-------------------------- MODULE DirectionProofs ---------------------------
(***************************************************************************)
(* One direction of a connection: the datagrams in flight, the receiver's  *)
(* two windows and the sender's sent packets (OneWay), and what becomes of *)
(* them when the sender sends, when the receiver receives, and when either *)
(* side's acks are taken. All is said of values, so that ConnectionProofs  *)
(* can use it for both directions.                                         *)
(*                                                                         *)
(* The lemmas assume SizesDivide (each buffer's size divides the modulus   *)
(* and is at most half of it, as the defaults do) and WithinReach (what    *)
(* the network and the applications may do is bounded by half a lap).      *)
(***************************************************************************)
EXTENDS Connection, FiniteSetTheorems, TLAPS

\* The units of the payloads.
Unit == {Blank} \cup (Nat \X Nat)

AllDatagrams ==
  [type : {"regular"}, header : Headers \cup {None}, content : Seq(Unit)]
  \cup
  [type : {"fragment"}, sequence : SequenceNumber, fragment_id : Nat,
   num_fragments : Nat \ {0}, header : Headers \cup {None}, content : Seq(Unit)]

ClientSide == INSTANCE EndpointProofs WITH
  sequence <- client_sequence, sent_packets <- client_sent_packets,
  received_packets <- client_received_packets,
  fragment_reassembly <- client_fragment_reassembly, acks <- client_acks,
  counters <- ZeroCounters, Byte <- Unit, Packets <- Seq(Unit), Datagrams <- AllDatagrams

-----------------------------------------------------------------------------
(* The parts of the invariant of a direction, stated of values so that they can
   be used for either direction: `st` is the setting, `sent` the packets sent in
   the direction and `delivered` those its receiver accepted; `back` and
   `accepted` are the same of the other direction, whose packets are acked. *)

NumberOf(id) == id % SequenceModulus

ContentOf(st, id) == [k \in 1 .. st.lengths[id] |-> <<id, k>>]

PacketOf(m) == m.datagram.content[1][1]

\* The packets a received window at n remembers.
Accepted(delivered, n) ==
  {id \in n - ReceivedPacketsBufferSize .. n - 1 : id >= 0 /\ delivered[id] > 0}

\* The headers packet id may carry `age` sends after its own: all they ack was
\* accepted, and their window was not further behind than the outage allows.
GoodHeaders(st, id, age, back, accepted) ==
  {h \in Headers :
     /\ h.sequence = NumberOf(id)
     /\ \E n \in 0 .. back :
          /\ n >= back - st.max_outage - age
          /\ h.ack = NumberOf(n - 1)
          /\ \A i \in h.ack_bits : n - 1 - i \in Accepted(accepted, n)}

\* Those of all its datagrams still in flight.
HeadersOf(st, id, network, back, accepted) ==
  {h \in Headers :
     /\ h.sequence = NumberOf(id)
     /\ \A m \in network :
          PacketOf(m) = id => h \in GoodHeaders(st, id, m.age, back, accepted)}

\* Every datagram in flight is part of a packet sent at most max_age sends ago,
\* and its age is that of the packet.
InFlight(st, network, sent, back, accepted) ==
  /\ network \subseteq [datagram : AllDatagrams, age : 0 .. st.max_age]
  /\ \A m \in network :
       /\ PacketOf(m) \in 0 .. sent - 1 /\ PacketOf(m) >= sent - 1 - m.age
       /\ \E h \in GoodHeaders(st, PacketOf(m), m.age, back, accepted) :
            ClientSide!PartOf(m.datagram, PacketOf(m), ContentOf(st, PacketOf(m)), h)
  /\ \A m1, m2 \in network : PacketOf(m1) = PacketOf(m2) => m1.age = m2.age

\* The receiver's window is at identity n and remembers what was delivered; a
\* delivered packet is behind it and was delivered once.
Window(st, n, received, delivered, sent) ==
  /\ n \in 0 .. sent /\ n >= sent - st.max_outage
  /\ ClientSide!KeepsIn(received, n, Accepted(delivered, n), ReceivedPacketsBufferSize)
  /\ DOMAIN delivered = {Mangled} \cup DOMAIN st.lengths
  /\ \A id \in DOMAIN delivered :
       /\ delivered[id] \in 0 .. 1
       /\ delivered[id] > 0 => id \in 0 .. n - 1

\* So is its reassembly window, whose entries hold parts of single packets.
Reassembling(st, n, reassembly, network, back, accepted) ==
  \E under :
    /\ ClientSide!KeepsIn(reassembly, n, under, FragmentReassemblyBufferSize)
    /\ \A id \in under :
         /\ id >= 0
         /\ ClientSide!GoodEntry(ClientSide!EntryOf(reassembly, id), ContentOf(st, id),
                                 HeadersOf(st, id, network, back, accepted))

Tracked(sent) == {id \in sent - SentPacketsBufferSize .. sent - 1 : id >= 0}

\* The sender tracks its last packets, flagged exactly when their ack was
\* reported, and reported acks are true and unique.
Sending(st, sequence, sent_packets, sent, reported, delivered) ==
  /\ sent \in Nat /\ 0 .. sent - 1 \subseteq DOMAIN st.lengths
  /\ sequence = NumberOf(sent)
  /\ ClientSide!KeepsIn(sent_packets, sent, Tracked(sent), SentPacketsBufferSize)
  /\ \A id \in Tracked(sent) : ClientSide!FlagOf(sent_packets, id) = (reported[id] > 0)
  /\ DOMAIN reported = {Mangled} \cup DOMAIN st.lengths
  /\ \A id \in DOMAIN reported :
       /\ reported[id] \in 0 .. 1
       /\ reported[id] > 0 => id \in 0 .. sent - 1 /\ delivered[id] > 0

\* One direction.
OneWay(st, network, sequence, sent_packets, sent, reported, received, reassembly, delivered,
       back, accepted) ==
  /\ InFlight(st, network, sent, back, accepted)
  /\ \E n : /\ Window(st, n, received, delivered, sent)
            /\ Reassembling(st, n, reassembly, network, back, accepted)
  /\ Sending(st, sequence, sent_packets, sent, reported, delivered)

-----------------------------------------------------------------------------
(* What the endpoint lemmas ask for *)

SizesDivide ==
  \A size \in {SentPacketsBufferSize, ReceivedPacketsBufferSize, FragmentReassemblyBufferSize} :
    SequenceModulus % size = 0 /\ size <= HalfModulus

\* How far behind a datagram or a window may be, in every setting, for 16-bit
\* comparisons to place it.
WithinReach ==
  \A st \in Settings : /\ st.max_age + 1 <= HalfModulus
                       /\ st.max_outage + ReceivedPacketsBufferSize <= HalfModulus

\* Config::default with 16-bit numbers, a network that forgets a datagram within
\* 32767 sends and outages of up to 32512 packets are such constants.
LEMMA DefaultsWithinReach ==
  /\ SequenceModulus = 65536
  /\ SentPacketsBufferSize = 256 /\ ReceivedPacketsBufferSize = 256
  /\ FragmentReassemblyBufferSize = 64
  /\ \A st \in Settings : st.max_age <= 32767 /\ st.max_outage <= 32512
  => SizesDivide /\ WithinReach
BY SettingsAssumption DEF SizesDivide, WithinReach, HalfModulus

\* The assumptions of the endpoint modules hold of either side.
LEMMA ClientGiven ==
  /\ Blank \in Unit /\ Seq(Unit) \subseteq Seq(Unit) /\ AllDatagrams = ClientSide!Datagram
  /\ Headers = ClientSide!Header /\ ClientSide!SequenceNumber = SequenceNumber
  /\ SizesDivide <=> ClientSide!SizesDivide
  /\ ClientSide!HalfModulus = HalfModulus
BY DEF Unit, AllDatagrams, ClientSide!Datagram, Headers, ClientSide!Header,
   ClientSide!SequenceNumber, SequenceNumber, SizesDivide, ClientSide!SizesDivide,
   HalfModulus, ClientSide!HalfModulus

\* Numbers mean the same here and in the endpoint modules.
LEMMA NumbersAgree == \A id : ClientSide!NumberOf(id) = NumberOf(id)
BY DEF ClientSide!NumberOf, NumberOf

-----------------------------------------------------------------------------
(* Packets and their identities *)

\* What a setting says.
LEMMA SettingData ==
  ASSUME NEW st \in Settings
  PROVE  /\ st.max_age \in Nat /\ st.max_outage \in Nat
         /\ \A id \in DOMAIN st.lengths : id \in Nat /\ st.lengths[id] \in Nat \ {0}
         /\ WithinReach => /\ st.max_age + 1 <= HalfModulus
                           /\ st.max_outage + ReceivedPacketsBufferSize <= HalfModulus
BY SettingsAssumption DEF WithinReach

\* The contents of a packet name it in every unit.
LEMMA ContentData ==
  ASSUME NEW st \in Settings, NEW id \in DOMAIN st.lengths
  PROVE  /\ ContentOf(st, id) \in Seq(Unit) /\ ContentOf(st, id) # <<>>
         /\ Len(ContentOf(st, id)) \in Nat \ {0}
         /\ \A k \in 1 .. Len(ContentOf(st, id)) : ContentOf(st, id)[k][1] = id
<1>1. id \in Nat /\ st.lengths[id] \in Nat \ {0}
  BY SettingData
<1> DEFINE n == st.lengths[id]
<1> HIDE DEF n
<1>2. \A k \in 1 .. n : <<id, k>> \in Unit
  BY <1>1 DEF Unit
<1>3. [k \in 1 .. n |-> <<id, k>>] \in Seq(Unit) /\ Len([k \in 1 .. n |-> <<id, k>>]) = n
  BY <1>1, <1>2 DEF n
<1>4. ContentOf(st, id) = [k \in 1 .. n |-> <<id, k>>]
  BY DEF ContentOf, n
<1> QED BY <1>1, <1>3, <1>4 DEF n

\* Modulus and halves.
LEMMA Halves ==
  /\ HalfModulus \in Nat \ {0} /\ SequenceModulus = 2 * HalfModulus
  /\ SequenceModulus \in Nat \ {0}
  /\ SentPacketsBufferSize \in Nat \ {0} /\ ReceivedPacketsBufferSize \in Nat \ {0}
  /\ FragmentReassemblyBufferSize \in Nat \ {0}
BY SequenceModulusAssumption, ConfigAssumption DEF HalfModulus

\* Whole laps do not change a remainder.
LEMMA Laps ==
  ASSUME NEW a \in Int, NEW k \in Int
  PROVE  (a + SequenceModulus * k) % SequenceModulus = a % SequenceModulus
<1>1. None \notin ClientSide!SentBuffer!SequenceNumber
  BY DataAssumption DEF ClientSide!SentBuffer!SequenceNumber, SequenceNumber
<1>2. /\ None \notin ClientSide!SequenceNumber /\ None \notin ClientSide!Header
      /\ \A h \in ClientSide!Header : HeaderBytes(h) \in 0 .. MaxPacketHeaderBytes
  BY ClientGiven, DataAssumption
<1>3. AllDatagrams \subseteq ClientSide!Datagram
  BY ClientGiven
<1>4. SequenceModulus \in Nat \ {0}
  BY SequenceModulusAssumption
<1> QED BY <1>1, <1>2, <1>3, <1>4, ClientGiven, ConfigAssumption, SequenceModulusAssumption,
           CounterModulusAssumption, ClientSide!SentBuffer!Congruent

\* Of the last SequenceModulus packets, the one a number names is the one that
\* carries it.
LEMMA BehindIs ==
  ASSUME NEW sent \in Int, NEW a \in sent - SequenceModulus .. sent - 1
  PROVE  IdentityBehind(NumberOf(a), sent) = a
<1> DEFINE q == a \div SequenceModulus
           r == a % SequenceModulus
           back == sent - 1 - a
<1>1. SequenceModulus \in Nat \ {0} /\ a \in Int
  BY Halves
<1>2. r \in Int /\ q \in Int /\ a = SequenceModulus * q + r
  BY <1>1, ClientSide!SentBuffer!Division
<1>3. back \in 0 .. SequenceModulus - 1
  BY <1>1
<1> HIDE DEF q, r
<1>4. sent - 1 - r = back + SequenceModulus * q /\ a = sent - 1 - back
  BY <1>1, <1>2
<1> HIDE DEF back
<1>5. (back + SequenceModulus * q) % SequenceModulus = back % SequenceModulus
  BY <1>2, <1>3, Laps
<1>6. back % SequenceModulus = back
  BY <1>1, <1>3
<1> QED BY <1>4, <1>5, <1>6 DEF IdentityBehind, NumberOf, r

\* How far a window at n is behind the sender.
LEMMA UnheardIs ==
  ASSUME NEW sent \in Int, NEW n \in sent - SequenceModulus + 1 .. sent,
         NEW received, received.sequence = NumberOf(n)
  PROVE  Unheard(received, sent) = sent - n
<1> DEFINE q == n \div SequenceModulus
           r == n % SequenceModulus
           back == sent - n
<1>1. SequenceModulus \in Nat \ {0} /\ n \in Int
  BY Halves
<1>2. r \in Int /\ q \in Int /\ n = SequenceModulus * q + r
  BY <1>1, ClientSide!SentBuffer!Division
<1>3. back \in 0 .. SequenceModulus - 1 /\ back \in Int
  BY <1>1
<1>7. received.sequence = r
  BY DEF NumberOf
<1> HIDE DEF q, r
<1>4. sent - r = back + SequenceModulus * q
  BY <1>1, <1>2
<1>8. Unheard(received, sent) = (back + SequenceModulus * q) % SequenceModulus
  BY <1>4, <1>7 DEF Unheard
<1> HIDE DEF back
<1>9. q \in Int /\ back \in Int
  BY <1>2, <1>3
<1>5. (back + SequenceModulus * q) % SequenceModulus = back % SequenceModulus
  BY <1>9, Laps
<1>6. back % SequenceModulus = back
  BY <1>1, <1>3
<1> QED BY <1>5, <1>6, <1>8 DEF back

\* A payload that is the contents of a packet sent is recognised as that packet.
LEMMA IdentityIs ==
  ASSUME setting \in Settings, NEW sent \in Nat, 0 .. sent - 1 \subseteq DOMAIN setting.lengths,
         NEW id \in 0 .. sent - 1
  PROVE  IdentityOf(ContentOf(setting, id), NumberOf(id), sent) = id
<1> DEFINE ids == {p \in 0 .. sent - 1 :
                     p % SequenceModulus = NumberOf(id) /\ Content(p) = ContentOf(setting, id)}
<1>1. id \in ids
  BY DEF NumberOf, Content, ContentOf
<1>2. ASSUME NEW p \in ids PROVE p = id
  <2>1. /\ p \in DOMAIN setting.lengths /\ id \in DOMAIN setting.lengths
        /\ ContentOf(setting, p) = ContentOf(setting, id)
    BY DEF Content, ContentOf
  <2>2. 1 \in 1 .. Len(ContentOf(setting, id)) /\ 1 \in 1 .. Len(ContentOf(setting, p))
    BY <2>1, ContentData
  <2>3. ContentOf(setting, id)[1][1] = id /\ ContentOf(setting, p)[1][1] = p
    BY <2>1, <2>2, ContentData
  <2> QED BY <2>1, <2>3
<1>3. ids = {id}
  BY <1>1, <1>2
<1>4. IdentityOf(ContentOf(setting, id), NumberOf(id), sent)
        = IF ids = {} THEN Mangled ELSE CHOOSE p \in ids : TRUE
  BY DEF IdentityOf
<1> HIDE DEF ids
<1> QED BY <1>3, <1>4

-----------------------------------------------------------------------------
(* What sending does to the datagrams in flight *)

\* A header allowed stays allowed as its packet grows older.
LEMMA HeadersAge ==
  ASSUME NEW st \in Settings, NEW id, NEW age \in Nat, NEW back \in Nat, NEW accepted,
         NEW later, later = back \/ later = back + 1,
         NEW h \in GoodHeaders(st, id, age, back, accepted)
  PROVE  h \in GoodHeaders(st, id, age + 1, later, accepted)
<1>1. PICK n \in 0 .. back :
            /\ n >= back - st.max_outage - age
            /\ h.ack = NumberOf(n - 1)
            /\ \A i \in h.ack_bits : n - 1 - i \in Accepted(accepted, n)
  BY DEF GoodHeaders
<1>2. n \in 0 .. later /\ n >= later - st.max_outage - (age + 1)
  BY <1>1, SettingData
<1>3. h \in Headers /\ h.sequence = NumberOf(id)
  BY DEF GoodHeaders
<1> QED BY <1>1, <1>2, <1>3 DEF GoodHeaders

\* A header allowed stays allowed as more packets are accepted.
LEMMA HeadersAccept ==
  ASSUME NEW st \in Settings, NEW id, NEW age, NEW back \in Nat, NEW accepted, NEW more,
         \A a \in 0 .. back - 1 : accepted[a] > 0 => more[a] > 0,
         NEW h \in GoodHeaders(st, id, age, back, accepted)
  PROVE  h \in GoodHeaders(st, id, age, back, more)
<1>1. PICK n \in 0 .. back :
            /\ n >= back - st.max_outage - age
            /\ h.ack = NumberOf(n - 1)
            /\ \A i \in h.ack_bits : n - 1 - i \in Accepted(accepted, n)
  BY DEF GoodHeaders
<1>2. \A a \in Accepted(accepted, n) : a \in Accepted(more, n)
  BY ConfigAssumption DEF Accepted
<1>3. h \in Headers /\ h.sequence = NumberOf(id)
  BY DEF GoodHeaders
<1> QED BY <1>1, <1>2, <1>3 DEF GoodHeaders

\* A datagram that was not forgotten is one send older.
LEMMA AgedData ==
  ASSUME setting \in Settings, NEW network,
         network \subseteq [datagram : AllDatagrams, age : 0 .. setting.max_age],
         NEW m \in Aged(network)
  PROVE  \E old \in network :
           /\ m.datagram = old.datagram /\ PacketOf(m) = PacketOf(old)
           /\ old.age \in Nat /\ m.age = old.age + 1
           /\ m \in [datagram : AllDatagrams, age : 0 .. setting.max_age]
<1>1. PICK old \in network : old.age < setting.max_age /\ m = [old EXCEPT !.age = @ + 1]
  BY DEF Aged
<1>2. old \in [datagram : AllDatagrams, age : 0 .. setting.max_age]
  OBVIOUS
<1>3. /\ m.datagram = old.datagram /\ m.age = old.age + 1 /\ old.age \in Nat
      /\ m \in [datagram : AllDatagrams, age : 0 .. setting.max_age]
  BY <1>1, <1>2, SettingData
<1> QED BY <1>3 DEF PacketOf

\* Datagram d is part of packet id, whose headers are among G.
Fresh(st, d, id, G) ==
  /\ d \in AllDatagrams /\ d.content[1][1] = id
  /\ \E h \in G : ClientSide!PartOf(d, id, ContentOf(st, id), h)

\* The datagrams in flight once a side has sent: the sender of this direction,
\* whose next packet is of datagrams D, or the other one, and then D is empty.
LEMMA AgedInFlight ==
  ASSUME setting \in Settings, NEW network, NEW sent \in Nat, NEW back \in Nat, NEW accepted,
         InFlight(setting, network, sent, back, accepted),
         NEW upto, upto = sent \/ upto = sent + 1,
         NEW later, later = back \/ later = back + 1,
         NEW D, D # {} => upto = sent + 1,
         \A d \in D : Fresh(setting, d, sent, GoodHeaders(setting, sent, 0, later, accepted))
  PROVE  InFlight(setting, Aged(network) \cup Carry(D), upto, later, accepted)
<1> DEFINE Flying == [datagram : AllDatagrams, age : 0 .. setting.max_age]
<1>1. /\ network \subseteq Flying
      /\ \A m \in network :
           /\ PacketOf(m) \in 0 .. sent - 1 /\ PacketOf(m) >= sent - 1 - m.age
           /\ \E h \in GoodHeaders(setting, PacketOf(m), m.age, back, accepted) :
                ClientSide!PartOf(m.datagram, PacketOf(m), ContentOf(setting, PacketOf(m)), h)
      /\ \A m1, m2 \in network : PacketOf(m1) = PacketOf(m2) => m1.age = m2.age
  BY DEF InFlight
<1>2. ASSUME NEW m \in Aged(network)
      PROVE  /\ m \in Flying
             /\ PacketOf(m) \in 0 .. upto - 1 /\ PacketOf(m) >= upto - 1 - m.age
             /\ PacketOf(m) \in 0 .. sent - 1
             /\ \E h \in GoodHeaders(setting, PacketOf(m), m.age, later, accepted) :
                  ClientSide!PartOf(m.datagram, PacketOf(m), ContentOf(setting, PacketOf(m)), h)
  <2>1. PICK old \in network :
           /\ m.datagram = old.datagram /\ PacketOf(m) = PacketOf(old)
           /\ old.age \in Nat /\ m.age = old.age + 1 /\ m \in Flying
    BY <1>1, <1>2, AgedData
  <2>2. /\ PacketOf(old) \in 0 .. sent - 1 /\ PacketOf(old) >= sent - 1 - old.age
    BY <1>1
  <2>3. PICK h \in GoodHeaders(setting, PacketOf(old), old.age, back, accepted) :
          ClientSide!PartOf(old.datagram, PacketOf(old), ContentOf(setting, PacketOf(old)), h)
    BY <1>1
  <2>4. h \in GoodHeaders(setting, PacketOf(m), m.age, later, accepted)
    BY <2>1, <2>3, HeadersAge
  <2>5. PacketOf(m) \in 0 .. upto - 1 /\ PacketOf(m) >= upto - 1 - m.age
    BY <2>1, <2>2
  <2> QED BY <2>1, <2>2, <2>3, <2>4, <2>5
<1>3. ASSUME NEW m \in Carry(D)
      PROVE  /\ m \in Flying /\ PacketOf(m) = sent /\ m.age = 0 /\ upto = sent + 1
             /\ \E h \in GoodHeaders(setting, PacketOf(m), m.age, later, accepted) :
                  ClientSide!PartOf(m.datagram, PacketOf(m), ContentOf(setting, PacketOf(m)), h)
  <2>1. PICK d \in D : m = [datagram |-> d, age |-> 0]
    BY <1>3 DEF Carry
  <2>2. m.datagram = d /\ m.age = 0 /\ 0 \in 0 .. setting.max_age
    BY <2>1, SettingData
  <2>3. d \in AllDatagrams /\ PacketOf(m) = sent
    BY <2>2 DEF Fresh, PacketOf
  <2> QED BY <2>1, <2>2, <2>3 DEF Fresh
<1>4. \A m \in Aged(network) \cup Carry(D) :
        /\ m \in Flying
        /\ PacketOf(m) \in 0 .. upto - 1 /\ PacketOf(m) >= upto - 1 - m.age
        /\ \E h \in GoodHeaders(setting, PacketOf(m), m.age, later, accepted) :
             ClientSide!PartOf(m.datagram, PacketOf(m), ContentOf(setting, PacketOf(m)), h)
  <2> TAKE m \in Aged(network) \cup Carry(D)
  <2>1. CASE m \in Aged(network)
    BY <2>1, <1>2
  <2>2. CASE m \in Carry(D)
    <3>1. /\ m \in Flying /\ PacketOf(m) = sent /\ m.age = 0 /\ upto = sent + 1
      BY <2>2, <1>3
    <3>2. PacketOf(m) \in 0 .. upto - 1 /\ PacketOf(m) >= upto - 1 - m.age
      BY <3>1
    <3> QED BY <2>2, <1>3, <3>1, <3>2
  <2> QED BY <2>1, <2>2
<1>5. ASSUME NEW m1 \in Aged(network) \cup Carry(D), NEW m2 \in Aged(network) \cup Carry(D),
             PacketOf(m1) = PacketOf(m2)
      PROVE  m1.age = m2.age
  <2>1. CASE m1 \in Aged(network) /\ m2 \in Aged(network)
    <3>1. PICK old1 \in network : PacketOf(m1) = PacketOf(old1) /\ m1.age = old1.age + 1
      BY <1>1, <2>1, AgedData
    <3>2. PICK old2 \in network : PacketOf(m2) = PacketOf(old2) /\ m2.age = old2.age + 1
      BY <1>1, <2>1, AgedData
    <3> QED BY <1>1, <1>5, <3>1, <3>2
  <2>2. CASE m1 \in Carry(D) /\ m2 \in Carry(D)
    BY <2>2, <1>3
  <2>3. CASE m1 \in Aged(network) /\ m2 \in Carry(D)
    <3>1. PacketOf(m1) \in 0 .. sent - 1 /\ PacketOf(m2) = sent
      BY <2>3, <1>2, <1>3
    <3> QED BY <3>1, <1>5
  <2>4. CASE m1 \in Carry(D) /\ m2 \in Aged(network)
    <3>1. PacketOf(m2) \in 0 .. sent - 1 /\ PacketOf(m1) = sent
      BY <2>4, <1>2, <1>3
    <3> QED BY <3>1, <1>5
  <2> QED BY <2>1, <2>2, <2>3, <2>4
<1>6. Aged(network) \cup Carry(D) \subseteq Flying
  BY <1>4
<1> QED BY <1>4, <1>5, <1>6 DEF InFlight

\* Sending keeps the headers a packet may have: its datagrams grow older, and
\* those of the next packet are not its own.
LEMMA AgedHeadersOf ==
  ASSUME setting \in Settings, NEW network,
         network \subseteq [datagram : AllDatagrams, age : 0 .. setting.max_age],
         NEW back \in Nat, NEW accepted, NEW later, later = back \/ later = back + 1,
         NEW D, NEW id, \A d \in D : d.content[1][1] # id
  PROVE  HeadersOf(setting, id, network, back, accepted)
           \subseteq HeadersOf(setting, id, Aged(network) \cup Carry(D), later, accepted)
<1> SUFFICES ASSUME NEW h \in HeadersOf(setting, id, network, back, accepted),
                    NEW m \in Aged(network) \cup Carry(D), PacketOf(m) = id
             PROVE  h \in GoodHeaders(setting, id, m.age, later, accepted)
  BY DEF HeadersOf
<1>1. m \in Aged(network)
  <2>1. CASE m \in Carry(D)
    <3>1. PICK d \in D : m = [datagram |-> d, age |-> 0]
      BY <2>1 DEF Carry
    <3>2. PacketOf(m) = d.content[1][1]
      BY <3>1 DEF PacketOf
    <3> QED BY <3>2
  <2> QED BY <2>1
<1>2. PICK old \in network : /\ PacketOf(m) = PacketOf(old)
                             /\ old.age \in Nat /\ m.age = old.age + 1
  BY <1>1, AgedData
<1>3. h \in GoodHeaders(setting, id, old.age, back, accepted)
  BY <1>2 DEF HeadersOf
<1> QED BY <1>2, <1>3, HeadersAge

-----------------------------------------------------------------------------
(* A side sends: what becomes of either direction *)

\* More headers are allowed to a good entry.
LEMMA MoreHeaders ==
  ASSUME NEW r, NEW content, NEW G, NEW H, G \subseteq H, ClientSide!GoodEntry(r, content, G)
  PROVE  ClientSide!GoodEntry(r, content, H)
BY DEF ClientSide!GoodEntry

\* The packets under reassembly are untouched.
LEMMA AgedReassembling ==
  ASSUME setting \in Settings, NEW network,
         network \subseteq [datagram : AllDatagrams, age : 0 .. setting.max_age],
         NEW sent \in Nat, NEW n \in 0 .. sent, NEW back \in Nat, NEW accepted,
         NEW later, later = back \/ later = back + 1, NEW reassembly,
         Reassembling(setting, n, reassembly, network, back, accepted),
         NEW D, \A d \in D : d.content[1][1] = sent
  PROVE  Reassembling(setting, n, reassembly, Aged(network) \cup Carry(D), later, accepted)
<1>1. PICK under :
    /\ ClientSide!KeepsIn(reassembly, n, under, FragmentReassemblyBufferSize)
    /\ \A id \in under :
         /\ id >= 0
         /\ ClientSide!GoodEntry(ClientSide!EntryOf(reassembly, id), ContentOf(setting, id),
                                 HeadersOf(setting, id, network, back, accepted))
  BY DEF Reassembling
<1>2. ASSUME NEW id \in under
      PROVE  ClientSide!GoodEntry(ClientSide!EntryOf(reassembly, id), ContentOf(setting, id),
                 HeadersOf(setting, id, Aged(network) \cup Carry(D), later, accepted))
  <2>1. id \in n - FragmentReassemblyBufferSize .. n - 1
    BY <1>1 DEF ClientSide!KeepsIn
  <2>2. \A d \in D : d.content[1][1] # id
    BY <2>1, Halves
  <2>3. HeadersOf(setting, id, network, back, accepted)
          \subseteq HeadersOf(setting, id, Aged(network) \cup Carry(D), later, accepted)
    BY <2>2, AgedHeadersOf
  <2>4. ClientSide!GoodEntry(ClientSide!EntryOf(reassembly, id), ContentOf(setting, id),
                             HeadersOf(setting, id, network, back, accepted))
    BY <1>1
  <2> QED BY <2>3, <2>4, MoreHeaders
<1> QED BY <1>1, <1>2 DEF Reassembling

\* send_packet tracks the packet it sends, which nobody has received.
LEMMA SendTracks ==
  ASSUME setting \in Settings, NEW sequence, NEW sent_packets, NEW sent, NEW reported,
         NEW delivered,
         Sending(setting, sequence, sent_packets, sent, reported, delivered),
         sent \in DOMAIN setting.lengths,
         NEW next, NEW tracked, next = NumberOf(sent + 1),
         ClientSide!KeepsIn(tracked, sent + 1,
           ClientSide!Kept(Tracked(sent), sent + 1, SentPacketsBufferSize) \cup {sent},
           SentPacketsBufferSize),
         ClientSide!FlagOf(tracked, sent) = FALSE,
         ClientSide!SameFlags(tracked, sent_packets,
           ClientSide!Kept(Tracked(sent), sent + 1, SentPacketsBufferSize))
  PROVE  Sending(setting, next, tracked, sent + 1, reported, delivered)
<1> DEFINE kept == ClientSide!Kept(Tracked(sent), sent + 1, SentPacketsBufferSize)
<1>1. /\ sent \in Nat /\ 0 .. sent - 1 \subseteq DOMAIN setting.lengths
      /\ \A id \in Tracked(sent) :
           ClientSide!FlagOf(sent_packets, id) = (reported[id] > 0)
      /\ DOMAIN reported = {Mangled} \cup DOMAIN setting.lengths
      /\ \A id \in DOMAIN reported :
           /\ reported[id] \in 0 .. 1
           /\ reported[id] > 0 => id \in 0 .. sent - 1 /\ delivered[id] > 0
  BY DEF Sending
<1>2. kept \cup {sent} = Tracked(sent + 1)
  BY <1>1, Halves DEF ClientSide!Kept, Tracked
<1>3. kept \subseteq Tracked(sent)
  BY DEF ClientSide!Kept
<1>4. \A id \in kept : ClientSide!FlagOf(tracked, id) = (reported[id] > 0)
  BY <1>1, <1>3 DEF ClientSide!SameFlags
<1>5. ClientSide!FlagOf(tracked, sent) = (reported[sent] > 0)
  <2>1. sent \in DOMAIN reported /\ ~(sent \in 0 .. sent - 1)
    BY <1>1
  <2>2. (reported[sent] > 0) = FALSE
    BY <1>1, <2>1
  <2> HIDE DEF kept
  <2> QED BY <2>2
<1>6. 0 .. (sent + 1) - 1 \subseteq DOMAIN setting.lengths /\ sent + 1 \in Nat
  BY <1>1
<1>7. \A id \in DOMAIN reported :
           /\ reported[id] \in 0 .. 1
           /\ reported[id] > 0 => id \in 0 .. (sent + 1) - 1 /\ delivered[id] > 0
  BY <1>1
<1>8. \A id \in Tracked(sent + 1) : ClientSide!FlagOf(tracked, id) = (reported[id] > 0)
  BY <1>2, <1>4, <1>5
<1>9. ClientSide!KeepsIn(tracked, sent + 1, Tracked(sent + 1), SentPacketsBufferSize)
  BY <1>2
<1> HIDE DEF kept
<1> QED BY <1>1, <1>6, <1>7, <1>8, <1>9 DEF Sending

\* The direction in which a side sends its next packet.
LEMMA SendAhead ==
  ASSUME WithinReach, setting \in Settings, NEW network, NEW sequence, NEW sent_packets, NEW sent,
         NEW reported, NEW received, NEW reassembly, NEW delivered, NEW back \in Nat,
         NEW accepted,
         OneWay(setting, network, sequence, sent_packets, sent, reported, received, reassembly,
                delivered, back, accepted),
         sent \in DOMAIN setting.lengths, Unheard(received, sent) < setting.max_outage,
         NEW D,
         \A d \in D : Fresh(setting, d, sent, GoodHeaders(setting, sent, 0, back, accepted)),
         NEW next, NEW tracked, next = NumberOf(sent + 1),
         ClientSide!KeepsIn(tracked, sent + 1,
           ClientSide!Kept(Tracked(sent), sent + 1, SentPacketsBufferSize) \cup {sent},
           SentPacketsBufferSize),
         ClientSide!FlagOf(tracked, sent) = FALSE,
         ClientSide!SameFlags(tracked, sent_packets,
           ClientSide!Kept(Tracked(sent), sent + 1, SentPacketsBufferSize))
  PROVE  OneWay(setting, Aged(network) \cup Carry(D), next, tracked, sent + 1, reported,
                received, reassembly, delivered, back, accepted)
<1>1. PICK n : /\ Window(setting, n, received, delivered, sent)
               /\ Reassembling(setting, n, reassembly, network, back, accepted)
  BY DEF OneWay
<1>2. /\ InFlight(setting, network, sent, back, accepted)
      /\ Sending(setting, sequence, sent_packets, sent, reported, delivered)
      /\ sent \in Nat
  BY DEF OneWay, Sending
<1>3. InFlight(setting, Aged(network) \cup Carry(D), sent + 1, back, accepted)
  BY <1>2, AgedInFlight
<1>4. /\ n \in 0 .. sent /\ n >= sent - setting.max_outage
      /\ received.sequence = NumberOf(n)
  BY <1>1, NumbersAgree DEF Window, ClientSide!KeepsIn
<1>5. n \in 0 .. sent + 1 /\ n >= (sent + 1) - setting.max_outage
  <2>1. n \in sent - SequenceModulus + 1 .. sent
    BY <1>2, <1>4, SettingData, Halves
  <2>2. Unheard(received, sent) = sent - n
    BY <1>2, <1>4, <2>1, UnheardIs
  <2> QED BY <1>2, <1>4, <2>2, SettingData
<1>6. Window(setting, n, received, delivered, sent + 1)
  BY <1>1, <1>5 DEF Window
<1>7. Reassembling(setting, n, reassembly, Aged(network) \cup Carry(D), back, accepted)
  <2>1. \A d \in D : d.content[1][1] = sent
    BY DEF Fresh
  <2>2. network \subseteq [datagram : AllDatagrams, age : 0 .. setting.max_age]
    BY <1>2 DEF InFlight
  <2> QED BY <1>1, <1>2, <1>4, <2>1, <2>2, AgedReassembling
<1>8. Sending(setting, next, tracked, sent + 1, reported, delivered)
  BY <1>2, SendTracks
<1> QED BY <1>3, <1>6, <1>7, <1>8 DEF OneWay

\* The other direction, whose datagrams grow older too.
LEMMA SendBehind ==
  ASSUME setting \in Settings, NEW network, NEW sequence, NEW sent_packets, NEW sent,
         NEW reported, NEW received, NEW reassembly, NEW delivered, NEW back \in Nat,
         NEW accepted,
         OneWay(setting, network, sequence, sent_packets, sent, reported, received, reassembly,
                delivered, back, accepted)
  PROVE  OneWay(setting, Aged(network), sequence, sent_packets, sent, reported, received,
                reassembly, delivered, back + 1, accepted)
<1>1. PICK n : /\ Window(setting, n, received, delivered, sent)
               /\ Reassembling(setting, n, reassembly, network, back, accepted)
  BY DEF OneWay
<1>2. /\ InFlight(setting, network, sent, back, accepted)
      /\ Sending(setting, sequence, sent_packets, sent, reported, delivered)
      /\ sent \in Nat
  BY DEF OneWay, Sending
<1>3. Aged(network) \cup Carry({}) = Aged(network)
  BY DEF Carry
<1>4. n \in 0 .. sent
  BY <1>1 DEF Window
<1>5. network \subseteq [datagram : AllDatagrams, age : 0 .. setting.max_age]
  BY <1>2 DEF InFlight
<1>6. InFlight(setting, Aged(network) \cup Carry({}), sent, back + 1, accepted)
  BY <1>2, AgedInFlight
<1>7. Reassembling(setting, n, reassembly, Aged(network) \cup Carry({}), back + 1, accepted)
  BY <1>1, <1>2, <1>4, <1>5, AgedReassembling
<1> QED BY <1>1, <1>2, <1>3, <1>6, <1>7 DEF OneWay

-----------------------------------------------------------------------------
(* A side receives: the direction of the datagram *)

\* Any datagram in flight is within reach of the window and is part of its
\* packet, with a header that packet may have.
LEMMA Arrival ==
  ASSUME WithinReach, setting \in Settings, NEW network, NEW sent \in Nat, NEW back, NEW accepted,
         InFlight(setting, network, sent, back, accepted),
         NEW n \in 0 .. sent, n >= sent - setting.max_outage, NEW m \in network
  PROVE  /\ PacketOf(m) \in 0 .. sent - 1 /\ m.datagram \in AllDatagrams
         /\ m.age \in 0 .. setting.max_age
         /\ ClientSide!InReach(PacketOf(m), n)
         /\ \E h \in HeadersOf(setting, PacketOf(m), network, back, accepted) :
              ClientSide!PartOf(m.datagram, PacketOf(m), ContentOf(setting, PacketOf(m)), h)
<1>1. /\ network \subseteq [datagram : AllDatagrams, age : 0 .. setting.max_age]
      /\ PacketOf(m) \in 0 .. sent - 1 /\ PacketOf(m) >= sent - 1 - m.age
      /\ \A m1, m2 \in network : PacketOf(m1) = PacketOf(m2) => m1.age = m2.age
  BY DEF InFlight
<1>2. PICK h \in GoodHeaders(setting, PacketOf(m), m.age, back, accepted) :
        ClientSide!PartOf(m.datagram, PacketOf(m), ContentOf(setting, PacketOf(m)), h)
  BY DEF InFlight
<1>3. m.datagram \in AllDatagrams /\ m.age \in 0 .. setting.max_age
  BY <1>1
<1>4. h \in HeadersOf(setting, PacketOf(m), network, back, accepted)
  <2>1. h \in Headers /\ h.sequence = NumberOf(PacketOf(m))
    BY <1>2 DEF GoodHeaders
  <2>2. ASSUME NEW other \in network, PacketOf(other) = PacketOf(m)
        PROVE  h \in GoodHeaders(setting, PacketOf(m), other.age, back, accepted)
    <3>1. other.age = m.age
      BY <1>1, <2>2
    <3> QED BY <1>2, <3>1
  <2> QED BY <2>1, <2>2 DEF HeadersOf
<1>5. ClientSide!InReach(PacketOf(m), n)
  BY <1>1, <1>3, SettingData, Halves, ClientGiven DEF ClientSide!InReach
<1> QED BY <1>1, <1>2, <1>3, <1>4, <1>5

\* What of the packets delivered once packet id was processed.
Delivered(delivered, id, process) ==
  IF process = "accepted" THEN [delivered EXCEPT ![id] = @ + 1] ELSE delivered

\* Nothing delivered is forgotten.
LEMMA DeliveredGrows ==
  ASSUME NEW delivered, NEW id, NEW process, NEW a \in DOMAIN delivered,
         delivered[a] \in Nat, delivered[a] > 0
  PROVE  Delivered(delivered, id, process)[a] > 0
BY DEF Delivered

\* The received window after packet id was heard.
LEMMA HeardWindow ==
  ASSUME setting \in Settings, NEW sent \in Nat, 0 .. sent - 1 \subseteq DOMAIN setting.lengths,
         NEW n, NEW received, NEW delivered, Window(setting, n, received, delivered, sent),
         NEW id \in 0 .. sent - 1, NEW p \in ClientSide!Moves(n, id), NEW after, NEW process,
         ClientSide!HeardOf(after, id, n, Accepted(delivered, n), p, process)
  PROVE  Window(setting, p, after, Delivered(delivered, id, process), sent)
<1> DEFINE R == ReceivedPacketsBufferSize
           ids == Accepted(delivered, n)
           more == Delivered(delivered, id, process)
<1>1. /\ n \in 0 .. sent /\ n >= sent - setting.max_outage
      /\ DOMAIN delivered = {Mangled} \cup DOMAIN setting.lengths
      /\ \A a \in DOMAIN delivered :
           /\ delivered[a] \in 0 .. 1
           /\ delivered[a] > 0 => a \in 0 .. n - 1
  BY DEF Window
<1>2. R \in Nat \ {0}
  BY Halves
<1>3. /\ p \in 0 .. sent /\ p >= n /\ p >= sent - setting.max_outage
  BY <1>1, SettingData DEF ClientSide!Moves, ClientSide!Reached
<1>4. id \in DOMAIN delivered
  BY <1>1
<1>5. CASE process = "accepted"
  <2>1. /\ id \notin ids /\ id >= n - R /\ p = ClientSide!Reached(n, id)
        /\ ClientSide!KeepsIn(after, p, ClientSide!Kept(ids, p, R) \cup {id}, R)
    BY <1>5 DEF ClientSide!HeardOf
  <2>2. delivered[id] = 0
    <3>1. SUFFICES ASSUME delivered[id] > 0 PROVE FALSE
      BY <1>1, <1>4
    <3>2. id \in 0 .. n - 1
      BY <1>1, <1>4, <3>1
    <3>3. id \in n - R .. n - 1
      BY <1>1, <1>2, <2>1, <3>2
    <3> QED BY <2>1, <3>1, <3>2, <3>3 DEF Accepted
  <2>3. /\ DOMAIN more = DOMAIN delivered /\ more[id] = 1
        /\ \A a \in DOMAIN delivered : a # id => more[a] = delivered[a]
    BY <1>4, <1>5, <2>2 DEF Delivered
  <2>4. id \in p - R .. p - 1
    BY <1>1, <1>2, <2>1 DEF ClientSide!Reached
  <2> HIDE DEF more
  <2>5. Accepted(more, p) \subseteq ClientSide!Kept(ids, p, R) \cup {id}
    <3> SUFFICES ASSUME NEW a \in Accepted(more, p), a # id
                 PROVE  a \in ids /\ a >= p - R
      BY DEF ClientSide!Kept
    <3>1. a \in p - R .. p - 1 /\ a >= 0 /\ more[a] > 0
      BY DEF Accepted
    <3>2. a \in 0 .. sent - 1 /\ a \in DOMAIN delivered
      BY <1>1, <1>2, <1>3, <3>1
    <3>3. delivered[a] > 0 /\ a \in 0 .. n - 1
      BY <1>1, <2>3, <3>1, <3>2
    <3>4. a \in n - R .. n - 1
      BY <1>1, <1>2, <1>3, <3>1, <3>3
    <3> QED BY <1>2, <1>3, <3>1, <3>3, <3>4 DEF Accepted
  <2>6. ClientSide!Kept(ids, p, R) \cup {id} \subseteq Accepted(more, p)
    <3>1. id \in Accepted(more, p)
      BY <2>3, <2>4 DEF Accepted
    <3>2. ASSUME NEW a \in ClientSide!Kept(ids, p, R) PROVE a \in Accepted(more, p)
      <4>1. a \in n - R .. n - 1 /\ a >= 0 /\ delivered[a] > 0 /\ a >= p - R
        BY DEF ClientSide!Kept, Accepted
      <4>2. a \in p - R .. p - 1 /\ a \in DOMAIN delivered
        BY <1>1, <1>2, <1>3, <4>1
      <4>3. more[a] > 0
        BY <2>3, <4>1, <4>2
      <4> QED BY <4>1, <4>2, <4>3 DEF Accepted
    <3> QED BY <3>1, <3>2
  <2>7. \A a \in DOMAIN more : more[a] \in 0 .. 1 /\ (more[a] > 0 => a \in 0 .. p - 1)
    <3> TAKE a \in DOMAIN more
    <3>1. CASE a = id
      BY <1>2, <2>3, <2>4, <3>1
    <3>2. CASE a # id
      <4>1. /\ more[a] = delivered[a] /\ delivered[a] \in 0 .. 1
            /\ delivered[a] > 0 => a \in 0 .. n - 1
        BY <1>1, <2>3, <3>2
      <4> QED BY <1>1, <1>3, <4>1
    <3> QED BY <3>1, <3>2
  <2>8. Accepted(more, p) = ClientSide!Kept(ids, p, R) \cup {id}
    BY <2>5, <2>6
  <2> QED BY <1>1, <1>3, <2>1, <2>3, <2>7, <2>8 DEF Window, more
<1>6. CASE process # "accepted"
  <2>1. more = delivered
    BY <1>6 DEF Delivered
  <2>2. ClientSide!KeepsIn(after, p, ClientSide!Kept(ids, p, R), R)
    BY <1>6 DEF ClientSide!HeardOf
  <2>3. Accepted(delivered, p) \subseteq ClientSide!Kept(ids, p, R)
    <3> SUFFICES ASSUME NEW a \in Accepted(delivered, p)
                 PROVE  a \in ids /\ a >= p - R
      BY DEF ClientSide!Kept
    <3>1. a \in p - R .. p - 1 /\ a >= 0 /\ delivered[a] > 0
      BY DEF Accepted
    <3>2. a \in 0 .. sent - 1 /\ a \in DOMAIN delivered
      BY <1>1, <1>2, <1>3, <3>1
    <3>3. a \in 0 .. n - 1
      BY <1>1, <3>1, <3>2
    <3>4. a \in n - R .. n - 1
      BY <1>1, <1>2, <1>3, <3>1, <3>3
    <3> QED BY <1>2, <1>3, <3>1, <3>4 DEF Accepted
  <2>4. ClientSide!Kept(ids, p, R) \subseteq Accepted(delivered, p)
    <3> SUFFICES ASSUME NEW a \in ClientSide!Kept(ids, p, R) PROVE a \in Accepted(delivered, p)
      OBVIOUS
    <3>1. a \in n - R .. n - 1 /\ a >= 0 /\ delivered[a] > 0 /\ a >= p - R
      BY DEF ClientSide!Kept, Accepted
    <3>2. a \in p - R .. p - 1
      BY <1>1, <1>2, <1>3, <3>1
    <3> QED BY <3>1, <3>2 DEF Accepted
  <2>5. Accepted(delivered, p) = ClientSide!Kept(ids, p, R)
    BY <2>3, <2>4
  <2>6. \A a \in DOMAIN delivered :
          delivered[a] \in 0 .. 1 /\ (delivered[a] > 0 => a \in 0 .. p - 1)
    BY <1>1, <1>3
  <2> HIDE DEF more
  <2> QED BY <1>1, <1>3, <2>1, <2>2, <2>5, <2>6 DEF Window, more
<1> QED BY <1>5, <1>6

\* The reassembly window after packet id was heard.
LEMMA HeardReassembling ==
  ASSUME NEW network, NEW back, NEW accepted, NEW n, NEW under, NEW reassembly, NEW id, id >= 0,
         \A q \in under :
           /\ q >= 0
           /\ ClientSide!GoodEntry(ClientSide!EntryOf(reassembly, q), ContentOf(setting, q),
                                   HeadersOf(setting, q, network, back, accepted)),
         NEW p, NEW received, NEW ids, NEW after, NEW process,
         ClientSide!WindowsAt(received, after, reassembly, p, n, ids, under, id,
           ContentOf(setting, id), HeadersOf(setting, id, network, back, accepted), process)
  PROVE  Reassembling(setting, p, after, network, back, accepted)
<1>1. PICK rest :
        /\ rest \subseteq ClientSide!Kept(under, p, FragmentReassemblyBufferSize) \cup {id}
        /\ ClientSide!KeepsIn(after, p, rest, FragmentReassemblyBufferSize)
        /\ ClientSide!SameEntries(after, reassembly, rest \ {id})
        /\ id \in rest => ClientSide!GoodEntry(ClientSide!EntryOf(after, id),
                            ContentOf(setting, id),
                            HeadersOf(setting, id, network, back, accepted))
  BY DEF ClientSide!WindowsAt
<1>2. ASSUME NEW q \in rest
      PROVE  /\ q >= 0
             /\ ClientSide!GoodEntry(ClientSide!EntryOf(after, q), ContentOf(setting, q),
                                     HeadersOf(setting, q, network, back, accepted))
  <2>1. CASE q = id
    BY <1>1, <1>2, <2>1
  <2>2. CASE q # id
    <3>1. q \in under /\ q \in rest \ {id}
      BY <1>1, <1>2, <2>2 DEF ClientSide!Kept
    <3>2. ClientSide!EntryOf(after, q) = ClientSide!EntryOf(reassembly, q)
      BY <1>1, <3>1 DEF ClientSide!SameEntries
    <3> QED BY <3>1, <3>2
  <2> QED BY <2>1, <2>2
<1> QED BY <1>1, <1>2 DEF Reassembling

\* What the closure's call adds to the deliveries.
LEMMA DeliverIs ==
  ASSUME setting \in Settings, NEW sent \in Nat, 0 .. sent - 1 \subseteq DOMAIN setting.lengths,
         NEW id \in 0 .. sent - 1, NEW delivered, NEW content, NEW process,
         process # "unused" => content = ContentOf(setting, id)
  PROVE  Deliver(delivered, process, content, NumberOf(id), sent)
           = Delivered(delivered, id, process)
<1>1. CASE process = "unused"
  BY <1>1 DEF Deliver, Delivered
<1>2. CASE process # "unused"
  <2>1. IdentityOf(content, NumberOf(id), sent) = id
    BY <1>2, IdentityIs
  <2>2. id # Mangled
    BY DEF Mangled
  <2> QED BY <1>2, <2>1, <2>2 DEF Deliver, Delivered
<1> QED BY <1>1, <1>2

-----------------------------------------------------------------------------
(* A side receives: the other direction, whose packets are acked *)

\* More packets of the other direction are accepted: what the headers in flight
\* and under reassembly ack stays true.
LEMMA AcceptsMore ==
  ASSUME NEW st \in Settings, NEW network, NEW sequence, NEW sent_packets, NEW sent, NEW reported,
         NEW received, NEW reassembly, NEW delivered, NEW back \in Nat, NEW accepted,
         OneWay(st, network, sequence, sent_packets, sent, reported, received, reassembly,
                delivered, back, accepted),
         NEW more, \A a \in 0 .. back - 1 : accepted[a] > 0 => more[a] > 0
  PROVE  OneWay(st, network, sequence, sent_packets, sent, reported, received, reassembly,
                delivered, back, more)
<1>1. PICK n : /\ Window(st, n, received, delivered, sent)
               /\ Reassembling(st, n, reassembly, network, back, accepted)
  BY DEF OneWay
<1>2. /\ InFlight(st, network, sent, back, accepted)
      /\ Sending(st, sequence, sent_packets, sent, reported, delivered)
  BY DEF OneWay
<1>3. InFlight(st, network, sent, back, more)
  <2>1. ASSUME NEW m \in network
        PROVE  \E h \in GoodHeaders(st, PacketOf(m), m.age, back, more) :
                 ClientSide!PartOf(m.datagram, PacketOf(m), ContentOf(st, PacketOf(m)), h)
    <3>1. PICK h \in GoodHeaders(st, PacketOf(m), m.age, back, accepted) :
            ClientSide!PartOf(m.datagram, PacketOf(m), ContentOf(st, PacketOf(m)), h)
      BY <1>2 DEF InFlight
    <3>2. h \in GoodHeaders(st, PacketOf(m), m.age, back, more)
      BY HeadersAccept
    <3> QED BY <3>1, <3>2
  <2> QED BY <1>2, <2>1 DEF InFlight
<1>4. Reassembling(st, n, reassembly, network, back, more)
  <2>1. PICK under :
      /\ ClientSide!KeepsIn(reassembly, n, under, FragmentReassemblyBufferSize)
      /\ \A id \in under :
           /\ id >= 0
           /\ ClientSide!GoodEntry(ClientSide!EntryOf(reassembly, id), ContentOf(st, id),
                                   HeadersOf(st, id, network, back, accepted))
    BY <1>1 DEF Reassembling
  <2>2. ASSUME NEW id \in under
        PROVE  ClientSide!GoodEntry(ClientSide!EntryOf(reassembly, id), ContentOf(st, id),
                                    HeadersOf(st, id, network, back, more))
    <3>1. ASSUME NEW h \in HeadersOf(st, id, network, back, accepted)
          PROVE  h \in HeadersOf(st, id, network, back, more)
      <4>1. ASSUME NEW m \in network, PacketOf(m) = id
            PROVE  h \in GoodHeaders(st, id, m.age, back, more)
        <5>1. h \in GoodHeaders(st, id, m.age, back, accepted)
          BY <4>1 DEF HeadersOf
        <5> QED BY <5>1, HeadersAccept
      <4> QED BY <4>1 DEF HeadersOf
    <3>2. HeadersOf(st, id, network, back, accepted)
          \subseteq HeadersOf(st, id, network, back, more)
      BY <3>1
    <3> QED BY <2>1, <3>2, MoreHeaders
  <2> QED BY <2>1, <2>2 DEF Reassembling
<1> QED BY <1>1, <1>2, <1>3, <1>4 DEF OneWay

\* The packets a header acks.
Named(h, n) == {n - 1 - i : i \in h.ack_bits}

\* What a header in flight acks was sent within reach and accepted.
LEMMA NamedAccepted ==
  ASSUME WithinReach, NEW st \in Settings, NEW id, NEW age \in 0 .. st.max_age, NEW back \in Nat,
         NEW accepted, NEW h \in GoodHeaders(st, id, age, back, accepted)
  PROVE  /\ h \in Headers
         /\ \E n \in Nat :
              /\ h.ack = NumberOf(n - 1)
              /\ \A i \in h.ack_bits : n - 1 - i \in back - SequenceModulus .. back - 1
              /\ \A a \in Named(h, n) : a \in 0 .. back - 1 /\ accepted[a] > 0
<1>1. PICK n \in 0 .. back :
            /\ n >= back - st.max_outage - age
            /\ h.ack = NumberOf(n - 1)
            /\ \A i \in h.ack_bits : n - 1 - i \in Accepted(accepted, n)
  BY DEF GoodHeaders
<1>2. ASSUME NEW a \in Accepted(accepted, n)
      PROVE  a \in back - SequenceModulus .. back - 1 /\ a \in 0 .. back - 1 /\ accepted[a] > 0
  <2>1. a \in n - ReceivedPacketsBufferSize .. n - 1 /\ a >= 0 /\ accepted[a] > 0
    BY DEF Accepted
  <2>2. /\ st.max_age + 1 <= HalfModulus /\ st.max_age \in Nat /\ st.max_outage \in Nat
        /\ st.max_outage + ReceivedPacketsBufferSize <= HalfModulus
    BY SettingData
  <2>3. n \in Int /\ n <= back /\ a \in Int
    BY <2>1, Halves
  <2>4. a >= back - SequenceModulus
    BY <1>1, <2>1, <2>2, <2>3, Halves
  <2> QED BY <2>1, <2>3, <2>4, Halves
<1>3. h \in Headers /\ n \in Nat
  BY DEF GoodHeaders
<1>4. \A i \in h.ack_bits : n - 1 - i \in back - SequenceModulus .. back - 1
  BY <1>1, <1>2
<1>5. \A a \in Named(h, n) : a \in 0 .. back - 1 /\ accepted[a] > 0
  BY <1>1, <1>2 DEF Named
<1> QED BY <1>1, <1>3, <1>4, <1>5

\* The acks that name packet id among the new ones.
AcksFor(id, before, after, sent) ==
  {k \in Len(before) + 1 .. Len(after) : IdentityBehind(after[k], sent) = id}

\* They are one ack if the packet is freshly acked, and none otherwise.
LEMMA AcksCount ==
  ASSUME NEW sent \in Nat, NEW before, NEW after, NEW fresh,
         \A a \in fresh : a \in sent - SequenceModulus .. sent - 1,
         ClientSide!Appends(before, after, fresh), NEW id
  PROVE  Cardinality(AcksFor(id, before, after, sent)) = IF id \in fresh THEN 1 ELSE 0
<1> DEFINE new == Len(before) + 1 .. Len(after)
<1>1. /\ \A k \in new : \E a \in fresh : after[k] = NumberOf(a)
      /\ \A a \in fresh : \E k \in new : after[k] = NumberOf(a)
      /\ \A j, k \in new : after[j] = after[k] => j = k
  BY NumbersAgree DEF ClientSide!Appends
<1>2. \A a \in fresh : IdentityBehind(NumberOf(a), sent) = a
  BY BehindIs
<1> HIDE DEF new
<1>3. CASE id \in fresh
  <2>1. PICK k \in new : after[k] = NumberOf(id)
    BY <1>1, <1>3
  <2>2. ASSUME NEW j \in new, IdentityBehind(after[j], sent) = id PROVE j = k
    <3>1. PICK a \in fresh : after[j] = NumberOf(a)
      BY <1>1
    <3>2. a = id
      BY <1>2, <2>2, <3>1
    <3> QED BY <1>1, <2>1, <3>1, <3>2
  <2>3. {j \in new : IdentityBehind(after[j], sent) = id} = {k}
    BY <1>2, <1>3, <2>1, <2>2
  <2>4. AcksFor(id, before, after, sent) = {k}
    BY <2>3 DEF AcksFor, new
  <2> QED BY <1>3, <2>4, FS_Singleton
<1>4. CASE id \notin fresh
  <2>1. ASSUME NEW j \in new, IdentityBehind(after[j], sent) = id PROVE FALSE
    <3>1. PICK a \in fresh : after[j] = NumberOf(a)
      BY <1>1
    <3> QED BY <1>2, <1>4, <2>1, <3>1
  <2>2. {j \in new : IdentityBehind(after[j], sent) = id} = {}
    BY <2>1
  <2>3. AcksFor(id, before, after, sent) = {}
    BY <2>2 DEF AcksFor, new
  <2> QED BY <1>4, <2>3, FS_EmptySet
<1> QED BY <1>3, <1>4

\* The sender's side after the ack loop: what it flagged, it reported, once, and
\* the packet was accepted.
LEMMA ReportAcks ==
  ASSUME SizesDivide, setting \in Settings, NEW sequence, NEW sent_packets, NEW sent, NEW reported,
         NEW delivered, Sending(setting, sequence, sent_packets, sent, reported, delivered),
         NEW flagged, NEW before, NEW after, NEW named, NEW fresh,
         ClientSide!AcksOf(sent_packets, flagged, before, after, sent, Tracked(sent), named, fresh),
         \A a \in named : a \in 0 .. sent - 1 /\ delivered[a] > 0
  PROVE  Sending(setting, sequence, flagged, sent, Report(reported, before, after, sent), delivered)
<1> DEFINE after_report == Report(reported, before, after, sent)
<1>1. /\ sent \in Nat /\ 0 .. sent - 1 \subseteq DOMAIN setting.lengths
      /\ sequence = NumberOf(sent)
      /\ \A id \in Tracked(sent) :
           ClientSide!FlagOf(sent_packets, id) = (reported[id] > 0)
      /\ DOMAIN reported = {Mangled} \cup DOMAIN setting.lengths
      /\ \A id \in DOMAIN reported :
           /\ reported[id] \in 0 .. 1
           /\ reported[id] > 0 => id \in 0 .. sent - 1 /\ delivered[id] > 0
  BY DEF Sending
<1>2. /\ fresh \subseteq Tracked(sent) \cap named
      /\ \A a \in fresh : ClientSide!FlagOf(sent_packets, a) = FALSE
      /\ ClientSide!KeepsIn(flagged, sent, Tracked(sent), SentPacketsBufferSize)
      /\ \A a \in Tracked(sent) :
           ClientSide!FlagOf(flagged, a) = (a \in fresh \/ ClientSide!FlagOf(sent_packets, a))
      /\ ClientSide!Appends(before, after, fresh)
  BY DEF ClientSide!AcksOf
<1>3. /\ DOMAIN after_report = {Mangled} \cup DOMAIN setting.lengths
      /\ \A id \in DOMAIN reported :
           after_report[id] = reported[id] + Cardinality(AcksFor(id, before, after, sent))
  BY <1>1 DEF Report, Identities, AcksFor
<1> HIDE DEF after_report
<1>4. \A a \in fresh : a \in sent - SequenceModulus .. sent - 1
  BY <1>1, <1>2, Halves DEF Tracked, SizesDivide
<1>5. \A id \in DOMAIN reported :
        after_report[id] = reported[id] + IF id \in fresh THEN 1 ELSE 0
  BY <1>1, <1>2, <1>3, <1>4, AcksCount
<1>6. \A id \in Tracked(sent) : id \in DOMAIN reported
  BY <1>1, Halves DEF Tracked
<1>7. \A a \in fresh : a \in DOMAIN reported /\ reported[a] = 0
  <2> TAKE a \in fresh
  <2>1. a \in Tracked(sent) /\ a \in DOMAIN reported /\ reported[a] \in 0 .. 1
    BY <1>1, <1>2, <1>6
  <2>2. ~(reported[a] > 0)
    <3> DEFINE acked == reported[a] > 0
    <3>1. ClientSide!FlagOf(sent_packets, a) = acked /\ ClientSide!FlagOf(sent_packets, a) = FALSE
      BY <1>1, <1>2, <2>1
    <3> HIDE DEF acked
    <3>2. ~acked
      BY <3>1
    <3> QED BY <3>2 DEF acked
  <2> QED BY <2>1, <2>2
<1>8. \A id \in DOMAIN reported :
        /\ after_report[id] \in 0 .. 1
        /\ after_report[id] > 0 => id \in 0 .. sent - 1 /\ delivered[id] > 0
  <2> TAKE id \in DOMAIN reported
  <2>1. CASE id \in fresh
    BY <1>2, <1>5, <1>7, <2>1
  <2>2. CASE id \notin fresh
    BY <1>1, <1>5, <2>2
  <2> QED BY <2>1, <2>2
<1>9. \A id \in Tracked(sent) : ClientSide!FlagOf(flagged, id) = (after_report[id] > 0)
  <2> TAKE id \in Tracked(sent)
  <2>1. CASE id \in fresh
    <3>1. after_report[id] > 0
      BY <1>5, <1>7, <2>1
    <3> QED BY <1>2, <2>1, <3>1
  <2>2. CASE id \notin fresh
    <3>1. after_report[id] = reported[id]
      BY <1>1, <1>5, <1>6, <2>2
    <3>2. /\ ClientSide!FlagOf(sent_packets, id) = (reported[id] > 0)
          /\ ClientSide!FlagOf(flagged, id)
               = (id \in fresh \/ ClientSide!FlagOf(sent_packets, id))
      BY <1>1, <1>2
    <3> DEFINE acked == reported[id] > 0
    <3>3. ClientSide!FlagOf(sent_packets, id) = acked /\ acked \in BOOLEAN
      BY <3>2
    <3> HIDE DEF acked
    <3>4. ClientSide!FlagOf(flagged, id) = acked
      BY <2>2, <3>2, <3>3
    <3> QED BY <3>1, <3>4 DEF acked
  <2> QED BY <2>1, <2>2
<1> QED BY <1>1, <1>2, <1>3, <1>8, <1>9 DEF Sending, after_report

\* A step that takes no acks reports none.
LEMMA NoAcks ==
  ASSUME NEW st, NEW sequence, NEW sent_packets, NEW sent, NEW reported, NEW delivered,
         Sending(st, sequence, sent_packets, sent, reported, delivered),
         NEW acks \in Seq(SequenceNumber)
  PROVE  ClientSide!AcksOf(sent_packets, sent_packets, acks, acks, sent, Tracked(sent), {}, {})
<1>1. /\ ClientSide!KeepsIn(sent_packets, sent, Tracked(sent), SentPacketsBufferSize)
      /\ \A id \in Tracked(sent) :
           ClientSide!FlagOf(sent_packets, id) = (reported[id] > 0)
  BY DEF Sending
<1>2. ClientSide!Appends(acks, acks, {})
  BY DEF ClientSide!Appends
<1>3. \A a \in Tracked(sent) :
        ClientSide!FlagOf(sent_packets, a) = (a \in {} \/ ClientSide!FlagOf(sent_packets, a))
  <2> TAKE a \in Tracked(sent)
  <2> DEFINE acked == reported[a] > 0
  <2>1. ClientSide!FlagOf(sent_packets, a) = acked /\ acked \in BOOLEAN
    BY <1>1
  <2> HIDE DEF acked
  <2> QED BY <2>1
<1> QED BY <1>1, <1>2, <1>3 DEF ClientSide!AcksOf

-----------------------------------------------------------------------------
(* A side receives: both directions *)

\* The receiver of a direction stands with its window at n and the packets
\* `under` under reassembly.
Standing(st, n, under, network, received, reassembly, sent, delivered, back, accepted) ==
  /\ Window(st, n, received, delivered, sent)
  /\ ClientSide!KeepsIn(reassembly, n, under, FragmentReassemblyBufferSize)
  /\ \A id \in under :
       /\ id >= 0
       /\ ClientSide!GoodEntry(ClientSide!EntryOf(reassembly, id), ContentOf(st, id),
                               HeadersOf(st, id, network, back, accepted))

\* It does so in any direction.
LEMMA Stands ==
  ASSUME NEW st, NEW network, NEW sequence, NEW sent_packets, NEW sent, NEW reported,
         NEW received, NEW reassembly, NEW delivered, NEW back, NEW accepted,
         OneWay(st, network, sequence, sent_packets, sent, reported, received, reassembly,
                delivered, back, accepted)
  PROVE  \E n, under : Standing(st, n, under, network, received, reassembly, sent, delivered,
                                back, accepted)
<1>1. PICK n : /\ Window(st, n, received, delivered, sent)
               /\ Reassembling(st, n, reassembly, network, back, accepted)
  BY DEF OneWay
<1>2. PICK under :
    /\ ClientSide!KeepsIn(reassembly, n, under, FragmentReassemblyBufferSize)
    /\ \A id \in under :
         /\ id >= 0
         /\ ClientSide!GoodEntry(ClientSide!EntryOf(reassembly, id), ContentOf(st, id),
                                 HeadersOf(st, id, network, back, accepted))
  BY <1>1 DEF Reassembling
<1> QED BY <1>1, <1>2 DEF Standing

\* The direction of the datagram, once it was heard.
LEMMA HearAhead ==
  ASSUME setting \in Settings, NEW network, NEW sequence, NEW sent_packets, NEW sent,
         NEW reported, NEW received, NEW reassembly, NEW delivered, NEW back, NEW accepted,
         OneWay(setting, network, sequence, sent_packets, sent, reported, received, reassembly,
                delivered, back, accepted),
         NEW n, NEW under,
         Standing(setting, n, under, network, received, reassembly, sent, delivered, back,
                  accepted),
         NEW id \in 0 .. sent - 1, NEW p \in ClientSide!Moves(n, id), NEW heard, NEW stored,
         NEW process,
         ClientSide!WindowsAt(heard, stored, reassembly, p, n, Accepted(delivered, n), under, id,
           ContentOf(setting, id), HeadersOf(setting, id, network, back, accepted), process)
  PROVE  OneWay(setting, network, sequence, sent_packets, sent, reported, heard, stored,
                Delivered(delivered, id, process), back, accepted)
<1> DEFINE more == Delivered(delivered, id, process)
<1>1. /\ InFlight(setting, network, sent, back, accepted)
      /\ Sending(setting, sequence, sent_packets, sent, reported, delivered)
      /\ sent \in Nat /\ 0 .. sent - 1 \subseteq DOMAIN setting.lengths
  BY DEF OneWay, Sending
<1>2. Window(setting, n, received, delivered, sent)
  BY DEF Standing
<1>3. Window(setting, p, heard, more, sent)
  <2>1. ClientSide!HeardOf(heard, id, n, Accepted(delivered, n), p, process)
    BY DEF ClientSide!WindowsAt
  <2> QED BY <1>1, <1>2, <2>1, HeardWindow
<1>4. Reassembling(setting, p, stored, network, back, accepted)
  <2>1. id >= 0
    BY <1>1
  <2>2. \A q \in under :
           /\ q >= 0
           /\ ClientSide!GoodEntry(ClientSide!EntryOf(reassembly, q), ContentOf(setting, q),
                                   HeadersOf(setting, q, network, back, accepted))
    BY DEF Standing
  <2> QED BY <2>1, <2>2, HeardReassembling
<1>5. \A a \in DOMAIN reported : reported[a] > 0 => more[a] > 0
  <2> SUFFICES ASSUME NEW a \in DOMAIN reported, reported[a] > 0 PROVE more[a] > 0
    OBVIOUS
  <2>1. delivered[a] > 0 /\ a \in 0 .. sent - 1
    BY <1>1 DEF Sending
  <2>2. a \in DOMAIN delivered
    BY <1>1, <1>2, <2>1 DEF Window
  <2>3. delivered[a] \in 0 .. 1
    BY <1>2, <2>2 DEF Window
  <2> QED BY <2>1, <2>2, <2>3, DeliveredGrows
<1> HIDE DEF more
<1>6. Sending(setting, sequence, sent_packets, sent, reported, more)
  BY <1>1, <1>5 DEF Sending
<1> QED BY <1>1, <1>3, <1>4, <1>6 DEF OneWay, more

\* The other direction, once the acks of a packet accepted were taken.
LEMMA HearBehind ==
  ASSUME SizesDivide, setting \in Settings, NEW network, NEW sequence, NEW sent_packets, NEW sent,
         NEW reported, NEW received, NEW reassembly, NEW delivered, NEW back \in Nat,
         NEW accepted,
         OneWay(setting, network, sequence, sent_packets, sent, reported, received, reassembly,
                delivered, back, accepted),
         NEW flagged, NEW before, NEW after, NEW named, NEW fresh,
         ClientSide!AcksOf(sent_packets, flagged, before, after, sent, Tracked(sent), named, fresh),
         \A a \in named : a \in 0 .. sent - 1 /\ delivered[a] > 0,
         NEW id, NEW process,
         \A a \in 0 .. back - 1 : a \in DOMAIN accepted /\ accepted[a] \in Nat
  PROVE  OneWay(setting, network, sequence, flagged, sent, Report(reported, before, after, sent),
                received, reassembly, delivered, back, Delivered(accepted, id, process))
<1> DEFINE more == Delivered(accepted, id, process)
<1>1. \A a \in 0 .. back - 1 : accepted[a] > 0 => more[a] > 0
  BY DeliveredGrows
<1> HIDE DEF more
<1>2. OneWay(setting, network, sequence, sent_packets, sent, reported, received, reassembly,
             delivered, back, more)
  BY <1>1, AcceptsMore
<1>3. Sending(setting, sequence, sent_packets, sent, reported, delivered)
  BY DEF OneWay
<1>4. Sending(setting, sequence, flagged, sent, Report(reported, before, after, sent), delivered)
  BY <1>3, ReportAcks
<1> QED BY <1>2, <1>4 DEF OneWay, more
=============================================================================
