----------------------------- MODULE Connection -----------------------------
(***************************************************************************)
(* Two endpoints exchanging packets over a network that loses, duplicates  *)
(* and reorders datagrams: the setting of src/tests/fuzz.rs (Link) and of  *)
(* the tests of endpoint.rs.  The endpoints are two instances of Endpoint; *)
(* the network and the applications are the environment.                   *)
(*                                                                         *)
(* The id-th packet an application sends has contents Content(id), so that *)
(* a delivery can be traced to a send after the 16-bit numbers wrap.  A    *)
(* setting, fixed at the start, says how many packets each side sends, how *)
(* long they are, how `process` answers, and two bounds: the network       *)
(* forgets a datagram once max_age packets were sent after it, and an      *)
(* application stops sending while the other side has not heard of its     *)
(* last max_outage packets, which bounds how far the two windows drift.    *)
(***************************************************************************)
EXTENDS SequenceNumbers, Counters, Sequences, FiniteSets

CONSTANTS
  SentPacketsBufferSize, ReceivedPacketsBufferSize, FragmentReassemblyBufferSize,
  AckBufferSize, AckBits, MaxPacketSize, FragmentAbove, FragmentSize, MaxFragments,
  HeaderBytes(_), MaxPacketHeaderBytes, FragmentHeaderBytes, None, Blank,
  Settings   \* with lengths (of the packets of either side, by identity),
             \* verdicts, max_age, max_outage, client_max and server_max

\* As for one endpoint: the asserts of Endpoint::new, and the wire fields.
ASSUME ConfigAssumption ==
  /\ SentPacketsBufferSize \in Nat \ {0}
  /\ ReceivedPacketsBufferSize \in Nat \ {0}
  /\ FragmentReassemblyBufferSize \in Nat \ {0}
  /\ AckBufferSize \in Nat \ {0}
  /\ AckBits \in 1 .. SequenceModulus
  /\ MaxPacketSize \in Nat \ {0}
  /\ FragmentSize \in Nat \ {0}
  /\ FragmentAbove \in 1 .. MaxPacketSize
  /\ MaxFragments \in Nat /\ MaxFragments > (MaxPacketSize - 1) \div FragmentSize
  /\ MaxPacketHeaderBytes \in Nat /\ FragmentHeaderBytes \in Nat

\* The headers a datagram may carry.
Headers == [sequence : SequenceNumber, ack : SequenceNumber,
            ack_bits : SUBSET (0 .. AckBits - 1)]

ASSUME DataAssumption ==
  /\ None \notin SequenceNumber
  /\ None \notin Headers
  /\ \A h \in Headers : HeaderBytes(h) \in 0 .. MaxPacketHeaderBytes

\* The counters are left out: of modulus 1 they always read 0.
ASSUME CountersLeftOut == CounterModulus = 1

\* A side sends only packets that have a length.
ASSUME SettingsAssumption ==
  \A st \in Settings :
    /\ st.client_max \in Nat /\ 0 .. st.client_max - 1 \subseteq DOMAIN st.lengths
    /\ st.server_max \in Nat /\ 0 .. st.server_max - 1 \subseteq DOMAIN st.lengths
    /\ \A id \in DOMAIN st.lengths : id \in Nat /\ st.lengths[id] \in Nat \ {0}
    /\ st.verdicts \subseteq {"accepted", "rejected"}
    /\ st.max_age \in Nat /\ st.max_outage \in Nat

VARIABLES
  setting,
  client_sequence, client_sent_packets, client_received_packets,
  client_fragment_reassembly, client_acks,
  server_sequence, server_sent_packets, server_received_packets,
  server_fragment_reassembly, server_acks,
  to_server, to_client,                    \* datagrams in flight
  client_sent, server_sent,                \* ghost: packets sent
  client_delivered, server_delivered,      \* ghost: deliveries by identity
  client_reported, server_reported         \* ghost: reported acks by identity

client_vars == <<client_sequence, client_sent_packets, client_received_packets,
                 client_fragment_reassembly, client_acks>>
server_vars == <<server_sequence, server_sent_packets, server_received_packets,
                 server_fragment_reassembly, server_acks>>
ghost_vars == <<client_sent, server_sent, client_delivered, server_delivered,
                client_reported, server_reported>>
vars == <<setting, client_vars, server_vars, to_server, to_client, ghost_vars>>

\* The counters are left out (CounterModulus is 1).
Client == INSTANCE Endpoint WITH
  sequence <- client_sequence, sent_packets <- client_sent_packets,
  received_packets <- client_received_packets,
  fragment_reassembly <- client_fragment_reassembly, acks <- client_acks,
  counters <- ZeroCounters, Byte <- {Blank}, Packets <- {}, Datagrams <- {}

Server == INSTANCE Endpoint WITH
  sequence <- server_sequence, sent_packets <- server_sent_packets,
  received_packets <- server_received_packets,
  fragment_reassembly <- server_fragment_reassembly, acks <- server_acks,
  counters <- ZeroCounters, Byte <- {Blank}, Packets <- {}, Datagrams <- {}

-----------------------------------------------------------------------------
(* Identities *)

Content(id) == [k \in 1 .. setting.lengths[id] |-> <<id, k>>]

\* The last of `sent` packets to carry sequence number s (negative: none yet).
IdentityBehind(s, sent) == sent - 1 - ((sent - 1 - s) % SequenceModulus)

Mangled == -1

Identities == {Mangled} \cup DOMAIN setting.lengths

\* The packet a delivered payload is, if it is one the sender sent under the
\* sequence number the payload was delivered with.
IdentityOf(content, s, sent) ==
  LET ids == {id \in 0 .. sent - 1 : id % SequenceModulus = s /\ Content(id) = content}
  IN  IF ids = {} THEN Mangled ELSE CHOOSE id \in ids : TRUE

SequenceOf(d) == IF d.type = "regular" THEN d.header.sequence ELSE d.sequence

\* Accepted payloads by identity, and mangled ones even if rejected.
Deliver(delivered, process, content, s, sent) ==
  IF process = "unused" THEN delivered
  ELSE LET id == IdentityOf(content, s, sent)
       IN  IF process = "accepted" \/ id = Mangled
           THEN [delivered EXCEPT ![id] = @ + 1] ELSE delivered

\* The acks that a step appended, by identity.
Report(reported, before, after, sent) ==
  [id \in Identities |->
     reported[id] + Cardinality({k \in Len(before) + 1 .. Len(after) :
                                   IdentityBehind(after[k], sent) = id})]

\* How many of the `sent` packets are newer than the newest the other side's
\* window has reached.
Unheard(received, sent) == (sent - received.sequence) % SequenceModulus

-----------------------------------------------------------------------------
(* The network *)

Aged(network) == {[m EXCEPT !.age = @ + 1] : m \in {n \in network : n.age < setting.max_age}}

Carry(datagrams) == {[datagram |-> d, age |-> 0] : d \in datagrams}

Init ==
  /\ setting \in Settings
  /\ Client!Init /\ Server!Init
  /\ to_server = {} /\ to_client = {}
  /\ client_sent = 0 /\ server_sent = 0
  /\ client_delivered = [id \in Identities |-> 0]
  /\ server_delivered = [id \in Identities |-> 0]
  /\ client_reported = [id \in Identities |-> 0]
  /\ server_reported = [id \in Identities |-> 0]

ClientSends ==
  /\ client_sent < setting.client_max
  /\ Unheard(server_received_packets, client_sent) < setting.max_outage
  /\ Client!SendPacket(Content(client_sent))
  /\ to_server' = Aged(to_server) \cup Carry(Client!Transmitted(Content(client_sent)))
  /\ to_client' = Aged(to_client)
  /\ client_sent' = client_sent + 1
  /\ UNCHANGED <<setting, server_vars, server_sent, client_delivered, server_delivered,
                 client_reported, server_reported>>

ServerSends ==
  /\ server_sent < setting.server_max
  /\ Unheard(client_received_packets, server_sent) < setting.max_outage
  /\ Server!SendPacket(Content(server_sent))
  /\ to_client' = Aged(to_client) \cup Carry(Server!Transmitted(Content(server_sent)))
  /\ to_server' = Aged(to_server)
  /\ server_sent' = server_sent + 1
  /\ UNCHANGED <<setting, client_vars, client_sent, client_delivered, server_delivered,
                 client_reported, server_reported>>

\* A delivered datagram stays in flight: it may be delivered again.  One that
\* is never delivered before it is forgotten is lost.
ServerReceives ==
  \E m \in to_server, process \in {"unused"} \cup setting.verdicts :
    /\ Server!ReceivePacket(m.datagram, process)
    /\ server_delivered' = Deliver(server_delivered, process, Server!Processed(m.datagram),
                                   SequenceOf(m.datagram), client_sent)
    /\ server_reported' = Report(server_reported, server_acks, server_acks', server_sent)
    /\ UNCHANGED <<setting, client_vars, to_server, to_client, client_sent, server_sent,
                   client_delivered, client_reported>>

ClientReceives ==
  \E m \in to_client, process \in {"unused"} \cup setting.verdicts :
    /\ Client!ReceivePacket(m.datagram, process)
    /\ client_delivered' = Deliver(client_delivered, process, Client!Processed(m.datagram),
                                   SequenceOf(m.datagram), server_sent)
    /\ client_reported' = Report(client_reported, client_acks, client_acks', client_sent)
    /\ UNCHANGED <<setting, server_vars, to_server, to_client, client_sent, server_sent,
                   server_delivered, server_reported>>

ClientClearsAcks ==
  /\ client_acks # <<>> /\ Client!ClearAcks
  /\ UNCHANGED <<setting, server_vars, to_server, to_client, ghost_vars>>

ServerClearsAcks ==
  /\ server_acks # <<>> /\ Server!ClearAcks
  /\ UNCHANGED <<setting, client_vars, to_server, to_client, ghost_vars>>

Next ==
  \/ ClientSends \/ ServerSends
  \/ ServerReceives \/ ClientReceives
  \/ ClientClearsAcks \/ ServerClearsAcks

Spec == Init /\ [][Next]_vars

-----------------------------------------------------------------------------
(* Properties *)

\* No packet is accepted twice, however often the network delivers it or its
\* fragments, across sequence wrap-around ("Duplicate packets are detected and
\* dropped", README.md).
NoDuplicateDelivery ==
  \A id \in Identities \ {Mangled} :
    client_delivered[id] <= 1 /\ server_delivered[id] <= 1

\* The closure only ever sees a payload exactly as it was sent, under the
\* sequence number it was sent with: fragments of two packets are never mixed,
\* none is missing and the length is right.
IntactDelivery == client_delivered[Mangled] = 0 /\ server_delivered[Mangled] = 0

\* An ack reported to the sender means that the other side's application
\* accepted that very packet (lib.rs: "the packet you sent with this sequence
\* number was received by the other side").
AckTruthful ==
  \A id \in Identities :
    /\ client_reported[id] > 0 => id \in 0 .. client_sent - 1 /\ server_delivered[id] > 0
    /\ server_reported[id] > 0 => id \in 0 .. server_sent - 1 /\ client_delivered[id] > 0

\* A packet is reported as acked at most once, though many headers carry its
\* ack bit.
AckReportedOnce ==
  \A id \in Identities : client_reported[id] <= 1 /\ server_reported[id] <= 1

\* The ack bits of the next header are exact: the bit at offset i says whether
\* the i-th packet before the newest one heard of was accepted.
BitsExact(bits, received, delivered, sent) ==
  LET newest == sent - 1 - Unheard(received, sent)
  IN  \A i \in 0 .. AckBits - 1 :
        i < ReceivedPacketsBufferSize /\ newest - i >= 0 =>
          (i \in bits <=> delivered[newest - i] > 0)

AckBitsExact ==
  /\ BitsExact(Server!NextHeader.ack_bits, server_received_packets, server_delivered, client_sent)
  /\ BitsExact(Client!NextHeader.ack_bits, client_received_packets, client_delivered, server_sent)

\* Every regular datagram in flight is judged by its identity: refused as stale
\* exactly when the window has passed it, as a duplicate exactly when it was
\* accepted.
Judged(m, CanInsert, Exists, received, delivered, sent) ==
  m.datagram.type = "regular" =>
    LET id == m.datagram.content[1][1]
        newest == sent - 1 - Unheard(received, sent)
    IN  /\ CanInsert <=> id > newest - ReceivedPacketsBufferSize
        /\ CanInsert => (Exists <=> delivered[id] > 0)

JudgedByIdentity ==
  /\ \A m \in to_server :
       LET s == SequenceOf(m.datagram)
       IN  Judged(m, Server!Received!CanInsert(server_received_packets, s),
                  Server!Received!Exists(server_received_packets, s),
                  server_received_packets, server_delivered, client_sent)
  /\ \A m \in to_client :
       LET s == SequenceOf(m.datagram)
       IN  Judged(m, Client!Received!CanInsert(client_received_packets, s),
                  Client!Received!Exists(client_received_packets, s),
                  client_received_packets, client_delivered, server_sent)
=============================================================================
