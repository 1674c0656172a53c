----------------------------- MODULE CCreateProofs -----------------------------
(***************************************************************************)
(* The checks of reliable_config_valid and reliable_endpoint_create        *)
(* suffice for every int width and configuration: no length but one        *)
(* overflows, no copy leaves its buffer, and the port accepts what C does. *)
(*                                                                         *)
(* The second half composes that with the allocations: creating and        *)
(* destroying an endpoint gives back all memory, whichever of them fail    *)
(* and whatever the reassembly buffer holds, and what the first half       *)
(* proves of an endpoint holds of one created this way.                    *)
(***************************************************************************)
EXTENDS CCreate, TLAPS

\* The configuration of an endpoint passed the checks of create.
ConfigAccepted == config # None => config \in Configuration /\ Accepts(config)

IInv == ConfigAccepted /\ IntsFit /\ CopiesFit

\* Quotients: x lies in the interval its quotient names.
LEMMA QuotientBounds ==
  ASSUME NEW x \in Nat, NEW k \in Nat \ {0}
  PROVE  /\ x \div k \in Nat /\ x % k \in 0 .. k - 1
         /\ x = (x \div k) * k + (x % k)
OBVIOUS

\* A piece more takes a whole piece's bytes more.
LEMMA PiecesApart ==
  ASSUME NEW m \in Nat, NEW n \in Nat, NEW k \in Nat, m < n
  PROVE  m * k + k <= n * k
<1>1. /\ n - m - 1 \in Nat /\ n = m + 1 + (n - m - 1)
  OBVIOUS
<1>2. PICK d \in Nat : n = m + 1 + d
  BY <1>1
<1>3. n * k = m * k + k + d * k
  BY <1>2
<1>4. d * k \in Nat /\ m * k \in Nat
  OBVIOUS
<1> QED BY <1>3, <1>4

\* What an accepted configuration guarantees, in terms of its fields.
LEMMA AcceptedBounds ==
  ASSUME NEW c \in Configuration, Accepts(c)
  PROVE  /\ c.max_packet_size \in Nat \ {0} /\ c.fragment_size \in Nat \ {0}
         /\ c.max_fragments \in Nat \ {0} /\ c.packet_header_size \in Nat
         /\ c.packet_header_size + c.max_packet_size <= IntMax
         /\ c.max_packet_size <= IntMax - MaxPacketHeaderBytes - FragmentHeaderBytes
         /\ c.max_fragments * c.fragment_size <= IntMax - MaxPacketHeaderBytes
         /\ c.fragment_size <= IntMax - FragmentHeaderBytes - MaxPacketHeaderBytes
         /\ c.max_fragments > (c.max_packet_size - 1) \div c.fragment_size
BY SizesAssumption DEF Configuration, Accepts, Valid, Covers, TransmitBufferFits

\* The transmit buffer has an int's length and room for a packet and a fragment.
LEMMA TransmitBuffer ==
  ASSUME NEW c \in Configuration, Accepts(c)
  PROVE  /\ TransmitBufferSize(c) \in 0 .. IntMax
         /\ TransmitBufferSize(c) >= MaxPacketHeaderBytes + c.max_packet_size
         /\ TransmitBufferSize(c) >= FragmentHeaderBytes + MaxPacketHeaderBytes + c.fragment_size
BY SizesAssumption, AcceptedBounds DEF TransmitBufferSize

\* A packet of an allowed size needs no more fragments than there may be.
LEMMA FragmentsSuffice ==
  ASSUME ConfigAccepted, config # None,
         NEW bytes \in 1 .. config.max_packet_size
  PROVE  NumFragments(bytes) \in Nat /\ NumFragments(bytes) <= config.max_fragments
<1> DEFINE k == config.fragment_size
           most == config.max_packet_size
           q == bytes \div k
           r == bytes % k
           full == (most - 1) \div k
<1>1. /\ config \in Configuration /\ Accepts(config)
  BY DEF ConfigAccepted
<1>2. /\ k \in Nat \ {0} /\ most \in Nat \ {0} /\ config.max_fragments \in Nat
      /\ config.max_fragments > full
      /\ bytes \in Nat /\ bytes <= most /\ most - 1 \in Nat
  BY <1>1, AcceptedBounds
<1> HIDE DEF k, most
<1>3. /\ q \in Nat /\ r \in 0 .. k - 1 /\ bytes = q * k + r
  BY <1>2, QuotientBounds
<1>4. /\ full \in Nat /\ (most - 1) % k \in 0 .. k - 1
      /\ most - 1 = full * k + ((most - 1) % k)
  BY <1>2, QuotientBounds
<1>5. NumFragments(bytes) = q + (IF r # 0 THEN 1 ELSE 0)
  BY DEF NumFragments, k
<1> HIDE DEF q, r, full
<1>6. full * k \in Nat /\ q * k \in Nat
  BY <1>2, <1>3, <1>4
<1>7. bytes - 1 < full * k + k
  BY <1>2, <1>4, <1>6
<1>8. q <= full + 1
  <2> SUFFICES ASSUME full + 1 < q PROVE FALSE
    BY <1>3, <1>4
  <2>1. (full + 1) * k + k <= q * k
    BY <1>2, <1>3, <1>4, PiecesApart
  <2>2. (full + 1) * k = full * k + k
    BY <1>2, <1>4
  <2> QED BY <1>2, <1>3, <1>6, <1>7, <2>1, <2>2
<1>9. r # 0 => q <= full
  <2> SUFFICES ASSUME r # 0, q = full + 1 PROVE FALSE
    BY <1>3, <1>4, <1>8
  <2>1. q * k = full * k + k
    BY <1>2, <1>4
  <2> QED BY <1>2, <1>3, <1>6, <1>7, <2>1
<1> QED BY <1>2, <1>3, <1>4, <1>5, <1>8, <1>9

\* Fragment id, of an allowed number of them, lies in the reassembly buffer,
\* whose length is an int.
LEMMA FragmentPlaced ==
  ASSUME ConfigAccepted, config # None,
         NEW num_fragments \in 1 .. config.max_fragments,
         NEW id \in 0 .. num_fragments - 1
  PROVE  /\ id * config.fragment_size \in Nat
         /\ id * config.fragment_size + config.fragment_size
              <= num_fragments * config.fragment_size
         /\ num_fragments * config.fragment_size <= IntMax - MaxPacketHeaderBytes
<1> DEFINE k == config.fragment_size
           most == config.max_fragments
<1>1. k \in Nat /\ most \in Nat /\ most * k <= IntMax - MaxPacketHeaderBytes
  BY AcceptedBounds DEF ConfigAccepted
<1>2. num_fragments \in Nat /\ num_fragments <= most /\ id \in Nat /\ id < num_fragments
  BY <1>1
<1> HIDE DEF k, most
<1>3. id * k + k <= num_fragments * k /\ id * k \in Nat
  BY <1>1, <1>2, PiecesApart
<1>4. num_fragments * k <= most * k
  <2>1. CASE num_fragments = most
    BY <1>1, <2>1
  <2>2. CASE num_fragments < most
    <3>1. num_fragments * k + k <= most * k
      BY <1>1, <1>2, <2>2, PiecesApart
    <3>2. num_fragments * k \in Nat /\ most * k \in Nat
      BY <1>1, <1>2
    <3> QED BY <1>1, <3>1, <3>2
  <2> QED BY <1>1, <1>2, <2>1, <2>2
<1>5. num_fragments * k \in Nat /\ most * k \in Nat
  BY <1>1, <1>2
<1>6. num_fragments * k <= IntMax - MaxPacketHeaderBytes
  BY <1>1, <1>4, <1>5, SizesAssumption
<1> QED BY <1>3, <1>6 DEF k

\* Creating an endpoint.
LEMMA CreateStep ==
  ASSUME NEW c \in Configuration, Create(c)
  PROVE  IInv'
<1>1. /\ Accepts(c) /\ config' = c
      /\ lengths' = {TransmitBufferSize(c)} /\ copies' = {}
  BY DEF Create
<1>2. ConfigAccepted'
  BY <1>1 DEF ConfigAccepted, Accepts, Valid, Covers, TransmitBufferFits
<1>3. IntsFit'
  BY <1>1, TransmitBuffer DEF IntsFit
<1>4. CopiesFit'
  BY <1>1 DEF CopiesFit
<1> QED BY <1>2, <1>3, <1>4 DEF IInv

\* Sending, in one piece or in fragments.
LEMMA SendStep ==
  ASSUME IInv, NEW bytes, NEW header \in Headers, Send(bytes, header)
  PROVE  IInv'
<1>1. /\ config # None /\ config' = config /\ config \in Configuration /\ Accepts(config)
      /\ bytes \in 1 .. config.max_packet_size
  BY DEF Send, IInv, ConfigAccepted
<1>2. /\ header \in Nat /\ header <= MaxPacketHeaderBytes
  BY SizesAssumption DEF Headers
<1>3. ConfigAccepted'
  BY <1>1 DEF ConfigAccepted, Accepts, Valid, Covers, TransmitBufferFits
<1>4. /\ config.max_packet_size \in Nat /\ config.fragment_size \in Nat
      /\ config.packet_header_size \in Nat
      /\ config.packet_header_size + config.max_packet_size <= IntMax
      /\ config.max_packet_size <= IntMax - MaxPacketHeaderBytes - FragmentHeaderBytes
  BY <1>1, AcceptedBounds
<1>5. /\ TransmitBufferSize(config) \in Nat
      /\ TransmitBufferSize(config) >= MaxPacketHeaderBytes + config.max_packet_size
      /\ TransmitBufferSize(config)
           >= FragmentHeaderBytes + MaxPacketHeaderBytes + config.fragment_size
  BY <1>1, TransmitBuffer
<1>6. CASE bytes <= config.fragment_above
  <2>1. /\ lengths' = {config.packet_header_size + bytes, header + bytes}
        /\ copies' = {Copy(header + bytes, TransmitBufferSize(config))}
    BY <1>6 DEF Send
  <2>2. IntsFit'
    BY <1>1, <1>2, <1>4, <2>1, SizesAssumption DEF IntsFit
  <2>3. header + bytes <= TransmitBufferSize(config)
    BY <1>1, <1>2, <1>4, <1>5, SizesAssumption
  <2>4. CopiesFit'
    BY <2>1, <2>3 DEF CopiesFit, Copy
  <2> QED BY <1>3, <2>2, <2>4 DEF IInv
<1>7. CASE ~(bytes <= config.fragment_above)
  <2> DEFINE copied == IF bytes < config.fragment_size THEN bytes ELSE config.fragment_size
  <2>1. /\ lengths' = {config.packet_header_size + bytes}
        /\ copies' = {Copy(FragmentHeaderBytes + header + copied, TransmitBufferSize(config)),
                      Copy(NumFragments(bytes), config.max_fragments)}
    BY <1>7 DEF Send
  <2>2. IntsFit'
    BY <1>1, <1>4, <2>1, SizesAssumption DEF IntsFit
  <2>3. FragmentHeaderBytes + header + copied <= TransmitBufferSize(config)
    BY <1>1, <1>2, <1>4, <1>5, SizesAssumption
  <2>4. NumFragments(bytes) <= config.max_fragments
    BY <1>1, FragmentsSuffice DEF IInv
  <2> HIDE DEF copied
  <2>5. CopiesFit'
    BY <2>1, <2>3, <2>4 DEF CopiesFit, Copy
  <2> QED BY <1>3, <2>2, <2>5 DEF IInv
<1> QED BY <1>6, <1>7

\* Receiving a fragment.
LEMMA ReceiveFragmentStep ==
  ASSUME IInv, NEW id, NEW num_fragments, NEW fragment_bytes, NEW header \in Headers,
         ReceiveFragment(id, num_fragments, fragment_bytes, header)
  PROVE  IInv'
<1> DEFINE k == config.fragment_size
           fragment_header == FragmentHeaderBytes + (IF id = 0 THEN header ELSE 0)
           offset == MaxPacketHeaderBytes + id * k
           packet_buffer_size == MaxPacketHeaderBytes + num_fragments * k
           packet_bytes == (num_fragments - 1) * k + fragment_bytes
<1>1. /\ config # None /\ config' = config /\ config \in Configuration /\ Accepts(config)
      /\ num_fragments \in 1 .. config.max_fragments /\ id \in {0, num_fragments - 1}
      /\ fragment_bytes \in 0 .. k
  BY DEF ReceiveFragment, IInv, ConfigAccepted
<1>2. /\ lengths' = {packet_buffer_size} \cup
           (IF id = num_fragments - 1 THEN {packet_bytes, header + packet_bytes} ELSE {})
      /\ copies' = {Copy(offset + fragment_bytes, packet_buffer_size)}
  BY DEF ReceiveFragment
<1>3. /\ header \in Nat /\ header <= MaxPacketHeaderBytes
  BY SizesAssumption DEF Headers
<1>4. ConfigAccepted'
  BY <1>1 DEF ConfigAccepted, Accepts, Valid, Covers, TransmitBufferFits
<1>5. /\ k \in Nat /\ config.max_fragments \in Nat /\ fragment_bytes \in Nat
      /\ num_fragments \in Nat /\ fragment_bytes <= k
      /\ id \in 0 .. num_fragments - 1 /\ num_fragments - 1 \in 0 .. num_fragments - 1
  BY <1>1, AcceptedBounds
<1>6. /\ id * k \in Nat /\ id * k + k <= num_fragments * k
      /\ num_fragments * k <= IntMax - MaxPacketHeaderBytes
  BY <1>1, <1>5, FragmentPlaced DEF IInv
<1>7. /\ (num_fragments - 1) * k \in Nat
      /\ (num_fragments - 1) * k + k <= num_fragments * k
  BY <1>1, <1>5, FragmentPlaced DEF IInv
<1>8. num_fragments * k \in Nat
  BY <1>5
<1>9. /\ packet_buffer_size \in 0 .. IntMax
      /\ packet_bytes \in 0 .. IntMax /\ header + packet_bytes \in 0 .. IntMax
      /\ offset + fragment_bytes <= packet_buffer_size
  <2> DEFINE x == id * k
             y == num_fragments * k
             z == (num_fragments - 1) * k
  <2>1. /\ x \in Nat /\ y \in Nat /\ z \in Nat /\ x + k <= y /\ z + k <= y
        /\ y <= IntMax - MaxPacketHeaderBytes
    BY <1>6, <1>7, <1>8
  <2> HIDE DEF x, y, z, k
  <2>2. /\ MaxPacketHeaderBytes + y \in 0 .. IntMax
        /\ z + fragment_bytes \in 0 .. IntMax
        /\ header + (z + fragment_bytes) \in 0 .. IntMax
        /\ MaxPacketHeaderBytes + x + fragment_bytes <= MaxPacketHeaderBytes + y
    BY <1>3, <1>5, <2>1, SizesAssumption
  <2> QED BY <2>2 DEF x, y, z
<1> HIDE DEF offset, packet_buffer_size, packet_bytes, k
<1>10. IntsFit'
  BY <1>2, <1>9 DEF IntsFit
<1>11. CopiesFit'
  BY <1>2, <1>9 DEF CopiesFit, Copy
<1> QED BY <1>4, <1>10, <1>11 DEF IInv

\* Every step keeps the inductive invariant.
LEMMA Inductive == IInv /\ [Next]_vars => IInv'
<1> SUFFICES ASSUME IInv, [Next]_vars PROVE IInv'
  OBVIOUS
<1>1. CASE \E c \in Configs : Create(c)
  BY <1>1, CreateStep, ConfigsAssumption
<1>2. CASE \E c \in Configs : CreateDefault(c.fragment_above)
  <2>1. PICK c \in Configs : CreateDefault(c.fragment_above)
    BY <1>2
  <2>2. c.fragment_above \in Int
    BY ConfigsAssumption DEF Configuration
  <2>3. [DefaultConfig EXCEPT !.fragment_above = c.fragment_above, !.callbacks = TRUE]
          \in Configuration
    <3>1. DefaultConfig \in Configuration
      BY DEF DefaultConfig, Configuration
    <3>2. \A d \in Configuration, f \in Int :
            [d EXCEPT !.fragment_above = f, !.callbacks = TRUE] \in Configuration
      BY DEF Configuration
    <3> QED BY <2>2, <3>1, <3>2
  <2> QED BY <2>1, <2>3, CreateStep DEF CreateDefault
<1>3. CASE Sending
  BY <1>3, SendStep DEF Sending
<1>4. CASE Receiving
  <2>1. config' = config /\ lengths' = {} /\ copies' = {}
    BY <1>4 DEF Receiving, Receive
  <2> QED BY <2>1 DEF IInv, ConfigAccepted, IntsFit, CopiesFit,
                      Accepts, Valid, Covers, TransmitBufferFits
<1>5. CASE ReceivingFragment
  BY <1>5, ReceiveFragmentStep DEF ReceivingFragment
<1>6. CASE Destroy
  BY <1>6 DEF Destroy, IInv, ConfigAccepted, IntsFit, CopiesFit
<1>7. CASE UNCHANGED vars
  BY <1>7 DEF vars, IInv, ConfigAccepted, IntsFit, CopiesFit,
              Accepts, Valid, Covers, TransmitBufferFits
<1> QED BY <1>1, <1>2, <1>3, <1>4, <1>5, <1>6, <1>7 DEF Next

\* So it holds in every reachable state.
LEMMA Invariance == Spec => []IInv
<1>1. Init => IInv
  BY DEF Init, IInv, ConfigAccepted, IntsFit, CopiesFit
<1> QED BY <1>1, Inductive, PTL DEF Spec

\* Whatever INT_MAX and the configuration are, every length an operation
\* computes as int is one, but the one stored with a received packet
\* (reliable_config_valid, reliable.c:561-652, and the sums it guards).
THEOREM LengthsAreInts == Spec => []IntsFit
<1>1. IInv => IntsFit
  BY DEF IInv
<1> QED BY <1>1, Invariance, PTL

\* Whatever the configuration, sending stays inside the transmit buffer that
\* create has sized, storing a fragment inside the reassembly buffer, and no
\* packet is cut into more fragments than there may be.
THEOREM CopiesStayInside == Spec => []CopiesFit
<1>1. IInv => CopiesFit
  BY DEF IInv
<1> QED BY <1>1, Invariance, PTL

\* The asserts of Endpoint::new (endpoint.rs:266-318) hold of every
\* configuration create accepts in C, however wide the int.
THEOREM PortTakesOver == Spec => []PortAcceptsWhatCDoes
<1>1. ASSUME NEW c \in Configuration, Accepts(c) PROVE PortAccepts(c)
  BY <1>1, AcceptedBounds, SizesAssumption
  DEF Configuration, Accepts, Valid, Covers, TransmitBufferFits, PortAccepts
<1>2. IInv => PortAcceptsWhatCDoes
  BY <1>1 DEF IInv, ConfigAccepted, PortAcceptsWhatCDoes
<1> QED BY <1>2, Invariance, PTL
-----------------------------------------------------------------------------
(* Create and destroy                                                      *)

\* The composition implements CConfig: allocations are no step of it, and a
\* create that fails is a destroy.
THEOREM CreateRefinesConfig == CreateSpec => Spec
<1>1. CreateInit => Init
  BY DEF CreateInit
<1>2. [CreateNext]_createVars => [Next]_vars
  <2> SUFFICES ASSUME CreateNext \/ UNCHANGED createVars
               PROVE  Next \/ UNCHANGED vars
    OBVIOUS
  <2>1. CASE CreateCalled
    BY <2>1 DEF CreateCalled, Next
  <2>2. CASE Creating
    BY <2>2 DEF Creating, Next, configVars, vars
  <2>3. CASE Operating
    BY <2>3 DEF Operating, Next
  <2>4. CASE Reassembling
    BY <2>4 DEF Reassembling, configVars, vars
  <2>5. CASE Destroying
    BY <2>5 DEF Destroying, Next
  <2>6. CASE UNCHANGED createVars
    BY <2>6 DEF createVars, configVars, vars
  <2> QED BY <2>1, <2>2, <2>3, <2>4, <2>5, <2>6 DEF CreateNext
<1> QED BY <1>1, <1>2, PTL DEF CreateSpec, Spec

\* No length that create, or an operation of the endpoint it gives, computes
\* overflows.
THEOREM CreatedLengthsAreInts == CreateSpec => []IntsFit
BY CreateRefinesConfig, LengthsAreInts, PTL

\* No copy leaves its buffer.
THEOREM CreatedCopiesStayInside == CreateSpec => []CopiesFit
BY CreateRefinesConfig, CopiesStayInside, PTL

\* The port accepts the configuration of every endpoint created.
THEOREM PortTakesOverCreated == CreateSpec => []PortAcceptsWhatCDoes
BY CreateRefinesConfig, PortTakesOver, PTL

-----------------------------------------------------------------------------
(* Memory *)

Asks == 1 .. 13

Request(n) == Memory!Requests[n]

\* The position of create from which a member may be there.
After(m) ==
  IF m = "acks" THEN 3 ELSE IF m = "sent_packets" THEN 6
  ELSE IF m = "received_packets" THEN 9 ELSE IF m = "fragment_reassembly" THEN 12
  ELSE IF m = "rtt_history_buffer" THEN 13 ELSE 14

\* create is inside reliable_sequence_buffer_create.
InBuffer(n) == n \in {4, 5, 7, 8, 10, 11}

\* The blocks of a buffer whose create has not come to its end.
Pending == IF InBuffer(at) THEN live \cap Memory!BlocksOf(Request(at)[1]) ELSE {}

\* What is live is what destroy would free and what is pending; what is still
\* to be asked for is not live.
MemoryInv ==
  /\ at \in 0 .. 15 /\ fault = FALSE
  /\ members \subseteq Memory!Members /\ \A m \in members : After(m) <= at
  /\ at < 15 => occupied = {}
  /\ at = 15 => members = Memory!Members
  /\ at <= 1 => live = {}
  /\ at > 1 => live = Memory!DestroyedBlocks \cup Pending
  /\ at >= 1 => \A n \in Asks : n >= at => Request(n) \notin live

CreateInv == MemoryInv /\ (config = None => at = 0)

\* The requests one by one.
LEMMA TheRequests ==
  /\ Len(Memory!Requests) = 13 /\ DOMAIN Memory!Requests = Asks
  /\ Request(1) = <<"endpoint", "struct">>
  /\ Request(2) = <<"acks", "array">>
  /\ Request(3) = <<"sent_packets", "struct">>
  /\ Request(4) = <<"sent_packets", "entry_sequence">>
  /\ Request(5) = <<"sent_packets", "entry_data">>
  /\ Request(6) = <<"received_packets", "struct">>
  /\ Request(7) = <<"received_packets", "entry_sequence">>
  /\ Request(8) = <<"received_packets", "entry_data">>
  /\ Request(9) = <<"fragment_reassembly", "struct">>
  /\ Request(10) = <<"fragment_reassembly", "entry_sequence">>
  /\ Request(11) = <<"fragment_reassembly", "entry_data">>
  /\ Request(12) = <<"rtt_history_buffer", "array">>
  /\ Request(13) = <<"transmit_buffer", "array">>
BY DEF Memory!Requests, Memory!Self, Request, Asks

\* No two requests are for the same block.
LEMMA RequestsDiffer ==
  \A i, j \in Asks : i # j => Request(i) # Request(j)
BY TheRequests DEF Asks

\* The request for a member's block names the member, which cannot be there
\* before its last one.
LEMMA RequestsOfMembers ==
  ASSUME NEW n \in 2 .. 13
  PROVE  /\ Request(n)[1] \in Memory!Members
         /\ n < After(Request(n)[1])
         /\ Request(n) \in Memory!BlocksOf(Request(n)[1])
         /\ \A m \in Memory!Members : Request(n) \in Memory!BlocksOf(m) => m = Request(n)[1]
         /\ \A slot : Request(n) # Memory!PacketData(slot)
         /\ Request(n) # Memory!Self
BY TheRequests
   DEF After, Memory!Members, Memory!Buffers, Memory!BlocksOf, Memory!PacketData, Memory!Self

\* Where create stands when it asks for the part of that name, and what it
\* has asked for of the same member.
LEMMA Positions ==
  ASSUME at \in Asks
  PROVE  /\ Request(at) = Memory!Self => at = 1
         /\ Request(at)[2] = "array" =>
              /\ at \in {2, 12, 13}
              /\ Memory!BlocksOf(Request(at)[1]) = {Request(at)}
              /\ After(Request(at)[1]) = at + 1
         /\ Request(at)[1] \in Memory!Buffers /\ Request(at)[2] = "struct" =>
              at \in {3, 6, 9} /\ Request(at + 1)[1] = Request(at)[1]
         /\ Request(at)[2] = "entry_sequence" =>
              at \in {4, 7, 10} /\ Request(at + 1)[1] = Request(at)[1]
         /\ Request(at)[2] = "entry_data" =>
              at \in {5, 8, 11} /\ After(Request(at)[1]) = at + 1
BY TheRequests DEF Asks, After, Memory!BlocksOf, Memory!Buffers, Memory!Self

\* What a member owns is neither the endpoint nor another member's.
LEMMA BlocksApart ==
  ASSUME NEW m \in Memory!Members
  PROVE  /\ Memory!Self \notin Memory!BlocksOf(m)
         /\ \A slot : Memory!PacketData(slot) \notin Memory!BlocksOf(m)
         /\ \A n \in Memory!Members \ {m} : Memory!BlocksOf(m) \cap Memory!BlocksOf(n) = {}
BY DEF Memory!Members, Memory!Buffers, Memory!BlocksOf, Memory!PacketData, Memory!Self

\* Before the endpoint is complete destroy has no packets to free.
LEMMA NoPackets ==
  ASSUME occupied = {}
  PROVE  Memory!DestroyedBlocks = {Memory!Self} \cup (UNION {Memory!BlocksOf(m) : m \in members})
BY DEF Memory!DestroyedBlocks

\* The answer to the request for the endpoint's own block.
LEMMA SelfStep ==
  ASSUME MemoryInv, NEW given \in BOOLEAN, Memory!AskSelf(given)
  PROVE  MemoryInv' /\ (at' = 0 \/ at # 0)
<1>1. at = 1 /\ live = {} /\ occupied = {} /\ members' = members /\ occupied' = occupied
  BY Positions, TheRequests DEF MemoryInv, Asks, Memory!AskSelf, Memory!Asking, Memory!Request, Request
<1>2. members = {}
  BY <1>1 DEF MemoryInv, After
<1>3. CASE given
  <2>1. at' = 2 /\ live' = {Memory!Self} /\ fault' = FALSE
    <3>1. at' = 2 /\ live' = live \cup {Memory!Self} /\ fault' = (fault \/ Memory!Self \in live)
      BY <1>1, <1>3 DEF Memory!AskSelf, Memory!Take
    <3> QED BY <1>1, <3>1 DEF MemoryInv
  <2>2. Memory!DestroyedBlocks' = {Memory!Self} /\ Pending' = {}
    BY <1>1, <1>2, <2>1 DEF Memory!DestroyedBlocks, Pending, InBuffer, Memory!Self
  <2>3. \A n \in Asks : n >= 2 => Request(n) \notin live'
    BY <2>1, RequestsOfMembers DEF Asks
  <2> QED BY <1>1, <1>2, <2>1, <2>2, <2>3 DEF MemoryInv, Request, Memory!Requests
<1>4. CASE ~given
  BY <1>1, <1>2, <1>4 DEF MemoryInv, Memory!AskSelf, Memory!NoEndpoint
<1> QED BY <1>3, <1>4

\* The answer to the request for a buffer's entries.
LEMMA ArrayStep ==
  ASSUME MemoryInv, NEW given \in BOOLEAN, Memory!AskArray(given)
  PROVE  MemoryInv' /\ at # 0
<1> DEFINE m == Request(at)[1]
<1>1. at \in Asks /\ Request(at)[2] = "array"
  BY TheRequests DEF Memory!AskArray, Memory!Asking, Memory!Request, Request
<1>2. /\ at \in {2, 12, 13} /\ at' = at + 1
      /\ Memory!BlocksOf(m) = {Request(at)} /\ After(m) = at + 1 /\ m \in Memory!Members
  BY <1>1, Positions, RequestsOfMembers DEF Memory!AskArray
<1>3. occupied = {} /\ occupied' = {} /\ live = Memory!DestroyedBlocks /\ Request(at) \notin live
  <2>1. occupied = {} /\ occupied' = {} /\ Request(at) \notin live
    BY <1>1, <1>2 DEF MemoryInv, Memory!AskArray
  <2>2. Pending = {}
    BY <1>2 DEF Pending, InBuffer
  <2> QED BY <1>2, <2>1, <2>2 DEF MemoryInv
<1>4. /\ members' = members \cup {b \in {m} : given}
      /\ live' = live \cup {b \in {Request(at)} : given}
      /\ fault' = FALSE
  BY <1>3 DEF MemoryInv, Memory!AskArray, Memory!Take, Memory!Request, Request
<1>5. live' = Memory!DestroyedBlocks' /\ Pending' = {}
  <2>1. Pending' = {}
    BY <1>2 DEF Pending, InBuffer
  <2>2. live' = {Memory!Self} \cup (UNION {Memory!BlocksOf(b) : b \in members'})
    BY <1>2, <1>3, <1>4, NoPackets
  <2> QED BY <1>3, <2>1, <2>2 DEF Memory!DestroyedBlocks, Memory!Self, Memory!BlocksOf, Memory!Buffers
<1>6. members' \subseteq Memory!Members /\ \A b \in members' : After(b) <= at'
  BY <1>2, <1>4 DEF MemoryInv, After
<1>7. \A n \in Asks : n >= at' => Request(n) \notin live'
  BY <1>1, <1>2, <1>4, RequestsDiffer DEF MemoryInv, Asks
<1>8. (\A n \in Asks : n >= at => Request(n) \notin live)'
  BY <1>7 DEF Request, Memory!Requests
<1> QED BY <1>2, <1>3, <1>4, <1>5, <1>6, <1>8 DEF MemoryInv, After

\* A buffer's struct; without it create goes on with the next member.
LEMMA BufferStep ==
  ASSUME MemoryInv, NEW given \in BOOLEAN, Memory!AskBuffer(given)
  PROVE  MemoryInv' /\ at # 0
<1> DEFINE m == Request(at)[1]
<1>1. at \in Asks /\ m \in Memory!Buffers /\ Request(at)[2] = "struct"
  BY TheRequests DEF Memory!AskBuffer, Memory!Asking, Memory!Request, Request
<1>2. /\ at \in {3, 6, 9} /\ at' = (IF given THEN at + 1 ELSE at + 3)
      /\ Request(at + 1)[1] = m /\ Request(at) \in Memory!BlocksOf(m)
  BY <1>1, Positions, RequestsOfMembers DEF Memory!AskBuffer
<1>3. occupied = {} /\ occupied' = {} /\ live = Memory!DestroyedBlocks /\ Request(at) \notin live
  <2>1. occupied = {} /\ occupied' = {} /\ Request(at) \notin live
    BY <1>1, <1>2 DEF MemoryInv, Memory!AskBuffer
  <2>2. Pending = {}
    BY <1>2 DEF Pending, InBuffer
  <2> QED BY <1>2, <2>1, <2>2 DEF MemoryInv
<1>4. members' = members /\ live' = live \cup {b \in {Request(at)} : given} /\ fault' = FALSE
  BY <1>3 DEF MemoryInv, Memory!AskBuffer, Memory!Take, Memory!Request, Request
<1>5. live' = Memory!DestroyedBlocks' \cup Pending'
  <2>1. Memory!DestroyedBlocks' = live
    BY <1>3, <1>4 DEF Memory!DestroyedBlocks, Memory!Self, Memory!BlocksOf, Memory!Buffers
  <2>2. CASE given
    <3>1. Pending' = live' \cap Memory!BlocksOf(m)
      BY <1>2, <2>2 DEF Pending, InBuffer, Request, Memory!Requests, Memory!BlocksOf, Memory!Buffers
    <3> QED BY <1>2, <1>4, <2>1, <2>2, <3>1
  <2>3. CASE ~given
    BY <1>2, <1>4, <2>1, <2>3 DEF Pending, InBuffer
  <2> QED BY <2>2, <2>3
<1>6. \A n \in Asks : n >= at' => Request(n) \notin live'
  BY <1>1, <1>2, <1>4, RequestsDiffer DEF MemoryInv, Asks
<1>7. (\A n \in Asks : n >= at => Request(n) \notin live)'
  BY <1>6 DEF Request, Memory!Requests
<1>8. members' \subseteq Memory!Members /\ \A b \in members' : After(b) <= at'
  BY <1>2, <1>4 DEF MemoryInv, After
<1> QED BY <1>2, <1>3, <1>4, <1>5, <1>7, <1>8 DEF MemoryInv, After

\* The answer to the request for a buffer's sequence numbers.
LEMMA EntrySequenceStep ==
  ASSUME MemoryInv, NEW given \in BOOLEAN, Memory!AskEntrySequence(given)
  PROVE  MemoryInv' /\ at # 0
<1> DEFINE m == Request(at)[1]
<1>1. at \in Asks /\ Request(at)[2] = "entry_sequence"
  BY TheRequests DEF Memory!AskEntrySequence, Memory!Asking, Memory!Request, Request
<1>2. /\ at \in {4, 7, 10} /\ at' = at + 1
      /\ Request(at + 1)[1] = m /\ Request(at) \in Memory!BlocksOf(m)
  BY <1>1, Positions, RequestsOfMembers DEF Memory!AskEntrySequence
<1>3. /\ occupied = {} /\ occupied' = {} /\ Request(at) \notin live
      /\ live = Memory!DestroyedBlocks \cup (live \cap Memory!BlocksOf(m))
  BY <1>1, <1>2 DEF MemoryInv, Memory!AskEntrySequence, Pending, InBuffer
<1>4. members' = members /\ live' = live \cup {b \in {Request(at)} : given} /\ fault' = FALSE
  BY <1>3 DEF MemoryInv, Memory!AskEntrySequence, Memory!Take, Memory!Request, Request
<1>5. live' = Memory!DestroyedBlocks' \cup Pending'
  <2>1. Memory!DestroyedBlocks' = Memory!DestroyedBlocks
    BY <1>3, <1>4 DEF Memory!DestroyedBlocks, Memory!Self, Memory!BlocksOf, Memory!Buffers
  <2>2. Pending' = live' \cap Memory!BlocksOf(m)
    BY <1>2 DEF Pending, InBuffer, Request, Memory!Requests, Memory!BlocksOf, Memory!Buffers
  <2> QED BY <1>2, <1>3, <1>4, <2>1, <2>2
<1>6. \A n \in Asks : n >= at' => Request(n) \notin live'
  BY <1>1, <1>2, <1>4, RequestsDiffer DEF MemoryInv, Asks
<1>7. (\A n \in Asks : n >= at => Request(n) \notin live)'
  BY <1>6 DEF Request, Memory!Requests
<1>8. members' \subseteq Memory!Members /\ \A b \in members' : After(b) <= at'
  BY <1>2, <1>4 DEF MemoryInv, After
<1> QED BY <1>2, <1>3, <1>4, <1>5, <1>7, <1>8 DEF MemoryInv, After

\* The last part of a buffer: it becomes a member, or nothing is left of it.
LEMMA EntryDataStep ==
  ASSUME MemoryInv, NEW given \in BOOLEAN, Memory!AskEntryData(given)
  PROVE  MemoryInv' /\ at # 0
<1> DEFINE m == Request(at)[1]
           taken == live \cup {b \in {Request(at)} : given}
           complete == Memory!BlocksOf(m) \subseteq taken
<1>1. at \in Asks /\ Request(at)[2] = "entry_data"
  BY TheRequests DEF Memory!AskEntryData, Memory!Asking, Memory!Request, Request
<1>2. /\ at \in {5, 8, 11} /\ at' = at + 1 /\ After(m) = at + 1
      /\ m \in Memory!Members /\ Request(at) \in Memory!BlocksOf(m)
  BY <1>1, Positions, RequestsOfMembers DEF Memory!AskEntryData
<1>3. /\ occupied = {} /\ occupied' = {} /\ m \notin members
      /\ live = Memory!DestroyedBlocks \cup (live \cap Memory!BlocksOf(m))
  BY <1>1, <1>2 DEF MemoryInv, Memory!AskEntryData, Pending, InBuffer
<1>4. /\ live' = taken \ (IF complete THEN {} ELSE Memory!BlocksOf(m) \cap taken)
      /\ fault' = (fault \/ ~((IF complete THEN {} ELSE Memory!BlocksOf(m) \cap taken) \subseteq taken))
      /\ members' = members \cup {b \in {m} : complete}
  BY DEF Memory!AskEntryData, Memory!BufferBlocks, Memory!Request, Request
<1>5. fault' = FALSE
  BY <1>4 DEF MemoryInv
<1>6. Memory!DestroyedBlocks \cap Memory!BlocksOf(m) = {}
  BY <1>2, <1>3, NoPackets, BlocksApart DEF MemoryInv
<1>7. live' = Memory!DestroyedBlocks' /\ Pending' = {}
  <2>1. Pending' = {}
    BY <1>2 DEF Pending, InBuffer
  <2>2. live' = {Memory!Self} \cup (UNION {Memory!BlocksOf(b) : b \in members'})
    <3>1. CASE complete
      BY <1>2, <1>3, <1>4, <3>1, NoPackets
    <3>2. CASE ~complete
      BY <1>2, <1>3, <1>4, <1>6, <3>2, NoPackets
    <3> QED BY <3>1, <3>2
  <2> QED BY <1>3, <2>1, <2>2 DEF Memory!DestroyedBlocks, Memory!Self, Memory!BlocksOf, Memory!Buffers
<1>8. members' \subseteq Memory!Members /\ \A b \in members' : After(b) <= at'
  BY <1>2, <1>4 DEF MemoryInv, After
<1>9. \A n \in Asks : n >= at' => Request(n) \notin live'
  BY <1>1, <1>2, <1>4, RequestsDiffer DEF MemoryInv, Asks
<1>10. (\A n \in Asks : n >= at => Request(n) \notin live)'
  BY <1>9 DEF Request, Memory!Requests
<1> QED BY <1>2, <1>3, <1>5, <1>7, <1>8, <1>10 DEF MemoryInv, After

\* Destroy frees exactly what is live.
LEMMA DestroyAllStep ==
  ASSUME MemoryInv, at \in {14, 15}, Memory!DestroyAll
  PROVE  MemoryInv' /\ at' = 0
<1>1. live = Memory!DestroyedBlocks
  BY DEF MemoryInv, Pending, InBuffer
<1>2. live' = {} /\ fault' = FALSE /\ at' = 0 /\ members' = {} /\ occupied' = {}
  BY <1>1 DEF MemoryInv, Memory!DestroyAll, Memory!FreeBlocks, Memory!NoEndpoint
<1> QED BY <1>2 DEF MemoryInv

\* The check of all blocks at the end.
LEMMA CheckStep ==
  ASSUME MemoryInv, Memory!Check
  PROVE  MemoryInv' /\ at # 0
<1>1. at = 14
  BY TheRequests DEF Memory!Check, Memory!Asked
<1>2. CASE members = Memory!Members
  <2>1. at' = 15 /\ UNCHANGED <<members, live, occupied, fault>>
    BY <1>2, TheRequests DEF Memory!Check, Memory!Running
  <2>2. live = Memory!DestroyedBlocks
    BY <1>1 DEF MemoryInv, Pending, InBuffer
  <2>3. Memory!DestroyedBlocks' = Memory!DestroyedBlocks /\ Pending' = {}
    BY <2>1 DEF Pending, InBuffer, Memory!DestroyedBlocks, Memory!Self, Memory!BlocksOf,
                Memory!Buffers, Memory!PacketData
  <2>4. Memory!Members' = Memory!Members /\ \A m \in members' : (After(m) <= at)'
    BY <1>1, <2>1 DEF MemoryInv, After, Memory!Members, Memory!Buffers
  <2> QED BY <1>1, <1>2, <2>1, <2>2, <2>3, <2>4 DEF MemoryInv, Asks
<1>3. CASE members # Memory!Members
  BY <1>1, <1>3, DestroyAllStep DEF Memory!Check
<1> QED BY <1>2, <1>3

\* A complete endpoint takes a block for a packet that has none, or frees one.
LEMMA HoldStep ==
  ASSUME MemoryInv, NEW slot, Memory!Hold(slot) \/ Memory!Drop(slot)
  PROVE  MemoryInv' /\ at # 0
<1>1. at = 15 /\ at' = 15 /\ members' = members /\ members = Memory!Members
  BY TheRequests DEF MemoryInv, Memory!Hold, Memory!Drop, Memory!Running
<1>2. "fragment_reassembly" \in members
  BY <1>1 DEF Memory!Members, Memory!Buffers
<1>3. live = Memory!DestroyedBlocks
  BY <1>1 DEF MemoryInv, Pending, InBuffer
<1> DEFINE base == {Memory!Self} \cup (UNION {Memory!BlocksOf(m) : m \in members})
           packets(slots) == {Memory!PacketData(s) : s \in slots}
<1>4. live = base \cup packets(occupied)
  <2>1. {s \in occupied : "fragment_reassembly" \in members} = occupied
    BY <1>2
  <2>2. Memory!DestroyedBlocks = base \cup packets(occupied)
    BY <2>1, Zenon DEF Memory!DestroyedBlocks
  <2> QED BY <1>3, <2>2
<1>5. /\ \A s : Memory!PacketData(s) \notin base
      /\ \A s, slots : Memory!PacketData(s) \in packets(slots) <=> s \in slots
  <2>1. \A s, t : Memory!PacketData(s) = Memory!PacketData(t) => s = t
    BY DEF Memory!PacketData
  <2>2. \A s : Memory!PacketData(s) # Memory!Self
    BY DEF Memory!PacketData, Memory!Self
  <2>3. \A s : \A m \in members : Memory!PacketData(s) \notin Memory!BlocksOf(m)
    BY <1>1, BlocksApart
  <2> QED BY <2>1, <2>2, <2>3
<1>6. fault' = FALSE /\ live' = base \cup packets(occupied')
  <2> HIDE DEF base
  <2>1. CASE Memory!Hold(slot)
    <3>1. /\ slot \notin occupied /\ occupied' = occupied \cup {slot}
          /\ live' = live \cup {Memory!PacketData(slot)}
          /\ fault' = (fault \/ Memory!PacketData(slot) \in live)
      BY <2>1 DEF Memory!Hold, Memory!Take
    <3>2. fault' = FALSE
      BY <1>4, <1>5, <3>1 DEF MemoryInv
    <3>3. packets(occupied \cup {slot}) = packets(occupied) \cup {Memory!PacketData(slot)}
      OBVIOUS
    <3> QED BY <1>4, <3>1, <3>2, <3>3
  <2>2. CASE Memory!Drop(slot)
    <3>1. /\ slot \in occupied /\ occupied' = occupied \ {slot}
          /\ live' = live \ {Memory!PacketData(slot)}
          /\ fault' = (fault \/ ~({Memory!PacketData(slot)} \subseteq live))
      BY <2>2 DEF Memory!Drop, Memory!FreeBlocks
    <3>2. fault' = FALSE
      BY <1>4, <1>5, <3>1 DEF MemoryInv
    <3>3. packets(occupied \ {slot}) = packets(occupied) \ {Memory!PacketData(slot)}
      BY DEF Memory!PacketData
    <3> QED BY <1>4, <1>5, <3>1, <3>2, <3>3
  <2> QED BY <2>1, <2>2
<1>7. live' = Memory!DestroyedBlocks' /\ Pending' = {}
  <2>1. Pending' = {}
    BY <1>1 DEF Pending, InBuffer
  <2>2. {s \in occupied' : "fragment_reassembly" \in members} = occupied'
    BY <1>2
  <2>3. Memory!DestroyedBlocks' = base \cup packets(occupied')
    <3>1. Memory!DestroyedBlocks' =
            base \cup packets({s \in occupied' : "fragment_reassembly" \in members})
      BY <1>1 DEF Memory!DestroyedBlocks, Memory!Self, Memory!BlocksOf, Memory!Buffers,
                  Memory!PacketData
    <3> QED BY <2>2, <3>1, Zenon
  <2> QED BY <1>6, <2>1, <2>3
<1>8. (members \subseteq Memory!Members /\ members = Memory!Members /\ \A m \in members : After(m) <= at)'
  BY <1>1 DEF MemoryInv, After, Memory!Members, Memory!Buffers
<1> QED BY <1>1, <1>6, <1>7, <1>8 DEF MemoryInv, Asks

\* The invariant depends on the memory variables alone.
LEMMA MemoryStutters ==
  ASSUME MemoryInv, UNCHANGED memoryVars
  PROVE  MemoryInv'
<1>1. Memory!DestroyedBlocks' = Memory!DestroyedBlocks
  BY DEF memoryVars, Memory!DestroyedBlocks, Memory!Self, Memory!BlocksOf, Memory!Buffers,
         Memory!PacketData
<1>2. Pending' = Pending
  BY DEF memoryVars, Pending, InBuffer, Request, Memory!Requests, Memory!BlocksOf, Memory!Buffers
<1>3. (\A n \in Asks : n >= at => Request(n) \notin live)' <=>
        \A n \in Asks : n >= at => Request(n) \notin live
  BY DEF memoryVars, Request, Memory!Requests
<1>4. (members \subseteq Memory!Members /\ \A m \in members : After(m) <= at)'
  BY DEF MemoryInv, memoryVars, After, Memory!Members, Memory!Buffers
<1>5. Memory!Members' = Memory!Members
  BY DEF Memory!Members, Memory!Buffers
<1> QED BY <1>1, <1>2, <1>3, <1>4, <1>5 DEF MemoryInv, memoryVars

\* Every step keeps the inductive invariant.
LEMMA CreateInductive ==
  ASSUME CreateInv, [CreateNext]_createVars
  PROVE  CreateInv'
<1>1. CASE CreateCalled
  <2>1. at = 0 /\ at' = 1 /\ UNCHANGED <<members, live, occupied, fault>>
    BY <1>1 DEF CreateCalled, Memory!Create, Memory!NoEndpoint
  <2>2. MemoryInv'
    BY <2>1 DEF CreateInv, MemoryInv, After, Memory!Members, Memory!Buffers
  <2>3. config' # None
    <3>1. PICK c \in Configs : Create(c) \/ CreateDefault(c.fragment_above)
      BY <1>1 DEF CreateCalled
    <3>2. CASE Create(c)
      BY <3>2, ConfigsAssumption, NoneAssumption DEF Create
    <3>3. CASE CreateDefault(c.fragment_above)
      <4>1. [DefaultConfig EXCEPT !.fragment_above = c.fragment_above, !.callbacks = TRUE]
              \in Configuration
        <5>1. DefaultConfig \in Configuration /\ c.fragment_above \in Int
          BY ConfigsAssumption DEF DefaultConfig, Configuration
        <5>2. \A d \in Configuration, f \in Int :
                [d EXCEPT !.fragment_above = f, !.callbacks = TRUE] \in Configuration
          BY DEF Configuration
        <5> QED BY <5>1, <5>2
      <4> QED BY <3>3, <4>1, NoneAssumption DEF CreateDefault, Create
    <3> QED BY <3>1, <3>2, <3>3
  <2> QED BY <2>2, <2>3 DEF CreateInv
<1>2. CASE Creating
  <2>1. MemoryInv' /\ (at' = 0 \/ at # 0)
    BY <1>2, SelfStep, ArrayStep, BufferStep, EntrySequenceStep, EntryDataStep, CheckStep
       DEF Creating, Allocation, CreateInv
  <2>2. config' = None => at' = 0
    BY <1>2, <2>1 DEF Creating, CreateInv, configVars, Memory!NoEndpoint
  <2> QED BY <2>1, <2>2 DEF CreateInv
<1>3. CASE Operating
  <2>1. config' = config
    BY <1>3 DEF Operating, Sending, Receiving, ReceivingFragment, Send, Receive, ReceiveFragment
  <2> QED BY <1>3, <2>1, MemoryStutters DEF Operating, CreateInv, memoryVars
<1>4. CASE Reassembling
  BY <1>4, HoldStep DEF Reassembling, CreateInv, configVars
<1>5. CASE Destroying
  <2>1. at = 15 /\ Memory!DestroyAll
    BY <1>5, TheRequests DEF Destroying, Memory!Destroy, Memory!Running
  <2> QED BY <2>1, DestroyAllStep DEF CreateInv
<1>6. CASE UNCHANGED createVars
  BY <1>6, MemoryStutters DEF createVars, configVars, memoryVars, CreateInv
<1> QED BY <1>1, <1>2, <1>3, <1>4, <1>5, <1>6 DEF CreateNext

\* So it holds in every reachable state.
LEMMA CreateInvariance == CreateSpec => []CreateInv
<1>1. CreateInit => CreateInv
  BY DEF CreateInit, Memory!Init, Memory!NoEndpoint, CreateInv, MemoryInv
<1>2. CreateInv /\ [CreateNext]_createVars => CreateInv'
  BY CreateInductive
<1> QED BY <1>1, <1>2, PTL DEF CreateSpec

\* A create that fails, at whichever of its allocations, retains nothing, and
\* destroy gives back everything.
THEOREM MemoryGivenBack == CreateSpec => []NothingRetained
<1>1. CreateInv => NothingRetained
  BY DEF CreateInv, MemoryInv, NothingRetained
<1> QED BY <1>1, CreateInvariance, PTL

\* No block is freed twice, or without having been allocated.
THEOREM NothingFreedTwice == CreateSpec => []FreedOnce
<1>1. CreateInv => FreedOnce
  BY DEF CreateInv, MemoryInv, FreedOnce
<1> QED BY <1>1, CreateInvariance, PTL
=============================================================================
