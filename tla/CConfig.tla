-------------------------------- MODULE CConfig --------------------------------
(***************************************************************************)
(* The configuration checks of the C implementation (reliable_config_valid *)
(* and reliable_endpoint_create, src/wire-compat/c/reliable.c) and the     *)
(* lengths the code then computes as int, or copies to, without looking.   *)
(* An operation leaves in `lengths` every int it computes, and in `copies` *)
(* where each of its copies ends and how much room it was given.           *)
(***************************************************************************)
EXTENDS Integers

CONSTANTS
  IntMax,               \* INT_MAX
  FragmentsLimit,       \* 256
  MinPacketHeaderBytes, MaxPacketHeaderBytes, FragmentHeaderBytes,   \* 4, 9 and 5
  None,
  Configs,              \* configurations the application may ask for
  Lengths(_)            \* lengths to try with one

ASSUME SizesAssumption ==
  /\ {IntMax, FragmentsLimit, MinPacketHeaderBytes, MaxPacketHeaderBytes,
      FragmentHeaderBytes} \subseteq Nat
  /\ MinPacketHeaderBytes <= MaxPacketHeaderBytes

\* struct reliable_config_t.  smallest_buffer is the least of the five buffer
\* sizes, callbacks whether both functions are given.
Configuration ==
  [max_packet_size : Int, fragment_above : Int, max_fragments : Int, fragment_size : Int,
   smallest_buffer : Int, callbacks : BOOLEAN, packet_header_size : Int]

ASSUME ConfigsAssumption == Configs \subseteq Configuration

VARIABLES
  config,      \* of the endpoint, or None
  lengths, copies,
  received_length   \* the int stored with a received packet

vars == <<config, lengths, copies, received_length>>

\* Mutant: one fragment too few is enough.
Covers_OffByOne(c) == c.max_fragments >= (c.max_packet_size - 1) \div c.fragment_size

\* max_fragments * fragment_size covers max_packet_size, without the product.
Covers(c) == c.max_fragments > (c.max_packet_size - 1) \div c.fragment_size

\* reliable_config_valid.
Valid(c) ==
  /\ c.max_packet_size > 0 /\ c.fragment_above > 0 /\ c.fragment_size > 0
  /\ c.max_fragments > 0 /\ c.max_fragments <= FragmentsLimit
  /\ c.smallest_buffer > 0 /\ c.callbacks
  /\ c.fragment_above <= c.max_packet_size
  /\ Covers(c)
  /\ c.max_fragments * c.fragment_size <= IntMax - MaxPacketHeaderBytes
  /\ c.max_packet_size <= IntMax - MaxPacketHeaderBytes - FragmentHeaderBytes
  /\ c.packet_header_size >= 0
  /\ c.packet_header_size + c.max_packet_size <= IntMax

\* Mutant: a fragment is taken to fit where a packet does.
TransmitBufferSize_PacketOnly(c) == c.max_packet_size + MaxPacketHeaderBytes

\* The larger of what a packet and a fragment need.
TransmitBufferSize(c) ==
  LET packet == c.max_packet_size + MaxPacketHeaderBytes
      fragment == FragmentHeaderBytes + MaxPacketHeaderBytes + c.fragment_size
  IN  IF fragment > packet THEN fragment ELSE packet

\* The check create makes before it computes that size.
TransmitBufferFits(c) ==
  /\ c.max_packet_size <= IntMax - MaxPacketHeaderBytes
  /\ c.fragment_size <= IntMax - FragmentHeaderBytes - MaxPacketHeaderBytes

\* Mutant: create goes by the validity of the fields alone.
Accepts_ValidOnly(c) == Valid(c)

Accepts(c) == Valid(c) /\ TransmitBufferFits(c)

\* reliable_default_config.
DefaultConfig ==
  [max_packet_size |-> 16 * 1024, fragment_above |-> 1024, max_fragments |-> 16,
   fragment_size |-> 1024, smallest_buffer |-> 64, callbacks |-> FALSE,
   packet_header_size |-> 28]

\* reliable_endpoint_create; a refused configuration gives no endpoint.
Create(c) ==
  /\ config = None /\ Accepts(c)
  /\ config' = c
  /\ lengths' = {TransmitBufferSize(c)} /\ copies' = {} /\ received_length' = 0

\* wire_compat_endpoint_create: the defaults, with another fragment_above.
CreateDefault(fragment_above) ==
  Create([DefaultConfig EXCEPT !.fragment_above = fragment_above, !.callbacks = TRUE])

Headers == {MinPacketHeaderBytes, MaxPacketHeaderBytes}

Copy(end, room) == [end |-> end, room |-> room]

NumFragments(bytes) ==
  bytes \div config.fragment_size + (IF bytes % config.fragment_size # 0 THEN 1 ELSE 0)

\* The assert that there are not too many fragments is a length like the others.
Send(bytes, header) ==
  /\ config # None /\ bytes \in 1 .. config.max_packet_size
  /\ UNCHANGED config /\ received_length' = 0
  /\ IF bytes <= config.fragment_above
     THEN /\ lengths' = {config.packet_header_size + bytes, header + bytes}
          /\ copies' = {Copy(header + bytes, TransmitBufferSize(config))}
     ELSE LET copied == IF bytes < config.fragment_size THEN bytes ELSE config.fragment_size
          IN  /\ lengths' = {config.packet_header_size + bytes}
              /\ copies' = {Copy(FragmentHeaderBytes + header + copied, TransmitBufferSize(config)),
                            Copy(NumFragments(bytes), config.max_fragments)}

PassesGate(bytes) == bytes <= config.max_packet_size + MaxPacketHeaderBytes + FragmentHeaderBytes

\* A regular packet is received and accepted.
Receive(bytes, header) ==
  /\ config # None /\ PassesGate(bytes) /\ bytes >= header
  /\ bytes - header <= config.max_packet_size
  /\ received_length' = config.packet_header_size + bytes
  /\ lengths' = {} /\ copies' = {} /\ UNCHANGED config

\* The last of num_fragments fragments is received, or the first.
ReceiveFragment(id, num_fragments, fragment_bytes, header) ==
  LET fragment_header == FragmentHeaderBytes + (IF id = 0 THEN header ELSE 0)
      offset == MaxPacketHeaderBytes + id * config.fragment_size
      packet_buffer_size == MaxPacketHeaderBytes + num_fragments * config.fragment_size
      packet_bytes == (num_fragments - 1) * config.fragment_size + fragment_bytes
  IN  /\ config # None /\ PassesGate(fragment_header + fragment_bytes)
      /\ num_fragments \in 1 .. config.max_fragments /\ id \in {0, num_fragments - 1}
      /\ fragment_bytes \in 0 .. config.fragment_size
      /\ id # num_fragments - 1 => fragment_bytes = config.fragment_size
      /\ UNCHANGED config /\ received_length' = 0
      /\ lengths' = {packet_buffer_size} \cup
           (IF id = num_fragments - 1 THEN {packet_bytes, header + packet_bytes} ELSE {})
      /\ copies' = {Copy(offset + fragment_bytes, packet_buffer_size)}

Init == config = None /\ lengths = {} /\ copies = {} /\ received_length = 0

Destroy ==
  config # None /\ config' = None /\ lengths' = {} /\ copies' = {} /\ received_length' = 0

Sending ==
  config # None /\ \E bytes \in Lengths(config), header \in Headers : Send(bytes, header)

Receiving ==
  config # None /\ \E bytes \in Lengths(config), header \in Headers : Receive(bytes, header)

ReceivingFragment ==
  /\ config # None
  /\ \E num_fragments \in {1, 2, config.max_fragments}, fragment_bytes \in Lengths(config),
        header \in Headers :
       \E id \in {0, num_fragments - 1} :
         ReceiveFragment(id, num_fragments, fragment_bytes, header)

Next ==
  \/ \E c \in Configs : Create(c)
  \/ \E c \in Configs : CreateDefault(c.fragment_above)
  \/ Sending \/ Receiving \/ ReceivingFragment \/ Destroy

Spec == Init /\ [][Next]_vars

=============================================================================
