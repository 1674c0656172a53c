-------------------------------- MODULE CPort --------------------------------
(***************************************************************************)
(* The C endpoint behaves as the port does ("cross_feed",                  *)
(* src/wire-compat/src/lib.rs, compares the two on two connections; here   *)
(* they are compared on every datagram of a set, in every reachable state).*)
(* `call` is the last call made of the endpoint and what it was given.     *)
(***************************************************************************)
EXTENDS CEndpointProperties

VARIABLE call

-----------------------------------------------------------------------------
(* The refinement mapping *)

\* A packet under reassembly, as the port's entry for it.
PortEntry(data) ==
  [num_fragments_received |-> data.num_fragments_received,
   num_fragments_total |-> data.num_fragments_total,
   fragment_received |-> data.fragment_received,
   packet_data |-> endpoint.heap[data.packet_data].data,
   packet_bytes |-> data.packet_bytes,
   header |-> endpoint.heap[data.packet_data].header]

\* A buffer as the port has it: an empty slot holds the default.
PortBuffer(b, Entry(_), default) ==
  [sequence |-> b.sequence, entry_sequence |-> b.entry_sequence,
   entries |-> [i \in DOMAIN b.entry_data |->
                  IF b.entry_sequence[i] = None THEN default ELSE Entry(b.entry_data[i])]]

PortEmpty ==
  [num_fragments_received |-> 0, num_fragments_total |-> 0, fragment_received |-> {},
   packet_data |-> <<>>, packet_bytes |-> 0, header |-> None]

PortSent == PortBuffer(endpoint.sent_packets, Untouched, FALSE)

PortReceived == PortBuffer(endpoint.received_packets, Untouched, None)

PortReassembly == PortBuffer(endpoint.fragment_reassembly, PortEntry, PortEmpty)

Port == INSTANCE Endpoint WITH
  sequence <- endpoint.sequence, sent_packets <- PortSent,
  received_packets <- PortReceived, fragment_reassembly <- PortReassembly,
  acks <- endpoint.acks, counters <- endpoint.counters

\* What the port has no step for: the allocation for a packet's first fragment
\* failed.  "The fragment is dropped, counted invalid" (reliable.h:192), the
\* windows have moved, and what the window passed or the slot held is gone.
DropsFragment(d) ==
  /\ d.type = "fragment" /\ Port!Readable(d) /\ Port!Storable(d)
  /\ ~Port!Reassembly!Exists(PortReassembly, d.sequence)
  /\ endpoint'.sequence = endpoint.sequence /\ endpoint'.acks = endpoint.acks
  /\ PortSent' = PortSent
  /\ endpoint'.counters = Increment(endpoint.counters, {"num_fragments_invalid"})
  /\ PortReceived' = Port!Received!Advance(PortReceived, d.sequence)
  /\ PortReassembly' =
       Port!Reassembly!Remove(Port!Reassembly!Advance(PortReassembly, d.sequence), d.sequence)

\* The port's step for the same call: same arguments, same answer.
PortStep(c) ==
  \/ c.of = "send_packet" /\ (Port!SendPacket(c.content) \/ Port!SendTooLarge(c.content))
  \/ c.of = "receive_packet" /\ Port!ReceivePacket(c.datagram, c.answer)
  \/ c.of = "receive_packet" /\ DropsFragment(c.datagram)
  \/ c.of = "clear_acks" /\ Port!ClearAcks
  \/ c.of = "reset" /\ Port!Reset

-----------------------------------------------------------------------------
(* The calls *)

Sends(content) ==
  /\ SendPacket(content) \/ SendTooLarge(content)
  /\ call' = [of |-> "send_packet", content |-> content]

Receives(d, answer) ==
  /\ ReceivePacket(d, answer)
  /\ call' = [of |-> "receive_packet", datagram |-> d, answer |-> answer]

Clears == ClearAcks /\ call' = [of |-> "clear_acks"]

Resets == Reset /\ call' = [of |-> "reset"]

CalledInit == Init /\ call = [of |-> "create"]

CalledNext ==
  \/ \E content \in Packets : Sends(content)
  \/ \E d \in Datagrams, answer \in Answers : Receives(d, answer)
  \/ Clears
  \/ Resets

CalledSpec == CalledInit /\ [][CalledNext]_<<endpoint, call>>

-----------------------------------------------------------------------------
(* What is the same *)

\* The C endpoint implements the port's specification call by call: although it
\* leaves old data in emptied slots and keeps packets elsewhere, after any call
\* its windows, acks, entries and counters are those the port has after the
\* same call, unless a fragment was dropped for want of memory.
ImplementsPort == Port!Init /\ [][PortStep(call')]_<<endpoint, call>>

\* Both transmit the same datagrams for the same packet in the same state ("two
\* implementations ... produce identical traffic", src/wire-compat).
SameTranscript ==
  \A content \in Packets :
    content # <<>> /\ Len(content) <= MaxPacketSize =>
      LET transmitted == Transmitted(endpoint, content)
      IN  {transmitted[n] : n \in DOMAIN transmitted} = Port!Transmitted(content)

-----------------------------------------------------------------------------
(* What a call leaves receivable *)

\* Packet s is too old, for the received window or for a first fragment.
Outdated(e, s) ==
  \/ ~Received!TestInsert(e.received_packets, s)
  \/ ~Reassembly!InsertsWithCleanup(e.fragment_reassembly, s)

\* Packet s can be received: it was not, it is not too old, and if it is under
\* reassembly then there is memory to go on with.
Receivable(e, s) ==
  /\ ~Outdated(e, s)
  /\ ~Received!Exists(e.received_packets, s)
  /\ Reassembly!Exists(e.fragment_reassembly, s) =>
       Live(e.heap, Reassembly!Find(e.fragment_reassembly, s).packet_data)

\* Datagram d is packet s or a fragment of it.
IsOf(d, s) ==
  IF d.type = "fragment" THEN d.sequence = s ELSE d.header # None /\ d.header.sequence = s

Gives(c, s) == c.of = "receive_packet" /\ IsOf(c.datagram, s)

\* A packet that can be received can be until it is accepted, or another one or
\* a reset makes it too old: a fragment dropped because its allocation failed,
\* which "is also supported" (reliable.h:190), or a packet the process callback
\* rejected, may come again and be received, though both windows have moved.
StillReceivable ==
  [][\A s \in SequenceNumber :
       Receivable(endpoint, s) =>
         \/ Receivable(endpoint', s)
         \/ Gives(call', s) /\ call'.answer = "accepted"
         \/ ~Gives(call', s) /\ Outdated(endpoint', s)]_<<endpoint, call>>
=============================================================================
