-------------------------- MODULE ConnectionProofs --------------------------
(***************************************************************************)
(* Theorems about two connected endpoints, for every value of the          *)
(* constants and all settings: as long as the windows of a direction stay  *)
(* within reach of each other, each side judges what it receives by        *)
(* identity, although datagrams carry only 16-bit numbers.                 *)
(*                                                                         *)
(* The inductive invariant ConnInv is that of DirectionProofs for both     *)
(* directions, and the invariant of either endpoint. What a single         *)
(* endpoint does comes from EndpointProofs, instantiated for either side.  *)
(***************************************************************************)
EXTENDS DirectionProofs

ServerSide == INSTANCE EndpointProofs WITH
  sequence <- server_sequence, sent_packets <- server_sent_packets,
  received_packets <- server_received_packets,
  fragment_reassembly <- server_fragment_reassembly, acks <- server_acks,
  counters <- ZeroCounters, Byte <- Unit, Packets <- Seq(Unit), Datagrams <- AllDatagrams

-----------------------------------------------------------------------------
(* The inductive invariant *)

ToServer ==
  OneWay(setting, to_server, client_sequence, client_sent_packets, client_sent, client_reported,
         server_received_packets, server_fragment_reassembly, server_delivered,
         server_sent, client_delivered)

ToClient ==
  OneWay(setting, to_client, server_sequence, server_sent_packets, server_sent, server_reported,
         client_received_packets, client_fragment_reassembly, client_delivered,
         client_sent, server_delivered)

ConnInv ==
  /\ setting \in Settings
  /\ ClientSide!IInv /\ ServerSide!IInv
  /\ ToServer /\ ToClient

-----------------------------------------------------------------------------
(* The endpoint instance Client has no payload bytes, and the endpoint lemmas
   speak of ClientSide, whose payloads are of Units.  Both do the same. *)

\* Its sent buffer.
LEMMA ClientSentLink ==
  /\ Client!Sent!New = ClientSide!Sent!New
  /\ \A b, s : Client!Sent!CanInsert(b, s) <=> ClientSide!Sent!CanInsert(b, s)
  /\ \A b, s : Client!Sent!Insert(b, s, FALSE) = ClientSide!Sent!Insert(b, s, FALSE)
  /\ \A b, s : Client!Sent!Exists(b, s) <=> ClientSide!Sent!Exists(b, s)
  /\ \A b, s : Client!Sent!Find(b, s) = ClientSide!Sent!Find(b, s)
  /\ \A s : Client!Sent!Slot(s) = ClientSide!Sent!Slot(s)
BY DEF Client!Sent!New, ClientSide!Sent!New, Client!Sent!CanInsert, ClientSide!Sent!CanInsert,
   Client!Sent!Oldest, ClientSide!Sent!Oldest, Client!Sent!Exists, ClientSide!Sent!Exists,
   Client!Sent!Find, ClientSide!Sent!Find, Client!Sent!Advances, ClientSide!Sent!Advances,
   Client!Sent!Advance, ClientSide!Sent!Advance, Client!Sent!RemoveEntries,
   ClientSide!Sent!RemoveEntries, Client!Sent!RemovedSlots, ClientSide!Sent!RemovedSlots,
   Client!Sent!Slot, ClientSide!Sent!Slot, Client!Sent!Index, ClientSide!Sent!Index,
   Client!Sent!Fill, ClientSide!Sent!Fill, Client!Sent!Insert, ClientSide!Sent!Insert,
   Client!Sent!SequenceNumber, ClientSide!Sent!SequenceNumber, Client!Sent!HalfModulus,
   ClientSide!Sent!HalfModulus, Client!Sent!WrapAdd, ClientSide!Sent!WrapAdd,
   Client!Sent!WrapSub, ClientSide!Sent!WrapSub, Client!Sent!SequenceGreaterThan,
   ClientSide!Sent!SequenceGreaterThan, Client!Sent!SequenceLessThan,
   ClientSide!Sent!SequenceLessThan

\* Its received buffer.
LEMMA ClientReceivedLink ==
  /\ Client!Received!New = ClientSide!Received!New
  /\ \A b, s : Client!Received!CanInsert(b, s) <=> ClientSide!Received!CanInsert(b, s)
  /\ \A b, s : Client!Received!Insert(b, s, None) = ClientSide!Received!Insert(b, s, None)
  /\ \A b, s : Client!Received!Exists(b, s) <=> ClientSide!Received!Exists(b, s)
  /\ \A b, s : Client!Received!Advance(b, s) = ClientSide!Received!Advance(b, s)
  /\ \A b : Client!Received!AckOf(b) = ClientSide!Received!AckOf(b)
  /\ \A b :
       Client!Received!GenerateAckBits(b, AckBits) = ClientSide!Received!GenerateAckBits(b, AckBits)
BY DEF Client!Received!New, ClientSide!Received!New, Client!Received!CanInsert,
   ClientSide!Received!CanInsert, Client!Received!Oldest, ClientSide!Received!Oldest,
   Client!Received!Exists, ClientSide!Received!Exists, Client!Received!AckOf,
   ClientSide!Received!AckOf, Client!Received!GenerateAckBits,
   ClientSide!Received!GenerateAckBits, Client!Received!Advances, ClientSide!Received!Advances,
   Client!Received!Advance, ClientSide!Received!Advance, Client!Received!RemoveEntries,
   ClientSide!Received!RemoveEntries, Client!Received!RemovedSlots,
   ClientSide!Received!RemovedSlots, Client!Received!Slot, ClientSide!Received!Slot,
   Client!Received!Index, ClientSide!Received!Index, Client!Received!Fill,
   ClientSide!Received!Fill, Client!Received!Insert, ClientSide!Received!Insert,
   Client!Received!SequenceNumber, ClientSide!Received!SequenceNumber,
   Client!Received!HalfModulus, ClientSide!Received!HalfModulus, Client!Received!WrapAdd,
   ClientSide!Received!WrapAdd, Client!Received!WrapSub, ClientSide!Received!WrapSub,
   Client!Received!SequenceGreaterThan, ClientSide!Received!SequenceGreaterThan,
   Client!Received!SequenceLessThan, ClientSide!Received!SequenceLessThan

\* Its reassembly buffer.
LEMMA ClientReassemblyLink ==
  /\ Client!Reassembly!New = ClientSide!Reassembly!New
  /\ \A b, s :
       Client!Reassembly!CanInsertAdvanceFirst(b, s)
       <=> ClientSide!Reassembly!CanInsertAdvanceFirst(b, s)
  /\ \A b, s, r :
       Client!Reassembly!InsertAdvanceFirst(b, s, r)
       = ClientSide!Reassembly!InsertAdvanceFirst(b, s, r)
  /\ \A b, s : Client!Reassembly!Exists(b, s) <=> ClientSide!Reassembly!Exists(b, s)
  /\ \A b, s : Client!Reassembly!Find(b, s) = ClientSide!Reassembly!Find(b, s)
  /\ \A b, s, r : Client!Reassembly!Update(b, s, r) = ClientSide!Reassembly!Update(b, s, r)
  /\ \A b, s : Client!Reassembly!Advance(b, s) = ClientSide!Reassembly!Advance(b, s)
  /\ \A b, s : Client!Reassembly!Remove(b, s) = ClientSide!Reassembly!Remove(b, s)
BY DEF Client!Reassembly!New, ClientSide!Reassembly!New, Client!Reassembly!CanInsert,
   ClientSide!Reassembly!CanInsert, Client!Reassembly!CanInsertAdvanceFirst,
   ClientSide!Reassembly!CanInsertAdvanceFirst, Client!Reassembly!InsertAdvanceFirst,
   ClientSide!Reassembly!InsertAdvanceFirst, Client!Reassembly!Oldest,
   ClientSide!Reassembly!Oldest, Client!Reassembly!Exists, ClientSide!Reassembly!Exists,
   Client!Reassembly!Find, ClientSide!Reassembly!Find, Client!Reassembly!Update,
   ClientSide!Reassembly!Update, Client!Reassembly!Remove, ClientSide!Reassembly!Remove,
   Client!Reassembly!Advances, ClientSide!Reassembly!Advances, Client!Reassembly!Advance,
   ClientSide!Reassembly!Advance, Client!Reassembly!RemoveEntries,
   ClientSide!Reassembly!RemoveEntries, Client!Reassembly!RemovedSlots,
   ClientSide!Reassembly!RemovedSlots, Client!Reassembly!Slot, ClientSide!Reassembly!Slot,
   Client!Reassembly!Index, ClientSide!Reassembly!Index, Client!Reassembly!Fill,
   ClientSide!Reassembly!Fill, Client!Reassembly!Insert, ClientSide!Reassembly!Insert,
   Client!Reassembly!SequenceNumber, ClientSide!Reassembly!SequenceNumber,
   Client!Reassembly!HalfModulus, ClientSide!Reassembly!HalfModulus, Client!Reassembly!WrapAdd,
   ClientSide!Reassembly!WrapAdd, Client!Reassembly!WrapSub, ClientSide!Reassembly!WrapSub,
   Client!Reassembly!SequenceGreaterThan, ClientSide!Reassembly!SequenceGreaterThan,
   Client!Reassembly!SequenceLessThan, ClientSide!Reassembly!SequenceLessThan,
   Client!EmptyReassembly, ClientSide!EmptyReassembly

\* Its counters.
LEMMA ClientCountsLink ==
  /\ \A c, names : Client!Increment(c, names) = ClientSide!Increment(c, names)
  /\ \A c, name, n : Client!Plus(c, name, n) = ClientSide!Plus(c, name, n)
  /\ Client!ZeroCounters = ClientSide!ZeroCounters
BY DEF Client!Increment, ClientSide!Increment, Client!Plus, ClientSide!Plus,
   Client!CounterNames, ClientSide!CounterNames, Client!ZeroCounters, ClientSide!ZeroCounters

\* How it cuts payloads and checks fragments.
LEMMA ClientPiecesLink ==
  /\ \A c : Client!NumFragments(c) = ClientSide!NumFragments(c)
  /\ \A c, id : Client!Piece(c, id) = ClientSide!Piece(c, id)
  /\ \A n : Client!PassesGate(n) <=> ClientSide!PassesGate(n)
  /\ \A d : Client!FragmentBytes(d) = ClientSide!FragmentBytes(d)
  /\ \A d : Client!ValidFragment(d) <=> ClientSide!ValidFragment(d)
BY DEF Client!NumFragments, ClientSide!NumFragments, Client!Piece, ClientSide!Piece,
   Client!Least, ClientSide!Least, Client!PassesGate, ClientSide!PassesGate,
   Client!FragmentBytes, ClientSide!FragmentBytes, Client!ValidFragment,
   ClientSide!ValidFragment

\* Its send_packet.
LEMMA ClientSendsLink ==
  /\ Client!NextHeader = ClientSide!NextHeader
  /\ \A c : Client!Transmitted(c) = ClientSide!Transmitted(c)
  /\ \A c : Client!SendPacket(c) <=> ClientSide!SendPacket(c)
BY ClientSentLink, ClientReceivedLink, ClientCountsLink, ClientPiecesLink
   DEF Client!NextHeader, ClientSide!NextHeader, Client!Transmitted, ClientSide!Transmitted,
     Client!SendPacket, ClientSide!SendPacket, Client!WrapAdd, ClientSide!WrapAdd

\* How it stores a fragment.
LEMMA ClientStoresLink ==
  /\ \A d : Client!NewReassembly(d) = ClientSide!NewReassembly(d)
  /\ \A r, d : Client!StoreFragment(r, d) = ClientSide!StoreFragment(r, d)
BY DEF Client!NewReassembly, ClientSide!NewReassembly, Client!StoreFragment,
   ClientSide!StoreFragment, Client!EmptyReassembly, ClientSide!EmptyReassembly

\* How it finds the entry of a fragment.
LEMMA ClientEntriesLink ==
  /\ \A d : Client!Entry(d) = ClientSide!Entry(d)
  /\ \A d, r : Client!ReassemblyWith(d, r) = ClientSide!ReassemblyWith(d, r)
  /\ \A d : Client!ReceivedOnOpen(d) = ClientSide!ReceivedOnOpen(d)
  /\ \A d : Client!Storable(d) <=> ClientSide!Storable(d)
  /\ \A d : Client!Readable(d) <=> ClientSide!Readable(d)
  /\ \A d : Client!Processed(d) = ClientSide!Processed(d)
BY ClientReceivedLink, ClientReassemblyLink, ClientStoresLink, ClientPiecesLink
   DEF Client!Entry, ClientSide!Entry, Client!ReassemblyWith, ClientSide!ReassemblyWith,
     Client!ReceivedOnOpen, ClientSide!ReceivedOnOpen, Client!Storable, ClientSide!Storable,
     Client!Readable, ClientSide!Readable, Client!Processed, ClientSide!Processed

\* What its ack loop reads.
LEMMA ClientAcksLink ==
  /\ \A h, i : Client!AckSequence(h, i) = ClientSide!AckSequence(h, i)
  /\ \A h : Client!Reportable(h) = ClientSide!Reportable(h)
  /\ Client!Room = ClientSide!Room
BY ClientSentLink
   DEF Client!AckSequence, ClientSide!AckSequence, Client!Reportable, ClientSide!Reportable,
     Client!Room, ClientSide!Room, Client!WrapSub, ClientSide!WrapSub

\* Its ack loop.
LEMMA ClientProcessAcksLink ==
  /\ \A h, names : Client!ProcessAcks(h, names) <=> ClientSide!ProcessAcks(h, names)
BY DEF Client!ProcessAcks, ClientSide!ProcessAcks, Client!AckSequence, ClientSide!AckSequence,
   Client!Reportable, ClientSide!Reportable, Client!Room, ClientSide!Room, Client!WrapSub,
   ClientSide!WrapSub, Client!Plus, ClientSide!Plus, Client!Increment, ClientSide!Increment,
   Client!CounterNames, ClientSide!CounterNames, Client!Least, ClientSide!Least,
   Client!Sent!Slot, ClientSide!Sent!Slot, Client!Sent!Exists, ClientSide!Sent!Exists,
   Client!Sent!Find, ClientSide!Sent!Find

\* The regular branch of its receive_packet.
LEMMA ClientHandlesLink ==
  /\ \A h, c, process, received, reassembly, rebuilt :
       Client!HandleRegular(h, c, process, received, reassembly, rebuilt)
       <=> ClientSide!HandleRegular(h, c, process, received, reassembly, rebuilt)
BY ClientReceivedLink, ClientReassemblyLink, ClientProcessAcksLink, ClientCountsLink,
   ClientPiecesLink
   DEF Client!HandleRegular, ClientSide!HandleRegular

\* The branches of its receive_packet that store no fragment.
LEMMA ClientBranchesLink ==
  /\ \A d, process : Client!ReceiveRegular(d, process) <=> ClientSide!ReceiveRegular(d, process)
  /\ \A d, process :
       Client!ReceiveUnreadable(d, process) <=> ClientSide!ReceiveUnreadable(d, process)
  /\ \A d, process :
       Client!ReceiveFragmentTooLarge(d, process) <=> ClientSide!ReceiveFragmentTooLarge(d, process)
BY ClientHandlesLink, ClientCountsLink, ClientPiecesLink
   DEF Client!ReceiveRegular, ClientSide!ReceiveRegular, Client!ReceiveUnreadable,
     ClientSide!ReceiveUnreadable, Client!ReceiveFragmentTooLarge,
     ClientSide!ReceiveFragmentTooLarge

\* Its refusal of fragments.
LEMMA ClientInvalidLink ==
  /\ \A d, process :
       Client!ReceiveInvalidFragment(d, process) <=> ClientSide!ReceiveInvalidFragment(d, process)
BY ClientReceivedLink, ClientEntriesLink, ClientCountsLink, ClientPiecesLink
   DEF Client!ReceiveInvalidFragment, ClientSide!ReceiveInvalidFragment

\* Its dropping of fragments that cannot be stored.
LEMMA ClientIgnoreLink ==
  /\ \A d, process : Client!IgnoreFragment(d, process) <=> ClientSide!IgnoreFragment(d, process)
BY ClientReceivedLink, ClientEntriesLink, ClientCountsLink, ClientPiecesLink
   DEF Client!IgnoreFragment, ClientSide!IgnoreFragment

\* Its fragment branch.
LEMMA ClientFragmentLink ==
  /\ \A d, process : Client!ReceiveFragment(d, process) <=> ClientSide!ReceiveFragment(d, process)
<1> SUFFICES ASSUME NEW d, NEW process
             PROVE  Client!ReceiveFragment(d, process) <=> ClientSide!ReceiveFragment(d, process)
  OBVIOUS
<1> DEFINE stored == ClientSide!StoreFragment(ClientSide!Entry(d), d)
<1>1. /\ Client!Entry(d) = ClientSide!Entry(d)
      /\ Client!StoreFragment(Client!Entry(d), d) = stored
      /\ ClientSide!StoreFragment(ClientSide!Entry(d), d) = stored
  BY ClientEntriesLink, ClientStoresLink
<1>2. /\ Client!Readable(d) <=> ClientSide!Readable(d)
      /\ Client!Storable(d) <=> ClientSide!Storable(d)
      /\ Client!ReassemblyWith(d, stored) = ClientSide!ReassemblyWith(d, stored)
      /\ Client!ReceivedOnOpen(d) = ClientSide!ReceivedOnOpen(d)
  BY ClientEntriesLink
<1>3. \A h, c, received, reassembly :
        Client!HandleRegular(h, c, process, received, reassembly, TRUE)
        <=> ClientSide!HandleRegular(h, c, process, received, reassembly, TRUE)
  BY ClientHandlesLink
<1>4. Client!Increment(ZeroCounters, {"num_fragments_received"})
        = ClientSide!Increment(ZeroCounters, {"num_fragments_received"})
  BY ClientCountsLink
<1> HIDE DEF stored
<1> QED BY <1>1, <1>2, <1>3, <1>4 DEF Client!ReceiveFragment, ClientSide!ReceiveFragment

\* Its receive_packet.
LEMMA ClientReceivesLink ==
  /\ \A d, process : Client!ReceivePacket(d, process) <=> ClientSide!ReceivePacket(d, process)
BY ClientBranchesLink, ClientInvalidLink, ClientIgnoreLink, ClientFragmentLink
   DEF Client!ReceivePacket, ClientSide!ReceivePacket

\* Its clear_acks.
LEMMA ClientClearsLink ==
  /\ Client!ClearAcks <=> ClientSide!ClearAcks
BY DEF Client!ClearAcks, ClientSide!ClearAcks

\* Its initial state.
LEMMA ClientInitLink ==
  /\ Client!Init <=> ClientSide!Init
BY ClientSentLink, ClientReceivedLink, ClientReassemblyLink
   DEF Client!Init, ClientSide!Init, Client!ZeroCounters, ClientSide!ZeroCounters,
     Client!CounterNames, ClientSide!CounterNames

-----------------------------------------------------------------------------
(* The endpoint instance Server has no payload bytes, and the endpoint lemmas
   speak of ServerSide, whose payloads are of Units.  Both do the same. *)

\* Its sent buffer.
LEMMA ServerSentLink ==
  /\ Server!Sent!New = ServerSide!Sent!New
  /\ \A b, s : Server!Sent!CanInsert(b, s) <=> ServerSide!Sent!CanInsert(b, s)
  /\ \A b, s : Server!Sent!Insert(b, s, FALSE) = ServerSide!Sent!Insert(b, s, FALSE)
  /\ \A b, s : Server!Sent!Exists(b, s) <=> ServerSide!Sent!Exists(b, s)
  /\ \A b, s : Server!Sent!Find(b, s) = ServerSide!Sent!Find(b, s)
  /\ \A s : Server!Sent!Slot(s) = ServerSide!Sent!Slot(s)
BY DEF Server!Sent!New, ServerSide!Sent!New, Server!Sent!CanInsert, ServerSide!Sent!CanInsert,
   Server!Sent!Oldest, ServerSide!Sent!Oldest, Server!Sent!Exists, ServerSide!Sent!Exists,
   Server!Sent!Find, ServerSide!Sent!Find, Server!Sent!Advances, ServerSide!Sent!Advances,
   Server!Sent!Advance, ServerSide!Sent!Advance, Server!Sent!RemoveEntries,
   ServerSide!Sent!RemoveEntries, Server!Sent!RemovedSlots, ServerSide!Sent!RemovedSlots,
   Server!Sent!Slot, ServerSide!Sent!Slot, Server!Sent!Index, ServerSide!Sent!Index,
   Server!Sent!Fill, ServerSide!Sent!Fill, Server!Sent!Insert, ServerSide!Sent!Insert,
   Server!Sent!SequenceNumber, ServerSide!Sent!SequenceNumber, Server!Sent!HalfModulus,
   ServerSide!Sent!HalfModulus, Server!Sent!WrapAdd, ServerSide!Sent!WrapAdd,
   Server!Sent!WrapSub, ServerSide!Sent!WrapSub, Server!Sent!SequenceGreaterThan,
   ServerSide!Sent!SequenceGreaterThan, Server!Sent!SequenceLessThan,
   ServerSide!Sent!SequenceLessThan

\* Its received buffer.
LEMMA ServerReceivedLink ==
  /\ Server!Received!New = ServerSide!Received!New
  /\ \A b, s : Server!Received!CanInsert(b, s) <=> ServerSide!Received!CanInsert(b, s)
  /\ \A b, s : Server!Received!Insert(b, s, None) = ServerSide!Received!Insert(b, s, None)
  /\ \A b, s : Server!Received!Exists(b, s) <=> ServerSide!Received!Exists(b, s)
  /\ \A b, s : Server!Received!Advance(b, s) = ServerSide!Received!Advance(b, s)
  /\ \A b : Server!Received!AckOf(b) = ServerSide!Received!AckOf(b)
  /\ \A b :
       Server!Received!GenerateAckBits(b, AckBits) = ServerSide!Received!GenerateAckBits(b, AckBits)
BY DEF Server!Received!New, ServerSide!Received!New, Server!Received!CanInsert,
   ServerSide!Received!CanInsert, Server!Received!Oldest, ServerSide!Received!Oldest,
   Server!Received!Exists, ServerSide!Received!Exists, Server!Received!AckOf,
   ServerSide!Received!AckOf, Server!Received!GenerateAckBits,
   ServerSide!Received!GenerateAckBits, Server!Received!Advances, ServerSide!Received!Advances,
   Server!Received!Advance, ServerSide!Received!Advance, Server!Received!RemoveEntries,
   ServerSide!Received!RemoveEntries, Server!Received!RemovedSlots,
   ServerSide!Received!RemovedSlots, Server!Received!Slot, ServerSide!Received!Slot,
   Server!Received!Index, ServerSide!Received!Index, Server!Received!Fill,
   ServerSide!Received!Fill, Server!Received!Insert, ServerSide!Received!Insert,
   Server!Received!SequenceNumber, ServerSide!Received!SequenceNumber,
   Server!Received!HalfModulus, ServerSide!Received!HalfModulus, Server!Received!WrapAdd,
   ServerSide!Received!WrapAdd, Server!Received!WrapSub, ServerSide!Received!WrapSub,
   Server!Received!SequenceGreaterThan, ServerSide!Received!SequenceGreaterThan,
   Server!Received!SequenceLessThan, ServerSide!Received!SequenceLessThan

\* Its reassembly buffer.
LEMMA ServerReassemblyLink ==
  /\ Server!Reassembly!New = ServerSide!Reassembly!New
  /\ \A b, s :
       Server!Reassembly!CanInsertAdvanceFirst(b, s)
       <=> ServerSide!Reassembly!CanInsertAdvanceFirst(b, s)
  /\ \A b, s, r :
       Server!Reassembly!InsertAdvanceFirst(b, s, r)
       = ServerSide!Reassembly!InsertAdvanceFirst(b, s, r)
  /\ \A b, s : Server!Reassembly!Exists(b, s) <=> ServerSide!Reassembly!Exists(b, s)
  /\ \A b, s : Server!Reassembly!Find(b, s) = ServerSide!Reassembly!Find(b, s)
  /\ \A b, s, r : Server!Reassembly!Update(b, s, r) = ServerSide!Reassembly!Update(b, s, r)
  /\ \A b, s : Server!Reassembly!Advance(b, s) = ServerSide!Reassembly!Advance(b, s)
  /\ \A b, s : Server!Reassembly!Remove(b, s) = ServerSide!Reassembly!Remove(b, s)
BY DEF Server!Reassembly!New, ServerSide!Reassembly!New, Server!Reassembly!CanInsert,
   ServerSide!Reassembly!CanInsert, Server!Reassembly!CanInsertAdvanceFirst,
   ServerSide!Reassembly!CanInsertAdvanceFirst, Server!Reassembly!InsertAdvanceFirst,
   ServerSide!Reassembly!InsertAdvanceFirst, Server!Reassembly!Oldest,
   ServerSide!Reassembly!Oldest, Server!Reassembly!Exists, ServerSide!Reassembly!Exists,
   Server!Reassembly!Find, ServerSide!Reassembly!Find, Server!Reassembly!Update,
   ServerSide!Reassembly!Update, Server!Reassembly!Remove, ServerSide!Reassembly!Remove,
   Server!Reassembly!Advances, ServerSide!Reassembly!Advances, Server!Reassembly!Advance,
   ServerSide!Reassembly!Advance, Server!Reassembly!RemoveEntries,
   ServerSide!Reassembly!RemoveEntries, Server!Reassembly!RemovedSlots,
   ServerSide!Reassembly!RemovedSlots, Server!Reassembly!Slot, ServerSide!Reassembly!Slot,
   Server!Reassembly!Index, ServerSide!Reassembly!Index, Server!Reassembly!Fill,
   ServerSide!Reassembly!Fill, Server!Reassembly!Insert, ServerSide!Reassembly!Insert,
   Server!Reassembly!SequenceNumber, ServerSide!Reassembly!SequenceNumber,
   Server!Reassembly!HalfModulus, ServerSide!Reassembly!HalfModulus, Server!Reassembly!WrapAdd,
   ServerSide!Reassembly!WrapAdd, Server!Reassembly!WrapSub, ServerSide!Reassembly!WrapSub,
   Server!Reassembly!SequenceGreaterThan, ServerSide!Reassembly!SequenceGreaterThan,
   Server!Reassembly!SequenceLessThan, ServerSide!Reassembly!SequenceLessThan,
   Server!EmptyReassembly, ServerSide!EmptyReassembly

\* Its counters.
LEMMA ServerCountsLink ==
  /\ \A c, names : Server!Increment(c, names) = ServerSide!Increment(c, names)
  /\ \A c, name, n : Server!Plus(c, name, n) = ServerSide!Plus(c, name, n)
  /\ Server!ZeroCounters = ServerSide!ZeroCounters
BY DEF Server!Increment, ServerSide!Increment, Server!Plus, ServerSide!Plus,
   Server!CounterNames, ServerSide!CounterNames, Server!ZeroCounters, ServerSide!ZeroCounters

\* How it cuts payloads and checks fragments.
LEMMA ServerPiecesLink ==
  /\ \A c : Server!NumFragments(c) = ServerSide!NumFragments(c)
  /\ \A c, id : Server!Piece(c, id) = ServerSide!Piece(c, id)
  /\ \A n : Server!PassesGate(n) <=> ServerSide!PassesGate(n)
  /\ \A d : Server!FragmentBytes(d) = ServerSide!FragmentBytes(d)
  /\ \A d : Server!ValidFragment(d) <=> ServerSide!ValidFragment(d)
BY DEF Server!NumFragments, ServerSide!NumFragments, Server!Piece, ServerSide!Piece,
   Server!Least, ServerSide!Least, Server!PassesGate, ServerSide!PassesGate,
   Server!FragmentBytes, ServerSide!FragmentBytes, Server!ValidFragment,
   ServerSide!ValidFragment

\* Its send_packet.
LEMMA ServerSendsLink ==
  /\ Server!NextHeader = ServerSide!NextHeader
  /\ \A c : Server!Transmitted(c) = ServerSide!Transmitted(c)
  /\ \A c : Server!SendPacket(c) <=> ServerSide!SendPacket(c)
BY ServerSentLink, ServerReceivedLink, ServerCountsLink, ServerPiecesLink
   DEF Server!NextHeader, ServerSide!NextHeader, Server!Transmitted, ServerSide!Transmitted,
     Server!SendPacket, ServerSide!SendPacket, Server!WrapAdd, ServerSide!WrapAdd

\* How it stores a fragment.
LEMMA ServerStoresLink ==
  /\ \A d : Server!NewReassembly(d) = ServerSide!NewReassembly(d)
  /\ \A r, d : Server!StoreFragment(r, d) = ServerSide!StoreFragment(r, d)
BY DEF Server!NewReassembly, ServerSide!NewReassembly, Server!StoreFragment,
   ServerSide!StoreFragment, Server!EmptyReassembly, ServerSide!EmptyReassembly

\* How it finds the entry of a fragment.
LEMMA ServerEntriesLink ==
  /\ \A d : Server!Entry(d) = ServerSide!Entry(d)
  /\ \A d, r : Server!ReassemblyWith(d, r) = ServerSide!ReassemblyWith(d, r)
  /\ \A d : Server!ReceivedOnOpen(d) = ServerSide!ReceivedOnOpen(d)
  /\ \A d : Server!Storable(d) <=> ServerSide!Storable(d)
  /\ \A d : Server!Readable(d) <=> ServerSide!Readable(d)
  /\ \A d : Server!Processed(d) = ServerSide!Processed(d)
BY ServerReceivedLink, ServerReassemblyLink, ServerStoresLink, ServerPiecesLink
   DEF Server!Entry, ServerSide!Entry, Server!ReassemblyWith, ServerSide!ReassemblyWith,
     Server!ReceivedOnOpen, ServerSide!ReceivedOnOpen, Server!Storable, ServerSide!Storable,
     Server!Readable, ServerSide!Readable, Server!Processed, ServerSide!Processed

\* What its ack loop reads.
LEMMA ServerAcksLink ==
  /\ \A h, i : Server!AckSequence(h, i) = ServerSide!AckSequence(h, i)
  /\ \A h : Server!Reportable(h) = ServerSide!Reportable(h)
  /\ Server!Room = ServerSide!Room
BY ServerSentLink
   DEF Server!AckSequence, ServerSide!AckSequence, Server!Reportable, ServerSide!Reportable,
     Server!Room, ServerSide!Room, Server!WrapSub, ServerSide!WrapSub

\* Its ack loop.
LEMMA ServerProcessAcksLink ==
  /\ \A h, names : Server!ProcessAcks(h, names) <=> ServerSide!ProcessAcks(h, names)
BY DEF Server!ProcessAcks, ServerSide!ProcessAcks, Server!AckSequence, ServerSide!AckSequence,
   Server!Reportable, ServerSide!Reportable, Server!Room, ServerSide!Room, Server!WrapSub,
   ServerSide!WrapSub, Server!Plus, ServerSide!Plus, Server!Increment, ServerSide!Increment,
   Server!CounterNames, ServerSide!CounterNames, Server!Least, ServerSide!Least,
   Server!Sent!Slot, ServerSide!Sent!Slot, Server!Sent!Exists, ServerSide!Sent!Exists,
   Server!Sent!Find, ServerSide!Sent!Find

\* The regular branch of its receive_packet.
LEMMA ServerHandlesLink ==
  /\ \A h, c, process, received, reassembly, rebuilt :
       Server!HandleRegular(h, c, process, received, reassembly, rebuilt)
       <=> ServerSide!HandleRegular(h, c, process, received, reassembly, rebuilt)
BY ServerReceivedLink, ServerReassemblyLink, ServerProcessAcksLink, ServerCountsLink,
   ServerPiecesLink
   DEF Server!HandleRegular, ServerSide!HandleRegular

\* The branches of its receive_packet that store no fragment.
LEMMA ServerBranchesLink ==
  /\ \A d, process : Server!ReceiveRegular(d, process) <=> ServerSide!ReceiveRegular(d, process)
  /\ \A d, process :
       Server!ReceiveUnreadable(d, process) <=> ServerSide!ReceiveUnreadable(d, process)
  /\ \A d, process :
       Server!ReceiveFragmentTooLarge(d, process) <=> ServerSide!ReceiveFragmentTooLarge(d, process)
BY ServerHandlesLink, ServerCountsLink, ServerPiecesLink
   DEF Server!ReceiveRegular, ServerSide!ReceiveRegular, Server!ReceiveUnreadable,
     ServerSide!ReceiveUnreadable, Server!ReceiveFragmentTooLarge,
     ServerSide!ReceiveFragmentTooLarge

\* Its refusal of fragments.
LEMMA ServerInvalidLink ==
  /\ \A d, process :
       Server!ReceiveInvalidFragment(d, process) <=> ServerSide!ReceiveInvalidFragment(d, process)
BY ServerReceivedLink, ServerEntriesLink, ServerCountsLink, ServerPiecesLink
   DEF Server!ReceiveInvalidFragment, ServerSide!ReceiveInvalidFragment

\* Its dropping of fragments that cannot be stored.
LEMMA ServerIgnoreLink ==
  /\ \A d, process : Server!IgnoreFragment(d, process) <=> ServerSide!IgnoreFragment(d, process)
BY ServerReceivedLink, ServerEntriesLink, ServerCountsLink, ServerPiecesLink
   DEF Server!IgnoreFragment, ServerSide!IgnoreFragment

\* Its fragment branch.
LEMMA ServerFragmentLink ==
  /\ \A d, process : Server!ReceiveFragment(d, process) <=> ServerSide!ReceiveFragment(d, process)
<1> SUFFICES ASSUME NEW d, NEW process
             PROVE  Server!ReceiveFragment(d, process) <=> ServerSide!ReceiveFragment(d, process)
  OBVIOUS
<1> DEFINE stored == ServerSide!StoreFragment(ServerSide!Entry(d), d)
<1>1. /\ Server!Entry(d) = ServerSide!Entry(d)
      /\ Server!StoreFragment(Server!Entry(d), d) = stored
      /\ ServerSide!StoreFragment(ServerSide!Entry(d), d) = stored
  BY ServerEntriesLink, ServerStoresLink
<1>2. /\ Server!Readable(d) <=> ServerSide!Readable(d)
      /\ Server!Storable(d) <=> ServerSide!Storable(d)
      /\ Server!ReassemblyWith(d, stored) = ServerSide!ReassemblyWith(d, stored)
      /\ Server!ReceivedOnOpen(d) = ServerSide!ReceivedOnOpen(d)
  BY ServerEntriesLink
<1>3. \A h, c, received, reassembly :
        Server!HandleRegular(h, c, process, received, reassembly, TRUE)
        <=> ServerSide!HandleRegular(h, c, process, received, reassembly, TRUE)
  BY ServerHandlesLink
<1>4. Server!Increment(ZeroCounters, {"num_fragments_received"})
        = ServerSide!Increment(ZeroCounters, {"num_fragments_received"})
  BY ServerCountsLink
<1> HIDE DEF stored
<1> QED BY <1>1, <1>2, <1>3, <1>4 DEF Server!ReceiveFragment, ServerSide!ReceiveFragment

\* Its receive_packet.
LEMMA ServerReceivesLink ==
  /\ \A d, process : Server!ReceivePacket(d, process) <=> ServerSide!ReceivePacket(d, process)
BY ServerBranchesLink, ServerInvalidLink, ServerIgnoreLink, ServerFragmentLink
   DEF Server!ReceivePacket, ServerSide!ReceivePacket

\* Its clear_acks.
LEMMA ServerClearsLink ==
  /\ Server!ClearAcks <=> ServerSide!ClearAcks
BY DEF Server!ClearAcks, ServerSide!ClearAcks

\* Its initial state.
LEMMA ServerInitLink ==
  /\ Server!Init <=> ServerSide!Init
BY ServerSentLink, ServerReceivedLink, ServerReassemblyLink
   DEF Server!Init, ServerSide!Init, Server!ZeroCounters, ServerSide!ZeroCounters,
     Server!CounterNames, ServerSide!CounterNames

-----------------------------------------------------------------------------
(* The invariant in the next state *)

\* In the next state each direction is OneWay of the next values.
LEMMA ToServerNext ==
  OneWay(setting', to_server', client_sequence', client_sent_packets', client_sent',
         client_reported', server_received_packets', server_fragment_reassembly',
         server_delivered', server_sent', client_delivered')
  => ToServer'
BY DEF ToServer, OneWay, InFlight, Window, Reassembling, Sending, GoodHeaders, HeadersOf,
   Accepted, Tracked, NumberOf, ContentOf, PacketOf, Headers, SequenceNumber, Mangled,
   AllDatagrams, Unit,
   ClientSide!KeepsIn, ClientSide!PartOf, ClientSide!GoodEntry, ClientSide!EntryOf,
   ClientSide!FlagOf, ClientSide!Assembles, ClientSide!NumFragments, ClientSide!Piece,
   ClientSide!Least, ClientSide!NumberOf

\* As ToServerNext, in the other direction.
LEMMA ToClientNext ==
  OneWay(setting', to_client', server_sequence', server_sent_packets', server_sent',
         server_reported', client_received_packets', client_fragment_reassembly',
         client_delivered', client_sent', server_delivered')
  => ToClient'
BY DEF ToClient, OneWay, InFlight, Window, Reassembling, Sending, GoodHeaders, HeadersOf,
   Accepted, Tracked, NumberOf, ContentOf, PacketOf, Headers, SequenceNumber, Mangled,
   AllDatagrams, Unit,
   ClientSide!KeepsIn, ClientSide!PartOf, ClientSide!GoodEntry, ClientSide!EntryOf,
   ClientSide!FlagOf, ClientSide!Assembles, ClientSide!NumFragments, ClientSide!Piece,
   ClientSide!Least, ClientSide!NumberOf

-----------------------------------------------------------------------------
(* What the endpoint lemmas ask for *)

\* The same of the server.
LEMMA ServerGiven ==
  /\ Blank \in Unit /\ Seq(Unit) \subseteq Seq(Unit) /\ AllDatagrams = ServerSide!Datagram
  /\ Headers = ServerSide!Header /\ ServerSide!SequenceNumber = SequenceNumber
  /\ SizesDivide <=> ServerSide!SizesDivide
  /\ ServerSide!HalfModulus = HalfModulus
BY DEF Unit, AllDatagrams, ServerSide!Datagram, Headers, ServerSide!Header,
   ServerSide!SequenceNumber, SequenceNumber, SizesDivide, ServerSide!SizesDivide,
   HalfModulus, ServerSide!HalfModulus

\* What is said of values means the same on both sides.
LEMMA Sides ==
  /\ \A id : ClientSide!NumberOf(id) = NumberOf(id)
  /\ \A id : ServerSide!NumberOf(id) = NumberOf(id)
  /\ \A b, n, ids, size :
       ServerSide!KeepsIn(b, n, ids, size) <=> ClientSide!KeepsIn(b, n, ids, size)
  /\ \A ids, m, size : ServerSide!Kept(ids, m, size) = ClientSide!Kept(ids, m, size)
  /\ \A n, id : ServerSide!Reached(n, id) = ClientSide!Reached(n, id)
  /\ \A n, id : ServerSide!Moves(n, id) = ClientSide!Moves(n, id)
  /\ \A id, n : ServerSide!InReach(id, n) <=> ClientSide!InReach(id, n)
  /\ \A c, q : ServerSide!EntryOf(c, q) = ClientSide!EntryOf(c, q)
  /\ \A c, q : ServerSide!FlagOf(c, q) = ClientSide!FlagOf(c, q)
BY DEF ClientSide!NumberOf, ServerSide!NumberOf, NumberOf, ClientSide!KeepsIn,
   ServerSide!KeepsIn, ClientSide!Kept, ServerSide!Kept, ClientSide!Reached,
   ServerSide!Reached, ClientSide!Moves, ServerSide!Moves, ClientSide!InReach,
   ServerSide!InReach, ClientSide!HalfModulus, ServerSide!HalfModulus,
   ClientSide!EntryOf, ServerSide!EntryOf, ClientSide!FlagOf, ServerSide!FlagOf

\* So does what is said of fragments and of the entries they assemble.
LEMMA SidesParts ==
  /\ \A c : ServerSide!NumFragments(c) = ClientSide!NumFragments(c)
  /\ \A d, id, content, h :
       ServerSide!PartOf(d, id, content, h) <=> ClientSide!PartOf(d, id, content, h)
  /\ \A r, content, G :
       ServerSide!GoodEntry(r, content, G) <=> ClientSide!GoodEntry(r, content, G)
  /\ \A e, c, ids : ServerSide!SameEntries(e, c, ids) <=> ClientSide!SameEntries(e, c, ids)
  /\ \A e, c, ids : ServerSide!SameFlags(e, c, ids) <=> ClientSide!SameFlags(e, c, ids)
BY Sides DEF ServerSide!NumFragments, ClientSide!NumFragments, ServerSide!PartOf,
   ClientSide!PartOf, ServerSide!Piece, ClientSide!Piece, ServerSide!Least, ClientSide!Least,
   ServerSide!GoodEntry, ClientSide!GoodEntry, ServerSide!Assembles, ClientSide!Assembles,
   ServerSide!SameEntries, ClientSide!SameEntries, ServerSide!SameFlags, ClientSide!SameFlags

\* So does what one receive_packet does to the two windows.
LEMMA SidesWindows ==
  /\ \A b, id, n, ids, m, process :
       ServerSide!HeardOf(b, id, n, ids, m, process)
       <=> ClientSide!HeardOf(b, id, n, ids, m, process)
  /\ \A b, e, c, m, n, ids, under, id, content, G, process :
       ServerSide!WindowsAt(b, e, c, m, n, ids, under, id, content, G, process)
       <=> ClientSide!WindowsAt(b, e, c, m, n, ids, under, id, content, G, process)
<1>1. \A b, id, n, ids, m, process :
        ServerSide!HeardOf(b, id, n, ids, m, process)
        <=> ClientSide!HeardOf(b, id, n, ids, m, process)
  BY Sides DEF ServerSide!HeardOf, ClientSide!HeardOf
<1>2. \A b, e, c, m, n, ids, under, id, content, G, process :
        ServerSide!WindowsAt(b, e, c, m, n, ids, under, id, content, G, process)
        <=> ClientSide!WindowsAt(b, e, c, m, n, ids, under, id, content, G, process)
  BY <1>1 DEF ServerSide!WindowsAt, ClientSide!WindowsAt, ServerSide!KeepsIn,
     ClientSide!KeepsIn, ServerSide!Kept, ClientSide!Kept, ServerSide!NumberOf,
     ClientSide!NumberOf, ServerSide!SameEntries, ClientSide!SameEntries, ServerSide!EntryOf,
     ClientSide!EntryOf, ServerSide!GoodEntry, ClientSide!GoodEntry, ServerSide!Assembles,
     ClientSide!Assembles, ServerSide!NumFragments, ClientSide!NumFragments
<1> QED BY <1>1, <1>2

\* So does what its ack loop appends.
LEMMA SidesAcks ==
  /\ \A before, after, fresh :
       ServerSide!Appends(before, after, fresh) <=> ClientSide!Appends(before, after, fresh)
  /\ \A c, e, before, after, ss, ids, named, fresh :
       ServerSide!AcksOf(c, e, before, after, ss, ids, named, fresh)
       <=> ClientSide!AcksOf(c, e, before, after, ss, ids, named, fresh)
<1>1. \A before, after, fresh :
        ServerSide!Appends(before, after, fresh) <=> ClientSide!Appends(before, after, fresh)
  BY DEF ServerSide!Appends, ClientSide!Appends, ServerSide!NumberOf, ClientSide!NumberOf
<1>2. ASSUME NEW c, NEW e, NEW before, NEW after, NEW ss, NEW ids, NEW named, NEW fresh
      PROVE  ServerSide!AcksOf(c, e, before, after, ss, ids, named, fresh)
             <=> ClientSide!AcksOf(c, e, before, after, ss, ids, named, fresh)
  <2>1. /\ ServerSide!Appends(before, after, fresh) <=> ClientSide!Appends(before, after, fresh)
        /\ ServerSide!KeepsIn(e, ss, ids, SentPacketsBufferSize)
            <=> ClientSide!KeepsIn(e, ss, ids, SentPacketsBufferSize)
        /\ \A a : ServerSide!FlagOf(c, a) = ClientSide!FlagOf(c, a)
        /\ \A a : ServerSide!FlagOf(e, a) = ClientSide!FlagOf(e, a)
    BY <1>1, Sides
  <2> QED BY <2>1 DEF ServerSide!AcksOf, ClientSide!AcksOf
<1> QED BY <1>1, <1>2

-----------------------------------------------------------------------------
(* Either side receives a datagram *)

\* What the server makes of a datagram of packet id.
LEMMA ServerHeard ==
  ASSUME SizesDivide, WithinReach, ConnInv, NEW m \in to_server,
         NEW process \in {"unused", "accepted", "rejected"},
         Server!ReceivePacket(m.datagram, process), NEW n, NEW under,
         Standing(setting, n, under, to_server, server_received_packets,
                  server_fragment_reassembly, client_sent, server_delivered, server_sent,
                  client_delivered)
  PROVE  /\ ServerSide!IInv'
         /\ PacketOf(m) \in 0 .. client_sent - 1
         /\ SequenceOf(m.datagram) = NumberOf(PacketOf(m))
         /\ ServerSide!HeardPacket(n, Accepted(server_delivered, n), under, PacketOf(m),
              ContentOf(setting, PacketOf(m)),
              HeadersOf(setting, PacketOf(m), to_server, server_sent, client_delivered),
              m.datagram, process)
<1> DEFINE id == PacketOf(m)
           content == ContentOf(setting, id)
           d == m.datagram
           G == HeadersOf(setting, id, to_server, server_sent, client_delivered)
           ids == Accepted(server_delivered, n)
<1>1. setting \in Settings /\ ServerSide!IInv /\ ToServer
  BY DEF ConnInv
<1>2. /\ InFlight(setting, to_server, client_sent, server_sent, client_delivered)
      /\ client_sent \in Nat /\ 0 .. client_sent - 1 \subseteq DOMAIN setting.lengths
  BY <1>1 DEF ToServer, OneWay, Sending
<1>3. /\ Window(setting, n, server_received_packets, server_delivered, client_sent)
      /\ ServerSide!KeepsIn(server_fragment_reassembly, n, under, FragmentReassemblyBufferSize)
      /\ id \in under => ServerSide!GoodEntry(ServerSide!EntryOf(server_fragment_reassembly, id),
                                              content, G)
  BY Sides, SidesParts DEF Standing
<1>4. /\ n \in 0 .. client_sent /\ n >= client_sent - setting.max_outage
      /\ ServerSide!KeepsIn(server_received_packets, n, ids, ReceivedPacketsBufferSize)
  BY <1>3, Sides DEF Window
<1>5. /\ id \in 0 .. client_sent - 1 /\ d \in AllDatagrams /\ ClientSide!InReach(id, n)
      /\ \E h \in G : ClientSide!PartOf(d, id, content, h)
  BY <1>1, <1>2, <1>4, Arrival
<1>6. PICK h \in G : ServerSide!PartOf(d, id, content, h)
  BY <1>5, SidesParts
<1>7. content \in Seq(Unit) /\ content # <<>> /\ id \in Int /\ n \in Int
      /\ \A k \in 1 .. Len(content) : content[k][1] = id
  BY <1>1, <1>2, <1>4, <1>5, ContentData
<1>8. /\ \A g \in G : g.sequence = ServerSide!NumberOf(id)
      /\ h \in ServerSide!Header
  BY Sides, ServerGiven DEF HeadersOf
<1>9. ServerSide!ReceivePacket(d, process) /\ ServerSide!InReach(id, n) /\ ServerSide!SizesDivide
  BY <1>5, ServerReceivesLink, Sides, ServerGiven
<1>10. /\ None \notin ServerSide!SequenceNumber /\ None \notin ServerSide!Header
       /\ \A g \in ServerSide!Header : HeaderBytes(g) \in 0 .. MaxPacketHeaderBytes
       /\ AllDatagrams \subseteq ServerSide!Datagram
  BY ServerGiven, DataAssumption
<1> HIDE DEF id, content, d, G, ids
<1> USE ServerGiven, ConfigAssumption, SequenceModulusAssumption, CounterModulusAssumption
<1>11. ServerSide!HeardPacket(n, ids, under, id, content, G, d, process)
  <2>1. ServerSide!IInv /\ d \in AllDatagrams /\ h \in G
    BY <1>1, <1>5, <1>6
  <2> QED BY <2>1, <1>3, <1>4, <1>6, <1>7, <1>8, <1>9, <1>10, ServerSide!ReceiveByIdentity
<1>12. ServerSide!IInv'
  BY <1>1, <1>5, <1>9, <1>10, ServerSide!ReceivePacketInv
<1>13. SequenceOf(d) = NumberOf(id)
  <2>1. (IF d.type = "regular" THEN d.header.sequence ELSE d.sequence) = ServerSide!NumberOf(id)
    BY <1>6, <1>7, <1>8, <1>10, ServerSide!PartData
  <2> QED BY <2>1, Sides DEF SequenceOf
<1> QED BY <1>5, <1>11, <1>12, <1>13 DEF id, content, d, G, ids


\* What the client makes of a datagram of packet id.
LEMMA ClientHeard ==
  ASSUME SizesDivide, WithinReach, ConnInv, NEW m \in to_client,
         NEW process \in {"unused", "accepted", "rejected"},
         Client!ReceivePacket(m.datagram, process), NEW n, NEW under,
         Standing(setting, n, under, to_client, client_received_packets,
                  client_fragment_reassembly, server_sent, client_delivered, client_sent,
                  server_delivered)
  PROVE  /\ ClientSide!IInv'
         /\ PacketOf(m) \in 0 .. server_sent - 1
         /\ SequenceOf(m.datagram) = NumberOf(PacketOf(m))
         /\ ClientSide!HeardPacket(n, Accepted(client_delivered, n), under, PacketOf(m),
              ContentOf(setting, PacketOf(m)),
              HeadersOf(setting, PacketOf(m), to_client, client_sent, server_delivered),
              m.datagram, process)
<1> DEFINE id == PacketOf(m)
           content == ContentOf(setting, id)
           d == m.datagram
           G == HeadersOf(setting, id, to_client, client_sent, server_delivered)
           ids == Accepted(client_delivered, n)
<1>1. setting \in Settings /\ ClientSide!IInv /\ ToClient
  BY DEF ConnInv
<1>2. /\ InFlight(setting, to_client, server_sent, client_sent, server_delivered)
      /\ server_sent \in Nat /\ 0 .. server_sent - 1 \subseteq DOMAIN setting.lengths
  BY <1>1 DEF ToClient, OneWay, Sending
<1>3. /\ Window(setting, n, client_received_packets, client_delivered, server_sent)
      /\ ClientSide!KeepsIn(client_fragment_reassembly, n, under, FragmentReassemblyBufferSize)
      /\ id \in under => ClientSide!GoodEntry(ClientSide!EntryOf(client_fragment_reassembly, id),
                                              content, G)
  BY Sides, SidesParts DEF Standing
<1>4. /\ n \in 0 .. server_sent /\ n >= server_sent - setting.max_outage
      /\ ClientSide!KeepsIn(client_received_packets, n, ids, ReceivedPacketsBufferSize)
  BY <1>3, Sides DEF Window
<1>5. /\ id \in 0 .. server_sent - 1 /\ d \in AllDatagrams /\ ClientSide!InReach(id, n)
      /\ \E h \in G : ClientSide!PartOf(d, id, content, h)
  BY <1>1, <1>2, <1>4, Arrival
<1>6. PICK h \in G : ClientSide!PartOf(d, id, content, h)
  BY <1>5, SidesParts
<1>7. content \in Seq(Unit) /\ content # <<>> /\ id \in Int /\ n \in Int
      /\ \A k \in 1 .. Len(content) : content[k][1] = id
  BY <1>1, <1>2, <1>4, <1>5, ContentData
<1>8. /\ \A g \in G : g.sequence = ClientSide!NumberOf(id)
      /\ h \in ClientSide!Header
  BY Sides, ClientGiven DEF HeadersOf
<1>9. ClientSide!ReceivePacket(d, process) /\ ClientSide!InReach(id, n) /\ ClientSide!SizesDivide
  BY <1>5, ClientReceivesLink, Sides, ClientGiven
<1>10. /\ None \notin ClientSide!SequenceNumber /\ None \notin ClientSide!Header
       /\ \A g \in ClientSide!Header : HeaderBytes(g) \in 0 .. MaxPacketHeaderBytes
       /\ AllDatagrams \subseteq ClientSide!Datagram
  BY ClientGiven, DataAssumption
<1> HIDE DEF id, content, d, G, ids
<1> USE ClientGiven, ConfigAssumption, SequenceModulusAssumption, CounterModulusAssumption
<1>11. ClientSide!HeardPacket(n, ids, under, id, content, G, d, process)
  <2>1. ClientSide!IInv /\ d \in AllDatagrams /\ h \in G
    BY <1>1, <1>5, <1>6
  <2> QED BY <2>1, <1>3, <1>4, <1>6, <1>7, <1>8, <1>9, <1>10, ClientSide!ReceiveByIdentity
<1>12. ClientSide!IInv'
  BY <1>1, <1>5, <1>9, <1>10, ClientSide!ReceivePacketInv
<1>13. SequenceOf(d) = NumberOf(id)
  <2>1. (IF d.type = "regular" THEN d.header.sequence ELSE d.sequence) = ClientSide!NumberOf(id)
    BY <1>6, <1>7, <1>8, <1>10, ClientSide!PartData
  <2> QED BY <2>1, Sides DEF SequenceOf
<1> QED BY <1>5, <1>11, <1>12, <1>13 DEF id, content, d, G, ids

\* When the server takes the acks of a packet, it reports packets it sent and
\* the client accepted.
LEMMA ServerAcked ==
  ASSUME SizesDivide, WithinReach, ConnInv, NEW m \in to_server, NEW process,
         ServerSide!AcksTaken(
           HeadersOf(setting, PacketOf(m), to_server, server_sent, client_delivered), process)
  PROVE  \E named, fresh :
           /\ ClientSide!AcksOf(server_sent_packets, server_sent_packets', server_acks,
                server_acks', server_sent, Tracked(server_sent), named, fresh)
           /\ \A a \in named : a \in 0 .. server_sent - 1 /\ client_delivered[a] > 0
<1> DEFINE id == PacketOf(m)
           G == HeadersOf(setting, id, to_server, server_sent, client_delivered)
<1>1. setting \in Settings /\ ServerSide!IInv /\ ToServer /\ ToClient
  BY DEF ConnInv
<1>2. /\ InFlight(setting, to_server, client_sent, server_sent, client_delivered)
      /\ Sending(setting, server_sequence, server_sent_packets, server_sent, server_reported,
                 client_delivered)
  BY <1>1 DEF ToServer, ToClient, OneWay
<1>3. /\ server_sent \in Nat
      /\ ServerSide!KeepsIn(server_sent_packets, server_sent, Tracked(server_sent),
                            SentPacketsBufferSize)
  BY <1>2, Sides DEF Sending
<1>4. CASE process = "accepted"
  <2>1. PICK h \in G : \E names : ServerSide!ProcessAcks(h, names)
    BY <1>4 DEF ServerSide!AcksTaken
  <2>2. PICK names : ServerSide!ProcessAcks(h, names)
    BY <2>1
  <2>3. h \in GoodHeaders(setting, id, m.age, server_sent, client_delivered)
    BY <2>1 DEF HeadersOf
  <2>4. m.age \in 0 .. setting.max_age
    BY <1>2 DEF InFlight
  <2>5. /\ h \in Headers
        /\ \E n \in Nat :
              /\ h.ack = NumberOf(n - 1)
              /\ \A i \in h.ack_bits :
                   n - 1 - i \in server_sent - SequenceModulus .. server_sent - 1
              /\ \A a \in Named(h, n) : a \in 0 .. server_sent - 1 /\ client_delivered[a] > 0
    BY <1>1, <1>3, <2>3, <2>4, NamedAccepted
  <2>6. PICK n \in Nat :
              /\ h.ack = NumberOf(n - 1)
              /\ \A i \in h.ack_bits :
                   n - 1 - i \in server_sent - SequenceModulus .. server_sent - 1
              /\ \A a \in Named(h, n) : a \in 0 .. server_sent - 1 /\ client_delivered[a] > 0
    BY <2>5
  <2>7. /\ h \in ServerSide!Header /\ h.ack = ServerSide!NumberOf(n - 1) /\ n \in Int
        /\ server_sent \in Int /\ ServerSide!SizesDivide
    BY <1>3, <2>5, <2>6, Sides, ServerGiven
  <2>8. /\ None \notin ServerSide!SequenceNumber /\ None \notin ServerSide!Header
        /\ \A g \in ServerSide!Header : HeaderBytes(g) \in 0 .. MaxPacketHeaderBytes
        /\ AllDatagrams \subseteq ServerSide!Datagram
    BY ServerGiven, DataAssumption
  <2>9. \E fresh : ServerSide!AcksOf(server_sent_packets, server_sent_packets', server_acks,
                     server_acks', server_sent, Tracked(server_sent),
                     {n - 1 - i : i \in h.ack_bits}, fresh)
    BY <1>1, <1>3, <2>2, <2>6, <2>7, <2>8, ServerGiven, ConfigAssumption,
       SequenceModulusAssumption, CounterModulusAssumption, ServerSide!ProcessAcksByIdentity
  <2>10. PICK fresh : ClientSide!AcksOf(server_sent_packets, server_sent_packets', server_acks,
                        server_acks', server_sent, Tracked(server_sent), Named(h, n), fresh)
    BY <2>9, SidesAcks DEF Named
  <2> QED BY <2>6, <2>10
<1>5. CASE process # "accepted"
  <2>1. server_sent_packets' = server_sent_packets /\ server_acks' = server_acks
    BY <1>5 DEF ServerSide!AcksTaken
  <2>2. server_acks \in Seq(SequenceNumber)
    BY <1>1, ServerGiven DEF ServerSide!IInv, ServerSide!TypeOK
  <2>3. ClientSide!AcksOf(server_sent_packets, server_sent_packets, server_acks, server_acks,
                          server_sent, Tracked(server_sent), {}, {})
    BY <1>2, <2>2, NoAcks
  <2>4. ClientSide!AcksOf(server_sent_packets, server_sent_packets', server_acks, server_acks',
                          server_sent, Tracked(server_sent), {}, {})
    BY <2>1, <2>3
  <2> QED BY <2>4
<1> QED BY <1>4, <1>5

\* A side whose variables do not change keeps its invariant.
LEMMA ServerRests ==
  ASSUME ServerSide!IInv, UNCHANGED server_vars
  PROVE  ServerSide!IInv'
<1>1. UNCHANGED <<server_sequence, server_sent_packets, server_received_packets,
                  server_fragment_reassembly, server_acks>>
  BY DEF server_vars
<1>2. ZeroCounters' = ZeroCounters
  BY DEF ZeroCounters, CounterNames
<1>3. UNCHANGED ServerSide!vars
  BY <1>1, <1>2 DEF ServerSide!vars
<1>4. [ServerSide!Next]_(ServerSide!vars)
  BY <1>3
<1>5. /\ None \notin ServerSide!SequenceNumber /\ None \notin ServerSide!Header
      /\ \A g \in ServerSide!Header : HeaderBytes(g) \in 0 .. MaxPacketHeaderBytes
      /\ AllDatagrams \subseteq ServerSide!Datagram
  BY ServerGiven, DataAssumption
<1> QED BY <1>4, <1>5, ServerGiven, ConfigAssumption, SequenceModulusAssumption,
           CounterModulusAssumption, ServerSide!NextInv


\* When the client takes the acks of a packet, it reports packets it sent and
\* the server accepted.
LEMMA ClientAcked ==
  ASSUME SizesDivide, WithinReach, ConnInv, NEW m \in to_client, NEW process,
         ClientSide!AcksTaken(
           HeadersOf(setting, PacketOf(m), to_client, client_sent, server_delivered), process)
  PROVE  \E named, fresh :
           /\ ClientSide!AcksOf(client_sent_packets, client_sent_packets', client_acks,
                client_acks', client_sent, Tracked(client_sent), named, fresh)
           /\ \A a \in named : a \in 0 .. client_sent - 1 /\ server_delivered[a] > 0
<1> DEFINE id == PacketOf(m)
           G == HeadersOf(setting, id, to_client, client_sent, server_delivered)
<1>1. setting \in Settings /\ ClientSide!IInv /\ ToClient /\ ToServer
  BY DEF ConnInv
<1>2. /\ InFlight(setting, to_client, server_sent, client_sent, server_delivered)
      /\ Sending(setting, client_sequence, client_sent_packets, client_sent, client_reported,
                 server_delivered)
  BY <1>1 DEF ToClient, ToServer, OneWay
<1>3. /\ client_sent \in Nat
      /\ ClientSide!KeepsIn(client_sent_packets, client_sent, Tracked(client_sent),
                            SentPacketsBufferSize)
  BY <1>2, Sides DEF Sending
<1>4. CASE process = "accepted"
  <2>1. PICK h \in G : \E names : ClientSide!ProcessAcks(h, names)
    BY <1>4 DEF ClientSide!AcksTaken
  <2>2. PICK names : ClientSide!ProcessAcks(h, names)
    BY <2>1
  <2>3. h \in GoodHeaders(setting, id, m.age, client_sent, server_delivered)
    BY <2>1 DEF HeadersOf
  <2>4. m.age \in 0 .. setting.max_age
    BY <1>2 DEF InFlight
  <2>5. /\ h \in Headers
        /\ \E n \in Nat :
              /\ h.ack = NumberOf(n - 1)
              /\ \A i \in h.ack_bits :
                   n - 1 - i \in client_sent - SequenceModulus .. client_sent - 1
              /\ \A a \in Named(h, n) : a \in 0 .. client_sent - 1 /\ server_delivered[a] > 0
    BY <1>1, <1>3, <2>3, <2>4, NamedAccepted
  <2>6. PICK n \in Nat :
              /\ h.ack = NumberOf(n - 1)
              /\ \A i \in h.ack_bits :
                   n - 1 - i \in client_sent - SequenceModulus .. client_sent - 1
              /\ \A a \in Named(h, n) : a \in 0 .. client_sent - 1 /\ server_delivered[a] > 0
    BY <2>5
  <2>7. /\ h \in ClientSide!Header /\ h.ack = ClientSide!NumberOf(n - 1) /\ n \in Int
        /\ client_sent \in Int /\ ClientSide!SizesDivide
    BY <1>3, <2>5, <2>6, Sides, ClientGiven
  <2>8. /\ None \notin ClientSide!SequenceNumber /\ None \notin ClientSide!Header
        /\ \A g \in ClientSide!Header : HeaderBytes(g) \in 0 .. MaxPacketHeaderBytes
        /\ AllDatagrams \subseteq ClientSide!Datagram
    BY ClientGiven, DataAssumption
  <2>9. \E fresh : ClientSide!AcksOf(client_sent_packets, client_sent_packets', client_acks,
                     client_acks', client_sent, Tracked(client_sent),
                     {n - 1 - i : i \in h.ack_bits}, fresh)
    BY <1>1, <1>3, <2>2, <2>6, <2>7, <2>8, ClientGiven, ConfigAssumption,
       SequenceModulusAssumption, CounterModulusAssumption, ClientSide!ProcessAcksByIdentity
  <2>10. PICK fresh : ClientSide!AcksOf(client_sent_packets, client_sent_packets', client_acks,
                        client_acks', client_sent, Tracked(client_sent), Named(h, n), fresh)
    BY <2>9, SidesAcks DEF Named
  <2> QED BY <2>6, <2>10
<1>5. CASE process # "accepted"
  <2>1. client_sent_packets' = client_sent_packets /\ client_acks' = client_acks
    BY <1>5 DEF ClientSide!AcksTaken
  <2>2. client_acks \in Seq(SequenceNumber)
    BY <1>1, ClientGiven DEF ClientSide!IInv, ClientSide!TypeOK
  <2>3. ClientSide!AcksOf(client_sent_packets, client_sent_packets, client_acks, client_acks,
                          client_sent, Tracked(client_sent), {}, {})
    BY <1>2, <2>2, NoAcks
  <2>4. ClientSide!AcksOf(client_sent_packets, client_sent_packets', client_acks, client_acks',
                          client_sent, Tracked(client_sent), {}, {})
    BY <2>1, <2>3
  <2> QED BY <2>4
<1> QED BY <1>4, <1>5

\* A side whose variables do not change keeps its invariant.
LEMMA ClientRests ==
  ASSUME ClientSide!IInv, UNCHANGED client_vars
  PROVE  ClientSide!IInv'
<1>1. UNCHANGED <<client_sequence, client_sent_packets, client_received_packets,
                  client_fragment_reassembly, client_acks>>
  BY DEF client_vars
<1>2. ZeroCounters' = ZeroCounters
  BY DEF ZeroCounters, CounterNames
<1>3. UNCHANGED ClientSide!vars
  BY <1>1, <1>2 DEF ClientSide!vars
<1>4. [ClientSide!Next]_(ClientSide!vars)
  BY <1>3
<1>5. /\ None \notin ClientSide!SequenceNumber /\ None \notin ClientSide!Header
      /\ \A g \in ClientSide!Header : HeaderBytes(g) \in 0 .. MaxPacketHeaderBytes
      /\ AllDatagrams \subseteq ClientSide!Datagram
  BY ClientGiven, DataAssumption
<1> QED BY <1>4, <1>5, ClientGiven, ConfigAssumption, SequenceModulusAssumption,
           CounterModulusAssumption, ClientSide!NextInv

-----------------------------------------------------------------------------
(* The steps of either side *)

\* receive_packet of the server.
LEMMA ServerReceivesStep ==
  ASSUME SizesDivide, WithinReach, ConnInv, ServerReceives
  PROVE  ConnInv'
<1>1. PICK m \in to_server, process \in {"unused"} \cup setting.verdicts :
    /\ Server!ReceivePacket(m.datagram, process)
    /\ server_delivered' = Deliver(server_delivered, process, Server!Processed(m.datagram),
                                   SequenceOf(m.datagram), client_sent)
    /\ server_reported' = Report(server_reported, server_acks, server_acks', server_sent)
    /\ UNCHANGED <<setting, client_vars, to_server, to_client, client_sent, server_sent,
                   client_delivered, client_reported>>
  BY DEF ServerReceives
<1>2. setting \in Settings /\ ClientSide!IInv /\ ServerSide!IInv /\ ToServer /\ ToClient
  BY DEF ConnInv
<1>3. process \in {"unused", "accepted", "rejected"}
  BY <1>1, <1>2, SettingsAssumption
<1>4. /\ OneWay(setting, to_server, client_sequence, client_sent_packets, client_sent,
                client_reported, server_received_packets, server_fragment_reassembly,
                server_delivered, server_sent, client_delivered)
      /\ OneWay(setting, to_client, server_sequence, server_sent_packets, server_sent,
                server_reported, client_received_packets, client_fragment_reassembly,
                client_delivered, client_sent, server_delivered)
  BY <1>2 DEF ToServer, ToClient
<1>5. PICK n, under :
        Standing(setting, n, under, to_server, server_received_packets,
                 server_fragment_reassembly, client_sent, server_delivered, server_sent,
                 client_delivered)
  BY <1>4, Stands
<1> DEFINE id == PacketOf(m)
           content == ContentOf(setting, id)
           G == HeadersOf(setting, id, to_server, server_sent, client_delivered)
           ids == Accepted(server_delivered, n)
           more == Delivered(server_delivered, id, process)
<1>6. /\ ServerSide!IInv'
      /\ id \in 0 .. client_sent - 1
      /\ SequenceOf(m.datagram) = NumberOf(id)
      /\ ServerSide!HeardPacket(n, ids, under, id, content, G, m.datagram, process)
  BY <1>1, <1>3, <1>5, ServerHeard
<1>7. PICK p \in ClientSide!Moves(n, id) :
        ClientSide!WindowsAt(server_received_packets', server_fragment_reassembly',
          server_fragment_reassembly, p, n, ids, under, id, content, G, process)
  BY <1>6, Sides, SidesWindows DEF ServerSide!HeardPacket
<1>8. /\ ServerSide!AcksTaken(G, process)
      /\ server_sequence' = server_sequence
      /\ process # "unused" => Server!Processed(m.datagram) = content
  BY <1>6, ServerEntriesLink DEF ServerSide!HeardPacket
<1>9. /\ client_sent \in Nat /\ 0 .. client_sent - 1 \subseteq DOMAIN setting.lengths
      /\ server_sent \in Nat
  BY <1>4 DEF OneWay, Sending
<1>10. server_delivered' = more
  BY <1>1, <1>2, <1>6, <1>8, <1>9, DeliverIs
<1>11. PICK named, fresh :
         /\ ClientSide!AcksOf(server_sent_packets, server_sent_packets', server_acks,
              server_acks', server_sent, Tracked(server_sent), named, fresh)
         /\ \A a \in named : a \in 0 .. server_sent - 1 /\ client_delivered[a] > 0
  BY <1>8, ServerAcked
<1>12. OneWay(setting, to_server, client_sequence, client_sent_packets, client_sent,
              client_reported, server_received_packets', server_fragment_reassembly', more,
              server_sent, client_delivered)
  BY <1>2, <1>4, <1>5, <1>6, <1>7, HearAhead
<1>13. \A a \in 0 .. client_sent - 1 : a \in DOMAIN server_delivered /\ server_delivered[a] \in Nat
  <2>1. Window(setting, n, server_received_packets, server_delivered, client_sent)
    BY <1>5 DEF Standing
  <2> QED BY <1>9, <2>1 DEF Window
<1>14. OneWay(setting, to_client, server_sequence, server_sent_packets', server_sent,
              Report(server_reported, server_acks, server_acks', server_sent),
              client_received_packets, client_fragment_reassembly, client_delivered,
              client_sent, more)
  BY <1>2, <1>4, <1>9, <1>11, <1>13, HearBehind
<1> HIDE DEF more, G, ids, content
<1>15. UNCHANGED <<setting, client_sequence, client_sent_packets, client_received_packets,
                   client_fragment_reassembly, client_acks, to_server, to_client, client_sent,
                   server_sent, client_delivered, client_reported>>
  BY <1>1 DEF client_vars
<1>16. ToServer'
  BY <1>10, <1>12, <1>15, ToServerNext
<1>17. ToClient'
  BY <1>1, <1>8, <1>10, <1>14, <1>15, ToClientNext
<1>18. ClientSide!IInv'
  BY <1>1, <1>2, ClientRests
<1> QED BY <1>2, <1>6, <1>15, <1>16, <1>17, <1>18 DEF ConnInv

\* send_packet of the server.
LEMMA ServerSendsStep ==
  ASSUME SizesDivide, WithinReach, ConnInv, ServerSends
  PROVE  ConnInv'
<1>1. /\ server_sent < setting.server_max
      /\ Unheard(client_received_packets, server_sent) < setting.max_outage
      /\ Server!SendPacket(Content(server_sent))
      /\ to_client' = Aged(to_client) \cup Carry(Server!Transmitted(Content(server_sent)))
      /\ to_server' = Aged(to_server)
      /\ server_sent' = server_sent + 1
      /\ UNCHANGED <<setting, client_vars, client_sent, client_delivered, server_delivered,
                     client_reported, server_reported>>
  BY DEF ServerSends
<1>2. setting \in Settings /\ ClientSide!IInv /\ ServerSide!IInv /\ ToServer /\ ToClient
  BY DEF ConnInv
<1>3. /\ OneWay(setting, to_server, client_sequence, client_sent_packets, client_sent,
                client_reported, server_received_packets, server_fragment_reassembly,
                server_delivered, server_sent, client_delivered)
      /\ OneWay(setting, to_client, server_sequence, server_sent_packets, server_sent,
                server_reported, client_received_packets, client_fragment_reassembly,
                client_delivered, client_sent, server_delivered)
  BY <1>2 DEF ToServer, ToClient
<1>4. /\ client_sent \in Nat /\ server_sent \in Nat
      /\ server_sequence = NumberOf(server_sent)
      /\ ServerSide!KeepsIn(server_sent_packets, server_sent, Tracked(server_sent),
                            SentPacketsBufferSize)
  BY <1>3, Sides DEF OneWay, Sending
<1>5. server_sent \in DOMAIN setting.lengths
  BY <1>1, <1>2, <1>4, SettingsAssumption
<1>6. PICK n : Window(setting, n, server_received_packets, server_delivered, client_sent)
  BY <1>3 DEF OneWay
<1> DEFINE content == ContentOf(setting, server_sent)
           D == Server!Transmitted(Content(server_sent))
           ids == Accepted(server_delivered, n)
           h == ServerSide!NextHeader
           kept == ClientSide!Kept(Tracked(server_sent), server_sent + 1, SentPacketsBufferSize)
<1>7. /\ content \in Seq(Unit) /\ content # <<>>
      /\ \A k \in 1 .. Len(content) : content[k][1] = server_sent
  BY <1>2, <1>5, ContentData
<1>8. Content(server_sent) = content /\ D = ServerSide!Transmitted(content)
      /\ ServerSide!SendPacket(content)
  BY <1>1, ServerSendsLink DEF Content, ContentOf
<1>9. /\ None \notin ServerSide!SequenceNumber /\ None \notin ServerSide!Header
      /\ \A g \in ServerSide!Header : HeaderBytes(g) \in 0 .. MaxPacketHeaderBytes
      /\ AllDatagrams = ServerSide!Datagram /\ ServerSide!SizesDivide
      /\ Headers = ServerSide!Header
  BY ServerGiven, DataAssumption
<1>10. /\ n \in 0 .. client_sent /\ n >= client_sent - setting.max_outage
       /\ ServerSide!KeepsIn(server_received_packets, n, ids, ReceivedPacketsBufferSize)
  BY <1>6, Sides DEF Window
<1>11. 2 <= ServerSide!HalfModulus
  <2>1. client_received_packets.sequence \in Int
    <3>1. \E p : Window(setting, p, client_received_packets, client_delivered, server_sent)
      BY <1>3 DEF OneWay
    <3>2. PICK p \in Int : client_received_packets.sequence = NumberOf(p)
      BY <1>4, <3>1, Sides DEF Window, ClientSide!KeepsIn
    <3> QED BY <3>2, Halves DEF NumberOf
  <2>2. 0 <= Unheard(client_received_packets, server_sent)
    <3> DEFINE x == server_sent - client_received_packets.sequence
    <3>1. x \in Int
      BY <1>4, <2>1
    <3> HIDE DEF x
    <3>2. x % SequenceModulus >= 0
      BY <3>1, Halves
    <3> QED BY <3>2 DEF Unheard, x
  <2>3. /\ setting.max_outage \in Nat
        /\ setting.max_outage + ReceivedPacketsBufferSize <= HalfModulus
    BY <1>2, SettingData
  <2>4. Unheard(client_received_packets, server_sent) \in Int
    BY <1>4, <2>1, Halves DEF Unheard
  <2> QED BY <1>1, <2>2, <2>3, <2>4, Halves, ServerGiven
<1> HIDE DEF content, D, ids, h, kept
<1> USE ServerGiven, ConfigAssumption, SequenceModulusAssumption, CounterModulusAssumption
<1>12. h = [sequence |-> server_sequence, ack |-> NumberOf(n - 1),
            ack_bits |-> {i \in 0 .. AckBits - 1 : n - 1 - i \in ids}]
  <2>1. n \in Int
    BY <1>10
  <2>2. ServerSide!NextHeader
          = [sequence |-> server_sequence, ack |-> ServerSide!NumberOf(n - 1),
             ack_bits |-> {i \in 0 .. AckBits - 1 : n - 1 - i \in ids}]
    BY <1>9, <1>10, <2>1, ServerSide!HeaderByIdentity
  <2> QED BY <2>2, Sides DEF h
<1>13. h \in Headers
  <2>1. ServerSide!TypeOK
    BY <1>2 DEF ServerSide!IInv
  <2>2. h \in ServerSide!Header
    BY <1>9, <2>1, ServerSide!NextHeaderType DEF h
  <2> QED BY <1>9, <2>2
<1>14. h \in GoodHeaders(setting, server_sent, 0, client_sent, server_delivered)
  <2>1. /\ h.sequence = NumberOf(server_sent) /\ h.ack = NumberOf(n - 1)
        /\ \A i \in h.ack_bits : n - 1 - i \in ids
    BY <1>4, <1>12
  <2>2. n >= client_sent - setting.max_outage - 0
    BY <1>2, <1>4, <1>10, SettingData
  <2> QED BY <1>10, <1>13, <2>1, <2>2 DEF GoodHeaders, ids
<1>15. ASSUME NEW d \in D
       PROVE  Fresh(setting, d, server_sent,
                    GoodHeaders(setting, server_sent, 0, client_sent, server_delivered))
  <2>1. server_sequence = ServerSide!NumberOf(server_sent) /\ d \in ServerSide!Transmitted(content)
    BY <1>4, <1>8, Sides
  <2>2. ServerSide!PartOf(d, server_sent, content, h)
    BY <1>9, <2>1, ServerSide!TransmittedParts DEF h
  <2>3. /\ server_sent \in Int /\ h \in ServerSide!Header
        /\ h.sequence = ServerSide!NumberOf(server_sent)
    BY <1>4, <1>9, <1>12, <1>13, Sides
  <2>4. /\ d \in ServerSide!Datagram
        /\ \E k \in 1 .. Len(content) : d.content[1] = content[k]
    BY <1>7, <1>9, <2>2, <2>3, ServerSide!PartData
  <2>5. d.content[1][1] = server_sent
    BY <1>7, <2>4
  <2>6. ClientSide!PartOf(d, server_sent, ContentOf(setting, server_sent), h)
    BY <2>2, SidesParts DEF content
  <2> QED BY <1>9, <1>14, <2>4, <2>5, <2>6 DEF Fresh
<1>16. /\ server_sequence' = NumberOf(server_sent + 1)
       /\ ClientSide!KeepsIn(server_sent_packets', server_sent + 1, kept \cup {server_sent},
                             SentPacketsBufferSize)
       /\ ClientSide!FlagOf(server_sent_packets', server_sent) = FALSE
       /\ ClientSide!SameFlags(server_sent_packets', server_sent_packets, kept)
       /\ UNCHANGED <<server_received_packets, server_fragment_reassembly, server_acks>>
  <2>1. server_sent \in Int /\ server_sequence = ServerSide!NumberOf(server_sent)
    BY <1>4, Sides
  <2>2. kept = ServerSide!Kept(Tracked(server_sent), server_sent + 1, SentPacketsBufferSize)
    BY Sides DEF kept
  <2>3. /\ server_sequence' = ServerSide!NumberOf(server_sent + 1)
        /\ ServerSide!KeepsIn(server_sent_packets', server_sent + 1, kept \cup {server_sent},
                              SentPacketsBufferSize)
        /\ ServerSide!FlagOf(server_sent_packets', server_sent) = FALSE
        /\ ServerSide!SameFlags(server_sent_packets', server_sent_packets, kept)
        /\ UNCHANGED <<server_received_packets, server_fragment_reassembly, server_acks>>
    BY <1>2, <1>4, <1>8, <1>9, <1>11, <2>1, <2>2, ServerSide!SendByIdentity
  <2> QED BY <2>3, Sides, SidesParts
<1>17. ServerSide!IInv'
  BY <1>2, <1>7, <1>8, <1>9, ServerSide!SendPacketInv
<1>18. UNCHANGED <<setting, client_sequence, client_sent_packets, client_received_packets,
                   client_fragment_reassembly, client_sent, client_delivered, server_delivered,
                   client_reported, server_reported>>
  BY <1>1 DEF client_vars
<1>19. OneWay(setting, Aged(to_client) \cup Carry(D), server_sequence', server_sent_packets',
              server_sent + 1, server_reported, client_received_packets,
              client_fragment_reassembly, client_delivered, client_sent, server_delivered)
  BY <1>1, <1>2, <1>3, <1>4, <1>5, <1>15, <1>16, SendAhead DEF kept
<1>20. OneWay(setting, Aged(to_server), client_sequence, client_sent_packets, client_sent,
              client_reported, server_received_packets, server_fragment_reassembly,
              server_delivered, server_sent + 1, client_delivered)
  BY <1>2, <1>3, <1>4, SendBehind
<1>21. ToServer'
  BY <1>1, <1>16, <1>18, <1>20, ToServerNext
<1>22. ToClient'
  BY <1>1, <1>18, <1>19, ToClientNext DEF D
<1>23. ClientSide!IInv'
  BY <1>1, <1>2, ClientRests
<1> QED BY <1>2, <1>17, <1>18, <1>21, <1>22, <1>23 DEF ConnInv

\* clear_acks of the server.
LEMMA ServerClearsStep ==
  ASSUME ConnInv, ServerClearsAcks
  PROVE  ConnInv'
<1>1. setting \in Settings /\ ClientSide!IInv /\ ServerSide!IInv /\ ToServer /\ ToClient
  BY DEF ConnInv
<1>2. /\ ServerSide!ClearAcks
      /\ UNCHANGED <<setting, client_vars, to_server, to_client, ghost_vars>>
  BY ServerClearsLink DEF ServerClearsAcks
<1>3. UNCHANGED <<setting, to_server, to_client, client_sequence, client_sent_packets,
                  client_received_packets, client_fragment_reassembly, server_sequence,
                  server_sent_packets, server_received_packets, server_fragment_reassembly,
                  client_sent, server_sent, client_delivered, server_delivered,
                  client_reported, server_reported>>
  BY <1>2 DEF ServerSide!ClearAcks, client_vars, ghost_vars
<1>4. ToServer'
  BY <1>1, <1>3, ToServerNext DEF ToServer
<1>5. ToClient'
  BY <1>1, <1>3, ToClientNext DEF ToClient
<1>6. ServerSide!IInv'
  <2>1. [ServerSide!Next]_(ServerSide!vars)
    BY <1>2 DEF ServerSide!Next
  <2>2. /\ None \notin ServerSide!SequenceNumber /\ None \notin ServerSide!Header
        /\ \A g \in ServerSide!Header : HeaderBytes(g) \in 0 .. MaxPacketHeaderBytes
        /\ AllDatagrams \subseteq ServerSide!Datagram
    BY ServerGiven, DataAssumption
  <2> QED BY <1>1, <2>1, <2>2, ServerGiven, ConfigAssumption, SequenceModulusAssumption,
             CounterModulusAssumption, ServerSide!NextInv
<1>7. ClientSide!IInv'
  BY <1>1, <1>2, ClientRests
<1> QED BY <1>1, <1>3, <1>4, <1>5, <1>6, <1>7 DEF ConnInv


\* receive_packet of the client.
LEMMA ClientReceivesStep ==
  ASSUME SizesDivide, WithinReach, ConnInv, ClientReceives
  PROVE  ConnInv'
<1>1. PICK m \in to_client, process \in {"unused"} \cup setting.verdicts :
    /\ Client!ReceivePacket(m.datagram, process)
    /\ client_delivered' = Deliver(client_delivered, process, Client!Processed(m.datagram),
                                   SequenceOf(m.datagram), server_sent)
    /\ client_reported' = Report(client_reported, client_acks, client_acks', client_sent)
    /\ UNCHANGED <<setting, server_vars, to_client, to_server, server_sent, client_sent,
                   server_delivered, server_reported>>
  BY DEF ClientReceives
<1>2. setting \in Settings /\ ServerSide!IInv /\ ClientSide!IInv /\ ToClient /\ ToServer
  BY DEF ConnInv
<1>3. process \in {"unused", "accepted", "rejected"}
  BY <1>1, <1>2, SettingsAssumption
<1>4. /\ OneWay(setting, to_client, server_sequence, server_sent_packets, server_sent,
                server_reported, client_received_packets, client_fragment_reassembly,
                client_delivered, client_sent, server_delivered)
      /\ OneWay(setting, to_server, client_sequence, client_sent_packets, client_sent,
                client_reported, server_received_packets, server_fragment_reassembly,
                server_delivered, server_sent, client_delivered)
  BY <1>2 DEF ToClient, ToServer
<1>5. PICK n, under :
        Standing(setting, n, under, to_client, client_received_packets,
                 client_fragment_reassembly, server_sent, client_delivered, client_sent,
                 server_delivered)
  BY <1>4, Stands
<1> DEFINE id == PacketOf(m)
           content == ContentOf(setting, id)
           G == HeadersOf(setting, id, to_client, client_sent, server_delivered)
           ids == Accepted(client_delivered, n)
           more == Delivered(client_delivered, id, process)
<1>6. /\ ClientSide!IInv'
      /\ id \in 0 .. server_sent - 1
      /\ SequenceOf(m.datagram) = NumberOf(id)
      /\ ClientSide!HeardPacket(n, ids, under, id, content, G, m.datagram, process)
  BY <1>1, <1>3, <1>5, ClientHeard
<1>7. PICK p \in ClientSide!Moves(n, id) :
        ClientSide!WindowsAt(client_received_packets', client_fragment_reassembly',
          client_fragment_reassembly, p, n, ids, under, id, content, G, process)
  BY <1>6, Sides, SidesWindows DEF ClientSide!HeardPacket
<1>8. /\ ClientSide!AcksTaken(G, process)
      /\ client_sequence' = client_sequence
      /\ process # "unused" => Client!Processed(m.datagram) = content
  BY <1>6, ClientEntriesLink DEF ClientSide!HeardPacket
<1>9. /\ server_sent \in Nat /\ 0 .. server_sent - 1 \subseteq DOMAIN setting.lengths
      /\ client_sent \in Nat
  BY <1>4 DEF OneWay, Sending
<1>10. client_delivered' = more
  BY <1>1, <1>2, <1>6, <1>8, <1>9, DeliverIs
<1>11. PICK named, fresh :
         /\ ClientSide!AcksOf(client_sent_packets, client_sent_packets', client_acks,
              client_acks', client_sent, Tracked(client_sent), named, fresh)
         /\ \A a \in named : a \in 0 .. client_sent - 1 /\ server_delivered[a] > 0
  BY <1>8, ClientAcked
<1>12. OneWay(setting, to_client, server_sequence, server_sent_packets, server_sent,
              server_reported, client_received_packets', client_fragment_reassembly', more,
              client_sent, server_delivered)
  BY <1>2, <1>4, <1>5, <1>6, <1>7, HearAhead
<1>13. \A a \in 0 .. server_sent - 1 : a \in DOMAIN client_delivered /\ client_delivered[a] \in Nat
  <2>1. Window(setting, n, client_received_packets, client_delivered, server_sent)
    BY <1>5 DEF Standing
  <2> QED BY <1>9, <2>1 DEF Window
<1>14. OneWay(setting, to_server, client_sequence, client_sent_packets', client_sent,
              Report(client_reported, client_acks, client_acks', client_sent),
              server_received_packets, server_fragment_reassembly, server_delivered,
              server_sent, more)
  BY <1>2, <1>4, <1>9, <1>11, <1>13, HearBehind
<1> HIDE DEF more, G, ids, content
<1>15. UNCHANGED <<setting, server_sequence, server_sent_packets, server_received_packets,
                   server_fragment_reassembly, server_acks, to_client, to_server, server_sent,
                   client_sent, server_delivered, server_reported>>
  BY <1>1 DEF server_vars
<1>16. ToClient'
  BY <1>10, <1>12, <1>15, ToClientNext
<1>17. ToServer'
  BY <1>1, <1>8, <1>10, <1>14, <1>15, ToServerNext
<1>18. ServerSide!IInv'
  BY <1>1, <1>2, ServerRests
<1> QED BY <1>2, <1>6, <1>15, <1>16, <1>17, <1>18 DEF ConnInv

\* send_packet of the client.
LEMMA ClientSendsStep ==
  ASSUME SizesDivide, WithinReach, ConnInv, ClientSends
  PROVE  ConnInv'
<1>1. /\ client_sent < setting.client_max
      /\ Unheard(server_received_packets, client_sent) < setting.max_outage
      /\ Client!SendPacket(Content(client_sent))
      /\ to_server' = Aged(to_server) \cup Carry(Client!Transmitted(Content(client_sent)))
      /\ to_client' = Aged(to_client)
      /\ client_sent' = client_sent + 1
      /\ UNCHANGED <<setting, server_vars, server_sent, server_delivered, client_delivered,
                     server_reported, client_reported>>
  BY DEF ClientSends
<1>2. setting \in Settings /\ ServerSide!IInv /\ ClientSide!IInv /\ ToClient /\ ToServer
  BY DEF ConnInv
<1>3. /\ OneWay(setting, to_client, server_sequence, server_sent_packets, server_sent,
                server_reported, client_received_packets, client_fragment_reassembly,
                client_delivered, client_sent, server_delivered)
      /\ OneWay(setting, to_server, client_sequence, client_sent_packets, client_sent,
                client_reported, server_received_packets, server_fragment_reassembly,
                server_delivered, server_sent, client_delivered)
  BY <1>2 DEF ToClient, ToServer
<1>4. /\ server_sent \in Nat /\ client_sent \in Nat
      /\ client_sequence = NumberOf(client_sent)
      /\ ClientSide!KeepsIn(client_sent_packets, client_sent, Tracked(client_sent),
                            SentPacketsBufferSize)
  BY <1>3, Sides DEF OneWay, Sending
<1>5. client_sent \in DOMAIN setting.lengths
  BY <1>1, <1>2, <1>4, SettingsAssumption
<1>6. PICK n : Window(setting, n, client_received_packets, client_delivered, server_sent)
  BY <1>3 DEF OneWay
<1> DEFINE content == ContentOf(setting, client_sent)
           D == Client!Transmitted(Content(client_sent))
           ids == Accepted(client_delivered, n)
           h == ClientSide!NextHeader
           kept == ClientSide!Kept(Tracked(client_sent), client_sent + 1, SentPacketsBufferSize)
<1>7. /\ content \in Seq(Unit) /\ content # <<>>
      /\ \A k \in 1 .. Len(content) : content[k][1] = client_sent
  BY <1>2, <1>5, ContentData
<1>8. Content(client_sent) = content /\ D = ClientSide!Transmitted(content)
      /\ ClientSide!SendPacket(content)
  BY <1>1, ClientSendsLink DEF Content, ContentOf
<1>9. /\ None \notin ClientSide!SequenceNumber /\ None \notin ClientSide!Header
      /\ \A g \in ClientSide!Header : HeaderBytes(g) \in 0 .. MaxPacketHeaderBytes
      /\ AllDatagrams = ClientSide!Datagram /\ ClientSide!SizesDivide
      /\ Headers = ClientSide!Header
  BY ClientGiven, DataAssumption
<1>10. /\ n \in 0 .. server_sent /\ n >= server_sent - setting.max_outage
       /\ ClientSide!KeepsIn(client_received_packets, n, ids, ReceivedPacketsBufferSize)
  BY <1>6, Sides DEF Window
<1>11. 2 <= ClientSide!HalfModulus
  <2>1. server_received_packets.sequence \in Int
    <3>1. \E p : Window(setting, p, server_received_packets, server_delivered, client_sent)
      BY <1>3 DEF OneWay
    <3>2. PICK p \in Int : server_received_packets.sequence = NumberOf(p)
      BY <1>4, <3>1, Sides DEF Window, ClientSide!KeepsIn
    <3> QED BY <3>2, Halves DEF NumberOf
  <2>2. 0 <= Unheard(server_received_packets, client_sent)
    <3> DEFINE x == client_sent - server_received_packets.sequence
    <3>1. x \in Int
      BY <1>4, <2>1
    <3> HIDE DEF x
    <3>2. x % SequenceModulus >= 0
      BY <3>1, Halves
    <3> QED BY <3>2 DEF Unheard, x
  <2>3. /\ setting.max_outage \in Nat
        /\ setting.max_outage + ReceivedPacketsBufferSize <= HalfModulus
    BY <1>2, SettingData
  <2>4. Unheard(server_received_packets, client_sent) \in Int
    BY <1>4, <2>1, Halves DEF Unheard
  <2> QED BY <1>1, <2>2, <2>3, <2>4, Halves, ClientGiven
<1> HIDE DEF content, D, ids, h, kept
<1> USE ClientGiven, ConfigAssumption, SequenceModulusAssumption, CounterModulusAssumption
<1>12. h = [sequence |-> client_sequence, ack |-> NumberOf(n - 1),
            ack_bits |-> {i \in 0 .. AckBits - 1 : n - 1 - i \in ids}]
  <2>1. n \in Int
    BY <1>10
  <2>2. ClientSide!NextHeader
          = [sequence |-> client_sequence, ack |-> ClientSide!NumberOf(n - 1),
             ack_bits |-> {i \in 0 .. AckBits - 1 : n - 1 - i \in ids}]
    BY <1>9, <1>10, <2>1, ClientSide!HeaderByIdentity
  <2> QED BY <2>2, Sides DEF h
<1>13. h \in Headers
  <2>1. ClientSide!TypeOK
    BY <1>2 DEF ClientSide!IInv
  <2>2. h \in ClientSide!Header
    BY <1>9, <2>1, ClientSide!NextHeaderType DEF h
  <2> QED BY <1>9, <2>2
<1>14. h \in GoodHeaders(setting, client_sent, 0, server_sent, client_delivered)
  <2>1. /\ h.sequence = NumberOf(client_sent) /\ h.ack = NumberOf(n - 1)
        /\ \A i \in h.ack_bits : n - 1 - i \in ids
    BY <1>4, <1>12
  <2>2. n >= server_sent - setting.max_outage - 0
    BY <1>2, <1>4, <1>10, SettingData
  <2> QED BY <1>10, <1>13, <2>1, <2>2 DEF GoodHeaders, ids
<1>15. ASSUME NEW d \in D
       PROVE  Fresh(setting, d, client_sent,
                    GoodHeaders(setting, client_sent, 0, server_sent, client_delivered))
  <2>1. client_sequence = ClientSide!NumberOf(client_sent) /\ d \in ClientSide!Transmitted(content)
    BY <1>4, <1>8, Sides
  <2>2. ClientSide!PartOf(d, client_sent, content, h)
    BY <1>9, <2>1, ClientSide!TransmittedParts DEF h
  <2>3. /\ client_sent \in Int /\ h \in ClientSide!Header
        /\ h.sequence = ClientSide!NumberOf(client_sent)
    BY <1>4, <1>9, <1>12, <1>13, Sides
  <2>4. /\ d \in ClientSide!Datagram
        /\ \E k \in 1 .. Len(content) : d.content[1] = content[k]
    BY <1>7, <1>9, <2>2, <2>3, ClientSide!PartData
  <2>5. d.content[1][1] = client_sent
    BY <1>7, <2>4
  <2>6. ClientSide!PartOf(d, client_sent, ContentOf(setting, client_sent), h)
    BY <2>2, SidesParts DEF content
  <2> QED BY <1>9, <1>14, <2>4, <2>5, <2>6 DEF Fresh
<1>16. /\ client_sequence' = NumberOf(client_sent + 1)
       /\ ClientSide!KeepsIn(client_sent_packets', client_sent + 1, kept \cup {client_sent},
                             SentPacketsBufferSize)
       /\ ClientSide!FlagOf(client_sent_packets', client_sent) = FALSE
       /\ ClientSide!SameFlags(client_sent_packets', client_sent_packets, kept)
       /\ UNCHANGED <<client_received_packets, client_fragment_reassembly, client_acks>>
  <2>1. client_sent \in Int /\ client_sequence = ClientSide!NumberOf(client_sent)
    BY <1>4, Sides
  <2>2. kept = ClientSide!Kept(Tracked(client_sent), client_sent + 1, SentPacketsBufferSize)
    BY Sides DEF kept
  <2>3. /\ client_sequence' = ClientSide!NumberOf(client_sent + 1)
        /\ ClientSide!KeepsIn(client_sent_packets', client_sent + 1, kept \cup {client_sent},
                              SentPacketsBufferSize)
        /\ ClientSide!FlagOf(client_sent_packets', client_sent) = FALSE
        /\ ClientSide!SameFlags(client_sent_packets', client_sent_packets, kept)
        /\ UNCHANGED <<client_received_packets, client_fragment_reassembly, client_acks>>
    BY <1>2, <1>4, <1>8, <1>9, <1>11, <2>1, <2>2, ClientSide!SendByIdentity
  <2> QED BY <2>3, Sides, SidesParts
<1>17. ClientSide!IInv'
  BY <1>2, <1>7, <1>8, <1>9, ClientSide!SendPacketInv
<1>18. UNCHANGED <<setting, server_sequence, server_sent_packets, server_received_packets,
                   server_fragment_reassembly, server_sent, server_delivered, client_delivered,
                   server_reported, client_reported>>
  BY <1>1 DEF server_vars
<1>19. OneWay(setting, Aged(to_server) \cup Carry(D), client_sequence', client_sent_packets',
              client_sent + 1, client_reported, server_received_packets,
              server_fragment_reassembly, server_delivered, server_sent, client_delivered)
  BY <1>1, <1>2, <1>3, <1>4, <1>5, <1>15, <1>16, SendAhead DEF kept
<1>20. OneWay(setting, Aged(to_client), server_sequence, server_sent_packets, server_sent,
              server_reported, client_received_packets, client_fragment_reassembly,
              client_delivered, client_sent + 1, server_delivered)
  BY <1>2, <1>3, <1>4, SendBehind
<1>21. ToClient'
  BY <1>1, <1>16, <1>18, <1>20, ToClientNext
<1>22. ToServer'
  BY <1>1, <1>18, <1>19, ToServerNext DEF D
<1>23. ServerSide!IInv'
  BY <1>1, <1>2, ServerRests
<1> QED BY <1>2, <1>17, <1>18, <1>21, <1>22, <1>23 DEF ConnInv

\* clear_acks of the client.
LEMMA ClientClearsStep ==
  ASSUME ConnInv, ClientClearsAcks
  PROVE  ConnInv'
<1>1. setting \in Settings /\ ServerSide!IInv /\ ClientSide!IInv /\ ToClient /\ ToServer
  BY DEF ConnInv
<1>2. /\ ClientSide!ClearAcks
      /\ UNCHANGED <<setting, server_vars, to_client, to_server, ghost_vars>>
  BY ClientClearsLink DEF ClientClearsAcks
<1>3. UNCHANGED <<setting, to_client, to_server, server_sequence, server_sent_packets,
                  server_received_packets, server_fragment_reassembly, client_sequence,
                  client_sent_packets, client_received_packets, client_fragment_reassembly,
                  server_sent, client_sent, server_delivered, client_delivered,
                  server_reported, client_reported>>
  BY <1>2 DEF ClientSide!ClearAcks, server_vars, ghost_vars
<1>4. ToClient'
  BY <1>1, <1>3, ToClientNext DEF ToClient
<1>5. ToServer'
  BY <1>1, <1>3, ToServerNext DEF ToServer
<1>6. ClientSide!IInv'
  <2>1. [ClientSide!Next]_(ClientSide!vars)
    BY <1>2 DEF ClientSide!Next
  <2>2. /\ None \notin ClientSide!SequenceNumber /\ None \notin ClientSide!Header
        /\ \A g \in ClientSide!Header : HeaderBytes(g) \in 0 .. MaxPacketHeaderBytes
        /\ AllDatagrams \subseteq ClientSide!Datagram
    BY ClientGiven, DataAssumption
  <2> QED BY <1>1, <2>1, <2>2, ClientGiven, ConfigAssumption, SequenceModulusAssumption,
             CounterModulusAssumption, ClientSide!NextInv
<1>7. ServerSide!IInv'
  BY <1>1, <1>2, ServerRests
<1> QED BY <1>1, <1>3, <1>4, <1>5, <1>6, <1>7 DEF ConnInv

-----------------------------------------------------------------------------
(* The start, and what the invariant says of either side *)

\* The direction to the server at the start.
LEMMA ToServerInit == Init => ToServer
<1> SUFFICES ASSUME Init PROVE ToServer
  OBVIOUS
<1>1. /\ setting \in Settings /\ to_server = {} /\ client_sent = 0 /\ server_sent = 0
      /\ server_delivered = [id \in Identities |-> 0]
      /\ client_reported = [id \in Identities |-> 0]
      /\ Client!Init /\ Server!Init
  BY DEF Init
<1>2. /\ client_sequence = 0 /\ client_sent_packets = Client!Sent!New
      /\ server_received_packets = Server!Received!New
      /\ server_fragment_reassembly = Server!Reassembly!New
  BY <1>1 DEF Client!Init, Server!Init
<1>3. NumberOf(0) = 0
  BY Halves DEF NumberOf
<1>4. InFlight(setting, to_server, client_sent, server_sent, client_delivered)
  BY <1>1 DEF InFlight
<1>5. /\ ClientSide!KeepsIn(client_sent_packets, 0, {}, SentPacketsBufferSize)
      /\ ClientSide!KeepsIn(server_received_packets, 0, {}, ReceivedPacketsBufferSize)
      /\ ClientSide!KeepsIn(server_fragment_reassembly, 0, {}, FragmentReassemblyBufferSize)
  BY <1>2, <1>3, Halves, Sides DEF ClientSide!KeepsIn, Client!Sent!New, Client!Sent!Index,
     Server!Received!New, Server!Received!Index, Server!Reassembly!New, Server!Reassembly!Index
<1>6. Accepted(server_delivered, 0) = {} /\ Tracked(0) = {}
  BY Halves DEF Accepted, Tracked
<1>7. Window(setting, 0, server_received_packets, server_delivered, client_sent)
  <2>1. 0 \in 0 .. 0 /\ 0 >= 0 - setting.max_outage
    BY <1>1, SettingData
  <2>2. /\ DOMAIN server_delivered = {Mangled} \cup DOMAIN setting.lengths
        /\ \A id \in DOMAIN server_delivered : server_delivered[id] = 0
    BY <1>1 DEF Identities
  <2>3. ClientSide!KeepsIn(server_received_packets, 0, Accepted(server_delivered, 0),
                           ReceivedPacketsBufferSize)
    BY <1>5, <1>6
  <2> QED BY <1>1, <2>1, <2>2, <2>3 DEF Window
<1>8. Reassembling(setting, 0, server_fragment_reassembly, to_server, server_sent,
                   client_delivered)
  BY <1>5 DEF Reassembling
<1>9. Sending(setting, client_sequence, client_sent_packets, client_sent, client_reported,
              server_delivered)
  BY <1>1, <1>2, <1>3, <1>5, <1>6 DEF Sending, Identities
<1> QED BY <1>4, <1>7, <1>8, <1>9 DEF ToServer, OneWay

\* The server's endpoint at the start.
LEMMA ServerSideInit == Init => ServerSide!IInv
<1>1. Init => ServerSide!Init
  BY ServerInitLink DEF Init
<1>2. /\ None \notin ServerSide!SequenceNumber /\ None \notin ServerSide!Header
      /\ \A g \in ServerSide!Header : HeaderBytes(g) \in 0 .. MaxPacketHeaderBytes
      /\ AllDatagrams \subseteq ServerSide!Datagram
  BY ServerGiven, DataAssumption
<1> QED BY <1>1, <1>2, ServerGiven, ConfigAssumption, SequenceModulusAssumption,
           CounterModulusAssumption, ServerSide!InitInv

\* The server's received window stands at the packet the client can compute from
\* its number, and remembers what was delivered.
LEMMA ServerWindow ==
  ASSUME WithinReach, ConnInv
  PROVE  \E n \in 0 .. client_sent :
           /\ Window(setting, n, server_received_packets, server_delivered, client_sent)
           /\ client_sent - 1 - Unheard(server_received_packets, client_sent) = n - 1
<1>1. setting \in Settings /\ ToServer
  BY DEF ConnInv
<1>2. PICK n : Window(setting, n, server_received_packets, server_delivered, client_sent)
  BY <1>1 DEF ToServer, OneWay
<1>3. client_sent \in Nat
  BY <1>1 DEF ToServer, OneWay, Sending
<1>4. /\ n \in 0 .. client_sent /\ n >= client_sent - setting.max_outage
      /\ server_received_packets.sequence = NumberOf(n)
  BY <1>2, Sides DEF Window, ClientSide!KeepsIn
<1>5. n \in client_sent - SequenceModulus + 1 .. client_sent
  BY <1>1, <1>3, <1>4, SettingData, Halves
<1>6. Unheard(server_received_packets, client_sent) = client_sent - n
  BY <1>3, <1>4, <1>5, UnheardIs
<1> QED BY <1>2, <1>3, <1>4, <1>6

\* The server's ack bits are exact.
LEMMA ServerBits ==
  ASSUME SizesDivide, WithinReach, ConnInv
  PROVE  BitsExact(Server!NextHeader.ack_bits, server_received_packets, server_delivered,
                   client_sent)
<1>1. PICK n \in 0 .. client_sent :
        /\ Window(setting, n, server_received_packets, server_delivered, client_sent)
        /\ client_sent - 1 - Unheard(server_received_packets, client_sent) = n - 1
  BY ServerWindow
<1> DEFINE ids == Accepted(server_delivered, n)
<1>2. ServerSide!KeepsIn(server_received_packets, n, ids, ReceivedPacketsBufferSize)
  BY <1>1, Sides DEF Window
<1>3. /\ None \notin ServerSide!SequenceNumber /\ None \notin ServerSide!Header
      /\ \A g \in ServerSide!Header : HeaderBytes(g) \in 0 .. MaxPacketHeaderBytes
      /\ AllDatagrams \subseteq ServerSide!Datagram /\ ServerSide!SizesDivide /\ n \in Int
  BY ServerGiven, DataAssumption
<1> HIDE DEF ids
<1>4. ServerSide!NextHeader
        = [sequence |-> server_sequence, ack |-> ServerSide!NumberOf(n - 1),
           ack_bits |-> {i \in 0 .. AckBits - 1 : n - 1 - i \in ids}]
  BY <1>2, <1>3, ServerGiven, ConfigAssumption, SequenceModulusAssumption,
     CounterModulusAssumption, ServerSide!HeaderByIdentity
<1>5. Server!NextHeader.ack_bits = {i \in 0 .. AckBits - 1 : n - 1 - i \in ids}
  BY <1>4, ServerSendsLink
<1>6. ASSUME NEW i \in 0 .. AckBits - 1, i < ReceivedPacketsBufferSize, n - 1 - i >= 0
      PROVE  n - 1 - i \in ids <=> server_delivered[n - 1 - i] > 0
  <2>1. n - 1 - i \in n - ReceivedPacketsBufferSize .. n - 1
    BY <1>6, Halves
  <2> QED BY <1>6, <2>1 DEF ids, Accepted
<1> QED BY <1>1, <1>5, <1>6 DEF BitsExact

\* The server judges a datagram by the identity of its packet.
LEMMA ServerJudges ==
  ASSUME SizesDivide, WithinReach, ConnInv, NEW m \in to_server
  PROVE  Judged(m, Server!Received!CanInsert(server_received_packets, SequenceOf(m.datagram)),
                Server!Received!Exists(server_received_packets, SequenceOf(m.datagram)),
                server_received_packets, server_delivered, client_sent)
<1> DEFINE id == PacketOf(m)
           content == ContentOf(setting, id)
           R == ReceivedPacketsBufferSize
<1>1. PICK n \in 0 .. client_sent :
        /\ Window(setting, n, server_received_packets, server_delivered, client_sent)
        /\ client_sent - 1 - Unheard(server_received_packets, client_sent) = n - 1
  BY ServerWindow
<1>2. /\ setting \in Settings /\ ServerSide!IInv
      /\ InFlight(setting, to_server, client_sent, server_sent, client_delivered)
      /\ client_sent \in Nat /\ 0 .. client_sent - 1 \subseteq DOMAIN setting.lengths
  BY DEF ConnInv, ToServer, OneWay, Sending
<1>3. /\ n >= client_sent - setting.max_outage /\ n \in Int
      /\ ServerSide!KeepsIn(server_received_packets, n, Accepted(server_delivered, n), R)
      /\ DOMAIN server_delivered = {Mangled} \cup DOMAIN setting.lengths
      /\ \A a \in DOMAIN server_delivered : server_delivered[a] > 0 => a \in 0 .. n - 1
  BY <1>1, Sides DEF Window
<1>4. /\ id \in 0 .. client_sent - 1 /\ ClientSide!InReach(id, n)
      /\ \E h \in HeadersOf(setting, id, to_server, server_sent, client_delivered) :
           ClientSide!PartOf(m.datagram, id, content, h)
  BY <1>2, <1>3, Arrival
<1>5. PICK h : /\ h \in ServerSide!Header /\ h.sequence = ServerSide!NumberOf(id)
               /\ ServerSide!PartOf(m.datagram, id, content, h)
  BY <1>4, Sides, SidesParts, ServerGiven DEF HeadersOf
<1>6. content \in Seq(Unit) /\ content # <<>> /\ id \in Int
  BY <1>2, <1>4, ContentData
<1>7. /\ None \notin ServerSide!SequenceNumber /\ None \notin ServerSide!Header
      /\ \A g \in ServerSide!Header : HeaderBytes(g) \in 0 .. MaxPacketHeaderBytes
      /\ AllDatagrams \subseteq ServerSide!Datagram /\ ServerSide!SizesDivide
  BY ServerGiven, DataAssumption
<1>8. ServerSide!InReach(id, n)
  BY <1>4, Sides
<1> HIDE DEF id, content
<1> USE ServerGiven, ConfigAssumption, SequenceModulusAssumption, CounterModulusAssumption
<1>9. SequenceOf(m.datagram) = ServerSide!NumberOf(id)
  <2>1. (IF m.datagram.type = "regular" THEN m.datagram.header.sequence
                                        ELSE m.datagram.sequence) = ServerSide!NumberOf(id)
    BY <1>5, <1>6, <1>7, ServerSide!PartData
  <2> QED BY <2>1 DEF SequenceOf
<1>10. server_received_packets \in ServerSide!Received!BufferOf({None})
  BY <1>2 DEF ServerSide!IInv, ServerSide!TypeOK
<1>11. /\ ServerSide!Received!CanInsert(server_received_packets, ServerSide!NumberOf(id))
            <=> (id >= n - R)
       /\ ServerSide!Received!Exists(server_received_packets, ServerSide!NumberOf(id))
            <=> id \in Accepted(server_delivered, n)
  BY <1>3, <1>7, <1>8, <1>10, ServerSide!JudgedByWindow
<1>12. /\ Server!Received!CanInsert(server_received_packets, SequenceOf(m.datagram))
            <=> (id >= n - R)
       /\ Server!Received!Exists(server_received_packets, SequenceOf(m.datagram))
            <=> id \in Accepted(server_delivered, n)
  BY <1>9, <1>11, ServerReceivedLink
<1>13. id \in DOMAIN server_delivered /\ id >= 0 /\ id \in Int
  BY <1>2, <1>3, <1>4
<1>14. id >= n - R => (id \in Accepted(server_delivered, n) <=> server_delivered[id] > 0)
  BY <1>3, <1>13, Halves DEF Accepted
<1>15. id > (n - 1) - R <=> (id >= n - R)
  BY <1>3, <1>13, Halves
<1> QED BY <1>1, <1>12, <1>14, <1>15 DEF Judged, id, PacketOf


\* The direction to the client at the start.
LEMMA ToClientInit == Init => ToClient
<1> SUFFICES ASSUME Init PROVE ToClient
  OBVIOUS
<1>1. /\ setting \in Settings /\ to_client = {} /\ server_sent = 0 /\ client_sent = 0
      /\ client_delivered = [id \in Identities |-> 0]
      /\ server_reported = [id \in Identities |-> 0]
      /\ Server!Init /\ Client!Init
  BY DEF Init
<1>2. /\ server_sequence = 0 /\ server_sent_packets = Server!Sent!New
      /\ client_received_packets = Client!Received!New
      /\ client_fragment_reassembly = Client!Reassembly!New
  BY <1>1 DEF Server!Init, Client!Init
<1>3. NumberOf(0) = 0
  BY Halves DEF NumberOf
<1>4. InFlight(setting, to_client, server_sent, client_sent, server_delivered)
  BY <1>1 DEF InFlight
<1>5. /\ ClientSide!KeepsIn(server_sent_packets, 0, {}, SentPacketsBufferSize)
      /\ ClientSide!KeepsIn(client_received_packets, 0, {}, ReceivedPacketsBufferSize)
      /\ ClientSide!KeepsIn(client_fragment_reassembly, 0, {}, FragmentReassemblyBufferSize)
  BY <1>2, <1>3, Halves, Sides DEF ClientSide!KeepsIn, Server!Sent!New, Server!Sent!Index,
     Client!Received!New, Client!Received!Index, Client!Reassembly!New, Client!Reassembly!Index
<1>6. Accepted(client_delivered, 0) = {} /\ Tracked(0) = {}
  BY Halves DEF Accepted, Tracked
<1>7. Window(setting, 0, client_received_packets, client_delivered, server_sent)
  <2>1. 0 \in 0 .. 0 /\ 0 >= 0 - setting.max_outage
    BY <1>1, SettingData
  <2>2. /\ DOMAIN client_delivered = {Mangled} \cup DOMAIN setting.lengths
        /\ \A id \in DOMAIN client_delivered : client_delivered[id] = 0
    BY <1>1 DEF Identities
  <2>3. ClientSide!KeepsIn(client_received_packets, 0, Accepted(client_delivered, 0),
                           ReceivedPacketsBufferSize)
    BY <1>5, <1>6
  <2> QED BY <1>1, <2>1, <2>2, <2>3 DEF Window
<1>8. Reassembling(setting, 0, client_fragment_reassembly, to_client, client_sent,
                   server_delivered)
  BY <1>5 DEF Reassembling
<1>9. Sending(setting, server_sequence, server_sent_packets, server_sent, server_reported,
              client_delivered)
  BY <1>1, <1>2, <1>3, <1>5, <1>6 DEF Sending, Identities
<1> QED BY <1>4, <1>7, <1>8, <1>9 DEF ToClient, OneWay

\* The client's endpoint at the start.
LEMMA ClientSideInit == Init => ClientSide!IInv
<1>1. Init => ClientSide!Init
  BY ClientInitLink DEF Init
<1>2. /\ None \notin ClientSide!SequenceNumber /\ None \notin ClientSide!Header
      /\ \A g \in ClientSide!Header : HeaderBytes(g) \in 0 .. MaxPacketHeaderBytes
      /\ AllDatagrams \subseteq ClientSide!Datagram
  BY ClientGiven, DataAssumption
<1> QED BY <1>1, <1>2, ClientGiven, ConfigAssumption, SequenceModulusAssumption,
           CounterModulusAssumption, ClientSide!InitInv

\* The client's received window stands at the packet the server can compute from
\* its number, and remembers what was delivered.
LEMMA ClientWindow ==
  ASSUME WithinReach, ConnInv
  PROVE  \E n \in 0 .. server_sent :
           /\ Window(setting, n, client_received_packets, client_delivered, server_sent)
           /\ server_sent - 1 - Unheard(client_received_packets, server_sent) = n - 1
<1>1. setting \in Settings /\ ToClient
  BY DEF ConnInv
<1>2. PICK n : Window(setting, n, client_received_packets, client_delivered, server_sent)
  BY <1>1 DEF ToClient, OneWay
<1>3. server_sent \in Nat
  BY <1>1 DEF ToClient, OneWay, Sending
<1>4. /\ n \in 0 .. server_sent /\ n >= server_sent - setting.max_outage
      /\ client_received_packets.sequence = NumberOf(n)
  BY <1>2, Sides DEF Window, ClientSide!KeepsIn
<1>5. n \in server_sent - SequenceModulus + 1 .. server_sent
  BY <1>1, <1>3, <1>4, SettingData, Halves
<1>6. Unheard(client_received_packets, server_sent) = server_sent - n
  BY <1>3, <1>4, <1>5, UnheardIs
<1> QED BY <1>2, <1>3, <1>4, <1>6

\* The client's ack bits are exact.
LEMMA ClientBits ==
  ASSUME SizesDivide, WithinReach, ConnInv
  PROVE  BitsExact(Client!NextHeader.ack_bits, client_received_packets, client_delivered,
                   server_sent)
<1>1. PICK n \in 0 .. server_sent :
        /\ Window(setting, n, client_received_packets, client_delivered, server_sent)
        /\ server_sent - 1 - Unheard(client_received_packets, server_sent) = n - 1
  BY ClientWindow
<1> DEFINE ids == Accepted(client_delivered, n)
<1>2. ClientSide!KeepsIn(client_received_packets, n, ids, ReceivedPacketsBufferSize)
  BY <1>1, Sides DEF Window
<1>3. /\ None \notin ClientSide!SequenceNumber /\ None \notin ClientSide!Header
      /\ \A g \in ClientSide!Header : HeaderBytes(g) \in 0 .. MaxPacketHeaderBytes
      /\ AllDatagrams \subseteq ClientSide!Datagram /\ ClientSide!SizesDivide /\ n \in Int
  BY ClientGiven, DataAssumption
<1> HIDE DEF ids
<1>4. ClientSide!NextHeader
        = [sequence |-> client_sequence, ack |-> ClientSide!NumberOf(n - 1),
           ack_bits |-> {i \in 0 .. AckBits - 1 : n - 1 - i \in ids}]
  BY <1>2, <1>3, ClientGiven, ConfigAssumption, SequenceModulusAssumption,
     CounterModulusAssumption, ClientSide!HeaderByIdentity
<1>5. Client!NextHeader.ack_bits = {i \in 0 .. AckBits - 1 : n - 1 - i \in ids}
  BY <1>4, ClientSendsLink
<1>6. ASSUME NEW i \in 0 .. AckBits - 1, i < ReceivedPacketsBufferSize, n - 1 - i >= 0
      PROVE  n - 1 - i \in ids <=> client_delivered[n - 1 - i] > 0
  <2>1. n - 1 - i \in n - ReceivedPacketsBufferSize .. n - 1
    BY <1>6, Halves
  <2> QED BY <1>6, <2>1 DEF ids, Accepted
<1> QED BY <1>1, <1>5, <1>6 DEF BitsExact

\* The client judges a datagram by the identity of its packet.
LEMMA ClientJudges ==
  ASSUME SizesDivide, WithinReach, ConnInv, NEW m \in to_client
  PROVE  Judged(m, Client!Received!CanInsert(client_received_packets, SequenceOf(m.datagram)),
                Client!Received!Exists(client_received_packets, SequenceOf(m.datagram)),
                client_received_packets, client_delivered, server_sent)
<1> DEFINE id == PacketOf(m)
           content == ContentOf(setting, id)
           R == ReceivedPacketsBufferSize
<1>1. PICK n \in 0 .. server_sent :
        /\ Window(setting, n, client_received_packets, client_delivered, server_sent)
        /\ server_sent - 1 - Unheard(client_received_packets, server_sent) = n - 1
  BY ClientWindow
<1>2. /\ setting \in Settings /\ ClientSide!IInv
      /\ InFlight(setting, to_client, server_sent, client_sent, server_delivered)
      /\ server_sent \in Nat /\ 0 .. server_sent - 1 \subseteq DOMAIN setting.lengths
  BY DEF ConnInv, ToClient, OneWay, Sending
<1>3. /\ n >= server_sent - setting.max_outage /\ n \in Int
      /\ ClientSide!KeepsIn(client_received_packets, n, Accepted(client_delivered, n), R)
      /\ DOMAIN client_delivered = {Mangled} \cup DOMAIN setting.lengths
      /\ \A a \in DOMAIN client_delivered : client_delivered[a] > 0 => a \in 0 .. n - 1
  BY <1>1, Sides DEF Window
<1>4. /\ id \in 0 .. server_sent - 1 /\ ClientSide!InReach(id, n)
      /\ \E h \in HeadersOf(setting, id, to_client, client_sent, server_delivered) :
           ClientSide!PartOf(m.datagram, id, content, h)
  BY <1>2, <1>3, Arrival
<1>5. PICK h : /\ h \in ClientSide!Header /\ h.sequence = ClientSide!NumberOf(id)
               /\ ClientSide!PartOf(m.datagram, id, content, h)
  BY <1>4, Sides, SidesParts, ClientGiven DEF HeadersOf
<1>6. content \in Seq(Unit) /\ content # <<>> /\ id \in Int
  BY <1>2, <1>4, ContentData
<1>7. /\ None \notin ClientSide!SequenceNumber /\ None \notin ClientSide!Header
      /\ \A g \in ClientSide!Header : HeaderBytes(g) \in 0 .. MaxPacketHeaderBytes
      /\ AllDatagrams \subseteq ClientSide!Datagram /\ ClientSide!SizesDivide
  BY ClientGiven, DataAssumption
<1>8. ClientSide!InReach(id, n)
  BY <1>4, Sides
<1> HIDE DEF id, content
<1> USE ClientGiven, ConfigAssumption, SequenceModulusAssumption, CounterModulusAssumption
<1>9. SequenceOf(m.datagram) = ClientSide!NumberOf(id)
  <2>1. (IF m.datagram.type = "regular" THEN m.datagram.header.sequence
                                        ELSE m.datagram.sequence) = ClientSide!NumberOf(id)
    BY <1>5, <1>6, <1>7, ClientSide!PartData
  <2> QED BY <2>1 DEF SequenceOf
<1>10. client_received_packets \in ClientSide!Received!BufferOf({None})
  BY <1>2 DEF ClientSide!IInv, ClientSide!TypeOK
<1>11. /\ ClientSide!Received!CanInsert(client_received_packets, ClientSide!NumberOf(id))
            <=> (id >= n - R)
       /\ ClientSide!Received!Exists(client_received_packets, ClientSide!NumberOf(id))
            <=> id \in Accepted(client_delivered, n)
  BY <1>3, <1>7, <1>8, <1>10, ClientSide!JudgedByWindow
<1>12. /\ Client!Received!CanInsert(client_received_packets, SequenceOf(m.datagram))
            <=> (id >= n - R)
       /\ Client!Received!Exists(client_received_packets, SequenceOf(m.datagram))
            <=> id \in Accepted(client_delivered, n)
  BY <1>9, <1>11, ClientReceivedLink
<1>13. id \in DOMAIN client_delivered /\ id >= 0 /\ id \in Int
  BY <1>2, <1>3, <1>4
<1>14. id >= n - R => (id \in Accepted(client_delivered, n) <=> client_delivered[id] > 0)
  BY <1>3, <1>13, Halves DEF Accepted
<1>15. id > (n - 1) - R <=> (id >= n - R)
  BY <1>3, <1>13, Halves
<1> QED BY <1>1, <1>12, <1>14, <1>15 DEF Judged, id, PacketOf

-----------------------------------------------------------------------------
(* The theorems *)

\* Every reachable state of two connected endpoints satisfies ConnInv: in both
\* directions the datagrams in flight, the windows and the sent packets agree on
\* which packet each number means.
THEOREM DirectionsHold ==
  ASSUME SizesDivide, WithinReach
  PROVE  Spec => []ConnInv
<1>1. Init => ConnInv
  BY ToServerInit, ToClientInit, ClientSideInit, ServerSideInit DEF Init, ConnInv
<1>2. ConnInv /\ [Next]_vars => ConnInv'
  <2> SUFFICES ASSUME ConnInv, [Next]_vars PROVE ConnInv'
    OBVIOUS
  <2>1. CASE ClientSends
    BY <2>1, ClientSendsStep
  <2>2. CASE ServerSends
    BY <2>2, ServerSendsStep
  <2>3. CASE ServerReceives
    BY <2>3, ServerReceivesStep
  <2>4. CASE ClientReceives
    BY <2>4, ClientReceivesStep
  <2>5. CASE ClientClearsAcks
    BY <2>5, ClientClearsStep
  <2>6. CASE ServerClearsAcks
    BY <2>6, ServerClearsStep
  <2>7. CASE UNCHANGED vars
    <3>1. setting \in Settings /\ ClientSide!IInv /\ ServerSide!IInv /\ ToServer /\ ToClient
      BY DEF ConnInv
    <3>2. UNCHANGED <<setting, to_server, to_client, client_sequence, client_sent_packets,
                      client_received_packets, client_fragment_reassembly, server_sequence,
                      server_sent_packets, server_received_packets, server_fragment_reassembly,
                      client_sent, server_sent, client_delivered, server_delivered,
                      client_reported, server_reported>>
      BY <2>7 DEF vars, client_vars, server_vars, ghost_vars
    <3>3. ToServer'
      BY <3>1, <3>2, ToServerNext DEF ToServer
    <3>4. ToClient'
      BY <3>1, <3>2, ToClientNext DEF ToClient
    <3>5. ClientSide!IInv' /\ ServerSide!IInv'
      BY <2>7, <3>1, ClientRests, ServerRests DEF vars
    <3> QED BY <3>1, <3>2, <3>3, <3>4, <3>5 DEF ConnInv
  <2> QED BY <2>1, <2>2, <2>3, <2>4, <2>5, <2>6, <2>7 DEF Next
<1> QED BY <1>1, <1>2, PTL DEF Spec

\* What was delivered to either side, and what it reported.
LEMMA Deliveries ==
  ASSUME ConnInv
  PROVE  /\ \A id \in Identities :
              /\ client_delivered[id] \in 0 .. 1 /\ server_delivered[id] \in 0 .. 1
              /\ client_reported[id] \in 0 .. 1 /\ server_reported[id] \in 0 .. 1
              /\ client_reported[id] > 0 =>
                   id \in 0 .. client_sent - 1 /\ server_delivered[id] > 0
              /\ server_reported[id] > 0 =>
                   id \in 0 .. server_sent - 1 /\ client_delivered[id] > 0
         /\ client_delivered[Mangled] = 0 /\ server_delivered[Mangled] = 0
<1>1. ToServer /\ ToClient
  BY DEF ConnInv
<1>2. /\ Sending(setting, client_sequence, client_sent_packets, client_sent, client_reported,
                 server_delivered)
      /\ Sending(setting, server_sequence, server_sent_packets, server_sent, server_reported,
                 client_delivered)
  BY <1>1 DEF ToServer, ToClient, OneWay
<1>3. PICK n : Window(setting, n, server_received_packets, server_delivered, client_sent)
  BY <1>1 DEF ToServer, OneWay
<1>4. PICK p : Window(setting, p, client_received_packets, client_delivered, server_sent)
  BY <1>1 DEF ToClient, OneWay
<1>5. \A id \in Identities :
        /\ server_delivered[id] \in 0 .. 1
        /\ server_delivered[id] > 0 => id \in 0 .. n - 1
  BY <1>3 DEF Window, Identities
<1>6. \A id \in Identities :
        /\ client_delivered[id] \in 0 .. 1
        /\ client_delivered[id] > 0 => id \in 0 .. p - 1
  BY <1>4 DEF Window, Identities
<1>7. Mangled \in Identities /\ \A k \in Int : Mangled \notin 0 .. k
  BY DEF Mangled, Identities
<1>8. client_delivered[Mangled] = 0 /\ server_delivered[Mangled] = 0
  <2>1. n \in Int /\ p \in Int
    <3>1. client_sent \in Nat /\ server_sent \in Nat
      BY <1>2 DEF Sending
    <3> QED BY <1>3, <1>4, <3>1 DEF Window
  <2> QED BY <1>5, <1>6, <1>7, <2>1
<1> QED BY <1>2, <1>5, <1>6, <1>8 DEF Sending, Identities

\* No packet is delivered twice, whatever the network duplicates and however
\* often the 16-bit numbers wrap.
THEOREM DeliveredOnce ==
  ASSUME SizesDivide, WithinReach
  PROVE  Spec => []NoDuplicateDelivery
<1>1. ConnInv => NoDuplicateDelivery
  BY Deliveries DEF NoDuplicateDelivery
<1> QED BY <1>1, DirectionsHold, PTL

\* The closure is only ever given a payload as it was sent, rebuilt from the
\* fragments of that packet alone.
THEOREM DeliveredIntact ==
  ASSUME SizesDivide, WithinReach
  PROVE  Spec => []IntactDelivery
<1>1. ConnInv => IntactDelivery
  BY Deliveries DEF IntactDelivery
<1> QED BY <1>1, DirectionsHold, PTL

\* A packet reported as acked was sent by this side and accepted by the other.
THEOREM AcksAreTrue ==
  ASSUME SizesDivide, WithinReach
  PROVE  Spec => []AckTruthful
<1>1. ConnInv => AckTruthful
  BY Deliveries DEF AckTruthful
<1> QED BY <1>1, DirectionsHold, PTL

\* No packet is reported as acked twice.
THEOREM AcksOnce ==
  ASSUME SizesDivide, WithinReach
  PROVE  Spec => []AckReportedOnce
<1>1. ConnInv => AckReportedOnce
  BY Deliveries DEF AckReportedOnce
<1> QED BY <1>1, DirectionsHold, PTL

\* The ack bits of the next header of either side say exactly which of the last
\* packets it accepted.
THEOREM AckBitsAreExact ==
  ASSUME SizesDivide, WithinReach
  PROVE  Spec => []AckBitsExact
<1>1. ConnInv => AckBitsExact
  BY ServerBits, ClientBits DEF AckBitsExact
<1> QED BY <1>1, DirectionsHold, PTL

\* Either side refuses a datagram as stale exactly when its window has passed the
\* packet, and as a duplicate exactly when it accepted it.
THEOREM JudgementsAreByIdentity ==
  ASSUME SizesDivide, WithinReach
  PROVE  Spec => []JudgedByIdentity
<1>1. ConnInv => JudgedByIdentity
  BY ServerJudges, ClientJudges DEF JudgedByIdentity
<1> QED BY <1>1, DirectionsHold, PTL
=============================================================================
