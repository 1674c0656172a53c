# A TLA+ model of reliable

`reliable` is a packet-level acknowledgement layer over UDP: it numbers packets,
tells the sender which of them were received, splits large packets into fragments
and rebuilds them, and drops duplicates. It does not retransmit, order or
encrypt. The repository is its Rust port together with the C implementation it
is a port of (`wire-compat/c/reliable.c`), which the port is tested against. This
directory holds a TLA+ model of both, the TLC configurations that
check the model on small instances, and theorems about it that TLAPS checks for
every configuration.

Run things from this directory, for instance

    tlc -workers 2 -config Connection.cfg MCConnection
    tlc -workers 2 -config CPair.cfg MCCPair
    tlapm EndpointProofs.tla

`PROJECT.json` lists the runs, which source lines each definition stands for, one
mutant per property, the hazards the properties are for, the findings and the
theorems.

## The system

Everything is single-threaded: an `Endpoint` has no thread, no timer and no I/O.
The application owns the sockets. It calls methods of the endpoint, all of which
take `&mut self`, so each call is one atomic step; the difficulty is in what the
network does between calls, and in the 16-bit sequence numbers that wrap. In C
nothing enforces that a call is one step: the callback that processes a packet
runs in the middle of `reliable_endpoint_receive_packet` and may call the
endpoint again.

| component | source | state | operations |
|---|---|---|---|
| sequence number arithmetic | `src/lib.rs` | none | `sequence_greater_than`, `sequence_less_than` |
| sequence buffer | `src/sequence_buffer.rs` | `sequence`, `entry_sequence`, `entries`: a ring of slots | `new`, `reset`, `can_insert`, `insert`, `insert_advance_first`, `advance`, `remove`, `exists`, `find`, `find_mut`, `generate_ack_bits` |
| header codec | `src/packet.rs` | none | `write_packet_header`, `read_packet_header`, `read_fragment_header` |
| endpoint: sending | `src/endpoint.rs` | `sequence`, `sent_packets` | `send_packet`, `next_packet_sequence` |
| endpoint: receiving | `src/endpoint.rs` | `received_packets`, and through acks `sent_packets` and `acks` | `receive_packet` |
| endpoint: reassembly | `src/endpoint.rs` | `fragment_reassembly` | `store_fragment` and the fragment branch of `receive_packet` |
| endpoint: acks | `src/endpoint.rs` | `acks` | `acks`, `clear_acks`, `drain_acks` |
| endpoint: reset, counters | `src/endpoint.rs` | all | `reset`, `counters` |
| endpoint: statistics | `src/endpoint.rs` | `rtt`, jitter, loss, bandwidth (f32) | `update` and the getters |
| C: sequence buffer | `wire-compat/c/reliable.c` | as above, with `entry_data` that outlives an entry | every `reliable_sequence_buffer_*`, half of them with a cleanup function |
| C: endpoint | `wire-compat/c/reliable.c` | as above, and the memory of packets under reassembly | `reliable_endpoint_send_packet`, `_receive_packet`, `_clear_acks`, `_reset`, `_update` |
| C: creation | `wire-compat/c/reliable.c` | thirteen allocations | `reliable_config_valid`, `reliable_endpoint_create`, `_destroy` |
| C: codec | `wire-compat/c/reliable.c` | none | `reliable_write_packet_header`, `_read_packet_header`, `_read_fragment_header`, `_store_fragment_data` |
| C: test pair | `wire-compat/c/reliable.c` | `drop`, a kept datagram | the transmit and process functions of the tests |

How they interact. `send_packet` reads the ack and the 32 ack bits out of
`received_packets`, opens an entry in `sent_packets`, and hands one regular
datagram or several fragments to a `transmit` closure. `receive_packet` gates a
datagram on its size and reads its header. A regular packet that is not stale and
not a duplicate goes to the application's `process` closure; if the closure
accepts it, it is entered in `received_packets`, the reassembly window is
advanced to it, and the acks of its header are looked up in `sent_packets` and
appended to `acks`. A fragment is stored under its packet's sequence number in
`fragment_reassembly`; the first one moves both windows, and the last missing one
makes `receive_packet_internal` call itself with the rebuilt packet and then
remove the entry. The two endpoints of a connection share nothing but datagrams.

What is hard:

* two windows (`received_packets`, `fragment_reassembly`) that must stand at the
  same number while three code paths move them, with two insert variants that
  order the stale check and the advance differently;
* a comparison that is lopsided at distance 32768, slots chosen by `s % size`, and
  eviction that must unroll the wrap-around;
* acks that arrive late, repeatedly and out of order, with a bounded `acks` list;
* fragments lost, repeated, reordered, contradictory, or evicted half way, and a
  recursive call between storing the last one and removing the entry;
* an application that rejects a packet after it was rebuilt;
* long outages, and a reset on one side only;
* in C: memory of packets under reassembly that eviction, completion, reset and
  destroy each have to free exactly once, allocations that fail half way, slots that
  keep the data of their last packet, calls from inside a callback, and lengths
  that must fit an `int`.

What makes each part correct:

* *sequence buffer*: it remembers exactly the newest `size` identities, though it
  sees only 16 bits of them;
* *sending*: a send that passes its size check cannot panic;
* *receiving*: no packet is processed twice, no fresh packet is refused;
* *reassembly*: what is processed is what was sent, byte for byte;
* *acks*: an ack means the far application accepted that packet; each packet is
  reported at most once; a full `acks` list loses nothing for good;
* *codec*: what is read is what was written, wherever the number space wraps, and
  a payload is never misplaced;
* *statistics*: each figure is taken over the packets it is meant to be taken over;
* *the C implementation*: it owns its memory exactly, no length overflows, no copy leaves its
  buffer, and it takes no step and sends no byte that the port would not;
* *a pair that is connected again*: packets are accepted again, acks that are due are
  reported, memory is given back.

## The modules

| module | models | role |
|---|---|---|
| `SequenceNumbers` | `sequence_greater_than`, `wrapping_add`, `wrapping_sub` | modulus as a constant |
| `SequenceBuffer` | every method of `SequenceBuffer<T>` | operators on a record with the struct's three fields |
| `SlidingWindow` | - | abstract specification: a window over unbounded identities |
| `WindowBuffer` | one buffer under all calls its users can make | refines `SlidingWindow` |
| `Counters` | `Counters` | the eleven counters, modulo a constant |
| `Endpoint` | `Endpoint`: one action per method, per outcome of `receive_packet` | the core |
| `EndpointProperties` | - | invariants and action properties of one endpoint |
| `MCEndpoint` | the datagrams a hostile network can deliver | model-checking instance |
| `Connection` | two endpoints and the network between them | composes two instances of `Endpoint` |
| `MCConnection` | lengths, answers and how many packets | model-checking instance |
| `PacketHeader` | `packet.rs`, byte by byte at the real widths | operators |
| `MCPacketHeader` | datagrams written, then damaged | what may be written and how it is damaged, from sets of values |
| `CSequenceBuffer` | `reliable_sequence_buffer_*` | operators on a record with the struct's fields |
| `CEndpoint` | `reliable_endpoint_t`: one action per function and outcome | the core of the C side |
| `CEndpointProperties` | - | `Ownership`, `WindowsTogether`, `NeverRestarted` |
| `CPort` | the C endpoint's calls, with what each was given | the map to `Endpoint`'s state; `ImplementsPort`, `SameTranscript`, `StillReceivable` |
| `MCCEndpoint` | datagrams of regular and of fragmented packets | sets to choose from |
| `MCCPort` | - | model-checking instance |
| `CCallbacks` | calls made by the process callback, nested | extends `CEndpoint` by the stack of calls |
| `CCallbackProperties` | - | `PayloadStays` |
| `MCCCallbacks` | - | model-checking instance |
| `CPair` | two C endpoints joined by their transmit functions | composes two instances of `CEndpoint`; fairness |
| `CPairProperties`, `MCCPair` | - | liveness; model-checking instances |
| `CStatistics` | `reliable_endpoint_update` and what sending and receiving leave for it | one set of figures |
| `MCCStatistics` | - | packets by identity, as a log to compare with |
| `CLifecycle` | `reliable_endpoint_create`, `_destroy` | one action per allocation |
| `CConfig` | `reliable_config_valid` and every length computed after it | `INT_MAX` as a constant |
| `CConfigProperties` | the checks of `Endpoint::new` | properties |
| `CCreate` | an endpoint from create to destroy | composes `CConfig` and `CLifecycle` |
| `MCCCreate` | configurations at every edge | model-checking instance |
| `CPacketHeader` | the C codec, byte by byte at the real widths | operators |
| `MCCPacketHeader` | - | extends `MCPacketHeader`: both codecs on the same datagrams |
| `SequenceBufferProofs` | - | lemmas: what each buffer operation returns, of slots and of identities |
| `WindowBufferProofs` | - | the refinement of `SlidingWindow` |
| `EndpointProofs` | - | theorems on `Endpoint`; lemmas: what a step of it does with a real sender's datagrams |
| `DirectionProofs` | - | lemmas: what becomes of one direction of `Connection` |
| `ConnectionProofs` | - | theorems on `Connection` |
| `CCreateProofs` | - | theorems on `CConfig` and `CCreate` |
| `CEndpointProofs` | - | theorems on `CEndpoint`, `CCallbacks` and `CPort` |
| `PacketHeaderProofs` | - | theorems on both codecs |

Correspondence of state. The variables of `Endpoint` have the names of the
struct's fields. A buffer is `[sequence, entry_sequence, entries]`;
`entry_sequence[i]` is `None` for `0xFFFF_FFFF`. The entry of a sent packet is its
`acked` flag. The entry of a received packet holds nothing, since its time and
size only feed the statistics. A reassembly entry keeps the fields of
`FragmentReassemblyData`, with the header kept as the record it decodes to.

Correspondence of actions. `SendPacket` and `SendTooLarge` are the two ways
`send_packet` returns; its `expect` and `assert!` are guards, and
`SendNeverPanics` says that they always hold. `ReceivePacket` is the disjunction
of the ways `receive_packet_internal` returns. `HandleRegular` is its regular
branch; it serves the datagram from the socket and the recursive call alike, and
in the second case the caller's removal of the entry and its count belong to the
same step. The `process` closure is a parameter of the action: `"unused"` in
steps in which the code does not call it, `"accepted"` or `"rejected"` otherwise.
`ClearAcks` and `Reset` are the methods of those names.

The C side. `endpoint` is one record with the fields of the struct; `heap` maps
each of a few blocks to `Free` or to what the block of a packet under
reassembly holds, and `packet_data` is one of them or `NULL`. A failed
allocation is always among the choices of `Allocations`.
`Corrupt` is what the heap becomes when freed memory is used or freed; `Ownership`
excludes it. An emptied slot keeps its data, which a newly claimed slot shows until
it is written. `CPort` maps this state to the variables of `Endpoint` (an empty
slot to the default of its type, a block to the vector it holds), and
`ImplementsPort` says that every step is, under that map, the port's step for the
same call with the same arguments, but for a fragment that was dropped for want of
memory, after which the port would still have its entry. `CCallbacks` cuts `receive_packet` at its callback: `calls` is
the stack of packets being processed, and while it is not empty the callback
may make the calls in `callback_may`. `CPair` keeps the datagrams of the send in
progress in `transmitting`, since the C tests hand each to the other endpoint before
`send_packet` returns. `CStatistics` is apart from `CEndpoint` because the two share
nothing but the tracked packets; averages are fractions, a deviation is its
square, and smoothing moves a value anywhere between where it is and its target, as
some factor from 0 to 1 would. `CConfig` keeps the set of lengths the last call
computed as `int`, and where its copies ended.

Abstractions. In `Endpoint` a payload is a short sequence of opaque bytes, a header
is a record, and writing then reading a header is taken to be exact;
`PacketHeader` shows separately, at the real widths, that it is (theorem `RoundTrips`). `PacketHeader`
also shows that the canonical check on fragment 0, which `Endpoint` folds into
"the header is readable", is what keeps the payload in its place. Sequence
numbers are modulo a constant, 6 or 8 in the runs and 65536 in the code; the
theorems hold for every even modulus.

## The runs

Runs that pass:

* **WindowBuffer** (`WindowBuffer.cfg`) asks whether one sequence buffer is a sliding
  window. `ImplementsSlidingWindow` is a refinement of `SlidingWindow` (a remembered
  packet is never evicted inside the window, nothing survives outside it),
  `QueriesAgree` says that `can_insert`, `exists`, the advance test and
  `generate_ack_bits` answer about identities what they compute about numbers. The
  identities go more than twice round the number space. The callers' reach is
  exact: one identity further in either direction and the run fails. For `insert`
  it is `next-N-HALF+1 .. next+HALF-N-1`, for `insert_advance_first` and `advance`
  `next-HALF .. next+HALF-2` (`N` the size, `HALF` half the number space).
* **MCEndpoint** puts one endpoint against every order and repetition of a set of
  datagrams: every sequence number as a regular packet with acks that name every
  packet, both fragments of every packet, single-fragment packets, oversized
  rebuilt packets, and one datagram for every check that refuses. There is no
  bound on the length of a behaviour: the state space is finite because numbers
  wrap, and counters are modulo 1. One ack fits the list, so the full list is
  the common case. It checks, and all of it is also proved (below), besides types,
  lock step and reassembly, that every occupied slot is inside its window (`EntriesStayInWindow`), that a packet is
  flagged as acked in exactly the step that reports it (`FlaggedIffReported`), that a
  refused packet's acks do not count (`AcksOnlyWithAcceptedPacket`) and that nothing a
  network can send makes the endpoint forget a received packet
  (`ReceivedIsRemembered`). `FragmentReassemblyBufferSize` is 2 and not 1 because with a
  single slot `EntriesStayInWindow` is false: at distance exactly half the number
  space `insert_advance_first` can store without advancing. It is false for a single
  received slot too, and for sizes that do not divide the number space.
* **Connection** runs two endpoints over a network that loses, duplicates and
  reorders. Its setting is chosen at the start. In two the client sends regular
  packets, one more than there are numbers: one lets the network exchange the acks of
  two server packets, the other lets the windows drift as far apart as is right
  (`HALF - N`). In the third every other packet is in
  two fragments, the last short, and closures reject, so that packets are half
  received, evicted, rejected and delivered again by the network. `NoDuplicateDelivery`, `IntactDelivery`,
  `AckTruthful`, `AckReportedOnce`, `AckBitsExact` (the ack bits an endpoint would
  send name exactly the packets it accepted), and `JudgedByIdentity` (every datagram in
  flight is refused as stale or duplicate exactly when it is).
* **MCPacketHeader** writes headers whose numbers sit at 0, 255, 256, 257 and 65535,
  both forms of the ack, every set of elided ack bytes, fragments full and short, and damages the datagram:
  a byte overwritten with one of seven values or the end cut off. `RoundTrip`,
  `CanonicalIsShortest` and `PayloadPlaced` are about the port's codec; `SameBytes` and
  `SameReading` compare it with the C codec, and `StaysInside` says that the C code reads
  nothing beyond the end of a datagram and copies each fragment into its room.
* **CEndpoint** puts one C endpoint against datagrams of fragmented or of
  regular packets, in any order and number, with sends, clears, resets and failing
  allocations. `ImplementsPort`: the refinement of `Endpoint` above, call by call,
  counters included. `StillReceivable`: a fragment dropped because its
  allocation failed, and a packet that was rejected, can come again; a packet that could be received still
  can be until it is accepted, or another packet or a reset makes it too old. The counters are modulo 3, so that a step
  that counts one, none or two is told apart; `VIEW WithoutCounters` leaves them, and the
  name of the last call, out of the state, which is sound as no guard and no other
  field depends on them: TLC compares their change in every step all the same.
* **CCallbacks** lets the callback send, clear, reset and receive, two calls deep.
  `Ownership`: every packet under reassembly has a live block of its own and every block
  such a packet. `WindowsTogether`. `PayloadStays`: with a callback that only sends
  and clears, the packet it was given stays in place until it returns. `NeverRestarted`: no
  packet that was received is under reassembly again, if its number is never that of a packet in one
  piece; of the run's three numbers this says something of 2, which only comes in fragments.
* **CPair** joins two C endpoints. `Recovers`: once
  datagrams get through for good, packets are accepted again and again, however far
  an outage carried the numbers. `DueAcksAreReported`: an ack that the peer's header
  would carry is reported, though the ack array was full before, unless its packet
  leaves a window first. `ReassemblyEnds`: no packet under reassembly holds memory
  for ever, though only regular packets follow. Who sends what is chosen at the start.
* **CStatistics** logs packets by identity: the numbers that
  `update` samples must name exactly the oldest half of the window
  (`SamplesAreOldestHalf`), with loss, reordering, fragments, resets and the
  wrap-around. `RttFromThisLife`: nothing measured before a reset and nothing
  negative is in the history or in the smoothed rtt; `ViewsAgree`: the rtt and jitter
  figures, each of its own pass, agree with each other. One setting sends, one
  receives, one measures round trips.
* **CCreate** creates an endpoint with a configuration at, inside and beyond every edge that a check
  mentions, fails any subset of the thirteen allocations, and makes every operation with packets at those
  edges: `IntsFit`, `CopiesFit`, `PortAcceptsWhatCDoes`, `NothingRetained` and `FreedOnce`, all of
  them also proved. `INT_MAX` is 2^20 - 1, the rest real.

Fairness. Only `CPair` assumes any, and only what the loops of the C tests
do (`test_sequence_wrap`): a `send_packet` in progress hands over its next datagram (weak
fairness of `Returns`), and in every turn of the loop both endpoints send, where the
setting gives them something to send, and the sender's acks are cleared (strong fairness, since these
calls start only when no other is in progress). Nobody need ever clear the receiver's acks or replay a
datagram. Nothing is assumed of `drop` but, in the properties, that it is off from some time on;
allocations may fail for ever. `Returns` names the part of `Transmit` that no other action shares
because TLC then need not evaluate whether the whole of `Transmit` is enabled.

Bounds. In the settings of `Connection`, `client_max` and `server_max` are how many packets each side sends;
nine client packets over eight numbers reuse a number, which is when a stale slot
or a late ack could be mistaken. `max_age`: the network forgets a datagram once
that many further packets were sent by either side; real networks hold a packet for
seconds, in which an endpoint sends a small part of 65536 packets.
`max_outage`: an application stops sending while the other side has not heard of
its last so many packets. The window logic is right exactly while that is at most
`HALF - N`. `MaxNext`
(`WindowBuffer`) bounds the identities, `MaxDamage` the damage. Windows of two
slots are the smallest in which a packet can be inside the window and not the
newest. On the C side nothing bounds the length of a behaviour but `max_sent` and `MaxAhead` in the
statistics, where packets are logged by identity. `MaxDepth` is how many
callbacks are inside each other: two is the least at which a callback's packet is
touched by another's. There are as many blocks as reassembly slots, and any allocation may fail.
`Followed` (`CPair`) names the numbers whose acks and memory the liveness properties follow: 0 and
2, which share a slot, are sent in every setting and in one of them fragmented.

Runs that TLC must find violated, each a disagreement between the code and what
its documentation says (quoted in `PROJECT.json`):

* **NonDividingWindow**: with a `received_packets_buffer_size` that does not divide 65536 the
  receiver forgets a packet at the wrap-around and processes a duplicate.
* **BitZero**: after one fragment of a newer packet the header's `ack` names a packet that
  was not received, with bit 0 clear, which `STANDARD.md` says does not happen.
* **CReceivedLength**: the length stored with a received packet counts the packet header,
  which the configuration check does not, and overflows at the edge. The port checks for it.

Limits that the models show when a bound is lifted, and no run repeats:

* `Endpoint::new` accepts a `sent_packets_buffer_size` of 32768 or more, and then the very first
  `send_packet` panics in its `expect`: `MCEndpoint.cfg` with `SentPacketsBufferSize = 4` refutes
  `SendNeverPanics`. `SendSafe` below has the exact hypothesis.
* When a sender uses up the number space while the far end hears nothing, an ack reports a
  packet that was lost: `Connection.cfg` with a `max_outage` of `SequenceModulus` refutes `JudgedByIdentity` and `AckTruthful`.
  A reset of one side only has the same effect, with acks of its former life.
* Regular packets are accepted with headers that are not the encoding `STANDARD.md` calls
  legal; `CanonicalIsShortest` says that they mean the same when written again.
* In C, a `receive_packet` made by the process callback may free the memory that callback was given
  (`reliable.h` says it is valid for the duration of the call), and may make the packet being processed stale, after which
  the assertion on its insertion fails if it is accepted: dropping the condition on
  `callback_may` refutes `PayloadStays`. The Rust port is free of both: `&mut self` is borrowed
  while its closure runs.

`CHECK_DEADLOCK FALSE` appears in `MCPacketHeader.cfg` only: a datagram that was damaged as often as the
bound allows has no further step. In the other runs some step is always possible.

## What is proved

For every configuration that satisfies the named assumptions (`ConfigAssumption`:
the asserts of `Endpoint::new`; `DataAssumption`: shapes of payloads and datagrams, and the length of an encoded header;
`SequenceModulusAssumption`: the number space is even), TLAPS checks in `EndpointProofs`:

* `TypeCorrect`: `Spec => []TypeOK`, with the bound on the `acks` list in it.
* `LockStep`: `Spec => []WindowsInLockStep`.
* `ReassemblySound`: `Spec => []ReassemblyConsistent`.
* `SendSafe`: `Spec => []SendNeverPanics` when `SentPacketsBufferSize < HalfModulus`.
  With a buffer of half the number space it is false.
* `Receivable`: `Spec => []SentIsReceivable`. Whatever an endpoint transmits passes the
  size gate and the header checks of an endpoint with the same configuration, so
  the asserts of `Endpoint::new` are enough for that.

The argument. `TypeOK` is not inductive: when the last fragment arrives, the
packet is rebuilt with the header stored in its entry, which is a header and not
`None` only if fragment 0 is among those stored. That is part of
`ReassemblyConsistent`, which says that the count equals the number of distinct
fragments, all below the total, and that the header is there exactly when fragment
0 is; the count reaching the total then means that all are there
(`CompleteHasHeader`, by cardinality). An entry is opened only if a fragment
moves both windows alike, so the lock step is proved along with it, and
`IInv == TypeOK /\ WindowsInLockStep /\ ReassemblyConsistent` is inductive
(`InitInv`, `NextInv`, theorem `InductiveInvariant`). `NextInv` has one step per
action; `HandleRegularInv` serves regular and rebuilt packets.
`SequenceBufferProofs` holds the lemmas about the buffer that the three instances
share, and `SentLink`, `ReceivedLink`, `ReassemblyLink` identify the instances of
`Endpoint` with those of the lemmas.
`SendSafe` adds that the sent window always stands at the endpoint's own
`sequence` (`SentWindowStep`), that a number is never stale in a window that
stands at it (`NextIsNotStale`), and that a payload within `MaxPacketSize` has at most
`MaxFragments` pieces (`FragmentCountFits`, from the assert on
`max_fragments` against `(max_packet_size - 1) / fragment_size`). `Receivable`
adds where a piece of a payload begins and ends (`PieceLength`).

Its second half is about the windows:

* `WindowsHold`: `Spec => []EntriesStayInWindow`, `ReceivedNotForgotten`: `Spec => ReceivedIsRemembered`,
  both under `SizesFit`: each buffer's size divides the number space and is at most
  half of it, and the received and the reassembly buffer have two slots or more.
  `DefaultSizesFit`: the sizes of `Config::default` do. `Endpoint::new` asks for none of
  it, and without it both are false (see `MCEndpoint` and `NonDividingWindow` above).
* `FlagsAreReports`: `Spec => FlaggedIffReported`, `AcksNeedAPacket`: `Spec => AcksOnlyWithAcceptedPacket`,
  for every configuration.

The argument. `WindowInv` adds to `IInv` that the sent window stands at the next number to
send and that every entry is inside its window; the first is why a number to be sent is never
stale, and why its slot is the one that leaves the window. `WindowStep` takes each buffer through each action. An
action property is then one lemma on a step from `WindowInv` (`FlagStep`, `AckStep`, `RememberStep`).
`FlagStep` rests on `ProcessAcksFlags`: what the ack loop appends to the list are the numbers of
exactly those slots it flags.

For every number space, buffer size that divides it and is at most half of it (`Commensurate`)
and `MaxNext`, TLAPS checks in `WindowBufferProofs`:

* `QueriesAlwaysAgree`: `Spec => []QueriesAgree`.
* `BufferImplementsWindow`: `Spec => ImplementsSlidingWindow`, the refinement step by step.

The argument. The inductive invariant `Holding` says that the buffer is at identity `next`
and that a slot in use has the number and the data of one remembered identity, inside the window.
Two such identities differ by less than the size, so they have different slots; since the size
divides the modulus, an identity and its number have the same slot. `SequenceBufferProofs`
has one lemma per operation about any buffer that `Keeps` a set of identities; they are used
again below.

For two connected endpoints, TLAPS checks in `ConnectionProofs`, for any number of packets, all
lengths and every configuration with `SizesDivide` and `WithinReach`:

* `DeliveredOnce`: `Spec => []NoDuplicateDelivery`.
* `DeliveredIntact`: `Spec => []IntactDelivery`.
* `AcksAreTrue`: `Spec => []AckTruthful`. `AcksOnce`: `Spec => []AckReportedOnce`.
* `AckBitsAreExact`: `Spec => []AckBitsExact`.
* `JudgementsAreByIdentity`: `Spec => []JudgedByIdentity`.

`SizesDivide` says that the three buffers' sizes divide the number space and are at most half of it.
`WithinReach` bounds the environment as the runs do: `max_age + 1 <= HALF`, and
`max_outage + N <= HALF`, of which the second is exact (see the bounds above). With the defaults that is a
network that forgets a datagram within 32767 sends and outages of up to 32512 packets
(`DefaultsWithinReach` in `DirectionProofs`). Beyond that 16 bits cannot tell the packets apart, and the properties fail.
`SettingsAssumption` gives the types of a setting and says that a packet that may be sent has a length.
The counters are left out of `Connection` (`CountersLeftOut`).

The argument. A datagram carries a number; what it is about is an identity. The invariant
`ConnInv` says of each direction (`OneWay`) that every datagram in flight is part of the packet it
was cut from, no older than its age says, with a header whose acks were true when it was
written (`InFlight`, `GoodHeaders`); that the receiver's two windows stand at one identity, the
received one remembers exactly what was delivered and the entries of the other hold pieces of
one packet each, with a header of that packet (`Window`, `Reassembling`); and that the sender tracks its last
packets, flagged exactly when reported (`Sending`). None of the six properties is inductive without the other parts: an
ack is true because the header it came in was, also when that header waited in a reassembly entry
while both windows moved on; a duplicate is refused because what was accepted is remembered, or
the window has passed it.

The second part of `EndpointProofs` is the step of one endpoint: if its buffers `Keep` identities and the
datagram is part of a packet `InReach`, then so do the buffers afterwards, with the sets of identities changed
as if there were no wrap-around (`ReceiveByIdentity`, `SendByIdentity`, `ProcessAcksByIdentity`, `HeaderByIdentity`),
and a rebuilt packet is the one that was cut up (`CompleteIsContent`: from `StoreAssembles`, byte by byte).
`DirectionProofs` shows that whatever arrives is in reach (`Arrival`), that the other direction's parts only gain
from what this step delivers (`AcceptsMore`) and that they survive when packets are sent
(`SendTracks`, `SendAhead`, `SendBehind`); `ConnectionProofs` composes the two directions, one lemma
per action (`ServerReceivesStep` and so on). TLC checked `ConnInv` on the settings of the `Connection` run
before it was proved. The two sides are two instances of the endpoint lemmas; the lemmas whose names
end in `Link` identify them with the two instances of `Connection`, whose payloads are of a different type,
and `Sides` with each other.

For every `INT_MAX`, header sizes and configurations (`SizesAssumption`,
`ConfigsAssumption`: naturals, the longest header no shorter than the shortest, fields that are
integers), TLAPS checks in the first part of `CCreateProofs`:

* `LengthsAreInts`: `Spec => []IntsFit`.
* `CopiesStayInside`: `Spec => []CopiesFit`.
* `PortTakesOver`: `Spec => []PortAcceptsWhatCDoes`.

The argument. `IntsFit` and `CopiesFit` speak of the last call only; what carries them
from call to call is `ConfigAccepted`, that the endpoint's configuration passed the checks of
create, and `IInv` is the three together. The sums follow from the checks one
by one (`AcceptedBounds`, `TransmitBuffer`). The products need
`PiecesApart` (one piece more takes `fragment_size` bytes more): with it `FragmentPlaced`
bounds where a fragment of an allowed index ends, and `FragmentsSuffice` turns the check without a
product, `max_fragments > (max_packet_size - 1) / fragment_size`, into a bound on the number of
fragments that `send_packet` cuts.

Its second part carries these to the endpoints that `CCreate` creates, allocation by allocation,
and proves the two properties of memory. It assumes besides that `None` is no configuration.

* `CreateRefinesConfig`: `CreateSpec => Spec`; with it `CreatedLengthsAreInts`, `CreatedCopiesStayInside`
  and `PortTakesOverCreated` follow from the three theorems above.
* `MemoryGivenBack`: `CreateSpec => []NothingRetained`.
* `NothingFreedTwice`: `CreateSpec => []FreedOnce`.

The argument. `NothingRetained` says nothing while there is an endpoint. `MemoryInv` says what is live
at every point of create and after it: exactly what destroy would free, and,
inside `reliable_sequence_buffer_create`, the blocks of that buffer that were got so far
(`Pending`). No block is live before it is asked for, hence a member is not there before its last
block (`After`), so that unwinding a buffer frees nothing of the others (`BlocksApart`). There is
one lemma for each kind of allocation, one for the check at the end, one for packets that come
and go.

For the C endpoint, TLAPS checks in `CEndpointProofs`, for every number of blocks, every set of
datagrams and every configuration that passes the checks of create (`ConfigAssumption`,
`DataAssumption`, and `MemoryAssumption`: `NULL`, `Free` and `Corrupt` are none of the things they
are told apart from):

* `TypeCorrect`: `Spec => []TypeOK`. `MemoryOwned`: `Spec => []Ownership`.
  `WindowsMoveTogether`: `Spec => []WindowsTogether`.
* `MemoryOwnedInCalls` and `WindowsTogetherInCalls`: the same of `CallSpec`, where the process
  callback calls the endpoint again, to any depth.
* `PayloadsStay`: `CallSpec => []PayloadStays`.
* `NotRestarted`: `Spec => []NeverRestarted`, and `NotRestartedInCalls` of `CallSpec`.

The argument. `Ownership` is not inductive: what `Leave` frees and what a fragment is written to depend on
what is in the entry. The invariant `Sound` says of an endpoint that it has its types, that its windows stand together and
its memory is in order (`Memory`): every occupied slot has a live block of its own and every block such a slot (`Owns`),
and an entry and its block agree (`Belongs`), the count with the marks, the room with the total, the
header with the mark of fragment 0. `FreesExactly` is what makes it go round: the blocks freed with a
set of slots are exactly those of its occupied slots. Above it there is one lemma per operation of the
buffer (`EvictionKeepsMemory`, `ClaimKeepsMemory`, `RewriteKeepsMemory`) and one per piece of a handler
(`SoundAllocated`, `SoundStored`, `SoundAccepted`, `SoundLeft`), stated of any endpoint `e` and not of the variable;
that is what lets `Spec` and `CallSpec` rest on the same lemmas. In `CallSpec` the invariant `CallInv` adds
`PayloadStays` and that a callback which only sends and clears is not inside another one (`Flat`).
`NeverRestarted` is inductive relative to these: a packet that is accepted and was rebuilt is entered under the number
whose entry is then removed, because the header in a block is of the block's packet (`Belongs`, `FinishSettles`); one that was not
rebuilt came in one piece, also when its callback has since received and reset (`WholeOrRebuilt`).

It shows besides that the C endpoint implements the port:

* `ImplementsThePort`: `CalledSpec => ImplementsPort`, the refinement of `Endpoint` call by call,
  with the same arguments, the same answer and the same counters.
* `TranscriptsAgree`: `CalledSpec => []SameTranscript`: what `SendPacket` would transmit in any
  reachable state is what the port would. No run checks it besides.
* `PacketsStayReceivable`: `CalledSpec => StillReceivable`, where the received and the reassembly window are at most
  half the number space (`WithinHalf`). In a longer one the number that moved the window can itself
  be too old at once, by the comparison of numbers.

The argument. The invariant is `Sound` and that the ack array is no fuller than it is long
(`CalledInvariant`). Each operation of a C buffer is, under the mapping, the port's operation of the same name
(`SentCommutes`, `ReceivedCommutes`, `ReassemblyAdvanceCommutes`, `RemoveCommutes`), and each
piece of a handler is the port's piece (`AllocatedMaps`, `StoredMaps`, `PreparedMaps`, `LeftMaps`, `AcceptedMaps`); then there is one lemma
per call (`RegularMaps`, `FragmentMaps`, `DroppedFragmentMaps`, `SendMaps`, `ClearMaps`, `ResetMaps`). Two places are not
a matter of expanding definitions. The C ack loop changes the endpoint bit by bit, where the port is specified by what the loop amounts to: `AckLoopReports`
shows that after `k` turns the first `k` bits that are due are reported, by `OneTurn`
and induction on the turns. And the number of fragments is a quotient and a remainder in C and a rounded-up quotient in the port (`QuotientIs`).
`Sound` is what the mapping needs: a live block with a header is what `Rebuilt` reads.
`StillReceivable` follows from `Sound` and two facts of each call: what it enters in the received window is what it accepted, and
what it moves the window to is the number after that of the packet it was given (`ReceivedSpends`), which that packet is
not too old for (`NewestIsFresh`).

For both codecs, at their real widths (numbers below 65536, 32 ack bits), for all sequence numbers, acks, ack bits
and payloads, every `MaxFragments` up to 256, every `FragmentSize` and any amount of damage (`WireAssumption`,
`WritesAssumption`), TLAPS checks in `PacketHeaderProofs`:

* `RoundTrips`, `ShortestHeader`, `PayloadsPlaced`: `Spec => []RoundTrip`, `Spec => []CanonicalIsShortest` and
  `Spec => []PayloadPlaced`, of the port's codec.
* `SameBytesWritten`, `SameBytesRead`: `Spec => []SameBytes` and `Spec => []SameReading`, the two codecs compared.
* `CopiesStayInside`: `Spec => []StaysInside`, of the C reader's accesses and the fragment it copies.

The argument. The invariant `Delivered` only says that a datagram is a sequence of bytes, and the one that was
written as long as it is undamaged; the rest is about the codec. A header is a concatenation in which a part that is left out has length
0, so the place of a byte of `ack_bits` is its rank among those that are present (`Ranks`, `HeaderWritten`), and the reader
finds it there because the prefix byte tells it the same set (`Flags`, `ReadWritten`). `Distances` is the wrap-around: an ack written as
a distance of one byte is recovered wherever the two numbers lie. A datagram that
is read is as long as its prefix asks, which is what the sizes of a fragment rest on
(`ReadType`, `FragmentSizes`). The C reader takes its bytes in another order and the C writer in other pieces;
`SameHeaderRead`, `SameHeaderWritten` and `SameFragmentRead` show piece by piece that they are the same, and `RoomBehind` bounds the product in the C copy.

What induction there is in these proofs is over natural numbers, by the least counterexample (`LeastElement`,
`InductionUpTo`), since the library's induction theorems take an operator as a parameter.

Only model-checked: the figures of `CStatistics`, of which `ViewsAgree` relates sums that are folds over sets (the provers cannot
expand them) and the other two await a proof, and the liveness of `CPair`, which is beyond the prover.

## What is not modelled

* Floating point: rounding, the tolerance of 0.00001, and what a particular smoothing
  factor does. Times never run backwards in the runs, as `update` is to be called with the
  current time.
* The statistics and the configuration checks of the port have no module of their own:
  `CStatistics` and `CConfig` are translated from C, whose passes and checks the
  port has one by one (`PortAccepts` is its checks).
* Logging, names, `Display`, getters, string copies, and the bodies of the test suites,
  examples, fuzz target and compatibility harness, which are scripts over the modelled calls
  and have no protocol state. The link of `tests/common` is the network of `Connection`,
  the transmit functions of the C tests are `CPair`.
* Calls from inside the transmit callback, which `reliable.h` forbids, and threads: neither
  implementation may be used from two at once.
* The counters are compared between C and Rust only; no run relates them to what was
  sent and received.

## Plan

Done: the port (`SequenceNumbers`, `SequenceBuffer`, `WindowBuffer` refining `SlidingWindow`,
`Endpoint`, `Connection`, `PacketHeader`), the C implementation as its refinement
(`CSequenceBuffer`, `CEndpoint`, `CPort`, `CCallbacks`, `CPacketHeader`, `CStatistics`, `CLifecycle`, `CConfig`, `CCreate`),
liveness of a pair (`CPair`), and the theorems above, the refinement of the port among them.

Next, in order:

1. *Abstract connection.* A specification of what a pair of endpoints promises
   (a set of identities sent, accepted, acknowledged) and `Connection` as its refinement, from `ConnInv`.
2. *Proofs.* `SamplesAreOldestHalf` and `RttFromThisLife`: the windows of `CStatistics` by identity, as in `WindowBufferProofs`.
3. *Model.* Balances of the counters over a connection.
