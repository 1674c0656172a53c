------------------------------- MODULE CLifecycle -------------------------------
(***************************************************************************)
(* Creating and destroying an endpoint of the C implementation             *)
(* (src/wire-compat/c/reliable.c).  reliable_endpoint_create makes its     *)
(* allocations one after the other, goes on after one that fails, and only *)
(* then looks whether all succeeded; if not it has the partly built        *)
(* endpoint destroyed.  CEndpoint models what is between, CCreate the      *)
(* configuration.                                                          *)
(*                                                                         *)
(* A block is named by what it is for: <<member of the endpoint, part>>.   *)
(***************************************************************************)
EXTENDS Naturals, Sequences

CONSTANT Slots   \* of the fragment reassembly buffer

VARIABLES
  at,        \* the next request of create, or one of the three below
  members,   \* the pointers of the endpoint that are not NULL
  live,      \* the blocks allocated and not freed
  occupied,  \* the slots of fragment_reassembly that hold an entry
  fault      \* a block was freed that was not live, or lost while it was

vars == <<at, members, live, occupied, fault>>

Self == <<"endpoint", "struct">>

Buffers == {"sent_packets", "received_packets", "fragment_reassembly"}

\* The calls of allocate_function, in order.
Requests ==
  <<Self,
    <<"acks", "array">>,
    <<"sent_packets", "struct">>,
    <<"sent_packets", "entry_sequence">>,
    <<"sent_packets", "entry_data">>,
    <<"received_packets", "struct">>,
    <<"received_packets", "entry_sequence">>,
    <<"received_packets", "entry_data">>,
    <<"fragment_reassembly", "struct">>,
    <<"fragment_reassembly", "entry_sequence">>,
    <<"fragment_reassembly", "entry_data">>,
    <<"rtt_history_buffer", "array">>,
    <<"transmit_buffer", "array">>>>

Members == Buffers \cup {"acks", "rtt_history_buffer", "transmit_buffer"}

PacketData(slot) == <<"packet_data", slot>>

NoEndpoint == 0
Asked == Len(Requests) + 1     \* every request of create was made
Running == Len(Requests) + 2

\* What a member owns.
BlocksOf(m) ==
  IF m \in Buffers
  THEN {<<m, "struct">>, <<m, "entry_sequence">>, <<m, "entry_data">>}
  ELSE {<<m, "array">>}

\* Calls of free_function, one for each of the blocks.
FreeBlocks(blocks) ==
  /\ live' = live \ blocks
  /\ fault' = (fault \/ ~(blocks \subseteq live))

Take(block) ==
  /\ live' = live \cup {block}
  /\ fault' = (fault \/ block \in live)

Init == at = NoEndpoint /\ members = {} /\ live = {} /\ occupied = {} /\ fault = FALSE

\* reliable_endpoint_create is called with a valid config.
Create == at = NoEndpoint /\ at' = 1 /\ UNCHANGED <<members, live, occupied, fault>>

Asking == at \in DOMAIN Requests

Request == Requests[at]

\* The endpoint itself: without it create returns at once.
AskSelf(given) ==
  /\ Asking /\ Request = Self
  /\ at' = (IF given THEN at + 1 ELSE NoEndpoint)
  /\ IF given THEN Take(Self) ELSE UNCHANGED <<live, fault>>
  /\ UNCHANGED <<members, occupied>>

AskArray(given) ==
  /\ Asking /\ Request[2] = "array"
  /\ at' = at + 1
  /\ members' = members \cup {m \in {Request[1]} : given}
  /\ IF given THEN Take(Request) ELSE UNCHANGED <<live, fault>>
  /\ UNCHANGED occupied

\* reliable_sequence_buffer_create: without the struct it returns at once.
AskBuffer(given) ==
  /\ Asking /\ Request[1] \in Buffers /\ Request[2] = "struct"
  /\ at' = (IF given THEN at + 1 ELSE at + 3)
  /\ IF given THEN Take(Request) ELSE UNCHANGED <<live, fault>>
  /\ UNCHANGED <<members, occupied>>

AskEntrySequence(given) ==
  /\ Asking /\ Request[2] = "entry_sequence"
  /\ at' = at + 1
  /\ IF given THEN Take(Request) ELSE UNCHANGED <<live, fault>>
  /\ UNCHANGED <<members, occupied>>

\* Mutant: the unwinding frees both arrays, there or not.
BufferBlocks_Unchecked(m, taken) == BlocksOf(m)

\* What reliable_sequence_buffer_destroy frees of a buffer that may lack arrays.
BufferBlocks(m, taken) == BlocksOf(m) \cap taken

\* The last part; then a buffer without both of its arrays is destroyed.
AskEntryData(given) ==
  /\ Asking /\ Request[2] = "entry_data"
  /\ at' = at + 1
  /\ LET m == Request[1]
         taken == live \cup {block \in {Request} : given}
         complete == BlocksOf(m) \subseteq taken
         freed == IF complete THEN {} ELSE BufferBlocks(m, taken)
     IN  /\ live' = taken \ freed
         /\ fault' = (fault \/ ~(freed \subseteq taken))
         /\ members' = members \cup {b \in {m} : complete}
  /\ UNCHANGED occupied

-----------------------------------------------------------------------------

\* Mutant: the packets under reassembly are forgotten.
DestroyedBlocks_NoPackets == {Self} \cup (UNION {BlocksOf(m) : m \in members})

\* What reliable_endpoint_destroy frees: by the members that are there, and the
\* packet_data of the occupied slots.
DestroyedBlocks ==
  {Self} \cup (UNION {BlocksOf(m) : m \in members})
    \cup {PacketData(slot) : slot \in {s \in occupied : "fragment_reassembly" \in members}}

DestroyAll ==
  /\ FreeBlocks(DestroyedBlocks)
  /\ at' = NoEndpoint /\ members' = {} /\ occupied' = {}

\* Create returns a complete endpoint, or destroys it and returns NULL.
Check ==
  /\ at = Asked
  /\ IF members = Members
     THEN at' = Running /\ UNCHANGED <<members, live, occupied, fault>>
     ELSE DestroyAll

\* Between create and destroy, a packet comes under reassembly or leaves it.
Hold(slot) ==
  /\ at = Running /\ slot \notin occupied
  /\ occupied' = occupied \cup {slot} /\ Take(PacketData(slot))
  /\ UNCHANGED <<at, members>>

Drop(slot) ==
  /\ at = Running /\ slot \in occupied
  /\ occupied' = occupied \ {slot} /\ FreeBlocks({PacketData(slot)})
  /\ UNCHANGED <<at, members>>

Destroy == at = Running /\ DestroyAll

Next ==
  \/ Create
  \/ \E given \in BOOLEAN :
       \/ AskSelf(given) \/ AskArray(given)
       \/ AskBuffer(given) \/ AskEntrySequence(given) \/ AskEntryData(given)
  \/ Check
  \/ \E slot \in Slots : Hold(slot) \/ Drop(slot)
  \/ Destroy

Spec == Init /\ [][Next]_vars
=============================================================================
