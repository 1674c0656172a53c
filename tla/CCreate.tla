-------------------------------- MODULE CCreate --------------------------------
(***************************************************************************)
(* Endpoints of the C implementation from create to destroy: the checks    *)
(* and lengths of CConfig joined with the allocations of CLifecycle.       *)
(* A configuration that passes the checks starts the allocations, any of   *)
(* which may fail; the operations are those of a complete endpoint.        *)
(***************************************************************************)
EXTENDS CConfigProperties, Sequences

CONSTANT Slots   \* of the fragment reassembly buffer

\* NULL is no configuration.
ASSUME NoneAssumption == None \notin Configuration

VARIABLES at, members, live, occupied, fault   \* as in CLifecycle

Memory == INSTANCE CLifecycle

memoryVars == <<at, members, live, occupied, fault>>

configVars == <<config, lengths, copies, received_length>>

createVars == <<configVars, memoryVars>>

CreateInit == Init /\ Memory!Init

\* reliable_endpoint_create up to its first allocation.
CreateCalled ==
  /\ Memory!Create
  /\ \E c \in Configs : Create(c) \/ CreateDefault(c.fragment_above)

Allocation ==
  \E given \in BOOLEAN :
    \/ Memory!AskSelf(given) \/ Memory!AskArray(given)
    \/ Memory!AskBuffer(given) \/ Memory!AskEntrySequence(given) \/ Memory!AskEntryData(given)

\* The rest of reliable_endpoint_create; NULL leaves no endpoint.
Creating ==
  /\ Allocation \/ Memory!Check
  /\ IF at' = Memory!NoEndpoint THEN Destroy ELSE UNCHANGED configVars

\* A call on the complete endpoint; memory is a matter of Reassembling.
Operating ==
  /\ at = Memory!Running
  /\ Sending \/ Receiving \/ ReceivingFragment
  /\ UNCHANGED memoryVars

\* Packets come under reassembly and leave it.
Reassembling ==
  /\ \E slot \in Slots : Memory!Hold(slot) \/ Memory!Drop(slot)
  /\ UNCHANGED configVars

\* reliable_endpoint_destroy.
Destroying == Memory!Destroy /\ Destroy

CreateNext == CreateCalled \/ Creating \/ Operating \/ Reassembling \/ Destroying

CreateSpec == CreateInit /\ [][CreateNext]_createVars

-----------------------------------------------------------------------------

\* "on failure nothing is retained: every allocation already made is handed back
\* to free_function before create returns" (reliable.h:206-207), whichever of
\* the allocations fail, and destroy frees "everything it allocated"
\* (reliable.h:275).
NothingRetained == config = None => live = {}

\* Nothing is freed that is not live, though create frees parts of buffers and
\* then the endpoint they would have belonged to.
FreedOnce == ~fault
=============================================================================
