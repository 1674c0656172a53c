------------------------------ MODULE Counters ------------------------------
(***************************************************************************)
(* The counters of an endpoint (struct Counters, src/src/endpoint.rs), as  *)
(* a function from their names.  They are u64: CounterModulus is 2^64, and *)
(* a model with CounterModulus = 1 leaves them out.                        *)
(***************************************************************************)
EXTENDS Integers

CONSTANT CounterModulus

ASSUME CounterModulusAssumption == CounterModulus \in Nat \ {0}

CounterNames ==
  {"num_packets_sent", "num_packets_received", "num_packets_acked",
   "num_packets_stale", "num_packets_invalid", "num_packets_too_large_to_send",
   "num_packets_too_large_to_receive", "num_fragments_sent",
   "num_fragments_received", "num_fragments_invalid", "num_packets_duplicate"}

CountersOf == [CounterNames -> 0 .. CounterModulus - 1]

ZeroCounters == [name \in CounterNames |-> 0]

Plus(c, name, n) == [c EXCEPT ![name] = (@ + n) % CounterModulus]

Increment(c, names) ==
  [name \in CounterNames |->
     IF name \in names THEN (c[name] + 1) % CounterModulus ELSE c[name]]
=============================================================================
