--------------------------- MODULE SlidingWindow ---------------------------
(***************************************************************************)
(* What a sequence buffer promises, without wrap-around and without slots: *)
(* packets have unbounded identities, `next` is one past the newest one    *)
(* seen, and exactly the identities next - Size .. next - 1 can be         *)
(* remembered.  An identity may be negative: before anything was inserted  *)
(* the window already reaches Size identities into the past.               *)
(***************************************************************************)
EXTENDS Integers

CONSTANTS
  Size,      \* how many identities the window spans
  Past,      \* callers name identities above next - Past ...
  Future     \* ... and below next + Future

VARIABLES next, present

Larger(x, y) == IF x > y THEN x ELSE y

Window == next - Size .. next - 1

Nameable == next - Past + 1 .. next + Future - 1

Init == next = 0 /\ present = {}

SlideTo(id, kept) ==
  /\ next' = Larger(next, id + 1)
  /\ present' = {p \in kept : p >= next' - Size}

\* An identity older than the window is refused, any other is remembered.
Insert(id) == id >= next - Size /\ SlideTo(id, present \cup {id})

Refuse(id) == id < next - Size /\ UNCHANGED <<next, present>>

Advance(id) == SlideTo(id, present)

Remove(id) == id \in Window /\ present' = present \ {id} /\ UNCHANGED next

Next == \E id \in Nameable : Insert(id) \/ Refuse(id) \/ Advance(id) \/ Remove(id)

Spec == Init /\ [][Next]_<<next, present>>
=============================================================================
