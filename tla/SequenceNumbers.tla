-------------------------- MODULE SequenceNumbers --------------------------
(***************************************************************************)
(* Wrap-around arithmetic on packet sequence numbers (src/src/lib.rs).     *)
(* The code uses u16, so SequenceModulus is 65536 there and HalfModulus is *)
(* the literal 32768; checking runs take a small even modulus.             *)
(***************************************************************************)
EXTENDS Integers

CONSTANT SequenceModulus

ASSUME SequenceModulusAssumption ==
  /\ SequenceModulus \in Nat \ {0}
  /\ SequenceModulus % 2 = 0

HalfModulus == SequenceModulus \div 2

SequenceNumber == 0 .. SequenceModulus - 1

WrapAdd(s, n) == (s + n) % SequenceModulus

WrapSub(s, n) == (s - n) % SequenceModulus

\* Deliberately lopsided, as in the code: at distance exactly HalfModulus the
\* numerically larger number counts as the greater one.
SequenceGreaterThan(s1, s2) ==
  \/ s1 > s2 /\ s1 - s2 <= HalfModulus
  \/ s1 < s2 /\ s2 - s1 > HalfModulus

SequenceLessThan(s1, s2) == SequenceGreaterThan(s2, s1)
=============================================================================
