----------------------------- MODULE SeqArith ------------------------------
(***************************************************************************)
(* Sequence numbers that wrap around and the signed distance by which the  *)
(* code orders them, (int32_t)(a - b) on uint32_t values.                  *)
(***************************************************************************)
EXTENDS Integers

CONSTANT SeqMod     \* number of sequence numbers (2^32 in the code)

ASSUME SeqModAssumption == SeqMod \in Nat /\ SeqMod > 0 /\ SeqMod % 2 = 0

Half == SeqMod \div 2

SeqNo == 0..(SeqMod - 1)

\* (int32_t)(s - t)
Diff(s, t) == LET d == (s - t) % SeqMod IN IF d < Half THEN d ELSE d - SeqMod
=============================================================================
