------------------------------ MODULE MCMining ------------------------------
(* Finite instances of Mining for TLC. *)
EXTENDS Mining, TLC

CallSymmetry   == Permutations(Calls)
ThreadSymmetry == Permutations(Calls) \cup Permutations(Workers)

(* raced never returns to FALSE: beyond it the conditional invariants hold. *)
Unraced == ~raced
=============================================================================
