------------------------ MODULE MCIdempotentExecution ------------------------
(* Small instances of IdempotentExecution for TLC. *)
EXTENDS IdempotentExecution, TLC

CONSTANTS r1, r2, r3

\* Requests are interchangeable.
Symmetry == Permutations(Requests)
=============================================================================
