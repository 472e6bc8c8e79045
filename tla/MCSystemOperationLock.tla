------------------------ MODULE MCSystemOperationLock ------------------------
(* Small instances of SystemOperationLock for TLC. *)
EXTENDS SystemOperationLock, TLC

CONSTANTS o1, o2, o3

\* Two calls of one operation, retries with one Idempotency-Key, and one of
\* another.
RetryAndOther == [o \in Ops |-> IF o = o3 THEN "b" ELSE "a"]

\* Three operations.
DistinctIds == [o \in Ops |-> o]

\* A permutation of the calls permutes such operation ids with them.
Symmetry == Permutations(Ops)
=============================================================================
