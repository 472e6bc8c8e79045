-------------------------- MODULE MCPaymentRefunds --------------------------
(* Small instances of PaymentRefunds for TLC. *)
EXTENDS PaymentRefunds, TLC

\* Requests are interchangeable.
Symmetry == Permutations(Workers)
=============================================================================
