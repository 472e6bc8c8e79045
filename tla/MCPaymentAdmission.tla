------------------------- MODULE MCPaymentAdmission -------------------------
(* Small instances of PaymentAdmission for TLC. *)
EXTENDS PaymentAdmission, TLC

\* Requests are interchangeable.
Symmetry == Permutations(Requests)
=============================================================================
