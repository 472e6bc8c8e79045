-------------------------- MODULE MCPaymentOrders --------------------------
(* Small instances of PaymentOrders for TLC. *)
EXTENDS PaymentOrders, TLC

\* Calls are interchangeable: nothing but their number matters.
Symmetry == Permutations(Workers)

\* Values of PromptSteps: calls may be paused anywhere; anywhere but while the
\* payment is created, which the provider clients bound by a time-out, and
\* between winning the lease and reading it back; anywhere but in those and in
\* the fulfilment; nowhere.
NoStep == {}
CreationAndLease == {"create", "leased"}
FulfilmentSteps == CreationAndLease \cup Fulfilling \cup {"fail"}
CallSteps == Steps \ {"idle"}
=============================================================================
