--------------------------- MODULE PaymentPromise ---------------------------
(***************************************************************************)
(* What the payment service promises about an order, whatever calls,       *)
(* crashes and takeovers it takes: an order is open, may be closed, is     *)
(* accepted only when the provider was paid its price, is granted to the   *)
(* user once and rebated to the inviter once, in that order and only while *)
(* it is accepted, and is completed after both, for good.  Nothing is said *)
(* of how many attempts it takes.  PaymentOrders implements this module.   *)
(***************************************************************************)
EXTENDS Naturals

CONSTANT Orders

VARIABLES
  phase,   \* "open", "closed", "accepted" or "completed"
  paid,    \* the provider was paid the order's price
  grants,  \* times the value was granted to the user
  rebates  \* times the rebate was granted to the inviter

promised == <<phase, paid, grants, rebates>>

Init ==
  /\ phase = [o \in Orders |-> "open"]
  /\ paid = [o \in Orders |-> FALSE]
  /\ grants = [o \in Orders |-> 0]
  /\ rebates = [o \in Orders |-> 0]

Pay(o) ==
  /\ ~paid[o]
  /\ paid' = [paid EXCEPT ![o] = TRUE]
  /\ UNCHANGED <<phase, grants, rebates>>

\* Cancelled, expired, or never opened at the provider.
Close(o) ==
  /\ phase[o] = "open"
  /\ phase' = [phase EXCEPT ![o] = "closed"]
  /\ UNCHANGED <<paid, grants, rebates>>

\* A closed order is revived by the payment that arrives for it.
Accept(o) ==
  /\ phase[o] \in {"open", "closed"} /\ paid[o]
  /\ phase' = [phase EXCEPT ![o] = "accepted"]
  /\ UNCHANGED <<paid, grants, rebates>>

Grant(o) ==
  /\ phase[o] = "accepted" /\ grants[o] = 0
  /\ grants' = [grants EXCEPT ![o] = 1]
  /\ UNCHANGED <<phase, paid, rebates>>

Rebate(o) ==
  /\ phase[o] = "accepted" /\ grants[o] = 1 /\ rebates[o] = 0
  /\ rebates' = [rebates EXCEPT ![o] = 1]
  /\ UNCHANGED <<phase, paid, grants>>

Complete(o) ==
  /\ phase[o] = "accepted" /\ grants[o] = 1 /\ rebates[o] = 1
  /\ phase' = [phase EXCEPT ![o] = "completed"]
  /\ UNCHANGED <<paid, grants, rebates>>

Next == \E o \in Orders :
          Pay(o) \/ Close(o) \/ Accept(o) \/ Grant(o) \/ Rebate(o) \/ Complete(o)

Spec == Init /\ [][Next]_promised
=============================================================================
