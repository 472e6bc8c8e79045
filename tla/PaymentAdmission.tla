-------------------------- MODULE PaymentAdmission --------------------------
(***************************************************************************)
(* The admission of one user's orders: createOrderInTx counts the pending  *)
(* orders, adds up what was paid today and inserts the order, in one       *)
(* transaction at PostgreSQL's READ COMMITTED that locks nothing.  The     *)
(* provider instance is selected before; an administrator who deletes it   *)
(* counts its orders first, in a statement of its own.                     *)
(*                                                                         *)
(* An order is a unit of each count it belongs to; its price is 1.         *)
(***************************************************************************)
EXTENDS Integers, FiniteSets

CONSTANTS
  Requests,     \* calls of CreateOrder in progress
  MaxPending,   \* MaxPendingOrders, with its default for values below 1
  DailyLimit,   \* the daily limit, in orders
  MaxOrders,    \* bound: orders created
  MaxLapses     \* bound: orders that lapse

ASSUME RequestsAssumption == IsFiniteSet(Requests) /\ Requests # {}
ASSUME LimitAssumption ==
  /\ MaxPending \in Nat \ {0} /\ DailyLimit \in Nat \ {0}
  /\ MaxOrders \in Nat /\ MaxLapses \in Nat

VARIABLES
  stage,      \* of a request: its next step
  pending,    \* orders in PENDING
  unsettled,  \* orders in PAID or RECHARGING
  spent,      \* orders paid today in PAID, RECHARGING or COMPLETED
  strays,     \* orders outside these counts that may come back to spent
  lapsed,     \* history: how often an order left pending or spent unpaid,
              \* failed or refunded
  created,    \* history: orders created
  instance,   \* the provider instance: "enabled" or "deleted"
  deleter     \* the administrator's next step: "idle" or "delete"

orderVars == <<pending, unsettled, spent, strays, lapsed, created>>
vars == <<stage, orderVars, instance, deleter>>

TypeOK ==
  /\ stage \in [Requests -> {"idle", "pending", "daily", "insert"}]
  /\ pending \in Nat /\ unsettled \in Nat /\ spent \in Nat /\ strays \in Nat
  /\ lapsed \in 0..MaxLapses
  /\ created \in 0..MaxOrders
  /\ instance \in {"enabled", "deleted"}
  /\ deleter \in {"idle", "delete"}

Init ==
  /\ stage = [r \in Requests |-> "idle"]
  /\ pending = 0 /\ unsettled = 0 /\ spent = 0 /\ strays = 0
  /\ lapsed = 0 /\ created = 0
  /\ instance = "enabled"
  /\ deleter = "idle"

-----------------------------------------------------------------------------
(* CreateOrder *)

Goto(r, step) ==
  /\ stage' = [stage EXCEPT ![r] = step]
  /\ UNCHANGED <<instance, deleter>>

SelectInstance(r) ==
  /\ stage[r] = "idle"
  /\ instance = "enabled"
  /\ created < MaxOrders
  /\ Goto(r, "pending")
  /\ UNCHANGED orderVars

\* checkPendingLimit, and a plausible fault of it.
CheckPending_OffByOne(r) ==
  /\ stage[r] = "pending"
  /\ Goto(r, IF pending > MaxPending THEN "idle" ELSE "daily")
  /\ UNCHANGED orderVars

CheckPending(r) ==
  /\ stage[r] = "pending"
  /\ Goto(r, IF pending >= MaxPending THEN "idle" ELSE "daily")
  /\ UNCHANGED orderVars

\* checkDailyLimit, and a plausible fault of it: the order itself is not
\* counted.
CheckDaily_WithoutThis(r) ==
  /\ stage[r] = "daily"
  /\ Goto(r, IF spent > DailyLimit THEN "idle" ELSE "insert")
  /\ UNCHANGED orderVars

CheckDaily(r) ==
  /\ stage[r] = "daily"
  /\ Goto(r, IF spent + 1 > DailyLimit THEN "idle" ELSE "insert")
  /\ UNCHANGED orderVars

Insert(r) ==
  /\ stage[r] = "insert"
  /\ created < MaxOrders
  /\ pending' = pending + 1
  /\ created' = created + 1
  /\ Goto(r, "idle")
  /\ UNCHANGED <<unsettled, spent, strays, lapsed>>

\* The transaction fails or the request is cancelled.
Abort(r) ==
  /\ stage[r] # "idle"
  /\ Goto(r, "idle")
  /\ UNCHANGED orderVars

-----------------------------------------------------------------------------
(* What happens to an order that exists *)

Pay ==
  /\ pending > 0
  /\ pending' = pending - 1
  /\ unsettled' = unsettled + 1
  /\ spent' = spent + 1
  /\ UNCHANGED <<stage, strays, lapsed, created, instance, deleter>>

\* The order is cancelled, expires or fails at the provider.
Close ==
  /\ pending > 0 /\ lapsed < MaxLapses
  /\ pending' = pending - 1
  /\ strays' = strays + 1
  /\ lapsed' = lapsed + 1
  /\ UNCHANGED <<stage, unsettled, spent, created, instance, deleter>>

Complete ==
  /\ unsettled > 0
  /\ unsettled' = unsettled - 1
  /\ UNCHANGED <<stage, pending, spent, strays, lapsed, created, instance, deleter>>

\* The fulfilment fails, or the user asks for a refund: neither FAILED nor the
\* statuses of a refund are added up.
Leave ==
  /\ spent > 0 /\ lapsed < MaxLapses
  /\ spent' = spent - 1
  /\ strays' = strays + 1
  /\ lapsed' = lapsed + 1
  /\ unsettled' \in {unsettled, unsettled - 1} /\ unsettled' >= 0
  /\ UNCHANGED <<stage, pending, created, instance, deleter>>

\* A closed order is paid after all, a failed one retried, a refund undone.
Return ==
  /\ strays > 0
  /\ strays' = strays - 1
  /\ spent' = spent + 1
  /\ unsettled' \in {unsettled, unsettled + 1}
  /\ UNCHANGED <<stage, pending, lapsed, created, instance, deleter>>

\* What was paid before midnight (UTC) is not added up any more.
Midnight ==
  /\ spent > 0
  /\ spent' = 0
  /\ UNCHANGED <<stage, pending, unsettled, strays, lapsed, created, instance, deleter>>

-----------------------------------------------------------------------------
(* DeleteProviderInstance *)

CountInProgress ==
  /\ deleter = "idle" /\ instance = "enabled"
  /\ pending + unsettled = 0
  /\ deleter' = "delete"
  /\ UNCHANGED <<stage, orderVars, instance>>

DeleteInstance ==
  /\ deleter = "delete"
  /\ deleter' = "idle"
  /\ instance' = "deleted"
  /\ UNCHANGED <<stage, orderVars>>

-----------------------------------------------------------------------------
Create(r) ==
  \/ SelectInstance(r) \/ CheckPending(r) \/ CheckDaily(r) \/ Insert(r) \/ Abort(r)

Next ==
  \/ \E r \in Requests : Create(r)
  \/ Pay \/ Close \/ Complete \/ Leave \/ Return \/ Midnight
  \/ CountInProgress \/ DeleteInstance

Spec == Init /\ [][Next]_vars

-----------------------------------------------------------------------------
(* checkPendingLimit alone bounds the pending orders only up to the requests
   that count at the same time: each of the others may add one.             *)
PendingOvershoot == pending <= MaxPending + Cardinality(Requests) - 1

(* checkDailyLimit adds up paid orders only.  What can be paid in a day
   exceeds the limit by at most the orders that may be pending or on their
   way when the last one is admitted, and by the orders that lapsed.        *)
DailyOvershoot ==
  spent <= DailyLimit + MaxPending + Cardinality(Requests) - 2 + lapsed

(* "Maximum concurrent pending orders per user" (docs/PAYMENT.md:65). *)
PendingWithinLimit == pending <= MaxPending

(* "Per-user daily cumulative limit" (docs/PAYMENT.md:63). *)
DailyWithinLimit == spent <= DailyLimit

(* An instance with "in-progress orders ... cannot be deleted"
   (payment_config_providers.go:531).                                       *)
DeletedIsIdle == [][instance # "deleted" /\ instance' = "deleted" => pending + unsettled = 0]_vars
=============================================================================
