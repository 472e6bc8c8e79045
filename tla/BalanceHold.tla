----------------------------- MODULE BalanceHold -----------------------------
(***************************************************************************)
(* What billing promises about the hold of one batch: the amount moves     *)
(* from the user's balance to the frozen balance at most once, and leaves  *)
(* it at most once, either captured for what the batch cost, with the rest *)
(* given back, or released as a whole.  The frozen balance is shared by    *)
(* all the user's holds and the promise never takes from the others.  It   *)
(* is void from the moment that two workers may have the batch, or that a  *)
(* capture that was made is taken for one that failed.                     *)
(* BatchImageJobs implements this module.                                  *)
(***************************************************************************)
EXTENDS Naturals

CONSTANTS Hold, Costs

VARIABLES hold, balance, frozen, spent, void

holdVars == <<hold, balance, frozen, spent, void>>

Init == hold = "none" /\ spent = 0 /\ balance \in Nat /\ frozen \in Nat /\ void = FALSE

Reserve ==
  /\ hold = "none" /\ balance >= Hold
  /\ hold' = "reserved"
  /\ balance' = balance - Hold /\ frozen' = frozen + Hold
  /\ UNCHANGED spent

Capture(c) ==
  /\ hold = "reserved" /\ c <= Hold
  /\ hold' = "captured"
  /\ balance' = balance + (Hold - c) /\ frozen' = frozen - Hold
  /\ spent' = spent + c

Release ==
  /\ hold = "reserved"
  /\ hold' = "released"
  /\ balance' = balance + Hold /\ frozen' = frozen - Hold
  /\ UNCHANGED spent

Next ==
  \/ ~void' /\ (Reserve \/ Release \/ \E c \in Costs : Capture(c))
  \/ void'

Spec == Init /\ [][Next]_holdVars
=============================================================================
