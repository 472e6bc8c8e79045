-------------------------- MODULE MCSchedulerOutbox --------------------------
(* Two concurrent writers and two replicas: deduplication, late commits and *)
(* the shared watermark meet on the rows of an account that its first       *)
(* change makes unschedulable and its second schedulable again.             *)
EXTENDS SchedulerOutbox
CONSTANTS a1, a2, w1, w2, p1, p2
OneAccount == {a1}
BackAgain == {0, 2}
MCWriters == {w1, w2}
MCReplicas == {p1, p2}
=============================================================================
