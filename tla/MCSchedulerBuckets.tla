-------------------------- MODULE MCSchedulerBuckets --------------------------
(* A poller, a rebuild and a request on a bucket, or two replicas' pollers    *)
(* and a rebuild.                                                             *)
EXTENDS SchedulerBuckets
CONSTANTS p1, p2, b1, r1
OnePoller == {p1}
TwoPollers == {p1, p2}
OneRebuilder == {b1}
OneRequest == {r1}
NoRequests == {}
=============================================================================
