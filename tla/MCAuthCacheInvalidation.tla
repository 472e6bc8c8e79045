---------------------- MODULE MCAuthCacheInvalidation ----------------------
(* Two replicas work on the outbox; the key is used on one of them. *)
EXTENDS AuthCacheInvalidation
CONSTANTS r1, r2
MCReplicas == {r1, r2}
MCServers == {r1}
=============================================================================
