---------------------------- MODULE MCOAuthRefresh ----------------------------
(* Two replicas, each with a background worker; a request on one of them.    *)
EXTENDS OAuthRefresh
CONSTANTS b1, b2, q1, q2, r1, r2
TwoReplicas == {r1, r2}
TwoCycles == {b1, b2}
OneRequest == {q1}
MCHome == [w \in Workers |-> IF w \in {b1, q1} THEN r1 ELSE r2]
BothPlatforms == {"claude", "grok"}
ClaudeOnly == {"claude"}
NoFaults == {}
OnlyDropped == {"dropped"}
=============================================================================
