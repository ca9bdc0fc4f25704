-------------------------- MODULE MCFailoverRouter --------------------------
(* Two concurrent requests over two channels, the second of which may lose *)
(* its provider type.  Small thresholds make every breaker state reachable *)
(* within a few calls.                                                     *)
EXTENDS FailoverRouter, TLC

CONSTANTS c1, c2
MCPriority == <<c1, c2>>
MCChannels == {c1, c2}
MCEditable == {c2}
Perms == Permutations(Requests)
=============================================================================
