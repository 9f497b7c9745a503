--------------------------- MODULE MCHttpSessions ---------------------------
(* Instance of HttpSessions for TLC: two initializations that race for one or *)
(* two slots, and a request or DELETE of one of the sessions.                 *)
EXTENDS HttpSessions

FirstSession == [r \in Requests |-> CHOOSE s \in Sessions : TRUE]
=============================================================================
