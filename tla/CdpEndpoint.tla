----------------------------- MODULE CdpEndpoint -----------------------------
(***************************************************************************)
(* What one managed CDP endpoint promises its clients, whatever is behind   *)
(* it: it leads to one generation at a time, to none before that one was    *)
(* verified, to the next one only after the last was cut off, and to no     *)
(* further one once its session is over.  CdpSession decides these steps,   *)
(* CdpProxy takes them; both implement this specification.                  *)
(***************************************************************************)
CONSTANTS Generations, NoGeneration

VARIABLES
  state,       \* unavailable, verifying (only the readiness probe passes), ready
  generation,  \* the generation that the endpoint leads to
  over         \* the session is being disposed

vars == <<state, generation, over>>

Init == state = "unavailable" /\ generation = NoGeneration /\ over = FALSE

Stage(g) ==
  /\ ~over /\ state = "unavailable"
  /\ state' = "verifying" /\ generation' = g
  /\ UNCHANGED over

Publish ==
  /\ ~over /\ state = "verifying"
  /\ state' = "ready"
  /\ UNCHANGED <<generation, over>>

CutOff == state' = "unavailable" /\ generation' = NoGeneration

Clear == CutOff /\ UNCHANGED over

End ==
  /\ ~over /\ over' = TRUE
  /\ CutOff \/ UNCHANGED <<state, generation>>

Next == Publish \/ Clear \/ End \/ \E g \in Generations : Stage(g)

Spec == Init /\ [][Next]_vars
=============================================================================
