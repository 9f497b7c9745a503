----------------------- MODULE DockerLauncherProofs -----------------------
(* Proofs about DockerLauncher, for any display requests and any number of  *)
(* health checks.                                                           *)
EXTENDS DockerLauncher, TLAPS

LEMMA InitSafe == Init => Safe
<1> SUFFICES ASSUME Init PROVE Safe
  OBVIOUS
<1>1. LifeTypes /\ DisplayTypes
  BY DEF Init, LifeTypes, DisplayTypes, Stages
<1>2. RequestTypes /\ CheckTypes
  BY DEF Init, RequestTypes, CheckTypes
<1>3. Stopped /\ Noted /\ HealthAnswered
  BY DEF Init, Stopped, Noted, HealthAnswered
<1>4. ReportsTrue
  BY DEF Init, ReportsTrue, ChildrenOwned, FailureReported, HealthFresh
<1> QED BY <1>1, <1>2, <1>3, <1>4 DEF Safe, TypeOK

-----------------------------------------------------------------------------
(* The life of the launcher and the CLI.                                    *)

LEMMA StartSafe == ASSUME Safe, Start PROVE Safe'
<1>1. LifeTypes'
  BY DEF Start, endVars, Safe, TypeOK, Stages, LifeTypes
<1>2. DisplayTypes'
  BY DEF Start, displayVars, Safe, TypeOK, DisplayTypes
<1>3. RequestTypes'
  BY DEF Start, Safe, TypeOK, RequestTypes
<1>4. CheckTypes'
  BY DEF Start, checkVars, Safe, TypeOK, CheckTypes
<1>5. Stopped'
  BY DEF Start, displayVars, Safe, Stopped
<1>6. Noted'
  BY DEF Start, displayVars, endVars, Safe, Noted
<1>7. HealthAnswered'
  BY DEF Start, checkVars, Safe, HealthAnswered
<1>8. ReportsTrue'
  BY DEF Start, displayVars, checkVars, Safe, ReportsTrue, ChildrenOwned, FailureReported,
         HealthFresh
<1> QED BY <1>1, <1>2, <1>3, <1>4, <1>5, <1>6, <1>7, <1>8 DEF Safe, TypeOK

LEMMA StartFailsSafe == ASSUME Safe, NEW what \in {"health channel", "spawn"}, StartFails(what) PROVE Safe'
<1>1. LifeTypes'
  BY DEF StartFails, BeginFailure, BeginShutdown, endVars, Safe, TypeOK, Stages, LifeTypes
<1>2. DisplayTypes'
  BY DEF StartFails, displayVars, Safe, TypeOK, DisplayTypes
<1>3. RequestTypes'
  BY DEF StartFails, Safe, TypeOK, RequestTypes
<1>4. CheckTypes'
  BY DEF StartFails, BeginFailure, BeginShutdown, Rejected, checkVars, Safe, TypeOK, CheckTypes
<1>5. Stopped'
  BY DEF StartFails, BeginFailure, BeginShutdown, displayVars, Safe, Stopped
<1>6. Noted'
  BY DEF StartFails, BeginFailure, BeginShutdown, endVars, Safe, Noted
<1>7. HealthAnswered'
  BY DEF StartFails, BeginFailure, BeginShutdown, Rejected, checkVars, Safe, HealthAnswered
<1>8. ReportsTrue'
  BY DEF StartFails, BeginFailure, BeginShutdown, displayVars, checkVars, Safe, ReportsTrue,
         ChildrenOwned, FailureReported, HealthFresh
<1> QED BY <1>1, <1>2, <1>3, <1>4, <1>5, <1>6, <1>7, <1>8 DEF Safe, TypeOK

LEMMA SignalSafe == ASSUME Safe, Signal PROVE Safe'
<1>1. LifeTypes'
  BY DEF Signal, BeginShutdown, Safe, TypeOK, Stages, LifeTypes
<1>2. DisplayTypes'
  BY DEF Signal, displayVars, Safe, TypeOK, DisplayTypes
<1>3. RequestTypes'
  BY DEF Signal, Safe, TypeOK, RequestTypes
<1>4. CheckTypes'
  BY DEF Signal, BeginShutdown, Rejected, checkVars, Safe, TypeOK, CheckTypes
<1>5. Stopped'
  BY DEF Signal, Lives, BeginShutdown, displayVars, Safe, Stopped
<1>6. Noted'
  BY DEF Signal, Lives, BeginShutdown, displayVars, Safe, Noted
<1>7. HealthAnswered'
  BY DEF Signal, BeginShutdown, Rejected, checkVars, Safe, HealthAnswered
<1>8. ReportsTrue'
  BY DEF Signal, Lives, BeginShutdown, displayVars, checkVars, Safe, Stopped, ReportsTrue,
         ChildrenOwned, FailureReported, HealthFresh
<1> QED BY <1>1, <1>2, <1>3, <1>4, <1>5, <1>6, <1>7, <1>8 DEF Safe, TypeOK

LEMMA SignalAgainSafe == ASSUME Safe, SignalAgain PROVE Safe'
<1>0. cli' = Ended(cli) /\ xvfb' = Ended(xvfb) /\ stage' = "dead"
  BY DEF SignalAgain
<1>1. LifeTypes'
  BY <1>0 DEF SignalAgain, Ended, endVars, Safe, TypeOK, Stages, LifeTypes
<1>2. DisplayTypes'
  BY <1>0 DEF SignalAgain, Ended, Safe, TypeOK, DisplayTypes
<1>3. RequestTypes'
  BY DEF SignalAgain, Safe, TypeOK, RequestTypes
<1>4. CheckTypes'
  BY DEF SignalAgain, Safe, TypeOK, CheckTypes
<1>5. Stopped'
  BY <1>0 DEF SignalAgain, Ended, Safe, Stopped
<1>6. Noted'
  BY <1>0 DEF SignalAgain, Lives, Ended, endVars, Safe, Noted
<1>7. HealthAnswered'
  BY DEF SignalAgain, Safe, HealthAnswered
<1>8. ReportsTrue'
  BY <1>0 DEF SignalAgain, Safe, ReportsTrue, ChildrenOwned, FailureReported, HealthFresh
<1> QED BY <1>1, <1>2, <1>3, <1>4, <1>5, <1>6, <1>7, <1>8 DEF Safe, TypeOK

LEMMA CliExitsSafe == ASSUME Safe, NEW code \in {"0", "2"}, CliExits(code) PROVE Safe'
<1>1. LifeTypes'
  BY DEF CliExits, BeginShutdown, endVars, Safe, TypeOK, Stages, LifeTypes
<1>2. DisplayTypes'
  BY DEF CliExits, displayVars, Safe, TypeOK, DisplayTypes
<1>3. RequestTypes'
  BY DEF CliExits, Safe, TypeOK, RequestTypes
<1>4. CheckTypes'
  BY DEF CliExits, BeginShutdown, Rejected, checkVars, Safe, TypeOK, CheckTypes
<1>5. Stopped'
  BY DEF CliExits, BeginShutdown, displayVars, endVars, Safe, Stopped
<1>6. Noted'
  BY DEF CliExits, BeginShutdown, displayVars, endVars, Safe, Noted
<1>7. HealthAnswered'
  BY DEF CliExits, BeginShutdown, Rejected, checkVars, Safe, HealthAnswered
<1>8. ReportsTrue'
  BY DEF CliExits, BeginShutdown, displayVars, checkVars, endVars, Safe, Noted, ReportsTrue,
         ChildrenOwned, FailureReported, HealthFresh
<1> QED BY <1>1, <1>2, <1>3, <1>4, <1>5, <1>6, <1>7, <1>8 DEF Safe, TypeOK

-----------------------------------------------------------------------------
(* The display.                                                             *)

LEMMA AskSafe == ASSUME Safe, NEW r \in Requests, Ask(r) PROVE Safe'
<1>1. LifeTypes'
  BY DEF Ask, Lives, endVars, Safe, TypeOK, LifeTypes
<1>2. DisplayTypes'
  BY DEF Ask, Lives, displayVars, Safe, TypeOK, DisplayTypes
<1>3. RequestTypes'
  BY DEF Ask, Lives, Safe, TypeOK, RequestTypes
<1>4. CheckTypes'
  BY DEF Ask, Lives, checkVars, Safe, TypeOK, CheckTypes
<1>5. Stopped'
  BY DEF Ask, Lives, displayVars, endVars, Safe, Stopped
<1>6. Noted'
  BY DEF Ask, Lives, displayVars, endVars, Safe, Noted
<1>7. HealthAnswered'
  BY DEF Ask, Lives, checkVars, Safe, HealthAnswered
<1>8. ReportsTrue'
  BY DEF Ask, Lives, displayVars, checkVars, Safe, ReportsTrue, ChildrenOwned, FailureReported,
         HealthFresh
<1> QED BY <1>1, <1>2, <1>3, <1>4, <1>5, <1>6, <1>7, <1>8 DEF Safe, TypeOK

LEMMA HandleRequestSafe == ASSUME Safe, NEW r \in Requests, HandleRequest(r) PROVE Safe'
<1>1. LifeTypes'
  BY DEF HandleRequest, BeginFailure, BeginShutdown, endVars, Safe, TypeOK, Stages, LifeTypes
<1>0. /\ spawned' \in {spawned, 1}
      /\ <<phase', startup'>> \in {<<phase, startup>>, <<"starting", "probing">>}
      /\ xvfb' \in {xvfb, "running", "unstarted"} /\ failure' = failure
  <2>1. CASE Starts
    <3>1. spawned' = spawned + 1
      BY <2>1 DEF HandleRequest
    <3>2. spawned = 0
      BY <2>1 DEF Starts, Safe, Stopped
    <3> QED BY <2>1, <3>1, <3>2 DEF HandleRequest
  <2>2. CASE ~Starts
    BY <2>2 DEF HandleRequest
  <2> QED BY <2>1, <2>2
<1>10. inTime' \in BOOLEAN
  BY DEF HandleRequest, Safe, TypeOK, DisplayTypes
<1>9. exitCode' = exitCode /\ killed' = killed /\ stage # "done" /\ stage' # "done"
  <2>1. stage' = stage \/ stage' = "closing"
    BY DEF HandleRequest, BeginFailure, BeginShutdown
  <2> QED BY <2>1 DEF HandleRequest, Delivered, Lives, endVars
<1>2. DisplayTypes'
  BY <1>0, <1>10 DEF Safe, TypeOK, DisplayTypes
<1>3. RequestTypes'
  BY DEF HandleRequest, Admission, Safe, TypeOK, RequestTypes
<1>4. CheckTypes'
  BY DEF HandleRequest, BeginFailure, BeginShutdown, Rejected, checkVars, Safe, TypeOK,
         CheckTypes
<1>5. Stopped'
  BY DEF HandleRequest, Delivered, Lives, BeginFailure, BeginShutdown, endVars, Safe, Stopped
<1>6. Noted'
  BY DEF HandleRequest, Admission, Delivered, Lives, BeginFailure, BeginShutdown, endVars, Safe, Noted
<1>7. HealthAnswered'
  BY DEF HandleRequest, BeginFailure, BeginShutdown, Rejected, checkVars, Safe, HealthAnswered
<1>8. ReportsTrue'
  BY <1>0, <1>2, <1>7, <1>9 DEF HandleRequest, checkVars, Safe, TypeOK, CheckTypes, DisplayTypes,
     ReportsTrue, ChildrenOwned, FailureReported, HealthFresh
<1> QED BY <1>1, <1>2, <1>3, <1>4, <1>5, <1>6, <1>7, <1>8 DEF Safe, TypeOK

LEMMA ProbedSafe == ASSUME Safe, NEW up \in BOOLEAN, Probed(up) PROVE Safe'
<1>1. LifeTypes'
  BY DEF Probed, Lives, endVars, Safe, TypeOK, LifeTypes
<1>2. DisplayTypes'
  BY DEF Probed, Lives, Safe, TypeOK, DisplayTypes
<1>3. RequestTypes'
  BY DEF Probed, Lives, Settle, Safe, TypeOK, RequestTypes
<1>4. CheckTypes'
  BY DEF Probed, Lives, checkVars, Safe, TypeOK, CheckTypes
<1>5. Stopped'
  BY DEF Probed, Lives, endVars, Safe, Stopped
<1>6. Noted'
  BY DEF Probed, Lives, Settle, endVars, Safe, Noted
<1>7. HealthAnswered'
  BY DEF Probed, Lives, checkVars, Safe, HealthAnswered
<1>8. ReportsTrue'
  BY DEF Probed, Lives, checkVars, Safe, ReportsTrue, ChildrenOwned, FailureReported, HealthFresh
<1> QED BY <1>1, <1>2, <1>3, <1>4, <1>5, <1>6, <1>7, <1>8 DEF Safe, TypeOK

LEMMA ProbeAgainSafe == ASSUME Safe, ProbeAgain PROVE Safe'
<1>1. LifeTypes'
  BY DEF ProbeAgain, Lives, endVars, Safe, TypeOK, LifeTypes
<1>2. DisplayTypes'
  BY DEF ProbeAgain, Lives, Safe, TypeOK, DisplayTypes
<1>3. RequestTypes'
  BY DEF ProbeAgain, Lives, Safe, TypeOK, RequestTypes
<1>4. CheckTypes'
  BY DEF ProbeAgain, Lives, checkVars, Safe, TypeOK, CheckTypes
<1>5. Stopped'
  BY DEF ProbeAgain, Lives, endVars, Safe, Stopped
<1>6. Noted'
  BY DEF ProbeAgain, Lives, endVars, Safe, Noted
<1>7. HealthAnswered'
  BY DEF ProbeAgain, Lives, checkVars, Safe, HealthAnswered
<1>8. ReportsTrue'
  BY DEF ProbeAgain, Lives, checkVars, Safe, ReportsTrue, ChildrenOwned, FailureReported, HealthFresh
<1> QED BY <1>1, <1>2, <1>3, <1>4, <1>5, <1>6, <1>7, <1>8 DEF Safe, TypeOK

LEMMA GiveUpSafe == ASSUME Safe, GiveUp PROVE Safe'
<1>1. LifeTypes'
  BY DEF GiveUp, Lives, Failed, BeginFailure, BeginShutdown, endVars, Safe, TypeOK, Stages, LifeTypes
<1>2. DisplayTypes'
  BY DEF GiveUp, Lives, Failed, Safe, TypeOK, DisplayTypes
<1>3. RequestTypes'
  BY DEF GiveUp, Lives, Settle, Safe, TypeOK, RequestTypes
<1>4. CheckTypes'
  BY DEF GiveUp, Lives, Failed, BeginFailure, BeginShutdown, Rejected, checkVars, Safe, TypeOK,
         CheckTypes
<1>5. Stopped'
  BY DEF GiveUp, Lives, Failed, BeginFailure, BeginShutdown, endVars, Safe, Stopped
<1>6. Noted'
  BY DEF GiveUp, Lives, Failed, BeginFailure, BeginShutdown, endVars, Safe, Noted
<1>7. HealthAnswered'
  BY DEF GiveUp, Lives, Failed, BeginFailure, BeginShutdown, Rejected, checkVars, Safe, HealthAnswered
<1>8. ReportsTrue'
  BY DEF GiveUp, Lives, Failed, BeginFailure, BeginShutdown, checkVars, Safe, ReportsTrue,
         ChildrenOwned, FailureReported, HealthFresh
<1> QED BY <1>1, <1>2, <1>3, <1>4, <1>5, <1>6, <1>7, <1>8 DEF Safe, TypeOK

LEMMA XvfbErrorSafe == ASSUME Safe, XvfbError PROVE Safe'
<1>1. LifeTypes'
  BY DEF XvfbError, Lives, Failed, BeginFailure, BeginShutdown, endVars, Safe, TypeOK, Stages, LifeTypes
<1>2. DisplayTypes'
  BY DEF XvfbError, Lives, Failed, Safe, TypeOK, DisplayTypes
<1>3. RequestTypes'
  BY DEF XvfbError, Lives, Safe, TypeOK, RequestTypes
<1>4. CheckTypes'
  BY DEF XvfbError, Lives, Failed, BeginFailure, BeginShutdown, Rejected, checkVars, Safe, TypeOK,
         CheckTypes
<1>5. Stopped'
  BY DEF XvfbError, Lives, Failed, BeginFailure, BeginShutdown, endVars, Safe, Stopped
<1>6. Noted'
  BY DEF XvfbError, Lives, Failed, BeginFailure, BeginShutdown, endVars, Safe, Noted
<1>7. HealthAnswered'
  BY DEF XvfbError, Lives, Failed, BeginFailure, BeginShutdown, Rejected, checkVars, Safe,
         HealthAnswered
<1>8. ReportsTrue'
  BY DEF XvfbError, Lives, Failed, BeginFailure, BeginShutdown, checkVars, Safe, ReportsTrue,
         ChildrenOwned, FailureReported, HealthFresh
<1> QED BY <1>1, <1>2, <1>3, <1>4, <1>5, <1>6, <1>7, <1>8 DEF Safe, TypeOK

LEMMA XvfbExitsSafe == ASSUME Safe, XvfbExits PROVE Safe'
<1>1. LifeTypes'
  BY DEF XvfbExits, Lives, Failed, BeginFailure, BeginShutdown, endVars, Safe, TypeOK, Stages, LifeTypes
<1>2. DisplayTypes'
  BY DEF XvfbExits, Lives, Failed, Safe, TypeOK, DisplayTypes
<1>3. RequestTypes'
  BY DEF XvfbExits, Lives, Safe, TypeOK, RequestTypes
<1>4. CheckTypes'
  BY DEF XvfbExits, Lives, Failed, BeginFailure, BeginShutdown, Rejected, checkVars, Safe, TypeOK,
         CheckTypes
<1>5. Stopped'
  BY DEF XvfbExits, Lives, Failed, BeginFailure, BeginShutdown, endVars, Safe, Stopped
<1>6. Noted'
  BY DEF XvfbExits, Lives, Failed, BeginFailure, BeginShutdown, endVars, Safe, Noted
<1>7. HealthAnswered'
  BY DEF XvfbExits, Lives, Failed, BeginFailure, BeginShutdown, Rejected, checkVars, Safe,
         HealthAnswered
<1>8. ReportsTrue'
  BY DEF XvfbExits, Lives, Failed, BeginFailure, BeginShutdown, checkVars, Safe, ReportsTrue,
         ChildrenOwned, FailureReported, HealthFresh
<1> QED BY <1>1, <1>2, <1>3, <1>4, <1>5, <1>6, <1>7, <1>8 DEF Safe, TypeOK

LEMMA ReplySafe == ASSUME Safe, NEW r \in Requests, Reply(r) PROVE Safe'
<1>1. LifeTypes'
  BY DEF Reply, Lives, endVars, Safe, TypeOK, LifeTypes
<1>2. DisplayTypes'
  BY DEF Reply, Lives, displayVars, Safe, TypeOK, DisplayTypes
<1>3. RequestTypes'
  BY DEF Reply, Lives, Safe, TypeOK, RequestTypes
<1>4. CheckTypes'
  BY DEF Reply, Lives, checkVars, Safe, TypeOK, CheckTypes
<1>5. Stopped'
  BY DEF Reply, Lives, displayVars, endVars, Safe, Stopped
<1>6. Noted'
  BY DEF Reply, Lives, displayVars, endVars, Safe, Noted
<1>7. HealthAnswered'
  BY DEF Reply, Lives, checkVars, Safe, HealthAnswered
<1>8. ReportsTrue'
  BY DEF Reply, Lives, displayVars, checkVars, Safe, ReportsTrue, ChildrenOwned, FailureReported,
         HealthFresh
<1> QED BY <1>1, <1>2, <1>3, <1>4, <1>5, <1>6, <1>7, <1>8 DEF Safe, TypeOK

LEMMA ReplyFailsSafe == ASSUME Safe, NEW r \in Requests, ReplyFails(r) PROVE Safe'
<1>1. LifeTypes'
  BY DEF ReplyFails, Lives, BeginFailure, BeginShutdown, endVars, Safe, TypeOK, Stages, LifeTypes
<1>2. DisplayTypes'
  BY DEF ReplyFails, Lives, displayVars, Safe, TypeOK, DisplayTypes
<1>3. RequestTypes'
  BY DEF ReplyFails, Lives, Safe, TypeOK, RequestTypes
<1>4. CheckTypes'
  BY DEF ReplyFails, Lives, BeginFailure, BeginShutdown, Rejected, checkVars, Safe, TypeOK, CheckTypes
<1>5. Stopped'
  BY DEF ReplyFails, Lives, BeginFailure, BeginShutdown, displayVars, endVars, Safe, Stopped
<1>6. Noted'
  BY DEF ReplyFails, Lives, BeginFailure, BeginShutdown, endVars, Safe, Noted
<1>7. HealthAnswered'
  BY DEF ReplyFails, Lives, BeginFailure, BeginShutdown, Rejected, checkVars, Safe, HealthAnswered
<1>8. ReportsTrue'
  BY DEF ReplyFails, Lives, BeginFailure, BeginShutdown, displayVars, checkVars, Safe, ReportsTrue,
         ChildrenOwned, FailureReported, HealthFresh
<1> QED BY <1>1, <1>2, <1>3, <1>4, <1>5, <1>6, <1>7, <1>8 DEF Safe, TypeOK

LEMMA DisconnectedSafe == ASSUME Safe, NEW r \in Requests, Disconnected(r) PROVE Safe'
<1>1. LifeTypes'
  BY DEF Disconnected, endVars, Safe, TypeOK, LifeTypes
<1>2. DisplayTypes'
  BY DEF Disconnected, displayVars, Safe, TypeOK, DisplayTypes
<1>3. RequestTypes'
  BY DEF Disconnected, Safe, TypeOK, RequestTypes
<1>4. CheckTypes'
  BY DEF Disconnected, checkVars, Safe, TypeOK, CheckTypes
<1>5. Stopped'
  BY DEF Disconnected, displayVars, endVars, Safe, Stopped
<1>6. Noted'
  BY DEF Disconnected, displayVars, endVars, Safe, Noted
<1>7. HealthAnswered'
  BY DEF Disconnected, checkVars, Safe, HealthAnswered
<1>8. ReportsTrue'
  BY DEF Disconnected, displayVars, checkVars, endVars, Safe, ReportsTrue, ChildrenOwned,
         FailureReported, HealthFresh
<1> QED BY <1>1, <1>2, <1>3, <1>4, <1>5, <1>6, <1>7, <1>8 DEF Safe, TypeOK

-----------------------------------------------------------------------------
(* The health check.                                                        *)

LEMMA ConnectSafe == ASSUME Safe, Connect PROVE Safe'
<1>1. LifeTypes'
  BY DEF Connect, endVars, Safe, TypeOK, LifeTypes
<1>2. DisplayTypes'
  BY DEF Connect, displayVars, Safe, TypeOK, DisplayTypes
<1>3. RequestTypes'
  BY DEF Connect, Safe, TypeOK, RequestTypes
<1>4. CheckTypes'
  BY DEF Connect, Safe, TypeOK, CheckTypes
<1>5. Stopped'
  BY DEF Connect, displayVars, Safe, Stopped
<1>6. Noted'
  BY DEF Connect, displayVars, endVars, Safe, Noted
<1>7. HealthAnswered'
  BY DEF Connect, Safe, HealthAnswered
<1>8. ReportsTrue'
  BY DEF Connect, displayVars, Safe, ReportsTrue, ChildrenOwned, FailureReported, HealthFresh
<1> QED BY <1>1, <1>2, <1>3, <1>4, <1>5, <1>6, <1>7, <1>8 DEF Safe, TypeOK

LEMMA CheckHealthSafe == ASSUME Safe, NEW w \in BOOLEAN, CheckHealth(w) PROVE Safe'
<1>1. LifeTypes'
  BY DEF CheckHealth, endVars, Safe, TypeOK, LifeTypes
<1>2. DisplayTypes'
  BY DEF CheckHealth, displayVars, Safe, TypeOK, DisplayTypes
<1>3. RequestTypes'
  BY DEF CheckHealth, Safe, TypeOK, RequestTypes
<1>4. CheckTypes'
  BY DEF CheckHealth, ProbeCli, Safe, TypeOK, CheckTypes
<1>5. Stopped'
  BY DEF CheckHealth, displayVars, endVars, Safe, Stopped
<1>6. Noted'
  BY DEF CheckHealth, displayVars, endVars, Safe, Noted
<1>7. HealthAnswered'
  BY DEF CheckHealth, ProbeCli, Safe, HealthAnswered
<1>8. ReportsTrue'
  BY DEF CheckHealth, displayVars, endVars, Safe, ReportsTrue, ChildrenOwned, FailureReported,
         HealthFresh
<1> QED BY <1>1, <1>2, <1>3, <1>4, <1>5, <1>6, <1>7, <1>8 DEF Safe, TypeOK

LEMMA DisplayCheckedSafe == ASSUME Safe, NEW up \in BOOLEAN, DisplayChecked(up) PROVE Safe'
<1>1. LifeTypes'
  BY DEF DisplayChecked, endVars, Safe, TypeOK, LifeTypes
<1>2. DisplayTypes'
  BY DEF DisplayChecked, displayVars, Safe, TypeOK, DisplayTypes
<1>3. RequestTypes'
  BY DEF DisplayChecked, Safe, TypeOK, RequestTypes
<1>4. CheckTypes'
  BY DEF DisplayChecked, ProbeCli, Safe, TypeOK, CheckTypes
<1>5. Stopped'
  BY DEF DisplayChecked, displayVars, endVars, Safe, Stopped
<1>6. Noted'
  BY DEF DisplayChecked, displayVars, endVars, Safe, Noted
<1>7. HealthAnswered'
  BY DEF DisplayChecked, ProbeCli, Safe, HealthAnswered
<1>8. ReportsTrue'
  BY DEF DisplayChecked, displayVars, endVars, Safe, ReportsTrue, ChildrenOwned, FailureReported,
         HealthFresh
<1> QED BY <1>1, <1>2, <1>3, <1>4, <1>5, <1>6, <1>7, <1>8 DEF Safe, TypeOK

LEMMA CliAnswersSafe == ASSUME Safe, NEW n \in asked, CliAnswers(n) PROVE Safe'
<1>1. LifeTypes'
  BY DEF CliAnswers, endVars, Safe, TypeOK, LifeTypes
<1>2. DisplayTypes'
  BY DEF CliAnswers, displayVars, Safe, TypeOK, DisplayTypes
<1>3. RequestTypes'
  BY DEF CliAnswers, Safe, TypeOK, RequestTypes
<1>4. CheckTypes'
  BY DEF CliAnswers, Safe, TypeOK, CheckTypes
<1>5. Stopped'
  BY DEF CliAnswers, displayVars, endVars, Safe, Stopped
<1>6. Noted'
  BY DEF CliAnswers, displayVars, endVars, Safe, Noted
<1>7. HealthAnswered'
  BY DEF CliAnswers, Safe, HealthAnswered
<1>8. ReportsTrue'
  BY DEF CliAnswers, displayVars, endVars, Safe, ReportsTrue, ChildrenOwned, FailureReported,
         HealthFresh
<1> QED BY <1>1, <1>2, <1>3, <1>4, <1>5, <1>6, <1>7, <1>8 DEF Safe, TypeOK

LEMMA HandleAnswerSafe == ASSUME Safe, NEW n \in wire, HandleAnswer(n) PROVE Safe'
<1>1. LifeTypes'
  BY DEF HandleAnswer, endVars, Safe, TypeOK, LifeTypes
<1>2. DisplayTypes'
  BY DEF HandleAnswer, displayVars, Safe, TypeOK, DisplayTypes
<1>3. RequestTypes'
  BY DEF HandleAnswer, Safe, TypeOK, RequestTypes
<1>4. CheckTypes'
  BY DEF HandleAnswer, Safe, TypeOK, CheckTypes
<1>5. Stopped'
  BY DEF HandleAnswer, displayVars, endVars, Safe, Stopped
<1>6. Noted'
  BY DEF HandleAnswer, displayVars, endVars, Safe, Noted
<1>7. HealthAnswered'
  BY DEF HandleAnswer, Awaited, Safe, HealthAnswered
<1>8. ReportsTrue'
  BY DEF HandleAnswer, Awaited, Delivered, Lives, displayVars, Safe, TypeOK, LifeTypes, DisplayTypes,
         RequestTypes, CheckTypes, ReportsTrue, ChildrenOwned, FailureReported, HealthFresh
<1> QED BY <1>1, <1>2, <1>3, <1>4, <1>5, <1>6, <1>7, <1>8 DEF Safe, TypeOK

LEMMA CliProbeTimeoutSafe == ASSUME Safe, CliProbeTimeout PROVE Safe'
<1>1. LifeTypes'
  BY DEF CliProbeTimeout, endVars, Safe, TypeOK, LifeTypes
<1>2. DisplayTypes'
  BY DEF CliProbeTimeout, displayVars, Safe, TypeOK, DisplayTypes
<1>3. RequestTypes'
  BY DEF CliProbeTimeout, Safe, TypeOK, RequestTypes
<1>4. CheckTypes'
  BY DEF CliProbeTimeout, checkVars, Safe, TypeOK, CheckTypes
<1>5. Stopped'
  BY DEF CliProbeTimeout, displayVars, endVars, Safe, Stopped
<1>6. Noted'
  BY DEF CliProbeTimeout, displayVars, endVars, Safe, Noted
<1>7. HealthAnswered'
  BY DEF CliProbeTimeout, checkVars, Safe, HealthAnswered
<1>8. ReportsTrue'
  BY DEF CliProbeTimeout, displayVars, checkVars, endVars, Safe, ReportsTrue, ChildrenOwned,
         FailureReported, HealthFresh
<1> QED BY <1>1, <1>2, <1>3, <1>4, <1>5, <1>6, <1>7, <1>8 DEF Safe, TypeOK

LEMMA EndCheckSafe == ASSUME Safe, NEW v \in {"ok", "refused"}, EndCheck(v) PROVE Safe'
<1>1. LifeTypes'
  BY DEF EndCheck, endVars, Safe, TypeOK, LifeTypes
<1>2. DisplayTypes'
  BY DEF EndCheck, displayVars, Safe, TypeOK, DisplayTypes
<1>3. RequestTypes'
  BY DEF EndCheck, Safe, TypeOK, RequestTypes
<1>4. CheckTypes'
  BY DEF EndCheck, Safe, TypeOK, CheckTypes
<1>5. Stopped'
  BY DEF EndCheck, displayVars, endVars, Safe, Stopped
<1>6. Noted'
  BY DEF EndCheck, displayVars, endVars, Safe, Noted
<1>7. HealthAnswered'
  BY DEF EndCheck, Safe, HealthAnswered
<1>8. ReportsTrue'
  BY DEF EndCheck, displayVars, endVars, Safe, HealthAnswered, ReportsTrue, ChildrenOwned,
         FailureReported, HealthFresh
<1> QED BY <1>1, <1>2, <1>3, <1>4, <1>5, <1>6, <1>7, <1>8 DEF Safe, TypeOK

-----------------------------------------------------------------------------
(* The shutdown.                                                            *)

LEMMA CloseServerSafe == ASSUME Safe, CloseServer PROVE Safe'
<1>1. LifeTypes'
  BY DEF CloseServer, endVars, Safe, TypeOK, Stages, LifeTypes
<1>2. DisplayTypes'
  BY DEF CloseServer, displayVars, Safe, TypeOK, DisplayTypes
<1>3. RequestTypes'
  BY DEF CloseServer, Safe, TypeOK, RequestTypes
<1>4. CheckTypes'
  BY DEF CloseServer, checkVars, Safe, TypeOK, CheckTypes
<1>5. Stopped'
  BY DEF CloseServer, displayVars, Safe, Stopped
<1>6. Noted'
  BY DEF CloseServer, displayVars, endVars, Safe, Noted
<1>7. HealthAnswered'
  BY DEF CloseServer, checkVars, Safe, HealthAnswered
<1>8. ReportsTrue'
  BY DEF CloseServer, displayVars, checkVars, Safe, ReportsTrue, ChildrenOwned, FailureReported,
         HealthFresh
<1> QED BY <1>1, <1>2, <1>3, <1>4, <1>5, <1>6, <1>7, <1>8 DEF Safe, TypeOK

LEMMA CliStoppedSafe == ASSUME Safe, CliStopped PROVE Safe'
<1>1. LifeTypes'
  BY DEF CliStopped, endVars, Safe, TypeOK, Stages, LifeTypes
<1>2. DisplayTypes'
  BY DEF CliStopped, displayVars, Safe, TypeOK, DisplayTypes
<1>3. RequestTypes'
  BY DEF CliStopped, Safe, TypeOK, RequestTypes
<1>4. CheckTypes'
  BY DEF CliStopped, checkVars, Safe, TypeOK, CheckTypes
<1>5. Stopped'
  BY DEF CliStopped, displayVars, Safe, Stopped
<1>6. Noted'
  BY DEF CliStopped, displayVars, endVars, Safe, Noted
<1>7. HealthAnswered'
  BY DEF CliStopped, checkVars, Safe, HealthAnswered
<1>8. ReportsTrue'
  BY DEF CliStopped, displayVars, checkVars, Safe, ReportsTrue, ChildrenOwned, FailureReported,
         HealthFresh
<1> QED BY <1>1, <1>2, <1>3, <1>4, <1>5, <1>6, <1>7, <1>8 DEF Safe, TypeOK

LEMMA CliTimeoutSafe == ASSUME Safe, CliTimeout PROVE Safe'
<1>1. LifeTypes'
  BY DEF CliTimeout, Safe, TypeOK, Stages, LifeTypes
<1>2. DisplayTypes'
  BY DEF CliTimeout, displayVars, Safe, TypeOK, DisplayTypes
<1>3. RequestTypes'
  BY DEF CliTimeout, Safe, TypeOK, RequestTypes
<1>4. CheckTypes'
  BY DEF CliTimeout, checkVars, Safe, TypeOK, CheckTypes
<1>5. Stopped'
  BY DEF CliTimeout, displayVars, Safe, Stopped
<1>6. Noted'
  BY DEF CliTimeout, displayVars, Safe, Noted
<1>7. HealthAnswered'
  BY DEF CliTimeout, checkVars, Safe, HealthAnswered
<1>8. ReportsTrue'
  BY DEF CliTimeout, displayVars, checkVars, Safe, ReportsTrue, ChildrenOwned, FailureReported,
         HealthFresh
<1> QED BY <1>1, <1>2, <1>3, <1>4, <1>5, <1>6, <1>7, <1>8 DEF Safe, TypeOK

LEMMA StopDisplaySafe == ASSUME Safe, StopDisplay PROVE Safe'
<1>1. LifeTypes'
  BY DEF StopDisplay, Finish, FinalExitCode, Safe, TypeOK, Stages, LifeTypes
<1>2. DisplayTypes'
  BY DEF StopDisplay, Safe, TypeOK, DisplayTypes
<1>3. RequestTypes'
  BY DEF StopDisplay, Safe, TypeOK, RequestTypes
<1>4. CheckTypes'
  BY DEF StopDisplay, checkVars, Safe, TypeOK, CheckTypes
<1>5. Stopped'
  BY DEF StopDisplay, NeverStarted, Finish, Safe, Stopped
<1>6. Noted'
  BY DEF StopDisplay, Finish, FinalExitCode, Safe, Noted
<1>7. HealthAnswered'
  BY DEF StopDisplay, checkVars, Safe, HealthAnswered
<1>8. ReportsTrue'
  BY DEF StopDisplay, NeverStarted, Finish, FinalExitCode, checkVars, Safe, Stopped, Noted,
         ReportsTrue, ChildrenOwned, FailureReported, HealthFresh
<1> QED BY <1>1, <1>2, <1>3, <1>4, <1>5, <1>6, <1>7, <1>8 DEF Safe, TypeOK

LEMMA DisplayStoppedSafe == ASSUME Safe, DisplayStopped PROVE Safe'
<1>1. LifeTypes'
  BY DEF DisplayStopped, Finish, FinalExitCode, Safe, TypeOK, Stages, LifeTypes
<1>2. DisplayTypes'
  BY DEF DisplayStopped, displayVars, Safe, TypeOK, DisplayTypes
<1>3. RequestTypes'
  BY DEF DisplayStopped, Safe, TypeOK, RequestTypes
<1>4. CheckTypes'
  BY DEF DisplayStopped, checkVars, Safe, TypeOK, CheckTypes
<1>5. Stopped'
  BY DEF DisplayStopped, Finish, displayVars, Safe, Stopped
<1>6. Noted'
  BY DEF DisplayStopped, Finish, FinalExitCode, displayVars, Safe, Noted
<1>7. HealthAnswered'
  BY DEF DisplayStopped, checkVars, Safe, HealthAnswered
<1>8. ReportsTrue'
  BY DEF DisplayStopped, Finish, FinalExitCode, displayVars, checkVars, Safe, Stopped, Noted,
         ReportsTrue, ChildrenOwned, FailureReported, HealthFresh
<1> QED BY <1>1, <1>2, <1>3, <1>4, <1>5, <1>6, <1>7, <1>8 DEF Safe, TypeOK

LEMMA DisplayTimeoutSafe == ASSUME Safe, DisplayTimeout PROVE Safe'
<1>1. LifeTypes'
  BY DEF DisplayTimeout, Finish, FinalExitCode, Safe, TypeOK, Stages, LifeTypes
<1>2. DisplayTypes'
  BY DEF DisplayTimeout, displayVars, Safe, TypeOK, DisplayTypes
<1>3. RequestTypes'
  BY DEF DisplayTimeout, Safe, TypeOK, RequestTypes
<1>4. CheckTypes'
  BY DEF DisplayTimeout, checkVars, Safe, TypeOK, CheckTypes
<1>5. Stopped'
  BY DEF DisplayTimeout, Finish, displayVars, Safe, Stopped
<1>6. Noted'
  BY DEF DisplayTimeout, Finish, FinalExitCode, displayVars, Safe, Noted
<1>7. HealthAnswered'
  BY DEF DisplayTimeout, checkVars, Safe, HealthAnswered
<1>8. ReportsTrue'
  BY DEF DisplayTimeout, Finish, FinalExitCode, displayVars, checkVars, Safe, Stopped, Noted,
         ReportsTrue, ChildrenOwned, FailureReported, HealthFresh
<1> QED BY <1>1, <1>2, <1>3, <1>4, <1>5, <1>6, <1>7, <1>8 DEF Safe, TypeOK

-----------------------------------------------------------------------------
(* Every step.                                                              *)

LEMMA StutterSafe == ASSUME Safe, UNCHANGED vars PROVE Safe'
<1> USE DEF vars, displayVars, checkVars, endVars
<1>1. TypeOK'
  <2>1. LifeTypes'
    BY DEF Safe, TypeOK, LifeTypes
  <2>2. DisplayTypes'
    BY DEF Safe, TypeOK, DisplayTypes
  <2>3. RequestTypes'
    BY DEF Safe, TypeOK, RequestTypes
  <2>4. CheckTypes'
    BY DEF Safe, TypeOK, CheckTypes
  <2> QED BY <2>1, <2>2, <2>3, <2>4 DEF TypeOK
<1>2. Stopped' /\ Noted' /\ HealthAnswered'
  BY DEF Safe, Stopped, Noted, HealthAnswered
<1>3. ReportsTrue'
  BY DEF Safe, ReportsTrue, ChildrenOwned, FailureReported, HealthFresh
<1> QED BY <1>1, <1>2, <1>3 DEF Safe

LEMMA NextSafe == Safe /\ [Next]_vars => Safe'
<1> SUFFICES ASSUME Safe, [Next]_vars PROVE Safe'
  OBVIOUS
<1>1. CASE Starting
  BY <1>1, StartSafe, StartFailsSafe DEF Starting
<1>2. CASE Signal \/ SignalAgain \/ (\E code \in {"0", "2"} : CliExits(code)) \/ XvfbError \/ XvfbExits
  BY <1>2, SignalSafe, SignalAgainSafe, CliExitsSafe, XvfbErrorSafe, XvfbExitsSafe
<1>3. CASE \E r \in Requests : Ask(r) \/ Answering(r)
  BY <1>3, AskSafe, HandleRequestSafe, ReplySafe, ReplyFailsSafe, DisconnectedSafe DEF Answering
<1>4. CASE Startup
  BY <1>4, ProbedSafe, ProbeAgainSafe, GiveUpSafe DEF Startup
<1>5. CASE Checking
  BY <1>5, ConnectSafe, CheckHealthSafe, DisplayCheckedSafe, CliAnswersSafe, HandleAnswerSafe,
     CliProbeTimeoutSafe, EndCheckSafe DEF Checking
<1>6. CASE Stopping
  BY <1>6, CloseServerSafe, CliStoppedSafe, CliTimeoutSafe, StopDisplaySafe, DisplayStoppedSafe,
     DisplayTimeoutSafe DEF Stopping
<1>7. CASE UNCHANGED vars
  BY <1>7, StutterSafe
<1> QED BY <1>1, <1>2, <1>3, <1>4, <1>5, <1>6, <1>7 DEF Next

(* The invariant holds whatever is asked, fails, hangs or is signalled.     *)
THEOREM LauncherSafe == Spec => []Safe
  BY InitSafe, NextSafe, PTL DEF Spec

(* Every variable of the launcher has its type.                             *)
THEOREM TypeCorrect == Spec => []TypeOK
  BY LauncherSafe, PTL DEF Safe

(* What Docker is told is so: a healthy answer, the exit code, and that no  *)
(* child is left (launcher.ts, #shutdownChildren and run).              *)
THEOREM ReportsCorrect == Spec => []ReportsTrue
  BY LauncherSafe, PTL DEF Safe
=============================================================================
