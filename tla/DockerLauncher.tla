--------------------------- MODULE DockerLauncher ---------------------------
(***************************************************************************)
(* The process that runs a container: it starts the MCP CLI and, on demand,*)
(* one X display (src/src/docker/launcher.ts, display.ts), answers Docker's *)
(* health checks (health.ts, cli-health.ts) and the CLI's requests for the  *)
(* display (control.ts), and ends with the exit code of the container.     *)
(* A timeout may fire as soon as it is armed.  The model ends when the exit *)
(* code is settled.                                                        *)
(***************************************************************************)
EXTENDS Naturals, FiniteSets

CONSTANTS Requests,   \* the display requests the CLI may send
          MaxChecks   \* bound: health checks Docker makes

VARIABLES
  cli, cliCode,                                  \* the CLI and its exit code
  xvfb, spawned, phase, failure, startup, inTime, \* DockerDisplayManager
  request,                                       \* the display requests
  check, checks, asked, answered, wire, verdict, \* the health check
  armed,                                         \* run still listens for signals
  stage, infrastructureFailure, exitCode, killed
displayVars == <<xvfb, spawned, phase, failure, startup, inTime>>
checkVars == <<checks, asked, answered, wire, verdict>>   \* check itself apart
endVars == <<exitCode, killed, armed>>
vars == <<cli, cliCode, displayVars, request, check, checkVars, stage,
          infrastructureFailure, endVars>>

Stages == {"starting", "up", "closing", "stopping cli", "killing cli", "display",
           "stopping display", "killing display", "done", "dead"}
Lives == stage \notin {"done", "dead"}

Init ==
  /\ cli = "none" /\ cliCode = "none"
  /\ xvfb = "none" /\ spawned = 0 /\ phase = "never_started" /\ failure = FALSE
  /\ startup = "none" /\ inTime = FALSE
  /\ request = [r \in Requests |-> "idle"]
  /\ check = "idle" /\ checks = 0 /\ asked = {} /\ answered = {} /\ wire = {} /\ verdict = "none"
  /\ stage = "starting" /\ infrastructureFailure = "none" /\ exitCode = "none" /\ killed = {}
  /\ armed = TRUE

\* #beginShutdown: an infrastructure failure is noted, whatever began the shutdown;
\* the first reason starts the only one, which rejects the pending health probe
Rejected(state) == IF state = "cli" THEN "refused" ELSE state
BeginShutdown(state) ==
  IF stage \in {"starting", "up"} THEN stage' = "closing" /\ check' = Rejected(state)
  ELSE stage' = stage /\ check' = state
BeginFailure ==
  /\ infrastructureFailure' = "noted"
  /\ BeginShutdown(check)

\* run: the health server listens and the CLI is spawned, in one turn
Start ==
  /\ stage = "starting"
  /\ cli' = "running" /\ stage' = "up"
  /\ UNCHANGED <<cliCode, displayVars, request, check, checkVars, infrastructureFailure, endVars>>
StartFails(what) ==
  /\ stage = "starting"
  /\ cli' = IF what = "spawn" THEN "unstarted" ELSE "none"
  /\ BeginFailure
  /\ UNCHANGED <<cliCode, displayVars, request, checkVars, endVars>>
\* process.once: the first signal of a kind is heard; one of the other kind adds
\* nothing to a shutdown.  The next of the same kind ends the launcher, and with
\* the process that tini watches the container and all in it
Signal ==
  /\ Lives /\ stage # "starting" /\ armed
  /\ armed' = FALSE
  /\ BeginShutdown(check)
  /\ UNCHANGED <<cli, cliCode, displayVars, request, checkVars, infrastructureFailure, exitCode, killed>>
Ended(process) == IF process = "running" THEN "exited" ELSE process
SignalAgain ==
  /\ Lives /\ ~armed
  /\ stage' = "dead" /\ cli' = Ended(cli) /\ xvfb' = Ended(xvfb)
  /\ request' = [r \in Requests |-> IF request[r] \in {"granted", "refused"} THEN request[r] ELSE "lost"]
  /\ check' = "idle" /\ verdict' = IF check = "idle" THEN verdict ELSE "refused"
  /\ asked' = {} /\ wire' = {}
  /\ UNCHANGED <<cliCode, spawned, phase, failure, startup, inTime, checks, answered,
                 infrastructureFailure, endVars>>
CliExits(code) ==
  /\ cli = "running"
  /\ cli' = "exited" /\ cliCode' = code
  /\ BeginShutdown(Rejected(check))
  /\ UNCHANGED <<displayVars, request, checkVars, infrastructureFailure, endVars>>

-----------------------------------------------------------------------------
(* The display *)

\* DockerDisplayManager #fail: only the first failure counts, and is reported
FailedQuietly ==
  /\ failure' = TRUE /\ phase' = IF failure THEN phase ELSE "failed"
  /\ UNCHANGED <<infrastructureFailure, stage, check>>
Failed ==
  /\ failure' = TRUE /\ phase' = IF failure THEN phase ELSE "failed"
  /\ IF failure THEN UNCHANGED <<infrastructureFailure, stage, check>> ELSE BeginFailure
\* every request that awaits #startup goes on when it settles
Settle(outcome) == [r \in Requests |-> IF request[r] = "waiting" THEN outcome ELSE request[r]]

\* DockerIpcDisplayController: the CLI asks, unless its channel is broken
Ask(r) ==
  /\ cli = "running" /\ Lives /\ request[r] = "idle"
  /\ \E sent \in {"sent", "refused"} : request' = [request EXCEPT ![r] = sent]
  /\ UNCHANGED <<cli, cliCode, displayVars, check, checkVars, stage, infrastructureFailure, endVars>>
\* what an exited CLI had sent is read before its shutdown goes on
Delivered == Lives /\ (cli = "running" \/ stage \in {"up", "closing"})
\* #handleDisplayRequest and ensureReady
StartsAlone == phase \in {"never_started", "starting"}
Starts == phase = "never_started"
Admission ==
  CASE phase = "ready" -> "granting" [] Starts \/ phase = "starting" -> "waiting" [] OTHER -> "refusing"
HandleRequest(r) ==
  /\ request[r] = "sent" /\ Delivered
  /\ request' = [request EXCEPT ![r] = Admission]
  /\ IF Admission = "refusing" THEN BeginFailure
     ELSE UNCHANGED <<infrastructureFailure, stage, check>>
  /\ IF Starts
     THEN /\ xvfb' \in {"running", "unstarted"} /\ spawned' = spawned + 1
          /\ phase' = "starting" /\ startup' = "probing" /\ inTime' = (xvfb' = "running")
     ELSE UNCHANGED <<xvfb, spawned, phase, startup, inTime>>
  /\ UNCHANGED <<cli, cliCode, failure, checkVars, endVars>>
\* #start: Xvfb answers a probe, or does not; an answer may be on its way when
\* Xvfb exits or is stopped
Probed(up) ==
  /\ startup = "probing" /\ Lives /\ (up => inTime)
  /\ IF up /\ ~failure
     THEN phase' = "ready" /\ startup' = "settled" /\ request' = Settle("granting")
     ELSE startup' = "pausing" /\ UNCHANGED <<phase, request>>
  /\ UNCHANGED <<cli, cliCode, xvfb, spawned, failure, inTime, check, checkVars, stage,
                 infrastructureFailure, endVars>>
ProbeAgain ==
  /\ startup = "pausing" /\ Lives /\ ~failure
  /\ startup' = "probing" /\ inTime' = (xvfb = "running")
  /\ UNCHANGED <<cli, cliCode, xvfb, spawned, phase, failure, request, check, checkVars, stage,
                 infrastructureFailure, endVars>>
\* the deadline has passed, or the failure noticed meanwhile is rethrown
GiveUp ==
  /\ startup = "pausing" /\ Lives
  /\ startup' = "settled" /\ request' = Settle("refusing")
  /\ Failed
  /\ UNCHANGED <<cli, cliCode, xvfb, spawned, inTime, checkVars, endVars>>
\* the error event of an Xvfb that could not be spawned
XvfbError ==
  /\ xvfb = "unstarted" /\ ~failure /\ Lives
  /\ Failed
  /\ UNCHANGED <<cli, cliCode, xvfb, spawned, startup, inTime, request, checkVars, endVars>>
\* the exit event: expected only while the phase is "stopping"
XvfbExits ==
  /\ xvfb = "running" /\ Lives
  /\ xvfb' = "exited"
  /\ IF phase = "stopping" THEN UNCHANGED <<phase, failure, infrastructureFailure, stage, check>>
     ELSE Failed
  /\ UNCHANGED <<cli, cliCode, spawned, startup, inTime, request, checkVars, endVars>>

\* #replyToCli, and what the controller makes of the reply
Reply(r) ==
  /\ Lives /\ request[r] \in {"granting", "refusing"}
  /\ request' = [request EXCEPT ![r] =
                   IF cli # "running" THEN "lost"
                   ELSE IF request[r] = "granting" THEN "granted" ELSE "refused"]
  /\ UNCHANGED <<cli, cliCode, displayVars, check, checkVars, stage, infrastructureFailure, endVars>>
ReplyFails(r) ==
  /\ Lives /\ request[r] \in {"granting", "refusing"} /\ cli = "running"
  /\ request' = [request EXCEPT ![r] = "stranded"]
  /\ BeginFailure
  /\ UNCHANGED <<cli, cliCode, displayVars, checkVars, endVars>>
\* the channel closes with the launcher: the CLI rejects what is pending
PendingSent(r) == request[r] = "sent"
Pending(r) == request[r] \notin {"idle", "granted", "refused", "lost"}
Disconnected(r) ==
  /\ stage = "done" /\ cli = "running" /\ Pending(r)
  /\ request' = [request EXCEPT ![r] = "refused"]
  /\ UNCHANGED <<cli, cliCode, displayVars, check, checkVars, stage, infrastructureFailure, endVars>>

-----------------------------------------------------------------------------
(* The health check *)

Connect ==
  /\ stage = "up" /\ check = "idle" /\ checks < MaxChecks
  /\ check' = "connected" /\ checks' = checks + 1 /\ verdict' = "none"
  /\ UNCHANGED <<cli, cliCode, displayVars, request, asked, answered, wire, stage,
                 infrastructureFailure, endVars>>
\* #probeCliEventLoop
ProbeCli ==
  IF cli = "running" THEN check' = "cli" /\ asked' = asked \cup {checks}
  ELSE check' = "refused" /\ UNCHANGED asked
CheckHealth(wellFormed) ==
  /\ check = "connected"
  /\ IF ~wellFormed \/ stage # "up" \/ phase \notin {"ready", "never_started"}
     THEN check' = "refused" /\ UNCHANGED asked
     ELSE IF phase = "ready" THEN check' = "x11" /\ UNCHANGED asked
     ELSE ProbeCli
  /\ UNCHANGED <<cli, cliCode, displayVars, request, checks, answered, wire, verdict, stage,
                 infrastructureFailure, endVars>>
DisplayChecked(up) ==
  /\ check = "x11"
  /\ IF up THEN ProbeCli ELSE check' = "refused" /\ UNCHANGED asked
  /\ UNCHANGED <<cli, cliCode, displayVars, request, checks, answered, wire, verdict, stage,
                 infrastructureFailure, endVars>>
\* IpcDockerCliHealthResponder: an event loop that was busy may answer late
CliAnswers(n) ==
  /\ cli = "running" /\ n \in asked
  /\ asked' = asked \ {n} /\ answered' = answered \cup {n} /\ wire' = wire \cup {n}
  /\ UNCHANGED <<cli, cliCode, displayVars, request, check, checks, verdict, stage,
                 infrastructureFailure, endVars>>
\* #handleHealthProbeResult: request id, nonce and process id must match
AnyAnswer(n) == check = "cli"
Awaited(n) == check = "cli" /\ n = checks
HandleAnswer(n) ==
  /\ n \in wire /\ Delivered
  /\ wire' = wire \ {n}
  /\ check' = IF Awaited(n) THEN "ok" ELSE check
  /\ UNCHANGED <<cli, cliCode, displayVars, request, checks, asked, answered, verdict, stage,
                 infrastructureFailure, endVars>>
CliProbeTimeout ==
  /\ check = "cli"
  /\ check' = "refused"
  /\ UNCHANGED <<cli, cliCode, displayVars, request, checkVars, stage, infrastructureFailure, endVars>>
\* the answer is written and the connection ends, or the client timed out first
EndCheck(v) ==
  /\ check \notin {"idle"} /\ (v = "ok" => check = "ok")
  /\ check' = "idle" /\ verdict' = v
  /\ UNCHANGED <<cli, cliCode, displayVars, request, checks, asked, answered, wire, stage,
                 infrastructureFailure, endVars>>

-----------------------------------------------------------------------------
(* #shutdownChildren *)

\* resolveDockerLauncherExitCode
FinalExitCode ==
  IF infrastructureFailure # "none" \/ cliCode = "none" THEN "1" ELSE cliCode
Finish == stage' = "done" /\ exitCode' = FinalExitCode
\* #stopHealthServer waits until every connection has ended
CloseServer ==
  /\ stage = "closing" /\ check = "idle"
  /\ stage' = IF cli \in {"running", "unstarted"} THEN "stopping cli" ELSE "display"
  /\ UNCHANGED <<cli, cliCode, displayVars, request, check, checkVars, infrastructureFailure, endVars>>
\* waitForExit: the child exits, or its timeout expires and it is killed
CliStopped ==
  /\ stage \in {"stopping cli", "killing cli"} /\ cli = "exited"
  /\ stage' = "display"
  /\ UNCHANGED <<cli, cliCode, displayVars, request, check, checkVars, infrastructureFailure, endVars>>
CliKilledOnly ==
  /\ stage = "stopping cli"
  /\ stage' = "killing cli" /\ killed' = killed \cup {"cli"}
  /\ UNCHANGED <<cli, cliCode, displayVars, request, check, checkVars, infrastructureFailure, exitCode, armed>>
CliTimeout ==
  /\ stage \in {"stopping cli", "killing cli"}
  /\ IF stage = "stopping cli" THEN stage' = "killing cli" /\ killed' = killed \cup {"cli"}
     ELSE stage' = "display" /\ UNCHANGED killed
  /\ UNCHANGED <<cli, cliCode, displayVars, request, check, checkVars, infrastructureFailure, exitCode, armed>>
\* stop(): nothing to do for a display that was never started
NotReady == phase # "ready"
NeverStarted == phase = "never_started"
StopDisplay ==
  /\ stage = "display"
  /\ IF NeverStarted THEN Finish /\ UNCHANGED phase
     ELSE /\ phase' = "stopping"
          /\ IF xvfb # "exited" THEN stage' = "stopping display" /\ UNCHANGED exitCode ELSE Finish
  /\ UNCHANGED <<cli, cliCode, xvfb, spawned, failure, startup, inTime, request, check, checkVars,
                 infrastructureFailure, killed, armed>>
DisplayStopped ==
  /\ stage \in {"stopping display", "killing display"} /\ xvfb = "exited"
  /\ Finish
  /\ UNCHANGED <<cli, cliCode, displayVars, request, check, checkVars, infrastructureFailure, killed, armed>>
DisplayTimeout ==
  /\ stage \in {"stopping display", "killing display"}
  /\ IF stage = "stopping display"
     THEN stage' = "killing display" /\ killed' = killed \cup {"xvfb"} /\ UNCHANGED exitCode
     ELSE Finish /\ UNCHANGED killed
  /\ UNCHANGED <<cli, cliCode, displayVars, request, check, checkVars, infrastructureFailure, armed>>

Starting == Start \/ (\E what \in {"health channel", "spawn"} : StartFails(what))
Stopping == CloseServer \/ CliStopped \/ CliTimeout \/ StopDisplay \/ DisplayStopped \/ DisplayTimeout
Startup == (\E up \in BOOLEAN : Probed(up)) \/ ProbeAgain \/ GiveUp
Answering(r) == HandleRequest(r) \/ Reply(r) \/ ReplyFails(r) \/ Disconnected(r)
Checking ==
  \/ Connect \/ (\E w \in BOOLEAN : CheckHealth(w)) \/ (\E up \in BOOLEAN : DisplayChecked(up))
  \/ (\E n \in asked : CliAnswers(n)) \/ (\E n \in wire : HandleAnswer(n))
  \/ CliProbeTimeout \/ (\E v \in {"ok", "refused"} : EndCheck(v))
Next ==
  \/ Starting \/ Signal \/ SignalAgain \/ (\E code \in {"0", "2"} : CliExits(code)) \/ XvfbError \/ XvfbExits
  \/ (\E r \in Requests : Ask(r) \/ Answering(r)) \/ Startup \/ Checking \/ Stopping

\* timers, the health client's own among them, and messages are fair; neither
\* child is assumed to exit or to answer.  Only the startup deadline has to end
\* a loop
Fairness ==
  /\ WF_vars(Stopping) /\ WF_vars(EndCheck("refused"))
  /\ WF_vars(Startup) /\ SF_vars(GiveUp)
  /\ \A r \in Requests : WF_vars(Answering(r))
Spec == Init /\ [][Next]_vars /\ Fairness

-----------------------------------------------------------------------------
(* Properties *)

LifeTypes ==
  /\ cli \in {"none", "unstarted", "running", "exited"} /\ cliCode \in {"none", "0", "2"}
  /\ stage \in Stages /\ exitCode \in {"none", "0", "1", "2"} /\ killed \subseteq {"cli", "xvfb"} /\ armed \in BOOLEAN
  /\ infrastructureFailure \in {"none", "noted"}
DisplayTypes ==
  /\ xvfb \in {"none", "unstarted", "running", "exited"} /\ spawned \in {0, 1}
  /\ phase \in {"never_started", "starting", "ready", "failed", "stopping"}
  /\ startup \in {"none", "probing", "pausing", "settled"}
  /\ failure \in BOOLEAN /\ inTime \in BOOLEAN
RequestTypes ==
  request \in [Requests -> {"idle", "sent", "waiting", "granting", "refusing", "granted", "refused",
                            "stranded", "lost"}]
CheckTypes ==
  /\ check \in {"idle", "connected", "x11", "cli", "ok", "refused"}
  /\ verdict \in {"none", "ok", "refused"}
  /\ checks \in Nat /\ asked \subseteq Nat /\ answered \subseteq Nat /\ wire \subseteq Nat
TypeOK == LifeTypes /\ DisplayTypes /\ RequestTypes /\ CheckTypes

\* One display at most is ever started, however requests, failures and the
\* shutdown overlap, and when the container ends each child has exited or was
\* killed: nothing usable is left behind.
ChildrenOwned ==
  /\ spawned <= 1
  /\ stage = "done" =>
       /\ cli = "running" => "cli" \in killed
       /\ xvfb = "running" => "xvfb" \in killed

\* A failure one part has noticed is never lost on the way to the exit code:
\* the display's, a reply that could not be sent, a CLI that did not start or
\* ended with an error of its own.
FailureReported ==
  stage = "done" /\ exitCode = "0" =>
    /\ ~failure /\ cli # "unstarted" /\ cliCode = "0"
    /\ \A r \in Requests : request[r] # "stranded"

\* Docker hears "healthy" only if the event loop of the CLI answered this very
\* check; a late answer to an earlier one does not count.
HealthFresh == verdict = "ok" => checks \in answered

\* What the launcher says of its parts is so: to Docker's health check, in its
\* exit code, and by ending only when no child of it is left.
ReportsTrue == ChildrenOwned /\ FailureReported /\ HealthFresh

\* Why ReportsTrue holds, in its own parts.  What has been started can be told
\* from the phases, and who is past a part of the shutdown has stopped it:
Stopped ==
  /\ phase = "never_started" => spawned = 0 /\ xvfb = "none" /\ startup = "none"
  /\ stage \in {"display", "stopping display", "killing display", "done"} /\ cli = "running"
       => "cli" \in killed
  /\ stage = "killing cli" => "cli" \in killed
  /\ stage = "killing display" => "xvfb" \in killed
  /\ stage = "done" /\ xvfb = "running" => "xvfb" \in killed
\* a failure has been noted when it is noticed, and the exit code has seen it
Noted ==
  /\ infrastructureFailure = "none" =>
       ~failure /\ cli # "unstarted" /\ \A r \in Requests : request[r] # "stranded"
  /\ (stage = "starting" => cli = "none") /\ (cliCode # "none" => cli = "exited")
  /\ exitCode = "0" => stage = "done" /\ infrastructureFailure = "none" /\ cliCode = "0"
\* a check is ended well by the answer to itself
HealthAnswered ==
  /\ wire \subseteq answered
  /\ check = "ok" => checks \in answered
Safe == TypeOK /\ Stopped /\ Noted /\ HealthAnswered /\ ReportsTrue

\* A display request of a living CLI is answered, whatever fails meanwhile.
RequestsAnswered ==
  \A r \in Requests : request[r] = "sent" ~> request[r] \in {"granted", "refused"} \/ cli # "running"

\* Once a shutdown has begun the container ends, with hung children, a display
\* still starting and a health check in flight.
ShutdownCompletes == stage = "closing" ~> ~Lives

\* The launcher leaves neither the CLI nor the container waiting.
LauncherResponds == RequestsAnswered /\ ShutdownCompletes

\* The exit of Xvfb that the launcher asked for is not a failure: a clean exit
\* of the CLI stays one.
StopIsNotFailure ==
  [][(stage \in {"stopping display", "killing display"} /\ xvfb' # xvfb)
       => UNCHANGED infrastructureFailure]_vars
=============================================================================
