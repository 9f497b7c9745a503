--------------------------- MODULE BridgeRuntime ---------------------------
(***************************************************************************)
(* prepareBridgeRuntime and the runtime it returns                         *)
(* (src/src/bridge/config.ts), several at a time in one process.  They     *)
(* share the set of locked profiles, the suppression of standard output,   *)
(* the environment variable CLOAKBROWSER_BINARY_PATH and the queue that    *)
(* guards it.  Every action runs to the next await.  The lock file other   *)
(* processes see is in ProfileLock; all profiles named here are the same.  *)
(***************************************************************************)
EXTENDS RuntimeConfig

CONSTANTS Preparations, Inputs, NoPreparation
ASSUME NoPreparationAssumption == NoPreparation \notin Preparations
ASSUME InputsAssumption == DOMAIN Inputs = Preparations
ASSUME PreparationsAssumption == IsFiniteSet(Preparations)
ASSUME ExtraArgsAssumption ==
  \A p \in Preparations : \A o \in Inputs[p] : o.extraArgs \in LaunchArgs

VARIABLES phase, input, runtime,
          temp,       \* the preparations whose temporary directory exists
          activeLock, \* the preparation that locked the profile
          held,       \* those that still have their releaseLock
          stdout, suppressedWrite, depth,
          binaryEnv, previous, binary, queue
prepareVars == <<phase, input, runtime, temp, activeLock, held, stdout, suppressedWrite, depth,
          binaryEnv, previous, binary, queue>>
output == <<stdout, suppressedWrite, depth>>
override == <<binaryEnv, previous, queue>>

\* a preparation that awaits inside suppressStdout
Silent == {"binary", "queued", "building", "built"}
States == Silent \cup {"idle", "seed", "ready", "disposed", "failed"}
NoInput == [userDataDir |-> FALSE]
NoRuntime == [args |-> <<>>]

PrepareInit ==
  /\ phase = [p \in Preparations |-> "idle"]
  /\ input = [p \in Preparations |-> NoInput]
  /\ runtime = [p \in Preparations |-> NoRuntime]
  /\ temp = {} /\ activeLock = NoPreparation /\ held = {}
  /\ stdout = "real" /\ suppressedWrite = "none" /\ depth = 0
  /\ binaryEnv \in {"unset", "configured"}
  /\ previous = [p \in Preparations |-> "unset"]
  /\ binary = [p \in Preparations |-> "unset"]
  /\ queue = <<>>

\* suppressStdout: the write function is kept by the outermost caller only
Suppress ==
  /\ depth' = depth + 1
  /\ suppressedWrite' = IF depth = 0 THEN stdout ELSE suppressedWrite
  /\ stdout' = IF depth = 0 THEN "suppressed" ELSE stdout
RestoreUnchecked == /\ depth' = depth - 1
                    /\ stdout' = suppressedWrite /\ suppressedWrite' = "none"
RestoreAtOnce ==
  /\ depth' = depth - 1
  /\ stdout' = IF suppressedWrite = "none" THEN stdout ELSE suppressedWrite
  /\ suppressedWrite' = "none"
Restore ==
  /\ depth' = depth - 1
  /\ stdout' = IF depth = 1 THEN suppressedWrite ELSE stdout
  /\ suppressedWrite' = IF depth = 1 THEN "none" ELSE suppressedWrite

ReleaseAgain(p) ==
  /\ activeLock' = IF input[p].userDataDir THEN NoPreparation ELSE activeLock
  /\ held' = held \ {p}
\* releaseLock?.(), which a runtime calls once and then forgets
ReleaseLock(p) ==
  /\ activeLock' = IF p \in held THEN NoPreparation ELSE activeLock
  /\ held' = held \ {p}

\* the catch of prepareBridgeRuntime
Fail(p) ==
  /\ phase' = [phase EXCEPT ![p] = "failed"]
  /\ ReleaseLock(p)
  /\ temp' = temp \ {p}
  /\ UNCHANGED <<input, runtime>>

\* everything up to the first await: the inputs are parsed, the profile locked
LockedByOther(o) == o.userDataDir /\ activeLock # NoPreparation
Refuse(p, o) ==
  /\ phase[p] = "idle"
  /\ RefusedUnlocked(o) \/ LockedByOther(o) \/ RefusedLocked(o)
  /\ phase' = [phase EXCEPT ![p] = "failed"]
  /\ UNCHANGED <<input, runtime, temp, activeLock, held, binary, output, override>>
Begin(p, o) ==
  /\ phase[p] = "idle"
  /\ ~RefusedUnlocked(o) /\ ~LockedByOther(o) /\ ~RefusedLocked(o)
  /\ input' = [input EXCEPT ![p] = o]
  /\ temp' = temp \cup {p}
  /\ IF o.userDataDir THEN activeLock' = p /\ held' = held \cup {p}
     ELSE UNCHANGED <<activeLock, held>>
  /\ phase' = [phase EXCEPT ![p] = "seed"]
  /\ UNCHANGED <<runtime, binary, output, override>>

\* withCloakBinaryPath, called inside suppressStdout
Enqueue(p, path) ==
  /\ phase' = [phase EXCEPT ![p] = "queued"]
  /\ binary' = [binary EXCEPT ![p] = path]
  /\ queue' = Append(queue, p)
  /\ UNCHANGED <<input, runtime, temp, activeLock, held, binaryEnv, previous>>

\* the runtime is written to the temporary directory and returned
Return(p, args, proxy) ==
  /\ phase' = [phase EXCEPT ![p] = "ready"]
  /\ runtime' = [runtime EXCEPT ![p] = Runtime(input[p], args, proxy)]
  /\ UNCHANGED <<input, temp, activeLock, held>>

\* without CloakBrowser there is nothing to wait for
Plain(p) ==
  /\ phase[p] = "seed" /\ ~UseCloak(input[p])
  /\ Return(p, BaseArgs(input[p]), ConfiguredProxy(input[p]))
  /\ UNCHANGED <<binary, output, override>>
\* readOrCreateProfileSeed rejects, or a binary path that cannot be used
SeedOrPathRefused(p) ==
  /\ phase[p] = "seed" /\ UseCloak(input[p])
  /\ WantsSeed(input[p]) \/ BinaryUnusable(input[p])
  /\ Fail(p)
  /\ UNCHANGED <<binary, output, override>>
\* the variable is read now: the operator's path, or the override in force
Seeded(p) ==
  /\ phase[p] = "seed" /\ UseCloak(input[p]) /\ ~BinaryUnusable(input[p])
  /\ IF binaryEnv = "unset"
     THEN /\ phase' = [phase EXCEPT ![p] = "binary"]
          /\ Suppress
          /\ UNCHANGED <<input, runtime, temp, activeLock, held, binary, override>>
     ELSE IF ChannelMalformed(input[p])
     THEN Fail(p) /\ UNCHANGED <<binary, output, override>>
     ELSE Enqueue(p, binaryEnv) /\ Suppress
\* ensureBinary answers; a bad release channel is only found now
EnsureFails(p) ==
  /\ phase[p] = "binary"
  /\ Restore /\ Fail(p)
  /\ UNCHANGED <<binary, override>>
Ensured(p, path) ==
  /\ phase[p] = "binary" /\ ~ChannelMalformed(input[p])
  /\ Enqueue(p, path)
  /\ UNCHANGED output    \* restored and suppressed again in one turn

\* the queue: one builder at a time sees the process with its own binary
AnyMayBuild(p) == queue # <<>>
MayBuild(p) == queue # <<>> /\ Head(queue) = p
Build(p) ==
  /\ phase[p] = "queued" /\ MayBuild(p)
  /\ phase' = [phase EXCEPT ![p] = "building"]
  /\ previous' = [previous EXCEPT ![p] = binaryEnv]
  /\ binaryEnv' = binary[p]
  /\ UNCHANGED <<input, runtime, temp, activeLock, held, binary, queue, output>>
StuckQueue(succeeded) == IF succeeded THEN Tail(queue) ELSE queue
NextInQueue(succeeded) == Tail(queue)
BuilderAnswers(p, succeeded) ==
  /\ phase[p] = "building"
  /\ binaryEnv' = previous[p]
  /\ queue' = NextInQueue(succeeded)
  /\ UNCHANGED <<input, activeLock, held, binary, previous, temp>>
BuildFails(p) ==
  /\ BuilderAnswers(p, FALSE)
  /\ phase' = [phase EXCEPT ![p] = "built"]
  /\ UNCHANGED <<runtime, output>>
\* what buildLaunchOptions of CloakBrowser may answer: the arguments it was
\* given and its own; with a given WebRTC address it does not look one up
Discovered(o) ==
  IF MatchesGeoip(o) /\ WebrtcIp \notin Keys(BuilderArgs(o))
  THEN {<<>>, <<Arg(WebrtcIp, "exit")>>, <<Arg(WebrtcIp, "invalid")>>} ELSE {<<>>}
ProxyAnswers(o) ==
  {[args |-> <<>>, proxy |-> ConfiguredProxy(o)]} \cup
  (IF ConfiguredProxy(o) = NoProxy THEN {}
   ELSE {[args |-> <<Arg(ProxyServer, "own")>>, proxy |-> NoProxy]})
Answer(o, ip, pr) == [args |-> BuilderArgs(o) \o ip \o pr.args, proxy |-> pr.proxy]
Options(o) == {Answer(o, ip, pr) : ip \in Discovered(o), pr \in ProxyAnswers(o)}
Built(p) ==
  /\ BuilderAnswers(p, TRUE)
  /\ \E built \in Options(input[p]) : runtime' = [runtime EXCEPT ![p] = built]
  /\ phase' = [phase EXCEPT ![p] = "built"]
  /\ UNCHANGED output

\* the rest, once suppressStdout has returned
Accepted(p) ==
  /\ runtime[p] # NoRuntime /\ ExitIpFound(input[p], runtime[p].args)
  /\ ~Conflicts(input[p], CloakArgs(input[p], runtime[p].args))
FinishRejected(p) ==
  /\ phase[p] = "built" /\ ~Accepted(p)
  /\ Restore /\ Fail(p)
  /\ UNCHANGED <<binary, override>>
Finish(p) ==
  /\ phase[p] = "built" /\ Accepted(p)
  /\ Restore
  /\ Return(p, CloakArgs(input[p], runtime[p].args), runtime[p].proxy)
  /\ UNCHANGED <<binary, override>>

\* dispose may be called again
Dispose(p) ==
  /\ phase[p] \in {"ready", "disposed"}
  /\ phase' = [phase EXCEPT ![p] = "disposed"]
  /\ ReleaseLock(p)
  /\ temp' = temp \ {p}
  /\ UNCHANGED <<input, runtime, binary, output, override>>

Advance(p) ==
  \/ Plain(p) \/ SeedOrPathRefused(p) \/ Seeded(p)
  \/ EnsureFails(p) \/ (\E path \in {"cached", "updated"} : Ensured(p, path))
  \/ Build(p) \/ BuildFails(p) \/ Built(p) \/ FinishRejected(p) \/ Finish(p)
Start(p) == \E o \in Inputs[p] : Refuse(p, o) \/ Begin(p, o)
PrepareNext == \E p \in Preparations : Start(p) \/ Advance(p) \/ Dispose(p)
\* an await ends: the builder and ensureBinary are given timeouts of their own
PrepareSpec == PrepareInit /\ [][PrepareNext]_prepareVars /\ \A p \in Preparations : WF_prepareVars(Advance(p))

-----------------------------------------------------------------------------
(* Properties *)

\* The type of the state.
PrepareTypeOK ==
  /\ phase \in [Preparations -> States]
  /\ temp \subseteq Preparations /\ held \subseteq Preparations
  /\ activeLock \in Preparations \cup {NoPreparation}
  /\ stdout \in {"real", "suppressed"} /\ depth \in 0 .. Cardinality(Preparations)

\* The profile is locked exactly while the one preparation or runtime that uses
\* it is alive, however the preparation ends and however often it is disposed.
ProfileHeld ==
  \A p \in Preparations :
    /\ phase[p] \in Silent \cup {"seed", "ready"} =>
         p \in temp /\ (input[p].userDataDir => activeLock = p)
    /\ phase[p] \in {"failed", "disposed"} => p \notin temp /\ activeLock # p

\* Standard output, which carries the MCP messages, is the real one again as
\* soon as no preparation is inside suppressStdout, and never before.
StdoutRestored ==
  stdout = "real" <=> \A p \in Preparations : phase[p] \notin Silent

\* A builder only ever runs with its own binary in the environment, and the
\* environment of the process is what it was once all of them have answered.
BinaryOverrideOwn ==
  /\ \A p \in Preparations : phase[p] = "building" => binaryEnv = binary[p]
  /\ (\A p \in Preparations : phase[p] # "building") => binaryEnv \in {"unset", "configured"}

Ready(p) == phase[p] \in {"ready", "disposed"}

\* With managed CDP the only remote debugging switch Chromium gets is the
\* bridge's own, whatever the operator's arguments and the builder added.
ManagedPortWins ==
  \A p \in Preparations : Ready(p) /\ input[p].managed =>
    LET args == runtime[p].args IN
    \E i \in DOMAIN args :
      /\ args[i] = Arg(DebugPort, "internal")
      /\ \A j \in DOMAIN args : args[j].key \in Prohibited => j = i

\* The variable PLAYWRIGHT_MCP_PROXY_SERVER of the child names the proxy this
\* session is configured with by metadata or environment, never another one's,
\* unless the bridge reads credentials in it: then there is none.  Credentials
\* the bridge cannot decode, and those in variables the child inherits unseen
\* (HTTP_PROXY, the operator's arguments), do reach the child.
ProxySecretHidden ==
  \A p \in Preparations : Ready(p) =>
    LET found == runtime[p].child.proxy
        told  == ConfiguredProxy(input[p])
    IN  /\ found # NoProxy => found = told /\ ~HasProxyCredentials(found)
        /\ told.from \in {"metadata", "env"} /\ ~HasProxyCredentials(told) => found = told

\* The fingerprint Chromium uses is one the operator wrote if there is one, the
\* last of them once repeated arguments are dropped; else the one of the profile,
\* else a random one.
FingerprintKept ==
  \A p \in Preparations : Ready(p) /\ UseCloak(input[p]) /\ input[p].stealth =>
    LET o    == input[p]
        used == Last(runtime[p].args, Fingerprint)
    IN  IF ExplicitFingerprint(o)
        THEN /\ \E i \in DOMAIN o.extraArgs : o.extraArgs[i] = Arg(Fingerprint, used)
             /\ used = Last(BaseArgs(o), Fingerprint)
        ELSE used = IF o.userDataDir THEN "seed" ELSE "random"

\* With GeoIP matching a runtime exists only if the exit address was really
\* discovered, and that is the address Chromium shows, whatever the operator
\* wrote after it, unless the first address of the operator, which is the one the
\* bridge reads, is a spoof: then Chromium gets the operator's arguments as they
\* are, and shows the last address in them.
GeoipHonest ==
  \A p \in Preparations : Ready(p) /\ UseCloak(input[p]) /\ MatchesGeoip(input[p]) =>
    LET o == input[p] IN
    Last(runtime[p].args, WebrtcIp) =
      IF First(o.extraArgs, WebrtcIp) \in {"undefined", "auto"} THEN "exit"
      ELSE Last(BaseArgs(o), WebrtcIp)

\* The child gets the token of the browser extension in extension mode and only
\* then, and never a CDP address, since every such variable is dropped; an
\* inherited PLAYWRIGHT_MCP_ENDPOINT does reach it outside extension mode.  In
\* extension mode there is no address of either kind, and the bridge changes
\* nothing of the browser it attaches to.
AttachesOnlyAsTold ==
  \A p \in Preparations : Ready(p) =>
    LET r == runtime[p] IN
    /\ r.child.token <=> input[p].extension
    /\ r.child.attach # "cdp"
    /\ input[p].extension =>
         /\ r.args = <<>> /\ r.proxy = NoProxy /\ r.child.proxy = NoProxy
         /\ r.profile /\ ~r.child.isolated /\ ~r.child.headless
         /\ DOMAIN r.context = {} /\ r.child.attach = "none"

\* A persistent profile and an isolated browser exclude each other, and every
\* context option that reaches Chromium was validated, where it came from
\* included: initialize metadata does not hide a bad environment.
ContextSound ==
  \A p \in Preparations : Ready(p) =>
    /\ ~(runtime[p].profile /\ (runtime[p].isolated \/ runtime[p].child.isolated))
    /\ ~ContextRefused(runtime[p].context) /\ ~ContextRefused(input[p].contextEnv)

\* What makes these hold.  depth counts the preparations inside suppressStdout,
\* and the real write function is kept while there is one.
Silenced == {p \in Preparations : phase[p] \in Silent}
OutputCounted ==
  /\ depth = Cardinality(Silenced)
  /\ stdout = (IF depth = 0 THEN "real" ELSE "suppressed")
  /\ suppressedWrite = (IF depth = 0 THEN "none" ELSE "real")
\* A preparation has its directory from its start to its end, and a lock to
\* release if it asked for a profile; the profile is locked by who can release it.
Alive(p) == phase[p] \in Silent \cup {"seed", "ready"}
LockCounted ==
  /\ \A p \in Preparations : p \in temp <=> Alive(p)
  /\ \A p \in Preparations : p \in held <=> (Alive(p) /\ input[p].userDataDir)
  /\ \A p \in Preparations : p \in held <=> activeLock = p
\* Who waits for the turn is in the queue once, only the first of it builds, and
\* what it found in the environment is no other builder's path.
Paths == {"unset", "configured", "cached", "updated"}
InTurn ==
  /\ \A i \in DOMAIN queue : phase[queue[i]] = "queued" \/ (i = 1 /\ phase[queue[i]] = "building")
  /\ \A i, j \in DOMAIN queue : queue[i] = queue[j] => i = j
  /\ \A p \in Preparations :
       phase[p] = "building" => queue # <<>> /\ Head(queue) = p /\ previous[p] \in {"unset", "configured"}
KeptTypes ==
  /\ queue \in Seq(Preparations) /\ binaryEnv \in Paths
  /\ binary \in [Preparations -> Paths] /\ previous \in [Preparations -> Paths]
  /\ input \in [Preparations -> (UNION {Inputs[p] : p \in Preparations}) \cup {NoInput}]

\* What the preparations of one process share (the lock of a profile, standard
\* output, the environment) is used by one of them at a time and is given back,
\* however each ends.
SharedStateGivenBack == PrepareTypeOK /\ ProfileHeld /\ StdoutRestored /\ BinaryOverrideOwn
SharedSafe ==
  PrepareTypeOK /\ KeptTypes /\ OutputCounted /\ LockCounted /\ InTurn /\ BinaryOverrideOwn

\* A preparation goes on with an input that was not refused, and the runtime it
\* returns is made of that input and, with CloakBrowser, one builder's answer.
NotRefused(p, o) == o \in Inputs[p] /\ ~RefusedUnlocked(o) /\ ~RefusedLocked(o)
MadeOf(r, o) ==
  \/ ~UseCloak(o) /\ r = Runtime(o, BaseArgs(o), ConfiguredProxy(o))
  \/ \E built \in Options(o) :
       /\ UseCloak(o) /\ ExitIpFound(o, built.args) /\ ~Conflicts(o, CloakArgs(o, built.args))
       /\ r = Runtime(o, CloakArgs(o, built.args), built.proxy)
AnswerKept(p, ph, o, r) ==
  /\ ph \in Silent \cup {"seed", "ready", "disposed"} => NotRefused(p, o)
  /\ ph \in Silent => UseCloak(o)
  /\ ph \in (Silent \cup {"idle", "seed"}) \ {"built"} => r = NoRuntime
  /\ ph = "built" => r = NoRuntime \/ r \in Options(o)
  /\ ph \in {"ready", "disposed"} => MadeOf(r, o)
AnswersKept ==
  /\ DOMAIN runtime = Preparations
  /\ \A p \in Preparations : AnswerKept(p, phase[p], input[p], runtime[p])

\* The browser that is started is the one that was asked for.  What the operator,
\* the initialize metadata and the builder each say is combined such that the only
\* debugging port is the bridge's, and the proxy of the child, the fingerprint, the
\* WebRTC address, the extension's token and the context options are the ones the
\* six properties above name.
ToldAsAsked ==
  /\ ManagedPortWins /\ ProxySecretHidden /\ FingerprintKept
  /\ GeoipHonest /\ AttachesOnlyAsTold /\ ContextSound

\* A preparation that waits for its turn gets it, a rejected build before it or
\* not, and ends.
QueueNeverStuck ==
  \A p \in Preparations : phase[p] = "queued" ~> phase[p] \in {"ready", "failed"}
=============================================================================
