----------------------------- MODULE CdpSession -----------------------------
(***************************************************************************)
(* The managed CDP session (src/src/cdp/session.ts): it owns, for one MCP   *)
(* session, the external proxy with its port lease and the replaceable      *)
(* upstream Playwright child ("owner") behind it.                           *)
(*                                                                         *)
(* The program is single threaded.  An action is what runs from one I/O     *)
(* completion (a tool result, a probe answer, a timer, a child that exits)  *)
(* until every continuation it released waits for another one: no other     *)
(* completion is delivered between the promise jobs of one turn.            *)
(***************************************************************************)
EXTENDS Naturals

CONSTANTS
  Calls,      \* MCP requests; each one is served once
  MaxOwners   \* bound on the upstream children ever created

ASSUME MaxOwnersAssumption == MaxOwners \in Nat \ {0}

Owners  == 1 .. MaxOwners
NoOwner == 0

VARIABLES
  mode,        \* startManagedCdpSession: "starting" | "ready" | "failed"
  generation,  \* #generation, named by the owner that published it
  owner,       \* #owner
  route,       \* the proxy's generation: its state and the owner it leads to
  boot,        \* the running initialize or #restartWithSignal, and its signal
  cleanups,    \* #pendingOwnerCleanup, #pendingCleanups and the awaited ones
  teardown,    \* the running dispose() or rollbackStartup()
  call,        \* the MCP requests and what each one captured
  proxy,       \* the external listener and its port lease
  created,     \* owners created so far; the last one is the one being built
  res,         \* port reservation, runtime and upstream of each owner
  browser      \* is the Chromium of that owner alive

world == <<created, res, browser>>
vars == <<mode, generation, owner, route, boot, cleanups, teardown, call,
          proxy, world>>

Part == {"port", "runtime", "upstream"}
\* "lost": the cleanup was attempted and rejected, it may still be running
PartState == {"none", "acquiring", "held", "released", "lost"}
\* what #restartWithSignal waits for in turn before it retires the owner
Waiting == {"wait", "previous", "drain"}
Phase == {"idle", "proxy", "retire", "handoff", "undo", "prove", "verify",
          "discard"} \cup Waiting \cup Part
CallState == {"idle", "preProbe", "joining", "using", "probing", "done", "failed"}
NoRoute == [state |-> "unavailable", owner |-> NoOwner]
NoBoot  == [phase |-> "idle", aborted |-> FALSE]

Disposed == teardown.phase # "none"
Live(o)  == res[o]["upstream"] \in {"acquiring", "held"}
Using    == {c \in Calls : call[c].pc = "using"}

Init ==
  /\ mode = "starting" /\ boot = [phase |-> "proxy", aborted |-> FALSE]
  /\ generation = NoOwner /\ owner = NoOwner /\ route = NoRoute
  /\ cleanups = {}
  /\ teardown = [phase |-> "none", owner |-> NoOwner, failed |-> FALSE]
  /\ call = [c \in Calls |-> [pc |-> "idle", kind |-> "other",
                              gen |-> NoOwner, own |-> NoOwner]]
  /\ proxy = "opening" /\ created = 0
  /\ res = [o \in Owners |-> [p \in Part |-> "none"]]
  /\ browser = [o \in Owners |-> FALSE]
-----------------------------------------------------------------------------
(* Cleanups: who is disposing which part of which owner.  "owner" is the    *)
(* #pendingOwnerCleanup, "late" and "owned" are in #pendingCleanups, "undo" *)
(* is awaited by the #createOwner that failed, "final" by dispose().        *)

Cleanup(o, of, at) == [owner |-> o, of |-> of, at |-> at, err |-> FALSE]
TrackedWithoutLate == {i \in cleanups : i.of = "owned"}
Tracked    == {i \in cleanups : i.of \in {"late", "owned"}}
OfOwner    == {i \in cleanups : i.of = "owner"}
Ended(S)   == \A i \in S : i.at \in {"ok", "failed"}
Failed(S)  == \E i \in S : i.at = "failed"

\* where a cleanup is once its current part settled.  disposeGenerationOwner
\* stops at the first error; disposeOwnedResources keeps the runtime of an
\* upstream that did not close, closes the reservation all the same and
\* rejects at the end
NextAt(i, lost) ==
  IF i.at = "upstream" /\ ~lost /\ i.of # "late" THEN "runtime"
  ELSE IF i.at # "port" /\ i.of \in {"owned", "undo"} THEN "port"
  ELSE IF lost \/ i.err THEN "failed" ELSE "ok"

Advanced(i, lost) == [i EXCEPT !.at = NextAt(i, lost), !.err = i.err \/ lost]

\* invalidateGeneration: nothing when disposed or already unavailable
InvalidateGeneration(when) ==
  IF when /\ ~Disposed /\ generation # NoOwner
    THEN generation' = NoOwner /\ route' = NoRoute
    ELSE UNCHANGED <<generation, route>>

\* one disposal settles; closing an upstream's transport reports its loss
CleanupStep(i) ==
  /\ i.at \in Part
  /\ \E s \in {"released", "lost"} \cup (IF i.of = "late" THEN {"none"} ELSE {}) :
       /\ res' = [res EXCEPT ![i.owner][i.at] = s]
       /\ cleanups' = (cleanups \ {i}) \cup
            {j \in {Advanced(i, s = "lost")} : j.of # "owner" \/ j.at # "ok"}
  /\ browser' = IF i.at = "upstream" THEN [browser EXCEPT ![i.owner] = FALSE] ELSE browser
  /\ InvalidateGeneration(i.at = "upstream")
  /\ UNCHANGED <<mode, owner, boot, teardown, call, proxy, created>>
-----------------------------------------------------------------------------
(* The deadline-bound operation: startup, or one restart.                   *)

\* the requests awaiting #restartPromise all resume when it settles
ResumeJoiners(to, o) ==
  call' = [c \in Calls |-> IF call[c].pc = "joining"
                             THEN [call[c] EXCEPT !.pc = to, !.gen = o, !.own = o]
                             ELSE call[c]]

Fail == boot' = NoBoot /\ ResumeJoiners("failed", NoOwner)

\* rollbackStartup, in the turn in which the first operation failed
Rollback ==
  teardown' = IF mode = "starting" /\ boot' = NoBoot
                THEN [phase |-> "close", owner |-> owner, failed |-> FALSE]
                ELSE teardown

Goto(p) == boot' = [boot EXCEPT !.phase = p]

\* #bootstrapOwner rejects: a restart drops the owner and awaits its cleanup
BootstrapFails(aborted) ==
  /\ route' = NoRoute
  /\ owner' = NoOwner
  /\ IF mode = "starting"
       THEN Fail /\ UNCHANGED cleanups
       ELSE /\ cleanups' = cleanups \cup {Cleanup(created, "owner", "upstream")}
            /\ boot' = [phase |-> "discard", aborted |-> aborted]
            /\ UNCHANGED call

BeginCreate ==
  /\ created < MaxOwners
  /\ created' = created + 1
  /\ res' = [res EXCEPT ![created + 1]["port"] = "acquiring"]
  /\ Goto("port")

ProxyCreated ==
  /\ boot.phase = "proxy"
  /\ proxy' = "open"
  /\ BeginCreate
  /\ UNCHANGED <<mode, generation, owner, route, cleanups, teardown, call, browser>>

\* on a timeout the proxy that still arrives is closed in the background
ProxyFails ==
  /\ boot.phase = "proxy"
  /\ proxy' \in {"none", "opening"}
  /\ mode' = "failed" /\ boot' = NoBoot
  /\ UNCHANGED <<generation, owner, route, cleanups, teardown, call, world>>

LateProxy ==
  /\ mode = "failed" /\ proxy = "opening"
  /\ proxy' \in {"none", "open", "stopped", "released"}
  /\ UNCHANGED <<mode, generation, owner, route, boot, cleanups, teardown, call, world>>

BeginRestartRouted ==
  /\ boot' = [phase |-> "wait", aborted |-> FALSE]
  /\ generation' = NoOwner /\ UNCHANGED route

\* bootstrapGeneration with no generation and no restart in flight
BeginRestart ==
  /\ boot' = [phase |-> "wait", aborted |-> FALSE]
  /\ route' = NoRoute /\ generation' = NoOwner

OwnerIdleAlways == TRUE
OwnerIdle       == Using = {}

RetiredUnchecked == {Cleanup(owner, "owner", "upstream")}
Retired == IF owner = NoOwner THEN {} ELSE {Cleanup(owner, "owner", "upstream")}

\* #waitForOwnerIdle: the last request at the owner has ended
OwnerWaited ==
  /\ boot.phase = "wait" /\ OwnerIdle
  /\ Goto("previous")
  /\ UNCHANGED <<mode, generation, owner, route, cleanups, teardown, call,
                 proxy, world>>

\* a failed #pendingOwnerCleanup stays for ever
PreviousCleaned ==
  /\ boot.phase = "previous"
  /\ \/ OfOwner = {} /\ Goto("drain") /\ UNCHANGED call
     \/ Failed(OfOwner) /\ Fail
  /\ UNCHANGED <<mode, generation, owner, route, cleanups, teardown, proxy, world>>

\* #drainPendingCleanups; then the owner read only now becomes unreachable
PreviousRetires ==
  /\ boot.phase = "drain" /\ Ended(Tracked)
  /\ \/ /\ Failed(Tracked)
        /\ cleanups' = cleanups \ Tracked
        /\ Fail
        /\ UNCHANGED owner
     \/ /\ ~Failed(Tracked)
        /\ cleanups' = (cleanups \ Tracked) \cup Retired
        /\ owner' = NoOwner
        /\ Goto("retire")
        /\ UNCHANGED call
  /\ UNCHANGED <<mode, generation, route, teardown, proxy, world>>

PreviousRetired ==
  /\ boot.phase = "retire"
  /\ \/ /\ OfOwner = {} /\ ~Disposed
        /\ BeginCreate
        /\ UNCHANGED call
     \/ /\ Failed(OfOwner)
        /\ Fail
        /\ UNCHANGED <<created, res>>
  /\ UNCHANGED <<mode, generation, owner, route, cleanups, teardown, proxy, browser>>

NextPart == [port |-> "runtime", runtime |-> "upstream", upstream |-> "handoff"]

\* reserveInternalPort, prepareRuntime, connectUpstream in turn
Acquired(p) ==
  /\ boot.phase = p
  /\ Goto(NextPart[p])
  /\ res' = [res EXCEPT ![created] =
               [q \in Part |-> IF q = p THEN "held"
                               ELSE IF q = NextPart[p] THEN "acquiring" ELSE @[q]]]
  /\ UNCHANGED <<mode, generation, owner, route, cleanups, teardown, call,
                 proxy, created, browser>>

\* the part #createOwner still holds last when it fails in a phase
HeldLast == [runtime |-> "port", upstream |-> "runtime", handoff |-> "upstream"]

CreateFails ==
  /\ boot.phase \in Part \cup {"handoff"}
  /\ res' = IF boot.phase \in Part
              THEN [res EXCEPT ![created][boot.phase] = "none"] ELSE res
  /\ \/ /\ boot.phase = "port"
        /\ Fail
        /\ UNCHANGED cleanups
     \/ /\ boot.phase # "port"
        /\ Goto("undo")
        /\ cleanups' = cleanups \cup {Cleanup(created, "undo", HeldLast[boot.phase])}
        /\ UNCHANGED call
  /\ Rollback
  /\ UNCHANGED <<mode, generation, owner, route, proxy, created, browser>>

\* the errors of this cleanup are reported and forgotten
Undone ==
  LET undo == {i \in cleanups : i.of = "undo"} IN
  /\ boot.phase = "undo" /\ Ended(undo)
  /\ cleanups' = cleanups \ undo
  /\ Fail
  /\ Rollback
  /\ UNCHANGED <<mode, generation, owner, route, proxy, world>>

\* the reserved port is handed over and the owner installed
HandedOff ==
  /\ boot.phase = "handoff"
  /\ Goto("prove")
  /\ res' = [res EXCEPT ![created]["port"] = "released"]
  /\ owner' = created /\ generation' = NoOwner
  /\ UNCHANGED <<mode, route, cleanups, teardown, call, proxy, created, browser>>

\* Chromium launched through MCP and the challenge read back over CDP
Proved ==
  /\ boot.phase = "prove"
  /\ browser' = [browser EXCEPT ![created] = TRUE]
  /\ route' = [state |-> "verifying", owner |-> created]
  /\ Goto("verify")
  /\ UNCHANGED <<mode, generation, owner, cleanups, teardown, call, proxy, created, res>>

BootstrapRejects ==
  /\ boot.phase \in {"prove", "verify"}
  /\ BootstrapFails(boot.aborted)
  /\ Rollback
  /\ UNCHANGED <<mode, generation, proxy, world>>

\* verifyExternal succeeded: publish, and forward whoever waited
Published ==
  /\ boot.phase = "verify" /\ route = [state |-> "verifying", owner |-> created]
  /\ route' = [state |-> "ready", owner |-> created]
  /\ generation' = created
  /\ mode' = "ready" /\ boot' = NoBoot
  /\ ResumeJoiners("using", created)
  /\ UNCHANGED <<owner, cleanups, teardown, proxy, world>>

Discarded ==
  /\ boot.phase = "discard" /\ Ended(OfOwner)
  /\ Fail
  /\ UNCHANGED <<mode, generation, owner, route, cleanups, teardown, proxy, world>>

AbandonedForgotten ==
  {Cleanup(created, "owned", HeldLast[p]) : p \in DOMAIN HeldLast \cap {boot.phase}}

\* what an aborted #createOwner leaves in #pendingCleanups
Abandoned ==
  {Cleanup(created, "late", p) : p \in Part \cap {boot.phase}} \cup
  {Cleanup(created, "owned", HeldLast[p]) : p \in DOMAIN HeldLast \cap {boot.phase}}

Abort ==
  \/ /\ boot.phase \in Waiting \cup {"retire", "handoff"} \cup Part
     /\ Fail
     /\ cleanups' = cleanups \cup Abandoned
     /\ UNCHANGED <<owner, route>>
  \/ /\ boot.phase \in {"prove", "verify"}
     /\ BootstrapFails(TRUE)
  \/ /\ boot.phase \in {"undo", "discard"}   \* awaited without the signal
     /\ boot' = [boot EXCEPT !.aborted = TRUE]
     /\ UNCHANGED <<owner, route, cleanups, call>>

TimeoutUnlessWaiting ==
  /\ ~boot.aborted /\ boot.phase # "wait"
  /\ Abort
  /\ Rollback
  /\ UNCHANGED <<mode, generation, proxy, world>>

Timeout ==
  /\ ~boot.aborted
  /\ Abort
  /\ Rollback
  /\ UNCHANGED <<mode, generation, proxy, world>>
-----------------------------------------------------------------------------
(* dispose() and the rest of rollbackStartup().                             *)

NeverAborts == FALSE
Aborts      == boot # NoBoot /\ ~boot.aborted

\* only the first call does anything; it aborts the restart in flight
Dispose ==
  /\ mode = "ready" /\ ~Disposed
  /\ teardown' = [teardown EXCEPT !.phase = "await"]
  /\ IF Aborts THEN Abort ELSE UNCHANGED <<owner, route, boot, cleanups, call>>
  /\ UNCHANGED <<mode, generation, proxy, world>>

SettledButTracked == Ended(OfOwner)
SettledCleanly    == OfOwner = {} /\ Ended(Tracked)
Settled           == Ended(OfOwner \cup Tracked)

\* the restart, the owner cleanup and the provisional ones have settled
DisposeDrains ==
  /\ teardown.phase = "await" /\ boot = NoBoot
  /\ Settled
  /\ cleanups' = cleanups \ Tracked
  /\ teardown' = [phase |-> "stop", owner |-> owner, failed |-> Failed(OfOwner \cup Tracked)]
  /\ generation' = NoOwner /\ route' = NoRoute /\ owner' = NoOwner
  /\ UNCHANGED <<mode, boot, call, proxy, world>>

\* dispose: proxy.stop() keeps the lease.  rollback: proxy.close() gives it up
ProxyCloses ==
  /\ teardown.phase \in {"stop", "close"}
  /\ LET closed == IF teardown.phase = "stop" THEN "stopped" ELSE "released" IN
     /\ proxy' \in {"open", "stopped", closed}
     /\ teardown' = [teardown EXCEPT !.phase = "dispose",
                                     !.failed = teardown.failed \/ proxy' # closed]
  /\ cleanups' = cleanups \cup
       (IF teardown.owner = NoOwner THEN {} ELSE {Cleanup(teardown.owner, "final", "upstream")})
  /\ UNCHANGED <<mode, generation, owner, route, boot, call, world>>

\* the lease of a started session is released only after no error at all
TeardownEnds ==
  LET final  == {i \in cleanups : i.of = "final"}
      failed == teardown.failed \/ Failed(final) IN
  /\ teardown.phase = "dispose" /\ Ended(final)
  /\ IF mode = "starting"
       THEN mode' = "failed" /\ proxy' = proxy
       ELSE mode' = mode /\ proxy' \in {proxy} \cup (IF failed THEN {} ELSE {"released"})
  /\ teardown' = [teardown EXCEPT !.phase = "done",
                     !.failed = failed \/ (mode = "ready" /\ proxy' # "released")]
  /\ UNCHANGED <<generation, owner, route, boot, cleanups, call, world>>
-----------------------------------------------------------------------------
(* MCP requests: runBrowserTool, runWithCurrentUpstream, probeGeneration.   *)

To(c, pc) == call' = [call EXCEPT ![c].pc = pc]

\* #useCurrentOwner; runBrowserTool has just read the generation
UseCurrentOwner(c) ==
  call' = [call EXCEPT ![c] = [pc |-> "using", kind |-> call[c].kind,
                               gen |-> generation, own |-> owner]]

\* a browser tool that finds no generation starts or joins the restart
Join(c, k) ==
  /\ call' = [call EXCEPT ![c].pc = "joining", ![c].kind = k]
  /\ IF boot = NoBoot THEN BeginRestart ELSE UNCHANGED <<generation, route, boot>>

BeginBrowser(c, k) ==
  /\ mode = "ready" /\ call[c].pc = "idle"
  /\ \/ Disposed /\ To(c, "failed") /\ UNCHANGED <<generation, route, boot>>
     \/ /\ ~Disposed /\ generation # NoOwner
        /\ call' = [call EXCEPT ![c] = [pc |-> "preProbe", kind |-> k,
                                        gen |-> generation, own |-> owner]]
        /\ UNCHANGED <<generation, route, boot>>
     \/ ~Disposed /\ generation = NoOwner /\ Join(c, k)
  /\ UNCHANGED <<mode, owner, cleanups, teardown, proxy, world>>

\* a probe confirms only the browser it was started for, and only while it lives
Answers(c) == {FALSE, browser[call[c].own]}
Refuted(c, same) == ~same /\ generation = call[c].gen

StillReadyAsBefore(c, same) == ~Refuted(c, same)
StillReady(c, same)         == generation # NoOwner /\ ~Refuted(c, same)

PreProbed(c) ==
  /\ call[c].pc = "preProbe"
  /\ \E same \in Answers(c) :
       \/ Disposed /\ To(c, "failed") /\ UNCHANGED <<generation, route, boot>>
       \/ /\ ~Disposed /\ StillReady(c, same)
          /\ UseCurrentOwner(c)
          /\ UNCHANGED <<generation, route, boot>>
       \/ /\ ~Disposed /\ ~StillReady(c, same)
          /\ Join(c, call[c].kind)
  /\ UNCHANGED <<mode, owner, cleanups, teardown, proxy, world>>

BeginOther(c) ==
  /\ mode = "ready" /\ call[c].pc = "idle"
  /\ \/ (Disposed \/ (boot = NoBoot /\ owner = NoOwner)) /\ To(c, "failed")
     \/ ~Disposed /\ boot # NoBoot /\ To(c, "joining")
     \/ /\ ~Disposed /\ boot = NoBoot /\ owner # NoOwner
        /\ UseCurrentOwner(c)
  /\ UNCHANGED <<mode, generation, owner, route, boot, cleanups, teardown, proxy, world>>

\* cloakbrowser_bridge_info, and every request the proxy is about to forward
BeginProbe(c) ==
  /\ mode = "ready" /\ call[c].pc = "idle"
  /\ call' = [call EXCEPT ![c] =
                [pc   |-> IF Disposed THEN "failed" ELSE
                          IF generation = NoOwner THEN "done" ELSE "probing",
                 kind |-> "info", gen |-> generation, own |-> owner]]
  /\ UNCHANGED <<mode, generation, owner, route, boot, cleanups, teardown, proxy, world>>

\* a browser_close that succeeded invalidates whatever generation is current
Closed(c) == call[c].kind = "close"

UseSucceeds(c) ==
  /\ call[c].pc = "using"
  /\ browser' = IF Closed(c) THEN [browser EXCEPT ![call[c].own] = FALSE] ELSE browser
  /\ IF call[c].kind # "other" /\ generation = call[c].gen
       THEN /\ To(c, IF Disposed THEN "failed" ELSE "probing")
            /\ UNCHANGED <<generation, route>>
       ELSE To(c, "done") /\ InvalidateGeneration(Closed(c))
  /\ UNCHANGED <<mode, owner, boot, cleanups, teardown, proxy, created, res>>

UseFails(c) ==
  /\ call[c].pc = "using"
  /\ To(c, "failed")
  /\ InvalidateGeneration(call[c].kind # "other" /\ generation = call[c].gen)
  /\ UNCHANGED <<mode, owner, boot, cleanups, teardown, proxy, world>>

Probed(c) ==
  /\ call[c].pc = "probing"
  /\ To(c, "done")
  /\ \E same \in Answers(c) : InvalidateGeneration(Closed(c) \/ Refuted(c, same))
  /\ UNCHANGED <<mode, owner, boot, cleanups, teardown, proxy, world>>

BrowserDies(o) ==
  /\ browser[o]
  /\ browser' = [browser EXCEPT ![o] = FALSE]
  /\ UNCHANGED <<mode, generation, owner, route, boot, cleanups, teardown, call,
                 proxy, created, res>>

\* the proxy's onBrowserLoss, or onclose of an upstream: of the current one, or
\* of one whose cleanup was rejected and whose process ends only now
LossReported ==
  /\ mode = "ready" /\ generation # NoOwner
  /\ ~browser[generation] \/ \E o \in Owners : res[o]["upstream"] = "lost"
  /\ InvalidateGeneration(TRUE)
  /\ UNCHANGED <<mode, owner, boot, cleanups, teardown, call, proxy, world>>
-----------------------------------------------------------------------------
Startup  == ProxyCreated \/ ProxyFails \/ LateProxy
Restart  == \/ OwnerWaited \/ PreviousCleaned \/ PreviousRetires
            \/ PreviousRetired \/ Undone \/ Discarded
Create   == (\E p \in Part : Acquired(p)) \/ CreateFails \/ HandedOff
Bootstrap == Proved \/ BootstrapRejects \/ Published
Teardown == DisposeDrains \/ ProxyCloses \/ TeardownEnds
Request(c) == \/ \E k \in {"browser", "close"} : BeginBrowser(c, k)
              \/ BeginOther(c) \/ BeginProbe(c) \/ UseSucceeds(c) \/ UseFails(c)

Next ==
  \/ Startup \/ Restart \/ Create \/ Bootstrap \/ Timeout \/ Dispose \/ Teardown
  \/ \E i \in cleanups : CleanupStep(i)
  \/ \E c \in Calls : Request(c) \/ PreProbed(c) \/ Probed(c)
  \/ \E o \in Owners : BrowserDies(o)
  \/ LossReported

Spec == Init /\ [][Next]_vars

(***************************************************************************)
(* Nobody has to call, no tool has to answer and no browser has to die.     *)
(* Fair are the deadline timers, the probes they bound, the cleanups, which *)
(* end in a result or an error, and what follows once a wait is over.       *)
(***************************************************************************)
Fairness ==
  /\ WF_vars(Startup) /\ WF_vars(Restart) /\ WF_vars(Timeout) /\ WF_vars(Teardown)
  /\ WF_vars(\E i \in cleanups : CleanupStep(i))
  /\ \A c \in Calls : WF_vars(PreProbed(c) \/ Probed(c))

FairSpec == Spec /\ Fairness
-----------------------------------------------------------------------------
(* Types: every field keeps the range the class declares for it.            *)
OwnerId      == Owners \cup {NoOwner}
RouteType    == [state: {"unavailable", "verifying", "ready"}, owner: OwnerId]
BootType     == [phase: Phase, aborted: BOOLEAN]
CleanupType  == [owner: Owners, of: {"owner", "late", "owned", "undo", "final"},
                 at: Part \cup {"ok", "failed"}, err: BOOLEAN]
TeardownType == [phase: {"none", "await", "stop", "close", "dispose", "done"},
                 owner: OwnerId, failed: BOOLEAN]
CallType     == [pc: CallState, kind: {"browser", "close", "other", "info"},
                 gen: OwnerId, own: OwnerId]

TypeOK ==
  /\ mode \in {"starting", "failed", "ready"}
  /\ generation \in OwnerId /\ owner \in OwnerId /\ created \in OwnerId
  /\ route \in RouteType /\ boot \in BootType /\ teardown \in TeardownType
  /\ cleanups \subseteq CleanupType
  /\ call \in [Calls -> CallType]
  /\ proxy \in {"none", "opening", "open", "stopped", "released"}
  /\ res \in [Owners -> [Part -> PartState]]
  /\ browser \in [Owners -> BOOLEAN]

(* The external route leads only to the owner the session holds right now,  *)
(* with its upstream and runtime held: never to a child being disposed; and *)
(* a published generation is the routed one.                                *)
RouteReachesOwner ==
  /\ route.owner # NoOwner =>
       /\ route.owner = owner
       /\ res[owner]["upstream"] = "held" /\ res[owner]["runtime"] = "held"
       /\ \A i \in cleanups : i.owner # owner
  /\ generation # NoOwner => route = [state |-> "ready", owner |-> generation]

(* A restart never disposes an owner that a forwarded request still uses    *)
(* (#activeOwnerUses, #waitForOwnerIdle); only dispose() may.               *)
NoRetiredOwnerInUse ==
  \A c \in Using : \A i \in OfOwner : i.owner # call[c].own

(* Replacement children never overlap: whatever fails or is cancelled, at   *)
(* most one upstream child is starting or running, not counting a child     *)
(* whose own cleanup was rejected.                                          *)
NoOverlappingChildren ==
  \A o1, o2 \in Owners : Live(o1) /\ Live(o2) => o1 = o2

(* The port lease of a started session is given back only after the child   *)
(* and every provisional resource it still tracks are gone.                 *)
LeaseReleasedLast ==
  mode = "ready" /\ proxy = "released" =>
    /\ route = NoRoute /\ OfOwner = {} /\ Tracked = {}
    /\ \A o \in Owners : ~Live(o)

(* Why these hold, in terms of the phase the session is in; together with   *)
(* the invariants above they are inductive.                                 *)
Building == Part \cup {"handoff", "prove", "verify"}

\* an operation runs only over an unpublished session, and owns the owner
PhaseInv ==
  /\ boot.phase = "idle" => boot = NoBoot
  /\ boot.aborted => boot.phase \in {"undo", "discard"}
  /\ boot.phase # "idle" => generation = NoOwner
  /\ boot.phase \notin {"idle", "verify"} => route = NoRoute
  /\ boot.phase \in {"prove", "verify"} => owner = created
  /\ boot.phase \notin Waiting \cup {"idle", "prove", "verify"} => owner = NoOwner
  /\ boot.phase = "proxy" => mode = "starting" /\ created = 0 /\ cleanups = {}
  /\ mode # "ready" => generation = NoOwner /\ boot.phase \notin Waiting \cup {"retire", "discard"}
  /\ mode = "starting" /\ boot = NoBoot => Disposed
  /\ mode = "failed" => boot = NoBoot
  /\ Disposed => boot.phase \in {"idle", "undo", "discard"}
  /\ teardown.phase \notin {"none", "await"} =>
       boot = NoBoot /\ owner = NoOwner /\ generation = NoOwner /\ route = NoRoute
  /\ teardown.phase \in {"await", "stop"} => mode = "ready"
  /\ teardown.phase = "close" => mode = "starting"

\* the owner and the one being built belong to no cleanup
OwnerInv ==
  /\ owner <= created /\ teardown.owner <= created
  /\ \A i \in cleanups : i.owner <= created
  /\ \A o \in Owners : o > created => res[o]["upstream"] = "none"
  /\ owner # NoOwner => /\ res[owner]["upstream"] = "held" /\ res[owner]["runtime"] = "held"
                        /\ \A i \in cleanups : i.owner # owner
  /\ boot.phase \in Building => created # 0 /\ \A i \in cleanups : i.owner # created
  /\ boot.phase \in {"upstream", "handoff"} => res[created]["runtime"] = "held"
  /\ boot.phase = "handoff" => res[created]["upstream"] = "held"
  /\ boot.phase \in {"port", "runtime"} => res[created]["upstream"] = "none"

\* a live child is the owner's, the one being built, or about to be disposed
ChildInv ==
  /\ \A o \in Owners : Live(o) =>
       \/ o = owner
       \/ o = created /\ boot.phase \in {"upstream", "handoff"}
       \/ o = teardown.owner /\ teardown.phase \in {"stop", "close"}
       \/ \E i \in cleanups : i.owner = o /\ i.at = "upstream"
  /\ boot.phase \in Building => \A o \in Owners : Live(o) => o = created

\* which cleanups can be there at all
CleanupInv ==
  /\ \A i \in cleanups : i.of = "undo" => boot.phase = "undo"
  /\ \A i \in cleanups : i.of = "final" => teardown.phase \in {"dispose", "done"}
  /\ boot.phase \in Building \cup {"retire", "undo", "discard"} => Tracked = {}
  /\ \A i \in OfOwner : i.at # "ok"
  /\ boot.phase \in Building => OfOwner = {}

\* no request is at the upstream while the owner is replaced
UseInv ==
  /\ boot.phase \notin {"idle", "wait"} => Using = {}
  /\ mode # "ready" => \A c \in Calls : call[c].pc = "idle"
  /\ \A c \in Calls : call[c].pc = "idle" => call[c].kind = "other"

LeaseInv ==
  /\ mode = "starting" /\ boot # NoBoot => proxy # "released"
  /\ mode = "ready" /\ teardown.phase \in {"stop", "dispose", "done"} =>
       Tracked = {} /\ (teardown.failed \/ OfOwner = {})
  /\ teardown.phase = "done" => \A i \in cleanups : i.of = "final" => i.at # "upstream"
  /\ mode = "ready" /\ proxy = "released" => teardown.phase = "done" /\ ~teardown.failed

Coherent == PhaseInv /\ OwnerInv /\ ChildInv /\ CleanupInv /\ UseInv /\ LeaseInv

Safe == /\ TypeOK /\ RouteReachesOwner /\ NoRetiredOwnerInUse /\ NoOverlappingChildren
        /\ Coherent

(* A browser request reaches an upstream only once, and only an upstream    *)
(* whose generation is verified and published at that moment.               *)
ForwardedOnceWhenReady ==
  [][\A c \in Calls :
       call[c].pc # "using" /\ call'[c].pc = "using" =>
         /\ call[c].pc \in {"idle", "preProbe", "joining"}
         /\ call'[c].own = owner'
         /\ call'[c].kind # "other" => route' = [state |-> "ready", owner |-> owner']]_vars

(* dispose() wins against a restart: afterwards no child is created and no  *)
(* generation is published.                                                 *)
DisposeWins ==
  [][Disposed => created' = created /\ generation' \in {generation, NoOwner}]_vars

(* What the session tells the proxy is the behaviour of one endpoint: the    *)
(* route goes through verification, and through unavailability between two  *)
(* owners, whatever restarts, losses and failures interleave; and it leads  *)
(* nowhere new once dispose() or rollbackStartup() has begun.               *)
Endpoint == INSTANCE CdpEndpoint WITH
  state <- route.state, generation <- route.owner, over <- Disposed,
  Generations <- Owners, NoGeneration <- NoOwner
EndpointSpec == Endpoint!Spec

(* A request that waits for a restart or a probe is always answered, even   *)
(* when some other tool call hangs for ever.                                *)
WaitersAnswered ==
  \A c \in Calls : call[c].pc \in {"joining", "preProbe", "probing"}
                     ~> call[c].pc \in {"using", "done", "failed"}

(* dispose() and rollbackStartup() always come to their end.                *)
TeardownCompletes == Disposed ~> teardown.phase = "done"

(* No provisional resource leaks: what belongs to no owner in use or under  *)
(* construction is in the end released, unless its cleanup was rejected.    *)
Orphan(o) == o # owner /\ o # teardown.owner /\ (o = created => boot = NoBoot)
ProvisionalReleased ==
  \A o \in Owners :
    Orphan(o) ~> \/ \E p \in Part : res[o][p] = "lost"
                 \/ \A p \in Part : res[o][p] \in {"none", "released"}

(* Whatever is to be disposed is disposed: the teardown ends although the   *)
(* cleanups of a restart may fail or hang, and no restart that fails leaves *)
(* a resource that nobody disposes.                                         *)
CleanupsEnd == TeardownCompletes /\ ProvisionalReleased
-----------------------------------------------------------------------------
(* What the repository says of itself and the code does not keep.           *)

(* docs/specs/cdp-access/spec.md:732: "dispose the upstream child and       *)
(* browser, release temporary resources, close the external listener": the  *)
(* runtime of an upstream is never disposed before the upstream itself.     *)
RuntimeOutlivesUpstream ==
  \A o \in Owners : res[o]["runtime"] = "released" => ~Live(o)

(* docs/specs/cdp-access/spec.md:12: "owns at most one live upstream        *)
(* Playwright MCP child at a time", and cdp-session.test.ts:413 "does not   *)
(* forget a provisional replacement whose cleanup fails": no child starts   *)
(* while one whose cleanup was rejected may still run.                      *)
AtMostOneLiveChild ==
  \A o1, o2 \in Owners : Live(o1) /\ res[o2]["upstream"] = "lost" => o1 < o2

(* docs/specs/cdp-access/spec.md:757: "a tool result that leaves the        *)
(* browser alive also leaves the verified generation active": the answer to *)
(* a request of an earlier generation does not end the one published since. *)
OldAnswerSparesGeneration ==
  [][\A c \in Calls :
       call[c].pc = "probing" /\ call'[c].pc = "done" /\ generation # call[c].gen
         => generation' = generation]_vars
=============================================================================
