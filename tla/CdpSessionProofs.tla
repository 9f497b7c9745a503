-------------------------- MODULE CdpSessionProofs --------------------------
(* Proofs about CdpSession for any set of requests and any bound on the     *)
(* children.  First the types: a lemma for every helper of the actions and  *)
(* one for every action whose updates need an argument.  Then the           *)
(* invariants of Safe, which are inductive, hence hold in every reachable   *)
(* state, and the action properties that follow from them: one lemma per    *)
(* action, in it one step per invariant the action can disturb.             *)
(* Last, the pool a session draws its external port from: CdpPortAllocator, *)
(* for any range of ports, and that it implements CdpPortPool.              *)
EXTENDS CdpSession, CdpPortAllocator, TLAPS

CallsType == [Calls -> CallType]
ResType   == [Owners -> [Part -> PartState]]

(* The values the actions write are of the types they are written to.       *)
LEMMA Values ==
  /\ NoBoot \in BootType /\ NoRoute \in RouteType /\ NoOwner \in OwnerId
  /\ Owners \subseteq OwnerId
  /\ Part \subseteq Phase /\ Part = {"port", "runtime", "upstream"}
  /\ Waiting = {"wait", "previous", "drain"} /\ Waiting \subseteq Phase
  /\ {"proxy", "retire", "handoff", "undo", "prove", "verify", "discard"} \subseteq Phase
  /\ {"acquiring", "held", "released", "lost", "none"} \subseteq PartState
  /\ CallState = {"idle", "preProbe", "joining", "using", "probing", "done", "failed"}
  BY DEF NoBoot, NoRoute, NoOwner, BootType, RouteType, OwnerId, Phase, Waiting, Part, PartState,
         CallState

(* Owners are counted from 1, so a new one has the next number.             *)
LEMMA OwnerNumbers ==
  ASSUME TypeOK
  PROVE  /\ created \in Nat /\ owner \in Nat /\ teardown.owner \in Nat
         /\ \A i \in cleanups : i.owner \in Nat /\ i.owner # NoOwner
         /\ created # NoOwner => created \in Owners
         /\ owner # NoOwner => owner \in Owners
         /\ created < MaxOwners => created + 1 \in Owners /\ created + 1 \in OwnerId
  BY MaxOwnersAssumption DEF TypeOK, OwnerId, Owners, NoOwner, CleanupType, TeardownType

(* Moving the operation to another phase keeps its record.                  *)
LEMMA GotoType ==
  ASSUME TypeOK, NEW p \in Phase, Goto(p)
  PROVE  boot' \in BootType
  BY DEF TypeOK, BootType, Goto

(* Settling a restart gives every waiting request its outcome.              *)
LEMMA ResumeType ==
  ASSUME TypeOK, NEW to \in CallState, NEW o \in OwnerId, ResumeJoiners(to, o)
  PROVE  call' \in CallsType
  BY DEF TypeOK, CallsType, CallType, ResumeJoiners

(* A failed operation answers its waiters and is over.                      *)
LEMMA FailType ==
  ASSUME TypeOK, Fail
  PROVE  boot' \in BootType /\ call' \in CallsType
<1>1. boot' \in BootType
  BY Values DEF Fail
<1>2. "failed" \in CallState
  BY Values
<1> QED BY <1>1, <1>2, Values, ResumeType DEF Fail

(* A failed startup begins the disposal of what it had started.             *)
LEMMA RollbackType ==
  ASSUME TypeOK, Rollback
  PROVE  teardown' \in TeardownType
  BY DEF TypeOK, Rollback, TeardownType

(* Requests: changing the state of one, or its whole record.                *)
LEMMA ToType ==
  ASSUME TypeOK, NEW c \in Calls, NEW pc \in CallState, To(c, pc)
  PROVE  call' \in CallsType
  BY DEF TypeOK, CallsType, CallType, To

(* A request record built from its parts is one.                            *)
LEMMA CallRecordType ==
  ASSUME TypeOK, NEW c \in Calls, NEW r \in CallType, call' = [call EXCEPT ![c] = r]
  PROVE  call' \in CallsType
  BY DEF TypeOK, CallsType

(* A request that goes to the current owner.                                *)
LEMMA UseType ==
  ASSUME TypeOK, NEW c \in Calls, UseCurrentOwner(c)
  PROVE  call' \in CallsType
<1>1. call[c].kind \in {"browser", "close", "other", "info"}
  BY DEF TypeOK, CallType
<1>2. [pc |-> "using", kind |-> call[c].kind, gen |-> generation, own |-> owner] \in CallType
  BY <1>1, Values DEF TypeOK, CallType
<1> QED BY <1>2, CallRecordType DEF UseCurrentOwner

(* A request that begins a restart leaves one that is well formed.          *)
LEMMA BeginRestartType ==
  ASSUME BeginRestart
  PROVE  boot' \in BootType /\ generation' \in OwnerId /\ route' \in RouteType
  BY Values DEF BeginRestart, BootType

(* A request that joins or begins a restart.                                *)
LEMMA JoinType ==
  ASSUME TypeOK, NEW c \in Calls, NEW k \in {"browser", "close", "other", "info"}, Join(c, k)
  PROVE  /\ call' \in CallsType
         /\ boot' \in BootType /\ generation' \in OwnerId /\ route' \in RouteType
<1>1. "joining" \in CallState
  BY Values
<1>2. call' \in CallsType
  BY <1>1 DEF Join, TypeOK, CallsType, CallType
<1> QED BY <1>2, BeginRestartType DEF Join, TypeOK

(* A lost generation leaves no generation and no route.                     *)
LEMMA InvalidateType ==
  ASSUME TypeOK, NEW when, InvalidateGeneration(when)
  PROVE  generation' \in OwnerId /\ route' \in RouteType
  BY Values DEF TypeOK, InvalidateGeneration

(* Resources and cleanups.                                                  *)
LEMMA PartUpdateType ==
  ASSUME TypeOK, NEW o, NEW p \in Part, NEW v \in PartState
  PROVE  [res EXCEPT ![o][p] = v] \in ResType
  BY DEF TypeOK, ResType

(* The next child has a number within the bound.                            *)
LEMMA BeginCreateType ==
  ASSUME TypeOK, BeginCreate
  PROVE  created' \in OwnerId /\ boot' \in BootType /\ res' \in ResType
<1>1. "port" \in Part /\ "port" \in Phase /\ "acquiring" \in PartState
  BY Values
<1> QED BY <1>1, OwnerNumbers, GotoType, PartUpdateType DEF BeginCreate

(* The record of a cleanup, wherever it starts.                             *)
LEMMA NewCleanupType ==
  ASSUME NEW o \in Owners, NEW of \in {"owner", "late", "owned", "undo", "final"}, NEW at \in Part
  PROVE  Cleanup(o, of, at) \in CleanupType
  BY DEF Cleanup, CleanupType

(* Children given up by a bootstrap become cleanups.                        *)
LEMMA AbandonedType ==
  ASSUME TypeOK, OwnerInv
  PROVE  Abandoned \subseteq CleanupType
<1>1. \A p \in DOMAIN HeldLast : HeldLast[p] \in Part
  BY DEF HeldLast, Part
<1>2. CASE boot.phase \in Part \cup DOMAIN HeldLast
  <2>1. created \in Owners
    BY <1>2, OwnerNumbers DEF OwnerInv, Building, HeldLast, Part, NoOwner
  <2>2. \A p \in Part : Cleanup(created, "late", p) \in CleanupType
    BY <2>1, NewCleanupType
  <2>3. \A p \in DOMAIN HeldLast : Cleanup(created, "owned", HeldLast[p]) \in CleanupType
    BY <1>1, <2>1, NewCleanupType
  <2> QED BY <2>2, <2>3 DEF Abandoned
<1>3. CASE boot.phase \notin Part \cup DOMAIN HeldLast
  BY <1>3 DEF Abandoned
<1> QED BY <1>2, <1>3

(* A bootstrap that fails, at startup or during a restart.                  *)
LEMMA BootstrapFailsType ==
  ASSUME TypeOK, created \in Owners, NEW aborted \in BOOLEAN, BootstrapFails(aborted)
  PROVE  /\ route' \in RouteType /\ owner' \in OwnerId /\ boot' \in BootType
         /\ cleanups' \subseteq CleanupType /\ call' \in CallsType
<1>1. route' \in RouteType /\ owner' \in OwnerId
  BY Values DEF BootstrapFails
<1>2. CASE mode = "starting"
  BY <1>1, <1>2, FailType DEF BootstrapFails, TypeOK
<1>3. CASE mode # "starting"
  <2>1. "discard" \in Phase /\ "upstream" \in Part
    BY Values
  <2>2. boot' \in BootType
    BY <1>3, <2>1 DEF BootstrapFails, BootType
  <2>3. cleanups' \subseteq CleanupType
    BY <1>3, <2>1, NewCleanupType DEF BootstrapFails, TypeOK
  <2> QED BY <1>1, <1>3, <2>2, <2>3 DEF BootstrapFails, TypeOK, CallsType
<1> QED BY <1>2, <1>3

(* An aborted operation, whatever it was awaiting.                          *)
LEMMA AbortType ==
  ASSUME TypeOK, OwnerInv, Abort
  PROVE  /\ route' \in RouteType /\ owner' \in OwnerId /\ boot' \in BootType
         /\ cleanups' \subseteq CleanupType /\ call' \in CallsType
<1>1. CASE Fail /\ cleanups' = cleanups \cup Abandoned /\ UNCHANGED <<owner, route>>
  BY <1>1, FailType, AbandonedType DEF TypeOK
<1>2. CASE boot.phase \in {"prove", "verify"} /\ BootstrapFails(TRUE)
  BY <1>2, BootstrapFailsType, OwnerNumbers DEF OwnerInv, Building, NoOwner
<1>3. CASE boot' = [boot EXCEPT !.aborted = TRUE] /\ UNCHANGED <<owner, route, cleanups, call>>
  BY <1>3 DEF TypeOK, BootType, CallsType
<1> QED BY <1>1, <1>2, <1>3 DEF Abort
-----------------------------------------------------------------------------
(* Every step keeps the types.  An action names an owner only in a phase in *)
(* which there is one, hence the invariants besides TypeOK.                 *)
LEMMA OperationType ==
  ASSUME TypeOK, OwnerInv, PhaseInv,
         Startup \/ Restart \/ Create \/ Bootstrap \/ Timeout
  PROVE  TypeOK'
<1>1. CASE ProxyCreated
  BY <1>1, BeginCreateType DEF ProxyCreated, TypeOK, ResType
<1>2. CASE ProxyFails \/ LateProxy
  BY <1>2, Values DEF ProxyFails, LateProxy, TypeOK, world
<1>3. CASE PreviousRetires
  <2>1. Retired \subseteq CleanupType
    BY OwnerNumbers, NewCleanupType, Values DEF Retired
  <2>2. "retire" \in Phase
    BY Values
  <2> QED BY <1>3, <2>1, <2>2, Values, GotoType, FailType
          DEF PreviousRetires, TypeOK, CallsType, world
<1>13. CASE OwnerWaited \/ PreviousCleaned
  <2>1. "previous" \in Phase /\ "drain" \in Phase
    BY Values
  <2> QED BY <1>13, <2>1, GotoType, FailType
          DEF OwnerWaited, PreviousCleaned, TypeOK, CallsType, world
<1>4. CASE PreviousRetired
  BY <1>4, BeginCreateType, FailType DEF PreviousRetired, TypeOK, CallsType, ResType
<1>5. CASE Undone \/ Discarded
  BY <1>5, FailType, RollbackType DEF Undone, Discarded, TypeOK, CallsType, world
<1>6. ASSUME NEW p \in Part, Acquired(p) PROVE TypeOK'
  <2>1. NextPart[p] \in Phase
    BY Values DEF NextPart
  <2>2. res' \in ResType
    BY <1>6, Values DEF Acquired, TypeOK, ResType
  <2> QED BY <1>6, <2>1, <2>2, GotoType DEF Acquired, TypeOK, ResType
<1>7. CASE CreateFails
  <2>1. res' \in ResType
    BY <1>7, Values, PartUpdateType DEF CreateFails, TypeOK, ResType
  <2>2. boot.phase # "port" => HeldLast[boot.phase] \in Part /\ created \in Owners
    BY <1>7, OwnerNumbers DEF CreateFails, HeldLast, Part, OwnerInv, Building, NoOwner
  <2>3. "undo" \in Phase
    BY Values
  <2> QED BY <1>7, <2>1, <2>2, <2>3, GotoType, FailType, RollbackType, NewCleanupType
          DEF CreateFails, TypeOK, CallsType, ResType
<1>8. CASE HandedOff
  <2>1. "prove" \in Phase /\ "port" \in Part /\ "released" \in PartState
    BY Values
  <2> QED BY <1>8, <2>1, Values, GotoType, PartUpdateType DEF HandedOff, TypeOK, ResType
<1>9. CASE Proved
  <2>1. "verify" \in Phase
    BY Values
  <2>2. route' \in RouteType
    BY <1>9 DEF Proved, TypeOK, RouteType
  <2>3. browser' \in [Owners -> BOOLEAN]
    BY <1>9 DEF Proved, TypeOK
  <2> QED BY <1>9, <2>1, <2>2, <2>3, GotoType DEF Proved, TypeOK
<1>10. CASE BootstrapRejects
  <2>1. created \in Owners /\ boot.aborted \in BOOLEAN
    BY <1>10, OwnerNumbers DEF BootstrapRejects, OwnerInv, Building, NoOwner, TypeOK, BootType
  <2> QED BY <1>10, <2>1, BootstrapFailsType, RollbackType
          DEF BootstrapRejects, TypeOK, CallsType, world
<1>11. CASE Published
  <2>1. "using" \in CallState
    BY Values
  <2>2. call' \in CallsType
    BY <1>11, <2>1, ResumeType DEF Published, TypeOK
  <2>3. route' \in RouteType
    BY <1>11 DEF Published, TypeOK, RouteType
  <2> QED BY <1>11, <2>2, <2>3, Values DEF Published, TypeOK, CallsType, world
<1>12. CASE Timeout
  BY <1>12, AbortType, RollbackType DEF Timeout, TypeOK, CallsType, world
<1> QED BY <1>1, <1>2, <1>3, <1>4, <1>5, <1>6, <1>7, <1>8, <1>9, <1>10, <1>11, <1>12, <1>13
    DEF Startup, Restart, Create, Bootstrap

(* The steps of dispose, of the teardown and of the cleanups.               *)
LEMMA DisposalType ==
  ASSUME TypeOK, OwnerInv, Dispose \/ Teardown \/ \E i \in cleanups : CleanupStep(i)
  PROVE  TypeOK'
<1>1. CASE Dispose
  <2>1. teardown' \in TeardownType
    BY <1>1 DEF Dispose, TypeOK, TeardownType
  <2> QED BY <1>1, <2>1, AbortType DEF Dispose, TypeOK, CallsType, world
<1>2. CASE DisposeDrains
  <2>1. Failed(OfOwner \cup Tracked) \in BOOLEAN
    BY DEF Failed
  <2>2. teardown' \in TeardownType
    BY <1>2, <2>1 DEF DisposeDrains, TypeOK, TeardownType
  <2> QED BY <1>2, <2>2, Values DEF DisposeDrains, TypeOK, world
<1>3. CASE ProxyCloses
  <2>1. proxy' \in {"open", "stopped", "released"}
    BY <1>3 DEF ProxyCloses
  <2>2. teardown' \in TeardownType
    BY <1>3 DEF ProxyCloses, TypeOK, TeardownType
  <2>3. teardown.owner # NoOwner => teardown.owner \in Owners
    BY DEF TypeOK, TeardownType, OwnerId
  <2>4. cleanups' \subseteq CleanupType
    BY <1>3, <2>3, NewCleanupType, Values DEF ProxyCloses, TypeOK
  <2> QED BY <1>3, <2>1, <2>2, <2>4 DEF ProxyCloses, TypeOK, world
<1>4. CASE TeardownEnds
  <2>1. mode' \in {mode, "failed"} /\ proxy' \in {proxy, "released"}
    BY <1>4 DEF TeardownEnds
  <2>2. teardown' \in TeardownType
    BY <1>4 DEF TeardownEnds, TypeOK, TeardownType, Failed
  <2> QED BY <1>4, <2>1, <2>2 DEF TeardownEnds, TypeOK, world
<1>5. ASSUME NEW i \in cleanups, CleanupStep(i) PROVE TypeOK'
  <2>1. i \in CleanupType /\ i.at \in Part
    BY <1>5 DEF CleanupStep, TypeOK
  <2>2. PICK s \in {"released", "lost", "none"} :
          /\ res' = [res EXCEPT ![i.owner][i.at] = s]
          /\ cleanups' \subseteq cleanups \cup {Advanced(i, s = "lost")}
    BY <1>5 DEF CleanupStep
  <2>3. res' \in ResType
    BY <2>1, <2>2, Values, PartUpdateType
  <2>4. NextAt(i, s = "lost") \in Part \cup {"ok", "failed"}
    BY DEF NextAt, Part
  <2>5. Advanced(i, s = "lost") \in CleanupType
    BY <2>1, <2>4 DEF Advanced, CleanupType
  <2>6. browser' \in [Owners -> BOOLEAN]
    BY <1>5 DEF CleanupStep, TypeOK
  <2>7. generation' \in OwnerId /\ route' \in RouteType
    BY <1>5, InvalidateType DEF CleanupStep
  <2> QED BY <1>5, <2>2, <2>3, <2>5, <2>6, <2>7 DEF CleanupStep, TypeOK, ResType
<1> QED BY <1>1, <1>2, <1>3, <1>4, <1>5 DEF Teardown

(* The steps of the requests.                                               *)
LEMMA RequestType ==
  ASSUME TypeOK, NEW c \in Calls, Request(c) \/ PreProbed(c) \/ Probed(c)
  PROVE  TypeOK'
<1>1. call[c] \in CallType
  BY DEF TypeOK
<1>2. ASSUME NEW k \in {"browser", "close"}, BeginBrowser(c, k) PROVE TypeOK'
  <2>1. [pc |-> "preProbe", kind |-> k, gen |-> generation, own |-> owner] \in CallType
    BY Values DEF CallType, TypeOK
  <2>2. call' \in CallsType /\ boot' \in BootType /\ generation' \in OwnerId /\ route' \in RouteType
    BY <1>2, <2>1, Values, ToType, CallRecordType, JoinType DEF BeginBrowser, TypeOK
  <2> QED BY <1>2, <2>2 DEF BeginBrowser, TypeOK, CallsType, world
<1>3. CASE PreProbed(c)
  <2>2. call[c].kind \in {"browser", "close", "other", "info"}
    BY <1>1 DEF CallType
  <2>3. call' \in CallsType /\ boot' \in BootType /\ generation' \in OwnerId /\ route' \in RouteType
    BY <1>3, <2>2, Values, ToType, UseType, JoinType DEF PreProbed, TypeOK
  <2> QED BY <1>3, <2>3 DEF PreProbed, TypeOK, CallsType, world
<1>4. CASE BeginOther(c)
  <2>2. call' \in CallsType
    BY <1>4, Values, ToType, UseType DEF BeginOther
  <2> QED BY <1>4, <2>2 DEF BeginOther, TypeOK, CallsType, world
<1>5. CASE BeginProbe(c)
  <2>1. PICK pc \in {"failed", "done", "probing"} :
          call' = [call EXCEPT ![c] = [pc |-> pc, kind |-> "info", gen |-> generation, own |-> owner]]
    BY <1>5 DEF BeginProbe
  <2>2. [pc |-> pc, kind |-> "info", gen |-> generation, own |-> owner] \in CallType
    BY Values DEF CallType, TypeOK
  <2>3. call' \in CallsType
    BY <2>1, <2>2, CallRecordType
  <2> QED BY <1>5, <2>3 DEF BeginProbe, TypeOK, CallsType, world
<1>6. ASSUME NEW pc \in {"failed", "probing", "done"}, To(c, pc) PROVE call' \in CallsType
  BY <1>6, ToType, Values
<1>7. CASE UseSucceeds(c)
  <2>1. call' \in CallsType
    BY <1>6, <1>7 DEF UseSucceeds
  <2>2. generation' \in OwnerId /\ route' \in RouteType
    <3>1. CASE UNCHANGED <<generation, route>>
      BY <3>1 DEF TypeOK
    <3>2. CASE InvalidateGeneration(Closed(c))
      BY <3>2, InvalidateType
    <3> QED BY <1>7, <3>1, <3>2 DEF UseSucceeds
  <2>3. browser' \in [Owners -> BOOLEAN]
    BY <1>7 DEF UseSucceeds, TypeOK
  <2> QED BY <1>7, <2>1, <2>2, <2>3 DEF UseSucceeds, TypeOK, CallsType
<1>8. CASE UseFails(c)
  <2>1. generation' \in OwnerId /\ route' \in RouteType
    BY <1>8, InvalidateType DEF UseFails
  <2> QED BY <1>6, <1>8, <2>1 DEF UseFails, TypeOK, CallsType, world
<1>9. CASE Probed(c)
  <2>1. PICK same \in Answers(c) : InvalidateGeneration(Closed(c) \/ Refuted(c, same))
    BY <1>9 DEF Probed
  <2>2. generation' \in OwnerId /\ route' \in RouteType
    BY <2>1, InvalidateType
  <2> QED BY <1>6, <1>9, <2>2 DEF Probed, TypeOK, CallsType, world
<1> QED BY <1>2, <1>3, <1>4, <1>5, <1>7, <1>8, <1>9 DEF Request

(* Types are kept by every step from a state that satisfies the invariants. *)
LEMMA NextType == TypeOK /\ OwnerInv /\ PhaseInv /\ [Next]_vars => TypeOK'
<1> SUFFICES ASSUME TypeOK, OwnerInv, PhaseInv, [Next]_vars PROVE TypeOK'
  OBVIOUS
<1>1. ASSUME NEW o \in Owners, BrowserDies(o) PROVE TypeOK'
  BY <1>1 DEF BrowserDies, TypeOK
<1>2. CASE LossReported
  BY <1>2, InvalidateType DEF LossReported, TypeOK, world
<1>3. CASE UNCHANGED vars
  BY <1>3 DEF vars, world, TypeOK
<1> QED BY <1>1, <1>2, <1>3, OperationType, DisposalType, RequestType DEF Next
-----------------------------------------------------------------------------
(* The invariants.                                                          *)

(* An invariant is not disturbed by a step that leaves its variables alone. *)
LEMMA Frames ==
  /\ RouteReachesOwner /\ UNCHANGED <<route, owner, res, cleanups, generation>> => RouteReachesOwner'
  /\ NoRetiredOwnerInUse /\ UNCHANGED <<call, cleanups>> => NoRetiredOwnerInUse'
  /\ NoOverlappingChildren /\ UNCHANGED res => NoOverlappingChildren'
  /\ PhaseInv /\ UNCHANGED <<boot, generation, route, owner, created, mode, cleanups, teardown>> => PhaseInv'
  /\ OwnerInv /\ UNCHANGED <<owner, created, cleanups, res, boot, teardown>> => OwnerInv'
  /\ ChildInv /\ UNCHANGED <<res, owner, created, boot, teardown, cleanups>> => ChildInv'
  /\ CleanupInv /\ UNCHANGED <<cleanups, boot, teardown>> => CleanupInv'
  /\ UseInv /\ UNCHANGED <<boot, mode, call>> => UseInv'
  /\ LeaseInv /\ UNCHANGED <<mode, boot, proxy, teardown, cleanups>> => LeaseInv'
  BY DEF RouteReachesOwner, NoRetiredOwnerInUse, NoOverlappingChildren, PhaseInv, OwnerInv,
         ChildInv, CleanupInv, UseInv, LeaseInv, Using, OfOwner, Live, Tracked, Disposed

(* A rejected operation resumes nobody into an upstream.                    *)
LEMMA FailFacts ==
  ASSUME TypeOK, Fail
  PROVE  /\ boot' = NoBoot
         /\ \A c \in Calls : /\ call'[c].pc = "using" <=> call[c].pc = "using"
                             /\ call'[c].pc = "idle" => call[c].pc = "idle"
                             /\ call[c].pc # "joining" => call'[c] = call[c]
  BY DEF Fail, ResumeJoiners, TypeOK, CallType

(* A published generation resumes the waiting requests into its own owner.  *)
LEMMA ResumeFacts ==
  ASSUME TypeOK, ResumeJoiners("using", created)
  PROVE  \A c \in Calls : /\ call'[c].pc = "using" =>
                                (call[c].pc = "using" /\ call'[c] = call[c]) \/ call'[c].own = created
                          /\ call'[c].pc = "idle" => call[c].pc = "idle" /\ call'[c] = call[c]
  BY DEF ResumeJoiners, TypeOK, CallType

(* A cleanup just begun is one that closes the upstream of its owner.       *)
LEMMA Disposes ==
  ASSUME NEW S, NEW o, NEW of, Cleanup(o, of, "upstream") \in S
  PROVE  \E i \in S : i.owner = o /\ i.at = "upstream"
<1>1. Cleanup(o, of, "upstream").owner = o /\ Cleanup(o, of, "upstream").at = "upstream"
  BY DEF Cleanup
<1> QED BY <1>1

(* #createOwner numbers the new child and disturbs no other one.            *)
LEMMA CreateFacts ==
  ASSUME TypeOK, BeginCreate
  PROVE  /\ created' = created + 1 /\ created' \in Owners /\ created' # 0
         /\ boot'.phase = "port" /\ boot'.aborted = boot.aborted
         /\ \A o \in Owners : /\ res'[o]["upstream"] = res[o]["upstream"]
                              /\ res'[o]["runtime"] = res[o]["runtime"]
<1>1. created' = created + 1 /\ created' \in Owners /\ created' # 0
  BY OwnerNumbers DEF BeginCreate
<1>2. boot'.phase = "port" /\ boot'.aborted = boot.aborted
  BY DEF BeginCreate, Goto, TypeOK, BootType
<1>3. ASSUME NEW o \in Owners
      PROVE  res'[o]["upstream"] = res[o]["upstream"] /\ res'[o]["runtime"] = res[o]["runtime"]
  BY <1>1 DEF BeginCreate, TypeOK, Part
<1> QED BY <1>1, <1>2, <1>3

(* A disposal that settles moves one cleanup on, away from the upstream,    *)
(* and ends one part of one owner.                                          *)
LEMMA StepFacts ==
  ASSUME TypeOK, NEW i \in cleanups, CleanupStep(i)
  PROVE  /\ i.at \in Part /\ i.owner \in Owners
         /\ \A j \in cleanups' : \/ j \in cleanups /\ j # i
                                 \/ /\ j.owner = i.owner /\ j.of = i.of /\ j.at # "upstream"
                                    /\ j.of = "owner" => j.at # "ok"
         /\ \A j \in cleanups : j # i => j \in cleanups'
         /\ \A o \in Owners, p \in Part : o # i.owner \/ p # i.at => res'[o][p] = res[o][p]
         /\ res'[i.owner][i.at] \in {"released", "lost", "none"}
<1>1. i.at \in Part /\ i.owner \in Owners
  BY DEF CleanupStep, TypeOK, CleanupType
<1>2. PICK s \in {"released", "lost", "none"} :
        /\ res' = [res EXCEPT ![i.owner][i.at] = s]
        /\ cleanups' = (cleanups \ {i}) \cup
             {j \in {Advanced(i, s = "lost")} : j.of # "owner" \/ j.at # "ok"}
  BY DEF CleanupStep
<1>3. NextAt(i, s = "lost") # "upstream"
  BY DEF NextAt
<1>4. LET j == Advanced(i, s = "lost") IN
        j.owner = i.owner /\ j.of = i.of /\ j.at # "upstream"
  BY <1>3 DEF Advanced, TypeOK, CleanupType
<1>5. /\ \A o \in Owners, p \in Part : o # i.owner \/ p # i.at => res'[o][p] = res[o][p]
      /\ res'[i.owner][i.at] \in {"released", "lost", "none"}
  BY <1>1, <1>2 DEF TypeOK
<1> QED BY <1>1, <1>2, <1>4, <1>5

(* An aborted operation leaves no live child behind without its cleanup,    *)
(* except that rollbackStartup() still holds the owner of the first one.    *)
LEMMA AbortedChildren ==
  ASSUME Safe, Abort, NEW o \in Owners, Live(o)
  PROVE  \/ o = owner'
         \/ \E i \in cleanups' : i.owner = o /\ i.at = "upstream"
         \/ o = owner /\ mode = "starting" /\ boot' = NoBoot
<1> USE DEF NoBoot
<1>0. PhaseInv /\ ChildInv
  BY DEF Safe, Coherent
<1>1. CASE o = owner
  <2>1. CASE UNCHANGED owner
    BY <1>1, <2>1
  <2>2. CASE boot.phase \in {"prove", "verify"} /\ BootstrapFails(TRUE)
    <3>1. CASE mode = "starting"
      BY <1>1, <2>2, <3>1 DEF BootstrapFails, Fail
    <3>2. CASE mode # "starting"
      <4>1. o = created /\ Cleanup(created, "owner", "upstream") \in cleanups'
        BY <1>0, <1>1, <2>2, <3>2 DEF BootstrapFails, PhaseInv
      <4> QED BY <4>1, Disposes
    <3> QED BY <3>1, <3>2
  <2> QED BY <2>1, <2>2 DEF Abort
<1>2. CASE o = created /\ boot.phase \in {"upstream", "handoff"}
  <2>1. cleanups' = cleanups \cup Abandoned
    BY <1>2 DEF Abort
  <2>2. CASE boot.phase = "upstream"
    <3>1. Cleanup(created, "late", "upstream") \in Abandoned
      BY <2>2 DEF Abandoned, Part
    <3> QED BY <1>2, <2>1, <3>1, Disposes
  <2>3. CASE boot.phase = "handoff"
    <3>1. HeldLast["handoff"] = "upstream" /\ "handoff" \in DOMAIN HeldLast
      BY DEF HeldLast
    <3>2. Cleanup(created, "owned", "upstream") \in Abandoned
      BY <2>3, <3>1 DEF Abandoned
    <3> QED BY <1>2, <2>1, <3>2, Disposes
  <2> QED BY <1>2, <2>2, <2>3
<1>3. CASE \E i \in cleanups : i.owner = o /\ i.at = "upstream"
  BY <1>3 DEF Abort, BootstrapFails
<1>4. CASE o = teardown.owner /\ teardown.phase \in {"stop", "close"}
  <2>1. boot.phase = "idle"
    BY <1>0, <1>4 DEF PhaseInv, Waiting
  <2> QED BY <2>1 DEF Abort, Part, Waiting
<1>5. \/ o = owner
      \/ o = created /\ boot.phase \in {"upstream", "handoff"}
      \/ \E i \in cleanups : i.owner = o /\ i.at = "upstream"
      \/ o = teardown.owner /\ teardown.phase \in {"stop", "close"}
  BY <1>0 DEF ChildInv
<1> QED BY <1>1, <1>2, <1>3, <1>4, <1>5
(* startManagedCdpSession: the listener is up, the first child is numbered. *)
LEMMA ProxyCreatedSafe ==
  ASSUME Safe, ProxyCreated
  PROVE  Safe'
<1> USE DEF Safe, Coherent, NoBoot, NoRoute, NoOwner, Part, Building, Tracked, OfOwner, Ended, Failed, Disposed, Live, Using, world, Waiting
<1>1. RouteReachesOwner'
  BY DEF RouteReachesOwner, ProxyCreated, BeginCreate
<1>2. NoOverlappingChildren'
  BY DEF NoOverlappingChildren, ProxyCreated, BeginCreate
<1>3. PhaseInv'
  BY DEF PhaseInv, ProxyCreated, BeginCreate, Goto
<1>4. OwnerInv'
  <2>1. CASE BeginCreate
    <3>1. owner = NoOwner
      BY DEF ProxyCreated, PhaseInv
    <3>2. res'[created']["upstream"] = "none"
      BY <2>1, CreateFacts, OwnerNumbers DEF OwnerInv, ProxyCreated
    <3>3. \A i \in cleanups : i.owner < created'
      BY <2>1, CreateFacts, OwnerNumbers DEF OwnerInv
    <3>4. owner <= created' /\ teardown.owner <= created' /\ created <= created'
      BY <2>1, CreateFacts, OwnerNumbers DEF OwnerInv
    <3>5. \A o \in Owners : o > created' => res'[o]["upstream"] = "none"
      BY <2>1, CreateFacts, OwnerNumbers DEF OwnerInv, Owners
    <3> QED BY <2>1, <3>1, <3>2, <3>3, <3>4, <3>5, CreateFacts, OwnerNumbers DEF OwnerInv, ProxyCreated
  <2>2. CASE Fail /\ UNCHANGED <<created, res>>
    BY <2>2, FailFacts DEF OwnerInv, ProxyCreated
  <2> QED BY <2>1, <2>2 DEF ProxyCreated
<1>5. ChildInv'
  <2>1. CASE BeginCreate
    <3>1. \A o \in Owners : ~Live(o)
      BY <2>1 DEF ProxyCreated, ChildInv, PhaseInv, CleanupInv, Ended, TypeOK, CleanupType, Owners
    <3> QED BY <2>1, <3>1, CreateFacts DEF ChildInv, ProxyCreated
  <2>2. CASE Fail /\ UNCHANGED <<created, res>>
    BY <2>2, FailFacts DEF ChildInv, ProxyCreated
  <2> QED BY <2>1, <2>2 DEF ProxyCreated
<1>6. CleanupInv'
  BY DEF CleanupInv, PhaseInv, ProxyCreated
<1>7. UseInv'
  BY DEF UseInv, ProxyCreated
<1>8. LeaseInv'
  BY DEF LeaseInv, ProxyCreated
<1>9. NoRetiredOwnerInUse'
  BY Frames DEF ProxyCreated
<1>10. TypeOK'
  BY NextType DEF Next, Startup
<1> QED BY <1>1, <1>2, <1>3, <1>4, <1>5, <1>6, <1>7, <1>8, <1>9, <1>10

(* startManagedCdpSession: no listener, so there is no session at all.      *)
LEMMA ProxyFailsSafe ==
  ASSUME Safe, ProxyFails
  PROVE  Safe'
<1> USE DEF Safe, Coherent, NoBoot, NoRoute, NoOwner, Part, Building, Tracked, OfOwner, Ended, Failed, Disposed, Live, Using, world, Waiting
<1>1. PhaseInv'
  BY DEF PhaseInv, ProxyFails
<1>2. OwnerInv'
  BY DEF OwnerInv, ProxyFails
<1>3. ChildInv'
  BY DEF ChildInv, ProxyFails
<1>4. CleanupInv'
  BY DEF CleanupInv, ProxyFails
<1>5. UseInv'
  BY DEF UseInv, PhaseInv, ProxyFails
<1>6. LeaseInv'
  BY DEF LeaseInv, ProxyFails
<1>7. RouteReachesOwner' /\ NoRetiredOwnerInUse' /\ NoOverlappingChildren'
  BY Frames DEF ProxyFails
<1>8. TypeOK'
  BY NextType DEF Next, Startup
<1> QED BY <1>1, <1>2, <1>3, <1>4, <1>5, <1>6, <1>7, <1>8

(* acquireWithinDeadline: the listener of a failed start is given up.       *)
LEMMA LateProxySafe ==
  ASSUME Safe, LateProxy
  PROVE  Safe'
<1> USE DEF Safe, Coherent, NoBoot, NoRoute, NoOwner, Part, Building, Tracked, OfOwner, Ended, Failed, Disposed, Live, Using, world, Waiting
<1>1. LeaseInv'
  BY DEF LeaseInv, LateProxy
<1>2. /\ RouteReachesOwner' /\ NoRetiredOwnerInUse' /\ NoOverlappingChildren' /\ PhaseInv'
      /\ OwnerInv' /\ ChildInv' /\ CleanupInv' /\ UseInv'
  BY Frames DEF LateProxy
<1>3. TypeOK'
  BY NextType DEF Next, Startup
<1> QED BY <1>1, <1>2, <1>3

(* #restartWithSignal: the requests at the previous owner have ended.       *)
LEMMA OwnerWaitedSafe ==
  ASSUME Safe, OwnerWaited
  PROVE  Safe'
<1> USE DEF Safe, Coherent, NoBoot, NoRoute, NoOwner, Part, Building, Tracked, OfOwner, Ended, Failed, Disposed, Live, Using, world, Waiting
<1>0. boot.phase = "wait" /\ boot' = [phase |-> "previous", aborted |-> boot.aborted]
  BY DEF OwnerWaited, Goto, TypeOK, BootType
<1>1. RouteReachesOwner' /\ NoRetiredOwnerInUse' /\ NoOverlappingChildren'
  BY Frames DEF OwnerWaited
<1>2. PhaseInv'
  BY <1>0 DEF PhaseInv, OwnerWaited
<1>3. OwnerInv' /\ ChildInv' /\ CleanupInv'
  BY <1>0 DEF OwnerInv, ChildInv, CleanupInv, PhaseInv, OwnerWaited
<1>4. UseInv'
  BY <1>0 DEF UseInv, OwnerWaited, OwnerIdle
<1>5. LeaseInv'
  BY <1>0 DEF LeaseInv, PhaseInv, OwnerWaited
<1>6. TypeOK'
  BY NextType DEF Next, Restart
<1> QED BY <1>1, <1>2, <1>3, <1>4, <1>5, <1>6

(* #restartWithSignal: an earlier owner cleanup is over, or has failed.     *)
LEMMA PreviousCleanedSafe ==
  ASSUME Safe, PreviousCleaned
  PROVE  Safe'
<1> USE DEF Safe, Coherent, NoBoot, NoRoute, NoOwner, Part, Building, Tracked, OfOwner, Ended, Failed, Disposed, Live, Using, world, Waiting
<1>0. boot'.phase \in {"drain", "idle"}
  BY FailFacts DEF PreviousCleaned, Goto, TypeOK, BootType
<1>1. RouteReachesOwner' /\ NoOverlappingChildren'
  BY Frames DEF PreviousCleaned
<1>2. NoRetiredOwnerInUse'
  BY FailFacts DEF NoRetiredOwnerInUse, UseInv, PreviousCleaned
<1>3. PhaseInv'
  BY FailFacts DEF PhaseInv, PreviousCleaned, Goto, TypeOK, BootType
<1>4. OwnerInv' /\ ChildInv' /\ CleanupInv'
  BY <1>0 DEF OwnerInv, ChildInv, CleanupInv, PhaseInv, PreviousCleaned
<1>5. UseInv'
  BY FailFacts, <1>0 DEF UseInv, PreviousCleaned
<1>6. LeaseInv'
  BY DEF LeaseInv, PhaseInv, PreviousCleaned
<1>7. TypeOK'
  BY NextType DEF Next, Restart
<1> QED BY <1>1, <1>2, <1>3, <1>4, <1>5, <1>6, <1>7

(* #restartWithSignal: the previous owner goes to its cleanup.              *)
LEMMA PreviousRetiresSafe ==
  ASSUME Safe, PreviousRetires
  PROVE  Safe'
<1> USE DEF Safe, Coherent, NoBoot, NoRoute, NoOwner, Part, Building, Tracked, OfOwner, Ended, Failed, Disposed, Live, Using, world, Waiting
<1>1. RouteReachesOwner'
  BY DEF RouteReachesOwner, PhaseInv, PreviousRetires
<1>2. NoRetiredOwnerInUse'
  BY FailFacts DEF NoRetiredOwnerInUse, UseInv, PreviousRetires
<1>3. PhaseInv'
  BY FailFacts DEF PhaseInv, PreviousRetires, Goto, TypeOK, BootType
<1>4. OwnerInv'
  BY FailFacts, OwnerNumbers DEF OwnerInv, PreviousRetires, Retired, Goto, Cleanup, TypeOK,
     BootType
<1>5. ChildInv'
  <2>1. boot'.phase \notin Building
    BY FailFacts DEF PreviousRetires, Goto, TypeOK, BootType
  <2>2. ASSUME NEW o \in Owners, Live(o)
        PROVE  o = owner' \/ \E i \in cleanups' : i.owner = o /\ i.at = "upstream"
    <3>1. \/ o = owner
          \/ \E i \in cleanups : i.owner = o /\ i.at = "upstream"
      BY <2>2 DEF PreviousRetires, ChildInv, PhaseInv
    <3>2. CASE UNCHANGED owner /\ UNCHANGED cleanups
      BY <3>1, <3>2
    <3>3. CASE Ended(Tracked) /\ UNCHANGED owner /\ cleanups' = cleanups \ Tracked
      BY <3>1, <3>3
    <3>4. CASE Ended(Tracked) /\ cleanups' = (cleanups \ Tracked) \cup Retired
      <4>1. CASE o = owner
        <5>1. Cleanup(o, "owner", "upstream") \in cleanups'
          BY <4>1, <3>4, OwnerNumbers DEF Retired, Owners
        <5> QED BY <5>1, Disposes
      <4>2. CASE \E i \in cleanups : i.owner = o /\ i.at = "upstream"
        BY <4>2, <3>4
      <4> QED BY <3>1, <4>1, <4>2
    <3> QED BY <3>2, <3>3, <3>4 DEF PreviousRetires
  <2> QED BY <2>1, <2>2 DEF ChildInv, PreviousRetires
<1>6. CleanupInv'
  BY FailFacts DEF CleanupInv, PreviousRetires, Retired, Goto, Cleanup, TypeOK, BootType
<1>7. UseInv'
  BY FailFacts DEF UseInv, PreviousRetires
<1>8. LeaseInv'
  BY DEF LeaseInv, PhaseInv, PreviousRetires
<1>9. NoOverlappingChildren'
  BY Frames DEF PreviousRetires
<1>10. TypeOK'
  BY NextType DEF Next, Restart
<1> QED BY <1>1, <1>2, <1>3, <1>4, <1>5, <1>6, <1>7, <1>8, <1>9, <1>10

(* #restartWithSignal: its cleanup is over, the replacement is numbered.    *)
LEMMA PreviousRetiredSafe ==
  ASSUME Safe, PreviousRetired
  PROVE  Safe'
<1> USE DEF Safe, Coherent, NoBoot, NoRoute, NoOwner, Part, Building, Tracked, OfOwner, Ended, Failed, Disposed, Live, Using, world, Waiting
<1>1. RouteReachesOwner'
  BY DEF RouteReachesOwner, PhaseInv, PreviousRetired
<1>2. NoRetiredOwnerInUse'
  BY FailFacts DEF NoRetiredOwnerInUse, PreviousRetired
<1>3. NoOverlappingChildren'
  BY DEF NoOverlappingChildren, PreviousRetired, BeginCreate, TypeOK
<1>4. PhaseInv'
  BY FailFacts DEF PhaseInv, PreviousRetired, BeginCreate, Goto, TypeOK, BootType
<1>5. OwnerInv'
  <2>1. CASE BeginCreate
    <3>1. owner = NoOwner
      BY DEF PreviousRetired, PhaseInv
    <3>2. res'[created']["upstream"] = "none"
      BY <2>1, CreateFacts, OwnerNumbers DEF OwnerInv, PreviousRetired
    <3>3. \A i \in cleanups : i.owner < created'
      BY <2>1, CreateFacts, OwnerNumbers DEF OwnerInv
    <3>4. owner <= created' /\ teardown.owner <= created' /\ created <= created'
      BY <2>1, CreateFacts, OwnerNumbers DEF OwnerInv
    <3>5. \A o \in Owners : o > created' => res'[o]["upstream"] = "none"
      BY <2>1, CreateFacts, OwnerNumbers DEF OwnerInv, Owners
    <3> QED BY <2>1, <3>1, <3>2, <3>3, <3>4, <3>5, CreateFacts, OwnerNumbers DEF OwnerInv, PreviousRetired
  <2>2. CASE Fail /\ UNCHANGED <<created, res>>
    BY <2>2, FailFacts DEF OwnerInv, PreviousRetired
  <2> QED BY <2>1, <2>2 DEF PreviousRetired
<1>6. ChildInv'
  <2>1. CASE BeginCreate /\ OfOwner = {} /\ ~Disposed
    <3>1. cleanups = {}
      BY <2>1 DEF PreviousRetired, PhaseInv, CleanupInv, TypeOK, CleanupType
    <3>2. \A o \in Owners : ~Live(o)
      BY <2>1, <3>1 DEF PreviousRetired, ChildInv, PhaseInv, Owners
    <3> QED BY <2>1, <3>2, CreateFacts DEF ChildInv, PreviousRetired
  <2>2. CASE Fail /\ UNCHANGED <<created, res>>
    BY <2>2, FailFacts DEF ChildInv, PreviousRetired
  <2> QED BY <2>1, <2>2 DEF PreviousRetired
<1>7. CleanupInv'
  BY FailFacts DEF CleanupInv, PreviousRetired
<1>8. UseInv'
  BY FailFacts DEF UseInv, PreviousRetired
<1>9. LeaseInv'
  BY DEF LeaseInv, PreviousRetired
<1>10. TypeOK'
  BY NextType DEF Next, Restart
<1> QED BY <1>1, <1>2, <1>3, <1>4, <1>5, <1>6, <1>7, <1>8, <1>9, <1>10

(* #createOwner: the cleanup of a failed creation is over.                  *)
LEMMA UndoneSafe ==
  ASSUME Safe, Undone
  PROVE  Safe'
<1> USE DEF Safe, Coherent, NoBoot, NoRoute, NoOwner, Part, Building, Tracked, OfOwner, Ended, Failed, Disposed, Live, Using, world, Waiting
<1>1. RouteReachesOwner'
  BY DEF RouteReachesOwner, Undone
<1>2. NoRetiredOwnerInUse'
  BY FailFacts DEF NoRetiredOwnerInUse, Undone
<1>3. PhaseInv'
  BY FailFacts DEF PhaseInv, Undone, Rollback
<1>4. OwnerInv'
  BY FailFacts DEF OwnerInv, Undone, Rollback
<1>5. ChildInv'
  BY FailFacts DEF ChildInv, PhaseInv, Undone
<1>6. CleanupInv'
  BY FailFacts DEF CleanupInv, PhaseInv, Undone
<1>7. UseInv'
  BY FailFacts DEF UseInv, Undone
<1>8. LeaseInv'
  BY DEF LeaseInv, Undone, Rollback
<1>9. NoOverlappingChildren'
  BY Frames DEF Undone
<1>10. TypeOK'
  BY NextType DEF Next, Restart
<1> QED BY <1>1, <1>2, <1>3, <1>4, <1>5, <1>6, <1>7, <1>8, <1>9, <1>10

(* #restartWithSignal: the cleanup of a failed bootstrap is over.           *)
LEMMA DiscardedSafe ==
  ASSUME Safe, Discarded
  PROVE  Safe'
<1> USE DEF Safe, Coherent, NoBoot, NoRoute, NoOwner, Part, Building, Tracked, OfOwner, Ended, Failed, Disposed, Live, Using, world, Waiting
<1>1. NoRetiredOwnerInUse'
  BY FailFacts DEF NoRetiredOwnerInUse, Discarded
<1>2. PhaseInv'
  BY FailFacts DEF PhaseInv, Discarded
<1>3. OwnerInv'
  BY FailFacts DEF OwnerInv, Discarded
<1>4. ChildInv'
  BY FailFacts DEF ChildInv, Discarded
<1>5. CleanupInv'
  BY FailFacts DEF CleanupInv, Discarded
<1>6. UseInv'
  BY FailFacts DEF UseInv, Discarded
<1>7. LeaseInv'
  BY DEF LeaseInv, Discarded
<1>8. RouteReachesOwner' /\ NoOverlappingChildren'
  BY Frames DEF Discarded
<1>9. TypeOK'
  BY NextType DEF Next, Restart
<1> QED BY <1>1, <1>2, <1>3, <1>4, <1>5, <1>6, <1>7, <1>8, <1>9

(* #createOwner: one resource is there, the next one is asked for.          *)
LEMMA AcquiredSafe ==
  ASSUME Safe, NEW p \in Part, Acquired(p)
  PROVE  Safe'
<1> USE DEF Safe, Coherent, NoBoot, NoRoute, NoOwner, Part, Building, Tracked, OfOwner, Ended, Failed, Disposed, Live, Using, world, Waiting
<1>1. RouteReachesOwner'
  BY DEF RouteReachesOwner, OwnerInv, Acquired, NextPart
<1>2. NoOverlappingChildren'
  BY DEF NoOverlappingChildren, ChildInv, Acquired
<1>3. PhaseInv'
  BY DEF PhaseInv, Acquired, Goto, NextPart
<1>4. OwnerInv'
  BY OwnerNumbers DEF OwnerInv, Acquired, Goto, NextPart, TypeOK
<1>5. ChildInv'
  BY DEF ChildInv, Acquired, Goto, NextPart
<1>6. CleanupInv'
  BY DEF CleanupInv, Acquired
<1>7. UseInv'
  BY DEF UseInv, Acquired
<1>8. LeaseInv'
  BY DEF LeaseInv, Acquired
<1>9. NoRetiredOwnerInUse'
  BY Frames DEF Acquired
<1>10. TypeOK'
  BY NextType DEF Next, Create
<1> QED BY <1>1, <1>2, <1>3, <1>4, <1>5, <1>6, <1>7, <1>8, <1>9, <1>10

(* #createOwner: a resource is refused, the earlier ones are given back.    *)
LEMMA CreateFailsSafe ==
  ASSUME Safe, CreateFails
  PROVE  Safe'
<1> USE DEF Safe, Coherent, NoBoot, NoRoute, NoOwner, Part, Building, Tracked, OfOwner, Ended, Failed, Disposed, Live, Using, world, Waiting
<1>1. RouteReachesOwner'
  BY DEF RouteReachesOwner, PhaseInv, CreateFails
<1>2. NoRetiredOwnerInUse'
  BY FailFacts DEF NoRetiredOwnerInUse, CreateFails, Cleanup
<1>3. NoOverlappingChildren'
  BY DEF NoOverlappingChildren, CreateFails
<1>4. PhaseInv'
  BY FailFacts DEF PhaseInv, CreateFails, Goto, Rollback, TypeOK, BootType
<1>5. OwnerInv'
  BY FailFacts, OwnerNumbers DEF OwnerInv, PhaseInv, CreateFails, Goto, Rollback, Cleanup,
     TypeOK, BootType
<1>6. ChildInv'
  <2>1. boot'.phase \notin Building
    BY FailFacts DEF CreateFails, Goto, TypeOK, BootType
  <2>2. ASSUME NEW o \in Owners, Live(o)'
        PROVE  \E i \in cleanups' : i.owner = o /\ i.at = "upstream"
    <3>1. o = created
      BY <2>2, OwnerNumbers DEF CreateFails, ChildInv, TypeOK
    <3>2. boot.phase = "handoff"
      BY <2>2, <3>1, OwnerNumbers DEF CreateFails, OwnerInv, TypeOK
    <3>3. Cleanup(created, "undo", "upstream") \in cleanups'
      BY <3>2 DEF CreateFails, HeldLast
    <3> QED BY <3>1, <3>3, Disposes
  <2> QED BY <2>1, <2>2 DEF ChildInv
<1>7. CleanupInv'
  BY DEF CleanupInv, PhaseInv, CreateFails, Goto, Cleanup, TypeOK, BootType
<1>8. UseInv'
  BY FailFacts DEF UseInv, CreateFails
<1>9. LeaseInv'
  BY DEF LeaseInv, CreateFails, Rollback, Cleanup
<1>10. TypeOK'
  BY NextType DEF Next, Create
<1> QED BY <1>1, <1>2, <1>3, <1>4, <1>5, <1>6, <1>7, <1>8, <1>9, <1>10

(* #createOwner: the port is handed over, the child becomes the owner.      *)
LEMMA HandedOffSafe ==
  ASSUME Safe, HandedOff
  PROVE  Safe'
<1> USE DEF Safe, Coherent, NoBoot, NoRoute, NoOwner, Part, Building, Tracked, OfOwner, Ended, Failed, Disposed, Live, Using, world, Waiting
<1>1. RouteReachesOwner'
  BY DEF RouteReachesOwner, PhaseInv, HandedOff
<1>2. NoOverlappingChildren'
  BY DEF NoOverlappingChildren, HandedOff
<1>3. PhaseInv'
  BY DEF PhaseInv, HandedOff, Goto
<1>4. OwnerInv'
  BY OwnerNumbers DEF OwnerInv, HandedOff, Goto
<1>5. ChildInv'
  BY DEF ChildInv, HandedOff
<1>6. CleanupInv'
  BY DEF CleanupInv, HandedOff
<1>7. UseInv'
  BY DEF UseInv, HandedOff
<1>8. LeaseInv'
  BY DEF LeaseInv, HandedOff
<1>9. NoRetiredOwnerInUse'
  BY Frames DEF HandedOff
<1>10. TypeOK'
  BY NextType DEF Next, Create
<1> QED BY <1>1, <1>2, <1>3, <1>4, <1>5, <1>6, <1>7, <1>8, <1>9, <1>10

(* #bootstrapOwner: the challenge is read, the route is staged.             *)
LEMMA ProvedSafe ==
  ASSUME Safe, Proved
  PROVE  Safe'
<1> USE DEF Safe, Coherent, NoBoot, NoRoute, NoOwner, Part, Building, Tracked, OfOwner, Ended, Failed, Disposed, Live, Using, world, Waiting
<1>1. RouteReachesOwner'
  BY DEF RouteReachesOwner, PhaseInv, OwnerInv, Proved
<1>2. PhaseInv'
  BY DEF PhaseInv, Proved, Goto
<1>3. OwnerInv'
  BY DEF OwnerInv, Proved, Goto
<1>4. ChildInv'
  BY DEF ChildInv, Proved
<1>5. CleanupInv'
  BY DEF CleanupInv, Proved
<1>6. UseInv'
  BY DEF UseInv, Proved
<1>7. LeaseInv'
  BY DEF LeaseInv, Proved
<1>8. NoRetiredOwnerInUse' /\ NoOverlappingChildren'
  BY Frames DEF Proved
<1>9. TypeOK'
  BY NextType DEF Next, Bootstrap
<1> QED BY <1>1, <1>2, <1>3, <1>4, <1>5, <1>6, <1>7, <1>8, <1>9

(* #bootstrapOwner: launch, probe or verification fails.                    *)
LEMMA BootstrapRejectsSafe ==
  ASSUME Safe, BootstrapRejects
  PROVE  Safe'
<1> USE DEF Safe, Coherent, NoBoot, NoRoute, NoOwner, Part, Building, Tracked, OfOwner, Ended, Failed, Disposed, Live, Using, world, Waiting
<1>1. RouteReachesOwner'
  BY DEF RouteReachesOwner, PhaseInv, BootstrapRejects, BootstrapFails
<1>2. NoRetiredOwnerInUse'
  BY FailFacts DEF NoRetiredOwnerInUse, UseInv, BootstrapRejects, BootstrapFails
<1>3. PhaseInv'
  BY FailFacts DEF PhaseInv, BootstrapRejects, BootstrapFails, Rollback, TypeOK
<1>4. OwnerInv'
  BY FailFacts, OwnerNumbers DEF OwnerInv, BootstrapRejects, BootstrapFails, Rollback, Cleanup
<1>5. ChildInv'
  <2>1. boot'.phase \notin Building
    BY FailFacts DEF BootstrapRejects, BootstrapFails
  <2>2. ASSUME NEW o \in Owners, Live(o)
        PROVE  \/ o = teardown'.owner /\ teardown'.phase \in {"stop", "close"}
               \/ \E i \in cleanups' : i.owner = o /\ i.at = "upstream"
    <3>1. o = created /\ o = owner
      BY <2>2 DEF BootstrapRejects, ChildInv, PhaseInv
    <3>2. CASE mode = "starting"
      BY <3>1, <3>2, FailFacts DEF BootstrapRejects, BootstrapFails, Rollback
    <3>3. CASE mode # "starting"
      <4>1. Cleanup(created, "owner", "upstream") \in cleanups'
        BY <3>3 DEF BootstrapRejects, BootstrapFails
      <4> QED BY <3>1, <4>1, Disposes
    <3> QED BY <3>2, <3>3
  <2> QED BY <2>1, <2>2 DEF ChildInv, BootstrapRejects
<1>6. CleanupInv'
  BY DEF CleanupInv, PhaseInv, BootstrapRejects, BootstrapFails, Cleanup
<1>7. UseInv'
  BY FailFacts DEF UseInv, BootstrapRejects, BootstrapFails
<1>8. LeaseInv'
  BY DEF LeaseInv, PhaseInv, BootstrapRejects, Rollback
<1>9. NoOverlappingChildren'
  BY Frames DEF BootstrapRejects
<1>10. TypeOK'
  BY NextType DEF Next, Bootstrap
<1> QED BY <1>1, <1>2, <1>3, <1>4, <1>5, <1>6, <1>7, <1>8, <1>9, <1>10

(* #bootstrapOwner: the generation is published, the waiters go on.         *)
LEMMA PublishedSafe ==
  ASSUME Safe, Published
  PROVE  Safe'
<1> USE DEF Safe, Coherent, NoBoot, NoRoute, NoOwner, Part, Building, Tracked, OfOwner, Ended, Failed, Disposed, Live, Using, world, Waiting
<1>1. RouteReachesOwner'
  BY DEF RouteReachesOwner, Published
<1>2. NoRetiredOwnerInUse'
  BY ResumeFacts DEF NoRetiredOwnerInUse, OwnerInv, Published
<1>3. PhaseInv'
  BY DEF PhaseInv, Published
<1>4. OwnerInv'
  BY DEF OwnerInv, Published
<1>5. ChildInv'
  BY DEF ChildInv, Published
<1>6. CleanupInv'
  BY DEF CleanupInv, Published
<1>7. UseInv'
  BY ResumeFacts DEF UseInv, Published
<1>8. LeaseInv'
  BY DEF LeaseInv, PhaseInv, Published, TypeOK
<1>9. NoOverlappingChildren'
  BY Frames DEF Published
<1>10. TypeOK'
  BY NextType DEF Next, Bootstrap
<1> QED BY <1>1, <1>2, <1>3, <1>4, <1>5, <1>6, <1>7, <1>8, <1>9, <1>10

(* withinDeadline: the operation is aborted wherever it is.                 *)
LEMMA TimeoutSafe ==
  ASSUME Safe, Timeout
  PROVE  Safe'
<1> USE DEF Safe, Coherent, NoBoot, NoRoute, NoOwner, Part, Building, Tracked, OfOwner, Ended, Failed, Disposed, Live, Using, world, Waiting
<1>1. RouteReachesOwner'
  BY DEF RouteReachesOwner, PhaseInv, Timeout, Abort, BootstrapFails
<1>2. NoRetiredOwnerInUse'
  BY FailFacts DEF NoRetiredOwnerInUse, UseInv, Timeout, Abort, Abandoned, BootstrapFails,
     Cleanup
<1>3. PhaseInv'
  BY FailFacts DEF PhaseInv, Timeout, Abort, BootstrapFails, Rollback, TypeOK, BootType
<1>4. OwnerInv'
  BY FailFacts, OwnerNumbers DEF OwnerInv, Timeout, Abort, Abandoned, HeldLast, BootstrapFails,
     Rollback, Cleanup, TypeOK, BootType
<1>5. ChildInv'
  <2>1. boot'.phase \notin Building
    BY FailFacts DEF Timeout, Abort, BootstrapFails, TypeOK, BootType
  <2>2. ASSUME NEW o \in Owners, Live(o)
        PROVE  \/ o = owner'
               \/ o = teardown'.owner /\ teardown'.phase \in {"stop", "close"}
               \/ \E i \in cleanups' : i.owner = o /\ i.at = "upstream"
    <3>1. CASE o = owner /\ mode = "starting" /\ boot' = NoBoot
      <4>1. teardown' = [phase |-> "close", owner |-> owner, failed |-> FALSE]
        BY <3>1 DEF Timeout, Rollback
      <4> QED BY <3>1, <4>1
    <3>2. CASE o = owner' \/ \E i \in cleanups' : i.owner = o /\ i.at = "upstream"
      BY <3>2
    <3> QED BY <2>2, <3>1, <3>2, AbortedChildren DEF Timeout
  <2> QED BY <2>1, <2>2 DEF ChildInv, Timeout
<1>6. CleanupInv'
  BY FailFacts DEF CleanupInv, PhaseInv, Timeout, Abort, Abandoned, BootstrapFails, Cleanup,
     TypeOK, BootType
<1>7. UseInv'
  BY FailFacts DEF UseInv, Timeout, Abort, BootstrapFails
<1>8. LeaseInv'
  BY DEF LeaseInv, PhaseInv, Timeout, Abort, BootstrapFails, Rollback
<1>9. NoOverlappingChildren'
  BY Frames DEF Timeout
<1>10. TypeOK'
  BY NextType DEF Next
<1> QED BY <1>1, <1>2, <1>3, <1>4, <1>5, <1>6, <1>7, <1>8, <1>9, <1>10

(* dispose(): new work is refused and the restart in flight aborted.        *)
LEMMA DisposeSafe ==
  ASSUME Safe, Dispose
  PROVE  Safe'
<1> USE DEF Safe, Coherent, NoBoot, NoRoute, NoOwner, Part, Building, Tracked, OfOwner, Ended, Failed, Disposed, Live, Using, world, Waiting
<1>1. RouteReachesOwner'
  BY DEF RouteReachesOwner, PhaseInv, Dispose, Abort, BootstrapFails
<1>2. NoRetiredOwnerInUse'
  <2>1. CASE Aborts
    BY <2>1, FailFacts, OwnerNumbers DEF NoRetiredOwnerInUse, Dispose, Abort, BootstrapFails,
       Abandoned, Aborts, UseInv, PhaseInv, Cleanup
  <2>2. CASE ~Aborts
    BY <2>2 DEF NoRetiredOwnerInUse, Dispose
  <2> QED BY <2>1, <2>2
<1>3. PhaseInv'
  <2>1. CASE Aborts
    BY <2>1, FailFacts DEF PhaseInv, Dispose, Abort, BootstrapFails, TypeOK, BootType, TeardownType, RouteReachesOwner
  <2>2. CASE ~Aborts
    BY <2>2 DEF PhaseInv, Dispose, Aborts, TypeOK, BootType, TeardownType
  <2> QED BY <2>1, <2>2
<1>4. OwnerInv'
  BY FailFacts, OwnerNumbers DEF OwnerInv, Dispose, Abort, Abandoned, HeldLast, BootstrapFails,
     Cleanup, TypeOK, BootType
<1>5. ChildInv'
  <2>1. boot'.phase \notin Building
    <3>1. CASE Aborts
      BY <3>1, FailFacts DEF Dispose, Abort, BootstrapFails, PhaseInv, Aborts, TypeOK, BootType
    <3>2. CASE ~Aborts
      BY <3>2 DEF Dispose, Aborts, PhaseInv, TypeOK, BootType
    <3> QED BY <3>1, <3>2
  <2>2. ASSUME NEW o \in Owners, Live(o)
        PROVE  o = owner' \/ \E i \in cleanups' : i.owner = o /\ i.at = "upstream"
    <3>1. CASE Aborts
      BY <2>2, <3>1, AbortedChildren DEF Dispose
    <3>2. CASE ~Aborts
      BY <2>2, <3>2 DEF Dispose, Aborts, PhaseInv, ChildInv
    <3> QED BY <3>1, <3>2
  <2> QED BY <2>1, <2>2 DEF ChildInv, Dispose
<1>6. CleanupInv'
  BY FailFacts DEF CleanupInv, Dispose, Abort, Abandoned, BootstrapFails, Cleanup, TypeOK,
     BootType
<1>7. UseInv'
  BY FailFacts DEF UseInv, Dispose, Abort, BootstrapFails
<1>8. LeaseInv'
  BY DEF LeaseInv, Dispose
<1>9. NoOverlappingChildren'
  BY Frames DEF Dispose
<1>10. TypeOK'
  BY NextType DEF Next
<1> QED BY <1>1, <1>2, <1>3, <1>4, <1>5, <1>6, <1>7, <1>8, <1>9, <1>10

(* dispose(): the restart and all tracked cleanups have settled.            *)
LEMMA DisposeDrainsSafe ==
  ASSUME Safe, DisposeDrains
  PROVE  Safe'
<1> USE DEF Safe, Coherent, NoBoot, NoRoute, NoOwner, Part, Building, Tracked, OfOwner, Ended, Failed, Disposed, Live, Using, world, Waiting
<1>1. RouteReachesOwner'
  BY DEF RouteReachesOwner, DisposeDrains
<1>2. NoRetiredOwnerInUse'
  BY DEF NoRetiredOwnerInUse, DisposeDrains
<1>3. PhaseInv'
  BY DEF PhaseInv, DisposeDrains
<1>4. OwnerInv'
  BY OwnerNumbers DEF OwnerInv, DisposeDrains
<1>5. ChildInv'
  BY DEF ChildInv, DisposeDrains, Settled
<1>6. CleanupInv'
  BY DEF CleanupInv, DisposeDrains
<1>7. LeaseInv'
  BY DEF LeaseInv, CleanupInv, DisposeDrains, Settled
<1>8. NoOverlappingChildren' /\ UseInv'
  BY Frames DEF DisposeDrains
<1>9. TypeOK'
  BY NextType DEF Next, Teardown
<1> QED BY <1>1, <1>2, <1>3, <1>4, <1>5, <1>6, <1>7, <1>8, <1>9

(* disposeManagedResourcesInOrder: the listener stops, the owner follows.   *)
LEMMA ProxyClosesSafe ==
  ASSUME Safe, ProxyCloses
  PROVE  Safe'
<1> USE DEF Safe, Coherent, NoBoot, NoRoute, NoOwner, Part, Building, Tracked, OfOwner, Ended, Failed, Disposed, Live, Using, world, Waiting
<1>1. RouteReachesOwner'
  BY DEF RouteReachesOwner, PhaseInv, ProxyCloses
<1>2. NoRetiredOwnerInUse'
  BY DEF NoRetiredOwnerInUse, ProxyCloses, Cleanup
<1>3. PhaseInv'
  BY DEF PhaseInv, ProxyCloses
<1>4. OwnerInv'
  <2>1. \A j \in cleanups' : j \in cleanups \/ j.owner = teardown.owner
    BY DEF ProxyCloses, Cleanup
  <2>2. teardown'.owner = teardown.owner
    BY DEF ProxyCloses, TypeOK, TeardownType
  <2> QED BY <2>1, <2>2 DEF OwnerInv, ProxyCloses, PhaseInv
<1>5. ChildInv'
  <2>1. teardown'.owner = teardown.owner /\ boot = NoBoot
    BY DEF ProxyCloses, TypeOK, TeardownType, PhaseInv
  <2>2. ASSUME NEW o \in Owners, Live(o)
        PROVE  o = owner \/ \E i \in cleanups' : i.owner = o /\ i.at = "upstream"
    <3>1. CASE o = teardown.owner
      <4>1. Cleanup(o, "final", "upstream") \in cleanups'
        BY <3>1 DEF Owners, ProxyCloses
      <4> QED BY <4>1, Disposes
    <3>2. CASE o # teardown.owner
      BY <2>1, <2>2, <3>2 DEF ChildInv, ProxyCloses
    <3> QED BY <3>1, <3>2
  <2> QED BY <2>1, <2>2 DEF ChildInv, ProxyCloses
<1>6. CleanupInv'
  BY DEF CleanupInv, ProxyCloses, Cleanup
<1>7. LeaseInv'
  <2>1. Tracked' = Tracked /\ OfOwner' = OfOwner
    BY DEF ProxyCloses, Cleanup
  <2>2. boot = NoBoot /\ teardown'.phase = "dispose" /\ (teardown.failed => teardown'.failed)
    BY DEF ProxyCloses, PhaseInv, TypeOK, TeardownType
  <2>3. CASE teardown.phase = "stop"
    BY <2>1, <2>2, <2>3 DEF LeaseInv, ProxyCloses
  <2>4. CASE teardown.phase = "close"
    BY <2>1, <2>2, <2>4 DEF LeaseInv, ProxyCloses, PhaseInv
  <2> QED BY <2>3, <2>4 DEF ProxyCloses
<1>8. NoOverlappingChildren' /\ UseInv'
  BY Frames DEF ProxyCloses
<1>9. TypeOK'
  BY NextType DEF Next, Teardown
<1> QED BY <1>1, <1>2, <1>3, <1>4, <1>5, <1>6, <1>7, <1>8, <1>9

(* disposeManagedResourcesInOrder: the lease is released, or kept for good. *)
LEMMA TeardownEndsSafe ==
  ASSUME Safe, TeardownEnds
  PROVE  Safe'
<1> USE DEF Safe, Coherent, NoBoot, NoRoute, NoOwner, Part, Building, Tracked, OfOwner, Ended, Failed, Disposed, Live, Using, world, Waiting
<1>1. PhaseInv'
  BY DEF PhaseInv, TeardownEnds
<1>2. OwnerInv'
  BY DEF OwnerInv, TeardownEnds
<1>3. ChildInv'
  BY DEF ChildInv, TeardownEnds
<1>4. CleanupInv'
  BY DEF CleanupInv, TeardownEnds
<1>5. UseInv'
  BY DEF UseInv, TeardownEnds
<1>6. LeaseInv'
  BY DEF LeaseInv, TeardownEnds, TypeOK, TeardownType
<1>7. RouteReachesOwner' /\ NoRetiredOwnerInUse' /\ NoOverlappingChildren'
  BY Frames DEF TeardownEnds
<1>8. TypeOK'
  BY NextType DEF Next, Teardown
<1> QED BY <1>1, <1>2, <1>3, <1>4, <1>5, <1>6, <1>7, <1>8

(* disposeOwnedResources: one part of one owner is disposed.                *)
LEMMA CleanupStepSafe ==
  ASSUME Safe, NEW i \in cleanups, CleanupStep(i)
  PROVE  Safe'
<1> USE DEF Safe, Coherent, NoBoot, NoRoute, NoOwner, Part, Building, Tracked, OfOwner, Ended, Failed, Disposed, Live, Using, world, Waiting
<1>1. RouteReachesOwner'
  <2>1. route'.owner # NoOwner => /\ route' = route /\ generation' = generation
                                  /\ owner \in Owners /\ i.owner # owner
    BY OwnerNumbers DEF CleanupStep, InvalidateGeneration, RouteReachesOwner
  <2>2. generation' # NoOwner => route' = route /\ generation' = generation
    BY DEF CleanupStep, InvalidateGeneration
  <2>3. \A j \in cleanups' : \E k \in cleanups : j.owner = k.owner
    BY StepFacts
  <2>4. route'.owner # NoOwner => /\ res'[owner]["upstream"] = res[owner]["upstream"]
                                  /\ res'[owner]["runtime"] = res[owner]["runtime"]
    BY <2>1, StepFacts
  <2> QED BY <2>1, <2>2, <2>3, <2>4 DEF RouteReachesOwner, CleanupStep
<1>2. NoRetiredOwnerInUse'
  <2>1. \A j \in OfOwner' : \E k \in OfOwner : j.owner = k.owner
    BY StepFacts
  <2>2. UNCHANGED call
    BY DEF CleanupStep
  <2> QED BY <2>1, <2>2 DEF NoRetiredOwnerInUse
<1>3. NoOverlappingChildren'
  BY DEF NoOverlappingChildren, CleanupStep
<1>4. PhaseInv'
  BY DEF PhaseInv, CleanupStep, InvalidateGeneration
<1>5. OwnerInv'
  <2>1. \A j \in cleanups' : \E k \in cleanups : j.owner = k.owner
    BY StepFacts
  <2>2. \A o \in Owners : (\A j \in cleanups : j.owner # o) =>
          res'[o]["upstream"] = res[o]["upstream"] /\ res'[o]["runtime"] = res[o]["runtime"]
    BY StepFacts
  <2>3. \A o \in Owners : o > created => \A j \in cleanups : j.owner # o
    BY OwnerNumbers DEF OwnerInv, Owners
  <2> QED BY <2>1, <2>2, <2>3, OwnerNumbers DEF OwnerInv, CleanupStep, Building
<1>6. ChildInv'
  BY DEF ChildInv, CleanupStep, TypeOK
<1>7. CleanupInv'
  <2>1. \A j \in cleanups' : \E k \in cleanups : j.of = k.of
    BY StepFacts
  <2>2. \A j \in OfOwner' : j.at # "ok"
    BY StepFacts DEF CleanupInv
  <2> QED BY <2>1, <2>2 DEF CleanupInv, CleanupStep
<1>8. LeaseInv'
  <2>1. \A j \in cleanups' : \E k \in cleanups : j.of = k.of
    BY StepFacts
  <2>2. \A j \in cleanups' : j.at = "upstream" => j \in cleanups
    BY StepFacts
  <2> QED BY <2>1, <2>2 DEF LeaseInv, CleanupStep
<1>9. UseInv'
  BY Frames DEF CleanupStep
<1>10. TypeOK'
  BY NextType DEF Next
<1> QED BY <1>1, <1>2, <1>3, <1>4, <1>5, <1>6, <1>7, <1>8, <1>9, <1>10

(* runBrowserTool: a request arrives.                                       *)
LEMMA BeginBrowserSafe ==
  ASSUME Safe, NEW c \in Calls, NEW k \in {"browser", "close"}, BeginBrowser(c, k)
  PROVE  Safe'
<1> USE DEF Safe, Coherent, NoBoot, NoRoute, NoOwner, Part, Building, Tracked, OfOwner, Ended, Failed, Disposed, Live, Using, world, Waiting
<1>1. RouteReachesOwner'
  BY DEF RouteReachesOwner, BeginBrowser, Join, BeginRestart
<1>2. NoRetiredOwnerInUse'
  <2>1. \A d \in Calls : call'[d].pc = "using" => call[d].pc = "using" /\ call'[d].own = call[d].own
    BY DEF BeginBrowser, To, Join, TypeOK, CallType
  <2> QED BY <2>1 DEF NoRetiredOwnerInUse, BeginBrowser
<1>3. PhaseInv'
  BY DEF PhaseInv, BeginBrowser, Join, BeginRestart
<1>4. OwnerInv'
  BY DEF OwnerInv, BeginBrowser, Join, BeginRestart
<1>5. ChildInv'
  BY DEF ChildInv, BeginBrowser, Join, BeginRestart
<1>6. CleanupInv'
  BY DEF CleanupInv, BeginBrowser, Join, BeginRestart
<1>7. UseInv'
  <2>1. \A d \in Calls : call'[d].pc = "idle" => call'[d] = call[d]
    BY DEF BeginBrowser, To, Join, TypeOK, CallType
  <2>2. mode = "ready" /\ mode' = "ready"
    BY DEF UseInv, BeginBrowser
  <2>3. boot'.phase \notin {"idle", "wait"} => Using' = {}
    BY DEF UseInv, PhaseInv, BeginBrowser, To, Join, BeginRestart, TypeOK, CallType
  <2> QED BY <2>1, <2>2, <2>3 DEF UseInv
<1>8. LeaseInv'
  BY DEF LeaseInv, BeginBrowser
<1>9. NoOverlappingChildren'
  BY Frames DEF BeginBrowser
<1>10. TypeOK'
  BY NextType DEF Next, Request
<1> QED BY <1>1, <1>2, <1>3, <1>4, <1>5, <1>6, <1>7, <1>8, <1>9, <1>10

(* runWithCurrentUpstream: a request arrives.                               *)
LEMMA BeginOtherSafe ==
  ASSUME Safe, NEW c \in Calls, BeginOther(c)
  PROVE  Safe'
<1> USE DEF Safe, Coherent, NoBoot, NoRoute, NoOwner, Part, Building, Tracked, OfOwner, Ended, Failed, Disposed, Live, Using, world, Waiting
<1>1. NoRetiredOwnerInUse'
  BY DEF NoRetiredOwnerInUse, OwnerInv, BeginOther, To, UseCurrentOwner, TypeOK, CallType,
     OwnerId
<1>2. UseInv'
  <2>1. \A d \in Calls : call'[d].pc = "idle" => call'[d] = call[d]
    BY DEF BeginOther, To, UseCurrentOwner, TypeOK, CallType
  <2>2. mode = "ready" /\ mode' = "ready"
    BY DEF UseInv, BeginOther
  <2>3. boot'.phase \notin {"idle", "wait"} => Using' = {}
    BY DEF UseInv, PhaseInv, BeginOther, To, UseCurrentOwner, TypeOK, CallType
  <2> QED BY <2>1, <2>2, <2>3 DEF UseInv
<1>3. /\ RouteReachesOwner' /\ NoOverlappingChildren' /\ PhaseInv' /\ OwnerInv'
      /\ ChildInv' /\ CleanupInv' /\ LeaseInv'
  BY Frames DEF BeginOther
<1>4. TypeOK'
  BY NextType DEF Next, Request
<1> QED BY <1>1, <1>2, <1>3, <1>4

(* probeGeneration for the bridge or the proxy.                             *)
LEMMA BeginProbeSafe ==
  ASSUME Safe, NEW c \in Calls, BeginProbe(c)
  PROVE  Safe'
<1> USE DEF Safe, Coherent, NoBoot, NoRoute, NoOwner, Part, Building, Tracked, OfOwner, Ended, Failed, Disposed, Live, Using, world, Waiting
<1>1. NoRetiredOwnerInUse'
  BY DEF NoRetiredOwnerInUse, BeginProbe
<1>2. UseInv'
  BY DEF UseInv, BeginProbe
<1>3. /\ RouteReachesOwner' /\ NoOverlappingChildren' /\ PhaseInv' /\ OwnerInv'
      /\ ChildInv' /\ CleanupInv' /\ LeaseInv'
  BY Frames DEF BeginProbe
<1>4. TypeOK'
  BY NextType DEF Next, Request
<1> QED BY <1>1, <1>2, <1>3, <1>4

(* The upstream answers a forwarded request.                                *)
LEMMA UseSucceedsSafe ==
  ASSUME Safe, NEW c \in Calls, UseSucceeds(c)
  PROVE  Safe'
<1> USE DEF Safe, Coherent, NoBoot, NoRoute, NoOwner, Part, Building, Tracked, OfOwner, Ended, Failed, Disposed, Live, Using, world, Waiting
<1>1. RouteReachesOwner'
  BY DEF RouteReachesOwner, UseSucceeds, InvalidateGeneration
<1>2. NoRetiredOwnerInUse'
  <2>1. \A d \in Calls : call'[d].pc = "using" => call[d].pc = "using" /\ call'[d].own = call[d].own
    BY DEF UseSucceeds, To, TypeOK, CallType
  <2> QED BY <2>1 DEF NoRetiredOwnerInUse, UseSucceeds
<1>3. PhaseInv'
  BY DEF PhaseInv, UseSucceeds, InvalidateGeneration
<1>4. UseInv'
  <2>1. \A d \in Calls : call'[d].pc = "idle" => call'[d] = call[d]
    BY DEF UseSucceeds, To, TypeOK, CallType
  <2>2. mode = "ready" /\ mode' = "ready"
    BY DEF UseInv, UseSucceeds
  <2>3. boot'.phase \notin {"idle", "wait"} => Using' = {}
    BY DEF UseInv, PhaseInv, UseSucceeds, To, TypeOK, CallType
  <2> QED BY <2>1, <2>2, <2>3 DEF UseInv
<1>5. /\ NoOverlappingChildren' /\ OwnerInv' /\ ChildInv' /\ CleanupInv'
      /\ LeaseInv'
  BY Frames DEF UseSucceeds
<1>6. TypeOK'
  BY NextType DEF Next, Request
<1> QED BY <1>1, <1>2, <1>3, <1>4, <1>5, <1>6

(* The upstream rejects a forwarded request.                                *)
LEMMA UseFailsSafe ==
  ASSUME Safe, NEW c \in Calls, UseFails(c)
  PROVE  Safe'
<1> USE DEF Safe, Coherent, NoBoot, NoRoute, NoOwner, Part, Building, Tracked, OfOwner, Ended, Failed, Disposed, Live, Using, world, Waiting
<1>1. RouteReachesOwner'
  BY DEF RouteReachesOwner, UseFails, InvalidateGeneration
<1>2. NoRetiredOwnerInUse'
  BY DEF NoRetiredOwnerInUse, UseFails, To
<1>3. PhaseInv'
  BY DEF PhaseInv, UseFails, InvalidateGeneration
<1>4. UseInv'
  BY DEF UseInv, UseFails, To
<1>5. /\ NoOverlappingChildren' /\ OwnerInv' /\ ChildInv' /\ CleanupInv'
      /\ LeaseInv'
  BY Frames DEF UseFails
<1>6. TypeOK'
  BY NextType DEF Next, Request
<1> QED BY <1>1, <1>2, <1>3, <1>4, <1>5, <1>6

(* runBrowserTool: the probe before forwarding answers.                     *)
LEMMA PreProbedSafe ==
  ASSUME Safe, NEW c \in Calls, PreProbed(c)
  PROVE  Safe'
<1> USE DEF Safe, Coherent, NoBoot, NoRoute, NoOwner, Part, Building, Tracked, OfOwner, Ended, Failed, Disposed, Live, Using, world, Waiting
<1>1. RouteReachesOwner'
  BY DEF RouteReachesOwner, PreProbed, Join, BeginRestart
<1>2. NoRetiredOwnerInUse'
  <2>1. \A d \in Calls : call'[d].pc = "using" =>
          (call[d].pc = "using" /\ call'[d].own = call[d].own) \/ (owner # NoOwner /\ call'[d].own = owner)
    <3>1. generation # NoOwner => owner # NoOwner
      BY DEF RouteReachesOwner
    <3> QED BY <3>1 DEF PreProbed, To, Join, UseCurrentOwner, StillReady, TypeOK, CallType
  <2> QED BY <2>1 DEF NoRetiredOwnerInUse, OwnerInv, PreProbed
<1>3. PhaseInv'
  <2>1. CASE UNCHANGED <<generation, route, boot>>
    BY <2>1 DEF PhaseInv, PreProbed
  <2>2. CASE ~Disposed /\ Join(c, call[c].kind)
    <3>1. UNCHANGED <<mode, owner, cleanups, teardown, created>>
      BY DEF PreProbed
    <3>2. mode = "ready"
      BY DEF UseInv, PreProbed
    <3> QED BY <2>2, <3>1, <3>2 DEF PhaseInv, Join, BeginRestart
  <2> QED BY <2>1, <2>2 DEF PreProbed
<1>4. OwnerInv'
  BY DEF OwnerInv, PreProbed, Join, BeginRestart
<1>5. ChildInv'
  BY DEF ChildInv, PreProbed, Join, BeginRestart
<1>6. CleanupInv'
  BY DEF CleanupInv, PreProbed, Join, BeginRestart
<1>7. UseInv'
  <2>1. \A d \in Calls : call'[d].pc = "idle" => call'[d] = call[d]
    BY DEF PreProbed, To, Join, UseCurrentOwner, TypeOK, CallType
  <2>2. mode = "ready" /\ mode' = "ready"
    BY DEF UseInv, PreProbed
  <2>3. boot'.phase \notin {"idle", "wait"} => Using' = {}
    <3>1. CASE boot' = boot /\ To(c, "failed")
      BY <3>1 DEF UseInv, PreProbed, To, TypeOK, CallType
    <3>2. CASE boot' = boot /\ generation # NoOwner
      BY <3>2 DEF UseInv, PreProbed, PhaseInv
    <3>3. CASE Join(c, call[c].kind)
      BY <3>3 DEF UseInv, PreProbed, Join, BeginRestart, TypeOK, CallType
    <3> QED BY <3>1, <3>2, <3>3 DEF PreProbed, StillReady
  <2> QED BY <2>1, <2>2, <2>3 DEF UseInv
<1>8. LeaseInv'
  BY DEF LeaseInv, PhaseInv, PreProbed
<1>9. NoOverlappingChildren'
  BY Frames DEF PreProbed
<1>10. TypeOK'
  BY NextType DEF Next
<1> QED BY <1>1, <1>2, <1>3, <1>4, <1>5, <1>6, <1>7, <1>8, <1>9, <1>10

(* runBrowserTool: the probe after forwarding answers.                      *)
LEMMA ProbedSafe ==
  ASSUME Safe, NEW c \in Calls, Probed(c)
  PROVE  Safe'
<1> USE DEF Safe, Coherent, NoBoot, NoRoute, NoOwner, Part, Building, Tracked, OfOwner, Ended, Failed, Disposed, Live, Using, world, Waiting
<1>1. RouteReachesOwner'
  BY DEF RouteReachesOwner, Probed, InvalidateGeneration
<1>2. NoRetiredOwnerInUse'
  BY DEF NoRetiredOwnerInUse, Probed, To
<1>3. PhaseInv'
  BY DEF PhaseInv, Probed, InvalidateGeneration
<1>4. UseInv'
  BY DEF UseInv, Probed, To
<1>5. /\ NoOverlappingChildren' /\ OwnerInv' /\ ChildInv' /\ CleanupInv'
      /\ LeaseInv'
  BY Frames DEF Probed
<1>6. TypeOK'
  BY NextType DEF Next
<1> QED BY <1>1, <1>2, <1>3, <1>4, <1>5, <1>6

(* Chromium exits by itself.                                                *)
LEMMA BrowserDiesSafe ==
  ASSUME Safe, NEW o \in Owners, BrowserDies(o)
  PROVE  Safe'
<1> USE DEF Safe, Coherent, NoBoot, NoRoute, NoOwner, Part, Building, Tracked, OfOwner, Ended, Failed, Disposed, Live, Using, world, Waiting
<1>1. /\ RouteReachesOwner' /\ NoRetiredOwnerInUse' /\ NoOverlappingChildren' /\ PhaseInv'
      /\ OwnerInv' /\ ChildInv' /\ CleanupInv' /\ UseInv' /\ LeaseInv'
  BY Frames DEF BrowserDies
<1>2. TypeOK'
  BY NextType DEF Next
<1> QED BY <1>1, <1>2

(* onBrowserLoss or the upstream's onclose.                                 *)
LEMMA LossReportedSafe ==
  ASSUME Safe, LossReported
  PROVE  Safe'
<1> USE DEF Safe, Coherent, NoBoot, NoRoute, NoOwner, Part, Building, Tracked, OfOwner, Ended, Failed, Disposed, Live, Using, world, Waiting
<1>1. RouteReachesOwner'
  BY DEF RouteReachesOwner, LossReported, InvalidateGeneration
<1>2. PhaseInv'
  BY DEF PhaseInv, LossReported
<1>3. /\ NoRetiredOwnerInUse' /\ NoOverlappingChildren' /\ OwnerInv' /\ ChildInv'
      /\ CleanupInv' /\ UseInv' /\ LeaseInv'
  BY Frames DEF LossReported
<1>4. TypeOK'
  BY NextType DEF Next
<1> QED BY <1>1, <1>2, <1>3, <1>4

-----------------------------------------------------------------------------
(* The first state, in which the proxy is being created, is safe.           *)
LEMMA InitSafe == Init => Safe
<1> SUFFICES ASSUME Init PROVE Safe
  OBVIOUS
<1> USE DEF Init, NoBoot, NoRoute, NoOwner
<1>1. TypeOK
  <2>1. teardown \in TeardownType /\ boot \in BootType
    BY DEF TeardownType, OwnerId, BootType, Phase
  <2>2. call \in [Calls -> CallType]
    BY DEF CallType, CallState, OwnerId
  <2>3. res \in [Owners -> [Part -> PartState]] /\ browser \in [Owners -> BOOLEAN]
    BY DEF PartState
  <2> QED BY <2>1, <2>2, <2>3, Values DEF TypeOK
<1>2. \A o \in Owners : res[o]["upstream"] = "none"
  BY DEF Part
<1>3. RouteReachesOwner /\ NoRetiredOwnerInUse /\ NoOverlappingChildren
  BY <1>2 DEF RouteReachesOwner, NoRetiredOwnerInUse, NoOverlappingChildren, Live, OfOwner, Using
<1>4. PhaseInv /\ CleanupInv /\ UseInv /\ LeaseInv
  BY DEF PhaseInv, CleanupInv, UseInv, LeaseInv, Disposed, Building, Waiting, Part, Tracked, OfOwner, Using
<1>5. OwnerInv /\ ChildInv
  BY <1>2 DEF OwnerInv, ChildInv, Live, Building, Part
<1> QED BY <1>1, <1>3, <1>4, <1>5 DEF Safe, Coherent

(* Every step keeps the session safe.                                       *)
LEMMA NextSafe == Safe /\ [Next]_vars => Safe'
<1> SUFFICES ASSUME Safe, [Next]_vars PROVE Safe'
  OBVIOUS
<1>1. CASE Startup
  BY <1>1, ProxyCreatedSafe, ProxyFailsSafe, LateProxySafe DEF Startup
<1>2. CASE Restart
  BY <1>2, OwnerWaitedSafe, PreviousCleanedSafe, PreviousRetiresSafe, PreviousRetiredSafe, UndoneSafe, DiscardedSafe DEF Restart
<1>3. CASE Create
  BY <1>3, AcquiredSafe, CreateFailsSafe, HandedOffSafe DEF Create
<1>4. CASE Bootstrap
  BY <1>4, ProvedSafe, BootstrapRejectsSafe, PublishedSafe DEF Bootstrap
<1>5. CASE Timeout \/ Dispose \/ LossReported
  BY <1>5, TimeoutSafe, DisposeSafe, LossReportedSafe
<1>6. CASE Teardown
  BY <1>6, DisposeDrainsSafe, ProxyClosesSafe, TeardownEndsSafe DEF Teardown
<1>7. ASSUME NEW i \in cleanups, CleanupStep(i) PROVE Safe'
  BY <1>7, CleanupStepSafe
<1>8. ASSUME NEW c \in Calls, Request(c) \/ PreProbed(c) \/ Probed(c) PROVE Safe'
  BY <1>8, BeginBrowserSafe, BeginOtherSafe, BeginProbeSafe, UseSucceedsSafe, UseFailsSafe,
     PreProbedSafe, ProbedSafe DEF Request
<1>9. ASSUME NEW o \in Owners, BrowserDies(o) PROVE Safe'
  BY <1>9, BrowserDiesSafe
<1>10. CASE UNCHANGED vars
  <2>1. TypeOK'
    BY NextType DEF Safe, Coherent
  <2> QED BY <1>10, <2>1, Frames DEF Safe, Coherent, vars, world
<1> QED BY <1>1, <1>2, <1>3, <1>4, <1>5, <1>6, <1>7, <1>8, <1>9, <1>10 DEF Next

(* The invariants hold of every session, whatever the number of requests    *)
(* and of children.                                                         *)
THEOREM SessionSafe == Spec => []Safe
<1>1. Init => Safe
  BY InitSafe
<1>2. Safe /\ [Next]_vars => Safe'
  BY NextSafe
<1> QED BY <1>1, <1>2, PTL DEF Spec

(* TypeOK: every field of the session keeps the range its class declares.   *)
THEOREM TypeCorrect == Spec => []TypeOK
<1>1. Safe => TypeOK
  BY DEF Safe
<1> QED BY <1>1, SessionSafe, PTL

(* RouteReachesOwner: the external route never leads to a child that is     *)
(* being disposed (proxy.setUnavailableCapability precedes every disposal). *)
THEOREM RouteCorrect == Spec => []RouteReachesOwner
<1>1. Safe => RouteReachesOwner
  BY DEF Safe
<1> QED BY <1>1, SessionSafe, PTL

(* NoRetiredOwnerInUse: #waitForOwnerIdle protects every forwarded request  *)
(* from the restart that disposes its child.                                *)
THEOREM UsersProtected == Spec => []NoRetiredOwnerInUse
<1>1. Safe => NoRetiredOwnerInUse
  BY DEF Safe
<1> QED BY <1>1, SessionSafe, PTL

(* NoOverlappingChildren: #drainPendingCleanups and #pendingOwnerCleanup    *)
(* keep two children from running at the same time.                         *)
THEOREM ChildrenDoNotOverlap == Spec => []NoOverlappingChildren
<1>1. Safe => NoOverlappingChildren
  BY DEF Safe
<1> QED BY <1>1, SessionSafe, PTL

(* LeaseReleasedLast: disposeManagedResourcesInOrder gives the port lease   *)
(* back only when the child and all tracked resources are gone.             *)
THEOREM LeaseLast == Spec => []LeaseReleasedLast
<1>1. Safe => LeaseReleasedLast
  <2> SUFFICES ASSUME Safe, mode = "ready", proxy = "released" PROVE LeaseReleasedLast
    BY DEF LeaseReleasedLast
  <2> USE DEF Safe, Coherent
  <2>1. teardown.phase = "done" /\ Tracked = {} /\ OfOwner = {}
    BY DEF LeaseInv
  <2>2. boot = NoBoot /\ owner = NoOwner /\ route = NoRoute
    BY <2>1 DEF PhaseInv
  <2>3. ASSUME NEW o \in Owners, Live(o) PROVE FALSE
    <3>1. PICK i \in cleanups : i.at = "upstream"
      BY <2>1, <2>2, <2>3 DEF ChildInv, NoBoot, NoOwner, Owners
    <3>2. i.of \in {"owner", "late", "owned", "undo", "final"}
      BY DEF TypeOK, CleanupType
    <3> QED BY <2>1, <2>2, <3>1, <3>2 DEF CleanupInv, LeaseInv, Tracked, OfOwner, NoBoot
  <2> QED BY <2>1, <2>2, <2>3 DEF LeaseReleasedLast
<1> QED BY <1>1, SessionSafe, PTL
-----------------------------------------------------------------------------
(* DisposeWins: once dispose() has begun, the restart it found in flight is *)
(* aborted, so no further child is created and nothing is published.        *)
THEOREM DisposalWins == Spec => DisposeWins
<1>1. Safe /\ [Next]_vars =>
        [Disposed => created' = created /\ generation' \in {generation, NoOwner}]_vars
  <2> SUFFICES ASSUME Safe, Next, Disposed
               PROVE  created' = created /\ generation' \in {generation, NoOwner}
    BY DEF vars, world
  <2>1. boot.phase \in {"idle", "undo", "discard"}
    BY DEF Safe, Coherent, PhaseInv
  <2>2. CASE Startup \/ Restart \/ Create \/ Bootstrap \/ Timeout
    BY <2>1, <2>2 DEF Startup, Restart, Create, Bootstrap, ProxyCreated, ProxyFails, LateProxy,
       OwnerWaited, PreviousCleaned, PreviousRetires, PreviousRetired, Undone, Discarded, Acquired, CreateFails, HandedOff,
       Proved, BootstrapRejects, Published, Timeout, Part, world
  <2>3. CASE Dispose \/ Teardown
    BY <2>3 DEF Dispose, Teardown, DisposeDrains, ProxyCloses, TeardownEnds, world
  <2>4. ASSUME NEW i \in cleanups, CleanupStep(i) PROVE UNCHANGED <<created, generation>>
    BY <2>4 DEF CleanupStep, InvalidateGeneration
  <2>5. ASSUME NEW c \in Calls, Request(c) \/ PreProbed(c) \/ Probed(c)
        PROVE  created' = created /\ generation' \in {generation, NoOwner}
    BY <2>5 DEF Request, BeginBrowser, BeginOther, BeginProbe, UseSucceeds, UseFails, PreProbed,
       Probed, Join, BeginRestart, InvalidateGeneration, world
  <2>6. ASSUME (\E o \in Owners : BrowserDies(o)) \/ LossReported
        PROVE  UNCHANGED <<created, generation>>
    BY <2>6 DEF BrowserDies, LossReported, InvalidateGeneration, world
  <2> QED BY <2>2, <2>3, <2>4, <2>5, <2>6 DEF Next
<1> QED BY <1>1, SessionSafe, PTL DEF Spec, DisposeWins

(* ForwardedOnceWhenReady: runBrowserTool, runWithCurrentUpstream and the   *)
(* waiters of #restartPromise use the owner current at that moment, and a   *)
(* browser request only one whose generation is published.                  *)
THEOREM ForwardedWhenReady == Spec => ForwardedOnceWhenReady
<1>1. ASSUME Safe, [Next]_vars, NEW c \in Calls, call[c].pc # "using", call'[c].pc = "using"
      PROVE  /\ call[c].pc \in {"idle", "preProbe", "joining"}
             /\ call'[c].own = owner'
             /\ call'[c].kind # "other" => route' = [state |-> "ready", owner |-> owner']
  <2> USE <1>1
  <2>1. call \in [Calls -> CallType]
    BY DEF Safe, TypeOK
  <2>2. CASE Published
    BY <2>1, <2>2 DEF Published, ResumeJoiners, CallType, Safe, Coherent, PhaseInv
  <2>3. ASSUME NEW d \in Calls, BeginOther(d) PROVE c = d /\ call'[c].own = owner' /\ call'[c].kind = "other" /\ call[c].pc = "idle"
    BY <2>1, <2>3 DEF BeginOther, UseCurrentOwner, To, CallType, Safe, Coherent, UseInv
  <2>4. ASSUME NEW d \in Calls, PreProbed(d)
        PROVE  /\ call[c].pc = "preProbe" /\ call'[c].own = owner'
               /\ route' = [state |-> "ready", owner |-> owner']
    <3>1. c = d /\ StillReady(d, TRUE) /\ UNCHANGED <<generation, route, owner>> /\ UseCurrentOwner(d)
      BY <2>1, <2>4 DEF PreProbed, UseCurrentOwner, To, Join, CallType, StillReady, Refuted
    <3>2. generation # NoOwner => route = [state |-> "ready", owner |-> owner]
      BY DEF Safe, RouteReachesOwner, NoOwner
    <3> QED BY <2>1, <2>4, <3>1, <3>2 DEF PreProbed, StillReady, UseCurrentOwner, CallType
  <2>5. ASSUME \/ Startup \/ Restart \/ Create \/ Proved \/ BootstrapRejects \/ Timeout \/ Dispose
               \/ Teardown \/ LossReported \/ UNCHANGED vars
               \/ \E i \in cleanups : CleanupStep(i)
               \/ \E o \in Owners : BrowserDies(o)
        PROVE  FALSE
    <3>1. Fail => FALSE
      BY FailFacts DEF Safe
    <3>2. UNCHANGED call => FALSE
      OBVIOUS
    <3> QED BY <2>5, <3>1, <3>2 DEF Safe, Startup, Restart, Create, ProxyCreated, ProxyFails, LateProxy,
         OwnerWaited, PreviousCleaned, PreviousRetires, PreviousRetired, Undone, Discarded, Acquired, CreateFails, HandedOff, Proved,
         BootstrapRejects, BootstrapFails, Timeout, Abort, Dispose, Teardown, DisposeDrains, ProxyCloses, TeardownEnds,
         CleanupStep, BrowserDies, LossReported, vars
  <2>6. ASSUME NEW d \in Calls, Request(d) \/ Probed(d), ~BeginOther(d) PROVE FALSE
    BY <2>1, <2>6 DEF Request, BeginBrowser, BeginProbe, UseSucceeds, UseFails, Probed, To, Join, CallType
  <2> QED BY <2>2, <2>3, <2>4, <2>5, <2>6 DEF Next, Bootstrap, Request
<1>2. Safe /\ [Next]_vars =>
        [\A c \in Calls : call[c].pc # "using" /\ call'[c].pc = "using" =>
           /\ call[c].pc \in {"idle", "preProbe", "joining"}
           /\ call'[c].own = owner'
           /\ call'[c].kind # "other" => route' = [state |-> "ready", owner |-> owner']]_vars
  BY <1>1
<1> QED BY <1>2, SessionSafe, PTL DEF Spec, ForwardedOnceWhenReady

(* EndpointSpec: stageGeneration, publishGeneration and clearGeneration are *)
(* called in the order one endpoint needs, in every behaviour.              *)
THEOREM SessionImplementsEndpoint == Spec => EndpointSpec
<1>1. Init => Endpoint!Init
  BY DEF Init, Endpoint!Init, NoRoute, Disposed
<1>2. ASSUME Safe, [Next]_vars PROVE [Endpoint!Next]_(Endpoint!vars)
  <2> USE <1>2 DEF Safe, Coherent, Endpoint!vars
  <2>1. route.state \in {"unavailable", "verifying", "ready"} /\ Disposed \in BOOLEAN
    BY DEF TypeOK, RouteType, Disposed
  <2>2. ASSUME UNCHANGED <<route, Disposed>> PROVE [Endpoint!Next]_(Endpoint!vars)
    BY <2>2
  <2>3. ASSUME route' = NoRoute, Disposed' = Disposed PROVE [Endpoint!Next]_(Endpoint!vars)
    BY <2>3 DEF Endpoint!Next, Endpoint!Clear, Endpoint!CutOff, NoRoute
  <2>4. ASSUME route' = NoRoute \/ route' = route, ~Disposed, Disposed' PROVE [Endpoint!Next]_(Endpoint!vars)
    BY <2>4 DEF Endpoint!Next, Endpoint!End, Endpoint!CutOff, NoRoute, Disposed
  <2>5. CASE Proved
    <3>1. route = NoRoute /\ ~Disposed /\ created \in Owners /\ boot.phase = "prove"
      BY <2>5 DEF Proved, PhaseInv, OwnerInv, TypeOK, Building, OwnerId, NoOwner
    <3>2. Endpoint!Stage(created)
      BY <2>5, <3>1 DEF Proved, Endpoint!Stage, NoRoute, Disposed
    <3> QED BY <3>1, <3>2 DEF Endpoint!Next
  <2>6. CASE Published
    <3>1. Endpoint!Publish
      BY <2>6 DEF Published, PhaseInv, Endpoint!Publish, Disposed
    <3> QED BY <3>1 DEF Endpoint!Next
  <2>7. CASE Startup \/ OwnerWaited \/ PreviousCleaned \/ PreviousRetires \/ PreviousRetired \/ Discarded \/ HandedOff \/ LossReported
             \/ (\E p \in Part : Acquired(p)) \/ (\E o \in Owners : BrowserDies(o))
    <3>1. route' = NoRoute \/ route' = route
      BY <2>7 DEF Startup, ProxyCreated, ProxyFails, LateProxy, OwnerWaited, PreviousCleaned, PreviousRetires, PreviousRetired, Discarded,
         HandedOff, LossReported, Acquired, BrowserDies, InvalidateGeneration
    <3>2. teardown' = teardown
      BY <2>7 DEF Startup, ProxyCreated, ProxyFails, LateProxy, OwnerWaited, PreviousCleaned, PreviousRetires, PreviousRetired, Discarded,
         HandedOff, LossReported, Acquired, BrowserDies
    <3> QED BY <2>2, <2>3, <3>1, <3>2 DEF Disposed
  <2>8. CASE Teardown
    <3>1. route' = NoRoute \/ route' = route
      BY <2>8 DEF Teardown, DisposeDrains, ProxyCloses, TeardownEnds
    <3>2. Disposed
      BY <2>8 DEF Teardown, DisposeDrains, ProxyCloses, TeardownEnds, Disposed
    <3>3. teardown'.phase \in {"stop", "dispose", "done"}
      <4>1. CASE DisposeDrains
        BY <4>1 DEF DisposeDrains
      <4>2. CASE ProxyCloses
        BY <4>2 DEF ProxyCloses, TypeOK, TeardownType
      <4>3. CASE TeardownEnds
        BY <4>3 DEF TeardownEnds, TypeOK, TeardownType
      <4> QED BY <2>8, <4>1, <4>2, <4>3 DEF Teardown
    <3> QED BY <2>2, <2>3, <3>1, <3>2, <3>3 DEF Disposed
  <2>9. ASSUME NEW i \in cleanups, CleanupStep(i) PROVE [Endpoint!Next]_(Endpoint!vars)
    <3>1. (route' = NoRoute \/ route' = route) /\ Disposed' = Disposed
      BY <2>9 DEF CleanupStep, InvalidateGeneration, Disposed
    <3> QED BY <2>2, <2>3, <3>1
  <2>10. ASSUME NEW c \in Calls, Request(c) \/ PreProbed(c) \/ Probed(c)
        PROVE  [Endpoint!Next]_(Endpoint!vars)
    <3>1. (route' = NoRoute \/ route' = route) /\ Disposed' = Disposed
      BY <2>10 DEF Request, PreProbed, Probed, BeginBrowser, BeginOther, BeginProbe, UseSucceeds, UseFails,
         Join, BeginRestart, InvalidateGeneration, Disposed
    <3> QED BY <2>2, <2>3, <3>1
  <2>11. CASE CreateFails \/ Undone \/ BootstrapRejects \/ Timeout \/ Dispose
    <3>1. route' = NoRoute \/ route' = route
      BY <2>11 DEF CreateFails, Undone, BootstrapRejects, Timeout, Dispose, BootstrapFails, Abort
    <3>2. Disposed => Disposed'
      BY <2>11 DEF CreateFails, Undone, BootstrapRejects, Timeout, Dispose, Rollback, Disposed
    <3>3. Disposed' \in BOOLEAN
      BY DEF Disposed
    <3> QED BY <2>1, <2>2, <2>3, <2>4, <3>1, <3>2, <3>3
  <2>12. CASE UNCHANGED vars
    BY <2>12 DEF vars, Disposed
  <2> QED BY <2>5, <2>6, <2>7, <2>8, <2>9, <2>10, <2>11, <2>12 DEF Next, Restart, Create, Bootstrap
<1> QED BY <1>1, <1>2, SessionSafe, PTL DEF Spec, EndpointSpec, Endpoint!Spec
-----------------------------------------------------------------------------
(* The port pool of the sessions (CdpPortAllocator).                       *)

(* A free port found by #selectCandidate is a port of the range that is not *)
(* leased.                                                                  *)
LEMMA CandidateIsFree == SelectCandidate \subseteq Ports \ leased
  BY DEF SelectCandidate

(* Nothing is leased at first.                                              *)
LEMMA AllocatorInitSafe == AllocatorInit => AllocatorInv
  BY RangeAssumption
  DEF AllocatorInit, AllocatorInv, AllocatorTypeOK, NeverCollides, LeasedExact, ClosesFirst, Idle, Holds,
      Promise, Ports, NoPort

(* Giving back the port of one lease leaves the others theirs: no other     *)
(* holder had that port.                                                    *)
LEMMA AllocatorGivesBack ==
  ASSUME AllocatorInv, NEW l \in Leases, Holds(l), ~Holds(l)',
         \A k \in Leases \ {l} : lease'[k] = lease[k],
         leased' = leased \ {lease[l].port}, listening' \subseteq listening \ {l}
  PROVE  LeasedExact' /\ NeverCollides'
<1>1. \A k \in Leases \ {l} : Holds(k)' <=> Holds(k)
  BY DEF Holds
<1>2. \A k \in Leases \ {l} : Holds(k) => lease[k].port # lease[l].port
  BY DEF AllocatorInv, NeverCollides
<1>3. ASSUME NEW x PROVE x \in leased' <=> \E k \in Leases : Holds(k)' /\ x = lease'[k].port
  <2>1. x \in leased <=> \E k \in Leases : Holds(k) /\ x = lease[k].port
    BY DEF AllocatorInv, LeasedExact
  <2> QED BY <1>1, <1>2, <2>1
<1>4. LeasedExact'
  BY <1>3 DEF LeasedExact
<1>5. NeverCollides'
  BY <1>1 DEF AllocatorInv, NeverCollides
<1> QED BY <1>4, <1>5

(* Every step of the allocator keeps the invariant: it touches one lease,   *)
(* whose port is no other holder's.                                         *)
LEMMA AllocatorNextSafe == AllocatorInv /\ [AllocatorNext]_allocatorVars => AllocatorInv'
<1> SUFFICES ASSUME AllocatorInv, [AllocatorNext]_allocatorVars PROVE AllocatorInv'
  OBVIOUS
<1> USE DEF AllocatorInv
<1>1. ASSUME NEW l \in Leases, Acquire(l) PROVE AllocatorInv'
  <2>1. CASE SelectCandidate = {} /\ lease' = [lease EXCEPT ![l].pc = "exhausted"]
             /\ UNCHANGED leased
    BY <1>1, <2>1 DEF Acquire, AllocatorTypeOK, NeverCollides, LeasedExact, ClosesFirst, Holds, Promise
  <2>2. ASSUME NEW p \in SelectCandidate,
               lease' = [lease EXCEPT ![l].pc = "binding", ![l].port = p],
               leased' = leased \cup {p}
        PROVE  AllocatorInv'
    <3>1. p \in Ports /\ p \notin leased
      BY <2>2, CandidateIsFree
    <3>2. listening' = listening /\ lease[l].pc = "idle"
      BY <1>1 DEF Acquire
    <3>3. AllocatorTypeOK'
      BY <2>2, <3>1, <3>2 DEF AllocatorTypeOK, Promise
    <3>4. ClosesFirst'
      BY <2>2, <3>1, <3>2 DEF AllocatorTypeOK, ClosesFirst, Promise
    <3>5. Holds(l)' /\ ~Holds(l) /\ lease'[l].port = p
      BY <2>2, <3>2 DEF AllocatorTypeOK, ClosesFirst, Holds
    <3>6. \A k \in Leases \ {l} : lease'[k] = lease[k]
      BY <2>2 DEF AllocatorTypeOK
    <3>7. \A k \in Leases \ {l} : Holds(k)' <=> Holds(k)
      BY <3>6 DEF Holds
    <3>8. ASSUME NEW x PROVE x \in leased' <=> \E k \in Leases : Holds(k)' /\ x = lease'[k].port
      <4>1. x \in leased <=> \E k \in Leases : Holds(k) /\ x = lease[k].port
        BY DEF LeasedExact
      <4> QED BY <2>2, <4>1, <3>5, <3>6, <3>7
    <3>9. LeasedExact'
      BY <3>8 DEF LeasedExact
    <3>10. \A k \in Leases \ {l} : Holds(k) \/ k \in listening => lease[k].port # p
      <4>1. \A k \in Leases : Holds(k) => lease[k].port \in leased
        BY DEF LeasedExact
      <4>2. \A k \in listening : k \in Leases /\ Holds(k)
        BY DEF ClosesFirst, Holds, AllocatorTypeOK
      <4> QED BY <4>1, <4>2, <3>1
    <3>11. NeverCollides'
      BY <3>2, <3>5, <3>6, <3>7, <3>10 DEF NeverCollides
    <3> QED BY <3>3, <3>4, <3>9, <3>11
  <2> QED BY <1>1, <2>1, <2>2 DEF Acquire
<1>2. ASSUME NEW l \in Leases, Bound(l) PROVE AllocatorInv'
  BY <1>2 DEF Bound, AllocatorTypeOK, NeverCollides, LeasedExact, ClosesFirst, Holds, Promise
<1>3. ASSUME NEW l \in Leases, BindFails(l) PROVE AllocatorInv'
  <2>1. AllocatorTypeOK' /\ ClosesFirst'
    BY <1>3 DEF BindFails, AllocatorTypeOK, ClosesFirst, Promise
  <2>2. Holds(l) /\ ~Holds(l)' /\ l \notin listening
    BY <1>3 DEF BindFails, AllocatorTypeOK, ClosesFirst, Holds
  <2>3. /\ \A k \in Leases \ {l} : lease'[k] = lease[k]
        /\ leased' = leased \ {lease[l].port} /\ listening' \subseteq listening \ {l}
    BY <1>3, <2>2 DEF BindFails, AllocatorTypeOK
  <2> QED BY <2>1, <2>2, <2>3, AllocatorGivesBack
<1>4. ASSUME NEW l \in Leases, CloseBinding(l) PROVE AllocatorInv'
  BY <1>4 DEF CloseBinding, AllocatorTypeOK, NeverCollides, LeasedExact, ClosesFirst, Holds, Promise
<1>5. ASSUME NEW l \in Leases, Release(l) PROVE AllocatorInv'
  BY <1>5 DEF Release, Releasable, AllocatorTypeOK, NeverCollides, LeasedExact, ClosesFirst, Holds, Promise
<1>6. ASSUME NEW l \in Leases, CloseSettles(l) PROVE AllocatorInv'
  <2> PICK closed \in {"ok", "failed"} :
        /\ lease' = [lease EXCEPT ![l].closing = closed,
                                  ![l].releasing = IF @ = "pending" THEN closed ELSE @]
        /\ leased' = IF Frees(l, closed) THEN leased \ {lease[l].port} ELSE leased
        /\ listening' = IF closed = "ok" THEN listening \ {l} ELSE listening
    BY <1>6 DEF CloseSettles
  <2>1. lease[l].closing = "pending" /\ lease[l].pc = "held"
    BY <1>6 DEF CloseSettles, ClosesFirst
  <2>2. AllocatorTypeOK' /\ ClosesFirst'
    BY <2>1 DEF AllocatorTypeOK, ClosesFirst, Promise
  <2>3. \A k \in Leases \ {l} : lease'[k] = lease[k]
    BY DEF AllocatorTypeOK
  <2>4. CASE Frees(l, closed)
    <3>1. Holds(l) /\ ~Holds(l)' /\ listening' \subseteq listening \ {l}
      BY <2>1, <2>4 DEF Frees, Holds, AllocatorTypeOK
    <3> QED BY <2>2, <2>3, <2>4, <3>1, AllocatorGivesBack
  <2>5. CASE ~Frees(l, closed)
    <3>1. \A k \in Leases : Holds(k)' <=> Holds(k)
      BY <2>1, <2>5 DEF Frees, Holds, AllocatorTypeOK, ClosesFirst
    <3>2. \A k \in Leases : lease'[k].port = lease[k].port
      BY DEF AllocatorTypeOK
    <3>3. LeasedExact'
      BY <2>5, <3>1, <3>2 DEF LeasedExact
    <3>4. NeverCollides'
      BY <3>1, <3>2 DEF NeverCollides
    <3> QED BY <2>2, <3>3, <3>4
  <2> QED BY <2>4, <2>5
<1>7. CASE UNCHANGED allocatorVars
  BY <1>7 DEF allocatorVars, AllocatorTypeOK, NeverCollides, LeasedExact, ClosesFirst, Holds, Promise
<1> QED BY <1>1, <1>2, <1>3, <1>4, <1>5, <1>6, <1>7 DEF AllocatorNext

(* The invariants of CdpPortAllocator hold in every reachable state.        *)
THEOREM AllocatorSafe == AllocatorSpec => []AllocatorInv
<1>1. AllocatorInit => AllocatorInv
  BY AllocatorInitSafe
<1>2. AllocatorInv /\ [AllocatorNext]_allocatorVars => AllocatorInv'
  BY AllocatorNextSafe
<1> QED BY <1>1, <1>2, PTL DEF AllocatorSpec

(* No two sessions share a port, and a port whose listener may still be     *)
(* open is not handed out (NeverCollides); #leased never loses or keeps a   *)
(* port wrongly (LeasedExact).                                              *)
THEOREM PortsExclusive == AllocatorSpec => [](NeverCollides /\ LeasedExact)
<1>1. AllocatorInv => NeverCollides /\ LeasedExact
  BY DEF AllocatorInv
<1> QED BY <1>1, AllocatorSafe, PTL

(* A step of the allocator is a grant, a return or no step of the pool.     *)
LEMMA AllocatorStepRefines == AllocatorInv /\ [AllocatorNext]_allocatorVars => [Pool!Next]_Held
<1> SUFFICES ASSUME AllocatorInv, [AllocatorNext]_allocatorVars PROVE Pool!Next \/ Held' = Held
  BY DEF Pool!Next
<1>0. ASSUME NEW l \in Leases, \A k \in Leases \ {l} : lease'[k] = lease[k],
             Holds(l), ~Holds(l)'
      PROVE  Pool!Return(l)
  <2>1. \A k \in Leases \ {l} : Holds(k)' <=> Holds(k)
    BY <1>0 DEF Holds
  <2>2. <<lease[l].port, l>> \in Held /\ <<lease[l].port, l>>[2] = l
    BY <1>0 DEF Held
  <2>3. Held' = {h \in Held : h[2] # l}
    BY <1>0, <2>1 DEF Held
  <2> QED BY <2>2, <2>3 DEF Pool!Return
<1>1. ASSUME \A k \in Leases : (Holds(k)' <=> Holds(k)) /\ (Holds(k) => lease'[k].port = lease[k].port)
      PROVE  Held' = Held
  BY <1>1 DEF Held
<1>2. ASSUME NEW l \in Leases, Acquire(l) PROVE Pool!Next \/ Held' = Held
  <2>1. CASE lease' = [lease EXCEPT ![l].pc = "exhausted"]
    BY <1>1, <1>2, <2>1 DEF Acquire, Holds, AllocatorInv, AllocatorTypeOK
  <2>2. ASSUME NEW p \in SelectCandidate,
               lease' = [lease EXCEPT ![l].pc = "binding", ![l].port = p]
        PROVE  Pool!Grant(p, l)
    <3>1. p \in Ports /\ p \notin leased
      BY CandidateIsFree
    <3>2. /\ ~Holds(l) /\ Holds(l)' /\ lease'[l].port = p
          /\ \A k \in Leases \ {l} : lease'[k] = lease[k]
      BY <1>2, <2>2 DEF Acquire, Holds, AllocatorInv, AllocatorTypeOK, ClosesFirst
    <3>3. \A k \in Leases \ {l} : Holds(k)' <=> Holds(k)
      BY <3>2 DEF Holds
    <3>4. \A h \in Held : h[1] # p /\ h[2] # l
      BY <3>1, <3>2 DEF Held, AllocatorInv, LeasedExact
    <3>5. Held' = Held \cup {<<p, l>>}
      BY <3>2, <3>3 DEF Held
    <3> QED BY <3>4, <3>5 DEF Pool!Grant
  <2> QED BY <1>2, <2>1, <2>2, CandidateIsFree DEF Acquire, Pool!Next
<1>3. ASSUME NEW l \in Leases, BindFails(l) PROVE Pool!Next \/ Held' = Held
  <2>1. Pool!Return(l)
    BY <1>0, <1>3 DEF BindFails, Holds, AllocatorInv, AllocatorTypeOK, ClosesFirst
  <2> QED BY <2>1 DEF Pool!Next
<1>4. ASSUME NEW l \in Leases, Bound(l) \/ CloseBinding(l) PROVE Held' = Held
  BY <1>1, <1>4 DEF Bound, CloseBinding, Holds, AllocatorInv, AllocatorTypeOK
<1>5. ASSUME NEW l \in Leases, Release(l) \/ CloseSettles(l)
      PROVE  Pool!Next \/ Held' = Held
  <2>1. /\ \A k \in Leases \ {l} : lease'[k] = lease[k]
        /\ lease[l].pc = "held" /\ lease[l].releasing # "ok" /\ lease'[l].pc = "held"
        /\ lease'[l].port = lease[l].port
    BY <1>5 DEF Release, Releasable, CloseSettles, AllocatorInv, AllocatorTypeOK, ClosesFirst
  <2>2. CASE Holds(l)'
    BY <1>1, <2>1, <2>2 DEF Holds
  <2>3. CASE ~Holds(l)'
    <3>1. Pool!Return(l)
      BY <1>0, <2>1, <2>3 DEF Holds
    <3> QED BY <3>1 DEF Pool!Next
  <2> QED BY <2>2, <2>3
<1>6. CASE UNCHANGED allocatorVars
  BY <1>6 DEF allocatorVars, Held, Holds
<1> QED BY <1>2, <1>3, <1>4, <1>5, <1>6 DEF AllocatorNext

(* The allocator implements the pool: whatever the interleaving of acquires,*)
(* failed binds, repeated closes and releases of all sessions, what they see*)
(* is ports granted to one lease at a time and returned once.               *)
THEOREM AllocatorImplementsPool == AllocatorSpec => PoolSpec
<1>1. AllocatorInit => Pool!Init
  BY DEF AllocatorInit, Pool!Init, Held, Holds, Idle
<1>2. AllocatorInv /\ [AllocatorNext]_allocatorVars => [Pool!Next]_Held
  BY AllocatorStepRefines
<1> QED BY <1>1, <1>2, AllocatorSafe, PTL DEF AllocatorSpec, PoolSpec, Pool!Spec
=============================================================================
