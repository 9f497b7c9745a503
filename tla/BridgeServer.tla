---------------------------- MODULE BridgeServer ----------------------------
(***************************************************************************)
(* The bridge server of one MCP session (src/src/server.ts): its start and  *)
(* disposal, the upstream child it talks to, and the cache of tool lists    *)
(* between them.                                                            *)
(*                                                                         *)
(* With a managed CDP session the upstream child is the session's current   *)
(* owner, which restarts replace; without one it is the same child for ever.*)
(* The session is CdpSession's, seen from here: who the owner is, which     *)
(* generation is published, whether a restart is running.                   *)
(***************************************************************************)
EXTENDS Naturals, Sequences

CONSTANTS
  Lists,        \* the tools/list requests that arrive
  Cursors,      \* the pages they ask for
  MaxChildren,  \* bound on the upstream children ever started
  MaxChanges,   \* bound on the changes of a child's tools
  NoFetch       \* the cache has no entry

ASSUME BoundsAssumption == MaxChildren \in Nat \ {0} /\ MaxChanges \in Nat
ASSUME CursorsAssumption == Cursors # {} /\ NoFetch \notin Lists

VARIABLES
  managed,  \* options.managedCdpSession is set
  phase,    \* of the bridge
  runtime,  \* the prepared runtime: none, held, released
  session,  \* the managed session, or the only child there is
  child,    \* children: their process, and the tools they list
  wire,     \* what the owner has written to us, oldest first
  checks,   \* list_changed handlers in runWithCurrentUpstream, per change
  cache,    \* upstreamToolCache
  fetch,    \* the promises in it, by the request that created them
  list,     \* the tools/list requests
  count     \* upstreamToolCount

vars == <<managed, phase, runtime, session, child, wire, checks, cache, fetch, list, count>>

Children == 1 .. MaxChildren
Changes  == 1 .. MaxChanges
NoOwner  == 0
NoGeneration == 0      \* unavailable; a generation is named after its child

Owner      == session.owner
Ready      == session.generation # NoGeneration
Alive(c)   == c # NoOwner /\ child[c].state = "open"
Size(tools) == IF tools.dynamic THEN 2 ELSE 1
Larger(a, b) == IF a > b THEN a ELSE b

Init ==
  /\ managed \in BOOLEAN
  /\ phase = "new" /\ runtime = "none"
  /\ session = [owner |-> NoOwner, generation |-> NoGeneration, restarting |-> FALSE]
  /\ child = [c \in Children |-> [state |-> "absent", version |-> 0, dynamic |-> FALSE]]
  /\ wire = <<>>
  /\ checks = [n \in Changes |-> [child |-> NoOwner, state |-> "none"]]
  /\ cache = [k \in Cursors |-> NoFetch]
  /\ fetch = [q \in Lists |-> [status |-> "none", child |-> NoOwner, version |-> 0, dynamic |-> FALSE]]
  /\ list = [q \in Lists |-> [pc |-> "idle", cursor |-> CHOOSE k \in Cursors : TRUE,
                              of |-> NoFetch, before |-> NoGeneration, dynamic |-> FALSE]]
  /\ count = 0
-----------------------------------------------------------------------------
(* Starting.  A managed session undoes its own failed start.                *)

Prepare ==
  /\ phase = "new"
  /\ phase' = "connecting" /\ runtime' = "held"
  /\ UNCHANGED <<managed, session, child, wire, checks, cache, fetch, list, count>>

StartFails ==
  /\ phase \in {"new", "connecting"}
  /\ phase' = "failed"
  /\ runtime' = IF managed /\ phase = "connecting" THEN "released" ELSE runtime
  /\ UNCHANGED <<managed, session, child, wire, checks, cache, fetch, list, count>>

Connected ==
  /\ phase = "connecting"
  /\ phase' = "serving"
  /\ child' = [child EXCEPT ![1].state = "open"]
  /\ session' = [session EXCEPT !.owner = 1, !.generation = IF managed THEN 1 ELSE NoGeneration]
  /\ UNCHANGED <<managed, runtime, wire, checks, cache, fetch, list, count>>
-----------------------------------------------------------------------------
(* The cache.                                                               *)

\* handleUpstreamToolListChanged
Clear ==
  /\ cache' = [k \in Cursors |-> NoFetch]
  /\ count' = 0

\* a rejected promise deletes its key, whoever owns the entry by now
Fails(qs) ==
  /\ fetch' = [q \in Lists |-> IF q \in qs THEN [fetch[q] EXCEPT !.status = "failed"] ELSE fetch[q]]
  /\ cache' = [k \in Cursors |-> IF \E q \in qs : list[q].cursor = k THEN NoFetch ELSE cache[k]]

\* the request is on its way to the owner, or cannot be sent
Sent(f) == IF Alive(Owner) THEN [f EXCEPT !.status = "sent", !.child = Owner]
                           ELSE [f EXCEPT !.status = "unsent"]

\* listUpstreamTools
ListArrives(q, k) ==
  /\ phase = "serving" /\ list[q].pc = "idle"
  /\ list' = [list EXCEPT ![q] = [@ EXCEPT !.pc = "waiting", !.cursor = k,
                !.of = IF cache[k] = NoFetch THEN q ELSE cache[k], !.before = session.generation]]
  /\ IF cache[k] # NoFetch THEN UNCHANGED <<cache, fetch>>
     ELSE /\ cache' = [cache EXCEPT ![k] = q]
          /\ fetch' = [fetch EXCEPT ![q] = IF session.restarting THEN [@ EXCEPT !.status = "held"]
                                                                  ELSE Sent(@)]
  /\ UNCHANGED <<managed, phase, runtime, session, child, wire, checks, count>>

\* the restart it waited for has ended well; a request that could not be sent
\* or that nobody answers in time is rejected
Resumes(q) ==
  /\ fetch[q].status = "resumed"
  /\ fetch' = [fetch EXCEPT ![q] = Sent(@)]
  /\ UNCHANGED <<managed, phase, runtime, session, child, wire, checks, cache, list, count>>

FetchFails(q) ==
  /\ fetch[q].status \in {"unsent", "sent", "answering"}
  /\ Fails({q})
  /\ UNCHANGED <<managed, phase, runtime, session, child, wire, checks, list, count>>

\* filterManagedDynamicTools; the continuation of the handler may come late
Unchanged(before)      == before = session.generation
SameGeneration(before) == Ready /\ before = session.generation
VisibleDynamic(before, dynamic) == dynamic /\ (managed => SameGeneration(before))

Replied(q) ==
  LET f == fetch[list[q].of]
      d == VisibleDynamic(list[q].before, f.dynamic) IN
  /\ list[q].pc = "waiting"
  /\ \/ /\ f.status = "failed"
        /\ list' = [list EXCEPT ![q].pc = "error"]
        /\ UNCHANGED count
     \/ /\ f.status = "done"
        /\ list' = [list EXCEPT ![q] = [@ EXCEPT !.pc = "replied", !.dynamic = d]]
        /\ count' = Larger(count, Size([dynamic |-> d]))
  /\ UNCHANGED <<managed, phase, runtime, session, child, wire, checks, cache, fetch>>
-----------------------------------------------------------------------------
(* The upstream child.  Its answers and notifications arrive in order.      *)

Running(c) == {q \in Lists : fetch[q].child = c /\ fetch[q].status \in {"sent", "answering"}}

ToolsChange(n) ==
  /\ Alive(Owner) /\ checks[n].state = "none"
  /\ \A m \in Changes : m < n => checks[m].state # "none"
  /\ \E d \in BOOLEAN :
       /\ d /\ managed => session.generation = Owner
       /\ child' = [child EXCEPT ![Owner] = [@ EXCEPT !.version = n, !.dynamic = d]]
  /\ checks' = [checks EXCEPT ![n] = [child |-> Owner, state |-> "written"]]
  /\ wire' = Append(wire, [kind |-> "changed", n |-> n])
  /\ UNCHANGED <<managed, phase, runtime, session, cache, fetch, list, count>>

Answers(q) ==
  /\ fetch[q].status = "sent" /\ Alive(fetch[q].child)
  /\ LET c == child[fetch[q].child] IN
       fetch' = [fetch EXCEPT ![q] = [@ EXCEPT !.status = "answering", !.version = c.version,
                                               !.dynamic = c.dynamic]]
  /\ wire' = Append(wire, [kind |-> "list", q |-> q])
  /\ UNCHANGED <<managed, phase, runtime, session, child, checks, cache, list, count>>

ReceiveList ==
  /\ wire # <<>> /\ Head(wire).kind = "list"
  /\ wire' = Tail(wire)
  /\ LET q == Head(wire).q IN
       fetch' = IF fetch[q].status = "answering" THEN [fetch EXCEPT ![q].status = "done"] ELSE fetch
  /\ UNCHANGED <<managed, phase, runtime, session, child, checks, cache, list, count>>

\* a managed child must still be the owner, which a restart makes it wait for
ReceiveChanged ==
  /\ wire # <<>> /\ Head(wire).kind = "changed"
  /\ wire' = Tail(wire)
  /\ LET n == Head(wire).n IN
       IF managed
         THEN /\ checks' = [checks EXCEPT ![n].state =
                              IF session.restarting THEN "held" ELSE "resumed"]
              /\ UNCHANGED <<cache, count>>
         ELSE /\ checks' = [checks EXCEPT ![n].state = "done"]
              /\ Clear
  /\ UNCHANGED <<managed, phase, runtime, session, child, fetch, list>>

NotifiesIfCurrent(n) ==
  /\ checks[n].state = "resumed"
  /\ checks' = [checks EXCEPT ![n].state = "done"]
  /\ IF checks[n].child = Owner THEN Clear ELSE UNCHANGED <<cache, count>>
  /\ UNCHANGED <<managed, phase, runtime, session, child, wire, fetch, list>>

\* the child is gone: what it was asked fails, what it wrote is lost
Gone(c) ==
  /\ child' = [child EXCEPT ![c].state = "closed"]
  /\ wire' = <<>>

LostChanges == [n \in Changes |-> IF checks[n].state = "written" THEN [checks[n] EXCEPT !.state = "done"]
                                                                 ELSE checks[n]]

\* onClose: invalidateGeneration, and with it onStateChange
ChildDies ==
  /\ phase = "serving" /\ Alive(Owner)
  /\ Gone(Owner) /\ checks' = LostChanges
  /\ session' = [session EXCEPT !.generation = NoGeneration]
  /\ IF managed /\ Ready
       THEN /\ Clear
            /\ fetch' = [q \in Lists |-> IF q \in Running(Owner) THEN [fetch[q] EXCEPT !.status = "failed"]
                                                                 ELSE fetch[q]]
       ELSE Fails(Running(Owner)) /\ UNCHANGED count
  /\ UNCHANGED <<managed, phase, runtime, list>>
-----------------------------------------------------------------------------
(* The managed session, as the bridge observes it.                          *)

Silently == UNCHANGED <<cache, count>>
StateChanged == Clear

\* the browser is lost, closed or not the one that was published
Invalidate ==
  /\ phase = "serving" /\ Ready
  /\ session' = [session EXCEPT !.generation = NoGeneration]
  /\ StateChanged
  /\ UNCHANGED <<managed, phase, runtime, child, wire, checks, fetch, list>>

RestartBegins ==
  /\ phase = "serving" /\ managed /\ ~Ready /\ ~session.restarting
  /\ session' = [session EXCEPT !.restarting = TRUE]
  /\ UNCHANGED <<managed, phase, runtime, child, wire, checks, cache, fetch, list, count>>

OwnerRetires ==
  /\ session.restarting /\ Owner # NoOwner /\ (Alive(Owner) => Running(Owner) = {})
  /\ Gone(Owner) /\ checks' = LostChanges
  /\ session' = [session EXCEPT !.owner = NoOwner]
  /\ UNCHANGED <<managed, phase, runtime, cache, fetch, list, count>>

Released(to) ==
  checks' = [n \in Changes |-> IF checks[n].state = "held" THEN [checks[n] EXCEPT !.state = to] ELSE checks[n]]
Held == {q \in Lists : fetch[q].status = "held"}

RestartPublishes(c) ==
  /\ phase = "serving" /\ session.restarting /\ Owner = NoOwner
  /\ child[c].state = "absent" /\ \A d \in Children : d < c => child[d].state # "absent"
  /\ child' = [child EXCEPT ![c].state = "open"]
  /\ session' = [owner |-> c, generation |-> c, restarting |-> FALSE]
  /\ StateChanged
  /\ fetch' = [q \in Lists |-> IF q \in Held THEN [fetch[q] EXCEPT !.status = "resumed"] ELSE fetch[q]]
  /\ Released("resumed")
  /\ UNCHANGED <<managed, phase, runtime, wire, list>>

RestartFailsSilently ==
  /\ session.restarting
  /\ session' = [session EXCEPT !.restarting = FALSE]
  /\ Fails({}) /\ Released("done")
  /\ UNCHANGED <<managed, phase, runtime, child, wire, list, count>>

\* the deadline, an error, or the disposal; the old owner is kept when it was
\* the wait for it that failed
RestartFails ==
  /\ session.restarting
  /\ session' = [session EXCEPT !.restarting = FALSE]
  /\ Fails(Held) /\ Released("done")
  /\ UNCHANGED <<managed, phase, runtime, child, wire, list, count>>
-----------------------------------------------------------------------------
(* dispose(): the handler is unsubscribed, the session or the client closed. *)
(* How a session takes its owner down is CdpSession's subject.              *)

Dispose ==
  /\ phase = "serving"
  /\ phase' = "disposed" /\ runtime' = "released"
  /\ session' = [session EXCEPT !.generation = NoGeneration, !.restarting = FALSE]
  /\ Fails(Held \cup Running(Owner))
  /\ checks' = [n \in Changes |-> IF checks[n].state = "none" THEN checks[n]
                                                             ELSE [checks[n] EXCEPT !.state = "done"]]
  /\ IF Alive(Owner) THEN Gone(Owner) ELSE UNCHANGED <<child, wire>>
  /\ UNCHANGED <<managed, list, count>>
-----------------------------------------------------------------------------
Start    == Prepare \/ StartFails \/ Connected
Upstream == \/ \E n \in Changes : ToolsChange(n) \/ NotifiesIfCurrent(n)
            \/ \E q \in Lists : Answers(q)
            \/ ReceiveList \/ ReceiveChanged \/ ChildDies
Session  == \/ Invalidate \/ RestartBegins \/ OwnerRetires \/ RestartFails
            \/ \E c \in Children : RestartPublishes(c)
ListTools == \E q \in Lists : \/ \E k \in Cursors : ListArrives(q, k)
                              \/ Resumes(q) \/ FetchFails(q) \/ Replied(q)

Next == Start \/ Upstream \/ Session \/ ListTools \/ Dispose

Spec == Init /\ [][Next]_vars

(***************************************************************************)
(* The SDK rejects a request nobody answers in time, a restart ends within  *)
(* its deadline, and a continuation that can run does.                      *)
(***************************************************************************)
Fairness ==
  /\ \A q \in Lists : WF_vars(Resumes(q)) /\ WF_vars(FetchFails(q)) /\ WF_vars(Replied(q))
  /\ WF_vars(RestartFails) /\ WF_vars(ReceiveList)

FairSpec == Spec /\ Fairness
-----------------------------------------------------------------------------
(* Types: every part of the bridge keeps the range the code gives it.       *)
Fetch    == [status: {"none", "held", "resumed", "unsent", "sent", "answering", "done", "failed"},
             child: 0 .. MaxChildren, version: 0 .. MaxChanges, dynamic: BOOLEAN]
Listing  == [pc: {"idle", "waiting", "replied", "error"}, cursor: Cursors,
             of: Lists \cup {NoFetch}, before: 0 .. MaxChildren, dynamic: BOOLEAN]
Messages == [kind: {"changed"}, n: Changes] \cup [kind: {"list"}, q: Lists]

TypeOK ==
  /\ managed \in BOOLEAN
  /\ phase \in {"new", "connecting", "serving", "failed", "disposed"}
  /\ runtime \in {"none", "held", "released"}
  /\ session \in [owner: 0 .. MaxChildren, generation: 0 .. MaxChildren, restarting: BOOLEAN]
  /\ child \in [Children -> [state: {"absent", "open", "closed"}, version: 0 .. MaxChanges,
                              dynamic: BOOLEAN]]
  /\ checks \in [Changes -> [child: 0 .. MaxChildren,
                              state: {"none", "written", "held", "resumed", "done"}]]
  /\ wire \in Seq(Messages)
  /\ cache \in [Cursors -> Lists \cup {NoFetch}] /\ count \in 0 .. 2
  /\ fetch \in [Lists -> Fetch] /\ list \in [Lists -> Listing]

(* The next tools/list is fresh (docs/tools.md:40): while the browser of the *)
(* session is ready and no announcement of the owner is still on its way,    *)
(* what the cache holds is what the owner would answer now, never the list   *)
(* of a replaced child, of another generation or from before a change; and a *)
(* failure is never what the next request gets.                              *)
Quiet == /\ phase = "serving" /\ Alive(Owner) /\ (managed => Ready)
         /\ \A n \in Changes : checks[n].state \in {"none", "done"}

CacheFresh ==
  /\ TypeOK
  /\ \A k \in Cursors : cache[k] # NoFetch =>
       LET f == fetch[cache[k]] IN
       /\ f.status # "failed"
       /\ Quiet /\ f.status \in {"answering", "done"} =>
            f.child = Owner /\ f.version = child[Owner].version

(* Dynamic tools belong to the generation that discovered them               *)
(* (docs/tools.md:42): a page's tools reach the client only while the        *)
(* generation of the child that listed them is published, although the list  *)
(* may have been asked for, cached or answered under another one.            *)
DynamicToolsOfGeneration ==
  [][\A q \in Lists : managed /\ list'[q].dynamic /\ ~list[q].dynamic =>
       session.generation = fetch[list[q].of].child]_vars

(* Why both hold.  Nothing is asked of a bridge that does not serve yet, a   *)
(* published generation is the living owner's, and only a managed session   *)
(* restarts:                                                                *)
SessionInv ==
  /\ phase \in {"new", "connecting", "failed"} =>
       /\ session = [owner |-> NoOwner, generation |-> NoGeneration, restarting |-> FALSE]
       /\ \A c \in Children : child[c].state = "absent"
       /\ \A q \in Lists : list[q].pc = "idle"
  /\ Ready => managed /\ session.generation = Owner /\ Alive(Owner) /\ ~session.restarting
  /\ Owner # NoOwner => child[Owner].state # "absent"
  /\ session.restarting => managed /\ phase = "serving"

(* An entry of the cache is a promise for that page which has not failed,    *)
(* made after the last restart; while the browser is ready it asks the       *)
(* owner, and an answer is the owner's latest unless its announcement is on  *)
(* the way.                                                                  *)
Settled == phase = "serving" /\ Alive(Owner) /\ (managed => Ready)
Announced == \E n \in Changes : checks[n].child = Owner /\ checks[n].state \in {"written", "held", "resumed"}
CacheInv ==
  \A k \in Cursors : cache[k] # NoFetch =>
    LET f == fetch[cache[k]] IN
    /\ list[cache[k]].cursor = k
    /\ f.status \notin {"none", "resumed", "failed"}
    /\ Settled /\ f.status \in {"sent", "answering", "done"} => f.child = Owner
    /\ Settled /\ f.status \in {"answering", "done"} => f.version = child[Owner].version \/ Announced

(* A list joined a promise that exists, and if the generation it began under *)
(* is still published, that promise was asked of its child or never will be. *)
ListInv ==
  /\ \A q \in Lists : fetch[q].status = "held" => session.restarting
  /\ \A q \in Lists : list[q].pc = "idle" => fetch[q].status = "none"
  /\ \A q \in Lists : list[q].pc = "waiting" =>
       LET f == fetch[list[q].of] IN
       /\ list[q].of \in Lists /\ f.status # "none"
       /\ list[q].before # NoGeneration =>
            /\ child[list[q].before].state # "absent"
            /\ list[q].before = session.generation =>
                 \/ f.status \in {"unsent", "failed"}
                 \/ f.status \in {"sent", "answering", "done"} /\ f.child = session.generation
Safe == TypeOK /\ SessionInv /\ CacheInv /\ ListInv

(* Every tools/list is answered, also one that joined the promise of another *)
(* request, waits for a restart, or was sent to a child that died.           *)
ListsAnswered == \A q \in Lists : list[q].pc = "waiting" ~> list[q].pc # "waiting"
=============================================================================
