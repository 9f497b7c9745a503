------------------------------ MODULE CdpProxy ------------------------------
(***************************************************************************)
(* The external proxy of one managed CDP session: HTTP requests             *)
(* (src/src/cdp/httpProxy.ts) and WebSocket upgrades and relays             *)
(* (src/src/cdp/webSocketProxy.ts) of the generation that is published.     *)
(*                                                                         *)
(* An action is what one event (a request, a probe answer, a socket event,  *)
(* a timer, a call of the session) does up to the next await.  beforeForward*)
(* and onBrowserLoss are the session's probe and invalidation, as           *)
(* startManagedCdpBridge wires them.                                        *)
(***************************************************************************)
EXTENDS Naturals, FiniteSets

CONSTANTS
  Upgrades, Requests,            \* what clients send; each is served once
  MaxConnections, MaxRequests,   \* CDP_WEBSOCKET_MAX_CONNECTIONS, ..._REQUESTS
  MaxGenerations                 \* bound on the generations ever staged

ASSUME LimitsAssumption ==
  MaxConnections \in Nat \ {0} /\ MaxRequests \in Nat \ {0} /\ MaxGenerations \in Nat

VARIABLES
  generation,  \* #generation; "id" tells the generation objects apart
  disposed,    \* the session ignores losses from dispose() on
  stopping,    \* #stopPromise: none, draining, binding (closing it), stopped
  leased,      \* the port lease is held
  conn,        \* upgrades: #pendingUpgrades, #attempts, #pairs, by "pc"
  request      \* HTTP requests; not present: the client left while it was served

vars == <<generation, disposed, stopping, leased, conn, request>>

\* socket: the client's TCP connection before it becomes the WebSocket "client"
Socket == {"none", "open", "ended", "gone"}
Side   == {"none", "connecting", "open", "closing", "closed"}
Idle   == [pc |-> "idle", gen |-> 0, kind |-> "page", socket |-> "none",
           client |-> "none", upstream |-> "none", local |-> FALSE, answer |-> "none"]

Init ==
  /\ generation = [state |-> "undefined", id |-> 0]
  /\ disposed = FALSE /\ stopping = "none" /\ leased = TRUE
  /\ conn = [u \in Upgrades |-> Idle]
  /\ request = [r \in Requests |-> [pc |-> "idle", gen |-> 0, present |-> TRUE]]

Current(g)     == generation.state = "ready" /\ generation.id = g
Paired(u)      == conn[u].pc = "paired"
Connections    == {u \in Upgrades : conn[u].pc \in {"pending", "attempt", "paired"}}
ActiveRequests == {r \in Requests : request[r].pc \in {"probing", "upstream"}}
Awaited        == {r \in ActiveRequests : request[r].present}
-----------------------------------------------------------------------------
(* Generations, as the session stages, publishes and clears them.           *)

ShutEnded(side) == IF side = "open" THEN "ended" ELSE side
Shut(side)      == IF side = "open" THEN "closing" ELSE side
ClosePair(p)    == [p EXCEPT !.client = Shut(@), !.upstream = Shut(@)]
CloseLocally(p) == IF p.local THEN p ELSE [ClosePair(p) EXCEPT !.local = TRUE]

\* writeUpgradeError
Answer(p) == IF p.socket = "open" THEN [p EXCEPT !.socket = "ended", !.answer = "error"] ELSE p
\* gone from every set: what remains is the client's TCP connection, and an
\* upstream that opened too late
Finish(p) == [Idle EXCEPT !.pc = "done", !.socket = p.socket, !.answer = p.answer,
                          !.upstream = IF p.upstream = "closing" THEN "closing" ELSE @]

CloseGeneration(cs) ==
  [u \in Upgrades |-> IF cs[u].pc = "paired" /\ Current(cs[u].gen) THEN ClosePair(cs[u]) ELSE cs[u]]

\* the session has always cleared the previous generation before
StageGeneration ==
  /\ ~disposed /\ generation.state = "undefined" /\ generation.id < MaxGenerations
  /\ generation' = [state |-> "verifying", id |-> generation.id + 1]
  /\ UNCHANGED <<disposed, stopping, leased, conn, request>>

PublishUnstaged ==
  /\ ~disposed /\ generation.state # "ready"
  /\ generation' = [generation EXCEPT !.state = "ready"]
  /\ UNCHANGED <<disposed, stopping, leased, conn, request>>

PublishGeneration ==
  /\ ~disposed /\ generation.state = "verifying"
  /\ generation' = [generation EXCEPT !.state = "ready"]
  /\ UNCHANGED <<disposed, stopping, leased, conn, request>>

\* clearGeneration, after the events of one turn brought the upgrades to cs
Clear(cs) ==
  /\ generation' = [generation EXCEPT !.state = "undefined"]
  /\ conn' = CloseGeneration(cs)

ClearGeneration ==
  /\ generation.state # "undefined"
  /\ Clear(conn)
  /\ UNCHANGED <<disposed, stopping, leased, request>>

Dispose ==
  /\ ~disposed
  /\ disposed' = TRUE
  /\ UNCHANGED <<generation, stopping, leased, conn, request>>

\* onBrowserLoss: the session invalidates its generation unless disposed
Settle(cs, lost) ==
  IF lost /\ ~disposed /\ generation.state = "ready"
    THEN Clear(cs)
    ELSE conn' = cs /\ UNCHANGED generation
-----------------------------------------------------------------------------
(* WebSocket upgrades.                                                      *)

Change(u, p) ==
  /\ conn' = [conn EXCEPT ![u] = p]
  /\ UNCHANGED generation

SlotsOfPairs == {u \in Upgrades : Paired(u)}
Slots        == Connections

\* any request can be malformed or refused; only a published generation accepts
UpgradeArrives(u) ==
  /\ conn[u].pc = "idle" /\ stopping # "stopped"
  /\ \/ Change(u, [Idle EXCEPT !.pc = "done", !.socket = "ended", !.answer = "error"])
     \/ /\ generation.state = "ready" /\ stopping = "none"
        /\ Cardinality(Slots) < MaxConnections
        /\ \E k \in {"browser", "page"} :
             Change(u, [Idle EXCEPT !.pc = "pending", !.gen = generation.id,
                                    !.kind = k, !.socket = "open"])
  /\ UNCHANGED <<disposed, stopping, leased, request>>

\* #prepareUpstreamHandshake: the probe has answered, or its deadline has passed
HandshakePrepared(u) ==
  /\ conn[u].pc = "pending"
  /\ \/ Change(u, Finish(Answer(conn[u])))
     \/ /\ stopping = "none" /\ Current(conn[u].gen) /\ conn[u].socket = "open"
        /\ Change(u, [conn[u] EXCEPT !.pc = "attempt", !.upstream = "connecting"])
  /\ UNCHANGED <<disposed, stopping, leased, request>>

\* the client gives up, or reads its refusal and closes
ClientLeaves(u) ==
  /\ conn[u].pc \in {"pending", "attempt", "done"} /\ conn[u].socket \in {"open", "ended"}
  /\ Change(u, Finish([conn[u] EXCEPT !.socket = "gone"]))
  /\ UNCHANGED <<disposed, stopping, leased, request>>

OpensForAnyGeneration(u) == TRUE
OpensFor(u) == Current(conn[u].gen)

UpstreamOpens(u) ==
  /\ conn[u].pc = "attempt"
  /\ \/ /\ ~OpensFor(u)
        /\ Change(u, Finish(Answer([conn[u] EXCEPT !.upstream = "closing"])))
     \/ /\ OpensFor(u)
        /\ Change(u, [conn[u] EXCEPT !.pc = "paired", !.client = "open",
                                     !.upstream = "open", !.answer = "accepted"])
     \/ /\ OpensFor(u)    \* the client is half closed: ws destroys its socket
        /\ Change(u, Finish([conn[u] EXCEPT !.socket = "gone"]))
  /\ UNCHANGED <<disposed, stopping, leased, request>>

\* an unexpected response or an error; the former reports a loss of whatever
\* generation is current
UpstreamRefuses(u) ==
  /\ conn[u].pc = "attempt"
  /\ \E lost \in BOOLEAN :
       Settle([conn EXCEPT ![u] = Finish(Answer(@))], lost)
  /\ UNCHANGED <<disposed, stopping, leased, request>>

\* an upstream that opened too late is closed on its own
LeftoverCloses(u) ==
  /\ conn[u].pc = "done" /\ conn[u].upstream = "closing"
  /\ Change(u, [conn[u] EXCEPT !.upstream = "none"])
  /\ UNCHANGED <<disposed, stopping, leased, request>>
-----------------------------------------------------------------------------
(* Relaying between the two sides of a pair.                                *)

\* maybeFinish
Reaped(p) == IF p.client = "closed" /\ p.upstream = "closed"
               THEN Finish([p EXCEPT !.socket = "gone"]) ELSE p

Loses(u) == conn[u].kind = "browser" /\ conn[u].client # "closed" /\ ~conn[u].local

\* relayed, or over the queue limit, or for a side that is not open; and the
\* message may be Browser.close
ClientMessage(u) ==
  /\ Paired(u) /\ conn[u].client # "closed"
  /\ \E over, closes \in BOOLEAN :
       Settle([conn EXCEPT ![u] = IF over \/ @.upstream # "open" THEN CloseLocally(@) ELSE @],
              closes)
  /\ UNCHANGED <<disposed, stopping, leased, request>>

\* an upstream message that is not relayed, a failed send or a client error
RelayFails(u) ==
  /\ Paired(u)
  /\ Change(u, CloseLocally(conn[u]))
  /\ UNCHANGED <<disposed, stopping, leased, request>>

UpstreamFails(u) ==
  /\ Paired(u) /\ conn[u].upstream # "closed"
  /\ Settle([conn EXCEPT ![u] = CloseLocally(@)], Loses(u))
  /\ UNCHANGED <<disposed, stopping, leased, request>>

NoPeerClose(p, side)    == side
RelayPeerClose(p, side) == IF p.local THEN side ELSE Shut(side)

\* a side that closed, and what that does to the other one and to the pair
ClientClosed(p)   == Reaped([p EXCEPT !.client = "closed", !.upstream = RelayPeerClose(p, @)])
UpstreamClosed(p) == Reaped([p EXCEPT !.upstream = "closed", !.client = RelayPeerClose(p, @)])

ClientCloses(u) ==
  /\ Paired(u) /\ conn[u].client # "closed"
  /\ Change(u, ClientClosed(conn[u]))
  /\ UNCHANGED <<disposed, stopping, leased, request>>

UpstreamCloses(u) ==
  /\ Paired(u) /\ conn[u].upstream # "closed"
  /\ Settle([conn EXCEPT ![u] = UpstreamClosed(@)], Loses(u))
  /\ UNCHANGED <<disposed, stopping, leased, request>>
-----------------------------------------------------------------------------
(* HTTP requests.                                                           *)

RequestTo(r, pc, g) ==
  request' = [request EXCEPT ![r] = [pc |-> pc, gen |-> g, present |-> @.present \/ pc = "done"]]

\* while verifying only the readiness probe passes, and it is not probed for
RequestArrives(r) ==
  /\ request[r].pc = "idle" /\ stopping # "stopped"
  /\ \/ RequestTo(r, "done", 0)
     \/ /\ generation.state # "undefined" /\ Cardinality(ActiveRequests) < MaxRequests
        /\ RequestTo(r, IF generation.state = "ready" THEN "probing" ELSE "upstream",
                     generation.id)
  /\ UNCHANGED <<generation, disposed, stopping, leased, conn>>

AdmitsAnyGeneration(r) == TRUE
AdmitsGeneration(r)    == Current(request[r].gen)

RequestProbed(r) ==
  /\ request[r].pc = "probing"
  /\ \/ RequestTo(r, "done", 0)
     \/ AdmitsGeneration(r) /\ RequestTo(r, "upstream", request[r].gen)
  /\ UNCHANGED <<generation, disposed, stopping, leased, conn>>

\* the response, an error of the upstream or the deadline
RequestEnds(r) ==
  /\ request[r].pc = "upstream"
  /\ RequestTo(r, "done", 0)
  /\ UNCHANGED <<generation, disposed, stopping, leased, conn>>
\* the client closes its connection: nothing in the proxy watches for that, and
\* the handler goes on to its end, with its slot
RequestLeaves(r) ==
  /\ r \in Awaited
  /\ request' = [request EXCEPT ![r] = [pc |-> @.pc, gen |-> @.gen, present |-> FALSE]]
  /\ UNCHANGED <<generation, disposed, stopping, leased, conn>>
-----------------------------------------------------------------------------
(* stop() and release().                                                    *)

CancelledSilently(p) == [p EXCEPT !.socket = "ended"]
Cancelled(p)         == Answer(p)

\* webSocketProxy.close() up to its wait; a terminated attempt fails at once
Stop ==
  /\ disposed /\ stopping = "none"
  /\ stopping' = "draining"
  /\ generation' = [generation EXCEPT !.state = "undefined"]
  /\ conn' = [u \in Upgrades |->
       CASE conn[u].pc = "pending" -> Cancelled(conn[u])
         [] conn[u].pc = "attempt" -> Finish(Answer(conn[u]))
         [] conn[u].pc = "paired"  -> ClosePair(conn[u])
         [] OTHER -> conn[u]]
  /\ UNCHANGED <<disposed, leased, request>>

AllClosed == Connections = {}

Drained ==
  /\ stopping = "draining" /\ AllClosed
  /\ stopping' = "binding"
  /\ UNCHANGED <<generation, disposed, leased, conn, request>>

\* the shutdown timeout destroys what is left
Terminated(p) == Finish([p EXCEPT !.socket = "gone", !.upstream = "closed"])

DrainTimeout ==
  /\ stopping = "draining" /\ ~AllClosed
  /\ stopping' = "binding"
  /\ conn' = [u \in Upgrades |-> IF u \in Connections THEN Terminated(conn[u]) ELSE conn[u]]
  /\ UNCHANGED <<generation, disposed, leased, request>>

\* server.close() reports when the last connection of the listener has ended; it
\* does not wait for the handler of a request whose client left
BindingCloses ==
  /\ stopping = "binding"
  /\ Awaited = {} /\ \A u \in Upgrades : conn[u].socket \notin {"open", "ended"}
  /\ stopping' = "stopped"
  /\ UNCHANGED <<generation, disposed, leased, conn, request>>

ReleaseUnawaited ==
  /\ stopping # "none" /\ leased
  /\ leased' = FALSE
  /\ UNCHANGED <<generation, disposed, stopping, conn, request>>

\* release() awaits the close of the binding
Release ==
  /\ stopping = "stopped" /\ leased
  /\ leased' = FALSE
  /\ UNCHANGED <<generation, disposed, stopping, conn, request>>
-----------------------------------------------------------------------------
Upgrade(u) == \/ UpgradeArrives(u) \/ HandshakePrepared(u) \/ ClientLeaves(u)
              \/ UpstreamOpens(u) \/ UpstreamRefuses(u) \/ LeftoverCloses(u)
Relay(u)   == \/ ClientMessage(u) \/ RelayFails(u) \/ UpstreamFails(u)
              \/ ClientCloses(u) \/ UpstreamCloses(u)
Http(r)    == RequestArrives(r) \/ RequestProbed(r) \/ RequestEnds(r) \/ RequestLeaves(r)
Session    == StageGeneration \/ PublishGeneration \/ ClearGeneration \/ Dispose
Shutdown   == Stop \/ Drained \/ DrainTimeout \/ BindingCloses \/ Release

Next == \/ Session \/ Shutdown
        \/ \E u \in Upgrades : Upgrade(u) \/ Relay(u)
        \/ \E r \in Requests : Http(r)

Spec == Init /\ [][Next]_vars

(***************************************************************************)
(* A handshake ends within its deadline, a WebSocket that is closing is     *)
(* closed by the library's own timer; nobody else has to do anything.       *)
(***************************************************************************)
Fairness ==
  \A u \in Upgrades :
    /\ WF_vars(HandshakePrepared(u)) /\ WF_vars(UpstreamOpens(u) \/ UpstreamRefuses(u))
    /\ WF_vars(conn[u].client = "closing" /\ ClientCloses(u))
    /\ WF_vars(conn[u].upstream = "closing" /\ UpstreamCloses(u))

FairSpec == Spec /\ Fairness
-----------------------------------------------------------------------------
(* Types: every field keeps the range the classes declare for it.           *)
GenerationType == [state: {"undefined", "verifying", "ready"}, id: 0 .. MaxGenerations]
ConnType == [pc: {"idle", "pending", "attempt", "paired", "done"}, gen: 0 .. MaxGenerations,
             kind: {"browser", "page"}, socket: Socket, client: Side, upstream: Side,
             local: BOOLEAN, answer: {"none", "error", "accepted"}]
RequestType == [pc: {"idle", "probing", "upstream", "done"}, gen: 0 .. MaxGenerations,
                present: BOOLEAN]

TypeOK ==
  /\ generation \in GenerationType /\ disposed \in BOOLEAN /\ leased \in BOOLEAN
  /\ stopping \in {"none", "draining", "binding", "stopped"}
  /\ conn \in [Upgrades -> ConnType] /\ request \in [Requests -> RequestType]

(* No connection survives its generation: once the generation a pair was    *)
(* accepted for is not the published one, neither side of the pair relays   *)
(* any more (spec.md:702: an open connection never moves to a new child).   *)
OldConnectionsSevered ==
  \A u \in Upgrades : Paired(u) /\ ~Current(conn[u].gen) =>
    conn[u].client # "open" /\ conn[u].upstream # "open"

(* The documented limits (spec.md:867) hold for everything that holds a     *)
(* slot: a WebSocket is counted from its acceptance, through the probe and  *)
(* the upstream handshake, until both of its sides are closed.              *)
LimitsKept ==
  /\ Cardinality(Connections) <= MaxConnections
  /\ Cardinality(ActiveRequests) <= MaxRequests

(* An upgrade that was accepted is never dropped without a word: it ends    *)
(* with an answer unless its client left.                                   *)
NeverDropped ==
  \A u \in Upgrades :
    conn[u].pc = "done" /\ conn[u].answer = "none" => conn[u].socket = "gone"

(* The port lease is released after the last WebSocket and after the last   *)
(* request that anybody waits for, although requests keep arriving and      *)
(* clients leaving during the shutdown, and nothing can be sent to Chromium *)
(* from then on (spec.md:760).  A request whose client left may still be    *)
(* running: what it has sent is answered to nobody, and with no generation  *)
(* published it is refused when it has not sent anything yet.               *)
ReleasedAfterTraffic ==
  ~leased => Connections = {} /\ Awaited = {} /\ generation.state = "undefined"

(* What makes these hold: a proxy that stops has no generation, one that    *)
(* closed its binding has no connection and nobody waiting; an upgrade that *)
(* is still probed for was answered or can be.                              *)
Phased ==
  /\ stopping # "none" => disposed /\ generation.state = "undefined"
  /\ stopping \in {"binding", "stopped"} => Connections = {}
  /\ stopping = "stopped" => Awaited = {}
  /\ ~leased => stopping = "stopped"
  /\ IsFiniteSet(Connections) /\ IsFiniteSet(ActiveRequests)
  /\ \A u \in Upgrades :
       /\ conn[u].pc = "pending" => conn[u].socket = "open" \/ conn[u].answer = "error"
       /\ conn[u].pc = "attempt" => conn[u].socket = "open"

Safe == TypeOK /\ OldConnectionsSevered /\ LimitsKept /\ NeverDropped /\ Phased

(* Chromium is contacted for a client only while the generation the client  *)
(* was admitted for is still the published one, although a probe, and any   *)
(* number of restarts, came between the two.                                *)
ForwardsToCurrent ==
  [][/\ \A u \in Upgrades :
          conn[u].pc = "pending" /\ conn'[u].pc = "attempt" => Current(conn[u].gen)
     /\ \A r \in Requests :
          request[r].pc = "probing" /\ request'[r].pc = "upstream" => Current(request[r].gen)]_vars

(* The proxy is such an endpoint: what it is told, and the losses that it    *)
(* reports itself, never publish a generation that was not staged, nor      *)
(* stage one over another, nor either after the session is over.            *)
Unavailable == generation.state = "undefined"
Endpoint == INSTANCE CdpEndpoint WITH
  state <- IF Unavailable THEN "unavailable" ELSE generation.state,
  generation <- IF Unavailable THEN 0 ELSE generation.id,
  over <- disposed, Generations <- 1 .. MaxGenerations, NoGeneration <- 0
EndpointSpec == Endpoint!Spec

(* A pair that lost one side gives its slot back, whichever side went first *)
(* and whatever is said on the other one.                                   *)
SlotsReturned ==
  \A u \in Upgrades :
    Paired(u) /\ (conn[u].client # "open" \/ conn[u].upstream # "open") ~> ~Paired(u)
-----------------------------------------------------------------------------
(* What the repository says of itself and the code does not keep.           *)

(* docs/specs/cdp-access/spec.md:702: "An old capability or still-open      *)
(* connection MUST never move silently to the new child or generation": an  *)
(* event of a connection of an old generation does not end the current one. *)
OldConnectionSparesGeneration ==
  [][\A u \in Upgrades :
       conn'[u] # conn[u] /\ ~disposed /\ generation.state = "ready" /\ conn[u].gen < generation.id
         => generation' = generation]_vars
=============================================================================
