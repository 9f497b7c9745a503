---------------------------- MODULE HttpSessions ----------------------------
(***************************************************************************)
(* The sessions of the Streamable HTTP server (src/src/http/server.ts) and  *)
(* their records (src/src/http/sessionStore.ts): initialization, requests,  *)
(* DELETE, idle expiry, client disconnects and the close of the server.     *)
(*                                                                         *)
(* An action is what one event does up to the next await on a bridge, a     *)
(* transport or another session's disposal; the in-memory store answers in  *)
(* the same turn.  A close of an id that has no session settles at once.    *)
(***************************************************************************)
EXTENDS Naturals, FiniteSets

CONSTANTS
  Sessions,    \* the initialize requests, each with the session id it draws
  Requests,    \* requests that name a session: POST, GET ("use") or DELETE
  Target,      \* the session each of them names
  SessionMax   \* sessionMax

ASSUME InputsAssumption ==
  SessionMax \in Nat \ {0} /\ IsFiniteSet(Sessions) /\ Target \in [Requests -> Sessions]

VARIABLES
  init,      \* initialize requests: where they are, and the closes they await
  gone,      \* clientDisconnected of the initialize requests
  pending,   \* #pendingSessionInitializations
  sessions,  \* the keys of #sessions
  closing,   \* the keys of #closing
  bridge,    \* the bridge (its runtime and upstream process) of each session
  record,    \* the store; "expired" is an active record past its expiresAt
  accepted,  \* sessions whose termination was accepted
  request,   \* requests: where they are, and the closes they await
  server     \* the close of the server, and the closes it awaits

vars == <<init, gone, pending, sessions, closing, bridge, record, accepted, request, server>>
table  == <<sessions, closing, bridge, record>>
served == <<request, accepted>>

InFlight == {"starting", "connecting", "answering", "answered", "discarding", "closing"}

Init ==
  /\ init = [s \in Sessions |-> [pc |-> "idle", waits |-> {}]]
  /\ gone = [s \in Sessions |-> FALSE]
  /\ pending = 0 /\ sessions = {} /\ closing = {} /\ accepted = {}
  /\ bridge = [s \in Sessions |-> "none"]
  /\ record = [s \in Sessions |-> "none"]
  /\ request \in [Requests -> {[pc |-> "idle", kind |-> k, waits |-> {}] : k \in {"use", "delete"}}]
  /\ server = [state |-> "open", waits |-> {}]

Accepting  == server.state \in {"open", "draining"}
Expired    == {s \in Sessions : record[s] = "expired"}
Settled(w) == w \cap closing = {}
-----------------------------------------------------------------------------
(* #closeSession for every id in S: an id that is already being closed is   *)
(* left alone, one without a session only has its record marked.  The       *)
(* bridges of the sessions in D are disposed.                               *)

CloseAndDispose(S, D) ==
  /\ record' = [s \in Sessions |-> IF s \in S \ closing /\ record[s] # "none" THEN "closed" ELSE record[s]]
  /\ bridge' = [s \in Sessions |-> IF s \in D \cap sessions THEN "disposing" ELSE bridge[s]]
  /\ closing' = closing \cup (D \cap sessions)
  /\ sessions' = sessions \ S

CloseRecorded(S) == CloseAndDispose(S, {s \in S : record[s] # "none"})
CloseSessions(S) == CloseAndDispose(S, S)

\* the closes that a caller of #closeSession for S then awaits
Awaited(S) == S \cap (sessions \cup closing)

CloseSettles(s) ==
  /\ s \in closing
  /\ closing' = closing \ {s}
  /\ bridge' = [bridge EXCEPT ![s] = "closed"]
  /\ UNCHANGED <<init, gone, pending, sessions, record, accepted, request, server>>

\* closeExpiredSessions of the cleanup timer or of a readiness probe
Sweep ==
  /\ Accepting /\ Expired # {}
  /\ CloseSessions(Expired)
  /\ UNCHANGED <<init, gone, pending, accepted, request, server>>

\* SessionStore.touch: only an active record is extended
TouchAny(s) == IF record[s] = "none" THEN "none" ELSE "active"
Touch(s)    == IF record[s] = "expired" THEN "active" ELSE record[s]

\* time passes: the idle TTL of a record runs out
Expire(s) ==
  /\ record[s] = "active"
  /\ record' = [record EXCEPT ![s] = "expired"]
  /\ UNCHANGED <<init, gone, pending, sessions, closing, bridge, accepted, request, server>>

\* onCdpActivity: a CDP connection of the session is used
CdpActivity(s) ==
  /\ bridge[s] \in {"live", "disposing"}
  /\ record' = [record EXCEPT ![s] = Touch(s)]
  /\ UNCHANGED <<init, gone, pending, sessions, closing, bridge, accepted, request, server>>
-----------------------------------------------------------------------------
(* Initialization.                                                          *)

Goto(s, pc) == init' = [init EXCEPT ![s].pc = pc]

\* #handleRequest: the expired sessions are closed first
InitArrives(s) ==
  /\ init[s].pc = "idle" /\ Accepting
  /\ init' = [init EXCEPT ![s] = [pc |-> "expiring", waits |-> Awaited(Expired)]]
  /\ CloseSessions(Expired)
  /\ UNCHANGED <<gone, pending, served, server>>

SlotOfSessions == Cardinality(sessions) < SessionMax
SlotAvailable  == Cardinality(sessions) + pending < SessionMax

InitReserve(s) ==
  /\ init[s].pc = "expiring" /\ Settled(init[s].waits)
  /\ IF SlotAvailable
       THEN /\ Goto(s, "starting") /\ pending' = pending + 1
            /\ bridge' = [bridge EXCEPT ![s] = "starting"]
       ELSE Goto(s, "done") /\ UNCHANGED <<pending, bridge>>
  /\ UNCHANGED <<gone, sessions, closing, record, served, server>>

ReturnTwice(s) == Goto(s, "done") /\ pending' = pending - 2
\* the finally of #handleInitializeRequest
Return(s) == Goto(s, "done") /\ pending' = pending - 1

StartFails(s) ==
  /\ init[s].pc = "starting"
  /\ Return(s)
  /\ bridge' = [bridge EXCEPT ![s] = "closed"]
  /\ UNCHANGED <<gone, sessions, closing, record, served, server>>

Register(s) ==
  /\ Goto(s, "connecting")
  /\ sessions' = sessions \cup {s}
  /\ bridge' = [bridge EXCEPT ![s] = "live"]

StartsAnyway(s) ==
  /\ init[s].pc = "starting"
  /\ Register(s)
  /\ UNCHANGED <<gone, pending, closing, record, served, server>>

Starts(s) ==
  /\ init[s].pc = "starting"
  /\ IF gone[s]
       THEN /\ Goto(s, "discarding") /\ UNCHANGED sessions
            /\ bridge' = [bridge EXCEPT ![s] = "disposing"]
       ELSE Register(s)
  /\ UNCHANGED <<gone, pending, closing, record, served, server>>

Discarded(s) ==
  /\ init[s].pc = "discarding"
  /\ Return(s)
  /\ bridge' = [bridge EXCEPT ![s] = "closed"]
  /\ UNCHANGED <<gone, sessions, closing, record, served, server>>

\* await this.#closeSession(sessionId), of a client that left or of an error
CloseAndReturn(s) ==
  /\ init' = [init EXCEPT ![s] = [pc |-> "closing", waits |-> Awaited({s})]]
  /\ CloseSessions({s})

\* bridge.start(transport) has settled
Connected(s) ==
  /\ init[s].pc = "connecting"
  /\ \/ ~gone[s] /\ Goto(s, "answering") /\ UNCHANGED table
     \/ CloseAndReturn(s)
  /\ UNCHANGED <<gone, pending, served, server>>

\* onsessioninitialized: store.create
InitAccepted(s) ==
  /\ init[s].pc = "answering"
  /\ Goto(s, "answered")
  /\ record' = [record EXCEPT ![s] = "active"]
  /\ UNCHANGED <<gone, pending, sessions, closing, bridge, served, server>>

\* transport.handleRequest has answered, or refused the request (no record)
InitAnswered(s) ==
  /\ init[s].pc \in {"answering", "answered"}
  /\ Return(s)
  /\ UNCHANGED <<gone, table, served, server>>

InitThrows(s) ==
  /\ init[s].pc \in {"answering", "answered"}
  /\ CloseAndReturn(s)
  /\ UNCHANGED <<gone, pending, served, server>>

InitClosed(s) ==
  /\ init[s].pc = "closing" /\ Settled(init[s].waits)
  /\ Return(s)
  /\ UNCHANGED <<gone, table, served, server>>

FlagDisconnect(s) ==
  /\ init[s].pc \in InFlight \cup {"expiring"} /\ ~gone[s]
  /\ gone' = [gone EXCEPT ![s] = TRUE]
  /\ UNCHANGED <<init, pending, table, served, server>>

\* req 'aborted' or res 'close'; before the slot is reserved only the flag is read
Disconnect(s) ==
  /\ init[s].pc \in InFlight \cup {"expiring"} /\ ~gone[s]
  /\ gone' = [gone EXCEPT ![s] = TRUE]
  /\ IF init[s].pc \in InFlight THEN CloseSessions({s}) ELSE UNCHANGED table
  /\ UNCHANGED <<init, pending, served, server>>
-----------------------------------------------------------------------------
(* Requests that name a session.                                            *)

RequestArrives(r) ==
  /\ request[r].pc = "idle" /\ Accepting
  /\ request' = [request EXCEPT ![r].pc = "expiring", ![r].waits = Awaited(Expired)]
  /\ CloseSessions(Expired)
  /\ UNCHANGED <<init, gone, pending, accepted, server>>

\* #getActiveSession and the touch of a session that is found
RequestRouted(r) ==
  LET s == Target[r] IN
  /\ request[r].pc = "expiring" /\ Settled(request[r].waits)
  /\ \/ /\ record[s] = "active" /\ s \in sessions
        /\ request' = [request EXCEPT ![r].pc = "forwarded"]
        /\ record' = [record EXCEPT ![s] = Touch(s)]
        /\ UNCHANGED <<sessions, closing, bridge>>
     \/ /\ record[s] = "expired"
        /\ request' = [request EXCEPT ![r].pc = "closing", ![r].waits = Awaited({s})]
        /\ CloseSessions({s})
     \/ /\ record[s] \in {"none", "closed"} \/ (record[s] = "active" /\ s \notin sessions)
        /\ request' = [request EXCEPT ![r].pc = "done"]
        /\ UNCHANGED table
  /\ UNCHANGED <<init, gone, pending, accepted, server>>

\* onsessionclosed
DeleteAccepted(r) ==
  LET s == Target[r] IN
  /\ request[r].pc = "forwarded" /\ request[r].kind = "delete"
  /\ request' = [request EXCEPT ![r].pc = "deleted"]
  /\ accepted' = accepted \cup {s}
  /\ record' = [record EXCEPT ![s] = IF @ = "none" THEN "none" ELSE "closed"]
  /\ UNCHANGED <<init, gone, pending, sessions, closing, bridge, server>>

EndsUnclosed(r) ==
  /\ request[r].pc \in {"forwarded", "deleted"}
  /\ request' = [request EXCEPT ![r].pc = "done"]
  /\ UNCHANGED <<init, gone, pending, table, accepted, server>>

\* transport.handleRequest has settled: the finally of #handleSessionRequest
RequestEnds(r) ==
  LET s == Target[r] IN
  /\ request[r].pc \in {"forwarded", "deleted"}
  /\ IF request[r].kind = "delete" /\ s \in accepted
       THEN /\ request' = [request EXCEPT ![r].pc = "closing", ![r].waits = Awaited({s})]
            /\ CloseSessions({s})
       ELSE request' = [request EXCEPT ![r].pc = "done"] /\ UNCHANGED table
  /\ UNCHANGED <<init, gone, pending, accepted, server>>

RequestClosed(r) ==
  /\ request[r].pc = "closing" /\ Settled(request[r].waits)
  /\ request' = [request EXCEPT ![r].pc = "done"]
  /\ UNCHANGED <<init, gone, pending, table, accepted, server>>
-----------------------------------------------------------------------------
(* close() of the server.                                                   *)

Close ==
  /\ server.state = "open"
  /\ server' = [state |-> "draining", waits |-> Awaited(sessions)]
  /\ CloseSessions(sessions)
  /\ UNCHANGED <<init, gone, pending, served>>

ListenerCloses ==
  /\ server.state = "draining" /\ Settled(server.waits)
  /\ server' = [server EXCEPT !.state = "listener"]
  /\ UNCHANGED <<init, gone, pending, table, served>>

\* closeHttpServer resolves with the last connection, then store.clear: requests
\* whose client has left do not hold it (of those that name a session nothing
\* else would tell, so that any of them may have been left)
Closed ==
  /\ server.state = "listener"
  /\ \A s \in Sessions : init[s].pc \in {"idle", "done"} \/ gone[s]
  /\ server' = [server EXCEPT !.state = "closed"]
  /\ record' = [s \in Sessions |-> "none"]
  /\ UNCHANGED <<init, gone, pending, sessions, closing, bridge, served>>
-----------------------------------------------------------------------------
Next ==
  \/ Sweep \/ Close \/ ListenerCloses \/ Closed
  \/ \E s \in Sessions :
       \/ CloseSettles(s) \/ Expire(s) \/ CdpActivity(s) \/ Disconnect(s)
       \/ InitArrives(s) \/ InitReserve(s) \/ StartFails(s) \/ Starts(s) \/ Discarded(s)
       \/ Connected(s) \/ InitAccepted(s) \/ InitAnswered(s) \/ InitThrows(s) \/ InitClosed(s)
  \/ \E r \in Requests :
       RequestArrives(r) \/ RequestRouted(r) \/ DeleteAccepted(r) \/ RequestEnds(r) \/ RequestClosed(r)

Spec == Init /\ [][Next]_vars

\* Starts, closes and answers settle (each has a deadline); awaits resume; the
\* cleanup timer fires while the server is open.  Nobody has to call, leave or
\* end a request, except that a DELETE the transport accepted is answered.
Fairness ==
  /\ WF_vars(server.state = "open" /\ Sweep)
  /\ \A s \in Sessions :
       /\ WF_vars(CloseSettles(s)) /\ WF_vars(InitReserve(s)) /\ WF_vars(Connected(s))
       /\ WF_vars(Starts(s) \/ StartFails(s)) /\ WF_vars(Discarded(s)) /\ WF_vars(InitClosed(s))
       /\ WF_vars(InitAnswered(s) \/ InitThrows(s))
  /\ \A r \in Requests : WF_vars(request[r].pc = "deleted" /\ RequestEnds(r))

FairSpec == Spec /\ Fairness
-----------------------------------------------------------------------------
\* Types: every field keeps the range the classes declare for it; the counter of
\* pending initializations never becomes negative.
TypeOK ==
  /\ init \in [Sessions -> [pc : InFlight \cup {"idle", "expiring", "done"}, waits : SUBSET Sessions]]
  /\ gone \in [Sessions -> BOOLEAN]
  /\ pending \in Nat
  /\ sessions \in SUBSET Sessions /\ closing \in SUBSET Sessions /\ accepted \in SUBSET Sessions
  /\ bridge \in [Sessions -> {"none", "starting", "live", "disposing", "closed"}]
  /\ record \in [Sessions -> {"none", "active", "expired", "closed"}]
  /\ request \in [Requests -> [pc : {"idle", "expiring", "forwarded", "deleted", "closing", "done"},
                               kind : {"use", "delete"}, waits : SUBSET Sessions]]
  /\ server \in [state : {"open", "draining", "listener", "closed"}, waits : SUBSET Sessions]

Initializing == {s \in Sessions : init[s].pc \in InFlight}

\* No interleaving of initializations, closes and disconnects lets the sessions
\* and the reserved slots together exceed the maximum, and none of them leaks
\* or returns a slot twice: the count is that of the initializations in flight.
CapacityKept ==
  /\ pending = Cardinality(Initializing)
  /\ Cardinality(sessions \cup Initializing) <= SessionMax

\* A live bridge is always registered, so that expiry, DELETE and the close of
\* the server can find it; and one that is registered is live.
NoOrphanBridge ==
  \A s \in Sessions : bridge[s] = "live" <=> s \in sessions

\* What makes these hold: the bridge and the record a session has at each point
\* of its initialization, and that a session being closed is registered no more.
Phased ==
  \A s \in Sessions :
    /\ s \in closing => bridge[s] = "disposing"
    /\ init[s].pc \in {"idle", "expiring"} => bridge[s] = "none"
    /\ init[s].pc = "starting" => bridge[s] = "starting"
    /\ init[s].pc = "discarding" => bridge[s] = "disposing" /\ s \notin closing
    /\ init[s].pc \in {"idle", "expiring", "starting", "connecting", "answering", "discarding"} =>
         record[s] = "none"

Safe == TypeOK /\ CapacityKept /\ NoOrphanBridge /\ Phased

\* A session that was closed stays closed: no late request, activity callback
\* or late initialization makes its record active again before the store is
\* cleared.
ClosedForGood ==
  [][\A s \in Sessions : record[s] = "closed" => record'[s] \in {"closed", "none"}]_vars

\* A client that leaves during its initialization, at whatever step, leaves no
\* session and no upstream process behind.
DisconnectReleases ==
  \A s \in Sessions : gone[s] ~> (s \notin sessions /\ bridge[s] \in {"none", "closed"})

\* A session whose record is closed (DELETE, expiry) is disposed in the end,
\* although the expiry sweep no longer lists it.
ClosedReleased ==
  \A s \in Sessions : record[s] = "closed" ~> (s \notin sessions /\ bridge[s] = "closed")

\* A session nobody can use any more gives its upstream process back, whether
\* its client left (at any step of its initialization) or its record was closed.
SessionsReleased == DisconnectReleases /\ ClosedReleased

\* What the specification of the CDP access says of signals: shutdown leaves no
\* session.  close() takes the sessions of the moment it is called and does
\* not stop new or pending initializations.
NoSessionOutlivesServer ==
  server.state = "closed" => \A s \in Sessions : bridge[s] # "live"

\* What the configuration reference says of the idle TTL: every session expires.
\* One whose initialization the transport refused has no record to expire.
EverySessionCanExpire ==
  \A s \in sessions : init[s].pc = "done" /\ server.state # "closed" => record[s] # "none"
=============================================================================
