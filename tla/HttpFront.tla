------------------------------ MODULE HttpFront ------------------------------
(***************************************************************************)
(* The process of the bridge from its command line to its exit             *)
(* (src/src/cli.ts, src/src/cli/options.ts, src/src/http/nodeServer.ts)    *)
(* and the way of an HTTP request to a session (src/src/http/requests.ts,  *)
(* src/src/http/server.ts): configuration, listening, signals and the end  *)
(* of stdin, shutdown, and for each request the order of the checks, with  *)
(* the awaits at which requests, sessions and the shutdown interleave.     *)
(* What a session does once it exists is module HttpSessions; what the     *)
(* stdio bridge does is module BridgeServer.  A session is named by the    *)
(* request that created it.                                                *)
(***************************************************************************)
EXTENDS CliConfig, InitializeMeta, Doctor, FiniteSets

CONSTANTS
  Invocations,  \* command lines and environments the process is started with
  Requests,     \* HTTP requests, each sent once
  Asks,         \* what each request may ask: [Requests -> set of records]
  BodyLimit,    \* bodyLimitBytes
  NoConfig      \* before the options are read

\* versions are triples; a minimum may be missing
Versions == Nat \X Nat \X Nat
FactsFound(i) ==
  i.command = "doctor" => i.facts.node \in Versions /\ i.facts.engine \in Versions \cup {NoRange}
ASSUME FrontAssumption ==
  /\ IsFiniteSet(Requests) /\ BodyLimit \in Nat
  /\ \A i \in Invocations : FactsFound(i)

VARIABLES
  stage,        \* how far the process is: invoked, starting, running, closing, draining, exited
  inv,          \* how it was invoked
  config,       \* CliOptions
  code,         \* how it ended: "none", exit code "0" or "1", or "killed"
  handlers,     \* once-listeners still registered for SIGINT, SIGTERM and the end of stdin
  stdinEnded,   \* process.stdin.readableEnded
  closes,       \* calls of running.close()
  responder,    \* the Docker health responder listens
  sessions,     \* #sessions
  disposing,    \* the sessions close() is disposing
  req,          \* the requests
  gone          \* requests being served whose client has closed its connection

process == <<stage, inv, config, code, handlers, stdinEnded, closes, responder>>
vars == <<process, sessions, disposing, req, gone>>

Idle == [pc |-> "idle"]
\* what was asked is kept to tell what it was answered for
Done(ask, status) == [pc |-> "done", ask |-> ask, answer |-> status]
Serves == config.transport = "streamable-http"

Init ==
  /\ stage = "invoked" /\ inv \in Invocations /\ config = NoConfig /\ code = "none"
  /\ handlers = {} /\ stdinEnded = FALSE /\ closes = 0 /\ responder = FALSE
  /\ sessions = {} /\ disposing = {} /\ req = [r \in Requests |-> Idle]
  /\ gone = {}
------------------------------------------------------------------------------
(* The process.                                                             *)
Exit(c) == stage' = "exited" /\ code' = c /\ handlers' = {} /\ responder' = FALSE

RunDoctor ==
  /\ stage = "invoked" /\ inv.command = "doctor"
  /\ Exit(IF DoctorStatus(inv.facts) = "error" THEN "1" ELSE "0")
  /\ UNCHANGED <<inv, config, stdinEnded, closes, sessions, disposing, req, gone>>

RefuseOptions ==
  /\ stage = "invoked" /\ inv.command = "serve" /\ Refused(inv)
  /\ Exit("1")
  /\ UNCHANGED <<inv, config, stdinEnded, closes, sessions, disposing, req, gone>>

ReadOptions ==
  /\ stage = "invoked" /\ inv.command = "serve" /\ ~Refused(inv)
  /\ config' = CliOptions(inv)
  /\ stage' = "starting" /\ responder' = TRUE
  /\ UNCHANGED <<inv, code, handlers, stdinEnded, closes, sessions, disposing, req, gone>>

\* an unreadable certificate, an address in use; a bridge that cannot be set up
StartFails ==
  /\ stage = "starting" /\ Exit("1")
  /\ UNCHANGED <<inv, config, stdinEnded, closes, sessions, disposing, req, gone>>

\* running.close(): #closeSession takes every session out of the map at once
CloseSessions == disposing' = sessions /\ sessions' = {}
ShutdownAgain(left) ==
  /\ handlers' = left /\ stage' = (IF stage = "draining" THEN stage ELSE "closing")
  /\ closes' = closes + 1 /\ responder' = FALSE /\ CloseSessions
\* shutdown(): the first call closes, any other does nothing
Shutdown(left) ==
  /\ handlers' = left
  /\ IF closes > 0 THEN UNCHANGED <<stage, closes, responder, sessions, disposing>>
     ELSE stage' = "closing" /\ closes' = closes + 1 /\ responder' = FALSE /\ CloseSessions

\* what the code after the start reads of the options
Serving ==
  IF Serves
  THEN [ transport |-> config.transport, endpoint |-> config.http.endpoint,
         authToken |-> config.http.authToken, sessionMax |-> config.http.sessionMax,
         cdp |-> config.cdp.processEnabled, allocator |-> config.cdp.portRange # Unset,
         defaults |-> [k \in SessionOptions \cup ProcessOptions |->
                         CASE k = "geoipProxyMatch" -> IF config.bridge.geoipProxyMatch THEN "true" ELSE "false"
                           [] k = "humanize"        -> IF config.bridge.humanize THEN "true" ELSE "false"
                           [] k \in {"humanPreset"} \cup ProcessOptions -> config.bridge[k]
                           [] OTHER                 -> Absent] ]
  ELSE [transport |-> config.transport]
Listeners == {"SIGINT", "SIGTERM"} \cup (IF Serves THEN {} ELSE {"end"})

StartedUnchecked ==
  /\ stage = "starting" /\ config' = Serving /\ inv' = {}
  /\ stage' = "running" /\ handlers' = Listeners
  /\ UNCHANGED <<code, stdinEnded, closes, responder, sessions, disposing, req, gone>>
\* the listeners come last, and stdin may have ended before
Started ==
  /\ stage = "starting" /\ config' = Serving /\ inv' = {}
  /\ IF ~Serves /\ stdinEnded THEN Shutdown(Listeners)
     ELSE stage' = "running" /\ handlers' = Listeners /\ UNCHANGED <<closes, responder, sessions, disposing>>
  /\ UNCHANGED <<code, stdinEnded, req, gone>>

\* process.once: the second signal of a kind, or one before the start is over,
\* meets no listener and ends the process at once
Signal(s) ==
  /\ stage \in {"starting", "running", "closing", "draining"}
  /\ IF s \in handlers THEN Shutdown(handlers \ {s}) /\ code' = code
     ELSE Exit("killed") /\ UNCHANGED <<closes, sessions, disposing>>
  /\ UNCHANGED <<inv, config, stdinEnded, req, gone>>

StdinEnds ==
  /\ stage \in {"starting", "running", "closing"} /\ ~Serves /\ ~stdinEnded
  /\ stdinEnded' = TRUE
  /\ IF "end" \in handlers THEN Shutdown(handlers \ {"end"})
     ELSE UNCHANGED <<stage, handlers, closes, responder, sessions, disposing>>
  /\ UNCHANGED <<inv, config, code, req, gone>>

\* bridge.dispose() resolves or rejects
StdioClosed ==
  /\ stage = "closing" /\ ~Serves
  /\ \E c \in {"0", "1"} : Exit(c)
  /\ UNCHANGED <<inv, config, stdinEnded, closes, sessions, disposing, req, gone>>

\* close(): the bridges of the sessions there were when it was called
SessionsDisposed ==
  /\ stage = "closing" /\ Serves
  /\ disposing' = {} /\ stage' = "draining"
  /\ UNCHANGED <<inv, config, code, handlers, stdinEnded, closes, responder, sessions, req, gone>>
\* then the listener, which waits for its connections: a request whose client
\* has left may still be served, even an initialization, when the process exits
ListenerClosed ==
  /\ stage = "draining" /\ \A r \in Requests : req[r].pc \in {"idle", "done"} \/ r \in gone
  /\ Exit("0")
  /\ UNCHANGED <<inv, config, stdinEnded, closes, sessions, disposing, req, gone>>
------------------------------------------------------------------------------
(* The requests.                                                            *)
Becomes(r, next) ==
  /\ req' = [req EXCEPT ![r] = next]
  /\ gone' = IF next.pc = "done" THEN gone \ {r} ELSE gone
At(pc, ask) == [pc |-> pc, ask |-> ask]

\* isEndpointRequest: a Host header that makes no URL matches no path
Matches(ask, path) == ask.host = "valid" /\ ask.path = path
\* isAuthorizedRequest
Authorized(ask) == config.authToken = Unset \/ ask.auth = "right"
Reserved(r) == Cardinality({q \in Requests \ {r} : req[q].pc = "initializing"})
SlotFree(r) == Cardinality(sessions) + Reserved(r) < config.sessionMax

\* #handleRequest up to its first await
Route(ask) ==
  IF Matches(ask, "/healthz") \/ Matches(ask, "/readyz")
  THEN IF ~Authorized(ask) THEN Done(ask, "401")
       ELSE IF ask.method # "GET" THEN Done(ask, "405")
       ELSE IF Matches(ask, "/healthz") THEN Done(ask, "200")
       ELSE At("probing", ask)
  ELSE IF ~Matches(ask, config.endpoint) THEN Done(ask, "404")
  ELSE IF ~Authorized(ask) THEN Done(ask, "401")
  ELSE At("sweeping", ask)

Receive(r) ==
  /\ stage \in {"running", "closing"} /\ Serves /\ req[r] = Idle
  /\ \E ask \in Asks[r] : Becomes(r, Route(ask))
  /\ UNCHANGED <<process, sessions, disposing>>

\* #closeExpiredSessions, of a request or of the timer
Expire(expired) == sessions' = sessions \ expired

ProbeAnswered(r) ==
  /\ req[r].pc = "probing"
  /\ \E expired \in SUBSET sessions :
       /\ Expire(expired)
       /\ Becomes(r, Done(req[r].ask,
                          IF Cardinality(sessions \ expired) + Reserved(r) < config.sessionMax
                          THEN "200" ELSE "503"))
  /\ UNCHANGED <<process, disposing>>

\* #handleSessionRequest, #getActiveSession among the sessions that are left
SessionRequest(ask, left) ==
  IF ask.session = Absent THEN Done(ask, "400")
  ELSE IF ask.session \notin left THEN Done(ask, "404")
  ELSE At("session", ask)

\* #handlePostRequest and readJsonBody up to the first chunk
PostRequest(ask) ==
  IF ~ask.json THEN Done(ask, "415")
  ELSE IF ask.declared # Absent /\ Numeral[ask.declared] > BodyLimit THEN Done(ask, "413")
  ELSE [pc |-> "body", ask |-> ask, size |-> 0]

Swept(r) ==
  /\ req[r].pc = "sweeping"
  /\ LET ask == req[r].ask IN
     \E expired \in SUBSET sessions :
       /\ Expire(expired)
       /\ Becomes(r, CASE ask.method = "POST"             -> PostRequest(ask)
                       [] ask.method \in {"GET", "DELETE"} -> SessionRequest(ask, sessions \ expired)
                       [] OTHER                            -> Done(ask, "405"))
  /\ UNCHANGED <<process, disposing>>

\* one chunk of the body, at most two bytes and no more than was declared; leaving
\* the loop tears the request down, and its connection with the answer if it can
BodyChunk(r) ==
  /\ req[r].pc = "body" /\ r \notin gone
  /\ \E n \in 1 .. 2 :
       LET size == req[r].size + n
           declared == req[r].ask.declared
       IN  /\ declared # Absent => size <= Numeral[declared]
           /\ IF size > BodyLimit
              THEN \E answer \in {"413", "reset"} : Becomes(r, Done(req[r].ask, answer))
              ELSE Becomes(r, [req[r] EXCEPT !.size = size])
  /\ UNCHANGED <<process, sessions, disposing>>

\* a client that left ends the loop with an error, which reads as invalid JSON
BodyAborted(r) ==
  /\ req[r].pc = "body" /\ r \in gone
  /\ Becomes(r, Done(req[r].ask, "400"))
  /\ UNCHANGED <<process, sessions, disposing>>

SlotBeforeMeta(r, ask) ==
  IF ~SlotFree(r) THEN Done(ask, "503")
  ELSE IF MetaRefused(ask.meta) THEN Done(ask, "400")
  ELSE [ pc |-> "initializing", ask |-> ask,
         options |-> RuntimeOptions(ask.meta, config.defaults),
         cdp |-> CdpEnabled(ask.meta, config.cdp) ]
\* #handleInitializeRequest up to its first await: metadata, then the slot
InitializeRequest(r, ask) ==
  IF MetaRefused(ask.meta) THEN Done(ask, "400")
  ELSE IF ~SlotFree(r) THEN Done(ask, "503")
  ELSE [ pc |-> "initializing", ask |-> ask,
         options |-> RuntimeOptions(ask.meta, config.defaults),
         cdp |-> CdpEnabled(ask.meta, config.cdp) ]

BodyEnds(r) ==
  /\ req[r].pc = "body" /\ r \notin gone
  /\ LET ask == req[r].ask IN
     /\ ask.declared # Absent => req[r].size = Numeral[ask.declared]
     /\ Becomes(r, IF req[r].size = 0 \/ ask.payload = "not JSON" THEN Done(ask, "400")
                   ELSE IF ask.session # Absent THEN SessionRequest(ask, sessions)
                   ELSE IF ask.payload # "initialize" THEN Done(ask, "400")
                   ELSE InitializeRequest(r, ask))
  /\ UNCHANGED <<process, sessions, disposing>>

\* the bridge of the session is set up, or it is not: #handleInitializeError;
\* nothing is registered and nothing answered for a client that left meanwhile
InitializeErrors(r) ==
  IF req[r].cdp /\ ~config.allocator THEN {"400"}
  ELSE {"400", "500"} \cup (IF req[r].cdp THEN {"503"} ELSE {})
Initialized(r) ==
  /\ req[r].pc = "initializing"
  /\ \/ /\ r \in gone /\ Becomes(r, Done(req[r].ask, "none"))
        /\ UNCHANGED sessions
     \/ /\ r \notin gone
        /\ \E status \in InitializeErrors(r) : Becomes(r, Done(req[r].ask, status))
        /\ UNCHANGED sessions
     \/ /\ r \notin gone /\ (req[r].cdp => config.allocator)
        /\ Becomes(r, Done(req[r].ask, "200"))
        /\ sessions' = sessions \cup {r}
  /\ UNCHANGED <<process, disposing>>

\* the transport answers; a DELETE ends the session with it, a GET stream stays
\* open while its session and its client are there
SessionAnswers(r) ==
  /\ req[r].pc = "session" /\ req[r].ask.method # "GET"
  /\ Becomes(r, Done(req[r].ask, "200"))
  /\ sessions' = IF req[r].ask.method = "DELETE" THEN sessions \ {req[r].ask.session} ELSE sessions
  /\ UNCHANGED <<process, disposing>>
SessionEnds(r) ==
  /\ req[r].pc = "session"
  /\ \/ req[r].ask.session \notin sessions \cup disposing
     \/ r \in gone /\ req[r].ask.method # "DELETE"
  /\ Becomes(r, Done(req[r].ask, "200"))
  /\ UNCHANGED <<process, sessions, disposing>>

\* the client closes its connection while its request is being served
ClientLeaves(r) ==
  /\ req[r].pc \notin {"idle", "done"} /\ r \notin gone
  /\ gone' = gone \cup {r}
  /\ UNCHANGED <<process, sessions, disposing, req>>

\* the cleanup timer; close() clears it
TimerExpires ==
  /\ stage = "running"
  /\ \E expired \in SUBSET sessions \ {{}} : Expire(expired)
  /\ UNCHANGED <<process, disposing, req, gone>>
------------------------------------------------------------------------------
Start == RunDoctor \/ RefuseOptions \/ ReadOptions \/ StartFails \/ Started
Close == StdioClosed \/ SessionsDisposed \/ ListenerClosed
Told == (\E s \in {"SIGINT", "SIGTERM"} : Signal(s)) \/ StdinEnds
Serve(r) == ProbeAnswered(r) \/ Swept(r) \/ BodyAborted(r) \/ Initialized(r) \/ SessionEnds(r)
Client(r) == Receive(r) \/ BodyChunk(r) \/ BodyEnds(r) \/ SessionAnswers(r) \/ ClientLeaves(r)
Next == \/ Start \/ Close \/ Told \/ TimerExpires
        \/ /\ stage # "exited"
           /\ \E r \in Requests : Serve(r) \/ Client(r)

\* the event loop runs what is due; signals, clients and tools owe nothing
Fairness ==
  /\ WF_vars(Start) /\ WF_vars(Close)
  /\ \A r \in Requests : WF_vars(stage # "exited" /\ Serve(r))
Spec == Init /\ [][Next]_vars /\ Fairness
------------------------------------------------------------------------------
(* Types: every part of the process keeps the range the code gives it.     *)
TypeOK ==
  /\ stage \in {"invoked", "starting", "running", "closing", "draining", "exited"}
  /\ code \in {"none", "0", "1", "killed"} /\ closes \in Nat
  /\ handlers \subseteq {"SIGINT", "SIGTERM", "end"}
  /\ stdinEnded \in BOOLEAN /\ responder \in BOOLEAN
  /\ sessions \subseteq Requests /\ disposing \subseteq Requests /\ gone \subseteq Requests
  /\ DOMAIN req = Requests

Said(name) ==
  IF {Switches[name].on, Switches[name].off} \cap inv.flags # {} THEN Switches[name].on \in inv.flags
  ELSE name \in DOMAIN inv.env /\ Reads(inv.env[name])

(* The process runs with what the operator said last and never exposes more *)
(* than was said: CDP is bound beyond the loopback interface only if the    *)
(* command line, or the environment it does not overrule, allows it, and is *)
(* published under a host clients can connect to; HTTPS has exactly one     *)
(* identity and HTTP none that would be ignored; the endpoint hides no      *)
(* probe; managed CDP has ports (cli/options.ts:365, cdp/config.ts:82).     *)
ConfigAsTold ==
  [][ (stage = "invoked" /\ stage' = "starting") =>
      LET cdp == config'.cdp
          http == config'.http
          tls == http.tls \ {"httpsPassphrase"}
      IN  /\ HostKind[cdp.bindHost] # "loopback" => Said("cdpAllowRemote")
          /\ HostKind[IF cdp.advertisedHost = Unset THEN cdp.bindHost ELSE cdp.advertisedHost] # "wildcard"
          /\ cdp.processEnabled = Said("cdpEnabled")
          /\ cdp.processEnabled => cdp.portRange # Unset
          /\ IF http.protocol = "https" THEN tls \in {{"httpsPfx"}, {"httpsCert", "httpsKey"}}
             ELSE http.tls = {}
          /\ http.endpoint \notin ProbePaths /\ http.sessionMax > 0 ]_vars

\* the rules of a request in the order of the checks, as a client can tell them:
\* a path there is, the token, a method it has, JSON, a length within the limit, a
\* body that is JSON, a session or an initialize, metadata that can be read
Refusals == <<"404", "401", "405", "415", "413", "400", "400", "400">>
Posts(ask) == ask.path \notin ProbePaths /\ ask.method = "POST"
Breaks(ask, n) ==
  \/ n = 1 /\ (ask.host # "valid" \/ ask.path \notin ProbePaths \cup {config.endpoint})
  \/ n = 2 /\ ~Authorized(ask)
  \/ n = 3 /\ ask.method \notin (IF ask.path \in ProbePaths THEN {"GET"} ELSE {"GET", "POST", "DELETE"})
  \/ n = 4 /\ Posts(ask) /\ ~ask.json
  \/ n = 5 /\ Posts(ask) /\ ask.declared # Absent /\ Numeral[ask.declared] > BodyLimit
  \/ n = 6 /\ Posts(ask) /\ ask.payload = "not JSON"
  \/ n = 7 /\ ask.path \notin ProbePaths /\ ask.session = Absent /\ (Posts(ask) => ask.payload # "initialize")
  \/ n = 8 /\ Posts(ask) /\ ask.session = Absent /\ MetaRefused(ask.meta)
Broken(ask) == {n \in 1 .. 8 : Breaks(ask, n)}
KeepsUpTo(ask, n) == Broken(ask) \cap 1 .. n = {}
\* the answer to the first rule a request breaks, or to what became of its body
RightAnswer(ask, answer) ==
  \A n \in Broken(ask) : KeepsUpTo(ask, n - 1) =>
    \/ answer = Refusals[n]
    \/ n > 5 /\ ask.method = "POST" /\ answer \in {"400", "413", "reset"}

(* A request is answered for the first rule it breaks and costs nothing     *)
(* before that, although sweeps, chunks, other requests and a full server   *)
(* come in between: no sweep without a path and the token, no byte read of  *)
(* a body that is not announced as JSON within the limit, no slot, no       *)
(* bridge and no session for anything that breaks a rule, metadata that     *)
(* cannot be read included (http/server.ts:178, 239, 275, 411).  Only a     *)
(* body that grows over the limit, is empty or is cut off is refused for    *)
(* that, whatever it would have said.                                       *)
GatesFirst ==
  \A r \in Requests :
    LET q == req[r] IN
    /\ q.pc \in {"probing", "sweeping"} => KeepsUpTo(q.ask, 2)
    /\ q.pc = "body" => KeepsUpTo(q.ask, 5) /\ q.size <= BodyLimit
    /\ q.pc \in {"session", "initializing"} => Broken(q.ask) = {}
    /\ r \in sessions => q.pc = "done" /\ q.answer = "200" /\ Broken(q.ask) = {}
    /\ q.pc = "done" => RightAnswer(q.ask, q.answer)

(* A session runs with what its client sent and, where it sent nothing,     *)
(* with what the process was told, whatever another session was given; a    *)
(* client chooses no binary, no channel and no extension token, a value is  *)
(* of the kind its key takes, and only the extension mode shares a profile  *)
(* (http/requests.ts:90, http/server.ts:460).                               *)
HandedAsTold ==
  \A r \in Requests :
    req[r].pc = "initializing" =>
      LET keys == req[r].ask.meta.keys
          given == req[r].options
      IN  /\ \A k \in SessionOptions \ {"proxy"} :
               given[k] = IF k \in DOMAIN keys THEN keys[k] ELSE config.defaults[k]
          /\ \A k \in DOMAIN keys \cap DOMAIN MetaAccepts : keys[k] \in MetaAccepts[k]
          /\ "extensionToken" \notin DOMAIN keys
          /\ given.proxy = Absent <=> "proxyServer" \notin DOMAIN keys
          /\ given.binaryPath = config.defaults.binaryPath
          /\ given.releaseChannel = config.defaults.releaseChannel
          /\ given.browserIsolated = "false" <=> "extensionMode" \in DOMAIN keys /\ keys["extensionMode"] = "true"
          /\ req[r].cdp <=> IF "cdpEnabled" \in DOMAIN keys THEN keys["cdpEnabled"] = "true" ELSE config.cdp

Lexicographic(a, b) == a[1] > b[1] \/ (a[1] = b[1] /\ (a[2] > b[2] \/ (a[2] = b[2] /\ a[3] >= b[3])))
(* The exit code tells the truth, whatever signals arrive in whatever order *)
(* and whenever stdin ends: 0 only after one and only one close(), which    *)
(* has disposed every session that was open when it was called, or from a   *)
(* doctor that found a supported Node.js, the upstream CLI and the core     *)
(* bundle; from the moment it is told to stop, the process does not call    *)
(* itself healthy to Docker (cli.ts:72, 27).                                *)
ExitCodeTrue ==
  /\ TypeOK /\ closes <= 1
  /\ stage = "exited" /\ code = "0" =>
       /\ closes = 1 => disposing = {}
       /\ closes = 0 =>
            LET f == inv.facts IN
            /\ inv.command = "doctor" /\ f.cli = "found" /\ f.binary # "throws"
            /\ f.bundle \in {"found", "found as .js"}
            /\ f.engine # NoRange => Lexicographic(f.node, f.engine)
  /\ stage \in {"closing", "draining", "exited"} => ~responder

------------------------------------------------------------------------------
(* What GatesFirst, HandedAsTold and ExitCodeTrue rest on, true of every    *)
(* reachable state.                                                         *)
Answers == stage \in {"running", "closing", "draining"} /\ Serves
\* what Serving makes of the options of a server
ServesAsTold ==
  /\ Serves /\ config.defaults.proxy = Absent /\ config.defaults.extensionMode = Absent

\* the stage tells how often close() was called, whether its sessions are still
\* being disposed, and whether there is an exit code
CloseCounted ==
  /\ closes \in {0, 1}
  /\ stage \in {"invoked", "starting", "running"} => closes = 0 /\ disposing = {}
  /\ stage \in {"closing", "draining"} => closes = 1 /\ ~responder
  /\ stage = "draining" \/ (stage = "closing" /\ ~Serves) => disposing = {}
  /\ stage # "exited" => code = "none"
\* no listener, no session and no request before the server listens
Silent ==
  /\ stage = "invoked" => FactsFound(inv)
  /\ stage \in {"invoked", "starting"} =>
       handlers = {} /\ sessions = {} /\ \A r \in Requests : req[r] = Idle
  /\ Answers => ServesAsTold
\* a request past a check has passed it, an answer is the one its first broken
\* rule gets, and a bridge is set up with the options of its metadata
Admitted(q) ==
  /\ q = Idle \/ ServesAsTold
  /\ q.pc \in {"probing", "sweeping", "body"} =>
       q.ask.host = "valid" /\ Authorized(q.ask)
  /\ q.pc = "probing" => q.ask.path = "/readyz" /\ q.ask.method = "GET"
  /\ q.pc \in {"sweeping", "body"} => q.ask.path = config.endpoint /\ q.ask.path \notin ProbePaths
  /\ q.pc = "body" =>
       /\ {"pc", "ask", "size"} \subseteq DOMAIN q
       /\ q.ask.method = "POST" /\ KeepsUpTo(q.ask, 5) /\ q.size \in 0 .. BodyLimit
  /\ q.pc \in {"session", "initializing"} => Broken(q.ask) = {}
  /\ q.pc = "initializing" =>
       /\ {"pc", "ask", "options", "cdp"} \subseteq DOMAIN q
       /\ ~MetaRefused(q.ask.meta) /\ q.options = RuntimeOptions(q.ask.meta, config.defaults)
       /\ q.cdp = CdpEnabled(q.ask.meta, config.cdp)
  /\ q.pc = "done" => RightAnswer(q.ask, q.answer)
\* a session was opened by a request that was answered with it
Opened(r) == req[r].pc = "done" /\ req[r].answer = "200" /\ Broken(req[r].ask) = {}
FrontSafe ==
  /\ TypeOK /\ CloseCounted /\ Silent
  /\ \A r \in Requests : Admitted(req[r])
  /\ \A r \in sessions : Opened(r)
  /\ ExitCodeTrue

ClientHolds(r) ==
  /\ r \notin gone
  /\ req[r].pc = "body" \/ (req[r].pc = "session" /\ req[r].ask.session \in sessions)
(* A process that is told to stop ends, also when stdin ended before it was *)
(* ready to listen for that, unless a client keeps a request open for ever: *)
(* the listener waits for its connections (cli.ts:87, nodeServer.ts:30).    *)
StopsWhenTold ==
  \/ (stage = "closing" \/ (stage = "running" /\ stdinEnded)) ~> (stage = "exited")
  \/ <>[](\E r \in Requests : ClientHolds(r))
=============================================================================
