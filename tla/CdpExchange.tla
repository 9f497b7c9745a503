---------------------------- MODULE CdpExchange -----------------------------
(***************************************************************************)
(* One client's exchanges with the external CDP proxy, in time: what each   *)
(* request is answered and when (src/src/cdp/httpProxy.ts, the handshake of *)
(* webSocketProxy.ts, security.ts).  CdpProxy has the life of generations   *)
(* and of WebSocket pairs; here a generation changes around an exchange     *)
(* that is being decided, probed or forwarded.                              *)
(*                                                                         *)
(* Time only passes where a deadline is running: "left" is what remains of  *)
(* it, and a timer that is due may still be late.                           *)
(***************************************************************************)
EXTENDS CdpAdmission

CONSTANTS
  Requests, Inputs,              \* exchanges, and what clients may ask
  Prober, Discovery,             \* the session's own exchange, and what it asks
  Payloads,                      \* the JSON bodies Chromium may send
  MaxRequests, MaxConnections,   \* CDP_HTTP_MAX_..., CDP_WEBSOCKET_MAX_...
  Timeout,                       \* upstreamTimeoutMs, handshakeTimeoutMs
  MaxBody,                       \* CDP_HTTP_MAX_UPSTREAM_RESPONSE_BYTES
  MaxCount,                      \* the largest unsigned 32-bit integer
  MaxGenerations                 \* bound on the generations ever staged

ASSUME InputsAssumption == Inputs \subseteq Input /\ Discovery \in Input
ASSUME ExchangeAssumption ==
  /\ Prober \in Requests
  /\ MaxRequests \in Nat \ {0} /\ MaxConnections \in Nat \ {0} /\ Timeout \in Nat \ {0}
  /\ MaxBody \in Nat /\ MaxCount \in Nat \ {0} /\ MaxGenerations \in Nat

VARIABLES
  generation,  \* #generation; its id is its capability and its readiness token
  closing,     \* none, draining (stop() waits for the listener), closed
  active,      \* #activeRequests
  exch,        \* the exchanges
  counts,      \* rejections of this window, by category
  window,      \* the reporter's timer is set
  unreported   \* exchanges with a rejection that no report holds yet (history)

vars == <<generation, closing, active, exch, counts, window, unreported>>

Categories == {"capability", "host", "origin"}
NoCounts   == [c \in Categories |-> 0]

Fresh == [pc |-> "idle", kind |-> "http", gen |-> 0, json |-> TRUE, left |-> 0, body |-> 0,
          status |-> "none", answer |-> "none", url |-> "none", current |-> FALSE, sound |-> FALSE]

Init ==
  /\ generation = [state |-> "undefined", id |-> 0]
  /\ closing = "none" /\ active = 0
  /\ exch = [r \in Requests |-> Fresh]
  /\ counts = NoCounts /\ window = FALSE /\ unreported = {}

Undefined == generation.state = "undefined"
Expects   == IF Undefined THEN Dummy ELSE generation.id
Published(g) == generation.state = "ready" /\ generation.id = g

InProgress == {r \in Requests : exch[r].pc \in {"probing", "upstream"}}
HttpSlots  == {r \in InProgress : exch[r].kind = "http"}
Handshakes == {r \in Requests : exch[r].kind = "upgrade" /\ exch[r].pc \in {"probing", "attempt"}}
-----------------------------------------------------------------------------
(* The security reporter.                                                   *)

Saturated(n) == IF n < MaxCount THEN n + 1 ELSE n

Record(r, categories) ==
  IF categories = {} \/ closing = "closed" THEN UNCHANGED <<counts, window, unreported>>
  ELSE /\ counts' = [c \in Categories |-> IF c \in categories THEN Saturated(counts[c]) ELSE counts[c]]
       /\ window' = TRUE
       /\ unreported' = unreported \cup {r}

FlushKeepsTimer ==
  /\ counts' = NoCounts /\ unreported' = {}
  /\ UNCHANGED window

Flush ==
  /\ counts' = NoCounts /\ unreported' = {}
  /\ window' = FALSE

WindowEnds ==
  /\ window
  /\ Flush
  /\ UNCHANGED <<generation, closing, active, exch>>
-----------------------------------------------------------------------------
(* Generations, as the session stages, publishes and clears them.           *)

StageGeneration ==
  /\ Undefined /\ closing = "none" /\ generation.id < MaxGenerations
  /\ Prober \notin InProgress
  /\ generation' = [state |-> "verifying", id |-> generation.id + 1]
  /\ exch' = [exch EXCEPT ![Prober] = Fresh]
  /\ UNCHANGED <<closing, active, counts, window, unreported>>

\* verifyManagedCdpReadiness: the proxy served its own discovery
PublishGeneration ==
  /\ generation.state = "verifying"
  /\ exch[Prober].answer = "success" /\ exch[Prober].url = "browser"
  /\ generation' = [generation EXCEPT !.state = "ready"]
  /\ UNCHANGED <<closing, active, exch, counts, window, unreported>>

ClearGeneration ==
  /\ ~Undefined
  /\ generation' = [generation EXCEPT !.state = "undefined"]
  /\ UNCHANGED <<closing, active, exch, counts, window, unreported>>
-----------------------------------------------------------------------------
(* Arrival, up to the first await.                                          *)

\* what the CDP specification allows through to Chromium
AllowedAuthority(scheme, a) ==
  /\ a.form = "canonical" /\ a.host = Advertised.host
  /\ a.port = Advertised.port \/ (a.port = NoPort /\ <<scheme, Advertised.port>> \in {<<"http", 80>>, <<"https", 443>>})
Sound(in) ==
  /\ in.prefixed
  /\ \E h \in {in.hosts[i] : i \in 1 .. Len(in.hosts)} : in.hosts = <<h>> /\ AllowedAuthority(Advertised.scheme, h)
  /\ \A i \in 1 .. Len(in.origins) : Len(in.origins) = 1 /\ AllowedAuthority(in.origins[i].scheme, in.origins[i])
  /\ IF in.kind = "upgrade"
       THEN in.path = "devtools" /\ in.query = "none" /\ in.target /\ in.key /\ in.method = "GET"
       ELSE /\ <<in.path, in.method>> \in ({"version", "list", "protocol", "activate", "close"} \X {"GET"})
                                          \cup {<<"new", "PUT">>}
            /\ in.lengths \in {<<>>, <<"zero">>} /\ ~in.transferEncoding /\ ~in.headersOver
            /\ in.query = "none" \/ (in.path = "new" /\ in.query = "valid")
            /\ in.path \in {"activate", "close"} => in.target

Arrived(in) == [Fresh EXCEPT !.kind = in.kind, !.json = ResponseKind(in.path) = "json",
                             !.current = ~Undefined /\ Matches(generation.id, in.presented),
                             !.sound = Sound(in)]
Answered(e, answer) == [Fresh EXCEPT !.pc = "done", !.answer = answer,
                                     !.current = e.current, !.sound = e.sound]

\* hasReadinessProbe
Readiness(in) == generation.state = "verifying" /\ in.token = generation.id

LoadFirst(in) ==
  IF Undefined THEN "not_found"
  ELSE IF active >= MaxRequests THEN "unavailable"
  ELSE IF LocalAnswer(in, Expects) # "accepted" THEN LocalAnswer(in, Expects)
  ELSE IF AuthorityPolicy(in) # "accepted" THEN AuthorityPolicy(in)
  ELSE "accepted"

\* #handle and #forwardRequest
RequestAnswer(in) ==
  IF Undefined THEN "not_found"
  ELSE IF LocalAnswer(in, Expects) # "accepted" THEN LocalAnswer(in, Expects)
  ELSE IF active >= MaxRequests THEN "unavailable"
  ELSE IF AuthorityPolicy(in) # "accepted" THEN AuthorityPolicy(in)
  ELSE IF generation.state = "verifying" /\ ~Readiness(in) THEN "unavailable"
  ELSE "accepted"

\* the authority is looked at only by a request that holds a slot
RequestRejections(in) ==
  CapabilityRejections(in, Expects) \cup
  (IF ~Undefined /\ LocalAnswer(in, Expects) = "accepted" /\ active < MaxRequests
     THEN AuthorityRejections(in) ELSE {})

RequestArrives(r, in) ==
  /\ exch[r].pc = "idle" /\ closing # "closed" /\ in.kind = "http"
  /\ r = Prober => generation.state = "verifying"
  /\ Record(r, RequestRejections(in))
  /\ IF RequestAnswer(in) # "accepted"
       THEN exch' = [exch EXCEPT ![r] = Answered(Arrived(in), RequestAnswer(in))] /\ UNCHANGED active
       ELSE /\ exch' = [exch EXCEPT ![r] = [Arrived(in) EXCEPT
                          !.pc = IF generation.state = "ready" THEN "probing" ELSE "upstream",
                          !.gen = generation.id, !.left = Timeout]]
            /\ active' = active + 1
  /\ UNCHANGED <<generation, closing>>

\* getGeneration() offers upgrades only a published generation
UpgradeExpects == IF generation.state = "ready" THEN generation.id ELSE Dummy
UpgradeFull    == closing # "none" \/ Cardinality(Handshakes) >= MaxConnections

UpgradeVerdict(in) ==
  IF generation.state # "ready" THEN "not_found"
  ELSE UpgradeAnswer(in, UpgradeExpects, UpgradeFull)

UpgradeRejections(in) ==
  CapabilityRejections(in, UpgradeExpects) \cup
  (IF generation.state = "ready" /\ UpgradeRoute(in, UpgradeExpects) = "route"
     THEN AuthorityRejections(in) ELSE {})

UpgradeArrives(r, in) ==
  /\ r # Prober /\ exch[r].pc = "idle" /\ closing # "closed" /\ in.kind = "upgrade"
  /\ Record(r, UpgradeRejections(in))
  /\ exch' = [exch EXCEPT ![r] =
       IF UpgradeVerdict(in) # "accepted" THEN Answered(Arrived(in), UpgradeVerdict(in))
       ELSE [Arrived(in) EXCEPT !.pc = "probing", !.gen = generation.id, !.left = Timeout]]
  /\ UNCHANGED <<generation, closing, active>>
-----------------------------------------------------------------------------
(* The probe, and the deadline it shares with the upstream request.         *)

Concludes(r, answer) ==
  /\ exch' = [exch EXCEPT ![r] = Answered(@, answer)]
  /\ active' = IF exch[r].kind = "http" THEN active - 1 ELSE active

KeepsSlot(r, answer) ==
  /\ exch' = [exch EXCEPT ![r] = Answered(@, answer)]
  /\ UNCHANGED active

\* #admitsGeneration said no
Refused(r, answer) == Concludes(r, answer)

\* admitted, with too little time left or enough
Forwarded(r) ==
  IF exch[r].left < 1 THEN Concludes(r, "gateway_timeout")
  ELSE /\ exch' = [exch EXCEPT ![r].pc = IF @ = "probing" /\ exch[r].kind = "upgrade"
                                           THEN "attempt" ELSE "upstream"]
       /\ UNCHANGED active

ProbeSettles(r) ==
  /\ exch[r].pc = "probing"
  /\ \/ Refused(r, "unavailable")
     \/ Published(exch[r].gen) /\ (exch[r].kind = "upgrade" => closing = "none") /\ Forwarded(r)
  /\ UNCHANGED <<generation, closing, counts, window, unreported>>

ProbeTimerNeverFires(r) == FALSE /\ UNCHANGED vars

\* withinAbortSignal rejects, whatever becomes of the probe
ProbeAborted(r) ==
  /\ exch[r].pc = "probing" /\ exch[r].left = 0
  /\ Refused(r, "gateway_timeout")
  /\ UNCHANGED <<generation, closing, counts, window, unreported>>

\* an upgrade whose client is gone, and one that the WebSocket proxy ends
UpgradeEnds(r) ==
  /\ r \in Handshakes
  /\ exch' = [exch EXCEPT ![r] = Answered(@, "none")]
  /\ UNCHANGED <<generation, closing, active, counts, window, unreported>>
-----------------------------------------------------------------------------
(* requestUpstream: the first of its events decides.                        *)

UpstreamStarts(r) ==
  /\ exch[r].pc = "upstream" /\ exch[r].status = "none"
  /\ \E status \in {"2xx", "4xx", "other"} : exch' = [exch EXCEPT ![r].status = status]
  /\ UNCHANGED <<generation, closing, active, counts, window, unreported>>

UpstreamData(r) ==
  /\ exch[r].pc = "upstream" /\ exch[r].status # "none"
  /\ IF exch[r].body >= MaxBody THEN Concludes(r, "bad_gateway")
     ELSE exch' = [exch EXCEPT ![r].body = @ + 1] /\ UNCHANGED active
  /\ UNCHANGED <<generation, closing, counts, window, unreported>>

\* prepareCdpUpstreamResponse; only JSON is parsed and rewritten
Prepared(e, payload) ==
  CASE e.status = "4xx"   -> "upstream_error"
    [] e.status = "other" -> "bad_gateway"
    [] OTHER -> IF e.json /\ ~Rewritable(payload) THEN "bad_gateway" ELSE "success"

UpstreamEnds(r) ==
  /\ exch[r].pc = "upstream" /\ exch[r].status # "none"
  /\ \E payload \in Payloads :
       LET e == exch[r]  answer == Prepared(e, payload) IN
       exch' = [exch EXCEPT ![r] = [Answered(e, answer) EXCEPT
         !.url = IF answer = "success" /\ e.json THEN RewrittenUrl(payload) ELSE "none"]]
  /\ active' = active - 1
  /\ UNCHANGED <<generation, closing, counts, window, unreported>>

\* an error, an abort, or a request that Node refuses to make
UpstreamFails(r) ==
  /\ exch[r].pc = "upstream"
  /\ \/ Concludes(r, "bad_gateway")
     \/ exch[r].status = "none" /\ Concludes(r, "internal_error")
  /\ UNCHANGED <<generation, closing, counts, window, unreported>>

UpstreamTimer(r) ==
  /\ exch[r].pc = "upstream" /\ exch[r].left = 0
  /\ Concludes(r, "gateway_timeout")
  /\ UNCHANGED <<generation, closing, counts, window, unreported>>

Tick ==
  /\ \E r \in InProgress : exch[r].left > 0
  /\ exch' = [r \in Requests |-> IF r \in InProgress /\ exch[r].left > 0
                                   THEN [exch[r] EXCEPT !.left = @ - 1] ELSE exch[r]]
  /\ UNCHANGED <<generation, closing, active, counts, window, unreported>>
-----------------------------------------------------------------------------
(* stop(): pending upgrades are refused, the listener ends with its last    *)
(* connection, the reporter with the listener.                              *)

Stop ==
  /\ closing = "none"
  /\ closing' = "draining"
  /\ generation' = [generation EXCEPT !.state = "undefined"]
  /\ exch' = [r \in Requests |-> IF r \in Handshakes THEN Answered(exch[r], "unavailable") ELSE exch[r]]
  /\ UNCHANGED <<active, counts, window, unreported>>

Stopped ==
  /\ closing = "draining" /\ InProgress = {}
  /\ closing' = "closed"
  /\ Flush
  /\ UNCHANGED <<generation, active, exch>>
-----------------------------------------------------------------------------
Session == StageGeneration \/ PublishGeneration \/ ClearGeneration \/ Stop \/ Stopped
\* a client asks anything, the session for the discovery of what it staged
Asks(r)     == IF r # Prober THEN Inputs
               ELSE {[Discovery EXCEPT !.presented = generation.id, !.token = generation.id]}
Arrival(r)  == \E in \in Asks(r) : RequestArrives(r, in) \/ UpgradeArrives(r, in)
Probe(r)    == ProbeSettles(r) \/ ProbeAborted(r) \/ UpgradeEnds(r)
Upstream(r) == UpstreamStarts(r) \/ UpstreamData(r) \/ UpstreamEnds(r) \/ UpstreamFails(r) \/ UpstreamTimer(r)

Next == \/ Session \/ WindowEnds \/ Tick
        \/ \E r \in Requests : Arrival(r) \/ Probe(r) \/ Upstream(r)

Spec == Init /\ [][Next]_vars

(***************************************************************************)
(* Time passes and timers fire; neither a probe nor Chromium has to answer. *)
(***************************************************************************)
Fairness ==
  /\ WF_vars(Tick) /\ WF_vars(WindowEnds)
  /\ \A r \in Requests : WF_vars(ProbeAborted(r)) /\ WF_vars(UpstreamTimer(r))

FairSpec == Spec /\ Fairness
-----------------------------------------------------------------------------
(* Types: every field keeps the range the code gives it.                    *)
Exchange == [pc : {"idle", "probing", "attempt", "upstream", "done"}, kind : {"http", "upgrade"},
             gen : 0 .. MaxGenerations, json : BOOLEAN, left : 0 .. Timeout, body : 0 .. MaxBody,
             status : {"none", "2xx", "4xx", "other"}, answer : Failures \cup {"none", "success"},
             url : {"none", "browser", "page"}, current : BOOLEAN, sound : BOOLEAN]
TypeOK ==
  /\ generation \in [state: {"undefined", "verifying", "ready"}, id: 0 .. MaxGenerations]
  /\ closing \in {"none", "draining", "closed"} /\ active \in Nat
  /\ counts \in [Categories -> 0 .. MaxCount] /\ window \in BOOLEAN /\ unreported \subseteq Requests
  /\ exch \in [Requests -> Exchange]

(* No oracle (spec.md:444): whoever does not present the current capability *)
(* learns nothing, whatever else is wrong with the request and whatever     *)
(* state the proxy, its slots and its generation are in; and Chromium is    *)
(* contacted only for a request every rule of the specification allows.     *)
CheckedFirst ==
  \A r \in Requests :
    /\ exch[r].pc = "done" /\ ~exch[r].current => exch[r].answer = "not_found"
    /\ exch[r].pc \in {"upstream", "attempt"} \/ exch[r].answer = "success"
         => exch[r].current /\ exch[r].sound

(* The slots in use (spec.md:868) are exactly the exchanges in progress, on *)
(* every path out of a request: refused, probed in vain, timed out, broken. *)
SlotsExact == active = Cardinality(HttpSlots) /\ active <= MaxRequests

(* A rejection is reported once its window ends, or at the latest when the  *)
(* proxy closes: whatever is counted has a timer, whatever has no timer is   *)
(* reported, and the counters saturate instead of wrapping to nothing.      *)
RejectionsReported ==
  /\ (unreported # {}) <=> (counts # NoCounts)
  /\ (counts # NoCounts) <=> window
  /\ closing = "closed" => unreported = {}

(* The two kinds of counter the proxy keeps for a request, its slot and its *)
(* rejection, are right on every path out of it.                            *)
CountersExact == SlotsExact /\ RejectionsReported

(* What makes both inductive: an exchange that was let in had passed every   *)
(* check, and keeps knowing it until it is answered.                        *)
Underway ==
  \A r \in Requests :
    /\ exch[r].pc \in {"probing", "attempt", "upstream"} => exch[r].current /\ exch[r].sound
    /\ exch[r].pc = "upstream" => exch[r].kind = "http"
Safe == TypeOK /\ CheckedFirst /\ CountersExact /\ Underway /\ IsFiniteSet(HttpSlots)

(* Every exchange ends within its deadline, although the probe and Chromium *)
(* may hang, and although the generation may change while it waits.         *)
ExchangesEnd == \A r \in Requests : r \in InProgress ~> r \notin InProgress
=============================================================================
