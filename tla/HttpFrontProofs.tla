--------------------------- MODULE HttpFrontProofs ---------------------------
(* Proofs about HttpFront, for any invocations, requests and texts.  First  *)
(* the options, as lemmas about the operators of CliConfig, then the        *)
(* inductive invariant FrontSafe, one lemma for each action.                *)
EXTENDS HttpFront, TLAPS

LEMMA Definitions ==
  /\ {"httpProtocol", "httpEndpoint", "httpSessionMax"} \subseteq DOMAIN cliOptionDefinitions
  /\ cliOptionDefinitions["httpProtocol"] = Choice({"http", "https"}, "http")
  /\ cliOptionDefinitions["httpEndpoint"] = Parsed("path", "/mcp")
  /\ cliOptionDefinitions["httpSessionMax"] = Parsed("positive", "32")
BY DEF cliOptionDefinitions

\* an option that is not refused has a text its parser takes, or its default
LEMMA SettingTaken ==
  ASSUME NEW i, ~Refused(i), NEW name \in DOMAIN cliOptionDefinitions
  PROVE  \/ Accepts(cliOptionDefinitions[name], Setting(i, name))
         \/ Setting(i, name) = cliOptionDefinitions[name].default
BY DEF Refused, TextRefused, Setting

LEMMA ProtocolTaken ==
  ASSUME NEW i, ~Refused(i) PROVE Setting(i, "httpProtocol") \in {"http", "https"}
<1> DEFINE option == cliOptionDefinitions["httpProtocol"]
<1>1. option.kind = "choice" /\ option.values = {"http", "https"} /\ option.default = "http"
  BY Definitions DEF Choice
<1>2. Accepts(option, Setting(i, "httpProtocol")) \/ Setting(i, "httpProtocol") = option.default
  BY Definitions, SettingTaken
<1> QED BY <1>1, <1>2 DEF Accepts

LEMMA EndpointTaken ==
  ASSUME NEW i, ~Refused(i) PROVE Setting(i, "httpEndpoint") \notin ProbePaths
<1> DEFINE option == cliOptionDefinitions["httpEndpoint"]
<1>1. option.kind = "path" /\ option.default = "/mcp"
  BY Definitions DEF Parsed
<1>2. Accepts(option, Setting(i, "httpEndpoint")) \/ Setting(i, "httpEndpoint") = option.default
  BY Definitions, SettingTaken
<1>3. parseHttpEndpoint(Setting(i, "httpEndpoint")) \/ Setting(i, "httpEndpoint") = "/mcp"
  BY <1>1, <1>2 DEF Accepts
<1> QED BY <1>3 DEF parseHttpEndpoint, ProbePaths

LEMMA SessionMaxTaken ==
  ASSUME NEW i, ~Refused(i)
  PROVE  Numeral[Setting(i, "httpSessionMax")] \in Nat /\ Numeral[Setting(i, "httpSessionMax")] > 0
<1> DEFINE option == cliOptionDefinitions["httpSessionMax"]
<1>1. option.kind = "positive" /\ option.default = "32"
  BY Definitions DEF Parsed
<1>2. Accepts(option, Setting(i, "httpSessionMax")) \/ Setting(i, "httpSessionMax") = option.default
  BY Definitions, SettingTaken
<1> QED BY <1>1, <1>2, NumeralAssumption DEF Accepts

LEMMA TlsTaken ==
  ASSUME NEW i, ~Refused(i)
  PROVE  IF Setting(i, "httpProtocol") = "https"
         THEN TlsGiven(i) \ {"httpsPassphrase"} \in {{"httpsPfx"}, {"httpsCert", "httpsKey"}}
         ELSE TlsGiven(i) = {}
<1>1. ~TlsRefused(i)
  BY DEF Refused
<1>2. TlsGiven(i) \subseteq TlsNames
  BY DEF TlsGiven
<1> QED BY <1>1, <1>2, ProtocolTaken DEF TlsRefused, TlsNames

\* the command line's switch before the environment's
LEMMA SwitchTaken ==
  ASSUME NEW name PROVE ResolveSwitch(inv, name) <=> Said(name)
BY DEF ResolveSwitch, Said, Reads

LEMMA CdpTaken ==
  ASSUME ~Refused(inv)
  PROVE  LET bound     == Setting(inv, "cdpHost")
             published == IF Advertised(inv) = Unset THEN bound ELSE Advertised(inv)
         IN  /\ HostKind[bound] # "loopback" => Said("cdpAllowRemote")
             /\ HostKind[published] # "wildcard"
             /\ Said("cdpEnabled") => Setting(inv, "cdpPortRange") # Unset
<1>1. ~CdpRefused(inv)
  BY DEF Refused
<1> QED BY <1>1, SwitchTaken DEF CdpRefused, WildcardRefused, RemoteRefused, KindOf

(* The options the process starts with are what was said, and expose no     *)
(* more (HttpFront.ConfigAsTold).                                           *)
THEOREM OptionsAsTold == Spec => ConfigAsTold
<1> DEFINE cdp  == config'.cdp
           http == config'.http
           Sound ==
             /\ HostKind[cdp.bindHost] # "loopback" => Said("cdpAllowRemote")
             /\ HostKind[IF cdp.advertisedHost = Unset THEN cdp.bindHost ELSE cdp.advertisedHost] # "wildcard"
             /\ cdp.processEnabled = Said("cdpEnabled")
             /\ cdp.processEnabled => cdp.portRange # Unset
             /\ IF http.protocol = "https"
                THEN http.tls \ {"httpsPassphrase"} \in {{"httpsPfx"}, {"httpsCert", "httpsKey"}}
                ELSE http.tls = {}
             /\ http.endpoint \notin ProbePaths /\ http.sessionMax > 0
<1>1. ASSUME [Next]_vars, stage = "invoked", stage' = "starting" PROVE Sound
  <2>1. ReadOptions
    BY <1>1 DEF Next, Start, RunDoctor, RefuseOptions, StartFails, Started, Close, StdioClosed,
       SessionsDisposed, ListenerClosed, Told, Signal, StdinEnds, TimerExpires, Exit, process, vars,
       Serve, Client, ProbeAnswered, Swept, BodyAborted, Initialized, SessionEnds, Receive, BodyChunk,
       BodyEnds, SessionAnswers, ClientLeaves
  <2>2. ~Refused(inv) /\ config' = CliOptions(inv)
    BY <2>1 DEF ReadOptions
  <2>3. /\ cdp.bindHost = Setting(inv, "cdpHost") /\ cdp.advertisedHost = Advertised(inv)
        /\ cdp.processEnabled = ResolveSwitch(inv, "cdpEnabled")
        /\ cdp.portRange = Setting(inv, "cdpPortRange")
    BY <2>2 DEF CliOptions
  <2>4. /\ http.protocol = Setting(inv, "httpProtocol") /\ http.tls = TlsGiven(inv)
        /\ http.endpoint = Setting(inv, "httpEndpoint")
        /\ http.sessionMax = Numeral[Setting(inv, "httpSessionMax")]
    BY <2>2 DEF CliOptions
  <2> HIDE DEF cdp, http
  <2>5. cdp.processEnabled = Said("cdpEnabled")
    <3> DEFINE named == {Switches["cdpEnabled"].on, Switches["cdpEnabled"].off} \cap inv.flags # {}
               listed == Switches["cdpEnabled"].on \in inv.flags
               read   == "cdpEnabled" \in DOMAIN inv.env /\ Reads(inv.env["cdpEnabled"])
    <3>1. Said("cdpEnabled") \in BOOLEAN
      <4>1. Said("cdpEnabled") = IF named THEN listed ELSE read
        BY DEF Said
      <4>2. listed \in BOOLEAN /\ read \in BOOLEAN
        OBVIOUS
      <4> HIDE DEF named, listed, read
      <4> QED BY <4>1, <4>2
    <3>2. ResolveSwitch(inv, "cdpEnabled") \in BOOLEAN
      BY DEF ResolveSwitch
    <3> QED BY <2>3, <3>1, <3>2, SwitchTaken
  <2>6. /\ HostKind[cdp.bindHost] # "loopback" => Said("cdpAllowRemote")
        /\ HostKind[IF cdp.advertisedHost = Unset THEN cdp.bindHost ELSE cdp.advertisedHost] # "wildcard"
        /\ cdp.processEnabled => cdp.portRange # Unset
    BY <2>2, <2>3, <2>5, CdpTaken
  <2>7. IF http.protocol = "https"
        THEN http.tls \ {"httpsPassphrase"} \in {{"httpsPfx"}, {"httpsCert", "httpsKey"}}
        ELSE http.tls = {}
    BY <2>2, <2>4, TlsTaken
  <2>8. http.endpoint \notin ProbePaths /\ http.sessionMax > 0
    BY <2>2, <2>4, EndpointTaken, SessionMaxTaken
  <2> QED BY <2>5, <2>6, <2>7, <2>8
<1>2. [Next]_vars => [(stage = "invoked" /\ stage' = "starting") => Sound]_vars
  BY <1>1
<1> HIDE DEF Sound
<1>3. Spec => [][(stage = "invoked" /\ stage' = "starting") => Sound]_vars
  BY <1>2, PTL DEF Spec
<1> QED BY <1>3 DEF ConfigAsTold, Sound
-----------------------------------------------------------------------------
(* The rules of a request.                                                  *)

LEMMA Numbered == ASSUME NEW ask PROVE Broken(ask) \subseteq 1 .. 8
BY DEF Broken

LEMMA Rules ==
  ASSUME NEW ask
  PROVE  /\ 1 \in Broken(ask) <=> ask.host # "valid" \/ ask.path \notin ProbePaths \cup {config.endpoint}
         /\ 2 \in Broken(ask) <=> ~Authorized(ask)
         /\ 3 \in Broken(ask) <=>
              ask.method \notin (IF ask.path \in ProbePaths THEN {"GET"} ELSE {"GET", "POST", "DELETE"})
         /\ 4 \in Broken(ask) <=> Posts(ask) /\ ~ask.json
         /\ 5 \in Broken(ask) <=> Posts(ask) /\ ask.declared # Absent /\ Numeral[ask.declared] > BodyLimit
         /\ 6 \in Broken(ask) <=> Posts(ask) /\ ask.payload = "not JSON"
         /\ 7 \in Broken(ask) <=> /\ ask.path \notin ProbePaths /\ ask.session = Absent
                                  /\ (Posts(ask) => ask.payload # "initialize")
         /\ 8 \in Broken(ask) <=> Posts(ask) /\ ask.session = Absent /\ MetaRefused(ask.meta)
<1>2. 1 \in Broken(ask) <=> ask.host # "valid" \/ ask.path \notin ProbePaths \cup {config.endpoint}
  BY DEF Broken, Breaks
<1>3. 2 \in Broken(ask) <=> ~Authorized(ask)
  BY DEF Broken, Breaks
<1>4. 3 \in Broken(ask) <=>
        ask.method \notin (IF ask.path \in ProbePaths THEN {"GET"} ELSE {"GET", "POST", "DELETE"})
  BY DEF Broken, Breaks
<1>5. 4 \in Broken(ask) <=> Posts(ask) /\ ~ask.json
  BY DEF Broken, Breaks
<1>6. 5 \in Broken(ask) <=> Posts(ask) /\ ask.declared # Absent /\ Numeral[ask.declared] > BodyLimit
  BY DEF Broken, Breaks
<1>7. 6 \in Broken(ask) <=> Posts(ask) /\ ask.payload = "not JSON"
  BY DEF Broken, Breaks
<1>8. 7 \in Broken(ask) <=> /\ ask.path \notin ProbePaths /\ ask.session = Absent
                            /\ (Posts(ask) => ask.payload # "initialize")
  BY DEF Broken, Breaks
<1>9. 8 \in Broken(ask) <=> Posts(ask) /\ ask.session = Absent /\ MetaRefused(ask.meta)
  BY DEF Broken, Breaks
<1> QED BY <1>2, <1>3, <1>4, <1>5, <1>6, <1>7, <1>8, <1>9

LEMMA Kept ==
  ASSUME NEW ask
  PROVE  /\ KeepsUpTo(ask, 0)
         /\ KeepsUpTo(ask, 1) <=> 1 \notin Broken(ask)
         /\ KeepsUpTo(ask, 2) <=> KeepsUpTo(ask, 1) /\ 2 \notin Broken(ask)
         /\ KeepsUpTo(ask, 3) <=> KeepsUpTo(ask, 2) /\ 3 \notin Broken(ask)
         /\ KeepsUpTo(ask, 4) <=> KeepsUpTo(ask, 3) /\ 4 \notin Broken(ask)
         /\ KeepsUpTo(ask, 5) <=> KeepsUpTo(ask, 4) /\ 5 \notin Broken(ask)
         /\ KeepsUpTo(ask, 6) <=> KeepsUpTo(ask, 5) /\ 6 \notin Broken(ask)
         /\ KeepsUpTo(ask, 7) <=> KeepsUpTo(ask, 6) /\ 7 \notin Broken(ask)
         /\ Broken(ask) = {} <=> KeepsUpTo(ask, 7) /\ 8 \notin Broken(ask)
<1>1. KeepsUpTo(ask, 0)
  BY DEF KeepsUpTo
<1>2. ASSUME NEW n \in 1 .. 8
      PROVE  KeepsUpTo(ask, n) <=> KeepsUpTo(ask, n - 1) /\ n \notin Broken(ask)
  BY DEF KeepsUpTo
<1>3. Broken(ask) = {} <=> KeepsUpTo(ask, 8)
  BY Numbered DEF KeepsUpTo
<1>4. /\ KeepsUpTo(ask, 1) <=> KeepsUpTo(ask, 0) /\ 1 \notin Broken(ask)
      /\ KeepsUpTo(ask, 2) <=> KeepsUpTo(ask, 1) /\ 2 \notin Broken(ask)
      /\ KeepsUpTo(ask, 3) <=> KeepsUpTo(ask, 2) /\ 3 \notin Broken(ask)
      /\ KeepsUpTo(ask, 4) <=> KeepsUpTo(ask, 3) /\ 4 \notin Broken(ask)
  BY <1>2
<1>5. /\ KeepsUpTo(ask, 5) <=> KeepsUpTo(ask, 4) /\ 5 \notin Broken(ask)
      /\ KeepsUpTo(ask, 6) <=> KeepsUpTo(ask, 5) /\ 6 \notin Broken(ask)
      /\ KeepsUpTo(ask, 7) <=> KeepsUpTo(ask, 6) /\ 7 \notin Broken(ask)
      /\ KeepsUpTo(ask, 8) <=> KeepsUpTo(ask, 7) /\ 8 \notin Broken(ask)
  BY <1>2
<1> QED BY <1>1, <1>3, <1>4, <1>5

\* of a request that breaks nothing every answer is right
LEMMA NoRule == ASSUME NEW ask, NEW answer, Broken(ask) = {} PROVE RightAnswer(ask, answer)
BY DEF RightAnswer

LEMMA FirstRule ==
  ASSUME NEW ask, NEW m \in Broken(ask), KeepsUpTo(ask, m - 1)
  PROVE  RightAnswer(ask, Refusals[m])
<1>1. m \in 1 .. 8
  BY Numbered
<1>2. ASSUME NEW n \in Broken(ask), KeepsUpTo(ask, n - 1) PROVE n = m
  <2>1. n \in 1 .. 8
    BY Numbered
  <2>2. ~(n < m) /\ ~(m < n)
    BY <1>1, <1>2, <2>1 DEF KeepsUpTo
  <2> QED BY <1>1, <2>1, <2>2
<1> QED BY <1>2 DEF RightAnswer

\* from the first chunk of the body on
LEMMA BodyAnswer ==
  ASSUME NEW ask, NEW answer \in {"400", "413", "reset"}, KeepsUpTo(ask, 5), ask.method = "POST"
  PROVE  RightAnswer(ask, answer)
BY Numbered DEF RightAnswer, KeepsUpTo

LEMMA RulesKept ==
  ASSUME config' = config, NEW ask, NEW answer
  PROVE  Broken(ask)' = Broken(ask) /\ RightAnswer(ask, answer)' = RightAnswer(ask, answer)
<1>1. Broken(ask)' = Broken(ask)
  BY DEF Broken, Breaks, Authorized
<1> QED BY <1>1 DEF RightAnswer, KeepsUpTo
-----------------------------------------------------------------------------
(* Requests.                                                                *)

\* what a request past a check is depends on the options alone
LEMMA StillAdmitted == ASSUME config' = config, NEW q, Admitted(q) PROVE Admitted(q)'
<1>1. Broken(q.ask)' = Broken(q.ask) /\ RightAnswer(q.ask, q.answer)' = RightAnswer(q.ask, q.answer)
  BY RulesKept
<1>2. KeepsUpTo(q.ask, 5)' = KeepsUpTo(q.ask, 5)
  BY <1>1 DEF KeepsUpTo
<1> QED BY <1>1, <1>2 DEF Admitted, ServesAsTold, Serves, Authorized

\* what a request becomes is all a handler has to be right about
LEMMA RequestMoves ==
  ASSUME FrontSafe, stage # "exited", UNCHANGED <<process, disposing>>,
         NEW r \in Requests, NEW next, Becomes(r, next), Admitted(next),
         next # Idle, req[r].pc # "done",
         req[r] # Idle \/ (Serves /\ stage \in {"running", "closing"}),
         \/ sessions' \subseteq sessions
         \/ /\ sessions' = sessions \cup {r}
            /\ next.pc = "done" /\ next.answer = "200" /\ Broken(next.ask) = {}
  PROVE  FrontSafe'
<1>1. /\ stage' = stage /\ inv' = inv /\ config' = config /\ code' = code /\ handlers' = handlers
      /\ stdinEnded' = stdinEnded /\ closes' = closes /\ responder' = responder /\ disposing' = disposing
  BY DEF process
<1>2. Answers
  <2>1. ServesAsTold /\ stage \notin {"invoked", "starting"}
    BY DEF FrontSafe, Admitted, Silent, Answers
  <2> QED BY <2>1 DEF Answers, ServesAsTold, FrontSafe, TypeOK
<1>3. \A q \in Requests : req'[q] = IF q = r THEN next ELSE req[q]
  BY DEF Becomes, FrontSafe, TypeOK
<1>4. TypeOK'
  <2>1. sessions' \subseteq Requests
    BY DEF FrontSafe, TypeOK
  <2>2. DOMAIN req' = Requests /\ gone' \subseteq Requests
    BY DEF Becomes, FrontSafe, TypeOK
  <2> QED BY <1>1, <2>1, <2>2 DEF FrontSafe, TypeOK
<1>5. CloseCounted'
  BY <1>1 DEF FrontSafe, CloseCounted, Serves
<1>6. Silent'
  BY <1>1, <1>2 DEF FrontSafe, Silent, Answers, Serves, ServesAsTold
<1>7. ASSUME NEW q \in sessions' PROVE Opened(q)'
  <2>1. q \in Requests
    BY <1>7, <1>4 DEF TypeOK
  <2>2. CASE q \in sessions
    <3>1. Opened(q) /\ q # r
      BY <2>2 DEF FrontSafe, Opened
    <3> QED BY <1>1, <1>3, <2>1, <3>1, RulesKept DEF Opened
  <2>3. CASE q \notin sessions
    <3>1. q = r /\ next.pc = "done" /\ next.answer = "200" /\ Broken(next.ask) = {}
      BY <1>7, <2>3
    <3> QED BY <1>1, <1>3, <2>1, <3>1, RulesKept DEF Opened
  <2> QED BY <2>2, <2>3
<1>8. ASSUME NEW q \in Requests PROVE Admitted(req[q])'
  <2>1. Admitted(IF q = r THEN next ELSE req[q])
    BY DEF FrontSafe
  <2>2. ASSUME NEW x, Admitted(x), req'[q] = x PROVE Admitted(req[q])'
    <3>1. Admitted(x)'
      BY <2>2, <1>1, StillAdmitted
    <3> QED BY <2>2, <3>1 DEF Admitted
  <2> QED BY <2>1, <2>2, <1>3
<1>9. ExitCodeTrue'
  BY <1>1, <1>2, <1>4 DEF FrontSafe, ExitCodeTrue, Answers
<1> QED BY <1>4, <1>5, <1>6, <1>7, <1>8, <1>9 DEF FrontSafe

LEMMA DoneAdmitted ==
  ASSUME ServesAsTold, NEW ask, NEW answer, RightAnswer(ask, answer)
  PROVE  /\ Admitted(Done(ask, answer)) /\ Done(ask, answer) # Idle
         /\ Done(ask, answer).pc = "done" /\ Done(ask, answer).answer = answer
         /\ Done(ask, answer).ask = ask
BY DEF Done, Admitted, Idle

LEMMA RouteAdmitted ==
  ASSUME ServesAsTold, NEW ask
  PROVE  Admitted(Route(ask)) /\ Route(ask) # Idle
<1>1. CASE Matches(ask, "/healthz") \/ Matches(ask, "/readyz")
  <2>1. 1 \notin Broken(ask) /\ ask.path \in ProbePaths /\ ask.host = "valid"
    BY <1>1, Rules DEF Matches, ProbePaths
  <2>2. CASE ~Authorized(ask)
    <3>1. 2 \in Broken(ask) /\ KeepsUpTo(ask, 1)
      BY <2>1, <2>2, Rules, Kept DEF Posts
    <3>2. RightAnswer(ask, "401")
      BY <3>1, FirstRule DEF Refusals
    <3> QED BY <1>1, <2>2, <3>2, DoneAdmitted DEF Route
  <2>3. CASE Authorized(ask) /\ ask.method # "GET"
    <3>1. 3 \in Broken(ask) /\ KeepsUpTo(ask, 2)
      BY <2>1, <2>3, Rules, Kept DEF Posts
    <3>2. RightAnswer(ask, "405")
      BY <3>1, FirstRule DEF Refusals
    <3> QED BY <1>1, <2>3, <3>2, DoneAdmitted DEF Route
  <2>4. CASE Authorized(ask) /\ ask.method = "GET" /\ Matches(ask, "/healthz")
    <3>1. Broken(ask) = {}
      BY <2>1, <2>4, Rules, Kept DEF Posts
    <3> QED BY <2>4, <3>1, NoRule, DoneAdmitted DEF Route
  <2>5. CASE Authorized(ask) /\ ask.method = "GET" /\ ~Matches(ask, "/healthz")
    <3>1. Route(ask) = At("probing", ask) /\ ask.path = "/readyz"
      BY <1>1, <2>5 DEF Route, Matches
    <3> QED BY <2>1, <2>5, <3>1 DEF At, Admitted, Idle
  <2> QED BY <2>2, <2>3, <2>4, <2>5
<1>2. CASE ~Matches(ask, "/healthz") /\ ~Matches(ask, "/readyz") /\ ~Matches(ask, config.endpoint)
  <2>1. 1 \in Broken(ask) /\ KeepsUpTo(ask, 0)
    BY <1>2, Rules, Kept DEF Matches, ProbePaths, Posts
  <2>2. RightAnswer(ask, "404")
    BY <2>1, FirstRule DEF Refusals
  <2> QED BY <1>2, <2>2, DoneAdmitted DEF Route
<1>3. CASE ~Matches(ask, "/healthz") /\ ~Matches(ask, "/readyz") /\ Matches(ask, config.endpoint)
  <2>1. ask.host = "valid" /\ ask.path = config.endpoint /\ ask.path \notin ProbePaths
    BY <1>3 DEF Matches, ProbePaths
  <2>2. CASE ~Authorized(ask)
    <3>1. 2 \in Broken(ask) /\ KeepsUpTo(ask, 1)
      BY <2>1, <2>2, Rules, Kept DEF Posts
    <3>2. RightAnswer(ask, "401")
      BY <3>1, FirstRule DEF Refusals
    <3> QED BY <1>3, <2>2, <3>2, DoneAdmitted DEF Route
  <2>3. CASE Authorized(ask)
    <3>1. Route(ask) = At("sweeping", ask)
      BY <1>3, <2>3 DEF Route
    <3> QED BY <2>1, <2>3, <3>1 DEF At, Admitted, Idle
  <2> QED BY <2>2, <2>3
<1> QED BY <1>1, <1>2, <1>3

\* a request of an endpoint that names a session, or none and is refused for it
LEMMA SessionAdmitted ==
  ASSUME ServesAsTold, NEW ask, NEW left,
         IF ask.session = Absent THEN RightAnswer(ask, "400") ELSE Broken(ask) = {}
  PROVE  Admitted(SessionRequest(ask, left)) /\ SessionRequest(ask, left) # Idle
<1>1. CASE ask.session = Absent
  BY <1>1, DoneAdmitted DEF SessionRequest
<1>2. CASE ask.session # Absent /\ ask.session \notin left
  BY <1>2, NoRule, DoneAdmitted DEF SessionRequest
<1>3. CASE ask.session # Absent /\ ask.session \in left
  BY <1>3 DEF SessionRequest, At, Admitted, Idle
<1> QED BY <1>1, <1>2, <1>3

LEMMA PostAdmitted ==
  ASSUME ServesAsTold, NEW ask, Authorized(ask), ask.host = "valid",
         ask.path = config.endpoint, ask.path \notin ProbePaths, ask.method = "POST"
  PROVE  Admitted(PostRequest(ask)) /\ PostRequest(ask) # Idle
<1>1. {1, 2, 3} \cap Broken(ask) = {}
  BY Rules
<1>2. CASE ~ask.json
  <2>1. 4 \in Broken(ask) /\ KeepsUpTo(ask, 3)
    BY <1>1, <1>2, Rules, Kept DEF Posts
  <2>2. RightAnswer(ask, "415")
    BY <2>1, FirstRule DEF Refusals
  <2> QED BY <1>2, <2>2, DoneAdmitted DEF PostRequest
<1>3. CASE ask.json /\ ask.declared # Absent /\ Numeral[ask.declared] > BodyLimit
  <2>1. 5 \in Broken(ask) /\ KeepsUpTo(ask, 4)
    BY <1>1, <1>3, Rules, Kept DEF Posts
  <2>2. RightAnswer(ask, "413")
    BY <2>1, FirstRule DEF Refusals
  <2> QED BY <1>3, <2>2, DoneAdmitted DEF PostRequest
<1>4. CASE ask.json /\ ~(ask.declared # Absent /\ Numeral[ask.declared] > BodyLimit)
  <2> DEFINE next == [pc |-> "body", ask |-> ask, size |-> 0]
  <2>1. PostRequest(ask) = next
    BY <1>4 DEF PostRequest
  <2>2. KeepsUpTo(ask, 5)
    BY <1>1, <1>4, Rules, Kept DEF Posts
  <2>3. 0 \in 0 .. BodyLimit
    BY FrontAssumption
  <2> QED BY <2>1, <2>2, <2>3 DEF Admitted, Idle
<1> QED BY <1>2, <1>3, <1>4

\* a request that asks for a session and breaks no rule but that of its metadata
LEMMA InitializeAdmitted ==
  ASSUME ServesAsTold, NEW r, NEW ask, KeepsUpTo(ask, 7),
         8 \in Broken(ask) <=> MetaRefused(ask.meta)
  PROVE  LET next == InitializeRequest(r, ask) IN Admitted(next) /\ next # Idle
<1>1. CASE MetaRefused(ask.meta)
  <2>1. 8 \in Broken(ask) /\ KeepsUpTo(ask, 8 - 1)
    BY <1>1
  <2>2. RightAnswer(ask, "400")
    BY <2>1, FirstRule DEF Refusals
  <2> QED BY <1>1, <2>2, DoneAdmitted DEF InitializeRequest
<1>2. CASE ~MetaRefused(ask.meta) /\ ~SlotFree(r)
  <2>1. Broken(ask) = {}
    BY <1>2, Kept
  <2> QED BY <1>2, <2>1, NoRule, DoneAdmitted DEF InitializeRequest
<1>3. CASE ~MetaRefused(ask.meta) /\ SlotFree(r)
  <2>1. Broken(ask) = {}
    BY <1>3, Kept
  <2>2. InitializeRequest(r, ask) =
          [ pc |-> "initializing", ask |-> ask,
            options |-> RuntimeOptions(ask.meta, config.defaults),
            cdp |-> CdpEnabled(ask.meta, config.cdp) ]
    BY <1>3 DEF InitializeRequest
  <2> QED BY <1>3, <2>1, <2>2 DEF Admitted, Idle
<1> QED BY <1>1, <1>2, <1>3

LEMMA ReceiveSafe == ASSUME FrontSafe, NEW r \in Requests, Receive(r) PROVE FrontSafe'
<1>1. PICK ask \in Asks[r] : Becomes(r, Route(ask))
  BY DEF Receive
<1>2. ServesAsTold
  BY DEF Receive, FrontSafe, Silent, Answers
<1>3. Admitted(Route(ask)) /\ Route(ask) # Idle
  BY <1>2, RouteAdmitted
<1>4. stage # "exited" /\ Serves /\ stage \in {"running", "closing"} /\ req[r].pc # "done"
  BY DEF Receive, Idle
<1>5. UNCHANGED <<process, disposing>> /\ sessions' \subseteq sessions
  BY DEF Receive
<1> QED BY <1>1, <1>3, <1>4, <1>5, RequestMoves

\* a request that is on its way has been let in
LEMMA OnItsWay ==
  ASSUME FrontSafe, NEW r \in Requests, req[r].pc \notin {"idle", "done"}
  PROVE  ServesAsTold /\ req[r] # Idle /\ req[r].pc # "done" /\ Admitted(req[r])
BY DEF FrontSafe, Admitted, Idle

\* an answer that ends no new session
LEMMA AnswerSafe ==
  ASSUME FrontSafe, stage # "exited", UNCHANGED <<process, disposing>>, sessions' \subseteq sessions,
         NEW r \in Requests, req[r].pc \notin {"idle", "done"},
         NEW answer, Becomes(r, Done(req[r].ask, answer)), RightAnswer(req[r].ask, answer)
  PROVE  FrontSafe'
BY OnItsWay, DoneAdmitted, RequestMoves

LEMMA ProbeAnsweredSafe ==
  ASSUME FrontSafe, stage # "exited", NEW r \in Requests, ProbeAnswered(r) PROVE FrontSafe'
<1>1. PICK answer : Becomes(r, Done(req[r].ask, answer))
  BY DEF ProbeAnswered
<1>2. sessions' \subseteq sessions /\ UNCHANGED <<process, disposing>> /\ req[r].pc = "probing"
  BY DEF ProbeAnswered, Expire
<1>3. Broken(req[r].ask) = {}
  <2>1. /\ req[r].ask.host = "valid" /\ Authorized(req[r].ask)
        /\ req[r].ask.path = "/readyz" /\ req[r].ask.method = "GET"
    BY <1>2, OnItsWay DEF Admitted
  <2> QED BY <2>1, Rules, Kept DEF ProbePaths, Posts
<1> HIDE DEF ProbeAnswered
<1> QED BY <1>1, <1>2, <1>3, NoRule, AnswerSafe

LEMMA SweptSafe ==
  ASSUME FrontSafe, stage # "exited", NEW r \in Requests, Swept(r) PROVE FrontSafe'
<1> DEFINE ask == req[r].ask
<1>1. /\ sessions' \subseteq sessions /\ UNCHANGED <<process, disposing>> /\ req[r].pc = "sweeping"
  BY DEF Swept, Expire
<1>2. /\ ServesAsTold /\ req[r] # Idle /\ req[r].pc # "done"
      /\ Authorized(ask) /\ ask.host = "valid" /\ ask.path = config.endpoint /\ ask.path \notin ProbePaths
  BY <1>1, OnItsWay DEF Admitted
<1>3. PICK left : \/ ask.method = "POST" /\ Becomes(r, PostRequest(ask))
                  \/ ask.method \in {"GET", "DELETE"} /\ Becomes(r, SessionRequest(ask, left))
                  \/ ask.method \notin {"GET", "DELETE", "POST"} /\ Becomes(r, Done(ask, "405"))
  <2>1. PICK expired \in SUBSET sessions :
          Becomes(r, CASE ask.method = "POST"             -> PostRequest(ask)
                       [] ask.method \in {"GET", "DELETE"} -> SessionRequest(ask, sessions \ expired)
                       [] OTHER                            -> Done(ask, "405"))
    BY DEF Swept
  <2> DEFINE left == sessions \ expired
  <2>2. \/ ask.method = "POST" /\ Becomes(r, PostRequest(ask))
        \/ ask.method \in {"GET", "DELETE"} /\ Becomes(r, SessionRequest(ask, left))
        \/ ask.method \notin {"GET", "DELETE", "POST"} /\ Becomes(r, Done(ask, "405"))
    BY <2>1
  <2> QED BY <2>2
<1> HIDE DEF ask
<1>4. CASE ask.method = "POST" /\ Becomes(r, PostRequest(ask))
  <2>1. Admitted(PostRequest(ask)) /\ PostRequest(ask) # Idle
    BY <1>2, <1>4, PostAdmitted
  <2> QED BY <1>1, <1>2, <1>4, <2>1, RequestMoves
<1>5. CASE ask.method \in {"GET", "DELETE"} /\ Becomes(r, SessionRequest(ask, left))
  <2>1. IF ask.session = Absent THEN 7 \in Broken(ask) /\ KeepsUpTo(ask, 6) ELSE Broken(ask) = {}
    BY <1>2, <1>5, Rules, Kept DEF Posts
  <2>2. IF ask.session = Absent THEN RightAnswer(ask, "400") ELSE Broken(ask) = {}
    BY <2>1, FirstRule DEF Refusals
  <2>3. Admitted(SessionRequest(ask, left)) /\ SessionRequest(ask, left) # Idle
    BY <1>2, <2>2, SessionAdmitted
  <2> QED BY <1>1, <1>2, <1>5, <2>3, RequestMoves
<1>6. CASE ask.method \notin {"GET", "DELETE", "POST"} /\ Becomes(r, Done(ask, "405"))
  <2>1. 3 \in Broken(ask) /\ KeepsUpTo(ask, 2)
    BY <1>2, <1>6, Rules, Kept DEF Posts
  <2>2. RightAnswer(ask, "405")
    BY <2>1, FirstRule DEF Refusals
  <2> QED BY <1>1, <1>2, <1>6, <2>2, DoneAdmitted, RequestMoves
<1> QED BY <1>3, <1>4, <1>5, <1>6

LEMMA BodyChunkSafe ==
  ASSUME FrontSafe, stage # "exited", NEW r \in Requests, BodyChunk(r) PROVE FrontSafe'
<1>1. sessions' \subseteq sessions /\ UNCHANGED <<process, disposing>> /\ req[r].pc = "body"
  BY DEF BodyChunk
<1>2. /\ ServesAsTold /\ req[r] # Idle /\ Admitted(req[r]) /\ req[r].pc # "done"
      /\ KeepsUpTo(req[r].ask, 5) /\ req[r].ask.method = "POST"
  BY <1>1, OnItsWay DEF Admitted
<1>3. PICK n \in 1 .. 2 :
        IF req[r].size + n > BodyLimit
        THEN \E answer \in {"413", "reset"} : Becomes(r, Done(req[r].ask, answer))
        ELSE Becomes(r, [req[r] EXCEPT !.size = req[r].size + n])
  BY DEF BodyChunk
<1>4. CASE \E answer \in {"413", "reset"} : Becomes(r, Done(req[r].ask, answer))
  <2>1. PICK answer \in {"400", "413", "reset"} : Becomes(r, Done(req[r].ask, answer))
    BY <1>4
  <2>2. RightAnswer(req[r].ask, answer)
    BY <1>2, BodyAnswer
  <2> QED BY <1>1, <2>1, <2>2, AnswerSafe
<1>5. CASE /\ ~(req[r].size + n > BodyLimit)
           /\ Becomes(r, [req[r] EXCEPT !.size = req[r].size + n])
  <2> DEFINE next == [req[r] EXCEPT !.size = req[r].size + n]
  <2>1. /\ next.pc = "body" /\ next.ask = req[r].ask /\ DOMAIN next = DOMAIN req[r]
        /\ next.size = req[r].size + n
    BY <1>1, <1>2 DEF Admitted
  <2>2. req[r].size + n \in 0 .. BodyLimit
    BY <1>1, <1>2, <1>5, FrontAssumption DEF Admitted
  <2>3. Admitted(next) /\ next # Idle
    BY <1>1, <1>2, <2>1, <2>2 DEF Admitted, Idle
  <2> HIDE DEF next
  <2> QED BY <1>1, <1>2, <1>5, <2>3, RequestMoves DEF next
<1> QED BY <1>3, <1>4, <1>5

LEMMA BodyAbortedSafe ==
  ASSUME FrontSafe, stage # "exited", NEW r \in Requests, BodyAborted(r) PROVE FrontSafe'
<1>1. /\ sessions' \subseteq sessions /\ UNCHANGED <<process, disposing>>
      /\ req[r].pc = "body" /\ Becomes(r, Done(req[r].ask, "400"))
  BY DEF BodyAborted
<1>2. RightAnswer(req[r].ask, "400")
  BY <1>1, OnItsWay, BodyAnswer DEF Admitted
<1> QED BY <1>1, <1>2, AnswerSafe

LEMMA BodyEndsSafe ==
  ASSUME FrontSafe, stage # "exited", NEW r \in Requests, BodyEnds(r) PROVE FrontSafe'
<1> DEFINE ask == req[r].ask
<1>1. /\ sessions' = sessions /\ UNCHANGED <<process, disposing>>
      /\ req[r].pc = "body" /\ req[r].pc # "done"
  BY DEF BodyEnds
<1>2. /\ ServesAsTold /\ req[r] # Idle /\ ask.method = "POST" /\ KeepsUpTo(ask, 5)
      /\ ask.path \notin ProbePaths
  BY <1>1, OnItsWay DEF Admitted
<1>3. \/ Becomes(r, Done(ask, "400"))
      \/ /\ ask.payload # "not JSON" /\ ask.session # Absent
         /\ Becomes(r, SessionRequest(ask, sessions))
      \/ /\ ask.payload = "initialize" /\ ask.session = Absent
         /\ Becomes(r, InitializeRequest(r, ask))
  BY DEF BodyEnds
<1>4. RightAnswer(ask, "400")
  BY <1>2, BodyAnswer
<1> HIDE DEF ask
<1>6. CASE Becomes(r, Done(ask, "400"))
  BY <1>1, <1>2, <1>4, <1>6, DoneAdmitted, RequestMoves
<1>7. CASE /\ ask.payload # "not JSON" /\ ask.session # Absent
           /\ Becomes(r, SessionRequest(ask, sessions))
  <2>1. Broken(ask) = {}
    BY <1>2, <1>7, Rules, Kept DEF Posts
  <2>2. Admitted(SessionRequest(ask, sessions)) /\ SessionRequest(ask, sessions) # Idle
    BY <1>2, <1>7, <2>1, SessionAdmitted
  <2> QED BY <1>1, <1>2, <1>7, <2>2, RequestMoves
<1>8. CASE /\ ask.payload = "initialize" /\ ask.session = Absent
           /\ Becomes(r, InitializeRequest(r, ask))
  <2> DEFINE next == InitializeRequest(r, ask)
  <2>1. KeepsUpTo(ask, 7) /\ (8 \in Broken(ask) <=> MetaRefused(ask.meta))
    BY <1>2, <1>8, Rules, Kept DEF Posts
  <2>2. Admitted(next) /\ next # Idle
    BY <1>2, <2>1, InitializeAdmitted
  <2> HIDE DEF next
  <2> QED BY <1>1, <1>2, <1>8, <2>2, RequestMoves DEF next
<1> QED BY <1>3, <1>6, <1>7, <1>8

LEMMA InitializedSafe ==
  ASSUME FrontSafe, stage # "exited", NEW r \in Requests, Initialized(r) PROVE FrontSafe'
<1>1. /\ UNCHANGED <<process, disposing>> /\ req[r].pc = "initializing"
      /\ \/ sessions' = sessions /\ \E answer : Becomes(r, Done(req[r].ask, answer))
         \/ sessions' = sessions \cup {r} /\ Becomes(r, Done(req[r].ask, "200"))
  BY DEF Initialized
<1>2. ServesAsTold /\ req[r] # Idle /\ Broken(req[r].ask) = {}
  BY <1>1, OnItsWay DEF Admitted
<1>3. CASE sessions' = sessions /\ \E answer : Becomes(r, Done(req[r].ask, answer))
  BY <1>1, <1>2, <1>3, NoRule, AnswerSafe
<1>4. CASE sessions' = sessions \cup {r} /\ Becomes(r, Done(req[r].ask, "200"))
  <2> DEFINE next == Done(req[r].ask, "200")
  <2>1. /\ Admitted(next) /\ next # Idle
        /\ next.pc = "done" /\ next.answer = "200" /\ Broken(next.ask) = {}
    BY <1>2, NoRule, DoneAdmitted
  <2> HIDE DEF next
  <2> QED BY <1>1, <1>2, <1>4, <2>1, RequestMoves DEF next
<1> QED BY <1>1, <1>3, <1>4

LEMMA SessionAnswersSafe ==
  ASSUME FrontSafe, stage # "exited", NEW r \in Requests, SessionAnswers(r) \/ SessionEnds(r)
  PROVE  FrontSafe'
<1>1. Becomes(r, Done(req[r].ask, "200"))
  BY DEF SessionAnswers, SessionEnds
<1>2. sessions' \subseteq sessions /\ UNCHANGED <<process, disposing>> /\ req[r].pc = "session"
  BY DEF SessionAnswers, SessionEnds
<1>3. Broken(req[r].ask) = {}
  BY <1>2, OnItsWay DEF Admitted
<1> QED BY <1>1, <1>2, <1>3, NoRule, AnswerSafe
-----------------------------------------------------------------------------
(* The process.                                                             *)

LEMMA AdmittedKept ==
  ASSUME FrontSafe, config' = config, req' = req, sessions' \subseteq sessions
  PROVE  (\A r \in Requests : Admitted(req[r])') /\ (\A r \in sessions' : Opened(r)')
<1>1. ASSUME NEW r \in Requests PROVE Admitted(req[r])'
  <2>1. Admitted(req[r])
    BY DEF FrontSafe
  <2> DEFINE q == req[r]
  <2>2. q' = q /\ Admitted(q)
    BY <2>1
  <2>3. /\ Broken(q.ask)' = Broken(q.ask) /\ RightAnswer(q.ask, q.answer)' = RightAnswer(q.ask, q.answer)
        /\ KeepsUpTo(q.ask, 5)' = KeepsUpTo(q.ask, 5)
    BY <2>2 DEF Broken, Breaks, Authorized, RightAnswer, KeepsUpTo
  <2> QED BY <2>2, <2>3 DEF Admitted, ServesAsTold, Serves, Authorized
<1>2. ASSUME NEW r \in sessions' PROVE Opened(r)'
  <2>1. Opened(r)
    BY <1>2 DEF FrontSafe
  <2>2. Broken(req[r].ask)' = Broken(req[r].ask)
    BY DEF Broken, Breaks, Authorized
  <2> QED BY <2>1, <2>2 DEF Opened
<1> QED BY <1>1, <1>2

\* before the server listens nothing depends on the options
LEMMA AdmittedIdle ==
  ASSUME \A r \in Requests : req'[r] = Idle PROVE \A r \in Requests : Admitted(req[r])'
BY DEF Admitted, Idle

\* a session is one of a server
LEMMA NoneWithoutServer == ASSUME FrontSafe, ~Serves PROVE sessions = {}
<1>1. ASSUME NEW r \in sessions PROVE FALSE
  <2>1. r \in Requests /\ req[r].pc = "done" /\ Admitted(req[r])
    BY DEF FrontSafe, TypeOK, Opened
  <2> QED BY <2>1 DEF Admitted, Idle, ServesAsTold
<1> QED BY <1>1

LEMMA InitFront == ASSUME Init PROVE FrontSafe
<1>1. TypeOK
  BY DEF Init, TypeOK
<1>2. CloseCounted /\ Silent
  BY FrontAssumption DEF Init, CloseCounted, Silent, Answers
<1>3. \A r \in sessions : Opened(r)
  BY DEF Init
<1>4. \A r \in Requests : Admitted(req[r])
  BY DEF Init, Admitted, Idle
<1>5. ExitCodeTrue
  BY <1>1 DEF Init, ExitCodeTrue
<1> QED BY <1>1, <1>2, <1>3, <1>4, <1>5 DEF FrontSafe

\* the checks of the doctor as the exit code promises them
LEMMA DoctorSound ==
  ASSUME NEW f, DoctorStatus(f) # "error",
         f.node \in Versions, f.engine \in Versions \cup {NoRange}
  PROVE  /\ f.cli = "found" /\ f.binary # "throws" /\ f.bundle \in {"found", "found as .js"}
         /\ f.engine # NoRange => Lexicographic(f.node, f.engine)
<1>1. NodeCheck(f) # "error" /\ CliCheck(f) # "error" /\ RuntimeCheck(f) # "error" /\ BinaryCheck(f) # "error"
  BY DEF DoctorStatus, Checks
<1>2. f.cli = "found" /\ f.binary # "throws" /\ f.bundle \in {"found", "found as .js"}
  BY <1>1 DEF CliCheck, RuntimeCheck, BinaryCheck
<1>3. ASSUME f.engine # NoRange PROVE Lexicographic(f.node, f.engine)
  <2>1. CompareVersions(f.node, f.engine)
    BY <1>1, <1>3 DEF NodeCheck, isNodeVersionSupported
  <2>2. PICK a \in Nat, b \in Nat, c \in Nat : f.node = <<a, b, c>>
    BY DEF Versions
  <2>3. PICK d \in Nat, e \in Nat, g \in Nat : f.engine = <<d, e, g>>
    BY <1>3 DEF Versions
  <2>4. \A i \in 1 .. 3 : <<a, b, c>>[i] < <<d, e, g>>[i] =>
                           \E j \in 1 .. (i - 1) : <<a, b, c>>[j] > <<d, e, g>>[j]
    BY <2>1, <2>2, <2>3 DEF CompareVersions
  <2>5. a >= d
    BY <2>4
  <2>6. b < e => a > d
    BY <2>4
  <2>7. c < g => a > d \/ b > e
    BY <2>4
  <2> QED BY <2>2, <2>3, <2>5, <2>6, <2>7 DEF Lexicographic
<1> QED BY <1>2, <1>3
\* an exit is safe where its code is the truth
LEMMA ExitSafe ==
  ASSUME FrontSafe, NEW c \in {"0", "1", "killed"}, Exit(c),
         UNCHANGED <<inv, config, stdinEnded, closes, sessions, disposing, req, gone>>,
         (c = "0" /\ closes = 1) => disposing = {},
         (c = "0" /\ closes = 0) =>
           /\ inv.command = "doctor" /\ inv.facts.cli = "found" /\ inv.facts.binary # "throws"
           /\ inv.facts.bundle \in {"found", "found as .js"}
           /\ inv.facts.engine # NoRange => Lexicographic(inv.facts.node, inv.facts.engine)
  PROVE  FrontSafe'
<1>1. TypeOK'
  BY DEF Exit, FrontSafe, TypeOK
<1>2. CloseCounted' /\ Silent' /\ ~Answers'
  BY DEF Exit, FrontSafe, CloseCounted, Silent, Answers
<1>3. ExitCodeTrue'
  BY <1>1 DEF Exit, FrontSafe, CloseCounted, ExitCodeTrue
<1> QED BY <1>1, <1>2, <1>3, AdmittedKept DEF FrontSafe

LEMMA RunDoctorSafe == ASSUME FrontSafe, RunDoctor PROVE FrontSafe'
<1> DEFINE c == IF DoctorStatus(inv.facts) = "error" THEN "1" ELSE "0"
<1>1. /\ Exit(c) /\ c \in {"0", "1", "killed"} /\ inv.command = "doctor"
      /\ UNCHANGED <<inv, config, stdinEnded, closes, sessions, disposing, req, gone>>
  BY DEF RunDoctor
<1>2. closes = 0 /\ FactsFound(inv)
  BY DEF RunDoctor, FrontSafe, CloseCounted, Silent
<1>3. c = "0" => DoctorStatus(inv.facts) # "error"
  OBVIOUS
<1> HIDE DEF c
<1>4. c = "0" => /\ inv.facts.cli = "found" /\ inv.facts.binary # "throws"
                 /\ inv.facts.bundle \in {"found", "found as .js"}
                 /\ inv.facts.engine # NoRange => Lexicographic(inv.facts.node, inv.facts.engine)
  BY <1>1, <1>2, <1>3, DoctorSound DEF FactsFound
<1>5. ~(c = "0" /\ closes = 1)
  BY <1>2
<1> QED BY <1>1, <1>4, <1>5, ExitSafe

LEMMA FailedStartSafe == ASSUME FrontSafe, RefuseOptions \/ StartFails PROVE FrontSafe'
<1>1. Exit("1") /\ UNCHANGED <<inv, config, stdinEnded, closes, sessions, disposing, req, gone>>
  BY DEF RefuseOptions, StartFails
<1> QED BY <1>1, ExitSafe

LEMMA ReadOptionsSafe == ASSUME FrontSafe, ReadOptions PROVE FrontSafe'
<1>1. /\ stage = "invoked" /\ stage' = "starting" /\ responder' = TRUE /\ config' = CliOptions(inv)
      /\ UNCHANGED <<inv, code, handlers, stdinEnded, closes, sessions, disposing, req, gone>> /\ ~Refused(inv)
  BY DEF ReadOptions
<1>2. TypeOK'
  BY <1>1 DEF FrontSafe, TypeOK
<1>3. CloseCounted'
  BY <1>1 DEF FrontSafe, CloseCounted
<1>4. \A r \in Requests : req'[r] = Idle
  BY <1>1 DEF FrontSafe, Silent
<1>5. Silent'
  BY <1>1, <1>4 DEF FrontSafe, Silent, Answers
<1>6. \A r \in sessions' : Opened(r)'
  BY <1>1 DEF FrontSafe, Silent
<1>7. ExitCodeTrue'
  BY <1>1, <1>2 DEF FrontSafe, CloseCounted, ExitCodeTrue
<1> QED BY <1>2, <1>3, <1>4, <1>5, <1>6, <1>7, AdmittedIdle DEF FrontSafe

LEMMA StartedSafe == ASSUME FrontSafe, Started PROVE FrontSafe'
<1>1. /\ stage = "starting" /\ config' = Serving
      /\ UNCHANGED <<code, stdinEnded, req, gone>>
      /\ closes = 0 /\ code = "none" /\ disposing = {} /\ sessions = {}
  BY DEF Started, FrontSafe, CloseCounted, Silent
<1>2. /\ sessions' = {} /\ disposing' = {}
      /\ \/ stage' = "running" /\ UNCHANGED <<closes, responder>>
         \/ stage' = "closing" /\ closes' = 1 /\ responder' = FALSE
  BY <1>1 DEF Started, Shutdown, CloseSessions
<1>3. handlers' = Listeners
  BY DEF Started, Shutdown
<1>4. TypeOK'
  <2>1. handlers' \subseteq {"SIGINT", "SIGTERM", "end"}
    BY <1>3 DEF Listeners
  <2>2. closes' \in Nat /\ responder' \in BOOLEAN /\ disposing' \subseteq Requests
    <3>1. closes' \in Nat
      BY <1>1, <1>2 DEF FrontSafe, TypeOK
    <3>2. responder' \in BOOLEAN
      BY <1>1, <1>2 DEF FrontSafe, TypeOK
    <3>3. disposing' \subseteq Requests
      BY <1>1, <1>2 DEF FrontSafe, TypeOK
    <3> QED BY <3>1, <3>2, <3>3
  <2>3. stage' \in {"running", "closing"}
    BY <1>2
  <2>4. sessions' \subseteq Requests
    BY <1>2 DEF FrontSafe, TypeOK
  <2> QED BY <1>1, <2>1, <2>2, <2>3, <2>4 DEF FrontSafe, TypeOK
<1>5. CloseCounted'
  BY <1>1, <1>2 DEF CloseCounted
<1>6. Serves' => ServesAsTold'
  <2>1. ~Serves => Serving.transport # "streamable-http"
    BY DEF Serving, Serves
  <2>2. Serves => /\ Serving.transport = "streamable-http"
                  /\ Serving.defaults.proxy = Absent /\ Serving.defaults.extensionMode = Absent
    BY DEF Serving, Serves, SessionOptions, ProcessOptions
  <2> QED BY <1>1, <2>1, <2>2 DEF ServesAsTold, Serves
<1>7. \A r \in Requests : req'[r] = Idle
  BY <1>1 DEF FrontSafe, Silent
<1>8. Silent'
  BY <1>2, <1>6 DEF Silent, Answers
<1>9. ExitCodeTrue'
  BY <1>1, <1>2, <1>4 DEF FrontSafe, ExitCodeTrue
<1> QED BY <1>2, <1>4, <1>5, <1>7, <1>8, <1>9, AdmittedIdle DEF FrontSafe

LEMMA ShutdownSafe ==
  ASSUME FrontSafe, stage \in {"running", "closing", "draining"},
         NEW left \in SUBSET handlers, Shutdown(left), stdinEnded' \in BOOLEAN,
         UNCHANGED <<inv, config, code, req, gone>>
  PROVE  FrontSafe'
<1>1. \/ /\ closes > 0 /\ UNCHANGED <<stage, closes, responder, sessions, disposing>>
      \/ /\ closes = 0 /\ stage' = "closing" /\ closes' = 1 /\ responder' = FALSE
         /\ disposing' = sessions /\ sessions' = {}
  BY DEF Shutdown, FrontSafe, CloseCounted, CloseSessions
<1>2. TypeOK'
  <2>1. handlers' \subseteq {"SIGINT", "SIGTERM", "end"}
    BY DEF Shutdown, FrontSafe, TypeOK
  <2>2. closes' \in Nat /\ responder' \in BOOLEAN /\ disposing' \subseteq Requests
    <3>1. closes' \in Nat
      BY <1>1 DEF FrontSafe, TypeOK
    <3>2. responder' \in BOOLEAN
      BY <1>1 DEF FrontSafe, TypeOK
    <3>3. disposing' \subseteq Requests
      BY <1>1 DEF FrontSafe, TypeOK
    <3> QED BY <3>1, <3>2, <3>3
  <2>3. stage' \in {"running", "closing", "draining"}
    BY <1>1
  <2>4. sessions' \subseteq Requests
    BY <1>1 DEF FrontSafe, TypeOK
  <2> QED BY <2>1, <2>2, <2>3, <2>4 DEF FrontSafe, TypeOK
<1>3. CloseCounted'
  <2>1. ~Serves => sessions = {}
    BY NoneWithoutServer
  <2> QED BY <1>1, <2>1 DEF FrontSafe, CloseCounted, Serves
<1>4. Answers' => Answers
  BY <1>1 DEF Answers, Serves
<1>5. Silent'
  BY <1>1, <1>4 DEF FrontSafe, Silent, ServesAsTold, Serves
<1>6. ExitCodeTrue'
  <2>1. stage' # "exited" /\ (stage' \in {"closing", "draining"} => ~responder')
    BY <1>1, <1>3 DEF CloseCounted
  <2> QED BY <1>2, <1>3, <2>1 DEF CloseCounted, ExitCodeTrue
<1>7. sessions' \subseteq sessions
  BY <1>1
<1> QED BY <1>2, <1>3, <1>5, <1>6, <1>7, AdmittedKept DEF FrontSafe

LEMMA SignalSafe == ASSUME FrontSafe, NEW s \in {"SIGINT", "SIGTERM"}, Signal(s) PROVE FrontSafe'
<1>1. CASE s \in handlers /\ Shutdown(handlers \ {s}) /\ code' = code
  <2>1. stage \in {"running", "closing", "draining"}
    BY <1>1 DEF Signal, FrontSafe, Silent
  <2>2. stdinEnded' \in BOOLEAN /\ UNCHANGED <<inv, config, code, req, gone>>
    BY <1>1 DEF Signal, FrontSafe, TypeOK
  <2> QED BY <1>1, <2>1, <2>2, ShutdownSafe
<1>2. CASE Exit("killed") /\ UNCHANGED <<closes, sessions, disposing>>
  BY <1>2, ExitSafe DEF Signal
<1> QED BY <1>1, <1>2 DEF Signal
LEMMA StdinEndsSafe == ASSUME FrontSafe, StdinEnds PROVE FrontSafe'
<1>1. /\ stage \in {"starting", "running", "closing"} /\ stdinEnded' = TRUE
      /\ UNCHANGED <<inv, config, code, req, gone>>
  BY DEF StdinEnds
<1>2. CASE "end" \in handlers /\ Shutdown(handlers \ {"end"})
  <2>1. stage \in {"running", "closing", "draining"}
    BY <1>1, <1>2 DEF FrontSafe, Silent
  <2> QED BY <1>1, <1>2, <2>1, ShutdownSafe
<1>3. CASE UNCHANGED <<stage, handlers, closes, responder, sessions, disposing>>
  <2>1. TypeOK' /\ CloseCounted'
    BY <1>1, <1>3 DEF FrontSafe, TypeOK, CloseCounted, Serves
  <2>2. Silent'
    BY <1>1, <1>3 DEF FrontSafe, Silent, Answers, ServesAsTold, Serves
  <2>3. ExitCodeTrue'
    BY <1>1, <1>3, <2>1 DEF FrontSafe, ExitCodeTrue
  <2> QED BY <1>1, <1>3, <2>1, <2>2, <2>3, AdmittedKept DEF FrontSafe
<1> QED BY <1>2, <1>3 DEF StdinEnds

\* the stdio bridge has no sessions to leave behind
LEMMA StdioClosedSafe == ASSUME FrontSafe, StdioClosed PROVE FrontSafe'
<1>1. PICK c \in {"0", "1"} : Exit(c)
  BY DEF StdioClosed
<1>2. /\ UNCHANGED <<inv, config, stdinEnded, closes, sessions, disposing, req, gone>>
      /\ closes = 1 /\ disposing = {}
  BY DEF StdioClosed, FrontSafe, CloseCounted
<1> QED BY <1>1, <1>2, ExitSafe

LEMMA SessionsDisposedSafe == ASSUME FrontSafe, SessionsDisposed PROVE FrontSafe'
<1>1. /\ stage = "closing" /\ stage' = "draining" /\ sessions' \subseteq sessions /\ disposing' = {}
      /\ UNCHANGED <<inv, config, code, handlers, stdinEnded, closes, responder, req, gone>>
  BY DEF SessionsDisposed
<1>2. TypeOK' /\ CloseCounted'
  BY <1>1 DEF FrontSafe, TypeOK, CloseCounted
<1>3. Answers' => Answers
  BY <1>1 DEF Answers, Serves
<1>4. Silent'
  BY <1>1, <1>3 DEF FrontSafe, Silent, ServesAsTold, Serves
<1>5. ExitCodeTrue'
  BY <1>1, <1>2 DEF FrontSafe, ExitCodeTrue
<1> QED BY <1>1, <1>2, <1>4, <1>5, AdmittedKept DEF FrontSafe

LEMMA ListenerClosedSafe == ASSUME FrontSafe, ListenerClosed PROVE FrontSafe'
<1>1. /\ Exit("0") /\ UNCHANGED <<inv, config, stdinEnded, closes, sessions, disposing, req, gone>>
      /\ closes = 1 /\ disposing = {}
  BY DEF ListenerClosed, FrontSafe, CloseCounted
<1> QED BY <1>1, ExitSafe

LEMMA TimerExpiresSafe == ASSUME FrontSafe, TimerExpires PROVE FrontSafe'
<1>1. stage = "running" /\ sessions' \subseteq sessions /\ UNCHANGED <<process, disposing, req, gone>>
  BY DEF TimerExpires, Expire
<1>2. TypeOK' /\ CloseCounted'
  BY <1>1 DEF process, FrontSafe, TypeOK, CloseCounted, Serves
<1>3. Answers' <=> Answers
  BY <1>1 DEF process, Answers, Serves
<1>4. Silent'
  BY <1>1, <1>3 DEF process, FrontSafe, Silent, ServesAsTold, Serves
<1>5. ExitCodeTrue'
  BY <1>1, <1>2 DEF process, FrontSafe, ExitCodeTrue
<1>6. (\A r \in Requests : Admitted(req[r])') /\ (\A r \in sessions' : Opened(r)')
  BY <1>1, AdmittedKept DEF process
<1> QED BY <1>2, <1>4, <1>5, <1>6 DEF FrontSafe

\* a client that leaves changes nothing but what holds the listener open
LEMMA ClientLeavesSafe == ASSUME FrontSafe, NEW r \in Requests, ClientLeaves(r) PROVE FrontSafe'
<1>1. UNCHANGED <<process, sessions, disposing, req>> /\ gone' \subseteq Requests
  BY DEF ClientLeaves, FrontSafe, TypeOK
<1>2. TypeOK' /\ CloseCounted'
  BY <1>1 DEF process, FrontSafe, TypeOK, CloseCounted, Serves
<1>3. Answers' <=> Answers
  BY <1>1 DEF process, Answers, Serves
<1>4. Silent'
  BY <1>1, <1>3 DEF process, FrontSafe, Silent, ServesAsTold, Serves
<1>5. ExitCodeTrue'
  BY <1>1, <1>2 DEF process, FrontSafe, ExitCodeTrue
<1>6. (\A q \in Requests : Admitted(req[q])') /\ (\A q \in sessions' : Opened(q)')
  BY <1>1, AdmittedKept DEF process
<1> QED BY <1>2, <1>4, <1>5, <1>6 DEF FrontSafe

LEMMA StutterSafe == ASSUME FrontSafe, UNCHANGED vars PROVE FrontSafe'
<1>1. UNCHANGED <<process, sessions, disposing, req, gone>>
  BY DEF vars
<1>2. TypeOK' /\ CloseCounted'
  BY <1>1 DEF process, FrontSafe, TypeOK, CloseCounted, Serves
<1>3. Answers' <=> Answers
  BY <1>1 DEF process, Answers, Serves
<1>4. Silent'
  BY <1>1, <1>3 DEF process, FrontSafe, Silent, ServesAsTold, Serves
<1>5. ExitCodeTrue'
  BY <1>1, <1>2 DEF process, FrontSafe, ExitCodeTrue
<1>6. (\A r \in Requests : Admitted(req[r])') /\ (\A r \in sessions' : Opened(r)')
  BY <1>1, AdmittedKept DEF process
<1> QED BY <1>2, <1>4, <1>5, <1>6 DEF FrontSafe

LEMMA NextFront == ASSUME FrontSafe, [Next]_vars PROVE FrontSafe'
<1>1. CASE Start
  BY <1>1, RunDoctorSafe, FailedStartSafe, ReadOptionsSafe, StartedSafe DEF Start
<1>2. CASE Close
  BY <1>2, StdioClosedSafe, SessionsDisposedSafe, ListenerClosedSafe DEF Close
<1>3. CASE Told
  BY <1>3, SignalSafe, StdinEndsSafe DEF Told
<1>4. CASE TimerExpires
  BY <1>4, TimerExpiresSafe
<1>5. ASSUME stage # "exited", NEW r \in Requests, Serve(r) PROVE FrontSafe'
  BY <1>5, ProbeAnsweredSafe, SweptSafe, BodyAbortedSafe, InitializedSafe, SessionAnswersSafe DEF Serve
<1>6. ASSUME stage # "exited", NEW r \in Requests, Client(r) PROVE FrontSafe'
  BY <1>6, ReceiveSafe, BodyChunkSafe, BodyEndsSafe, SessionAnswersSafe, ClientLeavesSafe DEF Client
<1>7. CASE UNCHANGED vars
  BY <1>7, StutterSafe
<1> QED BY <1>1, <1>2, <1>3, <1>4, <1>5, <1>6, <1>7 DEF Next

(* The inductive invariant of the process and its requests.                 *)
THEOREM FrontInvariant == Spec => []FrontSafe
<1>1. Init => FrontSafe
  BY InitFront
<1>2. FrontSafe /\ [Next]_vars => FrontSafe'
  BY NextFront
<1> QED BY <1>1, <1>2, PTL DEF Spec

(* The exit code tells the truth about the end of the process and about the *)
(* doctor (HttpFront.ExitCodeTrue).                                         *)
THEOREM ExitCodeAlwaysTrue == Spec => []ExitCodeTrue
<1>1. FrontSafe => ExitCodeTrue
  BY DEF FrontSafe
<1> QED BY <1>1, FrontInvariant, PTL

(* Every answer is the one to the first rule its request breaks, and no     *)
(* slot, bridge or session is given to a request that breaks one, whatever  *)
(* sweeps, chunks and other requests come between the checks                *)
(* (HttpFront.GatesFirst).                                                  *)
THEOREM GatesComeFirst == Spec => []GatesFirst
<1>1. ASSUME FrontSafe, NEW r \in Requests
      PROVE  LET q == req[r] IN
             /\ q.pc \in {"probing", "sweeping"} => KeepsUpTo(q.ask, 2)
             /\ q.pc = "body" => KeepsUpTo(q.ask, 5) /\ q.size <= BodyLimit
             /\ q.pc \in {"session", "initializing"} => Broken(q.ask) = {}
             /\ r \in sessions => q.pc = "done" /\ q.answer = "200" /\ Broken(q.ask) = {}
             /\ q.pc = "done" => RightAnswer(q.ask, q.answer)
  <2> DEFINE q == req[r]
  <2>1. Admitted(q)
    BY <1>1 DEF FrontSafe
  <2>2. r \in sessions => q.pc = "done" /\ q.answer = "200" /\ Broken(q.ask) = {}
    BY <1>1 DEF FrontSafe, Opened
  <2>3. q.pc \in {"probing", "sweeping"} => KeepsUpTo(q.ask, 2)
    <3>1. q.pc \in {"probing", "sweeping"} =>
            q.ask.host = "valid" /\ Authorized(q.ask) /\ q.ask.path \in ProbePaths \cup {config.endpoint}
      BY <2>1 DEF Admitted, ProbePaths
    <3> QED BY <3>1, Rules, Kept DEF Posts
  <2>4. q.pc = "body" => q.size <= BodyLimit
    BY <2>1, FrontAssumption DEF Admitted
  <2> QED BY <2>1, <2>2, <2>3, <2>4 DEF Admitted
<1>2. FrontSafe => GatesFirst
  BY <1>1 DEF GatesFirst
<1> QED BY <1>2, FrontInvariant, PTL

(* A session is given what its client sent and otherwise what the process   *)
(* was told (HttpFront.HandedAsTold).                                       *)
THEOREM SessionsAsTold == Spec => []HandedAsTold
<1>1. ASSUME FrontSafe, NEW r \in Requests, req[r].pc = "initializing"
      PROVE  LET keys == req[r].ask.meta.keys
                 given == req[r].options
             IN  /\ \A k \in SessionOptions \ {"proxy"} :
                      given[k] = IF k \in DOMAIN keys THEN keys[k] ELSE config.defaults[k]
                 /\ \A k \in DOMAIN keys \cap DOMAIN MetaAccepts : keys[k] \in MetaAccepts[k]
                 /\ "extensionToken" \notin DOMAIN keys
                 /\ given.proxy = Absent <=> "proxyServer" \notin DOMAIN keys
                 /\ given.binaryPath = config.defaults.binaryPath
                 /\ given.releaseChannel = config.defaults.releaseChannel
                 /\ given.browserIsolated = "false"
                      <=> "extensionMode" \in DOMAIN keys /\ keys["extensionMode"] = "true"
                 /\ req[r].cdp <=> IF "cdpEnabled" \in DOMAIN keys THEN keys["cdpEnabled"] = "true"
                                  ELSE config.cdp
  <2> DEFINE meta == req[r].ask.meta
             keys == meta.keys
             given == req[r].options
             Of(k) == PreferSessionOption(SessionOption(meta, k), config.defaults[k])
  <2>1. /\ ~MetaRefused(meta) /\ given = RuntimeOptions(meta, config.defaults)
        /\ req[r].cdp = CdpEnabled(meta, config.cdp)
        /\ config.defaults.proxy = Absent /\ config.defaults.extensionMode = Absent
    BY <1>1 DEF FrontSafe, Admitted, Idle, ServesAsTold
  <2>2. /\ "extensionToken" \notin DOMAIN keys
        /\ \A k \in DOMAIN keys \cap DOMAIN MetaAccepts : keys[k] \in MetaAccepts[k]
    BY <2>1 DEF MetaRefused
  <2>3. \A k \in DOMAIN MetaAccepts : Absent \notin MetaAccepts[k]
    <3>1. DOMAIN MetaAccepts =
            { "cdpEnabled", "extensionMode", "geoipProxyMatch", "headless", "humanize", "humanPreset",
              "userDataDir", "profileDirName", "proxyServer", "proxyBypass", "extensionPaths",
              "contextOptions" }
      BY DEF MetaAccepts
    <3>2. /\ \A k \in {"cdpEnabled", "extensionMode", "geoipProxyMatch", "headless", "humanize"} :
               MetaAccepts[k] = Booleans
          /\ \A k \in {"userDataDir", "profileDirName", "proxyServer", "proxyBypass"} :
               MetaAccepts[k] = {"text"}
          /\ MetaAccepts["humanPreset"] = {"default", "careful"}
          /\ MetaAccepts["extensionPaths"] = {"texts", "empty array"}
          /\ MetaAccepts["contextOptions"] = {"options"}
      BY DEF MetaAccepts
    <3>3. /\ Absent \notin Booleans /\ Absent \notin {"text"} /\ Absent \notin {"default", "careful"}
          /\ Absent \notin {"texts", "empty array"} /\ Absent \notin {"options"}
      BY DEF Absent, Booleans
    <3> QED BY <3>1, <3>2, <3>3
  <2>4. \A k \in (SessionOptions \ {"proxy"}) \cup {"cdpEnabled"} : k \in DOMAIN keys => keys[k] # Absent
    <3>1. (SessionOptions \ {"proxy"}) \cup {"cdpEnabled"} \subseteq DOMAIN MetaAccepts
      BY DEF SessionOptions, MetaAccepts
    <3> QED BY <2>2, <2>3, <3>1
  <2>5. /\ \A k \in SessionOptions : given[k] = Of(k)
        /\ given.binaryPath = config.defaults.binaryPath
        /\ given.releaseChannel = config.defaults.releaseChannel
        /\ given.browserIsolated = IF Of("extensionMode") = "true" THEN "false" ELSE "true"
    BY <2>1 DEF RuntimeOptions, SessionOptions, ProcessOptions
  <2>6. ASSUME NEW k \in SessionOptions \ {"proxy"}
        PROVE  Of(k) = IF k \in DOMAIN keys THEN keys[k] ELSE config.defaults[k]
    BY <2>4 DEF PreferSessionOption, SessionOption
  <2>7. given.proxy = Absent <=> "proxyServer" \notin DOMAIN keys
    <3>1. given.proxy = Of("proxy")
      BY <2>5 DEF SessionOptions
    <3> QED BY <2>1, <3>1 DEF PreferSessionOption, SessionOption, Absent
  <2>8. given.browserIsolated = "false"
          <=> "extensionMode" \in DOMAIN keys /\ keys["extensionMode"] = "true"
    <3>1. Of("extensionMode") = IF "extensionMode" \in DOMAIN keys THEN keys["extensionMode"] ELSE Absent
      BY <2>1, <2>6 DEF SessionOptions
    <3> QED BY <2>5, <3>1 DEF Absent
  <2>9. req[r].cdp <=> IF "cdpEnabled" \in DOMAIN keys THEN keys["cdpEnabled"] = "true" ELSE config.cdp
    BY <2>1, <2>4 DEF CdpEnabled, SessionOption
  <2>10. \A k \in SessionOptions \ {"proxy"} :
           given[k] = IF k \in DOMAIN keys THEN keys[k] ELSE config.defaults[k]
    BY <2>5, <2>6
  <2> HIDE DEF Of
  <2> QED BY <2>2, <2>5, <2>7, <2>8, <2>9, <2>10
<1>2. FrontSafe => HandedAsTold
  BY <1>1 DEF HandedAsTold
<1> QED BY <1>2, FrontInvariant, PTL
=============================================================================
