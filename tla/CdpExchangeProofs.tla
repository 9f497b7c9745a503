------------------------- MODULE CdpExchangeProofs -------------------------
(* Proofs about CdpExchange, for any requests, inputs, limits and number of *)
(* generations.                                                             *)
EXTENDS CdpExchange, FiniteSetTheorems, TLAPS

-----------------------------------------------------------------------------
(* What it takes to be let in.                                              *)

LEMMA AuthorityAllowed ==
  ASSUME NEW scheme \in {"http", "https"}, NEW a \in Authorities, Canonical(a),
         SameAuthority(scheme, a)
  PROVE  AllowedAuthority(scheme, a)
  BY DEF Canonical, SameAuthority, EffectivePort, AllowedAuthority, NoPort, Authorities

LEMMA HostAllowed ==
  ASSUME NEW in \in Input, HostPolicy(in) = "accepted"
  PROVE  \E h \in {in.hosts[i] : i \in 1 .. Len(in.hosts)} :
           in.hosts = <<h>> /\ AllowedAuthority(Advertised.scheme, h)
<1>1. /\ Len(in.hosts) = 1 /\ Canonical(in.hosts[1])
      /\ SameAuthority(Advertised.scheme, in.hosts[1])
  BY DEF HostPolicy
<1>2. in.hosts \in Seq(Authorities)
  BY DEF Input
<1>3. in.hosts[1] \in Authorities /\ in.hosts = <<in.hosts[1]>>
  BY <1>1, <1>2
<1>4. AllowedAuthority(Advertised.scheme, in.hosts[1])
  BY <1>1, <1>3, AuthorityAllowed, AdvertisedAssumption
<1> QED BY <1>1, <1>3, <1>4

LEMMA OriginAllowed ==
  ASSUME NEW in \in Input, OriginPolicy(in) = "accepted"
  PROVE  \A i \in 1 .. Len(in.origins) :
           Len(in.origins) = 1 /\ AllowedAuthority(in.origins[i].scheme, in.origins[i])
<1>1. in.origins \in Seq(Authorities)
  BY DEF Input
<1>2. SUFFICES ASSUME NEW i \in 1 .. Len(in.origins)
               PROVE  Len(in.origins) = 1 /\ AllowedAuthority(in.origins[i].scheme, in.origins[i])
  OBVIOUS
<1>3. in.origins # <<>>
  BY <1>1, <1>2
<1>4. /\ Len(in.origins) = 1 /\ ParsesAsOrigin(in.origins[1])
      /\ SameAuthority(in.origins[1].scheme, in.origins[1])
  BY <1>3 DEF OriginPolicy
<1>5. i = 1 /\ in.origins[1] \in Authorities
  BY <1>1, <1>2, <1>4
<1> QED BY <1>4, <1>5, AuthorityAllowed DEF ParsesAsOrigin

LEMMA AuthoritySound ==
  ASSUME NEW in \in Input, AuthorityPolicy(in) = "accepted"
  PROVE  HostPolicy(in) = "accepted" /\ OriginPolicy(in) = "accepted"
  BY DEF AuthorityPolicy

LEMMA BodySound ==
  ASSUME NEW in \in Input, BodyPolicy(in) = "accepted"
  PROVE  in.lengths \in {<<>>, <<"zero">>} /\ ~in.transferEncoding
<1>1. in.lengths \in Seq({"zero", "some", "malformed"})
  BY DEF Input
<1>2. ~in.transferEncoding
  BY DEF BodyPolicy
<1>3. CASE in.lengths = <<>>
  BY <1>2, <1>3
<1>4. CASE in.lengths # <<>>
  <2>1. Len(in.lengths) = 1 /\ in.lengths[1] = "zero"
    BY <1>2, <1>4 DEF BodyPolicy
  <2> QED BY <1>1, <1>2, <2>1
<1> QED BY <1>3, <1>4

LEMMA RouteRange ==
  ASSUME NEW in \in Input, NEW expected
  PROVE  Route(in, expected) \in {"not_found", "bad_request", "route"}
  BY DEF Route

LEMMA LocalSound ==
  ASSUME NEW in \in Input, NEW expected, LocalAnswer(in, expected) = "accepted"
  PROVE  /\ Route(in, expected) = "route" /\ in.method = Method(in.path)
         /\ BodyPolicy(in) = "accepted" /\ ~in.headersOver
<1>1. Route(in, expected) = "route"
  BY RouteRange DEF LocalAnswer
<1>2. in.method = Method(in.path)
  BY <1>1 DEF LocalAnswer
<1>3. BodyPolicy(in) = "accepted"
  BY <1>1, <1>2 DEF LocalAnswer
<1> QED BY <1>1, <1>2, <1>3 DEF LocalAnswer

LEMMA RouteSound ==
  ASSUME NEW in \in Input, NEW expected, Route(in, expected) = "route"
  PROVE  /\ in.prefixed /\ Matches(expected, in.presented)
         /\ in.path \in {"version", "list", "protocol", "new", "activate", "close"}
         /\ in.query = "none" \/ (in.path = "new" /\ in.query = "valid")
         /\ in.path \in {"activate", "close"} => in.target
<1>1. in.prefixed /\ Matches(expected, in.presented)
  BY DEF Route, Input
<1>2. CASE in.path \in StaticRoutes
  <2>1. ~BadStatic(in)
    BY <1>1, <1>2 DEF Route
  <2> QED BY <1>1, <1>2, <2>1 DEF BadStatic, StaticRoutes, Input
<1>3. CASE in.path \notin StaticRoutes
  <2>1. in.path \in TargetRoutes /\ ~BadTarget(in)
    BY <1>1, <1>3 DEF Route
  <2> QED BY <1>1, <2>1 DEF BadTarget, TargetRoutes
<1> QED BY <1>2, <1>3

(* A request is let in only if every rule allows it, and only with the      *)
(* capability of the current generation.                                    *)
LEMMA RequestLetIn ==
  ASSUME active \in Nat, NEW in \in Input, in.kind = "http", RequestAnswer(in) = "accepted"
  PROVE  /\ Arrived(in).current /\ Arrived(in).sound /\ active < MaxRequests
<1>1. /\ ~Undefined /\ LocalAnswer(in, Expects) = "accepted" /\ ~(active >= MaxRequests)
      /\ AuthorityPolicy(in) = "accepted"
  BY DEF RequestAnswer
<1>2. Matches(generation.id, in.presented)
  BY <1>1, LocalSound, RouteSound DEF Expects
<1>3. Sound(in)
  <2>1. Route(in, Expects) = "route" /\ in.method = Method(in.path) /\ ~in.headersOver
    BY <1>1, LocalSound
  <2>2. in.lengths \in {<<>>, <<"zero">>} /\ ~in.transferEncoding
    BY <1>1, LocalSound, BodySound
  <2>3. <<in.path, in.method>> \in ({"version", "list", "protocol", "activate", "close"} \X {"GET"})
                                     \cup {<<"new", "PUT">>}
    BY <2>1, RouteSound DEF Method
  <2> QED BY <1>1, <2>1, <2>2, <2>3, RouteSound, HostAllowed, OriginAllowed, AuthoritySound DEF Sound
<1>4. Arrived(in).current /\ Arrived(in).sound
  BY <1>1, <1>2, <1>3 DEF Arrived, Fresh
<1>5. active < MaxRequests
  BY <1>1, ExchangeAssumption
<1> QED BY <1>4, <1>5

LEMMA UpgradeLetIn ==
  ASSUME NEW in \in Input, in.kind = "upgrade", UpgradeVerdict(in) = "accepted"
  PROVE  Arrived(in).current /\ Arrived(in).sound
<1> DEFINE route == UpgradeRoute(in, UpgradeExpects)
<1>1. /\ generation.state = "ready" /\ route \in {"not_found", "bad_request", "route"}
      /\ UpgradeAnswer(in, UpgradeExpects, UpgradeFull) = "accepted"
  BY DEF UpgradeVerdict, UpgradeRoute
<1>2. route = "route" /\ AuthorityPolicy(in) = "accepted" /\ ValidHandshake(in)
  BY <1>1 DEF UpgradeAnswer
<1>3. /\ in.prefixed /\ Matches(generation.id, in.presented)
      /\ in.path = "devtools" /\ in.query = "none" /\ in.target
  BY <1>1, <1>2 DEF UpgradeRoute, UpgradeExpects, Input
<1>4. in.method = "GET" /\ in.key
  BY <1>2 DEF ValidHandshake
<1>5. Sound(in)
  BY <1>2, <1>3, <1>4, HostAllowed, OriginAllowed, AuthoritySound DEF Sound
<1> QED BY <1>1, <1>3, <1>5 DEF Arrived, Fresh, Undefined

(* Whoever does not present the capability of the current generation is     *)
(* told "not found", whatever else is wrong.                                *)
LEMMA RequestUnknown ==
  ASSUME NEW in \in Input, ~Arrived(in).current
  PROVE  RequestAnswer(in) = "not_found"
<1>1. Undefined \/ ~Matches(generation.id, in.presented)
  BY DEF Arrived, Fresh
<1>2. CASE Undefined
  BY <1>2 DEF RequestAnswer
<1>3. CASE ~Undefined /\ ~Matches(generation.id, in.presented)
  <2>1. Route(in, Expects) = "not_found"
    BY <1>3 DEF Route, Expects
  <2> QED BY <1>3, <2>1 DEF RequestAnswer, LocalAnswer
<1> QED BY <1>1, <1>2, <1>3

LEMMA UpgradeUnknown ==
  ASSUME NEW in \in Input, ~Arrived(in).current
  PROVE  UpgradeVerdict(in) = "not_found"
<1>1. Undefined \/ ~Matches(generation.id, in.presented)
  BY DEF Arrived, Fresh
<1>2. CASE generation.state # "ready"
  BY <1>2 DEF UpgradeVerdict
<1>3. CASE generation.state = "ready"
  <2>1. UpgradeRoute(in, UpgradeExpects) = "not_found"
    BY <1>1, <1>3 DEF UpgradeRoute, UpgradeExpects, Undefined
  <2> QED BY <1>3, <2>1 DEF UpgradeVerdict, UpgradeAnswer
<1> QED BY <1>2, <1>3

LEMMA Answers ==
  ASSUME NEW in \in Input
  PROVE  {RequestAnswer(in), UpgradeVerdict(in)} \subseteq Failures \cup {"accepted"}
<1>1. BodyPolicy(in) \in Failures \cup {"accepted"}
  BY DEF BodyPolicy, Failures
<1>2. LocalAnswer(in, Expects) \in Failures \cup {"accepted"}
  BY <1>1, RouteRange DEF LocalAnswer, Failures
<1>3. AuthorityPolicy(in) \in Failures \cup {"accepted"}
  BY DEF AuthorityPolicy, HostPolicy, OriginPolicy, Failures
<1>4. RequestAnswer(in) \in Failures \cup {"accepted"}
  BY <1>2, <1>3 DEF RequestAnswer, Failures
<1>5. UpgradeVerdict(in) \in Failures \cup {"accepted"}
  BY <1>3 DEF UpgradeVerdict, UpgradeAnswer, UpgradeRoute, Failures
<1> QED BY <1>4, <1>5

-----------------------------------------------------------------------------
(* The counters.                                                            *)

LEMMA RecordKeeps ==
  ASSUME TypeOK, RejectionsReported, NEW r \in Requests, NEW S \in SUBSET Categories, Record(r, S),
         UNCHANGED closing
  PROVE  /\ RejectionsReported' /\ counts' \in [Categories -> 0 .. MaxCount]
         /\ window' \in BOOLEAN /\ unreported' \subseteq Requests
<1>1. CASE S = {} \/ closing = "closed"
  BY <1>1 DEF Record, RejectionsReported, TypeOK, NoCounts
<1>2. CASE S # {} /\ closing # "closed"
  <2>1. /\ counts' = [c \in Categories |-> IF c \in S THEN Saturated(counts[c]) ELSE counts[c]]
        /\ window' = TRUE /\ unreported' = unreported \cup {r}
    BY <1>2 DEF Record
  <2>2. \A n \in 0 .. MaxCount : Saturated(n) \in 1 .. MaxCount
    BY ExchangeAssumption DEF Saturated
  <2>3. counts' \in [Categories -> 0 .. MaxCount]
    BY <2>1, <2>2, ExchangeAssumption DEF TypeOK
  <2>4. PICK c \in S : TRUE
    BY <1>2
  <2>5. counts'[c] \in 1 .. MaxCount
    BY <2>1, <2>2, <2>4 DEF TypeOK
  <2>6. counts' # NoCounts
    BY <2>4, <2>5 DEF NoCounts
  <2>7. RejectionsReported'
    BY <1>2, <2>1, <2>6 DEF RejectionsReported, NoCounts
  <2> QED BY <2>1, <2>3, <2>7 DEF TypeOK
<1> QED BY <1>1, <1>2

LEMMA FlushKeeps ==
  ASSUME TypeOK, Flush
  PROVE  /\ RejectionsReported' /\ counts' \in [Categories -> 0 .. MaxCount]
         /\ window' \in BOOLEAN /\ unreported' \subseteq Requests
<1>1. counts' = NoCounts /\ window' = FALSE /\ unreported' = {}
  BY DEF Flush
<1>2. NoCounts' = NoCounts /\ NoCounts \in [Categories -> 0 .. MaxCount]
  BY ExchangeAssumption DEF NoCounts
<1>3. RejectionsReported'
  BY <1>1, <1>2 DEF RejectionsReported
<1> QED BY <1>1, <1>2, <1>3

(* The slots, when an exchange takes one, gives it back, or neither.        *)
LEMMA SlotTaken ==
  ASSUME TypeOK, SlotsExact, IsFiniteSet(HttpSlots), NEW r \in Requests \ HttpSlots,
         HttpSlots' = HttpSlots \cup {r}, active < MaxRequests, active' = active + 1
  PROVE  SlotsExact' /\ IsFiniteSet(HttpSlots')
  BY FS_AddElement, ExchangeAssumption DEF SlotsExact, TypeOK

LEMMA SlotReturned ==
  ASSUME TypeOK, SlotsExact, IsFiniteSet(HttpSlots), NEW r \in HttpSlots,
         HttpSlots' = HttpSlots \ {r}, active' = active - 1
  PROVE  SlotsExact' /\ IsFiniteSet(HttpSlots') /\ active' \in Nat
<1>1. Cardinality(HttpSlots \ {r}) = Cardinality(HttpSlots) - 1 /\ IsFiniteSet(HttpSlots \ {r})
  BY FS_RemoveElement
<1>2. Cardinality(HttpSlots \ {r}) \in Nat
  BY <1>1, FS_CardinalityType
<1> QED BY <1>1, <1>2, ExchangeAssumption DEF SlotsExact, TypeOK

LEMMA SlotsKept ==
  ASSUME SlotsExact, IsFiniteSet(HttpSlots), HttpSlots' = HttpSlots, UNCHANGED active
  PROVE  SlotsExact' /\ IsFiniteSet(HttpSlots')
  BY DEF SlotsExact

-----------------------------------------------------------------------------
(* What the invariant says of one exchange, and of a step that changes one. *)

Good(e) ==
  /\ e \in Exchange
  /\ e.pc = "done" /\ ~e.current => e.answer = "not_found"
  /\ e.pc \in {"probing", "attempt", "upstream"} \/ e.answer = "success" => e.current /\ e.sound
  /\ e.pc = "upstream" => e.kind = "http"
Occupies(e) == e.pc \in {"probing", "upstream"} /\ e.kind = "http"

Counted ==
  /\ RejectionsReported /\ counts \in [Categories -> 0 .. MaxCount]
  /\ window \in BOOLEAN /\ unreported \subseteq Requests
Proxy ==
  /\ generation \in [state: {"undefined", "verifying", "ready"}, id: 0 .. MaxGenerations]
  /\ closing \in {"none", "draining", "closed"}
Slots == SlotsExact /\ IsFiniteSet(HttpSlots) /\ active \in Nat

LEMMA SafeParts ==
  ASSUME Safe
  PROVE  Proxy /\ Counted /\ Slots /\ \A r \in Requests : Good(exch[r])
<1>1. Proxy /\ Counted /\ Slots
  BY DEF Safe, Proxy, Counted, Slots, TypeOK, CountersExact
<1>2. exch \in [Requests -> Exchange]
  BY DEF Safe, TypeOK
<1>3. \A r \in Requests : Good(exch[r])
  BY <1>2 DEF Safe, CheckedFirst, Underway, Good
<1> QED BY <1>1, <1>3

LEMMA PartsSafe ==
  ASSUME Proxy', Counted', Slots', exch' \in [Requests -> Exchange],
         \A r \in Requests : Good(exch'[r])
  PROVE  Safe'
<1>1. TypeOK' /\ CountersExact' /\ IsFiniteSet(HttpSlots')
  BY DEF Proxy, Counted, Slots, TypeOK, CountersExact
<1>2. CheckedFirst' /\ Underway'
  BY DEF Good, CheckedFirst, Underway
<1> QED BY <1>1, <1>2 DEF Safe

LEMMA FreshType == Fresh \in Exchange
  BY ExchangeAssumption DEF Fresh, Exchange

LEMMA AnsweredGood ==
  ASSUME NEW e \in Exchange, NEW answer \in Failures \cup {"none"},
         ~e.current => answer = "not_found"
  PROVE  Good(Answered(e, answer)) /\ ~Occupies(Answered(e, answer))
<1> DEFINE a == Answered(e, answer)
<1>1. /\ a.pc = "done" /\ a.answer = answer /\ a.current = e.current /\ a.sound = e.sound
      /\ a.kind = "http"
  BY DEF Answered, Fresh
<1>2. a \in Exchange
  <2>1. e.current \in BOOLEAN /\ e.sound \in BOOLEAN
    BY DEF Exchange
  <2> QED BY <2>1, FreshType DEF Answered, Exchange
<1>3. answer # "success"
  BY DEF Failures
<1> SUFFICES Good(a) /\ ~Occupies(a)
  OBVIOUS
<1> HIDE DEF a
<1> QED BY <1>1, <1>2, <1>3 DEF Good, Occupies

Finished(e, answer, url) == [Answered(e, answer) EXCEPT !.url = url]

LEMMA FinishedGood ==
  ASSUME NEW e \in Exchange, e.current, e.sound, NEW answer \in Failures \cup {"success"},
         NEW url \in {"none", "browser", "page"}
  PROVE  Good(Finished(e, answer, url)) /\ ~Occupies(Finished(e, answer, url))
<1> DEFINE a == Finished(e, answer, url)
<1>1. /\ a.pc = "done" /\ a.answer = answer /\ a.current = e.current /\ a.sound = e.sound
      /\ a.kind = "http"
  BY DEF Finished, Answered, Fresh
<1>2. a \in Exchange
  <2>1. e.current \in BOOLEAN /\ e.sound \in BOOLEAN
    BY DEF Exchange
  <2>2. Answered(e, answer) \in Exchange
    BY <2>1, FreshType DEF Answered, Exchange
  <2> QED BY <2>2 DEF Finished, Exchange
<1> SUFFICES Good(a) /\ ~Occupies(a)
  OBVIOUS
<1> HIDE DEF a
<1> QED BY <1>1, <1>2 DEF Good, Occupies

Started(a, p) == [a EXCEPT !.pc = p, !.gen = generation.id, !.left = Timeout]

LEMMA StartedType ==
  ASSUME Proxy, NEW a \in Exchange, NEW p \in {"probing", "upstream"}
  PROVE  /\ Started(a, p) \in Exchange /\ Started(a, p).pc = p /\ Started(a, p).kind = a.kind
         /\ Started(a, p).answer = a.answer /\ Started(a, p).current = a.current
         /\ Started(a, p).sound = a.sound
<1>1. Timeout \in 0 .. Timeout /\ generation.id \in 0 .. MaxGenerations
  BY ExchangeAssumption DEF Proxy
<1> QED BY <1>1 DEF Exchange, Started

LEMMA ArrivedType ==
  ASSUME NEW in \in Input
  PROVE  /\ Arrived(in) \in Exchange /\ Arrived(in).kind = in.kind
         /\ Arrived(in).answer = "none" /\ Arrived(in).pc = "idle"
<1>1. (ResponseKind(in.path) = "json") \in BOOLEAN /\ Sound(in) \in BOOLEAN
  BY DEF Sound
<1>2. (~Undefined /\ Matches(generation.id, in.presented)) \in BOOLEAN
  OBVIOUS
<1>3. in.kind \in {"http", "upgrade"}
  BY DEF Input
<1>4. Arrived(in) \in Exchange
  BY <1>1, <1>2, <1>3, FreshType DEF Arrived, Exchange
<1> QED BY <1>4 DEF Arrived, Fresh

LEMMA OneExchange ==
  ASSUME Safe, NEW r \in Requests, NEW e, Good(e), exch' = [exch EXCEPT ![r] = e],
         Proxy', Counted',
         \/ (Occupies(e) <=> Occupies(exch[r])) /\ active' = active
         \/ Occupies(e) /\ ~Occupies(exch[r]) /\ active < MaxRequests /\ active' = active + 1
         \/ ~Occupies(e) /\ Occupies(exch[r]) /\ active' = active - 1
  PROVE  Safe'
<1>1. exch \in [Requests -> Exchange]
  BY DEF Safe, TypeOK
<1>2. /\ HttpSlots' = IF Occupies(e) THEN HttpSlots \cup {r} ELSE HttpSlots \ {r}
      /\ r \in HttpSlots <=> Occupies(exch[r])
  BY <1>1 DEF HttpSlots, InProgress, Occupies
<1>3. Slots'
  <2>1. CASE (Occupies(e) <=> Occupies(exch[r])) /\ active' = active
    <3>1. HttpSlots' = HttpSlots
      BY <1>2, <2>1
    <3> QED BY <2>1, <3>1, SlotsKept DEF Safe, CountersExact, TypeOK, Slots
  <2>2. CASE Occupies(e) /\ ~Occupies(exch[r]) /\ active < MaxRequests /\ active' = active + 1
    <3>1. HttpSlots' = HttpSlots \cup {r} /\ r \notin HttpSlots
      BY <1>2, <2>2
    <3> QED BY <2>2, <3>1, SlotTaken DEF Safe, CountersExact, TypeOK, Slots
  <2>3. CASE ~Occupies(e) /\ Occupies(exch[r]) /\ active' = active - 1
    <3>1. HttpSlots' = HttpSlots \ {r} /\ r \in HttpSlots
      BY <1>2, <2>3
    <3> QED BY <2>3, <3>1, SlotReturned DEF Safe, CountersExact, TypeOK, Slots
  <2> QED BY <2>1, <2>2, <2>3
<1>4. /\ exch' \in [Requests -> Exchange]
      /\ \A q \in Requests : exch'[q] = IF q = r THEN e ELSE exch[q]
  BY <1>1 DEF Good
<1>5. \A q \in Requests : Good(exch'[q])
  BY <1>4, SafeParts
<1> QED BY <1>3, <1>4, <1>5, PartsSafe

LEMMA Frames == ASSUME Safe PROVE (UNCHANGED <<generation, closing>> => Proxy')
                                  /\ (UNCHANGED <<counts, window, unreported, closing>> => Counted')
<1>1. ASSUME UNCHANGED <<generation, closing>> PROVE Proxy'
  BY <1>1, SafeParts DEF Proxy
<1>2. ASSUME UNCHANGED <<counts, window, unreported, closing>> PROVE Counted'
  <2>1. counts' \in [Categories -> 0 .. MaxCount] /\ window' \in BOOLEAN /\ unreported' \subseteq Requests
    BY <1>2, SafeParts DEF Counted
  <2>2. RejectionsReported'
    BY <1>2, SafeParts DEF Counted, RejectionsReported, NoCounts
  <2> QED BY <2>1, <2>2 DEF Counted
<1> QED BY <1>1, <1>2

-----------------------------------------------------------------------------
(* Every action keeps the invariant.                                        *)

LEMMA InitSafe == Init => Safe
<1> SUFFICES ASSUME Init PROVE Safe
  OBVIOUS
<1>1. Fresh \in Exchange
  BY ExchangeAssumption DEF Fresh, Exchange
<1>2. exch \in [Requests -> Exchange] /\ \A r \in Requests : exch[r] = Fresh
  BY <1>1 DEF Init
<1>3. HttpSlots = {}
  BY <1>2 DEF HttpSlots, InProgress, Fresh
<1>4. /\ Cardinality(HttpSlots) = 0 /\ IsFiniteSet(HttpSlots)
  BY <1>3, FS_EmptySet
<1>5. NoCounts \in [Categories -> 0 .. MaxCount]
  BY ExchangeAssumption DEF NoCounts
<1>6. TypeOK
  <2>1. generation \in [state: {"undefined", "verifying", "ready"}, id: 0 .. MaxGenerations]
    BY ExchangeAssumption DEF Init
  <2> QED BY <1>2, <1>5, <2>1 DEF Init, TypeOK
<1>7. CountersExact
  BY <1>4, ExchangeAssumption DEF Init, CountersExact, SlotsExact, RejectionsReported
<1>8. CheckedFirst /\ Underway
  BY <1>2 DEF CheckedFirst, Underway, Fresh
<1> QED BY <1>4, <1>6, <1>7, <1>8 DEF Safe

LEMMA StageSafe == ASSUME Safe, StageGeneration PROVE Safe'
<1>1. /\ Good(Fresh) /\ ~Occupies(Fresh) /\ ~Occupies(exch[Prober]) /\ Prober \in Requests
  BY ExchangeAssumption DEF StageGeneration, InProgress, Good, Occupies, Fresh, Exchange
<1>2. Proxy' /\ Counted' /\ exch' = [exch EXCEPT ![Prober] = Fresh] /\ active' = active
  <2>1. Proxy'
    BY SafeParts, ExchangeAssumption DEF StageGeneration, Proxy
  <2> QED BY <2>1, Frames DEF StageGeneration
<1> QED BY <1>1, <1>2, OneExchange

LEMMA GenerationSafe == ASSUME Safe, PublishGeneration \/ ClearGeneration PROVE Safe'
<1>1. UNCHANGED <<closing, active, exch, counts, window, unreported>> /\ Proxy'
  BY SafeParts DEF PublishGeneration, ClearGeneration, Proxy
<1>2. HttpSlots' = HttpSlots
  BY <1>1 DEF HttpSlots, InProgress
<1>3. Slots'
  BY <1>1, <1>2, SafeParts DEF Slots, SlotsExact
<1> QED BY <1>1, <1>3, SafeParts, Frames, PartsSafe DEF Safe, TypeOK

LEMMA WindowSafe == ASSUME Safe, WindowEnds PROVE Safe'
<1>1. UNCHANGED <<generation, closing, active, exch>> /\ Flush /\ TypeOK
  BY DEF WindowEnds, Safe
<1>2. HttpSlots' = HttpSlots
  BY <1>1 DEF HttpSlots, InProgress
<1>3. Slots' /\ Counted'
  BY <1>1, <1>2, SafeParts, FlushKeeps DEF Slots, SlotsExact, Counted
<1> QED BY <1>1, <1>3, SafeParts, Frames, PartsSafe DEF TypeOK

LEMMA RequestSafe ==
  ASSUME Safe, NEW r \in Requests, NEW in \in Input, RequestArrives(r, in)
  PROVE  Safe'
<1>1. /\ exch[r].pc = "idle" /\ in.kind = "http" /\ UNCHANGED <<generation, closing>>
      /\ Record(r, RequestRejections(in))
  BY DEF RequestArrives
<1>2. Proxy' /\ Counted'
  <2>1. RequestRejections(in) \in SUBSET Categories
    BY DEF RequestRejections, CapabilityRejections, AuthorityRejections, Categories
  <2> QED BY <1>1, <2>1, Frames, RecordKeeps, SafeParts DEF Counted, Safe
<1>3. ~Occupies(exch[r])
  BY <1>1 DEF Occupies
<1>4. /\ Arrived(in) \in Exchange /\ Arrived(in).kind = in.kind
      /\ Arrived(in).answer = "none" /\ Arrived(in).pc = "idle"
  BY ExchangeAssumption, ArrivedType
<1>5. CASE RequestAnswer(in) # "accepted"
  <2> DEFINE e == Answered(Arrived(in), RequestAnswer(in))
  <2>1. RequestAnswer(in) \in Failures
    BY <1>5, Answers
  <2>2. Good(e) /\ ~Occupies(e)
    BY <1>4, <2>1, AnsweredGood, RequestUnknown
  <2>3. exch' = [exch EXCEPT ![r] = e] /\ active' = active
    BY <1>5 DEF RequestArrives
  <2> HIDE DEF e
  <2> QED BY <1>2, <1>3, <2>2, <2>3, OneExchange
<1>6. CASE RequestAnswer(in) = "accepted"
  <2> DEFINE p == IF generation.state = "ready" THEN "probing" ELSE "upstream"
             e == Started(Arrived(in), p)
  <2>1. Arrived(in).current /\ Arrived(in).sound /\ active < MaxRequests
    BY <1>1, <1>6, RequestLetIn DEF Safe, TypeOK
  <2>5. /\ e \in Exchange /\ e.pc \in {"probing", "upstream"} /\ e.kind = in.kind
        /\ e.answer = "none" /\ e.current = Arrived(in).current /\ e.sound = Arrived(in).sound
    BY <1>4, SafeParts, StartedType
  <2>3. Good(e) /\ Occupies(e)
    BY <1>1, <2>1, <2>5 DEF Good, Occupies
  <2>4. exch' = [exch EXCEPT ![r] = e] /\ active' = active + 1
    BY <1>6 DEF RequestArrives, Started
  <2> HIDE DEF e
  <2> QED BY <1>2, <1>3, <2>1, <2>3, <2>4, OneExchange
<1> QED BY <1>5, <1>6

LEMMA UpgradeSafe ==
  ASSUME Safe, NEW r \in Requests, NEW in \in Input, UpgradeArrives(r, in)
  PROVE  Safe'
<1>1. /\ exch[r].pc = "idle" /\ in.kind = "upgrade" /\ UNCHANGED <<generation, closing, active>>
      /\ Record(r, UpgradeRejections(in))
  BY DEF UpgradeArrives
<1>2. Proxy' /\ Counted'
  <2>1. UpgradeRejections(in) \in SUBSET Categories
    BY DEF UpgradeRejections, CapabilityRejections, AuthorityRejections, Categories
  <2> QED BY <1>1, <2>1, Frames, RecordKeeps, SafeParts DEF Counted, Safe
<1>3. ~Occupies(exch[r])
  BY <1>1 DEF Occupies
<1>4. /\ Arrived(in) \in Exchange /\ Arrived(in).kind = in.kind
      /\ Arrived(in).answer = "none" /\ Arrived(in).pc = "idle"
  BY ExchangeAssumption, ArrivedType
<1>5. CASE UpgradeVerdict(in) # "accepted"
  <2> DEFINE e == Answered(Arrived(in), UpgradeVerdict(in))
  <2>1. UpgradeVerdict(in) \in Failures
    BY <1>5, Answers
  <2>2. Good(e) /\ ~Occupies(e)
    BY <1>4, <2>1, AnsweredGood, UpgradeUnknown
  <2>3. exch' = [exch EXCEPT ![r] = e]
    BY <1>5 DEF UpgradeArrives
  <2> HIDE DEF e
  <2> QED BY <1>1, <1>2, <1>3, <2>2, <2>3, OneExchange
<1>6. CASE UpgradeVerdict(in) = "accepted"
  <2> DEFINE e == Started(Arrived(in), "probing")
  <2>1. Arrived(in).current /\ Arrived(in).sound
    BY <1>1, <1>6, UpgradeLetIn
  <2>5. /\ e \in Exchange /\ e.pc = "probing" /\ e.kind = in.kind
        /\ e.answer = "none" /\ e.current = Arrived(in).current /\ e.sound = Arrived(in).sound
    BY <1>4, SafeParts, StartedType
  <2>3. Good(e) /\ ~Occupies(e)
    <3> HIDE DEF e
    <3>1. e.kind = "upgrade" /\ e.current /\ e.sound
      BY <1>1, <2>1, <2>5
    <3>2. Good(e)
      <4>1. e \in Exchange /\ e.pc = "probing" /\ e.answer = "none"
        BY <2>5
      <4> QED BY <3>1, <4>1 DEF Good
    <3> QED BY <3>1, <3>2 DEF Occupies
  <2>4. exch' = [exch EXCEPT ![r] = e]
    BY <1>6 DEF UpgradeArrives, Started
  <2> HIDE DEF e
  <2> QED BY <1>1, <1>2, <1>3, <2>3, <2>4, OneExchange
<1> QED BY <1>5, <1>6

(* An exchange that was let in is answered.                                 *)
LEMMA ConcludesSafe ==
  ASSUME Safe, NEW r \in Requests, NEW answer \in Failures, exch[r].pc \in {"probing", "upstream"},
         Concludes(r, answer), UNCHANGED <<generation, closing, counts, window, unreported>>
  PROVE  Safe'
<1> DEFINE e == Answered(exch[r], answer)
<1>1. exch[r] \in Exchange /\ exch[r].current
  BY DEF Safe, TypeOK, Underway
<1>2. Good(e) /\ ~Occupies(e)
  BY <1>1, AnsweredGood
<1>3. exch' = [exch EXCEPT ![r] = e]
  BY DEF Concludes
<1>4. IF Occupies(exch[r]) THEN active' = active - 1 ELSE active' = active
  BY DEF Concludes, Occupies
<1>5. Proxy' /\ Counted'
  BY Frames
<1> HIDE DEF e
<1> QED BY <1>2, <1>3, <1>4, <1>5, OneExchange

LEMMA ProbeSafe == ASSUME Safe, NEW r \in Requests, Probe(r) PROVE Safe'
<1>1. exch[r] \in Exchange /\ Good(exch[r]) /\ {"unavailable", "gateway_timeout"} \subseteq Failures
  BY SafeParts DEF Safe, TypeOK, Failures
<1>2. ASSUME exch[r].pc = "probing", Refused(r, "unavailable") \/ Refused(r, "gateway_timeout"),
             UNCHANGED <<generation, closing, counts, window, unreported>>
      PROVE  Safe'
  BY <1>1, <1>2, ConcludesSafe DEF Refused
<1>3. ASSUME exch[r].pc = "probing", Forwarded(r),
             UNCHANGED <<generation, closing, counts, window, unreported>>
      PROVE  Safe'
  <2>1. CASE exch[r].left < 1
    BY <1>1, <1>3, <2>1, ConcludesSafe DEF Forwarded
  <2>2. CASE ~(exch[r].left < 1)
    <3> DEFINE p == IF exch[r].kind = "upgrade" THEN "attempt" ELSE "upstream"
               e == [exch[r] EXCEPT !.pc = p]
    <3>1. exch' = [exch EXCEPT ![r] = e] /\ active' = active
      BY <1>3, <2>2 DEF Forwarded
    <3>2. e \in Exchange /\ Good(e)
      BY <1>1, <1>3 DEF Good, Exchange
    <3>3. Occupies(e) <=> Occupies(exch[r])
      BY <1>1, <1>3 DEF Occupies, Exchange
    <3>4. Proxy' /\ Counted'
      BY <1>3, Frames
    <3> HIDE DEF e
    <3> QED BY <3>1, <3>2, <3>3, <3>4, OneExchange
  <2> QED BY <2>1, <2>2
<1>4. CASE ProbeSettles(r) \/ ProbeAborted(r)
  BY <1>2, <1>3, <1>4 DEF ProbeSettles, ProbeAborted
<1>5. CASE UpgradeEnds(r)
  <2> DEFINE e == Answered(exch[r], "none")
  <2>1. exch[r].kind = "upgrade" /\ exch[r].current
    BY <1>1, <1>5 DEF UpgradeEnds, Handshakes, Good
  <2>2. Good(e) /\ ~Occupies(e) /\ ~Occupies(exch[r])
    BY <1>1, <2>1, AnsweredGood DEF Occupies
  <2>3. exch' = [exch EXCEPT ![r] = e] /\ active' = active
    BY <1>5 DEF UpgradeEnds
  <2>4. Proxy' /\ Counted'
    BY <1>5, Frames DEF UpgradeEnds
  <2> HIDE DEF e
  <2> QED BY <2>2, <2>3, <2>4, OneExchange
<1> QED BY <1>4, <1>5 DEF Probe

LEMMA UpstreamSafe == ASSUME Safe, NEW r \in Requests, Upstream(r) PROVE Safe'
<1> USE DEF Upstream
<1>1. /\ exch[r] \in Exchange /\ Good(exch[r]) /\ exch[r].pc = "upstream" /\ Occupies(exch[r])
      /\ exch[r].current /\ exch[r].sound
  BY SafeParts DEF Safe, TypeOK, UpstreamStarts, UpstreamData, UpstreamEnds, UpstreamFails,
                   UpstreamTimer, Good, Occupies
<1>2. Proxy' /\ Counted' /\ UNCHANGED <<generation, closing, counts, window, unreported>>
  BY Frames DEF UpstreamStarts, UpstreamData, UpstreamEnds, UpstreamFails, UpstreamTimer
<1>3. {"bad_gateway", "internal_error", "gateway_timeout"} \subseteq Failures
  BY DEF Failures
<1>4. CASE UpstreamStarts(r)
  <2>1. PICK status \in {"2xx", "4xx", "other"} : exch' = [exch EXCEPT ![r].status = status]
    BY <1>4 DEF UpstreamStarts
  <2> DEFINE e == [exch[r] EXCEPT !.status = status]
  <2>2. Good(e) /\ Occupies(e)
    BY <1>1 DEF Good, Occupies, Exchange
  <2>3. exch' = [exch EXCEPT ![r] = e] /\ active' = active
    BY <1>4, <2>1 DEF UpstreamStarts
  <2> HIDE DEF e
  <2> QED BY <1>1, <1>2, <2>2, <2>3, OneExchange
<1>5. CASE UpstreamData(r)
  <2>1. CASE exch[r].body >= MaxBody
    BY <1>1, <1>2, <1>3, <1>5, <2>1, ConcludesSafe DEF UpstreamData
  <2>2. CASE ~(exch[r].body >= MaxBody)
    <3> DEFINE e == [exch[r] EXCEPT !.body = exch[r].body + 1]
    <3>1. exch[r].body + 1 \in 0 .. MaxBody
      BY <1>1, <2>2, ExchangeAssumption DEF Exchange
    <3>2. Good(e) /\ Occupies(e)
      BY <1>1, <3>1 DEF Good, Occupies, Exchange
    <3>3. exch' = [exch EXCEPT ![r] = e] /\ active' = active
      BY <1>5, <2>2 DEF UpstreamData
    <3> HIDE DEF e
    <3> QED BY <1>1, <1>2, <3>2, <3>3, OneExchange
  <2> QED BY <2>1, <2>2
<1>6. CASE UpstreamEnds(r)
  <2>1. PICK payload \in Payloads :
          exch' = [exch EXCEPT ![r] = [Answered(exch[r], Prepared(exch[r], payload)) EXCEPT
            !.url = IF Prepared(exch[r], payload) = "success" /\ exch[r].json
                      THEN RewrittenUrl(payload) ELSE "none"]]
    BY <1>6 DEF UpstreamEnds
  <2> DEFINE answer == Prepared(exch[r], payload)
             url == IF answer = "success" /\ exch[r].json THEN RewrittenUrl(payload) ELSE "none"
             e == Finished(exch[r], answer, url)
  <2>2. answer \in Failures \cup {"success"}
    BY DEF Prepared, Failures
  <2>3. url \in {"none", "browser", "page"}
    BY DEF Prepared, Rewritable, RewrittenUrl
  <2>4. Good(e) /\ ~Occupies(e)
    BY <1>1, <2>2, <2>3, FinishedGood
  <2>5. exch' = [exch EXCEPT ![r] = e] /\ active' = active - 1
    BY <1>6, <2>1 DEF UpstreamEnds, Finished
  <2> HIDE DEF e
  <2> QED BY <1>1, <1>2, <2>4, <2>5, OneExchange
<1>7. CASE UpstreamFails(r) \/ UpstreamTimer(r)
  BY <1>1, <1>2, <1>3, <1>7, ConcludesSafe DEF UpstreamFails, UpstreamTimer
<1> QED BY <1>4, <1>5, <1>6, <1>7

LEMMA TickSafe == ASSUME Safe, Tick PROVE Safe'
<1> DEFINE next(r) == IF r \in InProgress /\ exch[r].left > 0
                        THEN [exch[r] EXCEPT !.left = exch[r].left - 1] ELSE exch[r]
<1>1. exch' = [r \in Requests |-> next(r)]
  BY DEF Tick
<1>2. ASSUME NEW r \in Requests
      PROVE  Good(next(r)) /\ (Occupies(next(r)) <=> Occupies(exch[r]))
  <2>1. Good(exch[r])
    BY SafeParts
  <2>2. CASE ~(r \in InProgress /\ exch[r].left > 0)
    BY <2>1, <2>2
  <2>3. CASE r \in InProgress /\ exch[r].left > 0
    <3> DEFINE e == [exch[r] EXCEPT !.left = exch[r].left - 1]
    <3>1. exch[r] \in Exchange /\ exch[r].left - 1 \in 0 .. Timeout
      BY <2>1, <2>3, ExchangeAssumption DEF Good, Exchange
    <3>2. Good(e) /\ (Occupies(e) <=> Occupies(exch[r]))
      BY <2>1, <3>1 DEF Good, Occupies, Exchange
    <3> QED BY <2>3, <3>2
  <2> QED BY <2>2, <2>3
<1> HIDE DEF next
<1>3. exch' \in [Requests -> Exchange] /\ \A r \in Requests : Good(exch'[r])
  BY <1>1, <1>2 DEF Good
<1>4. HttpSlots' = HttpSlots
  BY <1>1, <1>2 DEF HttpSlots, InProgress, Occupies
<1>5. Slots' /\ Proxy' /\ Counted'
  BY <1>4, SafeParts, SlotsKept, Frames DEF Tick, Slots
<1> QED BY <1>3, <1>5, PartsSafe

LEMMA StopSafe == ASSUME Safe, Stop PROVE Safe'
<1> DEFINE next(r) == IF r \in Handshakes THEN Answered(exch[r], "unavailable") ELSE exch[r]
<1>1. exch' = [r \in Requests |-> next(r)]
  BY DEF Stop
<1>2. ASSUME NEW r \in Requests
      PROVE  Good(next(r)) /\ (Occupies(next(r)) <=> Occupies(exch[r]))
  <2>1. Good(exch[r]) /\ "unavailable" \in Failures
    BY SafeParts DEF Failures
  <2>2. CASE r \notin Handshakes
    BY <2>1, <2>2
  <2>3. CASE r \in Handshakes
    <3>1. exch[r] \in Exchange /\ exch[r].current /\ exch[r].kind = "upgrade"
      BY <2>1, <2>3 DEF Good, Handshakes
    <3>2. Good(Answered(exch[r], "unavailable")) /\ ~Occupies(Answered(exch[r], "unavailable"))
      BY <2>1, <3>1, AnsweredGood
    <3> QED BY <2>3, <3>1, <3>2 DEF Occupies
  <2> QED BY <2>2, <2>3
<1> HIDE DEF next
<1>3. exch' \in [Requests -> Exchange] /\ \A r \in Requests : Good(exch'[r])
  BY <1>1, <1>2 DEF Good
<1>4. HttpSlots' = HttpSlots
  BY <1>1, <1>2 DEF HttpSlots, InProgress, Occupies
<1>5. Slots' /\ Proxy'
  BY <1>4, SafeParts, SlotsKept DEF Stop, Slots, Proxy
<1>6. Counted'
  <2>1. counts' \in [Categories -> 0 .. MaxCount] /\ window' \in BOOLEAN /\ unreported' \subseteq Requests
    BY SafeParts DEF Stop, Counted
  <2>2. RejectionsReported'
    BY SafeParts DEF Stop, Counted, RejectionsReported, NoCounts
  <2> QED BY <2>1, <2>2 DEF Counted
<1> QED BY <1>3, <1>5, <1>6, PartsSafe

LEMMA StoppedSafe == ASSUME Safe, Stopped PROVE Safe'
<1>1. UNCHANGED <<generation, active, exch>> /\ closing' = "closed" /\ Flush /\ TypeOK
  BY DEF Stopped, Safe
<1>2. HttpSlots' = HttpSlots
  BY <1>1 DEF HttpSlots, InProgress
<1>3. Slots' /\ Counted' /\ Proxy'
  BY <1>1, <1>2, SafeParts, SlotsKept, FlushKeeps DEF Slots, Counted, Proxy
<1> QED BY <1>1, <1>3, SafeParts, PartsSafe DEF TypeOK

LEMMA NextSafe == Safe /\ [Next]_vars => Safe'
<1> SUFFICES ASSUME Safe, [Next]_vars PROVE Safe'
  OBVIOUS
<1>1. CASE Session
  BY <1>1, StageSafe, GenerationSafe, StopSafe, StoppedSafe DEF Session
<1>2. CASE WindowEnds \/ Tick
  BY <1>2, WindowSafe, TickSafe
<1>3. ASSUME NEW r \in Requests, Arrival(r) \/ Probe(r) \/ Upstream(r) PROVE Safe'
  <2>1. CASE Arrival(r)
    <3>1. Asks(r) \subseteq Input
      <4>1. generation.id \in Nat /\ generation.id \in Int
        BY SafeParts DEF Proxy
      <4>2. [Discovery EXCEPT !.presented = generation.id, !.token = generation.id] \in Input
        BY <4>1, InputsAssumption DEF Input
      <4> QED BY <4>2, InputsAssumption DEF Asks
    <3>2. PICK in \in Asks(r) : RequestArrives(r, in) \/ UpgradeArrives(r, in)
      BY <2>1 DEF Arrival
    <3> QED BY <3>1, <3>2, RequestSafe, UpgradeSafe
  <2> QED BY <1>3, <2>1, ProbeSafe, UpstreamSafe
<1>4. CASE UNCHANGED vars
  <2>1. HttpSlots' = HttpSlots
    BY <1>4 DEF vars, HttpSlots, InProgress
  <2>2. Slots' /\ Proxy' /\ Counted'
    BY <1>4, <2>1, SafeParts, SlotsKept, Frames DEF vars, Slots
  <2> QED BY <1>4, <2>2, SafeParts, PartsSafe DEF vars, Safe, TypeOK
<1> QED BY <1>1, <1>2, <1>3, <1>4 DEF Next

(* The invariant holds for any requests, inputs and limits.                 *)
THEOREM ExchangesSafe == Spec => []Safe
  BY InitSafe, NextSafe, PTL DEF Spec

(* Every field keeps the range the code gives it.                           *)
THEOREM TypeCorrect == Spec => []TypeOK
  BY ExchangesSafe, PTL DEF Safe

(* A client without the current capability learns nothing, and Chromium is  *)
(* contacted only for what every rule allows (httpProxy.ts, #handle).       *)
THEOREM CheckedBeforeForwarding == Spec => []CheckedFirst
  BY ExchangesSafe, PTL DEF Safe

(* Slots and rejections are counted exactly on every path out of a request. *)
THEOREM CountsExact == Spec => []CountersExact
  BY ExchangesSafe, PTL DEF Safe
=============================================================================
