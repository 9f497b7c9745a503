--------------------------- MODULE CdpProxyProofs ---------------------------
(* Proofs about CdpProxy for any upgrades and requests, any limits and any  *)
(* number of generations.                                                   *)
EXTENDS CdpProxy, FiniteSetTheorems, TLAPS

\* what one upgrade keeps whatever the generation does
Sound(p) ==
  /\ p \in ConnType
  /\ p.pc = "pending" => p.socket = "open" \/ p.answer = "error"
  /\ p.pc = "attempt" => p.socket = "open"
  /\ p.pc = "done" /\ p.answer = "none" => p.socket = "gone"
\* a pair of another generation relays nothing
Cut(p)  == p.client # "open" /\ p.upstream # "open"
Held(p) == p.pc \in {"pending", "attempt", "paired"}
\* p may follow q: no slot is taken, a pair that was cut stays cut, and only
\* an upgrade of the current generation goes upstream
Follows(p, q) ==
  /\ Sound(p)
  /\ Held(p) => Held(q)
  /\ p.pc = "paired" /\ q.pc = "paired" => p.gen = q.gen /\ (Cut(q) => Cut(p))
  /\ p.pc = "paired" /\ q.pc # "paired" => Cut(p) \/ Current(p.gen)
  /\ p.pc = "attempt" /\ q.pc = "pending" => Current(q.gen)

LEMMA SoundConn ==
  ASSUME Safe
  PROVE  /\ conn \in [Upgrades -> ConnType] /\ \A u \in Upgrades : Sound(conn[u])
         /\ generation \in GenerationType
  BY DEF Safe, TypeOK, NeverDropped, Phased, Sound

(* What the pieces of the handlers do to one upgrade.                       *)
LEMMA IdleType == Idle \in ConnType
  BY LimitsAssumption DEF Idle, ConnType, Socket, Side

LEMMA FinishFacts ==
  ASSUME NEW p \in ConnType, p.answer = "none" => p.socket = "gone"
  PROVE  Sound(Finish(p)) /\ Finish(p).pc = "done"
<1>1. /\ Finish(p).pc = "done" /\ Finish(p).socket = p.socket /\ Finish(p).answer = p.answer
  BY DEF Finish, Idle
<1>2. Finish(p) \in ConnType
  <2>1. p.socket \in Socket /\ p.answer \in {"none", "error", "accepted"}
    BY DEF ConnType
  <2>2. (IF p.upstream = "closing" THEN "closing" ELSE Idle.upstream) \in Side
    BY DEF Idle, Side
  <2> HIDE DEF Idle
  <2> QED BY <2>1, <2>2, IdleType DEF Finish, ConnType
<1> QED BY <1>1, <1>2 DEF Sound

LEMMA AnswerFacts ==
  ASSUME NEW p \in ConnType, p.socket = "open" \/ p.answer # "none"
  PROVE  /\ Answer(p) \in ConnType /\ Answer(p).answer # "none"
         /\ Answer(p).pc = p.pc /\ Answer(p).gen = p.gen
         /\ p.socket = "open" => Answer(p).answer = "error"
         /\ p.socket # "open" => Answer(p) = p
  BY DEF Answer, ConnType, Socket

LEMMA CloseFacts ==
  ASSUME NEW p \in ConnType, p.pc = "paired"
  PROVE  /\ Follows(ClosePair(p), p) /\ Cut(ClosePair(p))
         /\ Follows(CloseLocally(p), p)
         /\ ClosePair(p).pc = "paired" /\ CloseLocally(p).pc = "paired"
<1>1. /\ ClosePair(p) \in ConnType /\ ClosePair(p).pc = "paired" /\ ClosePair(p).gen = p.gen
      /\ Cut(ClosePair(p)) /\ ClosePair(p).kind = p.kind
  BY DEF ClosePair, Shut, ConnType, Side, Cut
<1>2. /\ CloseLocally(p) \in ConnType /\ CloseLocally(p).pc = "paired" /\ CloseLocally(p).gen = p.gen
      /\ Cut(p) => Cut(CloseLocally(p))
  <2>1. CASE p.local
    BY <2>1 DEF CloseLocally
  <2>2. CASE ~p.local
    <3>1. CloseLocally(p) = [ClosePair(p) EXCEPT !.local = TRUE]
      BY <2>2 DEF CloseLocally
    <3> HIDE DEF ClosePair
    <3> QED BY <1>1, <3>1 DEF ConnType, Cut
  <2> QED BY <2>1, <2>2
<1> QED BY <1>1, <1>2 DEF Follows, Sound, Held

LEMMA ReapedFacts ==
  ASSUME NEW p \in ConnType, NEW q \in ConnType, p.pc = "paired", q.pc = "paired",
         p.gen = q.gen, Cut(q) => Cut(p)
  PROVE  Follows(Reaped(p), q)
<1>1. CASE p.client = "closed" /\ p.upstream = "closed"
  <2>1. [p EXCEPT !.socket = "gone"] \in ConnType /\ [p EXCEPT !.socket = "gone"].socket = "gone"
    BY DEF ConnType, Socket
  <2> QED BY <1>1, <2>1, FinishFacts DEF Reaped, Follows, Held
<1>2. CASE ~(p.client = "closed" /\ p.upstream = "closed")
  BY <1>2 DEF Reaped, Follows, Sound, Held
<1> QED BY <1>1, <1>2

(* A turn that brings the upgrades, each a follower of what it was, to cs   *)
(* keeps everything that is said of connections and their slots.            *)
Forwards ==
  \A u \in Upgrades : conn[u].pc = "pending" /\ conn'[u].pc = "attempt" => Current(conn[u].gen)

ConnKept ==
  /\ Forwards
  /\ conn' \in [Upgrades -> ConnType] /\ \A u \in Upgrades : Sound(conn'[u])
  /\ OldConnectionsSevered'
  /\ Connections' \subseteq Connections

Cleared == generation' = [generation EXCEPT !.state = "undefined"]

LEMMA Kept ==
  ASSUME Safe, NEW cs, cs \in [Upgrades -> ConnType], \A u \in Upgrades : Follows(cs[u], conn[u]),
         \/ conn' = cs /\ UNCHANGED generation
         \/ conn' = CloseGeneration(cs) /\ generation'.state = "undefined"
  PROVE  ConnKept
<1>1. \A u \in Upgrades : Paired(u) /\ ~Current(conn[u].gen) => Cut(conn[u])
  BY DEF Safe, OldConnectionsSevered, Cut
<1>2. \A u \in Upgrades : cs[u].pc = "paired" /\ ~Current(cs[u].gen) => Cut(cs[u])
  BY <1>1 DEF Follows, Paired
<1>3. CASE conn' = cs /\ UNCHANGED generation
  <2>1. OldConnectionsSevered'
    BY <1>2, <1>3 DEF OldConnectionsSevered, Paired, Current, Cut
  <2>2. Connections' \subseteq Connections
    BY <1>3 DEF Connections, Follows, Held
  <2>3. Forwards
    BY <1>3 DEF Forwards, Follows
  <2> QED BY <1>3, <2>1, <2>2, <2>3 DEF ConnKept, Follows
<1>4. CASE conn' = CloseGeneration(cs) /\ generation'.state = "undefined"
  <2>1. ASSUME NEW u \in Upgrades
        PROVE  /\ conn'[u] \in ConnType /\ Sound(conn'[u]) /\ conn'[u].pc = cs[u].pc
               /\ conn'[u].pc = "paired" => Cut(conn'[u])
    <3>1. CASE cs[u].pc = "paired" /\ Current(cs[u].gen)
      <4>1. conn'[u] = ClosePair(cs[u])
        BY <1>4, <3>1 DEF CloseGeneration
      <4> QED BY <3>1, <4>1, CloseFacts DEF Follows, Sound
    <3>2. CASE ~(cs[u].pc = "paired" /\ Current(cs[u].gen))
      <4>1. conn'[u] = cs[u]
        BY <1>4, <3>2 DEF CloseGeneration
      <4> QED BY <1>2, <3>2, <4>1 DEF Follows, Sound
    <3> QED BY <3>1, <3>2
  <2>2. conn' \in [Upgrades -> ConnType]
    BY <1>4, <2>1 DEF CloseGeneration
  <2>3. OldConnectionsSevered'
    BY <2>1 DEF OldConnectionsSevered, Paired, Cut
  <2>4. Connections' \subseteq Connections
    BY <2>1 DEF Connections, Follows, Held
  <2>5. Forwards
    BY <2>1 DEF Forwards, Follows
  <2> QED BY <2>1, <2>2, <2>3, <2>4, <2>5 DEF ConnKept
<1> QED BY <1>3, <1>4

(* The same of one upgrade that changes to p, with or without a loss.       *)
LEMMA KeptOne ==
  ASSUME Safe, NEW u \in Upgrades, NEW p, Follows(p, conn[u]), NEW lost \in BOOLEAN,
         Change(u, p) \/ Settle([conn EXCEPT ![u] = p], lost)
  PROVE  /\ ConnKept
         /\ UNCHANGED generation \/ (Cleared /\ ~disposed)
<1> DEFINE cs == [conn EXCEPT ![u] = p]
<1>1. p \in ConnType
  BY DEF Follows, Sound
<1>2. cs \in [Upgrades -> ConnType] /\ \A v \in Upgrades : Follows(cs[v], conn[v])
  BY <1>1, SoundConn DEF Follows
<1>3. \/ conn' = cs /\ UNCHANGED generation
      \/ conn' = CloseGeneration(cs) /\ Cleared /\ ~disposed
  BY DEF Change, Settle, Clear, Cleared
<1>4. Cleared => generation'.state = "undefined"
  BY SoundConn DEF GenerationType, Cleared
<1> HIDE DEF cs
<1>5. ConnKept
  BY <1>2, <1>3, <1>4, Kept
<1> QED BY <1>3, <1>5

(* Everything that is said of the proxy, once the connections are kept.     *)
LEMMA SafeAfter ==
  ASSUME Safe, ConnKept, generation' \in GenerationType,
         UNCHANGED generation \/ Cleared \/ stopping = "none",
         UNCHANGED <<disposed, stopping, leased, request>>
  PROVE  Safe'
<1>1. TypeOK' /\ NeverDropped'
  BY DEF Safe, TypeOK, NeverDropped, ConnKept, Sound
<1>2. LimitsKept' /\ (IsFiniteSet(Connections) /\ IsFiniteSet(ActiveRequests))'
  <2>1. IsFiniteSet(Connections) /\ Connections' \subseteq Connections /\ ActiveRequests' = ActiveRequests
    BY DEF Safe, Phased, ConnKept, ActiveRequests
  <2>2. /\ Cardinality(Connections') <= Cardinality(Connections)
        /\ Cardinality(Connections) \in Nat /\ Cardinality(Connections') \in Nat
        /\ IsFiniteSet(Connections')
    BY <2>1, FS_Subset, FS_CardinalityType
  <2> QED BY <2>1, <2>2, LimitsAssumption DEF Safe, Phased, LimitsKept
<1>3. (stopping # "none" => disposed /\ generation.state = "undefined")'
  BY DEF Safe, Phased, Cleared, TypeOK, GenerationType
<1>4. (stopping \in {"binding", "stopped"} => Connections = {})'
  BY DEF Safe, Phased, ConnKept
<1>5. (stopping = "stopped" => Awaited = {})' /\ (~leased => stopping = "stopped")'
  BY DEF Safe, Phased, Awaited, ActiveRequests
<1>6. (\A u \in Upgrades :
         /\ conn[u].pc = "pending" => conn[u].socket = "open" \/ conn[u].answer = "error"
         /\ conn[u].pc = "attempt" => conn[u].socket = "open")'
  BY DEF ConnKept, Sound
<1>7. Phased'
  BY <1>2, <1>3, <1>4, <1>5, <1>6 DEF Phased
<1> QED BY <1>1, <1>2, <1>7 DEF Safe, ConnKept

LEMMA SafeAfterOne ==
  ASSUME Safe, NEW u \in Upgrades, NEW p, Follows(p, conn[u]), NEW lost \in BOOLEAN,
         Change(u, p) \/ Settle([conn EXCEPT ![u] = p], lost),
         UNCHANGED <<disposed, stopping, leased, request>>
  PROVE  Safe' /\ Forwards
<1>1. ConnKept /\ (UNCHANGED generation \/ (Cleared /\ ~disposed))
  BY KeptOne
<1>2. generation' \in GenerationType
  BY <1>1, SoundConn DEF Cleared, GenerationType
<1> QED BY <1>1, <1>2, SafeAfter DEF ConnKept

LEMMA Finished ==
  ASSUME NEW p \in ConnType, NEW q, p.answer = "none" => p.socket = "gone"
  PROVE  Follows(Finish(p), q)
BY FinishFacts DEF Follows, Held

(* A new upgrade takes a slot that is free.                                 *)
LEMMA Admitted ==
  ASSUME Safe, NEW u \in Upgrades, conn[u].pc = "idle", NEW p \in ConnType,
         p.pc = "pending", p.socket = "open", p.answer = "none", Change(u, p),
         stopping = "none", Cardinality(Slots) < MaxConnections,
         UNCHANGED <<disposed, stopping, leased, request>>
  PROVE  Safe' /\ Forwards
<1>1. conn' = [conn EXCEPT ![u] = p] /\ UNCHANGED generation /\ conn \in [Upgrades -> ConnType]
  BY SoundConn DEF Change
<1>2. Connections' = Connections \cup {u} /\ u \notin Connections /\ IsFiniteSet(Connections)
  BY <1>1 DEF Connections, Safe, Phased
<1>3. /\ IsFiniteSet(Connections')
      /\ Cardinality(Connections') = Cardinality(Connections) + 1 /\ Cardinality(Connections) \in Nat
  BY <1>2, FS_AddElement, FS_CardinalityType
<1>4. LimitsKept'
  BY <1>3, LimitsAssumption DEF LimitsKept, Slots, ActiveRequests, Safe
<1>5. TypeOK' /\ NeverDropped'
  BY <1>1 DEF Safe, TypeOK, NeverDropped
<1>6. OldConnectionsSevered'
  BY <1>1 DEF Safe, OldConnectionsSevered, Paired, Current
<1>7. (IsFiniteSet(Connections) /\ IsFiniteSet(ActiveRequests))'
  BY <1>3 DEF ActiveRequests, Safe, Phased
<1>8. (\A v \in Upgrades :
         /\ conn[v].pc = "pending" => conn[v].socket = "open" \/ conn[v].answer = "error"
         /\ conn[v].pc = "attempt" => conn[v].socket = "open")'
  BY <1>1 DEF Safe, Phased
<1>9. Phased'
  BY <1>1, <1>7, <1>8 DEF Safe, Phased
<1>10. Forwards
  BY <1>1 DEF Forwards
<1> QED BY <1>4, <1>5, <1>6, <1>9, <1>10 DEF Safe

LEMMA ArrivesSafe ==
  ASSUME Safe, NEW u \in Upgrades, UpgradeArrives(u)
  PROVE  Safe' /\ Forwards
<1>1. CASE Change(u, [Idle EXCEPT !.pc = "done", !.socket = "ended", !.answer = "error"])
  <2> DEFINE p == [Idle EXCEPT !.pc = "done", !.socket = "ended", !.answer = "error"]
  <2>1. Follows(p, conn[u])
    <3>1. p \in ConnType /\ p.pc = "done" /\ p.answer = "error"
      BY IdleType DEF ConnType, Socket
    <3> QED BY <3>1 DEF Follows, Sound, Held
  <2> QED BY <1>1, <2>1, SafeAfterOne DEF UpgradeArrives
<1>2. ASSUME stopping = "none", Cardinality(Slots) < MaxConnections, NEW k \in {"browser", "page"},
             Change(u, [Idle EXCEPT !.pc = "pending", !.gen = generation.id, !.kind = k, !.socket = "open"])
      PROVE  Safe' /\ Forwards
  <2> DEFINE p == [Idle EXCEPT !.pc = "pending", !.gen = generation.id, !.kind = k, !.socket = "open"]
  <2>1. p \in ConnType /\ p.pc = "pending" /\ p.socket = "open" /\ p.answer = "none"
    BY SoundConn DEF Idle, ConnType, Socket, Side, GenerationType
  <2> QED BY <1>2, <2>1, Admitted DEF UpgradeArrives
<1> QED BY <1>1, <1>2 DEF UpgradeArrives

LEMMA UpgradeSafe ==
  ASSUME Safe, NEW u \in Upgrades, Upgrade(u)
  PROVE  Safe' /\ Forwards
<1> USE DEF Upgrade
<1> DEFINE c == conn[u]
<1>0. c \in ConnType /\ Sound(c)
  BY SoundConn
<1>1. c.pc \in {"pending", "attempt"} => Follows(Finish(Answer(c)), c)
  <2> HIDE DEF c
  <2>1. c.pc \in {"pending", "attempt"} => c.socket = "open" \/ c.answer # "none"
    BY <1>0 DEF Sound
  <2> QED BY <1>0, <2>1, AnswerFacts, Finished
<1>2. CASE HandshakePrepared(u)
  <2>1. CASE Change(u, Finish(Answer(c)))
    BY <1>1, <1>2, <2>1, SafeAfterOne DEF HandshakePrepared
  <2>2. CASE conn[u].socket = "open" /\ Current(conn[u].gen) /\ Change(u, [c EXCEPT !.pc = "attempt", !.upstream = "connecting"])
    <3>1. Follows([c EXCEPT !.pc = "attempt", !.upstream = "connecting"], c)
      <4> HIDE DEF c
      <4>1. c.pc = "pending" /\ c.socket = "open" /\ Current(c.gen)
        BY <1>2, <2>2 DEF HandshakePrepared, c
      <4> QED BY <1>0, <4>1 DEF Follows, Sound, Held, ConnType, Side
    <3> QED BY <1>2, <2>2, <3>1, SafeAfterOne DEF HandshakePrepared
  <2> QED BY <1>2, <2>1, <2>2 DEF HandshakePrepared
<1>3. CASE ClientLeaves(u)
  <2>1. Follows(Finish([c EXCEPT !.socket = "gone"]), c)
    <3>1. [c EXCEPT !.socket = "gone"] \in ConnType /\ [c EXCEPT !.socket = "gone"].socket = "gone"
      BY <1>0 DEF ConnType, Socket
    <3> QED BY <3>1, Finished
  <2> QED BY <1>3, <2>1, SafeAfterOne DEF ClientLeaves
<1>4. CASE UpstreamOpens(u)
  <2>1. Follows(Finish(Answer([c EXCEPT !.upstream = "closing"])), c)
    <3> DEFINE d == [c EXCEPT !.upstream = "closing"]
    <3>1. d \in ConnType /\ d.socket = "open"
      BY <1>0, <1>4 DEF ConnType, Side, Sound, UpstreamOpens
    <3> QED BY <3>1, AnswerFacts, Finished
  <2>2. Follows(Finish([c EXCEPT !.socket = "gone"]), c)
    <3>1. [c EXCEPT !.socket = "gone"] \in ConnType /\ [c EXCEPT !.socket = "gone"].socket = "gone"
      BY <1>0 DEF ConnType, Socket
    <3> QED BY <3>1, Finished
  <2>3. OpensFor(u) =>
          Follows([c EXCEPT !.pc = "paired", !.client = "open", !.upstream = "open", !.answer = "accepted"], c)
    <3> DEFINE p == [c EXCEPT !.pc = "paired", !.client = "open", !.upstream = "open", !.answer = "accepted"]
    <3>1. c.pc = "attempt"
      BY <1>4 DEF UpstreamOpens
    <3>2. p \in ConnType /\ p.pc = "paired" /\ p.gen = c.gen
      BY <1>0 DEF ConnType, Side
    <3> QED BY <3>1, <3>2 DEF Follows, Sound, Held, OpensFor
  <2> QED BY <1>4, <2>1, <2>2, <2>3, SafeAfterOne DEF UpstreamOpens
<1>5. CASE UpstreamRefuses(u)
  <2>1. PICK lost \in BOOLEAN : Settle([conn EXCEPT ![u] = Finish(Answer(c))], lost)
    BY <1>5, SoundConn DEF UpstreamRefuses
  <2> QED BY <1>1, <1>5, <2>1, SafeAfterOne DEF UpstreamRefuses
<1>6. CASE LeftoverCloses(u)
  <2>1. Follows([c EXCEPT !.upstream = "none"], c)
    <3>1. c.pc = "done"
      BY <1>6 DEF LeftoverCloses
    <3> HIDE DEF c
    <3> QED BY <1>0, <3>1 DEF ConnType, Side, Follows, Sound, Held
  <2> QED BY <1>6, <2>1, SafeAfterOne DEF LeftoverCloses
<1> QED BY <1>2, <1>3, <1>4, <1>5, <1>6, ArrivesSafe

LEMMA RelaySafe ==
  ASSUME Safe, NEW u \in Upgrades, Relay(u)
  PROVE  Safe' /\ Forwards
<1> DEFINE c == conn[u]
<1>0. c \in ConnType /\ Sound(c) /\ c.pc = "paired"
  BY SoundConn DEF Relay, ClientMessage, RelayFails, UpstreamFails, ClientCloses, UpstreamCloses, Paired
<1>1. Follows(c, c) /\ Follows(CloseLocally(c), c)
  BY <1>0, CloseFacts DEF Follows, Held
<1>2. Loses(u) \in BOOLEAN
  BY DEF Loses
<1>3. CASE ClientMessage(u)
  <2>1. PICK over, closes \in BOOLEAN :
          Settle([conn EXCEPT ![u] = IF over \/ c.upstream # "open" THEN CloseLocally(c) ELSE c], closes)
    BY <1>3, SoundConn DEF ClientMessage
  <2>2. Follows(IF over \/ c.upstream # "open" THEN CloseLocally(c) ELSE c, c)
    BY <1>1
  <2> QED BY <1>3, <2>1, <2>2, SafeAfterOne DEF ClientMessage
<1>4. CASE RelayFails(u)
  BY <1>1, <1>4, SafeAfterOne DEF RelayFails
<1>5. CASE UpstreamFails(u)
  <2>1. Settle([conn EXCEPT ![u] = CloseLocally(c)], Loses(u))
    BY <1>5, SoundConn DEF UpstreamFails
  <2> QED BY <1>1, <1>2, <1>5, <2>1, SafeAfterOne DEF UpstreamFails
<1>6. CASE ClientCloses(u)
  <2> DEFINE p == [c EXCEPT !.client = "closed", !.upstream = RelayPeerClose(c, @)]
  <2>1. p \in ConnType /\ p.pc = "paired" /\ p.gen = c.gen /\ (Cut(c) => Cut(p))
    <3> HIDE DEF c
    <3> QED BY <1>0 DEF ConnType, Side, RelayPeerClose, Shut, Cut
  <2>2. Follows(ClientClosed(c), c)
    BY <1>0, <2>1, ReapedFacts DEF ClientClosed
  <2> QED BY <1>6, <2>2, SafeAfterOne DEF ClientCloses
<1>7. CASE UpstreamCloses(u)
  <2> DEFINE p == [c EXCEPT !.upstream = "closed", !.client = RelayPeerClose(c, @)]
  <2>1. p \in ConnType /\ p.pc = "paired" /\ p.gen = c.gen /\ (Cut(c) => Cut(p))
    <3> HIDE DEF c
    <3> QED BY <1>0 DEF ConnType, Side, RelayPeerClose, Shut, Cut
  <2>2. Follows(UpstreamClosed(c), c)
    BY <1>0, <2>1, ReapedFacts DEF UpstreamClosed
  <2>3. Settle([conn EXCEPT ![u] = UpstreamClosed(c)], Loses(u))
    BY <1>7, SoundConn DEF UpstreamCloses
  <2> QED BY <1>2, <1>7, <2>2, <2>3, SafeAfterOne DEF UpstreamCloses
<1> QED BY <1>3, <1>4, <1>5, <1>6, <1>7 DEF Relay

LEMMA RequestSafe ==
  ASSUME Safe, NEW r \in Requests, Http(r)
  PROVE  Safe'
<1>1. UNCHANGED <<generation, disposed, stopping, leased, conn>>
  BY DEF Http, RequestArrives, RequestProbed, RequestEnds, RequestLeaves
<1>2. IsFiniteSet(ActiveRequests) /\ Cardinality(ActiveRequests) \in Nat /\ Cardinality(ActiveRequests) <= MaxRequests
  BY FS_CardinalityType DEF Safe, Phased, LimitsKept
<1>3. request \in [Requests -> RequestType] /\ generation.id \in 0 .. MaxGenerations
  BY DEF Safe, TypeOK, GenerationType
<1> DEFINE To(pc, g, present) == request' = [request EXCEPT ![r] = [pc |-> pc, gen |-> g, present |-> present]]
           Slot(pc, present) ==
             pc # "done" => \/ r \in ActiveRequests /\ (present => request[r].present)
                            \/ Cardinality(ActiveRequests) < MaxRequests /\ generation.state # "undefined"
<1>4. \E pc \in {"done", "probing", "upstream"}, g \in 0 .. MaxGenerations, present \in BOOLEAN :
        To(pc, g, present) /\ Slot(pc, present)
  <2>0. ASSUME NEW pc, NEW g, RequestTo(r, pc, g)
        PROVE  \E present \in BOOLEAN : To(pc, g, present) /\ (pc # "done" /\ present => request[r].present)
    <3> DEFINE present == request[r].present \/ pc = "done"
    <3>1. present \in BOOLEAN /\ (pc # "done" /\ present => request[r].present)
      OBVIOUS
    <3>2. To(pc, g, present)
      BY <2>0, <1>3 DEF RequestTo
    <3> QED BY <3>1, <3>2
  <2> HIDE DEF To
  <2>1. CASE RequestArrives(r)
    <3>1. CASE RequestTo(r, "done", 0)
      BY <2>0, <3>1, LimitsAssumption
    <3>2. CASE ~RequestTo(r, "done", 0)
      <4>1. PICK pc \in {"probing", "upstream"} : RequestTo(r, pc, generation.id)
        BY <2>1, <3>2 DEF RequestArrives
      <4> QED BY <1>3, <2>0, <2>1, <3>2, <4>1 DEF RequestArrives
    <3> QED BY <3>1, <3>2
  <2>2. CASE RequestProbed(r)
    <3>1. r \in ActiveRequests /\ request[r].gen \in 0 .. MaxGenerations
      BY <1>3, <2>2 DEF RequestProbed, ActiveRequests, RequestType
    <3>2. RequestTo(r, "done", 0) \/ RequestTo(r, "upstream", request[r].gen)
      BY <2>2 DEF RequestProbed
    <3> QED BY <2>0, <3>1, <3>2, LimitsAssumption
  <2>3. CASE RequestEnds(r)
    <3>1. RequestTo(r, "done", 0)
      BY <2>3 DEF RequestEnds
    <3> QED BY <2>0, <3>1, LimitsAssumption
  <2>4. CASE RequestLeaves(r)
    <3>1. /\ r \in ActiveRequests /\ request[r].pc \in {"probing", "upstream"}
          /\ request[r] \in RequestType /\ request[r].gen \in 0 .. MaxGenerations
      BY <1>3, <2>4 DEF RequestLeaves, Awaited, ActiveRequests, RequestType
    <3>2. To(request[r].pc, request[r].gen, FALSE)
      BY <1>3, <2>4 DEF RequestLeaves, To
    <3> QED BY <3>1, <3>2
  <2> QED BY <2>1, <2>2, <2>3, <2>4 DEF Http
<1>5. PICK pc \in {"done", "probing", "upstream"}, g \in 0 .. MaxGenerations, present \in BOOLEAN :
        To(pc, g, present) /\ Slot(pc, present)
  BY <1>4
<1>6. request' \in [Requests -> RequestType]
  BY <1>3, <1>5 DEF RequestType
<1>7. /\ pc = "done" => ActiveRequests' \subseteq ActiveRequests
      /\ pc # "done" => ActiveRequests' = ActiveRequests \cup {r}
  BY <1>3, <1>5 DEF ActiveRequests
<1>8. IsFiniteSet(ActiveRequests') /\ Cardinality(ActiveRequests') <= MaxRequests
  <2>1. CASE pc = "done"
    BY <1>2, <1>7, <2>1, FS_Subset, FS_CardinalityType, LimitsAssumption
  <2>2. CASE pc # "done" /\ r \in ActiveRequests
    <3>1. ActiveRequests' = ActiveRequests
      BY <1>7, <2>2
    <3> QED BY <1>2, <3>1
  <2>3. CASE pc # "done" /\ r \notin ActiveRequests
    <3>1. Cardinality(ActiveRequests) < MaxRequests /\ ActiveRequests' = ActiveRequests \cup {r}
      BY <1>5, <1>7, <2>3
    <3>2. IsFiniteSet(ActiveRequests') /\ Cardinality(ActiveRequests') = Cardinality(ActiveRequests) + 1
      BY <1>2, <2>3, <3>1, FS_AddElement
    <3> QED BY <1>2, <3>1, <3>2, LimitsAssumption
  <2> QED BY <2>1, <2>2, <2>3
<1>9. Connections' = Connections
  BY <1>1 DEF Connections
<1>10. TypeOK' /\ OldConnectionsSevered' /\ NeverDropped'
  BY <1>1, <1>6 DEF Safe, TypeOK, OldConnectionsSevered, NeverDropped, Paired, Current
<1>11. LimitsKept'
  BY <1>8, <1>9 DEF Safe, LimitsKept
<1>12. (stopping = "stopped" => Awaited = {})'
  <2>1. SUFFICES ASSUME stopping = "stopped", NEW q \in Awaited' PROVE FALSE
    BY <1>1
  <2>2. Awaited = {} /\ generation.state = "undefined"
    BY <2>1 DEF Safe, Phased
  <2>3. q = r
    BY <1>3, <1>5, <2>1, <2>2 DEF Awaited, ActiveRequests
  <2> QED BY <1>3, <1>5, <2>1, <2>2, <2>3 DEF Awaited, ActiveRequests
<1>13. (IsFiniteSet(Connections) /\ IsFiniteSet(ActiveRequests))'
  BY <1>8, <1>9 DEF Safe, Phased
<1>14. Phased'
  BY <1>1, <1>9, <1>12, <1>13 DEF Safe, Phased
<1> QED BY <1>10, <1>11, <1>14 DEF Safe

LEMMA SessionSafe ==
  ASSUME Safe, Session
  PROVE  Safe' /\ Forwards
<1>1. \A u \in Upgrades : Follows(conn[u], conn[u])
  BY SoundConn DEF Follows, Held, Sound
<1>2. CASE StageGeneration \/ PublishGeneration
  <2>1. /\ stopping = "none" /\ generation.state # "ready" /\ UNCHANGED <<disposed, stopping, leased, conn, request>>
    BY <1>2 DEF StageGeneration, PublishGeneration, Safe, Phased
  <2>2. generation' \in GenerationType
    <3>1. CASE StageGeneration
      BY <3>1, SoundConn, LimitsAssumption DEF StageGeneration, GenerationType
    <3>2. CASE PublishGeneration
      BY <3>2, SoundConn DEF PublishGeneration, GenerationType
    <3> QED BY <1>2, <3>1, <3>2
  <2>3. OldConnectionsSevered'
    BY <2>1 DEF Safe, OldConnectionsSevered, Paired, Current
  <2>4. ConnKept
    BY <2>1, <2>3, SoundConn DEF ConnKept, Connections, Forwards
  <2> QED BY <2>1, <2>2, <2>4, SafeAfter DEF ConnKept
<1>3. CASE ClearGeneration
  <2>1. Cleared /\ conn' = CloseGeneration(conn) /\ UNCHANGED <<disposed, stopping, leased, request>>
    BY <1>3 DEF ClearGeneration, Clear, Cleared
  <2>2. generation' \in GenerationType /\ generation'.state = "undefined"
    BY <2>1, SoundConn DEF Cleared, GenerationType
  <2>3. ConnKept
    BY <1>1, <2>1, <2>2, SoundConn, Kept
  <2> QED BY <2>1, <2>2, <2>3, SafeAfter DEF ConnKept
<1>4. CASE Dispose
  BY <1>4 DEF Dispose, Safe, TypeOK, OldConnectionsSevered, LimitsKept, NeverDropped, Phased,
     Connections, ActiveRequests, Awaited, Paired, Current, Forwards
<1> QED BY <1>2, <1>3, <1>4 DEF Session

\* what stop() and its timeout make of the upgrades
LEMMA ShutdownKeeps ==
  ASSUME Safe, Stop \/ DrainTimeout
  PROVE  /\ conn' \in [Upgrades -> ConnType]
         /\ \A u \in Upgrades : Follows(conn'[u], conn[u]) /\ (conn'[u].pc = "paired" => Cut(conn'[u]))
<1>1. CASE Stop
  <2>1. ASSUME NEW u \in Upgrades
        PROVE  Follows(conn'[u], conn[u]) /\ (conn'[u].pc = "paired" => Cut(conn'[u]))
    <3> DEFINE c == conn[u]
    <3>0. Sound(c) /\ c \in ConnType
      BY SoundConn
    <3>1. CASE c.pc = "pending"
      <4>1. conn'[u] = Answer(c)
        BY <1>1, <3>1 DEF Stop, Cancelled
      <4>2. c.socket = "open" \/ c.answer = "error"
        BY <3>0, <3>1 DEF Sound
      <4>3. /\ Answer(c) \in ConnType /\ Answer(c).pc = "pending"
            /\ Answer(c).socket = "open" \/ Answer(c).answer = "error"
        BY <3>0, <3>1, <4>2, AnswerFacts
      <4> QED BY <3>1, <4>1, <4>3 DEF Follows, Sound, Held
    <3>2. CASE c.pc = "attempt"
      <4>1. conn'[u] = Finish(Answer(c))
        BY <1>1, <3>2 DEF Stop
      <4>2. c.socket = "open"
        BY <3>0, <3>2 DEF Sound
      <4>3. Follows(Finish(Answer(c)), c) /\ Finish(Answer(c)).pc = "done"
        BY <3>0, <4>2, AnswerFacts, FinishFacts, Finished
      <4> QED BY <4>1, <4>3
    <3>3. CASE c.pc = "paired"
      <4>1. conn'[u] = ClosePair(c)
        BY <1>1, <3>3 DEF Stop
      <4> QED BY <3>0, <3>3, <4>1, CloseFacts
    <3>4. CASE c.pc \notin {"pending", "attempt", "paired"}
      <4>1. conn'[u] = c
        BY <1>1, <3>4 DEF Stop
      <4> QED BY <3>0, <3>4, <4>1 DEF Follows, Held
    <3> QED BY <3>1, <3>2, <3>3, <3>4
  <2> QED BY <1>1, <2>1 DEF Stop, Follows, Sound
<1>2. CASE DrainTimeout
  <2>1. ASSUME NEW u \in Upgrades
        PROVE  Follows(conn'[u], conn[u]) /\ (conn'[u].pc = "paired" => Cut(conn'[u]))
    <3> DEFINE c == conn[u]
    <3>0. Sound(c) /\ c \in ConnType
      BY SoundConn
    <3>1. CASE u \in Connections
      <4> DEFINE p == [c EXCEPT !.socket = "gone", !.upstream = "closed"]
      <4>1. conn'[u] = Finish(p)
        BY <1>2, <3>1 DEF DrainTimeout, Terminated
      <4>2. p \in ConnType /\ p.socket = "gone"
        BY <3>0 DEF ConnType, Socket, Side
      <4>3. Follows(Finish(p), c) /\ Finish(p).pc = "done"
        BY <4>2, FinishFacts, Finished
      <4> QED BY <4>1, <4>3
    <3>2. CASE u \notin Connections
      <4>1. conn'[u] = c /\ c.pc # "paired"
        BY <1>2, <3>2 DEF DrainTimeout, Connections
      <4> QED BY <3>0, <4>1 DEF Follows
    <3> QED BY <3>1, <3>2
  <2> QED BY <1>2, <2>1 DEF DrainTimeout, Follows, Sound
<1> QED BY <1>1, <1>2

LEMMA ShutdownSafe ==
  ASSUME Safe, Shutdown
  PROVE  Safe' /\ Forwards
<1> USE DEF Shutdown
<1>1. CASE Stop \/ DrainTimeout
  <2>1. /\ conn' \in [Upgrades -> ConnType]
        /\ \A u \in Upgrades : Sound(conn'[u]) /\ (Held(conn'[u]) => Held(conn[u]))
        /\ \A u \in Upgrades : conn'[u].pc = "paired" => Cut(conn'[u])
        /\ Forwards
    BY <1>1, ShutdownKeeps DEF Follows, Forwards
  <2>2. /\ disposed /\ UNCHANGED <<disposed, leased, request>> /\ stopping' \in {"draining", "binding"}
        /\ generation' \in GenerationType /\ generation'.state = "undefined" /\ leased
    BY <1>1, SoundConn DEF Stop, DrainTimeout, GenerationType, Safe, Phased, TypeOK
  <2>3. Connections' \subseteq Connections /\ ActiveRequests' = ActiveRequests
    BY <2>1, <2>2 DEF Connections, ActiveRequests, Held
  <2>4. stopping' = "binding" => Connections' = {}
    <3>1. SUFFICES ASSUME DrainTimeout, NEW u \in Connections PROVE u \notin Connections'
      BY <1>1, <2>2, <2>3 DEF Stop
    <3> DEFINE p == [conn[u] EXCEPT !.socket = "gone", !.upstream = "closed"]
    <3>2. u \in Upgrades /\ conn'[u] = Finish(p)
      BY <3>1 DEF DrainTimeout, Terminated, Connections
    <3>3. Finish(p).pc = "done"
      BY DEF Finish, Idle
    <3> QED BY <3>2, <3>3 DEF Connections
  <2>5. TypeOK' /\ NeverDropped' /\ OldConnectionsSevered'
    BY <2>1, <2>2 DEF Safe, TypeOK, NeverDropped, OldConnectionsSevered, Paired, Sound, Cut
  <2>6. LimitsKept' /\ (IsFiniteSet(Connections) /\ IsFiniteSet(ActiveRequests))'
    <3>1. /\ IsFiniteSet(Connections) /\ IsFiniteSet(Connections')
          /\ Cardinality(Connections') <= Cardinality(Connections)
          /\ Cardinality(Connections) \in Nat /\ Cardinality(Connections') \in Nat
      BY <2>3, FS_Subset, FS_CardinalityType DEF Safe, Phased
    <3> QED BY <2>3, <3>1, LimitsAssumption DEF Safe, Phased, LimitsKept
  <2>7. (\A u \in Upgrades :
           /\ conn[u].pc = "pending" => conn[u].socket = "open" \/ conn[u].answer = "error"
           /\ conn[u].pc = "attempt" => conn[u].socket = "open")'
    BY <2>1 DEF Sound
  <2>8. Phased'
    BY <2>2, <2>4, <2>6, <2>7 DEF Phased
  <2> QED BY <2>1, <2>5, <2>6, <2>8 DEF Safe
<1>2. CASE Drained \/ BindingCloses \/ Release
  BY <1>2 DEF Drained, BindingCloses, Release, AllClosed, Safe, TypeOK, OldConnectionsSevered, LimitsKept,
     NeverDropped, Phased, Connections, ActiveRequests, Awaited, Paired, Current, Forwards
<1> QED BY <1>1, <1>2
-----------------------------------------------------------------------------
(* The inductive invariant: types, cut connections, the limits, answers and *)
(* the phases of the shutdown, in every reachable state.                    *)
THEOREM ProxySafe == Spec => []Safe
<1>1. Init => Safe
  <2> SUFFICES ASSUME Init PROVE Safe
    OBVIOUS
  <2>1. Connections = {} /\ ActiveRequests = {} /\ Awaited = {}
    BY DEF Init, Connections, ActiveRequests, Awaited, Idle
  <2>2. LimitsKept /\ IsFiniteSet(Connections) /\ IsFiniteSet(ActiveRequests)
    BY <2>1, FS_EmptySet, LimitsAssumption DEF LimitsKept
  <2>3. TypeOK
    <3>1. 0 \in 0 .. MaxGenerations
      BY LimitsAssumption
    <3> QED BY <3>1, IdleType DEF Init, TypeOK, GenerationType, RequestType
  <2>4. \A u \in Upgrades : conn[u].pc = "idle"
    BY DEF Init, Idle
  <2> QED BY <2>2, <2>3, <2>4 DEF Init, Safe, OldConnectionsSevered, NeverDropped, Phased, Paired
<1>2. Safe /\ [Next]_vars => Safe'
  <2> SUFFICES ASSUME Safe, [Next]_vars PROVE Safe'
    OBVIOUS
  <2>1. CASE UNCHANGED vars
    BY <2>1 DEF vars, Safe, TypeOK, OldConnectionsSevered, LimitsKept, NeverDropped, Phased,
       Connections, ActiveRequests, Awaited, Paired, Current
  <2> QED BY <2>1, SessionSafe, ShutdownSafe, UpgradeSafe, RelaySafe, RequestSafe DEF Next
<1> QED BY <1>1, <1>2, PTL DEF Spec

(* Types: the generation, the upgrades and the requests keep their ranges.  *)
THEOREM TypeCorrect == Spec => []TypeOK
BY ProxySafe, PTL DEF Safe

(* OldConnectionsSevered: whatever the session, the clients and the upstream*)
(* do, and in any number, no pair of an earlier generation relays.          *)
THEOREM OldConnectionsCut == Spec => []OldConnectionsSevered
BY ProxySafe, PTL DEF Safe

(* LimitsKept: slots are counted from the acceptance to the last close.     *)
THEOREM LimitsHold == Spec => []LimitsKept
BY ProxySafe, PTL DEF Safe

(* NeverDropped: every upgrade whose client stayed was answered.            *)
THEOREM UpgradesAnswered == Spec => []NeverDropped
BY ProxySafe, PTL DEF Safe

(* ReleasedAfterTraffic: the lease goes after the last WebSocket, the last  *)
(* request whose client waits, and the generation.                          *)
THEOREM LeaseAfterTraffic == Spec => []ReleasedAfterTraffic
<1>1. Safe => ReleasedAfterTraffic
  BY DEF Safe, Phased, ReleasedAfterTraffic
<1> QED BY <1>1, ProxySafe, PTL

(* ForwardsToCurrent: only HandshakePrepared and RequestProbed go upstream  *)
(* after a probe, and both look at the generation again.                    *)
THEOREM ForwardsCurrent == Spec => ForwardsToCurrent
<1>1. ASSUME Safe, [Next]_vars
      PROVE  /\ \A u \in Upgrades :
                  conn[u].pc = "pending" /\ conn'[u].pc = "attempt" => Current(conn[u].gen)
             /\ \A r \in Requests :
                  request[r].pc = "probing" /\ request'[r].pc = "upstream" => Current(request[r].gen)
  <2>1. Forwards
    <3>1. CASE \E r \in Requests : Http(r)
      BY <3>1, <1>1 DEF Http, RequestArrives, RequestProbed, RequestEnds, RequestLeaves, Forwards
    <3>2. CASE UNCHANGED vars
      BY <3>2 DEF vars, Forwards
    <3> QED BY <1>1, <3>1, <3>2, SessionSafe, ShutdownSafe, UpgradeSafe, RelaySafe DEF Next
  <2>2. ASSUME NEW r \in Requests, request[r].pc = "probing", request'[r].pc = "upstream"
        PROVE  Current(request[r].gen)
    <3>1. request \in [Requests -> RequestType]
      BY <1>1 DEF Safe, TypeOK
    <3>2. UNCHANGED request => FALSE
      BY <2>2
    <3>3. PICK s \in Requests : Http(s)
      BY <1>1, <3>2 DEF Next, Session, Shutdown, Upgrade, Relay, StageGeneration, PublishGeneration,
         ClearGeneration, Dispose, Stop, Drained, DrainTimeout, BindingCloses, Release, UpgradeArrives,
         HandshakePrepared, ClientLeaves, UpstreamOpens, UpstreamRefuses, LeftoverCloses, ClientMessage,
         RelayFails, UpstreamFails, ClientCloses, UpstreamCloses, vars
    <3> QED BY <2>2, <3>1, <3>3 DEF Http, RequestArrives, RequestProbed, RequestEnds, RequestLeaves, RequestTo, AdmitsGeneration, RequestType
  <2> QED BY <2>1, <2>2 DEF Forwards
<1>2. Safe /\ [Next]_vars =>
        [/\ \A u \in Upgrades :
              conn[u].pc = "pending" /\ conn'[u].pc = "attempt" => Current(conn[u].gen)
         /\ \A r \in Requests :
              request[r].pc = "probing" /\ request'[r].pc = "upstream" => Current(request[r].gen)]_vars
  BY <1>1
<1> QED BY <1>2, ProxySafe, PTL DEF Spec, ForwardsToCurrent

(* EndpointSpec: what the session tells the proxy and the losses it reports *)
(* itself are the behaviour of one endpoint.                                *)
THEOREM ProxyImplementsEndpoint == Spec => EndpointSpec
<1>1. Init => Endpoint!Init
  BY DEF Init, Endpoint!Init, Unavailable
<1>2. ASSUME Safe, [Next]_vars PROVE [Endpoint!Next]_(Endpoint!vars)
  <2> USE DEF Endpoint!vars, Unavailable
  <2>0. generation \in GenerationType
    BY <1>2, SoundConn
  <2>1. ASSUME UNCHANGED <<generation, disposed>> PROVE [Endpoint!Next]_(Endpoint!vars)
    BY <2>1
  <2>2. ASSUME generation'.state = "undefined", UNCHANGED disposed PROVE [Endpoint!Next]_(Endpoint!vars)
    BY <2>2 DEF Endpoint!Next, Endpoint!Clear, Endpoint!CutOff
  <2>3. Cleared => generation'.state = "undefined"
    BY <2>0 DEF Cleared, GenerationType
  <2>4. CASE StageGeneration
    <3>1. generation.id + 1 \in 1 .. MaxGenerations
      BY <2>0, <2>4, LimitsAssumption DEF StageGeneration, GenerationType
    <3>2. Endpoint!Stage(generation.id + 1)
      BY <2>4 DEF StageGeneration, Endpoint!Stage
    <3> QED BY <3>1, <3>2 DEF Endpoint!Next
  <2>5. CASE PublishGeneration
    <3>1. Endpoint!Publish
      BY <2>0, <2>5 DEF PublishGeneration, Endpoint!Publish, GenerationType
    <3> QED BY <3>1 DEF Endpoint!Next
  <2>6. CASE ClearGeneration
    BY <2>2, <2>3, <2>6 DEF ClearGeneration, Clear, Cleared
  <2>7. CASE Dispose
    <3>1. Endpoint!End
      BY <2>7 DEF Dispose, Endpoint!End
    <3> QED BY <3>1 DEF Endpoint!Next
  <2>8. CASE Shutdown
    BY <2>0, <2>1, <2>2, <2>8 DEF Shutdown, Stop, Drained, DrainTimeout, BindingCloses, Release, GenerationType
  <2>9. ASSUME NEW u \in Upgrades, Upgrade(u) \/ Relay(u) PROVE [Endpoint!Next]_(Endpoint!vars)
    <3>1. (UNCHANGED generation \/ Cleared) /\ UNCHANGED disposed
      BY <2>9 DEF Upgrade, Relay, UpgradeArrives, HandshakePrepared, ClientLeaves, UpstreamOpens,
         UpstreamRefuses, LeftoverCloses, ClientMessage, RelayFails, UpstreamFails, ClientCloses,
         UpstreamCloses, Change, Settle, Clear, Cleared
    <3> QED BY <2>1, <2>2, <2>3, <3>1
  <2>10. ASSUME NEW r \in Requests, Http(r) PROVE [Endpoint!Next]_(Endpoint!vars)
    BY <2>1, <2>10 DEF Http, RequestArrives, RequestProbed, RequestEnds, RequestLeaves
  <2>11. CASE UNCHANGED vars
    BY <2>1, <2>11 DEF vars
  <2> QED BY <1>2, <2>4, <2>5, <2>6, <2>7, <2>8, <2>9, <2>10, <2>11 DEF Next, Session
<1> QED BY <1>1, <1>2, ProxySafe, PTL DEF Spec, EndpointSpec, Endpoint!Spec
=============================================================================
