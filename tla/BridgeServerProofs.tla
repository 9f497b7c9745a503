------------------------- MODULE BridgeServerProofs -------------------------
(* Proofs about BridgeServer, for any lists, pages, children and changes of *)
(* their tools: the cache is never stale, and page tools stay with the      *)
(* generation they were discovered in.                                      *)
EXTENDS BridgeServer, TLAPS

(* What a child lists is of a type that a promise can hold.                 *)
LEMMA Ranges ==
  /\ NoOwner \in 0 .. MaxChildren /\ NoGeneration \in 0 .. MaxChildren
  /\ Children \subseteq 0 .. MaxChildren /\ Changes \subseteq 0 .. MaxChanges
  /\ 1 \in Children /\ 0 \in 0 .. MaxChanges
  BY BoundsAssumption DEF NoOwner, NoGeneration, Children, Changes

(* A step that touches none of its variables keeps an invariant.            *)
LEMMA Frames ==
  /\ SessionInv /\ UNCHANGED <<managed, phase, session, child, list>> => SessionInv'
  /\ CacheInv /\ UNCHANGED <<managed, phase, session, child, checks, cache, fetch, list>> => CacheInv'
  /\ ListInv /\ UNCHANGED <<session, child, fetch, list>> => ListInv'
  BY DEF SessionInv, CacheInv, ListInv, Ready, Owner, Alive, Settled, Announced

(* Neither is what the cache invariant says of the session and the changes. *)
LEMMA SameView ==
  ASSUME UNCHANGED <<managed, phase, session, child, checks>>
  PROVE  Owner' = Owner /\ (Settled' <=> Settled) /\ (Announced' <=> Announced)
  BY DEF Settled, Announced, Ready, Owner, Alive

(* An empty cache holds nothing stale.                                      *)
LEMMA ClearedSafe == ASSUME Clear PROVE CacheInv'
  BY DEF Clear, CacheInv

LEMMA InitSafe == Init => Safe
<1> SUFFICES ASSUME Init PROVE Safe
  OBVIOUS
<1>1. TypeOK
  <2>1. list \in [Lists -> Listing]
    BY Ranges, CursorsAssumption DEF Init, Listing
  <2>2. fetch \in [Lists -> Fetch]
    BY Ranges DEF Init, Fetch
  <2>3. /\ child \in [Children -> [state: {"absent", "open", "closed"}, version: 0 .. MaxChanges, dynamic: BOOLEAN]]
        /\ checks \in [Changes -> [child: 0 .. MaxChildren,
                                   state: {"none", "written", "held", "resumed", "done"}]]
    BY Ranges DEF Init
  <2>4. wire \in Seq(Messages) /\ cache \in [Cursors -> Lists \cup {NoFetch}] /\ count \in 0 .. 2
    BY DEF Init
  <2> QED BY <2>1, <2>2, <2>3, <2>4, Ranges DEF Init, TypeOK
<1>2. SessionInv
  BY DEF Init, SessionInv, Ready, Owner, Alive, NoOwner, NoGeneration
<1>3. CacheInv
  BY DEF Init, CacheInv
<1>4. ListInv
  BY DEF Init, ListInv
<1> QED BY <1>1, <1>2, <1>3, <1>4 DEF Safe
-----------------------------------------------------------------------------
(* Starting.                                                                *)

LEMMA PrepareSafe == ASSUME Safe, Prepare \/ StartFails PROVE Safe'
<1>1. TypeOK'
  BY DEF Safe, TypeOK, Prepare, StartFails
<1>2. SessionInv'
  BY DEF Safe, SessionInv, Prepare, StartFails, Ready, Owner, Alive
<1>3. CacheInv'
  BY DEF Safe, CacheInv, Prepare, StartFails, Settled, Ready, Owner, Alive, Announced
<1>4. ListInv'
  BY Frames DEF Safe, Prepare, StartFails
<1> QED BY <1>1, <1>2, <1>3, <1>4 DEF Safe

LEMMA ConnectedSafe == ASSUME Safe, Connected PROVE Safe'
<1>1. /\ session = [owner |-> NoOwner, generation |-> NoGeneration, restarting |-> FALSE]
      /\ \A q \in Lists : list[q].pc = "idle"
  BY DEF Safe, SessionInv, Connected
<1>2. TypeOK'
  <2>1. session' \in [owner: 0 .. MaxChildren, generation: 0 .. MaxChildren, restarting: BOOLEAN]
    <3>1. session' = [owner |-> 1, generation |-> IF managed THEN 1 ELSE NoGeneration, restarting |-> FALSE]
      BY <1>1 DEF Connected
    <3> QED BY <3>1, Ranges
  <2>2. child' \in [Children -> [state: {"absent", "open", "closed"}, version: 0 .. MaxChanges, dynamic: BOOLEAN]]
    <3>1. [child[1] EXCEPT !.state = "open"]
            \in [state: {"absent", "open", "closed"}, version: 0 .. MaxChanges, dynamic: BOOLEAN]
      <4>1. child[1] \in [state: {"absent", "open", "closed"}, version: 0 .. MaxChanges, dynamic: BOOLEAN]
        BY Ranges DEF Safe, TypeOK
      <4> QED BY <4>1
    <3>2. child' = [child EXCEPT ![1] = [child[1] EXCEPT !.state = "open"]]
      BY DEF Connected
    <3> QED BY <3>1, <3>2, Ranges DEF Safe, TypeOK
  <2> QED BY <2>1, <2>2 DEF Safe, TypeOK, Connected
<1>3. SessionInv'
  BY <1>1, Ranges DEF Safe, TypeOK, SessionInv, Connected, Ready, Owner, Alive, NoOwner, NoGeneration
<1>4. CacheInv'
  BY <1>1 DEF Safe, TypeOK, CacheInv, ListInv, Connected
<1>5. ListInv'
  BY <1>1 DEF Safe, ListInv, Connected
<1> QED BY <1>2, <1>3, <1>4, <1>5 DEF Safe
-----------------------------------------------------------------------------
(* The cache.                                                               *)

LEMMA SentType ==
  ASSUME TypeOK, NEW f \in Fetch
  PROVE  /\ Sent(f) \in Fetch
         /\ Sent(f).status \in {"sent", "unsent"}
         /\ Sent(f).status = "sent" => Alive(Owner) /\ Sent(f).child = Owner
  BY DEF TypeOK, Sent, Fetch, Owner, Alive

(* Rejected promises take their entries with them.                          *)
LEMMA FailsSafe ==
  ASSUME Safe, NEW qs \in SUBSET Lists, Fails(qs), \A q \in qs : fetch[q].status # "none"
  PROVE  /\ cache' \in [Cursors -> Lists \cup {NoFetch}] /\ fetch' \in [Lists -> Fetch]
         /\ \A k \in Cursors : cache'[k] # NoFetch =>
              cache'[k] = cache[k] /\ cache[k] \notin qs /\ fetch'[cache[k]] = fetch[cache[k]]
         /\ \A q \in Lists : IF q \in qs THEN fetch'[q].status = "failed" ELSE fetch'[q] = fetch[q]
<1>1. cache' \in [Cursors -> Lists \cup {NoFetch}]
  BY DEF Safe, TypeOK, Fails
<1>2. fetch' \in [Lists -> Fetch]
  BY DEF Safe, TypeOK, Fails, Fetch
<1>3. \A q \in Lists : IF q \in qs THEN fetch'[q].status = "failed" ELSE fetch'[q] = fetch[q]
  BY DEF Safe, TypeOK, Fails, Fetch
<1>4. ASSUME NEW k \in Cursors, cache'[k] # NoFetch
      PROVE  cache'[k] = cache[k] /\ cache[k] \notin qs /\ fetch'[cache[k]] = fetch[cache[k]]
  BY <1>3, <1>4 DEF Safe, TypeOK, CacheInv, Fails
<1> QED BY <1>1, <1>2, <1>3, <1>4

LEMMA ListArrivesSafe ==
  ASSUME Safe, NEW q \in Lists, NEW k \in Cursors, ListArrives(q, k) PROVE Safe'
<1> DEFINE joined == IF cache[k] = NoFetch THEN q ELSE cache[k]
           entry  == [list[q] EXCEPT !.pc = "waiting", !.cursor = k, !.of = joined,
                                     !.before = session.generation]
<1>1. /\ list' = [list EXCEPT ![q] = entry] /\ phase = "serving" /\ list[q].pc = "idle"
      /\ fetch[q].status = "none" /\ fetch[q] \in Fetch
  BY DEF Safe, TypeOK, ListInv, ListArrives
<1>2. joined \in Lists /\ entry \in Listing
  BY DEF Safe, TypeOK, Listing, ListArrives
<1>3. \A c \in Cursors : cache[c] # NoFetch => cache[c] \in Lists /\ cache[c] # q
  BY <1>1 DEF Safe, TypeOK, CacheInv
<1>4. \A p \in Lists : p # q => list'[p] = list[p]
  BY <1>1 DEF Safe, TypeOK
<1>5. list'[q] = entry
  BY <1>1 DEF Safe, TypeOK
<1>6. CASE cache[k] # NoFetch
  <2>1. UNCHANGED <<cache, fetch>> /\ joined = cache[k]
    BY <1>6 DEF ListArrives
  <2>2. TypeOK'
    BY <1>1, <1>2, <2>1 DEF Safe, TypeOK, ListArrives
  <2>3. SessionInv'
    BY <1>1 DEF Safe, SessionInv, ListArrives, Ready, Owner, Alive
  <2>4. CacheInv'
    BY <1>3, <1>4, <2>1 DEF Safe, CacheInv, ListArrives, Settled, Ready, Owner, Alive, Announced
  <2>5. ListInv'
    BY <1>1, <1>2, <1>3, <1>4, <1>5, <1>6, <2>1
       DEF Safe, TypeOK, Fetch, ListInv, CacheInv, SessionInv, ListArrives, Settled, Ready, Owner, Alive
  <2> QED BY <2>2, <2>3, <2>4, <2>5 DEF Safe
<1>7. CASE cache[k] = NoFetch
  <2> DEFINE asked == IF session.restarting THEN [fetch[q] EXCEPT !.status = "held"] ELSE Sent(fetch[q])
  <2>1. /\ joined = q /\ cache' = [cache EXCEPT ![k] = q] /\ fetch' = [fetch EXCEPT ![q] = asked]
        /\ UNCHANGED <<managed, phase, runtime, session, child, wire, checks, count>>
    BY <1>7 DEF ListArrives
  <2>2. /\ asked \in Fetch /\ asked.status \in {"held", "sent", "unsent"}
        /\ asked.status = "held" => session.restarting
        /\ asked.status = "sent" => Alive(Owner) /\ asked.child = Owner
    BY <1>1, SentType DEF Safe, Fetch
  <2>3. TypeOK'
    BY <1>1, <1>2, <2>1, <2>2 DEF Safe, TypeOK
  <2>4. SessionInv'
    BY <1>1, <2>1 DEF Safe, SessionInv, Ready, Owner, Alive
  <2>5. \A p \in Lists : p # q => fetch'[p] = fetch[p]
    BY <2>1 DEF Safe, TypeOK
  <2>6. fetch'[q] = asked
    BY <2>1 DEF Safe, TypeOK
  <2>7. CacheInv'
    <3>1. Owner' = Owner /\ (Settled' <=> Settled) /\ (Announced' <=> Announced)
      BY <2>1 DEF Settled, Announced, Ready, Owner, Alive
    <3>2. ASSUME NEW c \in Cursors, c # k, cache[c] # NoFetch
          PROVE  cache'[c] = cache[c] /\ fetch'[cache[c]] = fetch[cache[c]] /\ list'[cache[c]] = list[cache[c]]
      BY <1>3, <1>4, <2>1, <2>5, <3>2 DEF Safe, TypeOK
    <3>3. cache'[k] = q /\ list'[q].cursor = k
      BY <1>5, <2>1 DEF Safe, TypeOK, Listing
    <3> QED BY <2>1, <2>2, <2>6, <3>1, <3>2, <3>3 DEF Safe, TypeOK, CacheInv
  <2>8. ListInv'
    <3>1. \A p \in Lists : list[p].pc = "waiting" => list[p].of # q
      BY <1>1 DEF Safe, ListInv
    <3> QED BY <1>1, <1>2, <1>4, <1>5, <2>1, <2>2, <2>5, <2>6, <3>1
       DEF Safe, TypeOK, Listing, ListInv, SessionInv, Ready, Owner, Alive
  <2> QED BY <2>3, <2>4, <2>7, <2>8 DEF Safe
<1> QED BY <1>6, <1>7

LEMMA ResumesSafe == ASSUME Safe, NEW q \in Lists, Resumes(q) PROVE Safe'
<1>1. /\ fetch[q] \in Fetch /\ fetch[q].status = "resumed"
      /\ fetch' = [fetch EXCEPT ![q] = Sent(fetch[q])]
      /\ UNCHANGED <<managed, phase, runtime, session, child, wire, checks, cache, list, count>>
  BY DEF Safe, TypeOK, Resumes
<1>2. Sent(fetch[q]) \in Fetch /\ Sent(fetch[q]).status \in {"sent", "unsent"}
  BY <1>1, SentType DEF Safe
<1>3. fetch'[q] = Sent(fetch[q]) /\ \A p \in Lists : p # q => fetch'[p] = fetch[p]
  BY <1>1 DEF Safe, TypeOK
<1>4. TypeOK'
  BY <1>1, <1>2 DEF Safe, TypeOK
<1>5. SessionInv'
  BY <1>1, Frames DEF Safe
<1>6. CacheInv'
  <2>1. \A k \in Cursors : cache[k] # NoFetch => cache[k] \in Lists /\ cache[k] # q
    BY <1>1 DEF Safe, TypeOK, CacheInv
  <2> QED BY <1>1, <1>3, <2>1 DEF Safe, CacheInv, Settled, Ready, Owner, Alive, Announced
<1>7. ListInv'
  BY <1>1, <1>2, <1>3 DEF Safe, ListInv
<1> QED BY <1>4, <1>5, <1>6, <1>7 DEF Safe

LEMMA FetchFailsSafe == ASSUME Safe, NEW q \in Lists, FetchFails(q) PROVE Safe'
<1>1. /\ Fails({q}) /\ fetch[q].status \in {"unsent", "sent", "answering"}
      /\ UNCHANGED <<managed, phase, runtime, session, child, wire, checks, list, count>>
  BY DEF FetchFails
<1>2. /\ cache' \in [Cursors -> Lists \cup {NoFetch}] /\ fetch' \in [Lists -> Fetch]
      /\ \A k \in Cursors : cache'[k] # NoFetch =>
           cache'[k] = cache[k] /\ fetch'[cache[k]] = fetch[cache[k]]
      /\ \A p \in Lists : IF p = q THEN fetch'[p].status = "failed" ELSE fetch'[p] = fetch[p]
  BY <1>1, FailsSafe
<1>3. TypeOK'
  BY <1>1, <1>2 DEF Safe, TypeOK
<1>4. SessionInv'
  BY <1>1, Frames DEF Safe
<1>5. CacheInv'
  BY <1>1, <1>2 DEF Safe, CacheInv, Settled, Ready, Owner, Alive, Announced
<1>6. ListInv'
  BY <1>1, <1>2 DEF Safe, ListInv
<1> QED BY <1>3, <1>4, <1>5, <1>6 DEF Safe

LEMMA RepliedSafe == ASSUME Safe, NEW q \in Lists, Replied(q) PROVE Safe'
<1> DEFINE d == VisibleDynamic(list[q].before, fetch[list[q].of].dynamic)
<1>1. /\ UNCHANGED <<managed, phase, runtime, session, child, wire, checks, cache, fetch>>
      /\ \/ list' = [list EXCEPT ![q].pc = "error"] /\ UNCHANGED count
         \/ /\ list' = [list EXCEPT ![q] = [list[q] EXCEPT !.pc = "replied", !.dynamic = d]]
            /\ count' = Larger(count, Size([dynamic |-> d]))
  BY DEF Replied
<1>2. d \in BOOLEAN
  <2>1. list[q].of \in Lists
    BY DEF Safe, ListInv, Replied
  <2> QED BY <2>1 DEF Safe, TypeOK, Fetch, VisibleDynamic, SameGeneration, Ready
<1> HIDE DEF d
<1>3. /\ list' \in [Lists -> Listing] /\ list'[q].pc \notin {"idle", "waiting"}
      /\ \A p \in Lists : list'[p].cursor = list[p].cursor
      /\ \A p \in Lists : p # q => list'[p] = list[p]
  <2>1. CASE list' = [list EXCEPT ![q].pc = "error"]
    BY <2>1 DEF Safe, TypeOK, Listing
  <2>2. CASE list' = [list EXCEPT ![q] = [list[q] EXCEPT !.pc = "replied", !.dynamic = d]]
    <3>1. [list[q] EXCEPT !.pc = "replied", !.dynamic = d] \in Listing
      <4>1. list[q] \in Listing
        BY DEF Safe, TypeOK
      <4> QED BY <1>2, <4>1 DEF Listing
    <3> QED BY <2>2, <3>1 DEF Safe, TypeOK, Listing
  <2> QED BY <1>1, <2>1, <2>2
<1>4. TypeOK'
  <2>1. count' \in 0 .. 2
    BY <1>1 DEF Safe, TypeOK, Larger, Size
  <2> QED BY <1>1, <1>3, <2>1 DEF Safe, TypeOK
<1>5. SessionInv'
  BY <1>1 DEF Safe, SessionInv, Replied, Ready, Owner, Alive
<1>6. CacheInv'
  BY <1>1, <1>3, SameView DEF Safe, TypeOK, CacheInv
<1>7. ListInv'
  BY <1>1, <1>3 DEF Safe, ListInv
<1> QED BY <1>4, <1>5, <1>6, <1>7 DEF Safe
-----------------------------------------------------------------------------
(* The upstream child.                                                      *)

LEMMA ToolsChangeSafe == ASSUME Safe, NEW n \in Changes, ToolsChange(n) PROVE Safe'
<1>1. PICK d \in BOOLEAN :
        child' = [child EXCEPT ![Owner] = [child[Owner] EXCEPT !.version = n, !.dynamic = d]]
  BY DEF Safe, TypeOK, ToolsChange
<1>2. /\ Alive(Owner) /\ Owner \in Children
      /\ checks' = [checks EXCEPT ![n] = [child |-> Owner, state |-> "written"]]
      /\ wire' = Append(wire, [kind |-> "changed", n |-> n])
      /\ UNCHANGED <<managed, phase, runtime, session, cache, fetch, list, count>>
  BY DEF Safe, TypeOK, ToolsChange, Alive, Owner, Children, NoOwner
<1>3. \A c \in Children : child'[c].state = child[c].state
  BY <1>1, <1>2 DEF Safe, TypeOK
<1>4. TypeOK'
  <2>1. wire' \in Seq(Messages)
    BY <1>2 DEF Safe, TypeOK, Messages
  <2>2. child' \in [Children -> [state: {"absent", "open", "closed"}, version: 0 .. MaxChanges, dynamic: BOOLEAN]]
    <3>1. [child[Owner] EXCEPT !.version = n, !.dynamic = d]
            \in [state: {"absent", "open", "closed"}, version: 0 .. MaxChanges, dynamic: BOOLEAN]
      <4>1. child[Owner] \in [state: {"absent", "open", "closed"}, version: 0 .. MaxChanges, dynamic: BOOLEAN]
        BY <1>2 DEF Safe, TypeOK
      <4>2. n \in 0 .. MaxChanges /\ d \in BOOLEAN
        BY <1>1, Ranges
      <4> QED BY <4>1, <4>2
    <3> QED BY <1>1, <3>1 DEF Safe, TypeOK
  <2>3. checks' \in [Changes -> [child: 0 .. MaxChildren,
                                 state: {"none", "written", "held", "resumed", "done"}]]
    BY <1>2 DEF Safe, TypeOK, Owner
  <2> QED BY <1>2, <2>1, <2>2, <2>3 DEF Safe, TypeOK
<1>5. SessionInv'
  BY <1>2, <1>3 DEF Safe, SessionInv, Ready, Owner, Alive, Children, NoOwner
<1>6. CacheInv'
  <2>1. Owner' = Owner /\ (Settled' => Settled)
    BY <1>2, <1>3 DEF Settled, Ready, Owner, Alive
  <2>2. checks'[n].child = Owner' /\ checks'[n].state = "written"
    BY <1>2, <2>1 DEF Safe, TypeOK
  <2>3. Announced'
    BY <2>2 DEF Announced, Owner
  <2> QED BY <1>2, <2>1, <2>3 DEF Safe, CacheInv
<1>7. ListInv'
  BY <1>2, <1>3 DEF Safe, TypeOK, ListInv, Listing, Children, NoGeneration
<1> QED BY <1>4, <1>5, <1>6, <1>7 DEF Safe

LEMMA AnswersSafe == ASSUME Safe, NEW q \in Lists, Answers(q) PROVE Safe'
<1> DEFINE c == child[fetch[q].child]
           answer == [fetch[q] EXCEPT !.status = "answering", !.version = c.version, !.dynamic = c.dynamic]
<1>1. /\ fetch[q].status = "sent" /\ Alive(fetch[q].child) /\ fetch[q] \in Fetch
      /\ fetch' = [fetch EXCEPT ![q] = answer]
      /\ wire' = Append(wire, [kind |-> "list", q |-> q])
      /\ UNCHANGED <<managed, phase, runtime, session, child, checks, cache, list, count>>
  BY DEF Safe, TypeOK, Answers
<1>2. answer \in Fetch
  <2>1. fetch[q].child \in Children
    BY <1>1 DEF Fetch, Alive, NoOwner, Children
  <2> QED BY <1>1, <2>1 DEF Safe, TypeOK, Fetch
<1>3. fetch'[q] = answer /\ \A p \in Lists : p # q => fetch'[p] = fetch[p]
  BY <1>1 DEF Safe, TypeOK
<1>4. answer.status = "answering" /\ answer.child = fetch[q].child /\ answer.version = c.version
  BY <1>1 DEF Fetch
<1>5. TypeOK'
  <2>1. wire' \in Seq(Messages)
    BY <1>1 DEF Safe, TypeOK, Messages
  <2> QED BY <1>1, <1>2, <2>1 DEF Safe, TypeOK
<1>6. SessionInv'
  BY <1>1, Frames DEF Safe
<1>7. CacheInv'
  BY <1>1, <1>3, <1>4, SameView DEF Safe, TypeOK, CacheInv
<1>8. ListInv'
  BY <1>1, <1>3, <1>4 DEF Safe, ListInv
<1> QED BY <1>5, <1>6, <1>7, <1>8 DEF Safe

LEMMA ReceiveListSafe == ASSUME Safe, ReceiveList PROVE Safe'
<1>1. PICK q \in Lists : fetch' = IF fetch[q].status = "answering"
                                    THEN [fetch EXCEPT ![q].status = "done"] ELSE fetch
  <2>1. Head(wire) \in Messages /\ Head(wire).kind = "list"
    BY DEF Safe, TypeOK, ReceiveList
  <2>2. Head(wire).q \in Lists
    BY <2>1 DEF Messages
  <2> QED BY <2>2 DEF ReceiveList
<1>2. UNCHANGED <<managed, phase, runtime, session, child, checks, cache, list, count>>
  BY DEF ReceiveList
<1>3. /\ fetch' \in [Lists -> Fetch] /\ \A p \in Lists : p # q => fetch'[p] = fetch[p]
      /\ \/ fetch'[q] = fetch[q]
         \/ /\ fetch[q].status = "answering" /\ fetch'[q].status = "done"
            /\ fetch'[q].child = fetch[q].child /\ fetch'[q].version = fetch[q].version
  BY <1>1 DEF Safe, TypeOK, Fetch
<1>4. TypeOK'
  <2>1. wire' \in Seq(Messages)
    BY DEF Safe, TypeOK, ReceiveList
  <2> QED BY <1>2, <1>3, <2>1 DEF Safe, TypeOK
<1>5. SessionInv'
  BY <1>2, Frames DEF Safe
<1>6. CacheInv'
  BY <1>2, <1>3, SameView DEF Safe, TypeOK, CacheInv
<1>7. ListInv'
  BY <1>2, <1>3 DEF Safe, ListInv
<1> QED BY <1>4, <1>5, <1>6, <1>7 DEF Safe

LEMMA ReceiveChangedSafe == ASSUME Safe, ReceiveChanged PROVE Safe'
<1>1. PICK n : /\ wire' = Tail(wire) /\ wire # <<>>
               /\ IF managed
                    THEN /\ checks' = [checks EXCEPT ![n].state =
                                         IF session.restarting THEN "held" ELSE "resumed"]
                         /\ UNCHANGED <<cache, count>>
                    ELSE checks' = [checks EXCEPT ![n].state = "done"] /\ Clear
  BY DEF ReceiveChanged
<1>2. UNCHANGED <<managed, phase, runtime, session, child, fetch, list>>
  BY DEF ReceiveChanged
<1>3. /\ checks' \in [Changes -> [child: 0 .. MaxChildren,
                                  state: {"none", "written", "held", "resumed", "done"}]]
      /\ managed => \A m \in Changes :
           /\ checks'[m].child = checks[m].child
           /\ checks'[m].state = checks[m].state \/ checks'[m].state \in {"held", "resumed"}
  <2>1. PICK s \in {"held", "resumed", "done"} :
          checks' = [checks EXCEPT ![n].state = s] /\ (managed => s \in {"held", "resumed"})
    BY <1>1
  <2>2. ASSUME NEW m \in Changes
        PROVE  /\ checks'[m] = IF m = n THEN [checks[m] EXCEPT !.state = s] ELSE checks[m]
               /\ checks[m] \in [child: 0 .. MaxChildren,
                                 state: {"none", "written", "held", "resumed", "done"}]
    BY <2>1 DEF Safe, TypeOK
  <2>3. checks' = [m \in Changes |-> checks'[m]]
    BY <2>1 DEF Safe, TypeOK
  <2> QED BY <2>1, <2>2, <2>3
<1>7. wire' \in Seq(Messages)
  BY <1>1 DEF Safe, TypeOK
<1>4. TypeOK'
  BY <1>1, <1>2, <1>3, <1>7 DEF Safe, TypeOK, Clear
<1>5. SessionInv' /\ ListInv'
  BY <1>2, Frames DEF Safe
<1>6. CacheInv'
  <2>1. CASE ~managed
    BY <1>1, <2>1, ClearedSafe
  <2>2. CASE managed
    <3>1. Announced => Announced'
      <4> SUFFICES ASSUME NEW m \in Changes, checks[m].child = Owner,
                          checks[m].state \in {"written", "held", "resumed"}
                   PROVE  checks'[m].child = Owner' /\ checks'[m].state \in {"written", "held", "resumed"}
        BY DEF Announced
      <4> QED BY <1>2, <1>3, <2>2 DEF Owner
    <3> QED BY <1>1, <1>2, <2>2, <3>1 DEF Safe, CacheInv, Settled, Ready, Owner, Alive
  <2> QED BY <2>1, <2>2
<1> QED BY <1>4, <1>5, <1>6 DEF Safe

LEMMA NotifiesSafe == ASSUME Safe, NEW n \in Changes, NotifiesIfCurrent(n) PROVE Safe'
<1>1. /\ checks' = [checks EXCEPT ![n].state = "done"]
      /\ IF checks[n].child = Owner THEN Clear ELSE UNCHANGED <<cache, count>>
      /\ UNCHANGED <<managed, phase, runtime, session, child, wire, fetch, list>>
  BY DEF NotifiesIfCurrent
<1>2. TypeOK'
  BY <1>1 DEF Safe, TypeOK, Clear
<1>3. SessionInv' /\ ListInv'
  BY <1>1, Frames DEF Safe
<1>4. CacheInv'
  <2>1. CASE checks[n].child = Owner
    BY <1>1, <2>1, ClearedSafe
  <2>2. CASE checks[n].child # Owner
    <3>1. Announced => Announced'
      BY <1>1, <2>2 DEF Safe, TypeOK, Announced, Owner
    <3> QED BY <1>1, <2>2, <3>1 DEF Safe, CacheInv, Settled, Ready, Owner, Alive
  <2> QED BY <2>1, <2>2
<1> QED BY <1>2, <1>3, <1>4 DEF Safe

(* A child that ends leaves the types and the past alone.                   *)
LEMMA GoneSafe ==
  ASSUME Safe, NEW c \in Children, Gone(c)
  PROVE  /\ child' \in [Children -> [state: {"absent", "open", "closed"}, version: 0 .. MaxChanges, dynamic: BOOLEAN]]
         /\ wire' \in Seq(Messages)
         /\ child'[c].state = "closed"
         /\ \A d \in Children : child[d].state # "absent" => child'[d].state # "absent"
<1>1. /\ child' \in [Children -> [state: {"absent", "open", "closed"}, version: 0 .. MaxChanges, dynamic: BOOLEAN]]
      /\ child'[c].state = "closed"
      /\ \A d \in Children : child[d].state # "absent" => child'[d].state # "absent"
  BY DEF Safe, TypeOK, Gone
<1>2. wire' \in Seq(Messages)
  BY DEF Gone
<1> QED BY <1>1, <1>2

LEMMA ChecksType ==
  ASSUME Safe
  PROVE  LostChanges \in [Changes -> [child: 0 .. MaxChildren,
                                      state: {"none", "written", "held", "resumed", "done"}]]
  BY DEF Safe, TypeOK, LostChanges

LEMMA ChildDiesSafe == ASSUME Safe, ChildDies PROVE Safe'
<1>1. /\ phase = "serving" /\ Alive(Owner) /\ Owner \in Children
      /\ Gone(Owner) /\ checks' = LostChanges
      /\ session' = [session EXCEPT !.generation = NoGeneration]
      /\ UNCHANGED <<managed, phase, runtime, list>>
  BY DEF Safe, TypeOK, ChildDies, Alive, Owner, NoOwner, Children
<1>2. /\ Owner' = Owner /\ ~Ready' /\ ~Alive(Owner)' /\ session'.restarting = session.restarting
  BY <1>1, GoneSafe DEF Safe, TypeOK, Owner, Ready, Alive
<1>3. /\ cache' \in [Cursors -> Lists \cup {NoFetch}] /\ fetch' \in [Lists -> Fetch] /\ count' \in 0 .. 2
      /\ \A q \in Lists : fetch'[q] = fetch[q] \/ (fetch[q].status # "none" /\ fetch'[q].status = "failed")
      /\ CacheInv'
  <2>1. \A q \in Running(Owner) : q \in Lists /\ fetch[q].status # "none"
    BY DEF Running
  <2>2. CASE managed /\ Ready
    <3>1. Clear
      BY <2>2 DEF ChildDies
    <3>2. fetch' = [q \in Lists |-> IF q \in Running(Owner) THEN [fetch[q] EXCEPT !.status = "failed"]
                                                            ELSE fetch[q]]
      BY <2>2 DEF ChildDies
    <3>3. cache' \in [Cursors -> Lists \cup {NoFetch}] /\ count' \in 0 .. 2 /\ CacheInv'
      BY <3>1, ClearedSafe DEF Clear
    <3>4. /\ fetch' \in [Lists -> Fetch]
          /\ \A q \in Lists : fetch'[q] = fetch[q] \/ (fetch[q].status # "none" /\ fetch'[q].status = "failed")
      <4>1. ASSUME NEW q \in Lists
            PROVE  /\ fetch'[q] \in Fetch
                   /\ fetch'[q] = fetch[q] \/ (fetch[q].status # "none" /\ fetch'[q].status = "failed")
        <5>1. fetch[q] \in Fetch
          BY DEF Safe, TypeOK
        <5>2. CASE q \in Running(Owner)
          <6>1. fetch'[q] = [fetch[q] EXCEPT !.status = "failed"]
            BY <3>2, <5>2
          <6> QED BY <2>1, <5>1, <5>2, <6>1 DEF Fetch
        <5>3. CASE q \notin Running(Owner)
          <6>1. fetch'[q] = fetch[q]
            BY <3>2, <5>3
          <6> QED BY <5>1, <6>1
        <5> QED BY <5>2, <5>3
      <4> QED BY <3>2, <4>1
    <3> QED BY <3>3, <3>4
  <2>3. CASE ~(managed /\ Ready)
    <3>1. Fails(Running(Owner)) /\ UNCHANGED count
      BY <2>3 DEF ChildDies
    <3>2. /\ cache' \in [Cursors -> Lists \cup {NoFetch}] /\ fetch' \in [Lists -> Fetch]
          /\ \A k \in Cursors : cache'[k] # NoFetch =>
               cache'[k] = cache[k] /\ fetch'[cache[k]] = fetch[cache[k]]
          /\ \A q \in Lists : IF q \in Running(Owner) THEN fetch'[q].status = "failed" ELSE fetch'[q] = fetch[q]
      BY <2>1, <3>1, FailsSafe
    <3>3. CacheInv'
      BY <1>1, <1>2, <3>2 DEF Safe, CacheInv, Settled
    <3>4. count' \in 0 .. 2
      BY <3>1 DEF Safe, TypeOK
    <3>5. ASSUME NEW q \in Lists
          PROVE  fetch'[q] = fetch[q] \/ (fetch[q].status # "none" /\ fetch'[q].status = "failed")
      <4>1. CASE q \in Running(Owner)
        BY <2>1, <3>2, <4>1
      <4>2. CASE q \notin Running(Owner)
        <5>1. fetch'[q] = fetch[q]
          BY <3>2, <4>2
        <5> QED BY <5>1
      <4> QED BY <4>1, <4>2
    <3> QED BY <3>2, <3>3, <3>4, <3>5
  <2> QED BY <2>2, <2>3
<1>4. TypeOK'
  BY <1>1, <1>3, GoneSafe, ChecksType, Ranges DEF Safe, TypeOK
<1>5. SessionInv'
  BY <1>1, <1>2, GoneSafe DEF Safe, SessionInv, Owner, Alive
<1>6. ListInv'
  <2>1. session'.generation = NoGeneration
    BY <1>2 DEF Ready
  <2>2. \A q \in Lists : list[q].before # NoGeneration => list[q].before \in Children
    BY DEF Safe, TypeOK, Listing, NoGeneration, Children
  <2> QED BY <1>1, <1>2, <1>3, <2>1, <2>2, GoneSafe DEF Safe, ListInv
<1> QED BY <1>3, <1>4, <1>5, <1>6 DEF Safe
-----------------------------------------------------------------------------
(* The managed session.                                                     *)

LEMMA InvalidateSafe == ASSUME Safe, Invalidate PROVE Safe'
<1>1. /\ phase = "serving" /\ Ready /\ session' = [session EXCEPT !.generation = NoGeneration] /\ Clear
      /\ UNCHANGED <<managed, phase, runtime, child, wire, checks, fetch, list>>
  BY DEF Invalidate, StateChanged
<1>2. Owner' = Owner /\ ~Ready' /\ session'.restarting = session.restarting
  BY <1>1 DEF Safe, TypeOK, Owner, Ready
<1>3. TypeOK'
  <2>1. session' \in [owner: 0 .. MaxChildren, generation: 0 .. MaxChildren, restarting: BOOLEAN]
    BY <1>1, Ranges DEF Safe, TypeOK
  <2>2. cache' \in [Cursors -> Lists \cup {NoFetch}] /\ count' \in 0 .. 2
    BY <1>1 DEF Clear
  <2> QED BY <1>1, <2>1, <2>2 DEF Safe, TypeOK
<1>4. SessionInv'
  BY <1>1, <1>2 DEF Safe, SessionInv, Owner
<1>5. CacheInv'
  BY <1>1, ClearedSafe
<1>6. ListInv'
  BY <1>1, <1>2 DEF Safe, ListInv, Ready
<1> QED BY <1>3, <1>4, <1>5, <1>6 DEF Safe

LEMMA RestartBeginsSafe == ASSUME Safe, RestartBegins PROVE Safe'
<1>1. /\ phase = "serving" /\ managed /\ ~Ready /\ session' = [session EXCEPT !.restarting = TRUE]
      /\ UNCHANGED <<managed, phase, runtime, child, wire, checks, cache, fetch, list, count>>
  BY DEF RestartBegins
<1>2. Owner' = Owner /\ session'.generation = session.generation /\ session'.restarting
  BY <1>1 DEF Safe, TypeOK, Owner
<1>3. TypeOK'
  BY <1>1 DEF Safe, TypeOK
<1>4. SessionInv'
  BY <1>1, <1>2 DEF Safe, SessionInv, Ready, Owner
<1>5. CacheInv'
  BY <1>1, <1>2 DEF Safe, CacheInv, Settled, Ready
<1>6. ListInv'
  BY <1>1, <1>2 DEF Safe, ListInv
<1> QED BY <1>3, <1>4, <1>5, <1>6 DEF Safe

(* While a restart runs nothing is published.                               *)
LEMMA Restarting ==
  ASSUME Safe, session.restarting
  PROVE  managed /\ phase = "serving" /\ ~Ready
  BY DEF Safe, SessionInv

LEMMA OwnerRetiresSafe == ASSUME Safe, OwnerRetires PROVE Safe'
<1>1. /\ managed /\ phase = "serving" /\ ~Ready /\ session.restarting /\ Owner \in Children
      /\ Gone(Owner) /\ checks' = LostChanges /\ session' = [session EXCEPT !.owner = NoOwner]
      /\ UNCHANGED <<managed, phase, runtime, cache, fetch, list, count>>
  BY Restarting DEF Safe, TypeOK, OwnerRetires, Owner, NoOwner, Children
<1>2. /\ session'.owner = NoOwner /\ session'.generation = session.generation
      /\ session'.restarting = session.restarting
  BY <1>1 DEF Safe, TypeOK
<1>3. TypeOK'
  BY <1>1, GoneSafe, ChecksType, Ranges DEF Safe, TypeOK
<1>4. SessionInv'
  BY <1>1, <1>2 DEF SessionInv, Ready, Owner
<1>5. CacheInv'
  BY <1>1, <1>2 DEF Safe, CacheInv, Settled, Ready
<1>6. ListInv'
  <2>1. \A q \in Lists : list[q].before # NoGeneration => list[q].before \in Children
    BY DEF Safe, TypeOK, Listing, NoGeneration, Children
  <2> QED BY <1>1, <1>2, <2>1, GoneSafe DEF Safe, ListInv
<1> QED BY <1>3, <1>4, <1>5, <1>6 DEF Safe

LEMMA ReleasedType ==
  ASSUME Safe, NEW to \in {"resumed", "done"}, Released(to)
  PROVE  checks' \in [Changes -> [child: 0 .. MaxChildren,
                                  state: {"none", "written", "held", "resumed", "done"}]]
  BY DEF Safe, TypeOK, Released

LEMMA RestartPublishesSafe ==
  ASSUME Safe, NEW c \in Children, RestartPublishes(c) PROVE Safe'
<1>1. /\ phase = "serving" /\ managed /\ ~Ready /\ child[c].state = "absent"
      /\ child' = [child EXCEPT ![c].state = "open"]
      /\ session' = [owner |-> c, generation |-> c, restarting |-> FALSE]
      /\ Clear /\ Released("resumed")
      /\ fetch' = [q \in Lists |-> IF q \in Held THEN [fetch[q] EXCEPT !.status = "resumed"] ELSE fetch[q]]
      /\ UNCHANGED <<managed, phase, runtime, wire, list>>
  BY Restarting DEF RestartPublishes, StateChanged
<1>2. /\ fetch' \in [Lists -> Fetch]
      /\ \A q \in Lists : IF fetch[q].status = "held" THEN fetch'[q].status = "resumed"
                                                     ELSE fetch'[q] = fetch[q]
  <2>1. ASSUME NEW q \in Lists
        PROVE  /\ fetch'[q] \in Fetch
               /\ IF fetch[q].status = "held" THEN fetch'[q].status = "resumed" ELSE fetch'[q] = fetch[q]
    <3>1. fetch[q] \in Fetch /\ (q \in Held <=> fetch[q].status = "held")
      BY DEF Safe, TypeOK, Held
    <3> QED BY <1>1, <3>1 DEF Fetch
  <2> QED BY <1>1, <2>1
<1>3. /\ child' \in [Children -> [state: {"absent", "open", "closed"}, version: 0 .. MaxChanges, dynamic: BOOLEAN]]
      /\ child'[c].state = "open" /\ \A d \in Children : d # c => child'[d] = child[d]
  BY <1>1 DEF Safe, TypeOK
<1>4. TypeOK'
  <2>1. session' \in [owner: 0 .. MaxChildren, generation: 0 .. MaxChildren, restarting: BOOLEAN]
    BY <1>1, Ranges
  <2>2. cache' \in [Cursors -> Lists \cup {NoFetch}] /\ count' \in 0 .. 2
    BY <1>1 DEF Clear
  <2> QED BY <1>1, <1>2, <1>3, <2>1, <2>2, ReleasedType DEF Safe, TypeOK
<1>5. SessionInv'
  BY <1>1, <1>3 DEF SessionInv, Ready, Owner, Alive, NoOwner, NoGeneration, Children
<1>6. CacheInv'
  BY <1>1, ClearedSafe
<1>7. ListInv'
  <2>1. \A q \in Lists : fetch'[q].status # "held"
    BY <1>2
  <2>2. ASSUME NEW q \in Lists, list[q].pc = "idle" PROVE fetch'[q].status = "none"
    BY <1>2, <2>2 DEF Safe, ListInv
  <2>3. ASSUME NEW q \in Lists, list[q].pc = "waiting"
        PROVE  /\ list[q].of \in Lists /\ fetch'[list[q].of].status # "none"
               /\ list[q].before # NoGeneration =>
                    child'[list[q].before].state # "absent" /\ list[q].before # session'.generation
    <3>1. list[q].before # NoGeneration => list[q].before \in Children
      BY DEF Safe, TypeOK, Listing, NoGeneration, Children
    <3> QED BY <1>1, <1>2, <1>3, <2>3, <3>1 DEF Safe, ListInv
  <2> QED BY <1>1, <2>1, <2>2, <2>3 DEF ListInv
<1> QED BY <1>4, <1>5, <1>6, <1>7 DEF Safe

LEMMA RestartFailsSafe == ASSUME Safe, RestartFails PROVE Safe'
<1>1. /\ managed /\ phase = "serving" /\ ~Ready /\ session' = [session EXCEPT !.restarting = FALSE]
      /\ Fails(Held) /\ Released("done")
      /\ UNCHANGED <<managed, phase, runtime, child, wire, list, count>>
  BY Restarting DEF RestartFails
<1>2. /\ Owner' = Owner /\ session'.generation = session.generation /\ ~session'.restarting
  BY <1>1 DEF Safe, TypeOK, Owner
<1>3. /\ cache' \in [Cursors -> Lists \cup {NoFetch}] /\ fetch' \in [Lists -> Fetch]
      /\ \A k \in Cursors : cache'[k] # NoFetch =>
           cache'[k] = cache[k] /\ fetch'[cache[k]] = fetch[cache[k]]
      /\ \A q \in Lists : IF q \in Held THEN fetch'[q].status = "failed" ELSE fetch'[q] = fetch[q]
  <2>1. Held \in SUBSET Lists /\ \A q \in Held : fetch[q].status # "none"
    BY DEF Held
  <2> QED BY <1>1, <2>1, FailsSafe
<1>4. \A q \in Lists : fetch'[q].status # "held"
  BY <1>3 DEF Held
<1>5. TypeOK'
  BY <1>1, <1>3, ReleasedType DEF Safe, TypeOK
<1>6. SessionInv'
  BY <1>1, <1>2 DEF Safe, SessionInv, Ready, Owner
<1>7. CacheInv'
  BY <1>1, <1>2, <1>3 DEF Safe, CacheInv, Settled, Ready
<1>8. ListInv'
  <2>1. \A q \in Lists : fetch'[q] = fetch[q] \/ (fetch[q].status = "held" /\ fetch'[q].status = "failed")
    BY <1>3 DEF Held
  <2> QED BY <1>1, <1>2, <1>4, <2>1 DEF Safe, ListInv
<1> QED BY <1>5, <1>6, <1>7, <1>8 DEF Safe
-----------------------------------------------------------------------------
LEMMA DisposeSafe == ASSUME Safe, Dispose PROVE Safe'
<1> DEFINE asked == Held \cup Running(Owner)
<1>1. /\ phase' = "disposed" /\ runtime' = "released"
      /\ session' = [session EXCEPT !.generation = NoGeneration, !.restarting = FALSE]
      /\ Fails(asked)
      /\ checks' = [n \in Changes |-> IF checks[n].state = "none" THEN checks[n]
                                                                 ELSE [checks[n] EXCEPT !.state = "done"]]
      /\ IF Alive(Owner) THEN Gone(Owner) ELSE UNCHANGED <<child, wire>>
      /\ UNCHANGED <<managed, list, count>>
  BY DEF Dispose
<1>2. /\ Owner' = Owner /\ session'.generation = NoGeneration /\ ~session'.restarting
  BY <1>1 DEF Safe, TypeOK, Owner
<1>3. \A q \in Lists : q \in asked => fetch[q].status # "none"
  BY DEF Held, Running
<1>4. /\ cache' \in [Cursors -> Lists \cup {NoFetch}] /\ fetch' \in [Lists -> Fetch]
      /\ \A k \in Cursors : cache'[k] # NoFetch =>
           cache'[k] = cache[k] /\ fetch'[cache[k]] = fetch[cache[k]]
      /\ \A q \in Lists : IF q \in asked THEN fetch'[q].status = "failed" ELSE fetch'[q] = fetch[q]
  <2>1. asked \in SUBSET Lists /\ \A q \in asked : fetch[q].status # "none"
    BY DEF Held, Running
  <2> QED BY <1>1, <2>1, FailsSafe
<1>5. /\ child' \in [Children -> [state: {"absent", "open", "closed"}, version: 0 .. MaxChanges, dynamic: BOOLEAN]]
      /\ wire' \in Seq(Messages)
      /\ \A d \in Children : child[d].state # "absent" => child'[d].state # "absent"
  <2>1. CASE Alive(Owner)
    <3>1. Owner \in Children
      BY <2>1 DEF Safe, TypeOK, Alive, Owner, NoOwner, Children
    <3> QED BY <1>1, <2>1, <3>1, GoneSafe
  <2>2. CASE ~Alive(Owner)
    BY <1>1, <2>2 DEF Safe, TypeOK
  <2> QED BY <2>1, <2>2
<1>6. checks' \in [Changes -> [child: 0 .. MaxChildren,
                               state: {"none", "written", "held", "resumed", "done"}]]
  BY <1>1 DEF Safe, TypeOK
<1>7. TypeOK'
  <2>1. session' \in [owner: 0 .. MaxChildren, generation: 0 .. MaxChildren, restarting: BOOLEAN]
    BY <1>1, Ranges DEF Safe, TypeOK
  <2> QED BY <1>1, <1>4, <1>5, <1>6, <2>1 DEF Safe, TypeOK
<1>8. SessionInv'
  <2>1. Owner # NoOwner => Owner \in Children
    BY DEF Safe, TypeOK, Owner, NoOwner, Children
  <2> QED BY <1>1, <1>2, <1>5, <2>1 DEF Safe, SessionInv, Ready, Owner
<1>9. CacheInv'
  BY <1>1, <1>4 DEF Safe, CacheInv, Settled
<1>10. ListInv'
  <2>1. \A q \in Lists : fetch'[q] = fetch[q] \/ (fetch[q].status # "none" /\ fetch'[q].status = "failed")
    BY <1>3, <1>4
  <2>2. \A q \in Lists : fetch'[q].status # "held"
    BY <1>4 DEF Held
  <2>3. \A q \in Lists : list[q].before # NoGeneration => list[q].before \in Children
    BY DEF Safe, TypeOK, Listing, NoGeneration, Children
  <2> QED BY <1>1, <1>2, <1>5, <2>1, <2>2, <2>3 DEF Safe, ListInv
<1> QED BY <1>7, <1>8, <1>9, <1>10 DEF Safe

LEMMA NextSafe == Safe /\ [Next]_vars => Safe'
<1> SUFFICES ASSUME Safe, [Next]_vars PROVE Safe'
  OBVIOUS
<1>1. CASE UNCHANGED vars
  <2>1. TypeOK'
    BY <1>1 DEF vars, Safe, TypeOK
  <2> QED BY <1>1, <2>1, Frames DEF vars, Safe
<1>2. CASE Start
  BY <1>2, PrepareSafe, ConnectedSafe DEF Start
<1>3. CASE Upstream
  BY <1>3, ToolsChangeSafe, NotifiesSafe, AnswersSafe, ReceiveListSafe, ReceiveChangedSafe, ChildDiesSafe
     DEF Upstream
<1>4. CASE Session
  BY <1>4, InvalidateSafe, RestartBeginsSafe, OwnerRetiresSafe, RestartFailsSafe, RestartPublishesSafe
     DEF Session
<1>5. CASE ListTools
  BY <1>5, ListArrivesSafe, ResumesSafe, FetchFailsSafe, RepliedSafe DEF ListTools
<1>6. CASE Dispose
  BY <1>6, DisposeSafe
<1> QED BY <1>1, <1>2, <1>3, <1>4, <1>5, <1>6 DEF Next

(* The invariants hold of every reachable state (server.ts).                *)
THEOREM BridgeSafe == Spec => []Safe
<1> QED BY InitSafe, NextSafe, PTL DEF Spec

(* Every variable keeps its type.                                           *)
THEOREM TypeCorrect == Spec => []TypeOK
<1>1. Safe => TypeOK
  BY DEF Safe
<1> QED BY <1>1, BridgeSafe, PTL

(* The next tools/list is fresh, whatever restarts, changes and late answers *)
(* of old children came before it (docs/tools.md:40).                       *)
THEOREM CacheCorrect == Spec => []CacheFresh
<1>1. ASSUME Safe PROVE CacheFresh
  <2> SUFFICES ASSUME NEW k \in Cursors, cache[k] # NoFetch
               PROVE  LET f == fetch[cache[k]] IN
                      /\ f.status # "failed"
                      /\ Quiet /\ f.status \in {"answering", "done"} =>
                           f.child = Owner /\ f.version = child[Owner].version
    BY <1>1 DEF CacheFresh, Safe
  <2>1. Quiet => Settled /\ ~Announced
    BY DEF Quiet, Settled, Announced
  <2> QED BY <1>1, <2>1 DEF Safe, CacheInv
<1> QED BY <1>1, BridgeSafe, PTL

(* Page tools reach the client only under the generation they were           *)
(* discovered in (docs/tools.md:42).                                         *)
LEMMA DynamicStep ==
  Safe /\ [Next]_vars =>
    [\A q \in Lists : managed /\ list'[q].dynamic /\ ~list[q].dynamic =>
       session.generation = fetch[list[q].of].child]_vars
<1> SUFFICES ASSUME Safe, [Next]_vars, NEW q \in Lists, managed, list'[q].dynamic, ~list[q].dynamic
             PROVE  session.generation = fetch[list[q].of].child
  OBVIOUS
<1>1. CASE Replied(q)
  <2> DEFINE d == VisibleDynamic(list[q].before, fetch[list[q].of].dynamic)
  <2>1. /\ list[q].pc = "waiting"
        /\ \/ list' = [list EXCEPT ![q].pc = "error"]
           \/ /\ fetch[list[q].of].status = "done"
              /\ list' = [list EXCEPT ![q] = [list[q] EXCEPT !.pc = "replied", !.dynamic = d]]
    BY <1>1 DEF Replied
  <2> HIDE DEF d
  <2>2. list' # [list EXCEPT ![q].pc = "error"]
    <3>1. ASSUME list' = [list EXCEPT ![q].pc = "error"] PROVE list'[q].dynamic = list[q].dynamic
      BY <3>1 DEF Safe, TypeOK, Listing
    <3>2. list'[q].dynamic # list[q].dynamic
      OBVIOUS
    <3> QED BY <3>1, <3>2
  <2>3. list'[q].dynamic = d
    <3>1. list[q] \in Listing /\ DOMAIN list = Lists
      BY DEF Safe, TypeOK
    <3>2. list'[q] = [list[q] EXCEPT !.pc = "replied", !.dynamic = d]
      BY <2>1, <2>2, <3>1
    <3> QED BY <3>1, <3>2 DEF Listing
  <2>4. /\ VisibleDynamic(list[q].before, fetch[list[q].of].dynamic)
        /\ fetch[list[q].of].status = "done" /\ list[q].pc = "waiting"
    BY <2>1, <2>2, <2>3 DEF d
  <2>5. list[q].before = session.generation /\ list[q].before # NoGeneration
    BY <2>4 DEF VisibleDynamic, SameGeneration, Ready
  <2> QED BY <2>4, <2>5 DEF Safe, ListInv
<1>2. CASE \E p \in Lists : p # q /\ Replied(p)
  BY <1>2 DEF Safe, TypeOK, Replied
<1>3. CASE \E p \in Lists, k \in Cursors : ListArrives(p, k)
  BY <1>3 DEF Safe, TypeOK, Listing, ListArrives
<1>4. CASE UNCHANGED list
  BY <1>4
<1>5. \/ UNCHANGED list \/ \E p \in Lists : Replied(p)
      \/ \E p \in Lists, k \in Cursors : ListArrives(p, k)
  BY DEF Next, Start, Upstream, Session, ListTools, Dispose, Prepare, StartFails, Connected, ToolsChange,
         NotifiesIfCurrent, Answers, ReceiveList, ReceiveChanged, ChildDies, Invalidate, RestartBegins,
         OwnerRetires, RestartFails, RestartPublishes, Resumes, FetchFails, vars
<1> QED BY <1>1, <1>2, <1>3, <1>4, <1>5

THEOREM DynamicCorrect == Spec => DynamicToolsOfGeneration
<1> QED BY BridgeSafe, DynamicStep, PTL DEF Spec, DynamicToolsOfGeneration
=============================================================================
