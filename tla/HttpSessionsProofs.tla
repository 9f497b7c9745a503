------------------------ MODULE HttpSessionsProofs ------------------------
(* Proofs about HttpSessions for any finite set of initialize requests, any *)
(* set of other requests and any capacity.                                  *)
EXTENDS HttpSessions, FiniteSetTheorems, TLAPS

RecordType  == {"none", "active", "expired", "closed"}
BridgeType  == {"none", "starting", "live", "disposing", "closed"}
InitType    == [pc : InFlight \cup {"idle", "expiring", "done"}, waits : SUBSET Sessions]
RequestType == [pc : {"idle", "expiring", "forwarded", "deleted", "closing", "done"},
                kind : {"use", "delete"}, waits : SUBSET Sessions]

(* What closing sessions does to the table, whichever they are.             *)
LEMMA CloseFacts ==
  ASSUME Safe, NEW S, CloseSessions(S)
  PROVE  /\ sessions' \subseteq sessions /\ closing' \subseteq Sessions
         /\ bridge' \in [Sessions -> BridgeType] /\ record' \in [Sessions -> RecordType]
         /\ \A s \in Sessions :
              /\ bridge'[s] = "live" <=> s \in sessions'
              /\ s \in closing' => bridge'[s] = "disposing"
              /\ bridge[s] # "live" => bridge'[s] = bridge[s] /\ (s \in closing' => s \in closing)
              /\ record'[s] \in {record[s], "closed"}
              /\ record[s] = "none" => record'[s] = "none"
  BY DEF Safe, TypeOK, NoOrphanBridge, Phased, CloseSessions, CloseAndDispose, BridgeType, RecordType

(* The slots when no initialization begins or ends, and no session registers. *)
LEMMA SlotsFrame ==
  ASSUME Safe, Initializing' = Initializing, UNCHANGED pending,
         sessions' \subseteq sessions \cup Initializing
  PROVE  CapacityKept'
<1>1. IsFiniteSet(sessions \cup Initializing)
  BY InputsAssumption, FS_Subset DEF Safe, TypeOK, Initializing
<1>2. sessions' \cup Initializing' \subseteq sessions \cup Initializing
  OBVIOUS
<1>3. /\ Cardinality(sessions' \cup Initializing') <= Cardinality(sessions \cup Initializing)
      /\ Cardinality(sessions' \cup Initializing') \in Nat
      /\ Cardinality(sessions \cup Initializing) \in Nat
  BY <1>1, <1>2, FS_Subset, FS_CardinalityType
<1> QED BY <1>3, InputsAssumption DEF CapacityKept, Safe

(* The slots when one initialization ends.                                  *)
LEMMA SlotsReturned ==
  ASSUME Safe, NEW s \in Initializing, Initializing' = Initializing \ {s},
         pending' = pending - 1, sessions' \subseteq sessions
  PROVE  CapacityKept' /\ pending' \in Nat
<1>1. IsFiniteSet(Initializing) /\ IsFiniteSet(sessions \cup Initializing)
  BY InputsAssumption, FS_Subset DEF Safe, TypeOK, Initializing
<1>2. Cardinality(Initializing') = Cardinality(Initializing) - 1 /\ Cardinality(Initializing') \in Nat
  BY <1>1, FS_RemoveElement, FS_CardinalityType
<1>3. sessions' \cup Initializing' \subseteq sessions \cup Initializing
  OBVIOUS
<1>4. /\ Cardinality(sessions' \cup Initializing') <= Cardinality(sessions \cup Initializing)
      /\ Cardinality(sessions' \cup Initializing') \in Nat
      /\ Cardinality(sessions \cup Initializing) \in Nat
  BY <1>1, <1>3, FS_Subset, FS_CardinalityType
<1> QED BY <1>2, <1>4, InputsAssumption DEF CapacityKept, Safe

(* The slots when one is reserved.                                          *)
LEMMA SlotsReserved ==
  ASSUME Safe, SlotAvailable, NEW s \in Sessions \ Initializing,
         Initializing' = Initializing \cup {s}, pending' = pending + 1, UNCHANGED sessions
  PROVE  CapacityKept'
<1>1. IsFiniteSet(sessions) /\ IsFiniteSet(Initializing) /\ IsFiniteSet(sessions \cup Initializing)
  BY InputsAssumption, FS_Subset DEF Safe, TypeOK, Initializing
<1>2. Cardinality(Initializing') = Cardinality(Initializing) + 1
  BY <1>1, FS_AddElement
<1>3. IsFiniteSet(Initializing')
  BY <1>1, FS_AddElement
<1>4. Cardinality(sessions \cup Initializing') <= Cardinality(sessions) + Cardinality(Initializing')
  <2>1. Cardinality(sessions \cup Initializing') =
          Cardinality(sessions) + Cardinality(Initializing') - Cardinality(sessions \cap Initializing')
    BY <1>1, <1>3, FS_Union
  <2>2. Cardinality(sessions \cap Initializing') \in Nat
    BY <1>1, FS_Intersection, FS_CardinalityType
  <2> QED BY <2>1, <2>2, <1>1, <1>3, FS_CardinalityType
<1>5. Cardinality(sessions) \in Nat /\ Cardinality(Initializing) \in Nat
  BY <1>1, FS_CardinalityType
<1>6. Cardinality(sessions \cup Initializing') \in Nat
  BY <1>1, <1>3, FS_Union, FS_CardinalityType
<1> QED BY <1>2, <1>4, <1>5, <1>6, InputsAssumption DEF CapacityKept, Safe, SlotAvailable

(* The facts about init that hold of every step that only moves one record. *)
LEMMA GotoFacts ==
  ASSUME Safe, NEW s \in Sessions, NEW pc \in InFlight \cup {"idle", "expiring", "done"}, Goto(s, pc)
  PROVE  /\ init' \in [Sessions -> InitType]
         /\ init'[s].pc = pc /\ \A t \in Sessions \ {s} : init'[t] = init[t]
         /\ pc \in InFlight /\ s \in Initializing => Initializing' = Initializing
         /\ pc \in InFlight => Initializing' = Initializing \cup {s}
         /\ pc = "done" => Initializing' = Initializing \ {s}
<1>1. init \in [Sessions -> InitType] /\ init[s] \in InitType
  BY DEF Safe, TypeOK, InitType
<1>2. init'[s] = [init[s] EXCEPT !.pc = pc] /\ \A t \in Sessions \ {s} : init'[t] = init[t]
  BY <1>1 DEF Goto
<1>3. init'[s].pc = pc /\ init'[s] \in InitType
  BY <1>1, <1>2 DEF InitType
<1>4. init' \in [Sessions -> InitType]
  BY <1>1, <1>2, <1>3 DEF Goto
<1> QED BY <1>2, <1>3, <1>4 DEF Initializing, InFlight

(* An initialize request that awaits the close of its session.              *)
LEMMA CloseAndReturnFacts ==
  ASSUME Safe, NEW s \in Initializing, CloseAndReturn(s)
  PROVE  /\ init' \in [Sessions -> InitType] /\ Initializing' = Initializing
         /\ init'[s].pc = "closing" /\ \A t \in Sessions \ {s} : init'[t] = init[t]
<1>1. init \in [Sessions -> InitType] /\ Awaited({s}) \in SUBSET Sessions /\ s \in Sessions
  BY DEF Safe, TypeOK, InitType, Awaited, Initializing
<1>2. /\ init'[s] = [pc |-> "closing", waits |-> Awaited({s})]
      /\ init' \in [Sessions -> InitType] /\ \A t \in Sessions \ {s} : init'[t] = init[t]
  BY <1>1 DEF CloseAndReturn, InitType, InFlight
<1> QED BY <1>1, <1>2 DEF Initializing, InFlight

(* Init satisfies the invariant: nothing is registered and nothing pending. *)
LEMMA InitSafe == Init => Safe
<1> SUFFICES ASSUME Init PROVE Safe
  OBVIOUS
<1>1. Initializing = {}
  BY DEF Init, Initializing, InFlight
<1>2. CapacityKept
  BY <1>1, FS_EmptySet, InputsAssumption DEF Init, CapacityKept
<1> QED BY <1>2 DEF Init, Safe, TypeOK, NoOrphanBridge, Phased, InFlight

(* Steps that only settle a close, or change the state of a record.         *)
LEMMA TableSafe ==
  ASSUME Safe, NEW s \in Sessions, CloseSettles(s) \/ Expire(s) \/ CdpActivity(s)
  PROVE  Safe'
<1>1. CapacityKept'
  BY SlotsFrame DEF CloseSettles, Expire, CdpActivity, Initializing
<1>2. CASE CloseSettles(s)
  BY <1>1, <1>2 DEF CloseSettles, Safe, TypeOK, NoOrphanBridge, Phased
<1>3. CASE Expire(s)
  BY <1>1, <1>3 DEF Expire, Safe, TypeOK, NoOrphanBridge, Phased
<1>4. CASE CdpActivity(s)
  BY <1>1, <1>4 DEF CdpActivity, Touch, Safe, TypeOK, NoOrphanBridge, Phased
<1> QED BY <1>2, <1>3, <1>4

(* Steps that close sessions, on behalf of nobody or of the server.         *)
LEMMA ClosingSafe ==
  ASSUME Safe, Sweep \/ Close
  PROVE  Safe'
<1>1. PICK S : CloseSessions(S)
  BY DEF Sweep, Close
<1>2. UNCHANGED <<init, gone, pending, accepted, request>>
  BY DEF Sweep, Close, served
<1>3. server' \in [state : {"open", "draining", "listener", "closed"}, waits : SUBSET Sessions]
  BY DEF Sweep, Close, Awaited, Safe, TypeOK
<1>4. CapacityKept'
  BY <1>1, <1>2, CloseFacts, SlotsFrame DEF Initializing
<1> QED BY <1>1, <1>2, <1>3, <1>4, CloseFacts DEF Safe, TypeOK, NoOrphanBridge, Phased, BridgeType, RecordType

(* The end of the server: the listener closes and the store is cleared.     *)
LEMMA ServerSafe ==
  ASSUME Safe, ListenerCloses \/ Closed
  PROVE  Safe'
<1>1. CapacityKept'
  BY SlotsFrame DEF ListenerCloses, Closed, table, Initializing
<1> QED BY <1>1 DEF ListenerCloses, Closed, table, served, Safe, TypeOK, NoOrphanBridge, Phased

(* Initialization, up to the reserved slot.                                 *)
LEMMA ReserveSafe ==
  ASSUME Safe, NEW s \in Sessions, InitArrives(s) \/ InitReserve(s)
  PROVE  Safe'
<1>1. CASE InitArrives(s)
  <2>1. /\ init' = [init EXCEPT ![s] = [pc |-> "expiring", waits |-> Awaited(Expired)]]
        /\ CloseSessions(Expired) /\ init[s].pc = "idle"
    BY <1>1 DEF InitArrives
  <2>2. Awaited(Expired) \in SUBSET Sessions
    BY DEF Awaited, Expired
  <2>3. /\ init' \in [Sessions -> InitType] /\ init'[s].pc = "expiring"
        /\ \A r \in Sessions \ {s} : init'[r] = init[r]
    BY <2>1, <2>2 DEF Safe, TypeOK, InitType
  <2>4. Initializing' = Initializing
    BY <2>1, <2>3 DEF Initializing, InFlight
  <2>5. CapacityKept'
    BY <1>1, <2>1, <2>4, CloseFacts, SlotsFrame DEF InitArrives
  <2> QED BY <1>1, <2>1, <2>3, <2>5, CloseFacts
          DEF InitArrives, served, Safe, TypeOK, NoOrphanBridge, Phased, InitType, BridgeType, RecordType
<1>2. CASE InitReserve(s) /\ SlotAvailable
  <2>1. Goto(s, "starting") /\ pending' = pending + 1 /\ init[s].pc = "expiring" /\ UNCHANGED sessions
    BY <1>2 DEF InitReserve
  <2>2. s \notin Initializing
    BY <2>1 DEF Initializing, InFlight
  <2>3. Initializing' = Initializing \cup {s}
    BY <2>1, GotoFacts DEF InFlight
  <2>4. CapacityKept'
    BY <1>2, <2>1, <2>2, <2>3, SlotsReserved
  <2>5. init' \in [Sessions -> InitType] /\ init'[s].pc = "starting" /\ \A r \in Sessions \ {s} : init'[r] = init[r]
    BY <2>1, GotoFacts DEF InFlight
  <2>6. /\ bridge' = [bridge EXCEPT ![s] = "starting"] /\ bridge[s] = "none" /\ record[s] = "none"
        /\ UNCHANGED <<gone, sessions, closing, record, request, accepted, server>>
    BY <1>2, <2>1 DEF InitReserve, served, Safe, Phased
  <2>7. TypeOK'
    BY <2>1, <2>5, <2>6 DEF Safe, TypeOK, InitType
  <2>8. NoOrphanBridge' /\ Phased'
    BY <2>1, <2>5, <2>6 DEF Safe, TypeOK, NoOrphanBridge, Phased
  <2> QED BY <2>4, <2>7, <2>8 DEF Safe
<1>3. CASE InitReserve(s) /\ ~SlotAvailable
  <2>1. Goto(s, "done") /\ init[s].pc = "expiring" /\ UNCHANGED <<pending, sessions>>
    BY <1>3 DEF InitReserve
  <2>2. /\ init' \in [Sessions -> InitType] /\ init'[s].pc = "done" /\ Initializing' = Initializing \ {s}
        /\ \A r \in Sessions \ {s} : init'[r] = init[r]
    BY <2>1, GotoFacts
  <2>3. CapacityKept'
    BY <2>1, <2>2, SlotsFrame DEF Initializing, InFlight
  <2> QED BY <1>3, <2>1, <2>2, <2>3 DEF InitReserve, served, Safe, TypeOK, NoOrphanBridge, Phased, InitType
<1> QED BY <1>1, <1>2, <1>3

(* Initialization, from the bridge to the transport.                        *)
LEMMA StartSafe ==
  ASSUME Safe, NEW s \in Sessions, Starts(s) \/ InitAccepted(s) \/ Connected(s) \/ InitThrows(s)
  PROVE  Safe'
<1>1. s \in Initializing
  BY DEF Starts, InitAccepted, Connected, InitThrows, Initializing, InFlight
<1>2. CASE CloseAndReturn(s) /\ (Connected(s) \/ InitThrows(s))
  <2>1. CloseSessions({s}) /\ UNCHANGED <<gone, pending, served, server>>
    BY <1>2 DEF CloseAndReturn, Connected, InitThrows
  <2>2. CapacityKept'
    BY <1>1, <1>2, <2>1, CloseAndReturnFacts, CloseFacts, SlotsFrame
  <2> QED BY <1>1, <1>2, <2>1, <2>2, CloseAndReturnFacts, CloseFacts
          DEF served, Safe, TypeOK, NoOrphanBridge, Phased, InitType, BridgeType, RecordType
<1>3. CASE \E pc \in {"connecting", "discarding", "answering", "answered"} :
             Goto(s, pc) /\ (Starts(s) \/ InitAccepted(s) \/ Connected(s))
  <2>1. PICK pc \in {"connecting", "discarding", "answering", "answered"} :
          Goto(s, pc) /\ (Starts(s) \/ InitAccepted(s) \/ Connected(s))
    BY <1>3
  <2>2. /\ init' \in [Sessions -> InitType] /\ init'[s].pc = pc /\ Initializing' = Initializing
        /\ \A r \in Sessions \ {s} : init'[r] = init[r]
    BY <1>1, <2>1, GotoFacts DEF InFlight
  <2>3. CASE Starts(s)
    <3>1. sessions' \subseteq sessions \cup {s} /\ UNCHANGED pending
      BY <2>3 DEF Starts, Register
    <3>2. CapacityKept'
      BY <1>1, <2>2, <3>1, SlotsFrame
    <3>3. init[s].pc = "starting" /\ s \notin closing /\ s \notin sessions /\ record[s] = "none"
      BY <2>3 DEF Starts, Safe, Phased, NoOrphanBridge
    <3>4. CASE gone[s]
      <4>1. init'[s].pc = "discarding"
        BY <2>3, <3>4, GotoFacts DEF Starts, InFlight
      <4> QED BY <2>2, <2>3, <3>2, <3>3, <3>4, <4>1
              DEF Starts, served, Safe, TypeOK, NoOrphanBridge, Phased, InitType
    <3>5. CASE ~gone[s]
      <4>1. init'[s].pc = "connecting"
        BY <2>3, <3>5, GotoFacts DEF Starts, Register, InFlight
      <4> QED BY <2>2, <2>3, <3>2, <3>3, <3>5, <4>1
              DEF Starts, Register, served, Safe, TypeOK, NoOrphanBridge, Phased, InitType
    <3> QED BY <3>4, <3>5
  <2>4. CASE InitAccepted(s)
    <3>1. CapacityKept'
      BY <2>2, <2>4, SlotsFrame DEF InitAccepted
    <3>2. init'[s].pc = "answered" /\ init[s].pc = "answering"
      BY <2>4, GotoFacts DEF InitAccepted, InFlight
    <3> QED BY <2>2, <2>4, <3>1, <3>2
            DEF InitAccepted, served, Safe, TypeOK, NoOrphanBridge, Phased, InitType
  <2>5. CASE Connected(s) /\ ~CloseAndReturn(s)
    <3>1. Goto(s, "answering") /\ UNCHANGED <<gone, pending, table, served, server>> /\ init[s].pc = "connecting"
      BY <2>5 DEF Connected
    <3>2. CapacityKept'
      BY <2>2, <3>1, SlotsFrame DEF table
    <3>3. init'[s].pc = "answering"
      BY <3>1, GotoFacts DEF InFlight
    <3> QED BY <2>2, <3>1, <3>2, <3>3
            DEF table, served, Safe, TypeOK, NoOrphanBridge, Phased, InitType
  <2> QED BY <1>2, <2>1, <2>3, <2>4, <2>5
<1> QED BY <1>2, <1>3 DEF Starts, Register, InitAccepted, Connected, InitThrows

(* The ends of an initialization, each of which returns its slot.           *)
LEMMA ReturnSafe ==
  ASSUME Safe, NEW s \in Sessions,
         StartFails(s) \/ Discarded(s) \/ InitAnswered(s) \/ InitClosed(s)
  PROVE  Safe'
<1>1. s \in Initializing /\ Return(s)
  BY DEF StartFails, Discarded, InitAnswered, InitClosed, Initializing, InFlight
<1>2. /\ init' \in [Sessions -> InitType] /\ init'[s].pc = "done" /\ Initializing' = Initializing \ {s}
      /\ \A r \in Sessions \ {s} : init'[r] = init[r]
  BY <1>1, GotoFacts DEF Return
<1>3. CapacityKept' /\ pending' \in Nat
  BY <1>1, <1>2, SlotsReturned DEF Return, StartFails, Discarded, InitAnswered, InitClosed, table
<1>4. CASE StartFails(s) \/ Discarded(s)
  <2>1. /\ bridge' = [bridge EXCEPT ![s] = "closed"] /\ s \notin sessions /\ s \notin closing
        /\ UNCHANGED <<gone, sessions, closing, record, request, accepted, server>>
    BY <1>4 DEF StartFails, Discarded, served, Safe, NoOrphanBridge, Phased
  <2>2. TypeOK'
    BY <1>2, <1>3, <2>1 DEF Safe, TypeOK, InitType
  <2>3. NoOrphanBridge' /\ Phased'
    BY <1>2, <2>1 DEF Safe, TypeOK, NoOrphanBridge, Phased
  <2> QED BY <1>3, <2>2, <2>3 DEF Safe
<1>5. CASE InitAnswered(s) \/ InitClosed(s)
  BY <1>2, <1>3, <1>5 DEF InitAnswered, InitClosed, table, served, Safe, TypeOK, NoOrphanBridge, Phased, InitType
<1> QED BY <1>4, <1>5

(* A client that leaves its initialization.                                 *)
LEMMA DisconnectSafe ==
  ASSUME Safe, NEW s \in Sessions, Disconnect(s)
  PROVE  Safe'
<1>1. /\ gone' \in [Sessions -> BOOLEAN] /\ UNCHANGED <<init, pending, served, server>>
      /\ CloseSessions({s}) \/ UNCHANGED table
  BY DEF Disconnect, Safe, TypeOK
<1>2. Initializing' = Initializing
  BY <1>1 DEF Initializing
<1>3. CASE CloseSessions({s})
  <2>1. CapacityKept'
    BY <1>1, <1>2, <1>3, CloseFacts, SlotsFrame
  <2> QED BY <1>1, <1>3, <2>1, CloseFacts
          DEF served, Safe, TypeOK, NoOrphanBridge, Phased, BridgeType, RecordType
<1>4. CASE UNCHANGED table
  <2>1. CapacityKept'
    BY <1>1, <1>2, <1>4, SlotsFrame DEF table
  <2> QED BY <1>1, <1>4, <2>1 DEF table, served, Safe, TypeOK, NoOrphanBridge, Phased
<1> QED BY <1>1, <1>3, <1>4

(* The steps of the requests that name a session.                           *)
LEMMA RequestSafe ==
  ASSUME Safe, NEW r \in Requests,
         RequestArrives(r) \/ RequestRouted(r) \/ DeleteAccepted(r) \/ RequestEnds(r) \/ RequestClosed(r)
  PROVE  Safe'
<1>1. UNCHANGED <<init, gone, pending, server>>
  BY DEF RequestArrives, RequestRouted, DeleteAccepted, RequestEnds, RequestClosed
<1>2. Target[r] \in Sessions
  BY InputsAssumption
<1>3. request' \in [Requests -> RequestType] /\ accepted' \in SUBSET Sessions
  <2>1. \A S : Awaited(S) \in SUBSET Sessions
    BY DEF Awaited, Safe, TypeOK
  <2>2. request \in [Requests -> RequestType] /\ accepted \in SUBSET Sessions
    BY DEF Safe, TypeOK, RequestType
  <2>4. request' \in [Requests -> RequestType]
    <3>1. CASE RequestArrives(r)
      BY <2>1, <2>2, <3>1 DEF RequestArrives, RequestType
    <3>2. CASE RequestRouted(r)
      BY <2>1, <2>2, <3>2 DEF RequestRouted, RequestType
    <3>3. CASE DeleteAccepted(r)
      BY <2>2, <3>3 DEF DeleteAccepted, RequestType
    <3>4. CASE RequestEnds(r)
      BY <2>1, <2>2, <3>4 DEF RequestEnds, RequestType
    <3>5. CASE RequestClosed(r)
      BY <2>2, <3>5 DEF RequestClosed, RequestType
    <3> QED BY <3>1, <3>2, <3>3, <3>4, <3>5
  <2>5. accepted' \in SUBSET Sessions
    BY <1>2, <2>2 DEF RequestArrives, RequestRouted, DeleteAccepted, RequestEnds, RequestClosed
  <2> QED BY <2>4, <2>5
<1>4. Initializing' = Initializing
  BY <1>1 DEF Initializing
<1>5. ASSUME NEW S, CloseSessions(S) PROVE Safe'
  <2>1. CapacityKept'
    BY <1>1, <1>4, <1>5, CloseFacts, SlotsFrame
  <2> QED BY <1>1, <1>3, <1>5, <2>1, CloseFacts
          DEF Safe, TypeOK, NoOrphanBridge, Phased, BridgeType, RecordType, RequestType
<1>6. ASSUME UNCHANGED <<sessions, closing, bridge>>, record' \in [Sessions -> RecordType],
             \A s \in Sessions : record[s] = "none" => record'[s] = "none"
      PROVE Safe'
  <2>1. CapacityKept'
    BY <1>1, <1>4, <1>6, SlotsFrame
  <2> QED BY <1>1, <1>3, <1>6, <2>1 DEF Safe, TypeOK, NoOrphanBridge, Phased, RecordType, RequestType
<1>7. \/ \E S : CloseSessions(S)
      \/ /\ UNCHANGED <<sessions, closing, bridge>> /\ record' \in [Sessions -> RecordType]
         /\ \A s \in Sessions : record[s] = "none" => record'[s] = "none"
  BY <1>2 DEF RequestArrives, RequestRouted, DeleteAccepted, RequestEnds, RequestClosed, table, Touch,
              Safe, TypeOK, RecordType
<1> QED BY <1>5, <1>6, <1>7

(* The invariant is inductive.                                              *)
LEMMA NextSafe == Safe /\ [Next]_vars => Safe'
<1>1. ASSUME Safe, UNCHANGED vars PROVE Safe'
  BY <1>1 DEF vars, Safe, TypeOK, CapacityKept, NoOrphanBridge, Phased, Initializing
<1>2. ASSUME Safe, Next PROVE Safe'
  BY <1>2, TableSafe, ClosingSafe, ServerSafe, ReserveSafe, StartSafe, ReturnSafe, DisconnectSafe, RequestSafe
  DEF Next
<1> QED BY <1>1, <1>2

(* Safe: types, slots, the session table and the initializations agree in   *)
(* every reachable state.                                                   *)
THEOREM SessionsSafe == Spec => []Safe
<1> QED BY InitSafe, NextSafe, PTL DEF Spec

(* CapacityKept: #reserveSessionSlot and the finally of                     *)
(* #handleInitializeRequest count every session and initialization once.    *)
THEOREM CapacityCorrect == Spec => []CapacityKept
<1>1. Safe => CapacityKept
  BY DEF Safe
<1> QED BY <1>1, SessionsSafe, PTL

(* NoOrphanBridge: a bridge is live exactly while #sessions has it.         *)
THEOREM BridgesRegistered == Spec => []NoOrphanBridge
<1>1. Safe => NoOrphanBridge
  BY DEF Safe
<1> QED BY <1>1, SessionsSafe, PTL

(* ClosedForGood: SessionStore.touch and create never revive a session that *)
(* was closed.                                                              *)
THEOREM ClosedStaysClosed == Spec => ClosedForGood
<1>1. Safe /\ [Next]_vars =>
        [\A s \in Sessions : record[s] = "closed" => record'[s] \in {"closed", "none"}]_vars
  <2> SUFFICES ASSUME Safe, Next, NEW t \in Sessions, record[t] = "closed"
               PROVE  record'[t] \in {"closed", "none"}
    OBVIOUS
  <2>1. ASSUME NEW S, CloseSessions(S) PROVE record'[t] \in {"closed", "none"}
    BY <2>1, CloseFacts
  <2>2. CASE Sweep \/ Close \/ ListenerCloses \/ Closed
    BY <2>1, <2>2 DEF Sweep, Close, ListenerCloses, Closed, table
  <2>3. ASSUME NEW s \in Sessions, CloseSettles(s) \/ Expire(s) \/ CdpActivity(s) \/ InitAccepted(s)
        PROVE  record'[t] \in {"closed", "none"}
    BY <2>3 DEF CloseSettles, Expire, CdpActivity, InitAccepted, Touch, Safe, TypeOK, Phased
  <2>4. ASSUME NEW s \in Sessions, Disconnect(s) \/ InitArrives(s) \/ Connected(s) \/ InitThrows(s)
        PROVE  record'[t] \in {"closed", "none"}
    BY <2>1, <2>4 DEF Disconnect, InitArrives, Connected, InitThrows, CloseAndReturn, table
  <2>5. ASSUME NEW s \in Sessions, \/ InitReserve(s) \/ StartFails(s) \/ Starts(s) \/ Discarded(s)
                                   \/ InitAnswered(s) \/ InitClosed(s)
        PROVE  record'[t] \in {"closed", "none"}
    BY <2>5 DEF InitReserve, StartFails, Starts, Discarded, InitAnswered, InitClosed, table
  <2>6. ASSUME NEW r \in Requests, \/ RequestArrives(r) \/ RequestRouted(r) \/ DeleteAccepted(r)
                                   \/ RequestEnds(r) \/ RequestClosed(r)
        PROVE  record'[t] \in {"closed", "none"}
    BY <2>1, <2>6, InputsAssumption
       DEF RequestArrives, RequestRouted, DeleteAccepted, RequestEnds, RequestClosed, table, Touch, Safe, TypeOK
  <2> QED BY <2>2, <2>3, <2>4, <2>5, <2>6 DEF Next
<1> QED BY <1>1, SessionsSafe, PTL DEF Spec, ClosedForGood
=============================================================================
