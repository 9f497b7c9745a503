-------------------------- MODULE CdpPortAllocator --------------------------
(***************************************************************************)
(* The pool of external CDP ports shared by the sessions of one process     *)
(* (src/src/cdp/allocator.ts).  A lease is one call of acquire() and what   *)
(* it returned: the bound proxy listener, which proxy.stop() closes and     *)
(* proxy.release() gives back, each perhaps more than once.                 *)
(***************************************************************************)
EXTENDS Naturals

CONSTANTS
  Start, End,   \* the configured range
  Leases        \* calls of acquire

ASSUME RangeAssumption ==
  /\ Start \in Nat /\ End \in Nat
  /\ 1 <= Start /\ Start <= End /\ End <= 65535

Ports  == Start .. End
NoPort == 0

VARIABLES
  leased,     \* #leased
  lease,      \* each acquire() and the CdpPortLease it returned
  listening   \* leases whose listener holds its port in the system

allocatorVars == <<leased, lease, listening>>

\* closing, releasing: #closeBindingPromise and #releasePromise
Promise == {"none", "pending", "ok", "failed"}
Idle == [pc |-> "idle", port |-> NoPort, closing |-> "none", releasing |-> "none"]

AllocatorInit ==
  /\ leased = {} /\ listening = {}
  /\ lease = [l \in Leases |-> Idle]

\* #selectCandidate: the lowest port of the range that is not leased
SelectLowest    == {p \in Ports : \A q \in Ports : p <= q}
SelectPastEnd   == {p \in (Start .. (End + 1)) \ leased :
                      \A q \in (Start .. (End + 1)) \ leased : p <= q}
SelectCandidate == {p \in Ports \ leased : \A q \in Ports \ leased : p <= q}

\* acquire up to its await: the port is reserved before the bind
Acquire(l) ==
  /\ lease[l].pc = "idle"
  /\ \/ /\ SelectCandidate = {}
        /\ lease' = [lease EXCEPT ![l].pc = "exhausted"]
        /\ UNCHANGED leased
     \/ \E p \in SelectCandidate :
          /\ lease' = [lease EXCEPT ![l].pc = "binding", ![l].port = p]
          /\ leased' = leased \cup {p}
  /\ UNCHANGED listening

Bound(l) ==
  /\ lease[l].pc = "binding"
  /\ lease' = [lease EXCEPT ![l].pc = "held"]
  /\ listening' = listening \cup {l}
  /\ UNCHANGED leased

\* CdpPortBindError, for instance because another program has the port
BindFails(l) ==
  /\ lease[l].pc = "binding"
  /\ lease' = [lease EXCEPT ![l].pc = "failed"]
  /\ leased' = leased \ {lease[l].port}
  /\ UNCHANGED listening

CloseBinding(l) ==
  /\ lease[l].pc = "held" /\ lease[l].closing = "none"
  /\ lease' = [lease EXCEPT ![l].closing = "pending"]
  /\ UNCHANGED <<leased, listening>>

ReleasableAgain(l) == lease[l].pc = "held"
Releasable(l)      == lease[l].pc = "held" /\ lease[l].releasing = "none"

\* a release that finds the binding closed settles in the same turn
Release(l) ==
  /\ Releasable(l)
  /\ lease' = [lease EXCEPT ![l].closing = IF @ = "none" THEN "pending" ELSE @,
                            ![l].releasing =
                               IF lease[l].closing = "none" THEN "pending" ELSE lease[l].closing]
  /\ leased' = IF lease[l].closing = "ok" THEN leased \ {lease[l].port} ELSE leased
  /\ UNCHANGED listening

FreesAtOnce(l, closed) == lease[l].releasing = "pending"
Frees(l, closed)       == closed = "ok" /\ lease[l].releasing = "pending"

\* the listener closed, or did not: a failed close keeps the port reserved
CloseSettles(l) ==
  /\ lease[l].closing = "pending"
  /\ \E closed \in {"ok", "failed"} :
       /\ lease' = [lease EXCEPT ![l].closing = closed,
                                 ![l].releasing = IF @ = "pending" THEN closed ELSE @]
       /\ leased' = IF Frees(l, closed) THEN leased \ {lease[l].port} ELSE leased
       /\ listening' = IF closed = "ok" THEN listening \ {l} ELSE listening

AllocatorNext == \E l \in Leases :
  \/ Acquire(l) \/ Bound(l) \/ BindFails(l)
  \/ CloseBinding(l) \/ Release(l) \/ CloseSettles(l)

AllocatorSpec == AllocatorInit /\ [][AllocatorNext]_allocatorVars
-----------------------------------------------------------------------------
AllocatorTypeOK ==
  /\ leased \subseteq Ports /\ listening \subseteq Leases
  /\ lease \in [Leases -> [pc: {"idle", "exhausted", "binding", "failed", "held"},
                           port: Ports \cup {NoPort},
                           closing: Promise, releasing: Promise]]

\* acquired and not given back
Holds(l) == lease[l].pc \in {"binding", "held"} /\ lease[l].releasing # "ok"

(* Concurrent sessions never get the same port (spec.md:384), and a port    *)
(* whose old listener may still be open is not handed out again             *)
(* (spec.md:760): no acquire is about to bind a port that one of our own    *)
(* listeners still holds.                                                   *)
NeverCollides ==
  \A l1, l2 \in Leases :
    l1 # l2 /\ Holds(l1) /\ (Holds(l2) \/ l2 \in listening) => lease[l1].port # lease[l2].port

(* #leased is exact: it names the ports of the leases not given back yet,   *)
(* no port is lost and none is freed twice ("release the correct port       *)
(* exactly once", spec.md:759).                                             *)
LeasedExact == leased = {lease[l].port : l \in {k \in Leases : Holds(k)}}

(* What makes the two hold: closing comes before releasing, and an open     *)
(* listener is one that did not close.                                      *)
ClosesFirst ==
  \A l \in Leases :
    /\ lease[l].pc # "held" => lease[l].closing = "none"
    /\ lease[l].releasing # "none" => lease[l].releasing = lease[l].closing
    /\ l \in listening => lease[l].pc = "held" /\ lease[l].closing # "ok"
    /\ lease[l].pc \in {"binding", "held"} => lease[l].port \in Ports

AllocatorInv == AllocatorTypeOK /\ NeverCollides /\ LeasedExact /\ ClosesFirst

(* The allocator implements the pool.                                       *)
Held == {<<lease[l].port, l>> : l \in {k \in Leases : Holds(k)}}
Pool == INSTANCE CdpPortPool WITH held <- Held
PoolSpec == Pool!Spec
=============================================================================
