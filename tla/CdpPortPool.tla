----------------------------- MODULE CdpPortPool -----------------------------
(***************************************************************************)
(* What the external CDP port pool promises its sessions (what              *)
(* CdpPortAllocator in src/src/cdp/allocator.ts is for): a port belongs to  *)
(* at most one lease, a lease gets one port at most once, and only its own  *)
(* return gives the port back.  How a free port is found is left open.      *)
(***************************************************************************)
CONSTANTS Ports, Leases

VARIABLE held   \* pairs <<port, lease>>

Init == held = {}

Grant(p, l) ==
  /\ \A h \in held : h[1] # p /\ h[2] # l
  /\ held' = held \cup {<<p, l>>}

Return(l) ==
  /\ \E h \in held : h[2] = l
  /\ held' = {h \in held : h[2] # l}

Next == \E l \in Leases : Return(l) \/ \E p \in Ports : Grant(p, l)

Spec == Init /\ [][Next]_held
=============================================================================
