------------------------- MODULE MCCdpPortAllocator -------------------------
(* Instance of CdpPortAllocator for TLC: more acquires than ports, so that  *)
(* the pool runs out and ports are used again.                              *)
EXTENDS CdpPortAllocator
=============================================================================
