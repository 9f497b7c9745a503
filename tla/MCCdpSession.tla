---------------------------- MODULE MCCdpSession ----------------------------
(* Instance of CdpSession for TLC: every request may cause one restart, so  *)
(* with one child more than requests the bound on children stops nothing.   *)
EXTENDS CdpSession
=============================================================================
