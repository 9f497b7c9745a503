----------------------------- MODULE MCCdpProxy -----------------------------
(* Instance of CdpProxy for TLC: two upgrades and more requests than may be *)
(* active, over two generations.                                            *)
EXTENDS CdpProxy
=============================================================================
