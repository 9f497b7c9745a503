--------------------------- MODULE MCBridgeServer ---------------------------
(* Instance of BridgeServer for TLC: two lists over two pages share the      *)
(* promises of one cache while two children follow each other and one of    *)
(* them changes its tools.                                                   *)
EXTENDS BridgeServer
=============================================================================
