---------------------------- MODULE MCPeerCalls ----------------------------
(* A call and a oneShot of one agent; calls share nothing but a takeover   *)
(* of their channel and the restarts.                                      *)
EXTENDS PeerCalls, TLC

CONSTANTS c1, n1, a

MCCaller == c1 :> a @@ n1 :> a
=============================================================================
