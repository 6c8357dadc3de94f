---------------------------- MODULE MCWebsocket ----------------------------
(* Two sessions, with an address each or one after the other on the same.   *)
EXTENDS Websocket, TLC

CONSTANTS s1, s2, a1, a2

MCRemoteAddr == s1 :> a1 @@ s2 :> a2
MCSameAddr   == s1 :> a1 @@ s2 :> a1
=============================================================================
