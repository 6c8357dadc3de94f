------------------------- MODULE MCHttpConnections -------------------------
(* Three connections, two of them from the same address one after the other. *)
EXTENDS HttpConnections, TLC

CONSTANTS c1, c2, c3, a1, a2, ip

MCRemoteAddr == c1 :> a1 @@ c2 :> a2 @@ c3 :> a1
MCRemoteIP   == [c \in {c1, c2, c3} |-> ip]
=============================================================================
