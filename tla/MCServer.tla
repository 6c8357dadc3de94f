------------------------------ MODULE MCServer ------------------------------
(* Connections that all come from the same address, one after the other.    *)
EXTENDS Server

CONSTANTS a1, ip

MCRemoteAddr == [c \in Conns |-> a1]
MCRemoteIP   == [c \in Conns |-> ip]
=============================================================================
