------------------------------- MODULE Stream -------------------------------
(***************************************************************************)
(* What a websocket pump promises of each direction, abstracting from its   *)
(* goroutines and channels: the frames that one side sends are written to   *)
(* the other side in the order in which they were sent, none of them twice, *)
(* and, unless chaos drops messages, none skipped.  Data and control frames *)
(* are two separate sequences: a ping may overtake the data before it.      *)
(*                                                                         *)
(* A direction is named by the side its frames come from.                   *)
(***************************************************************************)
EXTENDS Naturals, Sequences

VARIABLES
    script,     \* the frames each side sends
    lossy,      \* chaos drops messages
    data,       \* the last data frame of it that was passed on
    control     \* the last ping or pong of it that was passed on

streamVars == <<script, lossy, data, control>>

Sides == {"frontend", "backend"}

Passed(kind) == kind \in {"ping", "pong"}

Init ==
    /\ lossy \in BOOLEAN
    /\ data = [s \in Sides |-> 0]
    /\ control = [s \in Sides |-> 0]

(* A data frame is passed on after all the data frames before it.           *)
PassData(s) ==
    /\ \E i \in data[s] + 1 .. Len(script[s]) :
          /\ script[s][i] = "data"
          /\ lossy \/ \A j \in data[s] + 1 .. i - 1 : script[s][j] # "data"
          /\ data' = [data EXCEPT ![s] = i]
    /\ UNCHANGED <<script, lossy, control>>

(* So is a ping or a pong after the pings and pongs before it.              *)
PassControl(s) ==
    /\ \E i \in control[s] + 1 .. Len(script[s]) :
          /\ Passed(script[s][i])
          /\ \A j \in control[s] + 1 .. i - 1 : ~Passed(script[s][j])
          /\ control' = [control EXCEPT ![s] = i]
    /\ UNCHANGED <<script, lossy, data>>

Next == \E s \in Sides : PassData(s) \/ PassControl(s)

Spec == Init /\ [][Next]_streamVars
=============================================================================
