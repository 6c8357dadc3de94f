---------------------------- MODULE ServerProofs ----------------------------
(***************************************************************************)
(* Proofs about HttpConnections, for any number of connections and          *)
(* addresses, however soon an address is used again; and that all of it     *)
(* also holds of the proxy inside the server, whatever signals and failures *)
(* the server gets: every step of the server is a step of the proxy, leaves *)
(* the proxy alone, or is the end of the process.                           *)
(***************************************************************************)
EXTENDS Server, TLAPS

USE RemoteAssumption, NilAssumption, FailuresAssumption

-----------------------------------------------------------------------------
(* The proxy by itself.                                                     *)

(* Where a connection that was drained can be, and how often it answered:   *)
(* until its socket is shut it is in draining, and its one late response is *)
(* the step that shuts it, unless it was displaced.                         *)
DrainInv ==
    \A c \in Conns :
        /\ c \in drained => state[c] /= "none"
        /\ state[c] \in {"active", "responded"} => sock[c] /= "shut"
        /\ c \notin displaced =>
             /\ c \in drained /\ Established(c) /\ sock[c] /= "shut" => InDraining(c)
             /\ late[c] \in {0, 1}
             /\ late[c] = 1 =>
                  /\ sock[c] = "shut"
                  /\ state[c] \in {"idle", "closing", "closed"}

StopInv == phase = "stopped" => \A k \in Keys : connections[k] = Nil

IInv ==
    /\ TypeOK
    /\ EstablishedAreTracked
    /\ MapsAreExact
    /\ DrainInv
    /\ StopInv

(* The initial state satisfies the invariant.                               *)
LEMMA InitIInv == Init => IInv
<1> SUFFICES ASSUME Init PROVE IInv
  OBVIOUS
<1> USE DEF Init
<1>1. TypeOK
  BY DEF TypeOK, States, Keys
<1>2. \A c \in Conns : ~Established(c)
  BY DEF Established
<1>3. \A k \in Keys : connections[k] = Nil /\ draining[k] = Nil
  OBVIOUS
<1>4. EstablishedAreTracked /\ MapsAreExact /\ StopInv
  BY <1>2, <1>3 DEF EstablishedAreTracked, MapsAreExact, StopInv
<1>5. DrainInv
  <2>1. \A c \in Conns : c \notin drained /\ late[c] = 0 /\ state[c] = "none"
    OBVIOUS
  <2> HIDE DEF Init
  <2>2. ASSUME NEW c \in Conns PROVE late[c] \in {0, 1} /\ late[c] /= 1
    <3>1. late[c] = 0
      BY <2>1
    <3> QED BY <3>1
  <2>3. \A c \in Conns : ~(state[c] \in {"active", "responded"})
    BY <2>1
  <2> QED BY <2>1, <2>2, <2>3, Zenon DEF DrainInv
<1> QED BY <1>1, <1>4, <1>5 DEF IInv

(* Every step preserves the types.                                          *)
LEMMA TypeStep == TypeOK /\ [Next]_vars => TypeOK'
<1> SUFFICES ASSUME TypeOK, [Next]_vars PROVE TypeOK'
  OBVIOUS
<1> USE DEF TypeOK
<1> \A c \in Conns : RemoteAddr[c] \in Keys /\ RemoteIP[c] \in Keys
  BY DEF Keys
<1>1. ASSUME NEW c \in Conns, ClientStep(c) PROVE TypeOK'
  BY <1>1 DEF ClientStep, Accept, Request, ClientVanishes, Displaced, historyVars, States
<1>2. ASSUME NEW c \in Conns, HandlerReturns(c) PROVE TypeOK'
  BY <1>2 DEF HandlerReturns, historyVars, States
<1>3. ASSUME NEW c \in Conns, WriteAndIdle(c) PROVE TypeOK'
  <2>1. late' \in [Conns -> 0 .. 2]
    <3>1. late[c] \in 0 .. 2
      OBVIOUS
    <3>2. CASE c \in drained /\ late[c] < 2
      BY <1>3, <3>1, <3>2 DEF WriteAndIdle
    <3>3. CASE ~(c \in drained /\ late[c] < 2)
      BY <1>3, <3>1, <3>3 DEF WriteAndIdle
    <3> QED BY <3>2, <3>3
  <2>2. state' \in [Conns -> States]
    BY <1>3 DEF WriteAndIdle, AfterIdle, States
  <2> QED BY <1>3, <2>1, <2>2 DEF WriteAndIdle, Displaced
<1>4. ASSUME NEW c \in Conns, WriteAndClose(c) \/ GiveUp(c) \/ Closed(c) \/ CloseIdleConn(c)
      PROVE TypeOK'
  BY <1>4 DEF WriteAndClose, GiveUp, Closed, CloseIdleConn, Displaced, historyVars, States
<1>5. ASSUME ResetConnections, UNCHANGED <<workerVars, late>>,
             phase' \in {phase, "stopped"}
      PROVE TypeOK'
  BY <1>5 DEF ResetConnections, workerVars
<1>6. ASSUME BeginStop \/ UNCHANGED vars PROVE TypeOK'
  BY <1>6 DEF BeginStop, vars, workerVars, historyVars
<1> QED BY <1>1, <1>2, <1>3, <1>4, <1>5, <1>6
        DEF Next, WorkerStep, Reset, FinishStop

(* Every step preserves the rest of the invariant.                          *)
LEMMA InvStep ==
    ASSUME IInv, [Next]_vars
    PROVE  EstablishedAreTracked' /\ MapsAreExact' /\ DrainInv' /\ StopInv'
<1> DEFINE Goal == EstablishedAreTracked' /\ MapsAreExact' /\ DrainInv' /\ StopInv'
<1> USE DEF IInv, TypeOK
<1> \A c \in Conns : RemoteAddr[c] \in Keys /\ c /= Nil
  BY DEF Keys
<1>1. ASSUME NEW c \in Conns, Accept(c) PROVE Goal
  <2> USE <1>1 DEF Accept
  <2>1. /\ \A d \in Conns \ {c} : Established(d)' <=> Established(d)
        /\ ~Established(c) /\ Established(c)'
    BY DEF Established
  <2>2. \A k \in Keys : draining[k] /= c /\ connections[k] /= c
    BY <2>1 DEF MapsAreExact
  <2>3. EstablishedAreTracked'
    <3> SUFFICES ASSUME NEW d \in Conns, Established(d)', sock'[d] /= "shut"
                 PROVE  InConnections(d)' \/ InDraining(d)' \/ d \in displaced'
      BY DEF EstablishedAreTracked
    <3>1. CASE d = c
      BY <3>1 DEF InConnections
    <3>2. CASE d /= c
      BY <2>1, <3>2 DEF EstablishedAreTracked, InConnections, InDraining, Displaced
    <3> QED BY <3>1, <3>2
  <2>4. MapsAreExact'
    BY <2>1, <2>2 DEF MapsAreExact
  <2>5. DrainInv'
    BY <2>1 DEF DrainInv, InDraining
  <2>6. StopInv'
    BY DEF StopInv
  <2> QED BY <2>3, <2>4, <2>5, <2>6
<1> DEFINE Quiet == /\ UNCHANGED <<connections, draining, phase, drained, late, displaced>>
                    /\ \A d \in Conns : Established(d)' <=> Established(d)
<1>2. ASSUME Quiet,
             \A d \in Conns : /\ sock'[d] /= "shut" => sock[d] /= "shut"
                              /\ state'[d] = "none" => state[d] = "none"
                              /\ d \notin displaced /\ late[d] = 1 =>
                                   /\ sock'[d] = "shut"
                                   /\ state'[d] \in {"idle", "closing", "closed"}
                              /\ state'[d] \in {"active", "responded"} => sock'[d] /= "shut"
      PROVE  Goal
  BY <1>2 DEF EstablishedAreTracked, MapsAreExact, DrainInv, StopInv,
              InConnections, InDraining
<1>3. ASSUME NEW c \in Conns, Request(c) PROVE Goal
  <2>1. Quiet
    BY <1>3 DEF Request, Established, Waiting, historyVars
  <2> QED BY <1>2, <1>3, <2>1 DEF Request, DrainInv
<1>4. ASSUME NEW c \in Conns, ClientVanishes(c) PROVE Goal
  <2>1. Quiet
    BY <1>4 DEF ClientVanishes, Established, historyVars
  <2> QED BY <1>2, <1>4, <2>1 DEF ClientVanishes, DrainInv
<1>5. ASSUME NEW c \in Conns, HandlerReturns(c) PROVE Goal
  <2>1. Quiet
    BY <1>5 DEF HandlerReturns, Established, historyVars
  <2> QED BY <1>2, <1>5, <2>1 DEF HandlerReturns, DrainInv
<1>6. ASSUME NEW c \in Conns, WriteAndClose(c) \/ GiveUp(c) PROVE Goal
  <2>1. Quiet
    BY <1>6 DEF WriteAndClose, GiveUp, Established, Waiting, historyVars
  <2> QED BY <1>2, <1>6, <2>1 DEF WriteAndClose, GiveUp, DrainInv
<1>7. ASSUME NEW c \in Conns, CloseIdleConn(c) PROVE Goal
  <2>1. Quiet
    BY <1>7 DEF CloseIdleConn, Established, historyVars
  <2> QED BY <1>2, <1>7, <2>1 DEF CloseIdleConn, Waiting, DrainInv
<1>8. ASSUME NEW c \in Conns, WriteAndIdle(c) PROVE Goal
  <2>1. /\ \A d \in Conns : Established(d)' <=> Established(d)
        /\ \A d \in Conns \ {c} : state'[d] = state[d] /\ sock'[d] = sock[d] /\ late'[d] = late[d]
        /\ state'[c] \in {"idle", "closing"} /\ state[c] = "responded"
        /\ UNCHANGED <<connections, phase, drained>>
        /\ displaced' = displaced \cup {d \in Conns \ {c} : InDraining(d)
                                                    /\ RemoteAddr[d] = RemoteAddr[c]}
        /\ draining' = [draining EXCEPT ![RemoteAddr[c]] = Nil]
    BY <1>8 DEF WriteAndIdle, AfterIdle, Established, Displaced, InDraining, MapsAreExact
  <2>2. Established(c) /\ sock[c] /= "shut" /\ (c \notin displaced => late[c] = 0)
    BY <2>1 DEF Established, DrainInv
  <2>3. c \in drained /\ c \notin displaced => sock'[c] = "shut" /\ late'[c] = 1
    <3> SUFFICES ASSUME c \in drained, c \notin displaced
                 PROVE  sock'[c] = "shut" /\ late'[c] = 1
      OBVIOUS
    <3>1. draining[RemoteAddr[c]] = c /\ late[c] = 0
      BY <2>2 DEF DrainInv, InDraining
    <3> QED BY <1>8, <3>1 DEF WriteAndIdle
  <2>4. c \notin drained => late'[c] = late[c]
    BY <1>8 DEF WriteAndIdle
  <2>5. sock'[c] /= "shut" => draining[RemoteAddr[c]] = Nil
    BY <1>8 DEF WriteAndIdle
  <2>6. EstablishedAreTracked'
    <3> SUFFICES ASSUME NEW d \in Conns, Established(d)', sock'[d] /= "shut"
                 PROVE  InConnections(d)' \/ InDraining(d)' \/ d \in displaced'
      BY DEF EstablishedAreTracked
    <3>1. CASE d = c
      BY <2>1, <2>2, <2>5, <3>1 DEF EstablishedAreTracked, InConnections, InDraining
    <3>2. CASE d /= c
      BY <2>1, <3>2 DEF EstablishedAreTracked, InConnections, InDraining
    <3> QED BY <3>1, <3>2
  <2>7. MapsAreExact'
    BY <2>1 DEF MapsAreExact
  <2>8. DrainInv'
    <3> SUFFICES ASSUME NEW d \in Conns
                 PROVE  /\ d \in drained => state'[d] /= "none"
                        /\ state'[d] \in {"active", "responded"} => sock'[d] /= "shut"
                        /\ d \notin displaced' =>
                             /\ d \in drained /\ Established(d)' /\ sock'[d] /= "shut"
                                  => InDraining(d)'
                             /\ late'[d] \in {0, 1}
                             /\ late'[d] = 1 =>
                                  /\ sock'[d] = "shut"
                                  /\ state'[d] \in {"idle", "closing", "closed"}
      BY <2>1 DEF DrainInv
    <3>1. CASE d = c
      BY <2>1, <2>2, <2>3, <2>4, <3>1
    <3>2. CASE d /= c
      BY <2>1, <3>2 DEF DrainInv, InDraining
    <3> QED BY <3>1, <3>2
  <2>9. StopInv'
    BY <2>1 DEF StopInv
  <2> QED BY <2>6, <2>7, <2>8, <2>9
<1>9. ASSUME NEW c \in Conns, Closed(c) PROVE Goal
  <2> USE <1>9 DEF Closed
  <2>1. /\ \A d \in Conns \ {c} : state'[d] = state[d]
        /\ \A d \in Conns \ {c} : Established(d)' <=> Established(d)
        /\ Established(c) /\ ~Established(c)' /\ state'[c] = "closed"
    BY DEF Established
  <2>2. \A k \in Keys : k /= RemoteAddr[c] =>
            connections'[k] = connections[k] /\ draining'[k] = draining[k]
    OBVIOUS
  <2>3. connections'[RemoteAddr[c]] = Nil /\ draining'[RemoteAddr[c]] = Nil
    OBVIOUS
  <2>4. \A d \in Conns \ {c} :
            /\ InConnections(d) => InConnections(d)' \/ d \in displaced'
            /\ InDraining(d) => InDraining(d)' \/ d \in displaced'
    BY DEF InConnections, InDraining, Displaced
  <2>5. EstablishedAreTracked'
    BY <2>1, <2>4 DEF EstablishedAreTracked
  <2>6. MapsAreExact'
    <3> SUFFICES ASSUME NEW k \in Keys
                 PROVE  /\ connections'[k] /= Nil =>
                             /\ Established(connections[k])' /\ RemoteAddr[connections'[k]] = k
                             /\ draining'[k] /= connections'[k]
                        /\ draining'[k] /= Nil =>
                             Established(draining[k])' /\ RemoteAddr[draining'[k]] = k
      BY DEF MapsAreExact
    <3>1. CASE k = RemoteAddr[c]
      BY <2>3, <3>1
    <3>2. CASE k /= RemoteAddr[c]
      BY <2>1, <2>2, <3>2 DEF MapsAreExact
    <3> QED BY <3>1, <3>2
  <2>7. DrainInv'
    <3> SUFFICES ASSUME NEW d \in Conns
                 PROVE  /\ d \in drained => state'[d] /= "none"
                        /\ state'[d] \in {"active", "responded"} => sock[d] /= "shut"
                        /\ d \notin displaced' =>
                             /\ d \in drained /\ Established(d)' /\ sock[d] /= "shut"
                                  => InDraining(d)'
                             /\ late[d] \in {0, 1}
                             /\ late[d] = 1 =>
                                  /\ sock[d] = "shut"
                                  /\ state'[d] \in {"idle", "closing", "closed"}
      BY DEF DrainInv
    <3>1. CASE d = c
      BY <2>1, <3>1 DEF DrainInv
    <3>2. CASE d /= c
      BY <2>1, <2>4, <3>2 DEF DrainInv
    <3> QED BY <3>1, <3>2
  <2>8. StopInv'
    BY DEF StopInv
  <2> QED BY <2>5, <2>6, <2>7, <2>8
<1>10. ASSUME ResetConnections, UNCHANGED <<workerVars, late>> PROVE Goal
  <2> USE <1>10 DEF ResetConnections, workerVars
  <2>1. \A d \in Conns : Established(d)' <=> Established(d)
    BY DEF Established
  <2>2. StopInv'
    BY DEF StopInv
  <2>3. \A d \in Conns : /\ InConnections(d) => InDraining(d)'
                         /\ InDraining(d) => InDraining(d)' \/ d \in displaced'
    BY DEF InDraining, InConnections
  <2>4. EstablishedAreTracked'
    BY <2>1, <2>3 DEF EstablishedAreTracked
  <2>5. MapsAreExact'
    BY <2>1 DEF MapsAreExact
  <2>6. \A d \in Conns : d \in drained' => d \in drained \/ (InConnections(d) /\ Established(d))
    <3>1. ASSUME NEW d \in Conns, NEW k \in Keys, connections[k] = d
          PROVE  InConnections(d) /\ Established(d)
      <4>1. Established(d) /\ RemoteAddr[d] = k
        BY <3>1 DEF MapsAreExact
      <4> QED BY <3>1, <4>1 DEF InConnections
    <3>2. \A d \in drained' \ drained : \E k \in Keys : connections[k] = d
      OBVIOUS
    <3> QED BY <3>1, <3>2
  <2>7. DrainInv'
    BY <2>1, <2>3, <2>6 DEF DrainInv, Established
  <2> QED BY <2>2, <2>4, <2>5, <2>7
<1>11. ASSUME BeginStop \/ UNCHANGED vars PROVE Goal
  <2>1. UNCHANGED <<state, sock, connections, draining, drained, late, displaced>>
    BY <1>11 DEF BeginStop, vars, workerVars, historyVars
  <2>2. phase' = "stopped" => phase = "stopped"
    BY <1>11 DEF BeginStop, vars
  <2> QED BY <2>1, <2>2 DEF EstablishedAreTracked, MapsAreExact, DrainInv,
                             StopInv, InConnections, InDraining, Established
<1> HIDE DEF Goal
<1>12. Goal
  BY <1>1, <1>3, <1>4, <1>5, <1>6, <1>7, <1>8, <1>9, <1>10, <1>11
     DEF Next, ClientStep, WorkerStep, Reset, FinishStop
<1> QED BY <1>12 DEF Goal

-----------------------------------------------------------------------------

(* The invariant holds in every reachable state.                            *)
THEOREM Invariance == Spec => []IInv
<1>1. IInv /\ [Next]_vars => IInv'
  <2> SUFFICES ASSUME IInv, [Next]_vars PROVE IInv'
    OBVIOUS
  <2>1. TypeOK'
    BY TypeStep DEF IInv
  <2>2. EstablishedAreTracked' /\ MapsAreExact' /\ DrainInv' /\ StopInv'
    BY InvStep
  <2> QED BY <2>1, <2>2 DEF IInv
<1> QED BY InitIInv, <1>1, PTL DEF Spec

(* Every variable of the connections keeps its type.                        *)
THEOREM TypeCorrect == Spec => []TypeOK
<1>1. Init => TypeOK
  BY InitIInv DEF IInv
<1> QED BY <1>1, TypeStep, PTL DEF Spec

(* A reset reaches every connection that is established and not shut,       *)
(* unless another one of its address displaced it.                          *)
THEOREM Tracked == Spec => []EstablishedAreTracked
<1>1. IInv => EstablishedAreTracked
  BY DEF IInv
<1> QED BY Invariance, <1>1, PTL

(* The two maps hold nothing but established connections, each once.        *)
THEOREM Exact == Spec => []MapsAreExact
<1>1. IInv => MapsAreExact
  BY DEF IInv
<1> QED BY Invariance, <1>1, PTL

(* What the invariant says of responses after a reset.                      *)
LEMMA DrainedBound == IInv => OneResponseAfterReset
<1> SUFFICES ASSUME IInv, NEW c \in Conns, c \notin displaced PROVE late[c] <= 1
  BY DEF OneResponseAfterReset
<1>1. late[c] \in {0, 1}
  BY DEF IInv, DrainInv
<1> QED BY <1>1

(* A connection that is not displaced writes at most one response after it  *)
(* was reset.                                                               *)
THEOREM DrainBound == Spec => []OneResponseAfterReset
<1> QED BY Invariance, DrainedBound, PTL

(* What the invariant says of a stopped proxy: connections is empty, so     *)
(* every connection still open and not displaced is in draining.            *)
LEMMA StoppedIsDraining == IInv => StopLeavesOnlyDraining
<1> SUFFICES ASSUME IInv, phase = "stopped", NEW c \in Conns, c \notin displaced,
                    Established(c), sock[c] /= "shut"
             PROVE  InDraining(c)
  BY DEF StopLeavesOnlyDraining
<1>1. ~InConnections(c)
  BY DEF IInv, StopInv, InConnections, Keys
<1> QED BY <1>1 DEF IInv, EstablishedAreTracked

(* Stop leaves no connection behind that is neither draining nor shut, but  *)
(* for the displaced ones.                                                  *)
THEOREM StopComplete == Spec => []StopLeavesOnlyDraining
<1> QED BY Invariance, StoppedIsDraining, PTL

-----------------------------------------------------------------------------
(* The proxy inside the server.                                             *)

(* A step of the server is one of the proxy, or ends the process.           *)
LEMMA StepOfProxy == [ServerNext]_allVars => [Next]_vars \/ StopOthersAndExit
<1> SUFFICES ASSUME [ServerNext]_allVars PROVE [Next]_vars \/ StopOthersAndExit
  OBVIOUS
<1>1. CASE HangupReceived \/ TerminateReceived \/ FailureReceived
           \/ Hangup \/ Terminate \/ Failure \/ UNCHANGED allVars
  BY <1>1 DEF HangupReceived, TerminateReceived, FailureReceived, Hangup, Terminate,
              Failure, allVars
<1>2. CASE ResetRpc
  BY <1>2 DEF ResetRpc, Reset, Next
<1>3. CASE BeginStopRpc \/ FinishStopRpc
  BY <1>3 DEF BeginStopRpc, FinishStopRpc, Next
<1>4. CASE Beside
  BY <1>4 DEF Beside, Next
<1>5. CASE StopOthersAndExit
  BY <1>5
<1> QED BY <1>1, <1>2, <1>3, <1>4, <1>5 DEF ServerNext, Main

(* The end of the process leaves no entry behind.                           *)
LEMMA ExitStep == ASSUME IInv, StopOthersAndExit PROVE IInv'
<1> USE DEF StopOthersAndExit, historyVars
<1>1. TypeOK'
  BY DEF IInv, TypeOK, States
<1>2. \A c \in Conns : ~Established(c)'
  BY DEF IInv, TypeOK, Established
<1>3. \A k \in Keys : connections'[k] = Nil /\ draining'[k] = Nil
  OBVIOUS
<1>4. EstablishedAreTracked' /\ MapsAreExact' /\ StopInv'
  BY <1>2, <1>3 DEF EstablishedAreTracked, MapsAreExact, StopInv
<1>5. DrainInv'
  <2>1. ASSUME NEW c \in Conns
        PROVE  /\ state'[c] = IF Established(c) THEN "closed" ELSE state[c]
               /\ sock'[c] = IF Established(c) THEN "shut" ELSE sock[c]
               /\ ~(state'[c] \in {"active", "responded"})
    BY DEF IInv, TypeOK, Established
  <2> QED BY <1>2, <2>1 DEF IInv, DrainInv
<1> QED BY <1>1, <1>4, <1>5 DEF IInv

(* The types of the server's own variables.                                 *)
LEMMA ServerTypeStep ==
    ASSUME ServerTypeOK, TypeOK', [ServerNext]_allVars PROVE ServerTypeOK'
<1> USE DEF ServerTypeOK, signalVars
<1>1. CASE UNCHANGED serverVars
  BY <1>1 DEF serverVars
<1>2. CASE HangupReceived
  BY <1>2 DEF HangupReceived
<1>3. CASE ResetRpc
  BY <1>3 DEF ResetRpc
<1>4. CASE TerminateReceived
  BY <1>4 DEF TerminateReceived
<1>5. CASE FailureReceived
  BY <1>5 DEF FailureReceived
<1>6. CASE BeginStopRpc
  BY <1>6 DEF BeginStopRpc
<1>7. CASE FinishStopRpc
  BY <1>7 DEF FinishStopRpc
<1>8. CASE StopOthersAndExit
  BY <1>8 DEF StopOthersAndExit
<1>9. CASE Hangup \/ Terminate
  BY <1>9, Zenon DEF Hangup, Terminate
<1>10. CASE Failure
  <2>1. failures' \in 0 .. MaxFailures
    BY <1>10 DEF Failure
  <2> QED BY <1>10, <2>1, Zenon DEF Failure
<1> QED BY <1>1, <1>2, <1>3, <1>4, <1>5, <1>6, <1>7, <1>8, <1>9, <1>10
        DEF ServerNext, Main, Beside, allVars

(* The invariant of the proxy, and the types, hold inside the server.       *)
THEOREM ServerInvariance == ServerSpec => [](IInv /\ ServerTypeOK)
<1>1. ServerInit => IInv /\ ServerTypeOK
  <2>1. ServerInit => IInv
    BY InitIInv DEF ServerInit
  <2>2. 0 \in 0 .. MaxFailures
    OBVIOUS
  <2> QED BY <2>1, <2>2, Zenon DEF ServerInit, IInv, ServerTypeOK
<1>2. IInv /\ ServerTypeOK /\ [ServerNext]_allVars => (IInv /\ ServerTypeOK)'
  <2> SUFFICES ASSUME IInv, ServerTypeOK, [ServerNext]_allVars
               PROVE  IInv' /\ ServerTypeOK'
    OBVIOUS
  <2>1. IInv'
    <3>1. CASE [Next]_vars
      <4>1. TypeOK'
        BY <3>1, TypeStep DEF IInv
      <4>2. EstablishedAreTracked' /\ MapsAreExact' /\ DrainInv' /\ StopInv'
        BY <3>1, InvStep
      <4> QED BY <4>1, <4>2 DEF IInv
    <3>2. CASE StopOthersAndExit
      BY <3>2, ExitStep
    <3> QED BY <3>1, <3>2, StepOfProxy
  <2>2. TypeOK'
    BY <2>1 DEF IInv
  <2> QED BY <2>1, <2>2, ServerTypeStep
<1> QED BY <1>1, <1>2, PTL DEF ServerSpec

(* Every variable of the server and of its rpc proxy keeps its type.        *)
THEOREM ServerTypeCorrect == ServerSpec => []ServerTypeOK
<1> QED BY ServerInvariance, PTL

(* Inside the server a reset, by signal or by the healthcheck, reaches      *)
(* every connection that is established and not shut, unless another one of *)
(* its address displaced it.                                                *)
THEOREM ServerTracked == ServerSpec => []EstablishedAreTracked
<1>1. IInv => EstablishedAreTracked
  BY DEF IInv
<1> QED BY ServerInvariance, <1>1, PTL

(* However resets by signal, resets by the healthcheck and the stop follow  *)
(* each other, a connection that is not displaced writes at most one        *)
(* response after the first.                                                *)
THEOREM ServerDrainBound == ServerSpec => []OneResponseAfterReset
<1> QED BY ServerInvariance, DrainedBound, PTL

(* Whatever stops and resets the server makes, the two maps hold nothing    *)
(* but established connections, each once.                                  *)
THEOREM ServerExact == ServerSpec => []MapsAreExact
<1>1. IInv => MapsAreExact
  BY DEF IInv
<1> QED BY ServerInvariance, <1>1, PTL

(* When a signal or a failed component has made the server stop the proxy,  *)
(* every connection that is left is draining, shut or displaced.            *)
THEOREM ServerStopComplete == ServerSpec => []StopLeavesOnlyDraining
<1> QED BY ServerInvariance, StoppedIsDraining, PTL
=============================================================================
