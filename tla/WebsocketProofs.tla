-------------------------- MODULE WebsocketProofs --------------------------
(***************************************************************************)
(* Proofs about Websocket, for any number of sessions, any addresses, used  *)
(* again as soon as the sockets are closed, and any countdown: what a reset *)
(* closes, what Stop leaves, and that no pump is stopped twice.             *)
(***************************************************************************)
EXTENDS Websocket, TLAPS

USE RemoteAddrAssumption, CountdownAssumption, NilAssumption

(* At most one session of an address has its sockets open.                  *)
AddressesUnique ==
    \A s, t \in Sessions : open[s] /\ open[t] /\ RemoteAddr[s] = RemoteAddr[t] => s = t

(* What the place of a session says about it, and the other way round.      *)
SessionInv ==
    \A s \in Sessions :
        /\ hook[s] => pc[s] \notin {"none", "http", "hungup"}
        /\ open[s] => pc[s] \notin {"none", "hungup", "unregister", "ended"}
        /\ active[s] \/ done[s] => pc[s] \in {"running", "closing", "unregister", "ended"}

(* An entry of connections is of a session that is to take it out, and an   *)
(* open connection has its entry unless it was displaced.                   *)
ConnectionsInv ==
    /\ \A a \in Addrs : connections[a] # Nil =>
          /\ RemoteAddr[connections[a]] = a
          /\ pc[connections[a]] \in {"http", "hungup"} \/ hook[connections[a]]
    /\ \A s \in Sessions : pc[s] = "http" /\ open[s] /\ s \notin displaced
                              => connections[RemoteAddr[s]] = s

(* An open session with a pump has it in the map, unless a reset has taken  *)
(* it out and left the session alone, or it was displaced.                  *)
PumpsComplete ==
    \A s \in Sessions :
        pc[s] \in {"starting", "running", "closing"} /\ open[s] /\ s \notin missed \cup displaced
            => pumps[RemoteAddr[s]] = s

(* Only the pump that stop waits for is both in the map and told to stop.   *)
DoneInv ==
    \A s \in Sessions : done[s] /\ pumps[RemoteAddr[s]] = s => current = RemoteAddr[s]

(* The first loop of a reset visits exactly the pumps left in the map.      *)
ResetInv ==
    /\ lock => todo = {a \in Addrs : pumps[a] # Nil}
    /\ current # Nil => lock /\ current \in todo

(* What a reset is to close is closed, or is still to be visited: an active *)
(* pump cannot become inactive before stop has come to it.                  *)
TargetsInv ==
    lock => \A s \in targets :
        \/ ~open[s]
        \/ connections[RemoteAddr[s]] = s
        \/ pumps[RemoteAddr[s]] = s /\ (active[s] \/ current = RemoteAddr[s])

(* During the reset of Stop, every open session is in a map, or missed or   *)
(* displaced.                                                               *)
StopInv ==
    phase = "resetting" =>
        /\ lock
        /\ \A s \in Sessions : open[s] =>
              \/ s \in missed \cup displaced
              \/ connections[RemoteAddr[s]] = s
              \/ pumps[RemoteAddr[s]] = s

Inv ==
    /\ TypeOK
    /\ AddressesUnique
    /\ SessionInv
    /\ ConnectionsInv
    /\ PumpsAreLive
    /\ PumpsComplete
    /\ DoneInv
    /\ NeverDoubleClosed
    /\ ResetInv
    /\ TargetsInv
    /\ StopInv
    /\ StopLeavesOnlyUnready

(* The initial state satisfies the invariant.                               *)
LEMMA InitInv == Init => Inv
<1> SUFFICES ASSUME Init PROVE Inv
  OBVIOUS
<1>1. TypeOK
  <2>1. lock \in BOOLEAN /\ doubleClosed \in BOOLEAN
    BY Zenon DEF Init
  <2>2. countdown \in 0 .. Countdown
    BY DEF Init
  <2> QED BY <2>1, <2>2 DEF Init, TypeOK, PCs
<1>2. AddressesUnique /\ SessionInv /\ ConnectionsInv
  BY DEF Init, AddressesUnique, SessionInv, ConnectionsInv
<1>3. PumpsAreLive /\ PumpsComplete /\ DoneInv /\ NeverDoubleClosed
  BY DEF Init, PumpsAreLive, PumpsComplete, DoneInv, NeverDoubleClosed
<1>4. ResetInv /\ TargetsInv /\ StopInv /\ StopLeavesOnlyUnready
  BY DEF Init, ResetInv, TargetsInv, StopInv, StopLeavesOnlyUnready
<1> QED BY <1>1, <1>2, <1>3, <1>4 DEF Inv

-----------------------------------------------------------------------------
(* Sessions.                                                                *)

(* No other session of the address of an accepted connection is open.       *)
LEMMA AcceptInv == ASSUME Inv, NEW s \in Sessions, Accept(s) PROVE Inv'
<1> USE DEF Inv, Accept, pumpVars, mapVars, resetVars, stopVars
<1>1. TypeOK'
  BY DEF TypeOK, PCs
<1>2. AddressesUnique'
  BY DEF TypeOK, AddressesUnique
<1>3. SessionInv'
  BY DEF TypeOK, SessionInv
<1>4. ConnectionsInv'
  BY DEF TypeOK, ConnectionsInv
<1>5. PumpsAreLive'
  BY DEF TypeOK, PumpsAreLive, Registered
<1>6. PumpsComplete'
  BY DEF TypeOK, PumpsComplete
<1>7. TargetsInv'
  BY DEF TypeOK, TargetsInv
<1>8. StopInv'
  BY DEF TypeOK, StopInv
<1>9. StopLeavesOnlyUnready'
  BY DEF TypeOK, StopLeavesOnlyUnready
<1>10. DoneInv' /\ NeverDoubleClosed' /\ ResetInv'
  BY DEF DoneInv, NeverDoubleClosed, ResetInv
<1> QED BY <1>1, <1>2, <1>3, <1>4, <1>5, <1>6, <1>7, <1>8, <1>9, <1>10

LEMMA CloseHttpInv == ASSUME Inv, NEW s \in Sessions, CloseHttp(s) PROVE Inv'
<1> USE DEF Inv, CloseHttp, Displaced, pumpVars, mapVars, resetVars, stopVars
<1>1. TypeOK'
  BY DEF TypeOK, PCs
<1>2. AddressesUnique'
  BY DEF TypeOK, AddressesUnique
<1>3. SessionInv'
  BY DEF TypeOK, SessionInv
<1>4. ConnectionsInv'
  BY DEF TypeOK, ConnectionsInv, AddressesUnique
<1>5. PumpsAreLive'
  BY DEF TypeOK, PumpsAreLive, Registered
<1>6. PumpsComplete'
  BY DEF TypeOK, PumpsComplete
<1>7. TargetsInv'
  BY DEF TypeOK, TargetsInv
<1>8. StopInv'
  BY DEF TypeOK, StopInv
<1>9. StopLeavesOnlyUnready'
  BY DEF TypeOK, StopLeavesOnlyUnready
<1>10. DoneInv' /\ NeverDoubleClosed' /\ ResetInv'
  BY DEF DoneInv, NeverDoubleClosed, ResetInv
<1> QED BY <1>1, <1>2, <1>3, <1>4, <1>5, <1>6, <1>7, <1>8, <1>9, <1>10

LEMMA HangUpInv == ASSUME Inv, NEW s \in Sessions, HangUp(s) PROVE Inv'
<1> USE DEF Inv, HangUp, pumpVars, mapVars, resetVars, stopVars
<1>1. TypeOK'
  BY DEF TypeOK, PCs
<1>2. AddressesUnique'
  BY DEF TypeOK, AddressesUnique
<1>3. SessionInv'
  BY DEF TypeOK, SessionInv
<1>4. ConnectionsInv'
  BY DEF TypeOK, ConnectionsInv
<1>5. PumpsAreLive'
  BY DEF TypeOK, PumpsAreLive, Registered
<1>6. PumpsComplete'
  BY DEF TypeOK, PumpsComplete
<1>7. TargetsInv'
  BY DEF TypeOK, TargetsInv
<1>8. StopInv'
  BY DEF TypeOK, StopInv
<1>9. StopLeavesOnlyUnready'
  BY DEF TypeOK, StopLeavesOnlyUnready
<1>10. DoneInv' /\ NeverDoubleClosed' /\ ResetInv'
  BY DEF DoneInv, NeverDoubleClosed, ResetInv
<1> QED BY <1>1, <1>2, <1>3, <1>4, <1>5, <1>6, <1>7, <1>8, <1>9, <1>10

LEMMA UpgradeInv == ASSUME Inv, NEW s \in Sessions, Upgrade(s) PROVE Inv'
<1> USE DEF Inv, Upgrade, pumpVars, mapVars, resetVars, stopVars
<1>1. TypeOK'
  BY DEF TypeOK, PCs
<1>2. AddressesUnique'
  BY DEF TypeOK, AddressesUnique
<1>3. SessionInv'
  BY DEF TypeOK, SessionInv
<1>4. ConnectionsInv'
  BY DEF TypeOK, ConnectionsInv
<1>5. PumpsAreLive'
  BY DEF TypeOK, PumpsAreLive, Registered
<1>6. PumpsComplete'
  BY DEF TypeOK, PumpsComplete
<1>7. /\ DoneInv' /\ NeverDoubleClosed' /\ ResetInv'
      /\ TargetsInv' /\ StopInv' /\ StopLeavesOnlyUnready'
  BY DEF DoneInv, NeverDoubleClosed, ResetInv, TargetsInv, StopInv,
     StopLeavesOnlyUnready
<1> QED BY <1>1, <1>2, <1>3, <1>4, <1>5, <1>6, <1>7

LEMMA HijackedInv == ASSUME Inv, NEW s \in Sessions, Hijacked(s) PROVE Inv'
<1> USE DEF Inv, Hijacked, Displaced, pumpVars, mapVars, resetVars, stopVars
<1>1. TypeOK'
  BY DEF TypeOK
<1>2. AddressesUnique'
  BY DEF TypeOK, AddressesUnique
<1>3. SessionInv'
  BY DEF TypeOK, SessionInv
<1>4. ConnectionsInv'
  BY DEF TypeOK, ConnectionsInv, AddressesUnique, SessionInv
<1>5. TargetsInv'
  BY DEF TypeOK, TargetsInv
<1>6. StopInv'
  BY DEF TypeOK, StopInv
<1>7. /\ PumpsAreLive' /\ PumpsComplete' /\ DoneInv'
      /\ NeverDoubleClosed' /\ ResetInv' /\ StopLeavesOnlyUnready'
  BY DEF PumpsAreLive, Registered, PumpsComplete, DoneInv, NeverDoubleClosed, ResetInv,
     StopLeavesOnlyUnready
<1> QED BY <1>1, <1>2, <1>3, <1>4, <1>5, <1>6, <1>7

LEMMA DialInv == ASSUME Inv, NEW s \in Sessions, Dial(s) PROVE Inv'
<1> USE DEF Inv, Dial, pumpVars, mapVars, resetVars, stopVars
<1>1. TypeOK'
  BY DEF TypeOK, PCs
<1>2. AddressesUnique'
  BY DEF TypeOK, AddressesUnique
<1>3. SessionInv'
  BY DEF TypeOK, SessionInv
<1>4. ConnectionsInv'
  BY DEF TypeOK, ConnectionsInv
<1>5. PumpsAreLive'
  BY DEF TypeOK, PumpsAreLive, Registered
<1>6. PumpsComplete'
  BY DEF TypeOK, PumpsComplete
<1>7. TargetsInv'
  BY DEF TypeOK, TargetsInv
<1>8. StopInv'
  BY DEF TypeOK, StopInv
<1>9. StopLeavesOnlyUnready'
  BY DEF TypeOK, StopLeavesOnlyUnready
<1>10. DoneInv' /\ NeverDoubleClosed' /\ ResetInv'
  BY DEF DoneInv, NeverDoubleClosed, ResetInv
<1> QED BY <1>1, <1>2, <1>3, <1>4, <1>5, <1>6, <1>7, <1>8, <1>9, <1>10

(* An open session whose place in the map the pump takes is displaced.      *)
LEMMA RegisterInv == ASSUME Inv, NEW s \in Sessions, Register(s) PROVE Inv'
<1> USE DEF Inv, Register, Displaced, pumpVars, mapVars, resetVars, stopVars
<1>1. TypeOK'
  BY DEF TypeOK, PCs
<1>2. AddressesUnique'
  BY DEF TypeOK, AddressesUnique
<1>3. SessionInv'
  BY DEF TypeOK, SessionInv
<1>4. ConnectionsInv'
  BY DEF TypeOK, ConnectionsInv
<1>5. PumpsAreLive'
  BY DEF TypeOK, PumpsAreLive, Registered
<1>6. PumpsComplete'
  BY DEF TypeOK, PumpsComplete, AddressesUnique
<1>7. DoneInv'
  BY DEF TypeOK, DoneInv, SessionInv
<1>8. ResetInv'
  BY DEF ResetInv
<1>9. TargetsInv'
  BY DEF TypeOK, TargetsInv
<1>10. StopInv'
  BY DEF TypeOK, StopInv
<1>11. NeverDoubleClosed' /\ StopLeavesOnlyUnready'
  BY DEF NeverDoubleClosed, StopLeavesOnlyUnready
<1> QED BY <1>1, <1>2, <1>3, <1>4, <1>5, <1>6, <1>7, <1>8, <1>9, <1>10, <1>11

LEMMA ActivateInv == ASSUME Inv, NEW s \in Sessions, Activate(s) PROVE Inv'
<1> USE DEF Inv, Activate, mapVars, resetVars, stopVars
<1>1. TypeOK'
  BY DEF TypeOK, PCs
<1>2. AddressesUnique'
  BY DEF TypeOK, AddressesUnique
<1>3. SessionInv'
  BY DEF TypeOK, SessionInv
<1>4. ConnectionsInv'
  BY DEF TypeOK, ConnectionsInv
<1>5. PumpsAreLive'
  BY DEF TypeOK, PumpsAreLive, Registered
<1>6. PumpsComplete'
  BY DEF TypeOK, PumpsComplete
<1>7. TargetsInv'
  BY DEF TypeOK, TargetsInv
<1>8. DoneInv' /\ NeverDoubleClosed' /\ ResetInv' /\ StopInv' /\ StopLeavesOnlyUnready'
  BY DEF DoneInv, NeverDoubleClosed, ResetInv, StopInv, StopLeavesOnlyUnready
<1> QED BY <1>1, <1>2, <1>3, <1>4, <1>5, <1>6, <1>7, <1>8

LEMMA FailInv == ASSUME Inv, NEW s \in Sessions, Fail(s) PROVE Inv'
<1> USE DEF Inv, Fail, sessionVars, mapVars, resetVars, stopVars
<1>1. TypeOK'
  BY DEF TypeOK
<1>2. /\ AddressesUnique' /\ SessionInv' /\ ConnectionsInv'
      /\ PumpsAreLive' /\ PumpsComplete' /\ DoneInv'
      /\ NeverDoubleClosed' /\ ResetInv' /\ TargetsInv'
      /\ StopInv' /\ StopLeavesOnlyUnready'
  BY DEF AddressesUnique, SessionInv, ConnectionsInv, PumpsAreLive, Registered,
     PumpsComplete, DoneInv, NeverDoubleClosed, ResetInv, TargetsInv, StopInv,
     StopLeavesOnlyUnready
<1> QED BY <1>1, <1>2

(* A pump that is told to stop while it is in the map is the one stop waits *)
(* for, so it may become inactive.                                          *)
LEMMA RunDoneInv == ASSUME Inv, NEW s \in Sessions, RunDone(s) PROVE Inv'
<1> USE DEF Inv, RunDone, mapVars, resetVars, stopVars
<1>1. TypeOK'
  BY DEF TypeOK, PCs
<1>2. AddressesUnique'
  BY DEF TypeOK, AddressesUnique
<1>3. SessionInv'
  BY DEF TypeOK, SessionInv
<1>4. ConnectionsInv'
  BY DEF TypeOK, ConnectionsInv
<1>5. PumpsAreLive'
  BY DEF TypeOK, PumpsAreLive, Registered
<1>6. PumpsComplete'
  BY DEF TypeOK, PumpsComplete
<1>7. DoneInv'
  BY DEF TypeOK, DoneInv
<1>8. TargetsInv'
  BY DEF TypeOK, TargetsInv, DoneInv
<1>9. NeverDoubleClosed' /\ ResetInv' /\ StopInv' /\ StopLeavesOnlyUnready'
  BY DEF NeverDoubleClosed, ResetInv, StopInv, StopLeavesOnlyUnready
<1> QED BY <1>1, <1>2, <1>3, <1>4, <1>5, <1>6, <1>7, <1>8, <1>9

LEMMA RunFailedInv == ASSUME Inv, NEW s \in Sessions, RunFailed(s) PROVE Inv'
<1> USE DEF Inv, RunFailed, mapVars, resetVars, stopVars
<1>1. TypeOK'
  BY DEF TypeOK, PCs
<1>2. AddressesUnique'
  BY DEF TypeOK, AddressesUnique
<1>3. SessionInv'
  BY DEF TypeOK, SessionInv
<1>4. ConnectionsInv'
  BY DEF TypeOK, ConnectionsInv
<1>5. PumpsAreLive'
  BY DEF TypeOK, PumpsAreLive, Registered
<1>6. PumpsComplete'
  BY DEF TypeOK, PumpsComplete
<1>7. /\ DoneInv' /\ NeverDoubleClosed' /\ ResetInv'
      /\ TargetsInv' /\ StopInv' /\ StopLeavesOnlyUnready'
  BY DEF DoneInv, NeverDoubleClosed, ResetInv, TargetsInv, StopInv,
     StopLeavesOnlyUnready
<1> QED BY <1>1, <1>2, <1>3, <1>4, <1>5, <1>6, <1>7

LEMMA CloseWebsocketInv == ASSUME Inv, NEW s \in Sessions, CloseWebsocket(s) PROVE Inv'
<1> USE DEF Inv, CloseWebsocket, pumpVars, mapVars, resetVars, stopVars
<1>1. TypeOK'
  BY DEF TypeOK, PCs
<1>2. AddressesUnique'
  BY DEF TypeOK, AddressesUnique
<1>3. SessionInv'
  BY DEF TypeOK, SessionInv
<1>4. ConnectionsInv'
  BY DEF TypeOK, ConnectionsInv
<1>5. PumpsAreLive'
  BY DEF TypeOK, PumpsAreLive, Registered
<1>6. PumpsComplete'
  BY DEF TypeOK, PumpsComplete
<1>7. TargetsInv'
  BY DEF TypeOK, TargetsInv
<1>8. StopInv'
  BY DEF TypeOK, StopInv
<1>9. StopLeavesOnlyUnready'
  BY DEF TypeOK, StopLeavesOnlyUnready
<1>10. DoneInv' /\ NeverDoubleClosed' /\ ResetInv'
  BY DEF DoneInv, NeverDoubleClosed, ResetInv
<1> QED BY <1>1, <1>2, <1>3, <1>4, <1>5, <1>6, <1>7, <1>8, <1>9, <1>10

LEMMA UnregisterInv == ASSUME Inv, NEW s \in Sessions, Unregister(s) PROVE Inv'
<1> USE DEF Inv, Unregister, Displaced, pumpVars, mapVars, resetVars, stopVars
<1>1. TypeOK'
  BY DEF TypeOK, PCs
<1>2. AddressesUnique'
  BY DEF TypeOK, AddressesUnique
<1>3. SessionInv'
  BY DEF TypeOK, SessionInv
<1>4. ConnectionsInv'
  BY DEF TypeOK, ConnectionsInv
<1>5. PumpsAreLive'
  BY DEF TypeOK, PumpsAreLive, Registered
<1>6. PumpsComplete'
  BY DEF TypeOK, PumpsComplete, AddressesUnique
<1>7. DoneInv'
  BY DEF TypeOK, DoneInv
<1>8. ResetInv'
  BY DEF ResetInv
<1>9. TargetsInv'
  BY DEF TypeOK, TargetsInv
<1>10. StopInv'
  BY DEF TypeOK, StopInv
<1>11. NeverDoubleClosed' /\ StopLeavesOnlyUnready'
  BY DEF NeverDoubleClosed, StopLeavesOnlyUnready
<1> QED BY <1>1, <1>2, <1>3, <1>4, <1>5, <1>6, <1>7, <1>8, <1>9, <1>10, <1>11

-----------------------------------------------------------------------------
(* Resets.                                                                  *)

(* What a reset finds in the maps is what it is to close.                   *)
LEMMA ResetBeginInv == ASSUME Inv, ResetBegin PROVE Inv'
<1> USE DEF Inv, ResetBegin, sessionVars, pumpVars, mapVars, stopVars, Lock
<1>1. TypeOK'
  <2>1. lock' \in BOOLEAN
    BY Zenon
  <2>2. todo' \in SUBSET Addrs /\ targets' \in SUBSET Sessions
    OBVIOUS
  <2> QED BY <2>1, <2>2 DEF TypeOK
<1>2. ResetInv'
  BY DEF ResetInv
<1>3. TargetsInv'
  BY DEF TypeOK, TargetsInv
<1>4. StopInv'
  BY DEF TypeOK, StopInv
<1>5. /\ AddressesUnique' /\ SessionInv' /\ ConnectionsInv'
      /\ PumpsAreLive' /\ PumpsComplete' /\ DoneInv'
      /\ NeverDoubleClosed' /\ StopLeavesOnlyUnready'
  BY DEF AddressesUnique, SessionInv, ConnectionsInv, PumpsAreLive, Registered,
     PumpsComplete, DoneInv, NeverDoubleClosed, StopLeavesOnlyUnready
<1> QED BY <1>1, <1>2, <1>3, <1>4, <1>5

(* Stop finds every open session in a map, but for those it counts as       *)
(* missed.                                                                  *)
LEMMA StopResetInv == ASSUME Inv, StopReset PROVE Inv'
<1> USE DEF Inv, StopReset, sessionVars, pumpVars, mapVars, Lock, Unready
<1>1. TypeOK'
  <2>1. lock' \in BOOLEAN
    BY Zenon
  <2>2. /\ todo' \in SUBSET Addrs
        /\ targets' \in SUBSET Sessions /\ missed' \in SUBSET Sessions
    BY DEF TypeOK
  <2> QED BY <2>1, <2>2 DEF TypeOK
<1>2. PumpsComplete'
  BY DEF TypeOK, PumpsComplete
<1>3. ResetInv'
  BY DEF ResetInv
<1>4. TargetsInv'
  BY DEF TypeOK, TargetsInv
<1>5. StopInv'
  BY DEF TypeOK, PCs, StopInv, SessionInv, ConnectionsInv, PumpsComplete
<1>6. StopLeavesOnlyUnready'
  BY DEF TypeOK, StopLeavesOnlyUnready
<1>7. /\ AddressesUnique' /\ SessionInv' /\ ConnectionsInv'
      /\ PumpsAreLive' /\ DoneInv' /\ NeverDoubleClosed'
  BY DEF AddressesUnique, SessionInv, ConnectionsInv, PumpsAreLive, Registered,
     DoneInv, NeverDoubleClosed
<1> QED BY <1>1, <1>2, <1>3, <1>4, <1>5, <1>6, <1>7

LEMMA StopInactiveInv == ASSUME Inv, NEW a \in Addrs, StopInactive(a) PROVE Inv'
<1> USE DEF Inv, StopInactive, sessionVars, pumpVars, mapVars, stopVars
<1>0. pumps[a] \in Sessions
  BY DEF TypeOK, ResetInv
<1>1. TypeOK'
  BY <1>0 DEF TypeOK
<1>2. PumpsAreLive'
  BY DEF TypeOK, PumpsAreLive, Registered
<1>3. PumpsComplete'
  BY DEF TypeOK, PumpsComplete
<1>4. DoneInv'
  BY DEF TypeOK, DoneInv
<1>5. ResetInv'
  BY DEF TypeOK, ResetInv
<1>6. TargetsInv'
  BY DEF TypeOK, TargetsInv
<1>7. StopInv'
  BY DEF TypeOK, StopInv
<1>8. StopLeavesOnlyUnready'
  BY DEF TypeOK, StopLeavesOnlyUnready
<1>9. AddressesUnique' /\ SessionInv' /\ ConnectionsInv' /\ NeverDoubleClosed'
  BY DEF AddressesUnique, SessionInv, ConnectionsInv, NeverDoubleClosed
<1> QED BY <1>1, <1>2, <1>3, <1>4, <1>5, <1>6, <1>7, <1>8, <1>9

(* The pump that stop comes to has not been told to stop before.            *)
LEMMA StopSignalInv == ASSUME Inv, NEW a \in Addrs, StopSignal(a) PROVE Inv'
<1> USE DEF Inv, StopSignal, sessionVars, mapVars, stopVars
<1>0. pumps[a] \in Sessions /\ RemoteAddr[pumps[a]] = a
  BY DEF TypeOK, ResetInv, PumpsAreLive
<1>a. ~done[pumps[a]]
  BY <1>0 DEF DoneInv
<1>b. done' = [done EXCEPT ![pumps[a]] = TRUE] /\ UNCHANGED doubleClosed
  BY <1>a
<1>1. TypeOK'
  BY <1>0, <1>b DEF TypeOK
<1>2. SessionInv'
  BY <1>0, <1>b DEF TypeOK, SessionInv
<1>3. DoneInv'
  BY <1>0, <1>b DEF TypeOK, DoneInv
<1>4. NeverDoubleClosed'
  BY <1>b DEF NeverDoubleClosed
<1>5. ResetInv'
  BY DEF ResetInv
<1>6. TargetsInv'
  BY DEF TypeOK, TargetsInv
<1>7. /\ AddressesUnique' /\ ConnectionsInv' /\ PumpsAreLive'
      /\ PumpsComplete' /\ StopInv' /\ StopLeavesOnlyUnready'
  BY DEF AddressesUnique, ConnectionsInv, PumpsAreLive, Registered, PumpsComplete,
     StopInv, StopLeavesOnlyUnready
<1> QED BY <1>1, <1>2, <1>3, <1>4, <1>5, <1>6, <1>7

LEMMA StopPollInv == ASSUME Inv, StopPoll PROVE Inv'
<1> USE DEF Inv, StopPoll, sessionVars, pumpVars, mapVars, stopVars
<1>1. TypeOK'
  BY DEF TypeOK
<1>2. /\ AddressesUnique' /\ SessionInv' /\ ConnectionsInv'
      /\ PumpsAreLive' /\ PumpsComplete' /\ DoneInv'
      /\ NeverDoubleClosed' /\ ResetInv' /\ TargetsInv'
      /\ StopInv' /\ StopLeavesOnlyUnready'
  BY DEF AddressesUnique, SessionInv, ConnectionsInv, PumpsAreLive, Registered,
     PumpsComplete, DoneInv, NeverDoubleClosed, ResetInv, TargetsInv, StopInv,
     StopLeavesOnlyUnready
<1> QED BY <1>1, <1>2

LEMMA StopCloseInv == ASSUME Inv, StopClose PROVE Inv'
<1> USE DEF Inv, StopClose, pumpVars, stopVars
<1>0. pumps[current] \in Sessions /\ RemoteAddr[pumps[current]] = current
  BY DEF TypeOK, ResetInv, PumpsAreLive
<1>1. TypeOK'
  BY <1>0 DEF TypeOK
<1>2. SessionInv'
  BY DEF TypeOK, SessionInv
<1>3. ConnectionsInv'
  BY DEF TypeOK, ConnectionsInv
<1>4. PumpsAreLive'
  BY DEF TypeOK, PumpsAreLive, Registered
<1>5. PumpsComplete'
  BY DEF TypeOK, PumpsComplete
<1>6. DoneInv'
  BY DEF TypeOK, DoneInv
<1>7. ResetInv'
  BY DEF TypeOK, ResetInv
<1>8. TargetsInv'
  BY DEF TypeOK, TargetsInv
<1>9. StopInv'
  BY DEF TypeOK, StopInv
<1>10. StopLeavesOnlyUnready'
  BY DEF TypeOK, StopLeavesOnlyUnready
<1>11. AddressesUnique' /\ NeverDoubleClosed'
  BY DEF AddressesUnique, NeverDoubleClosed
<1> QED BY <1>1, <1>2, <1>3, <1>4, <1>5, <1>6, <1>7, <1>8, <1>9, <1>10, <1>11

(* With the first loop over no pump is left in the map, and the second      *)
(* closes all that the other map holds.                                     *)
LEMMA ResetEndInv == ASSUME Inv, ResetEnd PROVE Inv'
<1> USE DEF Inv, ResetEnd, pumpVars
<1>1. TypeOK'
  BY DEF TypeOK
<1>2. SessionInv'
  BY DEF TypeOK, SessionInv
<1>3. ConnectionsInv'
  BY DEF TypeOK, ConnectionsInv
<1>4. PumpsComplete'
  BY DEF TypeOK, PumpsComplete
<1>5. ResetInv'
  BY DEF ResetInv
<1>6. TargetsInv'
  BY DEF TypeOK, TargetsInv
<1>7. StopInv'
  BY DEF TypeOK, StopInv
<1>8. StopLeavesOnlyUnready'
  BY DEF TypeOK, StopLeavesOnlyUnready, StopInv, ResetInv
<1>9. AddressesUnique' /\ PumpsAreLive' /\ DoneInv' /\ NeverDoubleClosed'
  BY DEF AddressesUnique, PumpsAreLive, Registered, DoneInv, NeverDoubleClosed
<1> QED BY <1>1, <1>2, <1>3, <1>4, <1>5, <1>6, <1>7, <1>8, <1>9

(* Every step preserves the invariant.                                      *)
LEMMA NextInv == Inv /\ [Next]_vars => Inv'
<1> SUFFICES ASSUME Inv, [Next]_vars PROVE Inv'
  OBVIOUS
<1>1. ASSUME NEW s \in Sessions, SessionStep(s) PROVE Inv'
  BY <1>1, AcceptInv, HangUpInv, CloseHttpInv, UpgradeInv, HijackedInv, DialInv, RegisterInv,
     ActivateInv, FailInv, RunDoneInv, RunFailedInv, CloseWebsocketInv, UnregisterInv
     DEF SessionStep
<1>2. CASE ResetBegin \/ StopReset
  BY <1>2, ResetBeginInv, StopResetInv
<1>3. CASE ResetStep
  BY <1>3, StopInactiveInv, StopSignalInv, StopPollInv, StopCloseInv, ResetEndInv
     DEF ResetStep
<1>4. CASE UNCHANGED vars
  <2> USE <1>4 DEF Inv, vars, sessionVars, pumpVars, mapVars, resetVars, stopVars
  <2>1. TypeOK'
    BY DEF TypeOK
  <2>2. AddressesUnique' /\ SessionInv' /\ ConnectionsInv'
    BY DEF AddressesUnique, SessionInv, ConnectionsInv
  <2>3. PumpsAreLive' /\ PumpsComplete' /\ DoneInv' /\ NeverDoubleClosed'
    BY DEF PumpsAreLive, Registered, PumpsComplete, DoneInv, NeverDoubleClosed
  <2>4. ResetInv' /\ TargetsInv' /\ StopInv' /\ StopLeavesOnlyUnready'
    BY DEF ResetInv, TargetsInv, StopInv, StopLeavesOnlyUnready
  <2> QED BY <2>1, <2>2, <2>3, <2>4
<1> QED BY <1>1, <1>2, <1>3, <1>4 DEF Next

-----------------------------------------------------------------------------

(* The conjunction of all parts is an invariant of the sessions, the resets *)
(* and Stop.                                                                *)
THEOREM Invariance == Spec => []Inv
BY InitInv, NextInv, PTL DEF Spec

(* Every variable keeps its type; in particular stop never looks up a pump  *)
(* that is not there, and its countdown ends at zero.                       *)
THEOREM TypeCorrectness == Spec => []TypeOK
<1>1. Inv => TypeOK
  BY DEF Inv
<1> QED BY Invariance, <1>1, PTL

(* No pump stays in the map of the proxy beyond its session, whatever       *)
(* resets and failures coincide with its end.                               *)
THEOREM PumpsLive == Spec => []PumpsAreLive
<1>1. Inv => PumpsAreLive
  BY DEF Inv
<1> QED BY Invariance, <1>1, PTL

(* The error "double-closing the pump" of stop never occurs.                *)
THEOREM NoDoubleClose == Spec => []NeverDoubleClosed
<1>1. Inv => NeverDoubleClosed
  BY DEF Inv
<1> QED BY Invariance, <1>1, PTL

(* After Stop, the only open sessions are those between upgrade and         *)
(* active.Store(true) when it, or an earlier reset, came by, and those that *)
(* an earlier session of their address has displaced.                       *)
THEOREM StopIsAlmostComplete == Spec => []StopLeavesOnlyUnready
<1>1. Inv => StopLeavesOnlyUnready
  BY DEF Inv
<1> QED BY Invariance, <1>1, PTL

(* When ResetConnections unlocks mxConnections, the active pumps and the    *)
(* plain connections that it found in the maps are closed.                  *)
THEOREM ResetThorough == Spec => ResetIsThorough
<1>1. Inv /\ [Next]_vars => [lock /\ ~lock' => \A s \in targets : ~open'[s]]_vars
  <2> SUFFICES ASSUME Inv, Next, lock, ~lock' PROVE \A s \in targets : ~open'[s]
    OBVIOUS
  <2>1. ResetEnd
    <3>1. ~\E s \in Sessions : SessionStep(s)
      BY DEF SessionStep, Accept, HangUp, CloseHttp, Upgrade, Hijacked, Dial, Register,
         Activate, Fail, RunDone, RunFailed, CloseWebsocket, Unregister, resetVars
    <3>2. ~ResetBegin /\ ~StopReset
      BY DEF ResetBegin, StopReset, Lock
    <3>3. ~\E a \in Addrs : StopInactive(a) \/ StopSignal(a)
      BY DEF StopInactive, StopSignal
    <3>4. ~StopPoll /\ ~StopClose
      BY DEF StopPoll, StopClose
    <3> QED BY <3>1, <3>2, <3>3, <3>4 DEF Next, ResetStep
  <2>2. TypeOK /\ ResetInv /\ TargetsInv
    BY DEF Inv
  <2> SUFFICES ASSUME NEW s \in targets PROVE ~open'[s]
    OBVIOUS
  <2>3. s \in Sessions /\ RemoteAddr[s] \in Addrs
    BY <2>2 DEF TypeOK
  <2>4. pumps[RemoteAddr[s]] = Nil
    BY <2>1, <2>2, <2>3 DEF ResetEnd, ResetInv
  <2>5. ~open[s] \/ connections[RemoteAddr[s]] = s
    BY <2>1, <2>2, <2>3, <2>4 DEF ResetEnd, TargetsInv
  <2> QED BY <2>1, <2>3, <2>5 DEF ResetEnd
<1> QED BY Invariance, <1>1, PTL DEF Spec, ResetIsThorough
=============================================================================
