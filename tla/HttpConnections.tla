--------------------------- MODULE HttpConnections ---------------------------
(***************************************************************************)
(* The upstream connections of one HTTP proxy (proxy/http.go): the two maps *)
(* connections and drainingConnections, the hooks that maintain them        *)
(* (upstreamConnectionChanged), the draining check at the end of receive,   *)
(* ResetConnections (called on SIGHUP, by the healthcheck when the backend  *)
(* is unhealthy, and by Stop) and Stop itself.                              *)
(*                                                                         *)
(* The life of a connection inside fasthttp.Server is external; the model   *)
(* keeps what the hooks and the handler see of it: one worker per           *)
(* connection calls StateNew, then for each request StateActive, the        *)
(* handler, the write of the response and StateIdle; when it leaves its     *)
(* loop it closes the socket and then calls StateClosed.  mxConnections     *)
(* makes every hook, the check in receive and ResetConnections atomic.      *)
(*                                                                         *)
(* The maps are keyed by address, and an address is free again as soon as   *)
(* the socket is: before the worker of the old connection has noticed, or   *)
(* has called StateClosed.  Its hooks then act on the entries of the new    *)
(* connection, which displaced records.                                     *)
(***************************************************************************)
EXTENDS Naturals

CONSTANTS
    Conns,          \* connections ever made
    Addrs,          \* "ip:port" strings
    IPs,            \* "ip" strings
    RemoteAddr,     \* conn.RemoteAddr().String() of each connection
    RemoteIP,       \* ctx.RemoteIP().String() of each connection
    Nil

Keys == Addrs \cup IPs

ASSUME RemoteAssumption ==
    /\ RemoteAddr \in [Conns -> Addrs]
    /\ RemoteIP \in [Conns -> IPs]
    /\ Addrs \cap IPs = {}
ASSUME NilAssumption == Nil \notin Conns

VARIABLES
    state,          \* where fasthttp's worker is with the connection
    sock,           \* "open", "shut" (by the proxy) or "gone" (by the client)
    closeMark,      \* ctx.SetConnectionClose() was called for the response
    connections,    \* key -> connection
    draining,       \* drainingConnections: key -> connection
    phase,          \* of the proxy: "running", "stopping", "stopped"
    drained,        \* history: connections a reset has put into draining
    late,           \* history: responses written after that (2 = 2 or more)
    displaced       \* history: connections whose entry was overwritten or
                    \* deleted on behalf of another one of the same address

workerVars  == <<state, sock, closeMark>>
historyVars == <<drained, late, displaced>>
vars == <<workerVars, connections, draining, phase, historyVars>>

States == {"none", "new", "active", "responded", "idle", "closing", "closed"}

Waiting(c)     == state[c] \in {"new", "idle"}
Established(c) == state[c] \notin {"none", "closed"}

(* Seeded fault: newHTTP does not make the map of connections.              *)
InitNilMap ==
    /\ state = [c \in Conns |-> "none"]
    /\ sock = [c \in Conns |-> "open"]
    /\ closeMark = [c \in Conns |-> FALSE]
    /\ connections = [k \in {} |-> Nil]
    /\ draining = [k \in Keys |-> Nil]
    /\ phase = "running"
    /\ drained = {}
    /\ late = [c \in Conns |-> 0]
    /\ displaced = {}

Init ==
    /\ state = [c \in Conns |-> "none"]
    /\ sock = [c \in Conns |-> "open"]
    /\ closeMark = [c \in Conns |-> FALSE]
    /\ connections = [k \in Keys |-> Nil]
    /\ draining = [k \in Keys |-> Nil]
    /\ phase = "running"
    /\ drained = {}
    /\ late = [c \in Conns |-> 0]
    /\ displaced = {}

-----------------------------------------------------------------------------

(* Whom a map loses when c sets or deletes its entry for its address.       *)
Displaced(c, map) == {d \in Conns \ {c} : map[RemoteAddr[c]] = d}

(* The socket of every other connection of the address is closed or reset.  *)
AddressFree(c) ==
    \A d \in Conns : RemoteAddr[d] = RemoteAddr[c] /\ Established(d) => sock[d] /= "open"

(* Seeded fault: StateNew does not register the connection while the proxy  *)
(* still drains another one.                                                *)
AcceptUntracked(c) ==
    /\ state[c] = "none"
    /\ phase = "running"
    /\ AddressFree(c)
    /\ state' = [state EXCEPT ![c] = "new"]
    /\ connections' = IF \E k \in Keys : draining[k] /= Nil THEN connections
                      ELSE [connections EXCEPT ![RemoteAddr[c]] = c]
    /\ UNCHANGED <<sock, closeMark, draining, phase, historyVars>>

(* A client connects; hook StateNew.                                        *)
Accept(c) ==
    /\ state[c] = "none"
    /\ phase = "running"
    /\ AddressFree(c)
    /\ state' = [state EXCEPT ![c] = "new"]
    /\ connections' = [connections EXCEPT ![RemoteAddr[c]] = c]
    /\ displaced' = displaced \cup Displaced(c, connections)
    /\ UNCHANGED <<sock, closeMark, draining, phase, drained, late>>

(* The worker reads a request and enters the handler; hook StateActive.     *)
Request(c) ==
    /\ Waiting(c)
    /\ sock[c] = "open"
    /\ state' = [state EXCEPT ![c] = "active"]
    /\ UNCHANGED <<sock, closeMark, connections, draining, phase, historyVars>>

(* The tail of receive: "check if this is a draining connection".           *)
HandlerReturns(c) ==
    /\ state[c] = "active"
    /\ state' = [state EXCEPT ![c] = "responded"]
    /\ closeMark' = [closeMark EXCEPT ![c] = draining[RemoteIP[c]] /= Nil]
    /\ UNCHANGED <<sock, connections, draining, phase, historyVars>>

(* The write of the response fails because the client is gone (it need not: *)
(* the kernel may accept it), or the response was marked Connection: close: *)
(* the worker leaves its loop without the StateIdle hook, and closes.       *)
WriteAndClose(c) ==
    /\ state[c] = "responded"
    /\ sock[c] = "gone" \/ closeMark[c]
    /\ state' = [state EXCEPT ![c] = "closing"]
    /\ sock' = [sock EXCEPT ![c] = "shut"]
    /\ UNCHANGED <<closeMark, connections, draining, phase, historyVars>>

(* What follows the StateIdle hook: the worker waits for the next request,  *)
(* or leaves its loop because the server is stopping.                       *)
AfterIdle == IF phase = "stopping" THEN "closing" ELSE "idle"

(* Seeded fault: the StateIdle hook forgets the draining entry but does not *)
(* close the connection.                                                    *)
WriteAndIdleKeepOpen(c) ==
    /\ state[c] = "responded" /\ ~closeMark[c]
    /\ late' = [late EXCEPT ![c] = IF c \in drained /\ @ < 2 THEN @ + 1 ELSE @]
    /\ draining' = [draining EXCEPT ![RemoteAddr[c]] = Nil]
    /\ displaced' = displaced \cup Displaced(c, draining)
    /\ state' = [state EXCEPT ![c] = AfterIdle]
    /\ sock' = [sock EXCEPT ![c] = IF phase = "stopping" THEN "shut" ELSE @]
    /\ UNCHANGED <<closeMark, connections, phase, drained>>

(* The response is written; hook StateIdle, which closes the connection if  *)
(* there is a draining entry for its address.                               *)
WriteAndIdle(c) ==
    /\ state[c] = "responded"
    /\ ~closeMark[c]
    /\ late' = [late EXCEPT ![c] = IF c \in drained /\ @ < 2 THEN @ + 1 ELSE @]
    /\ draining' = [draining EXCEPT ![RemoteAddr[c]] = Nil]
    /\ displaced' = displaced \cup Displaced(c, draining)
    /\ state' = [state EXCEPT ![c] = AfterIdle]
    /\ sock' = [sock EXCEPT ![c] =
                  IF draining[RemoteAddr[c]] /= Nil \/ phase = "stopping" THEN "shut" ELSE @]
    /\ UNCHANGED <<closeMark, connections, phase, drained>>

(* A waiting worker gives up and closes the socket: it reads an error, or   *)
(* ReadTimeout/IdleTimeout expires.                                         *)
GiveUp(c) ==
    /\ Waiting(c)
    /\ state' = [state EXCEPT ![c] = "closing"]
    /\ sock' = [sock EXCEPT ![c] = "shut"]
    /\ UNCHANGED <<closeMark, connections, draining, phase, historyVars>>

(* Seeded fault: StateClosed forgets the draining entry.                    *)
ClosedKeepDraining(c) ==
    /\ state[c] = "closing"
    /\ state' = [state EXCEPT ![c] = "closed"]
    /\ connections' = [connections EXCEPT ![RemoteAddr[c]] = Nil]
    /\ displaced' = displaced \cup Displaced(c, connections)
    /\ UNCHANGED <<sock, closeMark, draining, phase, drained, late>>

(* Hook StateClosed, after the worker has closed the socket.                *)
Closed(c) ==
    /\ state[c] = "closing"
    /\ state' = [state EXCEPT ![c] = "closed"]
    /\ connections' = [connections EXCEPT ![RemoteAddr[c]] = Nil]
    /\ draining' = [draining EXCEPT ![RemoteAddr[c]] = Nil]
    /\ displaced' = displaced \cup Displaced(c, connections) \cup Displaced(c, draining)
    /\ UNCHANGED <<sock, closeMark, phase, drained, late>>

(* The client closes or resets its end.                                     *)
ClientVanishes(c) ==
    /\ Established(c)
    /\ sock[c] = "open"
    /\ sock' = [sock EXCEPT ![c] = "gone"]
    /\ UNCHANGED <<state, closeMark, connections, draining, phase, historyVars>>

-----------------------------------------------------------------------------

(* ResetConnections: every entry of connections moves to draining, over an  *)
(* entry that may be there already (the code logs a collision and goes on). *)
ResetConnections ==
    /\ draining' = [k \in Keys |-> IF connections[k] /= Nil THEN connections[k]
                                                            ELSE draining[k]]
    /\ connections' = [k \in Keys |-> Nil]
    /\ drained' = drained \cup {c \in Conns : \E k \in Keys : connections[k] = c}
    /\ displaced' = displaced \cup
                      {c \in Conns : \E k \in Keys : draining[k] = c /\ connections[k] /= Nil}

(* Seeded fault: the reset drops the connections it should drain.           *)
ResetForgets ==
    /\ draining' = draining
    /\ connections' = [k \in Keys |-> Nil]
    /\ drained' = drained \cup {c \in Conns : \E k \in Keys : connections[k] = c}
    /\ UNCHANGED <<workerVars, phase, late, displaced>>

(* SIGHUP, or backendUnhealthy with connectionsCount() > 0: the count and   *)
(* the reset take the lock one after the other, so the count may be stale,  *)
(* and a reset of no connections changes nothing.                           *)
Reset ==
    /\ ResetConnections
    /\ UNCHANGED <<workerVars, phase, late>>

(* Stop, up to the call of ShutdownWithContext: the listener is closed.     *)
BeginStop ==
    /\ phase = "running"
    /\ phase' = "stopping"
    /\ UNCHANGED <<workerVars, connections, draining, historyVars>>

(* While it waits, ShutdownWithContext closes the connections whose worker  *)
(* waits for a request.                                                     *)
CloseIdleConn(c) ==
    /\ phase = "stopping"
    /\ Waiting(c)
    /\ sock[c] = "open"
    /\ sock' = [sock EXCEPT ![c] = "shut"]
    /\ UNCHANGED <<state, closeMark, connections, draining, phase, historyVars>>

(* Seeded fault: Stop returns without the final reset.                      *)
FinishStopNoReset ==
    /\ phase = "stopping"
    /\ \A c \in Conns : Waiting(c) => sock[c] /= "open"
    /\ phase' = "stopped"
    /\ UNCHANGED <<workerVars, connections, draining, historyVars>>

(* ShutdownWithContext returns: no connection is left, or its context has   *)
(* expired, by when it has closed every idle connection.  Stop then resets  *)
(* the connections that are left and releases the URIs.                     *)
FinishStop ==
    /\ phase = "stopping"
    /\ \A c \in Conns : Waiting(c) => sock[c] /= "open"
    /\ phase' = "stopped"
    /\ ResetConnections
    /\ UNCHANGED <<workerVars, late>>

WorkerStep(c) ==
    \/ HandlerReturns(c) \/ WriteAndClose(c) \/ WriteAndIdle(c)
    \/ GiveUp(c) \/ Closed(c)

ClientStep(c) == Accept(c) \/ Request(c) \/ ClientVanishes(c)

Next ==
    \/ \E c \in Conns : ClientStep(c) \/ WorkerStep(c) \/ CloseIdleConn(c)
    \/ Reset
    \/ BeginStop
    \/ FinishStop

Spec == Init /\ [][Next]_vars

-----------------------------------------------------------------------------

(* Every variable has its type.                                             *)
TypeOK ==
    /\ state \in [Conns -> States]
    /\ sock \in [Conns -> {"open", "shut", "gone"}]
    /\ closeMark \in [Conns -> BOOLEAN]
    /\ connections \in [Keys -> Conns \cup {Nil}]
    /\ draining \in [Keys -> Conns \cup {Nil}]
    /\ phase \in {"running", "stopping", "stopped"}
    /\ drained \subseteq Conns
    /\ late \in [Conns -> 0 .. 2]
    /\ displaced \subseteq Conns

InConnections(c) == connections[RemoteAddr[c]] = c
InDraining(c)    == draining[RemoteAddr[c]] = c

(* A connection whose socket the proxy has not shut is registered, and so   *)
(* reached by a reset, unless another connection of its address displaced   *)
(* it: nothing else makes the maps lose an open connection.                 *)
EstablishedAreTracked ==
    \A c \in Conns :
        Established(c) /\ sock[c] /= "shut"
            => InConnections(c) \/ InDraining(c) \/ c \in displaced

(* No entry outlives its connection, however soon its address is used       *)
(* again; none is under another address; and no connection is in both maps: *)
(* the gauges count them.                                                   *)
MapsAreExact ==
    \A k \in Keys :
        /\ connections[k] /= Nil =>
             /\ Established(connections[k])
             /\ RemoteAddr[connections[k]] = k
             /\ draining[k] /= connections[k]
        /\ draining[k] /= Nil =>
             /\ Established(draining[k])
             /\ RemoteAddr[draining[k]] = k

(* A reset lets every connection finish at most the response it is at, or   *)
(* the one to the request that reaches it first, unless the connection was  *)
(* displaced.                                                               *)
OneResponseAfterReset == \A c \in Conns \ displaced : late[c] <= 1

(* After Stop, no connection is left that would be served forever: what is  *)
(* not closed is draining, or shut already, or was displaced.               *)
StopLeavesOnlyDraining ==
    phase = "stopped" =>
        \A c \in Conns \ displaced : Established(c) => InDraining(c) \/ sock[c] = "shut"

(* A connection that drains is eventually closed and forgotten, even if its *)
(* client keeps sending requests, or else it is displaced.                  *)
DrainingCloses ==
    \A c \in Conns :
        InDraining(c) ~> (state[c] = "closed" /\ ~InDraining(c)) \/ c \in displaced

(* As the comment in receive says, the response to a request on a draining  *)
(* connection is marked Connection: close.                                  *)
DrainingResponsesMarked ==
    [][\A c \in Conns :
          state[c] = "active" /\ state'[c] = "responded" /\ InDraining(c)
             => closeMark'[c]]_vars
=============================================================================
