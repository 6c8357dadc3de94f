----------------------------- MODULE Websocket -----------------------------
(***************************************************************************)
(* The sessions of the websocket proxy (proxy/websocket.go and              *)
(* websocket_pump.go): a client's connection is tracked in connections      *)
(* until it is upgraded, then a handler of its own dials the backend,       *)
(* registers a pump in pumps, runs it until it fails or is told to stop,    *)
(* and closes both sides.  ResetConnections (SIGHUP, unhealthy backend,     *)
(* Stop) stops every pump and closes every connection, and holds            *)
(* mxConnections for as long as that takes.                                 *)
(*                                                                         *)
(* Every other critical section of mxConnections is one step.               *)
(***************************************************************************)
EXTENDS Integers

CONSTANTS
    Sessions,       \* connections ever made
    Addrs,          \* "ip:port" strings, the keys of both maps
    RemoteAddr,     \* the address of each session
    Countdown,      \* polls before stop gives up on a pump (60)
    Nil

ASSUME RemoteAddrAssumption == RemoteAddr \in [Sessions -> Addrs]
ASSUME CountdownAssumption  == Countdown \in Nat \ {0}
ASSUME NilAssumption        == Nil \notin Sessions \cup Addrs

VARIABLES
    pc,             \* where each session is
    hook,           \* fasthttp has still to report StateHijacked
    open,           \* the sockets of the session are open
    active, done, failed,       \* of its pump: the atomic flag, and whether
                                \* there is something in the two channels
    connections, pumps,         \* address -> session
    displaced,      \* history: open sessions whose entry in a map was taken out
                    \* or replaced on behalf of another session of the address
    lock,           \* mxConnections is held by ResetConnections
    todo,           \* addresses of pumps its first loop has still to visit
    current,        \* address of the pump it waits for in stop
    countdown,
    targets,        \* history: sessions the running reset is to close
    doubleClosed,   \* history: stop found the done channel full
    phase,          \* of the proxy's Stop
    missed          \* history: upgraded sessions that resets have not stopped

sessionVars == <<pc, hook, open>>
pumpVars    == <<active, done, failed>>
mapVars     == <<connections, pumps, displaced>>
stopVars    == <<phase, missed>>
resetVars   == <<lock, todo, current, countdown, targets, doubleClosed, stopVars>>
vars == <<sessionVars, pumpVars, mapVars, resetVars>>

PCs == {"none", "http", "hungup", "dialing", "dialed", "starting", "running", "closing",
        "unregister", "ended"}

Registered(s) == pc[s] \in {"starting", "running", "closing", "unregister"}

-----------------------------------------------------------------------------

Init ==
    /\ pc = [s \in Sessions |-> "none"]
    /\ hook = [s \in Sessions |-> FALSE]
    /\ open = [s \in Sessions |-> FALSE]
    /\ active = [s \in Sessions |-> FALSE]
    /\ done = [s \in Sessions |-> FALSE]
    /\ failed = [s \in Sessions |-> FALSE]
    /\ connections = [a \in Addrs |-> Nil]
    /\ pumps = [a \in Addrs |-> Nil]
    /\ displaced = {}
    /\ lock = FALSE
    /\ todo = {}
    /\ current = Nil
    /\ countdown = 0
    /\ targets = {}
    /\ doubleClosed = FALSE
    /\ phase = "serving"
    /\ missed = {}

(* Whom the maps lose when s sets or deletes their entry for its address.   *)
Displaced(s, map) == {t \in Sessions \ {s} : map[RemoteAddr[s]] = t /\ open[t]}

(* StateNew.  The sockets of earlier sessions with the address are closed,  *)
(* but their handlers and hooks may still be to come.                       *)
Accept(s) ==
    /\ ~lock
    /\ phase = "serving"
    /\ pc[s] = "none"
    /\ \A t \in Sessions : RemoteAddr[t] = RemoteAddr[s] => ~open[t]
    /\ pc' = [pc EXCEPT ![s] = "http"]
    /\ open' = [open EXCEPT ![s] = TRUE]
    /\ connections' = [connections EXCEPT ![RemoteAddr[s]] = s]
    /\ UNCHANGED <<hook, pumpVars, pumps, displaced, resetVars>>

(* A request that is no upgrade is refused, or the connection is gone: the  *)
(* worker closes the socket ...                                             *)
HangUp(s) ==
    /\ pc[s] = "http"
    /\ pc' = [pc EXCEPT ![s] = "hungup"]
    /\ open' = [open EXCEPT ![s] = FALSE]
    /\ UNCHANGED <<hook, pumpVars, mapVars, resetVars>>

(* ... and reports StateClosed.                                             *)
CloseHttp(s) ==
    /\ ~lock
    /\ pc[s] = "hungup"
    /\ pc' = [pc EXCEPT ![s] = "ended"]
    /\ connections' = [connections EXCEPT ![RemoteAddr[s]] = Nil]
    /\ displaced' = displaced \cup Displaced(s, connections)
    /\ UNCHANGED <<hook, open, pumpVars, pumps, resetVars>>

(* receive upgrades the connection; fasthttp starts the session's handler   *)
(* and reports StateHijacked, in no particular order.                       *)
Upgrade(s) ==
    /\ pc[s] = "http"
    /\ pc' = [pc EXCEPT ![s] = "dialing"]
    /\ hook' = [hook EXCEPT ![s] = TRUE]
    /\ UNCHANGED <<open, pumpVars, mapVars, resetVars>>

(* StateHijacked.                                                           *)
Hijacked(s) ==
    /\ ~lock
    /\ hook[s]
    /\ hook' = [hook EXCEPT ![s] = FALSE]
    /\ connections' = [connections EXCEPT ![RemoteAddr[s]] = Nil]
    /\ displaced' = displaced \cup Displaced(s, connections)
    /\ UNCHANGED <<pc, open, pumpVars, pumps, resetVars>>

(* The handler dials the backend and gives up if that fails.                *)
Dial(s) ==
    /\ pc[s] = "dialing"
    /\ \/ /\ pc' = [pc EXCEPT ![s] = "dialed"]
          /\ UNCHANGED open
       \/ /\ pc' = [pc EXCEPT ![s] = "ended"]
          /\ open' = [open EXCEPT ![s] = FALSE]
    /\ UNCHANGED <<hook, pumpVars, mapVars, resetVars>>

(* p.pumps[addr] = pump                                                     *)
Register(s) ==
    /\ ~lock
    /\ pc[s] = "dialed"
    /\ pc' = [pc EXCEPT ![s] = "starting"]
    /\ pumps' = [pumps EXCEPT ![RemoteAddr[s]] = s]
    /\ displaced' = displaced \cup Displaced(s, pumps)
    /\ UNCHANGED <<hook, open, pumpVars, connections, resetVars>>

(* run, up to active.Store(true).                                           *)
Activate(s) ==
    /\ pc[s] = "starting"
    /\ pc' = [pc EXCEPT ![s] = "running"]
    /\ active' = [active EXCEPT ![s] = TRUE]
    /\ UNCHANGED <<hook, open, done, failed, mapVars, resetVars>>

(* Seeded fault: "use of closed network connection" is never reported.      *)
FailSilently(s) ==
    /\ pc[s] \in {"starting", "running"}
    /\ open[s]
    /\ failed' = [failed EXCEPT ![s] = TRUE]
    /\ UNCHANGED <<sessionVars, active, done, mapVars, resetVars>>

(* notifyOnFailure: reading or writing fails, as it may at any time and     *)
(* does once the sockets are closed.                                        *)
Fail(s) ==
    /\ pc[s] \in {"starting", "running"}
    /\ failed' = [failed EXCEPT ![s] = TRUE]
    /\ UNCHANGED <<sessionVars, active, done, mapVars, resetVars>>

(* The select of run: told to stop, it clears active ...                    *)
RunDone(s) ==
    /\ pc[s] = "running"
    /\ done[s]
    /\ done' = [done EXCEPT ![s] = FALSE]
    /\ active' = [active EXCEPT ![s] = FALSE]
    /\ failed' = [failed EXCEPT ![s] = FALSE]
    /\ pc' = [pc EXCEPT ![s] = "closing"]
    /\ UNCHANGED <<hook, open, mapVars, resetVars>>

(* ... and on a failure it leaves active set.                               *)
RunFailed(s) ==
    /\ pc[s] = "running"
    /\ failed[s]
    /\ failed' = [failed EXCEPT ![s] = FALSE]
    /\ pc' = [pc EXCEPT ![s] = "closing"]
    /\ UNCHANGED <<hook, open, active, done, mapVars, resetVars>>

(* closeWebsocket, for the backend and the frontend.                        *)
CloseWebsocket(s) ==
    /\ pc[s] = "closing"
    /\ pc' = [pc EXCEPT ![s] = "unregister"]
    /\ open' = [open EXCEPT ![s] = FALSE]
    /\ UNCHANGED <<hook, pumpVars, mapVars, resetVars>>

(* Seeded fault: the pump of a closed session is left in the map.           *)
UnregisterForgotten(s) ==
    /\ ~lock
    /\ pc[s] = "unregister"
    /\ pc' = [pc EXCEPT ![s] = "ended"]
    /\ UNCHANGED <<hook, open, pumpVars, mapVars, resetVars>>

(* delete(p.pumps, addr)                                                    *)
Unregister(s) ==
    /\ ~lock
    /\ pc[s] = "unregister"
    /\ pc' = [pc EXCEPT ![s] = "ended"]
    /\ pumps' = [pumps EXCEPT ![RemoteAddr[s]] = Nil]
    /\ displaced' = displaced \cup Displaced(s, pumps)
    /\ UNCHANGED <<hook, open, pumpVars, connections, resetVars>>

-----------------------------------------------------------------------------

(* ResetConnections takes mxConnections.                                    *)
Lock ==
    /\ ~lock
    /\ lock' = TRUE
    /\ todo' = {a \in Addrs : pumps[a] # Nil}
    /\ targets' = {s \in Sessions : active[s] /\ pumps[RemoteAddr[s]] = s}
                    \cup {s \in Sessions : connections[RemoteAddr[s]] = s}
    /\ UNCHANGED <<sessionVars, pumpVars, mapVars, current, countdown,
                   doubleClosed>>

(* SIGHUP, or backendUnhealthy with connectionsCount() > 0.                 *)
ResetBegin ==
    /\ Lock
    /\ UNCHANGED stopVars

(* Between the upgrade and active.Store(true) no reset finds a session.     *)
Unready == {s \in Sessions : pc[s] \in {"dialing", "dialed", "starting"}}

(* Seeded fault: Stop returns without a reset.                              *)
StopResetMissing ==
    /\ phase = "serving"
    /\ phase' = "stopped"
    /\ missed' = missed \cup Unready
    /\ UNCHANGED <<sessionVars, pumpVars, mapVars, lock, todo, current, countdown,
                   targets, doubleClosed>>

(* Stop: ShutdownWithContext accepts nothing any more and closes what has   *)
(* no session (CloseHttp); after it, Stop calls ResetConnections.           *)
StopReset ==
    /\ phase = "serving"
    /\ Lock
    /\ phase' = "resetting"
    /\ missed' = missed \cup Unready

(* stop of an inactive pump returns at once.                                *)
StopInactive(a) ==
    /\ lock /\ current = Nil /\ a \in todo
    /\ ~active[pumps[a]]
    /\ todo' = todo \ {a}
    /\ missed' = missed \cup {pumps[a]}
    /\ pumps' = [pumps EXCEPT ![a] = Nil]
    /\ UNCHANGED <<sessionVars, pumpVars, connections, displaced, lock, current, countdown,
                   targets, doubleClosed, phase>>

(* stop of an active one sends on done if there is room ...                 *)
StopSignal(a) ==
    /\ lock /\ current = Nil /\ a \in todo
    /\ active[pumps[a]]
    /\ IF ~done[pumps[a]]
       THEN /\ done' = [done EXCEPT ![pumps[a]] = TRUE]
            /\ UNCHANGED doubleClosed
       ELSE /\ doubleClosed' = TRUE
            /\ UNCHANGED done
    /\ current' = a
    /\ countdown' = Countdown
    /\ UNCHANGED <<sessionVars, active, failed, mapVars, lock, todo, targets,
                   stopVars>>

(* Seeded fault: the countdown goes below zero.                             *)
StopPollOffByOne ==
    /\ current # Nil
    /\ active[pumps[current]] /\ countdown >= 0
    /\ countdown' = countdown - 1
    /\ UNCHANGED <<sessionVars, pumpVars, mapVars, lock, todo, current, targets,
                   doubleClosed, stopVars>>

(* Seeded fault: the wait has no limit.                                     *)
StopPollForever ==
    /\ current # Nil
    /\ active[pumps[current]]
    /\ UNCHANGED vars

(* ... and polls active, once a second ...                                  *)
StopPoll ==
    /\ current # Nil
    /\ active[pumps[current]] /\ countdown > 0
    /\ countdown' = countdown - 1
    /\ UNCHANGED <<sessionVars, pumpVars, mapVars, lock, todo, current, targets,
                   doubleClosed, stopVars>>

(* Seeded fault: the sockets are closed only if the pump stopped in time.   *)
StopCloseIfStopped ==
    /\ current # Nil
    /\ ~active[pumps[current]] \/ countdown = 0
    /\ open' = [open EXCEPT ![pumps[current]] = @ /\ active[pumps[current]]]
    /\ pumps' = [pumps EXCEPT ![current] = Nil]
    /\ todo' = todo \ {current}
    /\ current' = Nil
    /\ countdown' = 0
    /\ UNCHANGED <<pc, hook, pumpVars, connections, displaced, lock, targets,
                   doubleClosed, stopVars>>

(* Seeded fault: the pump stays in the map.                                 *)
StopCloseKeep ==
    /\ current # Nil
    /\ ~active[pumps[current]] \/ countdown = 0
    /\ open' = [open EXCEPT ![pumps[current]] = FALSE]
    /\ todo' = todo \ {current}
    /\ current' = Nil
    /\ countdown' = 0
    /\ UNCHANGED <<pc, hook, pumpVars, mapVars, lock, targets, doubleClosed, stopVars>>

(* ... until the pump is inactive or the countdown is over; then it closes  *)
(* both sides.                                                              *)
StopClose ==
    /\ current # Nil
    /\ ~active[pumps[current]] \/ countdown = 0
    /\ open' = [open EXCEPT ![pumps[current]] = FALSE]
    /\ pumps' = [pumps EXCEPT ![current] = Nil]
    /\ todo' = todo \ {current}
    /\ current' = Nil
    /\ countdown' = 0
    /\ UNCHANGED <<pc, hook, pumpVars, connections, displaced, lock, targets,
                   doubleClosed, stopVars>>

(* The second loop of ResetConnections, and the unlock.                     *)
ResetEnd ==
    /\ lock /\ current = Nil /\ todo = {}
    /\ open' = [s \in Sessions |-> open[s] /\ \A a \in Addrs : connections[a] # s]
    /\ connections' = [a \in Addrs |-> Nil]
    /\ lock' = FALSE
    /\ targets' = {}
    /\ phase' = IF phase = "resetting" THEN "stopped" ELSE phase
    /\ UNCHANGED <<pc, hook, pumpVars, pumps, displaced, todo, current, countdown,
                   doubleClosed, missed>>

SessionStep(s) ==
    \/ Accept(s) \/ HangUp(s) \/ CloseHttp(s) \/ Upgrade(s) \/ Hijacked(s) \/ Dial(s)
    \/ Register(s) \/ Activate(s) \/ Fail(s) \/ RunDone(s) \/ RunFailed(s)
    \/ CloseWebsocket(s) \/ Unregister(s)

ResetStep ==
    \/ \E a \in Addrs : StopInactive(a) \/ StopSignal(a)
    \/ StopPoll \/ StopClose \/ ResetEnd

Next ==
    \/ \E s \in Sessions : SessionStep(s)
    \/ ResetBegin \/ StopReset
    \/ ResetStep

Spec == Init /\ [][Next]_vars

(* The goroutine of a session's handler and the fasthttp worker that        *)
(* accepted its connection.                                                 *)
Handler(s) ==
    \/ Dial(s) \/ Register(s) \/ Activate(s) \/ RunDone(s) \/ RunFailed(s)
    \/ CloseWebsocket(s) \/ Unregister(s)
Worker(s) == Hijacked(s) \/ CloseHttp(s) \/ (~open[s] /\ HangUp(s))

(* Goroutines are scheduled: a reset that has begun goes on, and so do      *)
(* handlers and workers, which get mxConnections in the end (Go's mutex is  *)
(* fair), hence strong fairness.  Clients and resets come when they like,   *)
(* and a pump fails for certain only when its sockets are closed.           *)
FairSpec ==
    /\ Spec
    /\ WF_vars(ResetStep)
    /\ \A s \in Sessions :
         SF_vars(Handler(s)) /\ SF_vars(Worker(s)) /\ WF_vars(~open[s] /\ Fail(s))

-----------------------------------------------------------------------------

(* Every variable has its type.                                             *)
TypeOK ==
    /\ pc \in [Sessions -> PCs]
    /\ hook \in [Sessions -> BOOLEAN]
    /\ open \in [Sessions -> BOOLEAN]
    /\ active \in [Sessions -> BOOLEAN]
    /\ done \in [Sessions -> BOOLEAN]
    /\ failed \in [Sessions -> BOOLEAN]
    /\ connections \in [Addrs -> Sessions \cup {Nil}]
    /\ pumps \in [Addrs -> Sessions \cup {Nil}]
    /\ displaced \in SUBSET Sessions
    /\ lock \in BOOLEAN
    /\ todo \in SUBSET Addrs
    /\ current \in Addrs \cup {Nil}
    /\ countdown \in 0 .. Countdown
    /\ targets \in SUBSET Sessions
    /\ doubleClosed \in BOOLEAN
    /\ phase \in {"serving", "resetting", "stopped"}
    /\ missed \in SUBSET Sessions

(* A pump in the map belongs to a session that is still to take it out, so  *)
(* connectionsCount never counts, and a reset never waits for, a session    *)
(* that has ended.                                                          *)
PumpsAreLive ==
    \A a \in Addrs : pumps[a] # Nil => Registered(pumps[a]) /\ RemoteAddr[pumps[a]] = a

(* However a pump fails, or its handler runs, while it is being stopped:    *)
(* when ResetConnections returns, every active pump and every plain         *)
(* connection that it found in the maps has its sockets closed.             *)
ResetIsThorough == [][lock /\ ~lock' => \A s \in targets : ~open'[s]]_vars

(* No pump is stopped twice, whatever resets coincide with its failure: the *)
(* error "double-closing the pump" does not occur.                          *)
NeverDoubleClosed == ~doubleClosed

(* Stop ends every session, whatever resets come before or with it, but     *)
(* those it cannot know of: the ones between their upgrade and the start of *)
(* their pump, the ones that any reset has passed over there, and the ones  *)
(* whose entry went with an earlier session of the same address, since the  *)
(* handlers and hooks delete by address.                                    *)
StopLeavesOnlyUnready ==
    phase = "stopped" => \A s \in Sessions : open[s] => s \in missed \cup displaced

(* ResetConnections returns, and with it everything that waits for          *)
(* mxConnections goes on, although a failed pump never clears active.       *)
ResetReturns == lock ~> ~lock

(* A session whose sockets are closed ends and leaves both maps.            *)
ClosedSessionsEnd ==
    \A s \in Sessions :
        (pc[s] # "none" /\ ~open[s])
            ~> /\ pc[s] = "ended"
               /\ \A a \in Addrs : pumps[a] # s /\ (connections[a] # s)

(* As the comment in stop has it: a pump for which stop returns at once is  *)
(* "already stopped".                                                       *)
PassedOverHaveStopped ==
    [][\A a \in Addrs :
          StopInactive(a) => pc[pumps[a]] \in {"closing", "unregister", "ended"}]_vars
=============================================================================
