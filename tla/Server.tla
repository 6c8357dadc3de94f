------------------------------- MODULE Server -------------------------------
(***************************************************************************)
(* The server (server/server.go) around the rpc proxy, whose connections    *)
(* are those of HttpConnections: the main goroutine waits for SIGHUP, for a *)
(* signal to terminate and for failures of its goroutines; SIGHUP makes it  *)
(* reset the authrpc, the flashblocks and the rpc proxy, one after the      *)
(* other; at the end it stops rpc, flashblocks, authrpc and metrics.        *)
(*                                                                         *)
(* The rpc proxy is the one to watch: it is the last to be reset, after a   *)
(* reset of the flashblocks proxy that may take minutes (see Websocket),    *)
(* and the first to be stopped, with the process going on after it.         *)
(* Healthchecks reset connections at the same time (Reset).                 *)
(***************************************************************************)
EXTENDS HttpConnections

CONSTANT MaxFailures    \* errors in failure at a time; four goroutines send
                        \* one each, and the channel has room for sixteen

ASSUME FailuresAssumption == MaxFailures \in 1 .. 16

VARIABLES
    main,       \* where the main goroutine is
    hup, term,  \* the channels resetConnections and terminator (capacity one)
    failures    \* errors in the channel failure

signalVars == <<hup, term, failures>>
serverVars == <<main, signalVars>>
allVars    == <<vars, serverVars>>

InLoop == main \in {"select", "resetRpc"}

ServerInit ==
    /\ Init
    /\ main = "select"
    /\ hup = FALSE
    /\ term = FALSE
    /\ failures = 0

-----------------------------------------------------------------------------
(* Signals and failures.  A signal that finds its channel full is dropped;  *)
(* those after the loop are never read.                                     *)

Hangup ==
    /\ InLoop
    /\ hup' = TRUE
    /\ UNCHANGED <<vars, main, term, failures>>

Terminate ==
    /\ InLoop
    /\ term' = TRUE
    /\ UNCHANGED <<vars, main, hup, failures>>

(* failure <- err, of a proxy or of the metrics server.                     *)
Failure ==
    /\ InLoop
    /\ failures < MaxFailures
    /\ failures' = failures + 1
    /\ UNCHANGED <<vars, main, hup, term>>

-----------------------------------------------------------------------------
(* The main goroutine.                                                      *)

(* Seeded fault: an error of the first resets leaves out the last.          *)
HangupReceivedGivesUp ==
    /\ main = "select"
    /\ hup
    /\ hup' = FALSE
    /\ main' \in {"select", "resetRpc"}
    /\ UNCHANGED <<vars, term, failures>>

(* case reset := <-resetConnections, and the resets of the authrpc and the  *)
(* flashblocks proxy, which return in the end (ResetReturns of Websocket).  *)
HangupReceived ==
    /\ main = "select"
    /\ hup
    /\ hup' = FALSE
    /\ main' = "resetRpc"
    /\ UNCHANGED <<vars, term, failures>>

(* s.rpc.ResetConnections()                                                 *)
ResetRpc ==
    /\ main = "resetRpc"
    /\ ResetConnections
    /\ main' = "select"
    /\ UNCHANGED <<workerVars, phase, late, signalVars>>

(* case stop := <-terminator                                                *)
TerminateReceived ==
    /\ main = "select"
    /\ term
    /\ term' = FALSE
    /\ main' = "stopRpc"
    /\ UNCHANGED <<vars, hup, failures>>

(* Seeded fault: break without its label leaves the select, not the loop.   *)
FailureReceivedBreak ==
    /\ main = "select"
    /\ failures > 0
    /\ failures' = 0
    /\ UNCHANGED <<vars, main, hup, term>>

(* case err := <-s.failure, and the loop that exhausts the errors.          *)
FailureReceived ==
    /\ main = "select"
    /\ failures > 0
    /\ failures' = 0
    /\ main' = "stopRpc"
    /\ UNCHANGED <<vars, hup, term>>

(* s.rpc.Stop(ctx), up to ShutdownWithContext and after it.                 *)
BeginStopRpc ==
    /\ main = "stopRpc"
    /\ BeginStop
    /\ main' = "stoppingRpc"
    /\ UNCHANGED signalVars

FinishStopRpc ==
    /\ main = "stoppingRpc"
    /\ FinishStop
    /\ main' = "stopOthers"
    /\ UNCHANGED signalVars

(* The flashblocks proxy, the authrpc proxy and the metrics server: each    *)
(* shutdown ends by its context, and the resets in the Stops return.  Then  *)
(* Run returns and the process ends, and with it every connection.          *)
StopOthersAndExit ==
    /\ main = "stopOthers"
    /\ main' = "exited"
    /\ state' = [c \in Conns |-> IF Established(c) THEN "closed" ELSE state[c]]
    /\ sock' = [c \in Conns |-> IF Established(c) THEN "shut" ELSE sock[c]]
    /\ connections' = [k \in Keys |-> Nil]
    /\ draining' = [k \in Keys |-> Nil]
    /\ UNCHANGED <<closeMark, phase, historyVars, signalVars>>

Main ==
    \/ HangupReceived \/ ResetRpc
    \/ TerminateReceived \/ FailureReceived
    \/ BeginStopRpc \/ FinishStopRpc \/ StopOthersAndExit

(* What goes on beside the main goroutine: clients, workers, healthcheck.   *)
Beside ==
    /\ \/ \E c \in Conns : ClientStep(c) \/ WorkerStep(c) \/ CloseIdleConn(c)
       \/ Reset
    /\ UNCHANGED serverVars

ServerNext == Main \/ Hangup \/ Terminate \/ Failure \/ (main # "exited" /\ Beside)

ServerSpec == ServerInit /\ [][ServerNext]_allVars

(* The main goroutine runs: resets return and a Stop ends by its context.   *)
(* Its select chooses at random, so a signal to terminate and a failure are *)
(* not passed over forever, however often SIGHUP comes (SF).  Workers run:  *)
(* a handler returns because backend calls are bounded by a timeout, a read *)
(* ends because ReadTimeout and IdleTimeout bound it, and a shutdown closes *)
(* the connections that wait.  No fairness for clients and signals.         *)
ServerFairSpec ==
    /\ ServerSpec
    /\ WF_allVars(Main)
    /\ SF_allVars(TerminateReceived \/ FailureReceived)
    /\ \A c \in Conns :
         WF_allVars(/\ main # "exited"
                    /\ WorkerStep(c) \/ CloseIdleConn(c)
                    /\ UNCHANGED serverVars)

-----------------------------------------------------------------------------

(* Every variable has its type.                                             *)
ServerTypeOK ==
    /\ TypeOK
    /\ main \in {"select", "resetRpc", "stopRpc", "stoppingRpc",
                 "stopOthers", "exited"}
    /\ hup \in BOOLEAN
    /\ term \in BOOLEAN
    /\ failures \in 0 .. MaxFailures

(* No SIGHUP is lost: whether it is merged with one that is waiting, comes  *)
(* in the middle of the resets for an earlier one or before a termination,  *)
(* a connection that was established when it came is drained or ends.       *)
HangupHonoured ==
    \A c \in Conns : hup /\ InConnections(c) ~> ~InConnections(c)

(* A signal to terminate, or a failure, ends the process, although SIGHUPs  *)
(* may keep coming and connections may be busy.                             *)
TerminationCompletes == term \/ failures > 0 ~> main = "exited"
=============================================================================
