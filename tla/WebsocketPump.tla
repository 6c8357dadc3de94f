---------------------------- MODULE WebsocketPump ----------------------------
(***************************************************************************)
(* The inside of one websocket pump (proxy/websocket_pump.go): for each     *)
(* direction a goroutine that reads one socket, a bounded channel, a        *)
(* goroutine that writes the other socket, and one that passes on the order *)
(* to terminate; run, which waits for that order or for a failure; stop;    *)
(* and the closing of both sockets by the handler (proxy/websocket.go).     *)
(*                                                                         *)
(* A direction is named by the side it reads from.  Frames are the indices  *)
(* of the script of the side that sends them, so order and loss show.       *)
(***************************************************************************)
EXTENDS Naturals, Sequences

CONSTANTS
    Configs,        \* what the two sides send, and the settings of the proxy
    MessagesCap     \* capacity of the messages channel (16)

Sides == {"frontend", "backend"}
Kinds == {"data", "ping", "pong", "close"}

ASSUME ConfigsAssumption ==
    \A c \in Configs :
        c \in [chaos : BOOLEAN, script : [Sides -> Seq(Kinds)], timed : SUBSET Sides]
ASSUME CapAssumption == MessagesCap \in Nat \ {0}

VARIABLES
    chaos,                      \* cfg.proxy.Chaos.Enabled
    script,                     \* what each side sends
    timed,                      \* directions whose timeout is not 0s
    sock,                       \* "open", "gone" (by the remote) or "closed"
    writeErr,                   \* the socket's writes failed once: all fail
    received,                   \* frames of each side the reader has got
    data, control,              \* last data, last ping or pong passed on
    reader, writer, terminator, \* where the goroutines of a direction are
    messages, writing,          \* the channel, and the frame being written
    doneDir, doneReads, doneWrites,     \* channels of capacity one
    failures,                   \* how many errors are in failure (0 .. 2)
    run, reason,                \* where run and the handler are; why it ended
    active, done,               \* of the pump
    stopping                    \* where stop is

configVars == <<chaos, script, timed>>
sockVars   == <<sock, writeErr>>
pathVars   == <<received, data, control, messages, writing>>
goVars     == <<reader, writer, terminator>>
signalVars == <<doneDir, doneReads, doneWrites>>
pumpVars   == <<failures, run, reason, active, done, stopping>>
vars == <<configVars, sockVars, pathVars, goVars, signalVars, pumpVars>>

Other(s) == CHOOSE t \in Sides : t # s

Init ==
    /\ \E c \in Configs : chaos = c.chaos /\ script = c.script /\ timed = c.timed
    /\ sock = [s \in Sides |-> "open"]
    /\ writeErr = [s \in Sides |-> FALSE]
    /\ received = [s \in Sides |-> 0]
    /\ data = [s \in Sides |-> 0]
    /\ control = [s \in Sides |-> 0]
    /\ reader = [s \in Sides |-> "starting"]
    /\ writer = [s \in Sides |-> "select"]
    /\ terminator = [s \in Sides |-> "waiting"]
    /\ messages = [s \in Sides |-> <<>>]
    /\ writing = [s \in Sides |-> 0]
    /\ doneDir = [s \in Sides |-> FALSE]
    /\ doneReads = [s \in Sides |-> FALSE]
    /\ doneWrites = [s \in Sides |-> FALSE]
    /\ failures = 0
    /\ run = "starting"
    /\ reason = "none"
    /\ active = FALSE
    /\ done = FALSE
    /\ stopping = "no"

-----------------------------------------------------------------------------
(* A remote goes away.                                                      *)
Vanish(s) ==
    /\ sock[s] = "open"
    /\ sock' = [sock EXCEPT ![s] = "gone"]
    /\ UNCHANGED <<configVars, writeErr, pathVars, goVars, signalVars, pumpVars>>

-----------------------------------------------------------------------------
(* The goroutine that reads.                                                *)

(* notifyOnFailure: an error that finds the channel full is dropped.        *)
notifyOnFailure == failures' = IF failures < 2 THEN failures + 1 ELSE 2

(* The top of the loop: end if told to, else call ReadMessage.              *)
ReadLoop(d) ==
    /\ reader' = [reader EXCEPT ![d] = IF doneReads[d] THEN "ended" ELSE "reading"]
    /\ doneReads' = [doneReads EXCEPT ![d] = FALSE]

(* The goroutine gets to its loop for the first time.                       *)
ReadStart(d) ==
    /\ reader[d] = "starting"
    /\ ReadLoop(d)
    /\ UNCHANGED <<configVars, sockVars, pathVars, writer, terminator, doneDir, doneWrites,
                   pumpVars>>

NextFrame(d) == script[d][received[d] + 1]

(* The remote may have sent its next frame; if it has gone since, the frame *)
(* may be there nevertheless.                                               *)
Readable(d) ==
    /\ reader[d] = "reading"
    /\ sock[d] # "closed"
    /\ received[d] < Len(script[d])

(* ReadMessage returns a data frame.                                        *)
ReadData(d) ==
    /\ Readable(d)
    /\ NextFrame(d) = "data"
    /\ received' = [received EXCEPT ![d] = @ + 1]
    /\ reader' = [reader EXCEPT ![d] = "sending"]
    /\ UNCHANGED <<configVars, sockVars, data, control, messages, writing, writer,
                   terminator, signalVars, pumpVars>>

Writable(s) == sock[s] # "closed" /\ ~writeErr[s]

(* Seeded fault: the handlers are made with from and to swapped, and send   *)
(* the frame back where it came from.                                       *)
ReadPingSwapped(d) ==
    /\ Readable(d)
    /\ NextFrame(d) \in {"ping", "pong"}
    /\ received' = [received EXCEPT ![d] = @ + 1]
    /\ Writable(d)
    /\ control' = [control EXCEPT ![Other(d)] = received[d] + 1]
    /\ UNCHANGED <<configVars, sockVars, data, messages, writing, goVars,
                   signalVars, pumpVars>>

(* Inside ReadMessage, the handlers pumpPings and pumpPongs write the frame *)
(* to the other side at once, and reading goes on.  Their error ends it: a  *)
(* write that failed, or one that never got its turn, which harms nobody.   *)
ReadPing(d) ==
    /\ Readable(d)
    /\ NextFrame(d) \in {"ping", "pong"}
    /\ received' = [received EXCEPT ![d] = @ + 1]
    /\ \/ /\ Writable(Other(d))
          /\ control' = [control EXCEPT ![d] = received[d] + 1]
          /\ UNCHANGED <<writeErr, reader, failures>>
       \/ /\ writeErr' \in {writeErr, [writeErr EXCEPT ![Other(d)] = TRUE]}
          /\ reader' = [reader EXCEPT ![d] = "ended"]
          /\ notifyOnFailure
          /\ UNCHANGED control
    /\ UNCHANGED <<configVars, sock, data, messages, writing, writer,
                   terminator, signalVars, run, reason, active, done, stopping>>

(* The handler pumpCloseMessages calls WriteControl with the close code for *)
(* the type of the frame; the library refuses what is no control type, and  *)
(* ReadMessage returns an error, as it does after any close frame.          *)
ReadClose(d) ==
    /\ Readable(d)
    /\ NextFrame(d) = "close"
    /\ received' = [received EXCEPT ![d] = @ + 1]
    /\ reader' = [reader EXCEPT ![d] = "ended"]
    /\ notifyOnFailure
    /\ UNCHANGED <<configVars, sockVars, data, control, messages, writing, writer,
                   terminator, signalVars, run, reason, active, done, stopping>>

(* Seeded fault: the end of the stream is not reported.                     *)
ReadErrorSilent(d) ==
    /\ reader[d] = "reading"
    /\ reader' = [reader EXCEPT ![d] = "ended"]
    /\ UNCHANGED <<configVars, sockVars, pathVars, writer, terminator, signalVars,
                   pumpVars>>

(* ReadMessage fails: the deadline of the read has passed, the remote has   *)
(* gone, or the socket was closed.                                          *)
ReadError(d) ==
    /\ reader[d] = "reading"
    /\ reader' = [reader EXCEPT ![d] = "ended"]
    /\ notifyOnFailure
    /\ UNCHANGED <<configVars, sockVars, pathVars, writer, terminator, signalVars,
                   run, reason, active, done, stopping>>

(* Seeded fault: a message that finds the channel full is dropped.          *)
PushDropping(d) ==
    /\ reader[d] = "sending"
    /\ messages' = [messages EXCEPT ![d] =
                      IF Len(@) < MessagesCap THEN Append(@, received[d]) ELSE @]
    /\ ReadLoop(d)
    /\ UNCHANGED <<configVars, sockVars, received, data, control, writing, writer,
                   terminator, doneDir, doneWrites, pumpVars>>

(* messages <- m, which blocks while the channel is full, and the next      *)
(* iteration.                                                               *)
Push(d) ==
    /\ reader[d] = "sending"
    /\ Len(messages[d]) < MessagesCap
    /\ messages' = [messages EXCEPT ![d] = Append(@, received[d])]
    /\ ReadLoop(d)
    /\ UNCHANGED <<configVars, sockVars, received, data, control, writing, writer,
                   terminator, doneDir, doneWrites, pumpVars>>

-----------------------------------------------------------------------------
(* The goroutine that writes.                                               *)

WriterDone(d) ==
    /\ writer[d] = "select"
    /\ doneWrites[d]
    /\ writer' = [writer EXCEPT ![d] = "ended"]
    /\ doneWrites' = [doneWrites EXCEPT ![d] = FALSE]
    /\ UNCHANGED <<configVars, sockVars, pathVars, reader, terminator, doneDir,
                   doneReads, pumpVars>>

(* m := <-messages; chaos may drop it.                                      *)
Pull(d) ==
    /\ writer[d] = "select"
    /\ messages[d] # <<>>
    /\ messages' = [messages EXCEPT ![d] = Tail(@)]
    /\ \/ /\ writer' = [writer EXCEPT ![d] = "writing"]
          /\ writing' = [writing EXCEPT ![d] = Head(messages[d])]
       \/ /\ chaos
          /\ UNCHANGED <<writer, writing>>
    /\ UNCHANGED <<configVars, sockVars, received, data, control, reader, terminator,
                   signalVars, pumpVars>>

(* WriteMessage succeeds ...                                                *)
Write(d) ==
    /\ writer[d] = "writing"
    /\ Writable(Other(d))
    /\ data' = [data EXCEPT ![d] = writing[d]]
    /\ writer' = [writer EXCEPT ![d] = "select"]
    /\ writing' = [writing EXCEPT ![d] = 0]
    /\ UNCHANGED <<configVars, sockVars, received, control, messages, reader,
                   terminator, signalVars, pumpVars>>

(* ... or fails, by its deadline at the latest; the goroutine goes on, and  *)
(* the library fails all later writes to the socket.                        *)
WriteError(d) ==
    /\ writer[d] = "writing"
    /\ writeErr' = [writeErr EXCEPT ![Other(d)] = TRUE]
    /\ writer' = [writer EXCEPT ![d] = "select"]
    /\ writing' = [writing EXCEPT ![d] = 0]
    /\ notifyOnFailure
    /\ UNCHANGED <<configVars, sock, received, data, control, messages, reader,
                   terminator, signalVars, run, reason, active, done, stopping>>

(* Seeded fault: the third goroutine does not wait for the order.           *)
TerminateAtOnce(d) ==
    /\ terminator[d] = "waiting"
    /\ terminator' = [terminator EXCEPT ![d] = "ended"]
    /\ doneReads' = [doneReads EXCEPT ![d] = TRUE]
    /\ doneWrites' = [doneWrites EXCEPT ![d] = TRUE]
    /\ UNCHANGED <<configVars, sockVars, pathVars, reader, writer, doneDir, pumpVars>>

(* The third goroutine: <-done, then doneReads and doneWrites, which have   *)
(* room.                                                                    *)
Terminate(d) ==
    /\ terminator[d] = "waiting"
    /\ doneDir[d]
    /\ terminator' = [terminator EXCEPT ![d] = "ended"]
    /\ doneDir' = [doneDir EXCEPT ![d] = FALSE]
    /\ doneReads' = [doneReads EXCEPT ![d] = TRUE]
    /\ doneWrites' = [doneWrites EXCEPT ![d] = TRUE]
    /\ UNCHANGED <<configVars, sockVars, pathVars, reader, writer, pumpVars>>

-----------------------------------------------------------------------------
(* run, the handler after it, and stop.                                     *)

(* active.Store(true); the goroutines run already.                          *)
Activate ==
    /\ run = "starting"
    /\ run' = "running"
    /\ active' = TRUE
    /\ UNCHANGED <<configVars, sockVars, pathVars, goVars, signalVars, failures,
                   reason, done, stopping>>

(* Seeded fault: told to stop, run signals one direction only.              *)
RunDoneOneWay ==
    /\ run = "running"
    /\ done
    /\ done' = FALSE
    /\ active' = FALSE
    /\ doneDir' = [doneDir EXCEPT !["backend"] = TRUE]
    /\ failures' = 0
    /\ run' = "closing"
    /\ reason' = "stopped"
    /\ UNCHANGED <<configVars, sockVars, pathVars, goVars, doneReads, doneWrites,
                   stopping>>

(* Told to stop, run clears active, signals both directions (doneForward,   *)
(* doneReverse) and exhausts the errors.                                    *)
RunDone ==
    /\ run = "running"
    /\ done
    /\ done' = FALSE
    /\ active' = FALSE
    /\ doneDir' = [s \in Sides |-> TRUE]
    /\ failures' = 0
    /\ run' = "closing"
    /\ reason' = "stopped"
    /\ UNCHANGED <<configVars, sockVars, pathVars, goVars, doneReads, doneWrites,
                   stopping>>

(* A failure ends run, which leaves active set and signals nobody.          *)
RunFailed ==
    /\ run = "running"
    /\ failures > 0
    /\ failures' = 0
    /\ run' = "closing"
    /\ reason' = "failed"
    /\ UNCHANGED <<configVars, sockVars, pathVars, goVars, signalVars, active, done,
                   stopping>>

(* The handler sends both sides a close frame and closes them.              *)
CloseBoth ==
    /\ run = "closing"
    /\ run' = "closed"
    /\ sock' = [s \in Sides |-> "closed"]
    /\ UNCHANGED <<configVars, writeErr, pathVars, goVars, signalVars, failures, reason,
                   active, done, stopping>>

(* stop of an active pump signals run ...                                   *)
Stop ==
    /\ stopping = "no"
    /\ active
    /\ stopping' = "polling"
    /\ done' = TRUE
    /\ UNCHANGED <<configVars, sockVars, pathVars, goVars, signalVars, failures, run,
                   reason, active>>

(* ... waits until active is cleared or a minute has passed, and closes     *)
(* both sockets itself.                                                     *)
StopClose ==
    /\ stopping = "polling"
    /\ stopping' = "returned"
    /\ sock' = [s \in Sides |-> "closed"]
    /\ UNCHANGED <<configVars, writeErr, pathVars, goVars, signalVars, failures,
                   run, reason, active, done>>

-----------------------------------------------------------------------------

Reader(d) ==
    ReadStart(d) \/ ReadData(d) \/ ReadPing(d) \/ ReadClose(d) \/ ReadError(d) \/ Push(d)

Writer(d) == WriterDone(d) \/ Pull(d) \/ Write(d) \/ WriteError(d)

Run == Activate \/ RunDone \/ RunFailed \/ CloseBoth

Next ==
    \/ \E s \in Sides : Vanish(s) \/ Reader(s) \/ Writer(s) \/ Terminate(s)
    \/ Run
    \/ Stop
    \/ StopClose

Spec == Init /\ [][Next]_vars

(* Goroutines that can run do.  A read ends for certain only when its       *)
(* socket is dead; a write also by its deadline, which it has if the        *)
(* direction has a timeout: by default b->f has one of 5s, f->b has none.   *)
(* Nothing is assumed of the remotes, nor of who calls stop.                *)
FairSpec ==
    /\ Spec
    /\ \A d \in Sides :
         /\ WF_vars(Reader(d) /\ (reader[d] = "reading" => sock[d] # "open"))
         /\ WF_vars(Writer(d) /\ (writer[d] = "writing" =>
                                    d \in timed \/ sock[Other(d)] # "open"))
         /\ WF_vars(Terminate(d))
    /\ WF_vars(Run)
    /\ WF_vars(StopClose)

-----------------------------------------------------------------------------

(* Every variable has its type, and the channels respect their capacity.    *)
TypeOK ==
    /\ chaos \in BOOLEAN
    /\ script \in [Sides -> Seq(Kinds)]
    /\ timed \in SUBSET Sides
    /\ \A s \in Sides : received[s] \in 0 .. Len(script[s])
    /\ sock \in [Sides -> {"open", "gone", "closed"}]
    /\ writeErr \in [Sides -> BOOLEAN]
    /\ \A s \in Sides : data[s] \in 0 .. received[s] /\ control[s] \in 0 .. received[s]
    /\ reader \in [Sides -> {"starting", "reading", "sending", "ended"}]
    /\ writer \in [Sides -> {"select", "writing", "ended"}]
    /\ terminator \in [Sides -> {"waiting", "ended"}]
    /\ messages \in [Sides -> Seq(Nat)]
    /\ \A s \in Sides : Len(messages[s]) <= MessagesCap /\ writing[s] \in 0 .. received[s]
    /\ doneDir \in [Sides -> BOOLEAN]
    /\ doneReads \in [Sides -> BOOLEAN]
    /\ doneWrites \in [Sides -> BOOLEAN]
    /\ failures \in 0 .. 2
    /\ run \in {"starting", "running", "closing", "closed"}
    /\ reason \in {"none", "stopped", "failed"}
    /\ active \in BOOLEAN
    /\ done \in BOOLEAN
    /\ stopping \in {"no", "polling", "returned"}

S == INSTANCE Stream WITH lossy <- chaos

(* Whatever fails, and whenever the pump is stopped: each side gets the     *)
(* frames of the other in order, none twice and, unless chaos drops some,   *)
(* none skipped.  Writing goes on after a failed write, and this rests on   *)
(* the library failing every write after it.                                *)
IsStream == S!Spec

(* A data frame was read and has not been passed on.                        *)
Lagging(d) == \E i \in data[d] + 1 .. received[d] : script[d][i] = "data"

(* As long as the pump runs, and unless chaos drops messages, what is read  *)
(* in a direction with a timeout is passed on, however the goroutines are   *)
(* scheduled; without one, a remote that does not read holds it up.         *)
EverythingPassed ==
    \A d \in Sides :
        Lagging(d) /\ ~chaos /\ d \in timed ~> ~Lagging(d) \/ run # "running"

BothClosed == run = "closed" /\ \A s \in Sides : sock[s] = "closed"

(* When a side goes away and what is read from it has a timeout, both are   *)
(* closed: the channel that is full, errors that are dropped and a stop     *)
(* that comes at the same time never leave one side open behind the other.  *)
(* Without a timeout, a write that blocks could keep the reader from        *)
(* noticing.  Once a side is closed by the proxy, both are, timeout or not. *)
BothSidesClose ==
    \A s \in Sides :
        sock[s] = "closed" \/ (sock[s] = "gone" /\ s \in timed) ~> BothClosed

(* What a pump leaves behind.  After a stop, at most a reader that blocks   *)
(* for good on a channel nobody drains any more; after a failure, which     *)
(* signals neither direction, the readers end on the closed sockets, and    *)
(* the writers, with nothing left to write, and the terminators wait.       *)
GoroutinesEnd ==
    /\ (run = "closed" /\ reason = "stopped") ~>
          \A d \in Sides :
              /\ writer[d] = "ended" /\ terminator[d] = "ended"
              /\ \/ reader[d] = "ended"
                 \/ reader[d] = "sending" /\ Len(messages[d]) = MessagesCap
    /\ (run = "closed" /\ reason = "failed") ~>
          \A d \in Sides : reader[d] = "ended" /\ writer[d] = "select" /\ messages[d] = <<>>
=============================================================================
