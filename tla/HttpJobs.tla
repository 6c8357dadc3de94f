------------------------------ MODULE HttpJobs ------------------------------
(***************************************************************************)
(* The job pipeline of one HTTP proxy (proxy/http.go).  Every upstream     *)
(* connection is served by a handler goroutine (receive) that wraps the    *)
(* request into a proxy job, puts it on one of two bounded channels, offers *)
(* a copy to the channels of every peer, and waits on the job's WaitGroup.  *)
(* One goroutine drains the two proxy channels and calls the backend; one   *)
(* goroutine per peer drains that peer's two mirror channels.  All of them  *)
(* have the same select structure, so they are the same "loop" here.        *)
(*                                                                         *)
(* A job is identified with the connection that issued it: fasthttp serves *)
(* the requests of a connection one after the other, so a connection has at *)
(* most one proxy job at a time (mirror jobs may outlive their request).    *)
(***************************************************************************)
EXTENDS Naturals, SequencesExt

CONSTANTS
    Conns,              \* upstream connections, i.e. concurrent handlers
    Peers,              \* hosts of peerURIs
    Backend,            \* the loop that serves the proxy channels
    QueueCap,           \* capacity of each channel (512 in newHTTP)
    ChaosEnabled,       \* cfg.proxy.Chaos.Enabled
    NoConn              \* a loop that holds no job

ASSUME QueueCapAssumption == QueueCap \in Nat \ {0}
ASSUME BackendAssumption  == Backend \notin Peers
ASSUME ChaosAssumption    == ChaosEnabled \in BOOLEAN
ASSUME NoConnAssumption   == NoConn \notin Conns

VARIABLES
    usePriorityQueue,   \* cfg.proxy.UsePriorityQueue: set at the start
    pc,         \* where each handler is: "idle", "enqueue" or "mirror"
    job,        \* the proxyJob of the request the handler works on
    unsent,     \* peers the mirroring loop of receive has still to visit
    wg,         \* the job's WaitGroup counter
    res,        \* what the job's response object holds
    hi, lo,     \* queueProxyHi/queueMirrorHi[host], and the same for Lo
    loop,       \* where each job loop is: "poll", "select", "exec", "report"
    cur,        \* the job each loop is executing
    inversions  \* history: with the priority queue, Lo jobs taken in a row
                \* past a waiting Hi job (2 stands for 2 or more)

handlerVars == <<pc, job, unsent, wg, res>>
loopVars    == <<usePriorityQueue, hi, lo, loop, cur, inversions>>
vars        == <<handlerVars, loopVars>>

Loops == {Backend} \cup Peers

(* The verdicts triage can return (rpc.go, authrpc.go), as the three flags  *)
(* of triaged.Request.  A request that is not proxied comes with a response *)
(* made by the proxy, and is neither prioritised nor mirrored.              *)
Triages ==
    { t \in [proxy : BOOLEAN, prioritise : BOOLEAN, mirror : BOOLEAN] :
        ~t.proxy => ~t.prioritise /\ ~t.mirror }

Execs == {"backend", "fake", "chaos"}

Jobs == [prioritise : BOOLEAN, exec : Execs]

(* newProxyJob: an injected fault takes the place of the backend or fake.   *)
newProxyJob(triage, chaos) ==
    [ prioritise |-> triage.prioritise,
      exec       |-> IF chaos THEN "chaos"
                     ELSE IF triage.proxy THEN "backend" ELSE "fake" ]

(* Whether it is mirrored: the verdict is widened by the operator's list of *)
(* extra mirrored methods, and cancelled by an injected fault.              *)
Mirrored(triage, extraMirrored, chaos) == ~chaos /\ (triage.mirror \/ extraMirrored)

(* What job.proxy(req, res) may leave in a response object that triage      *)
(* prepared: the backend answers or the call fails (execProxyJob then       *)
(* writes an error into it); a fake leaves it alone; chaos overwrites it.   *)
CallResults(exec, prepared) ==
    CASE exec = "backend" -> {"backend", "error"}
      [] exec = "fake"    -> {prepared}
      [] exec = "chaos"   -> {"chaos"}

Responses == {"released", "empty", "faked", "backend", "error", "chaos"}

IdleJob == [prioritise |-> FALSE, exec |-> "fake"]

-----------------------------------------------------------------------------

Init ==
    /\ usePriorityQueue \in BOOLEAN
    /\ pc = [c \in Conns |-> "idle"]
    /\ job = [c \in Conns |-> IdleJob]
    /\ unsent = [c \in Conns |-> {}]
    /\ wg = [c \in Conns |-> 0]
    /\ res = [c \in Conns |-> "released"]
    /\ hi = [l \in Loops |-> <<>>]
    /\ lo = [l \in Loops |-> <<>>]
    /\ loop = [l \in Loops |-> IF usePriorityQueue THEN "poll" ELSE "select"]
    /\ cur = [l \in Loops |-> NoConn]
    /\ inversions = [l \in Loops |-> 0]

(* receive, up to wg.Add(1).                                                *)
Receive(c) ==
    /\ pc[c] = "idle"
    /\ \E triage \in Triages, extraMirrored \in BOOLEAN, chaos \in {FALSE, ChaosEnabled} :
          /\ job' = [job EXCEPT ![c] = newProxyJob(triage, chaos)]
          /\ unsent' = [unsent EXCEPT ![c] =
                          IF Mirrored(triage, extraMirrored, chaos) THEN Peers ELSE {}]
          /\ res' = [res EXCEPT ![c] = IF triage.proxy THEN "empty" ELSE "faked"]
    /\ wg' = [wg EXCEPT ![c] = 1]
    /\ pc' = [pc EXCEPT ![c] = "enqueue"]
    /\ UNCHANGED loopVars

(* The channel send of the proxy job: it blocks while the channel is full.  *)
Enqueue(c) ==
    /\ pc[c] = "enqueue"
    /\ \/ /\ job[c].prioritise
          /\ Len(hi[Backend]) < QueueCap
          /\ hi' = [hi EXCEPT ![Backend] = Append(@, c)]
          /\ UNCHANGED lo
       \/ /\ ~job[c].prioritise
          /\ Len(lo[Backend]) < QueueCap
          /\ lo' = [lo EXCEPT ![Backend] = Append(@, c)]
          /\ UNCHANGED hi
    /\ pc' = [pc EXCEPT ![c] = "mirror"]
    /\ UNCHANGED <<job, unsent, wg, res, usePriorityQueue, loop, cur, inversions>>

(* Seeded fault: the mirror send blocks like the proxy send does.           *)
MirrorToBlocking(c, p) ==
    /\ pc[c] = "mirror"
    /\ p \in unsent[c]
    /\ Len(IF job[c].prioritise THEN hi[p] ELSE lo[p]) < QueueCap
    /\ unsent' = [unsent EXCEPT ![c] = @ \ {p}]
    /\ hi' = IF job[c].prioritise THEN [hi EXCEPT ![p] = Append(@, c)] ELSE hi
    /\ lo' = IF job[c].prioritise THEN lo ELSE [lo EXCEPT ![p] = Append(@, c)]
    /\ UNCHANGED <<pc, job, wg, res, usePriorityQueue, loop, cur, inversions>>

(* One iteration of the mirroring loop: a send that never blocks, the job   *)
(* is dropped when the peer's channel is full ("better not mirror than      *)
(* block on hot-path").  The map of peers is visited in any order.          *)
MirrorTo(c, p) ==
    /\ pc[c] = "mirror"
    /\ p \in unsent[c]
    /\ unsent' = [unsent EXCEPT ![c] = @ \ {p}]
    /\ hi' = IF job[c].prioritise /\ Len(hi[p]) < QueueCap
             THEN [hi EXCEPT ![p] = Append(@, c)] ELSE hi
    /\ lo' = IF ~job[c].prioritise /\ Len(lo[p]) < QueueCap
             THEN [lo EXCEPT ![p] = Append(@, c)] ELSE lo
    /\ UNCHANGED <<pc, job, wg, res, usePriorityQueue, loop, cur, inversions>>

(* Seeded fault: the handler returns without waiting for its job.           *)
RespondWithoutWait(c) ==
    /\ pc[c] = "mirror"
    /\ unsent[c] = {}
    /\ pc' = [pc EXCEPT ![c] = "idle"]
    /\ job' = [job EXCEPT ![c] = IdleJob]
    /\ res' = [res EXCEPT ![c] = "released"]
    /\ UNCHANGED <<unsent, wg, loopVars>>

(* wg.Wait() returns: the response is copied to the client, and the job's   *)
(* request and response objects go back to fasthttp's pools.                *)
Respond(c) ==
    /\ pc[c] = "mirror"
    /\ unsent[c] = {}
    /\ wg[c] = 0
    /\ pc' = [pc EXCEPT ![c] = "idle"]
    /\ job' = [job EXCEPT ![c] = IdleJob]
    /\ res' = [res EXCEPT ![c] = "released"]
    /\ UNCHANGED <<unsent, wg, loopVars>>

-----------------------------------------------------------------------------

(* The default branch of the outer select of a loop with priority queue.    *)
FallThrough(l) ==
    /\ loop[l] = "poll"
    /\ hi[l] = <<>>
    /\ loop' = [loop EXCEPT ![l] = "select"]
    /\ UNCHANGED <<handlerVars, usePriorityQueue, hi, lo, cur, inversions>>

(* Receiving from the Hi channel, in the outer or in the inner select.      *)
TakeHi(l) ==
    /\ loop[l] \in {"poll", "select"}
    /\ hi[l] /= <<>>
    /\ hi' = [hi EXCEPT ![l] = Tail(@)]
    /\ cur' = [cur EXCEPT ![l] = Head(hi[l])]
    /\ loop' = [loop EXCEPT ![l] = "exec"]
    /\ inversions' = [inversions EXCEPT ![l] = 0]
    /\ UNCHANGED <<handlerVars, usePriorityQueue, lo>>

(* Receiving from the Lo channel: only the inner select does, and a select  *)
(* with both channels ready takes either.                                   *)
TakeLo(l) ==
    /\ loop[l] = "select"
    /\ lo[l] /= <<>>
    /\ lo' = [lo EXCEPT ![l] = Tail(@)]
    /\ cur' = [cur EXCEPT ![l] = Head(lo[l])]
    /\ loop' = [loop EXCEPT ![l] = "exec"]
    /\ inversions' = [inversions EXCEPT ![l] =
                        IF hi[l] = <<>> \/ ~usePriorityQueue THEN 0
                        ELSE IF @ < 2 THEN @ + 1 ELSE 2]
    /\ UNCHANGED <<handlerVars, usePriorityQueue, hi>>

(* Seeded fault: the loop polls the Hi channel only before its first job.   *)
NextIterationNoPoll == "select"

NextIteration == IF usePriorityQueue THEN "poll" ELSE "select"

(* Seeded fault: a failed backend call leaves the response untouched.       *)
ExecProxyJobIgnoreError ==
    /\ loop[Backend] = "exec"
    /\ LET c == cur[Backend] IN
       \E result \in CallResults(job[c].exec, res[c]) :
          res' = IF result = "error" THEN res ELSE [res EXCEPT ![c] = result]
    /\ loop' = [loop EXCEPT ![Backend] = "report"]
    /\ UNCHANGED <<pc, job, unsent, wg, usePriorityQueue, hi, lo, cur, inversions>>

(* Seeded fault: the path of a failed call wakes the handler by itself, and *)
(* the deferred call does so again.                                         *)
ExecProxyJobDoneTwice ==
    /\ loop[Backend] = "exec"
    /\ LET c == cur[Backend] IN
       \E result \in CallResults(job[c].exec, res[c]) :
          /\ res' = [res EXCEPT ![c] = result]
          /\ wg' = IF result = "error" THEN [wg EXCEPT ![c] = @ - 1] ELSE wg
    /\ loop' = [loop EXCEPT ![Backend] = "report"]
    /\ UNCHANGED <<pc, job, unsent, usePriorityQueue, hi, lo, cur, inversions>>

(* execProxyJob up to its deferred call: the response object is filled.     *)
ExecProxyJob ==
    /\ loop[Backend] = "exec"
    /\ LET c == cur[Backend] IN
       \E result \in CallResults(job[c].exec, res[c]) :
          res' = [res EXCEPT ![c] = result]
    /\ loop' = [loop EXCEPT ![Backend] = "report"]
    /\ UNCHANGED <<pc, job, unsent, wg, usePriorityQueue, hi, lo, cur, inversions>>

(* After the (chaos) latency, logs and metrics: the deferred wg.Done().     *)
Done ==
    /\ loop[Backend] = "report"
    /\ wg' = [wg EXCEPT ![cur[Backend]] = @ - 1]
    /\ cur' = [cur EXCEPT ![Backend] = NoConn]
    /\ loop' = [loop EXCEPT ![Backend] = NextIteration]
    /\ UNCHANGED <<pc, job, unsent, res, usePriorityQueue, hi, lo, inversions>>

(* execMirrorJob: whatever the peer answers is logged and discarded.        *)
ExecMirrorJob(p) ==
    /\ loop[p] = "exec"
    /\ cur' = [cur EXCEPT ![p] = NoConn]
    /\ loop' = [loop EXCEPT ![p] = NextIteration]
    /\ UNCHANGED <<handlerVars, usePriorityQueue, hi, lo, inversions>>

-----------------------------------------------------------------------------

HandlerStep(c) == Enqueue(c) \/ (\E p \in Peers : MirrorTo(c, p)) \/ Respond(c)

LoopStep(l) == FallThrough(l) \/ TakeHi(l) \/ TakeLo(l)

BackendStep == LoopStep(Backend) \/ ExecProxyJob \/ Done

Next ==
    \/ \E c \in Conns : Receive(c) \/ HandlerStep(c)
    \/ \E l \in Loops : LoopStep(l)
    \/ ExecProxyJob
    \/ Done
    \/ \E p \in Peers : ExecMirrorJob(p)

Spec == Init /\ [][Next]_vars

(***************************************************************************)
(* Fairness.  Clients need not send requests and peers need not answer: no  *)
(* fairness for Receive or for any step of a peer's loop.  Goroutines that  *)
(* can run do run; the backend call ends because SetTimeout bounds it.  A   *)
(* goroutine blocked on a channel send is queued first-in first-out by the  *)
(* Go runtime, so a send that is possible again and again happens (SF).  A  *)
(* select with several ready cases picks one pseudo-randomly, so neither is *)
(* passed over forever (SF).                                                *)
(***************************************************************************)
FairSpec ==
    /\ Spec
    /\ \A c \in Conns : SF_vars(HandlerStep(c))
    /\ WF_vars(BackendStep)
    /\ SF_vars(TakeHi(Backend)) /\ SF_vars(TakeLo(Backend))

-----------------------------------------------------------------------------

(* Every variable has its type; the channels respect their capacity, and    *)
(* no WaitGroup is counted below zero, on which the Go runtime panics.      *)
TypeOK ==
    /\ usePriorityQueue \in BOOLEAN
    /\ pc \in [Conns -> {"idle", "enqueue", "mirror"}]
    /\ job \in [Conns -> Jobs]
    /\ unsent \in [Conns -> SUBSET Peers]
    /\ wg \in [Conns -> 0 .. 1]
    /\ res \in [Conns -> Responses]
    /\ hi \in [Loops -> Seq(Conns)]
    /\ lo \in [Loops -> Seq(Conns)]
    /\ loop \in [Loops -> {"poll", "select", "exec", "report"}]
    /\ cur \in [Loops -> Conns \cup {NoConn}]
    /\ inversions \in [Loops -> 0 .. 2]
    /\ \A l \in Loops : Len(hi[l]) <= QueueCap /\ Len(lo[l]) <= QueueCap

InHand(c) == loop[Backend] \in {"exec", "report"} /\ cur[Backend] = c

InQueue(c) == Contains(hi[Backend], c) \/ Contains(lo[Backend], c)

(* A proxy job is in exactly one place: while its handler is past the       *)
(* channel send and the WaitGroup is up, it is either in the channel of its *)
(* priority or in the hands of the job loop, once; and when it is nowhere,  *)
(* nothing can still write to the response object the handler releases.     *)
JobConservation ==
    /\ IsInjective(hi[Backend]) /\ IsInjective(lo[Backend])
    /\ \A c \in Conns :
         /\ Contains(hi[Backend], c) => job[c].prioritise
         /\ Contains(lo[Backend], c) => ~job[c].prioritise
         /\ InHand(c) => ~InQueue(c)
         /\ pc[c] = "mirror" /\ wg[c] = 1 <=> InQueue(c) \/ InHand(c)
         /\ pc[c] = "enqueue" => wg[c] = 1
         /\ pc[c] = "idle" => wg[c] = 0

Answers(exec) ==
    [backend |-> {"backend", "error"}, fake |-> {"faked"}, chaos |-> {"chaos"}][exec]

(* A handler answers its client only with a response that was completed:    *)
(* what the job's function (backend, fake or chaos) produces, never the     *)
(* empty response object, and never another request's.                      *)
AnswersAreComplete ==
    [][\A c \in Conns : pc[c] = "mirror" /\ pc'[c] = "idle"
                            => res[c] \in Answers(job[c].exec)]_vars

(* With the priority queue, a loop never takes two Lo jobs in a row while a *)
(* Hi job is waiting: the select that races with the arrival of a Hi job    *)
(* may lose it once, the poll at the next iteration cannot.                 *)
PriorityInversionBounded ==
    usePriorityQueue => \A l \in Loops : inversions[l] <= 1

(* A request is answered whatever the peers do (mirroring never blocks the  *)
(* hot path) and however many other requests there are; with the priority   *)
(* queue this is promised to the prioritised requests only, without it no   *)
(* class starves the other.                                                 *)
RequestsAnswered ==
    \A c \in Conns :
        pc[c] = "enqueue" /\ (usePriorityQueue => job[c].prioritise) ~> pc[c] = "idle"
=============================================================================
