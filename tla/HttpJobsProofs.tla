--------------------------- MODULE HttpJobsProofs ---------------------------
(***************************************************************************)
(* Proofs about HttpJobs, for any set of connections and peers, any channel *)
(* capacity, with and without the priority queue and chaos.                 *)
(***************************************************************************)
EXTENDS HttpJobs, TLAPS

(* Facts about the two sequence operators the model uses; the rest of the   *)
(* proofs never looks inside a channel.                                     *)

(* What Append adds to the contents of a channel.                           *)
LEMMA AppendFacts ==
    ASSUME NEW S, NEW q \in Seq(S), NEW c \in S
    PROVE  /\ Append(q, c) \in Seq(S)
           /\ Append(q, c) /= <<>>
           /\ Len(Append(q, c)) = Len(q) + 1
           /\ \A d : Contains(Append(q, c), d) <=> Contains(q, d) \/ d = c
           /\ IsInjective(q) /\ ~Contains(q, c) => IsInjective(Append(q, c))
<1>1. /\ Append(q, c) \in Seq(S)
      /\ Len(Append(q, c)) = Len(q) + 1
      /\ Len(q) \in Nat
  OBVIOUS
<1>2. /\ \A i \in 1 .. Len(q) : Append(q, c)[i] = q[i]
      /\ Append(q, c)[Len(q) + 1] = c
      /\ DOMAIN q = 1 .. Len(q)
      /\ DOMAIN Append(q, c) = 1 .. Len(q) + 1
  OBVIOUS
<1>3. \A d : Contains(Append(q, c), d) <=> Contains(q, d) \/ d = c
  BY <1>1, <1>2 DEF Contains
<1>4. IsInjective(q) /\ ~Contains(q, c) => IsInjective(Append(q, c))
  BY <1>1, <1>2 DEF Contains, IsInjective
<1>5. Append(q, c) /= <<>>
  <2>1. Len(<<>>) = 0
    OBVIOUS
  <2> QED BY <1>1, <2>1
<1> QED BY <1>1, <1>3, <1>4, <1>5

(* What receiving from a channel (Head, Tail) removes from its contents.    *)
LEMMA TailFacts ==
    ASSUME NEW S, NEW q \in Seq(S), q /= <<>>
    PROVE  /\ Tail(q) \in Seq(S)
           /\ Head(q) \in S
           /\ Len(Tail(q)) < Len(q)
           /\ Contains(q, Head(q))
           /\ \A d : Contains(Tail(q), d) => Contains(q, d)
           /\ \A d : Contains(q, d) => Contains(Tail(q), d) \/ d = Head(q)
           /\ IsInjective(q) => IsInjective(Tail(q)) /\ ~Contains(Tail(q), Head(q))
<1>1. /\ Tail(q) \in Seq(S)
      /\ Head(q) \in S
      /\ Len(q) \in Nat
      /\ Len(q) >= 1
      /\ Len(Tail(q)) = Len(q) - 1
      /\ Head(q) = q[1]
      /\ DOMAIN q = 1 .. Len(q)
      /\ DOMAIN Tail(q) = 1 .. Len(q) - 1
  OBVIOUS
<1>2. \A i \in 1 .. Len(q) - 1 : Tail(q)[i] = q[i + 1]
  OBVIOUS
<1>3. Contains(q, Head(q))
  BY <1>1 DEF Contains
<1>4. \A d : Contains(Tail(q), d) => Contains(q, d)
  BY <1>1, <1>2 DEF Contains
<1>5. ASSUME NEW d, Contains(q, d), d /= Head(q) PROVE Contains(Tail(q), d)
  <2>1. PICK i \in 1 .. Len(q) : q[i] = d
    BY <1>5 DEF Contains
  <2>2. i - 1 \in 1 .. Len(q) - 1 /\ Tail(q)[i - 1] = d
    BY <1>1, <1>2, <1>5, <2>1
  <2> QED BY <1>1, <2>2 DEF Contains
<1>6. IsInjective(q) => IsInjective(Tail(q))
  BY <1>1, <1>2 DEF IsInjective
<1>7. IsInjective(q) => ~Contains(Tail(q), Head(q))
  BY <1>1, <1>2 DEF IsInjective, Contains
<1> QED BY <1>1, <1>3, <1>4, <1>5, <1>6, <1>7

-----------------------------------------------------------------------------
(***************************************************************************)
(* The inductive invariant.  TypeOK alone is not inductive: the WaitGroup   *)
(* counter stays in 0..1 only because a job in the hands of the loop has    *)
(* its counter up, which is what JobConservation says.                      *)
(***************************************************************************)

HandInv == loop[Backend] \in {"exec", "report"} => cur[Backend] \in Conns

(* Why the answer is complete when the WaitGroup is down: the loop writes   *)
(* it before it reports, and a fake finds it written by triage.             *)
AnswerInv ==
    \A c \in Conns :
        /\ pc[c] /= "idle" /\ job[c].exec = "fake" => res[c] = "faked"
        /\ pc[c] = "mirror" /\ wg[c] = 0 => res[c] \in Answers(job[c].exec)
        /\ loop[Backend] = "report" /\ cur[Backend] = c
              => res[c] \in Answers(job[c].exec)

(* Why at most one inversion happens: after it the Hi channel stays         *)
(* non-empty until it is taken from, so the poll cannot fall through.       *)
PriorityInv ==
    usePriorityQueue =>
        \A l \in Loops : /\ inversions[l] <= 1
                         /\ loop[l] = "select" => inversions[l] = 0
                         /\ inversions[l] = 1 => hi[l] /= <<>>

IInv == TypeOK /\ HandInv /\ JobConservation /\ AnswerInv /\ PriorityInv

USE QueueCapAssumption, BackendAssumption, ChaosAssumption, NoConnAssumption

(* newProxyJob yields a job.                                                *)
LEMMA newProxyJobType ==
    ASSUME NEW triage \in Triages, NEW chaos \in BOOLEAN
    PROVE  /\ newProxyJob(triage, chaos) \in Jobs
           /\ triage.proxy \in BOOLEAN
           /\ newProxyJob(triage, chaos).exec = "fake" => ~triage.proxy
<1>1. triage \in [proxy : BOOLEAN, prioritise : BOOLEAN, mirror : BOOLEAN]
  BY DEF Triages
<1>2. (IF chaos THEN "chaos" ELSE IF triage.proxy THEN "backend" ELSE "fake") \in Execs
  BY DEF Execs
<1>3. newProxyJob(triage, chaos) \in Jobs
  BY <1>1, <1>2 DEF newProxyJob, Jobs
<1>4. newProxyJob(triage, chaos).exec = "fake" => ~triage.proxy
  BY <1>1 DEF newProxyJob
<1> QED BY <1>1, <1>3, <1>4

(* The initial state satisfies the invariant.                               *)
LEMMA InitIInv == Init => IInv
<1> SUFFICES ASSUME Init PROVE IInv
  OBVIOUS
<1>1. TypeOK
  BY DEF Init, TypeOK, Loops, IdleJob, Jobs, Execs, Responses
<1>2. JobConservation
  BY DEF Init, JobConservation, Loops, InHand, InQueue, Contains, IsInjective
<1>3. HandInv /\ AnswerInv /\ PriorityInv
  BY DEF Init, HandInv, AnswerInv, PriorityInv, Loops
<1> QED BY <1>1, <1>2, <1>3 DEF IInv

(* Every step preserves the types and the capacity of the channels.         *)
LEMMA TypeStep == IInv /\ [Next]_vars => TypeOK'
<1> SUFFICES ASSUME IInv, [Next]_vars PROVE TypeOK'
  OBVIOUS
<1> USE DEF IInv, TypeOK
<1> Backend \in Loops /\ Peers \subseteq Loops
  BY DEF Loops
<1>1. ASSUME NEW c \in Conns, Receive(c) PROVE TypeOK'
  <2>1. PICK triage \in Triages, extra \in BOOLEAN, chaos \in {FALSE, ChaosEnabled} :
          /\ job' = [job EXCEPT ![c] = newProxyJob(triage, chaos)]
          /\ unsent' = [unsent EXCEPT ![c] =
                          IF Mirrored(triage, extra, chaos) THEN Peers ELSE {}]
          /\ res' = [res EXCEPT ![c] = IF triage.proxy THEN "empty" ELSE "faked"]
    BY <1>1 DEF Receive
  <2>2. newProxyJob(triage, chaos) \in Jobs
    BY newProxyJobType
  <2> QED BY <1>1, <2>1, <2>2 DEF Receive, loopVars, Responses
<1>2. ASSUME NEW c \in Conns, Enqueue(c) PROVE TypeOK'
  <2> DEFINE H == Append(hi[Backend], c)
             L == Append(lo[Backend], c)
  <2>1. /\ H \in Seq(Conns) /\ Len(H) = Len(hi[Backend]) + 1
        /\ L \in Seq(Conns) /\ Len(L) = Len(lo[Backend]) + 1
        /\ Len(hi[Backend]) \in Nat /\ Len(lo[Backend]) \in Nat
    BY AppendFacts
  <2> HIDE DEF H, L
  <2>2. \/ hi' = [hi EXCEPT ![Backend] = H] /\ lo' = lo /\ Len(hi[Backend]) < QueueCap
        \/ lo' = [lo EXCEPT ![Backend] = L] /\ hi' = hi /\ Len(lo[Backend]) < QueueCap
    BY <1>2 DEF Enqueue, H, L
  <2>3. /\ hi' \in [Loops -> Seq(Conns)] /\ lo' \in [Loops -> Seq(Conns)]
        /\ \A l \in Loops : Len(hi'[l]) <= QueueCap /\ Len(lo'[l]) <= QueueCap
    <3>1. CASE hi' = [hi EXCEPT ![Backend] = H] /\ lo' = lo /\ Len(hi[Backend]) < QueueCap
      BY <2>1, <3>1
    <3>2. CASE lo' = [lo EXCEPT ![Backend] = L] /\ hi' = hi /\ Len(lo[Backend]) < QueueCap
      BY <2>1, <3>2
    <3> QED BY <2>2, <3>1, <3>2
  <2> QED BY <1>2, <2>3 DEF Enqueue
<1>3. ASSUME NEW c \in Conns, NEW p \in Peers, MirrorTo(c, p) PROVE TypeOK'
  BY <1>3, AppendFacts DEF MirrorTo
<1>4. ASSUME NEW c \in Conns, Respond(c) PROVE TypeOK'
  BY <1>4 DEF Respond, loopVars, IdleJob, Jobs, Execs, Responses
<1>5. ASSUME NEW l \in Loops, FallThrough(l) PROVE TypeOK'
  BY <1>5 DEF FallThrough, handlerVars
<1>6. ASSUME NEW l \in Loops, TakeHi(l) PROVE TypeOK'
  BY <1>6, TailFacts DEF TakeHi, handlerVars
<1>7. ASSUME NEW l \in Loops, TakeLo(l) PROVE TypeOK'
  <2>1. inversions' \in [Loops -> 0 .. 2]
    <3> DEFINE n == IF inversions[l] < 2 THEN inversions[l] + 1 ELSE 2
    <3>1. n \in 0 .. 2
      <4>1. inversions[l] \in 0 .. 2
        OBVIOUS
      <4> QED BY <4>1
    <3>2. CASE hi[l] = <<>> \/ ~usePriorityQueue
      <4>1. inversions' = [inversions EXCEPT ![l] = 0]
        BY <1>7, <3>2 DEF TakeLo
      <4> QED BY <4>1
    <3>3. CASE ~(hi[l] = <<>> \/ ~usePriorityQueue)
      <4>1. inversions' = [inversions EXCEPT ![l] = n]
        BY <1>7, <3>3 DEF TakeLo
      <4> QED BY <3>1, <4>1
    <3> QED BY <3>2, <3>3
  <2> QED BY <1>7, <2>1, TailFacts DEF TakeLo, handlerVars
<1>8. ASSUME ExecProxyJob PROVE TypeOK'
  BY <1>8 DEF ExecProxyJob, HandInv, CallResults, Responses, Jobs, Execs
<1>9. ASSUME Done PROVE TypeOK'
  <2>1. cur[Backend] \in Conns /\ wg[cur[Backend]] = 1
    BY <1>9 DEF Done, HandInv, JobConservation, InHand
  <2> QED BY <1>9, <2>1 DEF Done, NextIteration
<1>10. ASSUME NEW p \in Peers, ExecMirrorJob(p) PROVE TypeOK'
  BY <1>10 DEF ExecMirrorJob, handlerVars, NextIteration
<1>11. ASSUME UNCHANGED vars PROVE TypeOK'
  BY <1>11 DEF vars, handlerVars, loopVars
<1> QED BY <1>1, <1>2, <1>3, <1>4, <1>5, <1>6, <1>7, <1>8, <1>9, <1>10, <1>11
        DEF Next, HandlerStep, LoopStep

(* A loop that executes holds a job.                                        *)
LEMMA HandStep == IInv /\ [Next]_vars => HandInv'
<1> SUFFICES ASSUME IInv, [Next]_vars PROVE HandInv'
  OBVIOUS
<1> USE DEF IInv, TypeOK, HandInv
<1> Backend \in Loops /\ Peers \subseteq Loops
  BY DEF Loops
<1>1. ASSUME NEW c \in Conns, Receive(c) \/ HandlerStep(c) PROVE HandInv'
  BY <1>1 DEF Receive, HandlerStep, Enqueue, MirrorTo, Respond, loopVars
<1>2. ASSUME NEW l \in Loops, LoopStep(l) PROVE HandInv'
  BY <1>2, TailFacts DEF LoopStep, FallThrough, TakeHi, TakeLo
<1>3. ASSUME ExecProxyJob \/ Done PROVE HandInv'
  BY <1>3 DEF ExecProxyJob, Done, NextIteration
<1>4. ASSUME NEW p \in Peers, ExecMirrorJob(p) PROVE HandInv'
  BY <1>4 DEF ExecMirrorJob
<1>5. ASSUME UNCHANGED vars PROVE HandInv'
  BY <1>5 DEF vars, loopVars
<1> QED BY <1>1, <1>2, <1>3, <1>4, <1>5 DEF Next

(* Every step preserves conservation: a job moves from the handler to its   *)
(* channel, to the hands of the loop and, by Done, out of the pipeline.     *)
LEMMA ConservationStep == IInv /\ [Next]_vars => JobConservation'
<1> SUFFICES ASSUME IInv, [Next]_vars PROVE JobConservation'
  OBVIOUS
<1> USE DEF IInv
<1> Backend \in Loops /\ Peers \subseteq Loops /\ Backend \notin Peers
  BY DEF Loops
<1> hi[Backend] \in Seq(Conns) /\ lo[Backend] \in Seq(Conns)
  BY DEF TypeOK
<1>1. ASSUME NEW c \in Conns, Receive(c) PROVE JobConservation'
  <2>1. UNCHANGED <<hi, lo, loop, cur>>
    BY <1>1 DEF Receive, loopVars
  <2>2. \A d \in Conns : d /= c => pc'[d] = pc[d] /\ wg'[d] = wg[d] /\ job'[d] = job[d]
    BY <1>1 DEF Receive, TypeOK
  <2>3. pc[c] = "idle" /\ pc'[c] = "enqueue" /\ wg'[c] = 1
    BY <1>1 DEF Receive, TypeOK
  <2>4. ~InQueue(c) /\ ~InHand(c)
    BY <2>3 DEF JobConservation
  <2> QED BY <2>1, <2>2, <2>3, <2>4 DEF JobConservation, InQueue, InHand
<1>2. ASSUME NEW c \in Conns, Enqueue(c) PROVE JobConservation'
  <2>1. UNCHANGED <<job, wg, loop, cur>> /\ pc' = [pc EXCEPT ![c] = "mirror"] /\ pc[c] = "enqueue"
    BY <1>2 DEF Enqueue
  <2>2. ~Contains(hi[Backend], c) /\ ~Contains(lo[Backend], c) /\ ~InHand(c) /\ wg[c] = 1
    BY <2>1 DEF JobConservation, InQueue
  <2>3. CASE /\ job[c].prioritise /\ lo' = lo
             /\ hi' = [hi EXCEPT ![Backend] = Append(@, c)]
    <3>1. hi'[Backend] = Append(hi[Backend], c) /\ lo'[Backend] = lo[Backend]
      BY <2>3 DEF TypeOK
    <3>2. /\ IsInjective(hi'[Backend])
          /\ \A d : Contains(hi'[Backend], d) <=> Contains(hi[Backend], d) \/ d = c
      BY <2>2, <3>1, AppendFacts DEF JobConservation
    <3> QED BY <2>1, <2>2, <2>3, <3>1, <3>2 DEF JobConservation, InQueue, InHand, TypeOK
  <2>4. CASE /\ ~job[c].prioritise /\ hi' = hi
             /\ lo' = [lo EXCEPT ![Backend] = Append(@, c)]
    <3>1. lo'[Backend] = Append(lo[Backend], c) /\ hi'[Backend] = hi[Backend]
      BY <2>4 DEF TypeOK
    <3>2. /\ IsInjective(lo'[Backend])
          /\ \A d : Contains(lo'[Backend], d) <=> Contains(lo[Backend], d) \/ d = c
      BY <2>2, <3>1, AppendFacts DEF JobConservation
    <3> QED BY <2>1, <2>2, <2>4, <3>1, <3>2 DEF JobConservation, InQueue, InHand, TypeOK
  <2> QED BY <1>2, <2>3, <2>4 DEF Enqueue
<1>3. ASSUME NEW c \in Conns, NEW p \in Peers, MirrorTo(c, p) PROVE JobConservation'
  <2>1. hi'[Backend] = hi[Backend] /\ lo'[Backend] = lo[Backend]
    BY <1>3 DEF MirrorTo, TypeOK
  <2> QED BY <1>3, <2>1 DEF MirrorTo, JobConservation, InQueue, InHand
<1>4. ASSUME NEW c \in Conns, Respond(c) PROVE JobConservation'
  <2>1. UNCHANGED <<hi, lo, loop, cur, wg>>
    BY <1>4 DEF Respond, loopVars
  <2>2. \A d \in Conns : d /= c => pc'[d] = pc[d] /\ job'[d] = job[d]
    BY <1>4 DEF Respond, TypeOK
  <2>3. pc'[c] = "idle" /\ wg[c] = 0
    BY <1>4 DEF Respond, TypeOK
  <2>4. ~InQueue(c) /\ ~InHand(c)
    BY <2>3 DEF JobConservation
  <2> QED BY <2>1, <2>2, <2>3, <2>4 DEF JobConservation, InQueue, InHand
<1>5. ASSUME NEW l \in Loops, FallThrough(l) PROVE JobConservation'
  <2>1. \A c : InHand(c)' <=> InHand(c)
    BY <1>5 DEF FallThrough, InHand, TypeOK
  <2> QED BY <1>5, <2>1 DEF FallThrough, handlerVars, JobConservation, InQueue
<1>6. ASSUME NEW l \in Loops, TakeHi(l) PROVE JobConservation'
  <2>1. CASE l = Backend
    <3>1. UNCHANGED <<pc, job, wg, lo>> /\ hi[Backend] /= <<>>
      BY <1>6, <2>1 DEF TakeHi, handlerVars
    <3>2. /\ hi'[Backend] = Tail(hi[Backend])
          /\ \A c : InHand(c)' <=> c = Head(hi[Backend])
          /\ \A c : ~InHand(c)
      BY <1>6, <2>1 DEF TakeHi, TypeOK, InHand
    <3>3. ~Contains(lo[Backend], Head(hi[Backend]))
      BY <3>1, TailFacts DEF JobConservation
    <3> QED BY <3>1, <3>2, <3>3, TailFacts DEF JobConservation, InQueue
  <2>2. CASE l /= Backend
    <3>1. hi'[Backend] = hi[Backend] /\ \A c : InHand(c)' <=> InHand(c)
      BY <1>6, <2>2 DEF TakeHi, TypeOK, InHand
    <3> QED BY <1>6, <3>1 DEF TakeHi, handlerVars, JobConservation, InQueue
  <2> QED BY <2>1, <2>2
<1>7. ASSUME NEW l \in Loops, TakeLo(l) PROVE JobConservation'
  <2>1. CASE l = Backend
    <3>1. UNCHANGED <<pc, job, wg, hi>> /\ lo[Backend] /= <<>>
      BY <1>7, <2>1 DEF TakeLo, handlerVars
    <3>2. /\ lo'[Backend] = Tail(lo[Backend])
          /\ \A c : InHand(c)' <=> c = Head(lo[Backend])
          /\ \A c : ~InHand(c)
      BY <1>7, <2>1 DEF TakeLo, TypeOK, InHand
    <3>3. ~Contains(hi[Backend], Head(lo[Backend]))
      BY <3>1, TailFacts DEF JobConservation
    <3> QED BY <3>1, <3>2, <3>3, TailFacts DEF JobConservation, InQueue
  <2>2. CASE l /= Backend
    <3>1. lo'[Backend] = lo[Backend] /\ \A c : InHand(c)' <=> InHand(c)
      BY <1>7, <2>2 DEF TakeLo, TypeOK, InHand
    <3> QED BY <1>7, <3>1 DEF TakeLo, handlerVars, JobConservation, InQueue
  <2> QED BY <2>1, <2>2
<1>8. ASSUME ExecProxyJob PROVE JobConservation'
  <2>1. \A c : InHand(c)' <=> InHand(c)
    BY <1>8 DEF ExecProxyJob, InHand, TypeOK
  <2> QED BY <1>8, <2>1 DEF ExecProxyJob, JobConservation, InQueue
<1>9. ASSUME Done PROVE JobConservation'
  <2>1. PICK c \in Conns : c = cur[Backend] /\ InHand(c)
    BY <1>9 DEF Done, HandInv, InHand
  <2>2. UNCHANGED <<pc, job, hi, lo>> /\ wg' = [wg EXCEPT ![c] = @ - 1]
    BY <1>9, <2>1 DEF Done
  <2>3. (\A d \in Conns : InHand(d) => d = c) /\ \A d \in Conns : ~InHand(d)'
    BY <1>9, <2>1 DEF Done, InHand, TypeOK
  <2>4. pc[c] = "mirror" /\ wg[c] = 1 /\ wg'[c] = 0 /\ \A d \in Conns : d /= c => wg'[d] = wg[d]
    BY <2>1, <2>2 DEF JobConservation, TypeOK
  <2> QED BY <2>1, <2>2, <2>3, <2>4 DEF JobConservation, InQueue
<1>10. ASSUME NEW p \in Peers, ExecMirrorJob(p) PROVE JobConservation'
  <2>1. \A c : InHand(c)' <=> InHand(c)
    BY <1>10 DEF ExecMirrorJob, InHand, TypeOK
  <2> QED BY <1>10, <2>1 DEF ExecMirrorJob, handlerVars, JobConservation, InQueue
<1>11. ASSUME UNCHANGED vars PROVE JobConservation'
  BY <1>11 DEF vars, handlerVars, loopVars, JobConservation, InQueue, InHand
<1> QED BY <1>1, <1>2, <1>3, <1>4, <1>5, <1>6, <1>7, <1>8, <1>9, <1>10, <1>11
        DEF Next, HandlerStep, LoopStep

(* Every step preserves what makes an answer complete.                      *)
LEMMA AnswerStep == IInv /\ [Next]_vars => AnswerInv'
<1> SUFFICES ASSUME IInv, [Next]_vars PROVE AnswerInv'
  OBVIOUS
<1> USE DEF IInv
<1> Backend \in Loops /\ Peers \subseteq Loops /\ Backend \notin Peers
  BY DEF Loops
<1>1. ASSUME NEW c \in Conns, Receive(c) PROVE AnswerInv'
  <2>1. PICK triage \in Triages, extra \in BOOLEAN, chaos \in {FALSE, ChaosEnabled} :
          /\ job' = [job EXCEPT ![c] = newProxyJob(triage, chaos)]
          /\ res' = [res EXCEPT ![c] = IF triage.proxy THEN "empty" ELSE "faked"]
    BY <1>1 DEF Receive
  <2>2. job'[c].exec = "fake" => res'[c] = "faked"
    BY <2>1, newProxyJobType DEF TypeOK
  <2>3. /\ \A d \in Conns : d /= c =>
               pc'[d] = pc[d] /\ wg'[d] = wg[d] /\ job'[d] = job[d] /\ res'[d] = res[d]
        /\ pc[c] = "idle" /\ pc'[c] = "enqueue" /\ UNCHANGED <<loop, cur>>
    BY <1>1, <2>1 DEF Receive, TypeOK, loopVars
  <2>4. ~InHand(c)
    BY <2>3 DEF JobConservation
  <2> QED BY <2>2, <2>3, <2>4 DEF AnswerInv, InHand
<1>2. ASSUME NEW c \in Conns, Enqueue(c) PROVE AnswerInv'
  <2>1. wg[c] = 1
    BY <1>2 DEF Enqueue, JobConservation
  <2> QED BY <1>2, <2>1 DEF Enqueue, AnswerInv, TypeOK
<1>3. ASSUME NEW c \in Conns, NEW p \in Peers, MirrorTo(c, p) PROVE AnswerInv'
  BY <1>3 DEF MirrorTo, AnswerInv
<1>4. ASSUME NEW c \in Conns, Respond(c) PROVE AnswerInv'
  <2>1. /\ \A d \in Conns : d /= c =>
               pc'[d] = pc[d] /\ wg'[d] = wg[d] /\ job'[d] = job[d] /\ res'[d] = res[d]
        /\ pc'[c] = "idle" /\ wg[c] = 0 /\ UNCHANGED <<loop, cur>>
    BY <1>4 DEF Respond, TypeOK, loopVars
  <2>2. ~InHand(c)
    BY <2>1 DEF JobConservation
  <2> QED BY <2>1, <2>2 DEF AnswerInv, InHand
<1>5. ASSUME NEW l \in Loops, LoopStep(l) PROVE AnswerInv'
  <2>1. UNCHANGED <<pc, job, wg, res>>
    BY <1>5 DEF LoopStep, FallThrough, TakeHi, TakeLo, handlerVars
  <2>2. loop'[Backend] = "report" => loop[Backend] = "report" /\ cur'[Backend] = cur[Backend]
    BY <1>5 DEF LoopStep, FallThrough, TakeHi, TakeLo, TypeOK
  <2> QED BY <2>1, <2>2 DEF AnswerInv
<1>6. ASSUME ExecProxyJob PROVE AnswerInv'
  <2>1. PICK c \in Conns : c = cur[Backend] /\ InHand(c)
    BY <1>6 DEF ExecProxyJob, HandInv, InHand
  <2>2. PICK result \in CallResults(job[c].exec, res[c]) : res' = [res EXCEPT ![c] = result]
    BY <1>6, <2>1 DEF ExecProxyJob
  <2>3. pc[c] = "mirror" /\ wg[c] = 1
    BY <2>1 DEF JobConservation
  <2>4. job[c].exec \in Execs
    BY DEF TypeOK, Jobs
  <2>5. result \in Answers(job[c].exec) /\ (job[c].exec = "fake" => result = "faked")
    BY <2>2, <2>3, <2>4 DEF AnswerInv, Answers, CallResults, Execs
  <2>6. res'[c] = result /\ \A d \in Conns : d /= c => res'[d] = res[d]
    BY <2>2 DEF TypeOK
  <2> QED BY <1>6, <2>1, <2>5, <2>6 DEF ExecProxyJob, AnswerInv
<1>7. ASSUME Done PROVE AnswerInv'
  <2>1. PICK c \in Conns : c = cur[Backend] /\ loop[Backend] = "report"
    BY <1>7 DEF Done, HandInv
  <2>2. /\ \A d \in Conns : d /= c => wg'[d] = wg[d]
        /\ loop'[Backend] /= "report"
        /\ UNCHANGED <<pc, job, res>>
    BY <1>7, <2>1 DEF Done, NextIteration, TypeOK
  <2> QED BY <2>1, <2>2 DEF AnswerInv
<1>8. ASSUME NEW p \in Peers, ExecMirrorJob(p) PROVE AnswerInv'
  BY <1>8 DEF ExecMirrorJob, handlerVars, AnswerInv, TypeOK
<1>9. ASSUME UNCHANGED vars PROVE AnswerInv'
  BY <1>9 DEF vars, handlerVars, loopVars, AnswerInv
<1> QED BY <1>1, <1>2, <1>3, <1>4, <1>5, <1>6, <1>7, <1>8, <1>9 DEF Next, HandlerStep

(* No step changes the configuration.                                       *)
LEMMA ModeIsFixed == [Next]_vars => UNCHANGED usePriorityQueue
  BY DEF Next, HandlerStep, LoopStep, vars, loopVars, Receive, Enqueue, MirrorTo, Respond,
         FallThrough, TakeHi, TakeLo, ExecProxyJob, Done, ExecMirrorJob

(* Every step preserves the bound on priority inversion.                    *)
LEMMA PriorityStep == IInv /\ [Next]_vars => PriorityInv'
<1> SUFFICES ASSUME IInv, [Next]_vars, usePriorityQueue PROVE PriorityInv'
  BY ModeIsFixed DEF PriorityInv
<1> USE DEF IInv
<1> Backend \in Loops /\ Peers \subseteq Loops
  BY DEF Loops
<1> hi \in [Loops -> Seq(Conns)] /\ inversions \in [Loops -> 0 .. 2]
  BY DEF TypeOK
<1>0. ASSUME UNCHANGED <<loop, inversions>>,
             \A l \in Loops : hi[l] /= <<>> => hi'[l] /= <<>>
      PROVE  PriorityInv'
  BY <1>0 DEF PriorityInv
<1>1. ASSUME NEW c \in Conns, Receive(c) \/ Respond(c) PROVE PriorityInv'
  BY <1>0, <1>1 DEF Receive, Respond, loopVars
<1>2. ASSUME NEW c \in Conns, Enqueue(c) PROVE PriorityInv'
  <2>1. \A l \in Loops : hi[l] /= <<>> => hi'[l] /= <<>>
    BY <1>2, AppendFacts DEF Enqueue
  <2> QED BY <1>0, <1>2, <2>1 DEF Enqueue
<1>3. ASSUME NEW c \in Conns, NEW p \in Peers, MirrorTo(c, p) PROVE PriorityInv'
  <2>1. \A l \in Loops : hi[l] /= <<>> => hi'[l] /= <<>>
    <3>1. hi' = hi \/ hi' = [hi EXCEPT ![p] = Append(@, c)]
      BY <1>3 DEF MirrorTo
    <3>2. Append(hi[p], c) /= <<>>
      BY AppendFacts
    <3> QED BY <3>1, <3>2
  <2> QED BY <1>0, <1>3, <2>1 DEF MirrorTo
<1>4. ASSUME NEW l \in Loops, FallThrough(l) PROVE PriorityInv'
  <2>1. inversions[l] = 0
    BY <1>4 DEF FallThrough, PriorityInv
  <2> QED BY <1>4, <2>1 DEF FallThrough, PriorityInv, TypeOK
<1>5. ASSUME NEW l \in Loops, TakeHi(l) PROVE PriorityInv'
  BY <1>5 DEF TakeHi, PriorityInv, TypeOK
<1>6. ASSUME NEW l \in Loops, TakeLo(l) PROVE PriorityInv'
  <2>1. inversions[l] = 0 /\ UNCHANGED hi
    BY <1>6 DEF TakeLo, PriorityInv
  <2>2. \/ inversions' = [inversions EXCEPT ![l] = 0]
        \/ inversions' = [inversions EXCEPT ![l] = 1] /\ hi[l] /= <<>>
    <3>1. CASE hi[l] = <<>>
      BY <1>6, <3>1 DEF TakeLo
    <3>2. CASE hi[l] /= <<>>
      <4>1. inversions' = [inversions EXCEPT ![l] = inversions[l] + 1]
        BY <1>6, <2>1, <3>2 DEF TakeLo
      <4> QED BY <2>1, <3>2, <4>1
    <3> QED BY <3>1, <3>2
  <2>3. loop' = [loop EXCEPT ![l] = "exec"]
    BY <1>6 DEF TakeLo
  <2> QED BY <2>1, <2>2, <2>3 DEF PriorityInv, TypeOK
<1>7. ASSUME ExecProxyJob \/ Done PROVE PriorityInv'
  BY <1>7 DEF ExecProxyJob, Done, NextIteration, PriorityInv, TypeOK
<1>8. ASSUME NEW p \in Peers, ExecMirrorJob(p) PROVE PriorityInv'
  BY <1>8 DEF ExecMirrorJob, NextIteration, PriorityInv, TypeOK
<1>9. ASSUME UNCHANGED vars PROVE PriorityInv'
  BY <1>0, <1>9 DEF vars, loopVars
<1> QED BY <1>1, <1>2, <1>3, <1>4, <1>5, <1>6, <1>7, <1>8, <1>9
        DEF Next, HandlerStep, LoopStep

-----------------------------------------------------------------------------

(* The invariant holds in every reachable state.                            *)
THEOREM Invariance == Spec => []IInv
<1>1. IInv /\ [Next]_vars => IInv'
  BY TypeStep, HandStep, ConservationStep, AnswerStep, PriorityStep DEF IInv
<1> QED BY InitIInv, <1>1, PTL DEF Spec

(* The variables of the pipeline keep their types; no channel overflows and *)
(* no WaitGroup counter goes negative.                                      *)
THEOREM TypeCorrect == Spec => []TypeOK
<1>1. IInv => TypeOK
  BY DEF IInv
<1> QED BY Invariance, <1>1, PTL

(* No proxy job is lost, duplicated or executed after its handler returned. *)
THEOREM Conservation == Spec => []JobConservation
<1>1. IInv => JobConservation
  BY DEF IInv
<1> QED BY Invariance, <1>1, PTL

(* With the priority queue a waiting Hi job is overtaken at most once.      *)
THEOREM InversionBound == Spec => []PriorityInversionBounded
<1>1. IInv => PriorityInversionBounded
  BY DEF IInv, PriorityInv, PriorityInversionBounded
<1> QED BY Invariance, <1>1, PTL

(* No handler answers its client before its answer is complete.             *)
THEOREM CompleteAnswers == Spec => AnswersAreComplete
<1>1. IInv /\ [Next]_vars
        => [\A c \in Conns : pc[c] = "mirror" /\ pc'[c] = "idle"
                                 => res[c] \in Answers(job[c].exec)]_vars
  <2> SUFFICES ASSUME IInv, [Next]_vars,
                      NEW c \in Conns, pc[c] = "mirror", pc'[c] = "idle"
               PROVE  res[c] \in Answers(job[c].exec)
    OBVIOUS
  <2>1. wg[c] = 0
    <3> USE DEF IInv, TypeOK
    <3>1. ASSUME NEW d \in Conns, Receive(d) PROVE FALSE
      BY <3>1 DEF Receive
    <3>2. ASSUME NEW d \in Conns, HandlerStep(d) PROVE wg[c] = 0
      BY <3>2 DEF HandlerStep, Enqueue, MirrorTo, Respond
    <3>3. ASSUME NEW l \in Loops, LoopStep(l) PROVE FALSE
      BY <3>3 DEF LoopStep, FallThrough, TakeHi, TakeLo, handlerVars
    <3>4. ASSUME ExecProxyJob \/ Done PROVE FALSE
      BY <3>4 DEF ExecProxyJob, Done
    <3>5. ASSUME NEW p \in Peers, ExecMirrorJob(p) PROVE FALSE
      BY <3>5 DEF ExecMirrorJob, handlerVars
    <3>6. ASSUME UNCHANGED vars PROVE FALSE
      BY <3>6 DEF vars, handlerVars
    <3> QED BY <3>1, <3>2, <3>3, <3>4, <3>5, <3>6 DEF Next
  <2> QED BY <2>1 DEF IInv, AnswerInv
<1> QED BY Invariance, <1>1, PTL DEF Spec, AnswersAreComplete
=============================================================================
