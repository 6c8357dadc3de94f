-------------------------- MODULE MirroringProofs --------------------------
(***************************************************************************)
(* How often a peer leaves the client's head, for any heads and any         *)
(* capacity of its channels.                                                *)
(***************************************************************************)
EXTENDS Mirroring, Integers, TLAPS

USE QueueCapAssumption, NilAssumption

(* The peer's loop has a job exactly while it executes one.                 *)
HasJob == loop = "exec" <=> cur # Nil

Current == {want, NoHead}

(* What is under way that would take the peer off the client's head: the m  *)
(* first calls of Hi, the n first of Lo and the one being executed.  Every  *)
(* regression uses up one of them, and no new ones come until the client    *)
(* moves.                                                                   *)
Stale(m, n) ==
    /\ \A i \in m + 1 .. Len(hi) : hi[i] \in Current
    /\ \A i \in n + 1 .. Len(lo) : lo[i] \in Current
    /\ regressions + m + n + (IF cur \in Current \cup {Nil} THEN 0 ELSE 1) <= 2 * QueueCap + 1

StaleInv == \E m \in 0 .. Len(hi), n \in 0 .. Len(lo) : Stale(m, n)

Inv == TypeOK /\ HasJob /\ StaleInv

(* A channel takes a call at its end, or drops it.                          *)
LEMMA OfferFacts ==
    ASSUME NEW c \in Heads \cup {NoHead},
           NEW q \in Seq(Heads \cup {NoHead}), Len(q) <= QueueCap
    PROVE  /\ Offer(q, c) \in Seq(Heads \cup {NoHead})
           /\ Len(Offer(q, c)) <= QueueCap
           /\ Len(q) \in Nat
           /\ Len(Offer(q, c)) \in Len(q) .. Len(q) + 1
           /\ \A i \in 1 .. Len(q) : Offer(q, c)[i] = q[i]
           /\ \A i \in Len(q) + 1 .. Len(Offer(q, c)) : Offer(q, c)[i] = c
<1>1. CASE Len(q) < QueueCap
  <2>1. Offer(q, c) = Append(q, c)
    BY <1>1 DEF Offer
  <2> QED BY <1>1, <2>1
<1>2. CASE ~(Len(q) < QueueCap)
  BY <1>2 DEF Offer
<1> QED BY <1>1, <1>2

(* Nothing is under way at the start.                                       *)
LEMMA InitInv == Init => Inv
<1> SUFFICES ASSUME Init PROVE Inv
  OBVIOUS
<1>1. TypeOK
  <2>1. usePriorityQueue \in BOOLEAN /\ up \in BOOLEAN
    BY Zenon DEF Init
  <2> QED BY <2>1 DEF Init, TypeOK, NextIteration, MaxRegressions
<1>2. HasJob
  BY DEF Init, NextIteration, HasJob
<1>3. Stale(0, 0)
  BY DEF Init, Stale
<1>4. 0 \in 0 .. Len(hi) /\ 0 \in 0 .. Len(lo)
  BY DEF Init
<1> QED BY <1>1, <1>2, <1>3, <1>4 DEF Inv, StaleInv

(* A call of the client finds its place in a channel or is dropped.         *)
LEMMA CallInv ==
    ASSUME Inv, NEW c \in Current,
           \/ hi' = Offer(hi, c) /\ lo' = lo
           \/ lo' = Offer(lo, c) /\ hi' = hi,
           UNCHANGED <<usePriorityQueue, loop, cur, want, up, peerHead, regressions>>,
           seenHeads' \subseteq Heads
    PROVE  Inv'
<1> DEFINE S == Heads \cup {NoHead}
<1>0. /\ TypeOK /\ HasJob /\ c \in S
      /\ hi \in Seq(S) /\ Len(hi) <= QueueCap /\ Len(hi) \in Nat
      /\ lo \in Seq(S) /\ Len(lo) <= QueueCap /\ Len(lo) \in Nat
  BY DEF Inv, TypeOK, Current
<1>1. /\ hi' \in Seq(S) /\ Len(hi') <= QueueCap
      /\ Len(hi') \in Len(hi) .. Len(hi) + 1
      /\ \A i \in 1 .. Len(hi) : hi'[i] = hi[i]
      /\ \A i \in Len(hi) + 1 .. Len(hi') : hi'[i] = c
  <2>1. CASE hi' = Offer(hi, c)
    BY <1>0, <2>1, OfferFacts
  <2>2. CASE hi' = hi
    BY <1>0, <2>2
  <2> QED BY <2>1, <2>2
<1>2. /\ lo' \in Seq(S) /\ Len(lo') <= QueueCap
      /\ Len(lo') \in Len(lo) .. Len(lo) + 1
      /\ \A i \in 1 .. Len(lo) : lo'[i] = lo[i]
      /\ \A i \in Len(lo) + 1 .. Len(lo') : lo'[i] = c
  <2>1. CASE lo' = Offer(lo, c)
    BY <1>0, <2>1, OfferFacts
  <2>2. CASE lo' = lo
    BY <1>0, <2>2
  <2> QED BY <2>1, <2>2
<1>3. TypeOK' /\ HasJob'
  BY <1>0, <1>1, <1>2 DEF TypeOK, HasJob, MaxRegressions
<1>4. PICK m \in 0 .. Len(hi), n \in 0 .. Len(lo) : Stale(m, n)
  BY DEF Inv, StaleInv
<1>5. ASSUME NEW i \in m + 1 .. Len(hi') PROVE hi'[i] \in Current
  <2>1. i \in m + 1 .. Len(hi) \/ i \in Len(hi) + 1 .. Len(hi')
    BY <1>0, <1>1
  <2>2. i \in m + 1 .. Len(hi) => i \in 1 .. Len(hi)
    BY <1>0
  <2> QED BY <1>1, <1>4, <2>1, <2>2 DEF Stale
<1>6. ASSUME NEW i \in n + 1 .. Len(lo') PROVE lo'[i] \in Current
  <2>1. i \in n + 1 .. Len(lo) \/ i \in Len(lo) + 1 .. Len(lo')
    BY <1>0, <1>2
  <2>2. i \in n + 1 .. Len(lo) => i \in 1 .. Len(lo)
    BY <1>0
  <2> QED BY <1>2, <1>4, <2>1, <2>2 DEF Stale
<1>7. Stale(m, n)'
  BY <1>4, <1>5, <1>6 DEF Stale, Current
<1>8. m \in 0 .. Len(hi') /\ n \in 0 .. Len(lo')
  BY <1>0, <1>1, <1>2
<1> QED BY <1>3, <1>7, <1>8 DEF Inv, StaleInv

(* The loop takes the first call of a channel: if that was stale, what it   *)
(* executes is, and one fewer waits.                                        *)
LEMMA TakeInv ==
    ASSUME Inv, loop # "exec", loop' = "exec",
           UNCHANGED <<usePriorityQueue, seenHeads, want, up, peerHead, regressions>>,
           \/ hi # <<>> /\ hi' = Tail(hi) /\ cur' = Head(hi) /\ lo' = lo
           \/ lo # <<>> /\ lo' = Tail(lo) /\ cur' = Head(lo) /\ hi' = hi
    PROVE  Inv'
<1> DEFINE S == Heads \cup {NoHead}
<1>0. /\ TypeOK /\ cur = Nil
      /\ hi \in Seq(S) /\ Len(hi) <= QueueCap /\ Len(hi) \in Nat
      /\ lo \in Seq(S) /\ Len(lo) <= QueueCap /\ Len(lo) \in Nat
      /\ regressions \in Nat
  BY DEF Inv, TypeOK, HasJob
<1>1. PICK m \in 0 .. Len(hi), n \in 0 .. Len(lo) : Stale(m, n)
  BY DEF Inv, StaleInv
<1>2. regressions + m + n <= 2 * QueueCap + 1
  BY <1>0, <1>1 DEF Stale
<1>3. CASE hi # <<>> /\ hi' = Tail(hi) /\ cur' = Head(hi) /\ lo' = lo
  <2>1. /\ Len(hi) > 0 /\ cur' = hi[1] /\ cur' \in S
        /\ hi' \in Seq(S) /\ Len(hi') = Len(hi) - 1
        /\ \A i \in 1 .. Len(hi) - 1 : hi'[i] = hi[i + 1]
    BY <1>0, <1>3
  <2>2. TypeOK' /\ HasJob'
    <3>1. cur' \in Heads \cup {NoHead, Nil} /\ cur' # Nil
      BY <2>1
    <3>2. hi' \in Seq(S) /\ Len(hi') <= QueueCap
      BY <1>0, <2>1
    <3> QED BY <1>0, <1>3, <3>1, <3>2 DEF TypeOK, HasJob, MaxRegressions
  <2>3. PICK k \in 0 .. Len(hi) - 1 : k = IF m = 0 THEN 0 ELSE m - 1
    BY <1>0, <2>1
  <2>4. ASSUME NEW i \in k + 1 .. Len(hi') PROVE hi'[i] \in Current
    <3>1. i + 1 \in m + 1 .. Len(hi) /\ i \in 1 .. Len(hi) - 1
      BY <1>0, <2>1, <2>3
    <3> QED BY <1>1, <2>1, <3>1 DEF Stale
  <2>5. m = 0 => cur' \in Current
    <3>1. m = 0 => 1 \in m + 1 .. Len(hi)
      BY <1>0, <2>1
    <3> QED BY <1>1, <2>1, <3>1 DEF Stale
  <2>6. regressions + k + n + (IF cur' \in Current \cup {Nil} THEN 0 ELSE 1) <= 2 * QueueCap + 1
    BY <1>0, <1>2, <2>3, <2>5
  <2>7. Stale(k, n)'
    BY <1>1, <1>3, <2>4, <2>6 DEF Stale, Current
  <2> QED BY <1>3, <2>1, <2>2, <2>7 DEF Inv, StaleInv
<1>4. CASE lo # <<>> /\ lo' = Tail(lo) /\ cur' = Head(lo) /\ hi' = hi
  <2>1. /\ Len(lo) > 0 /\ cur' = lo[1] /\ cur' \in S
        /\ lo' \in Seq(S) /\ Len(lo') = Len(lo) - 1
        /\ \A i \in 1 .. Len(lo) - 1 : lo'[i] = lo[i + 1]
    BY <1>0, <1>4
  <2>2. TypeOK' /\ HasJob'
    <3>1. cur' \in Heads \cup {NoHead, Nil} /\ cur' # Nil
      BY <2>1
    <3>2. lo' \in Seq(S) /\ Len(lo') <= QueueCap
      BY <1>0, <2>1
    <3> QED BY <1>0, <1>4, <3>1, <3>2 DEF TypeOK, HasJob, MaxRegressions
  <2>3. PICK k \in 0 .. Len(lo) - 1 : k = IF n = 0 THEN 0 ELSE n - 1
    BY <1>0, <2>1
  <2>4. ASSUME NEW i \in k + 1 .. Len(lo') PROVE lo'[i] \in Current
    <3>1. i + 1 \in n + 1 .. Len(lo) /\ i \in 1 .. Len(lo) - 1
      BY <1>0, <2>1, <2>3
    <3> QED BY <1>1, <2>1, <3>1 DEF Stale
  <2>5. n = 0 => cur' \in Current
    <3>1. n = 0 => 1 \in n + 1 .. Len(lo)
      BY <1>0, <2>1
    <3> QED BY <1>1, <2>1, <3>1 DEF Stale
  <2>6. regressions + m + k + (IF cur' \in Current \cup {Nil} THEN 0 ELSE 1) <= 2 * QueueCap + 1
    BY <1>0, <1>2, <2>3, <2>5
  <2>7. Stale(m, k)'
    BY <1>1, <1>4, <2>4, <2>6 DEF Stale, Current
  <2> QED BY <1>4, <2>1, <2>2, <2>7 DEF Inv, StaleInv
<1> QED BY <1>3, <1>4

(* A regression uses up the stale call that was being executed.             *)
LEMMA ExecInv ==
    ASSUME Inv, ExecMirrorJob
    PROVE  Inv'
<1>0. /\ TypeOK /\ loop = "exec" /\ cur \in Heads \cup {NoHead} /\ cur # Nil
      /\ regressions \in 0 .. 2 * QueueCap + 1 + 1
      /\ Len(hi) \in Nat /\ Len(lo) \in Nat
  BY DEF Inv, TypeOK, HasJob, ExecMirrorJob, MaxRegressions
<1>1. /\ cur' = Nil /\ loop' \in {"poll", "select"}
      /\ UNCHANGED <<usePriorityQueue, seenHeads, hi, lo, want, up>>
  BY DEF ExecMirrorJob, NextIteration, queueVars
<1>2. PICK m \in 0 .. Len(hi), n \in 0 .. Len(lo) : Stale(m, n)
  BY DEF Inv, StaleInv
<1>3. m \in Nat /\ n \in Nat
  BY <1>0
<1>4. \/ regressions' = regressions
      \/ regressions' = regressions + 1 /\ cur \notin Current
  <2>1. \/ regressions' = regressions
        \/ /\ peerHead = want /\ Applied # want
           /\ regressions' = regressions + 1
    BY DEF ExecMirrorJob, CountRegression
  <2>2. peerHead = want /\ Applied # want => cur \notin Current
    BY DEF Applied, Current
  <2> QED BY <2>1, <2>2
<1>5. PICK r \in Nat : r = regressions'
  BY <1>0, <1>4
<1>6. r + m + n <= 2 * QueueCap + 1
  <2>0. r = regressions \/ (r = regressions + 1 /\ cur \notin Current)
    BY <1>4, <1>5
  <2>1. CASE cur \in Current
    <3>1. regressions + m + n + 0 <= 2 * QueueCap + 1
      BY <1>2, <2>1 DEF Stale
    <3> QED BY <1>0, <1>3, <2>0, <2>1, <3>1
  <2>2. CASE cur \notin Current
    <3>1. regressions + m + n + 1 <= 2 * QueueCap + 1
      BY <1>0, <1>2, <2>2 DEF Stale
    <3> QED BY <1>0, <1>3, <2>0, <3>1
  <2> QED BY <2>1, <2>2
<1>7. TypeOK'
  <2>1. peerHead' \in Heads \cup {Nil}
    BY <1>0 DEF ExecMirrorJob, Applied, TypeOK
  <2>2. r <= 2 * QueueCap + 1
    BY <1>3, <1>6
  <2>3. r \in 0 .. MaxRegressions + 1
    BY <2>2 DEF MaxRegressions
  <2> QED BY <1>0, <1>1, <1>5, <2>1, <2>3 DEF TypeOK
<1>8. HasJob'
  BY <1>1 DEF HasJob
<1>9. Stale(m, n)'
  <2>1. cur' \in Current' \cup {Nil}
    BY <1>1
  <2>2. r + m + n + 0 <= 2 * QueueCap + 1
    BY <1>3, <1>6
  <2> QED BY <1>1, <1>2, <1>5, <2>1, <2>2 DEF Stale, Current
<1> QED BY <1>1, <1>7, <1>8, <1>9 DEF Inv, StaleInv

(* When the client moves, everything under way may have become stale.       *)
LEMMA ReorgInv ==
    ASSUME Inv, Reorg
    PROVE  Inv'
<1> USE DEF Reorg, queueVars, loopVars
<1>0. TypeOK /\ Len(hi) \in Nat /\ Len(lo) \in Nat /\ Len(hi) <= QueueCap /\ Len(lo) <= QueueCap
  BY DEF Inv, TypeOK
<1>1. TypeOK' /\ HasJob'
  BY <1>0 DEF Inv, TypeOK, HasJob, MaxRegressions
<1>2. Stale(Len(hi), Len(lo))'
  BY <1>0 DEF Stale
<1> QED BY <1>0, <1>1, <1>2 DEF Inv, StaleInv

(* The steps that touch neither what is under way nor the client's head.    *)
LEMMA ElsewhereInv ==
    ASSUME Inv, TypeOK', HasJob',
           UNCHANGED <<hi, lo, cur, want, regressions>>
    PROVE  Inv'
BY DEF Inv, StaleInv, Stale, Current

(* Every step preserves the invariant.                                      *)
LEMMA NextInv == Inv /\ [Next]_vars => Inv'
<1> SUFFICES ASSUME Inv, [Next]_vars PROVE Inv'
  OBVIOUS
<1> USE DEF queueVars, loopVars, envVars
<1>0. TypeOK /\ HasJob
  BY DEF Inv
<1>1. CASE Announce
  <2>1. want \in Current /\ seenHeads' \subseteq Heads
    BY <1>0, <1>1 DEF Announce, TypeOK, Current
  <2> QED BY <1>1, <2>1, CallInv DEF Announce
<1>2. CASE PrioritisedCall
  <2>1. seenHeads' \subseteq Heads
    BY <1>0, <1>2 DEF PrioritisedCall, TypeOK
  <2> QED BY <1>2, <2>1, CallInv DEF PrioritisedCall, Current
<1>3. CASE OtherCall
  <2>1. NoHead \in Current /\ seenHeads' \subseteq Heads
    BY <1>0, <1>3 DEF OtherCall, TypeOK, Current
  <2> QED BY <1>3, <2>1, CallInv DEF OtherCall
<1>4. ASSUME NEW h \in Heads, Forget(h) PROVE Inv'
  <2>1. TypeOK' /\ HasJob'
    BY <1>0, <1>4 DEF Forget, TypeOK, HasJob, MaxRegressions
  <2> QED BY <1>4, <2>1, ElsewhereInv DEF Forget
<1>5. CASE FallThrough
  <2>1. TypeOK' /\ HasJob'
    BY <1>0, <1>5 DEF FallThrough, TypeOK, HasJob, MaxRegressions
  <2> QED BY <1>5, <2>1, ElsewhereInv DEF FallThrough
<1>6. CASE TakeHi \/ TakeLo
  BY <1>6, TakeInv DEF TakeHi, TakeLo
<1>7. CASE ExecMirrorJob
  BY <1>7, ExecInv
<1>8. CASE Reorg
  BY <1>8, ReorgInv
<1>9. CASE PeerChanges
  <2>1. up' \in BOOLEAN
    BY <1>9, Zenon DEF PeerChanges
  <2>2. TypeOK' /\ HasJob'
    BY <1>0, <1>9, <2>1 DEF PeerChanges, TypeOK, HasJob, MaxRegressions
  <2> QED BY <1>9, <2>2, ElsewhereInv DEF PeerChanges
<1>10. CASE UNCHANGED vars
  <2>1. TypeOK' /\ HasJob'
    BY <1>0, <1>10 DEF vars, TypeOK, HasJob, MaxRegressions
  <2> QED BY <1>10, <2>1, ElsewhereInv DEF vars
<1> QED BY <1>1, <1>2, <1>3, <1>4, <1>5, <1>6, <1>7, <1>8, <1>9, <1>10 DEF Next, LoopStep

(* Every variable keeps its type: in particular neither of a peer's         *)
(* channels ever holds more than its capacity.                              *)
THEOREM TypeCorrect == Spec => []TypeOK
<1>1. Inv => TypeOK
  BY DEF Inv
<1> QED BY InitInv, NextInv, <1>1, PTL DEF Spec

(* Once the client stays on a head, the peer leaves it no more often than   *)
(* the two channels and the job loop can hold stale updates, for every      *)
(* capacity and any set of heads.                                           *)
THEOREM RegressionsAreBounded == Spec => []RegressionsBounded
<1>1. Inv => RegressionsBounded
  <2> SUFFICES ASSUME Inv PROVE regressions <= 2 * QueueCap + 1
    BY DEF RegressionsBounded, MaxRegressions
  <2>1. PICK m \in 0 .. Len(hi), n \in 0 .. Len(lo) : Stale(m, n)
    BY DEF Inv, StaleInv
  <2>2. m \in Nat /\ n \in Nat /\ regressions \in Nat
    BY DEF Inv, TypeOK
  <2> QED BY <2>1, <2>2 DEF Stale
<1> QED BY InitInv, NextInv, <1>1, PTL DEF Spec
=============================================================================
