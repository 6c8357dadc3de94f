------------------------- MODULE HealthcheckProofs -------------------------
(***************************************************************************)
(* For all thresholds the configuration admits: the ring buffer holds the   *)
(* latest outcomes, and once it has depth of them the verdict is decided by *)
(* streaks and by nothing else.                                             *)
(***************************************************************************)
EXTENDS Healthcheck, RingBufferProofs

USE ThresholdsAssumption, ZeroAssumption

LEMMA DepthFacts ==
    /\ depth \in 1 .. 10
    /\ ThresholdHealthy <= depth
    /\ ThresholdUnhealthy <= depth
BY DEF depth

(* Record does to the contents what the history does.                       *)
LEMMA RecordFacts ==
    ASSUME NEW b, IsRing(b, BOOLEAN), NEW o \in BOOLEAN, Len(Contents(b)) <= depth
    PROVE  LET h == Append(Contents(b), o) IN
           /\ IsRing(Record(b, o), BOOLEAN)
           /\ Contents(Record(b, o)) = IF Len(h) > depth THEN Tail(h) ELSE h
<1> DEFINE p == Push(b, o)  h == Append(Contents(b), o)
<1>1. IsRing(p, BOOLEAN) /\ Contents(p) = h
  BY PushFacts
<1>2. Len(h) = Length(p) /\ Length(p) \in Nat
  BY <1>1, ContentsFacts
<1>3. CASE Length(p) > depth
  <2>1. h /= <<>>
    BY <1>2, <1>3, DepthFacts, EmptySeq
  <2>2. Record(b, o) = Pop(p)
    BY <1>3 DEF Record
  <2>3. IsRing(Pop(p), BOOLEAN) /\ Contents(Pop(p)) = Tail(h)
    BY <1>1, <2>1, PopFacts
  <2> QED BY <1>2, <1>3, <2>2, <2>3
<1>4. CASE ~(Length(p) > depth)
  BY <1>1, <1>2, <1>4 DEF Record
<1> QED BY <1>3, <1>4

(* The history never outgrows depth.                                        *)
LEMMA HistoryFacts ==
    ASSUME NEW h \in Seq(BOOLEAN), NEW o \in BOOLEAN, Len(h) <= depth
    PROVE  LET g == Append(h, o)
               t == IF Len(g) > depth THEN Tail(g) ELSE g
           IN  t \in Seq(BOOLEAN) /\ Len(t) <= depth
<1> DEFINE g == Append(h, o)
<1>1. g \in Seq(BOOLEAN) /\ Len(g) = Len(h) + 1 /\ Len(h) \in Nat
  OBVIOUS
<1>2. g /= <<>>
  BY <1>1, EmptySeq
<1>3. Tail(g) \in Seq(BOOLEAN) /\ Len(Tail(g)) = Len(g) - 1
  BY <1>1, <1>2
<1> HIDE DEF g
<1>4. (IF Len(g) > depth THEN Tail(g) ELSE g) \in Seq(BOOLEAN)
  BY <1>1, <1>3
<1>5. Len(IF Len(g) > depth THEN Tail(g) ELSE g) <= depth
  <2>1. CASE Len(g) > depth
    BY <2>1, <1>1, <1>3, DepthFacts
  <2>2. CASE ~(Len(g) > depth)
    BY <2>2, <1>1, DepthFacts
  <2> QED BY <2>1, <2>2
<1> QED BY <1>4, <1>5 DEF g

(* On a buffer with depth outcomes the loops of check look at the last      *)
(* ones, all of them.                                                       *)
LEMMA StreakFacts ==
    ASSUME NEW b, IsRing(b, BOOLEAN), Len(Contents(b)) = depth,
           NEW n \in 1 .. depth, NEW e \in BOOLEAN
    PROVE  Streak(b, n, e) <=> \A i \in depth - n + 1 .. depth : Contents(b)[i] = e
<1> DEFINE C == Contents(b)
<1>0. depth \in 1 .. 10
  BY DepthFacts
<1>1. ASSUME NEW idx \in depth - n .. depth - 1
      PROVE  At(b, idx).ok /\ At(b, idx).value = C[idx + 1]
  <2>1. idx \in Nat /\ ~(idx >= Len(C))
    BY <1>0
  <2>2. At(b, idx) = Some(C[idx + 1])
    BY <2>1, AtFacts
  <2> QED BY <2>2 DEF Some
<1>2. ASSUME Streak(b, n, e), NEW i \in depth - n + 1 .. depth PROVE C[i] = e
  <2>1. i - 1 \in depth - n .. depth - 1 /\ (i - 1) + 1 = i
    BY <1>0
  <2> HIDE DEF C
  <2>2. At(b, i - 1).ok /\ At(b, i - 1).value = C[(i - 1) + 1]
    BY <2>1, <1>1
  <2>3. At(b, i - 1).value = e
    BY <1>2, <2>1, <2>2 DEF Streak
  <2> QED BY <2>1, <2>2, <2>3
<1>3. ASSUME \A i \in depth - n + 1 .. depth : C[i] = e PROVE Streak(b, n, e)
  <2> HIDE DEF C
  <2>1. \A idx \in depth - n .. depth - 1 : idx + 1 \in depth - n + 1 .. depth
    BY <1>0
  <2>2. \A idx \in depth - n .. depth - 1 : C[idx + 1] = e
    BY <2>1, <1>3
  <2> QED BY <1>1, <2>2 DEF Streak
<1> QED BY <1>2, <1>3

Inv == TypeOK /\ HoldsLatestOutcomes /\ StreaksDecide

LEMMA InitInv == Init => Inv
<1> SUFFICES ASSUME Init PROVE Inv
  OBVIOUS
<1>1. IsRing(statuses, BOOLEAN) /\ Contents(statuses) = <<>>
  <2>0. Zero \in BOOLEAN
    BY Zenon
  <2>1. Zero \in BOOLEAN /\ depth \in Nat \ {0}
    BY <2>0, DepthFacts
  <2>2. IsRing(NewRingBuffer(depth), BOOLEAN) /\ Contents(NewRingBuffer(depth)) = <<>>
    BY <2>1, NewFacts
  <2> QED BY <2>2 DEF Init
<1>2. history = <<>> /\ Len(history) = 0 /\ history \in Seq(BOOLEAN)
  BY DEF Init
<1>3. TypeOK
  <2>1. up \in BOOLEAN /\ isHealthy \in BOOLEAN /\ resets \in BOOLEAN
    BY DEF Init
  <2>2. Len(history) <= depth
    BY <1>2, DepthFacts
  <2> QED BY <1>1, <1>2, <2>1, <2>2 DEF TypeOK
<1>4. HoldsLatestOutcomes
  BY <1>1, <1>2 DEF HoldsLatestOutcomes
<1>5. StreaksDecide
  BY <1>2, DepthFacts DEF StreaksDecide, WarmedUp
<1> QED BY <1>3, <1>4, <1>5 DEF Inv

(* What a check does, in terms of the history.                              *)
LEMMA CheckFacts ==
    ASSUME TypeOK, HoldsLatestOutcomes, Check
    PROVE  /\ TypeOK' /\ HoldsLatestOutcomes'
           /\ WarmedUp' =>
                /\ Streak(statuses', ThresholdUnhealthy, FALSE)
                     <=> EndsWith(ThresholdUnhealthy, FALSE)'
                /\ Streak(statuses', ThresholdHealthy, TRUE)
                     <=> EndsWith(ThresholdHealthy, TRUE)'
<1>1. /\ IsRing(statuses, BOOLEAN) /\ Contents(statuses) = history
      /\ history \in Seq(BOOLEAN) /\ Len(history) <= depth
      /\ up \in BOOLEAN /\ isHealthy \in BOOLEAN
  BY DEF TypeOK, HoldsLatestOutcomes
<1>2. /\ statuses' = Record(statuses, up)
      /\ history' = IF Len(Append(history, up)) > depth THEN Tail(Append(history, up))
                                                        ELSE Append(history, up)
  BY DEF Check
<1>3. IsRing(statuses', BOOLEAN) /\ Contents(statuses') = history'
  BY <1>1, <1>2, RecordFacts
<1>4. history' \in Seq(BOOLEAN) /\ Len(history') <= depth
  BY <1>1, <1>2, HistoryFacts
<1>5. isHealthy' \in BOOLEAN /\ resets' \in BOOLEAN /\ up' \in BOOLEAN
  <2>1. isHealthy' \in BOOLEAN
    BY <1>1 DEF Check, Evaluate
  <2> QED BY <1>1, <2>1 DEF Check
<1>6. TypeOK'
  BY <1>3, <1>4, <1>5 DEF TypeOK
<1>7. HoldsLatestOutcomes'
  BY <1>3 DEF HoldsLatestOutcomes
<1>8. ASSUME WarmedUp', NEW n \in 1 .. depth, NEW e \in BOOLEAN
      PROVE  Streak(statuses', n, e) <=> EndsWith(n, e)'
  <2>1. Len(history') = depth /\ depth \in 1 .. 10
    BY <1>8, DepthFacts DEF WarmedUp, depth
  <2>2. Streak(statuses', n, e)
          <=> \A i \in depth - n + 1 .. depth : history'[i] = e
    <3>1. Len(Contents(statuses')) = depth /\ Contents(statuses') = history'
      BY <1>3, <2>1
    <3>2. Streak(statuses', n, e)
            <=> \A i \in depth - n + 1 .. depth : Contents(statuses')[i] = e
      BY <1>3, <3>1, StreakFacts
    <3> QED BY <3>1, <3>2
  <2>3. EndsWith(n, e)' <=> \A i \in depth - n + 1 .. depth : i >= 1 => history'[i] = e
    BY <2>1 DEF EndsWith
  <2>4. \A i \in depth - n + 1 .. depth : i >= 1
    BY <2>1
  <2> QED BY <2>2, <2>3, <2>4
<1>9. ThresholdUnhealthy \in 1 .. depth /\ ThresholdHealthy \in 1 .. depth
  BY DepthFacts
<1>10. WarmedUp' => (Streak(statuses', ThresholdUnhealthy, FALSE)
                       <=> EndsWith(ThresholdUnhealthy, FALSE)')
  BY <1>8, <1>9, Zenon
<1>11. WarmedUp' => (Streak(statuses', ThresholdHealthy, TRUE)
                       <=> EndsWith(ThresholdHealthy, TRUE)')
  BY <1>8, <1>9, Zenon
<1> QED BY <1>6, <1>7, <1>10, <1>11

(* A check decides by the streaks of the history.                           *)
LEMMA CheckDecides ==
    ASSUME TypeOK, HoldsLatestOutcomes, Check, WarmedUp'
    PROVE  /\ EndsWith(ThresholdUnhealthy, FALSE)' => ~isHealthy'
           /\ EndsWith(ThresholdHealthy, TRUE)' => isHealthy'
           /\ isHealthy /\ ~isHealthy' => EndsWith(ThresholdUnhealthy, FALSE)'
           /\ ~isHealthy /\ isHealthy' => EndsWith(ThresholdHealthy, TRUE)'
<1> DEFINE F == EndsWith(ThresholdUnhealthy, FALSE)'
           T == EndsWith(ThresholdHealthy, TRUE)'
<1>1. isHealthy' = (IF isHealthy /\ F THEN FALSE
                    ELSE IF ~isHealthy /\ T THEN TRUE ELSE isHealthy)
  BY CheckFacts DEF Check, Evaluate
<1>2. isHealthy \in BOOLEAN /\ isHealthy' \in BOOLEAN
  BY CheckFacts DEF TypeOK
<1>3. ~(F /\ T)
  <2>1. Len(history') = depth /\ depth \in 1 .. 10
    BY DepthFacts DEF WarmedUp, depth
  <2>2. F => history'[depth] = FALSE
    BY <2>1 DEF EndsWith
  <2>3. T => history'[depth] = TRUE
    BY <2>1 DEF EndsWith
  <2> QED BY <2>2, <2>3
<1> HIDE DEF F, T
<1>4. /\ F => ~isHealthy'
      /\ T => isHealthy'
      /\ isHealthy /\ ~isHealthy' => F
      /\ ~isHealthy /\ isHealthy' => T
  <2>1. CASE isHealthy
    BY <2>1, <1>1, <1>2, <1>3
  <2>2. CASE ~isHealthy
    BY <2>2, <1>1, <1>2, <1>3
  <2> QED BY <2>1, <2>2
<1> QED BY <1>4 DEF F, T

LEMMA NextInv == Inv /\ [Next]_vars => Inv'
<1> SUFFICES ASSUME Inv, [Next]_vars PROVE Inv'
  OBVIOUS
<1>1. CASE Check
  <2>1. TypeOK' /\ HoldsLatestOutcomes'
    BY <1>1, CheckFacts DEF Inv
  <2>2. StreaksDecide'
    BY <1>1, CheckDecides DEF Inv, StreaksDecide
  <2> QED BY <2>1, <2>2 DEF Inv
<1>2. CASE BackendChanges
  <2>1. TypeOK'
    BY <1>2 DEF BackendChanges, Inv, TypeOK
  <2> QED BY <1>2, <2>1 DEF BackendChanges, Inv, HoldsLatestOutcomes, StreaksDecide,
                            WarmedUp, EndsWith
<1>3. CASE UNCHANGED vars
  BY <1>3 DEF vars, Inv, TypeOK, HoldsLatestOutcomes, StreaksDecide, WarmedUp, EndsWith
<1> QED BY <1>1, <1>2, <1>3 DEF Next

-----------------------------------------------------------------------------

(* The window, the streaks and the verdict agree in every reachable state.  *)
THEOREM Invariance == Spec => []Inv
BY InitInv, NextInv, PTL DEF Spec

(* Every variable keeps its type, for all thresholds.                       *)
THEOREM TypeCorrect == Spec => []TypeOK
BY Invariance, PTL DEF Inv

(* The ring buffer of check holds exactly the latest depth outcomes.        *)
THEOREM LatestOutcomes == Spec => []HoldsLatestOutcomes
BY Invariance, PTL DEF Inv

(* After depth checks a full streak decides the verdict of check.           *)
THEOREM StreaksAreDecisive == Spec => []StreaksDecide
BY Invariance, PTL DEF Inv

(* After depth checks nothing but a full streak changes the verdict.        *)
THEOREM NothingElseDecides == Spec => OnlyStreaksDecide
<1>1. Inv /\ [Next]_vars =>
        [WarmedUp' =>
           /\ isHealthy /\ ~isHealthy' => EndsWith(ThresholdUnhealthy, FALSE)'
           /\ ~isHealthy /\ isHealthy' => EndsWith(ThresholdHealthy, TRUE)']_vars
  <2> SUFFICES ASSUME Inv, Next, WarmedUp'
               PROVE  /\ isHealthy /\ ~isHealthy' => EndsWith(ThresholdUnhealthy, FALSE)'
                      /\ ~isHealthy /\ isHealthy' => EndsWith(ThresholdHealthy, TRUE)'
    OBVIOUS
  <2>1. CASE Check
    BY <2>1, CheckDecides DEF Inv
  <2>2. CASE BackendChanges
    BY <2>2 DEF BackendChanges
  <2> QED BY <2>1, <2>2 DEF Next
<1> QED BY <1>1, Invariance, PTL DEF Spec, OnlyStreaksDecide
=============================================================================
