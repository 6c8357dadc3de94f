--------------------------- MODULE AuthrpcProofs ---------------------------
(***************************************************************************)
(* Deduplication of FCUs, for any number of handlers and heads, any age and *)
(* any period of the sweep.                                                 *)
(***************************************************************************)
EXTENDS Authrpc, Integers, TLAPS

USE TimesAssumption, FlagsAssumption, NilAssumption

(* The sweep runs at the end of a period; an entry is as old as the FCU it  *)
(* stands for, and the sweeps behind it leave it no older than this.        *)
Oldest == IF due THEN EvictAfter + Period ELSE EvictAfter + Period - timer

EntriesAccountForOutput ==
    \A h \in Heads : seenHeads[h] # Nil =>
        /\ DeduplicateFCUs
        /\ lastOut[h] = seenHeads[h]
        /\ seenHeads[h] <= Oldest

(* What left recently still has its entry.                                  *)
RecentHaveEntries ==
    DeduplicateFCUs =>
        \A h \in Heads : copies[h] # 0 /\ lastOut[h] <= EvictAfter => seenHeads[h] # Nil

SweepIsPunctual == due => timer = Period

Inv ==
    /\ TypeOK
    /\ SweepIsPunctual
    /\ EntriesAccountForOutput
    /\ RecentHaveEntries
    /\ NoRepetitions

LEMMA InitInv == Init => Inv
<1> SUFFICES ASSUME Init PROVE Inv
  OBVIOUS
<1>1. TypeOK
  <2>0. due \in BOOLEAN /\ up \in BOOLEAN
    BY Zenon DEF Init
  <2>1. timer \in 1 .. Period
    BY DEF Init
  <2>2. LongAgo \in 0 .. LongAgo
    BY DEF LongAgo
  <2>3. lastOut \in [Heads -> 0 .. LongAgo] /\ copies \in [Heads -> 0 .. 2]
    BY <2>2 DEF Init
  <2> QED BY <2>0, <2>1, <2>3 DEF Init, TypeOK
<1>2. SweepIsPunctual /\ EntriesAccountForOutput
  BY DEF Init, SweepIsPunctual, EntriesAccountForOutput
<1>3. RecentHaveEntries /\ NoRepetitions
  BY DEF Init, RecentHaveEntries, NoRepetitions
<1> QED BY <1>1, <1>2, <1>3 DEF Inv

(* What a verdict means for an FCU, and that calls that are not FCUs leave  *)
(* the map alone.                                                           *)
LEMMA TriageFacts ==
    ASSUME NEW kind \in Kinds, NEW seen \in BOOLEAN
    PROVE  /\ triage(kind, seen).proxy \in BOOLEAN
           /\ triage(kind, seen).mirror \in BOOLEAN
           /\ kind = "fcu" => (triage(kind, seen).proxy <=> ~seen)
           /\ kind = "fcu" => (triage(kind, seen).mirror <=> ~seen)
           /\ kind # "fcu" => triage(kind, seen).proxy
<1>1. CASE kind = "fcu"
  BY <1>1 DEF triage, Verdict
<1>2. CASE kind \in {"unparseable", "other"}
  BY <1>2 DEF triage, Verdict
<1>3. CASE kind = "getPayload"
  BY <1>3 DEF triage, Verdict
<1>4. CASE kind \in {"newPayload", "fcuWithPayload"}
  BY <1>4 DEF triage, Verdict
<1>5. CASE kind \in {"setMaxDASize", "fcuBadState", "fcuOther"}
  BY <1>5 DEF triage, Verdict
<1> QED BY <1>1, <1>2, <1>3, <1>4, <1>5 DEF Kinds

(* A request either is not an FCU, or repeats a remembered one and changes  *)
(* nothing, or leaves the proxy and is remembered if deduplication is on.   *)
LEMMA ReceiveFacts ==
    ASSUME TypeOK, NEW c \in Handlers, NEW kind \in Kinds, NEW h \in Heads,
           Receive(c, kind, h)
    PROVE  /\ call' \in [Handlers -> Heads \cup {NoHead, Nil}]
           /\ UNCHANGED <<timer, due, up, backend, want>>
           /\ \/ UNCHANGED <<seenHeads, lastOut, copies>>
              \/ /\ ~(DeduplicateFCUs /\ seenHeads[h] # Nil)
                 /\ seenHeads' = IF DeduplicateFCUs THEN [seenHeads EXCEPT ![h] = 0]
                                                    ELSE seenHeads
                 /\ lastOut' = [lastOut EXCEPT ![h] = 0]
                 /\ copies' = [copies EXCEPT ![h] =
                                 IF lastOut[h] > EvictAfter \/ copies[h] = 0 THEN 1 ELSE 2]
<1> DEFINE seen == LookedUp(kind) /\ seenHeads[h] # Nil
<1>1. seen \in BOOLEAN
  OBVIOUS
<1>2. call' \in [Handlers -> Heads \cup {NoHead, Nil}] /\ UNCHANGED <<timer, due, up, backend, want>>
  <2>1. HeadSet(kind, h) \in Heads \cup {NoHead, Nil}
    BY DEF HeadSet
  <2>2. call' = call \/ call' = [call EXCEPT ![c] = HeadSet(kind, h)]
    BY DEF Receive
  <2> QED BY <2>1, <2>2 DEF TypeOK, Receive, envVars
<1>3. CASE kind # "fcu"
  BY <1>2, <1>3 DEF Receive, LookedUp, historyVars
<1>4. CASE kind = "fcu" /\ seen
  <2>1. ~triage(kind, seen).proxy /\ ~triage(kind, seen).mirror
    BY <1>1, <1>4, TriageFacts
  <2> QED BY <1>2, <1>4, <2>1 DEF Receive, LookedUp, alreadySeen, historyVars
<1>5. CASE kind = "fcu" /\ ~seen
  <2>1. triage(kind, seen).proxy
    BY <1>1, <1>5, TriageFacts
  <2>2. /\ lastOut' = [lastOut EXCEPT ![h] = 0]
        /\ copies' = [copies EXCEPT ![h] =
                        IF lastOut[h] > EvictAfter \/ copies[h] = 0 THEN 1 ELSE 2]
    BY <1>5, <2>1 DEF Receive
  <2>3. seenHeads' = IF DeduplicateFCUs THEN [seenHeads EXCEPT ![h] = 0] ELSE seenHeads
    BY <1>5 DEF Receive, LookedUp, alreadySeen
  <2> QED BY <1>2, <1>5, <2>2, <2>3 DEF LookedUp
<1> QED BY <1>3, <1>4, <1>5

LEMMA ReceiveInv ==
    ASSUME Inv, NEW c \in Handlers, NEW kind \in Kinds, NEW h \in Heads,
           Receive(c, kind, h)
    PROVE  Inv'
<1>0. TypeOK /\ SweepIsPunctual /\ EntriesAccountForOutput /\ RecentHaveEntries /\ NoRepetitions
  BY DEF Inv
<1>1. CASE UNCHANGED <<seenHeads, lastOut, copies>>
  BY <1>0, <1>1, ReceiveFacts
     DEF Inv, TypeOK, SweepIsPunctual, EntriesAccountForOutput, Oldest, RecentHaveEntries,
         NoRepetitions
<1>2. CASE /\ ~(DeduplicateFCUs /\ seenHeads[h] # Nil)
           /\ seenHeads' = IF DeduplicateFCUs THEN [seenHeads EXCEPT ![h] = 0] ELSE seenHeads
           /\ lastOut' = [lastOut EXCEPT ![h] = 0]
           /\ copies' = [copies EXCEPT ![h] =
                           IF lastOut[h] > EvictAfter \/ copies[h] = 0 THEN 1 ELSE 2]
  <2>1. UNCHANGED <<timer, due, up, backend, want>>
        /\ call' \in [Handlers -> Heads \cup {NoHead, Nil}]
    BY <1>0, ReceiveFacts
  <2>2. TypeOK'
    BY <1>0, <1>2, <2>1 DEF TypeOK, LongAgo
  <2>3. SweepIsPunctual'
    BY <1>0, <2>1 DEF SweepIsPunctual
  <2>4. EntriesAccountForOutput'
    <3> SUFFICES ASSUME NEW g \in Heads, seenHeads'[g] # Nil
                 PROVE  DeduplicateFCUs /\ lastOut'[g] = seenHeads'[g] /\ seenHeads'[g] <= Oldest'
      BY DEF EntriesAccountForOutput
    <3>1. Oldest' = Oldest /\ Oldest >= 0
      BY <1>0, <2>1 DEF Oldest, TypeOK
    <3>2. CASE g = h /\ DeduplicateFCUs
      BY <1>0, <1>2, <3>1, <3>2 DEF TypeOK
    <3>3. CASE ~DeduplicateFCUs
      BY <1>0, <1>2, <3>3 DEF TypeOK, EntriesAccountForOutput
    <3>4. CASE g # h /\ DeduplicateFCUs
      BY <1>0, <1>2, <3>1, <3>4 DEF TypeOK, EntriesAccountForOutput
    <3> QED BY <3>2, <3>3, <3>4
  <2>5. RecentHaveEntries'
    <3> SUFFICES ASSUME DeduplicateFCUs, NEW g \in Heads, copies'[g] # 0, lastOut'[g] <= EvictAfter
                 PROVE  seenHeads'[g] # Nil
      BY DEF RecentHaveEntries
    <3>1. CASE g = h
      BY <1>0, <1>2, <3>1 DEF TypeOK
    <3>2. CASE g # h
      BY <1>0, <1>2, <3>2 DEF TypeOK, RecentHaveEntries
    <3> QED BY <3>1, <3>2
  <2>6. NoRepetitions'
    <3> SUFFICES ASSUME DeduplicateFCUs, NEW g \in Heads PROVE copies'[g] <= 1
      BY DEF NoRepetitions
    <3>1. CASE g = h
      <4>1. lastOut[h] > EvictAfter \/ copies[h] = 0
        BY <1>0, <1>2 DEF TypeOK, RecentHaveEntries
      <4> QED BY <1>0, <1>2, <3>1, <4>1 DEF TypeOK
    <3>2. CASE g # h
      BY <1>0, <1>2, <3>2 DEF TypeOK, NoRepetitions
    <3> QED BY <3>1, <3>2
  <2> QED BY <2>2, <2>3, <2>4, <2>5, <2>6 DEF Inv
<1> QED BY <1>0, <1>1, <1>2, ReceiveFacts

LEMMA SweepInv == ASSUME Inv, Sweep PROVE Inv'
<1>0. TypeOK /\ SweepIsPunctual /\ EntriesAccountForOutput /\ RecentHaveEntries /\ NoRepetitions
  BY DEF Inv
<1>1. due /\ ~due' /\ UNCHANGED <<timer, call, up, backend, want, lastOut, copies>>
  BY DEF Sweep, envVars, historyVars
<1>2. \A h \in Heads : \/ seenHeads'[h] = Nil /\ (seenHeads[h] # Nil => seenHeads[h] > EvictAfter)
                       \/ /\ seenHeads'[h] = seenHeads[h]
                          /\ seenHeads[h] # Nil => ~(seenHeads[h] > EvictAfter)
  BY DEF Sweep, Expired
<1>3. TypeOK'
  BY <1>0, <1>1 DEF TypeOK, Sweep
<1>4. SweepIsPunctual'
  BY <1>1 DEF SweepIsPunctual
<1>5. EntriesAccountForOutput'
  <2>1. Oldest' = EvictAfter
    BY <1>0, <1>1 DEF Oldest, SweepIsPunctual, TypeOK
  <2> QED BY <1>0, <1>1, <1>2, <2>1 DEF EntriesAccountForOutput, TypeOK
<1>6. RecentHaveEntries'
  <2> SUFFICES ASSUME DeduplicateFCUs, NEW h \in Heads, copies[h] # 0, lastOut[h] <= EvictAfter
               PROVE  seenHeads'[h] # Nil
    BY <1>1 DEF RecentHaveEntries
  <2>1. seenHeads[h] # Nil /\ lastOut[h] = seenHeads[h]
    BY <1>0 DEF RecentHaveEntries, EntriesAccountForOutput
  <2> QED BY <1>0, <1>2, <2>1 DEF TypeOK
<1>7. NoRepetitions'
  BY <1>0, <1>1 DEF NoRepetitions
<1> QED BY <1>3, <1>4, <1>5, <1>6, <1>7 DEF Inv

LEMMA TickInv == ASSUME Inv, Tick PROVE Inv'
<1>0. TypeOK /\ SweepIsPunctual /\ EntriesAccountForOutput /\ RecentHaveEntries /\ NoRepetitions
  BY DEF Inv
<1>1. /\ ~due /\ due' = (timer = 1)
      /\ timer' = IF timer = 1 THEN Period ELSE timer - 1
      /\ UNCHANGED <<call, up, backend, want, copies>>
  BY DEF Tick, envVars
<1>2. /\ seenHeads' \in [Heads -> Nat \cup {Nil}]
      /\ \A h \in Heads : IF seenHeads[h] = Nil THEN seenHeads'[h] = Nil
                                              ELSE seenHeads'[h] = seenHeads[h] + 1
  BY <1>0 DEF Tick, TypeOK
<1>3. /\ lastOut' \in [Heads -> 0 .. LongAgo]
      /\ \A h \in Heads : lastOut'[h] = IF lastOut[h] = LongAgo THEN LongAgo ELSE lastOut[h] + 1
  BY <1>0 DEF Tick, TypeOK, LongAgo
<1>4. TypeOK'
  BY <1>0, <1>1, <1>2, <1>3 DEF TypeOK
<1>5. SweepIsPunctual'
  BY <1>1 DEF SweepIsPunctual
<1>6. EntriesAccountForOutput'
  <2> SUFFICES ASSUME NEW h \in Heads, seenHeads'[h] # Nil
               PROVE  DeduplicateFCUs /\ lastOut'[h] = seenHeads'[h] /\ seenHeads'[h] <= Oldest'
    BY DEF EntriesAccountForOutput
  <2>1. Oldest' = Oldest + 1 /\ Oldest < LongAgo - 1 /\ Oldest \in Int
    <3>1. Oldest = EvictAfter + Period - timer /\ timer \in 1 .. Period
      BY <1>0, <1>1 DEF Oldest, TypeOK
    <3>2. CASE timer = 1
      <4>1. Oldest' = EvictAfter + Period
        BY <1>1, <3>2, Zenon DEF Oldest
      <4> QED BY <3>1, <3>2, <4>1 DEF LongAgo
    <3>3. CASE timer # 1
      <4>1. Oldest' = EvictAfter + Period - timer'
        BY <1>1, <3>3, Zenon DEF Oldest
      <4> QED BY <1>1, <3>1, <3>3, <4>1 DEF LongAgo
    <3> QED BY <3>2, <3>3
  <2>2. /\ seenHeads[h] # Nil /\ seenHeads[h] \in Nat
        /\ DeduplicateFCUs /\ lastOut[h] = seenHeads[h] /\ seenHeads[h] <= Oldest
    BY <1>0, <1>2 DEF EntriesAccountForOutput, TypeOK
  <2> QED BY <1>2, <1>3, <2>1, <2>2 DEF LongAgo
<1>7. RecentHaveEntries'
  <2> SUFFICES ASSUME DeduplicateFCUs, NEW h \in Heads, copies[h] # 0, lastOut'[h] <= EvictAfter
               PROVE  seenHeads'[h] # Nil
    BY <1>1 DEF RecentHaveEntries
  <2>1. lastOut[h] <= EvictAfter
    BY <1>0, <1>3 DEF TypeOK, LongAgo
  <2>2. seenHeads[h] # Nil /\ seenHeads[h] \in Nat
    BY <1>0, <2>1 DEF RecentHaveEntries, TypeOK
  <2> QED BY <1>2, <2>2
<1>8. NoRepetitions'
  BY <1>0, <1>1 DEF NoRepetitions
<1> QED BY <1>4, <1>5, <1>6, <1>7, <1>8 DEF Inv

(* The remaining steps touch neither the map, nor the clock, nor history.   *)
LEMMA OtherInv ==
    ASSUME Inv, TypeOK', UNCHANGED <<seenHeads, timer, due, lastOut, copies>>
    PROVE  Inv'
BY DEF Inv, SweepIsPunctual, EntriesAccountForOutput, Oldest, RecentHaveEntries, NoRepetitions

LEMMA NextInv == Inv /\ [Next]_vars => Inv'
<1> SUFFICES ASSUME Inv, [Next]_vars PROVE Inv'
  OBVIOUS
<1>0. TypeOK
  BY DEF Inv
<1>1. ASSUME NEW c \in Handlers, Announce(c) PROVE Inv'
  <2>1. "fcu" \in Kinds /\ want \in Heads
    BY <1>0 DEF Kinds, TypeOK
  <2> QED BY <1>1, <2>1, ReceiveInv DEF Announce
<1>2. ASSUME NEW c \in Handlers, OtherCall(c) PROVE Inv'
  <2>1. want \in Heads
    BY <1>0 DEF TypeOK
  <2> QED BY <1>2, <2>1, ReceiveInv DEF OtherCall
<1>3. ASSUME NEW c \in Handlers, Complete(c) PROVE Inv'
  <2>1. TypeOK'
    BY <1>0, <1>3 DEF TypeOK, Complete, cacheVars, historyVars
  <2> QED BY <1>3, <2>1, OtherInv DEF Complete, cacheVars, historyVars
<1>4. CASE BackendChanges
  <2>1. TypeOK'
    BY <1>0, <1>4 DEF TypeOK, BackendChanges, cacheVars, historyVars
  <2> QED BY <1>4, <2>1, OtherInv DEF BackendChanges, cacheVars, historyVars
<1>5. CASE Reorg
  <2>1. TypeOK'
    BY <1>0, <1>5 DEF TypeOK, Reorg, cacheVars, historyVars
  <2> QED BY <1>5, <2>1, OtherInv DEF Reorg, cacheVars, historyVars
<1>6. CASE UNCHANGED vars
  <2>1. TypeOK'
    BY <1>0, <1>6 DEF TypeOK, vars, cacheVars, envVars, historyVars
  <2> QED BY <1>6, <2>1, OtherInv DEF vars, cacheVars, historyVars
<1> QED BY <1>1, <1>2, <1>3, <1>4, <1>5, <1>6, SweepInv, TickInv DEF Next

-----------------------------------------------------------------------------

(* Ages, entries and the sweep stay consistent in every reachable state.    *)
THEOREM Invariance == Spec => []Inv
BY InitInv, NextInv, PTL DEF Spec

(* Every variable keeps its type.                                           *)
THEOREM TypeCorrect == Spec => []TypeOK
BY Invariance, PTL DEF Inv

(* However handlers, sweeps and clock interleave, alreadySeen lets an FCU   *)
(* through at most once within the age a sweep spares.                      *)
THEOREM Deduplication == Spec => []NoRepetitions
BY Invariance, PTL DEF Inv

(* An entry that alreadySeen answers from is at most EvictAfter + Period    *)
(* old: 60 s with the code's two 30 s.                                      *)
THEOREM BoundedStaleness == Spec => []AnswersNotStale
<1>1. Inv => AnswersNotStale
  <2> SUFFICES ASSUME Inv, NEW h \in Heads, seenHeads[h] # Nil
               PROVE  lastOut[h] <= EvictAfter + Period
    BY DEF AnswersNotStale
  <2>1. Oldest <= EvictAfter + Period /\ Oldest \in Int
    BY DEF Inv, TypeOK, Oldest
  <2>2. lastOut[h] = seenHeads[h] /\ seenHeads[h] <= Oldest /\ lastOut[h] \in Nat
    BY DEF Inv, EntriesAccountForOutput, TypeOK
  <2> QED BY <2>1, <2>2
<1> QED BY <1>1, Invariance, PTL
=============================================================================
