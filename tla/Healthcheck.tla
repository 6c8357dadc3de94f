----------------------------- MODULE Healthcheck -----------------------------
(***************************************************************************)
(* The backend healthcheck (proxy/healthcheck.go): on every tick it queries *)
(* the backend, pushes the outcome into a ring buffer that keeps the last   *)
(* depth outcomes, re-evaluates isHealthy with two thresholds, and calls    *)
(* handleUnhealthy (which resets the upstream connections) after every      *)
(* check that leaves the backend unhealthy.  check holds h.mx throughout,   *)
(* so it is one step.                                                       *)
(***************************************************************************)
EXTENDS RingBufferOps

CONSTANTS ThresholdHealthy, ThresholdUnhealthy

(* config/healthcheck.go admits 1..10.                                      *)
ASSUME ThresholdsAssumption ==
    /\ ThresholdHealthy \in 1 .. 10
    /\ ThresholdUnhealthy \in 1 .. 10
ASSUME ZeroAssumption == Zero = FALSE

depth == IF ThresholdHealthy >= ThresholdUnhealthy THEN ThresholdHealthy
                                                   ELSE ThresholdUnhealthy

VARIABLES
    up,         \* the environment: does the backend answer 200 or 202?
    statuses,   \* the ring buffer of outcomes
    isHealthy,
    resets,     \* handleUnhealthy was called by the last check
    history     \* history: the last (at most depth) outcomes, oldest first

vars == <<up, statuses, isHealthy, resets, history>>

Init ==
    /\ up \in BOOLEAN
    /\ statuses = NewRingBuffer(depth)
    /\ isHealthy = TRUE
    /\ resets = FALSE
    /\ history = <<>>

(* Seeded fault: the loops run over one position too few.                   *)
StreakShort(b, threshold, expected) ==
    \A idx \in depth - threshold + 1 .. depth - 1 :
        At(b, idx).ok => At(b, idx).value = expected

(* The two loops of check: every outcome found at the threshold's last      *)
(* positions of a full buffer is `expected'; positions not yet filled are   *)
(* skipped.                                                                 *)
Streak(b, threshold, expected) ==
    \A idx \in depth - threshold .. depth - 1 :
        At(b, idx).ok => At(b, idx).value = expected

(* Seeded fault: the buffer is trimmed before the push, not after it.       *)
RecordTrimFirst(b, outcome) ==
    Push(IF Length(b) > depth THEN Pop(b) ELSE b, outcome)

(* The outcome is pushed, and the oldest one popped beyond depth.           *)
Record(b, outcome) ==
    LET pushed == Push(b, outcome) IN
    IF Length(pushed) > depth THEN Pop(pushed) ELSE pushed

(* Seeded fault: the thresholds are swapped.                                *)
EvaluateSwapped(b, healthy) ==
    IF healthy /\ Streak(b, ThresholdHealthy, FALSE) THEN FALSE
    ELSE IF ~healthy /\ Streak(b, ThresholdUnhealthy, TRUE) THEN TRUE
    ELSE healthy

(* Seeded fault: an unhealthy backend needs the Unhealthy streak to end.    *)
EvaluateSticky(b, healthy) ==
    healthy /\ ~Streak(b, ThresholdUnhealthy, FALSE)

(* isHealthy after a check that leaves the buffer b.                        *)
Evaluate(b, healthy) ==
    IF healthy /\ Streak(b, ThresholdUnhealthy, FALSE) THEN FALSE
    ELSE IF ~healthy /\ Streak(b, ThresholdHealthy, TRUE) THEN TRUE
    ELSE healthy

(* One tick.  A check that fails or times out counts as a failure.          *)
Check ==
    /\ statuses' = Record(statuses, up)
    /\ isHealthy' = Evaluate(statuses', isHealthy)
    /\ resets' = ~isHealthy'
    /\ history' = LET h == Append(history, up) IN
                  IF Len(h) > depth THEN Tail(h) ELSE h
    /\ UNCHANGED up

(* The backend comes and goes.                                              *)
BackendChanges ==
    /\ up' = ~up
    /\ UNCHANGED <<statuses, isHealthy, resets, history>>

Next == Check \/ BackendChanges

Spec == Init /\ [][Next]_vars

(* The ticker never stops while the proxy runs.                             *)
FairSpec == Spec /\ WF_vars(Check)

-----------------------------------------------------------------------------

(* Every variable has its type.                                             *)
TypeOK ==
    /\ up \in BOOLEAN
    /\ IsRing(statuses, BOOLEAN)
    /\ isHealthy \in BOOLEAN
    /\ resets \in BOOLEAN
    /\ history \in Seq(BOOLEAN)
    /\ Len(history) <= depth

(* The ring buffer, which grows once and wraps ever after, holds exactly    *)
(* the latest outcomes in order.                                            *)
HoldsLatestOutcomes == Contents(statuses) = history

WarmedUp == Len(history) = depth

EndsWith(n, outcome) ==
    \A i \in Len(history) - n + 1 .. Len(history) : i >= 1 => history[i] = outcome

(* Once depth checks were made: a streak of failures as long as its         *)
(* threshold leaves the backend unhealthy, and one of successes healthy.    *)
StreaksDecide ==
    WarmedUp =>
        /\ EndsWith(ThresholdUnhealthy, FALSE) => ~isHealthy
        /\ EndsWith(ThresholdHealthy, TRUE) => isHealthy

(* Once depth checks were made: the verdict changes only on such a streak,  *)
(* so one failed check among successful ones never drops the connections.   *)
OnlyStreaksDecide ==
    [][WarmedUp' =>
         /\ isHealthy /\ ~isHealthy' => EndsWith(ThresholdUnhealthy, FALSE)'
         /\ ~isHealthy /\ isHealthy' => EndsWith(ThresholdHealthy, TRUE)']_vars

(* The verdict follows the backend: a backend that stays up is found        *)
(* healthy for good (and connections are left alone), one that stays down   *)
(* unhealthy.                                                               *)
VerdictFollowsBackend ==
    /\ <>[]up => <>[](isHealthy /\ ~resets)
    /\ <>[]~up => <>[](~isHealthy /\ resets)

(* As the usage text of the flag has it: the backend is considered          *)
(* unhealthy after `count' consecutive failed healthchecks, from the start. *)
UnhealthyOnlyAfterCount ==
    [][isHealthy /\ ~isHealthy'
         => /\ Len(history') >= ThresholdUnhealthy
            /\ EndsWith(ThresholdUnhealthy, FALSE)']_vars
=============================================================================
