------------------------------ MODULE Authrpc ------------------------------
(***************************************************************************)
(* The engine API proxy (proxy/authrpc.go): how calls are triaged, and the  *)
(* deduplication of forkchoice updates without payload attributes (FCUs).   *)
(* alreadySeen remembers when an FCU was first let through; repetitions are *)
(* answered VALID by the proxy itself until a ticker's sweep has forgotten  *)
(* the entry.  Handlers run concurrently; mxSeenHeads makes alreadySeen and *)
(* the sweep atomic.                                                        *)
(*                                                                         *)
(* Time advances in ticks.  seenHeads holds the age of an entry in place of *)
(* its time of insertion.  What happens between triage and the answer (see  *)
(* HttpJobs) is abstracted to: proxied calls reach the backend in any order *)
(* and fail when it is down.                                                *)
(***************************************************************************)
EXTENDS Naturals

CONSTANTS
    Handlers,           \* upstream connections being served
    Heads,              \* head/safe/finalised triples, the keys of seenHeads
    EvictAfter,         \* the age a sweep spares, in ticks (30 s)
    Period,             \* of tickerSeenHeads, in ticks (30 s)
    DeduplicateFCUs,    \* cfg.deduplicateFCUs
    MirrorGetPayload,   \* cfg.mirrorGetPayload
    NoHead, Nil

ASSUME TimesAssumption == EvictAfter \in Nat /\ Period \in Nat \ {0}
ASSUME FlagsAssumption == DeduplicateFCUs \in BOOLEAN /\ MirrorGetPayload \in BOOLEAN
ASSUME NilAssumption   == Nil \notin Heads \cup Nat /\ NoHead \notin Heads \cup {Nil}

VARIABLES
    seenHeads,  \* age of each entry, Nil without one
    timer,      \* ticks until tickerSeenHeads fires
    due,        \* it has fired and the sweep has not run yet
    call,       \* the call each handler waits for: the head it sets, NoHead
                \* if it sets none, Nil without a call
    up,         \* environment: the backend answers
    backend,    \* environment: head of the last FCU the backend applied
    want,       \* environment: head the consensus client currently follows
    lastOut,    \* history: ticks since an FCU last left the proxy, up to LongAgo
    copies      \* history: how often it left, each time within EvictAfter of
                \* the time before (2 stands for 2 or more)

LongAgo == EvictAfter + Period + 1

cacheVars   == <<seenHeads, timer, due>>
envVars     == <<up, backend, want>>
historyVars == <<lastOut, copies>>
vars == <<cacheVars, call, envVars, historyVars>>

(* What triage distinguishes.  "fcu" parses completely and has one param    *)
(* that is not null, "fcuWithPayload" has two; "fcuBadState" has one that   *)
(* does not parse, "fcuOther" any other number of params or none that parse.*)
Kinds == {"unparseable", "other", "getPayload", "newPayload", "setMaxDASize",
          "fcu", "fcuWithPayload", "fcuBadState", "fcuOther"}

Verdict(proxy, prioritise, mirror) ==
    [proxy |-> proxy, prioritise |-> prioritise, mirror |-> mirror]

(* triage of a request; seen is the result of alreadySeen.                  *)
triage(kind, seen) ==
    CASE kind \in {"unparseable", "other"} -> Verdict(TRUE, FALSE, FALSE)
      [] kind = "getPayload" -> Verdict(TRUE, TRUE, MirrorGetPayload)
      [] kind \in {"newPayload", "fcuWithPayload"} -> Verdict(TRUE, TRUE, TRUE)
      [] kind = "fcu" /\ seen -> Verdict(FALSE, FALSE, FALSE)
      [] kind = "fcu" /\ ~seen -> Verdict(TRUE, FALSE, TRUE)
      [] kind \in {"setMaxDASize", "fcuBadState", "fcuOther"} -> Verdict(TRUE, FALSE, TRUE)

(* The head a call sets in the backend, as the backend understands it.      *)
HeadSet(kind, head) == IF kind \in {"fcu", "fcuWithPayload"} THEN head ELSE NoHead

(* Only FCUs that parse are looked up, and only when configured.            *)
LookedUp(kind) == DeduplicateFCUs /\ kind = "fcu"

-----------------------------------------------------------------------------

(* Seeded fault: NewAuthrpc does not make the map.                          *)
InitNilMap ==
    /\ seenHeads = [h \in {} |-> Nil]
    /\ timer = Period
    /\ due = FALSE
    /\ call = [c \in Handlers |-> Nil]
    /\ up = TRUE
    /\ backend = Nil
    /\ want \in Heads
    /\ lastOut = [h \in Heads |-> LongAgo]
    /\ copies = [h \in Heads |-> 0]

Init ==
    /\ seenHeads = [h \in Heads |-> Nil]
    /\ timer = Period
    /\ due = FALSE
    /\ call = [c \in Handlers |-> Nil]
    /\ up = TRUE
    /\ backend = Nil
    /\ want \in Heads
    /\ lastOut = [h \in Heads |-> LongAgo]
    /\ copies = [h \in Heads |-> 0]

(* Seeded fault: a repetition renews the entry.                             *)
alreadySeenRenews(h) == [seenHeads EXCEPT ![h] = 0]

(* The map after alreadySeen: a new entry, or the map as it was.            *)
alreadySeen(h) ==
    IF seenHeads[h] # Nil THEN seenHeads ELSE [seenHeads EXCEPT ![h] = 0]

(* A handler receives a request.  A verdict without proxy comes with the    *)
(* response of interceptEngineForkchoiceUpdatedV3, so the handler is free   *)
(* again; a proxied call waits for the backend.                             *)
Receive(c, kind, head) ==
    LET seen == LookedUp(kind) /\ seenHeads[head] # Nil
        v    == triage(kind, seen)
    IN  /\ call[c] = Nil
        /\ seenHeads' = IF LookedUp(kind) THEN alreadySeen(head) ELSE seenHeads
        /\ call' = IF v.proxy THEN [call EXCEPT ![c] = HeadSet(kind, head)] ELSE call
        /\ IF kind = "fcu" /\ (v.proxy \/ v.mirror)
           THEN /\ lastOut' = [lastOut EXCEPT ![head] = 0]
                /\ copies' = [copies EXCEPT ![head] =
                                IF lastOut[head] > EvictAfter \/ @ = 0 THEN 1 ELSE 2]
           ELSE UNCHANGED historyVars
        /\ UNCHANGED <<timer, due, envVars>>

(* The consensus client announces the head it follows.                      *)
Announce(c) == Receive(c, "fcu", want)

(* Any other call, FCUs with payload attributes for that head included.     *)
OtherCall(c) ==
    \E kind \in Kinds \ {"fcu"} : Receive(c, kind, want)

(* A proxied call ends, with the backend's answer or with an error.         *)
Complete(c) ==
    /\ call[c] # Nil
    /\ backend' = IF up /\ call[c] # NoHead THEN call[c] ELSE backend
    /\ call' = [call EXCEPT ![c] = Nil]
    /\ UNCHANGED <<cacheVars, up, want, historyVars>>

(* Seeded fault: an entry is spared one tick more.                          *)
ExpiredLate(age) == age > EvictAfter + 1

Expired(age) == age > EvictAfter

(* Seeded fault: a sweep forgets everything.                                *)
SweepAll ==
    /\ due
    /\ due' = FALSE
    /\ seenHeads' = [h \in Heads |-> Nil]
    /\ UNCHANGED <<timer, call, envVars, historyVars>>

(* The body of the loop of run.                                             *)
Sweep ==
    /\ due
    /\ due' = FALSE
    /\ seenHeads' = [h \in Heads |->
                       IF seenHeads[h] # Nil /\ Expired(seenHeads[h]) THEN Nil
                       ELSE seenHeads[h]]
    /\ UNCHANGED <<timer, call, envVars, historyVars>>

(* Time advances.  A tick is long (EvictAfter of them are 30 s), so the     *)
(* sweep that is due has run before.                                        *)
Tick ==
    /\ ~due
    /\ seenHeads' = [h \in Heads |-> IF seenHeads[h] = Nil THEN Nil ELSE seenHeads[h] + 1]
    /\ timer' = IF timer = 1 THEN Period ELSE timer - 1
    /\ due' = (timer = 1)
    /\ lastOut' = [h \in Heads |-> IF lastOut[h] = LongAgo THEN LongAgo
                                   ELSE lastOut[h] + 1]
    /\ UNCHANGED <<call, envVars, copies>>

(* The backend goes down or comes back.                                     *)
BackendChanges ==
    /\ up' = ~up
    /\ UNCHANGED <<cacheVars, call, backend, want, historyVars>>

(* The consensus client moves to another head, new or old.                  *)
Reorg ==
    /\ \E h \in Heads \ {want} : want' = h
    /\ UNCHANGED <<cacheVars, call, up, backend, historyVars>>

Next ==
    \/ \E c \in Handlers : Announce(c) \/ OtherCall(c) \/ Complete(c)
    \/ Sweep
    \/ Tick
    \/ BackendChanges
    \/ Reorg

Spec == Init /\ [][Next]_vars

(* Time passes, the sweeping goroutine is scheduled, calls end within their *)
(* timeout, and the client keeps announcing its head.  The last is strong   *)
(* fairness because Handlers is a bound of the model: the client has a      *)
(* connection of its own and never waits for a free one.                    *)
FairSpec ==
    /\ Spec
    /\ WF_vars(Tick) /\ WF_vars(Sweep)
    /\ \A c \in Handlers : WF_vars(Complete(c))
    /\ SF_vars(\E c \in Handlers : Announce(c))

-----------------------------------------------------------------------------

(* Every variable has its type.                                             *)
TypeOK ==
    /\ seenHeads \in [Heads -> Nat \cup {Nil}]
    /\ timer \in 1 .. Period
    /\ due \in BOOLEAN
    /\ call \in [Handlers -> Heads \cup {NoHead, Nil}]
    /\ up \in BOOLEAN
    /\ backend \in Heads \cup {Nil}
    /\ want \in Heads
    /\ lastOut \in [Heads -> 0 .. LongAgo]
    /\ copies \in [Heads -> 0 .. 2]

(* Deduplication works: however handlers, sweeps and the clock interleave,  *)
(* an FCU leaves the proxy (to the backend or to peers) at most once within *)
(* the time alreadySeen is to remember it.                                  *)
NoRepetitions == DeduplicateFCUs => \A h \in Heads : copies[h] <= 1

(* Deduplication is bounded: no FCU is answered in the backend's stead on   *)
(* the strength of one let through longer ago than a sweep may come late.   *)
AnswersNotStale ==
    \A h \in Heads : seenHeads[h] # Nil => lastOut[h] <= EvictAfter + Period

(* Deduplication is harmless in the end: although a failed FCU is marked as *)
(* seen, and returning to an earlier head (A, B, A) is taken for a          *)
(* repetition, once client and backend are stable the backend gets to the   *)
(* client's head and stays there.                                           *)
BackendFollowsClient ==
    \A h \in Heads : <>[](up /\ want = h) => <>[](backend = h)
=============================================================================
