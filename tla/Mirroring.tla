------------------------------ MODULE Mirroring ------------------------------
(***************************************************************************)
(* How one peer follows the consensus client: the engine API proxy's        *)
(* deduplication (proxy/authrpc.go) in front of the peer's two bounded      *)
(* mirror channels and their job loop (proxy/http.go).  Forkchoice updates  *)
(* without payload attributes are deduplicated and travel on the Lo         *)
(* channel, those with attributes on the Hi channel, so one may overtake    *)
(* the other; what finds its channel full is dropped, and what the peer     *)
(* fails to answer is lost.                                                 *)
(*                                                                         *)
(* Composed from what Authrpc and HttpJobs have in detail: of the dedupli-  *)
(* cation only that an entry is made when an update is let through and goes *)
(* some time later, of the handlers only that the client's calls reach the  *)
(* channels one after the other, in the order of the calls.                 *)
(***************************************************************************)
EXTENDS Naturals, Sequences

CONSTANTS
    Heads,      \* head/safe/finalised triples
    QueueCap,   \* capacity of each channel (512)
    NoHead,     \* what a call that is no forkchoice update sets
    Nil

ASSUME QueueCapAssumption == QueueCap \in Nat \ {0}
ASSUME NilAssumption      == NoHead \notin Heads /\ Nil \notin Heads \cup {NoHead}

VARIABLES
    usePriorityQueue,   \* cfg.proxy.UsePriorityQueue: set at the start
    seenHeads,          \* heads with an entry
    hi, lo,             \* queueMirrorHi[host], queueMirrorLo[host]: heads
    loop, cur,          \* the peer's job loop, and the job it executes
    want,               \* environment: head the consensus client follows
    up, peerHead,       \* environment: the peer answers; the head it is at
    regressions         \* history: how often the peer has left the client's
                        \* head since the client moved (up to MaxRegressions + 1)

(* Updates that can be under way: in the channels and in the loop's hands.  *)
MaxRegressions == 2 * QueueCap + 1

queueVars == <<hi, lo>>
loopVars  == <<usePriorityQueue, loop, cur>>
envVars   == <<want, up, peerHead, regressions>>
vars == <<seenHeads, queueVars, loopVars, envVars>>

NextIteration == IF usePriorityQueue THEN "poll" ELSE "select"

Init ==
    /\ usePriorityQueue \in BOOLEAN
    /\ seenHeads = {}
    /\ hi = <<>>
    /\ lo = <<>>
    /\ loop = NextIteration
    /\ cur = Nil
    /\ want \in Heads
    /\ up = TRUE
    /\ peerHead = Nil
    /\ regressions = 0

(* The select with default in receive: "better not mirror than block".      *)
Offer(queue, call) == IF Len(queue) < QueueCap THEN Append(queue, call) ELSE queue

(* A forkchoice update without attributes: mirrored, unless it was seen.    *)
Announce ==
    /\ want \notin seenHeads
    /\ seenHeads' = seenHeads \cup {want}
    /\ lo' = Offer(lo, want)
    /\ UNCHANGED <<hi, loopVars, envVars>>

(* A forkchoice update with attributes, or a new payload.                   *)
PrioritisedCall ==
    /\ \E call \in {want, NoHead} : hi' = Offer(hi, call)
    /\ UNCHANGED <<seenHeads, lo, loopVars, envVars>>

(* Seeded fault: an update that cannot be parsed makes an entry too.        *)
OtherCallEntered ==
    /\ lo' = Offer(lo, NoHead)
    /\ seenHeads' = seenHeads \cup {NoHead}
    /\ UNCHANGED <<hi, loopVars, envVars>>

(* Any other mirrored call, an update that cannot be parsed among them.     *)
OtherCall ==
    /\ lo' = Offer(lo, NoHead)
    /\ UNCHANGED <<seenHeads, hi, loopVars, envVars>>

(* Seeded fault: every repetition renews its entry, so that no sweep finds  *)
(* the one of the head the client keeps announcing old enough.              *)
ForgetOthers(h) ==
    /\ h \in seenHeads \ {want}
    /\ seenHeads' = seenHeads \ {h}
    /\ UNCHANGED <<queueVars, loopVars, envVars>>

(* A sweep finds the entry old enough.                                      *)
Forget(h) ==
    /\ h \in seenHeads
    /\ seenHeads' = seenHeads \ {h}
    /\ UNCHANGED <<queueVars, loopVars, envVars>>

-----------------------------------------------------------------------------
(* The peer's job loop.                                                     *)

FallThrough ==
    /\ loop = "poll"
    /\ hi = <<>>
    /\ loop' = "select"
    /\ UNCHANGED <<usePriorityQueue, cur, seenHeads, queueVars, envVars>>

TakeHi ==
    /\ loop \in {"poll", "select"}
    /\ hi # <<>>
    /\ hi' = Tail(hi)
    /\ cur' = Head(hi)
    /\ loop' = "exec"
    /\ UNCHANGED <<usePriorityQueue, lo, seenHeads, envVars>>

TakeLo ==
    /\ loop = "select"
    /\ lo # <<>>
    /\ lo' = Tail(lo)
    /\ cur' = Head(lo)
    /\ loop' = "exec"
    /\ UNCHANGED <<usePriorityQueue, hi, seenHeads, envVars>>

(* The peer's head after an answered or a failed call.                      *)
Applied == IF up /\ cur # NoHead THEN cur ELSE peerHead

CountRegression ==
    regressions' = IF peerHead = want /\ Applied # want /\ regressions <= MaxRegressions
                   THEN regressions + 1 ELSE regressions

(* Seeded fault: calls are retried, but those that were answered.           *)
ExecMirrorJobRetry ==
    /\ loop = "exec"
    /\ loop' = NextIteration
    /\ cur' = Nil
    /\ peerHead' = Applied
    /\ CountRegression
    /\ lo' = IF up THEN Offer(lo, cur) ELSE lo
    /\ UNCHANGED <<usePriorityQueue, seenHeads, hi, want, up>>

(* execMirrorJob: errors are logged, and the call is lost.                  *)
ExecMirrorJob ==
    /\ loop = "exec"
    /\ loop' = NextIteration
    /\ cur' = Nil
    /\ peerHead' = Applied
    /\ CountRegression
    /\ UNCHANGED <<usePriorityQueue, seenHeads, queueVars, want, up>>

(* The consensus client moves to another head, new or old.                  *)
Reorg ==
    /\ \E h \in Heads \ {want} : want' = h
    /\ regressions' = 0
    /\ UNCHANGED <<seenHeads, queueVars, loopVars, up, peerHead>>

(* The peer goes down or comes back.                                        *)
PeerChanges ==
    /\ up' = ~up
    /\ UNCHANGED <<seenHeads, queueVars, loopVars, want, peerHead, regressions>>

LoopStep == FallThrough \/ TakeHi \/ TakeLo \/ ExecMirrorJob

Next ==
    \/ Announce \/ PrioritisedCall \/ OtherCall
    \/ \E h \in Heads : Forget(h)
    \/ LoopStep
    \/ Reorg
    \/ PeerChanges

Spec == Init /\ [][Next]_vars

(* The loop runs, and a call to a peer ends by its timeout; select passes   *)
(* over neither channel forever; and entries are swept (see Authrpc).       *)
FairSpec ==
    /\ Spec
    /\ WF_vars(LoopStep)
    /\ SF_vars(TakeLo)
    /\ \A h \in Heads : WF_vars(Forget(h))

-----------------------------------------------------------------------------

(* Every variable has its type, and the channels respect their capacity.    *)
TypeOK ==
    /\ usePriorityQueue \in BOOLEAN
    /\ seenHeads \subseteq Heads
    /\ hi \in Seq(Heads \cup {NoHead}) /\ Len(hi) <= QueueCap
    /\ lo \in Seq(Heads \cup {NoHead}) /\ Len(lo) <= QueueCap
    /\ loop \in {"poll", "select", "exec"}
    /\ cur \in Heads \cup {NoHead, Nil}
    /\ want \in Heads
    /\ up \in BOOLEAN
    /\ peerHead \in Heads \cup {Nil}
    /\ regressions \in 0 .. MaxRegressions + 1

(* Updates with attributes overtake older ones without, so the peer may go  *)
(* back to a head the client has left; since nothing is retried, it does so *)
(* no more often than older updates can be under way when the client moves. *)
RegressionsBounded == regressions <= MaxRegressions

(* The client goes on announcing its head, so that an announcement follows  *)
(* whenever no entry is left that would swallow it.                         *)
ClientKeepsAnnouncing == WF_vars(Announce)

(* Of the announcements that are let through, not all meet a full channel.  *)
SomeFindRoom ==
    []<><<Announce>>_vars => []<><<Announce /\ Len(lo) < QueueCap>>_vars

(* Although updates are deduplicated, dropped, lost and overtaken, a peer   *)
(* that answers gets to the head the client stays on, and stays there too,  *)
(* because the entry that swallows the repetitions of a lost update is      *)
(* swept: provided the client keeps announcing its head, not all that is    *)
(* let through meets a full channel, and prioritised calls leave the loop   *)
(* time for others.                                                         *)
PeerFollowsClient ==
    \A h \in Heads :
        /\ <>[](up /\ want = h)
        /\ []<>(loop = "select")
        /\ ClientKeepsAnnouncing
        /\ SomeFindRoom
        => <>[](peerHead = h)
=============================================================================
