------------------------------- MODULE Deque -------------------------------
(***************************************************************************)
(* What data.RingBuffer promises: an unbounded sequence that is appended to *)
(* at its end, and shortened from either end.  ret is what the last         *)
(* operation returned.                                                      *)
(***************************************************************************)
EXTENDS Integers, Sequences

CONSTANTS
    Values,     \* what is pushed
    Zero,       \* what is returned when there is nothing to return
    Counts      \* counts that are forgotten, indices that are read

VARIABLES q, ret

vars == <<q, ret>>

None == [ok |-> FALSE, value |-> Zero]
Some(v) == [ok |-> TRUE, value |-> v]

Init == q = <<>> /\ ret = None

Push == \E v \in Values : q' = Append(q, v) /\ ret' = None

Pop == IF q = <<>> THEN ret' = None /\ UNCHANGED q
       ELSE ret' = Some(q[1]) /\ q' = Tail(q)

Pick == IF q = <<>> THEN ret' = None /\ UNCHANGED q
        ELSE ret' = Some(q[Len(q)]) /\ q' = SubSeq(q, 1, Len(q) - 1)

Forget == \E n \in Counts : /\ q' = IF n >= Len(q) THEN <<>> ELSE SubSeq(q, 1, Len(q) - n)
                         /\ ret' = None

At == \E n \in Counts : /\ ret' = IF n >= Len(q) THEN None ELSE Some(q[n + 1])
                     /\ UNCHANGED q

Next == Push \/ Pop \/ Pick \/ Forget \/ At

Spec == Init /\ [][Next]_vars
=============================================================================
