--------------------------- MODULE RingBufferOps ---------------------------
(***************************************************************************)
(* The growable ring buffer of data/ring_buffer.go as operators on a record *)
(* [cap, buf, head, tail]: cap is len(b.buf), the slots are numbered from 0 *)
(* and a slot that was never written holds Zero.  One slot is always free,  *)
(* so head = tail means empty.                                              *)
(***************************************************************************)
EXTENDS Integers, Sequences

CONSTANT Zero       \* the zero value of the element type

NewRingBuffer(capacity) ==
    [ cap |-> capacity, buf |-> [i \in 0 .. capacity - 1 |-> Zero],
      head |-> 0, tail |-> 0 ]

Length(b) == IF b.head >= b.tail THEN b.head - b.tail
                                 ELSE b.cap + b.head - b.tail

(* Seeded fault: an index equal to the capacity is not reset to 0.          *)
WrapLate(i, cap) == IF i > cap THEN i - cap ELSE i

(* One step around the ring: b.head++ or b.tail++ with the reset to 0.      *)
Wrap(i, cap) == IF i >= cap THEN i - cap ELSE i

(* Seeded fault: the part of the contents that wrapped is copied one slot   *)
(* too far.                                                                 *)
GrowOffByOne(b) ==
    IF b.head >= b.tail
    THEN [b EXCEPT !.cap = 2 * b.cap,
                   !.buf = [i \in 0 .. 2 * b.cap - 1 |->
                              IF i < b.cap THEN b.buf[i] ELSE Zero]]
    ELSE [ cap |-> 2 * b.cap,
           buf |-> [i \in 0 .. 2 * b.cap - 1 |->
                      IF i < b.cap - b.tail THEN b.buf[b.tail + i]
                      ELSE IF i \in b.cap - b.tail + 1 .. Length(b)
                           THEN b.buf[i - 1 - (b.cap - b.tail)]
                      ELSE Zero],
           head |-> Length(b),
           tail |-> 0 ]

(* The two growing branches of Push: the slots in place when the contents   *)
(* do not wrap, unrolled to start at 0 when they do.                        *)
Grow(b) ==
    IF b.head >= b.tail
    THEN [b EXCEPT !.cap = 2 * b.cap,
                   !.buf = [i \in 0 .. 2 * b.cap - 1 |->
                              IF i < b.cap THEN b.buf[i] ELSE Zero]]
    ELSE LET size == Length(b) IN
         [ cap |-> 2 * b.cap,
           buf |-> [i \in 0 .. 2 * b.cap - 1 |->
                      IF i < b.cap - b.tail THEN b.buf[b.tail + i]
                      ELSE IF i < size THEN b.buf[i - (b.cap - b.tail)]
                      ELSE Zero],
           head |-> size,
           tail |-> 0 ]

Full(b) == Length(b) = b.cap - 1

(* b.buf[b.head] = value; b.head++                                          *)
Store(b, value) ==
    [ cap |-> b.cap, buf |-> [b.buf EXCEPT ![b.head] = value],
      head |-> Wrap(b.head + 1, b.cap), tail |-> b.tail ]

Push(b, value) == Store(IF Full(b) THEN Grow(b) ELSE b, value)

(* The operations that return (T, bool) are split in what they return and   *)
(* what they leave behind.                                                  *)
None == [ok |-> FALSE, value |-> Zero]
Some(v) == [ok |-> TRUE, value |-> v]

PopResult(b) == IF b.head = b.tail THEN None ELSE Some(b.buf[b.tail])

Pop(b) == IF b.head = b.tail THEN b
          ELSE [b EXCEPT !.tail = Wrap(b.tail + 1, b.cap)]

(* Stepping back: b.head -= count, with the capacity added below 0.         *)
Back(i, cap) == IF i < 0 THEN i + cap ELSE i

Pick(b) == IF b.head = b.tail THEN b
           ELSE [b EXCEPT !.head = Back(b.head - 1, b.cap)]

PickResult(b) == IF b.head = b.tail THEN None ELSE Some(b.buf[Pick(b).head])

Forget(b, count) ==
    IF count >= Length(b) THEN [b EXCEPT !.head = 0, !.tail = 0]
    ELSE [b EXCEPT !.head = Back(b.head - count, b.cap)]

At(b, idx) == IF idx >= Length(b) THEN None
              ELSE Some(b.buf[Wrap(b.tail + idx, b.cap)])

-----------------------------------------------------------------------------

(* b is a ring buffer with elements in S: head and tail are slots, and the  *)
(* buffer has one slot per index.                                           *)
IsRing(b, S) ==
    /\ b = [cap |-> b.cap, buf |-> b.buf, head |-> b.head, tail |-> b.tail]
    /\ b.cap \in Nat \ {0}
    /\ b.buf \in [0 .. b.cap - 1 -> S]
    /\ b.head \in 0 .. b.cap - 1
    /\ b.tail \in 0 .. b.cap - 1

(* What a ring buffer stands for: its elements, oldest first.               *)
Contents(b) == [i \in 1 .. Length(b) |-> b.buf[(b.tail + i - 1) % b.cap]]
=============================================================================
