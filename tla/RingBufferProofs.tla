-------------------------- MODULE RingBufferProofs --------------------------
(***************************************************************************)
(* What each operation of the ring buffer does to its contents, and from it *)
(* that the ring buffer implements the deque, for every initial capacity,   *)
(* every set of values and every length.                                    *)
(***************************************************************************)
EXTENDS RingBuffer, SequenceTheorems, TLAPS

(* Modulo is one conditional subtraction on the indices that occur.         *)
LEMMA ModIsWrap ==
    ASSUME NEW cap \in Nat \ {0}, NEW n \in 0 .. 2 * cap - 1
    PROVE  /\ n % cap = Wrap(n, cap)
           /\ n % cap \in 0 .. cap - 1
<1>1. CASE n < cap
  BY <1>1 DEF Wrap
<1>2. CASE n >= cap
  BY <1>2 DEF Wrap
<1> QED BY <1>1, <1>2

(* The contents of a ring buffer are a sequence of its length.              *)
LEMMA ContentsFacts ==
    ASSUME NEW S, NEW b, IsRing(b, S)
    PROVE  /\ Length(b) \in 0 .. b.cap - 1
           /\ Contents(b) \in Seq(S)
           /\ Len(Contents(b)) = Length(b)
           /\ \A i \in 1 .. Length(b) :
                /\ b.tail + i - 1 \in 0 .. 2 * b.cap - 1
                /\ Wrap(b.tail + i - 1, b.cap) \in 0 .. b.cap - 1
                /\ Contents(b)[i] = b.buf[Wrap(b.tail + i - 1, b.cap)]
           /\ b.head = b.tail <=> Length(b) = 0
           /\ Contents(b) = <<>> <=> Length(b) = 0
<1> USE DEF IsRing
<1>1. Length(b) \in 0 .. b.cap - 1 /\ (b.head = b.tail <=> Length(b) = 0)
  BY DEF Length
<1>2. \A i \in 1 .. Length(b) : b.tail + i - 1 \in 0 .. 2 * b.cap - 1
  BY <1>1
<1>3. \A i \in 1 .. Length(b) :
        /\ (b.tail + i - 1) % b.cap = Wrap(b.tail + i - 1, b.cap)
        /\ Wrap(b.tail + i - 1, b.cap) \in 0 .. b.cap - 1
  BY <1>2, ModIsWrap
<1>4. Contents(b) \in [1 .. Length(b) -> S]
  BY <1>1, <1>3 DEF Contents
<1>5. Contents(b) \in Seq(S) /\ Len(Contents(b)) = Length(b)
  BY <1>1, <1>4
<1>6. Contents(b) = <<>> <=> Length(b) = 0
  BY <1>5, EmptySeq
<1>7. \A i \in 1 .. Length(b) : Contents(b)[i] = b.buf[Wrap(b.tail + i - 1, b.cap)]
  BY <1>3 DEF Contents
<1> QED BY <1>1, <1>2, <1>3, <1>5, <1>6, <1>7

(* A new buffer is empty.                                                   *)
LEMMA NewFacts ==
    ASSUME NEW S, Zero \in S, NEW capacity \in Nat \ {0}
    PROVE  /\ IsRing(NewRingBuffer(capacity), S)
           /\ Contents(NewRingBuffer(capacity)) = <<>>
<1>1. IsRing(NewRingBuffer(capacity), S) /\ Length(NewRingBuffer(capacity)) = 0
  BY DEF IsRing, NewRingBuffer, Length
<1> QED BY <1>1, ContentsFacts

(* Growing keeps the contents, wrapped or not, and makes room.              *)
LEMMA GrowFacts ==
    ASSUME NEW S, Zero \in S, NEW b, IsRing(b, S), Full(b)
    PROVE  /\ IsRing(Grow(b), S)
           /\ Length(Grow(b)) < Grow(b).cap - 1
           /\ Contents(Grow(b)) = Contents(b)
<1> DEFINE g == Grow(b)
<1> USE DEF IsRing, Full
<1>0. Length(b) = b.cap - 1 /\ b.cap \in Nat \ {0}
  OBVIOUS
<1>1. /\ IsRing(g, S) /\ Length(g) = Length(b) /\ g.cap = 2 * b.cap
      /\ \A i \in 1 .. Length(b) : g.buf[Wrap(g.tail + i - 1, g.cap)]
                                     = b.buf[Wrap(b.tail + i - 1, b.cap)]
  <2>1. CASE b.head >= b.tail
    <3>1. b.tail = 0 /\ b.head = b.cap - 1
      BY <1>0, <2>1 DEF Length
    <3>2. g = [cap |-> 2 * b.cap,
               buf |-> [i \in 0 .. 2 * b.cap - 1 |-> IF i < b.cap THEN b.buf[i] ELSE Zero],
               head |-> b.head, tail |-> b.tail]
      BY <2>1 DEF Grow
    <3> HIDE DEF g
    <3>3. IsRing(g, S) /\ Length(g) = Length(b) /\ g.cap = 2 * b.cap
      BY <3>1, <3>2 DEF Length
    <3>4. \A i \in 1 .. Length(b) : g.buf[Wrap(g.tail + i - 1, g.cap)]
                                      = b.buf[Wrap(b.tail + i - 1, b.cap)]
      BY <1>0, <3>1, <3>2 DEF Wrap
    <3> QED BY <3>3, <3>4 DEF g
  <2>2. CASE b.head < b.tail
    <3>1. b.head = b.tail - 1
      BY <1>0, <2>2 DEF Length
    <3>2. g = [cap |-> 2 * b.cap,
               buf |-> [i \in 0 .. 2 * b.cap - 1 |->
                      IF i < b.cap - b.tail THEN b.buf[b.tail + i]
                      ELSE IF i < Length(b) THEN b.buf[i - (b.cap - b.tail)]
                      ELSE Zero],
               head |-> Length(b), tail |-> 0]
      BY <2>2 DEF Grow
    <3> HIDE DEF g
    <3>3. g.buf \in [0 .. g.cap - 1 -> S]
      <4>1. ASSUME NEW i \in 0 .. 2 * b.cap - 1 PROVE g.buf[i] \in S
        <5>1. CASE i < b.cap - b.tail
          BY <1>0, <3>1, <3>2, <5>1
        <5>2. CASE i >= b.cap - b.tail /\ i < Length(b)
          <6>1. i - (b.cap - b.tail) \in 0 .. b.cap - 1
            BY <1>0, <3>1, <5>2
          <6>2. g.buf[i] = b.buf[i - (b.cap - b.tail)]
            BY <1>0, <3>2, <5>2
          <6> QED BY <6>1, <6>2
        <5>3. CASE i >= Length(b)
          <6>1. ~(i < b.cap - b.tail)
            BY <1>0, <3>1, <5>3
          <6> QED BY <1>0, <3>1, <3>2, <5>3, <6>1
        <5> QED BY <1>0, <3>1, <5>1, <5>2, <5>3
      <4>2. g.buf = [i \in 0 .. 2 * b.cap - 1 |-> g.buf[i]] /\ g.cap = 2 * b.cap
        BY <3>2
      <4> QED BY <4>1, <4>2
    <3>4. IsRing(g, S) /\ Length(g) = Length(b) /\ g.cap = 2 * b.cap
      BY <1>0, <3>2, <3>3 DEF Length
    <3>5. \A i \in 1 .. Length(b) : g.buf[Wrap(g.tail + i - 1, g.cap)]
                                      = b.buf[Wrap(b.tail + i - 1, b.cap)]
      BY <1>0, <3>1, <3>2 DEF Wrap
    <3> QED BY <3>4, <3>5 DEF g
  <2> QED BY <2>1, <2>2
<1> HIDE DEF g
<1>2. Contents(g) = Contents(b)
  <2>1. /\ Contents(g) \in Seq(S) /\ Len(Contents(g)) = Length(b)
        /\ Contents(b) \in Seq(S) /\ Len(Contents(b)) = Length(b)
    BY <1>1, ContentsFacts
  <2>2. \A i \in 1 .. Length(b) : Contents(g)[i] = Contents(b)[i]
    BY <1>1, ContentsFacts
  <2> QED BY <2>1, <2>2, SeqEqual
<1>3. Length(g) < g.cap - 1
  BY <1>0, <1>1
<1> QED BY <1>1, <1>2, <1>3 DEF g

(* The length after one more slot is taken (plain arithmetic).              *)
LEMMA HeadAdvances ==
    ASSUME NEW cap \in Nat \ {0}, NEW head \in 0 .. cap - 1, NEW tail \in 0 .. cap - 1,
           (IF head >= tail THEN head - tail ELSE cap + head - tail) < cap - 1
    PROVE  (IF Wrap(head + 1, cap) >= tail THEN Wrap(head + 1, cap) - tail
                                           ELSE cap + Wrap(head + 1, cap) - tail)
             = (IF head >= tail THEN head - tail ELSE cap + head - tail) + 1
BY DEF Wrap

(* Push appends to the contents.                                            *)
LEMMA PushFacts ==
    ASSUME NEW S, Zero \in S, NEW b, IsRing(b, S), NEW v \in S
    PROVE  IsRing(Push(b, v), S) /\ Contents(Push(b, v)) = Append(Contents(b), v)
<1> DEFINE g == IF Full(b) THEN Grow(b) ELSE b
           r == Push(b, v)
<1>1. IsRing(g, S) /\ Length(g) < g.cap - 1 /\ Contents(g) = Contents(b)
  <2>1. CASE Full(b)
    BY <2>1, GrowFacts
  <2>2. CASE ~Full(b)
    BY <2>2, ContentsFacts DEF Full, IsRing
  <2> QED BY <2>1, <2>2
<1>2. r = [cap |-> g.cap, buf |-> [g.buf EXCEPT ![g.head] = v],
           head |-> Wrap(g.head + 1, g.cap), tail |-> g.tail]
  BY DEF Push, Store
<1> HIDE DEF g, r
<1>3. IsRing(r, S) /\ Length(r) = Length(g) + 1 /\ r.cap = g.cap /\ r.tail = g.tail
  <2>1. /\ r.cap = g.cap /\ r.tail = g.tail /\ r.head = Wrap(g.head + 1, g.cap)
        /\ r.buf = [g.buf EXCEPT ![g.head] = v]
        /\ r = [cap |-> r.cap, buf |-> r.buf, head |-> r.head, tail |-> r.tail]
    BY <1>2
  <2>2. /\ g.cap \in Nat \ {0} /\ g.head \in 0 .. g.cap - 1 /\ g.tail \in 0 .. g.cap - 1
        /\ g.buf \in [0 .. g.cap - 1 -> S]
    BY <1>1 DEF IsRing
  <2>3. r.buf \in [0 .. r.cap - 1 -> S]
    BY <2>1, <2>2
  <2>4. r.head \in 0 .. g.cap - 1
    BY <2>1, <2>2 DEF Wrap
  <2>5. Length(r) = Length(g) + 1
    <3> DEFINE L(h) == IF h >= g.tail THEN h - g.tail ELSE g.cap + h - g.tail
    <3>1. L(g.head) < g.cap - 1 /\ Length(g) = L(g.head) /\ Length(r) = L(Wrap(g.head + 1, g.cap))
      BY <1>1, <2>1 DEF Length
    <3>2. L(Wrap(g.head + 1, g.cap)) = L(g.head) + 1
      BY <2>2, <3>1, HeadAdvances
    <3> QED BY <3>1, <3>2
  <2> QED BY <2>1, <2>2, <2>3, <2>4, <2>5 DEF IsRing
<1>4. Wrap(g.tail + Length(g), g.cap) = g.head
  BY <1>1 DEF IsRing, Wrap, Length
<1>5. \A i \in 1 .. Length(g) : Wrap(g.tail + i - 1, g.cap) /= g.head
  BY <1>1 DEF IsRing, Wrap, Length
<1>6. \A i \in 1 .. Length(g) : Contents(r)[i] = Contents(g)[i]
  <2> TAKE i \in 1 .. Length(g)
  <2>1. i \in 1 .. Length(r) /\ Length(g) \in Nat
    BY <1>1, <1>3, ContentsFacts
  <2>2. Contents(r)[i] = r.buf[Wrap(g.tail + i - 1, g.cap)]
    BY <1>3, <2>1, ContentsFacts
  <2>3. /\ Contents(g)[i] = g.buf[Wrap(g.tail + i - 1, g.cap)]
        /\ Wrap(g.tail + i - 1, g.cap) \in 0 .. g.cap - 1
    BY <1>1, ContentsFacts
  <2>4. r.buf[Wrap(g.tail + i - 1, g.cap)] = g.buf[Wrap(g.tail + i - 1, g.cap)]
    BY <1>1, <1>2, <1>5, <2>3 DEF IsRing
  <2> QED BY <2>2, <2>3, <2>4
<1>7. Contents(r)[Length(g) + 1] = v
  <2>1. Length(g) \in Nat /\ Length(g) + 1 \in 1 .. Length(r)
    BY <1>1, <1>3, ContentsFacts
  <2>2. Contents(r)[Length(g) + 1] = r.buf[Wrap(g.tail + (Length(g) + 1) - 1, g.cap)]
    BY <1>3, <2>1, ContentsFacts
  <2>3. g.tail + (Length(g) + 1) - 1 = g.tail + Length(g)
    BY <1>1, <2>1 DEF IsRing
  <2>4. r.buf[g.head] = v
    BY <1>1, <1>2 DEF IsRing
  <2> QED BY <1>4, <2>2, <2>3, <2>4
<1>8. Contents(r) = Append(Contents(g), v)
  <2> DEFINE C == Contents(g)  R == Contents(r)
  <2>1. C \in Seq(S) /\ Len(C) = Length(g) /\ R \in Seq(S) /\ Len(R) = Length(g) + 1
    BY <1>1, <1>3, ContentsFacts
  <2>2. \A i \in 1 .. Len(C) : R[i] = C[i]
    BY <1>6, <2>1
  <2>3. R[Len(C) + 1] = v
    BY <1>7, <2>1
  <2> HIDE DEF C, R
  <2>4. /\ Append(C, v) \in Seq(S) /\ Len(Append(C, v)) = Len(C) + 1
        /\ \A i \in 1 .. Len(C) : Append(C, v)[i] = C[i]
        /\ Append(C, v)[Len(C) + 1] = v
    BY <2>1
  <2>5. \A i \in 1 .. Len(R) : R[i] = Append(C, v)[i]
    BY <2>1, <2>2, <2>3, <2>4
  <2>6. R = Append(C, v)
    BY <2>1, <2>4, <2>5, SeqEqual
  <2> QED BY <2>6 DEF C, R
<1> QED BY <1>1, <1>3, <1>8 DEF r

(* Pop removes and returns the first element, if there is one.              *)
LEMMA PopFacts ==
    ASSUME NEW S, NEW b, IsRing(b, S)
    PROVE  /\ IsRing(Pop(b), S)
           /\ Contents(b) = <<>> => Pop(b) = b /\ PopResult(b) = None
           /\ Contents(b) /= <<>> => /\ Contents(Pop(b)) = Tail(Contents(b))
                                     /\ PopResult(b) = Some(Contents(b)[1])
<1>1. CASE b.head = b.tail
  BY <1>1, ContentsFacts DEF Pop, PopResult
<1>2. CASE b.head /= b.tail
  <2> DEFINE r == Pop(b)  C == Contents(b)  R == Contents(r)
  <2>1. r = [cap |-> b.cap, buf |-> b.buf, head |-> b.head, tail |-> Wrap(b.tail + 1, b.cap)]
    BY <1>2 DEF Pop, IsRing
  <2>2. C \in Seq(S) /\ C /= <<>> /\ Len(C) = Length(b) /\ Length(b) \in 1 .. b.cap - 1
    <3>1. Length(b) \in 0 .. b.cap - 1 /\ Length(b) /= 0 /\ b.cap \in Nat
      BY <1>2, ContentsFacts DEF IsRing
    <3> QED BY <3>1, ContentsFacts
  <2> HIDE DEF r
  <2>3. IsRing(r, S) /\ Length(r) = Length(b) - 1 /\ r.cap = b.cap /\ r.buf = b.buf
    BY <1>2, <2>1 DEF IsRing, Wrap, Length
  <2>4. R \in Seq(S) /\ Len(R) = Length(b) - 1
    BY <2>3, ContentsFacts
  <2>5. \A i \in 1 .. Length(b) - 1 : R[i] = C[i + 1]
    <3> TAKE i \in 1 .. Length(b) - 1
    <3>1. i \in 1 .. Length(r) /\ i + 1 \in 1 .. Length(b)
      BY <2>2, <2>3
    <3>2. R[i] = b.buf[Wrap(r.tail + i - 1, b.cap)]
      BY <2>3, <3>1, ContentsFacts
    <3>3. C[i + 1] = b.buf[Wrap(b.tail + (i + 1) - 1, b.cap)]
      BY <3>1, ContentsFacts
    <3>4. Wrap(r.tail + i - 1, b.cap) = Wrap(b.tail + (i + 1) - 1, b.cap)
      BY <2>1, <2>2 DEF IsRing, Wrap
    <3> QED BY <3>2, <3>3, <3>4
  <2>6. C[1] = b.buf[b.tail]
    <3>1. C[1] = b.buf[Wrap(b.tail + 1 - 1, b.cap)]
      BY <2>2, ContentsFacts
    <3>2. Wrap(b.tail + 1 - 1, b.cap) = b.tail
      BY DEF IsRing, Wrap
    <3> QED BY <3>1, <3>2
  <2> HIDE DEF C, R
  <2>7. R = Tail(C)
    <3>1. Tail(C) \in Seq(S) /\ Len(Tail(C)) = Len(C) - 1 /\ \A i \in 1 .. Len(C) - 1 : Tail(C)[i] = C[i + 1]
      BY <2>2, HeadTailProperties
    <3> QED BY <2>2, <2>4, <2>5, <3>1, SeqEqual
  <2> QED BY <1>2, <2>2, <2>3, <2>6, <2>7 DEF r, C, R, PopResult
<1> QED BY <1>1, <1>2

(* Dropping n elements at the head leaves a prefix of the contents.         *)
LEMMA BackFacts ==
    ASSUME NEW S, NEW b, IsRing(b, S), NEW n \in Nat, n <= Length(b),
           NEW r, r = [b EXCEPT !.head = Back(b.head - n, b.cap)]
    PROVE  /\ IsRing(r, S)
           /\ Contents(r) = SubSeq(Contents(b), 1, Length(b) - n)
           /\ n >= 1 => Contents(b)[Length(b) - n + 1] = b.buf[r.head]
<1> DEFINE C == Contents(b)  R == Contents(r)
<1>1. r = [cap |-> b.cap, buf |-> b.buf, head |-> Back(b.head - n, b.cap), tail |-> b.tail]
  BY DEF IsRing
<1>2. C \in Seq(S) /\ Len(C) = Length(b) /\ Length(b) \in 0 .. b.cap - 1
  BY ContentsFacts
<1>3. IsRing(r, S) /\ Length(r) = Length(b) - n /\ r.cap = b.cap /\ r.buf = b.buf /\ r.tail = b.tail
  BY <1>1 DEF IsRing, Back, Length
<1>4. R \in Seq(S) /\ Len(R) = Length(b) - n
  BY <1>3, ContentsFacts
<1>5. \A i \in 1 .. Length(b) - n : R[i] = C[i]
  <2> TAKE i \in 1 .. Length(b) - n
  <2>1. i \in 1 .. Length(b) /\ i \in 1 .. Length(r)
    BY <1>2, <1>3
  <2>2. R[i] = b.buf[Wrap(b.tail + i - 1, b.cap)]
    BY <1>3, <2>1, ContentsFacts
  <2>3. C[i] = b.buf[Wrap(b.tail + i - 1, b.cap)]
    BY <2>1, ContentsFacts
  <2> QED BY <2>2, <2>3
<1>6. n >= 1 => C[Length(b) - n + 1] = b.buf[r.head]
  <2> SUFFICES ASSUME n >= 1 PROVE C[Length(b) - n + 1] = b.buf[r.head]
    OBVIOUS
  <2>1. Length(b) - n + 1 \in 1 .. Length(b)
    BY <1>2
  <2>2. C[Length(b) - n + 1] = b.buf[Wrap(b.tail + (Length(b) - n + 1) - 1, b.cap)]
    BY <2>1, ContentsFacts
  <2>3. Wrap(b.tail + (Length(b) - n + 1) - 1, b.cap) = r.head
    BY <1>1, <1>2 DEF IsRing, Wrap, Back, Length
  <2> QED BY <2>2, <2>3
<1> HIDE DEF C, R
<1>7. R = SubSeq(C, 1, Length(b) - n)
  <2>1. \A i \in 1 .. Length(b) - n : C[i] \in S
    BY <1>2
  <2>2. /\ SubSeq(C, 1, Length(b) - n) \in Seq(S)
        /\ Len(SubSeq(C, 1, Length(b) - n)) = Length(b) - n
        /\ \A i \in 1 .. Length(b) - n : SubSeq(C, 1, Length(b) - n)[i] = C[i]
    BY <1>2, <2>1, SubSeqProperties
  <2> QED BY <1>4, <1>5, <2>2, SeqEqual
<1> QED BY <1>3, <1>6, <1>7 DEF C, R

(* At reads the contents.                                                   *)
LEMMA AtFacts ==
    ASSUME NEW S, NEW b, IsRing(b, S), NEW idx \in Nat
    PROVE  At(b, idx) = IF idx >= Len(Contents(b)) THEN None ELSE Some(Contents(b)[idx + 1])
<1>1. Len(Contents(b)) = Length(b) /\ Length(b) \in Nat
  BY ContentsFacts
<1>2. CASE idx >= Length(b)
  BY <1>1, <1>2 DEF At
<1>3. CASE idx < Length(b)
  <2>1. idx + 1 \in 1 .. Length(b)
    BY <1>1, <1>3
  <2>2. Contents(b)[idx + 1] = b.buf[Wrap(b.tail + (idx + 1) - 1, b.cap)]
    BY <2>1, ContentsFacts
  <2>3. b.tail + (idx + 1) - 1 = b.tail + idx
    BY DEF IsRing
  <2> QED BY <1>1, <1>3, <2>2, <2>3 DEF At
<1> QED BY <1>1, <1>2, <1>3

-----------------------------------------------------------------------------
(* The ring buffer in use.                                                  *)

USE CapacityAssumption, BoundsAssumption, RingZeroAssumption

(* None and Some are results.                                               *)
LEMMA ResultTypes ==
    /\ None \in [ok : BOOLEAN, value : Values]
    /\ \A v \in Values : Some(v) \in [ok : BOOLEAN, value : Values]
BY DEF None, Some

(* A non-empty sequence has a first and a last element, of its values.      *)
LEMMA EndsFacts ==
    ASSUME IsRing(ring, Values)
    PROVE  /\ Contents(ring) \in Seq(Values)
           /\ Contents(ring) /= <<>> => Len(Contents(ring)) \in Nat \ {0}
           /\ \A i \in 1 .. Len(Contents(ring)) : Contents(ring)[i] \in Values
<1>1. Contents(ring) \in Seq(Values)
  BY ContentsFacts
<1> QED BY <1>1, EmptySeq, ElementOfSeq

(* Every operation does to the contents what the deque does.                *)
LEMMA StepRefines ==
    ASSUME RingTypeOK, [RingNext]_ringVars
    PROVE  RingTypeOK' /\ [DequeOf!Next]_(DequeOf!vars)
<1> DEFINE C == Contents(ring)
<1>0. /\ IsRing(ring, Values) /\ C \in Seq(Values)
      /\ C /= <<>> => Len(C) \in Nat \ {0}
      /\ \A i \in 1 .. Len(C) : C[i] \in Values
      /\ Len(C) = Length(ring) /\ Length(ring) \in Nat
      /\ ring.head = ring.tail <=> C = <<>>
      /\ C = <<>> <=> Len(C) = 0
  BY EndsFacts, ContentsFacts DEF RingTypeOK
<1> None = DequeOf!None /\ \A v : Some(v) = DequeOf!Some(v)
  BY DEF None, Some, DequeOf!None, DequeOf!Some
<1> USE ResultTypes
<1>1. ASSUME NEW v \in Values, DoPush(v) PROVE RingTypeOK' /\ DequeOf!Push
  <2>1. IsRing(ring', Values) /\ Contents(ring') = Append(C, v) /\ ret' = None
    <3>1. ring' = Push(ring, v) /\ ret' = None
      BY <1>1 DEF DoPush
    <3>2. IsRing(Push(ring, v), Values) /\ Contents(Push(ring, v)) = Append(C, v)
      BY <1>0, PushFacts
    <3> QED BY <3>1, <3>2
  <2>2. Contents(ring)' = Append(C, v)
    BY <2>1 DEF Contents, Length
  <2> QED BY <2>1, <2>2 DEF RingTypeOK, IsRing, DequeOf!Push
<1>2. ASSUME DoPop PROVE RingTypeOK' /\ DequeOf!Pop
  <2>1. /\ IsRing(ring', Values) /\ ret' = PopResult(ring) /\ ring' = Pop(ring)
        /\ C = <<>> => ring' = ring /\ ret' = None
        /\ C /= <<>> => Contents(ring') = Tail(C) /\ ret' = Some(C[1])
    <3>1. ring' = Pop(ring) /\ ret' = PopResult(ring)
      BY <1>2 DEF DoPop
    <3> QED BY <1>0, <3>1, PopFacts
  <2>2. Contents(ring)' = Contents(ring')
    BY DEF Contents, Length
  <2>3. RingTypeOK'
    BY <1>0, <2>1 DEF RingTypeOK, IsRing
  <2>4. CASE C = <<>>
    BY <2>1, <2>3, <2>4 DEF DequeOf!Pop
  <2>5. CASE C /= <<>>
    BY <2>1, <2>2, <2>3, <2>5 DEF DequeOf!Pop
  <2> QED BY <2>4, <2>5
<1>3. ASSUME DoPick PROVE RingTypeOK' /\ DequeOf!Pick
  <2>1. ring' = Pick(ring) /\ ret' = PickResult(ring)
    BY <1>3 DEF DoPick
  <2>2. CASE C = <<>>
    BY <1>0, <2>1, <2>2 DEF Pick, PickResult, RingTypeOK, DequeOf!Pick
  <2>3. CASE C /= <<>>
    <3>1. ring' = [ring EXCEPT !.head = Back(ring.head - 1, ring.cap)]
      BY <1>0, <2>1, <2>3 DEF Pick
    <3>2. ret' = Some(ring.buf[ring'.head])
      BY <1>0, <2>1, <2>3 DEF PickResult
    <3>3. 1 <= Length(ring)
      BY <1>0, <2>3
    <3>4. /\ IsRing(ring', Values)
          /\ Contents(ring') = SubSeq(C, 1, Length(ring) - 1)
          /\ C[Length(ring) - 1 + 1] = ring.buf[ring'.head]
      BY <1>0, <3>1, <3>3, BackFacts
    <3>5. ret' = Some(C[Len(C)]) /\ C[Len(C)] \in Values
      BY <1>0, <2>3, <3>2, <3>4
    <3>6. Contents(ring)' = SubSeq(C, 1, Len(C) - 1)
      BY <1>0, <3>4 DEF Contents, Length
    <3>7. RingTypeOK'
      BY <3>4, <3>5 DEF RingTypeOK, IsRing
    <3> QED BY <2>3, <3>5, <3>6, <3>7 DEF DequeOf!Pick
  <2> QED BY <2>2, <2>3
<1>4. ASSUME NEW n \in 0 .. MaxForget, DoForget(n) PROVE RingTypeOK' /\ DequeOf!Forget
  <2>1. ring' = Forget(ring, n) /\ ret' = None /\ n \in Nat
    BY <1>4 DEF DoForget
  <2>2. CASE n >= Length(ring)
    <3>1. ring' = [cap |-> ring.cap, buf |-> ring.buf, head |-> 0, tail |-> 0]
      BY <1>0, <2>1, <2>2 DEF Forget, IsRing
    <3>2. IsRing(ring', Values) /\ Length(ring') = 0
      BY <1>0, <3>1 DEF IsRing, Length
    <3>3. Contents(ring') = <<>>
      BY <3>2, ContentsFacts
    <3>4. Contents(ring)' = <<>>
      BY <3>3 DEF Contents, Length
    <3> QED BY <1>0, <2>1, <2>2, <3>2, <3>4 DEF RingTypeOK, IsRing, DequeOf!Forget
  <2>3. CASE ~(n >= Length(ring))
    <3>1. ring' = [ring EXCEPT !.head = Back(ring.head - n, ring.cap)]
      BY <2>1, <2>3 DEF Forget
    <3>2. IsRing(ring', Values) /\ Contents(ring') = SubSeq(C, 1, Length(ring) - n)
      BY <1>0, <2>1, <2>3, <3>1, BackFacts
    <3>3. Contents(ring)' = SubSeq(C, 1, Len(C) - n)
      BY <1>0, <3>2 DEF Contents, Length
    <3> QED BY <1>0, <2>1, <2>3, <3>2, <3>3 DEF RingTypeOK, IsRing, DequeOf!Forget
  <2> QED BY <2>2, <2>3
<1>5. ASSUME NEW n \in 0 .. MaxForget, DoAt(n) PROVE RingTypeOK' /\ DequeOf!At
  <2>1. ring' = ring /\ ret' = At(ring, n) /\ n \in Nat
    BY <1>5 DEF DoAt
  <2>2. ret' = IF n >= Len(C) THEN None ELSE Some(C[n + 1])
    BY <1>0, <2>1, AtFacts
  <2>3. ret' \in [ok : BOOLEAN, value : Values]
    BY <1>0, <2>1, <2>2
  <2> QED BY <1>0, <2>1, <2>2, <2>3 DEF RingTypeOK, DequeOf!At
<1>6. ASSUME UNCHANGED ringVars PROVE RingTypeOK' /\ UNCHANGED DequeOf!vars
  BY <1>6 DEF ringVars, RingTypeOK, DequeOf!vars
<1> QED BY <1>1, <1>2, <1>3, <1>4, <1>5, <1>6 DEF RingNext, DequeOf!Next

(* head and tail always stay inside the buffer.                             *)
THEOREM RingTypeCorrect == RingSpec => []RingTypeOK
<1>1. RingInit => RingTypeOK
  BY NewFacts, ResultTypes DEF RingInit, RingTypeOK
<1>2. RingTypeOK /\ [RingNext]_ringVars => RingTypeOK'
  BY StepRefines
<1> QED BY <1>1, <1>2, PTL DEF RingSpec

(* The ring buffer implements the deque.                                    *)
THEOREM RingRefinement == RingSpec => IsDeque
<1>1. RingInit => DequeOf!Init
  BY NewFacts DEF RingInit, DequeOf!Init, None, DequeOf!None
<1>2. RingTypeOK /\ [RingNext]_ringVars => [DequeOf!Next]_(DequeOf!vars)
  BY StepRefines
<1> QED BY <1>1, <1>2, RingTypeCorrect, PTL DEF RingSpec, IsDeque, DequeOf!Spec
=============================================================================
