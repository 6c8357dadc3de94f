----------------------------- MODULE RingBuffer -----------------------------
(***************************************************************************)
(* A ring buffer used through its operations, one action each.  It is not   *)
(* safe for concurrent use and the code does not use it so.                 *)
(***************************************************************************)
EXTENDS RingBufferOps

CONSTANTS
    Values,         \* the elements pushed
    Capacity,       \* argument of NewRingBuffer
    MaxLength,      \* bound of the model: longest contents
    MaxForget       \* bound of the model: largest count forgotten, index read

ASSUME CapacityAssumption == Capacity \in Nat \ {0}
ASSUME BoundsAssumption   == MaxLength \in Nat /\ MaxForget \in Nat
ASSUME RingZeroAssumption == Zero \in Values

VARIABLES ring, ret

ringVars == <<ring, ret>>

RingInit == ring = NewRingBuffer(Capacity) /\ ret = None

DoPush(v) == Length(ring) < MaxLength /\ ring' = Push(ring, v) /\ ret' = None

DoPop == ring' = Pop(ring) /\ ret' = PopResult(ring)

DoPick == ring' = Pick(ring) /\ ret' = PickResult(ring)

DoForget(count) == ring' = Forget(ring, count) /\ ret' = None

DoAt(idx) == ret' = At(ring, idx) /\ UNCHANGED ring

RingNext ==
    \/ \E v \in Values : DoPush(v)
    \/ DoPop
    \/ DoPick
    \/ \E n \in 0 .. MaxForget : DoForget(n) \/ DoAt(n)

RingSpec == RingInit /\ [][RingNext]_ringVars

-----------------------------------------------------------------------------

(* head and tail are slots of the buffer, which has one slot per index.     *)
RingTypeOK ==
    /\ IsRing(ring, Values)
    /\ ret \in [ok : BOOLEAN, value : Values]

(* The ring buffer is a deque: growing, wrapping and overwriting slots are  *)
(* invisible, and each operation returns what it would return on the        *)
(* sequence of its contents.                                                *)
DequeOf == INSTANCE Deque WITH q <- Contents(ring), Counts <- 0 .. MaxForget
IsDeque == DequeOf!Spec
=============================================================================
