\* From capacity 1 the buffer grows three times, wrapped and unwrapped.
CONSTANTS
    Zero = 0
    Values = {0, 1}
    Capacity = 1
    MaxLength = 5
    MaxForget = 6
SPECIFICATION RingSpec
INVARIANT RingTypeOK
PROPERTY IsDeque
