\* Two sessions from the same address, any number of resets, a stop, and pumps
\* that fail at any time.
CONSTANTS
    s1 = s1  s2 = s2  a1 = a1  a2 = a2
    Sessions = {s1, s2}
    Addrs = {a1}
    RemoteAddr <- MCSameAddr
    Countdown = 1
    Nil = Nil
SPECIFICATION FairSpec
INVARIANTS
    TypeOK
    PumpsAreLive
    NeverDoubleClosed
    StopLeavesOnlyUnready
PROPERTIES
    ResetIsThorough
    ResetReturns
    ClosedSessionsEnd
CHECK_DEADLOCK FALSE
