\* The thresholds differ, so that the buffer is deeper than the shorter one.
CONSTANTS
    Zero = FALSE
    ThresholdHealthy = 3
    ThresholdUnhealthy = 2
SPECIFICATION FairSpec
INVARIANTS
    TypeOK
    HoldsLatestOutcomes
    StreaksDecide
PROPERTIES
    OnlyStreaksDecide
    VerdictFollowsBackend
