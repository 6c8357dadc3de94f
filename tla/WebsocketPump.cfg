\* One pump: messages in both directions, failures at any time, one stop.
CONSTANTS
    Configs <- MCConfigs
    MessagesCap = 1
SPECIFICATION FairSpec
INVARIANT TypeOK
PROPERTIES
    IsStream
    EverythingPassed
    BothSidesClose
    GoroutinesEnd
CHECK_DEADLOCK FALSE
