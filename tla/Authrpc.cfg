\* EvictAfter and Period are the 30 s of the code, in ticks of 15 s.
CONSTANTS
    Handlers = {c1, c2}
    Heads = {A, B}
    EvictAfter = 2
    Period = 2
    DeduplicateFCUs = TRUE
    MirrorGetPayload = TRUE
    NoHead = NoHead
    Nil = Nil
SPECIFICATION FairSpec
INVARIANTS
    TypeOK
    NoRepetitions
    AnswersNotStale
PROPERTY BackendFollowsClient
