\* The job pipeline with and without the priority queue; peers may hang,
\* clients may never stop sending.
CONSTANTS
    Conns = {c1, c2}
    Peers = {p1}
    Backend = backend
    QueueCap = 1
    ChaosEnabled = TRUE
    NoConn = NoConn
SPECIFICATION FairSpec
INVARIANTS
    TypeOK
    JobConservation
    PriorityInversionBounded
PROPERTIES
    AnswersAreComplete
    RequestsAnswered
