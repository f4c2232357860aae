SPECIFICATION DeskSpec
CONSTANTS
    Workers = {w1}
    Keys = {1, 2}
    Ids = {1, 2}
    Runs = {"r1"}
    Assignees = {"a1"}
    MaxTime = 3
    MaxTimeline = 4
    MaxEvents = 4
    Business <- OneBusiness
    CaseType <- Types
    EntityKind <- Kinds
    Payload <- Payloads
    Instants <- Clock
    Second = 10
    Buckets <- AgeBuckets
INVARIANTS
    ViewsAgree
    LatenciesCompose
    TriageIsStable
    QueriesPartition
PROPERTIES
    DegradedStays
    ImplementsCaseBoard
\* the clock stops at its bound and timelines at theirs
CHECK_DEADLOCK FALSE
