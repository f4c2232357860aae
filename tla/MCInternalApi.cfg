SPECIFICATION ApiSpec
CONSTANTS
    Workers = {s1, s2, r1, r2}
    Requests = {r1, r2}
    Asks <- Everything
    Keys = {1}
    Ids = {1, 2}
    Runs = {}
    Assignees = {"a1"}
    MaxTime = 1
    MaxTimeline = 2
    Business <- OneBusiness
    CaseType <- Types
    EntityKind <- Kinds
    Payload <- Payloads
    Instants <- Clock
    Second = 1000000
    Buckets <- AgeBuckets
SYMMETRY Symmetry
INVARIANTS
    ActionsAreTraceable
    BriefTellsOneStory
    ReportedCountsAreTrue
PROPERTIES
    WritesStayInScope
\* requests are served once, and timelines stop at their bound
CHECK_DEADLOCK FALSE
