SPECIFICATION FairSpec
CONSTANTS
    Scripts = {p1, p2}
    Businesses = {b1, b2}
    Unconnected = {b2}
    Runs = {r1, r2}
    Connectors = 2
INVARIANTS
    LedgerIsTruthful
    BriefFollowsReport
    RepeatNeedsDisturbance
    EndedRunsAreComplete
PROPERTIES
    EveryRunEnds
    ImplementsRunLog
\* no run ids left, or no script started: nothing is obliged to happen
CHECK_DEADLOCK FALSE
