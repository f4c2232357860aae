SPECIFICATION Spec
CONSTANTS
    Workers = {w1, w2}
    Keys = {k1}
    Ids = {c1, c2}
    Runs = {r1}
    Assignees = {a1}
    MaxTime = 2
    MaxTimeline = 3
SYMMETRY Symmetry
INVARIANTS
    TypeOK
    OneRowPerKey
    TimelinesAreLegal
    StatusFollowsTimeline
    OnlyNewerCasesRefuse
PROPERTIES
    LossNeedsOverlap
\* every worker may be idle for good: requests are not obliged to come
CHECK_DEADLOCK FALSE
