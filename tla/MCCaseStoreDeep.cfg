SPECIFICATION Spec
CONSTANTS
    Workers = {w1}
    Keys = {k1}
    Ids = {c1}
    Runs = {r1, r2}
    Assignees = {a1, a2}
    MaxTime = 2
    MaxTimeline = 5
INVARIANTS
    ColumnsFollowTimeline
CHECK_DEADLOCK FALSE
