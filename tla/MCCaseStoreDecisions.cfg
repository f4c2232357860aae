SPECIFICATION Spec
CONSTANTS
    Workers = {w1, w2}
    Keys = {k1}
    Ids = {c1, c2}
    Runs = {r1}
    Assignees = {a1}
    MaxTime = 2
    MaxTimeline = 3
PROPERTIES
    DecisionsSurviveDetections
CHECK_DEADLOCK FALSE
