SPECIFICATION Spec
CONSTANTS
    Clients = {c1, c2}
    Runs = {r1}
    MaxEntries = 2
PROPERTIES
    AuditLossNeedsOverlap
    StepsFollowRunLog
CHECK_DEADLOCK FALSE
