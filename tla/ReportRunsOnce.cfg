SPECIFICATION FairSpec
CONSTANTS
    Scripts = {p1, p2}
    Businesses = {b1}
    Unconnected = {}
    Runs = {r1, r2}
    Connectors = 1
INVARIANTS
    AtMostOncePerKey
CHECK_DEADLOCK FALSE
