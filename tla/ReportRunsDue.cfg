SPECIFICATION FairSpec
CONSTANTS
    Scripts = {p1}
    Businesses = {b1, b2}
    Unconnected = {}
    Runs = {r1, r2}
    Connectors = 1
PROPERTIES
    EveryDueReportIsRun
CHECK_DEADLOCK FALSE
