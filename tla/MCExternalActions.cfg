SPECIFICATION Spec
CONSTANTS
    Actions = {k1, k2}
    NeedApproval = {k1}
    Operators = {o1, o2}
    Executors = {e1, e2}
    Reads = {q1}
    Runs = {r1}
    MaxRequests = 2
SYMMETRY Symmetry
INVARIANTS
    EveryActionHasItsQueue
    WritesWereApproved
    EffectsWerePlanned
    EffectsAreRecordedOnce
PROPERTIES
    DecisionsStandUnlessOutpaced
\* nothing has to be planned, decided or executed
CHECK_DEADLOCK FALSE
