SPECIFICATION FairSpec
CONSTANTS
    MaxMessages = 3
    MaxCrashes = 1
INVARIANTS
    HandledOnce
    NothingForgotten
    NotifiedLeadsAreHot
    OrderlyUnlessDisturbed
PROPERTIES
    EveryMessageIsAnswered
\* a conversation ends when nobody writes any more
CHECK_DEADLOCK FALSE
