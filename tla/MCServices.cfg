SPECIFICATION ServicesSpec
CONSTANTS
    None = "none"
    NoNumber = NoNumber
    Thresholds <- DefaultThresholds
    Plans <- AnyOrder
    Yields <- Reports
    DayLength = 8
    MaxMinute = 24
    Zones <- Clocks
    Crons <- SomeCrons
    Actions <- Keys
    NeedApproval <- KeysToApprove
    Operators = {"o1", "o2"}
    Planners = {"p1", "p2"}
    Rules <- SomeRules
    Snapshots <- Cases
    Webhooks <- SomeWebhooks
    Handlers = {"h1", "h2"}
    MaxTries = 2
INVARIANTS
    FiguresMatchCitations
    CasesRestOnFreshData
    RunsComeAsAnnounced
    PlansAreGoverned
    StatusesSurviveRetries
\* every scene ends: the findings are made, the bounds are reached
CHECK_DEADLOCK FALSE
