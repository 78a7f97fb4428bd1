SPECIFICATION Spec
CONSTANTS
    Environments <- MCEnvironments
    MaxSignals = 1
    MaxPublished = 1
    MaxEnds = 1
INVARIANTS
    KillPreemptsHitl
PROPERTIES
    HaltLatched
    HaltSurvivesRestart
    ForwardedPassedGates
    ApiKillReachesGraph
