SPECIFICATION Spec
CONSTANTS
    a1 = a1
    a2 = a2
    Agents <- MCAgents
    Interval = 2
    PollEvery = 2
    MaxMisses = 2
    MaxLag = 1
    Wiring = "protocol"
    Environments <- MCEnvironments
INVARIANTS
    PunctualNeverKilled
    StartedKeepsPolling
PROPERTIES
    NoHastyKill
    DeadAgentHalts
