SPECIFICATION Spec
CHECK_DEADLOCK FALSE
CONSTANTS
    Feeds <- MCFeeds
    OneMinute = 1
    FiveMinute = 2
    MaxBackward = 1
    MaxFuture = 1
    Cumulative = {1, 2}
    Timeout = 1
    Syncers = {"s1", "s2"}
    MaxRows = 3
    MaxCrashes = 1
    Minutes = {0, 1, 5}
    FineDays = 7
    Ttl = 2
    Day = 3
    MaxAuthClock = 7
    MaxTimers = 4
    PoolSize = 2
    Adapters = {"a1", "a2", "a3"}
INVARIANTS
    VolumeConserved
    NoTickLost
    SyncedImpliesStored
    RefreshAssured
    SlotExclusive
PROPERTIES
    SilenceDegrades
