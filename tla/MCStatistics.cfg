SPECIFICATION MCSpec
CONSTANTS
    comes = comes
    stays = stays
    Servers = {comes, stays}
    Series <- MCSeries
    Hour = 2
    Windows = {1, 2}
    Retention = 1
    Grace = 1
    MaxErrors = 1
    Horizon = 2
    MaxTime = 3
CONSTRAINT OneAtATime
INVARIANTS TypeOK WindowCounts ErrorsAreNewest GoneIsMarked
PROPERTY HistoryKept
