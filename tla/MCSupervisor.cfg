SPECIFICATION FairSupervisorSpec
CONSTANTS
    processor = processor
    sync = sync
    Tasks = {processor, sync}
    MaxTaskRestarts = 1
    NoTask = NoTask
INVARIANTS OnlyStreaksAbandoned ShutdownIsClean
PROPERTIES StallIsTold ExitIsHandled
CHECK_DEADLOCK FALSE
