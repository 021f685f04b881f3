SPECIFICATION CalmSpec
CONSTANTS
    account = account
    s1 = s1
    s2 = s2
    s3 = s3
    s4 = s4
    Unknown = Unknown
    Aliases = {account}
    Servers = {s1, s2, s3, s4}
    Fleet <- MCFleet
    ConfirmCycles = 3
    MinDeferrable = 2
    RatioNum = 1
    RatioDen = 2
    AlertStreak = 2
    CooldownCycles = 2
    OutageThreshold = 2
INVARIANTS EvidenceBacked IncidentCounted
PROPERTIES RemovalsWarranted InventoryConverges AnnouncementsAreClosed
