SPECIFICATION MCSpec
CONSTANTS
    comes = comes
    stays = stays
    Keys = {comes, stays}
    Attempts = 2
    QueueLimit = 2
PROPERTIES OutageIsTold RecoveryIsTold NoRepetition
