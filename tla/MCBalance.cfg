SPECIFICATION MCFairSpec
CONSTANTS
    vultr = vultr
    admin = admin
    tap1 = tap1
    tap2 = tap2
    Aliases = {vultr}
    Accounts <- MCAccounts
    Admins = {admin}
    Screens = {tap1, tap2}
    Defaults = {2, 4}
    Amounts = {0, 4}
    Cooldown = 2
    MaxRestarts = 1
INVARIANTS TypeOK FileOwnsSettings
PROPERTIES NoNagging LowIsTold
