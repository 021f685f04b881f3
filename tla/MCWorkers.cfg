SPECIFICATION FairSpec
CONSTANTS
    k1 = k1
    k2 = k2
    ip1 = ip1
    ip2 = ip2
    Keys = {k1, k2}
    Addresses = {ip1, ip2}
    MaxRestarts = 2
    StartsMayFail = TRUE
    NoServer = NoServer
    NoAddress = NoAddress
    NoWorker = NoWorker
INVARIANT WorkersFollowInventory
PROPERTY NeverDropsOut
