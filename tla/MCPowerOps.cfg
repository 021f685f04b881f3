SPECIFICATION PowerSpec
CONSTANTS
    h1 = h1
    h2 = h2
    h3 = h3
    ec2 = ec2
    Handlers = {h1, h2, h3}
    Servers = {ec2}
    Backends <- MCBackends
    MaxAttempts = 2
INVARIANT SecondTapWaits
SYMMETRY HandlerSymmetry
