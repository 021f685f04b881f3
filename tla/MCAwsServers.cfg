SPECIFICATION MCFairSpec
CONSTANTS
    east = east
    west = west
    ec2a = ec2a
    ec2b = ec2b
    light = light
    dark = dark
    s1 = s1
    s2 = s2
    s3 = s3
    Regions = {east, west}
    Default = east
    RegionOf <- MCRegionOf
    Fetches = {ec2a, ec2b, light, dark}
    Unavailable = {dark}
    Servers = {s1, s2, s3}
    Home <- MCHome
    MaxAttempts = 2
INVARIANT PartialOnlyIfEmpty
PROPERTIES NeverFalselyEmpty ListArrives
