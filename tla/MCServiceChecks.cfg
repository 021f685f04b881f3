SPECIFICATION FairSpec
CONSTANTS
    http = http
    ssl = ssl
    host = host
    Servers = {host}
    Checks = {ssl}
    ServerOf <- MCServerOf
    SslChecks = {ssl}
    Rollup = 1
INVARIANTS EditsRunNext OnlyNews
PROPERTIES FailureIsTold RecoveryIsTold CertIsTold
