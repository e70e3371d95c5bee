SPECIFICATION FairSpec
CONSTANTS
    ClientSockets = {s1, s2}
    None = none
    MaxAttempts = 2
    MaxMissed = 2
    MaxLoops = 2
    MaxLogins = 2
    TokensSet = TRUE
INVARIANTS
    ConnectionsEndWithSession
    ConnectedIsBacked
    IndicatorIsTrue
PROPERTIES
    RetriesEnd
