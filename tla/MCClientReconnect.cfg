SPECIFICATION FairSpec
CONSTANTS
    ClientSockets = {s1, s2}
    None = none
    MaxAttempts = 2
    MaxMissed = 2
    MaxLoops = 2
    MaxLogins = 1
    TokensSet = FALSE
PROPERTIES
    DropsAreRetried
