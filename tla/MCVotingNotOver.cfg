SPECIFICATION FairSpec
CONSTANTS
    Users = {u1}
    Requests = {r1}
    Options = {"YES"}
    Officer = officer
    Timer = timer
    None = none
    Rows <- MovedRows
    MaxDelay = 9
    MaxTime = 3
    MaxRestarts = 0
CHECK_DEADLOCK FALSE
PROPERTY EndedMeansOver
