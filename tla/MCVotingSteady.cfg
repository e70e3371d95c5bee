SPECIFICATION SteadySpec
CONSTANTS
    Users = {u1, u2}
    Requests = {r1}
    Options = {"YES", "NO"}
    Officer = officer
    Timer = timer
    None = none
    Rows <- SteadyRows
    MaxDelay = 9
    MaxTime = 2
    MaxRestarts = 0
CHECK_DEADLOCK FALSE
PROPERTIES
    FullTurnout
    ArmedTimerCloses
