SPECIFICATION SteadySpec
CONSTANTS
    Users = {u1}
    Requests = {r1}
    Options = {"YES"}
    Officer = officer
    Timer = timer
    None = none
    Rows <- ShortRow
    MaxDelay = 9
    MaxTime = 2
    MaxRestarts = 0
CHECK_DEADLOCK FALSE
INVARIANT ResultsAreFinal
