SPECIFICATION SteadySpec
CONSTANTS
    Users = {u1, u2, u3}
    Requests = {r1}
    Options = {"YES", "NO"}
    Officer = officer
    Timer = timer
    None = none
    Rows <- UnanimityRow
    MaxDelay = 9
    MaxTime = 2
    MaxRestarts = 0
CHECK_DEADLOCK FALSE
PROPERTY UnanimityIsUnanimous
