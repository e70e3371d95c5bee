SPECIFICATION Spec
CONSTANTS
    Users = {u1, u2}
    Requests = {r1, r2}
    Options = {"YES"}
    Officer = officer
    Timer = timer
    None = none
    Rows <- MovedRows
    MaxDelay = 2
    MaxTime = 3
    MaxRestarts = 1
CHECK_DEADLOCK FALSE
CONSTRAINT Manageable
SYMMETRY Symmetry
INVARIANTS
    OneVotePerUser
    VotersBelonged
    NoOrphanVotes
PROPERTIES
    ImplementsBallotBox
    TimeoutNotEarly
