SPECIFICATION ConnectionsFairSpec
CONSTANTS
    u1 = u1
    u2 = u2
    s1 = s1
    s2 = s2
    s3 = s3
    Users = {u1, u2}
    Sockets = {s1, s2, s3}
    UserOf <- Owner
    NoHealth = none
    MissLimit = 3
    MaxBeats = 3
    MaxUnanswered = 3
CHECK_DEADLOCK FALSE
INVARIANTS
    OneConnectionPerUser
    ReachableUnlessRemoved
    PresenceIsTrue
    MissedBounded
PROPERTY GhostsGo
