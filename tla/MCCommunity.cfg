SPECIFICATION Spec
CONSTANTS
    u1 = u1
    u2 = u2
    h1 = h1
    h2 = h2
    Users = {u1, u2}
    Houses = {h1, h2}
    Roles = {"ADMIN", "RESIDENT"}
    None = None
    SeedUsers = {u1}
    SeedHouses = {h1}
    SeedRole <- Seeded
    MaxAdmitted = 1
    Calls = {c1, c2}
    Lists <- Bodies
    GlobalOfficers = {u1}
    Everyone = Everyone
    MaxRows = 3
    PageSize = 1
CHECK_DEADLOCK FALSE
CONSTRAINT Manageable
SYMMETRY Symmetry
INVARIANTS
    MembershipsAreReal
    MembersAreTold
    PushFollowsStore
    WalkIsComplete
