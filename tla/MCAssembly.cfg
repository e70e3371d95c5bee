SPECIFICATION Spec
CONSTANTS
    Assemblies = {a1}
    Votings = {v1}
    Proposals = {p1, p2}
    Projects = {j1}
    Requests = {r1, r2}
    Kinds <- AllKinds
    Patches <- AllPatches
    None = none
    Gone = gone
    MaxRestarts = 1
CHECK_DEADLOCK FALSE
SYMMETRY Symmetry
CONSTRAINTS BeforeRaces Manageable
INVARIANTS
    ApprovedMovesProject
    MinutesAfterCompletion
    OneMinutesPerAssembly
PROPERTIES
    CompletionDecides
    DecisionsStand
