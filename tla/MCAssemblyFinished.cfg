SPECIFICATION Spec
CONSTANTS
    Assemblies = {a1}
    Votings = {v1}
    Proposals = {p1}
    Projects = {j1}
    Requests = {r1}
    Kinds <- DirectKinds
    Patches = {}
    None = none
    Gone = gone
    MaxRestarts = 0
CHECK_DEADLOCK FALSE
PROPERTY FinishedProjectStays
