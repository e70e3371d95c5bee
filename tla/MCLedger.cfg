SPECIFICATION Spec
CONSTANTS
    Accounts = {a1, a2}
    Ids = {t1, t2}
    Requests = {r1, r2}
    Kinds <- AllKinds
    Amounts = {1}
    Patches <- AllPatches
    Balances = {0}
    MaxRestarts = 1
    None = none
    Deleted = deleted
CHECK_DEADLOCK FALSE
SYMMETRY Symmetry
CONSTRAINT StillIntact
INVARIANTS
    LedgerAddsUp
PROPERTY AtomicWhileIntact
