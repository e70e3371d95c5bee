SPECIFICATION Spec
CONSTANTS
    Accounts = {a1}
    Ids = {t1, t2}
    Requests = {r1, r2}
    Kinds <- CreateKinds
    Amounts = {1}
    Patches <- PlainPatches
    Balances = {0}
    MaxRestarts = 0
    None = none
    Deleted = deleted
CHECK_DEADLOCK FALSE
INVARIANT BalancesAddUp
