SPECIFICATION Spec
CONSTANTS
    t1 = t1
    t2 = t2
    Ids = {t1, t2}
    Amounts = {1, 9, 11}
    Projections = {0, 10, 20}
    Months = 2
    None = None
CHECK_DEADLOCK FALSE
CONSTRAINT Manageable
SYMMETRY Symmetry
INVARIANTS
    TypeOK
    ReportCountsOnce
    ViewsAgree
