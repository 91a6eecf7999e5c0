SPECIFICATION Spec
CONSTANTS
    Uses = 1
    Ids = {i1, i2}
    Tokens = {t1, t2}
    MaxUses <- MCMaxUses
    Names = {n1}
    Absent = Absent
SYMMETRY Symmetry
CHECK_DEADLOCK FALSE
INVARIANTS
    TypeOK
    CertsWithinUses
    LeakIsVisible
    EnrolledIsKnown
