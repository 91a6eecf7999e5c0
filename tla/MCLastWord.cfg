SPECIFICATION Spec
CONSTANTS
    Uses = 1
    Ids = {i1}
    Tokens = {t1}
    MaxUses <- MCMaxUses
    Names = {n1, n2}
    Absent = Absent
CHECK_DEADLOCK FALSE
PROPERTY OperatorHasLastWord
