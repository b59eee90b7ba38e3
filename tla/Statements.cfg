CONSTANTS
    Pks = {1, 2, 3, 4}
    Avals = {1, 2}
    Bvals = {0, 1}
    WideFrom = 2
    QopMax = 3
    BoolRange = 4
    OtherRows <- MCOtherRows
    OtherSchema <- MCOtherSchema
    Uses <- MCUses
SPECIFICATION Spec
CHECK_DEADLOCK FALSE
INVARIANTS
    SelectExact
    ChangeExact
    
    JoinExact
