SPECIFICATION Spec
CONSTANTS
    NPk = 3
    NCol = 3
    Val = {1, 2}
    Empty = Empty
    Indexes = {"a", "ab", "t", "ua", "ub"}
    Def <- AllDef
    Uses <- PlainAndUnique
INVARIANTS TreesExact UniqueHolds TriggerExact
PROPERTIES RefusedNoChange
CHECK_DEADLOCK FALSE
