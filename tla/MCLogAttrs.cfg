SPECIFICATION Spec
CONSTANTS
    Goroutines = {g1, g2}
    MaxOps = 6
    Nil = nil
SYMMETRY Sym
INVARIANTS
    RecordsExact
CHECK_DEADLOCK FALSE
