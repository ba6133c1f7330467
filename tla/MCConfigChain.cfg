SPECIFICATION ConfigSpec
CONSTANTS
    Fns = {f, g}
    BodyLimitFn = bodyLimit
    Nil = nil
    Limits = {0}
    DefaultLimit = 4
    MaxConfigs = 6
    MaxAdd = 1
SYMMETRY Sym
INVARIANTS
    ForksOnly
CHECK_DEADLOCK FALSE
