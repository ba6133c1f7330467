SPECIFICATION ConfigSpec
CONSTANTS
    Fns = {f, g}
    BodyLimitFn = bodyLimit
    Nil = nil
    Limits = {0}
    DefaultLimit = 4
    MaxConfigs = 5
    MaxAdd = 1
SYMMETRY Sym
INVARIANT ConfigsImmutable
CHECK_DEADLOCK FALSE
