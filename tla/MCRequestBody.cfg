SPECIFICATION Spec
CONSTANTS
    Limits <- MCLimits
    ConfigLimits = {0, 3}
    MaxBodySizes <- MCSizes
    TruncSize = 2
    Sizes = {0, 3, 4, 5}
    Responses = {3, 4}
    Ops = {"Bind", "BindTwice", "DecodeJSON", "Read", "JSON"}
    Rooms = {1, 8}
    DrainRoom = 4
    Direct = TRUE
    MaxChain = 2
INVARIANTS
    StricterWins
    ReadWithinLimits
    
    FittingNeverRejected
    AcceptedFormIsWhole
    BufferIsPrefix
    SmallBodiesUndisturbed
CHECK_DEADLOCK FALSE
