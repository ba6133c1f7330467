SPECIFICATION Spec
CONSTANTS
    Limits = {}
    ConfigLimits = {0}
    MaxBodySizes = {3}
    TruncSize = 2
    Sizes = {0, 2, 5}
    Responses = {0}
    Ops = {"Read"}
    Rooms = {1, 3, 8}
    DrainRoom = 4
    Direct = TRUE
    MaxChain = 0
INVARIANT HandlerReadsBody
CHECK_DEADLOCK FALSE
