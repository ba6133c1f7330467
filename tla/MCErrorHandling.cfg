SPECIFICATION Spec
CONSTANTS
    plain = plain
    exposed = exposed
    hidden = hidden
    big = big
    text = text
    enc = enc
    joined = joined
    shared = shared
    joint = joint
    absent = absent
    Requests = {r1, r2}
    Sentinels = {shared, joint, absent}
    SentinelValue <- MCSentinelValue
    Msgs <- MCMsgs
    Exposes = {exposed}
    Hides = {hidden}
    TooLarge = big
    Text = text
    Joined = joined
    EncodeErr = enc
    Resolvers <- TwoResolvers
    MaskPrivate = TRUE
    Unencodable = {"value"}
    Calls <- MCCalls
    MaxNesting = 2
INVARIANTS
    PrivateErrorsMasked
    PublicErrorsShown
    CauseLogged
    StatusAgrees
    TooLargeIs413
CHECK_DEADLOCK FALSE
