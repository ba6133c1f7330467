SPECIFICATION Spec
CONSTANTS
    plain = plain
    exposed = exposed
    hidden = hidden
    big = big
    text = text
    enc = enc
    joined = joined
    shared = shared
    joint = joint
    absent = absent
    Requests = {r1}
    Sentinels = {}
    SentinelValue <- MCSentinelValue
    Msgs <- MCMsgs
    Exposes = {exposed}
    Hides = {hidden}
    TooLarge = big
    Text = text
    Joined = joined
    EncodeErr = enc
    Resolvers <- DefaultResolvers
    MaskPrivate = TRUE
    Unencodable = {}
    Calls <- SingleExposable
    MaxNesting = 2
INVARIANT ExposableErrorsShown
CHECK_DEADLOCK FALSE
