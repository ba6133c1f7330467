SPECIFICATION Spec
CONSTANTS
    Addresses <- MCAddresses
    Private <- MCPrivate
    Cloudflare = {"cf"}
    Pages <- MCPages
    Client <- MCClient
    Own <- MCOwn
    Setups <- MCSetups
    MaxFetches = 4
INVARIANTS
    NearestUntrusted
    ReadOnlyIfAllowed
    AllowedFetchSucceeds
    UnsafeOnlyIfTrusted
CHECK_DEADLOCK FALSE
