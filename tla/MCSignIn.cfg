SPECIFICATION Spec
CONSTANTS
    Tabs = {t1, t2}
    Targets <- MCTargets
    Pages = {"home", "cut", "a", "b", "c"}
    Lossy = {"b"}
    TLS = TRUE
    Users = {0}
    IDType = "string"
    AuthContext = TRUE
    None = None
    Keep = Keep
SYMMETRY Sym
INVARIANTS
    RedirectsStayHome
    NextUsedOnce
    ReturnsToLastNext
    IdentitySignedIn
