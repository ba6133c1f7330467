SPECIFICATION Spec
CONSTANTS
    Requests = {r1}
    Paths = {"/", "/api", "/docs", "/app.js", "/app.html"}
    Root = "/"
    Api = {"/api"}
    Assets = {"/app.js"}
    Files <- MCFiles
    Fallback = "/app.html"
    SPA = TRUE
    CatchAll = TRUE
    AllowLocal = TRUE
    FSGiven = TRUE
    PathValid = TRUE
    LocalExists = FALSE
    MaxChanges = 2
    None = None
INVARIANTS
    RoutesGetThePage
    ListingsNeedAGap
    NotFoundNeedsAGap
CHECK_DEADLOCK FALSE
