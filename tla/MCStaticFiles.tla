--------------------------- MODULE MCStaticFiles ---------------------------
(* TLC instances of StaticFiles: a root, an API path, a route, an asset    *)
(* and a fallback page.                                                    *)
EXTENDS StaticFiles, TLC

Tree(top, route, asset, page) ==
    [p \in Paths |-> CASE p = Root -> top [] p = "/docs" -> route
                       [] p = "/app.js" -> asset [] p = "/app.html" -> page
                       [] OTHER -> "absent"]
\* The top may have an index.html or not, the route may be anything, the
\* asset may be there or not; the fallback page is always there.
MCFiles == {Tree(i, d, a, "file") : i \in {"dir", "index"}, d \in Kinds,
                                    a \in {"absent", "file"}}
=============================================================================
