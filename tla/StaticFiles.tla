---------------------------- MODULE StaticFiles ----------------------------
(***************************************************************************)
(* static.go: UseStatic.  A request is answered from a file system that a  *)
(* deployment may change meanwhile: the handler looks a path up, decides,  *)
(* and http.FileServer looks it up again.                                  *)
(*                                                                         *)
(* Whether the file opened for the look is closed again is not modelled:   *)
(* two of the returns leave it open (static.go:248-251, 263-267).          *)
(***************************************************************************)
EXTENDS Naturals, FiniteSets

CONSTANTS
    Requests,
    Paths,        \* cleaned URL paths, after StaticConfig.Prefix is stripped
    Root,         \* "/"
    Api,          \* those below Config.APIBasePath
    Assets,       \* those whose extension has a MIME type other than text/html
    Files,        \* what may be in the file system: functions from Paths to Kinds
    Fallback,     \* the path serveFallback puts into the request
    SPA, CatchAll, AllowLocal, FSGiven,  \* fields of StaticConfig
    PathValid,    \* is StaticConfig.Path empty, or one that fs.Sub takes?
    LocalExists,  \* is LocalPath a directory?
    MaxChanges,   \* bound: changes of the file system
    None

Kinds == {"absent", "file", "dir", "index"}  \* "index": a directory with an index.html

Responses == [status : {200, 404, 405, 500}, body : Paths \cup {"none", "listing"}]

ASSUME PathsAssumption ==
    /\ {"none", "listing"} \cap Paths = {} /\ None \notin Responses
    /\ Root \in Paths \ (Api \cup Assets) /\ Fallback \in Paths
    /\ Api \subseteq Paths /\ Assets \subseteq Paths
    /\ Files \subseteq [Paths -> Kinds]
    /\ \A f \in Files : f[Root] \in {"dir", "index"}
ASSUME ModeAssumption ==
    /\ SPA \in BOOLEAN /\ CatchAll \in BOOLEAN /\ MaxChanges \in Nat
    /\ AllowLocal \in BOOLEAN /\ FSGiven \in BOOLEAN
    /\ PathValid \in BOOLEAN /\ LocalExists \in BOOLEAN

VARIABLES
    root,     \* the file system UseStatic serves from
    fs,       \* what is in it
    past,     \* what was in it since each request began
    changes,
    pc,       \* where each request is
    path,     \* its path
    asked,    \* the path the client has sent
    get,      \* is its method GET?
    opened,   \* what Open has found
    answer    \* None, or the status and what the body is

vars == <<root, fs, past, changes, pc, path, asked, get, opened, answer>>
held == <<asked, get>>

-----------------------------------------------------------------------------
\* StaticConfig.Validate: the checks in the order the code has them.
Validate ==
    IF ~FSGiven \/ ~PathValid THEN "invalid"
    ELSE IF FSGiven THEN "given"
    ELSE IF AllowLocal /\ LocalExists THEN "local"
    ELSE "invalid"

\* http.FileServer, for a path with the final slash that it wants.
FileServer(p) ==
    CASE fs[p] = "absent" -> [status |-> 404, body |-> "none"]
      [] fs[p] = "dir"    -> [status |-> 200, body |-> "listing"]
      [] OTHER            -> [status |-> 200, body |-> p]

ErrorCode(c) == [status |-> c, body |-> "none"]

TypeOK ==
    /\ root \in {"unset", "given", "local", "invalid"} /\ fs \in Files
    /\ pc \in [Requests -> {"start", "open", "stat", "index", "serve", "done"}]
    /\ path \in [Requests -> Paths] /\ asked \in [Requests -> Paths]
    /\ get \in [Requests -> BOOLEAN]
    /\ past \in [Requests -> SUBSET Files]
    /\ opened \in [Requests -> Kinds]
    /\ answer \in [Requests -> Responses \cup {None}]

Init ==
    /\ root = "unset"
    /\ fs \in Files /\ past = [r \in Requests |-> {fs}] /\ changes = 0
    /\ pc = [r \in Requests |-> "start"]
    /\ asked \in [Requests -> Paths] /\ path = asked
    /\ get \in [Requests -> BOOLEAN]
    /\ opened = [r \in Requests |-> "absent"] /\ answer = [r \in Requests |-> None]

Goto(r, l) == pc' = [pc EXCEPT ![r] = l]
Answer(r, a) == answer' = [answer EXCEPT ![r] = a] /\ Goto(r, "done")

\* Mutant of ServeFallback: the file server is asked for what was not found.
ServeFallbackAsAsked(r) == Goto(r, "serve") /\ UNCHANGED <<path, answer>>

ServeFallback(r) == path' = [path EXCEPT ![r] = Fallback] /\ Goto(r, "serve") /\ UNCHANGED answer

\* The handler is made; an invalid configuration panics.
UseStatic ==
    /\ root = "unset" /\ root' = Validate
    /\ UNCHANGED <<fs, past, changes, pc, path, opened, answer, held>>

\* The checks of a catch-all handler; without SPA the file server does the rest.
Start(r) ==
    /\ pc[r] = "start" /\ root \in {"given", "local"}
    /\ IF CatchAll /\ path[r] \in Api THEN Answer(r, ErrorCode(404))
       ELSE IF CatchAll /\ ~get[r] THEN Answer(r, ErrorCode(405))
       ELSE Goto(r, IF SPA THEN "open" ELSE "serve") /\ UNCHANGED answer
    /\ UNCHANGED <<root, fs, past, changes, path, opened, held>>

\* Mutant of Open: a missing asset gets the fallback.
OpenNoAssets(r) ==
    /\ pc[r] = "open"
    /\ \/ /\ fs[path[r]] # "absent"
          /\ opened' = [opened EXCEPT ![r] = fs[path[r]]]
          /\ Goto(r, "stat") /\ UNCHANGED <<path, answer>>
       \/ fs[path[r]] = "absent" /\ UNCHANGED opened /\ ServeFallback(r)
       \/ Answer(r, ErrorCode(500)) /\ UNCHANGED <<path, opened>>
    /\ UNCHANGED <<root, fs, past, changes, held>>

\* httpFS.Open: there, not there, or another error.
Open(r) ==
    /\ pc[r] = "open"
    /\ \/ /\ fs[path[r]] # "absent"
          /\ opened' = [opened EXCEPT ![r] = fs[path[r]]]
          /\ Goto(r, "stat") /\ UNCHANGED <<path, answer>>
       \/ /\ fs[path[r]] = "absent" /\ UNCHANGED opened
          /\ IF path[r] \in Assets THEN Answer(r, ErrorCode(404)) /\ UNCHANGED path
             ELSE ServeFallback(r)
       \/ Answer(r, ErrorCode(500)) /\ UNCHANGED <<path, opened>>
    /\ UNCHANGED <<root, fs, past, changes, held>>

\* f.Stat: the kind of what was opened, or an error.
Stat(r) ==
    /\ pc[r] = "stat"
    /\ \/ /\ opened[r] = "file"
          /\ Goto(r, "serve") /\ UNCHANGED <<path, answer>>
       \/ /\ opened[r] \in {"dir", "index"}
          /\ IF path[r] = Root
               THEN ServeFallback(r)
               ELSE Goto(r, "index") /\ UNCHANGED <<path, answer>>
       \/ Answer(r, ErrorCode(500)) /\ UNCHANGED path
    /\ UNCHANGED <<root, fs, past, changes, opened, held>>

\* Mutant of OpenIndex: every directory is served as it is.
OpenIndexNotAsked(r) ==
    /\ pc[r] = "index"
    /\ Goto(r, "serve")
    /\ UNCHANGED <<root, fs, past, changes, path, opened, answer, held>>

\* A directory: if its index.html opens the request goes on as it is, otherwise
\* the fallback is served.
OpenIndex(r) ==
    /\ pc[r] = "index"
    /\ IF fs[path[r]] = "index"
         THEN Goto(r, "serve") /\ UNCHANGED <<path, answer>>
         ELSE ServeFallback(r)
    /\ UNCHANGED <<root, fs, past, changes, opened, held>>

Serve(r) ==
    /\ pc[r] = "serve"
    /\ Answer(r, FileServer(path[r]))
    /\ UNCHANGED <<root, fs, past, changes, path, opened, held>>

\* A deployment changes the files.
Deploy ==
    /\ changes < MaxChanges /\ changes' = changes + 1
    /\ root \in {"given", "local"}
    /\ fs' \in Files \ {fs}
    /\ past' = [r \in Requests |-> IF pc[r] = "start" THEN {fs'}
                                   ELSE IF pc[r] = "done" THEN past[r] ELSE past[r] \cup {fs'}]
    /\ UNCHANGED <<root, pc, path, opened, answer, held>>

Step(r) == Start(r) \/ Open(r) \/ Stat(r) \/ OpenIndex(r) \/ Serve(r)
Next == UseStatic \/ Deploy \/ \E r \in Requests : Step(r)
Spec == Init /\ [][Next]_vars

-----------------------------------------------------------------------------
(* Properties.                                                             *)

Answered(r, s) == answer[r] # None /\ answer[r].status = s
Always(r, ks) == \A f \in past[r] : f[asked[r]] \in ks

\* A single page application shows its page for every route that is no file,
\* and never for an asset that is missing.
RoutesGetThePage ==
    \A r \in Requests :
        (SPA /\ (CatchAll => asked[r] \notin Api /\ get[r]) /\ pc[r] = "done" /\ ~Answered(r, 500)
             /\ \A f \in past[r] : f[Fallback] \in {"file", "index"}) =>
            /\ (Always(r, {"absent"}) /\ asked[r] \notin Assets) => answer[r].body = Fallback
            /\ (Always(r, {"absent"}) /\ asked[r] \in Assets) => answer[r].status = 404
            /\ Always(r, {"dir"}) => answer[r].body = Fallback

\* It lists a directory only if a deployment has taken its index.html away, or
\* put it in the place of a file, while the request was being answered, or if
\* the fallback itself is a directory without one.
ListingsNeedAGap ==
    \A r \in Requests :
        (SPA /\ Answered(r, 200) /\ answer[r].body = "listing") =>
            \/ \E f \in past[r] : f[Fallback] = "dir"
            \/ \E f, g \in past[r] : f[path[r]] \in {"file", "index"} /\ g[path[r]] = "dir"

\* It answers 404 for a missing asset, and for nothing else unless a deployment
\* has taken away, while the request was being answered, a file or an index.html
\* that was there, or there is no fallback to serve.
NotFoundNeedsAGap ==
    \A r \in Requests :
        (SPA /\ (CatchAll => asked[r] \notin Api /\ get[r]) /\ Answered(r, 404)) =>
            \/ asked[r] \in Assets /\ \E f \in past[r] : f[asked[r]] = "absent"
            \/ \E f \in past[r] : f[Fallback] = "absent"
            \/ \E f, g \in past[r] : f[asked[r]] \in {"file", "index"} /\ g[asked[r]] = "absent"
=============================================================================
