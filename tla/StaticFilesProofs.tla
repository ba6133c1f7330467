------------------------- MODULE StaticFilesProofs -------------------------
(***************************************************************************)
(* Proofs about StaticFiles, for any file system, any number of requests   *)
(* and any number of deployments while they are answered.                  *)
(***************************************************************************)
EXTENDS StaticFiles, TLAPS

\* Was path p of kind in ks at some moment since r began?
Saw(r, p, ks) == \E f \in past[r] : f[p] \in ks
Busy(r) == pc[r] # "done"
LetThrough(r) == CatchAll => asked[r] \notin Api /\ get[r]

\* What has been seen of the file system until a request is served: the file
\* or the index.html that was asked for, or a reason for the fallback.
SeenOwn(r) == path[r] = asked[r] /\ Saw(r, asked[r], {"file", "index"})
SeenNone(r) ==
    /\ path[r] = Fallback
    /\ \/ Saw(r, asked[r], {"absent"}) /\ asked[r] \notin Assets
       \/ Saw(r, asked[r], {"dir", "index"})
SeenFor(r) == SeenOwn(r) \/ SeenNone(r)

ProgressOf(r) ==
    /\ Busy(r) => fs \in past[r] /\ answer[r] = None
    /\ pc[r] \in {"start", "open", "stat", "index"} => path[r] = asked[r]
    /\ pc[r] \in {"open", "stat", "index"} => SPA
    /\ pc[r] \in {"stat", "index"} => Saw(r, asked[r], {opened[r]})
    /\ pc[r] = "index" => opened[r] \in {"dir", "index"}
    /\ (pc[r] = "serve" /\ SPA) => SeenFor(r)

\* What the answer of a single page application was made from.
ServedFrom(r, f) == SeenFor(r) /\ answer[r] =
    CASE f[path[r]] = "absent" -> [status |-> 404, body |-> "none"]
      [] f[path[r]] = "dir"    -> [status |-> 200, body |-> "listing"]
      [] OTHER                 -> [status |-> 200, body |-> path[r]]
AnswerOf(r) ==
    (SPA /\ ~Busy(r)) =>
        \/ answer[r] = ErrorCode(500)
        \/ answer[r] \in {ErrorCode(404), ErrorCode(405)} /\ ~LetThrough(r)
        \/ answer[r] = ErrorCode(404) /\ asked[r] \in Assets /\ Saw(r, asked[r], {"absent"})
        \/ \E f \in past[r] : ServedFrom(r, f)

IInv == TypeOK /\ \A r \in Requests : ProgressOf(r) /\ AnswerOf(r)

-----------------------------------------------------------------------------
\* http.FileServer answers with a status and a body.
LEMMA FileServerType ==
    ASSUME NEW p \in Paths
    PROVE  FileServer(p) \in Responses
  BY DEF FileServer, Responses

\* So does ErrorWithCode.
LEMMA ErrorCodeType ==
    ASSUME NEW c \in {404, 405, 500}
    PROVE  /\ ErrorCode(c) \in Responses /\ ErrorCode(c) # None
           /\ ErrorCode(c).status = c /\ ErrorCode(c).body = "none"
  BY PathsAssumption DEF ErrorCode, Responses

\* Nothing is open, seen or answered at first.
LEMMA InitIInv == Init => IInv
  <1> SUFFICES ASSUME Init PROVE IInv
    OBVIOUS
  <1>1. TypeOK
    BY DEF Init, TypeOK, Kinds
  <1>2. ASSUME NEW r \in Requests PROVE ProgressOf(r) /\ AnswerOf(r)
    BY DEF Init, ProgressOf, AnswerOf, Busy
  <1> QED
    BY <1>1, <1>2 DEF IInv

\* Every step keeps the types.
LEMMA TypeStep ==
    ASSUME TypeOK, [Next]_vars
    PROVE  TypeOK'
  <1> USE DEF TypeOK, held
  <1>0. Fallback \in Paths
    BY PathsAssumption
  <1>1. CASE UseStatic
    BY <1>1 DEF UseStatic, Validate
  <1>2. CASE Deploy
    BY <1>2 DEF Deploy
  <1>3. ASSUME NEW r \in Requests, Start(r) PROVE TypeOK'
    BY <1>3, ErrorCodeType DEF Start, Answer, Goto
  <1>4. ASSUME NEW r \in Requests, Open(r) PROVE TypeOK'
    <2>1. fs[path[r]] \in Kinds
      BY PathsAssumption
    <2> QED
      BY <1>0, <1>4, <2>1, ErrorCodeType DEF Open, Answer, Goto, ServeFallback
  <1>5. ASSUME NEW r \in Requests, Stat(r) PROVE TypeOK'
    BY <1>0, <1>5, ErrorCodeType DEF Stat, Answer, Goto, ServeFallback
  <1>6. ASSUME NEW r \in Requests, OpenIndex(r) PROVE TypeOK'
    BY <1>0, <1>6 DEF OpenIndex, Goto, ServeFallback
  <1>7. ASSUME NEW r \in Requests, Serve(r) PROVE TypeOK'
    BY <1>7, FileServerType DEF Serve, Answer, Goto
  <1>8. CASE UNCHANGED vars
    BY <1>8 DEF vars
  <1> QED
    BY <1>1, <1>2, <1>3, <1>4, <1>5, <1>6, <1>7, <1>8 DEF Next, Step

\* What a step of another request leaves alone.
LEMMA Others ==
    ASSUME TypeOK, NEW q \in Requests, Step(q), NEW r \in Requests, r # q,
           ProgressOf(r), AnswerOf(r)
    PROVE  ProgressOf(r)' /\ AnswerOf(r)'
  <1>1. /\ UNCHANGED <<fs, past, asked, get>>
        /\ pc'[r] = pc[r] /\ path'[r] = path[r] /\ opened'[r] = opened[r]
        /\ answer'[r] = answer[r]
    BY DEF TypeOK, Step, Start, Open, Stat, OpenIndex, Serve, Answer, Goto, ServeFallback, held
  <1>2. \A p, ks : Saw(r, p, ks)' <=> Saw(r, p, ks)
    BY <1>1 DEF Saw
  <1>3. SeenFor(r)' <=> SeenFor(r)
    BY <1>1, <1>2 DEF SeenFor, SeenOwn, SeenNone
  <1>4. \A f : ServedFrom(r, f)' <=> ServedFrom(r, f)
    BY <1>1, <1>3 DEF ServedFrom
  <1> QED
    BY <1>1, <1>2, <1>3, <1>4
    DEF ProgressOf, AnswerOf, Busy, Answered, LetThrough, ErrorCode

\* A deployment adds what is there now to what a busy request may see.
LEMMA DeployStep ==
    ASSUME TypeOK, Deploy, NEW r \in Requests, ProgressOf(r), AnswerOf(r)
    PROVE  ProgressOf(r)' /\ AnswerOf(r)'
  <1>1. /\ UNCHANGED <<pc, path, opened, answer, asked, get>>
        /\ past'[r] = IF pc[r] = "start" THEN {fs'}
                      ELSE IF pc[r] = "done" THEN past[r] ELSE past[r] \cup {fs'}
    BY DEF Deploy, held
  <1>2. CASE pc[r] = "start"
    BY <1>1, <1>2 DEF ProgressOf, AnswerOf, Busy
  <1>3. CASE pc[r] = "done"
    <2>1. \A p, ks : Saw(r, p, ks)' <=> Saw(r, p, ks)
      BY <1>1, <1>3 DEF Saw
    <2>2. SeenFor(r)' <=> SeenFor(r)
      BY <1>1, <2>1 DEF SeenFor, SeenOwn, SeenNone
    <2>3. \A f : ServedFrom(r, f)' <=> ServedFrom(r, f)
      BY <1>1, <2>2 DEF ServedFrom
    <2>4. past'[r] = past[r]
      BY <1>1, <1>3
    <2> QED
      BY <1>1, <1>3, <2>1, <2>3, <2>4
      DEF ProgressOf, AnswerOf, Busy, Answered, LetThrough, ErrorCode
  <1>4. CASE pc[r] \notin {"start", "done"}
    <2>1. past[r] \subseteq past'[r] /\ fs' \in past'[r]
      BY <1>1, <1>4
    <2>2. \A p, ks : Saw(r, p, ks) => Saw(r, p, ks)'
      BY <2>1 DEF Saw
    <2>3. SeenFor(r) => SeenFor(r)'
      BY <1>1, <2>2 DEF SeenFor, SeenOwn, SeenNone
    <2>4. opened'[r] = opened[r] /\ \A ks : Saw(r, asked[r], ks) => Saw(r, asked[r], ks)'
      BY <1>1, <2>2
    <2> QED
      BY <1>1, <1>4, <2>1, <2>2, <2>3 DEF ProgressOf, AnswerOf, Busy
  <1> QED
    BY <1>2, <1>3, <1>4

\* What r sees of the file system while it is answered stays seen.
LEMMA OwnStep ==
    ASSUME TypeOK, NEW r \in Requests, Step(r), ProgressOf(r)
    PROVE  ProgressOf(r)' /\ AnswerOf(r)'
  <1>1. /\ UNCHANGED <<fs, past, asked, get>> /\ fs \in past[r]
        /\ Busy(r) /\ answer[r] = None
    BY DEF Step, Start, Open, Stat, OpenIndex, Serve, held, ProgressOf, Busy
  <1>2. \A p, ks : Saw(r, p, ks)' <=> Saw(r, p, ks)
    BY <1>1 DEF Saw
  <1>3. \A ks : fs[asked[r]] \in ks => Saw(r, asked[r], ks)
    BY <1>1 DEF Saw
  <1>4. /\ pc \in [Requests -> {"start", "open", "stat", "index", "serve", "done"}]
        /\ path \in [Requests -> Paths] /\ asked \in [Requests -> Paths]
        /\ opened \in [Requests -> Kinds] /\ answer \in [Requests -> Responses \cup {None}]
        /\ fs[asked[r]] \in Kinds
    BY PathsAssumption DEF TypeOK
  <1>5. CASE Start(r)
    <2>1. path' = path /\ opened' = opened
      BY <1>5 DEF Start
    <2>2. CASE pc'[r] = "done"
      <3>1. answer'[r] \in {ErrorCode(404), ErrorCode(405)} /\ ~LetThrough(r)
        BY <1>4, <1>5, <2>2 DEF Start, Answer, Goto, LetThrough, ProgressOf
      <3> QED
        BY <1>1, <2>1, <2>2, <3>1 DEF ProgressOf, AnswerOf, Busy, LetThrough, ErrorCode
    <2>3. CASE pc'[r] # "done"
      <3>1. pc'[r] = (IF SPA THEN "open" ELSE "serve") /\ answer' = answer
        BY <1>4, <1>5, <2>3 DEF Start, Answer, Goto
      <3>2. path[r] = asked[r] /\ SPA \in BOOLEAN
        BY <1>5, ModeAssumption DEF Start, ProgressOf
      <3> QED
        BY <1>1, <2>1, <3>1, <3>2 DEF ProgressOf, AnswerOf, Busy
    <2> QED
      BY <2>2, <2>3
  <1>6. CASE Open(r)
    <2>0. path[r] = asked[r] /\ SPA /\ pc[r] = "open"
      BY <1>6 DEF Open, ProgressOf
    <2>1. CASE pc'[r] = "stat"
      <3>1. /\ opened'[r] = fs[asked[r]] /\ path' = path /\ answer' = answer
        BY <1>4, <1>6, <2>0, <2>1 DEF Open, Answer, Goto, ServeFallback
      <3>2. Saw(r, asked[r], {opened'[r]})
        BY <1>3, <3>1
      <3>3. Saw(r, asked[r], {opened[r]})'
        BY <1>1, <3>2 DEF Saw
      <3> QED
        BY <1>1, <2>0, <2>1, <3>1, <3>3 DEF ProgressOf, AnswerOf, Busy
    <2>2. CASE pc'[r] = "serve"
      <3>1. /\ fs[asked[r]] = "absent" /\ asked[r] \notin Assets /\ path'[r] = Fallback
            /\ answer' = answer
        BY <1>4, <1>6, <2>0, <2>2 DEF Open, Answer, Goto, ServeFallback
      <3>2. SeenFor(r)'
        BY <1>1, <1>2, <1>3, <3>1 DEF SeenFor, SeenNone
      <3> QED
        BY <1>1, <2>0, <2>2, <3>1, <3>2 DEF ProgressOf, AnswerOf, Busy
    <2>3. CASE pc'[r] = "done"
      <3>1. \/ answer'[r] = ErrorCode(500)
            \/ answer'[r] = ErrorCode(404) /\ asked[r] \in Assets /\ fs[asked[r]] = "absent"
        BY <1>4, <1>6, <2>0, <2>3 DEF Open, Answer, Goto, ServeFallback
      <3>2. \/ answer'[r] = ErrorCode(500)
            \/ answer'[r] = ErrorCode(404) /\ asked[r] \in Assets /\ Saw(r, asked[r], {"absent"})
        BY <1>3, <3>1
      <3> QED
        BY <1>1, <1>2, <2>0, <2>3, <3>1, <3>2 DEF ProgressOf, AnswerOf, Busy, ErrorCode
    <2> QED
      BY <1>4, <1>6, <2>1, <2>2, <2>3 DEF Open, Answer, Goto, ServeFallback
  <1>7. CASE Stat(r)
    <2>0. path[r] = asked[r] /\ SPA /\ pc[r] = "stat" /\ Saw(r, asked[r], {opened[r]}) /\ opened' = opened
      BY <1>7 DEF Stat, ProgressOf
    <2>1. CASE pc'[r] = "index"
      <3>1. path' = path /\ answer' = answer /\ opened[r] \in {"dir", "index"}
        BY <1>4, <1>7, <2>1 DEF Stat, Answer, Goto, ServeFallback
      <3> QED
        BY <1>1, <1>2, <2>0, <2>1, <3>1 DEF ProgressOf, AnswerOf, Busy
    <2>2. CASE pc'[r] = "serve"
      <3>1. /\ answer' = answer
            /\ \/ opened[r] = "file" /\ path' = path
               \/ opened[r] \in {"dir", "index"} /\ path'[r] = Fallback
        BY <1>4, <1>7, <2>2 DEF Stat, Answer, Goto, ServeFallback
      <3>2. SeenFor(r)'
        BY <1>1, <2>0, <3>1 DEF SeenFor, SeenOwn, SeenNone, Saw
      <3> QED
        BY <1>1, <2>0, <2>2, <3>1, <3>2 DEF ProgressOf, AnswerOf, Busy
    <2>3. CASE pc'[r] = "done"
      <3>1. answer'[r] = ErrorCode(500)
        BY <1>4, <1>7, <2>3 DEF Stat, Answer, Goto, ServeFallback
      <3> QED
        BY <1>1, <2>3, <3>1, ErrorCodeType DEF ProgressOf, AnswerOf, Busy, Answered, ErrorCode
    <2> QED
      BY <1>4, <1>7, <2>1, <2>2, <2>3 DEF Stat, Answer, Goto, ServeFallback
  <1>8. CASE OpenIndex(r)
    <2>0. /\ path[r] = asked[r] /\ SPA /\ pc[r] = "index" /\ opened[r] \in {"dir", "index"}
          /\ Saw(r, asked[r], {opened[r]}) /\ opened' = opened
      BY <1>8 DEF OpenIndex, ProgressOf
    <2>1. pc'[r] = "serve" /\ answer' = answer
      BY <1>4, <1>8 DEF OpenIndex, Goto, ServeFallback
    <2>2. CASE fs[asked[r]] = "index"
      <3>1. path' = path /\ Saw(r, asked[r], {"index"})
        BY <1>3, <1>8, <2>0, <2>2 DEF OpenIndex
      <3>2. SeenFor(r)'
        BY <1>1, <2>0, <3>1 DEF SeenFor, SeenOwn, Saw
      <3> QED
        BY <1>1, <1>2, <2>0, <2>1, <3>1, <3>2 DEF ProgressOf, AnswerOf, Busy
    <2>3. CASE fs[asked[r]] # "index"
      <3>1. path'[r] = Fallback
        BY <1>4, <1>8, <2>0, <2>3 DEF OpenIndex, ServeFallback
      <3>2. SeenFor(r)'
        BY <1>1, <2>0, <3>1 DEF SeenFor, SeenNone, Saw
      <3> QED
        BY <1>1, <2>0, <2>1, <3>1, <3>2 DEF ProgressOf, AnswerOf, Busy
    <2> QED
      BY <2>2, <2>3
  <1>9. CASE Serve(r)
    <2>0. pc[r] = "serve" /\ (SPA => SeenFor(r)) /\ path' = path
      BY <1>9 DEF Serve, ProgressOf
    <2>1. pc'[r] = "done" /\ answer'[r] = FileServer(path[r])
      BY <1>4, <1>9 DEF Serve, Answer, Goto
    <2>2. SeenFor(r)' <=> SeenFor(r)
      BY <1>1, <1>2, <2>0 DEF SeenFor, SeenOwn, SeenNone
    <2>3. SPA => ServedFrom(r, fs)'
      BY <1>1, <2>0, <2>1, <2>2 DEF ServedFrom, FileServer
    <2>4. SPA => \E f \in past'[r] : ServedFrom(r, f)'
      BY <1>1, <2>3
    <2> QED
      BY <1>1, <1>2, <2>0, <2>1, <2>4 DEF ProgressOf, AnswerOf, Busy
  <1> QED
    BY <1>5, <1>6, <1>7, <1>8, <1>9 DEF Step

\* The strengthened invariant is inductive.
LEMMA StepIInv == IInv /\ [Next]_vars => IInv'
  <1> SUFFICES ASSUME IInv, [Next]_vars PROVE IInv'
    OBVIOUS
  <1>1. TypeOK'
    BY TypeStep DEF IInv
  <1>2. ASSUME NEW r \in Requests PROVE ProgressOf(r)' /\ AnswerOf(r)'
    <2>1. TypeOK /\ ProgressOf(r) /\ AnswerOf(r)
      BY DEF IInv
    <2>2. ASSUME NEW q \in Requests, Step(q) PROVE ProgressOf(r)' /\ AnswerOf(r)'
      BY <2>1, <2>2, Others, OwnStep
    <2>3. CASE UseStatic \/ UNCHANGED vars
      BY <2>1, <2>3 DEF UseStatic, vars, held, ProgressOf, AnswerOf, Busy, Answered, Saw,
         SeenFor, SeenOwn, SeenNone, ServedFrom, LetThrough, ErrorCode
    <2>4. CASE Deploy
      BY <2>1, <2>4, DeployStep
    <2> QED
      BY <2>2, <2>3, <2>4 DEF Next
  <1> QED
    BY <1>1, <1>2 DEF IInv

-----------------------------------------------------------------------------
(* The theorems.                                                           *)

\* In every behaviour a request is served for a reason that it has seen in the
\* file system since it began.
THEOREM Invariance == Spec => []IInv
  BY InitIInv, StepIInv, PTL DEF Spec

\* Every variable keeps its type.
THEOREM TypeCorrect == Spec => []TypeOK
  <1>1. IInv => TypeOK
    BY DEF IInv
  <1> QED
    BY Invariance, <1>1, PTL

\* A single page application shows its page for every route that is no file,
\* whatever a deployment does meanwhile, and never for a missing asset.
THEOREM RoutesServed == Spec => []RoutesGetThePage
  <1>1. ASSUME IInv, NEW r \in Requests, SPA, LetThrough(r), pc[r] = "done", ~Answered(r, 500),
               \A f \in past[r] : f[Fallback] \in {"file", "index"}
        PROVE  /\ (Always(r, {"absent"}) /\ asked[r] \notin Assets) => answer[r].body = Fallback
               /\ (Always(r, {"absent"}) /\ asked[r] \in Assets) => answer[r].status = 404
               /\ Always(r, {"dir"}) => answer[r].body = Fallback
    <2>1. AnswerOf(r) /\ ErrorCode(500) # None /\ ErrorCode(500).status = 500
      BY <1>1, ErrorCodeType DEF IInv
    <2>2. CASE answer[r] = ErrorCode(404) /\ asked[r] \in Assets /\ Saw(r, asked[r], {"absent"})
      BY <2>2, ErrorCodeType DEF Always, Saw
    <2>3. ASSUME NEW f \in past[r], ServedFrom(r, f)
          PROVE  /\ (Always(r, {"absent"}) /\ asked[r] \notin Assets) => answer[r].body = Fallback
                 /\ (Always(r, {"absent"}) /\ asked[r] \in Assets) => answer[r].status = 404
                 /\ Always(r, {"dir"}) => answer[r].body = Fallback
      <3>1. CASE SeenOwn(r)
        BY <3>1 DEF SeenOwn, Saw, Always
      <3>2. CASE SeenNone(r)
        <4>1. path[r] = Fallback /\ answer[r].body = Fallback
          BY <1>1, <2>3, <3>2 DEF ServedFrom, SeenNone
        <4> QED
          BY <3>2, <4>1 DEF SeenNone, Saw, Always
      <3> QED
        BY <2>3, <3>1, <3>2 DEF ServedFrom, SeenFor
    <2> QED
      BY <1>1, <2>1, <2>2, <2>3 DEF AnswerOf, Busy, Answered
  <1>2. IInv => RoutesGetThePage
    BY <1>1 DEF RoutesGetThePage, LetThrough
  <1> QED
    BY Invariance, <1>2, PTL

\* It lists a directory only after a deployment has taken an index.html away,
\* or put the directory in the place of a file, since the request began.
THEOREM ListsInAGap == Spec => []ListingsNeedAGap
  <1>1. ASSUME IInv, NEW r \in Requests, SPA, Answered(r, 200), answer[r].body = "listing"
        PROVE  \/ \E f \in past[r] : f[Fallback] = "dir"
               \/ \E f, g \in past[r] : f[path[r]] \in {"file", "index"} /\ g[path[r]] = "dir"
    <2>1. ProgressOf(r) /\ AnswerOf(r) /\ path[r] \in Paths
      BY <1>1 DEF IInv, TypeOK
    <2>2. ~Busy(r) /\ answer[r].status = 200
      BY <1>1, <2>1 DEF ProgressOf, Answered
    <2>3. PICK f \in past[r] : ServedFrom(r, f)
      BY <1>1, <2>1, <2>2, ErrorCodeType DEF AnswerOf
    <2>4. f[path[r]] = "dir"
      BY <1>1, <2>1, <2>3, PathsAssumption DEF ServedFrom
    <2> QED
      BY <2>3, <2>4 DEF ServedFrom, SeenFor, SeenOwn, SeenNone, Saw
  <1>2. IInv => ListingsNeedAGap
    BY <1>1 DEF ListingsNeedAGap
  <1> QED
    BY Invariance, <1>2, PTL

\* It answers 404 for a path it lets through only where an asset was missing, or
\* the fallback, or a deployment has taken away what was there when the handler
\* looked: never where the fallback was to be served.
THEOREM FallsBackUnlessInAGap == Spec => []NotFoundNeedsAGap
  <1>1. ASSUME IInv, NEW r \in Requests, SPA, LetThrough(r), Answered(r, 404)
        PROVE  \/ asked[r] \in Assets /\ \E f \in past[r] : f[asked[r]] = "absent"
               \/ \E f \in past[r] : f[Fallback] = "absent"
               \/ \E f, g \in past[r] : f[asked[r]] \in {"file", "index"} /\ g[asked[r]] = "absent"
    <2>1. ProgressOf(r) /\ AnswerOf(r)
      BY <1>1 DEF IInv
    <2>2. ~Busy(r) /\ answer[r].status = 404
      BY <1>1, <2>1 DEF ProgressOf, Answered
    <2>3. \/ asked[r] \in Assets /\ Saw(r, asked[r], {"absent"})
          \/ \E f \in past[r] : ServedFrom(r, f)
      BY <1>1, <2>1, <2>2, ErrorCodeType DEF AnswerOf
    <2>4. ASSUME NEW f \in past[r], ServedFrom(r, f)
          PROVE  \/ f[Fallback] = "absent"
                 \/ f[asked[r]] = "absent" /\ Saw(r, asked[r], {"file", "index"})
      <3>1. f[path[r]] = "absent"
        BY <2>2, <2>4 DEF ServedFrom
      <3> QED
        BY <2>4, <3>1 DEF ServedFrom, SeenFor, SeenOwn, SeenNone
    <2> QED
      BY <2>3, <2>4 DEF Saw
  <1>2. IInv => NotFoundNeedsAGap
    BY <1>1 DEF NotFoundNeedsAGap, LetThrough
  <1> QED
    BY Invariance, <1>2, PTL
=============================================================================
