----------------------------- MODULE CrossOrigin -----------------------------
(***************************************************************************)
(* security.go: UseCrossOriginProtection and UseCrossOriginResourceSharing *)
(* on one request, with Glob of internal/text/glob.go.  Operators only.    *)
(*                                                                         *)
(* An origin is a sequence of tokens: its scheme, then its host; <<>> is a *)
(* missing header, and the token "*" the glob character.  A request is a   *)
(* record of its method, headers and whether it has cookies.  What the     *)
(* response exposes (Access-Control-Expose-Headers) is left out.           *)
(***************************************************************************)
EXTENDS Naturals, Sequences, FiniteSetsExt, SequencesExt

AllOrigins == <<"*">>
Scheme(o) == SubSeq(o, 1, 1)
Host(o) == SubSeq(o, 2, Len(o))

-----------------------------------------------------------------------------
(* Glob(input, match): the prefix, then each middle part where it occurs   *)
(* first in what is left (the prefix is not cut off), then the suffix.     *)

Occurs(part, s) == {j \in 0..(Len(s) - Len(part)) : SubSeq(s, j + 1, j + Len(part)) = part}

Glob(input, match) ==
    LET stars == {i \in DOMAIN match : match[i] = "*"}
        Part(k) == SubSeq(match, Max({i \in stars : i < k}) + 1, k - 1)
        rest[k \in {0} \cup stars] ==  \* what is left before the star at k; "no match" is {}
          LET before == Max({i \in {0} \cup stars : i < k})
          IN  IF k = 0 \/ k = Min(stars) THEN {input}
              ELSE {SubSeq(s, Min(Occurs(Part(k), s)) + Len(Part(k)) + 1, Len(s)) :
                      s \in {t \in rest[before] : Occurs(Part(k), t) # {}}}
    IN  IF stars = {} THEN input = match
        ELSE /\ IsPrefix(SubSeq(match, 1, Min(stars) - 1), input)
             /\ \E s \in rest[Max(stars)] : IsSuffix(SubSeq(match, Max(stars) + 1, Len(match)), s)

HasGlob(o) == \E i \in DOMAIN o : o[i] = "*"

-----------------------------------------------------------------------------
(* UseCrossOriginProtection(rules...).                                     *)

\* Mutant of Trusted: rules without a glob compare the host alone.
TrustedAnyScheme(rules, origin) ==
    \E u \in rules : ~HasGlob(u) /\ Host(u) = Host(origin)

\* The condition made of the rules.  A glob is matched against the path of the
\* origin, as the input: that path is empty, and nothing matches it.
Trusted(rules, origin) ==
    \/ \E u \in rules : ~HasGlob(u) /\ Host(u) = Host(origin) /\ Scheme(u) = Scheme(origin)
    \/ \E g \in rules : HasGlob(g) /\ Glob(g, <<>>)

\* crossOriginCheck: url.Parse gives an URL for a missing Origin too, so that the
\* branch for requests with neither header is never taken.
CrossOriginCheck(rules, host, q) ==
    \/ q.method \in {"GET", "HEAD", "OPTIONS"}
    \/ q.site \in {"same-origin", "none"}
    \/ q.site = "missing" /\ Host(q.origin) = host
    \/ Trusted(rules, q.origin)

-----------------------------------------------------------------------------
(* UseCrossOriginResourceSharing(config).  AllowOriginFunc, if any, is one *)
(* that allows cookies only to the origins in "partners", and says so.     *)

Safelisted == {"Accept", "Content-Type", "Origin"}

\* CORSConfig.Validate: the defaults.
ValidCORS(c) ==
    [c EXCEPT !.origins = IF @ = {} /\ ~c.func THEN {AllOrigins} ELSE @,
              !.methods = IF @ = {} THEN {"GET", "HEAD", "POST"} ELSE @,
              !.headers = IF @ = {} THEN Safelisted ELSE @]

AllowsAllOrigins(c) == AllOrigins \in c.origins

\* Mutant of AllowOriginFunc: the headers the function decided by are not told.
AllowOriginFuncAlone(c, q) ==
    [allowed |-> IF c.func THEN q.cookie => q.origin \in c.partners
                 ELSE \E v \in c.origins : Glob(q.origin, v),
     vary |-> {}]

\* Whether the origin of a request is allowed, and the headers that decided.
AllowOriginFunc(c, q) ==
    [allowed |-> IF c.func THEN q.cookie => q.origin \in c.partners
                 ELSE \E v \in c.origins : Glob(q.origin, v),
     vary |-> IF c.func THEN {"Cookie"} ELSE {}]

NoHeaders == [allowOrigin |-> <<>>, credentials |-> FALSE, vary |-> {}, methods |-> {},
              headers |-> {}, private |-> FALSE, store |-> FALSE]

\* Mutant of Vary: it is set only where an origin is asked about.
VaryIfAsked(c, q) == IF q.origin = <<>> THEN {} ELSE {"Origin"} \cup AllowOriginFunc(c, q).vary

\* Every response says that it depends on the origin, also one without.
Vary(c, q) == {"Origin"} \cup AllowOriginFunc(c, q).vary

Granted(c, q) == q.origin # <<>> /\ AllowOriginFunc(c, q).allowed

AllowOrigin(c, q) == IF AllowsAllOrigins(c) THEN AllOrigins ELSE q.origin

\* Mutant of PreflightAllowed: the headers are not looked at.
PreflightAllowedAnyHeader(c, q) ==
    /\ Granted(c, q)
    /\ q.askMethod # "OPTIONS" /\ q.askMethod \in c.methods

PreflightAllowed(c, q) ==
    /\ Granted(c, q)
    /\ q.askMethod # "OPTIONS" /\ q.askMethod \in c.methods
    /\ "*" \in c.headers \/ q.askHeaders \subseteq c.headers

\* handlePreflight.
HandlePreflight(c, q) ==
    IF ~PreflightAllowed(c, q) THEN [NoHeaders EXCEPT !.vary = Vary(c, q)]
    ELSE [allowOrigin |-> AllowOrigin(c, q), credentials |-> c.credentials, vary |-> Vary(c, q),
          methods |-> {q.askMethod}, headers |-> q.askHeaders,
          private |-> (c.privateNetwork /\ q.askPrivate),
          store |-> (c.maxAge >= 0)]   \* no Access-Control-Max-Age: the browser's default

\* Mutant of RequestAllowed: the origin is not looked at.
RequestAllowedAnyOrigin(c, q) == q.origin # <<>> /\ (q.method = "OPTIONS" \/ q.method \in c.methods)

RequestAllowed(c, q) == Granted(c, q) /\ (q.method = "OPTIONS" \/ q.method \in c.methods)

\* handleRequest.
HandleRequest(c, q) ==
    IF ~RequestAllowed(c, q) THEN [NoHeaders EXCEPT !.vary = Vary(c, q)]
    ELSE [NoHeaders EXCEPT !.allowOrigin = AllowOrigin(c, q), !.credentials = c.credentials,
                           !.vary = Vary(c, q)]

IsPreflight(q) == q.method = "OPTIONS" /\ q.askMethod # "missing"

=============================================================================
