------------------------------- MODULE SignIn -------------------------------
(***************************************************************************)
(* redirect.go and xauth: signing in and being sent back.  One browser has *)
(* several tabs on one cookie jar; the server keeps nothing between        *)
(* requests but what is in the two cookies, "_next" (UseNextURL,           *)
(* SecureRedirect, SecureRedirectOrNext) and the session (goth.go,         *)
(* basicauth.go, auth.go).                                                 *)
(*                                                                         *)
(* A request carries the cookies of the moment it is sent; the cookies of  *)
(* the response reach the jar when it is delivered, and other tabs may     *)
(* have changed the jar in between.                                        *)
(***************************************************************************)
EXTENDS Naturals

CONSTANTS
    Tabs,
    Targets,      \* what a "next" parameter, or a handler, may name
    Pages,        \* what may follow the host in an address
    Lossy,        \* those that have bytes a cookie value cannot hold
    TLS,          \* is the site served over TLS?
    Users,        \* ids of the service's users
    IDType,       \* the ID type parameter of the auth handlers
    AuthContext,  \* is UseAuthContext installed around the auth handlers?
    None, Keep    \* no value; a cookie the response leaves alone

Home == [scheme |-> "none", host |-> "none", page |-> "home"]
Provider == [scheme |-> "https", host |-> "provider", page |-> "signin"]
Target == [scheme : {"none", "http", "https", "other", "unparsable"},
           host : {"none", "own", "foreign"}, page : Pages]

ASSUME TargetsAssumption ==
    /\ {"home", "cut"} \subseteq Pages
    /\ Targets \subseteq Target /\ None \notin Target /\ Keep \notin Target \cup {None}
ASSUME AuthAssumption ==
    /\ Users \subseteq Nat /\ None \notin Users /\ TLS \in BOOLEAN /\ AuthContext \in BOOLEAN
    /\ IDType \in {"string", "int", "int64", "float64", "uint", "uint16", "uint32", "uint64"}

VARIABLES
    jar,     \* the cookies: next, the id in the session, the tab that began a sign-in
    answer,  \* the response on its way to each tab, None without one
    where,   \* the address each tab has been redirected to
    signed,  \* users the service has accepted in this browser
    asked,   \* the last "next" parameter of this browser
    spent    \* how the target in the jar has been followed already, "no" if not

vars == <<jar, answer, where, signed, asked, spent>>

-----------------------------------------------------------------------------
(* redirect.go.                                                            *)

\* http.SetCookie drops the bytes that are not valid in a cookie value.
AsCookie(t) == IF t.page \in Lossy THEN [t EXCEPT !.page = "cut"] ELSE t

\* Mutant of SecureRedirect: the host of the target is not compared.
SecureRedirectAnywhere(t) ==
    IF t.scheme = "none" /\ t.host = "none" THEN [to |-> t, clears |-> FALSE, via |-> "target"]
    ELSE IF t.scheme \in {"http", "https"}
      THEN [to |-> IF TLS THEN [t EXCEPT !.scheme = "https"] ELSE t,
            clears |-> TRUE, via |-> "target"]
    ELSE [to |-> Home, clears |-> FALSE, via |-> "refused"]

\* SecureRedirect: where it sends the client, and whether it clears "_next".
SecureRedirect(t) ==
    IF t.scheme = "none" /\ t.host = "none" THEN [to |-> t, clears |-> FALSE, via |-> "target"]
    ELSE IF t.scheme \in {"http", "https"} /\ t.host = "own"
      THEN [to |-> IF TLS THEN [t EXCEPT !.scheme = "https"] ELSE t,
            clears |-> TRUE, via |-> "target"]
    ELSE [to |-> Home, clears |-> FALSE, via |-> "refused"]

\* Mutant of SecureRedirectOrNext: the cookie is cleared by SecureRedirect alone.
SecureRedirectOrNextKeeps(q, c, fallback) ==
    IF q # None THEN SecureRedirect(q)
    ELSE IF c # None THEN [SecureRedirect(c) EXCEPT !.via = "cookie"]
    ELSE SecureRedirect(fallback)

\* SecureRedirectOrNext: the "next" parameter q, the cookie c, the fallback.
SecureRedirectOrNext(q, c, fallback) ==
    IF q # None THEN SecureRedirect(q)
    ELSE IF c # None THEN [SecureRedirect(c) EXCEPT !.clears = TRUE, !.via = "cookie"]
    ELSE SecureRedirect(fallback)

\* Mutant of Response: UseNextURL does not replace a cookie.
ResponseKeepsFirst(q, session, ident, redirect) ==
    [next    |-> IF redirect.clears THEN None
                 ELSE IF q # None /\ jar.next = None THEN AsCookie(q) ELSE Keep,
     session |-> session, ident |-> ident, to |-> redirect.to, via |-> redirect.via,
     q |-> q, wanted |-> IF redirect.via = "cookie" THEN asked ELSE None]

\* A response: UseNextURL stores q before the handler runs, so that a handler
\* which clears the cookie has the last word.
Response(q, session, ident, redirect) ==
    [next    |-> IF redirect.clears THEN None ELSE IF q # None THEN AsCookie(q) ELSE Keep,
     session |-> session, ident |-> ident, to |-> redirect.to, via |-> redirect.via,
     q |-> q, wanted |-> IF redirect.via = "cookie" THEN asked ELSE None]

Stay == [to |-> None, clears |-> FALSE, via |-> "stay"]

-----------------------------------------------------------------------------
(* auth.go.                                                                *)

SignedOut == [auth |-> None, begun |-> None]

\* Mutant of getAuthIDFromSession: no id in the session is the zero value.
getAuthIDFromSessionZero(key) == IF key = None THEN 0 ELSE key

\* getAuthIDFromSession: ParseUint answers a uint64, and v.(ID) with another
\* unsigned ID type leaves the zero value.
getAuthIDFromSession(key) ==
    IF key = None THEN None
    ELSE IF IDType \in {"uint", "uint16", "uint32"} THEN 0 ELSE key

\* UseAuthContext, when the service answers, or fails to.
IdentFromContext(session, found) ==
    LET id == getAuthIDFromSession(session.auth)
    IN  IF id \in Users /\ found THEN id ELSE None

-----------------------------------------------------------------------------
TypeOK ==
    /\ jar.next \in {AsCookie(t) : t \in Targets} \cup {None}
    /\ jar.session.auth \in Users \cup {None} /\ jar.session.begun \in Tabs \cup {None}
    /\ \A t \in Tabs : answer[t] # None =>
           /\ answer[t].ident \in Users \cup {None}
           /\ answer[t].via \in {"target", "refused", "cookie", "stay"}
           /\ answer[t].q \in Targets \cup {None}
    /\ signed \subseteq Users
    /\ spent \in {"no", "target", "cookie"} /\ asked \in Targets \cup {None}

Init ==
    /\ jar = [next |-> None, session |-> SignedOut]
    /\ answer = [t \in Tabs |-> None]
    /\ where = [t \in Tabs |-> Home]
    /\ signed = {} /\ spent = "no" /\ asked = None

\* The server answers the request that tab t sends now.
Answers(t, response) ==
    /\ answer[t] = None
    /\ answer' = [answer EXCEPT ![t] = response]
    /\ UNCHANGED <<jar, where, spent, asked>>

Queries == Targets \cup {None}

\* A page of the program.
Visit(t) ==
    /\ \E q \in Queries : Answers(t, Response(q, Keep, None, Stay))
    /\ UNCHANGED signed

\* A handler calls SecureRedirect, or SecureRedirectOrNext(SkipNextURL(r)).
Redirect(t) ==
    /\ \E q \in Queries, target \in Targets : Answers(t, Response(q, Keep, None, SecureRedirect(target)))
    /\ UNCHANGED signed

\* GET /self, behind UseAuthContext and UseAuthRequired.
Self(t) ==
    /\ \E found \in BOOLEAN :
          Answers(t, Response(None, Keep, IdentFromContext(jar.session, found), Stay))
    /\ UNCHANGED signed

\* GET /providers/{provider}: gothic stores the attempt in the session and
\* sends the client to the provider, or fails.
Begin(t) ==
    /\ \E q \in Queries, ok \in BOOLEAN :
          Answers(t, IF ok THEN Response(q, [jar.session EXCEPT !.begun = t], None,
                                         [to |-> Provider, clears |-> FALSE, via |-> "stay"])
                           ELSE Response(q, Keep, None, Stay))
    /\ UNCHANGED signed

\* GET /providers/{provider}/callback: CompleteUserAuth accepts the attempt
\* the session holds only; it, Service.Set and StoreInSession may fail.
Callback(t) ==
    /\ where[t] = Provider
    /\ \/ /\ \E session \in {Keep, SignedOut} : Answers(t, Response(None, session, None, Stay))
          /\ UNCHANGED signed
       \/ /\ jar.session.begun = t
          /\ \E u \in Users :
                /\ signed' = signed \cup {u}
                /\ Answers(t, Response(None, [jar.session EXCEPT !.auth = u], None,
                                       SecureRedirectOrNext(None, jar.next, Home)))

\* GET /login of the basic auth handler, where the user name is the id.
Login(t) ==
    /\ IDType = "string"
    /\ \E q \in Queries, found \in BOOLEAN :
          IF AuthContext /\ IdentFromContext(jar.session, found) # None
            THEN /\ Answers(t, Response(q, Keep, None, SecureRedirectOrNext(q, jar.next, Home)))
                 /\ UNCHANGED signed
            ELSE \/ Answers(t, Response(q, Keep, None, Stay)) /\ UNCHANGED signed
                 \/ \E u \in Users :
                       /\ signed' = signed \cup {u}
                       /\ Answers(t, Response(q, [jar.session EXCEPT !.auth = u], None,
                                              SecureRedirectOrNext(q, jar.next, Home)))

\* GET /logout: the client is sent on also when gothic.Logout could not clear the
\* session, as its error is dropped.
Logout(t) ==
    /\ \E q \in Queries, session \in {SignedOut, Keep} :
          Answers(t, Response(q, session, None, SecureRedirectOrNext(q, jar.next, Home)))
    /\ UNCHANGED signed

\* Does this response take the client to the target n?
Follows(a, n) ==
    /\ n # None /\ a.via \in {"target", "cookie"}
    /\ SecureRedirect(n).via # "refused" /\ a.to = SecureRedirect(n).to

\* The response arrives: its cookies go into the jar, its redirect is followed.
Deliver(t) ==
    /\ answer[t] # None
    /\ LET a == answer[t]
       IN  /\ jar' = [next |-> IF a.next = Keep THEN jar.next ELSE a.next,
                      session |-> IF a.session = Keep THEN jar.session ELSE a.session]
           /\ where' = [where EXCEPT ![t] = IF a.to = None THEN @ ELSE a.to]
           /\ asked' = IF a.q = None THEN asked ELSE a.q
           /\ spent' = IF Follows(a, jar'.next) THEN a.via
                       ELSE IF a.next = Keep THEN spent ELSE "no"
    /\ answer' = [answer EXCEPT ![t] = None]
    /\ UNCHANGED signed

Step(t) ==
    \/ Visit(t) \/ Redirect(t) \/ Self(t) \/ Begin(t) \/ Callback(t)
    \/ Login(t) \/ Logout(t) \/ Deliver(t)

Next == \E t \in Tabs : Step(t)
Spec == Init /\ [][Next]_vars

-----------------------------------------------------------------------------
(* Properties.                                                             *)

\* Whatever a visit has put into the "_next" cookie, and whichever tab uses it
\* later, the client ends up on this site, and not on plain http if the site
\* has TLS.
RedirectsStayHome ==
    \A t \in Tabs : where[t] # Provider =>
        /\ where[t].host \in {"none", "own"}
        /\ TLS => where[t].scheme # "http"

\* A stored target that has been followed is no longer in the jar.  One case
\* is different: UseNextURL stores the target of the very request that is
\* redirected to it, and SecureRedirect does not clear a relative one.
NextUsedOnce ==
    spent # "no" => spent = "target" /\ jar.next.scheme = "none" /\ jar.next.host = "none"

\* A sign-in or sign-out that takes its destination from the cookie goes to
\* the last "next" the browser has asked for (redirect.go:22: "redirected
\* back to the original destination"), as far as a cookie can hold its name.
ReturnsToLastNext ==
    \A t \in Tabs :
        (answer[t] # None /\ answer[t].via = "cookie") =>
            answer[t].to = SecureRedirect(AsCookie(answer[t].wanted)).to

\* The identity a request has is one that the service accepted in a sign-in
\* of this browser (auth.go:43: the string in the session is converted to the
\* ID type).
IdentitySignedIn ==
    \A t \in Tabs : answer[t] # None => answer[t].ident \in signed \cup {None}
=============================================================================
