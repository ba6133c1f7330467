-------------------------------- MODULE Edge --------------------------------
(***************************************************************************)
(* The edge of a chix server: pages in browsers fetch from it, through     *)
(* proxies that add forwarding headers and a shared cache that honours     *)
(* Vary; the server is UseRealIP, UseCrossOriginProtection,                *)
(* UseCrossOriginResourceSharing and UsePrivateIP around a handler.        *)
(*                                                                         *)
(* The server has no state: what can go wrong lies between its answers and *)
(* those who keep them.  Browsers (the Fetch standard) and proxies are     *)
(* external.                                                               *)
(***************************************************************************)
EXTENDS RealIP, CrossOrigin

CONSTANTS
    Pages,       \* the clients: a page in a browser, or a program
    Client,      \* their origin, browser, way to the server and claims
    Own,         \* the origin of the server's own pages
    Setups,      \* ways to set the server up, with the pages and fetches to try
    MaxFetches   \* bound: fetches of all pages

VARIABLES
    setup,       \* the set-up of this program
    pc,          \* where a page is: "idle", "preflight", "send", "done"
    fetch,       \* what it fetches
    got,         \* whether its script may read the response
    begun,       \* fetches begun
    handled,     \* what the handler saw of its last fetch
    cache,       \* responses in the shared cache
    preflights   \* preflight results in browsers

vars == <<setup, pc, fetch, got, begun, handled, cache, preflights>>

None == [none |-> TRUE]
Fetches == [method : {"GET", "POST", "PUT"}, custom : BOOLEAN, cookie : BOOLEAN]

\* The server starts: the config of UseRealIP is made of its options and valid.
Config(s) == Validate(FromStringOpts(s.options))
Starts(s) == Valid(Config(s))
CORSOf(s) == ValidCORS(s.cors)

TypeOK ==
    /\ setup \in Setups
    /\ \A p \in setup.pages :
          /\ pc[p] \in {"idle", "preflight", "send", "done"}
          /\ fetch[p] \in Fetches \cup {None}
          /\ got[p] \in {"nothing", "error", "opaque", "response"}
          /\ begun \in 0..MaxFetches

Init ==
    /\ setup \in {s \in Setups : Starts(s)}
    /\ pc = [p \in setup.pages |-> "idle"]
    /\ fetch = [p \in setup.pages |-> None] /\ got = [p \in setup.pages |-> "nothing"]
    /\ begun = 0 /\ handled = [p \in setup.pages |-> None]
    /\ cache = {} /\ preflights = {}

-----------------------------------------------------------------------------
(* The server.                                                             *)

\* UseCrossOriginProtection denies, inside or outside of CORS.
Denied(q) == setup.protect /\ ~CrossOriginCheck(setup.rules, Host(Own), q)

Answered(q) == IsPreflight(q) /\ ~setup.cors.passthrough

\* UsePrivateIP, the innermost, looks at the address that UseRealIP has found.
Addr(peer, headers) == RemoteAddr(Config(setup), peer, headers)
Refused(addr) == setup.privateOnly /\ addr \notin Private

Response(q, addr) ==
    LET c == CORSOf(setup)
    IN  [ok |-> ~Denied(q) /\ (Answered(q) \/ ~Refused(addr)),
         cors |-> IF Denied(q) /\ setup.protectFirst THEN NoHeaders
                  ELSE IF IsPreflight(q) THEN HandlePreflight(c, q) ELSE HandleRequest(c, q)]

\* The handler runs unless a middleware has answered.
Handle(p, q, addr) ==
    handled' = IF Denied(q) \/ Answered(q) \/ Refused(addr) THEN handled
               ELSE [handled EXCEPT ![p] = [method |-> q.method, addr |-> addr]]

-----------------------------------------------------------------------------
(* The way there (external).  A proxy appends the address the request came *)
(* from to X-Forwarded-For, and sets some headers to it.                   *)

Addrs(p) == <<Client[p].addr>> \o [i \in DOMAIN Client[p].route |-> Client[p].route[i].addr]

Setters(p, h) == {i \in DOMAIN Client[p].route : h \in Client[p].route[i].sets}

Headers(p) ==
    [h \in HeaderNames |->
       IF h = "X-Forwarded-For" THEN Client[p].claims \o Front(Addrs(p))
       ELSE IF Setters(p, h) = {} THEN <<>> ELSE <<Addrs(p)[Max(Setters(p, h))]>>]

CrossSite(p) == Client[p].origin # Own /\ Client[p].browser # "none"

-----------------------------------------------------------------------------
(* What clients and set-ups are.  A set-up tells what its owner means:     *)
(* "trusts" are the addresses of proxies, "partners" the origins that may  *)
(* use the service, and "open" says that others may too, without cookies.  *)
(* Its configs say the same, as far as the pages it is tried with tell.    *)

ASSUME BoundAssumption == MaxFetches \in Nat

IsSequence(s) == s \in Seq(Range(s))
IsOrigin(o) == IsSequence(o) /\ Len(o) >= 2

\* A browser tells the origin of its page; a program has none to tell.
ASSUME ClientAssumption ==
    /\ IsOrigin(Own)
    /\ \A p \in Pages :
          /\ \/ Client[p].browser = "none" /\ Client[p].origin = <<>>
             \/ /\ Client[p].browser \in {"modern", "old"}
                /\ IsOrigin(Client[p].origin) /\ ~HasGlob(Client[p].origin)
          /\ IsSequence(Client[p].route) /\ IsSequence(Client[p].claims)
          /\ Range(Addrs(p)) \subseteq Addresses

\* A header other than X-Forwarded-For is set by the first of the trusted
\* proxies, if at all, and one that is in use is set.
MeansAddresses(s) ==
    LET hs == Range(Config(s).headers)
    IN  /\ s.trusts = TrustedRanges(Config(s))
        /\ \A p \in s.pages : Last(Addrs(p)) \in s.trusts =>
              /\ "X-Forwarded-For" \in hs \/ \E h \in hs : Setters(p, h) # {}
              /\ \A h \in hs \ {"X-Forwarded-For"} : Setters(p, h) # {} =>
                    \A i \in DOMAIN Addrs(p) : Addrs(p)[i] \in s.trusts <=> i > Max(Setters(p, h))

MeansOrigins(s) ==
    LET c == CORSOf(s)
    IN  IF c.func THEN s.open /\ s.partners = c.partners /\ ~AllowsAllOrigins(c)
        ELSE IF AllowsAllOrigins(c) THEN s.open /\ s.partners = {}
        ELSE /\ ~s.open
             /\ \A p \in s.pages : CrossSite(p) =>
                   (Client[p].origin \in s.partners <=> \E v \in c.origins : Glob(Client[p].origin, v))

ASSUME SetupAssumption ==
    \A s \in Setups :
       /\ s.pages \subseteq Pages /\ s.fetches \subseteq Fetches
       /\ IsSequence(s.options) /\ \A u \in s.rules : IsOrigin(u)
       /\ Starts(s) => MeansAddresses(s)
       /\ MeansOrigins(s)

-----------------------------------------------------------------------------
(* The browser (external).                                                 *)

\* Origin goes with every request to another site and with all that may have an
\* effect; old browsers do not send Sec-Fetch-Site, programs neither.
Request(p, method) ==
    [method |-> method,
     origin |-> IF Client[p].browser # "none" /\ (CrossSite(p) \/ method # "GET")
                  THEN Client[p].origin ELSE <<>>,
     site |-> IF Client[p].browser # "modern" THEN "missing"
              ELSE IF CrossSite(p) THEN "cross-site" ELSE "same-origin",
     cookie |-> fetch[p].cookie,
     askMethod |-> "missing", askHeaders |-> {}, askPrivate |-> FALSE]

PreflightRequest(p) ==
    [Request(p, "OPTIONS") EXCEPT
       !.cookie = FALSE, !.askMethod = fetch[p].method,
       !.askHeaders = IF fetch[p].custom THEN {"X-Custom"} ELSE {},
       !.askPrivate = Client[p].public]

NeedsPreflight(p, f) == CrossSite(p) /\ (f.method = "PUT" \/ f.custom \/ Client[p].public)

\* The CORS check.
Shared(p, r) ==
    \/ r.allowOrigin = AllOrigins /\ ~fetch[p].cookie
    \/ r.allowOrigin = Client[p].origin /\ (fetch[p].cookie => r.credentials)

Cleared(p, r) ==
    /\ Shared(p, r)
    /\ fetch[p].method \in r.methods \cup {"GET", "POST"}
    /\ fetch[p].custom => "X-Custom" \in r.headers
    /\ Client[p].public => r.private

Readable(p, r) == IF CrossSite(p) /\ ~Shared(p, r.cors) THEN "opaque"
                  ELSE IF r.ok THEN "response" ELSE "error"

\* The browser keeps a result for pages of one origin on one network.
Result(p, f) == <<Client[p].origin, Client[p].public, f>>

Start(p) ==
    /\ pc[p] \in {"idle", "done"} /\ begun < MaxFetches
    /\ begun' = begun + 1
    /\ \E f \in setup.fetches :
          /\ fetch' = [fetch EXCEPT ![p] = f]
          /\ \/ NeedsPreflight(p, f) /\ pc' = [pc EXCEPT ![p] = "preflight"]
             \/ /\ NeedsPreflight(p, f) => Result(p, f) \in preflights   \* and still fresh
                /\ pc' = [pc EXCEPT ![p] = "send"]
    /\ got' = [got EXCEPT ![p] = "nothing"]
    /\ handled' = [handled EXCEPT ![p] = None]
    /\ UNCHANGED <<setup, cache, preflights>>

Preflight(p) ==
    /\ pc[p] = "preflight"
    /\ LET q == PreflightRequest(p)
           addr == Addr(Last(Addrs(p)), Headers(p))
           r == Response(q, addr)
       IN  /\ Handle(p, q, addr)
           /\ IF r.ok /\ Cleared(p, r.cors)
                THEN /\ pc' = [pc EXCEPT ![p] = "send"] /\ UNCHANGED got
                     /\ preflights' = IF r.cors.store
                                        THEN preflights \cup {Result(p, fetch[p])}
                                        ELSE preflights
                ELSE /\ pc' = [pc EXCEPT ![p] = "done"] /\ UNCHANGED preflights
                     /\ got' = [got EXCEPT ![p] = "opaque"]
    /\ UNCHANGED <<setup, fetch, begun, cache>>

\* What a stored response depends on.
Key(vary, q) == [h \in vary |-> IF h = "Origin" THEN q.origin ELSE <<q.cookie>>]

FromServer(p) ==
    /\ pc[p] = "send"
    /\ LET q == Request(p, fetch[p].method)
           addr == Addr(Last(Addrs(p)), Headers(p))
           r == Response(q, addr)
       IN  /\ Handle(p, q, addr)
           /\ got' = [got EXCEPT ![p] = Readable(p, r)]
           /\ cache' = IF setup.cached /\ q.method = "GET"
                         THEN cache \cup {[key |-> Key(r.cors.vary, q), response |-> r]}
                         ELSE cache
    /\ pc' = [pc EXCEPT ![p] = "done"]
    /\ UNCHANGED <<setup, fetch, begun, preflights>>

\* A stored response may be used as long as it is there; nothing keeps it there.
FromCache(p) ==
    /\ pc[p] = "send" /\ fetch[p].method = "GET"
    /\ \E e \in cache :
          /\ e.key = Key(DOMAIN e.key, Request(p, "GET"))
          /\ got' = [got EXCEPT ![p] = Readable(p, e.response)]
    /\ pc' = [pc EXCEPT ![p] = "done"]
    /\ UNCHANGED <<setup, fetch, begun, handled, cache, preflights>>

Next == \E p \in setup.pages : Start(p) \/ Preflight(p) \/ FromServer(p) \/ FromCache(p)

Spec == Init /\ [][Next]_vars

-----------------------------------------------------------------------------
(* Properties.                                                             *)

\* The address that is nearest to the server and not a trusted proxy's; the
\* farthest, if all are.
Nearest(s, p) ==
    LET known == Client[p].claims \o Addrs(p)
        strange == {i \in DOMAIN known : known[i] \notin s.trusts}
    IN  IF strange = {} THEN known[1] ELSE known[Max(strange)]

\* A claim that is no address leaves X-Forwarded-For unread as a whole; then only a
\* header that a proxy has set tells where the request comes from.
Told(s, p) ==
    \/ Last(Addrs(p)) \notin s.trusts
    \/ Range(Client[p].claims) \subseteq Addresses
    \/ \E h \in Range(Config(s).headers) \ {"X-Forwarded-For"} : Setters(p, h) # {}

\* Whatever a client claims, the handler never believes it: UseRealIP gives it the
\* nearest address that is not a trusted proxy's or leaves it the connection's own,
\* and the latter only where nothing tells.  UsePrivateIP admits by that address.
NearestUntrusted ==
    \A p \in setup.pages : handled[p] # None =>
        /\ handled[p].addr \in {Nearest(setup, p), Last(Addrs(p))}
        /\ Told(setup, p) => /\ handled[p].addr = Nearest(setup, p)
                             /\ setup.privateOnly => Nearest(setup, p) \in Private

\* A script reads the responses of its own server, and others only where the
\* owner allows its origin, the method, the headers and, with cookies, credentials.
Allowed(p) ==
    LET c == CORSOf(setup)
    IN  /\ Client[p].origin \in setup.partners \/ (setup.open /\ ~fetch[p].cookie)
        /\ fetch[p].cookie => c.credentials
        /\ fetch[p].method \in c.methods
        /\ fetch[p].custom => {"X-Custom", "*"} \cap c.headers # {}
        /\ Client[p].public => c.privateNetwork
Permitted(p) == ~CrossSite(p) \/ Allowed(p)

ReadOnlyIfAllowed == \A p \in setup.pages : got[p] \in {"response", "error"} => Permitted(p)

\* What is allowed succeeds, whatever the cache and the browsers have kept.
Welcome(p) ==
    /\ Permitted(p) /\ ~setup.privateOnly
    /\ setup.protect /\ fetch[p].method # "GET" =>
         Client[p].browser # "none" /\ (~CrossSite(p) \/ Client[p].origin \in setup.rules)

AllowedFetchSucceeds == \A p \in setup.pages : pc[p] = "done" /\ Welcome(p) => got[p] = "response"

\* With cross-origin protection a page of another site has no method that is not
\* safe run, unless a rule, read as it is documented, names its origin.  A page of
\* the server's host under another scheme counts as its own in an old browser.
Named(p) == \E u \in setup.rules : Glob(Client[p].origin, u)

UnsafeOnlyIfTrusted ==
    \A p \in setup.pages :
        (/\ setup.protect /\ CrossSite(p)
         /\ handled[p] # None /\ handled[p].method \in {"POST", "PUT"})
        => Named(p) \/ (Client[p].browser = "old" /\ Host(Client[p].origin) = Host(Own))
=============================================================================
