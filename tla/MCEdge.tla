------------------------------- MODULE MCEdge -------------------------------
(* TLC instances of Edge: two groups of set-ups, one for the address and   *)
(* one for origins.                                                        *)
EXTENDS Edge

MCAddresses == {"10.0.0.1", "10.0.0.2", "cf", "1.1.1.1", "2.2.2.2", "3.3.3.3"}
MCPrivate == {"10.0.0.1", "10.0.0.2"}

MCOwn == <<"https", "own">>
Friend == <<"https", "friend", ".example">>
FriendPlain == <<"http", "friend", ".example">>
OwnPlain == <<"http", "own">>
Stranger == <<"https", "stranger">>

Proxy(a, sets) == [addr |-> a, sets |-> sets]
Nginx == Proxy("10.0.0.1", {"X-Real-Ip"})
Inner == Proxy("10.0.0.2", {})
CDN == Proxy("cf", {"Cf-Connecting-Ip"})
Office == Proxy("2.2.2.2", {})

Page(o, b, r, cl, pub) ==
    [origin |-> o, browser |-> b, addr |-> "1.1.1.1", route |-> r, claims |-> cl, public |-> pub]

MCClient ==
    [own      |-> Page(MCOwn, "modern", <<Nginx>>, <<>>, FALSE),
     ownOld   |-> Page(MCOwn, "old", <<Nginx>>, <<>>, FALSE),
     ownPlain |-> Page(OwnPlain, "old", <<Nginx>>, <<>>, FALSE),
     friend   |-> Page(Friend, "modern", <<Nginx>>, <<>>, FALSE),
     plain    |-> Page(FriendPlain, "modern", <<Nginx>>, <<>>, FALSE),
     public   |-> Page(Friend, "modern", <<Nginx>>, <<>>, TRUE),
     stranger |-> Page(Stranger, "modern", <<Nginx>>, <<>>, FALSE),
     oldbie   |-> Page(Stranger, "old", <<Nginx>>, <<>>, FALSE),
     program  |-> Page(<<>>, "none", <<Nginx>>, <<>>, FALSE),
     \* ways to the server
     direct   |-> Page(<<>>, "none", <<>>, <<>>, FALSE),
     claiming |-> Page(<<>>, "none", <<>>, <<"10.0.0.1">>, FALSE),
     behind   |-> Page(<<>>, "none", <<Nginx>>, <<"10.0.0.2", "3.3.3.3">>, FALSE),
     unknown  |-> Page(<<>>, "none", <<Nginx>>, <<"unknown">>, FALSE),
     twice    |-> Page(<<>>, "none", <<Nginx, Inner>>, <<"3.3.3.3">>, FALSE),
     office   |-> Page(<<>>, "none", <<Office, Nginx>>, <<"10.0.0.2">>, FALSE),
     cdn      |-> Page(<<>>, "none", <<CDN>>, <<"3.3.3.3">>, FALSE),
     both     |-> Page(<<>>, "none", <<CDN, Nginx>>, <<>>, FALSE),
     lan      |-> [Page(<<>>, "none", <<Inner, Nginx>>, <<>>, FALSE) EXCEPT !.addr = "10.0.0.1"]]
MCPages == DOMAIN MCClient
Web == {"own", "ownOld", "ownPlain", "friend", "plain", "public", "stranger", "oldbie", "program"}

CORSDefault ==
    [origins |-> {}, func |-> FALSE, partners |-> {}, methods |-> {}, headers |-> {},
     credentials |-> FALSE, maxAge |-> 0, privateNetwork |-> FALSE, passthrough |-> FALSE]

Base ==
    [options |-> <<>>, trusts |-> MCPrivate, cors |-> CORSDefault, partners |-> {}, open |-> TRUE,
     protect |-> FALSE, protectFirst |-> FALSE, rules |-> {}, cached |-> FALSE, privateOnly |-> FALSE,
     pages |-> {}, fetches |-> {}]

Get == [method |-> "GET", custom |-> FALSE, cookie |-> FALSE]
WithCookie(f) == [f EXCEPT !.cookie = TRUE]
Custom(f) == [f EXCEPT !.custom = TRUE]
Post == [Get EXCEPT !.method = "POST"]
Put == [Get EXCEPT !.method = "PUT"]

\* The address: option words, whom they trust, clients.
Forwarding(words, trusts, pages) ==
    {[Base EXCEPT !.options = words, !.trusts = trusts, !.pages = {p}, !.fetches = {Get}] : p \in pages}

PrivateOnly(setups) == {[s EXCEPT !.privateOnly = TRUE] : s \in setups}

AddressSetups == UNION {
    PrivateOnly(Forwarding(<<>>, MCPrivate, MCPages \ Web)),
    Forwarding(<<>>, MCPrivate, MCPages \ Web),
     Forwarding(<<"private", "x-forwarded-for">>, MCPrivate, MCPages \ Web),
     Forwarding(<<"10.0.0.1", "x-forwarded-for">>, {"10.0.0.1"}, MCPages \ Web),
     Forwarding(<<"x-real-ip", "x-forwarded-for", "10.0.0.1">>, {"10.0.0.1"}, {"direct", "claiming", "behind", "unknown", "office"}),
     Forwarding(<<"x-real-ip", "any">>, MCAddresses, MCPages \ Web),
     Forwarding(<<"cloudflare">>, {"cf"}, {"direct", "claiming", "cdn", "both"}),
     Forwarding(<<"private", "cloudflare", "x-forwarded-for">>, MCPrivate \cup {"cf"}, MCPages \ Web),
     Forwarding(<<"x-forwarded-for">>, {}, MCPages \ Web),         \* trusts nobody: does not start
     Forwarding(<<"private">>, MCPrivate, MCPages \ Web),          \* no header: does not start
     Forwarding(<<"unknown", "x-forwarded-for">>, {}, MCPages \ Web)}  \* no address: does not start

\* Origins.
Sharing(cors, partners, open, pages, fetches) ==
    [Base EXCEPT !.cors = cors, !.partners = partners, !.open = open, !.cached = TRUE,
                 !.pages = pages, !.fetches = fetches]

OnlyFriend == [CORSDefault EXCEPT !.origins = {Friend}]
Globbed == [CORSDefault EXCEPT !.origins = {<<"https", "*", ".example">>}]
Full == [OnlyFriend EXCEPT !.methods = {"GET", "PUT", "POST"}, !.headers = {"X-Custom"},
                           !.credentials = TRUE, !.privateNetwork = TRUE]
Asked == [CORSDefault EXCEPT !.func = TRUE, !.partners = {Friend}, !.credentials = TRUE,
                             !.headers = {"*"}, !.methods = {"GET", "PUT"}, !.maxAge = -1]
Guard(s, first, rules) == [s EXCEPT !.protect = TRUE, !.protectFirst = first, !.rules = rules]

OriginSetups ==
    {Sharing(CORSDefault, {}, TRUE, {"own", "friend", "stranger"}, {Get, WithCookie(Get), Put}),
     Sharing(OnlyFriend, {Friend}, FALSE, {"own", "friend", "plain", "stranger"}, {Get, Post}),
     Sharing(Globbed, {Friend}, FALSE, {"own", "friend", "stranger"}, {Get, Custom(Get)}),
     Sharing(Full, {Friend}, FALSE, {"own", "friend", "public", "stranger"}, {Get, Custom(WithCookie(Get)), Put}),
     Sharing([Full EXCEPT !.passthrough = TRUE, !.privateNetwork = FALSE], {Friend}, FALSE,
             {"friend", "public", "stranger"}, {Put, WithCookie(Get)}),
     Sharing(Asked, {Friend}, TRUE, {"own", "friend", "stranger"}, {Get, WithCookie(Get), WithCookie(Put)}),
     Guard(Sharing(Full, {Friend}, FALSE, {"own", "ownOld", "friend"}, {Get, Post, Put}), TRUE, {Friend}),
     Guard(Sharing(Full, {Friend}, FALSE, {"ownPlain", "plain", "stranger", "oldbie", "program"}, {Get, Post}), FALSE, {Friend}),
     Guard(Sharing(Asked, {Friend}, TRUE, {"friend", "stranger", "oldbie"}, {WithCookie(Put), WithCookie(Post)}), FALSE,
           {Friend, <<"https", "*", ".example">>}),
     Guard(Sharing(Full, {Friend}, FALSE, {"friend", "public"}, {Get, Put}), FALSE, {<<"https", "*", ".example">>})}

MCSetups == AddressSetups \cup OriginSetups
=============================================================================
