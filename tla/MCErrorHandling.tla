--------------------------- MODULE MCErrorHandling ---------------------------
(* TLC instances of ErrorHandling: the calls handlers make in each run.    *)
EXTENDS ErrorHandling, TLC

CONSTANTS plain, exposed, hidden, big, text, enc, joined, shared, joint, absent

MCMsgs == {plain, exposed, hidden, big, text, enc}
MCSentinelValue ==
    [s \in Sentinels |-> IF s = shared THEN Fresh({plain}, {}, 503, "unknown")
                         ELSE IF s = joint THEN Fresh({}, {{plain}, {big}}, 0, "unknown")
                         ELSE Fresh({}, {{plain}, {hidden}}, 404, "unknown")]
DefaultResolvers == <<"bodyLimit">>
TwoResolvers     == <<"bodyLimit", "echo">>

Op(o, as, c, es, early, api) ==
    [op |-> o, args |-> as, code |-> c, msgs |-> es, early |-> early, api |-> api]

Masked404 == Pointer(Fresh({plain}, {}, 404, "masked"))
Invalid   == Pointer(Fresh({}, {{plain}, {hidden}}, 400, "public"))
NotFound  == Pointer(Fresh({plain}, {}, 404, "unknown"))
Both      == Pointer(Fresh({exposed}, {{plain}}, 400, "unknown"))

\* Every kind of call, below and outside the API base path.
ManyCalls ==
    {Op("Error", as, 0, <<>>, FALSE, api) :
        as \in {<<Plain({plain})>>, <<Plain({hidden})>>, <<Plain({big})>>, <<Nil, Plain({plain})>>,
                <<Plain({plain}), Plain({big})>>, <<Masked404>>, <<Invalid>>, <<Nil>>, <<Both>>,
                <<Invalid, Plain({exposed})>>, <<Plain({hidden}), Plain({plain})>>,
                <<NotFound, Pointer(Fresh({exposed}, {}, 503, "unknown"))>>, <<NotFound>>, <<Plain({plain, exposed, joined})>>,
                <<Plain({exposed}), Pointer(Fresh({plain}, {}, 404, "public"))>>},
        api \in BOOLEAN}
    \cup {Op("IfError", as, 0, <<>>, FALSE, TRUE) : as \in {<<Nil, Nil>>, <<Plain({plain}), Nil>>}}
    \cup {Op("ErrorWithCode", <<>>, c, es, early, TRUE) : c \in {404, 503}, early \in BOOLEAN,
        es \in {<<>>, <<{plain}>>, <<{plain}, {exposed}>>, <<{big}, {plain}>>, <<{}>>}}
    \cup {Op(o, <<>>, 201, <<>>, FALSE, api) : o \in {"JSON", "Buffered"}, api \in BOOLEAN}

\* Calls that report a *ResolvedError which other requests report as well.
SharedCalls == {Op("Error", <<Sentinel(shared)>>, 0, <<>>, early, api) :
                    early \in BOOLEAN, api \in BOOLEAN}
               \cup {Op("Error", as, 0, <<>>, FALSE, TRUE) :
                        as \in {<<Plain({plain}), Sentinel(shared)>>, <<Sentinel(joint)>>, <<Sentinel(absent)>>,
                                <<Plain({plain}), Sentinel(joint)>>, <<Plain({plain}), Sentinel(absent)>>}}

MCCalls == ManyCalls \cup SharedCalls

SingleExposable == {Op("Error", <<Plain({m})>>, 0, <<>>, FALSE, TRUE) : m \in {exposed, hidden}}
=============================================================================
