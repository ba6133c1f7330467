---------------------------- MODULE ErrorHandling ----------------------------
(***************************************************************************)
(* errors.go and render.go: Error, IfError, ErrorWithCode, the resolver    *)
(* chain, SetLogError, DefaultErrorHandler, and the responders that fall   *)
(* back to Error when a value cannot be encoded.                           *)
(*                                                                         *)
(* An error is the set of the messages in it (elements of Msgs), with the  *)
(* mark Joined if errors.Join made it; {} is the nil error.  A             *)
(* *ResolvedError is a record; one that the program keeps in a variable    *)
(* and passes to Error from several requests is a sentinel, and lives in   *)
(* the shared heap.                                                        *)
(***************************************************************************)
EXTENDS Integers, Sequences, FiniteSets

CONSTANTS
    Requests,      \* requests in progress
    Sentinels,     \* shared *ResolvedError values
    SentinelValue, \* what each of them points at when the program starts
    Msgs,          \* messages of errors that are not *ResolvedError
    Exposes,       \* of those with a Public() method that returns true
    Hides,         \* of those with a Public() method that returns false
    TooLarge,      \* the *http.MaxBytesError
    Text,          \* errors.New(http.StatusText(code))
    Joined,        \* the mark of errors.Join
    EncodeErr,     \* the error of an encoder
    Resolvers,     \* Config.errorResolvers
    MaskPrivate,   \* Config.maskPrivateErrors
    Unencodable,   \* what the encoder cannot encode, of {"value", "error"}
    Calls,         \* the calls a handler may make
    MaxNesting     \* bound: nested calls of Error through JSON

ASSUME MsgsAssumption ==
    /\ Exposes \subseteq Msgs /\ Hides \subseteq Msgs /\ Exposes \cap Hides = {}
    /\ {TooLarge, Text, EncodeErr} \subseteq Msgs \ (Exposes \cup Hides)
    /\ Joined \notin Msgs /\ TooLarge \notin {Text, EncodeErr}
ASSUME MaskAssumption == MaskPrivate \in BOOLEAN /\ Unencodable \subseteq {"value", "error"}
ASSUME NestingAssumption == MaxNesting \in Nat

Errors == SUBSET (Msgs \cup {Joined})
Visibility == {"unknown", "public", "masked"}
Resolved == [err : Errors, errs : SUBSET Errors, code : Nat, vis : Visibility]

\* The argument of Error, which is nil, an error, or a *ResolvedError.
Nil         == [kind |-> "nil"]
Plain(e)    == [kind |-> "plain", err |-> e]
Pointer(o)  == [kind |-> "fresh", obj |-> o]
Sentinel(s) == [kind |-> "sentinel", name |-> s]

Arg == [kind : {"nil"}] \cup [kind : {"plain"}, err : Errors \ {{}}]
       \cup [kind : {"fresh"}, obj : Resolved] \cup [kind : {"sentinel"}, name : Sentinels]

ASSUME SentinelAssumption == SentinelValue \in [Sentinels -> Resolved] /\ "own" \notin Sentinels
ASSUME CallsAssumption ==
    \A c \in Calls :
       /\ c.op \in {"Error", "IfError", "ErrorWithCode", "JSON", "Buffered"}
       /\ c.args \in Seq(Arg) /\ c.code \in Nat /\ c.msgs \in Seq(Errors)
       /\ c.early \in BOOLEAN /\ c.api \in BOOLEAN
ASSUME ResolversAssumption == Resolvers \in Seq({"bodyLimit", "echo"})

VARIABLES
    pc,      \* where each request is
    call,    \* the call its handler makes
    args,    \* the errors given to Error
    cur,     \* what "resolved" points at: "own" or a sentinel
    own,     \* the *ResolvedError only this request has
    heap,    \* the shared ones
    hdr,     \* status line sent, 0 before
    body,    \* error body sent: its code and the messages in it
    logged,  \* messages added to the log attributes of the request
    depth    \* nesting of Error through JSON

vars == <<pc, call, args, cur, own, heap, hdr, body, logged, depth>>

NoBody == [code |-> 0, msgs |-> {}]
Fresh(e, es, c, v) == [err |-> e, errs |-> es, code |-> c, vis |-> v]

-----------------------------------------------------------------------------
(* Pure parts.                                                             *)

\* IsExposableError: true for an error whose Public() is false.
IsExposableError(e) == \E m \in Hides : e = {m}

\* ResolvedError.Public.
Public(o) ==
    IF o.vis # "unknown" THEN o.vis = "public"
    ELSE \/ IsExposableError(o.err)
         \/ o.errs # {} /\ \A e \in o.errs : IsExposableError(e)
         \/ o.code \in 1..499

\* Mutant of LogAttrs: only Err is logged.
LogAttrsErrOnly(o) == {o.err}

\* ResolvedError.LogAttrs: the errors logged; a nil error is a nil dereference.
LogAttrs(o) ==
    IF o.errs = {} THEN {o.err}
    ELSE IF Cardinality(o.errs) = 1 THEN o.errs
    ELSE o.errs \cup {o.err}

Deref(a) == IF a.kind = "fresh" THEN a.obj ELSE heap[a.name]

\* The arguments that are not nil, by their places, and the one if it is one.
NonNil(as) == [i \in {j \in DOMAIN as : as[j].kind # "nil"} |-> as[i]]
One(as) == \E i \in DOMAIN as : DOMAIN as = {i}
Only(as) == as[CHOOSE i \in DOMAIN as : TRUE]

\* Mutant of Collect: the smallest status code counts, also that of an error
\* that has none.
CollectSmallest(as) ==
    LET IsPtr(a) == a.kind \in {"fresh", "sentinel"}
        at    == DOMAIN as
        ptrs  == {i \in at : IsPtr(as[i])}
        codes == {0} \cup {Deref(as[i]).code : i \in ptrs}
        all   == {IF IsPtr(as[i]) THEN Deref(as[i]).err ELSE as[i].err : i \in at}
    IN  Fresh({}, all, CHOOSE c \in codes : \A d \in codes : c <= d, "unknown")

\* Mutant of Collect: the status code of the first error counts.
CollectFirst(as) ==
    LET IsPtr(a) == a.kind \in {"fresh", "sentinel"}
        at    == DOMAIN as
        first == as[CHOOSE i \in at : \A j \in at : i <= j]
        all   == {IF IsPtr(as[i]) THEN Deref(as[i]).err ELSE as[i].err : i \in at}
    IN  Fresh({}, all, IF IsPtr(first) THEN Deref(first).code ELSE 0, "unknown")

\* Several errors: each one's Err, and the largest status code of any.
Collect(as) ==
    LET IsPtr(a) == a.kind \in {"fresh", "sentinel"}
        at    == DOMAIN as
        ptrs  == {i \in at : IsPtr(as[i])}
        codes == {0} \cup {Deref(as[i]).code : i \in ptrs}
        all   == {IF IsPtr(as[i]) THEN Deref(as[i]).err ELSE as[i].err : i \in at}
    IN  Fresh({}, all, CHOOSE c \in codes : \A d \in codes : d <= c, "unknown")

\* What Error fills in before the resolvers see the error.
Complete(o) ==
    [o EXCEPT !.err = IF @ = {} /\ UNION o.errs # {} THEN {Joined} \cup UNION o.errs ELSE @,
              !.code = IF @ = 0 THEN 500 ELSE @]

\* ErrorWithCode wraps its errors.
WithCode(c, es) ==
    CASE Len(es) = 0 -> Fresh({Text}, {}, c, "unknown")
      [] Len(es) = 1 -> Fresh(es[1], {}, c, "unknown")
      [] OTHER       -> Fresh({}, {es[i] : i \in 1..Len(es)}, c, "unknown")

\* All that is in a *ResolvedError.
Content(o) == o.err \cup UNION o.errs

\* Mutant of Answer: a type assertion on Err in place of errors.As.
AnswerErrOnly(fn, o) ==
    CASE fn = "bodyLimit" ->
           IF o.err = {TooLarge}
             THEN [kind |-> "new", obj |-> Fresh({TooLarge}, {}, 413, "public")]
             ELSE [kind |-> "nil"]
      [] fn = "echo" -> [kind |-> "same"]

\* What a resolver answers: nil, its argument, or another error.
\* "bodyLimit" is bodyLimitErrorResolver, "echo" a resolver of the program
\* that returns its argument.
Answer(fn, o) ==
    CASE fn = "bodyLimit" ->
           IF TooLarge \in Content(o)
             THEN [kind |-> "new", obj |-> Fresh({TooLarge}, {}, 413, "public")]
             ELSE [kind |-> "nil"]
      [] fn = "echo" -> [kind |-> "same"]

Deciding(o) == {i \in DOMAIN Resolvers : Answer(Resolvers[i], o).kind # "nil"}

-----------------------------------------------------------------------------
Obj(r) == IF cur[r] = "own" THEN own[r] ELSE heap[cur[r]]

\* An assignment through the pointer "resolved" of request r.
Store(r, o) ==
    IF cur[r] = "own"
      THEN own' = [own EXCEPT ![r] = o] /\ UNCHANGED heap
      ELSE heap' = [heap EXCEPT ![cur[r]] = o] /\ UNCHANGED own

Goto(r, l) == pc' = [pc EXCEPT ![r] = l]

\* Only the first WriteHeader of a response has an effect.
WriteHeader(r, c) == hdr' = [hdr EXCEPT ![r] = IF @ = 0 THEN c ELSE @]

TypeOK ==
    /\ pc \in [Requests -> {"idle", "resolve", "complete", "resolvers", "log", "mask",
                            "respond", "encodeValue", "encodeError", "done", "panicked"}]
    /\ \A r \in Requests : cur[r] \in {"own"} \cup Sentinels
    /\ own \in [Requests -> Resolved]
    /\ heap \in [Sentinels -> Resolved]
    /\ hdr \in [Requests -> Nat]
    /\ \A r \in Requests : body[r].msgs \subseteq Msgs \cup {Joined}
    /\ \A r \in Requests : logged[r] \subseteq Msgs \cup {Joined}
    /\ depth \in [Requests -> 0..MaxNesting]

Init ==
    /\ pc = [r \in Requests |-> "idle"]
    /\ call \in [Requests -> Calls]
    /\ args = [r \in Requests |-> <<>>]
    /\ cur = [r \in Requests |-> "own"]
    /\ own = [r \in Requests |-> Fresh({}, {}, 0, "unknown")]
    /\ heap = SentinelValue
    /\ hdr = [r \in Requests |-> IF call[r].early THEN 200 ELSE 0]
    /\ body = [r \in Requests |-> NoBody]
    /\ logged = [r \in Requests |-> {}]
    /\ depth = [r \in Requests |-> 0]

\* The handler calls Error, IfError or ErrorWithCode.
CallError(r) ==
    /\ pc[r] = "idle" /\ call[r].op \in {"Error", "IfError", "ErrorWithCode"}
    /\ args' = [args EXCEPT ![r] =
           IF call[r].op = "ErrorWithCode"
             THEN <<Pointer(WithCode(call[r].code, call[r].msgs))>>
             ELSE NonNil(call[r].args)]
    /\ Goto(r, IF args'[r] # <<>> THEN "resolve"
               ELSE IF call[r].op = "IfError" THEN "done" ELSE "panicked")
    /\ UNCHANGED <<call, cur, own, heap, hdr, body, logged, depth>>

\* JSON sends the status line before it encodes; XML, CSV and CSVIter encode
\* into a buffer first.
CallRender(r) ==
    /\ pc[r] = "idle" /\ call[r].op \in {"JSON", "Buffered"}
    /\ IF call[r].op = "JSON" THEN WriteHeader(r, call[r].code) ELSE UNCHANGED hdr
    /\ Goto(r, "encodeValue")
    /\ UNCHANGED <<call, args, cur, own, heap, body, logged, depth>>

\* The value is written, or ErrorWithCode(500, err) takes over.
FailEncode(r) ==
    /\ depth[r] < MaxNesting
    /\ depth' = [depth EXCEPT ![r] = @ + 1]
    /\ args' = [args EXCEPT ![r] = <<Pointer(WithCode(500, <<{EncodeErr}>>))>>]
    /\ Goto(r, "resolve")
    /\ UNCHANGED <<call, cur, own, heap, hdr, body, logged>>

EncodeValue(r) ==
    /\ pc[r] = "encodeValue"
    /\ \/ /\ Goto(r, "done")
          /\ WriteHeader(r, call[r].code)
          /\ UNCHANGED <<call, args, cur, own, heap, body, logged, depth>>
       \/ "value" \in Unencodable /\ FailEncode(r)

\* Error: one *ResolvedError is used as it is, anything else is wrapped.
Resolve(r) ==
    /\ pc[r] = "resolve"
    /\ LET as == args[r]
       IN  IF One(as) /\ Only(as).kind = "sentinel"
             THEN cur' = [cur EXCEPT ![r] = Only(as).name] /\ UNCHANGED own
             ELSE /\ cur' = [cur EXCEPT ![r] = "own"]
                  /\ own' = [own EXCEPT ![r] =
                       CASE ~One(as) -> Collect(as)
                         [] One(as) /\ Only(as).kind = "fresh" -> Only(as).obj
                         [] OTHER -> Fresh(Only(as).err, {}, 0, "unknown")]
    /\ Goto(r, "complete")
    /\ UNCHANGED <<call, args, heap, hdr, body, logged, depth>>

FillIn(r) ==
    /\ pc[r] = "complete"
    /\ Store(r, Complete(Obj(r)))
    /\ Goto(r, "resolvers")
    /\ UNCHANGED <<call, args, cur, hdr, body, logged, depth>>

\* The first resolver with an answer decides.
RunResolvers(r) ==
    /\ pc[r] = "resolvers"
    /\ LET o == Obj(r)
           i == CHOOSE j \in Deciding(o) : \A k \in Deciding(o) : j <= k
       IN  IF Deciding(o) # {} /\ Answer(Resolvers[i], o).kind = "new"
             THEN /\ own' = [own EXCEPT ![r] = Answer(Resolvers[i], o).obj]
                  /\ cur' = [cur EXCEPT ![r] = "own"]
             ELSE UNCHANGED <<own, cur>>
    /\ Goto(r, "log")
    /\ UNCHANGED <<call, args, heap, hdr, body, logged, depth>>

\* SetLogError takes a snapshot of the messages.
SetLogError(r) ==
    /\ pc[r] = "log"
    /\ IF {} \in LogAttrs(Obj(r))
         THEN Goto(r, "panicked") /\ UNCHANGED logged
         ELSE /\ logged' = [logged EXCEPT ![r] = @ \cup UNION LogAttrs(Obj(r))]
              /\ Goto(r, "mask")
    /\ UNCHANGED <<call, args, cur, own, heap, hdr, body, depth>>

\* Mutant of Mask: Errs is kept.
MaskErrOnly(r) ==
    /\ pc[r] = "mask"
    /\ LET o == Obj(r)
       IN  IF ~MaskPrivate \/ ~Public(o) THEN Store(r, [o EXCEPT !.err = {Text}])
           ELSE UNCHANGED <<own, heap>>
    /\ Goto(r, "respond")
    /\ UNCHANGED <<call, args, cur, hdr, body, logged, depth>>

\* DefaultErrorHandler overwrites the messages of the error it masks.
Mask(r) ==
    /\ pc[r] = "mask"
    /\ LET o == Obj(r)
       IN  IF ~MaskPrivate \/ ~Public(o)
             THEN Store(r, [o EXCEPT !.err = {Text}, !.errs = {}])
             ELSE UNCHANGED <<own, heap>>
    /\ Goto(r, "respond")
    /\ UNCHANGED <<call, args, cur, hdr, body, logged, depth>>

\* Mutant of Respond: the status line is always a 500.
Respond500(r) ==
    /\ pc[r] = "respond"
    /\ WriteHeader(r, 500)
    /\ IF call[r].api
         THEN Goto(r, "encodeError") /\ UNCHANGED body
         ELSE LET o == Obj(r) IN
              /\ body' = [body EXCEPT ![r] =
                    [code |-> o.code, msgs |-> IF o.errs # {} THEN UNION o.errs ELSE o.err]]
              /\ Goto(r, "done")
    /\ UNCHANGED <<call, args, cur, own, heap, logged, depth>>

\* JSON below the API base path, http.Error elsewhere.
Respond(r) ==
    /\ pc[r] = "respond"
    /\ WriteHeader(r, Obj(r).code)
    /\ IF call[r].api
         THEN Goto(r, "encodeError") /\ UNCHANGED body
         ELSE LET o == Obj(r) IN
              /\ body' = [body EXCEPT ![r] =
                    [code |-> o.code, msgs |-> IF o.errs # {} THEN UNION o.errs ELSE o.err]]
              /\ Goto(r, "done")
    /\ UNCHANGED <<call, args, cur, own, heap, logged, depth>>

EncodeError(r) ==
    /\ pc[r] = "encodeError"
    /\ IF "error" \in Unencodable
         THEN FailEncode(r)
         ELSE /\ body' = [body EXCEPT ![r] =
                    [code |-> Obj(r).code, msgs |-> Content(Obj(r))]]
              /\ Goto(r, "done")
              /\ UNCHANGED <<call, args, cur, own, heap, hdr, logged, depth>>

Step(r) ==
    \/ CallError(r) \/ CallRender(r) \/ EncodeValue(r)
    \/ Resolve(r) \/ FillIn(r) \/ RunResolvers(r) \/ SetLogError(r)
    \/ Mask(r) \/ Respond(r) \/ EncodeError(r)

Next == \E r \in Requests : Step(r)

Spec == Init /\ [][Next]_vars

-----------------------------------------------------------------------------
(* Properties.                                                             *)

\* The errors the handler has handed over, as written in its call.
Given(r) ==
    CASE call[r].op = "ErrorWithCode" -> <<Pointer(WithCode(call[r].code, call[r].msgs))>>
      [] call[r].op \in {"Error", "IfError"} -> NonNil(call[r].args)
      [] OTHER -> <<>>

Original(a) == IF a.kind = "fresh" THEN a.obj ELSE SentinelValue[a.name]
Messages(a) ==
    IF a.kind = "plain" THEN a.err ELSE Content(Original(a))
Cause(r) == UNION {Messages(Given(r)[i]) : i \in DOMAIN Given(r)}

\* A *ResolvedError with Err and with Errs, which are to fill it (errors.go:69):
\* LogAttrs leaves Err out next to one of Errs, Error leaves Errs out next to
\* other errors.
HasBoth(a) == a.kind \in {"fresh", "sentinel"} /\ Original(a).err # {} /\ Original(a).errs # {}
Mixed(r) == \E i \in DOMAIN Given(r) : HasBoth(Given(r)[i])

\* Another request reports a *ResolvedError that r reports.
Shared(r) ==
    \E i \in DOMAIN Given(r) :
       /\ Given(r)[i].kind = "sentinel"
       /\ \E q \in Requests \ {r} : \E j \in DOMAIN Given(q) : Given(q)[j] = Given(r)[i]

Answered(r) == pc[r] = "done" /\ Given(r) # <<>>

\* What errors.go:72-92, 216-230 and 297-298 call private, in terms of the call
\* alone: one *ResolvedError by its Visibility; anything else by the status
\* codes it was given, of which the highest counts and none is a 500.
Origin(a) == IF a.kind = "plain" THEN Fresh(a.err, {}, 0, "unknown") ELSE Original(a)
ServerError(as) ==
    \/ \E i \in DOMAIN as : Origin(as[i]).code >= 500
    \/ \A i \in DOMAIN as : Origin(as[i]).code = 0
Private(as) ==
    IF One(as) /\ Origin(Only(as)).vis # "unknown"
      THEN Origin(Only(as)).vis = "masked"
      ELSE ServerError(as)

\* Every error reported has a Public() method, which is to decide (steps 2 and
\* 3 of errors.go:89-90), unless Visibility does.
HasMethod(e) == \E m \in Exposes \cup Hides : e = {m}
ByMethod(as) ==
    /\ One(as) => Origin(Only(as)).vis = "unknown"
    /\ \/ \A i \in DOMAIN as : HasMethod(Origin(as[i]).err)
       \/ /\ One(as) /\ Origin(Only(as)).errs # {}
          /\ \A e \in Origin(Only(as)).errs : HasMethod(e)

\* With masking on, the client gets the status text and nothing else of an
\* error that is private: marked as masked, or, unless the errors have Public()
\* methods of their own, one of the server, alone or among others of a lesser
\* status, and whatever other requests do with the same *ResolvedError
\* meanwhile.  (What Public() methods decide is ExposableErrorsShown below.)
PrivateErrorsMasked ==
    \A r \in Requests :
        (/\ MaskPrivate /\ Answered(r) /\ TooLarge \notin Cause(r)
         /\ Private(Given(r)) /\ ~ByMethod(Given(r))) => body[r].msgs = {Text}

\* One of several errors is marked as masked: errors.go:81-82 would have it
\* masked, 216-221 lose the mark.
MarkedAmong(as) == ~One(as) /\ \E i \in DOMAIN as : Origin(as[i]).vis = "masked"

\* With masking on, the client is told all of an error that is not private: a
\* status below 500 survives the other errors and the resolvers, and a
\* *ResolvedError that other requests report as well is never masked for good
\* by one of them.  (Reported among others while another request masks it, it
\* may have lost its messages.)
PublicErrorsShown ==
    \A r \in Requests :
        (/\ MaskPrivate /\ Answered(r) /\ TooLarge \notin Cause(r)
         /\ ~Private(Given(r)) /\ ~ByMethod(Given(r)) /\ ~MarkedAmong(Given(r))
         /\ ~Mixed(r) /\ (One(Given(r)) \/ ~Shared(r))) => Cause(r) \subseteq body[r].msgs

\* What the client is not shown is still in the log: SetLogError takes its
\* snapshot before the handler masks the error in place.  (A *ResolvedError
\* that another request has masked already is the exception, and one that has
\* both Err and Errs.)
CauseLogged ==
    \A r \in Requests :
        (Answered(r) /\ TooLarge \notin Cause(r) /\ ~Mixed(r)) =>
            Cause(r) \subseteq logged[r] \/ Shared(r)

\* The code inside an error body is the status on the wire, unless the
\* handler or JSON had sent a status before.
StatusAgrees ==
    \A r \in Requests :
        (pc[r] = "done" /\ body[r] # NoBody /\ ~call[r].early /\ call[r].op # "JSON") =>
            hdr[r] = body[r].code

\* An oversized body is reported as 413, alone or among other errors, and even
\* if another request has reported the same *ResolvedError, as long as the
\* default resolver comes first.
TooLargeIs413 ==
    \A r \in Requests :
        (Answered(r) /\ TooLarge \in Cause(r) /\ ~Mixed(r)) =>
            /\ body[r] = [code |-> 413, msgs |-> {TooLarge}] \/ ~MaskPrivate
            /\ hdr[r] = 413 \/ call[r].early

(* What comments in the source say of these functions.                     *)

\* errors.go:47: an error with a Public() method is shown exactly when that
\* method returns true.
ExposableErrorsShown ==
    \A r \in Requests :
        (Answered(r) /\ One(Given(r)) /\ Only(Given(r)).kind = "plain") =>
            LET e == Only(Given(r)).err
            IN  /\ \A m \in Exposes : e = {m} => m \in body[r].msgs
                /\ \A m \in Hides : e = {m} => m \notin body[r].msgs
=============================================================================
