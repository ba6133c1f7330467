----------------------------- MODULE RequestBody -----------------------------
(***************************************************************************)
(* The way of one request's body to its handler: the limits of Config.Use  *)
(* and UseMaxBodyBytes (bodylimit.go) around and inside                    *)
(* UseStructuredLogger (logger.go), which copies what is read into a       *)
(* LimitedBuffer, then Bind (bind.go), the JSON decoder (json_v1.go) or a  *)
(* handler that reads by itself, the answer, whose encoder may parse what  *)
(* is left as a form, and what the logger drains at the end.               *)
(*                                                                         *)
(* Bodies are lengths.  http.MaxBytesReader, io.TeeReader, ParseForm and   *)
(* the codecs are external; they are modelled read by read, because each   *)
(* reader changes the count and the error it hands up.                     *)
(***************************************************************************)
EXTENDS LimitedBuffer, Sequences

CONSTANTS
    Limits,       \* limits of UseMaxBodyBytes; a limit <= 0 is none
    ConfigLimits, \* values of Config.maxRequestBodyBytes
    MaxBodySizes, \* LogConfig.MaxBodySize after Validate (negative: no limit); 0: bodies not logged
    Sizes,        \* lengths of request bodies
    Responses,    \* lengths of response bodies
    Ops,          \* what handlers do
    Rooms,        \* free space in the buffer a caller reads into
    DrainRoom,    \* the buffer of io.Copy
    Direct,       \* is the JSON encoder of the json/v2 build in use?
    MaxChain      \* bound: limits around a handler

ASSUME LimitsAssumption ==
    /\ Limits \subseteq Int /\ ConfigLimits \subseteq Int /\ MaxBodySizes \subseteq Int
    /\ Sizes \subseteq Nat /\ Responses \subseteq Nat
    /\ Rooms \subseteq Nat \ {0} /\ DrainRoom \in Nat \ {0}
    /\ Ops \subseteq {"Bind", "BindTwice", "DecodeJSON", "Read", "JSON"}
    /\ Direct \in BOOLEAN /\ MaxChain \in Nat

Contents == {"json", "multipart", "urlencoded", "other"}
Forms == {"multipart", "urlencoded"}

\* What is sent to a handler: a DecodeJSON gets JSON, a loop what has no form.
Sent(op) == CASE op = "DecodeJSON" -> {"json"} [] op = "Read" -> {"other"}
              [] op = "JSON" -> Forms [] OTHER -> Contents

VARIABLES
    req,       \* the program around the handler and the request: see Init
    pc,        \* where the request is
    at,        \* limits passed
    entered,   \* is the request inside the logger?
    marker,    \* contextKeyBodyLimited of the request, 0 without
    readers,   \* the readers around r.Body, the handler's last
    left,      \* bytes of the body that nobody has read
    reqBody, respBody,  \* the buffers of the log entry
    call,      \* calls of Bind
    taken,     \* bytes of the body the handler, or its encoder, has got
    stray,     \* bytes it has got that are not of the body
    ended,     \* the error its last read came with
    crashed,   \* has a read claimed more than the room it was given?
    parsed,    \* what is set of the request: r.Form, r.MultipartForm
    result,    \* what its call returned
    status,    \* status of the response, 0 before
    unread,    \* "bytes unread" in the record
    offered,   \* bytes of the response body, -1 before
    appended   \* does an error body follow it?

vars == <<req, pc, at, entered, marker, readers, left, reqBody, respBody, call, taken, stray,
          ended, crashed, parsed, result, status, unread, offered, appended>>
inner == <<call, taken, stray, ended, crashed, parsed, result>>    \* the handler's
outer == <<status, unread, offered, appended, respBody>>           \* the answer and the record

NoError == [code |-> 0, big |-> FALSE]
\* What an entry of the pool may hold of an earlier request.
UsedBefore == [kept |-> 1, cut |-> TRUE, remaining |-> 0]

Reader == [tee : {FALSE}, limit : Nat \ {0}, left : Nat, err : {"nil", "eof", "big"}]
          \cup [tee : {TRUE}, limit : {0}, left : {0}, err : {"nil"}]
MaxReader(n) == [tee |-> FALSE, limit |-> n, left |-> n, err |-> "nil"]
Tee == [tee |-> TRUE, limit |-> 0, left |-> 0, err |-> "nil"]

Init ==
    /\ \E n \in 0..MaxChain : \E c \in [1..n -> Limits], m \in MaxBodySizes, z \in Sizes,
          o \in Ops : \E t \in Sent(o) :
          req \in [chain : {c}, config : ConfigLimits, resolver : BOOLEAN,
                   maxBodySize : {m},
                   loggerAt : IF m = 0 THEN {0} ELSE 0..n,  \* limits outside the logger
                   size : {z}, declared : {-1, z},          \* r.ContentLength, -1 if chunked
                   content : {t},
                   needed : IF t = "json" THEN {1, Max({1, z})} ELSE {1},  \* where the value ends
                   op : {o},
                   \* is the answer JSON?  An error is, under the API base path.
                   json : IF t \in Forms THEN BOOLEAN ELSE {TRUE}]
    /\ pc = "chain" /\ at = 0 /\ entered = FALSE /\ marker = 0 /\ readers = <<>>
    /\ left = req.size
    /\ reqBody = UsedBefore /\ respBody = UsedBefore
    /\ call = 0 /\ taken = 0 /\ stray = 0 /\ ended = "nil" /\ crashed = FALSE /\ parsed = {}
    /\ result = NoError /\ status = 0 /\ unread = 0 /\ offered = -1 /\ appended = FALSE

TypeOK ==
    /\ pc \in {"chain", "handler", "form", "decode", "read", "validate", "respond", "answer", "drain", "done"}
    /\ at \in 0..Len(req.chain) /\ entered \in BOOLEAN /\ marker \in Nat
    /\ readers \in Seq(Reader)
    /\ left \in 0..req.size /\ taken \in 0..req.size /\ stray \in Nat
    /\ reqBody \in Buffer /\ respBody \in Buffer
    /\ call \in 0..2 /\ ended \in {"nil", "eof", "big"}
    /\ crashed \in BOOLEAN /\ parsed \subseteq {"form", "multipart"} /\ appended \in BOOLEAN
    /\ result \in [code : {0, 400, 413, 500}, big : BOOLEAN]
    /\ status \in {0, 200, 400, 413, 500}
    /\ unread \in Nat /\ offered \in Responses \cup {-1}

\* The MaxBytesReaders among the readers, and the tee once there is one.
Limiters == {i \in DOMAIN readers : ~readers[i].tee}
TeeAt == CHOOSE i \in DOMAIN readers : readers[i].tee

-----------------------------------------------------------------------------
(* limitRequestBody(r, n, w).                                              *)

Limited == marker # 0

\* Mutant of Rejects: a body of exactly the limit is rejected.
RejectsEqual(n) == n > 0 /\ ~Limited /\ req.declared >= n

\* An early rejection: only the declared length counts, and only the first
\* limit looks at it.
Rejects(n) == n > 0 /\ ~Limited /\ req.declared > n

\* Mutant of Wraps: an equal limit wraps again.
WrapsEqual(n) == n > 0 /\ (IF Limited THEN n <= marker ELSE req.declared <= n)

\* The body gets a MaxBytesReader unless a limit as strict is in place.
Wraps(n) == n > 0 /\ (IF Limited THEN n < marker ELSE req.declared <= n)

Limit(n) ==
    IF Wraps(n)
      THEN readers' = Append(readers, MaxReader(n)) /\ marker' = n
      ELSE UNCHANGED <<readers, marker>>

-----------------------------------------------------------------------------
(* One Read of r.Body with "room" in the caller's buffer, through the first *)
(* k readers.  An answer: the count, how many of them are bytes of the     *)
(* body, the error, and what it leaves of the readers and the buffer.      *)

Asked(k, room) == Min({room} \cup {readers[i].left + 1 : i \in Limiters \cap 1..k})
Refused(k) == \E i \in 1..k : readers[i].err # "nil"

\* The connection answers with the first byte or with all that is asked for.
FromConn(k, room) ==
    IF Refused(k) THEN {[n |-> 0, body |-> 0, err |-> "nil"]}
    ELSE IF left = 0 THEN {[n |-> 0, body |-> 0, err |-> "eof"]}
    ELSE {[n |-> n, body |-> n, err |-> "nil"] : n \in {1, Min({Asked(k, room), left})}}

\* MaxBytesReader: it remembers the error it gave; the first byte too many is
\* read and dropped.
ThroughMax(a, i) ==
    LET r == readers[i]
    IN  IF r.err # "nil" THEN [a EXCEPT !.n = 0, !.body = 0, !.err = r.err]
        ELSE IF a.n <= r.left
          THEN [a EXCEPT !.readers[i] = [r EXCEPT !.left = @ - a.n, !.err = a.err]]
        ELSE [a EXCEPT !.n = r.left, !.body = Min({@, r.left}), !.err = "big",
                       !.readers[i] = [r EXCEPT !.left = 0, !.err = "big"]]

\* io.TeeReader: if the write to the log buffer fails, its count and its error
\* are the result of the read, whatever the error from below was.
ThroughTee(a) ==
    IF a.n = 0 THEN a
    ELSE LET w == Write(a.buf, req.maxBodySize, a.n)
         IN  [a EXCEPT !.buf = w.buf, !.n = w.n, !.err = IF w.eof THEN "eof" ELSE @]

Through(a, i) == IF readers[i].tee THEN ThroughTee(a) ELSE ThroughMax(a, i)

Below(c) == [n |-> c.n, body |-> c.body, err |-> c.err, readers |-> readers, buf |-> reqBody]

Answer(c, k) ==
    LET up[i \in 0..k] == IF i = 0 THEN Below(c) ELSE Through(up[i - 1], i)
    IN  up[k]

-----------------------------------------------------------------------------
(* The middleware.                                                         *)

Logged == req.maxBodySize # 0

\* Mutant of EnterLogger: the entry is not reset.
EnterLoggerNoReset ==
    /\ pc = "chain" /\ Logged /\ ~entered /\ at = req.loggerAt
    /\ entered' = TRUE
    /\ readers' = Append(readers, Tee)
    /\ UNCHANGED <<req, pc, at, marker, left, inner, outer, reqBody>>

\* UseStructuredLogger: an entry from the pool, reset by Prepare, and the tee.
EnterLogger ==
    /\ pc = "chain" /\ Logged /\ ~entered /\ at = req.loggerAt
    /\ entered' = TRUE
    /\ reqBody' = Reset(req.maxBodySize) /\ respBody' = Reset(req.maxBodySize)
    /\ readers' = Append(readers, Tee)
    /\ UNCHANGED <<req, pc, at, marker, left, inner, status, unread, offered, appended>>

\* A response begins with its status.
Send(code) ==
    /\ status' = code /\ pc' = "answer"
    /\ UNCHANGED <<unread, offered, appended, respBody>>

\* Back out of the handler: the logger drains the body, if there is one.
Return == pc' = IF entered THEN "drain" ELSE "done"

\* UseMaxBodyBytes, one level of the chain: it answers 413 itself, or limits
\* the body and goes on.
Middleware ==
    /\ pc = "chain" /\ at < Len(req.chain) /\ (Logged /\ at = req.loggerAt => entered)
    /\ at' = at + 1
    /\ IF Rejects(req.chain[at + 1])
         THEN Send(413) /\ UNCHANGED <<marker, readers>>
         ELSE Limit(req.chain[at + 1]) /\ UNCHANGED <<outer, pc>>
    /\ UNCHANGED <<req, entered, left, reqBody, inner>>

EnterHandler ==
    /\ pc = "chain" /\ at = Len(req.chain) /\ (Logged => entered)
    /\ pc' = CASE req.op = "Read" -> "read" [] req.op = "JSON" -> "respond" [] OTHER -> "handler"
    /\ UNCHANGED <<req, at, entered, marker, readers, left, reqBody, inner, outer>>

-----------------------------------------------------------------------------
(* The handler: Bind, the JSON decoder, or a loop over r.Body.             *)

Fail(c, b) == result' = [code |-> c, big |-> b]
TooLarge == Fail(413, TRUE)
Bind == req.op \in {"Bind", "BindTwice"}

\* Bind gives up; a handler may try another struct.
GiveUp == pc' = IF req.op = "BindTwice" /\ call = 1 THEN "handler" ELSE "respond"

\* Mutant of CallLimit: Bind and the decoder rely on the limit of the middleware.
CallLimitUnlessLimited ==
    /\ pc = "handler" /\ call' = call + 1
    /\ ended' = "nil"
    /\ IF Rejects(req.config)
         THEN TooLarge /\ pc' = "respond" /\ UNCHANGED <<marker, readers>>
         ELSE /\ IF Limited THEN UNCHANGED <<marker, readers>> ELSE Limit(req.config)
              /\ pc' = IF Bind THEN "form" ELSE "decode"
              /\ result' = NoError
    /\ UNCHANGED <<req, at, entered, left, reqBody, taken, stray, crashed, parsed, outer>>

\* Bind and DefaultJSONDecoder limit the body with no writer at hand: an early
\* rejection is the error they return.
CallLimit ==
    /\ pc = "handler" /\ call' = call + 1
    /\ ended' = "nil"
    /\ IF Rejects(req.config)
         THEN TooLarge /\ pc' = "respond" /\ UNCHANGED <<marker, readers>>
         ELSE /\ Limit(req.config)
              /\ pc' = IF Bind THEN "form" ELSE "decode"
              /\ result' = NoError
    /\ UNCHANGED <<req, at, entered, left, reqBody, taken, stray, crashed, parsed, outer>>

\* The first Bind has closed the body, unless it is the logger's, which is an
\* io.NopCloser.  Only an error remembered by a reader comes before that.
Closed == call = 2 /\ ~entered

\* Who reads on: ParseForm, an urlencoded body the first time; the JSON decoder
\* up to the end of the value, a second one to the end; the multipart reader
\* unless there is a form; the loop.
Wants ==
    /\ ended = "nil" /\ (Closed => Refused(Len(readers)))
    /\ \/ pc = "form" /\ req.content = "urlencoded" /\ call = 1
       \/ pc = "decode" /\ req.content = "json" /\ (call = 2 \/ taken < req.needed)
       \/ pc = "decode" /\ req.content = "multipart" /\ "multipart" \notin parsed
       \/ pc = "read"

\* They extend their slice by the count, which panics if there is no room; the
\* logger recovers and answers 500.
Read ==
    /\ Wants
    /\ \E room \in Rooms : \E c \in FromConn(Len(readers), room) :
         LET a == Answer(c, Len(readers))
         IN  /\ left' = left - c.n /\ readers' = a.readers /\ reqBody' = a.buf
             /\ crashed' = (a.n > room)
             /\ IF a.n > room
                  THEN /\ status' = 500 /\ pc' = "drain"
                       /\ UNCHANGED <<taken, stray, ended, unread, offered, appended, respBody>>
                  ELSE /\ taken' = taken + a.body /\ stray' = stray + (a.n - a.body)
                       /\ ended' = a.err
                       /\ UNCHANGED <<pc, outer>>
    /\ UNCHANGED <<req, at, entered, marker, call, parsed, result>>

\* Mutant of ParseForm: its error is dropped.
ParseFormUnchecked ==
    /\ pc = "form" /\ ~Wants
    /\ pc' = "decode" /\ parsed' = parsed \cup {"form"}
    /\ UNCHANGED <<req, at, entered, marker, readers, left, reqBody, call, taken, stray,
                   ended, crashed, result, outer>>

\* Bind: an error of r.ParseForm becomes a 400; r.PostForm is set in any case.
ParseForm ==
    /\ pc = "form" /\ ~Wants
    /\ IF ended = "big" THEN Fail(400, TRUE) /\ GiveUp
                        ELSE pc' = "decode" /\ UNCHANGED result
    /\ parsed' = parsed \cup {"form"}
    /\ UNCHANGED <<req, at, entered, marker, readers, left, reqBody, call, taken, stray,
                   ended, crashed, outer>>

\* The request decoder.  Bind maps an overflow to 413, any other error is a
\* 400; DecodeJSON returns the plain error.
Complete ==
    \/ req.content = "json" /\ call = 1 /\ taken >= req.needed
    \/ req.content = "multipart" /\ ("multipart" \in parsed \/ (ended = "eof" /\ stray = 0))
    \/ req.content \in {"urlencoded", "other"}

Overflow == ended = "big" /\ ~Complete

Decode ==
    /\ pc = "decode"
    /\ \/ /\ ~Wants /\ Complete
          /\ parsed' = parsed \cup ({"multipart"} \cap {req.content})
          /\ pc' = "validate" /\ UNCHANGED result
       \/ /\ Overflow
          /\ IF Bind THEN TooLarge ELSE Fail(500, TRUE)
          /\ GiveUp /\ UNCHANGED parsed
       \/ /\ ~Overflow   \* not the JSON, the form or the fields expected
          /\ Fail(IF Bind THEN 400 ELSE 500, FALSE)
          /\ \/ UNCHANGED parsed
             \/ req.content = "multipart" /\ ended = "eof" /\ parsed' = parsed \cup {"multipart"}
          /\ GiveUp
    /\ UNCHANGED <<req, at, entered, marker, readers, left, reqBody, call, taken, stray, ended,
                   crashed, outer>>

\* The request validator of Bind.
Validate ==
    /\ pc = "validate"
    /\ \/ pc' = "respond" /\ UNCHANGED result
       \/ Bind /\ GiveUp /\ \E c \in {400, 500} : Fail(c, FALSE)
    /\ UNCHANGED <<req, at, entered, marker, readers, left, reqBody, call, taken, stray, ended,
                   crashed, parsed, outer>>

\* A handler that reads the body to its end.
ReadDone ==
    /\ pc = "read" /\ ~Wants
    /\ pc' = "respond"
    /\ IF ended = "big" THEN Fail(500, TRUE) ELSE UNCHANGED result
    /\ UNCHANGED <<req, at, entered, marker, readers, left, reqBody, call, taken, stray, ended,
                   crashed, parsed, outer>>

\* Mutant of ErrorStatus: the resolver is not asked.
ErrorStatusAsIs == result.code

\* Error: the resolver, if installed, turns every *http.MaxBytesError into a 413.
ErrorStatus == IF req.resolver /\ result.big THEN 413 ELSE result.code

Respond ==
    /\ pc = "respond"
    /\ Send(IF result = NoError THEN 200 ELSE ErrorStatus)
    /\ UNCHANGED <<req, at, entered, marker, readers, left, reqBody, inner>>

\* The JSON encoders look for a form value "pretty": r.FormValue parses the body
\* of a form, unless r.Form is set.
AsksForm == req.json /\ "form" \notin parsed /\ req.content \in Forms

\* It drops the error of the parser.
ReadForm ==
    /\ pc = "answer" /\ AsksForm
    /\ \E room \in Rooms : \E c \in FromConn(Len(readers), room) :
         LET a == Answer(c, Len(readers))
         IN  /\ left' = left - c.n /\ readers' = a.readers /\ reqBody' = a.buf
             /\ crashed' = (a.n > room)
             /\ IF a.n > room
                  THEN pc' = "drain" /\ UNCHANGED <<taken, stray, parsed>>
                  ELSE /\ taken' = taken + a.body /\ stray' = stray + (a.n - a.body)
                       /\ parsed' = IF a.err = "nil" THEN parsed ELSE parsed \cup {"form"}
                       /\ UNCHANGED pc
    /\ UNCHANGED <<req, at, entered, marker, call, ended, result, outer>>

\* The body of the response; chi's Tee hands the error of the buffer to the
\* writer.  The json/v1 encoder ignores it, the json/v2 one returns it to JSON,
\* which calls ErrorWithCode.
WriteBody ==
    /\ pc = "answer" /\ ~AsksForm
    /\ IF entered
         THEN \E b \in Responses :
                LET w == Write(respBody, req.maxBodySize, b)
                IN  offered' = b /\ respBody' = w.buf /\ appended' = (Direct /\ req.json /\ w.eof)
         ELSE UNCHANGED <<offered, respBody, appended>>
    /\ Return
    /\ UNCHANGED <<req, at, entered, marker, readers, left, reqBody, inner, status, unread>>

\* io.Copy(io.Discard, r.Body) in the deferred function.  Its r is the one the
\* logger was given: it reads through the tee and the limits outside of it, and
\* not through those inside.
Drain ==
    /\ pc = "drain"
    /\ \E c \in FromConn(TeeAt, DrainRoom) :
         LET a == Answer(c, TeeAt)
         IN  /\ left' = left - c.n /\ readers' = a.readers /\ reqBody' = a.buf
             /\ unread' = unread + a.n
             /\ pc' = IF a.err = "nil" THEN pc ELSE "done"
    /\ UNCHANGED <<req, at, entered, marker, inner, status, offered, appended, respBody>>

Next ==
    \/ EnterLogger \/ Middleware \/ EnterHandler \/ CallLimit \/ Read
    \/ ParseForm \/ Decode \/ Validate \/ ReadDone
    \/ Respond \/ ReadForm \/ WriteBody \/ Drain

Spec == Init /\ [][Next]_vars

-----------------------------------------------------------------------------
(* Properties.                                                             *)

Fits(n) == req.maxBodySize <= 0 \/ n <= req.maxBodySize

\* What went through the tee: what was read, as far as the limits outside of the
\* logger let it pass.
Passed == Min({req.size - left} \cup {readers[i].limit : i \in 1..(TeeAt - 1)})

\* The limits get stricter from the inside to the outside, and the marker in
\* the context is the limit of the outermost.
StricterWins ==
    /\ \A i, j \in Limiters : i < j => readers[i].limit > readers[j].limit
    /\ marker = IF Limiters = {} THEN 0 ELSE readers[Max(Limiters)].limit

\* No handler gets more of a body than any of the limits installed on its way
\* allows, and Bind and the decoder no more than the config's.  One case is
\* different: a form that was rejected for its declared length is read after
\* all, by the encoder of the rejection.
ReadWithinLimits ==
    LET Within(n) == \/ taken <= n
                     \/ req.declared > n /\ Limiters = {} /\ status = 413
    IN  /\ \A i \in 1..at : req.chain[i] > 0 => Within(req.chain[i])
        /\ (req.op \notin {"Read", "JSON"} /\ req.config > 0) => Within(req.config)

\* A body that runs into a limit is an error of the handler's call, and that
\* error, wherever it was found, a 413 with the default resolver.  Two kinds of
\* body escape: one whose JSON value ended before the limit, and one that a
\* limit outside of the logger stopped, but the log cut off on the way.
OverflowIs413 ==
    /\ ((pc = "respond" /\ call < 2) \/ (pc = "handler" /\ call = 1)) =>
          \A i \in Limiters : readers[i].err = "big" =>
             \/ result.big
             \/ req.content = "json" /\ taken >= req.needed
             \/ entered /\ i < TeeAt /\ reqBody.cut
    /\ (pc \in {"drain", "done"} /\ result.big /\ req.resolver) => status = 413

\* A body that fits every limit, and the log, is never called too large.
FittingNeverRejected ==
    (status = 413 \/ result.big) =>
        \/ reqBody.cut /\ entered
        \/ \E n \in {req.config} \cup Range(req.chain) : n > 0 /\ req.size > n

\* An urlencoded form that Bind accepts is the whole body, unless the log has
\* cut it off, or Bind is called again after it failed.
AcceptedFormIsWhole ==
    (status = 200 /\ Bind /\ call = 1 /\ req.content = "urlencoded") =>
        \/ taken = req.size /\ stray = 0
        \/ entered /\ reqBody.cut

\* The logged body is what went by, as far as it fits; the mark stands only
\* where bytes are missing, and is all that may exceed the size
\* (limitedbuffer.go:18); nothing of the request that had the entry before is left.
BufferIsPrefix ==
    entered =>
        /\ LET max == req.maxBodySize
           IN  /\ IF reqBody.cut THEN max > 0 /\ Passed > max /\ reqBody.kept <= max
                  ELSE reqBody.kept = IF max > 0 THEN Min({Passed, max}) ELSE Passed
               /\ \A b \in {reqBody, respBody} : max > 0 => Length(b) < max + TruncSize

\* Logging bodies that fit changes nothing for the handler or for the client,
\* and the record says how much the handler left unread.
SmallBodiesUndisturbed ==
    /\ Fits(req.size) =>
        /\ ~crashed /\ stray = 0
        /\ ended = "eof" => left = 0
        /\ (pc = "done" /\ entered /\ \A i \in DOMAIN readers : readers[i].err # "big")
              => unread = req.size - taken
    /\ Fits(offered) => ~appended

(* What comments in the source say.                                        *)

\* limitedbuffer.go:46: "From there, it will silently drop any additional
\* bytes."  The handler reads the body the client has sent.
HandlerReadsBody == ~crashed /\ stray = 0 /\ (ended = "eof" => left = 0)
=============================================================================
