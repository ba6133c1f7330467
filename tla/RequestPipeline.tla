--------------------------- MODULE RequestPipeline ---------------------------
(***************************************************************************)
(* The middleware chain around a handler: UseRequestID (request_id.go),    *)
(* UseStructuredLogger (logger.go), UseRecoverer (errors.go) and           *)
(* UsePrometheus (xmetrics/prometheus.go), in any order the program        *)
(* installs them, for requests that run concurrently and share the pool of *)
(* log entries and the request-id counter.                                 *)
(*                                                                         *)
(* A call goes in through the chain to the handler and comes out again,    *)
(* with or without a panic; deferred functions run on the way out.         *)
(***************************************************************************)
EXTENDS Integers, Sequences, FiniteSets

CONSTANTS
    Requests,
    Kinds,          \* requests that arrive: method OPTIONS? Connection: Upgrade? an id header?
    Entries,        \* log entries the pool may create
    Setups,         \* how programs set the chain up, as below
    Statuses,       \* statuses a handler writes
    None            \* no log entry

Middleware == {"requestID", "logger", "recoverer", "metrics"}
Panics == {"abort", "wrapped", "value"}  \* http.ErrAbortHandler, an error that wraps it, another value

ASSUME SetupAssumption ==
    \A s \in Setups :
        /\ s.chain \in Seq(Middleware)
        /\ \A i, j \in DOMAIN s.chain : s.chain[i] = s.chain[j] => i = j
        /\ s.recover \in BOOLEAN /\ s.skipPre \in BOOLEAN
        /\ s.level \in Int /\ s.skipPost \subseteq 200..599
ASSUME RequestAssumption ==
    /\ Kinds \subseteq [options : BOOLEAN, upgrade : BOOLEAN, header : BOOLEAN]
    /\ Statuses \subseteq 200..599 /\ None \notin Entries

VARIABLES
    setup,     \* the chain and the LogConfig of this program
    kind,      \* what each request is like: its method and two of its headers
    at,        \* index in the chain; Len(Chain) + 1 is the handler
    dir,       \* "in", "out", or a stage of the logger's deferred function
    skipped,   \* requests SkipPre has taken out of the log
    panic,     \* the panic that is unwinding
    raised,    \* the panic the handler has raised
    hdr,       \* status line sent, 0 before
    entry,     \* the pool entry a request holds
    used,      \* requests whose data is in each entry
    free,      \* entries in the pool
    id,        \* request id in the context, 0 without
    counter,   \* requestIDTracker
    attrs,     \* requests whose log attributes have an error (SetLogError)
    rethrow,   \* requests whose logger panics again at the end
    records,   \* log records written
    counts     \* the status each request was counted under, -1 before

Chain == setup.chain               \* middleware, outermost first
RecoverPanics == setup.recover     \* LogConfig.RecoverPanics
MinLevel == setup.level            \* the higher of LogConfig.Level and the logger's level
SkipPost == setup.skipPost         \* statuses LogConfig.SkipPost answers true for
Skipping == setup.skipPre          \* may LogConfig.SkipPre answer true?

reqVars == <<kind, skipped, id, counter>>
logVars == <<entry, used, free, records, rethrow, counts>>
vars == <<setup, kind, at, dir, skipped, panic, raised, hdr, entry, used, free,
          id, counter, attrs, rethrow, records, counts>>

Handler == Len(Chain) + 1

TypeOK ==
    /\ setup \in Setups
    /\ kind \in [Requests -> Kinds]
    /\ at \in [Requests -> 0..Handler]
    /\ dir \in [Requests -> {"in", "out", "record", "put", "ended"}]
    /\ panic \in [Requests -> Panics \cup {"none"}]
    /\ raised \in [Requests -> Panics \cup {"none"}]
    /\ hdr \in [Requests -> {0} \cup 200..599]
    /\ entry \in [Requests -> Entries \cup {None}]
    /\ used \in [Entries -> SUBSET Requests]
    /\ free \subseteq Entries
    /\ id \in [Requests -> Nat] /\ counter \in Nat
    /\ skipped \subseteq Requests /\ attrs \subseteq Requests /\ rethrow \subseteq Requests
    /\ counts \in [Requests -> {-1, 0} \cup 200..599]
    /\ \A x \in records : x.req \in Requests /\ x.status \in 200..599

Init ==
    /\ setup \in Setups
    /\ kind \in [Requests -> Kinds]
    /\ at = [r \in Requests |-> 1] /\ dir = [r \in Requests |-> "in"]
    /\ skipped = {} /\ attrs = {} /\ rethrow = {} /\ records = {}
    /\ panic = [r \in Requests |-> "none"] /\ raised = [r \in Requests |-> "none"]
    /\ hdr = [r \in Requests |-> 0]
    /\ entry = [r \in Requests |-> None]
    /\ used = [e \in Entries |-> {}] /\ free = Entries
    /\ id = [r \in Requests |-> 0] /\ counter = 0
    /\ counts = [r \in Requests |-> -1]

-----------------------------------------------------------------------------
Entering(r, m) == dir[r] = "in" /\ at[r] \in DOMAIN Chain /\ Chain[at[r]] = m
Leaving(r, m)  == dir[r] = "out" /\ at[r] \in DOMAIN Chain /\ Chain[at[r]] = m
InHandler(r)   == dir[r] = "in" /\ at[r] = Handler

\* next.ServeHTTP, and its return.
GoIn(r)  == at' = [at EXCEPT ![r] = @ + 1] /\ UNCHANGED dir
GoOut(r) == at' = [at EXCEPT ![r] = @ - 1] /\ dir' = [dir EXCEPT ![r] = "out"]
Stage(r, d) == dir' = [dir EXCEPT ![r] = d] /\ UNCHANGED at

WriteHeader(r, s) == hdr' = [hdr EXCEPT ![r] = IF @ = 0 THEN s ELSE @]

\* Mutant of EnterRequestID: the counter is read but not advanced.
EnterRequestIDStuck(r) ==
    /\ Entering(r, "requestID")
    /\ IF kind[r].header THEN UNCHANGED <<id, counter>>
       ELSE id' = [id EXCEPT ![r] = counter + 1] /\ UNCHANGED counter
    /\ GoIn(r)
    /\ UNCHANGED <<kind, skipped, panic, raised, hdr, attrs, logVars>>

\* UseRequestID: an id from the client, or the next number of the counter.
EnterRequestID(r) ==
    /\ Entering(r, "requestID")
    /\ IF kind[r].header THEN UNCHANGED <<id, counter>>
       ELSE counter' = counter + 1 /\ id' = [id EXCEPT ![r] = counter']
    /\ GoIn(r)
    /\ UNCHANGED <<kind, skipped, panic, raised, hdr, attrs, logVars>>

\* UseRecoverer and UsePrometheus change nothing on the way in.
EnterRecoverer(r) ==
    /\ Entering(r, "recoverer")
    /\ GoIn(r)
    /\ UNCHANGED <<reqVars, panic, raised, hdr, attrs, logVars>>

EnterMetrics(r) ==
    /\ Entering(r, "metrics")
    /\ GoIn(r)
    /\ UNCHANGED <<reqVars, panic, raised, hdr, attrs, logVars>>

\* SkipPre: the request goes through without a wrapped writer or a deferred
\* function.
SkipLogger(r) ==
    /\ Entering(r, "logger") /\ Skipping
    /\ skipped' = skipped \cup {r}
    /\ GoIn(r)
    /\ UNCHANGED <<kind, id, counter, panic, raised, hdr, attrs, logVars>>

\* Mutant of EnterLogger: an entry from the pool is not reset.
EnterLoggerNoReset(r) ==
    /\ Entering(r, "logger")
    /\ \E e \in free :
          /\ entry' = [entry EXCEPT ![r] = e]
          /\ free' = free \ {e}
    /\ GoIn(r)
    /\ UNCHANGED <<reqVars, panic, raised, hdr, attrs, used, rethrow, records, counts>>

\* logEntryPool.Get: an entry nobody holds, emptied by Reset.
EnterLogger(r) ==
    /\ Entering(r, "logger")
    /\ \E e \in free :
          /\ entry' = [entry EXCEPT ![r] = e]
          /\ free' = free \ {e}
          /\ used' = [used EXCEPT ![e] = {}]
    /\ GoIn(r)
    /\ UNCHANGED <<reqVars, panic, raised, hdr, attrs, rethrow, records, counts>>

\* The handler reads the body through the TeeReader into the entry, ...
ReadBody(r) ==
    /\ InHandler(r) /\ entry[r] # None
    /\ used' = [used EXCEPT ![entry[r]] = @ \cup {r}]
    /\ UNCHANGED <<reqVars, at, dir, panic, raised, hdr, attrs, entry, free, rethrow, records, counts>>

\* ... writes a status, ...
WriteStatus(r) ==
    /\ InHandler(r) /\ hdr[r] = 0
    /\ \E s \in Statuses : WriteHeader(r, s)
    /\ UNCHANGED <<reqVars, at, dir, panic, raised, attrs, logVars>>

\* ... reports an error through Error, which answers 500, ...
ReportError(r) ==
    /\ InHandler(r) /\ r \notin attrs
    /\ attrs' = attrs \cup {r} /\ WriteHeader(r, 500)
    /\ UNCHANGED <<reqVars, at, dir, panic, raised, logVars>>

\* ... and returns, or panics.
Return(r) ==
    /\ InHandler(r) /\ GoOut(r)
    /\ UNCHANGED <<reqVars, panic, raised, hdr, attrs, logVars>>

Panic(r) ==
    /\ InHandler(r) /\ GoOut(r)
    /\ \E p \in Panics : panic' = [panic EXCEPT ![r] = p] /\ raised' = [raised EXCEPT ![r] = p]
    /\ UNCHANGED <<reqVars, hdr, attrs, logVars>>

\* Middleware without a deferred function, or a skipped logger, on the way out.
PassOut(r) ==
    /\ Leaving(r, "requestID") \/ (Leaving(r, "logger") /\ r \in skipped)
    /\ GoOut(r)
    /\ UNCHANGED <<reqVars, panic, raised, hdr, attrs, logVars>>

\* UseRecoverer: an error that is or wraps ErrAbortHandler panics on, anything
\* else becomes ErrorWithCode(500).
LeaveRecoverer(r) ==
    /\ Leaving(r, "recoverer")
    /\ IF panic[r] = "value"
         THEN /\ panic' = [panic EXCEPT ![r] = "none"]
              /\ attrs' = attrs \cup {r}
              /\ WriteHeader(r, 500)
         ELSE UNCHANGED <<panic, attrs, hdr>>
    /\ GoOut(r)
    /\ UNCHANGED <<reqVars, raised, logVars>>

\* Mutant of RecoverInLogger: http.ErrAbortHandler does not panic again.
RecoverInLoggerAll(r) ==
    /\ Leaving(r, "logger") /\ r \notin skipped
    /\ IF panic[r] # "none"
         THEN /\ IF RecoverPanics /\ ~kind[r].upgrade THEN WriteHeader(r, 500) ELSE UNCHANGED hdr
              /\ rethrow' = IF ~RecoverPanics THEN rethrow \cup {r} ELSE rethrow
         ELSE UNCHANGED <<hdr, rethrow>>
    /\ Stage(r, "record")
    /\ UNCHANGED <<reqVars, panic, raised, attrs, entry, used, free, records, counts>>

\* Mutant of LeaveMetrics: it counts in a deferred function.
LeaveMetricsDeferred(r) ==
    /\ Leaving(r, "metrics")
    /\ counts' = [counts EXCEPT ![r] = hdr[r]]
    /\ GoOut(r)
    /\ UNCHANGED <<reqVars, panic, raised, hdr, attrs, entry, used, free, records, rethrow>>

\* UsePrometheus counts a request when the handler has returned, under the
\* status its writer has seen, 0 if none; a panic goes past it uncounted.
LeaveMetrics(r) ==
    /\ Leaving(r, "metrics")
    /\ counts' = IF panic[r] = "none" THEN [counts EXCEPT ![r] = hdr[r]] ELSE counts
    /\ GoOut(r)
    /\ UNCHANGED <<reqVars, panic, raised, hdr, attrs, entry, used, free, records, rethrow>>

\* UseStructuredLogger's deferred function.  It recovers, sends a 500 if
\* nothing was sent and the request is no upgrade, and defers a new panic.
RecoverInLogger(r) ==
    /\ Leaving(r, "logger") /\ r \notin skipped
    /\ IF panic[r] # "none"
         THEN /\ IF RecoverPanics /\ ~kind[r].upgrade THEN WriteHeader(r, 500) ELSE UNCHANGED hdr
              /\ rethrow' = IF panic[r] = "abort" \/ ~RecoverPanics
                              THEN rethrow \cup {r} ELSE rethrow
         ELSE UNCHANGED <<hdr, rethrow>>
    /\ Stage(r, "record")
    /\ UNCHANGED <<reqVars, panic, raised, attrs, entry, used, free, records, counts>>

\* DefaultLogRequestLeveler.
Leveler(r, s) ==
    IF s >= 500 THEN 8
    ELSE IF s = 429 THEN 0
    ELSE IF s >= 400 THEN 4
    ELSE IF kind[r].options THEN -4 ELSE 0

\* Mutant of LoggedStatus: no status is taken for what it will become.
LoggedStatusRaw(r) == hdr[r]

LoggedStatus(r) == IF hdr[r] = 0 THEN 200 ELSE hdr[r]

\* Mutant of Wanted: a record of the minimum level is dropped.
WantedAbove(r) == LoggedStatus(r) \notin SkipPost /\ Leveler(r, LoggedStatus(r)) > MinLevel

Wanted(r) == LoggedStatus(r) \notin SkipPost /\ Leveler(r, LoggedStatus(r)) >= MinLevel

\* One record, built in the entry, unless SkipPost or the level drops it.
Record(r) ==
    /\ dir[r] = "record"
    /\ IF Wanted(r)
         THEN LET data == used[entry[r]] \cup {r}
              IN  /\ used' = [used EXCEPT ![entry[r]] = data]
                  /\ records' = records \cup
                       {[req |-> r, status |-> LoggedStatus(r), err |-> r \in attrs,
                         id |-> id[r], data |-> data]}
         ELSE UNCHANGED <<used, records>>
    /\ Stage(r, "put")
    /\ UNCHANGED <<reqVars, panic, raised, hdr, attrs, entry, free, rethrow, counts>>

\* Mutant of PutEntry: a panic skips logEntryPool.Put.
PutEntryUnlessPanic(r) ==
    /\ dir[r] = "put"
    /\ panic' = [panic EXCEPT ![r] = IF r \in rethrow THEN @ ELSE "none"]
    /\ IF r \in rethrow THEN UNCHANGED <<free, entry>>
       ELSE free' = free \cup {entry[r]} /\ entry' = [entry EXCEPT ![r] = None]
    /\ GoOut(r)
    /\ UNCHANGED <<reqVars, raised, hdr, attrs, used, rethrow, records, counts>>

\* The deferred panic, if any, and the deferred logEntryPool.Put.
PutEntry(r) ==
    /\ dir[r] = "put"
    /\ panic' = [panic EXCEPT ![r] = IF r \in rethrow THEN @ ELSE "none"]
    /\ free' = free \cup {entry[r]}
    /\ entry' = [entry EXCEPT ![r] = None]
    /\ GoOut(r)
    /\ UNCHANGED <<reqVars, raised, hdr, attrs, used, rethrow, records, counts>>

\* net/http: a panic closes the connection, a normal return sends at least 200.
End(r) ==
    /\ dir[r] = "out" /\ at[r] = 0
    /\ IF panic[r] = "none" THEN WriteHeader(r, 200) ELSE UNCHANGED hdr
    /\ Stage(r, "ended")
    /\ UNCHANGED <<reqVars, panic, raised, attrs, logVars>>

HandlerStep(r) == ReadBody(r) \/ WriteStatus(r) \/ ReportError(r) \/ Return(r) \/ Panic(r)

Step(r) ==
    \/ EnterRequestID(r) \/ EnterRecoverer(r) \/ EnterMetrics(r) \/ SkipLogger(r) \/ EnterLogger(r)
    \/ HandlerStep(r)
    \/ PassOut(r) \/ LeaveRecoverer(r) \/ LeaveMetrics(r)
    \/ RecoverInLogger(r) \/ Record(r) \/ PutEntry(r)
    \/ End(r)

Next == UNCHANGED setup /\ \E r \in Requests : Step(r)
Spec == Init /\ [][Next]_vars

-----------------------------------------------------------------------------
(* Safety.                                                                 *)

HasLogger == \E i \in DOMAIN Chain : Chain[i] = "logger"
HasMetrics == \E i \in DOMAIN Chain : Chain[i] = "metrics"
HasRecoverer == \E i \in DOMAIN Chain : Chain[i] = "recoverer"
Ended(r) == dir[r] = "ended"

\* An entry belongs to one request at a time and never sits in the pool while
\* it is in use, so that a record holds the data of its own request only.
EntryExclusive ==
    /\ \A r, q \in Requests : (r # q /\ entry[r] # None) => entry[r] # entry[q]
    /\ \A r \in Requests : entry[r] \notin free
    /\ \A x \in records : x.data = {x.req}

\* Every way out of the logger puts its entry back, a new panic included.
EntriesReturned == \A r \in Requests : Ended(r) => entry[r] = None

\* http.ErrAbortHandler reaches net/http through every chain; no other panic
\* gets past a recovering logger or the recoverer, save for the error that
\* wraps ErrAbortHandler and for requests that skip the logger.
PanicsEndWhereTheyShould ==
    \A r \in Requests : Ended(r) =>
        /\ raised[r] = "abort" => panic[r] = "abort"
        /\ panic[r] = "value" => ~HasRecoverer /\ (HasLogger => ~RecoverPanics \/ r \in skipped)
        /\ panic[r] = "wrapped" => ~HasLogger \/ ~RecoverPanics \/ r \in skipped

\* The status in a record is the status the client gets, and the record says
\* whether an error was reported, for every request that ends without a panic,
\* unless the logger panicked again into an outer recoverer.
RecordMatchesResponse ==
    \A x \in records :
        (Ended(x.req) /\ panic[x.req] = "none" /\ x.req \notin rethrow) =>
            x.status = hdr[x.req] /\ x.err = (x.req \in attrs)

\* A request that went through the logger has one record, or none where
\* SkipPost or the level says so.  (After the logger panics again, an outer
\* recoverer may still change a status that was logged as 200.)  A generated
\* request id in a record stands for that request alone.
OneRecordPerRequest ==
    \A r \in Requests :
        LET mine == {x \in records : x.req = r}
            seen == {LoggedStatus(r)} \cup (IF r \in rethrow THEN {200} ELSE {})
        IN  /\ Cardinality(mine) <= 1
            /\ (Ended(r) /\ HasLogger /\ r \notin skipped) =>
                   (mine = {} => \E s \in seen : s \in SkipPost \/ Leveler(r, s) < MinLevel)
            /\ \A x \in mine, y \in records : (x.id # 0 /\ x.id = y.id) => y.req = r

\* What is counted is what the client gets and what the log says (a count of 0
\* stands for a 200 nobody wrote), and every request whose handler does not
\* panic is counted.
CountsAgree ==
    HasMetrics => \A r \in Requests : Ended(r) =>
        /\ raised[r] = "none" => counts[r] >= 0
        /\ counts[r] >= 0 =>
             LET status == IF counts[r] = 0 THEN 200 ELSE counts[r]
             IN  /\ panic[r] = "none" /\ status = hdr[r]
                 /\ r \notin rethrow => \A x \in records : x.req = r => x.status = status
=============================================================================
