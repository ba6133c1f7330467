------------------------ MODULE RequestPipelineProofs ------------------------
(***************************************************************************)
(* Proofs about RequestPipeline, for every chain of distinct middleware,   *)
(* every configuration of the logger and any number of requests and        *)
(* entries.                                                                *)
(***************************************************************************)
EXTENDS RequestPipeline, FiniteSetTheorems, TLAPS

\* A request is inside a middleware from next.ServeHTTP on, until it has gone
\* out of it.
Inside(r, m) ==
    \E i \in DOMAIN Chain : Chain[i] = m /\ (IF dir[r] = "in" THEN i < at[r] ELSE i <= at[r])
Left(r, m) == dir[r] # "in" /\ \E i \in DOMAIN Chain : Chain[i] = m /\ at[r] < i
Logging(r) == dir[r] \in {"record", "put"}

\* Where a request can be in the chain.
PlaceOf(r) ==
    /\ dir[r] = "in" => at[r] >= 1
    /\ dir[r] = "out" => at[r] <= Len(Chain)
    /\ Logging(r) => at[r] \in DOMAIN Chain /\ Chain[at[r]] = "logger" /\ r \notin skipped
    /\ dir[r] = "ended" => at[r] = 0
    /\ r \in skipped => Inside(r, "logger") \/ Left(r, "logger")
PlaceInv == \A r \in Requests : PlaceOf(r)

\* The pool and the requests inside the logger share the entries out.
EntryOf(r) ==
    /\ entry[r] # None <=> Inside(r, "logger") /\ r \notin skipped
    /\ entry[r] \notin free
    /\ entry[r] # None => used[entry[r]] \subseteq {r}
    /\ \A q \in Requests : (r # q /\ entry[r] # None) => entry[r] # entry[q]
PoolInv == \A r \in Requests : EntryOf(r)

\* Who has seen a panic on its way out.
PanicOf(r) ==
    /\ dir[r] = "in" => raised[r] = "none"
    /\ raised[r] = "none" => panic[r] = "none"
    /\ raised[r] = "abort" => panic[r] = "abort"
    /\ r \in rethrow => Logging(r) \/ Left(r, "logger")
    /\ Logging(r) => /\ panic[r] = "abort" => r \in rethrow
                     /\ r \in rethrow => panic[r] = "abort" \/ ~RecoverPanics
    /\ panic[r] = "value" => ~Left(r, "recoverer")
    /\ (panic[r] \in {"value", "wrapped"} /\ Left(r, "logger")) => ~RecoverPanics \/ r \in skipped
    /\ (Left(r, "logger") /\ r \notin skipped /\ r \notin rethrow) => panic[r] = "none"
PanicInv == \A r \in Requests : PanicOf(r)

\* Generated ids are distinct.
IdInv ==
    /\ \A r \in Requests : id[r] <= counter
    /\ \A r, q \in Requests : (id[r] # 0 /\ id[r] = id[q]) => r = q

\* A record says what the response will be, as far as it is decided.
Decided(r) == dir[r] = "put" \/ Left(r, "logger")
Seen(r) == {LoggedStatus(r)} \cup (IF r \in rethrow THEN {200} ELSE {})
Dropped(r, s) == s \in SkipPost \/ Leveler(r, s) < MinLevel
RecordOf(r) ==
    /\ \A x \in records : x.req = r =>
          /\ Decided(r) /\ r \notin skipped
          /\ x.data = {r} /\ x.id = id[r]
          /\ r \notin rethrow => x.status = LoggedStatus(r) /\ x.err = (r \in attrs)
    /\ \A x, y \in records : (x.req = r /\ y.req = r) => x = y
    /\ (Decided(r) /\ r \notin skipped /\ \A x \in records : x.req # r) =>
          \E s \in Seen(r) : Dropped(r, s)
RecordInv == \A r \in Requests : RecordOf(r)

\* A count stands for the status the client gets.
Counted(n) == IF n = 0 THEN 200 ELSE n
CountOf(r) ==
    /\ counts[r] >= 0 => /\ Left(r, "metrics") /\ panic[r] = "none"
                         /\ LoggedStatus(r) = Counted(counts[r])
    /\ (Left(r, "metrics") /\ raised[r] = "none") => counts[r] >= 0
    /\ (dir[r] = "ended" /\ panic[r] = "none") => hdr[r] # 0
CountInv == \A r \in Requests : CountOf(r)

IInv == TypeOK /\ PlaceInv /\ PoolInv /\ PanicInv /\ IdInv /\ RecordInv /\ CountInv

-----------------------------------------------------------------------------
(* The chain and the ways through it.                                      *)

\* The chain is a sequence without repetition.
LEMMA ChainFacts ==
    ASSUME TypeOK
    PROVE  /\ Len(Chain) \in Nat /\ DOMAIN Chain = 1..Len(Chain) /\ Handler = Len(Chain) + 1
           /\ \A i, j \in DOMAIN Chain : Chain[i] = Chain[j] => i = j
           /\ RecoverPanics \in BOOLEAN /\ MinLevel \in Int
           /\ at \in [Requests -> 0..Handler]
  <1>1. setup \in Setups /\ at \in [Requests -> 0..Handler]
    BY DEF TypeOK
  <1> QED
    BY <1>1, SetupAssumption DEF Chain, Handler, RecoverPanics, MinLevel

\* next.ServeHTTP takes a request into m.
LEMMA EnterMove ==
    ASSUME TypeOK, PlaceInv, setup' = setup, NEW r \in Requests, NEW m, Entering(r, m), GoIn(r)
    PROVE  /\ \A k : Inside(r, k)' <=> (Inside(r, k) \/ k = m)
           /\ \A k : ~Left(r, k) /\ ~Left(r, k)'
           /\ ~Inside(r, m) /\ ~Logging(r) /\ dir'[r] = "in" /\ at'[r] >= 1
           /\ at'[r] \in 0..Handler /\ dir[r] = "in"
  <1>1. /\ dir[r] = "in" /\ dir' = dir /\ at[r] \in 1..Len(Chain) /\ Chain[at[r]] = m
        /\ at'[r] = at[r] + 1 /\ Len(Chain) \in Nat
    BY ChainFacts DEF Entering, GoIn
  <1>2. Chain' = Chain
    BY DEF Chain
  <1>3. ASSUME NEW k PROVE Inside(r, k)' <=> (Inside(r, k) \/ k = m)
    BY <1>1, <1>2, ChainFacts DEF Inside
  <1> QED
    BY <1>1, <1>2, <1>3, ChainFacts DEF Inside, Left, Logging, Handler

\* A request comes out of m.
LEMMA LeaveMove ==
    ASSUME TypeOK, PlaceInv, setup' = setup, NEW r \in Requests, NEW m,
           Leaving(r, m) \/ (dir[r] = "put" /\ m = "logger"), GoOut(r)
    PROVE  /\ \A k : Inside(r, k)' <=> (Inside(r, k) /\ k # m)
           /\ \A k : Left(r, k)' <=> (Left(r, k) \/ k = m)
           /\ Inside(r, m) /\ ~Left(r, m) /\ dir'[r] = "out"
           /\ at'[r] \in 0..Len(Chain) /\ dir[r] \in {"out", "put"}
  <1>1. /\ dir[r] \in {"out", "put"} /\ at[r] \in 1..Len(Chain) /\ Chain[at[r]] = m
        /\ dir'[r] = "out" /\ at'[r] = at[r] - 1 /\ Len(Chain) \in Nat
    BY ChainFacts DEF Leaving, GoOut, TypeOK, PlaceInv, PlaceOf, Logging
  <1>2. Chain' = Chain
    BY DEF Chain
  <1>3. ASSUME NEW k PROVE Inside(r, k)' <=> (Inside(r, k) /\ k # m)
    BY <1>1, <1>2, ChainFacts DEF Inside
  <1>4. ASSUME NEW k PROVE Left(r, k)' <=> (Left(r, k) \/ k = m)
    BY <1>1, <1>2, ChainFacts DEF Left
  <1> QED
    BY <1>1, <1>2, <1>3, <1>4, ChainFacts DEF Inside, Left

\* The handler returns, or panics.
LEMMA ReturnMove ==
    ASSUME TypeOK, setup' = setup, NEW r \in Requests, InHandler(r), GoOut(r)
    PROVE  /\ \A k : Inside(r, k)' <=> Inside(r, k)
           /\ \A k : ~Left(r, k) /\ ~Left(r, k)'
           /\ dir'[r] = "out" /\ at'[r] \in 0..Len(Chain) /\ dir[r] = "in"
  <1>1. /\ dir[r] = "in" /\ at[r] = Len(Chain) + 1 /\ Len(Chain) \in Nat
        /\ dir'[r] = "out" /\ at'[r] = Len(Chain)
    BY ChainFacts DEF InHandler, GoOut, TypeOK, Handler
  <1>2. Chain' = Chain
    BY DEF Chain
  <1> QED
    BY <1>1, <1>2, ChainFacts DEF Inside, Left

\* Stages of the logger's deferred function, and the end: nothing moves.
LEMMA StageMove ==
    ASSUME TypeOK, setup' = setup, NEW r \in Requests, NEW d \in {"record", "put", "ended"},
           dir[r] \in {"out", "record", "put"}, Stage(r, d)
    PROVE  /\ \A k : Inside(r, k)' <=> Inside(r, k)
           /\ \A k : Left(r, k)' <=> Left(r, k)
           /\ dir'[r] = d /\ at'[r] = at[r]
  <1>1. dir'[r] = d /\ at' = at /\ Chain' = Chain
    BY DEF Stage, TypeOK, Chain
  <1> QED
    BY <1>1 DEF Inside, Left

\* A step of one request moves no other, and no other request's data.
LEMMA Others ==
    ASSUME TypeOK, setup' = setup, NEW q \in Requests, Step(q), NEW r \in Requests, r # q
    PROVE  /\ at'[r] = at[r] /\ dir'[r] = dir[r]
           /\ \A k : (Inside(r, k)' <=> Inside(r, k)) /\ (Left(r, k)' <=> Left(r, k))
           /\ kind' = kind /\ panic'[r] = panic[r] /\ raised'[r] = raised[r] /\ hdr'[r] = hdr[r]
           /\ entry'[r] = entry[r] /\ id'[r] = id[r] /\ counts'[r] = counts[r]
           /\ r \in skipped' <=> r \in skipped
           /\ r \in attrs' <=> r \in attrs
           /\ r \in rethrow' <=> r \in rethrow
           /\ LoggedStatus(r)' = LoggedStatus(r)
  <1>1. at'[r] = at[r] /\ dir'[r] = dir[r]
    BY DEF TypeOK, Step, EnterRequestID, EnterRecoverer, EnterMetrics, SkipLogger, EnterLogger,
       HandlerStep, ReadBody, WriteStatus, ReportError, Return, Panic, PassOut, LeaveRecoverer,
       LeaveMetrics, RecoverInLogger, Record, PutEntry, End, GoIn, GoOut, Stage
  <1>2. /\ kind' = kind /\ panic'[r] = panic[r] /\ raised'[r] = raised[r] /\ hdr'[r] = hdr[r]
        /\ r \in attrs' <=> r \in attrs
    BY DEF TypeOK, Step, EnterRequestID, EnterRecoverer, EnterMetrics, SkipLogger, EnterLogger,
       HandlerStep, ReadBody, WriteStatus, ReportError, Return, Panic, PassOut, LeaveRecoverer,
       LeaveMetrics, RecoverInLogger, Record, PutEntry, End, WriteHeader, reqVars
  <1>3. /\ entry'[r] = entry[r] /\ id'[r] = id[r] /\ counts'[r] = counts[r]
        /\ r \in skipped' <=> r \in skipped
        /\ r \in rethrow' <=> r \in rethrow
    BY DEF TypeOK, Step, EnterRequestID, EnterRecoverer, EnterMetrics, SkipLogger, EnterLogger,
       HandlerStep, ReadBody, WriteStatus, ReportError, Return, Panic, PassOut, LeaveRecoverer,
       LeaveMetrics, RecoverInLogger, Record, PutEntry, End, logVars, reqVars
  <1>4. \A k : (Inside(r, k)' <=> Inside(r, k)) /\ (Left(r, k)' <=> Left(r, k))
    BY <1>1 DEF Inside, Left, Chain
  <1> QED
    BY <1>1, <1>2, <1>3, <1>4 DEF LoggedStatus

-----------------------------------------------------------------------------
(* The initial states.                                                     *)

LEMMA InitIInv == Init => IInv
  <1> SUFFICES ASSUME Init PROVE IInv
    OBVIOUS
  <1>1. TypeOK
    BY SetupAssumption DEF Init, TypeOK, Handler, Chain
  <1>2. PlaceInv /\ \A r \in Requests : \A k : ~Inside(r, k) /\ ~Left(r, k)
    BY <1>1, ChainFacts DEF Init, PlaceInv, PlaceOf, Inside, Left, Logging
  <1>3. PoolInv
    BY <1>2, RequestAssumption DEF Init, PoolInv, EntryOf
  <1>4. PanicInv
    BY <1>2 DEF Init, PanicInv, PanicOf, Logging
  <1>5. IdInv
    BY DEF Init, IdInv
  <1>6. RecordInv /\ CountInv
    BY <1>2 DEF Init, RecordInv, RecordOf, Decided, CountInv, CountOf
  <1> QED
    BY <1>1, <1>2, <1>3, <1>4, <1>5, <1>6 DEF IInv

-----------------------------------------------------------------------------
(* The steps.                                                              *)

\* Every step preserves the types.
LEMMA TypeStep ==
    ASSUME TypeOK, PlaceInv, PoolInv, setup' = setup, NEW r \in Requests, Step(r)
    PROVE  TypeOK'
  <1>1. /\ Handler' = Handler /\ Handler \in Nat /\ Len(Chain) = Handler - 1
        /\ DOMAIN Chain = 1..Len(Chain) /\ Len(Chain) \in Nat
    <2>1. Handler' = Handler
      BY DEF Handler, Chain
    <2> QED
      BY <2>1, ChainFacts
  <1>2. \/ hdr' = hdr
        \/ \E s \in 200..599 : WriteHeader(r, s)
    <2>1. Statuses \subseteq 200..599 /\ 500 \in 200..599 /\ 200 \in 200..599
      BY RequestAssumption
    <2> QED
      BY <2>1 DEF Step, EnterRequestID, EnterRecoverer, EnterMetrics, SkipLogger, EnterLogger,
       HandlerStep, ReadBody, WriteStatus, ReportError, Return, Panic, PassOut, LeaveRecoverer,
       LeaveMetrics, RecoverInLogger, Record, PutEntry, End
  <1>3. dir[r] = "put" => entry[r] \in Entries
    <2>1. dir[r] = "put" => Inside(r, "logger") /\ r \notin skipped
      BY <1>1 DEF PlaceInv, PlaceOf, Inside, Logging
    <2> QED
      BY <2>1 DEF PoolInv, EntryOf, TypeOK
  <1> USE DEF TypeOK
  <1>4. at' \in [Requests -> 0..Handler]
    <2>1. CASE GoIn(r) /\ at[r] \in DOMAIN Chain
      BY <1>1, <2>1 DEF GoIn
    <2>2. CASE GoOut(r) /\ (at[r] \in DOMAIN Chain \/ at[r] = Handler)
      BY <1>1, <2>2 DEF GoOut
    <2>3. CASE at' = at
      BY <1>1, <2>3
    <2> QED
      BY <2>1, <2>2, <2>3
      DEF Step, EnterRequestID, EnterRecoverer, EnterMetrics, SkipLogger, EnterLogger,
       HandlerStep, ReadBody, WriteStatus, ReportError, Return, Panic, PassOut, LeaveRecoverer,
       LeaveMetrics, RecoverInLogger, Record, PutEntry, End, Stage,
       Entering, Leaving, InHandler, PlaceInv, PlaceOf, Logging
  <1>5. dir' \in [Requests -> {"in", "out", "record", "put", "ended"}]
    BY DEF Step, EnterRequestID, EnterRecoverer, EnterMetrics, SkipLogger, EnterLogger,
       HandlerStep, ReadBody, WriteStatus, ReportError, Return, Panic, PassOut, LeaveRecoverer,
       LeaveMetrics, RecoverInLogger, Record, PutEntry, End, GoIn, GoOut, Stage
  <1>6. /\ panic' \in [Requests -> Panics \cup {"none"}]
        /\ raised' \in [Requests -> Panics \cup {"none"}]
        /\ attrs' \subseteq Requests /\ kind' = kind
    BY DEF Step, EnterRequestID, EnterRecoverer, EnterMetrics, SkipLogger, EnterLogger,
       HandlerStep, ReadBody, WriteStatus, ReportError, Return, Panic, PassOut, LeaveRecoverer,
       LeaveMetrics, RecoverInLogger, Record, PutEntry, End, reqVars
  <1>7. hdr' \in [Requests -> {0} \cup 200..599]
    BY <1>2 DEF WriteHeader
  <1>8. /\ entry' \in [Requests -> Entries \cup {None}] /\ free' \subseteq Entries
        /\ used' \in [Entries -> SUBSET Requests]
    <2>1. CASE EnterLogger(r)
      BY <2>1 DEF EnterLogger
    <2>2. CASE ReadBody(r) \/ Record(r)
      BY <2>2 DEF ReadBody, Record
    <2>3. CASE PutEntry(r)
      BY <2>3, <1>3 DEF PutEntry
    <2>4. CASE UNCHANGED <<entry, free, used>>
      BY <2>4
    <2> QED
      BY <2>1, <2>2, <2>3, <2>4
      DEF Step, EnterRequestID, EnterRecoverer, EnterMetrics, SkipLogger, HandlerStep,
       WriteStatus, ReportError, Return, Panic, PassOut, LeaveRecoverer, LeaveMetrics,
       RecoverInLogger, End, logVars
  <1>9. /\ skipped' \subseteq Requests /\ rethrow' \subseteq Requests
        /\ id' \in [Requests -> Nat] /\ counter' \in Nat
    BY DEF Step, EnterRequestID, EnterRecoverer, EnterMetrics, SkipLogger, EnterLogger,
       HandlerStep, ReadBody, WriteStatus, ReportError, Return, Panic, PassOut, LeaveRecoverer,
       LeaveMetrics, RecoverInLogger, Record, PutEntry, End, reqVars, logVars
  <1>10. counts' \in [Requests -> {-1, 0} \cup 200..599]
    BY DEF Step, EnterRequestID, EnterRecoverer, EnterMetrics, SkipLogger, EnterLogger,
       HandlerStep, ReadBody, WriteStatus, ReportError, Return, Panic, PassOut, LeaveRecoverer,
       LeaveMetrics, RecoverInLogger, Record, PutEntry, End, logVars
  <1>11. \A x \in records' : x.req \in Requests /\ x.status \in 200..599
    <2>1. CASE records' = records
      BY <2>1
    <2>2. CASE Record(r)
      <3>1. LoggedStatus(r) \in 200..599
        BY DEF LoggedStatus
      <3> QED
        BY <2>2, <3>1 DEF Record
    <2> QED
      BY <2>1, <2>2
      DEF Step, EnterRequestID, EnterRecoverer, EnterMetrics, SkipLogger, EnterLogger,
       HandlerStep, ReadBody, WriteStatus, ReportError, Return, Panic, PassOut, LeaveRecoverer,
       LeaveMetrics, RecoverInLogger, PutEntry, End, logVars
  <1> QED
    BY <1>1, <1>4, <1>5, <1>6, <1>7, <1>8, <1>9, <1>10, <1>11

\* Every step keeps requests at places of the chain.
LEMMA PlaceStep ==
    ASSUME TypeOK, PlaceInv, setup' = setup, NEW q \in Requests, Step(q)
    PROVE  PlaceInv'
  <1> SUFFICES ASSUME NEW r \in Requests PROVE PlaceOf(r)'
    BY DEF PlaceInv
  <1>0. PlaceOf(r) /\ Chain' = Chain /\ Len(Chain) \in Nat
    BY ChainFacts DEF PlaceInv, Chain
  <1>1. CASE r # q
    BY <1>0, <1>1, Others DEF PlaceOf, Logging
  <1> USE DEF PlaceOf, Logging
  <1>2. ASSUME r = q, NEW m, Entering(r, m), GoIn(r),
               skipped' = skipped \/ (m = "logger" /\ skipped' = skipped \cup {r})
        PROVE  PlaceOf(r)'
    BY <1>0, <1>2, EnterMove
  <1>3. CASE r = q /\ InHandler(r) /\ UNCHANGED <<at, dir, skipped>>
    BY <1>0, <1>3 DEF InHandler, Inside, Left
  <1>4. CASE r = q /\ InHandler(r) /\ GoOut(r) /\ skipped' = skipped
    BY <1>0, <1>4, ReturnMove
  <1>5. ASSUME r = q, NEW m, Leaving(r, m) \/ (dir[r] = "put" /\ m = "logger"), GoOut(r),
               skipped' = skipped
        PROVE  PlaceOf(r)'
    BY <1>0, <1>5, LeaveMove
  <1>6. CASE r = q /\ Leaving(r, "logger") /\ r \notin skipped /\ Stage(r, "record") /\ skipped' = skipped
    BY <1>0, <1>6, StageMove DEF Leaving
  <1>7. CASE r = q /\ dir[r] = "record" /\ Stage(r, "put") /\ skipped' = skipped
    BY <1>0, <1>7, StageMove
  <1>8. CASE r = q /\ dir[r] = "out" /\ at[r] = 0 /\ Stage(r, "ended") /\ skipped' = skipped
    BY <1>0, <1>8, StageMove
  <1> QED
    BY <1>1, <1>2, <1>3, <1>4, <1>5, <1>6, <1>7, <1>8
    DEF Step, EnterRequestID, EnterRecoverer, EnterMetrics, SkipLogger, EnterLogger,
       HandlerStep, ReadBody, WriteStatus, ReportError, Return, Panic, PassOut, LeaveRecoverer,
       LeaveMetrics, RecoverInLogger, Record, PutEntry, End, reqVars

\* Every step passes panics on, or handles them, as the middleware should.
LEMMA PanicStep ==
    ASSUME TypeOK, PlaceInv, PanicInv, setup' = setup, NEW q \in Requests, Step(q)
    PROVE  PanicInv'
  <1> SUFFICES ASSUME NEW r \in Requests PROVE PanicOf(r)'
    BY DEF PanicInv
  <1>0. /\ PanicOf(r) /\ PlaceOf(r) /\ RecoverPanics' = RecoverPanics
        /\ panic \in [Requests -> Panics \cup {"none"}]
        /\ raised \in [Requests -> Panics \cup {"none"}]
    BY DEF PanicInv, PlaceInv, RecoverPanics, TypeOK
  <1>1. CASE r # q
    BY <1>0, <1>1, Others DEF PanicOf, Logging
  <1> USE DEF PanicOf, Logging
  <1>2. CASE r = q /\ (EnterRequestID(r) \/ EnterRecoverer(r) \/ EnterMetrics(r) \/ EnterLogger(r))
    <2>1. PICK m : Entering(r, m) /\ GoIn(r)
      BY <1>2 DEF EnterRequestID, EnterRecoverer, EnterMetrics, EnterLogger
    <2>2. UNCHANGED <<panic, raised, rethrow>>
      BY <1>2 DEF EnterRequestID, EnterRecoverer, EnterMetrics, EnterLogger, logVars
    <2> QED
      BY <1>0, <2>1, <2>2, EnterMove
  <1>3. CASE r = q /\ SkipLogger(r)
    BY <1>0, <1>3, EnterMove DEF SkipLogger, logVars
  <1>4. CASE r = q /\ (ReadBody(r) \/ WriteStatus(r) \/ ReportError(r))
    BY <1>0, <1>4 DEF ReadBody, WriteStatus, ReportError, InHandler, Left, logVars, reqVars, Chain
  <1>5. CASE r = q /\ (Return(r) \/ Panic(r))
    <2>1. InHandler(r) /\ GoOut(r)
      BY <1>5 DEF Return, Panic
    <2>2. \A k : ~Left(r, k)'
      BY <2>1, ReturnMove
    <2>3. dir'[r] = "out" /\ dir[r] = "in"
      BY <2>1, ReturnMove
    <2>4. rethrow' = rethrow
      BY <1>5 DEF Return, Panic, logVars
    <2>5. \/ UNCHANGED <<panic, raised>>
          \/ \E p \in Panics : panic'[r] = p /\ raised'[r] = p
      BY <1>0, <1>5 DEF Return, Panic
    <2> QED
      BY <1>0, <2>2, <2>3, <2>4, <2>5 DEF Left, Panics
  <1>6. CASE r = q /\ (PassOut(r) \/ LeaveMetrics(r))
    <2>1. PICK m : /\ Leaving(r, m) /\ GoOut(r)
                   /\ m = "logger" => r \in skipped
                   /\ m # "recoverer"
      BY <1>6 DEF PassOut, LeaveMetrics
    <2>2. UNCHANGED <<panic, raised, rethrow, skipped>>
      BY <1>6 DEF PassOut, LeaveMetrics, reqVars, logVars
    <2> QED
      BY <1>0, <2>1, <2>2, LeaveMove DEF Leaving, PlaceOf
  <1>7. CASE r = q /\ LeaveRecoverer(r)
    <2>1. Leaving(r, "recoverer") /\ GoOut(r)
      BY <1>7 DEF LeaveRecoverer
    <2>2. /\ UNCHANGED <<raised, rethrow, skipped>>
          /\ panic'[r] = IF panic[r] = "value" THEN "none" ELSE panic[r]
      BY <1>0, <1>7 DEF LeaveRecoverer, reqVars, logVars
    <2> QED
      BY <1>0, <2>1, <2>2, LeaveMove DEF Leaving
  <1>8. CASE r = q /\ RecoverInLogger(r)
    <2>1. Leaving(r, "logger") /\ r \notin skipped /\ Stage(r, "record")
      BY <1>8 DEF RecoverInLogger
    <2>2. /\ UNCHANGED <<panic, raised, skipped>>
          /\ r \in rethrow' <=> (r \in rethrow \/ panic[r] = "abort" \/ (panic[r] # "none" /\ ~RecoverPanics))
      BY <1>8 DEF RecoverInLogger, reqVars
    <2>3. ~Left(r, "logger")
      BY <2>1, ChainFacts DEF Leaving, Left
    <2> QED
      BY <1>0, <2>1, <2>2, <2>3, StageMove DEF Leaving
  <1>9. CASE r = q /\ Record(r)
    BY <1>0, <1>9, StageMove DEF Record, reqVars
  <1>10. CASE r = q /\ PutEntry(r)
    <2>1. dir[r] = "put" /\ GoOut(r)
      BY <1>10 DEF PutEntry
    <2>2. /\ UNCHANGED <<raised, rethrow, skipped>>
          /\ panic'[r] = IF r \in rethrow THEN panic[r] ELSE "none"
      BY <1>0, <1>10 DEF PutEntry, reqVars
    <2>3. r \notin skipped
      BY <1>0, <2>1 DEF PlaceOf
    <2> QED
      BY <1>0, <2>1, <2>2, <2>3, LeaveMove DEF Panics
  <1>11. CASE r = q /\ End(r)
    BY <1>0, <1>11, StageMove DEF End, reqVars, logVars
  <1> QED
    BY <1>1, <1>2, <1>3, <1>4, <1>5, <1>6, <1>7, <1>8, <1>9, <1>10, <1>11 DEF Step, HandlerStep

\* Every step keeps the entries apart: Get takes one from the pool, Put brings
\* it back.
LEMMA PoolStep ==
    ASSUME TypeOK, PlaceInv, PoolInv, setup' = setup, NEW q \in Requests, Step(q)
    PROVE  PoolInv'
  <1> SUFFICES ASSUME NEW r \in Requests PROVE EntryOf(r)'
    BY DEF PoolInv
  <1>0. /\ EntryOf(r) /\ EntryOf(q) /\ PlaceOf(q) /\ None \notin Entries
        /\ entry \in [Requests -> Entries \cup {None}]
        /\ used \in [Entries -> SUBSET Requests]
        /\ free \subseteq Entries
    BY RequestAssumption DEF PoolInv, PlaceInv, TypeOK
  <1>1. r # q => /\ entry'[r] = entry[r] /\ (r \in skipped' <=> r \in skipped)
                 /\ Inside(r, "logger")' <=> Inside(r, "logger")
    BY Others
  <1>2. CASE EnterLogger(q)
    <2>1. PICK e \in free : /\ entry' = [entry EXCEPT ![q] = e]
                            /\ free' = free \ {e}
                            /\ used' = [used EXCEPT ![e] = {}]
      BY <1>2 DEF EnterLogger
    <2>2. /\ Inside(q, "logger")' /\ ~Inside(q, "logger") /\ ~Left(q, "logger")
          /\ skipped' = skipped
      BY <1>2, EnterMove DEF EnterLogger, reqVars
    <2>3. q \notin skipped
      BY <1>0, <2>2 DEF PlaceOf
    <2>4. \A p \in Requests : entry[p] # e
      BY <2>1 DEF PoolInv, EntryOf
    <2>5. CASE r = q
      BY <1>0, <2>1, <2>2, <2>3, <2>4, <2>5 DEF EntryOf
    <2>6. CASE r # q
      <3>1. entry'[r] = entry[r] /\ entry[r] # e /\ entry'[q] = e
        BY <1>0, <2>1, <2>4, <2>6
      <3>2. entry[r] # None => used'[entry[r]] \subseteq {r}
        BY <1>0, <2>1, <3>1 DEF EntryOf
      <3> QED
        BY <1>0, <1>1, <2>1, <2>2, <2>6, <3>1, <3>2 DEF EntryOf
    <2> QED
      BY <2>5, <2>6
  <1>3. CASE /\ EnterRequestID(q) \/ EnterRecoverer(q) \/ EnterMetrics(q)
    <2>1. PICK m : Entering(q, m) /\ GoIn(q) /\ m # "logger"
      BY <1>3 DEF EnterRequestID, EnterRecoverer, EnterMetrics
    <2>2. UNCHANGED <<entry, free, used, skipped>>
      BY <1>3 DEF EnterRequestID, EnterRecoverer, EnterMetrics, reqVars, logVars
    <2>3. Inside(q, "logger")' <=> Inside(q, "logger")
      BY <2>1, EnterMove
    <2> QED
      BY <1>0, <1>1, <2>2, <2>3 DEF EntryOf
  <1>4. CASE SkipLogger(q)
    <2>1. Inside(q, "logger")' /\ ~Inside(q, "logger")
      BY <1>4, EnterMove DEF SkipLogger
    <2>2. UNCHANGED <<entry, free, used>> /\ skipped' = skipped \cup {q}
      BY <1>4 DEF SkipLogger, logVars
    <2> QED
      BY <1>0, <1>1, <2>1, <2>2 DEF EntryOf
  <1>5. CASE WriteStatus(q) \/ ReportError(q)
    <2>1. UNCHANGED <<entry, free, used, skipped, at, dir>>
      BY <1>5 DEF WriteStatus, ReportError, reqVars, logVars
    <2> QED
      BY <1>0, <2>1 DEF EntryOf, Inside, Chain
  <1>6. CASE ReadBody(q)
    <2>1. /\ UNCHANGED <<entry, free, skipped, at, dir>> /\ entry[q] # None
          /\ used' = [used EXCEPT ![entry[q]] = @ \cup {q}]
      BY <1>6 DEF ReadBody, reqVars
    <2>2. entry[r] # None => used'[entry[r]] \subseteq {r}
      BY <1>0, <2>1 DEF EntryOf
    <2> QED
      BY <1>0, <2>1, <2>2 DEF EntryOf, Inside, Chain
  <1>7. CASE Return(q) \/ Panic(q)
    <2>1. InHandler(q) /\ GoOut(q) /\ UNCHANGED <<entry, free, used, skipped>>
      BY <1>7 DEF Return, Panic, reqVars, logVars
    <2>2. Inside(q, "logger")' <=> Inside(q, "logger")
      BY <2>1, ReturnMove
    <2> QED
      BY <1>0, <1>1, <2>1, <2>2 DEF EntryOf
  <1>8. CASE PassOut(q) \/ LeaveRecoverer(q) \/ LeaveMetrics(q)
    <2>1. PICK m : /\ Leaving(q, m) /\ GoOut(q)
                   /\ m = "logger" => q \in skipped
      BY <1>8 DEF PassOut, LeaveRecoverer, LeaveMetrics
    <2>2. UNCHANGED <<entry, free, used, skipped>>
      BY <1>8 DEF PassOut, LeaveRecoverer, LeaveMetrics, reqVars, logVars
    <2>3. Inside(q, "logger")' <=> (Inside(q, "logger") /\ "logger" # m)
      BY <2>1, LeaveMove
    <2> QED
      BY <1>0, <1>1, <2>1, <2>2, <2>3 DEF EntryOf
  <1>9. CASE RecoverInLogger(q) \/ End(q)
    <2>1. \/ Stage(q, "record") /\ dir[q] = "out"
          \/ Stage(q, "ended") /\ dir[q] = "out"
      BY <1>9 DEF RecoverInLogger, End, Leaving
    <2>2. UNCHANGED <<entry, free, used, skipped>>
      BY <1>9 DEF RecoverInLogger, End, reqVars, logVars
    <2>3. Inside(q, "logger")' <=> Inside(q, "logger")
      BY <2>1, StageMove
    <2> QED
      BY <1>0, <1>1, <2>2, <2>3 DEF EntryOf
  <1>10. CASE Record(q)
    <2>1. /\ dir[q] = "record" /\ Stage(q, "put") /\ UNCHANGED <<entry, free, skipped>>
          /\ used' = used \/ used' = [used EXCEPT ![entry[q]] = used[entry[q]] \cup {q}]
      BY <1>10 DEF Record, reqVars
    <2>2. Inside(q, "logger")' <=> Inside(q, "logger")
      BY <2>1, StageMove
    <2>3. entry[q] # None
      BY <1>0, <2>1, ChainFacts DEF PlaceOf, Logging, Inside, EntryOf
    <2>4. entry[r] # None => used'[entry[r]] \subseteq {r}
      BY <1>0, <2>1, <2>3 DEF EntryOf
    <2> QED
      BY <1>0, <1>1, <2>1, <2>2, <2>4 DEF EntryOf
  <1>11. CASE PutEntry(q)
    <2>1. /\ dir[q] = "put" /\ GoOut(q) /\ UNCHANGED <<used, skipped>>
          /\ free' = free \cup {entry[q]}
          /\ entry' = [entry EXCEPT ![q] = None]
      BY <1>11 DEF PutEntry, reqVars
    <2>2. Inside(q, "logger") /\ ~Inside(q, "logger")'
      BY <2>1, LeaveMove
    <2>3. q \notin skipped /\ entry[q] \in Entries
      BY <1>0, <2>1, <2>2 DEF PlaceOf, Logging, EntryOf
    <2>4. CASE r = q
      BY <1>0, <2>1, <2>2, <2>3, <2>4 DEF EntryOf
    <2>5. CASE r # q
      <3>1. /\ entry'[r] = entry[r] /\ entry[r] # entry[q]
            /\ \A p \in Requests : entry'[p] \in {entry[p], None}
        BY <1>0, <2>1, <2>3, <2>5 DEF EntryOf
      <3> QED
        BY <1>0, <1>1, <2>1, <2>5, <3>1 DEF EntryOf
    <2> QED
      BY <2>4, <2>5
  <1> QED
    BY <1>2, <1>3, <1>4, <1>5, <1>6, <1>7, <1>8, <1>9, <1>10, <1>11 DEF Step, HandlerStep

\* A request that takes the next number is the first to have it.
LEMMA IdStep ==
    ASSUME TypeOK, IdInv, setup' = setup, NEW q \in Requests, Step(q)
    PROVE  IdInv'
  <1>0. id \in [Requests -> Nat] /\ counter \in Nat
    BY DEF TypeOK
  <1>1. CASE EnterRequestID(q) /\ ~kind[q].header
    <2>1. counter' = counter + 1 /\ id' = [id EXCEPT ![q] = counter + 1]
      BY <1>1 DEF EnterRequestID
    <2> QED
      BY <1>0, <2>1 DEF IdInv
  <1>2. CASE UNCHANGED <<id, counter>>
    BY <1>2 DEF IdInv
  <1> QED
    BY <1>1, <1>2 DEF Step, EnterRequestID, EnterRecoverer, EnterMetrics, SkipLogger, EnterLogger,
       HandlerStep, ReadBody, WriteStatus, ReportError, Return, Panic, PassOut, LeaveRecoverer,
       LeaveMetrics, RecoverInLogger, Record, PutEntry, End, reqVars

\* Until the handler returns a request has no record and no count.
LEMMA NothingYet ==
    ASSUME NEW r \in Requests, dir[r] = "in", RecordOf(r), CountOf(r)
    PROVE  ~Decided(r) /\ (\A x \in records : x.req # r) /\ ~(counts[r] >= 0)
  BY DEF RecordOf, CountOf, Decided, Left

\* Every step keeps what is recorded equal to what will be answered.
LEMMA RecordStep ==
    ASSUME IInv, setup' = setup, NEW q \in Requests, Step(q)
    PROVE  RecordInv'
  <1> SUFFICES ASSUME NEW r \in Requests PROVE RecordOf(r)'
    BY DEF RecordInv
  <1>0. /\ RecordOf(q) /\ RecordOf(r) /\ CountOf(q) /\ PlaceOf(q) /\ PanicOf(q) /\ EntryOf(q)
        /\ TypeOK /\ PlaceInv
        /\ SkipPost' = SkipPost /\ MinLevel' = MinLevel
    BY DEF IInv, RecordInv, PlaceInv, PanicInv, PoolInv, CountInv, SkipPost, MinLevel
  <1>1. hdr \in [Requests -> {0} \cup 200..599]
    BY <1>0 DEF TypeOK
  <1>2. CASE r # q
    <2>1. \A x : x.req = r => (x \in records' <=> x \in records)
      BY <1>2 DEF Step, EnterRequestID, EnterRecoverer, EnterMetrics, SkipLogger, EnterLogger,
         HandlerStep, ReadBody, WriteStatus, ReportError, Return, Panic, PassOut, LeaveRecoverer,
         LeaveMetrics, RecoverInLogger, Record, PutEntry, End, logVars
    <2>2. \A s : Dropped(r, s)' <=> Dropped(r, s)
      BY <1>0, <1>2, Others DEF Dropped, Leveler
    <2>3. Seen(r)' = Seen(r) /\ (Decided(r)' <=> Decided(r))
      BY <1>0, <1>2, Others DEF Seen, Decided
    <2>4. /\ id'[r] = id[r] /\ LoggedStatus(r)' = LoggedStatus(r)
          /\ r \in skipped' <=> r \in skipped
          /\ r \in attrs' <=> r \in attrs
          /\ r \in rethrow' <=> r \in rethrow
      BY <1>0, <1>2, Others
    <2> QED
      BY <1>0, <2>1, <2>2, <2>3, <2>4 DEF RecordOf
  <1>3. CASE r = q /\ dir[r] = "in" /\ records' = records
    <2>1. \/ \E m : Entering(r, m) /\ GoIn(r)
          \/ InHandler(r) /\ UNCHANGED <<at, dir>>
          \/ InHandler(r) /\ GoOut(r)
      BY <1>3 DEF Step, EnterRequestID, EnterRecoverer, EnterMetrics, SkipLogger, EnterLogger,
         HandlerStep, ReadBody, WriteStatus, ReportError, Return, Panic, PassOut, LeaveRecoverer,
         LeaveMetrics, RecoverInLogger, Record, PutEntry, End, Leaving
    <2>2. ~Decided(r)'
      <3>1. CASE \E m : Entering(r, m) /\ GoIn(r)
        BY <1>0, <3>1, EnterMove DEF Decided
      <3>2. CASE InHandler(r) /\ UNCHANGED <<at, dir>>
        BY <3>2 DEF Decided, Left, InHandler
      <3>3. CASE InHandler(r) /\ GoOut(r)
        BY <1>0, <3>3, ReturnMove DEF Decided
      <3> QED
        BY <2>1, <3>1, <3>2, <3>3
    <2> QED
      BY <1>0, <1>3, <2>2, NothingYet DEF RecordOf
  <1>4. CASE r = q /\ (PassOut(r) \/ LeaveMetrics(r))
    <2>1. PICK m : /\ Leaving(r, m) /\ GoOut(r)
                   /\ m = "logger" => r \in skipped
      BY <1>4 DEF PassOut, LeaveMetrics
    <2>2. UNCHANGED <<kind, id, hdr, attrs, rethrow, skipped, records>>
      BY <1>4 DEF PassOut, LeaveMetrics, reqVars, logVars
    <2>3. /\ Left(r, "logger")' <=> (Left(r, "logger") \/ m = "logger")
          /\ dir[r] = "out" /\ dir'[r] = "out"
      BY <1>0, <2>1, LeaveMove DEF Leaving
    <2>4. LoggedStatus(r)' = LoggedStatus(r) /\ Seen(r)' = Seen(r)
      BY <2>2 DEF LoggedStatus, Seen
    <2>5. \A s : Dropped(r, s)' <=> Dropped(r, s)
      BY <1>0, <2>2 DEF Dropped, Leveler
    <2> QED
      BY <1>0, <1>4, <2>1, <2>2, <2>3, <2>4, <2>5 DEF RecordOf, Decided
  <1>5. CASE r = q /\ LeaveRecoverer(r)
    <2>1. Leaving(r, "recoverer") /\ GoOut(r) /\ UNCHANGED <<kind, id, rethrow, skipped, records>>
      BY <1>5 DEF LeaveRecoverer, reqVars, logVars
    <2>2. /\ Left(r, "logger")' <=> Left(r, "logger")
          /\ dir[r] = "out" /\ dir'[r] = "out"
      BY <1>0, <2>1, LeaveMove DEF Leaving
    <2>3. CASE panic[r] # "value"
      <3>1. UNCHANGED <<hdr, attrs>>
        BY <1>5, <2>3 DEF LeaveRecoverer
      <3> QED
        BY <1>0, <2>1, <2>2, <3>1 DEF RecordOf, Decided, Seen, Dropped, Leveler, LoggedStatus
    <2>4. CASE panic[r] = "value" /\ ~(r \in rethrow /\ Left(r, "logger"))
      <3>1. ~Left(r, "logger") \/ r \in skipped
        BY <1>0, <1>5, <2>4 DEF PanicOf
      <3> QED
        BY <1>0, <2>1, <2>2, <3>1 DEF RecordOf, Decided
    <2>5. CASE panic[r] = "value" /\ r \in rethrow /\ Left(r, "logger")
      <3>1. LoggedStatus(r)' = LoggedStatus(r) \/ LoggedStatus(r) = 200
        BY <1>1, <1>5, <2>5 DEF LeaveRecoverer, WriteHeader, LoggedStatus
      <3>2. Seen(r) \subseteq Seen(r)' /\ \A s : Dropped(r, s)' <=> Dropped(r, s)
        BY <1>0, <2>1, <2>5, <3>1 DEF Seen, Dropped, Leveler
      <3> QED
        BY <1>0, <2>1, <2>2, <2>5, <3>2 DEF RecordOf, Decided
    <2> QED
      BY <2>3, <2>4, <2>5
  <1>6. CASE r = q /\ RecoverInLogger(r)
    <2>1. /\ Leaving(r, "logger") /\ Stage(r, "record") /\ records' = records
          /\ dir[r] = "out"
      BY <1>6 DEF RecoverInLogger, Leaving
    <2>2. ~Left(r, "logger") /\ ~Left(r, "logger")' /\ dir'[r] = "record"
      <3>1. ~Left(r, "logger")
        BY <1>0, <2>1, ChainFacts DEF Leaving, Left
      <3> QED
        BY <1>0, <2>1, <3>1, StageMove
    <2> QED
      BY <1>0, <2>1, <2>2 DEF RecordOf, Decided
  <1>7. CASE r = q /\ Record(r)
    <2>1. /\ dir[r] = "record" /\ Stage(r, "put")
          /\ UNCHANGED <<kind, id, hdr, attrs, rethrow, skipped>>
      BY <1>7 DEF Record, reqVars
    <2>2. r \notin skipped /\ Inside(r, "logger") /\ ~Left(r, "logger") /\ dir'[r] = "put"
      BY <1>0, <1>7, <2>1, ChainFacts, StageMove DEF PlaceOf, Logging, Inside, Left
    <2>3. used[entry[r]] \subseteq {r}
      BY <1>0, <1>7, <2>2 DEF EntryOf
    <2>4. \A x \in records : x.req # r
      BY <1>0, <2>1, <2>2 DEF RecordOf, Decided
    <2>5. CASE Wanted(r)
      <3>1. records' = records \cup {[req |-> r, status |-> LoggedStatus(r), err |-> r \in attrs,
                                      id |-> id[r], data |-> {r}]}
        BY <1>7, <2>3, <2>5 DEF Record
      <3>2. LoggedStatus(r)' = LoggedStatus(r) /\ Decided(r)'
        BY <2>1, <2>2 DEF LoggedStatus, Decided
      <3>3. \A x \in records' : x.req = r =>
              /\ x.status = LoggedStatus(r) /\ x.err = (r \in attrs)
              /\ x.id = id[r] /\ x.data = {r}
        BY <2>4, <3>1
      <3>4. \A x, y \in records' : (x.req = r /\ y.req = r) => x = y
        BY <2>4, <3>1
      <3>5. \E x \in records' : x.req = r
        <4> DEFINE new == [req |-> r, status |-> LoggedStatus(r), err |-> r \in attrs,
                           id |-> id[r], data |-> {r}]
        <4>1. new \in records' /\ new.req = r
          BY <3>1
        <4> QED
          BY <4>1
      <3> QED
        BY <2>1, <2>2, <3>2, <3>3, <3>4, <3>5 DEF RecordOf
    <2>6. CASE ~Wanted(r)
      <3>1. records' = records
        BY <1>7, <2>6 DEF Record
      <3>2. Dropped(r, LoggedStatus(r)) \/ ~(LoggedStatus(r) \notin SkipPost)
        <4>1. Leveler(r, LoggedStatus(r)) \in Int /\ MinLevel \in Int
          BY <1>0, ChainFacts DEF Leveler
        <4> QED
          BY <2>6, <4>1 DEF Wanted, Dropped
      <3>3. Dropped(r, LoggedStatus(r))
        BY <3>2 DEF Dropped
      <3>4. LoggedStatus(r) \in Seen(r)'
        BY <2>1 DEF Seen, LoggedStatus
      <3>5. Dropped(r, LoggedStatus(r))'
        BY <1>0, <2>1, <3>3 DEF Dropped, Leveler, LoggedStatus
      <3>6. LoggedStatus(r)' = LoggedStatus(r)
        BY <2>1 DEF LoggedStatus
      <3> QED
        BY <2>4, <3>1, <3>4, <3>5, <3>6 DEF RecordOf
    <2> QED
      BY <2>5, <2>6
  <1>8. CASE r = q /\ PutEntry(r)
    <2>1. /\ dir[r] = "put" /\ GoOut(r)
          /\ UNCHANGED <<kind, id, hdr, attrs, rethrow, skipped, records>>
      BY <1>8 DEF PutEntry, reqVars
    <2>2. Left(r, "logger")'
      BY <1>0, <2>1, LeaveMove
    <2> QED
      BY <1>0, <2>1, <2>2 DEF RecordOf, Decided, Seen, Dropped, Leveler, LoggedStatus
  <1>9. CASE r = q /\ End(r)
    <2>1. /\ dir[r] = "out" /\ Stage(r, "ended")
          /\ UNCHANGED <<kind, id, attrs, rethrow, skipped, records>>
      BY <1>9 DEF End, reqVars, logVars
    <2>2. (Left(r, "logger")' <=> Left(r, "logger")) /\ dir'[r] = "ended"
      BY <1>0, <2>1, StageMove
    <2>3. LoggedStatus(r)' = LoggedStatus(r)
      BY <1>1, <1>9 DEF End, WriteHeader, LoggedStatus
    <2> QED
      BY <1>0, <2>1, <2>2, <2>3 DEF RecordOf, Decided, Seen, Dropped, Leveler
  <1> QED
    BY <1>2, <1>3, <1>4, <1>5, <1>6, <1>7, <1>8, <1>9
    DEF Step, EnterRequestID, EnterRecoverer, EnterMetrics, SkipLogger, EnterLogger,
       HandlerStep, ReadBody, WriteStatus, ReportError, Return, Panic, Entering, InHandler, logVars

\* Every step keeps the counts equal to what will be answered.
LEMMA CountStep ==
    ASSUME IInv, setup' = setup, NEW q \in Requests, Step(q)
    PROVE  CountInv'
  <1> SUFFICES ASSUME NEW r \in Requests PROVE CountOf(r)'
    BY DEF CountInv
  <1>0. /\ RecordOf(r) /\ CountOf(r) /\ PlaceOf(r) /\ PanicOf(r)
        /\ TypeOK /\ PlaceInv
        /\ RecoverPanics' = RecoverPanics
    BY DEF IInv, RecordInv, PlaceInv, PanicInv, CountInv, RecoverPanics
  <1>1. /\ hdr \in [Requests -> {0} \cup 200..599]
        /\ panic \in [Requests -> Panics \cup {"none"}]
        /\ counts \in [Requests -> {-1, 0} \cup 200..599]
    BY <1>0 DEF TypeOK
  <1>2. CASE r # q
    BY <1>0, <1>2, Others DEF CountOf
  <1>3. CASE r = q /\ dir[r] = "in" /\ counts' = counts
    <2>1. \/ \E m : Entering(r, m) /\ GoIn(r)
          \/ InHandler(r) /\ UNCHANGED <<at, dir>>
          \/ InHandler(r) /\ GoOut(r)
      BY <1>3 DEF Step, EnterRequestID, EnterRecoverer, EnterMetrics, SkipLogger, EnterLogger,
         HandlerStep, ReadBody, WriteStatus, ReportError, Return, Panic, PassOut, LeaveRecoverer,
         LeaveMetrics, RecoverInLogger, Record, PutEntry, End, Leaving
    <2>2. ~Left(r, "metrics")' /\ dir'[r] \in {"in", "out"}
      <3>1. CASE \E m : Entering(r, m) /\ GoIn(r)
        BY <1>0, <3>1, EnterMove
      <3>2. CASE InHandler(r) /\ UNCHANGED <<at, dir>>
        BY <3>2 DEF Left, InHandler
      <3>3. CASE InHandler(r) /\ GoOut(r)
        BY <1>0, <3>3, ReturnMove
      <3> QED
        BY <2>1, <3>1, <3>2, <3>3
    <2> QED
      BY <1>0, <1>3, <2>2, NothingYet DEF CountOf
  <1>4. CASE r = q /\ PassOut(r)
    <2>1. PICK m : Leaving(r, m) /\ GoOut(r) /\ m # "metrics"
      BY <1>4 DEF PassOut
    <2>2. UNCHANGED <<panic, raised, hdr, counts>>
      BY <1>4 DEF PassOut, logVars
    <2>3. Left(r, "metrics")' <=> Left(r, "metrics")
      BY <1>0, <2>1, LeaveMove
    <2>4. dir'[r] = "out"
      BY <1>0, <2>1, LeaveMove
    <2> QED
      BY <1>0, <2>2, <2>3, <2>4 DEF CountOf, LoggedStatus
  <1>5. CASE r = q /\ LeaveMetrics(r)
    <2>1. Leaving(r, "metrics") /\ GoOut(r) /\ UNCHANGED <<panic, raised, hdr>>
      BY <1>5 DEF LeaveMetrics
    <2>2. Left(r, "metrics")' /\ ~Left(r, "metrics") /\ dir'[r] = "out"
      BY <1>0, <2>1, LeaveMove
    <2>3. counts'[r] = IF panic[r] = "none" THEN hdr[r] ELSE counts[r]
      BY <1>1, <1>5 DEF LeaveMetrics
    <2>4. raised[r] = "none" => panic[r] = "none"
      BY <1>0 DEF PanicOf
    <2>5. CASE panic[r] = "none"
      <3>1. counts'[r] = hdr[r] /\ hdr[r] \in {0} \cup 200..599
        BY <1>1, <2>3, <2>5
      <3>2. LoggedStatus(r)' = Counted(counts'[r]) /\ counts'[r] >= 0
        BY <2>1, <3>1 DEF LoggedStatus, Counted
      <3> QED
        BY <2>1, <2>2, <2>5, <3>2 DEF CountOf
    <2>6. CASE panic[r] # "none"
      BY <1>0, <2>1, <2>2, <2>3, <2>4, <2>6 DEF CountOf
    <2> QED
      BY <2>5, <2>6
  <1>6. CASE r = q /\ LeaveRecoverer(r)
    <2>1. Leaving(r, "recoverer") /\ GoOut(r) /\ UNCHANGED <<raised, counts>>
      BY <1>6 DEF LeaveRecoverer, logVars
    <2>2. (Left(r, "metrics")' <=> Left(r, "metrics")) /\ dir'[r] = "out"
      BY <1>0, <2>1, LeaveMove
    <2>3. panic[r] = "none" => UNCHANGED <<panic, hdr>>
      BY <1>6 DEF LeaveRecoverer
    <2> QED
      BY <1>0, <2>1, <2>2, <2>3 DEF CountOf, LoggedStatus
  <1>7. CASE r = q /\ RecoverInLogger(r)
    <2>1. Leaving(r, "logger") /\ Stage(r, "record") /\ UNCHANGED <<panic, raised, counts>>
      BY <1>7 DEF RecoverInLogger
    <2>2. (Left(r, "metrics")' <=> Left(r, "metrics")) /\ dir'[r] = "record"
      BY <1>0, <2>1, StageMove DEF Leaving
    <2>3. panic[r] = "none" => hdr' = hdr
      BY <1>7 DEF RecoverInLogger
    <2> QED
      BY <1>0, <2>1, <2>2, <2>3 DEF CountOf, LoggedStatus
  <1>8. CASE r = q /\ Record(r)
    <2>1. dir[r] = "record" /\ Stage(r, "put") /\ UNCHANGED <<panic, raised, hdr, counts>>
      BY <1>8 DEF Record
    <2>2. (Left(r, "metrics")' <=> Left(r, "metrics")) /\ dir'[r] = "put"
      BY <1>0, <2>1, StageMove
    <2> QED
      BY <1>0, <2>1, <2>2 DEF CountOf, LoggedStatus
  <1>9. CASE r = q /\ PutEntry(r)
    <2>1. dir[r] = "put" /\ GoOut(r) /\ UNCHANGED <<raised, hdr, counts>>
      BY <1>9 DEF PutEntry
    <2>2. Left(r, "metrics")' <=> Left(r, "metrics")
      BY <1>0, <2>1, LeaveMove
    <2>3. dir'[r] = "out"
      BY <1>0, <2>1, LeaveMove
    <2>4. panic[r] = "none" => panic'[r] = "none"
      BY <1>1, <1>9 DEF PutEntry
    <2> QED
      BY <1>0, <2>1, <2>2, <2>3, <2>4 DEF CountOf, LoggedStatus
  <1>10. CASE r = q /\ End(r)
    <2>1. dir[r] = "out" /\ Stage(r, "ended") /\ UNCHANGED <<panic, raised, counts>>
      BY <1>10 DEF End, logVars
    <2>2. Left(r, "metrics")' <=> Left(r, "metrics")
      BY <1>0, <2>1, StageMove
    <2>3. /\ LoggedStatus(r)' = LoggedStatus(r)
          /\ panic[r] = "none" => hdr'[r] # 0
      BY <1>1, <1>10 DEF End, WriteHeader, LoggedStatus
    <2> QED
      BY <1>0, <2>1, <2>2, <2>3 DEF CountOf
  <1> QED
    BY <1>2, <1>3, <1>4, <1>5, <1>6, <1>7, <1>8, <1>9, <1>10
    DEF Step, EnterRequestID, EnterRecoverer, EnterMetrics, SkipLogger, EnterLogger,
       HandlerStep, ReadBody, WriteStatus, ReportError, Return, Panic, Entering, InHandler, logVars

\* The strengthened invariant is inductive.
LEMMA StepIInv == IInv /\ [Next]_vars => IInv'
  <1> SUFFICES ASSUME IInv, [Next]_vars PROVE IInv'
    OBVIOUS
  <1>1. CASE Next
    <2>1. PICK r \in Requests : setup' = setup /\ Step(r)
      BY <1>1 DEF Next
    <2>2. TypeOK /\ PlaceInv /\ PoolInv /\ PanicInv /\ IdInv
      BY DEF IInv
    <2> QED
      BY <2>1, <2>2, TypeStep, PlaceStep, PoolStep, PanicStep, IdStep, RecordStep, CountStep DEF IInv
  <1>2. CASE UNCHANGED vars
    <2> USE <1>2 DEF vars
    <2>1. TypeOK'
      BY DEF IInv, TypeOK, Handler, Chain
    <2>2. /\ PlaceInv' /\ PoolInv' /\ PanicInv' /\ IdInv'
      BY DEF IInv, PlaceInv, PlaceOf, PoolInv, EntryOf, PanicInv, PanicOf, IdInv, Inside, Left,
         Logging, Chain, RecoverPanics
    <2>3. /\ RecordInv' /\ CountInv'
      BY DEF IInv, RecordInv, RecordOf, CountInv, CountOf, Left, Chain, Decided, Seen, Dropped,
         Leveler, LoggedStatus, SkipPost, MinLevel
    <2> QED
      BY <2>1, <2>2, <2>3 DEF IInv
  <1> QED
    BY <1>1, <1>2

-----------------------------------------------------------------------------
(* The theorems.                                                           *)

\* In every behaviour the requests, the pool, the records and the counts agree
\* on where each request is and on what has been decided about it.
THEOREM Invariance == Spec => []IInv
  BY InitIInv, StepIInv, PTL DEF Spec

\* Every variable keeps its type; in particular no request leaves the chain.
THEOREM TypeCorrect == Spec => []TypeOK
  <1>1. IInv => TypeOK
    BY DEF IInv
  <1> QED
    BY Invariance, <1>1, PTL

\* No two requests hold the same log entry, none holds an entry that is in the
\* pool, and a record has no other request's data in it: the pool of
\* UseStructuredLogger hands every entry to one request at a time.
THEOREM EntriesExclusive == Spec => []EntryExclusive
  <1>1. IInv => EntryExclusive
    BY DEF IInv, PoolInv, EntryOf, RecordInv, RecordOf, EntryExclusive, TypeOK
  <1> QED
    BY Invariance, <1>1, PTL

\* A request that has ended is inside nothing and has left the whole chain.
LEMMA EndedFacts ==
    ASSUME IInv, NEW r \in Requests, Ended(r)
    PROVE  /\ \A m : ~Inside(r, m)
           /\ \A m : Left(r, m) <=> \E i \in DOMAIN Chain : Chain[i] = m
  <1>1. dir[r] = "ended" /\ at[r] = 0 /\ DOMAIN Chain = 1..Len(Chain) /\ Len(Chain) \in Nat
    BY ChainFacts DEF IInv, PlaceInv, PlaceOf, Ended
  <1> QED
    BY <1>1 DEF Inside, Left

\* A request that has ended holds no log entry, however its handler ended.
THEOREM AllEntriesReturned == Spec => []EntriesReturned
  <1>1. IInv => EntriesReturned
    BY EndedFacts DEF IInv, PoolInv, EntryOf, EntriesReturned
  <1> QED
    BY Invariance, <1>1, PTL

\* http.ErrAbortHandler reaches net/http through every chain of middleware; any
\* other panic only where no recovering logger and no recoverer is installed,
\* or where the code lets it through.
THEOREM PanicsEnd == Spec => []PanicsEndWhereTheyShould
  <1>1. ASSUME IInv, NEW r \in Requests, Ended(r)
        PROVE  /\ raised[r] = "abort" => panic[r] = "abort"
               /\ panic[r] = "value" => ~HasRecoverer /\ (HasLogger => ~RecoverPanics \/ r \in skipped)
               /\ panic[r] = "wrapped" => ~HasLogger \/ ~RecoverPanics \/ r \in skipped
    <2>1. PanicOf(r)
      BY <1>1 DEF IInv, PanicInv
    <2>2. (HasLogger <=> Left(r, "logger")) /\ (HasRecoverer <=> Left(r, "recoverer"))
      BY <1>1, EndedFacts DEF HasLogger, HasRecoverer
    <2> QED
      BY <2>1, <2>2 DEF PanicOf
  <1>2. IInv => PanicsEndWhereTheyShould
    BY <1>1 DEF PanicsEndWhereTheyShould
  <1> QED
    BY Invariance, <1>2, PTL

\* The status of a record is the status the client got, and the record says
\* whether an error was reported, for requests that ended without a panic.
THEOREM RecordsMatch == Spec => []RecordMatchesResponse
  <1>1. ASSUME IInv, NEW x \in records, Ended(x.req), panic[x.req] = "none", x.req \notin rethrow
        PROVE  x.status = hdr[x.req] /\ x.err = (x.req \in attrs)
    <2>1. x.req \in Requests
      BY <1>1 DEF IInv, TypeOK
    <2>2. RecordOf(x.req) /\ CountOf(x.req)
      BY <1>1, <2>1 DEF IInv, RecordInv, CountInv
    <2> QED
      BY <1>1, <2>2 DEF RecordOf, CountOf, Ended, LoggedStatus
  <1>2. IInv => RecordMatchesResponse
    BY <1>1 DEF RecordMatchesResponse
  <1> QED
    BY Invariance, <1>2, PTL

\* A set whose members are all equal has at most one.
LEMMA AtMostOne ==
    ASSUME NEW S, \A x, y \in S : x = y
    PROVE  Cardinality(S) <= 1
  <1>1. CASE S = {}
    BY <1>1, FS_EmptySet
  <1>2. CASE S # {}
    <2>1. PICK x \in S : S = {x}
      BY <1>2
    <2> QED
      BY <2>1, FS_Singleton
  <1> QED
    BY <1>1, <1>2

\* A logged request has one record or a status that is not to be logged, and a
\* generated id in a record belongs to one request.
THEOREM OneRecordEach == Spec => []OneRecordPerRequest
  <1>1. ASSUME IInv, NEW r \in Requests
        PROVE  LET mine == {x \in records : x.req = r}
                   seen == {LoggedStatus(r)} \cup (IF r \in rethrow THEN {200} ELSE {})
               IN  /\ Cardinality(mine) <= 1
                   /\ (Ended(r) /\ HasLogger /\ r \notin skipped) =>
                         (mine = {} => \E s \in seen : s \in SkipPost \/ Leveler(r, s) < MinLevel)
                   /\ \A x \in mine, y \in records : (x.id # 0 /\ x.id = y.id) => y.req = r
    <2> DEFINE mine == {x \in records : x.req = r}
    <2>1. RecordOf(r) /\ (Ended(r) => (HasLogger <=> Left(r, "logger")))
      BY <1>1, EndedFacts DEF IInv, RecordInv, HasLogger
    <2>2. Cardinality(mine) <= 1
      <3>1. \A x, y \in mine : x = y
        BY <2>1 DEF RecordOf
      <3> QED
        BY <3>1, AtMostOne
    <2>3. (Ended(r) /\ HasLogger /\ r \notin skipped /\ mine = {}) => \E s \in Seen(r) : Dropped(r, s)
      BY <2>1 DEF RecordOf, Decided
    <2>4. ASSUME NEW x \in mine, NEW y \in records, x.id # 0, x.id = y.id PROVE y.req = r
      <3>1. y.req \in Requests /\ RecordOf(y.req)
        BY <1>1 DEF IInv, TypeOK, RecordInv
      <3>2. x.id = id[r] /\ y.id = id[y.req]
        BY <2>1, <3>1 DEF RecordOf
      <3> QED
        BY <1>1, <2>4, <3>1, <3>2 DEF IInv, IdInv
    <2> QED
      BY <2>2, <2>3, <2>4 DEF Seen, Dropped
  <1>2. IInv => OneRecordPerRequest
    BY <1>1 DEF OneRecordPerRequest
  <1> QED
    BY Invariance, <1>2, PTL

\* UsePrometheus counts a request under the status the client gets and the
\* record shows, and every request whose handler did not panic.
THEOREM CountsMatch == Spec => []CountsAgree
  <1>1. ASSUME IInv, HasMetrics, NEW r \in Requests, Ended(r)
        PROVE  /\ raised[r] = "none" => counts[r] >= 0
               /\ counts[r] >= 0 =>
                    /\ panic[r] = "none" /\ Counted(counts[r]) = hdr[r]
                    /\ r \notin rethrow => \A x \in records : x.req = r => x.status = Counted(counts[r])
    <2>1. CountOf(r) /\ RecordOf(r) /\ Left(r, "metrics")
      BY <1>1, EndedFacts DEF IInv, CountInv, RecordInv, HasMetrics
    <2>2. raised[r] = "none" => counts[r] >= 0
      BY <2>1 DEF CountOf
    <2>3. ASSUME counts[r] >= 0
          PROVE  /\ panic[r] = "none" /\ Counted(counts[r]) = hdr[r]
                 /\ Counted(counts[r]) = LoggedStatus(r)
      BY <1>1, <2>1, <2>3 DEF CountOf, Ended, LoggedStatus
    <2> QED
      BY <2>1, <2>2, <2>3 DEF RecordOf
  <1>2. IInv => CountsAgree
    BY <1>1 DEF CountsAgree, Counted
  <1> QED
    BY Invariance, <1>2, PTL
=============================================================================
