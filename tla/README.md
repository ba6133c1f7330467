# A TLA+ model of chix

chix is a library of HTTP middleware and helpers for Go services built on the chi
router: a server with graceful shutdown, an error type with resolvers and
masking, a structured access log with panic recovery, request ids, body limits
and binding, redirects and sign-in over cookies, static files, and a number of
stateless middleware. This directory holds TLA+ modules that model the parts of
it that keep state or run concurrently, TLC configurations that check them on
small instances, and TLAPS proofs about the server, the pipeline, error handling,
log attributes, configs, bodies, sign-in, static files and the edge.

Paths such as `errors.go:314` are relative to `src/`. `PROJECT.json` maps every
definition to the lines it stands for, and lists runs, mutants, hazards and
theorems. chi, net/http, the goth library, encoders and the Go runtime are not in
the repository; what the code needs of them is modelled and marked `external`
there.

To run a check: `tlc -config MCGracefulServer.cfg MCGracefulServer`; the proofs:
`tlapm GracefulServerProofs.tla`, and so on (`RequestBodyProofs` takes five minutes).

## The system

| component | state it keeps | operations | talks to |
|---|---|---|---|
| Server lifecycle (`server.go`) | the caller's `*http.Server`, an unbuffered error channel, two contexts | `NewServer[WithoutDefaults]`, `withGracefulShutdown` | net/http; one goroutine; the owner's ctx |
| Error handling (`errors.go`, `render.go`, `json*.go`) | `*ResolvedError` values (perhaps shared), the response | `Error`, `IfError`, `ErrorWithCode`, resolvers, `DefaultErrorHandler`, `JSON` | config (resolvers, masking), log attributes, JSON fallback back into `Error` |
| Request pipeline (`logger.go`, `request_id.go`, `UseRecoverer`) | pool of log entries, id counter, the panic that unwinds | `UseRequestID`, `UseStructuredLogger`, `UseRecoverer` | nested around the handler; reads what error handling logged |
| Log attributes (`logger.go`) | a slice behind a pointer in the request context | `AppendLogAttrs`, `GetLogAttrs`, `SetLogError`, `Log*` | any goroutine of a handler; the access record |
| Body capture (`internal/logging/limitedbuffer.go`, `logger.go`) | two bounded buffers in a pool entry | `LimitedBuffer.Write`, the tees, the drain after the handler | the limits around and inside of it, whoever reads the body or writes the response |
| Configuration (`config.go`) | values with a slice of resolvers | `NewConfig`, `Clone`, `Set*`, `Add*`, `Use` | everything that looks up the config in a context |
| Body limits, binding (`bodylimit.go`, `bind.go`) | a marker in the context, nested MaxBytesReaders, the parsed form | `UseMaxBodyBytes`, `Bind`, `DecodeJSON` | config, error resolvers (413) |
| Redirects and sign-in (`redirect.go`, `xauth/`) | cookies: next target and session; auth in the context | `UseNextURL`, `SecureRedirect[OrNext]`, goth handlers, basic auth, `UseAuthContext` | the browser, the provider, the service's lookup |
| Static files (`static.go`) | a file system somebody else changes | `StaticConfig.Validate`, `UseStatic` | http.FileServer, which opens the file again |
| Real IP (`realip.go`) | the validated config | `FromStringOpts`, `Validate`, header parsers, `UseRealIP`, `UsePrivateIP` | proxies that add headers; everything that looks at `RemoteAddr` |
| CORS and cross-origin protection (`security.go`, `internal/text/glob.go`) | the validated config | `UseCrossOriginProtection`, `UseCrossOriginResourceSharing`, `Glob` | browsers that store preflight results, shared caches, error handling |
| Metrics (`xmetrics/prometheus.go`) | a pool of label maps | `UsePrometheus` | the chain around it, above all panics |
| Simple middleware (`simple.go`), security and robots texts, log schemas and attribute grouping, text helpers, code generator (`cmd/codegen`) | none of their own | one decision on one request, or a pure function | |

A request enters the middleware (ids, log, recoverer, limits, next URL, auth) in
the order the owner chose; the handler calls error handling, binding and the
responders; those add to the log attributes and write the response; on the way
out the logger reads the attributes, the status and the captured bodies and
gives its pool entry back. The server runs that for each connection until its
context ends. Configs are values in the context of each request.

What makes these hard to test:

- **Server**: ctx, the goroutine, the deadline, clients and handlers all race;
  `select` picks any ready branch; connections are accepted while Shutdown
  begins; the owner's `srv` is rewritten and may be started twice.
- **Errors**: the error is masked *in place* after it was logged, and the value
  may be shared by requests; an encoder fails after the status line went out.
- **Pipeline**: deferred functions with several early exits, panics that are
  raised again, and a pool shared by all requests.
- **Log attributes, configuration**: Go slices that share a backing array.
- **Bodies**: five places install or check a limit, with different errors; the
  log copies the body between them through a Write that returns more than it was
  given; the encoder of the answer may parse the body once more, and the drain
  goes past the limits inside the logger.
- **The edge**: nothing is kept by the server, but browsers and shared caches keep
  what it has answered, and proxies rewrite what it decides by.
- **Sign-in**: tabs share one cookie jar, their requests and responses cross, and
  the session is a cookie, so an older one can come back.
- **Static files**: two opens of a file while a deployment goes on.

Each such place is an entry under `hazards` in `PROJECT.json`, with the
properties that would notice it going wrong, or why none does.

## Modules

| module | models | composes / used by |
|---|---|---|
| `ServerLifecycle` | what a graceful server promises: phases, requests in progress, the deadline | implemented by `GracefulServer` |
| `GracefulServer` | `server.go` with its goroutine and connections | INSTANCE `ServerLifecycle` |
| `GracefulServerProofs`, `ErrorHandlingProofs`, `RequestPipelineProofs`, `RequestBodyProofs`, `SignInProofs`, `StaticFilesProofs`, `EdgeProofs` | theorems about the module each is named after | EXTENDS it and TLAPS |
| `SliceProofs` | lemmas about `GoSlices` and theorems about both modules that use it | EXTENDS `LogAttrs`, `ConfigChain` and TLAPS |
| `ErrorHandling` | `errors.go`, `render.go`, JSON fallback | |
| `RequestPipeline` | ids, access log, recoverer, metrics around a handler | |
| `GoSlices` | append, clip and copy of slices on shared arrays | `ConfigChain`, `LogAttrs` |
| `ConfigChain` | `config.go` | EXTENDS `GoSlices` |
| `LogAttrs` | the attributes of one request at the grain of single accesses | EXTENDS `GoSlices` |
| `LimitedBuffer` | the buffer that keeps a body for the log | |
| `RequestBody` | limits, the copy for the log, `Bind`, decoding, the answer and the drain | EXTENDS `LimitedBuffer` |
| `RealIP` | `realip.go` as operators | |
| `CrossOrigin` | `security.go` and `Glob` as operators | |
| `Edge` | browsers, proxies and a shared cache around a server with both | EXTENDS `RealIP`, `CrossOrigin` |
| `SignIn` | next cookie, sign-in, sign-out, auth context | |
| `StaticFiles` | `UseStatic` over a changing file system | |
| `MC*` | constants for TLC | |

How state and actions correspond to the code:

**GracefulServer.** `mainPC` is where the caller is: before the call, in the
`select`, at or inside `srv.Shutdown` (its three stages are external), returned.
`goPC` is the goroutine; `"sending"` is the blocked `errc <-`. `SelectErrc` is
the rendezvous on the unbuffered channel, so send and receive are one step.
`srv` are the limit fields `NewServer` overwrites in place, `asked` what the owner
had put there. `Retry` starts the same `srv` again after an error. `Accept` is
allowed after `inShutdown` until Serve has returned, as in net/http. `GiveUp`
is a handler that stops because its request context ended: with its connection,
or with an owner's `BaseContext` that follows ctx.

**ErrorHandling.** A request's `pc` walks through `Error`: cases on the number of
non-nil errors, resolvers in order, `SetLogError`, the handler, masking, JSON or
plain text. `cur` says whether `resolved` points at a value of its own or at a
shared one in `heap`: that is how masking in place reaches other requests.
`depth` bounds the recursion of JSON into Error (`MaxNesting`). An error is the set
of the messages `errors.Is` finds in it: the empty set is nil, a wrapped or joined
error has several. `One` and `Only` are the case of `Error` with a single non-nil
argument, whatever nils stand around it.

**RequestPipeline.** `setup` is one program: its chain of middleware and its
LogConfig. `at` is the position in the chain and `dir` the direction; the
logger's deferred function is split into stages (recover, record, panic again,
put back) because other requests run between them. `used` records whose data
an entry holds, so that a pool mistake shows up as a foreign request in a record.
`LeaveMetrics` counts what returns; a panic goes past it.

**GoSlices, ConfigChain, LogAttrs.** A slice is an array, a length and a capacity
into it; `append` writes the spare cells if there are enough and otherwise takes
a new array. The arguments of `SetErrorResolvers`, whose slice the config keeps, are given
one by one: a slice that the program passes with `...` and changes later is not
modelled. `LogAttrs` splits every call into the write to the array and the
store or emit that follows. Two *appends* of one request happen in an order the
program fixes, because AppendLogAttrs is not synchronised and racing it is
outside its contract, and the program keeps an append apart from every other call in
the same way. Calls of `Log`, which look read-only, may cross each other. Nothing in
`logger.go` enforces that order: the guards on `appending` are an assumption about
the program.

**RequestBody, LimitedBuffer.** A body is a length. `readers` are the
MaxBytesReaders and the tee around it in the order they were installed, `marker`
the context value that decides whether another limit is added. `Answer` hands
one read up through all readers: each may change the count and the error, which
is how the log buffer's `io.EOF` reaches the handler and hides an overflow. The
caller chooses its room at each read, so every division into reads occurs that
differs. `Drain` reads through the readers up to the tee only, because its `r` is
the request the logger was given. `ReadForm` is `r.FormValue("pretty")` of the JSON
encoders: it parses a form nobody has parsed. `stray` counts bytes a reader was
told of that are not there. The decoder is that of `json_v1.go`, the encoder that
of either build (`Direct`); the one of `json_v2.go` stops at the end of the body,
which is the case where the value ends there. `Closed` is what is left for a second
Bind of the `r.Body.Close()` that the decoder defers: a closed body gives nothing more,
but the logger's is an `io.NopCloser`.

**RealIP, CrossOrigin, Edge.** The first two are operators: a config is built,
validated and applied to one request. An origin is a sequence of tokens, so that
`Glob` works on it as on a string. In `Edge` a set-up is one program together with
what its owner means by it (`trusts`, `partners`, `open`); the properties compare
what clients get with that, not with the config. Proxies, browsers (preflight,
CORS check, stored preflight results) and the cache (Vary) are external and
follow the Fetch standard. A proxy appends to the one X-Forwarded-For line it gets:
`headers.Get` reads the first line only, and proxies that add a line of their own
are not modelled.

**SignIn.** `jar` is the browser's cookies; a step of a tab handles its request
and puts the answer on the way, another applies it to the jar, so tabs cross.
A target is a record of scheme, host and page; `Lossy` are pages whose name a
cookie value cannot hold, which `http.SetCookie` drops bytes of. A `Logout` whose
session could not be cleared sends the client on like any other, since the error is
dropped.

**StaticFiles.** `Open`, `Stat` and the FileServer's own open are steps;
`Deploy` changes the tree in between. `PathValid` says whether `fs.Sub` takes the
configured path. Whether the file opened for the look is closed again is not modelled
(see the differences below).

## Runs

Every passing run is exhaustive within its bounds, and for each property
`PROJECT.json` names a mutant (a plausible bug in a mapped definition) with
which the same run fails. `TypeOK` is stated in every module with variables; it is
a property of the run `server`; a theorem of each proof module proves it.

| run | question | bounds, and why they suffice |
|---|---|---|
| `server` | Does a cancelled server drain, return, stay silent afterwards, say nil only when it was shut down, keep its limits, and implement `ServerLifecycle`? Under fairness. | 2 connections (one that drains while another does not), TLS (the branch with more failures), limits -1 and 0 (off, unset), 2 starts of one `srv`. The safety properties are proved for all values. |
| `errors` | Is all that is private kept from the client and all else shown, is the cause logged and the status right, for every kind of call, when two requests share an error? | 2 requests, 2 shared `*ResolvedError`s (one with `Err`, one with several `Errs`, a too large one among them), errors of all kinds (plain, exposed, hidden, too large, the encoder's), 2 resolvers, an encoder that fails on values; nesting 2. |
| `exposable` *(violation)* | Does an error that says it is public get shown? | one request, one error |
| `pipeline` | Do requests keep to their own pool entry, give it back, log once and rightly, do panics end where they should, and do the metrics agree with the log? | 2 requests, 2 entries (so that reuse and concurrent use both occur), the chains the docs and examples show, the metrics on either side of the logger, OPTIONS and upgrade requests, one skipped status |
| `config` | Is a config only ever overwritten by a fork, and does the 413 resolver stay first? | 6 configs, 2 resolvers, 1 added at a time: enough for an array to be filled, grown and shared again, and for a config that was overwritten to be grown into a new array |
| `config_forks` *(violation)* | Does a config keep what it was built to hold? | 5 configs |
| `log_attrs` | Are records exact, although all calls append to one array? | 2 goroutines, 6 calls: the array grows from 1 to 2 to 4 cells and has spare room twice |
| `request_body` | Does the stricter limit win, is nothing beyond it read, does a call whose read ran into a limit report it, always as 413, is a body that fits never refused, an accepted form whole, is the logged body a prefix of what went by, and is logging harmless where it fits? | up to 2 limits of -1, 2, 4 on either side of the logger, config limit 0 and 3, log size 3, none and off, bodies below, at and above each of them, every content type and call, reads of 1 and 8 |
| `sign_in` | Do redirects stay on the site, is a stored target used once, does the right one get used, and is the identity one the service accepted? | 2 tabs, 3 targets (relative, own, foreign; one lossy), 1 user, string ids, TLS |
| `tee_reads` *(violation)* | Does logging leave the body the handler reads alone? | one request |
| `static_spa` | Does a single page application answer each route with its page, and list a directory, or say "not found" of what is there, only if a deployment falls between the opens? | one request, 5 paths of all kinds, 2 changes of the tree while it is answered, from 16 trees |
| `edge` | Is the address the one next to the trusted proxies, may a script read only what the owner allows, does what is allowed succeed whatever caches hold, and do unsafe methods reach the handler only from trusted pages? | 73 set-ups: the option words in eight combinations, with and without `UsePrivateIP`, each with up to 9 ways to the server, and three that do not start; 10 CORS and protection configs with 2 to 5 pages (an old browser's page of the own host under http among them) that share one cache and one browser, 4 fetches in all (two of one page and two of another suffice for one to see what the other left behind) |

`CHECK_DEADLOCK FALSE` stands where a request, a call or a bounded history really
ends (an answered request, a last fetch, the last start); `sign_in` never stops and is
checked for deadlock.

The bounds that cap something unbounded are `MaxStarts`, `MaxNesting`, `MaxOps`,
`MaxConfigs`, `MaxAdd`, `MaxChain`, `MaxChanges`, `MaxFetches`; each is a
constant and a guard. Symmetry is used only in runs without liveness.

### Fairness

Only `server` has liveness properties. `Fairness` assumes what the Go scheduler
and the clock give: each goroutine that can run does (weak fairness on the
caller's step, on Listen and Serve, on Serve's return once the listener is
closed), and the 60 seconds pass (`Expire`). Nothing obliges a handler to
finish, a client to leave or a working listener to fail. The deadline case in
Shutdown's loop competes with the ticker: when both are ready Go picks either,
and each turn of the loop offers the deadline again, hence strong fairness for
`DeadlineExceeded`. `CancelReturns` says that the call comes back even if a
handler never does; it needs the deadline, and fails without it.

## Proofs

For a module `M` with theorems, `MProofs` EXTENDS `M` and TLAPS; `SliceProofs` is about
`LogAttrs` and `ConfigChain`, which share the lemmas on `append`. Each proves that an
invariant is inductive (theorem `Invariance`, `ConfigInvariance`, `EdgeInvariance`), with
one lemma per action of `Next` or, in `EdgeProofs`, one per part of the invariant, and
derives the safety properties from it; type correctness is always among them. The
theorems hold for every value of the constants that the `ASSUME`s of `M` admit: sets
of requests, pools, targets or files need not be finite, and bounds such as
`MaxStarts` or `MaxNesting` are any number. Each `IInv` was checked
with TLC on a small instance before it was proved. All 36 invariants of the passing
runs and one of their four temporal properties are theorems.

| module | theorem: property | under |
|---|---|---|
| `GracefulServerProofs` | `GracefulReturnHolds`, `NilMeansShutdownHolds`, `LeakOnlyOnCancelHolds`, `NoSilentUnlimitedHolds`, `NothingAfterReturnHolds`: the property each is named after; `ImplementsLifecycle`: the safety part of `ServerLifecycle` | the switches are Booleans, limits integers, the default limit positive |
| `RequestPipelineProofs` | `EntriesExclusive`: `EntryExclusive`; `AllEntriesReturned`: `EntriesReturned`; `PanicsEnd`: `PanicsEndWhereTheyShould`; `RecordsMatch`: `RecordMatchesResponse`; `OneRecordEach`: `OneRecordPerRequest`; `CountsMatch`: `CountsAgree` | a middleware is in a chain once |
| `ErrorHandlingProofs` | `PrivateMasked`: `PrivateErrorsMasked`; `PublicShown`: `PublicErrorsShown`; `CauseIsLogged`: `CauseLogged`; `StatusAgreement`: `StatusAgrees`; `OversizedIs413`: `TooLargeIs413` | the last only with `DefaultFirst`, see below |
| `SliceProofs` | `RecordsAreExact`: `RecordsExact`; `OnlyForksOverwrite`: `ForksOnly` | what stands for an unused cell is no resolver |
| `RequestBodyProofs` | `StricterAlwaysWins`: `StricterWins`; `LimitsHold`: `ReadWithinLimits`; `OverflowsAreReported`: `OverflowIs413`; `FittingAccepted`: `FittingNeverRejected`; `AcceptedFormsWhole`: `AcceptedFormIsWhole`; `BuffersHoldPrefixes`: `BufferIsPrefix`; `SmallBodiesAsTheyAre`: `SmallBodiesUndisturbed` | sizes are natural, limits integers, the mark of the log is not empty |
| `SignInProofs` | `StaysHome`: `RedirectsStayHome`; `UsedOnce`: `NextUsedOnce`; `ReturnsToLast`: `ReturnsToLastNext`; `Identified`: `IdentitySignedIn` | the last only with `ZeroIsNobody`, see below |
| `StaticFilesProofs` | `RoutesServed`: `RoutesGetThePage`; `ListsInAGap`: `ListingsNeedAGap`; `FallsBackUnlessInAGap`: `NotFoundNeedsAGap` | the root is a directory in every tree |
| `EdgeProofs` | `AddressIsNearestUntrusted`: `NearestUntrusted`; `ReadsAreAllowed`: `ReadOnlyIfAllowed`; `AllowedIsRead`: `AllowedFetchSucceeds`; `UnsafeIsTrusted`: `UnsafeOnlyIfTrusted` | `ClientAssumption`, `SetupAssumption`: what browsers and proxies tell, and that a config says what its owner means |

Two theorems have a hypothesis of their own. `OversizedIs413` assumes
`DefaultFirst`: the body-limit resolver is the first, as `NewConfig` puts it
(`config.go:41`) and `AddErrorResolvers` leaves it; with another one in front of it
(`SetErrorResolvers`) the status is that one's. `Identified` assumes `ZeroIsNobody`:
for the ID types uint, uint16 and uint32, which `getAuthIDFromSession` turns into 0
whatever the session says, no user has the id 0.

The assumptions of `Edge` are the other side of its properties, which compare what
clients get with what the owner *means*. `MeansAddresses` asks that the trusted proxies
are those the option words name, that one of the headers in use reaches the server, and
that the first trusted proxy of a chain sets X-Real-Ip and its like, if anybody does.
`MeansOrigins` asks that the origins, or the function, of the CORS config allow the
partners and nobody else. `ClientAssumption` gives a browser's page an origin of a
scheme and a host without "*". TLC evaluates all of them for the set-ups of `edge`.

### The inductive invariants

**GracefulServer.** `IInv = TypeOK /\ ControlInv /\ ShutdownInv`. `GracefulReturn` alone is not inductive: nothing in it
says why no connection can open between the last poll and the return.
`ShutdownInv` supplies the chain: from "waiting" on `inShutdown` is set; from
"polling" on no Serve is running (and none can start again, because Serve
and Listen look at the flag); so once a poll has found no active connection all
are closed and Accept is disabled. `ControlInv` ties what the call returned to
the branch it took: an error arrives only from a goroutine that is done, and
the ctx branch is taken only with ctx cancelled. `NoSilentUnlimited` needs its own
strengthening, `LimitsInv`: a negative limit in `srv` is always one the owner
asked for, which is what makes the second start of a rewritten `srv` safe
(there 0 stands for "unset", so an owner's -1 comes back as the default, which
is a limit and hence not a violation). For the refinement every step is mapped to
a lifecycle step or a stutter under `Phase`, `Active`, `expired`.

**RequestPipeline.** `PlaceInv` says where a request may be in its chain: the stages
of the logger's deferred function occur only at the logger. `PoolInv` makes pool and
requests share the entries out: an entry is free or with one request, and what it
holds is that request's. `PanicInv` tells a panic by who has seen it on its way out:
an ordinary one does not get past a recoverer, and past a logger that recovers only as
an abort or from a request the logger skipped. `IdInv` bounds the ids drawn by the
counter. `RecordInv` compares a record with the response as far as it is decided, and
says why a record is missing; `CountInv` does so for the metrics. The last two need
the order of chain positions (`Inside`, `Left`), because whether somebody sends another
status depends on who is outside.

**ErrorHandling.** `PrivateErrorsMasked`, `PublicErrorsShown` and `CauseLogged` are about
one request and state what it gave in its call; what breaks them is the code on the way
from there (the collecting of codes and marks, the resolvers), or another request that
masks the value they share. `HeapInv` says what
a shared `*ResolvedError` can be: as it was made, filled in, or masked for good by
a request that has reported it alone (as one of several it is copied). `Pointing`
says what a request that works on it finds there at each stage, and `PrivateInv`,
`PublicInv`, `CauseInv`, `TooLargeInv` and `StatusInv` are the five properties, followed from the
start of the call: each names the exception once a second request shares the value.
`Control` bounds the nesting of JSON in Error.

**LogAttrs.** `Holds` says that a slice holds a sequence, whatever else the arrays
contain; the lemmas about `GoSlices` say that an append extends the array it
writes and keeps every cell below the length (`Extends`). `Alone` (the program's order
of appends), `Loaded` and `Appended` carry the slice through the single accesses;
`Logged` is what a crossed call of `Log` still has: every cell but its own.

**ConfigChain.** `ForksOnly` says who may be to blame once a config is overwritten; that
nobody else can be needs, for every config and every array, who has written what.
`Shape` ties the slice of a config to what it was built to hold: same length, and no
array without a resolver in it, so that no append writes a first cell. `Content` says
that each slice holds what it should *or* a fork outside of its line is on record
(`Forked`), and that its first cell is right in any case. One lemma (`DeriveStep`) does
the work: whatever a call writes lies behind the end of its receiver's slice
(`Extends`), so a config that looks there either is in the new config's line, or sees
a fork.

**Edge.** The four properties speak of what a client has in the end; what breaks them
was stored before. `CacheExact`: a response in the cache is what the server answers the
requests it is stored for, which holds because two requests that agree where an answer
varies are answered alike (`KeyFacts`). `PreflightsApproved`: a stored preflight
result says what a preflight would still say. `FetchesApproved`: what is sent after
one, fresh or stored, has headers and a network the server approves of. The rest is
about the operators, for any input: `AddressFacts` (the reversed header, the order of the
headers and the default agree with the nearest untrusted address, where a header tells
it: `Told`), `ConfigNames` (no
sequence of option words names a header without a parser; by the least counterexample, as
induction is out of reach), `TrustedFacts` (origins compare by scheme and host, and
globs trust nobody), `GlobAll` and `GlobExact` (what "*" and a pattern without it match),
`SharedFacts` and `HandlePreflightFacts` (the server's answer passes the browser's check
exactly where the owner allows it).

**RequestBody.** `Got`, what the connection has given, is what the parts are measured
by. `ReaderInv`: a MaxBytesReader outside of the tee has seen every byte (`Got + left =
limit`) or has given up. A reader inside the tee has not: it may be told of bytes
that do not exist; `ClearInv` and `CleanInv` say that it is exact too as long as the log
has not cut the body off. `BufferInv` ties the log buffer to `Got` and the limits
outside of it. `LimitInv` says that each limit on the way is heeded by the marker or
refused the request outright, which with `StricterWins` gives `ReadWithinLimits`.
`CallInv` and `FormInv` follow the result of a call or an incomplete form from the read
to the answer. The heart is one read: what the connection answers (`Conn`) goes up through
the readers, and `Passes` says what the first `i` of them have made of it. That
`Passes` holds for every `i` is an induction over the readers; it is proved from
the least counterexample, since the induction rules of the library cannot be
instantiated. `LimitedBuffer.Write` needs lemmas only, no invariant. `OverflowIs413`
rests on a second invariant, `OverflowInv`, which uses `IInv`: `ReportInv` says that the error
of a limit is the one the last read has ended with, unless the log has hidden it
(`Reported` carries that through the readers), `OutcomeInv` that this end becomes the
result of the call, `CodeInv` which code the result has at each stage and what status
the resolver makes of it.

**SignIn.** `JarInv`: the cookie is the last target the browser asked for.
`AnswerInv`: what a response on its way says of cookie and address, so that crossing
tabs apply only such responses. `SpentInv`: a target that was followed and is still in
the jar is relative, which is the code's exception to using it once. `WhereInv`: tabs
are on this site or at the provider. `IdentInv`: identities in the jar or on the way
were accepted in this browser.

**StaticFiles.** `ProgressOf` says what of the tree was seen by the time a request gets
to a stage (`past` are the trees since it began), `AnswerOf` which tree the answer was
made from.

### What the proofs have changed

- In `ErrorHandling` two cases of `Resolve` overlapped, which leaves the value of a
  CASE open; they exclude each other now. `CauseLogged` for every argument showed that
  a ResolvedError with both `Err` and `Errs` loses one of them (see below).
- `ListingsNeedAGap` allowed less than the code does: it left out the directory that takes
  the place of a file between the opens.
- `RecordsExact` now gives each attribute of the record, in order, where it
  compared sets before.
- The mark of `LimitedBuffer` must not be empty (`TruncSizeAssumption`): with an empty one
  the strict bound in `BufferIsPrefix` is false for a body that fills the log.

- `ForksOnly` was false beyond five configs: its record of a config's line forgot what an
  overwritten config, grown into an array of its own, was derived through. The line is
  now part of the history (`made`), and the run has six configs.
- `UnsafeOnlyIfTrusted` was false for a page that TLC had not been given: in a browser
  without Sec-Fetch-Site only hosts are compared (`security.go:330-337`, where the
  comment says so), so that the http page of the server's own host passes. The property
  names that case, and a page of `edge` takes it.
- `NearestUntrusted` let an entry that is no address decide for configs that read another
  header. It claims the nearest address there, as everywhere that a header tells it
  (`Told`), and `edge` tries both. Where nothing tells, the connection's own address may
  be left, but never one that the client made up.
- `OverflowIs413` was about calls that had *noticed* an overflow. It starts from the
  limit now (a reader that has refused a byte), so that a step which forgets the error
  breaks it, and its two exceptions were found by proving that there are no others.
- What a set-up's owner means was in the choice of the constants of `edge`; it is an
  assumption with a name now, which the theorems cite and TLC evaluates.

### Only model-checked

- Liveness of the server (`CancelReturns`, `FailureReturns`, and with them the
  fairness part of `LifecycleSpec`): liveness under fairness and ENABLED are beyond
  the prover.
- What `Glob` computes for a pattern with "*" between other parts, and what a chain of
  option words adds up to: recursive functions over data. The theorems about `Edge` need
  of them only what `GlobAll`, `GlobExact` and `ConfigNames` say; that a glob matches the
  owner's partners is part of `MeansOrigins`, and TLC evaluates it for the globs of `edge`.

## Where the code and what is said of it differ

Shown by a run:

- `errors.go:55` negates `Public()`, where the comment on the interface (line 47)
  says that `true` means the error may be shown. Run `exposable`. (`PrivateErrorsMasked`
  and `PublicErrorsShown` are stated by marks and status codes; where a Public() method
  is to decide, `ByMethod`, this run has the answer.)
- `config.go:136` appends to a slice shared with the config it was cloned from:
  two configs derived from one may overwrite each other's resolvers, although
  `config.go:133` says the new ones are *added* and `bodylimit_test.go:37` expects
  the original to be left alone. Run `config_forks`; `config` shows that a chain of
  calls is safe.
- `limitedbuffer.go:63` returns the length plus that of the mark, and `io.EOF`,
  where line 46 promises to drop silently; the TeeReader passes both to the
  reader of the body. Run `tee_reads`.

Met while modelling, without a run of their own:

- `errors.go:216-221` builds a new ResolvedError for several errors without their
  visibility: one that is marked as masked is shown among others, against the doc in
  lines 80-82. The properties leave that case out (`MarkedAmong`).
- `config.go:109-111` describes masking of private errors "if enabled"; with the flag off
  `errors.go:313` masks every error, public ones included
  (`!cfg.GetMaskPrivateErrors() || !rerr.Public()`). The properties about
  masking are about the flag being on.
- `bind.go:163-164` says that Bind returns a ResolvedError with 413 on overflow: for an
  urlencoded form 205-212 returns one with 400, and only the default resolver
  makes 413 of it in the answer, which is what `OverflowIs413` asks for.
- `realip.go:34-35` say that X-Forwarded-For is read from its end and that the reading
  stops at an untrusted proxy; 41-43 discard the whole header if any entry is no address.
  A client that claims one is seen under the address of the trusted proxy, and
  `UsePrivateIP` lets it in. `NearestUntrusted` would hold with either reading: without
  `Told` it allows the nearest address as well as the connection's.
- `security.go:272` passes the glob as the input and the *path* of the origin as the
  pattern: no glob rule of UseCrossOriginProtection matches anything, against 231.
- `security.go:327-331` is to let a request pass that has neither header; `url.Parse("")`
  (313) never gives nil, so such a request with an unsafe method is denied.
  (`UnsafeOnlyIfTrusted` bounds what may pass by the rules as they are
  documented, and only for pages of other sites: it holds whether or not the last two
  are mended.)
- `errors.go:314` masks a shared `*ResolvedError` in place, so later requests log
  the status text in place of the cause (`CauseLogged` states the exception).
- `errors.go:137-140` logs the `Errs` of a ResolvedError and not its `Err` when it has both,
  and 214-226 drop the `Errs` of one with an `Err` that is reported among others: the
  part that is left out is neither logged nor looked at by the resolvers (`Mixed`,
  the exception of `CauseLogged` and `TooLargeIs413`).
- `errors.go:192` "Panics if no errors were provided": it also panics where a
  ResolvedError that has only `Errs` is one of several: line 217 takes its nil
  `Err` into the list, and rendering the list calls `Error()` on it.
- `logger.go:133-135` says panics are logged as errors "regardless"; with
  RecoverPanics off a panic is logged with status 200 at INFO level, and a request
  that SkipPre takes out (389-392) is not recovered at all.
- `logger.go:58-63` `Log` appends to the slice in the context without storing the
  result: two overlapping calls write the same spare cell. `RecordsExact` claims
  the own attribute only for calls no other has crossed.
- `redirect.go:22-24` "redirected back to the original destination": `http.SetCookie`
  drops bytes a cookie cannot hold (39-48); and SecureRedirect does not look at
  the cookie (75-122), although "will pick up the url from the cookie".
- `xauth/auth.go:43-45` converts the session to the ID type; for `uint`, `uint16` and
  `uint32` lines 65-72 and 80 yield the zero id.
- `limitedbuffer.go:18-20`: no mark is written when a write has filled the buffer
  exactly and more follows (55-57, 66-68).
- With the encoder of `json_v2.go`, which writes to the response itself, the error
  of the response tee makes JSON append an error body to the body it has sent.
- `bind.go:205`: when a second Bind follows one that failed in ParseForm, r.PostForm is
  set, and the second accepts the part of the form that was read (the exception
  of `AcceptedFormIsWhole`).
- `json_v1.go:30` and `json_v2.go:28` call `r.FormValue` while they encode the answer.
  A form that was rejected for its length (`bodylimit.go:44-46`) has no reader
  around it, and the encoder of that very 413 reads it to its end, although
  `bodylimit.go:113` promises a limit on "the size of every request body" (the
  exception of `ReadWithinLimits`).
- `logger.go:404`: the error of the log buffer replaces the one of the limit below the
  tee, so that an overflow is taken for the end of the body; and its count is
  too large, so that a limit inside the logger may refuse a body that fits
  (the exceptions of `FittingNeverRejected` and `AcceptedFormIsWhole`).
- `logger.go:492` drains the body past the limits installed inside the logger.
- `logger.go:509` appends the grouped attributes to the ungrouped ones: with a schema
  that uses ">" a record has each attribute twice, where `internal/logging/attrs.go:18`
  says that they are replaced.
- `security.go:528-541`: AllowCredentials with all origins allowed answers "*" with
  credentials, which no browser accepts.
- `internal/text/glob.go:35-49` does not cut the prefix off before it looks for the next
  part, so that one piece of the input may serve as both.
- `realip.go:240` says that "cloudflare" uses Cf-Connecting-Ip; with another header
  option given as well 170-172 leave it out.
- `security.go:40-41`, `127-128` set Content-Type after the header was sent; `105-106`
  write Crawl-Delay in milliseconds.
- `static.go:38-39` says that AllowLocal bypasses the provided file system; with one
  provided, `Validate` returns (103-105) before it looks at AllowLocal.
- `static.go:248-251` and `263-267` return without closing the file that 223 opened: when
  Stat fails, and for every request of a directory that has an index.html. With an
  `os.DirFS` each leaves a descriptor to the garbage collector.

## Not modelled

- Simple middleware (`simple.go`): single conditions on one request. Security and
  robots texts: constant answers. Log schemas and attribute grouping: layout of
  records. The code generator: input and output at build time.
- `OverrideContextAuth`, which replaces the identity of a context, the text of XML, CSV and plain bodies, log
  wording, headers other than the ones that decide something,
  Access-Control-Expose-Headers, `UseContextIP`.
- The Prometheus client, the validator and form libraries, net/http, chi and goth
  beyond what the code in `src/` needs of them.
- A resolver with side effects that is called twice by `errors.go:237`, and the caps that
  net/http itself puts on parsed forms (10 MB).

## Plan

Done: server, errors, pipeline with metrics, configuration, log attributes, bodies,
sign-in, static files, the edge, and proofs of every safety property that the passing
runs check. Next:

1. **Prove.** An abstract specification of the pool (`RequestPipeline`) or of a
   bounded reader (`RequestBody`) with a refinement, as for the server.
2. **Extend.** `OverrideContextAuth`, a second SessionStorage in `SignIn`; the grouping of
   attributes as a recursive function in `LogAttrs`.
