--------------------------- MODULE GracefulServer ---------------------------
(***************************************************************************)
(* server.go: NewServer, NewServerWithoutDefaults and withGracefulShutdown *)
(* around one *http.Server that its owner passes in, the goroutine that    *)
(* runs ListenAndServe[TLS], and the connections of that server.           *)
(*                                                                         *)
(* net/http is not part of the repository.  Its steps (Listen, Serve,      *)
(* Accept, Shutdown) are modelled as far as withGracefulShutdown depends   *)
(* on them and are marked external in the project's map.                   *)
(***************************************************************************)
EXTENDS Integers

CONSTANTS
    Conns,          \* connections that clients may open
    UseTLS,         \* certFile and keyFile are both given
    WithDefaults,   \* the entry point is NewServer (else ...WithoutDefaults)
    Limits,         \* values the owner may leave in the limits of srv
    DefaultLimit,   \* what "15 * time.Second" / DefaultMaxHeaderBytes stand for
    MaxStarts       \* bound: how often the owner calls the entry point

ASSUME UseTLSAssumption == UseTLS \in BOOLEAN
ASSUME WithDefaultsAssumption == WithDefaults \in BOOLEAN
ASSUME LimitsAssumption == Limits \subseteq Int
ASSUME DefaultLimitAssumption == DefaultLimit \in Nat \ {0}
ASSUME MaxStartsAssumption == MaxStarts \in Nat \ {0}

Timeouts == {"ReadTimeout", "WriteTimeout"}
Fields   == Timeouts \cup {"MaxHeaderBytes"}

VARIABLES
    mainPC,      \* the caller of NewServer: where it is in server.go
    goPC,        \* the goroutine started by withGracefulShutdown
    served,      \* what ListenAndServe[TLS] returned in that goroutine
    via,         \* the branch of the select that was taken
    ret,         \* what the call returned
    ctxDone,     \* ctx is cancelled
    expired,     \* the 60 second deadline of the shutdown context has passed
    inShutdown,  \* http.Server.inShutdown: set for good by Shutdown
    conn,        \* state of each connection
    gone,        \* connections whose client has disconnected
    srv,         \* the limits in the fields of srv
    asked,       \* the limits the owner had put there
    base,        \* srv.BaseContext
    starts       \* calls of the entry point so far

mainVars == <<mainPC, via, ret, expired>>
goVars   == <<goPC, served>>
connVars == <<conn, gone>>
srvVars  == <<srv, asked, base, starts>>
vars == <<mainVars, goVars, connVars, srvVars, ctxDone, inShutdown>>

Active == {c \in Conns : conn[c] = "active"}

TypeOK ==
    /\ mainPC \in {"call", "select", "shutdown", "waiting", "polling", "ticking", "returned"}
    /\ goPC \in {"none", "start", "bound", "serving", "sending", "done"}
    /\ served \in {"none", "closed", "fail"}
    /\ via \in {"none", "ctx", "errc"}
    /\ ret \in {"none", "nil", "err", "deadline"}
    /\ ctxDone \in BOOLEAN /\ expired \in BOOLEAN /\ inShutdown \in BOOLEAN
    /\ conn \in [Conns -> {"none", "idle", "active", "closed"}]
    /\ gone \subseteq Conns
    /\ srv \in [Fields -> Int]
    /\ asked \in [Fields -> Int]
    /\ base \in {"nil", "own", "detached"}
    /\ starts \in 0..MaxStarts

Init ==
    /\ mainPC = "call" /\ via = "none" /\ ret = "none" /\ expired = FALSE
    /\ goPC = "none" /\ served = "none"
    /\ conn = [c \in Conns |-> "none"] /\ gone = {}
    /\ asked \in [Fields -> Limits] /\ srv = asked
    /\ base \in {"nil", "own"} /\ starts = 0
    /\ ctxDone \in BOOLEAN /\ inShutdown = FALSE

-----------------------------------------------------------------------------
(* The caller of NewServer / NewServerWithoutDefaults.                     *)

\* Mutant of Sane: an unset limit is kept, which net/http takes for none.
SaneKeepsUnset(f, v) == IF v <= -1 THEN (IF f \in Timeouts THEN 0 ELSE DefaultLimit) ELSE v

\* The three switch statements of NewServer: a negative timeout becomes 0 (no
\* timeout), an unset limit gets its default, anything else is kept.
Sane(f, v) ==
    CASE v <= -1 -> IF f \in Timeouts THEN 0 ELSE DefaultLimit
      [] v = 0   -> DefaultLimit
      [] OTHER   -> v

\* NewServer overwrites the owner's srv in place and gives it a BaseContext
\* that ignores the cancellation of ctx, unless the owner set one.
ApplyDefaults ==
    /\ srv' = [f \in Fields |-> Sane(f, srv[f])]
    /\ base' = IF base = "nil" THEN "detached" ELSE base

\* The call up to the select: a new errc and a new goroutine.  The owner may
\* call again with the same srv after a call that ended in an error.
Call ==
    /\ mainPC = "call" /\ starts < MaxStarts
    /\ IF WithDefaults THEN ApplyDefaults ELSE UNCHANGED <<srv, base>>
    /\ starts' = starts + 1
    /\ mainPC' = "select"
    /\ goPC' = "start" /\ served' = "none"
    /\ UNCHANGED <<via, ret, expired, connVars, asked, ctxDone, inShutdown>>

Retry ==
    /\ mainPC = "returned" /\ via = "errc" /\ ret = "err" /\ starts < MaxStarts
    /\ mainPC' = "call" /\ via' = "none" /\ ret' = "none"
    /\ UNCHANGED <<expired, goVars, connVars, srvVars, ctxDone, inShutdown>>

\* Mutant of Handle: http.ErrServerClosed is handed on.
HandleNothing(err) == err

\* Mutant of Handle: every error counts as a clean stop.
HandleEverything(err) == "nil"

\* The closure "handle": http.ErrServerClosed is not an error.
Handle(err) == IF err = "fail" THEN "err" ELSE "nil"

\* Mutant of SelectErrc: the goroutine goes on and serves again.
SelectErrcServesAgain ==
    /\ mainPC = "select" /\ goPC = "sending"
    /\ goPC' = "start"
    /\ mainPC' = "returned" /\ via' = "errc" /\ ret' = Handle(served)
    /\ UNCHANGED <<served, expired, connVars, srvVars, ctxDone, inShutdown>>

\* Mutant of SelectErrc: an error of the listener is dropped and the caller waits on.
SelectErrcIgnoresFailure ==
    /\ mainPC = "select" /\ goPC = "sending"
    /\ goPC' = "done"
    /\ IF served = "fail" THEN UNCHANGED <<mainPC, via, ret>>
       ELSE mainPC' = "returned" /\ via' = "errc" /\ ret' = Handle(served)
    /\ UNCHANGED <<served, expired, connVars, srvVars, ctxDone, inShutdown>>

\* case err := <-errc.  errc is unbuffered, so the send and the receive are
\* one step, possible only while the caller is in the select.
SelectErrc ==
    /\ mainPC = "select" /\ goPC = "sending"
    /\ goPC' = "done"
    /\ mainPC' = "returned" /\ via' = "errc" /\ ret' = Handle(served)
    /\ UNCHANGED <<served, expired, connVars, srvVars, ctxDone, inShutdown>>

\* Mutant of SelectCtx: the call returns without Shutdown.
SelectCtxReturns ==
    /\ mainPC = "select" /\ ctxDone
    /\ mainPC' = "returned" /\ via' = "ctx" /\ ret' = "nil"
    /\ UNCHANGED <<expired, goVars, connVars, srvVars, ctxDone, inShutdown>>

\* case <-ctx.Done(): the 60 second context is created here.
SelectCtx ==
    /\ mainPC = "select" /\ ctxDone
    /\ mainPC' = "shutdown" /\ via' = "ctx"
    /\ UNCHANGED <<ret, expired, goVars, connVars, srvVars, ctxDone, inShutdown>>

Return(r) == mainPC' = "returned" /\ ret' = r

\* srv.Shutdown(ctxt) sets inShutdown and closes the listeners, ...
Shutdown ==
    /\ mainPC = "shutdown"
    /\ inShutdown' = TRUE
    /\ mainPC' = "waiting"
    /\ UNCHANGED <<via, ret, expired, goVars, connVars, srvVars, ctxDone>>

\* ... waits, whatever the deadline, for Serve to return, ...
WaitListeners ==
    /\ mainPC = "waiting" /\ goPC # "serving"
    /\ mainPC' = "polling"
    /\ UNCHANGED <<via, ret, expired, goVars, connVars, srvVars, ctxDone, inShutdown>>

\* ... and polls: idle connections are closed; when none is active Shutdown
\* returns the error of closing the listener, if any.
Poll ==
    /\ mainPC = "polling"
    /\ conn' = [c \in Conns |-> IF conn[c] = "idle" THEN "closed" ELSE conn[c]]
    /\ IF Active = {}
         THEN \E r \in {"nil", "err"} : Return(r)
         ELSE mainPC' = "ticking" /\ UNCHANGED ret
    /\ UNCHANGED <<via, expired, goVars, gone, srvVars, ctxDone, inShutdown>>

\* Between two polls: the next tick, or the end of the 60 seconds.
Tick ==
    /\ mainPC = "ticking"
    /\ mainPC' = "polling"
    /\ UNCHANGED <<via, ret, expired, goVars, connVars, srvVars, ctxDone, inShutdown>>

\* Mutant of DeadlineExceeded: the error of Shutdown is dropped.
DeadlineDropped ==
    /\ mainPC = "ticking" /\ expired
    /\ Return("nil")
    /\ UNCHANGED <<via, expired, goVars, connVars, srvVars, ctxDone, inShutdown>>

\* ctxt.Done() inside Shutdown: its error is handed on by handle.
DeadlineExceeded ==
    /\ mainPC = "ticking" /\ expired
    /\ Return("deadline")
    /\ UNCHANGED <<via, expired, goVars, connVars, srvVars, ctxDone, inShutdown>>

-----------------------------------------------------------------------------
(* The goroutine: errc <- srv.ListenAndServe[TLS]().                       *)

Result(err) == served' = err /\ goPC' = "sending"

\* ListenAndServe refuses a server that was shut down, then binds the address.
Listen ==
    /\ goPC = "start"
    /\ IF inShutdown
         THEN Result("closed")
         ELSE Result("fail") \/ (goPC' = "bound" /\ UNCHANGED served)
    /\ UNCHANGED <<mainVars, connVars, srvVars, ctxDone, inShutdown>>

\* Serve registers the listener (ServeTLS loads the certificate first).
Serve ==
    /\ goPC = "bound"
    /\ \/ UseTLS /\ Result("fail")
       \/ inShutdown /\ Result("closed")
       \/ ~inShutdown /\ goPC' = "serving" /\ UNCHANGED served
    /\ UNCHANGED <<mainVars, connVars, srvVars, ctxDone, inShutdown>>

\* Accept fails: because the server was shut down, or by itself.
ServeReturns ==
    /\ goPC = "serving"
    /\ Result(IF inShutdown THEN "closed" ELSE "fail")
    /\ UNCHANGED <<mainVars, connVars, srvVars, ctxDone, inShutdown>>

-----------------------------------------------------------------------------
(* The environment: ctx, the owner of srv, the clock, clients, handlers.   *)

Cancel ==
    /\ ~ctxDone /\ ctxDone' = TRUE
    /\ UNCHANGED <<mainVars, goVars, connVars, srvVars, inShutdown>>

\* The owner of srv calls srv.Shutdown itself.
OwnerShutdown ==
    /\ ~inShutdown /\ inShutdown' = TRUE
    /\ UNCHANGED <<mainVars, goVars, connVars, srvVars, ctxDone>>

\* Mutant of Expire: the shutdown context has no deadline.
ExpireNever == FALSE /\ UNCHANGED vars

Expire ==
    /\ mainPC \in {"shutdown", "waiting", "polling", "ticking"} /\ ~expired
    /\ expired' = TRUE
    /\ UNCHANGED <<mainPC, via, ret, goVars, connVars, srvVars, ctxDone, inShutdown>>

\* A connection accepted just before the listener was closed is registered
\* after inShutdown is set, but before Serve returns.
Accept(c) ==
    /\ goPC = "serving" /\ conn[c] = "none"
    /\ conn' = [conn EXCEPT ![c] = "idle"]
    /\ UNCHANGED <<mainVars, goVars, gone, srvVars, ctxDone, inShutdown>>

Begin(c) ==
    /\ conn[c] = "idle" /\ c \notin gone
    /\ conn' = [conn EXCEPT ![c] = "active"]
    /\ UNCHANGED <<mainVars, goVars, gone, srvVars, ctxDone, inShutdown>>

\* After inShutdown is set a connection is not kept alive.
Finish(c) ==
    /\ conn[c] = "active"
    /\ \E s \in {"idle", "closed"} :
          /\ inShutdown => s = "closed"
          /\ conn' = [conn EXCEPT ![c] = s]
    /\ UNCHANGED <<mainVars, goVars, gone, srvVars, ctxDone, inShutdown>>

Leave(c) ==
    /\ conn[c] \in {"idle", "active"} /\ c \notin gone
    /\ gone' = gone \cup {c}
    /\ conn' = [conn EXCEPT ![c] = IF @ = "idle" THEN "closed" ELSE @]
    /\ UNCHANGED <<mainVars, goVars, srvVars, ctxDone, inShutdown>>

\* A request's context ends with its connection and with its base context:
\* an owner's BaseContext is taken to follow ctx, the default one does not.
RequestCancelled(c) == c \in gone \/ (base = "own" /\ ctxDone)

GiveUp(c) ==
    /\ conn[c] = "active" /\ RequestCancelled(c)
    /\ conn' = [conn EXCEPT ![c] = "closed"]
    /\ UNCHANGED <<mainVars, goVars, gone, srvVars, ctxDone, inShutdown>>

-----------------------------------------------------------------------------
MainStep ==
    \/ Call \/ SelectErrc \/ SelectCtx
    \/ Shutdown \/ WaitListeners \/ Poll \/ Tick \/ DeadlineExceeded

GoStep == Listen \/ Serve \/ ServeReturns

ConnStep(c) == Accept(c) \/ Begin(c) \/ Finish(c) \/ Leave(c) \/ GiveUp(c)

Next ==
    \/ MainStep \/ GoStep
    \/ Retry \/ Cancel \/ OwnerShutdown \/ Expire
    \/ \E c \in Conns : ConnStep(c)

\* Go schedules both goroutines, the clock runs, and Serve returns once its
\* listener is closed.  Nothing obliges a handler to finish or a client to
\* leave.  The deadline case of Shutdown's loop competes with the ticker; each
\* round of the loop offers it again, hence strong fairness.
Fairness ==
    /\ WF_vars(MainStep) /\ SF_vars(DeadlineExceeded)
    /\ WF_vars(Listen) /\ WF_vars(Serve) /\ WF_vars(inShutdown /\ ServeReturns)
    /\ WF_vars(Expire)

Spec == Init /\ [][Next]_vars
FairSpec == Spec /\ Fairness

-----------------------------------------------------------------------------
(* Safety.                                                                 *)

Drained ==
    /\ \A c \in Conns : conn[c] \in {"none", "closed"}
    /\ goPC # "serving"

\* A cancelled server that does not report a deadline has waited for every
\* request: no connection is open, and none can be opened, although Accept,
\* keep-alive connections and the start of the goroutine race with Shutdown.
\* (withGracefulShutdown: "waiting for all requests to complete")
GracefulReturn ==
    (mainPC = "returned" /\ via = "ctx" /\ ret # "deadline") => Drained

\* nil always means that the server was shut down: a server that stopped by
\* itself never looks like a clean exit, and its error can be dropped only by
\* a call whose context was cancelled.
NilMeansShutdown ==
    ret = "nil" => inShutdown /\ (served = "fail" => ctxDone)

\* A goroutine left behind in its send on errc belongs to a call that took
\* the ctx branch: whatever else ends the call also ends the goroutine.
LeakOnlyOnCancel ==
    (mainPC = "returned" /\ goPC # "done") => (via = "ctx" /\ ctxDone)

\* With NewServer a limit can be off while serving only where the owner asked
\* for it with a negative value, however often the same srv is started.
NoSilentUnlimited ==
    (WithDefaults /\ goPC # "none") =>
        \A f \in Fields : srv[f] <= 0 => (f \in Timeouts /\ asked[f] < 0)

(* Action properties.                                                      *)

\* Once a call returned through the ctx branch without a deadline, no step
\* ever opens or uses a connection of that server again.
NothingAfterReturn ==
    [][(mainPC = "returned" /\ via = "ctx" /\ ret # "deadline") => conn' = conn]_vars

(* Liveness.                                                               *)

\* A cancelled call returns, even if a handler never does: the deadline
\* bounds the wait.
CancelReturns == (mainPC = "select" /\ ctxDone) ~> (mainPC = "returned")

\* An error of the listener ends the call.
FailureReturns == (goPC = "sending" /\ served = "fail") ~> (mainPC = "returned")

-----------------------------------------------------------------------------
(* Refinement.                                                             *)

Phase ==
    CASE mainPC = "returned" /\ via = "ctx" /\ ret # "deadline" -> "drained"
      [] mainPC = "returned" /\ (via # "ctx" \/ ret = "deadline") -> "over"
      [] mainPC \in {"shutdown", "waiting", "polling", "ticking"} -> "draining"
      [] OTHER -> "up"

Lifecycle == INSTANCE ServerLifecycle WITH phase <- Phase, busy <- Active, late <- expired

\* Every behaviour of the code is one of the promised lifecycle: draining
\* starts once, ends with no request in progress or after the deadline, and
\* is followed by silence in the first case.
LifecycleSafety == Lifecycle!SafetySpec
LifecycleSpec   == Lifecycle!Spec

=============================================================================
