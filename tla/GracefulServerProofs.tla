------------------------ MODULE GracefulServerProofs ------------------------
(***************************************************************************)
(* Proofs about GracefulServer, for every set of connections, every limit  *)
(* and every number of starts.                                             *)
(***************************************************************************)
EXTENDS GracefulServer, TLAPS

Draining == {"shutdown", "waiting", "polling", "ticking"}

\* Where the caller of NewServer is determines what was set before.
ControlInv ==
    /\ mainPC \in {"call", "select"} => via = "none" /\ ret = "none" /\ expired = FALSE
    /\ mainPC \in Draining => via = "ctx" /\ ret = "none"
    /\ mainPC = "returned" => via # "none" /\ ret # "none"
    /\ via = "ctx" => ctxDone
    /\ via = "errc" => goPC = "done" /\ expired = FALSE /\ ret \in {"nil", "err"}
    /\ goPC = "sending" => served # "none"
    /\ (ret = "nil" /\ via = "errc") => served = "closed"

\* What Shutdown has reached so far stays reached: the flag is set, then no
\* Serve is left, then no connection is open.
ShutdownInv ==
    /\ mainPC \in {"waiting", "polling", "ticking"} => inShutdown
    /\ mainPC \in {"polling", "ticking"} => goPC # "serving"
    /\ (mainPC = "returned" /\ via = "ctx") => inShutdown /\ goPC # "serving"
    /\ (mainPC = "returned" /\ via = "ctx" /\ ret # "deadline") =>
           \A c \in Conns : conn[c] \in {"none", "closed"}
    /\ served = "closed" => inShutdown

IInv == TypeOK /\ ControlInv /\ ShutdownInv

\* Sane yields an integer, so the limits stay well typed.
LEMMA SaneInt == ASSUME NEW f, NEW v \in Int PROVE Sane(f, v) \in Int
  BY DefaultLimitAssumption DEF Sane

\* The strengthened invariant holds initially.
LEMMA InitIInv == Init => IInv
  <1> SUFFICES ASSUME Init PROVE IInv
    OBVIOUS
  <1>1. asked \in [Fields -> Int]
    BY LimitsAssumption DEF Init
  <1>2. TypeOK
    <2>1. starts \in 0..MaxStarts
      BY MaxStartsAssumption DEF Init
    <2>2. conn \in [Conns -> {"none", "idle", "active", "closed"}]
      BY DEF Init
    <2>3. srv \in [Fields -> Int]
      BY <1>1 DEF Init
    <2> QED
      BY <1>1, <2>1, <2>2, <2>3 DEF Init, TypeOK
  <1>3. ControlInv /\ ShutdownInv
    BY DEF Init, ControlInv, ShutdownInv, Draining
  <1> QED
    BY <1>2, <1>3 DEF IInv

\* Every step preserves the types.
LEMMA TypeStep == ASSUME TypeOK, [Next]_vars PROVE TypeOK'
  <1> USE DEF TypeOK
  <1>1. CASE Call
    <2>1. srv' \in [Fields -> Int] /\ base' \in {"nil", "own", "detached"}
      BY <1>1, SaneInt DEF Call, ApplyDefaults
    <2>2. starts' \in 0..MaxStarts
      BY <1>1, MaxStartsAssumption DEF Call
    <2> QED
      BY <1>1, <2>1, <2>2 DEF Call, connVars
  <1>2. CASE SelectErrc
    BY <1>2 DEF SelectErrc, Handle, connVars, srvVars
  <1>3. CASE SelectCtx
    BY <1>3 DEF SelectCtx, goVars, connVars, srvVars
  <1>4. CASE Shutdown
    BY <1>4 DEF Shutdown, goVars, connVars, srvVars
  <1>5. CASE WaitListeners
    BY <1>5 DEF WaitListeners, goVars, connVars, srvVars
  <1>6. CASE Poll
    BY <1>6 DEF Poll, Return, goVars, srvVars
  <1>7. CASE Tick
    BY <1>7 DEF Tick, goVars, connVars, srvVars
  <1>8. CASE DeadlineExceeded
    BY <1>8 DEF DeadlineExceeded, Return, goVars, connVars, srvVars
  <1>9. CASE GoStep
    BY <1>9 DEF GoStep, Listen, Serve, ServeReturns, Result, mainVars, connVars, srvVars
  <1>10. CASE Retry \/ Cancel \/ OwnerShutdown \/ Expire
    BY <1>10 DEF Retry, Cancel, OwnerShutdown, Expire, mainVars, goVars, connVars, srvVars
  <1>11. ASSUME NEW c \in Conns, ConnStep(c) PROVE TypeOK'
    BY <1>11 DEF ConnStep, Accept, Begin, Finish, Leave, GiveUp, mainVars, goVars, srvVars
  <1>12. CASE UNCHANGED vars
    BY <1>12 DEF vars, mainVars, goVars, connVars, srvVars
  <1> QED
    BY <1>1, <1>2, <1>3, <1>4, <1>5, <1>6, <1>7, <1>8, <1>9, <1>10, <1>11, <1>12
    DEF Next, MainStep

\* Every step preserves what the control state says.
LEMMA ControlStep == ASSUME IInv, [Next]_vars PROVE ControlInv'
  <1> USE DEF IInv, TypeOK, ControlInv, Draining
  <1>1. CASE MainStep
    <2>1. CASE Call
      BY <2>1 DEF Call, connVars
    <2>2. CASE SelectErrc
      BY <2>2 DEF SelectErrc, Handle, connVars, srvVars
    <2>3. CASE SelectCtx \/ Shutdown \/ WaitListeners \/ Tick
      BY <2>3 DEF SelectCtx, Shutdown, WaitListeners, Tick, goVars, connVars, srvVars
    <2>4. CASE Poll
      BY <2>4 DEF Poll, Return, goVars, srvVars
    <2>5. CASE DeadlineExceeded
      BY <2>5 DEF DeadlineExceeded, Return, goVars, connVars, srvVars
    <2> QED
      BY <1>1, <2>1, <2>2, <2>3, <2>4, <2>5 DEF MainStep
  <1>2. CASE GoStep
    BY <1>2 DEF GoStep, Listen, Serve, ServeReturns, Result, mainVars
  <1>3. CASE Retry \/ Cancel \/ OwnerShutdown \/ Expire
    BY <1>3 DEF Retry, Cancel, OwnerShutdown, Expire, mainVars, goVars
  <1>4. ASSUME NEW c \in Conns, ConnStep(c) PROVE ControlInv'
    BY <1>4 DEF ConnStep, Accept, Begin, Finish, Leave, GiveUp, mainVars, goVars
  <1>5. CASE UNCHANGED vars
    BY <1>5 DEF vars, mainVars, goVars
  <1> QED
    BY <1>1, <1>2, <1>3, <1>4, <1>5 DEF Next

\* Every step preserves what the shutdown has reached.  The two steps that
\* matter are Poll, which sees no active connection once Serve has returned,
\* and Accept, which needs a Serve that is still running.
LEMMA ShutdownStep == ASSUME IInv, [Next]_vars PROVE ShutdownInv'
  <1> USE DEF IInv, TypeOK, ControlInv, ShutdownInv, Draining
  <1>1. CASE MainStep
    <2>1. CASE Call \/ SelectErrc
      BY <2>1 DEF Call, SelectErrc, Handle, connVars, srvVars
    <2>2. CASE SelectCtx \/ Shutdown \/ WaitListeners \/ Tick
      BY <2>2 DEF SelectCtx, Shutdown, WaitListeners, Tick, goVars, connVars, srvVars
    <2>3. CASE Poll
      <3>1. CASE Active = {}
        <4>1. \A c \in Conns : conn[c] # "active"
          BY <3>1 DEF Active
        <4>2. \A c \in Conns : conn'[c] \in {"none", "closed"}
          BY <4>1, <2>3 DEF Poll
        <4> QED
          BY <2>3, <4>2 DEF Poll, goVars
      <3>2. CASE Active # {}
        BY <2>3, <3>2 DEF Poll, goVars
      <3> QED
        BY <3>1, <3>2
    <2>4. CASE DeadlineExceeded
      BY <2>4 DEF DeadlineExceeded, Return, goVars, connVars, srvVars
    <2> QED
      BY <1>1, <2>1, <2>2, <2>3, <2>4 DEF MainStep
  <1>2. CASE GoStep
    BY <1>2 DEF GoStep, Listen, Serve, ServeReturns, Result, mainVars, connVars
  <1>3. CASE Retry \/ Cancel \/ OwnerShutdown \/ Expire
    BY <1>3 DEF Retry, Cancel, OwnerShutdown, Expire, mainVars, goVars, connVars
  <1>4. ASSUME NEW c \in Conns, ConnStep(c) PROVE ShutdownInv'
    BY <1>4 DEF ConnStep, Accept, Begin, Finish, Leave, GiveUp, mainVars, goVars
  <1>5. CASE UNCHANGED vars
    BY <1>5 DEF vars, mainVars, goVars, connVars
  <1> QED
    BY <1>1, <1>2, <1>3, <1>4, <1>5 DEF Next

\* The strengthened invariant holds in every reachable state.
THEOREM Invariance == Spec => []IInv
  <1>1. IInv /\ [Next]_vars => IInv'
    BY TypeStep, ControlStep, ShutdownStep DEF IInv
  <1> QED
    BY InitIInv, <1>1, PTL DEF Spec

\* Every variable keeps its type.
THEOREM TypeCorrect == Spec => []TypeOK
  BY Invariance, PTL DEF IInv

\* Only a negative limit of the owner is ever negative in srv, and only until
\* the first start.
LimitsInv == NoSilentUnlimited /\ \A f \in Fields : srv[f] < 0 => asked[f] < 0

\* Steps other than Call leave the limits alone and start no goroutine.
LEMMA LimitsStep == ASSUME TypeOK, LimitsInv, [Next]_vars PROVE LimitsInv'
  <1> USE DEF TypeOK, LimitsInv, NoSilentUnlimited
  <1>1. CASE Call /\ WithDefaults
    <2>1. \A f \in Fields : srv'[f] = Sane(f, srv[f]) /\ asked'[f] = asked[f]
      BY <1>1 DEF Call, ApplyDefaults
    <2>2. \A f \in Fields : Sane(f, srv[f]) >= 0 /\ (Sane(f, srv[f]) <= 0 => f \in Timeouts /\ srv[f] < 0)
      BY DefaultLimitAssumption DEF Sane
    <2>3. ASSUME NEW f \in Fields
          PROVE  srv'[f] >= 0 /\ (srv'[f] <= 0 => f \in Timeouts /\ asked'[f] < 0)
      <3>1. /\ srv'[f] = Sane(f, srv[f]) /\ asked'[f] = asked[f]
            /\ Sane(f, srv[f]) >= 0
            /\ Sane(f, srv[f]) <= 0 => f \in Timeouts /\ srv[f] < 0
            /\ srv[f] < 0 => asked[f] < 0
        BY <2>1, <2>2, <2>3
      <3> QED
        BY <3>1, SMT
    <2>4. \A f \in Fields : srv'[f] \in Int
      BY <2>1, SaneInt
    <2>5. \A f \in Fields : ~(srv'[f] < 0)
      BY <2>3, <2>4
    <2> QED
      BY <2>3, <2>5 DEF Fields, Timeouts
  <1>2. CASE Call /\ ~WithDefaults
    BY <1>2 DEF Call
  <1>3. CASE ~Call
    <2>1. UNCHANGED <<srv, asked>> /\ (goPC' # "none" => goPC # "none")
      BY <1>3 DEF Next, vars, mainVars, goVars, srvVars, connVars, MainStep, GoStep, ConnStep,
         SelectErrc, SelectCtx, Return, Shutdown, WaitListeners, Poll, Tick, DeadlineExceeded,
         Listen, Serve, ServeReturns, Result, Retry, Cancel, OwnerShutdown, Expire,
         Accept, Begin, Finish, Leave, GiveUp
    <2> QED
      BY <2>1
  <1> QED
    BY <1>1, <1>2, <1>3

\* However often NewServer is called with one srv, a limit is off while it
\* serves only where the owner asked for it.
THEOREM NoSilentUnlimitedHolds == Spec => []NoSilentUnlimited
  <1>1. Init => LimitsInv
    BY DEF Init, LimitsInv, NoSilentUnlimited
  <1>2. TypeOK /\ LimitsInv /\ [Next]_vars => LimitsInv'
    BY LimitsStep
  <1>3. LimitsInv => NoSilentUnlimited
    BY DEF LimitsInv
  <1> QED
    BY <1>1, <1>2, <1>3, TypeCorrect, PTL DEF Spec

\* A cancelled server that returns without a deadline has waited for every
\* request, and nothing can be accepted any more.
THEOREM GracefulReturnHolds == Spec => []GracefulReturn
  <1>1. IInv => GracefulReturn
    BY DEF IInv, ShutdownInv, GracefulReturn, Drained
  <1> QED
    BY <1>1, Invariance, PTL

\* nil means that the server was shut down; the error of a server that
\* stopped by itself is dropped only when ctx was cancelled.
THEOREM NilMeansShutdownHolds == Spec => []NilMeansShutdown
  <1>1. IInv => NilMeansShutdown
    BY DEF IInv, TypeOK, ControlInv, ShutdownInv, NilMeansShutdown, Draining
  <1> QED
    BY <1>1, Invariance, PTL

\* Only a call that took the ctx branch leaves its goroutine behind.
THEOREM LeakOnlyOnCancelHolds == Spec => []LeakOnlyOnCancel
  <1>1. IInv => LeakOnlyOnCancel
    BY DEF IInv, TypeOK, ControlInv, LeakOnlyOnCancel
  <1> QED
    BY <1>1, Invariance, PTL

-----------------------------------------------------------------------------
\* No step touches a connection once a call returned through the ctx branch
\* without a deadline.
THEOREM NothingAfterReturnHolds == Spec => NothingAfterReturn
  <1>1. ASSUME IInv, [Next]_vars, mainPC = "returned", via = "ctx", ret # "deadline"
        PROVE  conn' = conn
    <2> USE <1>1 DEF IInv, TypeOK, ControlInv, ShutdownInv
    <2>1. CASE MainStep
      BY <2>1 DEF MainStep, Call, SelectErrc, SelectCtx, Shutdown, WaitListeners,
         Poll, Tick, DeadlineExceeded
    <2>2. CASE GoStep \/ Retry \/ Cancel \/ OwnerShutdown \/ Expire
      BY <2>2 DEF GoStep, Listen, Serve, ServeReturns, Retry, Cancel,
         OwnerShutdown, Expire, connVars
    <2>3. ASSUME NEW c \in Conns PROVE ~ConnStep(c)
      BY <2>3 DEF ConnStep, Accept, Begin, Finish, Leave, GiveUp
    <2>4. CASE UNCHANGED vars
      BY <2>4 DEF vars, connVars
    <2> QED
      BY <2>1, <2>2, <2>3, <2>4 DEF Next
  <1> QED
    BY <1>1, Invariance, PTL DEF Spec, NothingAfterReturn

-----------------------------------------------------------------------------
(* Refinement: the steps of the code are steps of ServerLifecycle.         *)

\* The initial states are initial states of the lifecycle.
LEMMA LifecycleInit == Init => Lifecycle!Init
  BY DEF Init, Lifecycle!Init, Phase, Active

\* A step that leaves the caller, the flags and the set of active connections
\* alone is a stutter.
LEMMA LifecycleStutter ==
  ASSUME UNCHANGED <<mainPC, via, ret, expired>>, Active' = Active
  PROVE  UNCHANGED Lifecycle!vars
  BY DEF Lifecycle!vars, Phase

\* Every step of the caller of NewServer.
LEMMA LifecycleMain == ASSUME IInv, MainStep PROVE [Lifecycle!Next]_(Lifecycle!vars)
  <1> USE DEF IInv, TypeOK, ControlInv, Draining
  <1>1. CASE Call
    BY <1>1 DEF Call, connVars, Phase, Active, Lifecycle!vars
  <1>2. CASE SelectErrc
    <2>1. Phase = "up" /\ Phase' = "over" /\ Active' = Active /\ expired' = expired
      BY <1>2 DEF SelectErrc, Handle, connVars, Phase, Active
    <2> QED
      BY <2>1 DEF Lifecycle!Next, Lifecycle!Stop
  <1>3. CASE SelectCtx
    <2>1. Phase = "up" /\ Phase' = "draining" /\ Active' = Active /\ expired' = expired
      BY <1>3 DEF SelectCtx, connVars, Phase, Active
    <2> QED
      BY <2>1 DEF Lifecycle!Next, Lifecycle!StartDrain
  <1>4. CASE Shutdown \/ WaitListeners \/ Tick
    BY <1>4 DEF Shutdown, WaitListeners, Tick, connVars, Phase, Active, Lifecycle!vars
  <1>5. CASE Poll
    <2>1. Active' = Active /\ expired' = expired /\ Phase = "draining"
      BY <1>5 DEF Poll, Active, Phase
    <2>2. CASE Active = {}
      <3>1. Phase' = "drained"
        BY <1>5, <2>2 DEF Poll, Return, Phase
      <3> QED
        BY <2>1, <2>2, <3>1 DEF Lifecycle!Next, Lifecycle!EndDrain
    <2>3. CASE Active # {}
      BY <1>5, <2>1, <2>3 DEF Poll, Phase, Lifecycle!vars
    <2> QED
      BY <2>2, <2>3
  <1>6. CASE DeadlineExceeded
    <2>1. Phase = "draining" /\ Phase' = "over" /\ Active' = Active /\ expired' = expired /\ expired
      BY <1>6 DEF DeadlineExceeded, Return, connVars, Phase, Active
    <2> QED
      BY <2>1 DEF Lifecycle!Next, Lifecycle!EndDrain
  <1> QED
    BY <1>1, <1>2, <1>3, <1>4, <1>5, <1>6 DEF MainStep

\* Every step of a connection: Begin adds to the busy ones, Finish and GiveUp
\* remove from them.
LEMMA LifecycleConn ==
  ASSUME IInv, NEW c \in Conns, ConnStep(c) PROVE [Lifecycle!Next]_(Lifecycle!vars)
  <1> USE DEF IInv, TypeOK
  <1>1. UNCHANGED <<mainPC, via, ret, expired>> /\ UNCHANGED Phase
    BY DEF ConnStep, Accept, Begin, Finish, Leave, GiveUp, mainVars, Phase
  <1>2. CASE Accept(c) \/ Leave(c)
    <2>1. Active' = Active
      BY <1>2 DEF Accept, Leave, Active
    <2> QED
      BY <1>1, <2>1, LifecycleStutter
  <1>3. CASE Begin(c)
    <2>1. c \notin Active /\ Active' = Active \cup {c}
      BY <1>3 DEF Begin, Active
    <2>2. Phase # "drained"
      BY <1>3 DEF Begin, Phase, ControlInv, ShutdownInv
    <2> QED
      BY <1>1, <2>1, <2>2 DEF Lifecycle!Next, Lifecycle!Begin
  <1>4. CASE Finish(c) \/ GiveUp(c)
    <2>1. c \in Active /\ Active' = Active \ {c}
      BY <1>4 DEF Finish, GiveUp, Active
    <2> QED
      BY <1>1, <2>1 DEF Lifecycle!Next, Lifecycle!End
  <1> QED
    BY <1>2, <1>3, <1>4 DEF ConnStep

\* Every step is a step of the lifecycle or a stutter.
LEMMA LifecycleStep == ASSUME IInv, [Next]_vars PROVE [Lifecycle!Next]_(Lifecycle!vars)
  <1>1. CASE MainStep
    BY <1>1, LifecycleMain
  <1>2. CASE GoStep \/ Cancel \/ OwnerShutdown
    <2>1. UNCHANGED <<mainPC, via, ret, expired, conn>>
      BY <1>2 DEF GoStep, Listen, Serve, ServeReturns, Cancel, OwnerShutdown, mainVars, connVars
    <2> QED
      BY <2>1, LifecycleStutter DEF Active
  <1>3. CASE Retry
    <2>1. Phase = "over" /\ Phase' = "up" /\ Active' = Active /\ expired' = expired
      BY <1>3 DEF Retry, Phase, Active, connVars
    <2> QED
      BY <2>1 DEF Lifecycle!Next, Lifecycle!Restart
  <1>4. CASE Expire
    <2>1. Phase = "draining" /\ Phase' = Phase /\ Active' = Active /\ ~expired /\ expired'
      BY <1>4 DEF Expire, Phase, Active, connVars
    <2> QED
      BY <2>1, <1>4 DEF Lifecycle!Next, Lifecycle!Expire, Expire
  <1>5. ASSUME NEW c \in Conns, ConnStep(c) PROVE [Lifecycle!Next]_(Lifecycle!vars)
    BY <1>5, LifecycleConn
  <1>6. CASE UNCHANGED vars
    BY <1>6, LifecycleStutter DEF vars, mainVars, connVars, Active
  <1> QED
    BY <1>1, <1>2, <1>3, <1>4, <1>5, <1>6 DEF Next

\* The code implements the safety part of the promised lifecycle.
THEOREM ImplementsLifecycle == Spec => LifecycleSafety
  BY Invariance, LifecycleInit, LifecycleStep, PTL
  DEF Spec, LifecycleSafety, Lifecycle!SafetySpec
=============================================================================
