------------------------ MODULE ErrorHandlingProofs ------------------------
(***************************************************************************)
(* Proofs about ErrorHandling, for any calls of any number of requests and *)
(* any *ResolvedError they share: what the client is shown, what is        *)
(* logged, and the status.                                                 *)
(***************************************************************************)
EXTENDS ErrorHandling, WellFoundedInduction, TLAPS

-----------------------------------------------------------------------------
(* Numbers.                                                                *)

\* A set of natural numbers has a least one.
LEMMA LeastNatural ==
    ASSUME NEW T \in SUBSET Nat, T # {}
    PROVE  \E n \in T : \A m \in T : n <= m
  <1> DEFINE R == OpToRel(<, Nat)
  <1>1. IsWellFoundedOn(R, Nat)
    BY NatLessThanWellFounded
  <1>2. \A m, n \in Nat : <<m, n>> \in R <=> m < n
    BY DEF OpToRel
  <1> HIDE DEF R
  <1>3. PICK n \in T : \A m \in T : ~ (<<m, n>> \in R)
    BY <1>1, WFMin, Zenon
  <1>4. n \in Nat /\ \A m \in T : m \in Nat
    OBVIOUS
  <1>5. \A m \in T : ~ (m < n)
    BY <1>2, <1>3, <1>4, Zenon
  <1> HIDE <1>2, <1>3
  <1> QED
    BY <1>4, <1>5

\* The values of a list are bounded: if not, a shortest part of it is not.
LEMMA ListBounded ==
    ASSUME NEW n \in Nat, NEW f \in [1..n -> Nat]
    PROVE  \E b \in Nat : \A i \in 1..n : f[i] <= b
  <1> DEFINE Bounded(k) == \E b \in Nat : \A i \in 1..k : f[i] <= b
             T == {k \in 0..n : ~Bounded(k)}
  <1>1. T \in SUBSET Nat
    OBVIOUS
  <1>2. ASSUME T # {} PROVE FALSE
    <2> HIDE DEF T
    <2>1. PICK k \in T : \A m \in T : k <= m
      BY <1>1, <1>2, LeastNatural
    <2> USE DEF T
    <2>2. k \in 0..n /\ ~Bounded(k)
      BY <2>1
    <2>3. Bounded(0)
      <3>1. \A i \in 1..0 : f[i] <= 0
        OBVIOUS
      <3> QED
        BY <3>1
    <2>4. k - 1 \in 0..n
      BY <2>2, <2>3
    <2>5. Bounded(k - 1)
      <3>1. k - 1 \notin T
        <4> HIDE DEF T, Bounded
        <4> QED
          BY <2>1, <2>2
      <3> QED
        BY <2>4, <3>1
    <2>6. PICK b \in Nat : \A i \in 1..(k - 1) : f[i] <= b
      BY <2>5
    <2>7. PICK c \in Nat : b <= c /\ f[k] <= c
      <3>1. f[k] \in Nat
        BY <2>2, <2>4
      <3>2. CASE f[k] <= b
        BY <3>1, <3>2
      <3>3. CASE ~ (f[k] <= b)
        BY <3>1, <3>3
      <3> QED
        BY <3>2, <3>3
    <2>8. \A i \in 1..k : f[i] <= c
      <3> SUFFICES ASSUME NEW i \in 1..k PROVE f[i] <= c
        OBVIOUS
      <3>1. f[i] \in Nat
        BY <2>2
      <3>2. CASE i = k
        BY <2>7, <3>2
      <3>3. CASE i # k
        BY <2>2, <2>6, <2>7, <3>1, <3>3
      <3> QED
        BY <3>2, <3>3
    <2> QED
      BY <2>2, <2>8
  <1>3. n \notin T
    BY <1>2
  <1> QED
    BY <1>3

\* A bounded set of natural numbers has a largest one.
LEMMA LargestNatural ==
    ASSUME NEW S \in SUBSET Nat, S # {}, NEW b \in Nat, \A x \in S : x <= b
    PROVE  \E c \in S : \A d \in S : d <= c
  <1> DEFINE T == {n \in Nat : \A x \in S : x <= n}
  <1>1. T \in SUBSET Nat /\ T # {}
    OBVIOUS
  <1> HIDE DEF T
  <1>2. PICK n \in T : \A m \in T : n <= m
    BY <1>1, LeastNatural
  <1> USE DEF T
  <1>3. n \in S
    <2> SUFFICES ASSUME n \notin S PROVE FALSE
      OBVIOUS
    <2>1. \A x \in S : x <= n - 1
      BY <1>2
    <2>2. n - 1 \in Nat
      <3>1. PICK x \in S : TRUE
        OBVIOUS
      <3> QED
        BY <1>2, <2>1, <3>1
    <2> QED
      BY <1>2, <2>1, <2>2
  <1> QED
    BY <1>2, <1>3

-----------------------------------------------------------------------------
(* *ResolvedError values.                                                  *)

MaskedOf(o) == [o EXCEPT !.err = {Text}, !.errs = {}]
TooLargeError == Fresh({TooLarge}, {}, 413, "public")

\* A new one has the fields it is given.
LEMMA FreshFacts ==
    ASSUME NEW e \in Errors, NEW es \in SUBSET Errors, NEW c \in Nat, NEW v \in Visibility
    PROVE  /\ Fresh(e, es, c, v) \in Resolved
           /\ Fresh(e, es, c, v).err = e /\ Fresh(e, es, c, v).errs = es
           /\ Fresh(e, es, c, v).code = c /\ Fresh(e, es, c, v).vis = v
  BY DEF Fresh, Resolved

\* The members the proofs use.
LEMMA Members ==
    /\ {} \in Errors /\ {Text} \in Errors /\ {TooLarge} \in Errors /\ {EncodeErr} \in Errors
    /\ {} \in SUBSET Errors
    /\ "unknown" \in Visibility /\ "public" \in Visibility
  BY MsgsAssumption DEF Errors, Visibility

\* What is filled in is filled in once, and changes nothing that is there.
LEMMA CompleteFacts ==
    ASSUME NEW o \in Resolved
    PROVE  /\ Complete(o) \in Resolved
           /\ Complete(o).errs = o.errs
           /\ Complete(o).err = (IF o.err = {} /\ UNION o.errs # {} THEN {Joined} \cup UNION o.errs
                                 ELSE o.err)
           /\ Complete(Complete(o)) = Complete(o)
           /\ Complete(o).code # 0 /\ Complete(o).code = (IF o.code = 0 THEN 500 ELSE o.code)
           /\ Complete(o).vis = o.vis
  <1>1. UNION o.errs \in Errors /\ {Joined} \cup UNION o.errs \in Errors /\ o.err \in Errors
    BY DEF Resolved, Errors
  <1> DEFINE e == IF o.err = {} /\ UNION o.errs # {} THEN {Joined} \cup UNION o.errs ELSE o.err
             k == IF o.code = 0 THEN 500 ELSE o.code
  <1>2. e \in Errors /\ k \in Nat
    BY <1>1 DEF Resolved
  <1>3. Complete(o) \in Resolved
    <2> HIDE DEF e, k
    <2>1. Complete(o) = [o EXCEPT !.err = e, !.code = k]
      BY DEF Complete, e, k
    <2> QED
      BY <1>2, <2>1 DEF Resolved
  <1>4. /\ Complete(o).errs = o.errs /\ Complete(o).vis = o.vis
        /\ Complete(o).err = (IF o.err = {} /\ UNION o.errs # {} THEN {Joined} \cup UNION o.errs
                              ELSE o.err)
        /\ Complete(o).code = IF o.code = 0 THEN 500 ELSE o.code
    BY DEF Complete, Resolved
  <1> DEFINE c == Complete(o)
  <1>5. c \in Resolved /\ ~ (c.err = {} /\ UNION c.errs # {}) /\ c.code # 0
    BY <1>3, <1>4
  <1>6. Complete(c) = c
    <2> HIDE DEF c
    <2> QED
      BY <1>5 DEF Complete, Resolved
  <1> QED
    BY <1>3, <1>4, <1>5, <1>6

\* Filling in adds nothing to the content but the mark of errors.Join.
LEMMA ContentFacts ==
    ASSUME NEW o \in Resolved
    PROVE  /\ Content(o) \in Errors
           /\ Content(o) \subseteq Content(Complete(o))
           /\ TooLarge \in Content(Complete(o)) <=> TooLarge \in Content(o)
  <1>1. TooLarge # Joined
    BY MsgsAssumption
  <1>2. Content(o) \in Errors
    BY DEF Content, Resolved, Errors
  <1> DEFINE c == Complete(o)
  <1>3. /\ c.errs = o.errs
        /\ c.err = (IF o.err = {} /\ UNION o.errs # {} THEN {Joined} \cup UNION o.errs ELSE o.err)
    BY CompleteFacts
  <1> HIDE DEF c
  <1> QED
    BY <1>1, <1>2, <1>3 DEF Content, c

\* Masking hides everything, for good, and makes nothing public.
LEMMA MaskFacts ==
    ASSUME NEW o \in Resolved, o.code # 0
    PROVE  /\ MaskedOf(o) \in Resolved /\ MaskedOf(o).code = o.code
           /\ MaskedOf(o).err = {Text} /\ MaskedOf(o).errs = {}
           /\ Complete(MaskedOf(o)) = MaskedOf(o)
           /\ MaskedOf(MaskedOf(o)) = MaskedOf(o)
           /\ ~Public(o) => ~Public(MaskedOf(o))
  <1>1. {Text} \in Errors
    BY MsgsAssumption DEF Errors
  <1>2. /\ MaskedOf(o) \in Resolved /\ MaskedOf(o).code = o.code /\ MaskedOf(o).vis = o.vis
        /\ MaskedOf(o).err = {Text} /\ MaskedOf(o).errs = {}
    BY <1>1 DEF MaskedOf, Resolved
  <1> DEFINE m == MaskedOf(o)
  <1> HIDE DEF m
  <1>3. Complete(m) = m
    BY <1>2 DEF Complete, Resolved, m
  <1>4. MaskedOf(m) = m
    BY <1>2 DEF MaskedOf, Resolved, m
  <1>5. ~IsExposableError({Text})
    BY MsgsAssumption DEF IsExposableError
  <1>6. ~Public(o) => ~Public(m)
    BY <1>2, <1>5 DEF Public, m
  <1> QED
    BY <1>2, <1>3, <1>4, <1>6 DEF m

-----------------------------------------------------------------------------
(* The arguments of Error.                                                 *)

\* Arguments of which none is nil.
IsArgs(list) ==
    /\ \E n \in Nat : DOMAIN list \subseteq 1..n
    /\ \A i \in DOMAIN list : list[i] \in Arg /\ list[i].kind # "nil"

IsPointer(a) == a.kind \in {"fresh", "sentinel"}
ErrOf(a) == IF IsPointer(a) THEN Deref(a).err ELSE a.err

\* An argument is an error, or points at something.
LEMMA ArgFacts ==
    ASSUME NEW a \in Arg, a.kind # "nil"
    PROVE  /\ a.kind = "plain" => a.err \in Errors /\ a.err # {}
           /\ a.kind = "fresh" => a.obj \in Resolved
           /\ a.kind = "sentinel" => a.name \in Sentinels /\ a = Sentinel(a.name)
           /\ a.kind \in {"plain", "fresh", "sentinel"}
           /\ Origin(a) \in Resolved /\ Messages(a) = Content(Origin(a))
  <1>1. /\ a.kind = "plain" => a.err \in Errors /\ a.err # {}
        /\ a.kind = "fresh" => a.obj \in Resolved
        /\ a.kind = "sentinel" => a.name \in Sentinels /\ a = Sentinel(a.name)
        /\ a.kind \in {"plain", "fresh", "sentinel"}
    BY DEF Arg, Sentinel
  <1>2. a.kind = "plain" => Origin(a) \in Resolved /\ Content(Origin(a)) = a.err
    BY <1>1 DEF Origin, Fresh, Resolved, Visibility, Content
  <1>3. a.kind # "plain" => Original(a) \in Resolved
    BY <1>1, SentinelAssumption DEF Original
  <1> QED
    BY <1>1, <1>2, <1>3 DEF Origin, Messages

\* ErrorWithCode makes one *ResolvedError, with Err or with Errs.
LEMMA WithCodeFacts ==
    ASSUME NEW c \in Nat, NEW es \in Seq(Errors)
    PROVE  /\ WithCode(c, es) \in Resolved
           /\ IsArgs(<<Pointer(WithCode(c, es))>>)
           /\ DOMAIN <<Pointer(WithCode(c, es))>> = {1}
  <1>5. WithCode(c, es) \in Resolved
    <2>1. CASE Len(es) = 0
      <3>1. Fresh({Text}, {}, c, "unknown") \in Resolved
        BY FreshFacts, Members
      <3> QED
        BY <2>1, <3>1 DEF WithCode
    <2>2. CASE Len(es) = 1
      <3>1. es[1] \in Errors
        BY <2>2
      <3>2. Fresh(es[1], {}, c, "unknown") \in Resolved
        BY <3>1, FreshFacts, Members
      <3> QED
        BY <2>2, <3>2 DEF WithCode
    <2>3. CASE Len(es) # 0 /\ Len(es) # 1
      <3>1. {es[i] : i \in 1..Len(es)} \in SUBSET Errors
        OBVIOUS
      <3>2. Fresh({}, {es[i] : i \in 1..Len(es)}, c, "unknown") \in Resolved
        BY <3>1, FreshFacts, Members
      <3> QED
        BY <2>3, <3>2 DEF WithCode
    <2> QED
      BY <2>1, <2>2, <2>3
  <1> DEFINE o == WithCode(c, es)
  <1> HIDE DEF o
  <1>6. Pointer(o) \in Arg /\ Pointer(o).kind = "fresh"
    BY <1>5 DEF Pointer, Arg, o
  <1>7. DOMAIN <<Pointer(o)>> = 1..1 /\ <<Pointer(o)>>[1] = Pointer(o)
    OBVIOUS
  <1>8. IsArgs(<<Pointer(o)>>)
    BY <1>6, <1>7 DEF IsArgs
  <1> QED
    BY <1>5, <1>7, <1>8 DEF o

\* Several errors together: each one's Err is among the errors.
LEMMA CollectFacts ==
    ASSUME heap \in [Sentinels -> Resolved], NEW list, IsArgs(list)
    PROVE  /\ Collect(list) \in Resolved
           /\ Collect(list).err = {} /\ Collect(list).errs = {ErrOf(list[i]) : i \in DOMAIN list}
           /\ Collect(list).vis = "unknown"
           /\ \A i \in DOMAIN list : IsPointer(list[i]) => Deref(list[i]).code <= Collect(list).code
           /\ \/ Collect(list).code = 0
              \/ \E i \in DOMAIN list : IsPointer(list[i]) /\ Deref(list[i]).code = Collect(list).code
  <1> DEFINE IsPtr(a) == a.kind \in {"fresh", "sentinel"}
             ptrs  == {i \in DOMAIN list : IsPtr(list[i])}
             codes == {0} \cup {Deref(list[i]).code : i \in ptrs}
             all   == {IF IsPtr(list[i]) THEN Deref(list[i]).err ELSE list[i].err : i \in DOMAIN list}
             code  == CHOOSE c \in codes : \A d \in codes : d <= c
  <1>1. Collect(list) = Fresh({}, all, code, "unknown")
    BY DEF Collect
  <1>2. \A i \in DOMAIN list : IsPtr(list[i]) => Deref(list[i]) \in Resolved
    BY ArgFacts DEF Deref, IsArgs
  <1>3. \A i \in DOMAIN list : ~IsPtr(list[i]) => list[i].err \in Errors
    BY ArgFacts DEF IsArgs
  <1>4. all \in SUBSET Errors
    BY <1>2, <1>3 DEF Resolved
  <1>5. codes \in SUBSET Nat
    <2>1. \A i \in ptrs : Deref(list[i]).code \in Nat
      BY <1>2 DEF Resolved
    <2>2. ASSUME NEW x \in codes PROVE x \in Nat
      <3>1. x = 0 \/ \E i \in ptrs : x = Deref(list[i]).code
        OBVIOUS
      <3>2. CASE x = 0
        BY <3>2
      <3>3. CASE x # 0
        <4>1. PICK i \in ptrs : x = Deref(list[i]).code
          BY <3>1, <3>3
        <4> QED
          BY <2>1, <4>1
      <3> QED
        BY <3>2, <3>3
    <2> QED
      BY <2>2
  <1>6. PICK n \in Nat : DOMAIN list \subseteq 1..n
    BY DEF IsArgs
  <1>7. PICK b \in Nat : \A x \in codes : x <= b
    <2> DEFINE f == [i \in 1..n |-> IF i \in ptrs THEN Deref(list[i]).code ELSE 0]
    <2>1. f \in [1..n -> Nat]
      BY <1>2 DEF Resolved
    <2>2. \A i \in ptrs : f[i] = Deref(list[i]).code /\ i \in 1..n
      BY <1>6
    <2> HIDE DEF f
    <2>3. PICK b \in Nat : \A i \in 1..n : f[i] <= b
      BY <2>1, ListBounded
    <2>4. \A i \in ptrs : Deref(list[i]).code <= b
      BY <2>2, <2>3
    <2>5. ASSUME NEW x \in codes PROVE x <= b
      <3>1. x = 0 \/ \E i \in ptrs : x = Deref(list[i]).code
        OBVIOUS
      <3>2. CASE x = 0
        BY <2>3, <3>2
      <3>3. CASE x # 0
        <4>1. PICK i \in ptrs : x = Deref(list[i]).code
          BY <3>1, <3>3
        <4> QED
          BY <2>4, <4>1
      <3> QED
        BY <3>2, <3>3
    <2> QED
      BY <2>3, <2>5
  <1>71. \A i \in DOMAIN list : IsPointer(list[i]) => Deref(list[i]).code \in codes
    BY DEF IsPointer
  <1>72. \A x \in codes : x = 0 \/ \E i \in DOMAIN list : IsPointer(list[i]) /\ Deref(list[i]).code = x
    BY DEF IsPointer
  <1>73. codes # {}
    OBVIOUS
  <1> HIDE DEF codes
  <1>8. code \in Nat /\ code \in codes /\ \A d \in codes : d <= code
    <2>1. \E c \in codes : \A d \in codes : d <= c
      BY <1>5, <1>7, <1>73, LargestNatural
    <2> QED
      BY <1>5, <2>1
  <1>9. all = {ErrOf(list[i]) : i \in DOMAIN list}
    BY DEF ErrOf, IsPointer
  <1> HIDE DEF all, code
  <1>10. Fresh({}, all, code, "unknown") \in Resolved
    BY <1>4, <1>8, FreshFacts, Members
  <1>11. /\ Fresh({}, all, code, "unknown").err = {} /\ Fresh({}, all, code, "unknown").errs = all
         /\ Fresh({}, all, code, "unknown").code = code
         /\ Fresh({}, all, code, "unknown").vis = "unknown"
    BY <1>4, <1>8, FreshFacts, Members
  <1>12. /\ \A i \in DOMAIN list : IsPointer(list[i]) => Deref(list[i]).code <= code
         /\ code = 0 \/ \E i \in DOMAIN list : IsPointer(list[i]) /\ Deref(list[i]).code = code
    BY <1>71, <1>72, <1>8
  <1> QED
    BY <1>1, <1>9, <1>10, <1>11, <1>12

-----------------------------------------------------------------------------
(* The invariant.                                                          *)

Working == {"complete", "resolvers", "log", "mask", "respond", "encodeError"}
Renders(r) == call[r].op \in {"JSON", "Buffered"}
EncodeFailure == <<Pointer(WithCode(500, <<{EncodeErr}>>))>>

\* Under the API base path with an encoder that fails on error bodies.
Stuck(r) == call[r].api /\ "error" \in Unencodable

DefaultFirst == 1 \in DOMAIN Resolvers /\ Resolvers[1] = "bodyLimit"

Sole(r, s) == One(Given(r)) /\ Only(Given(r)) = Sentinel(s)
Filled(s) == Complete(SentinelValue[s])

\* The messages C are logged with o, or logging o panics.
Covers(o, C) == {} \in LogAttrs(o) \/ C \subseteq UNION LogAttrs(o)

Typed ==
    /\ pc \in [Requests -> {"idle", "resolve", "encodeValue", "done", "panicked"} \cup Working]
    /\ call \in [Requests -> Calls]
    /\ args = [r \in Requests |-> args[r]]
    /\ cur \in [Requests -> {"own"} \cup Sentinels]
    /\ own \in [Requests -> Resolved]
    /\ heap \in [Sentinels -> Resolved]
    /\ hdr \in [Requests -> Nat]
    /\ body \in [Requests -> [code : Nat, msgs : Errors]]
    /\ logged \in [Requests -> Errors]
    /\ depth \in [Requests -> 0..MaxNesting]

Control(r) ==
    /\ pc[r] = "idle" => depth[r] = 0 /\ cur[r] = "own"
    /\ pc[r] = "encodeValue" => depth[r] = 0 /\ cur[r] = "own" /\ Renders(r)
    /\ Renders(r) /\ depth[r] = 0 => pc[r] \in {"idle", "encodeValue", "done"}
    /\ depth[r] = 0 /\ pc[r] \in Working \cup {"resolve"} => Given(r) # <<>>
    /\ pc[r] = "resolve" => args[r] = IF depth[r] = 0 THEN Given(r) ELSE EncodeFailure
    /\ ~Renders(r) /\ depth[r] > 0 => Stuck(r)
    /\ ~Renders(r) /\ Stuck(r) /\ pc[r] = "done" => Given(r) = <<>>
    /\ pc[r] = "encodeError" => call[r].api

\* A shared *ResolvedError is as it was, filled in, or masked for good by a
\* request that has reported it alone; one that is public or an oversized body
\* is not.
HeapInv(s) ==
    /\ heap[s] \in {SentinelValue[s], Filled(s), MaskedOf(Filled(s))}
    /\ heap[s] \notin {SentinelValue[s], Filled(s)} =>
          \E q \in Requests : /\ Sole(q, s)
                              /\ depth[q] > 0 \/ pc[q] \in {"respond", "encodeError", "done"}
    /\ heap[s] # SentinelValue[s] => \E q \in Requests : Sole(q, s)
    /\ (DefaultFirst /\ TooLarge \in Content(SentinelValue[s])) \/ (MaskPrivate /\ Public(Filled(s))) =>
          heap[s] \in {SentinelValue[s], Filled(s)}

\* A request that works on a shared *ResolvedError.
Pointing(r) ==
    cur[r] # "own" =>
       /\ Sole(r, cur[r]) /\ ~Renders(r)
       /\ pc[r] \in Working => depth[r] = 0
       /\ pc[r] \in Working \ {"complete"} =>
             heap[cur[r]] \in {Filled(cur[r]), MaskedOf(Filled(cur[r]))}
       /\ pc[r] \in Working \ {"complete", "resolvers"} /\ DefaultFirst =>
             TooLarge \notin Content(SentinelValue[cur[r]])
       /\ pc[r] \in {"respond", "encodeError"} /\ ~Public(Filled(cur[r])) =>
             heap[cur[r]] = MaskedOf(Filled(cur[r]))

\* Plain text has the one error, or the several. Logging it panics, or it is
\* public and all of the messages C are in its text.
Told(o) == IF o.errs # {} THEN UNION o.errs ELSE o.err
Tells(o, C) == {} \in LogAttrs(o) \/ (Public(o) /\ C \subseteq Told(o))

\* PrivateErrorsMasked, from the start of the call.
Conceals(r) ==
    /\ depth[r] = 0 /\ Given(r) # <<>> /\ TooLarge \notin Cause(r)
    /\ Private(Given(r)) /\ ~ByMethod(Given(r))

PrivateInv(r) ==
    Conceals(r) =>
       /\ pc[r] = "complete" /\ cur[r] = "own" =>
             ~Public(Complete(own[r])) /\ TooLarge \notin Content(own[r])
       /\ pc[r] = "resolvers" /\ cur[r] = "own" =>
             ~Public(own[r]) /\ TooLarge \notin Content(own[r])
       /\ pc[r] \in {"log", "mask"} /\ cur[r] = "own" => ~Public(own[r])
       /\ pc[r] \in {"respond", "encodeError"} /\ cur[r] = "own" =>
             own[r].err = {Text} /\ own[r].errs = {}
       /\ pc[r] = "done" => body[r].msgs = {Text}

\* PublicErrorsShown, from the start of the call.
Reveals(r) ==
    /\ MaskPrivate /\ depth[r] = 0 /\ Given(r) # <<>> /\ TooLarge \notin Cause(r)
    /\ ~Private(Given(r)) /\ ~ByMethod(Given(r))
    /\ ~Mixed(r) /\ (One(Given(r)) \/ ~Shared(r))

PublicInv(r) ==
    Reveals(r) =>
       /\ pc[r] = "complete" /\ cur[r] = "own" =>
             Tells(Complete(own[r]), Cause(r)) /\ TooLarge \notin Content(own[r])
       /\ pc[r] = "resolvers" /\ cur[r] = "own" =>
             Tells(own[r], Cause(r)) /\ TooLarge \notin Content(own[r])
       /\ pc[r] = "log" /\ cur[r] = "own" => Tells(own[r], Cause(r))
       /\ pc[r] \in {"mask", "respond", "encodeError"} /\ cur[r] = "own" =>
             Public(own[r]) /\ Cause(r) \subseteq Told(own[r])
       /\ pc[r] = "done" => Cause(r) \subseteq body[r].msgs

\* CauseLogged, from the start of the call.
CauseInv(r) ==
    (depth[r] = 0 /\ Given(r) # <<>> /\ TooLarge \notin Cause(r) /\ ~Mixed(r) /\ ~Shared(r)) =>
       /\ pc[r] = "complete" /\ cur[r] = "own" =>
             Covers(Complete(own[r]), Cause(r)) /\ TooLarge \notin Content(own[r])
       /\ pc[r] = "resolvers" /\ cur[r] = "own" =>
             Covers(own[r], Cause(r)) /\ TooLarge \notin Content(own[r])
       /\ pc[r] = "log" /\ cur[r] = "own" => Covers(own[r], Cause(r))
       /\ pc[r] \in {"mask", "respond", "encodeError", "done"} => Cause(r) \subseteq logged[r]

\* TooLargeIs413, from the start of the call.
TooLargeInv(r) ==
    (DefaultFirst /\ depth[r] = 0 /\ Given(r) # <<>> /\ TooLarge \in Cause(r) /\ ~Mixed(r)) =>
       /\ pc[r] = "complete" /\ cur[r] = "own" =>
             TooLarge \in Content(own[r]) \/ {} \in LogAttrs(Complete(own[r]))
       /\ pc[r] = "resolvers" /\ cur[r] = "own" =>
             TooLarge \in Content(own[r]) \/ {} \in LogAttrs(own[r])
       /\ pc[r] = "log" => /\ cur[r] = "own"
                           /\ own[r] = TooLargeError \/ {} \in LogAttrs(own[r])
       /\ pc[r] = "mask" => cur[r] = "own" /\ own[r] = TooLargeError
       /\ pc[r] \in {"respond", "encodeError"} =>
             /\ cur[r] = "own" /\ own[r].code = 413
             /\ ~MaskPrivate \/ own[r] = TooLargeError
       /\ pc[r] = "encodeError" /\ ~Stuck(r) => hdr[r] = 413 \/ call[r].early
       /\ pc[r] = "done" => /\ body[r] = [code |-> 413, msgs |-> {TooLarge}] \/ ~MaskPrivate
                            /\ hdr[r] = 413 \/ call[r].early

\* StatusAgrees, from the start of the call.
StatusInv(r) ==
    /\ pc[r] # "done" \/ Stuck(r) => body[r] = NoBody
    /\ ~call[r].early /\ call[r].op # "JSON" /\ ~Stuck(r) =>
          /\ pc[r] \in {"idle", "encodeValue", "resolve"} \cup (Working \ {"encodeError"}) => hdr[r] = 0
          /\ pc[r] = "encodeError" =>
                hdr[r] = IF cur[r] = "own" THEN own[r].code ELSE Filled(cur[r]).code
          /\ pc[r] = "done" /\ body[r] # NoBody => hdr[r] = body[r].code

RequestInv(r) ==
    /\ Control(r) /\ Pointing(r)
    /\ PrivateInv(r) /\ PublicInv(r) /\ CauseInv(r) /\ TooLargeInv(r) /\ StatusInv(r)

IInv == Typed /\ (\A s \in Sentinels : HeapInv(s)) /\ (\A r \in Requests : RequestInv(r))

-----------------------------------------------------------------------------
(* What is logged, and which resolver decides.                             *)

\* What is logged is some of Err and Errs, and all of Errs if there are any.
LEMMA LogAttrsFacts ==
    ASSUME NEW o \in Resolved
    PROVE  /\ o.errs \subseteq LogAttrs(o)
           /\ o.errs = {} => LogAttrs(o) = {o.err}
           /\ UNION LogAttrs(o) \subseteq Content(o)
           /\ UNION LogAttrs(o) \in Errors
  <1>1. LogAttrs(o) \in {{o.err}, o.errs, o.errs \cup {o.err}}
    BY DEF LogAttrs
  <1>2. o.errs \subseteq LogAttrs(o) /\ (o.errs = {} => LogAttrs(o) = {o.err})
    BY DEF LogAttrs
  <1>3. UNION LogAttrs(o) \subseteq Content(o)
    BY <1>1 DEF Content
  <1> QED
    BY <1>2, <1>3, ContentFacts DEF Errors

\* One *ResolvedError that has Err or Errs is logged whole.
LEMMA SingleCovers ==
    ASSUME NEW o \in Resolved, o.err = {} \/ o.errs = {}
    PROVE  Covers(Complete(o), Content(o))
  <1> DEFINE c == Complete(o)
  <1>1. c \in Resolved /\ c.errs = o.errs
        /\ c.err = (IF o.err = {} /\ UNION o.errs # {} THEN {Joined} \cup UNION o.errs ELSE o.err)
    BY CompleteFacts
  <1> HIDE DEF c
  <1>2. c.errs \subseteq LogAttrs(c) /\ (c.errs = {} => LogAttrs(c) = {c.err})
    BY <1>1, LogAttrsFacts
  <1>3. CASE o.errs = {}
    <2>1. UNION o.errs = {}
      BY <1>3
    <2>2. LogAttrs(c) = {o.err} /\ Content(o) = o.err
      BY <1>1, <1>2, <1>3, <2>1 DEF Content
    <2> QED
      BY <2>2 DEF Covers, c
  <1>4. CASE o.errs # {}
    <2>1. o.err = {} /\ o.errs \subseteq LogAttrs(c)
      BY <1>1, <1>2, <1>4
    <2>2. Content(o) = UNION o.errs
      BY <2>1 DEF Content
    <2>3. UNION o.errs \subseteq UNION LogAttrs(c)
      BY <2>1
    <2> QED
      BY <2>2, <2>3 DEF Covers, c
  <1> QED
    BY <1>3, <1>4

\* What an argument adds to a list of errors is nil, or all that is in it,
\* unless it has Err and Errs, or another request has masked it.
LEMMA ErrOfFacts ==
    ASSUME NEW a \in Arg, a.kind # "nil", ~HasBoth(a),
           a.kind = "sentinel" => heap[a.name] \in {SentinelValue[a.name], Filled(a.name)}
    PROVE  ErrOf(a) = {} \/ Messages(a) \subseteq ErrOf(a)
  <1>1. CASE a.kind = "plain"
    BY <1>1 DEF ErrOf, IsPointer, Messages
  <1>2. CASE a.kind # "plain"
    <2> DEFINE o == Original(a)
    <2>1. IsPointer(a) /\ o \in Resolved
      BY <1>2, ArgFacts DEF IsPointer, Origin
    <2>2. ErrOf(a) \in {o.err, Complete(o).err}
      BY <2>1, ArgFacts DEF ErrOf, IsPointer, Deref, Original, Filled
    <2>3. o.err = {} \/ o.errs = {}
      BY <2>1 DEF HasBoth, IsPointer
    <2>4. Messages(a) = o.err \cup UNION o.errs
      BY <1>2 DEF Messages, Content
    <2>5. Complete(o).err = (IF o.err = {} /\ UNION o.errs # {} THEN {Joined} \cup UNION o.errs
                             ELSE o.err)
      BY <2>1, CompleteFacts
    <2> HIDE DEF o
    <2> QED
      BY <2>2, <2>3, <2>4, <2>5
  <1> QED
    BY <1>1, <1>2

\* Nothing but an argument with the oversized body in it adds that to a list.
LEMMA ErrOfTooLarge ==
    ASSUME NEW a \in Arg, a.kind # "nil", TooLarge \in ErrOf(a),
           a.kind = "sentinel" =>
              heap[a.name] \in {SentinelValue[a.name], Filled(a.name), MaskedOf(Filled(a.name))}
    PROVE  TooLarge \in Messages(a)
  <1>1. CASE a.kind = "plain"
    BY <1>1 DEF ErrOf, IsPointer, Messages
  <1>2. CASE a.kind # "plain"
    <2> DEFINE o == Original(a)
    <2>1. IsPointer(a) /\ o \in Resolved /\ Messages(a) = Content(o)
      BY <1>2, ArgFacts DEF IsPointer, Origin
    <2>2. ErrOf(a) \in {o.err, Complete(o).err, MaskedOf(Complete(o)).err}
      BY <2>1, ArgFacts DEF ErrOf, IsPointer, Deref, Original, Filled
    <2>3. Complete(o) \in Resolved /\ Complete(o).code # 0
      BY <2>1, CompleteFacts
    <2>4. MaskedOf(Complete(o)).err = {Text}
      BY <2>3, MaskFacts
    <2>5. TooLarge \in Content(Complete(o)) <=> TooLarge \in Content(o)
      BY <2>1, ContentFacts
    <2>6. TooLarge # Text
      BY MsgsAssumption
    <2> HIDE DEF o
    <2> QED
      BY <2>1, <2>2, <2>4, <2>5, <2>6 DEF Content
  <1> QED
    BY <1>1, <1>2

\* The resolver with the answer.
Replaces(o) ==
    LET i == CHOOSE j \in Deciding(o) : \A k \in Deciding(o) : j <= k
    IN  Deciding(o) # {} /\ Answer(Resolvers[i], o).kind = "new"

\* Only an oversized body is replaced, by a 413, and it always is if the
\* default resolver comes first.
LEMMA ResolverFacts ==
    ASSUME NEW o \in Resolved
    PROVE  /\ Replaces(o) => TooLarge \in Content(o)
           /\ DefaultFirst /\ TooLarge \in Content(o) => Replaces(o)
           /\ LET i == CHOOSE j \in Deciding(o) : \A k \in Deciding(o) : j <= k
              IN  Replaces(o) => Answer(Resolvers[i], o).obj = TooLargeError
  <1> DEFINE i == CHOOSE j \in Deciding(o) : \A k \in Deciding(o) : j <= k
  <1>1. DOMAIN Resolvers \in SUBSET Nat /\ \A j \in DOMAIN Resolvers : j >= 1 /\ Resolvers[j] \in {"bodyLimit", "echo"}
    BY ResolversAssumption
  <1>2. Deciding(o) \in SUBSET Nat /\ Deciding(o) \subseteq DOMAIN Resolvers
    BY <1>1 DEF Deciding
  <1>3. Deciding(o) # {} => i \in Deciding(o) /\ \A k \in Deciding(o) : i <= k
    <2> SUFFICES ASSUME Deciding(o) # {} PROVE i \in Deciding(o) /\ \A k \in Deciding(o) : i <= k
      OBVIOUS
    <2>1. \E j \in Deciding(o) : \A k \in Deciding(o) : j <= k
      BY <1>2, LeastNatural
    <2> QED
      BY <2>1
  <1> HIDE DEF i
  <1>4. Replaces(o) <=> (Deciding(o) # {} /\ Answer(Resolvers[i], o).kind = "new")
    BY DEF Replaces, i
  <1>5. Replaces(o) => Resolvers[i] \in {"bodyLimit", "echo"}
    BY <1>1, <1>2, <1>3, <1>4
  <1>6. Replaces(o) => Resolvers[i] = "bodyLimit" /\ TooLarge \in Content(o)
                       /\ Answer(Resolvers[i], o).obj = TooLargeError
    BY <1>4, <1>5 DEF Answer, TooLargeError
  <1>7. ASSUME DefaultFirst, TooLarge \in Content(o) PROVE Replaces(o)
    <2>1. 1 \in Deciding(o)
      BY <1>7 DEF DefaultFirst, Deciding, Answer
    <2>2. i = 1
      BY <1>1, <1>2, <1>3, <2>1
    <2> QED
      BY <1>4, <1>7, <2>1, <2>2 DEF DefaultFirst, Answer
  <1> QED
    BY <1>6, <1>7 DEF i

-----------------------------------------------------------------------------
(* The errors of a request.                                                *)

Past(q) == depth[q] > 0 \/ pc[q] \in {"respond", "encodeError", "done"}

\* The arguments that are not nil are arguments of which none is nil.
LEMMA NonNilFacts ==
    ASSUME NEW list \in Seq(Arg)
    PROVE  IsArgs(NonNil(list))
  <1>1. Len(list) \in Nat
    OBVIOUS
  <1>2. DOMAIN list = 1..Len(list)
    OBVIOUS
  <1>3. \A i \in 1..Len(list) : list[i] \in Arg
    OBVIOUS
  <1> QED
    BY <1>1, <1>2, <1>3 DEF IsArgs, NonNil

\* What a handler hands over is a list of arguments, and none when it renders.
LEMMA GivenFacts ==
    ASSUME call \in [Requests -> Calls], NEW r \in Requests
    PROVE  /\ call[r].code \in Nat /\ call[r].early \in BOOLEAN /\ call[r].api \in BOOLEAN
           /\ call[r].op \in {"Error", "IfError", "ErrorWithCode", "JSON", "Buffered"}
           /\ IsArgs(Given(r))
           /\ Renders(r) => Given(r) = <<>>
           /\ One(Given(r)) => /\ Only(Given(r)) \in Arg /\ Only(Given(r)).kind # "nil"
                               /\ Cause(r) = Messages(Only(Given(r)))
                               /\ HasBoth(Only(Given(r))) => Mixed(r)
  <1>1. call[r] \in Calls
    OBVIOUS
  <1>2. /\ call[r].code \in Nat /\ call[r].early \in BOOLEAN /\ call[r].api \in BOOLEAN
        /\ call[r].op \in {"Error", "IfError", "ErrorWithCode", "JSON", "Buffered"}
        /\ call[r].args \in Seq(Arg) /\ call[r].msgs \in Seq(Errors)
    BY <1>1, CallsAssumption
  <1>3. Renders(r) => Given(r) = <<>>
    BY DEF Renders, Given
  <1>4. IsArgs(Given(r))
    <2>1. CASE Renders(r)
      BY <1>3, <2>1 DEF IsArgs
    <2>2. CASE call[r].op = "ErrorWithCode"
      <3>1. Given(r) = <<Pointer(WithCode(call[r].code, call[r].msgs))>>
        BY <2>2 DEF Given
      <3> QED
        BY <1>2, <3>1, WithCodeFacts
    <2>3. CASE call[r].op \in {"Error", "IfError"}
      <3>1. Given(r) = NonNil(call[r].args)
        BY <2>3 DEF Given
      <3> QED
        BY <1>2, <3>1, NonNilFacts
    <2> QED
      BY <1>2, <2>1, <2>2, <2>3 DEF Renders
  <1>5. ASSUME One(Given(r))
        PROVE  /\ Only(Given(r)) \in Arg /\ Only(Given(r)).kind # "nil"
               /\ Cause(r) = Messages(Only(Given(r)))
               /\ HasBoth(Only(Given(r))) => Mixed(r)
    <2> DEFINE list == Given(r)
               k == CHOOSE i \in DOMAIN list : TRUE
    <2>1. PICK i \in DOMAIN list : DOMAIN list = {i}
      BY <1>5 DEF One
    <2>2. k = i /\ Only(list) = list[i]
      BY <2>1 DEF Only
    <2>3. list[i] \in Arg /\ list[i].kind # "nil"
      BY <1>4, <2>1 DEF IsArgs
    <2>4. Cause(r) = Messages(list[i])
      <3>1. Cause(r) = UNION {Messages(list[j]) : j \in DOMAIN list}
        BY DEF Cause
      <3> HIDE DEF list
      <3>2. {Messages(list[j]) : j \in DOMAIN list} = {Messages(list[i])}
        BY <2>1
      <3> QED
        BY <3>1, <3>2
    <2>5. HasBoth(list[i]) => Mixed(r)
      BY <2>1 DEF Mixed
    <2> QED
      BY <2>2, <2>3, <2>4, <2>5
  <1> QED
    BY <1>2, <1>3, <1>4, <1>5

\* The calls do not change, nor what is said of them.
LEMMA Fixed ==
    ASSUME call' = call, NEW r \in Requests
    PROVE  /\ Given(r)' = Given(r) /\ Cause(r)' = Cause(r)
           /\ Mixed(r)' = Mixed(r) /\ Shared(r)' = Shared(r)
           /\ Renders(r)' = Renders(r) /\ Stuck(r)' = Stuck(r)
           /\ \A s : Sole(r, s)' = Sole(r, s)
           /\ depth'[r] = depth[r] => (Conceals(r)' <=> Conceals(r)) /\ (Reveals(r)' <=> Reveals(r))
  <1>1. Renders(r)' = Renders(r) /\ Stuck(r)' = Stuck(r)
    BY DEF Renders, Stuck
  <1>2. \A q : Given(q)' = Given(q)
    BY DEF Given
  <1>3. Cause(r)' = Cause(r) /\ Mixed(r)' = Mixed(r)
    BY <1>2 DEF Cause, Mixed
  <1>4. Shared(r)' = Shared(r)
    BY <1>2, Zenon DEF Shared
  <1>5. \A s : Sole(r, s)' = Sole(r, s)
    BY <1>2, Zenon DEF Sole
  <1>6. /\ (Private(Given(r))' <=> Private(Given(r)))
        /\ (ByMethod(Given(r))' <=> ByMethod(Given(r))) /\ (One(Given(r))' <=> One(Given(r)))
    BY <1>2, Zenon
  <1>7. depth'[r] = depth[r] => (Conceals(r)' <=> Conceals(r)) /\ (Reveals(r)' <=> Reveals(r))
    BY <1>2, <1>3, <1>4, <1>6 DEF Conceals, Reveals
  <1> QED
    BY <1>1, <1>2, <1>3, <1>4, <1>5, <1>7

\* A *ResolvedError no other request reports is not masked before this one
\* masks it.
LEMMA NotMasked ==
    ASSUME \A s \in Sentinels : HeapInv(s), NEW r \in Requests, ~Shared(r), ~Past(r),
           NEW i \in DOMAIN Given(r), NEW s \in Sentinels, Given(r)[i] = Sentinel(s),
           call \in [Requests -> Calls]
    PROVE  heap[s] \in {SentinelValue[s], Filled(s)}
  <1> SUFFICES ASSUME heap[s] \notin {SentinelValue[s], Filled(s)} PROVE FALSE
    OBVIOUS
  <1>1. PICK q \in Requests : Sole(q, s) /\ Past(q)
    BY DEF HeapInv, Past
  <1>2. q # r
    BY <1>1
  <1>3. PICK j \in DOMAIN Given(q) : DOMAIN Given(q) = {j}
    BY <1>1 DEF Sole, One
  <1>4. Only(Given(q)) = Given(q)[j]
    <2> DEFINE list == Given(q)
    <2>1. DOMAIN list = {j}
      BY <1>3
    <2> HIDE DEF list
    <2>2. Only(list) = list[j]
      BY <2>1 DEF Only
    <2> QED
      BY <2>2 DEF list
  <1>5. Given(q)[j] = Given(r)[i]
    BY <1>1, <1>4 DEF Sole
  <1>6. Given(r)[i].kind = "sentinel"
    BY DEF Sentinel
  <1> QED
    BY <1>2, <1>3, <1>5, <1>6 DEF Shared

\* Reported alone, it is in the request's errors.
LEMMA SoleFacts ==
    ASSUME call \in [Requests -> Calls], NEW r \in Requests, NEW s \in Sentinels, Sole(r, s)
    PROVE  /\ \E i \in DOMAIN Given(r) : Given(r)[i] = Sentinel(s)
           /\ Origin(Only(Given(r))) = SentinelValue[s]
           /\ Cause(r) = Content(SentinelValue[s]) /\ One(Given(r))
           /\ Given(r) # <<>>
           /\ ~Mixed(r) => SentinelValue[s].err = {} \/ SentinelValue[s].errs = {}
           /\ SentinelValue[s] \in Resolved /\ Filled(s) \in Resolved /\ Filled(s).code # 0
  <1>1. One(Given(r)) /\ Only(Given(r)) = Sentinel(s)
    BY DEF Sole
  <1>2. PICK i \in DOMAIN Given(r) : DOMAIN Given(r) = {i}
    BY <1>1 DEF One
  <1>3. Given(r)[i] = Sentinel(s)
    <2> DEFINE list == Given(r)
    <2>1. DOMAIN list = {i}
      BY <1>2
    <2> HIDE DEF list
    <2>2. Only(list) = list[i]
      BY <2>1 DEF Only
    <2> QED
      BY <1>1, <2>2 DEF list
  <1>4. Sentinel(s).kind = "sentinel" /\ Sentinel(s).name = s
    BY DEF Sentinel
  <1>5. Origin(Sentinel(s)) = SentinelValue[s] /\ Messages(Sentinel(s)) = Content(SentinelValue[s])
    BY <1>4 DEF Origin, Messages, Original
  <1>6. ~Mixed(r) => SentinelValue[s].err = {} \/ SentinelValue[s].errs = {}
    BY <1>1, <1>4, GivenFacts DEF HasBoth, Original
  <1>7. SentinelValue[s] \in Resolved /\ Filled(s) \in Resolved /\ Filled(s).code # 0
    BY SentinelAssumption, CompleteFacts DEF Filled
  <1>8. Given(r) # <<>>
    BY <1>2
  <1>9. Cause(r) = Content(SentinelValue[s])
    BY <1>1, <1>5, GivenFacts
  <1> QED
    BY <1>1, <1>2, <1>3, <1>5, <1>6, <1>7, <1>8, <1>9

\* Several errors together cover all that is in them, if nothing is masked.
LEMMA CollectCovers ==
    ASSUME call \in [Requests -> Calls], heap \in [Sentinels -> Resolved],
           \A s \in Sentinels : HeapInv(s),
           NEW r \in Requests, ~Past(r)
    PROVE  LET o == Collect(Given(r))
           IN  /\ ~Mixed(r) /\ ~Shared(r) => Covers(Complete(o), Cause(r))
               /\ ~Mixed(r) /\ DefaultFirst /\ TooLarge \in Cause(r) =>
                     TooLarge \in Content(o) \/ {} \in LogAttrs(Complete(o))
               /\ TooLarge \notin Cause(r) => TooLarge \notin Content(o)
  <1> DEFINE list == Given(r)
             o == Collect(list)
  <1>1. IsArgs(list) /\ \A i \in DOMAIN list : list[i] \in Arg /\ list[i].kind # "nil"
    BY GivenFacts DEF IsArgs
  <1>2. o \in Resolved /\ o.err = {} /\ o.errs = {ErrOf(list[i]) : i \in DOMAIN list}
    BY <1>1, CollectFacts
  <1>3. Cause(r) = UNION {Messages(list[i]) : i \in DOMAIN list}
    BY DEF Cause
  <1>4. ~Mixed(r) => \A i \in DOMAIN list : ~HasBoth(list[i])
    BY DEF Mixed
  <1>5. \A i \in DOMAIN list : list[i].kind = "sentinel" =>
           list[i].name \in Sentinels /\ list[i] = Sentinel(list[i].name)
    BY <1>1, ArgFacts
  <1>6. \A i \in DOMAIN list : list[i].kind = "sentinel" =>
           heap[list[i].name] \in {SentinelValue[list[i].name], Filled(list[i].name),
                                 MaskedOf(Filled(list[i].name))}
    BY <1>5 DEF HeapInv
  <1>7. ~Shared(r) => \A i \in DOMAIN list : list[i].kind = "sentinel" =>
           heap[list[i].name] \in {SentinelValue[list[i].name], Filled(list[i].name)}
    BY <1>5, NotMasked
  <1>8. DefaultFirst => \A i \in DOMAIN list :
           list[i].kind = "sentinel" /\ TooLarge \in Messages(list[i]) =>
              heap[list[i].name] \in {SentinelValue[list[i].name], Filled(list[i].name)}
    BY <1>5 DEF HeapInv, Messages, Original
  <1>9. o.errs \subseteq LogAttrs(Complete(o))
    <2>1. Complete(o) \in Resolved /\ Complete(o).errs = o.errs
      BY <1>2, CompleteFacts
    <2> QED
      BY <2>1, LogAttrsFacts
  <1> HIDE DEF list
  <1>10. Content(o) = UNION o.errs
    BY <1>2 DEF Content
  <1>11. \A i \in DOMAIN list : ErrOf(list[i]) \in o.errs
    BY <1>2
  <1> HIDE DEF o
  <1>12. ASSUME ~Mixed(r), ~Shared(r) PROVE Covers(Complete(o), Cause(r))
    <2>1. \A i \in DOMAIN list : ErrOf(list[i]) = {} \/ Messages(list[i]) \subseteq ErrOf(list[i])
      BY <1>1, <1>4, <1>7, <1>12, ErrOfFacts
    <2>2. CASE \E i \in DOMAIN list : ErrOf(list[i]) = {}
      BY <1>9, <1>11, <2>2 DEF Covers
    <2>3. CASE \A i \in DOMAIN list : Messages(list[i]) \subseteq ErrOf(list[i])
      <3>1. ASSUME NEW m \in Cause(r) PROVE m \in UNION LogAttrs(Complete(o))
        <4>1. PICK i \in DOMAIN list : m \in Messages(list[i])
          BY <1>3
        <4>2. m \in ErrOf(list[i]) /\ ErrOf(list[i]) \in LogAttrs(Complete(o))
          BY <1>9, <1>11, <2>3, <4>1
        <4> QED
          BY <4>2
      <3> QED
        BY <3>1 DEF Covers
    <2> QED
      BY <2>1, <2>2, <2>3
  <1>13. ASSUME ~Mixed(r), DefaultFirst, TooLarge \in Cause(r)
         PROVE  TooLarge \in Content(o) \/ {} \in LogAttrs(Complete(o))
    <2>1. PICK i \in DOMAIN list : TooLarge \in Messages(list[i])
      BY <1>3, <1>13
    <2>2. ErrOf(list[i]) = {} \/ Messages(list[i]) \subseteq ErrOf(list[i])
      BY <1>1, <1>4, <1>8, <1>13, <2>1, ErrOfFacts
    <2> QED
      BY <1>9, <1>10, <1>11, <2>1, <2>2
  <1>14. ASSUME TooLarge \notin Cause(r) PROVE TooLarge \notin Content(o)
    <2> SUFFICES ASSUME TooLarge \in Content(o) PROVE FALSE
      OBVIOUS
    <2>1. PICK i \in DOMAIN list : TooLarge \in ErrOf(list[i])
      BY <1>2, <1>10 DEF o
    <2>2. TooLarge \in Messages(list[i])
      BY <1>1, <1>6, <2>1, ErrOfTooLarge
    <2> QED
      BY <1>3, <1>14, <2>2
  <1> QED
    BY <1>12, <1>13, <1>14 DEF o, list

-----------------------------------------------------------------------------
(* What is private.                                                        *)

\* A Public() method is that of a single error: what errors.Join makes, the
\* status text and nil have none.
LEMMA MethodFacts ==
    /\ \A e : IsExposableError(e) => HasMethod(e)
    /\ ~HasMethod({Text}) /\ ~HasMethod({}) /\ \A x : ~HasMethod({Joined} \cup x)
  <1>1. \A e : IsExposableError(e) => HasMethod(e)
    BY DEF IsExposableError, HasMethod
  <1>2. Text \notin Exposes \cup Hides /\ Joined \notin Exposes \cup Hides
    BY MsgsAssumption
  <1>3. ~HasMethod({Text}) /\ ~HasMethod({})
    BY <1>2 DEF HasMethod
  <1>4. \A x : ~HasMethod({Joined} \cup x)
    BY <1>2 DEF HasMethod
  <1> QED
    BY <1>1, <1>3, <1>4

\* For one error, the docs and the code agree on what is private, unless it
\* has a Public() method.
LEMMA OneFacts ==
    ASSUME call \in [Requests -> Calls], NEW r \in Requests, One(Given(r)), ~ByMethod(Given(r))
    PROVE  /\ Origin(Only(Given(r))) \in Resolved
           /\ Cause(r) = Content(Origin(Only(Given(r))))
           /\ Private(Given(r)) <=> ~Public(Complete(Origin(Only(Given(r)))))
           /\ ~Mixed(r) => Cause(r) \subseteq Told(Complete(Origin(Only(Given(r)))))
  <1> DEFINE list == Given(r)
             b == Origin(Only(list))
             c == Complete(b)
  <1>1. Only(list) \in Arg /\ Only(list).kind # "nil" /\ Cause(r) = Messages(Only(list))
        /\ (HasBoth(Only(list)) => Mixed(r))
    BY GivenFacts
  <1>2. b \in Resolved /\ Cause(r) = Content(b)
    BY <1>1, ArgFacts
  <1>3. PICK i : DOMAIN list = {i}
    BY DEF One
  <1> HIDE DEF list
  <1>4. Only(list) = list[i]
    BY <1>3 DEF Only
  <1>5. ServerError(list) <=> (b.code >= 500 \/ b.code = 0)
    BY <1>3, <1>4 DEF ServerError
  <1>6. One(list)
    BY DEF list
  <1>7. b.vis = "unknown" => ~HasMethod(b.err) /\ (b.errs # {} => \E e \in b.errs : ~HasMethod(e))
    <2> SUFFICES ASSUME b.vis = "unknown"
                 PROVE  ~HasMethod(b.err) /\ (b.errs # {} => \E e \in b.errs : ~HasMethod(e))
      OBVIOUS
    <2>1. \A j \in DOMAIN list : list[j] = Only(list)
      BY <1>3, <1>4
    <2>2. ~ByMethod(list)
      BY DEF list
    <2> QED
      BY <1>6, <2>1, <2>2 DEF ByMethod
  <1>8. Private(list) <=> IF b.vis # "unknown" THEN b.vis = "masked" ELSE ServerError(list)
    BY <1>6 DEF Private
  <1> HIDE DEF b
  <1>9. /\ c.errs = b.errs /\ c.vis = b.vis /\ c.code = (IF b.code = 0 THEN 500 ELSE b.code)
        /\ c.err = (IF b.err = {} /\ UNION b.errs # {} THEN {Joined} \cup UNION b.errs ELSE b.err)
    BY <1>2, CompleteFacts
  <1> HIDE DEF c
  <1>10. b.vis \in {"unknown", "public", "masked"} /\ b.code \in Nat
    BY <1>2 DEF Resolved, Visibility
  <1>11. b.vis # "unknown" => (Private(list) <=> ~Public(c))
    BY <1>8, <1>9, <1>10 DEF Public
  <1>12. b.vis = "unknown" => (Private(list) <=> ~Public(c))
    <2> SUFFICES ASSUME b.vis = "unknown" PROVE Private(list) <=> ~Public(c)
      OBVIOUS
    <2>1. ~HasMethod(c.err)
      BY <1>7, <1>9, MethodFacts
    <2>2. ~IsExposableError(c.err) /\ ~(c.errs # {} /\ \A e \in c.errs : IsExposableError(e))
      BY <1>7, <1>9, <2>1, MethodFacts
    <2>3. Public(c) <=> c.code \in 1..499
      BY <1>9, <2>2 DEF Public
    <2>4. c.code \in 1..499 <=> ~(b.code >= 500 \/ b.code = 0)
      BY <1>9, <1>10
    <2> QED
      BY <1>5, <1>8, <2>3, <2>4
  <1>13. ASSUME ~Mixed(r) PROVE Cause(r) \subseteq Told(c)
    <2>1. b.err = {} \/ b.errs = {}
      <3>1. CASE Only(list).kind = "plain"
        <4>1. Only(list).err \in Errors
          BY <1>1, <3>1, ArgFacts
        <4>2. b.errs = {}
          BY <3>1, <4>1, FreshFacts, Members DEF Origin, b
        <4> QED
          BY <4>2
      <3>2. CASE Only(list).kind # "plain"
        BY <1>1, <1>13, <3>2, ArgFacts DEF Origin, HasBoth, b
      <3> QED
        BY <3>1, <3>2
    <2>2. CASE b.errs = {}
      <3>1. UNION b.errs = {}
        BY <2>2
      <3> QED
        BY <1>2, <1>9, <2>2, <3>1 DEF Told, Content
    <2>3. CASE b.errs # {}
      BY <1>2, <1>9, <2>1, <2>3 DEF Told, Content
    <2> QED
      BY <2>2, <2>3
  <1> QED
    BY <1>2, <1>11, <1>12, <1>13 DEF b, c, list

\* A *ResolvedError that is reported among others, and by no other request, is
\* as it was made.
LEMMA NotFilled ==
    ASSUME \A s \in Sentinels : HeapInv(s), NEW r \in Requests, ~Shared(r), ~One(Given(r)),
           NEW i \in DOMAIN Given(r), NEW s \in Sentinels, Given(r)[i] = Sentinel(s)
    PROVE  heap[s] = SentinelValue[s]
  <1> SUFFICES ASSUME heap[s] # SentinelValue[s] PROVE FALSE
    OBVIOUS
  <1>1. PICK q \in Requests : Sole(q, s)
    BY DEF HeapInv
  <1>2. q # r
    BY <1>1 DEF Sole
  <1>3. PICK j \in DOMAIN Given(q) : DOMAIN Given(q) = {j}
    BY <1>1 DEF Sole, One
  <1>4. Only(Given(q)) = Given(q)[j]
    <2> DEFINE list == Given(q)
    <2>1. DOMAIN list = {j}
      BY <1>3
    <2> HIDE DEF list
    <2>2. Only(list) = list[j]
      BY <2>1 DEF Only
    <2> QED
      BY <2>2 DEF list
  <1>5. Given(q)[j] = Given(r)[i]
    BY <1>1, <1>4 DEF Sole
  <1>6. Given(r)[i].kind = "sentinel"
    BY DEF Sentinel
  <1> QED
    BY <1>2, <1>3, <1>5, <1>6 DEF Shared

\* Of several errors, what the docs call private the code does not show, and
\* what they call public it does, whoever else has filled in or masked one of
\* them meanwhile.
LEMMA SeveralFacts ==
    ASSUME call \in [Requests -> Calls], heap \in [Sentinels -> Resolved],
           \A s \in Sentinels : HeapInv(s),
           NEW r \in Requests, ~One(Given(r)), ~ByMethod(Given(r))
    PROVE  LET o == Complete(Collect(Given(r)))
           IN  /\ Private(Given(r)) => ~Public(o)
               /\ ~Private(Given(r)) /\ ~Mixed(r) /\ ~Shared(r) => Tells(o, Cause(r))
  <1> DEFINE list == Given(r)
             o == Collect(list)
             c == Complete(o)
  <1>1. IsArgs(list) /\ \A i \in DOMAIN list : list[i] \in Arg /\ list[i].kind # "nil"
    BY GivenFacts DEF IsArgs
  <1>2. /\ o \in Resolved /\ o.err = {} /\ o.errs = {ErrOf(list[i]) : i \in DOMAIN list}
        /\ o.vis = "unknown"
        /\ \A i \in DOMAIN list : IsPointer(list[i]) => Deref(list[i]).code <= o.code
        /\ o.code = 0 \/ \E i \in DOMAIN list : IsPointer(list[i]) /\ Deref(list[i]).code = o.code
    BY <1>1, CollectFacts
  <1>3. Cause(r) = UNION {Messages(list[i]) : i \in DOMAIN list}
    BY DEF Cause
  <1>4. ~Mixed(r) => \A i \in DOMAIN list : ~HasBoth(list[i])
    BY DEF Mixed
  <1>5. \A i \in DOMAIN list : list[i].kind = "sentinel" =>
           list[i].name \in Sentinels /\ list[i] = Sentinel(list[i].name)
    BY <1>1, ArgFacts
  <1>6. \A i \in DOMAIN list : list[i].kind = "sentinel" =>
           heap[list[i].name] \in {SentinelValue[list[i].name], Filled(list[i].name),
                                 MaskedOf(Filled(list[i].name))}
    BY <1>5 DEF HeapInv
  <1>7. ~Shared(r) => \A i \in DOMAIN list : list[i].kind = "sentinel" =>
           heap[list[i].name] = SentinelValue[list[i].name]
    BY <1>5, NotFilled
  <1>8. ~One(list) /\ (\E i \in DOMAIN list : ~HasMethod(Origin(list[i]).err))
        /\ (Private(list) <=> ServerError(list))
    BY DEF ByMethod, Private
  <1> HIDE DEF list, o
  <1>9. c.errs = o.errs /\ c.vis = "unknown" /\ c.code = (IF o.code = 0 THEN 500 ELSE o.code)
        /\ c.err = (IF o.err = {} /\ UNION o.errs # {} THEN {Joined} \cup UNION o.errs ELSE o.err)
        /\ c \in Resolved
    BY <1>2, CompleteFacts
  <1> HIDE DEF c
  <1>10. o.code \in Nat
    BY <1>2 DEF Resolved
  \* What an argument is by now, against what it was.
  <1>11. ASSUME NEW i \in DOMAIN list
         PROVE  LET a == list[i]
                IN  /\ Origin(a) \in Resolved /\ Origin(a).code \in Nat
                    /\ ErrOf(a) \in {Origin(a).err, Complete(Origin(a)).err, {Text}}
                    /\ IsPointer(a) => Deref(a).code \in {Origin(a).code, Complete(Origin(a)).code}
                    /\ ~IsPointer(a) => Origin(a).code = 0
                    /\ IsPointer(a) /\ ~Shared(r) => Deref(a).code = Origin(a).code
    <2> DEFINE a == list[i]
               b == Origin(a)
    <2>1. /\ a.kind = "plain" => a.err \in Errors /\ a.err # {}
          /\ a.kind = "fresh" => a.obj \in Resolved
          /\ a.kind = "sentinel" => a.name \in Sentinels
          /\ a.kind \in {"plain", "fresh", "sentinel"}
          /\ b \in Resolved
      BY <1>1, ArgFacts
    <2>2. b.code \in Nat
      BY <2>1 DEF Resolved
    <2>3. CASE a.kind = "plain"
      <3>1. b = Fresh(a.err, {}, 0, "unknown")
        BY <2>3 DEF Origin
      <3>2. b.err = a.err /\ b.code = 0
        BY <2>1, <2>3, <3>1, FreshFacts, Members
      <3> QED
        BY <2>1, <2>2, <2>3, <3>2 DEF ErrOf, IsPointer
    <2>4. CASE a.kind = "fresh"
      BY <2>1, <2>2, <2>4 DEF ErrOf, IsPointer, Deref, Origin, Original
    <2>5. CASE a.kind = "sentinel"
      <3>1. b = SentinelValue[a.name] /\ Deref(a) = heap[a.name]
        BY <2>5 DEF Origin, Original, Deref
      <3>2. heap[a.name] \in {b, Complete(b), MaskedOf(Complete(b))}
        BY <1>6, <2>5, <3>1 DEF Filled
      <3>3. Complete(b) \in Resolved /\ Complete(b).code # 0
        BY <2>1, CompleteFacts
      <3>4. MaskedOf(Complete(b)).err = {Text} /\ MaskedOf(Complete(b)).code = Complete(b).code
        BY <3>3, MaskFacts
      <3>5. ~Shared(r) => heap[a.name] = b
        BY <1>7, <2>5, <3>1
      <3>6. IsPointer(a) /\ ErrOf(a) = heap[a.name].err
        BY <2>5, <3>1 DEF ErrOf, IsPointer
      <3> DEFINE m == MaskedOf(Complete(b))
      <3> HIDE DEF m
      <3>7. heap[a.name] \in {b, Complete(b), m} /\ m.err = {Text} /\ m.code = Complete(b).code
        BY <3>2, <3>4 DEF m
      <3> HIDE DEF b
      <3>8. heap[a.name].err \in {b.err, Complete(b).err, {Text}}
            /\ heap[a.name].code \in {b.code, Complete(b).code}
        BY <3>7
      <3> QED
        BY <2>1, <2>2, <3>1, <3>5, <3>6, <3>8 DEF b
    <2> QED
      BY <2>1, <2>3, <2>4, <2>5
  <1>12. ASSUME NEW i \in DOMAIN list
         PROVE  Complete(Origin(list[i])).code = IF Origin(list[i]).code = 0 THEN 500 ELSE Origin(list[i]).code
    BY <1>11, CompleteFacts
  <1>13. ~IsExposableError(c.err)
    <2>1. ~HasMethod(c.err)
      BY <1>2, <1>9, MethodFacts
    <2> QED
      BY <2>1, MethodFacts
  <1>14. ~(\A e \in c.errs : IsExposableError(e))
    <2>1. PICK i \in DOMAIN list : ~HasMethod(Origin(list[i]).err)
      BY <1>8
    <2> DEFINE b == Origin(list[i])
    <2>2. b \in Resolved /\ ErrOf(list[i]) \in {b.err, Complete(b).err, {Text}}
      BY <1>11
    <2>3. ~HasMethod(b.err)
      BY <2>1
    <2> HIDE DEF b
    <2>4. Complete(b).err = (IF b.err = {} /\ UNION b.errs # {} THEN {Joined} \cup UNION b.errs ELSE b.err)
      BY <2>2, CompleteFacts
    <2>5. ~HasMethod(Complete(b).err)
      BY <2>3, <2>4, MethodFacts
    <2>6. ~HasMethod(ErrOf(list[i]))
      BY <2>2, <2>3, <2>5, MethodFacts
    <2>7. ErrOf(list[i]) \in c.errs
      BY <1>2, <1>9
    <2> QED
      BY <2>6, <2>7, MethodFacts
  <1>15. Public(c) <=> c.code \in 1..499
    BY <1>9, <1>13, <1>14 DEF Public
  <1>16. ASSUME ServerError(list) PROVE ~(c.code \in 1..499)
    <2>1. CASE \E i \in DOMAIN list : Origin(list[i]).code >= 500
      <3>1. PICK i \in DOMAIN list : Origin(list[i]).code >= 500
        BY <2>1
      <3>2. IsPointer(list[i]) /\ Deref(list[i]).code = Origin(list[i]).code
        <4>1. Origin(list[i]).code # 0
          BY <3>1
        <4> QED
          BY <1>11, <1>12, <4>1
      <3>3. Deref(list[i]).code <= o.code
        BY <1>2, <3>2
      <3>4. Origin(list[i]).code \in Nat
        BY <1>11
      <3>5. o.code >= 500
        BY <1>10, <3>1, <3>2, <3>3, <3>4
      <3> QED
        BY <1>9, <1>10, <3>5
    <2>2. CASE \A i \in DOMAIN list : Origin(list[i]).code = 0
      <3>1. \A i \in DOMAIN list : IsPointer(list[i]) => Deref(list[i]).code \in {0, 500}
        BY <1>11, <1>12, <2>2
      <3>2. o.code \in {0, 500}
        BY <1>2, <3>1
      <3> QED
        BY <1>9, <3>2
    <2> QED
      BY <1>16, <2>1, <2>2 DEF ServerError
  <1>17. ASSUME ~ServerError(list), ~Shared(r) PROVE c.code \in 1..499
    <2>1. \A i \in DOMAIN list : ~(Origin(list[i]).code >= 500)
      BY <1>17 DEF ServerError
    <2>2. PICK i \in DOMAIN list : Origin(list[i]).code # 0
      BY <1>17 DEF ServerError
    <2>3. IsPointer(list[i]) /\ Deref(list[i]).code = Origin(list[i]).code /\ Origin(list[i]).code \in Nat
      BY <1>11, <1>17, <2>2
    <2>4. Deref(list[i]).code <= o.code
      BY <1>2, <2>3
    <2>5. o.code # 0
      BY <1>10, <2>2, <2>3, <2>4
    <2>6. PICK j \in DOMAIN list : IsPointer(list[j]) /\ Deref(list[j]).code = o.code
      BY <1>2, <2>5
    <2>7. o.code = Origin(list[j]).code
      BY <1>11, <1>17, <2>6
    <2>8. ~(o.code >= 500)
      BY <2>1, <2>7
    <2> HIDE <2>1
    <2> QED
      BY <1>9, <1>10, <2>5, <2>8
  <1>18. ASSUME ~Mixed(r), ~Shared(r) PROVE {} \in LogAttrs(c) \/ Cause(r) \subseteq Told(c)
    <2>1. \A i \in DOMAIN list : ErrOf(list[i]) = {} \/ Messages(list[i]) \subseteq ErrOf(list[i])
      BY <1>1, <1>4, <1>7, <1>18, ErrOfFacts
    <2>2. c.errs \subseteq LogAttrs(c)
      BY <1>9, LogAttrsFacts
    <2>3. CASE \E i \in DOMAIN list : ErrOf(list[i]) = {}
      BY <1>2, <1>9, <2>2, <2>3
    <2>4. CASE \A i \in DOMAIN list : Messages(list[i]) \subseteq ErrOf(list[i])
      <3>1. \A i \in DOMAIN list : ErrOf(list[i]) \in c.errs
        BY <1>2, <1>9
      <3>2. ASSUME NEW m \in Cause(r) PROVE m \in Told(c)
        <4>1. PICK i \in DOMAIN list : m \in Messages(list[i])
          BY <1>3
        <4>2. m \in ErrOf(list[i]) /\ ErrOf(list[i]) \in c.errs
          BY <2>4, <3>1, <4>1
        <4> QED
          BY <4>2 DEF Told
      <3> QED
        BY <3>2
    <2> QED
      BY <2>1, <2>3, <2>4
  <1> QED
    BY <1>8, <1>15, <1>16, <1>17, <1>18 DEF Tells, c, o, list

-----------------------------------------------------------------------------
(* Steps.                                                                  *)

\* Everything of request q is as it was.
Same(q) ==
    /\ pc'[q] = pc[q] /\ args'[q] = args[q] /\ cur'[q] = cur[q] /\ own'[q] = own[q]
    /\ hdr'[q] = hdr[q] /\ body'[q] = body[q] /\ logged'[q] = logged[q] /\ depth'[q] = depth[q]

\* What any request may do to a shared *ResolvedError: fill it in, mask it.
HeapStep ==
    \A s \in Sentinels :
       /\ heap[s] \in {Filled(s), MaskedOf(Filled(s))} => heap'[s] \in {Filled(s), MaskedOf(Filled(s))}
       /\ heap[s] = MaskedOf(Filled(s)) => heap'[s] = MaskedOf(Filled(s))

\* What r does leaves the other requests' part of the invariant alone.
LEMMA Others ==
    ASSUME NEW q \in Requests, RequestInv(q), Same(q), call' = call, HeapStep, cur[q] \in {"own"} \cup Sentinels
    PROVE  RequestInv(q)'
  <1>1. /\ Given(q)' = Given(q) /\ Cause(q)' = Cause(q) /\ Mixed(q)' = Mixed(q)
        /\ Shared(q)' = Shared(q) /\ Renders(q)' = Renders(q) /\ Stuck(q)' = Stuck(q)
        /\ depth'[q] = depth[q] => (Conceals(q)' <=> Conceals(q)) /\ (Reveals(q)' <=> Reveals(q))
        /\ \A s : Sole(q, s)' = Sole(q, s)
    BY Fixed
  <1>2. Control(q)'
    BY <1>1 DEF RequestInv, Control, Same
  <1>3. Pointing(q)'
    <2> SUFFICES ASSUME cur[q] # "own" PROVE Pointing(q)'
      BY DEF Same, Pointing
    <2>1. cur[q] \in Sentinels /\ Pointing(q)
      BY DEF RequestInv
    <2> QED
      BY <1>1, <2>1 DEF Pointing, Same, HeapStep
  <1>4. PrivateInv(q)' /\ PublicInv(q)'
    BY <1>1 DEF RequestInv, PrivateInv, PublicInv, Same
  <1>5. CauseInv(q)'
    BY <1>1 DEF RequestInv, CauseInv, Same
  <1>6. TooLargeInv(q)'
    BY <1>1 DEF RequestInv, TooLargeInv, Same
  <1>7. StatusInv(q)'
    BY <1>1 DEF RequestInv, StatusInv, Same
  <1> QED
    BY <1>2, <1>3, <1>4, <1>5, <1>6, <1>7 DEF RequestInv

\* A shared *ResolvedError that nobody touches.
LEMMA HeapFrame ==
    ASSUME NEW s \in Sentinels, HeapInv(s), heap'[s] = heap[s], call' = call,
           \A q \in Requests : Past(q) => Past(q)'
    PROVE  HeapInv(s)'
  <1>1. \A q \in Requests : Sole(q, s)' = Sole(q, s)
    BY Fixed
  <1>2. heap[s] \notin {SentinelValue[s], Filled(s)} => \E q \in Requests : Sole(q, s)' /\ Past(q)'
    <2> SUFFICES ASSUME heap[s] \notin {SentinelValue[s], Filled(s)}
                 PROVE  \E q \in Requests : Sole(q, s)' /\ Past(q)'
      OBVIOUS
    <2>1. PICK q \in Requests : Sole(q, s) /\ Past(q)
      BY DEF HeapInv, Past
    <2> QED
      BY <1>1, <2>1
  <1>3. heap[s] # SentinelValue[s] => \E q \in Requests : Sole(q, s)'
    BY <1>1 DEF HeapInv
  <1> QED
    BY <1>2, <1>3 DEF HeapInv, Past

\* The rest of the invariant follows from the part of the request that moves,
\* if it leaves the shared *ResolvedError values alone.
LEMMA Frame ==
    ASSUME IInv, NEW r \in Requests, Typed', call' = call, heap' = heap,
           \A q \in Requests \ {r} : Same(q), Past(r) => Past(r)', RequestInv(r)'
    PROVE  IInv'
  <1>1. HeapStep
    BY DEF HeapStep
  <1>2. \A q \in Requests : Past(q) => Past(q)'
    <2>1. \A q \in Requests \ {r} : Past(q) => Past(q)'
      BY DEF Same, Past
    <2> QED
      BY <2>1
  <1>3. \A s \in Sentinels : HeapInv(s)'
    BY <1>2, HeapFrame DEF IInv
  <1>4. \A q \in Requests \ {r} : RequestInv(q)'
    <2>1. \A q \in Requests : cur[q] \in {"own"} \cup Sentinels
      BY DEF IInv, Typed
    <2> QED
      BY <1>1, <2>1, Others DEF IInv
  <1> QED
    BY <1>3, <1>4 DEF IInv

\* The initial states.
LEMMA InitInv == Init => IInv
  <1> SUFFICES ASSUME Init PROVE IInv
    OBVIOUS
  <1> USE DEF Init
  <1>1. Fresh({}, {}, 0, "unknown") \in Resolved
    BY FreshFacts, Members
  <1>2. Typed
    BY <1>1, Members, SentinelAssumption, NestingAssumption DEF Typed, NoBody
  <1>3. \A s \in Sentinels : HeapInv(s)
    BY DEF HeapInv
  <1>4. ASSUME NEW r \in Requests PROVE RequestInv(r)
    <2>1. pc[r] = "idle" /\ depth[r] = 0 /\ cur[r] = "own" /\ body[r] = NoBody
          /\ (~call[r].early => hdr[r] = 0)
      OBVIOUS
    <2> QED
      BY <2>1 DEF RequestInv, Control, Pointing, PrivateInv, PublicInv, CauseInv, TooLargeInv, StatusInv, Working
  <1> QED
    BY <1>2, <1>3, <1>4 DEF IInv

\* A handler calls Error, IfError or ErrorWithCode.
LEMMA CallErrorStep == ASSUME IInv, NEW r \in Requests, CallError(r) PROVE IInv'
  <1>1. Typed /\ RequestInv(r) /\ Control(r) /\ StatusInv(r)
    BY DEF IInv, RequestInv
  <1>2. /\ call' = call /\ heap' = heap /\ cur' = cur /\ own' = own /\ hdr' = hdr /\ body' = body
        /\ logged' = logged /\ depth' = depth /\ pc[r] = "idle"
        /\ call[r].op \in {"Error", "IfError", "ErrorWithCode"}
    BY DEF CallError
  <1>3. args'[r] = Given(r)
    BY <1>1, <1>2 DEF CallError, Given, Typed
  <1>4. pc'[r] \in {"resolve", "done", "panicked"} /\ (pc'[r] = "resolve" <=> Given(r) # <<>>)
    BY <1>1, <1>3 DEF CallError, Goto, Typed
  <1>5. Typed'
    BY <1>1, <1>2 DEF Typed, CallError, Goto, Working
  <1>6. \A q \in Requests \ {r} : Same(q)
    BY <1>1, <1>2 DEF Same, CallError, Goto, Typed
  <1>7. depth[r] = 0 /\ cur[r] = "own" /\ ~Renders(r) /\ body[r] = NoBody
    BY <1>1, <1>2 DEF Control, StatusInv, Renders
  <1>8. /\ Given(r)' = Given(r) /\ Cause(r)' = Cause(r) /\ Mixed(r)' = Mixed(r)
        /\ Shared(r)' = Shared(r) /\ Renders(r)' = Renders(r) /\ Stuck(r)' = Stuck(r)
        /\ depth'[r] = depth[r] => (Conceals(r)' <=> Conceals(r)) /\ (Reveals(r)' <=> Reveals(r))
    BY <1>2, Fixed
  <1>9. RequestInv(r)'
    <2>1. Control(r)'
      BY <1>2, <1>3, <1>4, <1>7, <1>8 DEF Control, Working
    <2>2. Pointing(r)'
      BY <1>2, <1>7 DEF Pointing
    <2>3. PrivateInv(r)' /\ PublicInv(r)'
      BY <1>4, <1>8 DEF PrivateInv, PublicInv, Conceals, Reveals
    <2>4. CauseInv(r)'
      BY <1>4, <1>8 DEF CauseInv
    <2>5. TooLargeInv(r)'
      BY <1>4, <1>8 DEF TooLargeInv
    <2>6. StatusInv(r)'
      BY <1>1, <1>2, <1>4, <1>7, <1>8 DEF StatusInv, Working
    <2> QED
      BY <2>1, <2>2, <2>3, <2>4, <2>5, <2>6 DEF RequestInv
  <1>10. Past(r) => Past(r)'
    BY <1>2, <1>7 DEF Past
  <1> QED
    BY <1>2, <1>5, <1>6, <1>9, <1>10, Frame

\* A handler answers with a value.
LEMMA CallRenderStep == ASSUME IInv, NEW r \in Requests, CallRender(r) PROVE IInv'
  <1>1. Typed /\ RequestInv(r) /\ Control(r) /\ StatusInv(r)
    BY DEF IInv, RequestInv
  <1>2. /\ call' = call /\ heap' = heap /\ cur' = cur /\ own' = own /\ args' = args /\ body' = body
        /\ logged' = logged /\ depth' = depth /\ pc[r] = "idle" /\ Renders(r)
        /\ call[r].op # "JSON" => hdr' = hdr
    BY DEF CallRender, Renders
  <1>3. pc'[r] = "encodeValue"
    BY <1>1 DEF CallRender, Goto, Typed
  <1>4. Typed'
    BY <1>1, <1>2, GivenFacts DEF Typed, CallRender, Goto, WriteHeader, Working
  <1>5. \A q \in Requests \ {r} : Same(q)
    BY <1>1, <1>2 DEF Same, CallRender, Goto, WriteHeader, Typed
  <1>6. depth[r] = 0 /\ cur[r] = "own" /\ Given(r) = <<>> /\ body[r] = NoBody
    BY <1>1, <1>2, GivenFacts DEF Control, StatusInv, Typed
  <1>7. /\ Given(r)' = Given(r) /\ Cause(r)' = Cause(r) /\ Mixed(r)' = Mixed(r)
        /\ Shared(r)' = Shared(r) /\ Renders(r)' = Renders(r) /\ Stuck(r)' = Stuck(r)
        /\ depth'[r] = depth[r] => (Conceals(r)' <=> Conceals(r)) /\ (Reveals(r)' <=> Reveals(r))
    BY <1>2, Fixed
  <1>8. RequestInv(r)'
    <2>1. Control(r)'
      BY <1>2, <1>3, <1>6, <1>7 DEF Control, Working
    <2>2. Pointing(r)'
      BY <1>2, <1>6 DEF Pointing
    <2>3. PrivateInv(r)' /\ PublicInv(r)'
      BY <1>6, <1>7 DEF PrivateInv, PublicInv, Conceals, Reveals
    <2>4. CauseInv(r)'
      BY <1>6, <1>7 DEF CauseInv
    <2>5. TooLargeInv(r)'
      BY <1>6, <1>7 DEF TooLargeInv
    <2>6. StatusInv(r)'
      BY <1>1, <1>2, <1>3, <1>6, <1>7 DEF StatusInv, Working
    <2> QED
      BY <2>1, <2>2, <2>3, <2>4, <2>5, <2>6 DEF RequestInv
  <1>9. Past(r) => Past(r)'
    BY <1>2, <1>6 DEF Past
  <1> QED
    BY <1>2, <1>4, <1>5, <1>8, <1>9, Frame

\* An encoder fails: ErrorWithCode(500, err), which is not the handler's error
\* any more.
LEMMA FailEncodeStep ==
    ASSUME IInv, NEW r \in Requests, FailEncode(r),
           pc[r] = "encodeValue" \/ (pc[r] = "encodeError" /\ Stuck(r))
    PROVE  IInv'
  <1>1. Typed /\ RequestInv(r) /\ Control(r) /\ StatusInv(r) /\ Pointing(r)
    BY DEF IInv, RequestInv
  <1>2. /\ call' = call /\ heap' = heap /\ cur' = cur /\ own' = own /\ hdr' = hdr /\ body' = body
        /\ logged' = logged
    BY DEF FailEncode
  <1>3. /\ pc'[r] = "resolve" /\ depth'[r] = depth[r] + 1 /\ args'[r] = EncodeFailure
        /\ depth[r] < MaxNesting /\ depth[r] \in Nat
    BY <1>1, NestingAssumption DEF FailEncode, Goto, Typed, EncodeFailure
  <1>4. depth'[r] > 0 /\ depth'[r] # 0 /\ depth'[r] \in 0..MaxNesting
    BY <1>3, NestingAssumption
  <1>5. Typed'
    BY <1>1, <1>2, <1>4 DEF Typed, FailEncode, Goto
  <1>6. \A q \in Requests \ {r} : Same(q)
    BY <1>1, <1>2 DEF Same, FailEncode, Goto, Typed
  <1>7. /\ Given(r)' = Given(r) /\ Cause(r)' = Cause(r) /\ Mixed(r)' = Mixed(r)
        /\ Shared(r)' = Shared(r) /\ Renders(r)' = Renders(r) /\ Stuck(r)' = Stuck(r)
        /\ depth'[r] = depth[r] => (Conceals(r)' <=> Conceals(r)) /\ (Reveals(r)' <=> Reveals(r))
        /\ \A s : Sole(r, s)' = Sole(r, s)
    BY <1>2, Fixed
  <1>8. body[r] = NoBody
    BY <1>1 DEF StatusInv
  <1>9. RequestInv(r)'
    <2>1. Control(r)'
      BY <1>1, <1>3, <1>4, <1>7 DEF Control, Working
    <2>2. Pointing(r)'
      BY <1>1, <1>2, <1>3, <1>7 DEF Pointing, Working
    <2>3. PrivateInv(r)' /\ PublicInv(r)' /\ CauseInv(r)' /\ TooLargeInv(r)'
      BY <1>4 DEF PrivateInv, PublicInv, Conceals, Reveals, CauseInv, TooLargeInv
    <2>4. StatusInv(r)'
      <3>1. Stuck(r) \/ (~call[r].early /\ call[r].op # "JSON" => hdr[r] = 0)
        BY <1>1 DEF StatusInv
      <3> QED
        BY <1>2, <1>3, <1>7, <1>8, <3>1 DEF StatusInv, Working
    <2> QED
      BY <2>1, <2>2, <2>3, <2>4 DEF RequestInv
  <1>10. Past(r) => Past(r)'
    BY <1>4 DEF Past
  <1> QED
    BY <1>2, <1>5, <1>6, <1>9, <1>10, Frame

\* A value is encoded, or cannot be.
LEMMA EncodeValueStep == ASSUME IInv, NEW r \in Requests, EncodeValue(r) PROVE IInv'
  <1>1. CASE FailEncode(r)
    <2>1. pc[r] = "encodeValue"
      BY DEF EncodeValue
    <2> QED
      BY <1>1, <2>1, FailEncodeStep
  <1>2. CASE ~FailEncode(r)
    <2>1. Typed /\ RequestInv(r) /\ Control(r) /\ StatusInv(r) /\ pc[r] = "encodeValue"
      BY DEF IInv, RequestInv, EncodeValue
    <2>2. /\ call' = call /\ heap' = heap /\ cur' = cur /\ own' = own /\ args' = args
          /\ body' = body /\ logged' = logged /\ depth' = depth
          /\ Goto(r, "done") /\ WriteHeader(r, call[r].code)
      BY <1>2 DEF EncodeValue
    <2>3. pc'[r] = "done"
      BY <2>1, <2>2 DEF Goto, Typed
    <2>4. Typed'
      BY <2>1, <2>2, GivenFacts DEF Typed, Goto, WriteHeader
    <2>5. \A q \in Requests \ {r} : Same(q)
      BY <2>1, <2>2 DEF Same, Goto, WriteHeader, Typed
    <2>6. depth[r] = 0 /\ cur[r] = "own" /\ Given(r) = <<>> /\ body[r] = NoBody /\ Renders(r)
      BY <2>1, GivenFacts DEF Control, StatusInv, Typed
    <2>7. /\ Given(r)' = Given(r) /\ Cause(r)' = Cause(r) /\ Mixed(r)' = Mixed(r)
          /\ Shared(r)' = Shared(r) /\ Renders(r)' = Renders(r) /\ Stuck(r)' = Stuck(r)
          /\ depth'[r] = depth[r] => (Conceals(r)' <=> Conceals(r)) /\ (Reveals(r)' <=> Reveals(r))
      BY <2>2, Fixed
    <2>8. RequestInv(r)'
      <3>1. Control(r)' /\ Pointing(r)'
        BY <2>2, <2>3, <2>6, <2>7 DEF Control, Pointing, Working
      <3>2. PrivateInv(r)' /\ PublicInv(r)' /\ CauseInv(r)' /\ TooLargeInv(r)'
        BY <2>6, <2>7 DEF PrivateInv, PublicInv, Conceals, Reveals, CauseInv, TooLargeInv
      <3>3. StatusInv(r)'
        BY <2>2, <2>3, <2>6, <2>7 DEF StatusInv, Working
      <3> QED
        BY <3>1, <3>2, <3>3 DEF RequestInv
    <2>9. Past(r) => Past(r)'
      BY <2>3 DEF Past
    <2> QED
      BY <2>2, <2>4, <2>5, <2>8, <2>9, Frame
  <1> QED
    BY <1>1, <1>2

\* What Error makes of the errors it is given.
LEMMA ResolvedFacts ==
    ASSUME IInv, NEW r \in Requests, Resolve(r)
    PROVE  /\ call' = call /\ heap' = heap /\ args' = args /\ hdr' = hdr /\ body' = body
           /\ logged' = logged /\ depth' = depth
           /\ pc[r] = "resolve" /\ pc'[r] = "complete"
           /\ \A q \in Requests \ {r} : Same(q)
           /\ own'[r] \in Resolved /\ cur'[r] \in {"own"} \cup Sentinels /\ Typed'
           /\ cur'[r] # "own" => depth[r] = 0 /\ Sole(r, cur'[r])
           /\ cur'[r] = "own" /\ depth[r] = 0 =>
                 own'[r] = IF One(Given(r)) THEN Origin(Only(Given(r))) ELSE Collect(Given(r))
  <1>1. Typed /\ RequestInv(r) /\ Control(r)
    BY DEF IInv, RequestInv
  <1>2. /\ call' = call /\ heap' = heap /\ args' = args /\ hdr' = hdr /\ body' = body
        /\ logged' = logged /\ depth' = depth /\ pc[r] = "resolve"
        /\ pc' = [pc EXCEPT ![r] = "complete"]
    BY DEF Resolve, Goto
  <1>3. pc'[r] = "complete"
    BY <1>1, <1>2 DEF Typed
  <1> DEFINE list == args[r]
             o == CASE ~One(list) -> Collect(list)
                    [] One(list) /\ Only(list).kind = "fresh" -> Only(list).obj
                    [] OTHER -> Fresh(Only(list).err, {}, 0, "unknown")
  <1>4. IF One(list) /\ Only(list).kind = "sentinel"
          THEN cur' = [cur EXCEPT ![r] = Only(list).name] /\ own' = own
          ELSE cur' = [cur EXCEPT ![r] = "own"] /\ own' = [own EXCEPT ![r] = o]
    BY DEF Resolve
  <1>5. list = IF depth[r] = 0 THEN Given(r) ELSE EncodeFailure
    BY <1>1, <1>2 DEF Control
  <1> HIDE DEF list, o
  <1>6. depth[r] = 0 => list = Given(r) /\ IsArgs(list)
    BY <1>1, <1>5, GivenFacts DEF Typed
  <1>7. depth[r] # 0 => One(list) /\ Only(list).kind = "fresh" /\ Only(list) \in Arg
    <2> SUFFICES ASSUME depth[r] # 0
                 PROVE  One(list) /\ Only(list).kind = "fresh" /\ Only(list) \in Arg
      OBVIOUS
    <2> DEFINE p == Pointer(WithCode(500, <<{EncodeErr}>>))
    <2>1. list = <<p>>
      BY <1>5 DEF EncodeFailure
    <2>2. <<{EncodeErr}>> \in Seq(Errors)
      <3>1. {EncodeErr} \in Errors
        BY Members
      <3> QED
        BY <3>1
    <2>3. WithCode(500, <<{EncodeErr}>>) \in Resolved
      <3> DEFINE es == <<{EncodeErr}>>
      <3> HIDE DEF es
      <3>1. WithCode(500, es) \in Resolved
        <4>1. 500 \in Nat /\ es \in Seq(Errors)
          BY <2>2 DEF es
        <4> QED
          BY <4>1, WithCodeFacts
      <3> QED
        BY <3>1 DEF es
    <2>4. p \in Arg /\ p.kind = "fresh"
      BY <2>3 DEF Pointer, Arg
    <2> HIDE DEF p
    <2>5. DOMAIN list = {1} /\ list[1] = p
      BY <2>1
    <2>6. One(list) /\ Only(list) = p
      BY <2>5 DEF One, Only
    <2> QED
      BY <2>4, <2>6
  <1>8. One(list) => Only(list) \in Arg /\ Only(list).kind # "nil"
    <2>1. depth[r] = 0 /\ One(list) => Only(list) \in Arg /\ Only(list).kind # "nil"
      BY <1>1, <1>6, GivenFacts DEF Typed
    <2> QED
      BY <1>7, <2>1
  <1>9. One(list) /\ Only(list).kind # "sentinel" => o = Origin(Only(list)) /\ o \in Resolved
    <2> SUFFICES ASSUME One(list), Only(list).kind # "sentinel"
                 PROVE  o = Origin(Only(list)) /\ o \in Resolved
      OBVIOUS
    <2>1. Only(list).kind \in {"plain", "fresh"} /\ Origin(Only(list)) \in Resolved
      BY <1>8, ArgFacts
    <2>2. o = Origin(Only(list))
      BY <2>1 DEF o, Origin, Original
    <2> QED
      BY <2>1, <2>2
  <1>10. ~One(list) => o = Collect(list) /\ o \in Resolved
    <2> SUFFICES ASSUME ~One(list) PROVE o = Collect(list) /\ o \in Resolved
      OBVIOUS
    <2>1. IsArgs(list)
      BY <1>6, <1>7
    <2>2. Collect(list) \in Resolved
      BY <1>1, <2>1, CollectFacts DEF Typed
    <2> QED
      BY <2>2 DEF o
  <1>11. CASE One(list) /\ Only(list).kind = "sentinel"
    <2>1. Only(list).name \in Sentinels /\ Only(list) = Sentinel(Only(list).name) /\ depth[r] = 0
      BY <1>7, <1>8, <1>11, ArgFacts
    <2>2. cur'[r] = Only(list).name /\ own' = own /\ cur'[r] # "own"
      BY <1>1, <1>4, <1>11, <2>1, SentinelAssumption DEF Typed
    <2>3. Sole(r, cur'[r])
      BY <1>6, <1>11, <2>1, <2>2 DEF Sole
    <2>4. \A q \in Requests \ {r} : Same(q)
      BY <1>1, <1>2, <1>4, <1>11 DEF Same, Typed
    <2>5. Typed'
      BY <1>1, <1>2, <1>4, <1>11, <2>1 DEF Typed, Working
    <2> QED
      BY <1>1, <1>2, <1>3, <2>1, <2>2, <2>3, <2>4, <2>5 DEF Typed
  <1>12. CASE ~(One(list) /\ Only(list).kind = "sentinel")
    <2>1. o \in Resolved
      BY <1>9, <1>10, <1>12
    <2>2. cur'[r] = "own" /\ own'[r] = o
      BY <1>1, <1>4, <1>12 DEF Typed
    <2>3. depth[r] = 0 => own'[r] = IF One(Given(r)) THEN Origin(Only(Given(r))) ELSE Collect(Given(r))
      BY <1>6, <1>9, <1>10, <1>12, <2>2
    <2>4. \A q \in Requests \ {r} : Same(q)
      BY <1>1, <1>2, <1>4, <1>12 DEF Same, Typed
    <2>5. Typed'
      BY <1>1, <1>2, <1>4, <1>12, <2>1 DEF Typed, Working
    <2> QED
      BY <1>2, <1>3, <2>1, <2>2, <2>3, <2>4, <2>5
  <1> QED
    BY <1>11, <1>12

\* Error makes a *ResolvedError of its errors, or takes the one it is given.
LEMMA ResolveStep == ASSUME IInv, NEW r \in Requests, Resolve(r) PROVE IInv'
  <1>1. Typed /\ Control(r) /\ StatusInv(r) /\ \A s \in Sentinels : HeapInv(s)
    BY DEF IInv, RequestInv
  <1>2. /\ call' = call /\ heap' = heap /\ args' = args /\ hdr' = hdr /\ body' = body
        /\ logged' = logged /\ depth' = depth
        /\ pc[r] = "resolve" /\ pc'[r] = "complete"
        /\ \A q \in Requests \ {r} : Same(q)
        /\ own'[r] \in Resolved /\ cur'[r] \in {"own"} \cup Sentinels /\ Typed'
        /\ cur'[r] # "own" => depth[r] = 0 /\ Sole(r, cur'[r])
        /\ cur'[r] = "own" /\ depth[r] = 0 =>
              own'[r] = IF One(Given(r)) THEN Origin(Only(Given(r))) ELSE Collect(Given(r))
    BY ResolvedFacts
  <1>3. /\ Given(r)' = Given(r) /\ Cause(r)' = Cause(r) /\ Mixed(r)' = Mixed(r)
        /\ Shared(r)' = Shared(r) /\ Renders(r)' = Renders(r) /\ Stuck(r)' = Stuck(r)
        /\ depth'[r] = depth[r] => (Conceals(r)' <=> Conceals(r)) /\ (Reveals(r)' <=> Reveals(r))
        /\ \A s : Sole(r, s)' = Sole(r, s)
    BY <1>2, Fixed
  <1>4. Control(r)'
    BY <1>1, <1>2, <1>3 DEF Control, Working
  <1>5. Pointing(r)'
    <2> SUFFICES ASSUME cur'[r] # "own" PROVE Pointing(r)'
      BY DEF Pointing
    <2>1. depth[r] = 0 /\ Sole(r, cur'[r])
      BY <1>2
    <2>2. ~Renders(r)
      BY <1>1, <1>2, <2>1 DEF Control, Working
    <2> QED
      BY <1>2, <1>3, <2>1, <2>2 DEF Pointing, Working
  <1> DEFINE single == Origin(Only(Given(r)))
             several == Collect(Given(r))
  <1>7. One(Given(r)) => /\ single \in Resolved /\ Cause(r) = Content(single)
                         /\ ~Mixed(r) => Covers(Complete(single), Cause(r))
    <2> SUFFICES ASSUME One(Given(r))
                 PROVE  /\ single \in Resolved /\ Cause(r) = Content(single)
                        /\ ~Mixed(r) => Covers(Complete(single), Cause(r))
      OBVIOUS
    <2> DEFINE a == Only(Given(r))
    <2>1. a \in Arg /\ a.kind # "nil" /\ Cause(r) = Messages(a) /\ (HasBoth(a) => Mixed(r))
      BY <1>1, GivenFacts DEF Typed
    <2> HIDE DEF a
    <2>2. Origin(a) \in Resolved /\ Messages(a) = Content(Origin(a))
      BY <2>1, ArgFacts
    <2>3. ~HasBoth(a) => Origin(a).err = {} \/ Origin(a).errs = {}
      <3>1. CASE a.kind = "plain"
        <4>1. a.err \in Errors
          BY <2>1, <3>1, ArgFacts
        <4>2. Origin(a).errs = {}
          BY <3>1, <4>1, FreshFacts, Members DEF Origin
        <4> QED
          BY <4>2
      <3>2. CASE a.kind # "plain"
        BY <2>1, <3>2, ArgFacts DEF Origin, HasBoth
      <3> QED
        BY <3>1, <3>2
    <2>4. ~Mixed(r) => Covers(Complete(Origin(a)), Content(Origin(a)))
      BY <2>1, <2>2, <2>3, SingleCovers
    <2> QED
      BY <2>1, <2>2, <2>4 DEF a
  <1>8. /\ ~Mixed(r) /\ ~Shared(r) /\ depth[r] = 0 => Covers(Complete(several), Cause(r))
        /\ ~Mixed(r) /\ DefaultFirst /\ TooLarge \in Cause(r) /\ depth[r] = 0 =>
              TooLarge \in Content(several) \/ {} \in LogAttrs(Complete(several))
        /\ TooLarge \notin Cause(r) /\ depth[r] = 0 => TooLarge \notin Content(several)
    <2>1. depth[r] = 0 => ~Past(r)
      BY <1>1, <1>2 DEF Past
    <2> QED
      BY <1>1, <2>1, CollectCovers DEF Typed
  <1>9. cur'[r] = "own" /\ depth[r] = 0 => own'[r] = IF One(Given(r)) THEN single ELSE several
    BY <1>2
  <1>81. One(Given(r)) /\ ~ByMethod(Given(r)) =>
            /\ Private(Given(r)) <=> ~Public(Complete(single))
            /\ ~Mixed(r) => Cause(r) \subseteq Told(Complete(single))
    BY <1>1, OneFacts DEF Typed
  <1>82. ~One(Given(r)) /\ ~ByMethod(Given(r)) =>
            /\ Private(Given(r)) => ~Public(Complete(several))
            /\ ~Private(Given(r)) /\ ~Mixed(r) /\ ~Shared(r) => Tells(Complete(several), Cause(r))
    BY <1>1, SeveralFacts DEF Typed
  <1> HIDE DEF single, several
  <1>6. PrivateInv(r)'
    <2>1. ASSUME cur'[r] = "own", Conceals(r)
          PROVE  ~Public(Complete(own'[r])) /\ TooLarge \notin Content(own'[r])
      BY <1>7, <1>8, <1>81, <1>82, <1>9, <2>1 DEF Conceals
    <2> QED
      BY <1>2, <1>3, <2>1 DEF PrivateInv
  <1>61. PublicInv(r)'
    <2>1. ASSUME cur'[r] = "own", Reveals(r)
          PROVE  Tells(Complete(own'[r]), Cause(r)) /\ TooLarge \notin Content(own'[r])
      <3>1. One(Given(r)) => Tells(Complete(single), Cause(r)) /\ TooLarge \notin Content(single)
        BY <1>7, <1>81, <2>1 DEF Reveals, Tells
      <3>2. ~One(Given(r)) => Tells(Complete(several), Cause(r)) /\ TooLarge \notin Content(several)
        BY <1>8, <1>82, <2>1 DEF Reveals
      <3>3. own'[r] = IF One(Given(r)) THEN single ELSE several
        BY <1>9, <2>1 DEF Reveals
      <3> QED
        BY <3>1, <3>2, <3>3
    <2> QED
      BY <1>2, <1>3, <2>1 DEF PublicInv
  <1>10. CauseInv(r)'
    <2>1. ASSUME cur'[r] = "own", depth[r] = 0, TooLarge \notin Cause(r), ~Mixed(r), ~Shared(r)
          PROVE  Covers(Complete(own'[r]), Cause(r)) /\ TooLarge \notin Content(own'[r])
      BY <1>7, <1>8, <1>9, <2>1
    <2> QED
      BY <1>2, <1>3, <2>1 DEF CauseInv, Covers, LogAttrs, Complete, Content
  <1>11. TooLargeInv(r)'
    <2>1. ASSUME cur'[r] = "own", depth[r] = 0, TooLarge \in Cause(r), ~Mixed(r), DefaultFirst
          PROVE  TooLarge \in Content(own'[r]) \/ {} \in LogAttrs(Complete(own'[r]))
      BY <1>7, <1>8, <1>9, <2>1
    <2> QED
      BY <1>2, <1>3, <2>1 DEF TooLargeInv
  <1>12. StatusInv(r)'
    BY <1>1, <1>2, <1>3 DEF StatusInv, Working
  <1>13. RequestInv(r)'
    BY <1>4, <1>5, <1>6, <1>61, <1>10, <1>11, <1>12 DEF RequestInv
  <1>14. Past(r) => Past(r)'
    BY <1>2 DEF Past
  <1> QED
    BY <1>2, <1>13, <1>14, Frame

\* The same for a step that writes to a shared *ResolvedError.
LEMMA FrameHeap ==
    ASSUME IInv, NEW r \in Requests, Typed', call' = call, HeapStep,
           \A q \in Requests \ {r} : Same(q),
           \A s \in Sentinels : HeapInv(s)', RequestInv(r)'
    PROVE  IInv'
  <1>1. \A q \in Requests : cur[q] \in {"own"} \cup Sentinels
    BY DEF IInv, Typed
  <1>2. \A q \in Requests \ {r} : RequestInv(q)'
    BY <1>1, Others DEF IInv
  <1> QED
    BY <1>2 DEF IInv

\* Filling in and masking go from one form of a shared *ResolvedError to
\* another.
LEMMA Forms ==
    ASSUME NEW s \in Sentinels
    PROVE  /\ SentinelValue[s] \in Resolved
           /\ Filled(s) \in Resolved /\ Filled(s).code # 0
           /\ MaskedOf(Filled(s)) \in Resolved /\ MaskedOf(Filled(s)).code = Filled(s).code
           /\ MaskedOf(Filled(s)).err = {Text} /\ MaskedOf(Filled(s)).errs = {}
           /\ Complete(SentinelValue[s]) = Filled(s) /\ Complete(Filled(s)) = Filled(s)
           /\ Complete(MaskedOf(Filled(s))) = MaskedOf(Filled(s))
           /\ MaskedOf(MaskedOf(Filled(s))) = MaskedOf(Filled(s))
           /\ ~Public(Filled(s)) => ~Public(MaskedOf(Filled(s)))
           /\ TooLarge \in Content(Filled(s)) <=> TooLarge \in Content(SentinelValue[s])
           /\ TooLarge \notin Content(MaskedOf(Filled(s)))
  <1> DEFINE v == SentinelValue[s]
             f == Complete(v)
             m == MaskedOf(f)
  <1>1. v \in Resolved
    BY SentinelAssumption
  <1> HIDE DEF v
  <1>2. f \in Resolved /\ f.code # 0 /\ Complete(f) = f
        /\ (TooLarge \in Content(f) <=> TooLarge \in Content(v))
    BY <1>1, CompleteFacts, ContentFacts
  <1> HIDE DEF f
  <1>3. /\ m \in Resolved /\ m.code = f.code /\ m.err = {Text} /\ m.errs = {}
        /\ Complete(m) = m /\ MaskedOf(m) = m /\ (~Public(f) => ~Public(m))
    BY <1>2, MaskFacts
  <1> HIDE DEF m
  <1>4. TooLarge \notin Content(m)
    BY <1>3, MsgsAssumption DEF Content
  <1>5. f = Filled(s) /\ f = Complete(v)
    BY DEF f, v, Filled
  <1>6. m = MaskedOf(Filled(s))
    BY <1>5 DEF m
  <1> QED
    BY <1>1, <1>2, <1>3, <1>4, <1>5, <1>6 DEF v

\* Err and the code are filled in.
LEMMA FillInStep == ASSUME IInv, NEW r \in Requests, FillIn(r) PROVE IInv'
  <1>1. Typed /\ RequestInv(r) /\ Control(r) /\ StatusInv(r) /\ Pointing(r)
        /\ PrivateInv(r) /\ PublicInv(r) /\ CauseInv(r) /\ TooLargeInv(r) /\ \A s \in Sentinels : HeapInv(s)
    BY DEF IInv, RequestInv
  <1>2. /\ call' = call /\ args' = args /\ cur' = cur /\ hdr' = hdr /\ body' = body
        /\ logged' = logged /\ depth' = depth /\ pc[r] = "complete"
        /\ pc' = [pc EXCEPT ![r] = "resolvers"] /\ Store(r, Complete(Obj(r)))
    BY DEF FillIn, Goto
  <1>3. pc'[r] = "resolvers"
    BY <1>1, <1>2 DEF Typed
  <1>4. /\ Given(r)' = Given(r) /\ Cause(r)' = Cause(r) /\ Mixed(r)' = Mixed(r)
        /\ Shared(r)' = Shared(r) /\ Renders(r)' = Renders(r) /\ Stuck(r)' = Stuck(r)
        /\ depth'[r] = depth[r] => (Conceals(r)' <=> Conceals(r)) /\ (Reveals(r)' <=> Reveals(r))
        /\ \A s : Sole(r, s)' = Sole(r, s)
    BY <1>2, Fixed
  <1>5. Control(r)' /\ StatusInv(r)'
    BY <1>1, <1>2, <1>3, <1>4 DEF Control, StatusInv, Working
  <1>6. \A q \in Requests : Past(q) => Past(q)'
    BY <1>1, <1>2 DEF Past, Typed
  <1>7. CASE cur[r] = "own"
    <2>1. /\ heap' = heap /\ own' = [own EXCEPT ![r] = Complete(own[r])]
          /\ own'[r] = Complete(own[r]) /\ own[r] \in Resolved
      BY <1>1, <1>2, <1>7 DEF Store, Obj, Typed
    <2>2. Complete(own[r]) \in Resolved
          /\ (TooLarge \in Content(Complete(own[r])) <=> TooLarge \in Content(own[r]))
      BY <2>1, CompleteFacts, ContentFacts
    <2>3. Typed'
      BY <1>1, <1>2, <2>1, <2>2 DEF Typed, Working
    <2>4. \A q \in Requests \ {r} : Same(q)
      BY <1>1, <1>2, <2>1 DEF Same, Typed
    <2>5. Pointing(r)'
      BY <1>2, <1>7 DEF Pointing
    <2>6. PrivateInv(r)'
      <3>1. ASSUME Conceals(r) PROVE ~Public(own'[r]) /\ TooLarge \notin Content(own'[r])
        BY <1>1, <1>2, <1>7, <2>1, <2>2, <3>1 DEF PrivateInv
      <3> QED
        BY <1>2, <1>3, <1>4, <3>1 DEF PrivateInv
    <2>61. PublicInv(r)'
      <3>1. ASSUME Reveals(r) PROVE Tells(own'[r], Cause(r)) /\ TooLarge \notin Content(own'[r])
        BY <1>1, <1>2, <1>7, <2>1, <2>2, <3>1 DEF PublicInv
      <3> QED
        BY <1>2, <1>3, <1>4, <3>1 DEF PublicInv
    <2>7. CauseInv(r)'
      <3>1. ASSUME depth[r] = 0, Given(r) # <<>>, TooLarge \notin Cause(r), ~Mixed(r), ~Shared(r)
            PROVE  Covers(Complete(own[r]), Cause(r)) /\ TooLarge \notin Content(own[r])
        BY <1>1, <1>2, <1>7, <3>1 DEF CauseInv
      <3> DEFINE o == Complete(own[r])
      <3>2. ASSUME depth[r] = 0, Given(r) # <<>>, TooLarge \notin Cause(r), ~Mixed(r), ~Shared(r)
            PROVE  Covers(o, Cause(r)) /\ TooLarge \notin Content(o)
        BY <2>2, <3>1, <3>2
      <3>3. own'[r] = o
        BY <2>1
      <3> HIDE DEF o
      <3>4. Covers(own[r], Cause(r))' = Covers(o, Cause(r)) /\ Content(own[r])' = Content(o)
        BY <1>4, <3>3 DEF Covers, LogAttrs, Content
      <3> QED
        BY <1>2, <1>3, <1>4, <3>2, <3>4 DEF CauseInv
    <2>8. TooLargeInv(r)'
      <3>1. ASSUME DefaultFirst, depth[r] = 0, Given(r) # <<>>, TooLarge \in Cause(r), ~Mixed(r)
            PROVE  TooLarge \in Content(own'[r]) \/ {} \in LogAttrs(own'[r])
        BY <1>1, <1>2, <1>7, <2>1, <2>2, <3>1 DEF TooLargeInv
      <3> QED
        BY <1>2, <1>3, <1>4, <3>1 DEF TooLargeInv
    <2>9. RequestInv(r)'
      BY <1>5, <2>5, <2>6, <2>61, <2>7, <2>8 DEF RequestInv
    <2> QED
      BY <1>2, <1>6, <2>1, <2>3, <2>4, <2>9, Frame
  <1>8. CASE cur[r] # "own"
    <2> DEFINE t == cur[r]
    <2>1. /\ own' = own /\ heap' = [heap EXCEPT ![t] = Complete(heap[t])] /\ t \in Sentinels
      BY <1>1, <1>2, <1>8 DEF Store, Obj, Typed
    <2>2. heap'[t] = Complete(heap[t]) /\ \A s \in Sentinels \ {t} : heap'[s] = heap[s]
      BY <1>1, <2>1 DEF Typed
    <2>3. heap[t] \in {SentinelValue[t], Filled(t), MaskedOf(Filled(t))}
      BY <1>1, <2>1 DEF HeapInv
    <2>4. /\ Complete(SentinelValue[t]) = Filled(t) /\ Complete(Filled(t)) = Filled(t)
          /\ Complete(MaskedOf(Filled(t))) = MaskedOf(Filled(t))
          /\ Filled(t) \in Resolved /\ MaskedOf(Filled(t)) \in Resolved
      BY <2>1, Forms
    <2>41. Sole(r, t)
      BY <1>1, <1>8 DEF Pointing
    <2> HIDE DEF t
    <2>5. heap'[t] \in {Filled(t), MaskedOf(Filled(t))}
      BY <2>2, <2>3, <2>4
    <2>6. Typed'
      BY <1>1, <1>2, <2>1, <2>2, <2>4, <2>5 DEF Typed, Working
    <2>7. \A q \in Requests \ {r} : Same(q)
      BY <1>1, <1>2, <2>1 DEF Same, Typed
    <2>8. HeapStep
      BY <2>1, <2>2, <2>4, <2>5 DEF HeapStep
    <2>9. \A s \in Sentinels : HeapInv(s)'
      <3>1. ASSUME NEW s \in Sentinels, s # t PROVE HeapInv(s)'
        BY <1>1, <1>2, <1>6, <2>2, <3>1, HeapFrame
      <3>2. ASSUME NEW s \in Sentinels, s = t PROVE HeapInv(s)'
        <4>1. CASE heap[s] \in {SentinelValue[s], Filled(s)}
          <5>1. heap'[s] = Filled(s)
            BY <2>2, <2>4, <3>2, <4>1
          <5>2. Sole(r, s)'
            BY <1>4, <2>41, <3>2
          <5> QED
            BY <5>1, <5>2 DEF HeapInv
        <4>2. CASE heap[s] \notin {SentinelValue[s], Filled(s)}
          <5>1. heap'[s] = heap[s]
            BY <2>2, <2>3, <2>4, <3>2, <4>2
          <5> QED
            BY <1>1, <1>2, <1>6, <5>1, HeapFrame
        <4> QED
          BY <4>1, <4>2
      <3> QED
        BY <3>1, <3>2
    <2>10. Pointing(r)'
      BY <1>1, <1>2, <1>3, <1>4, <1>8, <2>5 DEF Pointing, Working, t
    <2>11. PrivateInv(r)' /\ PublicInv(r)' /\ CauseInv(r)' /\ TooLargeInv(r)'
      BY <1>2, <1>3, <1>8 DEF PrivateInv, PublicInv, CauseInv, TooLargeInv
    <2>12. RequestInv(r)'
      BY <1>5, <2>10, <2>11 DEF RequestInv
    <2> QED
      BY <1>2, <2>6, <2>7, <2>8, <2>9, <2>12, FrameHeap
  <1> QED
    BY <1>7, <1>8

\* The oversized body is in what a request points at only if it is in its
\* errors, and with the default resolver first, if it is it has not been masked.
LEMMA PointedFacts ==
    ASSUME IInv, NEW r \in Requests, cur[r] # "own", pc[r] \in {"resolvers", "log", "mask"}
    PROVE  /\ cur[r] \in Sentinels /\ Sole(r, cur[r]) /\ depth[r] = 0 /\ Obj(r) = heap[cur[r]]
           /\ heap[cur[r]] \in {Filled(cur[r]), MaskedOf(Filled(cur[r]))}
           /\ heap[cur[r]] \in Resolved
           /\ Cause(r) = Content(SentinelValue[cur[r]])
           /\ TooLarge \in Content(heap[cur[r]]) => TooLarge \in Cause(r)
           /\ DefaultFirst /\ TooLarge \in Cause(r) => TooLarge \in Content(heap[cur[r]])
  <1> DEFINE s == cur[r]
  <1>1. /\ s \in Sentinels /\ Sole(r, s) /\ depth[r] = 0 /\ Obj(r) = heap[s]
        /\ heap[s] \in {Filled(s), MaskedOf(Filled(s))} /\ HeapInv(s)
    BY DEF IInv, Typed, RequestInv, Pointing, Working, Obj
  <1> HIDE DEF s
  <1>2. /\ TooLarge \in Content(Filled(s)) <=> TooLarge \in Content(SentinelValue[s])
        /\ TooLarge \notin Content(MaskedOf(Filled(s)))
        /\ Filled(s) \in Resolved /\ MaskedOf(Filled(s)) \in Resolved
    BY <1>1, Forms
  <1>3. Cause(r) = Content(SentinelValue[s])
    BY <1>1, SoleFacts DEF IInv, Typed
  <1>4. DefaultFirst /\ TooLarge \in Content(SentinelValue[s]) => TooLarge \in Content(heap[s])
    BY <1>1, <1>2 DEF HeapInv
  <1> QED
    BY <1>1, <1>2, <1>3, <1>4 DEF s

\* The resolvers have their say.
LEMMA RunResolversStep == ASSUME IInv, NEW r \in Requests, RunResolvers(r) PROVE IInv'
  <1>1. Typed /\ RequestInv(r) /\ Control(r) /\ StatusInv(r) /\ Pointing(r)
        /\ PrivateInv(r) /\ PublicInv(r) /\ CauseInv(r) /\ TooLargeInv(r) /\ \A s \in Sentinels : HeapInv(s)
    BY DEF IInv, RequestInv
  <1>2. /\ call' = call /\ args' = args /\ heap' = heap /\ hdr' = hdr /\ body' = body
        /\ logged' = logged /\ depth' = depth /\ pc[r] = "resolvers"
        /\ pc' = [pc EXCEPT ![r] = "log"]
    BY DEF RunResolvers, Goto
  <1>3. pc'[r] = "log"
    BY <1>1, <1>2 DEF Typed
  <1>4. /\ Given(r)' = Given(r) /\ Cause(r)' = Cause(r) /\ Mixed(r)' = Mixed(r)
        /\ Shared(r)' = Shared(r) /\ Renders(r)' = Renders(r) /\ Stuck(r)' = Stuck(r)
        /\ depth'[r] = depth[r] => (Conceals(r)' <=> Conceals(r)) /\ (Reveals(r)' <=> Reveals(r))
        /\ \A s : Sole(r, s)' = Sole(r, s)
    BY <1>2, Fixed
  <1>5. Control(r)' /\ StatusInv(r)'
    BY <1>1, <1>2, <1>3, <1>4 DEF Control, StatusInv, Working
  <1>6. Past(r) => Past(r)'
    BY <1>2, <1>3 DEF Past
  <1> DEFINE o == Obj(r)
  <1>7. o \in Resolved
    BY <1>1 DEF Obj, Typed
  <1>8. TooLargeError \in Resolved
    BY FreshFacts, Members DEF TooLargeError
  <1>9. /\ Replaces(o) => TooLarge \in Content(o)
        /\ DefaultFirst /\ TooLarge \in Content(o) => Replaces(o)
    BY <1>7, ResolverFacts
  <1>10. IF Replaces(o) THEN own' = [own EXCEPT ![r] = TooLargeError] /\ cur' = [cur EXCEPT ![r] = "own"]
         ELSE own' = own /\ cur' = cur
    <2> DEFINE i == CHOOSE j \in Deciding(o) : \A k \in Deciding(o) : j <= k
    <2>1. Replaces(o) => Answer(Resolvers[i], o).obj = TooLargeError
      BY <1>7, ResolverFacts
    <2>2. Replaces(o) <=> (Deciding(o) # {} /\ Answer(Resolvers[i], o).kind = "new")
      BY DEF Replaces
    <2>3. IF Deciding(o) # {} /\ Answer(Resolvers[i], o).kind = "new"
            THEN /\ own' = [own EXCEPT ![r] = Answer(Resolvers[i], o).obj]
                 /\ cur' = [cur EXCEPT ![r] = "own"]
            ELSE UNCHANGED <<own, cur>>
      BY DEF RunResolvers
    <2> HIDE DEF i, o
    <2> QED
      BY <2>1, <2>2, <2>3
  <1>11. cur[r] # "own" => /\ depth[r] = 0 /\ Sole(r, cur[r])
                           /\ TooLarge \in Content(o) => TooLarge \in Cause(r)
                           /\ DefaultFirst /\ TooLarge \in Cause(r) => TooLarge \in Content(o)
                           /\ Cause(r) = Content(SentinelValue[cur[r]])
    BY <1>2, PointedFacts
  <1>12. cur[r] = "own" => o = own[r]
    BY DEF Obj
  <1> HIDE DEF o
  <1>13. Typed'
    BY <1>1, <1>2, <1>8, <1>10 DEF Typed, Working
  <1>14. \A q \in Requests \ {r} : Same(q)
    BY <1>1, <1>2, <1>10 DEF Same, Typed
  <1>15. Replaces(o) => own'[r] = TooLargeError /\ cur'[r] = "own"
    BY <1>1, <1>10 DEF Typed
  <1>16. ~Replaces(o) => own'[r] = own[r] /\ cur'[r] = cur[r]
    BY <1>10
  <1>17. Pointing(r)'
    <2> SUFFICES ASSUME cur'[r] # "own" PROVE Pointing(r)'
      BY DEF Pointing
    <2>1. cur'[r] = cur[r] /\ ~Replaces(o) /\ cur[r] # "own"
      BY <1>15, <1>16
    <2>2. DefaultFirst => TooLarge \notin Content(SentinelValue[cur[r]])
      BY <1>9, <1>11, <2>1
    <2> QED
      BY <1>1, <1>2, <1>3, <1>4, <2>1, <2>2 DEF Pointing, Working
  <1>18. PrivateInv(r)'
    <2>1. ASSUME Conceals(r), cur'[r] = "own" PROVE ~Public(own'[r])
      <3>1. cur[r] = "own" => ~Public(own[r]) /\ TooLarge \notin Content(own[r])
        BY <1>1, <1>2, <2>1 DEF PrivateInv
      <3>2. ~Replaces(o)
        BY <1>9, <1>11, <1>12, <2>1, <3>1 DEF Conceals
      <3> QED
        BY <1>16, <2>1, <3>1, <3>2
    <2> QED
      BY <1>2, <1>3, <1>4, <2>1 DEF PrivateInv
  <1>22. PublicInv(r)'
    <2>1. ASSUME Reveals(r), cur'[r] = "own" PROVE Tells(own'[r], Cause(r))
      <3>1. cur[r] = "own" => Tells(own[r], Cause(r)) /\ TooLarge \notin Content(own[r])
        BY <1>1, <1>2, <2>1 DEF PublicInv
      <3>2. ~Replaces(o)
        BY <1>9, <1>11, <1>12, <2>1, <3>1 DEF Reveals
      <3> QED
        BY <1>16, <2>1, <3>1, <3>2
    <2> QED
      BY <1>2, <1>3, <1>4, <2>1 DEF PublicInv
  <1>19. CauseInv(r)'
    <2>1. ASSUME depth[r] = 0, Given(r) # <<>>, TooLarge \notin Cause(r), ~Mixed(r), ~Shared(r), cur'[r] = "own"
          PROVE  own'[r] = own[r] /\ Covers(own[r], Cause(r))
      <3>1. cur[r] = "own" => Covers(own[r], Cause(r)) /\ TooLarge \notin Content(own[r])
        BY <1>1, <1>2, <2>1 DEF CauseInv
      <3>2. ~Replaces(o)
        BY <1>9, <1>11, <1>12, <2>1, <3>1
      <3> QED
        BY <1>16, <2>1, <3>1, <3>2
    <2>2. own'[r] = own[r] => Covers(own[r], Cause(r))' = Covers(own[r], Cause(r))
      BY <1>4 DEF Covers, LogAttrs
    <2> QED
      BY <1>2, <1>3, <1>4, <2>1, <2>2 DEF CauseInv
  <1>20. TooLargeInv(r)'
    <2>1. ASSUME DefaultFirst, depth[r] = 0, Given(r) # <<>>, TooLarge \in Cause(r), ~Mixed(r)
          PROVE  cur'[r] = "own" /\ (own'[r] = TooLargeError \/ {} \in LogAttrs(own'[r]))
      <3>1. cur[r] = "own" => TooLarge \in Content(own[r]) \/ {} \in LogAttrs(own[r])
        BY <1>1, <1>2, <2>1 DEF TooLargeInv
      <3>2. CASE Replaces(o)
        BY <1>15, <3>2
      <3>3. CASE ~Replaces(o)
        <4>1. TooLarge \notin Content(o)
          BY <1>9, <2>1, <3>3
        <4>2. cur[r] = "own"
          BY <1>11, <2>1, <4>1
        <4> QED
          BY <1>12, <1>16, <3>1, <3>3, <4>1, <4>2
      <3> QED
        BY <3>2, <3>3
    <2> QED
      BY <1>2, <1>3, <1>4, <2>1 DEF TooLargeInv
  <1>21. RequestInv(r)'
    BY <1>5, <1>17, <1>18, <1>22, <1>19, <1>20 DEF RequestInv
  <1> QED
    BY <1>2, <1>6, <1>13, <1>14, <1>21, Frame

\* The error is logged, or logging it panics.
LEMMA SetLogErrorStep == ASSUME IInv, NEW r \in Requests, SetLogError(r) PROVE IInv'
  <1>1. Typed /\ RequestInv(r) /\ Control(r) /\ StatusInv(r) /\ Pointing(r)
        /\ PrivateInv(r) /\ PublicInv(r) /\ CauseInv(r) /\ TooLargeInv(r) /\ \A s \in Sentinels : HeapInv(s)
    BY DEF IInv, RequestInv
  <1> DEFINE o == Obj(r)
  <1>2. /\ call' = call /\ args' = args /\ heap' = heap /\ hdr' = hdr /\ body' = body
        /\ cur' = cur /\ own' = own /\ depth' = depth /\ pc[r] = "log"
        /\ IF {} \in LogAttrs(o)
             THEN pc' = [pc EXCEPT ![r] = "panicked"] /\ logged' = logged
             ELSE /\ pc' = [pc EXCEPT ![r] = "mask"]
                  /\ logged' = [logged EXCEPT ![r] = @ \cup UNION LogAttrs(o)]
    BY DEF SetLogError, Goto
  <1>3. o \in Resolved
    BY <1>1 DEF Obj, Typed
  <1>4. UNION LogAttrs(o) \in Errors
    BY <1>3, LogAttrsFacts
  <1>5. cur[r] = "own" => o = own[r]
    BY DEF Obj
  <1>6. /\ Given(r)' = Given(r) /\ Cause(r)' = Cause(r) /\ Mixed(r)' = Mixed(r)
        /\ Shared(r)' = Shared(r) /\ Renders(r)' = Renders(r) /\ Stuck(r)' = Stuck(r)
        /\ depth'[r] = depth[r] => (Conceals(r)' <=> Conceals(r)) /\ (Reveals(r)' <=> Reveals(r))
        /\ \A s : Sole(r, s)' = Sole(r, s)
    BY <1>2, Fixed
  <1>7. ASSUME cur[r] # "own", ~Mixed(r), ~Shared(r) PROVE Covers(o, Cause(r))
    <2> DEFINE s == cur[r]
    <2>1. /\ s \in Sentinels /\ Sole(r, s) /\ depth[r] = 0 /\ o = heap[s]
          /\ heap[s] \in {Filled(s), MaskedOf(Filled(s))} /\ Cause(r) = Content(SentinelValue[s])
      BY <1>2, <1>7, PointedFacts
    <2> HIDE DEF s, o
    <2>2. PICK i \in DOMAIN Given(r) : Given(r)[i] = Sentinel(s)
      BY <1>1, <2>1, SoleFacts DEF Typed
    <2>3. ~Past(r)
      BY <1>2, <2>1 DEF Past
    <2>4. heap[s] \in {SentinelValue[s], Filled(s)}
      BY <1>1, <1>7, <2>1, <2>2, <2>3, NotMasked DEF Typed
    <2>5. Complete(SentinelValue[s]) = Filled(s) /\ Complete(MaskedOf(Filled(s))) = MaskedOf(Filled(s))
          /\ SentinelValue[s] \in Resolved
      BY <2>1, Forms
    <2>6. heap[s] = Filled(s)
      BY <2>1, <2>4, <2>5
    <2>7. SentinelValue[s].err = {} \/ SentinelValue[s].errs = {}
      BY <1>1, <1>7, <2>1, SoleFacts DEF Typed
    <2>8. Covers(Complete(SentinelValue[s]), Content(SentinelValue[s]))
      BY <2>5, <2>7, SingleCovers
    <2> QED
      BY <2>1, <2>5, <2>6, <2>8
  <1> HIDE DEF o
  <1>8. Typed'
    <2>1. logged[r] \cup UNION LogAttrs(o) \in Errors
      BY <1>1, <1>4 DEF Typed, Errors
    <2>2. Typed
      BY <1>1
    <2> HIDE <1>1
    <2> DEFINE l == logged[r] \cup UNION LogAttrs(o)
    <2>3. /\ \/ pc' = [pc EXCEPT ![r] = "panicked"]
             \/ pc' = [pc EXCEPT ![r] = "mask"]
          /\ logged' = logged \/ logged' = [logged EXCEPT ![r] = l]
      BY <1>2
    <2> HIDE DEF l
    <2>4. l \in Errors
      BY <2>1 DEF l
    <2>5. pc' \in [Requests -> {"idle", "resolve", "encodeValue", "done", "panicked"} \cup Working]
      BY <2>2, <2>3 DEF Typed, Working
    <2>6. logged' \in [Requests -> Errors]
      BY <2>2, <2>3, <2>4 DEF Typed
    <2> QED
      BY <1>2, <2>2, <2>5, <2>6 DEF Typed
  <1>9. \A q \in Requests \ {r} : Same(q)
    BY <1>1, <1>2 DEF Same, Typed
  <1>10. Past(r) => Past(r)'
    BY <1>2 DEF Past
  <1>11. CASE {} \in LogAttrs(o)
    <2>1. pc'[r] = "panicked"
      BY <1>1, <1>2, <1>11 DEF Typed
    <2>2. Control(r)' /\ StatusInv(r)' /\ Pointing(r)'
      BY <1>1, <1>2, <1>6, <2>1 DEF Control, StatusInv, Pointing, Working
    <2>3. PrivateInv(r)' /\ PublicInv(r)' /\ CauseInv(r)' /\ TooLargeInv(r)'
      BY <2>1 DEF PrivateInv, PublicInv, CauseInv, TooLargeInv
    <2>4. RequestInv(r)'
      BY <2>2, <2>3 DEF RequestInv
    <2> QED
      BY <1>2, <1>8, <1>9, <1>10, <2>4, Frame
  <1>12. CASE {} \notin LogAttrs(o)
    <2>1. pc'[r] = "mask" /\ logged'[r] = logged[r] \cup UNION LogAttrs(o)
      BY <1>1, <1>2, <1>12 DEF Typed
    <2>2. Control(r)' /\ StatusInv(r)'
      BY <1>1, <1>2, <1>6, <2>1 DEF Control, StatusInv, Working
    <2>3. Pointing(r)'
      BY <1>1, <1>2, <1>6, <2>1 DEF Pointing, Working
    <2>4. PrivateInv(r)'
      BY <1>1, <1>2, <1>6, <2>1 DEF PrivateInv
    <2>41. PublicInv(r)'
      <3>1. ASSUME Reveals(r), cur[r] = "own" PROVE Public(own[r]) /\ Cause(r) \subseteq Told(own[r])
        BY <1>1, <1>2, <1>5, <1>12, <3>1 DEF PublicInv, Tells
      <3> QED
        BY <1>2, <1>6, <2>1, <3>1 DEF PublicInv
    <2>5. CauseInv(r)'
      <3>1. ASSUME depth[r] = 0, Given(r) # <<>>, TooLarge \notin Cause(r), ~Mixed(r), ~Shared(r)
            PROVE  Cause(r) \subseteq logged'[r]
        <4>1. cur[r] = "own" => Covers(o, Cause(r))
          BY <1>1, <1>2, <1>5, <3>1 DEF CauseInv
        <4>2. Covers(o, Cause(r))
          BY <1>7, <3>1, <4>1
        <4> QED
          BY <1>12, <2>1, <4>2 DEF Covers
      <3> QED
        BY <1>2, <1>6, <2>1, <3>1 DEF CauseInv
    <2>6. TooLargeInv(r)'
      BY <1>1, <1>2, <1>5, <1>6, <1>12, <2>1 DEF TooLargeInv
    <2>7. RequestInv(r)'
      BY <2>2, <2>3, <2>4, <2>41, <2>5, <2>6 DEF RequestInv
    <2> QED
      BY <1>2, <1>8, <1>9, <1>10, <2>7, Frame
  <1> QED
    BY <1>11, <1>12

\* The default handler masks what the client may not see.
LEMMA MaskStep == ASSUME IInv, NEW r \in Requests, Mask(r) PROVE IInv'
  <1>1. Typed /\ RequestInv(r) /\ Control(r) /\ StatusInv(r) /\ Pointing(r)
        /\ PrivateInv(r) /\ PublicInv(r) /\ CauseInv(r) /\ TooLargeInv(r) /\ \A s \in Sentinels : HeapInv(s)
    BY DEF IInv, RequestInv
  <1> DEFINE hide == ~MaskPrivate \/ ~Public(Obj(r))
  <1>2. /\ call' = call /\ args' = args /\ cur' = cur /\ hdr' = hdr /\ body' = body
        /\ logged' = logged /\ depth' = depth /\ pc[r] = "mask"
        /\ pc' = [pc EXCEPT ![r] = "respond"]
        /\ IF hide THEN Store(r, MaskedOf(Obj(r))) ELSE UNCHANGED <<own, heap>>
    BY DEF Mask, Goto, MaskedOf
  <1>3. pc'[r] = "respond"
    BY <1>1, <1>2 DEF Typed
  <1>4. /\ Given(r)' = Given(r) /\ Cause(r)' = Cause(r) /\ Mixed(r)' = Mixed(r)
        /\ Shared(r)' = Shared(r) /\ Renders(r)' = Renders(r) /\ Stuck(r)' = Stuck(r)
        /\ depth'[r] = depth[r] => (Conceals(r)' <=> Conceals(r)) /\ (Reveals(r)' <=> Reveals(r))
        /\ \A s : Sole(r, s)' = Sole(r, s)
    BY <1>2, Fixed
  <1>5. Control(r)' /\ StatusInv(r)'
    BY <1>1, <1>2, <1>3, <1>4 DEF Control, StatusInv, Working
  <1>6. CauseInv(r)'
    BY <1>1, <1>2, <1>3, <1>4 DEF CauseInv
  <1>7. \A q \in Requests : Past(q) => Past(q)'
    BY <1>1, <1>2 DEF Past, Typed
  <1>8. CASE cur[r] = "own"
    <2>1. /\ heap' = heap /\ own[r] \in Resolved /\ Obj(r) = own[r]
          /\ own' = IF hide THEN [own EXCEPT ![r] = MaskedOf(own[r])] ELSE own
      BY <1>1, <1>2, <1>8 DEF Store, Obj, Typed
    <2>2. /\ MaskedOf(own[r]) \in Resolved /\ MaskedOf(own[r]).code = own[r].code
          /\ MaskedOf(own[r]).err = {Text} /\ MaskedOf(own[r]).errs = {}
      BY <2>1, Members DEF MaskedOf, Resolved
    <2>3. own'[r] = IF hide THEN MaskedOf(own[r]) ELSE own[r]
      BY <1>1, <2>1 DEF Typed
    <2>4. hide <=> ~MaskPrivate \/ ~Public(own[r])
      BY <2>1
    <2> HIDE DEF hide
    <2>5. Typed'
      BY <1>1, <1>2, <2>1, <2>2 DEF Typed, Working
    <2>6. \A q \in Requests \ {r} : Same(q)
      BY <1>1, <1>2, <2>1 DEF Same, Typed
    <2>7. Pointing(r)'
      BY <1>2, <1>8 DEF Pointing
    <2>8. PrivateInv(r)'
      <3>1. ASSUME Conceals(r) PROVE own'[r].err = {Text} /\ own'[r].errs = {}
        <4>1. ~Public(own[r])
          BY <1>1, <1>2, <1>8, <3>1 DEF PrivateInv
        <4> QED
          BY <2>2, <2>3, <2>4, <4>1
      <3> QED
        BY <1>2, <1>3, <1>4, <3>1 DEF PrivateInv
    <2>81. PublicInv(r)'
      <3>1. ASSUME Reveals(r) PROVE Public(own'[r]) /\ Cause(r) \subseteq Told(own'[r])
        <4>1. Public(own[r]) /\ Cause(r) \subseteq Told(own[r])
          BY <1>1, <1>2, <1>8, <3>1 DEF PublicInv
        <4>2. own'[r] = own[r]
          BY <2>3, <2>4, <3>1, <4>1 DEF Reveals
        <4> QED
          BY <4>1, <4>2
      <3> QED
        BY <1>2, <1>3, <1>4, <3>1 DEF PublicInv
    <2>9. TooLargeInv(r)'
      <3>1. TooLargeError.vis = "public" /\ TooLargeError.code = 413
        BY DEF TooLargeError, Fresh
      <3>2. Public(TooLargeError)
        BY <3>1 DEF Public
      <3>3. ASSUME DefaultFirst, depth[r] = 0, Given(r) # <<>>, TooLarge \in Cause(r), ~Mixed(r)
            PROVE  own'[r].code = 413 /\ (~MaskPrivate \/ own'[r] = TooLargeError)
        <4>1. own[r] = TooLargeError
          BY <1>1, <1>2, <3>3 DEF TooLargeInv
        <4> QED
          BY <2>2, <2>3, <2>4, <3>1, <3>2, <4>1
      <3> QED
        BY <1>2, <1>3, <1>4, <1>8, <3>3 DEF TooLargeInv
    <2>10. RequestInv(r)'
      BY <1>5, <1>6, <2>7, <2>8, <2>81, <2>9 DEF RequestInv
    <2> QED
      BY <1>2, <1>7, <2>1, <2>5, <2>6, <2>10, Frame
  <1>9. CASE cur[r] # "own"
    <2> DEFINE t == cur[r]
    <2>1. /\ t \in Sentinels /\ Sole(r, t) /\ Obj(r) = heap[t]
          /\ heap[t] \in {Filled(t), MaskedOf(Filled(t))}
          /\ DefaultFirst => TooLarge \notin Content(SentinelValue[t])
      <3>1. DefaultFirst => TooLarge \notin Content(SentinelValue[t])
        BY <1>1, <1>2, <1>9 DEF Pointing, Working
      <3> QED
        BY <1>2, <1>9, <3>1, PointedFacts
    <2>2. own' = own /\ heap' = IF hide THEN [heap EXCEPT ![t] = MaskedOf(heap[t])] ELSE heap
      BY <1>1, <1>2, <1>9, <2>1 DEF Store
    <2>3. hide <=> ~MaskPrivate \/ ~Public(heap[t])
      BY <2>1
    <2> HIDE DEF t, hide
    <2>31. MaskPrivate /\ Public(Filled(t)) => heap[t] = Filled(t) /\ ~hide
      <3>1. MaskPrivate /\ Public(Filled(t)) => heap[t] \in {SentinelValue[t], Filled(t)}
        BY <1>1, <2>1 DEF HeapInv
      <3>2. heap[t] = Filled(t) \/ heap[t] = MaskedOf(Filled(t))
        BY <2>1
      <3>3. SentinelValue[t] = MaskedOf(Filled(t)) => MaskedOf(Filled(t)) = Filled(t)
        BY <2>1, Forms
      <3>4. MaskPrivate /\ Public(Filled(t)) => heap[t] = Filled(t)
        BY <3>1, <3>2, <3>3
      <3> QED
        BY <2>3, <3>4
    <2>4. /\ MaskedOf(MaskedOf(Filled(t))) = MaskedOf(Filled(t))
          /\ MaskedOf(Filled(t)) \in Resolved
          /\ ~Public(Filled(t)) => ~Public(MaskedOf(Filled(t)))
      BY <2>1, Forms
    <2>5. /\ heap'[t] = IF hide THEN MaskedOf(Filled(t)) ELSE heap[t]
          /\ \A s \in Sentinels \ {t} : heap'[s] = heap[s]
      BY <1>1, <2>1, <2>2, <2>4 DEF Typed
    <2>6. Typed'
      <3>1. hide => MaskedOf(heap[t]) \in Resolved
        BY <2>1, <2>4
      <3> QED
        BY <1>1, <1>2, <2>1, <2>2, <3>1 DEF Typed, Working
    <2>7. \A q \in Requests \ {r} : Same(q)
      BY <1>1, <1>2, <2>2 DEF Same, Typed
    <2>8. HeapStep
      BY <2>1, <2>5 DEF HeapStep
    <2>9. \A s \in Sentinels : HeapInv(s)'
      <3>1. ASSUME NEW s \in Sentinels, s # t PROVE HeapInv(s)'
        BY <1>1, <1>2, <1>7, <2>5, <3>1, HeapFrame
      <3>2. ASSUME NEW s \in Sentinels, s = t PROVE HeapInv(s)'
        <4>1. heap'[s] \in {Filled(s), MaskedOf(Filled(s))}
          BY <2>1, <2>5, <3>2
        <4>2. Sole(r, s)' /\ pc'[r] \in {"respond", "encodeError", "done"}
          BY <1>3, <1>4, <2>1, <3>2
        <4>3. ~(DefaultFirst /\ TooLarge \in Content(SentinelValue[s]))
          BY <2>1, <3>2
        <4>4. MaskPrivate /\ Public(Filled(s)) => heap'[s] = Filled(s)
          BY <2>5, <2>31, <3>2
        <4> QED
          BY <4>1, <4>2, <4>3, <4>4 DEF HeapInv
      <3> QED
        BY <3>1, <3>2
    <2>10. Pointing(r)'
      <3>1. ~Public(Filled(t)) => heap'[t] = MaskedOf(Filled(t))
        BY <2>1, <2>3, <2>4, <2>5
      <3>2. heap'[t] \in {Filled(t), MaskedOf(Filled(t))}
        BY <2>1, <2>5
      <3> QED
        BY <1>1, <1>2, <1>3, <1>4, <3>1, <3>2 DEF Pointing, Working, t
    <2>11. PrivateInv(r)' /\ PublicInv(r)'
      BY <1>2, <1>3, <1>9 DEF PrivateInv, PublicInv
    <2>12. TooLargeInv(r)'
      <3>1. ~(DefaultFirst /\ depth[r] = 0 /\ Given(r) # <<>> /\ TooLarge \in Cause(r) /\ ~Mixed(r))
        BY <1>1, <1>2, <1>9 DEF TooLargeInv
      <3> QED
        BY <1>2, <1>4, <3>1 DEF TooLargeInv
    <2>13. RequestInv(r)'
      BY <1>5, <1>6, <2>10, <2>11, <2>12 DEF RequestInv
    <2> QED
      BY <1>2, <2>6, <2>7, <2>8, <2>9, <2>13, FrameHeap
  <1> QED
    BY <1>8, <1>9

\* What an answer is made of: nothing of what is private, all of what is not.
LEMMA AnswerFacts ==
    ASSUME IInv, NEW r \in Requests, pc[r] \in {"respond", "encodeError"}
    PROVE  /\ Obj(r) \in Resolved
           /\ cur[r] = "own" => Obj(r) = own[r]
           /\ Obj(r).code = IF cur[r] = "own" THEN own[r].code ELSE Filled(cur[r]).code
           /\ Conceals(r) => Obj(r).err = {Text} /\ Obj(r).errs = {}
           /\ Reveals(r) => Cause(r) \subseteq Told(Obj(r))
  <1>1. Typed /\ Pointing(r) /\ PrivateInv(r) /\ PublicInv(r) /\ \A s \in Sentinels : HeapInv(s)
    BY DEF IInv, RequestInv
  <1>2. Obj(r) \in Resolved /\ (cur[r] = "own" => Obj(r) = own[r])
    BY <1>1 DEF Obj, Typed
  <1>3. CASE cur[r] = "own"
    <2>1. Conceals(r) => own[r].err = {Text} /\ own[r].errs = {}
      BY <1>1, <1>3 DEF PrivateInv
    <2>2. Reveals(r) => Cause(r) \subseteq Told(own[r])
      BY <1>1, <1>3 DEF PublicInv
    <2> QED
      BY <1>2, <1>3, <2>1, <2>2
  <1>4. CASE cur[r] # "own"
    <2> DEFINE s == cur[r]
               f == Filled(s)
               m == MaskedOf(f)
    <2>1. /\ s \in Sentinels /\ Sole(r, s) /\ Obj(r) = heap[s] /\ HeapInv(s)
          /\ heap[s] \in {f, m} /\ (~Public(f) => heap[s] = m)
      BY <1>1, <1>4 DEF Typed, Pointing, Working, Obj
    <2> HIDE DEF s
    <2>2. /\ m.code = f.code /\ m.err = {Text} /\ m.errs = {} /\ Complete(m) = m
          /\ Complete(SentinelValue[s]) = f
      BY <2>1, Forms
    <2>3. Origin(Only(Given(r))) = SentinelValue[s] /\ One(Given(r))
      BY <1>1, <2>1, SoleFacts DEF Typed
    <2>4. ~ByMethod(Given(r)) => /\ Private(Given(r)) <=> ~Public(f)
                                 /\ ~Mixed(r) => Cause(r) \subseteq Told(f)
      BY <1>1, <2>2, <2>3, OneFacts DEF Typed
    <2>5. MaskPrivate /\ Public(f) => heap[s] \in {SentinelValue[s], f}
      BY <2>1 DEF HeapInv
    <2> HIDE DEF f, m
    <2>6. MaskPrivate /\ Public(f) => heap[s] = f
      BY <2>1, <2>2, <2>5
    <2>7. Conceals(r) => Obj(r).err = {Text} /\ Obj(r).errs = {}
      BY <2>1, <2>2, <2>4 DEF Conceals
    <2>8. Reveals(r) => Cause(r) \subseteq Told(Obj(r))
      BY <2>1, <2>4, <2>6 DEF Reveals
    <2>9. Obj(r).code = f.code
      BY <2>1, <2>2
    <2> QED
      BY <1>2, <1>4, <2>7, <2>8, <2>9 DEF f, s
  <1> QED
    BY <1>3, <1>4

\* The status line, and the body unless JSON is to encode it.
LEMMA RespondStep == ASSUME IInv, NEW r \in Requests, Respond(r) PROVE IInv'
  <1>1. Typed /\ RequestInv(r) /\ Control(r) /\ StatusInv(r) /\ Pointing(r)
        /\ PrivateInv(r) /\ PublicInv(r) /\ CauseInv(r) /\ TooLargeInv(r) /\ \A s \in Sentinels : HeapInv(s)
    BY DEF IInv, RequestInv
  <1> DEFINE o == Obj(r)
             text == IF o.errs # {} THEN UNION o.errs ELSE o.err
  <1>2. /\ call' = call /\ args' = args /\ heap' = heap /\ logged' = logged /\ cur' = cur
        /\ own' = own /\ depth' = depth /\ pc[r] = "respond"
        /\ hdr' = [hdr EXCEPT ![r] = IF @ = 0 THEN o.code ELSE @]
        /\ IF call[r].api
             THEN pc' = [pc EXCEPT ![r] = "encodeError"] /\ body' = body
             ELSE /\ pc' = [pc EXCEPT ![r] = "done"]
                  /\ body' = [body EXCEPT ![r] = [code |-> o.code, msgs |-> text]]
    BY DEF Respond, Goto, WriteHeader
  <1>3. /\ Given(r)' = Given(r) /\ Cause(r)' = Cause(r) /\ Mixed(r)' = Mixed(r)
        /\ Shared(r)' = Shared(r) /\ Renders(r)' = Renders(r) /\ Stuck(r)' = Stuck(r)
        /\ depth'[r] = depth[r] => (Conceals(r)' <=> Conceals(r)) /\ (Reveals(r)' <=> Reveals(r))
        /\ \A s : Sole(r, s)' = Sole(r, s)
    BY <1>2, Fixed
  <1>4. /\ o \in Resolved
        /\ cur[r] = "own" => o = own[r]
        /\ o.code = IF cur[r] = "own" THEN own[r].code ELSE Filled(cur[r]).code
        /\ Conceals(r) => o.err = {Text} /\ o.errs = {}
        /\ Reveals(r) => Cause(r) \subseteq Told(o)
    BY <1>2, AnswerFacts
  <1>5. text \in Errors /\ o.code \in Nat
    BY <1>4 DEF Resolved, Errors
  <1>6. (Conceals(r) => text = {Text}) /\ (Reveals(r) => Cause(r) \subseteq text)
    BY <1>4 DEF Told
  <1>7. o = TooLargeError => text = {TooLarge}
    BY DEF TooLargeError, Fresh
  <1> HIDE DEF o, text
  <1>8. Typed'
    <2>1. [code |-> o.code, msgs |-> text] \in [code : Nat, msgs : Errors]
      BY <1>5
    <2> QED
      BY <1>1, <1>2, <1>5, <2>1 DEF Typed, Working
  <1>9. \A q \in Requests \ {r} : Same(q)
    BY <1>1, <1>2 DEF Same, Typed
  <1>10. hdr'[r] = IF hdr[r] = 0 THEN o.code ELSE hdr[r]
    BY <1>1, <1>2 DEF Typed
  <1>11. ~call[r].early /\ call[r].op # "JSON" /\ ~Stuck(r) => hdr'[r] = o.code
    BY <1>1, <1>2, <1>10 DEF StatusInv, Working
  <1>12. Given(r) # <<>> => call[r].op # "JSON"
    BY <1>1, GivenFacts DEF Typed, Renders
  <1>13. DefaultFirst /\ depth[r] = 0 /\ Given(r) # <<>> /\ TooLarge \in Cause(r) /\ ~Mixed(r) =>
            o.code = 413 /\ (~MaskPrivate \/ o = TooLargeError) /\ cur[r] = "own" /\ o = own[r]
    BY <1>1, <1>2, <1>4 DEF TooLargeInv
  <1>14. CASE call[r].api
    <2>1. pc'[r] = "encodeError" /\ body' = body
      BY <1>1, <1>2, <1>14 DEF Typed
    <2>2. Control(r)'
      BY <1>1, <1>2, <1>3, <1>14, <2>1 DEF Control, Working
    <2>3. Pointing(r)'
      BY <1>1, <1>2, <1>3, <2>1 DEF Pointing, Working
    <2>4. PrivateInv(r)' /\ PublicInv(r)'
      BY <1>1, <1>2, <1>3, <2>1 DEF PrivateInv, PublicInv
    <2>5. CauseInv(r)'
      BY <1>1, <1>2, <1>3, <2>1 DEF CauseInv
    <2>6. TooLargeInv(r)'
      <3>1. DefaultFirst /\ depth[r] = 0 /\ Given(r) # <<>> /\ TooLarge \in Cause(r) /\ ~Mixed(r)
            /\ ~Stuck(r) => hdr'[r] = 413 \/ call[r].early
        BY <1>11, <1>12, <1>13
      <3> QED
        BY <1>2, <1>3, <1>13, <2>1, <3>1 DEF TooLargeInv
    <2>7. StatusInv(r)'
      BY <1>1, <1>2, <1>3, <1>4, <1>11, <2>1 DEF StatusInv, Working
    <2>8. RequestInv(r)'
      BY <2>2, <2>3, <2>4, <2>5, <2>6, <2>7 DEF RequestInv
    <2>9. Past(r) => Past(r)'
      BY <2>1 DEF Past
    <2> QED
      BY <1>2, <1>8, <1>9, <2>8, <2>9, Frame
  <1>15. CASE ~call[r].api
    <2>1. pc'[r] = "done" /\ body'[r] = [code |-> o.code, msgs |-> text] /\ ~Stuck(r)
      BY <1>1, <1>2, <1>15 DEF Typed, Stuck
    <2>2. body'[r].code = o.code /\ body'[r].msgs = text
      BY <2>1
    <2>3. Renders(r) => depth[r] # 0
      BY <1>1, <1>2 DEF Control
    <2>4. Control(r)'
      BY <1>1, <1>2, <1>3, <2>1, <2>3 DEF Control, Working
    <2>5. Pointing(r)'
      BY <1>1, <1>2, <1>3, <2>1 DEF Pointing, Working
    <2>6. PrivateInv(r)' /\ PublicInv(r)'
      BY <1>2, <1>3, <1>6, <2>1, <2>2 DEF PrivateInv, PublicInv
    <2>7. CauseInv(r)'
      BY <1>1, <1>2, <1>3, <2>1 DEF CauseInv
    <2>8. TooLargeInv(r)'
      <3>1. ASSUME DefaultFirst, depth[r] = 0, Given(r) # <<>>, TooLarge \in Cause(r), ~Mixed(r)
            PROVE  /\ body'[r] = [code |-> 413, msgs |-> {TooLarge}] \/ ~MaskPrivate
                   /\ hdr'[r] = 413 \/ call[r].early
        <4>1. o.code = 413 /\ (~MaskPrivate \/ o = TooLargeError) /\ call[r].op # "JSON"
          BY <1>12, <1>13, <3>1
        <4>2. hdr'[r] = 413 \/ call[r].early
          BY <1>11, <2>1, <4>1
        <4>3. body'[r] = [code |-> 413, msgs |-> {TooLarge}] \/ ~MaskPrivate
          BY <1>7, <2>1, <4>1
        <4> QED
          BY <4>2, <4>3
      <3> QED
        BY <1>2, <1>3, <2>1, <3>1 DEF TooLargeInv
    <2>9. StatusInv(r)'
      BY <1>2, <1>3, <1>11, <2>1, <2>2 DEF StatusInv, Working
    <2>10. RequestInv(r)'
      BY <2>4, <2>5, <2>6, <2>7, <2>8, <2>9 DEF RequestInv
    <2>11. Past(r) => Past(r)'
      BY <2>1 DEF Past
    <2> QED
      BY <1>2, <1>8, <1>9, <2>10, <2>11, Frame
  <1> QED
    BY <1>14, <1>15

\* JSON encodes the error body, or cannot.
LEMMA EncodeErrorStep == ASSUME IInv, NEW r \in Requests, EncodeError(r) PROVE IInv'
  <1>1. Typed /\ RequestInv(r) /\ Control(r) /\ StatusInv(r) /\ Pointing(r)
        /\ PrivateInv(r) /\ PublicInv(r) /\ CauseInv(r) /\ TooLargeInv(r) /\ \A s \in Sentinels : HeapInv(s)
    BY DEF IInv, RequestInv
  <1>2. pc[r] = "encodeError" /\ call[r].api
    BY <1>1 DEF EncodeError, Control
  <1>3. CASE "error" \in Unencodable
    <2>1. FailEncode(r) /\ Stuck(r)
      BY <1>2, <1>3 DEF EncodeError, Stuck
    <2> QED
      BY <1>2, <2>1, FailEncodeStep
  <1>4. CASE "error" \notin Unencodable
    <2> DEFINE o == Obj(r)
               text == Content(o)
    <2>1. /\ call' = call /\ args' = args /\ heap' = heap /\ logged' = logged /\ cur' = cur
          /\ own' = own /\ depth' = depth /\ hdr' = hdr
          /\ pc' = [pc EXCEPT ![r] = "done"]
          /\ body' = [body EXCEPT ![r] = [code |-> o.code, msgs |-> text]]
      BY <1>4 DEF EncodeError, Goto
    <2>2. /\ Given(r)' = Given(r) /\ Cause(r)' = Cause(r) /\ Mixed(r)' = Mixed(r)
          /\ Shared(r)' = Shared(r) /\ Renders(r)' = Renders(r) /\ Stuck(r)' = Stuck(r)
          /\ depth'[r] = depth[r] => (Conceals(r)' <=> Conceals(r)) /\ (Reveals(r)' <=> Reveals(r))
          /\ \A s : Sole(r, s)' = Sole(r, s)
      BY <2>1, Fixed
    <2>3. /\ o \in Resolved
          /\ cur[r] = "own" => o = own[r]
          /\ o.code = IF cur[r] = "own" THEN own[r].code ELSE Filled(cur[r]).code
          /\ Conceals(r) => o.err = {Text} /\ o.errs = {}
          /\ Reveals(r) => Cause(r) \subseteq Told(o)
      BY <1>2, AnswerFacts
    <2>4. text \in Errors /\ o.code \in Nat
      BY <2>3, ContentFacts DEF Resolved
    <2>5. (Conceals(r) => text = {Text}) /\ (Reveals(r) => Cause(r) \subseteq text)
      <3> HIDE DEF o
      <3>1. Told(o) \subseteq Content(o)
        BY DEF Told, Content
      <3>2. Conceals(r) => Content(o) = {Text}
        BY <2>3 DEF Content
      <3> QED
        BY <2>3, <3>1, <3>2
    <2>6. o = TooLargeError => text = {TooLarge}
      <3>1. TooLargeError.err = {TooLarge} /\ TooLargeError.errs = {}
        BY DEF TooLargeError, Fresh
      <3> HIDE DEF o
      <3> QED
        BY <3>1 DEF Content
    <2> HIDE DEF o, text
    <2>7. Typed'
      <3>1. [code |-> o.code, msgs |-> text] \in [code : Nat, msgs : Errors]
        BY <2>4
      <3> QED
        BY <1>1, <2>1, <3>1 DEF Typed
    <2>8. \A q \in Requests \ {r} : Same(q)
      BY <1>1, <2>1 DEF Same, Typed
    <2>9. pc'[r] = "done" /\ body'[r] = [code |-> o.code, msgs |-> text] /\ ~Stuck(r)
      BY <1>1, <1>4, <2>1 DEF Typed, Stuck
    <2>10. body'[r].code = o.code /\ body'[r].msgs = text
      BY <2>9
    <2>11. DefaultFirst /\ depth[r] = 0 /\ Given(r) # <<>> /\ TooLarge \in Cause(r) /\ ~Mixed(r) =>
              /\ o.code = 413 /\ (~MaskPrivate \/ o = TooLargeError)
              /\ hdr[r] = 413 \/ call[r].early
      BY <1>1, <1>2, <2>3, <2>9 DEF TooLargeInv
    <2>12. Renders(r) => depth[r] # 0
      BY <1>1, <1>2 DEF Control
    <2>13. Control(r)'
      BY <1>1, <1>2, <2>1, <2>2, <2>9, <2>12 DEF Control, Working
    <2>14. Pointing(r)'
      BY <1>1, <1>2, <2>1, <2>2, <2>9 DEF Pointing, Working
    <2>15. PrivateInv(r)' /\ PublicInv(r)'
      BY <2>1, <2>2, <2>5, <2>9, <2>10 DEF PrivateInv, PublicInv
    <2>16. CauseInv(r)'
      BY <1>1, <1>2, <2>1, <2>2, <2>9 DEF CauseInv
    <2>17. TooLargeInv(r)'
      <3>1. ASSUME DefaultFirst, depth[r] = 0, Given(r) # <<>>, TooLarge \in Cause(r), ~Mixed(r)
            PROVE  /\ body'[r] = [code |-> 413, msgs |-> {TooLarge}] \/ ~MaskPrivate
                   /\ hdr[r] = 413 \/ call[r].early
        <4>1. o.code = 413 /\ (~MaskPrivate \/ o = TooLargeError)
              /\ (hdr[r] = 413 \/ call[r].early)
          BY <2>11, <3>1
        <4> QED
          BY <2>6, <2>9, <4>1
      <3> QED
        BY <2>1, <2>2, <2>9, <3>1 DEF TooLargeInv
    <2>18. StatusInv(r)'
      BY <1>1, <1>2, <2>1, <2>2, <2>3, <2>9, <2>10 DEF StatusInv, Working
    <2>19. RequestInv(r)'
      BY <2>13, <2>14, <2>15, <2>16, <2>17, <2>18 DEF RequestInv
    <2>20. Past(r) => Past(r)'
      BY <2>9 DEF Past
    <2> QED
      BY <2>1, <2>7, <2>8, <2>19, <2>20, Frame
  <1> QED
    BY <1>3, <1>4

\* Nothing happens.
LEMMA StutterStep == ASSUME IInv, UNCHANGED vars PROVE IInv'
  <1>1. /\ pc' = pc /\ call' = call /\ args' = args /\ cur' = cur /\ own' = own /\ heap' = heap
        /\ hdr' = hdr /\ body' = body /\ logged' = logged /\ depth' = depth
    BY DEF vars
  <1>2. Typed'
    BY <1>1 DEF IInv, Typed
  <1>3. HeapStep /\ \A q \in Requests : Same(q)
    BY <1>1 DEF HeapStep, Same
  <1>4. \A s \in Sentinels : HeapInv(s)'
    BY <1>1, HeapFrame DEF IInv, Past
  <1>5. \A q \in Requests : RequestInv(q)'
    BY <1>1, <1>3, Others DEF IInv, Typed
  <1> QED
    BY <1>2, <1>4, <1>5 DEF IInv

-----------------------------------------------------------------------------
(* Theorems.                                                               *)

\* The invariant holds in every state of every execution.
THEOREM Invariance == Spec => []IInv
  <1>1. Init => IInv
    BY InitInv
  <1>2. IInv /\ [Next]_vars => IInv'
    <2> SUFFICES ASSUME IInv, [Next]_vars PROVE IInv'
      OBVIOUS
    <2>1. CASE UNCHANGED vars
      BY <2>1, StutterStep
    <2>2. ASSUME NEW r \in Requests, Step(r) PROVE IInv'
      BY <2>2, CallErrorStep, CallRenderStep, EncodeValueStep, ResolveStep, FillInStep,
         RunResolversStep, SetLogErrorStep, MaskStep, RespondStep, EncodeErrorStep DEF Step
    <2> QED
      BY <2>1, <2>2 DEF Next
  <1> QED
    BY <1>1, <1>2, PTL DEF Spec

\* Every variable keeps its type.
THEOREM TypeCorrect == Spec => []TypeOK
  <1>1. IInv => TypeOK
    BY DEF IInv, Typed, TypeOK, Working, Errors
  <1> QED
    BY <1>1, Invariance, PTL

\* With masking on, the client gets the status text and nothing else of what
\* the docs call private (by its Visibility, or by the highest of the status
\* codes), whichever requests share the *ResolvedError.  Errors with Public()
\* methods are not covered: for those the code does the opposite of the docs.
THEOREM PrivateMasked == Spec => []PrivateErrorsMasked
  <1>1. ASSUME IInv PROVE PrivateErrorsMasked
    <2> SUFFICES ASSUME NEW r \in Requests, Answered(r), TooLarge \notin Cause(r),
                        Private(Given(r)), ~ByMethod(Given(r))
                 PROVE  body[r].msgs = {Text}
      BY DEF PrivateErrorsMasked
    <2>1. PrivateInv(r) /\ Control(r) /\ Typed
      BY <1>1 DEF IInv, RequestInv
    <2>2. pc[r] = "done" /\ Given(r) # <<>>
      BY DEF Answered
    <2>3. depth[r] = 0
      BY <2>1, <2>2, GivenFacts, NestingAssumption DEF Control, Typed
    <2> QED
      BY <2>1, <2>2, <2>3 DEF PrivateInv, Conceals
  <1> QED
    BY <1>1, Invariance, PTL

\* With masking on, what the docs do not call private reaches the client, and
\* other requests that report the same *ResolvedError do not mask it.
THEOREM PublicShown == Spec => []PublicErrorsShown
  <1>1. ASSUME IInv PROVE PublicErrorsShown
    <2> SUFFICES ASSUME NEW r \in Requests, MaskPrivate, Answered(r), TooLarge \notin Cause(r),
                        ~Private(Given(r)), ~ByMethod(Given(r)),
                        ~Mixed(r), One(Given(r)) \/ ~Shared(r)
                 PROVE  Cause(r) \subseteq body[r].msgs
      BY DEF PublicErrorsShown
    <2>1. PublicInv(r) /\ Control(r) /\ Typed
      BY <1>1 DEF IInv, RequestInv
    <2>2. pc[r] = "done" /\ Given(r) # <<>>
      BY DEF Answered
    <2>3. depth[r] = 0
      BY <2>1, <2>2, GivenFacts, NestingAssumption DEF Control, Typed
    <2> QED
      BY <2>1, <2>2, <2>3 DEF PublicInv, Reveals
  <1> QED
    BY <1>1, Invariance, PTL

\* What the client is not shown is in the log: all of a handler's errors are,
\* unless another request reports the same *ResolvedError, or one of them has
\* both Err and Errs.
THEOREM CauseIsLogged == Spec => []CauseLogged
  <1>1. ASSUME IInv PROVE CauseLogged
    <2> SUFFICES ASSUME NEW r \in Requests, Answered(r), TooLarge \notin Cause(r), ~Mixed(r)
                 PROVE  Cause(r) \subseteq logged[r] \/ Shared(r)
      BY DEF CauseLogged
    <2>1. CauseInv(r) /\ Control(r) /\ Typed
      BY <1>1 DEF IInv, RequestInv
    <2>2. pc[r] = "done" /\ Given(r) # <<>>
      BY DEF Answered
    <2>3. depth[r] = 0
      BY <2>1, <2>2, GivenFacts, NestingAssumption DEF Control, Typed
    <2> QED
      BY <2>1, <2>2, <2>3 DEF CauseInv
  <1> QED
    BY <1>1, Invariance, PTL

\* The code in an error body is the status on the wire, if nothing was sent
\* before it.
THEOREM StatusAgreement == Spec => []StatusAgrees
  <1>1. ASSUME IInv PROVE StatusAgrees
    <2> SUFFICES ASSUME NEW r \in Requests, pc[r] = "done", body[r] # NoBody,
                        ~call[r].early, call[r].op # "JSON"
                 PROVE  hdr[r] = body[r].code
      BY DEF StatusAgrees
    <2> QED
      BY <1>1 DEF IInv, RequestInv, StatusInv
  <1> QED
    BY <1>1, Invariance, PTL

\* An oversized body is answered with a 413, alone, among other errors, and
\* however many requests share the *ResolvedError, if the default resolver is
\* the first of them.
THEOREM OversizedIs413 == ASSUME DefaultFirst PROVE Spec => []TooLargeIs413
  <1>1. ASSUME IInv PROVE TooLargeIs413
    <2> SUFFICES ASSUME NEW r \in Requests, Answered(r), TooLarge \in Cause(r), ~Mixed(r)
                 PROVE  /\ body[r] = [code |-> 413, msgs |-> {TooLarge}] \/ ~MaskPrivate
                        /\ hdr[r] = 413 \/ call[r].early
      BY DEF TooLargeIs413
    <2>1. TooLargeInv(r) /\ Control(r) /\ Typed
      BY <1>1 DEF IInv, RequestInv
    <2>2. pc[r] = "done" /\ Given(r) # <<>>
      BY DEF Answered
    <2>3. depth[r] = 0
      BY <2>1, <2>2, GivenFacts, NestingAssumption DEF Control, Typed
    <2> QED
      BY <2>1, <2>2, <2>3 DEF TooLargeInv
  <1> QED
    BY <1>1, Invariance, PTL

=============================================================================
