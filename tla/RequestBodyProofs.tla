-------------------------- MODULE RequestBodyProofs --------------------------
(***************************************************************************)
(* The properties of RequestBody, for any limits, sizes and divisions into *)
(* reads.  The readers around the body are followed one by one: what each  *)
(* of them does to the count and the error of a read.                      *)
(***************************************************************************)
EXTENDS RequestBody, NaturalsInduction, WellFoundedInduction, TLAPS

(***************************************************************************)
(* The invariant.                                                          *)

Got == req.size - left                            \* bytes the connection has given
Clean == ~(entered /\ reqBody.cut)                \* the log has not cut the body off
Installed == {req.config} \cup Range(req.chain)   \* the limits on the way
Overrun == \E n \in Installed : n > 0 /\ req.size > n
Outside(i) == \A t \in 1..i : ~readers[t].tee     \* the connection's side of the tee
Overflowed == \E i \in DOMAIN readers : readers[i].err = "big"

\* The request of Init.
RequestOK ==
    /\ req.chain \in Seq(Limits) /\ req.config \in ConfigLimits /\ req.resolver \in BOOLEAN
    /\ req.maxBodySize \in MaxBodySizes /\ req.loggerAt \in Nat
    /\ req.size \in Sizes /\ req.declared \in {-1, req.size}
    /\ req.content \in Contents /\ req.op \in Ops /\ req.json \in BOOLEAN
    /\ req.needed \in Nat

Typed == TypeOK /\ RequestOK /\ taken + left <= req.size

\* The tee is there when the request is inside the logger, once.
TeeInv ==
    /\ entered <=> \E t \in DOMAIN readers : readers[t].tee
    /\ \A t, u \in DOMAIN readers : (readers[t].tee /\ readers[u].tee) => t = u

\* A reader outside of the tee has seen every byte, or has given up.
ReaderInv ==
    \A i \in Limiters :
       /\ readers[i].limit \in Installed
       /\ Outside(i) /\ readers[i].err = "nil" => Got + readers[i].left = readers[i].limit
       /\ Outside(i) => Got + readers[i].left >= readers[i].limit

\* Before the first byte is asked for.
FreshInv ==
    (pc = "chain" \/ (pc = "handler" /\ call = 0)) =>
        /\ left = req.size /\ taken = 0 /\ call = 0 /\ ended = "nil" /\ status = 0 /\ parsed = {}
        /\ \A i \in DOMAIN readers : readers[i].err = "nil"

\* A rejected request, which no reader is put around.
Rejected ==
    /\ Limiters = {} /\ req.declared = req.size
    /\ status = 413 \/ (pc = "respond" /\ result.code = 413 /\ taken = 0)
Heeded(n) == n > 0 => (marker # 0 /\ marker <= n) \/ (Rejected /\ req.declared > n)
CallsLimit == req.op \notin {"Read", "JSON"}

\* Limits on the way, and what they have let pass.
LimitInv ==
    /\ \A i \in 1..at : Heeded(req.chain[i])
    /\ IF call = 0 THEN CallsLimit => pc \in {"chain", "handler"} \/ Rejected
                   ELSE Heeded(req.config)
    /\ \A i \in Limiters : taken + readers[i].left <= readers[i].limit

\* The log buffer holds what has passed the readers outside of the tee, of the
\* bytes the connection has given, as far as it fits.
Holds(n, got) ==
    /\ n <= got
    /\ req.maxBodySize > 0 => n <= req.maxBodySize
    /\ \A i \in Limiters : Outside(i) => n <= readers[i].limit
    /\ \/ n = got
       \/ \E i \in Limiters : Outside(i) /\ n = readers[i].limit
       \/ req.maxBodySize > 0 /\ n = req.maxBodySize
Logs(b, got) ==
    IF b.cut
      THEN /\ req.maxBodySize > 0 /\ b.remaining = 0
           /\ b.kept < req.maxBodySize /\ req.maxBodySize < got
           /\ \A i \in Limiters : Outside(i) => req.maxBodySize < readers[i].limit
      ELSE b.remaining = req.maxBodySize - b.kept /\ Holds(b.kept, got)
BufferInv == entered => Logs(reqBody, Got)

\* As long as the log has not cut the body off, it changes nothing.
ClearInv ==
    Clean =>
       /\ \A i \in Limiters : Got + readers[i].left >= readers[i].limit
       /\ \A i \in DOMAIN readers : /\ readers[i].err = "eof" => left = 0
                                    /\ readers[i].err = "big" => Overrun
CleanInv ==
    Clean =>
       /\ ended = "eof" => left = 0
       /\ ended = "big" \/ result.big \/ status = 413 => Overrun
       /\ ~crashed /\ stray = 0
       /\ ~Overflowed => taken + unread = Got
       /\ pc = "form" /\ call = 1 /\ ended # "big" => ~Overflowed
       /\ pc = "done" /\ entered => left = 0 \/ Overflowed

\* Where the handler is, and what its call has returned.
CallInv ==
    /\ crashed => pc \in {"drain", "done"}
    /\ pc = "drain" => entered
    /\ result.code = 413 => result.big
    /\ result.code = 0 => result = NoError
    /\ pc \in {"drain", "done"} \/ unread = 0
    /\ pc = "handler" => CallsLimit /\ call <= 1
    /\ req.op # "BindTwice" => /\ pc = "handler" => call = 0
                               /\ call <= 1
                               /\ pc \in {"chain", "handler", "form", "decode"} => "multipart" \notin parsed
    /\ pc = "form" => Bind /\ call >= 1
    /\ pc = "decode" => CallsLimit /\ call >= 1
    /\ pc = "read" => req.op = "Read"

\* An accepted form has been read to its end.
Refusal ==
    IF pc \in {"answer", "drain", "done"} THEN status # 200
    ELSE pc \in {"handler", "respond"} /\ result # NoError
FormInv ==
    (Bind /\ call <= 1 /\ req.content = "urlencoded") =>
       /\ pc \in {"decode", "validate"} \/ (pc = "respond" /\ result = NoError) \/ status = 200 =>
             "form" \in parsed /\ call = 1
       /\ ("form" \in parsed /\ Clean) => taken = req.size \/ Refusal

\* The response.
ResponseInv ==
    /\ entered /\ offered = -1 => respBody = Reset(req.maxBodySize)
    /\ entered /\ req.maxBodySize > 0 => Length(respBody) < req.maxBodySize + TruncSize
    /\ Fits(offered) => ~appended
    /\ pc \notin {"drain", "done"} => offered = -1 /\ ~appended
    /\ status # 0 <=> pc \in {"answer", "drain", "done"}

IInv ==
    /\ Typed /\ TeeInv /\ ReaderInv /\ StricterWins /\ BufferInv /\ ClearInv
    /\ FreshInv /\ LimitInv /\ CleanInv /\ CallInv /\ FormInv /\ ResponseInv

-----------------------------------------------------------------------------
(* Numbers.                                                                *)

\* A set of natural numbers has a least one.
LEMMA LeastNatural ==
    ASSUME NEW T \in SUBSET Nat, T # {}
    PROVE  \E n \in T : \A m \in T : n <= m
  <1> DEFINE R == OpToRel(<, Nat)
  <1>1. IsWellFoundedOn(R, Nat)
    BY NatLessThanWellFounded
  <1>2. \A m, n \in Nat : <<m, n>> \in R <=> m < n
    BY DEF OpToRel
  <1> HIDE DEF R
  <1>3. PICK n \in T : \A m \in T : ~ (<<m, n>> \in R)
    BY <1>1, WFMin, Zenon
  <1>4. n \in Nat /\ \A m \in T : m \in Nat
    OBVIOUS
  <1>5. \A m \in T : ~ (m < n)
    BY <1>2, <1>3, <1>4, Zenon
  <1> HIDE <1>2, <1>3
  <1> QED
    BY <1>4, <1>5

\* Min and Max are what their names say, on a set of natural numbers that has
\* a bound.
LEMMA MinFacts ==
    ASSUME NEW T \in SUBSET Nat, T # {}
    PROVE  Min(T) \in T /\ \A m \in T : Min(T) <= m
  BY LeastNatural DEF Min

LEMMA MaxFacts ==
    ASSUME NEW b \in Nat, NEW T \in SUBSET 1..b, T # {}
    PROVE  Max(T) \in T /\ \A m \in T : m <= Max(T)
  <1> DEFINE U == {n \in Nat : \A m \in T : m <= n}
  <1>1. b \in U
    OBVIOUS
  <1>2. PICK n \in U : \A m \in U : n <= m
    <2>1. U \in SUBSET Nat /\ U # {}
      BY <1>1
    <2> HIDE DEF U
    <2> QED
      BY <2>1, LeastNatural
  <1>3. n \in T
    <2> SUFFICES ASSUME n \notin T PROVE FALSE
      OBVIOUS
    <2>1. PICK m \in T : TRUE
      OBVIOUS
    <2>2. n - 1 \in Nat /\ \A k \in T : k <= n - 1
      BY <1>2, <2>1
    <2> QED
      BY <1>2, <2>2
  <1>4. \A m \in T : n >= m
    BY <1>2
  <1> QED
    BY <1>2, <1>3, <1>4 DEF Max

\* The greater and the smaller of two numbers.
LEMMA TwoNumbers ==
    ASSUME NEW m \in Int, NEW n \in Int
    PROVE  /\ Min({m, n}) = IF m <= n THEN m ELSE n
           /\ Max({m, n}) = IF m >= n THEN m ELSE n
  BY DEF Min, Max

-----------------------------------------------------------------------------
(* One reader.                                                             *)

Answers == [n : Nat, body : Nat, err : {"nil", "eof", "big"}, readers : Seq(Reader), buf : Buffer]

MaxReaders == [tee : {FALSE}, limit : Nat \ {0}, left : Nat, err : {"nil", "eof", "big"}]
TeeReaders == [tee : {TRUE}, limit : {0}, left : {0}, err : {"nil"}]

\* The fields of a reader.
LEMMA ReaderFacts ==
    ASSUME NEW r \in Reader
    PROVE  /\ r.tee \in BOOLEAN /\ r.limit \in Nat /\ r.left \in Nat /\ r.err \in {"nil", "eof", "big"}
           /\ ~r.tee => r \in MaxReaders /\ r.limit # 0
           /\ r.tee => r.err = "nil"
  <1>1. r \in MaxReaders \/ r \in TeeReaders
    BY DEF Reader, MaxReaders, TeeReaders
  <1>2. CASE r \in MaxReaders
    BY <1>2 DEF MaxReaders
  <1>3. CASE r \in TeeReaders
    <2>1. r.tee = TRUE /\ r.limit = 0 /\ r.left = 0 /\ r.err = "nil"
      BY <1>3 DEF TeeReaders
    <2>2. r.limit \in Nat /\ r.left \in Nat /\ r.err \in {"nil", "eof", "big"}
      BY <2>1
    <2> QED
      BY <2>1, <2>2, Zenon
  <1> QED
    BY <1>1, <1>2, <1>3
\* What a MaxBytesReader makes of an answer: it repeats its error, hands on what
\* its limit allows, or hands on as much as it allows with an error.
LEMMA MaxReaderFacts ==
    ASSUME NEW a \in Answers, readers \in Seq(Reader), Len(a.readers) = Len(readers),
           NEW i \in DOMAIN readers, ~readers[i].tee, a.readers[i] = readers[i]
    PROVE  LET b == Through(a, i)
               r == readers[i]
           IN  /\ b \in Answers /\ b.buf = a.buf /\ Len(b.readers) = Len(readers)
               /\ \A j \in DOMAIN readers : j # i => b.readers[j] = a.readers[j]
               /\ b.readers[i].tee = FALSE /\ b.readers[i].limit = r.limit
               /\ r.err # "nil" => /\ b.n = 0 /\ b.body = 0 /\ b.err = r.err
                                /\ b.readers[i] = r
               /\ (r.err = "nil" /\ a.n <= r.left) =>
                     /\ b.n = a.n /\ b.body = a.body /\ b.err = a.err
                     /\ b.readers[i].left = r.left - a.n /\ b.readers[i].err = a.err
               /\ (r.err = "nil" /\ a.n > r.left) =>
                     /\ b.n = r.left /\ b.body <= r.left /\ b.body <= a.body /\ b.err = "big"
                     /\ a.body = a.n => b.body = r.left
                     /\ b.readers[i].left = 0 /\ b.readers[i].err = "big"
  <1> DEFINE b == Through(a, i)
             r == readers[i]
  <1>1. /\ r \in MaxReaders /\ r.tee = FALSE /\ r.limit \in Nat /\ r.left \in Nat
        /\ r.err \in {"nil", "eof", "big"} /\ i \in 1..Len(readers) /\ Len(readers) \in Nat
    <2>1. r \in Reader /\ i \in 1..Len(readers) /\ Len(readers) \in Nat
      OBVIOUS
    <2> QED
      BY <2>1, ReaderFacts
  <1>2. a.readers \in Seq(Reader) /\ a.n \in Nat /\ a.body \in Nat /\ a.err \in {"nil", "eof", "big"}
        /\ a.buf \in Buffer
    BY DEF Answers
  <1>3. b = ThroughMax(a, i)
    BY DEF Through
  <1>a. \A j \in DOMAIN readers : j # i => a.readers[j] = a.readers[j]
    OBVIOUS
  <1>b. a.readers[i] = r
    OBVIOUS
  <1>c. Len(a.readers) = Len(readers) /\ DOMAIN readers = 1..Len(readers)
    OBVIOUS
  <1> HIDE DEF b, r
  <1>4. ASSUME NEW q \in Reader
        PROVE  LET rs == [a.readers EXCEPT ![i] = q]
               IN  /\ rs \in Seq(Reader) /\ Len(rs) = Len(readers) /\ rs[i] = q
                   /\ \A j \in DOMAIN readers : j # i => rs[j] = a.readers[j]
    BY <1>1, <1>2, <1>c
  <1>5. CASE r.err # "nil"
    <2>1. b = [a EXCEPT !.n = 0, !.body = 0, !.err = r.err]
      BY <1>3, <1>5 DEF ThroughMax, r
    <2>2. /\ b.n = 0 /\ b.body = 0 /\ b.err = r.err /\ b.readers = a.readers /\ b.buf = a.buf
          /\ b \in Answers
      BY <1>1, <2>1 DEF Answers
    <2>3. \A j \in DOMAIN readers : j # i => b.readers[j] = a.readers[j]
      BY <2>2
    <2>4. b.readers[i] = r /\ Len(b.readers) = Len(readers)
      BY <1>b, <1>c, <2>2
    <2> QED
      BY <1>1, <1>5, <2>2, <2>3, <2>4 DEF b, r
  <1>6. CASE r.err = "nil" /\ a.n <= r.left
    <2> DEFINE q == [r EXCEPT !.left = r.left - a.n, !.err = a.err]
    <2>1. b = [a EXCEPT !.readers = [a.readers EXCEPT ![i] = q]]
      BY <1>3, <1>b, <1>6, <1>1 DEF ThroughMax, Answers, r
    <2>2. r.left - a.n \in Nat
      BY <1>1, <1>2, <1>6
    <2>3. /\ q \in Reader /\ q.tee = FALSE /\ q.limit = r.limit
          /\ q.left = r.left - a.n /\ q.err = a.err
      <3>1. q \in MaxReaders
        BY <1>1, <1>2, <2>2 DEF MaxReaders
      <3>2. q.tee = FALSE /\ q.limit = r.limit /\ q.left = r.left - a.n /\ q.err = a.err
        BY <1>1 DEF MaxReaders
      <3> QED
        BY <3>1, <3>2 DEF Reader, MaxReaders
    <2> HIDE DEF q
    <2>4. /\ b.n = a.n /\ b.body = a.body /\ b.err = a.err /\ b.buf = a.buf
          /\ b.readers = [a.readers EXCEPT ![i] = q]
      BY <2>1 DEF Answers
    <2>5. /\ b.readers \in Seq(Reader) /\ Len(b.readers) = Len(readers) /\ b.readers[i] = q
          /\ \A j \in DOMAIN readers : j # i => b.readers[j] = a.readers[j]
      BY <1>4, <2>3, <2>4
    <2>6. b \in Answers
      BY <2>1, <2>4, <2>5 DEF Answers
    <2>7. /\ b.readers[i].left = r.left - a.n /\ b.readers[i].err = a.err
          /\ b.readers[i].tee = FALSE /\ b.readers[i].limit = r.limit
      BY <2>3, <2>5
    <2> QED
      BY <1>1, <1>2, <1>6, <2>4, <2>5, <2>6, <2>7 DEF b, r
  <1>7. CASE r.err = "nil" /\ a.n > r.left
    <2> DEFINE q == [r EXCEPT !.left = 0, !.err = "big"]
               m == Min({a.body, r.left})
    <2>0. ~(a.n <= r.left)
      BY <1>1, <1>2, <1>7
    <2>1. b = [a EXCEPT !.n = r.left, !.body = m, !.err = "big", !.readers = [a.readers EXCEPT ![i] = q]]
      BY <1>3, <1>7, <2>0 DEF ThroughMax, Answers, r
    <2>2. m \in Nat /\ m <= r.left /\ m <= a.body /\ (a.body = a.n => m = r.left)
      <3>1. m = IF a.body <= r.left THEN a.body ELSE r.left
        BY <1>1, <1>2, TwoNumbers
      <3> HIDE DEF m
      <3> QED
        BY <1>1, <1>2, <1>7, <3>1
    <2>3. /\ q \in Reader /\ q.tee = FALSE /\ q.limit = r.limit /\ q.left = 0 /\ q.err = "big"
      <3>1. q \in MaxReaders /\ q.tee = FALSE /\ q.limit = r.limit /\ q.left = 0 /\ q.err = "big"
        BY <1>1 DEF MaxReaders
      <3> QED
        BY <3>1 DEF Reader, MaxReaders
    <2> HIDE DEF q, m
    <2>4. /\ b.n = r.left /\ b.body = m /\ b.err = "big" /\ b.buf = a.buf
          /\ b.readers = [a.readers EXCEPT ![i] = q]
      BY <2>1 DEF Answers
    <2>5. /\ b.readers \in Seq(Reader) /\ Len(b.readers) = Len(readers) /\ b.readers[i] = q
          /\ \A j \in DOMAIN readers : j # i => b.readers[j] = a.readers[j]
      BY <1>4, <2>3, <2>4
    <2>6. b \in Answers
      BY <1>1, <2>1, <2>2, <2>4, <2>5 DEF Answers
    <2>7. /\ b.readers[i].left = 0 /\ b.readers[i].err = "big"
          /\ b.readers[i].tee = FALSE /\ b.readers[i].limit = r.limit
      BY <2>3, <2>5
    <2> QED
      BY <1>1, <1>2, <2>0, <1>7, <2>2, <2>4, <2>5, <2>6, <2>7 DEF b, r
  <1>8. r.err # "nil" \/ (r.err = "nil" /\ a.n <= r.left) \/ (r.err = "nil" /\ a.n > r.left)
    BY <1>1, <1>2
  <1> QED
    BY <1>5, <1>6, <1>7, <1>8

\* What the tee makes of an answer: it hands it on unless its write passes the
\* size of the log buffer.
LEMMA TeeFacts ==
    ASSUME NEW a \in Answers, NEW i \in DOMAIN readers, readers[i].tee, req.maxBodySize \in Int
    PROVE  LET b == Through(a, i)
               max == req.maxBodySize
           IN  /\ b \in Answers /\ b.readers = a.readers /\ b.body = a.body /\ b.n >= a.n
               /\ a.n = 0 => b = a
               /\ (a.n > 0 /\ max > 0 /\ a.buf.remaining <= 0) =>
                     b.buf = a.buf /\ b.n = a.n /\ b.err = a.err
               /\ (a.n > 0 /\ max > 0 /\ a.buf.remaining > 0 /\ a.buf.remaining < a.n) =>
                     /\ b.buf.cut = TRUE /\ b.buf.remaining = 0
                     /\ b.buf.kept < a.buf.kept + a.buf.remaining
               /\ (a.n > 0 /\ ~(max > 0 /\ a.buf.remaining < a.n)) =>
                     /\ b.buf.cut = a.buf.cut /\ b.buf.kept = a.buf.kept + a.n
                     /\ b.buf.remaining = a.buf.remaining - a.n
                     /\ b.n = a.n /\ b.err = a.err
  <1> DEFINE b == Through(a, i)
             max == req.maxBodySize
             w == a.buf
             x == Write(w, max, a.n)
  <1>1. /\ a.n \in Nat /\ w \in Buffer /\ w.kept \in Nat /\ w.remaining \in Int /\ w.cut \in BOOLEAN
        /\ TruncSize \in Nat /\ TruncSize > 0 /\ max \in Int
    BY TruncSizeAssumption DEF Answers, Buffer
  <1>2. b = ThroughTee(a)
    BY DEF Through
  <1>3. CASE a.n = 0
    BY <1>2, <1>3 DEF ThroughTee, Answers
  <1>4. CASE a.n > 0
    <2>1. b = [a EXCEPT !.buf = x.buf, !.n = x.n, !.err = IF x.eof THEN "eof" ELSE a.err]
      BY <1>1, <1>2, <1>4 DEF ThroughTee, Answers
    <2>2. /\ b.buf = x.buf /\ b.n = x.n /\ b.err = IF x.eof THEN "eof" ELSE a.err
          /\ b.readers = a.readers /\ b.body = a.body
          /\ (x.buf \in Buffer /\ x.n \in Nat) => b \in Answers
      BY <2>1 DEF Answers
    <2>3. CASE max > 0 /\ w.remaining <= 0
      <3>1. x.buf = w /\ x.n = a.n /\ x.eof = FALSE
        BY <2>3 DEF Write
      <3> HIDE DEF x, b, w, max
      <3>2. b.err = a.err /\ b.n >= a.n /\ b \in Answers
        BY <1>1, <2>2, <3>1
      <3> QED
        BY <1>1, <1>4, <2>2, <2>3, <3>1, <3>2 DEF b, w, max
    <2>4. CASE max > 0 /\ w.remaining > 0 /\ w.remaining < a.n
      <3> DEFINE m == Max({0, w.remaining - TruncSize})
      <3>1. m = IF 0 >= w.remaining - TruncSize THEN 0 ELSE w.remaining - TruncSize
        <4> DEFINE n == w.remaining - TruncSize
        <4>1. n \in Int /\ 0 \in Int
          BY <1>1
        <4> HIDE DEF n
        <4>2. Max({0, n}) = IF 0 >= n THEN 0 ELSE n
          BY <4>1, TwoNumbers
        <4> QED
          BY <4>2 DEF n
      <3> HIDE DEF m
      <3>2. m \in Nat /\ m < w.remaining
        BY <1>1, <2>4, <3>1
      <3>3. x = Cut(w, w.kept + m, a.n)
        BY <1>1, <2>4 DEF Write, m
      <3>4. x.buf.kept = w.kept + m /\ x.buf.cut = TRUE /\ x.buf.remaining = 0 /\ x.n = a.n + TruncSize
            /\ x.buf = [kept |-> w.kept + m, cut |-> TRUE, remaining |-> 0]
        BY <3>3 DEF Cut
      <3> HIDE DEF x, b, w, max
      <3>5. x.buf \in Buffer /\ x.n \in Nat
        BY <1>1, <3>2, <3>4 DEF Buffer
      <3>6. b.n >= a.n /\ b \in Answers /\ b.buf.kept < w.kept + w.remaining
        BY <1>1, <2>2, <3>2, <3>4, <3>5
      <3> QED
        <4>1. a.n # 0 /\ ~(w.remaining <= 0)
          BY <1>1, <1>4, <2>4
        <4>2. b.buf.cut = TRUE /\ b.buf.remaining = 0 /\ b.readers = a.readers /\ b.body = a.body
          BY <2>2, <3>4
        <4> QED
          BY <2>4, <3>6, <4>1, <4>2, Zenon DEF b, w, max
    <2>5. CASE ~(max > 0 /\ w.remaining < a.n)
      <3>1. x = Kept(w, a.n)
        BY <1>1, <1>4, <2>5 DEF Write
      <3>a. x.buf = [w EXCEPT !.kept = @ + a.n, !.remaining = @ - a.n] /\ x.n = a.n /\ x.eof = FALSE
        BY <3>1 DEF Kept
      <3> HIDE DEF x, b, w, max
      <3>2. /\ x.buf.kept = w.kept + a.n /\ x.buf.cut = w.cut /\ x.buf.remaining = w.remaining - a.n
            /\ x.buf \in Buffer
        <4>1. w \in [kept : Nat, cut : BOOLEAN, remaining : Int]
          BY <1>1 DEF Buffer
        <4> DEFINE l == w.kept + a.n
                   m == w.remaining - a.n
        <4>2. l \in Nat /\ m \in Int
          BY <1>1
        <4>3. x.buf = [w EXCEPT !.kept = l, !.remaining = m]
          BY <3>a
        <4> HIDE DEF l, m
        <4>4. x.buf.kept = l /\ x.buf.remaining = m
          BY <4>1, <4>3
        <4>5. x.buf.cut = w.cut
          BY <4>1, <4>3
        <4>6. x.buf \in Buffer
          BY <4>1, <4>2, <4>3 DEF Buffer
        <4> QED
          BY <4>4, <4>5, <4>6 DEF l, m
      <3>3. x.buf \in Buffer /\ x.n \in Nat
        BY <1>1, <3>a, <3>2
      <3>4. b.err = a.err /\ b.n >= a.n /\ b \in Answers
        BY <1>1, <2>2, <3>a, <3>2, <3>3
      <3>5. ~(max > 0 /\ w.remaining <= 0)
        BY <1>1, <1>4, <2>5
      <3> QED
        BY <1>1, <1>4, <2>2, <2>5, <3>a, <3>2, <3>4, <3>5 DEF b, w, max
    <2>6. \/ max > 0 /\ w.remaining <= 0
          \/ max > 0 /\ w.remaining > 0 /\ w.remaining < a.n
          \/ ~(max > 0 /\ w.remaining < a.n)
      BY <1>1
    <2> QED
      BY <2>3, <2>4, <2>5, <2>6, Zenon
  <1>5. a.n = 0 \/ a.n > 0
    BY <1>1
  <1> QED
    BY <1>3, <1>4, <1>5, Zenon

-----------------------------------------------------------------------------
(* The readers one after the other.                                        *)

\* What the connection answers when the first k readers ask.
Conn(c, k) ==
    /\ c.n \in Nat /\ c.body = c.n /\ c.n <= left /\ c.err \in {"nil", "eof"}
    /\ c.n > 0 => \A j \in 1..k : readers[j].err = "nil"
    /\ c.err = "eof" => left = 0

\* What the first i readers have made of c: no reader changes another, and none
\* adds bytes of the body.
Chained(a, c, i) ==
    /\ a \in Answers /\ Len(a.readers) = Len(readers) /\ a.body <= a.n /\ a.body <= c.n
    /\ \A j \in DOMAIN readers :
          /\ a.readers[j].tee = readers[j].tee /\ a.readers[j].limit = readers[j].limit
          /\ a.readers[j].left <= readers[j].left
          /\ j > i \/ readers[j].err # "nil" => a.readers[j] = readers[j]
          /\ j <= i /\ ~readers[j].tee => a.body + a.readers[j].left <= readers[j].left

\* Before the tee all is exact, and the readers there stay so.
Counts(a, c, j) ==
    /\ a.readers[j].err = "nil" => Got + c.n + a.readers[j].left = readers[j].limit
    /\ Got + c.n + a.readers[j].left >= readers[j].limit
Before(a, c, i) ==
    Outside(i) =>
       /\ a.buf = reqBody /\ a.body = a.n /\ a.n <= c.n
       /\ a.err = "nil" => a.n = c.n
       /\ \A j \in Limiters : j <= i /\ c.n > 0 => Got + a.n <= readers[j].limit
       /\ a.n = c.n \/ \E j \in Limiters : j <= i /\ Got + a.n = readers[j].limit
Exact(a, c, i) ==
    /\ \A j \in Limiters : j <= i /\ Outside(j) => Counts(a, c, j)
    /\ Before(a, c, i)

\* As long as the log has not cut the body off, so it is behind the tee.
Over(a, i) == \E j \in DOMAIN readers : j <= i /\ a.readers[j].err = "big"
Clear(a, c, i) ==
    (Clean /\ (Outside(i) \/ ~a.buf.cut)) =>
       /\ a.body = a.n /\ a.n <= c.n
       /\ \A j \in DOMAIN readers : j <= i =>
             /\ ~readers[j].tee => a.readers[j].left + c.n >= readers[j].left
             /\ a.readers[j].err = "eof" => left = c.n
             /\ a.readers[j].err = "big" => Overrun
       /\ a.err = "eof" => left = c.n
       /\ a.err = "big" => Over(a, i)
       /\ a.n = c.n \/ Over(a, i)
       /\ Over(a, i) /\ ~Overflowed => a.err = "big" /\ c.n > 0

\* What is in the log.
Recorded(a, c, i) ==
    entered =>
       /\ reqBody.cut => a.buf.cut
       /\ ~Outside(i) => Logs(a.buf, Got + c.n)

\* An error a reader has met comes up, or the log has cut the body off.
Hidden(j, b) == Outside(j) /\ entered /\ b.cut
Silent == \A j \in Limiters : readers[j].err # "nil" => Hidden(j, reqBody)
Reported(a, i) ==
    Silent => \A j \in Limiters : j <= i =>
       /\ a.readers[j].err # "nil" => a.err # "nil" \/ Hidden(j, a.buf)
       /\ a.readers[j].err = "big" => a.err = "big" \/ Hidden(j, a.buf)

Passes(a, c, i) ==
    Chained(a, c, i) /\ Exact(a, c, i) /\ Clear(a, c, i) /\ Recorded(a, c, i) /\ Reported(a, i)

\* The types that matter to the readers.
LEMMA Types ==
    ASSUME Typed
    PROVE  /\ readers \in Seq(Reader) /\ Len(readers) \in Nat /\ DOMAIN readers = 1..Len(readers)
           /\ \A j \in DOMAIN readers : readers[j] \in Reader
           /\ req.maxBodySize \in Int /\ req.size \in Nat /\ left \in Nat /\ left <= req.size
           /\ taken \in Nat /\ taken + left <= req.size /\ Got \in Nat /\ reqBody \in Buffer
  <1>1. readers \in Seq(Reader) /\ left \in 0..req.size /\ taken \in 0..req.size /\ reqBody \in Buffer
    BY DEF Typed, TypeOK
  <1>2. req.size \in Sizes /\ req.maxBodySize \in MaxBodySizes /\ taken + left <= req.size
    BY DEF Typed, RequestOK
  <1>3. req.size \in Nat /\ req.maxBodySize \in Int
    BY <1>2, LimitsAssumption
  <1>4. left \in Nat /\ left <= req.size /\ taken \in Nat /\ Got \in Nat
    BY <1>1, <1>3 DEF Got
  <1> QED
    BY <1>1, <1>2, <1>3, <1>4

\* What an answer has gone through, one reader further.
LEMMA OutsideFacts ==
    ASSUME NEW i \in Nat, i > 0
    PROVE  /\ Outside(i) => Outside(i - 1) /\ ~readers[i].tee
           /\ ~readers[i].tee => (Outside(i) <=> Outside(i - 1))
           /\ readers[i].tee => ~Outside(i)
  BY DEF Outside

LEMMA ChainedStep ==
    ASSUME IInv, NEW i \in DOMAIN readers, NEW c, c.n \in Nat, NEW a, Chained(a, c, i - 1)
    PROVE  Chained(Through(a, i), c, i)
  <1> DEFINE b == Through(a, i)
             r == readers[i]
  <1>1. /\ readers \in Seq(Reader) /\ req.maxBodySize \in Int /\ i \in 1..Len(readers)
        /\ Len(readers) \in Nat /\ \A j \in DOMAIN readers : readers[j] \in Reader
    BY Types DEF IInv
  <1>2. /\ a \in Answers /\ Len(a.readers) = Len(readers) /\ a.body <= a.n /\ a.body <= c.n
        /\ a.readers[i] = r /\ a.n \in Nat /\ a.body \in Nat
        /\ \A j \in DOMAIN readers : a.readers[j] \in Reader
    BY <1>1 DEF Chained, Answers
  <1>3. /\ r.left \in Nat /\ r.err \in {"nil", "eof", "big"} /\ r.tee \in BOOLEAN
        /\ \A j \in DOMAIN readers : readers[j].left \in Nat /\ a.readers[j].left \in Nat
    BY <1>1, <1>2, ReaderFacts
  <1>4. CASE r.tee
    <2>1. b \in Answers /\ b.readers = a.readers /\ b.body = a.body /\ b.n >= a.n
      BY <1>1, <1>2, <1>4, TeeFacts
    <2>2. b.n \in Nat
      BY <2>1 DEF Answers
    <2> HIDE DEF b
    <2>3. \A j \in DOMAIN readers : (j <= i /\ ~readers[j].tee) => j <= i - 1
      BY <1>1, <1>4
    <2> QED
      BY <1>1, <1>2, <1>3, <2>1, <2>2, <2>3 DEF Chained, b
  <1>5. CASE ~r.tee
    <2>1. /\ b \in Answers /\ Len(b.readers) = Len(readers)
          /\ \A j \in DOMAIN readers : j # i => b.readers[j] = a.readers[j]
          /\ b.readers[i].tee = FALSE /\ b.readers[i].limit = r.limit
          /\ r.err # "nil" => b.n = 0 /\ b.body = 0 /\ b.readers[i] = r
          /\ (r.err = "nil" /\ a.n <= r.left) =>
                b.n = a.n /\ b.body = a.body /\ b.readers[i].left = r.left - a.n
          /\ (r.err = "nil" /\ a.n > r.left) =>
                b.n = r.left /\ b.body <= r.left /\ b.body <= a.body /\ b.readers[i].left = 0
      BY <1>1, <1>2, <1>5, MaxReaderFacts
    <2>2. b.n \in Nat /\ b.body \in Nat /\ b.readers[i] \in Reader
      BY <1>1, <2>1 DEF Answers
    <2>3. b.readers[i].left \in Nat
      BY <2>2, ReaderFacts
    <2> HIDE DEF b, r
    <2>4. b.body <= b.n /\ b.body <= a.body /\ b.body <= c.n
          /\ b.body + b.readers[i].left <= r.left
      BY <1>2, <1>3, <2>1, <2>2, <2>3
    <2>5. ASSUME NEW j \in DOMAIN readers, j # i
          PROVE  /\ b.readers[j].tee = readers[j].tee /\ b.readers[j].limit = readers[j].limit
                 /\ b.readers[j].left <= readers[j].left
                 /\ j > i \/ readers[j].err # "nil" => b.readers[j] = readers[j]
                 /\ j <= i /\ ~readers[j].tee => b.body + b.readers[j].left <= readers[j].left
      <3>1. b.readers[j] = a.readers[j] /\ j \in Int /\ i \in Int
        BY <1>1, <2>1, <2>5
      <3>2. j <= i => j <= i - 1
        BY <2>5, <3>1
      <3>3. /\ a.readers[j].tee = readers[j].tee /\ a.readers[j].limit = readers[j].limit
            /\ a.readers[j].left <= readers[j].left
            /\ j > i - 1 \/ readers[j].err # "nil" => a.readers[j] = readers[j]
            /\ j <= i - 1 /\ ~readers[j].tee => a.body + a.readers[j].left <= readers[j].left
        BY DEF Chained
      <3>4. j > i => j > i - 1
        BY <3>1
      <3>5. /\ a.body \in Nat /\ b.body \in Nat /\ b.body <= a.body
            /\ a.readers[j].left \in Nat /\ readers[j].left \in Nat
        BY <1>2, <1>3, <2>2, <2>4
      <3>6. ASSUME j <= i, ~readers[j].tee PROVE b.body + b.readers[j].left <= readers[j].left
        <4>1. a.body + a.readers[j].left <= readers[j].left /\ b.readers[j].left = a.readers[j].left
          BY <3>1, <3>2, <3>3, <3>6, Zenon
        <4> QED
          BY <3>5, <4>1
      <3> QED
        BY <3>1, <3>3, <3>4, <3>6, Zenon
    <2>6. /\ b.readers[i].tee = r.tee /\ b.readers[i].limit = r.limit /\ b.readers[i].left <= r.left
      <3>1. r.tee = FALSE
        BY <1>3, <1>5 DEF r
      <3>2. b.readers[i].left <= r.left
        BY <1>3, <2>2, <2>3, <2>4
      <3>3. b.readers[i].tee = FALSE /\ b.readers[i].limit = r.limit
        BY <2>1
      <3> QED
        BY <3>1, <3>2, <3>3, Zenon
    <2> QED
      BY <1>1, <2>1, <2>4, <2>5, <2>6 DEF Chained, b, r
  <1> QED
    BY <1>3, <1>4, <1>5

LEMMA BeforeStep ==
    ASSUME IInv, NEW k \in 0..Len(readers), NEW i \in 1..k, NEW c, Conn(c, k),
           NEW a, Chained(a, c, i - 1), Before(a, c, i - 1), Outside(i)
    PROVE  Before(Through(a, i), c, i) /\ Counts(Through(a, i), c, i)
  <1> DEFINE b == Through(a, i)
             r == readers[i]
  <1>1. /\ readers \in Seq(Reader) /\ i \in DOMAIN readers /\ i \in Nat /\ i > 0 /\ Got \in Nat
        /\ \A j \in DOMAIN readers : readers[j] \in Reader
    BY Types DEF IInv
  <1>2. ~r.tee /\ Outside(i - 1) /\ r \in Reader /\ i \in Limiters
    BY <1>1, OutsideFacts DEF Limiters
  <1>3. /\ r.left \in Nat /\ r.err \in {"nil", "eof", "big"} /\ r.limit \in Nat
        /\ \A j \in DOMAIN readers : readers[j].limit \in Nat
    BY <1>1, <1>2, ReaderFacts
  <1>4. /\ a \in Answers /\ Len(a.readers) = Len(readers) /\ a.readers[i] = r
        /\ a.n \in Nat /\ a.err \in {"nil", "eof", "big"}
    BY <1>1 DEF Chained, Answers
  <1>5. /\ a.buf = reqBody /\ a.body = a.n /\ a.n <= c.n
        /\ a.err = "nil" => a.n = c.n
        /\ \A j \in Limiters : j <= i - 1 /\ c.n > 0 => Got + a.n <= readers[j].limit
        /\ a.n = c.n \/ \E j \in Limiters : j <= i - 1 /\ Got + a.n = readers[j].limit
    BY <1>2 DEF Before
  <1>6. c.n \in Nat /\ (c.n > 0 => r.err = "nil")
    BY DEF Conn
  <1>7. /\ r.err = "nil" => Got + r.left = r.limit
        /\ Got + r.left >= r.limit
    BY <1>2 DEF IInv, ReaderInv
  <1>8. /\ b.buf = a.buf
        /\ r.err # "nil" => b.n = 0 /\ b.body = 0 /\ b.err = r.err /\ b.readers[i] = r
        /\ (r.err = "nil" /\ a.n <= r.left) =>
              /\ b.n = a.n /\ b.body = a.body /\ b.err = a.err
              /\ b.readers[i].left = r.left - a.n /\ b.readers[i].err = a.err
        /\ (r.err = "nil" /\ a.n > r.left) =>
              /\ b.n = r.left /\ (a.body = a.n => b.body = r.left) /\ b.err = "big"
              /\ b.readers[i].left = 0 /\ b.readers[i].err = "big"
    BY <1>1, <1>2, <1>4, MaxReaderFacts
  <1> HIDE DEF b, r
  <1>9. /\ b.n <= a.n /\ b.body = b.n
        /\ b.n = a.n \/ (c.n > 0 /\ Got + b.n = r.limit)
        /\ b.err = "nil" => b.n = c.n
    <2>1. CASE r.err # "nil"
      BY <1>4, <1>5, <1>6, <1>8, <2>1
    <2>2. CASE r.err = "nil" /\ a.n <= r.left
      BY <1>4, <1>5, <1>6, <1>8, <2>2
    <2>3. CASE r.err = "nil" /\ a.n > r.left
      BY <1>1, <1>3, <1>4, <1>5, <1>6, <1>7, <1>8, <2>3
    <2> QED
      BY <1>3, <1>4, <2>1, <2>2, <2>3
  <1>10. /\ b.readers[i].err = "nil" => Got + c.n + b.readers[i].left = r.limit
         /\ Got + c.n + b.readers[i].left >= r.limit
         /\ c.n > 0 => Got + b.n <= r.limit
    <2>1. CASE r.err # "nil"
      BY <1>1, <1>3, <1>4, <1>5, <1>6, <1>7, <1>8, <2>1
    <2>0. Got \in Nat /\ c.n \in Nat /\ r.left \in Nat /\ r.limit \in Nat /\ a.n \in Nat /\ a.n <= c.n
      BY <1>1, <1>3, <1>4, <1>5, <1>6
    <2>2. CASE r.err = "nil" /\ a.n <= r.left
      <3>1. /\ b.readers[i].left = r.left - a.n /\ b.readers[i].err = a.err /\ b.n = a.n
            /\ Got + r.left = r.limit /\ (a.err = "nil" => a.n = c.n)
        BY <1>5, <1>7, <1>8, <2>2
      <3>2. a.n <= r.left
        BY <2>2
      <3>3. Got + c.n + (r.left - a.n) >= r.limit /\ Got + a.n <= r.limit
            /\ (a.n = c.n => Got + c.n + (r.left - a.n) = r.limit)
        BY <2>0, <3>1, <3>2
      <3> QED
        BY <3>1, <3>3
    <2>3. CASE r.err = "nil" /\ a.n > r.left
      <3>1. /\ b.readers[i].left = 0 /\ b.readers[i].err = "big" /\ b.n = r.left
            /\ Got + r.left = r.limit
        BY <1>7, <1>8, <2>3
      <3>2. b.readers[i].err # "nil"
        BY <3>1
      <3>3. a.n > r.left
        BY <2>3
      <3>4. Got + c.n + 0 >= r.limit /\ Got + r.left <= r.limit
        BY <2>0, <3>1, <3>3
      <3>5. Got + c.n + b.readers[i].left >= r.limit /\ Got + b.n <= r.limit
        BY <3>1, <3>4
      <3> QED
        BY <3>2, <3>5, Zenon
    <2> QED
      BY <2>0, <2>1, <2>2, <2>3
  <1>11. b.n \in Nat
    BY <1>3, <1>4, <1>8
  <1>12. ASSUME NEW j \in Limiters, j <= i, c.n > 0
         PROVE  Got + b.n <= readers[j].limit
    <2>1. CASE j = i
      BY <1>10, <1>12, <2>1 DEF r
    <2>2. CASE j # i
      <3>1. j \in DOMAIN readers /\ j \in Int
        BY <1>1 DEF Limiters
      <3>2. j <= i - 1 /\ readers[j].limit \in Nat
        BY <1>1, <1>3, <1>12, <2>2, <3>1
      <3> QED
        BY <1>1, <1>4, <1>5, <1>9, <1>11, <1>12, <3>2
    <2> QED
      BY <2>1, <2>2
  <1>13. b.n = c.n \/ \E j \in Limiters : j <= i /\ Got + b.n = readers[j].limit
    <2>1. CASE b.n = a.n
      <3>1. \A j \in Limiters : j <= i - 1 => j <= i
        BY <1>1 DEF Limiters
      <3> QED
        BY <1>5, <2>1, <3>1
    <2>2. CASE Got + b.n = r.limit
      BY <1>1, <1>2, <2>2 DEF r
    <2> QED
      BY <1>9, <2>1, <2>2
  <1>14. b.n <= c.n
    BY <1>4, <1>5, <1>6, <1>9, <1>11
  <1>15. Before(b, c, i)
    BY <1>5, <1>8, <1>9, <1>12, <1>13, <1>14 DEF Before
  <1>16. Counts(b, c, i)
    BY <1>10 DEF Counts, r
  <1> QED
    BY <1>15, <1>16 DEF b

LEMMA ExactStep ==
    ASSUME IInv, NEW k \in 0..Len(readers), NEW i \in 1..k, NEW c, Conn(c, k),
           NEW a, Chained(a, c, i - 1), Exact(a, c, i - 1)
    PROVE  Exact(Through(a, i), c, i)
  <1> DEFINE b == Through(a, i)
  <1>1. /\ readers \in Seq(Reader) /\ i \in DOMAIN readers /\ i \in Nat /\ i > 0
        /\ req.maxBodySize \in Int
    BY Types DEF IInv
  <1>2. /\ a \in Answers /\ Len(a.readers) = Len(readers) /\ a.readers[i] = readers[i]
        /\ \A j \in Limiters : j <= i - 1 /\ Outside(j) => Counts(a, c, j)
        /\ Before(a, c, i - 1)
    BY <1>1 DEF Chained, Exact
  <1>3. \A j \in DOMAIN readers : j # i => b.readers[j] = a.readers[j]
    <2>1. CASE readers[i].tee
      BY <1>1, <1>2, <2>1, TeeFacts
    <2>2. CASE ~readers[i].tee
      BY <1>1, <1>2, <2>2, MaxReaderFacts
    <2> QED
      BY <2>1, <2>2
  <1>4. Outside(i) => Before(b, c, i) /\ Counts(b, c, i)
    BY <1>2, BeforeStep
  <1> HIDE DEF b
  <1>5. ASSUME NEW j \in Limiters, j <= i, Outside(j) PROVE Counts(b, c, j)
    <2>1. CASE j = i
      BY <1>4, <1>5, <2>1
    <2>2. CASE j # i
      <3>1. j \in DOMAIN readers /\ j \in Int
        BY <1>1 DEF Limiters
      <3>2. j <= i - 1
        BY <1>1, <1>5, <2>2, <3>1
      <3>3. Counts(a, c, j) /\ b.readers[j] = a.readers[j]
        BY <1>2, <1>3, <1>5, <2>2, <3>1, <3>2
      <3> QED
        BY <3>3 DEF Counts
    <2> QED
      BY <2>1, <2>2
  <1>6. Before(b, c, i)
    BY <1>4 DEF Before
  <1> QED
    BY <1>5, <1>6 DEF Exact, b

LEMMA ClearStep ==
    ASSUME IInv, NEW k \in 0..Len(readers), NEW i \in 1..k, NEW c, Conn(c, k),
           NEW a, Chained(a, c, i - 1), Clear(a, c, i - 1)
    PROVE  Clear(Through(a, i), c, i)
  <1> DEFINE b == Through(a, i)
             r == readers[i]
  <1> SUFFICES ASSUME Clean, Outside(i) \/ ~b.buf.cut PROVE Clear(b, c, i)
    BY DEF Clear
  <1>1. /\ readers \in Seq(Reader) /\ i \in DOMAIN readers /\ i \in Nat /\ i > 0 /\ Got \in Nat
        /\ \A j \in DOMAIN readers : readers[j] \in Reader /\ j \in Nat
        /\ req.maxBodySize \in Int /\ left \in Nat /\ Got = req.size - left /\ req.size \in Nat
    BY Types DEF IInv, Got
  <1>2. r \in Reader
    BY <1>1
  <1>3. /\ r.left \in Nat /\ r.err \in {"nil", "eof", "big"} /\ r.limit \in Nat /\ r.tee \in BOOLEAN
        /\ ~r.tee => r.limit # 0
        /\ r.tee => r.err = "nil"
        /\ \A j \in DOMAIN readers : readers[j].limit \in Nat /\ readers[j].left \in Nat
    BY <1>1, <1>2, ReaderFacts
  <1>4. /\ a \in Answers /\ Len(a.readers) = Len(readers) /\ a.readers[i] = r
        /\ a.n \in Nat /\ a.err \in {"nil", "eof", "big"}
        /\ \A j \in DOMAIN readers : a.readers[j].left \in Nat
    <2>1. a \in Answers /\ Len(a.readers) = Len(readers) /\ a.readers[i] = r
      BY <1>1 DEF Chained
    <2>2. \A j \in DOMAIN readers : a.readers[j] \in Reader
      BY <1>1, <2>1 DEF Answers
    <2> QED
      BY <2>1, <2>2, ReaderFacts DEF Answers
  <1>5. c.n \in Nat /\ c.n <= left /\ (c.n > 0 => r.err = "nil")
    BY DEF Conn
  <1>6. /\ ~r.tee => Got + r.left >= r.limit /\ r.limit \in Installed
        /\ r.err = "eof" => left = 0
        /\ r.err = "big" => Overrun /\ Overflowed
    BY <1>1 DEF IInv, ClearInv, ReaderInv, Limiters, Overflowed
  <1>7. Outside(i - 1) \/ ~a.buf.cut
    <2>1. CASE r.tee
      <3>1. \A t \in DOMAIN readers : readers[t].tee => t = i
        BY <1>1, <2>1 DEF IInv, TeeInv
      <3>2. \A t \in 1..(i - 1) : t \in DOMAIN readers /\ t # i
        BY <1>1
      <3> QED
        BY <3>1, <3>2 DEF Outside
    <2>2. CASE ~r.tee
      <3>1. b.buf = a.buf
        BY <1>1, <1>4, <2>2, MaxReaderFacts
      <3> QED
        BY <1>1, <2>2, <3>1, OutsideFacts
    <2> QED
      BY <2>1, <2>2
  <1>8. /\ a.body = a.n /\ a.n <= c.n
        /\ \A j \in DOMAIN readers : j <= i - 1 =>
              /\ ~readers[j].tee => a.readers[j].left + c.n >= readers[j].left
              /\ a.readers[j].err = "eof" => left = c.n
              /\ a.readers[j].err = "big" => Overrun
        /\ a.err = "eof" => left = c.n
        /\ a.err = "big" => Over(a, i - 1)
        /\ a.n = c.n \/ Over(a, i - 1)
        /\ Over(a, i - 1) /\ ~Overflowed => a.err = "big" /\ c.n > 0
    BY <1>7 DEF Clear
  <1>9. CASE r.tee
    <2>1. b.readers = a.readers /\ b.body = a.body /\ b.n = a.n /\ b.err = a.err
      <3>1. ~b.buf.cut
        BY <1>1, <1>9, OutsideFacts
      <3>2. /\ b.readers = a.readers /\ b.body = a.body
            /\ a.n = 0 => b = a
            /\ (a.n > 0 /\ req.maxBodySize > 0 /\ a.buf.remaining <= 0) => b.n = a.n /\ b.err = a.err
            /\ (a.n > 0 /\ req.maxBodySize > 0 /\ a.buf.remaining > 0 /\ a.buf.remaining < a.n) =>
                  b.buf.cut = TRUE
            /\ (a.n > 0 /\ ~(req.maxBodySize > 0 /\ a.buf.remaining < a.n)) => b.n = a.n /\ b.err = a.err
        BY <1>1, <1>4, <1>9, TeeFacts
      <3>3. a.buf.remaining \in Int
        BY <1>4 DEF Answers, Buffer
      <3> HIDE DEF b
      <3> QED
        BY <1>1, <1>4, <3>1, <3>2, <3>3
    <2> HIDE DEF b
    <2>2. a.readers[i].err = "nil"
      BY <1>3, <1>4, <1>9
    <2>3. \A j \in DOMAIN readers : j <= i => j = i \/ j <= i - 1
      BY <1>1
    <2>4. \A j \in DOMAIN readers : j <= i - 1 => j <= i
      BY <1>1
    <2>5. Over(b, i) <=> Over(a, i - 1)
      BY <2>1, <2>2, <2>3, <2>4 DEF Over
    <2> QED
      BY <1>8, <1>9, <2>1, <2>2, <2>3, <2>5 DEF Clear
  <1>10. CASE ~r.tee
    <2>1. /\ \A j \in DOMAIN readers : j # i => b.readers[j] = a.readers[j]
          /\ r.err # "nil" => b.n = 0 /\ b.body = 0 /\ b.err = r.err /\ b.readers[i] = r
          /\ (r.err = "nil" /\ a.n <= r.left) =>
                /\ b.n = a.n /\ b.body = a.body /\ b.err = a.err
                /\ b.readers[i].left = r.left - a.n /\ b.readers[i].err = a.err
          /\ (r.err = "nil" /\ a.n > r.left) =>
                /\ b.n = r.left /\ (a.body = a.n => b.body = r.left) /\ b.err = "big"
                /\ b.readers[i].left = 0 /\ b.readers[i].err = "big"
      BY <1>1, <1>4, <1>10, MaxReaderFacts
    <2> HIDE DEF b, r
    <2>2. \A j \in DOMAIN readers : (j <= i /\ j # i) <=> j <= i - 1
      BY <1>1
    <2>3. Over(b, i) <=> Over(a, i - 1) \/ b.readers[i].err = "big"
      <3>1. \A j \in DOMAIN readers : j <= i - 1 => j <= i /\ b.readers[j] = a.readers[j]
        BY <2>1, <2>2
      <3>2. \A j \in DOMAIN readers : j <= i => j = i \/ (j <= i - 1 /\ b.readers[j] = a.readers[j])
        BY <2>1, <2>2
      <3>3. i <= i
        BY <1>1
      <3> QED
        BY <1>1, <3>1, <3>2, <3>3, Zenon DEF Over
    <2>4. ASSUME NEW j \in DOMAIN readers, j <= i - 1
          PROVE  /\ ~readers[j].tee => b.readers[j].left + c.n >= readers[j].left
                 /\ b.readers[j].err = "eof" => left = c.n
                 /\ b.readers[j].err = "big" => Overrun
      BY <1>8, <2>1, <2>2, <2>4
    <2>5. SUFFICES /\ b.body = b.n /\ b.n <= c.n
                   /\ b.readers[i].left + c.n >= r.left
                   /\ b.readers[i].err = "eof" => left = c.n
                   /\ b.readers[i].err = "big" => Overrun
                   /\ b.err = "eof" => left = c.n
                   /\ b.err = "big" => Over(b, i)
                   /\ b.n = c.n \/ Over(b, i)
                   /\ Over(b, i) /\ ~Overflowed => b.err = "big" /\ c.n > 0
      <3>1. \A j \in DOMAIN readers : j <= i => j = i \/ j <= i - 1
        BY <2>2
      <3> QED
        BY <2>4, <3>1 DEF Clear, r
    <2>6. CASE r.err # "nil"
      <3>1. c.n = 0 /\ a.n = 0
        BY <1>4, <1>5, <1>8, <2>6
      <3>2. b.n = 0 /\ b.body = 0 /\ b.err = r.err /\ b.readers[i] = r
        BY <2>1, <2>6
      <3>3. Over(b, i) => Overflowed
        BY <1>5, <1>6, <1>8, <2>3, <3>1, <3>2
      <3> QED
        BY <1>3, <1>5, <1>6, <2>3, <3>1, <3>2, <3>3
    <2>7. CASE r.err = "nil" /\ a.n <= r.left
      <3>1. /\ b.n = a.n /\ b.body = a.body /\ b.err = a.err
            /\ b.readers[i].left = r.left - a.n /\ b.readers[i].err = a.err
        BY <2>1, <2>7
      <3>2. Over(b, i) <=> Over(a, i - 1)
        BY <1>8, <2>3, <3>1
      <3>3. b.readers[i].left + c.n >= r.left
        BY <1>3, <1>4, <1>5, <1>8, <3>1
      <3>4. Over(a, i - 1) => Overrun
        BY <1>8 DEF Over
      <3> QED
        BY <1>8, <3>1, <3>2, <3>3, <3>4
    <2>8. CASE r.err = "nil" /\ a.n > r.left
      <3>1. /\ b.n = r.left /\ b.body = r.left /\ b.err = "big"
            /\ b.readers[i].left = 0 /\ b.readers[i].err = "big"
        BY <1>8, <2>1, <2>8
      <3>2. r.limit \in Installed /\ r.limit > 0 /\ req.size > r.limit
        <4>1. r.limit \in Installed /\ r.limit # 0 /\ Got + r.left >= r.limit
          BY <1>3, <1>6, <1>10 DEF r
        <4>2. /\ Got = req.size - left /\ left \in Nat /\ req.size \in Nat /\ r.left \in Nat
              /\ r.limit \in Nat /\ a.n \in Nat /\ c.n \in Nat
              /\ a.n <= c.n /\ c.n <= left /\ a.n > r.left
          BY <1>1, <1>3, <1>4, <1>5, <1>8, <2>8
        <4>3. req.size > r.limit
          <5>1. left > r.left /\ left \in Nat /\ r.left \in Nat
            BY <4>2
          <5>2. Got + left = req.size /\ Got \in Int
            BY <4>2
          <5> QED
            BY <4>1, <4>2, <5>1, <5>2
        <4>4. r.limit > 0
          BY <4>1, <4>2
        <4> QED
          BY <4>1, <4>3, <4>4
      <3>3. Overrun
        BY <3>2 DEF Overrun
      <3>4. b.n <= c.n /\ b.readers[i].left + c.n >= r.left
        BY <1>3, <1>4, <1>5, <1>8, <2>8, <3>1
      <3>5. c.n > 0
        BY <1>3, <1>4, <1>5, <1>8, <2>8
      <3> QED
        BY <2>3, <3>1, <3>3, <3>4, <3>5
    <2> QED
      BY <1>3, <1>4, <2>6, <2>7, <2>8
  <1> QED
    BY <1>3, <1>9, <1>10

LEMMA RecordedStep ==
    ASSUME IInv, NEW k \in 0..Len(readers), NEW i \in 1..k, NEW c, Conn(c, k),
           NEW a, Chained(a, c, i - 1), Exact(a, c, i - 1), Recorded(a, c, i - 1)
    PROVE  Recorded(Through(a, i), c, i)
  <1> DEFINE b == Through(a, i)
             max == req.maxBodySize
  <1> SUFFICES ASSUME entered PROVE Recorded(b, c, i)
    BY DEF Recorded
  <1>1. /\ readers \in Seq(Reader) /\ i \in DOMAIN readers /\ i \in Nat /\ i > 0 /\ Got \in Nat
        /\ \A j \in DOMAIN readers : readers[j] \in Reader /\ j \in Nat
        /\ max \in Int /\ reqBody \in Buffer /\ DOMAIN readers = 1..Len(readers)
    BY Types DEF IInv
  <1>2. \A j \in Limiters : j \in DOMAIN readers /\ readers[j].limit \in Nat
    BY <1>1, ReaderFacts DEF Limiters
  <1>3. a \in Answers /\ Len(a.readers) = Len(readers) /\ a.readers[i] = readers[i] /\ a.n \in Nat
    BY <1>1 DEF Chained, Answers
  <1>4. (reqBody.cut => a.buf.cut) /\ (~Outside(i - 1) => Logs(a.buf, Got + c.n))
    BY DEF Recorded
  <1>5. CASE ~readers[i].tee
    <2>1. b.buf = a.buf /\ (Outside(i) <=> Outside(i - 1))
      BY <1>1, <1>3, <1>5, MaxReaderFacts, OutsideFacts
    <2> QED
      BY <1>4, <2>1 DEF Recorded
  <1>6. CASE readers[i].tee
    <2>1. ~Outside(i) /\ Outside(i - 1)
      <3>1. \A t \in DOMAIN readers : readers[t].tee => t = i
        BY <1>1, <1>6 DEF IInv, TeeInv
      <3>2. \A t \in 1..(i - 1) : t \in DOMAIN readers /\ t # i
        BY <1>1
      <3> QED
        BY <1>1, <1>6, <3>1, <3>2, OutsideFacts DEF Outside
    <2>2. \A j \in Limiters : Outside(j) <=> j <= i - 1
      <3> SUFFICES ASSUME NEW j \in Limiters PROVE Outside(j) <=> j <= i - 1
        OBVIOUS
      <3>1. j \in DOMAIN readers /\ j \in Nat /\ j # i /\ i \in Nat
        BY <1>1, <1>6 DEF Limiters
      <3>2. CASE j <= i - 1
        <4>1. \A t \in 1..j : t \in 1..(i - 1)
          BY <3>1, <3>2
        <4> QED
          BY <2>1, <3>2, <4>1 DEF Outside
      <3>3. CASE i \in 1..j
        BY <1>6, <3>1, <3>3 DEF Outside
      <3> QED
        BY <1>1, <3>1, <3>2, <3>3
    <2>3. /\ a.buf = reqBody /\ a.n <= c.n
          /\ \A j \in Limiters : Outside(j) /\ c.n > 0 => Got + a.n <= readers[j].limit
          /\ a.n = c.n \/ \E j \in Limiters : Outside(j) /\ Got + a.n = readers[j].limit
      BY <2>1, <2>2 DEF Exact, Before
    <2>4. c.n \in Nat
      BY DEF Conn
    <2>5. Logs(reqBody, Got)
      BY DEF IInv, BufferInv
    <2>6. /\ a.n = 0 => b = a
          /\ (a.n > 0 /\ max > 0 /\ a.buf.remaining <= 0) => b.buf = a.buf
          /\ (a.n > 0 /\ max > 0 /\ a.buf.remaining > 0 /\ a.buf.remaining < a.n) =>
                /\ b.buf.cut = TRUE /\ b.buf.remaining = 0
                /\ b.buf.kept < a.buf.kept + a.buf.remaining
          /\ (a.n > 0 /\ ~(max > 0 /\ a.buf.remaining < a.n)) =>
                /\ b.buf.cut = a.buf.cut /\ b.buf.kept = a.buf.kept + a.n
                /\ b.buf.remaining = a.buf.remaining - a.n
      BY <1>1, <1>3, <1>6, TeeFacts
    <2>7. reqBody.kept \in Nat /\ reqBody.remaining \in Int
      BY <1>1 DEF Buffer
    <2>8. \A j \in Limiters : Outside(j) => j \in Limiters /\ readers[j].limit \in Nat
      BY <1>2
    <2> HIDE DEF b, max
    <2>a. Logs(b.buf, Got + c.n) /\ (reqBody.cut => b.buf.cut)
      <3>1. CASE b.buf = reqBody /\ reqBody.cut
        <4>1. /\ max > 0 /\ reqBody.remaining = 0 /\ reqBody.kept < max /\ max < Got
              /\ \A j \in Limiters : Outside(j) => max < readers[j].limit
          BY <2>5, <3>1, Zenon DEF Logs, max
        <4>2. max < Got + c.n
          BY <1>1, <2>4, <4>1 DEF max
        <4> QED
          BY <3>1, <4>1, <4>2, Zenon DEF Logs, max
      <3>2. CASE ~reqBody.cut
        <4>1. reqBody.remaining = max - reqBody.kept /\ Holds(reqBody.kept, Got)
          BY <2>5, <3>2 DEF Logs, max
        <4>0. /\ reqBody.kept <= Got /\ (max > 0 => reqBody.kept <= max)
              /\ \A j \in Limiters : Outside(j) => reqBody.kept <= readers[j].limit
              /\ \/ reqBody.kept = Got
                 \/ \E j \in Limiters : Outside(j) /\ reqBody.kept = readers[j].limit
                 \/ max > 0 /\ reqBody.kept = max
          BY <4>1, Zenon DEF Holds, max
        <4>2. CASE a.n = 0
          <5>1. b.buf = reqBody
            BY <2>3, <2>6, <4>2
          <5>2. CASE c.n = 0
            <6>1. Got + c.n = Got
              BY <1>1, <5>2
            <6> QED
              BY <2>5, <3>2, <5>1, <6>1
          <5>3. CASE c.n > 0
            <6>1. PICK j \in Limiters : Outside(j) /\ Got = readers[j].limit
              BY <1>1, <1>2, <2>3, <2>4, <4>2, <5>3
            <6>2. reqBody.kept <= Got + c.n /\ reqBody.kept <= readers[j].limit
              BY <1>1, <2>4, <2>7, <4>0, <6>1
            <6>3. \/ \E l \in Limiters : Outside(l) /\ reqBody.kept = readers[l].limit
                  \/ max > 0 /\ reqBody.kept = max
              BY <4>0, <6>1
            <6>4. Holds(reqBody.kept, Got + c.n)
              BY <4>0, <6>2, <6>3, Zenon DEF Holds, max
            <6> QED
              BY <3>2, <4>1, <5>1, <6>4 DEF Logs, max
          <5> QED
            BY <2>4, <5>2, <5>3
        <4>3. CASE a.n > 0 /\ max > 0 /\ reqBody.remaining <= 0
          <5>1. b.buf = reqBody
            BY <2>3, <2>6, <4>3
          <5>2. reqBody.kept = max
            BY <1>1, <2>7, <4>0, <4>1, <4>3 DEF max
          <5>3. reqBody.kept <= Got + c.n
            BY <1>1, <2>4, <2>7, <4>0
          <5>4. Holds(reqBody.kept, Got + c.n)
            BY <4>0, <4>3, <5>2, <5>3, Zenon DEF Holds, max
          <5> QED
            BY <3>2, <4>1, <5>1, <5>4 DEF Logs, max
        <4>4. ASSUME a.n > 0, ~(max > 0 /\ reqBody.remaining <= 0) PROVE reqBody.kept = Got
          <5>1. c.n > 0
            BY <1>3, <2>3, <2>4, <4>4
          <5>2. ~(max > 0 /\ reqBody.kept = max)
            BY <1>1, <2>7, <4>1, <4>4 DEF max
          <5>3. ASSUME NEW j \in Limiters, Outside(j), reqBody.kept = readers[j].limit PROVE FALSE
            <6>1. Got + a.n <= readers[j].limit /\ reqBody.kept <= Got
              BY <2>3, <4>0, <5>1, <5>3
            <6> QED
              BY <1>1, <1>3, <2>7, <4>4, <5>3, <6>1
          <5> QED
            BY <4>0, <5>2, <5>3
        <4>5. CASE a.n > 0 /\ max > 0 /\ reqBody.remaining > 0 /\ reqBody.remaining < a.n
          <5>1. ~(max > 0 /\ reqBody.remaining <= 0) /\ c.n > 0
            BY <1>3, <2>3, <2>4, <2>7, <4>5
          <5>2. reqBody.kept = Got
            BY <4>4, <4>5, <5>1
          <5>3. /\ b.buf.cut = TRUE /\ b.buf.remaining = 0
                /\ b.buf.kept < reqBody.kept + reqBody.remaining
            BY <2>3, <2>6, <4>5
          <5>4. /\ reqBody.kept + reqBody.remaining = max /\ max < Got + a.n
            <6>1. a.n \in Nat /\ Got \in Nat /\ reqBody.remaining \in Int /\ max \in Int
              BY <1>1, <1>3, <2>7 DEF max
            <6>2. reqBody.remaining = max - Got /\ reqBody.remaining < a.n
              BY <4>1, <4>5, <5>2 DEF max
            <6> QED
              BY <5>2, <6>1, <6>2
          <5>5. max < Got + c.n
            BY <1>1, <1>3, <2>3, <2>4, <5>4 DEF max
          <5>6. \A j \in Limiters : Outside(j) => max < readers[j].limit
            <6> SUFFICES ASSUME NEW j \in Limiters, Outside(j) PROVE max < readers[j].limit
              OBVIOUS
            <6>1. Got + a.n <= readers[j].limit /\ readers[j].limit \in Nat
              BY <1>2, <2>3, <5>1
            <6> QED
              BY <1>1, <1>3, <5>4, <6>1 DEF max
          <5> QED
            BY <4>5, <5>3, <5>4, <5>5, <5>6 DEF Logs, max
        <4>6. CASE a.n > 0 /\ ~(max > 0 /\ reqBody.remaining < a.n)
          <5>1. ~(max > 0 /\ reqBody.remaining <= 0) /\ c.n > 0
            BY <1>3, <2>3, <2>4, <2>7, <4>6
          <5>2. reqBody.kept = Got
            BY <4>4, <4>6, <5>1
          <5>3. /\ b.buf.cut = reqBody.cut /\ b.buf.kept = Got + a.n
                /\ b.buf.remaining = reqBody.remaining - a.n
            BY <2>3, <2>6, <4>6, <5>2
          <5>4. b.buf.remaining = max - b.buf.kept
            BY <1>1, <1>3, <2>7, <4>1, <5>2, <5>3 DEF max
          <5>5. b.buf.kept <= Got + c.n /\ (max > 0 => b.buf.kept <= max)
            <6>1. a.n \in Nat /\ c.n \in Nat /\ a.n <= c.n /\ Got \in Nat /\ max \in Int
              BY <1>1, <1>3, <2>3, <2>4 DEF max
            <6>2. reqBody.remaining = max - Got /\ b.buf.kept = Got + a.n /\ reqBody.remaining \in Int
              BY <2>7, <4>1, <5>2, <5>3 DEF max
            <6>3. max > 0 => ~(reqBody.remaining < a.n)
              BY <4>6
            <6>4. max > 0 => Got + a.n <= max
              BY <6>1, <6>2, <6>3
            <6> QED
              BY <6>1, <6>2, <6>4
          <5>6. \A j \in Limiters : Outside(j) => b.buf.kept <= readers[j].limit
            BY <2>3, <5>1, <5>3
          <5>7. \/ b.buf.kept = Got + c.n
                \/ \E j \in Limiters : Outside(j) /\ b.buf.kept = readers[j].limit
            BY <2>3, <5>3
          <5>8. Holds(b.buf.kept, Got + c.n)
            BY <5>5, <5>6, <5>7 DEF Holds, max
          <5> QED
            BY <3>2, <5>3, <5>4, <5>8 DEF Logs, max
        <4> QED
          BY <1>1, <1>3, <2>7, <3>2, <4>2, <4>3, <4>5, <4>6 DEF max
      <3>3. reqBody.cut => b.buf = reqBody
        <4> SUFFICES ASSUME reqBody.cut PROVE b.buf = reqBody
          OBVIOUS
        <4>1. max > 0 /\ reqBody.remaining = 0
          BY <2>5 DEF Logs, max
        <4> QED
          BY <1>3, <2>3, <2>6, <4>1
      <3> QED
        BY <3>1, <3>2, <3>3
    <2> QED
      BY <2>1, <2>a DEF Recorded, b
  <1> QED
    BY <1>5, <1>6

LEMMA ReportedStep ==
    ASSUME IInv, NEW i \in DOMAIN readers, NEW c, NEW a, Chained(a, c, i - 1), Exact(a, c, i - 1),
           Recorded(a, c, i - 1), Reported(a, i - 1)
    PROVE  Reported(Through(a, i), i)
  <1> DEFINE b == Through(a, i)
             r == readers[i]
  <1> SUFFICES ASSUME Silent, NEW j \in Limiters, j <= i
               PROVE  /\ b.readers[j].err # "nil" => b.err # "nil" \/ Hidden(j, b.buf)
                      /\ b.readers[j].err = "big" => b.err = "big" \/ Hidden(j, b.buf)
    BY DEF Reported
  <1>1. /\ readers \in Seq(Reader) /\ i \in Nat /\ i > 0 /\ req.maxBodySize \in Int
        /\ DOMAIN readers = 1..Len(readers) /\ j \in DOMAIN readers /\ j \in Nat /\ ~readers[j].tee
    BY Types DEF IInv, Limiters
  <1>2. /\ a \in Answers /\ Len(a.readers) = Len(readers) /\ a.readers[i] = r
        /\ a.n \in Nat /\ a.buf \in Buffer
    BY <1>1 DEF Chained, Answers
  <1>3. j # i => j <= i - 1
    BY <1>1
  <1>4. ASSUME j # i
        PROVE  /\ a.readers[j].err # "nil" => a.err # "nil" \/ Hidden(j, a.buf)
               /\ a.readers[j].err = "big" => a.err = "big" \/ Hidden(j, a.buf)
    BY <1>3, <1>4 DEF Reported
  <1>5. CASE r.tee
    <2>1. b.readers[j] = a.readers[j] /\ j # i /\ entered
      BY <1>1, <1>2, <1>5, TeeFacts DEF IInv, TeeInv
    <2>2. Outside(j)
      <3>1. \A t \in DOMAIN readers : readers[t].tee => t = i
        BY <1>1, <1>5 DEF IInv, TeeInv
      <3>2. \A t \in 1..j : t \in DOMAIN readers /\ t # i
        BY <1>1, <1>3, <2>1
      <3> QED
        BY <3>1, <3>2 DEF Outside
    <2>3. b.buf.cut \/ (b.err = a.err /\ b.buf.cut = a.buf.cut)
      <3>1. /\ a.n = 0 => b = a
            /\ (a.n > 0 /\ req.maxBodySize > 0 /\ a.buf.remaining <= 0) =>
                  b.buf = a.buf /\ b.err = a.err
            /\ (a.n > 0 /\ req.maxBodySize > 0 /\ a.buf.remaining > 0 /\ a.buf.remaining < a.n) =>
                  b.buf.cut = TRUE
            /\ (a.n > 0 /\ ~(req.maxBodySize > 0 /\ a.buf.remaining < a.n)) =>
                  b.buf.cut = a.buf.cut /\ b.err = a.err
        BY <1>1, <1>2, <1>5, TeeFacts
      <3>2. a.buf.remaining \in Int
        BY <1>2 DEF Buffer
      <3> HIDE DEF b
      <3> QED
        BY <1>1, <1>2, <3>1, <3>2
    <2> HIDE DEF b
    <2> QED
      BY <1>4, <2>1, <2>2, <2>3 DEF Hidden
  <1>6. CASE ~r.tee
    <2>1. /\ b.buf = a.buf
          /\ j # i => b.readers[j] = a.readers[j]
          /\ r.err # "nil" => b.err = r.err /\ b.readers[i] = r
          /\ (r.err = "nil" /\ a.n <= r.left) => b.err = a.err /\ b.readers[i].err = a.err
          /\ (r.err = "nil" /\ a.n > r.left) => b.err = "big" /\ b.readers[i].err = "big"
      BY <1>1, <1>2, <1>6, MaxReaderFacts
    <2> HIDE DEF b
    <2>2. CASE j = i
      <3>1. r.left \in Nat
        BY <1>1, <1>2, ReaderFacts
      <3> QED
        BY <1>2, <2>1, <2>2, <3>1
    <2>3. CASE j # i /\ r.err # "nil"
      <3>1. i \in Limiters
        BY <1>6 DEF Limiters
      <3>2. Outside(i) /\ entered /\ reqBody.cut
        BY <2>3, <3>1 DEF Silent, Hidden
      <3>3. Outside(j)
        <4>1. \A t \in 1..j : t \in 1..i
          BY <1>1
        <4> QED
          BY <3>2, <4>1 DEF Outside
      <3>4. a.buf.cut
        BY <3>2 DEF Recorded
      <3> QED
        BY <2>1, <3>2, <3>3, <3>4 DEF Hidden
    <2>4. CASE j # i /\ r.err = "nil"
      <3>1. r.left \in Nat
        BY <1>1, <1>2, ReaderFacts
      <3> QED
        BY <1>2, <1>4, <2>1, <2>4, <3>1
    <2> QED
      BY <2>2, <2>3, <2>4
  <1> QED
    BY <1>5, <1>6

LEMMA PassesStep ==
    ASSUME IInv, NEW k \in 0..Len(readers), NEW i \in 1..k, NEW c, Conn(c, k),
           NEW a, Passes(a, c, i - 1)
    PROVE  Passes(Through(a, i), c, i)
  <1>1. i \in DOMAIN readers /\ c.n \in Nat
    BY Types DEF IInv, Conn
  <1> QED
    BY <1>1, ChainedStep, ExactStep, ClearStep, RecordedStep, ReportedStep DEF Passes

\* Before the first reader.
LEMMA PassesBelow ==
    ASSUME IInv, NEW k \in 0..Len(readers), NEW c, Conn(c, k)
    PROVE  Passes(Below(c), c, 0)
  <1> DEFINE a == Below(c)
  <1>1. /\ a.n = c.n /\ a.body = c.body /\ a.err = c.err /\ a.readers = readers /\ a.buf = reqBody
        /\ a = [n |-> c.n, body |-> c.body, err |-> c.err, readers |-> readers, buf |-> reqBody]
    BY DEF Below
  <1>2. /\ c.n \in Nat /\ c.body = c.n /\ c.n <= left /\ c.err \in {"nil", "eof"}
        /\ c.err = "eof" => left = 0
    BY DEF Conn
  <1>3. /\ readers \in Seq(Reader) /\ reqBody \in Buffer /\ left \in Nat
        /\ \A j \in DOMAIN readers : j \in Nat /\ j > 0 /\ readers[j].left \in Nat
    <2>1. /\ readers \in Seq(Reader) /\ reqBody \in Buffer /\ left \in Nat
          /\ \A j \in DOMAIN readers : readers[j] \in Reader
      BY Types DEF IInv
    <2> QED
      BY <2>1, ReaderFacts
  <1>4. a \in Answers
    BY <1>1, <1>2, <1>3 DEF Answers
  <1> HIDE DEF a
  <1>5. Chained(a, c, 0)
    BY <1>1, <1>2, <1>3, <1>4 DEF Chained
  <1>6. Outside(0)
    BY DEF Outside
  <1>7. \A j \in Limiters : j \in DOMAIN readers
    BY DEF Limiters
  <1>8. \A j \in DOMAIN readers : ~(j <= 0)
    BY <1>3
  <1>9. Exact(a, c, 0)
    BY <1>1, <1>2, <1>7, <1>8 DEF Exact, Before
  <1>10. ~Over(a, 0)
    BY <1>8 DEF Over
  <1>11. c.n <= c.n /\ (c.err = "eof" => left = c.n) /\ c.err # "big"
    BY <1>2, <1>3
  <1>12. Clear(a, c, 0)
    BY <1>1, <1>2, <1>8, <1>10, <1>11 DEF Clear
  <1>13. Recorded(a, c, 0)
    BY <1>1, <1>6 DEF Recorded
  <1>14. Reported(a, 0)
    BY <1>7, <1>8 DEF Reported
  <1> QED
    BY <1>5, <1>9, <1>12, <1>13, <1>14 DEF Passes, a

\* An answer passes the readers one by one.
LEMMA AnswerPasses ==
    ASSUME IInv, NEW k \in 0..Len(readers), NEW c, Conn(c, k)
    PROVE  Passes(Answer(c, k), c, k)
  <1> DEFINE Goes(f, m) == f = [i \in 0..m |-> IF i = 0 THEN Below(c) ELSE Through(f[i - 1], i)]
             Without == {m \in Nat : ~\E f : Goes(f, m)}
  <1>1. k \in Nat
    BY Types DEF IInv
  <1>2. \E f : Goes(f, 0)
    <2> DEFINE f == [i \in 0..0 |-> Below(c)]
    <2>1. \A i \in 0..0 : i = 0
      OBVIOUS
    <2>2. f = [i \in 0..0 |-> IF i = 0 THEN Below(c) ELSE Through(f[i - 1], i)]
      BY <2>1
    <2> HIDE DEF f
    <2> QED
      BY <2>2
  <1>3. ASSUME NEW m \in Nat, NEW f, Goes(f, m) PROVE \E g : Goes(g, m + 1)
    <2> DEFINE g == [i \in 0..(m + 1) |-> IF i <= m THEN f[i] ELSE Through(f[m], m + 1)]
    <2>1. \A i \in 0..m : f[i] = IF i = 0 THEN Below(c) ELSE Through(f[i - 1], i)
      BY <1>3
    <2>2. ASSUME NEW i \in 0..(m + 1) PROVE g[i] = IF i = 0 THEN Below(c) ELSE Through(g[i - 1], i)
      <3>1. CASE i \in 0..m
        <4>1. g[i] = f[i] /\ (i # 0 => g[i - 1] = f[i - 1])
          BY <3>1
        <4> HIDE DEF g
        <4> QED
          BY <2>1, <3>1, <4>1
      <3>2. CASE i = m + 1
        <4>1. g[i] = Through(f[m], m + 1) /\ g[i - 1] = f[m] /\ i # 0
          BY <3>2
        <4> HIDE DEF g
        <4> QED
          BY <3>2, <4>1
      <3> QED
        BY <3>1, <3>2
    <2>3. g = [i \in 0..(m + 1) |-> g[i]]
      OBVIOUS
    <2> HIDE DEF g
    <2>4. g = [i \in 0..(m + 1) |-> IF i = 0 THEN Below(c) ELSE Through(g[i - 1], i)]
      BY <2>2, <2>3
    <2> QED
      BY <2>4
  <1>4. \E f : Goes(f, k)
    <2> SUFFICES ASSUME ~\E f : Goes(f, k) PROVE FALSE
      OBVIOUS
    <2>1. k \in Without /\ Without \in SUBSET Nat
      BY <1>1
    <2>2. PICK m \in Without : \A n \in Without : m <= n
      <3> HIDE DEF Without
      <3> QED
        BY <2>1, LeastNatural
    <2>3. m \in Nat /\ m # 0 /\ ~\E f : Goes(f, m)
      <3>1. m \in Nat /\ ~\E f : Goes(f, m)
        BY <2>2
      <3> HIDE DEF Goes
      <3> QED
        BY <1>2, <3>1
    <2>4. m - 1 \in Nat /\ m - 1 \notin Without
      <3> HIDE DEF Without
      <3> QED
        BY <2>2, <2>3
    <2>5. PICK f : Goes(f, m - 1)
      BY <2>4
    <2> HIDE DEF Goes
    <2>6. \E g : Goes(g, (m - 1) + 1)
      BY <1>3, <2>4, <2>5
    <2>7. (m - 1) + 1 = m
      BY <2>3
    <2> QED
      BY <2>3, <2>6, <2>7
  <1> DEFINE up == CHOOSE f : Goes(f, k)
  <1>5. Goes(up, k) /\ Answer(c, k) = up[k]
    <2>1. Goes(up, k)
      BY <1>4
    <2>2. Answer(c, k) = up[k]
      BY DEF Answer
    <2> QED
      BY <2>1, <2>2
  <1>6. \A i \in 0..k : up[i] = IF i = 0 THEN Below(c) ELSE Through(up[i - 1], i)
    <2> HIDE DEF up
    <2> QED
      BY <1>5
  <1> DEFINE Fails == {i \in 0..k : ~Passes(up[i], c, i)}
  <1> HIDE DEF up
  <1>7. Fails = {}
    <2> SUFFICES ASSUME Fails # {} PROVE FALSE
      OBVIOUS
    <2>1. Fails \in SUBSET Nat
      BY <1>1
    <2>2. PICK i \in Fails : \A j \in Fails : i <= j
      <3> HIDE DEF Fails
      <3> QED
        BY <2>1, LeastNatural
    <2>3. i \in 0..k /\ ~Passes(up[i], c, i)
      BY <2>2
    <2>4. 0 \in 0..k /\ up[0] = Below(c)
      BY <1>1, <1>6
    <2>5. i # 0
      BY <2>3, <2>4, PassesBelow
    <2>6. i \in 1..k /\ i - 1 \in 0..k /\ i - 1 \notin Fails
      BY <1>1, <2>2, <2>3, <2>5
    <2>7. Passes(up[i - 1], c, i - 1)
      BY <2>6
    <2>8. up[i] = Through(up[i - 1], i)
      BY <1>6, <2>3, <2>5
    <2> QED
      BY <2>3, <2>6, <2>7, <2>8, PassesStep
  <1>8. k \in 0..k
    BY <1>1
  <1> QED
    BY <1>5, <1>7, <1>8

\* What the connection answers.
LEMMA ConnFacts ==
    ASSUME IInv, NEW k \in 0..Len(readers), NEW room \in Nat \ {0}, NEW c \in FromConn(k, room)
    PROVE  Conn(c, k) /\ c.n <= room
  <1>1. /\ left \in Nat /\ \A j \in DOMAIN readers : readers[j].left \in Nat
        /\ \A j \in 1..k : j \in DOMAIN readers
    <2>1. /\ left \in Nat /\ Len(readers) \in Nat /\ DOMAIN readers = 1..Len(readers)
          /\ \A j \in DOMAIN readers : readers[j] \in Reader
      BY Types DEF IInv
    <2> QED
      BY <2>1, ReaderFacts
  <1>2. CASE Refused(k) \/ left = 0
    <2>1. c.n = 0 /\ c.body = 0 /\ c.err \in {"nil", "eof"} /\ (c.err = "eof" => left = 0)
      BY <1>2 DEF FromConn
    <2> QED
      BY <1>1, <2>1 DEF Conn
  <1>3. CASE ~Refused(k) /\ left # 0
    <2> DEFINE T == {room} \cup {readers[j].left + 1 : j \in Limiters \cap 1..k}
    <2>1. T \in SUBSET Nat /\ T # {} /\ room \in T /\ \A x \in T : x >= 1
      BY <1>1 DEF Limiters
    <2>2. Asked(k, room) = Min(T)
      BY DEF Asked
    <2> HIDE DEF T
    <2>3. Asked(k, room) \in Nat /\ Asked(k, room) >= 1 /\ Asked(k, room) <= room
      <3>1. Min(T) \in T /\ \A x \in T : Min(T) <= x
        BY <2>1, MinFacts
      <3>2. Min(T) \in Nat /\ Min(T) >= 1 /\ Min(T) <= room
        BY <2>1, <3>1
      <3> QED
        BY <2>2, <3>2
    <2> DEFINE m == Min({Asked(k, room), left})
    <2>4. m = IF Asked(k, room) <= left THEN Asked(k, room) ELSE left
      BY <1>1, <2>3, TwoNumbers
    <2>5. m \in Nat /\ m <= left /\ m <= room
      BY <1>1, <2>3, <2>4
    <2>6. \E n \in {1, m} : c = [n |-> n, body |-> n, err |-> "nil"]
      BY <1>3 DEF FromConn
    <2> HIDE DEF m
    <2>7. c.n \in {1, m} /\ c.body = c.n /\ c.err = "nil"
      BY <2>6
    <2>8. \A j \in 1..k : readers[j].err = "nil"
      BY <1>3 DEF Refused
    <2>9. c.n \in Nat /\ c.n <= left /\ c.n <= room
      BY <1>1, <1>3, <2>5, <2>7
    <2> QED
      BY <2>7, <2>8, <2>9 DEF Conn
  <1> QED
    BY <1>2, <1>3

\* What a read leaves behind, of the readers and of the buffer.
Reads(a, c, k) ==
    /\ IF entered THEN ~Outside(k) ELSE k = Len(readers)
    /\ readers' = a.readers /\ left' = left - c.n /\ reqBody' = a.buf
    /\ UNCHANGED <<req, entered, marker>>

LEMMA SameReaders ==
    ASSUME Typed, NEW k \in 0..Len(readers), NEW c, Conn(c, k), NEW a, Chained(a, c, k), Reads(a, c, k)
    PROVE  /\ readers' \in Seq(Reader) /\ Len(readers') = Len(readers)
           /\ DOMAIN readers' = DOMAIN readers /\ Limiters' = Limiters
           /\ \A j \in DOMAIN readers : /\ readers'[j].tee = readers[j].tee
                                        /\ readers'[j].limit = readers[j].limit
                                        /\ readers'[j].left <= readers[j].left
           /\ \A j \in DOMAIN readers : Outside(j)' <=> Outside(j)
           /\ left' \in 0..req.size /\ reqBody' \in Buffer /\ Got' = Got + c.n
           /\ Installed' = Installed /\ (Overrun' <=> Overrun) /\ c.n \in Nat
  <1>1. readers \in Seq(Reader) /\ DOMAIN readers = 1..Len(readers) /\ Len(readers) \in Nat
        /\ left \in Nat /\ req.size \in Nat /\ left <= req.size
    BY Types
  <1>2. readers' = a.readers /\ left' = left - c.n /\ reqBody' = a.buf /\ req' = req
    BY DEF Reads
  <1>3. c.n \in Nat /\ c.n <= left
    BY DEF Conn
  <1>4. /\ a.readers \in Seq(Reader) /\ Len(a.readers) = Len(readers) /\ a.buf \in Buffer
        /\ \A j \in DOMAIN readers : /\ a.readers[j].tee = readers[j].tee
                                     /\ a.readers[j].limit = readers[j].limit
                                     /\ a.readers[j].left <= readers[j].left
    BY DEF Chained, Answers
  <1>5. DOMAIN readers' = DOMAIN readers
    BY <1>1, <1>2, <1>4
  <1>6. Limiters' = Limiters
    BY <1>2, <1>4, <1>5 DEF Limiters
  <1>7. ASSUME NEW j \in DOMAIN readers PROVE Outside(j)' <=> Outside(j)
    <2>1. \A t \in 1..j : t \in DOMAIN readers
      BY <1>1
    <2>2. \A t \in 1..j : readers'[t].tee = readers[t].tee
      BY <1>2, <1>4, <2>1
    <2> QED
      BY <2>2 DEF Outside
  <1>8. left' \in 0..req.size /\ Got' = Got + c.n
    BY <1>1, <1>2, <1>3 DEF Got
  <1>9. Installed' = Installed /\ (Overrun' <=> Overrun)
    BY <1>2 DEF Installed, Overrun
  <1> QED
    BY <1>2, <1>3, <1>4, <1>5, <1>6, <1>7, <1>8, <1>9

LEMMA ReadKeeps ==
    ASSUME IInv, NEW k \in 0..Len(readers), NEW c, Conn(c, k), NEW a, Passes(a, c, k), Reads(a, c, k)
    PROVE  TeeInv' /\ ReaderInv' /\ StricterWins' /\ BufferInv'
  <1>1. /\ DOMAIN readers' = DOMAIN readers /\ Limiters' = Limiters
        /\ \A j \in DOMAIN readers : /\ readers'[j].tee = readers[j].tee
                                     /\ readers'[j].limit = readers[j].limit
        /\ \A j \in DOMAIN readers : Outside(j)' <=> Outside(j)
        /\ Got' = Got + c.n /\ Installed' = Installed
    BY SameReaders DEF IInv, Passes
  <1>2. /\ readers' = a.readers /\ reqBody' = a.buf /\ req' = req /\ entered' = entered
        /\ marker' = marker
        /\ entered => ~Outside(k)
        /\ ~entered => k = Len(readers)
    BY DEF Reads
  <1>3. \A j \in Limiters : j \in DOMAIN readers
    BY DEF Limiters
  <1>4. DOMAIN readers = 1..Len(readers) /\ Len(readers) \in Nat
    BY Types DEF IInv
  <1>5. TeeInv'
    BY <1>1, <1>2 DEF TeeInv, IInv
  <1>6. ReaderInv'
    <2> SUFFICES ASSUME NEW j \in Limiters
                 PROVE  /\ readers'[j].limit \in Installed'
                        /\ Outside(j)' /\ readers'[j].err = "nil" => Got' + readers'[j].left = readers'[j].limit
                        /\ Outside(j)' => Got' + readers'[j].left >= readers'[j].limit
      BY <1>1 DEF ReaderInv
    <2>1. j \in DOMAIN readers /\ readers[j].limit \in Installed
      BY <1>3 DEF IInv, ReaderInv
    <2>2. ASSUME Outside(j) PROVE j <= k
      <3>1. CASE entered
        <4>1. PICK t \in 1..k : readers[t].tee
          BY <1>2, <3>1 DEF Outside
        <4>2. ~(t \in 1..j)
          BY <2>2, <4>1 DEF Outside
        <4> QED
          BY <1>4, <2>1, <4>1, <4>2
      <3>2. CASE ~entered
        BY <1>2, <1>4, <2>1, <3>2
      <3> QED
        BY <3>1, <3>2
    <2>3. Outside(j) => Counts(a, c, j)
      BY <2>2 DEF Passes, Exact
    <2> QED
      BY <1>1, <1>2, <2>1, <2>3 DEF Counts
  <1>7. StricterWins'
    <2>1. StricterWins
      BY DEF IInv
    <2>2. \A i, j \in Limiters : i < j => readers'[i].limit > readers'[j].limit
      BY <1>1, <1>3, <2>1 DEF StricterWins
    <2>3. Limiters # {} => Max(Limiters) \in DOMAIN readers
      <3>1. Limiters \in SUBSET (1..Len(readers))
        BY <1>3, <1>4
      <3> QED
        BY <1>3, <1>4, <3>1, MaxFacts
    <2>4. marker' = IF Limiters = {} THEN 0 ELSE readers'[Max(Limiters)].limit
      BY <1>1, <1>2, <2>1, <2>3 DEF StricterWins
    <2> QED
      BY <1>1, <2>2, <2>4 DEF StricterWins
  <1>8. BufferInv'
    <2> SUFFICES ASSUME entered PROVE Logs(reqBody, Got)'
      BY <1>2 DEF BufferInv
    <2>1. Logs(a.buf, Got + c.n)
      BY <1>2 DEF Passes, Recorded
    <2>2. \A j \in Limiters : (Outside(j)' <=> Outside(j)) /\ readers'[j].limit = readers[j].limit
      BY <1>1, <1>3
    <2>3. CASE a.buf.cut
      BY <1>1, <1>2, <2>1, <2>2, <2>3 DEF Logs
    <2>4. CASE ~a.buf.cut
      <3>1. Holds(reqBody.kept, Got)' <=> Holds(a.buf.kept, Got + c.n)
        BY <1>1, <1>2, <2>2 DEF Holds
      <3> QED
        BY <1>2, <2>1, <2>4, <3>1 DEF Logs
    <2> QED
      BY <2>3, <2>4
  <1> QED
    BY <1>5, <1>6, <1>7, <1>8

\* A read that the log does not cut off changes nothing either.
LEMMA ReadClear ==
    ASSUME IInv, NEW k \in 0..Len(readers), NEW c, Conn(c, k), NEW a, Passes(a, c, k),
           Reads(a, c, k), Clean'
    PROVE  /\ Clean /\ ClearInv'
           /\ a.n \in Nat /\ a.body = a.n /\ a.n <= c.n
           /\ a.err = "eof" => left' = 0
           /\ a.err = "big" => Overrun /\ Overflowed'
           /\ ~Overflowed' => ~Overflowed /\ a.n = c.n
           /\ (~Overflowed /\ k = Len(readers) /\ a.err # "big") => ~Overflowed'
           /\ left = 0 => left' = 0
  <1>1. /\ readers \in Seq(Reader) /\ DOMAIN readers = 1..Len(readers) /\ Len(readers) \in Nat
        /\ left \in Nat /\ req.size \in Nat /\ Got \in Nat
        /\ \A j \in DOMAIN readers : readers[j] \in Reader
    BY Types DEF IInv
  <1>2. /\ readers' = a.readers /\ left' = left - c.n /\ reqBody' = a.buf /\ req' = req
        /\ (entered' <=> entered) /\ (entered => ~Outside(k)) /\ (~entered => k = Len(readers))
    BY DEF Reads
  <1>3. /\ DOMAIN readers' = DOMAIN readers /\ Limiters' = Limiters
        /\ Got' = Got + c.n /\ (Overrun' <=> Overrun) /\ c.n \in Nat
        /\ \A j \in DOMAIN readers : readers'[j].limit = readers[j].limit
    BY SameReaders DEF IInv, Passes
  <1>4. Clean /\ (Outside(k) \/ ~a.buf.cut)
    <2>1. CASE entered
      <3>1. reqBody.cut => a.buf.cut
        BY <2>1 DEF Passes, Recorded
      <3>2. ~a.buf.cut
        BY <1>2, <2>1 DEF Clean
      <3> QED
        BY <3>1, <3>2, Zenon DEF Clean
    <2>2. CASE ~entered
      <3>1. \A t \in DOMAIN readers : ~readers[t].tee
        BY <2>2 DEF IInv, TeeInv
      <3>2. Outside(k)
        BY <1>1, <1>2, <2>2, <3>1 DEF Outside
      <3> QED
        BY <2>2, <3>2, Zenon DEF Clean
    <2> QED
      BY <2>1, <2>2
  <1>5. /\ a.body = a.n /\ a.n <= c.n
        /\ \A j \in DOMAIN readers : j <= k =>
              /\ ~readers[j].tee => a.readers[j].left + c.n >= readers[j].left
              /\ a.readers[j].err = "eof" => left = c.n
              /\ a.readers[j].err = "big" => Overrun
        /\ a.err = "eof" => left = c.n
        /\ a.err = "big" => Over(a, k)
        /\ a.n = c.n \/ Over(a, k)
        /\ Over(a, k) /\ ~Overflowed => a.err = "big"
    BY <1>4 DEF Passes, Clear
  <1>6. /\ a.n \in Nat /\ a.readers \in Seq(Reader)
        /\ \A j \in DOMAIN readers :
              j > k \/ readers[j].err # "nil" => a.readers[j] = readers[j]
    BY DEF Passes, Chained, Answers
  <1>7. /\ \A j \in Limiters : Got + readers[j].left >= readers[j].limit
        /\ \A j \in DOMAIN readers : /\ readers[j].err = "eof" => left = 0
                                     /\ readers[j].err = "big" => Overrun
    BY <1>4 DEF IInv, ClearInv
  <1>8. c.n <= left
    BY DEF Conn
  <1>9. /\ \A j \in Limiters : j \in DOMAIN readers /\ ~readers[j].tee
        /\ \A j \in DOMAIN readers : /\ readers[j].left \in Nat /\ readers[j].limit \in Nat
                                     /\ readers'[j] \in Reader /\ readers'[j].left \in Nat
                                     /\ j \in Nat /\ (j <= k \/ j > k)
    <2>1. \A j \in DOMAIN readers : readers'[j] \in Reader
      BY <1>2, <1>3, <1>6
    <2>2. \A j \in DOMAIN readers : /\ readers[j].left \in Nat /\ readers[j].limit \in Nat
                                    /\ readers'[j].left \in Nat
      BY <1>1, <2>1, ReaderFacts
    <2> QED
      BY <1>1, <2>1, <2>2 DEF Limiters
  <1>10. ASSUME NEW j \in Limiters PROVE Got' + readers'[j].left >= readers'[j].limit
    <2>1. readers'[j].left + c.n >= readers[j].left
      BY <1>2, <1>3, <1>5, <1>6, <1>9
    <2>2. j \in DOMAIN readers /\ Got + readers[j].left >= readers[j].limit
      BY <1>7, <1>9
    <2>3. Got' = Got + c.n /\ readers'[j].limit = readers[j].limit
      BY <1>3, <2>2
    <2> QED
      BY <1>1, <1>3, <1>9, <2>1, <2>2, <2>3
  <1>11. ASSUME NEW j \in DOMAIN readers
         PROVE  /\ readers'[j].err = "eof" => left' = 0
                /\ readers'[j].err = "big" => Overrun'
    <2>1. CASE j <= k
      BY <1>1, <1>2, <1>3, <1>5, <1>8, <2>1
    <2>2. CASE j > k
      <3>1. readers'[j] = readers[j]
        BY <1>2, <1>6, <2>2
      <3>2. left = 0 => left' = 0
        <4>1. left' = left - c.n
          BY <1>2
        <4> QED
          BY <1>1, <1>3, <1>8, <4>1
      <3> QED
        BY <1>3, <1>7, <3>1, <3>2
    <2> QED
      BY <1>9, <2>1, <2>2
  <1>12. ClearInv'
    BY <1>3, <1>10, <1>11 DEF ClearInv
  <1>13. Overflowed => Overflowed'
    <2> SUFFICES ASSUME NEW j \in DOMAIN readers, readers[j].err = "big" PROVE Overflowed'
      BY DEF Overflowed
    <2>1. readers'[j] = readers[j]
      BY <1>2, <1>6
    <2> QED
      BY <1>3, <2>1 DEF Overflowed
  <1>14. Over(a, k) => Overflowed' /\ Overrun
    BY <1>2, <1>3, <1>5 DEF Over, Overflowed
  <1>15. (Overflowed' /\ k = Len(readers)) => Over(a, k)
    BY <1>1, <1>2, <1>3 DEF Over, Overflowed
  <1>16. (a.err = "eof" => left' = 0) /\ (left = 0 => left' = 0)
    <2>1. left' = left - c.n
      BY <1>2
    <2>2. a.err = "eof" => left = c.n
      BY <1>5
    <2> QED
      BY <1>1, <1>3, <1>8, <2>1, <2>2
  <1>17. /\ a.err = "big" => Overrun /\ Overflowed'
         /\ ~Overflowed' => ~Overflowed /\ a.n = c.n
         /\ (~Overflowed /\ k = Len(readers) /\ a.err # "big") => ~Overflowed'
    BY <1>5, <1>13, <1>14, <1>15
  <1> QED
    BY <1>4, <1>5, <1>6, <1>12, <1>16, <1>17, Zenon

-----------------------------------------------------------------------------
(* The initial states.                                                     *)

LEMMA InitRequest ==
    ASSUME Init
    PROVE  RequestOK
  <1>1. PICK n \in 0..MaxChain : \E c \in [1..n -> Limits], m \in MaxBodySizes, z \in Sizes,
          o \in Ops : \E t \in Sent(o) :
          req \in [chain : {c}, config : ConfigLimits, resolver : BOOLEAN,
                   maxBodySize : {m},
                   loggerAt : IF m = 0 THEN {0} ELSE 0..n,
                   size : {z}, declared : {-1, z},
                   content : {t},
                   needed : IF t = "json" THEN {1, Max({1, z})} ELSE {1},
                   op : {o},
                   json : IF t \in Forms THEN BOOLEAN ELSE {TRUE}]
    BY DEF Init
  <1>2. PICK c \in [1..n -> Limits], m \in MaxBodySizes, z \in Sizes, o \in Ops : \E t \in Sent(o) :
          req \in [chain : {c}, config : ConfigLimits, resolver : BOOLEAN,
                   maxBodySize : {m},
                   loggerAt : IF m = 0 THEN {0} ELSE 0..n,
                   size : {z}, declared : {-1, z},
                   content : {t},
                   needed : IF t = "json" THEN {1, Max({1, z})} ELSE {1},
                   op : {o},
                   json : IF t \in Forms THEN BOOLEAN ELSE {TRUE}]
    BY <1>1
  <1>3. PICK t \in Sent(o) :
          req \in [chain : {c}, config : ConfigLimits, resolver : BOOLEAN,
                   maxBodySize : {m},
                   loggerAt : IF m = 0 THEN {0} ELSE 0..n,
                   size : {z}, declared : {-1, z},
                   content : {t},
                   needed : IF t = "json" THEN {1, Max({1, z})} ELSE {1},
                   op : {o},
                   json : IF t \in Forms THEN BOOLEAN ELSE {TRUE}]
    BY <1>2
  <1> DEFINE L == IF m = 0 THEN {0} ELSE 0..n
             N == IF t = "json" THEN {1, Max({1, z})} ELSE {1}
             J == IF t \in Forms THEN BOOLEAN ELSE {TRUE}
  <1>4. n \in Nat /\ z \in Nat
    BY LimitsAssumption
  <1>5. L \subseteq Nat
    BY <1>4
  <1>6. N \subseteq Nat
    <2>1. Max({1, z}) = IF 1 >= z THEN 1 ELSE z
      <3> DEFINE one == 1
      <3>1. one \in Int /\ z \in Int
        BY <1>4
      <3> HIDE DEF one
      <3>2. Max({one, z}) = IF one >= z THEN one ELSE z
        BY <3>1, TwoNumbers
      <3> QED
        BY <3>2 DEF one
    <2> QED
      BY <1>4, <2>1
  <1>7. J \subseteq BOOLEAN
    OBVIOUS
  <1>8. t \in Contents
    BY DEF Sent, Contents, Forms
  <1> HIDE DEF L, N, J
  <1>9. req \in [chain : {c}, config : ConfigLimits, resolver : BOOLEAN, maxBodySize : {m},
                 loggerAt : L, size : {z}, declared : {-1, z}, content : {t}, needed : N,
                 op : {o}, json : J]
    BY <1>3 DEF L, N, J
  <1>10. /\ req.chain = c /\ req.config \in ConfigLimits /\ req.maxBodySize = m
         /\ req.loggerAt \in L /\ req.size = z /\ req.declared \in {-1, z} /\ req.content = t
         /\ req.needed \in N /\ req.op = o
    BY <1>9
  <1>11. req.resolver \in BOOLEAN /\ req.json \in BOOLEAN
    BY <1>7, <1>9
  <1>12. c \in Seq(Limits)
    BY <1>4
  <1> QED
    BY <1>5, <1>6, <1>8, <1>10, <1>11, <1>12 DEF RequestOK

LEMMA InitInv == Init => IInv
  <1> SUFFICES ASSUME Init PROVE IInv
    OBVIOUS
  <1>1. RequestOK
    BY InitRequest
  <1>2. /\ pc = "chain" /\ at = 0 /\ entered = FALSE /\ marker = 0 /\ readers = <<>>
        /\ left = req.size /\ reqBody = UsedBefore /\ respBody = UsedBefore
        /\ call = 0 /\ taken = 0 /\ stray = 0 /\ ended = "nil" /\ crashed = FALSE /\ parsed = {}
        /\ result = NoError /\ status = 0 /\ unread = 0 /\ offered = -1 /\ appended = FALSE
    BY DEF Init
  <1>3. /\ req.size \in Nat /\ req.chain \in Seq(Limits)
    BY <1>1, LimitsAssumption DEF RequestOK
  <1>4. Limiters = {} /\ DOMAIN readers = {} /\ Len(readers) = 0
    BY <1>2 DEF Limiters
  <1>5. /\ UsedBefore \in Buffer
        /\ NoError \in [code : {0, 400, 413, 500}, big : BOOLEAN]
        /\ NoError.code = 0 /\ NoError.big = FALSE
    BY DEF UsedBefore, Buffer, NoError
  <1>6. Typed
    <2>1. at \in 0..Len(req.chain)
      BY <1>2, <1>3
    <2>2. readers \in Seq(Reader)
      BY <1>2
    <2>3. left \in 0..req.size /\ taken \in 0..req.size /\ taken + left <= req.size
      BY <1>2, <1>3
    <2>4. /\ pc \in {"chain", "handler", "form", "decode", "read", "validate", "respond", "answer", "drain", "done"}
          /\ marker \in Nat /\ stray \in Nat /\ call \in 0..2 /\ ended \in {"nil", "eof", "big"}
          /\ status \in {0, 200, 400, 413, 500} /\ unread \in Nat
      BY <1>2
    <2>a. parsed \subseteq {"form", "multipart"}
      BY <1>2
    <2>b. entered \in BOOLEAN /\ crashed \in BOOLEAN /\ appended \in BOOLEAN
      BY <1>2, Zenon
    <2>5. offered \in Responses \cup {-1} /\ reqBody \in Buffer /\ respBody \in Buffer
      BY <1>2, <1>5
    <2>6. result \in [code : {0, 400, 413, 500}, big : BOOLEAN]
      BY <1>2, <1>5
    <2>7. TypeOK
      BY <2>1, <2>2, <2>3, <2>4, <2>a, <2>b, <2>5, <2>6 DEF TypeOK
    <2> QED
      BY <1>1, <2>3, <2>7 DEF Typed
  <1>7. TeeInv /\ ReaderInv /\ StricterWins /\ ClearInv /\ ~Overflowed
    BY <1>2, <1>4 DEF TeeInv, ReaderInv, StricterWins, ClearInv, Overflowed
  <1>8. BufferInv
    BY <1>2 DEF BufferInv
  <1>9. FreshInv
    BY <1>2, <1>4 DEF FreshInv
  <1>10. LimitInv
    BY <1>2, <1>4 DEF LimitInv
  <1>11. taken + unread = Got
    BY <1>2, <1>3 DEF Got
  <1>12. CleanInv
    BY <1>2, <1>5, <1>7, <1>11 DEF CleanInv
  <1>13. CallInv
    BY <1>2, <1>5 DEF CallInv
  <1>14. FormInv /\ ResponseInv
    BY <1>2 DEF FormInv, ResponseInv, Fits
  <1> QED
    BY <1>6, <1>7, <1>8, <1>9, <1>10, <1>12, <1>13, <1>14 DEF IInv

-----------------------------------------------------------------------------
(* Steps.                                                                  *)

\* Where no reader is touched.
LEMMA Untouched ==
    ASSUME IInv, UNCHANGED <<req, entered, marker, readers, left, reqBody>>
    PROVE  /\ TeeInv' /\ ReaderInv' /\ StricterWins' /\ BufferInv' /\ ClearInv'
           /\ Limiters' = Limiters /\ (Clean' <=> Clean) /\ (Overrun' <=> Overrun)
           /\ (Overflowed' <=> Overflowed) /\ Got' = Got
  <1>1. /\ req' = req /\ entered' = entered /\ marker' = marker /\ readers' = readers
        /\ left' = left /\ reqBody' = reqBody
    OBVIOUS
  <1>2. Limiters' = Limiters /\ Got' = Got /\ Installed' = Installed
    BY <1>1 DEF Limiters, Got, Installed
  <1>3. (Clean' <=> Clean) /\ (Overrun' <=> Overrun) /\ (Overflowed' <=> Overflowed)
    BY <1>1, <1>2 DEF Clean, Overrun, Overflowed
  <1>4. TeeInv'
    BY <1>1 DEF IInv, TeeInv
  <1>5. ReaderInv'
    BY <1>1, <1>2 DEF IInv, ReaderInv, Outside
  <1>6. StricterWins'
    BY <1>1, <1>2 DEF IInv, StricterWins
  <1>7. BufferInv'
    BY <1>1, <1>2 DEF IInv, BufferInv, Logs, Holds, Outside
  <1>8. ClearInv'
    BY <1>1, <1>2, <1>3 DEF IInv, ClearInv
  <1> QED
    BY <1>2, <1>3, <1>4, <1>5, <1>6, <1>7, <1>8

\* Where the record and the answer are as they were before the request.
LEMMA Unanswered ==
    ASSUME IInv, pc \notin {"answer", "drain", "done"}
    PROVE  /\ status = 0 /\ unread = 0 /\ offered = -1 /\ appended = FALSE
           /\ crashed = FALSE /\ (Rejected => pc = "respond")
  <1>1. status = 0 /\ unread = 0 /\ offered = -1 /\ ~appended /\ ~crashed
    BY DEF IInv, ResponseInv, CallInv
  <1>2. Rejected => pc = "respond"
    BY <1>1 DEF Rejected
  <1>3. appended \in BOOLEAN /\ crashed \in BOOLEAN
    BY DEF IInv, Typed, TypeOK
  <1> QED
    BY <1>1, <1>2, <1>3, Zenon

\* The limits stay heeded.
LEMMA HeededStays ==
    ASSUME IInv, UNCHANGED <<req, marker>>, Rejected => Rejected', NEW n, Heeded(n)
    PROVE  Heeded(n)'
  BY DEF Heeded

\* Where the limits passed, the calls and what has been read stay the same.
LEMMA LimitsStay ==
    ASSUME IInv, UNCHANGED <<req, at, marker, readers, call, taken>>, Rejected => Rejected',
           pc \in {"chain", "handler"} =>
              pc' \in {"chain", "handler"} \/ call # 0 \/ ~CallsLimit
    PROVE  LimitInv'
  <1>1. req' = req /\ at' = at /\ readers' = readers /\ call' = call /\ taken' = taken
    OBVIOUS
  <1>2. \A n : Heeded(n) => Heeded(n)'
    BY HeededStays
  <1>3. \A i \in 1..at : Heeded(req.chain[i])
    BY DEF IInv, LimitInv
  <1>4. \A i \in 1..at' : Heeded(req.chain[i])'
    <2> SUFFICES ASSUME NEW i \in 1..at PROVE Heeded(req.chain[i])'
      BY <1>1
    <2> DEFINE n == req.chain[i]
    <2>1. Heeded(n) /\ n' = n
      BY <1>1, <1>3
    <2> HIDE DEF n
    <2>2. n > 0 => (marker # 0 /\ marker <= n) \/ (Rejected' /\ req.declared > n)
      BY <2>1 DEF Heeded
    <2>3. req'.chain[i] = n
      BY <1>1 DEF n
    <2> QED
      BY <1>1, <2>2, <2>3 DEF Heeded
  <1>5. CASE call = 0
    <2>1. CallsLimit => pc \in {"chain", "handler"} \/ Rejected
      BY <1>5 DEF IInv, LimitInv
    <2>2. CallsLimit' <=> CallsLimit
      BY <1>1 DEF CallsLimit
    <2>3. CallsLimit' => pc' \in {"chain", "handler"} \/ Rejected'
      BY <1>5, <2>1, <2>2
    <2>4. Limiters' = Limiters
      BY <1>1 DEF Limiters
    <2>5. \A i \in Limiters : taken + readers[i].left <= readers[i].limit
      BY DEF IInv, LimitInv
    <2> QED
      BY <1>1, <1>4, <1>5, <2>3, <2>4, <2>5 DEF LimitInv
  <1>6. CASE call # 0
    <2>1. Heeded(req.config)
      BY <1>6 DEF IInv, LimitInv
    <2>2. Heeded(req.config)'
      BY <1>1, <2>1 DEF Heeded
    <2>4. Limiters' = Limiters
      BY <1>1 DEF Limiters
    <2>5. \A i \in Limiters : taken + readers[i].left <= readers[i].limit
      BY DEF IInv, LimitInv
    <2> QED
      BY <1>1, <1>4, <1>6, <2>2, <2>4, <2>5 DEF LimitInv
  <1> QED
    BY <1>5, <1>6

\* One more reader: the others stay as they are.
LEMMA OneMore ==
    ASSUME IInv, NEW r \in Reader, readers' = Append(readers, r)
    PROVE  LET n == Len(readers) + 1
           IN  /\ readers' \in Seq(Reader) /\ DOMAIN readers' = 1..n /\ n \in Nat /\ readers'[n] = r
               /\ DOMAIN readers = 1..Len(readers) /\ n \notin DOMAIN readers
               /\ \A j \in DOMAIN readers' : j = n \/ j \in DOMAIN readers
               /\ \A j \in DOMAIN readers : /\ j \in DOMAIN readers' /\ readers'[j] = readers[j]
                                            /\ j < n /\ (Outside(j)' <=> Outside(j))
               /\ r.tee => Limiters' = Limiters
               /\ ~r.tee => Limiters' = Limiters \cup {n}
               /\ r.err = "nil" => (Overflowed' <=> Overflowed)
  <1> DEFINE n == Len(readers) + 1
  <1>1. readers \in Seq(Reader) /\ DOMAIN readers = 1..Len(readers) /\ Len(readers) \in Nat
    BY Types DEF IInv
  <1>2. readers' \in Seq(Reader) /\ Len(readers') = n /\ readers'[n] = r /\ n \in Nat
    BY <1>1
  <1>3. DOMAIN readers' = 1..n
    BY <1>2
  <1>4. ASSUME NEW j \in DOMAIN readers
        PROVE  j \in DOMAIN readers' /\ readers'[j] = readers[j] /\ j < n
    BY <1>1, <1>3
  <1>5. n \notin DOMAIN readers /\ \A j \in DOMAIN readers' : j = n \/ j \in DOMAIN readers
    BY <1>1, <1>3
  <1>6. ASSUME NEW j \in DOMAIN readers PROVE Outside(j)' <=> Outside(j)
    <2>1. \A t \in 1..j : t \in DOMAIN readers
      BY <1>1
    <2>2. \A t \in 1..j : readers'[t] = readers[t]
      BY <1>4, <2>1
    <2> QED
      BY <2>2 DEF Outside
  <1>7. n \in DOMAIN readers'
    BY <1>2, <1>3
  <1> HIDE DEF n
  <1>8. r.tee => Limiters' = Limiters
    BY <1>2, <1>4, <1>5 DEF Limiters
  <1>9. ~r.tee => Limiters' = Limiters \cup {n}
    BY <1>2, <1>4, <1>5, <1>7 DEF Limiters
  <1>10. r.err = "nil" => (Overflowed' <=> Overflowed)
    BY <1>2, <1>4, <1>5 DEF Overflowed
  <1> QED
    BY <1>1, <1>2, <1>3, <1>4, <1>5, <1>6, <1>8, <1>9, <1>10 DEF n

\* Before the first read.
Fresh == pc = "chain" \/ (pc = "handler" /\ call = 0)

LEMMA FreshFacts ==
    ASSUME IInv, Fresh
    PROVE  /\ left = req.size /\ taken = 0 /\ call = 0 /\ ended = "nil" /\ status = 0 /\ parsed = {}
           /\ Got = 0 /\ unread = 0 /\ crashed = FALSE /\ ~Overflowed /\ ~Rejected
           /\ \A i \in DOMAIN readers : readers[i].err = "nil"
           /\ \A i \in Limiters : readers[i].left <= readers[i].limit
           /\ \A i \in 1..at : req.chain[i] > 0 => marker # 0 /\ marker <= req.chain[i]
  <1>1. /\ left = req.size /\ taken = 0 /\ call = 0 /\ ended = "nil" /\ status = 0 /\ parsed = {}
        /\ \A i \in DOMAIN readers : readers[i].err = "nil"
    BY DEF IInv, FreshInv, Fresh
  <1>2. req.size \in Nat
    BY Types DEF IInv
  <1>3. Got = 0
    BY <1>1, <1>2 DEF Got
  <1>4. unread = 0 /\ crashed = FALSE /\ ~Rejected
    BY Unanswered DEF Fresh
  <1>5. ~Overflowed
    BY <1>1 DEF Overflowed
  <1>6. /\ \A i \in 1..at : Heeded(req.chain[i])
        /\ \A i \in Limiters : taken + readers[i].left <= readers[i].limit
    BY DEF IInv, LimitInv
  <1>7. \A i \in Limiters : readers[i].left \in Nat
    <2>1. \A j \in Limiters : readers[j] \in Reader
      BY Types DEF IInv, Limiters
    <2> QED
      BY <2>1, ReaderFacts
  <1>8. \A i \in Limiters : readers[i].left <= readers[i].limit
    BY <1>1, <1>6, <1>7
  <1>9. \A i \in 1..at : req.chain[i] > 0 => marker # 0 /\ marker <= req.chain[i]
    BY <1>4, <1>6 DEF Heeded
  <1> QED
    BY <1>1, <1>3, <1>4, <1>5, <1>8, <1>9

LEMMA EnterLoggerKeeps == IInv /\ EnterLogger => IInv'
  <1> SUFFICES ASSUME IInv, EnterLogger PROVE IInv'
    OBVIOUS
  <1> DEFINE n == Len(readers) + 1
             max == req.maxBodySize
  <1>1. /\ pc = "chain" /\ entered' = TRUE /\ reqBody' = Reset(max) /\ respBody' = Reset(max)
        /\ readers' = Append(readers, Tee)
        /\ req' = req /\ pc' = pc /\ at' = at /\ marker' = marker /\ left' = left
        /\ call' = call /\ taken' = taken /\ stray' = stray /\ ended' = ended
        /\ crashed' = crashed /\ parsed' = parsed /\ result' = result
        /\ status' = status /\ unread' = unread /\ offered' = offered /\ appended' = appended
    BY DEF EnterLogger, inner
  <1>2. ~entered
    BY DEF EnterLogger
  <1>3. Typed /\ TypeOK /\ RequestOK /\ max \in Int /\ req.size \in Nat
    BY Types DEF IInv, Typed
  <1>4. Tee \in Reader /\ Tee.tee = TRUE /\ Tee.err = "nil"
    BY DEF Tee, Reader
  <1>5. /\ readers' \in Seq(Reader) /\ DOMAIN readers' = 1..n /\ readers'[n] = Tee
        /\ n \notin DOMAIN readers
        /\ \A j \in DOMAIN readers' : j = n \/ j \in DOMAIN readers
        /\ \A j \in DOMAIN readers : /\ j \in DOMAIN readers' /\ readers'[j] = readers[j]
                                     /\ (Outside(j)' <=> Outside(j))
        /\ n \in Nat
    BY <1>1, <1>4, OneMore
  <1>6. Limiters' = Limiters /\ (Overflowed' <=> Overflowed)
    BY <1>1, <1>4, OneMore
  <1>7. n \in DOMAIN readers'
    BY <1>5
  <1>8. /\ taken = 0 /\ call = 0 /\ ended = "nil" /\ status = 0 /\ parsed = {} /\ left = req.size
        /\ Got = 0 /\ \A i \in DOMAIN readers : readers[i].err = "nil"
    BY <1>1, FreshFacts DEF Fresh
  <1>9. Got' = Got /\ Installed' = Installed /\ (Overrun' <=> Overrun)
    BY <1>1 DEF Got, Installed, Overrun
  <1>10. Clean /\ Clean'
    <2>1. reqBody'.cut = FALSE
      BY <1>1 DEF Reset
    <2> QED
      BY <1>2, <2>1, Zenon DEF Clean
  <1>11. \A j \in Limiters : j \in DOMAIN readers
    BY DEF Limiters
  <1> HIDE DEF n
  <1>20. Typed'
    <2>1. reqBody' \in Buffer /\ respBody' \in Buffer
      BY <1>1, <1>3 DEF Reset, Buffer
    <2>2. entered' \in BOOLEAN
      BY <1>1, Zenon
    <2>3. TypeOK'
      BY <1>1, <1>3, <1>5, <2>1, <2>2 DEF TypeOK
    <2> QED
      BY <1>1, <1>3, <2>3 DEF Typed, RequestOK
  <1>21. TeeInv'
    <2>1. \A t \in DOMAIN readers : ~readers[t].tee
      BY <1>2 DEF IInv, TeeInv
    <2>2. \A t \in DOMAIN readers : ~readers'[t].tee
      BY <1>5, <2>1
    <2>3. readers'[n].tee
      BY <1>4, <1>5, Zenon
    <2> QED
      BY <1>1, <1>5, <1>7, <2>2, <2>3, Zenon DEF TeeInv
  <1>22. ReaderInv'
    BY <1>5, <1>6, <1>9, <1>11 DEF IInv, ReaderInv
  <1>23. StricterWins'
    <2>1. Limiters # {} => Max(Limiters) \in Limiters
      <3>1. Limiters \in SUBSET (1..Len(readers)) /\ Len(readers) \in Nat
        BY Types DEF IInv, Limiters
      <3> QED
        BY <3>1, MaxFacts
    <2> QED
      BY <1>1, <1>5, <1>6, <1>11, <2>1 DEF IInv, StricterWins
  <1>24. BufferInv'
    <2>1. reqBody'.cut = FALSE /\ reqBody'.remaining = max /\ reqBody'.kept = 0
      BY <1>1 DEF Reset
    <2>2. \A j \in Limiters' : 0 <= readers'[j].limit
      <3>1. \A j \in Limiters : readers[j] \in Reader
        BY Types DEF IInv, Limiters
      <3>2. \A j \in Limiters : readers[j].limit \in Nat
        BY <3>1, ReaderFacts
      <3> QED
        BY <1>5, <1>6, <1>11, <3>2
    <2>3. Got' = 0
      BY <1>8, <1>9
    <2>4. Holds(0, 0)'
      <3>1. /\ 0 <= 0 /\ (req'.maxBodySize > 0 => 0 <= req'.maxBodySize)
            /\ \A j \in Limiters' : Outside(j)' => 0 <= readers'[j].limit
        <4>1. \A m \in Int : 0 <= 0 /\ (m > 0 => 0 <= m)
          OBVIOUS
        <4>2. req'.maxBodySize \in Int
          BY <1>1, <1>3
        <4>3. 0 <= 0 /\ (req'.maxBodySize > 0 => 0 <= req'.maxBodySize)
          BY <4>1, <4>2
        <4> QED
          BY <2>2, <4>3
      <3> QED
        BY <3>1 DEF Holds
    <2>5. max = max - 0
      BY <1>3
    <2> QED
      BY <1>1, <2>1, <2>3, <2>4, <2>5 DEF BufferInv, Logs
  <1>25. ClearInv'
    BY <1>1, <1>4, <1>5, <1>6, <1>9, <1>10, <1>11 DEF IInv, ClearInv
  <1>26. FreshInv'
    BY <1>1, <1>4, <1>5, <1>8 DEF FreshInv
  <1>27. LimitInv'
    <2>1. \A i \in 1..at : req.chain[i] > 0 => marker # 0 /\ marker <= req.chain[i]
      BY <1>1, FreshFacts DEF Fresh
    <2>2. \A i \in Limiters : taken + readers[i].left <= readers[i].limit
      BY DEF IInv, LimitInv
    <2>3. \A i \in 1..at' : Heeded(req.chain[i])'
      BY <1>1, <2>1 DEF Heeded
    <2>4. \A i \in Limiters' : taken' + readers'[i].left <= readers'[i].limit
      BY <1>1, <1>5, <1>6, <1>11, <2>2
    <2> QED
      BY <1>1, <1>8, <2>3, <2>4 DEF LimitInv
  <1>28. CleanInv'
    BY <1>1, <1>6, <1>9, <1>10 DEF IInv, CleanInv
  <1>29. CallInv'
    BY <1>1 DEF IInv, CallInv, CallsLimit, Bind
  <1>30. FormInv'
    BY <1>1, <1>8 DEF FormInv, Bind
  <1>31. ResponseInv'
    <2>1. offered = -1 /\ appended = FALSE
      BY <1>1, Unanswered
    <2>2. max > 0 => Length(Reset(max)) < max + TruncSize
      BY <1>3, TruncSizeAssumption DEF Length, Reset
    <2>3. status # 0 <=> pc \in {"answer", "drain", "done"}
      BY DEF IInv, ResponseInv
    <2> QED
      BY <1>1, <2>1, <2>2, <2>3 DEF ResponseInv
  <1> QED
    BY <1>20, <1>21, <1>22, <1>23, <1>24, <1>25, <1>26, <1>27, <1>28, <1>29, <1>30, <1>31 DEF IInv

\* A stricter limit around what has not been read.
LEMMA LimitKeeps ==
    ASSUME IInv, Fresh, NEW n \in Int, n \in Installed, ~Rejects(n), Limit(n),
           UNCHANGED <<req, left, entered, reqBody>>
    PROVE  /\ readers' \in Seq(Reader) /\ marker' \in Nat
           /\ TeeInv' /\ ReaderInv' /\ StricterWins' /\ BufferInv' /\ ClearInv'
           /\ \A j \in DOMAIN readers' : readers'[j].err = "nil"
           /\ \A j \in Limiters' : readers'[j].left <= readers'[j].limit
           /\ n > 0 => marker' # 0 /\ marker' <= n
           /\ \A m \in Int : marker # 0 /\ marker <= m => marker' # 0 /\ marker' <= m
           /\ (Clean' <=> Clean) /\ (Overrun' <=> Overrun) /\ Got' = Got
           /\ ~Overflowed'
  <1>1. req' = req /\ left' = left /\ entered' = entered /\ reqBody' = reqBody
    OBVIOUS
  <1>2. (Clean' <=> Clean) /\ (Overrun' <=> Overrun) /\ Got' = Got /\ Installed' = Installed
    BY <1>1 DEF Clean, Overrun, Got, Installed
  <1>3. /\ readers \in Seq(Reader) /\ marker \in Nat /\ Len(readers) \in Nat
        /\ DOMAIN readers = 1..Len(readers)
        /\ \A j \in DOMAIN readers : readers[j] \in Reader
        /\ req.declared \in Int
    <2>1. marker \in Nat /\ req.declared \in {-1, req.size} /\ req.size \in Nat
      BY Types DEF IInv, Typed, TypeOK, RequestOK
    <2> QED
      BY <2>1, Types DEF IInv
  <1>4. /\ Got = 0 /\ ~Overflowed
        /\ \A i \in DOMAIN readers : readers[i].err = "nil"
        /\ \A i \in Limiters : readers[i].left <= readers[i].limit
    BY FreshFacts
  <1>5. CASE ~Wraps(n)
    <2>1. readers' = readers /\ marker' = marker
      BY <1>5 DEF Limit
    <2>2. /\ TeeInv' /\ ReaderInv' /\ StricterWins' /\ BufferInv' /\ ClearInv'
          /\ Limiters' = Limiters /\ (Overflowed' <=> Overflowed)
      BY <2>1, Untouched
    <2>3. n > 0 => marker # 0 /\ marker <= n
      BY <1>3, <1>5 DEF Wraps, Rejects, Limited
    <2> QED
      BY <1>2, <1>3, <1>4, <2>1, <2>2, <2>3
  <1>6. CASE Wraps(n)
    <2>0. PICK l \in Nat : l = Len(readers) + 1
      BY <1>3
    <2> DEFINE r == MaxReader(n)
    <2>1. readers' = Append(readers, r) /\ marker' = n
      BY <1>6 DEF Limit
    <2>2. n \in Nat /\ n # 0 /\ (marker # 0 => n < marker)
      BY <1>3, <1>6 DEF Wraps, Limited
    <2>3. r \in Reader /\ r.tee = FALSE /\ r.limit = n /\ r.left = n /\ r.err = "nil"
      BY <2>2 DEF MaxReader, Reader
    <2>4. /\ readers' \in Seq(Reader) /\ DOMAIN readers' = 1..l /\ readers'[l] = r
          /\ l \notin DOMAIN readers /\ l \in Nat
          /\ \A j \in DOMAIN readers' : j = l \/ j \in DOMAIN readers
          /\ \A j \in DOMAIN readers : /\ j \in DOMAIN readers' /\ readers'[j] = readers[j]
                                       /\ j < l /\ (Outside(j)' <=> Outside(j))
          /\ Limiters' = Limiters \cup {l} /\ (Overflowed' <=> Overflowed)
      BY <2>0, <2>1, <2>3, OneMore
    <2>5. l \in DOMAIN readers'
      BY <1>3, <2>0, <2>4
    <2>6. \A j \in Limiters : j \in DOMAIN readers
      BY DEF Limiters
    <2> HIDE DEF r
    <2>7. TeeInv'
      BY <1>1, <2>3, <2>4 DEF IInv, TeeInv
    <2>8. ReaderInv'
      <3>1. Got' + n = n /\ Got' + n >= n
        BY <1>2, <1>4, <2>2
      <3>2. \A j \in Limiters :
               /\ readers'[j].limit \in Installed'
               /\ Outside(j)' /\ readers'[j].err = "nil" => Got' + readers'[j].left = readers'[j].limit
               /\ Outside(j)' => Got' + readers'[j].left >= readers'[j].limit
        BY <1>2, <2>4, <2>6 DEF IInv, ReaderInv
      <3>3. /\ readers'[l].limit \in Installed'
            /\ Got' + readers'[l].left = readers'[l].limit
            /\ Got' + readers'[l].left >= readers'[l].limit
        BY <1>2, <2>3, <2>4, <3>1
      <3> QED
        BY <2>4, <3>2, <3>3 DEF ReaderInv
    <2>9. StricterWins'
      <3>1. /\ \A i, j \in Limiters : i < j => readers[i].limit > readers[j].limit
            /\ marker = IF Limiters = {} THEN 0 ELSE readers[Max(Limiters)].limit
        BY DEF IInv, StricterWins
      <3>2. \A i \in Limiters : readers[i].limit \in Nat /\ readers[i].limit # 0
        <4>1. \A i \in Limiters : readers[i] \in Reader /\ ~readers[i].tee
          BY <1>3 DEF Limiters
        <4> QED
          BY <4>1, ReaderFacts
      <3>3. \A i \in Limiters : n < readers[i].limit
        <4> SUFFICES ASSUME NEW i \in Limiters PROVE n < readers[i].limit
          OBVIOUS
        <4> DEFINE m == Max(Limiters)
        <4>1. m \in Limiters /\ i <= m
          <5>1. Limiters \in SUBSET (1..Len(readers))
            BY <1>3 DEF Limiters
          <5> QED
            BY <1>3, <5>1, MaxFacts
        <4>2. marker = readers[m].limit
          BY <3>1
        <4> HIDE DEF m
        <4>3. i \in Int /\ m \in Int
          BY <1>3, <4>1 DEF Limiters
        <4>4. readers[i].limit >= readers[m].limit
          <5>1. CASE i = m
            BY <3>2, <4>1, <5>1
          <5>2. CASE i < m
            BY <3>1, <3>2, <4>1, <5>2
          <5> QED
            BY <4>1, <4>3, <5>1, <5>2
        <4>5. n < readers[m].limit
          BY <2>2, <3>2, <4>1, <4>2
        <4> QED
          BY <2>2, <3>2, <4>1, <4>4, <4>5
      <3>4. Max(Limiters') = l
        <4> DEFINE T == Limiters \cup {l}
        <4>1. T \in SUBSET (1..l) /\ T # {} /\ l \in T
          BY <1>3, <2>0, <2>4, <2>6
        <4> HIDE DEF T
        <4>2. Max(T) \in T /\ l <= Max(T)
          BY <2>4, <4>1, MaxFacts
        <4>3. Max(T) = l
          <5>1. Max(T) \in 1..l /\ l \in Nat
            BY <2>4, <4>1, <4>2
          <5> QED
            BY <4>2, <5>1
        <4> QED
          BY <2>4, <4>3 DEF T
      <3>5. Limiters' # {} /\ marker' = readers'[Max(Limiters')].limit
        BY <2>1, <2>3, <2>4, <3>4
      <3>6. ASSUME NEW i \in Limiters', NEW j \in Limiters', i < j
            PROVE  readers'[i].limit > readers'[j].limit
        <4>1. CASE i \in Limiters /\ j \in Limiters
          BY <2>4, <2>6, <3>1, <3>6, <4>1
        <4>2. CASE i \in Limiters /\ j = l
          BY <2>2, <2>3, <2>4, <2>6, <3>2, <3>3, <4>2
        <4>3. CASE i = l
          <5>1. j = l \/ j < l
            BY <2>4, <2>6
          <5>2. j \in Int
            BY <1>3, <2>4, <2>6
          <5> QED
            BY <2>4, <3>6, <4>3, <5>1, <5>2
        <4> QED
          BY <2>4, <4>1, <4>2, <4>3
      <3> QED
        BY <3>5, <3>6 DEF StricterWins
    <2>10. BufferInv'
      <3> SUFFICES ASSUME entered PROVE Logs(reqBody, Got)'
        BY <1>1 DEF BufferInv
      <3>1. Logs(reqBody, Got)
        BY DEF IInv, BufferInv
      <3>2. ~Outside(l)'
        <4>1. PICK t \in DOMAIN readers : readers[t].tee
          BY DEF IInv, TeeInv
        <4>2. t \in 1..l /\ readers'[t].tee
          BY <1>3, <2>4, <4>1
        <4> QED
          BY <4>2, Zenon DEF Outside
      <3>a. \A j \in Limiters' : Outside(j)' =>
               j \in Limiters /\ Outside(j) /\ readers'[j].limit = readers[j].limit
        BY <2>4, <2>6, <3>2
      <3>3. \A j \in Limiters : (Outside(j)' <=> Outside(j)) /\ readers'[j].limit = readers[j].limit
        BY <2>4, <2>6
      <3>4. CASE reqBody.cut
        BY <1>1, <1>2, <3>1, <3>a, <3>4 DEF Logs
      <3>5. CASE ~reqBody.cut
        <4>1. Holds(reqBody.kept, Got)
          BY <3>1, <3>5 DEF Logs
        <4>2. Holds(reqBody.kept, Got)'
          <5>1. \A j \in Limiters : Outside(j) => j \in Limiters' /\ Outside(j)'
            BY <2>4, <2>6
          <5> QED
            BY <1>1, <1>2, <3>3, <3>a, <4>1, <5>1 DEF Holds
        <4> QED
          BY <1>1, <3>1, <3>5, <4>2 DEF Logs
      <3> QED
        BY <3>4, <3>5
    <2>11. ClearInv'
      <3> SUFFICES ASSUME Clean
                   PROVE  /\ \A j \in Limiters' : Got' + readers'[j].left >= readers'[j].limit
                          /\ \A j \in DOMAIN readers' : readers'[j].err = "nil"
        BY <1>2 DEF ClearInv
      <3>1. \A j \in Limiters : Got' + readers'[j].left >= readers'[j].limit
        BY <1>2, <2>4, <2>6 DEF IInv, ClearInv
      <3>2. Got' + readers'[l].left >= readers'[l].limit
        BY <1>2, <1>4, <2>2, <2>3, <2>4
      <3> QED
        BY <1>4, <2>3, <2>4, <3>1, <3>2
    <2>12. \A j \in Limiters' : readers'[j].left <= readers'[j].limit
      <3>1. \A j \in Limiters : readers'[j].left <= readers'[j].limit
        BY <1>4, <2>4, <2>6
      <3>2. readers'[l].left <= readers'[l].limit
        BY <2>2, <2>3, <2>4
      <3> QED
        BY <2>4, <3>1, <3>2
    <2>13. \A j \in DOMAIN readers' : readers'[j].err = "nil"
      BY <1>4, <2>3, <2>4
    <2>14. \A m \in Int : marker # 0 /\ marker <= m => marker' # 0 /\ marker' <= m
      BY <1>3, <2>1, <2>2
    <2>15. marker' \in Nat /\ marker' # 0 /\ marker' <= n
      BY <2>1, <2>2
    <2> QED
      BY <1>2, <1>4, <2>4, <2>7, <2>8, <2>9, <2>10, <2>11, <2>12, <2>13, <2>14, <2>15
  <1> QED
    BY <1>5, <1>6

\* A declared length over a limit is a body over it.
LEMMA RejectFacts ==
    ASSUME IInv, NEW n \in Int, n \in Installed, Rejects(n)
    PROVE  n > 0 /\ marker = 0 /\ Limiters = {} /\ req.declared = req.size /\ req.declared > n /\ Overrun
  <1>1. n > 0 /\ marker = 0 /\ req.declared > n
    BY DEF Rejects, Limited
  <1>2. req.declared \in {-1, req.size} /\ req.size \in Nat
    BY Types DEF IInv, Typed, RequestOK
  <1>3. req.declared = req.size
    BY <1>1, <1>2
  <1>4. Overrun
    BY <1>1, <1>3 DEF Overrun
  <1>5. Limiters = {}
    <2> SUFFICES ASSUME Limiters # {} PROVE FALSE
      OBVIOUS
    <2> DEFINE m == Max(Limiters)
    <2>1. m \in Limiters
      <3>1. Limiters \in SUBSET (1..Len(readers)) /\ Len(readers) \in Nat
        BY Types DEF IInv, Limiters
      <3> QED
        BY <3>1, MaxFacts
    <2>2. marker = readers[m].limit
      BY DEF IInv, StricterWins
    <2> HIDE DEF m
    <2>3. readers[m] \in Reader /\ ~readers[m].tee
      BY <2>1, Types DEF IInv, Limiters
    <2>4. readers[m].limit # 0
      BY <2>3, ReaderFacts
    <2> QED
      BY <1>1, <2>2, <2>4
  <1> QED
    BY <1>1, <1>3, <1>4, <1>5

LEMMA MiddlewareKeeps == IInv /\ Middleware => IInv'
  <1> SUFFICES ASSUME IInv, Middleware PROVE IInv'
    OBVIOUS
  <1> DEFINE n == req.chain[at + 1]
  <1>1. /\ pc = "chain" /\ at < Len(req.chain) /\ at' = at + 1
        /\ req' = req /\ entered' = entered /\ left' = left /\ reqBody' = reqBody
        /\ call' = call /\ taken' = taken /\ stray' = stray /\ ended' = ended
        /\ crashed' = crashed /\ parsed' = parsed /\ result' = result
        /\ unread' = unread /\ offered' = offered /\ appended' = appended /\ respBody' = respBody
    BY DEF Middleware, inner, Send, outer
  <1>2. /\ Rejects(n) => status' = 413 /\ pc' = "answer" /\ marker' = marker /\ readers' = readers
        /\ ~Rejects(n) => Limit(n) /\ pc' = pc /\ status' = status
    BY DEF Middleware, Send, outer
  <1>3. Typed /\ TypeOK /\ RequestOK /\ req.size \in Nat
    BY Types DEF IInv, Typed
  <1>4. /\ at \in Nat /\ req.chain \in Seq(Limits) /\ at' \in 0..Len(req.chain) /\ at + 1 \in DOMAIN req.chain
        /\ \A i \in 1..at' : i \in DOMAIN req.chain /\ (i = at + 1 \/ i \in 1..at)
    <2>1. at \in 0..Len(req.chain) /\ req.chain \in Seq(Limits)
      BY <1>3 DEF TypeOK, RequestOK
    <2> QED
      BY <1>1, <2>1
  <1>5. /\ \A i \in DOMAIN req.chain : req.chain[i] \in Int /\ req.chain[i] \in Installed
        /\ n \in Int /\ n \in Installed
    <2>1. \A i \in DOMAIN req.chain : req.chain[i] \in Limits /\ req.chain[i] \in Range(req.chain)
      BY <1>4 DEF Range
    <2> QED
      BY <1>4, <2>1, LimitsAssumption DEF Installed
  <1>6. Fresh
    BY <1>1 DEF Fresh
  <1>7. /\ taken = 0 /\ call = 0 /\ ended = "nil" /\ status = 0 /\ parsed = {} /\ left = req.size
        /\ ~Rejected
        /\ \A i \in 1..at : req.chain[i] > 0 => marker # 0 /\ marker <= req.chain[i]
    BY <1>6, FreshFacts
  <1>8. offered = -1 /\ appended = FALSE /\ crashed = FALSE /\ unread = 0
    BY <1>1, Unanswered
  <1>9. ended \notin {"eof", "big"} /\ pc \notin {"form", "done"}
    BY <1>1, <1>7
  <1> HIDE DEF n
  <1>10. CASE Rejects(n)
    <2>1. status' = 413 /\ pc' = "answer" /\ marker' = marker /\ readers' = readers
      BY <1>2, <1>10
    <2>2. /\ TeeInv' /\ ReaderInv' /\ StricterWins' /\ BufferInv' /\ ClearInv'
          /\ Limiters' = Limiters /\ (Clean' <=> Clean) /\ (Overrun' <=> Overrun)
          /\ (Overflowed' <=> Overflowed) /\ Got' = Got
      BY <1>1, <2>1, Untouched
    <2>3. n > 0 /\ marker = 0 /\ Limiters = {} /\ req.declared = req.size /\ req.declared > n /\ Overrun
      BY <1>5, <1>10, RejectFacts
    <2>4. Typed'
      <3>1. TypeOK'
        BY <1>1, <1>3, <1>4, <2>1 DEF TypeOK
      <3> QED
        BY <1>1, <1>3, <3>1 DEF Typed, RequestOK
    <2>5. FreshInv'
      BY <2>1 DEF FreshInv
    <2>6. Rejected'
      BY <1>1, <2>1, <2>2, <2>3 DEF Rejected
    <2>7. LimitInv'
      <3>1. \A i \in 1..at' : Heeded(req.chain[i])'
        <4> SUFFICES ASSUME NEW i \in 1..at', req.chain[i] > 0 PROVE req.declared > req.chain[i]
          BY <1>1, <2>6 DEF Heeded
        <4>1. CASE i = at + 1
          BY <2>3, <4>1 DEF n
        <4>2. CASE i \in 1..at
          BY <1>7, <2>3, <4>2
        <4> QED
          BY <1>4, <4>1, <4>2
      <3> QED
        BY <1>1, <1>7, <2>2, <2>3, <2>6, <3>1 DEF LimitInv
    <2>8. CleanInv'
      BY <1>1, <1>9, <2>1, <2>2, <2>3 DEF IInv, CleanInv
    <2>9. CallInv'
      BY <1>1, <1>7, <1>8, <2>1 DEF IInv, CallInv, CallsLimit, Bind
    <2>10. FormInv'
      BY <1>1, <1>7, <2>1 DEF FormInv
    <2>11. ResponseInv'
      BY <1>1, <1>8, <2>1 DEF IInv, ResponseInv, Fits, Length
    <2> QED
      BY <2>2, <2>4, <2>5, <2>7, <2>8, <2>9, <2>10, <2>11 DEF IInv
  <1>11. CASE ~Rejects(n)
    <2>1. Limit(n) /\ pc' = "chain" /\ status' = 0
      BY <1>1, <1>2, <1>7, <1>11
    <2>2. /\ readers' \in Seq(Reader) /\ marker' \in Nat
          /\ TeeInv' /\ ReaderInv' /\ StricterWins' /\ BufferInv' /\ ClearInv'
          /\ \A j \in DOMAIN readers' : readers'[j].err = "nil"
          /\ \A j \in Limiters' : readers'[j].left <= readers'[j].limit
          /\ n > 0 => marker' # 0 /\ marker' <= n
          /\ \A m \in Int : marker # 0 /\ marker <= m => marker' # 0 /\ marker' <= m
          /\ (Clean' <=> Clean) /\ (Overrun' <=> Overrun) /\ Got' = Got
          /\ ~Overflowed'
      BY <1>1, <1>5, <1>6, <1>11, <2>1, LimitKeeps
    <2>4. Typed'
      <3>1. TypeOK'
        BY <1>1, <1>3, <1>4, <2>1, <2>2 DEF TypeOK
      <3> QED
        BY <1>1, <1>3, <3>1 DEF Typed, RequestOK
    <2>5. FreshInv'
      BY <1>1, <1>7, <2>1, <2>2 DEF FreshInv
    <2>7. LimitInv'
      <3>1. \A i \in 1..at' : Heeded(req.chain[i])'
        <4> SUFFICES ASSUME NEW i \in 1..at', req.chain[i] > 0
                     PROVE  marker' # 0 /\ marker' <= req.chain[i]
          BY <1>1 DEF Heeded
        <4>1. CASE i = at + 1
          BY <2>2, <4>1 DEF n
        <4>2. CASE i \in 1..at
          BY <1>4, <1>5, <1>7, <2>2, <4>2
        <4> QED
          BY <1>4, <4>1, <4>2
      <3>2. \A j \in Limiters' : 0 + readers'[j].left <= readers'[j].limit
        <4>1. \A j \in Limiters' : readers'[j] \in Reader
          BY <2>2 DEF Limiters
        <4>2. \A j \in Limiters' : readers'[j].left \in Nat
          BY <4>1, ReaderFacts
        <4> QED
          BY <2>2, <4>2
      <3> QED
        BY <1>1, <1>7, <2>1, <3>1, <3>2 DEF LimitInv
    <2>8. CleanInv'
      <3>1. taken + unread = Got
        BY <1>6, <1>8, FreshFacts
      <3> QED
        BY <1>1, <1>7, <1>8, <2>1, <2>2, <3>1 DEF IInv, CleanInv
    <2>9. CallInv'
      BY <1>1, <1>7, <1>8, <2>1 DEF IInv, CallInv, CallsLimit, Bind
    <2>10. FormInv'
      BY <1>1, <1>7, <2>1 DEF FormInv
    <2>11. ResponseInv'
      BY <1>1, <1>8, <2>1 DEF IInv, ResponseInv, Fits, Length
    <2> QED
      BY <2>2, <2>4, <2>5, <2>7, <2>8, <2>9, <2>10, <2>11 DEF IInv
  <1> QED
    BY <1>10, <1>11

LEMMA EnterHandlerKeeps == IInv /\ EnterHandler => IInv'
  <1> SUFFICES ASSUME IInv, EnterHandler PROVE IInv'
    OBVIOUS
  <1>1. /\ pc = "chain"
        /\ req' = req /\ at' = at /\ entered' = entered /\ marker' = marker /\ readers' = readers
        /\ left' = left /\ reqBody' = reqBody
        /\ call' = call /\ taken' = taken /\ stray' = stray /\ ended' = ended
        /\ crashed' = crashed /\ parsed' = parsed /\ result' = result
        /\ status' = status /\ unread' = unread /\ offered' = offered /\ appended' = appended
        /\ respBody' = respBody
    BY DEF EnterHandler, inner, outer
  <1>2. \/ req.op = "Read" /\ pc' = "read"
        \/ req.op = "JSON" /\ pc' = "respond"
        \/ CallsLimit /\ pc' = "handler"
    BY DEF EnterHandler, CallsLimit
  <1>3. Typed /\ TypeOK /\ RequestOK
    BY DEF IInv, Typed
  <1>4. /\ taken = 0 /\ call = 0 /\ ended = "nil" /\ status = 0 /\ parsed = {} /\ left = req.size
        /\ ~Rejected /\ \A i \in DOMAIN readers : readers[i].err = "nil"
    BY <1>1, FreshFacts DEF Fresh
  <1>5. offered = -1 /\ appended = FALSE /\ crashed = FALSE /\ unread = 0
    BY <1>1, Unanswered
  <1>6. /\ TeeInv' /\ ReaderInv' /\ StricterWins' /\ BufferInv' /\ ClearInv'
        /\ (Clean' <=> Clean) /\ (Overrun' <=> Overrun)
        /\ (Overflowed' <=> Overflowed) /\ Got' = Got
    BY <1>1, Untouched
  <1>7. Typed'
    <2>1. TypeOK'
      BY <1>1, <1>2, <1>3 DEF TypeOK
    <2> QED
      BY <1>1, <1>3, <2>1 DEF Typed, RequestOK
  <1>8. FreshInv'
    BY <1>1, <1>2, <1>4 DEF FreshInv
  <1>9. LimitInv'
    BY <1>1, <1>2, <1>4, LimitsStay DEF CallsLimit
  <1>10. CleanInv'
    BY <1>1, <1>2, <1>4, <1>6 DEF IInv, CleanInv
  <1>11. CallInv'
    BY <1>1, <1>2, <1>4, <1>5 DEF IInv, CallInv, CallsLimit, Bind
  <1>12. FormInv'
    BY <1>1, <1>2, <1>4 DEF FormInv, Bind
  <1>13. ResponseInv'
    BY <1>1, <1>2, <1>4, <1>5 DEF IInv, ResponseInv, Fits, Length
  <1> QED
    BY <1>6, <1>7, <1>8, <1>9, <1>10, <1>11, <1>12, <1>13 DEF IInv

LEMMA CallLimitKeeps == IInv /\ CallLimit => IInv'
  <1> SUFFICES ASSUME IInv, CallLimit PROVE IInv'
    OBVIOUS
  <1> DEFINE n == req.config
  <1>1. /\ pc = "handler" /\ call' = call + 1 /\ ended' = "nil"
        /\ req' = req /\ at' = at /\ entered' = entered /\ left' = left /\ reqBody' = reqBody
        /\ taken' = taken /\ stray' = stray /\ crashed' = crashed /\ parsed' = parsed
        /\ status' = status /\ unread' = unread /\ offered' = offered /\ appended' = appended
        /\ respBody' = respBody
    BY DEF CallLimit, outer
  <1>2. /\ Rejects(n) => /\ result' = [code |-> 413, big |-> TRUE] /\ pc' = "respond"
                         /\ marker' = marker /\ readers' = readers
        /\ ~Rejects(n) => /\ Limit(n) /\ result' = NoError
                          /\ (Bind /\ pc' = "form") \/ (~Bind /\ pc' = "decode")
    BY DEF CallLimit, TooLarge, Fail
  <1>3. Typed /\ TypeOK /\ RequestOK /\ call \in {0, 1} /\ CallsLimit
    <2>1. call \in 0..2 /\ call <= 1 /\ CallsLimit
      BY <1>1 DEF IInv, Typed, TypeOK, CallInv
    <2> QED
      BY <2>1 DEF IInv, Typed
  <1>4. n \in Int /\ n \in Installed /\ req.chain \in Seq(Limits) /\ at \in 0..Len(req.chain)
    BY <1>3, LimitsAssumption DEF RequestOK, TypeOK, Installed
  <1>5. status = 0 /\ offered = -1 /\ appended = FALSE /\ crashed = FALSE /\ unread = 0 /\ ~Rejected
    BY <1>1, Unanswered
  <1>6. \A i \in 1..at : req.chain[i] \in Int /\ (req.chain[i] > 0 => marker # 0 /\ marker <= req.chain[i])
    <2>1. \A i \in 1..at : req.chain[i] \in Limits
      BY <1>4
    <2>2. \A i \in 1..at : Heeded(req.chain[i])
      BY DEF IInv, LimitInv
    <2> QED
      BY <1>5, <2>1, <2>2, LimitsAssumption DEF Heeded
  <1>7. NoError.code = 0 /\ NoError.big = FALSE
        /\ NoError \in [code : {0, 400, 413, 500}, big : BOOLEAN]
    BY DEF NoError
  <1>8. call' \in 0..2 /\ call' # 0
    BY <1>1, <1>3
  <1> HIDE DEF n
  <1>9. ASSUME call # 0
        PROVE  ~Rejects(n) /\ (Limit(n) => readers' = readers /\ marker' = marker) /\ (n > 0 => marker # 0 /\ marker <= n)
    <2>1. n > 0 => marker # 0 /\ marker <= n
      BY <1>5, <1>9 DEF IInv, LimitInv, Heeded, n
    <2>2. marker \in Nat
      BY <1>3 DEF TypeOK
    <2>3. ~Rejects(n) /\ ~Wraps(n)
      BY <1>4, <2>1, <2>2 DEF Rejects, Wraps, Limited
    <2> QED
      BY <2>1, <2>3 DEF Limit
  <1>10. CASE Rejects(n)
    <2>1. /\ result' = [code |-> 413, big |-> TRUE] /\ pc' = "respond" /\ marker' = marker
          /\ readers' = readers /\ call = 0
      BY <1>2, <1>9, <1>10
    <2>2. /\ TeeInv' /\ ReaderInv' /\ StricterWins' /\ BufferInv' /\ ClearInv'
          /\ Limiters' = Limiters /\ (Clean' <=> Clean) /\ (Overrun' <=> Overrun)
          /\ (Overflowed' <=> Overflowed) /\ Got' = Got
      BY <1>1, <2>1, Untouched
    <2>3. n > 0 /\ marker = 0 /\ Limiters = {} /\ req.declared = req.size /\ req.declared > n /\ Overrun
      BY <1>4, <1>10, RejectFacts
    <2>4. taken = 0 /\ parsed = {}
      BY <1>1, <2>1, FreshFacts DEF Fresh
    <2>5. result'.code = 413 /\ result'.big = TRUE /\ result' # NoError
          /\ result' \in [code : {0, 400, 413, 500}, big : BOOLEAN]
      BY <2>1, <1>7
    <2>6. Typed'
      <3>1. TypeOK'
        BY <1>1, <1>3, <1>8, <2>1, <2>5 DEF TypeOK
      <3> QED
        BY <1>1, <1>3, <3>1 DEF Typed, RequestOK
    <2>7. FreshInv'
      BY <2>1 DEF FreshInv
    <2>8. Rejected'
      BY <1>1, <2>1, <2>2, <2>3, <2>4, <2>5 DEF Rejected
    <2>9. LimitInv'
      <3>1. \A i \in 1..at : req.chain[i] > 0 => FALSE
        BY <1>6, <2>3
      <3>2. \A i \in 1..at' : Heeded(req.chain[i])'
        BY <1>1, <3>1 DEF Heeded
      <3>3. Heeded(req.config)'
        BY <1>1, <2>3, <2>8 DEF Heeded, n
      <3> QED
        BY <1>8, <2>2, <2>3, <3>2, <3>3 DEF LimitInv
    <2>10. CleanInv'
      BY <1>1, <2>1, <2>2, <2>3 DEF IInv, CleanInv
    <2>11. CallInv'
      BY <1>1, <1>3, <1>5, <1>8, <2>1, <2>5 DEF CallInv
    <2>12. FormInv'
      BY <1>1, <1>5, <2>1, <2>4, <2>5 DEF FormInv
    <2>13. ResponseInv'
      BY <1>1, <1>5, <2>1 DEF IInv, ResponseInv, Fits, Length
    <2> QED
      BY <2>2, <2>6, <2>7, <2>9, <2>10, <2>11, <2>12, <2>13 DEF IInv
  <1>11. CASE ~Rejects(n)
    <2>1. /\ Limit(n) /\ result' = NoError
          /\ (Bind /\ pc' = "form") \/ (~Bind /\ pc' = "decode")
      BY <1>2, <1>11
    <2>2. /\ readers' \in Seq(Reader) /\ marker' \in Nat
          /\ TeeInv' /\ ReaderInv' /\ StricterWins' /\ BufferInv' /\ ClearInv'
          /\ (n > 0 => marker' # 0 /\ marker' <= n)
          /\ \A m \in Int : marker # 0 /\ marker <= m => marker' # 0 /\ marker' <= m
          /\ (Clean' <=> Clean) /\ (Overrun' <=> Overrun) /\ Got' = Got
          /\ (~Overflowed' => ~Overflowed) /\ (call = 0 => ~Overflowed')
          /\ \A j \in Limiters' : taken + readers'[j].left <= readers'[j].limit
      <3>1. CASE call = 0
        <4>1. /\ readers' \in Seq(Reader) /\ marker' \in Nat
              /\ TeeInv' /\ ReaderInv' /\ StricterWins' /\ BufferInv' /\ ClearInv'
              /\ \A j \in Limiters' : readers'[j].left <= readers'[j].limit
              /\ (n > 0 => marker' # 0 /\ marker' <= n)
              /\ \A m \in Int : marker # 0 /\ marker <= m => marker' # 0 /\ marker' <= m
              /\ (Clean' <=> Clean) /\ (Overrun' <=> Overrun) /\ Got' = Got
              /\ ~Overflowed'
          BY <1>1, <1>4, <1>11, <2>1, <3>1, LimitKeeps DEF Fresh
        <4>2. taken = 0 /\ ~Overflowed
          BY <1>1, <3>1, FreshFacts DEF Fresh
        <4>3. \A j \in Limiters' : readers'[j].left \in Nat
          <5>1. \A j \in Limiters' : readers'[j] \in Reader
            BY <4>1 DEF Limiters
          <5> QED
            BY <5>1, ReaderFacts
        <4>4. \A j \in Limiters' : taken + readers'[j].left <= readers'[j].limit
          BY <4>1, <4>2, <4>3
        <4> QED
          BY <4>1, <4>2, <4>4
      <3>2. CASE call # 0
        <4>1. readers' = readers /\ marker' = marker /\ (n > 0 => marker # 0 /\ marker <= n)
          BY <1>9, <2>1, <3>2
        <4>2. /\ TeeInv' /\ ReaderInv' /\ StricterWins' /\ BufferInv' /\ ClearInv'
              /\ Limiters' = Limiters /\ (Clean' <=> Clean) /\ (Overrun' <=> Overrun)
              /\ (Overflowed' <=> Overflowed) /\ Got' = Got
          BY <1>1, <4>1, Untouched
        <4>3. readers \in Seq(Reader) /\ marker \in Nat
          BY <1>3 DEF TypeOK
        <4>4. \A j \in Limiters : taken + readers[j].left <= readers[j].limit
          BY DEF IInv, LimitInv
        <4> QED
          BY <3>2, <4>1, <4>2, <4>3, <4>4
      <3> QED
        BY <3>1, <3>2
    <2>3. call = 0 => parsed = {}
      BY <1>1, FreshFacts DEF Fresh
    <2>4. call = 0 <=> call' = 1
      BY <1>1, <1>3
    <2>6. Typed'
      <3>1. TypeOK'
        BY <1>1, <1>3, <1>7, <1>8, <2>1, <2>2 DEF TypeOK
      <3> QED
        BY <1>1, <1>3, <3>1 DEF Typed, RequestOK
    <2>7. FreshInv'
      BY <2>1 DEF FreshInv
    <2>9. LimitInv'
      <3>2. \A i \in 1..at' : Heeded(req.chain[i])'
        BY <1>1, <1>6, <2>2 DEF Heeded
      <3>3. Heeded(req.config)'
        BY <1>1, <2>2 DEF Heeded, n
      <3>4. \A j \in Limiters' : taken' + readers'[j].left <= readers'[j].limit
        BY <1>1, <2>2
      <3> QED
        BY <1>8, <3>2, <3>3, <3>4 DEF LimitInv
    <2>10. CleanInv'
      BY <1>1, <1>5, <1>7, <2>1, <2>2, <2>4 DEF IInv, CleanInv
    <2>11. CallInv'
      <3>1. req.op # "BindTwice" => call = 0
        BY <1>1 DEF IInv, CallInv
      <3> QED
        BY <1>1, <1>3, <1>5, <1>7, <1>8, <2>1, <2>3, <2>4, <3>1 DEF CallInv, CallsLimit, Bind
    <2>12. FormInv'
      <3>1. call' <= 1 => call' = 1
        BY <1>8
      <3> QED
        BY <1>1, <1>5, <2>1, <2>3, <2>4, <3>1 DEF FormInv, Bind
    <2>13. ResponseInv'
      BY <1>1, <1>5, <2>1 DEF IInv, ResponseInv, Fits, Length
    <2> QED
      BY <2>2, <2>6, <2>7, <2>9, <2>10, <2>11, <2>12, <2>13 DEF IInv
  <1> QED
    BY <1>10, <1>11

Results == [code : {0, 400, 413, 500}, big : BOOLEAN]

\* A failure is a result, of its status.
LEMMA FailFacts ==
    ASSUME NEW n \in {400, 413, 500}, NEW b, b \in BOOLEAN, result' = [code |-> n, big |-> b]
    PROVE  /\ result' \in Results /\ result'.code = n /\ result'.code # 0 /\ result' # NoError
           /\ result'.big = b
  <1>1. result' \in Results
    BY DEF Results
  <1>2. result'.code = n /\ result'.big = b
    OBVIOUS
  <1>3. NoError.code = 0
    BY DEF NoError
  <1> QED
    BY <1>1, <1>2, <1>3

LEMMA FailsBig ==
    ASSUME NEW n, Fail(n, TRUE), n \in {400, 413, 500}
    PROVE  result' \in Results /\ result'.code = n /\ result' # NoError /\ result'.big = TRUE
  <1> DEFINE b == TRUE
  <1>1. b \in BOOLEAN /\ result' = [code |-> n, big |-> b]
    BY DEF Fail
  <1> HIDE DEF b
  <1>2. result' \in Results /\ result'.code = n /\ result' # NoError /\ result'.big = b
    BY <1>1, FailFacts
  <1> QED
    BY <1>2 DEF b

LEMMA FailsAs ==
    /\ Fail(400, TRUE) => result'.big = TRUE /\ result'.code = 400
    /\ Fail(413, TRUE) => result'.big = TRUE /\ result'.code = 413
    /\ Fail(500, TRUE) => result'.big = TRUE /\ result'.code = 500
  <1> DEFINE b == TRUE
  <1> HIDE DEF b
  <1>1. /\ Fail(400, b) => result'.big = b /\ result'.code = 400
        /\ Fail(413, b) => result'.big = b /\ result'.code = 413
        /\ Fail(500, b) => result'.big = b /\ result'.code = 500
    BY DEF Fail
  <1> QED
    BY <1>1, Zenon DEF b

LEMMA FailsPlain ==
    ASSUME NEW n, Fail(n, FALSE), n \in {400, 413, 500}
    PROVE  result' \in Results /\ result'.code = n /\ result' # NoError /\ result'.big = FALSE
  <1> DEFINE b == FALSE
  <1>1. b \in BOOLEAN /\ result' = [code |-> n, big |-> b]
    BY DEF Fail
  <1> HIDE DEF b
  <1>2. result' \in Results /\ result'.code = n /\ result' # NoError /\ result'.big = b
    BY <1>1, FailFacts
  <1> QED
    BY <1>2 DEF b

LEMMA PlainIsNotBig == (\E n \in {400, 500} : Fail(n, FALSE)) => ~result'.big
  <1> SUFFICES ASSUME NEW n \in {400, 500}, result' = [code |-> n, big |-> FALSE]
               PROVE  ~result'.big
    BY DEF Fail
  <1>1. result'.big = FALSE
    OBVIOUS
  <1> QED
    BY <1>1

LEMMA ParseFormKeeps == IInv /\ ParseForm => IInv'
  <1> SUFFICES ASSUME IInv, ParseForm PROVE IInv'
    OBVIOUS
  <1>1. /\ pc = "form" /\ ended' = ended /\ parsed' = parsed \cup {"form"}
        /\ req' = req /\ at' = at /\ entered' = entered /\ marker' = marker /\ readers' = readers
        /\ left' = left /\ reqBody' = reqBody
        /\ call' = call /\ taken' = taken /\ stray' = stray /\ crashed' = crashed
        /\ status' = status /\ unread' = unread /\ offered' = offered /\ appended' = appended
        /\ respBody' = respBody
    BY DEF ParseForm, outer
  <1>2. \/ /\ ended = "big" /\ Fail(400, TRUE)
           /\ (req.op = "BindTwice" /\ call = 1 /\ pc' = "handler") \/ pc' = "respond"
        \/ ended # "big" /\ pc' = "decode" /\ result' = result
    BY DEF ParseForm, GiveUp
  <1>3. Typed /\ TypeOK /\ RequestOK /\ call \in 0..2 /\ ended \in {"nil", "eof", "big"}
    BY DEF IInv, Typed, TypeOK
  <1>4. status = 0 /\ offered = -1 /\ appended = FALSE /\ crashed = FALSE /\ unread = 0 /\ ~Rejected
    BY <1>1, Unanswered
  <1>5. Bind /\ call >= 1 /\ CallsLimit
    <2>1. Bind /\ call >= 1
      BY <1>1 DEF IInv, CallInv
    <2> QED
      BY <2>1 DEF Bind, CallsLimit
  <1>6. /\ TeeInv' /\ ReaderInv' /\ StricterWins' /\ BufferInv' /\ ClearInv'
        /\ (Clean' <=> Clean) /\ (Overrun' <=> Overrun)
        /\ (Overflowed' <=> Overflowed) /\ Got' = Got
    BY <1>1, Untouched
  <1>7. result \in Results
    BY <1>3 DEF TypeOK, Results
  <1>8. ended = "big" =>
           /\ result' \in Results /\ result'.code = 400 /\ result' # NoError /\ result'.big = TRUE
    <2>1. ended = "big" => Fail(400, TRUE)
      BY <1>2
    <2> QED
      BY <2>1, FailsBig
  <1>9. pc' \in {"handler", "respond", "decode"} /\ (pc' = "handler" => req.op = "BindTwice" /\ call = 1)
    BY <1>2
  <1>10. Typed'
    <2>1. result' \in Results
      BY <1>2, <1>7, <1>8
    <2>2. parsed' \subseteq {"form", "multipart"}
      BY <1>1, <1>3 DEF TypeOK
    <2>3. TypeOK'
      BY <1>1, <1>3, <1>9, <2>1, <2>2 DEF TypeOK, Results
    <2> QED
      BY <1>1, <1>3, <2>3 DEF Typed, RequestOK
  <1>11. FreshInv'
    BY <1>1, <1>5, <1>9 DEF FreshInv
  <1>12. LimitInv'
    BY <1>1, <1>4, LimitsStay
  <1>13. CleanInv'
    <2>1. (Clean /\ ended = "big") => Overrun
      BY DEF IInv, CleanInv
    <2> QED
      BY <1>1, <1>2, <1>4, <1>6, <1>9, <2>1 DEF IInv, CleanInv
  <1>14. CallInv'
    <2>1. /\ result'.code = 413 => result'.big
          /\ result'.code = 0 => result' = NoError
      <3>1. (result.code = 413 => result.big) /\ (result.code = 0 => result = NoError)
        BY DEF IInv, CallInv
      <3>2. CASE ended = "big"
        <4>1. result'.code = 400
          BY <1>8, <3>2
        <4> QED
          BY <4>1
      <3>3. CASE ended # "big"
        BY <1>2, <3>1, <3>3
      <3> QED
        BY <3>2, <3>3
    <2>2. req.op # "BindTwice" => call <= 1 /\ "multipart" \notin parsed
      BY <1>1 DEF IInv, CallInv
    <2> QED
      BY <1>1, <1>4, <1>5, <1>9, <2>1, <2>2 DEF CallInv, CallsLimit, Bind
  <1>15. FormInv'
    <2> SUFFICES ASSUME call <= 1, req.content = "urlencoded"
                 PROVE  /\ pc' = "decode" => "form" \in parsed' /\ call = 1
                        /\ pc' = "respond" => result' # NoError \/ pc' = "decode"
                        /\ Clean => taken = req.size \/ Refusal'
      BY <1>1, <1>4, <1>6, <1>9 DEF FormInv, Bind
    <2>1. call = 1
      BY <1>3, <1>5
    <2>2. CASE ended = "big"
      BY <1>1, <1>2, <1>8, <2>2 DEF Refusal
    <2>3. CASE ended # "big"
      <3>1. ended = "eof"
        BY <1>1, <1>3, <2>1, <2>3 DEF ParseForm, Wants, Closed
      <3>2. Clean => left = 0 /\ ~Overflowed /\ taken + unread = Got
        BY <1>1, <2>1, <2>3, <3>1 DEF IInv, CleanInv
      <3>3. taken \in Nat /\ req.size \in Nat /\ left \in Nat
        BY <1>3, Types
      <3>4. Clean => taken = req.size
        BY <1>4, <3>2, <3>3 DEF Got
      <3> QED
        BY <1>1, <1>2, <2>1, <2>3, <3>4
    <2> QED
      BY <2>2, <2>3
  <1>16. ResponseInv'
    BY <1>1, <1>4, <1>9 DEF IInv, ResponseInv, Fits, Length
  <1> QED
    BY <1>6, <1>10, <1>11, <1>12, <1>13, <1>14, <1>15, <1>16 DEF IInv

LEMMA DecodeKeeps == IInv /\ Decode => IInv'
  <1> SUFFICES ASSUME IInv, Decode PROVE IInv'
    OBVIOUS
  <1>1. /\ pc = "decode"
        /\ req' = req /\ at' = at /\ entered' = entered /\ marker' = marker /\ readers' = readers
        /\ left' = left /\ reqBody' = reqBody
        /\ call' = call /\ taken' = taken /\ stray' = stray /\ ended' = ended /\ crashed' = crashed
        /\ status' = status /\ unread' = unread /\ offered' = offered /\ appended' = appended
        /\ respBody' = respBody
    BY DEF Decode, outer
  <1>2. \/ Complete /\ pc' = "validate" /\ result' = result
        \/ /\ Overflow /\ (Fail(413, TRUE) \/ Fail(500, TRUE))
           /\ (req.op = "BindTwice" /\ call = 1 /\ pc' = "handler") \/ pc' = "respond"
        \/ /\ ~Overflow /\ (Fail(400, FALSE) \/ Fail(500, FALSE))
           /\ (req.op = "BindTwice" /\ call = 1 /\ pc' = "handler") \/ pc' = "respond"
    <2>1. \/ Complete /\ pc' = "validate" /\ result' = result
          \/ Overflow /\ (IF Bind THEN TooLarge ELSE Fail(500, TRUE)) /\ GiveUp
          \/ ~Overflow /\ Fail(IF Bind THEN 400 ELSE 500, FALSE) /\ GiveUp
      BY Zenon DEF Decode
    <2>2. GiveUp => (req.op = "BindTwice" /\ call = 1 /\ pc' = "handler") \/ pc' = "respond"
      BY DEF GiveUp
    <2>3. (IF Bind THEN TooLarge ELSE Fail(500, TRUE)) => Fail(413, TRUE) \/ Fail(500, TRUE)
      BY Zenon DEF TooLarge
    <2>4. Fail(IF Bind THEN 400 ELSE 500, FALSE) => Fail(400, FALSE) \/ Fail(500, FALSE)
      BY Zenon
    <2> QED
      BY <2>1, <2>2, <2>3, <2>4, Zenon
  <1>3. parsed' = parsed \/ (req.content = "multipart" /\ parsed' = parsed \cup {"multipart"})
    <2>1. \/ parsed' = parsed \cup ({"multipart"} \cap {req.content})
          \/ parsed' = parsed
          \/ req.content = "multipart" /\ parsed' = parsed \cup {"multipart"}
      BY DEF Decode
    <2>2. req.content # "multipart" => {"multipart"} \cap {req.content} = {}
      OBVIOUS
    <2>3. req.content = "multipart" => {"multipart"} \cap {req.content} = {"multipart"}
      OBVIOUS
    <2> QED
      BY <2>1, <2>2, <2>3
  <1>4. Typed /\ TypeOK /\ RequestOK /\ call \in 0..2 /\ ended \in {"nil", "eof", "big"}
    BY DEF IInv, Typed, TypeOK
  <1>5. status = 0 /\ offered = -1 /\ appended = FALSE /\ crashed = FALSE /\ unread = 0 /\ ~Rejected
    BY <1>1, Unanswered
  <1>6. CallsLimit /\ call >= 1 /\ (req.op # "BindTwice" => call <= 1 /\ "multipart" \notin parsed)
    BY <1>1 DEF IInv, CallInv
  <1>7. /\ TeeInv' /\ ReaderInv' /\ StricterWins' /\ BufferInv' /\ ClearInv'
        /\ (Clean' <=> Clean) /\ (Overrun' <=> Overrun)
        /\ (Overflowed' <=> Overflowed) /\ Got' = Got
    BY <1>1, Untouched
  <1>8. result \in Results
    BY <1>4 DEF TypeOK, Results
  <1>9. \/ Complete /\ pc' = "validate" /\ result' = result
        \/ /\ Overflow /\ result' \in Results /\ result' # NoError
           /\ result'.code \in {413, 500} /\ result'.big = TRUE
           /\ (req.op = "BindTwice" /\ call = 1 /\ pc' = "handler") \/ pc' = "respond"
        \/ /\ ~Overflow /\ result' \in Results /\ result' # NoError
           /\ result'.code \in {400, 500} /\ result'.big = FALSE
           /\ (req.op = "BindTwice" /\ call = 1 /\ pc' = "handler") \/ pc' = "respond"
    <2>1. CASE Complete /\ pc' = "validate" /\ result' = result
      BY <2>1
    <2>2. CASE Overflow /\ (Fail(413, TRUE) \/ Fail(500, TRUE))
      <3>0. Overflow /\ ((req.op = "BindTwice" /\ call = 1 /\ pc' = "handler") \/ pc' = "respond")
        BY <1>2, <2>2 DEF Overflow
      <3>1. CASE Fail(413, TRUE)
        <4>1. 413 \in {400, 413, 500}
          OBVIOUS
        <4>2. result' \in Results /\ result'.code = 413 /\ result' # NoError /\ result'.big = TRUE
          BY <3>1, <4>1, FailsBig
        <4> QED
          BY <3>0, <4>2
      <3>2. CASE Fail(500, TRUE)
        <4>1. 500 \in {400, 413, 500}
          OBVIOUS
        <4>2. result' \in Results /\ result'.code = 500 /\ result' # NoError /\ result'.big = TRUE
          BY <3>2, <4>1, FailsBig
        <4> QED
          BY <3>0, <4>2
      <3> QED
        BY <2>2, <3>1, <3>2
    <2>3. CASE /\ ~Overflow /\ (Fail(400, FALSE) \/ Fail(500, FALSE))
               /\ (req.op = "BindTwice" /\ call = 1 /\ pc' = "handler") \/ pc' = "respond"
      <3>0. ~Overflow /\ ((req.op = "BindTwice" /\ call = 1 /\ pc' = "handler") \/ pc' = "respond")
        BY <2>3
      <3>1. CASE Fail(400, FALSE)
        <4>1. 400 \in {400, 413, 500}
          OBVIOUS
        <4>2. result' \in Results /\ result'.code = 400 /\ result' # NoError /\ result'.big = FALSE
          BY <3>1, <4>1, FailsPlain
        <4> QED
          BY <3>0, <4>2
      <3>2. CASE Fail(500, FALSE)
        <4>1. 500 \in {400, 413, 500}
          OBVIOUS
        <4>2. result' \in Results /\ result'.code = 500 /\ result' # NoError /\ result'.big = FALSE
          BY <3>2, <4>1, FailsPlain
        <4> QED
          BY <3>0, <4>2
      <3> QED
        BY <2>3, <3>1, <3>2
    <2> QED
      BY <1>2, <2>1, <2>2, <2>3
  <1>10. pc' \in {"validate", "handler", "respond"} /\ (pc' = "handler" => req.op = "BindTwice" /\ call = 1)
    BY <1>2
  <1>11. Typed'
    <2>1. result' \in Results
      BY <1>8, <1>9
    <2>2. parsed' \subseteq {"form", "multipart"}
      <3>1. parsed \subseteq {"form", "multipart"}
        BY <1>4 DEF TypeOK
      <3> QED
        BY <1>3, <3>1
    <2>3. TypeOK'
      BY <1>1, <1>4, <1>10, <2>1, <2>2 DEF TypeOK, Results
    <2> QED
      BY <1>1, <1>4, <2>3 DEF Typed, RequestOK
  <1>12. FreshInv'
    BY <1>1, <1>6, <1>10 DEF FreshInv
  <1>13. LimitInv'
    BY <1>1, <1>5, LimitsStay
  <1>14. CleanInv'
    <2>1. (Clean /\ ended = "big") => Overrun
      BY DEF IInv, CleanInv
    <2>2. Clean => (result'.big => Overrun)
      BY <1>9, <2>1 DEF IInv, CleanInv, Overflow
    <2> QED
      BY <1>1, <1>5, <1>7, <1>10, <2>2 DEF IInv, CleanInv
  <1>15. CallInv'
    <2>1. /\ result'.code = 413 => result'.big
          /\ result'.code = 0 => result' = NoError
      <3>1. (result.code = 413 => result.big) /\ (result.code = 0 => result = NoError)
        BY DEF IInv, CallInv
      <3> QED
        BY <1>9, <3>1
    <2> QED
      BY <1>1, <1>5, <1>6, <1>10, <2>1 DEF CallInv, CallsLimit, Bind
  <1>16. FormInv'
    <2> SUFFICES ASSUME Bind, call <= 1, req.content = "urlencoded"
                 PROVE  /\ "form" \in parsed' /\ call = 1
                        /\ Clean => taken = req.size
                        /\ pc' = "validate" \/ result' # NoError
      BY <1>1, <1>5, <1>7, <1>10 DEF FormInv, Bind
    <2>1. "form" \in parsed /\ call = 1 /\ (Clean => taken = req.size \/ Refusal)
      BY <1>1 DEF IInv, FormInv
    <2>2. ~Refusal
      BY <1>1 DEF Refusal
    <2> QED
      BY <1>3, <1>9, <2>1, <2>2
  <1>17. ResponseInv'
    BY <1>1, <1>5, <1>10 DEF IInv, ResponseInv, Fits, Length
  <1> QED
    BY <1>7, <1>11, <1>12, <1>13, <1>14, <1>15, <1>16, <1>17 DEF IInv

LEMMA ValidateKeeps == IInv /\ Validate => IInv'
  <1> SUFFICES ASSUME IInv, Validate PROVE IInv'
    OBVIOUS
  <1>1. /\ pc = "validate"
        /\ req' = req /\ at' = at /\ entered' = entered /\ marker' = marker /\ readers' = readers
        /\ left' = left /\ reqBody' = reqBody
        /\ call' = call /\ taken' = taken /\ stray' = stray /\ ended' = ended /\ crashed' = crashed
        /\ parsed' = parsed
        /\ status' = status /\ unread' = unread /\ offered' = offered /\ appended' = appended
        /\ respBody' = respBody
    BY DEF Validate, outer
  <1>2. \/ pc' = "respond" /\ result' = result
        \/ /\ Bind /\ (Fail(400, FALSE) \/ Fail(500, FALSE))
           /\ (req.op = "BindTwice" /\ call = 1 /\ pc' = "handler") \/ pc' = "respond"
    <2>1. \/ pc' = "respond" /\ result' = result
          \/ Bind /\ GiveUp /\ \E c \in {400, 500} : Fail(c, FALSE)
      BY DEF Validate
    <2>2. GiveUp => (req.op = "BindTwice" /\ call = 1 /\ pc' = "handler") \/ pc' = "respond"
      BY DEF GiveUp
    <2>3. (\E c \in {400, 500} : Fail(c, FALSE)) => Fail(400, FALSE) \/ Fail(500, FALSE)
      BY DEF Fail
    <2> QED
      BY <2>1, <2>2, <2>3
  <1>3. Typed /\ TypeOK /\ RequestOK
    BY DEF IInv, Typed
  <1>4. status = 0 /\ offered = -1 /\ appended = FALSE /\ crashed = FALSE /\ unread = 0 /\ ~Rejected
    BY <1>1, Unanswered
  <1>5. /\ TeeInv' /\ ReaderInv' /\ StricterWins' /\ BufferInv' /\ ClearInv'
        /\ (Clean' <=> Clean) /\ (Overrun' <=> Overrun)
        /\ (Overflowed' <=> Overflowed) /\ Got' = Got
    BY <1>1, Untouched
  <1>6. \/ pc' = "respond" /\ result' = result
        \/ /\ Bind /\ result' \in Results /\ result' # NoError
           /\ result'.code \in {400, 500} /\ result'.big = FALSE
           /\ (req.op = "BindTwice" /\ call = 1 /\ pc' = "handler") \/ pc' = "respond"
    <2>1. CASE pc' = "respond" /\ result' = result
      BY <2>1
    <2>2. CASE Bind /\ (Fail(400, FALSE) \/ Fail(500, FALSE))
      <3>0. Bind /\ ((req.op = "BindTwice" /\ call = 1 /\ pc' = "handler") \/ pc' = "respond")
        BY <1>2, <2>2
      <3>1. CASE Fail(400, FALSE)
        <4>1. 400 \in {400, 413, 500}
          OBVIOUS
        <4>2. result' \in Results /\ result'.code = 400 /\ result' # NoError /\ result'.big = FALSE
          BY <3>1, <4>1, FailsPlain
        <4> QED
          BY <3>0, <4>2
      <3>2. CASE Fail(500, FALSE)
        <4>1. 500 \in {400, 413, 500}
          OBVIOUS
        <4>2. result' \in Results /\ result'.code = 500 /\ result' # NoError /\ result'.big = FALSE
          BY <3>2, <4>1, FailsPlain
        <4> QED
          BY <3>0, <4>2
      <3> QED
        BY <2>2, <3>1, <3>2
    <2> QED
      BY <1>2, <2>1, <2>2
  <1>7. pc' \in {"handler", "respond"} /\ (pc' = "handler" => Bind /\ req.op = "BindTwice" /\ call = 1)
    BY <1>2
  <1>8. /\ result'.code = 413 => result'.big
        /\ result'.code = 0 => result' = NoError
        /\ result' \in Results
    <2>1. (result.code = 413 => result.big) /\ (result.code = 0 => result = NoError)
      BY DEF IInv, CallInv
    <2>2. result \in Results
      BY <1>3 DEF TypeOK, Results
    <2>3. CASE result' = result
      BY <2>1, <2>2, <2>3
    <2>4. CASE result' \in Results /\ result'.code \in {400, 500}
      BY <2>4
    <2> QED
      BY <1>6, <2>3, <2>4
  <1>9. Typed'
    <2>1. TypeOK'
      BY <1>1, <1>3, <1>7, <1>8 DEF TypeOK, Results
    <2> QED
      BY <1>1, <1>3, <2>1 DEF Typed, RequestOK
  <1>10. FreshInv'
    BY <1>1, <1>7 DEF FreshInv
  <1>11. LimitInv'
    BY <1>1, <1>4, LimitsStay
  <1>12. CleanInv'
    <2>1. Clean => (result'.big => Overrun)
      BY <1>6 DEF IInv, CleanInv
    <2> QED
      BY <1>1, <1>4, <1>5, <1>7, <2>1 DEF IInv, CleanInv
  <1>13. CallInv'
    <2>1. req.op # "BindTwice" => call <= 1
      BY DEF IInv, CallInv
    <2> QED
      BY <1>1, <1>4, <1>7, <1>8, <2>1 DEF CallInv, CallsLimit, Bind
  <1>14. FormInv'
    <2> SUFFICES ASSUME Bind, call <= 1, req.content = "urlencoded"
                 PROVE  /\ "form" \in parsed /\ call = 1
                        /\ Clean => taken = req.size
      BY <1>1, <1>4, <1>5, <1>7 DEF FormInv, Bind
    <2>1. "form" \in parsed /\ call = 1 /\ (Clean => taken = req.size \/ Refusal)
      BY <1>1 DEF IInv, FormInv
    <2>2. ~Refusal
      BY <1>1 DEF Refusal
    <2> QED
      BY <2>1, <2>2
  <1>15. ResponseInv'
    BY <1>1, <1>4, <1>7 DEF IInv, ResponseInv, Fits, Length
  <1> QED
    BY <1>5, <1>9, <1>10, <1>11, <1>12, <1>13, <1>14, <1>15 DEF IInv

LEMMA ReadDoneKeeps == IInv /\ ReadDone => IInv'
  <1> SUFFICES ASSUME IInv, ReadDone PROVE IInv'
    OBVIOUS
  <1>1. /\ pc = "read" /\ pc' = "respond"
        /\ req' = req /\ at' = at /\ entered' = entered /\ marker' = marker /\ readers' = readers
        /\ left' = left /\ reqBody' = reqBody
        /\ call' = call /\ taken' = taken /\ stray' = stray /\ ended' = ended /\ crashed' = crashed
        /\ parsed' = parsed
        /\ status' = status /\ unread' = unread /\ offered' = offered /\ appended' = appended
        /\ respBody' = respBody
    BY DEF ReadDone, outer
  <1>2. \/ ended = "big" /\ Fail(500, TRUE)
        \/ ended # "big" /\ result' = result
    BY DEF ReadDone
  <1>3. Typed /\ TypeOK /\ RequestOK
    BY DEF IInv, Typed
  <1>4. status = 0 /\ offered = -1 /\ appended = FALSE /\ crashed = FALSE /\ unread = 0 /\ ~Rejected
    BY <1>1, Unanswered
  <1>5. /\ TeeInv' /\ ReaderInv' /\ StricterWins' /\ BufferInv' /\ ClearInv'
        /\ (Clean' <=> Clean) /\ (Overrun' <=> Overrun)
        /\ (Overflowed' <=> Overflowed) /\ Got' = Got
    BY <1>1, Untouched
  <1>6. ended = "big" =>
           /\ result' \in Results /\ result'.code = 500 /\ result' # NoError /\ result'.big = TRUE
    <2>1. ended = "big" => Fail(500, TRUE)
      BY <1>2
    <2> QED
      BY <2>1, FailsBig
  <1>7. req.op = "Read" /\ ~CallsLimit /\ ~Bind
    <2>1. req.op = "Read"
      BY <1>1 DEF IInv, CallInv
    <2> QED
      BY <2>1 DEF CallsLimit, Bind
  <1>8. /\ result'.code = 413 => result'.big
        /\ result'.code = 0 => result' = NoError
        /\ result' \in Results
    <2>1. (result.code = 413 => result.big) /\ (result.code = 0 => result = NoError)
      BY DEF IInv, CallInv
    <2>2. result \in Results
      BY <1>3 DEF TypeOK, Results
    <2>3. CASE result' = result
      BY <2>1, <2>2, <2>3
    <2>4. CASE result' \in Results /\ result'.code = 500
      BY <2>4
    <2> QED
      BY <1>2, <1>6, <2>3, <2>4
  <1>9. Typed'
    <2>1. TypeOK'
      BY <1>1, <1>3, <1>8 DEF TypeOK, Results
    <2> QED
      BY <1>1, <1>3, <2>1 DEF Typed, RequestOK
  <1>10. FreshInv'
    BY <1>1 DEF FreshInv
  <1>11. LimitInv'
    BY <1>1, <1>4, LimitsStay
  <1>12. CleanInv'
    <2>1. Clean => (result'.big => Overrun)
      BY <1>2 DEF IInv, CleanInv
    <2> QED
      BY <1>1, <1>4, <1>5, <2>1 DEF IInv, CleanInv
  <1>13. CallInv'
    <2>1. req.op # "BindTwice" => call <= 1
      BY DEF IInv, CallInv
    <2> QED
      BY <1>1, <1>4, <1>6, <1>8, <2>1 DEF CallInv
  <1>14. FormInv'
    BY <1>1, <1>7 DEF FormInv, Bind
  <1>15. ResponseInv'
    BY <1>1, <1>4 DEF IInv, ResponseInv, Fits, Length
  <1> QED
    BY <1>5, <1>9, <1>10, <1>11, <1>12, <1>13, <1>14, <1>15 DEF IInv

LEMMA RespondKeeps == IInv /\ Respond => IInv'
  <1> SUFFICES ASSUME IInv, Respond PROVE IInv'
    OBVIOUS
  <1>1. /\ pc = "respond" /\ pc' = "answer"
        /\ status' = IF result = NoError THEN 200 ELSE ErrorStatus
        /\ req' = req /\ at' = at /\ entered' = entered /\ marker' = marker /\ readers' = readers
        /\ left' = left /\ reqBody' = reqBody
        /\ call' = call /\ taken' = taken /\ stray' = stray /\ ended' = ended /\ crashed' = crashed
        /\ parsed' = parsed /\ result' = result
        /\ unread' = unread /\ offered' = offered /\ appended' = appended /\ respBody' = respBody
    BY DEF Respond, Send, inner
  <1>2. Typed /\ TypeOK /\ RequestOK /\ result.code \in {0, 400, 413, 500}
    BY DEF IInv, Typed, TypeOK
  <1>3. status = 0 /\ offered = -1 /\ appended = FALSE /\ crashed = FALSE /\ unread = 0
    BY <1>1, Unanswered
  <1>4. /\ TeeInv' /\ ReaderInv' /\ StricterWins' /\ BufferInv' /\ ClearInv'
        /\ Limiters' = Limiters /\ (Clean' <=> Clean) /\ (Overrun' <=> Overrun)
        /\ (Overflowed' <=> Overflowed) /\ Got' = Got
    BY <1>1, Untouched
  <1>5. (result.code = 413 => result.big) /\ (result.code = 0 => result = NoError)
        /\ NoError.code = 0 /\ ~NoError.big
    BY DEF IInv, CallInv, NoError
  <1>6. /\ result = NoError => status' = 200
        /\ result # NoError => \/ req.resolver /\ result.big /\ status' = 413
                               \/ ~(req.resolver /\ result.big) /\ status' = result.code
    BY <1>1 DEF ErrorStatus
  <1>7. status' \in {200, 400, 413, 500} /\ (status' = 200 <=> result = NoError)
    <2>1. CASE result = NoError
      BY <1>6, <2>1
    <2>2. CASE result # NoError
      <3>1. result.code \in {400, 413, 500}
        BY <1>2, <1>5, <2>2
      <3> QED
        BY <1>6, <2>2, <3>1
    <2> QED
      BY <2>1, <2>2
  <1>8. result.code = 413 => status' = 413
    <2> SUFFICES ASSUME result.code = 413 PROVE status' = 413
      OBVIOUS
    <2>1. result # NoError
      BY <1>5
    <2> QED
      BY <1>6, <2>1
  <1>9. status' = 413 => result.big
    <2> SUFFICES ASSUME status' = 413 PROVE result.big
      OBVIOUS
    <2>1. result # NoError
      BY <1>6
    <2> QED
      BY <1>5, <1>6, <2>1
  <1>10. Typed'
    <2>1. TypeOK'
      BY <1>1, <1>2, <1>7 DEF TypeOK
    <2> QED
      BY <1>1, <1>2, <2>1 DEF Typed, RequestOK
  <1>11. FreshInv'
    BY <1>1 DEF FreshInv
  <1>12. LimitInv'
    <2>1. Rejected => Rejected'
      BY <1>1, <1>3, <1>4, <1>8 DEF Rejected
    <2> QED
      BY <1>1, <2>1, LimitsStay
  <1>13. CleanInv'
    <2>1. Clean => (result.big \/ status' = 413 => Overrun)
      BY <1>9 DEF IInv, CleanInv
    <2> QED
      BY <1>1, <1>3, <1>4, <2>1 DEF IInv, CleanInv
  <1>14. CallInv'
    <2>1. req.op # "BindTwice" => call <= 1
      BY DEF IInv, CallInv
    <2> QED
      BY <1>1, <1>3, <1>5, <2>1 DEF CallInv
  <1>15. FormInv'
    <2> SUFFICES ASSUME Bind, call <= 1, req.content = "urlencoded"
                 PROVE  /\ status' = 200 => "form" \in parsed /\ call = 1
                        /\ ("form" \in parsed /\ Clean) => taken = req.size \/ status' # 200
      BY <1>1, <1>4 DEF FormInv, Bind, Refusal
    <2>1. /\ result = NoError => "form" \in parsed /\ call = 1
          /\ ("form" \in parsed /\ Clean) => taken = req.size \/ Refusal
      BY <1>1 DEF IInv, FormInv
    <2>2. Refusal => result # NoError
      BY <1>1 DEF Refusal
    <2> QED
      BY <1>7, <2>1, <2>2
  <1>16. ResponseInv'
    <2>1. status' # 0
      BY <1>7
    <2> QED
      BY <1>1, <1>3, <2>1 DEF IInv, ResponseInv, Fits, Length
  <1> QED
    BY <1>4, <1>10, <1>11, <1>12, <1>13, <1>14, <1>15, <1>16 DEF IInv

\* A write to an empty buffer: what is kept of it and the mark are less than the
\* size and the mark, and what fits is not cut.
LEMMA FirstWrite ==
    ASSUME NEW max \in Int, NEW n \in Nat
    PROVE  LET w == Write(Reset(max), max, n)
           IN  /\ w.buf \in Buffer
               /\ max > 0 => Length(w.buf) < max + TruncSize
               /\ max <= 0 \/ n <= max => w.eof = FALSE
  <1> DEFINE b == Reset(max)
             w == Write(b, max, n)
  <1>1. b = [kept |-> 0, cut |-> FALSE, remaining |-> max] /\ b.remaining = max /\ b.kept = 0
        /\ b.cut = FALSE /\ TruncSize \in Nat /\ TruncSize > 0
    BY TruncSizeAssumption DEF Reset
  <1> HIDE DEF b
  <1>2. CASE max > 0 /\ max < n
    <2> DEFINE m == Max({0, max - TruncSize})
    <2>1. m = IF 0 >= max - TruncSize THEN 0 ELSE max - TruncSize
      <3> DEFINE d == max - TruncSize
      <3>1. d \in Int /\ 0 \in Int
        BY <1>1
      <3> HIDE DEF d
      <3>2. Max({0, d}) = IF 0 >= d THEN 0 ELSE d
        BY <3>1, TwoNumbers
      <3> QED
        BY <3>2 DEF d
    <2>2. w = Cut(b, b.kept + m, n)
      BY <1>1, <1>2 DEF Write
    <2> HIDE DEF m
    <2>3. m \in Nat /\ m < max
      BY <1>1, <1>2, <2>1
    <2> DEFINE k == b.kept + m
    <2>4. k = m
      BY <1>1, <2>3
    <2> HIDE DEF k
    <2>5. w.buf = [kept |-> k, cut |-> TRUE, remaining |-> 0]
      BY <2>2 DEF Cut, k
    <2>6. w.buf.kept = m /\ w.buf.cut = TRUE /\ w.buf \in Buffer
      BY <2>3, <2>4, <2>5 DEF Buffer
    <2> HIDE DEF w
    <2>7. Length(w.buf) = m + TruncSize
      BY <2>6 DEF Length
    <2> QED
      BY <1>1, <1>2, <2>3, <2>6, <2>7 DEF w, b
  <1>3. CASE ~(max > 0 /\ max < n)
    <2>1. w = Kept(b, n) \/ (w = [buf |-> b, n |-> n, eof |-> FALSE] /\ max > 0 /\ max <= 0)
      BY <1>1, <1>3 DEF Write
    <2>2. w = Kept(b, n)
      BY <2>1
    <2> DEFINE k == b.kept + n
               d == b.remaining - n
    <2>3. k = n /\ d \in Int
      BY <1>1
    <2>4. w.buf = [b EXCEPT !.kept = k, !.remaining = d] /\ w.eof = FALSE
      BY <2>2 DEF Kept
    <2> HIDE DEF k, d, w
    <2>5. w.buf.kept = n /\ w.buf.cut = FALSE /\ w.buf = [kept |-> k, cut |-> FALSE, remaining |-> d]
      BY <1>1, <2>3, <2>4
    <2>6. w.buf \in Buffer
      BY <2>3, <2>5 DEF Buffer
    <2>7. Length(w.buf) = n + 0
      BY <2>5 DEF Length
    <2> QED
      BY <1>1, <1>3, <2>4, <2>6, <2>7 DEF w, b
  <1> QED
    BY <1>2, <1>3

LEMMA WriteBodyKeeps == IInv /\ WriteBody => IInv'
  <1> SUFFICES ASSUME IInv, WriteBody PROVE IInv'
    OBVIOUS
  <1> DEFINE max == req.maxBodySize
  <1>1. /\ pc = "answer" /\ pc' = (IF entered THEN "drain" ELSE "done")
        /\ req' = req /\ at' = at /\ entered' = entered /\ marker' = marker /\ readers' = readers
        /\ left' = left /\ reqBody' = reqBody
        /\ call' = call /\ taken' = taken /\ stray' = stray /\ ended' = ended /\ crashed' = crashed
        /\ parsed' = parsed /\ result' = result
        /\ status' = status /\ unread' = unread
    BY DEF WriteBody, Return, inner
  <1>2. Typed /\ TypeOK /\ RequestOK /\ max \in Int
    BY Types DEF IInv, Typed
  <1>3. /\ TeeInv' /\ ReaderInv' /\ StricterWins' /\ BufferInv' /\ ClearInv'
        /\ Limiters' = Limiters /\ (Clean' <=> Clean) /\ (Overrun' <=> Overrun)
        /\ (Overflowed' <=> Overflowed) /\ Got' = Got
    BY <1>1, Untouched
  <1>4. /\ offered = -1 /\ ~appended /\ unread = 0 /\ status # 0 /\ ~crashed
        /\ entered => respBody = Reset(max)
    <2>1. offered = -1 /\ ~appended /\ status # 0
      BY <1>1 DEF IInv, ResponseInv
    <2>2. entered => respBody = Reset(max)
      BY <2>1 DEF IInv, ResponseInv
    <2>3. unread = 0 /\ ~crashed
      BY <1>1 DEF IInv, CallInv
    <2> QED
      BY <2>1, <2>2, <2>3
  <1>5. /\ respBody' \in Buffer /\ offered' \in Responses \cup {-1} /\ appended' \in BOOLEAN
        /\ entered => offered' # -1 /\ (max > 0 => Length(respBody') < max + TruncSize)
        /\ (max <= 0 \/ offered' <= max) => ~appended'
    <2>1. CASE ~entered
      <3>1. offered' = offered /\ respBody' = respBody /\ appended' = appended
        BY <2>1 DEF WriteBody
      <3>2. respBody \in Buffer /\ appended \in BOOLEAN
        BY <1>2 DEF TypeOK
      <3>3. respBody' \in Buffer /\ appended' \in BOOLEAN /\ ~appended' /\ offered' = -1
        BY <1>4, <3>1, <3>2
      <3> QED
        BY <2>1, <3>3
    <2>2. CASE entered
      <3>1. PICK b \in Responses :
               LET w == Write(respBody, max, b)
               IN  offered' = b /\ respBody' = w.buf /\ appended' = (Direct /\ req.json /\ w.eof)
        BY <2>2 DEF WriteBody
      <3> DEFINE w == Write(respBody, max, b)
      <3>2. offered' = b /\ respBody' = w.buf /\ appended' = (Direct /\ req.json /\ w.eof)
        BY <3>1
      <3>3. b \in Nat
        BY LimitsAssumption
      <3>4. /\ w.buf \in Buffer /\ (max > 0 => Length(w.buf) < max + TruncSize)
            /\ (max <= 0 \/ b <= max => w.eof = FALSE)
        BY <1>2, <1>4, <2>2, <3>3, FirstWrite
      <3> HIDE DEF w
      <3>5. respBody' \in Buffer /\ offered' \in Responses /\ offered' # -1
        BY <3>2, <3>3, <3>4
      <3>6. appended' \in BOOLEAN /\ (w.eof = FALSE => ~appended')
        BY <3>2, Zenon
      <3>7. max > 0 => Length(respBody') < max + TruncSize
        BY <3>2, <3>4
      <3>8. (max <= 0 \/ offered' <= max) => w.eof = FALSE
        BY <3>2, <3>4
      <3> QED
        BY <3>5, <3>6, <3>7, <3>8, Zenon
    <2> QED
      BY <2>1, <2>2
  <1>6. pc' \in {"drain", "done"} /\ (pc' = "drain" => entered) /\ (pc' = "done" => ~entered)
    BY <1>1
  <1>7. Typed'
    <2>1. TypeOK'
      BY <1>1, <1>2, <1>5, <1>6 DEF TypeOK
    <2> QED
      BY <1>1, <1>2, <2>1 DEF Typed, RequestOK
  <1>8. FreshInv'
    BY <1>6 DEF FreshInv
  <1>9. LimitInv'
    <2>1. Rejected => Rejected'
      BY <1>1, <1>3 DEF Rejected
    <2> QED
      BY <1>1, <2>1, LimitsStay
  <1>10. CleanInv'
    BY <1>1, <1>3, <1>4, <1>6 DEF IInv, CleanInv
  <1>11. CallInv'
    <2>1. (result.code = 413 => result.big) /\ (result.code = 0 => result = NoError)
      BY DEF IInv, CallInv
    <2>2. req.op # "BindTwice" => call <= 1
      BY DEF IInv, CallInv
    <2> QED
      BY <1>1, <1>4, <1>6, <2>1, <2>2 DEF CallInv
  <1>12. FormInv'
    BY <1>1, <1>3, <1>4, <1>6 DEF IInv, FormInv, Bind, Refusal
  <1>13. ResponseInv'
    BY <1>1, <1>4, <1>5, <1>6 DEF ResponseInv, Fits
  <1> QED
    BY <1>3, <1>7, <1>8, <1>9, <1>10, <1>11, <1>12, <1>13 DEF IInv

\* What a read gives to its caller.
LEMMA Given ==
    ASSUME IInv, NEW k \in 0..Len(readers), NEW c, Conn(c, k), NEW a, Passes(a, c, k)
    PROVE  /\ a.n \in Nat /\ a.body \in Nat /\ a.err \in {"nil", "eof", "big"}
           /\ a.body <= a.n /\ a.body <= c.n /\ c.n \in Nat /\ c.n <= left
  BY DEF Passes, Chained, Answers, Conn

\* What has been read stays within the limits.
LEMMA ReadLimits ==
    ASSUME IInv, NEW k \in 0..Len(readers), NEW c, Conn(c, k), NEW a, Passes(a, c, k), Reads(a, c, k),
           UNCHANGED <<at, call>>,
           taken' = taken \/ (k = Len(readers) /\ taken' = taken + a.body),
           Rejected => Rejected', call # 0 \/ ~CallsLimit \/ Rejected
    PROVE  LimitInv' /\ taken' + left' <= req.size /\ taken' \in Nat
  <1>1. /\ readers \in Seq(Reader) /\ DOMAIN readers = 1..Len(readers) /\ Len(readers) \in Nat
        /\ \A j \in DOMAIN readers : readers[j] \in Reader
        /\ left \in Nat /\ taken \in Nat /\ taken + left <= req.size /\ req.size \in Nat
    BY Types DEF IInv
  <1>2. /\ readers' = a.readers /\ left' = left - c.n /\ req' = req /\ marker' = marker
        /\ at' = at /\ call' = call
    BY DEF Reads
  <1>3. /\ readers' \in Seq(Reader) /\ DOMAIN readers' = DOMAIN readers /\ Limiters' = Limiters
        /\ \A j \in DOMAIN readers : /\ readers'[j].limit = readers[j].limit
                                     /\ readers'[j].left <= readers[j].left
    BY SameReaders DEF IInv, Passes
  <1>4. a.body \in Nat /\ a.body <= c.n /\ c.n \in Nat /\ c.n <= left
    BY Given
  <1>5. \A i \in 1..at' : Heeded(req.chain[i])'
    <2> SUFFICES ASSUME NEW i \in 1..at PROVE Heeded(req.chain[i])'
      BY <1>2
    <2> DEFINE n == req.chain[i]
    <2>1. Heeded(n)
      BY DEF IInv, LimitInv
    <2>2. req'.chain[i] = n
      BY <1>2
    <2> HIDE DEF n
    <2>3. n > 0 => (marker # 0 /\ marker <= n) \/ (Rejected' /\ req.declared > n)
      BY <2>1 DEF Heeded
    <2> QED
      BY <1>2, <2>2, <2>3 DEF Heeded
  <1>6. call' # 0 => Heeded(req.config)'
    <2> SUFFICES ASSUME call # 0 PROVE Heeded(req.config)'
      BY <1>2
    <2>1. Heeded(req.config)
      BY DEF IInv, LimitInv
    <2> QED
      BY <1>2, <2>1 DEF Heeded
  <1>7. call' = 0 => (CallsLimit' => Rejected')
    BY <1>2 DEF CallsLimit
  <1>8. ASSUME NEW j \in Limiters PROVE taken' + readers'[j].left <= readers'[j].limit
    <2>1. j \in DOMAIN readers /\ ~readers[j].tee
      BY DEF Limiters
    <2>2. readers'[j] \in Reader /\ readers[j] \in Reader
      <3>1. \A i \in DOMAIN readers' : readers'[i] \in Reader
        BY <1>3
      <3> QED
        BY <1>1, <1>3, <2>1, <3>1
    <2>3. readers'[j].left \in Nat /\ readers[j].left \in Nat /\ readers[j].limit \in Nat
      BY <2>2, ReaderFacts
    <2>4. taken + readers[j].left <= readers[j].limit
      BY DEF IInv, LimitInv
    <2>5. readers'[j].left <= readers[j].left /\ readers'[j].limit = readers[j].limit
      BY <1>3, <2>1
    <2>6. CASE taken' = taken
      <3> DEFINE l == readers[j].left
                 m == readers'[j].left
                 n == readers[j].limit
      <3>1. /\ l \in Nat /\ m \in Nat /\ n \in Nat /\ taken \in Nat
            /\ m <= l /\ taken + l <= n /\ readers'[j].limit = n
        BY <1>1, <2>3, <2>4, <2>5
      <3> HIDE DEF l, m, n
      <3>2. taken' + m <= readers'[j].limit
        BY <2>6, <3>1
      <3> QED
        BY <3>2 DEF m
    <2>7. CASE k = Len(readers) /\ taken' = taken + a.body
      <3>1. j <= k
        BY <1>1, <2>1, <2>7
      <3>2. a.body + readers'[j].left <= readers[j].left
        BY <1>2, <2>1, <3>1 DEF Passes, Chained
      <3>3. taken' = taken + a.body
        BY <2>7
      <3> DEFINE l == readers[j].left
                 m == readers'[j].left
                 n == readers[j].limit
      <3>4. /\ l \in Nat /\ m \in Nat /\ n \in Nat /\ taken \in Nat /\ a.body \in Nat
            /\ a.body + m <= l /\ taken + l <= n /\ readers'[j].limit = n
        BY <1>1, <1>4, <2>3, <2>4, <2>5, <3>2
      <3> HIDE DEF l, m, n
      <3>5. taken + a.body + m <= n
        BY <3>4
      <3> QED
        BY <3>3, <3>4, <3>5 DEF l, m, n
    <2> QED
      BY <2>6, <2>7
  <1>9. taken' \in Nat /\ taken' + left' <= req.size
    <2>1. left' = left - c.n /\ (taken' = taken \/ taken' = taken + a.body)
      BY <1>2
    <2>2. /\ left \in Nat /\ taken \in Nat /\ taken + left <= req.size /\ req.size \in Nat
          /\ a.body \in Nat /\ a.body <= c.n /\ c.n \in Nat /\ c.n <= left
      BY <1>1, <1>4
    <2>3. CASE taken' = taken
      BY <2>1, <2>2, <2>3
    <2>4. CASE taken' = taken + a.body
      <3>1. left' = left - c.n
        BY <2>1
      <3>2. taken + a.body \in Nat /\ (taken + a.body) + (left - c.n) <= req.size
        BY <2>2
      <3> QED
        BY <2>4, <3>1, <3>2
    <2> QED
      BY <2>1, <2>3, <2>4
  <1>10. LimitInv'
    BY <1>3, <1>5, <1>6, <1>7, <1>8 DEF LimitInv
  <1> QED
    BY <1>9, <1>10

\* A read by the handler, or by its encoder.
LEMMA HandlerReads ==
    ASSUME IInv, NEW room \in Rooms, NEW c \in FromConn(Len(readers), room), NEW a,
           a = Answer(c, Len(readers)), left' = left - c.n, readers' = a.readers, reqBody' = a.buf,
           UNCHANGED <<req, entered, marker>>
    PROVE  LET k == Len(readers)
           IN  /\ k \in 0..Len(readers) /\ Conn(c, k) /\ Passes(a, c, k) /\ Reads(a, c, k)
               /\ (Clean' => a.n <= room) /\ room \in Nat
  <1> DEFINE k == Len(readers)
  <1>1. k \in Nat /\ k \in 0..Len(readers) /\ DOMAIN readers = 1..k
    BY Types DEF IInv
  <1>2. room \in Nat \ {0}
    BY LimitsAssumption
  <1>3. Conn(c, k) /\ c.n <= room
    BY <1>1, <1>2, ConnFacts
  <1>4. Passes(a, c, k)
    BY <1>1, <1>3, AnswerPasses
  <1>5. Reads(a, c, k)
    <2>1. entered => ~Outside(k)
      BY <1>1 DEF IInv, TeeInv, Outside
    <2> QED
      BY <2>1 DEF Reads
  <1>6. Clean' => a.n <= room
    <2>1. Clean' => a.n \in Nat /\ a.n <= c.n
      BY <1>1, <1>3, <1>4, <1>5, ReadClear
    <2>2. c.n \in Nat
      BY <1>3 DEF Conn
    <2> QED
      BY <1>2, <1>3, <2>1, <2>2
  <1> QED
    BY <1>1, <1>2, <1>3, <1>4, <1>5, <1>6

LEMMA ReadStep == IInv /\ Read => IInv'
  <1> SUFFICES ASSUME IInv, Read PROVE IInv'
    OBVIOUS
  <1>1. /\ req' = req /\ at' = at /\ entered' = entered /\ marker' = marker /\ call' = call
        /\ parsed' = parsed /\ result' = result
    BY DEF Read
  <1>2. /\ ended = "nil" /\ pc \in {"form", "decode", "read"}
        /\ pc = "decode" => req.content \in {"json", "multipart"}
    BY DEF Read, Wants
  <1>0. PICK room \in Rooms : \E c \in FromConn(Len(readers), room) :
          LET a == Answer(c, Len(readers))
          IN  /\ left' = left - c.n /\ readers' = a.readers /\ reqBody' = a.buf
              /\ crashed' = (a.n > room)
              /\ IF a.n > room
                   THEN /\ status' = 500 /\ pc' = "drain"
                        /\ UNCHANGED <<taken, stray, ended, unread, offered, appended, respBody>>
                   ELSE /\ taken' = taken + a.body /\ stray' = stray + (a.n - a.body)
                        /\ ended' = a.err
                        /\ UNCHANGED <<pc, outer>>
    BY DEF Read
  <1>3. PICK c \in FromConn(Len(readers), room) :
          LET a == Answer(c, Len(readers))
          IN  /\ left' = left - c.n /\ readers' = a.readers /\ reqBody' = a.buf
              /\ crashed' = (a.n > room)
              /\ IF a.n > room
                   THEN /\ status' = 500 /\ pc' = "drain"
                        /\ UNCHANGED <<taken, stray, ended, unread, offered, appended, respBody>>
                   ELSE /\ taken' = taken + a.body /\ stray' = stray + (a.n - a.body)
                        /\ ended' = a.err
                        /\ UNCHANGED <<pc, outer>>
    BY <1>0
  <1>4. PICK a : a = Answer(c, Len(readers))
    OBVIOUS
  <1>5. PICK k \in 0..Len(readers) : k = Len(readers)
    <2>1. Len(readers) \in 0..Len(readers)
      BY Types DEF IInv
    <2> QED
      BY <2>1
  <1>6. /\ left' = left - c.n /\ readers' = a.readers /\ reqBody' = a.buf
        /\ crashed' = (a.n > room)
        /\ unread' = unread /\ offered' = offered /\ appended' = appended /\ respBody' = respBody
        /\ a.n > room => status' = 500 /\ pc' = "drain" /\ taken' = taken /\ stray' = stray /\ ended' = ended
        /\ ~(a.n > room) => /\ taken' = taken + a.body /\ stray' = stray + (a.n - a.body)
                            /\ ended' = a.err /\ pc' = pc /\ status' = status
    BY <1>3, <1>4 DEF outer
  <1>7. /\ Conn(c, k) /\ Passes(a, c, k) /\ Reads(a, c, k) /\ room \in Nat /\ (Clean' => a.n <= room)
    BY <1>1, <1>4, <1>5, <1>6, HandlerReads
  <1>8. /\ a.n \in Nat /\ a.body \in Nat /\ a.err \in {"nil", "eof", "big"}
        /\ a.body <= a.n /\ a.body <= c.n /\ c.n \in Nat /\ c.n <= left
    BY <1>7, Given
  <1>9. Typed /\ TypeOK /\ RequestOK /\ stray \in Nat
    BY DEF IInv, Typed, TypeOK
  <1>10. status = 0 /\ offered = -1 /\ appended = FALSE /\ crashed = FALSE /\ unread = 0 /\ ~Rejected
    BY <1>2, Unanswered
  <1>11. call # 0 \/ ~CallsLimit
    BY <1>2 DEF IInv, CallInv, CallsLimit
  <1>12. /\ readers' \in Seq(Reader) /\ left' \in 0..req.size /\ reqBody' \in Buffer
         /\ Got' = Got + c.n /\ (Overrun' <=> Overrun)
    BY <1>7, SameReaders DEF IInv, Passes
  <1>13. TeeInv' /\ ReaderInv' /\ StricterWins' /\ BufferInv'
    BY <1>7, ReadKeeps
  <1>14. LimitInv' /\ taken' + left' <= req.size /\ taken' \in Nat
    BY <1>1, <1>5, <1>6, <1>7, <1>10, <1>11, ReadLimits
  <1>15. Clean' =>
            /\ ~(a.n > room) /\ Clean /\ ClearInv'
            /\ a.n \in Nat /\ a.body = a.n /\ a.n <= c.n
            /\ a.err = "eof" => left' = 0
            /\ a.err = "big" => Overrun /\ Overflowed'
            /\ ~Overflowed' => ~Overflowed /\ a.n = c.n
            /\ (~Overflowed /\ k = Len(readers) /\ a.err # "big") => ~Overflowed'
            /\ left = 0 => left' = 0
    <2> SUFFICES ASSUME Clean'
                 PROVE  /\ ~(a.n > room) /\ Clean /\ ClearInv'
                        /\ a.n \in Nat /\ a.body = a.n /\ a.n <= c.n
                        /\ a.err = "eof" => left' = 0
                        /\ a.err = "big" => Overrun /\ Overflowed'
                        /\ ~Overflowed' => ~Overflowed /\ a.n = c.n
                        /\ (~Overflowed /\ k = Len(readers) /\ a.err # "big") => ~Overflowed'
                        /\ left = 0 => left' = 0
      OBVIOUS
    <2>1. ~(a.n > room)
      BY <1>7, <1>8
    <2> QED
      BY <1>7, <2>1, ReadClear
  <1>16. ClearInv'
    BY <1>15 DEF ClearInv
  <1>17. /\ pc' \in {"form", "decode", "read", "drain"} /\ (pc' # "drain" => pc' = pc)
         /\ (pc' = "drain" <=> a.n > room)
    BY <1>2, <1>6
  <1>18. /\ status' # 0 <=> pc' = "drain"
         /\ status' \in {0, 500}
    BY <1>6, <1>10, <1>17
  <1>19. Typed'
    <2>1. stray' \in Nat
      BY <1>6, <1>8, <1>9
    <2>2. taken' \in 0..req.size
      <3>1. left' \in Nat /\ taken' \in Nat /\ taken' + left' <= req.size /\ req.size \in Nat
        BY <1>9, <1>12, <1>14, Types
      <3> QED
        BY <3>1
    <2>3. ended' \in {"nil", "eof", "big"}
      BY <1>2, <1>6, <1>8
    <2>4. crashed' \in BOOLEAN
      <3>1. crashed' = (a.n > room)
        BY <1>6
      <3> QED
        BY <3>1
    <2>5. TypeOK'
      BY <1>1, <1>6, <1>9, <1>12, <1>17, <1>18, <2>1, <2>2, <2>3, <2>4 DEF TypeOK
    <2> QED
      BY <1>1, <1>9, <1>14, <2>5 DEF Typed, RequestOK
  <1>20. FreshInv'
    BY <1>17 DEF FreshInv
  <1>21. CleanInv'
    <2> SUFFICES ASSUME Clean'
                 PROVE  /\ ended' = "eof" => left' = 0
                        /\ ended' = "big" \/ result.big \/ status' = 413 => Overrun
                        /\ ~crashed' /\ stray' = 0
                        /\ ~Overflowed' => taken' + unread = Got + c.n
                        /\ pc' = "form" /\ call = 1 /\ ended' # "big" => ~Overflowed'
                        /\ pc' # "done"
      BY <1>1, <1>6, <1>12 DEF CleanInv
    <2>1. ~(a.n > room) /\ a.body = a.n /\ Clean
      BY <1>15
    <2>2. taken' = taken + a.n /\ stray' = stray + (a.n - a.n) /\ ended' = a.err /\ pc' = pc /\ status' = 0
      BY <1>6, <1>10, <2>1
    <2>3. /\ stray = 0 /\ (result.big => Overrun)
          /\ (~Overflowed => taken + unread = Got)
          /\ (pc = "form" /\ call = 1 /\ ended # "big" => ~Overflowed)
      BY <2>1 DEF IInv, CleanInv
    <2>4. stray' = 0
      BY <1>8, <2>2, <2>3
    <2>5. ~Overflowed' => taken' + unread = Got + c.n
      <3> SUFFICES ASSUME ~Overflowed' PROVE taken' + unread = Got + c.n
        OBVIOUS
      <3>1. a.n = c.n /\ taken + unread = Got
        BY <1>15, <2>3
      <3>2. taken \in Nat /\ Got \in Nat
        BY Types DEF IInv
      <3> QED
        BY <1>8, <1>10, <2>2, <3>1, <3>2
    <2>6. ~crashed'
      BY <1>6, <2>1
    <2>7. pc' = "form" /\ call = 1 /\ ended' # "big" => ~Overflowed'
      BY <1>2, <1>5, <1>15, <2>2, <2>3
    <2>8. ended' = "eof" => left' = 0
      BY <1>15, <2>2
    <2>9. ended' = "big" \/ result.big \/ status' = 413 => Overrun
      BY <1>15, <2>2, <2>3
    <2> QED
      BY <1>17, <2>4, <2>5, <2>6, <2>7, <2>8, <2>9
  <1>22. CallInv'
    <2>1. pc' = "drain" => entered
      <3>1. ~entered => Clean'
        BY <1>1 DEF Clean
      <3> QED
        BY <1>15, <1>17, <3>1
    <2>2. crashed' <=> pc' = "drain"
      BY <1>6, <1>17
    <2>3. /\ (result.code = 413 => result.big) /\ (result.code = 0 => result = NoError)
          /\ pc = "form" => Bind /\ call >= 1
          /\ pc = "decode" => CallsLimit /\ call >= 1
          /\ pc = "read" => req.op = "Read"
          /\ req.op # "BindTwice" =>
                /\ call <= 1
                /\ pc \in {"chain", "handler", "form", "decode"} => "multipart" \notin parsed
      BY DEF IInv, CallInv
    <2>4. CASE pc' = "drain"
      BY <1>1, <1>6, <1>10, <2>1, <2>2, <2>3, <2>4 DEF CallInv
    <2>5. CASE pc' # "drain"
      <3>1. pc' = pc
        BY <1>17, <2>5
      <3> QED
        BY <1>1, <1>2, <1>6, <1>10, <2>2, <2>3, <2>5, <3>1 DEF CallInv, CallsLimit, Bind
    <2> QED
      BY <2>4, <2>5
  <1>23. FormInv'
    <2> SUFFICES ASSUME Bind, call <= 1, req.content = "urlencoded"
                 PROVE  /\ pc' \notin {"decode", "validate", "respond"} /\ status' # 200
                        /\ ("form" \in parsed /\ Clean') => taken' = req.size
      BY <1>1 DEF FormInv, Bind
    <2>1. pc' \notin {"decode", "validate", "respond"} /\ status' # 200
      BY <1>2, <1>17, <1>18
    <2>2. ASSUME "form" \in parsed, Clean' PROVE taken' = req.size
      <3>1. Clean
        BY <1>15, <2>2
      <3>2. taken = req.size \/ Refusal
        BY <2>2, <3>1 DEF IInv, FormInv
      <3>3. ~Refusal
        BY <1>2 DEF Refusal
      <3>4. taken = req.size /\ taken' \in Nat /\ taken' + left' <= req.size /\ left' \in Nat
        BY <1>12, <1>14, <3>2, <3>3
      <3>5. taken' = taken \/ taken' = taken + a.body
        BY <1>6
      <3> QED
        <4>1. req.size \in Nat /\ left' \in Nat /\ a.body \in Nat /\ taken = req.size
          BY <1>8, <1>9, <3>4, Types
        <4>2. taken' >= taken
          BY <3>5, <4>1
        <4> QED
          BY <3>4, <4>1, <4>2
    <2> QED
      BY <2>1, <2>2
  <1>24. ResponseInv'
    BY <1>1, <1>6, <1>10, <1>17, <1>18 DEF IInv, ResponseInv, Fits, Length
  <1> QED
    BY <1>13, <1>14, <1>16, <1>19, <1>20, <1>21, <1>22, <1>23, <1>24 DEF IInv

LEMMA ReadFormKeeps == IInv /\ ReadForm => IInv'
  <1> SUFFICES ASSUME IInv, ReadForm PROVE IInv'
    OBVIOUS
  <1>1. /\ req' = req /\ at' = at /\ entered' = entered /\ marker' = marker /\ call' = call
        /\ ended' = ended /\ result' = result
        /\ status' = status /\ unread' = unread /\ offered' = offered /\ appended' = appended
        /\ respBody' = respBody
    BY DEF ReadForm, outer
  <1>2. pc = "answer" /\ "form" \notin parsed
    BY DEF ReadForm, AsksForm
  <1>0. PICK room \in Rooms : \E c \in FromConn(Len(readers), room) :
          LET a == Answer(c, Len(readers))
          IN  /\ left' = left - c.n /\ readers' = a.readers /\ reqBody' = a.buf
              /\ crashed' = (a.n > room)
              /\ IF a.n > room
                   THEN pc' = "drain" /\ UNCHANGED <<taken, stray, parsed>>
                   ELSE /\ taken' = taken + a.body /\ stray' = stray + (a.n - a.body)
                        /\ parsed' = IF a.err = "nil" THEN parsed ELSE parsed \cup {"form"}
                        /\ UNCHANGED pc
    BY DEF ReadForm
  <1>3. PICK c \in FromConn(Len(readers), room) :
          LET a == Answer(c, Len(readers))
          IN  /\ left' = left - c.n /\ readers' = a.readers /\ reqBody' = a.buf
              /\ crashed' = (a.n > room)
              /\ IF a.n > room
                   THEN pc' = "drain" /\ UNCHANGED <<taken, stray, parsed>>
                   ELSE /\ taken' = taken + a.body /\ stray' = stray + (a.n - a.body)
                        /\ parsed' = IF a.err = "nil" THEN parsed ELSE parsed \cup {"form"}
                        /\ UNCHANGED pc
    BY <1>0
  <1>4. PICK a : a = Answer(c, Len(readers))
    OBVIOUS
  <1>5. PICK k \in 0..Len(readers) : k = Len(readers)
    <2>1. Len(readers) \in 0..Len(readers)
      BY Types DEF IInv
    <2> QED
      BY <2>1
  <1>6. /\ left' = left - c.n /\ readers' = a.readers /\ reqBody' = a.buf
        /\ crashed' = (a.n > room)
        /\ a.n > room => pc' = "drain" /\ taken' = taken /\ stray' = stray /\ parsed' = parsed
        /\ ~(a.n > room) => /\ taken' = taken + a.body /\ stray' = stray + (a.n - a.body)
                            /\ parsed' = parsed \/ parsed' = parsed \cup {"form"}
                            /\ pc' = pc
    BY <1>3, <1>4
  <1>7. /\ Conn(c, k) /\ Passes(a, c, k) /\ Reads(a, c, k) /\ room \in Nat /\ (Clean' => a.n <= room)
    BY <1>1, <1>4, <1>5, <1>6, HandlerReads
  <1>8. /\ a.n \in Nat /\ a.body \in Nat /\ a.err \in {"nil", "eof", "big"}
        /\ a.body <= a.n /\ a.body <= c.n /\ c.n \in Nat /\ c.n <= left
    BY <1>7, Given
  <1>9. Typed /\ TypeOK /\ RequestOK /\ stray \in Nat
    BY DEF IInv, Typed, TypeOK
  <1>10. /\ status # 0 /\ offered = -1 /\ ~appended /\ unread = 0 /\ ~crashed
         /\ Rejected => Rejected'
    <2>1. status # 0 /\ offered = -1 /\ ~appended /\ unread = 0 /\ ~crashed
      BY <1>2 DEF IInv, ResponseInv, CallInv
    <2>2. Limiters' = Limiters
      BY <1>7, SameReaders DEF IInv, Passes
    <2>3. Rejected => Rejected'
      BY <1>1, <1>2, <2>2 DEF Rejected
    <2> QED
      BY <2>1, <2>3
  <1>11. call # 0 \/ ~CallsLimit \/ Rejected
    BY <1>2 DEF IInv, LimitInv
  <1>12. /\ readers' \in Seq(Reader) /\ left' \in 0..req.size /\ reqBody' \in Buffer
         /\ Got' = Got + c.n /\ (Overrun' <=> Overrun)
    BY <1>7, SameReaders DEF IInv, Passes
  <1>13. TeeInv' /\ ReaderInv' /\ StricterWins' /\ BufferInv'
    BY <1>7, ReadKeeps
  <1>14. LimitInv' /\ taken' + left' <= req.size /\ taken' \in Nat
    BY <1>1, <1>5, <1>6, <1>7, <1>10, <1>11, ReadLimits
  <1>15. Clean' =>
            /\ ~(a.n > room) /\ Clean /\ ClearInv'
            /\ a.body = a.n
            /\ ~Overflowed' => ~Overflowed /\ a.n = c.n
            /\ left = 0 => left' = 0
    <2> SUFFICES ASSUME Clean'
                 PROVE  /\ ~(a.n > room) /\ Clean /\ ClearInv'
                        /\ a.body = a.n
                        /\ ~Overflowed' => ~Overflowed /\ a.n = c.n
                        /\ left = 0 => left' = 0
      OBVIOUS
    <2>1. ~(a.n > room)
      BY <1>7, <1>8
    <2> QED
      BY <1>7, <2>1, ReadClear
  <1>16. ClearInv'
    BY <1>15 DEF ClearInv
  <1>17. /\ pc' \in {"answer", "drain"} /\ (pc' = "drain" <=> a.n > room)
    BY <1>2, <1>6
  <1>19. Typed'
    <2>1. stray' \in Nat
      BY <1>6, <1>8, <1>9
    <2>2. taken' \in 0..req.size
      <3>1. left' \in Nat /\ taken' \in Nat /\ taken' + left' <= req.size /\ req.size \in Nat
        BY <1>9, <1>12, <1>14, Types
      <3> QED
        BY <3>1
    <2>3. parsed' \subseteq {"form", "multipart"}
      <3>1. parsed \subseteq {"form", "multipart"}
        BY <1>9 DEF TypeOK
      <3>2. parsed' = parsed \/ parsed' = parsed \cup {"form"}
        BY <1>6
      <3> QED
        BY <3>1, <3>2
    <2>4. crashed' \in BOOLEAN
      <3>1. crashed' = (a.n > room)
        BY <1>6
      <3> QED
        BY <3>1
    <2>5. TypeOK'
      BY <1>1, <1>6, <1>9, <1>12, <1>17, <2>1, <2>2, <2>3, <2>4 DEF TypeOK
    <2> QED
      BY <1>1, <1>9, <1>14, <2>5 DEF Typed, RequestOK
  <1>20. FreshInv'
    BY <1>17 DEF FreshInv
  <1>21. CleanInv'
    <2> SUFFICES ASSUME Clean'
                 PROVE  /\ ended = "eof" => left' = 0
                        /\ ended = "big" \/ result.big \/ status = 413 => Overrun
                        /\ ~crashed' /\ stray' = 0
                        /\ ~Overflowed' => taken' + unread = Got + c.n
                        /\ pc' \notin {"form", "done"}
      BY <1>1, <1>12 DEF CleanInv
    <2>1. ~(a.n > room) /\ a.body = a.n /\ Clean
      BY <1>15
    <2>2. taken' = taken + a.n /\ stray' = stray + (a.n - a.n)
      BY <1>6, <2>1
    <2>3. /\ stray = 0 /\ (ended = "big" \/ result.big \/ status = 413 => Overrun)
          /\ (~Overflowed => taken + unread = Got)
          /\ (ended = "eof" => left = 0)
      BY <2>1 DEF IInv, CleanInv
    <2>4. stray' = 0
      BY <1>8, <2>2, <2>3
    <2>5. ~Overflowed' => taken' + unread = Got + c.n
      <3> SUFFICES ASSUME ~Overflowed' PROVE taken' + unread = Got + c.n
        OBVIOUS
      <3>1. a.n = c.n /\ taken + unread = Got
        BY <1>15, <2>3
      <3>2. taken \in Nat /\ Got \in Nat
        BY Types DEF IInv
      <3> QED
        BY <1>8, <1>10, <2>2, <3>1, <3>2
    <2>6. ~crashed'
      BY <1>6, <2>1
    <2>8. ended = "eof" => left' = 0
      BY <1>15, <2>3
    <2> QED
      BY <1>17, <2>3, <2>4, <2>5, <2>6, <2>8
  <1>22. CallInv'
    <2>1. pc' = "drain" => entered
      <3>1. ~entered => Clean'
        BY <1>1 DEF Clean
      <3> QED
        BY <1>15, <1>17, <3>1
    <2>2. crashed' <=> pc' = "drain"
      BY <1>6, <1>17
    <2>3. /\ (result.code = 413 => result.big) /\ (result.code = 0 => result = NoError)
          /\ req.op # "BindTwice" => call <= 1
      BY DEF IInv, CallInv
    <2> QED
      BY <1>1, <1>10, <1>17, <2>1, <2>2, <2>3 DEF CallInv
  <1>23. FormInv'
    <2> SUFFICES ASSUME Bind, call <= 1, req.content = "urlencoded"
                 PROVE  status # 200
      BY <1>1, <1>17 DEF FormInv, Bind, Refusal
    <2> QED
      BY <1>2 DEF IInv, FormInv
  <1>24. ResponseInv'
    BY <1>1, <1>10, <1>17 DEF IInv, ResponseInv, Fits, Length
  <1> QED
    BY <1>13, <1>14, <1>16, <1>19, <1>20, <1>21, <1>22, <1>23, <1>24 DEF IInv

LEMMA DrainKeeps == IInv /\ Drain => IInv'
  <1> SUFFICES ASSUME IInv, Drain PROVE IInv'
    OBVIOUS
  <1>1. /\ req' = req /\ at' = at /\ entered' = entered /\ marker' = marker
        /\ call' = call /\ taken' = taken /\ stray' = stray /\ ended' = ended
        /\ crashed' = crashed /\ parsed' = parsed /\ result' = result
        /\ status' = status /\ offered' = offered /\ appended' = appended /\ respBody' = respBody
    BY DEF Drain, inner
  <1>2. pc = "drain" /\ entered /\ status # 0
    <2>1. pc = "drain"
      BY DEF Drain
    <2> QED
      BY <2>1 DEF IInv, CallInv, ResponseInv
  <1>3. PICK k \in 0..Len(readers) : k = TeeAt /\ ~Outside(k)
    <2>1. DOMAIN readers = 1..Len(readers) /\ Len(readers) \in Nat
      BY Types DEF IInv
    <2>2. \E t \in DOMAIN readers : readers[t].tee
      BY <1>2 DEF IInv, TeeInv
    <2>3. TeeAt \in DOMAIN readers /\ readers[TeeAt].tee
      BY <2>2 DEF TeeAt
    <2> DEFINE t == TeeAt
    <2>4. t \in 1..Len(readers) /\ readers[t].tee
      BY <2>1, <2>3
    <2> HIDE DEF t
    <2>5. t \in 0..Len(readers) /\ t \in 1..t
      BY <2>1, <2>4
    <2>6. ~Outside(t)
      BY <2>4, <2>5 DEF Outside
    <2> QED
      BY <2>5, <2>6 DEF t
  <1>4. PICK c \in FromConn(k, DrainRoom) :
          LET a == Answer(c, k)
          IN  /\ left' = left - c.n /\ readers' = a.readers /\ reqBody' = a.buf
              /\ unread' = unread + a.n
              /\ pc' = IF a.err = "nil" THEN pc ELSE "done"
    BY <1>3 DEF Drain
  <1>5. PICK a : a = Answer(c, k)
    OBVIOUS
  <1>6. /\ left' = left - c.n /\ readers' = a.readers /\ reqBody' = a.buf
        /\ unread' = unread + a.n
        /\ pc' \in {"drain", "done"} /\ (pc' = "done" => a.err # "nil")
    BY <1>2, <1>4, <1>5
  <1>7. Conn(c, k) /\ Passes(a, c, k) /\ Reads(a, c, k)
    <2>1. Conn(c, k)
      BY LimitsAssumption, ConnFacts
    <2>2. Passes(a, c, k)
      BY <1>5, <2>1, AnswerPasses
    <2> QED
      BY <1>1, <1>2, <1>3, <1>6, <2>1, <2>2 DEF Reads
  <1>8. /\ a.n \in Nat /\ a.body \in Nat /\ a.err \in {"nil", "eof", "big"}
        /\ a.body <= a.n /\ a.body <= c.n /\ c.n \in Nat /\ c.n <= left
    BY <1>7, Given
  <1>9. Typed /\ TypeOK /\ RequestOK /\ unread \in Nat
    BY DEF IInv, Typed, TypeOK
  <1>10. Rejected => Rejected'
    <2>1. Limiters' = Limiters
      BY <1>7, SameReaders DEF IInv, Passes
    <2> QED
      BY <1>1, <1>2, <2>1 DEF Rejected
  <1>11. call # 0 \/ ~CallsLimit \/ Rejected
    BY <1>2 DEF IInv, LimitInv
  <1>12. /\ readers' \in Seq(Reader) /\ left' \in 0..req.size /\ reqBody' \in Buffer
         /\ Got' = Got + c.n /\ (Overrun' <=> Overrun)
    BY <1>7, SameReaders DEF IInv, Passes
  <1>13. TeeInv' /\ ReaderInv' /\ StricterWins' /\ BufferInv'
    BY <1>7, ReadKeeps
  <1>14. LimitInv' /\ taken' + left' <= req.size /\ taken' \in Nat
    BY <1>1, <1>7, <1>10, <1>11, ReadLimits
  <1>15. Clean' =>
            /\ Clean /\ ClearInv'
            /\ a.err = "eof" => left' = 0
            /\ a.err = "big" => Overflowed'
            /\ ~Overflowed' => ~Overflowed /\ a.n = c.n
            /\ left = 0 => left' = 0
    BY <1>7, ReadClear
  <1>16. ClearInv'
    BY <1>15 DEF ClearInv
  <1>19. Typed'
    <2>1. unread' \in Nat
      BY <1>6, <1>8, <1>9
    <2>2. TypeOK'
      BY <1>1, <1>6, <1>9, <1>12, <2>1 DEF TypeOK
    <2> QED
      BY <1>1, <1>9, <1>14, <2>2 DEF Typed, RequestOK
  <1>20. FreshInv'
    BY <1>6 DEF FreshInv
  <1>21. CleanInv'
    <2> SUFFICES ASSUME Clean'
                 PROVE  /\ ended = "eof" => left' = 0
                        /\ ended = "big" \/ result.big \/ status = 413 => Overrun
                        /\ ~crashed /\ stray = 0
                        /\ ~Overflowed' => taken + unread' = Got + c.n
                        /\ pc' = "done" => left' = 0 \/ Overflowed'
      BY <1>1, <1>6, <1>12 DEF CleanInv
    <2>1. Clean
      BY <1>15
    <2>2. /\ stray = 0 /\ ~crashed /\ (ended = "big" \/ result.big \/ status = 413 => Overrun)
          /\ (~Overflowed => taken + unread = Got)
          /\ (ended = "eof" => left = 0)
      BY <2>1 DEF IInv, CleanInv
    <2>3. ~Overflowed' => taken + unread' = Got + c.n
      <3> SUFFICES ASSUME ~Overflowed' PROVE taken + unread' = Got + c.n
        OBVIOUS
      <3>1. a.n = c.n /\ taken + unread = Got /\ unread' = unread + a.n
        BY <1>6, <1>15, <2>2
      <3>2. taken \in Nat /\ Got \in Nat
        BY Types DEF IInv
      <3> QED
        BY <1>8, <1>9, <3>1, <3>2
    <2>4. ended = "eof" => left' = 0
      BY <1>15, <2>2
    <2>5. pc' = "done" => left' = 0 \/ Overflowed'
      BY <1>6, <1>8, <1>15
    <2> QED
      BY <2>2, <2>3, <2>4, <2>5
  <1>22. CallInv'
    <2>1. /\ (result.code = 413 => result.big) /\ (result.code = 0 => result = NoError)
          /\ req.op # "BindTwice" => call <= 1
      BY DEF IInv, CallInv
    <2> QED
      BY <1>1, <1>2, <1>6, <2>1 DEF CallInv
  <1>23. FormInv'
    <2> SUFFICES ASSUME Bind, call <= 1, req.content = "urlencoded"
                 PROVE  /\ status = 200 => "form" \in parsed /\ call = 1
                        /\ ("form" \in parsed /\ Clean') => taken = req.size \/ status # 200
      BY <1>1, <1>6 DEF FormInv, Bind, Refusal
    <2>1. /\ status = 200 => "form" \in parsed /\ call = 1
          /\ ("form" \in parsed /\ Clean) => taken = req.size \/ Refusal
      BY DEF IInv, FormInv
    <2>2. Refusal => status # 200
      BY <1>2 DEF Refusal
    <2> QED
      BY <1>15, <2>1, <2>2
  <1>24. ResponseInv'
    BY <1>1, <1>2, <1>6 DEF IInv, ResponseInv, Fits, Length
  <1> QED
    BY <1>13, <1>14, <1>16, <1>19, <1>20, <1>21, <1>22, <1>23, <1>24 DEF IInv

\* A step that changes nothing.
LEMMA StutterKeeps == IInv /\ UNCHANGED vars => IInv'
  <1> SUFFICES ASSUME IInv, UNCHANGED vars PROVE IInv'
    OBVIOUS
  <1>1. /\ req' = req /\ at' = at /\ entered' = entered /\ marker' = marker /\ readers' = readers
        /\ left' = left /\ reqBody' = reqBody /\ pc' = pc
        /\ call' = call /\ taken' = taken /\ stray' = stray /\ ended' = ended /\ crashed' = crashed
        /\ parsed' = parsed /\ result' = result
        /\ status' = status /\ unread' = unread /\ offered' = offered /\ appended' = appended
        /\ respBody' = respBody
    BY DEF vars
  <1>2. /\ TeeInv' /\ ReaderInv' /\ StricterWins' /\ BufferInv' /\ ClearInv'
        /\ Limiters' = Limiters /\ (Clean' <=> Clean) /\ (Overrun' <=> Overrun)
        /\ (Overflowed' <=> Overflowed) /\ Got' = Got
    BY <1>1, Untouched
  <1>3. Typed'
    BY <1>1 DEF IInv, Typed, TypeOK, RequestOK
  <1>4. FreshInv'
    BY <1>1 DEF IInv, FreshInv
  <1>5. LimitInv'
    <2>1. Rejected => Rejected'
      BY <1>1, <1>2 DEF Rejected
    <2> QED
      BY <1>1, <2>1, LimitsStay
  <1>6. CleanInv'
    BY <1>1, <1>2 DEF IInv, CleanInv
  <1>7. CallInv'
    BY <1>1 DEF IInv, CallInv, CallsLimit, Bind
  <1>8. FormInv'
    BY <1>1, <1>2 DEF IInv, FormInv, Bind, Refusal
  <1>9. ResponseInv'
    BY <1>1 DEF IInv, ResponseInv, Fits, Length
  <1> QED
    BY <1>2, <1>3, <1>4, <1>5, <1>6, <1>7, <1>8, <1>9 DEF IInv

\* The invariant holds in every state of a request (bodylimit.go, logger.go,
\* bind.go, limitedbuffer.go).
THEOREM Invariance == Spec => []IInv
  <1>1. IInv /\ [Next]_vars => IInv'
    BY EnterLoggerKeeps, MiddlewareKeeps, EnterHandlerKeeps, CallLimitKeeps, ReadStep,
       ParseFormKeeps, DecodeKeeps, ValidateKeeps, ReadDoneKeeps, RespondKeeps,
       ReadFormKeeps, WriteBodyKeeps, DrainKeeps, StutterKeeps DEF Next
  <1> QED
    BY <1>1, InitInv, PTL DEF Spec

\* The variables have their types: at no time is more read of a body than there
\* is, nor more of a limit used up than it has.
THEOREM TypeCorrect == Spec => []TypeOK
  <1>1. IInv => TypeOK
    BY DEF IInv, Typed
  <1> QED
    BY <1>1, Invariance, PTL

\* The limits around a body get stricter outwards, however they are nested, and
\* the marker in the context is the strictest (bodylimit.go:34-56).
THEOREM StricterAlwaysWins == Spec => []StricterWins
  <1>1. IInv => StricterWins
    BY DEF IInv
  <1> QED
    BY <1>1, Invariance, PTL

\* No handler gets more of a body than the limits on its way allow, whatever the
\* limits, the log and the sizes of the reads are; the encoder of a rejected form
\* is the exception (bodylimit.go:34-56).
THEOREM LimitsHold == Spec => []ReadWithinLimits
  <1>1. IInv => ReadWithinLimits
    <2> SUFFICES ASSUME IInv PROVE ReadWithinLimits
      OBVIOUS
    <2> DEFINE Within(n) == \/ taken <= n
                            \/ req.declared > n /\ Limiters = {} /\ status = 413
    <2>1. /\ readers \in Seq(Reader) /\ DOMAIN readers = 1..Len(readers) /\ Len(readers) \in Nat
          /\ \A j \in DOMAIN readers : readers[j] \in Reader
          /\ taken \in Nat /\ left \in Nat /\ taken + left <= req.size /\ req.size \in Nat
      BY Types DEF IInv
    <2>2. marker \in Nat /\ req.declared \in {-1, req.size} /\ req.config \in Int
          /\ \A i \in 1..at : req.chain[i] \in Int
      <3>1. /\ marker \in Nat /\ req.declared \in {-1, req.size} /\ req.config \in ConfigLimits
            /\ at \in 0..Len(req.chain) /\ req.chain \in Seq(Limits)
        BY DEF IInv, Typed, TypeOK, RequestOK
      <3>2. \A i \in 1..at : req.chain[i] \in Limits
        BY <3>1
      <3> QED
        BY <3>1, <3>2, LimitsAssumption
    <2>3. marker # 0 => taken <= marker
      <3> SUFFICES ASSUME marker # 0 PROVE taken <= marker
        OBVIOUS
      <3> DEFINE m == Max(Limiters)
      <3>1. Limiters # {} /\ marker = readers[m].limit
        BY DEF IInv, StricterWins
      <3>2. m \in Limiters
        <4>1. Limiters \in SUBSET (1..Len(readers))
          BY <2>1 DEF Limiters
        <4> QED
          BY <2>1, <3>1, <4>1, MaxFacts
      <3> HIDE DEF m
      <3>3. taken + readers[m].left <= readers[m].limit
        BY <3>2 DEF IInv, LimitInv
      <3>4. readers[m] \in Reader
        BY <2>1, <3>2 DEF Limiters
      <3>5. readers[m].left \in Nat /\ readers[m].limit \in Nat
        BY <3>4, ReaderFacts
      <3> QED
        BY <2>1, <3>1, <3>3, <3>5
    <2>4. ASSUME NEW n \in Int, n > 0, Heeded(n) PROVE Within(n)
      <3>1. CASE marker # 0 /\ marker <= n
        BY <2>1, <2>2, <2>3, <2>4, <3>1
      <3>2. CASE Rejected /\ req.declared > n
        <4>1. CASE status = 413
          BY <3>2, <4>1 DEF Rejected
        <4>2. CASE status # 413
          <5>1. taken = 0
            BY <3>2, <4>2 DEF Rejected
          <5> QED
            BY <2>4, <5>1
        <4> QED
          BY <4>1, <4>2
      <3> QED
        BY <2>4, <3>1, <3>2 DEF Heeded
    <2>5. \A i \in 1..at : req.chain[i] > 0 => Within(req.chain[i])
      <3>1. \A i \in 1..at : Heeded(req.chain[i])
        BY DEF IInv, LimitInv
      <3> HIDE DEF Within
      <3> QED
        BY <2>2, <2>4, <3>1
    <2>6. ASSUME CallsLimit, req.config > 0 PROVE Within(req.config)
      <3>1. CASE call # 0
        <4>1. Heeded(req.config)
          BY <3>1 DEF IInv, LimitInv
        <4> HIDE DEF Within
        <4> QED
          BY <2>2, <2>4, <2>6, <4>1
      <3>2. CASE call = 0 /\ pc \in {"chain", "handler"}
        <4>1. taken = 0
          BY <3>2 DEF IInv, FreshInv
        <4> QED
          BY <2>2, <2>6, <4>1
      <3>3. CASE Rejected
        <4>1. /\ Limiters = {} /\ req.declared = req.size
              /\ status = 413 \/ taken = 0
          BY <3>3 DEF Rejected
        <4>2. CASE taken = 0
          BY <2>2, <2>6, <4>2
        <4>3. CASE status = 413
          <5>1. taken <= req.size
            BY <2>1
          <5>2. req.size > req.config \/ req.size <= req.config
            BY <2>1, <2>2
          <5>3. CASE req.size > req.config
            BY <4>1, <4>3, <5>3
          <5>4. CASE req.size <= req.config
            BY <2>1, <2>2, <5>1, <5>4
          <5> QED
            BY <5>2, <5>3, <5>4
        <4> QED
          BY <4>1, <4>2, <4>3
      <3>4. call # 0 \/ pc \in {"chain", "handler"} \/ Rejected
        BY <2>6 DEF IInv, LimitInv
      <3> QED
        BY <3>1, <3>2, <3>3, <3>4
    <2> QED
      BY <2>5, <2>6 DEF ReadWithinLimits, CallsLimit
  <1> QED
    BY <1>1, Invariance, PTL

-----------------------------------------------------------------------------
(* What becomes of an overflow.                                            *)

InHandler == {"handler", "form", "decode", "read", "validate", "respond"}
Answering == {"answer", "drain", "done"}

\* The error of every limit is that of the last read, or hidden by the log.
ReportInv ==
    (call < 2 /\ pc \in InHandler) =>
       \A j \in Limiters :
          /\ readers[j].err # "nil" => ended # "nil" \/ Hidden(j, reqBody)
          /\ readers[j].err = "big" => ended = "big" \/ Hidden(j, reqBody)

\* The error of the last read is that of the call, unless the value was complete.
Excused == req.content = "json" /\ taken >= req.needed
OutcomeInv ==
    /\ (ended = "big" /\ call < 2) =>
          \/ pc \in {"form", "read"} \cup Answering \/ Excused
          \/ pc = "decode" /\ req.content \in {"json", "multipart"}
          \/ pc \in {"handler", "respond"} /\ result.big
    /\ (pc = "form" /\ ended = "big") => req.content = "urlencoded"
    /\ (call <= 1 /\ pc \in {"form", "decode"}) => "multipart" \notin parsed

\* The code of a call whose error is an overflow, and the status it becomes.
OverflowCode ==
    \/ result.code = 413
    \/ result.code = 400 /\ Bind /\ req.content = "urlencoded"
    \/ result.code = 500 /\ ~Bind
OverflowStatus ==
    \/ status = 413
    \/ ~req.resolver /\ status = 400 /\ Bind /\ req.content = "urlencoded"
    \/ ~req.resolver /\ status = 500 /\ ~Bind
CodeInv ==
    result.big => /\ pc \in {"handler", "respond"} \cup Answering
                  /\ OverflowCode
                  /\ pc \in Answering => OverflowStatus

OverflowInv == ReportInv /\ OutcomeInv /\ CodeInv

\* No step before the handler, and none after it, changes what it has returned.
LEMMA BeforeCall ==
    ASSUME IInv, OverflowInv, pc = "chain", pc' \in {"chain", "answer", "handler", "read", "respond"},
           pc' \in InHandler => readers' = readers,
           req' = req, call' = call, ended' = ended, result' = result
    PROVE  OverflowInv'
  <1>1. ended' = "nil" /\ ~result'.big /\ \A i \in DOMAIN readers : readers[i].err = "nil"
    BY FreshFacts DEF Fresh, OverflowInv, CodeInv, Answering
  <1>2. ReportInv'
    BY <1>1 DEF ReportInv, Limiters
  <1>3. OutcomeInv' /\ CodeInv'
    BY <1>1 DEF OutcomeInv, CodeInv
  <1> QED
    BY <1>2, <1>3 DEF OverflowInv

LEMMA AfterCall ==
    ASSUME OverflowInv, pc \in Answering, pc' \in Answering,
           UNCHANGED <<req, call, ended, result, status>>
    PROVE  OverflowInv'
  <1>1. ReportInv'
    BY DEF ReportInv, InHandler, Answering
  <1>2. OutcomeInv'
    BY DEF OutcomeInv, Answering
  <1>3. CodeInv'
    BY DEF OverflowInv, CodeInv, OverflowCode, OverflowStatus, Bind
  <1> QED
    BY <1>1, <1>2, <1>3 DEF OverflowInv

\* A step of the handler that does not read.
LEMMA ReportStays ==
    ASSUME ReportInv, pc \in InHandler,
           UNCHANGED <<readers, reqBody, entered, call, ended>>
    PROVE  ReportInv'
  BY DEF ReportInv, Hidden, Outside, Limiters

LEMMA CallLimitReports ==
    ASSUME IInv, OverflowInv, CallLimit
    PROVE  OverflowInv'
  <1>1. /\ pc = "handler" /\ call' = call + 1 /\ ended' = "nil" /\ req' = req /\ parsed' = parsed
        /\ \/ /\ pc' = "respond" /\ readers' = readers /\ Fail(413, TRUE)
           \/ /\ pc' \in {"form", "decode"} /\ result' = NoError
              /\ readers' = readers \/ readers' = Append(readers, MaxReader(req.config))
    BY DEF CallLimit, Limit, TooLarge
  <1>2. call \in {0, 1} /\ readers \in Seq(Reader)
    <2>1. call \in 0..2 /\ call <= 1 /\ readers \in Seq(Reader)
      BY <1>1 DEF IInv, Typed, TypeOK, CallInv
    <2> QED
      BY <2>1
  <1>3. ASSUME call' < 2
        PROVE  parsed = {} /\ \A j \in DOMAIN readers' : readers'[j].err = "nil"
    <2>1. call = 0
      BY <1>1, <1>2, <1>3
    <2>2. parsed = {} /\ \A j \in DOMAIN readers : readers[j].err = "nil"
      BY <1>1, <2>1, FreshFacts DEF Fresh
    <2>3. MaxReader(req.config).err = "nil"
      BY DEF MaxReader
    <2>4. CASE readers' = readers
      BY <2>2, <2>4
    <2>5. CASE readers' = Append(readers, MaxReader(req.config))
      <3> DEFINE m == MaxReader(req.config)
      <3>1. m.err = "nil" /\ readers' = Append(readers, m)
        BY <2>3, <2>5
      <3> HIDE DEF m
      <3>2. \A j \in DOMAIN readers' : readers'[j] = m \/ (j \in DOMAIN readers /\ readers'[j] = readers[j])
        BY <1>2, <3>1
      <3> QED
        BY <2>2, <3>1, <3>2
    <2> QED
      BY <1>1, <2>2, <2>4, <2>5
  <1>4. ReportInv'
    BY <1>3 DEF ReportInv, Limiters
  <1>5. OutcomeInv'
    <2>1. call' <= 1 => call' < 2
      BY <1>1, <1>2
    <2> QED
      BY <1>1, <1>3, <2>1 DEF OutcomeInv
  <1>6. CodeInv'
    <2>1. CASE Fail(413, TRUE) /\ pc' = "respond"
      <3>1. result'.code = 413
        BY <2>1, FailsBig
      <3> QED
        BY <2>1, <3>1 DEF CodeInv, OverflowCode, Answering
    <2>2. CASE result' = NoError
      BY <2>2 DEF CodeInv, NoError
    <2> QED
      BY <1>1, <2>1, <2>2
  <1> QED
    BY <1>4, <1>5, <1>6 DEF OverflowInv

\* A read of the handler: no reader has met an error that is not hidden.
LEMMA ReadReports ==
    ASSUME IInv, OverflowInv, Read
    PROVE  OverflowInv'
  <1>1. /\ req' = req /\ entered' = entered /\ marker' = marker /\ call' = call
        /\ parsed' = parsed /\ result' = result
    BY DEF Read
  <1>2. /\ ended = "nil" /\ pc \in {"form", "decode", "read"}
        /\ pc = "decode" => req.content \in {"json", "multipart"}
        /\ pc = "form" => req.content = "urlencoded"
    BY DEF Read, Wants
  <1>3. ~result.big
    BY <1>2 DEF OverflowInv, CodeInv, Answering
  <1>4. PICK room \in Rooms : \E c \in FromConn(Len(readers), room) :
          LET a == Answer(c, Len(readers))
          IN  /\ left' = left - c.n /\ readers' = a.readers /\ reqBody' = a.buf
              /\ IF a.n > room THEN pc' = "drain" /\ ended' = ended
                               ELSE pc' = pc /\ ended' = a.err
    BY DEF Read, outer
  <1>5. PICK c \in FromConn(Len(readers), room) :
          LET a == Answer(c, Len(readers))
          IN  /\ left' = left - c.n /\ readers' = a.readers /\ reqBody' = a.buf
              /\ IF a.n > room THEN pc' = "drain" /\ ended' = ended
                               ELSE pc' = pc /\ ended' = a.err
    BY <1>4
  <1>6. PICK a : a = Answer(c, Len(readers))
    OBVIOUS
  <1>7. /\ left' = left - c.n /\ readers' = a.readers /\ reqBody' = a.buf
        /\ \/ pc' = "drain" /\ ended' = "nil"
           \/ pc' = pc /\ ended' = a.err
    BY <1>2, <1>5, <1>6
  <1>8. PICK k \in 0..Len(readers) : k = Len(readers)
    <2>1. Len(readers) \in 0..Len(readers)
      BY Types DEF IInv
    <2> QED
      BY <2>1
  <1>9. Conn(c, k) /\ Passes(a, c, k) /\ Reads(a, c, k)
    BY <1>1, <1>6, <1>7, <1>8, HandlerReads
  <1>10. ReportInv'
    <2> SUFFICES ASSUME call < 2, pc' \in InHandler, NEW j \in Limiters'
                 PROVE  /\ readers'[j].err # "nil" => ended' # "nil" \/ Hidden(j, reqBody)'
                        /\ readers'[j].err = "big" => ended' = "big" \/ Hidden(j, reqBody)'
      BY <1>1 DEF ReportInv
    <2>1. Silent
      BY <1>2 DEF OverflowInv, ReportInv, InHandler, Silent
    <2>2. j \in Limiters /\ (Outside(j)' <=> Outside(j)) /\ j <= k /\ pc' # "drain"
      <3>1. Limiters' = Limiters /\ \A i \in DOMAIN readers : Outside(i)' <=> Outside(i)
        BY <1>8, <1>9, SameReaders DEF IInv, Passes
      <3>2. DOMAIN readers = 1..Len(readers) /\ Len(readers) \in Nat
        BY Types DEF IInv
      <3>3. j \in Limiters /\ j \in DOMAIN readers
        BY <3>1 DEF Limiters
      <3> QED
        BY <1>8, <3>1, <3>2, <3>3 DEF InHandler
    <2>3. /\ a.readers[j].err # "nil" => a.err # "nil" \/ Hidden(j, a.buf)
          /\ a.readers[j].err = "big" => a.err = "big" \/ Hidden(j, a.buf)
      BY <1>9, <2>1, <2>2 DEF Passes, Reported
    <2> QED
      BY <1>1, <1>7, <2>2, <2>3 DEF Hidden
  <1>11. OutcomeInv'
    <2>1. call <= 1 /\ pc \in {"form", "decode"} => "multipart" \notin parsed
      BY DEF OverflowInv, OutcomeInv
    <2> QED
      BY <1>1, <1>2, <1>7, <2>1 DEF OutcomeInv, Answering
  <1>12. CodeInv'
    BY <1>1, <1>3 DEF CodeInv
  <1> QED
    BY <1>10, <1>11, <1>12 DEF OverflowInv

LEMMA ParseFormReports ==
    ASSUME IInv, OverflowInv, ParseForm
    PROVE  OverflowInv'
  <1>1. /\ pc = "form" /\ ended' = ended /\ parsed' = parsed \cup {"form"} /\ req' = req
        /\ call' = call /\ taken' = taken /\ readers' = readers /\ reqBody' = reqBody
        /\ entered' = entered
        /\ \/ ended = "big" /\ Fail(400, TRUE) /\ pc' \in {"handler", "respond"}
           \/ ended # "big" /\ pc' = "decode" /\ result' = result
    BY DEF ParseForm, GiveUp
  <1>2. ReportInv'
    BY <1>1, ReportStays DEF OverflowInv, InHandler
  <1>3. ended = "big" => result'.big /\ result'.code = 400 /\ req.content = "urlencoded" /\ Bind
    BY <1>1, FailsAs DEF OverflowInv, OutcomeInv, IInv, CallInv
  <1>4. ~result.big
    BY <1>1 DEF OverflowInv, CodeInv, Answering
  <1>5. OutcomeInv'
    BY <1>1, <1>3 DEF OverflowInv, OutcomeInv, Excused
  <1>6. CodeInv'
    BY <1>1, <1>3, <1>4 DEF CodeInv, OverflowCode, Answering, Bind
  <1> QED
    BY <1>2, <1>5, <1>6 DEF OverflowInv

LEMMA DecodeReports ==
    ASSUME IInv, OverflowInv, Decode
    PROVE  OverflowInv'
  <1>1. /\ pc = "decode" /\ ended' = ended /\ req' = req /\ call' = call /\ taken' = taken
        /\ readers' = readers /\ reqBody' = reqBody /\ entered' = entered
        /\ \/ Complete /\ pc' = "validate" /\ result' = result
           \/ Overflow /\ Bind /\ Fail(413, TRUE) /\ pc' \in {"handler", "respond"}
           \/ Overflow /\ ~Bind /\ Fail(500, TRUE) /\ pc' \in {"handler", "respond"}
           \/ ~Overflow /\ pc' \in {"handler", "respond"} /\ \E n \in {400, 500} : Fail(n, FALSE)
    BY DEF Decode, TooLarge, GiveUp
  <1>2. ReportInv'
    BY <1>1, ReportStays DEF OverflowInv, InHandler
  <1>3. ~result.big
    BY <1>1 DEF OverflowInv, CodeInv, Answering
  <1>4. /\ Overflow => result'.big /\ (result'.code = 413 \/ (result'.code = 500 /\ ~Bind))
        /\ ~Overflow => ~result'.big
        /\ Overflow => pc' # "validate"
    <2>1. (\E n \in {400, 500} : Fail(n, FALSE)) => ~result'.big
      BY PlainIsNotBig
    <2>2. /\ Fail(413, TRUE) => result'.big = TRUE /\ result'.code = 413
          /\ Fail(500, TRUE) => result'.big = TRUE /\ result'.code = 500
      BY FailsAs
    <2>4. CASE ~Overflow
      BY <1>1, <1>3, <2>1, <2>4
    <2>5. CASE Overflow
      <3>1. ~Complete
        BY <2>5 DEF Overflow
      <3> QED
        BY <1>1, <2>2, <2>5, <3>1
    <2> QED
      BY <2>4, <2>5
  <1>5. (ended = "big" /\ call < 2) => Overflow \/ Excused
    <2> SUFFICES ASSUME ended = "big", call < 2, Complete PROVE Excused
      BY DEF Overflow
    <2>1. call \in 0..2
      BY DEF IInv, Typed, TypeOK
    <2>2. Excused \/ req.content \in {"json", "multipart"}
      BY <1>1 DEF OverflowInv, OutcomeInv, Answering
    <2>3. "multipart" \notin parsed
      BY <1>1, <2>1 DEF OverflowInv, OutcomeInv
    <2> QED
      BY <2>2, <2>3 DEF Complete, Excused
  <1>6. OutcomeInv'
    BY <1>1, <1>4, <1>5 DEF OutcomeInv, Excused
  <1>7. CodeInv'
    BY <1>1, <1>4 DEF CodeInv, OverflowCode, Answering, Bind
  <1> QED
    BY <1>2, <1>6, <1>7 DEF OverflowInv

LEMMA ValidateReports ==
    ASSUME IInv, OverflowInv, Validate
    PROVE  OverflowInv'
  <1>1. /\ pc = "validate" /\ ended' = ended /\ req' = req /\ call' = call /\ taken' = taken
        /\ readers' = readers /\ reqBody' = reqBody /\ entered' = entered
        /\ \/ pc' = "respond" /\ result' = result
           \/ pc' \in {"handler", "respond"} /\ \E n \in {400, 500} : Fail(n, FALSE)
    BY DEF Validate, GiveUp
  <1>2. ReportInv'
    BY <1>1, ReportStays DEF OverflowInv, InHandler
  <1>3. ~result'.big
    <2>1. ~result.big
      BY <1>1 DEF OverflowInv, CodeInv, Answering
    <2>2. (\E n \in {400, 500} : Fail(n, FALSE)) => ~result'.big
      BY PlainIsNotBig
    <2> QED
      BY <1>1, <2>1, <2>2
  <1>4. (ended = "big" /\ call < 2) => Excused
    BY <1>1 DEF OverflowInv, OutcomeInv, Answering
  <1>5. OutcomeInv'
    BY <1>1, <1>4 DEF OutcomeInv, Excused
  <1>6. CodeInv'
    BY <1>3 DEF CodeInv
  <1> QED
    BY <1>2, <1>5, <1>6 DEF OverflowInv

LEMMA ReadDoneReports ==
    ASSUME IInv, OverflowInv, ReadDone
    PROVE  OverflowInv'
  <1>1. /\ pc = "read" /\ pc' = "respond" /\ ended' = ended /\ req' = req /\ call' = call
        /\ taken' = taken /\ readers' = readers /\ reqBody' = reqBody /\ entered' = entered
        /\ ended = "big" => Fail(500, TRUE)
        /\ ended # "big" => result' = result
    BY DEF ReadDone
  <1>2. ReportInv'
    BY <1>1, ReportStays DEF OverflowInv, InHandler
  <1>3. ~Bind /\ ~result.big
    BY <1>1 DEF IInv, CallInv, Bind, OverflowInv, CodeInv, Answering
  <1>4. /\ ended = "big" => result'.big /\ result'.code = 500
        /\ ended # "big" => ~result'.big
    BY <1>1, <1>3, FailsAs
  <1>5. OutcomeInv'
    BY <1>1, <1>4 DEF OutcomeInv
  <1>6. CodeInv'
    BY <1>1, <1>3, <1>4 DEF CodeInv, OverflowCode, Answering, Bind
  <1> QED
    BY <1>2, <1>5, <1>6 DEF OverflowInv

LEMMA RespondReports ==
    ASSUME IInv, OverflowInv, Respond
    PROVE  OverflowInv'
  <1>1. /\ pc = "respond" /\ pc' = "answer" /\ req' = req /\ result' = result
        /\ status' = IF result = NoError THEN 200 ELSE ErrorStatus
    BY DEF Respond, Send, inner
  <1>2. ReportInv' /\ OutcomeInv'
    BY <1>1 DEF ReportInv, OutcomeInv, InHandler, Answering
  <1>3. CodeInv'
    <2> SUFFICES ASSUME result.big PROVE OverflowCode' /\ OverflowStatus'
      BY <1>1 DEF CodeInv, Answering
    <2>1. result # NoError
      BY DEF NoError
    <2>2. OverflowCode
      BY DEF OverflowInv, CodeInv
    <2>3. status' = IF req.resolver THEN 413 ELSE result.code
      BY <1>1, <2>1 DEF ErrorStatus
    <2> QED
      BY <1>1, <2>2, <2>3 DEF OverflowCode, OverflowStatus, Bind
  <1> QED
    BY <1>2, <1>3 DEF OverflowInv

THEOREM OverflowInvariance == Spec => []OverflowInv
  <1>1. Init => OverflowInv
    BY DEF Init, OverflowInv, ReportInv, OutcomeInv, CodeInv, InHandler, NoError
  <1>2. IInv /\ OverflowInv /\ [Next]_vars => OverflowInv'
    <2> SUFFICES ASSUME IInv, OverflowInv, [Next]_vars PROVE OverflowInv'
      OBVIOUS
    <2>1. CASE EnterLogger
      BY <2>1, BeforeCall DEF EnterLogger, inner, InHandler
    <2>2. CASE Middleware
      BY <2>2, BeforeCall DEF Middleware, Send, outer, inner, InHandler
    <2>3. CASE EnterHandler
      BY <2>3, BeforeCall DEF EnterHandler, inner
    <2>4. CASE ReadForm
      <3>1. pc = "answer" /\ pc' \in {"answer", "drain"} /\ UNCHANGED <<req, call, ended, result, status>>
        BY <2>4 DEF ReadForm, outer
      <3> QED
        BY <3>1, AfterCall DEF Answering
    <2>5. CASE WriteBody
      <3>1. pc = "answer" /\ pc' \in {"drain", "done"} /\ UNCHANGED <<req, call, ended, result, status>>
        BY <2>5 DEF WriteBody, Return, inner
      <3> QED
        BY <3>1, AfterCall DEF Answering
    <2>6. CASE Drain
      <3>1. pc = "drain" /\ pc' \in {"drain", "done"} /\ UNCHANGED <<req, call, ended, result, status>>
        BY <2>6 DEF Drain, inner
      <3> QED
        BY <3>1, AfterCall DEF Answering
    <2>7. CASE UNCHANGED vars
      <3>1. UNCHANGED <<req, pc, entered, readers, reqBody, call, taken, ended, parsed, result, status>>
        BY <2>7 DEF vars
      <3>2. ReportInv'
        BY <3>1 DEF OverflowInv, ReportInv, Hidden, Outside, Limiters
      <3>3. OutcomeInv' /\ CodeInv'
        BY <3>1 DEF OverflowInv, OutcomeInv, CodeInv, Excused, OverflowCode, OverflowStatus, Bind
      <3> QED
        BY <3>2, <3>3 DEF OverflowInv
    <2> QED
      BY <2>1, <2>2, <2>3, <2>4, <2>5, <2>6, <2>7, CallLimitReports, ReadReports, ParseFormReports,
         DecodeReports, ValidateReports, ReadDoneReports, RespondReports DEF Next
  <1> QED
    BY <1>1, <1>2, Invariance, PTL DEF Spec

\* A body that ran into a limit is an error of the handler's call, and a 413
\* with the default resolver, unless the JSON value it was after was complete, or
\* a limit outside of the logger stopped what the log cut off (bind.go:205-245,
\* bodylimit.go:87-104, limitedbuffer.go:63).
THEOREM OverflowsAreReported == Spec => []OverflowIs413
  <1>1. IInv /\ OverflowInv => OverflowIs413
    <2> SUFFICES ASSUME IInv, OverflowInv PROVE OverflowIs413
      OBVIOUS
    <2>1. ASSUME (pc = "respond" /\ call < 2) \/ (pc = "handler" /\ call = 1),
                 NEW i \in Limiters, readers[i].err = "big"
          PROVE  \/ result.big
                 \/ req.content = "json" /\ taken >= req.needed
                 \/ entered /\ i < TeeAt /\ reqBody.cut
      <3>1. call < 2 /\ pc \in {"handler", "respond"}
        BY <2>1
      <3>2. ended = "big" \/ Hidden(i, reqBody)
        BY <2>1, <3>1 DEF OverflowInv, ReportInv, InHandler
      <3>3. CASE ended = "big"
        BY <3>1, <3>3 DEF OverflowInv, OutcomeInv, Excused, Answering
      <3>4. CASE Hidden(i, reqBody)
        <4>1. TeeAt \in DOMAIN readers /\ readers[TeeAt].tee
          <5>1. \E t \in DOMAIN readers : readers[t].tee
            BY <3>4 DEF IInv, TeeInv, Hidden
          <5> QED
            BY <5>1 DEF TeeAt
        <4>2. TeeAt \notin 1..i
          BY <3>4, <4>1 DEF Hidden, Outside
        <4>3. DOMAIN readers = 1..Len(readers) /\ Len(readers) \in Nat /\ i \in DOMAIN readers
          BY Types DEF IInv, Limiters
        <4>4. i < TeeAt
          BY <4>1, <4>2, <4>3
        <4> QED
          BY <3>4, <4>4 DEF Hidden
      <3> QED
        BY <3>2, <3>3, <3>4
    <2>2. (pc \in {"drain", "done"} /\ result.big) => OverflowStatus
      BY DEF OverflowInv, CodeInv, Answering
    <2> QED
      BY <2>1, <2>2 DEF OverflowIs413, OverflowStatus
  <1> QED
    BY <1>1, Invariance, OverflowInvariance, PTL

\* A body that fits every limit and was not cut off for the log is never called
\* too large (bodylimit.go:39-46).
THEOREM FittingAccepted == Spec => []FittingNeverRejected
  <1>1. IInv => FittingNeverRejected
    BY DEF IInv, CleanInv, Clean, Overrun, Installed, FittingNeverRejected
  <1> QED
    BY <1>1, Invariance, PTL

\* An urlencoded form that Bind accepts at its first call is the whole body, or
\* the log has cut it off (bind.go:205-212).
THEOREM AcceptedFormsWhole == Spec => []AcceptedFormIsWhole
  <1>1. IInv => AcceptedFormIsWhole
    <2> SUFFICES ASSUME IInv, status = 200, Bind, call = 1, req.content = "urlencoded", Clean
                 PROVE  taken = req.size /\ stray = 0
      BY DEF AcceptedFormIsWhole, Clean
    <2>1. stray = 0
      BY DEF IInv, CleanInv
    <2>2. "form" \in parsed /\ (taken = req.size \/ Refusal)
      BY DEF IInv, FormInv
    <2>3. ~Refusal
      <3>1. pc \in {"answer", "drain", "done"}
        BY DEF IInv, ResponseInv
      <3> QED
        BY <3>1 DEF Refusal
    <2> QED
      BY <2>1, <2>2, <2>3
  <1> QED
    BY <1>1, Invariance, PTL

\* The log holds what went by, as far as it fits, and its mark stands only where
\* bytes are missing (limitedbuffer.go:45-69).
THEOREM BuffersHoldPrefixes == Spec => []BufferIsPrefix
  <1>1. IInv => BufferIsPrefix
    <2> SUFFICES ASSUME IInv, entered PROVE BufferIsPrefix
      BY DEF BufferIsPrefix
    <2> DEFINE max == req.maxBodySize
               t == TeeAt
               T == {req.size - left} \cup {readers[i].limit : i \in 1..(t - 1)}
    <2>1. /\ readers \in Seq(Reader) /\ DOMAIN readers = 1..Len(readers) /\ Len(readers) \in Nat
          /\ \A j \in DOMAIN readers : readers[j] \in Reader
          /\ max \in Int /\ Got \in Nat /\ reqBody \in Buffer
          /\ TruncSize \in Nat /\ TruncSize > 0
      BY Types, TruncSizeAssumption DEF IInv
    <2>2. t \in DOMAIN readers /\ readers[t].tee
      <3>1. \E i \in DOMAIN readers : readers[i].tee
        BY DEF IInv, TeeInv
      <3> QED
        BY <3>1 DEF TeeAt
    <2>3. Passed = Min(T)
      BY DEF Passed
    <2> HIDE DEF t
    <2>4. \A i \in 1..(t - 1) : i \in Limiters /\ Outside(i)
      <3>1. \A i \in 1..(t - 1) : i \in DOMAIN readers /\ i # t
        BY <2>1, <2>2
      <3>2. \A i \in 1..(t - 1) : ~readers[i].tee
        BY <2>2, <3>1 DEF IInv, TeeInv
      <3>3. \A i \in 1..(t - 1) : \A j \in 1..i : j \in 1..(t - 1)
        BY <2>1, <2>2
      <3> QED
        BY <3>1, <3>2, <3>3 DEF Limiters, Outside
    <2>5. \A i \in Limiters : Outside(i) => i \in 1..(t - 1)
      <3> SUFFICES ASSUME NEW i \in Limiters, Outside(i) PROVE i \in 1..(t - 1)
        OBVIOUS
      <3>1. i \in 1..Len(readers) /\ t \in 1..Len(readers)
        BY <2>1, <2>2 DEF Limiters
      <3>2. ~(t \in 1..i)
        BY <2>2 DEF Outside
      <3> QED
        BY <2>1, <3>1, <3>2
    <2>6. \A i \in Limiters : readers[i].limit \in Nat
      <3>1. \A i \in Limiters : readers[i] \in Reader
        BY <2>1 DEF Limiters
      <3> QED
        BY <3>1, ReaderFacts
    <2>7. T \in SUBSET Nat /\ T # {} /\ Got \in T
      BY <2>1, <2>4, <2>6 DEF Got
    <2>a. \A n \in T : n = Got \/ \E i \in Limiters : Outside(i) /\ n = readers[i].limit
      BY <2>4 DEF Got
    <2>b. \A i \in Limiters : Outside(i) => readers[i].limit \in T
      BY <2>5
    <2> HIDE DEF T
    <2>8. Passed \in T /\ \A n \in T : Passed <= n
      BY <2>3, <2>7, MinFacts
    <2>9. Passed \in Nat /\ Passed <= Got
      BY <2>7, <2>8
    <2>10. Logs(reqBody, Got)
      BY DEF IInv, BufferInv
    <2>11. CASE reqBody.cut
      <3>1. /\ max > 0 /\ reqBody.kept < max /\ max < Got
            /\ \A i \in Limiters : Outside(i) => max < readers[i].limit
        BY <2>10, <2>11 DEF Logs
      <3>2. Passed > max
        <4>1. max < Passed
          BY <2>8, <2>a, <3>1
        <4> QED
          BY <2>1, <2>9, <4>1
      <3>3. reqBody.kept \in Nat /\ reqBody.kept <= max /\ Length(reqBody) < max + TruncSize
        <4>1. reqBody.kept \in Nat
          BY <2>1 DEF Buffer
        <4>2. Length(reqBody) = reqBody.kept + TruncSize
          BY <2>11 DEF Length
        <4> QED
          BY <2>1, <3>1, <4>1, <4>2
      <3>4. max > 0 => Length(respBody) < max + TruncSize
        BY DEF IInv, ResponseInv
      <3>5. \A b \in {reqBody, respBody} : max > 0 => Length(b) < max + TruncSize
        BY <3>3, <3>4
      <3> QED
        BY <2>11, <3>1, <3>2, <3>3, <3>5 DEF BufferIsPrefix
    <2>12. CASE ~reqBody.cut
      <3> DEFINE n == reqBody.kept
      <3>0. n \in Nat
        BY <2>1 DEF Buffer
      <3>1. /\ n <= Got /\ (max > 0 => n <= max)
            /\ \A i \in Limiters : Outside(i) => n <= readers[i].limit
            /\ \/ n = Got
               \/ \E i \in Limiters : Outside(i) /\ n = readers[i].limit
               \/ max > 0 /\ n = max
        BY <2>10, <2>12 DEF Logs, Holds
      <3> HIDE DEF n
      <3>2. n <= Passed
        BY <2>8, <2>a, <3>1
      <3>3. n = Passed \/ (max > 0 /\ n = max)
        <4>1. \/ n \in T
              \/ max > 0 /\ n = max
          BY <2>7, <2>b, <3>1
        <4>2. n \in T => n = Passed
          <5>1. n \in T => Passed <= n
            BY <2>8
          <5> QED
            BY <2>9, <3>0, <3>2, <5>1
        <4> QED
          BY <4>1, <4>2
      <3>4. max > 0 => Min({Passed, max}) = n
        <4> DEFINE p == Passed
        <4>1. p \in Int /\ max \in Int /\ n <= p /\ (n = p \/ n = max) /\ (max > 0 => n <= max)
          BY <2>1, <2>9, <3>1, <3>2, <3>3
        <4> HIDE DEF p, max
        <4>2. Min({p, max}) = IF p <= max THEN p ELSE max
          BY <4>1, TwoNumbers
        <4>3. max > 0 => (IF p <= max THEN p ELSE max) = n
          BY <3>0, <4>1
        <4> QED
          BY <4>2, <4>3 DEF p
      <3>5. n = IF max > 0 THEN Min({Passed, max}) ELSE Passed
        BY <3>3, <3>4
      <3>6. max > 0 => Length(reqBody) < max + TruncSize
        <4>1. Length(reqBody) = n + 0
          BY <2>12 DEF Length, n
        <4> QED
          BY <2>1, <3>0, <3>1, <4>1
      <3>7. max > 0 => Length(respBody) < max + TruncSize
        BY DEF IInv, ResponseInv
      <3>8. \A b \in {reqBody, respBody} : max > 0 => Length(b) < max + TruncSize
        BY <3>6, <3>7
      <3> QED
        BY <2>12, <3>5, <3>8 DEF BufferIsPrefix, n
    <2> QED
      BY <2>11, <2>12
  <1> QED
    BY <1>1, Invariance, PTL

\* Logging a body that fits the log changes nothing for the handler, and the
\* record counts what the handler has left (logger.go:489-496).
THEOREM SmallBodiesAsTheyAre == Spec => []SmallBodiesUndisturbed
  <1>1. IInv => SmallBodiesUndisturbed
    <2> SUFFICES ASSUME IInv PROVE SmallBodiesUndisturbed
      OBVIOUS
    <2>1. /\ req.size \in Nat /\ left \in Nat /\ left <= req.size /\ req.maxBodySize \in Int
          /\ taken \in Nat /\ DOMAIN readers = 1..Len(readers)
      BY Types DEF IInv
    <2>2. ASSUME Fits(req.size) PROVE Clean
      <3> SUFFICES ASSUME entered, reqBody.cut PROVE FALSE
        BY DEF Clean
      <3>1. req.maxBodySize > 0 /\ req.maxBodySize < Got
        BY DEF IInv, BufferInv, Logs
      <3> QED
        BY <2>1, <2>2, <3>1 DEF Fits, Got
    <2>3. ASSUME Clean
          PROVE  /\ ~crashed /\ stray = 0 /\ (ended = "eof" => left = 0)
                 /\ (pc = "done" /\ entered /\ \A i \in DOMAIN readers : readers[i].err # "big")
                       => unread = req.size - taken
      <3>1. /\ ~crashed /\ stray = 0 /\ (ended = "eof" => left = 0)
            /\ ~Overflowed => taken + unread = Got
            /\ pc = "done" /\ entered => left = 0 \/ Overflowed
        BY <2>3 DEF IInv, CleanInv
      <3>2. unread \in Nat
        BY DEF IInv, Typed, TypeOK
      <3>3. ASSUME pc = "done", entered, \A i \in DOMAIN readers : readers[i].err # "big"
            PROVE  unread = req.size - taken
        <4>1. ~Overflowed
          BY <3>3 DEF Overflowed
        <4>2. left = 0 /\ taken + unread = Got
          BY <3>1, <3>3, <4>1
        <4> QED
          BY <2>1, <3>2, <4>2 DEF Got
      <3> QED
        BY <3>1, <3>3
    <2>4. Fits(offered) => ~appended
      BY DEF IInv, ResponseInv
    <2> QED
      BY <2>2, <2>3, <2>4 DEF SmallBodiesUndisturbed
  <1> QED
    BY <1>1, Invariance, PTL
=============================================================================
