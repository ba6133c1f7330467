----------------------------- MODULE SliceProofs -----------------------------
(***************************************************************************)
(* Proofs about the two modules whose slices share arrays, for any number  *)
(* of goroutines, calls and configs: what append does to such arrays; that *)
(* no record of LogAttrs loses or mixes up what AppendLogAttrs has added;  *)
(* and that only a fork overwrites a config of ConfigChain.                *)
(***************************************************************************)
EXTENDS LogAttrs, ConfigChain, TLAPS

-----------------------------------------------------------------------------
(* Slices.                                                                 *)

Arrays(S) == Seq(Seq(S))
Slice == [arr : Nat, len : Nat]

\* A slice on arrays aa.
IsSlice(aa, s) ==
    /\ s \in Slice /\ s.arr \in 0..Len(aa)
    /\ s.len <= Cap(aa, s)

\* The slice s holds the sequence q.
Holds(aa, s, q) ==
    /\ s.len = Len(q)
    /\ \A i \in 1..s.len : aa[s.arr][i] = q[i]

\* Nothing but the cells of slice s from its length on differs between the
\* arrays aa and bb, and no array is lost.
Extends(aa, bb, s) ==
    /\ Len(aa) <= Len(bb)
    /\ \A k \in 1..Len(aa) :
          /\ Len(bb[k]) = Len(aa[k])
          /\ \A i \in 1..Len(aa[k]) : (k # s.arr \/ i <= s.len) => bb[k][i] = aa[k][i]

\* The capacity of a slice other than the nil slice is the length of its array.
LEMMA CapFacts ==
    ASSUME NEW S, NEW aa \in Arrays(S), NEW s, IsSlice(aa, s)
    PROVE  /\ Cap(aa, s) \in Nat
           /\ s.arr # 0 => /\ s.arr \in 1..Len(aa) /\ aa[s.arr] \in Seq(S)
                           /\ Cap(aa, s) = Len(aa[s.arr])
           /\ s.arr = 0 => s.len = 0 /\ Cap(aa, s) = 0
  BY DEF Arrays, IsSlice, Cap, Slice

\* Reading a slice gives what it holds.
LEMMA ViewFacts ==
    ASSUME NEW S, NEW aa \in Arrays(S), NEW s, IsSlice(aa, s), NEW q \in Seq(S), Holds(aa, s, q)
    PROVE  View(aa, s) = q
  <1>1. CASE s.arr = 0
    BY <1>1, CapFacts DEF View, Holds
  <1>2. CASE s.arr # 0
    <2>1. aa[s.arr] \in Seq(S) /\ s.len \in 0..Len(aa[s.arr]) /\ s.len = Len(q)
      BY <1>2, CapFacts DEF IsSlice, Slice, Holds
    <2>2. /\ SubSeq(aa[s.arr], 1, s.len) \in Seq(S) /\ Len(SubSeq(aa[s.arr], 1, s.len)) = s.len
          /\ \A i \in 1..s.len : SubSeq(aa[s.arr], 1, s.len)[i] = aa[s.arr][i]
      BY <2>1
    <2>3. \A i \in 1..s.len : SubSeq(aa[s.arr], 1, s.len)[i] = q[i]
      BY <2>2 DEF Holds
    <2> QED
      BY <1>2, <2>1, <2>2, <2>3 DEF View
  <1> QED
    BY <1>1, <1>2

\* The arrays bb and the slice t are aa and s with xs appended.
Appends(aa, s, xs, bb, t) ==
    /\ IsSlice(bb, t) /\ Extends(aa, bb, s)
    /\ t.len = s.len + Len(xs)
    /\ xs # <<>> => t.arr # 0
    /\ t.arr = s.arr \/ \A k \in 1..Len(aa) : bb[k] = aa[k]
    /\ \A i \in 1..s.len : bb[t.arr][i] = aa[s.arr][i]
    /\ \A i \in 1..Len(xs) : bb[t.arr][s.len + i] = xs[i]

\* append(s, xs...) returns a slice that holds what s held and then xs, and
\* changes nothing that a slice of at most the length of s can see.
LEMMA AppendFacts ==
    ASSUME NEW S, NEW aa \in Arrays(S), NEW s, IsSlice(aa, s), NEW xs \in Seq(S), Nil \in S,
           NEW a, a = Append_(aa, s, xs)
    PROVE  a.arrays \in Arrays(S) /\ Appends(aa, s, xs, a.arrays, a.slice)
  <1> DEFINE n == Len(xs)
  <1>0. s.len \in Nat /\ s.arr \in Nat /\ Len(aa) \in Nat /\ n \in Nat
    BY DEF IsSlice, Slice, Arrays
  <1>1. CASE n = 0
    <2>1. a.arrays = aa /\ a.slice = s /\ xs = <<>>
      BY <1>1 DEF Append_
    <2>2. Extends(aa, aa, s)
      BY <1>0 DEF Extends
    <2>3. /\ a.arrays \in Arrays(S) /\ IsSlice(a.arrays, a.slice)
          /\ a.slice.len = s.len + n /\ Extends(aa, a.arrays, s) /\ a.slice.arr = s.arr
          /\ \A i \in 1..s.len : a.arrays[a.slice.arr][i] = aa[s.arr][i]
          /\ \A i \in 1..n : a.arrays[a.slice.arr][s.len + i] = xs[i]
      BY <1>0, <1>1, <2>1, <2>2
    <2> QED
      BY <2>1, <2>3 DEF Appends
  <1>2. CASE n # 0 /\ HasRoom(aa, s, n)
    <2> DEFINE old == aa[s.arr]
               new == [i \in DOMAIN old |-> IF i \in s.len + 1 .. s.len + n THEN xs[i - s.len] ELSE old[i]]
    <2>0. s.arr # 0
      BY <1>0, <1>2, CapFacts DEF HasRoom
    <2>1. s.arr \in 1..Len(aa) /\ old \in Seq(S) /\ s.len + n <= Len(old)
      BY <1>0, <1>2, <2>0, CapFacts DEF HasRoom
    <2>2. a = [arrays |-> [aa EXCEPT ![s.arr] = new], slice |-> [s EXCEPT !.len = s.len + n]]
      BY <1>0, <1>2 DEF Append_
    <2>3. /\ new \in Seq(S) /\ Len(new) = Len(old)
          /\ \A i \in 1..n : new[s.len + i] = xs[i]
          /\ \A i \in 1..Len(old) : i <= s.len => new[i] = old[i]
      <3>1. DOMAIN old = 1..Len(old) /\ Len(old) \in Nat
        BY <2>1
      <3>2. \A i \in 1..n : s.len + i \in 1..Len(old) /\ s.len + i \in s.len + 1 .. s.len + n /\ (s.len + i) - s.len = i
        BY <1>0, <2>1, <3>1
      <3>3. \A i \in 1..n : new[s.len + i] = xs[i]
        BY <3>1, <3>2
      <3>4. \A i \in 1..Len(old) : i <= s.len => new[i] = old[i]
        BY <1>0, <3>1
      <3>5. \A i \in 1..Len(old) : i \in s.len + 1 .. s.len + n => i - s.len \in 1..n
        BY <1>0, <3>1
      <3>6. new \in [1..Len(old) -> S]
        BY <2>1, <3>1, <3>5
      <3> HIDE DEF new
      <3>7. new \in Seq(S) /\ Len(new) = Len(old)
        BY <3>1, <3>6
      <3> QED
        BY <3>3, <3>4, <3>7
    <2> HIDE DEF new
    <2>4. /\ a.arrays \in Seq(Seq(S)) /\ Len(a.arrays) = Len(aa) /\ a.arrays[s.arr] = new
          /\ \A k \in 1..Len(aa) : k # s.arr => a.arrays[k] = aa[k]
          /\ a.slice \in Slice /\ a.slice.arr = s.arr /\ a.slice.len = s.len + n
      <3>1. a.arrays = [aa EXCEPT ![s.arr] = new] /\ a.slice = [s EXCEPT !.len = s.len + n]
        BY <2>2
      <3>2. a.slice \in Slice /\ a.slice.arr = s.arr /\ a.slice.len = s.len + n
        BY <3>1, <1>0 DEF IsSlice, Slice
      <3>3. aa \in Seq(Seq(S))
        BY DEF Arrays
      <3> QED
        BY <3>1, <3>2, <3>3, <2>1, <2>3
    <2>5. IsSlice(a.arrays, a.slice)
      BY <1>0, <2>1, <2>3, <2>4 DEF IsSlice, Cap
    <2>6. Extends(aa, a.arrays, s)
      <3> SUFFICES ASSUME NEW k \in 1..Len(aa)
                   PROVE  /\ Len(a.arrays[k]) = Len(aa[k])
                          /\ \A i \in 1..Len(aa[k]) :
                                (k # s.arr \/ i <= s.len) => a.arrays[k][i] = aa[k][i]
        BY <1>0, <2>4 DEF Extends
      <3>1. CASE k = s.arr
        <4>1. a.arrays[k] = new /\ aa[k] = old
          BY <2>4, <3>1
        <4> QED
          BY <2>3, <3>1, <4>1
      <3>2. CASE k # s.arr
        BY <2>4, <3>2
      <3> QED
        BY <3>1, <3>2
    <2> HIDE DEF old
    <2>7. \A i \in 1..s.len : new[i] = old[i]
      <3>1. \A i \in 1..s.len : i \in 1..Len(old) /\ i <= s.len
        BY <1>0, <2>1
      <3> QED
        BY <2>3, <3>1
    <2>8. /\ a.arrays \in Arrays(S) /\ IsSlice(a.arrays, a.slice)
          /\ a.slice.len = s.len + n /\ Extends(aa, a.arrays, s)
          /\ a.slice.arr = s.arr /\ a.slice.arr # 0
          /\ \A i \in 1..s.len : a.arrays[a.slice.arr][i] = old[i]
          /\ \A i \in 1..n : a.arrays[a.slice.arr][s.len + i] = xs[i]
      BY <2>0, <2>3, <2>4, <2>5, <2>6, <2>7 DEF Arrays
    <2> QED
      BY <2>8 DEF Appends, old
  <1>3. CASE n # 0 /\ ~HasRoom(aa, s, n)
    <2> DEFINE c == NewCap(Cap(aa, s), s.len + n)
               new == Grown(aa, s, xs, c)
    <2>1. Cap(aa, s) \in Nat /\ c \in Nat /\ c >= s.len + n
      BY <1>0, CapFacts DEF NewCap, IsSlice
    <2>2. a = [arrays |-> Append(aa, new), slice |-> [arr |-> Len(aa) + 1, len |-> s.len + n]]
      BY <1>0, <1>3 DEF Append_
    <2>3. \A i \in 1..s.len : aa[s.arr][i] \in S
      BY <1>0, CapFacts DEF IsSlice
    <2>4. /\ new \in Seq(S) /\ Len(new) = c
          /\ \A i \in 1..n : new[s.len + i] = xs[i]
          /\ \A i \in 1..s.len : new[i] = aa[s.arr][i]
      <3>1. new = [i \in 1..c |-> IF i <= s.len THEN aa[s.arr][i]
                                  ELSE IF i <= s.len + n THEN xs[i - s.len] ELSE Nil]
        BY DEF Grown
      <3> HIDE DEF c, new
      <3>2. \A i \in 1..s.len : new[i] = aa[s.arr][i]
        BY <1>0, <2>1, <3>1
      <3>3. \A i \in 1..n : s.len + i \in 1..c /\ ~(s.len + i <= s.len) /\ s.len + i <= s.len + n
                            /\ (s.len + i) - s.len = i
        BY <1>0, <2>1
      <3>4. \A i \in 1..n : new[s.len + i] = xs[i]
        BY <3>1, <3>3
      <3>5. \A i \in 1..c : i \in 1..s.len \/ ~(i <= s.len)
        BY <1>0, <2>1
      <3>6. \A i \in 1..c : ~(i <= s.len) /\ i <= s.len + n => i - s.len \in 1..n
        BY <1>0, <2>1
      <3>7. new \in [1..c -> S]
        BY <2>3, <3>1, <3>5, <3>6
      <3> QED
        BY <2>1, <3>2, <3>4, <3>7
    <2> HIDE DEF new, c
    <2>5. /\ a.arrays \in Seq(Seq(S)) /\ Len(a.arrays) = Len(aa) + 1 /\ a.arrays[Len(aa) + 1] = new
          /\ \A k \in 1..Len(aa) : a.arrays[k] = aa[k]
          /\ a.slice \in Slice /\ a.slice.arr = Len(aa) + 1 /\ a.slice.len = s.len + n
      BY <1>0, <2>2, <2>4 DEF Arrays, Slice
    <2>6. IsSlice(a.arrays, a.slice)
      BY <1>0, <2>1, <2>4, <2>5 DEF IsSlice, Cap
    <2>7. a.arrays \in Arrays(S) /\ Extends(aa, a.arrays, s)
      <3>1. a.arrays \in Arrays(S)
        BY <2>5 DEF Arrays
      <3>2. Len(aa) <= Len(a.arrays)
        BY <1>0, <2>5
      <3>3. \A k \in 1..Len(aa) : a.arrays[k] = aa[k]
        BY <2>5
      <3> QED
        BY <3>1, <3>2, <3>3 DEF Extends
    <2>8. /\ a.slice.len = s.len + n /\ a.slice.arr = Len(aa) + 1 /\ a.slice.arr # 0
          /\ \A i \in 1..s.len : a.arrays[a.slice.arr][i] = aa[s.arr][i]
          /\ \A i \in 1..n : a.arrays[a.slice.arr][s.len + i] = xs[i]
      <3>1. a.arrays[a.slice.arr] = new /\ a.slice.len = s.len + n /\ a.slice.arr = Len(aa) + 1 /\ a.slice.arr # 0
        BY <1>0, <2>5
      <3> QED
        BY <2>4, <3>1
    <2> QED
      BY <2>5, <2>6, <2>7, <2>8 DEF Appends
  <1> QED
    BY <1>0, <1>1, <1>2, <1>3

\* A sequence is the beginning of the sequence with one more element.
LEMMA FrontFacts ==
    ASSUME NEW S, NEW q \in Seq(S), NEW x \in S
    PROVE  /\ Append(q, x) \in Seq(S) /\ Len(Append(q, x)) = Len(q) + 1
           /\ SubSeq(Append(q, x), 1, Len(q)) = q
           /\ SubSeq(q, 1, Len(q)) = q
  OBVIOUS

\* A slice that ends where s ends, or before, holds the same after append(s, x).
LEMMA ExtendsFacts ==
    ASSUME NEW S, NEW aa \in Arrays(S), NEW bb \in Arrays(S), NEW s, Extends(aa, bb, s),
           NEW t, IsSlice(aa, t)
    PROVE  /\ IsSlice(bb, t)
           /\ \A i \in 1..t.len : i <= s.len => bb[t.arr][i] = aa[t.arr][i]
  <1>0. t.arr \in Nat /\ t.len \in Nat /\ Len(aa) \in Nat /\ Len(bb) \in Nat
    BY DEF IsSlice, Slice, Arrays
  <1>1. CASE t.arr = 0
    BY <1>0, <1>1, CapFacts DEF IsSlice, Cap, Slice
  <1>2. CASE t.arr # 0
    <2>1. /\ t.arr \in 1..Len(aa) /\ t.len <= Len(aa[t.arr]) /\ Len(aa[t.arr]) \in Nat
          /\ Len(bb[t.arr]) = Len(aa[t.arr])
      BY <1>0, <1>2, CapFacts DEF IsSlice, Cap, Extends
    <2>2. IsSlice(bb, t)
      BY <1>0, <1>2, <2>1 DEF IsSlice, Cap, Extends
    <2>3. \A i \in 1..t.len : i \in 1..Len(aa[t.arr])
      BY <1>0, <2>1
    <2> QED
      BY <2>1, <2>2, <2>3 DEF Extends
  <1> QED
    BY <1>1, <1>2

-----------------------------------------------------------------------------
(* LogAttrs: the invariant.                                                *)

Cells == 1..MaxOps \cup {Nil}

Typed ==
    /\ arrays \in Arrays(Cells)
    /\ pc \in [Goroutines -> {"idle", "append", "log", "store", "emit", "done"}]
    /\ IsSlice(arrays, v)
    /\ held \in [Goroutines -> Slice] /\ \A g \in Goroutines : IsSlice(arrays, held[g])
    /\ attr \in [Goroutines -> 0..MaxOps]
    /\ expect \in [Goroutines -> Seq(Cells)]
    /\ added \in Seq(Cells)
    /\ crossed \subseteq Goroutines
    /\ ops \in 0..MaxOps

\* A call of AppendLogAttrs is alone.
Alone ==
    \A g, h \in Goroutines : pc[g] \in {"append", "store"} /\ h # g => pc[h] = "idle"

\* A call in progress has a number; between the load and the write it has the
\* slice of the context, which no one has replaced.
Loaded ==
    \A g \in Goroutines :
       /\ pc[g] \in {"append", "log", "store", "emit"} => attr[g] \in 1..MaxOps
       /\ pc[g] \in {"append", "log"} => held[g] = v

\* What AppendLogAttrs is about to store.
Appended ==
    \A g \in Goroutines :
       pc[g] = "store" => Holds(arrays, held[g], Append(added, attr[g]))

\* Calls of Log that overlap know it.
Crossed ==
    \A g, h \in Logging : g # h => g \in crossed

\* What a call of Log has: one cell more than the context's slice, of which
\* only another call of Log can have taken the last.
Logged ==
    \A g \in Goroutines :
       /\ pc[g] \in {"log", "emit"} => expect[g] = added
       /\ pc[g] = "emit" =>
             /\ held[g].arr # 0 /\ held[g].len = Len(added) + 1
             /\ \A i \in 1..Len(added) : arrays[held[g].arr][i] = added[i]
             /\ g \notin crossed => arrays[held[g].arr][Len(added) + 1] = attr[g]

Exact(r) ==
    /\ SubSeq(r.attrs, 1, Len(r.added)) = r.added
    /\ Len(r.attrs) <= Len(r.added) + 1
    /\ \A x \in r.own : r.attrs = Append(r.added, x)

IInv ==
    /\ Typed
    /\ Holds(arrays, v, added)
    /\ Alone /\ Loaded /\ Appended /\ Crossed /\ Logged
    /\ \A r \in records : Exact(r)

\* The invariant holds before the handler's first call.
LEMMA InitInv == Init => IInv
  <1> SUFFICES ASSUME Init PROVE IInv
    OBVIOUS
  <1> USE DEF Init
  <1>1. IsSlice(arrays, NilSlice) /\ NilSlice \in Slice
    BY DEF IsSlice, Slice, NilSlice, Cap
  <1>2. Typed
    BY <1>1, MaxOpsAssumption DEF Typed, Arrays
  <1>3. Holds(arrays, v, added)
    BY DEF Holds, NilSlice
  <1>4. Alone /\ Loaded /\ Appended /\ Crossed /\ Logged
    BY DEF Alone, Loaded, Appended, Crossed, Logging, Logged
  <1>5. \A r \in records : Exact(r)
    OBVIOUS
  <1> QED
    BY <1>2, <1>3, <1>4, <1>5 DEF IInv

\* Loading the slice for a call.
LEMMA LoadStep ==
    ASSUME IInv, NEW g \in Goroutines, NEW call \in {"append", "log"}, Load(g, call),
           UNCHANGED <<arrays, v, added>>, crossed' \subseteq Goroutines
    PROVE  /\ Typed' /\ Holds(arrays, v, added)' /\ Loaded' /\ Appended'
           /\ pc[g] = "idle" /\ pc'[g] = call /\ expect'[g] = added
           /\ \A h \in Goroutines : h # g =>
                 pc'[h] = pc[h] /\ held'[h] = held[h] /\ attr'[h] = attr[h] /\ expect'[h] = expect[h]
  <1> USE DEF IInv
  <1>1. /\ pc' \in [Goroutines -> {"idle", "append", "log", "store", "emit", "done"}]
        /\ pc[g] = "idle" /\ pc'[g] = call
        /\ held' \in [Goroutines -> Slice] /\ held'[g] = v
        /\ ops' \in 1..MaxOps /\ attr' \in [Goroutines -> 0..MaxOps] /\ attr'[g] = ops'
        /\ expect' \in [Goroutines -> Seq(Cells)] /\ expect'[g] = added
        /\ \A h \in Goroutines : h # g =>
              pc'[h] = pc[h] /\ held'[h] = held[h] /\ attr'[h] = attr[h] /\ expect'[h] = expect[h]
    BY MaxOpsAssumption DEF Typed, Load, IsSlice
  <1>2. Typed'
    <2>1. \A h \in Goroutines : IsSlice(arrays, held'[h])
      BY <1>1 DEF Typed
    <2> QED
      BY <1>1, <2>1 DEF Typed, IsSlice, Cap
  <1>3. Loaded'
    BY <1>1 DEF Loaded
  <1>4. Appended'
    <2> SUFFICES ASSUME NEW h \in Goroutines, pc'[h] = "store"
                 PROVE  Holds(arrays', held'[h], Append(added', attr'[h]))
      BY DEF Appended, Holds
    <2>1. h # g
      BY <1>1
    <2> QED
      BY <1>1, <2>1 DEF Appended
  <1>5. Holds(arrays, v, added)'
    BY DEF Holds
  <1> QED
    BY <1>1, <1>2, <1>3, <1>4, <1>5

\* A call of AppendLogAttrs begins.
LEMMA BeginAppendStep ==
    ASSUME IInv, NEW g \in Goroutines, BeginAppend(g)
    PROVE  IInv'
  <1> USE DEF IInv
  <1>1. AllIdle /\ Load(g, "append") /\ UNCHANGED <<arrays, v, crossed, added, records>>
    BY DEF BeginAppend
  <1>2. /\ Typed' /\ Holds(arrays, v, added)' /\ Loaded' /\ Appended'
        /\ pc'[g] = "append" /\ \A h \in Goroutines : h # g => pc'[h] = "idle"
    BY <1>1, LoadStep DEF Typed, AllIdle
  <1>3. Alone' /\ Crossed' /\ Logged'
    BY <1>2 DEF Alone, Crossed, Logging, Logged
  <1>4. \A r \in records' : Exact(r)
    BY <1>1
  <1> QED
    BY <1>2, <1>3, <1>4 DEF Exact

\* A call of Log begins, alone or across others.
LEMMA BeginLogStep ==
    ASSUME IInv, NEW g \in Goroutines, BeginLog(g)
    PROVE  IInv'
  <1> USE DEF IInv
  <1>1. /\ ~Appending /\ Load(g, "log") /\ UNCHANGED <<arrays, v, added, records>>
        /\ crossed' = IF AllIdle THEN crossed \ {g} ELSE crossed \cup {g} \cup Logging
    BY DEF BeginLog
  <1>2. crossed' \subseteq Goroutines
    BY <1>1 DEF Typed, Logging
  <1>3. /\ Typed' /\ Holds(arrays, v, added)' /\ Loaded' /\ Appended'
        /\ pc[g] = "idle" /\ pc'[g] = "log" /\ expect'[g] = added
        /\ \A h \in Goroutines : h # g =>
              pc'[h] = pc[h] /\ held'[h] = held[h] /\ attr'[h] = attr[h] /\ expect'[h] = expect[h]
    BY <1>1, <1>2, LoadStep
  <1>4. Alone'
    BY <1>1, <1>3 DEF Alone, Appending
  <1>5. Logging' = Logging \cup {g}
    BY <1>3 DEF Logging
  <1>6. Crossed'
    <2>1. CASE AllIdle
      BY <1>5, <2>1 DEF Crossed, AllIdle, Logging
    <2>2. CASE ~AllIdle
      BY <1>1, <1>5, <2>2 DEF Crossed
    <2> QED
      BY <2>1, <2>2
  <1>7. Logged'
    <2>1. \A h \in Goroutines \ {g} : h \notin crossed' => h \notin crossed
      BY <1>1
    <2> QED
      BY <1>1, <1>3, <2>1 DEF Logged
  <1>8. \A r \in records' : Exact(r)
    BY <1>1
  <1> QED
    BY <1>3, <1>4, <1>6, <1>7, <1>8 DEF Exact

\* The write of append, by either call: what any slice of at most the length
\* of the context's can see stays as it is.
LEMMA WriteStep ==
    ASSUME IInv, NEW g \in Goroutines, Write(g)
    PROVE  IInv'
  <1> USE DEF IInv
  <1>0. PICK xs : xs = <<attr[g]>>
    OBVIOUS
  <1>a. PICK a : a = Append_(arrays, held[g], xs)
    OBVIOUS
  <1>1. /\ pc[g] \in {"append", "log"} /\ arrays' = a.arrays
        /\ held' = [held EXCEPT ![g] = a.slice]
        /\ pc' = [pc EXCEPT ![g] = IF @ = "append" THEN "store" ELSE "emit"]
        /\ UNCHANGED <<v, attr, crossed, expect, added, ops, records>>
    BY <1>0, <1>a DEF Write
  <1>2. attr[g] \in Cells /\ Nil \in Cells /\ arrays \in Arrays(Cells) /\ IsSlice(arrays, held[g])
    BY <1>1 DEF Loaded, Cells, Typed
  <1>3. /\ a.arrays \in Arrays(Cells) /\ IsSlice(a.arrays, a.slice)
        /\ a.slice.len = held[g].len + 1 /\ Extends(arrays, a.arrays, held[g])
        /\ a.slice.arr # 0
        /\ \A i \in 1..held[g].len : a.arrays[a.slice.arr][i] = arrays[held[g].arr][i]
        /\ a.arrays[a.slice.arr][held[g].len + 1] = attr[g]
    <2>1. xs \in Seq(Cells) /\ Len(xs) = 1 /\ xs[1] = attr[g] /\ xs # <<>>
      BY <1>0, <1>2
    <2>2. a.arrays \in Arrays(Cells) /\ Appends(arrays, held[g], xs, a.arrays, a.slice)
      BY <1>a, <1>2, <2>1, AppendFacts
    <2> QED
      BY <2>1, <2>2 DEF Appends
  <1>4. held[g] = v /\ v.len = Len(added) /\ Len(added) \in Nat /\ attr[g] \in 1..MaxOps
    BY <1>1 DEF Loaded, Holds, Typed
  <1>5. /\ pc'[g] = IF pc[g] = "append" THEN "store" ELSE "emit"
        /\ held'[g] = a.slice
        /\ \A h \in Goroutines : h # g => pc'[h] = pc[h] /\ held'[h] = held[h]
        /\ pc' \in [Goroutines -> {"idle", "append", "log", "store", "emit", "done"}]
        /\ held' \in [Goroutines -> Slice]
    BY <1>1, <1>3 DEF Typed, IsSlice
  <1>6. \A t : IsSlice(arrays, t) => /\ IsSlice(arrays', t)
                                     /\ \A i \in 1..t.len : i <= v.len => arrays'[t.arr][i] = arrays[t.arr][i]
    BY <1>1, <1>2, <1>3, <1>4, ExtendsFacts
  <1>7. Typed'
    <2>1. \A h \in Goroutines : IsSlice(arrays', held'[h])
      BY <1>1, <1>3, <1>5, <1>6 DEF Typed
    <2>2. IsSlice(arrays', v')
      BY <1>1, <1>6 DEF Typed
    <2> HIDE DEF IInv
    <2> QED
      BY <1>1, <1>3, <1>5, <2>1, <2>2 DEF Typed, IInv
  <1>8. Holds(arrays, v, added)'
    BY <1>1, <1>4, <1>6 DEF Typed, Holds
  <1>9. /\ held'[g].arr # 0 /\ held'[g].len = Len(added) + 1
        /\ \A i \in 1..Len(added) : arrays'[held'[g].arr][i] = added[i]
        /\ arrays'[held'[g].arr][Len(added) + 1] = attr[g]
    BY <1>1, <1>3, <1>4, <1>5 DEF Holds
  <1>10. Alone' /\ Loaded'
    BY <1>1, <1>5 DEF Alone, Loaded
  <1>11. Crossed'
    BY <1>1, <1>5 DEF Crossed, Logging
  <1>12. Appended'
    <2> SUFFICES ASSUME NEW h \in Goroutines, pc'[h] = "store"
                 PROVE  Holds(arrays', held'[h], Append(added, attr[h]))
      BY <1>1 DEF Appended, Holds
    <2>1. h = g
      BY <1>1, <1>5 DEF Alone
    <2>2. /\ Append(added, attr[g]) \in Seq(Cells) /\ Len(Append(added, attr[g])) = Len(added) + 1
          /\ Append(added, attr[g])[Len(added) + 1] = attr[g]
          /\ \A i \in 1..Len(added) : Append(added, attr[g])[i] = added[i]
      BY <1>2 DEF Typed
    <2> QED
      BY <1>4, <1>9, <2>1, <2>2 DEF Holds
  <1>13. Logged'
    <2> SUFFICES ASSUME NEW h \in Goroutines
                 PROVE  /\ pc'[h] \in {"log", "emit"} => expect[h] = added
                        /\ pc'[h] = "emit" =>
                              /\ held'[h].arr # 0 /\ held'[h].len = Len(added) + 1
                              /\ \A i \in 1..Len(added) : arrays'[held'[h].arr][i] = added[i]
                              /\ h \notin crossed => arrays'[held'[h].arr][Len(added) + 1] = attr[h]
      BY <1>1 DEF Logged
    <2>1. CASE h = g
      BY <1>1, <1>5, <1>9, <2>1 DEF Logged
    <2>2. CASE h # g /\ pc[h] = "emit"
      <3>1. pc[g] = "log"
        BY <1>1, <2>2 DEF Alone
      <3>2. h \in crossed
        BY <2>2, <3>1 DEF Crossed, Logging
      <3>3. IsSlice(arrays, held[h]) /\ held'[h] = held[h] /\ held[h].len = Len(added) + 1
        BY <1>5, <2>2 DEF Typed, Logged
      <3>4. \A i \in 1..Len(added) : i \in 1..held[h].len /\ i <= v.len
        BY <1>4, <3>3
      <3> QED
        BY <1>6, <2>2, <3>2, <3>3, <3>4 DEF Logged
    <2>3. CASE h # g /\ pc[h] # "emit"
      BY <1>5, <2>3 DEF Logged
    <2> QED
      BY <2>1, <2>2, <2>3
  <1>14. \A r \in records' : Exact(r)
    BY <1>1
  <1> QED
    BY <1>7, <1>8, <1>10, <1>11, <1>12, <1>13, <1>14 DEF Exact

\* AppendLogAttrs stores what it has appended.
LEMMA StoreStep ==
    ASSUME IInv, NEW g \in Goroutines, Store(g)
    PROVE  IInv'
  <1> USE DEF IInv
  <1>1. /\ pc[g] = "store" /\ v' = held[g] /\ added' = Append(added, attr[g])
        /\ pc' = [pc EXCEPT ![g] = "idle"]
        /\ UNCHANGED <<arrays, held, attr, crossed, expect, ops, records>>
    BY DEF Store
  <1>2. \A h \in Goroutines : pc'[h] = "idle"
    BY <1>1 DEF Alone, Typed
  <1>3. attr[g] \in Cells
    BY <1>1 DEF Loaded, Cells
  <1>4. added' \in Seq(Cells) /\ IsSlice(arrays, held[g])
    BY <1>1, <1>3 DEF Typed
  <1>5. Typed'
    BY <1>1, <1>4 DEF Typed, IsSlice, Cap
  <1>6. Holds(arrays, v, added)'
    BY <1>1 DEF Appended, Holds
  <1>7. Alone' /\ Loaded' /\ Appended' /\ Crossed' /\ Logged'
    BY <1>2 DEF Alone, Loaded, Appended, Crossed, Logging, Logged
  <1>8. \A r \in records' : Exact(r)
    BY <1>1
  <1> QED
    BY <1>5, <1>6, <1>7, <1>8 DEF Exact

\* Log's record, of the cells its slice has by then.
LEMMA EmitStep ==
    ASSUME IInv, NEW g \in Goroutines, Emit(g)
    PROVE  IInv'
  <1> USE DEF IInv
  <1> DEFINE rec == [attrs |-> View(arrays, held[g]), added |-> expect[g],
                     own |-> IF g \in crossed THEN {} ELSE {attr[g]}]
             last == arrays[held[g].arr][Len(added) + 1]
  <1>1. /\ pc[g] = "emit" /\ records' = records \cup {rec}
        /\ pc' = [pc EXCEPT ![g] = "idle"]
        /\ UNCHANGED <<arrays, v, held, attr, crossed, expect, added, ops>>
    BY DEF Emit
  <1>2. /\ expect[g] = added /\ held[g].arr # 0 /\ held[g].len = Len(added) + 1
        /\ \A i \in 1..Len(added) : arrays[held[g].arr][i] = added[i]
        /\ g \notin crossed => last = attr[g]
        /\ IsSlice(arrays, held[g]) /\ arrays \in Arrays(Cells) /\ added \in Seq(Cells)
    BY <1>1 DEF Logged, Typed
  <1>3. last \in Cells
    BY <1>2, CapFacts DEF IsSlice
  <1> HIDE DEF last
  <1>4. View(arrays, held[g]) = Append(added, last)
    <2>1. /\ Append(added, last) \in Seq(Cells) /\ Len(Append(added, last)) = Len(added) + 1
          /\ Append(added, last)[Len(added) + 1] = last
          /\ \A i \in 1..Len(added) : Append(added, last)[i] = added[i]
      BY <1>2, <1>3
    <2>2. Holds(arrays, held[g], Append(added, last))
      BY <1>2, <2>1 DEF Holds, last
    <2> QED
      BY <1>2, <2>1, <2>2, ViewFacts
  <1>5. Exact(rec)
    BY <1>2, <1>3, <1>4, FrontFacts DEF Exact
  <1> HIDE DEF rec
  <1>6. \A r \in records' : Exact(r)
    BY <1>1, <1>5
  <1>7. \A h \in Goroutines : pc'[h] = IF h = g THEN "idle" ELSE pc[h]
    BY <1>1 DEF Typed
  <1>8. Typed' /\ Holds(arrays, v, added)'
    BY <1>1 DEF Typed, IsSlice, Cap, Holds
  <1>9. Alone' /\ Loaded' /\ Appended' /\ Crossed' /\ Logged'
    BY <1>1, <1>7 DEF Alone, Loaded, Appended, Crossed, Logging, Logged, Holds
  <1> QED
    BY <1>6, <1>8, <1>9 DEF Exact

\* The access record.
LEMMA AccessRecordStep ==
    ASSUME IInv, AccessRecord
    PROVE  IInv'
  <1> USE DEF IInv
  <1> DEFINE rec == [attrs |-> View(arrays, v), added |-> added, own |-> {}]
  <1>1. /\ records' = records \cup {rec} /\ pc' = [g \in Goroutines |-> "done"]
        /\ UNCHANGED <<arrays, v, held, attr, crossed, expect, added, ops>>
    BY DEF AccessRecord
  <1>2. View(arrays, v) = added
    BY ViewFacts DEF Typed
  <1>3. SubSeq(added, 1, Len(added)) = added /\ Len(added) <= Len(added) + 1
    BY DEF Typed
  <1>4. Exact(rec)
    BY <1>2, <1>3 DEF Exact
  <1> HIDE DEF rec
  <1>5. \A r \in records' : Exact(r)
    BY <1>1, <1>4
  <1>6. Typed' /\ Holds(arrays, v, added)'
    BY <1>1 DEF Typed, IsSlice, Cap, Holds
  <1>7. Alone' /\ Loaded' /\ Appended' /\ Crossed' /\ Logged'
    BY <1>1 DEF Alone, Loaded, Appended, Crossed, Logging, Logged
  <1> QED
    BY <1>5, <1>6, <1>7 DEF Exact

\* A step that leaves everything as it is.
LEMMA StutterStep == IInv /\ UNCHANGED vars => IInv'
  <1> SUFFICES ASSUME IInv, UNCHANGED vars PROVE IInv'
    OBVIOUS
  <1> USE DEF IInv, vars
  <1>1. Typed'
    BY DEF Typed, IsSlice, Cap
  <1>2. Holds(arrays, v, added)' /\ Alone' /\ Loaded'
    BY DEF Holds, Alone, Loaded
  <1>3. Appended' /\ Crossed' /\ Logged'
    BY DEF Appended, Holds, Crossed, Logging, Logged
  <1> QED
    BY <1>1, <1>2, <1>3 DEF Exact

\* The invariant holds in every state.
THEOREM Invariance == Spec => []IInv
  <1>1. IInv /\ Next => IInv'
    BY BeginAppendStep, BeginLogStep, WriteStep, StoreStep, EmitStep, AccessRecordStep DEF Next
  <1>2. IInv /\ [Next]_vars => IInv'
    BY <1>1, StutterStep
  <1> QED
    BY InitInv, <1>2, PTL DEF Spec

\* Every cell, slice and call stays what it is declared to be: no slice reaches
\* beyond its array.
THEOREM TypeCorrect == Spec => []TypeOK
  <1>1. IInv => TypeOK
    <2> SUFFICES ASSUME IInv PROVE TypeOK
      OBVIOUS
    <2>1. \A k \in DOMAIN arrays : \A i \in DOMAIN arrays[k] : arrays[k][i] \in 1..MaxOps \cup {Nil}
      BY DEF IInv, Typed, Arrays, Cells
    <2> QED
      BY <2>1 DEF IInv, Typed, TypeOK, IsSlice
  <1> QED
    BY <1>1, Invariance, PTL

\* However the calls of a request's goroutines interleave, its records hold
\* the attributes added before, in order, and the access record all of them.
THEOREM RecordsAreExact == Spec => []RecordsExact
  <1>1. IInv => RecordsExact
    BY ViewFacts DEF IInv, Typed, Exact, RecordsExact
  <1> QED
    BY <1>1, Invariance, PTL

-----------------------------------------------------------------------------
(* ConfigChain.                                                            *)

IsSeq(q) == \E S : q \in Seq(S)

SliceOf(i) == configs[i].resolvers

\* A fork outside of i's line has written where i's line looks.
Forked(i) ==
    \E a \in made[i].line, b \in Known \ made[i].line :
        LET p == SliceOf(configs[b].parent)
            s == SliceOf(a)
        IN  configs[b].added /\ p.arr = s.arr /\ p.len < s.len

\* The slice of a config is as long as what it was built to hold, no config was
\* derived through a later one, and nothing is appended to a slice without
\* resolvers in place: it has no array.
Shape(i) ==
    /\ IsSlice(backing, SliceOf(i))
    /\ SliceOf(i).arr # 0 => SliceOf(i).len # 0
    /\ made[i].resolvers \in Seq(ResolverCells)
    /\ SliceOf(i).len = Len(made[i].resolvers)
    /\ i \in made[i].line /\ made[i].line \subseteq 1..i
    /\ configs[i].parent \in 0..(i - 1)
    /\ configs[i].added => configs[i].parent # 0

\* Every cell of a config is what it was built to hold unless there was a fork,
\* and the first is in any case.
Content(i) ==
    /\ Holds(backing, SliceOf(i), made[i].resolvers) \/ Forked(i)
    /\ SliceOf(i).len # 0 => backing[SliceOf(i).arr][1] = made[i].resolvers[1]

ConfigInv ==
    /\ backing \in Arrays(ResolverCells)
    /\ IsSeq(configs) /\ IsSeq(made) /\ Len(made) = Len(configs)
    /\ \A i \in 1..Len(configs) : Shape(i) /\ Content(i)

\* What Append does to a sequence of whatever elements.
LEMMA IsSeqFacts ==
    ASSUME NEW q, IsSeq(q), NEW x
    PROVE  /\ IsSeq(Append(q, x)) /\ Len(q) \in Nat /\ Len(Append(q, x)) = Len(q) + 1
           /\ DOMAIN q = 1..Len(q)
           /\ \A i \in 1..Len(q) : Append(q, x)[i] = q[i]
           /\ Append(q, x)[Len(q) + 1] = x
  <1>1. PICK S : q \in Seq(S)
    BY DEF IsSeq
  <1>2. q \in Seq(S \cup {x}) /\ x \in S \cup {x}
    BY <1>1
  <1> QED
    BY <1>2 DEF IsSeq

\* NewConfig.
LEMMA ConfigInitInv == ConfigInit => ConfigInv
  <1> SUFFICES ASSUME ConfigInit PROVE ConfigInv
    OBVIOUS
  <1> DEFINE r == <<BodyLimitFn>>
  <1>1. /\ backing = <<r>> /\ Len(configs) = 1 /\ Len(made) = 1
        /\ SliceOf(1).arr = 1 /\ SliceOf(1).len = 1 /\ SliceOf(1) \in Slice
        /\ configs[1].parent = 0 /\ configs[1].added = FALSE
        /\ made[1].resolvers = r /\ made[1].line = {1}
    BY DEF ConfigInit, SliceOf, Slice
  <1>2. IsSeq(configs) /\ IsSeq(made)
    <2>1. \A x : <<x>> \in Seq({x})
      OBVIOUS
    <2> QED
      BY <2>1 DEF ConfigInit, IsSeq
  <1>3. r \in Seq(ResolverCells) /\ Len(r) = 1 /\ r[1] = BodyLimitFn
    BY DEF ResolverCells
  <1> HIDE DEF r
  <1>4. backing \in Arrays(ResolverCells) /\ Len(backing) = 1 /\ backing[1] = r
    BY <1>1, <1>3 DEF Arrays
  <1>5. Shape(1)
    <2>1. IsSlice(backing, SliceOf(1))
      <3>1. backing[SliceOf(1).arr] = r
        BY <1>1, <1>4
      <3>2. SliceOf(1).arr # 0 /\ SliceOf(1).arr \in 0..Len(backing)
        BY <1>1, <1>4
      <3>3. Cap(backing, SliceOf(1)) = 1
        BY <1>3, <3>1, <3>2 DEF Cap
      <3> QED
        BY <1>1, <3>2, <3>3 DEF IsSlice
    <2> QED
      BY <1>1, <1>3, <2>1 DEF Shape
  <1>6. Content(1)
    BY <1>1, <1>3, <1>4 DEF Content, Holds
  <1> QED
    BY <1>1, <1>2, <1>4, <1>5, <1>6 DEF ConfigInv

\* A derived config joins the others: the call has appended, if to anything, to
\* the slice of the config it was made on, and then says so.
LEMMA DeriveStep ==
    ASSUME ConfigInv, NEW i \in Known, NEW rs, NEW lim, NEW added_, NEW expected,
           Derive(i, rs, lim, added_, expected),
           backing' \in Arrays(ResolverCells),
           NEW t, Extends(backing, backing', t),
           t.arr = 0 \/ (t = SliceOf(i) /\ added_) \/ backing' = backing,
           IsSlice(backing', rs), rs.arr # 0 => rs.len # 0,
           expected \in Seq(ResolverCells), rs.len = Len(expected),
           Holds(backing', rs, expected) \/ Forked(i),
           rs.len # 0 => backing'[rs.arr][1] = expected[1]
    PROVE  ConfigInv'
  <1>n. PICK n : n = Len(configs) + 1
    OBVIOUS
  <1>0. /\ Len(configs) \in Nat /\ Known = 1..Len(configs) /\ i \in 1..Len(configs)
        /\ Len(made) = Len(configs)
    BY IsSeqFacts DEF ConfigInv, Known
  <1>1. /\ IsSeq(configs') /\ IsSeq(made') /\ Len(configs') = n /\ Len(made') = n
        /\ \A c \in 1..Len(configs) : configs'[c] = configs[c] /\ made'[c] = made[c]
        /\ configs'[n].resolvers = rs /\ configs'[n].parent = i /\ configs'[n].added = added_
        /\ made'[n].resolvers = expected /\ made'[n].line = made[i].line \cup {n}
    <2>1. /\ configs' = Append(configs, [resolvers |-> rs, limit |-> lim, parent |-> i, added |-> added_])
          /\ made' = Append(made, [resolvers |-> expected, limit |-> lim,
                                   line |-> made[i].line \cup {Len(made) + 1}])
      BY DEF Derive
    <2>2. IsSeq(configs) /\ IsSeq(made)
      BY DEF ConfigInv
    <2>3. /\ IsSeq(configs') /\ Len(configs') = n
          /\ \A c \in 1..Len(configs) : configs'[c] = configs[c]
          /\ configs'[n] = [resolvers |-> rs, limit |-> lim, parent |-> i, added |-> added_]
      BY <1>n, <2>1, <2>2, IsSeqFacts
    <2>4. /\ IsSeq(made') /\ Len(made') = n
          /\ \A c \in 1..Len(configs) : made'[c] = made[c]
          /\ made'[n] = [resolvers |-> expected, limit |-> lim, line |-> made[i].line \cup {n}]
      <3>1. Len(made) + 1 = n
        BY <1>n, <1>0
      <3>2. PICK x : x = [resolvers |-> expected, limit |-> lim, line |-> made[i].line \cup {n}]
        OBVIOUS
      <3>3. made' = Append(made, x)
        BY <2>1, <3>1, <3>2
      <3>4. IsSeq(made') /\ Len(made') = n /\ made'[n] = x /\ \A c \in 1..Len(made) : made'[c] = made[c]
        BY <2>2, <3>1, <3>3, IsSeqFacts
      <3> QED
        BY <1>0, <3>2, <3>4
    <2> QED
      BY <2>3, <2>4
  <1>2. Known' = 1..n
    BY <1>1, IsSeqFacts DEF Known
  <1>3. n = Len(configs) + 1 /\ n \in Nat /\ n \notin Known /\ 1..n = Known \cup {n}
    BY <1>0, <1>n
  <1>4. \A c \in Known : /\ SliceOf(c)' = SliceOf(c) /\ Shape(c) /\ Content(c)
                         /\ made[c].line \subseteq Known /\ n \notin made[c].line
                         /\ configs[c].added => configs[c].parent \in Known
    <2> SUFFICES ASSUME NEW c \in Known
                 PROVE  /\ SliceOf(c)' = SliceOf(c) /\ Shape(c) /\ Content(c)
                        /\ made[c].line \subseteq Known /\ n \notin made[c].line
                        /\ configs[c].added => configs[c].parent \in Known
      OBVIOUS
    <2>1. SliceOf(c)' = SliceOf(c) /\ Shape(c) /\ Content(c)
      BY <1>0, <1>1 DEF SliceOf, ConfigInv
    <2>2. made[c].line \subseteq 1..c /\ configs[c].parent \in 0..(c - 1)
          /\ (configs[c].added => configs[c].parent # 0)
      BY <2>1 DEF Shape
    <2>3. 1..c \subseteq Known /\ n \notin 1..c /\ \A x \in 0..(c - 1) : x # 0 => x \in Known
      BY <1>0, <1>3
    <2> QED
      BY <2>1, <2>2, <2>3
  <1>5. SliceOf(n)' = rs /\ \A x \in 1..i : x \in 1..n
    BY <1>0, <1>1, <1>3 DEF SliceOf
  <1>6. ASSUME NEW c \in Known, NEW d, made[c].line \subseteq made'[d].line,
               made'[d].line \subseteq made[c].line \cup {n}, Forked(c)
        PROVE  Forked(d)'
    <2>1. PICK a \in made[c].line, b \in Known \ made[c].line :
             /\ configs[b].added /\ SliceOf(configs[b].parent).arr = SliceOf(a).arr
             /\ SliceOf(configs[b].parent).len < SliceOf(a).len
      BY <1>6 DEF Forked
    <2>2. a \in made'[d].line /\ a \in Known /\ b \in Known' \ made'[d].line
      BY <1>2, <1>3, <1>4, <1>6
    <2>3. /\ SliceOf(a)' = SliceOf(a) /\ configs'[b] = configs[b]
          /\ SliceOf(configs[b].parent)' = SliceOf(configs[b].parent)
      <3>1. configs[b].parent \in Known /\ configs'[b] = configs[b]
        BY <1>0, <1>1, <1>4, <2>1
      <3>2. configs'[configs[b].parent] = configs[configs[b].parent] /\ configs'[a] = configs[a]
        BY <1>0, <1>1, <2>2, <3>1
      <3> QED
        BY <3>1, <3>2 DEF SliceOf
    <2> QED
      BY <2>1, <2>2, <2>3 DEF Forked
  <1>7. ASSUME NEW c \in Known PROVE Shape(c)'
    <2>1. IsSlice(backing', SliceOf(c))
      BY <1>4, <1>7, ExtendsFacts DEF ConfigInv, Shape
    <2> QED
      BY <1>0, <1>1, <1>4, <1>7, <2>1 DEF Shape
  <1>8. ASSUME NEW c \in Known PROVE Content(c)'
    <2> DEFINE s == SliceOf(c)
    <2>0. Forked(c) => Forked(c)'
      BY <1>0, <1>1, <1>6, <1>8
    <2>1. /\ IsSlice(backing, s) /\ s.len \in Nat
          /\ \A j \in 1..s.len : j <= t.len => backing'[s.arr][j] = backing[s.arr][j]
          /\ s.arr # 0 => s.arr \in 1..Len(backing) /\ s.len <= Len(backing[s.arr])
          /\ s.len # 0 => s.arr # 0
      <3>1. IsSlice(backing, s)
        BY <1>4, <1>8 DEF Shape
      <3>2. s.len \in Nat /\ s.len <= Cap(backing, s)
        BY <3>1 DEF IsSlice, Slice
      <3>3. \A j \in 1..s.len : j <= t.len => backing'[s.arr][j] = backing[s.arr][j]
        BY <3>1, ExtendsFacts DEF ConfigInv
      <3>4. /\ s.arr # 0 => s.arr \in 1..Len(backing) /\ s.len <= Len(backing[s.arr])
            /\ s.len # 0 => s.arr # 0
        BY <3>1, <3>2, CapFacts DEF ConfigInv
      <3> QED
        BY <3>1, <3>2, <3>3, <3>4
    <2>2. /\ SliceOf(c)' = s /\ made'[c] = made[c] /\ s.len = Len(made[c].resolvers)
          /\ Holds(backing, s, made[c].resolvers) \/ Forked(c)
          /\ s.len # 0 => backing[s.arr][1] = made[c].resolvers[1]
      BY <1>0, <1>1, <1>4, <1>8 DEF Content, Shape
    <2>3. CASE t.arr = 0 \/ backing' = backing \/ s.arr # t.arr
      <3>1. \A j \in 1..s.len : backing'[s.arr][j] = backing[s.arr][j]
        <4>1. CASE backing' = backing
          BY <4>1
        <4>2. CASE backing' # backing /\ s.len = 0
          BY <4>2
        <4>3. CASE backing' # backing /\ s.len # 0
          <5>1. s.arr # t.arr /\ s.arr \in 1..Len(backing)
            BY <2>1, <2>3, <4>3
          <5>2. \A j \in 1..s.len : j \in 1..Len(backing[s.arr])
            BY <2>1, <4>3, CapFacts DEF ConfigInv
          <5> QED
            BY <5>1, <5>2 DEF Extends
        <4> QED
          BY <4>1, <4>2, <4>3
      <3>2. Holds(backing, s, made[c].resolvers) => Holds(backing', s, made[c].resolvers)
        BY <3>1 DEF Holds
      <3>3. s.len # 0 => backing'[s.arr][1] = backing[s.arr][1]
        BY <2>1, <3>1
      <3> QED
        BY <2>0, <2>2, <3>2, <3>3 DEF Content, Holds
    <2>4. CASE t.arr # 0 /\ backing' # backing /\ s.arr = t.arr
      <3>1. t = SliceOf(i) /\ added_ /\ t.len \in Nat /\ t.len # 0
        BY <1>4, <2>4 DEF Shape, IsSlice, Slice
      <3>2. s.len # 0 => backing'[s.arr][1] = backing[s.arr][1]
        BY <2>1, <3>1
      <3>3. CASE s.len <= t.len
        <4>1. \A j \in 1..s.len : j <= t.len
          BY <2>1, <3>1, <3>3
        <4>2. Holds(backing, s, made[c].resolvers) => Holds(backing', s, made[c].resolvers)
          BY <2>1, <4>1 DEF Holds
        <4> QED
          BY <2>0, <2>2, <3>2, <4>2 DEF Content, Holds
      <3>4. CASE t.len < s.len
        <4>1. Forked(c)'
          <5>1. c \in made'[c].line /\ n \in Known' \ made'[c].line
            BY <1>2, <1>3, <1>4, <1>8, <2>2 DEF Shape
          <5>2. SliceOf(configs[n].parent)' = t /\ configs'[n].added
            <6>1. SliceOf(i)' = SliceOf(i)
              BY <1>4
            <6> QED
              BY <1>1, <3>1, <6>1 DEF SliceOf
          <5> QED
            BY <2>2, <2>4, <3>4, <5>1, <5>2 DEF Forked
        <4> QED
          BY <2>2, <3>2, <4>1 DEF Content
      <3> QED
        BY <2>1, <3>1, <3>3, <3>4
    <2> QED
      BY <2>3, <2>4
  <1>9. Shape(n)'
    <2>1. n \in made'[n].line /\ made'[n].line \subseteq 1..n
      BY <1>1, <1>3, <1>4
    <2>2. i \in 0..(n - 1) /\ i # 0
      BY <1>0, <1>3
    <2> QED
      BY <1>1, <1>5, <2>1, <2>2 DEF Shape
  <1>10. Content(n)'
    <2>1. Forked(i) => Forked(n)'
      BY <1>0, <1>1, <1>6
    <2>2. Holds(backing, SliceOf(n), made[n].resolvers)' = Holds(backing', rs, expected)
      BY <1>1, <1>5 DEF Holds
    <2> QED
      BY <1>1, <1>5, <2>1, <2>2 DEF Content
  <1> QED
    BY <1>1, <1>2, <1>3, <1>7, <1>8, <1>9, <1>10 DEF ConfigInv

\* What a call on config i knows of it.
LEMMA KnownFacts ==
    ASSUME ConfigInv, NEW i \in Known
    PROVE  /\ Shape(i) /\ Content(i)
           /\ BodyLimitFn \in ResolverCells /\ Nil \in ResolverCells
           /\ \A fs \in FnSeqs : fs \in Seq(ResolverCells)
           /\ IsSlice(backing, NilSlice)
  <1>1. Known = 1..Len(configs)
    BY IsSeqFacts DEF ConfigInv, Known
  <1>2. ASSUME NEW fs \in FnSeqs PROVE fs \in Seq(ResolverCells)
    <2>1. PICK m \in 0..MaxAdd : fs \in [1..m -> Fns]
      BY DEF FnSeqs
    <2>2. m \in Nat /\ fs \in [1..m -> ResolverCells]
      BY <2>1 DEF ResolverCells
    <2> QED
      BY <2>2
  <1>3. IsSlice(backing, NilSlice)
    BY DEF ConfigInv, Arrays, IsSlice, Slice, NilSlice, Cap
  <1> QED
    BY <1>1, <1>2, <1>3 DEF ConfigInv, ResolverCells

\* SetErrorResolvers.
LEMMA SetErrorResolversStep ==
    ASSUME ConfigInv, NEW i \in Known, NEW fs \in FnSeqs, SetErrorResolvers(i, fs)
    PROVE  ConfigInv'
  <1>1. PICK a : a = Append_(backing, NilSlice, fs)
    OBVIOUS
  <1>2. backing' = a.arrays /\ Derive(i, a.slice, configs[i].limit, FALSE, fs)
    BY <1>1 DEF SetErrorResolvers
  <1>3. fs \in Seq(ResolverCells) /\ backing \in Arrays(ResolverCells)
    BY KnownFacts DEF ConfigInv
  <1>4. backing' \in Arrays(ResolverCells) /\ Appends(backing, NilSlice, fs, backing', a.slice)
    BY <1>1, <1>2, <1>3, KnownFacts, AppendFacts
  <1>5. NilSlice.arr = 0 /\ NilSlice.len = 0
    BY DEF NilSlice
  <1>6. /\ IsSlice(backing', a.slice) /\ Extends(backing, backing', NilSlice)
        /\ a.slice.len = Len(fs)
        /\ \A j \in 1..Len(fs) : backing'[a.slice.arr][j] = fs[j]
    BY <1>3, <1>4, <1>5 DEF Appends
  <1>7. Holds(backing', a.slice, fs)
    BY <1>6 DEF Holds
  <1>8. a.slice.arr # 0 => a.slice.len # 0
    <2>1. CASE fs = <<>>
      BY <1>1, <1>5, <2>1 DEF Append_
    <2>2. CASE fs # <<>>
      BY <1>3, <1>6, <2>2
    <2> QED
      BY <2>1, <2>2
  <1>9. a.slice.len # 0 => backing'[a.slice.arr][1] = fs[1]
    BY <1>3, <1>6
  <1> QED
    BY <1>2, <1>3, <1>4, <1>5, <1>6, <1>7, <1>8, <1>9, DeriveStep

\* AddErrorResolvers: in the receiver's own array if it has room.
LEMMA AddErrorResolversStep ==
    ASSUME ConfigInv, NEW i \in Known, NEW fs \in FnSeqs, AddErrorResolvers(i, fs)
    PROVE  ConfigInv'
  <1>1. PICK a : a = Append_(backing, SliceOf(i), fs)
    OBVIOUS
  <1>2. PICK s, q : s = SliceOf(i) /\ q = made[i].resolvers
    OBVIOUS
  <1>3. backing' = a.arrays /\ Derive(i, a.slice, configs[i].limit, TRUE, q \o fs)
    BY <1>1, <1>2 DEF AddErrorResolvers, SliceOf
  <1>4. /\ fs \in Seq(ResolverCells) /\ backing \in Arrays(ResolverCells)
        /\ q \in Seq(ResolverCells) /\ IsSlice(backing, s) /\ s.len = Len(q)
        /\ s.arr # 0 => s.len # 0
        /\ Holds(backing, s, q) \/ Forked(i)
        /\ s.len # 0 => backing[s.arr][1] = q[1]
    BY <1>2, KnownFacts DEF ConfigInv, Shape, Content
  <1>5. backing' \in Arrays(ResolverCells) /\ Appends(backing, s, fs, backing', a.slice)
    BY <1>1, <1>2, <1>3, <1>4, KnownFacts, AppendFacts
  <1>6. /\ IsSlice(backing', a.slice) /\ Extends(backing, backing', s)
        /\ a.slice.len = Len(q) + Len(fs)
        /\ fs # <<>> => a.slice.arr # 0
        /\ \A j \in 1..Len(q) : backing'[a.slice.arr][j] = backing[s.arr][j]
        /\ \A j \in 1..Len(fs) : backing'[a.slice.arr][Len(q) + j] = fs[j]
    BY <1>4, <1>5 DEF Appends
  <1>7. PICK e : e = q \o fs
    OBVIOUS
  <1>8. /\ e \in Seq(ResolverCells) /\ Len(e) = Len(q) + Len(fs) /\ Len(q) \in Nat /\ Len(fs) \in Nat
        /\ \A j \in 1..Len(q) : e[j] = q[j]
        /\ \A j \in 1..Len(fs) : e[Len(q) + j] = fs[j]
    BY <1>4, <1>7
  <1>9. Holds(backing, s, q) => Holds(backing', a.slice, e)
    <2> SUFFICES ASSUME Holds(backing, s, q), NEW j \in 1..a.slice.len
                 PROVE  backing'[a.slice.arr][j] = e[j]
      BY <1>6, <1>8 DEF Holds
    <2>0. Len(q) \in Nat /\ Len(fs) \in Nat /\ j \in 1..(Len(q) + Len(fs))
      <3>1. a.slice.len = Len(q) + Len(fs)
        BY <1>6
      <3> QED
        BY <1>8, <3>1
    <2>1. CASE j <= Len(q)
      <3>1. j \in 1..Len(q)
        BY <2>0, <2>1
      <3>2. backing[s.arr][j] = q[j]
        BY <1>4, <3>1 DEF Holds
      <3> QED
        BY <1>6, <1>8, <3>1, <3>2
    <2>2. CASE ~(j <= Len(q))
      <3>1. PICK k \in 1..Len(fs) : j = Len(q) + k
        <4>1. j - Len(q) \in 1..Len(fs) /\ j = Len(q) + (j - Len(q))
          BY <2>0, <2>2
        <4> QED
          BY <4>1
      <3> QED
        BY <1>6, <1>8, <3>1
    <2> QED
      BY <2>1, <2>2
  <1>10. a.slice.len # 0 => backing'[a.slice.arr][1] = e[1]
    <2>1. CASE Len(q) # 0
      <3>1. 1 \in 1..Len(q)
        BY <1>8, <2>1
      <3> QED
        BY <1>4, <1>6, <1>8, <2>1, <3>1
    <2>2. CASE Len(q) = 0
      <3>1. a.slice.len # 0 => 1 \in 1..Len(fs) /\ Len(q) + 1 = 1
        BY <1>6, <1>8, <2>2
      <3> QED
        BY <1>6, <1>8, <2>2, <3>1
    <2> QED
      BY <2>1, <2>2
  <1>11. a.slice.arr # 0 => a.slice.len # 0
    <2>1. CASE fs = <<>>
      <3>1. a.slice = s
        BY <1>1, <1>2, <2>1 DEF Append_
      <3> QED
        BY <1>4, <3>1
    <2>2. CASE fs # <<>>
      BY <1>4, <1>6, <1>8, <2>2
    <2> QED
      BY <2>1, <2>2
  <1> QED
    BY <1>2, <1>3, <1>4, <1>5, <1>6, <1>7, <1>8, <1>9, <1>10, <1>11, DeriveStep

\* SetMaxRequestBodyBytes, and the other calls that replace one value: the
\* slice is shared as it is.
LEMMA SetMaxRequestBodyBytesStep ==
    ASSUME ConfigInv, NEW i \in Known, NEW m, SetMaxRequestBodyBytes(i, m)
    PROVE  ConfigInv'
  <1>1. backing' = backing /\ Derive(i, SliceOf(i), m, FALSE, made[i].resolvers)
    BY DEF SetMaxRequestBodyBytes, SliceOf
  <1>2. Extends(backing, backing', NilSlice)
    BY <1>1 DEF ConfigInv, Arrays, Extends
  <1>3. backing' \in Arrays(ResolverCells) /\ Shape(i) /\ Content(i)
    BY <1>1, KnownFacts DEF ConfigInv
  <1>4. /\ IsSlice(backing', SliceOf(i))
        /\ SliceOf(i).arr # 0 => SliceOf(i).len # 0
        /\ made[i].resolvers \in Seq(ResolverCells) /\ SliceOf(i).len = Len(made[i].resolvers)
        /\ Holds(backing', SliceOf(i), made[i].resolvers) \/ Forked(i)
        /\ SliceOf(i).len # 0 => backing'[SliceOf(i).arr][1] = made[i].resolvers[1]
    BY <1>1, <1>3 DEF Shape, Content
  <1> QED
    BY <1>1, <1>2, <1>3, <1>4, DeriveStep

\* The invariant holds for configs however many and however derived.
THEOREM ConfigInvariance == ConfigSpec => []ConfigInv
  <1>1. ConfigInv /\ ConfigNext => ConfigInv'
    BY SetErrorResolversStep, AddErrorResolversStep, SetMaxRequestBodyBytesStep DEF ConfigNext
  <1>2. ConfigInv /\ UNCHANGED configVars => ConfigInv'
    <2> SUFFICES ASSUME ConfigInv, UNCHANGED configVars PROVE ConfigInv'
      OBVIOUS
    <2>1. backing' = backing /\ configs' = configs /\ made' = made
      BY DEF configVars
    <2>2. \A i : Shape(i)' <=> Shape(i)
      BY <2>1 DEF Shape, SliceOf, IsSlice, Cap
    <2>3. \A i : Content(i)' <=> Content(i)
      <3>1. \A i : Forked(i)' <=> Forked(i)
        BY <2>1 DEF Forked, SliceOf, Known
      <3> QED
        BY <2>1, <3>1 DEF Content, SliceOf, Holds
    <2> QED
      BY <2>1, <2>2, <2>3 DEF ConfigInv
  <1> QED
    BY ConfigInitInv, <1>1, <1>2, PTL DEF ConfigSpec

\* Whatever configs a program derives, in whatever order: one that is not what
\* it was built to be was overwritten by a fork outside of its line, and its
\* first resolver, the one for the body limit, is in place even then.
THEOREM OnlyForksOverwrite == ConfigSpec => []ForksOnly
  <1>1. ConfigInv => ForksOnly
    <2> SUFFICES ASSUME ConfigInv, NEW i \in Known
                 PROVE  /\ ~Intact(i) => Forked(i)
                        /\ made[i].resolvers # <<>> => Head(Resolvers(i)) = Head(made[i].resolvers)
      BY DEF ForksOnly, Forked, SliceOf
    <2>1. PICK s, q : s = SliceOf(i) /\ q = made[i].resolvers
      OBVIOUS
    <2>2. /\ backing \in Arrays(ResolverCells) /\ IsSlice(backing, s)
          /\ q \in Seq(ResolverCells) /\ s.len = Len(q)
          /\ Holds(backing, s, q) \/ Forked(i)
          /\ s.len # 0 => backing[s.arr][1] = q[1]
      BY <2>1, KnownFacts DEF ConfigInv, Shape, Content
    <2>3. Resolvers(i) = View(backing, s)
      BY <2>1 DEF Resolvers, SliceOf
    <2>4. Holds(backing, s, q) => Intact(i)
      BY <2>1, <2>2, <2>3, ViewFacts DEF Intact
    <2>5. ASSUME q # <<>> PROVE Head(Resolvers(i)) = Head(q)
      <3>1. Len(q) \in Nat /\ Len(q) # 0 /\ Head(q) = q[1]
        BY <2>2, <2>5
      <3>2. s.arr # 0
        BY <2>2, <3>1, CapFacts
      <3>3. backing[s.arr] \in Seq(ResolverCells) /\ s.len \in 1..Len(backing[s.arr])
        BY <2>2, <3>1, <3>2, CapFacts DEF IsSlice
      <3>4. Head(SubSeq(backing[s.arr], 1, s.len)) = backing[s.arr][1]
        BY <3>3
      <3> QED
        BY <2>2, <2>3, <3>1, <3>2, <3>4 DEF View
    <2> QED
      BY <2>1, <2>2, <2>4, <2>5
  <1> QED
    BY <1>1, ConfigInvariance, PTL

\* The variables of ConfigChain have their types.
THEOREM ConfigTypeCorrect == ConfigSpec => []ConfigTypeOK
  <1> DEFINE Bounded == Len(configs) <= MaxConfigs
  <1>1. ConfigInit => Bounded
    BY MaxConfigsAssumption DEF ConfigInit
  <1>2. ConfigInv /\ Bounded /\ [ConfigNext]_configVars => Bounded'
    <2> SUFFICES ASSUME ConfigInv, Bounded, [ConfigNext]_configVars PROVE Bounded'
      OBVIOUS
    <2>1. CASE configs' = configs
      BY <2>1
    <2>2. CASE \E i, rs, lim, given, expected : Derive(i, rs, lim, given, expected)
      <3>1. PICK x : Len(configs) < MaxConfigs /\ configs' = Append(configs, x)
        BY <2>2 DEF Derive
      <3>2. Len(configs) \in Nat /\ Len(configs') = Len(configs) + 1
        BY <3>1, IsSeqFacts DEF ConfigInv
      <3> QED
        BY <3>1, <3>2, MaxConfigsAssumption
    <2>3. ConfigNext => \E i, rs, lim, given, expected : Derive(i, rs, lim, given, expected)
      BY DEF ConfigNext, SetErrorResolvers, AddErrorResolvers, SetMaxRequestBodyBytes
    <2> QED
      BY <2>1, <2>2, <2>3 DEF configVars
  <1>3. ConfigInv /\ Bounded => ConfigTypeOK
    <2> SUFFICES ASSUME ConfigInv, Bounded PROVE ConfigTypeOK
      OBVIOUS
    <2>1. backing \in Seq(Seq(ResolverCells))
      BY DEF ConfigInv, Arrays
    <2>2. \A a \in DOMAIN backing : \A j \in DOMAIN backing[a] : backing[a][j] \in ResolverCells
      BY <2>1
    <2>3. ASSUME NEW i \in Known
          PROVE  /\ configs[i].resolvers.arr \in 0..Len(backing)
                 /\ configs[i].resolvers.len <= Cap(backing, configs[i].resolvers)
                 /\ configs[i].parent \in 0..(i - 1)
      BY KnownFacts DEF ConfigInv, Shape, IsSlice, SliceOf
    <2> QED
      BY <2>2, <2>3 DEF ConfigTypeOK, ConfigInv
  <1> QED
    BY <1>1, <1>2, <1>3, ConfigInvariance, PTL DEF ConfigSpec

=============================================================================
