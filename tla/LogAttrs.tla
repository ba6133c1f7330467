------------------------------ MODULE LogAttrs ------------------------------
(***************************************************************************)
(* logger.go: the attributes of one request.  UseStructuredLogger puts a   *)
(* pointer to an empty slice into the context; AppendLogAttrs and          *)
(* SetLogError extend that slice, Log appends its own attributes to it     *)
(* without storing the result, and the logger's deferred function reads it *)
(* once the handler has returned.  A handler may do this from several      *)
(* goroutines, and the code has no lock: here the program orders its calls *)
(* of AppendLogAttrs, as any write has to be, and nothing orders its calls *)
(* of Log among themselves.  A step is one access to the shared slice or   *)
(* its array.  (Two Log calls may write one cell at once.  What it holds   *)
(* then is undefined in Go; here the last write wins.)                     *)
(***************************************************************************)
EXTENDS GoSlices

CONSTANTS
    Goroutines,    \* goroutines of the handler
    MaxOps         \* bound: calls made in the request

ASSUME MaxOpsAssumption == MaxOps \in Nat /\ Nil \notin 1..MaxOps

VARIABLES
    arrays,    \* backing arrays
    v,         \* the slice in the context
    pc,        \* "idle", "append" or "log": before the write; "store" or "emit": after
    held,      \* the slice a goroutine works on
    attr,      \* the attribute of its call: calls are numbered
    crossed,   \* goroutines whose call of Log has overlapped another (history)
    expect,    \* what AppendLogAttrs had added when its call began (history)
    added,     \* what AppendLogAttrs has added (history)
    ops,       \* calls begun
    records    \* the records of Log, and that of the deferred function

vars == <<arrays, v, pc, held, attr, crossed, expect, added, ops, records>>

TypeOK ==
    /\ \A a \in DOMAIN arrays : \A i \in DOMAIN arrays[a] : arrays[a][i] \in 1..MaxOps \cup {Nil}
    /\ pc \in [Goroutines -> {"idle", "append", "log", "store", "emit", "done"}]
    /\ \A s \in {v} \cup {held[g] : g \in Goroutines} :
           s.arr \in 0..Len(arrays) /\ s.len <= Cap(arrays, s)
    /\ attr \in [Goroutines -> 0..MaxOps]
    /\ crossed \subseteq Goroutines
    /\ ops \in 0..MaxOps

Init ==
    /\ arrays = <<>> /\ v = NilSlice
    /\ pc = [g \in Goroutines |-> "idle"]
    /\ held = [g \in Goroutines |-> NilSlice]
    /\ attr = [g \in Goroutines |-> 0]
    /\ expect = [g \in Goroutines |-> <<>>]
    /\ crossed = {} /\ added = <<>> /\ ops = 0 /\ records = {}

AllIdle == \A g \in Goroutines : pc[g] = "idle"
Logging == {g \in Goroutines : pc[g] \in {"log", "emit"}}
Appending == \E g \in Goroutines : pc[g] \in {"append", "store"}

\* GetLogAttrs, or the read of *v in AppendLogAttrs: load the slice.
Load(g, call) ==
    /\ pc[g] = "idle" /\ ops < MaxOps
    /\ ops' = ops + 1
    /\ attr' = [attr EXCEPT ![g] = ops']
    /\ held' = [held EXCEPT ![g] = v]
    /\ expect' = [expect EXCEPT ![g] = added]
    /\ pc' = [pc EXCEPT ![g] = call]

BeginAppend(g) ==
    /\ AllIdle
    /\ Load(g, "append")
    /\ UNCHANGED <<arrays, v, crossed, added, records>>

BeginLog(g) ==
    /\ ~Appending
    /\ Load(g, "log")
    /\ crossed' = IF AllIdle THEN crossed \ {g} ELSE crossed \cup {g} \cup Logging
    /\ UNCHANGED <<arrays, v, added, records>>

\* append writes into the array, or into a new one.
Write(g) ==
    /\ pc[g] \in {"append", "log"}
    /\ LET a == Append_(arrays, held[g], <<attr[g]>>)
       IN  arrays' = a.arrays /\ held' = [held EXCEPT ![g] = a.slice]
    /\ pc' = [pc EXCEPT ![g] = IF @ = "append" THEN "store" ELSE "emit"]
    /\ UNCHANGED <<v, attr, crossed, expect, added, ops, records>>

\* Mutant of Store: the slice is stored up to its capacity.
StoreWhole(g) ==
    /\ pc[g] = "store"
    /\ v' = [held[g] EXCEPT !.len = Cap(arrays, held[g])]
    /\ added' = Append(added, attr[g])
    /\ pc' = [pc EXCEPT ![g] = "idle"]
    /\ UNCHANGED <<arrays, held, attr, crossed, expect, ops, records>>

\* AppendLogAttrs stores the slice, ...
Store(g) ==
    /\ pc[g] = "store"
    /\ v' = held[g]
    /\ added' = Append(added, attr[g])
    /\ pc' = [pc EXCEPT ![g] = "idle"]
    /\ UNCHANGED <<arrays, held, attr, crossed, expect, ops, records>>

\* Mutant of Emit: Log stores the extended slice in the context.
EmitAndStore(g) ==
    /\ pc[g] = "emit"
    /\ records' = records \cup
         {[attrs |-> View(arrays, held[g]), added |-> expect[g],
          own |-> IF g \in crossed THEN {} ELSE {attr[g]}]}
    /\ v' = held[g]
    /\ pc' = [pc EXCEPT ![g] = "idle"]
    /\ UNCHANGED <<arrays, held, attr, crossed, expect, added, ops>>

\* ... Log hands it to the logger, which copies the attributes.
Emit(g) ==
    /\ pc[g] = "emit"
    /\ records' = records \cup
         {[attrs |-> View(arrays, held[g]), added |-> expect[g],
          own |-> IF g \in crossed THEN {} ELSE {attr[g]}]}
    /\ pc' = [pc EXCEPT ![g] = "idle"]
    /\ UNCHANGED <<arrays, v, held, attr, crossed, expect, added, ops>>

\* The handler has returned, its goroutines with it: the access record.
AccessRecord ==
    /\ AllIdle
    /\ records' = records \cup {[attrs |-> View(arrays, v), added |-> added, own |-> {}]}
    /\ pc' = [g \in Goroutines |-> "done"]
    /\ UNCHANGED <<arrays, v, held, attr, crossed, expect, added, ops>>

Next ==
    \/ \E g \in Goroutines :
          BeginAppend(g) \/ BeginLog(g) \/ Write(g) \/ Store(g) \/ Emit(g)
    \/ AccessRecord

Spec == Init /\ [][Next]_vars

-----------------------------------------------------------------------------
\* A record starts with the attributes added before the call, in their order,
\* and nothing that was given to another call of Log takes their place, though
\* all of them append to one array.  A call of Log that no other has crossed
\* also has its own attribute, at the end.  What the access record will hold is
\* all that AppendLogAttrs has added, and nothing that only Log was given.
RecordsExact ==
    /\ \A r \in records :
          /\ SubSeq(r.attrs, 1, Len(r.added)) = r.added
          /\ Len(r.attrs) <= Len(r.added) + 1
          /\ \A x \in r.own : r.attrs = Append(r.added, x)
    /\ View(arrays, v) = added

=============================================================================
