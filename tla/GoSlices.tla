------------------------------ MODULE GoSlices ------------------------------
(***************************************************************************)
(* Go slices as the code uses them: a slice is a window on a backing array *)
(* that other slices may share, and append writes into that array whenever *)
(* it has room.  The arrays are a sequence of sequences of cells; the      *)
(* capacity of a slice is what is left of its array.                       *)
(***************************************************************************)
EXTENDS Integers, Sequences

CONSTANT Nil   \* an unused cell of an array

\* A slice: its array (0 is the nil slice) and its length.
NilSlice == [arr |-> 0, len |-> 0]

Cap(arrays, s) == IF s.arr = 0 THEN 0 ELSE Len(arrays[s.arr])

View(arrays, s) == IF s.arr = 0 THEN <<>> ELSE SubSeq(arrays[s.arr], 1, s.len)

HasRoom(arrays, s, n) == s.len + n <= Cap(arrays, s)

\* The runtime doubles a small array, or takes what is needed if that is more.
NewCap(old, need) == IF need > 2 * old THEN need ELSE 2 * old

\* The cells of s followed by xs, in an array of capacity c.
Grown(arrays, s, xs, c) ==
    [i \in 1..c |-> IF i <= s.len THEN arrays[s.arr][i]
                    ELSE IF i <= s.len + Len(xs) THEN xs[i - s.len]
                    ELSE Nil]

\* append(s, xs...): the arrays afterwards and the slice returned.
Append_(arrays, s, xs) ==
    LET n == Len(xs)
    IN  IF n = 0 THEN [arrays |-> arrays, slice |-> s]
        ELSE IF HasRoom(arrays, s, n)
          THEN [arrays |-> [arrays EXCEPT ![s.arr] =
                    [i \in DOMAIN @ |-> IF i \in s.len + 1 .. s.len + n THEN xs[i - s.len] ELSE @[i]]],
                slice |-> [s EXCEPT !.len = s.len + n]]
          ELSE [arrays |-> Append(arrays,
                    Grown(arrays, s, xs, NewCap(Cap(arrays, s), s.len + n))),
                slice |-> [arr |-> Len(arrays) + 1, len |-> s.len + n]]
=============================================================================
