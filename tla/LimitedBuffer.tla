---------------------------- MODULE LimitedBuffer ----------------------------
(***************************************************************************)
(* internal/logging/limitedbuffer.go: a buffer that keeps a body for the   *)
(* log up to a size.  What it holds is a length: the bytes kept, whether   *)
(* the mark "[...truncated]" follows them, and the room that is left.      *)
(***************************************************************************)
EXTENDS Integers, FiniteSetsExt

CONSTANT TruncSize    \* length of the mark

ASSUME TruncSizeAssumption == TruncSize \in Nat \ {0}

Buffer == [kept : Nat, cut : BOOLEAN, remaining : Int]

Reset(maxSize) == [kept |-> 0, cut |-> FALSE, remaining |-> maxSize]

Length(b) == b.kept + (IF b.cut THEN TruncSize ELSE 0)

Kept(b, n) == [buf |-> [b EXCEPT !.kept = @ + n, !.remaining = @ - n], n |-> n, eof |-> FALSE]

\* The write that passes the limit: it claims the mark as written, and io.EOF.
Cut(b, kept, n) ==
    [buf |-> [kept |-> kept, cut |-> TRUE, remaining |-> 0], n |-> n + TruncSize, eof |-> TRUE]

\* Mutant of Write: the write that reaches the limit is kept whole.
WriteWhole(b, maxSize, n) ==
    IF maxSize > 0 /\ b.remaining <= 0 THEN [buf |-> b, n |-> n, eof |-> FALSE]
    ELSE IF maxSize > 0 /\ b.remaining < n THEN Cut(b, b.kept + n, n)
    ELSE Kept(b, n)

\* Mutant of Write: a body of exactly the limit is cut.
WriteCutsEqual(b, maxSize, n) ==
    IF maxSize > 0 /\ b.remaining <= 0 THEN [buf |-> b, n |-> n, eof |-> FALSE]
    ELSE IF maxSize > 0 /\ b.remaining <= n
      THEN Cut(b, b.kept + Max({0, b.remaining - TruncSize}), n)
    ELSE Kept(b, n)

\* Write of n bytes: the buffer after it, the count it returns, and whether
\* io.EOF comes with it.  maxSize <= 0: no limit.
Write(b, maxSize, n) ==
    IF maxSize > 0 /\ b.remaining <= 0 THEN [buf |-> b, n |-> n, eof |-> FALSE]
    ELSE IF maxSize > 0 /\ b.remaining < n
      THEN Cut(b, b.kept + Max({0, b.remaining - TruncSize}), n)
    ELSE Kept(b, n)

=============================================================================
