----------------------------- MODULE MCLogAttrs -----------------------------
(* TLC instances of LogAttrs.                                              *)
EXTENDS LogAttrs, TLC
Sym == Permutations(Goroutines)
=============================================================================
