---------------------------- MODULE MCConfigChain ----------------------------
EXTENDS ConfigChain, TLC
Sym == Permutations(Fns)
=============================================================================
