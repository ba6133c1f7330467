------------------------------ MODULE MCSignIn ------------------------------
(* TLC instances of SignIn.                                                *)
EXTENDS SignIn, TLC

To(s, h, p) == [scheme |-> s, host |-> h, page |-> p]
Relative == To("none", "none", "a")
MCTargets == {Relative, To("http", "own", "b"), To("https", "foreign", "c")}
Sym == Permutations(Tabs)
=============================================================================
