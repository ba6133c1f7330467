---------------------------- MODULE MCRequestBody ----------------------------
(* TLC instances of RequestBody.                                           *)
EXTENDS RequestBody
MCLimits == {-1, 2, 4}
MCSizes == {0, 3, -1}
=============================================================================
