-------------------------- MODULE MCGracefulServer --------------------------
(* TLC instances of GracefulServer.                                        *)
EXTENDS GracefulServer

\* A limit that is off, and one that is not set.
MCLimits == {-1, 0}
=============================================================================
