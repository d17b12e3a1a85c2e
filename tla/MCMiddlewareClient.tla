------------------------- MODULE MCMiddlewareClient -------------------------
(* Instances of MiddlewareClient for TLC. *)
EXTENDS MiddlewareClient

CONSTANTS t1, t2

TwoThreads     == {t1, t2}
=============================================================================
