----------------------- MODULE MCServerRequestHandler -----------------------
(* Instances of ServerRequestHandler for TLC: two workers of the pool, and *)
(* fewer keys than requests so that the key counter wraps.                 *)
EXTENDS ServerRequestHandler

CONSTANTS w1, w2

TwoWorkers    == {w1, w2}
=============================================================================
