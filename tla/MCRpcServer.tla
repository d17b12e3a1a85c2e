----------------------------- MODULE MCRpcServer -----------------------------
(* Instances of RpcServer for TLC. *)
EXTENDS RpcServer

CONSTANTS w1, w2

TwoWorkers     == {w1, w2}
=============================================================================
