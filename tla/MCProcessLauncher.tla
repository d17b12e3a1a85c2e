------------------------- MODULE MCProcessLauncher -------------------------
(* Instances of ProcessLauncher for TLC: one application of each policy,   *)
(* and as many pids as applications, so that a restart uses a pid again.   *)
EXTENDS ProcessLauncher

CONSTANTS a1, a2, a3

ThreeApps   == {a1, a2, a3}
ThreePolicies == [a \in ThreeApps |-> CASE a = a1 -> "ALWAYS"
                                        [] a = a2 -> "ON_FAILURE"
                                        [] a = a3 -> "NEVER"]
=============================================================================
