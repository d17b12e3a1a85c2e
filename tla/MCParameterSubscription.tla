----------------------- MODULE MCParameterSubscription -----------------------
(* An instance of ParameterSubscription for TLC: two publishers whose      *)
(* lives overlap in every way.                                             *)
EXTENDS ParameterSubscription, TLC

CONSTANTS p1, p2

TwoPublishers == {p1, p2}
TwoAndOne     == (p1 :> 2) @@ (p2 :> 1)
=============================================================================
