----------------------------- MODULE Transaction -----------------------------
(***************************************************************************)
(* What a middleware client promises its user about Read and Write: the    *)
(* completion callback of a call runs at most once and with one status,    *)
(* never after the client was destroyed, and with SUCCESS only when the    *)
(* server answered that very call with a result.                           *)
(***************************************************************************)
EXTENDS Integers

CONSTANT MaxCalls      \* bound on the calls a user makes

Calls == 1 .. MaxCalls
Failures == {"CLIENT_REQUEST_SIZE_ERROR", "CLIENT_TIMEOUT_ERROR", "SERVER_INTERNAL_ERROR"}

VARIABLES
    issued,      \* how many calls were made
    answered,    \* calls the server answered with a result
    completed,   \* call -> status its callback was given, or "none"
    closed       \* the client is destroyed

tVars == <<issued, answered, completed, closed>>

TInit ==
    /\ issued = 0
    /\ answered = {}
    /\ completed = [c \in Calls |-> "none"]
    /\ closed = FALSE

(* The user calls Read or Write; an oversized request completes at once. *)
Issue ==
    /\ ~closed
    /\ issued < MaxCalls
    /\ issued' = issued + 1
    /\ \/ UNCHANGED completed
       \/ completed' = [completed EXCEPT ![issued'] = "CLIENT_REQUEST_SIZE_ERROR"]
    /\ UNCHANGED <<answered, closed>>

(* The server produces the result of call c. *)
Answer(c) ==
    /\ c <= issued
    /\ answered' = answered \cup {c}
    /\ UNCHANGED <<issued, completed, closed>>

(* The callback of call c runs. *)
Complete(c) ==
    /\ ~closed
    /\ c <= issued
    /\ completed[c] = "none"
    /\ \E status \in Failures \cup {"SUCCESS"} :
          /\ status = "SUCCESS" => c \in answered
          /\ completed' = [completed EXCEPT ![c] = status]
    /\ UNCHANGED <<issued, answered, closed>>

Close ==
    /\ ~closed
    /\ closed' = TRUE
    /\ UNCHANGED <<issued, answered, completed>>

TNext == Issue \/ Close \/ \E c \in Calls : Answer(c) \/ Complete(c)

TSpec == TInit /\ [][TNext]_tVars
=============================================================================
