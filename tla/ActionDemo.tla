----------------------------- MODULE ActionDemo -----------------------------
(***************************************************************************)
(* The action nodes: ActionClient with ActionServer (a firmware update),   *)
(* and PublisherServiceActionclientNode with SubscriberActionserverNode    *)
(* (a Fibonacci sequence).  A timer of the client sends a goal; the server *)
(* runs it in a detached thread.  rclcpp_action is external; a goal can    *)
(* also be cancelled from outside.                                         *)
(***************************************************************************)
EXTENDS Integers, Sequences

CONSTANTS
    ActionClients,  \* the client processes
    Actions,        \* the actions tried, "firmware" and "fibonacci"
    Wanted,         \* client -> the version it asks for, or the order
    Phases,         \* iterations of the firmware update, 10 in the code
    OrderLimit,     \* the order above which a goal is rejected, 9000
    IntMax,         \* INT32_MAX: the numbers of a sequence wrap behind it
    MaxGoals        \* bound on the goals of a client

ASSUME ActionAssumption ==
    /\ Wanted \in [ActionClients -> Int]
    /\ Phases \in Nat
    /\ IntMax \in Nat \ {0}

VARIABLES
    action,         \* the action of this run
    actionServer,   \* main of the server process, its rclcpp::ok, version_
    timer,          \* client -> its timer is running
    goalDone,       \* client -> goal_done_
    goals           \* client -> its goals in order: where each is

actionVars == <<action, actionServer, timer, goalDone, goals>>

InitialVersion == 0
Ok == actionServer.ok

ActionInit ==
    /\ action \in Actions
    /\ actionServer = [at |-> "spin", ok |-> TRUE, version |-> InitialVersion]
    /\ timer = [c \in ActionClients |-> TRUE]
    /\ goalDone = [c \in ActionClients |-> FALSE]
    /\ goals = [c \in ActionClients |-> <<>>]

NewGoal(c) == [wants |-> Wanted[c], at |-> "requested", i |-> 1, late |-> FALSE,
               sequence |-> <<0, 1>>, version |-> InitialVersion, told |-> FALSE]
Goal(c, g) == g \in DOMAIN goals[c]
Set(c, g, r) == goals' = [goals EXCEPT ![c][g] = r]

-----------------------------------------------------------------------------
\* Mutant: the timer is left running while the goal is under way.
SendGoalAgain(c) ==
    /\ timer[c]
    /\ Len(goals[c]) < MaxGoals
    /\ goals' = [goals EXCEPT ![c] = Append(@, NewGoal(c))]
    /\ goalDone' = [goalDone EXCEPT ![c] = FALSE]
    /\ UNCHANGED <<action, actionServer, timer>>

(* SendGoal: the timer is cancelled, and a server that does not appear in  *)
(* ten seconds ends the matter.                                            *)
SendGoal(c) ==
    /\ timer[c]
    /\ Len(goals[c]) < MaxGoals
    /\ timer' = [timer EXCEPT ![c] = FALSE]
    /\ \/ /\ actionServer.at = "spin"
          /\ goals' = [goals EXCEPT ![c] = Append(@, NewGoal(c))]
          /\ goalDone' = [goalDone EXCEPT ![c] = FALSE]
       \/ /\ goalDone' = [goalDone EXCEPT ![c] = TRUE]
          /\ UNCHANGED goals
    /\ UNCHANGED <<action, actionServer>>

(* HandleGoal, and HandleAccepted, which starts a thread and detaches it.  *)
Rejects(wants) == IF action = "firmware" THEN wants = actionServer.version ELSE wants > OrderLimit

HandleGoal(c, g) ==
    /\ Goal(c, g) /\ goals[c][g].at = "requested"
    /\ actionServer.at = "spin" /\ Ok
    /\ Set(c, g, [goals[c][g] EXCEPT !.version = actionServer.version,
                    !.at = IF Rejects(goals[c][g].wants) THEN "rejected" ELSE "executing"])
    /\ UNCHANGED <<action, actionServer, timer, goalDone>>

(* HandleCancel accepts: the thread sees it in its next iteration.         *)
HandleCancel(c, g) ==
    /\ Goal(c, g) /\ goals[c][g].at = "executing"
    /\ actionServer.at = "spin" /\ Ok
    /\ Set(c, g, [goals[c][g] EXCEPT !.at = "canceling"])
    /\ UNCHANGED <<action, actionServer, timer, goalDone>>

-----------------------------------------------------------------------------
(* int32_t: a sum outside of its range wraps.                              *)
Plus(a, b) ==
    LET sum == a + b
        values == 2 * (IntMax + 1)
    IN  CASE sum > IntMax -> sum - values
          [] sum < -(IntMax + 1) -> sum + values
          [] sum \in -(IntMax + 1)..IntMax -> sum

LastIteration(c, g) == IF action = "firmware" THEN Phases + 1 ELSE goals[c][g].wants
Running(c, g) == Goal(c, g) /\ goals[c][g].at \in {"executing", "canceling"}

(* Execute, one iteration: rclcpp::ok and then the cancel request are      *)
(* looked at ...                                                           *)
Iterate(c, g) ==
    /\ Running(c, g) /\ ~goals[c][g].late
    /\ goals[c][g].i < LastIteration(c, g) /\ Ok
    /\ LET r == goals[c][g] IN
       IF r.at = "canceling"
       THEN Set(c, g, [r EXCEPT !.at = "canceled"])
       ELSE Set(c, g, [r EXCEPT !.i = @ + 1,
              !.sequence = IF action = "fibonacci" THEN Append(@, Plus(@[r.i + 1], @[r.i])) ELSE @])
    /\ UNCHANGED <<action, actionServer, timer, goalDone>>

(* ... and at the end rclcpp::ok again, before the thread writes version_  *)
(* and the result.                                                         *)
TestOk(c, g) ==
    /\ Running(c, g) /\ ~goals[c][g].late
    /\ ~(goals[c][g].i < LastIteration(c, g) /\ Ok)
    /\ Set(c, g, IF Ok THEN [goals[c][g] EXCEPT !.late = TRUE]
                 ELSE [goals[c][g] EXCEPT !.at = "dropped"])
    /\ UNCHANGED <<action, actionServer, timer, goalDone>>

Succeed(c, g) ==
    /\ Running(c, g) /\ goals[c][g].late
    /\ actionServer' = [actionServer EXCEPT
                          !.version = IF action = "firmware" THEN goals[c][g].wants ELSE @]
    /\ Set(c, g, [goals[c][g] EXCEPT !.at = "succeeded"])
    /\ UNCHANGED <<action, timer, goalDone>>

Execute(c, g) == Iterate(c, g) \/ TestOk(c, g) \/ Succeed(c, g)

-----------------------------------------------------------------------------
(* GoalResponseCallback only logs; ResultCallback starts the timer again   *)
(* after a success, and after nothing else.                                *)
ResultCallback(c, g) ==
    /\ Goal(c, g) /\ goals[c][g].at \in {"succeeded", "canceled", "rejected"}
    /\ ~goals[c][g].told
    /\ Set(c, g, [goals[c][g] EXCEPT !.told = TRUE])
    /\ timer' = [timer EXCEPT ![c] = @ \/ goals[c][g].at = "succeeded"]
    /\ UNCHANGED <<action, actionServer, goalDone>>

(* A signal to the server: its main returns from spin and destroys the     *)
(* node, whatever the detached threads do.                                 *)
InterruptServer ==
    /\ Ok
    /\ actionServer' = [actionServer EXCEPT !.ok = FALSE]
    /\ UNCHANGED <<action, timer, goalDone, goals>>

EndServer ==
    /\ ~Ok /\ actionServer.at = "spin"
    /\ actionServer' = [actionServer EXCEPT !.at = "ended"]
    /\ UNCHANGED <<action, timer, goalDone, goals>>

GoalSteps(c, g) == HandleGoal(c, g) \/ Execute(c, g) \/ ResultCallback(c, g)

ActionNextState ==
    \/ InterruptServer \/ EndServer
    \/ \E c \in ActionClients :
        \/ SendGoal(c)
        \/ \E g \in 1..MaxGoals : GoalSteps(c, g) \/ HandleCancel(c, g)

-----------------------------------------------------------------------------
GoalOver(r) == r.at \in {"succeeded", "canceled", "rejected"} /\ r.told

(* A client has one goal under way at most, and a timer only when it has   *)
(* none: goals of a client never overlap in the server, however late the   *)
(* results are.                                                            *)
OneGoalAtATime ==
    \A c \in ActionClients : \A g \in DOMAIN goals[c] :
        ~GoalOver(goals[c][g]) => g = Len(goals[c]) /\ ~timer[c]

(* Every result is that of a complete run: the version of the server is    *)
(* the initial one or that of a goal that succeeded, a goal is rejected    *)
(* only for the version then installed, and a sequence that was delivered  *)
(* has its order's length and is the Fibonacci sequence until it wraps.    *)
ResultsAreEarned ==
    /\ actionServer.version # InitialVersion =>
         \E c \in ActionClients : \E g \in DOMAIN goals[c] :
            goals[c][g].at = "succeeded" /\ goals[c][g].wants = actionServer.version
    /\ \A c \in ActionClients : \A g \in DOMAIN goals[c] :
         LET r == goals[c][g] s == r.sequence IN
         /\ r.at = "succeeded" => r.i >= LastIteration(c, g)
         /\ r.at = "rejected" /\ action = "firmware" => r.wants = r.version
         /\ r.at = "succeeded" /\ action = "fibonacci" /\ r.wants > 0 => Len(s) = r.wants + 1
         /\ \A n \in 3..Len(s) : (\A k \in 1..n : s[k] >= 0) => s[n] = s[n - 1] + s[n - 2]

(* No accepted goal is still under way.                                    *)
GoalsSettled == \A c \in ActionClients : \A g \in DOMAIN goals[c] : ~Running(c, g)
=============================================================================
