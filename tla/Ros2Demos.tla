----------------------------- MODULE Ros2Demos -----------------------------
(***************************************************************************)
(* The demonstration nodes of the ROS 2 repository, one family of which    *)
(* runs: the managed node with its clients, the action nodes, and those    *)
(* that publish, subscribe and call a service.                             *)
(***************************************************************************)
EXTENDS LifecycleDemo, ActionDemo, PubSubDemo

VARIABLE family   \* the family that runs
ros2Vars == <<family, lifecycleVars, actionVars, demoVars>>

(* One family of nodes runs; the others stay where they begin.             *)
Ros2Init ==
    /\ family \in {"lifecycle", "action", "pubsub"}
    /\ LifecycleInit /\ ActionInit /\ DemoInit
    /\ family = "action" \/ action = CHOOSE a \in Actions : TRUE
    /\ family = "pubsub" \/ demo = "publisher"

Lifecycle(A) == family = "lifecycle" /\ A /\ UNCHANGED <<family, actionVars, demoVars>>
Action(A)    == family = "action" /\ A /\ UNCHANGED <<family, lifecycleVars, demoVars>>
PubSub(A)    == family = "pubsub" /\ A /\ UNCHANGED <<family, lifecycleVars, actionVars>>

Ros2Next ==
    \/ Lifecycle(LifecycleNextState) \/ Action(ActionNextState) \/ PubSub(DemoNextState)

(* The threads: the script and main of each lifecycle client, the service  *)
(* client, and the executor and detached thread behind each goal.  Nobody  *)
(* is assumed to send a signal, and the node of the lifecycle to answer.   *)
Ros2Thread(k) ==
    \/ Lifecycle(\E c \in LifecycleClients :
                    (k = c /\ Script(c)) \/ (k = c + 2 /\ ClientMain(c)))
    \/ Action(\E c \in ActionClients, g \in 1..MaxGoals :
                    k = 2 * (c - 1) + g /\ GoalSteps(c, g))
    \/ PubSub(k = 1 /\ LeaveClient)

Ros2Spec == Ros2Init /\ [][Ros2Next]_ros2Vars /\ \A k \in 1..4 : WF_ros2Vars(Ros2Thread(k))

(* Every lifecycle client ends, every goal that was accepted ends, and a   *)
(* service client ends after its signal, in its constructor as well.       *)
DemosEnd ==
    []<>(CASE family = "lifecycle" -> ClientsEnded
           [] family = "action" -> GoalsSettled
           [] family = "pubsub" -> ServiceClientEnded)

(* A client completes its script only with a node that was led through its *)
(* whole life, by it alone, and what is heard was sent while it was active.*)
LifecycleRespected == CompletedMeansFinalized /\ HeardWhileActive

(* Goals of a client follow one another, and results are those of runs     *)
(* that were complete.                                                     *)
GoalsInTurn == OneGoalAtATime /\ ResultsAreEarned

(* Speeds, thread ids, calibrations and ported values are shown as the     *)
(* nodes computed them, through every change, wrap and interleaving.       *)
DemoValuesHold == SpeedInRange /\ ThreadsKeepTheirIds /\ AnswersInTurn /\ PortHearsValues
=============================================================================
