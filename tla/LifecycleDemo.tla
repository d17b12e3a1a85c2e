--------------------------- MODULE LifecycleDemo ---------------------------
(***************************************************************************)
(* lifecycle_publisher, a managed node with a publisher and a timer,       *)
(* lifecycle_service_client, which drives it through its life, and         *)
(* lifecycle_subscriber.  Several clients may be started.  The node's      *)
(* executor has one thread, so a request and a timer call are each one     *)
(* step; a client has three: main spins, the script makes the calls, and   *)
(* wake_executor waits for its end.  rclcpp and rclcpp_lifecycle are       *)
(* external.                                                               *)
(***************************************************************************)
EXTENDS Integers, Sequences

CONSTANT
    LifecycleClients,   \* the client processes
    MaxTopic            \* the depth of lifecycle_topic kept in the model

ASSUME MaxTopicAssumption == MaxTopic \in Nat \ {0}

VARIABLES
    node,       \* the node: primary state, pub_, timer_, whether pub_ is activated
    requests,   \* requests at the node's services, in order
    topic,      \* lifecycle_topic: the state each message was published in
    heard,      \* the states that messages of data_callback were published in
    script,     \* client -> position of callee_script, and the call it waits for
    status,     \* client -> TaskStatus
    client,     \* client -> rclcpp::ok, main and wake_executor
    answer      \* client -> what the pending future was given, or "none"

lifecycleVars == <<node, requests, topic, heard, script, status, client, answer>>

-----------------------------------------------------------------------------
(* The vector of callee_script.                                            *)
Transitions ==
    <<"configure", "activate", "deactivate", "activate", "deactivate", "cleanup",
      "unconfigured_shutdown">>

LifecycleInit ==
    /\ node = [state |-> "unconfigured", pub |-> FALSE, timer |-> FALSE, activated |-> FALSE]
    /\ requests = <<>>
    /\ topic = <<>>
    /\ heard = {}
    /\ script = [c \in LifecycleClients |-> [at |-> "change", it |-> 1, sent |-> 0]]
    /\ status = [c \in LifecycleClients |-> "running"]
    /\ client = [c \in LifecycleClients |-> [ok |-> TRUE, main |-> "spin", woken |-> FALSE]]
    /\ answer = [c \in LifecycleClients |-> "none"]

-----------------------------------------------------------------------------
(* The callbacks of the node; the base class activates and deactivates the *)
(* publishers it manages.                                                  *)
OnConfigure(n)  == [n EXCEPT !.pub = TRUE, !.timer = TRUE, !.activated = FALSE]
OnActivate(n)   == [n EXCEPT !.activated = TRUE]

\* Mutant: the base class is not called.
OnDeactivateAlone(n) == n
OnDeactivate(n) == [n EXCEPT !.activated = FALSE]
OnCleanup(n)    == [n EXCEPT !.timer = FALSE, !.pub = FALSE, !.activated = FALSE]
OnShutdown(n)   == [n EXCEPT !.timer = FALSE, !.pub = FALSE, !.activated = FALSE]

(* External: the state machine of a managed node.                          *)
Moves(t) ==
    CASE t = "configure"  -> [from |-> "unconfigured", to |-> "inactive"]
      [] t = "activate"   -> [from |-> "inactive", to |-> "active"]
      [] t = "deactivate" -> [from |-> "active", to |-> "inactive"]
      [] t = "cleanup"    -> [from |-> "inactive", to |-> "unconfigured"]
      [] t = "unconfigured_shutdown" -> [from |-> "unconfigured", to |-> "finalized"]

Run(t, n) ==
    LET called == CASE t = "configure" -> OnConfigure(n) [] t = "activate" -> OnActivate(n)
                    [] t = "deactivate" -> OnDeactivate(n) [] t = "cleanup" -> OnCleanup(n)
                    [] t = "unconfigured_shutdown" -> OnShutdown(n)
    IN  [called EXCEPT !.state = Moves(t).to]

(* A future is still waited for if its request is the last one sent.       *)
Answers(r, a) ==
    IF script[r.from].sent = r.number THEN [answer EXCEPT ![r.from] = a] ELSE answer

(* The executor of the node serves the next request ...                    *)
ServeRequest ==
    /\ requests # <<>>
    /\ requests' = Tail(requests)
    /\ LET r == Head(requests)
           allowed == r.call # "get_state" /\ Moves(r.call).from = node.state
       IN  /\ node' = IF allowed THEN Run(r.call, node) ELSE node
           /\ answer' = Answers(r, IF r.call = "get_state" \/ allowed THEN "success" ELSE "refused")
    /\ UNCHANGED <<topic, heard, script, status, client>>

(* ... or calls publish; a publisher that is not activated drops the       *)
(* message.                                                                *)
PublishOnTimer ==
    /\ node.timer
    /\ IF node.pub /\ node.activated
       THEN topic' = Append(IF Len(topic) = MaxTopic THEN Tail(topic) ELSE topic, node.state)
       ELSE UNCHANGED topic
    /\ UNCHANGED <<node, requests, heard, script, status, client, answer>>

(* data_callback of the subscriber.                                        *)
DataCallback ==
    /\ topic # <<>>
    /\ topic' = Tail(topic)
    /\ heard' = heard \cup {Head(topic)}
    /\ UNCHANGED <<node, requests, script, status, client, answer>>

-----------------------------------------------------------------------------
(* change_state and get_state: the service is there within three seconds,  *)
(* and the request is sent, or it is not ...                               *)
Break(c) == script' = [script EXCEPT ![c].at = "interrupted"]

CallService(c) ==
    /\ script[c].at \in {"change", "get"}
    /\ answer' = [answer EXCEPT ![c] = "none"]
    /\ \/ /\ client[c].ok
          /\ LET number == script[c].sent + 1 IN
             /\ requests' = Append(requests, [from |-> c, number |-> number,
                                call |-> IF script[c].at = "get" THEN "get_state"
                                         ELSE Transitions[script[c].it]])
             /\ script' = [script EXCEPT ![c].sent = number,
                             ![c].at = IF @ = "get" THEN "await state" ELSE "await change"]
       \/ Break(c) /\ UNCHANGED requests
    /\ UNCHANGED <<node, topic, heard, status, client>>

(* ... and then the answer, which main's executor hands over, or the time- *)
(* out.  The request stays with the node all the same.                     *)
AwaitAnswer(c) ==
    /\ script[c].at \in {"await state", "await change"}
    /\ \/ /\ answer[c] = "success"
          /\ client[c].main = "spin"
          /\ script' = [script EXCEPT ![c].at = IF @ = "await change" THEN "get" ELSE "sleep"]
       \/ /\ answer[c] = "refused"
          /\ client[c].main = "spin"
          /\ Break(c)
       \/ Break(c)
    /\ UNCHANGED <<node, requests, topic, heard, status, client, answer>>

(* The ten seconds between two transitions.                                *)
NextTransition(c) ==
    /\ script[c].at = "sleep"
    /\ script' = [script EXCEPT ![c].it = @ + 1,
                    ![c].at = IF script[c].it = Len(Transitions) THEN "completed" ELSE "change"]
    /\ UNCHANGED <<node, requests, topic, heard, status, client, answer>>

\* Mutant: the flag is set, nobody is notified.
ReportSilently(c) ==
    /\ script[c].at \in {"interrupted", "completed"}
    /\ status[c] = "running"
    /\ status' = [status EXCEPT ![c] = script[c].at]
    /\ script' = [script EXCEPT ![c].at = "returned"]
    /\ UNCHANGED <<node, requests, topic, heard, client, answer>>

(* interrupted and completed set their flag under the mutex and notify.    *)
ReportStatus(c) ==
    /\ script[c].at \in {"interrupted", "completed"}
    /\ status[c] = "running"
    /\ status' = [status EXCEPT ![c] = script[c].at]
    /\ script' = [script EXCEPT ![c].at = "returned"]
    /\ client' = [client EXCEPT ![c].woken = TRUE]
    /\ UNCHANGED <<node, requests, topic, heard, answer>>

(* wake_executor cancels the executor: an executor that sleeps does not    *)
(* see that the future it spins for is ready.  A signal ends it, too.      *)
WakeExecutor(c) ==
    /\ client[c].main = "spin"
    /\ client[c].woken \/ ~client[c].ok
    /\ client' = [client EXCEPT ![c].main = "join"]
    /\ UNCHANGED <<node, requests, topic, heard, script, status, answer>>

(* The futures of std::async join the script and wake_executor.            *)
JoinScript(c) ==
    /\ client[c].main = "join"
    /\ script[c].at = "returned" /\ client[c].woken
    /\ client' = [client EXCEPT ![c].main = "ended"]
    /\ UNCHANGED <<node, requests, topic, heard, script, status, answer>>

InterruptClient(c) ==
    /\ client[c].main = "spin" /\ client[c].ok
    /\ client' = [client EXCEPT ![c].ok = FALSE]
    /\ UNCHANGED <<node, requests, topic, heard, script, status, answer>>

LifecycleNode == ServeRequest \/ PublishOnTimer
Script(c) == CallService(c) \/ AwaitAnswer(c) \/ NextTransition(c) \/ ReportStatus(c)
ClientMain(c) == WakeExecutor(c) \/ JoinScript(c)

LifecycleNextState ==
    \/ LifecycleNode \/ DataCallback
    \/ \E c \in LifecycleClients : Script(c) \/ ClientMain(c) \/ InterruptClient(c)

-----------------------------------------------------------------------------
(* A client reports that its script completed only when the node really    *)
(* went through the whole life: it is finalized, and no other client       *)
(* completed.                                                              *)
CompletedMeansFinalized ==
    \A c \in LifecycleClients : status[c] = "completed" =>
        /\ node.state = "finalized"
        /\ \A d \in LifecycleClients \ {c} : status[d] # "completed"

(* The timer never fires without a publisher, and what a subscriber hears  *)
(* was published while the node was active.                                *)
HeardWhileActive == (node.timer => node.pub) /\ heard \subseteq {"active"}

(* Every client has ended, with its script and its waiting thread.         *)
ClientsEnded == \A c \in LifecycleClients : client[c].main = "ended"
=============================================================================
