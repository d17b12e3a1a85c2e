----------------------------- MODULE PubSubDemo -----------------------------
(***************************************************************************)
(* The nodes that publish a vehicle's speed, offer and ask for a sensor    *)
(* calibration, show which thread runs a callback, and the baseline        *)
(* publisher and subscriber ported to ROS 2.  rclcpp is external.          *)
(***************************************************************************)
EXTENDS Integers, Sequences, FiniteSets

CONSTANTS
    Requested,      \* the parameter changes tried, as sequences of <<name, value>>
    InitialCounts,  \* what the uninitialised count_ of the combined node may hold
    SizeMax,        \* 2^64, the values of size_t
    Threads,        \* threads of the executor of dualsub_app
    MaxCalls,       \* bound on the timer calls of a service client
    PortConfig,     \* the baseline configuration: topic -> minimum and maximum
    PortSubscribers,\* ... and the topics it has a subscriber for
    PortBase        \* 256, the values of a byte

(* size_t holds what the ramps reach, lists of changes are sequences, and  *)
(* the ranges of the configuration are of uint32_t and not empty.          *)
ASSUME DemoAssumption ==
    /\ SizeMax \in Nat /\ SizeMax > 1100 /\ InitialCounts \subseteq 0..(SizeMax - 1)
    /\ \A list \in Requested : list \in Seq({list[k] : k \in DOMAIN list})
    /\ PortBase \in Nat \ {0, 1}
    /\ \A t \in DOMAIN PortConfig :
          /\ PortConfig[t].min \in Nat /\ PortConfig[t].max \in Nat
          /\ PortConfig[t].min <= PortConfig[t].max
          /\ PortConfig[t].max < PortBase * PortBase * PortBase * PortBase

VARIABLES
    demo,       \* the program of this run
    ramp,       \* count_, oper_, the speed last published, and count_ at the start
    params,     \* param_speed_scale and param_speed_step, in tenths and whole
    members,    \* param_speed_scale_ and param_speed_step_
    service,    \* the service: who serves and asks, rclcpp::ok, counter, requests, answers
    ids,        \* known_thread_ids
    threadAt,   \* thread -> what StringThreadId is about to do
    shownIds,   \* thread -> ids printed for it
    overlap,    \* two threads were in StringThreadId together
    port        \* the ported baseline: topic -> current value, sample kept, value heard

demoVars == <<demo, ramp, params, members, service, ids, threadAt, shownIds, overlap, port>>

-----------------------------------------------------------------------------
(* ToUint32Bytes and FromUint32Bytes, the most significant byte first.     *)
Shift(k) == CASE k = 0 -> 1 [] k = 1 -> PortBase [] k = 2 -> PortBase * PortBase
              [] k = 3 -> PortBase * PortBase * PortBase
ToUint32Bytes(raw) == [k \in 1..4 |-> (raw \div Shift(4 - k)) % PortBase]
FromUint32Bytes(bytes) ==
    bytes[1] * Shift(3) + bytes[2] * Shift(2) + bytes[3] * Shift(1) + bytes[4]

Topics == DOMAIN PortConfig
Ports == {"baseline", "baseline threads"}
Demos == {"publisher", "combined", "calibration", "dualsub"} \cup Ports

DemoInit ==
    /\ demo \in Demos
    /\ \/ /\ demo = "combined"
          /\ \E n \in InitialCounts, up \in BOOLEAN :
               ramp = [count |-> n, oper |-> up, speed |-> 0, start |-> n]
       \/ /\ demo # "combined"
          /\ ramp = [count |-> 0, oper |-> TRUE, speed |-> 0, start |-> 0]
    /\ params = [scale |-> 1, step |-> 0]
    /\ members = params
    /\ \E both \in (IF demo = "calibration" THEN BOOLEAN ELSE {FALSE}) :
         service = [combined |-> both, up |-> FALSE, ok |-> TRUE, at |-> "construct", counter |-> 0,
                    wants |-> "temperature", queue |-> <<>>, answers |-> {}]
    /\ ids = <<>>
    /\ threadAt = [t \in Threads |-> "idle"]
    /\ shownIds = [t \in Threads |-> {}]
    /\ overlap = FALSE
    /\ port = [t \in Topics |-> [value |-> PortConfig[t].min, kept |-> <<>>, heard |-> {}]]

-----------------------------------------------------------------------------
(* on_timer: count_ is a size_t, so that it is never below 0, and wraps.   *)
Ramp(r, up, down, top) ==
    LET rising == r.oper \/ r.count = 0
        moved == (r.count + (IF rising THEN up ELSE -down)) % SizeMax
    IN  [r EXCEPT !.count = moved, !.oper = rising /\ moved <= top]

\* Mutant: the slope down does not divide the turning point.
UnevenRamp(r) == Ramp(r, 10, 4, 200)

PublisherRamp(r) == Ramp(r, 10, 5, 200)

(* The publisher also scales its speed, and a scale of 0 stops it.         *)
OnTimer ==
    /\ demo = "publisher"
    /\ LET r == PublisherRamp(ramp)
       IN  ramp' = [r EXCEPT !.speed = r.count * members.scale
                                       + (IF members.scale = 0 THEN 0 ELSE 10 * members.step)]
    /\ UNCHANGED <<demo, params, members, service, ids, threadAt, shownIds, overlap, port>>

CombinedRamp(r) == Ramp(r, 100, 50, 1000)

CombinedOnTimer ==
    /\ demo = "combined"
    /\ ramp' = CombinedRamp(ramp)
    /\ UNCHANGED <<demo, params, members, service, ids, threadAt, shownIds, overlap, port>>

(* modify_upcoming_parameters_callback appends a step of 2.0 for a scale,  *)
(* while it iterates: a later element may then be seen or not.             *)
ModifyUpcoming(list) ==
    LET scales == {k \in DOMAIN list : list[k][1] = "scale"}
        Added(n) == list \o [k \in 1..n |-> <<"step", 2>>]
    IN  IF scales = {} THEN {list} ELSE {Added(n) : n \in 1..Cardinality(scales)}

(* validate_upcoming_parameters_callback *)
ValidateUpcoming(list) ==
    \A k \in DOMAIN list :
        /\ list[k][1] = "scale" => list[k][2] \in 0..10
        /\ list[k][1] = "step" => list[k][2] \in 0..10

(* react_to_updated_parameters_callback, and the node's own parameters.    *)
Updated(values, list) ==
    LET given(name) == {k \in DOMAIN list : list[k][1] = name}
        last(name) == CHOOSE k \in given(name) : \A j \in given(name) : j <= k
        value(name) == IF given(name) = {} THEN values[name] ELSE list[last(name)][2]
    IN  [scale |-> value("scale"), step |-> value("step")]

SetParameters(list) ==
    /\ demo = "publisher"
    /\ \E upcoming \in ModifyUpcoming(list) :
        /\ ValidateUpcoming(upcoming)
        /\ params' = Updated(params, upcoming)
        /\ members' = Updated(members, upcoming)
    /\ UNCHANGED <<demo, ramp, service, ids, threadAt, shownIds, overlap, port>>

-----------------------------------------------------------------------------
(* The handlers of the service: the combined node's second if answers      *)
(* "unknown" for the steering angle, too.                                  *)
Calibrate(combined, sensor) ==
    IF combined THEN (IF sensor = "temperature" THEN "failed" ELSE "unknown")
    ELSE IF sensor = "unknown_sensor_id" THEN "unknown" ELSE "calibrated"

(* OnTimerAsync *)
Sensor(combined, n) ==
    IF n % 3 = 0 THEN "steering_angle"
    ELSE IF (n % 7 = 0) = combined THEN "temperature" ELSE "unknown_sensor_id"

(* QueueAsyncRequest waits for the service second by second, in the        *)
(* constructor as in the timer's callback, as long as rclcpp::ok ...       *)
WaitingForService == service.at \in {"construct", "callback"}

QueueAsyncRequest ==
    /\ demo = "calibration"
    /\ WaitingForService /\ service.up
    /\ service' = [service EXCEPT !.at = "spin", !.queue = Append(@, <<service.counter, service.wants>>)]
    /\ UNCHANGED <<demo, ramp, params, members, ids, threadAt, shownIds, overlap, port>>

(* ... and the executor leaves after a signal.                             *)
LeaveClient ==
    /\ demo = "calibration"
    /\ ~service.ok /\ service.at # "ended"
    /\ service' = [service EXCEPT !.at = IF WaitingForService THEN "spin" ELSE "ended"]
    /\ UNCHANGED <<demo, ramp, params, members, ids, threadAt, shownIds, overlap, port>>

ClientTimer ==
    /\ demo = "calibration"
    /\ service.at = "spin" /\ service.ok
    /\ service.counter < MaxCalls
    /\ service' = [service EXCEPT !.at = "callback", !.counter = @ + 1,
                     !.wants = Sensor(service.combined, service.counter + 1)]
    /\ UNCHANGED <<demo, ramp, params, members, ids, threadAt, shownIds, overlap, port>>

(* The server's executor answers the requests in turn; the callback of the *)
(* client runs when its executor is free.                                  *)
HandleCalibration ==
    /\ demo = "calibration"
    /\ service.up /\ service.queue # <<>> /\ service.at = "spin"
    /\ service' = [service EXCEPT !.queue = Tail(@),
          !.answers = @ \cup {<<Head(service.queue)[1], Calibrate(service.combined, Head(service.queue)[2])>>}]
    /\ UNCHANGED <<demo, ramp, params, members, ids, threadAt, shownIds, overlap, port>>

(* The server comes and goes, the client is sent a signal.                 *)
ServiceEnvironment ==
    /\ demo = "calibration"
    /\ \/ service' = [service EXCEPT !.up = ~@, !.queue = <<>>]
       \/ service.ok /\ service' = [service EXCEPT !.ok = FALSE]
    /\ UNCHANGED <<demo, ramp, params, members, ids, threadAt, shownIds, overlap, port>>

-----------------------------------------------------------------------------
(* StringThreadId: the two callback groups of the node exclude a callback  *)
(* from itself only, so that two threads can be in it.                     *)
Position(t) == {k \in DOMAIN ids : ids[k] = t}

StartCallback(t) ==
    /\ demo = "dualsub"
    /\ threadAt[t] = "idle"
    /\ Cardinality({u \in Threads : threadAt[u] # "idle"}) < 2
    /\ threadAt' = [threadAt EXCEPT ![t] = "find"]
    /\ overlap' = (overlap \/ \E u \in Threads : threadAt[u] # "idle")
    /\ UNCHANGED <<demo, ramp, params, members, service, ids, shownIds, port>>

Show(t, id) == shownIds' = [shownIds EXCEPT ![t] = @ \cup {id}]

FindThread(t) ==
    /\ demo = "dualsub"
    /\ threadAt[t] = "find"
    /\ IF Position(t) = {}
       THEN threadAt' = [threadAt EXCEPT ![t] = "push"] /\ UNCHANGED shownIds
       ELSE /\ threadAt' = [threadAt EXCEPT ![t] = "idle"]
            /\ \E k \in Position(t) : (\A j \in Position(t) : k <= j) /\ Show(t, k - 1)
    /\ UNCHANGED <<demo, ramp, params, members, service, ids, overlap, port>>

(* Two threads in push_back: one of the ids may be lost.                   *)
PushThread(t) ==
    /\ demo = "dualsub"
    /\ threadAt[t] = "push"
    /\ threadAt' = [threadAt EXCEPT ![t] = "idle"]
    /\ \/ ids' = Append(ids, t)
       \/ /\ \E u \in Threads \ {t} : threadAt[u] = "push"
          /\ UNCHANGED ids
    /\ Show(t, Len(ids') - 1)
    /\ UNCHANGED <<demo, ramp, params, members, service, overlap, port>>

-----------------------------------------------------------------------------
(* The nodes baseline_publisher creates have a timer each and a thread, or *)
(* share the timer of the coordinator; without a node it ends.             *)
PortPublisher ==
    IF demo = "baseline threads" THEN {{t} : t \in Topics} ELSE {Topics} \ {{}}

(* The topics baseline_subscriber creates nodes for.                       *)
PortSubscriber == PortSubscribers

(* PublisherNode::Publish; the topic keeps one sample.                     *)
PublishPort(t, p) ==
    [p EXCEPT !.kept = <<[bytes |-> ToUint32Bytes(p.value), raw |-> p.value]>>,
              !.value = IF p.value = PortConfig[t].max THEN PortConfig[t].min ELSE p.value + 1]

OnPortTimer(published) ==
    /\ demo \in Ports
    /\ port' = [t \in Topics |-> IF t \in published THEN PublishPort(t, port[t]) ELSE port[t]]
    /\ UNCHANGED <<demo, ramp, params, members, service, ids, threadAt, shownIds, overlap>>

SubscriberHears(t) ==
    /\ demo \in Ports
    /\ t \in Topics /\ port[t].kept # <<>>
    /\ port' = [port EXCEPT ![t].kept = <<>>,
                  ![t].heard = {[value |-> FromUint32Bytes(port[t].kept[1].bytes), raw |-> port[t].kept[1].raw]}]
    /\ UNCHANGED <<demo, ramp, params, members, service, ids, threadAt, shownIds, overlap>>

DemoNextState ==
    \/ OnTimer \/ CombinedOnTimer
    \/ \E list \in Requested : SetParameters(list)
    \/ QueueAsyncRequest \/ LeaveClient \/ ClientTimer \/ HandleCalibration \/ ServiceEnvironment
    \/ \E t \in Threads : StartCallback(t) \/ FindThread(t) \/ PushThread(t)
    \/ \E published \in PortPublisher : OnPortTimer(published)
    \/ \E t \in PortSubscriber : SubscriberHears(t)

-----------------------------------------------------------------------------
(* The speed stays in the range its parameters allow through any sequence  *)
(* of changes, and the ramps never wrap below 0, whatever they turn at,    *)
(* unless the uninitialised count_ of the combined node began elsewhere.   *)
SpeedInRange ==
    /\ demo = "publisher" => /\ ramp.count \in 0..210 /\ ramp.speed \in 0..2200
                             /\ members = params
    /\ demo = "combined" /\ ramp.start = 0 => ramp.count \in 0..1100

(* A thread is always shown under the same id, and no two threads under    *)
(* one, unless two of them were in StringThreadId together.                *)
ThreadsKeepTheirIds ==
    overlap \/ \A t, u \in Threads :
        \A i \in shownIds[t], j \in shownIds[u] : (t = u) = (i = j)

(* What a ported subscriber shows is what was published, in its range.     *)
PortHearsValues ==
    \A t \in Topics : \A h \in port[t].heard :
        h.value = h.raw /\ h.value \in PortConfig[t].min..PortConfig[t].max

(* The answer to the request of the n-th call of the timer is the one for  *)
(* the sensor chosen in that call, however long requests waited.           *)
AnswersInTurn ==
    \A a \in service.answers :
        a[2] = Calibrate(service.combined, IF a[1] = 0 THEN "temperature" ELSE Sensor(service.combined, a[1]))

(* A service client that got its signal has ended, with the server or      *)
(* without it.                                                             *)
ServiceClientEnded == service.ok \/ service.at = "ended"
=============================================================================
