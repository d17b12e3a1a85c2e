------------------------------- MODULE Mapper -------------------------------
(***************************************************************************)
(* The Mapper program: ParameterRepublisher publishes what its two         *)
(* subscriptions receive as one output parameter.  The subscriptions exist *)
(* before m_pPublish is set and after the publisher is destroyed, and data *)
(* of different inputs may come on different threads, which share the      *)
(* m_lastPublished of the one PublishParameter without a lock.             *)
(*                                                                         *)
(* A value is its input and serial number.  Fast DDS keeps the latest      *)
(* value of an input (ParameterSubscription).                              *)
(***************************************************************************)
EXTENDS Integers, Sequences, SequencesExt

CONSTANTS
    InputParameters,  \* n_inputParameters, in order
    MaxInputs         \* bound on the values published per input

Inputs  == ToSet(InputParameters)
Initial == [input |-> "none", n |-> 0]       \* the initial_value of the output
Torn    == [input |-> "none", n |-> -1]      \* a message two threads wrote or read at once

VARIABLES
    mapper,          \* main: "create", "retrieve", "loop", "leave", "destroy", "ended", "crashed"
    n_quit,          \* set by the signal handler
    subscribers,     \* inputs with a SubscribeParameter
    published,       \* external: input -> values published so far
    arrived,         \* external: input -> the value not delivered yet, or 0
    updating,        \* input -> where its OnParameterUpdated is, and its value
    m_lastPublished, \* the message of the output's PublishParameter
    output,          \* the values published as the output
    overlapped,      \* two callbacks were in Publish together
    misused          \* where main was when a callback found no publisher

mapperVars == <<mapper, n_quit, subscribers, published, arrived, updating, m_lastPublished, output,
                overlapped, misused>>

Idle == [at |-> "idle", n |-> 0]
MapperOver == mapper \in {"ended", "crashed"}

MapperInit ==
    /\ mapper = "create"
    /\ n_quit = FALSE
    /\ subscribers = {}
    /\ published = [i \in Inputs |-> 0]
    /\ arrived = [i \in Inputs |-> 0]
    /\ updating = [i \in Inputs |-> Idle]
    /\ m_lastPublished = Initial
    /\ output = <<>>
    /\ overlapped = FALSE
    /\ misused = "nowhere"

(* Another process publishes an input, whether or not anyone subscribes.   *)
InputPublished(i) ==
    /\ published[i] < MaxInputs
    /\ published' = [published EXCEPT ![i] = @ + 1]
    /\ arrived' = [arrived EXCEPT ![i] = published[i] + 1]
    /\ UNCHANGED <<mapper, n_quit, subscribers, updating, m_lastPublished, output, overlapped,
                   misused>>

Quit ==
    /\ ~MapperOver
    /\ n_quit' = TRUE
    /\ UNCHANGED <<mapper, subscribers, published, arrived, updating, m_lastPublished, output,
                   overlapped, misused>>

-----------------------------------------------------------------------------
(* Start, the loop of main and the destruction of its republisher.         *)

(* The first input, in the order of n_inputParameters, that is in S.       *)
FirstInput(S) ==
    InputParameters[CHOOSE k \in DOMAIN InputParameters :
                       /\ InputParameters[k] \in S
                       /\ \A j \in 1..(k - 1) : InputParameters[j] \notin S]

(* The subscriptions of CreateConfiguration come to life one by one.       *)
CreateSubscription ==
    /\ mapper = "create"
    /\ subscribers # Inputs
    /\ subscribers' = subscribers \cup {FirstInput(Inputs \ subscribers)}
    /\ UNCHANGED <<mapper, n_quit, published, arrived, updating, m_lastPublished, output,
                   overlapped, misused>>

(* PublishParameter::PublishParameter publishes the initial value.         *)
CreatePublisher ==
    /\ mapper = "create"
    /\ subscribers = Inputs
    /\ mapper' = "retrieve"
    /\ output' = Append(output, m_lastPublished)
    /\ UNCHANGED <<n_quit, subscribers, published, arrived, updating, m_lastPublished, overlapped,
                   misused>>

(* m_pPublish is set.                                                      *)
RetrievePublisher ==
    /\ mapper = "retrieve"
    /\ mapper' = "loop"
    /\ UNCHANGED <<n_quit, subscribers, published, arrived, updating, m_lastPublished, output,
                   overlapped, misused>>

QuitLoop ==
    /\ mapper = "loop"
    /\ n_quit
    /\ mapper' = "leave"
    /\ UNCHANGED <<n_quit, subscribers, published, arrived, updating, m_lastPublished, output,
                   overlapped, misused>>

(* ~Service resets its publishers, and its subscribers after them; each    *)
(* waits for its callback (DetachListener of ParameterSubscription).       *)
DestroyPublisher ==
    /\ mapper = "leave"
    /\ mapper' = "destroy"
    /\ UNCHANGED <<n_quit, subscribers, published, arrived, updating, m_lastPublished, output,
                   overlapped, misused>>

DestroySubscription ==
    /\ mapper = "destroy"
    /\ updating[FirstInput(subscribers)] = Idle
    /\ subscribers' = subscribers \ {FirstInput(subscribers)}
    /\ mapper' = IF subscribers' = {} THEN "ended" ELSE mapper
    /\ UNCHANGED <<n_quit, published, arrived, updating, m_lastPublished, output, overlapped,
                   misused>>

MapperMain ==
    \/ CreateSubscription \/ CreatePublisher \/ RetrievePublisher \/ QuitLoop
    \/ DestroyPublisher \/ DestroySubscription

-----------------------------------------------------------------------------
(* OnParameterUpdated and Publish, on the thread that received the value.  *)

Others(i) == {j \in Inputs \ {i} : updating[j] # Idle}

(* Through a null or dangling m_pPublish the program crashes; a dangling   *)
(* one may as well seem to work.                                           *)
NoPublisher(i) ==
    /\ misused' = mapper
    /\ updating' = [updating EXCEPT ![i] = Idle]
    /\ mapper' = "crashed" \/ (mapper \in {"destroy", "ended"} /\ UNCHANGED mapper)
    /\ UNCHANGED <<m_lastPublished, output, overlapped>>

OnParameterUpdated(i) ==
    /\ ~MapperOver
    /\ i \in subscribers /\ arrived[i] # 0 /\ updating[i] = Idle
    /\ arrived' = [arrived EXCEPT ![i] = 0]
    /\ \/ /\ mapper \in {"create", "retrieve", "destroy"}
          /\ NoPublisher(i)
       \/ /\ mapper \in {"loop", "leave"}
          /\ updating' = [updating EXCEPT ![i] = [at |-> "copy", n |-> arrived[i]]]
          /\ overlapped' = (overlapped \/ Others(i) # {})
          /\ UNCHANGED <<mapper, m_lastPublished, output, misused>>
    /\ UNCHANGED <<n_quit, subscribers, published>>

(* A message that another thread is in may be torn.                        *)
Seen(i, message) == {message} \cup (IF Others(i) # {} THEN {Torn} ELSE {})

CopyFrom(i) ==
    /\ updating[i].at = "copy"
    /\ m_lastPublished' \in Seen(i, [input |-> i, n |-> updating[i].n])
    /\ updating' = [updating EXCEPT ![i].at = "write"]
    /\ UNCHANGED output
WriteOutput(i) ==
    /\ updating[i].at = "write"
    /\ \E message \in Seen(i, m_lastPublished) : output' = Append(output, message)
    /\ updating' = [updating EXCEPT ![i] = Idle]
    /\ UNCHANGED m_lastPublished

PublishOutput(i) ==
    /\ mapper # "crashed"
    /\ updating[i] # Idle
    /\ \/ /\ mapper \in {"loop", "leave"}
          /\ CopyFrom(i) \/ WriteOutput(i)
          /\ UNCHANGED <<mapper, overlapped, misused>>
       \/ /\ mapper \in {"destroy", "ended"}
          /\ NoPublisher(i)
    /\ UNCHANGED <<n_quit, subscribers, published, arrived>>

Update(i) == OnParameterUpdated(i) \/ PublishOutput(i)

MapperNextState ==
    \/ MapperMain \/ Quit
    \/ \E i \in Inputs : InputPublished(i) \/ Update(i)

-----------------------------------------------------------------------------
(* A callback that came while main was in its loop finds the publisher:    *)
(* only before Start has returned, or while the service is being destroyed,*)
(* is there none.  No callback outlives the service.                       *)
PublisherFound == misused \in {"nowhere", "create", "retrieve", "destroy"}

(* As long as callbacks do not overlap, what is published is the initial   *)
(* value and then values of the inputs, those of each in their order, and  *)
(* nothing twice.                                                          *)
RepublishedInTurn ==
    ~overlapped =>
        \A k \in 2..Len(output) :
            /\ output[k].input \in Inputs
            /\ \A j \in 2..(k - 1) : output[j].input = output[k].input => output[j].n < output[k].n

(* The latest values were republished, and after the signal the program is *)
(* over.                                                                   *)
MapperSettled ==
    /\ n_quit => MapperOver
    /\ mapper = "loop" => \A i \in Inputs : arrived[i] = 0 /\ updating[i] = Idle
=============================================================================
