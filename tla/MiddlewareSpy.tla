---------------------------- MODULE MiddlewareSpy ----------------------------
(***************************************************************************)
(* MiddlewareSpy and the Spy program: what discovery reports of the other  *)
(* processes is kept in maps, and every topic that is published is tapped  *)
(* with a reader whose samples are shown.  Discovery (Fast DDS) is         *)
(* external; its callbacks come one at a time.                             *)
(***************************************************************************)
EXTENDS FiniteSets, Integers

CONSTANTS
    Remotes,    \* participants: [prefix, process]
    Endpoints,  \* [prefix, entity, kind ("reader", "writer"), topic]
    SpyProcess, \* the process of the spy itself
    Samples     \* what is published: [kind, value]

(* What a parameter's or a code's oneof can hold; Unset when it was not set. *)
ParameterKinds == {"Double", "Uint64", "String", "Boolean", "Binary"}
CodeKinds      == {"Diagnostic", "Event", "PublicDtc"}

ASSUME SpyAssumption ==
    \A s \in Samples : s.kind \in ParameterKinds \cup CodeKinds \cup {"Unset"}

VARIABLES
    remote,                 \* prefix -> "absent", "present" or "lost" (endpoints remain)
    known,                  \* endpoints discovery has reported and not removed
    m_participantData,      \* prefixes
    m_subscriberData,       \* prefix -> endpoint
    m_publisherData,        \* prefix -> endpoint
    m_topicSubscribers,     \* topic and endpoint, a multimap
    m_topicPublishers,
    m_tappedTopics,         \* topic -> how often it is in the multiset
    m_middlewareSubscribers,\* topics with a reader
    out_of_range,           \* m_participantData.at threw
    shown                   \* the last sample of a tapped topic, and what was shown of it

mapVars == <<m_participantData, m_subscriberData, m_publisherData, m_topicSubscribers,
             m_topicPublishers, out_of_range>>
tapVars == <<m_tappedTopics, m_middlewareSubscribers>>
spyVars == <<remote, known, mapVars, tapVars, shown>>

Topics == {e.topic : e \in Endpoints}
EmptyMap == [x \in {} |-> x]
Insert(map, key, e) == IF key \in DOMAIN map THEN map
                       ELSE [x \in DOMAIN map \cup {key} |-> IF x = key THEN e ELSE map[x]]
Erase(map, key) == [x \in DOMAIN map \ {key} |-> map[x]]
NothingShown == [topic |-> "none", sample |-> "none", what |-> "none"]

SpyInit ==
    /\ remote = [r \in Remotes |-> "absent"]
    /\ known = {}
    /\ m_participantData = {} /\ m_subscriberData = EmptyMap /\ m_publisherData = EmptyMap
    /\ m_topicSubscribers = {} /\ m_topicPublishers = {} /\ out_of_range = FALSE
    /\ m_tappedTopics = [t \in Topics |-> 0] /\ m_middlewareSubscribers = {}
    /\ shown = NothingShown

Own(prefix) == \E r \in Remotes : r.prefix = prefix /\ r.process = SpyProcess
EndpointsOf(r) == {e \in known : e.prefix = r.prefix}

(* A participant comes, again too after it was dropped; it is removed or   *)
(* dropped before its endpoints are.                                       *)
DISCOVERED_PARTICIPANT(r) ==
    /\ remote[r] # "present" /\ EndpointsOf(r) = {}
    /\ remote' = [remote EXCEPT ![r] = "present"]
    /\ m_participantData' =
          IF Own(r.prefix) THEN m_participantData ELSE m_participantData \cup {r.prefix}

\* Mutant: the entry is erased, as in the code that is commented out.
ForgetParticipant(r) ==
    /\ remote[r] = "present"
    /\ remote' = [remote EXCEPT ![r] = "lost"]
    /\ m_participantData' = m_participantData \ {r.prefix}

(* REMOVED_PARTICIPANT and DROPPED_PARTICIPANT keep the entry.             *)
REMOVED_PARTICIPANT(r) ==
    /\ remote[r] = "present"
    /\ remote' = [remote EXCEPT ![r] = "lost"]
    /\ UNCHANGED m_participantData

on_participant_discovery(r) ==
    /\ DISCOVERED_PARTICIPANT(r) \/ REMOVED_PARTICIPANT(r)
    /\ UNCHANGED <<known, m_subscriberData, m_publisherData, m_topicSubscribers,
                   m_topicPublishers, out_of_range, tapVars, shown>>

(* An endpoint of a participant that is there is new, or a known one goes. *)
Discovered(e) == e \notin known /\ known' = known \cup {e}
                 /\ \E r \in Remotes : r.prefix = e.prefix /\ remote[r] = "present"
Removed(e) == e \in known /\ known' = known \ {e}

(* What every endpoint callback begins with.                               *)
FindParticipant(e) ==
    out_of_range' = (out_of_range \/ (~Own(e.prefix) /\ e.prefix \notin m_participantData))

(* The tap that goes with one of several writers ends them all, as erase   *)
(* of a multiset does; the reader stays.                                   *)
AddWiretap(topic) ==
    /\ m_tappedTopics' = [m_tappedTopics EXCEPT ![topic] = @ + 1]
    /\ m_middlewareSubscribers' =
          IF m_tappedTopics[topic] > 0 THEN m_middlewareSubscribers
          ELSE m_middlewareSubscribers \cup {topic}

RemoveWiretap(topic) ==
    /\ m_tappedTopics' = [m_tappedTopics EXCEPT ![topic] = 0]
    /\ UNCHANGED m_middlewareSubscribers

on_data_reader_discovery(e) ==
    /\ e.kind = "reader"
    /\ FindParticipant(e)
    /\ \/ /\ Discovered(e)
          /\ IF Own(e.prefix) THEN UNCHANGED <<m_subscriberData, m_topicSubscribers>>
             ELSE /\ m_subscriberData' = Insert(m_subscriberData, e.prefix, e)
                  /\ m_topicSubscribers' = m_topicSubscribers \cup {<<e.topic, e>>}
       \/ /\ Removed(e)
          /\ IF Own(e.prefix) THEN UNCHANGED <<m_subscriberData, m_topicSubscribers>>
             ELSE /\ m_subscriberData' = Erase(m_subscriberData, e.prefix)
                  /\ m_topicSubscribers' = m_topicSubscribers \ {<<e.topic, e>>}
    /\ UNCHANGED <<remote, m_participantData, m_publisherData, m_topicPublishers, tapVars, shown>>

on_data_writer_discovery(e) ==
    /\ e.kind = "writer"
    /\ FindParticipant(e)
    /\ \/ /\ Discovered(e)
          /\ IF Own(e.prefix) THEN UNCHANGED <<m_publisherData, m_topicPublishers, tapVars>>
             ELSE /\ AddWiretap(e.topic)
                  /\ m_publisherData' = Insert(m_publisherData, e.prefix, e)
                  /\ m_topicPublishers' = m_topicPublishers \cup {<<e.topic, e>>}
       \/ /\ Removed(e)
          /\ IF Own(e.prefix) THEN UNCHANGED <<m_publisherData, m_topicPublishers, tapVars>>
             ELSE /\ RemoveWiretap(e.topic)
                  /\ m_publisherData' = Erase(m_publisherData, e.prefix)
                  /\ m_topicPublishers' = m_topicPublishers \ {<<e.topic, e>>}
    /\ UNCHANGED <<remote, m_participantData, m_subscriberData, m_topicSubscribers, shown>>

-----------------------------------------------------------------------------
(* What Spy shows of a sample: the type and value of a parameter, or the   *)
(* kind of every code and its status.                                      *)
LogParameterData(sample) ==
    CASE sample.kind \in ParameterKinds ->
            [type |-> sample.kind, value |-> sample.value]
      [] OTHER -> [type |-> "UNKNOWN", value |-> "ERROR"]

LogDiagnosticCode(sample) ==
    CASE sample.kind \in CodeKinds ->
            [type |-> sample.kind, value |-> sample.value]
      [] OTHER -> [type |-> "", value |-> ""]

topicSubscriberData(topic, sample) ==
    IF topic = "Diagnostics" THEN LogDiagnosticCode(sample) ELSE LogParameterData(sample)

(* A writer the spy was told of publishes; codes on the topic Diagnostics. *)
Publish(e, sample) ==
    /\ e \in known /\ e.kind = "writer" /\ e.topic \in m_middlewareSubscribers
    /\ (sample.kind \in CodeKinds) = (e.topic = "Diagnostics")
    /\ shown' = [topic |-> e.topic, sample |-> sample,
                 what |-> topicSubscriberData(e.topic, sample)]
    /\ UNCHANGED <<remote, known, mapVars, tapVars>>

SpyNext ==
    \/ \E r \in Remotes : on_participant_discovery(r)
    \/ \E e \in Endpoints : on_data_reader_discovery(e) \/ on_data_writer_discovery(e)
    \/ \E e \in Endpoints, s \in Samples : Publish(e, s)

SpySpec == SpyInit /\ [][SpyNext]_spyVars
-----------------------------------------------------------------------------
Foreign(kind) == {e \in known : e.kind = kind /\ ~Own(e.prefix)}

(* An endpoint's callback finds the participant, in whichever order the    *)
(* participant and its endpoints go; the topics list exactly the endpoints *)
(* that are there; and every topic that is published has a reader, also    *)
(* when one of its two publishers has gone and after all of them had.      *)
SpySeesTheNetwork ==
    /\ ~out_of_range
    /\ m_topicSubscribers = {<<e.topic, e>> : e \in Foreign("reader")}
    /\ m_topicPublishers = {<<e.topic, e>> : e \in Foreign("writer")}
    /\ \A e \in Foreign("writer") : e.topic \in m_middlewareSubscribers
    /\ shown = NothingShown \/ shown.sample.kind = "Unset"
         \/ shown.what = [type |-> shown.sample.kind, value |-> shown.sample.value]
=============================================================================
