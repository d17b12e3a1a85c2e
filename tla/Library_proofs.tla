---------------------------- MODULE Library_proofs ----------------------------
(***************************************************************************)
(* Proofs about the parts of the library around the services, each under   *)
(* its own specification: the spy (MiddlewareSpy), the diagnostics service *)
(* (DiagnosticService), the registration of the types (TypeRegistry) and   *)
(* the cleaning of shared memory (ShmCleanup).                             *)
(***************************************************************************)
EXTENDS MiddlewareSpy, DiagnosticService, TypeRegistry, ShmCleanup, FiniteSetTheorems, TLAPS

-----------------------------------------------------------------------------
(* The spy.                                                                *)
(*                                                                         *)
(* An endpoint's callback finds its participant because entries of         *)
(* m_participantData stay, and a published topic has a reader because a    *)
(* topic that is tapped has one and readers stay.                          *)

SpyInv ==
    /\ remote \in [Remotes -> {"absent", "present", "lost"}]
    /\ known \subseteq Endpoints
    /\ m_tappedTopics \in [Topics -> Nat]
    /\ \A r \in Remotes :
          remote[r] = "present" => Own(r.prefix) \/ r.prefix \in m_participantData
    /\ \A e \in known : Own(e.prefix) \/ e.prefix \in m_participantData
    /\ \A topic \in Topics : m_tappedTopics[topic] > 0 => topic \in m_middlewareSubscribers
    /\ SpySeesTheNetwork

ShownRight(s) == \/ s = NothingShown \/ s.sample.kind = "Unset"
                 \/ s.what = [type |-> s.sample.kind, value |-> s.sample.value]

(* What the spy shows of a sample is its kind and value, unless the sample *)
(* was not set.                                                            *)
LEMMA ShowsSample ==
    ASSUME NEW topic, NEW sample \in Samples,
           (sample.kind \in CodeKinds) = (topic = "Diagnostics")
    PROVE  \/ sample.kind = "Unset"
           \/ topicSubscriberData(topic, sample) = [type |-> sample.kind, value |-> sample.value]
<1>1. CASE topic = "Diagnostics"
  BY <1>1 DEF topicSubscriberData, LogDiagnosticCode
<1>2. CASE topic # "Diagnostics"
  BY <1>2, SpyAssumption DEF topicSubscriberData, LogParameterData
<1> QED BY <1>1, <1>2

(* A callback of discovery or a sample preserves the invariant. *)
LEMMA SpyStep ==
    ASSUME SpyInv, SpyNext
    PROVE  SpyInv'
<1> USE DEF mapVars, tapVars
<1>1. ASSUME NEW r \in Remotes, on_participant_discovery(r)
      PROVE  SpyInv'
  <2>1. /\ m_participantData \subseteq m_participantData'
        /\ UNCHANGED <<known, m_topicSubscribers, m_topicPublishers, out_of_range, m_tappedTopics,
                       m_middlewareSubscribers, shown>>
    BY <1>1 DEF on_participant_discovery, DISCOVERED_PARTICIPANT, REMOVED_PARTICIPANT
  <2>2. /\ remote' \in [Remotes -> {"absent", "present", "lost"}]
        /\ \A q \in Remotes :
              remote'[q] = "present" => Own(q.prefix) \/ q.prefix \in m_participantData'
    BY <1>1, <2>1 DEF on_participant_discovery, DISCOVERED_PARTICIPANT, REMOVED_PARTICIPANT, SpyInv
  <2>3. SpySeesTheNetwork'
    BY <2>1 DEF SpyInv, SpySeesTheNetwork, Foreign
  <2> QED BY <2>1, <2>2, <2>3 DEF SpyInv
<1>2. ASSUME NEW e \in Endpoints, on_data_reader_discovery(e) \/ on_data_writer_discovery(e)
      PROVE  SpyInv'
  <2>1. UNCHANGED <<remote, m_participantData, shown>>
    BY <1>2 DEF on_data_reader_discovery, on_data_writer_discovery
  <2>2. /\ known' \subseteq Endpoints
        /\ Own(e.prefix) \/ e.prefix \in m_participantData
        /\ \A f \in known' : Own(f.prefix) \/ f.prefix \in m_participantData
        /\ known' = known \cup {e} \/ known' = known \ {e}
        /\ ~out_of_range'
    BY <1>2 DEF on_data_reader_discovery, on_data_writer_discovery, Discovered, Removed,
       FindParticipant, SpyInv, SpySeesTheNetwork
  <2>3. /\ m_tappedTopics' \in [Topics -> Nat]
        /\ m_middlewareSubscribers \subseteq m_middlewareSubscribers'
        /\ \A topic \in Topics : m_tappedTopics'[topic] > 0 => topic \in m_middlewareSubscribers'
        /\ \A f \in known' \ known : f.kind = "writer" /\ ~Own(f.prefix) =>
              f.topic \in m_middlewareSubscribers'
    <3>1. e.topic \in Topics
      BY DEF Topics
    <3>2. CASE UNCHANGED tapVars /\ (e.kind = "reader" \/ Own(e.prefix))
      BY <2>2, <3>2 DEF SpyInv
    <3>3. CASE AddWiretap(e.topic) /\ known' = known \cup {e}
      BY <3>1, <3>3 DEF AddWiretap, SpyInv
    <3>4. CASE RemoveWiretap(e.topic) /\ known' = known \ {e}
      BY <3>1, <3>4 DEF RemoveWiretap, SpyInv
    <3> QED
      BY <1>2, <3>2, <3>3, <3>4 DEF on_data_reader_discovery, on_data_writer_discovery, Discovered,
         Removed
  <2>4. m_topicSubscribers' = {<<f.topic, f>> : f \in Foreign("reader")'}
    BY <1>2 DEF on_data_reader_discovery, on_data_writer_discovery, Discovered, Removed, Foreign,
       SpyInv, SpySeesTheNetwork
  <2>5. m_topicPublishers' = {<<f.topic, f>> : f \in Foreign("writer")'}
    BY <1>2 DEF on_data_reader_discovery, on_data_writer_discovery, Discovered, Removed, Foreign,
       SpyInv, SpySeesTheNetwork
  <2>6. \A f \in Foreign("writer")' : f.topic \in m_middlewareSubscribers'
    BY <2>3 DEF Foreign, SpyInv, SpySeesTheNetwork
  <2>7. SpySeesTheNetwork'
    BY <2>1, <2>2, <2>4, <2>5, <2>6 DEF SpyInv, SpySeesTheNetwork
  <2> QED BY <2>1, <2>2, <2>3, <2>7 DEF SpyInv
<1>3. ASSUME NEW e \in Endpoints, NEW s \in Samples, Publish(e, s)
      PROVE  SpyInv'
  <2>1. /\ UNCHANGED <<remote, known, m_participantData, m_topicSubscribers, m_topicPublishers,
                       out_of_range, m_tappedTopics, m_middlewareSubscribers>>
        /\ shown' = [topic |-> e.topic, sample |-> s, what |-> topicSubscriberData(e.topic, s)]
        /\ (s.kind \in CodeKinds) = (e.topic = "Diagnostics")
    BY <1>3 DEF Publish
  <2>2. ShownRight(shown')
    BY <2>1, ShowsSample DEF ShownRight
  <2> QED BY <2>1, <2>2 DEF ShownRight, SpyInv, SpySeesTheNetwork, Foreign
<1> QED BY <1>1, <1>2, <1>3 DEF SpyNext

(* Discovery's callbacks never miss their participant, the lists of topics *)
(* are those of the network, and every published topic is tapped: for any  *)
(* participants and endpoints that come and go in any order.               *)
THEOREM SpySound == SpySpec => []SpySeesTheNetwork
<1>1. SpyInit => SpyInv
  BY DEF SpyInit, SpyInv, SpySeesTheNetwork, Foreign
<1>2. SpyInv /\ UNCHANGED spyVars => SpyInv'
  BY DEF spyVars, mapVars, tapVars, SpyInv, SpySeesTheNetwork, Foreign
<1>3. SpyInv => SpySeesTheNetwork
  BY DEF SpyInv
<1> QED BY <1>1, <1>2, <1>3, SpyStep, PTL DEF SpySpec

-----------------------------------------------------------------------------
(* The diagnostics service.                                                *)
(*                                                                         *)
(* That the callback of a request is run once per completed group is a     *)
(* statement about counts: the calls of a request are those that were      *)
(* posted for it, and each is completed once.                              *)

DiagnosticType ==
    /\ issued \in Nat /\ completed \in [Calls -> Failures \cup {"SUCCESS", "none"}]
    /\ requests \in Seq(Nat) /\ toPost \in Nat
    /\ requestOf \in Seq(Nat) /\ Len(requestOf) = issued
    /\ called \in Seq(Seq(Nat)) /\ Len(called) = Len(requests)
    /\ server \in [CodeServers -> {"none", "created", "running", "closing", "destroyed"}]
    /\ m_onRequest \in CodeServers \cup {0}
    /\ deferred \subseteq [call : Calls, server : CodeServers, by : CodeServers \cup {0}]
    /\ replies \in [Calls -> CodeServers \cup {NoSuccess, NoReply}]

(* A call belongs to a request that has groups, and no call is completed   *)
(* before it is made.                                                      *)
PostedInv ==
    /\ issued + toPost <= MaxCalls
    /\ toPost > 0 => requests # <<>> /\ requests[Len(requests)] > 0
    /\ \A c \in 1 .. issued : requestOf[c] \in 1 .. Len(requests) /\ requests[requestOf[c]] > 0
    /\ \A c \in Calls : c > issued => completed[c] = "none"

(* Data come from a server that was created, and an answer that may still  *)
(* complete its call is there.                                             *)
RepliesInv ==
    /\ \A c \in Calls : replies[c] \in CodeServers => server[replies[c]] # "none"
    /\ m_onRequest # 0 => server[m_onRequest] # "none"
    /\ \A c \in Calls \cap answered : completed[c] = "none" => replies[c] # NoReply

DiagnosticInv == DiagnosticType /\ PostedInv /\ RepliesInv /\ CalledBackPerGroup

(* Adding an element at the end. *)
LEMMA AppendIs ==
    ASSUME NEW S, NEW s \in Seq(S), NEW x \in S
    PROVE  /\ Append(s, x) \in Seq(S) /\ Append(s, x) # <<>>
           /\ Len(s) \in Nat /\ Len(Append(s, x)) = Len(s) + 1
           /\ Append(s, x)[Len(s) + 1] = x
           /\ \A i \in 1 .. Len(s) : Append(s, x)[i] = s[i]
OBVIOUS

(* The calls that were made are calls. *)
LEMMA IssuedAreCalls ==
    ASSUME DiagnosticType, PostedInv
    PROVE  issued \in Nat /\ issued <= MaxCalls /\ 1 .. issued \subseteq Calls
BY DiagnosticAssumption DEF DiagnosticType, PostedInv, Calls

(* The calls of a request, without the sequence. *)
LEMMA CompletedOfIs ==
    ASSUME DiagnosticType, NEW r
    PROVE  /\ CompletedOf(r) = {c \in 1 .. issued : requestOf[c] = r /\ completed[c] # "none"}
           /\ IsFiniteSet(CompletedOf(r))
<1>1. CompletedOf(r) = {c \in 1 .. issued : requestOf[c] = r /\ completed[c] # "none"}
  BY DEF CompletedOf, CallsOf, DiagnosticType
<1>2. IsFiniteSet(1 .. issued)
  BY FS_Interval DEF DiagnosticType
<1>3. CompletedOf(r) \subseteq 1 .. issued
  BY <1>1
<1> QED BY <1>1, <1>2, <1>3, FS_Subset

(* What is said of the callbacks of one request. *)
CalledBack(r) ==
    /\ Len(called[r]) = IF requests[r] = 0 THEN 1 ELSE Cardinality(CompletedOf(r))
    /\ \A i \in 1..Len(called[r]) : called[r][i] # Cleared =>
          \E c \in CompletedOf(r) : replies[c] = called[r][i] /\ server[called[r][i]] # "none"

(* A new request has no calls yet. *)
LEMMA RequestStepD ==
    ASSUME DiagnosticInv, NEW n \in GroupCounts, RequestAdditionalInformation(n)
    PROVE  DiagnosticInv'
<1> DEFINE data == IF n = 0 THEN <<Cleared>> ELSE <<>>
<1>1. /\ UNCHANGED <<issued, answered, completed, requestOf, m_onRequest, server, deferred,
                     replies>>
      /\ requests' = Append(requests, n) /\ called' = Append(called, data)
      /\ toPost' = n /\ n \in Nat /\ issued + n <= MaxCalls
  BY DiagnosticAssumption DEF RequestAdditionalInformation, tVars, serverVars
<1>2. data \in Seq(Nat) /\ Len(data) = (IF n = 0 THEN 1 ELSE 0)
      /\ \A i \in 1 .. Len(data) : data[i] = Cleared
  BY DEF Cleared
<1> HIDE DEF data
<1>3. /\ requests' \in Seq(Nat) /\ Len(requests') = Len(requests) + 1 /\ requests' # <<>>
      /\ called' \in Seq(Seq(Nat)) /\ Len(called') = Len(requests) + 1
      /\ requests'[Len(requests) + 1] = n /\ called'[Len(requests) + 1] = data
      /\ \A r \in 1 .. Len(requests) : requests'[r] = requests[r] /\ called'[r] = called[r]
  <2>1. requests \in Seq(Nat) /\ called \in Seq(Seq(Nat)) /\ Len(called) = Len(requests)
    BY DEF DiagnosticInv, DiagnosticType
  <2>2. /\ requests' \in Seq(Nat) /\ Len(requests') = Len(requests) + 1 /\ requests' # <<>>
        /\ requests'[Len(requests) + 1] = n
        /\ \A r \in 1 .. Len(requests) : requests'[r] = requests[r]
    <3>1. n \in Nat /\ requests' = Append(requests, n)
      BY <1>1
    <3> QED BY <2>1, <3>1, AppendIs
  <2>3. /\ called' \in Seq(Seq(Nat)) /\ Len(called') = Len(called) + 1
        /\ called'[Len(called) + 1] = data
        /\ \A r \in 1 .. Len(called) : called'[r] = called[r]
    BY <1>1, <1>2, <2>1, AppendIs
  <2> QED BY <2>1, <2>2, <2>3
<1>4. DiagnosticType'
  BY <1>1, <1>3 DEF DiagnosticInv, DiagnosticType
<1>5. PostedInv'
  <2>1. Len(requests) \in Nat
    BY DEF DiagnosticInv, DiagnosticType
  <2>2. \A c \in 1 .. issued : requestOf[c] \in 1 .. Len(requests) /\ requests[requestOf[c]] > 0
    BY DEF DiagnosticInv, PostedInv
  <2>3. \A c \in 1 .. issued : requestOf[c] \in 1 .. Len(requests') /\ requests'[requestOf[c]] > 0
    <3>1. \A r \in 1 .. Len(requests) : r \in 1 .. Len(requests') /\ requests'[r] = requests[r]
      BY <1>3, <2>1
    <3> QED BY <2>2, <3>1
  <2> QED BY <1>1, <1>3, <2>3 DEF DiagnosticInv, PostedInv
<1>6. RepliesInv'
  BY <1>1 DEF DiagnosticInv, RepliesInv
<1>7. \A r : CompletedOf(r)' = CompletedOf(r)
  BY <1>1 DEF CompletedOf, CallsOf
<1>8. ASSUME NEW r \in 1 .. Len(requests) PROVE CalledBack(r)'
  <2>1. CalledBack(r)
    BY DEF DiagnosticInv, CalledBackPerGroup, CalledBack
  <2> QED BY <1>1, <1>3, <1>7, <2>1 DEF CalledBack
<1>9. PICK k \in Nat : k = Len(requests) + 1
  BY DEF DiagnosticInv, DiagnosticType
<1>10. CalledBack(k)'
  <2>1. CompletedOf(k) = {}
    <3>1. \A c \in 1 .. issued : requestOf[c] # k
      BY <1>9 DEF DiagnosticInv, DiagnosticType, PostedInv
    <3> QED BY <3>1, CompletedOfIs DEF DiagnosticInv
  <2>2. Cardinality(CompletedOf(k)') = 0
    BY <1>7, <2>1, FS_EmptySet
  <2> QED BY <1>2, <1>3, <1>9, <2>2 DEF CalledBack
<1>11. CalledBackPerGroup'
  <2>1. \A r \in 1 .. Len(requests') : r \in 1 .. Len(requests) \/ r = k
    BY <1>3, <1>9 DEF DiagnosticInv, DiagnosticType
  <2> QED BY <1>8, <1>10, <2>1 DEF CalledBackPerGroup, CalledBack
<1> QED BY <1>4, <1>5, <1>6, <1>11 DEF DiagnosticInv

(* A call that is posted is not completed. *)
LEMMA PostGroupStep ==
    ASSUME DiagnosticInv, PostGroup
    PROVE  DiagnosticInv'
<1>1. /\ UNCHANGED <<answered, completed, requests, called, m_onRequest, server, deferred, replies>>
      /\ toPost > 0 /\ toPost' = toPost - 1 /\ issued' = issued + 1
      /\ requestOf' = Append(requestOf, Len(requests))
  BY DEF PostGroup, serverVars
<1>2. /\ requestOf' \in Seq(Nat) /\ Len(requestOf') = issued'
      /\ requestOf'[issued'] = Len(requests)
      /\ \A c \in 1 .. issued : requestOf'[c] = requestOf[c]
      /\ \A c \in 1 .. issued' : c \in 1 .. issued \/ c = issued'
      /\ issued' \in Calls
  <2>1. requestOf \in Seq(Nat) /\ Len(requests) \in Nat /\ Len(requestOf) = issued
    BY DEF DiagnosticInv, DiagnosticType
  <2>2. issued' \in Calls
    BY <1>1, DiagnosticAssumption DEF DiagnosticInv, DiagnosticType, PostedInv, Calls
  <2> QED BY <1>1, <2>1, <2>2, AppendIs
<1>3. DiagnosticType'
  BY <1>1, <1>2 DEF DiagnosticInv, DiagnosticType
<1>4. PostedInv'
  BY <1>1, <1>2 DEF DiagnosticInv, DiagnosticType, PostedInv, Calls
<1>5. RepliesInv'
  BY <1>1 DEF DiagnosticInv, RepliesInv
<1>6. ASSUME NEW r \in 1 .. Len(requests) PROVE CalledBack(r)'
  <2>1. CompletedOf(r)' = {c \in 1 .. issued' : requestOf'[c] = r /\ completed'[c] # "none"}
    BY <1>1, <1>2 DEF CompletedOf, CallsOf
  <2>2. completed[issued'] = "none"
    BY <1>1, <1>2 DEF DiagnosticInv, DiagnosticType, PostedInv
  <2>3. CompletedOf(r)' = CompletedOf(r)
    <3>1. CompletedOf(r) = {c \in 1 .. issued : requestOf[c] = r /\ completed[c] # "none"}
      BY CompletedOfIs DEF DiagnosticInv
    <3> QED BY <1>1, <1>2, <2>1, <2>2, <3>1 DEF DiagnosticInv, DiagnosticType
  <2>4. CalledBack(r)
    BY DEF DiagnosticInv, CalledBackPerGroup, CalledBack
  <2> QED BY <1>1, <2>3, <2>4 DEF CalledBack
<1> QED BY <1>1, <1>3, <1>4, <1>5, <1>6 DEF DiagnosticInv, CalledBackPerGroup, CalledBack

(* The callback of a call adds the call to the completed ones of its       *)
(* request, and one entry to what the request was called back with.        *)
LEMMA OnCompleteStep ==
    ASSUME DiagnosticInv, NEW c \in Calls, NEW parsed \in BOOLEAN, OnComplete(c, parsed)
    PROVE  DiagnosticInv'
<1> DEFINE q == requestOf[c]
           data == IF completed'[c] = "SUCCESS" /\ replies[c] # NoSuccess /\ parsed
                   THEN replies[c] ELSE Cleared
<1>1. /\ UNCHANGED <<issued, answered, requests, toPost, requestOf, m_onRequest, server, deferred,
                     replies>>
      /\ c <= issued /\ completed[c] = "none"
      /\ called' = [called EXCEPT ![q] = Append(@, data)]
  BY DEF OnComplete, Complete, serverVars
<1>2. PICK status \in Failures \cup {"SUCCESS"} :
         /\ status = "SUCCESS" => c \in answered
         /\ completed' = [completed EXCEPT ![c] = status]
  BY DEF OnComplete, Complete
<1>3. /\ completed'[c] = status /\ status # "none"
      /\ \A d \in Calls : d # c => completed'[d] = completed[d]
      /\ completed' \in [Calls -> Failures \cup {"SUCCESS", "none"}]
  BY <1>2 DEF DiagnosticInv, DiagnosticType, Failures
<1>4. c \in 1 .. issued /\ q \in 1 .. Len(requests) /\ requests[q] > 0
  BY <1>1 DEF DiagnosticInv, DiagnosticType, PostedInv, Calls
<1>5. /\ data \in Nat
      /\ data # Cleared => data = replies[c] /\ server[data] # "none"
  BY <1>1, <1>2, <1>3, DiagnosticAssumption DEF DiagnosticInv, DiagnosticType, RepliesInv,
     NoSuccess, NoReply, Cleared
<1> HIDE DEF data, q
<1>6. /\ called' \in Seq(Seq(Nat)) /\ Len(called') = Len(called)
      /\ \A r \in 1 .. Len(requests) : r # q => called'[r] = called[r]
      /\ Len(called'[q]) = Len(called[q]) + 1
      /\ \A i \in 1 .. Len(called[q]) : called'[q][i] = called[q][i]
      /\ called'[q][Len(called[q]) + 1] = data
      /\ Len(called[q]) \in Nat
  <2>1. called \in Seq(Seq(Nat)) /\ q \in 1 .. Len(called) /\ called[q] \in Seq(Nat)
    BY <1>4 DEF DiagnosticInv, DiagnosticType
  <2>2. /\ Append(called[q], data) \in Seq(Nat)
        /\ Len(Append(called[q], data)) = Len(called[q]) + 1
        /\ \A i \in 1 .. Len(called[q]) : Append(called[q], data)[i] = called[q][i]
        /\ Append(called[q], data)[Len(called[q]) + 1] = data
        /\ Len(called[q]) \in Nat
    BY <1>5, <2>1
  <2>3. Len(called) = Len(requests)
    BY DEF DiagnosticInv, DiagnosticType
  <2>4. /\ called' \in Seq(Seq(Nat)) /\ Len(called') = Len(called)
        /\ called'[q] = Append(called[q], data)
        /\ \A r \in 1 .. Len(called) : r # q => called'[r] = called[r]
    BY <1>1, <2>1, <2>2
  <2> QED BY <2>2, <2>3, <2>4
<1>7. DiagnosticType'
  BY <1>1, <1>3, <1>6 DEF DiagnosticInv, DiagnosticType
<1>8. PostedInv'
  <2>1. \A d \in Calls : d > issued => d # c
    BY <1>1, IssuedAreCalls DEF DiagnosticInv, Calls
  <2> QED BY <1>1, <1>3, <2>1 DEF DiagnosticInv, PostedInv
<1>9. RepliesInv'
  BY <1>1, <1>3 DEF DiagnosticInv, RepliesInv
<1>10. ASSUME NEW r \in 1 .. Len(requests) PROVE CalledBack(r)'
  <2>1. CalledBack(r)
    BY DEF DiagnosticInv, CalledBackPerGroup, CalledBack
  <2>2. /\ CompletedOf(r) = {d \in 1 .. issued : requestOf[d] = r /\ completed[d] # "none"}
        /\ IsFiniteSet(CompletedOf(r))
    BY CompletedOfIs DEF DiagnosticInv
  <2>3. CompletedOf(r)' = {d \in 1 .. issued : requestOf[d] = r /\ completed'[d] # "none"}
    BY <1>1 DEF DiagnosticInv, DiagnosticType, CompletedOf, CallsOf
  <2>4. 1 .. issued \subseteq Calls
    BY IssuedAreCalls DEF DiagnosticInv
  <2>5. CASE r # q
    <3>1. CompletedOf(r)' = CompletedOf(r)
      BY <1>3, <2>2, <2>3, <2>4, <2>5 DEF q
    <3> QED BY <1>1, <1>6, <2>1, <2>5, <3>1 DEF CalledBack
  <2>6. CASE r = q
    <3>1. CompletedOf(r)' = CompletedOf(r) \cup {c} /\ c \notin CompletedOf(r)
      BY <1>1, <1>3, <1>4, <2>2, <2>3, <2>4, <2>6 DEF q
    <3>2. Cardinality(CompletedOf(r)') = Cardinality(CompletedOf(r)) + 1
      BY <2>2, <3>1, FS_AddElement
    <3>3. requests[r] # 0
      BY <1>4, <2>6 DEF DiagnosticInv, DiagnosticType
    <3>4. Len(called'[r]) = Cardinality(CompletedOf(r)')
      BY <1>6, <2>1, <2>6, <3>2, <3>3 DEF CalledBack
    <3>5. \A i \in 1 .. Len(called'[r]) : i \in 1 .. Len(called[r]) \/ i = Len(called[r]) + 1
      BY <1>6, <2>6
    <3>6. \A i \in 1 .. Len(called'[r]) : called'[r][i] # Cleared =>
             \E d \in CompletedOf(r)' : replies[d] = called'[r][i] /\ server[called'[r][i]] # "none"
      <4> SUFFICES ASSUME NEW i \in 1 .. Len(called'[r]), called'[r][i] # Cleared
                   PROVE  \E d \in CompletedOf(r)' :
                             replies[d] = called'[r][i] /\ server[called'[r][i]] # "none"
        OBVIOUS
      <4>1. CASE i \in 1 .. Len(called[r])
        <5>1. called'[r][i] = called[r][i]
          BY <1>6, <2>6, <4>1
        <5> QED BY <2>1, <3>1, <4>1, <5>1 DEF CalledBack
      <4>2. CASE i = Len(called[r]) + 1
        <5>1. called'[r][i] = data
          BY <1>6, <2>6, <4>2
        <5> QED BY <1>5, <3>1, <5>1
      <4> QED BY <3>5, <4>1, <4>2
    <3> QED BY <1>1, <3>3, <3>4, <3>6 DEF CalledBack
  <2> QED BY <2>5, <2>6
<1> QED BY <1>1, <1>7, <1>8, <1>9, <1>10 DEF DiagnosticInv, CalledBackPerGroup, CalledBack

(* The servers: what a request was called back with is not changed by a    *)
(* reply that comes late, nor by a server that comes or goes.              *)
LEMMA ServersStep ==
    ASSUME DiagnosticInv, UNCHANGED <<issued, completed, requests, toPost, requestOf, called>>,
           DiagnosticType', RepliesInv',
           \A c \in Calls : completed[c] # "none" => replies'[c] = replies[c],
           \A s \in CodeServers : server[s] # "none" => server'[s] # "none"
    PROVE  DiagnosticInv'
<1>1. PostedInv'
  BY DEF DiagnosticInv, PostedInv
<1>2. ASSUME NEW r \in 1 .. Len(requests) PROVE CalledBack(r)'
  <2>1. CalledBack(r)
    BY DEF DiagnosticInv, CalledBackPerGroup, CalledBack
  <2>2. CompletedOf(r)' = CompletedOf(r)
    BY DEF CompletedOf, CallsOf
  <2>3. \A c \in CompletedOf(r) : c \in Calls /\ replies'[c] = replies[c]
    BY CompletedOfIs, IssuedAreCalls DEF DiagnosticInv
  <2>4. \A i \in 1 .. Len(called[r]) : called[r][i] # Cleared => called[r][i] \in CodeServers
    <3>1. called[r] \in Seq(Nat) /\ \A c \in CompletedOf(r) : c \in Calls
      BY <2>3 DEF DiagnosticInv, DiagnosticType
    <3>2. \A i \in 1 .. Len(called[r]) : called[r][i] \in Nat
      BY <3>1
    <3>3. \A c \in Calls : replies[c] \in CodeServers \cup {NoSuccess, NoReply}
      BY DEF DiagnosticInv, DiagnosticType
    <3>4. \A x \in Nat : x # Cleared => x \notin {NoSuccess, NoReply}
      BY DEF NoSuccess, NoReply, Cleared
    <3>5. \A i \in 1 .. Len(called[r]) : called[r][i] # Cleared =>
             \E c \in CompletedOf(r) : replies[c] = called[r][i]
      BY <2>1 DEF CalledBack
    <3> QED BY <3>1, <3>2, <3>3, <3>4, <3>5
  <2> QED BY <2>1, <2>2, <2>3, <2>4 DEF CalledBack
<1> QED BY <1>1, <1>2 DEF DiagnosticInv, CalledBackPerGroup, CalledBack

(* A reply changes the outcome of a call that is still waiting, no other.  *)
LEMMA GiveReplyStep ==
    ASSUME DiagnosticInv, NEW c \in Calls, NEW by \in CodeServers \cup {NoSuccess},
           by \in CodeServers => server[by] # "none",
           GiveReply(c, by), deferred' \subseteq deferred
    PROVE  DiagnosticInv'
<1>1. /\ UNCHANGED <<issued, completed, requests, toPost, requestOf, called, m_onRequest, server>>
      /\ answered' = answered \cup {c}
      /\ replies' = IF completed[c] # "none" THEN replies ELSE [replies EXCEPT ![c] = by]
  BY DEF GiveReply, Answer, clientVars
<1>2. by # NoReply
  BY DiagnosticAssumption DEF NoSuccess, NoReply
<1>3. replies \in [Calls -> CodeServers \cup {NoSuccess, NoReply}]
  BY DEF DiagnosticInv, DiagnosticType
<1>4. /\ replies' \in [Calls -> CodeServers \cup {NoSuccess, NoReply}]
      /\ \A d \in Calls : replies'[d] = IF d = c /\ completed[c] = "none" THEN by ELSE replies[d]
  BY <1>1, <1>3
<1>5. DiagnosticType'
  BY <1>1, <1>4 DEF DiagnosticInv, DiagnosticType
<1>6. RepliesInv'
  BY <1>1, <1>2, <1>4 DEF DiagnosticInv, RepliesInv
<1> QED BY <1>1, <1>4, <1>5, <1>6, ServersStep

(* The handler of a request replies, or defers its reply. *)
LEMMA RequestHandlerStep ==
    ASSUME DiagnosticInv, NEW s \in CodeServers, NEW c \in Calls, RequestHandler(s, c)
    PROVE  DiagnosticInv'
<1>1. m_onRequest \in CodeServers \cup {NoSuccess}
  BY DEF DiagnosticInv, DiagnosticType, NoSuccess
<1>2. m_onRequest \in CodeServers => server[m_onRequest] # "none"
  BY DiagnosticAssumption DEF DiagnosticInv, RepliesInv
<1>3. CASE GiveReply(c, m_onRequest) /\ UNCHANGED deferred
  BY <1>1, <1>2, <1>3, GiveReplyStep
<1>4. CASE GiveReply(c, NoSuccess) /\ UNCHANGED deferred
  <2>1. NoSuccess \notin CodeServers
    BY DiagnosticAssumption DEF NoSuccess
  <2> QED BY <1>4, <2>1, GiveReplyStep
<1>5. CASE /\ deferred' = deferred \cup {[call |-> c, server |-> s, by |-> m_onRequest]}
           /\ UNCHANGED <<tVars, clientVars, m_onRequest, server, replies, codes>>
  <2>1. UNCHANGED <<issued, answered, completed, requests, toPost, requestOf, called, m_onRequest,
                    server, replies>>
    BY <1>5 DEF tVars, clientVars
  <2>2. deferred' \subseteq [call : Calls, server : CodeServers, by : CodeServers \cup {0}]
    BY <1>1, <1>5 DEF DiagnosticInv, DiagnosticType, NoSuccess
  <2>3. DiagnosticType' /\ RepliesInv'
    BY <2>1, <2>2 DEF DiagnosticInv, DiagnosticType, RepliesInv
  <2> QED BY <2>1, <2>3, ServersStep
<1> QED BY <1>3, <1>4, <1>5 DEF RequestHandler

(* The late reply to a deferred request, and its timeout. *)
LEMMA DeferredStep ==
    ASSUME DiagnosticInv, NEW d \in deferred, CodeServerReply(d) \/ ReplyTimeout(d)
    PROVE  DiagnosticInv'
<1>1. d.call \in Calls /\ d.server \in CodeServers
  BY DEF DiagnosticInv, DiagnosticType
<1>2. deferred' \subseteq deferred
  BY DEF CodeServerReply, ReplyTimeout
<1>3. CASE GiveReply(d.call, d.server) /\ server[d.server] = "running"
  BY <1>1, <1>2, <1>3, GiveReplyStep
<1>4. CASE GiveReply(d.call, NoSuccess)
  <2>1. NoSuccess \notin CodeServers
    BY DiagnosticAssumption DEF NoSuccess
  <2> QED BY <1>1, <1>2, <1>4, <2>1, GiveReplyStep
<1>5. CASE UNCHANGED <<tVars, clientVars, m_onRequest, server, replies, codes>>
  <2>1. UNCHANGED <<issued, answered, completed, requests, toPost, requestOf, called, m_onRequest,
                    server, replies>>
    BY <1>5 DEF tVars, clientVars
  <2>2. DiagnosticType' /\ RepliesInv'
    BY <1>2, <2>1 DEF DiagnosticInv, DiagnosticType, RepliesInv
  <2> QED BY <2>1, <2>2, ServersStep
<1> QED BY <1>3, <1>4, <1>5 DEF CodeServerReply, ReplyTimeout

(* A server that comes, runs, publishes or goes, and the client that goes. *)
LEMMA LifetimeStep ==
    ASSUME DiagnosticInv,
           \/ DestroyCodeClient
           \/ \E s \in CodeServers : \/ CreateCodeServer(s) \/ RunCodeServer(s)
                                      \/ PublishCodes(s) \/ DestroyCodeServer(s)
    PROVE  DiagnosticInv'
<1>1. UNCHANGED <<issued, answered, completed, requests, toPost, requestOf, called, deferred,
                  replies>>
  BY DEF DestroyCodeClient, Close, CreateCodeServer, RunCodeServer, PublishCodes, DestroyCodeServer,
     tVars, clientVars, serverVars
<1>2. /\ server' \in [CodeServers -> {"none", "created", "running", "closing", "destroyed"}]
      /\ \A s \in CodeServers : server[s] # "none" => server'[s] # "none"
      /\ m_onRequest' \in CodeServers \cup {0}
      /\ m_onRequest' # 0 => server'[m_onRequest'] # "none"
  BY DEF DestroyCodeClient, CreateCodeServer, RunCodeServer, PublishCodes, DestroyCodeServer,
     serverVars, DiagnosticInv, DiagnosticType, RepliesInv
<1>3. DiagnosticType'
  BY <1>1, <1>2 DEF DiagnosticInv, DiagnosticType
<1>4. RepliesInv'
  BY <1>1, <1>2 DEF DiagnosticInv, RepliesInv
<1> QED BY <1>1, <1>2, <1>3, <1>4, ServersStep

(* The callback of RequestAdditionalInformation runs once per completed    *)
(* group, with data of a server that replied to it or with none: for any   *)
(* lists of groups, servers and callbacks, however replies, timeouts and   *)
(* the destructors interleave.                                             *)
THEOREM CallbacksCounted == DiagnosticSpec => []CalledBackPerGroup
<1>1. DiagnosticInit => DiagnosticInv
  <2> SUFFICES ASSUME DiagnosticInit PROVE DiagnosticInv
    OBVIOUS
  <2>1. /\ requests = <<>> /\ toPost = 0 /\ requestOf = <<>> /\ called = <<>>
        /\ m_onRequest = 0 /\ deferred = {}
        /\ server = [s \in CodeServers |-> "none"] /\ replies = [c \in Calls |-> NoReply]
        /\ issued = 0 /\ answered = {} /\ completed = [c \in Calls |-> "none"]
    BY DEF DiagnosticInit, TInit
  <2>2. DiagnosticType
    BY <2>1 DEF DiagnosticType
  <2>3. PostedInv
    BY <2>1, DiagnosticAssumption DEF PostedInv
  <2>4. RepliesInv
    BY <2>1, DiagnosticAssumption DEF RepliesInv, NoReply
  <2>5. CalledBackPerGroup
    BY <2>1 DEF CalledBackPerGroup
  <2> QED BY <2>2, <2>3, <2>4, <2>5 DEF DiagnosticInv
<1>2. DiagnosticInv /\ DiagnosticNext => DiagnosticInv'
  BY RequestStepD, PostGroupStep, OnCompleteStep, RequestHandlerStep, DeferredStep, LifetimeStep
     DEF DiagnosticNext, CompleteCall
<1>3. DiagnosticInv /\ UNCHANGED diagnosticVars => DiagnosticInv'
  <2> SUFFICES ASSUME DiagnosticInv, UNCHANGED diagnosticVars PROVE DiagnosticInv'
    OBVIOUS
  <2>1. UNCHANGED <<issued, answered, completed, requests, toPost, requestOf, called, m_onRequest,
                    server, deferred, replies>>
    BY DEF diagnosticVars, tVars, clientVars, serverVars
  <2>2. DiagnosticType' /\ RepliesInv'
    BY <2>1 DEF DiagnosticInv, DiagnosticType, RepliesInv
  <2> QED BY <2>1, <2>2, ServersStep
<1>4. DiagnosticInv => CalledBackPerGroup
  BY DEF DiagnosticInv
<1> QED BY <1>1, <1>2, <1>3, <1>4, PTL DEF DiagnosticSpec

-----------------------------------------------------------------------------
(* The registration of the types.                                          *)
(*                                                                         *)
(* A description is right because each of its references was right when    *)
(* the function that described it used it, names are never removed, and    *)
(* what a called function left in the pair is the type its caller asked    *)
(* for.  The parameters K, B stand for the names that are known and the    *)
(* built-in types among them, s and r for the stack and the pair of a      *)
(* thread.                                                                 *)

TypeNames == Structures \cup AllBuiltIns \cup Library \cup {"string", "bytes", None}
Frames == [type : Structures, at : {"lookup", "base", "members", "answer"}, ids : TypeNames,
           refs : Seq(TypeNames)]

(* Name ref may stand for a member that is declared with type.             *)
StandsFor(K, B, ref, type) ==
    /\ ref \in K
    /\ \/ ref = type
       \/ type = "RequestException" /\ ref = "RpcOperationError" /\ B # AllBuiltIns

FrameOK(K, B, f) ==
    /\ f.ids # None => f.ids \in K /\ f.ids = Objects[f.type].base
    /\ Len(f.refs) <= Len(Members(f.type))
    /\ f.at = "answer" => Len(f.refs) < Len(Members(f.type))
    /\ \A i \in 1 .. Len(f.refs) : StandsFor(K, B, f.refs[i], Members(f.type)[i].type)

(* What a function leaves for a caller that asked for type.                *)
Answers(K, B, r, type) == IF r = None THEN B # AllBuiltIns ELSE StandsFor(K, B, r, type)

ThreadOK(K, B, s, r) ==
    /\ s \in Seq(Frames) /\ r \in TypeNames
    /\ \A n \in 1 .. Len(s) : FrameOK(K, B, s[n])
    /\ \A n \in 1 .. Len(s) - 1 : s[n].at = "answer" /\ s[n + 1].type = Member(s[n]).type
    /\ s # <<>> /\ Last(s).at = "answer" => Answers(K, B, r, Member(Last(s)).type)

Descriptions ==
    /\ \A type \in DOMAIN registry \cap Structures : registry[type] \in Seq(TypeNames)
    /\ RegistryClosed

RegistryInv ==
    /\ builtIns \subseteq AllBuiltIns
    /\ todo \in [Threads -> Seq(Structures)]
    /\ stack \in [Threads -> Seq(Frames)] /\ returned \in [Threads -> TypeNames]
    /\ \A t \in Threads : ThreadOK(Known, builtIns, stack[t], returned[t])
    /\ Descriptions

(* The generated descriptions: only RequestException has a base, and the   *)
(* structures are none of the names that Fast DDS registers itself.        *)
LEMMA TypeObjects ==
    /\ Structures \cap (AllBuiltIns \cup Library \cup {"string", "bytes", None}) = {}
    /\ \A type \in Structures :
          /\ Len(Members(type)) \in Nat
          /\ \A i \in 1 .. Len(Members(type)) : Members(type)[i].type \in TypeNames
          /\ Objects[type].base # None => type = "RequestException"
          /\ Objects[type].base \in {None, "RpcOperationError"}
<1>1. Structures = {"TransferData", "RequestException", "Read_In", "Read_Out", "Read_Result",
                    "Write_In", "Write_Out", "Write_Result", "Requests_Request", "Requests_Reply",
                    "Message", "LockupMessage"}
  BY DEF Structures, Objects
<1>2. Structures \cap (AllBuiltIns \cup Library \cup {"string", "bytes", None}) = {}
  BY <1>1 DEF AllBuiltIns, Library, None
<1> USE DEF Structure, TransferDataObject, RequestExceptionObject, Read_InObject, Read_OutObject,
   Read_ResultObject, Write_InObject, Write_OutObject, Write_ResultObject, Requests_RequestObject,
   Requests_ReplyObject, MessageObject, LockupMessageObject
<1>3. ASSUME NEW type \in Structures
      PROVE  /\ Len(Members(type)) \in {1, 2} \/ type = "Requests_Reply"
             /\ Len(Members("Requests_Reply")) = 3
             /\ Objects[type].base # None => type = "RequestException"
             /\ Objects[type].base \in {None, "RpcOperationError"}
  BY <1>1 DEF Members, Objects
<1>4. ASSUME NEW type \in Structures, NEW i \in 1 .. Len(Members(type))
      PROVE  Members(type)[i].type \in TypeNames
  <2>1. Members(type)[1].type \in TypeNames
    BY <1>1 DEF Members, Objects, Required, Optional, TypeNames, AllBuiltIns, Library
  <2>2. ASSUME Len(Members(type)) # 1 PROVE Members(type)[2].type \in TypeNames
    BY <1>1, <2>2 DEF Members, Objects, Required, Optional, TypeNames, AllBuiltIns, Library
  <2>3. Members("Requests_Reply")[3].type \in TypeNames
    BY DEF Members, Objects, Required, Optional, TypeNames, Library
  <2>4. Len(Members(type)) \in {1, 2, 3} /\ (Len(Members(type)) = 3 => type = "Requests_Reply")
    BY <1>3
  <2>5. PICK n \in 1 .. 3 : n = Len(Members(type))
    BY <2>4
  <2>6. i \in 1 .. n
    BY <2>5
  <2>7. i = 1 \/ (i = 2 /\ n # 1) \/ (i = 3 /\ n = 3)
    BY <2>6
  <2> QED BY <2>1, <2>2, <2>3, <2>4, <2>5, <2>7
<1> QED BY <1>2, <1>3, <1>4

(* The innermost function and those around it. *)
LEMMA StackParts ==
    ASSUME NEW S, NEW s \in Seq(S), s # <<>>
    PROVE  /\ Last(s) \in S /\ Last(s) = s[Len(s)]
           /\ Len(s) \in Nat \ {0}
           /\ Front(s) \in Seq(S) /\ Len(Front(s)) = Len(s) - 1
           /\ \A n \in 1 .. Len(s) - 1 : Front(s)[n] = s[n]
<1>1. Len(s) \in Nat \ {0}
  OBVIOUS
<1>2. Last(s) \in S /\ Last(s) = s[Len(s)]
  BY <1>1 DEF Last
<1>3. PICK k \in Nat : k = Len(s) - 1
  BY <1>1
<1>4. SubSeq(s, 1, k) \in Seq(S) /\ Len(SubSeq(s, 1, k)) = k
      /\ \A n \in 1 .. k : SubSeq(s, 1, k)[n] = s[n]
  BY <1>1, <1>3
<1> QED BY <1>1, <1>2, <1>3, <1>4 DEF Front

(* A function that is called is the innermost one. *)
LEMMA PushedIs ==
    ASSUME NEW S, NEW s \in Seq(S), NEW x \in S
    PROVE  /\ Append(s, x) \in Seq(S) /\ Append(s, x) # <<>>
           /\ Len(Append(s, x)) = Len(s) + 1 /\ Len(s) \in Nat
           /\ Last(Append(s, x)) = x /\ Append(s, x)[Len(s) + 1] = x
           /\ \A n \in 1 .. Len(s) : Append(s, x)[n] = s[n]
BY DEF Last

(* Names that become known later change nothing of what is said of a       *)
(* thread.                                                                 *)
LEMMA ThreadGrows ==
    ASSUME NEW K, NEW L, NEW B, NEW s, NEW r, K \subseteq L, ThreadOK(K, B, s, r)
    PROVE  ThreadOK(L, B, s, r)
BY DEF ThreadOK, FrameOK, Answers, StandsFor

(* A function that goes on. *)
LEMMA SetTopOK ==
    ASSUME NEW K, NEW B, NEW s, NEW r, ThreadOK(K, B, s, r), s # <<>>,
           NEW f \in Frames, f.type = Last(s).type, f.at # "answer", FrameOK(K, B, f)
    PROVE  ThreadOK(K, B, Append(Front(s), f), r)
<1> DEFINE u == Append(Front(s), f)
<1>1. s \in Seq(Frames)
  BY DEF ThreadOK
<1>2. /\ Len(s) \in Nat \ {0} /\ Last(s) = s[Len(s)]
      /\ Front(s) \in Seq(Frames) /\ Len(Front(s)) = Len(s) - 1
      /\ \A n \in 1 .. Len(s) - 1 : Front(s)[n] = s[n]
  BY <1>1, StackParts
<1>3. /\ u \in Seq(Frames) /\ Len(u) = Len(s) /\ Last(u) = f /\ u[Len(s)] = f
      /\ \A n \in 1 .. Len(s) - 1 : u[n] = s[n]
  BY <1>2, PushedIs
<1> HIDE DEF u
<1>4. \A n \in 1 .. Len(u) : FrameOK(K, B, u[n])
  <2>1. \A n \in 1 .. Len(u) : n \in 1 .. Len(s) /\ (n \in 1 .. Len(s) - 1 \/ n = Len(s))
    BY <1>2, <1>3
  <2> QED BY <1>3, <2>1 DEF ThreadOK
<1>5. ASSUME NEW n \in 1 .. Len(u) - 1
      PROVE  u[n].at = "answer" /\ u[n + 1].type = Member(u[n]).type
  <2>1. /\ n \in 1 .. Len(s) - 1 /\ u[n] = s[n]
        /\ n + 1 \in 1 .. Len(s) - 1 \/ n + 1 = Len(s)
    BY <1>2, <1>3
  <2>2. u[n + 1].type = s[n + 1].type
    BY <1>2, <1>3, <2>1
  <2> QED BY <2>1, <2>2 DEF ThreadOK
<1> QED BY <1>3, <1>4, <1>5 DEF ThreadOK, u

(* A function that ends. *)
LEMMA ReturnOK ==
    ASSUME NEW K, NEW B, NEW s, NEW r, ThreadOK(K, B, s, r), s # <<>>,
           NEW x \in TypeNames, Answers(K, B, x, Last(s).type)
    PROVE  ThreadOK(K, B, Front(s), x)
<1>1. s \in Seq(Frames)
  BY DEF ThreadOK
<1>2. /\ Len(s) \in Nat \ {0} /\ Last(s) = s[Len(s)]
      /\ Front(s) \in Seq(Frames) /\ Len(Front(s)) = Len(s) - 1
      /\ \A n \in 1 .. Len(s) - 1 : Front(s)[n] = s[n]
  BY <1>1, StackParts
<1>3. /\ \A n \in 1 .. Len(Front(s)) : FrameOK(K, B, Front(s)[n])
      /\ \A n \in 1 .. Len(Front(s)) - 1 :
            Front(s)[n].at = "answer" /\ Front(s)[n + 1].type = Member(Front(s)[n]).type
  <2>1. \A n \in 1 .. Len(Front(s)) : n \in 1 .. Len(s) /\ Front(s)[n] = s[n]
    BY <1>2
  <2>2. \A n \in 1 .. Len(Front(s)) - 1 : /\ n \in 1 .. Len(s) - 1 /\ Front(s)[n] = s[n]
                                          /\ Front(s)[n + 1] = s[n + 1]
    BY <1>2
  <2> QED BY <2>1, <2>2 DEF ThreadOK
<1>4. ASSUME Front(s) # <<>> PROVE Answers(K, B, x, Member(Last(Front(s))).type)
  <2>1. /\ Last(Front(s)) = Front(s)[Len(Front(s))] /\ Len(Front(s)) \in Nat \ {0}
    <3> HIDE <1>1
    <3> QED BY <1>2, <1>4, StackParts
  <2>2. PICK n \in 1 .. Len(s) - 1 : n = Len(s) - 1
    BY <1>2, <2>1
  <2>3. Last(Front(s)) = s[n] /\ n + 1 = Len(s)
    BY <1>2, <2>1, <2>2
  <2>4. Last(s).type = Member(s[n]).type
    BY <1>2, <2>2, <2>3 DEF ThreadOK
  <2> QED BY <2>3, <2>4
<1> QED BY <1>2, <1>3, <1>4 DEF ThreadOK

(* A function that calls the one of a member. *)
LEMMA PushOK ==
    ASSUME NEW K, NEW B, NEW s, NEW r, ThreadOK(K, B, s, r), s # <<>>,
           ~Described(Last(s)), Member(Last(s)).type \in Structures
    PROVE  ThreadOK(K, B, Append(Append(Front(s), [Last(s) EXCEPT !.at = "answer"]),
                                 Frame(Member(Last(s)).type)), r)
<1> DEFINE f == [Last(s) EXCEPT !.at = "answer"]
           g == Frame(Member(Last(s)).type)
           u == Append(Front(s), f)
           v == Append(u, g)
<1>1. s \in Seq(Frames)
  BY DEF ThreadOK
<1>2. /\ Len(s) \in Nat \ {0} /\ Last(s) = s[Len(s)] /\ Last(s) \in Frames
      /\ Front(s) \in Seq(Frames) /\ Len(Front(s)) = Len(s) - 1
      /\ \A n \in 1 .. Len(s) - 1 : Front(s)[n] = s[n]
  BY <1>1, StackParts
<1>3. /\ f \in Frames /\ f.type = Last(s).type /\ f.at = "answer" /\ f.ids = Last(s).ids
      /\ f.refs = Last(s).refs
  BY <1>2 DEF Frames
<1>4. /\ g \in Frames /\ g.type = Member(Last(s)).type /\ g.at = "lookup" /\ g.ids = None
      /\ g.refs = <<>>
  BY DEF Frames, Frame, TypeNames
<1>5. FrameOK(K, B, Last(s))
  BY <1>2 DEF ThreadOK
<1>6. FrameOK(K, B, f) /\ Member(f) = Member(Last(s))
  <2>1. Len(f.refs) \in Nat /\ Len(Members(f.type)) \in Nat
    BY <1>3, TypeObjects DEF Frames
  <2> QED BY <1>3, <1>5, <2>1 DEF FrameOK, Described, Member
<1>7. FrameOK(K, B, g)
  BY <1>4, TypeObjects DEF FrameOK, Frames
<1> HIDE DEF f, g
<1>8. /\ u \in Seq(Frames) /\ Len(u) = Len(s) /\ u[Len(s)] = f
      /\ \A n \in 1 .. Len(s) - 1 : u[n] = s[n]
  BY <1>2, <1>3, PushedIs
<1> HIDE DEF u
<1>9. /\ v \in Seq(Frames) /\ Len(v) = Len(s) + 1 /\ Last(v) = g /\ v[Len(s) + 1] = g
      /\ \A n \in 1 .. Len(s) : v[n] = u[n]
  BY <1>4, <1>8, PushedIs
<1> HIDE DEF v
<1>10. /\ \A n \in 1 .. Len(s) - 1 : v[n] = s[n]
       /\ v[Len(s)] = f /\ v[Len(s) + 1] = g
  BY <1>2, <1>8, <1>9
<1>11. \A n \in 1 .. Len(v) : FrameOK(K, B, v[n])
  <2>1. \A n \in 1 .. Len(v) : n \in 1 .. Len(s) - 1 \/ n = Len(s) \/ n = Len(s) + 1
    BY <1>2, <1>9
  <2>2. \A n \in 1 .. Len(s) - 1 : FrameOK(K, B, s[n])
    BY <1>2 DEF ThreadOK
  <2> QED BY <1>6, <1>7, <1>10, <2>1, <2>2
<1>12. ASSUME NEW n \in 1 .. Len(v) - 1
       PROVE  v[n].at = "answer" /\ v[n + 1].type = Member(v[n]).type
  <2>1. CASE n = Len(s)
    BY <1>3, <1>4, <1>6, <1>10, <2>1
  <2>2. CASE n # Len(s)
    <3>1. /\ n \in 1 .. Len(s) - 1 /\ v[n] = s[n]
          /\ n + 1 \in 1 .. Len(s) - 1 \/ n + 1 = Len(s)
      BY <1>2, <1>9, <1>10, <2>2
    <3>2. v[n + 1].type = s[n + 1].type
      BY <1>2, <1>3, <1>10, <3>1
    <3> QED BY <3>1, <3>2 DEF ThreadOK
  <2> QED BY <2>1, <2>2
<1>13. r \in TypeNames
  BY DEF ThreadOK
<1>14. Last(v).at # "answer"
  BY <1>4, <1>9
<1>15. ThreadOK(K, B, v, r)
  BY <1>9, <1>11, <1>12, <1>13, <1>14 DEF ThreadOK
<1> QED BY <1>15 DEF f, g, u, v

(* One thread steps, and what it adds to the registry is right. *)
LEMMA OneThread ==
    ASSUME RegistryInv, NEW t \in Threads, NEW s, NEW r,
           UNCHANGED builtIns, todo' \in [Threads -> Seq(Structures)],
           stack' = [stack EXCEPT ![t] = s], returned' = [returned EXCEPT ![t] = r],
           ThreadOK(Known', builtIns, s, r), Known \subseteq Known', Descriptions'
    PROVE  RegistryInv'
<1>1. s \in Seq(Frames) /\ r \in TypeNames
  BY DEF ThreadOK
<1>2. stack \in [Threads -> Seq(Frames)] /\ returned \in [Threads -> TypeNames]
  BY DEF RegistryInv
<1>3. stack' \in [Threads -> Seq(Frames)]
  BY <1>1, <1>2
<1>4. returned' \in [Threads -> TypeNames]
  BY <1>1, <1>2
<1>5. ASSUME NEW u \in Threads
      PROVE  ThreadOK(Known', builtIns', stack'[u], returned'[u])
  <2>1. CASE u = t
    BY <1>2, <2>1
  <2>2. CASE u # t
    <3>1. stack'[u] = stack[u] /\ returned'[u] = returned[u]
      BY <1>2, <2>2
    <3>2. ThreadOK(Known, builtIns, stack[u], returned[u])
      BY DEF RegistryInv
    <3>3. ThreadOK(Known', builtIns, stack[u], returned[u])
      BY <3>2, ThreadGrows
    <3> QED BY <3>1, <3>3
  <2> QED BY <2>1, <2>2
<1> QED BY <1>3, <1>4, <1>5 DEF RegistryInv

(* A name that is added keeps the others; if it is not a structure's, it   *)
(* needs no description.                                                   *)
LEMMA AddKeeps ==
    ASSUME RegistryInv, NEW name, NEW refs, UNCHANGED builtIns, Add(name, refs)
    PROVE  /\ Known' = Known \cup {name}
           /\ name \notin Structures => Descriptions'
<1>1. /\ DOMAIN registry' = DOMAIN registry \cup {name}
      /\ \A n \in DOMAIN registry : registry'[n] = registry[n]
  BY DEF Add
<1> QED BY <1>1 DEF RegistryInv, Descriptions, RegistryClosed, Known

(* The frame on top of a thread's stack. *)
LEMMA TopIs ==
    ASSUME RegistryInv, NEW t \in Threads, stack[t] # <<>>
    PROVE  /\ ThreadOK(Known, builtIns, stack[t], returned[t])
           /\ Top(t) \in Frames /\ FrameOK(Known, builtIns, Top(t))
           /\ returned[t] \in TypeNames
<1>1. ThreadOK(Known, builtIns, stack[t], returned[t]) /\ stack[t] \in Seq(Frames)
  BY DEF RegistryInv
<1>2. Last(stack[t]) = stack[t][Len(stack[t])] /\ Len(stack[t]) \in Nat \ {0}
      /\ Last(stack[t]) \in Frames
  BY <1>1, StackParts
<1>3. Len(stack[t]) \in 1 .. Len(stack[t])
  BY <1>2
<1> QED BY <1>1, <1>2, <1>3 DEF Top, ThreadOK

(* A member that is described with type, which may stand for it. *)
WithRef(f, type) == [f EXCEPT !.at = "members", !.refs = Append(@, type)]

(* The description stays right. *)
LEMMA DescribeOK ==
    ASSUME NEW K, NEW B, NEW f \in Frames, NEW type \in TypeNames, FrameOK(K, B, f), ~Described(f),
           StandsFor(K, B, type, Member(f).type)
    PROVE  /\ WithRef(f, type) \in Frames /\ WithRef(f, type).type = f.type
           /\ WithRef(f, type).at = "members" /\ FrameOK(K, B, WithRef(f, type))
<1> DEFINE g == WithRef(f, type)
<1>1. f.refs \in Seq(TypeNames) /\ f.type \in Structures /\ f.ids \in TypeNames
  BY DEF Frames
<1>2. /\ Append(f.refs, type) \in Seq(TypeNames)
      /\ Len(Append(f.refs, type)) = Len(f.refs) + 1 /\ Len(f.refs) \in Nat
      /\ Append(f.refs, type)[Len(f.refs) + 1] = type
      /\ \A i \in 1 .. Len(f.refs) : Append(f.refs, type)[i] = f.refs[i]
  BY <1>1, AppendIs
<1>3. /\ g.type = f.type /\ g.at = "members" /\ g.ids = f.ids /\ g.refs = Append(f.refs, type)
  BY DEF Frames, WithRef
<1>4. g \in Frames
  BY <1>1, <1>2 DEF Frames, WithRef
<1>5. Len(Members(f.type)) \in Nat
  BY <1>1, TypeObjects
<1>6. Len(f.refs) + 1 <= Len(Members(f.type))
  BY <1>2, <1>5 DEF FrameOK, Described
<1>7. ASSUME NEW i \in 1 .. Len(g.refs)
      PROVE  StandsFor(K, B, g.refs[i], Members(f.type)[i].type)
  <2>1. i \in 1 .. Len(f.refs) \/ i = Len(f.refs) + 1
    BY <1>2, <1>3
  <2> QED BY <1>2, <1>3, <2>1 DEF FrameOK, Member
<1>8. FrameOK(K, B, g)
  BY <1>2, <1>3, <1>6, <1>7 DEF FrameOK
<1> QED BY <1>3, <1>4, <1>8

(* The type of the next member. *)
LEMMA MemberIs ==
    ASSUME NEW K, NEW B, NEW f \in Frames, FrameOK(K, B, f), ~Described(f)
    PROVE  Member(f).type \in TypeNames
<1>1. f.refs \in Seq(TypeNames) /\ f.type \in Structures
  BY DEF Frames
<1>2. Len(Members(f.type)) \in Nat /\ Len(f.refs) \in Nat
  BY <1>1, TypeObjects
<1>3. Len(f.refs) + 1 \in 1 .. Len(Members(f.type))
  BY <1>2 DEF FrameOK, Described
<1> QED BY <1>1, <1>3, TypeObjects DEF Member

(* A description from names that stand for the members, as DescribeMember, *)
(* DescribeString, DescribeSequence and UseAnswer make it.                 *)
LEMMA DescribeAsStep ==
    ASSUME RegistryInv, NEW t \in Threads, stack[t] # <<>>, ~Described(Top(t)),
           NEW type \in TypeNames, StandsFor(Known', builtIns, type, Member(Top(t)).type),
           DescribeAs(t, type), UNCHANGED <<builtIns, todo, returned>>,
           Known \subseteq Known', Descriptions'
    PROVE  RegistryInv'
<1> DEFINE g == WithRef(Top(t), type)
           s == Append(Front(stack[t]), g)
<1>1. /\ ThreadOK(Known, builtIns, stack[t], returned[t]) /\ Top(t) \in Frames
      /\ returned \in [Threads -> TypeNames] /\ stack \in [Threads -> Seq(Frames)]
      /\ todo \in [Threads -> Seq(Structures)]
  BY TopIs DEF RegistryInv
<1>2. ThreadOK(Known', builtIns, stack[t], returned[t])
  BY <1>1, ThreadGrows
<1>3. FrameOK(Known', builtIns, Top(t))
  <2>1. FrameOK(Known, builtIns, Top(t))
    BY TopIs
  <2> QED BY <2>1 DEF FrameOK, StandsFor
<1>4. g \in Frames /\ g.type = Top(t).type /\ g.at = "members" /\ FrameOK(Known', builtIns, g)
  BY <1>1, <1>3, DescribeOK
<1>5. stack' = [stack EXCEPT ![t] = s]
  BY DEF DescribeAs, SetTop, WithRef
<1> HIDE DEF g
<1>6. ThreadOK(Known', builtIns, s, returned[t])
  BY <1>2, <1>4, SetTopOK DEF Top
<1>7. returned' = [returned EXCEPT ![t] = returned[t]] /\ todo' \in [Threads -> Seq(Structures)]
  BY <1>1
<1> HIDE DEF s
<1> QED BY <1>5, <1>6, <1>7, OneThread

(* The end of a function, with what it leaves for its caller. *)
LEMMA ReturnStep ==
    ASSUME RegistryInv, NEW t \in Threads, stack[t] # <<>>, NEW x \in TypeNames, Return(t, x),
           Answers(Known', builtIns, x, Top(t).type), UNCHANGED <<builtIns, todo>>,
           Known \subseteq Known', Descriptions'
    PROVE  RegistryInv'
<1>1. ThreadOK(Known', builtIns, stack[t], returned[t])
  BY TopIs, ThreadGrows
<1>2. ThreadOK(Known', builtIns, Front(stack[t]), x)
  BY <1>1, ReturnOK DEF Top
<1>3. todo' \in [Threads -> Seq(Structures)]
  BY DEF RegistryInv
<1> QED BY <1>2, <1>3, OneThread DEF Return

(* The functions that begin, and the look-ups of the type and of its base. *)
LEMMA LookupStep ==
    ASSUME RegistryInv, NEW t \in Threads, RegisterRoot(t) \/ LookupType(t) \/ LookupBase(t)
    PROVE  RegistryInv'
<1>1. ASSUME UNCHANGED <<registry, builtIns>>
      PROVE  Known' = Known /\ Descriptions'
  BY <1>1 DEF Known, Descriptions, RegistryClosed, RegistryInv
<1>2. ASSUME NEW f \in Frames, SetTop(t, f), stack[t] # <<>>, f.type = Top(t).type,
             f.at # "answer", FrameOK(Known', builtIns, f), UNCHANGED <<builtIns, todo, returned>>,
             Known \subseteq Known', Descriptions'
      PROVE  RegistryInv'
  <2> DEFINE u == Append(Front(stack[t]), f)
  <2>1. ThreadOK(Known', builtIns, stack[t], returned[t])
    BY <1>2, TopIs, ThreadGrows
  <2>2. ThreadOK(Known', builtIns, u, returned[t])
    BY <1>2, <2>1, SetTopOK DEF Top
  <2>3. /\ returned' = [returned EXCEPT ![t] = returned[t]]
        /\ todo' \in [Threads -> Seq(Structures)]
    BY <1>2 DEF RegistryInv
  <2>4. stack' = [stack EXCEPT ![t] = u]
    BY <1>2 DEF SetTop
  <2> HIDE DEF u
  <2> QED BY <1>2, <2>2, <2>3, <2>4, OneThread
<1>3. CASE RegisterRoot(t)
  <2> DEFINE f == Frame(Head(todo[t]))
  <2>1. /\ todo[t] # <<>> /\ stack' = [stack EXCEPT ![t] = <<f>>]
        /\ todo' = [todo EXCEPT ![t] = Tail(@)] /\ UNCHANGED <<registry, builtIns, returned>>
    BY <1>3 DEF RegisterRoot
  <2>2. todo[t] \in Seq(Structures) /\ todo \in [Threads -> Seq(Structures)]
        /\ returned \in [Threads -> TypeNames]
    BY DEF RegistryInv
  <2>3. Head(todo[t]) \in Structures /\ Tail(todo[t]) \in Seq(Structures)
    BY <2>1, <2>2
  <2>4. todo' \in [Threads -> Seq(Structures)]
    BY <2>1, <2>2, <2>3
  <2>5. f \in Frames /\ f.at = "lookup" /\ f.ids = None /\ f.refs = <<>>
    BY <2>3 DEF Frame, Frames, TypeNames
  <2>6. FrameOK(Known, builtIns, f)
    <3>1. Len(Members(f.type)) \in Nat
      BY <2>5, TypeObjects DEF Frames
    <3> HIDE DEF f
    <3> QED BY <2>5, <3>1 DEF FrameOK
  <2> HIDE DEF f
  <2>7. ThreadOK(Known, builtIns, <<f>>, returned[t])
    <3>1. <<f>> \in Seq(Frames) /\ Len(<<f>>) = 1 /\ <<f>>[1] = f /\ Last(<<f>>) = f
      BY <2>5 DEF Last
    <3> QED BY <2>2, <2>5, <2>6, <3>1 DEF ThreadOK
  <2>8. returned' = [returned EXCEPT ![t] = returned[t]]
    BY <2>1, <2>2
  <2>9. Known' = Known /\ Descriptions'
    BY <1>1, <2>1
  <2>10. ThreadOK(Known', builtIns, <<f>>, returned[t])
    BY <2>7, <2>9
  <2>11. \A s, r : /\ stack' = [stack EXCEPT ![t] = s] /\ returned' = [returned EXCEPT ![t] = r]
                   /\ ThreadOK(Known', builtIns, s, r)
                   => RegistryInv'
    BY <2>1, <2>4, <2>9, OneThread
  <2> QED BY <2>1, <2>8, <2>10, <2>11
<1>4. CASE LookupType(t)
  <2>1. /\ stack[t] # <<>> /\ UNCHANGED <<registry, builtIns, todo>>
        /\ \/ Top(t).type \in Known /\ Return(t, Top(t).type)
           \/ SetTop(t, [Top(t) EXCEPT !.at = "base"]) /\ UNCHANGED returned
    BY <1>4 DEF LookupType, At
  <2>2. Top(t) \in Frames /\ FrameOK(Known, builtIns, Top(t))
    BY <2>1, TopIs
  <2>3. CASE Top(t).type \in Known /\ Return(t, Top(t).type)
    <3>1. Top(t).type \in Structures /\ Top(t).type \in TypeNames
      BY <2>2 DEF Frames, TypeNames
    <3>2. Answers(Known', builtIns, Top(t).type, Top(t).type)
      BY <1>1, <2>1, <2>3, <3>1, TypeObjects DEF Answers, StandsFor
    <3> QED BY <1>1, <2>1, <2>3, <3>1, <3>2, ReturnStep
  <2>4. CASE SetTop(t, [Top(t) EXCEPT !.at = "base"]) /\ UNCHANGED returned
    <3> DEFINE g == [Top(t) EXCEPT !.at = "base"]
    <3>1. /\ g \in Frames /\ g.type = Top(t).type /\ g.at = "base" /\ g.ids = Top(t).ids
          /\ g.refs = Top(t).refs
      BY <2>2 DEF Frames
    <3>2. SetTop(t, g)
      BY <2>4
    <3> HIDE DEF g
    <3>3. FrameOK(Known, builtIns, g)
      BY <2>2, <3>1 DEF FrameOK
    <3> QED BY <1>1, <1>2, <2>1, <2>4, <3>1, <3>2, <3>3
  <2> QED BY <2>1, <2>3, <2>4
<1>5. CASE LookupBase(t)
  <2> DEFINE base == Objects[Top(t).type].base
             g == [Top(t) EXCEPT !.at = "members", !.ids = base]
  <2>1. /\ stack[t] # <<>> /\ UNCHANGED <<builtIns, todo, returned>> /\ SetTop(t, g)
        /\ \/ base # None /\ base \notin Known /\ Add(base, <<>>)
           \/ (base = None \/ base \in Known) /\ UNCHANGED registry
    BY <1>5 DEF LookupBase, At
  <2>2. Top(t) \in Frames /\ FrameOK(Known, builtIns, Top(t))
    BY <2>1, TopIs
  <2>3. base \in {None, "RpcOperationError"}
    BY <2>2, TypeObjects DEF Frames
  <2>4. base # None => base \notin Structures
    BY <2>3, TypeObjects DEF Library
  <2>5. base \in TypeNames
    BY <2>3 DEF TypeNames, Library
  <2>6. /\ Known \subseteq Known' /\ Descriptions'
        /\ base # None => base \in Known'
    BY <1>1, <2>1, <2>4, AddKeeps
  <2>7. /\ g \in Frames /\ g.type = Top(t).type /\ g.at = "members" /\ g.ids = base
        /\ g.refs = Top(t).refs
    BY <2>2, <2>5 DEF Frames
  <2>8. g.ids = Objects[g.type].base
    BY <2>7
  <2> HIDE DEF g, base
  <2>9. FrameOK(Known', builtIns, g)
    BY <2>2, <2>6, <2>7, <2>8 DEF FrameOK, StandsFor
  <2> QED BY <1>2, <2>1, <2>6, <2>7, <2>9
<1> QED BY <1>3, <1>4, <1>5

(* The members that are described without another function. *)
LEMMA DescribeStep ==
    ASSUME RegistryInv, NEW t \in Threads,
           DescribeMember(t) \/ DescribeString(t) \/ DescribeSequence(t)
    PROVE  RegistryInv'
<1> DEFINE type == Member(Top(t)).type
<1>1. /\ stack[t] # <<>> /\ ~Described(Top(t)) /\ UNCHANGED <<builtIns, todo, returned>>
      /\ DescribeAs(t, type)
      /\ \/ type \in Known /\ UNCHANGED registry
         \/ type \in Library \cup {"string", "bytes"} /\ \E refs : Add(type, refs)
  BY DEF DescribeMember, DescribeString, DescribeSequence, At
<1>2. type \in TypeNames
  BY <1>1, TopIs, MemberIs
<1>3. Known \subseteq Known' /\ Descriptions' /\ type \in Known'
  <2>1. CASE type \in Known /\ UNCHANGED registry
    BY <1>1, <2>1 DEF Known, Descriptions, RegistryClosed, RegistryInv
  <2>2. ASSUME type \in Library \cup {"string", "bytes"}, NEW refs, Add(type, refs)
        PROVE  Known \subseteq Known' /\ Descriptions' /\ type \in Known'
    <3>1. type \notin Structures
      BY <2>2, TypeObjects
    <3> HIDE DEF type
    <3> QED BY <1>1, <2>2, <3>1, AddKeeps
  <2> QED BY <1>1, <2>1, <2>2
<1>4. StandsFor(Known', builtIns, type, Member(Top(t)).type)
  BY <1>3 DEF StandsFor
<1> QED BY <1>1, <1>2, <1>3, <1>4, DescribeAsStep

(* What a function that gives up leaves is no type, or the base of an      *)
(* exception, and some built-in type is unknown.                           *)
LEMMA GivenUp ==
    ASSUME RegistryInv, NEW t \in Threads, stack[t] # <<>>, builtIns # AllBuiltIns,
           Return(t, Top(t).ids), UNCHANGED <<builtIns, todo>>, Known \subseteq Known',
           Descriptions'
    PROVE  RegistryInv'
<1>1. Top(t) \in Frames /\ FrameOK(Known, builtIns, Top(t))
  BY TopIs
<1>2. Top(t).ids \in TypeNames /\ Top(t).type \in Structures
  BY <1>1 DEF Frames
<1>3. Top(t).ids # None =>
         /\ Top(t).ids \in Known' /\ Top(t).type = "RequestException"
         /\ Top(t).ids = "RpcOperationError"
  BY <1>1, <1>2, TypeObjects DEF FrameOK
<1>4. Answers(Known', builtIns, Top(t).ids, Top(t).type)
  BY <1>3 DEF Answers, StandsFor
<1> QED BY <1>2, <1>4, ReturnStep

(* A built-in type that is unknown, a member's function that is called,    *)
(* and one that is back.                                                   *)
LEMMA CallStep ==
    ASSUME RegistryInv, NEW t \in Threads, GiveUp(t) \/ RegisterMember(t) \/ UseAnswer(t)
    PROVE  RegistryInv'
<1>1. /\ stack[t] # <<>> /\ UNCHANGED <<registry, builtIns, todo>>
  BY DEF GiveUp, RegisterMember, UseAnswer, At
<1>2. Known' = Known /\ Descriptions'
  BY <1>1 DEF Known, Descriptions, RegistryClosed, RegistryInv
<1>3. /\ ThreadOK(Known, builtIns, stack[t], returned[t]) /\ returned[t] \in TypeNames
      /\ Top(t) \in Frames /\ FrameOK(Known, builtIns, Top(t))
  BY <1>1, TopIs
<1>4. CASE GiveUp(t)
  <2>1. builtIns # AllBuiltIns
    BY <1>4 DEF GiveUp, Known, AllBuiltIns
  <2>2. Return(t, Top(t).ids)
    BY <1>4 DEF GiveUp
  <2> QED BY <1>1, <1>2, <2>1, <2>2, GivenUp
<1>5. CASE RegisterMember(t)
  <2> DEFINE u == Append(Append(Front(stack[t]), [Last(stack[t]) EXCEPT !.at = "answer"]),
                         Frame(Member(Last(stack[t])).type))
  <2>1. /\ ~Described(Last(stack[t])) /\ Member(Last(stack[t])).type \in Structures
        /\ stack' = [stack EXCEPT ![t] = u] /\ UNCHANGED returned
    BY <1>5 DEF RegisterMember, Top
  <2>2. ThreadOK(Known, builtIns, u, returned[t])
    BY <1>1, <1>3, <2>1, PushOK
  <2> HIDE DEF u
  <2>3. ThreadOK(Known', builtIns, u, returned[t])
    BY <1>2, <2>2
  <2>4. /\ returned' = [returned EXCEPT ![t] = returned[t]]
        /\ todo' \in [Threads -> Seq(Structures)]
    BY <1>1, <2>1 DEF RegistryInv
  <2> QED BY <1>1, <1>2, <2>1, <2>3, <2>4, OneThread
<1>6. CASE UseAnswer(t)
  <2>1. Answers(Known, builtIns, returned[t], Member(Top(t)).type) /\ Top(t).at = "answer"
    BY <1>1, <1>3, <1>6 DEF UseAnswer, At, Top, ThreadOK
  <2>2. CASE returned[t] = None
    <3>1. Return(t, Top(t).ids) /\ builtIns # AllBuiltIns
      BY <1>6, <2>1, <2>2 DEF UseAnswer, Answers
    <3> QED BY <1>1, <1>2, <3>1, GivenUp
  <2>3. CASE returned[t] # None
    <3>1. DescribeAs(t, returned[t]) /\ UNCHANGED returned
      BY <1>6, <2>3 DEF UseAnswer
    <3>2. StandsFor(Known', builtIns, returned[t], Member(Top(t)).type)
      BY <1>2, <2>1, <2>3 DEF Answers
    <3>3. ~Described(Top(t))
      <4>1. Len(Top(t).refs) \in Nat /\ Len(Members(Top(t).type)) \in Nat
        BY <1>3, TypeObjects DEF Frames
      <4> QED BY <1>3, <2>1, <4>1 DEF FrameOK, Described
    <3> QED BY <1>1, <1>2, <1>3, <3>1, <3>2, <3>3, DescribeAsStep
  <2> QED BY <2>2, <2>3
<1> QED BY <1>4, <1>5, <1>6

(* Two descriptions with the same references are the same. *)
LEMMA SameDescription ==
    ASSUME NEW a \in Seq(TypeNames), NEW b \in Seq(TypeNames), Len(a) = Len(b),
           \A i \in 1 .. Len(a) : a[i] = b[i]
    PROVE  a = b
<1>1. PICK n \in Nat : n = Len(a)
  OBVIOUS
<1>2. a = [i \in 1 .. n |-> a[i]] /\ b = [i \in 1 .. n |-> b[i]]
  BY <1>1
<1>3. [i \in 1 .. n |-> a[i]] = [i \in 1 .. n |-> b[i]]
  BY <1>1
<1> QED BY <1>2, <1>3

(* The structure is registered; when another thread was first, with a      *)
(* different description, some built-in type is unknown.                   *)
LEMMA RegisterStructStep ==
    ASSUME RegistryInv, NEW t \in Threads, RegisterStruct(t)
    PROVE  RegistryInv'
<1> DEFINE f == Top(t)
           type == f.type
<1>1. /\ stack[t] # <<>> /\ Described(f) /\ Add(type, f.refs) /\ UNCHANGED <<builtIns, todo>>
      /\ Return(t, IF type \in Known /\ registry[type] # f.refs THEN f.ids ELSE type)
  BY DEF RegisterStruct, At
<1>2. f \in Frames /\ FrameOK(Known, builtIns, f)
  BY <1>1, TopIs
<1>3. /\ type \in Structures /\ type \in TypeNames /\ type # None /\ f.refs \in Seq(TypeNames)
      /\ builtIns \cap Structures = {}
  <2>1. type \in Structures /\ f.refs \in Seq(TypeNames)
    BY <1>2 DEF Frames
  <2>2. type \in TypeNames
    BY <2>1 DEF TypeNames
  <2> QED BY <2>1, <2>2, TypeObjects DEF RegistryInv
<1> HIDE DEF f
<1>4. Known' = Known \cup {type}
  BY <1>1, AddKeeps
<1>5. /\ DOMAIN registry' = DOMAIN registry \cup {type}
      /\ \A n \in DOMAIN registry : registry'[n] = registry[n]
      /\ type \notin DOMAIN registry => registry'[type] = f.refs
  BY <1>1 DEF Add
<1>6. /\ Len(f.refs) = Len(Members(type))
      /\ \A i \in 1 .. Len(f.refs) : StandsFor(Known, builtIns, f.refs[i], Members(type)[i].type)
  BY <1>1, <1>2 DEF Described, FrameOK
<1>7. Descriptions'
  <2>1. ASSUME NEW n \in DOMAIN registry' \cap Structures, n \in DOMAIN registry
        PROVE  /\ registry'[n] \in Seq(TypeNames)
               /\ Len(registry'[n]) = Len(Members(n))
               /\ \A i \in 1 .. Len(registry'[n]) :
                     StandsFor(Known', builtIns, registry'[n][i], Members(n)[i].type)
    BY <1>4, <1>5, <2>1 DEF RegistryInv, Descriptions, RegistryClosed, StandsFor
  <2>2. ASSUME NEW n \in DOMAIN registry' \cap Structures, n \notin DOMAIN registry
        PROVE  /\ registry'[n] \in Seq(TypeNames)
               /\ Len(registry'[n]) = Len(Members(n))
               /\ \A i \in 1 .. Len(registry'[n]) :
                     StandsFor(Known', builtIns, registry'[n][i], Members(n)[i].type)
    <3>1. n = type /\ registry'[n] = f.refs
      BY <1>5, <2>2
    <3> QED BY <1>3, <1>4, <1>6, <3>1 DEF StandsFor
  <2> QED BY <1>1, <2>1, <2>2 DEF Descriptions, RegistryClosed, StandsFor
<1>8. CASE type \in Known /\ registry[type] # f.refs
  <2>1. type \in DOMAIN registry
    BY <1>3, <1>8 DEF Known
  <2>2. /\ registry[type] \in Seq(TypeNames) /\ Len(registry[type]) = Len(f.refs)
        /\ \A i \in 1 .. Len(registry[type]) :
              StandsFor(Known, builtIns, registry[type][i], Members(type)[i].type)
    <3>1. type \in DOMAIN registry \cap Structures
      BY <1>3, <2>1
    <3> HIDE DEF type
    <3>2. registry[type] \in Seq(TypeNames) /\ Len(registry[type]) = Len(Members(type))
      BY <3>1 DEF RegistryInv, Descriptions, RegistryClosed
    <3>3. \A i \in 1 .. Len(registry[type]) :
             StandsFor(Known, builtIns, registry[type][i], Members(type)[i].type)
      BY <3>1 DEF RegistryInv, Descriptions, RegistryClosed, StandsFor
    <3> QED BY <1>6, <3>2, <3>3
  <2>3. builtIns # AllBuiltIns
    <3>1. ASSUME builtIns = AllBuiltIns PROVE FALSE
      <4>1. \A i \in 1 .. Len(f.refs) : f.refs[i] = registry[type][i]
        BY <1>6, <2>2, <3>1 DEF StandsFor
      <4> QED BY <1>3, <1>8, <2>2, <4>1, SameDescription
    <3> QED BY <3>1
  <2>4. Return(t, f.ids)
    BY <1>1, <1>8
  <2> QED BY <1>1, <1>4, <1>7, <2>3, <2>4, GivenUp DEF f
<1>9. CASE ~(type \in Known /\ registry[type] # f.refs)
  <2>1. Return(t, type)
    BY <1>1, <1>9
  <2>2. Answers(Known', builtIns, type, type)
    BY <1>3, <1>4 DEF Answers, StandsFor
  <2> QED BY <1>1, <1>3, <1>4, <1>7, <2>1, <2>2, ReturnStep DEF f
<1> QED BY <1>8, <1>9

(* However the registrations of the threads interleave, and whichever      *)
(* built-in types the registry lacks, a registered structure refers to     *)
(* registered types, those of its members: for any number of threads and   *)
(* any roots, in any order.                                                *)
THEOREM RegistryStaysClosed == RegistrySpec => []RegistryClosed
<1>1. RegistryInit => RegistryInv
  <2> SUFFICES ASSUME RegistryInit PROVE RegistryInv
    OBVIOUS
  <2>1. /\ builtIns \in BuiltInSets /\ DOMAIN registry = {} /\ todo = Roots
        /\ stack = [t \in Threads |-> <<>>] /\ returned = [t \in Threads |-> None]
    BY DEF RegistryInit
  <2>2. builtIns \subseteq AllBuiltIns /\ todo \in [Threads -> Seq(Structures)]
    BY <2>1, RegistryAssumption
  <2>3. None \in TypeNames
    BY DEF TypeNames
  <2>4. stack \in [Threads -> Seq(Frames)] /\ returned \in [Threads -> TypeNames]
    BY <2>1, <2>3
  <2>5. Descriptions
    BY <2>1 DEF Descriptions, RegistryClosed
  <2>6. ASSUME NEW t \in Threads PROVE ThreadOK(Known, builtIns, stack[t], returned[t])
    <3>1. stack[t] = <<>> /\ returned[t] = None
      BY <2>1
    <3> QED BY <2>3, <3>1 DEF ThreadOK
  <2> QED BY <2>2, <2>4, <2>5, <2>6 DEF RegistryInv
<1>2. RegistryInv /\ (\E t \in Threads : Register(t)) => RegistryInv'
  BY LookupStep, DescribeStep, CallStep, RegisterStructStep DEF Register
<1>3. RegistryInv /\ UNCHANGED registryVars => RegistryInv'
  <2> SUFFICES ASSUME RegistryInv, UNCHANGED registryVars PROVE RegistryInv'
    OBVIOUS
  <2>1. UNCHANGED <<registry, builtIns, todo, stack, returned>>
    BY DEF registryVars
  <2>2. Known' = Known
    BY <2>1 DEF Known
  <2>3. Descriptions'
    BY <2>1, <2>2 DEF RegistryInv, Descriptions, RegistryClosed
  <2> QED BY <2>1, <2>2, <2>3 DEF RegistryInv
<1>4. RegistryInv => RegistryClosed
  BY DEF RegistryInv, Descriptions
<1> QED BY <1>1, <1>2, <1>3, <1>4, PTL DEF RegistrySpec

-----------------------------------------------------------------------------
(* The cleaning of shared memory.                                          *)
(*                                                                         *)
(* That files in use stay linked rests on the lease: from the check until  *)
(* the end of the removal whoever opens the port or its lock file raced    *)
(* with the cleaner (RemovedIsRaced).  That SIGIO is harmless rests on one *)
(* thread of the process cleaning: it finds SIG_DFL replaced while it has  *)
(* a lease, and a handler where it left it (Shielded).  A cleaner that is  *)
(* alone has dealt with the port once it has visited it (VisitedPort).     *)

Dispositions == {"dfl", "ign", "handler"}
ShmPlaces == {"start", "read", "ignore", "ports", "segments", "remove", "removeLocks", "release",
           "restore", "putBack", "semaphores", "user", "gone"}

Descriptors == [process : Processes, name : {"port", "port_el", "sem"},
                inode : Nat \ {0}, raced : BOOLEAN]

(* Only ports are visited: the name of a segment is one character too long *)
(* for filterSegments.                                                     *)
OnlyPorts ==
    \A t \in Cleaners :
        /\ Leasing(t) => visiting[t].name = "port" /\ visiting[t].next = "ports"
        /\ pc[t] = "segments" => entries[t] = {}

ShmType ==
    /\ dir \in [Names -> Nat] /\ inodes \in Nat
    /\ held \subseteq Descriptors
    /\ opening \in [Processes -> Nat]
    /\ sigio \in [Processes -> Dispositions]
    /\ pc \in [Cleaners -> ShmPlaces]
    /\ old \in [Cleaners -> Dispositions \cup {"none"}]
    /\ entries \in [Cleaners -> SUBSET {"port"}]
    /\ visiting \in [Cleaners -> [name : {"none", "port"}, inode : Nat,
                                  next : {"none", "ports", "segments"}]]
    /\ locks \in [Cleaners -> Nat]
    /\ left \in [Cleaners -> SUBSET Names]
    /\ handler \in [Processes -> {"none", "kept", "lost"}]
    /\ OnlyPorts

(* The threads of a process end together.                                  *)
GoneTogether ==
    \A t, u \in Cleaners : ProcessOf[t] = ProcessOf[u] /\ pc[t] = "gone" => pc[u] = "gone"

(* SIGIO does not have its default disposition from SIG_IGN until it is    *)
(* restored, unless two threads of the process clean.                      *)
ShieldedAt(t) ==
    /\ pc[t] \notin {"start", "read", "user", "gone"} => old[t] # "none"
    /\ \/ SeveralCleaned(ProcessOf[t])
       \/ /\ pc[t] = "ignore" /\ old[t] # "dfl" => sigio[ProcessOf[t]] # "dfl"
          /\ pc[t] \in {"ports", "segments", "remove", "removeLocks", "release", "restore"}
                => sigio[ProcessOf[t]] # "dfl"
          /\ pc[t] = "putBack" => old[t] = "handler"
Shielded == \A t \in Cleaners : ShieldedAt(t)

(* While a port is being removed, nobody has it or its lock file open who  *)
(* opened it before.                                                       *)
RemovedIsRaced == Removing => \A h \in held : h.name = "sem" \/ h.raced

(* From its visit on, a cleaner that is alone finds no stale port.         *)
VisitedPort ==
    \A t \in Cleaners \ disturbed :
        /\ pc[t] = "ports" => "port" \in entries[t] \/ "port" \notin Stale
        /\ pc[t] \in {"removeLocks", "release"} => dir["port"] = 0
        /\ pc[t] \in {"segments", "restore", "putBack", "semaphores"} => "port" \notin Stale

ShmInv ==
    /\ ShmType /\ GoneTogether /\ Shielded /\ RemovedIsRaced /\ VisitedPort
    /\ CleanupIsHarmless

-----------------------------------------------------------------------------
(* Of the names only the port passes a filter.                             *)
LEMMA FilteredNames ==
    /\ \A n \in Names : filterPortFiles(n) <=> n = "port"
    /\ \A n \in Names : ~filterSegments(n)
  BY DEF filterPortFiles, filterSegments, Names, Shape

(* The invariant holds when nobody has started.                            *)
LEMMA ShmInitInv == ShmInit => ShmInv
  <1> SUFFICES ASSUME ShmInit PROVE ShmInv
    OBVIOUS
  <1>1. ShmType
    BY DEF ShmInit, ShmType, OnlyPorts, Names, Dispositions, ShmPlaces, NoVisit, Leasing
  <1>2. GoneTogether /\ Shielded /\ VisitedPort
    BY DEF ShmInit, GoneTogether, Shielded, ShieldedAt, VisitedPort
  <1>3. RemovedIsRaced
    BY DEF ShmInit, RemovedIsRaced
  <1>4. CleanupIsHarmless
    BY DEF ShmInit, CleanupIsHarmless, UsedFilesStayLinked, SigioHarmless, StalePortsRemoved
  <1> QED
    BY <1>1, <1>2, <1>3, <1>4 DEF ShmInv

(* A cleaner runs in a process.                                            *)
LEMMA ProcessesOfCleaners == \A t \in Cleaners : ProcessOf[t] \in Processes
  BY DEF Processes

(* Only a process in which two threads cleaned dies of SIGIO.              *)
LEMMA KillsSeveral ==
    ASSUME ShmInv, NEW inode
    PROVE  BreakLeaseKills(inode) \subseteq {p \in Processes : SeveralCleaned(p)}
  BY ProcessesOfCleaners DEF BreakLeaseKills, LeaseOn, Leasing, ShmInv, Shielded, ShieldedAt

(* Who cleans on, undisturbed, acted alone.                                *)
LEMMA Alone ==
    ASSUME NEW actors, Disturb(actors), NEW t \in Cleaners, t \notin disturbed',
           Cleaning(t), Cleaning(t)'
    PROVE  /\ t \in actors /\ t \notin disturbed
           /\ \A v \in Cleaners \ {t} : ~Leasing(v)
  BY DEF Disturb

(* The end of processes.                                                   *)
LEMMA EndProcessesStep ==
    ASSUME ShmInv, NEW ps, NEW waiting, NEW rest, EndProcesses(ps, waiting, rest),
           UNCHANGED <<dir, inodes, old, left>>,
           waiting \in [Processes -> Nat],
           \A t \in Cleaners : rest[t] \subseteq entries[t],
           killed' \subseteq killed \cup {p \in Processes : SeveralCleaned(p)}
    PROVE  (ShmType /\ GoneTogether /\ Shielded /\ RemovedIsRaced /\ CleanupIsHarmless)'
  <1> USE ProcessesOfCleaners DEF EndProcesses
  <1>0. ShmType /\ GoneTogether /\ Shielded /\ RemovedIsRaced /\ CleanupIsHarmless
    BY DEF ShmInv
  <1>1. \A p : SeveralCleaned(p)' <=> SeveralCleaned(p)
    BY DEF SeveralCleaned, Cleaned
  <1>2. ShmType'
    <2>1. (/\ dir \in [Names -> Nat] /\ inodes \in Nat
           /\ opening \in [Processes -> Nat] /\ sigio \in [Processes -> Dispositions]
           /\ old \in [Cleaners -> Dispositions \cup {"none"}]
           /\ left \in [Cleaners -> SUBSET Names]
           /\ handler \in [Processes -> {"none", "kept", "lost"}])'
      BY <1>0 DEF ShmType, Dispositions
    <2>2. (/\ pc \in [Cleaners -> ShmPlaces] /\ locks \in [Cleaners -> Nat]
           /\ entries \in [Cleaners -> SUBSET {"port"}])'
      BY <1>0 DEF ShmType, ShmPlaces
    <2>3. held' \subseteq Descriptors
      BY <1>0 DEF ShmType
    <2>4. (visiting \in [Cleaners -> [name : {"none", "port"}, inode : Nat,
                                  next : {"none", "ports", "segments"}]])'
      BY <1>0 DEF ShmType, NoVisit
    <2>5. OnlyPorts'
      BY <1>0 DEF ShmType, OnlyPorts, Leasing
    <2> QED
      BY <2>1, <2>2, <2>3, <2>4, <2>5 DEF ShmType
  <1>3. GoneTogether'
    BY <1>0 DEF GoneTogether
  <1>4. Shielded'
    BY <1>0, <1>1 DEF Shielded, ShieldedAt
  <1>5. RemovedIsRaced'
    BY <1>0 DEF RemovedIsRaced, Removing, Leasing
  <1>6. UsedFilesStayLinked'
    BY <1>0 DEF CleanupIsHarmless, UsedFilesStayLinked
  <1>7. SigioHarmless'
    BY <1>0, <1>1 DEF CleanupIsHarmless, SigioHarmless
  <1>8. StalePortsRemoved'
    BY <1>0 DEF CleanupIsHarmless, StalePortsRemoved
  <1> QED
    BY <1>2, <1>3, <1>4, <1>5, <1>6, <1>7, <1>8 DEF CleanupIsHarmless

(* A step of the others disturbs every cleaner.                            *)
LEMMA DisturbedByOthers ==
    ASSUME ShmInv, Disturb({}),
           \A t \in Cleaners : pc'[t] = pc[t] \/ pc'[t] = "gone"
    PROVE  VisitedPort'
  <1>1. ASSUME NEW t \in Cleaners, t \notin disturbed', Cleaning(t)'
        PROVE  FALSE
    <2>1. Cleaning(t)
      BY <1>1 DEF Cleaning
    <2> QED
      BY <1>1, <2>1, Alone
  <1> QED
    BY <1>1 DEF VisitedPort, Cleaning

(* A process ends, Exit.                                                   *)
LEMMA ExitStep ==
    ASSUME ShmInv, NEW p \in Processes, Exit(p), Disturb({})
    PROVE  ShmInv'
  <1>1. (ShmType /\ GoneTogether /\ Shielded /\ RemovedIsRaced /\ CleanupIsHarmless)'
    <2>1. opening \in [Processes -> Nat]
      BY DEF ShmInv, ShmType
    <2> QED
      BY <2>1, EndProcessesStep DEF Exit
  <1>2. VisitedPort'
    BY DisturbedByOthers DEF Exit, EndProcesses
  <1> QED
    BY <1>1, <1>2 DEF ShmInv

(* Cleaning on without touching a file or a lease.                         *)
LEMMA StaysStale ==
    ASSUME NEW t \in Cleaners, ShmType, UNCHANGED <<dir, held, visiting, locks>>,
           pc' = [pc EXCEPT ![t] = pc'[t]], Leasing(t)' <=> Leasing(t)
    PROVE  Stale' = Stale
  BY DEF Stale, Present, InUse, Free, LockFile, LeaseOn, Leasing, ShmType, OnlyPorts

(* A thread that moves stays in the code.                                  *)
LEMMA MovedType ==
    ASSUME NEW t \in Cleaners, pc \in [Cleaners -> ShmPlaces], pc'[t] \in ShmPlaces,
           pc' = [pc EXCEPT ![t] = pc'[t]]
    PROVE  pc' \in [Cleaners -> ShmPlaces]
  OBVIOUS

(* What a step of a cleaner that moves only itself leaves as it was.       *)
LEMMA MovesOnly ==
    ASSUME ShmInv, NEW t \in Cleaners,
           UNCHANGED <<dir, inodes, held, opening, visiting, locks, killed>>,
           pc' = [pc EXCEPT ![t] = pc'[t]], pc'[t] \in ShmPlaces \ {"gone"}, pc[t] # "gone",
           ~Leasing(t), ~Leasing(t)'
    PROVE  (GoneTogether /\ RemovedIsRaced /\ UsedFilesStayLinked)'
  <1>1. GoneTogether'
    BY DEF ShmInv, ShmType, GoneTogether
  <1>2. RemovedIsRaced'
    BY DEF ShmInv, ShmType, OnlyPorts, RemovedIsRaced, Removing, Leasing
  <1>3. UsedFilesStayLinked'
    BY DEF ShmInv, CleanupIsHarmless, UsedFilesStayLinked
  <1> QED
    BY <1>1, <1>2, <1>3

(* A thread that has cleaned stays one that has.                           *)
LEMMA SeveralStays ==
    ASSUME \A t \in Cleaners : old'[t] = old[t] \/ old'[t] # "none"
    PROVE  \A p : SeveralCleaned(p) => SeveralCleaned(p)'
  BY DEF SeveralCleaned, Cleaned

(* The flag is tested.                                                     *)
LEMMA TestFlagStep ==
    ASSUME ShmInv, NEW t \in Cleaners, TestFlag(t), Disturb({t})
    PROVE  ShmInv'
  <1> USE DEF TestFlag, Goto, fileVars, ghostVars
  <1>0. ShmType /\ GoneTogether /\ Shielded /\ VisitedPort /\ CleanupIsHarmless
    BY DEF ShmInv
  <1>1. pc' = [pc EXCEPT ![t] = pc'[t]] /\ pc'[t] \in {"user", "read"}
    BY <1>0 DEF ShmType
  <1>2. ShmType'
    BY <1>0, <1>1 DEF ShmType, OnlyPorts, Leasing, ShmPlaces
  <1>3. (GoneTogether /\ RemovedIsRaced /\ UsedFilesStayLinked)'
    BY <1>1, MovesOnly DEF Leasing, ShmPlaces
  <1>4. \A p : SeveralCleaned(p)' <=> SeveralCleaned(p)
    BY DEF SeveralCleaned, Cleaned
  <1>5. Shielded'
    BY <1>0, <1>1, <1>4 DEF Shielded, ShieldedAt, ShmType
  <1>6. SigioHarmless' /\ StalePortsRemoved'
    BY <1>0, <1>1, <1>4 DEF CleanupIsHarmless, SigioHarmless, StalePortsRemoved, ShmType
  <1>7. VisitedPort'
    <2> SUFFICES ASSUME NEW u \in Cleaners, u \notin disturbed', u # t, Cleaning(u)'
                 PROVE FALSE
      BY <1>0, <1>1 DEF VisitedPort, ShmType, Cleaning
    <2> QED
      BY <1>0, <1>1, Alone DEF ShmType, Cleaning
  <1> QED
    BY <1>2, <1>3, <1>5, <1>6, <1>7 DEF ShmInv, CleanupIsHarmless

(* The disposition of SIGIO is read.                                       *)
LEMMA ReadDispositionStep ==
    ASSUME ShmInv, NEW t \in Cleaners, ReadDisposition(t), Disturb({t})
    PROVE  ShmInv'
  <1> USE DEF ReadDisposition, Goto, fileVars, ghostVars
  <1>0. ShmType /\ GoneTogether /\ Shielded /\ VisitedPort /\ CleanupIsHarmless
    BY DEF ShmInv
  <1>1. /\ pc' = [pc EXCEPT ![t] = pc'[t]] /\ pc'[t] = "ignore"
        /\ old'[t] = sigio[ProcessOf[t]] /\ sigio[ProcessOf[t]] \in Dispositions
        /\ \A u \in Cleaners \ {t} : old'[u] = old[u] /\ pc'[u] = pc[u]
    BY <1>0, ProcessesOfCleaners DEF ShmType
  <1>2. ShmType'
    BY <1>0, <1>1 DEF ShmType, OnlyPorts, Leasing, ShmPlaces, Dispositions
  <1>3. (GoneTogether /\ RemovedIsRaced /\ UsedFilesStayLinked)'
    BY <1>1, MovesOnly DEF Leasing, ShmPlaces
  <1>4. \A p : SeveralCleaned(p) => SeveralCleaned(p)'
    BY <1>1, SeveralStays DEF Dispositions
  <1>5. Shielded'
    BY <1>0, <1>1, <1>4 DEF Shielded, ShieldedAt, Dispositions
  <1>6. SigioHarmless' /\ StalePortsRemoved'
    BY <1>0, <1>1, <1>4 DEF CleanupIsHarmless, SigioHarmless, StalePortsRemoved
  <1>7. VisitedPort'
    <2> SUFFICES ASSUME NEW u \in Cleaners, u \notin disturbed', u # t, Cleaning(u)'
                 PROVE FALSE
      BY <1>0, <1>1 DEF VisitedPort, Cleaning
    <2> QED
      BY <1>0, <1>1, Alone DEF Cleaning
  <1> QED
    BY <1>2, <1>3, <1>5, <1>6, <1>7 DEF ShmInv, CleanupIsHarmless

(* SIG_IGN replaces SIG_DFL, and the directory is opened.                  *)
LEMMA IgnoreSigioStep ==
    ASSUME ShmInv, NEW t \in Cleaners, IgnoreSigio(t), Disturb({t})
    PROVE  ShmInv'
  <1> USE DEF IgnoreSigio, Goto, fileVars, ghostVars
  <1> DEFINE p == ProcessOf[t]
  <1>0. ShmType /\ GoneTogether /\ Shielded /\ VisitedPort /\ CleanupIsHarmless
    BY DEF ShmInv
  <1>1. /\ pc' = [pc EXCEPT ![t] = pc'[t]] /\ pc'[t] = "ports"
        /\ \A u \in Cleaners \ {t} : pc'[u] = pc[u] /\ entries'[u] = entries[u]
        /\ \A q \in Processes \ {p} : sigio'[q] = sigio[q] /\ handler'[q] = handler[q]
        /\ entries'[t] = {n \in Present : filterPortFiles(n)}
        /\ p \in Processes
    BY <1>0, ProcessesOfCleaners DEF ShmType
  <1>2. entries'[t] \subseteq {"port"} /\ ("port" \in Present => "port" \in entries'[t])
    BY <1>1, FilteredNames DEF Present
  <1>3. ShmType'
    BY <1>0, <1>1, <1>2 DEF ShmType, OnlyPorts, Leasing, ShmPlaces, Dispositions
  <1>4. (GoneTogether /\ RemovedIsRaced /\ UsedFilesStayLinked)'
    BY <1>1, MovesOnly DEF Leasing, ShmPlaces
  <1>5. \A q : SeveralCleaned(q)' <=> SeveralCleaned(q)
    BY DEF SeveralCleaned, Cleaned
  <1>6. old[t] # "none" /\ \A u \in Cleaners : pc[u] = "putBack" => old[u] # "none"
    BY <1>0 DEF Shielded, ShieldedAt
  <1>7. sigio'[p] = "dfl" => SeveralCleaned(p)
    BY <1>0, <1>1 DEF Shielded, ShieldedAt, ShmType
  <1>8. Shielded'
    <2> SUFFICES ASSUME NEW u \in Cleaners, ~SeveralCleaned(ProcessOf[u]), u # t, ProcessOf[u] = p
                 PROVE  pc[u] \in {"start", "read", "user", "gone"}
      BY <1>0, <1>1, <1>5, <1>6, <1>7, ProcessesOfCleaners DEF Shielded, ShieldedAt
    <2> QED
      BY <1>0, <1>6 DEF Shielded, ShieldedAt, SeveralCleaned, Cleaned
  <1>9. SigioHarmless'
    <2>1. ASSUME handler'[p] = "kept", ~SeveralCleaned(p)
          PROVE  sigio'[p] = "handler"
      <3>1. \A u \in Cleaners : ProcessOf[u] = p => pc[u] # "putBack"
        BY <1>6, <2>1 DEF SeveralCleaned, Cleaned
      <3>2. handler[p] = "kept" => sigio[p] = "handler"
        BY <1>0, <1>1, <2>1, <3>1 DEF CleanupIsHarmless, SigioHarmless
      <3> QED
        BY <1>0, <1>1, <2>1, <3>2 DEF ShmType
    <2>2. \A q \in killed' : SeveralCleaned(q)'
      BY <1>0, <1>5 DEF CleanupIsHarmless, SigioHarmless
    <2>3. \A q \in Processes \ {p} : handler'[q] = "kept" =>
             \/ sigio'[q] = "handler" \/ SeveralCleaned(q)'
             \/ \E u \in Cleaners : ProcessOf[u] = q /\ pc'[u] = "putBack" /\ old'[u] = "handler"
      BY <1>0, <1>1, <1>5 DEF CleanupIsHarmless, SigioHarmless
    <2> QED
      BY <1>5, <2>1, <2>2, <2>3 DEF SigioHarmless
  <1>10. StalePortsRemoved'
    BY <1>0 DEF CleanupIsHarmless, StalePortsRemoved
  <1>11. VisitedPort'
    <2>1. Stale' = Stale /\ Stale \subseteq Present
      BY <1>0, <1>1, StaysStale DEF Leasing, Stale
    <2>2. ASSUME NEW u \in Cleaners, u \notin disturbed', u # t, Cleaning(u)'
          PROVE FALSE
      BY <1>0, <1>1, <2>2, Alone DEF Cleaning
    <2> QED
      BY <1>0, <1>1, <1>2, <2>1, <2>2 DEF VisitedPort, Cleaning
  <1> QED
    BY <1>3, <1>4, <1>8, <1>9, <1>10, <1>11 DEF ShmInv, CleanupIsHarmless

(* A port is locked and leased: nobody has it or its lock file open.       *)
LEMMA LockPortStep ==
    ASSUME ShmInv, NEW t \in Cleaners, NEW n \in Names, VisitFile(t, n), CheckLockAll(n),
           Disturb({t})
    PROVE  ShmInv'
  <1> USE DEF VisitFile, Goto
  <1>0. ShmType /\ GoneTogether /\ Shielded /\ RemovedIsRaced /\ VisitedPort /\ CleanupIsHarmless
    BY DEF ShmInv
  <1>1. n = "port" /\ pc[t] = "ports"
    BY <1>0 DEF ShmType, OnlyPorts
  <1>2. /\ pc' = [pc EXCEPT ![t] = "remove"]
        /\ visiting' = [visiting EXCEPT
                          ![t] = [name |-> "port", inode |-> dir["port"], next |-> "ports"]]
        /\ locks' = [locks EXCEPT ![t] = LockFile("port")]
        /\ entries' = [entries EXCEPT ![t] = @ \ {"port"}]
        /\ UNCHANGED <<dir, inodes, held, opening, sigio, handler, killed, old, left>>
    BY <1>1
  <1>3. ShmType'
    BY <1>0, <1>2 DEF ShmType, OnlyPorts, Leasing, ShmPlaces, LockFile, Names
  <1>4. GoneTogether'
    BY <1>0, <1>1, <1>2 DEF ShmType, GoneTogether
  <1>5. \A q : SeveralCleaned(q)' <=> SeveralCleaned(q)
    BY <1>2 DEF SeveralCleaned, Cleaned
  <1>6. Shielded'
    BY <1>0, <1>1, <1>2, <1>5 DEF Shielded, ShieldedAt, ShmType
  <1>7. \A h \in held : h.name = "sem" \/ h.raced
    <2> SUFFICES ASSUME NEW h \in held, h.name # "sem", ~h.raced
                 PROVE  FALSE
      OBVIOUS
    <2>1. h.name \in {"port", "port_el"} /\ h.inode \in Nat \ {0} /\ dir[h.name] = h.inode
      BY <1>0 DEF ShmType, Descriptors, CleanupIsHarmless, UsedFilesStayLinked
    <2>2. ~InUse("port") /\ Free(dir["port_el"])
      BY <1>1 DEF CheckLockAll, LockFile
    <2> QED
      BY <2>1, <2>2 DEF InUse, Free
  <1>8. RemovedIsRaced'
    BY <1>2, <1>7 DEF RemovedIsRaced
  <1>9. UsedFilesStayLinked' /\ StalePortsRemoved'
    BY <1>0, <1>2 DEF CleanupIsHarmless, UsedFilesStayLinked, StalePortsRemoved
  <1>10. SigioHarmless'
    BY <1>0, <1>1, <1>2, <1>5 DEF CleanupIsHarmless, SigioHarmless, ShmType
  <1>11. VisitedPort'
    <2>1. ASSUME NEW u \in Cleaners, u \notin disturbed', u # t, Cleaning(u)'
          PROVE FALSE
      BY <1>0, <1>2, <2>1, Alone DEF Cleaning, ShmType
    <2> QED
      BY <1>0, <1>2, <2>1 DEF VisitedPort, Cleaning, ShmType
  <1> QED
    BY <1>3, <1>4, <1>6, <1>8, <1>9, <1>10, <1>11 DEF ShmInv, CleanupIsHarmless

(* A port is passed by: somebody uses, locks or leases it.                 *)
LEMMA PassByStep ==
    ASSUME ShmInv, NEW t \in Cleaners, NEW n \in Names, VisitFile(t, n), ~CheckLockAll(n),
           Disturb({t})
    PROVE  ShmInv'
  <1> USE DEF VisitFile
  <1> DEFINE dead == IF dir[n] # 0 /\ Free(LockFile(n)) THEN BreakLeaseKills(dir[n]) ELSE {}
             rest == [entries EXCEPT ![t] = @ \ {n}]
  <1>0. ShmType /\ GoneTogether /\ Shielded /\ RemovedIsRaced /\ VisitedPort /\ CleanupIsHarmless
    BY DEF ShmInv
  <1>1. n = "port" /\ pc[t] = "ports"
    BY <1>0 DEF ShmType, OnlyPorts
  <1>2. /\ killed' = killed \cup dead /\ EndProcesses(dead, opening, rest)
        /\ UNCHANGED <<dir, inodes, old, left>>
    OBVIOUS
  <1>3. (ShmType /\ GoneTogether /\ Shielded /\ RemovedIsRaced /\ CleanupIsHarmless)'
    <2>1. dead \subseteq {p \in Processes : SeveralCleaned(p)}
      BY KillsSeveral
    <2>2. \A u \in Cleaners : rest[u] \subseteq entries[u]
      BY <1>0 DEF ShmType
    <2>3. opening \in [Processes -> Nat]
      BY <1>0 DEF ShmType
    <2> HIDE DEF dead, rest
    <2> QED
      BY <1>2, <2>1, <2>2, <2>3, EndProcessesStep
  <1>4. VisitedPort'
    <2>1. \A u \in Cleaners : pc'[u] = pc[u] \/ pc'[u] = "gone"
      BY <1>2 DEF EndProcesses
    <2>2. ASSUME NEW u \in Cleaners, u \notin disturbed', Cleaning(u)'
          PROVE  u = t /\ pc'[u] = pc[u] /\ \A v \in Cleaners \ {t} : ~Leasing(v)
      <3>1. Cleaning(u) /\ pc'[u] = pc[u]
        BY <2>1, <2>2 DEF Cleaning
      <3> QED
        BY <2>2, <3>1, Alone
    <2>3. ASSUME \A v \in Cleaners \ {t} : ~Leasing(v)
          PROVE  "port" \notin Stale'
      <3>1. \A v \in Cleaners : ~Leasing(v)
        BY <1>1, <2>3 DEF Leasing
      <3>2. LeaseOn(dir["port"]) = {} /\ dead = {}
        BY <1>1, <3>1 DEF LeaseOn, BreakLeaseKills
      <3>3. UNCHANGED <<dir, held, locks, visiting, pc>>
        <4>1. EndProcesses({}, opening, rest)
          BY <1>2, <3>2
        <4> QED
          BY <1>0, <4>1 DEF EndProcesses, ShmType
      <3>4. Stale' = Stale
        BY <3>3 DEF Stale, Present, InUse, Free, LockFile, LeaseOn, Leasing
      <3> QED
        BY <1>1, <3>2, <3>4 DEF Stale, CheckLockAll, Present
    <2> QED
      BY <1>1, <2>2, <2>3 DEF VisitedPort, Cleaning
  <1> QED
    BY <1>3, <1>4 DEF ShmInv

(* The port and its lock file are removed, RemoveBase and RemoveLocks.     *)
LEMMA RemoveStep ==
    ASSUME ShmInv, NEW t \in Cleaners, RemoveBase(t) \/ RemoveLocks(t), Disturb({t})
    PROVE  ShmInv'
  <1> USE DEF RemoveBase, RemoveLocks, Goto, ghostVars
  <1>0. ShmType /\ GoneTogether /\ Shielded /\ RemovedIsRaced /\ VisitedPort /\ CleanupIsHarmless
    BY DEF ShmInv
  <1>1. visiting[t].name = "port" /\ Removing
    BY <1>0 DEF ShmType, OnlyPorts, Leasing, Removing
  <1>2. /\ UNCHANGED <<inodes, held, opening, sigio, old, entries, visiting, locks, left,
                      handler, killed>>
        /\ pc' = [pc EXCEPT ![t] = pc'[t]]
        /\ \/ pc[t] = "remove" /\ pc'[t] = "removeLocks" /\ dir' = [dir EXCEPT !["port"] = 0]
           \/ pc[t] = "removeLocks" /\ pc'[t] = "release" /\ dir' = [dir EXCEPT !["port_el"] = 0]
    BY <1>0, <1>1 DEF ShmType
  <1>3. ShmType'
    <2>1. dir' \in [Names -> Nat]
      BY <1>0, <1>2 DEF ShmType
    <2>2. pc' \in [Cleaners -> ShmPlaces]
      BY <1>0, <1>2, MovedType DEF ShmType, ShmPlaces
    <2>3. OnlyPorts'
      BY <1>0, <1>2 DEF ShmType, OnlyPorts, Leasing
    <2> QED
      BY <1>0, <1>2, <2>1, <2>2, <2>3 DEF ShmType
  <1>4. GoneTogether'
    BY <1>0, <1>2 DEF ShmType, GoneTogether
  <1>5. \A q : SeveralCleaned(q)' <=> SeveralCleaned(q)
    BY <1>2 DEF SeveralCleaned, Cleaned
  <1>6. Shielded'
    BY <1>0, <1>2, <1>5 DEF Shielded, ShieldedAt, ShmType
  <1>7. RemovedIsRaced' /\ UsedFilesStayLinked'
    BY <1>0, <1>1, <1>2 DEF RemovedIsRaced, UsedFilesStayLinked
  <1>8. SigioHarmless' /\ StalePortsRemoved'
    BY <1>0, <1>2, <1>5 DEF CleanupIsHarmless, SigioHarmless, StalePortsRemoved, ShmType
  <1>9. VisitedPort'
    <2>1. ASSUME NEW u \in Cleaners, u \notin disturbed', u # t, Cleaning(u)'
          PROVE FALSE
      BY <1>0, <1>2, <2>1, Alone DEF Cleaning, ShmType
    <2>2. t \notin disturbed' => t \notin disturbed
      BY <1>0, <1>2, Alone DEF Cleaning, ShmType
    <2>3. t \notin disturbed' => dir'["port"] = 0
      BY <1>0, <1>2, <2>2 DEF VisitedPort, ShmType, Names
    <2> QED
      BY <1>0, <1>2, <2>1, <2>3 DEF VisitedPort, Cleaning, ShmType
  <1> QED
    BY <1>3, <1>4, <1>6, <1>7, <1>8, <1>9 DEF ShmInv, CleanupIsHarmless

(* The lock and the lease are given up.                                    *)
LEMMA ReleaseLocksStep ==
    ASSUME ShmInv, NEW t \in Cleaners, ReleaseLocks(t), Disturb({t})
    PROVE  ShmInv'
  <1> USE DEF ReleaseLocks, Goto, fileVars, ghostVars
  <1>0. ShmType /\ GoneTogether /\ Shielded /\ RemovedIsRaced /\ VisitedPort /\ CleanupIsHarmless
    BY DEF ShmInv
  <1>1. /\ UNCHANGED <<dir, inodes, held, opening, sigio, old, entries, left, handler, killed>>
        /\ pc[t] = "release" /\ pc' = [pc EXCEPT ![t] = "ports"]
        /\ locks' = [locks EXCEPT ![t] = 0] /\ visiting' = [visiting EXCEPT ![t] = NoVisit]
    BY <1>0 DEF ShmType, OnlyPorts, Leasing
  <1>2. ShmType'
    BY <1>0, <1>1 DEF ShmType, OnlyPorts, Leasing, ShmPlaces, NoVisit
  <1>3. GoneTogether'
    BY <1>0, <1>1 DEF ShmType, GoneTogether
  <1>4. \A q : SeveralCleaned(q)' <=> SeveralCleaned(q)
    BY <1>1 DEF SeveralCleaned, Cleaned
  <1>5. Shielded'
    BY <1>0, <1>1, <1>4 DEF Shielded, ShieldedAt, ShmType
  <1>6. RemovedIsRaced'
    BY <1>0, <1>1 DEF RemovedIsRaced, Removing, Leasing, ShmType, OnlyPorts, NoVisit
  <1>7. UsedFilesStayLinked' /\ StalePortsRemoved'
    BY <1>0, <1>1 DEF CleanupIsHarmless, UsedFilesStayLinked, StalePortsRemoved
  <1>8. SigioHarmless'
    BY <1>0, <1>1, <1>4 DEF CleanupIsHarmless, SigioHarmless, ShmType
  <1>9. VisitedPort'
    <2>1. ASSUME NEW u \in Cleaners, u \notin disturbed', u # t, Cleaning(u)'
          PROVE FALSE
      BY <1>0, <1>1, <2>1, Alone DEF Cleaning, ShmType
    <2>2. t \notin disturbed' => t \notin disturbed
      BY <1>0, <1>1, Alone DEF Cleaning, ShmType
    <2>3. t \notin disturbed' => "port" \notin Stale'
      BY <1>0, <1>1, <2>2 DEF VisitedPort, Stale, Present
    <2> QED
      BY <1>0, <1>1, <2>1, <2>3 DEF VisitedPort, Cleaning, ShmType
  <1> QED
    BY <1>2, <1>3, <1>5, <1>6, <1>7, <1>8, <1>9 DEF ShmInv, CleanupIsHarmless

(* The directory has been read.                                            *)
LEMMA EndDirectoryStep ==
    ASSUME ShmInv, NEW t \in Cleaners, EndDirectory(t), Disturb({t})
    PROVE  ShmInv'
  <1> USE DEF EndDirectory, Goto, fileVars, ghostVars
  <1>0. ShmType /\ GoneTogether /\ Shielded /\ VisitedPort /\ CleanupIsHarmless
    BY DEF ShmInv
  <1>1. /\ UNCHANGED <<dir, inodes, held, opening, sigio, old, entries, visiting, locks, left,
                      handler, killed>>
        /\ pc' = [pc EXCEPT ![t] = pc'[t]] /\ entries[t] = {}
        /\ \/ pc[t] = "ports" /\ pc'[t] = "segments"
           \/ pc[t] = "segments" /\ pc'[t] \in {"restore", "semaphores"}
    <2>1. {n \in Present : filterSegments(n)} = {}
      BY FilteredNames DEF Present
    <2>2. pc[t] = "ports" => entries' = [entries EXCEPT ![t] = {}]
      BY <2>1
    <2>3. pc[t] = "ports" => entries' = entries
      <3> SUFFICES ASSUME pc[t] = "ports" PROVE entries' = entries
        OBVIOUS
      <3>1. entries' = [u \in Cleaners |-> entries'[u]] /\ entries = [u \in Cleaners |-> entries[u]]
        BY <1>0, <2>2 DEF ShmType
      <3>2. \A u \in Cleaners : entries'[u] = entries[u]
        BY <1>0, <2>2 DEF ShmType
      <3> QED
        BY <3>1, <3>2
    <2> QED
      BY <1>0, <2>3 DEF ShmType
  <1>2. ShmType'
    <2>1. pc' \in [Cleaners -> ShmPlaces]
      BY <1>0, <1>1, MovedType DEF ShmType, ShmPlaces
    <2>2. OnlyPorts'
      BY <1>0, <1>1 DEF ShmType, OnlyPorts, Leasing
    <2> QED
      BY <1>0, <1>1, <2>1, <2>2 DEF ShmType
  <1>3. (GoneTogether /\ RemovedIsRaced /\ UsedFilesStayLinked)'
    BY <1>1, MovesOnly DEF Leasing, ShmPlaces
  <1>4. \A p : SeveralCleaned(p)' <=> SeveralCleaned(p)
    BY <1>1 DEF SeveralCleaned, Cleaned
  <1>5. Shielded'
    BY <1>0, <1>1, <1>4 DEF Shielded, ShieldedAt, ShmType
  <1>6. SigioHarmless' /\ StalePortsRemoved'
    BY <1>0, <1>1, <1>4 DEF CleanupIsHarmless, SigioHarmless, StalePortsRemoved, ShmType
  <1>7. VisitedPort'
    <2>1. ASSUME NEW u \in Cleaners, u \notin disturbed', Cleaning(u)'
          PROVE u = t /\ u \notin disturbed
      BY <1>0, <1>1, <2>1, Alone DEF Cleaning, ShmType
    <2>2. Stale' = Stale
      BY <1>0, <1>1, StaysStale DEF Leasing
    <2> QED
      BY <1>0, <1>1, <2>1, <2>2 DEF VisitedPort, Cleaning, ShmType
  <1> QED
    BY <1>2, <1>3, <1>5, <1>6, <1>7 DEF ShmInv, CleanupIsHarmless

(* SIG_DFL again, or the handler that was found.                           *)
LEMMA RestoreSigioStep ==
    ASSUME ShmInv, NEW t \in Cleaners, RestoreSigio(t), Disturb({t})
    PROVE  ShmInv'
  <1> USE DEF RestoreSigio, Goto, fileVars, ghostVars
  <1> DEFINE p == ProcessOf[t]
  <1>0. ShmType /\ GoneTogether /\ Shielded /\ VisitedPort /\ CleanupIsHarmless
    BY DEF ShmInv
  <1>1. /\ UNCHANGED <<dir, inodes, held, opening, entries, visiting, locks, left, handler, killed>>
        /\ pc' = [pc EXCEPT ![t] = pc'[t]] /\ p \in Processes
        /\ \A u \in Cleaners \ {t} : pc'[u] = pc[u] /\ old'[u] = old[u]
        /\ \A q \in Processes \ {p} : sigio'[q] = sigio[q]
        /\ \/ /\ pc[t] = "restore" /\ old'[t] = sigio[p] /\ sigio'[p] = "dfl"
              /\ pc'[t] = IF sigio[p] = "ign" THEN "semaphores" ELSE "putBack"
           \/ /\ pc[t] = "putBack" /\ old'[t] = old[t] /\ sigio'[p] = old[t]
              /\ pc'[t] = "semaphores"
    BY <1>0, ProcessesOfCleaners DEF ShmType
  <1>2. old[t] # "none" /\ old[t] \in Dispositions /\ old'[t] \in Dispositions
    BY <1>0, <1>1 DEF Shielded, ShieldedAt, ShmType, Dispositions
  <1>3. ShmType'
    <2>1. /\ sigio' \in [Processes -> Dispositions]
          /\ old' \in [Cleaners -> Dispositions \cup {"none"}]
      BY <1>0, <1>1, <1>2 DEF ShmType, Dispositions
    <2>2. pc' \in [Cleaners -> ShmPlaces]
      BY <1>0, <1>1, MovedType DEF ShmType, ShmPlaces
    <2>3. OnlyPorts'
      BY <1>0, <1>1 DEF ShmType, OnlyPorts, Leasing
    <2> QED
      BY <1>0, <1>1, <2>1, <2>2, <2>3 DEF ShmType
  <1>4. (GoneTogether /\ RemovedIsRaced /\ UsedFilesStayLinked)'
    BY <1>1, MovesOnly DEF Leasing, ShmPlaces
  <1>5. \A q : SeveralCleaned(q) => SeveralCleaned(q)'
    BY <1>1, <1>2, SeveralStays DEF Dispositions
  <1>6. ASSUME ~SeveralCleaned(p)
        PROVE  \A u \in Cleaners \ {t} :
                  ProcessOf[u] = p => pc[u] \in {"start", "read", "user", "gone"}
    BY <1>0, <1>2, <1>6 DEF Shielded, ShieldedAt, SeveralCleaned, Cleaned
  <1>7. ASSUME ~SeveralCleaned(p)
        PROVE  /\ pc[t] = "restore" => sigio[p] # "dfl"
               /\ pc[t] = "putBack" => old[t] = "handler"
    BY <1>0, <1>7 DEF Shielded, ShieldedAt
  <1>8. Shielded'
    <2> SUFFICES ASSUME NEW u \in Cleaners PROVE ShieldedAt(u)'
      BY DEF Shielded
    <2>1. CASE u = t
      BY <1>0, <1>1, <1>2, <1>5, <1>7, <2>1 DEF ShmType, Dispositions, ShieldedAt
    <2>2. CASE u # t /\ ProcessOf[u] = p
      BY <1>0, <1>1, <1>5, <1>6, <2>2 DEF Shielded, ShieldedAt
    <2>3. CASE u # t /\ ProcessOf[u] # p
      BY <1>0, <1>1, <1>5, <2>3, ProcessesOfCleaners DEF Shielded, ShieldedAt
    <2> QED
      BY <2>1, <2>2, <2>3
  <1>9. SigioHarmless'
    <2>1. \A q \in killed' : SeveralCleaned(q)'
      BY <1>0, <1>1, <1>5 DEF CleanupIsHarmless, SigioHarmless
    <2>2. ASSUME handler[p] = "kept", ~SeveralCleaned(p)
          PROVE  sigio'[p] = "handler" \/ (pc'[t] = "putBack" /\ old'[t] = "handler")
      <3>1. sigio[p] = "handler" \/ pc[t] = "putBack"
        BY <1>0, <1>1, <1>6, <2>2 DEF CleanupIsHarmless, SigioHarmless
      <3> QED
        BY <1>1, <1>7, <2>2, <3>1
    <2>3. \A q \in Processes \ {p} : handler'[q] = "kept" =>
             \/ sigio'[q] = "handler" \/ SeveralCleaned(q)'
             \/ \E u \in Cleaners : ProcessOf[u] = q /\ pc'[u] = "putBack" /\ old'[u] = "handler"
      BY <1>0, <1>1, <1>5 DEF CleanupIsHarmless, SigioHarmless
    <2> QED
      BY <1>1, <1>5, <2>1, <2>2, <2>3 DEF SigioHarmless
  <1>10. StalePortsRemoved'
    BY <1>0, <1>1 DEF CleanupIsHarmless, StalePortsRemoved
  <1>11. VisitedPort'
    <2>1. ASSUME NEW u \in Cleaners, u \notin disturbed', Cleaning(u)'
          PROVE u = t /\ u \notin disturbed
      BY <1>0, <1>1, <2>1, Alone DEF Cleaning
    <2>2. Stale' = Stale
      BY <1>0, <1>1, StaysStale DEF Leasing
    <2> QED
      BY <1>0, <1>1, <2>1, <2>2 DEF VisitedPort, Cleaning
  <1> QED
    BY <1>3, <1>4, <1>8, <1>9, <1>10, <1>11 DEF ShmInv, CleanupIsHarmless

(* The semaphores go, and the cleaner is done.                             *)
LEMMA CleanSemaphoresStep ==
    ASSUME ShmInv, NEW t \in Cleaners, CleanSemaphores(t), Disturb({t})
    PROVE  ShmInv'
  <1> USE DEF CleanSemaphores, Goto
  <1>0. ShmType /\ GoneTogether /\ Shielded /\ RemovedIsRaced /\ VisitedPort /\ CleanupIsHarmless
    BY DEF ShmInv
  <1>1. ShmType'
    <2>1. dir' \in [Names -> Nat] /\ pc' \in [Cleaners -> ShmPlaces]
      BY <1>0 DEF ShmType, ShmPlaces
    <2>2. left' \in [Cleaners -> SUBSET Names]
      BY <1>0 DEF ShmType, Stale, Present
    <2>3. OnlyPorts'
      BY <1>0 DEF ShmType, OnlyPorts, Leasing
    <2> QED
      BY <1>0, <2>1, <2>2, <2>3 DEF ShmType
  <1>2. GoneTogether'
    BY <1>0 DEF ShmType, GoneTogether
  <1>3. \A p : SeveralCleaned(p)' <=> SeveralCleaned(p)
    BY DEF SeveralCleaned, Cleaned
  <1>4. Shielded'
    BY <1>0, <1>3 DEF Shielded, ShieldedAt, ShmType
  <1>5. RemovedIsRaced'
    BY <1>0 DEF RemovedIsRaced, Removing, Leasing, ShmType, OnlyPorts
  <1>6. UsedFilesStayLinked'
    BY <1>0 DEF CleanupIsHarmless, UsedFilesStayLinked, ShmType
  <1>7. SigioHarmless'
    BY <1>0, <1>3 DEF CleanupIsHarmless, SigioHarmless, ShmType
  <1>8. StalePortsRemoved'
    BY <1>0 DEF CleanupIsHarmless, StalePortsRemoved, VisitedPort, ShmType
  <1>9. VisitedPort'
    <2>1. ASSUME NEW u \in Cleaners, u \notin disturbed', Cleaning(u)'
          PROVE FALSE
      BY <1>0, <2>1, Alone DEF Cleaning, ShmType
    <2> QED
      BY <2>1 DEF VisitedPort, Cleaning
  <1> QED
    BY <1>1, <1>2, <1>4, <1>5, <1>6, <1>7, <1>8, <1>9 DEF ShmInv, CleanupIsHarmless

(* A file that is opened is linked or raced.                               *)
LEMMA OpenOrCreateStep ==
    ASSUME ShmInv, NEW p \in Processes, NEW n \in {"port", "port_el", "sem"}, OpenOrCreate(p, n),
           UNCHANGED <<opening, sigio, pc, old, entries, visiting, locks, left, handler, killed>>,
           Disturb({})
    PROVE  ShmInv'
  <1> DEFINE inode == IF dir[n] = 0 THEN inodes + 1 ELSE dir[n]
             h == [process |-> p, name |-> n, inode |-> inode, raced |-> Removing]
  <1>0. ShmType /\ GoneTogether /\ Shielded /\ RemovedIsRaced /\ VisitedPort /\ CleanupIsHarmless
    BY DEF ShmInv
  <1>1. /\ held' = held \cup {h} /\ dir' = [dir EXCEPT ![n] = inode] /\ inodes' \in Nat
        /\ inode \in Nat \ {0} /\ n \in Names
    BY <1>0 DEF OpenOrCreate, Hold, ShmType, Names
  <1>2. h \in Descriptors
    BY <1>1 DEF Removing, Descriptors
  <1> HIDE DEF inode
  <1>3. ShmType'
    BY <1>0, <1>1, <1>2 DEF ShmType, OnlyPorts, Leasing
  <1>4. \A q : SeveralCleaned(q)' <=> SeveralCleaned(q)
    BY DEF SeveralCleaned, Cleaned
  <1>5. GoneTogether' /\ Shielded'
    BY <1>0, <1>4 DEF GoneTogether, Shielded, ShieldedAt
  <1>6. RemovedIsRaced'
    BY <1>0, <1>1 DEF RemovedIsRaced, Removing, Leasing
  <1>7. UsedFilesStayLinked'
    <2>1. ASSUME NEW g \in held PROVE (g.name = "sem" \/ g.raced \/ dir'[g.name] = g.inode)
      <3>1. g.inode # 0
        BY <1>0 DEF ShmType, Descriptors
      <3> QED
        BY <1>0, <1>1, <3>1 DEF CleanupIsHarmless, UsedFilesStayLinked, inode, ShmType
    <2>2. dir'[n] = inode
      BY <1>0, <1>1 DEF ShmType
    <2> QED
      BY <1>1, <2>1, <2>2 DEF UsedFilesStayLinked
  <1>8. SigioHarmless' /\ StalePortsRemoved'
    BY <1>0, <1>4 DEF CleanupIsHarmless, SigioHarmless, StalePortsRemoved
  <1>9. VisitedPort'
    BY DisturbedByOthers
  <1> QED
    BY <1>3, <1>5, <1>6, <1>7, <1>8, <1>9 DEF ShmInv, CleanupIsHarmless

(* What the processes do besides, ShmUser.                                 *)
LEMMA UserStep ==
    ASSUME ShmInv, NEW p \in Processes, ShmUser(p), Disturb({})
    PROVE  ShmInv'
  <1>0. ShmType /\ GoneTogether /\ Shielded /\ RemovedIsRaced /\ VisitedPort /\ CleanupIsHarmless
    BY DEF ShmInv
  <1>1. ASSUME OpenPort(p) PROVE ShmInv'
    <2>1. CASE /\ OpenOrCreate(p, "port")
               /\ UNCHANGED <<opening, sigio, pc, old, entries, visiting, locks, ghostVars>>
      BY <2>1, OpenOrCreateStep DEF ghostVars
    <2>2. CASE /\ killed' = killed \cup BreakLeaseKills(dir["port"])
               /\ EndProcesses(BreakLeaseKills(dir["port"]),
                               [opening EXCEPT ![p] = dir["port"]], entries)
               /\ UNCHANGED <<dir, inodes, shmemCleanedUp, old, left>>
      <3>1. [opening EXCEPT ![p] = dir["port"]] \in [Processes -> Nat]
        BY <1>0 DEF ShmType, Names
      <3>2. (ShmType /\ GoneTogether /\ Shielded /\ RemovedIsRaced /\ CleanupIsHarmless)'
        BY <2>2, <3>1, KillsSeveral, EndProcessesStep
      <3>3. VisitedPort'
        BY <2>2, DisturbedByOthers DEF EndProcesses
      <3> QED
        BY <3>2, <3>3 DEF ShmInv
    <2> QED
      BY <1>1, <2>1, <2>2 DEF OpenPort
  <1>2. ASSUME OpenResumes(p) PROVE ShmInv'
    <2> USE <1>2 DEF OpenResumes, Hold, ghostVars
    <2>1. ShmType'
      <3>1. opening[p] \in Nat \ {0} /\ opening' \in [Processes -> Nat]
        BY <1>0 DEF ShmType
      <3>2. [process |-> p, name |-> "port", inode |-> opening[p], raced |-> TRUE]
              \in Descriptors
        BY <3>1 DEF Descriptors
      <3> QED
        BY <1>0, <3>1, <3>2 DEF ShmType, OnlyPorts, Leasing
    <2>2. \A q : SeveralCleaned(q)' <=> SeveralCleaned(q)
      BY DEF SeveralCleaned, Cleaned
    <2>3. GoneTogether' /\ Shielded'
      BY <1>0, <2>2 DEF GoneTogether, Shielded, ShieldedAt
    <2>4. RemovedIsRaced' /\ UsedFilesStayLinked'
      BY <1>0 DEF RemovedIsRaced, Removing, Leasing, CleanupIsHarmless, UsedFilesStayLinked
    <2>5. SigioHarmless' /\ StalePortsRemoved'
      BY <1>0, <2>2 DEF CleanupIsHarmless, SigioHarmless, StalePortsRemoved
    <2>6. VisitedPort'
      BY DisturbedByOthers
    <2> QED
      BY <2>1, <2>3, <2>4, <2>5, <2>6 DEF ShmInv, CleanupIsHarmless
  <1>3. ASSUME OpenPortFiles(p) PROVE ShmInv'
    BY <1>3, OpenOrCreateStep DEF OpenPortFiles, ghostVars
  <1>4. ASSUME RegisterHandler(p) PROVE ShmInv'
    <2> USE <1>4 DEF RegisterHandler, fileVars
    <2>1. ShmType'
      BY <1>0 DEF ShmType, OnlyPorts, Leasing, Dispositions
    <2>2. \A q : SeveralCleaned(q)' <=> SeveralCleaned(q)
      BY DEF SeveralCleaned, Cleaned
    <2>3. GoneTogether' /\ RemovedIsRaced' /\ UsedFilesStayLinked' /\ StalePortsRemoved'
      BY <1>0 DEF GoneTogether, RemovedIsRaced, Removing, Leasing, CleanupIsHarmless,
                  UsedFilesStayLinked, StalePortsRemoved
    <2>4. Shielded'
      BY <1>0, <2>2, ProcessesOfCleaners DEF Shielded, ShieldedAt, ShmType
    <2>5. SigioHarmless'
      BY <1>0, <2>2 DEF CleanupIsHarmless, SigioHarmless, ShmType
    <2>6. VisitedPort'
      BY DisturbedByOthers
    <2> QED
      BY <2>1, <2>3, <2>4, <2>5, <2>6 DEF ShmInv, CleanupIsHarmless
  <1> QED
    BY <1>1, <1>2, <1>3, <1>4, ExitStep DEF ShmUser

(* ShmCleanup leaves what is in use alone, does not harm its process and   *)
(* removes the ports nobody uses, for any number of threads, processes and *)
(* files.                                                                  *)
THEOREM CleanupSafe == ShmSpec => []CleanupIsHarmless
  <1>1. ShmInv /\ [ShmNext]_shmVars => ShmInv'
    <2> SUFFICES ASSUME ShmInv, [ShmNext]_shmVars PROVE ShmInv'
      OBVIOUS
    <2>1. ASSUME NEW t \in Cleaners, ShmCleanup(t), Disturb({t}) PROVE ShmInv'
      BY <2>1, TestFlagStep, ReadDispositionStep, IgnoreSigioStep, LockPortStep, PassByStep,
         RemoveStep, ReleaseLocksStep, EndDirectoryStep, RestoreSigioStep,
         CleanSemaphoresStep DEF ShmCleanup
    <2>2. CASE UNCHANGED shmVars
      <3>1. ShmType'
        BY <2>2 DEF shmVars, fileVars, ghostVars, ShmInv, ShmType, OnlyPorts, Leasing
      <3>2. \A q : SeveralCleaned(q)' <=> SeveralCleaned(q)
        BY <2>2 DEF shmVars, SeveralCleaned, Cleaned
      <3>3. (GoneTogether /\ Shielded /\ RemovedIsRaced)'
        BY <2>2, <3>2 DEF shmVars, fileVars, ghostVars, ShmInv, GoneTogether, Shielded, ShieldedAt,
                          RemovedIsRaced, Removing, Leasing
      <3>4. VisitedPort'
        BY <2>2 DEF shmVars, fileVars, ghostVars, ShmInv, VisitedPort, Stale, Present, InUse,
                    Free, LockFile, LeaseOn, Leasing
      <3>5. CleanupIsHarmless'
        BY <2>2, <3>2 DEF shmVars, fileVars, ghostVars, ShmInv, CleanupIsHarmless,
                          UsedFilesStayLinked, SigioHarmless, StalePortsRemoved
      <3> QED
        BY <3>1, <3>3, <3>4, <3>5 DEF ShmInv
    <2> QED
      BY <2>1, <2>2, UserStep DEF ShmNext
  <1>2. ShmInv => CleanupIsHarmless
    BY DEF ShmInv
  <1> QED
    BY <1>1, <1>2, ShmInitInv, PTL DEF ShmSpec
=============================================================================
