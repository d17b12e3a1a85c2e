--------------------------- MODULE RpcServer_proofs ---------------------------
(***************************************************************************)
(* Proofs about RpcServer for every pool, every number of requests and     *)
(* every number of repeated samples.                                       *)
(*                                                                         *)
(* ServerConsistent is not inductive: one identity can be in several       *)
(* places at once (stop() forgets what is processed, and a repeat is then  *)
(* queued beside the first request), so that a reply is justified only by  *)
(* counting.  ServerInv counts the open requests of an identity, in the    *)
(* listener's hand, in the queue and with the workers, against the samples *)
(* that were taken and the replies that were sent.                         *)
(***************************************************************************)
EXTENDS RpcServer, FiniteSetTheorems, TLAPS

(* How often x occurs in s. *)
Places(s, x) == {n \in DOMAIN s : s[n] = x}

Answering == {"callback", "deferred"}

(* The workers that owe a reply to a request with identity i. *)
Executing(i) == {w \in Workers : worker[w] \in Answering /\ current[w] = i}

InHand(i) == IF inHand = i THEN 1 ELSE 0

(* Every open request of an identity is one that was taken and has not     *)
(* been answered.                                                          *)
OpenRequestsTaken ==
    \A i \in Ids :
        /\ IsFiniteSet(Executing(i))
        /\ replies[i] + InHand(i) + Cardinality(Places(requests_, i))
              + Cardinality(Executing(i)) <= taken[i]

(* The listener holds a request just while it schedules it, and a worker   *)
(* from taking it off the queue until its identity is erased.              *)
HoldersConsistent ==
    /\ owner = "created" => listener = "none"
    /\ listener = "scheduling" <=> inHand # NoId
    /\ \A w \in Workers : worker[w] \in {"idle", "exited"} <=> current[w] = NoId

ServerInv == TypeOK /\ NoOrphanProcessing /\ HoldersConsistent /\ OpenRequestsTaken

-----------------------------------------------------------------------------
(* Counting.                                                               *)

(* A sequence holds an element in finitely many places. *)
LEMMA PlacesFinite ==
    ASSUME NEW S, NEW s \in Seq(S), NEW x
    PROVE  IsFiniteSet(Places(s, x)) /\ Cardinality(Places(s, x)) \in Nat
<1>1. IsFiniteSet(1 .. Len(s))
  BY FS_Interval
<1>2. Places(s, x) \in SUBSET (1 .. Len(s))
  BY DEF Places
<1>3. IsFiniteSet(Places(s, x))
  BY <1>1, <1>2, FS_Subset
<1> QED BY <1>3, FS_CardinalityType

(* Appending an element adds one place for it. *)
LEMMA PlacesAppend ==
    ASSUME NEW S, NEW s \in Seq(S), NEW x \in S, NEW y \in S
    PROVE  Cardinality(Places(Append(s, y), x)) =
              Cardinality(Places(s, x)) + (IF x = y THEN 1 ELSE 0)
<1>1. IsFiniteSet(Places(s, x)) /\ Cardinality(Places(s, x)) \in Nat
  BY PlacesFinite
<1>2. CASE x = y
  <2>1. Places(Append(s, y), x) = Places(s, x) \cup {Len(s) + 1} /\ Len(s) + 1 \notin Places(s, x)
    BY <1>2 DEF Places
  <2> QED BY <1>1, <1>2, <2>1, FS_AddElement
<1>3. CASE x # y
  <2>1. Places(Append(s, y), x) = Places(s, x)
    BY <1>3 DEF Places
  <2> QED BY <1>1, <1>3, <2>1
<1> QED BY <1>2, <1>3

(* Taking the head of a queue removes one place of that element. *)
LEMMA PlacesTail ==
    ASSUME NEW S, NEW s \in Seq(S), s # <<>>, NEW x
    PROVE  Cardinality(Places(s, x)) =
              Cardinality(Places(Tail(s), x)) + (IF x = Head(s) THEN 1 ELSE 0)
<1> DEFINE A == Places(Tail(s), x)
           B == Places(s, x) \ {1}
           f == [n \in A |-> n + 1]
<1>1. IsFiniteSet(A) /\ Cardinality(A) \in Nat
  <2>1. Tail(s) \in Seq(S)
    OBVIOUS
  <2> QED BY <2>1, PlacesFinite
<1>2. \A n \in A : n \in Nat /\ n + 1 \in B
  BY DEF Places
<1>3. \A n \in B : n - 1 \in A /\ (n - 1) + 1 = n
  BY DEF Places
<1>4. f \in Bijection(A, B)
  <2>1. f \in [A -> B]
    BY <1>2
  <2>2. IsInjective(f)
    BY <1>2 DEF IsInjective
  <2>3. \A n \in B : \E k \in A : f[k] = n
    BY <1>3
  <2> QED BY <2>1, <2>2, <2>3 DEF Bijection, Injection, Surjection
<1>5. Cardinality(B) = Cardinality(A) /\ IsFiniteSet(B)
  BY <1>1, <1>4, FS_Bijection DEF ExistsBijection
<1>6. IsFiniteSet(Places(s, x)) /\ Cardinality(Places(s, x)) \in Nat
  BY PlacesFinite
<1>7. 1 \in Places(s, x) <=> x = Head(s)
  BY DEF Places
<1> HIDE DEF B
<1>8. Cardinality(B) = IF x = Head(s) THEN Cardinality(Places(s, x)) - 1
                       ELSE Cardinality(Places(s, x))
  BY <1>6, <1>7, FS_RemoveElement DEF B
<1> QED BY <1>1, <1>5, <1>6, <1>8

-----------------------------------------------------------------------------
(* Each action preserves the invariant.                                    *)

(* A step that leaves the places of requests alone keeps the count. *)
LEMMA SameOpenRequests ==
    ASSUME OpenRequestsTaken, UNCHANGED <<inHand, requests_, worker, current, taken, replies>>
    PROVE  OpenRequestsTaken'
<1>1. \A i \in Ids : Executing(i)' = Executing(i) /\ InHand(i)' = InHand(i)
  BY DEF Executing, InHand
<1> QED BY <1>1 DEF OpenRequestsTaken

(* The owner never touches a request; what it does to the record of what   *)
(* is processed and to the stop flag leaves no identity behind.            *)
LEMMA OwnerStep ==
    ASSUME ServerInv, Owner
    PROVE  ServerInv'
<1> USE DEF ServerInv, serverVars, listenVars, netVars, poolVars
<1>1. UNCHANGED <<inHand, requests_, worker, current, taken, replies>>
  BY DEF Owner, Run, BeginStop, StopCancel, StopPool, StopJoinWorkers, JoinListener, DeleteStub
<1>2. /\ processing_requests_' \subseteq processing_requests_
      /\ finished_ => finished_'
  BY DEF Owner, Run, BeginStop, StopCancel, StopPool, StopJoinWorkers, JoinListener, DeleteStub
<1>3. TypeOK'
  <2>1. inbox' \in Seq(Sample)
    <3>1. inbox' = inbox \/ inbox' = <<>>
      BY DEF Owner, Run, BeginStop, StopCancel, StopPool, StopJoinWorkers, JoinListener,
             DeleteStub
    <3>2. inbox \in Seq(Sample) /\ <<>> \in Seq(Sample)
      BY DEF TypeOK
    <3> QED BY <3>1, <3>2
  <2> QED
    BY <1>1, <1>2, <2>1 DEF TypeOK, OwnerPC, ListenerPC, Owner, Run, BeginStop, StopCancel,
         StopPool, StopJoinWorkers, JoinListener, DeleteStub
<1>4. NoOrphanProcessing'
  BY <1>1, <1>2 DEF NoOrphanProcessing, Queued
<1>5. HoldersConsistent'
  BY <1>1 DEF HoldersConsistent, TypeOK, Owner, Run, BeginStop, StopCancel, StopPool,
              StopJoinWorkers, JoinListener, DeleteStub
<1>6. OpenRequestsTaken'
  BY <1>1, SameOpenRequests
<1> QED BY <1>3, <1>4, <1>5, <1>6

(* The listener waits, wakes, or loses a sample. *)
LEMMA ListenerIdleStep ==
    ASSUME ServerInv, EnterRun \/ Wake \/ TakeNothing \/ TakeFromDeparted
    PROVE  ServerInv'
<1> USE DEF ServerInv, serverVars, listenVars, netVars, poolVars
<1>1. UNCHANGED <<inHand, processing_requests_, finished_, requests_, worker, current, taken,
                  replies, owner>>
  BY DEF EnterRun, Wake, TakeNothing, TakeFromDeparted
<1>2. TypeOK'
  <2>1. inbox' \in Seq(Sample)
    <3>1. inbox' = inbox \/ (inbox # <<>> /\ inbox' = Tail(inbox))
      BY DEF EnterRun, Wake, TakeNothing, TakeFromDeparted
    <3>2. inbox \in Seq(Sample) /\ (inbox # <<>> => Tail(inbox) \in Seq(Sample))
      BY DEF TypeOK
    <3> QED BY <3>1, <3>2
  <2> QED
    BY <1>1, <2>1 DEF TypeOK, ListenerPC, EnterRun, Wake, TakeNothing, TakeFromDeparted
<1>3. NoOrphanProcessing'
  BY <1>1 DEF NoOrphanProcessing, Queued
<1>4. HoldersConsistent'
  BY <1>1 DEF HoldersConsistent, EnterRun, Wake, TakeNothing, TakeFromDeparted
<1>5. OpenRequestsTaken'
  BY <1>1, SameOpenRequests
<1> QED BY <1>2, <1>3, <1>4, <1>5

(* A refused sample is taken and answered at once. *)
LEMMA TakeAndRefuseStep ==
    ASSUME ServerInv, TakeAndRefuse
    PROVE  ServerInv'
<1> USE DEF ServerInv
<1> DEFINE i == Head(inbox).id
<1>1. i \in Ids /\ inbox' \in Seq(Sample)
  <2>1. Head(inbox) \in Sample /\ Tail(inbox) \in Seq(Sample)
    BY DEF TypeOK, TakeAndRefuse
  <2> QED BY <2>1 DEF TakeAndRefuse, Sample
<1>2. /\ processing_requests_' \subseteq processing_requests_
      /\ taken' = [taken EXCEPT ![i] = @ + 1]
      /\ replies' = [replies EXCEPT ![i] = @ + 1]
      /\ UNCHANGED <<inHand, finished_, requests_, worker, current, listener, owner, afterStop,
                     finish_condition_, gone, sent, resent>>
      /\ dataAvailable' = FALSE
  BY DEF TakeAndRefuse, serverVars, listenVars, poolVars
<1> HIDE DEF i
<1>3. TypeOK'
  <2>1. taken' \in [Ids -> Nat] /\ replies' \in [Ids -> Nat]
    BY <1>1, <1>2 DEF TypeOK
  <2> QED BY <1>1, <1>2, <2>1 DEF TypeOK
<1>4. NoOrphanProcessing'
  BY <1>2 DEF NoOrphanProcessing, Queued
<1>5. HoldersConsistent'
  BY <1>2 DEF HoldersConsistent
<1>6. OpenRequestsTaken'
  <2>1. \A j \in Ids : Executing(j)' = Executing(j) /\ InHand(j)' = InHand(j) /\ InHand(j) \in Nat
    BY <1>2 DEF Executing, InHand
  <2>2. \A j \in Ids : /\ Cardinality(Places(requests_, j)) \in Nat
                       /\ Cardinality(Executing(j)) \in Nat
    BY PlacesFinite, FS_CardinalityType DEF OpenRequestsTaken, TypeOK
  <2> QED BY <1>1, <1>2, <2>1, <2>2 DEF OpenRequestsTaken, TypeOK
<1> QED BY <1>3, <1>4, <1>5, <1>6

(* A recorded sample is taken and in the listener's hand. *)
LEMMA TakeAndRecordStep ==
    ASSUME ServerInv, TakeAndRecord
    PROVE  ServerInv'
<1> USE DEF ServerInv
<1> DEFINE i == Head(inbox).id
<1>1. i \in Ids /\ inbox' \in Seq(Sample)
  <2>1. Head(inbox) \in Sample /\ Tail(inbox) \in Seq(Sample)
    BY DEF TypeOK, TakeAndRecord
  <2> QED BY <2>1 DEF TakeAndRecord, Sample
<1>2. /\ processing_requests_' = processing_requests_ \cup {i}
      /\ taken' = [taken EXCEPT ![i] = @ + 1]
      /\ inHand' = i /\ listener' = "scheduling" /\ listener = "taking"
      /\ UNCHANGED <<replies, finished_, requests_, worker, current, owner, afterStop,
                     finish_condition_, gone, sent, resent>>
      /\ dataAvailable' = FALSE
  BY DEF TakeAndRecord, serverVars, poolVars
<1>3. inHand = NoId /\ i # NoId
  BY <1>1, <1>2 DEF HoldersConsistent, Ids, NoId
<1> HIDE DEF i
<1>4. TypeOK'
  <2>1. taken' \in [Ids -> Nat]
    BY <1>1, <1>2 DEF TypeOK
  <2> QED BY <1>1, <1>2, <2>1 DEF TypeOK, ListenerPC
<1>5. NoOrphanProcessing'
  BY <1>2, <1>3 DEF NoOrphanProcessing, Queued, TypeOK, Ids, NoId
<1>6. HoldersConsistent'
  BY <1>2, <1>3 DEF HoldersConsistent
<1>7. OpenRequestsTaken'
  <2>1. \A j \in Ids : Executing(j)' = Executing(j)
    BY <1>2 DEF Executing
  <2>2. \A j \in Ids : InHand(j) = 0 /\ InHand(j)' = IF j = i THEN 1 ELSE 0
    BY <1>2, <1>3 DEF InHand, Ids, NoId
  <2>3. \A j \in Ids : /\ Cardinality(Places(requests_, j)) \in Nat
                       /\ Cardinality(Executing(j)) \in Nat
    BY PlacesFinite, FS_CardinalityType DEF OpenRequestsTaken, TypeOK
  <2>4. \A j \in Ids : /\ taken[j] \in Nat /\ replies[j] \in Nat
                       /\ taken'[j] = taken[j] + (IF j = i THEN 1 ELSE 0)
    BY <1>1, <1>2 DEF TypeOK
  <2> QED BY <1>2, <2>1, <2>2, <2>3, <2>4 DEF OpenRequestsTaken
<1> QED BY <1>4, <1>5, <1>6, <1>7

(* The pool takes the request from the listener's hand, or drops it. *)
LEMMA ScheduleStep ==
    ASSUME ServerInv, Schedule
    PROVE  ServerInv'
<1> USE DEF ServerInv
<1>1. inHand \in Ids /\ inHand # NoId
  BY DEF HoldersConsistent, Schedule, TypeOK
<1>2. /\ inHand' = NoId /\ listener' = "taking"
      /\ requests_' = IF finished_ THEN requests_ ELSE Append(requests_, inHand)
      /\ UNCHANGED <<replies, taken, finished_, processing_requests_, worker, current, owner,
                     afterStop, finish_condition_, gone, sent, resent, inbox, dataAvailable>>
  BY DEF Schedule, serverVars, netVars
<1>3. TypeOK'
  <2>1. requests_' \in Seq(Ids)
    BY <1>1, <1>2 DEF TypeOK
  <2> QED BY <1>2, <2>1 DEF TypeOK, ListenerPC
<1>4. NoOrphanProcessing'
  <2> SUFFICES ASSUME NEW i \in processing_requests_, ~finished_
               PROVE  Queued(i)' \/ \E w \in Workers : current[w] = i
    BY <1>2 DEF NoOrphanProcessing
  <2>1. requests_ \in Seq(Ids) /\ requests_' = Append(requests_, inHand)
    BY <1>2 DEF TypeOK
  <2>2. Queued(i) \/ inHand = i => Queued(i)'
    BY <1>1, <2>1 DEF Queued
  <2> QED BY <2>2 DEF NoOrphanProcessing
<1>5. HoldersConsistent'
  BY <1>2 DEF HoldersConsistent, Schedule
<1>6. OpenRequestsTaken'
  <2> SUFFICES ASSUME NEW i \in Ids
               PROVE  /\ IsFiniteSet(Executing(i)')
                      /\ replies[i] + InHand(i)' + Cardinality(Places(requests_, i))'
                            + Cardinality(Executing(i)') <= taken[i]
    BY <1>2 DEF OpenRequestsTaken
  <2>1. Executing(i)' = Executing(i)
    BY <1>2 DEF Executing
  <2>2. InHand(i)' = 0 /\ InHand(i) = IF i = inHand THEN 1 ELSE 0
    BY <1>2 DEF InHand, Ids, NoId
  <2>3. Cardinality(Places(requests_', i)) <= Cardinality(Places(requests_, i)) + InHand(i)
    BY <1>1, <1>2, <2>2, PlacesAppend, PlacesFinite DEF TypeOK
  <2>4. /\ Cardinality(Places(requests_, i)) \in Nat /\ Cardinality(Places(requests_', i)) \in Nat
        /\ Cardinality(Executing(i)) \in Nat /\ taken[i] \in Nat /\ replies[i] \in Nat
    BY <1>3, PlacesFinite, FS_CardinalityType DEF OpenRequestsTaken, TypeOK
  <2> QED BY <2>1, <2>2, <2>3, <2>4 DEF OpenRequestsTaken
<1> QED BY <1>3, <1>4, <1>5, <1>6

(* A worker takes the oldest request off the queue. *)
LEMMA WorkerPopStep ==
    ASSUME ServerInv, NEW w \in Workers, WorkerPop(w)
    PROVE  ServerInv'
<1> USE DEF ServerInv
<1> DEFINE r == Head(requests_)
<1>1. r \in Ids /\ requests_ \in Seq(Ids) /\ requests_' = Tail(requests_) /\ requests_' \in Seq(Ids)
      /\ requests_ # <<>>
  BY DEF TypeOK, WorkerPop
<1>2. /\ worker[w] = "idle" /\ current[w] = NoId
      /\ worker' = [worker EXCEPT ![w] = "callback"] /\ current' = [current EXCEPT ![w] = r]
      /\ UNCHANGED <<replies, taken, finished_, processing_requests_, owner, listener, inHand,
                     afterStop, finish_condition_, gone, sent, resent, inbox, dataAvailable>>
  BY DEF HoldersConsistent, WorkerPop, serverVars, netVars, listenVars
<1>3. TypeOK'
  BY <1>1, <1>2 DEF TypeOK, WorkerPC
<1>4. NoOrphanProcessing'
  <2> SUFFICES ASSUME NEW i \in Ids, Queued(i) \/ \E v \in Workers : current[v] = i
               PROVE  Queued(i)' \/ \E v \in Workers : current'[v] = i
    BY <1>2 DEF NoOrphanProcessing, TypeOK
  <2>1. CASE Queued(i)
    <3>1. PICK n \in DOMAIN requests_ : requests_[n] = i
      BY <2>1 DEF Queued
    <3>2. CASE n = 1
      BY <1>1, <1>2, <3>1, <3>2 DEF TypeOK
    <3>3. CASE n # 1
      <4>1. n - 1 \in DOMAIN requests_' /\ requests_'[n - 1] = requests_[n]
        BY <1>1, <3>1, <3>3
      <4> QED BY <3>1, <4>1 DEF Queued
    <3> QED BY <3>2, <3>3
  <2>2. ASSUME NEW v \in Workers, current[v] = i
        PROVE  current'[v] = i
    BY <1>2, <2>2 DEF Ids, NoId, TypeOK
  <2> QED BY <2>1, <2>2
<1>5. HoldersConsistent'
  BY <1>1, <1>2 DEF HoldersConsistent, Ids, NoId, TypeOK
<1> HIDE DEF r
<1>6. OpenRequestsTaken'
  <2> SUFFICES ASSUME NEW i \in Ids
               PROVE  /\ IsFiniteSet(Executing(i)')
                      /\ replies[i] + InHand(i)' + Cardinality(Places(requests_, i))'
                            + Cardinality(Executing(i)') <= taken[i]
    BY <1>2 DEF OpenRequestsTaken
  <2>1. InHand(i)' = InHand(i) /\ InHand(i) \in Nat
    BY <1>2 DEF InHand
  <2>2. Cardinality(Places(requests_, i)) =
           Cardinality(Places(requests_', i)) + (IF i = r THEN 1 ELSE 0)
    BY <1>1, PlacesTail DEF r
  <2>3. /\ Cardinality(Places(requests_, i)) \in Nat /\ Cardinality(Places(requests_', i)) \in Nat
        /\ taken[i] \in Nat /\ replies[i] \in Nat
    BY <1>1, PlacesFinite DEF TypeOK
  <2>4. IsFiniteSet(Executing(i)) /\ Cardinality(Executing(i)) \in Nat
    BY FS_CardinalityType DEF OpenRequestsTaken
  <2>5. /\ w \notin Executing(i)
        /\ Executing(i)' = IF i = r THEN Executing(i) \cup {w} ELSE Executing(i)
    BY <1>1, <1>2 DEF Executing, Answering, TypeOK
  <2>6. /\ IsFiniteSet(Executing(i)')
        /\ Cardinality(Executing(i)') = Cardinality(Executing(i)) + (IF i = r THEN 1 ELSE 0)
    BY <2>4, <2>5, FS_AddElement
  <2> QED BY <2>1, <2>2, <2>3, <2>4, <2>6 DEF OpenRequestsTaken
<1> QED BY <1>3, <1>4, <1>5, <1>6

(* A worker leaves the stopped pool, or its callback defers. *)
LEMMA WorkerWaitsStep ==
    ASSUME ServerInv, NEW w \in Workers, WorkerExit(w) \/ CallbackDefers(w)
    PROVE  ServerInv'
<1> USE DEF ServerInv
<1>1. /\ UNCHANGED <<replies, taken, finished_, processing_requests_, owner, listener, inHand,
                     afterStop, finish_condition_, gone, sent, resent, inbox, dataAvailable,
                     requests_, current>>
      /\ \/ worker[w] = "idle" /\ worker' = [worker EXCEPT ![w] = "exited"]
         \/ worker[w] = "callback" /\ worker' = [worker EXCEPT ![w] = "deferred"]
  BY DEF WorkerExit, CallbackDefers, serverVars, netVars, listenVars
<1>2. TypeOK'
  BY <1>1 DEF TypeOK, WorkerPC
<1>3. NoOrphanProcessing'
  BY <1>1 DEF NoOrphanProcessing, Queued
<1>4. HoldersConsistent'
  BY <1>1 DEF HoldersConsistent, TypeOK
<1>5. OpenRequestsTaken'
  <2>1. \A i \in Ids : Executing(i)' = Executing(i) /\ InHand(i)' = InHand(i)
    BY <1>1 DEF Executing, InHand, Answering, TypeOK
  <2> QED BY <1>1, <2>1 DEF OpenRequestsTaken
<1> QED BY <1>2, <1>3, <1>4, <1>5

(* A worker answers the request it executes. *)
LEMMA SendReplyStep ==
    ASSUME ServerInv, NEW w \in Workers, SendReply(w)
    PROVE  ServerInv'
<1> USE DEF ServerInv
<1> DEFINE r == current[w]
<1>1. /\ UNCHANGED <<taken, finished_, processing_requests_, owner, listener, inHand,
                     afterStop, finish_condition_, gone, sent, resent, inbox, dataAvailable,
                     requests_, current>>
      /\ worker[w] \in Answering /\ worker' = [worker EXCEPT ![w] = "replied"]
      /\ replies' = [replies EXCEPT ![r] = @ + 1]
  BY DEF SendReply, serverVars, netVars, listenVars, Answering
<1>2. r \in Ids
  BY <1>1 DEF HoldersConsistent, TypeOK, Answering
<1>3. TypeOK'
  <2>1. replies' \in [Ids -> Nat]
    BY <1>1, <1>2 DEF TypeOK
  <2> QED BY <1>1, <2>1 DEF TypeOK, WorkerPC
<1>4. NoOrphanProcessing'
  BY <1>1 DEF NoOrphanProcessing, Queued
<1>5. HoldersConsistent'
  BY <1>1 DEF HoldersConsistent, TypeOK, Answering
<1>6. OpenRequestsTaken'
  <2> SUFFICES ASSUME NEW i \in Ids
               PROVE  /\ IsFiniteSet(Executing(i)')
                      /\ replies'[i] + InHand(i)' + Cardinality(Places(requests_, i))
                            + Cardinality(Executing(i)') <= taken[i]
    BY <1>1 DEF OpenRequestsTaken
  <2>1. InHand(i)' = InHand(i) /\ InHand(i) \in Nat
    BY <1>1 DEF InHand
  <2>2. /\ Cardinality(Places(requests_, i)) \in Nat /\ taken[i] \in Nat /\ replies[i] \in Nat
        /\ replies'[i] = replies[i] + (IF i = r THEN 1 ELSE 0)
    BY <1>1, <1>2, PlacesFinite DEF TypeOK
  <2>3. IsFiniteSet(Executing(i)) /\ Cardinality(Executing(i)) \in Nat
    BY FS_CardinalityType DEF OpenRequestsTaken
  <2>4. Executing(i)' = Executing(i) \ {w} /\ (w \in Executing(i) <=> i = r)
    BY <1>1 DEF Executing, Answering, TypeOK
  <2>5. /\ IsFiniteSet(Executing(i)')
        /\ Cardinality(Executing(i)') = Cardinality(Executing(i)) - (IF i = r THEN 1 ELSE 0)
    BY <2>3, <2>4, FS_RemoveElement
  <2> QED BY <2>1, <2>2, <2>3, <2>5 DEF OpenRequestsTaken
<1> QED BY <1>3, <1>4, <1>5, <1>6

(* A worker erases the identity it has answered and forgets the request. *)
LEMMA EraseProcessedStep ==
    ASSUME ServerInv, NEW w \in Workers, EraseProcessed(w)
    PROVE  ServerInv'
<1> USE DEF ServerInv
<1>1. /\ UNCHANGED <<taken, replies, finished_, owner, listener, inHand, afterStop,
                     finish_condition_, gone, sent, resent, inbox, dataAvailable, requests_>>
      /\ worker[w] = "replied" /\ worker' = [worker EXCEPT ![w] = "idle"]
      /\ current' = [current EXCEPT ![w] = NoId]
      /\ processing_requests_' = processing_requests_ \ {current[w]}
  BY DEF EraseProcessed, serverVars, netVars, listenVars
<1>2. TypeOK'
  BY <1>1 DEF TypeOK, WorkerPC
<1>3. NoOrphanProcessing'
  BY <1>1 DEF NoOrphanProcessing, Queued, TypeOK
<1>4. HoldersConsistent'
  BY <1>1 DEF HoldersConsistent, TypeOK
<1>5. OpenRequestsTaken'
  <2>1. \A i \in Ids : Executing(i)' = Executing(i) /\ InHand(i)' = InHand(i)
    BY <1>1 DEF Executing, InHand, Answering, TypeOK
  <2> QED BY <1>1, <2>1 DEF OpenRequestsTaken
<1> QED BY <1>2, <1>3, <1>4, <1>5

(* Clients come, repeat themselves and go. *)
LEMMA NetworkStep ==
    ASSUME ServerInv, Network
    PROVE  ServerInv'
<1> USE DEF ServerInv
<1>1. UNCHANGED <<owner, afterStop, finish_condition_, listener, inHand, processing_requests_,
                  requests_, finished_, worker, current, taken, replies>>
  BY DEF Network, Arrive, ArriveAgain, ClientLeaves, serverVars, listenVars, poolVars
<1>2. TypeOK'
  <2>1. ASSUME NEW kind \in Kinds, Arrive(kind)
        PROVE  TypeOK'
    <3>1. sent' \in 0 .. MaxRequests /\ sent' \in Ids
      BY <2>1, RpcServerAssumption DEF TypeOK, Arrive, Ids
    <3>2. inbox' \in Seq(Sample)
      <4>1. [id |-> sent', kind |-> kind] \in Sample
        BY <3>1 DEF Sample
      <4> QED BY <4>1, <2>1 DEF TypeOK, Arrive
    <3> QED BY <1>1, <2>1, <3>1, <3>2 DEF TypeOK, Arrive
  <2>2. ASSUME NEW i \in Ids, ArriveAgain(i)
        PROVE  TypeOK'
    <3>1. resent' \in 0 .. MaxResends
      BY <2>2, RpcServerAssumption DEF TypeOK, ArriveAgain
    <3>2. inbox' \in Seq(Sample)
      <4>1. [id |-> i, kind |-> "valid"] \in Sample
        BY DEF Sample, Kinds
      <4> QED BY <4>1, <2>2 DEF TypeOK, ArriveAgain
    <3> QED BY <1>1, <2>2, <3>1, <3>2 DEF TypeOK, ArriveAgain
  <2>3. ASSUME NEW i \in Ids, ClientLeaves(i)
        PROVE  TypeOK'
    BY <1>1, <2>3 DEF TypeOK, ClientLeaves
  <2> QED BY <2>1, <2>2, <2>3 DEF Network
<1>3. NoOrphanProcessing'
  BY <1>1 DEF NoOrphanProcessing, Queued
<1>4. HoldersConsistent'
  BY <1>1 DEF HoldersConsistent
<1>5. OpenRequestsTaken'
  BY <1>1, SameOpenRequests
<1> QED BY <1>2, <1>3, <1>4, <1>5

-----------------------------------------------------------------------------
(* The theorem.                                                            *)

(* The initial state satisfies the invariant. *)
LEMMA InitServer == Init => ServerInv
<1> SUFFICES ASSUME Init PROVE ServerInv
  OBVIOUS
<1>1. TypeOK
  <2>1. inbox \in Seq(Sample) /\ requests_ \in Seq(Ids)
    BY DEF Init
  <2>2. sent \in 0 .. MaxRequests /\ resent \in 0 .. MaxResends
    BY RpcServerAssumption DEF Init
  <2> QED BY <2>1, <2>2 DEF Init, TypeOK, OwnerPC, ListenerPC, WorkerPC, NoId
<1>2. NoOrphanProcessing /\ HoldersConsistent
  BY DEF Init, NoOrphanProcessing, HoldersConsistent
<1>3. OpenRequestsTaken
  <2> SUFFICES ASSUME NEW i \in Ids
               PROVE  /\ IsFiniteSet(Executing(i))
                      /\ replies[i] + InHand(i) + Cardinality(Places(requests_, i))
                            + Cardinality(Executing(i)) <= taken[i]
    BY DEF OpenRequestsTaken
  <2>1. Executing(i) = {} /\ Places(requests_, i) = {}
    BY DEF Init, Executing, Answering, Places
  <2>2. InHand(i) = 0 /\ replies[i] = 0 /\ taken[i] = 0
    BY DEF Init, InHand, Ids, NoId
  <2> QED BY <2>1, <2>2, FS_EmptySet
<1> QED BY <1>1, <1>2, <1>3 DEF ServerInv

(* Every step preserves the invariant. *)
LEMMA NextServer == ServerInv /\ [Next]_vars => ServerInv'
<1> SUFFICES ASSUME ServerInv, [Next]_vars PROVE ServerInv'
  OBVIOUS
<1>1. CASE Owner
  BY <1>1, OwnerStep
<1>2. CASE Listener
  BY <1>2, ListenerIdleStep, TakeAndRefuseStep, TakeAndRecordStep, ScheduleStep DEF Listener
<1>3. CASE \E w \in Workers : Worker(w)
  BY <1>3, WorkerPopStep, WorkerWaitsStep, SendReplyStep, EraseProcessedStep DEF Worker
<1>4. CASE Network
  BY <1>4, NetworkStep
<1>5. CASE UNCHANGED vars
  <2>1. OpenRequestsTaken'
    BY <1>5, SameOpenRequests DEF ServerInv, vars, listenVars, poolVars
  <2> QED BY <1>5, <2>1 DEF ServerInv, vars, serverVars, listenVars, netVars, poolVars, TypeOK,
                NoOrphanProcessing, Queued, HoldersConsistent
<1> QED BY <1>1, <1>2, <1>3, <1>4, <1>5 DEF Next

(* The strengthened invariant holds in every reachable state of the server. *)
THEOREM ServerInvariant == Spec => []ServerInv
BY InitServer, NextServer, PTL DEF Spec

(* No sample is answered twice and no identity is left behind, for any     *)
(* number of workers and requests, whenever the owner stops the server and *)
(* however often a client repeats an identity.                             *)
THEOREM ServerConsistency == Spec => []ServerConsistent
<1>1. ServerInv => ServerConsistent
  <2> SUFFICES ASSUME ServerInv, NEW i \in Ids PROVE replies[i] <= taken[i]
    BY DEF ServerInv, ServerConsistent, RepliesMatchTaken
  <2>1. Cardinality(Places(requests_, i)) \in Nat
    BY PlacesFinite DEF ServerInv, TypeOK
  <2>2. Cardinality(Executing(i)) \in Nat
    BY FS_CardinalityType DEF ServerInv, OpenRequestsTaken
  <2>3. InHand(i) \in Nat /\ replies[i] \in Nat /\ taken[i] \in Nat
    BY DEF ServerInv, TypeOK, InHand
  <2> QED BY <2>1, <2>2, <2>3 DEF ServerInv, OpenRequestsTaken
<1> QED BY <1>1, ServerInvariant, PTL

=============================================================================
