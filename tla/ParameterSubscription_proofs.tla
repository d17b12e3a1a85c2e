--------------------- MODULE ParameterSubscription_proofs ---------------------
(***************************************************************************)
(* Proofs about ParameterSubscription for every set of publishers and      *)
(* every number of values: the connection flag is sound, no callback runs  *)
(* without its members, and values arrive in order.                        *)
(*                                                                         *)
(* For the order, PipelineInOrder follows the values of a publisher from   *)
(* its history over the wire and the reader's cache to the receiver thread *)
(* and m_lastReceived: nearer to the callback is older.  A match would     *)
(* send an old value again; UnmatchedIsNew says that a publisher that can  *)
(* still be matched has nothing in the pipeline.                           *)
(***************************************************************************)
EXTENDS ParameterSubscription, TLAPS

(* The number of p's value in a sample, 0 when it holds none. *)
ValueIn(sample, p) == IF sample.pub = p /\ sample.n # Disposed THEN sample.n ELSE 0

Received(p) == ValueIn(m_lastReceived.sample, p)
Taken(p)    == ValueIn(taken, p)
Cached(p)   == ValueIn(cache, p)
InFlight(p) == IF inflight[p] # Disposed THEN inflight[p] ELSE 0

Before(older, newer) == newer # 0 => older < newer

(* Destruction and the callbacks in progress. *)
LifeInOrder ==
    /\ members <=> reader # "gone"
    /\ reader = "gone" => dpc = "idle" /\ mpc = "idle"

(* A departure that is being reported was counted. *)
DisconnectsCounted ==
    /\ mpc = "idle" /\ m_matched => connected # {}
    /\ disconnects + (IF mpc = "disconnect" THEN 1 ELSE 0) <= departures

InOrder(p) ==
    /\ Before(Received(p), Taken(p)) /\ Before(Received(p), Cached(p))
    /\ Before(Received(p), InFlight(p)) /\ Before(Taken(p), Cached(p))
    /\ Before(Taken(p), InFlight(p)) /\ Before(Cached(p), InFlight(p))
    /\ {history[p], Received(p), Taken(p), Cached(p), InFlight(p)} \subseteq
          0 .. m_lastPublished[p]

PipelineInOrder == \A p \in Publishers : InOrder(p)

UnmatchedIsNew ==
    \A p \in Publishers \ matched :
        pub[p] # "gone" =>
            Received(p) = 0 /\ Taken(p) = 0 /\ Cached(p) = 0 /\ InFlight(p) = 0

SubscriptionInv ==
    TypeOK /\ LifeInOrder /\ DisconnectsCounted /\ PipelineInOrder /\ UnmatchedIsNew

-----------------------------------------------------------------------------
(* Types and counts.                                                       *)

(* Every step keeps the types. *)
LEMMA TypeStep ==
    ASSUME TypeOK, Next
    PROVE  TypeOK'
<1> USE DEF writerVars, ddsVars, matchVars, dataVars, userVars
<1>1. ASSUME NEW p \in Publishers, CreateWriter(p)
      PROVE  TypeOK'
  BY <1>1 DEF CreateWriter, TypeOK
<1>2. ASSUME NEW p \in Publishers, NEW written \in BOOLEAN, Publish(p, written)
      PROVE  TypeOK'
  <2>1. m_lastPublished' \in [Publishers -> Nat]
    BY <1>2 DEF Publish, TypeOK
  <2>2. history' \in [Publishers -> Nat] /\ inflight' \in [Publishers -> {Disposed} \cup Nat]
    BY <1>2, <2>1 DEF Publish, TypeOK
  <2> QED BY <1>2, <2>1, <2>2 DEF Publish, TypeOK
<1>3. ASSUME NEW p \in Publishers, NEW disposes \in BOOLEAN, Depart(p, disposes)
      PROVE  TypeOK'
  <2>1. inflight' \in [Publishers -> {Disposed} \cup Nat]
    <3>1. inflight' = inflight \/ inflight' = [inflight EXCEPT ![p] = Disposed]
      BY <1>3 DEF Depart
    <3> QED BY <3>1 DEF TypeOK
  <2>2. pub' \in [Publishers -> {"absent", "created", "live", "gone"}]
    BY <1>3 DEF Depart, TypeOK
  <2> QED BY <1>3, <2>1, <2>2 DEF Depart, TypeOK
<1>4. ASSUME NEW p \in Publishers, Match(p)
      PROVE  TypeOK'
  <2>1. events' \in Seq([pub : Publishers, up : BOOLEAN])
    BY <1>4 DEF Match, TypeOK
  <2> QED BY <1>4, <2>1 DEF Match, TypeOK
<1>5. ASSUME NEW p \in Publishers, Receive(p)
      PROVE  TypeOK'
  <2>1. cache' \in Sample
    BY <1>5 DEF Receive, TypeOK, Sample
  <2> QED BY <1>5, <2>1 DEF Receive, TypeOK
<1>6. ASSUME NEW p \in Publishers, Unmatch(p)
      PROVE  TypeOK'
  <2>1. events' \in Seq([pub : Publishers, up : BOOLEAN])
    BY <1>6 DEF Unmatch, TypeOK
  <2> QED BY <1>6, <2>1 DEF Unmatch, TypeOK
<1>7. CASE CreateReader \/ SetDependency \/ DetachListener \/ DestroyMembers
  <2>1. /\ reader' \in {"attached", "ready", "detaching", "gone"}
        /\ members' = members \/ members' = FALSE
        /\ UNCHANGED <<pub, m_lastPublished, history, matched, inflight, cache, notify, events,
                       m_matched, connected, departures, disconnects, mpc, dpc, taken,
                       m_lastReceived, lastCall>>
    BY <1>7 DEF CreateReader, SetDependency, DetachListener, DestroyMembers
  <2>2. members' \in BOOLEAN
    BY <2>1 DEF TypeOK
  <2> QED BY <2>1, <2>2 DEF TypeOK
<1>8. CASE OnSubscriptionMatched
  <2>1. /\ Tail(events) \in Seq([pub : Publishers, up : BOOLEAN])
        /\ Head(events).pub \in Publishers
    <3> DEFINE Event == [pub : Publishers, up : BOOLEAN]
    <3>1. events \in Seq(Event) /\ events # <<>>
      BY <1>8 DEF OnSubscriptionMatched, TypeOK
    <3>2. Tail(events) \in Seq(Event) /\ Head(events) \in Event
      <4> HIDE DEF Event
      <4> QED BY <3>1
    <3> QED BY <3>2
  <2>2. /\ m_matched' \in BOOLEAN /\ connected' \subseteq Publishers
        /\ mpc' \in {"idle", "disconnect", "clear"} /\ departures' \in Nat
    <3>1. /\ m_matched' = TRUE \/ m_matched' = m_matched
          /\ connected' \subseteq connected \cup {Head(events).pub}
          /\ mpc' \in {mpc, "disconnect", "idle"} /\ departures' \in {departures, departures + 1}
      BY <1>8 DEF OnSubscriptionMatched
    <3>2. m_matched' \in BOOLEAN
      BY <3>1 DEF TypeOK
    <3>3. mpc \in {"idle", "disconnect", "clear"} /\ connected \subseteq Publishers
          /\ departures \in Nat
      BY DEF TypeOK
    <3> QED BY <2>1, <3>1, <3>2, <3>3
  <2>3. UNCHANGED <<pub, m_lastPublished, history, matched, inflight, cache, notify, reader,
                    members, disconnects, dpc, taken, m_lastReceived, lastCall>>
    BY <1>8 DEF OnSubscriptionMatched
  <2> QED BY <1>8, <2>1, <2>2, <2>3 DEF OnSubscriptionMatched, TypeOK
<1>9. CASE OnDisconnect
  <2>1. m_lastReceived' \in [sample : [pub : Publishers, n : Nat \ {0}] \cup {NoSample},
                              quality : {"none", "GOOD", "BAD"}]
    BY <1>9 DEF OnDisconnect, TypeOK
  <2>2. disconnects' \in Nat
    BY <1>9 DEF OnDisconnect, TypeOK
  <2> QED BY <1>9, <2>1, <2>2 DEF OnDisconnect, TypeOK
<1>10. CASE ClearMatched
  <2>1. /\ m_matched' = FALSE /\ mpc' = "idle"
        /\ UNCHANGED <<pub, m_lastPublished, history, matched, inflight, cache, notify, events,
                       reader, members, connected, departures, disconnects, dpc, taken,
                       m_lastReceived, lastCall>>
    BY <1>10 DEF ClearMatched
  <2>2. m_matched' \in BOOLEAN /\ mpc' \in {"idle", "disconnect", "clear"}
    BY <2>1
  <2> QED BY <2>1, <2>2 DEF TypeOK
<1>11. CASE OnDataAvailable
  <2>1. /\ notify' = FALSE /\ dpc = "idle" /\ dpc' = "take"
        /\ UNCHANGED <<pub, m_lastPublished, history, matched, inflight, cache, events, reader,
                       members, m_matched, connected, departures, disconnects, mpc, taken,
                       m_lastReceived, lastCall>>
    BY <1>11 DEF OnDataAvailable
  <2>2. notify' \in BOOLEAN /\ dpc' \in {"idle", "take", "call"}
        /\ (dpc' = "call" <=> taken' # NoSample)
    BY <2>1 DEF TypeOK
  <2> QED BY <2>1, <2>2 DEF TypeOK
<1>12. CASE TakeNextSample
  BY <1>12 DEF TakeNextSample, TypeOK
<1>13. CASE OnSubscription
  <2>1. taken \in Sample
    BY <1>13 DEF OnSubscription, TypeOK
  <2>2. taken.n # Disposed => taken \in [pub : Publishers, n : Nat \ {0}]
    BY <2>1 DEF Sample
  <2> QED BY <1>13, <2>2 DEF OnSubscription, TypeOK
<1> QED
  BY <1>1, <1>2, <1>3, <1>4, <1>5, <1>6, <1>7, <1>8, <1>9, <1>10, <1>11, <1>12, <1>13 DEF Next

(* Callbacks start only while the listener is attached, and the members go *)
(* only when none is in progress.                                          *)
LEMMA LifeStep ==
    ASSUME TypeOK, LifeInOrder, Next
    PROVE  LifeInOrder'
<1> USE DEF LifeInOrder, writerVars, ddsVars, matchVars, dataVars, userVars
<1>1. CASE UNCHANGED <<reader, members, dpc, mpc>>
  BY <1>1
<1>2. CASE CreateReader \/ SetDependency \/ DetachListener \/ DestroyMembers
  BY <1>2 DEF CreateReader, SetDependency, DetachListener, DestroyMembers
<1>3. CASE OnSubscriptionMatched \/ OnDisconnect \/ ClearMatched
  BY <1>3 DEF OnSubscriptionMatched, OnDisconnect, ClearMatched, ReaderExists
<1>4. CASE OnDataAvailable \/ TakeNextSample \/ OnSubscription
  BY <1>4 DEF OnDataAvailable, TakeNextSample, OnSubscription, ReaderExists
<1> QED
  BY <1>1, <1>2, <1>3, <1>4 DEF Next, CreateWriter, Publish, Depart, Match, Receive, Unmatch

(* A disconnect is invoked for a departure that was counted, and the flag  *)
(* is set only by a match that no departure has followed.                  *)
LEMMA DisconnectsStep ==
    ASSUME TypeOK, DisconnectsCounted, Next
    PROVE  DisconnectsCounted'
<1> USE DEF DisconnectsCounted, writerVars, ddsVars, matchVars, dataVars, userVars
<1>1. CASE UNCHANGED matchVars
  BY <1>1
<1>2. CASE OnSubscriptionMatched
  <2>1. mpc = "idle" /\ departures \in Nat /\ disconnects \in Nat /\ disconnects' = disconnects
    BY <1>2 DEF OnSubscriptionMatched, TypeOK
  <2>2. CASE /\ m_matched' = TRUE /\ connected' = connected \cup {Head(events).pub}
             /\ mpc' = mpc /\ departures' = departures
    BY <2>1, <2>2
  <2>3. CASE /\ mpc' = IF m_matched THEN "disconnect" ELSE "idle"
             /\ departures' = departures + 1 /\ m_matched' = m_matched
    BY <2>1, <2>3
  <2> QED BY <1>2, <2>2, <2>3 DEF OnSubscriptionMatched
<1>3. CASE OnDisconnect
  BY <1>3 DEF OnDisconnect, TypeOK
<1>4. CASE ClearMatched
  BY <1>4 DEF ClearMatched, TypeOK
<1> QED
  BY <1>1, <1>2, <1>3, <1>4 DEF Next, CreateWriter, Publish, Depart, Match, Receive, Unmatch,
       CreateReader, SetDependency, DetachListener, DestroyMembers, OnDataAvailable,
       TakeNextSample, OnSubscription

-----------------------------------------------------------------------------
(* The pipeline.                                                           *)

Pipeline == PipelineInOrder /\ UnmatchedIsNew

(* What the numbers along the pipeline are. *)
LEMMA PipelineType ==
    ASSUME TypeOK, NEW p \in Publishers
    PROVE  /\ Received(p) \in Nat /\ Taken(p) \in Nat /\ Cached(p) \in Nat
           /\ InFlight(p) \in Nat /\ m_lastPublished[p] \in Nat /\ history[p] \in Nat
<1>1. \A x \in Sample \cup {NoSample} : ValueIn(x, p) \in Nat
  BY DEF Sample, NoSample, ValueIn, Disposed
<1>2. m_lastReceived.sample \in Sample \cup {NoSample}
  BY DEF TypeOK, Sample
<1>3. Received(p) \in Nat /\ Taken(p) \in Nat /\ Cached(p) \in Nat
  BY <1>1, <1>2 DEF TypeOK, Received, Taken, Cached
<1> QED BY <1>3 DEF TypeOK, InFlight, Disposed

(* A step that leaves the pipeline alone, and does not bring back a        *)
(* publisher.                                                              *)
LEMMA PipelineIdle ==
    ASSUME Pipeline,
           UNCHANGED <<m_lastPublished, history, inflight, cache, taken, m_lastReceived.sample>>,
           \A p \in Publishers : p \notin matched' /\ pub'[p] # "gone" =>
               p \notin matched /\ pub[p] # "gone"
    PROVE  Pipeline'
<1>1. \A p \in Publishers : /\ Received(p)' = Received(p) /\ Taken(p)' = Taken(p)
                           /\ Cached(p)' = Cached(p) /\ InFlight(p)' = InFlight(p)
  BY DEF Received, Taken, Cached, InFlight
<1> QED BY <1>1 DEF Pipeline, PipelineInOrder, UnmatchedIsNew, InOrder

(* A new value is newer than all of the publisher's values on their way. *)
LEMMA PublishStep ==
    ASSUME TypeOK, Pipeline, NEW p \in Publishers, NEW written \in BOOLEAN, Publish(p, written)
    PROVE  Pipeline'
<1> SUFFICES ASSUME NEW q \in Publishers
             PROVE  /\ InOrder(q)'
                    /\ q \notin matched' /\ pub'[q] # "gone" =>
                          Received(q)' = 0 /\ Taken(q)' = 0 /\ Cached(q)' = 0 /\ InFlight(q)' = 0
  BY DEF Pipeline, PipelineInOrder, UnmatchedIsNew
<1>1. Received(q)' = Received(q) /\ Taken(q)' = Taken(q) /\ Cached(q)' = Cached(q)
  BY DEF Publish, userVars, dataVars, Received, Taken, Cached
<1>2. matched' = matched /\ (pub'[q] # "gone" => pub[q] # "gone")
  BY DEF Publish, TypeOK
<1>3. \/ /\ m_lastPublished'[q] = m_lastPublished[q]
         /\ history'[q] = history[q] /\ InFlight(q)' = InFlight(q)
      \/ /\ m_lastPublished'[q] = m_lastPublished[q] + 1
         /\ history'[q] \in {history[q], m_lastPublished'[q]}
         /\ \/ InFlight(q)' = InFlight(q)
            \/ InFlight(q)' = m_lastPublished'[q] /\ q \in matched
  BY DEF Publish, TypeOK, InFlight, Disposed
<1> QED BY <1>1, <1>2, <1>3, PipelineType DEF Pipeline, PipelineInOrder, UnmatchedIsNew, InOrder,
     Before

(* A departing publisher sends no value any more. *)
LEMMA DepartStep ==
    ASSUME TypeOK, Pipeline, NEW p \in Publishers, NEW disposes \in BOOLEAN, Depart(p, disposes)
    PROVE  Pipeline'
<1>1. \A q \in Publishers : /\ Received(q)' = Received(q) /\ Taken(q)' = Taken(q)
                           /\ Cached(q)' = Cached(q) /\ InFlight(q)' \in {InFlight(q), 0}
  BY DEF Depart, userVars, dataVars, TypeOK, Received, Taken, Cached, InFlight
<1>2. /\ UNCHANGED <<m_lastPublished, history, matched>>
      /\ \A q \in Publishers : pub'[q] # "gone" => pub[q] # "gone"
  BY DEF Depart, TypeOK
<1> QED BY <1>1, <1>2, PipelineType DEF Pipeline, PipelineInOrder, UnmatchedIsNew, InOrder,
     Before

(* A match sends the kept value of a publisher that has sent nothing yet. *)
LEMMA MatchStep ==
    ASSUME TypeOK, Pipeline, NEW p \in Publishers, Match(p)
    PROVE  Pipeline'
<1>1. \A q \in Publishers : /\ Received(q)' = Received(q) /\ Taken(q)' = Taken(q)
                           /\ Cached(q)' = Cached(q)
                           /\ InFlight(q)' = IF q = p THEN history[q] ELSE InFlight(q)
  BY DEF Match, userVars, dataVars, TypeOK, Received, Taken, Cached, InFlight, Disposed
<1>2. /\ p \notin matched /\ pub[p] # "gone" /\ matched' = matched \cup {p}
      /\ UNCHANGED <<m_lastPublished, history, pub>>
  BY DEF Match, writerVars, TypeOK
<1>3. \A q \in Publishers : q = p => Received(q) = 0 /\ Taken(q) = 0 /\ Cached(q) = 0
  BY <1>2 DEF Pipeline, UnmatchedIsNew
<1>4. PipelineInOrder'
  BY <1>1, <1>2, <1>3, PipelineType DEF Pipeline, PipelineInOrder, InOrder, Before
<1>5. UnmatchedIsNew'
  BY <1>1, <1>2 DEF Pipeline, UnmatchedIsNew
<1> QED BY <1>4, <1>5 DEF Pipeline

(* The value on the wire moves to the cache. *)
LEMMA ReceiveStep ==
    ASSUME TypeOK, Pipeline, NEW p \in Publishers, Receive(p)
    PROVE  Pipeline'
<1>1. \A q \in Publishers : /\ Received(q)' = Received(q) /\ Taken(q)' = Taken(q)
                           /\ \/ Cached(q)' = InFlight(q) /\ InFlight(q)' = 0
                              \/ Cached(q)' = 0 /\ InFlight(q)' = InFlight(q)
  <2> SUFFICES ASSUME NEW q \in Publishers
               PROVE  /\ Received(q)' = Received(q) /\ Taken(q)' = Taken(q)
                      /\ \/ Cached(q)' = InFlight(q) /\ InFlight(q)' = 0
                         \/ Cached(q)' = 0 /\ InFlight(q)' = InFlight(q)
    OBVIOUS
  <2>1. Received(q)' = Received(q) /\ Taken(q)' = Taken(q)
    BY DEF Receive, userVars, dataVars, Received, Taken
  <2>2. /\ cache' = [pub |-> p, n |-> inflight[p]]
        /\ inflight' = [inflight EXCEPT ![p] = 0]
        /\ inflight \in [Publishers -> {Disposed} \cup Nat]
    BY DEF Receive, TypeOK
  <2>3. CASE q = p
    <3>1. cache'.pub = q /\ cache'.n = inflight[q] /\ inflight'[q] = 0
      BY <2>2, <2>3
    <3> QED BY <2>1, <3>1 DEF Cached, ValueIn, InFlight, Disposed
  <2>4. CASE q # p
    <3>1. cache'.pub # q /\ inflight'[q] = inflight[q]
      BY <2>2, <2>4
    <3> QED BY <2>1, <3>1 DEF Cached, ValueIn, InFlight, Disposed
  <2> QED BY <2>3, <2>4
<1>2. UNCHANGED <<m_lastPublished, history, pub, matched>>
  BY DEF Receive, writerVars
<1>3. PipelineInOrder'
  BY <1>1, <1>2, PipelineType DEF Pipeline, PipelineInOrder, InOrder, Before
<1>4. UnmatchedIsNew'
  BY <1>1, <1>2 DEF Pipeline, UnmatchedIsNew
<1> QED BY <1>3, <1>4 DEF Pipeline

(* What is on the wire of a publisher that left is dropped. *)
LEMMA UnmatchStep ==
    ASSUME TypeOK, Pipeline, NEW p \in Publishers, Unmatch(p)
    PROVE  Pipeline'
<1>1. \A q \in Publishers : /\ Received(q)' = Received(q) /\ Taken(q)' = Taken(q)
                           /\ Cached(q)' = Cached(q) /\ InFlight(q)' \in {InFlight(q), 0}
  BY DEF Unmatch, userVars, dataVars, TypeOK, Received, Taken, Cached, InFlight, Disposed
<1>2. /\ UNCHANGED <<m_lastPublished, history, pub>> /\ pub[p] = "gone"
      /\ matched' = matched \ {p}
  BY DEF Unmatch, writerVars
<1> QED BY <1>1, <1>2, PipelineType DEF Pipeline, PipelineInOrder, UnmatchedIsNew, InOrder,
     Before

(* The value in the cache moves to the receiver thread. *)
LEMMA TakeStep ==
    ASSUME TypeOK, Pipeline, TakeNextSample
    PROVE  Pipeline'
<1>1. CASE UNCHANGED <<taken, cache>>
  BY <1>1, PipelineIdle DEF TakeNextSample, writerVars, userVars
<1>2. CASE taken' = cache /\ cache' = NoSample
  <2>1. \A q \in Publishers : /\ Received(q)' = Received(q) /\ Taken(q)' = Cached(q)
                             /\ Cached(q)' = 0 /\ InFlight(q)' = InFlight(q)
    BY <1>2, SubscriptionAssumption DEF TakeNextSample, userVars, Received, Taken, Cached, InFlight,
       ValueIn, NoSample
  <2>2. UNCHANGED <<m_lastPublished, history, pub, matched>>
    BY DEF TakeNextSample, writerVars
  <2> QED BY <2>1, <2>2, PipelineType DEF Pipeline, PipelineInOrder, UnmatchedIsNew, InOrder,
     Before
<1> QED BY <1>1, <1>2 DEF TakeNextSample

(* The value with the receiver thread becomes m_lastReceived. *)
LEMMA CallStep ==
    ASSUME TypeOK, Pipeline, OnSubscription
    PROVE  Pipeline'
<1>1. /\ UNCHANGED <<m_lastPublished, history, pub, matched, inflight, cache>>
      /\ taken' = NoSample /\ taken \in Sample
  BY DEF OnSubscription, writerVars, ddsVars, TypeOK
<1>2. \A q \in Publishers : /\ Cached(q)' = Cached(q) /\ InFlight(q)' = InFlight(q)
                           /\ Taken(q)' = 0
  BY <1>1, SubscriptionAssumption DEF Cached, InFlight, Taken, ValueIn, NoSample
<1>3. CASE taken.n = Disposed
  <2>1. \A q \in Publishers : Received(q)' = Received(q)
    BY <1>3 DEF OnSubscription, userVars, Received
  <2> QED BY <1>1, <1>2, <2>1, PipelineType DEF Pipeline, PipelineInOrder, UnmatchedIsNew, InOrder,
     Before
<1>4. CASE taken.n # Disposed
  <2>1. \A q \in Publishers : Received(q)' = Taken(q)
    BY <1>4 DEF OnSubscription, Received, Taken
  <2> QED BY <1>1, <1>2, <2>1, PipelineType DEF Pipeline, PipelineInOrder, UnmatchedIsNew, InOrder,
     Before
<1> QED BY <1>3, <1>4

(* Every step keeps the pipeline in order. *)
LEMMA PipelineStep ==
    ASSUME TypeOK, Pipeline, Next
    PROVE  Pipeline'
<1>1. ASSUME NEW p \in Publishers, CreateWriter(p)
      PROVE  Pipeline'
  BY <1>1, PipelineIdle DEF CreateWriter, ddsVars, dataVars, userVars, TypeOK
<1>2. CASE CreateReader \/ SetDependency \/ DetachListener \/ DestroyMembers
  BY <1>2, PipelineIdle DEF CreateReader, SetDependency, DetachListener, DestroyMembers,
     writerVars, ddsVars, dataVars, userVars
<1>3. CASE OnSubscriptionMatched \/ ClearMatched \/ OnDataAvailable
  BY <1>3, PipelineIdle DEF OnSubscriptionMatched, ClearMatched, OnDataAvailable,
     writerVars, ddsVars, dataVars, userVars
<1>4. CASE OnDisconnect
  <2>1. m_lastReceived'.sample = m_lastReceived.sample
    BY <1>4 DEF OnDisconnect, TypeOK
  <2> QED BY <1>4, <2>1, PipelineIdle DEF OnDisconnect, writerVars, ddsVars, dataVars
<1> QED
  BY <1>1, <1>2, <1>3, <1>4, PublishStep, DepartStep, MatchStep, ReceiveStep, UnmatchStep,
     TakeStep, CallStep DEF Next

-----------------------------------------------------------------------------
(* The theorems.                                                           *)

(* The initial state satisfies the invariant. *)
LEMMA InitSubscription == Init => SubscriptionInv
<1> SUFFICES ASSUME Init PROVE SubscriptionInv
  OBVIOUS
<1>1. TypeOK
  <2>1. events \in Seq([pub : Publishers, up : BOOLEAN])
    BY DEF Init
  <2> QED BY <2>1 DEF Init, TypeOK
<1>2. LifeInOrder /\ DisconnectsCounted
  BY DEF Init, LifeInOrder, DisconnectsCounted
<1>3. \A p \in Publishers : /\ Received(p) = 0 /\ Taken(p) = 0 /\ Cached(p) = 0
                           /\ InFlight(p) = 0 /\ history[p] = 0 /\ m_lastPublished[p] = 0
  BY SubscriptionAssumption DEF Init, Received, Taken, Cached, InFlight, ValueIn, NoSample, Disposed
<1>4. PipelineInOrder /\ UnmatchedIsNew
  BY <1>3 DEF PipelineInOrder, UnmatchedIsNew, InOrder, Before
<1> QED BY <1>1, <1>2, <1>4 DEF SubscriptionInv

(* Every step preserves the invariant. *)
LEMMA NextSubscription == SubscriptionInv /\ [Next]_vars => SubscriptionInv'
<1> SUFFICES ASSUME SubscriptionInv, [Next]_vars PROVE SubscriptionInv'
  OBVIOUS
<1>1. CASE Next
  BY <1>1, TypeStep, LifeStep, DisconnectsStep, PipelineStep DEF SubscriptionInv, Pipeline
<1>2. CASE UNCHANGED vars
  <2>1. Pipeline'
    BY <1>2, PipelineIdle DEF SubscriptionInv, Pipeline, vars, writerVars, ddsVars, dataVars,
       userVars
  <2> QED BY <1>2, <2>1 DEF SubscriptionInv, Pipeline, TypeOK, LifeInOrder, DisconnectsCounted,
     vars, writerVars, ddsVars, matchVars, dataVars, userVars
<1> QED BY <1>1, <1>2

(* The strengthened invariant holds in every reachable state of the        *)
(* publishers and the subscriber.                                          *)
THEOREM SubscriptionInvariant == Spec => []SubscriptionInv
BY InitSubscription, NextSubscription, PTL DEF Spec

(* ConnectedToPublisher never claims a connection when every reported      *)
(* publisher has left, on_disconnect is never invoked more often than      *)
(* publishers left, and no callback runs without its members: for any      *)
(* number of publishers whose lives overlap in any way.                    *)
THEOREM SubscriptionConsistency == Spec => []SubscriptionConsistent
<1>1. SubscriptionInv => SubscriptionConsistent
  BY DEF SubscriptionInv, SubscriptionConsistent, MatchedFlagSound, CallbackFindsMembers, TypeOK,
         LifeInOrder, DisconnectsCounted
<1> QED BY <1>1, SubscriptionInvariant, PTL

(* The values of one publisher reach the subscription callback in the      *)
(* order in which they were published and none of them twice, although     *)
(* one may be replaced on the wire and in the cache.                       *)
THEOREM SubscriptionOrder == Spec => ValuesInOrder
<1> DEFINE Newer == dpc = "call" /\ dpc' = "take" /\ taken.n # Disposed
                      /\ m_lastReceived'.sample.pub = m_lastReceived.sample.pub
                    => m_lastReceived'.sample.n > m_lastReceived.sample.n
<1>1. SubscriptionInv /\ [Next]_vars => [Newer]_vars
  <2> SUFFICES ASSUME SubscriptionInv, Next, dpc = "call", dpc' = "take", taken.n # Disposed,
                      m_lastReceived'.sample.pub = m_lastReceived.sample.pub
               PROVE  m_lastReceived'.sample.n > m_lastReceived.sample.n
    OBVIOUS
  <2>1. OnSubscription
    BY DEF Next, CreateWriter, Publish, Depart, Match, Receive, Unmatch, CreateReader,
         SetDependency, DetachListener, DestroyMembers, OnSubscriptionMatched, OnDisconnect,
         ClearMatched, OnDataAvailable, TakeNextSample, dataVars
  <2>2. m_lastReceived'.sample = taken /\ taken \in Sample
    BY <2>1 DEF OnSubscription, SubscriptionInv, TypeOK
  <2> DEFINE p == taken.pub
  <2>3. p \in Publishers /\ taken.n \in Nat \ {0} /\ Taken(p) = taken.n
    BY <2>2 DEF Sample, Taken, ValueIn
  <2>4. m_lastReceived.sample \in [pub : Publishers, n : Nat \ {0}]
    BY <2>2, <2>3, SubscriptionAssumption DEF SubscriptionInv, TypeOK, NoSample
  <2>5. Received(p) = m_lastReceived.sample.n
    BY <2>2, <2>4 DEF Received, ValueIn, Disposed
  <2> QED BY <2>2, <2>3, <2>4, <2>5 DEF SubscriptionInv, PipelineInOrder, InOrder, Before
<1> QED BY <1>1, SubscriptionInvariant, PTL DEF Spec, ValuesInOrder

===============================================================================
