------------------------ MODULE ParameterSubscription ------------------------
(***************************************************************************)
(* One published parameter: the PublishParameter objects (MessageWriter)   *)
(* of its publishers and one SubscribeParameter (MessageReader).           *)
(*                                                                         *)
(* Fast DDS calls the reader's listener from two threads: discovery runs   *)
(* on_subscription_matched, one event after the other, and a receiver      *)
(* thread runs on_data_available.  The application thread creates and      *)
(* destroys the SubscribeParameter.  m_mutex of SubscribeParameter makes   *)
(* each of its two lambdas, user callbacks included, one step.             *)
(*                                                                         *)
(* Fast DDS is external: reliable, transient-local, KEEP_LAST of depth 1   *)
(* on both sides (the QoS MessageParticipant sets), so a value not yet     *)
(* received is replaced by the publisher's next one, and one not yet taken *)
(* by the next one received.  A publisher's departure, by destructor or by *)
(* crash, is discovered some time later (lease).  A value is reduced to    *)
(* its publisher and its serial number there.                              *)
(***************************************************************************)
EXTENDS Integers, Sequences

CONSTANTS
    Publishers,   \* the lives of the parameter's publishers (a restart is a new one)
    MaxValues     \* publisher -> bound on the values it publishes

ASSUME SubscriptionAssumption ==
    MaxValues \in [Publishers -> Nat \ {0}] /\ "none" \notin Publishers

Disposed == -1                     \* the number of a sample without valid data
NoSample == [pub |-> "none", n |-> 0]
Sample   == [pub : Publishers, n : {Disposed} \cup (Nat \ {0})]

VARIABLES
    pub,             \* publisher -> "absent", "created", "live", "gone"
    m_lastPublished, \* publisher -> the latest value handed to Publish
    history,         \* publisher -> the sample its DataWriter keeps for late joiners
    matched,         \* external: publishers the DataReader is matched with
    inflight,        \* external: publisher -> its sample on the way to the reader
    cache,           \* external: the DataReader's one sample
    notify,          \* external: on_data_available is due
    events,          \* external: match events not yet reported to the listener
    reader,          \* "none", "attached", "ready", "detaching", "gone"
    members,         \* SubscribeParameter's other members exist
    m_matched,       \* MessageReader's flag
    mpc,             \* the discovery thread inside OnSubscriptionMatched
    dpc, taken,      \* the receiver thread inside OnDataAvailable, and its sample
    m_lastReceived,  \* SubscribeParameter's latest sample and its quality
    connected,       \* publishers the listener was told of and has not been told left
    departures,      \* how many departures the listener was told of
    disconnects,     \* how many times the user's on_disconnect was invoked
    lastCall         \* the latest user callback: "none", "data", "disconnect"

writerVars == <<pub, m_lastPublished, history>>
ddsVars    == <<matched, inflight, cache, notify, events>>
matchVars  == <<m_matched, mpc, connected, departures, disconnects>>
dataVars   == <<dpc, taken>>
userVars   == <<m_lastReceived, lastCall>>
vars == <<writerVars, ddsVars, reader, members, matchVars, dataVars, userVars>>

Init ==
    /\ pub             = [p \in Publishers |-> "absent"]
    /\ m_lastPublished = [p \in Publishers |-> 0]
    /\ history         = [p \in Publishers |-> 0]
    /\ matched         = {}
    /\ inflight        = [p \in Publishers |-> 0]
    /\ cache           = NoSample
    /\ notify          = FALSE
    /\ events          = <<>>
    /\ reader          = "none"
    /\ members         = TRUE
    /\ m_matched       = FALSE
    /\ mpc             = "idle"
    /\ dpc             = "idle"
    /\ taken           = NoSample
    /\ m_lastReceived  = [sample |-> NoSample, quality |-> "none"]
    /\ connected       = {}
    /\ departures      = 0
    /\ disconnects     = 0
    /\ lastCall        = "none"

-----------------------------------------------------------------------------
(* Publishers.                                                             *)

(* PublishParameter's constructor up to CreateWriter. *)
CreateWriter(p) ==
    /\ pub[p] = "absent"
    /\ pub' = [pub EXCEPT ![p] = "created"]
    /\ UNCHANGED <<m_lastPublished, history, ddsVars, reader, members, matchVars, dataVars,
                   userVars>>

(* Publish: the constructor's initial value or a later one.  The value is  *)
(* remembered first; written is false when it is too large or when         *)
(* DataWriter::write fails.                                                *)
Publish(p, written) ==
    /\ pub[p] \in {"created", "live"}
    /\ m_lastPublished[p] < MaxValues[p]
    /\ pub' = [pub EXCEPT ![p] = "live"]
    /\ m_lastPublished' = [m_lastPublished EXCEPT ![p] = @ + 1]
    /\ \/ /\ written
          /\ history'  = [history EXCEPT ![p] = m_lastPublished'[p]]
          /\ inflight' = IF p \in matched THEN [inflight EXCEPT ![p] = m_lastPublished'[p]]
                                          ELSE inflight
       \/ /\ ~written
          /\ UNCHANGED <<history, inflight>>
    /\ UNCHANGED <<matched, cache, notify, events, reader, members, matchVars, dataVars, userVars>>

(* ~PublishParameter resets the writer, which may send a last sample       *)
(* without data, or the process dies.                                      *)
Depart(p, disposes) ==
    /\ pub[p] = "live"
    /\ pub' = [pub EXCEPT ![p] = "gone"]
    /\ \/ /\ disposes
          /\ p \in matched
          /\ inflight' = [inflight EXCEPT ![p] = Disposed]
       \/ /\ ~disposes
          /\ UNCHANGED inflight
    /\ UNCHANGED <<m_lastPublished, history, matched, cache, notify, events, reader, members,
                   matchVars, dataVars, userVars>>

-----------------------------------------------------------------------------
(* Fast DDS.                                                               *)

ReaderExists == reader \in {"attached", "ready"}

(* Discovery matches the reader with a publisher; the transient-local      *)
(* sample of the publisher is sent to it.                                  *)
Match(p) ==
    /\ ReaderExists
    /\ pub[p] \in {"created", "live"}
    /\ p \notin matched
    /\ matched'  = matched \cup {p}
    /\ inflight' = [inflight EXCEPT ![p] = history[p]]
    /\ events'   = Append(events, [pub |-> p, up |-> TRUE])
    /\ UNCHANGED <<writerVars, cache, notify, reader, members, matchVars, dataVars, userVars>>

(* The reader receives a sample: it replaces the one not yet taken. *)
Receive(p) ==
    /\ ReaderExists
    /\ inflight[p] # 0
    /\ cache'    = [pub |-> p, n |-> inflight[p]]
    /\ notify'   = TRUE
    /\ inflight' = [inflight EXCEPT ![p] = 0]
    /\ UNCHANGED <<writerVars, matched, events, reader, members, matchVars, dataVars, userVars>>

(* Discovery notices that a publisher has left. *)
Unmatch(p) ==
    /\ ReaderExists
    /\ pub[p] = "gone"
    /\ p \in matched
    /\ matched'  = matched \ {p}
    /\ inflight' = [inflight EXCEPT ![p] = 0]
    /\ events'   = Append(events, [pub |-> p, up |-> FALSE])
    /\ UNCHANGED <<writerVars, cache, notify, reader, members, matchVars, dataVars, userVars>>

-----------------------------------------------------------------------------
(* Life of the SubscribeParameter (application thread).                    *)

(* create_datareader attaches the listener: callbacks may start. *)
CreateReader ==
    /\ reader = "none"
    /\ reader' = "attached"
    /\ UNCHANGED <<writerVars, ddsVars, members, matchVars, dataVars, userVars>>

(* The MessageReader is given its DataReaderStub. *)
SetDependency ==
    /\ reader = "attached"
    /\ reader' = "ready"
    /\ UNCHANGED <<writerVars, ddsVars, members, matchVars, dataVars, userVars>>

(* ~SubscribeParameter destroys its last member, the reader, first:        *)
(* ~DataReaderStub detaches the listener, so no callback starts any more.  *)
DetachListener ==
    /\ reader = "ready"
    /\ reader' = "detaching"
    /\ UNCHANGED <<writerVars, ddsVars, members, matchVars, dataVars, userVars>>

(* set_listener has waited for the callbacks in progress; the reader and   *)
(* then the other members go.                                              *)
DestroyMembers ==
    /\ reader = "detaching"
    /\ dpc = "idle"
    /\ mpc = "idle"
    /\ reader'  = "gone"
    /\ members' = FALSE
    /\ UNCHANGED <<writerVars, ddsVars, matchVars, dataVars, userVars>>

-----------------------------------------------------------------------------
(* OnSubscriptionMatched (discovery thread).                               *)

\* Mutant: the flag is cleared before it is tested.
ClearThenTest ==
    /\ mpc = "idle" /\ ReaderExists /\ events # <<>>
    /\ events' = Tail(events)
    /\ m_matched' = Head(events).up
    /\ connected' = IF Head(events).up THEN connected \cup {Head(events).pub}
                                       ELSE connected \ {Head(events).pub}
    /\ departures' = departures + (IF Head(events).up THEN 0 ELSE 1)
    /\ UNCHANGED <<writerVars, matched, inflight, cache, notify, reader, members, mpc,
                   disconnects, dataVars, userVars>>

(* The listener passes on whether the count of matched publishers grew.    *)
(* Only the first match and the first departure since the flag last        *)
(* changed are acted on.                                                   *)
OnSubscriptionMatched ==
    /\ mpc = "idle"
    /\ ReaderExists
    /\ events # <<>>
    /\ LET e == Head(events) IN
       \/ /\ e.up
          /\ m_matched' = TRUE
          /\ connected' = connected \cup {e.pub}
          /\ UNCHANGED <<mpc, departures>>
       \/ /\ ~e.up
          /\ mpc' = IF m_matched THEN "disconnect" ELSE "idle"
          /\ connected' = connected \ {e.pub}
          /\ departures' = departures + 1
          /\ UNCHANGED m_matched
    /\ events' = Tail(events)
    /\ UNCHANGED <<writerVars, matched, inflight, cache, notify, reader, members, disconnects,
                   dataVars, userVars>>

(* m_onDisconnect, under m_mutex: the quality turns bad, the subscription  *)
(* callbacks are called with it, then the disconnect callback.             *)
OnDisconnect ==
    /\ mpc = "disconnect"
    /\ m_lastReceived' = [m_lastReceived EXCEPT !.quality = "BAD"]
    /\ disconnects' = disconnects + 1
    /\ lastCall' = "disconnect"
    /\ mpc' = "clear"
    /\ UNCHANGED <<writerVars, ddsVars, reader, members, m_matched, connected, departures, dataVars>>

\* Mutant: m_matched is left set after a disconnect.
KeepMatched ==
    /\ mpc = "clear"
    /\ mpc' = "idle"
    /\ UNCHANGED <<writerVars, ddsVars, reader, members, m_matched, connected, departures,
                   disconnects, dataVars, userVars>>

ClearMatched ==
    /\ mpc = "clear"
    /\ m_matched' = FALSE
    /\ mpc' = "idle"
    /\ UNCHANGED <<writerVars, ddsVars, reader, members, connected, departures, disconnects,
                   dataVars, userVars>>

-----------------------------------------------------------------------------
(* OnDataAvailable (receiver thread).                                      *)

OnDataAvailable ==
    /\ dpc = "idle"
    /\ ReaderExists
    /\ notify
    /\ notify' = FALSE
    /\ dpc' = "take"
    /\ UNCHANGED <<writerVars, matched, inflight, cache, events, reader, members, matchVars, taken,
                   userVars>>

\* Mutant: read_next_sample semantics, the sample stays in the cache.
ReadNextSample ==
    /\ dpc = "take"
    /\ \/ /\ reader # "attached" /\ cache # NoSample
          /\ taken' = cache
          /\ dpc' = "call"
       \/ /\ reader = "attached" \/ cache = NoSample
          /\ dpc' = "idle"
          /\ UNCHANGED taken
    /\ UNCHANGED <<writerVars, ddsVars, reader, members, matchVars, userVars>>

\* Mutant: the notification is consumed and the loop never entered.
TakeNothing ==
    /\ dpc = "take"
    /\ dpc' = "idle"
    /\ UNCHANGED <<writerVars, ddsVars, reader, members, matchVars, taken, userVars>>

(* The loop: take the next sample, or leave when there is none.  Without a *)
(* stub nothing is taken and the loop ends as well.                        *)
TakeNextSample ==
    /\ dpc = "take"
    /\ \/ /\ reader # "attached"
          /\ cache # NoSample
          /\ taken' = cache
          /\ cache' = NoSample
          /\ dpc' = "call"
       \/ /\ reader = "attached" \/ cache = NoSample
          /\ dpc' = "idle"
          /\ UNCHANGED <<taken, cache>>
    /\ UNCHANGED <<writerVars, matched, inflight, notify, events, reader, members, matchVars,
                   userVars>>

(* m_onSubscription, under m_mutex: the sample is parsed into              *)
(* m_lastReceived and handed to the subscription callbacks.  A sample      *)
(* without valid data is skipped with a warning.                           *)
OnSubscription ==
    /\ dpc = "call"
    /\ dpc' = "take"
    /\ taken' = NoSample
    /\ \/ /\ taken.n # Disposed
          /\ m_lastReceived' = [sample |-> taken, quality |-> "GOOD"]
          /\ lastCall' = "data"
       \/ /\ taken.n = Disposed
          /\ UNCHANGED userVars
    /\ UNCHANGED <<writerVars, ddsVars, reader, members, matchVars>>

-----------------------------------------------------------------------------
Next ==
    \/ \E p \in Publishers :
          \/ CreateWriter(p)
          \/ \E written \in BOOLEAN : Publish(p, written)
          \/ \E disposes \in BOOLEAN : Depart(p, disposes)
          \/ Match(p)
          \/ Receive(p)
          \/ Unmatch(p)
    \/ CreateReader \/ SetDependency \/ DetachListener \/ DestroyMembers
    \/ OnSubscriptionMatched \/ OnDisconnect \/ ClearMatched
    \/ OnDataAvailable \/ TakeNextSample \/ OnSubscription

(* Fast DDS discovers arrivals and departures and is reliable; the         *)
(* listener's callbacks and the constructor run to their end.  Publishing, *)
(* leaving, subscribing and unsubscribing are up to the applications.      *)
Fairness ==
    /\ \A p \in Publishers : WF_vars(Match(p)) /\ WF_vars(Receive(p)) /\ WF_vars(Unmatch(p))
    /\ WF_vars(SetDependency) /\ WF_vars(DestroyMembers)
    /\ WF_vars(OnSubscriptionMatched) /\ WF_vars(OnDisconnect) /\ WF_vars(ClearMatched)
    /\ WF_vars(OnDataAvailable) /\ WF_vars(TakeNextSample) /\ WF_vars(OnSubscription)

Spec == Init /\ [][Next]_vars /\ Fairness

-----------------------------------------------------------------------------
(* The types of the publishers', Fast DDS's and the subscriber's state. *)
TypeOK ==
    /\ pub \in [Publishers -> {"absent", "created", "live", "gone"}]
    /\ m_lastPublished \in [Publishers -> Nat]
    /\ history \in [Publishers -> Nat]
    /\ matched \subseteq Publishers
    /\ inflight \in [Publishers -> {Disposed} \cup Nat]
    /\ cache \in Sample \cup {NoSample}
    /\ notify \in BOOLEAN
    /\ events \in Seq([pub : Publishers, up : BOOLEAN])
    /\ reader \in {"none", "attached", "ready", "detaching", "gone"}
    /\ members \in BOOLEAN
    /\ m_matched \in BOOLEAN
    /\ mpc \in {"idle", "disconnect", "clear"}
    /\ dpc \in {"idle", "take", "call"}
    /\ taken \in Sample \cup {NoSample}
    /\ dpc = "call" <=> taken # NoSample
    /\ m_lastReceived \in [sample : [pub : Publishers, n : Nat \ {0}] \cup {NoSample},
                           quality : {"none", "GOOD", "BAD"}]
    /\ connected \subseteq Publishers
    /\ departures \in Nat
    /\ disconnects \in Nat
    /\ lastCall \in {"none", "data", "disconnect"}

(* However the lives of several publishers overlap, ConnectedToPublisher   *)
(* never claims a connection when every publisher reported to the reader   *)
(* has left, and on_disconnect is never invoked more often than publishers *)
(* left.                                                                   *)
MatchedFlagSound ==
    /\ mpc = "idle" /\ m_matched => connected # {}
    /\ disconnects <= departures

(* While a listener callback runs, the members of the SubscribeParameter   *)
(* that it uses (m_mutex, m_lastReceived, the user's callbacks) exist.     *)
CallbackFindsMembers ==
    dpc # "idle" \/ mpc # "idle" => members

(* The values of one publisher reach the subscription callback in the      *)
(* order in which they were published, none of them twice.                 *)
ValuesInOrder ==
    [][dpc = "call" /\ dpc' = "take" /\ taken.n # Disposed
           /\ m_lastReceived'.sample.pub = m_lastReceived.sample.pub
         => m_lastReceived'.sample.n > m_lastReceived.sample.n]_vars

OnlyPublisher(p) == \A q \in Publishers \ {p} : pub[q] = "absent"

(* A value of a parameter's only publisher on its way to a subscriber that *)
(* is ready reaches the callback, or a later value does, unless the        *)
(* subscriber is destroyed or the publisher leaves first.                  *)
PublishedValueArrives ==
    \A p \in Publishers : \A n \in 1 .. MaxValues[p] :
        reader = "ready" /\ inflight[p] = n ~>
            \/ m_lastReceived.sample.pub = p /\ m_lastReceived.sample.n >= n
            \/ reader # "ready"
            \/ pub[p] = "gone"
            \/ ~OnlyPublisher(p)

(* The departure of a parameter's only publisher reaches on_disconnect,    *)
(* unless the subscriber is destroyed first.                               *)
DepartureReported ==
    \A p \in Publishers :
        reader = "ready" /\ p \in matched /\ pub[p] = "gone" ~>
            disconnects > 0 \/ reader # "ready" \/ ~OnlyPublisher(p)

(* Destroying a SubscribeParameter ends, whatever callback is running. *)
DestructorReturns == reader = "detaching" ~> reader = "gone"

(* The state is well typed, the connection flag is sound, and no callback  *)
(* runs without its members.                                               *)
SubscriptionConsistent == TypeOK /\ MatchedFlagSound /\ CallbackFindsMembers

(* The end of a publisher is reported, and that of the subscriber comes.   *)
EndsAreReached == DepartureReported /\ DestructorReturns
=============================================================================
