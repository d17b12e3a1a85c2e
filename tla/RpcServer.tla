------------------------------ MODULE RpcServer ------------------------------
(***************************************************************************)
(* The DDS-RPC server: Server (lib/framework/dds/server/MiddlewareServer), *)
(* its stub (ServerRpcStub) and the server logic generated from the        *)
(* Requests interface (idl/topics/requests/requestsServer.cxx).            *)
(*                                                                         *)
(* Three kinds of threads meet here: the owner, which calls Run, Stop and  *)
(* the destructor; the listener, the jthread in which run() takes requests *)
(* from the replier; and the workers of the thread pool, which execute     *)
(* them.  Locks make each critical section one step.  What a worker does   *)
(* inside the handler is module ServerRequestHandler; here it runs the     *)
(* callback, may defer, and ends with one reply.                           *)
(***************************************************************************)
EXTENDS Integers, Sequences

CONSTANTS
    Workers,      \* the threads of the pool (at least one)
    MaxRequests,  \* bound on the requests that clients send
    MaxResends    \* bound on samples that repeat an earlier request's identity

ASSUME RpcServerAssumption ==
    Workers # {} /\ MaxRequests \in Nat /\ MaxResends \in Nat

Ids   == 1 .. MaxRequests
NoId  == 0
Kinds == {"valid", "invalid"}        \* validate_request: exactly one operation set
Sample == [id : Ids, kind : Kinds]

VARIABLES
    owner,               \* the owner's progress through Run, Stop and ~Server
    afterStop,           \* where the owner goes when the current stop() returns
    finish_condition_,   \* the guard condition that ends run()
    listener,            \* the listener thread's progress through run()
    inHand,              \* the request the listener is about to schedule
    inbox,               \* samples in the replier's reader, oldest first
    dataAvailable,       \* the reader's status condition (external)
    gone,                \* requests whose client has left the network
    processing_requests_,\* identities being processed
    requests_,           \* the pool's queue
    finished_,           \* the pool's stop flag
    worker, current,     \* worker -> phase, and the request it executes
    sent, resent,        \* how many requests and repeats were sent
    taken, replies       \* identity -> samples taken, and replies sent

serverVars == <<owner, afterStop, finish_condition_>>
listenVars == <<listener, inHand>>
netVars    == <<inbox, dataAvailable, gone, sent, resent>>
poolVars   == <<requests_, finished_, worker, current>>
vars == <<serverVars, listenVars, netVars, processing_requests_, poolVars, taken, replies>>

OwnerPC    == {"created", "running", "cancel", "pool", "joinWorkers", "stopped",
               "joinListener", "deleteStub", "destroyed"}
ListenerPC == {"none", "starting", "waiting", "taking", "scheduling", "done"}
WorkerPC   == {"idle", "callback", "deferred", "replied", "exited"}

Init ==
    /\ owner = "created" /\ afterStop = "stopped" /\ finish_condition_ = FALSE
    /\ listener = "none" /\ inHand = NoId
    /\ inbox = <<>> /\ dataAvailable = FALSE /\ gone = {} /\ sent = 0 /\ resent = 0
    /\ processing_requests_ = {}
    /\ requests_ = <<>> /\ finished_ = FALSE
    /\ worker = [w \in Workers |-> "idle"] /\ current = [w \in Workers |-> NoId]
    /\ taken = [i \in Ids |-> 0] /\ replies = [i \in Ids |-> 0]

-----------------------------------------------------------------------------
(* The owner. *)

(* Server::Run starts the jthread, which has yet to enter run(). *)
Run ==
    /\ owner = "created"
    /\ owner' = "running"
    /\ listener' = "starting"
    /\ UNCHANGED <<afterStop, finish_condition_, inHand, netVars, processing_requests_,
                   poolVars, taken, replies>>

(* Server::Stop, or the Stop at the start of ~Server; stop() first sets    *)
(* the finish condition.                                                   *)
BeginStop(next) ==
    /\ owner \in {"created", "running", "stopped"}
    /\ owner = "created" => next = "joinListener"
    /\ owner' = "cancel"
    /\ afterStop' = next
    /\ finish_condition_' = TRUE
    /\ UNCHANGED <<listenVars, netVars, processing_requests_, poolVars, taken, replies>>

(* stop(): cancel and forget what is being processed.  The contexts have   *)
(* no feeds, so cancel() itself changes nothing.                           *)
StopCancel ==
    /\ owner = "cancel"
    /\ owner' = "pool"
    /\ processing_requests_' = {}
    /\ UNCHANGED <<afterStop, finish_condition_, listenVars, netVars, poolVars, taken, replies>>

(* server_stopped: raise the flag, wake the workers ... *)
StopPool ==
    /\ owner = "pool"
    /\ owner' = "joinWorkers"
    /\ finished_' = TRUE
    /\ UNCHANGED <<afterStop, finish_condition_, listenVars, netVars, processing_requests_,
                   requests_, worker, current, taken, replies>>

(* ... and join them. *)
StopJoinWorkers ==
    /\ owner = "joinWorkers"
    /\ \A w \in Workers : worker[w] = "exited"
    /\ owner' = afterStop
    /\ UNCHANGED <<afterStop, finish_condition_, listenVars, netVars, processing_requests_,
                   poolVars, taken, replies>>

(* ~Server destroys m_thread before m_spServerStub: the jthread is joined. *)
JoinListener ==
    /\ owner = "joinListener"
    /\ listener \in {"none", "done"}
    /\ owner' = "deleteStub"
    /\ UNCHANGED <<afterStop, finish_condition_, listenVars, netVars, processing_requests_,
                   poolVars, taken, replies>>

(* ~ServerRpcStub: the proxy stops the logic once more, when all its       *)
(* threads are gone already, and the DDS entities are deleted.             *)
DeleteStub ==
    /\ owner = "deleteStub"
    /\ owner' = "destroyed"
    /\ finish_condition_' = TRUE
    /\ processing_requests_' = {}
    /\ finished_' = TRUE
    /\ inbox' = <<>>
    /\ dataAvailable' = FALSE
    /\ UNCHANGED <<afterStop, listenVars, gone, sent, resent, requests_, worker, current,
                   taken, replies>>

-----------------------------------------------------------------------------
(* The listener thread: run(). *)

(* run() clears the finish condition before it waits on it. *)
EnterRun ==
    /\ listener = "starting"
    /\ listener' = "waiting"
    /\ finish_condition_' = FALSE
    /\ UNCHANGED <<owner, afterStop, inHand, netVars, processing_requests_, poolVars,
                   taken, replies>>

\* Mutant: the finish condition is not attached to the wait set.
WakeOnDataOnly ==
    /\ listener = "waiting"
    /\ dataAvailable
    /\ listener' = IF finish_condition_ THEN "done" ELSE "taking"
    /\ UNCHANGED <<serverVars, inHand, netVars, processing_requests_, poolVars, taken, replies>>

(* waitset.wait returns; the finish condition has precedence. *)
Wake ==
    /\ listener = "waiting"
    /\ \/ finish_condition_ /\ listener' = "done"
       \/ ~finish_condition_ /\ dataAvailable /\ listener' = "taking"
    /\ UNCHANGED <<serverVars, inHand, netVars, processing_requests_, poolVars, taken, replies>>

(* take_from finds no sample: wait again. *)
TakeNothing ==
    /\ listener = "taking"
    /\ inbox = <<>>
    /\ listener' = "waiting"
    /\ UNCHANGED <<serverVars, inHand, netVars, processing_requests_, poolVars, taken, replies>>

(* A sample is taken, which resets the reader's status.  take_from fails   *)
(* when its client is no longer matched: the sample is lost and the loop   *)
(* ends with the rest left in the reader.                                  *)
TakeFromDeparted ==
    /\ listener = "taking"
    /\ inbox # <<>>
    /\ Head(inbox).id \in gone
    /\ inbox' = Tail(inbox)
    /\ dataAvailable' = FALSE
    /\ listener' = "waiting"
    /\ UNCHANGED <<serverVars, inHand, gone, sent, resent, processing_requests_, poolVars,
                   taken, replies>>

(* run() answers an invalid request itself, and process_request answers    *)
(* one whose identity is being processed: there are no feeds, so it is     *)
(* refused and the identity forgotten.                                     *)
TakeAndRefuse ==
    /\ listener = "taking"
    /\ inbox # <<>>
    /\ LET s == Head(inbox) IN
       /\ s.id \notin gone
       /\ \/ /\ s.kind = "invalid"
             /\ UNCHANGED processing_requests_
          \/ /\ s.kind = "valid"
             /\ s.id \in processing_requests_
             /\ processing_requests_' = processing_requests_ \ {s.id}
       /\ taken' = [taken EXCEPT ![s.id] = @ + 1]
       /\ replies' = [replies EXCEPT ![s.id] = @ + 1]
    /\ inbox' = Tail(inbox)
    /\ dataAvailable' = FALSE
    /\ UNCHANGED <<serverVars, listenVars, gone, sent, resent, poolVars>>

\* Mutant: a repeated identity is refused and then processed all the same.
TakeRefuseAndProcess ==
    /\ listener = "taking"
    /\ inbox # <<>>
    /\ LET s == Head(inbox) IN
       /\ s.id \notin gone
       /\ s.kind = "valid"
       /\ processing_requests_' = processing_requests_ \cup {s.id}
       /\ inHand' = s.id
       /\ taken' = [taken EXCEPT ![s.id] = @ + 1]
       /\ replies' = IF s.id \in processing_requests_
                     THEN [replies EXCEPT ![s.id] = @ + 1] ELSE replies
    /\ inbox' = Tail(inbox)
    /\ dataAvailable' = FALSE
    /\ listener' = "scheduling"
    /\ UNCHANGED <<serverVars, gone, sent, resent, poolVars>>

(* process_request records the identity under mtx_ ... *)
TakeAndRecord ==
    /\ listener = "taking"
    /\ inbox # <<>>
    /\ LET s == Head(inbox) IN
       /\ s.id \notin gone
       /\ s.kind = "valid"
       /\ s.id \notin processing_requests_
       /\ processing_requests_' = processing_requests_ \cup {s.id}
       /\ inHand' = s.id
       /\ taken' = [taken EXCEPT ![s.id] = @ + 1]
    /\ inbox' = Tail(inbox)
    /\ dataAvailable' = FALSE
    /\ listener' = "scheduling"
    /\ UNCHANGED <<serverVars, gone, sent, resent, poolVars, replies>>

\* Mutant: one request is taken per wake-up.
ScheduleThenWait ==
    /\ listener = "scheduling"
    /\ requests_' = IF finished_ THEN requests_ ELSE Append(requests_, inHand)
    /\ inHand' = NoId
    /\ listener' = "waiting"
    /\ UNCHANGED <<serverVars, netVars, processing_requests_, finished_, worker, current,
                   taken, replies>>

(* ... and hands the request to the pool, which ignores it once stopped. *)
Schedule ==
    /\ listener = "scheduling"
    /\ requests_' = IF finished_ THEN requests_ ELSE Append(requests_, inHand)
    /\ inHand' = NoId
    /\ listener' = "taking"
    /\ UNCHANGED <<serverVars, netVars, processing_requests_, finished_, worker, current,
                   taken, replies>>

-----------------------------------------------------------------------------
(* The workers of the pool. *)

(* Pop the oldest request and start on it. *)
WorkerPop(w) ==
    /\ worker[w] = "idle"
    /\ ~finished_
    /\ requests_ # <<>>
    /\ worker' = [worker EXCEPT ![w] = "callback"]
    /\ current' = [current EXCEPT ![w] = Head(requests_)]
    /\ requests_' = Tail(requests_)
    /\ UNCHANGED <<serverVars, listenVars, netVars, processing_requests_, finished_, taken,
                   replies>>

(* The stop flag ends a worker, whatever is still queued. *)
WorkerExit(w) ==
    /\ worker[w] = "idle"
    /\ finished_
    /\ worker' = [worker EXCEPT ![w] = "exited"]
    /\ UNCHANGED <<serverVars, listenVars, netVars, processing_requests_, requests_,
                   finished_, current, taken, replies>>

(* The application's callback defers: the worker waits in the handler. *)
CallbackDefers(w) ==
    /\ worker[w] = "callback"
    /\ worker' = [worker EXCEPT ![w] = "deferred"]
    /\ UNCHANGED <<serverVars, listenVars, netVars, processing_requests_, requests_,
                   finished_, current, taken, replies>>

(* The handler returns or throws; either way one reply is sent. *)
SendReply(w) ==
    /\ worker[w] \in {"callback", "deferred"}
    /\ worker' = [worker EXCEPT ![w] = "replied"]
    /\ replies' = [replies EXCEPT ![current[w]] = @ + 1]
    /\ UNCHANGED <<serverVars, listenVars, netVars, processing_requests_, requests_,
                   finished_, current, taken>>

(* execute_request ends by erasing the identity under mtx_. *)
EraseProcessed(w) ==
    /\ worker[w] = "replied"
    /\ processing_requests_' = processing_requests_ \ {current[w]}
    /\ worker' = [worker EXCEPT ![w] = "idle"]
    /\ current' = [current EXCEPT ![w] = NoId]
    /\ UNCHANGED <<serverVars, listenVars, netVars, requests_, finished_, taken, replies>>

-----------------------------------------------------------------------------
(* Clients and the network (external). *)

ReaderExists == owner # "destroyed"

(* A client's request reaches the reader. *)
Arrive(kind) ==
    /\ ReaderExists
    /\ sent < MaxRequests
    /\ sent' = sent + 1
    /\ inbox' = Append(inbox, [id |-> sent', kind |-> kind])
    /\ dataAvailable' = TRUE
    /\ UNCHANGED <<serverVars, listenVars, gone, resent, processing_requests_, poolVars,
                   taken, replies>>

(* A sample with the identity of an earlier request reaches the reader. *)
ArriveAgain(i) ==
    /\ ReaderExists
    /\ resent < MaxResends
    /\ i <= sent
    /\ resent' = resent + 1
    /\ inbox' = Append(inbox, [id |-> i, kind |-> "valid"])
    /\ dataAvailable' = TRUE
    /\ UNCHANGED <<serverVars, listenVars, gone, sent, processing_requests_, poolVars,
                   taken, replies>>

(* The client of request i leaves the network. *)
ClientLeaves(i) ==
    /\ i <= sent
    /\ i \notin gone
    /\ gone' = gone \cup {i}
    /\ UNCHANGED <<serverVars, listenVars, inbox, dataAvailable, sent, resent,
                   processing_requests_, poolVars, taken, replies>>

-----------------------------------------------------------------------------
Owner    == \/ Run
            \/ \E next \in {"stopped", "joinListener"} : BeginStop(next)
            \/ StopCancel \/ StopPool \/ StopJoinWorkers \/ JoinListener \/ DeleteStub
OwnerStops == StopCancel \/ StopPool \/ StopJoinWorkers \/ JoinListener \/ DeleteStub
Listener == EnterRun \/ Wake \/ TakeNothing \/ TakeFromDeparted \/ TakeAndRefuse
            \/ TakeAndRecord \/ Schedule
Worker(w) == WorkerPop(w) \/ WorkerExit(w) \/ CallbackDefers(w) \/ SendReply(w)
             \/ EraseProcessed(w)
Network  == \/ \E kind \in Kinds : Arrive(kind)
            \/ \E i \in Ids : ArriveAgain(i) \/ ClientLeaves(i)

Next == Owner \/ Listener \/ (\E w \in Workers : Worker(w)) \/ Network

(* Threads run; a call of stop() or of the destructor goes on once begun;  *)
(* the owner need not call anything and clients need not send anything.    *)
(* A callback returns, a deferred reply arrives or times out: SendReply.   *)
Spec == /\ Init /\ [][Next]_vars
        /\ WF_vars(OwnerStops)
        /\ WF_vars(Listener)
        /\ \A w \in Workers : WF_vars(Worker(w))

-----------------------------------------------------------------------------
(* The types of the state of the three kinds of threads and the network. *)
TypeOK ==
    /\ owner \in OwnerPC
    /\ afterStop \in {"stopped", "joinListener"}
    /\ finish_condition_ \in BOOLEAN
    /\ listener \in ListenerPC
    /\ inHand \in Ids \cup {NoId}
    /\ inbox \in Seq(Sample)
    /\ dataAvailable \in BOOLEAN
    /\ gone \in SUBSET Ids
    /\ processing_requests_ \in SUBSET Ids
    /\ requests_ \in Seq(Ids)
    /\ finished_ \in BOOLEAN
    /\ worker \in [Workers -> WorkerPC]
    /\ current \in [Workers -> Ids \cup {NoId}]
    /\ sent \in 0 .. MaxRequests
    /\ resent \in 0 .. MaxResends
    /\ taken \in [Ids -> Nat]
    /\ replies \in [Ids -> Nat]

Queued(i) == \E n \in DOMAIN requests_ : requests_[n] = i
InReader(i) == \E n \in DOMAIN inbox : inbox[n].id = i

(* Every sample that is taken is answered at most once, even when one      *)
(* identity is taken again while its first request is queued or executing. *)
RepliesMatchTaken == \A i \in Ids : replies[i] <= taken[i]

(* While the pool runs, an identity is recorded as being processed only if *)
(* some thread still has its request: an identity left behind would make   *)
(* the server refuse the next sample that carries it.                      *)
NoOrphanProcessing ==
    \A i \in processing_requests_ :
        \/ finished_
        \/ inHand = i
        \/ Queued(i)
        \/ \E w \in Workers : current[w] = i

(* Every taken sample gets its reply, unless the pool is stopped first. *)
TakenIsAnswered ==
    \A i \in Ids : taken[i] > replies[i] ~> (taken[i] = replies[i] \/ finished_)

(* A request in the reader of a running server is answered, unless the     *)
(* owner stops the server or a client leaves with a request outstanding.   *)
ArrivedIsAnswered ==
    \A i \in Ids : owner = "running" /\ InReader(i)
                     ~> (replies[i] > 0 \/ owner # "running" \/ gone # {})

(* stop() returns: every worker, also one in a callback or waiting for a   *)
(* deferred reply, comes back to see the stop flag.                        *)
StopReturns ==
    owner = "cancel" ~> owner \in {"stopped", "joinListener", "deleteStub", "destroyed"}

(* Destroying a server completes when its listener entered run() before    *)
(* the destructor's stop() set the finish condition.                       *)
DestructionCompletes ==
    owner = "cancel" /\ afterStop = "joinListener" /\ listener # "starting"
                     /\ finish_condition_
        ~> owner = "destroyed"

(* The state is well typed, no sample is answered twice and no identity is *)
(* left behind.                                                            *)
ServerConsistent == TypeOK /\ RepliesMatchTaken /\ NoOrphanProcessing

(* What is taken, and what arrives while the server runs, is answered.     *)
RequestsAreAnswered == TakenIsAnswered /\ ArrivedIsAnswered

(* stop() and the destructor return.                                       *)
ServerEnds == StopReturns /\ DestructionCompletes
=============================================================================
