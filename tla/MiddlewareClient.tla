--------------------------- MODULE MiddlewareClient ---------------------------
(***************************************************************************)
(* The DDS transaction client: Client (lib/framework/dds/client), its      *)
(* thread pool and stub, and the generated RequestsClient                  *)
(* (idl/topics/requests/requestsClient.cxx).                               *)
(*                                                                         *)
(* The user's thread calls Read or Write, which posts a task to the pool.  *)
(* A pool thread sends the request and waits on its future for up to the   *)
(* client's timeout; the stub's processing thread takes replies and        *)
(* resolves the futures; then the pool thread runs the callback.  Read and *)
(* Write run the same code but for what they expect of a reply.  Calls are *)
(* numbered in the order the user makes them; a reply is reduced to the    *)
(* call it answers, the fields that are set and whether a result is in it. *)
(***************************************************************************)
EXTENDS Integers, Sequences, FiniteSets

CONSTANTS
    MaxCalls,     \* bound on the calls the user makes
    Threads,      \* the threads of the client's pool
    Writes,       \* the calls that are writes; the others are reads
    MaxAnswers    \* bound on the replies the server sends to one request

ASSUME ClientAssumption == Threads # {} /\ MaxCalls \in Nat /\ MaxAnswers \in Nat

Calls  == 1 .. MaxCalls
NoCall == 0
Form   == [fields : SUBSET {"Read", "Write", "remoteEx"}, result : BOOLEAN]
Reply  == [call : Calls, form : Form]

Operation(c) == IF c \in Writes THEN "Write" ELSE "Read"

(* What servers send: the result or a RequestException of the operation,   *)
(* the code of another exception, or a reply to the other operation; and   *)
(* one that sets two fields.                                               *)
Forms(c) == {[fields |-> {Operation(c)}, result |-> TRUE],
             [fields |-> {"remoteEx"}, result |-> FALSE],
             [fields |-> {IF c \in Writes THEN "Read" ELSE "Write"}, result |-> TRUE],
             [fields |-> {Operation(c), "remoteEx"}, result |-> TRUE]}
IsResult(c, form) == form = [fields |-> {Operation(c)}, result |-> TRUE]

VARIABLES
    issued,           \* how many calls the user made
    completed,        \* call -> the status its callback was given
    client,           \* progress of the owner through ~Client
    queue,            \* tasks posted to the pool, oldest first
    poolStopped,      \* the pool's stop flag
    phase, call,      \* pool thread -> where its task is, and the call
    status,           \* pool thread -> the status it will report
    pending_results_, \* calls whose reply is awaited
    promise,          \* call -> the state of its future
    processing,       \* the stub's processing thread is alive
    sentCalls,        \* calls in the order their requests were sent
    answers,          \* call -> replies the server sent
    answered,         \* calls the server answered with a result
    replyBox,         \* replies in the requester's reader, oldest first
    doneCalls         \* calls in the order their callbacks ran

poolVars == <<queue, poolStopped, phase, call, status>>
stubVars == <<pending_results_, promise, processing>>
netVars  == <<sentCalls, answers, replyBox, answered>>
userVars == <<issued, completed, doneCalls>>
vars == <<client, poolVars, stubVars, netVars, userVars>>

ClientPC == {"open", "joinPool", "stopThread", "closed"}
Phase    == {"idle", "started", "waiting", "deliver", "exited"}
TaskStatus == {"none", "SUCCESS", "CLIENT_REQUEST_SIZE_ERROR", "CLIENT_TIMEOUT_ERROR",
               "SERVER_INTERNAL_ERROR", "CLIENT_INIT_ERROR"}

StubAlive == client \in {"open", "joinPool"}

Init ==
    /\ issued = 0 /\ completed = [c \in Calls |-> "none"] /\ answered = {}
    /\ client = "open"
    /\ queue = <<>> /\ poolStopped = FALSE
    /\ phase = [t \in Threads |-> "idle"]
    /\ call = [t \in Threads |-> NoCall]
    /\ status = [t \in Threads |-> "none"]
    /\ pending_results_ = {} /\ promise = [c \in Calls |-> "none"] /\ processing = TRUE
    /\ sentCalls = <<>> /\ answers = [c \in Calls |-> 0] /\ replyBox = <<>>
    /\ doneCalls = <<>>

-----------------------------------------------------------------------------
(* The user's thread. *)

(* Read or Write posts the call to the pool ... *)
Post ==
    /\ client = "open"
    /\ issued < MaxCalls
    /\ issued' = issued + 1
    /\ queue' = Append(queue, issued')
    /\ UNCHANGED <<client, poolStopped, phase, call, status, stubVars, netVars,
                   completed, doneCalls>>

(* ... unless the request is oversized: its callback runs in the caller. *)
RejectIfOversized ==
    /\ client = "open"
    /\ issued < MaxCalls
    /\ issued' = issued + 1
    /\ completed' = [completed EXCEPT ![issued'] = "CLIENT_REQUEST_SIZE_ERROR"]
    /\ doneCalls' = Append(doneCalls, issued')
    /\ UNCHANGED <<client, poolVars, stubVars, netVars>>

\* Mutant: the stub is a later member than the pool and is destroyed first.
StopPoolAfterStub ==
    /\ client = "open"
    /\ client' = "stopThread"
    /\ poolStopped' = TRUE
    /\ UNCHANGED <<queue, phase, call, status, stubVars, netVars, userVars>>

(* ~Client stops the pool: tasks that have not started are abandoned. *)
StopPool ==
    /\ client = "open"
    /\ client' = "joinPool"
    /\ poolStopped' = TRUE
    /\ UNCHANGED <<queue, phase, call, status, stubVars, netVars, userVars>>

(* m_spThreadPool is destroyed first: its threads are joined. *)
JoinPool ==
    /\ client = "joinPool"
    /\ \A t \in Threads : phase[t] = "exited"
    /\ client' = "stopThread"
    /\ queue' = <<>>
    /\ UNCHANGED <<poolStopped, phase, call, status, stubVars, netVars, userVars>>

(* m_spClientStub follows: ~RequestsClient joins the processing thread and *)
(* the DDS entities and the pending results go.                            *)
DestroyStub ==
    /\ client = "stopThread"
    /\ client' = "closed"
    /\ processing' = FALSE
    /\ pending_results_' = {}
    /\ replyBox' = <<>>
    /\ UNCHANGED <<poolVars, promise, sentCalls, answers, answered, userVars>>

-----------------------------------------------------------------------------
(* The threads of the pool. *)

StartTask(t) ==
    /\ phase[t] = "idle"
    /\ ~poolStopped
    /\ queue # <<>>
    /\ phase' = [phase EXCEPT ![t] = "started"]
    /\ call' = [call EXCEPT ![t] = Head(queue)]
    /\ queue' = Tail(queue)
    /\ UNCHANGED <<client, poolStopped, status, stubVars, netVars, userVars>>

ExitThread(t) ==
    /\ phase[t] = "idle"
    /\ poolStopped
    /\ phase' = [phase EXCEPT ![t] = "exited"]
    /\ UNCHANGED <<client, queue, poolStopped, call, status, stubVars, netVars,
                   userVars>>

(* The task locks the stub and sends the request under its mutex: the call *)
(* is pending from then on, or its future holds a broken pipe.  A stub     *)
(* that is gone is reported at once.                                       *)
SendRequest(t) ==
    /\ phase[t] = "started"
    /\ IF StubAlive
       THEN /\ phase' = [phase EXCEPT ![t] = "waiting"]
            /\ \/ /\ pending_results_' = pending_results_ \cup {call[t]}
                  /\ sentCalls' = Append(sentCalls, call[t])
                  /\ UNCHANGED promise
               \/ /\ promise' = [promise EXCEPT ![call[t]] = "exception"]
                  /\ UNCHANGED <<pending_results_, sentCalls>>
            /\ UNCHANGED status
       ELSE /\ phase' = [phase EXCEPT ![t] = "deliver"]
            /\ status' = [status EXCEPT ![t] = "CLIENT_INIT_ERROR"]
            /\ UNCHANGED <<pending_results_, sentCalls, promise>>
    /\ UNCHANGED <<client, queue, poolStopped, call, processing, answers, replyBox, answered,
                   userVars>>

(* wait_for finds the future ready; get returns or throws RpcException. *)
FutureReady(t) ==
    /\ phase[t] = "waiting"
    /\ promise[call[t]] # "none"
    /\ phase' = [phase EXCEPT ![t] = "deliver"]
    /\ status' = [status EXCEPT ![t] = IF promise[call[t]] = "value" THEN "SUCCESS"
                                       ELSE "SERVER_INTERNAL_ERROR"]
    /\ UNCHANGED <<client, queue, poolStopped, call, stubVars, netVars, userVars>>

\* Mutant: wait instead of wait_for.
FutureNeverTimesOut(t) ==
    /\ phase[t] = "waiting"
    /\ promise[call[t]] # "none"
    /\ phase' = [phase EXCEPT ![t] = "deliver"]
    /\ status' = [status EXCEPT ![t] = "CLIENT_TIMEOUT_ERROR"]
    /\ UNCHANGED <<client, queue, poolStopped, call, stubVars, netVars, userVars>>
\* Mutant: a call that timed out is no longer pending.
TimeoutForgetsCall(t) ==
    /\ phase[t] = "waiting"
    /\ promise[call[t]] = "none"
    /\ phase' = [phase EXCEPT ![t] = "deliver"]
    /\ status' = [status EXCEPT ![t] = "CLIENT_TIMEOUT_ERROR"]
    /\ pending_results_' = pending_results_ \ {call[t]}
    /\ UNCHANGED <<client, queue, poolStopped, call, promise, processing, netVars, userVars>>

(* wait_for times out; the call stays in pending_results_. *)
FutureTimeout(t) ==
    /\ phase[t] = "waiting"
    /\ promise[call[t]] = "none"
    /\ phase' = [phase EXCEPT ![t] = "deliver"]
    /\ status' = [status EXCEPT ![t] = "CLIENT_TIMEOUT_ERROR"]
    /\ UNCHANGED <<client, queue, poolStopped, call, stubVars, netVars, userVars>>

(* The callback runs, and the thread is free. *)
Deliver(t) ==
    /\ phase[t] = "deliver"
    /\ completed' = [completed EXCEPT ![call[t]] = status[t]]
    /\ doneCalls' = Append(doneCalls, call[t])
    /\ phase' = [phase EXCEPT ![t] = "idle"]
    /\ call' = [call EXCEPT ![t] = NoCall]
    /\ status' = [status EXCEPT ![t] = "none"]
    /\ UNCHANGED <<client, queue, poolStopped, stubVars, netVars, issued>>

-----------------------------------------------------------------------------
(* The stub's processing thread: run() and process_reply. *)

(* set_invalid_reply and set_remote_exception *)
Exception == "exception"

count_reply_fields(form) == Cardinality(form.fields)
validate_reply(form) == count_reply_fields(form) = 1

(* process_reply of Read_promise and of Write_promise: the result, or the  *)
(* exception for anything that is not their result.                        *)
Read_promise(form) ==
    IF validate_reply(form) /\ "Read" \in form.fields /\ form.result THEN "value" ELSE Exception
Write_promise(form) ==
    IF validate_reply(form) /\ "Write" \in form.fields /\ form.result THEN "value" ELSE Exception

(* A reply resolves the future of the call it names, once: a reply to a    *)
(* call that is not pending is ignored.                                    *)
ProcessReply ==
    /\ processing
    /\ replyBox # <<>>
    /\ replyBox' = Tail(replyBox)
    /\ LET r == Head(replyBox) IN
       \/ /\ r.call \in pending_results_
          /\ promise' = [promise EXCEPT ![r.call] = IF r.call \in Writes
                                                    THEN Write_promise(r.form)
                                                    ELSE Read_promise(r.form)]
          /\ pending_results_' = pending_results_ \ {r.call}
       \/ /\ r.call \notin pending_results_
          /\ UNCHANGED <<promise, pending_results_>>
    /\ UNCHANGED <<client, poolVars, processing, sentCalls, answers, answered, userVars>>

-----------------------------------------------------------------------------
(* The server and the network (external): a request may be answered late,  *)
(* more than once, or never.                                               *)
Sent(c) == \E n \in DOMAIN sentCalls : sentCalls[n] = c

ServerReplies(c, form) ==
    /\ Sent(c)
    /\ processing
    /\ answers[c] < MaxAnswers
    /\ answers' = [answers EXCEPT ![c] = @ + 1]
    /\ replyBox' = Append(replyBox, [call |-> c, form |-> form])
    /\ answered' = IF IsResult(c, form) THEN answered \cup {c} ELSE answered
    /\ UNCHANGED <<client, poolVars, stubVars, sentCalls, userVars>>

-----------------------------------------------------------------------------
Task(t) == \/ StartTask(t) \/ ExitThread(t) \/ SendRequest(t) \/ FutureReady(t)
           \/ FutureTimeout(t) \/ Deliver(t)

Next ==
    \/ Post \/ RejectIfOversized \/ StopPool \/ JoinPool \/ DestroyStub
    \/ \E t \in Threads : Task(t)
    \/ ProcessReply
    \/ \E c \in Calls : \E form \in Forms(c) : ServerReplies(c, form)

(* Pool threads and the processing thread run, wait_for ends at the        *)
(* client's timeout, callbacks return, and a destructor that was entered   *)
(* goes on.  Neither the user nor the server has to do anything.           *)
Spec == /\ Init /\ [][Next]_vars
        /\ WF_vars(JoinPool \/ DestroyStub)
        /\ \A t \in Threads : WF_vars(Task(t))
        /\ WF_vars(ProcessReply)

-----------------------------------------------------------------------------
(* The types of the state of the pool, the stub, the network and the user. *)
TypeOK ==
    /\ issued \in 0 .. MaxCalls
    /\ completed \in [Calls -> TaskStatus]
    /\ client \in ClientPC
    /\ queue \in Seq(Calls)
    /\ poolStopped \in BOOLEAN
    /\ phase \in [Threads -> Phase]
    /\ call \in [Threads -> Calls \cup {NoCall}]
    /\ status \in [Threads -> TaskStatus]
    /\ pending_results_ \in SUBSET Calls
    /\ promise \in [Calls -> {"none", "value", "exception"}]
    /\ processing \in BOOLEAN
    /\ sentCalls \in Seq(Calls)
    /\ answers \in [Calls -> 0 .. MaxAnswers]
    /\ answered \in SUBSET Calls
    /\ replyBox \in Seq(Reply)
    /\ doneCalls \in Seq(Calls)

(* The client implements the promise to its user.  The mapping hides the   *)
(* pool, the stub and the wire: the client is closed when ~Client is done. *)
T == INSTANCE Transaction WITH closed <- (client = "closed")

(* Every behaviour of the client is one of Transaction: callbacks run at   *)
(* most once, none runs after ~Client, and SUCCESS is reported only for a  *)
(* call the server answered with a result, whatever replies come late,     *)
(* twice or after a time-out.  CLIENT_INIT_ERROR is not among the statuses *)
(* of Transaction: no task outlives the stub.                              *)
ImplementsTransaction == T!TSpec

(* A sent call is pending exactly until its first reply is processed, also *)
(* after its caller has been told of a time-out.                           *)
PendingUntilAnswered ==
    client # "closed" =>
        \A c \in Calls : c \in pending_results_ <=> Sent(c) /\ promise[c] = "none"

(* Every call of an open client is completed, whatever the server does. *)
EveryCallCompletes ==
    \A c \in Calls : c <= issued ~> (completed[c] # "none" \/ client # "open")

(* ~Client returns: it waits for the tasks that run, for at most their     *)
(* timeout, and not for the ones that are queued.                          *)
DestructorReturns == client = "joinPool" ~> client = "closed"

(* The state is well typed, and calls are pending as long as they should.  *)
ClientConsistent == TypeOK /\ PendingUntilAnswered

(* Calls complete and the destructor returns.                              *)
ClientProgress == EveryCallCompletes /\ DestructorReturns

-----------------------------------------------------------------------------
(* A statement of the documentation that the code does not keep. *)

Increasing(s) == \A i, j \in DOMAIN s : i < j => s[i] < s[j]

(* "Transactions may be handled concurrently, but are initially received   *)
(* by the server in the order they were created. Callbacks ... are also    *)
(* called in the client in the order they were created (by the client)."   *)
(* The pool's threads race to send, and race to run the callbacks.         *)
TransactionsInOrder == Increasing(sentCalls) /\ Increasing(doneCalls)
=============================================================================
