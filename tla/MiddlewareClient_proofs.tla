------------------------ MODULE MiddlewareClient_proofs ------------------------
(***************************************************************************)
(* Proofs about MiddlewareClient for every number of calls, every pool and *)
(* every bound on the server's replies: a call is pending exactly as long  *)
(* as it should be, and the client implements Transaction.                 *)
(*                                                                         *)
(* ClientConsistent is not inductive: whether a send or a reply leaves a   *)
(* call pending depends on no other task working on that call.  ClientInv  *)
(* adds that a call has one task, from the queue to its callback, that     *)
(* ~Client goes through its members in order, and that a result is in the  *)
(* reader, in a future or in a status only when the server produced it.    *)
(***************************************************************************)
EXTENDS MiddlewareClient, FiniteSetTheorems, TLAPS

Busy(t) == phase[t] \in {"started", "waiting", "deliver"}

(* ~Client stops the pool, joins it, then destroys the stub: a thread that *)
(* works on a call finds the stub alive.                                   *)
TeardownInOrder ==
    /\ poolStopped <=> client # "open"
    /\ client \in {"stopThread", "closed"} => \A t \in Threads : phase[t] = "exited"
    /\ processing <=> client # "closed"

(* No task was made for a call the user has not made. *)
NothingAhead ==
    \A c \in Calls : c > issued => completed[c] = "none" /\ promise[c] = "none" /\ ~Sent(c)

(* A call that waits in the queue waits there once, and nothing was done   *)
(* for it.                                                                 *)
QueueFresh ==
    /\ \A n \in DOMAIN queue :
          /\ queue[n] <= issued
          /\ completed[queue[n]] = "none" /\ promise[queue[n]] = "none" /\ ~Sent(queue[n])
    /\ \A m, n \in DOMAIN queue : queue[m] = queue[n] => m = n

(* A thread works on a call that has not been called back, and that no     *)
(* other thread works on and the queue does not hold.                      *)
OneTaskPerCall ==
    /\ \A t \in Threads : Busy(t) =>
          /\ call[t] \in Calls /\ call[t] <= issued /\ completed[call[t]] = "none"
          /\ \A n \in DOMAIN queue : queue[n] # call[t]
          /\ \A u \in Threads : Busy(u) /\ call[u] = call[t] => u = t
    /\ \A t \in Threads :
          phase[t] = "started" => promise[call[t]] = "none" /\ ~Sent(call[t])

(* A result that is on its way to a callback was produced by the server.   *)
ResultsAreAnswers ==
    /\ \A c \in answered : c <= issued
    /\ \A n \in DOMAIN replyBox :
          /\ replyBox[n].form \in Forms(replyBox[n].call)
          /\ IsResult(replyBox[n].call, replyBox[n].form) => replyBox[n].call \in answered
    /\ \A c \in Calls : promise[c] = "value" => c \in answered
    /\ \A t \in Threads : phase[t] = "deliver" =>
          /\ status[t] \in T!Failures \cup {"SUCCESS"}
          /\ status[t] = "SUCCESS" => call[t] \in answered

ClientInv == /\ TypeOK /\ PendingUntilAnswered /\ TeardownInOrder /\ NothingAhead
             /\ QueueFresh /\ OneTaskPerCall /\ ResultsAreAnswers

(* A busy thread is told from an idle one by its phase, everywhere below. *)
USE DEF Busy

-----------------------------------------------------------------------------
(* Sequences and replies.                                                  *)

(* Taking the head of a sequence. *)
LEMMA TakeHead ==
    ASSUME NEW S, NEW s \in Seq(S), s # <<>>
    PROVE  /\ Head(s) \in S /\ Tail(s) \in Seq(S)
           /\ 1 \in DOMAIN s /\ Head(s) = s[1]
           /\ \A n \in DOMAIN Tail(s) : n + 1 \in DOMAIN s /\ Tail(s)[n] = s[n + 1]
OBVIOUS

(* Adding an element at the end. *)
LEMMA AddLast ==
    ASSUME NEW S, NEW s \in Seq(S), NEW x \in S
    PROVE  /\ Append(s, x) \in Seq(S)
           /\ \A n \in DOMAIN Append(s, x) :
                 \/ n \in DOMAIN s /\ Append(s, x)[n] = s[n]
                 \/ n = Len(s) + 1 /\ Append(s, x)[n] = x
           /\ \A n \in DOMAIN s : n \in DOMAIN Append(s, x) /\ Append(s, x)[n] = s[n]
           /\ Len(s) + 1 \in DOMAIN Append(s, x) /\ Append(s, x)[Len(s) + 1] = x
           /\ Len(s) + 1 \notin DOMAIN s
OBVIOUS

(* A reply that sets two fields does not have one. *)
LEMMA TwoFields ==
    ASSUME NEW a, NEW b, a # b
    PROVE  Cardinality({a, b}) # 1
<1>1. IsFiniteSet({a}) /\ Cardinality({a}) = 1
  BY FS_Singleton
<1>2. Cardinality({a} \cup {b}) = Cardinality({a}) + 1
  BY <1>1, FS_AddElement
<1>3. {a} \cup {b} = {a, b}
  OBVIOUS
<1> QED BY <1>1, <1>2, <1>3

(* Of the replies a server sends to a call, the generated client takes     *)
(* only the result of the call's own operation for a value.                *)
LEMMA OnlyResultsAreValues ==
    ASSUME NEW c \in Calls, NEW form \in Forms(c)
    PROVE  LET p == IF c \in Writes THEN Write_promise(form) ELSE Read_promise(form)
           IN  /\ p \in {"value", "exception"}
               /\ p = "value" => IsResult(c, form)
<1>1. Cardinality({"Read", "remoteEx"}) # 1 /\ Cardinality({"Write", "remoteEx"}) # 1
  BY TwoFields
<1> QED
  BY <1>1 DEF Write_promise, Read_promise, Exception, validate_reply, count_reply_fields,
     Forms, IsResult

(* The replies are well-formed. *)
LEMMA FormsType ==
    ASSUME NEW c \in Calls
    PROVE  Forms(c) \subseteq Form
BY DEF Forms, Form, Operation

-----------------------------------------------------------------------------
(* Each action preserves the invariant.                                    *)

(* A call that is posted is new. *)
LEMMA PostStep ==
    ASSUME ClientInv, Post
    PROVE  ClientInv'
<1>a. issued \in Nat /\ issued' = issued + 1 /\ issued' \in Calls /\ issued \in 0 .. MaxCalls
  BY ClientAssumption DEF ClientInv, TypeOK, Post, Calls
<1>b. /\ queue' \in Seq(Calls)
      /\ \A n \in DOMAIN queue' :
            \/ n \in DOMAIN queue /\ queue'[n] = queue[n]
            \/ n = Len(queue) + 1 /\ queue'[n] = issued'
  BY <1>a DEF ClientInv, TypeOK, Post
<1>1. TypeOK'
  <2>1. UNCHANGED <<client, poolStopped, phase, call, status, pending_results_, promise, processing,
                    sentCalls, answers, answered, replyBox, completed, doneCalls>>
    BY DEF Post, stubVars, netVars
  <2>2. issued' \in 0 .. MaxCalls
    BY <1>a DEF Calls
  <2> QED BY <1>b, <2>1, <2>2 DEF ClientInv, TypeOK
<1>2. PendingUntilAnswered'
  BY DEF ClientInv, PendingUntilAnswered, Post, stubVars, netVars, Sent
<1>3. TeardownInOrder'
  BY DEF ClientInv, TeardownInOrder, Post, stubVars
<1>4. NothingAhead'
  BY DEF ClientInv, NothingAhead, Post, stubVars, netVars, TypeOK, Sent, Calls
<1>5. QueueFresh'
  <2>1. \A c \in Calls : c <= issued => c # issued'
    BY <1>a DEF Calls
  <2>2. \A n \in DOMAIN queue : queue[n] \in Calls /\ queue[n] <= issued'
    <3>1. \A n \in DOMAIN queue : queue[n] \in Calls /\ queue[n] <= issued
      BY DEF ClientInv, TypeOK, QueueFresh
    <3> QED BY <1>a, <3>1 DEF Calls
  <2>3. completed[issued'] = "none" /\ promise[issued'] = "none" /\ ~Sent(issued')
    BY <1>a DEF ClientInv, NothingAhead
  <2>4. UNCHANGED <<completed, promise, sentCalls>>
    BY DEF Post, netVars, stubVars
  <2>5. \A n \in DOMAIN queue : queue[n] # issued' /\ n # Len(queue) + 1
    BY <1>a DEF ClientInv, TypeOK, QueueFresh
  <2>6. \A n \in DOMAIN queue' : queue'[n] \in Calls /\ queue'[n] <= issued'
    BY <1>a, <1>b, <2>2 DEF Calls
  <2> QED BY <1>b, <2>3, <2>4, <2>5, <2>6 DEF ClientInv, QueueFresh, Sent
<1>6. OneTaskPerCall'
  BY DEF ClientInv, OneTaskPerCall, Post, stubVars, netVars, TypeOK, Sent, Calls
<1>7. ResultsAreAnswers'
  BY DEF ClientInv, ResultsAreAnswers, Post, stubVars, netVars, TypeOK, Calls
<1> QED BY <1>1, <1>2, <1>3, <1>4, <1>5, <1>6, <1>7 DEF ClientInv

(* A call that is refused for its size is new. *)
LEMMA RejectStep ==
    ASSUME ClientInv, RejectIfOversized
    PROVE  ClientInv'
<1>a. issued \in Nat /\ issued' = issued + 1 /\ issued' \in Calls
  BY ClientAssumption DEF ClientInv, TypeOK, RejectIfOversized, Calls
<1>b. doneCalls' \in Seq(Calls)
  BY <1>a DEF ClientInv, TypeOK, RejectIfOversized
<1>1. TypeOK'
  BY <1>b DEF ClientInv, TypeOK, RejectIfOversized, poolVars, stubVars, netVars, Calls,
     TaskStatus
<1>2. PendingUntilAnswered'
  BY DEF ClientInv, PendingUntilAnswered, RejectIfOversized, stubVars, netVars, Sent
<1>3. TeardownInOrder'
  BY DEF ClientInv, TeardownInOrder, RejectIfOversized, poolVars, stubVars
<1>4. NothingAhead'
  BY DEF ClientInv, NothingAhead, RejectIfOversized, stubVars, netVars, TypeOK, Sent,
     Calls
<1>5. QueueFresh'
  <2>1. \A c \in Calls : c <= issued => c # issued'
    BY <1>a DEF Calls
  <2>2. \A n \in DOMAIN queue : queue[n] \in Calls /\ queue[n] <= issued'
    <3>1. \A n \in DOMAIN queue : queue[n] \in Calls /\ queue[n] <= issued
      BY DEF ClientInv, TypeOK, QueueFresh
    <3> QED BY <1>a, <3>1 DEF Calls
  <2>3. UNCHANGED <<queue, promise, sentCalls>>
    BY DEF RejectIfOversized, poolVars, netVars, stubVars
  <2>4. \A n \in DOMAIN queue : completed'[queue[n]] = completed[queue[n]]
    BY DEF ClientInv, TypeOK, QueueFresh, RejectIfOversized
  <2> QED BY <2>2, <2>3, <2>4 DEF ClientInv, QueueFresh, Sent
<1>6. OneTaskPerCall'
  BY DEF ClientInv, OneTaskPerCall, RejectIfOversized, poolVars, stubVars, netVars,
     TypeOK, Sent, Calls
<1>7. ResultsAreAnswers'
  BY DEF ClientInv, ResultsAreAnswers, RejectIfOversized, poolVars, stubVars, netVars,
     TypeOK, Calls
<1> QED BY <1>1, <1>2, <1>3, <1>4, <1>5, <1>6, <1>7 DEF ClientInv

(* ~Client stops the pool. *)
LEMMA StopPoolStep ==
    ASSUME ClientInv, StopPool
    PROVE  ClientInv'
<1>1. TypeOK'
  BY DEF ClientInv, TypeOK, StopPool, stubVars, netVars, userVars, ClientPC
<1>2. PendingUntilAnswered'
  BY DEF ClientInv, PendingUntilAnswered, StopPool, stubVars, netVars, Sent
<1>3. TeardownInOrder'
  BY DEF ClientInv, TeardownInOrder, StopPool, stubVars
<1>4. NothingAhead'
  BY DEF ClientInv, NothingAhead, StopPool, stubVars, netVars, userVars, Sent
<1>5. QueueFresh'
  BY DEF ClientInv, QueueFresh, StopPool, stubVars, netVars, userVars, Sent
<1>6. OneTaskPerCall'
  BY DEF ClientInv, OneTaskPerCall, StopPool, stubVars, netVars, userVars, Sent
<1>7. ResultsAreAnswers'
  BY DEF ClientInv, ResultsAreAnswers, StopPool, stubVars, netVars, userVars
<1> QED BY <1>1, <1>2, <1>3, <1>4, <1>5, <1>6, <1>7 DEF ClientInv

(* ~Client joins the pool. *)
LEMMA JoinPoolStep ==
    ASSUME ClientInv, JoinPool
    PROVE  ClientInv'
<1>1. TypeOK'
  BY DEF ClientInv, TypeOK, JoinPool, stubVars, netVars, userVars, ClientPC
<1>2. PendingUntilAnswered'
  BY DEF ClientInv, PendingUntilAnswered, JoinPool, stubVars, netVars, Sent
<1>3. TeardownInOrder'
  BY DEF ClientInv, TeardownInOrder, JoinPool, stubVars
<1>4. NothingAhead'
  BY DEF ClientInv, NothingAhead, JoinPool, stubVars, netVars, userVars, Sent
<1>5. QueueFresh'
  BY DEF QueueFresh, JoinPool
<1>6. OneTaskPerCall'
  BY DEF OneTaskPerCall, JoinPool
<1>7. ResultsAreAnswers'
  BY DEF ClientInv, ResultsAreAnswers, JoinPool, stubVars, netVars, userVars
<1> QED BY <1>1, <1>2, <1>3, <1>4, <1>5, <1>6, <1>7 DEF ClientInv

(* ~Client destroys the stub. *)
LEMMA DestroyStubStep ==
    ASSUME ClientInv, DestroyStub
    PROVE  ClientInv'
<1>1. TypeOK'
  <2>1. replyBox' \in Seq(Reply) /\ pending_results_' \in SUBSET Calls
    BY DEF DestroyStub
  <2> QED BY <2>1 DEF ClientInv, TypeOK, DestroyStub, poolVars, userVars, ClientPC
<1>2. PendingUntilAnswered'
  BY DEF PendingUntilAnswered, DestroyStub
<1>3. TeardownInOrder'
  BY DEF ClientInv, TeardownInOrder, DestroyStub, poolVars
<1>4. NothingAhead'
  BY DEF ClientInv, NothingAhead, DestroyStub, userVars, Sent
<1>5. QueueFresh'
  BY DEF ClientInv, QueueFresh, DestroyStub, poolVars, userVars, Sent
<1>6. OneTaskPerCall'
  BY DEF ClientInv, OneTaskPerCall, DestroyStub, poolVars, userVars, Sent
<1>7. ResultsAreAnswers'
  BY DEF ClientInv, ResultsAreAnswers, DestroyStub, poolVars, userVars
<1> QED BY <1>1, <1>2, <1>3, <1>4, <1>5, <1>6, <1>7 DEF ClientInv

(* A thread takes the oldest task. *)
LEMMA StartTaskStep ==
    ASSUME ClientInv, NEW t \in Threads, StartTask(t)
    PROVE  ClientInv'
<1>a. /\ queue' \in Seq(Calls) /\ Head(queue) \in Calls
      /\ 1 \in DOMAIN queue /\ Head(queue) = queue[1]
      /\ \A n \in DOMAIN queue' :
            n \in Nat \ {0} /\ n + 1 \in DOMAIN queue /\ queue'[n] = queue[n + 1]
  BY TakeHead DEF ClientInv, TypeOK, StartTask
<1>1. TypeOK'
  BY <1>a DEF ClientInv, TypeOK, StartTask, stubVars, netVars, userVars, Phase
<1>2. PendingUntilAnswered'
  BY DEF ClientInv, PendingUntilAnswered, StartTask, stubVars, netVars, Sent
<1>3. TeardownInOrder'
  BY DEF ClientInv, TeardownInOrder, StartTask, stubVars
<1>4. NothingAhead'
  BY DEF ClientInv, NothingAhead, StartTask, stubVars, netVars, userVars, Sent
<1>5. QueueFresh'
  BY <1>a DEF ClientInv, QueueFresh, StartTask, poolVars, stubVars, netVars, userVars, TypeOK, Sent,
     Calls, NothingAhead, OneTaskPerCall
<1>6. OneTaskPerCall'
  <2>1. /\ Head(queue) <= issued /\ completed[Head(queue)] = "none"
        /\ promise[Head(queue)] = "none" /\ ~Sent(Head(queue))
    BY <1>a DEF ClientInv, QueueFresh
  <2>2. \A n \in DOMAIN queue' : queue'[n] # Head(queue)
    BY <1>a DEF ClientInv, QueueFresh
  <2>3. \A u \in Threads : Busy(u) => call[u] # Head(queue)
    BY <1>a DEF ClientInv, OneTaskPerCall
  <2>4. /\ call'[t] = Head(queue) /\ phase'[t] = "started"
        /\ \A u \in Threads \ {t} : call'[u] = call[u] /\ phase'[u] = phase[u]
        /\ phase[t] = "idle"
    BY DEF ClientInv, TypeOK, StartTask
  <2>5. /\ \A c \in Calls : Sent(c)' <=> Sent(c)
        /\ issued' = issued /\ completed' = completed /\ promise' = promise
    BY DEF Sent, StartTask, netVars, stubVars, userVars
  <2>6. \A u \in Threads, n \in DOMAIN queue' : Busy(u) => queue'[n] # call[u]
    BY <1>a DEF ClientInv, OneTaskPerCall
  <2> QED BY <1>a, <2>1, <2>2, <2>4, <2>5, <2>6 DEF ClientInv, OneTaskPerCall
<1>7. ResultsAreAnswers'
  BY DEF ClientInv, ResultsAreAnswers, StartTask, stubVars, netVars, userVars
<1> QED BY <1>1, <1>2, <1>3, <1>4, <1>5, <1>6, <1>7 DEF ClientInv

(* A thread leaves the stopped pool. *)
LEMMA ExitThreadStep ==
    ASSUME ClientInv, NEW t \in Threads, ExitThread(t)
    PROVE  ClientInv'
<1>1. TypeOK'
  BY DEF ClientInv, TypeOK, ExitThread, stubVars, netVars, userVars, Phase
<1>2. PendingUntilAnswered'
  BY DEF ClientInv, PendingUntilAnswered, ExitThread, stubVars, netVars, Sent
<1>3. TeardownInOrder'
  BY DEF ClientInv, TeardownInOrder, ExitThread, stubVars
<1>4. NothingAhead'
  BY DEF ClientInv, NothingAhead, ExitThread, stubVars, netVars, userVars, Sent
<1>5. QueueFresh'
  BY DEF ClientInv, QueueFresh, ExitThread, stubVars, netVars, userVars, Sent
<1>6. OneTaskPerCall'
  BY DEF ClientInv, OneTaskPerCall, ExitThread, stubVars, netVars, userVars, Sent
<1>7. ResultsAreAnswers'
  BY DEF ClientInv, ResultsAreAnswers, ExitThread, stubVars, netVars, userVars
<1> QED BY <1>1, <1>2, <1>3, <1>4, <1>5, <1>6, <1>7 DEF ClientInv

(* A task sends its request. *)
LEMMA SendRequestStep ==
    ASSUME ClientInv, NEW t \in Threads, SendRequest(t)
    PROVE  ClientInv'
<1>a. /\ StubAlive /\ phase[t] = "started" /\ call[t] \in Calls /\ call[t] <= issued
      /\ promise[call[t]] = "none" /\ ~Sent(call[t])
  BY DEF ClientInv, TypeOK, TeardownInOrder, OneTaskPerCall, SendRequest, StubAlive, ClientPC
<1>b. /\ phase' = [phase EXCEPT ![t] = "waiting"]
      /\ \/ /\ pending_results_' = pending_results_ \cup {call[t]}
            /\ promise' = promise /\ sentCalls' \in Seq(Calls)
            /\ \A c \in Calls : Sent(c)' <=> Sent(c) \/ c = call[t]
         \/ /\ promise' = [promise EXCEPT ![call[t]] = "exception"]
            /\ pending_results_' = pending_results_ /\ sentCalls' \in Seq(Calls)
            /\ \A c \in Calls : Sent(c)' <=> Sent(c)
  <2>1. phase' = [phase EXCEPT ![t] = "waiting"]
    BY <1>a DEF SendRequest
  <2>2. CASE sentCalls' = Append(sentCalls, call[t])
    <3>1. sentCalls' \in Seq(Calls) /\ \A c \in Calls : Sent(c)' <=> Sent(c) \/ c = call[t]
      <4>1. sentCalls \in Seq(Calls)
        BY DEF ClientInv, TypeOK
      <4>2. \A c \in Calls : Sent(c)' => Sent(c) \/ c = call[t]
        BY <2>2 DEF Sent
      <4>3. \A c \in Calls : Sent(c) \/ c = call[t] => Sent(c)'
        BY <2>2 DEF Sent
      <4> QED BY <4>1, <4>2, <4>3, <2>2, <1>a
    <3>2. sentCalls' # sentCalls
      BY <2>2, <1>a DEF ClientInv, TypeOK
    <3> QED BY <3>1, <3>2 DEF SendRequest
  <2>3. CASE sentCalls' = sentCalls
    <3>1. sentCalls' # Append(sentCalls, call[t])
      BY <2>3, <1>a DEF ClientInv, TypeOK
    <3> QED BY <3>1, <1>a DEF SendRequest, Sent, ClientInv, TypeOK
  <2> QED BY <2>2, <2>3, <1>a DEF SendRequest
<1>c. UNCHANGED <<client, queue, poolStopped, call, status, processing, answers, replyBox,
                  answered, issued, completed, doneCalls>>
  BY <1>a DEF SendRequest, userVars
<1>1. TypeOK'
  BY <1>a, <1>b, <1>c DEF ClientInv, TypeOK, Phase
<1>2. PendingUntilAnswered'
  BY <1>a, <1>b, <1>c DEF ClientInv, TypeOK, PendingUntilAnswered
<1>3. TeardownInOrder'
  BY <1>a, <1>c DEF ClientInv, TeardownInOrder
<1>4. NothingAhead'
  <2>1. \A c \in Calls : c > issued => c # call[t]
    BY <1>a DEF ClientInv, TypeOK, Calls
  <2> QED BY <1>b, <1>c, <2>1 DEF ClientInv, TypeOK, NothingAhead
<1>5. QueueFresh'
  <2>1. \A n \in DOMAIN queue : queue[n] \in Calls /\ queue[n] # call[t]
    BY <1>a DEF ClientInv, TypeOK, OneTaskPerCall
  <2> QED BY <1>b, <1>c, <2>1 DEF ClientInv, TypeOK, QueueFresh
<1>6. OneTaskPerCall'
  <2>1. \A u \in Threads : (Busy(u))' <=> Busy(u)
    BY <1>a, <1>b DEF ClientInv, TypeOK
  <2>2. \A u \in Threads : phase'[u] = "started" =>
           phase[u] = "started" /\ call[u] \in Calls /\ call[u] # call[t]
    BY <1>a, <1>b DEF ClientInv, TypeOK, OneTaskPerCall
  <2> QED BY <1>b, <1>c, <2>1 DEF ClientInv, TypeOK, OneTaskPerCall
<1>7. ResultsAreAnswers'
  BY <1>b, <1>c DEF ClientInv, TypeOK, ResultsAreAnswers
<1> QED BY <1>1, <1>2, <1>3, <1>4, <1>5, <1>6, <1>7 DEF ClientInv

(* A task finds its future ready. *)
LEMMA FutureReadyStep ==
    ASSUME ClientInv, NEW t \in Threads, FutureReady(t)
    PROVE  ClientInv'
<1>1. TypeOK'
  BY DEF ClientInv, TypeOK, FutureReady, stubVars, netVars, userVars, TaskStatus, Phase
<1>2. PendingUntilAnswered'
  BY DEF ClientInv, PendingUntilAnswered, FutureReady, stubVars, netVars, Sent
<1>3. TeardownInOrder'
  BY DEF ClientInv, TeardownInOrder, FutureReady, stubVars
<1>4. NothingAhead'
  BY DEF ClientInv, NothingAhead, FutureReady, stubVars, netVars, userVars, Sent
<1>5. QueueFresh'
  BY DEF ClientInv, QueueFresh, FutureReady, stubVars, netVars, userVars, Sent
<1>6. OneTaskPerCall'
  BY DEF ClientInv, OneTaskPerCall, FutureReady, stubVars, netVars, userVars, Sent
<1>7. ResultsAreAnswers'
  <2>1. call[t] \in Calls
    BY DEF ClientInv, OneTaskPerCall, FutureReady
  <2> QED BY <2>1 DEF ClientInv, TypeOK, FutureReady, ResultsAreAnswers, stubVars, netVars,
     userVars, T!Failures
<1> QED BY <1>1, <1>2, <1>3, <1>4, <1>5, <1>6, <1>7 DEF ClientInv

(* A task times out. *)
LEMMA FutureTimeoutStep ==
    ASSUME ClientInv, NEW t \in Threads, FutureTimeout(t)
    PROVE  ClientInv'
<1>1. TypeOK'
  BY DEF ClientInv, TypeOK, FutureTimeout, stubVars, netVars, userVars, TaskStatus, Phase
<1>2. PendingUntilAnswered'
  BY DEF ClientInv, PendingUntilAnswered, FutureTimeout, stubVars, netVars, Sent
<1>3. TeardownInOrder'
  BY DEF ClientInv, TeardownInOrder, FutureTimeout, stubVars
<1>4. NothingAhead'
  BY DEF ClientInv, NothingAhead, FutureTimeout, stubVars, netVars, userVars, Sent
<1>5. QueueFresh'
  BY DEF ClientInv, QueueFresh, FutureTimeout, stubVars, netVars, userVars, Sent
<1>6. OneTaskPerCall'
  BY DEF ClientInv, OneTaskPerCall, FutureTimeout, stubVars, netVars, userVars, Sent
<1>7. ResultsAreAnswers'
  BY DEF ClientInv, TypeOK, FutureTimeout, ResultsAreAnswers, stubVars, netVars, userVars,
     T!Failures
<1> QED BY <1>1, <1>2, <1>3, <1>4, <1>5, <1>6, <1>7 DEF ClientInv

(* A task calls back. *)
LEMMA DeliverStep ==
    ASSUME ClientInv, NEW t \in Threads, Deliver(t)
    PROVE  ClientInv'
<1>a. call[t] \in Calls /\ Busy(t)
  BY DEF ClientInv, OneTaskPerCall, Deliver
<1>b. doneCalls' \in Seq(Calls)
  BY <1>a DEF ClientInv, TypeOK, Deliver
<1>1. TypeOK'
  BY <1>b DEF ClientInv, TypeOK, Deliver, stubVars, netVars, TaskStatus, Phase
<1>2. PendingUntilAnswered'
  BY DEF ClientInv, PendingUntilAnswered, Deliver, stubVars, netVars, Sent
<1>3. TeardownInOrder'
  BY DEF ClientInv, TeardownInOrder, Deliver, stubVars
<1>4. NothingAhead'
  BY DEF ClientInv, NothingAhead, Deliver, stubVars, netVars, TypeOK, Sent, Calls,
     OneTaskPerCall
<1>5. QueueFresh'
  BY DEF ClientInv, QueueFresh, Deliver, stubVars, netVars, Sent, OneTaskPerCall
<1>6. OneTaskPerCall'
  BY DEF ClientInv, OneTaskPerCall, Deliver, stubVars, netVars, TypeOK, Sent
<1>7. ResultsAreAnswers'
  BY DEF ClientInv, ResultsAreAnswers, Deliver, stubVars, netVars, TypeOK
<1> QED BY <1>1, <1>2, <1>3, <1>4, <1>5, <1>6, <1>7 DEF ClientInv

(* The processing thread takes a reply. *)
LEMMA ProcessReplyStep ==
    ASSUME ClientInv, ProcessReply
    PROVE  ClientInv'
<1> DEFINE c == Head(replyBox).call
           form == Head(replyBox).form
           p == IF c \in Writes THEN Write_promise(form) ELSE Read_promise(form)
<1>a. /\ Head(replyBox) \in Reply /\ replyBox' \in Seq(Reply)
      /\ 1 \in DOMAIN replyBox /\ Head(replyBox) = replyBox[1]
      /\ \A n \in DOMAIN replyBox' : n + 1 \in DOMAIN replyBox /\ replyBox'[n] = replyBox[n + 1]
  BY TakeHead DEF ClientInv, TypeOK, ProcessReply
<1>b. /\ c \in Calls /\ p \in {"value", "exception"}
      /\ p = "value" => c \in answered
  <2>1. c \in Calls /\ form \in Forms(c) /\ (IsResult(c, form) => c \in answered)
    BY <1>a DEF ClientInv, ResultsAreAnswers, Reply
  <2> QED BY <2>1, OnlyResultsAreValues
<1>c. /\ \/ /\ c \in pending_results_
            /\ promise' = [promise EXCEPT ![c] = p]
            /\ pending_results_' = pending_results_ \ {c}
         \/ promise' = promise /\ pending_results_' = pending_results_
      /\ \A d \in Calls : Sent(d)' <=> Sent(d)
      /\ UNCHANGED <<client, queue, poolStopped, phase, call, status, processing, sentCalls,
                     answers, answered, issued, completed, doneCalls>>
      /\ client # "closed"
  BY DEF ClientInv, TeardownInOrder, ProcessReply, Sent, poolVars, userVars
<1>d. c \in pending_results_ => Sent(c) /\ promise[c] = "none"
  BY <1>b, <1>c DEF ClientInv, PendingUntilAnswered
<1> HIDE DEF c, form, p
<1>1. TypeOK'
  BY <1>a, <1>b, <1>c DEF ClientInv, TypeOK
<1>2. PendingUntilAnswered'
  BY <1>b, <1>c DEF ClientInv, TypeOK, PendingUntilAnswered
<1>3. TeardownInOrder'
  BY <1>b, <1>c DEF ClientInv, TeardownInOrder
<1>4. NothingAhead'
  BY <1>c, <1>d DEF ClientInv, TypeOK, NothingAhead
<1>5. QueueFresh'
  <2>1. \A n \in DOMAIN queue : queue[n] \in Calls
    BY DEF ClientInv, TypeOK
  <2> QED BY <1>c, <1>d DEF ClientInv, TypeOK, QueueFresh
<1>6. OneTaskPerCall'
  <2>1. \A t \in Threads : phase[t] = "started" => call[t] \in Calls
    BY DEF ClientInv, OneTaskPerCall
  <2> QED BY <1>c, <1>d DEF ClientInv, TypeOK, OneTaskPerCall
<1>7. ResultsAreAnswers'
  BY <1>a, <1>b, <1>c DEF ClientInv, TypeOK, ResultsAreAnswers
<1> QED BY <1>1, <1>2, <1>3, <1>4, <1>5, <1>6, <1>7 DEF ClientInv

(* The server sends a reply. *)
LEMMA ServerRepliesStep ==
    ASSUME ClientInv, NEW c \in Calls, NEW form \in Forms(c), ServerReplies(c, form)
    PROVE  ClientInv'
<1> DEFINE r == [call |-> c, form |-> form]
<1>a. /\ r \in Reply /\ replyBox' \in Seq(Reply)
      /\ \A n \in DOMAIN replyBox' :
            (n \in DOMAIN replyBox /\ replyBox'[n] = replyBox[n]) \/ replyBox'[n] = r
  <2>1. r \in Reply
    BY FormsType DEF Reply
  <2> QED BY <2>1 DEF ClientInv, TypeOK, ServerReplies
<1>b. /\ c <= issued /\ issued \in Nat /\ answers[c] \in Nat /\ answers[c] < MaxAnswers
      /\ answered' \subseteq answered \cup {c} /\ answered \subseteq answered'
      /\ IsResult(c, form) => c \in answered'
  BY DEF ClientInv, TypeOK, NothingAhead, ServerReplies, Calls
<1>1. TypeOK'
  <2>1. answers' \in [Calls -> 0 .. MaxAnswers]
    BY ClientAssumption DEF ClientInv, TypeOK, ServerReplies
  <2> QED BY <1>a, <2>1 DEF ClientInv, TypeOK, ServerReplies, poolVars, stubVars, userVars
<1>2. PendingUntilAnswered'
  BY DEF ClientInv, PendingUntilAnswered, ServerReplies, stubVars, Sent
<1>3. TeardownInOrder'
  BY DEF ClientInv, TeardownInOrder, ServerReplies, poolVars, stubVars
<1>4. NothingAhead'
  BY DEF ClientInv, NothingAhead, ServerReplies, stubVars, userVars, Sent
<1>5. QueueFresh'
  BY DEF ClientInv, QueueFresh, ServerReplies, poolVars, stubVars, userVars, Sent
<1>6. OneTaskPerCall'
  BY DEF ClientInv, OneTaskPerCall, ServerReplies, poolVars, stubVars, userVars, Sent
<1>7. ResultsAreAnswers'
  <2>1. UNCHANGED <<phase, status, call, promise, issued>>
    BY DEF ServerReplies, poolVars, stubVars, userVars
  <2>2. \A n \in DOMAIN replyBox' :
           /\ replyBox'[n].form \in Forms(replyBox'[n].call)
           /\ IsResult(replyBox'[n].call, replyBox'[n].form) => replyBox'[n].call \in answered'
    BY <1>a, <1>b DEF ClientInv, ResultsAreAnswers
  <2> QED BY <1>b, <2>1, <2>2 DEF ClientInv, TypeOK, ResultsAreAnswers, Calls
<1> QED BY <1>1, <1>2, <1>3, <1>4, <1>5, <1>6, <1>7 DEF ClientInv

-----------------------------------------------------------------------------
(* The theorems.                                                           *)

(* The initial state satisfies the invariant. *)
LEMMA InitClient == Init => ClientInv
<1> SUFFICES ASSUME Init PROVE ClientInv
  OBVIOUS
<1>1. TypeOK
  <2>1. issued \in 0 .. MaxCalls /\ answers \in [Calls -> 0 .. MaxAnswers]
    BY ClientAssumption DEF Init
  <2>2. /\ queue \in Seq(Calls) /\ sentCalls \in Seq(Calls) /\ doneCalls \in Seq(Calls)
        /\ replyBox \in Seq(Reply)
    BY DEF Init
  <2> QED BY <2>1, <2>2 DEF Init, TypeOK, TaskStatus, ClientPC, Phase, NoCall
<1>2. \A c \in Calls : ~Sent(c)
  BY DEF Init, Sent
<1> QED
  BY <1>1, <1>2 DEF Init, ClientInv, PendingUntilAnswered, TeardownInOrder, NothingAhead,
                    QueueFresh, OneTaskPerCall, ResultsAreAnswers

(* Every step preserves the invariant. *)
LEMMA NextClient == ClientInv /\ [Next]_vars => ClientInv'
<1> SUFFICES ASSUME ClientInv, [Next]_vars PROVE ClientInv'
  OBVIOUS
<1>1. CASE Post \/ RejectIfOversized
  BY <1>1, PostStep, RejectStep
<1>2. CASE StopPool \/ JoinPool \/ DestroyStub
  BY <1>2, StopPoolStep, JoinPoolStep, DestroyStubStep
<1>3. CASE \E t \in Threads : Task(t)
  BY <1>3, StartTaskStep, ExitThreadStep, SendRequestStep, FutureReadyStep,
     FutureTimeoutStep, DeliverStep DEF Task
<1>4. CASE ProcessReply
  BY <1>4, ProcessReplyStep
<1>5. CASE \E c \in Calls : \E form \in Forms(c) : ServerReplies(c, form)
  BY <1>5, ServerRepliesStep
<1>6. CASE UNCHANGED vars
  BY <1>6 DEF vars, poolVars, stubVars, netVars, userVars, ClientInv, TypeOK,
              PendingUntilAnswered, TeardownInOrder, NothingAhead, QueueFresh,
              OneTaskPerCall, ResultsAreAnswers, Sent
<1> QED BY <1>1, <1>2, <1>3, <1>4, <1>5, <1>6 DEF Next

(* The strengthened invariant holds in every reachable state of the       *)
(* client, whatever its pool, its calls and the replies.                   *)
THEOREM ClientInvariant == Spec => []ClientInv
BY InitClient, NextClient, PTL DEF Spec

(* A sent call is pending exactly until its first reply is processed, for  *)
(* any number of threads and calls: a time-out does not forget the call,   *)
(* and a second or a late reply does not bring it back.                    *)
THEOREM ClientConsistency == Spec => []ClientConsistent
<1>1. ClientInv => ClientConsistent
  BY DEF ClientInv, ClientConsistent
<1> QED BY <1>1, ClientInvariant, PTL

(* A step of the client is a step of Transaction or leaves what the user   *)
(* sees alone.                                                             *)
LEMMA TransactionStep == ClientInv /\ [Next]_vars => [T!TNext]_(T!tVars)
<1> SUFFICES ASSUME ClientInv, [Next]_vars PROVE T!TNext \/ UNCHANGED T!tVars
  OBVIOUS
<1> USE DEF T!tVars, poolVars, stubVars, netVars, userVars
<1>1. CASE Post \/ RejectIfOversized
  BY <1>1 DEF Post, RejectIfOversized, T!TNext, T!Issue
<1>2. CASE StopPool \/ JoinPool
  BY <1>2 DEF StopPool, JoinPool
<1>3. CASE DestroyStub
  BY <1>3 DEF DestroyStub, T!TNext, T!Close
<1>4. ASSUME NEW t \in Threads, Task(t)
      PROVE  T!TNext \/ UNCHANGED T!tVars
  <2>1. CASE StartTask(t) \/ ExitThread(t) \/ FutureReady(t) \/ FutureTimeout(t)
    BY <2>1 DEF StartTask, ExitThread, FutureReady, FutureTimeout
  <2>2. CASE SendRequest(t)
    BY <2>2 DEF SendRequest
  <2>3. CASE Deliver(t)
    <3>1. client # "closed"
      BY <2>3 DEF ClientInv, TeardownInOrder, Deliver
    <3>2. call[t] \in Calls /\ call[t] <= issued /\ completed[call[t]] = "none"
      BY <2>3 DEF ClientInv, OneTaskPerCall, Deliver
    <3>3. /\ status[t] \in T!Failures \cup {"SUCCESS"}
          /\ status[t] = "SUCCESS" => call[t] \in answered
      BY <2>3 DEF ClientInv, ResultsAreAnswers, Deliver
    <3>4. T!Complete(call[t])
      BY <2>3, <3>1, <3>2, <3>3 DEF Deliver, T!Complete
    <3> QED BY <3>2, <3>4 DEF T!TNext, T!Calls, Calls
  <2> QED BY <1>4, <2>1, <2>2, <2>3 DEF Task
<1>5. CASE ProcessReply
  BY <1>5 DEF ProcessReply
<1>6. ASSUME NEW c \in Calls, NEW form \in Forms(c), ServerReplies(c, form)
      PROVE  T!TNext \/ UNCHANGED T!tVars
  <2>1. c <= issued
    BY <1>6 DEF ClientInv, TypeOK, NothingAhead, ServerReplies, Calls
  <2> QED BY <1>6, <2>1 DEF ServerReplies, T!TNext, T!Answer, T!Calls, Calls
<1>7. CASE UNCHANGED vars
  BY <1>7 DEF vars
<1> QED BY <1>1, <1>2, <1>3, <1>4, <1>5, <1>6, <1>7 DEF Next

(* The client implements Transaction, for any number of threads and calls: *)
(* its pool, its futures and the order in which ~Client takes its members  *)
(* down keep what the user is promised, however replies are delayed,       *)
(* duplicated or lost.                                                     *)
THEOREM ClientImplementsTransaction == Spec => ImplementsTransaction
<1>1. Init => T!TInit
  BY DEF Init, T!TInit, Calls, T!Calls
<1> QED BY <1>1, TransactionStep, ClientInvariant, PTL DEF Spec, ImplementsTransaction, T!TSpec

================================================================================
