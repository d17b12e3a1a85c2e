--------------------- MODULE ServerRequestHandler_proofs ---------------------
(***************************************************************************)
(* Proofs about ServerRequestHandler for every set of workers, every width *)
(* of the key and every bound on requests and Reply calls.                 *)
(*                                                                         *)
(* The argument rests on arithmetic modulo the number of keys: the request *)
(* with serial number n holds the key n % KeySpace, so two requests that   *)
(* share a key are at least KeySpace apart.  HandlerInv carries that fact  *)
(* to everything indexed by a key: the map of promises, the promises'      *)
(* values, what a worker collected and how a request ended.                *)
(***************************************************************************)
EXTENDS ServerRequestHandler, TLAPS

-----------------------------------------------------------------------------
(* Keys as residues.                                                       *)

(* Division with remainder, in the form the provers can use. *)
LEMMA DivMod ==
    ASSUME NEW n \in Nat
    PROVE  /\ n \div KeySpace \in Nat
           /\ n % KeySpace \in 0 .. (KeySpace - 1)
           /\ n = KeySpace * (n \div KeySpace) + (n % KeySpace)
BY KeySpaceAssumption

(* Multiples of KeySpace are at least KeySpace apart. *)
LEMMA MultiplesApart ==
    ASSUME NEW p \in Nat, NEW q \in Nat, p < q
    PROVE  KeySpace * q - KeySpace * p >= KeySpace
<1>1. KeySpace * (q - p) >= KeySpace
  BY KeySpaceAssumption
<1> QED BY <1>1, KeySpaceAssumption

(* The quotient and the remainder are unique. *)
LEMMA ModUnique ==
    ASSUME NEW n \in Nat, NEW q \in Nat, NEW m \in 0 .. (KeySpace - 1),
           n = KeySpace * q + m
    PROVE  n % KeySpace = m
<1> DEFINE d == n \div KeySpace
           e == n % KeySpace
<1>1. d \in Nat /\ e \in 0 .. (KeySpace - 1) /\ n = KeySpace * d + e
  BY DivMod
<1>2. KeySpace * d \in Nat /\ KeySpace * q \in Nat
  BY <1>1, KeySpaceAssumption
<1> HIDE DEF d, e
<1>3. ~(q < d)
  <2> SUFFICES ASSUME q < d PROVE FALSE
    OBVIOUS
  <2>1. KeySpace * d - KeySpace * q >= KeySpace
    BY <1>1, MultiplesApart
  <2> QED BY <2>1, <1>1, <1>2, KeySpaceAssumption
<1>4. ~(d < q)
  <2> SUFFICES ASSUME d < q PROVE FALSE
    OBVIOUS
  <2>1. KeySpace * q - KeySpace * d >= KeySpace
    BY <1>1, MultiplesApart
  <2> QED BY <2>1, <1>1, <1>2, KeySpaceAssumption
<1>5. d = q
  BY <1>1, <1>3, <1>4
<1>6. e = m
  BY <1>1, <1>2, <1>5, KeySpaceAssumption
<1> QED BY <1>6 DEF e

(* The key of the n-th request. *)
KeyOf(n) == n % KeySpace

(* It is a key. *)
LEMMA KeyOfType ==
    ASSUME NEW n \in Nat
    PROVE  KeyOf(n) \in Keys
BY DivMod DEF KeyOf, Keys

(* Incrementing the wrapped counter yields the key of the next request. *)
LEMMA KeyOfNext ==
    ASSUME NEW n \in Nat
    PROVE  (KeyOf(n) + 1) % KeySpace = KeyOf(n + 1)
<1> DEFINE q == n \div KeySpace
           m == n % KeySpace
<1>1. q \in Nat /\ m \in 0 .. (KeySpace - 1) /\ n = KeySpace * q + m
  BY DivMod
<1>2. KeySpace * q \in Nat /\ KeySpace * (q + 1) = KeySpace * q + KeySpace
  BY <1>1, KeySpaceAssumption
<1> HIDE DEF q, m
<1>3. CASE m + 1 < KeySpace
  <2>1. m + 1 \in 0 .. (KeySpace - 1)
    BY <1>1, <1>3, KeySpaceAssumption
  <2>2. (n + 1) % KeySpace = m + 1
    <3>1. n + 1 = KeySpace * q + (m + 1)
      BY <1>1, <1>2, KeySpaceAssumption
    <3> QED BY <3>1, <2>1, <1>1, ModUnique
  <2>3. (m + 1) % KeySpace = m + 1
    <3>1. m + 1 \in Nat /\ m + 1 = KeySpace * 0 + (m + 1) /\ 0 \in Nat
      BY <2>1, KeySpaceAssumption
    <3> QED BY <3>1, <2>1, ModUnique
  <2> QED BY <2>2, <2>3 DEF KeyOf, m
<1>4. CASE m + 1 = KeySpace
  <2>1. 0 \in 0 .. (KeySpace - 1)
    BY KeySpaceAssumption
  <2>2. (n + 1) % KeySpace = 0
    <3>1. n + 1 = KeySpace * (q + 1) + 0 /\ q + 1 \in Nat /\ n + 1 \in Nat
      BY <1>1, <1>2, <1>4, KeySpaceAssumption
    <3> QED BY <3>1, <2>1, ModUnique
  <2>3. (m + 1) % KeySpace = 0
    <3>1. m + 1 = KeySpace * 1 + 0 /\ 1 \in Nat /\ m + 1 \in Nat
      BY <1>1, <1>4, KeySpaceAssumption
    <3> QED BY <3>1, <2>1, ModUnique
  <2> QED BY <2>2, <2>3 DEF KeyOf, m
<1> QED BY <1>1, <1>3, <1>4, KeySpaceAssumption

(* Two requests with one key are a full turn of the counter apart. *)
LEMMA KeyOfDistance ==
    ASSUME NEW a \in Nat, NEW b \in Nat, KeyOf(a) = KeyOf(b)
    PROVE  a = b \/ a - b >= KeySpace \/ b - a >= KeySpace
<1> DEFINE p == a \div KeySpace
           q == b \div KeySpace
           m == a % KeySpace
<1>1. /\ p \in Nat /\ q \in Nat /\ m \in 0 .. (KeySpace - 1)
      /\ a = KeySpace * p + m /\ b = KeySpace * q + m
  BY DivMod DEF KeyOf
<1>2. KeySpace * p \in Nat /\ KeySpace * q \in Nat
  BY <1>1, KeySpaceAssumption
<1> HIDE DEF p, q, m
<1>3. CASE p = q
  BY <1>1, <1>3
<1>4. CASE p < q
  <2>1. KeySpace * q - KeySpace * p >= KeySpace
    BY <1>1, <1>4, MultiplesApart
  <2> QED BY <2>1, <1>1, <1>2, KeySpaceAssumption
<1>5. CASE q < p
  <2>1. KeySpace * p - KeySpace * q >= KeySpace
    BY <1>1, <1>5, MultiplesApart
  <2> QED BY <2>1, <1>1, <1>2, KeySpaceAssumption
<1> QED BY <1>1, <1>3, <1>4, <1>5

-----------------------------------------------------------------------------
(* The inductive invariant.                                                *)

(* The wrapped counter is the key of the latest request, and the keys the  *)
(* application holds are those of the requests that were served.           *)
CounterInv == m_requestKeyCounter = KeyOf(served)
HeldKeyInv == owed \subseteq 1 .. served /\ \A r \in 1 .. served : heldKey[r] = KeyOf(r)

(* A busy worker runs a request that was served, with that request's key,  *)
(* and no other worker runs it.                                            *)
WorkerInv ==
    \A w \in Workers : pc[w] # "idle" => req[w] \in 1 .. served /\ currentKey[w] = KeyOf(req[w])
DistinctInv ==
    \A v, w \in Workers : v # w /\ pc[v] # "idle" /\ pc[w] # "idle" => req[v] # req[w]

(* A stored promise is stored under its own request's key, and never       *)
(* before that request is registered.                                      *)
RepliesInv ==
    \A k \in Keys : m_replies[k] # NoReq => m_replies[k] \in 1 .. served /\ KeyOf(m_replies[k]) = k
UnregisteredInv ==
    \A w \in Workers : pc[w] \in {"callback", "register"} => \A k \in Keys : m_replies[k] # req[w]

(* Promises, collected responses and results only carry replies that the   *)
(* application made for a request with the same key.                       *)
PromiseInv ==
    \A r \in Requests : promise[r] # NoValue =>
        /\ promise[r].from \in 1 .. served
        /\ KeyOf(promise[r].from) = KeyOf(r)
        /\ calls[promise[r].from] > 0
ResponseInv ==
    \A w \in Workers : pc[w] = "erase" /\ response[w] # NoValue =>
        /\ response[w].from \in 1 .. served
        /\ KeyOf(response[w].from) = KeyOf(req[w])
OutcomeInv ==
    outcome.status = "SUCCESS" =>
        /\ outcome.req \in 1 .. served
        /\ outcome.from \in 1 .. served
        /\ KeyOf(outcome.from) = KeyOf(outcome.req)

KeyInv  == CounterInv /\ HeldKeyInv /\ WorkerInv /\ DistinctInv
CarryInv == RepliesInv /\ UnregisteredInv /\ PromiseInv /\ ResponseInv /\ OutcomeInv
IInv ==
    /\ TypeOK
    /\ KeyInv
    /\ CarryInv
    /\ WaiterOwnsPromise
    /\ StrayPromisesAreOversized
    /\ NoFutureErrorBeforeWrap

-----------------------------------------------------------------------------
(* Type correctness.                                                       *)

USE DEF NoReq

(* ProcessRequest's return leaves the worker's variables well typed. *)
LEMMA FinishType ==
    ASSUME TypeOK, NEW w \in Workers, NEW status \in Status,
           NEW from \in Requests \cup {NoReq}, Finish(w, status, from)
    PROVE  /\ pc' \in [Workers -> PC]
           /\ req' \in [Workers -> Requests \cup {NoReq}]
           /\ currentKey' \in [Workers -> Keys]
           /\ response' \in [Workers -> Value \cup {NoValue}]
           /\ outcome' \in [req : Requests \cup {NoReq}, status : Status,
                            from : Requests \cup {NoReq}]
BY KeySpaceAssumption DEF TypeOK, Finish, Outcome, PC, Keys

(* Every initial state is well typed. *)
LEMMA InitType == Init => TypeOK
BY KeySpaceAssumption, BoundsAssumption
   DEF Init, TypeOK, Keys, Outcome, Status, PC

(* Every step of a worker or of the application keeps the types. *)
LEMMA NextType == TypeOK /\ WorkerInv /\ [Next]_vars => TypeOK'
<1> SUFFICES ASSUME TypeOK, WorkerInv, [Next]_vars PROVE TypeOK'
  OBVIOUS
<1>1. ASSUME NEW w \in Workers, RejectEmptyRequest(w) PROVE TypeOK'
  <2>1. Finish(w, "CLIENT_REQUEST_SIZE_ERROR", NoReq)
    BY <1>1 DEF RejectEmptyRequest
  <2> QED BY <1>1, <2>1, FinishType DEF RejectEmptyRequest, TypeOK, appVars, Status
<1>2. ASSUME NEW w \in Workers, BeginCallback(w) PROVE TypeOK'
  <2>1. NextKey \in Keys
    BY KeySpaceAssumption DEF TypeOK, NextKey, Keys
  <2>2. served' \in 0 .. MaxRequests /\ served' \in Requests
    BY <1>2, BoundsAssumption DEF TypeOK, BeginCallback, Requests
  <2> QED BY <1>2, <2>1, <2>2 DEF BeginCallback, TypeOK, PC
<1>3. ASSUME NEW w \in Workers, NEW size \in PayloadSize, CallbackReplies(w, size) PROVE TypeOK'
  <2>1. \/ Finish(w, "SUCCESS", req[w])
        \/ Finish(w, "SERVER_REQUEST_SIZE_ERROR", NoReq)
    BY <1>3 DEF CallbackReplies
  <2>2. req[w] \in Requests \cup {NoReq}
    BY DEF TypeOK
  <2> QED BY <1>3, <2>1, <2>2, FinishType DEF CallbackReplies, TypeOK, Status
<1>4. ASSUME NEW w \in Workers, NEW status \in {"SERVER_INTERNAL_ERROR", "UNKNOWN_EXCEPTION"},
             CallbackThrows(w, status)
      PROVE  TypeOK'
  <2>1. Finish(w, status, NoReq)
    BY <1>4 DEF CallbackThrows
  <2> QED BY <1>4, <2>1, FinishType DEF CallbackThrows, TypeOK, Status
<1>5. ASSUME NEW w \in Workers, CallbackDefers(w) PROVE TypeOK'
  BY <1>5 DEF CallbackDefers, TypeOK, PC, appVars
<1>6. ASSUME NEW w \in Workers, RegisterPromise(w) PROVE TypeOK'
  <2>1. CASE m_replies[currentKey[w]] = NoReq
    BY <1>6, <2>1 DEF RegisterPromise, TypeOK, PC, appVars
  <2>2. CASE m_replies[currentKey[w]] # NoReq
    <3>1. Finish(w, "FUTURE_ERROR", NoReq) /\ m_replies' = m_replies
      BY <1>6, <2>2 DEF RegisterPromise
    <3> QED BY <1>6, <3>1, FinishType DEF RegisterPromise, TypeOK, Status, appVars
  <2> QED BY <2>1, <2>2
<1>7. ASSUME NEW w \in Workers, WaitReady(w) PROVE TypeOK'
  <2>1. CASE promise[req[w]].size = "fits"
    <3>1. req[w] \in Requests
      BY <1>7 DEF TypeOK, WorkerInv, WaitReady
    <3> QED BY <1>7, <2>1, <3>1 DEF WaitReady, TypeOK, PC, appVars
  <2>2. CASE promise[req[w]].size = "large"
    <3>1. Finish(w, "SERVER_REQUEST_SIZE_ERROR", NoReq)
      BY <1>7, <2>2 DEF WaitReady
    <3> QED BY <1>7, <3>1, FinishType DEF WaitReady, TypeOK, Status, appVars
  <2> QED BY <1>7, <2>1, <2>2 DEF WaitReady
<1>8. ASSUME NEW w \in Workers, WaitTimeout(w) PROVE TypeOK'
  BY <1>8 DEF WaitTimeout, TypeOK, PC, appVars
<1>9. ASSUME NEW w \in Workers, EraseAndReturn(w) PROVE TypeOK'
  <2>1. \/ /\ response[w] # NoValue
           /\ Finish(w, "SUCCESS", response[w].from)
        \/ Finish(w, "SERVER_NO_REPLY_ERROR", NoReq)
    BY <1>9 DEF EraseAndReturn
  <2>2. response[w] # NoValue => response[w].from \in Requests \cup {NoReq}
    BY DEF TypeOK, Value
  <2> QED BY <1>9, <2>1, <2>2, FinishType DEF EraseAndReturn, TypeOK, Status, appVars
<1>10. ASSUME NEW r \in Requests, NEW size \in PayloadSize, Reply(r, size) PROVE TypeOK'
  <2>1. calls' \in [Requests -> 0 .. MaxReplyCalls]
    BY <1>10, BoundsAssumption DEF Reply, TypeOK
  <2>2. promise' \in [Requests -> Value \cup {NoValue}]
    <3>1. [from |-> r, size |-> size] \in Value
      BY DEF Value
    <3> QED BY <1>10, <3>1 DEF Reply, TypeOK
  <2>3. lastReply' \in [req : Requests \cup {NoReq},
                       result : {"none", "accepted", "dropped", "threw"}]
    BY <1>10 DEF Reply, TypeOK
  <2> QED BY <1>10, <2>1, <2>2, <2>3 DEF Reply, TypeOK
<1>11. CASE UNCHANGED vars
  BY <1>11 DEF vars, appVars, TypeOK
<1> QED BY <1>1, <1>2, <1>3, <1>4, <1>5, <1>6, <1>7, <1>8, <1>9, <1>10, <1>11
        DEF Next, ProcessRequest

-----------------------------------------------------------------------------
(* The invariant is preserved.                                             *)

(* What a return from ProcessRequest does, worker by worker. *)
LEMMA FinishEffect ==
    ASSUME TypeOK, NEW w \in Workers, NEW status, NEW from, Finish(w, status, from)
    PROVE  /\ pc'[w] = "idle"
           /\ outcome'.req = req[w]
           /\ outcome'.status = status
           /\ outcome'.from = from
           /\ \A v \in Workers : v # w =>
                 /\ pc'[v] = pc[v]
                 /\ req'[v] = req[v]
                 /\ currentKey'[v] = currentKey[v]
                 /\ response'[v] = response[v]
BY DEF TypeOK, Finish, Outcome

(* A return leaves the keys and what the other workers run as they were. *)
LEMMA FinishKeepsKeys ==
    ASSUME IInv, NEW w \in Workers, NEW status, NEW from, Finish(w, status, from),
           UNCHANGED <<m_requestKeyCounter, served, promise, heldKey, calls>>,
           owed' \subseteq owed
    PROVE  KeyInv' /\ PromiseInv' /\ ResponseInv'
<1>1. TypeOK /\ KeyInv /\ PromiseInv /\ ResponseInv
  BY DEF IInv, CarryInv
<1>2. CounterInv' /\ HeldKeyInv' /\ PromiseInv'
  BY <1>1 DEF KeyInv, CounterInv, HeldKeyInv, PromiseInv
<1>3. WorkerInv' /\ DistinctInv' /\ ResponseInv'
  BY <1>1, FinishEffect DEF KeyInv, WorkerInv, DistinctInv, ResponseInv
<1> QED BY <1>2, <1>3 DEF KeyInv

(* A return that leaves m_replies alone keeps what is stored there. *)
LEMMA FinishKeepsReplies ==
    ASSUME IInv, NEW w \in Workers, NEW status, NEW from, Finish(w, status, from),
           UNCHANGED <<m_replies, served>>
    PROVE  RepliesInv' /\ UnregisteredInv' /\ WaiterOwnsPromise'
<1>1. TypeOK /\ RepliesInv /\ UnregisteredInv /\ WaiterOwnsPromise
  BY DEF IInv, CarryInv
<1>2. RepliesInv'
  BY <1>1 DEF RepliesInv
<1> QED BY <1>1, <1>2, FinishEffect DEF UnregisteredInv, WaiterOwnsPromise, Waiting

(* A worker that was not waiting cannot have been the one that made a      *)
(* stored promise wanted.                                                  *)
LEMMA FinishKeepsStray ==
    ASSUME IInv, NEW w \in Workers, NEW status, NEW from, Finish(w, status, from),
           ~Waiting(w) \/ promise[req[w]].size = "large", UNCHANGED <<m_replies, promise>>
    PROVE  StrayPromisesAreOversized'
<1>1. TypeOK /\ StrayPromisesAreOversized
  BY DEF IInv
<1>2. \A v \in Workers : v # w => pc'[v] = pc[v] /\ req'[v] = req[v]
  BY <1>1, FinishEffect
<1> SUFFICES ASSUME NEW k \in Keys, m_replies[k] # NoReq,
                    promise[m_replies[k]].size # "large"
             PROVE  \E v \in Workers : Waiting(v)' /\ req'[v] = m_replies[k]
  BY DEF StrayPromisesAreOversized
<1>3. PICK v \in Workers : Waiting(v) /\ req[v] = m_replies[k]
  BY <1>1 DEF StrayPromisesAreOversized
<1>4. v # w
  BY <1>3
<1> QED BY <1>2, <1>3, <1>4 DEF Waiting

(* Before the counter wraps, two served requests with one key are equal. *)
LEMMA OneTurn ==
    ASSUME served \in Nat, served <= KeySpace,
           NEW a \in 1 .. served, NEW b \in 1 .. served, KeyOf(a) = KeyOf(b)
    PROVE  a = b
<1>1. a \in Nat /\ b \in Nat /\ a - b < served /\ b - a < served
  OBVIOUS
<1>2. a = b \/ a - b >= KeySpace \/ b - a >= KeySpace
  BY <1>1, KeyOfDistance
<1> QED BY <1>1, <1>2, KeySpaceAssumption

(* A step that neither serves a request nor touches the latest Reply keeps *)
(* the absence of future errors, if it ends no request with one.           *)
LEMMA NoFutureErrorKept ==
    ASSUME NoFutureErrorBeforeWrap, outcome' = outcome \/ outcome'.status # "FUTURE_ERROR",
           UNCHANGED <<served, calls, lastReply>>
    PROVE  NoFutureErrorBeforeWrap'
BY DEF NoFutureErrorBeforeWrap

(* The invariant holds initially. *)
LEMMA InitInv == Init => IInv
<1> SUFFICES ASSUME Init PROVE IInv
  OBVIOUS
<1>1. TypeOK
  BY InitType
<1>2. KeyOf(0) = 0
  <2>1. 0 \in 0 .. (KeySpace - 1) /\ 0 = KeySpace * 0 + 0
    BY KeySpaceAssumption
  <2> QED BY <2>1, ModUnique DEF KeyOf
<1>3. KeyInv
  BY <1>2 DEF Init, KeyInv, CounterInv, HeldKeyInv, WorkerInv, DistinctInv
<1>4. CarryInv
  BY DEF Init, CarryInv, RepliesInv, UnregisteredInv, PromiseInv, ResponseInv, OutcomeInv,
         Outcome
<1>5. WaiterOwnsPromise /\ StrayPromisesAreOversized /\ NoFutureErrorBeforeWrap
  BY DEF Init, WaiterOwnsPromise, StrayPromisesAreOversized, NoFutureErrorBeforeWrap,
         Waiting, Outcome
<1> QED BY <1>1, <1>3, <1>4, <1>5 DEF IInv

(* Every step keeps the invariant. *)
LEMMA NextInv == IInv /\ [Next]_vars => IInv'
<1> SUFFICES ASSUME IInv, [Next]_vars PROVE IInv'
  OBVIOUS
<1>a. TypeOK /\ KeyInv /\ CarryInv /\ WaiterOwnsPromise /\ StrayPromisesAreOversized
      /\ NoFutureErrorBeforeWrap
  BY DEF IInv
<1>b. CounterInv /\ HeldKeyInv /\ WorkerInv /\ DistinctInv /\ RepliesInv /\ UnregisteredInv
      /\ PromiseInv /\ ResponseInv /\ OutcomeInv
  BY <1>a DEF KeyInv, CarryInv
<1>t. TypeOK'
  BY <1>a, <1>b, NextType
<1>s. served \in Nat /\ 1 .. served \subseteq Requests
  BY <1>a, BoundsAssumption DEF TypeOK, Requests
<1>1. ASSUME NEW w \in Workers, RejectEmptyRequest(w) PROVE IInv'
  <2>1. /\ Finish(w, "CLIENT_REQUEST_SIZE_ERROR", NoReq)
        /\ UNCHANGED <<m_requestKeyCounter, m_replies, promise, served, heldKey, owed, calls,
                       lastReply>>
        /\ ~Waiting(w)
    BY <1>1 DEF RejectEmptyRequest, appVars, Waiting
  <2>2. outcome'.status = "CLIENT_REQUEST_SIZE_ERROR"
    BY <1>a, <2>1, FinishEffect
  <2>3. KeyInv' /\ PromiseInv' /\ ResponseInv'
    BY <2>1, FinishKeepsKeys
  <2>4. RepliesInv' /\ UnregisteredInv' /\ WaiterOwnsPromise' /\ StrayPromisesAreOversized'
    BY <2>1, FinishKeepsReplies, FinishKeepsStray
  <2>5. OutcomeInv' /\ NoFutureErrorBeforeWrap'
    BY <1>a, <2>1, <2>2, NoFutureErrorKept DEF OutcomeInv
  <2> QED BY <1>t, <2>3, <2>4, <2>5 DEF IInv, CarryInv
<1>2. ASSUME NEW w \in Workers, BeginCallback(w) PROVE IInv'
  <2> DEFINE r == served + 1
  <2>1. /\ r \in Requests /\ r \in Nat /\ served' = r /\ r \in 1 .. served'
        /\ 1 .. served \subseteq 1 .. served'
    BY <1>2, <1>a, BoundsAssumption DEF BeginCallback, TypeOK, Requests
  <2>2. NextKey = KeyOf(r)
    BY <1>a, <1>b, <1>s, KeyOfNext DEF NextKey, CounterInv
  <2>3. /\ pc[w] = "idle" /\ pc'[w] = "callback" /\ req'[w] = r /\ currentKey'[w] = KeyOf(r)
        /\ \A v \in Workers : v # w =>
              pc'[v] = pc[v] /\ req'[v] = req[v] /\ currentKey'[v] = currentKey[v]
    BY <1>2, <1>a, <2>1, <2>2 DEF BeginCallback, TypeOK
  <2>4. UNCHANGED <<m_replies, promise, response, outcome, calls, lastReply>>
    BY <1>2 DEF BeginCallback
  <2>5. CounterInv' /\ HeldKeyInv'
    <3>1. \A q \in 1 .. served' : heldKey'[q] = KeyOf(q)
      BY <1>2, <1>a, <1>b, <1>s, <2>1, <2>2 DEF BeginCallback, TypeOK, HeldKeyInv
    <3> QED BY <1>2, <1>b, <2>1, <2>2, <3>1 DEF BeginCallback, CounterInv, HeldKeyInv
  <2>6. WorkerInv' /\ DistinctInv'
    <3>1. \A v \in Workers : pc[v] # "idle" => req[v] # r
      BY <1>b, <1>s DEF WorkerInv
    <3> QED BY <1>b, <2>1, <2>3, <3>1 DEF WorkerInv, DistinctInv
  <2>7. RepliesInv' /\ UnregisteredInv'
    <3>1. \A k \in Keys : m_replies[k] # r
      BY <1>b, <1>s DEF RepliesInv
    <3> QED BY <1>b, <2>1, <2>3, <2>4, <3>1 DEF RepliesInv, UnregisteredInv
  <2>8. PromiseInv' /\ ResponseInv' /\ OutcomeInv'
    <3>1. PromiseInv'
      BY <1>b, <2>1, <2>4 DEF PromiseInv
    <3>2. ResponseInv'
      BY <1>b, <2>1, <2>3, <2>4 DEF ResponseInv
    <3>3. OutcomeInv'
      BY <1>b, <2>1, <2>4 DEF OutcomeInv
    <3> QED BY <3>1, <3>2, <3>3
  <2>9. WaiterOwnsPromise' /\ StrayPromisesAreOversized'
    <3>1. \A v \in Workers : Waiting(v)' <=> Waiting(v)
      BY <2>3 DEF Waiting
    <3>2. \A v \in Workers : Waiting(v) => v # w
      BY <2>3 DEF Waiting
    <3> QED BY <1>a, <2>3, <2>4, <3>1, <3>2 DEF WaiterOwnsPromise, StrayPromisesAreOversized
  <2>10. NoFutureErrorBeforeWrap'
    <3>1. served' <= KeySpace => served <= KeySpace
      BY <1>s, <2>1, KeySpaceAssumption
    <3> QED BY <1>a, <2>4, <3>1 DEF NoFutureErrorBeforeWrap
  <2> QED BY <1>t, <2>5, <2>6, <2>7, <2>8, <2>9, <2>10 DEF IInv, KeyInv, CarryInv
<1>3. ASSUME NEW w \in Workers, NEW size \in PayloadSize, CallbackReplies(w, size) PROVE IInv'
  <2>1. /\ pc[w] = "callback"
        /\ UNCHANGED <<m_requestKeyCounter, m_replies, promise, served, heldKey, calls, lastReply>>
        /\ owed' \subseteq owed
        /\ ~Waiting(w)
    BY <1>3 DEF CallbackReplies, Waiting
  <2>2. PICK status, from :
          /\ Finish(w, status, from)
          /\ \/ status = "SUCCESS" /\ from = req[w]
             \/ status = "SERVER_REQUEST_SIZE_ERROR"
    BY <1>3 DEF CallbackReplies
  <2>3. outcome'.req = req[w] /\ outcome'.status = status /\ outcome'.from = from
    BY <1>a, <2>2, FinishEffect
  <2>4. KeyInv' /\ PromiseInv' /\ ResponseInv'
    BY <2>1, <2>2, FinishKeepsKeys
  <2>5. RepliesInv' /\ UnregisteredInv' /\ WaiterOwnsPromise' /\ StrayPromisesAreOversized'
    BY <2>1, <2>2, FinishKeepsReplies, FinishKeepsStray
  <2>6. OutcomeInv'
    BY <1>b, <2>1, <2>2, <2>3 DEF OutcomeInv, WorkerInv
  <2>7. NoFutureErrorBeforeWrap'
    BY <1>a, <2>1, <2>2, <2>3, NoFutureErrorKept
  <2> QED BY <1>t, <2>4, <2>5, <2>6, <2>7 DEF IInv, CarryInv
<1>4. ASSUME NEW w \in Workers, NEW status \in {"SERVER_INTERNAL_ERROR", "UNKNOWN_EXCEPTION"},
             CallbackThrows(w, status)
      PROVE  IInv'
  <2>1. /\ Finish(w, status, NoReq)
        /\ UNCHANGED <<m_requestKeyCounter, m_replies, promise, served, heldKey, calls, lastReply>>
        /\ owed' \subseteq owed
        /\ ~Waiting(w)
    BY <1>4 DEF CallbackThrows, Waiting
  <2>2. outcome'.status = status
    BY <1>a, <2>1, FinishEffect
  <2>3. KeyInv' /\ PromiseInv' /\ ResponseInv'
    BY <2>1, FinishKeepsKeys
  <2>4. RepliesInv' /\ UnregisteredInv' /\ WaiterOwnsPromise' /\ StrayPromisesAreOversized'
    BY <2>1, FinishKeepsReplies, FinishKeepsStray
  <2>5. OutcomeInv' /\ NoFutureErrorBeforeWrap'
    BY <1>a, <2>1, <2>2, NoFutureErrorKept DEF OutcomeInv
  <2> QED BY <1>t, <2>3, <2>4, <2>5 DEF IInv, CarryInv
<1>5. ASSUME NEW w \in Workers, CallbackDefers(w) PROVE IInv'
  <2>1. /\ pc[w] = "callback" /\ pc'[w] = "register"
        /\ \A v \in Workers : v # w => pc'[v] = pc[v]
        /\ UNCHANGED <<m_requestKeyCounter, m_replies, promise, served, req, currentKey,
                       response, outcome, heldKey, owed, calls, lastReply>>
    BY <1>5, <1>a DEF CallbackDefers, TypeOK, appVars
  <2>2. KeyInv'
    BY <1>b, <2>1 DEF KeyInv, CounterInv, HeldKeyInv, WorkerInv, DistinctInv
  <2>3. CarryInv'
    BY <1>b, <2>1 DEF CarryInv, RepliesInv, UnregisteredInv, PromiseInv, ResponseInv, OutcomeInv
  <2>4. WaiterOwnsPromise' /\ StrayPromisesAreOversized' /\ NoFutureErrorBeforeWrap'
    <3>1. \A v \in Workers : Waiting(v)' <=> Waiting(v)
      BY <2>1 DEF Waiting
    <3> QED BY <1>a, <2>1, <3>1
            DEF WaiterOwnsPromise, StrayPromisesAreOversized, NoFutureErrorBeforeWrap
  <2> QED BY <1>t, <2>2, <2>3, <2>4 DEF IInv
<1>6. ASSUME NEW w \in Workers, RegisterPromise(w) PROVE IInv'
  <2> DEFINE key == currentKey[w]
  <2>1. /\ pc[w] = "register" /\ ~Waiting(w) /\ key \in Keys
        /\ req[w] \in 1 .. served /\ key = KeyOf(req[w])
        /\ UNCHANGED <<m_requestKeyCounter, promise, served, heldKey, owed, calls, lastReply>>
    BY <1>6, <1>a, <1>b DEF RegisterPromise, appVars, Waiting, WorkerInv, TypeOK
  <2>2. CASE m_replies[key] = NoReq
    <3>1. /\ m_replies'[key] = req[w]
          /\ \A k \in Keys : k # key => m_replies'[k] = m_replies[k]
          /\ pc'[w] = "wait"
          /\ \A v \in Workers : v # w => pc'[v] = pc[v]
          /\ UNCHANGED <<req, currentKey, response, outcome>>
      BY <1>6, <1>a, <2>1, <2>2 DEF RegisterPromise, TypeOK
    <3> HIDE DEF key
    <3>2. KeyInv'
      BY <1>b, <2>1, <3>1 DEF KeyInv, CounterInv, HeldKeyInv, WorkerInv, DistinctInv
    <3>3. RepliesInv'
      BY <1>b, <2>1, <3>1 DEF RepliesInv
    <3>4. UnregisteredInv'
      BY <1>b, <2>1, <3>1 DEF UnregisteredInv, DistinctInv
    <3>5. PromiseInv' /\ ResponseInv' /\ OutcomeInv'
      BY <1>b, <2>1, <3>1 DEF PromiseInv, ResponseInv, OutcomeInv
    <3>6. WaiterOwnsPromise'
      <4> SUFFICES ASSUME NEW v \in Workers, Waiting(v)' PROVE m_replies'[currentKey[v]] = req[v]
        BY <3>1 DEF WaiterOwnsPromise
      <4>1. CASE v = w
        BY <3>1, <4>1 DEF key
      <4>2. CASE v # w
        <5>1. Waiting(v) /\ currentKey[v] \in Keys /\ req[v] \in 1 .. served
          BY <1>a, <1>b, <3>1, <4>2 DEF Waiting, TypeOK, WorkerInv
        <5>2. m_replies[currentKey[v]] = req[v] /\ req[v] # NoReq
          BY <1>a, <5>1 DEF WaiterOwnsPromise
        <5>3. currentKey[v] # key
          BY <2>2, <5>2
        <5> QED BY <3>1, <5>1, <5>2, <5>3
      <4> QED BY <4>1, <4>2
    <3>7. StrayPromisesAreOversized'
      <4> SUFFICES ASSUME NEW k \in Keys, m_replies'[k] # NoReq,
                          promise[m_replies'[k]].size # "large"
                   PROVE  \E v \in Workers : Waiting(v)' /\ req[v] = m_replies'[k]
        BY <2>1, <3>1 DEF StrayPromisesAreOversized
      <4>1. CASE k = key
        BY <3>1, <4>1 DEF Waiting
      <4>2. CASE k # key
        <5>1. PICK v \in Workers : Waiting(v) /\ req[v] = m_replies[k]
          BY <1>a, <3>1, <4>2 DEF StrayPromisesAreOversized
        <5> QED BY <2>1, <3>1, <4>2, <5>1 DEF Waiting
      <4> QED BY <4>1, <4>2
    <3>8. NoFutureErrorBeforeWrap'
      BY <1>a, <2>1, <3>1, NoFutureErrorKept
    <3> QED BY <1>t, <3>2, <3>3, <3>4, <3>5, <3>6, <3>7, <3>8 DEF IInv, CarryInv
  <2>3. CASE m_replies[key] # NoReq
    <3>1. Finish(w, "FUTURE_ERROR", NoReq) /\ m_replies' = m_replies
      BY <1>6, <2>3 DEF RegisterPromise
    <3>2. outcome'.status = "FUTURE_ERROR"
      BY <1>a, <3>1, FinishEffect
    <3>3. KeyInv' /\ PromiseInv' /\ ResponseInv'
      BY <2>1, <3>1, FinishKeepsKeys
    <3>4. RepliesInv' /\ UnregisteredInv' /\ WaiterOwnsPromise' /\ StrayPromisesAreOversized'
      BY <2>1, <3>1, FinishKeepsReplies, FinishKeepsStray
    <3>5. OutcomeInv'
      BY <3>2 DEF OutcomeInv
    <3>6. served > KeySpace
      <4>1. m_replies[key] \in 1 .. served /\ KeyOf(m_replies[key]) = KeyOf(req[w])
        BY <1>b, <2>1, <2>3 DEF RepliesInv
      <4>2. m_replies[key] # req[w]
        BY <1>b, <2>1 DEF UnregisteredInv
      <4>3. ~(served <= KeySpace)
        BY <1>s, <2>1, <4>1, <4>2, OneTurn
      <4> QED BY <1>s, <4>3, KeySpaceAssumption
    <3>7. NoFutureErrorBeforeWrap'
      BY <1>s, <2>1, <3>6, KeySpaceAssumption DEF NoFutureErrorBeforeWrap
    <3> QED BY <1>t, <3>3, <3>4, <3>5, <3>7 DEF IInv, CarryInv
  <2> QED BY <2>2, <2>3
<1>7. ASSUME NEW w \in Workers, WaitReady(w) PROVE IInv'
  <2>1. /\ pc[w] = "wait" /\ req[w] \in Requests /\ promise[req[w]] # NoValue
        /\ UNCHANGED <<m_requestKeyCounter, m_replies, promise, served, heldKey, owed, calls,
                       lastReply>>
    BY <1>7, <1>b, <1>s DEF WaitReady, appVars, WorkerInv
  <2>2. CASE promise[req[w]].size = "fits"
    <3>1. /\ pc'[w] = "erase" /\ response'[w] = promise[req[w]]
          /\ \A v \in Workers : v # w => pc'[v] = pc[v] /\ response'[v] = response[v]
          /\ UNCHANGED <<req, currentKey, outcome>>
      BY <1>7, <1>a, <2>2 DEF WaitReady, TypeOK
    <3>2. KeyInv'
      BY <1>b, <2>1, <3>1 DEF KeyInv, CounterInv, HeldKeyInv, WorkerInv, DistinctInv
    <3>3. RepliesInv' /\ UnregisteredInv' /\ PromiseInv' /\ OutcomeInv'
      BY <1>b, <2>1, <3>1 DEF RepliesInv, UnregisteredInv, PromiseInv, OutcomeInv
    <3>4. ResponseInv'
      BY <1>b, <2>1, <3>1 DEF ResponseInv, PromiseInv
    <3>5. WaiterOwnsPromise' /\ StrayPromisesAreOversized'
      <4>1. \A v \in Workers : Waiting(v)' <=> Waiting(v)
        BY <2>1, <3>1 DEF Waiting
      <4> QED BY <1>a, <2>1, <3>1, <4>1 DEF WaiterOwnsPromise, StrayPromisesAreOversized
    <3>6. NoFutureErrorBeforeWrap'
      BY <1>a, <2>1, <3>1, NoFutureErrorKept
    <3> QED BY <1>t, <3>2, <3>3, <3>4, <3>5, <3>6 DEF IInv, CarryInv
  <2>3. CASE promise[req[w]].size = "large"
    <3>1. Finish(w, "SERVER_REQUEST_SIZE_ERROR", NoReq)
      BY <1>7, <2>3 DEF WaitReady
    <3>2. outcome'.status = "SERVER_REQUEST_SIZE_ERROR"
      BY <1>a, <3>1, FinishEffect
    <3>3. KeyInv' /\ PromiseInv' /\ ResponseInv'
      BY <2>1, <3>1, FinishKeepsKeys
    <3>4. RepliesInv' /\ UnregisteredInv' /\ WaiterOwnsPromise' /\ StrayPromisesAreOversized'
      BY <2>1, <2>3, <3>1, FinishKeepsReplies, FinishKeepsStray
    <3>5. OutcomeInv' /\ NoFutureErrorBeforeWrap'
      BY <1>a, <2>1, <3>2, NoFutureErrorKept DEF OutcomeInv
    <3> QED BY <1>t, <3>3, <3>4, <3>5 DEF IInv, CarryInv
  <2> QED BY <1>7, <2>2, <2>3 DEF WaitReady
<1>8. ASSUME NEW w \in Workers, WaitTimeout(w) PROVE IInv'
  <2>1. /\ pc[w] = "wait" /\ pc'[w] = "erase" /\ response'[w] = NoValue
        /\ \A v \in Workers : v # w => pc'[v] = pc[v] /\ response'[v] = response[v]
        /\ UNCHANGED <<m_requestKeyCounter, m_replies, promise, served, req, currentKey,
                       outcome, heldKey, owed, calls, lastReply>>
    BY <1>8, <1>a DEF WaitTimeout, TypeOK, appVars
  <2>2. KeyInv'
    BY <1>b, <2>1 DEF KeyInv, CounterInv, HeldKeyInv, WorkerInv, DistinctInv
  <2>3. CarryInv'
    BY <1>b, <2>1 DEF CarryInv, RepliesInv, UnregisteredInv, PromiseInv, ResponseInv, OutcomeInv
  <2>4. WaiterOwnsPromise' /\ StrayPromisesAreOversized' /\ NoFutureErrorBeforeWrap'
    <3>1. \A v \in Workers : Waiting(v)' <=> Waiting(v)
      BY <2>1 DEF Waiting
    <3> QED BY <1>a, <2>1, <3>1
            DEF WaiterOwnsPromise, StrayPromisesAreOversized, NoFutureErrorBeforeWrap
  <2> QED BY <1>t, <2>2, <2>3, <2>4 DEF IInv
<1>9. ASSUME NEW w \in Workers, EraseAndReturn(w) PROVE IInv'
  <2> DEFINE key == currentKey[w]
  <2>1. /\ pc[w] = "erase" /\ key \in Keys
        /\ req[w] \in 1 .. served /\ key = KeyOf(req[w])
        /\ m_replies'[key] = NoReq
        /\ \A k \in Keys : k # key => m_replies'[k] = m_replies[k]
        /\ UNCHANGED <<m_requestKeyCounter, promise, served, heldKey, owed, calls, lastReply>>
    BY <1>9, <1>a, <1>b DEF EraseAndReturn, appVars, WorkerInv, TypeOK
  <2>2. PICK status, from :
          /\ Finish(w, status, from)
          /\ \/ status = "SUCCESS" /\ response[w] # NoValue /\ from = response[w].from
             \/ status = "SERVER_NO_REPLY_ERROR"
    BY <1>9 DEF EraseAndReturn
  <2>3. /\ outcome'.req = req[w] /\ outcome'.status = status /\ outcome'.from = from
        /\ pc'[w] = "idle"
        /\ \A v \in Workers : v # w =>
              pc'[v] = pc[v] /\ req'[v] = req[v] /\ currentKey'[v] = currentKey[v]
    BY <1>a, <2>2, FinishEffect
  <2> HIDE DEF key
  <2>4. KeyInv' /\ PromiseInv' /\ ResponseInv'
    BY <2>1, <2>2, FinishKeepsKeys
  <2>5. RepliesInv'
    BY <1>b, <2>1 DEF RepliesInv
  <2>6. UnregisteredInv'
    <3>1. \A v \in Workers : pc[v] # "idle" => req[v] # NoReq
      BY <1>b DEF WorkerInv
    <3> QED BY <1>b, <2>1, <2>3, <3>1 DEF UnregisteredInv
  <2>7. OutcomeInv'
    BY <1>b, <2>1, <2>2, <2>3 DEF OutcomeInv, ResponseInv
  <2>8. WaiterOwnsPromise'
    <3> SUFFICES ASSUME NEW v \in Workers, Waiting(v)' PROVE m_replies'[currentKey'[v]] = req'[v]
      BY DEF WaiterOwnsPromise
    <3>1. v # w /\ Waiting(v) /\ currentKey'[v] = currentKey[v] /\ req'[v] = req[v]
      BY <2>3 DEF Waiting
    <3>2. m_replies[currentKey[v]] = req[v] /\ currentKey[v] \in Keys
      BY <1>a, <3>1 DEF WaiterOwnsPromise, TypeOK
    <3>3. m_replies[key] = req[w]
      BY <1>a, <2>1 DEF WaiterOwnsPromise, Waiting, key
    <3>4. req[v] # req[w]
      BY <1>b, <2>1, <3>1 DEF DistinctInv, Waiting
    <3>5. currentKey[v] # key
      BY <3>2, <3>3, <3>4
    <3> QED BY <2>1, <3>1, <3>2, <3>5
  <2>9. StrayPromisesAreOversized'
    <3> SUFFICES ASSUME NEW k \in Keys, m_replies'[k] # NoReq,
                        promise[m_replies'[k]].size # "large"
                 PROVE  \E v \in Workers : Waiting(v)' /\ req'[v] = m_replies'[k]
      BY <2>1 DEF StrayPromisesAreOversized
    <3>1. k # key /\ m_replies'[k] = m_replies[k]
      BY <2>1
    <3>2. PICK v \in Workers : Waiting(v) /\ req[v] = m_replies[k]
      BY <1>a, <3>1 DEF StrayPromisesAreOversized
    <3>3. KeyOf(req[v]) = k
      BY <1>b, <3>1, <3>2 DEF RepliesInv
    <3>4. v # w
      BY <2>1, <3>1, <3>3
    <3> QED BY <2>3, <3>1, <3>2, <3>4 DEF Waiting
  <2>10. NoFutureErrorBeforeWrap'
    BY <1>a, <2>1, <2>2, <2>3, NoFutureErrorKept
  <2> QED BY <1>t, <2>4, <2>5, <2>6, <2>7, <2>8, <2>9, <2>10 DEF IInv, CarryInv
<1>10. ASSUME NEW r \in Requests, NEW size \in PayloadSize, Reply(r, size) PROVE IInv'
  <2> DEFINE owner == m_replies[heldKey[r]]
  <2>1. /\ r \in 1 .. served /\ heldKey[r] = KeyOf(r) /\ heldKey[r] \in Keys
        /\ calls'[r] = calls[r] + 1
        /\ \A q \in Requests : q # r => calls'[q] = calls[q]
        /\ UNCHANGED <<m_requestKeyCounter, m_replies, served, pc, req, currentKey, response,
                       outcome, heldKey, owed>>
    BY <1>10, <1>a, <1>b DEF Reply, TypeOK, HeldKeyInv
  <2>2. owner # NoReq => owner \in 1 .. served /\ owner \in Requests /\ KeyOf(owner) = KeyOf(r)
    BY <1>b, <1>s, <2>1 DEF RepliesInv
  <2>3. /\ \A q \in Requests : calls[q] \in Nat /\ calls'[q] \in Nat /\ calls'[q] >= calls[q]
        /\ calls'[r] > 0
    BY <1>a, <1>t, <2>1, BoundsAssumption DEF TypeOK
  <2>4. \/ promise' = promise /\ lastReply' = [req |-> r, result |-> "dropped"]
        \/ /\ owner # NoReq /\ promise[owner] # NoValue
           /\ promise' = promise /\ lastReply' = [req |-> r, result |-> "threw"]
        \/ /\ owner # NoReq /\ promise[owner] = NoValue
           /\ promise' = [promise EXCEPT ![owner] = [from |-> r, size |-> size]]
           /\ lastReply' = [req |-> r, result |-> "accepted"]
    BY <1>10 DEF Reply
  <2> HIDE DEF owner
  <2>5. KeyInv'
    BY <1>b, <2>1 DEF KeyInv, CounterInv, HeldKeyInv, WorkerInv, DistinctInv
  <2>6. RepliesInv' /\ UnregisteredInv' /\ ResponseInv' /\ OutcomeInv' /\ WaiterOwnsPromise'
    BY <1>a, <1>b, <2>1
       DEF RepliesInv, UnregisteredInv, ResponseInv, OutcomeInv, WaiterOwnsPromise, Waiting
  <2>7. PromiseInv'
    <3> SUFFICES ASSUME NEW q \in Requests, promise'[q] # NoValue
                 PROVE  /\ promise'[q].from \in 1 .. served
                        /\ KeyOf(promise'[q].from) = KeyOf(q)
                        /\ calls'[promise'[q].from] > 0
      BY <2>1 DEF PromiseInv
    <3>1. CASE promise'[q] = promise[q]
      BY <1>b, <1>s, <2>3, <3>1 DEF PromiseInv
    <3>2. CASE promise'[q] # promise[q]
      <4>1. q = owner /\ promise'[q] = [from |-> r, size |-> size] /\ owner # NoReq
        BY <1>a, <2>4, <3>2 DEF TypeOK
      <4> QED BY <2>1, <2>2, <2>3, <4>1
    <3> QED BY <3>1, <3>2
  <2>8. StrayPromisesAreOversized'
    <3> SUFFICES ASSUME NEW k \in Keys, m_replies[k] # NoReq,
                        promise'[m_replies[k]].size # "large"
                 PROVE  \E v \in Workers : Waiting(v) /\ req[v] = m_replies[k]
      BY <2>1 DEF StrayPromisesAreOversized, Waiting
    <3>1. m_replies[k] \in Requests
      BY <1>b, <1>s DEF RepliesInv
    <3>2. promise[m_replies[k]].size # "large"
      BY <1>a, <2>4, <3>1 DEF TypeOK, NoValue
    <3> QED BY <1>a, <3>2 DEF StrayPromisesAreOversized
  <2>9. NoFutureErrorBeforeWrap'
    <3> SUFFICES ASSUME served <= KeySpace, lastReply'.result = "threw"
                 PROVE  calls'[lastReply'.req] > 1
      BY <1>a, <2>1 DEF NoFutureErrorBeforeWrap
    <3>1. owner # NoReq /\ promise[owner] # NoValue /\ lastReply'.req = r
      BY <2>4
    <3>2. owner = r
      BY <1>s, <2>1, <2>2, <3>1, OneTurn
    <3>3. promise[r].from \in 1 .. served /\ KeyOf(promise[r].from) = KeyOf(r)
          /\ calls[promise[r].from] > 0
      BY <1>b, <3>1, <3>2 DEF PromiseInv
    <3>4. promise[r].from = r
      BY <1>s, <2>1, <3>3, OneTurn
    <3> QED BY <2>1, <2>3, <3>1, <3>3, <3>4
  <2> QED BY <1>t, <2>5, <2>6, <2>7, <2>8, <2>9 DEF IInv, CarryInv
<1>11. CASE UNCHANGED vars
  <2>1. KeyInv' /\ CarryInv'
    BY <1>b, <1>11 DEF vars, appVars, KeyInv, CounterInv, HeldKeyInv, WorkerInv, DistinctInv,
       CarryInv, RepliesInv, UnregisteredInv, PromiseInv, ResponseInv, OutcomeInv
  <2>2. WaiterOwnsPromise' /\ StrayPromisesAreOversized' /\ NoFutureErrorBeforeWrap'
    BY <1>a, <1>11 DEF vars, appVars, WaiterOwnsPromise, StrayPromisesAreOversized,
       NoFutureErrorBeforeWrap, Waiting
  <2> QED BY <1>t, <2>1, <2>2 DEF IInv
<1> QED BY <1>1, <1>2, <1>3, <1>4, <1>5, <1>6, <1>7, <1>8, <1>9, <1>10, <1>11
        DEF Next, ProcessRequest

-----------------------------------------------------------------------------
(* The theorems.                                                           *)

(* The inductive invariant holds in every reachable state. *)
THEOREM InvariantHolds == Spec => []IInv
BY InitInv, NextInv, PTL DEF Spec

(* The handler's and the application's state always has its types; in      *)
(* particular the key counter never leaves the range of its integer type.  *)
THEOREM TypeCorrect == Spec => []TypeOK
<1>1. IInv => TypeOK
  BY DEF IInv
<1> QED BY <1>1, InvariantHolds, PTL

(* Whatever the width of the key and however many workers there are, the   *)
(* promise under a waiting worker's key is the one it waits on.            *)
THEOREM WaiterSafe == Spec => []WaiterOwnsPromise
<1>1. IInv => WaiterOwnsPromise
  BY DEF IInv
<1> QED BY <1>1, InvariantHolds, PTL

(* The only promises left behind in m_replies are those whose reply was    *)
(* too large.                                                              *)
THEOREM StraySafe == Spec => []StrayPromisesAreOversized
<1>1. IInv => StrayPromisesAreOversized
  BY DEF IInv
<1> QED BY <1>1, InvariantHolds, PTL

(* A request is never answered with the reply to another one unless the    *)
(* 16-bit counter made a full turn between the two.                        *)
THEOREM ReplySafe == Spec => []ReplyReachesItsRequest
<1>1. IInv => ReplyReachesItsRequest
  <2> SUFFICES ASSUME IInv, outcome.status = "SUCCESS"
               PROVE  \/ outcome.from = outcome.req
                      \/ outcome.from - outcome.req >= KeySpace
                      \/ outcome.req - outcome.from >= KeySpace
    BY DEF ReplyReachesItsRequest
  <2>1. outcome.from \in Nat /\ outcome.req \in Nat /\ KeyOf(outcome.from) = KeyOf(outcome.req)
    BY DEF IInv, CarryInv, OutcomeInv
  <2> QED BY <2>1, KeyOfDistance
<1> QED BY <1>1, InvariantHolds, PTL

(* Within the first turn of the counter no request fails on an occupied    *)
(* key and Reply throws only when it is repeated for one request.          *)
THEOREM NoFutureErrors == Spec => []NoFutureErrorBeforeWrap
<1>1. IInv => NoFutureErrorBeforeWrap
  BY DEF IInv
<1> QED BY <1>1, InvariantHolds, PTL

(* The first Reply made while its request waits always reaches the promise *)
(* of that request.                                                        *)
THEOREM ReplyTaken == Spec => WaitingRequestTakesReply
<1> DEFINE Taken ==
      \A w \in Workers : pc[w] = "wait" /\ calls[req[w]] = 0 /\ calls'[req[w]] = 1
          => promise'[req[w]] # NoValue
<1>1. IInv /\ [Next]_vars => [Taken]_vars
  <2> SUFFICES ASSUME IInv, Next, NEW w \in Workers,
                      pc[w] = "wait", calls[req[w]] = 0, calls'[req[w]] = 1
               PROVE  promise'[req[w]] # NoValue
    OBVIOUS
  <2>1. TypeOK /\ HeldKeyInv /\ WorkerInv /\ WaiterOwnsPromise
    BY DEF IInv, KeyInv
  <2>2. req[w] \in 1 .. served /\ req[w] \in Requests /\ currentKey[w] = KeyOf(req[w])
        /\ heldKey[req[w]] = currentKey[w] /\ m_replies[currentKey[w]] = req[w]
    BY <2>1, BoundsAssumption
       DEF TypeOK, Requests, HeldKeyInv, WorkerInv, WaiterOwnsPromise, Waiting
  <2>3. calls' # calls
    OBVIOUS
  <2>4. PICK r \in Requests, size \in PayloadSize : Reply(r, size)
    BY <2>3 DEF Next, ProcessRequest, RejectEmptyRequest, BeginCallback, CallbackReplies,
       CallbackThrows, CallbackDefers, RegisterPromise, WaitReady, WaitTimeout, EraseAndReturn,
       appVars
  <2>5. r = req[w]
    BY <2>1, <2>2, <2>4 DEF Reply, TypeOK
  <2> QED BY <2>1, <2>2, <2>4, <2>5 DEF Reply, TypeOK, NoValue
<1> QED BY <1>1, InvariantHolds, PTL DEF Spec, WaitingRequestTakesReply
=============================================================================
