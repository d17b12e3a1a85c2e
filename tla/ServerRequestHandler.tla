------------------------ MODULE ServerRequestHandler ------------------------
(***************************************************************************)
(* The server-side request handler of the DDS framework                    *)
(* (lib/framework/dds/server/ServerRequestHandler.cpp).  A worker thread   *)
(* of the RPC server runs ProcessRequest: it takes the next 16-bit key,    *)
(* invokes the application's callback and, when the callback defers with   *)
(* std::nullopt, parks a promise under the key in m_replies and waits for  *)
(* up to n_ReplyTimeout until some application thread calls Reply(key).    *)
(*                                                                         *)
(* A request is named by its serial number, the how-manieth one that got a *)
(* key.  A payload is reduced to the request whose handling produced it    *)
(* and to whether it fits n_MaxPayloadByteCount.  The deadline of wait_for *)
(* may pass at any moment; m_replyMutex makes each critical section one    *)
(* step.                                                                   *)
(***************************************************************************)
EXTENDS Integers

CONSTANTS
    Workers,        \* the threads that run ProcessRequest
    KeySpace,       \* number of values of uint_least16_t: 2^16 in the code
    MaxRequests,    \* bound on the requests that get a key
    MaxReplyCalls   \* bound on the application's Reply calls per request

ASSUME KeySpaceAssumption == KeySpace \in Nat \ {0}
ASSUME BoundsAssumption   == MaxRequests \in Nat /\ MaxReplyCalls \in Nat

Keys     == 0 .. (KeySpace - 1)
Requests == 1 .. MaxRequests
NoReq    == 0                      \* "no request": requests count from 1

PayloadSize == {"fits", "large"}
NoValue     == [from |-> NoReq, size |-> "none"]
Value       == [from : Requests, size : PayloadSize]

Status == {"none", "SUCCESS", "CLIENT_REQUEST_SIZE_ERROR", "SERVER_INTERNAL_ERROR",
           "SERVER_REQUEST_SIZE_ERROR", "SERVER_NO_REPLY_ERROR",
           "UNKNOWN_EXCEPTION", "FUTURE_ERROR"}
Outcome(r, status, from) == [req |-> r, status |-> status, from |-> from]

VARIABLES
    m_requestKeyCounter, \* the atomic 16-bit key counter
    m_replies,           \* key -> the request whose promise is stored there
    promise,             \* request -> the shared state of its promise
    served,              \* how many keys were handed out (the true, unwrapped count)
    pc,                  \* worker -> where it is in ProcessRequest
    req, currentKey,     \* worker -> the request it runs, and its key
    response,            \* worker -> what wait_for and get brought back
    outcome,             \* how the latest ProcessRequest ended
    heldKey,             \* request -> the key the callback gave the application
    owed,                \* requests the application may still answer with Reply
    calls,               \* request -> the Reply calls made for it
    lastReply            \* the latest Reply call and how it ended

appVars  == <<heldKey, owed, calls, lastReply>>
vars     == <<m_requestKeyCounter, m_replies, promise, served, pc, req, currentKey,
              response, outcome, appVars>>

PC == {"idle", "callback", "register", "wait", "erase"}

Init ==
    /\ m_requestKeyCounter = 0
    /\ m_replies  = [k \in Keys |-> NoReq]
    /\ promise    = [r \in Requests |-> NoValue]
    /\ served     = 0
    /\ pc         = [w \in Workers |-> "idle"]
    /\ req        = [w \in Workers |-> NoReq]
    /\ currentKey = [w \in Workers |-> 0]
    /\ response   = [w \in Workers |-> NoValue]
    /\ outcome    = Outcome(NoReq, "none", NoReq)
    /\ heldKey    = [r \in Requests |-> 0]
    /\ owed       = {}
    /\ calls      = [r \in Requests |-> 0]
    /\ lastReply  = [req |-> NoReq, result |-> "none"]

-----------------------------------------------------------------------------
(* ProcessRequest, one step per point where another thread can interleave. *)

(* ProcessRequest returns or throws: its locals are gone, the worker is free. *)
Finish(w, status, from) ==
    /\ pc'         = [pc EXCEPT ![w] = "idle"]
    /\ req'        = [req EXCEPT ![w] = NoReq]
    /\ currentKey' = [currentKey EXCEPT ![w] = 0]
    /\ response'   = [response EXCEPT ![w] = NoValue]
    /\ outcome'    = Outcome(req[w], status, from)

(* ThrowOnEmptyRequest: rejected before a key is taken. *)
RejectEmptyRequest(w) ==
    /\ pc[w] = "idle"
    /\ Finish(w, "CLIENT_REQUEST_SIZE_ERROR", NoReq)
    /\ UNCHANGED <<m_requestKeyCounter, m_replies, promise, served, appVars>>

\* Mutant: the counter is wider than the key type.
UnwrappedKey == m_requestKeyCounter + 1
\* Mutant: the increment of the counter is lost.
FrozenKey == m_requestKeyCounter

NextKey == (m_requestKeyCounter + 1) % KeySpace

(* ++m_requestKeyCounter, and the callback starts with that key. *)
BeginCallback(w) ==
    /\ pc[w] = "idle"
    /\ served < MaxRequests
    /\ served' = served + 1
    /\ m_requestKeyCounter' = NextKey
    /\ pc'         = [pc EXCEPT ![w] = "callback"]
    /\ req'        = [req EXCEPT ![w] = served']
    /\ currentKey' = [currentKey EXCEPT ![w] = NextKey]
    /\ heldKey'    = [heldKey EXCEPT ![served'] = NextKey]
    /\ owed'       = owed \cup {served'}
    /\ UNCHANGED <<m_replies, promise, response, outcome, calls, lastReply>>

(* The callback returns a reply at once. *)
CallbackReplies(w, size) ==
    /\ pc[w] = "callback"
    /\ \/ /\ size = "fits"
          /\ Finish(w, "SUCCESS", req[w])
       \/ /\ size = "large"
          /\ Finish(w, "SERVER_REQUEST_SIZE_ERROR", NoReq)
    /\ owed' = owed \ {req[w]}
    /\ UNCHANGED <<m_requestKeyCounter, m_replies, promise, served, heldKey, calls,
                   lastReply>>

(* The callback throws: a std::exception becomes a RequestException, any   *)
(* other exception leaves ProcessRequest as it is.                         *)
CallbackThrows(w, status) ==
    /\ pc[w] = "callback"
    /\ status \in {"SERVER_INTERNAL_ERROR", "UNKNOWN_EXCEPTION"}
    /\ Finish(w, status, NoReq)
    /\ owed' = owed \ {req[w]}
    /\ UNCHANGED <<m_requestKeyCounter, m_replies, promise, served, heldKey, calls,
                   lastReply>>

(* The callback returns std::nullopt. *)
CallbackDefers(w) ==
    /\ pc[w] = "callback"
    /\ pc' = [pc EXCEPT ![w] = "register"]
    /\ UNCHANGED <<m_requestKeyCounter, m_replies, promise, served, req, currentKey,
                   response, outcome, appVars>>

\* Mutant: insert_or_assign instead of emplace.
RegisterOverwrites(w) ==
    /\ pc[w] = "register"
    /\ m_replies' = [m_replies EXCEPT ![currentKey[w]] = req[w]]
    /\ pc' = [pc EXCEPT ![w] = "wait"]
    /\ UNCHANGED <<m_requestKeyCounter, promise, served, req, currentKey, response,
                   outcome, appVars>>

(* emplace and get_future under m_replyMutex.  When the key is occupied,   *)
(* emplace keeps the older promise, whose future was retrieved before, and *)
(* get_future throws std::future_error out of ProcessRequest.              *)
RegisterPromise(w) ==
    /\ pc[w] = "register"
    /\ \/ /\ m_replies[currentKey[w]] = NoReq
          /\ m_replies' = [m_replies EXCEPT ![currentKey[w]] = req[w]]
          /\ pc' = [pc EXCEPT ![w] = "wait"]
          /\ UNCHANGED <<req, currentKey, response, outcome>>
       \/ /\ m_replies[currentKey[w]] # NoReq
          /\ Finish(w, "FUTURE_ERROR", NoReq)
          /\ UNCHANGED m_replies
    /\ UNCHANGED <<m_requestKeyCounter, promise, served, appVars>>

(* wait_for finds the future ready.  An oversized reply is thrown from     *)
(* here, past the erase.                                                   *)
WaitReady(w) ==
    /\ pc[w] = "wait"
    /\ promise[req[w]] # NoValue
    /\ \/ /\ promise[req[w]].size = "fits"
          /\ response' = [response EXCEPT ![w] = promise[req[w]]]
          /\ pc' = [pc EXCEPT ![w] = "erase"]
          /\ UNCHANGED <<req, currentKey, outcome>>
       \/ /\ promise[req[w]].size = "large"
          /\ Finish(w, "SERVER_REQUEST_SIZE_ERROR", NoReq)
    /\ UNCHANGED <<m_requestKeyCounter, m_replies, promise, served, appVars>>

\* Mutant: wait instead of wait_for.
WaitWithoutDeadline(w) ==
    /\ pc[w] = "wait"
    /\ promise[req[w]] # NoValue
    /\ response' = [response EXCEPT ![w] = NoValue]
    /\ pc' = [pc EXCEPT ![w] = "erase"]
    /\ UNCHANGED <<m_requestKeyCounter, m_replies, promise, served, req, currentKey,
                   outcome, appVars>>

(* wait_for runs into n_ReplyTimeout. *)
WaitTimeout(w) ==
    /\ pc[w] = "wait"
    /\ promise[req[w]] = NoValue
    /\ response' = [response EXCEPT ![w] = NoValue]
    /\ pc' = [pc EXCEPT ![w] = "erase"]
    /\ UNCHANGED <<m_requestKeyCounter, m_replies, promise, served, req, currentKey,
                   outcome, appVars>>

\* Mutant: the time-out is thrown before the erase.
EraseOnlyAfterReply(w) ==
    /\ pc[w] = "erase"
    /\ \/ /\ response[w] # NoValue
          /\ m_replies' = [m_replies EXCEPT ![currentKey[w]] = NoReq]
          /\ Finish(w, "SUCCESS", response[w].from)
       \/ /\ response[w] = NoValue
          /\ Finish(w, "SERVER_NO_REPLY_ERROR", NoReq)
          /\ UNCHANGED m_replies
    /\ UNCHANGED <<m_requestKeyCounter, promise, served, appVars>>

(* erase under m_replyMutex, then the reply or ThrowOnNoResponse. *)
EraseAndReturn(w) ==
    /\ pc[w] = "erase"
    /\ m_replies' = [m_replies EXCEPT ![currentKey[w]] = NoReq]
    /\ \/ /\ response[w] # NoValue
          /\ Finish(w, "SUCCESS", response[w].from)
       \/ /\ response[w] = NoValue
          /\ Finish(w, "SERVER_NO_REPLY_ERROR", NoReq)
    /\ UNCHANGED <<m_requestKeyCounter, promise, served, appVars>>

-----------------------------------------------------------------------------
(* Some application thread calls Reply with the key of request r.  The     *)
(* promise found under the key decides: it takes the value, or set_value   *)
(* throws because it holds one already; without a promise the reply is     *)
(* dropped with a warning.                                                 *)
Reply(r, size) ==
    /\ r \in owed
    /\ calls[r] < MaxReplyCalls
    /\ calls' = [calls EXCEPT ![r] = @ + 1]
    /\ LET owner == m_replies[heldKey[r]] IN
       \/ /\ owner = NoReq
          /\ lastReply' = [req |-> r, result |-> "dropped"]
          /\ UNCHANGED promise
       \/ /\ owner # NoReq
          /\ promise[owner] # NoValue
          /\ lastReply' = [req |-> r, result |-> "threw"]
          /\ UNCHANGED promise
       \/ /\ owner # NoReq
          /\ promise[owner] = NoValue
          /\ promise' = [promise EXCEPT ![owner] = [from |-> r, size |-> size]]
          /\ lastReply' = [req |-> r, result |-> "accepted"]
    /\ UNCHANGED <<m_requestKeyCounter, m_replies, served, pc, req, currentKey,
                   response, outcome, heldKey, owed>>

(* What the worker does once it has a request. *)
ProcessRequest(w) ==
    \/ \E size \in PayloadSize : CallbackReplies(w, size)
    \/ \E status \in {"SERVER_INTERNAL_ERROR", "UNKNOWN_EXCEPTION"} : CallbackThrows(w, status)
    \/ CallbackDefers(w)
    \/ RegisterPromise(w)
    \/ WaitReady(w)
    \/ WaitTimeout(w)
    \/ EraseAndReturn(w)

Next ==
    \/ \E w \in Workers : RejectEmptyRequest(w) \/ BeginCallback(w) \/ ProcessRequest(w)
    \/ \E r \in Requests, size \in PayloadSize : Reply(r, size)

Spec == Init /\ [][Next]_vars

(* Callbacks return (the guide demands it) and wait_for returns after ten  *)
(* seconds at the latest; requests need not arrive, Reply need not be      *)
(* called.                                                                 *)
FairSpec == Spec /\ \A w \in Workers : WF_vars(ProcessRequest(w))

-----------------------------------------------------------------------------
(* The types of the state of the handler and of the application. *)
TypeOK ==
    /\ m_requestKeyCounter \in Keys
    /\ m_replies \in [Keys -> Requests \cup {NoReq}]
    /\ promise \in [Requests -> Value \cup {NoValue}]
    /\ served \in 0 .. MaxRequests
    /\ pc \in [Workers -> PC]
    /\ req \in [Workers -> Requests \cup {NoReq}]
    /\ currentKey \in [Workers -> Keys]
    /\ response \in [Workers -> Value \cup {NoValue}]
    /\ outcome \in [req : Requests \cup {NoReq}, status : Status,
                    from : Requests \cup {NoReq}]
    /\ heldKey \in [Requests -> Keys]
    /\ owed \in SUBSET Requests
    /\ calls \in [Requests -> 0 .. MaxReplyCalls]
    /\ lastReply \in [req : Requests \cup {NoReq},
                      result : {"none", "accepted", "dropped", "threw"}]

Waiting(w) == pc[w] \in {"wait", "erase"}

(* While a worker waits for, or has just collected, the reply of its       *)
(* request, the promise stored under its key is the one it waits on: no    *)
(* later request with the same key replaces it (emplace) and no other      *)
(* worker erases it.                                                       *)
WaiterOwnsPromise ==
    \A w \in Workers : Waiting(w) => m_replies[currentKey[w]] = req[w]

(* m_replies holds a promise nobody waits on only if that promise was      *)
(* given an oversized reply (the throw that skips the erase): time-outs,   *)
(* dropped replies and key collisions leave nothing behind.                *)
StrayPromisesAreOversized ==
    \A k \in Keys : m_replies[k] # NoReq =>
        \/ \E w \in Workers : Waiting(w) /\ req[w] = m_replies[k]
        \/ promise[m_replies[k]].size = "large"

(* The reply a request is answered with was made by the application for    *)
(* that request, or for one whose key was handed out at least a full turn  *)
(* of the 16-bit counter away.                                             *)
ReplyReachesItsRequest ==
    outcome.status = "SUCCESS" =>
        \/ outcome.from = outcome.req
        \/ outcome.from - outcome.req >= KeySpace
        \/ outcome.req - outcome.from >= KeySpace

(* Until the key counter has wrapped, no request fails because its key is  *)
(* still occupied (std::future_error out of get_future), and Reply throws  *)
(* std::future_error at the application only when it was called before for *)
(* the same request.                                                       *)
NoFutureErrorBeforeWrap ==
    served <= KeySpace =>
        /\ outcome.status # "FUTURE_ERROR"
        /\ lastReply.result = "threw" => calls[lastReply.req] > 1

(* The first Reply the application makes for a request that is waiting is  *)
(* never lost: after it, the promise of that request holds a value.        *)
WaitingRequestTakesReply ==
    [][\A w \in Workers :
          pc[w] = "wait" /\ calls[req[w]] = 0 /\ calls'[req[w]] = 1
              => promise'[req[w]] # NoValue]_vars

(* Every request a worker started on is answered, with or without a Reply. *)
EveryRequestEnds == \A w \in Workers : pc[w] # "idle" ~> pc[w] = "idle"

-----------------------------------------------------------------------------
(* A statement of the documentation that the code does not keep. *)

(* "call Reply on the owning IParameterService once it is complete. This   *)
(* may be done from any thread": a waiting request for which Reply was     *)
(* called has its value.  A Reply between the callback's return and the    *)
(* emplace finds no promise and is dropped.                                *)
TimelyReplyIsKept ==
    \A w \in Workers : pc[w] = "wait" /\ calls[req[w]] > 0 => promise[req[w]] # NoValue
=============================================================================
