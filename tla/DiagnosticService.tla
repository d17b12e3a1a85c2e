-------------------------- MODULE DiagnosticService --------------------------
(***************************************************************************)
(* The diagnostics service: a CodeClient that asks for the additional      *)
(* information of a code, once per group, over the client Transaction      *)
(* specifies, and CodeServers that answer, at once or later, and publish   *)
(* the codes.  The calls of the client are those of Transaction.           *)
(***************************************************************************)
EXTENDS Transaction, FiniteSets, Sequences

CONSTANTS
    MaxRequests, \* bound on the RequestAdditionalInformation calls
    GroupCounts, \* the lengths of the lists of groups that are asked for
    CodeServers  \* the servers the application creates

ASSUME DiagnosticAssumption ==
    MaxCalls \in Nat /\ GroupCounts \subseteq Nat /\ CodeServers \subseteq Nat \ {0}

VARIABLES
    requests,    \* per RequestAdditionalInformation: how many groups
    toPost,      \* groups of the last one still to be posted
    requestOf,   \* per call of the client: the request it belongs to
    called,      \* per request: the data its callback was given
    m_onRequest, \* the server whose callback the Service holds, or 0
    server,      \* per server: none, created, running, closing or destroyed
    deferred,    \* [call, server, by]: the callback of by returned std::nullopt
    replies,     \* per call: whose data its reply carries, or NoSuccess
    codes        \* the server that published last, 0 for nobody

clientVars == <<requests, toPost, requestOf, called>>
serverVars == <<m_onRequest, server, deferred, replies, codes>>
diagnosticVars == <<tVars, clientVars, serverVars>>

(* Data are told apart by the server whose callback made them.             *)
Cleared == 0
NoSuccess == 0  \* a reply whose status is not SUCCESS
NoReply == -1

DiagnosticInit ==
    /\ TInit
    /\ requests = <<>> /\ toPost = 0 /\ requestOf = <<>> /\ called = <<>>
    /\ m_onRequest = 0 /\ codes = 0 /\ deferred = {}
    /\ server = [s \in CodeServers |-> "none"]
    /\ replies = [c \in Calls |-> NoReply]

(* RequestAdditionalInformation: an empty list is called back at once.     *)
RequestAdditionalInformation(n) ==
    /\ ~closed /\ toPost = 0
    /\ Len(requests) < MaxRequests /\ issued + n <= MaxCalls
    /\ requests' = Append(requests, n)
    /\ toPost' = n
    /\ called' = Append(called, IF n = 0 THEN <<Cleared>> ELSE <<>>)
    /\ UNCHANGED <<tVars, requestOf, serverVars>>

(* m_spClient->Read of the next group.  group_2() selects nothing: the     *)
(* requests of a list are alike, and far from the size limit.              *)
PostGroup ==
    /\ toPost > 0
    /\ issued' = issued + 1
    /\ UNCHANGED <<answered, completed, closed>>
    /\ toPost' = toPost - 1
    /\ requestOf' = Append(requestOf, Len(requests))
    /\ UNCHANGED <<requests, called, serverVars>>

\* Mutant: the callback only runs for data that came.
CallBackOnSuccess(c, parsed) ==
    /\ Complete(c) /\ completed'[c] # "CLIENT_REQUEST_SIZE_ERROR"
    /\ called' = [called EXCEPT ![requestOf[c]] =
          IF completed'[c] = "SUCCESS" /\ replies[c] # NoSuccess /\ parsed
          THEN Append(@, replies[c]) ELSE @]
    /\ UNCHANGED <<requests, toPost, requestOf, serverVars>>

(* on_complete of call c, with the status the client gives it or the one   *)
(* in the reply; the data are cleared unless they came and could be parsed. *)
OnComplete(c, parsed) ==
    /\ Complete(c) /\ completed'[c] # "CLIENT_REQUEST_SIZE_ERROR"
    /\ called' = [called EXCEPT ![requestOf[c]] = Append(@,
          IF completed'[c] = "SUCCESS" /\ replies[c] # NoSuccess /\ parsed
          THEN replies[c] ELSE Cleared)]
    /\ UNCHANGED <<requests, toPost, requestOf, serverVars>>

DestroyCodeClient ==
    /\ toPost = 0
    /\ Close
    /\ UNCHANGED <<clientVars, serverVars>>

-----------------------------------------------------------------------------
(* CreateCodeServer: the callback first, then the server, its Run and the  *)
(* current codes.                                                          *)
CreateCodeServer(s) ==
    /\ server[s] = "none" /\ \A u \in CodeServers : u < s => server[u] # "none"
    /\ m_onRequest' = s
    /\ server' = [server EXCEPT ![s] = "created"]
    /\ UNCHANGED <<tVars, clientVars, deferred, replies, codes>>

RunCodeServer(s) ==
    /\ server[s] = "created"
    /\ server' = [server EXCEPT ![s] = "running"]
    /\ codes' = s
    /\ UNCHANGED <<tVars, clientVars, m_onRequest, deferred, replies>>

PublishCodes(s) ==
    /\ server[s] = "running" /\ codes # s
    /\ codes' = s
    /\ UNCHANGED <<tVars, clientVars, m_onRequest, server, deferred, replies>>

(* The reply to call c; one that comes after the callback changes nothing. *)
GiveReply(c, by) ==
    /\ replies[c] = NoReply
    /\ Answer(c)
    /\ replies' = IF completed[c] # "none" THEN replies
                  ELSE [replies EXCEPT ![c] = by]
    /\ UNCHANGED <<clientVars, m_onRequest, server, codes>>

Waiting(s, c) == \E d \in deferred : d.server = s /\ d.call = c
Served(s, c) ==
    /\ server[s] \in {"running", "closing"} /\ ~Waiting(s, c)
    /\ c \in 1..issued /\ completed[c] = "none"

(* RequestHandler runs whatever callback the Service holds by now: its     *)
(* reply, a format error, or std::nullopt.  A request that its client has  *)
(* given up by then is left out.                                           *)
RequestHandler(s, c) ==
    /\ Served(s, c)
    /\ \/ GiveReply(c, m_onRequest) /\ UNCHANGED deferred
       \/ GiveReply(c, NoSuccess) /\ UNCHANGED deferred
       \/ /\ replies[c] = NoReply
          /\ deferred' = deferred \cup {[call |-> c, server |-> s, by |-> m_onRequest]}
          /\ UNCHANGED <<tVars, clientVars, m_onRequest, server, replies, codes>>

(* CodeServer::Reply of the server whose callback was asked: the key is    *)
(* one of its own requests, or unknown to it and dropped.                  *)
CodeServerReply(d) ==
    /\ d \in deferred /\ d.by = d.server
    /\ server[d.server] = "running"
    /\ deferred' = deferred \ {d}
    /\ IF replies[d.call] = NoReply THEN GiveReply(d.call, d.server)
       ELSE UNCHANGED <<tVars, clientVars, m_onRequest, server, replies, codes>>

ReplyTimeout(d) ==
    /\ d \in deferred
    /\ deferred' = deferred \ {d}
    /\ IF replies[d.call] = NoReply THEN GiveReply(d.call, NoSuccess)
       ELSE UNCHANGED <<tVars, clientVars, m_onRequest, server, replies, codes>>

(* ~CodeServer: the writer goes, then Stop waits for the handlers.         *)
DestroyCodeServer(s) ==
    /\ \/ server[s] = "running" /\ server' = [server EXCEPT ![s] = "closing"]
       \/ /\ server[s] = "closing" /\ \A c \in Calls : ~Waiting(s, c)
          /\ server' = [server EXCEPT ![s] = "destroyed"]
    /\ UNCHANGED <<tVars, clientVars, m_onRequest, deferred, replies, codes>>

CompleteCall(c) == \E parsed \in BOOLEAN : OnComplete(c, parsed)
DiagnosticNext ==
    \/ \E n \in GroupCounts : RequestAdditionalInformation(n)
    \/ PostGroup \/ DestroyCodeClient
    \/ \E c \in Calls : CompleteCall(c)
    \/ \E s \in CodeServers :
          \/ CreateCodeServer(s) \/ RunCodeServer(s) \/ PublishCodes(s) \/ DestroyCodeServer(s)
          \/ \E c \in Calls : RequestHandler(s, c)
    \/ \E d \in deferred : CodeServerReply(d) \/ ReplyTimeout(d)

DiagnosticSpec == DiagnosticInit /\ [][DiagnosticNext]_diagnosticVars
-----------------------------------------------------------------------------
CallsOf(r) == {c \in 1..Len(requestOf) : requestOf[c] = r}
CompletedOf(r) == {c \in CallsOf(r) : completed[c] # "none"}

(* The callback of a request is run once per group whose call was          *)
(* completed, and once for an empty list; the data it is given are cleared *)
(* or come from a server that replied to one of its calls.                 *)
CalledBackPerGroup ==
    \A r \in 1..Len(requests) :
        /\ Len(called[r]) = IF requests[r] = 0 THEN 1 ELSE Cardinality(CompletedOf(r))
        /\ \A i \in 1..Len(called[r]) : called[r][i] # Cleared =>
              \E c \in CompletedOf(r) :
                  replies[c] = called[r][i] /\ server[called[r][i]] # "none"

(* Every request has been called back for every group, or its client is    *)
(* gone.                                                                   *)
RequestsCalledBack ==
    closed \/ (toPost = 0 /\ \A r \in 1..Len(requests) :
                  Len(called[r]) = IF requests[r] = 0 THEN 1 ELSE requests[r])
=============================================================================
