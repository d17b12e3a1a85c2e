-------------------------- MODULE ParameterService --------------------------
(***************************************************************************)
(* The facade of the parameter library: Service                            *)
(* (lib/parameters/ParameterService.cpp) with ReadParameter and            *)
(* WriteParameter (lib/parameters/types).                                  *)
(*                                                                         *)
(* The user's thread constructs a Service, calls Read and Write, and       *)
(* destroys it.  Meanwhile the server's workers look up and run the        *)
(* actions stored in the Service, and the threads of the clients' pools    *)
(* run handlers that capture a ReadParameter or WriteParameter.  The       *)
(* module is about what those callbacks find.  The server and the clients  *)
(* are what modules RpcServer, ServerRequestHandler and MiddlewareClient   *)
(* show them to be: stopping one waits for what runs and abandons what is  *)
(* queued.  A pool has five threads, so up to five requests or calls need  *)
(* not wait for one.                                                       *)
(***************************************************************************)
EXTENDS Domain

CONSTANTS
    Configurations,  \* what the Service may be configured with
    Files,           \* what the file of connections may hold; Empty: no file
    BuiltIn,         \* n_DefaultParameterSourceInformationDirectory
    MaxRequests,     \* bound on the requests the server receives
    MaxCalls         \* bound on the calls of Read and Write

ASSUME ParameterServiceAssumption ==
    /\ Configurations \subseteq Configuration
    /\ Files \subseteq Tables /\ BuiltIn \in Tables
    /\ MaxRequests \in 0 .. 5 /\ MaxCalls \in 0 .. 5

Requests == 1 .. MaxRequests
Calls    == 1 .. MaxCalls
Kinds    == {"read", "write"}

VARIABLES
    configuration, file,
    directory,            \* n_ParameterSourceInformationDirectory, shared by the process
    service,              \* progress of the thread that constructs and destroys
    m_connectionsLoaded,
    actions,              \* kind -> the names in m_onReadActions and m_onWriteActions
    tables,               \* whether these two maps exist
    server,               \* m_spServerParticipant: none, running, stopping, gone
    listener, finish,     \* the listener's progress through run(), its finish condition
    request,              \* request -> what a worker does with it
    participants,         \* the sources in m_spClientParticipants
    clients,              \* kind -> m_spReadClients or m_spWriteClients: name -> source
    call                  \* call -> what became of it

serviceVars == <<configuration, file, directory, m_connectionsLoaded>>
serverVars  == <<actions, tables, server, listener, finish, request>>
clientVars  == <<participants, clients, call>>
vars == <<serviceVars, service, serverVars, clientVars>>

ServicePC  == {"load", "actions", "server", "run", "clients", "parameters", "open",
               "resetServer", "resetReads", "resetWrites", "stopClient", "joinClient",
               "members", "destroyed", "unwindClients", "unwindServer", "failed"}
RequestPC  == {"none", "received", "action", "deferred", "answered"}
Status     == {"none", "SUCCESS", "FORMAT_ERROR", "NOT_FOUND", "ERROR"}
CallPC     == {"none", "queued", "running", "handler", "done", "abandoned"}
CallReply  == {"none", "good", "notGood", "unparsable", "failed"}
CallResult == {"none", "SUCCESS", "FAILURE"}

AnyName   == CHOOSE n \in Names : TRUE
NoRequest == [phase |-> "none", kind |-> "read", name |-> AnyName, status |-> "none"]
NoCall    == [phase |-> "none", kind |-> "read", name |-> AnyName, source |-> DataLinkEngine,
              reply |-> "none", result |-> "none"]

Init ==
    /\ configuration \in Configurations /\ file \in Files
    /\ directory \in {Empty, BuiltIn}      \* an earlier Service may have loaded it
    /\ service = "load" /\ m_connectionsLoaded = FALSE
    /\ actions = [k \in Kinds |-> {}] /\ tables = "alive"
    /\ server = "none" /\ listener = "none" /\ finish = FALSE
    /\ request = [r \in Requests |-> NoRequest]
    /\ participants = {} /\ clients = [k \in Kinds |-> Empty]
    /\ call = [c \in Calls |-> NoCall]

-----------------------------------------------------------------------------
(* The constructor. *)

(* Domain::Load, and the participant for publications. *)
Load ==
    /\ service = "load"
    /\ service' = "actions"
    /\ directory' = LoadConnections(directory, file, BuiltIn)
    /\ m_connectionsLoaded' = ValidateConnections(directory', configuration)
    /\ UNCHANGED <<configuration, file, serverVars, clientVars>>

Served(k) == IF k = "read" THEN configuration.server_read ELSE configuration.server_write
Used(k)   == IF k = "read" THEN configuration.client_read ELSE configuration.client_write

(* CreateServer enters the actions of a Service that has any ... *)
EnterActions ==
    /\ service = "actions"
    /\ IF Served("read") \cup Served("write") = {}
       THEN service' = "clients" /\ UNCHANGED actions
       ELSE service' = "server" /\ actions' = [k \in Kinds |-> Served(k)]
    /\ UNCHANGED <<serviceVars, tables, server, listener, finish, request, clientVars>>

(* ... creates the server and starts its listener. *)
CreateServer ==
    /\ service = "server"
    /\ service' = "clients"
    /\ server' = "running"
    /\ listener' = "starting"
    /\ UNCHANGED <<serviceVars, actions, tables, finish, request, clientVars>>

Connections == GetClientConnections(directory, configuration)
First(S)    == CHOOSE s \in S : \A t \in S : s <= t

(* CreateClients: one client per source, in the order of the map, and a    *)
(* ReadParameter or WriteParameter for each configured parameter of that   *)
(* source.  A parameter listed by two sources ends up with the later one.  *)
CreateClient ==
    /\ service = "clients"
    /\ LET todo == DOMAIN Connections \ participants
           s    == First(todo)
           listed(k) == {n \in Used(k) : FormatName(n) \in Connections[s]}
       IN  IF todo = {}
           THEN service' = "parameters" /\ UNCHANGED <<participants, clients>>
           ELSE /\ participants' = participants \cup {s}
                /\ clients' = [k \in Kinds |->
                       [n \in DOMAIN clients[k] \cup listed(k) |->
                           IF n \in listed(k) THEN s ELSE clients[k][n]]]
                /\ UNCHANGED service
    /\ UNCHANGED <<serviceVars, serverVars, call>>

(* CreateSubscriptions and CreatePublishers, whose objects are module      *)
(* ParameterSubscription, and the constructor is done.                     *)
CreateParameters ==
    /\ service = "parameters"
    /\ service' = "open"
    /\ UNCHANGED <<serviceVars, serverVars, clientVars>>

(* The factory throws when a server or client cannot be created.  There is *)
(* no ~Service then: the members go in the reverse of their order, and the *)
(* actions first.                                                          *)
CreationFails ==
    /\ \/ service = "server"
       \/ service = "clients" /\ DOMAIN Connections \ participants # {}
    /\ service' = "unwindClients"
    /\ tables' = "destroyed"
    /\ UNCHANGED <<serviceVars, actions, server, listener, finish, request, clientVars>>

UnwindClients ==
    /\ service = "unwindClients"
    /\ clients' = [k \in Kinds |-> Empty]
    /\ participants' = {}
    /\ finish' = (server = "running")
    /\ server' = IF server = "running" THEN "stopping" ELSE server
    /\ service' = "unwindServer"
    /\ UNCHANGED <<serviceVars, actions, tables, listener, request, call>>

-----------------------------------------------------------------------------
(* ~Service. *)

\* Mutant: the server is left to the destruction of the members.
MembersBeforeServer ==
    /\ service = "open"
    /\ service' = "resetServer"
    /\ tables' = "destroyed"
    /\ finish' = (server = "running")
    /\ server' = IF server = "running" THEN "stopping" ELSE server
    /\ UNCHANGED <<serviceVars, actions, listener, request, clientVars>>

(* m_spServerParticipant.reset(): ~Server stops the listener and the pool ... *)
ResetServer ==
    /\ service = "open"
    /\ service' = "resetServer"
    /\ finish' = (server = "running")
    /\ server' = IF server = "running" THEN "stopping" ELSE server
    /\ UNCHANGED <<serviceVars, actions, tables, listener, request, clientVars>>

Idle(r) == request[r].phase \in {"none", "answered"}

(* ... and joins them. *)
JoinServer ==
    /\ service \in {"resetServer", "unwindServer"}
    /\ server = "stopping" => listener = "done" /\ \A r \in Requests : Idle(r)
    /\ server' = IF server = "stopping" THEN "gone" ELSE server
    /\ service' = IF service = "resetServer" THEN "resetReads" ELSE "failed"
    /\ UNCHANGED <<serviceVars, actions, tables, listener, finish, request, clientVars>>

(* The publishers, and then the ReadParameters and the WriteParameters,    *)
(* one by one.  ~ReadParameter lets go of its client, which                *)
(* m_spClientParticipants keeps alive.                                     *)
Without(f, n) == [m \in DOMAIN f \ {n} |-> f[m]]

ResetParameter(k) ==
    /\ service = IF k = "read" THEN "resetReads" ELSE "resetWrites"
    /\ IF DOMAIN clients[k] = {}
       THEN /\ service' = IF k = "read" THEN "resetWrites" ELSE "stopClient"
            /\ UNCHANGED clients
       ELSE /\ \E n \in DOMAIN clients[k] :
                   clients' = [clients EXCEPT ![k] = Without(clients[k], n)]
            /\ UNCHANGED service
    /\ UNCHANGED <<serviceVars, serverVars, participants, call>>

(* The clients follow in the order of the map: ~Client stops its pool,     *)
(* which abandons the tasks that have not started ...                      *)
StopClient ==
    /\ service = "stopClient"
    /\ IF participants = {}
       THEN service' = "members" /\ UNCHANGED call
       ELSE /\ service' = "joinClient"
            /\ call' = [c \in Calls |->
                   IF call[c].phase = "queued" /\ call[c].source = First(participants)
                   THEN [call[c] EXCEPT !.phase = "abandoned"] ELSE call[c]]
    /\ UNCHANGED <<serviceVars, serverVars, participants, clients>>

InTask(c) == call[c].phase \in {"running", "handler"}

(* ... and joins its threads. *)
JoinClient ==
    /\ service = "joinClient"
    /\ \A c \in Calls : InTask(c) => call[c].source # First(participants)
    /\ participants' = participants \ {First(participants)}
    /\ service' = "stopClient"
    /\ UNCHANGED <<serviceVars, serverVars, clients, call>>

(* The members go: the actions, the subscribers, the emptied maps. *)
DestroyMembers ==
    /\ service = "members"
    /\ service' = "destroyed"
    /\ tables' = "destroyed"
    /\ UNCHANGED <<serviceVars, actions, server, listener, finish, request, clientVars>>

-----------------------------------------------------------------------------
(* The server's listener and workers. *)

EnterRun ==
    /\ listener = "starting"
    /\ listener' = "serving"
    /\ finish' = FALSE
    /\ UNCHANGED <<serviceVars, service, actions, tables, server, request, clientVars>>

LeaveRun ==
    /\ listener = "serving"
    /\ finish
    /\ listener' = "done"
    /\ UNCHANGED <<serviceVars, service, actions, tables, server, finish, request, clientVars>>

(* A worker starts on a client's request. *)
ReceiveRequest(r, k, n) ==
    /\ listener = "serving" /\ server = "running"
    /\ request[r].phase = "none"
    /\ \A q \in Requests : q < r => request[q].phase # "none"
    /\ request' = [request EXCEPT ![r] =
                      [phase |-> "received", kind |-> k, name |-> n, status |-> "none"]]
    /\ UNCHANGED <<serviceVars, service, actions, tables, server, listener, finish, clientVars>>

Answer(r, status) ==
    request' = [request EXCEPT ![r].phase = "answered", ![r].status = status]

(* ReplyBadFormat *)
RejectUnparsed(r) ==
    /\ request[r].phase = "received"
    /\ Answer(r, "FORMAT_ERROR")
    /\ UNCHANGED <<serviceVars, service, actions, tables, server, listener, finish, clientVars>>

(* ProcessReadRequest and ProcessWriteRequest: find the action under the   *)
(* identity as the client wrote it.  In a map that has been destroyed the  *)
(* search may come to either result.                                       *)
FindAction(r) ==
    /\ request[r].phase = "received"
    /\ \/ /\ tables = "alive" => request[r].name \in actions[request[r].kind]
          /\ request' = [request EXCEPT ![r].phase = "action"]
       \/ /\ tables = "alive" => request[r].name \notin actions[request[r].kind]
          /\ Answer(r, "NOT_FOUND")
    /\ UNCHANGED <<serviceVars, service, actions, tables, server, listener, finish, clientVars>>

(* The action returns data, or throws, or returns nullopt. *)
EndAction(r) ==
    /\ request[r].phase = "action"
    /\ \/ Answer(r, "SUCCESS")
       \/ Answer(r, "ERROR")
       \/ request' = [request EXCEPT ![r].phase = "deferred"]
    /\ UNCHANGED <<serviceVars, service, actions, tables, server, listener, finish, clientVars>>

(* Service::Reply from a thread of the application. *)
Reply(r) ==
    /\ service = "open" /\ server = "running"
    /\ request[r].phase = "deferred"
    /\ Answer(r, "SUCCESS")
    /\ UNCHANGED <<serviceVars, service, actions, tables, server, listener, finish, clientVars>>

\* Mutant: the server waits for a reply without a deadline.
WaitForReply(r) == Reply(r)

(* The 10 s of ServerRequestHandler are over. *)
ReplyTimesOut(r) ==
    /\ request[r].phase = "deferred"
    /\ Answer(r, "ERROR")
    /\ UNCHANGED <<serviceVars, service, actions, tables, server, listener, finish, clientVars>>

-----------------------------------------------------------------------------
(* The user's Read and Write, and the clients' pools. *)

(* Read or Write on a retrieved instance posts a task; a Write whose data  *)
(* is oversized runs its handler at once.                                  *)
BeginCall(c, k, n) ==
    /\ service = "open"
    /\ n \in DOMAIN clients[k]
    /\ call[c].phase = "none"
    /\ \A d \in Calls : d < c => call[d].phase # "none"
    /\ \E p \in {"queued", "done"} :
          /\ p = "done" => k = "write"
          /\ call' = [call EXCEPT ![c] =
                 [phase |-> p, kind |-> k, name |-> n, source |-> clients[k][n],
                  reply |-> "none", result |-> IF p = "done" THEN "FAILURE" ELSE "none"]]
    /\ UNCHANGED <<serviceVars, service, serverVars, participants, clients>>

Stopped(s) == s \notin participants \/ (service = "joinClient" /\ s = First(participants))

StartTask(c) ==
    /\ call[c].phase = "queued"
    /\ ~Stopped(call[c].source)
    /\ call' = [call EXCEPT ![c].phase = "running"]
    /\ UNCHANGED <<serviceVars, service, serverVars, participants, clients>>

(* The client has the server's reply, or knows that there is none, and     *)
(* calls the handler.                                                      *)
BeginHandler(c, reply) ==
    /\ call[c].phase = "running"
    /\ call' = [call EXCEPT ![c].phase = "handler", ![c].reply = reply]
    /\ UNCHANGED <<serviceVars, service, serverVars, participants, clients>>

(* The handler reads its parameter's identity and unit, parses the data    *)
(* and calls the user's callback.                                          *)
EndHandler(c) ==
    /\ call[c].phase = "handler"
    /\ call' = [call EXCEPT ![c].phase = "done", ![c].reply = "none",
                            ![c].result = IF call[c].reply = "good" THEN "SUCCESS" ELSE "FAILURE"]
    /\ UNCHANGED <<serviceVars, service, serverVars, participants, clients>>

-----------------------------------------------------------------------------
Owner ==
    \/ Load \/ EnterActions \/ CreateServer \/ CreateClient \/ CreateParameters
    \/ CreationFails \/ UnwindClients
    \/ JoinServer \/ StopClient \/ JoinClient \/ DestroyMembers
    \/ \E k \in Kinds : ResetParameter(k)

Worker(r) == RejectUnparsed(r) \/ FindAction(r) \/ EndAction(r) \/ ReplyTimesOut(r)

Task(c) == \/ StartTask(c)
           \/ \E reply \in CallReply \ {"none"} : BeginHandler(c, reply)
           \/ EndHandler(c)

Next ==
    \/ Owner \/ ResetServer
    \/ EnterRun \/ LeaveRun
    \/ \E r \in Requests : Worker(r) \/ Reply(r)
    \/ \E r \in Requests, k \in Kinds, n \in Names : ReceiveRequest(r, k, n)
    \/ \E c \in Calls, k \in Kinds, n \in Names : BeginCall(c, k, n)
    \/ \E c \in Calls : Task(c)

(* Threads run, actions return, deadlines pass, and a constructor or       *)
(* destructor that was entered goes on.  Nobody has to send requests, to   *)
(* call Read or Write, to reply, or to destroy the Service.                *)
Spec == /\ Init /\ [][Next]_vars
        /\ WF_vars(Owner)
        /\ WF_vars(EnterRun \/ LeaveRun)
        /\ \A r \in Requests : WF_vars(Worker(r))
        /\ \A c \in Calls : WF_vars(Task(c))

-----------------------------------------------------------------------------
(* The types of the state. *)
TypeOK ==
    /\ configuration \in Configurations /\ file \in Files /\ directory \in Tables
    /\ service \in ServicePC /\ m_connectionsLoaded \in BOOLEAN
    /\ actions \in [Kinds -> SUBSET Names] /\ tables \in {"alive", "destroyed"}
    /\ server \in {"none", "running", "stopping", "gone"}
    /\ listener \in {"none", "starting", "serving", "done"} /\ finish \in BOOLEAN
    /\ request \in [Requests -> [phase : RequestPC, kind : Kinds, name : Names,
                                 status : Status]]
    /\ participants \in SUBSET Identities
    /\ \A k \in Kinds : clients[k] \in UNION {[S -> Identities] : S \in SUBSET Names}
    /\ call \in [Calls -> [phase : CallPC, kind : Kinds, name : Names,
                           source : Identities, reply : CallReply, result : CallResult]]

Unwinding == service \in {"unwindClients", "unwindServer", "failed"}

(* While a worker looks up or runs an action, the map that holds it and    *)
(* the function in it exist: ~Service stops the server before its members  *)
(* go (ParameterService.cpp:53).  A constructor that fails is not covered. *)
ActionsOutliveRequests ==
    ~Unwinding =>
        \A r \in Requests : request[r].phase \in {"received", "action"} => tables = "alive"

(* A request for a configured action is never answered with "not found",   *)
(* however early it arrives: the maps are complete before the server runs. *)
ServedParametersFound ==
    ~Unwinding =>
        \A r \in Requests :
            request[r].status = "NOT_FOUND" => request[r].name \notin Served(request[r].kind)

Owners(n) == {s \in DOMAIN directory \ {configuration.server_identity} :
                  FormatName(n) \in directory[s]}

(* RetrieveReadInstance and RetrieveWriteInstance find every configured    *)
(* parameter, and its client talks to a source that owns it, or to the     *)
(* DataLinkEngine when no other endpoint does; that client exists.         *)
ClientsReachOwners ==
    service \in {"parameters", "open"} =>
        \A k \in Kinds : \A n \in Used(k) :
            /\ n \in DOMAIN clients[k]
            /\ clients[k][n] \in participants
            /\ clients[k][n] \in (IF Owners(n) = {} THEN {DataLinkEngine} ELSE Owners(n))

(* When the constructor did not warn about the table, the fallback only    *)
(* serves parameters of the Service's own domain.                          *)
ValidatedClientsAreListed ==
    (service = "open" /\ m_connectionsLoaded) =>
        \A k \in Kinds : \A n \in DOMAIN clients[k] :
            \/ FormatName(n) \in directory[configuration.server_identity]
            \/ clients[k][n] \in DOMAIN directory /\ FormatName(n) \in directory[clients[k][n]]

(* A client that is gone runs no task, and when ~Service has returned no   *)
(* callback of any kind runs or will run.                                  *)
NothingRunsAfterDestruction ==
    /\ service = "destroyed" => \A r \in Requests : Idle(r)
    /\ service \in {"stopClient", "joinClient", "members", "destroyed"} =>
           \A c \in Calls : call[c].phase \in {"queued", "running", "handler"} =>
               call[c].source \in participants

(* ~Service returns, once the server's listener has entered run().         *)
DestructionEnds ==
    (service = "resetServer" /\ listener # "starting" /\ (server = "stopping" => finish))
        ~> service = "destroyed"

(* The state is well typed, requests find what is served, clients talk to  *)
(* the owners of what they use, and nothing runs in a Service that is gone. *)
ServiceConsistent ==
    /\ TypeOK /\ ServedParametersFound /\ ClientsReachOwners /\ ValidatedClientsAreListed
    /\ NothingRunsAfterDestruction

-----------------------------------------------------------------------------
(* A statement of the source that the code does not keep. *)

(* "ensure destruction / shouldStop is set before any members of this      *)
(* class (which may be accessed by callbacks) are destructed"              *)
(* (ReadParameter.cpp:28, WriteParameter.cpp:30): a handler that runs      *)
(* finds the parameter object it captured.                                 *)
HandlersFindTheirParameter ==
    \A c \in Calls :
        call[c].phase = "handler" => call[c].name \in DOMAIN clients[call[c].kind]
=============================================================================
