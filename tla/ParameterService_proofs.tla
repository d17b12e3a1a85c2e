----------------------- MODULE ParameterService_proofs -----------------------
(***************************************************************************)
(* Proofs about ParameterService for every configuration, table and        *)
(* directory, with up to as many requests and calls as the pools have      *)
(* threads, so that none waits in a queue: the actions of a Service        *)
(* outlive the requests that use them, and its maps, servers and clients   *)
(* are consistent with the connection table.                               *)
(*                                                                         *)
(* TeardownInv is the order of ~Service: a request is in progress only     *)
(* while the server exists, joining the server waits for the requests, and *)
(* the maps of actions go, unless the constructor failed, only after that. *)
(* ServiceInv adds the order of the constructor: which of the participants *)
(* of the table exist already, and that each of their parameters has the   *)
(* client of a server that owns it.                                        *)
(***************************************************************************)
EXTENDS ParameterService, WellFoundedInduction, TLAPS

(* The steps of ~Service that follow the join of the server. *)
ServerJoined == {"resetReads", "resetWrites", "stopClient", "joinClient", "members",
                 "destroyed"}

(* A request that nobody sent has AnyName. *)
RequestType  == request \in [Requests -> [phase : RequestPC, kind : Kinds,
                                          name : Names \cup {AnyName}, status : Status]]
ServerType   == server \in {"none", "running", "stopping", "gone"}
RequestInv   == \A r \in Requests : ~Idle(r) => server \in {"running", "stopping"}
StoppedInv   == service \in {"resetServer", "unwindServer"} => server # "running"
JoinedInv    == service \in ServerJoined => server \in {"none", "gone"}
TablesInv    == /\ tables \in {"alive", "destroyed"}
                /\ tables = "destroyed" => Unwinding \/ service = "destroyed"

(* The inductive invariant. *)
TeardownInv == RequestType /\ ServerType /\ RequestInv /\ StoppedInv /\ JoinedInv /\ TablesInv

(* The initial states satisfy it: nothing exists but the maps. *)
LEMMA InitTeardown == Init => TeardownInv
<1> SUFFICES ASSUME Init PROVE TeardownInv
  OBVIOUS
<1>1. RequestType
  BY DEF Init, RequestType, NoRequest, RequestPC, Kinds, Status
<1>2. RequestInv
  BY DEF Init, RequestInv, NoRequest, Idle
<1>3. ServerType /\ StoppedInv /\ JoinedInv /\ TablesInv
  BY DEF Init, ServerType, StoppedInv, JoinedInv, TablesInv, ServerJoined
<1>4. QED
  BY <1>1, <1>2, <1>3 DEF TeardownInv

(* A step of the thread that constructs and destroys the Service preserves *)
(* it.  The server changes in three of them, and only JoinServer removes   *)
(* it, which waits for the requests.                                       *)
LEMMA OwnerTeardown == TeardownInv /\ (Owner \/ ResetServer) => TeardownInv'
<1> SUFFICES ASSUME TeardownInv, Owner \/ ResetServer PROVE TeardownInv'
  OBVIOUS
<1> USE DEF TeardownInv, ServerType, StoppedInv, JoinedInv, TablesInv, Unwinding, ServerJoined
<1>1. request' = request
  BY DEF Owner, Load, EnterActions, CreateServer, CreateClient, CreateParameters,
         CreationFails, UnwindClients, JoinServer, StopClient, JoinClient, DestroyMembers,
         ResetParameter, ResetServer, serverVars
<1>2. RequestType'
  BY <1>1 DEF RequestType
<1>3. \A r \in Requests : Idle(r)' <=> Idle(r)
  BY <1>1 DEF Idle
<1>4. CASE Load
  BY <1>2, <1>3, <1>4 DEF Load, serverVars, RequestInv
<1>5. CASE EnterActions
  BY <1>2, <1>3, <1>5 DEF EnterActions, RequestInv
<1>6. CASE CreateServer
  BY <1>2, <1>3, <1>6 DEF CreateServer, RequestInv
<1>7. CASE CreateClient
  <2>1. /\ service = "clients" /\ service' \in {"clients", "parameters"}
        /\ server' = server /\ tables' = tables
    BY <1>7 DEF CreateClient, serverVars
  <2>2. QED
    BY <1>2, <1>3, <2>1 DEF RequestInv
<1>8. CASE CreateParameters
  BY <1>2, <1>3, <1>8 DEF CreateParameters, serverVars, RequestInv
<1>9. CASE CreationFails
  BY <1>2, <1>3, <1>9 DEF CreationFails, RequestInv
<1>10. CASE UnwindClients
  BY <1>2, <1>3, <1>10 DEF UnwindClients, RequestInv
<1>11. CASE ResetServer
  BY <1>2, <1>3, <1>11 DEF ResetServer, RequestInv
<1>12. CASE JoinServer
  <2>1. CASE server = "stopping"
    <3>1. \A r \in Requests : Idle(r)'
      BY <1>3, <1>12, <2>1 DEF JoinServer
    <3>2. QED
      BY <1>2, <1>12, <2>1, <3>1 DEF JoinServer, RequestInv
  <2>2. CASE server # "stopping"
    BY <1>2, <1>3, <1>12, <2>2 DEF JoinServer, RequestInv
  <2>3. QED
    BY <2>1, <2>2
<1>13. CASE StopClient
  BY <1>2, <1>3, <1>13 DEF StopClient, serverVars, RequestInv
<1>14. CASE JoinClient
  BY <1>2, <1>3, <1>14 DEF JoinClient, serverVars, RequestInv
<1>15. CASE DestroyMembers
  BY <1>2, <1>3, <1>15 DEF DestroyMembers, RequestInv
<1>16. CASE \E k \in Kinds : ResetParameter(k)
  <2>1. /\ service \in {"resetReads", "resetWrites"}
        /\ service' \in {"resetReads", "resetWrites", "stopClient"}
        /\ server' = server /\ tables' = tables
    BY <1>16 DEF ResetParameter, serverVars
  <2>2. QED
    BY <1>2, <1>3, <2>1 DEF RequestInv
<1>17. QED
  BY <1>4, <1>5, <1>6, <1>7, <1>8, <1>9, <1>10, <1>11, <1>12, <1>13, <1>14, <1>15, <1>16
     DEF Owner

(* A step that leaves the owner's progress, the server and the maps alone  *)
(* preserves it if it puts a request in progress only while the server     *)
(* exists.                                                                 *)
LEMMA OthersTeardown ==
    ASSUME TeardownInv, service' = service, server' = server, tables' = tables,
           RequestType', \A r \in Requests : Idle(r)' \/ ~Idle(r) \/ server = "running"
    PROVE  TeardownInv'
<1>1. RequestInv'
  BY DEF TeardownInv, RequestInv
<1>2. QED
  BY <1>1 DEF TeardownInv, ServerType, StoppedInv, JoinedInv, TablesInv, Unwinding

(* Every step of the system preserves it. *)
LEMMA NextTeardown == TeardownInv /\ [Next]_vars => TeardownInv'
<1> SUFFICES ASSUME TeardownInv, [Next]_vars PROVE TeardownInv'
  OBVIOUS
<1>1. CASE Owner \/ ResetServer
  BY <1>1, OwnerTeardown
<1>2. CASE EnterRun \/ LeaveRun
  <2>1. /\ service' = service /\ server' = server /\ tables' = tables
        /\ request' = request
    BY <1>2 DEF EnterRun, LeaveRun
  <2>2. QED
    BY <2>1, OthersTeardown DEF TeardownInv, RequestType, Idle
<1>3. ASSUME NEW r \in Requests, Worker(r) \/ Reply(r)
      PROVE  TeardownInv'
  <2>1. service' = service /\ server' = server /\ tables' = tables /\ ~Idle(r)
    BY <1>3 DEF Worker, RejectUnparsed, FindAction, EndAction, ReplyTimesOut, Reply, Idle
  <2>2. \/ \E s \in Status : Answer(r, s)
        \/ \E p \in RequestPC : request' = [request EXCEPT ![r].phase = p]
    BY <1>3 DEF Worker, RejectUnparsed, FindAction, EndAction, ReplyTimesOut, Reply,
                Status, RequestPC
  <2>3. RequestType' /\ \A q \in Requests : q # r => Idle(q)' = Idle(q)
    BY <2>2 DEF Answer, RequestPC, TeardownInv, RequestType, Idle
  <2>4. QED
    BY <2>1, <2>3, OthersTeardown
<1>4. ASSUME NEW r \in Requests, NEW k \in Kinds, NEW n \in Names, ReceiveRequest(r, k, n)
      PROVE  TeardownInv'
  <2>1. service' = service /\ server' = server /\ tables' = tables /\ server = "running"
    BY <1>4 DEF ReceiveRequest
  <2>2. RequestType'
    BY <1>4 DEF ReceiveRequest, TeardownInv, RequestType, RequestPC, Status
  <2>3. QED
    BY <2>1, <2>2, OthersTeardown
<1>5. CASE \/ \E c \in Calls, k \in Kinds, n \in Names : BeginCall(c, k, n)
           \/ \E c \in Calls : Task(c)
  <2>1. /\ service' = service /\ server' = server /\ tables' = tables
        /\ request' = request
    BY <1>5 DEF BeginCall, Task, StartTask, BeginHandler, EndHandler, serverVars
  <2>2. QED
    BY <2>1, OthersTeardown DEF TeardownInv, RequestType, Idle
<1>6. CASE UNCHANGED vars
  <2>1. /\ service' = service /\ server' = server /\ tables' = tables
        /\ request' = request
    BY <1>6 DEF vars, serverVars
  <2>2. QED
    BY <2>1, OthersTeardown DEF TeardownInv, RequestType, Idle
<1>7. QED
  BY <1>1, <1>2, <1>3, <1>4, <1>5, <1>6 DEF Next

(* A worker that looks up or runs an action of a Service whose constructor *)
(* did not fail finds the map it is in: the maps go after the server was   *)
(* joined (ParameterService.cpp:53), and joining waits for the worker.     *)
THEOREM ActionsSafe == Spec => []ActionsOutliveRequests
<1>1. TeardownInv => ActionsOutliveRequests
  BY DEF TeardownInv, RequestInv, JoinedInv, TablesInv, ServerJoined,
         ActionsOutliveRequests, Unwinding, Idle
<1>2. QED
  BY <1>1, InitTeardown, NextTeardown, PTL DEF Spec

-----------------------------------------------------------------------------
(* What requests and callbacks find, for the rest of ServiceConsistent.    *)

Early == {"load", "actions", "server"}

(* The table is loaded once, and a table that passed stays as it was. *)
DirectoryInv ==
    /\ configuration \in Configurations /\ file \in Files /\ directory \in Tables
    /\ m_connectionsLoaded \in BOOLEAN
    /\ m_connectionsLoaded => ValidateConnections(directory, configuration)

(* The actions are complete before a server exists. *)
ActionsInv ==
    /\ actions \in [Kinds -> SUBSET Names]
    /\ service \in Early => server = "none"
    /\ service = "server" \/ server # "none" => actions = [k \in Kinds |-> Served(k)]

(* A client was created for every source that was visited, and a parameter *)
(* is with one of the sources that list it.                                *)
ClientsInv ==
    /\ participants \in SUBSET Identities
    /\ clients \in [Kinds -> UNION {[S -> Identities] : S \in SUBSET Names}]
    /\ service \in Early => participants = {} /\ clients = [k \in Kinds |-> Empty]
    /\ service \in {"clients", "parameters", "open"} =>
          /\ participants \subseteq DOMAIN Connections
          /\ \A k \in Kinds : \A n \in Used(k), s \in participants :
                FormatName(n) \in Connections[s] => n \in DOMAIN clients[k]
          /\ \A k \in Kinds : \A n \in DOMAIN clients[k] :
                /\ n \in Used(k)
                /\ clients[k][n] \in participants
                /\ FormatName(n) \in Connections[clients[k][n]]
    /\ service \in {"parameters", "open"} => participants = DOMAIN Connections

(* A call that is not over has its client, and none is started on a client *)
(* that is being joined.                                                   *)
Active(c) == call[c].phase \in {"queued", "running", "handler"}
CallsInv ==
    /\ call \in [Calls -> [phase : CallPC, kind : Kinds, name : Names, source : Identities,
                           reply : CallReply, result : CallResult]]
    /\ service \in Early \cup {"clients", "parameters", "unwindClients", "unwindServer",
                             "failed"} =>
          \A c \in Calls : ~Active(c)
    /\ \A c \in Calls : Active(c) => call[c].source \in participants
    /\ service = "joinClient" =>
          \A c \in Calls : call[c].phase = "queued" => call[c].source # First(participants)

ProgressType == /\ service \in ServicePC /\ finish \in BOOLEAN
                /\ listener \in {"none", "starting", "serving", "done"}

ServiceInv == /\ TeardownInv /\ ProgressType /\ DirectoryInv /\ ActionsInv
              /\ ServedParametersFound /\ ClientsInv /\ CallsInv

(* A set of identities that is not empty has a first one. *)
LEMMA FirstIsMember ==
    ASSUME NEW S \in SUBSET Nat, S # {}
    PROVE  First(S) \in S
<1> DEFINE Less == {ss \in Nat \X Nat : ss[1] < ss[2]}
<1>1. IsWellFoundedOn(Less, Nat)
  BY NatLessThanWellFounded DEF OpToRel
<1>2. PICK x \in S : \A y \in S : <<y, x>> \notin Less
  <2> HIDE DEF Less
  <2> QED BY <1>1, WFMin
<1>3. ASSUME NEW y \in S PROVE x <= y
  <2>1. <<y, x>> \notin Less /\ x \in Nat /\ y \in Nat
    BY <1>2
  <2>2. ~(y < x)
    BY <2>1
  <2> QED BY <2>1, <2>2
<1> QED BY <1>3 DEF First

(* There is a name. *)
LEMMA AnyNameIsName == AnyName \in Names
<1>1. PICK w \in Words : TRUE
  BY DomainAssumption
<1>2. [word |-> w, spaced |-> FALSE] \in Names
  BY DEF Names
<1> QED BY <1>2 DEF AnyName

(* GetClientConnections lists every configured parameter, and only at      *)
(* sources that own it, or at the DataLinkEngine when no other does.       *)
LEMMA ConnectionsReachOwners ==
    ASSUME DirectoryInv
    PROVE  /\ DOMAIN Connections \subseteq Identities
           /\ \A k \in Kinds : \A n \in Used(k) :
                 /\ \E s \in DOMAIN Connections : FormatName(n) \in Connections[s]
                 /\ \A s \in DOMAIN Connections : FormatName(n) \in Connections[s] =>
                       s \in IF Owners(n) = {} THEN {DataLinkEngine} ELSE Owners(n)
<1> DEFINE configured == Formatted(configuration.client_write \cup configuration.client_read)
           others == {s \in DOMAIN directory \ {configuration.server_identity} :
                          directory[s] \cap configured # {}}
           missing == configured \ UNION {directory[s] : s \in others}
           defaulted == IF configured = {} \/ missing # {} THEN {DataLinkEngine} ELSE {}
<1>1. Connections = [s \in others \cup defaulted |->
                       (IF s \in others THEN directory[s] \cap configured ELSE {})
                       \cup (IF s \in defaulted THEN missing ELSE {})]
  BY DEF Connections, GetClientConnections
<1>2. DOMAIN directory \subseteq Identities
  BY DEF DirectoryInv, Tables
<1>3. ASSUME NEW k \in Kinds, NEW n \in Used(k)
      PROVE  FormatName(n) \in configured
  BY DEF Used, Formatted, Kinds
<1>4. ASSUME NEW f \in configured, NEW s \in DOMAIN directory \ {configuration.server_identity},
             f \in directory[s]
      PROVE  s \in others
  BY <1>4
<1> HIDE DEF configured
<1>5. ASSUME NEW f \in configured
      PROVE  \E s \in DOMAIN Connections : f \in Connections[s]
  <2>1. CASE f \in missing
    BY <1>1, <2>1
  <2>2. CASE f \notin missing
    <3>1. PICK s \in others : f \in directory[s]
      BY <2>2
    <3> QED BY <1>1, <3>1
  <2> QED BY <2>1, <2>2
<1>6. ASSUME NEW n, FormatName(n) \in configured, NEW s \in DOMAIN Connections,
             FormatName(n) \in Connections[s]
      PROVE  s \in IF Owners(n) = {} THEN {DataLinkEngine} ELSE Owners(n)
  <2>1. CASE s \in others /\ FormatName(n) \in directory[s]
    BY <2>1 DEF Owners
  <2>2. CASE s = DataLinkEngine /\ FormatName(n) \in missing
    <3>1. \A u \in others : FormatName(n) \notin directory[u]
      BY <2>2
    <3>2. Owners(n) = {}
      BY <1>4, <1>6, <3>1 DEF Owners
    <3> QED BY <2>2, <3>2
  <2> QED BY <1>1, <1>6, <2>1, <2>2
<1>7. DOMAIN Connections \subseteq Identities
  BY <1>1, <1>2, DomainAssumption
<1> QED BY <1>3, <1>5, <1>6, <1>7

-----------------------------------------------------------------------------
(* Who changes what.                                                       *)

(* The thread that constructs and destroys the Service. *)
LEMMA OwnerChanges ==
    ASSUME Owner \/ ResetServer
    PROVE  /\ request' = request
           /\ Load \/ UNCHANGED serviceVars
           /\ StopClient \/ call' = call
           /\ EnterActions \/ actions' = actions
           /\ CreateServer \/ listener' = listener
           /\ \/ CreateClient \/ UnwindClients \/ JoinClient
              \/ \E k \in Kinds : ResetParameter(k)
              \/ UNCHANGED <<participants, clients>>
<1> USE DEF serverVars, clientVars
<1>1. CASE Load \/ EnterActions \/ CreateServer \/ CreateParameters \/ CreationFails \/ ResetServer
  BY <1>1 DEF Load, EnterActions, CreateServer, CreateParameters, CreationFails, ResetServer
<1>2. CASE CreateClient \/ UnwindClients \/ \E k \in Kinds : ResetParameter(k)
  BY <1>2 DEF CreateClient, UnwindClients, ResetParameter
<1>3. CASE JoinServer \/ StopClient \/ JoinClient \/ DestroyMembers
  BY <1>3 DEF JoinServer, StopClient, JoinClient, DestroyMembers
<1> QED BY <1>1, <1>2, <1>3 DEF Owner

ListenerStep == EnterRun \/ LeaveRun
RequestStep(r) == Worker(r) \/ Reply(r) \/ \E k \in Kinds, n \in Names : ReceiveRequest(r, k, n)
CallStep(c) == Task(c) \/ \E k \in Kinds, n \in Names : BeginCall(c, k, n)

OwnersState == <<serviceVars, service, actions, tables, server, participants, clients>>

(* The server's listener and workers, and the clients' threads. *)
LEMMA OthersChange ==
    /\ ListenerStep => UNCHANGED <<OwnersState, request, call>>
    /\ \A r \in Requests : RequestStep(r) => UNCHANGED <<OwnersState, listener, finish, call>>
    /\ \A c \in Calls : CallStep(c) => UNCHANGED <<OwnersState, listener, finish, request>>
<1> USE DEF OwnersState, clientVars, serverVars
<1>1. ListenerStep => UNCHANGED <<OwnersState, request, call>>
  BY DEF ListenerStep, EnterRun, LeaveRun
<1>2. ASSUME NEW r \in Requests, RequestStep(r)
      PROVE  UNCHANGED <<OwnersState, listener, finish, call>>
  BY <1>2 DEF RequestStep, Worker, RejectUnparsed, FindAction, EndAction, ReplyTimesOut, Reply,
     ReceiveRequest
<1>3. ASSUME NEW c \in Calls, CallStep(c)
      PROVE  UNCHANGED <<OwnersState, listener, finish, request>>
  BY <1>3 DEF CallStep, Task, StartTask, BeginHandler, EndHandler, BeginCall
<1> QED BY <1>1, <1>2, <1>3

(* Every step is one of these. *)
LEMMA WhoSteps ==
    ASSUME Next
    PROVE  \/ Owner \/ ResetServer \/ ListenerStep
           \/ \E r \in Requests : RequestStep(r)
           \/ \E c \in Calls : CallStep(c)
BY DEF Next, ListenerStep, RequestStep, CallStep

-----------------------------------------------------------------------------
(* Each part of the invariant is preserved.                                *)

(* The steps keep the types of the progress of the threads. *)
LEMMA ProgressStep ==
    ASSUME ProgressType, Next
    PROVE  ProgressType'
<1>1. CASE Owner \/ ResetServer
  <2>1. listener' \in {listener, "starting"}
    BY <1>1, OwnerChanges DEF CreateServer
  <2>2. service' \in ServicePC /\ finish' \in BOOLEAN
    <3> USE DEF ProgressType, ServicePC, serverVars
    <3>1. CASE Load \/ EnterActions \/ CreateServer \/ CreateParameters \/ CreationFails
      BY <3>1 DEF Load, EnterActions, CreateServer, CreateParameters, CreationFails
    <3>2. CASE CreateClient \/ UnwindClients \/ ResetServer
      BY <3>2 DEF CreateClient, UnwindClients, ResetServer
    <3>3. CASE JoinServer \/ StopClient \/ JoinClient \/ DestroyMembers
      BY <3>3 DEF JoinServer, StopClient, JoinClient, DestroyMembers
    <3>4. CASE \E k \in Kinds : ResetParameter(k)
      BY <3>4 DEF ResetParameter
    <3> QED BY <1>1, <3>1, <3>2, <3>3, <3>4 DEF Owner
  <2> QED BY <2>1, <2>2 DEF ProgressType
<1>2. CASE ListenerStep
  BY <1>2 DEF ListenerStep, EnterRun, LeaveRun, ProgressType
<1>3. CASE (\E r \in Requests : RequestStep(r)) \/ (\E c \in Calls : CallStep(c))
  BY <1>3, OthersChange DEF OwnersState, ProgressType
<1> QED BY <1>1, <1>2, <1>3, WhoSteps

(* Only Load replaces the table, and it validates the one it loaded. *)
LEMMA DirectoryStep ==
    ASSUME DirectoryInv, Next
    PROVE  DirectoryInv'
<1>1. CASE Load
  <2>1. directory' \in Tables
    BY <1>1, ParameterServiceAssumption DEF Load, LoadConnections, DirectoryInv
  <2>2. configuration' = configuration /\ file' = file
    BY <1>1 DEF Load
  <2>3. m_connectionsLoaded' = ValidateConnections(directory', configuration)
    BY <1>1 DEF Load
  <2>4. ValidateConnections(directory', configuration) \in BOOLEAN
    BY DEF ValidateConnections
  <2> QED BY <2>1, <2>2, <2>3, <2>4 DEF DirectoryInv
<1>2. CASE UNCHANGED serviceVars
  BY <1>2 DEF serviceVars, DirectoryInv
<1>3. Load \/ UNCHANGED serviceVars
  BY WhoSteps, OwnerChanges, OthersChange DEF OwnersState
<1> QED BY <1>1, <1>2, <1>3

(* The actions are entered before the server is created. *)
LEMMA ActionsStep ==
    ASSUME TeardownInv, DirectoryInv, ActionsInv, Next
    PROVE  ActionsInv'
<1> USE DEF ActionsInv, Early
<1>1. CASE EnterActions
  <2>1. UNCHANGED <<configuration, server>>
    BY <1>1 DEF EnterActions, serviceVars
  <2>2. \A k \in Kinds : Served(k)' = Served(k) /\ Served(k) \in SUBSET Names
    BY <2>1, ParameterServiceAssumption DEF DirectoryInv, Served, Configuration, Kinds
  <2> QED BY <1>1, <2>1, <2>2 DEF EnterActions
<1>2. CASE ~EnterActions /\ (Owner \/ ResetServer)
  <2>1. actions' = actions /\ \A k \in Kinds : Served(k)' = Served(k)
    <3>1. actions' = actions /\ configuration' = configuration
      BY <1>2, OwnerChanges DEF Load, serviceVars
    <3> QED BY <3>1 DEF Served
  <2>2. /\ service' \in Early => service \in Early /\ server' = server
        /\ service' = "server" => service = "server"
        /\ server' # "none" => service = "server" \/ server # "none"
    <3> USE DEF serverVars
    <3>1. CASE Load \/ CreateServer \/ CreateParameters \/ CreationFails
      BY <3>1 DEF Load, CreateServer, CreateParameters, CreationFails
    <3>2. CASE CreateClient \/ UnwindClients \/ ResetServer
      BY <3>2 DEF CreateClient, UnwindClients, ResetServer
    <3>3. CASE JoinServer \/ StopClient \/ JoinClient \/ DestroyMembers
      BY <3>3 DEF JoinServer, StopClient, JoinClient, DestroyMembers
    <3>4. CASE \E k \in Kinds : ResetParameter(k)
      BY <3>4 DEF ResetParameter
    <3> QED BY <1>2, <3>1, <3>2, <3>3, <3>4 DEF Owner
  <2> QED BY <2>1, <2>2
<1>3. CASE UNCHANGED OwnersState
  BY <1>3 DEF OwnersState, serviceVars, Served
<1> QED BY <1>1, <1>2, <1>3, WhoSteps, OthersChange

(* "Not found" is answered only after a search in the complete map. *)
LEMMA AnswersStep ==
    ASSUME TeardownInv, ActionsInv, ServedParametersFound, Next
    PROVE  ServedParametersFound'
<1> SUFFICES ASSUME ~Unwinding' PROVE ServedParametersFound'
  BY DEF ServedParametersFound
<1>1. CASE Owner \/ ResetServer
  <2>1. request' = request /\ configuration' = configuration
    BY <1>1, OwnerChanges DEF Load, serviceVars
  <2>2. ~Unwinding
    <3> USE DEF Unwinding
    <3>1. CASE Load \/ EnterActions \/ CreateServer \/ CreateParameters \/ CreationFails
      BY <3>1 DEF Load, EnterActions, CreateServer, CreateParameters, CreationFails
    <3>2. CASE CreateClient \/ UnwindClients \/ ResetServer
      BY <3>2 DEF CreateClient, UnwindClients, ResetServer
    <3>3. CASE JoinServer \/ StopClient \/ JoinClient \/ DestroyMembers
      BY <3>3 DEF JoinServer, StopClient, JoinClient, DestroyMembers
    <3>4. CASE \E k \in Kinds : ResetParameter(k)
      BY <3>4 DEF ResetParameter
    <3> QED BY <1>1, <3>1, <3>2, <3>3, <3>4 DEF Owner
  <2> QED BY <2>1, <2>2 DEF ServedParametersFound, Served
<1>2. CASE UNCHANGED OwnersState /\ request' = request
  BY <1>2 DEF OwnersState, serviceVars, ServedParametersFound, Served, Unwinding
<1>3. ASSUME NEW r \in Requests, RequestStep(r)
      PROVE  ServedParametersFound'
  <2>1. /\ UNCHANGED <<service, configuration>> /\ ~Unwinding
        /\ \A k \in Kinds : Served(k)' = Served(k)
    BY <1>3, OthersChange DEF OwnersState, serviceVars, Unwinding, Served
  <2>2. request[r].phase = "received" =>
           tables = "alive" /\ actions = [k \in Kinds |-> Served(k)]
    BY <2>1 DEF TeardownInv, RequestInv, JoinedInv, TablesInv, ServerJoined, Unwinding, Idle,
       ActionsInv
  <2>3. \/ \E s \in Status : /\ Answer(r, s)
                             /\ s = "NOT_FOUND" => request[r].name \notin Served(request[r].kind)
        \/ \E p \in RequestPC : request' = [request EXCEPT ![r].phase = p]
        \/ \E k \in Kinds, n \in Names : request' = [request EXCEPT ![r] =
              [phase |-> "received", kind |-> k, name |-> n, status |-> "none"]]
    <3>1. CASE RejectUnparsed(r) \/ EndAction(r) \/ ReplyTimesOut(r) \/ Reply(r)
      BY <3>1 DEF RejectUnparsed, EndAction, ReplyTimesOut, Reply, Status, RequestPC
    <3>2. CASE FindAction(r)
      <4>1. request[r].kind \in Kinds
        BY DEF TeardownInv, RequestType
      <4> QED BY <2>2, <3>2, <4>1 DEF FindAction, Status, RequestPC
    <3>3. CASE \E k \in Kinds, n \in Names : ReceiveRequest(r, k, n)
      BY <3>3 DEF ReceiveRequest
    <3> QED BY <1>3, <3>1, <3>2, <3>3 DEF RequestStep, Worker
  <2>4. /\ \A q \in Requests : q # r => request'[q] = request[q]
        /\ \/ request'[r].status # "NOT_FOUND"
           \/ /\ request'[r].name = request[r].name /\ request'[r].kind = request[r].kind
              /\ \/ request[r].status = "NOT_FOUND"
                 \/ request[r].name \notin Served(request[r].kind)
    BY <2>3 DEF Answer, TeardownInv, RequestType
  <2> QED BY <2>1, <2>4 DEF ServedParametersFound, TeardownInv, RequestType
<1> QED BY <1>1, <1>2, <1>3, WhoSteps, OthersChange

ClientMaps == UNION {[S -> Identities] : S \in SUBSET Names}

(* What a map of clients is. *)
LEMMA ClientMap ==
    /\ Empty \in ClientMaps
    /\ \A f \in ClientMaps : DOMAIN f \subseteq Names /\ \A n \in DOMAIN f : f[n] \in Identities
    /\ \A S \in SUBSET Names : \A f \in [S -> Identities] : f \in ClientMaps
<1>1. \A S \in SUBSET Names : \A f \in [S -> Identities] : f \in ClientMaps
  BY DEF ClientMaps
<1>2. Empty \in [{} -> Identities] /\ {} \in SUBSET Names
  BY DEF Empty
<1>3. \A f \in ClientMaps : DOMAIN f \subseteq Names /\ \A n \in DOMAIN f : f[n] \in Identities
  BY DEF ClientMaps
<1> QED BY <1>1, <1>2, <1>3

(* CreateClient visits one more source. *)
LEMMA CreateClientStep ==
    ASSUME DirectoryInv, ClientsInv, CreateClient
    PROVE  ClientsInv'
<1> DEFINE todo == DOMAIN Connections \ participants
           s == First(todo)
           listed(k) == {n \in Used(k) : FormatName(n) \in Connections[s]}
<1>1. /\ UNCHANGED <<configuration, directory>> /\ service = "clients"
      /\ Connections' = Connections /\ \A k \in Kinds : Used(k)' = Used(k)
  BY DEF CreateClient, serviceVars, Connections, Used
<1>2. CASE todo = {}
  <2>1. service' = "parameters" /\ UNCHANGED <<participants, clients>>
    BY <1>2 DEF CreateClient
  <2> QED BY <1>1, <1>2, <2>1 DEF ClientsInv, Early
<1>3. CASE todo # {}
  <2>1. s \in DOMAIN Connections /\ s \notin participants /\ s \in Identities
    <3>1. todo \in SUBSET Nat /\ DOMAIN Connections \subseteq Identities
      BY ConnectionsReachOwners, DomainAssumption
    <3>2. s \in todo
      <4> HIDE DEF todo
      <4> QED BY <1>3, <3>1, FirstIsMember
    <3> QED BY <3>1, <3>2
  <2>2. /\ service' = "clients" /\ participants' = participants \cup {s}
        /\ clients' = [k \in Kinds |-> [n \in DOMAIN clients[k] \cup listed(k) |->
                          IF n \in listed(k) THEN s ELSE clients[k][n]]]
    BY <1>1, <1>3 DEF CreateClient
  <2> HIDE DEF s, todo
  <2>3. \A k \in Kinds : clients[k] \in ClientMaps /\ Used(k) \subseteq Names
    BY ParameterServiceAssumption DEF ClientsInv, ClientMaps, DirectoryInv, Configuration, Used,
       Kinds
  <2>4. clients' \in [Kinds -> ClientMaps]
    <3>1. ASSUME NEW k \in Kinds PROVE clients'[k] \in ClientMaps
      <4>1. clients'[k] \in [DOMAIN clients[k] \cup listed(k) -> Identities]
        BY <2>1, <2>2, <2>3, ClientMap
      <4>2. DOMAIN clients[k] \cup listed(k) \in SUBSET Names
        BY <2>3, ClientMap
      <4> QED BY <4>1, <4>2, ClientMap
    <3> QED BY <2>2, <3>1
  <2>5. participants' \in SUBSET Identities /\ participants' \subseteq DOMAIN Connections
    BY <1>1, <2>1, <2>2 DEF ClientsInv
  <2>6. \A k \in Kinds : \A n \in Used(k), u \in participants' :
           FormatName(n) \in Connections[u] => n \in DOMAIN clients'[k]
    BY <1>1, <2>2 DEF ClientsInv
  <2>7. \A k \in Kinds : \A n \in DOMAIN clients'[k] :
           /\ n \in Used(k) /\ clients'[k][n] \in participants'
           /\ FormatName(n) \in Connections[clients'[k][n]]
    BY <1>1, <2>2 DEF ClientsInv
  <2>8. clients' \in [Kinds -> UNION {[S -> Identities] : S \in SUBSET Names}]
    BY <2>4 DEF ClientMaps
  <2>9. service' \in {"clients", "parameters", "open"} =>
           /\ participants' \subseteq DOMAIN Connections'
           /\ \A k \in Kinds : \A n \in Used(k)', u \in participants' :
                 FormatName(n) \in Connections'[u] => n \in DOMAIN clients'[k]
           /\ \A k \in Kinds : \A n \in DOMAIN clients'[k] :
                 /\ n \in Used(k)'
                 /\ clients'[k][n] \in participants'
                 /\ FormatName(n) \in Connections'[clients'[k][n]]
    BY <1>1, <2>5, <2>6, <2>7
  <2> QED BY <2>2, <2>5, <2>8, <2>9 DEF ClientsInv, Early
<1> QED BY <1>2, <1>3

(* The other steps of the owner start from no clients, or take clients     *)
(* away after the Service was open.                                        *)
LEMMA ClientsStep ==
    ASSUME ProgressType, DirectoryInv, ClientsInv, Next
    PROVE  ClientsInv'
<1> DEFINE Building == {"clients", "parameters", "open"}
<1>1. CASE CreateClient
  BY <1>1, CreateClientStep
<1>2. CASE Load
  BY <1>2 DEF Load, clientVars, ClientsInv, Early
<1>3. CASE EnterActions \/ CreateServer
  <2>1. /\ UNCHANGED <<participants, clients>> /\ service \in Early
        /\ service' \in Early \cup {"clients"}
    BY <1>3 DEF EnterActions, CreateServer, clientVars, Early
  <2>2. participants = {} /\ clients = [k \in Kinds |-> Empty] /\ DOMAIN Empty = {}
    BY <2>1 DEF ClientsInv, Empty
  <2> QED BY <2>1, <2>2 DEF ClientsInv, Early
<1>4. CASE CreateParameters
  <2>1. /\ UNCHANGED <<participants, clients>> /\ service = "parameters" /\ service' = "open"
        /\ Connections' = Connections /\ \A k \in Kinds : Used(k)' = Used(k)
    BY <1>4 DEF CreateParameters, clientVars, serviceVars, Connections, Used
  <2> QED BY <2>1 DEF ClientsInv, Early
<1>5. CASE CreationFails \/ ResetServer \/ JoinServer \/ StopClient \/ DestroyMembers
  <2>1. UNCHANGED <<participants, clients>> /\ service' \notin Early \cup Building
    BY <1>5 DEF CreationFails, ResetServer, JoinServer, StopClient, DestroyMembers, clientVars,
       Early
  <2> QED BY <2>1 DEF ClientsInv
<1>6. CASE UnwindClients \/ JoinClient \/ \E k \in Kinds : ResetParameter(k)
  <2>1. service' \notin Early \cup Building
    BY <1>6 DEF UnwindClients, JoinClient, ResetParameter, Early
  <2>2. participants' \in SUBSET Identities
    BY <1>6 DEF UnwindClients, JoinClient, ResetParameter, ClientsInv
  <2>3. clients' \in [Kinds -> ClientMaps]
    <3>1. CASE UnwindClients \/ JoinClient
      BY <3>1, ClientMap DEF UnwindClients, JoinClient, ClientsInv, ClientMaps
    <3>2. ASSUME NEW k \in Kinds, ResetParameter(k), NEW n \in DOMAIN clients[k],
                 clients' = [clients EXCEPT ![k] = Without(clients[k], n)]
          PROVE  clients' \in [Kinds -> ClientMaps]
      <4>1. clients \in [Kinds -> ClientMaps]
        BY DEF ClientsInv, ClientMaps
      <4>2. Without(clients[k], n) \in [DOMAIN clients[k] \ {n} -> Identities]
        BY <4>1, ClientMap DEF Without
      <4>3. Without(clients[k], n) \in ClientMaps
        BY <4>1, <4>2, ClientMap
      <4> QED BY <3>2, <4>1, <4>3
    <3>3. CASE clients' = clients
      BY <3>3 DEF ClientsInv, ClientMaps
    <3> QED BY <1>6, <3>1, <3>2, <3>3 DEF ResetParameter
  <2> QED BY <2>1, <2>2, <2>3 DEF ClientsInv, ClientMaps
<1>7. CASE UNCHANGED OwnersState
  BY <1>7 DEF OwnersState, serviceVars, ClientsInv, Connections, Used
<1> QED
  BY <1>1, <1>2, <1>3, <1>4, <1>5, <1>6, <1>7, WhoSteps, OthersChange DEF Owner

(* A call has its client until its thread is joined. *)
LEMMA CallsStep ==
    ASSUME ProgressType, ClientsInv, CallsInv, Next
    PROVE  CallsInv'
<1> DEFINE NotYet == Early \cup {"clients", "parameters", "unwindClients", "unwindServer", "failed"}
           Record == [phase : CallPC, kind : Kinds, name : Names, source : Identities,
                      reply : CallReply, result : CallResult]
<1>1. CASE StopClient
  <2>1. CASE participants = {}
    BY <1>1, <2>1 DEF StopClient, CallsInv, Active, Early
  <2>2. CASE participants # {}
    <3>1. /\ service' = "joinClient" /\ participants' = participants
          /\ call' = [c \in Calls |->
                 IF call[c].phase = "queued" /\ call[c].source = First(participants)
                 THEN [call[c] EXCEPT !.phase = "abandoned"] ELSE call[c]]
      BY <1>1, <2>2 DEF StopClient
    <3>2. \A c \in Calls : call[c] \in Record
      BY DEF CallsInv
    <3>3. \A c \in Calls :
             /\ call'[c] \in Record /\ call'[c].source = call[c].source
             /\ call'[c].phase = call[c].phase \/ call'[c].phase = "abandoned"
             /\ call'[c].phase = "queued" => call[c].source # First(participants)
      BY <3>1, <3>2 DEF CallPC
    <3>4. call' \in [Calls -> Record]
      BY <3>1, <3>3
    <3> QED BY <3>1, <3>3, <3>4 DEF CallsInv, Active, Early
  <2> QED BY <2>1, <2>2
<1>2. CASE JoinClient
  <2>1. /\ service = "joinClient" /\ service' = "stopClient" /\ call' = call
        /\ participants' = participants \ {First(participants)}
        /\ \A c \in Calls : InTask(c) => call[c].source # First(participants)
    BY <1>2 DEF JoinClient
  <2> QED BY <2>1 DEF CallsInv, Active, InTask, Early
<1>3. CASE CreateClient
  <2>1. /\ call' = call /\ service = "clients" /\ service' \in {"clients", "parameters"}
    BY <1>3 DEF CreateClient
  <2> QED BY <2>1 DEF CallsInv, Active, Early
<1>4. CASE UnwindClients
  BY <1>4 DEF UnwindClients, CallsInv, Active, Early
<1>5. CASE /\ (Owner \/ ResetServer)
           /\ ~StopClient /\ ~JoinClient /\ ~CreateClient /\ ~UnwindClients
  <2>1. call' = call /\ participants' = participants
    BY <1>5, OwnerChanges DEF ResetParameter
  <2>2. /\ service' # "joinClient"
        /\ service' \in NotYet => service \in NotYet \/ \A c \in Calls : ~Active(c)
    <3> USE DEF Early
    <3>1. CASE Load \/ EnterActions \/ CreateServer \/ CreateParameters \/ CreationFails
      BY <3>1 DEF Load, EnterActions, CreateServer, CreateParameters, CreationFails
    <3>2. CASE ResetServer \/ JoinServer \/ DestroyMembers
      BY <3>2 DEF ResetServer, JoinServer, DestroyMembers
    <3>3. CASE \E k \in Kinds : ResetParameter(k)
      BY <3>3 DEF ResetParameter
    <3> QED BY <1>5, <3>1, <3>2, <3>3 DEF Owner
  <2> QED BY <2>1, <2>2 DEF CallsInv, Active
<1>6. CASE UNCHANGED <<OwnersState, call>>
  BY <1>6 DEF OwnersState, CallsInv, Active
<1>7. ASSUME NEW c \in Calls, CallStep(c)
      PROVE  CallsInv'
  <2>1. UNCHANGED <<service, participants>> /\ call \in [Calls -> Record]
    BY <1>7, OthersChange DEF OwnersState, CallsInv
  <2>2. /\ call' \in [Calls -> Record]
        /\ \A d \in Calls : d # c => call'[d] = call[d]
        /\ call'[c].phase = "queued" => service = "open"
        /\ Active(c)' => /\ service \notin NotYet
                         /\ call'[c].source \in participants
    <3>1. CASE StartTask(c)
      BY <2>1, <3>1 DEF StartTask, CallsInv, Active, CallPC
    <3>2. ASSUME NEW reply \in CallReply, BeginHandler(c, reply)
          PROVE  <2>2
      BY <2>1, <3>2 DEF BeginHandler, CallsInv, Active, CallPC
    <3>3. CASE EndHandler(c)
      <4>1. /\ call[c] \in Record
            /\ call' = [call EXCEPT ![c] = [@ EXCEPT !.phase = "done", !.reply = "none",
                   !.result = IF call[c].reply = "good" THEN "SUCCESS" ELSE "FAILURE"]]
        BY <2>1, <3>3 DEF EndHandler
      <4>2. call'[c] \in Record /\ call'[c].phase = "done"
        BY <2>1, <4>1 DEF CallPC, CallReply, CallResult
      <4> QED BY <2>1, <4>1, <4>2 DEF Active
    <3>4. ASSUME NEW k \in Kinds, NEW n \in Names, BeginCall(c, k, n)
          PROVE  <2>2
      <4>1. service = "open" /\ clients[k][n] \in participants /\ clients[k][n] \in Identities
        BY <3>4 DEF BeginCall, ClientsInv
      <4> QED BY <2>1, <3>4, <4>1 DEF BeginCall, Active, CallPC, CallReply, CallResult, Early
    <3> QED BY <1>7, <3>1, <3>2, <3>3, <3>4 DEF CallStep, Task
  <2> QED BY <2>1, <2>2 DEF CallsInv, Active
<1> QED BY <1>1, <1>2, <1>3, <1>4, <1>5, <1>6, <1>7, WhoSteps, OthersChange

-----------------------------------------------------------------------------
(* The theorems.                                                           *)

(* The initial states satisfy the invariant. *)
LEMMA InitService == Init => ServiceInv
<1> SUFFICES ASSUME Init PROVE ServiceInv
  OBVIOUS
<1>1. Empty \in Tables /\ Empty \in ClientMaps
  <2>1. Empty \in [{} -> SUBSET Names] /\ {} \in SUBSET Identities
    BY DEF Empty
  <2> QED BY <2>1, ClientMap DEF Tables
<1>2. ProgressType /\ DirectoryInv
  BY <1>1, ParameterServiceAssumption DEF Init, ProgressType, ServicePC, DirectoryInv
<1>3. ActionsInv /\ ServedParametersFound
  BY DEF Init, ActionsInv, ServedParametersFound, NoRequest
<1>4. ClientsInv
  <2>1. clients \in [Kinds -> ClientMaps]
    BY <1>1 DEF Init
  <2> QED BY <2>1 DEF Init, ClientsInv, ClientMaps, Early
<1>5. CallsInv
  <2>1. NoCall \in [phase : CallPC, kind : Kinds, name : Names, source : Identities,
                    reply : CallReply, result : CallResult]
    BY AnyNameIsName, DomainAssumption DEF NoCall, CallPC, Kinds, CallReply, CallResult
  <2>2. \A c \in Calls : call[c].phase = "none"
    BY DEF Init, NoCall
  <2> QED BY <2>1, <2>2 DEF Init, CallsInv, Active
<1> QED BY <1>2, <1>3, <1>4, <1>5, InitTeardown DEF ServiceInv

(* Every step preserves the invariant. *)
LEMMA NextService == ServiceInv /\ [Next]_vars => ServiceInv'
<1> SUFFICES ASSUME ServiceInv, [Next]_vars PROVE ServiceInv'
  OBVIOUS
<1>1. CASE Next
  BY <1>1, NextTeardown, ProgressStep, DirectoryStep, ActionsStep, AnswersStep, ClientsStep,
     CallsStep DEF ServiceInv
<1>2. CASE UNCHANGED vars
  <2> USE <1>2 DEF vars, serviceVars, serverVars, clientVars, ServiceInv
  <2>1. TeardownInv'
    BY NextTeardown
  <2>2. ProgressType' /\ DirectoryInv' /\ ActionsInv' /\ ServedParametersFound'
    BY DEF ProgressType, DirectoryInv, ActionsInv, ServedParametersFound, Served, Unwinding
  <2>3. ClientsInv' /\ CallsInv'
    BY DEF ClientsInv, Connections, Used, CallsInv, Active
  <2> QED BY <2>1, <2>2, <2>3
<1> QED BY <1>1, <1>2

(* What the invariant says of an open Service's clients, and of a table    *)
(* that passed validation.                                                 *)
LEMMA ClientsListed ==
    ASSUME ServiceInv
    PROVE  ClientsReachOwners /\ ValidatedClientsAreListed
<1>1. ASSUME service \in {"parameters", "open"}, NEW k \in Kinds, NEW n \in DOMAIN clients[k]
      PROVE  /\ n \in Used(k) /\ clients[k][n] \in participants
             /\ clients[k][n] \in IF Owners(n) = {} THEN {DataLinkEngine} ELSE Owners(n)
  BY <1>1, ConnectionsReachOwners DEF ServiceInv, ClientsInv
<1>2. ASSUME service \in {"parameters", "open"}, NEW k \in Kinds, NEW n \in Used(k)
      PROVE  n \in DOMAIN clients[k]
  BY <1>2, ConnectionsReachOwners DEF ServiceInv, ClientsInv
<1>3. ASSUME service = "open", m_connectionsLoaded, NEW k \in Kinds, NEW n \in DOMAIN clients[k]
      PROVE  \/ FormatName(n) \in directory[configuration.server_identity]
             \/ clients[k][n] \in DOMAIN directory /\ FormatName(n) \in directory[clients[k][n]]
  <2>1. n \in Used(k)
    BY <1>1, <1>3
  <2>2. PICK s \in DOMAIN directory : FormatName(n) \in directory[s]
    <3>1. FormatName(n) \in UNION {directory[s] : s \in DOMAIN directory}
      BY <1>3, <2>1 DEF ServiceInv, DirectoryInv, ValidateConnections, Formatted, Used
    <3> QED BY <3>1
  <2>3. CASE s = configuration.server_identity
    BY <2>2, <2>3
  <2>4. CASE s # configuration.server_identity
    <3>1. Owners(n) # {}
      BY <2>2, <2>4 DEF Owners
    <3>2. clients[k][n] \in Owners(n)
      BY <1>1, <1>3, <3>1
    <3> QED BY <3>2 DEF Owners
  <2> QED BY <2>3, <2>4
<1> QED BY <1>1, <1>2, <1>3 DEF ClientsReachOwners, ValidatedClientsAreListed

(* Whatever the table and the configuration: a request for a configured    *)
(* action is found, every parameter has a client of a source that owns it  *)
(* or of the DataLinkEngine, and no callback is left when ~Service has     *)
(* returned.                                                               *)
THEOREM ServiceConsistency == Spec => []ServiceConsistent
<1>1. ServiceInv => TypeOK
  <2> SUFFICES ASSUME ServiceInv PROVE TypeOK
    OBVIOUS
  <2>1. request \in [Requests -> [phase : RequestPC, kind : Kinds, name : Names, status : Status]]
    <3>1. Names \cup {AnyName} = Names
      BY AnyNameIsName
    <3> QED BY <3>1 DEF ServiceInv, TeardownInv, RequestType
  <2>2. \A k \in Kinds : clients[k] \in UNION {[S -> Identities] : S \in SUBSET Names}
    BY DEF ServiceInv, ClientsInv
  <2> QED
    BY <2>1, <2>2 DEF ServiceInv, TypeOK, ProgressType, DirectoryInv, TeardownInv, ServerType,
       TablesInv, ActionsInv, ClientsInv, CallsInv
<1>2. ServiceInv => NothingRunsAfterDestruction
  BY DEF ServiceInv, TeardownInv, RequestInv, JoinedInv, ServerJoined, CallsInv, Active,
     NothingRunsAfterDestruction
<1>3. ServiceInv => ServiceConsistent
  BY <1>1, <1>2, ClientsListed DEF ServiceInv, ServiceConsistent
<1> QED BY <1>3, InitService, NextService, PTL DEF Spec
=============================================================================
