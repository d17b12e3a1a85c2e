------------------------------ MODULE MCLibrary ------------------------------
(* The parts of the library around the services: the types of the topics,  *)
(* the cleaning of shared memory, the spy and the diagnostics service.     *)
EXTENDS TopicCodec, ShmCleanup, MiddlewareSpy, DiagnosticService

CONSTANTS service, consumer, byte

VARIABLE part
vars == <<part, registryVars, codecVars, shmVars, spyVars, diagnosticVars>>

(* Two participants of a process register their types, one as a service    *)
(* and one as a client that also publishes.                                *)
TwoRoots ==
    (service :> <<"Requests_Request", "Requests_Reply", "TransferData">>)
    @@ (consumer :> <<"Requests_Reply", "Message", "LockupMessage">>)

(* A complete registry, and one in which a built-in type is missing.       *)
SomeBuiltIns == {AllBuiltIns, AllBuiltIns \ {"uint32"}, AllBuiltIns \ {"byte"}}

(* Two threads of one process and one of another.                          *)
TwoProcesses == [t \in {1, 2, 3} |-> IF t = 3 THEN 2 ELSE 1]

(* The spy itself and two processes, one with two writers, that share a    *)
(* topic.                                                                  *)
SomeRemotes ==
    {[prefix |-> 0, process |-> "spy"], [prefix |-> 1, process |-> "a"],
     [prefix |-> 2, process |-> "b"]}
Endpoint(prefix, entity, kind, topic) ==
    [prefix |-> prefix, entity |-> entity, kind |-> kind, topic |-> topic]
SomeEndpoints ==
    {Endpoint(0, 1, "reader", "Speed"), Endpoint(0, 2, "writer", "Speed"),
     Endpoint(1, 1, "writer", "Speed"), Endpoint(1, 2, "writer", "Diagnostics"),
     Endpoint(1, 3, "reader", "Speed"), Endpoint(2, 1, "writer", "Speed"),
     Endpoint(2, 2, "reader", "Speed")}
SomeSamples == {[kind |-> k, value |-> "v"] : k \in {"Double", "Unset", "Event"}}

(* One part runs; the others stay where they begin.                        *)
Init ==
    /\ part \in {"types", "shm", "spy", "diagnostics"}
    /\ RegistryInit /\ CodecInit /\ ShmInit /\ SpyInit /\ DiagnosticInit
    /\ part = "types" \/ builtIns = AllBuiltIns

Types(A) == part = "types" /\ A /\ UNCHANGED <<part, shmVars, spyVars, diagnosticVars>>
Shm(A) ==
    part = "shm" /\ A /\ UNCHANGED <<part, registryVars, codecVars, spyVars, diagnosticVars>>
Spying(A) ==
    part = "spy" /\ A /\ UNCHANGED <<part, registryVars, codecVars, shmVars, diagnosticVars>>
Diagnostics(A) ==
    part = "diagnostics" /\ A /\ UNCHANGED <<part, registryVars, codecVars, shmVars, spyVars>>

RegisterTypes(t) == Register(t) /\ UNCHANGED codecVars

(* Topics are created once their participant has registered the types.     *)
Exchange ==
    /\ \A t \in Threads : Registered(t)
    /\ CodecNext
    /\ UNCHANGED registryVars

Next ==
    \/ Types((\E t \in Threads : RegisterTypes(t)) \/ Exchange)
    \/ Shm(ShmNext)
    \/ Spying(SpyNext)
    \/ Diagnostics(DiagnosticNext)

(* Threads that register go on, and so do the loop of a request and the    *)
(* calls of the client (EveryCallCompletes).  Nobody has to answer.        *)
Spec ==
    /\ Init
    /\ [][Next]_vars
    /\ \A t \in Threads : WF_vars(Types(RegisterTypes(t)))
    /\ WF_vars(Diagnostics(PostGroup))
    /\ \A c \in Calls : WF_vars(Diagnostics(CompleteCall(c)))

(* What a reader takes is what the writer was given, and so is what the    *)
(* registered type object says of the payload.                             *)
SamplesSurvive == TakenIsSent /\ DescribedIsSent

(* Threads get through their registrations, and everybody who asks for     *)
(* additional information is called back for every group, whether or not a *)
(* server ever answers, unless the client is destroyed.                    *)
LibraryProgress ==
    []<>((part = "types" => RegistrationComplete) /\ RequestsCalledBack)
=============================================================================
