---------------------------- MODULE TypeRegistry ----------------------------
(***************************************************************************)
(* The type objects that fastddsgen generated for the topics               *)
(* (requestsTypeObjectSupport.cxx, messageTypeObjectSupport.cxx) and their *)
(* registration with the process-wide TypeObjectRegistry.                  *)
(*                                                                         *)
(* A register_..._type_identifier function looks its own name up, then the *)
(* type of each member, calls the function of a member type that is not    *)
(* known yet, and registers the structure at the end.  Every participant   *)
(* of the process does so when it registers its types, each on its own     *)
(* thread: the look-ups of two threads interleave.  The registry itself is *)
(* Fast DDS: a table from names to descriptions.                           *)
(***************************************************************************)
EXTENDS SequencesExt, Naturals

CONSTANTS
    Threads,     \* threads that register the types of a participant
    Roots,       \* the types each of them registers, in order
    BuiltInSets  \* the built-in types the registry may know at the start

VARIABLES
    registry,  \* the descriptions: a name to the member types it refers to
    builtIns,  \* the built-in types the registry of this process knows
    todo,      \* per thread: the roots it has still to register
    stack,     \* per thread: the active register functions, innermost last
    returned   \* per thread: what the last of them to end left in its pair

registryVars == <<registry, builtIns, todo, stack, returned>>

None == "none"

Required(id, name, type) == [id |-> id, name |-> name, type |-> type, optional |-> FALSE]
Optional(id, name, type) == [id |-> id, name |-> name, type |-> type, optional |-> TRUE]
Structure(extensibility, base, members) ==
    [extensibility |-> extensibility, base |-> base, members |-> members]

TransferDataObject     == Structure("APPENDABLE", None, <<Required(0, "protobuf", "bytes")>>)
RequestExceptionObject == Structure("FINAL", "RpcOperationError",
                              <<Required(1, "status_code", "uint32"),
                                Required(2, "request", "TransferData")>>)
Read_InObject      == Structure("FINAL", None, <<Required(0, "req", "TransferData")>>)
Read_OutObject     == Structure("FINAL", None, <<Required(0, "return_", "TransferData")>>)
Read_ResultObject  == Structure("MUTABLE", None,
                          <<Optional(\h0784a8b4, "result", "Read_Out"),
                            Optional(\h092eb941, "ex", "RequestException")>>)
Write_InObject     == Structure("FINAL", None, <<Required(0, "req", "TransferData")>>)
Write_OutObject    == Structure("FINAL", None, <<Required(0, "return_", "TransferData")>>)
Write_ResultObject == Structure("MUTABLE", None,
                          <<Optional(\h0784a8b4, "result", "Write_Out"),
                            Optional(\h092eb941, "ex", "RequestException")>>)
Requests_RequestObject == Structure("MUTABLE", None,
                              <<Optional(\h0e5f1a7a, "Read", "Read_In"),
                                Optional(\h04c02911, "Write", "Write_In")>>)
Requests_ReplyObject   == Structure("MUTABLE", None,
                              <<Optional(\h0e5f1a7a, "Read", "Read_Result"),
                                Optional(\h04c02911, "Write", "Write_Result"),
                                Optional(\h0f8e48f0, "remoteEx", "RemoteExceptionCode_t")>>)
MessageObject          == Structure("APPENDABLE", None,
                              <<Required(0, "additional_information", "string"),
                                Required(1, "protobuf", "bytes")>>)
LockupMessageObject    == Structure("APPENDABLE", None,
                              <<Required(0, "additional_information", "string"),
                                Required(1, "protobuf", "bytes")>>)

(* What Fast DDS registers itself: the base of an exception (its what())   *)
(* and the code of a remote exception.                                     *)
Library == {"RpcOperationError", "RemoteExceptionCode_t"}
RpcOperationErrorObject == Structure("FINAL", None, <<Required(0, "what", "string")>>)

Objects ==
    [TransferData |-> TransferDataObject, RequestException |-> RequestExceptionObject,
     Read_In |-> Read_InObject, Read_Out |-> Read_OutObject, Read_Result |-> Read_ResultObject,
     Write_In |-> Write_InObject, Write_Out |-> Write_OutObject,
     Write_Result |-> Write_ResultObject,
     Requests_Request |-> Requests_RequestObject, Requests_Reply |-> Requests_ReplyObject,
     Message |-> MessageObject, LockupMessage |-> LockupMessageObject]

Structures    == DOMAIN Objects
AllBuiltIns   == {"byte", "uint32"}
Members(type) == Objects[type].members

ASSUME RegistryAssumption ==
    Roots \in [Threads -> Seq(Structures)] /\ BuiltInSets \subseteq SUBSET AllBuiltIns

-----------------------------------------------------------------------------
(* An active register function: how far it is, what its TypeIdentifierPair *)
(* holds, and the types its members were described with so far.            *)
Frame(type) == [type |-> type, at |-> "lookup", ids |-> None, refs |-> <<>>]

RegistryInit ==
    /\ builtIns \in BuiltInSets
    /\ registry = [n \in {} |-> <<>>]
    /\ todo = Roots
    /\ stack = [t \in Threads |-> <<>>]
    /\ returned = [t \in Threads |-> None]

Known     == DOMAIN registry \cup builtIns
Top(t)    == Last(stack[t])
At(t, place) == stack[t] # <<>> /\ Top(t).at = place
SetTop(t, f) == stack' = [stack EXCEPT ![t] = Append(Front(@), f)]
Described(f) == Len(f.refs) = Len(Members(f.type))
Member(f)    == Members(f.type)[Len(f.refs) + 1]
Add(name, refs) ==
    registry' = [n \in DOMAIN registry \cup {name} |->
                    IF n \in DOMAIN registry THEN registry[n] ELSE refs]

(* The function ends; its caller reads the pair it was given.              *)
Return(t, ids) ==
    /\ stack' = [stack EXCEPT ![t] = Front(@)]
    /\ returned' = [returned EXCEPT ![t] = ids]

(* register_type_object_representation of the next type support.           *)
RegisterRoot(t) ==
    /\ stack[t] = <<>>
    /\ todo[t] # <<>>
    /\ stack' = [stack EXCEPT ![t] = <<Frame(Head(todo[t]))>>]
    /\ todo' = [todo EXCEPT ![t] = Tail(@)]
    /\ UNCHANGED <<registry, builtIns, returned>>

(* get_type_identifiers of the type's own name.                            *)
LookupType(t) ==
    /\ At(t, "lookup")
    /\ IF Top(t).type \in Known
       THEN Return(t, Top(t).type)
       ELSE SetTop(t, [Top(t) EXCEPT !.at = "base"]) /\ UNCHANGED returned
    /\ UNCHANGED <<registry, builtIns, todo>>

(* The base type is looked up into the pair of the derived one, and        *)
(* registered by Fast DDS when it is unknown.                              *)
LookupBase(t) ==
    /\ At(t, "base")
    /\ LET base == Objects[Top(t).type].base IN
       /\ SetTop(t, [Top(t) EXCEPT !.at = "members", !.ids = base])
       /\ IF base # None /\ base \notin Known THEN Add(base, <<>>) ELSE UNCHANGED registry
    /\ UNCHANGED <<builtIns, todo, returned>>

DescribeAs(t, type) ==
    SetTop(t, [Top(t) EXCEPT !.at = "members", !.refs = Append(@, type)])

(* The type of the next member is known, or Fast DDS registers it.         *)
DescribeMember(t) ==
    /\ At(t, "members")
    /\ ~Described(Top(t))
    /\ LET type == Member(Top(t)).type IN
       \/ /\ type \in Known
          /\ DescribeAs(t, type)
          /\ UNCHANGED registry
       \/ /\ type \in Library \ Known
          /\ DescribeAs(t, type)
          /\ Add(type, <<>>)
    /\ UNCHANGED <<builtIns, todo, returned>>

(* anonymous_string_unbounded is built when unknown.                       *)
DescribeString(t) ==
    /\ At(t, "members")
    /\ ~Described(Top(t))
    /\ Member(Top(t)).type = "string"
    /\ "string" \notin Known
    /\ DescribeAs(t, "string")
    /\ Add("string", <<>>)
    /\ UNCHANGED <<builtIns, todo, returned>>

(* anonymous_sequence_byte_unbounded is built from _byte when unknown.     *)
DescribeSequence(t) ==
    /\ At(t, "members")
    /\ ~Described(Top(t))
    /\ Member(Top(t)).type = "bytes"
    /\ "bytes" \notin Known
    /\ "byte" \in Known
    /\ DescribeAs(t, "bytes")
    /\ Add("bytes", <<"byte">>)
    /\ UNCHANGED <<builtIns, todo, returned>>

\* Mutant: the function starts over until the type is known.
RetryBuiltIn(t) ==
    /\ At(t, "members")
    /\ ~Described(Top(t))
    /\ Member(Top(t)).type \in AllBuiltIns \ Known
    /\ SetTop(t, Frame(Top(t).type))
    /\ UNCHANGED <<registry, builtIns, todo, returned>>

(* A built-in type the registry does not know: the function gives up.      *)
GiveUp(t) ==
    /\ At(t, "members")
    /\ ~Described(Top(t))
    /\ LET type == Member(Top(t)).type IN
       \/ type \in AllBuiltIns \ Known
       \/ type = "bytes" /\ {"bytes", "byte"} \cap Known = {}
    /\ Return(t, Top(t).ids)
    /\ UNCHANGED <<registry, builtIns, todo>>

(* The member is a structure nobody registered yet.                        *)
RegisterMember(t) ==
    /\ At(t, "members")
    /\ ~Described(Top(t))
    /\ Member(Top(t)).type \in Structures \ Known
    /\ stack' = [stack EXCEPT ![t] =
                   Append(Append(Front(@), [Top(t) EXCEPT !.at = "answer"]),
                          Frame(Member(Top(t)).type))]
    /\ UNCHANGED <<registry, builtIns, todo, returned>>

\* Mutant: the member is described although its identifier is inconsistent.
UseAnyAnswer(t) ==
    /\ At(t, "answer")
    /\ DescribeAs(t, Member(Top(t)).type)
    /\ UNCHANGED <<registry, builtIns, todo, returned>>

(* The called function is back.  Without a complete identifier in the pair *)
(* the structure is given up as well.                                      *)
UseAnswer(t) ==
    /\ At(t, "answer")
    /\ IF returned[t] = None
       THEN Return(t, Top(t).ids)
       ELSE DescribeAs(t, returned[t]) /\ UNCHANGED returned
    /\ UNCHANGED <<registry, builtIns, todo>>

(* build_and_register_struct_type_object: the second thread to register a  *)
(* type registers the same description.                                    *)
RegisterStruct(t) ==
    /\ At(t, "members")
    /\ Described(Top(t))
    /\ LET type == Top(t).type IN
       /\ Add(type, Top(t).refs)
       /\ Return(t, IF type \in Known /\ registry[type] # Top(t).refs
                    THEN Top(t).ids ELSE type)
    /\ UNCHANGED <<builtIns, todo>>

Register(t) ==
    \/ RegisterRoot(t) \/ LookupType(t) \/ LookupBase(t) \/ DescribeMember(t)
    \/ DescribeString(t) \/ DescribeSequence(t) \/ GiveUp(t) \/ RegisterMember(t) \/ UseAnswer(t)
    \/ RegisterStruct(t)

RegistrySpec == RegistryInit /\ [][\E t \in Threads : Register(t)]_registryVars

Registered(t) == stack[t] = <<>> /\ todo[t] = <<>>

-----------------------------------------------------------------------------
(* Whatever the interleaving of the threads, a structure in the registry   *)
(* refers to types that are registered, and to those its members are       *)
(* declared with.  The exception is an exception type that was given up:   *)
(* its pair still holds the identifier of its base, and that is what the   *)
(* structures around it are described with.                                *)
RegistryClosed ==
    \A type \in DOMAIN registry \cap Structures :
        LET refs == registry[type] IN
        /\ Len(refs) = Len(Members(type))
        /\ \A i \in 1..Len(refs) :
            /\ refs[i] \in Known
            /\ \/ refs[i] = Members(type)[i].type
               \/ /\ Members(type)[i].type = "RequestException"
                  /\ refs[i] = "RpcOperationError"
                  /\ builtIns # AllBuiltIns

(* Every thread has got through its registrations, and a registry that     *)
(* knows the built-in types knows the roots.                               *)
RegistrationComplete ==
    \A t \in Threads :
        /\ Registered(t)
        /\ builtIns = AllBuiltIns => \A i \in 1..Len(Roots[t]) : Roots[t][i] \in Known
=============================================================================
