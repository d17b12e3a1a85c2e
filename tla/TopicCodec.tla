----------------------------- MODULE TopicCodec -----------------------------
(***************************************************************************)
(* The generated serialisation of the topics: requestsCdrAux.ipp,          *)
(* messageCdrAux.ipp and the PubSubType classes, in both data              *)
(* representations, and a sample on its way from a writer to a reader.     *)
(*                                                                         *)
(* The generated functions of a structure are a record: the encoding they  *)
(* ask for in XCDRv1 and XCDRv2, the members calculate_serialized_size     *)
(* adds up, the members serialize writes, and the cases of the switch in   *)
(* deserialize.  What Fast CDR does with them is the operators Write, Size *)
(* and Read.  The wire is a sequence of tokens; a size is a number of      *)
(* tokens, and padding is left out.  An optional member is the set of its  *)
(* at most one value.                                                      *)
(***************************************************************************)
EXTENDS TypeRegistry

CONSTANTS
    Bytes,       \* what a protobuf byte or a character can be
    StatusCodes, \* the values of status_code and of a remote exception
    Slack        \* tokens a payload may have beyond what was asked for

VARIABLES
    sent,    \* the sample a writer was given, with its topic type
    payload, \* what serialize made of it: a sequence of tokens, or none
    fate,    \* "idle", "written", "refused" (serialize failed) or "taken"
    taken,   \* the sample the reader filled
    described \* the sample as the registered type object describes it

codecVars == <<sent, payload, fate, taken, described>>

Codec(v1, v2, size, serialize, deserialize) ==
    [v1 |-> v1, v2 |-> v2, size |-> size, serialize |-> serialize, deserialize |-> deserialize]

TransferDataCodec ==
    Codec("PLAIN_CDR", "DELIMIT_CDR2", {"protobuf"},
          <<<<0, "protobuf">>>>, 0 :> "protobuf")
(* calculate_serialized_size computes the size of what() and drops it.     *)
RequestExceptionCodec ==
    Codec("PLAIN_CDR", "PLAIN_CDR2", {"status_code", "request"},
          <<<<0, "what">>, <<1, "status_code">>, <<2, "request">>>>,
          (0 :> "what") @@ (1 :> "status_code") @@ (2 :> "request"))
Read_InCodec  == Codec("PLAIN_CDR", "PLAIN_CDR2", {"req"}, <<<<0, "req">>>>, 0 :> "req")
\* Mutant: the answer is written, but not announced.
UncountedCodec == Codec("PLAIN_CDR", "PLAIN_CDR2", {}, <<<<0, "return_">>>>, 0 :> "return_")
Read_OutCodec == Codec("PLAIN_CDR", "PLAIN_CDR2", {"return_"}, <<<<0, "return_">>>>, 0 :> "return_")
Read_ResultCodec ==
    Codec("PL_CDR", "PL_CDR2", {"result", "ex"},
          <<<<\h0784a8b4, "result">>, <<\h092eb941, "ex">>>>,
          (\h0784a8b4 :> "result") @@ (\h092eb941 :> "ex"))
Write_InCodec  == Codec("PLAIN_CDR", "PLAIN_CDR2", {"req"}, <<<<0, "req">>>>, 0 :> "req")
Write_OutCodec == Codec("PLAIN_CDR", "PLAIN_CDR2", {"return_"}, <<<<0, "return_">>>>, 0 :> "return_")
\* Mutant: the cases of deserialize are exchanged.
ExchangedCasesCodec ==
    Codec("PL_CDR", "PL_CDR2", {"result", "ex"},
          <<<<\h0784a8b4, "result">>, <<\h092eb941, "ex">>>>,
          (\h0784a8b4 :> "ex") @@ (\h092eb941 :> "result"))
Write_ResultCodec ==
    Codec("PL_CDR", "PL_CDR2", {"result", "ex"},
          <<<<\h0784a8b4, "result">>, <<\h092eb941, "ex">>>>,
          (\h0784a8b4 :> "result") @@ (\h092eb941 :> "ex"))
Requests_RequestCodec ==
    Codec("PL_CDR", "PL_CDR2", {"Read", "Write"},
          <<<<\h0e5f1a7a, "Read">>, <<\h04c02911, "Write">>>>,
          (\h0e5f1a7a :> "Read") @@ (\h04c02911 :> "Write"))
Requests_ReplyCodec ==
    Codec("PL_CDR", "PL_CDR2", {"Read", "Write", "remoteEx"},
          <<<<\h0e5f1a7a, "Read">>, <<\h04c02911, "Write">>, <<\h0f8e48f0, "remoteEx">>>>,
          (\h0e5f1a7a :> "Read") @@ (\h04c02911 :> "Write") @@ (\h0f8e48f0 :> "remoteEx"))
MessageCodec ==
    Codec("PLAIN_CDR", "DELIMIT_CDR2", {"additional_information", "protobuf"},
          <<<<0, "additional_information">>, <<1, "protobuf">>>>,
          (0 :> "additional_information") @@ (1 :> "protobuf"))
LockupMessageCodec ==
    Codec("PLAIN_CDR", "DELIMIT_CDR2", {"additional_information", "protobuf"},
          <<<<0, "additional_information">>, <<1, "protobuf">>>>,
          (0 :> "additional_information") @@ (1 :> "protobuf"))

Codecs ==
    [TransferData |-> TransferDataCodec, RequestException |-> RequestExceptionCodec,
     Read_In |-> Read_InCodec, Read_Out |-> Read_OutCodec, Read_Result |-> Read_ResultCodec,
     Write_In |-> Write_InCodec, Write_Out |-> Write_OutCodec,
     Write_Result |-> Write_ResultCodec,
     Requests_Request |-> Requests_RequestCodec, Requests_Reply |-> Requests_ReplyCodec,
     Message |-> MessageCodec, LockupMessage |-> LockupMessageCodec]

(* The topic types: the flag their serialize sets for each representation. *)
Requests_RequestPubSubType == [v1 |-> "PL_CDR", v2 |-> "PL_CDR2"]
Requests_ReplyPubSubType   == [v1 |-> "PL_CDR", v2 |-> "PL_CDR2"]
TransferDataPubSubType     == [v1 |-> "PLAIN_CDR", v2 |-> "DELIMIT_CDR2"]
MessagePubSubType          == [v1 |-> "PLAIN_CDR", v2 |-> "DELIMIT_CDR2"]
LockupMessagePubSubType    == [v1 |-> "PLAIN_CDR", v2 |-> "DELIMIT_CDR2"]
PubSubTypes ==
    [Requests_Request |-> Requests_RequestPubSubType, Requests_Reply |-> Requests_ReplyPubSubType,
     TransferData |-> TransferDataPubSubType, Message |-> MessagePubSubType,
     LockupMessage |-> LockupMessagePubSubType]
Versions == {"v1", "v2"}

-----------------------------------------------------------------------------
(* The structures themselves: the values of a type, and a new object.      *)
Texts == {<<>>} \cup {<<b>> : b \in Bytes}

TransferDatas     == [protobuf : Texts]
RequestExceptions == [what : Texts, status_code : StatusCodes, request : TransferDatas]
Ins               == [req : TransferDatas]
Outs              == [return_ : TransferDatas]
(* A request has one of its members, a result the answer or the exception, *)
(* and a reply the result of one operation or a remote exception.          *)
Requests ==
    {[Read |-> {i}, Write |-> {}] : i \in Ins} \cup {[Read |-> {}, Write |-> {i}] : i \in Ins}
Results ==
    {[result |-> {o}, ex |-> {}] : o \in Outs} \cup {[result |-> {}, ex |-> {e}] : e \in RequestExceptions}
Replies ==
    {[Read |-> {r}, Write |-> {}, remoteEx |-> {}] : r \in Results}
    \cup {[Read |-> {}, Write |-> {r}, remoteEx |-> {}] : r \in Results}
    \cup {[Read |-> {}, Write |-> {}, remoteEx |-> {c}] : c \in StatusCodes}
Messages == [additional_information : Texts, protobuf : Texts]

NewTransferData == [protobuf |-> <<>>]
NewException(text) == [what |-> text, status_code |-> 0, request |-> NewTransferData]
NewMessage         == [additional_information |-> <<>>, protobuf |-> <<>>]
NewLockupMessage   == [additional_information |-> <<>>, protobuf |-> <<>>]
New ==
    [TransferData |-> NewTransferData, RequestException |-> NewException(<<"RequestException">>),
     Read_In |-> [req |-> NewTransferData], Write_In |-> [req |-> NewTransferData],
     Read_Out |-> [return_ |-> NewTransferData], Write_Out |-> [return_ |-> NewTransferData],
     Read_Result |-> [result |-> {}, ex |-> {}], Write_Result |-> [result |-> {}, ex |-> {}],
     Requests_Request |-> [Read |-> {}, Write |-> {}],
     Requests_Reply |-> [Read |-> {}, Write |-> {}, remoteEx |-> {}],
     Message |-> NewMessage, LockupMessage |-> NewLockupMessage]

FieldType(type, field) ==
    IF field = "what" THEN "string"
    ELSE (CHOOSE m \in ToSet(Members(type)) : m.name = field).type
IsOptional(type, field) ==
    field # "what" /\ (CHOOSE m \in ToSet(Members(type)) : m.name = field).optional

-----------------------------------------------------------------------------
(* Fast CDR, driven by the generated functions.                            *)
Lists       == {"PL_CDR", "PL_CDR2"}
Delimited   == {"DELIMIT_CDR2", "PL_CDR2"}
Token(kind, value) == <<kind, value>>

RECURSIVE Write(_, _, _)
Write(type, v, data) ==
    CASE type \in {"bytes", "string"} ->
            <<Token("length", Len(data))>> \o [i \in 1..Len(data) |-> Token("byte", data[i])]
      [] type \in {"uint32", "RemoteExceptionCode_t"} -> <<Token("number", data)>>
      [] OTHER ->
        LET encoding == Codecs[type][v]
            Put(entry) ==
                LET field == entry[2]
                    Whole(value) == Write(FieldType(type, field), v, value)
                    Headed(tokens) ==
                        IF encoding \in Lists
                        THEN <<Token("member", entry[1]), Token("length", Len(tokens))>> \o tokens
                        ELSE tokens
                IN  IF IsOptional(type, field)
                    THEN IF data[field] = {} THEN <<>>
                         ELSE Headed(Whole(CHOOSE x \in data[field] : TRUE))
                    ELSE Headed(Whole(data[field]))
            body == FlattenSeq([i \in 1..Len(Codecs[type].serialize) |->
                                  Put(Codecs[type].serialize[i])])
        IN  (IF encoding \in Delimited THEN <<Token("length", Len(body))>> ELSE <<>>)
            \o body
            \o (IF encoding = "PL_CDR" THEN <<Token("sentinel", 0)>> ELSE <<>>)

(* The sum of the members calculate_serialized_size adds up, with the      *)
(* headers of their encoding.                                              *)
RECURSIVE Size(_, _, _)
Size(type, v, data) ==
    IF type \notin DOMAIN Codecs THEN Len(Write(type, v, data))
    ELSE LET encoding == Codecs[type][v]
             header == IF encoding \in Lists THEN 2 ELSE 0
             Field(field) ==
                IF field \notin Codecs[type].size THEN 0
                ELSE IF ~IsOptional(type, field)
                     THEN header + Size(FieldType(type, field), v, data[field])
                     ELSE IF data[field] = {} THEN 0
                          ELSE header + Size(FieldType(type, field), v,
                                             CHOOSE x \in data[field] : TRUE)
             Plus(a, entry) == a + Field(entry[2])
         IN  FoldLeft(Plus, 0, Codecs[type].serialize)
             + (IF encoding \in Delimited THEN 1 ELSE 0)
             + (IF encoding = "PL_CDR" THEN 1 ELSE 0)

(* How a reader decodes: by the generated cases, or by the registered type *)
(* object, whose extensibility decides the encoding.                       *)
EncodingOf(extensibility, v) ==
    CASE extensibility = "FINAL"      -> IF v = "v1" THEN "PLAIN_CDR" ELSE "PLAIN_CDR2"
      [] extensibility = "APPENDABLE" -> IF v = "v1" THEN "PLAIN_CDR" ELSE "DELIMIT_CDR2"
      [] extensibility = "MUTABLE"    -> IF v = "v1" THEN "PL_CDR" ELSE "PL_CDR2"
ObjectCases(type) ==
    LET all == (IF Objects[type].base = None THEN <<>> ELSE RpcOperationErrorObject.members)
               \o Members(type)
    IN  [id \in {all[i].id : i \in 1..Len(all)} |->
            (CHOOSE m \in ToSet(all) : m.id = id).name]
Decoder(type, how, v) ==
    IF how = "generated"
    THEN [encoding |-> Codecs[type][v], cases |-> Codecs[type].deserialize]
    ELSE [encoding |-> EncodingOf(Objects[type].extensibility, v), cases |-> ObjectCases(type)]

Failed == [ok |-> FALSE, data |-> {}, rest |-> <<>>]
Drop(s, n) == SubSeq(s, n + 1, Len(s))
Starts(s, kind) == s # <<>> /\ s[1][1] = kind

(* One case of the switch.  The text of an exception makes a new object,   *)
(* because what() has no setter.                                           *)
Store(type, data, field, value) ==
    IF field = "what" THEN NewException(value)
    ELSE IF IsOptional(type, field) THEN [data EXCEPT ![field] = {value}]
         ELSE [data EXCEPT ![field] = value]

RECURSIVE Read(_, _, _, _, _)
RECURSIVE ReadList(_, _, _, _, _)
RECURSIVE ReadPlain(_, _, _, _, _, _)

(* Members with headers, up to the end of the list.                        *)
ReadList(type, how, v, data, tokens) ==
    IF tokens = <<>> \/ Starts(tokens, "sentinel")
    THEN [ok |-> TRUE, data |-> data, rest |-> Drop(tokens, 1)]
    ELSE LET cases == Decoder(type, how, v).cases
             field == cases[tokens[1][2]]
             one   == Read(FieldType(type, field), how, v, <<>>, Drop(tokens, 2))
         IN  IF Starts(tokens, "member") /\ tokens[1][2] \in DOMAIN cases /\ one.ok
             THEN ReadList(type, how, v, Store(type, data, field, one.data), one.rest)
             ELSE Failed

(* Members without headers: the switch is asked for 0, 1, ... until it     *)
(* knows no more.                                                          *)
ReadPlain(type, how, v, data, id, tokens) ==
    LET cases == Decoder(type, how, v).cases IN
    IF id \notin DOMAIN cases THEN [ok |-> TRUE, data |-> data, rest |-> tokens]
    ELSE LET one == Read(FieldType(type, cases[id]), how, v, <<>>, tokens) IN
         IF one.ok THEN ReadPlain(type, how, v, Store(type, data, cases[id], one.data), id + 1, one.rest)
                   ELSE Failed

Read(type, how, v, into, tokens) ==
    CASE type \in {"bytes", "string"} ->
            IF Starts(tokens, "length") /\ Len(tokens) > tokens[1][2]
            THEN [ok |-> TRUE, data |-> [i \in 1..tokens[1][2] |-> tokens[i + 1][2]],
                  rest |-> Drop(tokens, 1 + tokens[1][2])]
            ELSE Failed
      [] type \in {"uint32", "RemoteExceptionCode_t"} ->
            IF Starts(tokens, "number")
            THEN [ok |-> TRUE, data |-> tokens[1][2], rest |-> Drop(tokens, 1)] ELSE Failed
      [] OTHER ->
        LET encoding == Decoder(type, how, v).encoding
            data     == IF into = <<>> THEN New[type] ELSE into
            end      == 1 + tokens[1][2]
            inner    == SubSeq(tokens, 2, end)
            Body(ts) == IF encoding \in Lists THEN ReadList(type, how, v, data, ts)
                        ELSE ReadPlain(type, how, v, data, 0, ts)
        IN  IF encoding \notin Delimited THEN Body(tokens)
            ELSE IF ~Starts(tokens, "length") \/ Len(tokens) < end THEN Failed
                 ELSE [Body(inner) EXCEPT !.rest = Drop(tokens, end)]

-----------------------------------------------------------------------------
NoSample == [type |-> None]

CodecInit ==
    /\ sent = NoSample /\ payload = <<>> /\ fate = "idle"
    /\ taken = NoSample /\ described = NoSample

Values(type) ==
    CASE type = "Requests_Request" -> Requests
      [] type = "Requests_Reply"   -> Replies
      [] type = "TransferData"     -> TransferDatas
      [] OTHER                     -> Messages

(* write(): the pool gives a payload of at least the announced size, and   *)
(* serialize puts the encapsulation and the sample into it, or fails.      *)
WriteSample(type, v, data) ==
    LET tokens   == <<Token("encapsulation", PubSubTypes[type][v])>> \o Write(type, v, data)
        announced == 1 + Size(type, v, data)
    IN  /\ fate = "idle"
        /\ type \in Known
        /\ sent' = [type |-> type, data |-> data]
        /\ \E extra \in {0, Slack} :
            IF Len(tokens) <= announced + extra
            THEN payload' = tokens /\ fate' = "written"
            ELSE payload' = <<>> /\ fate' = "refused"
        /\ UNCHANGED <<taken, described>>

(* take_next_sample, take_reply, take_request: a new object is filled from *)
(* the payload; the encapsulation tells the representation.                *)
TakeSample ==
    LET type == sent.type
        Filled(t, read) == IF read.ok THEN [type |-> t, data |-> read.data] ELSE NoSample
        v == IF payload[1][2] \in {"PLAIN_CDR", "PL_CDR"} THEN "v1" ELSE "v2"
        one(how) == Read(type, how, v, New[type], Drop(payload, 1))
    IN  /\ fate = "written"
        /\ taken' = Filled(type, one("generated"))
        /\ described' = Filled(type, one("described"))
        /\ fate' = "taken"
        /\ UNCHANGED <<sent, payload>>

CodecNext ==
    \/ \E type \in DOMAIN PubSubTypes, v \in Versions :
         \E data \in Values(type) : WriteSample(type, v, data)
    \/ TakeSample

-----------------------------------------------------------------------------
(* A sample that was written is taken as it was sent, in either            *)
(* representation, whatever optional members it has.                       *)
TakenIsSent == fate = "taken" => taken = sent

(* A reader that only has the registered type object (another vendor, a    *)
(* recorder) decodes the sample to the same values: the type objects and   *)
(* the serialisation code, which are generated apart, agree on members,    *)
(* identifiers, optionality and encoding.                                  *)
DescribedIsSent == fate = "taken" => described = sent

HasException(s) ==
    /\ s.type = "Requests_Reply"
    /\ \E r \in s.data.Read \cup s.data.Write : r.ex # {}

(* Every sample but a reply with a RequestException fits into the payload  *)
(* that calculate_serialized_size announced for it: only the text of an    *)
(* exception is missing from the size.                                     *)
OnlyExceptionsAreRefused == fate = "refused" => HasException(sent)
=============================================================================
