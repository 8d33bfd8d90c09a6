---------------------------- MODULE ProtocolSchema ----------------------------
(***************************************************************************)
(* The data half of the generated protocol package                         *)
(* (src/proto/protocol/v1/protocol.pb.go): the schema the file states four *)
(* times over, and which must agree for the protobuf runtime to encode a   *)
(* Frame the PHP side can decode.                                          *)
(*  - rawDesc, the serialized FileDescriptorProto (decoded below into the  *)
(*    messages and fields it declares);                                    *)
(*  - the Go structs Frame and Message with their protobuf struct tags;    *)
(*  - goTypes and depIdxs, from which the TypeBuilder resolves the type of *)
(*    each message-typed field;                                            *)
(*  - the nil-safe getters and Reset, which give every field its zero.     *)
(* Go types, kinds and names are strings; Nil is a nil slice or pointer.   *)
(***************************************************************************)
EXTENDS Integers, Sequences, SequencesExt

Nil == "nil"

\* A FieldDescriptorProto: name (1), number (3), label (4), type (5), type_name (6).
DescField(name, number, label, kind, typeName) ==
  [name |-> name, number |-> number, label |-> label, kind |-> kind,
   typeName |-> typeName]

Package == "temporal.roadrunner.internal"

(* rawDesc: package temporal.roadrunner.internal, message_type Frame       *)
(* (repeated Message messages = 1) and Message (fields 1 to 7), proto3.    *)
Descriptor ==
  << [name |-> "Frame",
      fields |-> << DescField("messages", 1, "repeated", "message",
                              ".temporal.roadrunner.internal.Message") >>],
     [name |-> "Message",
      fields |-> << DescField("id", 1, "optional", "uint64", ""),
                    DescField("command", 2, "optional", "string", ""),
                    DescField("options", 3, "optional", "bytes", ""),
                    DescField("failure", 4, "optional", "message",
                              ".temporal.api.failure.v1.Failure"),
                    DescField("payloads", 5, "optional", "message",
                              ".temporal.api.common.v1.Payloads"),
                    DescField("header", 6, "optional", "message",
                              ".temporal.api.common.v1.Header"),
                    DescField("history_length", 7, "optional", "int64", "") >>] >>

\* A struct field and its tag `protobuf:"<wire>,<number>,<card>,name=<tagName>"`.
GoField(goName, goType, wire, number, card, tagName) ==
  [goName |-> goName, goType |-> goType, wire |-> wire, number |-> number,
   card |-> card, tagName |-> tagName]

\* type Frame struct
FrameStruct == << GoField("Messages", "[]*Message", "bytes", 1, "rep", "messages") >>

\* type Message struct
MessageStruct ==
  << GoField("Id", "uint64", "varint", 1, "opt", "id"),
     GoField("Command", "string", "bytes", 2, "opt", "command"),
     GoField("Options", "[]byte", "bytes", 3, "opt", "options"),
     GoField("Failure", "*v1.Failure", "bytes", 4, "opt", "failure"),
     GoField("Payloads", "*v11.Payloads", "bytes", 5, "opt", "payloads"),
     GoField("Header", "*v11.Header", "bytes", 6, "opt", "header"),
     GoField("HistoryLength", "int64", "varint", 7, "opt", "history_length") >>

Structs == << FrameStruct, MessageStruct >>

\* msgTypes = make([]protoimpl.MessageInfo, 2), indexed as the descriptor's messages.
MsgInfos == 2

\* The index a message's methods use: msgTypes[1] and Descriptor path []int{1} for Message.
MsgTypeIndex == ("Frame" :> 0) @@ ("Message" :> 1)

\* goTypes: the Go type and full name of entries 0 to 4.
GoTypes ==
  << [go |-> "*Frame", full |-> ".temporal.roadrunner.internal.Frame"],
     [go |-> "*Message", full |-> ".temporal.roadrunner.internal.Message"],
     [go |-> "*v1.Failure", full |-> ".temporal.api.failure.v1.Failure"],
     [go |-> "*v11.Payloads", full |-> ".temporal.api.common.v1.Payloads"],
     [go |-> "*v11.Header", full |-> ".temporal.api.common.v1.Header"] >>

\* depIdxs: four field type_names, then the five sub-list starts in reverse.
DepIdxs == << 1, 2, 3, 4, 4, 4, 4, 4, 0 >>

(* The field type_name sub-list, depIdxs[start:end]: its start is the last *)
(* entry and it ends where the next sub-list (extension extendee) starts.  *)
FieldTypeNames ==
  LET n == Len(DepIdxs) IN SubSeq(DepIdxs, DepIdxs[n] + 1, DepIdxs[n - 1])

\* The message-typed fields of all messages, in declaration order, as <<message, field>>.
MessageFields ==
  FlattenSeq([i \in 1 .. Len(Descriptor) |->
    LET fs == Descriptor[i].fields
    IN  SelectSeq([j \in 1 .. Len(fs) |-> <<i, j>>],
                  LAMBDA p : fs[p[2]].kind = "message")])

\* The goTypes entry the builder gives the k-th message-typed field.
ResolvedType(k) == GoTypes[FieldTypeNames[k] + 1]

\* The Go zero value of a field type.
GoZero(goType) == CASE goType \in {"uint64", "int64"} -> 0
                    [] goType = "string" -> ""
                    [] OTHER -> Nil

\* x.Reset(): *x = Message{} (and Frame{}): every field its zero value.
ResetValue(s) == [f \in {s[j].goName : j \in 1 .. Len(s)} |->
                    GoZero(s[CHOOSE j \in 1 .. Len(s) : s[j].goName = f].goType)]

\* Frame.GetMessages: if x != nil { return x.Messages }; return nil
GetMessagesNil == ("Messages" :> Nil)

\* GetId ... GetHistoryLength: what each returns for a nil *Message.
MessageGettersNil ==
  ("Id" :> 0) @@ ("Command" :> "") @@ ("Options" :> Nil) @@ ("Failure" :> Nil)
  @@ ("Payloads" :> Nil) @@ ("Header" :> Nil) @@ ("HistoryLength" :> 0)

GettersNil == << GetMessagesNil, MessageGettersNil >>

-----------------------------------------------------------------------------
(* What proto3 requires of the generated code, from the descriptor side.   *)

\* The wire type of a field kind.
WireOf(kind) == IF kind \in {"uint64", "int64"} THEN "varint" ELSE "bytes"

\* The value a proto3 reader sees for an absent field of this kind.
Proto3Default(kind) == CASE kind \in {"uint64", "int64"} -> 0
                         [] kind = "string" -> ""
                         [] OTHER -> Nil

(* The schema's four statements agree: msgTypes and the index each       *)
(* message's Reset, ProtoReflect and Descriptor use name its place in      *)
(* rawDesc, and goTypes names the file's messages; each descriptor field   *)
(* has one struct field with its number, tag name, cardinality and wire    *)
(* type; the getters' nil results and Reset's zero values are its proto3   *)
(* default; and depIdxs gives each message-typed field, in the order the   *)
(* type builder walks them, the goTypes entry of its type_name and of its  *)
(* struct field's Go type.                                                 *)
SchemaConsistent ==
  /\ Len(Descriptor) = MsgInfos
  /\ Len(FieldTypeNames) = Len(MessageFields)
  /\ \A i \in 1 .. Len(Descriptor) :
       LET d == Descriptor[i]
           s == Structs[i]
       IN  /\ MsgTypeIndex[d.name] = i - 1
           /\ GoTypes[i].full = "." \o Package \o "." \o d.name
           /\ Len(s) = Len(d.fields)
           /\ \A j \in 1 .. Len(d.fields) :
                LET f == d.fields[j]
                    g == s[SelectInSeq(s, LAMBDA x : x.number = f.number)]
                    k == SelectInSeq(MessageFields, LAMBDA p : p = <<i, j>>)
                IN  /\ \E x \in 1 .. Len(s) : s[x].number = f.number
                    /\ g.tagName = f.name
                    /\ (g.card = "rep") = (f.label = "repeated")
                    /\ g.wire = WireOf(f.kind)
                    /\ GettersNil[i][g.goName] = Proto3Default(f.kind)
                    /\ ResetValue(s)[g.goName] = Proto3Default(f.kind)
                    /\ f.kind = "message" =>
                         /\ ResolvedType(k).full = f.typeName
                         /\ g.goType = (IF g.card = "rep" THEN "[]" ELSE "")
                                       \o ResolvedType(k).go

=============================================================================
