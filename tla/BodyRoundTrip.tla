--------------------------- MODULE BodyRoundTrip ---------------------------
(***************************************************************************)
(* A model with a body, from the derive to the handler: it is compiled or  *)
(* not (HttpInputProperties, the derives of its structures), registered or *)
(* not (get_input_params, check_parameters), its body is written by the    *)
(* generated get_body, or by a client that was told nothing but the        *)
(* schema, and read by the generated parse.                                *)
(*                                                                         *)
(* The body of a form is RequestRoundTrip's; the fields of the others have *)
(* no directives here but a default.                                       *)
(***************************************************************************)
EXTENDS JsonObjects

CONSTANTS
  Models,      \* a method and the body fields of a model
  ValuesOf(_)  \* of a type: what a field may hold

RECURSIVE IsValueOf(_, _)

\* A value of a type.
IsValueOf(type, v) ==
  LET of == Tail(type) IN
  CASE Option(type) -> v = <<>> \/ (Len(v) = 1 /\ IsValueOf(of, v[1]))
    [] type[1] = "Vec" -> \A k \in DOMAIN v : IsValueOf(of, v[k])
    [] type[1] = "HashMap" ->
         /\ \A k \in DOMAIN v : IsValueOf(of, v[k].value)
         /\ \A j, k \in DOMAIN v : v[j].key = v[k].key => j = k
    [] type[1] \in DOMAIN Structs ->
         /\ DOMAIN v = DOMAIN FieldsOf(type[1])
         /\ \A k \in DOMAIN v : IsValueOf(FieldsOf(type[1])[k].type, v[k])
    [] OTHER -> Convert(TextOf(type[1]), v) = Readable(v)

\* A raw body as such: nothing that could be taken for an object or for pairs.
IsRawValue(type, v) ==
  LET bytes == InnerValue(type, v)
  IN  There(type, v) =>
        /\ bytes \in Seq(Byte) /\ {123, Equals} \cap Range(bytes) = {}
        /\ Last(type) = "String" => IsUtf8(bytes)

ASSUME BodyAssumption ==
  \A m \in Models :
    /\ m.method \in {"GET", "DELETE", "POST"}
    /\ \A k \in DOMAIN m.fields :
         LET f == m.fields[k] IN
         /\ f.attr \in {"http_body", "http_form_data", "http_body_raw"}
         /\ IF IsRaw(f) THEN f.type \in RawTypes /\ ~HasDefault(f) ELSE IsType(f.type)
         /\ HasDefault(f) =>
              Len(f.default) = 1 /\ IsValueOf(f.type, f.default[1])
                /\ Inner(f.type) \in {<<"text">>, <<"number">>, <<"bool">>}
         /\ \A v \in ValuesOf(f.type) : IF IsRaw(f) THEN IsRawValue(f.type, v) ELSE IsValueOf(f.type, v)

VARIABLES
  model,      \* the model at hand, the values of its fields, who sends them, and what it leaves to the defaults
  stage,      \* "compile", "register", "write", "sent", "done"
  written,    \* fields that are
  body,       \* the members of the object, or the bytes, of the body, and what they are said to be
  outcome

vars == <<model, stage, written, body, outcome>>

Fields == model.fields
Ours == model.client = "ours"
Raw == Len(Fields) = 1 /\ IsRaw(Fields[1])
Form == \E k \in DOMAIN Fields : Fields[k].attr = "http_form_data"

Outcome(is, values) == [is |-> is, values |-> values]
Body(type, of) == [type |-> type, of |-> of]

AllValues(fields) ==
  FoldLeft(LAMBDA given, f : {Append(vs, v) : vs \in given, v \in ValuesOf(f.type)}, {<<>>}, fields)

\* Our client leaves nothing to a default but a None, and only it sends a raw body.
Senders(fields) == {"ours"} \cup (IF \E k \in DOMAIN fields : IsRaw(fields[k]) THEN {} ELSE {"terse", "explicit"})
Leaves(fields, client) == IF client = "ours" THEN {{}} ELSE SUBSET {k \in DOMAIN fields : HasDefault(fields[k])}

Init ==
  /\ \E m \in Models : \E client \in Senders(m.fields) :
       \E values \in AllValues(m.fields), left \in Leaves(m.fields, client) :
         model = [method |-> m.method, fields |-> m.fields, client |-> client, values |-> values, left |-> left]
  /\ stage = "compile" /\ written = {} /\ body = Body("none", <<>>) /\ outcome = Outcome("none", <<>>)

Ends(is) == stage' = "done" /\ outcome' = Outcome(is, <<>>)

-----------------------------------------------------------------------------
(* The derive, and the registration of the controller *)

Compile ==
  /\ stage = "compile"
  /\ IF ModelCompiles(Fields) THEN stage' = "register" /\ UNCHANGED outcome ELSE Ends("not compiled")
  /\ UNCHANGED <<model, written, body>>

InputParams == [k \in DOMAIN Fields |-> InputParameter(Fields[k])]

\* A panic, or a stack that overflows, while the server starts.
Register ==
  /\ stage = "register"
  /\ IF ~IsDescribed(Fields) \/ ~CheckParameters(model.method, InputParams) THEN Ends("not registered")
     ELSE IF Form THEN Ends("form")
     ELSE stage' = "write" /\ UNCHANGED outcome
  /\ UNCHANGED <<model, written, body>>

-----------------------------------------------------------------------------
(* The body is written *)

Writes(k) == stage = "write" /\ ~Raw /\ k \in DOMAIN Fields \ written
AppendMembers(k, members) ==
  /\ body' = Body("application/json", body.of \o members) /\ written' = written \cup {k}
  /\ UNCHANGED <<model, stage, outcome>>

\* get_body: field after field.
WriteMember(k) ==
  /\ Writes(k) /\ Ours /\ \A j \in DOMAIN Fields \ written : k <= j
  /\ AppendMembers(k, MemberOf(Fields[k].name, Fields[k].type, model.values[k]))

\* A client that goes by the schema writes in any order.
FollowMember(k) ==
  /\ Writes(k) /\ ~Ours
  /\ AppendMembers(k, IF k \in model.left THEN <<>>
                      ELSE Followed(InputParams[k].field, Fields[k].type, model.values[k], model.client))

\* serde_json::to_vec of a text.
JsonText(t) ==
  <<Quote>> \o FlattenSeq([k \in DOMAIN t |-> IF t[k] \in {Quote, Backslash} THEN <<Backslash, t[k]>> ELSE <<t[k]>>])
    \o <<Quote>>

\* Mutant of RawBody: a RawDataTyped is serialised on its way out.
RawBodySerialised(type, v) ==
  IF Option(type) /\ v = <<>> THEN Body("none", <<>>) ELSE
  CASE type \in {<<"Vec<u8>">>, <<"RawData">>, <<"Option", "Vec<u8>">>} -> Body("none", InnerValue(type, v))
    [] OTHER -> Body("application/json", JsonText(InnerValue(type, v)))

\* get_body of a raw field: bytes as they are, without a content type; what holds JSON, as such;
\* anything else through serde.
RawBody(type, v) ==
  IF Option(type) /\ v = <<>> THEN Body("none", <<>>) ELSE
  CASE type \in {<<"Vec<u8>">>, <<"RawData">>, <<"Option", "Vec<u8>">>} -> Body("none", InnerValue(type, v))
    [] type = <<"RawDataTyped">> -> Body("application/json", v)
    [] type \in {<<"String">>, <<"Option", "String">>} -> Body("application/json", JsonText(InnerValue(type, v)))

WriteRaw ==
  /\ stage = "write" /\ Raw /\ written = {}
  /\ body' = RawBody(Fields[1].type, model.values[1]) /\ written' = {1}
  /\ UNCHANGED <<model, stage, outcome>>

Send ==
  /\ stage = "write" /\ written = DOMAIN Fields
  /\ stage' = "sent"
  /\ UNCHANGED <<model, written, body, outcome>>

-----------------------------------------------------------------------------
(* The body is read *)

\* A member that is null is not there; then the default, if the field has one.
ReadModelField(k) ==
  LET f == Fields[k]
      found == GetValue(Object(body.of), f.name)
      read == ReadField(Inner(f.type), found)
  IN  CASE found \in {Absent, Null} /\ HasDefault(f) -> IsValue(f.default[1])
        [] found \in {Absent, Null} /\ ~HasDefault(f) -> IF Option(f.type) THEN IsValue(<<>>) ELSE NotRead
        [] OTHER -> IF read.ok /\ Option(f.type) THEN IsValue(<<read.value>>) ELSE read

\* FromRawBody takes the bytes for what they are; an Option is looked up by its name: a JSON body
\* has to be an object for that, in any other that is none of the known formats there are no names.
ReadRaw ==
  LET ink == SelectSeq(body.of, LAMBDA b : b > 32)
      json == body.type = "application/json" \/ (ink # <<>> /\ ink[1] = 91)
  IN  CASE Fields[1].type = <<"String">> -> IF IsUtf8(body.of) THEN IsValue(body.of) ELSE NotRead
        [] Option(Fields[1].type) -> IF json THEN NotRead ELSE IsValue(<<>>)
        [] OTHER -> IsValue(body.of)

Parse ==
  /\ stage = "sent"
  /\ LET read == IF Raw THEN AllRead(<<ReadRaw>>) ELSE AllRead([k \in DOMAIN Fields |-> ReadModelField(k)])
     IN  outcome' = IF read.ok THEN Outcome("model", read.value) ELSE Outcome("unreadable", <<>>)
  /\ stage' = "done"
  /\ UNCHANGED <<model, written, body>>

Next ==
  \/ Compile \/ Register
  \/ \E k \in DOMAIN Fields : WriteMember(k) \/ FollowMember(k)
  \/ WriteRaw \/ Send \/ Parse

Spec == Init /\ [][Next]_vars

-----------------------------------------------------------------------------
(* Properties *)

\* What a model holds once the server has put its defaults in.
Meant(k) ==
  IF HasDefault(Fields[k]) /\ (k \in model.left \/ (Option(Fields[k].type) /\ model.values[k] = <<>>))
  THEN Fields[k].default[1] ELSE model.values[k]

IsPath(name) == Dot \in Range(name)

\* A structure whose keys do not tell its fields apart; one with a key that is a path, where my-json
\* looks the keys up; one with keys that serde has other names for, where serde does.
KeysAreTrouble(type) ==
  \E s \in Reached(type) :
    \/ Cardinality(Range(KeysOf(s))) < Len(KeysOf(s))
    \/ IF ReadBySerde(type) THEN KeysOf(s) # SerdeKeysOf(s) ELSE \E key \in Range(KeysOf(s)) : IsPath(key)

NamesAreFine == \A k \in DOMAIN Fields : ~IsPath(Fields[k].name) /\ ~KeysAreTrouble(Fields[k].type)

Sent == stage = "done" /\ written = DOMAIN Fields /\ ~Raw

\* Whatever compiles and is registered, what our client writes of it the server reads as it was:
\* writer and reader use one key for a field, omit and miss the same Options, and spell an enum in
\* one way, however deep the objects are nested (json_value_writer_gen, json_value_reader_gen,
\* enum_doc/generate).  But for a key that is a path, keys given twice, and #[json_name] in a Vec or
\* a HashMap, which serde reads.
ObjectsArrive ==
  Sent /\ Ours /\ NamesAreFine => outcome = Outcome("model", [k \in DOMAIN Fields |-> Meant(k)])

RECURSIVE HasEmptyVec(_, _)
HasEmptyVec(type, v) ==
  CASE Option(type) -> v # <<>> /\ HasEmptyVec(Tail(type), v[1])
    [] type[1] = "Vec" -> v = <<>> \/ \E k \in DOMAIN v : HasEmptyVec(Tail(type), v[k])
    [] type[1] = "HashMap" -> \E k \in DOMAIN v : HasEmptyVec(Tail(type), v[k].value)
    [] type[1] \in DOMAIN Structs -> \E k \in DOMAIN v : HasEmptyVec(FieldsOf(type[1])[k].type, v[k])
    [] OTHER -> FALSE

\* Not required by the schema, and missed by the parse.
VecLeftOut == model.client = "terse" /\ \E k \in DOMAIN Fields : HasEmptyVec(Fields[k].type, model.values[k])

RECURSIVE TextsIn(_)
TextsIn(json) ==
  CASE json.is = "string" -> {json.text}
    [] json.is = "array" -> UNION {TextsIn(json.items[k]) : k \in DOMAIN json.items}
    [] json.is = "object" -> UNION {TextsIn(json.members[k].value) : k \in DOMAIN json.members}
    [] OTHER -> {}

\* Names of cases that the schema lists and the parse does not know, or knows for another case.
ListedOnly == {EnumCases[k].name : k \in {j \in DOMAIN EnumCases : EnumCases[j].name # EnumCases[j].value}}

\* A client that has nothing but the schema is understood: what it writes by the described keys and
\* types, in any order of members, with a null for a None or without it, is read as what it says
\* (HttpField, DataTypeProvider against the generated parse).  But for a Vec it leaves out because it
\* is not required, a case it names as it is listed, and the trouble with keys above.
FollowerIsRead ==
  Sent /\ ~Ours /\ NamesAreFine /\ ~VecLeftOut /\ TextsIn(Object(body.of)) \cap ListedOnly = {} =>
    outcome = Outcome("model", [k \in DOMAIN Fields |-> Meant(k)])

RECURSIVE AsListed(_, _)

\* Every case in a value is written as the schema lists it.
AsListed(type, v) ==
  CASE Option(type) -> v = <<>> \/ AsListed(Tail(type), v[1])
    [] type[1] = "Vec" -> \A k \in DOMAIN v : AsListed(Tail(type), v[k])
    [] type[1] = "HashMap" -> \A k \in DOMAIN v : AsListed(Tail(type), v[k].value)
    [] type[1] \in DOMAIN Structs -> \A k \in DOMAIN v : AsListed(FieldsOf(type[1])[k].type, v[k])
    [] IsEnum(type[1]) -> Write(type, v) = Listed(type[1], v)
    [] OTHER -> TRUE

CasesAsListed == \A k \in DOMAIN Fields : AsListed(Fields[k].type, model.values[k])

\* The schema tells the truth of what our client writes: every key is a described field, its value
\* is of the type described, and whatever is required is there (types.rs, docs.rs against
\* client_writer).  But for an enum: a value with a case that is written otherwise than it is listed
\* is left out.  enum_doc/generate.rs:135-136 says that what is written is what the schema lists;
\* the schema lists the Rust name of the case (:346-353), whatever it is written as, and an integer
\* enum as a number (:52-56), while each is written as a text.
SchemaTellsTheTruth ==
  stage = "sent" /\ Ours /\ ~Raw /\ CasesAsListed =>
    ConformTo([k \in DOMAIN Fields |-> InputParams[k].field], body.of)

\* Bytes, and what holds JSON already, arrive byte for byte, and a None as a None (get_body,
\* FromRawBody).  What a String and a filled Option come to is RawIsVerbatim's question.
RawArrives ==
  LET type == Fields[1].type
      v == model.values[1]
  IN  stage = "done" /\ written # {} /\ Raw /\ type # <<"String">> /\ ~(Option(type) /\ v # <<>>) =>
        outcome = Outcome("model", <<v>>)

\* README.md:75 of a raw field: "The entire body IS this one field - verbatim bytes / String / file",
\* and so :86 and :140: what our client sends of it is what the handler gets, a String and what is
\* in an Option included.
RawIsVerbatim ==
  stage = "done" /\ written # {} /\ Raw => outcome = Outcome("model", <<model.values[1]>>)
=============================================================================
