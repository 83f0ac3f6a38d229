---------------------------- MODULE JsonObjects ----------------------------
(***************************************************************************)
(* Values as JSON: how the derived JsonValueWriter writes them, how the    *)
(* derived JsonValueReader, and serde for what stands in a Vec or a        *)
(* HashMap, read them back, and what somebody writes, or expects, who      *)
(* knows the schema only.                                                  *)
(*                                                                         *)
(* A value: the bytes of a leaf, as it is printed; <<>> or <<value>> of an *)
(* Option; the items of a Vec; [key, value] of a HashMap; the values of    *)
(* the fields of a structure.                                              *)
(***************************************************************************)
EXTENDS Schema, InputValue

Null == [is |-> "null"]
Absent == [is |-> "absent"]
Scalar(is, text) == [is |-> is, text |-> text]
Array(items) == [is |-> "array", items |-> items]
Object(members) == [is |-> "object", members |-> members]
Member(key, value) == [key |-> key, value |-> value]

IsScalar(json) == json.is \in {"string", "number", "bool"}
KindOf(leaf) == IF leaf \in {"number", "bool"} THEN leaf ELSE "string"
IsEnum(leaf) == leaf \in {"enum", "integer enum"}

\* What a leaf is converted as: the cases of both enums alike, and a custom field as the text in it.
TextOf(leaf) == CASE IsEnum(leaf) -> "enum" [] leaf = "custom" -> "text" [] OTHER -> leaf

\* A value that is there, and what it is in its Option.
There(type, v) == IF Option(type) THEN v # <<>> ELSE TRUE
Inner(type) == IF Option(type) THEN Tail(type) ELSE type
InnerValue(type, v) == IF Option(type) THEN v[1] ELSE v

-----------------------------------------------------------------------------
(* Writing: JsonValueWriter *)

RECURSIVE Write(_, _)

\* json_object_field_write: a None has no member.
MemberOf(key, type, v) == IF There(type, v) THEN <<Member(key, Write(Inner(type), InnerValue(type, v)))>> ELSE <<>>

Write(type, v) ==
  LET of == Tail(type) IN
  CASE type[1] = "Vec" -> Array([k \in DOMAIN v |-> Write(of, v[k])])
    [] type[1] = "HashMap" -> Object([k \in DOMAIN v |-> Member(v[k].key, Write(of, v[k].value))])
    [] type[1] \in DOMAIN Structs ->
         Object(FlattenSeq([k \in DOMAIN v |-> MemberOf(KeysOf(type[1])[k], FieldsOf(type[1])[k].type, v[k])]))
    [] OTHER -> Scalar(KindOf(type[1]), v)

-----------------------------------------------------------------------------
(* Reading *)

NotRead == [ok |-> FALSE, value |-> <<>>]
IsValue(v) == [ok |-> TRUE, value |-> v]
AllRead(results) ==
  IF \A k \in DOMAIN results : results[k].ok
  THEN IsValue([k \in DOMAIN results |-> results[k].value]) ELSE NotRead

\* The first member with the key.
FirstOf(members, key) ==
  LET k == SelectInSeq(members, LAMBDA m : m.key = key)
  IN  IF k = 0 THEN Absent ELSE members[k].value

\* get_value of my-json: a name is a path.
Dot == 46
GetValue(json, name) ==
  FoldLeft(LAMBDA found, key : IF found.is = "object" THEN FirstOf(found.members, key) ELSE Absent,
           json, Split(name, Dot))

\* A scalar of one of these kinds, converted.
ReadScalar(leaf, json, kinds) ==
  IF json.is \notin kinds THEN NotRead
  ELSE LET text == Convert(TextOf(leaf), json.text)
       IN  IF text.ok THEN IsValue(text.text) ELSE NotRead

\* The case of an enum may come as the number that its id is.
Kinds(leaf) == IF IsEnum(leaf) THEN {"string", "number"} ELSE {KindOf(leaf)}

\* Mutant of ReadNested: an enum inside an object is read by what it is written as only.
ReadNestedByValue(leaf, json) ==
  IF IsEnum(leaf) /\ IsScalar(json) /\ json.text \notin {EnumCases[k].value : k \in DOMAIN EnumCases} THEN NotRead
  ELSE ReadScalar(leaf, json, Kinds(leaf))

ReadNested(leaf, json) == ReadScalar(leaf, json, Kinds(leaf))

RECURSIVE Read(_, _, _)

\* read_json_object_field, and serde's way: a member that is not there is a None, or it is missed.
ReadMember(reader, type, found) ==
  IF found.is \in {"absent", "null"}
  THEN IF Option(type) THEN IsValue(<<>>) ELSE NotRead
  ELSE LET read == Read(reader, Inner(type), found)
       IN  IF Option(type) /\ read.ok THEN IsValue(<<read.value>>) ELSE read

\* What serde does not take: a key it knows, twice, and one it does not know where the structure
\* denies those.
SerdeTakes(s, members) ==
  /\ \A j, k \in DOMAIN members :
       j # k /\ members[j].key = members[k].key => members[j].key \notin Range(SerdeKeysOf(s))
  /\ "deny_unknown_fields" \in Structs[s].attributes.params =>
       \A k \in DOMAIN members : members[k].key \in Range(SerdeKeysOf(s))

ReadObject(reader, s, json) ==
  IF json.is # "object" \/ (reader = "serde" /\ ~SerdeTakes(s, json.members)) THEN NotRead
  ELSE AllRead([k \in DOMAIN FieldsOf(s) |->
         ReadMember(reader, FieldsOf(s)[k].type,
                    IF reader = "serde" THEN FirstOf(json.members, SerdeKeysOf(s)[k]) ELSE GetValue(json, KeysOf(s)[k]))])

Read(reader, type, json) ==
  CASE type[1] = "Vec" ->
         IF json.is # "array" THEN NotRead
         ELSE AllRead([k \in DOMAIN json.items |-> Read(reader, Tail(type), json.items[k])])
    [] type[1] = "HashMap" ->
         IF json.is # "object" THEN NotRead
         ELSE LET values == AllRead([k \in DOMAIN json.members |-> Read(reader, Tail(type), json.members[k].value)])
              IN  IF values.ok
                  THEN IsValue([k \in DOMAIN json.members |-> Member(json.members[k].key, values.value[k])])
                  ELSE NotRead
    [] type[1] \in DOMAIN Structs -> ReadObject(reader, type[1], json)
    [] OTHER -> ReadNested(type[1], json)

\* TryFrom<HttpInputValue>: Vec and HashMap go through serde, an object through its JsonValueReader,
\* and whatever is a scalar by its text.
ReadBySerde(type) == Inner(type)[1] \in {"Vec", "HashMap"}
ReadField(type, json) ==
  CASE ReadBySerde(type) -> Read("serde", type, json)
    [] type[1] \in DOMAIN Structs -> Read("my_json", type, json)
    [] OTHER -> ReadScalar(type[1], json, {"string", "number", "bool"})

-----------------------------------------------------------------------------
(* Somebody who knows the schema only: a terse client leaves out what is   *)
(* not required and empty, an explicit one writes a null or an empty array.*)

\* A case as the schema lists it: HttpEnumCase has its Rust name for its value.
Listed(leaf, v) ==
  LET case == EnumCases[SelectInSeq(EnumCases, LAMBDA c : c.value = v)]
  IN  IF leaf = "integer enum" THEN Scalar("number", case.id) ELSE Scalar("string", case.name)

RECURSIVE Follow(_, _, _)

\* The member for a field, if there is to be one.
Followed(field, type, v, client) ==
  CASE client = "terse" /\ ~Required(type) /\ v = <<>> -> <<>>
    [] client # "terse" /\ Option(type) /\ v = <<>> -> <<Member(field.name, Null)>>
    [] OTHER -> <<Member(field.name, Follow(field.dataType, InnerValue(type, v), client))>>

Follow(d, v, client) ==
  CASE d.is = "ArrayOf" -> Array([k \in DOMAIN v |-> Follow(Element(d), v[k], client)])
    [] d.is \in {"DictionaryOf", "DictionaryOfArray"} ->
         Object([k \in DOMAIN v |-> Member(v[k].key, Follow(Element(d), v[k].value, client))])
    [] d.is = "Object" ->
         Object(Reverse(FlattenSeq([k \in DOMAIN v |->
           Followed(ObjectStructure(d.of)[k], FieldsOf(d.of)[k].type, v[k], client)])))
    [] d.is = "Enum" -> Listed(d.of, v)
    [] d.is = "SimpleType" -> Scalar(KindOf(d.of), v)

RECURSIVE Conforms(_, _)

\* Members of an object against the fields described.
ConformTo(fields, members) ==
  /\ \A k \in DOMAIN members :
       \E j \in DOMAIN fields : fields[j].name = members[k].key /\ Conforms(fields[j].dataType, members[k].value)
  /\ \A j \in DOMAIN fields : fields[j].required => \E k \in DOMAIN members : members[k].key = fields[j].name

\* An enum is one of its cases, as the schema lists it.
Conforms(d, json) ==
  CASE d.is = "ArrayOf" -> json.is = "array" /\ \A k \in DOMAIN json.items : Conforms(Element(d), json.items[k])
    [] d.is \in {"DictionaryOf", "DictionaryOfArray"} ->
         json.is = "object" /\ \A k \in DOMAIN json.members : Conforms(Element(d), json.members[k].value)
    [] d.is = "Object" -> json.is = "object" /\ ConformTo(ObjectStructure(d.of), json.members)
    [] d.is = "Enum" -> \E k \in DOMAIN EnumCases : json = Listed(d.of, EnumCases[k].value)
    [] d.is = "SimpleType" -> json.is = KindOf(d.of)
=============================================================================
