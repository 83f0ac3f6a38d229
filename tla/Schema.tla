------------------------------- MODULE Schema -------------------------------
(***************************************************************************)
(* What the server tells of its models: the data type of a field, the      *)
(* structure of an object, the parameters of a request                     *)
(* (schema/data_types, the derives' types.rs, docs.rs and                  *)
(* http_object_structure), and what the derives refuse to compile and the  *)
(* registration of a controller refuses to describe.                       *)
(*                                                                         *)
(* A type is the path to its leaf: "Option", "Vec" and "HashMap" around a  *)
(* "text", "number", "bool", "enum", "integer enum", "custom" (a text in   *)
(* an #[http_input_field]) or an object structure.                         *)
(***************************************************************************)
EXTENDS FieldKey, FiniteSets

\* The object structures there are: of each, its attributes and its fields.
CONSTANT Structs

Leaf == {"text", "number", "bool", "custom", "enum", "integer enum"} \cup DOMAIN Structs
Option(type) == type[1] = "Option"

\* An Option stands outermost; dictionaries in an object structure are left out.
IsType(type) ==
  /\ type \in Seq(STRING) /\ type # <<>> /\ Last(type) \in Leaf
  /\ \A k \in 1..(Len(type) - 1) : type[k] \in {"Vec", "HashMap"} \/ (k = 1 /\ type[k] = "Option")

ASSUME SchemaAssumption ==
  \A s \in DOMAIN Structs :
    /\ Structs[s].attributes.rename_all \in Named(Rules)
    /\ Structs[s].attributes.params \subseteq WireShapingOfStruct \cup HarmlessOfStruct
    /\ \A k \in DOMAIN Structs[s].fields :
         LET f == Structs[s].fields[k] IN
         /\ f.name \in Identifier /\ {f.json_name, f.rename} \subseteq Named(Seq(Nat))
         /\ f.params \subseteq WireShapingOfField \cup HarmlessOfField
         /\ IsType(f.type) /\ "HashMap" \notin Range(f.type)

FieldsOf(s) == Structs[s].fields
KeysOf(s) == [k \in DOMAIN FieldsOf(s) |-> ResolveFieldKey(Structs[s].attributes, FieldsOf(s)[k])]
SerdeKeysOf(s) == [k \in DOMAIN FieldsOf(s) |-> SerdeKey(Structs[s].attributes, FieldsOf(s)[k])]

\* The structures a type names, and those they name.
Reached(type) ==
  LET near(found) ==
        found \cup ({Last(f.type) : f \in UNION {Range(FieldsOf(s)) : s \in found}} \cap DOMAIN Structs)
      far[n \in Nat] == IF n = 0 THEN {Last(type)} \cap DOMAIN Structs ELSE near(far[n - 1])
  IN  far[Cardinality(DOMAIN Structs)]

-----------------------------------------------------------------------------
(* Data types *)

\* of: the leaf; nested: how many arrays lie around it, besides the one that is says.
Described(is, nested, of) == [is |-> is, nested |-> nested, of |-> of]

LeafType(leaf) ==
  CASE leaf \in {"text", "number", "bool", "custom", "bytes"} -> Described("SimpleType", 0, leaf)
    [] leaf \in {"enum", "integer enum"} -> Described("Enum", 0, leaf)
    [] leaf \in DOMAIN Structs -> Described("Object", 0, leaf)

NotDescribed == Described("None", 0, "None")

\* What an element of an array, or of a dictionary, is.
Element(d) ==
  CASE d.is = "ArrayOf" /\ d.nested > 0 -> [d EXCEPT !.nested = @ - 1]
    [] d.is = "DictionaryOfArray" -> [d EXCEPT !.is = "ArrayOf"]
    [] OTHER -> LeafType(d.of)

\* Of Vec<T>; an array element that is a dictionary panics.
VecOf(d) ==
  CASE d.is \in {"SimpleType", "Object", "Enum"} -> [d EXCEPT !.is = "ArrayOf"]
    [] d.is = "ArrayOf" -> [d EXCEPT !.nested = @ + 1]
    [] OTHER -> NotDescribed

\* Of HashMap<String, T>; so does a dictionary of dictionaries.
MapOf(d) ==
  CASE d.is \in {"SimpleType", "Object", "Enum"} -> [d EXCEPT !.is = "DictionaryOf"]
    [] d.is = "ArrayOf" -> [d EXCEPT !.is = "DictionaryOfArray"]
    [] OTHER -> NotDescribed

\* "An Option<T> is described as T."
DataType(type) ==
  FoldRight(LAMBDA w, d : CASE w = "Vec" -> VecOf(d) [] w = "HashMap" -> MapOf(d) [] w = "Option" -> d,
            Front(type), LeafType(Last(type)))

Required(type) == type[1] \notin {"Vec", "Vec<u8>", "Option"}

\* compile_http_field
HttpField(name, dataType, type, hasDefault) ==
  [name |-> name, dataType |-> dataType, required |-> Required(type) /\ ~hasDefault]

\* Mutant of ObjectStructure: the fields as Rust names them.
ObjectStructureByRustName(s) ==
  [k \in DOMAIN FieldsOf(s) |->
     LET f == FieldsOf(s)[k] IN HttpField(f.name, DataType(f.type), f.type, Option(f.type))]

ObjectStructure(s) ==
  [k \in DOMAIN FieldsOf(s) |->
     LET f == FieldsOf(s)[k] IN HttpField(KeysOf(s)[k], DataType(f.type), f.type, Option(f.type))]

-----------------------------------------------------------------------------
(* The body fields of a model: [attr, name, type, default], the type of a  *)
(* raw body being one of these.                                            *)

RawTypes == {<<"Vec<u8>">>, <<"RawData">>, <<"RawDataTyped">>, <<"String">>,
             <<"Option", "Vec<u8>">>, <<"Option", "String">>}
IsRaw(f) == f.attr = "http_body_raw"
HasDefault(f) == f.default # <<>>

\* What a raw body is described as; a RawDataTyped as what it holds, here a text.
RawDataType(type) ==
  CASE Last(type) = "Vec<u8>" -> DataType(<<"Vec", "number">>)
    [] Last(type) = "RawData" -> LeafType("bytes")
    [] Last(type) \in {"RawDataTyped", "String"} -> DataType(<<"text">>)

\* get_input_params
InputParameter(f) ==
  [source |-> [http_body |-> "BodyModel", http_form_data |-> "FormData", http_body_raw |-> "BodyRaw"][f.attr],
   field |-> HttpField(f.name, IF IsRaw(f) THEN RawDataType(f.type) ELSE DataType(f.type), f.type, HasDefault(f))]

IsBody(param) == param.source \in {"BodyModel", "BodyRaw"}

\* HttpParameters::check_parameters: form fields are sorted apart, and only looked at for the message.
CheckParameters(method, params) == ~(method \in {"GET", "DELETE"} /\ \E k \in DOMAIN params : IsBody(params[k]))

\* HttpInputProperties: one kind of body, at most one raw one, and no name twice.
OneBodyKind(fields) ==
  /\ Cardinality({fields[k].attr : k \in DOMAIN fields}) <= 1
  /\ Cardinality({k \in DOMAIN fields : IsRaw(fields[k])}) <= 1
NoNameTwice(fields) == Cardinality({fields[k].name : k \in DOMAIN fields}) = Len(fields)

\* The derive of every structure in it, too.  Only a text, a number or a bool takes a value for its
\* default; the bare default of an enum is left out.
StructCompiles(s) ==
  /\ StructIsRead(Structs[s].attributes)
  /\ \A k \in DOMAIN FieldsOf(s) : FieldIsRead(FieldsOf(s)[k])
\* Mutant of ModelCompiles: two fields may have one name.
ModelCompilesWithDuplicates(fields) ==
  /\ OneBodyKind(fields)
  /\ \A k \in DOMAIN fields : \A s \in Reached(fields[k].type) : StructCompiles(s)

ModelCompiles(fields) ==
  /\ OneBodyKind(fields) /\ NoNameTwice(fields)
  /\ \A k \in DOMAIN fields : \A s \in Reached(fields[k].type) : StructCompiles(s)

\* A structure that holds itself is described without end; the registration never comes back.
HoldsItself(s) == \E k \in DOMAIN FieldsOf(s) : s \in Reached(FieldsOf(s)[k].type)

IsDescribed(fields) ==
  \A k \in DOMAIN fields : ~IsRaw(fields[k]) =>
    /\ DataType(fields[k].type) # NotDescribed
    /\ \A s \in Reached(fields[k].type) :
         ~HoldsItself(s) /\ \A j \in DOMAIN FieldsOf(s) : DataType(FieldsOf(s)[j].type) # NotDescribed
=============================================================================
