------------------------------ MODULE FieldKey ------------------------------
(***************************************************************************)
(* The key of a field of an object structure in a JSON body                *)
(* (http-request-schema-macros/src/field_key.rs): serde's naming           *)
(* attributes, and #[json_name], read off the struct when the derive       *)
(* compiles it, so that client and server use the same key.  A name is the *)
(* sequence of its bytes.                                                  *)
(***************************************************************************)
EXTENDS Naturals, Sequences, SequencesExt

Hyphen == 45   Underscore == 95
SmallLetters == 97..122   BigLetters == 65..90
ToUpper(b) == IF b \in SmallLetters THEN b - 32 ELSE b
ToLower(b) == IF b \in BigLetters THEN b + 32 ELSE b

\* A Rust identifier, without its "r#" where it is a raw one.
IdentifierByte == SmallLetters \cup BigLetters \cup (48..57) \cup {Underscore}
Identifier == Seq(IdentifierByte) \ {<<>>}

Rules == {"lowercase", "UPPERCASE", "PascalCase", "camelCase", "snake_case", "SCREAMING_SNAKE_CASE",
          "kebab-case", "SCREAMING-KEBAB-CASE"}

\* What #[serde(..)] may say besides names.  Of a struct: what would make another object of it, and
\* what changes nothing here; the same of a field.
WireShapingOfStruct == {"transparent", "tag", "untagged", "from", "into", "try_from"}
HarmlessOfStruct == {"deny_unknown_fields", "bound", "rename"}
WireShapingOfField ==
  {"skip", "skip_serializing", "skip_deserializing", "skip_serializing_if", "flatten", "with",
   "serialize_with", "deserialize_with"}
HarmlessOfField == {"bound"}

\* A naming attribute: not there, one name or rule, or another for writing than for reading.
Named(S) == [form : {"none", "split"}, to : {<<>>}] \cup [form : {"one"}, to : S]
NotNamed == [form |-> "none", to |-> <<>>]

\* What the derive sees of a field, and of the struct around it.
FieldAttributes ==
  [name : Identifier, json_name : Named(Seq(Nat)), rename : Named(Seq(Nat)),
   params : SUBSET (WireShapingOfField \cup HarmlessOfField)]
StructAttributes ==
  [rename_all : Named(Rules), params : SUBSET (WireShapingOfStruct \cup HarmlessOfStruct)]

-----------------------------------------------------------------------------
(* RenameAllRule::apply_to_field *)

Uppercase(t) == [k \in DOMAIN t |-> ToUpper(t[k])]
Dashed(t) == [k \in DOMAIN t |-> IF t[k] = Underscore THEN Hyphen ELSE t[k]]

\* An underscore goes, and makes what follows it a capital; so is the first letter.
Pascal(t) ==
  FoldLeft(LAMBDA s, b : IF b = Underscore THEN [s EXCEPT !.capitalize = TRUE]
                         ELSE [out |-> Append(s.out, IF s.capitalize THEN ToUpper(b) ELSE b),
                               capitalize |-> FALSE],
           [out |-> <<>>, capitalize |-> TRUE], t).out

Camel(t) ==
  LET pascal == Pascal(t)
  IN  IF pascal = <<>> THEN pascal ELSE <<ToLower(Head(pascal))>> \o Tail(pascal)

\* A field's name is taken for one in snake case: two of the rules leave it as it is.
ApplyToField(rule, t) ==
  CASE rule \in {"lowercase", "snake_case"} -> t
    [] rule \in {"UPPERCASE", "SCREAMING_SNAKE_CASE"} -> Uppercase(t)
    [] rule = "PascalCase" -> Pascal(t)
    [] rule = "camelCase" -> Camel(t)
    [] rule = "kebab-case" -> Dashed(t)
    [] rule = "SCREAMING-KEBAB-CASE" -> Dashed(Uppercase(t))

-----------------------------------------------------------------------------
(* What the derive compiles, and the key it gives *)

\* read_container_rename_all: no rule of its own for writing, nothing that makes another object.
StructIsRead(s) ==
  /\ s.params \cap WireShapingOfStruct = {}
  /\ s.rename_all.form # "split"

\* resolve_field_key: the same of a field, and its two names do not disagree.
FieldIsRead(f) ==
  /\ f.params \cap WireShapingOfField = {}
  /\ f.json_name.form # "split" /\ f.rename.form # "split"
  /\ f.json_name.form = "one" /\ f.rename.form = "one" => f.json_name.to = f.rename.to

\* #[json_name], then #[serde(rename)], then the rule of the struct, then the name of the field.
ResolveFieldKey(s, f) ==
  CASE f.json_name.form = "one" -> f.json_name.to
    [] f.json_name.form # "one" /\ f.rename.form = "one" -> f.rename.to
    [] OTHER -> IF s.rename_all.form = "one" THEN ApplyToField(s.rename_all.to, f.name) ELSE f.name

\* Serde, which knows nothing of #[json_name].
SerdeKey(s, f) == ResolveFieldKey(s, [f EXCEPT !.json_name = NotNamed])
=============================================================================
