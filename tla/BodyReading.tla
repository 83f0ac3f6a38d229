---------------------------- MODULE BodyReading ----------------------------
(***************************************************************************)
(* What the generated parse makes of a body that is in memory: how its     *)
(* format is found out (BodyContentType), how a name is looked up in it    *)
(* (BodyReader, JsonEncodedData) and how the fields of a model are read,   *)
(* converted and validated, in order.                                      *)
(*                                                                         *)
(* A body is a sequence of pieces: white space, the brackets a JSON text   *)
(* may begin with, JSON members, the end of the object, url-encoded pairs, *)
(* multipart parts, and something nobody can read.  A name is a path, a    *)
(* key and then the way into its value; a value is a function from the     *)
(* ways into it to the texts found there.                                  *)
(***************************************************************************)
EXTENDS Naturals, Sequences, SequencesExt

CONSTANTS
  Null,        \* the JSON null
  Absent,      \* a value that is not there
  NoHeader     \* no Content-Type

Mark(is) == [is |-> is, name |-> <<>>, value |-> <<>> :> ""]
Blank == Mark("blank")    Open == Mark("open")      Array == Mark("array")
Close == Mark("close")    Broken == Mark("broken")
Member(key, value) == [is |-> "member", name |-> <<key>>, value |-> value]
Pair(name, text) == [is |-> "pair", name |-> name, value |-> <<>> :> text]
Part(name, text) == [is |-> "part", name |-> name, value |-> <<>> :> text]

Has(content, kinds) == \E k \in DOMAIN content : content[k].is \in kinds

\* What begins a body, white space passed by; Broken if nothing does.
Beginning(content) ==
  LET k == SelectInSeq(content, LAMBDA p : p.is # "blank")
  IN  IF k = 0 THEN "nothing" ELSE content[k].is

\* A text that is cut into pieces: only a member has a key of its own, and what looks like a member,
\* or like the end of an object, where no object was begun is something nobody can read.
IsCut(content) ==
  /\ content \in Seq(Range(content))
  /\ \A k \in DOMAIN content : content[k].is = "member" => content[k].name = <<content[k].name[1]>>
  /\ Beginning(content) \notin {"member", "close"}

-----------------------------------------------------------------------------
(* The format of a body *)

\* What a Content-Type says; "refused" is a multipart body without a boundary.
FromContentType(header) ==
  CASE header = "json" -> "Json"
    [] header = "urlencoded" -> "UrlEncoded"
    [] header = "multipart" -> "FormData"
    [] header = "multipart without boundary" -> "refused"
    [] OTHER -> "Unknown"

\* What the bytes say.  Pairs and parts have a '=' in them.
DetectFromBody(content) ==
  IF Beginning(content) \in {"open", "array"} THEN "Json"
  ELSE IF Has(content, {"pair", "part"}) /\ ~Has(content, {"broken"}) THEN "UrlEncoded"
  ELSE "Unknown"

\* Which reader BodyReader::from_parts makes.
Format(content, header) ==
  LET told == IF header = NoHeader THEN "Unknown" ELSE FromContentType(header)
      detected == DetectFromBody(content)
  IN  CASE told # "Unknown" -> told
        [] told = "Unknown" /\ detected # "Unknown" -> detected
        [] OTHER -> IF header = NoHeader /\ content = <<>> THEN "Empty" ELSE "Unknown"

-----------------------------------------------------------------------------
(* Outcomes of a parse *)

Outcome(is, of) == [is |-> is, of |-> of]
Model(values) == Outcome("model", values)
Required(name) == Outcome("RequiredParameterIsMissing", name)
CanNotParse(name) == Outcome("CanNotParseValue", name)
InvalidBody == Outcome("InvalidBodyFormat", <<>>)
UrlDecodeError == Outcome("UrlDecodeError", <<>>)
Validation == Outcome("Validation", <<>>)
BodyStreamError == Outcome("BodyStream", <<>>)
Fine == Outcome("fine", <<>>)

\* The first of these that is not fine; Fine if there is none.
FirstError(outcomes) ==
  LET k == SelectInSeq(outcomes, LAMBDA o : o # Fine)
  IN  IF k = 0 THEN Fine ELSE outcomes[k]

\* What BodyReader::from_parts refuses.  The JSON reader is lazy: only the bracket is looked at.
ReaderError(content, header) ==
  LET format == Format(content, header)
  IN  CASE format = "refused" -> InvalidBody
        [] format = "Json" /\ Beginning(content) # "open" -> InvalidBody
        [] format = "UrlEncoded" /\ Has(content, {"broken"}) -> UrlDecodeError
        [] OTHER -> Fine

-----------------------------------------------------------------------------
(* Lookups *)

\* get_value of my-json: the first member with the key, unless what stands before it cannot be
\* read; then the way into its value.  A null is not there.
JsonValue(content, name) ==
  LET k == SelectInSeq(content, LAMBDA p :
             \/ p.is \in {"close", "broken"}
             \/ p.is = "member" /\ p.name = <<Head(name)>>)
      found == k # 0 /\ content[k].is = "member"
  IN  IF found /\ Tail(name) \in DOMAIN content[k].value /\ content[k].value[Tail(name)] # Null
      THEN content[k].value[Tail(name)] ELSE Absent

\* The readers of the other formats: the first pair, or part, of that very name.
NamedValue(content, kind, name) ==
  LET k == SelectInSeq(content, LAMBDA p : p.is = kind /\ p.name = name)
  IN  IF k = 0 THEN Absent ELSE content[k].value[<<>>]

GetOptional(content, header, name) ==
  LET format == Format(content, header)
  IN  CASE format = "Json" -> JsonValue(content, name)
        [] format = "UrlEncoded" -> NamedValue(content, "pair", name)
        [] format = "FormData" -> NamedValue(content, "part", name)
        [] OTHER -> Absent

-----------------------------------------------------------------------------
(* Fields: read and converted in order, then validated in order; an        *)
(* Option #[http_body_raw] is read after all that.                         *)

\* presence: "required", "optional" or "default"; number: only a number converts; validator: "x"
\* is refused.
Field == [name : Seq(STRING), presence : {"required", "optional", "default"},
          number : BOOLEAN, validator : BOOLEAN, raw : BOOLEAN]

ReadError(field, content, header) ==
  LET text == GetOptional(content, header, field.name)
  IN  CASE text = Absent /\ field.presence = "required" ->
             IF Format(content, header) = "Unknown" THEN InvalidBody ELSE Required(field.name)
        [] text # Absent /\ field.number /\ text # "1" -> CanNotParse(field.name)
        [] OTHER -> Fine

ValidationError(field, content, header) ==
  IF field.validator /\ GetOptional(content, header, field.name) = "x" THEN Validation ELSE Fine

\* The whole of parse behind its path, header and query reads; refused says that a validator of
\* one of those refuses what was read.
ReadModel(content, header, fields, refused) ==
  LET raw == {k \in DOMAIN fields : fields[k].raw}
      Reads(these) ==
        [k \in DOMAIN fields |-> IF k \in these THEN ReadError(fields[k], content, header) ELSE Fine]
      validated ==
        [k \in DOMAIN fields |-> IF k \in raw THEN Fine ELSE ValidationError(fields[k], content, header)]
      error  == FirstError(<<ReaderError(content, header)>> \o Reads(DOMAIN fields \ raw)
                  \o <<IF refused THEN Validation ELSE Fine>> \o validated \o Reads(raw))
  IN  IF error # Fine THEN error
      ELSE Model([k \in DOMAIN fields |-> GetOptional(content, header, fields[k].name)])
=============================================================================
