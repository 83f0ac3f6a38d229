-------------------------- MODULE RequestRoundTrip --------------------------
(***************************************************************************)
(* One model on both sides: its client writer pushes the fields into a     *)
(* url, headers and a multipart body (client_writer), the request travels, *)
(* and the generated parse reads the fields out of it again.  Both sides   *)
(* run the directives of the field: the client transforms and then         *)
(* validates, the server validates and then transforms.                    *)
(*                                                                         *)
(* A server has other clients too: they spell a query value, and lay a     *)
(* part of a form out, as they like, they send files, and some send a      *)
(* query value that is wrong.                                              *)
(***************************************************************************)
EXTENDS InputValue

CONSTANTS
  Cases,       \* models with the values of their fields, and who sends them
  Malformed    \* of each type: query values that no encoder writes, or that are none of it

Rank(source) == CASE source = "path" -> 1 [] source = "query" -> 2 [] source = "header" -> 3 [] OTHER -> 4

\* A text that its type is printed as.
Printed(type, t) == Convert(type, t) = Readable(t)

\* "[]", the one array among the texts here.
EmptyArray == <<91, 93>>

HasValuesOf(f, values, client) ==
  /\ IF f.source = "file" THEN Len(values) = 3      \* its name, its type and its content
     ELSE CASE f.kind = "one" -> Len(values) = 1 \/ (Len(values) = 0 /\ f.default # <<>> /\ client = "other")
            [] f.kind = "option" -> Len(values) <= 1
            [] f.kind = "vec" -> TRUE
  /\ \A k \in DOMAIN values :
       /\ IF client = "ours" THEN Printed(f.type, values[k]) ELSE Convert(f.type, values[k]).ok
       /\ ReadAsArray(f) => values[k] = EmptyArray \/ Head(EmptyArray) \notin Range(values[k])

\* The fields stand in the order in which the client writes them; there is one kind of body at most.
\* A default is one its own validator takes.  check_duplicated: but for those of the path, the fields
\* of a source have a name each; names that end in "[]" are left out.
ASSUME RequestAssumption ==
  /\ Malformed \in [Types -> SUBSET {t \in Seq(Byte) : Ampersand \notin Range(t)}]
  /\ \A c \in Cases :
       /\ c.client \in {"ours", "other", "broken"}
       /\ c.fields \in Seq(Field) /\ (c.client = "broken" => c.fields # <<>>)
       /\ c.values \in [DOMAIN c.fields -> Seq(Seq(Byte))]
       /\ \A k \in DOMAIN c.fields :
            LET f == c.fields[k] IN
            /\ Compiles(f) /\ ~IsSuffix(Brackets, f.name) /\ HasValuesOf(f, c.values[k], c.client)
            /\ \A j \in DOMAIN f.default : Printed(f.type, f.default[j]) /\ Accepts(f, f.default[j])
            /\ CASE c.client = "ours" -> f.source # "file"
                 [] c.client = "other" -> f.source \in {"query", "form", "file", "body"} /\ f.kind # "vec"
                 [] c.client = "broken" -> f.source = "query"
       /\ \A j, k \in DOMAIN c.fields :
            /\ j < k => Rank(c.fields[j].source) <= Rank(c.fields[k].source)
            /\ j < k /\ c.fields[j].name = c.fields[k].name /\ c.fields[j].source # "path" =>
                 Rank(c.fields[j].source) # Rank(c.fields[k].source)
            /\ c.fields[j].source = "body" => c.fields[k].source \notin {"form", "file"}

VARIABLES
  model,      \* the case at hand
  at,         \* fields written so far
  path,       \* of the url builder, as written so far
  query,
  headers,    \* names and values
  body,       \* what was put into it: the parts of a form, members of a JSON object, encoded pairs
  stage,      \* "fill", "sent", "done"
  outcome     \* what came of the request

vars == <<model, at, path, query, headers, body, stage, outcome>>

Ours == model.client = "ours"
Fields == model.fields
Outcome(is, values) == [is |-> is, values |-> values]

Init ==
  /\ model \in Cases
  /\ at = 0 /\ path = <<>> /\ query = <<>> /\ headers = <<>> /\ body = <<>>
  /\ stage = "fill" /\ outcome = Outcome("none", <<>>)

-----------------------------------------------------------------------------
(* The client *)

Now == Fields[at + 1]
Outgoing == All(model.values[at + 1], LAMBDA t : Transformed(Now, t))

\* Mutant of Refused: the value is validated as the caller gave it.
RefusedAsGiven == \E k \in DOMAIN Outgoing : ~Accepts(Now, model.values[at + 1][k])

\* A validator refuses a value: there is no request.  "Body fields carry no client-side directives."
Refused == Now.source # "body" /\ \E k \in DOMAIN Outgoing : ~Accepts(Now, Outgoing[k])

Writes(source) == stage = "fill" /\ Ours /\ at < Len(Fields) /\ Now.source = source
Written == at' = at + 1 /\ UNCHANGED <<model, stage, outcome>>

ClientRefuses ==
  /\ stage = "fill" /\ Ours /\ at < Len(Fields) /\ Refused
  /\ stage' = "done" /\ outcome' = Outcome("not built", <<>>)
  /\ UNCHANGED <<model, at, path, query, headers, body>>

AppendPathSegment(p, segment) ==
  (IF IsSuffix(<<Slash>>, p) THEN p ELSE Append(p, Slash))
    \o EncodePath(IF IsPrefix(<<Slash>>, segment) THEN Tail(segment) ELSE segment)

FillPath ==
  /\ Writes("path") /\ ~Refused
  /\ path' = AppendPathSegment(path, Outgoing[1])
  /\ UNCHANGED <<query, headers, body>> /\ Written

AppendQueryParam(q, name, written) ==
  (IF q = <<>> THEN q ELSE Append(q, Ampersand)) \o EncodeQuery(name) \o <<Equals>> \o written

AppendQueryValues(q, name, values) ==
  FoldLeft(LAMBDA u, t : AppendQueryParam(u, name, EncodeQuery(t)), q, values)

FillQuery ==
  /\ Writes("query") /\ ~Refused
  /\ query' = AppendQueryValues(query, Now.name, Outgoing)
  /\ UNCHANGED <<path, headers, body>> /\ Written

FillHeaders ==
  /\ Writes("header") /\ ~Refused
  /\ headers' = headers \o All(Outgoing, LAMBDA t : [name |-> Now.name, value |-> t])
  /\ UNCHANGED <<path, query, body>> /\ Written

\* get_body of a model with form fields.
FillForm ==
  /\ Writes("form") /\ ~Refused
  /\ body' = FoldLeft(LAMBDA b, t : AppendFormDataField(b, Now.name, t), body, Outgoing)
  /\ UNCHANGED <<path, query, headers>> /\ Written

\* get_body of a model with fields of a JSON object; the writer of my-json keeps texts as they are.
FillBody ==
  /\ Writes("body")
  /\ body' = IF Now.kind = "option" /\ model.values[at + 1] = <<>> THEN body
             ELSE Append(body, [name |-> Now.name, values |-> model.values[at + 1]])
  /\ UNCHANGED <<path, query, headers>> /\ Written

Send ==
  /\ stage = "fill" /\ at = Len(Fields)
  /\ stage' = "sent"
  /\ UNCHANGED <<model, at, path, query, headers, body, outcome>>

-----------------------------------------------------------------------------
(* Other clients *)

LowerHex(w) == [k \in DOMAIN w |-> IF k > 1 THEN Lower(w[k]) ELSE w[k]]

\* Every way to spell a byte in a query.
Spellings(b) ==
  {Escape(b), LowerHex(Escape(b))}
    \cup (IF b \in {Percent, Plus, Ampersand} \/ b > 127 THEN {} ELSE {<<b>>})
    \cup (IF b = Space THEN {<<Plus>>} ELSE {})

SpeltOn(ws, b) == {p[1] \o p[2] : p \in ws \X Spellings(b)}
Spelt(t) == FoldLeft(SpeltOn, {<<>>}, t)

OtherWrites(sources) ==
  stage = "fill" /\ model.client = "other" /\ at < Len(Fields) /\ Now.source \in sources /\ model.values[at + 1] # <<>>

\* One value, spelt in one of these ways; an empty pair behind it.
OtherClientWrites ==
  /\ OtherWrites({"query"})
  /\ \E written \in Spelt(Head(model.values[at + 1])) :
       query' = AppendQueryParam(query, Now.name, written) \o <<Ampersand>>
  /\ UNCHANGED <<path, headers, body>> /\ Written

\* A part with these header lines.
PartOf(lines, content) ==
  <<Boundary>> \o Crlf \o FlattenSeq([k \in DOMAIN lines |-> lines[k] \o Crlf]) \o Crlf \o content \o Crlf

\* Its name in quotes or not, with a type or a header nobody asks for in front of it or behind.
PartsOfField(name, value) ==
  LET quoted == <<Disposition, FormData>> \o Param(NameIs, name)
      bare == <<Disposition, Space, FormData, Semicolon, NameIs>> \o name
      more == {<<TypeIs, Space, 116>>, <<OtherHeader, 116>>}
  IN  {PartOf(lines, value) : lines \in {<<quoted>>, <<bare>>}
         \cup {<<line, m>> : line \in {quoted, bare}, m \in more}
         \cup {<<m, line>> : line \in {quoted, bare}, m \in more}}

PartsOfFile(name, file) ==
  {AppendFormDataFile(<<>>, name, file[1], file[2], file[3]),
   PartOf(<<<<TypeIs>> \o file[2], <<Disposition, FormData>> \o Param(FileNameIs, file[1]) \o Param(NameIs, name)>>,
          file[3])}

\* What else may stand in front of it: nothing; a preamble, in front of the first part only; a part
\* that breaks off, one without a name, and one of that very name that is no text.
Strays(name) ==
  {<<>>, <<Boundary>> \o Crlf \o <<OtherHeader>> \o Crlf,
   PartOf(<<<<Disposition, FormData>>>>, <<116>>), AppendFormDataField(<<>>, name, <<255>>)}
    \cup (IF body = <<>> THEN {<<116>> \o Crlf} ELSE {})

OtherClientAppends ==
  /\ OtherWrites({"form", "file"})
  /\ \E stray \in Strays(Now.name) :
       \E part \in IF Now.source = "file" THEN PartsOfFile(Now.name, model.values[at + 1])
                    ELSE PartsOfField(Now.name, Head(model.values[at + 1])) :
         body' = body \o stray \o part
  /\ UNCHANGED <<path, query, headers>> /\ Written

\* Fields of a body go into the crate's UrlEncodedBody.
AppendUrlEncoded ==
  /\ OtherWrites({"body"})
  /\ body' = AppendQueryParam(body, Now.name, EncodeQuery(Head(model.values[at + 1])))
  /\ UNCHANGED <<path, query, headers>> /\ Written

\* A field without a value stays away; a broken client leaves out what is required.
LeaveOut ==
  /\ stage = "fill" /\ at < Len(Fields)
  /\ \/ model.client = "other" /\ model.values[at + 1] = <<>>
     \/ model.client = "broken" /\ Now.kind = "one" /\ Now.default = <<>>
  /\ UNCHANGED <<path, query, headers, body>> /\ Written

BrokenClientWrites ==
  /\ stage = "fill" /\ model.client = "broken" /\ at < Len(Fields)
  /\ \E written \in Malformed[Now.type] : query' = AppendQueryParam(query, Now.name, written)
  /\ UNCHANGED <<path, headers, body>> /\ Written

-----------------------------------------------------------------------------
(* The server *)

\* The url comes as one text; the server takes it apart and matches the path with the template of
\* the model's path fields.
Url == IF query = <<>> THEN path ELSE path \o <<Question>> \o query
RawQuery == Behind(Url, Question)
Segments == IF Before(Url, Question) = <<>> THEN <<>> ELSE Split(Tail(Before(Url, Question)), Slash)

PathFields == {k \in DOMAIN Fields : Fields[k].source = "path"}
Routed == Len(Segments) = Cardinality(PathFields)

\* What the query string reader and the body reader are asked for.
Pairs(k) == IF Fields[k].source = "query" THEN GetVec(RawQuery, Fields[k].name) ELSE GetVec(body, Fields[k].name)
Named(entries, k) == SelectSeq(entries, LAMBDA e : e.name = Fields[k].name)

\* All there is for a field, converted to its type.
Found(k) ==
  LET type == Fields[k].type
      encoded(t) == ConvertEncoded(type, t)
      plain(t) == Convert(type, t)
  IN  CASE Fields[k].source = "path" -> <<encoded(Segments[k])>>
        [] Fields[k].source = "header" -> All(Named(headers, k), LAMBDA h : plain(h.value))
        [] Fields[k].source = "body" /\ Ours ->
             IF Named(body, k) = <<>> THEN <<>> ELSE All(Head(Named(body, k)).values, plain)
        [] Fields[k].source = "query" \/ (Fields[k].source = "body" /\ ~Ours) -> All(Pairs(k), encoded)

\* BodyReader: the first part of that name.  A file is no text, and a text no file.
TextsOf(item, f) == IF f.source = "file" THEN <<item.fileName, item.contentType, item.content>> ELSE <<item.content>>
ReadPart(item, f) ==
  All(TextsOf(item, f), LAMBDA t : IF item.file = (f.source = "file") THEN Convert(f.type, t) ELSE Unreadable)
FirstOf(s) == IF s = <<>> THEN <<>> ELSE <<Head(s)>>
FoundPart(k) ==
  FlattenSeq(All(FirstOf(Named(FormDataItems(IntoBytes(body)), k)), LAMBDA i : ReadPart(i, Fields[k])))

\* The first of what is found unless the field is a Vec or a file; its default if there is none.
Chosen(f, found) ==
  IF f.kind = "vec" \/ f.source = "file" THEN found
  ELSE FirstOf(found \o All(f.default, Readable))

\* The entries of a header or a form, as texts; what a Vec makes of the first.
Entries(k) ==
  IF Fields[k].source = "header" THEN All(Named(headers, k), LAMBDA h : Readable(h.value))
  ELSE FlattenSeq(All(Named(FormDataItems(IntoBytes(body)), k), LAMBDA i : ReadPart(i, [Fields[k] EXCEPT !.type = "text"])))
ItemsInFirst(entries) ==
  IF entries # <<>> /\ entries[1].ok /\ Trimmed(entries[1].text) = EmptyArray THEN <<>> ELSE <<Unreadable>>

Value(k) ==
  IF ReadAsArray(Fields[k]) THEN ItemsInFirst(Entries(k))
  ELSE Chosen(Fields[k], IF Fields[k].source \in {"form", "file"} THEN FoundPart(k) ELSE Found(k))

\* Nothing required is missing, and everything can be read.
IsRead(f, value) ==
  /\ f.source = "body" /\ ~Ours => QueryIsReadable(body)
  /\ value = <<>> => f.kind # "one"
  /\ \A j \in DOMAIN value : value[j].ok

\* Everything is read, then everything is validated, then the transforms are applied.
Answer(values) ==
  IF ~QueryIsReadable(RawQuery) \/ \E k \in DOMAIN Fields : ~IsRead(Fields[k], values[k])
  THEN Outcome("unreadable", <<>>)
  ELSE IF \E k \in DOMAIN Fields : \E j \in DOMAIN values[k] : ~Accepts(Fields[k], values[k][j].text)
  THEN Outcome("refused", <<>>)
  ELSE Outcome("model", [k \in DOMAIN Fields |-> All(values[k], LAMBDA v : Transformed(Fields[k], v.text))])

Parse ==
  /\ stage = "sent"
  /\ stage' = "done"
  /\ outcome' = IF Routed THEN Answer([k \in DOMAIN Fields |-> Value(k)]) ELSE Outcome("not found", <<>>)
  /\ UNCHANGED <<model, at, path, query, headers, body>>

Next ==
  \/ ClientRefuses \/ FillPath \/ FillQuery \/ FillHeaders \/ FillForm \/ FillBody \/ Send
  \/ OtherClientWrites \/ OtherClientAppends \/ AppendUrlEncoded \/ LeaveOut \/ BrokenClientWrites
  \/ Parse

Spec == Init /\ [][Next]_vars

-----------------------------------------------------------------------------
(* Properties *)

\* What a field's values, or its default, mean under its type and its directives; the name of a file
\* is read as it is written, with its quotes and line breaks escaped.
Meant(k) ==
  LET v == model.values[k]
      f == Fields[k]
  IN  IF f.source = "file" THEN <<EscapeHeaderParam(v[1]), v[2], v[3]>>
      ELSE All(IF v = <<>> THEN f.default ELSE v, LAMBDA t : Transformed(f, Convert(f.type, t).text))

\* A backslash at the end of a file name takes the closing quote for its own.
KeepsItsQuote(k) == Fields[k].source = "file" => ~IsSuffix(<<Backslash>>, model.values[k][1])

\* A path value that fits into one segment of a url.
FitsASegment(t) == t # <<>> /\ \A k \in DOMAIN t : t[k] # Slash
Fits == \A k \in PathFields : FitsASegment(Meant(k)[1])

\* A body field goes out as it is, and its validator runs on the server only.
RefusedInTheBody(k) ==
  Fields[k].source = "body" /\ \E j \in DOMAIN model.values[k] : ~Accepts(Fields[k], model.values[k][j])

\* A request the client built is never turned down by the server that has the same model, but for a
\* field of a JSON body, and for a Vec of a header or a form, which goes out in one entry per item and
\* is looked for in one: it finds every value, can decode and convert it, and its validators accept
\* what the client's did, though they run before the transforms there and behind them here
\* (client_writer, parse).
BuiltIsAccepted ==
  stage = "done" /\ Ours /\ Fits =>
    \/ outcome.is \in {"not built", "model"}
    \/ outcome.is = "refused" /\ \E k \in DOMAIN Fields : RefusedInTheBody(k)
    \/ outcome.is = "unreadable" /\ \E k \in DOMAIN Fields : ReadAsArray(Fields[k])

\* Query, header, form and body values and files arrive as the directives make them, all of them,
\* in order, and in the field they were written for, and a default where there is none, whatever is in
\* them, however a client spelt them and laid them out, and whatever broken part stands beside them.
ValuesArrive ==
  outcome.is = "model" =>
    \A k \in DOMAIN Fields :
      Fields[k].source # "path" /\ KeepsItsQuote(k) /\ ~ReadAsArray(Fields[k]) => outcome.values[k] = Meant(k)

\* However another client spells its values and lays its parts out, they can be read; only a
\* validator refuses them ("a malformed part is skipped", "Content-Type without a filename is
\* treated as a value").  Not so a bool of the query, which is not decoded, and a file name that takes
\* what is behind it along.
AnySpellingIsRead ==
  stage = "done" /\ model.client = "other" =>
    \/ outcome.is \in {"model", "refused"}
    \/ \E k \in DOMAIN Fields :
         (Fields[k].source = "query" /\ Fields[k].type = "bool") \/ ~KeepsItsQuote(k)

PlusAsSpace(t) == [k \in DOMAIN t |-> IF t[k] = Plus THEN Space ELSE t[k]]

\* Path values arrive too, in their own segments, but for their pluses: those become spaces
\* (append_path_segment and read_path_value).
PathArrivesButPlus ==
  outcome.is = "model" /\ Fits =>
    \A k \in PathFields :
      outcome.values[k] = All(All(Meant(k), PlusAsSpace), LAMBDA t : Transformed(Fields[k], t))

\* A query value with a broken escape, one that decodes to no text, or one that is none of its type,
\* is never read as a value, and a required one that is missing is not made up (UrlDecoder::get_next,
\* convert_from_str, get_required).
BrokenIsTold == stage = "done" /\ model.client = "broken" => outcome.is = "unreadable"

\* "the segment is percent-decoded" (README, Per-source semantics): a path value arrives as it was.
PathIsPercentDecoded ==
  outcome.is = "model" /\ Fits => \A k \in PathFields : outcome.values[k] = Meant(k)
=============================================================================
