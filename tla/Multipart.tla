----------------------------- MODULE Multipart -----------------------------
(***************************************************************************)
(* A multipart/form-data body as FormDataBody writes it and FormDataReader *)
(* reads it.  A body is a sequence of bytes and of marks; a mark stands    *)
(* for a run of bytes that is looked for, or compared, as one.  The        *)
(* boundary is in no content ("a boundary only has to be absent from this  *)
(* one request's content").                                                *)
(***************************************************************************)
EXTENDS UrlCodec

Boundary == 256       \* two dashes and the boundary
Disposition == 257    \* "Content-Disposition:"
TypeIs == 258         \* "Content-Type:"
OtherHeader == 259    \* any other header's name and its colon
FormData == 260       \* "form-data"
NameIs == 261         \* "name="
FileNameIs == 262     \* "filename="

Dash == 45   Quote == 34   Backslash == 92   Semicolon == 59   Colon == 58   CR == 13
Crlf == <<13, 10>>

-----------------------------------------------------------------------------
(* FormDataBody *)

EscapeHeaderParam(t) == Encoded(t, LAMBDA b : IF b \in {Quote, 13, 10} THEN Escape(b) ELSE <<b>>)
Param(mark, t) == <<Semicolon, Space, mark, Quote>> \o EscapeHeaderParam(t) \o <<Quote>>

AppendFormDataField(body, name, value) ==
  body \o <<Boundary>> \o Crlf \o <<Disposition, Space, FormData>> \o Param(NameIs, name)
    \o Crlf \o Crlf \o value \o Crlf

AppendFormDataFile(body, name, fileName, contentType, content) ==
  body \o <<Boundary>> \o Crlf \o <<Disposition, Space, FormData>> \o Param(NameIs, name)
    \o Param(FileNameIs, fileName) \o Crlf \o <<TypeIs, Space>> \o contentType
    \o Crlf \o Crlf \o content \o Crlf

IntoBytes(body) == body \o <<Boundary, Dash, Dash>>

-----------------------------------------------------------------------------
(* ContentIterator *)

\* The first place from k on with one of these; behind the end if there is none.
From(src, k, Here(_)) ==
  LET places == {j \in k..Len(src) : Here(src[j])} IN IF places = {} THEN Len(src) + 1 ELSE Min(places)
IsInk(b) == b > 32

\* What lies between two boundaries, up to the closing one or to the last one there is.
Contents(body) ==
  LET at == SetToSortSeq({k \in DOMAIN body : body[k] = Boundary}, <)
      closes(k) == SubSeq(body, at[k] + 1, at[k] + 2) = <<Dash, Dash>>
      last == Min({k \in DOMAIN at : closes(k)} \cup {Len(at)})
  IN  [k \in 1..(last - 1) |-> SubSeq(body, From(body, at[k] + 1, IsInk), at[k + 1] - 1)]

-----------------------------------------------------------------------------
(* ContentDispositionParser *)

\* The quote that closes a value, a backslash taking the character behind it along; behind the end
\* if there is none.
ClosingQuote(line, opening) ==
  LET close[k \in Nat] ==
        CASE k > Len(line) -> Len(line) + 1
          [] k <= Len(line) /\ line[k] = Backslash -> close[k + 2]
          [] k <= Len(line) /\ line[k] = Quote -> k
          [] OTHER -> close[k + 1]
  IN  close[opening + 1]

\* The parameters that have a value, in order.
Params(line) ==
  LET params[pos \in Nat] ==
        LET key == From(line, pos, LAMBDA b : IsInk(b) /\ b # Semicolon)
            sign == From(line, key, LAMBDA b : b \in {Semicolon, Equals, NameIs, FileNameIs})
            start == From(line, sign + 1, IsInk)
            quoted == line[start] = Quote
            end == IF quoted THEN ClosingQuote(line, start)
                   ELSE From(line, start, LAMBDA b : b = Semicolon \/ ~IsInk(b))
            value == SubSeq(line, IF quoted THEN start + 1 ELSE start, end - 1)
        IN  CASE sign > Len(line) -> <<>>
              [] sign <= Len(line) /\ line[sign] = Semicolon -> params[sign + 1]
              [] sign <= Len(line) /\ line[sign] # Semicolon /\ start > Len(line) -> <<>>
              [] OTHER -> <<[key |-> IF sign = key THEN line[key] ELSE 0, value |-> value]>>
                            \o params[IF quoted THEN end + 1 ELSE end]
  IN  params[1]

-----------------------------------------------------------------------------
(* FormDataItem::try_parse *)

\* The headers of a part from pos on, each with its kind and where its value lies, and where the
\* content begins; 0 if the part is malformed.
HeadersOf(src) ==
  LET malformed == [headers |-> <<>>, content |-> 0]
      read[pos \in Nat] ==
        LET name == From(src, pos, IsInk)
            colon == From(src, name, LAMBDA b : b \in {Colon, Disposition, TypeIs, OtherHeader})
            kind == IF colon = name THEN src[name] ELSE OtherHeader
            start == IF kind = TypeIs THEN From(src, colon + 1, IsInk) ELSE colon + 1
            end == From(src, start, LAMBDA b : b = CR)
            rest == read[end]
        IN  IF pos + 3 <= Len(src) /\ SubSeq(src, pos, pos + 3) = Crlf \o Crlf
            THEN [headers |-> <<>>, content |-> pos + 4]
            ELSE IF pos + 3 > Len(src) \/ colon > Len(src) \/ end > Len(src) THEN malformed
            ELSE [rest EXCEPT !.headers = <<[kind |-> kind, value |-> SubSeq(src, start, end - 1)]>> \o @]
  IN  read[1]

\* One line break at the end belongs to the boundary behind it.
WithoutLineBreak(content) ==
  IF IsSuffix(Crlf, content) THEN SubSeq(content, 1, Len(content) - 2) ELSE content

\* Mutant of IsFile: a Content-Type is enough to make a part a file.
IsFileByType(types, fileNames) == types # <<>>

\* "A file part needs both a Content-Type and a filename."
IsFile(types, fileNames) == types # <<>> /\ fileNames # <<>>

\* ok: the part can be read.  Of a parameter given twice the last one counts.
TryParse(src) ==
  LET part == HeadersOf(src)
      Of(kind) == SelectSeq(part.headers, LAMBDA h : h.kind = kind)
      params == FlattenSeq([k \in DOMAIN Of(Disposition) |-> Params(Of(Disposition)[k].value)])
      Named(key) == SelectSeq(params, LAMBDA p : p.key = key)
      content == WithoutLineBreak(SubSeq(src, part.content, Len(src)))
      file == IsFile(Of(TypeIs), Named(FileNameIs))
      Text(p) == IF p = <<>> THEN <<>> ELSE Last(p).value
  IN  IF part.content = 0 THEN [ok |-> FALSE]
      ELSE [ok |-> Named(NameIs) # <<>> /\ (file \/ IsUtf8(SelectSeq(content, LAMBDA b : b < 256))),
            name |-> Text(Named(NameIs)), file |-> file, fileName |-> Text(Named(FileNameIs)),
            contentType |-> IF file THEN Last(Of(TypeIs)).value ELSE <<>>, content |-> content]

\* FormDataReader::new: a malformed part is skipped.
FormDataItems(body) ==
  SelectSeq([k \in DOMAIN Contents(body) |-> TryParse(Contents(body)[k])], LAMBDA i : i.ok)
=============================================================================
