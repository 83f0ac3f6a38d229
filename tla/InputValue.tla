----------------------------- MODULE InputValue -----------------------------
(***************************************************************************)
(* A field of a request model: its attribute, its type, what its           *)
(* directives do to a text on either side, and how the server makes a      *)
(* value out of a text (HttpInputValue, convert_from_str, the enum         *)
(* derive).  A value is the text its type is printed as.                   *)
(***************************************************************************)
EXTENDS Multipart

\* The cases of the models' enum: the name Rust has for each, what it is written as, and its number
\* ("Id must be a number").
CONSTANT EnumCases

ASSUME EnumAssumption ==
  /\ EnumCases \in Seq([name : Seq(Byte), value : Seq(Byte), id : Seq(Digits \cup {45})])
  /\ \A i, j \in DOMAIN EnumCases : i # j => EnumCases[i].name # EnumCases[j].name
  /\ \A i, j \in DOMAIN EnumCases :
       i # j => {EnumCases[i].value, EnumCases[i].id} \cap {EnumCases[j].value, EnumCases[j].id} = {}

Sources == {"path", "query", "header", "form", "file", "body"}
Types == {"text", "number", "bool", "enum"}

\* validator: a text with a capital in it is refused; default: none or one.
Field == [source : Sources, name : Seq(Byte), type : Types, kind : {"one", "option", "vec"},
          default : Seq(Seq(Byte)), trim : BOOLEAN, case : {"as is", "lower", "upper"}, validator : BOOLEAN]

\* What the derive compiles: directives on texts only, no default for a path, a file or a Vec.  (The
\* default of an enum, a case of its own, is left out, and so are Vecs of a path and of files.)
Compiles(f) ==
  /\ f \in Field /\ Len(f.default) <= 1
  /\ f.trim \/ f.case # "as is" \/ f.validator => f.type = "text" /\ f.kind # "vec"
  /\ f.default # <<>> => f.source \notin {"path", "file"} /\ f.type # "enum" /\ f.kind # "vec"
  /\ f.source = "path" => f.kind = "one"
  /\ f.source = "file" => f.type = "text"
  /\ f.kind = "vec" => f.source \notin {"path", "file"}

\* A Vec of a query is read pair by pair; one of these is read out of one text, as a JSON array.
ReadAsArray(f) == f.kind = "vec" /\ f.source \in {"header", "form"}

-----------------------------------------------------------------------------
(* Directives *)

WhiteSpace == {9, 10, 13, Space}

Trimmed(t) ==
  LET ink == {k \in DOMAIN t : t[k] \notin WhiteSpace}
  IN  IF ink = {} THEN <<>> ELSE SubSeq(t, Min(ink), Max(ink))

Lower(b) == IF b \in Capitals THEN b + 32 ELSE b
Upper(b) == IF b \in 97..122 THEN b - 32 ELSE b
All(ts, Op(_)) == [k \in DOMAIN ts |-> Op(ts[k])]

Transformed(f, t) ==
  LET s == IF f.trim THEN Trimmed(t) ELSE t
  IN  CASE f.case = "as is" -> s
        [] f.case = "lower" -> All(s, Lower)
        [] f.case = "upper" -> All(s, Upper)

Accepts(f, t) == f.validator => \A k \in DOMAIN t : t[k] \notin Capitals

-----------------------------------------------------------------------------
(* Conversions *)

True == <<116, 114, 117, 101>>
False == <<102, 97, 108, 115, 101>>
Unreadable == [ok |-> FALSE, text |-> <<>>]
Readable(t) == [ok |-> TRUE, text |-> t]

Decimal(n) ==
  (IF n > 99 THEN <<48 + (n \div 100)>> ELSE <<>>)
    \o (IF n > 9 THEN <<48 + ((n \div 10) % 10)>> ELSE <<>>) \o <<48 + (n % 10)>>

\* u8::from_str: a sign, digits, and no more than a u8 holds.
MaxNumber == 255
ToNumber(t) ==
  LET digits == IF IsPrefix(<<Plus>>, t) THEN Tail(t) ELSE t
      n == FoldLeft(LAMBDA sum, d : sum * 10 + (d - 48), 0, digits)
  IN  IF digits # <<>> /\ Range(digits) \subseteq Digits /\ n <= MaxNumber THEN Readable(Decimal(n)) ELSE Unreadable

ToBool(t) ==
  IF t = <<49>> \/ All(t, Lower) = True THEN Readable(True)
  ELSE IF t = <<48>> \/ All(t, Lower) = False THEN Readable(False)
  ELSE Unreadable

\* The enum derive: by what a case is written as, or by its number.
ToCase(t) ==
  LET c == SelectInSeq(EnumCases, LAMBDA x : t \in {x.value, x.id})
  IN  IF c = 0 THEN Unreadable ELSE Readable(EnumCases[c].value)

Convert(type, t) ==
  CASE type = "text" -> Readable(t)
    [] type = "number" -> ToNumber(t)
    [] type = "bool" -> ToBool(t)
    [] type = "enum" -> ToCase(t)

\* What is url-encoded is decoded first, but for a bool, which is read as it stands.
ConvertEncoded(type, t) ==
  IF type = "bool" THEN ToBool(t)
  ELSE IF Decode(t).ok THEN Convert(type, Decode(t).text)
  ELSE Unreadable
=============================================================================
