----------------------------- MODULE UrlCodec -----------------------------
(***************************************************************************)
(* Percent-encoding as the client writes it (url_encoder) and the server   *)
(* reads it (url_decoder, query_string).  A text is the sequence of its    *)
(* UTF-8 bytes.  What is encoded for a path is kept apart from what is     *)
(* encoded for a query; there is one decoder for both.                     *)
(***************************************************************************)
EXTENDS Naturals, Sequences, SequencesExt

Space == 32     Percent == 37   Ampersand == 38   Plus == 43    Slash == 47
Equals == 61    Question == 63  Brackets == <<91, 93>>

Byte == 0..255
Digits == 48..57
Capitals == 65..90
Alphanumeric == Digits \cup Capitals \cup (97..122)

\* What a query keeps as it is, and what a path does: ! - . _ ~ and the sub-delims, "/", ":", "@".
QueryKept == Alphanumeric \cup {33, 45, 46, 95, 126}
PathKept == QueryKept \cup {36, 38, 39, 40, 41, 42, 43, 44, 47, 58, 59, 61, 64}

HexDigit(n) == IF n < 10 THEN 48 + n ELSE 55 + n
Escape(b) == <<Percent, HexDigit(b \div 16), HexDigit(b % 16)>>

Encoded(t, Written(_)) == FoldLeft(LAMBDA out, b : out \o Written(b), <<>>, t)

\* Mutants of the encoders: a "+" goes through a query, a "?" through a path.
EncodeQueryKeepsPlus(t) ==
  Encoded(t, LAMBDA b : CASE b = Space -> <<Plus>>
                          [] b \in QueryKept \cup {Plus} -> <<b>>
                          [] OTHER -> Escape(b))
EncodePathKeepsQuestion(t) ==
  Encoded(t, LAMBDA b : IF b \in PathKept \cup {Question} THEN <<b>> ELSE Escape(b))

EncodeQuery(t) ==
  Encoded(t, LAMBDA b : CASE b = Space -> <<Plus>>
                          [] b \in QueryKept -> <<b>>
                          [] OTHER -> Escape(b))
EncodePath(t) ==
  Encoded(t, LAMBDA b : IF b \in PathKept THEN <<b>> ELSE Escape(b))

-----------------------------------------------------------------------------
(* The decoder *)

HexDigits == Digits \cup (65..70) \cup (97..102)
HexValue(c) == CASE c \in Digits -> c - 48 [] c \in 65..70 -> c - 55 [] c \in 97..102 -> c - 87

\* Where the decoder stands: the bytes decoded, the escape it is in the middle of, and whether it
\* has failed.
Start == [bytes |-> <<>>, escape |-> <<>>, failed |-> FALSE]

GetNext(s, c) ==
  CASE s.failed -> s
    [] ~s.failed /\ s.escape = <<>> /\ c # Percent ->
         [s EXCEPT !.bytes = Append(@, IF c = Plus THEN Space ELSE c)]
    [] ~s.failed /\ Len(s.escape) = 2 ->
         IF s.escape[2] \in HexDigits /\ c \in HexDigits
         THEN [s EXCEPT !.bytes = Append(@, HexValue(s.escape[2]) * 16 + HexValue(c)), !.escape = <<>>]
         ELSE [s EXCEPT !.failed = TRUE]
    [] OTHER -> [s EXCEPT !.escape = Append(@, c)]

\* String::from_utf8: every leading byte has the continuation bytes it calls for.
Follows(b) == CASE b < 128 -> 0 [] b \in 194..223 -> 1 [] b \in 224..239 -> 2 [] b \in 240..244 -> 3
                [] OTHER -> 4
IsUtf8(t) ==
  \A k \in DOMAIN t :
    \/ Follows(t[k]) < 4 /\ \A j \in 1..Follows(t[k]) : k + j \in DOMAIN t /\ t[k + j] \in 128..191
    \/ t[k] \in 128..191 /\ \E j \in 1..3 : k > j /\ Follows(t[k - j]) \in j..3

\* Mutant of Decode: an escape cut off by the end is dropped.
DecodeEndsQuietly(src) ==
  LET s == FoldLeft(GetNext, Start, src)
  IN  [ok |-> ~s.failed /\ IsUtf8(s.bytes), text |-> s.bytes]

\* decode_from_url_query_string.
Decode(src) ==
  LET s == FoldLeft(GetNext, Start, src)
  IN  [ok |-> ~s.failed /\ s.escape = <<>> /\ IsUtf8(s.bytes), text |-> s.bytes]

-----------------------------------------------------------------------------
(* Query strings *)

\* t cut at every c.
Split(t, c) ==
  FoldLeft(LAMBDA parts, b : IF b = c THEN Append(parts, <<>>)
                             ELSE [parts EXCEPT ![Len(parts)] = Append(@, b)],
           <<<<>>>>, t)

\* t cut at the first c only; what is behind is empty if there is none.
Before(t, c) == LET k == SelectInSeq(t, LAMBDA b : b = c) IN IF k = 0 THEN t ELSE SubSeq(t, 1, k - 1)
Behind(t, c) == SubSeq(t, Len(Before(t, c)) + 2, Len(t))

\* query_string::parse: the name of each pair decoded, its value as it came; an empty pair is skipped.
QueryPairs(q) ==
  FoldLeft(LAMBDA pairs, p : IF p = <<>> THEN pairs
                             ELSE Append(pairs, [key |-> Decode(Before(p, Equals)), value |-> Behind(p, Equals)]),
           <<>>, Split(q, Ampersand))

QueryIsReadable(q) == \A k \in DOMAIN QueryPairs(q) : QueryPairs(q)[k].key.ok

\* The name a pair is looked up by: "p[]" is an item of p.
PairName(key) == IF IsSuffix(Brackets, key) THEN SubSeq(key, 1, Len(key) - 2) ELSE key

\* get_vec: the values of a name, in order; get_optional takes the first of them.
GetVec(q, name) ==
  FoldLeft(LAMBDA values, p : IF PairName(p.key.text) = name THEN Append(values, p.value) ELSE values,
           <<>>, QueryPairs(q))
=============================================================================
