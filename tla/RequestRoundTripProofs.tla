----------------------- MODULE RequestRoundTripProofs -----------------------
(***************************************************************************)
(* What a request carries in its path and its query, for any texts, any    *)
(* models and any clients: what the encoders write the decoder reads, and  *)
(* what stands in the url for a field is read for that field.              *)
(*                                                                         *)
(* The encoders, the decoder, the cut of a text and the reading of pairs   *)
(* are folds.  Loops (TaskLinesProofs) says what each makes of a text with *)
(* one byte more, and EverySequence that what holds of nothing, and goes   *)
(* on to hold with one more, holds of every text: these stand for the      *)
(* induction.  On them rest two invariants of the request on its way:      *)
(* PathLaid, the path is that of the fields written so far, segment by     *)
(* segment, and QueryLaid, for each field written the query has its values *)
(* and for no other field any.                                             *)
(***************************************************************************)
EXTENDS RequestRoundTrip, TaskLinesProofs, FiniteSetTheorems

-----------------------------------------------------------------------------
(* What the client writes *)

Bytes == Seq(Byte)

InQuery(b) == CASE b = Space -> <<Plus>> [] b \in QueryKept -> <<b>> [] OTHER -> Escape(b)
InPath(b) == IF b \in PathKept THEN <<b>> ELSE Escape(b)

LEMMA EscapeIsBytes ==
  ASSUME NEW b \in Byte
  PROVE  /\ Escape(b) = <<Percent, HexDigit(b \div 16), HexDigit(b % 16)>>
         /\ HexDigit(b \div 16) \in Digits \cup (65..70) /\ HexDigit(b % 16) \in Digits \cup (65..70)
         /\ HexValue(HexDigit(b \div 16)) * 16 + HexValue(HexDigit(b % 16)) = b
<1>1. b \in 0..255 /\ b \div 16 \in 0..15 /\ b % 16 \in 0..15 /\ b = (b \div 16) * 16 + (b % 16)
  BY DEF Byte
<1>2. ASSUME NEW n \in 0..15
      PROVE  HexDigit(n) \in Digits \cup (65..70) /\ HexValue(HexDigit(n)) = n
  <2>1. CASE n < 10
    BY <2>1 DEF HexDigit, HexValue, Digits
  <2>2. CASE ~(n < 10)
    BY <2>2 DEF HexDigit, HexValue, Digits
  <2>. QED  BY <2>1, <2>2
<1>. QED  BY <1>1, <1>2 DEF Escape

LEMMA WrittenIsBytes ==
  ASSUME NEW b \in Byte
  PROVE  Escape(b) \in Bytes /\ InQuery(b) \in Bytes /\ InPath(b) \in Bytes
<1>1. Escape(b) \in Bytes
  <2>1. PICK g, h : g = HexDigit(b \div 16) /\ h = HexDigit(b % 16)
    OBVIOUS
  <2>2. g \in Byte /\ h \in Byte /\ Percent \in Byte
    <3>1. g \in Digits \cup (65..70) /\ h \in Digits \cup (65..70)
      BY <2>1, EscapeIsBytes
    <3>. QED  BY <3>1 DEF Byte, Percent, Digits
  <2>3. Escape(b) = <<Percent, g, h>>
    BY <2>1, EscapeIsBytes
  <2>. QED  BY <2>2, <2>3 DEF Bytes
<1>2. <<b>> \in Bytes /\ <<Plus>> \in Bytes
  BY DEF Bytes, Byte, Plus
<1>3. InPath(b) \in Bytes
  BY <1>1, <1>2 DEF InPath
<1>4. InQuery(b) \in Bytes
  BY <1>1, <1>2 DEF InQuery
<1>. QED  BY <1>1, <1>3, <1>4

\* What EncodeQuery and EncodePath do with one byte behind what they have written.
QueryWriter == [p \in Bytes \X Byte |-> p[1] \o InQuery(p[2])]
PathWriter == [p \in Bytes \X Byte |-> p[1] \o InPath(p[2])]

LEMMA WritersWrite == QueryWriter \in [Bytes \X Byte -> Bytes] /\ PathWriter \in [Bytes \X Byte -> Bytes]
<1>1. ASSUME NEW out \in Bytes, NEW b \in Byte
      PROVE  out \o InQuery(b) \in Bytes /\ out \o InPath(b) \in Bytes
  BY WrittenIsBytes, ConcatProperties DEF Bytes
<1>. QED  BY <1>1 DEF QueryWriter, PathWriter

LEMMA QueryIsWritten ==
  ASSUME NEW t \in Bytes
  PROVE  Loops(EncodeQuery(t), QueryWriter, Bytes, <<>>, t)
<1>1. PICK n \in Nat : n = Len(t) /\ DOMAIN t = 1..n
  BY LenProperties DEF Bytes
<1> DEFINE Body(it) == [S \in SUBSET (1..n) |->
                          IF S = {} THEN <<>> ELSE it[S \ {Top(S)}] \o InQuery(t[Top(S)])]
<1>2. \A k \in 1..n : t[k] \in Byte
  BY <1>1, ElementOfSeq DEF Bytes
<1>3. PICK empty \in Bytes : empty = <<>>
  BY EmptySeq DEF Bytes
<1>4. PICK it \in [SUBSET (1..n) -> Bytes] : IsFoldOver(it, QueryWriter, empty, t)
  BY <1>1, WritersWrite, FoldOverExists DEF Bytes
<1>5. ASSUME NEW S \in SUBSET (1..n), S # {}, NEW c, c[S \ {Top(S)}] \in Bytes
      PROVE  QueryWriter[<<c[S \ {Top(S)}], t[Top(S)]>>] = c[S \ {Top(S)}] \o InQuery(t[Top(S)])
  <2>1. t[Top(S)] \in Byte
    BY <1>2, <1>5, TopIsLast
  <2>. QED  BY <1>5, <2>1 DEF QueryWriter
<1>6. it = Body(it)
  <2>1. ASSUME NEW S \in SUBSET (1..n), S # {}
        PROVE  it[S] = it[S \ {Top(S)}] \o InQuery(t[Top(S)])
    <3>1. it[S \ {Top(S)}] \in Bytes
      BY <1>4
    <3>2. it[S] = QueryWriter[<<it[S \ {Top(S)}], t[Top(S)]>>]
      BY <1>1, <1>4, <2>1 DEF IsFoldOver
    <3>. QED  BY <1>5, <2>1, <3>1, <3>2
  <2>2. it[{}] = <<>>
    BY <1>1, <1>3, <1>4 DEF IsFoldOver
  <2>. QED  BY <1>4, <2>1, <2>2
<1>7. PICK c : c = CHOOSE x : x = Body(x)
  OBVIOUS
<1>8. c = Body(c)
  BY <1>6, <1>7
<1>9. EncodeQuery(t) = c[1..n]
  BY <1>1, <1>7 DEF EncodeQuery, Encoded, FoldLeft, MapThenFoldSet, InQuery, Top, Max
<1>10. FoldsOver(c, Bytes, QueryWriter, empty, t)
  <2>1. c[{}] = empty
    BY <1>3, <1>8
  <2>2. ASSUME NEW S \in SUBSET (1..n), S # {}, c[S \ {Top(S)}] \in Bytes
        PROVE  c[S] = QueryWriter[<<c[S \ {Top(S)}], t[Top(S)]>>]
    <3>1. c[S] = c[S \ {Top(S)}] \o InQuery(t[Top(S)])
      BY <1>8, <2>2
    <3>. QED  BY <1>5, <2>2, <3>1
  <2>. QED  BY <1>1, <2>1, <2>2 DEF FoldsOver
<1>11. Loops(c[1..n], QueryWriter, Bytes, empty, t)
  BY <1>1, <1>10, WritersWrite, FoldLoops DEF Bytes
<1>. QED  BY <1>3, <1>9, <1>11
LEMMA PathIsWritten ==
  ASSUME NEW t \in Bytes
  PROVE  Loops(EncodePath(t), PathWriter, Bytes, <<>>, t)
<1>1. PICK n \in Nat : n = Len(t) /\ DOMAIN t = 1..n
  BY LenProperties DEF Bytes
<1> DEFINE Body(it) == [S \in SUBSET (1..n) |-> IF S = {} THEN <<>> ELSE it[S \ {Top(S)}] \o InPath(t[Top(S)])]
<1>2. \A k \in 1..n : t[k] \in Byte
  BY <1>1, ElementOfSeq DEF Bytes
<1>3. PICK first \in Bytes : first = <<>>
  BY EmptySeq DEF Bytes
<1>4. PICK it \in [SUBSET (1..n) -> Bytes] : IsFoldOver(it, PathWriter, first, t)
  BY <1>1, WritersWrite, FoldOverExists DEF Bytes
<1>5. ASSUME NEW S \in SUBSET (1..n), S # {}, NEW c, c[S \ {Top(S)}] \in Bytes
      PROVE  PathWriter[<<c[S \ {Top(S)}], t[Top(S)]>>] = c[S \ {Top(S)}] \o InPath(t[Top(S)])
  <2>1. t[Top(S)] \in Byte
    BY <1>2, <1>5, TopIsLast
  <2>. QED  BY <1>5, <2>1 DEF PathWriter
<1>6. it = Body(it)
  <2>1. ASSUME NEW S \in SUBSET (1..n), S # {}
        PROVE  it[S] = it[S \ {Top(S)}] \o InPath(t[Top(S)])
    <3>1. it[S \ {Top(S)}] \in Bytes
      BY <1>4
    <3>2. it[S] = PathWriter[<<it[S \ {Top(S)}], t[Top(S)]>>]
      BY <1>1, <1>4, <2>1 DEF IsFoldOver
    <3>. QED  BY <1>5, <2>1, <3>1, <3>2
  <2>2. it[{}] = <<>>
    BY <1>1, <1>3, <1>4 DEF IsFoldOver
  <2>. QED  BY <1>4, <2>1, <2>2
<1>7. PICK c : c = CHOOSE x : x = Body(x)
  OBVIOUS
<1>8. c = Body(c)
  BY <1>6, <1>7
<1>9. EncodePath(t) = c[1..n]
  BY <1>1, <1>7 DEF EncodePath, Encoded, InPath, FoldLeft, MapThenFoldSet, Top, Max
<1>10. FoldsOver(c, Bytes, PathWriter, first, t)
  <2>1. c[{}] = first
    BY <1>3, <1>8
  <2>2. ASSUME NEW S \in SUBSET (1..n), S # {}, c[S \ {Top(S)}] \in Bytes
        PROVE  c[S] = PathWriter[<<c[S \ {Top(S)}], t[Top(S)]>>]
    <3>1. c[S] = c[S \ {Top(S)}] \o InPath(t[Top(S)])
      BY <1>8, <2>2
    <3>. QED  BY <1>5, <2>2, <3>1
  <2>. QED  BY <1>1, <2>1, <2>2 DEF FoldsOver
<1>11. Loops(c[1..n], PathWriter, Bytes, first, t)
  BY <1>1, <1>10, WritersWrite, FoldLoops DEF Bytes
<1>. QED  BY <1>3, <1>9, <1>11

LEMMA Encodes ==
  ASSUME NEW t \in Bytes, NEW b \in Byte
  PROVE  /\ EncodeQuery(<<>>) = <<>> /\ EncodeQuery(t) \in Bytes
         /\ EncodeQuery(Append(t, b)) = EncodeQuery(t) \o InQuery(b)
         /\ EncodePath(<<>>) = <<>> /\ EncodePath(t) \in Bytes
         /\ EncodePath(Append(t, b)) = EncodePath(t) \o InPath(b)
<1>1. <<>> \in Bytes /\ Append(t, b) \in Bytes
  BY AppendProperties, EmptySeq DEF Bytes
<1>2. EncodeQuery(<<>>) = <<>> /\ EncodePath(<<>>) = <<>>
  BY <1>1, QueryIsWritten, PathIsWritten, LoopBegins
<1>3. EncodeQuery(t) \in Bytes /\ EncodeQuery(Append(t, b)) = QueryWriter[<<EncodeQuery(t), b>>]
  <2>1. PICK empty, v, w : empty = <<>> /\ v = EncodeQuery(t) /\ w = EncodeQuery(Append(t, b))
    OBVIOUS
  <2>2. Loops(v, QueryWriter, Bytes, empty, t) /\ Loops(w, QueryWriter, Bytes, empty, Append(t, b))
    BY <1>1, <2>1, QueryIsWritten
  <2>3. t \in Seq(Byte) /\ empty \in Bytes /\ IsStep(QueryWriter, Bytes, Byte)
    BY <1>1, <2>1, WritersWrite DEF Bytes, IsStep
  <2>4. v \in Bytes /\ w = QueryWriter[<<v, b>>]
    BY <2>2, <2>3, LoopGoesOn
  <2>. QED  BY <2>1, <2>4
<1>4. EncodePath(t) \in Bytes /\ EncodePath(Append(t, b)) = PathWriter[<<EncodePath(t), b>>]
  <2>1. PICK empty, v, w : empty = <<>> /\ v = EncodePath(t) /\ w = EncodePath(Append(t, b))
    OBVIOUS
  <2>2. Loops(v, PathWriter, Bytes, empty, t) /\ Loops(w, PathWriter, Bytes, empty, Append(t, b))
    BY <1>1, <2>1, PathIsWritten
  <2>3. t \in Seq(Byte) /\ empty \in Bytes /\ IsStep(PathWriter, Bytes, Byte)
    BY <1>1, <2>1, WritersWrite DEF Bytes, IsStep
  <2>4. v \in Bytes /\ w = PathWriter[<<v, b>>]
    BY <2>2, <2>3, LoopGoesOn
  <2>. QED  BY <2>1, <2>4
<1>. QED  BY <1>2, <1>3, <1>4 DEF QueryWriter, PathWriter

-----------------------------------------------------------------------------
(* What the server reads *)

State == [bytes : Bytes, escape : Bytes, failed : BOOLEAN]
Reader == [p \in State \X Byte |-> GetNext(p[1], p[2])]

\* Where the decoder stands behind src.
Decoded(src) == FoldLeft(GetNext, Start, src)

LEMMA ReaderReads == Start \in State /\ Reader \in [State \X Byte -> State]
<1>1. Start \in State
  BY EmptySeq DEF Start, State, Bytes
<1>2. ASSUME NEW s \in State, NEW c \in Byte PROVE GetNext(s, c) \in State
  <2>1. CASE s.failed
    BY <2>1 DEF GetNext
  <2>2. CASE ~s.failed /\ s.escape = <<>> /\ c # Percent
    <3>1. GetNext(s, c) = [s EXCEPT !.bytes = Append(@, IF c = Plus THEN Space ELSE c)]
      BY <2>2 DEF GetNext
    <3>2. (IF c = Plus THEN Space ELSE c) \in Byte
      BY DEF Space, Byte
    <3>3. Append(s.bytes, IF c = Plus THEN Space ELSE c) \in Bytes
      BY <3>2, AppendProperties DEF State, Bytes
    <3>. QED  BY <3>1, <3>3 DEF State
  <2>3. CASE ~s.failed /\ Len(s.escape) = 2
    <3>1. s.escape # <<>>
      BY <2>3
    <3>2. GetNext(s, c) = IF s.escape[2] \in HexDigits /\ c \in HexDigits
                          THEN [s EXCEPT !.bytes = Append(@, HexValue(s.escape[2]) * 16 + HexValue(c)), !.escape = <<>>]
                          ELSE [s EXCEPT !.failed = TRUE]
      BY <2>3, <3>1 DEF GetNext
    <3>3. ASSUME NEW h \in HexDigits PROVE HexValue(h) \in 0..15
      BY DEF HexDigits, HexValue, Digits
    <3>4. CASE s.escape[2] \in HexDigits /\ c \in HexDigits
      <4>1. HexValue(s.escape[2]) * 16 + HexValue(c) \in Byte
        <5>1. PICK g, h : g = HexValue(s.escape[2]) /\ h = HexValue(c)
          OBVIOUS
        <5>2. g \in 0..15 /\ h \in 0..15
          BY <3>3, <3>4, <5>1
        <5>. QED  BY <5>1, <5>2 DEF Byte
      <4>2. Append(s.bytes, HexValue(s.escape[2]) * 16 + HexValue(c)) \in Bytes /\ <<>> \in Bytes
        BY <4>1, AppendProperties, EmptySeq DEF State, Bytes
      <4>. QED  BY <3>2, <3>4, <4>2 DEF State
    <3>5. CASE ~(s.escape[2] \in HexDigits /\ c \in HexDigits)
      BY <3>2, <3>5 DEF State
    <3>. QED  BY <3>4, <3>5
  <2>4. CASE ~s.failed /\ ~(s.escape = <<>> /\ c # Percent) /\ Len(s.escape) # 2
    <3>1. GetNext(s, c) = [s EXCEPT !.escape = Append(@, c)]
      BY <2>4 DEF GetNext
    <3>2. Append(s.escape, c) \in Bytes
      BY AppendProperties DEF State, Bytes
    <3>. QED  BY <3>1, <3>2 DEF State
  <2>. QED  BY <2>1, <2>2, <2>3, <2>4
<1>. QED  BY <1>1, <1>2 DEF Reader

LEMMA TextIsRead ==
  ASSUME NEW src \in Bytes
  PROVE  Loops(Decoded(src), Reader, State, Start, src)
<1>1. PICK n \in Nat : n = Len(src) /\ DOMAIN src = 1..n
  BY LenProperties DEF Bytes
<1> DEFINE Body(it) == [S \in SUBSET (1..n) |-> IF S = {} THEN Start ELSE GetNext(it[S \ {Top(S)}], src[Top(S)])]
<1>2. \A k \in 1..n : src[k] \in Byte
  BY <1>1, ElementOfSeq DEF Bytes
<1>3. PICK first \in State : first = Start
  BY ReaderReads
<1>4. PICK it \in [SUBSET (1..n) -> State] : IsFoldOver(it, Reader, first, src)
  BY <1>1, ReaderReads, FoldOverExists DEF Bytes
<1>5. ASSUME NEW S \in SUBSET (1..n), S # {}, NEW c, c[S \ {Top(S)}] \in State
      PROVE  Reader[<<c[S \ {Top(S)}], src[Top(S)]>>] = GetNext(c[S \ {Top(S)}], src[Top(S)])
  <2>1. src[Top(S)] \in Byte
    BY <1>2, <1>5, TopIsLast
  <2>. QED  BY <1>5, <2>1 DEF Reader
<1>6. it = Body(it)
  <2>1. ASSUME NEW S \in SUBSET (1..n), S # {}
        PROVE  it[S] = GetNext(it[S \ {Top(S)}], src[Top(S)])
    <3>1. it[S \ {Top(S)}] \in State
      BY <1>4
    <3>2. it[S] = Reader[<<it[S \ {Top(S)}], src[Top(S)]>>]
      BY <1>1, <1>4, <2>1 DEF IsFoldOver
    <3>. QED  BY <1>5, <2>1, <3>1, <3>2
  <2>2. it[{}] = Start
    BY <1>1, <1>3, <1>4 DEF IsFoldOver
  <2>. QED  BY <1>4, <2>1, <2>2
<1>7. PICK c : c = CHOOSE x : x = Body(x)
  OBVIOUS
<1>8. c = Body(c)
  BY <1>6, <1>7
<1>9. Decoded(src) = c[1..n]
  BY <1>1, <1>7 DEF Decoded, FoldLeft, MapThenFoldSet, Top, Max
<1>10. FoldsOver(c, State, Reader, first, src)
  <2>1. c[{}] = first
    BY <1>3, <1>8
  <2>2. ASSUME NEW S \in SUBSET (1..n), S # {}, c[S \ {Top(S)}] \in State
        PROVE  c[S] = Reader[<<c[S \ {Top(S)}], src[Top(S)]>>]
    <3>1. c[S] = GetNext(c[S \ {Top(S)}], src[Top(S)])
      BY <1>8, <2>2
    <3>. QED  BY <1>5, <2>2, <3>1
  <2>. QED  BY <1>1, <2>1, <2>2 DEF FoldsOver
<1>11. Loops(c[1..n], Reader, State, first, src)
  BY <1>1, <1>10, ReaderReads, FoldLoops DEF Bytes
<1>. QED  BY <1>3, <1>9, <1>11

LEMMA Reads ==
  ASSUME NEW src \in Bytes, NEW c \in Byte
  PROVE  /\ Decoded(<<>>) = Start /\ Decoded(src) \in State
         /\ Decoded(Append(src, c)) = GetNext(Decoded(src), c)
<1>1. <<>> \in Bytes /\ Append(src, c) \in Bytes
  BY AppendProperties, EmptySeq DEF Bytes
<1>2. Decoded(<<>>) = Start
  BY <1>1, TextIsRead, LoopBegins
<1>3. PICK v, w : v = Decoded(src) /\ w = Decoded(Append(src, c))
  OBVIOUS
<1>4. Loops(v, Reader, State, Start, src) /\ Loops(w, Reader, State, Start, Append(src, c))
  BY <1>1, <1>3, TextIsRead
<1>5. src \in Seq(Byte) /\ Start \in State /\ IsStep(Reader, State, Byte)
  BY ReaderReads DEF Bytes, IsStep
<1>6. v \in State /\ w = Reader[<<v, c>>]
  BY <1>4, <1>5, LoopGoesOn
<1>. QED  BY <1>2, <1>3, <1>6 DEF Reader

\* All of src was read, and t is what came of it.
Clean(src, t) == Decoded(src) = [bytes |-> t, escape |-> <<>>, failed |-> FALSE]

LEMMA CleanIsDecoded ==
  ASSUME NEW src, NEW t, Clean(src, t)
  PROVE  Decode(src) = [ok |-> IsUtf8(t), text |-> t]
<1>1. PICK s : s = Decoded(src)
  OBVIOUS
<1>2. Decode(src) = [ok |-> ~s.failed /\ s.escape = <<>> /\ IsUtf8(s.bytes), text |-> s.bytes]
  BY <1>1 DEF Decode, Decoded
<1>3. s.failed = FALSE /\ s.escape = <<>> /\ s.bytes = t
  BY <1>1 DEF Clean
<1>4. (~s.failed /\ s.escape = <<>> /\ IsUtf8(s.bytes)) = IsUtf8(t)
  <2>1. PICK p \in BOOLEAN : p = IsUtf8(t)
    BY DEF IsUtf8
  <2>2. IsUtf8(s.bytes) = p
    BY <1>3, <2>1
  <2>. QED  BY <1>3, <2>1, <2>2
<1>. QED  BY <1>2, <1>3, <1>4

\* One escape more is one byte more.
LEMMA EscapeIsRead ==
  ASSUME NEW src \in Bytes, NEW t \in Bytes, NEW b \in Byte, Clean(src, t),
         NEW g \in HexDigits, NEW h \in HexDigits, HexValue(g) * 16 + HexValue(h) = b
  PROVE  Clean(src \o <<Percent, g, h>>, Append(t, b))
<1>1. PICK s : s = [bytes |-> t, escape |-> <<>>, failed |-> FALSE]
  OBVIOUS
<1>2. Decoded(src) = s
  BY <1>1 DEF Clean
<1>3. g \in Byte /\ h \in Byte /\ Percent \in Byte
  BY DEF Byte, Percent, Digits, HexDigits
<1>4. PICK u \in Bytes : u = Append(src, Percent)
  BY <1>3, AppendProperties DEF Bytes
<1>5. PICK v \in Bytes : v = Append(u, g)
  BY <1>3, AppendProperties DEF Bytes
<1>11. <<Percent, g>> = Append(<<Percent>>, g) /\ <<Percent, g, h>> = Append(<<Percent, g>>, h)
  OBVIOUS
<1>6. src \o <<Percent, g, h>> = Append(v, h)
  <2>1. <<Percent>> \in Bytes /\ <<Percent, g>> \in Bytes
    BY <1>3 DEF Bytes
  <2>3. src \o <<Percent>> = u
    BY <1>3, <1>4, AppendIsConcat DEF Bytes
  <2>4. src \o Append(<<Percent>>, g) = Append(src \o <<Percent>>, g)
    BY <1>3, <2>1, PushFlow DEF Bytes
  <2>5. src \o Append(<<Percent, g>>, h) = Append(src \o <<Percent, g>>, h)
    BY <1>3, <2>1, PushFlow DEF Bytes
  <2>. QED  BY <1>5, <1>11, <2>3, <2>4, <2>5
<1>7. Decoded(u) = GetNext(s, Percent)
  BY <1>2, <1>3, <1>4, Reads
<1>8. GetNext(s, Percent) = [bytes |-> t, escape |-> <<Percent>>, failed |-> FALSE]
  <2>1. GetNext(s, Percent) = [s EXCEPT !.escape = Append(@, Percent)]
    BY <1>1 DEF GetNext
  <2>2. Append(<<>>, Percent) = <<Percent>>
    OBVIOUS
  <2>. QED  BY <1>1, <2>1, <2>2
<1>9. Decoded(v) = [bytes |-> t, escape |-> <<Percent, g>>, failed |-> FALSE]
  <2>1. PICK r : r = [bytes |-> t, escape |-> <<Percent>>, failed |-> FALSE]
    OBVIOUS
  <2>2. Decoded(v) = GetNext(r, g)
    <3>1. Decoded(u) = r
      BY <1>7, <1>8, <2>1
    <3>2. Decoded(Append(u, g)) = GetNext(Decoded(u), g)
      BY <1>3, Reads
    <3>. QED  BY <1>5, <3>1, <3>2
  <2>3. GetNext(r, g) = [r EXCEPT !.escape = Append(@, g)]
    BY <2>1 DEF GetNext
  <2>. QED  BY <1>11, <2>1, <2>2, <2>3
<1>10. Decoded(Append(v, h)) = [bytes |-> Append(t, b), escape |-> <<>>, failed |-> FALSE]
  <2>1. PICK r : r = [bytes |-> t, escape |-> <<Percent, g>>, failed |-> FALSE]
    OBVIOUS
  <2>2. Decoded(Append(v, h)) = GetNext(r, h)
    BY <1>3, <1>9, <2>1, Reads
  <2>3. GetNext(r, h) = [r EXCEPT !.bytes = Append(@, HexValue(g) * 16 + HexValue(h)), !.escape = <<>>]
    BY <1>3, <2>1 DEF GetNext
  <2>. QED  BY <2>1, <2>2, <2>3
<1>. QED  BY <1>6, <1>10 DEF Clean

LEMMA OneIsRead ==
  ASSUME NEW src \in Bytes, NEW t \in Bytes, NEW b \in Byte, Clean(src, t)
  PROVE  /\ b # Percent => Clean(Append(src, b), Append(t, IF b = Plus THEN Space ELSE b))
         /\ Clean(src \o Escape(b), Append(t, b))
<1>1. PICK s : s = [bytes |-> t, escape |-> <<>>, failed |-> FALSE]
  OBVIOUS
<1>2. Decoded(src) = s
  BY <1>1 DEF Clean
<1>3. ASSUME b # Percent
      PROVE  Clean(Append(src, b), Append(t, IF b = Plus THEN Space ELSE b))
  <2>1. Decoded(Append(src, b)) = GetNext(s, b)
    BY <1>2, Reads
  <2>2. GetNext(s, b) = [s EXCEPT !.bytes = Append(@, IF b = Plus THEN Space ELSE b)]
    BY <1>1, <1>3 DEF GetNext
  <2>. QED  BY <1>1, <2>1, <2>2 DEF Clean
<1>4. Clean(src \o Escape(b), Append(t, b))
  <2>1. PICK g, h : g = HexDigit(b \div 16) /\ h = HexDigit(b % 16)
    OBVIOUS
  <2>2. /\ Escape(b) = <<Percent, g, h>> /\ g \in Digits \cup (65..70) /\ h \in Digits \cup (65..70)
        /\ HexValue(g) * 16 + HexValue(h) = b
    BY <2>1, EscapeIsBytes
  <2>3. g \in HexDigits /\ h \in HexDigits
    BY <2>2 DEF HexDigits
  <2>. QED  BY <2>2, <2>3, EscapeIsRead
<1>. QED  BY <1>3, <1>4

LEMMA PlusesOf ==
  ASSUME NEW t \in Bytes, NEW b \in Byte
  PROVE  /\ PlusAsSpace(<<>>) = <<>> /\ PlusAsSpace(t) \in Bytes
         /\ PlusAsSpace(Append(t, b)) = Append(PlusAsSpace(t), IF b = Plus THEN Space ELSE b)
<1>1. PICK n \in Nat : n = Len(t) /\ DOMAIN t = 1..n /\ \A k \in 1..n : t[k] \in Byte
  BY LenProperties, ElementOfSeq DEF Bytes
<1>2. PICK u : u = Append(t, b)
  OBVIOUS
<1>3. u \in Bytes /\ DOMAIN u = 1..(n + 1) /\ (\A k \in 1..n : u[k] = t[k]) /\ u[n + 1] = b
  BY <1>1, <1>2, AppendProperties, LenProperties DEF Bytes
<1>4. PICK c \in Byte : c = IF b = Plus THEN Space ELSE b
  BY DEF Space, Byte
<1>5. PICK v : v = PlusAsSpace(t)
  OBVIOUS
<1>6. v \in Bytes /\ Len(v) = n /\ \A k \in 1..n : v[k] = IF t[k] = Plus THEN Space ELSE t[k]
  <2>1. Space \in Byte
    BY DEF Space, Byte
  <2>2. v = [k \in 1..n |-> IF t[k] = Plus THEN Space ELSE t[k]]
    BY <1>1, <1>5 DEF PlusAsSpace
  <2>3. v \in Seq(Byte) /\ Len(v) = n
    BY <1>1, <2>1, <2>2
  <2>. QED  BY <2>2, <2>3 DEF Bytes
<1>7. PICK w : w = Append(v, c)
  OBVIOUS
<1>8. w \in Bytes /\ Len(w) = n + 1 /\ (\A k \in 1..n : w[k] = v[k]) /\ w[n + 1] = c
  BY <1>6, <1>7, AppendProperties DEF Bytes
<1>9. PlusAsSpace(u) = w
  <2>1. PlusAsSpace(u) = [k \in 1..(n + 1) |-> IF u[k] = Plus THEN Space ELSE u[k]]
    BY <1>3 DEF PlusAsSpace
  <2>2. DOMAIN w = 1..(n + 1) /\ w = [k \in DOMAIN w |-> w[k]]
    BY <1>8, LenProperties, SeqDef DEF Bytes
  <2>3. ASSUME NEW k \in 1..(n + 1) PROVE w[k] = IF u[k] = Plus THEN Space ELSE u[k]
    <3>1. CASE k \in 1..n
      BY <1>3, <1>6, <1>8, <3>1
    <3>2. CASE k = n + 1
      BY <1>3, <1>4, <1>8, <3>2
    <3>. QED  BY <1>1, <3>1, <3>2
  <2>. QED  BY <2>1, <2>2, <2>3
<1>10. PlusAsSpace(<<>>) = <<>>
  BY DEF PlusAsSpace
<1>. QED  BY <1>2, <1>4, <1>5, <1>6, <1>7, <1>9, <1>10

\* Whatever was encoded for a query is read back from it.
LEMMA QueryReads == \A t \in Bytes : Clean(EncodeQuery(t), t)
<1> DEFINE S == {t \in Bytes : Clean(EncodeQuery(t), t)}
<1>1. <<>> \in S
  <2>1. <<>> \in Bytes /\ 32 \in Byte
    BY EmptySeq DEF Bytes, Byte
  <2>2. EncodeQuery(<<>>) = <<>> /\ Decoded(<<>>) = Start
    BY <2>1, Encodes, Reads
  <2>. QED  BY <2>1, <2>2 DEF Clean, Start
<1>2. ASSUME NEW t \in Seq(Byte), NEW b \in Byte, t \in S PROVE Append(t, b) \in S
  <2>1. t \in Bytes /\ Append(t, b) \in Bytes
    BY AppendProperties DEF Bytes
  <2>2. PICK e \in Bytes : e = EncodeQuery(t)
    BY <2>1, Encodes
  <2>3. EncodeQuery(Append(t, b)) = e \o InQuery(b)
    BY <2>1, <2>2, Encodes
  <2>4. Clean(e, t)
    BY <1>2, <2>2
  <2>5. CASE b = Space
    <3>1. InQuery(b) = <<Plus>> /\ Plus \in Byte /\ Plus # Percent
      BY <2>5 DEF InQuery, Space, QueryKept, Alphanumeric, Digits, Capitals, Plus, Byte, Percent
    <3>2. e \o <<Plus>> = Append(e, Plus)
      BY <3>1, AppendIsConcat DEF Bytes
    <3>3. Clean(Append(e, Plus), Append(t, Space))
      BY <2>1, <2>4, <3>1, OneIsRead
    <3>. QED  BY <2>1, <2>3, <2>5, <3>1, <3>2, <3>3
  <2>6. CASE b # Space /\ b \in QueryKept
    <3>1. InQuery(b) = <<b>> /\ b # Plus /\ b # Percent
      <4>1. InQuery(b) = <<b>>
        BY <2>6 DEF InQuery
      <4>2. b # Plus /\ b # Percent
        BY <2>6 DEF QueryKept, Alphanumeric, Digits, Capitals, Plus, Percent
      <4>. QED  BY <4>1, <4>2
    <3>2. e \o <<b>> = Append(e, b)
      BY AppendIsConcat DEF Bytes
    <3>3. Clean(Append(e, b), Append(t, b))
      BY <2>1, <2>4, <3>1, OneIsRead
    <3>. QED  BY <2>1, <2>3, <3>1, <3>2, <3>3
  <2>7. CASE b # Space /\ b \notin QueryKept
    <3>1. InQuery(b) = Escape(b)
      BY <2>7 DEF InQuery
    <3>2. Clean(e \o Escape(b), Append(t, b))
      BY <2>1, <2>4, OneIsRead
    <3>. QED  BY <2>1, <2>3, <3>1, <3>2
  <2>. QED  BY <2>5, <2>6, <2>7
<1> HIDE DEF S
<1>3. Bytes \subseteq S
  BY <1>1, <1>2, EverySequence DEF Bytes
<1>. QED  BY <1>3 DEF S

\* Whatever was encoded for a path is read back, but for its pluses.
LEMMA PathReads == \A t \in Bytes : Clean(EncodePath(t), PlusAsSpace(t))
<1> DEFINE S == {t \in Bytes : Clean(EncodePath(t), PlusAsSpace(t))}
<1>1. <<>> \in S
  <2>1. <<>> \in Bytes /\ 32 \in Byte
    BY EmptySeq DEF Bytes, Byte
  <2>2. EncodePath(<<>>) = <<>> /\ Decoded(<<>>) = Start /\ PlusAsSpace(<<>>) = <<>>
    BY <2>1, Encodes, Reads, PlusesOf
  <2>. QED  BY <2>1, <2>2 DEF Clean, Start
<1>2. ASSUME NEW t \in Seq(Byte), NEW b \in Byte, t \in S PROVE Append(t, b) \in S
  <2>1. t \in Bytes /\ Append(t, b) \in Bytes
    BY AppendProperties DEF Bytes
  <2>2. PICK e \in Bytes : e = EncodePath(t)
    BY <2>1, Encodes
  <2>3. EncodePath(Append(t, b)) = e \o InPath(b)
    BY <2>1, <2>2, Encodes
  <2>4. PICK p \in Bytes : p = PlusAsSpace(t)
    BY <2>1, PlusesOf
  <2>5. Clean(e, p)
    BY <1>2, <2>2, <2>4
  <2>6. PlusAsSpace(Append(t, b)) = Append(p, IF b = Plus THEN Space ELSE b)
    BY <2>1, <2>4, PlusesOf
  <2>7. CASE b \in PathKept
    <3>1. InPath(b) = <<b>> /\ b # Percent
      BY <2>7 DEF InPath, PathKept, QueryKept, Alphanumeric, Digits, Capitals, Percent
    <3>2. e \o <<b>> = Append(e, b)
      BY AppendIsConcat DEF Bytes
    <3>3. Clean(Append(e, b), Append(p, IF b = Plus THEN Space ELSE b))
      BY <2>5, <3>1, OneIsRead
    <3>. QED  BY <2>1, <2>3, <2>6, <3>1, <3>2, <3>3
  <2>8. CASE b \notin PathKept
    <3>1. InPath(b) = Escape(b) /\ b # Plus
      BY <2>8 DEF InPath, PathKept, Plus
    <3>2. Clean(e \o Escape(b), Append(p, b))
      BY <2>5, OneIsRead
    <3>. QED  BY <2>1, <2>3, <2>6, <3>1, <3>2
  <2>. QED  BY <2>7, <2>8
<1> HIDE DEF S
<1>3. Bytes \subseteq S
  BY <1>1, <1>2, EverySequence DEF Bytes
<1>. QED  BY <1>3 DEF S

-----------------------------------------------------------------------------
(* What is cut *)

NoneOf(t, c) == \A k \in DOMAIN t : t[k] # c

\* A list of parts, the last of which still grows: one byte more, and a text more.
Parts == Seq(Bytes) \ {<<>>}
Grown(parts, b, c) == IF b = c THEN Append(parts, <<>>) ELSE [parts EXCEPT ![Len(parts)] = Append(@, b)]
Extended(parts, e) == [parts EXCEPT ![Len(parts)] = @ \o e]

Splitter(c) == [p \in Parts \X Byte |-> Grown(p[1], p[2], c)]

\* What stands in a list of parts whose last one was replaced.
LEMMA LastReplaced ==
  ASSUME NEW parts \in Parts, NEW t \in Bytes
  PROVE  [parts EXCEPT ![Len(parts)] = t] \in Parts
<1>1. PICK n \in Nat : Len(parts) = n /\ n # 0 /\ DOMAIN parts = 1..n /\ n \in 1..n
  <2>1. parts \in Seq(Bytes) /\ parts # <<>>
    BY DEF Parts
  <2>2. Len(parts) \in Nat /\ DOMAIN parts = 1..Len(parts) /\ Len(parts) # 0
    BY <2>1, LenProperties, EmptySeq
  <2>3. Len(parts) \in 1..Len(parts)
    BY <2>2
  <2>. QED  BY <2>2, <2>3
<1>2. PICK u : u = [parts EXCEPT ![n] = t]
  OBVIOUS
<1>3. parts \in [1..n -> Bytes]
  BY <1>1, LenProperties DEF Parts
<1>4. u \in [1..n -> Bytes]
  BY <1>2, <1>3
<1>5. u \in Seq(Bytes) /\ Len(u) = n
  BY <1>4
<1>6. u # <<>>
  BY <1>1, <1>5, EmptySeq
<1>. QED  BY <1>1, <1>2, <1>5, <1>6 DEF Parts

LEMMA LastOf ==
  ASSUME NEW parts \in Parts
  PROVE  Len(parts) \in DOMAIN parts /\ parts[Len(parts)] \in Bytes /\ parts \in Seq(Bytes)
<1>1. parts \in Seq(Bytes) /\ parts # <<>>
  BY DEF Parts
<1>2. Len(parts) \in Nat /\ DOMAIN parts = 1..Len(parts) /\ Len(parts) # 0
  BY <1>1, LenProperties, EmptySeq
<1>3. Len(parts) \in 1..Len(parts)
  BY <1>2
<1>. QED  BY <1>1, <1>2, <1>3, ElementOfSeq

LEMMA SplitterSplits ==
  ASSUME NEW c \in Byte
  PROVE  <<<<>>>> \in Parts /\ IsStep(Splitter(c), Parts, Byte)
<1>1. <<>> \in Bytes
  BY EmptySeq DEF Bytes
<1>2. <<<<>>>> \in Parts
  BY <1>1 DEF Parts
<1>3. ASSUME NEW parts \in Parts, NEW b \in Byte PROVE Grown(parts, b, c) \in Parts
  <2>1. parts[Len(parts)] \in Bytes /\ parts \in Seq(Bytes)
    BY LastOf
  <2>2. CASE b = c
    <3>1. Append(parts, <<>>) \in Seq(Bytes) /\ Append(parts, <<>>) # <<>>
      BY <1>1, <2>1, AppendProperties
    <3>. QED  BY <2>2, <3>1 DEF Grown, Parts
  <2>3. CASE b # c
    <3>1. PICK t \in Bytes : t = Append(parts[Len(parts)], b)
      BY <2>1, AppendProperties DEF Bytes
    <3>2. [parts EXCEPT ![Len(parts)] = t] \in Parts
      BY LastReplaced
    <3>3. Grown(parts, b, c) = [parts EXCEPT ![Len(parts)] = t]
      BY <2>3, <3>1 DEF Grown
    <3>. QED  BY <3>2, <3>3
  <2>. QED  BY <2>2, <2>3
<1>. QED  BY <1>2, <1>3 DEF Splitter, IsStep

LEMMA TextIsSplit ==
  ASSUME NEW t \in Bytes, NEW c \in Byte
  PROVE  Loops(Split(t, c), Splitter(c), Parts, <<<<>>>>, t)
<1>1. PICK n \in Nat : n = Len(t) /\ DOMAIN t = 1..n
  BY LenProperties DEF Bytes, IsStep
<1> DEFINE Body(it) == [S \in SUBSET (1..n) |-> IF S = {} THEN <<<<>>>> ELSE Grown(it[S \ {Top(S)}], t[Top(S)], c)]
<1>2. \A k \in 1..n : t[k] \in Byte
  BY <1>1, ElementOfSeq DEF Bytes, IsStep
<1>3. PICK first \in Parts : first = <<<<>>>>
  BY SplitterSplits
<1>4. PICK it \in [SUBSET (1..n) -> Parts] : IsFoldOver(it, Splitter(c), first, t)
  BY <1>1, SplitterSplits, FoldOverExists DEF Bytes, IsStep
<1>5. ASSUME NEW S \in SUBSET (1..n), S # {}, NEW x, x[S \ {Top(S)}] \in Parts
      PROVE  Splitter(c)[<<x[S \ {Top(S)}], t[Top(S)]>>] = Grown(x[S \ {Top(S)}], t[Top(S)], c)
  <2>1. t[Top(S)] \in Byte
    BY <1>2, <1>5, TopIsLast
  <2>. QED  BY <1>5, <2>1 DEF Splitter
<1>6. it = Body(it)
  <2>1. ASSUME NEW S \in SUBSET (1..n), S # {}
        PROVE  it[S] = Grown(it[S \ {Top(S)}], t[Top(S)], c)
    <3>1. it[S \ {Top(S)}] \in Parts
      BY <1>4
    <3>2. it[S] = Splitter(c)[<<it[S \ {Top(S)}], t[Top(S)]>>]
      BY <1>1, <1>4, <2>1 DEF IsFoldOver
    <3>. QED  BY <1>5, <2>1, <3>1, <3>2
  <2>2. it[{}] = <<<<>>>>
    BY <1>1, <1>3, <1>4 DEF IsFoldOver
  <2>. QED  BY <1>4, <2>1, <2>2
<1>7. PICK x : x = CHOOSE y : y = Body(y)
  OBVIOUS
<1>8. x = Body(x)
  BY <1>6, <1>7
<1>9. Split(t, c) = x[1..n]
  BY <1>1, <1>7 DEF Split, Grown, FoldLeft, MapThenFoldSet, Top, Max
<1>10. FoldsOver(x, Parts, Splitter(c), first, t)
  <2>1. x[{}] = first
    BY <1>3, <1>8
  <2>2. ASSUME NEW S \in SUBSET (1..n), S # {}, x[S \ {Top(S)}] \in Parts
        PROVE  x[S] = Splitter(c)[<<x[S \ {Top(S)}], t[Top(S)]>>]
    <3>1. x[S] = Grown(x[S \ {Top(S)}], t[Top(S)], c)
      BY <1>8, <2>2
    <3>. QED  BY <1>5, <2>2, <3>1
  <2>. QED  BY <1>1, <2>1, <2>2 DEF FoldsOver
<1>11. Loops(x[1..n], Splitter(c), Parts, first, t)
  BY <1>1, <1>10, SplitterSplits, FoldLoops DEF Bytes, IsStep
<1>. QED  BY <1>3, <1>9, <1>11


LEMMA Splits ==
  ASSUME NEW t \in Bytes, NEW b \in Byte, NEW c \in Byte
  PROVE  /\ Split(<<>>, c) = <<<<>>>> /\ Split(t, c) \in Parts
         /\ Split(Append(t, b), c) = Grown(Split(t, c), b, c)
<1>1. <<>> \in Bytes /\ Append(t, b) \in Bytes
  BY AppendProperties, EmptySeq DEF Bytes
<1>2. Split(<<>>, c) = <<<<>>>>
  BY <1>1, TextIsSplit, LoopBegins
<1>3. PICK first, v, w : first = <<<<>>>> /\ v = Split(t, c) /\ w = Split(Append(t, b), c)
  OBVIOUS
<1>4. Loops(v, Splitter(c), Parts, first, t) /\ Loops(w, Splitter(c), Parts, first, Append(t, b))
  BY <1>1, <1>3, TextIsSplit
<1>5. t \in Seq(Byte) /\ first \in Parts /\ IsStep(Splitter(c), Parts, Byte)
  BY <1>3, SplitterSplits DEF Bytes
<1>6. v \in Parts /\ w = Splitter(c)[<<v, b>>]
  BY <1>4, <1>5, LoopGoesOn
<1>. QED  BY <1>2, <1>3, <1>6 DEF Splitter

\* A text without c behind u goes to the last part.
LEMMA SplitExtends ==
  ASSUME NEW u \in Bytes, NEW c \in Byte
  PROVE  \A e \in Bytes : NoneOf(e, c) => Split(u \o e, c) = Extended(Split(u, c), e)
<1> DEFINE S == {e \in Bytes : NoneOf(e, c) => Split(u \o e, c) = Extended(Split(u, c), e)}
<1>1. PICK parts \in Parts : parts = Split(u, c)
  BY Splits
<1>2. PICK n : n = Len(parts)
  OBVIOUS
<1>3. n \in DOMAIN parts /\ parts[n] \in Bytes /\ parts \in Seq(Bytes)
  BY <1>2, LastOf
<1>4. <<>> \in S
  <2>1. <<>> \in Bytes /\ u \o <<>> = u /\ parts[n] \o <<>> = parts[n]
    BY <1>3, PutBehind DEF Bytes
  <2>2. Extended(parts, <<>>) = parts
    <3>1. Extended(parts, <<>>) = [parts EXCEPT ![n] = parts[n]]
      BY <1>2, <2>1 DEF Extended
    <3>. QED  BY <1>3, <3>1
  <2>. QED  BY <1>1, <2>1, <2>2
<1>5. ASSUME NEW e \in Seq(Byte), NEW b \in Byte, e \in S PROVE Append(e, b) \in S
  <2>1. e \in Bytes /\ Append(e, b) \in Bytes /\ u \o e \in Bytes /\ u \o Append(e, b) = Append(u \o e, b)
    BY PutBehind DEF Bytes
  <2>. SUFFICES ASSUME NoneOf(Append(e, b), c)
                PROVE  Split(u \o Append(e, b), c) = Extended(parts, Append(e, b))
    BY <1>1, <2>1
  <2>2. NoneOf(e, c) /\ b # c
    <3>1. Len(e) \in Nat /\ DOMAIN e = 1..Len(e)
      BY LenProperties
    <3>2. PICK t : t = Append(e, b)
      OBVIOUS
    <3>3. t \in Seq(Byte) /\ Len(t) = Len(e) + 1 /\ (\A k \in 1..Len(e) : t[k] = e[k]) /\ t[Len(e) + 1] = b
      BY <3>2, AppendProperties
    <3>4. DOMAIN t = 1..(Len(e) + 1)
      BY <3>3, LenProperties
    <3>5. \A k \in 1..(Len(e) + 1) : t[k] # c
      BY <3>2, <3>4 DEF NoneOf
    <3>6. \A k \in 1..Len(e) : k \in 1..(Len(e) + 1)
      BY <3>1
    <3>7. Len(e) + 1 \in 1..(Len(e) + 1)
      BY <3>1
    <3>8. NoneOf(e, c)
      BY <3>1, <3>3, <3>5, <3>6 DEF NoneOf
    <3>. QED  BY <3>3, <3>5, <3>7, <3>8
  <2>3. Split(u \o e, c) = Extended(parts, e)
    BY <1>1, <1>5, <2>2
  <2>4. Split(Append(u \o e, b), c) = Grown(Extended(parts, e), b, c)
    BY <2>1, <2>3, Splits
  <2>5. PICK d \in Bytes : d = parts[n] \o e
    BY <1>3, <2>1, PutBehind DEF Bytes
  <2>6. PICK more : more = [parts EXCEPT ![n] = d]
    OBVIOUS
  <2>7. Extended(parts, e) = more
    BY <1>2, <2>5, <2>6 DEF Extended
  <2>8. Len(more) = n /\ more[n] = d
    <3>1. DOMAIN more = DOMAIN parts /\ more[n] = d
      BY <1>3, <2>6
    <3>2. more \in Parts
      BY <1>2, <2>5, <2>6, LastReplaced
    <3>3. more \in Seq(Bytes) /\ parts \in Seq(Bytes)
      BY <3>2 DEF Parts
    <3>4. Len(more) = Len(parts)
      BY <3>1, <3>3, LenProperties
    <3>. QED  BY <1>2, <3>1, <3>4
  <2>9. Grown(more, b, c) = [more EXCEPT ![n] = Append(d, b)]
    BY <2>2, <2>8 DEF Grown
  <2>10. [more EXCEPT ![n] = Append(d, b)] = [parts EXCEPT ![n] = Append(d, b)]
    BY <1>3, <2>6
  <2>11. parts[n] \o Append(e, b) = Append(parts[n] \o e, b)
    BY <1>3, <2>1, PutBehind DEF Bytes
  <2>12. Extended(parts, Append(e, b)) = [parts EXCEPT ![n] = Append(d, b)]
    BY <1>2, <2>5, <2>11 DEF Extended
  <2>. QED  BY <2>1, <2>4, <2>7, <2>9, <2>10, <2>12
<1> HIDE DEF S
<1>6. Bytes \subseteq S
  BY <1>4, <1>5, EverySequence DEF Bytes
<1>. QED  BY <1>6 DEF S

\* A text without c, alone and behind a c.
LEMMA SplitAtOne ==
  ASSUME NEW u \in Bytes, NEW c \in Byte, NEW e \in Bytes, NoneOf(e, c)
  PROVE  /\ Split(e, c) = <<e>>
         /\ Append(u, c) \o e \in Bytes
         /\ Split(Append(u, c) \o e, c) = Append(Split(u, c), e)
<1>1. <<>> \in Bytes /\ Append(u, c) \in Bytes /\ <<>> \o e = e /\ Append(u, c) \o e \in Bytes
  BY PutBehind, AppendProperties, ConcatProperties DEF Bytes
<1>2. Split(e, c) = <<e>>
  <2>1. Split(<<>> \o e, c) = Extended(Split(<<>>, c), e)
    BY <1>1, SplitExtends
  <2>2. PICK one : one = <<<<>>>>
    OBVIOUS
  <2>3. Split(<<>>, c) = one
    BY <1>1, <2>2, Splits
  <2>4. Len(one) = 1 /\ one[1] = <<>> /\ [one EXCEPT ![1] = e] = <<e>>
    BY <2>2
  <2>5. Extended(one, e) = [one EXCEPT ![1] = one[1] \o e]
    BY <2>4 DEF Extended
  <2>. QED  BY <1>1, <2>1, <2>3, <2>4, <2>5
<1>3. Split(Append(u, c) \o e, c) = Append(Split(u, c), e)
  <2>1. PICK parts \in Parts : parts = Split(u, c)
    BY Splits
  <2>2. PICK empty \in Bytes : empty = <<>>
    BY <1>1
  <2>3. PICK more : more = Append(parts, empty)
    OBVIOUS
  <2>4. Split(Append(u, c), c) = more
    <3>1. Split(Append(u, c), c) = Grown(parts, c, c)
      BY <2>1, Splits
    <3>. QED  BY <2>2, <2>3, <3>1 DEF Grown
  <2>5. Split(Append(u, c) \o e, c) = Extended(more, e)
    BY <1>1, <2>4, SplitExtends
  <2>6. PICK n \in Nat : n = Len(parts) /\ parts \in Seq(Bytes)
    <3>1. parts \in Seq(Bytes)
      BY DEF Parts
    <3>. QED  BY <3>1, LenProperties
  <2>7. more \in Seq(Bytes) /\ Len(more) = n + 1 /\ (\A k \in 1..n : more[k] = parts[k]) /\ more[n + 1] = empty
    BY <2>3, <2>6, AppendProperties
  <2>8. PICK w : w = Append(parts, e)
    OBVIOUS
  <2>9. w \in Seq(Bytes) /\ Len(w) = n + 1 /\ (\A k \in 1..n : w[k] = parts[k]) /\ w[n + 1] = e
    BY <2>6, <2>8, AppendProperties
  <2>10. PICK v : v = [more EXCEPT ![n + 1] = e]
    OBVIOUS
  <2>11. Extended(more, e) = v
    <3>1. more[n + 1] \o e = e
      BY <1>1, <2>2, <2>7
    <3>. QED  BY <2>7, <2>10, <3>1 DEF Extended
  <2>12. more \in [1..(n + 1) -> Bytes] /\ w \in [1..(n + 1) -> Bytes]
    BY <2>7, <2>9, LenProperties
  <2>13. v = w
    <3>1. \A k \in 1..(n + 1) : v[k] = w[k]
      <4>. SUFFICES ASSUME NEW k \in 1..(n + 1) PROVE v[k] = w[k]
        OBVIOUS
      <4>1. CASE k = n + 1
        BY <2>9, <2>10, <2>12, <4>1
      <4>2. CASE k # n + 1
        <5>1. k \in 1..n
          BY <4>2
        <5>. QED  BY <2>7, <2>9, <2>10, <2>12, <4>2, <5>1
      <4>. QED  BY <4>1, <4>2
    <3>2. v \in [1..(n + 1) -> Bytes]
      BY <2>10, <2>12
    <3>. QED  BY <2>12, <3>1, <3>2
  <2>. QED  BY <2>1, <2>5, <2>8, <2>11, <2>13
<1>. QED  BY <1>1, <1>2, <1>3

\* Where a text is cut at the first c.
LEMMA BeforeIs ==
  ASSUME NEW t \in Bytes, NEW c \in Byte
  PROVE  \/ NoneOf(t, c) /\ Before(t, c) = t
         \/ \E k \in 1..Len(t) : /\ t[k] = c /\ \A j \in 1..(k - 1) : t[j] # c
                                 /\ Before(t, c) = SubSeq(t, 1, k - 1)
<1>1. PICK n \in Nat : n = Len(t) /\ DOMAIN t = 1..n
  BY LenProperties DEF Bytes
<1>2. PICK I : I = {i \in 1..n : t[i] = c}
  OBVIOUS
<1>3. SelectInSeq(t, LAMBDA b : b = c) = IF I # {} THEN Min(I) ELSE 0
  BY <1>1, <1>2 DEF SelectInSeq
<1>4. CASE I = {}
  <2>1. Before(t, c) = t
    BY <1>3, <1>4 DEF Before
  <2>. QED  BY <1>1, <1>2, <1>4, <2>1 DEF NoneOf
<1>5. CASE I # {}
  <2>1. PICK k \in I : \A j \in I : k <= j
    <3>1. I \subseteq Nat
      BY <1>2
    <3>. QED  BY <1>5, <3>1, LeastThereIs
  <2>2. Min(I) \in I /\ \A j \in I : Min(I) <= j
    BY <2>1 DEF Min
  <2>3. Min(I) # 0
    BY <1>2, <2>2
  <2>4. Before(t, c) = SubSeq(t, 1, Min(I) - 1)
    BY <1>3, <1>5, <2>3 DEF Before
  <2>5. ASSUME NEW j \in 1..(Min(I) - 1) PROVE t[j] # c
    <3>1. Min(I) \in 1..n
      BY <1>2, <2>2
    <3>2. j \in 1..n /\ ~(Min(I) <= j)
      BY <3>1
    <3>. QED  BY <1>2, <2>2, <3>2
  <2>6. Min(I) \in 1..Len(t) /\ t[Min(I)] = c
    BY <1>1, <1>2, <2>2
  <2>. QED  BY <2>4, <2>5, <2>6
<1>. QED  BY <1>4, <1>5

LEMMA SubTextIs ==
  ASSUME NEW t \in Bytes, NEW m \in Nat, NEW n \in Nat, 1 <= m, m <= n + 1, n <= Len(t)
  PROVE  /\ SubSeq(t, m, n) \in Bytes /\ Len(SubSeq(t, m, n)) = n + 1 - m
         /\ \A k \in 1..(n + 1 - m) : SubSeq(t, m, n)[k] = t[m + k - 1]
<1>1. Len(t) \in Nat /\ \A k \in m..n : t[k] \in Byte
  BY ElementOfSeq, LenProperties DEF Bytes
<1>2. /\ SubSeq(t, m, n) \in Seq(Byte)
      /\ Len(SubSeq(t, m, n)) = IF m <= n THEN n - m + 1 ELSE 0
      /\ \A k \in 1..(n - m + 1) : SubSeq(t, m, n)[k] = t[m + k - 1]
  BY <1>1, SubSeqProperties
<1>. QED  BY <1>2 DEF Bytes

\* A text is what it is at every place.
LEMMA SameBytes ==
  ASSUME NEW s \in Bytes, NEW t \in Bytes, Len(s) = Len(t), \A k \in 1..Len(s) : s[k] = t[k]
  PROVE  s = t
BY SeqEqual DEF Bytes

LEMMA NothingLeft ==
  ASSUME NEW t \in Bytes, NEW m \in Nat, NEW n \in Nat, m > n
  PROVE  SubSeq(t, m, n) = <<>>
<1>1. SubSeq(t, m, n) \in Seq(Byte) /\ Len(SubSeq(t, m, n)) = IF m <= n THEN n - m + 1 ELSE 0
  <2>1. \A k \in m..n : t[k] \in Byte
    OBVIOUS
  <2>. QED  BY <2>1, SubSeqProperties
<1>. QED  BY <1>1, EmptySeq

LEMMA CutIsBytes ==
  ASSUME NEW t \in Bytes, NEW c \in Byte
  PROVE  Before(t, c) \in Bytes /\ Behind(t, c) \in Bytes
<1>1. PICK n \in Nat : n = Len(t)
  BY LenProperties DEF Bytes
<1>2. Before(t, c) \in Bytes
  <2>1. CASE Before(t, c) = t
    BY <2>1
  <2>2. CASE \E k \in 1..Len(t) : Before(t, c) = SubSeq(t, 1, k - 1)
    <3>1. PICK k \in 1..n : Before(t, c) = SubSeq(t, 1, k - 1)
      BY <1>1, <2>2
    <3>2. k - 1 \in Nat /\ 1 <= (k - 1) + 1 /\ k - 1 <= n
      BY <1>1
    <3>. QED  BY <1>1, <3>1, <3>2, SubTextIs
  <2>. QED  BY <2>1, <2>2, BeforeIs
<1>3. Behind(t, c) \in Bytes
  <2>1. PICK m \in Nat : m = Len(Before(t, c)) + 2
    BY <1>2, LenProperties DEF Bytes
  <2>2. Behind(t, c) = SubSeq(t, m, n)
    BY <1>1, <2>1 DEF Behind
  <2>3. CASE m <= n + 1
    <3>1. 1 <= m
      BY <1>2, <2>1, LenProperties DEF Bytes
    <3>. QED  BY <1>1, <2>2, <2>3, <3>1, SubTextIs
  <2>4. CASE m > n
    BY <2>2, <2>4, NothingLeft, EmptySeq DEF Bytes
  <2>. QED  BY <2>3, <2>4
<1>. QED  BY <1>2, <1>3

LEMMA CutNowhere ==
  ASSUME NEW t \in Bytes, NEW c \in Byte, NoneOf(t, c)
  PROVE  Before(t, c) = t /\ Behind(t, c) = <<>>
<1>1. PICK n \in Nat : n = Len(t) /\ DOMAIN t = 1..n
  BY LenProperties DEF Bytes
<1>2. Before(t, c) = t
  <2>1. ~\E k \in 1..n : t[k] = c
    BY <1>1 DEF NoneOf
  <2>. QED  BY <1>1, <2>1, BeforeIs
<1>3. Behind(t, c) = SubSeq(t, n + 2, n)
  BY <1>1, <1>2 DEF Behind
<1>. QED  BY <1>1, <1>2, <1>3, NothingLeft

LEMMA CutAtMark ==
  ASSUME NEW a \in Bytes, NEW c \in Byte, NEW b \in Bytes, NoneOf(a, c)
  PROVE  Before((a \o <<c>>) \o b, c) = a /\ Behind((a \o <<c>>) \o b, c) = b
<1>1. PICK n \in Nat, m \in Nat : n = Len(a) /\ DOMAIN a = 1..n /\ m = Len(b)
  BY LenProperties DEF Bytes
<1>2. PICK u \in Bytes : u = a \o <<c>> /\ u = Append(a, c)
  BY AppendIsConcat, AppendProperties DEF Bytes
<1>3. Len(u) = n + 1 /\ (\A k \in 1..n : u[k] = a[k]) /\ u[n + 1] = c
  BY <1>1, <1>2, AppendProperties DEF Bytes
<1>4. PICK t \in Bytes : t = u \o b
  BY ConcatProperties DEF Bytes
<1>5. Len(t) = n + 1 + m /\ (\A k \in 1..(n + 1) : t[k] = u[k]) /\ \A k \in 1..m : t[n + 1 + k] = b[k]
  <2>1. /\ Len(u \o b) = Len(u) + Len(b)
        /\ \A k \in 1..(Len(u) + Len(b)) : (u \o b)[k] = IF k <= Len(u) THEN u[k] ELSE b[k - Len(u)]
    BY ConcatProperties DEF Bytes
  <2>2. Len(t) = n + 1 + m /\ \A k \in 1..(n + 1 + m) : t[k] = IF k <= n + 1 THEN u[k] ELSE b[k - (n + 1)]
    BY <1>1, <1>3, <1>4, <2>1
  <2>3. ASSUME NEW k \in 1..(n + 1) PROVE t[k] = u[k]
    BY <2>2
  <2>4. ASSUME NEW k \in 1..m PROVE t[n + 1 + k] = b[k]
    <3>1. n + 1 + k \in 1..(n + 1 + m) /\ ~(n + 1 + k <= n + 1) /\ (n + 1 + k) - (n + 1) = k
      OBVIOUS
    <3>. QED  BY <2>2, <3>1
  <2>. QED  BY <2>2, <2>3, <2>4
<1>6. \A k \in 1..n : t[k] = a[k] /\ t[k] # c
  BY <1>1, <1>3, <1>5 DEF NoneOf
<1>7. t[n + 1] = c
  BY <1>3, <1>5
<1>8. Before(t, c) = a
  <2>1. PICK k \in 1..Len(t) : /\ t[k] = c /\ \A j \in 1..(k - 1) : t[j] # c
                               /\ Before(t, c) = SubSeq(t, 1, k - 1)
    <3>1. ~NoneOf(t, c)
      <4>1. DOMAIN t = 1..(n + 1 + m) /\ n + 1 \in 1..(n + 1 + m)
        BY <1>5, LenProperties DEF Bytes
      <4>. QED  BY <1>7, <4>1 DEF NoneOf
    <3>. QED  BY <3>1, BeforeIs
  <2>2. k \in 1..(n + 1 + m)
    BY <1>5, <2>1
  <2>3. ~(k \in 1..n) /\ ~(n + 1 \in 1..(k - 1))
    BY <1>6, <1>7, <2>1
  <2>4. k = n + 1
    BY <2>2, <2>3
  <2>5. PICK p : p = SubSeq(t, 1, n)
    OBVIOUS
  <2>6. p \in Bytes /\ Len(p) = n /\ \A j \in 1..n : p[j] = t[j]
    <3>1. /\ SubSeq(t, 1, n) \in Bytes /\ Len(SubSeq(t, 1, n)) = n + 1 - 1
          /\ \A j \in 1..(n + 1 - 1) : SubSeq(t, 1, n)[j] = t[1 + j - 1]
      BY <1>5, SubTextIs
    <3>. QED  BY <2>5, <3>1
  <2>7. p = a
    BY <1>1, <1>6, <2>6, SameBytes
  <2>. QED  BY <2>1, <2>4, <2>5, <2>7
<1>9. Behind(t, c) = b
  <2>1. PICK p : p = SubSeq(t, n + 2, n + 1 + m)
    OBVIOUS
  <2>2. Behind(t, c) = p
    BY <1>1, <1>5, <1>8, <2>1 DEF Behind
  <2>3. p \in Bytes /\ Len(p) = m /\ \A j \in 1..m : p[j] = t[n + 1 + j]
    <3>1. /\ SubSeq(t, n + 2, n + 1 + m) \in Bytes
          /\ Len(SubSeq(t, n + 2, n + 1 + m)) = (n + 1 + m) + 1 - (n + 2)
          /\ \A j \in 1..((n + 1 + m) + 1 - (n + 2)) : SubSeq(t, n + 2, n + 1 + m)[j] = t[(n + 2) + j - 1]
      <4>1. n + 2 \in Nat /\ n + 1 + m \in Nat /\ 1 <= n + 2 /\ n + 2 <= (n + 1 + m) + 1 /\ n + 1 + m <= Len(t)
        BY <1>5
      <4>. QED  BY <4>1, SubTextIs
    <3>2. (n + 1 + m) + 1 - (n + 2) = m
      OBVIOUS
    <3>3. ASSUME NEW j \in 1..m PROVE p[j] = t[n + 1 + j]
      <4>1. (n + 2) + j - 1 = n + 1 + j
        OBVIOUS
      <4>. QED  BY <2>1, <3>1, <3>2, <4>1
    <3>. QED  BY <2>1, <3>1, <3>2, <3>3
  <2>4. p = b
    BY <1>1, <1>5, <2>3, SameBytes
  <2>. QED  BY <2>2, <2>4
<1>. QED  BY <1>2, <1>4, <1>8, <1>9

-----------------------------------------------------------------------------
(* What is in a text and what is not *)

\* All of a text is in K.
AllIn(t, K) == \A k \in DOMAIN t : t[k] \in K

LEMMA NoneIsAllIn == ASSUME NEW t \in Bytes, NEW c PROVE NoneOf(t, c) <=> AllIn(t, Byte \ {c})
<1>1. \A k \in DOMAIN t : t[k] \in Byte
  BY LenProperties, ElementOfSeq DEF Bytes
<1>. QED  BY <1>1 DEF NoneOf, AllIn

LEMMA AllInBoth ==
  ASSUME NEW s \in Bytes, NEW u \in Bytes, NEW K
  PROVE  AllIn(s \o u, K) <=> AllIn(s, K) /\ AllIn(u, K)
<1>1. PICK n \in Nat, m \in Nat : n = Len(s) /\ DOMAIN s = 1..n /\ m = Len(u) /\ DOMAIN u = 1..m
  BY LenProperties DEF Bytes
<1>2. PICK w : w = s \o u
  OBVIOUS
<1>3. /\ w \in Bytes /\ Len(w) = n + m
      /\ \A k \in 1..(n + m) : w[k] = IF k <= n THEN s[k] ELSE u[k - n]
  <2>1. /\ s \o u \in Seq(Byte) /\ Len(s \o u) = Len(s) + Len(u)
        /\ \A k \in 1..(Len(s) + Len(u)) : (s \o u)[k] = IF k <= Len(s) THEN s[k] ELSE u[k - Len(s)]
    BY ConcatProperties DEF Bytes
  <2>. QED  BY <1>1, <1>2, <2>1 DEF Bytes
<1>4. DOMAIN w = 1..(n + m)
  BY <1>3, LenProperties DEF Bytes
<1>5. ASSUME AllIn(w, K) PROVE AllIn(s, K) /\ AllIn(u, K)
  <2>1. \A k \in 1..(n + m) : w[k] \in K
    BY <1>4, <1>5 DEF AllIn
  <2>2. ASSUME NEW k \in 1..n PROVE s[k] \in K
    <3>1. k \in 1..(n + m) /\ k <= n
      OBVIOUS
    <3>. QED  BY <1>3, <2>1, <3>1
  <2>3. ASSUME NEW k \in 1..m PROVE u[k] \in K
    <3>1. n + k \in 1..(n + m) /\ ~(n + k <= n) /\ (n + k) - n = k
      OBVIOUS
    <3>. QED  BY <1>3, <2>1, <3>1
  <2>. QED  BY <1>1, <2>2, <2>3 DEF AllIn
<1>6. ASSUME AllIn(s, K), AllIn(u, K) PROVE AllIn(w, K)
  <2>1. (\A k \in 1..n : s[k] \in K) /\ \A k \in 1..m : u[k] \in K
    BY <1>1, <1>6 DEF AllIn
  <2>2. ASSUME NEW k \in 1..(n + m) PROVE w[k] \in K
    <3>1. CASE k <= n
      <4>1. k \in 1..n
        BY <3>1
      <4>. QED  BY <1>3, <2>1, <3>1, <4>1
    <3>2. CASE ~(k <= n)
      <4>1. k - n \in 1..m
        BY <3>2
      <4>. QED  BY <1>3, <2>1, <3>2, <4>1
    <3>. QED  BY <3>1, <3>2
  <2>. QED  BY <1>4, <2>2 DEF AllIn
<1>. QED  BY <1>2, <1>5, <1>6

LEMMA AllInOne ==
  ASSUME NEW t \in Bytes, NEW b \in Byte, NEW K
  PROVE  /\ AllIn(<<>>, K) /\ (AllIn(<<b>>, K) <=> b \in K)
         /\ AllIn(Append(t, b), K) <=> AllIn(t, K) /\ b \in K
<1>1. AllIn(<<>>, K) /\ (AllIn(<<b>>, K) <=> b \in K)
  BY DEF AllIn
<1>2. AllIn(Append(t, b), K) <=> AllIn(t, K) /\ b \in K
  <2>1. PICK n \in Nat : n = Len(t) /\ DOMAIN t = 1..n
    BY LenProperties DEF Bytes
  <2>2. PICK w : w = Append(t, b)
    OBVIOUS
  <2>3. w \in Bytes /\ Len(w) = n + 1 /\ (\A k \in 1..n : w[k] = t[k]) /\ w[n + 1] = b
    BY <2>1, <2>2, AppendProperties DEF Bytes
  <2>4. DOMAIN w = 1..(n + 1)
    BY <2>3, LenProperties DEF Bytes
  <2>5. \A k \in 1..n : k \in 1..(n + 1)
    OBVIOUS
  <2>6. n + 1 \in 1..(n + 1)
    OBVIOUS
  <2>7. \A k \in 1..(n + 1) : k \in 1..n \/ k = n + 1
    OBVIOUS
  <2>8. AllIn(w, K) => AllIn(t, K) /\ b \in K
    BY <2>1, <2>3, <2>4, <2>5, <2>6 DEF AllIn
  <2>9. AllIn(t, K) /\ b \in K => AllIn(w, K)
    BY <2>1, <2>3, <2>4, <2>7 DEF AllIn
  <2>. QED  BY <2>2, <2>8, <2>9
<1>. QED  BY <1>1, <1>2

LEMMA EscapeIsHex ==
  ASSUME NEW b \in Byte
  PROVE  AllIn(Escape(b), {Percent} \cup Digits \cup (65..70))
<1>1. PICK g, h : g = HexDigit(b \div 16) /\ h = HexDigit(b % 16)
  OBVIOUS
<1>2. g \in Digits \cup (65..70) /\ h \in Digits \cup (65..70) /\ Escape(b) = <<Percent, g, h>>
  BY <1>1, EscapeIsBytes
<1>. QED  BY <1>2 DEF AllIn

\* What stands in what an encoder has written.
InEncoded(K) == K \cup {Percent} \cup Digits \cup (65..70)

LEMMA AllInMore == ASSUME NEW t, NEW K, NEW L, K \subseteq L, AllIn(t, K) PROVE AllIn(t, L)
BY DEF AllIn

LEMMA PathIsIn ==
  ASSUME NEW K
  PROVE  \A t \in Bytes : AllIn(t, K) => AllIn(EncodePath(t), InEncoded(K \cap PathKept))
<1> DEFINE S == {t \in Bytes : AllIn(t, K) => AllIn(EncodePath(t), InEncoded(K \cap PathKept))}
<1>1. <<>> \in S
  <2>1. <<>> \in Bytes /\ 32 \in Byte
    BY EmptySeq DEF Bytes, Byte
  <2>2. EncodePath(<<>>) = <<>>
    BY <2>1, Encodes
  <2>. QED  BY <2>1, <2>2 DEF AllIn
<1>2. ASSUME NEW t \in Seq(Byte), NEW b \in Byte, t \in S PROVE Append(t, b) \in S
  <2>1. t \in Bytes /\ Append(t, b) \in Bytes
    BY AppendProperties DEF Bytes
  <2>. SUFFICES ASSUME AllIn(Append(t, b), K)
                PROVE  AllIn(EncodePath(Append(t, b)), InEncoded(K \cap PathKept))
    BY <2>1
  <2>2. AllIn(t, K) /\ b \in K
    BY <2>1, AllInOne
  <2>3. PICK e \in Bytes : e = EncodePath(t)
    BY <2>1, Encodes
  <2>4. AllIn(e, InEncoded(K \cap PathKept))
    BY <1>2, <2>2, <2>3
  <2>5. EncodePath(Append(t, b)) = e \o InPath(b)
    BY <2>1, <2>3, Encodes
  <2>6. InPath(b) \in Bytes
    BY WrittenIsBytes
  <2>7. AllIn(InPath(b), InEncoded(K \cap PathKept))
    <3>1. CASE b \in PathKept
      BY <2>2, <3>1, AllInOne DEF InPath, InEncoded
    <3>2. CASE b \notin PathKept
      <4>1. AllIn(Escape(b), InEncoded(K \cap PathKept))
        BY EscapeIsHex, AllInMore DEF InEncoded
      <4>. QED  BY <3>2, <4>1 DEF InPath
    <3>. QED  BY <3>1, <3>2
  <2>8. AllIn(e \o InPath(b), InEncoded(K \cap PathKept))
    BY <2>4, <2>6, <2>7, AllInBoth
  <2>. QED  BY <2>5, <2>8
<1> HIDE DEF S
<1>3. Bytes \subseteq S
  BY <1>1, <1>2, EverySequence DEF Bytes
<1>. QED  BY <1>3 DEF S

LEMMA QueryIsIn == \A t \in Bytes : AllIn(EncodeQuery(t), InEncoded(QueryKept \cup {Plus}))
<1> DEFINE S == {t \in Bytes : AllIn(EncodeQuery(t), InEncoded(QueryKept \cup {Plus}))}
<1>1. <<>> \in S
  <2>1. <<>> \in Bytes /\ 32 \in Byte
    BY EmptySeq DEF Bytes, Byte
  <2>2. EncodeQuery(<<>>) = <<>>
    BY <2>1, Encodes
  <2>. QED  BY <2>1, <2>2 DEF AllIn
<1>2. ASSUME NEW t \in Seq(Byte), NEW b \in Byte, t \in S PROVE Append(t, b) \in S
  <2>1. t \in Bytes /\ Append(t, b) \in Bytes
    BY AppendProperties DEF Bytes
  <2>3. PICK e \in Bytes : e = EncodeQuery(t)
    BY <2>1, Encodes
  <2>4. AllIn(e, InEncoded(QueryKept \cup {Plus}))
    BY <1>2, <2>3
  <2>5. EncodeQuery(Append(t, b)) = e \o InQuery(b)
    BY <2>1, <2>3, Encodes
  <2>6. InQuery(b) \in Bytes
    BY WrittenIsBytes
  <2>7. AllIn(InQuery(b), InEncoded(QueryKept \cup {Plus}))
    <3>1. CASE b = Space
      <4>1. InQuery(b) = <<Plus>> /\ Plus \in Byte
        BY <3>1 DEF InQuery, Space, QueryKept, Alphanumeric, Digits, Capitals, Plus, Byte
      <4>. QED  BY <4>1, AllInOne DEF InEncoded
    <3>2. CASE b # Space /\ b \in QueryKept
      BY <3>2, AllInOne DEF InQuery, InEncoded
    <3>3. CASE b # Space /\ b \notin QueryKept
      <4>1. AllIn(Escape(b), InEncoded(QueryKept \cup {Plus}))
        BY EscapeIsHex, AllInMore DEF InEncoded
      <4>. QED  BY <3>3, <4>1 DEF InQuery
    <3>. QED  BY <3>1, <3>2, <3>3
  <2>8. AllIn(e \o InQuery(b), InEncoded(QueryKept \cup {Plus}))
    BY <2>4, <2>6, <2>7, AllInBoth
  <2>. QED  BY <2>1, <2>5, <2>8
<1> HIDE DEF S
<1>3. Bytes \subseteq S
  BY <1>1, <1>2, EverySequence DEF Bytes
<1>. QED  BY <1>3 DEF S

\* No mark that a url or a query is cut at comes out of an encoder.
LEMMA NoMarks ==
  ASSUME NEW t \in Bytes
  PROVE  /\ NoneOf(EncodeQuery(t), Ampersand) /\ NoneOf(EncodeQuery(t), Equals)
         /\ NoneOf(EncodePath(t), Question)
         /\ NoneOf(t, Slash) => NoneOf(EncodePath(t), Slash)
<1>1. PICK e \in Bytes, p \in Bytes : e = EncodeQuery(t) /\ p = EncodePath(t)
  <2>1. 32 \in Byte
    BY DEF Byte
  <2>. QED  BY <2>1, Encodes
<1>2. NoneOf(e, Ampersand) /\ NoneOf(e, Equals)
  <2>1. AllIn(e, InEncoded(QueryKept \cup {Plus}))
    BY <1>1, QueryIsIn
  <2>2. Ampersand \notin InEncoded(QueryKept \cup {Plus}) /\ Equals \notin InEncoded(QueryKept \cup {Plus})
    BY DEF InEncoded, QueryKept, Alphanumeric, Digits, Capitals, Plus, Percent, Ampersand, Equals
  <2>. QED  BY <2>1, <2>2 DEF AllIn, NoneOf
<1>3. NoneOf(p, Question)
  <2>1. AllIn(t, Byte)
    BY LenProperties, ElementOfSeq DEF AllIn, Bytes
  <2>2. AllIn(p, InEncoded(Byte \cap PathKept))
    BY <1>1, <2>1, PathIsIn
  <2>3. Question \notin InEncoded(Byte \cap PathKept)
    BY DEF InEncoded, PathKept, QueryKept, Alphanumeric, Digits, Capitals, Percent, Question
  <2>. QED  BY <2>2, <2>3 DEF AllIn, NoneOf
<1>4. ASSUME NoneOf(t, Slash) PROVE NoneOf(p, Slash)
  <2>1. AllIn(t, Byte \ {Slash})
    BY <1>4, NoneIsAllIn
  <2>2. AllIn(p, InEncoded((Byte \ {Slash}) \cap PathKept))
    BY <1>1, <2>1, PathIsIn
  <2>3. Slash \notin InEncoded((Byte \ {Slash}) \cap PathKept)
    BY DEF InEncoded, Digits, Percent, Slash
  <2>. QED  BY <2>2, <2>3 DEF AllIn, NoneOf
<1>. QED  BY <1>1, <1>2, <1>3, <1>4

\* What needs no escape stays as it is.
LEMMA KeptAsItIs ==
  \A t \in Bytes : /\ AllIn(t, QueryKept) => EncodeQuery(t) = t
                   /\ AllIn(t, PathKept) => EncodePath(t) = t
<1> DEFINE S == {t \in Bytes : /\ AllIn(t, QueryKept) => EncodeQuery(t) = t
                               /\ AllIn(t, PathKept) => EncodePath(t) = t}
<1>1. <<>> \in S
  <2>1. <<>> \in Bytes /\ 32 \in Byte
    BY EmptySeq DEF Bytes, Byte
  <2>2. EncodeQuery(<<>>) = <<>> /\ EncodePath(<<>>) = <<>>
    BY <2>1, Encodes
  <2>. QED  BY <2>1, <2>2
<1>2. ASSUME NEW t \in Seq(Byte), NEW b \in Byte, t \in S PROVE Append(t, b) \in S
  <2>1. t \in Bytes /\ Append(t, b) \in Bytes /\ t \o <<b>> = Append(t, b)
    BY AppendProperties, AppendIsConcat DEF Bytes
  <2>2. ASSUME AllIn(Append(t, b), QueryKept) PROVE EncodeQuery(Append(t, b)) = Append(t, b)
    <3>1. AllIn(t, QueryKept) /\ b \in QueryKept
      BY <2>1, <2>2, AllInOne
    <3>2. b # Space
      BY <3>1 DEF QueryKept, Alphanumeric, Digits, Capitals, Space
    <3>3. InQuery(b) = <<b>>
      BY <3>1, <3>2 DEF InQuery
    <3>4. EncodeQuery(Append(t, b)) = EncodeQuery(t) \o InQuery(b)
      BY <2>1, Encodes
    <3>. QED  BY <1>2, <2>1, <3>1, <3>3, <3>4
  <2>3. ASSUME AllIn(Append(t, b), PathKept) PROVE EncodePath(Append(t, b)) = Append(t, b)
    <3>1. AllIn(t, PathKept) /\ b \in PathKept
      BY <2>1, <2>3, AllInOne
    <3>2. InPath(b) = <<b>>
      BY <3>1 DEF InPath
    <3>3. EncodePath(Append(t, b)) = EncodePath(t) \o InPath(b)
      BY <2>1, Encodes
    <3>. QED  BY <1>2, <2>1, <3>1, <3>2, <3>3
  <2>. QED  BY <2>1, <2>2, <2>3
<1> HIDE DEF S
<1>3. Bytes \subseteq S
  BY <1>1, <1>2, EverySequence DEF Bytes
<1>. QED  BY <1>3 DEF S

-----------------------------------------------------------------------------
(* What a path value is read as *)

LEMMA PlusesGone ==
  ASSUME NEW t \in Bytes
  PROVE  /\ PlusAsSpace(t) \in Bytes /\ NoneOf(PlusAsSpace(t), Plus)
         /\ PlusAsSpace(t) # t => \E k \in DOMAIN PlusAsSpace(t) : PlusAsSpace(t)[k] = Space
<1>1. PICK n \in Nat : n = Len(t) /\ DOMAIN t = 1..n /\ t = [k \in 1..n |-> t[k]]
  BY LenProperties, SeqDef DEF Bytes
<1>2. PICK p : p = PlusAsSpace(t)
  OBVIOUS
<1>3. p = [k \in 1..n |-> IF t[k] = Plus THEN Space ELSE t[k]]
  BY <1>1, <1>2 DEF PlusAsSpace
<1>4. p \in Bytes
  <2>1. 32 \in Byte
    BY DEF Byte
  <2>. QED  BY <1>2, <2>1, PlusesOf
<1>5. NoneOf(p, Plus)
  BY <1>3 DEF NoneOf, Plus, Space
<1>6. ASSUME \A k \in DOMAIN p : p[k] # Space PROVE p = t
  <2>1. \A k \in 1..n : p[k] = t[k]
    BY <1>3, <1>6
  <2>. QED  BY <1>1, <1>3, <2>1
<1>. QED  BY <1>2, <1>4, <1>5, <1>6

LEMMA BeginsWith ==
  ASSUME NEW t \in Bytes, NEW c \in Byte, IsPrefix(<<c>>, t)
  PROVE  1 \in DOMAIN t /\ t[1] = c
<1>1. PICK n \in Nat : n = Len(t) /\ DOMAIN t = 1..n
  BY LenProperties DEF Bytes
<1>2. PICK s : s = <<c>>
  OBVIOUS
<1>3. s \in Bytes /\ Len(s) = 1 /\ s[1] = c
  BY <1>2 DEF Bytes
<1>4. 1 <= n /\ SubSeq(s, 1, 1) = SubSeq(t, 1, 1)
  BY <1>1, <1>2, <1>3 DEF IsPrefix
<1>5. SubSeq(s, 1, 1)[1] = s[1] /\ SubSeq(t, 1, 1)[1] = t[1]
  <2>1. \A k \in 1..(1 + 1 - 1) : SubSeq(s, 1, 1)[k] = s[1 + k - 1]
    BY <1>3, SubTextIs
  <2>2. \A k \in 1..(1 + 1 - 1) : SubSeq(t, 1, 1)[k] = t[1 + k - 1]
    BY <1>1, <1>4, SubTextIs
  <2>. QED  BY <2>1, <2>2
<1>. QED  BY <1>1, <1>3, <1>4, <1>5

LEMMA EndsWith ==
  ASSUME NEW t \in Bytes, NEW c \in Byte, IsSuffix(<<c>>, t)
  PROVE  t # <<>> /\ t[Len(t)] = c
<1>1. PICK n \in Nat : n = Len(t) /\ DOMAIN t = 1..n
  BY LenProperties DEF Bytes
<1>2. PICK r : r = Reverse(t)
  OBVIOUS
<1>3. r = [i \in 1..n |-> t[(n - i) + 1]]
  BY <1>1, <1>2 DEF Reverse
<1>4. \A i \in 1..n : t[(n - i) + 1] \in Byte
  <2>1. \A i \in 1..n : (n - i) + 1 \in 1..n
    OBVIOUS
  <2>. QED  BY <1>1, <2>1, ElementOfSeq DEF Bytes
<1>5. r \in Bytes /\ Len(r) = n
  BY <1>3, <1>4 DEF Bytes
<1>6. Reverse(<<c>>) = <<c>>
  BY DEF Reverse
<1>7. IsPrefix(<<c>>, r)
  BY <1>2, <1>6 DEF IsSuffix
<1>8. 1 \in DOMAIN r /\ r[1] = c
  BY <1>5, <1>7, BeginsWith
<1>9. n # 0 /\ t[(n - 1) + 1] = c
  BY <1>3, <1>8
<1>. QED  BY <1>1, <1>9, EmptySeq

\* A number is read of digits, unless it begins with a plus.
LEMMA NumberIsDigits ==
  ASSUME NEW t \in Bytes, NoneOf(t, Plus), ToNumber(t).ok
  PROVE  AllIn(t, Digits)
<1>1. ~IsPrefix(<<Plus>>, t)
  <2>1. Plus \in Byte
    BY DEF Plus, Byte
  <2>. QED  BY <2>1, BeginsWith DEF NoneOf
<1>2. ~(Range(t) \subseteq Digits) => ToNumber(t) = Unreadable
  BY <1>1 DEF ToNumber
<1>3. Range(t) \subseteq Digits
  BY <1>2 DEF Unreadable
<1>. QED  BY <1>3 DEF Range, AllIn

\* A case is read of what it is written as, or of its number.
LEMMA CaseIsOneOf ==
  ASSUME NEW t, ToCase(t).ok
  PROVE  \E c \in DOMAIN EnumCases :
            t \in {EnumCases[c].value, EnumCases[c].id} /\ ToCase(t) = Readable(EnumCases[c].value)
<1>1. EnumCases \in Seq([name : Seq(Byte), value : Seq(Byte), id : Seq(Digits \cup {45})])
  BY EnumAssumption
<1>2. PICK n \in Nat : n = Len(EnumCases) /\ DOMAIN EnumCases = 1..n
  BY <1>1, LenProperties
<1>3. PICK I : I = {i \in 1..n : t \in {EnumCases[i].value, EnumCases[i].id}}
  OBVIOUS
<1>4. SelectInSeq(EnumCases, LAMBDA x : t \in {x.value, x.id}) = IF I # {} THEN Min(I) ELSE 0
  BY <1>2, <1>3 DEF SelectInSeq
<1>5. CASE I = {}
  <2>1. ToCase(t) = Unreadable
    BY <1>4, <1>5 DEF ToCase
  <2>. QED  BY <2>1 DEF Unreadable
<1>6. CASE I # {}
  <2>1. PICK k \in I : \A j \in I : k <= j
    <3>1. I \subseteq Nat
      BY <1>3
    <3>. QED  BY <1>6, <3>1, LeastThereIs
  <2>2. Min(I) \in I
    BY <2>1 DEF Min
  <2>3. Min(I) \in 1..n /\ Min(I) # 0
    BY <1>3, <2>2
  <2>4. ToCase(t) = Readable(EnumCases[Min(I)].value)
    BY <1>4, <1>6, <2>3 DEF ToCase
  <2>. QED  BY <1>2, <1>3, <2>2, <2>3, <2>4
<1>. QED  BY <1>5, <1>6

\* What is printed, with its pluses made spaces, is read as it is if it is read at all.
LEMMA PlusesReadBack ==
  ASSUME NEW type \in Types \ {"bool"}, NEW t \in Bytes, Printed(type, t), Convert(type, PlusAsSpace(t)).ok
  PROVE  Convert(type, PlusAsSpace(t)).text = PlusAsSpace(t)
<1>1. PICK p \in Bytes : p = PlusAsSpace(t)
  BY PlusesGone
<1>2. ASSUME p = t PROVE Convert(type, p).text = p
  BY <1>2 DEF Printed, Readable
<1>3. ASSUME p # t PROVE \E k \in DOMAIN p : p[k] = Space
  BY <1>1, <1>3, PlusesGone
<1>4. CASE type = "text"
  BY <1>1, <1>4 DEF Convert, Readable
<1>5. CASE type = "number"
  <2>1. Convert(type, p) = ToNumber(p)
    BY <1>5 DEF Convert
  <2>2. AllIn(p, Digits)
    BY <1>1, <2>1, PlusesGone, NumberIsDigits
  <2>3. p = t
    BY <1>3, <2>2 DEF AllIn, Digits, Space
  <2>. QED  BY <1>1, <1>2, <2>3
<1>6. CASE type = "enum"
  <2>1. Convert(type, p) = ToCase(p)
    BY <1>6 DEF Convert
  <2>2. PICK c \in DOMAIN EnumCases :
               p \in {EnumCases[c].value, EnumCases[c].id} /\ ToCase(p) = Readable(EnumCases[c].value)
    BY <1>1, <2>1, CaseIsOneOf
  <2>3. CASE p = EnumCases[c].value
    BY <1>1, <2>1, <2>2, <2>3 DEF Readable
  <2>4. CASE p = EnumCases[c].id
    <3>1. PICK R : R = [name : Seq(Byte), value : Seq(Byte), id : Seq(Digits \cup {45})]
      OBVIOUS
    <3>2. EnumCases[c] \in R
      <4>1. EnumCases \in Seq(R)
        BY <3>1, EnumAssumption
      <4>2. c \in 1..Len(EnumCases)
        BY <2>2, <4>1, LenProperties
      <4>. QED  BY <4>1, <4>2, ElementOfSeq
    <3>3. p \in Seq(Digits \cup {45})
      BY <2>4, <3>1, <3>2
    <3>4. \A k \in DOMAIN p : p[k] \in Digits \cup {45}
      BY <3>3, LenProperties, ElementOfSeq
    <3>5. p = t
      BY <1>3, <3>4 DEF Digits, Space
    <3>. QED  BY <1>1, <1>2, <3>5
  <2>. QED  BY <2>2, <2>3, <2>4
<1>. QED  BY <1>4, <1>5, <1>6 DEF Types

-----------------------------------------------------------------------------
(* What a text is shaped into *)

\* No white space at either end.
Inked(t) == t = <<>> \/ (t[1] \notin WhiteSpace /\ t[Len(t)] \notin WhiteSpace)

LEMMA TrimmedIsInked ==
  ASSUME NEW t \in Bytes
  PROVE  Trimmed(t) \in Bytes /\ Inked(Trimmed(t)) /\ (Inked(t) => Trimmed(t) = t)
<1>1. PICK n \in Nat : n = Len(t) /\ DOMAIN t = 1..n
  BY LenProperties DEF Bytes
<1>2. PICK ink : ink = {k \in DOMAIN t : t[k] \notin WhiteSpace}
  OBVIOUS
<1>3. CASE ink = {}
  <2>1. Trimmed(t) = <<>>
    BY <1>2, <1>3 DEF Trimmed
  <2>2. Inked(t) => t = <<>>
    <3>1. ASSUME t # <<>> PROVE 1 \in 1..n /\ n \in 1..n
      <4>1. n # 0
        BY <1>1, <3>1, EmptySeq DEF Bytes
      <4>. QED  BY <4>1
    <3>. QED  BY <1>1, <1>2, <1>3, <3>1 DEF Inked
  <2>. QED  BY <2>1, <2>2, EmptySeq DEF Inked, Bytes
<1>4. CASE ink # {}
  <2>1. ink \subseteq 1..n /\ ink \subseteq Nat
    BY <1>1, <1>2
  <2>2. PICK a, z : a = Min(ink) /\ z = Max(ink)
    OBVIOUS
  <2>3. a \in ink /\ \A k \in ink : a <= k
    <3>1. PICK m \in ink : \A k \in ink : m <= k
      BY <1>4, <2>1, LeastThereIs
    <3>. QED  BY <2>2, <3>1 DEF Min
  <2>4. z \in ink /\ \A k \in ink : k <= z
    <3>1. Top(ink) \in ink /\ \A k \in ink : k <= Top(ink)
      BY <1>4, <2>1, TopIsLast
    <3>2. z = Top(ink)
      BY <2>2 DEF Max, Top
    <3>. QED  BY <3>1, <3>2
  <2>5. a \in 1..n /\ z \in 1..n /\ a <= z
    BY <2>1, <2>3, <2>4
  <2>6. PICK s : s = SubSeq(t, a, z)
    OBVIOUS
  <2>7. Trimmed(t) = s
    BY <1>2, <1>4, <2>2, <2>6 DEF Trimmed
  <2>8. s \in Bytes /\ Len(s) = z + 1 - a /\ \A k \in 1..(z + 1 - a) : s[k] = t[a + k - 1]
    BY <1>1, <2>5, <2>6, SubTextIs
  <2>9. Inked(s)
    <3>1. 1 \in 1..(z + 1 - a) /\ z + 1 - a \in 1..(z + 1 - a) /\ a + 1 - 1 = a /\ a + (z + 1 - a) - 1 = z
      BY <2>5
    <3>2. s[1] = t[a] /\ s[Len(s)] = t[z]
      BY <2>8, <3>1
    <3>. QED  BY <1>2, <2>3, <2>4, <3>2 DEF Inked
  <2>10. ASSUME Inked(t) PROVE s = t
    <3>1. t # <<>>
      BY <1>1, <2>5
    <3>2. 1 \in ink /\ n \in ink
      BY <1>1, <1>2, <2>5, <2>10, <3>1 DEF Inked
    <3>3. a = 1 /\ z = n
      BY <2>3, <2>4, <2>5, <3>2
    <3>4. Len(s) = Len(t) /\ \A k \in 1..Len(s) : s[k] = t[k]
      BY <1>1, <2>8, <3>3
    <3>. QED  BY <2>8, <3>4, SameBytes
  <2>. QED  BY <2>7, <2>8, <2>9, <2>10
<1>. QED  BY <1>3, <1>4

\* A change of letters keeps the length, the white space, and what it has changed.
LEMMA LettersChange ==
  ASSUME NEW t \in Bytes, NEW s, s = All(t, Lower) \/ s = All(t, Upper)
  PROVE  /\ s \in Bytes /\ (Inked(t) => Inked(s))
         /\ s = All(t, Lower) => All(s, Lower) = s
         /\ s = All(t, Upper) => All(s, Upper) = s
<1>1. PICK n \in Nat : n = Len(t) /\ DOMAIN t = 1..n
  BY LenProperties DEF Bytes
<1>2. \A k \in 1..n : t[k] \in Byte
  BY <1>1, ElementOfSeq DEF Bytes
<1>3. \A b \in Byte : /\ Lower(b) \in Byte /\ Lower(Lower(b)) = Lower(b) /\ (b \notin WhiteSpace => Lower(b) \notin WhiteSpace)
                      /\ Upper(b) \in Byte /\ Upper(Upper(b)) = Upper(b) /\ (b \notin WhiteSpace => Upper(b) \notin WhiteSpace)
  <2>. SUFFICES ASSUME NEW x \in Byte
                PROVE  /\ Lower(x) \in Byte /\ Lower(Lower(x)) = Lower(x) /\ (x \notin WhiteSpace => Lower(x) \notin WhiteSpace)
                       /\ Upper(x) \in Byte /\ Upper(Upper(x)) = Upper(x) /\ (x \notin WhiteSpace => Upper(x) \notin WhiteSpace)
    OBVIOUS
  <2>1. x \in Nat /\ x <= 255
    BY DEF Byte
  <2>2. \A y \in 33..255 : y \notin WhiteSpace
    BY DEF WhiteSpace, Space
  <2>3. CASE x \in 65..90
    <3>1. x + 32 \in 97..122 /\ ~(x + 32 \in 65..90) /\ ~(x \in 97..122) /\ x + 32 \in 33..255
      BY <2>3
    <3>2. Lower(x) = x + 32 /\ Upper(x) = x
      BY <2>3, <3>1 DEF Lower, Upper, Capitals
    <3>3. Lower(x + 32) = x + 32
      BY <3>1 DEF Lower, Capitals
    <3>. QED  BY <2>2, <3>1, <3>2, <3>3 DEF Byte
  <2>4. CASE x \in 97..122
    <3>1. x - 32 \in 65..90 /\ ~(x - 32 \in 97..122) /\ ~(x \in 65..90) /\ x - 32 \in 33..255
      BY <2>4
    <3>2. Lower(x) = x /\ Upper(x) = x - 32
      BY <2>4, <3>1 DEF Lower, Upper, Capitals
    <3>3. Upper(x - 32) = x - 32
      <4>1. PICK y \in Nat : y = x - 32
        BY <3>1
      <4>2. ~(y \in 97..122)
        BY <3>1, <4>1
      <4>3. Upper(y) = y
        BY <4>2 DEF Upper
      <4>. QED  BY <4>1, <4>3
    <3>. QED  BY <2>2, <3>1, <3>2, <3>3 DEF Byte
  <2>5. CASE x \notin 65..90 /\ x \notin 97..122
    BY <2>5 DEF Lower, Upper, Capitals
  <2>. QED  BY <2>3, <2>4, <2>5
<1>4. ASSUME s = All(t, Lower) PROVE s = [k \in 1..n |-> Lower(t[k])]
  BY <1>1, <1>4 DEF All
<1>5. ASSUME s = All(t, Upper) PROVE s = [k \in 1..n |-> Upper(t[k])]
  BY <1>1, <1>5 DEF All
<1>6. s \in Bytes /\ Len(s) = n /\ DOMAIN s = 1..n
  <2>1. CASE s = All(t, Lower)
    <3>1. \A k \in 1..n : Lower(t[k]) \in Byte
      BY <1>2, <1>3
    <3>2. s = [k \in 1..n |-> Lower(t[k])]
      BY <1>4, <2>1
    <3>3. s \in [1..n -> Byte]
      BY <3>1, <3>2
    <3>. QED  BY <3>3 DEF Bytes
  <2>2. CASE s = All(t, Upper)
    <3>1. \A k \in 1..n : Upper(t[k]) \in Byte
      BY <1>2, <1>3
    <3>2. s = [k \in 1..n |-> Upper(t[k])]
      BY <1>5, <2>2
    <3>3. s \in [1..n -> Byte]
      BY <3>1, <3>2
    <3>. QED  BY <3>3 DEF Bytes
  <2>. QED  BY <2>1, <2>2
<1>7. ASSUME Inked(t) PROVE Inked(s)
  <2>1. CASE n = 0
    BY <1>6, <2>1, EmptySeq DEF Inked, Bytes
  <2>2. CASE n # 0
    <3>1. 1 \in 1..n /\ n \in 1..n /\ t # <<>>
      BY <1>1, <2>2
    <3>2. t[1] \notin WhiteSpace /\ t[n] \notin WhiteSpace /\ t[1] \in Byte /\ t[n] \in Byte
      BY <1>1, <1>2, <1>7, <3>1 DEF Inked
    <3>3. s[1] \notin WhiteSpace /\ s[n] \notin WhiteSpace
      BY <1>3, <1>4, <1>5, <3>1, <3>2
    <3>. QED  BY <1>6, <3>3 DEF Inked
  <2>. QED  BY <2>1, <2>2
<1>8. ASSUME s = All(t, Lower) PROVE All(s, Lower) = s
  <2>1. \A k \in 1..n : Lower(s[k]) = s[k]
    BY <1>2, <1>3, <1>4, <1>8
  <2>. QED  BY <1>4, <1>6, <1>8, <2>1 DEF All
<1>9. ASSUME s = All(t, Upper) PROVE All(s, Upper) = s
  <2>1. \A k \in 1..n : Upper(s[k]) = s[k]
    BY <1>2, <1>3, <1>5, <1>9
  <2>. QED  BY <1>5, <1>6, <1>9, <2>1 DEF All
<1>. QED  BY <1>6, <1>7, <1>8, <1>9

\* Once a text has been shaped, the same directives change it no more.
LEMMA ShapedOnce ==
  ASSUME NEW f \in Field, NEW t \in Bytes
  PROVE  /\ Transformed(f, t) \in Bytes
         /\ Transformed(f, Transformed(f, t)) = Transformed(f, t)
         /\ ~f.trim /\ f.case = "as is" => Transformed(f, t) = t
<1>1. PICK s : s = IF f.trim THEN Trimmed(t) ELSE t
  OBVIOUS
<1>2. s \in Bytes /\ (f.trim => Inked(s))
  BY <1>1, TrimmedIsInked
<1>3. f.case \in {"as is", "lower", "upper"}
  BY DEF Field
<1>4. PICK u : u = Transformed(f, t)
  OBVIOUS
<1>5. PICK v : v = IF f.trim THEN Trimmed(u) ELSE u
  OBVIOUS
<1>6. ASSUME u \in Bytes, f.trim => Inked(u) PROVE v = u
  BY <1>5, <1>6, TrimmedIsInked
<1>7. CASE f.case = "as is"
  <2>1. u = s
    BY <1>1, <1>4, <1>7 DEF Transformed
  <2>2. Transformed(f, u) = v
    BY <1>5, <1>7 DEF Transformed
  <2>. QED  BY <1>1, <1>2, <1>4, <1>6, <2>1, <2>2
<1>8. CASE f.case = "lower"
  <2>1. u = All(s, Lower)
    BY <1>1, <1>4, <1>8 DEF Transformed
  <2>2. Transformed(f, u) = All(v, Lower)
    BY <1>5, <1>8 DEF Transformed
  <2>3. u \in Bytes /\ (Inked(s) => Inked(u)) /\ All(u, Lower) = u
    BY <1>2, <2>1, LettersChange
  <2>4. v = u
    BY <1>2, <1>6, <2>3
  <2>. QED  BY <1>4, <1>8, <2>2, <2>3, <2>4
<1>9. CASE f.case = "upper"
  <2>1. u = All(s, Upper)
    BY <1>1, <1>4, <1>9 DEF Transformed
  <2>2. Transformed(f, u) = All(v, Upper)
    BY <1>5, <1>9 DEF Transformed
  <2>3. u \in Bytes /\ (Inked(s) => Inked(u)) /\ All(u, Upper) = u
    BY <1>2, <2>1, LettersChange
  <2>4. v = u
    BY <1>2, <1>6, <2>3
  <2>. QED  BY <1>4, <1>9, <2>2, <2>3, <2>4
<1>. QED  BY <1>3, <1>7, <1>8, <1>9

-----------------------------------------------------------------------------
(* What is read of what a field writes *)

LEMMA BoolsAreKept ==
  ASSUME NEW v \in Bytes, Printed("bool", v)
  PROVE  v \in {True, False} /\ EncodePath(v) = v /\ EncodeQuery(v) = v /\ PlusAsSpace(v) = v
<1>1. ToBool(v) = Readable(v)
  BY DEF Printed, Convert
<1>2. v \in {True, False}
  <2>1. ToBool(v) \in {Readable(True), Readable(False), Unreadable}
    BY DEF ToBool
  <2>. QED  BY <1>1, <2>1 DEF Readable, Unreadable
<1>3. AllIn(True, 97..122) /\ AllIn(False, 97..122)
  BY DEF AllIn, True, False
<1>4. AllIn(v, 97..122)
  BY <1>2, <1>3
<1>5. 97..122 \subseteq QueryKept /\ 97..122 \subseteq PathKept
  BY DEF QueryKept, PathKept, Alphanumeric
<1>6. EncodePath(v) = v /\ EncodeQuery(v) = v
  BY <1>4, <1>5, AllInMore, KeptAsItIs
<1>7. PlusAsSpace(v) = v
  <2>1. \A k \in DOMAIN v : v[k] # Plus
    BY <1>4 DEF AllIn, Plus
  <2>2. PICK n \in Nat : n = Len(v) /\ DOMAIN v = 1..n /\ v = [k \in 1..n |-> v[k]]
    BY LenProperties, SeqDef DEF Bytes
  <2>3. PlusAsSpace(v) = [k \in 1..n |-> IF v[k] = Plus THEN Space ELSE v[k]]
    BY <2>2 DEF PlusAsSpace
  <2>. QED  BY <2>1, <2>2, <2>3
<1>. QED  BY <1>2, <1>6, <1>7

\* Directives are for texts.
Shapes(f) == f \in Field /\ (f.type # "text" => ~f.trim /\ f.case = "as is")

LEMMA PathValueRead ==
  ASSUME NEW f, Shapes(f), NEW v \in Bytes, Printed(f.type, v),
         NEW m, m = Transformed(f, v), ConvertEncoded(f.type, EncodePath(m)).ok
  PROVE  Transformed(f, ConvertEncoded(f.type, EncodePath(m)).text) = Transformed(f, PlusAsSpace(m))
<1>1. f \in Field /\ f.type \in Types
  BY DEF Shapes, Field
<1>2. m \in Bytes /\ (f.type # "text" => m = v)
  BY <1>1, ShapedOnce DEF Shapes
<1>3. PICK x : x = ConvertEncoded(f.type, EncodePath(m))
  OBVIOUS
<1>4. CASE f.type = "bool"
  <2>1. EncodePath(v) = v /\ PlusAsSpace(v) = v /\ ToBool(v) = Readable(v)
    BY <1>4, BoolsAreKept DEF Printed, Convert
  <2>2. x = Readable(v)
    BY <1>2, <1>3, <1>4, <2>1 DEF ConvertEncoded
  <2>. QED  BY <1>2, <1>3, <1>4, <2>1, <2>2 DEF Readable
<1>5. CASE f.type # "bool"
  <2>1. Decode(EncodePath(m)) = [ok |-> IsUtf8(PlusAsSpace(m)), text |-> PlusAsSpace(m)]
    BY <1>2, PathReads, CleanIsDecoded
  <2>2. x = Convert(f.type, PlusAsSpace(m)) /\ x.ok
    <3>1. Decode(EncodePath(m)).ok
      BY <1>3, <1>5 DEF ConvertEncoded, Unreadable
    <3>. QED  BY <1>3, <1>5, <2>1, <3>1 DEF ConvertEncoded
  <2>3. x.text = PlusAsSpace(m)
    <3>1. CASE f.type = "text"
      BY <2>2, <3>1 DEF Convert, Readable
    <3>2. CASE f.type # "text"
      BY <1>1, <1>2, <1>5, <2>2, <3>2, PlusesReadBack
    <3>. QED  BY <3>1, <3>2
  <2>. QED  BY <1>3, <2>3
<1>. QED  BY <1>4, <1>5

LEMMA QueryValueRead ==
  ASSUME NEW f, Shapes(f), NEW v \in Bytes, Printed(f.type, v),
         NEW m, m = Transformed(f, v), ConvertEncoded(f.type, EncodeQuery(m)).ok
  PROVE  Transformed(f, ConvertEncoded(f.type, EncodeQuery(m)).text) = m
<1>1. f \in Field /\ f.type \in Types
  BY DEF Shapes, Field
<1>2. m \in Bytes /\ (f.type # "text" => m = v) /\ Transformed(f, m) = m
  BY <1>1, ShapedOnce DEF Shapes
<1>3. PICK x : x = ConvertEncoded(f.type, EncodeQuery(m))
  OBVIOUS
<1>4. CASE f.type = "bool"
  <2>1. EncodeQuery(v) = v /\ ToBool(v) = Readable(v)
    BY <1>4, BoolsAreKept DEF Printed, Convert
  <2>2. x = Readable(v)
    BY <1>2, <1>3, <1>4, <2>1 DEF ConvertEncoded
  <2>. QED  BY <1>2, <1>3, <1>4, <2>1, <2>2 DEF Readable
<1>5. CASE f.type # "bool"
  <2>1. Decode(EncodeQuery(m)) = [ok |-> IsUtf8(m), text |-> m]
    BY <1>2, QueryReads, CleanIsDecoded
  <2>2. x = Convert(f.type, m) /\ x.ok
    <3>1. Decode(EncodeQuery(m)).ok
      BY <1>3, <1>5 DEF ConvertEncoded, Unreadable
    <3>. QED  BY <1>3, <1>5, <2>1, <3>1 DEF ConvertEncoded
  <2>3. x.text = m
    <3>1. CASE f.type = "text"
      BY <2>2, <3>1 DEF Convert, Readable
    <3>2. CASE f.type # "text"
      BY <1>2, <2>2, <3>2 DEF Printed, Readable
    <3>. QED  BY <3>1, <3>2
  <2>. QED  BY <1>2, <1>3, <2>3
<1>. QED  BY <1>4, <1>5

-----------------------------------------------------------------------------
(* A path, segment by segment *)

LEMMA SomethingStays == \A t \in Bytes : t # <<>> => EncodePath(t) # <<>>
<1> DEFINE S == {t \in Bytes : t # <<>> => EncodePath(t) # <<>>}
<1>1. <<>> \in S
  BY EmptySeq DEF Bytes
<1>2. ASSUME NEW t \in Seq(Byte), NEW b \in Byte, t \in S PROVE Append(t, b) \in S
  <2>1. t \in Bytes /\ Append(t, b) \in Bytes
    BY AppendProperties DEF Bytes
  <2>2. PICK e, w : e = EncodePath(t) /\ w = InPath(b)
    OBVIOUS
  <2>3. e \in Bytes /\ w \in Bytes /\ EncodePath(Append(t, b)) = e \o w
    BY <2>1, <2>2, Encodes, WrittenIsBytes
  <2>4. Len(w) >= 1
    BY <2>2 DEF InPath, Escape
  <2>5. Len(e \o w) = Len(e) + Len(w) /\ Len(e) \in Nat /\ Len(w) \in Nat
    BY <2>3, ConcatProperties, LenProperties DEF Bytes
  <2>6. Len(e \o w) # 0
    BY <2>4, <2>5
  <2>7. e \o w # <<>>
    BY <2>6
  <2>. QED  BY <2>1, <2>3, <2>7
<1> HIDE DEF S
<1>3. Bytes \subseteq S
  BY <1>1, <1>2, EverySequence DEF Bytes
<1>. QED  BY <1>3 DEF S

\* A text that is there and has no c does not end in one, nor begin with one.
LEMMA NoMarkAtEnds ==
  ASSUME NEW t \in Bytes, NEW c \in Byte, NoneOf(t, c)
  PROVE  ~IsPrefix(<<c>>, t) /\ ~IsSuffix(<<c>>, t) /\ (t # <<>> => t[Len(t)] # c)
<1>1. PICK n \in Nat : n = Len(t) /\ DOMAIN t = 1..n
  BY LenProperties DEF Bytes
<1>2. t # <<>> => n \in 1..n
  BY <1>1, EmptySeq DEF Bytes
<1>3. t # <<>> => t[n] # c
  BY <1>1, <1>2 DEF NoneOf
<1>. QED  BY <1>1, <1>3, BeginsWith, EndsWith DEF NoneOf

\* A path that is cut into these segments.
IsPathOf(p, parts) ==
  IF parts = <<>> THEN p = <<>>
  ELSE \E t \in Bytes : p = <<Slash>> \o t /\ t # <<>> /\ t[Len(t)] # Slash /\ Split(t, Slash) = parts

LEMMA SegmentIsWritten ==
  ASSUME NEW p \in Bytes, NEW m \in Bytes, NoneOf(p, Question)
  PROVE  AppendPathSegment(p, m) \in Bytes /\ NoneOf(AppendPathSegment(p, m), Question)
<1>1. Slash \in Byte /\ Question \in Byte /\ Slash # Question
  BY DEF Slash, Question, Byte
<1>2. PICK q : q = IF IsSuffix(<<Slash>>, p) THEN p ELSE Append(p, Slash)
  OBVIOUS
<1>3. PICK s : s = IF IsPrefix(<<Slash>>, m) THEN Tail(m) ELSE m
  OBVIOUS
<1>4. s \in Bytes
  <2>1. CASE IsPrefix(<<Slash>>, m)
    <3>1. 1 \in DOMAIN m
      BY <1>1, <2>1, BeginsWith
    <3>2. m # <<>>
      BY <3>1
    <3>. QED  BY <1>3, <2>1, <3>2, HeadTailProperties DEF Bytes
  <2>2. CASE ~IsPrefix(<<Slash>>, m)
    BY <1>3, <2>2
  <2>. QED  BY <2>1, <2>2
<1>5. q \in Bytes /\ NoneOf(q, Question)
  <2>1. Append(p, Slash) \in Bytes
    BY <1>1, AppendProperties DEF Bytes
  <2>2. AllIn(p, Byte \ {Question}) /\ Slash \in Byte \ {Question}
    BY <1>1, NoneIsAllIn
  <2>3. AllIn(Append(p, Slash), Byte \ {Question})
    BY <1>1, <2>2, AllInOne
  <2>4. NoneOf(Append(p, Slash), Question)
    BY <2>1, <2>3, NoneIsAllIn
  <2>. QED  BY <1>2, <2>1, <2>4
<1>6. PICK e \in Bytes : e = EncodePath(s)
  BY <1>1, <1>4, Encodes
<1>7. NoneOf(e, Question)
  BY <1>4, <1>6, NoMarks
<1>8. q \o e \in Bytes
  BY <1>5, <1>6, ConcatProperties DEF Bytes
<1>9. AllIn(q \o e, Byte \ {Question})
  <2>1. AllIn(q, Byte \ {Question}) /\ AllIn(e, Byte \ {Question})
    BY <1>5, <1>7, NoneIsAllIn
  <2>. QED  BY <1>5, <2>1, AllInBoth
<1>10. AppendPathSegment(p, m) = q \o e
  BY <1>2, <1>3, <1>6 DEF AppendPathSegment
<1>. QED  BY <1>8, <1>9, <1>10, NoneIsAllIn

LEMMA SegmentGoesOn ==
  ASSUME NEW p \in Bytes, NEW parts \in Seq(Bytes), IsPathOf(p, parts), NEW m \in Bytes, FitsASegment(m)
  PROVE  IsPathOf(AppendPathSegment(p, m), Append(parts, EncodePath(m)))
<1>1. Slash \in Byte
  BY DEF Slash, Byte
<1>2. PICK e \in Bytes : e = EncodePath(m)
  BY <1>1, Encodes
<1>3. NoneOf(m, Slash) /\ m # <<>>
  BY DEF FitsASegment, NoneOf
<1>4. NoneOf(e, Slash) /\ e # <<>>
  BY <1>2, <1>3, NoMarks, SomethingStays
<1>5. e[Len(e)] # Slash
  BY <1>1, <1>4, NoMarkAtEnds
<1>6. AppendPathSegment(p, m) = (IF IsSuffix(<<Slash>>, p) THEN p ELSE Append(p, Slash)) \o e
  <2>1. ~IsPrefix(<<Slash>>, m)
    BY <1>1, <1>3, NoMarkAtEnds
  <2>. QED  BY <1>2, <2>1 DEF AppendPathSegment
<1>7. Append(parts, e) # <<>>
  BY <1>2, AppendProperties
<1>8. <<Slash>> \in Bytes
  BY <1>1, PutBehind DEF Bytes
<1>9. CASE parts = <<>>
  <2>1. p = <<>>
    BY <1>9 DEF IsPathOf
  <2>2. ~IsSuffix(<<Slash>>, p)
    BY <1>1, <2>1, EndsWith
  <2>3. Append(p, Slash) = <<Slash>>
    BY <2>1
  <2>4. AppendPathSegment(p, m) = <<Slash>> \o e
    BY <1>6, <2>2, <2>3
  <2>5. Split(e, Slash) = <<e>>
    BY <1>1, <1>4, SplitAtOne
  <2>6. Append(parts, e) = <<e>>
    BY <1>9
  <2>. QED  BY <1>2, <1>4, <1>5, <1>7, <2>4, <2>5, <2>6 DEF IsPathOf
<1>10. CASE parts # <<>>
  <2>1. PICK t \in Bytes : p = <<Slash>> \o t /\ t # <<>> /\ t[Len(t)] # Slash /\ Split(t, Slash) = parts
    BY <1>10 DEF IsPathOf
  <2>2. PICK n \in Nat : n = Len(t)
    BY LenProperties DEF Bytes
  <2>3. n # 0
    BY <2>1, <2>2, EmptySeq DEF Bytes
  <2>4. Len(p) = 1 + n /\ p[1 + n] = t[n]
    <3>1. /\ Len(<<Slash>> \o t) = Len(<<Slash>>) + Len(t)
          /\ \A k \in 1..(Len(<<Slash>>) + Len(t)) :
               (<<Slash>> \o t)[k] = IF k <= Len(<<Slash>>) THEN <<Slash>>[k] ELSE t[k - Len(<<Slash>>)]
      BY <1>8, ConcatProperties DEF Bytes
    <3>2. Len(<<Slash>>) = 1
      OBVIOUS
    <3>3. Len(p) = 1 + n /\ \A k \in 1..(1 + n) : p[k] = IF k <= 1 THEN <<Slash>>[k] ELSE t[k - 1]
      BY <2>1, <2>2, <3>1, <3>2
    <3>4. 1 + n \in 1..(1 + n) /\ ~(1 + n <= 1) /\ (1 + n) - 1 = n
      BY <2>3
    <3>. QED  BY <3>3, <3>4
  <2>5. ~IsSuffix(<<Slash>>, p)
    BY <1>1, <2>1, <2>2, <2>4, EndsWith
  <2>6. Append(p, Slash) = <<Slash>> \o Append(t, Slash)
    BY <1>1, <1>8, <2>1, PutBehind DEF Bytes
  <2>7. PICK u \in Bytes : u = Append(t, Slash)
    BY <1>1, AppendProperties DEF Bytes
  <2>8. (<<Slash>> \o u) \o e = <<Slash>> \o (u \o e)
    BY <1>8, ConcatAssociative DEF Bytes
  <2>9. AppendPathSegment(p, m) = <<Slash>> \o (u \o e)
    BY <1>6, <2>5, <2>6, <2>7, <2>8
  <2>10. u \o e \in Bytes /\ Split(u \o e, Slash) = Append(parts, e)
    BY <1>1, <1>4, <2>1, <2>7, SplitAtOne
  <2>11. u \o e # <<>> /\ (u \o e)[Len(u \o e)] = e[Len(e)]
    <3>1. PICK a, b \in Nat : a = Len(u) /\ b = Len(e)
      BY LenProperties DEF Bytes
    <3>2. b # 0
      BY <1>4, <3>1, EmptySeq DEF Bytes
    <3>3. Len(u \o e) = a + b /\ \A k \in 1..(a + b) : (u \o e)[k] = IF k <= a THEN u[k] ELSE e[k - a]
      BY <3>1, ConcatProperties DEF Bytes
    <3>4. a + b \in 1..(a + b) /\ ~(a + b <= a) /\ (a + b) - a = b /\ a + b # 0
      BY <3>1, <3>2
    <3>. QED  BY <3>1, <3>3, <3>4
  <2>. QED  BY <1>2, <1>5, <1>7, <2>9, <2>10, <2>11 DEF IsPathOf
<1>. QED  BY <1>9, <1>10

-----------------------------------------------------------------------------
(* What is known of a model and its fields *)

LEMMA CaseIs ==
  ASSUME NEW c \in Cases
  PROVE  /\ c.client \in {"ours", "other", "broken"} /\ c.fields \in Seq(Field)
         /\ c.values \in [DOMAIN c.fields -> Seq(Bytes)]
         /\ c.client = "broken" => c.fields # <<>>
BY RequestAssumption DEF Bytes

FieldIsFit(c, k) ==
  LET f == c.fields[k] IN
  /\ f \in Field /\ c.values[k] \in Seq(Bytes)
  /\ Compiles(f) /\ ~IsSuffix(Brackets, f.name) /\ HasValuesOf(f, c.values[k], c.client)
  /\ \A j \in DOMAIN f.default : Printed(f.type, f.default[j]) /\ Accepts(f, f.default[j])
  /\ CASE c.client = "ours" -> f.source # "file"
       [] c.client = "other" -> f.source \in {"query", "form", "file", "body"} /\ f.kind # "vec"
       [] c.client = "broken" -> f.source = "query"

LEMMA FieldIs ==
  ASSUME NEW c \in Cases, NEW k \in DOMAIN c.fields
  PROVE  FieldIsFit(c, k)
<1>1. c.fields \in Seq(Field) /\ c.values \in [DOMAIN c.fields -> Seq(Bytes)]
  BY CaseIs
<1>2. c.fields[k] \in Field
  <2>1. k \in 1..Len(c.fields)
    BY <1>1, LenProperties
  <2>. QED  BY <1>1, <2>1, ElementOfSeq
<1>3. c.values[k] \in Seq(Bytes)
  BY <1>1
<1>4. /\ Compiles(c.fields[k]) /\ ~IsSuffix(Brackets, c.fields[k].name)
      /\ HasValuesOf(c.fields[k], c.values[k], c.client)
      /\ \A j \in DOMAIN c.fields[k].default :
           Printed(c.fields[k].type, c.fields[k].default[j]) /\ Accepts(c.fields[k], c.fields[k].default[j])
  BY RequestAssumption
<1>5. (CASE c.client = "ours" -> c.fields[k].source # "file"
        [] c.client = "other" -> c.fields[k].source \in {"query", "form", "file", "body"} /\ c.fields[k].kind # "vec"
        [] c.client = "broken" -> c.fields[k].source = "query")
  BY RequestAssumption
<1>. QED  BY <1>2, <1>3, <1>4, <1>5 DEF FieldIsFit

LEMMA FieldShapes ==
  ASSUME NEW c \in Cases, NEW k \in DOMAIN c.fields
  PROVE  Shapes(c.fields[k])
<1>1. c.fields[k] \in Field /\ Compiles(c.fields[k])
  BY FieldIs DEF FieldIsFit
<1>2. c.fields[k].trim \in BOOLEAN
  BY <1>1 DEF Field
<1>. QED  BY <1>1, <1>2 DEF Shapes, Compiles

\* A field of a path has one value, of our own client.
LEMMA PathFieldIs ==
  ASSUME NEW c \in Cases, NEW k \in DOMAIN c.fields, c.fields[k].source = "path"
  PROVE  /\ c.client = "ours" /\ c.fields[k].kind = "one"
         /\ \E v \in Bytes : c.values[k] = <<v>> /\ Printed(c.fields[k].type, v)
<1>1. c.client = "ours"
  BY CaseIs, FieldIs DEF FieldIsFit
<1>2. c.fields[k].kind = "one" /\ c.values[k] \in Seq(Bytes) /\ HasValuesOf(c.fields[k], c.values[k], c.client)
  BY FieldIs DEF FieldIsFit, Compiles
<1>3. Len(c.values[k]) = 1 /\ \A j \in DOMAIN c.values[k] : Printed(c.fields[k].type, c.values[k][j])
  BY <1>1, <1>2 DEF HasValuesOf
<1>4. PICK vs \in Seq(Bytes) : vs = c.values[k]
  BY <1>2
<1>5. 1 \in DOMAIN vs /\ vs[1] \in Bytes /\ vs = <<vs[1]>>
  BY <1>3, <1>4, LenProperties, ElementOfSeq
<1>. QED  BY <1>1, <1>2, <1>3, <1>4, <1>5

-----------------------------------------------------------------------------
(* The loops over values, bytes and pairs *)

AmpersandIsByte == Ampersand \in Byte /\ Equals \in Byte /\ Question \in Byte /\ Percent \in Byte /\ Plus \in Byte

LEMMA MarksAreBytes == AmpersandIsByte
BY DEF AmpersandIsByte, Ampersand, Equals, Question, Percent, Plus, Byte

Associates(s, t, u) == (s \o t) \o u = s \o (t \o u)

LEMMA Concatenates ==
  ASSUME NEW s \in Bytes, NEW t \in Bytes, NEW u \in Bytes
  PROVE  Associates(s, t, u)
<1>1. s \in Seq(Byte) /\ t \in Seq(Byte) /\ u \in Seq(Byte)
  BY DEF Bytes
<1>. QED  BY <1>1, ConcatAssociative DEF Associates

LEMMA ParamIsBytes ==
  ASSUME NEW q \in Bytes, NEW name \in Bytes, NEW w \in Bytes
  PROVE  /\ EncodeQuery(name) \o <<Equals>> \in Bytes
         /\ (EncodeQuery(name) \o <<Equals>>) \o w \in Bytes
         /\ AppendQueryParam(q, name, w) \in Bytes
<1>1. PICK n \in Bytes : n = EncodeQuery(name)
  BY MarksAreBytes, Encodes DEF AmpersandIsByte
<1>2. PICK e \in Bytes : e = <<Equals>>
  BY MarksAreBytes, PutBehind DEF AmpersandIsByte, Bytes
<1>3. n \o e \in Bytes /\ (n \o e) \o w \in Bytes
  BY ConcatProperties DEF Bytes
<1>4. PICK u \in Bytes : u = IF q = <<>> THEN q ELSE Append(q, Ampersand)
  BY MarksAreBytes, AppendProperties DEF AmpersandIsByte, Bytes
<1>5. AppendQueryParam(q, name, w) = ((u \o n) \o e) \o w
  BY <1>1, <1>2, <1>4 DEF AppendQueryParam
<1>6. ((u \o n) \o e) \o w \in Bytes
  BY ConcatProperties DEF Bytes
<1>. QED  BY <1>1, <1>2, <1>3, <1>5, <1>6

LEMMA ParamIsFirst ==
  ASSUME NEW q \in Bytes, NEW name \in Bytes, NEW w \in Bytes, q = <<>>
  PROVE  AppendQueryParam(q, name, w) = (EncodeQuery(name) \o <<Equals>>) \o w
<1>1. PICK n \in Bytes : n = EncodeQuery(name)
  BY MarksAreBytes, Encodes DEF AmpersandIsByte
<1>2. q \o n = n
  BY PutBehind DEF Bytes
<1>3. AppendQueryParam(q, name, w) = ((q \o n) \o <<Equals>>) \o w
  BY <1>1 DEF AppendQueryParam
<1>. QED  BY <1>1, <1>2, <1>3

LEMMA ParamIsBehind ==
  ASSUME NEW q \in Bytes, NEW name \in Bytes, NEW w \in Bytes, q # <<>>
  PROVE  AppendQueryParam(q, name, w) = Append(q, Ampersand) \o ((EncodeQuery(name) \o <<Equals>>) \o w)
<1>1. PICK n \in Bytes : n = EncodeQuery(name)
  BY MarksAreBytes, Encodes DEF AmpersandIsByte
<1>2. PICK e \in Bytes : e = <<Equals>>
  BY MarksAreBytes, PutBehind DEF AmpersandIsByte, Bytes
<1>3. PICK u \in Bytes : u = Append(q, Ampersand)
  BY MarksAreBytes, AppendProperties DEF AmpersandIsByte, Bytes
<1>4. PICK m \in Bytes : m = n \o e
  BY ConcatProperties DEF Bytes
<1>5. AppendQueryParam(q, name, w) = ((u \o n) \o e) \o w
  BY <1>1, <1>2, <1>3 DEF AppendQueryParam
<1>6. (u \o n) \o e = u \o m
  <2>1. Associates(u, n, e)
    BY Concatenates
  <2>. QED  BY <1>4, <2>1 DEF Associates
<1>7. (u \o m) \o w = u \o (m \o w)
  <2>1. Associates(u, m, w)
    BY Concatenates
  <2>. QED  BY <2>1 DEF Associates
<1>8. AppendQueryParam(q, name, w) = u \o (m \o w)
  BY <1>5, <1>6, <1>7
<1>9. m = EncodeQuery(name) \o <<Equals>>
  BY <1>1, <1>2, <1>4
<1>. QED  BY <1>3, <1>8, <1>9

\* The values of a field, one after the other.
Filler(name) == [p \in Bytes \X Bytes |-> AppendQueryParam(p[1], name, EncodeQuery(p[2]))]

LEMMA FillerFills ==
  ASSUME NEW name \in Bytes
  PROVE  IsStep(Filler(name), Bytes, Bytes)
<1>1. ASSUME NEW q \in Bytes, NEW t \in Bytes
      PROVE  AppendQueryParam(q, name, EncodeQuery(t)) \in Bytes
  <2>1. EncodeQuery(t) \in Bytes
    BY MarksAreBytes, Encodes DEF AmpersandIsByte
  <2>. QED  BY <2>1, ParamIsBytes
<1>. QED  BY <1>1 DEF Filler, IsStep

LEMMA ValuesAreWritten ==
  ASSUME NEW q \in Bytes, NEW name \in Bytes, NEW values \in Seq(Bytes)
  PROVE  Loops(AppendQueryValues(q, name, values), Filler(name), Bytes, q, values)
<1>1. PICK n \in Nat : n = Len(values) /\ DOMAIN values = 1..n
  BY LenProperties DEF IsStep
<1> DEFINE Body(it) == [S \in SUBSET (1..n) |-> IF S = {} THEN q ELSE AppendQueryParam(it[S \ {Top(S)}], name, EncodeQuery(values[Top(S)]))]
<1>2. \A k \in 1..n : values[k] \in Bytes
  BY <1>1, ElementOfSeq DEF IsStep
<1>3. PICK first \in Bytes : first = q
  OBVIOUS
<1>4. PICK it \in [SUBSET (1..n) -> Bytes] : IsFoldOver(it, Filler(name), first, values)
  BY <1>1, FillerFills, FoldOverExists DEF IsStep
<1>5. ASSUME NEW S \in SUBSET (1..n), S # {}, NEW c, c[S \ {Top(S)}] \in Bytes
      PROVE  Filler(name)[<<c[S \ {Top(S)}], values[Top(S)]>>] = AppendQueryParam(c[S \ {Top(S)}], name, EncodeQuery(values[Top(S)]))
  <2>1. values[Top(S)] \in Bytes
    BY <1>2, <1>5, TopIsLast
  <2>. QED  BY <1>5, <2>1 DEF Filler
<1>6. it = Body(it)
  <2>1. ASSUME NEW S \in SUBSET (1..n), S # {}
        PROVE  it[S] = AppendQueryParam(it[S \ {Top(S)}], name, EncodeQuery(values[Top(S)]))
    <3>1. it[S \ {Top(S)}] \in Bytes
      BY <1>4
    <3>2. it[S] = Filler(name)[<<it[S \ {Top(S)}], values[Top(S)]>>]
      BY <1>1, <1>4, <2>1 DEF IsFoldOver
    <3>. QED  BY <1>5, <2>1, <3>1, <3>2
  <2>2. it[{}] = q
    BY <1>1, <1>3, <1>4 DEF IsFoldOver
  <2>. QED  BY <1>4, <2>1, <2>2
<1>7. PICK c : c = CHOOSE x : x = Body(x)
  OBVIOUS
<1>8. c = Body(c)
  BY <1>6, <1>7
<1>9. AppendQueryValues(q, name, values) = c[1..n]
  BY <1>1, <1>7 DEF AppendQueryValues, FoldLeft, MapThenFoldSet, Top, Max
<1>10. FoldsOver(c, Bytes, Filler(name), first, values)
  <2>1. c[{}] = first
    BY <1>3, <1>8
  <2>2. ASSUME NEW S \in SUBSET (1..n), S # {}, c[S \ {Top(S)}] \in Bytes
        PROVE  c[S] = Filler(name)[<<c[S \ {Top(S)}], values[Top(S)]>>]
    <3>1. c[S] = AppendQueryParam(c[S \ {Top(S)}], name, EncodeQuery(values[Top(S)]))
      BY <1>8, <2>2
    <3>. QED  BY <1>5, <2>2, <3>1
  <2>. QED  BY <1>1, <2>1, <2>2 DEF FoldsOver
<1>11. Loops(c[1..n], Filler(name), Bytes, first, values)
  BY <1>1, <1>10, FillerFills, FoldLoops DEF IsStep
<1>. QED  BY <1>3, <1>9, <1>11

LEMMA FillsValues ==
  ASSUME NEW q \in Bytes, NEW name \in Bytes, NEW values \in Seq(Bytes), NEW t \in Bytes
  PROVE  /\ AppendQueryValues(q, name, <<>>) = q
         /\ AppendQueryValues(q, name, values) \in Bytes
         /\ AppendQueryValues(q, name, Append(values, t)) =
              AppendQueryParam(AppendQueryValues(q, name, values), name, EncodeQuery(t))
<1>1. <<>> \in Seq(Bytes) /\ Append(values, t) \in Seq(Bytes)
  BY AppendProperties, EmptySeq
<1>2. AppendQueryValues(q, name, <<>>) = q
  BY <1>1, ValuesAreWritten, LoopBegins
<1>3. PICK v, w : v = AppendQueryValues(q, name, values) /\ w = AppendQueryValues(q, name, Append(values, t))
  OBVIOUS
<1>4. Loops(v, Filler(name), Bytes, q, values) /\ Loops(w, Filler(name), Bytes, q, Append(values, t))
  BY <1>1, <1>3, ValuesAreWritten
<1>5. IsStep(Filler(name), Bytes, Bytes)
  BY FillerFills
<1>6. v \in Bytes /\ w = Filler(name)[<<v, t>>]
  BY <1>4, <1>5, LoopGoesOn
<1>. QED  BY <1>2, <1>3, <1>6 DEF Filler

\* The ways to spell a text.
Speller == [p \in (SUBSET Bytes) \X Byte |-> SpeltOn(p[1], p[2])]

LEMMA SpellingsAreBytes ==
  ASSUME NEW b \in Byte
  PROVE  Spellings(b) \subseteq Bytes
<1>1. Escape(b) \in Bytes /\ <<b>> \in Bytes /\ <<Plus>> \in Bytes
  BY MarksAreBytes, WrittenIsBytes, PutBehind DEF AmpersandIsByte, Bytes
<1>2. LowerHex(Escape(b)) \in Bytes
  <2>1. PICK n \in Nat : n = Len(Escape(b)) /\ DOMAIN Escape(b) = 1..n
    BY <1>1, LenProperties DEF Bytes
  <2>2. \A k \in 1..n : Escape(b)[k] \in Byte
    BY <1>1, <2>1, ElementOfSeq DEF Bytes
  <2>3. \A x \in Byte : Lower(x) \in Byte
    BY DEF Lower, Capitals, Byte
  <2>4. [k \in 1..n |-> IF k > 1 THEN Lower(Escape(b)[k]) ELSE Escape(b)[k]] \in [1..n -> Byte]
    BY <2>2, <2>3
  <2>. QED  BY <2>1, <2>4 DEF LowerHex, Bytes
<1>. QED  BY <1>1, <1>2 DEF Spellings

LEMMA SpellerSpells == {<<>>} \in SUBSET Bytes /\ Speller \in [(SUBSET Bytes) \X Byte -> SUBSET Bytes]
<1>1. {<<>>} \in SUBSET Bytes
  BY EmptySeq DEF Bytes
<1>2. ASSUME NEW ws \in SUBSET Bytes, NEW b \in Byte
      PROVE  SpeltOn(ws, b) \in SUBSET Bytes
  <2>. SUFFICES ASSUME NEW x \in SpeltOn(ws, b) PROVE x \in Bytes
    OBVIOUS
  <2>1. PICK p \in ws \X Spellings(b) : x = p[1] \o p[2]
    BY DEF SpeltOn
  <2>2. p[1] \in Bytes /\ p[2] \in Bytes
    BY <2>1, SpellingsAreBytes
  <2>. QED  BY <2>1, <2>2, ConcatProperties DEF Bytes
<1>. QED  BY <1>1, <1>2 DEF Speller

LEMMA TextIsSpelt ==
  ASSUME NEW t \in Bytes
  PROVE  Loops(Spelt(t), Speller, (SUBSET Bytes), {<<>>}, t)
<1>1. PICK n \in Nat : n = Len(t) /\ DOMAIN t = 1..n
  BY LenProperties DEF Bytes
<1> DEFINE Body(it) == [S \in SUBSET (1..n) |-> IF S = {} THEN {<<>>} ELSE SpeltOn(it[S \ {Top(S)}], t[Top(S)])]
<1>2. \A k \in 1..n : t[k] \in Byte
  BY <1>1, ElementOfSeq DEF Bytes
<1>3. PICK first \in (SUBSET Bytes) : first = {<<>>}
  BY SpellerSpells
<1>4. PICK it \in [SUBSET (1..n) -> (SUBSET Bytes)] : IsFoldOver(it, Speller, first, t)
  BY <1>1, SpellerSpells, FoldOverExists DEF Bytes
<1>5. ASSUME NEW S \in SUBSET (1..n), S # {}, NEW c, c[S \ {Top(S)}] \in (SUBSET Bytes)
      PROVE  Speller[<<c[S \ {Top(S)}], t[Top(S)]>>] = SpeltOn(c[S \ {Top(S)}], t[Top(S)])
  <2>1. t[Top(S)] \in Byte
    BY <1>2, <1>5, TopIsLast
  <2>. QED  BY <1>5, <2>1 DEF Speller
<1>6. it = Body(it)
  <2>1. ASSUME NEW S \in SUBSET (1..n), S # {}
        PROVE  it[S] = SpeltOn(it[S \ {Top(S)}], t[Top(S)])
    <3>1. it[S \ {Top(S)}] \in (SUBSET Bytes)
      BY <1>4
    <3>2. it[S] = Speller[<<it[S \ {Top(S)}], t[Top(S)]>>]
      BY <1>1, <1>4, <2>1 DEF IsFoldOver
    <3>. QED  BY <1>5, <2>1, <3>1, <3>2
  <2>2. it[{}] = {<<>>}
    BY <1>1, <1>3, <1>4 DEF IsFoldOver
  <2>. QED  BY <1>4, <2>1, <2>2
<1>7. PICK c : c = CHOOSE x : x = Body(x)
  OBVIOUS
<1>8. c = Body(c)
  BY <1>6, <1>7
<1>9. Spelt(t) = c[1..n]
  BY <1>1, <1>7 DEF Spelt, FoldLeft, MapThenFoldSet, Top, Max
<1>10. FoldsOver(c, (SUBSET Bytes), Speller, first, t)
  <2>1. c[{}] = first
    BY <1>3, <1>8
  <2>2. ASSUME NEW S \in SUBSET (1..n), S # {}, c[S \ {Top(S)}] \in (SUBSET Bytes)
        PROVE  c[S] = Speller[<<c[S \ {Top(S)}], t[Top(S)]>>]
    <3>1. c[S] = SpeltOn(c[S \ {Top(S)}], t[Top(S)])
      BY <1>8, <2>2
    <3>. QED  BY <1>5, <2>2, <3>1
  <2>. QED  BY <1>1, <2>1, <2>2 DEF FoldsOver
<1>11. Loops(c[1..n], Speller, (SUBSET Bytes), first, t)
  BY <1>1, <1>10, SpellerSpells, FoldLoops DEF Bytes
<1>. QED  BY <1>3, <1>9, <1>11

LEMMA Spells ==
  ASSUME NEW t \in Bytes, NEW b \in Byte
  PROVE  /\ Spelt(<<>>) = {<<>>} /\ Spelt(t) \subseteq Bytes
         /\ Spelt(Append(t, b)) = SpeltOn(Spelt(t), b)
<1>1. <<>> \in Bytes /\ Append(t, b) \in Bytes
  BY AppendProperties, EmptySeq DEF Bytes
<1>2. Spelt(<<>>) = {<<>>}
  BY <1>1, TextIsSpelt, LoopBegins
<1>3. PICK first, v, w : first = {<<>>} /\ v = Spelt(t) /\ w = Spelt(Append(t, b))
  OBVIOUS
<1>4. PICK X : X = SUBSET Bytes
  OBVIOUS
<1>5. Loops(v, Speller, X, first, t) /\ Loops(w, Speller, X, first, Append(t, b))
  BY <1>1, <1>3, <1>4, TextIsSpelt
<1>6. t \in Seq(Byte) /\ first \in X /\ IsStep(Speller, X, Byte)
  BY <1>3, <1>4, SpellerSpells DEF Bytes, IsStep
<1>7. v \in X /\ w = Speller[<<v, b>>]
  BY <1>5, <1>6, LoopGoesOn
<1>. QED  BY <1>2, <1>3, <1>4, <1>7 DEF Speller

\* The pairs of a query, and the values of a name among them.
Pair == [key : [ok : BOOLEAN, text : Bytes], value : Bytes]
PairOf(part) == [key |-> Decode(Before(part, Equals)), value |-> Behind(part, Equals)]
WithPart(pairs, part) == IF part = <<>> THEN pairs ELSE Append(pairs, PairOf(part))
WithValue(values, pair, name) == IF PairName(pair.key.text) = name THEN Append(values, pair.value) ELSE values

PairReader == [p \in Seq(Pair) \X Bytes |-> WithPart(p[1], p[2])]
ValueReader(name) == [p \in Seq(Bytes) \X Pair |-> WithValue(p[1], p[2], name)]

\* QueryPairs of a query that is cut into these parts, and GetVec of these pairs.
PairsOf(parts) ==
  FoldLeft(LAMBDA pairs, p : IF p = <<>> THEN pairs
                             ELSE Append(pairs, [key |-> Decode(Before(p, Equals)), value |-> Behind(p, Equals)]),
           <<>>, parts)
ValuesOf(pairs, name) ==
  FoldLeft(LAMBDA values, p : IF PairName(p.key.text) = name THEN Append(values, p.value) ELSE values, <<>>, pairs)

LEMMA PairIs == \A part \in Bytes : PairOf(part) \in Pair
<1>. SUFFICES ASSUME NEW part \in Bytes PROVE PairOf(part) \in Pair
  OBVIOUS
<1>1. PICK a, b \in Bytes : a = Before(part, Equals) /\ b = Behind(part, Equals)
  BY MarksAreBytes, CutIsBytes DEF AmpersandIsByte
<1>2. Decoded(a) \in State
  BY MarksAreBytes, Reads DEF AmpersandIsByte
<1>3. PICK s \in State : s = Decoded(a)
  BY <1>2
<1>4. Decode(a) = [ok |-> ~s.failed /\ s.escape = <<>> /\ IsUtf8(s.bytes), text |-> s.bytes]
  BY <1>3 DEF Decode, Decoded
<1>5. (~s.failed /\ s.escape = <<>> /\ IsUtf8(s.bytes)) \in BOOLEAN
  BY DEF IsUtf8
<1>6. Decode(a) \in [ok : BOOLEAN, text : Bytes]
  BY <1>4, <1>5 DEF State
<1>. QED  BY <1>1, <1>6 DEF PairOf, Pair

LEMMA PairsAreRead == <<>> \in Seq(Pair) /\ PairReader \in [Seq(Pair) \X Bytes -> Seq(Pair)]
<1>1. ASSUME NEW pairs \in Seq(Pair), NEW part \in Bytes PROVE WithPart(pairs, part) \in Seq(Pair)
  <2>1. Append(pairs, PairOf(part)) \in Seq(Pair)
    BY PairIs, AppendProperties
  <2>. QED  BY <2>1 DEF WithPart
<1>. QED  BY <1>1, EmptySeq DEF PairReader

LEMMA ValuesAreRead ==
  ASSUME NEW name
  PROVE  <<>> \in Seq(Bytes) /\ IsStep(ValueReader(name), Seq(Bytes), Pair)
<1>1. ASSUME NEW values \in Seq(Bytes), NEW pair \in Pair PROVE WithValue(values, pair, name) \in Seq(Bytes)
  <2>1. Append(values, pair.value) \in Seq(Bytes)
    BY AppendProperties DEF Pair
  <2>. QED  BY <2>1 DEF WithValue
<1>. QED  BY <1>1, EmptySeq DEF ValueReader, IsStep

LEMMA PartsAreRead ==
  ASSUME NEW parts \in Seq(Bytes)
  PROVE  Loops(PairsOf(parts), PairReader, Seq(Pair), <<>>, parts)
<1>1. PICK n \in Nat : n = Len(parts) /\ DOMAIN parts = 1..n
  BY LenProperties
<1> DEFINE Body(it) == [S \in SUBSET (1..n) |-> IF S = {} THEN <<>> ELSE WithPart(it[S \ {Top(S)}], parts[Top(S)])]
<1>2. \A k \in 1..n : parts[k] \in Bytes
  BY <1>1, ElementOfSeq
<1>3. PICK first \in Seq(Pair) : first = <<>>
  BY PairsAreRead
<1>4. PICK it \in [SUBSET (1..n) -> Seq(Pair)] : IsFoldOver(it, PairReader, first, parts)
  BY <1>1, PairsAreRead, FoldOverExists
<1>5. ASSUME NEW S \in SUBSET (1..n), S # {}, NEW c, c[S \ {Top(S)}] \in Seq(Pair)
      PROVE  PairReader[<<c[S \ {Top(S)}], parts[Top(S)]>>] = WithPart(c[S \ {Top(S)}], parts[Top(S)])
  <2>1. parts[Top(S)] \in Bytes
    BY <1>2, <1>5, TopIsLast
  <2>. QED  BY <1>5, <2>1 DEF PairReader
<1>6. it = Body(it)
  <2>1. ASSUME NEW S \in SUBSET (1..n), S # {}
        PROVE  it[S] = WithPart(it[S \ {Top(S)}], parts[Top(S)])
    <3>1. it[S \ {Top(S)}] \in Seq(Pair)
      BY <1>4
    <3>2. it[S] = PairReader[<<it[S \ {Top(S)}], parts[Top(S)]>>]
      BY <1>1, <1>4, <2>1 DEF IsFoldOver
    <3>. QED  BY <1>5, <2>1, <3>1, <3>2
  <2>2. it[{}] = <<>>
    BY <1>1, <1>3, <1>4 DEF IsFoldOver
  <2>. QED  BY <1>4, <2>1, <2>2
<1>7. PICK c : c = CHOOSE x : x = Body(x)
  OBVIOUS
<1>8. c = Body(c)
  BY <1>6, <1>7
<1>9. PairsOf(parts) = c[1..n]
  BY <1>1, <1>7 DEF PairsOf, WithPart, PairOf, FoldLeft, MapThenFoldSet, Top, Max
<1>10. FoldsOver(c, Seq(Pair), PairReader, first, parts)
  <2>1. c[{}] = first
    BY <1>3, <1>8
  <2>2. ASSUME NEW S \in SUBSET (1..n), S # {}, c[S \ {Top(S)}] \in Seq(Pair)
        PROVE  c[S] = PairReader[<<c[S \ {Top(S)}], parts[Top(S)]>>]
    <3>1. c[S] = WithPart(c[S \ {Top(S)}], parts[Top(S)])
      BY <1>8, <2>2
    <3>. QED  BY <1>5, <2>2, <3>1
  <2>. QED  BY <1>1, <2>1, <2>2 DEF FoldsOver
<1>11. Loops(c[1..n], PairReader, Seq(Pair), first, parts)
  BY <1>1, <1>10, PairsAreRead, FoldLoops
<1>. QED  BY <1>3, <1>9, <1>11

LEMMA PairsAreLookedThrough ==
  ASSUME NEW pairs \in Seq(Pair), NEW name
  PROVE  Loops(ValuesOf(pairs, name), ValueReader(name), Seq(Bytes), <<>>, pairs)
<1>1. PICK n \in Nat : n = Len(pairs) /\ DOMAIN pairs = 1..n
  BY LenProperties DEF IsStep
<1> DEFINE Body(it) == [S \in SUBSET (1..n) |-> IF S = {} THEN <<>> ELSE WithValue(it[S \ {Top(S)}], pairs[Top(S)], name)]
<1>2. \A k \in 1..n : pairs[k] \in Pair
  BY <1>1, ElementOfSeq DEF IsStep
<1>3. PICK first \in Seq(Bytes) : first = <<>>
  BY ValuesAreRead
<1>4. PICK it \in [SUBSET (1..n) -> Seq(Bytes)] : IsFoldOver(it, ValueReader(name), first, pairs)
  BY <1>1, ValuesAreRead, FoldOverExists DEF IsStep
<1>5. ASSUME NEW S \in SUBSET (1..n), S # {}, NEW c, c[S \ {Top(S)}] \in Seq(Bytes)
      PROVE  ValueReader(name)[<<c[S \ {Top(S)}], pairs[Top(S)]>>] = WithValue(c[S \ {Top(S)}], pairs[Top(S)], name)
  <2>1. pairs[Top(S)] \in Pair
    BY <1>2, <1>5, TopIsLast
  <2>. QED  BY <1>5, <2>1 DEF ValueReader
<1>6. it = Body(it)
  <2>1. ASSUME NEW S \in SUBSET (1..n), S # {}
        PROVE  it[S] = WithValue(it[S \ {Top(S)}], pairs[Top(S)], name)
    <3>1. it[S \ {Top(S)}] \in Seq(Bytes)
      BY <1>4
    <3>2. it[S] = ValueReader(name)[<<it[S \ {Top(S)}], pairs[Top(S)]>>]
      BY <1>1, <1>4, <2>1 DEF IsFoldOver
    <3>. QED  BY <1>5, <2>1, <3>1, <3>2
  <2>2. it[{}] = <<>>
    BY <1>1, <1>3, <1>4 DEF IsFoldOver
  <2>. QED  BY <1>4, <2>1, <2>2
<1>7. PICK c : c = CHOOSE x : x = Body(x)
  OBVIOUS
<1>8. c = Body(c)
  BY <1>6, <1>7
<1>9. ValuesOf(pairs, name) = c[1..n]
  BY <1>1, <1>7 DEF ValuesOf, WithValue, FoldLeft, MapThenFoldSet, Top, Max
<1>10. FoldsOver(c, Seq(Bytes), ValueReader(name), first, pairs)
  <2>1. c[{}] = first
    BY <1>3, <1>8
  <2>2. ASSUME NEW S \in SUBSET (1..n), S # {}, c[S \ {Top(S)}] \in Seq(Bytes)
        PROVE  c[S] = ValueReader(name)[<<c[S \ {Top(S)}], pairs[Top(S)]>>]
    <3>1. c[S] = WithValue(c[S \ {Top(S)}], pairs[Top(S)], name)
      BY <1>8, <2>2
    <3>. QED  BY <1>5, <2>2, <3>1
  <2>. QED  BY <1>1, <2>1, <2>2 DEF FoldsOver
<1>11. Loops(c[1..n], ValueReader(name), Seq(Bytes), first, pairs)
  BY <1>1, <1>10, ValuesAreRead, FoldLoops DEF IsStep
<1>. QED  BY <1>3, <1>9, <1>11

LEMMA PairsGoOn ==
  ASSUME NEW parts \in Seq(Bytes), NEW part \in Bytes
  PROVE  /\ PairsOf(<<>>) = <<>> /\ PairsOf(parts) \in Seq(Pair)
         /\ PairsOf(Append(parts, part)) = WithPart(PairsOf(parts), part)
<1>1. <<>> \in Seq(Bytes) /\ Append(parts, part) \in Seq(Bytes)
  BY AppendProperties, EmptySeq
<1>2. PairsOf(<<>>) = <<>>
  BY <1>1, PartsAreRead, LoopBegins
<1>3. PICK first, v, w : first = <<>> /\ v = PairsOf(parts) /\ w = PairsOf(Append(parts, part))
  OBVIOUS
<1>4. Loops(v, PairReader, Seq(Pair), first, parts) /\ Loops(w, PairReader, Seq(Pair), first, Append(parts, part))
  BY <1>1, <1>3, PartsAreRead
<1>5. first \in Seq(Pair) /\ IsStep(PairReader, Seq(Pair), Bytes)
  BY <1>3, PairsAreRead DEF IsStep
<1>6. v \in Seq(Pair) /\ w = PairReader[<<v, part>>]
  BY <1>4, <1>5, LoopGoesOn
<1>. QED  BY <1>2, <1>3, <1>6 DEF PairReader

LEMMA ValuesGoOn ==
  ASSUME NEW pairs \in Seq(Pair), NEW pair \in Pair, NEW name
  PROVE  /\ ValuesOf(<<>>, name) = <<>> /\ ValuesOf(pairs, name) \in Seq(Bytes)
         /\ ValuesOf(Append(pairs, pair), name) = WithValue(ValuesOf(pairs, name), pair, name)
<1>1. <<>> \in Seq(Pair) /\ Append(pairs, pair) \in Seq(Pair)
  BY AppendProperties, EmptySeq
<1>2. ValuesOf(<<>>, name) = <<>>
  BY <1>1, PairsAreLookedThrough, LoopBegins
<1>3. PICK first, v, w : first = <<>> /\ v = ValuesOf(pairs, name) /\ w = ValuesOf(Append(pairs, pair), name)
  OBVIOUS
<1>4. Loops(v, ValueReader(name), Seq(Bytes), first, pairs) /\ Loops(w, ValueReader(name), Seq(Bytes), first, Append(pairs, pair))
  BY <1>1, <1>3, PairsAreLookedThrough
<1>5. first \in Seq(Bytes) /\ IsStep(ValueReader(name), Seq(Bytes), Pair)
  BY <1>3, ValuesAreRead
<1>6. v \in Seq(Bytes) /\ w = ValueReader(name)[<<v, pair>>]
  BY <1>4, <1>5, LoopGoesOn
<1>. QED  BY <1>2, <1>3, <1>6 DEF ValueReader

-----------------------------------------------------------------------------
(* A query, pair by pair *)

LEMMA QueryOfPairs ==
  ASSUME NEW q \in Bytes, NEW name
  PROVE  /\ QueryPairs(q) \in Seq(Pair) /\ QueryPairs(q) = PairsOf(Split(q, Ampersand))
         /\ GetVec(q, name) = ValuesOf(QueryPairs(q), name) /\ GetVec(q, name) \in Seq(Bytes)
         /\ GetVec(<<>>, name) = <<>> /\ QueryPairs(<<>>) = <<>>
<1>1. QueryPairs(q) = PairsOf(Split(q, Ampersand)) /\ QueryPairs(<<>>) = PairsOf(Split(<<>>, Ampersand))
  BY DEF QueryPairs, PairsOf
<1>2. Split(q, Ampersand) \in Seq(Bytes) /\ Split(<<>>, Ampersand) = <<<<>>>>
  BY MarksAreBytes, Splits DEF AmpersandIsByte, Parts
<1>3. QueryPairs(q) \in Seq(Pair)
  BY <1>1, <1>2, EmptySeq, PairsGoOn DEF Bytes
<1>4. QueryPairs(<<>>) = <<>>
  <2>1. PICK none : none = <<>>
    OBVIOUS
  <2>2. none \in Seq(Bytes) /\ none \in Bytes /\ Append(<<>>, none) = <<none>>
    BY <2>1, EmptySeq DEF Bytes
  <2>3. PairsOf(Append(<<>>, none)) = WithPart(PairsOf(<<>>), none) /\ PairsOf(<<>>) = <<>>
    BY <2>1, <2>2, PairsGoOn
  <2>. QED  BY <1>1, <1>2, <2>1, <2>2, <2>3 DEF WithPart
<1>5. GetVec(q, name) = ValuesOf(QueryPairs(q), name) /\ GetVec(<<>>, name) = ValuesOf(QueryPairs(<<>>), name)
  BY DEF GetVec, ValuesOf
<1>6. PICK pair \in Pair : pair = PairOf(<<>>)
  BY PairIs, EmptySeq DEF Bytes
<1>7. ValuesOf(QueryPairs(q), name) \in Seq(Bytes) /\ ValuesOf(<<>>, name) = <<>>
  BY <1>3, <1>6, ValuesGoOn
<1>. QED  BY <1>1, <1>3, <1>4, <1>5, <1>7

\* A pair more is a value more of its name; another name keeps what it has.
LEMMA QueryGrows ==
  ASSUME NEW q \in Bytes, NEW name \in Bytes, ~IsSuffix(Brackets, name), NEW w \in Bytes, NoneOf(w, Ampersand), NEW other
  PROVE  GetVec(AppendQueryParam(q, name, w), other) =
           IF name = other THEN Append(GetVec(q, other), w) ELSE GetVec(q, other)
<1>1. PICK n, e : n = EncodeQuery(name) /\ e = (EncodeQuery(name) \o <<Equals>>) \o w
  OBVIOUS
<1>2. n \in Bytes /\ e \in Bytes /\ n \o <<Equals>> \in Bytes
  BY <1>1, MarksAreBytes, Encodes, ParamIsBytes DEF AmpersandIsByte
<1>3. NoneOf(n, Equals) /\ NoneOf(n, Ampersand)
  BY <1>1, NoMarks
<1>4. Before(e, Equals) = n /\ Behind(e, Equals) = w
  BY <1>1, <1>2, <1>3, MarksAreBytes, CutAtMark DEF AmpersandIsByte
<1>5. NoneOf(e, Ampersand)
  <2>1. PICK K : K = Byte \ {Ampersand}
    OBVIOUS
  <2>2. AllIn(n, K) /\ AllIn(w, K)
    BY <1>2, <1>3, <2>1, NoneIsAllIn
  <2>3. Equals \in K /\ <<Equals>> \in Bytes /\ AllIn(<<Equals>>, K)
    <3>1. Equals \in Byte /\ Equals # Ampersand
      BY MarksAreBytes DEF AmpersandIsByte, Equals, Ampersand
    <3>2. <<Equals>> \in Bytes
      BY <3>1 DEF Bytes
    <3>3. \A k \in DOMAIN <<Equals>> : <<Equals>>[k] \in K
      BY <2>1, <3>1
    <3>. QED  BY <2>1, <3>1, <3>2, <3>3 DEF AllIn
  <2>4. AllIn(n \o <<Equals>>, K)
    BY <1>2, <2>2, <2>3, AllInBoth
  <2>5. AllIn(e, K)
    BY <1>1, <1>2, <2>2, <2>4, AllInBoth
  <2>. QED  BY <1>2, <2>1, <2>5, NoneIsAllIn
<1>6. e # <<>>
  <2>1. Before(<<>>, Equals) = <<>> /\ Behind(<<>>, Equals) = <<>>
    <3>1. <<>> \in Bytes /\ NoneOf(<<>>, Equals)
      BY EmptySeq DEF Bytes, NoneOf
    <3>. QED  BY <3>1, MarksAreBytes, CutNowhere DEF AmpersandIsByte
  <2>2. Len(e) # 0
    <3>1. PICK a, b \in Nat : a = Len(n) /\ b = Len(w)
      BY <1>2, LenProperties DEF Bytes
    <3>2. Len(n \o <<Equals>>) = a + 1 /\ Len((n \o <<Equals>>) \o w) = Len(n \o <<Equals>>) + b
      <4>1. <<Equals>> \in Seq(Byte) /\ Len(<<Equals>>) = 1
        BY MarksAreBytes DEF AmpersandIsByte
      <4>. QED  BY <1>2, <3>1, <4>1, ConcatProperties DEF Bytes
    <3>. QED  BY <1>1, <3>1, <3>2
  <2>. QED  BY <2>2
<1>7. PICK pair \in Pair : pair = PairOf(e)
  BY <1>2, PairIs
<1>8. pair.value = w /\ PairName(pair.key.text) = name
  <2>1. Decode(n) = [ok |-> IsUtf8(name), text |-> name]
    BY <1>1, QueryReads, CleanIsDecoded
  <2>2. pair.value = w /\ pair.key.text = name
    BY <1>4, <1>7, <2>1 DEF PairOf
  <2>. QED  BY <2>2 DEF PairName
<1>9. PICK u : u = AppendQueryParam(q, name, w)
  OBVIOUS
<1>10. u \in Bytes
  BY <1>9, ParamIsBytes
<1>11. QueryPairs(u) = Append(QueryPairs(q), pair)
  <2>1. ASSUME NEW parts \in Seq(Bytes) PROVE PairsOf(Append(parts, e)) = Append(PairsOf(parts), pair)
    BY <1>2, <1>6, <1>7, PairsGoOn DEF WithPart
  <2>2. QueryPairs(u) = PairsOf(Split(u, Ampersand)) /\ QueryPairs(q) = PairsOf(Split(q, Ampersand))
    BY <1>10, QueryOfPairs
  <2>3. CASE q = <<>>
    <3>1. u = e
      BY <1>1, <1>9, <2>3, ParamIsFirst
    <3>2. Split(e, Ampersand) = <<e>>
      <4>1. Ampersand \in Byte
        BY MarksAreBytes DEF AmpersandIsByte
      <4>. QED  BY <1>2, <1>5, <4>1, SplitAtOne
    <3>3. <<>> \in Seq(Bytes) /\ Append(<<>>, e) = <<e>>
      BY <1>2, EmptySeq
    <3>4. PairsOf(<<>>) = <<>>
      BY <1>2, <3>3, PairsGoOn
    <3>5. PairsOf(Append(<<>>, e)) = Append(PairsOf(<<>>), pair)
      BY <2>1, <3>3
    <3>6. QueryPairs(q) = <<>>
      BY <2>3, QueryOfPairs
    <3>. QED  BY <2>2, <3>1, <3>2, <3>3, <3>4, <3>5, <3>6
  <2>4. CASE q # <<>>
    <3>1. u = Append(q, Ampersand) \o e
      BY <1>1, <1>9, <2>4, ParamIsBehind
    <3>2. Ampersand \in Byte
      BY MarksAreBytes DEF AmpersandIsByte
    <3>3. Split(u, Ampersand) = Append(Split(q, Ampersand), e)
      BY <1>2, <1>5, <3>1, <3>2, SplitAtOne
    <3>4. Split(q, Ampersand) \in Seq(Bytes)
      BY <3>2, Splits DEF Parts
    <3>5. PairsOf(Append(Split(q, Ampersand), e)) = Append(PairsOf(Split(q, Ampersand)), pair)
      BY <2>1, <3>4
    <3>. QED  BY <2>2, <3>3, <3>5
  <2>. QED  BY <2>3, <2>4
<1>12. GetVec(u, other) = ValuesOf(QueryPairs(u), other) /\ GetVec(q, other) = ValuesOf(QueryPairs(q), other)
       /\ QueryPairs(q) \in Seq(Pair)
  BY <1>10, QueryOfPairs
<1>13. GetVec(u, other) = WithValue(GetVec(q, other), pair, other)
  BY <1>11, <1>12, ValuesGoOn
<1>. QED  BY <1>8, <1>9, <1>13 DEF WithValue

\* An empty pair is none.
LEMMA EmptyPairIsNone ==
  ASSUME NEW q \in Bytes, NEW name
  PROVE  q \o <<Ampersand>> \in Bytes /\ GetVec(q \o <<Ampersand>>, name) = GetVec(q, name)
<1>1. Ampersand \in Byte
  BY MarksAreBytes DEF AmpersandIsByte
<1>2. PICK none : none = <<>>
  OBVIOUS
<1>3. none \in Bytes /\ NoneOf(none, Ampersand)
  BY <1>2, EmptySeq DEF Bytes, NoneOf
<1>4. PICK u \in Bytes : u = Append(q, Ampersand)
  BY <1>1, AppendProperties DEF Bytes
<1>5. q \o <<Ampersand>> = u /\ u \o none = u
  <2>1. q \o <<Ampersand>> = Append(q, Ampersand)
    BY <1>1, PutBehind DEF Bytes
  <2>2. u \o <<>> = u
    BY <1>1, PutBehind DEF Bytes
  <2>. QED  BY <1>2, <1>4, <2>1, <2>2
<1>6. Split(u \o none, Ampersand) = Append(Split(q, Ampersand), none)
  BY <1>1, <1>3, <1>4, SplitAtOne
<1>7. Split(q, Ampersand) \in Seq(Bytes)
  BY <1>1, Splits DEF Parts
<1>8. PairsOf(Append(Split(q, Ampersand), none)) = PairsOf(Split(q, Ampersand))
  BY <1>2, <1>3, <1>7, PairsGoOn DEF WithPart
<1>9. QueryPairs(u) = QueryPairs(q)
  <2>1. QueryPairs(u) = PairsOf(Split(u, Ampersand)) /\ QueryPairs(q) = PairsOf(Split(q, Ampersand))
    BY QueryOfPairs
  <2>. QED  BY <1>5, <1>6, <1>8, <2>1
<1>10. GetVec(u, name) = ValuesOf(QueryPairs(u), name) /\ GetVec(q, name) = ValuesOf(QueryPairs(q), name)
  BY QueryOfPairs
<1>. QED  BY <1>5, <1>9, <1>10

-----------------------------------------------------------------------------
(* What a query holds once a field is written *)

EncodedAll(values) == [j \in DOMAIN values |-> EncodeQuery(values[j])]

LEMMA EncodedOneMore ==
  ASSUME NEW values \in Seq(Bytes), NEW t \in Bytes
  PROVE  /\ EncodedAll(<<>>) = <<>>
         /\ EncodedAll(Append(values, t)) = Append(EncodedAll(values), EncodeQuery(t))
<1>1. PICK n \in Nat : n = Len(values) /\ DOMAIN values = 1..n
  BY LenProperties
<1>2. PICK u : u = Append(values, t)
  OBVIOUS
<1>3. u \in Seq(Bytes) /\ Len(u) = n + 1 /\ (\A k \in 1..n : u[k] = values[k]) /\ u[n + 1] = t
  BY <1>1, <1>2, AppendProperties
<1>4. DOMAIN u = 1..(n + 1)
  BY <1>3, LenProperties
<1>5. EncodedAll(u) = [j \in 1..(n + 1) |-> EncodeQuery(u[j])]
  BY <1>4 DEF EncodedAll
<1>6. EncodedAll(values) = [j \in 1..n |-> EncodeQuery(values[j])]
  BY <1>1 DEF EncodedAll
<1>7. PICK e : e = EncodedAll(values)
  OBVIOUS
<1>8. \A x \in Bytes : EncodeQuery(x) \in Bytes
  BY MarksAreBytes, Encodes DEF AmpersandIsByte
<1>9. e \in Seq(Bytes) /\ Len(e) = n
  <2>1. \A k \in 1..n : EncodeQuery(values[k]) \in Bytes
    BY <1>1, <1>8, ElementOfSeq
  <2>2. e \in [1..n -> Bytes]
    BY <1>6, <1>7, <2>1
  <2>. QED  BY <2>2
<1>10. PICK d \in Bytes : d = EncodeQuery(t)
  BY <1>8
<1>11. PICK v : v = Append(e, d)
  OBVIOUS
<1>12. v \in Seq(Bytes) /\ Len(v) = n + 1 /\ (\A k \in 1..n : v[k] = e[k]) /\ v[n + 1] = d
  BY <1>9, <1>10, <1>11, AppendProperties
<1>13. \A k \in 1..(n + 1) : v[k] = EncodeQuery(u[k])
  <2>. SUFFICES ASSUME NEW k \in 1..(n + 1) PROVE v[k] = EncodeQuery(u[k])
    OBVIOUS
  <2>1. CASE k = n + 1
    BY <1>3, <1>10, <1>12, <2>1
  <2>2. CASE k # n + 1
    <3>1. k \in 1..n
      BY <2>2
    <3>. QED  BY <1>3, <1>6, <1>7, <1>12, <3>1
  <2>. QED  BY <2>1, <2>2
<1>14. v = [k \in 1..(n + 1) |-> v[k]]
  BY <1>12, SeqDef, LenProperties
<1>15. v = EncodedAll(u)
  BY <1>5, <1>13, <1>14
<1>16. EncodedAll(<<>>) = <<>>
  BY DEF EncodedAll
<1>. QED  BY <1>2, <1>7, <1>10, <1>11, <1>15, <1>16

\* All values of a field, written behind a query that has none of its name.
LEMMA QueryIsFilled ==
  ASSUME NEW q \in Bytes, NEW name \in Bytes, ~IsSuffix(Brackets, name), GetVec(q, name) = <<>>, NEW other, other # name
  PROVE  \A values \in Seq(Bytes) :
           /\ AppendQueryValues(q, name, values) \in Bytes
           /\ GetVec(AppendQueryValues(q, name, values), name) = EncodedAll(values)
           /\ GetVec(AppendQueryValues(q, name, values), other) = GetVec(q, other)
<1> DEFINE S == {values \in Seq(Bytes) :
                   /\ AppendQueryValues(q, name, values) \in Bytes
                   /\ GetVec(AppendQueryValues(q, name, values), name) = EncodedAll(values)
                   /\ GetVec(AppendQueryValues(q, name, values), other) = GetVec(q, other)}
<1>1. <<>> \in S
  <2>1. PICK none : none = <<>>
    OBVIOUS
  <2>2. none \in Seq(Bytes) /\ none \in Bytes
    BY <2>1, EmptySeq DEF Bytes
  <2>3. AppendQueryValues(q, name, none) = q /\ EncodedAll(none) = <<>>
    BY <2>1, <2>2, FillsValues, EncodedOneMore
  <2>. QED  BY <2>1, <2>2, <2>3
<1>2. ASSUME NEW values \in Seq(Bytes), NEW t \in Bytes, values \in S PROVE Append(values, t) \in S
  <2>1. PICK u, v, e : u = AppendQueryValues(q, name, values) /\ v = AppendQueryValues(q, name, Append(values, t)) /\ e = EncodeQuery(t)
    OBVIOUS
  <2>2. u \in Bytes /\ GetVec(u, name) = EncodedAll(values) /\ GetVec(u, other) = GetVec(q, other)
    BY <1>2, <2>1
  <2>3. v = AppendQueryParam(u, name, e)
    BY <2>1, FillsValues
  <2>4. e \in Bytes /\ NoneOf(e, Ampersand)
    BY <2>1, MarksAreBytes, Encodes, NoMarks DEF AmpersandIsByte
  <2>5. v \in Bytes
    BY <2>2, <2>3, <2>4, ParamIsBytes
  <2>6. GetVec(v, name) = Append(EncodedAll(values), e)
    <3>1. GetVec(v, name) = Append(GetVec(u, name), e)
      BY <2>2, <2>3, <2>4, QueryGrows
    <3>. QED  BY <2>2, <3>1
  <2>7. GetVec(v, other) = GetVec(q, other)
    <3>1. GetVec(v, other) = GetVec(u, other)
      BY <2>2, <2>3, <2>4, QueryGrows
    <3>. QED  BY <2>2, <3>1
  <2>8. EncodedAll(Append(values, t)) = Append(EncodedAll(values), e)
    BY <2>1, EncodedOneMore
  <2>9. Append(values, t) \in Seq(Bytes)
    BY AppendProperties
  <2>. QED  BY <2>1, <2>5, <2>6, <2>7, <2>8, <2>9
<1> HIDE DEF S
<1>3. Seq(Bytes) \subseteq S
  BY <1>1, <1>2, EverySequence
<1>. QED  BY <1>3 DEF S

LEMMA LowerHexIs ==
  ASSUME NEW b \in Byte
  PROVE  \E g \in HexDigits, h \in HexDigits :
           LowerHex(Escape(b)) = <<Percent, g, h>> /\ HexValue(g) * 16 + HexValue(h) = b
<1>1. PICK g, h : g = HexDigit(b \div 16) /\ h = HexDigit(b % 16)
  OBVIOUS
<1>2. /\ Escape(b) = <<Percent, g, h>> /\ g \in Digits \cup (65..70) /\ h \in Digits \cup (65..70)
      /\ HexValue(g) * 16 + HexValue(h) = b
  BY <1>1, EscapeIsBytes
<1>3. \A x \in Digits \cup (65..70) : Lower(x) \in HexDigits /\ HexValue(Lower(x)) = HexValue(x)
  <2>. SUFFICES ASSUME NEW x \in Digits \cup (65..70)
                PROVE  Lower(x) \in HexDigits /\ HexValue(Lower(x)) = HexValue(x)
    OBVIOUS
  <2>1. CASE x \in 48..57
    <3>1. ~(x \in 65..90)
      BY <2>1
    <3>2. Lower(x) = x
      BY <3>1 DEF Lower, Capitals
    <3>. QED  BY <2>1, <3>2 DEF HexDigits, Digits
  <2>2. CASE x \in 65..70
    <3>1. x \in 65..90 /\ x + 32 \in 97..102 /\ ~(x \in 48..57) /\ ~(x + 32 \in 48..57) /\ ~(x + 32 \in 65..70)
      BY <2>2
    <3>2. Lower(x) = x + 32
      BY <3>1 DEF Lower, Capitals
    <3>3. HexValue(x) = x - 55 /\ HexValue(x + 32) = (x + 32) - 87
      BY <2>2, <3>1 DEF HexValue, Digits
    <3>. QED  BY <2>2, <3>1, <3>2, <3>3 DEF HexDigits
  <2>. QED  BY <2>1, <2>2 DEF Digits
<1>4. LowerHex(Escape(b)) = <<Percent, Lower(g), Lower(h)>>
  BY <1>2 DEF LowerHex
<1>. QED  BY <1>2, <1>3, <1>4

\* However a text is spelt, it is read as what it is, as one value; and if nothing is escaped, it
\* stands there as it is.
SpeltRight(w, t) ==
  w \in Bytes /\ Clean(w, t) /\ NoneOf(w, Ampersand) /\ (NoneOf(w, Percent) /\ NoneOf(w, Plus) => w = t)

LEMMA OneMoreIsSpelt ==
  ASSUME NEW t \in Bytes, NEW b \in Byte, NEW w, SpeltRight(w, t), NEW s \in Spellings(b)
  PROVE  SpeltRight(w \o s, Append(t, b))
<1>1. w \in Bytes /\ Clean(w, t) /\ NoneOf(w, Ampersand) /\ (NoneOf(w, Percent) /\ NoneOf(w, Plus) => w = t)
  BY DEF SpeltRight
<1>2. s \in Bytes /\ w \o s \in Bytes /\ Append(t, b) \in Bytes
  BY <1>1, SpellingsAreBytes, ConcatProperties, AppendProperties DEF Bytes
<1>3. ASSUME NEW c \in Byte PROVE NoneOf(w \o s, c) <=> NoneOf(w, c) /\ NoneOf(s, c)
  <2>1. PICK K : K = Byte \ {c}
    OBVIOUS
  <2>2. AllIn(w \o s, K) <=> AllIn(w, K) /\ AllIn(s, K)
    BY <1>1, <1>2, AllInBoth
  <2>. QED  BY <1>1, <1>2, <2>1, <2>2, NoneIsAllIn
<1>4. /\ NoneOf(w \o s, Ampersand) <=> NoneOf(w, Ampersand) /\ NoneOf(s, Ampersand)
      /\ NoneOf(w \o s, Percent) <=> NoneOf(w, Percent) /\ NoneOf(s, Percent)
      /\ NoneOf(w \o s, Plus) <=> NoneOf(w, Plus) /\ NoneOf(s, Plus)
  BY <1>3, MarksAreBytes DEF AmpersandIsByte
<1>5. ASSUME NEW g \in HexDigits, NEW h \in HexDigits, s = <<Percent, g, h>>, HexValue(g) * 16 + HexValue(h) = b
      PROVE  SpeltRight(w \o s, Append(t, b))
  <2>1. Clean(w \o s, Append(t, b))
    BY <1>1, <1>5, EscapeIsRead
  <2>2. NoneOf(s, Ampersand) /\ ~NoneOf(s, Percent)
    BY <1>5 DEF NoneOf, HexDigits, Digits, Ampersand, Percent
  <2>. QED  BY <1>1, <1>2, <1>4, <2>1, <2>2 DEF SpeltRight
<1>6. CASE s = Escape(b)
  <2>1. PICK g, h : g = HexDigit(b \div 16) /\ h = HexDigit(b % 16)
    OBVIOUS
  <2>2. /\ Escape(b) = <<Percent, g, h>> /\ g \in Digits \cup (65..70) /\ h \in Digits \cup (65..70)
        /\ HexValue(g) * 16 + HexValue(h) = b
    BY <2>1, EscapeIsBytes
  <2>3. g \in HexDigits /\ h \in HexDigits
    BY <2>2 DEF HexDigits
  <2>. QED  BY <1>5, <1>6, <2>2, <2>3
<1>7. CASE s = LowerHex(Escape(b))
  BY <1>5, <1>7, LowerHexIs
<1>8. CASE s = <<b>> /\ b \notin {Percent, Plus, Ampersand}
  <2>1. w \o s = Append(w, b)
    BY <1>1, <1>8, PutBehind DEF Bytes
  <2>2. Clean(Append(w, b), Append(t, b))
    BY <1>1, <1>8, OneIsRead
  <2>3. NoneOf(s, Ampersand)
    BY <1>8 DEF NoneOf
  <2>. QED  BY <1>1, <1>2, <1>4, <2>1, <2>2, <2>3 DEF SpeltRight
<1>9. CASE s = <<Plus>> /\ b = Space
  <2>1. Plus \in Byte /\ Plus # Percent /\ Plus # Ampersand
    BY DEF Plus, Byte, Percent, Ampersand
  <2>2. w \o s = Append(w, Plus)
    BY <1>1, <1>9, <2>1, PutBehind DEF Bytes
  <2>3. Clean(Append(w, Plus), Append(t, b))
    BY <1>1, <1>9, <2>1, OneIsRead
  <2>4. NoneOf(s, Ampersand) /\ ~NoneOf(s, Plus)
    BY <1>9, <2>1 DEF NoneOf
  <2>. QED  BY <1>1, <1>2, <1>4, <2>2, <2>3, <2>4 DEF SpeltRight
<1>. QED  BY <1>6, <1>7, <1>8, <1>9 DEF Spellings

LEMMA SpellingsAreRead == \A t \in Bytes : \A w \in Spelt(t) : SpeltRight(w, t)
<1> DEFINE S == {t \in Bytes : \A w \in Spelt(t) : SpeltRight(w, t)}
<1>1. <<>> \in S
  <2>1. PICK none : none = <<>>
    OBVIOUS
  <2>2. none \in Bytes /\ NoneOf(none, Ampersand)
    BY <2>1, EmptySeq DEF Bytes, NoneOf
  <2>3. Spelt(none) = {none} /\ Decoded(none) = Start
    BY <2>1, <2>2, MarksAreBytes, Spells, Reads DEF AmpersandIsByte
  <2>4. SpeltRight(none, none)
    BY <2>1, <2>2, <2>3 DEF SpeltRight, Clean, Start
  <2>. QED  BY <2>1, <2>2, <2>3, <2>4
<1>2. ASSUME NEW t \in Seq(Byte), NEW b \in Byte, t \in S PROVE Append(t, b) \in S
  <2>1. t \in Bytes /\ Append(t, b) \in Bytes
    BY AppendProperties DEF Bytes
  <2>2. Spelt(Append(t, b)) = SpeltOn(Spelt(t), b)
    BY <2>1, Spells
  <2>3. ASSUME NEW x \in Spelt(Append(t, b)) PROVE SpeltRight(x, Append(t, b))
    <3>1. PICK p \in Spelt(t) \X Spellings(b) : x = p[1] \o p[2]
      BY <2>2, <2>3 DEF SpeltOn
    <3>2. PICK w \in Spelt(t), s \in Spellings(b) : x = w \o s
      BY <3>1
    <3>3. SpeltRight(w, t)
      BY <1>2, <3>2
    <3>. QED  BY <2>1, <3>2, <3>3, OneMoreIsSpelt
  <2>. QED  BY <2>1, <2>3
<1> HIDE DEF S
<1>3. Bytes \subseteq S
  BY <1>1, <1>2, EverySequence DEF Bytes
<1>. QED  BY <1>3 DEF S

-----------------------------------------------------------------------------
(* What holds while a request is filled *)

Typed ==
  /\ model \in Cases /\ at \in 0..Len(Fields)
  /\ path \in Bytes /\ NoneOf(path, Question) /\ query \in Bytes
  /\ stage \in {"fill", "sent", "done"}
  /\ stage # "done" => outcome.is = "none"
  /\ stage = "sent" => at = Len(Fields)

Shaped(c, k) == [j \in DOMAIN c.values[k] |-> Transformed(c.fields[k], c.values[k][j])]

LEMMA FieldsAre ==
  ASSUME model \in Cases
  PROVE  /\ Len(Fields) \in Nat /\ DOMAIN Fields = 1..Len(Fields)
         /\ \A k \in DOMAIN Fields : /\ Fields[k] \in Field /\ Shapes(Fields[k]) /\ FieldIsFit(model, k)
                                     /\ model.values[k] \in Seq(Bytes)
<1>1. Fields \in Seq(Field)
  BY CaseIs DEF Fields
<1>2. Len(Fields) \in Nat /\ DOMAIN Fields = 1..Len(Fields)
  BY <1>1, LenProperties
<1>3. ASSUME NEW k \in DOMAIN Fields
      PROVE  Fields[k] \in Field /\ Shapes(Fields[k]) /\ FieldIsFit(model, k) /\ model.values[k] \in Seq(Bytes)
  <2>1. FieldIsFit(model, k) /\ Shapes(Fields[k])
    BY <1>3, FieldIs, FieldShapes DEF Fields
  <2>. QED  BY <2>1 DEF FieldIsFit, Fields
<1>. QED  BY <1>2, <1>3

LEMMA ShapedAre ==
  ASSUME model \in Cases, NEW k \in DOMAIN Fields
  PROVE  /\ Shaped(model, k) \in Seq(Bytes) /\ Len(Shaped(model, k)) = Len(model.values[k])
         /\ DOMAIN Shaped(model, k) = DOMAIN model.values[k]
<1>1. Fields[k] \in Field /\ model.values[k] \in Seq(Bytes)
  BY FieldsAre
<1>2. PICK vs \in Seq(Bytes) : vs = model.values[k]
  BY <1>1
<1>3. PICK n \in Nat : n = Len(vs) /\ DOMAIN vs = 1..n
  BY LenProperties
<1>4. \A j \in 1..n : Transformed(Fields[k], vs[j]) \in Bytes
  BY <1>1, <1>3, ElementOfSeq, ShapedOnce
<1>5. Shaped(model, k) = [j \in 1..n |-> Transformed(Fields[k], vs[j])]
  BY <1>2, <1>3 DEF Shaped, Fields
<1>6. Shaped(model, k) \in [1..n -> Bytes]
  BY <1>4, <1>5
<1>. QED  BY <1>2, <1>3, <1>6

LEMMA NamesDiffer ==
  ASSUME NEW c \in Cases, NEW j \in DOMAIN c.fields, NEW k \in DOMAIN c.fields, j # k,
         c.fields[j].source = "query", c.fields[k].source = "query"
  PROVE  c.fields[j].name # c.fields[k].name
<1>1. c.fields \in Seq(Field)
  BY CaseIs
<1>2. j \in Nat /\ k \in Nat
  BY <1>1, LenProperties
<1>3. \A i, l \in DOMAIN c.fields :
        i < l /\ c.fields[i].name = c.fields[l].name /\ c.fields[i].source # "path" =>
          Rank(c.fields[i].source) # Rank(c.fields[l].source)
  BY RequestAssumption
<1>4. j < k \/ k < j
  BY <1>2
<1>. QED  BY <1>3, <1>4

LEMMA RanksGrow ==
  ASSUME NEW c \in Cases, NEW j \in DOMAIN c.fields, NEW k \in DOMAIN c.fields, j < k, c.fields[k].source = "path"
  PROVE  c.fields[j].source = "path"
<1>1. Rank(c.fields[j].source) <= Rank(c.fields[k].source)
  BY RequestAssumption
<1>2. c.fields[j].source \in Sources
  BY FieldIs DEF FieldIsFit, Field
<1>. QED  BY <1>1, <1>2 DEF Rank, Sources

\* A step that writes neither to the path nor to the query.
Elsewhere ==
  /\ stage = "fill" /\ at < Len(Fields) /\ Now.source # "path"
  /\ Now.source = "query" => LeaveOut
  /\ at' = at + 1 /\ UNCHANGED <<model, path, query, stage, outcome>>

LEMMA StepIs ==
  ASSUME Typed, [Next]_vars
  PROVE  \/ FillPath \/ FillQuery \/ OtherClientWrites \/ BrokenClientWrites \/ Elsewhere
         \/ ClientRefuses \/ Send \/ Parse \/ UNCHANGED vars
<1>1. CASE FillHeaders
  BY <1>1 DEF FillHeaders, Writes, Written, Elsewhere
<1>2. CASE FillForm
  BY <1>2 DEF FillForm, Writes, Written, Elsewhere
<1>3. CASE FillBody
  BY <1>3 DEF FillBody, Writes, Written, Elsewhere
<1>4. CASE OtherClientAppends
  BY <1>4 DEF OtherClientAppends, OtherWrites, Written, Elsewhere
<1>5. CASE AppendUrlEncoded
  BY <1>5 DEF AppendUrlEncoded, OtherWrites, Written, Elsewhere
<1>6. CASE LeaveOut
  <2>1. at < Len(Fields) /\ model.client \in {"other", "broken"} /\ stage = "fill"
        /\ at' = at + 1 /\ UNCHANGED <<model, path, query, stage, outcome>>
    BY <1>6 DEF LeaveOut, Written
  <2>2. at + 1 \in DOMAIN Fields
    BY <2>1, FieldsAre DEF Typed
  <2>3. FieldIsFit(model, at + 1)
    BY <2>2, FieldsAre DEF Typed
  <2>4. Now.source # "path"
    BY <2>1, <2>3 DEF FieldIsFit, Now, Fields
  <2>. QED  BY <1>6, <2>1, <2>4 DEF Elsewhere
<1>. QED  BY <1>1, <1>2, <1>3, <1>4, <1>5, <1>6 DEF Next

LEMMA FillsPath ==
  ASSUME Typed, FillPath
  PROVE  /\ at + 1 \in DOMAIN Fields /\ Fields[at + 1].source = "path" /\ at' = at + 1
         /\ \E v \in Bytes : /\ model.values[at + 1] = <<v>> /\ Printed(Fields[at + 1].type, v)
                             /\ Transformed(Fields[at + 1], v) \in Bytes
                             /\ path' = AppendPathSegment(path, Transformed(Fields[at + 1], v))
<1>1. at + 1 \in DOMAIN Fields
  BY FieldsAre DEF FillPath, Writes, Typed
<1>2. Fields[at + 1].source = "path" /\ at' = at + 1
  BY DEF FillPath, Writes, Now, Written
<1>3. PICK v \in Bytes : model.values[at + 1] = <<v>> /\ Printed(Fields[at + 1].type, v)
  BY <1>1, <1>2, PathFieldIs DEF Typed, Fields
<1>4. Transformed(Fields[at + 1], v) \in Bytes
  BY <1>1, FieldsAre, ShapedOnce DEF Typed
<1>5. Outgoing[1] = Transformed(Fields[at + 1], v)
  <2>1. Outgoing = [j \in DOMAIN model.values[at + 1] |-> Transformed(Fields[at + 1], model.values[at + 1][j])]
    BY DEF Outgoing, All, Now
  <2>. QED  BY <1>3, <2>1
<1>. QED  BY <1>1, <1>2, <1>3, <1>4, <1>5 DEF FillPath

LEMMA FillsQuery ==
  ASSUME Typed, FillQuery
  PROVE  /\ at + 1 \in DOMAIN Fields /\ Fields[at + 1].source = "query" /\ at' = at + 1 /\ model.client = "ours"
         /\ Shaped(model, at + 1) \in Seq(Bytes)
         /\ query' = AppendQueryValues(query, Fields[at + 1].name, Shaped(model, at + 1))
<1>1. at + 1 \in DOMAIN Fields
  BY FieldsAre DEF FillQuery, Writes, Typed
<1>2. Fields[at + 1].source = "query" /\ at' = at + 1 /\ model.client = "ours"
  BY DEF FillQuery, Writes, Now, Written, Ours
<1>3. Outgoing = Shaped(model, at + 1)
  BY DEF Outgoing, All, Now, Shaped, Fields
<1>. QED  BY <1>1, <1>2, <1>3, ShapedAre DEF FillQuery, Now, Typed

LEMMA OthersWrite ==
  ASSUME Typed, OtherClientWrites
  PROVE  /\ at + 1 \in DOMAIN Fields /\ Fields[at + 1].source = "query" /\ at' = at + 1 /\ model.client = "other"
         /\ model.values[at + 1] \in Seq(Bytes) /\ model.values[at + 1] # <<>> /\ Head(model.values[at + 1]) \in Bytes
         /\ \E w \in Spelt(Head(model.values[at + 1])) :
              query' = AppendQueryParam(query, Fields[at + 1].name, w) \o <<Ampersand>>
<1>1. at + 1 \in DOMAIN Fields
  BY FieldsAre DEF OtherClientWrites, OtherWrites, Typed
<1>2. Fields[at + 1].source = "query" /\ at' = at + 1 /\ model.client = "other" /\ model.values[at + 1] # <<>>
  BY DEF OtherClientWrites, OtherWrites, Now, Written
<1>3. model.values[at + 1] \in Seq(Bytes)
  BY <1>1, FieldsAre DEF Typed
<1>4. Head(model.values[at + 1]) \in Bytes
  BY <1>2, <1>3, HeadTailProperties
<1>. QED  BY <1>1, <1>2, <1>3, <1>4 DEF OtherClientWrites, Now

LEMMA BrokenWrites ==
  ASSUME Typed, BrokenClientWrites
  PROVE  /\ at + 1 \in DOMAIN Fields /\ Fields[at + 1].source = "query" /\ at' = at + 1 /\ model.client = "broken"
         /\ \E w \in Malformed[Fields[at + 1].type] :
              w \in Bytes /\ NoneOf(w, Ampersand) /\ query' = AppendQueryParam(query, Fields[at + 1].name, w)
<1>1. at + 1 \in DOMAIN Fields
  BY FieldsAre DEF BrokenClientWrites, Typed
<1>2. at' = at + 1 /\ model.client = "broken"
  BY DEF BrokenClientWrites, Written
<1>3. FieldIsFit(model, at + 1) /\ Fields[at + 1] \in Field
  BY <1>1, FieldsAre DEF Typed
<1>4. Fields[at + 1].source = "query"
  BY <1>2, <1>3 DEF FieldIsFit, Fields
<1>5. Fields[at + 1].type \in Types
  BY <1>3 DEF Field
<1>6. PICK w \in Malformed[Fields[at + 1].type] : query' = AppendQueryParam(query, Fields[at + 1].name, w)
  BY DEF BrokenClientWrites, Now
<1>7. w \in Seq(Byte) /\ Ampersand \notin Range(w)
  BY <1>5, <1>6, RequestAssumption
<1>8. NoneOf(w, Ampersand)
  BY <1>7 DEF Range, NoneOf
<1>. QED  BY <1>1, <1>2, <1>4, <1>6, <1>7, <1>8 DEF Bytes

LEMMA NameIsBytes ==
  ASSUME model \in Cases, NEW k \in DOMAIN Fields
  PROVE  Fields[k].name \in Bytes /\ ~IsSuffix(Brackets, Fields[k].name)
<1>1. FieldIsFit(model, k) /\ Fields[k] \in Field
  BY FieldsAre
<1>. QED  BY <1>1 DEF FieldIsFit, Fields, Field, Bytes

LEMMA TypedFirst == ASSUME Init PROVE Typed
<1>1. model \in Cases
  BY DEF Init
<1>2. Len(Fields) \in Nat
  BY <1>1, FieldsAre
<1>. QED  BY <1>1, <1>2, EmptySeq DEF Init, Typed, Outcome, NoneOf, Bytes

LEMMA TypedStays == ASSUME Typed, [Next]_vars PROVE Typed' /\ model' = model
<1>0. Len(Fields) \in Nat /\ DOMAIN Fields = 1..Len(Fields) /\ (model' = model => Fields' = Fields)
  BY FieldsAre DEF Typed, Fields
<1>1. CASE FillPath
  <2>1. PICK m \in Bytes : path' = AppendPathSegment(path, m)
    BY <1>1, FillsPath
  <2>2. path' \in Bytes /\ NoneOf(path', Question)
    BY <2>1, SegmentIsWritten DEF Typed
  <2>. QED  BY <1>0, <1>1, <2>2, FillsPath DEF Typed, FillPath, Written, Writes
<1>2. CASE FillQuery
  <2>1. query' \in Bytes
    <3>1. at + 1 \in DOMAIN Fields /\ Shaped(model, at + 1) \in Seq(Bytes)
          /\ query' = AppendQueryValues(query, Fields[at + 1].name, Shaped(model, at + 1))
      BY <1>2, FillsQuery
    <3>2. Fields[at + 1].name \in Bytes
      BY <3>1, NameIsBytes DEF Typed
    <3>. QED  BY <3>1, <3>2, FillsValues DEF Typed
  <2>. QED  BY <1>0, <1>2, <2>1, FillsQuery DEF Typed, FillQuery, Written, Writes
<1>3. CASE OtherClientWrites
  <2>1. at + 1 \in DOMAIN Fields /\ Head(model.values[at + 1]) \in Bytes
    BY <1>3, OthersWrite
  <2>2. PICK w \in Spelt(Head(model.values[at + 1])) :
             query' = AppendQueryParam(query, Fields[at + 1].name, w) \o <<Ampersand>>
    BY <1>3, OthersWrite
  <2>3. w \in Bytes
    BY <2>1, <2>2, SpellingsAreRead DEF SpeltRight
  <2>4. Fields[at + 1].name \in Bytes
    BY <2>1, NameIsBytes DEF Typed
  <2>5. query' \in Bytes
    BY <2>2, <2>3, <2>4, ParamIsBytes, EmptyPairIsNone DEF Typed
  <2>. QED  BY <1>0, <1>3, <2>5, OthersWrite DEF Typed, OtherClientWrites, Written, OtherWrites
<1>4. CASE BrokenClientWrites
  <2>1. at + 1 \in DOMAIN Fields
    BY <1>4, BrokenWrites
  <2>2. PICK w \in Bytes : query' = AppendQueryParam(query, Fields[at + 1].name, w)
    BY <1>4, BrokenWrites
  <2>3. query' \in Bytes
    BY <2>1, <2>2, NameIsBytes, ParamIsBytes DEF Typed
  <2>. QED  BY <1>0, <1>4, <2>3, BrokenWrites DEF Typed, BrokenClientWrites, Written
<1>5. CASE Elsewhere
  BY <1>0, <1>5 DEF Typed, Elsewhere
<1>6. CASE ClientRefuses
  BY <1>0, <1>6 DEF Typed, ClientRefuses
<1>7. CASE Send
  BY <1>0, <1>7 DEF Typed, Send
<1>8. CASE Parse
  BY <1>0, <1>8 DEF Typed, Parse
<1>9. CASE UNCHANGED vars
  BY <1>0, <1>9 DEF Typed, vars
<1>. QED  BY <1>1, <1>2, <1>3, <1>4, <1>5, <1>6, <1>7, <1>8, <1>9, StepIs

-----------------------------------------------------------------------------
(* The path, as far as it is written *)

MeantOf(c, k) ==
  LET v == c.values[k]
      f == c.fields[k]
  IN  IF f.source = "file" THEN <<EscapeHeaderParam(v[1]), v[2], v[3]>>
      ELSE [j \in DOMAIN (IF v = <<>> THEN f.default ELSE v) |->
              Transformed(f, Convert(f.type, (IF v = <<>> THEN f.default ELSE v)[j]).text)]

FitsIn(c) == \A k \in DOMAIN c.fields : c.fields[k].source = "path" => FitsASegment(MeantOf(c, k)[1])

\* The first l fields are those of the path, and stand in it.
PathLaidAt(c, n, p) ==
  FitsIn(c) => \E l \in 0..n : /\ \A k \in 1..n : c.fields[k].source = "path" <=> k <= l
                               /\ IsPathOf(p, [k \in 1..l |-> EncodePath(MeantOf(c, k)[1])])
PathLaid == PathLaidAt(model, at, path)

LEMMA TypedCounts ==
  ASSUME Typed
  PROVE  at \in Nat /\ at <= Len(Fields) /\ Len(Fields) \in Nat /\ DOMAIN Fields = 1..Len(Fields)
<1>1. model \in Cases /\ at \in 0..Len(Fields)
  BY DEF Typed
<1>2. Len(Fields) \in Nat /\ DOMAIN Fields = 1..Len(Fields)
  BY <1>1, FieldsAre
<1>. QED  BY <1>1, <1>2

LEMMA MeantIs == \A k : Meant(k) = MeantOf(model, k)
BY DEF Meant, MeantOf, Fields, All

LEMMA FitsIs == Fits <=> FitsIn(model)
BY MeantIs DEF Fits, FitsIn, PathFields, Fields

LEMMA MeantOfPath ==
  ASSUME NEW c \in Cases, NEW k \in DOMAIN c.fields, c.fields[k].source = "path", NEW v \in Bytes,
         c.values[k] = <<v>>, Printed(c.fields[k].type, v)
  PROVE  /\ MeantOf(c, k) = <<Transformed(c.fields[k], v)>> /\ MeantOf(c, k)[1] = Transformed(c.fields[k], v)
         /\ Transformed(c.fields[k], v) \in Bytes
<1>1. c.fields[k] \in Field
  BY FieldIs DEF FieldIsFit
<1>2. Convert(c.fields[k].type, v).text = v
  BY DEF Printed, Readable
<1>3. MeantOf(c, k) = [j \in DOMAIN <<v>> |-> Transformed(c.fields[k], Convert(c.fields[k].type, <<v>>[j]).text)]
  BY DEF MeantOf
<1>4. MeantOf(c, k) = [j \in 1..1 |-> Transformed(c.fields[k], v)]
  BY <1>2, <1>3
<1>5. MeantOf(c, k) = <<Transformed(c.fields[k], v)>>
  BY <1>4
<1>6. MeantOf(c, k)[1] = Transformed(c.fields[k], v)
  BY <1>5
<1>7. Transformed(c.fields[k], v) \in Bytes
  BY <1>1, ShapedOnce
<1>. QED  BY <1>5, <1>6, <1>7

LEMMA PathLaidFirst == ASSUME Init PROVE PathLaid
<1>1. at = 0 /\ path = <<>>
  BY DEF Init
<1>2. [k \in 1..0 |-> EncodePath(MeantOf(model, k)[1])] = <<>>
  OBVIOUS
<1>3. IsPathOf(path, [k \in 1..0 |-> EncodePath(MeantOf(model, k)[1])])
  BY <1>1, <1>2 DEF IsPathOf
<1>. QED  BY <1>1, <1>3 DEF PathLaid, PathLaidAt

\* A field behind those of the path leaves it as it is.
LEMMA PathStays ==
  ASSUME Typed, PathLaid, at + 1 \in DOMAIN Fields, Fields[at + 1].source # "path",
         at' = at + 1, path' = path, model' = model
  PROVE  PathLaid'
<1>1. PathLaidAt(model, at + 1, path)
  <2>. SUFFICES ASSUME FitsIn(model)
                PROVE  \E l \in 0..(at + 1) :
                         /\ \A k \in 1..(at + 1) : model.fields[k].source = "path" <=> k <= l
                         /\ IsPathOf(path, [k \in 1..l |-> EncodePath(MeantOf(model, k)[1])])
    BY DEF PathLaidAt
  <2>1. PICK l \in 0..at : /\ \A k \in 1..at : model.fields[k].source = "path" <=> k <= l
                           /\ IsPathOf(path, [k \in 1..l |-> EncodePath(MeantOf(model, k)[1])])
    BY DEF PathLaid, PathLaidAt
  <2>2. at \in Nat /\ model.fields[at + 1].source # "path"
    BY FieldsAre DEF Typed, Fields
  <2>3. l \in 0..(at + 1) /\ l \in Nat /\ ~(at + 1 <= l)
    BY <2>1, <2>2
  <2>4. ASSUME NEW k \in 1..(at + 1) PROVE model.fields[k].source = "path" <=> k <= l
    <3>1. CASE k = at + 1
      BY <2>2, <2>3, <3>1
    <3>2. CASE k # at + 1
      <4>1. k \in 1..at
        BY <2>2, <3>2
      <4>. QED  BY <2>1, <4>1
    <3>. QED  BY <3>1, <3>2
  <2>. QED  BY <2>1, <2>3, <2>4
<1>. QED  BY <1>1 DEF PathLaid

LEMMA PathGrows ==
  ASSUME Typed, PathLaid, FillPath, model' = model
  PROVE  PathLaid'
<1>1. at + 1 \in DOMAIN Fields /\ Fields[at + 1].source = "path" /\ at' = at + 1
  BY FillsPath
<1>2. PICK v \in Bytes : /\ model.values[at + 1] = <<v>> /\ Printed(Fields[at + 1].type, v)
                         /\ path' = AppendPathSegment(path, Transformed(Fields[at + 1], v))
  BY FillsPath
<1>3. PICK m : m = MeantOf(model, at + 1)[1]
  OBVIOUS
<1>4. m = Transformed(Fields[at + 1], v) /\ m \in Bytes
  BY <1>1, <1>2, <1>3, MeantOfPath DEF Typed, Fields
<1>5. at \in Nat /\ DOMAIN Fields = 1..Len(Fields) /\ Len(Fields) \in Nat
  BY TypedCounts
<1>6. \A k \in 1..(at + 1) : model.fields[k].source = "path"
  <2>. SUFFICES ASSUME NEW k \in 1..(at + 1) PROVE model.fields[k].source = "path"
    OBVIOUS
  <2>1. k \in DOMAIN model.fields /\ at + 1 \in DOMAIN model.fields /\ model.fields[at + 1].source = "path"
    BY <1>1, <1>5 DEF Fields
  <2>2. k < at + 1 \/ k = at + 1
    BY <1>5
  <2>. QED  BY <2>1, <2>2, RanksGrow DEF Typed
<1>7. ASSUME FitsIn(model)
      PROVE  IsPathOf(path', [k \in 1..(at + 1) |-> EncodePath(MeantOf(model, k)[1])])
  <2>1. PICK l \in 0..at : /\ \A k \in 1..at : model.fields[k].source = "path" <=> k <= l
                           /\ IsPathOf(path, [k \in 1..l |-> EncodePath(MeantOf(model, k)[1])])
    BY <1>7 DEF PathLaid, PathLaidAt
  <2>2. l = at
    <3>1. CASE at = 0
      BY <2>1, <3>1
    <3>2. CASE at # 0
      <4>1. at \in 1..at /\ at \in 1..(at + 1)
        BY <1>5, <3>2
      <4>2. at <= l
        BY <1>6, <2>1, <4>1
      <4>. QED  BY <1>5, <2>1, <4>2
    <3>. QED  BY <3>1, <3>2
  <2>3. PICK parts : parts = [k \in 1..at |-> EncodePath(MeantOf(model, k)[1])]
    OBVIOUS
  <2>4. \A k \in 1..(at + 1) : EncodePath(MeantOf(model, k)[1]) \in Bytes
    <3>. SUFFICES ASSUME NEW k \in 1..(at + 1) PROVE EncodePath(MeantOf(model, k)[1]) \in Bytes
      OBVIOUS
    <3>1. k \in DOMAIN model.fields /\ model.fields[k].source = "path" /\ model \in Cases
      BY <1>1, <1>5, <1>6 DEF Fields, Typed
    <3>2. MeantOf(model, k)[1] \in Bytes
      BY <3>1, PathFieldIs, MeantOfPath
    <3>. QED  BY <3>2, MarksAreBytes, Encodes DEF AmpersandIsByte
  <2>5. parts \in Seq(Bytes) /\ Len(parts) = at
    <3>1. \A k \in 1..at : EncodePath(MeantOf(model, k)[1]) \in Bytes
      BY <1>5, <2>4
    <3>2. parts \in [1..at -> Bytes]
      BY <2>3, <3>1
    <3>. QED  BY <1>5, <3>2
  <2>6. FitsASegment(m)
    BY <1>1, <1>3, <1>7 DEF FitsIn, Fields
  <2>7. IsPathOf(path', Append(parts, EncodePath(m)))
    <3>1. IsPathOf(path, parts)
      BY <2>1, <2>2, <2>3
    <3>. QED  BY <1>2, <1>4, <2>5, <2>6, <3>1, SegmentGoesOn DEF Typed
  <2>8. PICK e \in Bytes : e = EncodePath(m)
    BY <1>4, MarksAreBytes, Encodes DEF AmpersandIsByte
  <2>9. PICK more : more = Append(parts, e)
    OBVIOUS
  <2>10. more \in Seq(Bytes) /\ Len(more) = at + 1 /\ (\A k \in 1..at : more[k] = parts[k]) /\ more[at + 1] = e
    BY <2>5, <2>8, <2>9, AppendProperties
  <2>11. more = [k \in 1..(at + 1) |-> more[k]]
    BY <2>10, SeqDef, LenProperties
  <2>12. ASSUME NEW k \in 1..(at + 1) PROVE more[k] = EncodePath(MeantOf(model, k)[1])
    <3>1. CASE k = at + 1
      BY <1>3, <2>8, <2>10, <3>1
    <3>2. CASE k # at + 1
      <4>1. k \in 1..at
        BY <1>5, <3>2
      <4>. QED  BY <2>3, <2>10, <4>1
    <3>. QED  BY <3>1, <3>2
  <2>13. more = [k \in 1..(at + 1) |-> EncodePath(MeantOf(model, k)[1])]
    BY <2>11, <2>12
  <2>. QED  BY <2>7, <2>8, <2>9, <2>13
<1>8. PathLaidAt(model, at + 1, path')
  <2>1. at + 1 \in 0..(at + 1) /\ \A k \in 1..(at + 1) : model.fields[k].source = "path" <=> k <= at + 1
    BY <1>5, <1>6
  <2>. QED  BY <1>7, <2>1 DEF PathLaidAt
<1>. QED  BY <1>1, <1>8 DEF PathLaid

LEMMA PathLaidStays == ASSUME Typed, PathLaid, [Next]_vars PROVE PathLaid'
<1>1. model' = model
  BY TypedStays
<1>2. CASE FillPath
  BY <1>1, <1>2, PathGrows
<1>3. CASE FillQuery
  <2>1. at + 1 \in DOMAIN Fields /\ Fields[at + 1].source = "query" /\ at' = at + 1
    BY <1>3, FillsQuery
  <2>2. path' = path
    BY <1>3 DEF FillQuery
  <2>. QED  BY <1>1, <2>1, <2>2, PathStays
<1>4. CASE OtherClientWrites
  <2>1. at + 1 \in DOMAIN Fields /\ Fields[at + 1].source = "query" /\ at' = at + 1
    BY <1>4, OthersWrite
  <2>2. path' = path
    BY <1>4 DEF OtherClientWrites
  <2>. QED  BY <1>1, <2>1, <2>2, PathStays
<1>5. CASE BrokenClientWrites
  <2>1. at + 1 \in DOMAIN Fields /\ Fields[at + 1].source = "query" /\ at' = at + 1
    BY <1>5, BrokenWrites
  <2>2. path' = path
    BY <1>5 DEF BrokenClientWrites
  <2>. QED  BY <1>1, <2>1, <2>2, PathStays
<1>6. CASE Elsewhere
  <2>1. at < Len(Fields) /\ Fields[at + 1].source # "path" /\ at' = at + 1 /\ path' = path
    BY <1>6 DEF Elsewhere, Now
  <2>2. at + 1 \in DOMAIN Fields
    BY <2>1, TypedCounts
  <2>. QED  BY <1>1, <2>1, <2>2, PathStays
<1>7. CASE at' = at /\ path' = path
  BY <1>1, <1>7 DEF PathLaid
<1>. QED  BY <1>2, <1>3, <1>4, <1>5, <1>6, <1>7, StepIs DEF ClientRefuses, Send, Parse, vars

-----------------------------------------------------------------------------
(* What the server makes of it *)

LEMMA UrlIsCut == ASSUME Typed PROVE Before(Url, Question) = path /\ RawQuery = query
<1>1. path \in Bytes /\ NoneOf(path, Question) /\ query \in Bytes /\ Question \in Byte
  BY MarksAreBytes DEF Typed, AmpersandIsByte
<1>2. CASE query = <<>>
  <2>1. Url = path
    BY <1>2 DEF Url
  <2>. QED  BY <1>1, <1>2, <2>1, CutNowhere DEF RawQuery
<1>3. CASE query # <<>>
  <2>1. Url = (path \o <<Question>>) \o query
    BY <1>3 DEF Url
  <2>. QED  BY <1>1, <2>1, CutAtMark DEF RawQuery
<1>. QED  BY <1>2, <1>3

LEMMA TailOfSlash == ASSUME NEW t \in Bytes PROVE Tail(<<Slash>> \o t) = t
<1>1. <<Slash>> \in Bytes /\ Len(<<Slash>>) = 1
  BY DEF Bytes, Byte, Slash
<1>2. PICK n \in Nat : n = Len(t)
  BY LenProperties DEF Bytes
<1>3. PICK s \in Bytes : s = <<Slash>> \o t
  BY <1>1, ConcatProperties DEF Bytes
<1>4. Len(s) = n + 1 /\ \A k \in 1..n : s[k + 1] = t[k]
  BY <1>1, <1>2, <1>3, ConcatProperties DEF Bytes
<1>5. s # <<>>
  BY <1>2, <1>4
<1>6. Tail(s) \in Bytes /\ Len(Tail(s)) = n /\ \A k \in 1..n : Tail(s)[k] = s[k + 1]
  BY <1>2, <1>4, <1>5, HeadTailProperties DEF Bytes
<1>. QED  BY <1>2, <1>3, <1>4, <1>6, SameBytes

LEMMA SegmentsAre ==
  ASSUME Typed, PathLaid, stage = "sent", FitsIn(model), NEW k \in DOMAIN Fields, Fields[k].source = "path"
  PROVE  Segments[k] = EncodePath(MeantOf(model, k)[1])
<1>1. PICK l \in 0..at : /\ \A i \in 1..at : model.fields[i].source = "path" <=> i <= l
                         /\ IsPathOf(path, [i \in 1..l |-> EncodePath(MeantOf(model, i)[1])])
  BY DEF PathLaid, PathLaidAt
<1>2. at = Len(Fields) /\ at \in Nat /\ k \in 1..at
  BY TypedCounts DEF Typed
<1>3. k \in 1..l
  BY <1>1, <1>2 DEF Fields
<1>4. PICK parts : parts = [i \in 1..l |-> EncodePath(MeantOf(model, i)[1])]
  OBVIOUS
<1>5. parts # <<>> /\ parts[k] = EncodePath(MeantOf(model, k)[1])
  BY <1>3, <1>4
<1>6. PICK t \in Bytes : path = <<Slash>> \o t /\ Split(t, Slash) = parts
  BY <1>1, <1>4, <1>5 DEF IsPathOf
<1>7. path # <<>>
  BY <1>6, ConcatProperties DEF Bytes, Byte, Slash
<1>8. Segments = parts
  BY <1>6, <1>7, TailOfSlash, UrlIsCut DEF Segments
<1>. QED  BY <1>5, <1>8

LEMMA ParseTells ==
  ASSUME Typed, Parse, outcome'.is = "model", NEW k \in DOMAIN Fields
  PROVE  /\ outcome'.values[k] = [j \in DOMAIN Value(k) |-> Transformed(Fields[k], Value(k)[j].text)]
         /\ \A j \in DOMAIN Value(k) : Value(k)[j].ok
         /\ Value(k) = <<>> => Fields[k].kind # "one"
<1>1. PICK values : values = [i \in DOMAIN Fields |-> Value(i)]
  OBVIOUS
<1>2. outcome' = Answer(values)
  BY <1>1 DEF Parse, Outcome
<1>3. ~(\E i \in DOMAIN Fields : ~IsRead(Fields[i], values[i]))
  BY <1>2 DEF Answer, Outcome
<1>4. outcome' = Outcome("model", [i \in DOMAIN Fields |-> All(values[i], LAMBDA v : Transformed(Fields[i], v.text))])
  BY <1>2 DEF Answer, Outcome
<1>5. outcome'.values = [i \in DOMAIN Fields |-> All(values[i], LAMBDA v : Transformed(Fields[i], v.text))]
  BY <1>4 DEF Outcome
<1>6. values[k] = Value(k)
  BY <1>1
<1>7. outcome'.values[k] = [j \in DOMAIN Value(k) |-> Transformed(Fields[k], Value(k)[j].text)]
  BY <1>5, <1>6 DEF All
<1>8. IsRead(Fields[k], Value(k))
  BY <1>3, <1>6
<1>. QED  BY <1>7, <1>8 DEF IsRead

LEMMA FirstAndNoMore == ASSUME NEW x PROVE FirstOf(<<x>> \o <<>>) = <<x>>
<1>1. <<x>> \in Seq({x})
  OBVIOUS
<1>2. <<x>> \o <<>> = <<x>>
  BY <1>1, ConcatEmptySeq
<1>. QED  BY <1>2 DEF FirstOf

LEMMA PathValueIs ==
  ASSUME Typed, NEW k \in DOMAIN Fields, Fields[k].source = "path"
  PROVE  Value(k) = <<ConvertEncoded(Fields[k].type, Segments[k])>>
<1>1. FieldIsFit(model, k)
  BY FieldsAre DEF Typed
<1>2. Fields[k].default = <<>> /\ Fields[k].kind = "one"
  BY <1>1 DEF FieldIsFit, Compiles, Fields
<1>3. ~ReadAsArray(Fields[k])
  BY DEF ReadAsArray
<1>4. Found(k) = <<ConvertEncoded(Fields[k].type, Segments[k])>>
  BY DEF Found
<1>5. Value(k) = Chosen(Fields[k], Found(k))
  BY <1>3 DEF Value
<1>6. All(Fields[k].default, Readable) = <<>>
  BY <1>2 DEF All
<1>7. Chosen(Fields[k], Found(k)) = FirstOf(Found(k) \o <<>>)
  BY <1>2, <1>6 DEF Chosen
<1>. QED  BY <1>4, <1>5, <1>7, FirstAndNoMore

\* Path values arrive, as PathArrivesButPlus says it, in an outcome o of a case c.
PathTold(c, o) ==
  o.is = "model" /\ FitsIn(c) =>
    \A k \in DOMAIN c.fields :
      c.fields[k].source = "path" => o.values[k] = <<Transformed(c.fields[k], PlusAsSpace(MeantOf(c, k)[1]))>>

LEMMA PathToldIs == ASSUME model \in Cases, PathTold(model, outcome) PROVE PathArrivesButPlus
<1>. SUFFICES ASSUME outcome.is = "model", Fits, NEW k \in PathFields
              PROVE  outcome.values[k] = All(All(Meant(k), PlusAsSpace), LAMBDA t : Transformed(Fields[k], t))
  BY DEF PathArrivesButPlus
<1>1. k \in DOMAIN model.fields /\ model.fields[k].source = "path"
  BY DEF PathFields, Fields
<1>2. outcome.values[k] = <<Transformed(model.fields[k], PlusAsSpace(MeantOf(model, k)[1]))>>
  BY <1>1, FitsIs DEF PathTold
<1>3. PICK m : Meant(k) = <<m>> /\ MeantOf(model, k)[1] = m
  <2>1. PICK v \in Bytes : model.values[k] = <<v>> /\ Printed(model.fields[k].type, v)
    BY <1>1, PathFieldIs
  <2>. QED  BY <1>1, <2>1, MeantIs, MeantOfPath
<1>4. All(Meant(k), PlusAsSpace) = <<PlusAsSpace(m)>>
  BY <1>3 DEF All
<1>5. PICK u : u = PlusAsSpace(m)
  OBVIOUS
<1>6. All(<<u>>, LAMBDA t : Transformed(Fields[k], t)) = <<Transformed(Fields[k], u)>>
  BY DEF All
<1>. QED  BY <1>2, <1>3, <1>4, <1>5, <1>6 DEF Fields

LEMMA ParseTellsPath ==
  ASSUME Typed, PathLaid, Parse
  PROVE  PathTold(model, outcome')
<1>. SUFFICES ASSUME outcome'.is = "model", FitsIn(model), NEW k \in DOMAIN model.fields, model.fields[k].source = "path"
              PROVE  outcome'.values[k] = <<Transformed(model.fields[k], PlusAsSpace(MeantOf(model, k)[1]))>>
  BY DEF PathTold
<1>1. k \in DOMAIN Fields /\ Fields[k].source = "path" /\ stage = "sent" /\ model \in Cases /\ Fields[k] = model.fields[k]
  BY DEF Fields, Parse, Typed
<1>2. PICK v \in Bytes : model.values[k] = <<v>> /\ Printed(model.fields[k].type, v)
  BY <1>1, PathFieldIs
<1>3. PICK m : m = MeantOf(model, k)[1] /\ m = Transformed(model.fields[k], v)
  BY <1>1, <1>2, MeantOfPath
<1>4. PICK x : x = ConvertEncoded(Fields[k].type, EncodePath(m))
  OBVIOUS
<1>5. Value(k) = <<x>>
  <2>1. Segments[k] = EncodePath(m)
    BY <1>1, <1>3, SegmentsAre
  <2>. QED  BY <1>1, <1>4, <2>1, PathValueIs
<1>6. outcome'.values[k] = [j \in DOMAIN Value(k) |-> Transformed(Fields[k], Value(k)[j].text)]
  BY <1>1, ParseTells
<1>7. \A j \in DOMAIN Value(k) : Value(k)[j].ok
  BY <1>1, ParseTells
<1>8. outcome'.values[k] = <<Transformed(Fields[k], x.text)>> /\ x.ok
  BY <1>5, <1>6, <1>7
<1>9. Shapes(Fields[k])
  BY <1>1, FieldsAre
<1>10. Transformed(Fields[k], x.text) = Transformed(Fields[k], PlusAsSpace(m))
  <2>1. ConvertEncoded(Fields[k].type, EncodePath(m)).ok
    BY <1>4, <1>8
  <2>2. Transformed(Fields[k], ConvertEncoded(Fields[k].type, EncodePath(m)).text) = Transformed(Fields[k], PlusAsSpace(m))
    BY <1>1, <1>2, <1>3, <1>9, <2>1, PathValueRead
  <2>. QED  BY <1>4, <2>2
<1>. QED  BY <1>1, <1>3, <1>8, <1>10

\* Nothing but parse answers with a model, and nothing follows its answer.
LEMMA OnlyParseAnswers ==
  ASSUME Typed, [Next]_vars
  PROVE  Parse \/ outcome' = outcome \/ outcome'.is # "model"
<1>1. CASE FillPath \/ FillQuery
  BY <1>1 DEF FillPath, FillQuery, Written
<1>2. CASE OtherClientWrites \/ BrokenClientWrites \/ Elsewhere
  BY <1>2 DEF OtherClientWrites, BrokenClientWrites, Written, Elsewhere
<1>3. CASE ClientRefuses
  BY <1>3 DEF ClientRefuses, Outcome
<1>4. CASE Send \/ UNCHANGED vars
  BY <1>4 DEF Send, vars
<1>. QED  BY <1>1, <1>2, <1>3, <1>4, StepIs

-----------------------------------------------------------------------------
(* Theorems *)

PathInvariant == Typed /\ PathLaid /\ PathTold(model, outcome)

LEMMA PathInvariantStays == ASSUME PathInvariant, [Next]_vars PROVE PathInvariant'
<1>1. Typed' /\ model' = model /\ PathLaid'
  BY TypedStays, PathLaidStays DEF PathInvariant
<1>2. PathTold(model, outcome')
  <2>1. CASE Parse
    BY <2>1, ParseTellsPath DEF PathInvariant
  <2>2. CASE outcome' = outcome
    BY <2>2 DEF PathInvariant
  <2>3. CASE outcome'.is # "model"
    BY <2>3 DEF PathTold
  <2>. QED  BY <2>1, <2>2, <2>3, OnlyParseAnswers DEF PathInvariant
<1>. QED  BY <1>1, <1>2 DEF PathInvariant

\* A path value of any model and any length arrives in its own segment, whatever bytes are in it and
\* in its neighbours, as the client's directives made it but for its pluses: append_path_segment, the
\* cut of the url into path and query and into segments, read_path_value.
THEOREM PathArrives == Spec => []PathArrivesButPlus
<1>1. Init => PathInvariant
  BY TypedFirst, PathLaidFirst DEF PathInvariant, PathTold, Init, Outcome
<1>2. PathInvariant /\ [Next]_vars => PathInvariant'
  BY PathInvariantStays
<1>3. PathInvariant => PathArrivesButPlus
  BY PathToldIs DEF PathInvariant, Typed
<1>. QED  BY <1>1, <1>2, <1>3, PTL DEF Spec

-----------------------------------------------------------------------------
(* The query, as far as it is written *)

\* What may stand in the query for a field.
LaidOut(c, k, laid) ==
  /\ c.client = "ours" => laid = EncodedAll(Shaped(c, k))
  /\ c.client = "other" =>
       \/ c.values[k] = <<>> /\ laid = <<>>
       \/ c.values[k] # <<>> /\ \E w \in Bytes : laid = <<w>> /\ SpeltRight(w, Head(c.values[k]))
  /\ c.client = "broken" =>
       \/ laid = <<>> /\ c.fields[k].kind = "one" /\ c.fields[k].default = <<>>
       \/ \E w \in Malformed[c.fields[k].type] : laid = <<w>>

QueryLaidAt(c, n, q) ==
  \A k \in DOMAIN c.fields :
    c.fields[k].source = "query" =>
      /\ k > n => GetVec(q, c.fields[k].name) = <<>>
      /\ k <= n => LaidOut(c, k, GetVec(q, c.fields[k].name))
QueryLaid == QueryLaidAt(model, at, query)

LEMMA QueryGoesOn ==
  ASSUME NEW c \in Cases, NEW n \in Nat, NEW q, NEW more, QueryLaidAt(c, n, q), n + 1 \in DOMAIN c.fields,
         \A k \in DOMAIN c.fields :
           c.fields[k].source = "query" /\ k # n + 1 => GetVec(more, c.fields[k].name) = GetVec(q, c.fields[k].name),
         c.fields[n + 1].source = "query" => LaidOut(c, n + 1, GetVec(more, c.fields[n + 1].name))
  PROVE  QueryLaidAt(c, n + 1, more)
<1>. SUFFICES ASSUME NEW k \in DOMAIN c.fields, c.fields[k].source = "query"
              PROVE  /\ k > n + 1 => GetVec(more, c.fields[k].name) = <<>>
                     /\ k <= n + 1 => LaidOut(c, k, GetVec(more, c.fields[k].name))
  BY DEF QueryLaidAt
<1>1. k \in Nat
  BY CaseIs, LenProperties
<1>2. CASE k = n + 1
  BY <1>1, <1>2
<1>3. CASE k # n + 1
  <2>1. GetVec(more, c.fields[k].name) = GetVec(q, c.fields[k].name)
    BY <1>3
  <2>2. /\ k > n => GetVec(q, c.fields[k].name) = <<>>
        /\ k <= n => LaidOut(c, k, GetVec(q, c.fields[k].name))
    BY DEF QueryLaidAt
  <2>3. (k > n + 1 => k > n) /\ (k <= n + 1 => k <= n)
    BY <1>1, <1>3
  <2>. QED  BY <2>1, <2>2, <2>3
<1>. QED  BY <1>2, <1>3

LEMMA OneMoreIsFound ==
  ASSUME NEW q \in Bytes, NEW name \in Bytes, ~IsSuffix(Brackets, name), NEW w \in Bytes, NoneOf(w, Ampersand),
         GetVec(q, name) = <<>>
  PROVE  GetVec(AppendQueryParam(q, name, w), name) = <<w>>
<1>1. GetVec(AppendQueryParam(q, name, w), name) = IF name = name THEN Append(GetVec(q, name), w) ELSE GetVec(q, name)
  BY QueryGrows
<1>2. Append(<<>>, w) = <<w>>
  OBVIOUS
<1>. QED  BY <1>1, <1>2

LEMMA OthersAreKept ==
  ASSUME NEW q \in Bytes, NEW name \in Bytes, ~IsSuffix(Brackets, name), NEW w \in Bytes, NoneOf(w, Ampersand),
         NEW other, other # name
  PROVE  GetVec(AppendQueryParam(q, name, w), other) = GetVec(q, other)
<1>1. GetVec(AppendQueryParam(q, name, w), other) = IF name = other THEN Append(GetVec(q, other), w) ELSE GetVec(q, other)
  BY QueryGrows
<1>. QED  BY <1>1

LEMMA QueryLaidFirst == ASSUME Init PROVE QueryLaid
<1>1. model \in Cases /\ at = 0 /\ query = <<>>
  BY DEF Init
<1>2. ASSUME NEW k \in DOMAIN model.fields
      PROVE  k > 0 /\ ~(k <= 0) /\ GetVec(query, model.fields[k].name) = <<>>
  <2>1. k \in Nat /\ k > 0
    BY <1>1, CaseIs, LenProperties
  <2>2. <<>> \in Bytes
    BY EmptySeq DEF Bytes
  <2>. QED  BY <1>1, <2>1, <2>2, QueryOfPairs
<1>. QED  BY <1>1, <1>2 DEF QueryLaid, QueryLaidAt

LEMMA QueryLaidStays == ASSUME Typed, QueryLaid, [Next]_vars PROVE QueryLaid'
<1>1. model' = model /\ model \in Cases /\ query \in Bytes /\ at \in Nat
  BY TypedStays, TypedCounts DEF Typed
<1>2. CASE FillPath
  <2>1. at + 1 \in DOMAIN Fields /\ Fields[at + 1].source = "path" /\ at' = at + 1
    BY <1>2, FillsPath
  <2>2. query' = query
    BY <1>2 DEF FillPath
  <2>3. QueryLaidAt(model, at + 1, query)
    BY <1>1, <2>1, QueryGoesOn DEF QueryLaid, Fields
  <2>. QED  BY <1>1, <2>1, <2>2, <2>3 DEF QueryLaid
<1>3. CASE FillQuery
  <2>1. /\ at + 1 \in DOMAIN Fields /\ Fields[at + 1].source = "query" /\ at' = at + 1 /\ model.client = "ours"
        /\ Shaped(model, at + 1) \in Seq(Bytes)
        /\ query' = AppendQueryValues(query, Fields[at + 1].name, Shaped(model, at + 1))
    BY <1>3, FillsQuery
  <2>2. Fields[at + 1].name \in Bytes /\ ~IsSuffix(Brackets, Fields[at + 1].name)
    BY <1>1, <2>1, NameIsBytes
  <2>3. GetVec(query, Fields[at + 1].name) = <<>>
    BY <1>1, <2>1 DEF QueryLaid, QueryLaidAt, Fields
  <2>4. ASSUME NEW other, other # Fields[at + 1].name
        PROVE  GetVec(query', other) = GetVec(query, other)
    BY <1>1, <2>1, <2>2, <2>3, <2>4, QueryIsFilled
  <2>5. GetVec(query', Fields[at + 1].name) = EncodedAll(Shaped(model, at + 1))
    <3>1. PICK name \in Bytes : name = Fields[at + 1].name
      BY <2>2
    <3>2. PICK values \in Seq(Bytes) : values = Shaped(model, at + 1)
      BY <2>1
    <3>3. PICK other : other # name
      <4>1. PICK other : other \notin {name}
        BY NoSetContainsEverything
      <4>. QED  BY <4>1
    <3>4. ~IsSuffix(Brackets, name) /\ GetVec(query, name) = <<>>
      BY <2>2, <2>3, <3>1
    <3>5. GetVec(AppendQueryValues(query, name, values), name) = EncodedAll(values)
      BY <1>1, <3>3, <3>4, QueryIsFilled
    <3>. QED  BY <2>1, <3>1, <3>2, <3>5
  <2>6. ASSUME NEW k \in DOMAIN model.fields, model.fields[k].source = "query", k # at + 1
        PROVE  GetVec(query', model.fields[k].name) = GetVec(query, model.fields[k].name)
    <3>1. model.fields[k].name # Fields[at + 1].name
      BY <1>1, <2>1, <2>6, NamesDiffer DEF Fields
    <3>. QED  BY <2>4, <3>1
  <2>7. LaidOut(model, at + 1, GetVec(query', model.fields[at + 1].name))
    BY <2>1, <2>5 DEF LaidOut, Fields
  <2>8. QueryLaidAt(model, at + 1, query')
    BY <1>1, <2>1, <2>6, <2>7, QueryGoesOn DEF QueryLaid, Fields
  <2>. QED  BY <1>1, <2>1, <2>8 DEF QueryLaid
<1>4. CASE OtherClientWrites
  <2>1. /\ at + 1 \in DOMAIN Fields /\ Fields[at + 1].source = "query" /\ at' = at + 1 /\ model.client = "other"
        /\ model.values[at + 1] # <<>> /\ Head(model.values[at + 1]) \in Bytes
    BY <1>4, OthersWrite
  <2>2. PICK w \in Spelt(Head(model.values[at + 1])) :
          query' = AppendQueryParam(query, Fields[at + 1].name, w) \o <<Ampersand>>
    BY <1>4, OthersWrite
  <2>3. SpeltRight(w, Head(model.values[at + 1])) /\ w \in Bytes /\ NoneOf(w, Ampersand)
    BY <2>1, <2>2, SpellingsAreRead DEF SpeltRight
  <2>4. Fields[at + 1].name \in Bytes /\ ~IsSuffix(Brackets, Fields[at + 1].name)
    BY <1>1, <2>1, NameIsBytes
  <2>5. GetVec(query, Fields[at + 1].name) = <<>>
    BY <1>1, <2>1 DEF QueryLaid, QueryLaidAt, Fields
  <2>6. PICK longer \in Bytes : longer = AppendQueryParam(query, Fields[at + 1].name, w)
    BY <1>1, <2>3, <2>4, ParamIsBytes
  <2>7. \A other : GetVec(query', other) = GetVec(longer, other)
    BY <2>2, <2>6, EmptyPairIsNone
  <2>8. GetVec(query', Fields[at + 1].name) = <<w>>
    <3>1. GetVec(longer, Fields[at + 1].name) = <<w>>
      BY <1>1, <2>3, <2>4, <2>5, <2>6, OneMoreIsFound
    <3>. QED  BY <2>7, <3>1
  <2>9. ASSUME NEW k \in DOMAIN model.fields, model.fields[k].source = "query", k # at + 1
        PROVE  GetVec(query', model.fields[k].name) = GetVec(query, model.fields[k].name)
    <3>1. model.fields[k].name # Fields[at + 1].name
      BY <1>1, <2>1, <2>9, NamesDiffer DEF Fields
    <3>2. GetVec(longer, model.fields[k].name) = GetVec(query, model.fields[k].name)
      BY <1>1, <2>3, <2>4, <2>6, <3>1, OthersAreKept
    <3>. QED  BY <2>7, <3>2
  <2>10. LaidOut(model, at + 1, GetVec(query', model.fields[at + 1].name))
    BY <2>1, <2>3, <2>8 DEF LaidOut, Fields
  <2>11. QueryLaidAt(model, at + 1, query')
    BY <1>1, <2>1, <2>9, <2>10, QueryGoesOn DEF QueryLaid, Fields
  <2>. QED  BY <1>1, <2>1, <2>11 DEF QueryLaid
<1>5. CASE BrokenClientWrites
  <2>1. at + 1 \in DOMAIN Fields /\ Fields[at + 1].source = "query" /\ at' = at + 1 /\ model.client = "broken"
    BY <1>5, BrokenWrites
  <2>2. PICK w \in Malformed[Fields[at + 1].type] :
          w \in Bytes /\ NoneOf(w, Ampersand) /\ query' = AppendQueryParam(query, Fields[at + 1].name, w)
    BY <1>5, BrokenWrites
  <2>3. Fields[at + 1].name \in Bytes /\ ~IsSuffix(Brackets, Fields[at + 1].name)
    BY <1>1, <2>1, NameIsBytes
  <2>5. GetVec(query, Fields[at + 1].name) = <<>>
    BY <1>1, <2>1 DEF QueryLaid, QueryLaidAt, Fields
  <2>6. GetVec(query', Fields[at + 1].name) = <<w>>
    BY <1>1, <2>2, <2>3, <2>5, OneMoreIsFound
  <2>7. ASSUME NEW k \in DOMAIN model.fields, model.fields[k].source = "query", k # at + 1
        PROVE  GetVec(query', model.fields[k].name) = GetVec(query, model.fields[k].name)
    <3>1. model.fields[k].name # Fields[at + 1].name
      BY <1>1, <2>1, <2>7, NamesDiffer DEF Fields
    <3>. QED  BY <1>1, <2>2, <2>3, <3>1, OthersAreKept
  <2>8. LaidOut(model, at + 1, GetVec(query', model.fields[at + 1].name))
    BY <2>1, <2>2, <2>6 DEF LaidOut, Fields
  <2>9. QueryLaidAt(model, at + 1, query')
    BY <1>1, <2>1, <2>7, <2>8, QueryGoesOn DEF QueryLaid, Fields
  <2>. QED  BY <1>1, <2>1, <2>9 DEF QueryLaid
<1>6. CASE Elsewhere
  <2>1. at < Len(Fields) /\ at' = at + 1 /\ query' = query /\ (Fields[at + 1].source = "query" => LeaveOut)
    BY <1>6 DEF Elsewhere, Now
  <2>2. at + 1 \in DOMAIN Fields
    BY <2>1, TypedCounts
  <2>3. ASSUME Fields[at + 1].source = "query" PROVE LaidOut(model, at + 1, GetVec(query, Fields[at + 1].name))
    <3>1. GetVec(query, Fields[at + 1].name) = <<>>
      BY <1>1, <2>2, <2>3 DEF QueryLaid, QueryLaidAt, Fields
    <3>2. \/ model.client = "other" /\ model.values[at + 1] = <<>>
          \/ model.client = "broken" /\ Fields[at + 1].kind = "one" /\ Fields[at + 1].default = <<>>
      BY <2>1, <2>3 DEF LeaveOut, Now
    <3>. QED  BY <3>1, <3>2 DEF LaidOut, Fields
  <2>4. QueryLaidAt(model, at + 1, query)
    BY <1>1, <2>2, <2>3, QueryGoesOn DEF QueryLaid, Fields
  <2>. QED  BY <1>1, <2>1, <2>4 DEF QueryLaid
<1>7. CASE at' = at /\ query' = query
  BY <1>1, <1>7 DEF QueryLaid
<1>. QED  BY <1>2, <1>3, <1>4, <1>5, <1>6, <1>7, StepIs DEF ClientRefuses, Send, Parse, vars

-----------------------------------------------------------------------------
(* What the server makes of the query *)

LEMMA QueryValueIs ==
  ASSUME Typed, NEW k \in DOMAIN Fields, Fields[k].source = "query",
         NEW laid, laid = GetVec(query, Fields[k].name)
  PROVE  Value(k) = Chosen(Fields[k], [j \in DOMAIN laid |-> ConvertEncoded(Fields[k].type, laid[j])])
<1>1. ~ReadAsArray(Fields[k])
  BY DEF ReadAsArray
<1>2. Pairs(k) = laid
  BY UrlIsCut DEF Pairs
<1>3. Found(k) = [j \in DOMAIN laid |-> ConvertEncoded(Fields[k].type, laid[j])]
  BY <1>2 DEF Found, All
<1>. QED  BY <1>1, <1>3 DEF Value

LEMMA DefaultsAre ==
  ASSUME NEW f \in Field
  PROVE  All(f.default, Readable) \in Seq({Readable(t) : t \in Bytes})
<1>1. PICK d \in Seq(Bytes) : d = f.default
  BY DEF Field, Bytes
<1>2. PICK n \in Nat : n = Len(d) /\ DOMAIN d = 1..n
  BY <1>1, LenProperties
<1>3. \A j \in 1..n : d[j] \in Bytes
  BY <1>2, ElementOfSeq
<1>4. All(f.default, Readable) = [j \in 1..n |-> Readable(d[j])]
  BY <1>1, <1>2 DEF All
<1>5. PICK R : R = {Readable(t) : t \in Bytes}
  OBVIOUS
<1>6. \A j \in 1..n : Readable(d[j]) \in R
  BY <1>3, <1>5
<1>7. PICK s : s = [j \in 1..n |-> Readable(d[j])]
  OBVIOUS
<1>8. s \in [1..n -> R]
  BY <1>6, <1>7
<1>9. s \in Seq(R)
  BY <1>8
<1>. QED  BY <1>4, <1>5, <1>7, <1>9

LEMMA FirstStands ==
  ASSUME NEW S, NEW s \in Seq(S), NEW x
  PROVE  FirstOf(<<x>> \o s) = <<x>>
<1>1. <<x>> \in Seq(S \cup {x}) /\ s \in Seq(S \cup {x}) /\ Len(<<x>>) = 1 /\ <<x>>[1] = x
  OBVIOUS
<1>2. PICK u \in Seq(S \cup {x}) : u = <<x>> \o s
  BY <1>1, ConcatProperties
<1>3. Len(u) = 1 + Len(s) /\ Len(s) \in Nat /\ u[1] = x
  BY <1>1, <1>2, ConcatProperties, LenProperties
<1>4. u # <<>>
  BY <1>3
<1>5. Head(u) = u[1]
  BY <1>4, HeadTailProperties
<1>. QED  BY <1>2, <1>3, <1>4, <1>5 DEF FirstOf

\* The one value in the query is the one that is taken.
LEMMA OneIsTaken ==
  ASSUME Typed, NEW k \in DOMAIN Fields, Fields[k].source = "query", NEW w, GetVec(query, Fields[k].name) = <<w>>
  PROVE  Value(k) = <<ConvertEncoded(Fields[k].type, w)>>
<1>1. PICK x : x = ConvertEncoded(Fields[k].type, w)
  OBVIOUS
<1>2. [j \in DOMAIN <<w>> |-> ConvertEncoded(Fields[k].type, <<w>>[j])] = <<x>>
  BY <1>1
<1>3. Value(k) = Chosen(Fields[k], <<x>>)
  BY <1>2, QueryValueIs
<1>4. CASE Fields[k].kind = "vec"
  BY <1>1, <1>3, <1>4 DEF Chosen
<1>5. CASE Fields[k].kind # "vec"
  <2>1. Chosen(Fields[k], <<x>>) = FirstOf(<<x>> \o All(Fields[k].default, Readable))
    BY <1>5 DEF Chosen
  <2>2. Fields[k] \in Field
    BY FieldsAre DEF Typed
  <2>3. FirstOf(<<x>> \o All(Fields[k].default, Readable)) = <<x>>
    BY <2>2, DefaultsAre, FirstStands
  <2>. QED  BY <1>1, <1>3, <2>1, <2>3
<1>. QED  BY <1>4, <1>5

\* Where there is none, it is the default.
LEMMA NoneIsDefault ==
  ASSUME Typed, NEW k \in DOMAIN Fields, Fields[k].source = "query", GetVec(query, Fields[k].name) = <<>>
  PROVE  Value(k) = [j \in DOMAIN Fields[k].default |-> Readable(Fields[k].default[j])]
<1>1. [j \in DOMAIN <<>> |-> ConvertEncoded(Fields[k].type, <<>>[j])] = <<>>
  OBVIOUS
<1>2. Value(k) = Chosen(Fields[k], <<>>)
  BY <1>1, QueryValueIs
<1>3. Fields[k] \in Field /\ FieldIsFit(model, k)
  BY FieldsAre DEF Typed
<1>4. Compiles(Fields[k])
  BY <1>3 DEF FieldIsFit, Fields
<1>5. PICK d \in Seq(Bytes) : d = Fields[k].default
  BY <1>3 DEF Field, Bytes
<1>6. Len(d) <= 1 /\ (Fields[k].kind = "vec" => d = <<>>)
  BY <1>4, <1>5 DEF Compiles
<1>7. CASE d = <<>>
  <2>1. All(Fields[k].default, Readable) = <<>> /\ [j \in DOMAIN Fields[k].default |-> Readable(Fields[k].default[j])] = <<>>
    BY <1>5, <1>7 DEF All
  <2>2. <<>> \o <<>> = <<>>
    OBVIOUS
  <2>. QED  BY <1>2, <2>1, <2>2 DEF Chosen, FirstOf
<1>8. CASE d # <<>>
  <2>1. Len(d) = 1 /\ Fields[k].kind # "vec"
    <3>1. Len(d) \in Nat /\ Len(d) # 0
      BY <1>8, LenProperties, EmptySeq
    <3>. QED  BY <1>6, <1>8, <3>1
  <2>2. PICK t \in Bytes : d = <<t>>
    <3>1. d[1] \in Bytes
      BY <2>1, ElementOfSeq
    <3>2. d = <<d[1]>>
      BY <2>1
    <3>. QED  BY <3>1, <3>2
  <2>3. PICK x : x = Readable(t)
    OBVIOUS
  <2>4. All(Fields[k].default, Readable) = <<x>> /\ [j \in DOMAIN Fields[k].default |-> Readable(Fields[k].default[j])] = <<x>>
    BY <1>5, <2>2, <2>3 DEF All
  <2>5. <<>> \o <<x>> = <<x>>
    <3>1. <<x>> \in Seq({x})
      OBVIOUS
    <3>. QED  BY <3>1, ConcatEmptySeq
  <2>6. Chosen(Fields[k], <<>>) = FirstOf(<<x>>)
    BY <2>1, <2>4, <2>5 DEF Chosen
  <2>. QED  BY <1>2, <2>4, <2>6 DEF FirstOf
<1>. QED  BY <1>7, <1>8

\* A bool is read as it stands, so only an unescaped one is read at all.
LEMMA BoolIsBare ==
  ASSUME NEW w \in Bytes, ToBool(w).ok
  PROVE  NoneOf(w, Percent) /\ NoneOf(w, Plus)
<1>1. w = <<49>> \/ All(w, Lower) = True \/ w = <<48>> \/ All(w, Lower) = False
  BY DEF ToBool, Unreadable
<1>2. CASE w = <<49>> \/ w = <<48>>
  BY <1>2 DEF NoneOf, Percent, Plus
<1>3. CASE All(w, Lower) = True \/ All(w, Lower) = False
  <2>1. [k \in DOMAIN w |-> Lower(w[k])] \in {True, False}
    BY <1>3 DEF All
  <2>2. PICK u \in {True, False} : u = [k \in DOMAIN w |-> Lower(w[k])]
    BY <2>1
  <2>3. DOMAIN u = DOMAIN w /\ \A k \in DOMAIN w : u[k] = Lower(w[k])
    BY <2>2
  <2>4. \A k \in DOMAIN u : u[k] \in 97..122
    BY DEF True, False
  <2>5. ASSUME NEW k \in DOMAIN w PROVE w[k] # Percent /\ w[k] # Plus
    <3>1. Lower(w[k]) \in 97..122
      BY <2>3, <2>4
    <3>. QED  BY <3>1 DEF Lower, Capitals, Percent, Plus
  <2>. QED  BY <2>5 DEF NoneOf
<1>. QED  BY <1>1, <1>2, <1>3

\* However a text is spelt, what is read of it is what its type makes of the text.
LEMMA SpeltIsConverted ==
  ASSUME NEW type \in Types, NEW t \in Bytes, NEW w \in Bytes, SpeltRight(w, t), ConvertEncoded(type, w).ok
  PROVE  ConvertEncoded(type, w) = Convert(type, t)
<1>1. CASE type = "bool"
  <2>1. ConvertEncoded(type, w) = ToBool(w) /\ Convert(type, t) = ToBool(t)
    BY <1>1 DEF ConvertEncoded, Convert
  <2>2. ToBool(w).ok
    BY <2>1
  <2>3. w = t
    BY <2>2, BoolIsBare DEF SpeltRight
  <2>. QED  BY <2>1, <2>3
<1>2. CASE type # "bool"
  <2>1. Decode(w) = [ok |-> IsUtf8(t), text |-> t]
    BY CleanIsDecoded DEF SpeltRight
  <2>2. Decode(w).text = t
    BY <2>1
  <2>3. PICK d : d = Decode(w)
    OBVIOUS
  <2>4. ConvertEncoded(type, w) = IF d.ok THEN Convert(type, d.text) ELSE Unreadable
    BY <1>2, <2>3 DEF ConvertEncoded
  <2>5. d.ok
    BY <2>4 DEF Unreadable
  <2>. QED  BY <2>2, <2>3, <2>4, <2>5
<1>. QED  BY <1>1, <1>2

LEMMA MeantOfQuery ==
  ASSUME NEW c, NEW k, c.fields[k].source = "query",
         NEW v, v = IF c.values[k] = <<>> THEN c.fields[k].default ELSE c.values[k]
  PROVE  MeantOf(c, k) = [j \in DOMAIN v |-> Transformed(c.fields[k], Convert(c.fields[k].type, v[j]).text)]
BY DEF MeantOf

\* Query values arrive in an outcome o of a case c.
QueryTold(c, o) ==
  o.is = "model" /\ c.client # "broken" =>
    \A k \in DOMAIN c.fields : c.fields[k].source = "query" => o.values[k] = MeantOf(c, k)

\* No value.
LEMMA DefaultArrives ==
  ASSUME Typed, NEW k \in DOMAIN Fields, Fields[k].source = "query", model.values[k] = <<>>,
         GetVec(query, Fields[k].name) = <<>>
  PROVE  [j \in DOMAIN Value(k) |-> Transformed(Fields[k], Value(k)[j].text)] = MeantOf(model, k)
<1>1. PICK d : d = Fields[k].default
  OBVIOUS
<1>2. Value(k) = [j \in DOMAIN d |-> Readable(d[j])]
  BY <1>1, NoneIsDefault
<1>3. MeantOf(model, k) = [j \in DOMAIN d |-> Transformed(Fields[k], Convert(Fields[k].type, d[j]).text)]
  BY <1>1, MeantOfQuery DEF Fields
<1>4. FieldIsFit(model, k)
  BY FieldsAre DEF Typed
<1>5. \A j \in DOMAIN d : Printed(Fields[k].type, d[j])
  BY <1>1, <1>4 DEF FieldIsFit, Fields
<1>6. ASSUME NEW j \in DOMAIN d
      PROVE  Value(k)[j].text = Convert(Fields[k].type, d[j]).text
  <2>1. Value(k)[j] = Readable(d[j])
    BY <1>2
  <2>2. Convert(Fields[k].type, d[j]) = Readable(d[j])
    BY <1>5 DEF Printed
  <2>. QED  BY <2>1, <2>2
<1>7. DOMAIN Value(k) = DOMAIN d
  BY <1>2
<1>. QED  BY <1>3, <1>6, <1>7

\* One value, or the items of a Vec, from the client of the model.
LEMMA OursArrive ==
  ASSUME Typed, NEW k \in DOMAIN Fields, Fields[k].source = "query", model.client = "ours",
         GetVec(query, Fields[k].name) = EncodedAll(Shaped(model, k)), model.values[k] # <<>>,
         \A j \in DOMAIN Value(k) : Value(k)[j].ok
  PROVE  [j \in DOMAIN Value(k) |-> Transformed(Fields[k], Value(k)[j].text)] = MeantOf(model, k)
<1>1. FieldIsFit(model, k) /\ Shapes(Fields[k]) /\ model.values[k] \in Seq(Bytes) /\ model \in Cases
  BY FieldsAre DEF Typed
<1>2. PICK v \in Seq(Bytes) : v = model.values[k]
  BY <1>1
<1>3. DOMAIN Shaped(model, k) = DOMAIN v /\ \A j \in DOMAIN v : Shaped(model, k)[j] = Transformed(Fields[k], v[j])
  BY <1>2 DEF Shaped, Fields
<1>4. PICK laid : laid = GetVec(query, Fields[k].name)
  OBVIOUS
<1>5. DOMAIN laid = DOMAIN v /\ \A j \in DOMAIN v : laid[j] = EncodeQuery(Transformed(Fields[k], v[j]))
  BY <1>3, <1>4 DEF EncodedAll
<1>6. Value(k) = [j \in DOMAIN v |-> ConvertEncoded(Fields[k].type, laid[j])]
  <2>1. Value(k) = Chosen(Fields[k], [j \in DOMAIN laid |-> ConvertEncoded(Fields[k].type, laid[j])])
    BY <1>4, QueryValueIs
  <2>2. CASE Fields[k].kind = "vec"
    BY <1>5, <2>1, <2>2 DEF Chosen
  <2>3. CASE Fields[k].kind # "vec"
    <3>1. HasValuesOf(Fields[k], v, "ours") /\ Fields[k].kind \in {"one", "option"}
      BY <1>1, <1>2, <2>3 DEF FieldIsFit, Fields, Field
    <3>2. Len(v) = 1 \/ Len(v) <= 1
      BY <3>1 DEF HasValuesOf
    <3>3. Len(v) \in Nat /\ Len(v) # 0
      BY <1>2, LenProperties, EmptySeq
    <3>4. DOMAIN v = 1..1
      <4>1. PICK n \in Nat : n = Len(v)
        BY <3>3
      <4>2. n # 0 /\ (n = 1 \/ n <= 1)
        BY <3>2, <3>3, <4>1
      <4>3. n = 1
        BY <4>2
      <4>4. DOMAIN v = 1..Len(v)
        BY LenProperties
      <4>. QED  BY <4>1, <4>3, <4>4
    <3>5. laid = EncodedAll(Shaped(model, k)) /\ DOMAIN laid = 1..1
      BY <1>4, <1>5, <3>4
    <3>6. PICK w : w = laid[1]
      OBVIOUS
    <3>7. laid = <<w>>
      BY <3>5, <3>6 DEF EncodedAll
    <3>8. Value(k) = <<ConvertEncoded(Fields[k].type, w)>>
      BY <1>4, <3>7, OneIsTaken
    <3>. QED  BY <3>4, <3>6, <3>8
  <2>. QED  BY <2>2, <2>3
<1>7. ASSUME NEW j \in DOMAIN v
      PROVE  Transformed(Fields[k], Value(k)[j].text) = Transformed(Fields[k], Convert(Fields[k].type, v[j]).text)
  <2>1. v[j] \in Bytes
    BY <1>2, LenProperties, ElementOfSeq
  <2>2. PICK t \in Bytes : t = v[j]
    BY <2>1
  <2>3. Printed(Fields[k].type, t)
    <3>1. HasValuesOf(Fields[k], v, "ours")
      BY <1>1, <1>2 DEF FieldIsFit, Fields
    <3>. QED  BY <2>2, <3>1 DEF HasValuesOf
  <2>4. PICK m : m = Transformed(Fields[k], t)
    OBVIOUS
  <2>5. Value(k)[j] = ConvertEncoded(Fields[k].type, EncodeQuery(m))
    BY <1>5, <1>6, <2>2, <2>4
  <2>6. ConvertEncoded(Fields[k].type, EncodeQuery(m)).ok
    BY <1>6, <2>5
  <2>7. Transformed(Fields[k], ConvertEncoded(Fields[k].type, EncodeQuery(m)).text) = m
    BY <1>1, <2>3, <2>4, <2>6, QueryValueRead
  <2>8. Convert(Fields[k].type, t).text = t
    BY <2>3 DEF Printed, Readable
  <2>. QED  BY <2>2, <2>4, <2>5, <2>7, <2>8
<1>8. MeantOf(model, k) = [j \in DOMAIN v |-> Transformed(Fields[k], Convert(Fields[k].type, v[j]).text)]
  BY <1>2, MeantOfQuery DEF Fields
<1>9. DOMAIN Value(k) = DOMAIN v
  BY <1>6
<1>. QED  BY <1>7, <1>8, <1>9

\* One value, as another client spelt it.
LEMMA OthersArrive ==
  ASSUME Typed, NEW k \in DOMAIN Fields, Fields[k].source = "query", model.client = "other", model.values[k] # <<>>,
         NEW w \in Bytes, GetVec(query, Fields[k].name) = <<w>>, SpeltRight(w, Head(model.values[k])),
         \A j \in DOMAIN Value(k) : Value(k)[j].ok
  PROVE  [j \in DOMAIN Value(k) |-> Transformed(Fields[k], Value(k)[j].text)] = MeantOf(model, k)
<1>1. FieldIsFit(model, k) /\ Fields[k] \in Field /\ model.values[k] \in Seq(Bytes)
  BY FieldsAre DEF Typed
<1>2. PICK v \in Seq(Bytes) : v = model.values[k]
  BY <1>1
<1>3. HasValuesOf(Fields[k], v, "other") /\ Fields[k].kind \in {"one", "option"}
  BY <1>1, <1>2 DEF FieldIsFit, Fields, Field
<1>4. Len(v) = 1 \/ Len(v) = 0 \/ Len(v) <= 1
  BY <1>3 DEF HasValuesOf
<1>5. Len(v) \in Nat /\ Len(v) # 0
  BY <1>2, LenProperties, EmptySeq
<1>6. PICK t \in Bytes : v = <<t>>
  BY <1>4, <1>5
<1>7. Head(v) = t
  BY <1>6
<1>8. PICK x : x = ConvertEncoded(Fields[k].type, w)
  OBVIOUS
<1>9. Value(k) = <<x>>
  BY <1>8, OneIsTaken
<1>10. x.ok
  BY <1>9
<1>11. x = Convert(Fields[k].type, t)
  <2>1. SpeltRight(w, t) /\ Fields[k].type \in Types
    BY <1>1, <1>2, <1>7 DEF Field
  <2>. QED  BY <1>8, <1>10, <2>1, SpeltIsConverted
<1>12. MeantOf(model, k) = [j \in DOMAIN v |-> Transformed(Fields[k], Convert(Fields[k].type, v[j]).text)]
  BY <1>2, MeantOfQuery DEF Fields
<1>13. MeantOf(model, k) = <<Transformed(Fields[k], x.text)>>
  BY <1>6, <1>11, <1>12
<1>. QED  BY <1>9, <1>13

LEMMA ParseTellsQuery ==
  ASSUME Typed, QueryLaid, Parse
  PROVE  QueryTold(model, outcome')
<1>. SUFFICES ASSUME outcome'.is = "model", model.client # "broken",
                     NEW k \in DOMAIN model.fields, model.fields[k].source = "query"
              PROVE  outcome'.values[k] = MeantOf(model, k)
  BY DEF QueryTold
<1>1. k \in DOMAIN Fields /\ Fields[k].source = "query" /\ stage = "sent" /\ model \in Cases
  BY DEF Fields, Parse, Typed
<1>2. k <= at
  BY <1>1, TypedCounts DEF Typed
<1>3. LaidOut(model, k, GetVec(query, Fields[k].name))
  BY <1>1, <1>2 DEF QueryLaid, QueryLaidAt, Fields
<1>4. outcome'.values[k] = [j \in DOMAIN Value(k) |-> Transformed(Fields[k], Value(k)[j].text)]
  BY <1>1, ParseTells
<1>5. \A j \in DOMAIN Value(k) : Value(k)[j].ok
  BY <1>1, ParseTells
<1>6. model.client \in {"ours", "other"}
  BY <1>1, CaseIs
<1>7. CASE model.client = "ours"
  <2>1. GetVec(query, Fields[k].name) = EncodedAll(Shaped(model, k))
    BY <1>3, <1>7 DEF LaidOut
  <2>2. CASE model.values[k] = <<>>
    <3>1. EncodedAll(Shaped(model, k)) = <<>>
      BY <2>2 DEF EncodedAll, Shaped
    <3>. QED  BY <1>1, <1>4, <2>1, <2>2, <3>1, DefaultArrives
  <2>3. CASE model.values[k] # <<>>
    BY <1>1, <1>4, <1>5, <1>7, <2>1, <2>3, OursArrive
  <2>. QED  BY <2>2, <2>3
<1>8. CASE model.client = "other"
  <2>1. CASE model.values[k] = <<>>
    <3>1. GetVec(query, Fields[k].name) = <<>>
      BY <1>3, <1>8, <2>1 DEF LaidOut
    <3>. QED  BY <1>1, <1>4, <2>1, <3>1, DefaultArrives
  <2>2. CASE model.values[k] # <<>>
    <3>1. PICK w \in Bytes : GetVec(query, Fields[k].name) = <<w>> /\ SpeltRight(w, Head(model.values[k]))
      BY <1>3, <1>8, <2>2 DEF LaidOut
    <3>. QED  BY <1>1, <1>4, <1>5, <1>8, <2>2, <3>1, OthersArrive
  <2>. QED  BY <2>1, <2>2
<1>. QED  BY <1>6, <1>7, <1>8

-----------------------------------------------------------------------------
(* A broken client *)

NoneIsRead(c) ==
  \A k \in DOMAIN c.fields : \A w \in Malformed[c.fields[k].type] : ~ConvertEncoded(c.fields[k].type, w).ok

BrokenTold(c, s, o) == s = "done" /\ c.client = "broken" => o.is = "unreadable"

LEMMA BrokenHasNoPath ==
  ASSUME Typed, PathLaid, stage = "sent", model.client = "broken"
  PROVE  Routed
<1>1. model \in Cases /\ at = Len(Fields)
  BY DEF Typed
<1>2. \A k \in DOMAIN Fields : Fields[k].source = "query"
  BY <1>1, FieldsAre DEF FieldIsFit, Fields
<1>3. PathFields = {}
  BY <1>2 DEF PathFields
<1>4. FitsIn(model)
  BY <1>2 DEF FitsIn, Fields
<1>5. PICK l \in 0..at : /\ \A k \in 1..at : model.fields[k].source = "path" <=> k <= l
                         /\ IsPathOf(path, [k \in 1..l |-> EncodePath(MeantOf(model, k)[1])])
  BY <1>4 DEF PathLaid, PathLaidAt
<1>6. l = 0
  <2>. SUFFICES ASSUME l # 0 PROVE FALSE
    OBVIOUS
  <2>1. 1 \in 1..at /\ 1 <= l /\ 1 \in DOMAIN Fields
    BY <1>1, <1>5, TypedCounts
  <2>. QED  BY <1>2, <1>5, <2>1 DEF Fields
<1>7. [k \in 1..l |-> EncodePath(MeantOf(model, k)[1])] = <<>>
  BY <1>6
<1>8. path = <<>>
  BY <1>5, <1>7 DEF IsPathOf
<1>9. Segments = <<>>
  BY <1>8, UrlIsCut DEF Segments
<1>10. Cardinality(PathFields) = 0
  BY <1>3, FS_EmptySet
<1>. QED  BY <1>9, <1>10 DEF Routed

LEMMA BrokenIsRefused ==
  ASSUME Typed, PathLaid, QueryLaid, NoneIsRead(model), Parse, model.client = "broken"
  PROVE  outcome'.is = "unreadable"
<1>1. stage = "sent" /\ model \in Cases /\ at = Len(Fields)
  BY DEF Typed, Parse
<1>2. 1 \in DOMAIN Fields /\ 1 <= at
  <2>1. Fields # <<>> /\ Fields \in Seq(Field)
    BY <1>1, CaseIs DEF Fields
  <2>2. Len(Fields) # 0
    BY <2>1, EmptySeq
  <2>. QED  BY <1>1, <2>2, TypedCounts
<1>3. FieldIsFit(model, 1)
  BY <1>1, <1>2, FieldsAre
<1>4. Fields[1].source = "query"
  BY <1>3 DEF FieldIsFit, Fields
<1>5. LaidOut(model, 1, GetVec(query, Fields[1].name))
  BY <1>2, <1>4 DEF QueryLaid, QueryLaidAt, Fields
<1>6. ~IsRead(Fields[1], Value(1))
  <2>1. CASE GetVec(query, Fields[1].name) = <<>> /\ Fields[1].kind = "one" /\ Fields[1].default = <<>>
    <3>1. Value(1) = [j \in DOMAIN <<>> |-> Readable(<<>>[j])]
      BY <1>2, <1>4, <2>1, NoneIsDefault
    <3>2. Value(1) = <<>>
      BY <3>1
    <3>. QED  BY <2>1, <3>2 DEF IsRead
  <2>2. CASE \E w \in Malformed[Fields[1].type] : GetVec(query, Fields[1].name) = <<w>>
    <3>1. PICK w \in Malformed[Fields[1].type] : GetVec(query, Fields[1].name) = <<w>>
      BY <2>2
    <3>2. Value(1) = <<ConvertEncoded(Fields[1].type, w)>>
      BY <1>2, <1>4, <3>1, OneIsTaken
    <3>3. PICK x : x = ConvertEncoded(Fields[1].type, w)
      OBVIOUS
    <3>4. ~x.ok
      BY <1>2, <3>1, <3>3 DEF NoneIsRead, Fields
    <3>5. 1 \in DOMAIN Value(1) /\ Value(1)[1] = x
      BY <3>2, <3>3
    <3>. QED  BY <3>4, <3>5 DEF IsRead
  <2>. QED  BY <1>5, <2>1, <2>2 DEF LaidOut, Fields
<1>7. PICK values : values = [i \in DOMAIN Fields |-> Value(i)]
  OBVIOUS
<1>8. outcome' = Answer(values)
  BY <1>1, <1>7, BrokenHasNoPath DEF Parse
<1>9. values[1] = Value(1)
  BY <1>2, <1>7
<1>10. \E i \in DOMAIN Fields : ~IsRead(Fields[i], values[i])
  BY <1>2, <1>6, <1>9
<1>11. outcome' = Outcome("unreadable", <<>>)
  BY <1>8, <1>10 DEF Answer
<1>. QED  BY <1>11 DEF Outcome

LEMMA OnlyParseEnds ==
  ASSUME Typed, [Next]_vars, model.client = "broken", stage' = "done"
  PROVE  Parse \/ (stage = "done" /\ outcome' = outcome)
<1>1. CASE FillPath \/ FillQuery
  BY <1>1 DEF FillPath, FillQuery, Written, Writes
<1>2. CASE OtherClientWrites \/ BrokenClientWrites \/ Elsewhere
  BY <1>2 DEF OtherClientWrites, OtherWrites, BrokenClientWrites, Written, Elsewhere
<1>3. CASE ClientRefuses
  BY <1>3 DEF ClientRefuses, Ours
<1>4. CASE Send \/ UNCHANGED vars
  BY <1>4 DEF Send, vars
<1>. QED  BY <1>1, <1>2, <1>3, <1>4, StepIs

-----------------------------------------------------------------------------
(* Theorems on queries *)

QueryInvariant == Typed /\ PathLaid /\ QueryLaid /\ QueryTold(model, outcome)

LEMMA QueryInvariantStays == ASSUME QueryInvariant, [Next]_vars PROVE QueryInvariant'
<1>1. Typed' /\ model' = model /\ PathLaid' /\ QueryLaid'
  BY TypedStays, PathLaidStays, QueryLaidStays DEF QueryInvariant
<1>2. QueryTold(model, outcome')
  <2>1. CASE Parse
    BY <2>1, ParseTellsQuery DEF QueryInvariant
  <2>2. CASE outcome' = outcome
    BY <2>2 DEF QueryInvariant
  <2>3. CASE outcome'.is # "model"
    BY <2>3 DEF QueryTold
  <2>. QED  BY <2>1, <2>2, <2>3, OnlyParseAnswers DEF QueryInvariant
<1>. QED  BY <1>1, <1>2 DEF QueryInvariant

LEMMA QueryInvariantFirst == Init => QueryInvariant
BY TypedFirst, PathLaidFirst, QueryLaidFirst DEF QueryInvariant, QueryTold, Init, Outcome

\* ValuesArrive for the fields of a query: a right model means that each value came as its directives
\* make it, all of them, in order, for the field they were written for, or the default, whatever its
\* bytes are and whatever else is in the query, from the client of the model and from any other.
QueryArrives ==
  outcome.is = "model" /\ model.client # "broken" =>
    \A k \in DOMAIN Fields : Fields[k].source = "query" => outcome.values[k] = Meant(k)

LEMMA QueryToldIs == ASSUME QueryTold(model, outcome) PROVE QueryArrives
BY MeantIs DEF QueryTold, QueryArrives, Fields

\* Query values arrive, from any client, for any model, any texts and any spelling of them
\* (fill_url, query_string::parse, get_optional and get_vec, convert_from_str).
THEOREM QueryValuesArrive == Spec => []QueryArrives
<1>1. QueryInvariant /\ [Next]_vars => QueryInvariant'
  BY QueryInvariantStays
<1>2. QueryInvariant => QueryArrives
  BY QueryToldIs DEF QueryInvariant
<1>. QED  BY <1>1, <1>2, QueryInvariantFirst, PTL DEF Spec

BrokenInvariant == QueryInvariant /\ BrokenTold(model, stage, outcome)

\* Whatever the values that are none of their type, a request with one of them, or without a value
\* that is required, is never read as a model (convert_from_str, get_required).
THEOREM BrokenIsNeverRead ==
  ASSUME \A type \in Types : \A w \in Malformed[type] : ~ConvertEncoded(type, w).ok
  PROVE  Spec => []BrokenIsTold
<1>1. Init => BrokenInvariant
  BY QueryInvariantFirst DEF BrokenInvariant, BrokenTold, Init
<1>2. ASSUME Typed PROVE NoneIsRead(model)
  <2>1. ASSUME NEW k \in DOMAIN Fields PROVE Fields[k].type \in Types
    <3>1. Fields[k] \in Field
      BY <1>2, FieldsAre DEF Typed
    <3>. QED  BY <3>1 DEF Field
  <2>. QED  BY <2>1 DEF NoneIsRead, Fields
<1>3. ASSUME BrokenInvariant, [Next]_vars PROVE BrokenInvariant'
  <2>1. QueryInvariant' /\ model' = model
    BY <1>3, QueryInvariantStays, TypedStays DEF BrokenInvariant, QueryInvariant
  <2>2. Typed /\ PathLaid /\ QueryLaid /\ NoneIsRead(model)
    BY <1>2, <1>3 DEF BrokenInvariant, QueryInvariant
  <2>3. BrokenTold(model, stage', outcome')
    <3>. SUFFICES ASSUME stage' = "done", model.client = "broken" PROVE outcome'.is = "unreadable"
      BY DEF BrokenTold
    <3>1. CASE Parse
      BY <2>2, <3>1, BrokenIsRefused
    <3>2. CASE stage = "done" /\ outcome' = outcome
      BY <1>3, <3>2 DEF BrokenInvariant, BrokenTold
    <3>. QED  BY <1>3, <2>2, <3>1, <3>2, OnlyParseEnds
  <2>. QED  BY <2>1, <2>3 DEF BrokenInvariant
<1>4. BrokenInvariant => BrokenIsTold
  BY DEF BrokenInvariant, BrokenTold, BrokenIsTold
<1>. QED  BY <1>1, <1>3, <1>4, PTL DEF Spec

-----------------------------------------------------------------------------
(* Theorems on the encoders and the decoder *)

\* What the client encodes for a query is decoded to what it was, whatever bytes it has; what it
\* encodes for a path as well, but for its pluses (encode_to_url_string_and_copy,
\* decode_from_url_query_string).
THEOREM DecodeUndoesEncode ==
  ASSUME NEW t \in Seq(Byte)
  PROVE  /\ Decode(EncodeQuery(t)) = [ok |-> IsUtf8(t), text |-> t]
         /\ Decode(EncodePath(t)) = [ok |-> IsUtf8(PlusAsSpace(t)), text |-> PlusAsSpace(t)]
<1>1. Clean(EncodeQuery(t), t)
  BY QueryReads DEF Bytes
<1>2. Clean(EncodePath(t), PlusAsSpace(t))
  BY PathReads DEF Bytes
<1>3. Decode(EncodeQuery(t)) = [ok |-> IsUtf8(t), text |-> t]
  BY <1>1, CleanIsDecoded
<1>4. Decode(EncodePath(t)) = [ok |-> IsUtf8(PlusAsSpace(t)), text |-> PlusAsSpace(t)]
  BY <1>2, CleanIsDecoded
<1>. QED  BY <1>3, <1>4

LEMMA PlainIsRead == \A t \in Bytes : NoneOf(t, Percent) => Clean(t, PlusAsSpace(t))
<1> DEFINE S == {t \in Bytes : NoneOf(t, Percent) => Clean(t, PlusAsSpace(t))}
<1>1. <<>> \in S
  <2>1. <<>> \in Bytes /\ 0 \in Byte
    BY EmptySeq DEF Bytes, Byte
  <2>2. Decoded(<<>>) = Start /\ PlusAsSpace(<<>>) = <<>>
    BY <2>1, Reads, PlusesOf
  <2>. QED  BY <2>1, <2>2 DEF Clean, Start
<1>2. ASSUME NEW t \in Bytes, NEW b \in Byte, t \in S PROVE Append(t, b) \in S
  <2>1. Append(t, b) \in Bytes
    BY AppendProperties DEF Bytes
  <2>2. ASSUME NoneOf(Append(t, b), Percent) PROVE Clean(Append(t, b), PlusAsSpace(Append(t, b)))
    <3>1. NoneOf(t, Percent) /\ b # Percent
      <4>1. PICK n \in Nat : n = Len(t) /\ DOMAIN t = 1..n
        BY LenProperties DEF Bytes
      <4>2. PICK u : u = Append(t, b)
        OBVIOUS
      <4>3. DOMAIN u = 1..(n + 1) /\ (\A k \in 1..n : u[k] = t[k]) /\ u[n + 1] = b
        BY <4>1, <4>2, AppendProperties DEF Bytes
      <4>. QED  BY <2>2, <4>1, <4>2, <4>3 DEF NoneOf
    <3>2. Clean(t, PlusAsSpace(t))
      BY <1>2, <3>1
    <3>3. PlusAsSpace(t) \in Bytes /\ PlusAsSpace(Append(t, b)) = Append(PlusAsSpace(t), IF b = Plus THEN Space ELSE b)
      BY PlusesOf
    <3>. QED  BY <3>1, <3>2, <3>3, OneIsRead
  <2>. QED  BY <2>1, <2>2
<1>. HIDE DEF S
<1>3. Bytes \subseteq S
  BY <1>1, <1>2, EverySequence DEF Bytes
<1>. QED  BY <1>3 DEF S

\* Where the decoder stands in the middle of an escape, after the text b behind its percent sign.
Within(s, b) ==
  /\ Len(b) = 0 => s.escape = <<Percent>> /\ ~s.failed
  /\ Len(b) = 1 => s.escape = <<Percent, b[1]>> /\ ~s.failed
  /\ Len(b) > 1 => s.failed \/ (b[1] \in HexDigits /\ b[2] \in HexDigits)

LEMMA OneBehind == ASSUME NEW g \in Byte, NEW h \in Byte PROVE Append(<<g>>, h) = <<g, h>>
<1>1. <<g>> \in Seq(Byte) /\ Len(<<g>>) = 1 /\ <<g>>[1] = g
  OBVIOUS
<1>2. PICK s : s = Append(<<g>>, h)
  OBVIOUS
<1>3. s \in Seq(Byte) /\ Len(s) = 2 /\ s[1] = g /\ s[2] = h
  BY <1>1, <1>2, AppendProperties
<1>4. s = <<g, h>>
  BY <1>3
<1>. QED  BY <1>2, <1>4

LEMMA WithinGoesOn ==
  ASSUME NEW s \in State, NEW b \in Bytes, NEW c \in Byte, Within(s, b)
  PROVE  Within(GetNext(s, c), Append(b, c))
<1>1. PICK n \in Nat : n = Len(b)
  BY LenProperties DEF Bytes
<1>2. PICK u : u = Append(b, c)
  OBVIOUS
<1>3. Len(u) = n + 1 /\ (\A k \in 1..n : u[k] = b[k]) /\ u[n + 1] = c
  BY <1>1, <1>2, AppendProperties DEF Bytes
<1>4. CASE n = 0
  <2>1. s.escape = <<Percent>> /\ ~s.failed
    BY <1>1, <1>4 DEF Within
  <2>2. GetNext(s, c) = [s EXCEPT !.escape = Append(@, c)]
    BY <2>1 DEF GetNext
  <2>3. Append(<<Percent>>, c) = <<Percent, c>>
    BY MarksAreBytes, OneBehind DEF AmpersandIsByte
  <2>4. GetNext(s, c).escape = <<Percent, c>> /\ ~GetNext(s, c).failed
    BY <2>1, <2>2, <2>3 DEF State
  <2>5. Len(u) = 1 /\ u[1] = c
    BY <1>3, <1>4
  <2>. QED  BY <1>2, <2>4, <2>5 DEF Within
<1>5. CASE n = 1
  <2>1. s.escape = <<Percent, b[1]>> /\ ~s.failed
    BY <1>1, <1>5 DEF Within
  <2>2. GetNext(s, c) = IF s.escape[2] \in HexDigits /\ c \in HexDigits
                        THEN [s EXCEPT !.bytes = Append(@, HexValue(s.escape[2]) * 16 + HexValue(c)), !.escape = <<>>]
                        ELSE [s EXCEPT !.failed = TRUE]
    BY <2>1 DEF GetNext
  <2>3. GetNext(s, c).failed \/ (b[1] \in HexDigits /\ c \in HexDigits)
    BY <2>1, <2>2 DEF State
  <2>4. Len(u) = 2 /\ u[1] = b[1] /\ u[2] = c
    BY <1>3, <1>5
  <2>. QED  BY <1>2, <2>3, <2>4 DEF Within
<1>6. CASE n > 1
  <2>1. s.failed \/ (b[1] \in HexDigits /\ b[2] \in HexDigits)
    BY <1>1, <1>6 DEF Within
  <2>2. s.failed => GetNext(s, c) = s
    BY DEF GetNext
  <2>3. Len(u) > 1 /\ ~(Len(u) = 0) /\ ~(Len(u) = 1) /\ u[1] = b[1] /\ u[2] = b[2]
    BY <1>3, <1>6
  <2>. QED  BY <1>2, <2>1, <2>2, <2>3 DEF Within
<1>. QED  BY <1>4, <1>5, <1>6

LEMMA EscapeGoesOn ==
  ASSUME NEW a \in Bytes, Within(Decoded(a), <<>>)
  PROVE  \A b \in Bytes : Within(Decoded(a \o b), b)
<1> DEFINE S == {b \in Bytes : Within(Decoded(a \o b), b)}
<1>1. <<>> \in S
  BY EmptySeq, ConcatEmptySeq DEF Bytes
<1>2. ASSUME NEW b \in Bytes, NEW c \in Byte, b \in S PROVE Append(b, c) \in S
  <2>1. Append(b, c) \in Bytes /\ a \o Append(b, c) = Append(a \o b, c) /\ a \o b \in Bytes
    BY PutBehind DEF Bytes
  <2>2. Decoded(a \o Append(b, c)) = GetNext(Decoded(a \o b), c) /\ Decoded(a \o b) \in State
    BY <2>1, Reads
  <2>. QED  BY <1>2, <2>1, <2>2, WithinGoesOn
<1>. HIDE DEF S
<1>3. Bytes \subseteq S
  BY <1>1, <1>2, EverySequence DEF Bytes
<1>. QED  BY <1>3 DEF S

\* A text whose first percent sign is not followed by two hex digits is never decoded, whatever comes
\* behind: no escape is skipped, cut short or read as text (UrlDecoder::get_next, EscapedState::get_next).
THEOREM BrokenEscapeIsRefused ==
  ASSUME NEW a \in Seq(Byte), \A k \in DOMAIN a : a[k] # Percent, NEW b \in Seq(Byte),
         ~(Len(b) > 1 /\ b[1] \in HexDigits /\ b[2] \in HexDigits)
  PROVE  ~Decode(Append(a, Percent) \o b).ok
<1>1. a \in Bytes /\ b \in Bytes /\ Percent \in Byte
  BY MarksAreBytes DEF Bytes, AmpersandIsByte
<1>2. Clean(a, PlusAsSpace(a))
  BY <1>1, PlainIsRead DEF NoneOf
<1>3. PICK u \in Bytes : u = Append(a, Percent)
  BY <1>1, AppendProperties DEF Bytes
<1>4. Within(Decoded(u), <<>>)
  <2>1. PICK r : r = [bytes |-> PlusAsSpace(a), escape |-> <<>>, failed |-> FALSE]
    OBVIOUS
  <2>2. Decoded(u) = GetNext(r, Percent)
    BY <1>1, <1>2, <1>3, <2>1, Reads DEF Clean
  <2>3. GetNext(r, Percent) = [r EXCEPT !.escape = Append(@, Percent)]
    BY <2>1 DEF GetNext
  <2>4. Append(<<>>, Percent) = <<Percent>>
    OBVIOUS
  <2>5. Decoded(u).escape = <<Percent>> /\ ~Decoded(u).failed
    BY <2>1, <2>2, <2>3, <2>4
  <2>. QED  BY <2>5 DEF Within
<1>5. PICK s : s = Decoded(u \o b)
  OBVIOUS
<1>6. Within(s, b)
  BY <1>1, <1>4, <1>5, EscapeGoesOn
<1>7. Decode(u \o b).ok = (~s.failed /\ s.escape = <<>> /\ IsUtf8(s.bytes))
  BY <1>5 DEF Decode, Decoded
<1>8. s.failed \/ s.escape # <<>>
  <2>1. PICK n \in Nat : n = Len(b)
    BY <1>1, LenProperties DEF Bytes
  <2>4. <<Percent>> # <<>> /\ \A g : <<Percent, g>> # <<>>
    OBVIOUS
  <2>5. CASE n = 0
    BY <1>6, <2>1, <2>4, <2>5 DEF Within
  <2>2. CASE n = 1
    BY <1>6, <2>1, <2>2, <2>4 DEF Within
  <2>3. CASE n > 1
    BY <1>6, <2>1, <2>3 DEF Within
  <2>. QED  BY <2>1, <2>2, <2>3, <2>5
<1>. QED  BY <1>3, <1>7, <1>8

=============================================================================
