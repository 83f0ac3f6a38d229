----------------------- MODULE UrlBuilderInnerProofs -----------------------
(***************************************************************************)
(* The builder of a TCP host, for every text and every order of calls.     *)
(*                                                                         *)
(* It keeps the promise of UrlParts: whatever is appended, one part grows  *)
(* and the getters give the others as they were (InOrder is the            *)
(* invariant).  And its text parses to the indices it keeps (InForm): the  *)
(* marks that begin a host, a path and a query are the first ones, and     *)
(* there is but one place a scan can find each of them at.                 *)
(***************************************************************************)
EXTENDS UrlTarget, UrlTextProofs

\* What the calls are given are texts.
Inputs ==
  /\ Starts \subseteq Text /\ Segments \subseteq Text /\ Names \subseteq Text
  /\ Values \subseteq Text \cup {NoValue} /\ Endings \subseteq Text
  /\ NoValue \notin Text /\ NoQuery \notin Text

EndOfPath == IF query_index = 0 THEN Len(value) ELSE query_index

\* The three parts stand one behind the other, and the path and the query begin with their marks.
InOrder ==
  /\ value \in Text
  /\ EndOfHost \in Nat /\ EndOfPath \in Nat
  /\ 0 < EndOfHost /\ EndOfHost <= EndOfPath /\ EndOfPath <= Len(value)
  /\ path_index \in Nat /\ query_index \in Nat
  /\ path_index # 0 => path_index < EndOfPath
  /\ query_index # 0 => query_index < Len(value) /\ value[query_index + 1] = "?"

-----------------------------------------------------------------------------
(* The getters *)

Base == GetSchemeAndHost
Path == IF path_index = 0 THEN <<>> ELSE GetPath

\* The path a getter gives is what stands between the host and the end of the path, also when
\* there is none.
LEMMA View ==
  ASSUME NEW v \in Text, NEW p \in Nat, NEW q \in Nat, NEW eh, NEW ep,
         eh = IF p > 0 THEN p ELSE IF q > 0 THEN q ELSE Len(v),
         ep = IF q = 0 THEN Len(v) ELSE q
  PROVE  (IF p = 0 THEN <<>>
          ELSE IF p = 0 THEN <<"/">> ELSE IF q = 0 THEN Behind(v, p) ELSE Between(v, p, q))
         = Between(v, eh, ep)
<1>1. CASE p = 0
  <2>1. eh = ep /\ ep \in Nat
    BY <1>1, Lengths
  <2>2. SubSeq(v, ep + 1, ep) = <<>>
    BY <2>1, SubSeqEmpty
  <2>. QED  BY <1>1, <2>1, <2>2 DEF Between
<1>2. CASE p # 0
  <2>1. eh = p
    BY <1>2
  <2>2. Behind(v, p) = Between(v, p, Len(v))
    BY DEF Between, Behind
  <2>. QED  BY <1>2, <2>1, <2>2
<1>. QED  BY <1>1, <1>2

LEMMA BaseIsCut ==
  /\ Base = Between(value, 0, EndOfHost)
  /\ Base' = Between(value', 0, EndOfHost')
BY DEF Base, GetSchemeAndHost, Upto, Between

LEMMA PathIsCut ==
  ASSUME InOrder
  PROVE  /\ Path = Between(value, EndOfHost, EndOfPath)
         /\ IsCut(Path, value, EndOfHost, EndOfPath)
         /\ Path \in Text
<1>1. value \in Text /\ path_index \in Nat /\ query_index \in Nat
  BY DEF InOrder
<1>2. Path = Between(value, EndOfHost, EndOfPath)
  BY <1>1, View DEF Path, GetPath, EndOfHost, EndOfPath
<1>3. IsCut(Between(value, EndOfHost, EndOfPath), value, EndOfHost, EndOfPath)
  BY <1>1, Cut DEF InOrder
<1>. QED  BY <1>2, <1>3 DEF IsCut

LEMMA QueryIsText ==
  ASSUME InOrder, query_index # 0
  PROVE  GetQuery \in Text
<1>1. /\ value \in Text /\ query_index + 1 \in Nat /\ query_index + 1 <= Len(value)
      /\ GetQuery = Behind(value, query_index + 1)
  BY Lengths DEF InOrder, GetQuery
<1>2. IsCut(GetQuery, value, query_index + 1, Len(value))
  BY <1>1, CutBehind
<1>. QED  BY <1>2 DEF IsCut

\* The separator the code puts before a segment is the one the path needs.
LEMMA SlashOfPath ==
  ASSUME InOrder, NEW u, u = Upto(value, EndOfPath)
  PROVE  Slash(Path) = IF path_index # 0 /\ EndsWithSlash(u) THEN <<>> ELSE <<"/">>
<1>1. value \in Text /\ EndOfHost \in Nat /\ EndOfPath \in Nat /\ EndOfPath <= Len(value)
      /\ EndOfHost <= EndOfPath /\ 0 < EndOfPath
  BY DEF InOrder
<1>2. IsCut(Path, value, EndOfHost, EndOfPath)
  BY PathIsCut
<1>3. IsCut(u, value, 0, EndOfPath)
  BY <1>1, CutUpto
<1>4. CASE path_index = 0
  BY <1>4 DEF Path, Slash, EndsWithSlash
<1>5. CASE path_index # 0
  <2>1. EndOfHost < EndOfPath
    BY <1>5 DEF InOrder, EndOfHost
  <2>2. EndsWithSlash(Path) <=> value[EndOfPath] = "/"
    BY <1>1, <1>2, <2>1, SlashOfCut
  <2>3. EndsWithSlash(u) <=> value[EndOfPath] = "/"
    BY <1>1, <1>3, SlashOfCut
  <2>. QED  BY <1>5, <2>2, <2>3 DEF Slash
<1>. QED  BY <1>4, <1>5

\* Of a query the separator is the one the whole text needs.
LEMMA SlashOfQuery ==
  ASSUME InOrder, query_index # 0
  PROVE  Slash(GetQuery) = Slash(value)
<1>1. /\ value \in Text /\ query_index \in Nat /\ query_index < Len(value) /\ Len(value) \in Nat
      /\ value[query_index + 1] = "?"
  BY Lengths DEF InOrder
<1>2. GetQuery = Behind(value, query_index + 1)
  BY DEF GetQuery
<1>3. IsCut(GetQuery, value, query_index + 1, Len(value))
  BY <1>1, <1>2, CutBehind
<1>4. EndsWithSlash(value) <=> value[Len(value)] = "/"
  BY <1>1, EmptySeq DEF EndsWithSlash, Text
<1>5. CASE query_index + 1 = Len(value)
  <2>1. GetQuery = <<>>
    BY <1>1, <1>2, <1>5, Whole
  <2>2. ~EndsWithSlash(GetQuery) /\ ~EndsWithSlash(value)
    BY <1>1, <1>4, <1>5, <2>1 DEF EndsWithSlash
  <2>. QED  BY <2>2 DEF Slash
<1>6. CASE query_index + 1 < Len(value)
  <2>1. EndsWithSlash(GetQuery) <=> value[Len(value)] = "/"
    BY <1>1, <1>3, <1>6, SlashOfCut
  <2>. QED  BY <1>4, <2>1 DEF Slash
<1>. QED  BY <1>1, <1>5, <1>6

\* The path grows by t, and the query behind it moves.
LEMMA GrowPath ==
  ASSUME InOrder, NEW t \in Text, IsPutIn(value', value, EndOfPath, t),
         t # <<>> \/ EndOfHost < EndOfPath,
         path_index' = EndOfHost,
         query_index' = IF query_index = 0 THEN 0 ELSE EndOfPath + Len(t)
  PROVE  InOrder' /\ Base' = Base /\ Path' = Path \o t /\ GetQuery' = GetQuery
<1>1. /\ value \in Text /\ EndOfHost \in Nat /\ EndOfPath \in Nat /\ EndOfPath <= Len(value)
      /\ EndOfHost <= EndOfPath /\ 0 < EndOfHost
      /\ Len(value) \in Nat /\ Len(t) \in Nat
      /\ query_index # 0 => query_index = EndOfPath /\ query_index < Len(value)
                            /\ value[query_index + 1] = "?"
      /\ query_index = 0 => EndOfPath = Len(value)
  BY Lengths DEF InOrder, EndOfPath
<1>2. value' \in Text /\ Len(value') = Len(value) + Len(t)
  BY DEF IsPutIn
<1>3. EndOfHost' = EndOfHost
  BY <1>1 DEF EndOfHost
<1>4. EndOfPath' = EndOfPath + Len(t)
  BY <1>1, <1>2 DEF EndOfPath
<1>5. EndOfHost < EndOfPath + Len(t)
  <2>1. t # <<>> => Len(t) > 0
    BY <1>1, EmptySeq DEF Text
  <2>. QED  BY <1>1, <2>1
<1>6. query_index' # 0 => value'[query_index' + 1] = "?"
  <2>. SUFFICES ASSUME query_index' # 0 PROVE value'[query_index' + 1] = "?"
    OBVIOUS
  <2>1. query_index # 0 /\ query_index' = EndOfPath + Len(t)
    OBVIOUS
  <2>2. 1 \in 1..(Len(value) - EndOfPath)
    BY <1>1, <2>1
  <2>3. value'[EndOfPath + Len(t) + 1] = value[EndOfPath + 1]
    BY <2>2 DEF IsPutIn
  <2>. QED  BY <1>1, <2>1, <2>3
<1>7. InOrder'
  BY <1>1, <1>2, <1>3, <1>4, <1>5, <1>6 DEF InOrder
<1>8. Base' = Base
  <2>1. Between(value', 0, EndOfHost) = Between(value, 0, EndOfHost)
    BY <1>1, PartBefore
  <2>. QED  BY <1>3, <2>1, BaseIsCut
<1>9. Path' = Path \o t
  <2>1. Path' = Between(value', EndOfHost', EndOfPath')
    BY <1>7, View DEF InOrder, Path, GetPath, EndOfHost, EndOfPath
  <2>2. Between(value', EndOfHost, EndOfPath + Len(t)) = Between(value, EndOfHost, EndOfPath) \o t
    BY <1>1, PartGrown
  <2>. QED  BY <1>3, <1>4, <2>1, <2>2, PathIsCut
<1>10. GetQuery' = GetQuery
  <2>1. CASE query_index = 0
    BY <2>1 DEF GetQuery
  <2>2. CASE query_index # 0
    <3>1. Behind(value', EndOfPath + Len(t) + 1) = Behind(value, EndOfPath + 1)
      BY <1>1, <2>2, PartBehind
    <3>. QED  BY <1>1, <2>2, <3>1 DEF GetQuery
  <2>. QED  BY <2>1, <2>2
<1>. QED  BY <1>7, <1>8, <1>9, <1>10

\* The query grows by t.
LEMMA GrowQuery ==
  ASSUME InOrder, query_index # 0, NEW t \in Text, value' = value \o t,
         UNCHANGED <<path_index, query_index>>
  PROVE  InOrder' /\ Base' = Base /\ Path' = Path /\ GetQuery' = GetQuery \o t
<1>1. /\ value \in Text /\ EndOfHost \in Nat /\ EndOfPath \in Nat /\ EndOfPath < Len(value)
      /\ EndOfHost <= EndOfPath /\ 0 < EndOfHost /\ Len(value) \in Nat /\ Len(t) \in Nat
      /\ query_index = EndOfPath /\ value[EndOfPath + 1] = "?"
      /\ path_index \in Nat
      /\ path_index # 0 => path_index < EndOfPath
  BY Lengths DEF InOrder, EndOfPath
<1>2. IsPutIn(value', value, Len(value), t)
  BY <1>1, PutAtEnd
<1>3. value' \in Text /\ Len(value') = Len(value) + Len(t) /\ value'[EndOfPath + 1] = "?"
  BY <1>1, <1>2 DEF IsPutIn
<1>4. EndOfHost' = EndOfHost /\ EndOfPath' = EndOfPath
  BY <1>1 DEF EndOfHost, EndOfPath
<1>5. InOrder'
  BY <1>1, <1>3, <1>4 DEF InOrder
<1>6. Base' = Base
  <2>1. Between(value', 0, EndOfHost) = Between(value, 0, EndOfHost)
    BY <1>1, <1>2, PartBefore
  <2>. QED  BY <1>4, <2>1, BaseIsCut
<1>7. Path' = Path
  <2>1. Path' = Between(value', EndOfHost', EndOfPath')
    BY <1>5, View DEF InOrder, Path, GetPath, EndOfHost, EndOfPath
  <2>2. Between(value', EndOfHost, EndOfPath) = Between(value, EndOfHost, EndOfPath)
    BY <1>1, <1>2, PartBefore
  <2>. QED  BY <1>4, <2>1, <2>2, PathIsCut
<1>8. GetQuery' = GetQuery \o t
  <2>1. PICK e \in Nat : e = EndOfPath + 1
    BY <1>1
  <2>2. e <= Len(value)
    BY <1>1, <2>1
  <2>3. Between(value', e, Len(value) + Len(t)) = Between(value, e, Len(value)) \o t
    <3>1. PICK q \in Nat : q = Len(value)
      BY <1>1
    <3>2. IsPutIn(value', value, q, t) /\ e <= q /\ q <= Len(value)
      BY <1>1, <1>2, <2>2, <3>1
    <3>3. Between(value', e, q + Len(t)) = Between(value, e, q) \o t
      BY <1>1, <3>2, PartGrown
    <3>. QED  BY <3>1, <3>3
  <2>4. GetQuery = Between(value, e, Len(value)) /\ GetQuery' = Between(value', e, Len(value'))
    BY <1>1, <2>1 DEF GetQuery, Behind, Between
  <2>. QED  BY <1>3, <2>3, <2>4
<1>. QED  BY <1>5, <1>6, <1>7, <1>8

\* The path grows by t, and a first query, r with its mark, comes behind it.
LEMMA NewQuery ==
  ASSUME InOrder, query_index = 0, NEW t \in Text, NEW r \in Text, r # <<>>, r[1] = "?",
         value' = (value \o t) \o r, query_index' = Len(value) + Len(t),
         \/ path_index' = EndOfHost /\ (t # <<>> \/ EndOfHost < EndOfPath)
         \/ path_index' = path_index /\ t = <<>>
  PROVE  InOrder' /\ Base' = Base /\ Path' = Path \o t /\ GetQuery' = Behind(r, 1)
<1> DEFINE x == value \o t
<1>1. /\ value \in Text /\ EndOfHost \in Nat /\ EndOfPath \in Nat
      /\ EndOfHost <= EndOfPath /\ 0 < EndOfHost
      /\ Len(value) \in Nat /\ Len(t) \in Nat /\ EndOfPath = Len(value)
      /\ path_index \in Nat
      /\ path_index # 0 => path_index < EndOfPath /\ path_index = EndOfHost
      /\ path_index = 0 => EndOfHost = EndOfPath
  BY Lengths DEF InOrder, EndOfPath, EndOfHost
<1>2. IsPutIn(x, value, Len(value), t)
  BY <1>1, PutAtEnd
<1>3. x \in Text /\ Len(x) = Len(value) + Len(t)
  BY <1>2 DEF IsPutIn
<1>4. value' = x \o r
  OBVIOUS
<1> HIDE DEF x
<1>5. IsPutIn(value', x, Len(x), r)
  BY <1>3, <1>4, PutAtEnd
<1>6. Len(r) \in Nat /\ Len(r) > 0
  BY EmptySeq DEF Text
<1>7. value' \in Text /\ Len(value') = Len(x) + Len(r) /\ value'[Len(x) + 1] = "?"
  BY <1>5, <1>6 DEF IsPutIn
<1>8. t # <<>> => Len(t) > 0
  BY <1>1, EmptySeq DEF Text
<1>9. t = <<>> => Len(t) = 0
  OBVIOUS
<1>10. EndOfPath' = Len(x)
  BY <1>1, <1>3 DEF EndOfPath
<1>11. EndOfHost' = EndOfHost /\ path_index' \in Nat /\ (path_index' # 0 => path_index' < Len(x))
  <2>1. CASE path_index' = EndOfHost /\ (t # <<>> \/ EndOfHost < EndOfPath)
    BY <1>1, <1>3, <1>8, <2>1 DEF EndOfHost
  <2>2. CASE path_index' = path_index /\ t = <<>>
    <3>1. query_index' = Len(value) /\ Len(x) = Len(value) /\ Len(value) > 0
      BY <1>1, <1>3, <1>9, <2>2
    <3>2. CASE path_index = 0
      <4>1. EndOfHost' = query_index' /\ EndOfHost = Len(value)
        BY <1>1, <2>2, <3>1, <3>2 DEF EndOfHost
      <4>. QED  BY <2>2, <3>1, <3>2, <4>1
    <3>3. CASE path_index # 0
      <4>1. EndOfHost' = path_index
        BY <1>1, <2>2, <3>3 DEF EndOfHost
      <4>. QED  BY <1>1, <2>2, <3>1, <3>3, <4>1
    <3>. QED  BY <3>2, <3>3
  <2>. QED  BY <2>1, <2>2
<1>12. InOrder'
  BY <1>1, <1>3, <1>6, <1>7, <1>10, <1>11 DEF InOrder
<1>13. Base' = Base
  <2>1. Between(value', 0, EndOfHost) = Between(x, 0, EndOfHost)
    BY <1>1, <1>3, <1>5, PartBefore
  <2>2. Between(x, 0, EndOfHost) = Between(value, 0, EndOfHost)
    BY <1>1, <1>2, PartBefore
  <2>. QED  BY <1>11, <2>1, <2>2, BaseIsCut
<1>14. Path' = Path \o t
  <2>1. Path' = Between(value', EndOfHost', EndOfPath')
    BY <1>12, View DEF InOrder, Path, GetPath, EndOfHost, EndOfPath
  <2>2. Between(value', EndOfHost, Len(x)) = Between(x, EndOfHost, Len(x))
    BY <1>1, <1>3, <1>5, PartBefore
  <2>3. Between(x, EndOfHost, Len(value) + Len(t)) = Between(value, EndOfHost, Len(value)) \o t
    <3>1. PICK q \in Nat : q = Len(value)
      BY <1>1
    <3>2. IsPutIn(x, value, q, t) /\ EndOfHost <= q /\ q <= Len(value)
      BY <1>1, <1>2, <3>1
    <3>3. Between(x, EndOfHost, q + Len(t)) = Between(value, EndOfHost, q) \o t
      BY <1>1, <3>2, PartGrown
    <3>. QED  BY <3>1, <3>3
  <2>. QED  BY <1>1, <1>3, <1>10, <1>11, <2>1, <2>2, <2>3, PathIsCut
<1>15. GetQuery' = Behind(r, 1)
  <2>1. query_index' # 0 /\ query_index' = Len(x)
    BY <1>1, <1>3
  <2>2. Behind(x \o r, Len(x) + 1) = Behind(r, 1)
    BY <1>3, <1>6, BehindFront
  <2>. QED  BY <1>4, <2>1, <2>2 DEF GetQuery
<1>. QED  BY <1>12, <1>13, <1>14, <1>15

-----------------------------------------------------------------------------
(* The appends *)

\* push_path_separator puts the separator behind the path, and the path begins where the host ends.
LEMMA Separate ==
  ASSUME InOrder, NEW u, u = Upto(value, EndOfPath)
  PROVE  /\ u \in Text /\ Len(u) = EndOfPath
         /\ Separated(u).value = u \o Slash(Path)
         /\ Separated(u).path = EndOfHost
         /\ Slash(Path) # <<>> \/ EndOfHost < EndOfPath
<1>1. IsCut(u, value, 0, EndOfPath) /\ EndOfPath \in Nat
  BY CutUpto DEF InOrder
<1>2. u \in Text /\ Len(u) = EndOfPath
  BY <1>1 DEF IsCut
<1>3. Slash(Path) = IF path_index # 0 /\ EndsWithSlash(u) THEN <<>> ELSE <<"/">>
  BY SlashOfPath
<1>4. u \o <<>> = u /\ Append(u, "/") = u \o <<"/">>
  BY <1>2, TextAlgebra, SlashIsText
<1>5. Separated(u).value = u \o Slash(Path)
  BY <1>3, <1>4 DEF Separated
<1>6. Separated(u).path = EndOfHost
  BY <1>2 DEF Separated, EndOfHost, EndOfPath, InOrder
<1>7. Slash(Path) # <<>> \/ EndOfHost < EndOfPath
  <2>1. path_index # 0 => EndOfHost < EndOfPath
    BY DEF InOrder, EndOfHost
  <2>. QED  BY <1>3, <2>1
<1>. QED  BY <1>2, <1>5, <1>6, <1>7

\* The words the two modules share mean the same in both.
LEMMA SameWords ==
  /\ \A t : Parts!EndsWithSlash(t) = EndsWithSlash(t)
  /\ \A t : Parts!StripSlash(t) = StripSlash(t)
  /\ \A t : Parts!EncodePathSegment(t) = EncodePathSegment(t)
  /\ \A t : Parts!EncodeUrlString(t) = EncodeUrlString(t)
  /\ \A name, v : Parts!Pair(name, v) = Pair(name, v)
  /\ \A t, n : Parts!Upto(t, n) = Upto(t, n) /\ Parts!Behind(t, n) = Behind(t, n)
  /\ \A t, c : Parts!Places(t, c) = Places(t, c)
  /\ \A S : Parts!Min(S) = Min(S)
  /\ Parts!Text = Text
<1>1. Parts!PathSafe = PathSafe /\ Parts!QuerySafe = QuerySafe /\ Parts!Text = Text
  BY DEF Parts!PathSafe, PathSafe, Parts!QuerySafe, QuerySafe, Parts!Char, Char, Parts!Text, Text,
         Parts!SchemeChar, SchemeChar, Parts!Letters, Letters
<1>2. \A t : Parts!EncodeUrlString(t) = EncodeUrlString(t)
  BY <1>1 DEF Parts!EncodeUrlString, EncodeUrlString
<1>3. \A name, v : Parts!Pair(name, v) = Pair(name, v)
  BY <1>2 DEF Parts!Pair, Pair
<1>4. \A t : Parts!EndsWithSlash(t) = EndsWithSlash(t)
  BY DEF Parts!EndsWithSlash, EndsWithSlash
<1>5. \A t : Parts!StripSlash(t) = StripSlash(t)
  BY DEF Parts!StripSlash, StripSlash, Parts!StartsWith, StartsWith, Parts!Upto, Upto
<1>6. \A t : Parts!EncodePathSegment(t) = EncodePathSegment(t)
  BY <1>1 DEF Parts!EncodePathSegment, EncodePathSegment
<1>7. \A t, n : Parts!Upto(t, n) = Upto(t, n) /\ Parts!Behind(t, n) = Behind(t, n)
  BY DEF Parts!Upto, Upto, Parts!Behind, Behind
<1>8. \A t, c : Parts!Places(t, c) = Places(t, c)
  BY DEF Parts!Places, Places
<1>9. \A S : Parts!Min(S) = Min(S)
  BY DEF Parts!Min, Min
<1>. QED  BY <1>1, <1>2, <1>3, <1>4, <1>5, <1>6, <1>7, <1>8, <1>9

LEMMA WithSlashIs ==
  ASSUME NEW t \in Text
  PROVE  Parts!WithSlash(t) = t \o Slash(t)
<1>1. t \o <<>> = t /\ Append(t, "/") = t \o <<"/">>
  BY TextAlgebra, SlashIsText
<1>. QED  BY <1>1, SameWords DEF Parts!WithSlash, Slash

\* What is glued to a separator that may be missing is empty only if both are.
LEMMA NotEmpty ==
  ASSUME NEW s \in Text, NEW t \in Text, s # <<>>
  PROVE  s \o t # <<>>
<1>1. Len(s) \in Nat /\ Len(t) \in Nat /\ Len(s) # 0
  BY Lengths, EmptySeq DEF Text
<1>2. Len(s \o t) = Len(s) + Len(t)
  BY Glue DEF IsGlued
<1>. QED  BY <1>1, <1>2

LEMMA SegmentStep ==
  ASSUME Inputs, InOrder, NEW segment \in Segments, AppendPathSegment(segment)
  PROVE  InOrder' /\ Parts!Segment(segment)
<1>1. PICK e : e = EncodePathSegment(StripSlash(segment))
  OBVIOUS
<1>2. PICK t : t = Slash(Path) \o e
  OBVIOUS
<1>3. PICK u : u = Upto(value, EndOfPath)
  OBVIOUS
<1>4. /\ value \in Text /\ EndOfPath \in Nat /\ EndOfPath <= Len(value)
      /\ e \in Text /\ Slash(Path) \in Text /\ Path \in Text
  <2>1. segment \in Text
    BY DEF Inputs
  <2>2. StripSlash(segment) \in Text
    BY <2>1, StrippedIsText
  <2>. QED  BY <1>1, <2>2, EncodedIsText, SlashIsText, PathIsCut DEF InOrder
<1>5. t \in Text
  BY <1>2, <1>4, TextAlgebra
<1>6. /\ u \in Text /\ Len(u) = EndOfPath /\ Separated(u).value = u \o Slash(Path)
      /\ Separated(u).path = EndOfHost
      /\ Slash(Path) # <<>> \/ EndOfHost < EndOfPath
  BY <1>3, Separate
<1>7. Separated(u).value \o e = u \o t
  <2>1. (u \o Slash(Path)) \o e = u \o (Slash(Path) \o e)
    <3>1. SameJoined(u, Slash(Path), e)
      BY <1>4, <1>6, Regroup
    <3>. QED  BY <3>1 DEF SameJoined
  <2>. QED  BY <1>2, <1>6, <2>1
<1>8. u = IF query_index # 0 THEN Upto(value, query_index) ELSE value
  BY <1>3, <1>4, Whole DEF EndOfPath
<1>9. value' = (u \o t) \o Behind(value, EndOfPath)
  <2>1. CASE query_index = 0
    <3>1. value' = u \o t /\ Behind(value, EndOfPath) = <<>>
      BY <1>1, <1>4, <1>7, <1>8, <2>1, Whole DEF AppendPathSegment, EndOfPath
    <3>. QED  BY <1>5, <1>6, <3>1, TextAlgebra
  <2>2. CASE query_index # 0
    BY <1>1, <1>7, <1>8, <2>2 DEF AppendPathSegment, EndOfPath
  <2>. QED  BY <2>1, <2>2
<1>10. IsPutIn(value', value, EndOfPath, t)
  BY <1>3, <1>4, <1>5, <1>9, PutIn
<1>11. path_index' = EndOfHost
  <2>1. path_index' = Separated(u).path
    BY <1>8 DEF AppendPathSegment
  <2>. QED  BY <1>6, <2>1
<1>12. query_index' = IF query_index = 0 THEN 0 ELSE EndOfPath + Len(t)
  <2>1. Len(u \o t) = EndOfPath + Len(t)
    BY <1>5, <1>6, Glue DEF IsGlued
  <2>. QED  BY <1>1, <1>7, <1>8, <2>1 DEF AppendPathSegment
<1>13. t # <<>> \/ EndOfHost < EndOfPath
  BY <1>2, <1>4, <1>6, NotEmpty
<1>14. InOrder' /\ Base' = Base /\ Path' = Path \o t /\ GetQuery' = GetQuery
  BY <1>5, <1>10, <1>11, <1>12, <1>13, GrowPath
<1>15. Path \o t = Parts!WithSlash(Path) \o e
  <2>1. Parts!WithSlash(Path) = Path \o Slash(Path)
    BY <1>4, WithSlashIs
  <2>2. PICK s : s = Slash(Path)
    OBVIOUS
  <2>3. (Path \o s) \o e = Path \o (s \o e)
    BY <1>4, <2>2, TextAlgebra
  <2>. QED  BY <1>2, <2>1, <2>2, <2>3
<1>16. Parts!EncodePathSegment(Parts!StripSlash(segment)) = e
  BY <1>1, SameWords
<1>. QED  BY <1>14, <1>15, <1>16 DEF Parts!Segment, Base, Path

LEMMA ParamStep ==
  ASSUME Inputs, InOrder, NEW param \in Names, NEW v \in Values, AppendQueryParam(param, v)
  PROVE  InOrder' /\ Parts!Param(param, v)
<1>1. PICK p : p = Pair(param, v)
  OBVIOUS
<1>2. /\ value \in Text /\ Len(value) \in Nat /\ p \in Text /\ <<"?">> \in Text /\ <<"&">> \in Text
      /\ <<>> \in Text /\ Len(<<>>) = 0 /\ Path \in Text
  <2>1. param \in Text /\ v \in Text \cup {NoValue}
    BY DEF Inputs
  <2>. QED  BY <1>1, <2>1, PairIsText, Lengths, TextAlgebra, SlashIsText, PathIsCut DEF InOrder
<1>3. CASE query_index = 0
  <2>1. PICK r : r = <<"?">> \o p
    OBVIOUS
  <2>2. IsGlued(r, <<"?">>, p)
    BY <1>2, <2>1, Glue
  <2>3. Len(<<"?">>) = 1 /\ <<"?">>[1] = "?"
    OBVIOUS
  <2>4. r \in Text /\ r # <<>> /\ r[1] = "?"
    BY <1>2, <2>1, <2>2, <2>3, NotEmpty DEF IsGlued
  <2>5. value' = (value \o <<>>) \o r /\ query_index' = Len(value) + Len(<<>>)
    <3>1. value' = Append(value, "?") \o p /\ query_index' = Len(value)
      BY <1>1, <1>3 DEF AppendQueryParam
    <3>2. Append(value, "?") = value \o <<"?">> /\ value \o <<>> = value
      BY <1>2, TextAlgebra, SlashIsText
    <3>. QED  BY <1>2, <2>1, <3>1, <3>2, TextAlgebra
  <2>6. path_index' = path_index
    BY DEF AppendQueryParam
  <2>7. InOrder' /\ Base' = Base /\ Path' = Path \o <<>> /\ GetQuery' = Behind(r, 1)
    BY <1>2, <1>3, <2>4, <2>5, <2>6, NewQuery
  <2>8. Behind(r, 1) = p
    <3>1. PICK a : a = <<"?">>
      OBVIOUS
    <3>2. a \in Text /\ Len(a) = 1 /\ 0 \in Nat /\ 0 <= Len(p)
      BY <1>2, <2>3, <3>1, Lengths
    <3>3. Behind(a \o p, Len(a) + 0) = Behind(p, 0)
      BY <1>2, <3>2, BehindFront
    <3>. QED  BY <1>2, <2>1, <3>1, <3>2, <3>3, Whole
  <2>9. Path \o <<>> = Path
    BY <1>2, TextAlgebra
  <2>10. GetQuery = NoQuery
    BY <1>3 DEF GetQuery
  <2>. QED  BY <1>1, <2>7, <2>8, <2>9, <2>10, SameWords DEF Parts!Param, Base, Path
<1>4. CASE query_index # 0
  <2>1. PICK t : t = <<"&">> \o p
    OBVIOUS
  <2>2. t \in Text
    BY <1>2, <2>1, TextAlgebra
  <2>3. value' = Append(value, "&") \o p /\ UNCHANGED <<path_index, query_index>>
    BY <1>1, <1>4 DEF AppendQueryParam
  <2>4. value' = value \o t
    BY <1>2, <2>1, <2>3, TextAlgebra, SlashIsText
  <2>5. InOrder' /\ Base' = Base /\ Path' = Path /\ GetQuery' = GetQuery \o t
    BY <1>4, <2>2, <2>3, <2>4, GrowQuery
  <2>6. GetQuery \in Text
    BY <1>4, QueryIsText
  <2>7. GetQuery \o t = Append(GetQuery, "&") \o p
    <3>1. PICK g : g = GetQuery
      OBVIOUS
    <3>2. PICK a : a = <<"&">>
      OBVIOUS
    <3>3. Append(g, "&") = g \o a
      BY <2>6, <3>1, <3>2, TextAlgebra, SlashIsText
    <3>4. g \o (a \o p) = (g \o a) \o p
      BY <1>2, <2>6, <3>1, <3>2, TextAlgebra
    <3>. QED  BY <2>1, <3>1, <3>2, <3>3, <3>4
  <2>8. GetQuery # NoQuery
    BY <2>6 DEF Inputs
  <2>. QED  BY <1>1, <2>5, <2>7, <2>8, SameWords DEF Parts!Param, Base, Path
<1>. QED  BY <1>3, <1>4

LEMMA EndingInQuery ==
  ASSUME InOrder, query_index # 0, NEW ending \in Text,
         value' = (IF EndsWithSlash(value) THEN value ELSE Append(value, "/")) \o ending,
         UNCHANGED <<path_index, query_index>>
  PROVE  /\ InOrder' /\ Base' = Base /\ Path' = Path
         /\ GetQuery' = Parts!WithSlash(GetQuery) \o ending
<1>1. PICK s : s = Slash(value)
  OBVIOUS
<1>2. PICK t : t = s \o ending
  OBVIOUS
<1>3. PICK g : g = GetQuery
  OBVIOUS
<1>4. value \in Text /\ g \in Text /\ s \in Text /\ s = Slash(GetQuery)
  BY <1>1, <1>3, QueryIsText, SlashIsText, SlashOfQuery DEF InOrder
<1>5. t \in Text
  BY <1>2, <1>4, TextAlgebra
<1>6. value' = value \o t
  <2>1. value \o <<>> = value /\ Append(value, "/") = value \o <<"/">>
    BY <1>4, TextAlgebra, SlashIsText
  <2>2. value' = (value \o s) \o ending
    BY <1>1, <2>1 DEF Slash
  <2>3. SameJoined(value, s, ending)
    BY <1>2, <1>4, Regroup
  <2>. QED  BY <1>2, <2>2, <2>3 DEF SameJoined
<1>7. InOrder' /\ Base' = Base /\ Path' = Path /\ GetQuery' = GetQuery \o t
  BY <1>5, <1>6, GrowQuery
<1>8. Parts!WithSlash(g) = g \o s
  BY <1>3, <1>4, WithSlashIs
<1>9. g \o t = (g \o s) \o ending
  BY <1>2, <1>4, TextAlgebra
<1>. QED  BY <1>3, <1>7, <1>8, <1>9

LEMMA EndingInPath ==
  ASSUME InOrder, query_index = 0, NEW ending \in Text,
         value' = Separated(value).value \o ending, path_index' = Separated(value).path,
         query_index' = 0
  PROVE  /\ InOrder' /\ Base' = Base /\ GetQuery' = GetQuery
         /\ Path' = Parts!WithSlash(Path) \o ending
<1>1. PICK s : s = Slash(Path)
  OBVIOUS
<1>2. PICK t : t = s \o ending
  OBVIOUS
<1>3. value \in Text /\ Path \in Text /\ s \in Text /\ EndOfPath = Len(value)
  BY <1>1, PathIsCut, SlashIsText DEF InOrder, EndOfPath
<1>4. t \in Text
  BY <1>2, <1>3, TextAlgebra
<1>5. value = Upto(value, EndOfPath)
  BY <1>3, Whole
<1>6. /\ Separated(value).value = value \o s
      /\ Separated(value).path = EndOfHost
      /\ s # <<>> \/ EndOfHost < EndOfPath
  BY <1>1, <1>5, Separate
<1>7. value' = value \o t
  <2>1. (value \o s) \o ending = value \o (s \o ending)
    <3>1. SameJoined(value, s, ending)
      BY <1>3, Regroup
    <3>. QED  BY <3>1 DEF SameJoined
  <2>. QED  BY <1>2, <1>6, <2>1
<1>8. IsPutIn(value', value, EndOfPath, t)
  BY <1>3, <1>4, <1>7, PutAtEnd
<1>9. t # <<>> \/ EndOfHost < EndOfPath
  BY <1>2, <1>3, <1>6, NotEmpty
<1>10. path_index' = EndOfHost
  BY <1>6
<1>11. InOrder' /\ Base' = Base /\ Path' = Path \o t /\ GetQuery' = GetQuery
  BY <1>4, <1>8, <1>9, <1>10, GrowPath
<1>12. Parts!WithSlash(Path) = Path \o s
  BY <1>1, <1>3, WithSlashIs
<1>13. Path \o t = (Path \o s) \o ending
  BY <1>2, <1>3, TextAlgebra
<1>. QED  BY <1>11, <1>12, <1>13

LEMMA EndingInBoth ==
  ASSUME InOrder, query_index = 0, NEW ending \in Text, NEW n \in Nat, n < Len(ending),
         ending[n + 1] = "?",
         value' = Separated(value).value \o ending, path_index' = Separated(value).path,
         query_index' = Len(Separated(value).value) + n
  PROVE  /\ InOrder' /\ Base' = Base
         /\ Path' = Parts!WithSlash(Path) \o Upto(ending, n)
         /\ GetQuery' = Behind(ending, n + 1)
<1>1. PICK s : s = Slash(Path)
  OBVIOUS
<1>2. PICK a : a = Upto(ending, n)
  OBVIOUS
<1>3. PICK r : r = Behind(ending, n)
  OBVIOUS
<1>4. PICK t : t = s \o a
  OBVIOUS
<1>5. /\ value \in Text /\ Path \in Text /\ s \in Text /\ EndOfPath = Len(value)
      /\ Len(ending) \in Nat /\ Len(value) \in Nat /\ Len(s) \in Nat
  BY <1>1, PathIsCut, SlashIsText, Lengths DEF InOrder, EndOfPath
<1>6. a \in Text /\ r \in Text /\ Len(a) = n /\ Len(r) = Len(ending) - n /\ ending = a \o r
  <2>1. n <= Len(ending)
    BY <1>5
  <2>2. /\ Upto(ending, n) \in Text /\ Behind(ending, n) \in Text
        /\ Len(Upto(ending, n)) = n /\ Len(Behind(ending, n)) = Len(ending) - n
        /\ ending = Upto(ending, n) \o Behind(ending, n)
    BY <2>1, InTwo
  <2>. QED  BY <1>2, <1>3, <2>2
<1>7. IsCut(r, ending, n, Len(ending))
  BY <1>3, <1>5, CutBehind
<1>8. r # <<>> /\ r[1] = "?"
  <2>1. Len(r) # 0 /\ 1 \in 1..(Len(ending) - n)
    BY <1>5, <1>6
  <2>2. r[1] = ending[n + 1]
    BY <1>7, <2>1 DEF IsCut
  <2>. QED  BY <2>1, <2>2, EmptySeq
<1>9. t \in Text /\ Len(t) = Len(s) + n
  BY <1>4, <1>5, <1>6, Glue DEF IsGlued
<1>10. value = Upto(value, EndOfPath)
  BY <1>5, Whole
<1>11. /\ Separated(value).value = value \o s
       /\ Separated(value).path = EndOfHost
       /\ s # <<>> \/ EndOfHost < EndOfPath
  BY <1>1, <1>10, Separate
<1>12. value' = (value \o t) \o r
  <2>1. PICK w \in Text : w = value \o s
    BY <1>5, <1>6, TextAlgebra
  <2>2. SameJoined(value, s, a) /\ SameJoined(w, a, r)
    BY <1>5, <1>6, Regroup
  <2>. QED  BY <1>4, <1>6, <1>11, <2>1, <2>2 DEF SameJoined
<1>13. query_index' = Len(value) + Len(t)
  <2>1. Len(value \o s) = Len(value) + Len(s)
    BY <1>5, Glue DEF IsGlued
  <2>. QED  BY <1>5, <1>9, <1>11, <2>1
<1>14. path_index' = EndOfHost /\ (t # <<>> \/ EndOfHost < EndOfPath)
  <2>1. t # <<>> \/ EndOfHost < EndOfPath
    BY <1>4, <1>5, <1>6, <1>11, NotEmpty
  <2>. QED  BY <1>11, <2>1
<1>15. InOrder' /\ Base' = Base /\ Path' = Path \o t /\ GetQuery' = Behind(r, 1)
  BY <1>6, <1>8, <1>9, <1>12, <1>13, <1>14, NewQuery
<1>16. Behind(r, 1) = Behind(ending, n + 1)
  <2>1. 1 <= Len(r)
    BY <1>5, <1>6
  <2>2. Behind(a \o r, Len(a) + 1) = Behind(r, 1)
    BY <1>6, <2>1, BehindFront
  <2>. QED  BY <1>6, <2>2
<1>17. Parts!WithSlash(Path) = Path \o s
  BY <1>1, <1>5, WithSlashIs
<1>18. Path \o t = (Path \o s) \o a
  <2>1. PICK p \in Text : p = Path
    BY <1>5
  <2>2. s \in Text /\ a \in Text
    BY <1>5, <1>6
  <2>3. (p \o s) \o a = p \o (s \o a)
    <3>1. SameJoined(p, s, a)
      BY <2>2, Regroup
    <3>. QED  BY <3>1 DEF SameJoined
  <2>. QED  BY <1>4, <2>1, <2>3
<1>. QED  BY <1>2, <1>15, <1>16, <1>17, <1>18

LEMMA EndingStep ==
  ASSUME Inputs, InOrder, NEW raw_ending \in Endings, AppendRawEnding(raw_ending)
  PROVE  InOrder' /\ Parts!Ending(raw_ending)
<1>1. PICK ending : ending = StripSlash(raw_ending)
  OBVIOUS
<1>2. ending \in Text /\ ending = Parts!StripSlash(raw_ending)
  <2>1. raw_ending \in Text
    BY DEF Inputs
  <2>. QED  BY <1>1, <2>1, StrippedIsText, SameWords
<1>3. CASE query_index # 0
  <2>1. GetQuery \in Text
    BY <1>3, QueryIsText
  <2>2. GetQuery # NoQuery
    BY <2>1 DEF Inputs
  <2>3. /\ value' = (IF EndsWithSlash(value) THEN value ELSE Append(value, "/")) \o ending
        /\ UNCHANGED <<path_index, query_index>>
    BY <1>1, <1>3 DEF AppendRawEnding
  <2>4. /\ InOrder' /\ Base' = Base /\ Path' = Path
        /\ GetQuery' = Parts!WithSlash(GetQuery) \o ending
    BY <1>2, <1>3, <2>3, EndingInQuery
  <2>. QED  BY <1>2, <2>2, <2>4 DEF Parts!Ending, Base, Path
<1>4. CASE query_index = 0
  <2>1. GetQuery = NoQuery
    BY <1>4 DEF GetQuery
  <2>2. /\ value' = Separated(value).value \o ending
        /\ path_index' = Separated(value).path
        /\ query_index' = IF Places(ending, "?") = {} THEN 0
                          ELSE Len(Separated(value).value) + Min(Places(ending, "?"))
    BY <1>1, <1>4 DEF AppendRawEnding
  <2>3. CASE Places(ending, "?") = {}
    <3>1. /\ InOrder' /\ Base' = Base /\ GetQuery' = GetQuery
          /\ Path' = Parts!WithSlash(Path) \o ending
      BY <1>2, <1>4, <2>2, <2>3, EndingInPath
    <3>2. Parts!Places(ending, "?") = {}
      BY <2>3, SameWords
    <3>. QED  BY <1>2, <2>1, <3>1, <3>2 DEF Parts!Ending, Base, Path
  <2>4. CASE Places(ending, "?") # {}
    <3>1. PICK n : n = Min(Places(ending, "?"))
      OBVIOUS
    <3>2. Places(ending, "?") \subseteq Nat /\ Len(ending) \in Nat
      BY <1>2, Lengths DEF Places
    <3>3. n \in Places(ending, "?")
      BY <2>4, <3>1, <3>2, MinIsLeast
    <3>4. n \in Nat /\ n < Len(ending) /\ ending[n + 1] = "?"
      BY <3>2, <3>3 DEF Places
    <3>5. /\ InOrder' /\ Base' = Base
          /\ Path' = Parts!WithSlash(Path) \o Upto(ending, n)
          /\ GetQuery' = Behind(ending, n + 1)
      BY <1>2, <1>4, <2>2, <2>4, <3>1, <3>4, EndingInBoth
    <3>6. Parts!Places(ending, "?") # {} /\ n = Parts!Min(Parts!Places(ending, "?"))
      BY <2>4, <3>1, SameWords
    <3>7. /\ Upto(ending, n) = Parts!Upto(ending, n)
          /\ Behind(ending, n + 1) = Parts!Behind(ending, n + 1)
      BY SameWords
    <3>. QED  BY <1>2, <2>1, <3>5, <3>6, <3>7 DEF Parts!Ending, Base, Path
  <2>. QED  BY <2>3, <2>4
<1>. QED  BY <1>3, <1>4

-----------------------------------------------------------------------------
(* What a fresh builder finds in the text *)

\* b begins with a scheme, not that of a unix socket, and its host at h.
Headed(b, h) ==
  \E n \in Nat :
    /\ 0 < n /\ h = n + 3 /\ h <= Len(b)
    /\ b[1] \in Letters /\ \A k \in 1..n : b[k] \in SchemeChar
    /\ b[n + 1] = ":" /\ b[n + 2] = "/" /\ b[n + 3] = "/"
    /\ ~IsUnixScheme(Upto(b, n))

\* The colons in it a port can stand behind.
Colons(b, h) ==
  {n \in Places(b, ":") :
    /\ n >= h
    /\ ~(b[h + 1] = "[" /\ \A m \in Places(b, "]") : m >= h => n < m)}

\* A base is a scheme and a host, with the port at p if it has one.
HostForm(b, h, p) ==
  /\ Headed(b, h)
  /\ \A k \in 1..Len(b) : h < k => b[k] # "/" /\ b[k] # "?"
  /\ p = OrNone(Max, Colons(b, h))

PathForm(p) == p # <<>> => p[1] = "/" /\ Places(p, "?") = {}

\* What the getters cut out has the form by which new finds its place.
InForm == HostForm(Base, host_index, port_index) /\ PathForm(Path)

\* A head stays one in a longer text, and in a shorter one that has all of it.
LEMMA SameHead ==
  ASSUME NEW v \in Text, NEW e \in Nat, e <= Len(v), NEW b, IsCut(b, v, 0, e), NEW h \in Nat
  PROVE  Headed(b, h) <=> Headed(v, h) /\ h <= e
<1>1. b \in Text /\ Len(b) = e /\ (\A k \in 1..e : b[k] = v[k]) /\ Len(v) \in Nat
  BY Lengths DEF IsCut
<1>2. ASSUME NEW n \in Nat, n <= e PROVE Upto(b, n) = Upto(v, n)
  <2>1. PICK s : s = Upto(b, n)
    OBVIOUS
  <2>2. PICK t : t = Upto(v, n)
    OBVIOUS
  <2>3. IsCut(s, b, 0, n) /\ IsCut(t, v, 0, n)
    BY <1>1, <1>2, <2>1, <2>2, CutUpto
  <2>4. s \in Text /\ t \in Text /\ Len(s) = n /\ Len(t) = n /\ \A k \in 1..n : s[k] = t[k]
    BY <1>1, <1>2, <2>3 DEF IsCut
  <2>. QED  BY <2>1, <2>2, <2>4, SameText
<1>3. ASSUME NEW n \in Nat, 0 < n, h = n + 3, h <= e
      PROVE  /\ b[1] = v[1] /\ b[n + 1] = v[n + 1] /\ b[n + 2] = v[n + 2] /\ b[n + 3] = v[n + 3]
             /\ \A k \in 1..n : b[k] = v[k]
             /\ Upto(b, n) = Upto(v, n)
  BY <1>1, <1>2, <1>3
<1>4. ASSUME Headed(b, h) PROVE Headed(v, h) /\ h <= e
  <2>1. PICK n \in Nat :
          /\ 0 < n /\ h = n + 3 /\ h <= Len(b)
          /\ b[1] \in Letters /\ \A k \in 1..n : b[k] \in SchemeChar
          /\ b[n + 1] = ":" /\ b[n + 2] = "/" /\ b[n + 3] = "/"
          /\ ~IsUnixScheme(Upto(b, n))
    BY <1>4 DEF Headed
  <2>2. /\ 0 < n /\ h = n + 3 /\ h <= Len(v) /\ h <= e
        /\ v[1] \in Letters /\ \A k \in 1..n : v[k] \in SchemeChar
        /\ v[n + 1] = ":" /\ v[n + 2] = "/" /\ v[n + 3] = "/"
        /\ ~IsUnixScheme(Upto(v, n))
    BY <1>1, <1>3, <2>1
  <2>. QED  BY <2>2 DEF Headed
<1>5. ASSUME Headed(v, h), h <= e PROVE Headed(b, h)
  <2>1. PICK n \in Nat :
          /\ 0 < n /\ h = n + 3 /\ h <= Len(v)
          /\ v[1] \in Letters /\ \A k \in 1..n : v[k] \in SchemeChar
          /\ v[n + 1] = ":" /\ v[n + 2] = "/" /\ v[n + 3] = "/"
          /\ ~IsUnixScheme(Upto(v, n))
    BY <1>5 DEF Headed
  <2>2. /\ 0 < n /\ h = n + 3 /\ h <= Len(b)
        /\ b[1] \in Letters /\ \A k \in 1..n : b[k] \in SchemeChar
        /\ b[n + 1] = ":" /\ b[n + 2] = "/" /\ b[n + 3] = "/"
        /\ ~IsUnixScheme(Upto(b, n))
    BY <1>1, <1>3, <1>5, <2>1
  <2>. QED  BY <2>2 DEF Headed
<1>. QED  BY <1>4, <1>5

LEMMA MarkIsText ==
  <<":", "/", "/">> \in Text /\ Len(<<":", "/", "/">>) = 3
  /\ <<":", "/", "/">>[1] = ":" /\ <<":", "/", "/">>[2] = "/" /\ <<":", "/", "/">>[3] = "/"
BY DEF Text, Char

\* In a text with a head new finds the scheme and the host, and takes it for no unix socket.
LEMMA HeadIsFound ==
  ASSUME NEW v \in Text, NEW h \in Nat, Headed(v, h)
  PROVE  /\ HasScheme(v) /\ HostIndex(v) = h
         /\ ~IsUnixSocket(v)
         /\ \A S : S = {m \in Places(v, ":") : m + 1 \in Places(v, "/")}
                   => ~(S # {} /\ IsUnixScheme(Upto(v, Min(S))))
<1>1. PICK n \in Nat :
        /\ 0 < n /\ h = n + 3 /\ h <= Len(v)
        /\ v[1] \in Letters /\ \A k \in 1..n : v[k] \in SchemeChar
        /\ v[n + 1] = ":" /\ v[n + 2] = "/" /\ v[n + 3] = "/"
        /\ ~IsUnixScheme(Upto(v, n))
  BY DEF Headed
<1>2. Len(v) \in Nat /\ v # <<>>
  BY <1>1, Lengths, EmptySeq
<1>3. ":" \notin SchemeChar /\ "/" \notin Letters /\ "~" \notin Letters /\ "/" \in Char /\ "~" \in Char
  BY DEF SchemeChar, Letters, Char
<1>4. SchemeLen(v) = n
  <2>1. PICK S : S = {m \in 0..(Len(v) - 1) : v[m + 1] \notin SchemeChar}
    OBVIOUS
  <2>2. S \subseteq Nat /\ n \in S
    BY <1>1, <1>2, <1>3, <2>1
  <2>3. ASSUME NEW m \in S PROVE n <= m
    <3>1. m \in Nat /\ v[m + 1] \notin SchemeChar
      BY <1>2, <2>1
    <3>2. ~(m + 1 \in 1..n)
      BY <1>1, <3>1
    <3>. QED  BY <3>1, <3>2
  <2>. QED  BY <2>1, <2>2, <2>3, MinIs DEF SchemeLen
<1>5. StartsWith(Behind(v, n), <<":", "/", "/">>)
  <2>1. PICK t : t = Behind(v, n)
    OBVIOUS
  <2>2. IsCut(t, v, n, Len(v))
    BY <1>1, <1>2, <2>1, CutBehind
  <2>3. t \in Text /\ Len(t) >= 3 /\ t[1] = v[n + 1] /\ t[2] = v[n + 2] /\ t[3] = v[n + 3]
    BY <1>1, <1>2, <2>2 DEF IsCut
  <2>4. PICK p : p = <<":", "/", "/">>
    OBVIOUS
  <2>5. p \in Text /\ Len(p) = 3 /\ p[1] = ":" /\ p[2] = "/" /\ p[3] = "/"
    BY <2>4, MarkIsText
  <2>6. \A k \in 1..3 : t[k] = p[k]
    <3>1. ASSUME NEW k \in 1..3 PROVE t[k] = p[k]
      <4>1. k = 1 \/ k = 2 \/ k = 3
        OBVIOUS
      <4>. QED  BY <1>1, <2>3, <2>5, <4>1
    <3>. QED  BY <3>1
  <2>7. StartsWith(t, p)
    BY <2>3, <2>5, <2>6, Begins
  <2>. QED  BY <2>1, <2>4, <2>7
<1>6. HasScheme(v)
  <2>1. n + 1 \in 1..Len(v) /\ v[n + 1] \notin SchemeChar
    BY <1>1, <1>2, <1>3
  <2>. QED  BY <1>1, <1>2, <1>4, <1>5, <2>1 DEF HasScheme
<1>7. HostIndex(v) = h
  BY <1>1, <1>4, <1>6 DEF HostIndex
<1>8. n \in Places(v, ":") /\ n + 1 \in Places(v, "/")
  BY <1>1, <1>2, PlaceOf
<1>9. ASSUME NEW m \in Places(v, ":") PROVE n <= m
  <2>1. m \in Nat /\ v[m + 1] = ":"
    BY PlaceOf
  <2>2. ~(m + 1 \in 1..n)
    BY <1>1, <1>3, <2>1
  <2>. QED  BY <2>1, <2>2
<1>10. ~IsUnixSocket(v)
  <2>1. ~StartsWith(v, <<"/">>) /\ ~StartsWith(v, <<"~">>)
    BY <1>1, <1>3, BeginsWithOne
  <2>2. ASSUME NEW m \in Places(v, ":"), \A k \in Places(v, ":") : m <= k
        PROVE  m = n
    <3>1. m <= n /\ n <= m /\ m \in Nat
      BY <1>8, <1>9, <2>2, PlaceOf
    <3>. QED  BY <3>1
  <2>3. ~HasUnixScheme(v)
    BY <1>1, <2>2 DEF HasUnixScheme
  <2>. QED  BY <2>1, <2>3 DEF IsUnixSocket
<1>11. ASSUME NEW S, S = {m \in Places(v, ":") : m + 1 \in Places(v, "/")}
       PROVE  ~(S # {} /\ IsUnixScheme(Upto(v, Min(S))))
  <2>1. S \subseteq Nat /\ n \in S /\ \A m \in S : n <= m
    BY <1>8, <1>9, <1>11, PlaceOf
  <2>2. Min(S) = n
    BY <2>1, MinIs
  <2>. QED  BY <1>1, <2>2
<1>. QED  BY <1>6, <1>7, <1>10, <1>11

\* What new has in hand begins with a head: the scheme of the text, or the one it puts before it.
LEMMA HeadAtFirst ==
  ASSUME NEW src \in Text, ~IsUnixSocket(src)
  PROVE  Headed(WithScheme(src), HostIndex(src))
<1>1. Len(src) \in Nat
  BY Lengths
<1>2. ":" \notin SchemeChar /\ "/" \in Char
  BY DEF SchemeChar, Letters, Char
<1>3. PICK p : p = <<":", "/", "/">>
  OBVIOUS
<1>4. p \in Text /\ Len(p) = 3 /\ p[1] = ":" /\ p[2] = "/" /\ p[3] = "/"
  BY <1>3, MarkIsText
<1>5. CASE HasScheme(src)
  <2>1. PICK S : S = {n \in 0..(Len(src) - 1) : src[n + 1] \notin SchemeChar}
    OBVIOUS
  <2>2. S \subseteq Nat /\ \A n \in S : n < Len(src)
    BY <1>1, <2>1
  <2>3. S # {}
    <3>1. PICK k \in 1..Len(src) : src[k] \notin SchemeChar
      BY <1>5 DEF HasScheme
    <3>2. k - 1 \in 0..(Len(src) - 1) /\ (k - 1) + 1 = k
      BY <1>1
    <3>3. k - 1 \in S
      BY <2>1, <3>1, <3>2
    <3>. QED  BY <3>3
  <2>4. PICK n : n = SchemeLen(src)
    OBVIOUS
  <2>5. n \in S /\ \A m \in S : n <= m
    BY <2>1, <2>2, <2>3, <2>4, MinIsLeast DEF SchemeLen
  <2>6. n \in Nat /\ n < Len(src) /\ n <= Len(src)
    BY <1>1, <2>2, <2>5
  <2>7. ASSUME NEW k \in 1..n PROVE src[k] \in SchemeChar
    <3>1. k - 1 \in 0..(Len(src) - 1) /\ (k - 1) + 1 = k /\ ~(n <= k - 1)
      BY <1>1, <2>6
    <3>2. ~(k - 1 \in S)
      BY <2>5, <3>1
    <3>. QED  BY <2>1, <3>1, <3>2
  <2>8. PICK t : t = Behind(src, n)
    OBVIOUS
  <2>9. IsCut(t, src, n, Len(src))
    BY <1>1, <2>6, <2>8, CutBehind
  <2>10. t \in Text /\ Len(t) = Len(src) - n /\ \A k \in 1..(Len(src) - n) : t[k] = src[n + k]
    BY <2>9 DEF IsCut
  <2>11. StartsWith(t, p)
    BY <1>3, <1>5, <2>4, <2>8 DEF HasScheme
  <2>12. Len(p) <= Len(t) /\ \A k \in 1..Len(p) : t[k] = p[k]
    BY <1>4, <2>10, <2>11, Begins
  <2>13. 3 <= Len(src) - n /\ t[1] = ":" /\ t[2] = "/" /\ t[3] = "/"
    BY <1>4, <2>10, <2>12
  <2>14. src[n + 1] = ":" /\ src[n + 2] = "/" /\ src[n + 3] = "/"
    BY <1>1, <2>6, <2>10, <2>13
  <2>15. src # <<>> /\ src[1] \in Letters
    BY <1>5 DEF HasScheme
  <2>16. 0 < n
    <3>1. src[n + 1] \notin SchemeChar
      BY <2>1, <2>5
    <3>2. n # 0
      BY <2>15, <3>1 DEF SchemeChar
    <3>. QED  BY <2>6, <3>2
  <2>17. ~IsUnixScheme(Upto(src, n))
    <3>1. n \in Places(src, ":")
      BY <2>6, <2>14, PlaceOf
    <3>2. ASSUME NEW m \in Places(src, ":") PROVE n <= m
      <4>1. m \in Nat /\ m < Len(src) /\ src[m + 1] = ":"
        BY PlaceOf
      <4>2. ~(m + 1 \in 1..n)
        BY <1>2, <2>7, <4>1
      <4>. QED  BY <2>6, <4>1, <4>2
    <3>3. StartsWith(Behind(src, n + 1), <<"/">>)
      <4>1. PICK u : u = Behind(src, n + 1)
        OBVIOUS
      <4>2. n + 1 \in Nat /\ n + 1 <= Len(src)
        BY <1>1, <2>6
      <4>3. IsCut(u, src, n + 1, Len(src))
        BY <4>1, <4>2, CutBehind
      <4>4. u \in Text /\ Len(u) = Len(src) - (n + 1) /\ 1 \in 1..(Len(src) - (n + 1))
        BY <1>1, <2>6, <2>13, <4>3 DEF IsCut
      <4>5. u[1] = src[n + 2]
        <5>1. u[1] = src[(n + 1) + 1] /\ (n + 1) + 1 = n + 2
          BY <2>6, <4>3, <4>4 DEF IsCut
        <5>. QED  BY <5>1
      <4>6. u # <<>>
        BY <1>1, <2>6, <4>4, EmptySeq
      <4>. QED  BY <1>2, <2>14, <4>1, <4>4, <4>5, <4>6, BeginsWithOne
    <3>4. ~HasUnixScheme(src)
      BY DEF IsUnixSocket
    <3>. QED  BY <3>1, <3>2, <3>3, <3>4 DEF HasUnixScheme
  <2>18. WithScheme(src) = src /\ HostIndex(src) = n + 3 /\ n + 3 <= Len(src)
    BY <1>1, <1>5, <2>4, <2>6, <2>13 DEF WithScheme, HostIndex
  <2>19. Headed(src, n + 3)
    BY <2>6, <2>7, <2>14, <2>15, <2>16, <2>17, <2>18 DEF Headed
  <2>. QED  BY <2>18, <2>19
<1>6. CASE ~HasScheme(src)
  <2>1. PICK a : a = Http
    OBVIOUS
  <2>2. /\ a \in Text /\ Len(a) = 4
        /\ a[1] = "a" /\ a[2] = ":" /\ a[3] = "/" /\ a[4] = "/"
    BY <2>1 DEF Http, Text, Char, SchemeChar, Letters
  <2>3. PICK v : v = a \o src
    OBVIOUS
  <2>4. IsGlued(v, a, src)
    BY <2>2, <2>3, Glue
  <2>5. v \in Text /\ Len(v) >= 4 /\ v[1] = "a" /\ v[2] = ":" /\ v[3] = "/" /\ v[4] = "/"
    BY <1>1, <2>2, <2>4 DEF IsGlued
  <2>6. ~IsUnixScheme(Upto(v, 1))
    <3>1. 1 \in Nat /\ 1 <= Len(v) /\ Len(v) \in Nat
      BY <2>5, Lengths
    <3>2. IsCut(Upto(v, 1), v, 0, 1)
      BY <2>5, <3>1, CutUpto
    <3>3. Upto(v, 1)[1] = "a"
      BY <2>5, <3>2 DEF IsCut
    <3>. QED  BY <3>3 DEF IsUnixScheme
  <2>7. "a" \in Letters /\ "a" \in SchemeChar
    BY DEF Letters, SchemeChar
  <2>8. Headed(v, 4)
    BY <2>5, <2>6, <2>7 DEF Headed
  <2>9. WithScheme(src) = v /\ HostIndex(src) = 4
    BY <1>6, <2>1, <2>2, <2>3 DEF WithScheme, HostIndex
  <2>. QED  BY <2>8, <2>9
<1>. QED  BY <1>5, <1>6

\* x is the first place of c in v from m on and before n, or 0 when there is none.
FirstPlace(x, v, c, m, n) ==
  /\ x \in Nat
  /\ x # 0 => m <= x /\ x < n /\ v[x + 1] = c
  /\ \A k \in 1..(IF x = 0 THEN n ELSE x) : m < k => v[k] # c

\* p and q are the places of the path and the query in v, behind its host at h.
IsScan(v, h, p, q) ==
  /\ FirstPlace(q, v, "?", h, Len(v))
  /\ FirstPlace(p, v, "/", h, IF q = 0 THEN Len(v) ELSE q)

LEMMA FirstFrom ==
  ASSUME NEW v \in Text, NEW c, NEW m \in Nat, NEW n \in Nat, NEW S, NEW x,
         0 < m, n <= Len(v), S = {k \in Places(v, c) : k >= m /\ k < n}, x = OrNone(Min, S)
  PROVE  FirstPlace(x, v, c, m, n)
<1>1. Len(v) \in Nat
  BY Lengths
<1>2. S \subseteq Nat /\ \A k : k \in S <=> k \in Nat /\ m <= k /\ k < n /\ v[k + 1] = c
  BY <1>1, PlaceOf
<1>3. CASE S = {}
  <2>1. x = 0
    BY <1>3 DEF OrNone
  <2>2. ASSUME NEW k \in 1..n, m < k PROVE v[k] # c
    <3>1. k - 1 \in Nat /\ m <= k - 1 /\ k - 1 < n /\ (k - 1) + 1 = k
      BY <2>2
    <3>. QED  BY <1>2, <1>3, <3>1
  <2>3. (IF x = 0 THEN n ELSE x) = n /\ x \in Nat
    BY <2>1
  <2>. QED  BY <2>1, <2>2, <2>3 DEF FirstPlace
<1>4. CASE S # {}
  <2>1. x = Min(S)
    BY <1>4 DEF OrNone
  <2>2. x \in S /\ \A k \in S : x <= k
    BY <1>2, <1>4, <2>1, MinIsLeast
  <2>3. x \in Nat /\ m <= x /\ x < n /\ v[x + 1] = c /\ x # 0
    BY <1>2, <2>2
  <2>4. ASSUME NEW k \in 1..x, m < k PROVE v[k] # c
    <3>1. k - 1 \in Nat /\ m <= k - 1 /\ k - 1 < n /\ (k - 1) + 1 = k /\ ~(x <= k - 1)
      BY <2>3, <2>4
    <3>2. ~(k - 1 \in S)
      BY <2>2, <3>1
    <3>. QED  BY <1>2, <3>1, <3>2
  <2>. QED  BY <2>3, <2>4 DEF FirstPlace
<1>. QED  BY <1>3, <1>4

\* And it is the only one with nothing before it.
LEMMA OnlyFirst ==
  ASSUME NEW v \in Text, NEW c, NEW m \in Nat, NEW n \in Nat, NEW S, NEW x,
         0 < m, n <= Len(v), S = {k \in Places(v, c) : k >= m /\ k < n},
         FirstPlace(x, v, c, m, n)
  PROVE  OrNone(Min, S) = x
<1>1. Len(v) \in Nat
  BY Lengths
<1>2. S \subseteq Nat /\ \A k : k \in S <=> k \in Nat /\ m <= k /\ k < n /\ v[k + 1] = c
  BY <1>1, PlaceOf
<1>3. ASSUME NEW k \in S PROVE x # 0 /\ x <= k
  <2>1. k \in Nat /\ m <= k /\ k < n /\ v[k + 1] = c /\ m < k + 1
    BY <1>2
  <2>2. ~(k + 1 \in 1..(IF x = 0 THEN n ELSE x)) /\ x \in Nat
    BY <2>1 DEF FirstPlace
  <2>. QED  BY <2>1, <2>2
<1>4. CASE x = 0
  <2>1. S = {}
    BY <1>3, <1>4
  <2>. QED  BY <1>4, <2>1 DEF OrNone
<1>5. CASE x # 0
  <2>1. x \in S
    BY <1>2, <1>5 DEF FirstPlace
  <2>2. Min(S) = x
    BY <1>2, <1>3, <2>1, MinIs
  <2>. QED  BY <2>1, <2>2 DEF OrNone
<1>. QED  BY <1>4, <1>5

\* What the scan finds.
LEMMA ScanFinds ==
  ASSUME NEW v \in Text, NEW h \in Nat, 0 < h, h <= Len(v)
  PROVE  IsScan(v, h, Scan(v, h).path, Scan(v, h).query)
<1>1. Len(v) \in Nat
  BY Lengths
<1>2. PICK Q : Q = {k \in Places(v, "?") : k >= h /\ k < Len(v)}
  OBVIOUS
<1>3. Q = {n \in Places(v, "?") : n >= h}
  BY <1>2, PlaceOf
<1>4. PICK q : q = OrNone(Min, Q)
  OBVIOUS
<1>5. FirstPlace(q, v, "?", h, Len(v))
  BY <1>1, <1>2, <1>4, FirstFrom
<1>6. PICK e : e = IF q = 0 THEN Len(v) ELSE q
  OBVIOUS
<1>7. e \in Nat /\ e <= Len(v)
  BY <1>1, <1>5, <1>6 DEF FirstPlace
<1>8. PICK P : P = {k \in Places(v, "/") : k >= h /\ k < e}
  OBVIOUS
<1>9. PICK p : p = OrNone(Min, P)
  OBVIOUS
<1>10. FirstPlace(p, v, "/", h, e)
  BY <1>7, <1>8, <1>9, FirstFrom
<1>11. Scan(v, h).query = q /\ Scan(v, h).path = p
  BY <1>3, <1>4, <1>6, <1>8, <1>9 DEF Scan, OrNone
<1>. QED  BY <1>5, <1>6, <1>10, <1>11 DEF IsScan

\* The scan finds nothing else, and the port it finds is that of the text before path and query.
LEMMA ScanIsOnly ==
  ASSUME NEW v \in Text, NEW h \in Nat, NEW p, NEW q, NEW e, NEW b,
         0 < h, h <= Len(v), IsScan(v, h, p, q),
         e = IF p = 0 THEN IF q = 0 THEN Len(v) ELSE q ELSE p,
         IsCut(b, v, 0, e)
  PROVE  Scan(v, h) = [host |-> h, port |-> OrNone(Max, Colons(b, h)), path |-> p, query |-> q]
<1>1. Len(v) \in Nat
  BY Lengths
<1>2. PICK ep : ep = IF q = 0 THEN Len(v) ELSE q
  OBVIOUS
<1>3. FirstPlace(q, v, "?", h, Len(v)) /\ FirstPlace(p, v, "/", h, ep)
  BY <1>2 DEF IsScan
<1>4. /\ p \in Nat /\ q \in Nat /\ ep \in Nat /\ e \in Nat
      /\ h <= ep /\ ep <= Len(v) /\ e <= ep /\ h <= e
      /\ (p = 0 => e = ep) /\ (p # 0 => e = p /\ p < ep)
  BY <1>1, <1>2, <1>3 DEF FirstPlace
<1>5. PICK Q : Q = {k \in Places(v, "?") : k >= h /\ k < Len(v)}
  OBVIOUS
<1>6. Q = {n \in Places(v, "?") : n >= h}
  BY <1>5, PlaceOf
<1>7. OrNone(Min, Q) = q
  BY <1>1, <1>3, <1>5, OnlyFirst
<1>8. PICK P : P = {k \in Places(v, "/") : k >= h /\ k < ep}
  OBVIOUS
<1>9. OrNone(Min, P) = p
  BY <1>3, <1>4, <1>8, OnlyFirst
<1>10. PICK C : C = {n \in Places(v, ":") :
                      /\ n >= h /\ n < ep /\ (p # 0 => n < p)
                      /\ ~(/\ h < Len(v) /\ v[h + 1] = "["
                           /\ \A m \in Places(v, "]") : m >= h => n < m)}
  OBVIOUS
<1>11. /\ b \in Text /\ Len(b) = e /\ \A k \in 1..e : b[k] = v[k]
  BY <1>4 DEF IsCut
<1>12. ASSUME NEW n PROVE n \in C <=> n \in Colons(b, h)
  <2>1. n \in C => n \in Nat /\ h <= n /\ n < e /\ v[n + 1] = ":"
    <3>1. ASSUME n \in C PROVE n \in Nat /\ h <= n /\ n < e /\ v[n + 1] = ":"
      <4>1. n \in Places(v, ":") /\ n >= h /\ n < ep /\ (p # 0 => n < p)
        BY <1>10, <3>1
      <4>2. n \in Nat /\ v[n + 1] = ":"
        BY <4>1, PlaceOf
      <4>. QED  BY <1>4, <4>1, <4>2
    <3>. QED  BY <3>1
  <2>2. n \in Colons(b, h) => n \in Nat /\ h <= n /\ n < e /\ v[n + 1] = ":"
    <3>1. ASSUME n \in Colons(b, h) PROVE n \in Nat /\ h <= n /\ n < e /\ v[n + 1] = ":"
      <4>1. n \in Places(b, ":") /\ n >= h
        BY <3>1 DEF Colons
      <4>2. n \in Nat /\ n < e /\ b[n + 1] = ":"
        BY <1>11, <4>1, PlaceOf
      <4>3. n + 1 \in 1..e
        BY <1>4, <4>2
      <4>. QED  BY <1>11, <4>1, <4>2, <4>3
    <3>. QED  BY <3>1
  <2>3. ASSUME n \in Nat, h <= n, n < e, v[n + 1] = ":"
        PROVE  n \in C <=> n \in Colons(b, h)
    <3>1. n + 1 \in 1..e /\ h + 1 \in 1..e /\ n < ep /\ n < Len(v) /\ h < Len(v)
      BY <1>1, <1>4, <2>3
    <3>2. b[n + 1] = ":" /\ b[h + 1] = v[h + 1]
      BY <1>11, <2>3, <3>1
    <3>3. n \in Places(v, ":") /\ n \in Places(b, ":")
      BY <1>11, <2>3, <3>1, <3>2, PlaceOf
    <3>4. p # 0 => n < p
      BY <1>4, <2>3
    <3>5. ASSUME NEW m \in Places(b, "]") PROVE m \in Places(v, "]")
      <4>1. m \in Nat /\ m < e /\ b[m + 1] = "]"
        BY <1>11, PlaceOf
      <4>2. m + 1 \in 1..e /\ m < Len(v)
        BY <1>1, <1>4, <4>1
      <4>. QED  BY <1>11, <4>1, <4>2, PlaceOf
    <3>6. ASSUME NEW m \in Places(v, "]"), m \notin Places(b, "]") PROVE n < m
      <4>1. m \in Nat /\ m < Len(v) /\ v[m + 1] = "]"
        BY PlaceOf
      <4>2. CASE m < e
        <5>1. m + 1 \in 1..e
          BY <1>4, <4>1, <4>2
        <5>2. m \in Places(b, "]")
          BY <1>11, <4>1, <4>2, <5>1, PlaceOf
        <5>. QED  BY <3>6, <5>2
      <4>. QED  BY <1>4, <2>3, <4>1, <4>2
    <3>7. (\A m \in Places(v, "]") : m >= h => n < m) <=> (\A m \in Places(b, "]") : m >= h => n < m)
      BY <3>5, <3>6
    <3>8. n >= h
      BY <2>3
    <3>. QED  BY <1>10, <3>1, <3>2, <3>3, <3>4, <3>7, <3>8 DEF Colons
  <2>. QED  BY <2>1, <2>2, <2>3
<1>13. C = Colons(b, h)
  BY <1>12
<1>14. Scan(v, h) = [host |-> h, port |-> OrNone(Max, C), path |-> p, query |-> q]
  BY <1>2, <1>6, <1>7, <1>8, <1>9, <1>10 DEF Scan, OrNone
<1>. QED  BY <1>13, <1>14

\* Seen from the text: what is before the path, and what is behind the base.
LEMMA SeenInText ==
  ASSUME InOrder
  PROVE  /\ value \in Text /\ Len(value) \in Nat
         /\ EndOfHost \in Nat /\ EndOfPath \in Nat /\ EndOfHost <= EndOfPath /\ EndOfPath <= Len(value)
         /\ IsCut(Base, value, 0, EndOfHost)
         /\ Base \in Text /\ Len(Base) = EndOfHost
         /\ \A k \in 1..EndOfHost : Base[k] = value[k]
         /\ Path \in Text /\ Len(Path) = EndOfPath - EndOfHost
         /\ \A k \in 1..Len(Path) : Path[k] = value[EndOfHost + k]
<1>1. /\ value \in Text /\ Len(value) \in Nat
      /\ EndOfHost \in Nat /\ EndOfPath \in Nat /\ EndOfHost <= EndOfPath /\ EndOfPath <= Len(value)
      /\ EndOfHost <= Len(value)
  BY Lengths DEF InOrder
<1>2. IsCut(Base, value, 0, EndOfHost)
  BY <1>1, CutUpto DEF Base, GetSchemeAndHost
<1>3. IsCut(Path, value, EndOfHost, EndOfPath)
  BY PathIsCut
<1>. QED  BY <1>1, <1>2, <1>3 DEF IsCut

\* In a text in form, in which all parts stand where they belong, the scan finds the indices.
LEMMA ScanFindsIndices ==
  ASSUME InOrder, InForm
  PROVE  /\ host_index \in Nat /\ 0 < host_index /\ host_index <= EndOfHost
         /\ Headed(value, host_index)
         /\ Scan(value, host_index) = Indices
<1>1. /\ value \in Text /\ Len(value) \in Nat
      /\ EndOfHost \in Nat /\ EndOfPath \in Nat /\ EndOfHost <= EndOfPath /\ EndOfPath <= Len(value)
      /\ IsCut(Base, value, 0, EndOfHost)
      /\ Base \in Text /\ Len(Base) = EndOfHost
      /\ \A k \in 1..EndOfHost : Base[k] = value[k]
      /\ Path \in Text /\ Len(Path) = EndOfPath - EndOfHost
      /\ \A k \in 1..Len(Path) : Path[k] = value[EndOfHost + k]
  BY SeenInText
<1>2. /\ Headed(Base, host_index)
      /\ \A k \in 1..EndOfHost : host_index < k => value[k] # "/" /\ value[k] # "?"
      /\ port_index = OrNone(Max, Colons(Base, host_index))
  BY <1>1 DEF InForm, HostForm
<1>3. host_index \in Nat /\ 0 < host_index
  BY <1>2 DEF Headed
<1>4. Headed(value, host_index) /\ host_index <= EndOfHost
  <2>1. EndOfHost <= Len(value)
    BY <1>1
  <2>. QED  BY <1>1, <1>2, <1>3, <2>1, SameHead
<1>5. /\ path_index \in Nat /\ query_index \in Nat
      /\ query_index # 0 => query_index < Len(value) /\ value[query_index + 1] = "?"
      /\ path_index # 0 => path_index = EndOfHost /\ path_index < EndOfPath
      /\ path_index = 0 => EndOfHost = EndOfPath
      /\ EndOfPath = IF query_index = 0 THEN Len(value) ELSE query_index
  BY <1>1 DEF InOrder, EndOfHost, EndOfPath
<1>6. path_index # 0 => Path[1] = "/" /\ Places(Path, "?") = {}
  <2>. SUFFICES ASSUME path_index # 0 PROVE Path[1] = "/" /\ Places(Path, "?") = {}
    OBVIOUS
  <2>1. Len(Path) # 0
    BY <1>1, <1>5
  <2>2. Path # <<>>
    BY <2>1, EmptySeq
  <2>. QED  BY <2>2 DEF InForm, PathForm
<1>7. ASSUME NEW k \in 1..EndOfPath, host_index < k PROVE value[k] # "?"
  <2>1. CASE k <= EndOfHost
    BY <1>1, <1>2, <1>7, <2>1
  <2>2. CASE k > EndOfHost
    <3>1. PICK j : j = k - EndOfHost
      OBVIOUS
    <3>2. j \in 1..Len(Path) /\ EndOfHost + j = k
      BY <1>1, <2>2, <3>1
    <3>3. path_index # 0
      BY <1>1, <1>5, <2>2
    <3>4. Path[j] # "?"
      <4>1. PICK p \in Text : p = Path
        BY <1>1
      <4>2. Places(p, "?") = {} /\ j \in 1..Len(p)
        BY <1>6, <3>2, <3>3, <4>1
      <4>. QED  BY <4>1, <4>2, NoPlace
    <3>. QED  BY <1>1, <3>2, <3>4
  <2>. QED  BY <1>1, <2>1, <2>2
<1>8. FirstPlace(query_index, value, "?", host_index, Len(value))
  BY <1>1, <1>3, <1>4, <1>5, <1>7 DEF FirstPlace
<1>9. path_index # 0 => value[path_index + 1] = "/"
  <2>. SUFFICES ASSUME path_index # 0 PROVE value[path_index + 1] = "/"
    OBVIOUS
  <2>1. 1 \in 1..Len(Path)
    BY <1>1, <1>5
  <2>. QED  BY <1>1, <1>5, <1>6, <2>1
<1>10. FirstPlace(path_index, value, "/", host_index, EndOfPath)
  BY <1>1, <1>2, <1>3, <1>4, <1>5, <1>9 DEF FirstPlace
<1>11. IsScan(value, host_index, path_index, query_index)
  BY <1>5, <1>8, <1>10 DEF IsScan
<1>12. EndOfHost = IF path_index = 0 THEN IF query_index = 0 THEN Len(value) ELSE query_index
                   ELSE path_index
  BY <1>5
<1>13. host_index <= Len(value)
  BY <1>1, <1>3, <1>4
<1>14. Scan(value, host_index)
         = [host |-> host_index, port |-> OrNone(Max, Colons(Base, host_index)),
            path |-> path_index, query |-> query_index]
  BY <1>1, <1>3, <1>11, <1>12, <1>13, ScanIsOnly
<1>. QED  BY <1>2, <1>3, <1>4, <1>14 DEF Indices

LEMMA FormReadsBack ==
  ASSUME InOrder, InForm
  PROVE  ReadsBackTheSame
<1>1. /\ value \in Text /\ host_index \in Nat /\ Headed(value, host_index)
      /\ Scan(value, host_index) = Indices
  BY ScanFindsIndices DEF InOrder
<1>2. /\ HasScheme(value) /\ HostIndex(value) = host_index
      /\ ~IsUnixSocket(value)
      /\ \A S : S = {m \in Places(value, ":") : m + 1 \in Places(value, "/")}
                => ~(S # {} /\ IsUnixScheme(Upto(value, Min(S))))
  BY <1>1, HeadIsFound
<1>3. ~IsUnixSocketScheme
  BY <1>2 DEF IsUnixSocketScheme, SchemeEnds
<1>4. WithScheme(value) = value
  BY <1>2 DEF WithScheme
<1>5. Parsed(value) = Indices
  BY <1>1, <1>2, <1>4 DEF Parsed
<1>. QED  BY <1>2, <1>3, <1>4, <1>5 DEF ReadsBackTheSame

\* An append keeps the form: it does not touch the base, and what it puts into the path begins
\* with the slash it needs and has no mark.
LEMMA PathKeepsForm ==
  ASSUME NEW p \in Text, PathForm(p), NEW t \in Text, Places(t, "?") = {}
  PROVE  PathForm(Parts!WithSlash(p) \o t)
<1>1. PICK s : s = Slash(p)
  OBVIOUS
<1>2. PICK w : w = p \o s
  OBVIOUS
<1>3. PICK x : x = w \o t
  OBVIOUS
<1>4. s \in Text /\ w \in Text /\ x \in Text
  BY <1>1, <1>2, <1>3, SlashIsText, TextAlgebra
<1>5. Places(s, "?") = {}
  <2>1. \A k \in 1..Len(s) : s[k] # "?"
    BY <1>1 DEF Slash
  <2>. QED  BY <1>4, <2>1, NoPlace
<1>6. Places(p, "?") = {}
  <2>1. CASE p = <<>>
    <3>1. \A k \in 1..Len(p) : p[k] # "?"
      BY <2>1
    <3>. QED  BY <3>1, NoPlace
  <2>. QED  BY <2>1 DEF PathForm
<1>7. Places(w, "?") = {}
  BY <1>2, <1>4, <1>5, <1>6, NoPlaceInBoth
<1>8. Places(x, "?") = {}
  BY <1>3, <1>4, <1>7, NoPlaceInBoth
<1>9. IsGlued(w, p, s) /\ IsGlued(x, w, t) /\ Len(p) \in Nat /\ Len(s) \in Nat
  BY <1>2, <1>3, <1>4, Glue, Lengths
<1>10. w # <<>> /\ w[1] = "/"
  <2>1. CASE p = <<>>
    <3>1. s = <<"/">>
      BY <1>1, <2>1 DEF Slash, EndsWithSlash
    <3>2. w = s
      BY <1>2, <1>4, <2>1, TextAlgebra
    <3>. QED  BY <3>1, <3>2
  <2>2. CASE p # <<>>
    <3>1. p[1] = "/" /\ Len(p) # 0
      BY <2>2, EmptySeq DEF PathForm, Text
    <3>2. 1 \in 1..Len(p) /\ Len(w) # 0
      BY <1>9, <3>1 DEF IsGlued
    <3>. QED  BY <1>9, <3>1, <3>2, EmptySeq DEF IsGlued
  <2>. QED  BY <2>1, <2>2
<1>11. x[1] = "/"
  <2>1. Len(w) \in Nat /\ Len(w) # 0
    BY <1>4, <1>10, Lengths, EmptySeq DEF Text
  <2>2. 1 \in 1..Len(w)
    BY <2>1
  <2>. QED  BY <1>9, <1>10, <2>2 DEF IsGlued
<1>12. Parts!WithSlash(p) = w
  BY <1>1, <1>2, WithSlashIs
<1>. QED  BY <1>3, <1>8, <1>11, <1>12 DEF PathForm

\* The base and the two indices in it stay.
BaseStays == Base' = Base /\ UNCHANGED <<host_index, port_index>>

LEMMA FormStays ==
  ASSUME InForm, BaseStays, PathForm(Path')
  PROVE  InForm'
<1>1. HostForm(Base', host_index', port_index')
  BY DEF InForm, BaseStays
<1>. QED  BY <1>1 DEF InForm

LEMMA SegmentKeepsForm ==
  ASSUME Inputs, InOrder, InForm, NEW segment \in Segments, AppendPathSegment(segment)
  PROVE  BaseStays /\ InForm'
<1>1. PICK t : t = EncodePathSegment(StripSlash(segment))
  OBVIOUS
<1>2. t \in Text /\ Places(t, "?") = {}
  <2>1. StripSlash(segment) \in Text
    BY StrippedIsText DEF Inputs
  <2>. QED  BY <1>1, <2>1, EncodedIsText, EncodedHasNoMark
<1>3. Parts!Segment(segment)
  BY SegmentStep
<1>4. Base' = Base /\ Path' = Parts!WithSlash(Path) \o t
  BY <1>1, <1>3, SameWords DEF Parts!Segment, Base, Path
<1>5. BaseStays
  BY <1>4 DEF BaseStays, AppendPathSegment
<1>6. PathForm(Parts!WithSlash(Path) \o t)
  BY <1>2, PathIsCut, PathKeepsForm DEF InForm
<1>. QED  BY <1>4, <1>5, <1>6, FormStays

LEMMA ParamKeepsForm ==
  ASSUME Inputs, InOrder, InForm, NEW param \in Names, NEW v \in Values, AppendQueryParam(param, v)
  PROVE  BaseStays /\ InForm'
<1>1. Parts!Param(param, v)
  BY ParamStep
<1>2. Base' = Base /\ Path' = Path
  BY <1>1 DEF Parts!Param, Base, Path
<1>3. BaseStays
  BY <1>2 DEF BaseStays, AppendQueryParam
<1>. QED  BY <1>2, <1>3, FormStays DEF InForm

LEMMA EndingKeepsForm ==
  ASSUME Inputs, InOrder, InForm, NEW raw_ending \in Endings, AppendRawEnding(raw_ending)
  PROVE  BaseStays /\ InForm'
<1>1. PICK t : t = StripSlash(raw_ending)
  OBVIOUS
<1>2. t \in Text
  BY <1>1, StrippedIsText DEF Inputs
<1>3. Parts!Ending(raw_ending)
  BY EndingStep
<1>4. /\ Base' = Base
      /\ \/ Path' = Path
         \/ Places(t, "?") = {} /\ Path' = Parts!WithSlash(Path) \o t
         \/ /\ Places(t, "?") # {}
            /\ Path' = Parts!WithSlash(Path) \o Upto(t, Min(Places(t, "?")))
  BY <1>1, <1>3, SameWords DEF Parts!Ending, Base, Path
<1>5. BaseStays
  BY <1>4 DEF BaseStays, AppendRawEnding
<1>6. PathForm(Path) /\ Path \in Text
  BY PathIsCut DEF InForm
<1>7. CASE Path' = Path
  BY <1>5, <1>6, <1>7, FormStays
<1>8. CASE Places(t, "?") = {} /\ Path' = Parts!WithSlash(Path) \o t
  <2>1. PathForm(Parts!WithSlash(Path) \o t)
    BY <1>2, <1>6, <1>8, PathKeepsForm
  <2>. QED  BY <1>5, <1>8, <2>1, FormStays
<1>9. CASE /\ Places(t, "?") # {}
           /\ Path' = Parts!WithSlash(Path) \o Upto(t, Min(Places(t, "?")))
  <2>1. PICK u : u = Upto(t, Min(Places(t, "?")))
    OBVIOUS
  <2>2. u \in Text /\ Places(u, "?") = {}
    BY <1>2, <1>9, <2>1, NoneBefore
  <2>3. PathForm(Parts!WithSlash(Path) \o u)
    BY <1>6, <2>2, PathKeepsForm
  <2>. QED  BY <1>5, <1>9, <2>1, <2>3, FormStays
<1>. QED  BY <1>4, <1>5, <1>7, <1>8, <1>9

-----------------------------------------------------------------------------
(* new *)

LEMMA NewFinds ==
  ASSUME NEW src \in Text, New(src)
  PROVE  /\ value \in Text /\ host_index \in Nat /\ 0 < host_index /\ host_index <= Len(value)
         /\ Headed(value, host_index)
         /\ IsScan(value, host_index, path_index, query_index)
         /\ port_index = Scan(value, host_index).port
<1>1. PICK v : v = WithScheme(src)
  OBVIOUS
<1>2. PICK h : h = HostIndex(src)
  OBVIOUS
<1>3. v \in Text
  <2>1. Http \in Text
    BY DEF Http, Text, Char, SchemeChar, Letters
  <2>. QED  BY <1>1, <2>1, TextAlgebra DEF WithScheme
<1>4. Headed(v, h)
  BY <1>1, <1>2, HeadAtFirst DEF New
<1>5. h \in Nat /\ 0 < h /\ h <= Len(v)
  BY <1>4 DEF Headed
<1>6. PICK r : r = Scan(v, h)
  OBVIOUS
<1>7. IsScan(v, h, r.path, r.query)
  BY <1>3, <1>5, <1>6, ScanFinds
<1>8. r.host = h
  BY <1>6 DEF Scan
<1>9. Parsed(src) = r
  BY <1>1, <1>2, <1>6 DEF Parsed
<1>10. /\ value = v /\ host_index = r.host /\ port_index = r.port
       /\ path_index = r.path /\ query_index = r.query
  BY <1>1, <1>9 DEF New
<1>. QED  BY <1>3, <1>4, <1>5, <1>6, <1>7, <1>8, <1>10

LEMMA NewInOrder ==
  ASSUME NEW src \in Text, New(src)
  PROVE  InOrder /\ InForm /\ Parts!Init
<1>1. /\ value \in Text /\ host_index \in Nat /\ 0 < host_index /\ host_index <= Len(value)
      /\ Headed(value, host_index)
      /\ IsScan(value, host_index, path_index, query_index)
      /\ port_index = Scan(value, host_index).port
      /\ Len(value) \in Nat
  BY NewFinds, Lengths
<1>2. /\ FirstPlace(query_index, value, "?", host_index, Len(value))
      /\ FirstPlace(path_index, value, "/", host_index, EndOfPath)
  BY <1>1 DEF IsScan, EndOfPath
<1>3. /\ query_index \in Nat /\ path_index \in Nat
      /\ query_index # 0 => /\ host_index <= query_index /\ query_index < Len(value)
                            /\ value[query_index + 1] = "?"
      /\ \A k \in 1..EndOfPath : host_index < k => value[k] # "?"
      /\ path_index # 0 => /\ host_index <= path_index /\ path_index < EndOfPath
                           /\ value[path_index + 1] = "/"
  BY <1>2 DEF FirstPlace, EndOfPath
<1>4. /\ EndOfPath \in Nat /\ host_index <= EndOfPath /\ EndOfPath <= Len(value)
      /\ EndOfHost \in Nat /\ host_index <= EndOfHost /\ EndOfHost <= EndOfPath
      /\ path_index = 0 => EndOfHost = EndOfPath
      /\ path_index # 0 => EndOfHost = path_index
  BY <1>1, <1>3 DEF EndOfPath, EndOfHost
<1>5. \A k \in 1..EndOfHost : host_index < k => value[k] # "/"
  <2>1. EndOfHost = IF path_index = 0 THEN EndOfPath ELSE path_index
    BY <1>4
  <2>. QED  BY <1>2, <2>1 DEF FirstPlace
<1>6. InOrder
  BY <1>1, <1>3, <1>4 DEF InOrder
<1>7. /\ IsCut(Base, value, 0, EndOfHost)
      /\ Base \in Text /\ Len(Base) = EndOfHost
      /\ \A k \in 1..EndOfHost : Base[k] = value[k]
      /\ Path \in Text /\ Len(Path) = EndOfPath - EndOfHost
      /\ \A k \in 1..Len(Path) : Path[k] = value[EndOfHost + k]
  BY <1>6, SeenInText
<1>8. Headed(Base, host_index)
  <2>1. EndOfHost <= Len(value)
    BY <1>1, <1>4
  <2>. QED  BY <1>1, <1>4, <1>7, <2>1, SameHead
<1>9. port_index = OrNone(Max, Colons(Base, host_index))
  <2>1. EndOfHost = IF path_index = 0 THEN IF query_index = 0 THEN Len(value) ELSE query_index
                    ELSE path_index
    BY <1>4 DEF EndOfPath
  <2>2. Scan(value, host_index)
          = [host |-> host_index, port |-> OrNone(Max, Colons(Base, host_index)),
             path |-> path_index, query |-> query_index]
    BY <1>1, <1>7, <2>1, ScanIsOnly
  <2>. QED  BY <1>1, <2>2
<1>10. ASSUME NEW k \in 1..EndOfHost, host_index < k
       PROVE  Base[k] # "/" /\ Base[k] # "?"
  <2>1. k \in 1..EndOfPath
    BY <1>4
  <2>. QED  BY <1>3, <1>5, <1>7, <1>10, <2>1
<1>11. PathForm(Path)
  <2>. SUFFICES ASSUME Path # <<>> PROVE Path[1] = "/" /\ Places(Path, "?") = {}
    BY DEF PathForm
  <2>1. path_index # 0 /\ EndOfHost = path_index
    BY <1>4 DEF Path
  <2>2. 1 \in 1..Len(Path)
    BY <1>3, <1>4, <1>7, <2>1
  <2>3. Path[1] = "/"
    BY <1>3, <1>7, <2>1, <2>2
  <2>4. PICK p \in Text : p = Path
    BY <1>7
  <2>5. ASSUME NEW k \in 1..Len(p) PROVE p[k] # "?"
    <3>1. EndOfHost + k \in 1..EndOfPath /\ host_index < EndOfHost + k
      BY <1>1, <1>4, <1>7, <2>4
    <3>. QED  BY <1>3, <1>7, <2>4, <3>1
  <2>. QED  BY <2>3, <2>4, <2>5, NoPlace
<1>12. InForm
  BY <1>7, <1>8, <1>9, <1>10, <1>11 DEF InForm, HostForm
<1>13. Base # <<>>
  BY <1>1, <1>4, <1>7, EmptySeq
<1>14. GetQuery = NoQuery \/ GetQuery \in Text
  BY <1>6, QueryIsText DEF GetQuery
<1>15. Parts!Text = Text /\ Parts!Places(Path, "?") = Places(Path, "?")
  BY SameWords
<1>. QED  BY <1>6, <1>7, <1>11, <1>12, <1>13, <1>14, <1>15 DEF PathForm, Parts!Init, Base, Path

\* Behind a host that is all there is before them, new finds path and query as they are written.
LEMMA NewBehindHost ==
  ASSUME NEW p \in Text, NEW q \in Text, NEW src, src = <<"a">> \o (p \o q), New(src),
         PathForm(p), Places(p, "?") = {}, q # <<>> => q[1] = "?"
  PROVE  Path = p /\ GetQuery = IF q = <<>> THEN NoQuery ELSE Behind(q, 1)
<1>1. PICK w \in Text : w = p \o q
  BY TextAlgebra
<1>2. PICK n \in Nat : n = Len(p)
  BY Lengths
<1>3. PICK m \in Nat : m = Len(q)
  BY Lengths
<1>4. "a" \in Char /\ <<"a">> \in Text /\ Len(<<"a">>) = 1 /\ <<"a">>[1] = "a" /\ "a" \in SchemeChar
  <2>1. "a" \in Char /\ "a" \in SchemeChar
    BY DEF Char, SchemeChar, Letters
  <2>. QED  BY <2>1, TextAlgebra
<1>5. src \in Text /\ src = <<"a">> \o w
  BY <1>1, <1>4, TextAlgebra
<1>6. IsGlued(w, p, q) /\ IsGlued(src, <<"a">>, w)
  BY <1>1, <1>4, <1>5, Glue
<1>7. Len(w) = n + m /\ (\A k \in 1..n : w[k] = p[k]) /\ \A k \in 1..m : w[n + k] = q[k]
  BY <1>2, <1>3, <1>6 DEF IsGlued
<1>8. Len(src) = 1 + (n + m) /\ src[1] = "a" /\ \A k \in 1..(n + m) : src[1 + k] = w[k]
  <2>1. PICK a : a = <<"a">>
    OBVIOUS
  <2>2. IsGlued(src, a, w) /\ Len(a) = 1 /\ a[1] = "a" /\ Len(w) = n + m
    BY <1>4, <1>6, <1>7, <2>1
  <2>3. Len(src) = 1 + (n + m) /\ (\A k \in 1..1 : src[k] = a[k]) /\ \A k \in 1..(n + m) : src[1 + k] = w[k]
    BY <2>2 DEF IsGlued
  <2>. QED  BY <2>2, <2>3
<1>9. (p = <<>> <=> n = 0) /\ (q = <<>> <=> m = 0)
  BY <1>2, <1>3, EmptySeq DEF Text
<1>10. n + m # 0 => src[2] = "/" \/ src[2] = "?"
  <2>1. CASE n # 0
    <3>1. 1 \in 1..n /\ 1 \in 1..(n + m) /\ 1 + 1 = 2 /\ p[1] = "/"
      BY <1>9, <2>1 DEF PathForm
    <3>. QED  BY <1>7, <1>8, <3>1
  <2>2. CASE n = 0 /\ m # 0
    <3>1. 1 \in 1..m /\ 1 \in 1..(n + m) /\ 1 + 1 = 2 /\ n + 1 = 1 /\ q[1] = "?"
      BY <1>9, <2>2
    <3>. QED  BY <1>7, <1>8, <3>1
  <2>. QED  BY <2>1, <2>2, n + m # 0 => n # 0 \/ m # 0
<1>11. ~HasScheme(src)
  <2>. SUFFICES ASSUME HasScheme(src) PROVE FALSE
    OBVIOUS
  <2>1. PICK k \in 1..Len(src) : src[k] \notin SchemeChar
    BY DEF HasScheme
  <2>2. n + m # 0
    <3>1. k # 1
      BY <1>4, <1>8, <2>1
    <3>. QED  BY <1>8, <2>1, <3>1
  <2>3. PICK S : S = {x \in 0..(Len(src) - 1) : src[x + 1] \notin SchemeChar}
    OBVIOUS
  <2>4. "/" \notin SchemeChar /\ "?" \notin SchemeChar /\ ":" # "/" /\ ":" # "?"
    BY DEF SchemeChar, Letters
  <2>5. S \subseteq Nat /\ 1 \in S /\ \A x \in S : 1 <= x
    <3>1. 1 \in 0..(Len(src) - 1) /\ src[1 + 1] \notin SchemeChar
      BY <1>8, <1>10, <2>2, <2>4
    <3>2. 0 \notin S
      BY <1>4, <1>8, <2>3
    <3>. QED  BY <1>8, <2>3, <3>1, <3>2
  <2>6. SchemeLen(src) = 1
    BY <2>3, <2>5, MinIs DEF SchemeLen
  <2>7. PICK t : t = Behind(src, 1)
    OBVIOUS
  <2>8. t \in Text /\ Len(t) = n + m /\ t[1] = src[2]
    <3>1. IsCut(t, src, 1, Len(src))
      <4>1. 1 \in Nat /\ 1 <= Len(src)
        BY <1>8
      <4>. QED  BY <1>5, <2>7, <4>1, CutBehind
    <3>2. 1 \in 1..(Len(src) - 1) /\ 1 + 1 = 2
      BY <1>8, <2>2
    <3>. QED  BY <1>8, <3>1, <3>2 DEF IsCut
  <2>9. PICK c : c = <<":", "/", "/">>
    OBVIOUS
  <2>10. c \in Text /\ Len(c) = 3 /\ c[1] = ":"
    BY <2>9, MarkIsText
  <2>11. StartsWith(t, c)
    BY <2>6, <2>7, <2>9 DEF HasScheme
  <2>12. t[1] = ":"
    <3>1. \A k2 \in 1..Len(c) : t[k2] = c[k2]
      BY <2>8, <2>10, <2>11, Begins
    <3>. QED  BY <2>10, <3>1
  <2>. QED  BY <1>10, <2>2, <2>4, <2>8, <2>12
<1>12. Http \in Text /\ Len(Http) = 4
  BY DEF Http, Text, Char, SchemeChar, Letters
<1>13. value = Http \o src /\ host_index = 4
  <2>1. WithScheme(src) = Http \o src /\ HostIndex(src) = 4
    BY <1>11, <1>12 DEF WithScheme, HostIndex
  <2>2. Parsed(src).host = HostIndex(src)
    BY DEF Parsed, Scan
  <2>. QED  BY <2>1, <2>2 DEF New
<1>14. /\ value \in Text /\ Len(value) = 5 + (n + m)
       /\ value[5] = "a"
       /\ \A k \in 1..n : value[5 + k] = p[k]
       /\ \A k \in 1..m : value[(5 + n) + k] = q[k]
  <2>1. IsGlued(value, Http, src)
    BY <1>5, <1>12, <1>13, Glue
  <2>2. Len(value) = 4 + Len(src) /\ \A k \in 1..Len(src) : value[4 + k] = src[k]
    BY <1>12, <2>1 DEF IsGlued
  <2>3. \A k \in 1..(n + m) : value[5 + k] = w[k]
    <3>1. ASSUME NEW k \in 1..(n + m) PROVE value[5 + k] = w[k]
      <4>1. 1 + k \in 1..Len(src) /\ 4 + (1 + k) = 5 + k
        BY <1>8
      <4>. QED  BY <1>8, <2>2, <4>1
    <3>. QED  BY <3>1
  <2>4. \A k \in 1..m : value[(5 + n) + k] = q[k]
    <3>1. ASSUME NEW k \in 1..m PROVE value[(5 + n) + k] = q[k]
      <4>1. n + k \in 1..(n + m) /\ 5 + (n + k) = (5 + n) + k
        OBVIOUS
      <4>. QED  BY <1>7, <2>3, <4>1
    <3>. QED  BY <3>1
  <2>5. value[5] = "a"
    <3>1. 1 \in 1..Len(src) /\ 4 + 1 = 5
      BY <1>8
    <3>. QED  BY <1>8, <2>2, <3>1
  <2>. QED  BY <1>7, <1>8, <2>1, <2>2, <2>3, <2>4, <2>5 DEF IsGlued
<1>15. InOrder /\ IsScan(value, 4, path_index, query_index)
  BY <1>5, <1>13, NewInOrder, NewFinds
<1>16. ASSUME NEW k \in Nat, 4 < k, k <= 5 + n PROVE value[k] # "?"
  <2>1. CASE k = 5
    BY <1>14, <2>1
  <2>2. CASE k # 5
    <3>1. k - 5 \in 1..n /\ 5 + (k - 5) = k
      BY <1>16, <2>2
    <3>2. p[k - 5] # "?"
      BY <1>2, <3>1, NoPlace
    <3>. QED  BY <1>14, <3>1, <3>2
  <2>. QED  BY <2>1, <2>2
<1>17. query_index = IF m = 0 THEN 0 ELSE 5 + n
  <2>1. FirstPlace(query_index, value, "?", 4, Len(value))
    BY <1>15 DEF IsScan
  <2>2. ASSUME query_index # 0 PROVE 4 <= query_index /\ query_index < Len(value) /\ 5 + n <= query_index
    <3>1. query_index \in Nat /\ 4 <= query_index /\ query_index < Len(value) /\ value[query_index + 1] = "?"
      BY <2>1, <2>2 DEF FirstPlace
    <3>2. ~(query_index + 1 <= 5 + n)
      BY <1>16, <3>1
    <3>. QED  BY <3>1, <3>2
  <2>3. query_index \in Nat
    BY <2>1 DEF FirstPlace
  <2>4. CASE m = 0
    BY <1>14, <2>2, <2>3, <2>4
  <2>5. CASE m # 0
    <3>1. value[(5 + n) + 1] = "?" /\ (5 + n) + 1 \in 1..Len(value)
      <4>1. 1 \in 1..m /\ q[1] = "?"
        BY <1>9, <2>5
      <4>. QED  BY <1>14, <4>1
    <3>2. ~((5 + n) + 1 \in 1..(IF query_index = 0 THEN Len(value) ELSE query_index))
      BY <2>1, <3>1 DEF FirstPlace
    <3>. QED  BY <2>2, <2>3, <2>5, <3>1, <3>2
  <2>. QED  BY <2>4, <2>5
<1>18. EndOfPath = 5 + n
  BY <1>14, <1>17 DEF EndOfPath
<1>19. EndOfHost = 5
  <2>1. FirstPlace(path_index, value, "/", 4, 5 + n)
    BY <1>15, <1>18 DEF IsScan, EndOfPath
  <2>2. ASSUME path_index # 0 PROVE 5 <= path_index /\ path_index < 5 + n
    <3>1. path_index \in Nat /\ 4 <= path_index /\ path_index < 5 + n /\ value[path_index + 1] = "/"
      BY <2>1, <2>2 DEF FirstPlace
    <3>2. path_index # 4
      BY <1>14, <3>1
    <3>. QED  BY <3>1, <3>2
  <2>3. path_index \in Nat
    BY <2>1 DEF FirstPlace
  <2>4. CASE n = 0
    <3>1. path_index = 0
      BY <2>2, <2>3, <2>4
    <3>2. EndOfHost = EndOfPath
      BY <1>17, <3>1 DEF EndOfHost, EndOfPath
    <3>. QED  BY <1>18, <2>4, <3>2
  <2>5. CASE n # 0
    <3>1. value[6] = "/" /\ 6 \in 1..(5 + n)
      <4>1. 1 \in 1..n /\ p[1] = "/" /\ 5 + 1 = 6
        BY <1>9, <2>5 DEF PathForm
      <4>. QED  BY <1>14, <4>1
    <3>2. ~(6 \in 1..(IF path_index = 0 THEN 5 + n ELSE path_index))
      BY <2>1, <3>1 DEF FirstPlace
    <3>3. path_index = 5
      BY <2>2, <2>3, <3>1, <3>2
    <3>. QED  BY <3>3 DEF EndOfHost
  <2>. QED  BY <2>4, <2>5
<1>20. Path = p
  <2>1. IsCut(Path, value, 5, 5 + n)
    BY <1>15, <1>18, <1>19, PathIsCut
  <2>2. Path \in Text /\ Len(Path) = n /\ \A k \in 1..n : Path[k] = value[5 + k]
    BY <2>1 DEF IsCut
  <2>. QED  BY <1>2, <1>14, <2>2, SameText
<1>21. CASE m = 0
  BY <1>9, <1>17, <1>20, <1>21 DEF GetQuery
<1>22. CASE m # 0
  <2>1. PICK t : t = Behind(q, 1)
    OBVIOUS
  <2>2. PICK u : u = Behind(value, 5 + n + 1)
    OBVIOUS
  <2>3. IsCut(t, q, 1, m) /\ IsCut(u, value, 5 + n + 1, 5 + (n + m))
    <3>1. 1 \in Nat /\ 1 <= m /\ 5 + n + 1 \in Nat /\ 5 + n + 1 <= 5 + (n + m)
      BY <1>22
    <3>2. IsCut(t, q, 1, Len(q))
      BY <1>3, <2>1, <3>1, CutBehind
    <3>3. IsCut(u, value, 5 + n + 1, Len(value))
      BY <1>14, <2>2, <3>1, CutBehind
    <3>. QED  BY <1>3, <1>14, <3>2, <3>3
  <2>4. t \in Text /\ Len(t) = m - 1 /\ \A k \in 1..(m - 1) : t[k] = q[1 + k]
    BY <2>3 DEF IsCut
  <2>5. u \in Text /\ Len(u) = m - 1 /\ \A k \in 1..(m - 1) : u[k] = value[(5 + n + 1) + k]
    BY <2>3 DEF IsCut
  <2>6. ASSUME NEW k \in 1..(m - 1) PROVE u[k] = t[k]
    <3>1. (5 + n + 1) + k = (5 + n) + (1 + k) /\ 1 + k \in 1..m
      BY <1>22
    <3>. QED  BY <1>14, <2>4, <2>5, <3>1
  <2>7. u = t
    BY <2>4, <2>5, <2>6, SameText
  <2>8. GetQuery = u
    BY <1>17, <1>22, <2>2 DEF GetQuery
  <2>. QED  BY <1>9, <1>20, <1>22, <2>1, <2>7, <2>8
<1>. QED  BY <1>21, <1>22

-----------------------------------------------------------------------------
(* The getters of the host *)

LEMMA CutOfCut ==
  ASSUME NEW v \in Text, NEW e \in Nat, NEW b, NEW m \in Nat, NEW n \in Nat,
         e <= Len(v), IsCut(b, v, 0, e), m <= n, n <= e
  PROVE  Between(v, m, n) = Between(b, m, n)
<1>1. PICK s : s = Between(v, m, n)
  OBVIOUS
<1>2. PICK t : t = Between(b, m, n)
  OBVIOUS
<1>3. b \in Text /\ Len(b) = e /\ (\A k \in 1..e : b[k] = v[k]) /\ Len(v) \in Nat
  BY Lengths DEF IsCut
<1>4. n <= Len(v) /\ n <= Len(b)
  BY <1>3
<1>5. IsCut(s, v, m, n) /\ IsCut(t, b, m, n)
  BY <1>1, <1>2, <1>3, <1>4, Cut
<1>6. s \in Text /\ t \in Text /\ Len(s) = n - m /\ Len(t) = n - m
  BY <1>5 DEF IsCut
<1>7. ASSUME NEW k \in 1..Len(s) PROVE s[k] = t[k]
  <2>1. k \in 1..(n - m) /\ m + k \in 1..e
    BY <1>6
  <2>2. s[k] = v[m + k] /\ t[k] = b[m + k]
    BY <1>5, <2>1 DEF IsCut
  <2>. QED  BY <1>3, <2>1, <2>2
<1>8. s = t
  BY <1>6, <1>7, SameText
<1>. QED  BY <1>1, <1>2, <1>8

\* The port is behind the beginning of the host and before its end.
LEMMA PortInBase ==
  ASSUME NEW b \in Text, NEW h \in Nat, NEW p, HostForm(b, h, p)
  PROVE  p \in Nat /\ h <= Len(b) /\ (p > 0 => h <= p /\ p <= Len(b))
<1>1. Len(b) \in Nat /\ h <= Len(b)
  BY Lengths DEF HostForm, Headed
<1>2. PICK C : C = Colons(b, h)
  OBVIOUS
<1>3. C \subseteq Nat /\ \A n \in C : h <= n /\ n < Len(b)
  BY <1>2, PlaceOf DEF Colons
<1>4. CASE C = {}
  BY <1>1, <1>2, <1>4 DEF HostForm, OrNone
<1>5. CASE C # {}
  <2>1. p = Max(C)
    BY <1>2, <1>5 DEF HostForm, OrNone
  <2>2. p \in C
    BY <1>1, <1>3, <1>5, <2>1, MaxIsGreatest
  <2>. QED  BY <1>1, <1>3, <2>2
<1>. QED  BY <1>4, <1>5

LEMMA HostStays ==
  ASSUME InOrder, InForm, InOrder', BaseStays
  PROVE  /\ GetHost' = GetHost /\ GetHostPort' = GetHostPort
         /\ GetSchemeAndHost' = GetSchemeAndHost
<1>1. PICK b : b = Base
  OBVIOUS
<1>2. PICK h : h = host_index
  OBVIOUS
<1>3. PICK p : p = port_index
  OBVIOUS
<1>4. b = Base' /\ h = host_index' /\ p = port_index'
  BY <1>1, <1>2, <1>3 DEF BaseStays
<1>5. value \in Text /\ EndOfHost \in Nat /\ EndOfHost <= Len(value)
  BY SeenInText
<1>6. value' \in Text /\ EndOfHost' \in Nat /\ EndOfHost' <= Len(value')
  <2>1. value' \in Text /\ EndOfHost' \in Nat /\ EndOfPath' \in Nat
        /\ EndOfHost' <= EndOfPath' /\ EndOfPath' <= Len(value')
    BY DEF InOrder
  <2>2. Len(value') \in Nat
    BY <2>1, Lengths
  <2>. QED  BY <2>1, <2>2
<1>7. b = Upto(value, EndOfHost) /\ b = Upto(value', EndOfHost')
  BY <1>1, <1>4 DEF Base, GetSchemeAndHost
<1>8. IsCut(b, value, 0, EndOfHost) /\ IsCut(b, value', 0, EndOfHost')
  BY <1>5, <1>6, <1>7, CutUpto
<1>9. b \in Text /\ Len(b) = EndOfHost /\ Len(b) = EndOfHost'
  BY <1>5, <1>6, <1>8 DEF IsCut
<1>10. h \in Nat
  BY <1>2, ScanFindsIndices
<1>11. p \in Nat /\ h <= Len(b) /\ (p > 0 => h <= p /\ p <= Len(b))
  BY <1>1, <1>2, <1>3, <1>9, <1>10, PortInBase DEF InForm
<1>12. PICK x : x = IF p > 0 THEN p ELSE Len(b)
  OBVIOUS
<1>13. x \in Nat /\ h <= x /\ x <= EndOfHost /\ x <= EndOfHost'
  BY <1>5, <1>9, <1>11, <1>12
<1>14. GetHost = Between(value, h, x) /\ GetHost' = Between(value', h, x)
  BY <1>2, <1>3, <1>4, <1>9, <1>12 DEF GetHost
<1>15. Between(value, h, x) = Between(b, h, x) /\ Between(value', h, x) = Between(b, h, x)
  BY <1>5, <1>6, <1>8, <1>10, <1>13, CutOfCut
<1>16. PICK y \in Nat : y = Len(b)
  BY <1>9, <1>5
<1>17. GetHostPort = Between(value, h, y) /\ GetHostPort' = Between(value', h, y)
  BY <1>2, <1>4, <1>9, <1>16 DEF GetHostPort
<1>18. h <= y /\ y <= EndOfHost /\ y <= EndOfHost'
  BY <1>5, <1>9, <1>11, <1>16
<1>19. Between(value, h, y) = Between(b, h, y) /\ Between(value', h, y) = Between(b, h, y)
  BY <1>5, <1>6, <1>8, <1>10, <1>18, CutOfCut
<1>. QED  BY <1>1, <1>4, <1>14, <1>15, <1>17, <1>19 DEF Base

-----------------------------------------------------------------------------
(* The crate's reader of a target *)

LEMMA FrontIs ==
  ASSUME NEW t \in Text, t # <<>>
  PROVE  /\ Front(t) \in Text /\ Len(t) \in Nat /\ Len(t) >= 1 /\ Len(Front(t)) = Len(t) - 1
         /\ \A k \in 1..(Len(t) - 1) : Front(t)[k] = t[k]
<1>1. Len(t) \in Nat /\ Len(t) >= 1
  BY Lengths, EmptySeq DEF Text
<1>2. PICK n \in Nat : n = Len(t) - 1
  BY <1>1
<1>3. Front(t) = Upto(t, n)
  BY <1>2 DEF Front, Upto
<1>4. n <= Len(t)
  BY <1>1, <1>2
<1>5. IsCut(Upto(t, n), t, 0, n)
  BY <1>4, CutUpto
<1>. QED  BY <1>1, <1>2, <1>3, <1>5 DEF IsCut

LEMMA TailIs ==
  ASSUME NEW t \in Text, t # <<>>
  PROVE  /\ Tail(t) \in Text /\ Len(Tail(t)) = Len(t) - 1
         /\ \A k \in 1..(Len(t) - 1) : Tail(t)[k] = t[k + 1]
BY HeadTailProperties DEF Text

\* A target of which the reader finds the path p and the query q, with p in origin form ...
LEMMA PathIsMine ==
  ASSUME NEW p \in Text, p # <<>>, p[1] = "/", NEW target, NEW q,
         PathOf(target) = p, QueryOf(target) = q
  PROVE  IsReadBack(target, p, q)
<1>1. Len(p) \in Nat /\ Len(p) >= 1 /\ "/" \in Char
  BY Lengths, EmptySeq DEF Text, Char
<1>2. PICK f : f = Front(p)
  OBVIOUS
<1>3. f \in Text /\ Len(f) = Len(p) - 1 /\ \A k \in 1..(Len(p) - 1) : f[k] = p[k]
  BY <1>2, FrontIs
<1>4. PICK t : t = Tail(p)
  OBVIOUS
<1>5. t \in Text /\ Len(t) = Len(p) - 1 /\ \A k \in 1..(Len(p) - 1) : t[k] = p[k + 1]
  BY <1>4, TailIs
<1>6. StripSlash(p) = t
  <2>1. StartsWith(p, <<"/">>)
    BY <1>1, BeginsWithOne
  <2>. QED  BY <1>4, <2>1 DEF StripSlash
<1>7. PICK mine : mine = Normal(p)
  OBVIOUS
<1>8. /\ Len(p) > 1 /\ p[Len(p)] = "/" => mine = f
      /\ ~(Len(p) > 1 /\ p[Len(p)] = "/") => mine = p
  BY <1>2, <1>7 DEF Normal, EndsWithSlash
<1>9. mine \in Text /\ mine # <<>> /\ mine[1] = "/"
  <2>1. CASE Len(p) > 1 /\ p[Len(p)] = "/"
    <3>1. mine = f /\ 1 \in 1..(Len(p) - 1) /\ Len(f) # 0
      BY <1>1, <1>3, <1>8, <2>1
    <3>. QED  BY <1>3, <3>1, EmptySeq
  <2>2. CASE ~(Len(p) > 1 /\ p[Len(p)] = "/")
    BY <1>8, <2>2
  <2>. QED  BY <2>1, <2>2
<1>10. StartsWith(mine, <<"/">>) /\ StartsWith(p, <<"/">>)
  BY <1>1, <1>9, BeginsWithOne
<1>11. IsMyPath(target, p)
  BY <1>7, <1>10 DEF IsMyPath
<1>12. ASSUME ~EndsWithSlash(p) PROVE IsMyPath(target, Append(p, "/"))
  <2>1. PICK a : a = Append(p, "/")
    OBVIOUS
  <2>2. /\ a \in Text /\ Len(a) = Len(p) + 1 /\ a[Len(p) + 1] = "/"
        /\ \A k \in 1..Len(p) : a[k] = p[k]
    BY <1>1, <2>1, AppendProperties DEF Text
  <2>3. a # <<>> /\ EndsWithSlash(a) /\ Len(a) > 1
    BY <1>1, <2>2, EmptySeq DEF EndsWithSlash
  <2>4. PICK g : g = Front(a)
    OBVIOUS
  <2>5. g \in Text /\ Len(g) = Len(p) /\ \A k \in 1..Len(p) : g[k] = p[k]
    BY <1>1, <2>2, <2>3, <2>4, FrontIs
  <2>6. g = p
    BY <2>5, SameText
  <2>7. Normal(a) = p
    BY <2>3, <2>4, <2>6 DEF Normal
  <2>8. mine = p
    <3>1. ~(Len(p) > 1 /\ p[Len(p)] = "/")
      BY <1>12 DEF EndsWithSlash
    <3>. QED  BY <1>8, <3>1
  <2>. QED  BY <1>7, <1>10, <2>1, <2>7, <2>8 DEF IsMyPath
<1>13. ASSUME ~StartsWith(t, <<"/">>) PROVE IsMyPath(target, t)
  <2>1. CASE Len(p) = 1
    <3>1. t = <<>>
      BY <1>5, <2>1, EmptySeq DEF Text
    <3>2. Normal(t) = <<"/">>
      BY <3>1 DEF Normal
    <3>3. PICK s : s = <<"/">>
      OBVIOUS
    <3>4. s \in Text /\ Len(s) = 1 /\ s[1] = "/"
      BY <1>1, <3>3, TextAlgebra
    <3>5. s = p
      <4>1. \A k \in 1..Len(p) : p[k] = s[k]
        BY <2>1, <3>4
      <4>. QED  BY <2>1, <3>4, <4>1, SameText
    <3>6. mine = p
      BY <1>8, <2>1
    <3>. QED  BY <1>7, <1>10, <3>2, <3>3, <3>5, <3>6 DEF IsMyPath
  <2>2. CASE Len(p) # 1
    <3>1. Len(p) > 1 /\ Len(p) - 1 \in 1..(Len(p) - 1) /\ Len(t) # 0 /\ 1 \in 1..(Len(p) - 1)
      BY <1>1, <1>5, <2>2
    <3>2. t # <<>>
      BY <3>1, EmptySeq
    <3>3. t[1] # "/"
      BY <1>1, <1>5, <1>13, <3>2, BeginsWithOne
    <3>4. t[Len(t)] = p[Len(p)]
      <4>1. t[Len(p) - 1] = p[(Len(p) - 1) + 1] /\ (Len(p) - 1) + 1 = Len(p)
        BY <1>1, <1>5, <3>1
      <4>. QED  BY <1>5, <4>1
    <3>5. PICK n : n = Normal(t)
      OBVIOUS
    <3>6. CASE p[Len(p)] = "/"
      <4>1. Len(t) > 1
        BY <1>1, <1>5, <3>1, <3>3, <3>4, <3>6
      <4>2. n = Front(t)
        BY <3>2, <3>4, <3>5, <3>6, <4>1 DEF Normal, EndsWithSlash
      <4>3. n \in Text /\ Len(n) = Len(p) - 2 /\ \A k \in 1..(Len(p) - 2) : n[k] = t[k]
        BY <1>1, <1>5, <3>2, <4>2, FrontIs
      <4>4. mine = f
        BY <1>8, <3>1, <3>6
      <4>5. PICK u : u = Tail(f)
        OBVIOUS
      <4>6. f # <<>> /\ Len(f) = Len(p) - 1
        BY <1>3, <1>9, <4>4
      <4>7. u \in Text /\ Len(u) = Len(p) - 2 /\ \A k \in 1..(Len(p) - 2) : u[k] = f[k + 1]
        BY <1>1, <1>3, <4>5, <4>6, TailIs
      <4>8. ASSUME NEW k \in 1..Len(u) PROVE u[k] = n[k]
        <5>1. k \in 1..(Len(p) - 2) /\ k + 1 \in 1..(Len(p) - 1) /\ k \in 1..(Len(p) - 1)
          BY <1>1, <4>7
        <5>. QED  BY <1>3, <1>5, <4>3, <4>7, <5>1
      <4>9. u = n
        BY <4>3, <4>7, <4>8, SameText
      <4>10. StripSlash(mine) = n
        BY <1>10, <4>4, <4>5, <4>9 DEF StripSlash
      <4>11. ~StartsWith(n, <<"/">>)
        <5>1. 1 \in 1..(Len(p) - 2)
          BY <1>1, <1>5, <4>1
        <5>2. n[1] # "/"
          BY <3>3, <4>3, <5>1
        <5>. QED  BY <1>1, <4>3, <5>2, BeginsWithOne
      <4>. QED  BY <1>7, <3>5, <4>10, <4>11 DEF IsMyPath
    <3>7. CASE p[Len(p)] # "/"
      <4>1. n = t
        BY <3>2, <3>4, <3>5, <3>7 DEF Normal, EndsWithSlash
      <4>2. mine = p
        BY <1>8, <3>7
      <4>3. StripSlash(mine) = n
        BY <1>6, <4>1, <4>2
      <4>. QED  BY <1>7, <1>13, <3>5, <4>1, <4>3 DEF IsMyPath
    <3>. QED  BY <3>6, <3>7
  <2>. QED  BY <2>1, <2>2
<1>. QED  BY <1>6, <1>11, <1>12, <1>13 DEF IsReadBack

\* ... and with a path that has no slash before it.
LEMMA BarePathIsMine ==
  ASSUME NEW p \in Text, p # <<>>, p[1] # "/", NEW target, NEW q,
         PathOf(target) = p, QueryOf(target) = q
  PROVE  IsReadBack(target, p, q)
<1>1. Len(p) \in Nat /\ Len(p) >= 1 /\ "/" \in Char
  BY Lengths, EmptySeq DEF Text, Char
<1>2. ~StartsWith(p, <<"/">>)
  BY <1>1, BeginsWithOne
<1>3. PICK mine : mine = Normal(p)
  OBVIOUS
<1>4. ~StartsWith(mine, <<"/">>)
  <2>1. CASE Len(p) > 1 /\ p[Len(p)] = "/"
    <3>1. PICK f : f = Front(p)
      OBVIOUS
    <3>2. f \in Text /\ Len(f) = Len(p) - 1 /\ \A k \in 1..(Len(p) - 1) : f[k] = p[k]
      BY <3>1, FrontIs
    <3>3. f[1] # "/"
      <4>1. 1 \in 1..(Len(p) - 1)
        BY <1>1, <2>1
      <4>. QED  BY <3>2, <4>1
    <3>4. mine = f
      BY <1>3, <2>1, <3>1 DEF Normal, EndsWithSlash
    <3>. QED  BY <1>1, <3>2, <3>3, <3>4, BeginsWithOne
  <2>2. CASE ~(Len(p) > 1 /\ p[Len(p)] = "/")
    <3>1. mine = p
      BY <1>3, <2>2 DEF Normal, EndsWithSlash
    <3>. QED  BY <1>2, <3>1
  <2>. QED  BY <2>1, <2>2
<1>5. StripSlash(mine) = mine /\ StripSlash(p) = p
  BY <1>2, <1>4 DEF StripSlash
<1>6. IsMyPath(target, p)
  BY <1>3, <1>4, <1>5 DEF IsMyPath
<1>7. ASSUME ~EndsWithSlash(p) PROVE IsMyPath(target, Append(p, "/"))
  <2>1. PICK a : a = Append(p, "/")
    OBVIOUS
  <2>2. /\ a \in Text /\ Len(a) = Len(p) + 1 /\ a[Len(p) + 1] = "/"
        /\ \A k \in 1..Len(p) : a[k] = p[k]
    BY <1>1, <2>1, AppendProperties DEF Text
  <2>3. a # <<>> /\ EndsWithSlash(a) /\ Len(a) > 1
    BY <1>1, <2>2, EmptySeq DEF EndsWithSlash
  <2>4. PICK g : g = Front(a)
    OBVIOUS
  <2>5. g \in Text /\ Len(g) = Len(p) /\ \A k \in 1..Len(p) : g[k] = p[k]
    BY <1>1, <2>2, <2>3, <2>4, FrontIs
  <2>6. g = p
    BY <2>5, SameText
  <2>7. Normal(a) = p
    BY <2>3, <2>4, <2>6 DEF Normal
  <2>8. mine = p
    BY <1>3, <1>7 DEF Normal
  <2>. QED  BY <1>2, <1>3, <1>5, <2>1, <2>7, <2>8 DEF IsMyPath
<1>. QED  BY <1>5, <1>6, <1>7 DEF IsReadBack

\* A target put together of a path and a query is read back as these, and is in origin form if the
\* path is.
LEMMA ReadBackParts ==
  ASSUME NEW p \in Text, p # <<>>, Places(p, "?") = {}
  PROVE  /\ IsReadBack(p, p, NoQuery)
         /\ StartsWith(p, <<"/">>) <=> p[1] = "/"
         /\ \A r \in Text : r # <<>> /\ r[1] = "?" =>
              /\ IsReadBack(p \o r, p, Behind(r, 1))
              /\ StartsWith(p \o r, <<"/">>) <=> p[1] = "/"
<1>1. "/" \in Char
  BY DEF Char
<1>2. StartsWith(p, <<"/">>) <=> p[1] = "/"
  BY <1>1, BeginsWithOne
<1>3. ASSUME NEW target, NEW q, PathOf(target) = p, QueryOf(target) = q
      PROVE  IsReadBack(target, p, q)
  <2>1. CASE p[1] = "/"
    BY <1>3, <2>1, PathIsMine
  <2>2. CASE p[1] # "/"
    BY <1>3, <2>2, BarePathIsMine
  <2>. QED  BY <2>1, <2>2
<1>4. IsReadBack(p, p, NoQuery)
  <2>1. PathOf(p) = p /\ QueryOf(p) = NoQuery
    BY DEF PathOf, QueryOf
  <2>. QED  BY <1>3, <2>1
<1>5. ASSUME NEW r \in Text, r # <<>>, r[1] = "?"
      PROVE  /\ IsReadBack(p \o r, p, Behind(r, 1))
             /\ StartsWith(p \o r, <<"/">>) <=> p[1] = "/"
  <2>1. PICK target : target = p \o r
    OBVIOUS
  <2>2. /\ Places(target, "?") # {} /\ Min(Places(target, "?")) = Len(p)
        /\ Upto(target, Len(p)) = p /\ Behind(target, Len(p) + 1) = Behind(r, 1)
    BY <1>5, <2>1, CutAtFirst
  <2>3. PathOf(target) = p /\ QueryOf(target) = Behind(r, 1)
    BY <2>2 DEF PathOf, QueryOf
  <2>4. StartsWith(target, <<"/">>) <=> p[1] = "/"
    <3>1. IsGlued(target, p, r) /\ Len(p) \in Nat /\ Len(r) \in Nat /\ Len(p) # 0
      BY <2>1, Glue, Lengths, EmptySeq DEF Text
    <3>2. target \in Text /\ Len(target) # 0 /\ 1 \in 1..Len(p)
      BY <3>1 DEF IsGlued
    <3>3. target[1] = p[1]
      BY <3>1, <3>2 DEF IsGlued
    <3>. QED  BY <1>1, <3>2, <3>3, BeginsWithOne, EmptySeq
  <2>. QED  BY <1>3, <2>1, <2>3, <2>4
<1>. QED  BY <1>2, <1>4, <1>5

LEMMA FormTargetReadsBack ==
  ASSUME InOrder, InForm
  PROVE  IsReadBack(GetPathAndQuery, GetPath, GetQuery) /\ StartsWith(GetPathAndQuery, <<"/">>)
<1>1. /\ value \in Text /\ Len(value) \in Nat /\ Path \in Text
      /\ Len(Path) = EndOfPath - EndOfHost /\ EndOfPath \in Nat /\ EndOfHost \in Nat
      /\ EndOfPath <= Len(value)
  BY SeenInText
<1>2. PICK p : p = IF path_index = 0 THEN <<"/">> ELSE Path
  OBVIOUS
<1>3. GetPath = p
  BY <1>2 DEF GetPath, Path
<1>4. p \in Text /\ p # <<>> /\ p[1] = "/" /\ Places(p, "?") = {}
  <2>1. CASE path_index = 0
    <3>1. p \in Text /\ Len(p) = 1 /\ p[1] = "/"
      BY <1>2, <2>1, SlashIsText, TextAlgebra
    <3>2. \A k \in 1..Len(p) : p[k] # "?"
      BY <3>1
    <3>. QED  BY <1>2, <2>1, <3>1, <3>2, NoPlace
  <2>2. CASE path_index # 0
    <3>1. Len(Path) # 0
      BY <1>1, <2>2 DEF InOrder, EndOfHost
    <3>2. Path # <<>>
      BY <3>1, EmptySeq
    <3>. QED  BY <1>1, <1>2, <2>2, <3>2 DEF InForm, PathForm
  <2>. QED  BY <2>1, <2>2
<1>5. CASE query_index = 0
  <2>1. GetQuery = NoQuery
    BY <1>5 DEF GetQuery
  <2>2. GetPathAndQuery = p
    BY <1>2, <1>3, <1>5 DEF GetPathAndQuery, GetPath, InOrder
  <2>. QED  BY <1>3, <1>4, <2>1, <2>2, ReadBackParts
<1>6. CASE query_index # 0
  <2>1. query_index \in Nat /\ query_index < Len(value) /\ value[query_index + 1] = "?"
        /\ EndOfPath = query_index /\ query_index <= Len(value)
    BY <1>1, <1>6 DEF InOrder, EndOfPath
  <2>2. PICK r : r = Behind(value, query_index)
    OBVIOUS
  <2>3. IsCut(r, value, query_index, Len(value))
    BY <1>1, <2>1, <2>2, CutBehind
  <2>4. r \in Text /\ Len(r) # 0 /\ 1 \in 1..(Len(value) - query_index)
    BY <1>1, <2>1, <2>3 DEF IsCut
  <2>5. r # <<>> /\ r[1] = "?"
    BY <2>1, <2>3, <2>4, EmptySeq DEF IsCut
  <2>6. GetQuery = Behind(r, 1)
    <3>1. PICK a : a = Upto(value, query_index)
      OBVIOUS
    <3>2. a \in Text /\ Len(a) = query_index /\ value = a \o r
      BY <1>1, <2>1, <2>2, <3>1, InTwo
    <3>3. 1 <= Len(r)
      BY <2>4, Lengths
    <3>4. Behind(a \o r, Len(a) + 1) = Behind(r, 1)
      BY <2>4, <3>2, <3>3, BehindFront
    <3>. QED  BY <1>6, <3>2, <3>4 DEF GetQuery
  <2>7. GetPathAndQuery = p \o r
    <3>1. CASE path_index = 0
      BY <1>2, <1>6, <2>2, <3>1 DEF GetPathAndQuery
    <3>2. CASE path_index # 0
      <4>1. path_index \in Nat /\ path_index > 0 /\ path_index = EndOfHost /\ path_index <= query_index
        BY <1>1, <2>1, <3>2 DEF InOrder, EndOfHost
      <4>2. PICK b : b = Behind(value, path_index)
        OBVIOUS
      <4>3. path_index <= Len(value)
        BY <1>1, <2>1, <4>1
      <4>4. IsCut(b, value, path_index, Len(value))
        BY <1>1, <4>1, <4>2, <4>3, CutBehind
      <4>5. IsCut(p, value, path_index, query_index)
        BY <1>2, <2>1, <3>2, <4>1, PathIsCut
      <4>6. PICK g : g = p \o r
        OBVIOUS
      <4>7. IsGlued(g, p, r)
        BY <1>4, <2>4, <4>6, Glue
      <4>8. /\ g \in Text /\ b \in Text /\ Len(p) = query_index - path_index
            /\ Len(r) = Len(value) - query_index /\ Len(b) = Len(value) - path_index
            /\ Len(g) = Len(p) + Len(r)
        BY <2>3, <4>4, <4>5, <4>7 DEF IsCut, IsGlued
      <4>9. ASSUME NEW k \in 1..Len(b) PROVE b[k] = g[k]
        <5>1. b[k] = value[path_index + k]
          BY <4>4, <4>8 DEF IsCut
        <5>2. CASE k <= Len(p)
          <6>1. k \in 1..Len(p) /\ k \in 1..(query_index - path_index)
            BY <1>1, <2>1, <4>1, <4>8, <5>2
          <6>. QED  BY <4>5, <4>7, <5>1, <6>1 DEF IsCut, IsGlued
        <5>3. CASE k > Len(p)
          <6>1. PICK j : j = k - Len(p)
            OBVIOUS
          <6>2. /\ j \in 1..Len(r) /\ j \in 1..(Len(value) - query_index) /\ Len(p) + j = k
                /\ query_index + j = path_index + k
            BY <1>1, <2>1, <4>1, <4>8, <5>3, <6>1
          <6>3. g[k] = r[j]
            BY <4>7, <6>2 DEF IsGlued
          <6>4. r[j] = value[path_index + k]
            BY <2>3, <6>2 DEF IsCut
          <6>. QED  BY <5>1, <6>3, <6>4
        <5>. QED  BY <1>1, <2>1, <4>1, <4>8, <5>2, <5>3
      <4>10. Len(b) = Len(g)
        BY <1>1, <2>1, <4>1, <4>8
      <4>11. b = g
        BY <4>8, <4>9, <4>10, SameText
      <4>. QED  BY <4>1, <4>2, <4>6, <4>11 DEF GetPathAndQuery
    <3>. QED  BY <3>1, <3>2
  <2>. QED  BY <1>3, <1>4, <2>4, <2>5, <2>6, <2>7, ReadBackParts
<1>. QED  BY <1>5, <1>6

-----------------------------------------------------------------------------
\* The builder implements its promise: given any texts, in any order, every call grows the one part
\* it is about and the getters give the others as they were (append_path_segment,
\* append_query_param and append_raw_ending of url_builder_inner.rs).
THEOREM PromiseKept ==
  ASSUME Inputs
  PROVE  Spec => PartsSpec
<1>1. Init => InOrder /\ Parts!Init
  BY NewInOrder DEF Init, Inputs
<1>2. InOrder /\ [Next]_vars => InOrder' /\ [Parts!Next]_(Parts!vars)
  <2>. SUFFICES ASSUME InOrder, [Next]_vars PROVE InOrder' /\ [Parts!Next]_(Parts!vars)
    OBVIOUS
  <2>1. ASSUME NEW segment \in Segments, AppendPathSegment(segment)
        PROVE  InOrder' /\ [Parts!Next]_(Parts!vars)
    BY <2>1, SegmentStep DEF Parts!Next
  <2>2. ASSUME NEW param \in Names, NEW v \in Values, AppendQueryParam(param, v)
        PROVE  InOrder' /\ [Parts!Next]_(Parts!vars)
    BY <2>2, ParamStep DEF Parts!Next
  <2>3. ASSUME NEW raw_ending \in Endings, AppendRawEnding(raw_ending)
        PROVE  InOrder' /\ [Parts!Next]_(Parts!vars)
    BY <2>3, EndingStep DEF Parts!Next
  <2>4. CASE UNCHANGED vars
    BY <2>4 DEF vars, indices, InOrder, EndOfHost, EndOfPath, Parts!vars, GetSchemeAndHost, GetPath,
                GetQuery
  <2>. QED  BY <2>1, <2>2, <2>3, <2>4 DEF Next
<1>. QED  BY <1>1, <1>2, PTL DEF Spec, PartsSpec, Parts!Spec
=============================================================================
