------------------------ MODULE BodyFromStreamProofs ------------------------
(***************************************************************************)
(* The parse of a body that comes as a stream answers as the parse of the  *)
(* whole body, for every case: any fields, any body, every way of cutting  *)
(* it into chunks and every place it breaks off at.                        *)
(*                                                                         *)
(* Behind the argument is what is kept of a JSON body.  The reader has     *)
(* passed over white space, brackets and members only, and kept, of each   *)
(* key the model names, the first member there was.  When it stops, either *)
(* every such key has been met or the object is over; either way a lookup  *)
(* of a name of the model finds in what is kept what it finds in the body. *)
(***************************************************************************)
EXTENDS BodyFromStream, TLAPS, SequenceTheorems, WellFoundedInduction

-----------------------------------------------------------------------------
(* The inductive invariant *)

Pieces == Range(Body) \cup {Open, Close}

TypeInv ==
  /\ parse \in Cases
  /\ failsAt \in 0..(Len(Body) + 1)
  /\ phase \in {"sources", "members", "whole", "fields", "done"}
  /\ arrived \in 0..Len(Body) /\ arrived <= LastPiece
  /\ at \in 0..arrived
  /\ asked \in Nat
  /\ wanted \subseteq Named
  /\ kept \in Seq(Pieces)

\* The pieces up to here are those an object may go on behind.
Passed(upto) == \A k \in 1..upto : Body[k].is \in {"blank", "open", "member"}

IsMemberOf(piece, key) == piece.is = "member" /\ piece.name = <<key>>

\* The k-th piece is the first member of its key; there is a member of the key up to here.
First(k, key) ==
  /\ IsMemberOf(Body[k], key)
  /\ \A j \in 1..(k - 1) : ~IsMemberOf(Body[j], key)

Met(key, upto) == \E k \in 1..upto : IsMemberOf(Body[k], key)

\* The members in s are the first ones of keys the model names among the first pieces of the body,
\* each of them once.
Firsts(s, upto) ==
  /\ \A j \in 1..Len(s) :
       \/ s[j] \in {Open, Close}
       \/ \E key \in Named, k \in 1..upto : s[j] = Body[k] /\ First(k, key)
  /\ \A j, k \in 1..Len(s) : s[j].is = "member" /\ s[k].name = s[j].name => j = k

\* The first n pieces of s are an object with a member of each key the model names that was met.
Holds(s, n, upto) ==
  /\ n >= 1 /\ s[1] = Open
  /\ \A j \in 2..n : s[j].is = "member"
  /\ \A key \in Named : Met(key, upto) => \E j \in 1..n : IsMemberOf(s[j], key)

\* Nothing has happened before the sources are read.
NotBegun ==
  phase = "sources" => asked = 0 /\ arrived = 0 /\ at = 0 /\ kept = <<>>

\* A body that is not JSON is kept as it is.
WholeIsKept ==
  /\ phase = "whole" => ~IsJson /\ kept = SubSeq(Body, 1, arrived)
  /\ phase = "fields" /\ ~IsJson => kept = Body /\ failsAt > Len(Body)

\* While members are read, the wanted keys are those not met so far, and the others are kept.
Searching ==
  phase = "members" =>
    /\ IsJson /\ Passed(at)
    /\ wanted = {key \in Named : ~Met(key, at)} /\ wanted # {}
    /\ Holds(kept, Len(kept), at)

\* The reader stopped at the end of the object, or at the member that was the last one wanted.
Stopped ==
  phase = "fields" /\ IsJson =>
    /\ at >= 1 /\ Passed(at - 1)
    /\ \/ Body[at].is = "close"
       \/ Body[at].is = "member" /\ \A key \in Named : Met(key, at)
    /\ Holds(kept, Len(kept) - 1, at) /\ kept[Len(kept)] = Close

OnlyFirstsKept == IsJson => Firsts(kept, at)

IInv ==
  /\ TypeInv /\ NotBegun /\ WholeIsKept /\ Searching /\ Stopped /\ OnlyFirstsKept
  /\ SameAsWhole /\ BrokenOffIsTold

-----------------------------------------------------------------------------
(* Lookups *)

\* The least of the places of a search is the first of them (Min, by which the searches are defined).
LEMMA MinIsLeast ==
  ASSUME NEW S, S \subseteq Nat, S # {}
  PROVE  Min(S) \in S /\ \A n \in S : Min(S) <= n
<1> DEFINE R == OpToRel(<, Nat)
<1>1. IsWellFoundedOn(R, Nat)
  BY NatLessThanWellFounded
<1>2. \A x, y \in Nat : <<x, y>> \in R <=> x < y
  BY DEF OpToRel
<1> HIDE DEF R
<1>3. PICK m \in S : \A n \in S : ~(<<n, m>> \in R)
  BY <1>1, WFMin
<1>4. ASSUME NEW n \in S PROVE m <= n
  <2>1. m \in Nat /\ n \in Nat
    OBVIOUS
  <2>2. ~(n < m)
    BY <1>2, <1>3, <2>1
  <2>. QED  BY <2>1, <2>2
<1>. QED  BY <1>3, <1>4 DEF Min

LEMMA LeastIs ==
  ASSUME NEW S, S \subseteq Nat, NEW k \in S, \A n \in S : k <= n
  PROVE  Min(S) = k
<1>1. Min(S) \in S /\ \A n \in S : Min(S) <= n
  BY MinIsLeast
<1>2. Min(S) <= k /\ k <= Min(S) /\ Min(S) \in Nat /\ k \in Nat
  BY <1>1
<1>. QED  BY <1>2

\* Whether the search for a key stops at a piece, and what is found of a name if it stops there.
Stops(piece, key) == piece.is \in {"close", "broken"} \/ IsMemberOf(piece, key)

Within(piece, name) ==
  IF /\ piece.is = "member"
     /\ Tail(name) \in DOMAIN piece.value /\ piece.value[Tail(name)] # Null
  THEN piece.value[Tail(name)] ELSE Absent

\* A name is looked up in the first piece the search for its key stops at.
LEMMA JsonValueIs ==
  ASSUME NEW content, NEW name, Len(content) \in Nat,
         NEW k \in 1..Len(content), Stops(content[k], Head(name)),
         \A j \in 1..(k - 1) : ~Stops(content[j], Head(name))
  PROVE  JsonValue(content, name) = Within(content[k], name)
<1> DEFINE I == {j \in 1..Len(content) :
                   \/ content[j].is \in {"close", "broken"}
                   \/ content[j].is = "member" /\ content[j].name = <<Head(name)>>}
<1>1. k \in I /\ \A j \in I : k <= j
  BY DEF Stops, IsMemberOf
<1>2. I \subseteq Nat /\ k # 0
  OBVIOUS
<1>. HIDE DEF I
<1>3. I # {} /\ k # 0 /\ Min(I) = k
  BY <1>1, <1>2, LeastIs
<1>. QED  BY <1>3 DEF JsonValue, SelectInSeq, Within, I

\* A body begins with its first piece that is not blank.
LEMMA BeginningIs ==
  ASSUME NEW content, Len(content) \in Nat,
         NEW n \in 1..Len(content), content[n].is # "blank"
  PROVE  \E k \in 1..n : content[k].is # "blank" /\ Beginning(content) = content[k].is
<1> DEFINE I == {j \in 1..Len(content) : content[j].is # "blank"}
<1>1. I \subseteq Nat /\ n \in I /\ \A j \in I : j # 0 /\ j \in 1..Len(content)
  OBVIOUS
<1>2. \A j \in I : content[j].is # "blank"
  OBVIOUS
<1>. HIDE DEF I
<1>3. Min(I) \in I /\ \A j \in I : Min(I) <= j
  BY <1>1, MinIsLeast
<1>4. PICK k \in I : k = Min(I)
  BY <1>3
<1>5. k \in 1..n /\ k # 0 /\ content[k].is # "blank"
  BY <1>1, <1>2, <1>3, <1>4
<1>6. I # {} /\ Min(I) = k
  BY <1>1, <1>4
<1>7. Beginning(content) = content[k].is
  BY <1>5, <1>6 DEF Beginning, SelectInSeq, I
<1>. QED  BY <1>5, <1>7

\* Two JSON objects in which every field finds the same are read into the same model.
LEMMA SameModel ==
  ASSUME NEW one, NEW other, NEW header, NEW fields, NEW refused,
         header # NoHeader, FromContentType(header) = "Json",
         Beginning(one) = "open", Beginning(other) = "open",
         \A k \in DOMAIN fields : JsonValue(one, fields[k].name) = JsonValue(other, fields[k].name)
  PROVE  ReadModel(one, header, fields, refused) = ReadModel(other, header, fields, refused)
<1>1. Format(one, header) = "Json" /\ Format(other, header) = "Json"
  BY DEF Format
<1>2. ReaderError(one, header) = ReaderError(other, header)
  BY <1>1 DEF ReaderError
<1>3. ASSUME NEW k \in DOMAIN fields
      PROVE  GetOptional(one, header, fields[k].name) = GetOptional(other, header, fields[k].name)
  BY <1>1 DEF GetOptional
<1>4. ASSUME NEW k \in DOMAIN fields
      PROVE  ReadError(fields[k], one, header) = ReadError(fields[k], other, header)
  BY <1>1, <1>3 DEF ReadError
<1>5. ASSUME NEW k \in DOMAIN fields
      PROVE  ValidationError(fields[k], one, header) = ValidationError(fields[k], other, header)
  BY <1>3 DEF ValidationError
<1> DEFINE Read(content, these) ==
             [k \in DOMAIN fields |-> IF k \in these THEN ReadError(fields[k], content, header) ELSE Fine]
           Validated(content, raw) ==
             [k \in DOMAIN fields |-> IF k \in raw THEN Fine ELSE ValidationError(fields[k], content, header)]
           Values(content) == [k \in DOMAIN fields |-> GetOptional(content, header, fields[k].name)]
<1>6. \A these : Read(one, these) = Read(other, these)
  BY <1>4
<1>7. \A raw : Validated(one, raw) = Validated(other, raw)
  BY <1>5
<1>8. Values(one) = Values(other)
  BY <1>3
<1> DEFINE raw == {k \in DOMAIN fields : fields[k].raw}
           Error(content) ==
             FirstError(<<ReaderError(content, header)>> \o Read(content, DOMAIN fields \ raw)
                  \o <<IF refused THEN Validation ELSE Fine>> \o Validated(content, raw) \o Read(content, raw))
<1>9. \A content : ReadModel(content, header, fields, refused) =
        IF Error(content) # Fine THEN Error(content) ELSE Model(Values(content))
  BY DEF ReadModel
<1>10. Error(one) = Error(other)
  <2>. HIDE DEF Read, Validated, raw
  <2>. QED  BY <1>2, <1>6, <1>7
<1>. HIDE DEF Error, Values
<1>. QED  BY <1>8, <1>9, <1>10

-----------------------------------------------------------------------------
(* What the invariant says of the pieces *)

LEMMA BodyIsCut ==
  ASSUME TypeInv
  PROVE  /\ Body \in Seq(Pieces) /\ Len(Body) \in Nat /\ DOMAIN Body = 1..Len(Body)
         /\ \A k \in 1..Len(Body) : Body[k] \in Pieces
         /\ \A k \in 1..Len(Body) : Body[k].is = "member" => Body[k].name = <<Body[k].name[1]>>
         /\ Beginning(Body) \notin {"member", "close"}
<1>1. IsCut(Body)
  BY BodyFromStreamAssumption DEF TypeInv, Body
<1>2. Body \in Seq(Range(Body))
  BY <1>1 DEF IsCut
<1>3. Len(Body) \in Nat /\ DOMAIN Body = 1..Len(Body)
  BY <1>2, LenProperties
<1>4. \A k \in 1..Len(Body) : Body[k] \in Range(Body)
  BY <1>2, ElementOfSeq
<1>5. Range(Body) \subseteq Pieces
  BY DEF Pieces
<1>6. Body \in Seq(Pieces)
  BY <1>2, <1>5, SeqMonotonic
<1>. QED  BY <1>1, <1>3, <1>4, <1>5, <1>6 DEF IsCut

LEMMA KeptIsSeq ==
  ASSUME TypeInv
  PROVE  /\ Len(kept) \in Nat /\ DOMAIN kept = 1..Len(kept)
         /\ Open \in Pieces /\ Close \in Pieces
BY LenProperties DEF TypeInv, Pieces

LEMMA Marks ==
  /\ Open.is = "open" /\ Close.is = "close" /\ Open.name = <<>> /\ Close.name = <<>>
BY DEF Open, Close, Mark

\* A mark behind what is kept, and a member of a key not met before.
LEMMA FirstsAndMark ==
  ASSUME NEW s \in Seq(Pieces), NEW upto \in Nat, Firsts(s, upto),
         NEW mark \in {Open, Close}
  PROVE  Firsts(Append(s, mark), upto)
<1> DEFINE t == Append(s, mark)
<1>1. /\ Len(s) \in Nat /\ Len(t) = Len(s) + 1 /\ t[Len(t)] = mark
      /\ \A j \in 1..Len(s) : t[j] = s[j]
  BY AppendProperties, LenProperties DEF Pieces
<1>. HIDE DEF t
<1>2. mark.is # "member" /\ mark.name = <<>>
  BY Marks
<1>3. ASSUME NEW j \in 1..Len(s), s[j].is = "member"
      PROVE  s[j].name # <<>>
  <2>1. PICK key \in Named, k \in 1..upto : s[j] = Body[k] /\ First(k, key)
    BY <1>3, Marks DEF Firsts
  <2>. QED  BY <2>1 DEF First, IsMemberOf
<1>4. ASSUME NEW j \in 1..Len(t)
      PROVE  \/ t[j] \in {Open, Close}
             \/ \E key \in Named, k \in 1..upto : t[j] = Body[k] /\ First(k, key)
  <2>1. CASE j \in 1..Len(s)
    BY <1>1, <2>1 DEF Firsts
  <2>2. CASE j = Len(t)
    BY <1>1, <2>2
  <2>. QED  BY <1>1, <2>1, <2>2
<1>5. ASSUME NEW j \in 1..Len(t), NEW k \in 1..Len(t), t[j].is = "member", t[k].name = t[j].name
      PROVE  j = k
  <2>1. j \in 1..Len(s) /\ t[j] = s[j] /\ t[j].name # <<>>
    <3>1. j # Len(t)
      BY <1>1, <1>2, <1>5
    <3>2. j \in 1..Len(s)
      BY <1>1, <3>1
    <3>. QED  BY <1>1, <1>3, <1>5, <3>2
  <2>2. k \in 1..Len(s) /\ t[k] = s[k]
    <3>1. k # Len(t)
      BY <1>1, <1>2, <1>5, <2>1
    <3>. QED  BY <1>1, <3>1
  <2>. QED  BY <1>5, <2>1, <2>2 DEF Firsts
<1>6. Firsts(t, upto)
  BY <1>4, <1>5 DEF Firsts
<1>. QED  BY <1>6 DEF t

LEMMA FirstsAndMember ==
  ASSUME NEW s \in Seq(Pieces), NEW upto \in Nat, Firsts(s, upto),
         NEW key \in Named, Body[upto + 1] \in Pieces,
         IsMemberOf(Body[upto + 1], key), ~Met(key, upto)
  PROVE  Firsts(Append(s, Body[upto + 1]), upto + 1)
<1> DEFINE p == Body[upto + 1]
           t == Append(s, p)
<1>1. /\ Len(s) \in Nat /\ Len(t) = Len(s) + 1 /\ t[Len(t)] = p
      /\ \A j \in 1..Len(s) : t[j] = s[j]
  BY AppendProperties, LenProperties
<1>. HIDE DEF t
<1>2. First(upto + 1, key)
  BY DEF First, Met
<1>3. ASSUME NEW j \in 1..Len(s)
      PROVE  s[j].name # <<key>>
  <2>1. CASE s[j] \in {Open, Close}
    <3>1. s[j].name = <<>>
      BY <2>1, Marks
    <3>2. <<key>> # <<>>
      OBVIOUS
    <3>. QED  BY <3>1, <3>2
  <2>2. CASE s[j] \notin {Open, Close}
    <3>1. PICK other \in Named, k \in 1..upto : s[j] = Body[k] /\ First(k, other)
      BY <2>2 DEF Firsts
    <3>. QED  BY <3>1 DEF First, IsMemberOf, Met
  <2>. QED  BY <2>1, <2>2
<1>4. ASSUME NEW j \in 1..Len(t)
      PROVE  \/ t[j] \in {Open, Close}
             \/ \E k2 \in Named, k \in 1..(upto + 1) : t[j] = Body[k] /\ First(k, k2)
  <2>1. CASE j \in 1..Len(s)
    <3>1. t[j] = s[j] /\ 1..upto \subseteq 1..(upto + 1)
      BY <1>1, <2>1
    <3>. QED  BY <2>1, <3>1 DEF Firsts
  <2>2. CASE j = Len(t)
    <3>1. t[j] = Body[upto + 1] /\ upto + 1 \in 1..(upto + 1)
      BY <1>1, <2>2
    <3>. QED  BY <1>2, <3>1
  <2>. QED  BY <1>1, <2>1, <2>2
<1>5. ASSUME NEW j \in 1..Len(t), NEW k \in 1..Len(t), t[j].is = "member", t[k].name = t[j].name
      PROVE  j = k
  <2>1. p.name = <<key>>
    BY DEF IsMemberOf
  <2>2. CASE j \in 1..Len(s) /\ k \in 1..Len(s)
    BY <1>1, <1>5, <2>2 DEF Firsts
  <2>3. CASE j = Len(t) /\ k \in 1..Len(s)
    BY <1>1, <1>3, <1>5, <2>1, <2>3
  <2>4. CASE k = Len(t) /\ j \in 1..Len(s)
    BY <1>1, <1>3, <1>5, <2>1, <2>4
  <2>. QED  BY <1>1, <2>2, <2>3, <2>4
<1>6. Firsts(t, upto + 1)
  BY <1>4, <1>5 DEF Firsts
<1>. QED  BY <1>6 DEF t

\* What holds of the pieces read so far holds of them when one more is read that is no member to keep.
LEMMA FirstsGoOn ==
  ASSUME NEW s, NEW upto \in Nat, Firsts(s, upto)
  PROVE  Firsts(s, upto + 1)
<1>1. 1..upto \subseteq 1..(upto + 1)
  OBVIOUS
<1>. QED  BY <1>1 DEF Firsts

-----------------------------------------------------------------------------
(* The steps *)

\* The case and the place the stream breaks off at never change, nor does what is said of them.
LEMMA SameCase ==
  ASSUME parse' = parse, failsAt' = failsAt
  PROVE  /\ Body' = Body /\ Header' = Header /\ Named' = Named /\ IsJson' = IsJson
         /\ Pieces' = Pieces /\ LastPiece' = LastPiece /\ OfTheWhole' = OfTheWhole
         /\ \A s, n : Firsts(s, n)' = Firsts(s, n)
         /\ \A s, m, n : Holds(s, m, n)' = Holds(s, m, n)
         /\ \A key, n : Met(key, n)' = Met(key, n)
         /\ \A n : Passed(n)' = Passed(n)
<1>1. Body' = Body /\ Header' = Header /\ Named' = Named
  BY DEF Body, Header, Named
<1>2. IsJson' = IsJson
  BY <1>1 DEF IsJson
<1>3. Pieces' = Pieces /\ LastPiece' = LastPiece
  BY <1>1 DEF Pieces, LastPiece
<1>4. OfTheWhole' = OfTheWhole
  BY <1>1 DEF OfTheWhole
<1>5. \A key, n : Met(key, n)' = Met(key, n)
  BY <1>1 DEF Met
<1>6. \A n : Passed(n)' = Passed(n)
  BY <1>1 DEF Passed
<1>7. \A s, n : Firsts(s, n)' = Firsts(s, n)
  BY <1>1 DEF Firsts, First
<1>8. \A s, m, n : Holds(s, m, n)' = Holds(s, m, n)
  BY <1>1, <1>5 DEF Holds
<1>. QED  BY <1>1, <1>2, <1>3, <1>4, <1>5, <1>6, <1>7, <1>8

\* The parse is over: it only remains to see what it tells.
LEMMA EndKeeps ==
  ASSUME IInv, phase' = "done", asked' \in Nat,
         UNCHANGED <<parse, failsAt, arrived, at, wanted, kept>>,
         SameAsWhole', BrokenOffIsTold'
  PROVE  IInv'
<1>1. TypeInv'
  BY SameCase DEF IInv, TypeInv
<1>2. OnlyFirstsKept'
  <2>1. Firsts(kept, at)' = Firsts(kept, at) /\ IsJson' = IsJson
    BY SameCase
  <2>. QED  BY <2>1 DEF IInv, OnlyFirstsKept
<1>3. NotBegun' /\ WholeIsKept' /\ Searching' /\ Stopped'
  BY DEF NotBegun, WholeIsKept, Searching, Stopped
<1>. QED  BY <1>1, <1>2, <1>3 DEF IInv

LEMMA InitIsInd == Init => IInv
<1>. SUFFICES ASSUME Init PROVE IInv
  OBVIOUS
<1>1. Len(Body) \in Nat
  <2>1. IsCut(Body)
    BY BodyFromStreamAssumption DEF Init, Body
  <2>2. Body \in Seq(Range(Body))
    BY <2>1 DEF IsCut
  <2>. QED  BY <2>2, LenProperties
<1>2. kept \in Seq(Pieces) /\ Len(kept) = 0
  BY EmptySeq DEF Init
<1>3. TypeInv
  BY <1>1, <1>2 DEF Init, TypeInv, LastPiece, Body
<1>4. OnlyFirstsKept
  BY <1>2 DEF OnlyFirstsKept, Firsts
<1>5. NotBegun /\ WholeIsKept /\ Searching /\ Stopped /\ SameAsWhole /\ BrokenOffIsTold
  BY DEF Init, NotBegun, WholeIsKept, Searching, Stopped, SameAsWhole, BrokenOffIsTold
<1>. QED  BY <1>3, <1>4, <1>5 DEF IInv

\* A parse that is over before its body is begun.
LEMMA UnreadKeeps ==
  ASSUME IInv, phase = "sources", phase' = "done",
         UNCHANGED <<parse, failsAt, arrived, at, wanted, kept, asked>>
  PROVE  IInv'
<1>1. kept' = <<>> /\ asked' = 0
  BY DEF IInv, NotBegun
<1>2. SameAsWhole' /\ BrokenOffIsTold'
  BY <1>1 DEF SameAsWhole, BrokenOffIsTold
<1>. QED  BY <1>1, <1>2, EndKeeps

LEMMA RefuseRequestKeeps ==
  ASSUME IInv, RefuseRequest PROVE IInv'
BY UnreadKeeps DEF RefuseRequest, End

LEMMA LeaveUnreadKeeps ==
  ASSUME IInv, LeaveUnread PROVE IInv'
BY UnreadKeeps DEF LeaveUnread, End

LEMMA BeginBodyKeeps ==
  ASSUME IInv, BeginBody
  PROVE  IInv'
<1> DEFINE format == IF parse.takes = "raw" \/ Header = NoHeader
                     THEN "Unknown" ELSE FromContentType(Header)
<1>1. /\ phase = "sources" /\ UNCHANGED <<parse, failsAt, arrived, at, asked>>
      /\ parse.takes \in {"fields", "raw"}
      /\ asked = 0 /\ arrived = 0 /\ at = 0 /\ kept = <<>>
  BY DEF BeginBody, IInv, NotBegun
<1>2. IsJson = (format = "Json")
  BY <1>1 DEF IsJson
<1>3. CASE format = "refused"
  <2>1. phase' = "done" /\ UNCHANGED <<wanted, kept>>
    BY <1>3 DEF BeginBody, End
  <2>. QED  BY <1>1, <2>1, UnreadKeeps
<1>4. CASE format = "Json"
  <2>1. phase' = "members" /\ wanted' = Named /\ kept' = <<Open>>
    BY <1>4 DEF BeginBody
  <2>2. kept' \in Seq(Pieces) /\ Len(kept') = 1 /\ kept'[1] = Open
    BY <2>1, KeptIsSeq DEF IInv
  <2>3. TypeInv'
    BY <1>1, <2>1, <2>2, SameCase DEF IInv, TypeInv
  <2>4. Firsts(kept', at)
    BY <2>2, Marks DEF Firsts
  <2>5. OnlyFirstsKept'
    BY <1>1, <2>4, SameCase DEF OnlyFirstsKept
  <2>6. \A key : ~Met(key, at)
    BY <1>1 DEF Met
  <2>7. Holds(kept', 1, at) /\ Passed(at)
    BY <1>1, <2>2, <2>6 DEF Holds, Passed
  <2>8. Named # {}
    <3>1. parse.fields # <<>> /\ parse.fields \in Seq(Field)
      BY <1>2, <1>4, BodyFromStreamAssumption DEF IsJson, IInv, TypeInv
    <3>2. 1 \in DOMAIN parse.fields
      BY <3>1, EmptySeq, LenProperties
    <3>. QED  BY <3>2 DEF Named
  <2>9. Searching'
    <3>1. IsJson' /\ Named' = Named
      BY <1>1, <1>2, <1>4, SameCase
    <3>2. Passed(at)'
      BY <1>1, <2>7, SameCase
    <3>3. Holds(kept, 1, at)'
      BY <1>1, <2>7, SameCase
    <3>4. \A key : ~Met(key, at)'
      BY <1>1, <2>6, SameCase
    <3>. QED  BY <1>1, <2>1, <2>2, <2>8, <3>1, <3>2, <3>3, <3>4 DEF Searching
  <2>10. NotBegun' /\ WholeIsKept' /\ Stopped' /\ SameAsWhole' /\ BrokenOffIsTold'
    BY <2>1 DEF NotBegun, WholeIsKept, Stopped, SameAsWhole, BrokenOffIsTold
  <2>. QED  BY <2>3, <2>5, <2>9, <2>10 DEF IInv
<1>5. CASE format \notin {"refused", "Json"}
  <2>1. phase' = "whole" /\ UNCHANGED <<wanted, kept>>
    BY <1>5 DEF BeginBody
  <2>2. TypeInv'
    BY <1>1, <2>1, SameCase DEF IInv, TypeInv
  <2>3. ~IsJson'
    BY <1>1, <1>2, <1>5, SameCase
  <2>4. SubSeq(Body, 1, 0) = <<>>
    BY SubSeqEmpty
  <2>5. WholeIsKept'
    BY <1>1, <2>1, <2>3, <2>4, SameCase DEF WholeIsKept
  <2>6. OnlyFirstsKept'
    BY <2>3 DEF OnlyFirstsKept
  <2>7. NotBegun' /\ Searching' /\ Stopped' /\ SameAsWhole' /\ BrokenOffIsTold'
    BY <2>1 DEF NotBegun, Searching, Stopped, SameAsWhole, BrokenOffIsTold
  <2>. QED  BY <2>2, <2>5, <2>6, <2>7 DEF IInv
<1>. QED  BY <1>3, <1>4, <1>5

\* More of the body arrives: nothing is decided by it.
LEMMA ChunkKeeps ==
  ASSUME IInv, Chunk
  PROVE  IInv'
<1>1. PICK upto \in (arrived + 1)..LastPiece :
         /\ arrived' = upto
         /\ kept' = IF phase = "whole" THEN kept \o SubSeq(Body, arrived + 1, upto) ELSE kept
  BY DEF Chunk
<1>2. /\ phase \in {"whole", "members"} /\ asked' = asked + 1
      /\ UNCHANGED <<parse, failsAt, phase, at, wanted, outcome>>
  BY DEF Chunk, Waits
<1>3. TypeInv
  BY DEF IInv
<1>4. /\ Len(Body) \in Nat /\ Body \in Seq(Pieces) /\ LastPiece \in Nat /\ LastPiece <= Len(Body)
      /\ arrived \in Nat /\ upto \in arrived..Len(Body) /\ at \in 0..upto
  BY <1>3, BodyIsCut DEF TypeInv, LastPiece
<1>5. phase = "whole" => kept' = SubSeq(Body, 1, upto) /\ kept' \in Seq(Pieces)
  <2>1. SUFFICES ASSUME phase = "whole"
                 PROVE  kept' = SubSeq(Body, 1, upto) /\ kept' \in Seq(Pieces)
    OBVIOUS
  <2>2. kept = SubSeq(Body, 1, arrived)
    BY <2>1 DEF IInv, WholeIsKept
  <2>3. 1 \in 1..(Len(Body) + 1) /\ arrived \in (1 - 1)..Len(Body)
    BY <1>4
  <2>4. SubSeq(Body, 1, arrived) \o SubSeq(Body, arrived + 1, upto) = SubSeq(Body, 1, upto)
    BY <1>4, <2>3, ConcatAdjacentSubSeq
  <2>5. \A k \in 1..upto : Body[k] \in Pieces
    BY <1>3, <1>4, BodyIsCut
  <2>6. SubSeq(Body, 1, upto) \in Seq(Pieces)
    BY <1>4, <2>5, SubSeqProperties
  <2>. QED  BY <1>1, <2>1, <2>2, <2>4, <2>6
<1>6. TypeInv'
  <2>1. kept' \in Seq(Pieces)
    BY <1>1, <1>3, <1>5 DEF TypeInv
  <2>. QED  BY <1>1, <1>2, <1>3, <1>4, <2>1, SameCase DEF TypeInv
<1>7. NotBegun' /\ Stopped' /\ SameAsWhole' /\ BrokenOffIsTold'
  BY <1>2 DEF NotBegun, Stopped, SameAsWhole, BrokenOffIsTold
<1>8. WholeIsKept'
  <2>1. Body' = Body /\ IsJson' = IsJson
    BY <1>2, SameCase
  <2>2. phase' = "whole" => ~IsJson' /\ kept' = SubSeq(Body', 1, arrived')
    BY <1>1, <1>2, <1>5, <2>1 DEF IInv, WholeIsKept
  <2>. QED  BY <1>2, <2>2 DEF WholeIsKept
<1>9. CASE phase = "whole"
  <2>1. ~IsJson'
    BY <1>2, <1>9, SameCase DEF IInv, WholeIsKept
  <2>. QED  BY <1>2, <1>6, <1>7, <1>8, <1>9, <2>1 DEF IInv, Searching, OnlyFirstsKept
<1>10. CASE phase = "members"
  <2>1. kept' = kept
    BY <1>1, <1>10
  <2>2. Firsts(kept, at)' = Firsts(kept, at) /\ Holds(kept, Len(kept), at)' = Holds(kept, Len(kept), at)
    BY <1>2, <2>1, SameCase
  <2>3. OnlyFirstsKept'
    BY <1>2, <2>2, SameCase DEF IInv, OnlyFirstsKept
  <2>4. Passed(at)' = Passed(at) /\ \A key : Met(key, at)' = Met(key, at)
    BY <1>2, SameCase
  <2>5. Searching'
    BY <1>2, <2>2, <2>4, SameCase DEF IInv, Searching
  <2>. QED  BY <1>6, <1>7, <1>8, <2>3, <2>5 DEF IInv
<1>. QED  BY <1>2, <1>9, <1>10

LEMMA StreamFailsKeeps ==
  ASSUME IInv, StreamFails
  PROVE  IInv'
<1>1. /\ phase' = "done" /\ outcome' = BodyStreamError /\ failsAt <= Len(Body)
      /\ asked' \in Nat /\ UNCHANGED <<parse, failsAt, arrived, at, wanted, kept>>
  BY DEF StreamFails, End, Breaks, IInv, TypeInv
<1>2. SameAsWhole' /\ BrokenOffIsTold'
  BY <1>1, SameCase DEF SameAsWhole, BrokenOffIsTold
<1>. QED  BY <1>1, <1>2, EndKeeps

\* An object is not well formed if what was passed is all there is, or is followed by something
\* else than its end.
LEMMA NotWellFormed ==
  ASSUME TypeInv, NEW n \in 0..Len(Body), Passed(n),
         n < Len(Body) => Body[n + 1].is \notin {"blank", "open", "member", "close"}
  PROVE  ~WellFormed(Body)
<1>1. SUFFICES ASSUME NEW k \in 1..Len(Body), Body[k].is = "close",
                      \A j \in 1..(k - 1) : Body[j].is \in {"blank", "open", "member"}
               PROVE  FALSE
  BY BodyIsCut DEF WellFormed
<1>2. Len(Body) \in Nat
  BY BodyIsCut
<1>3. ~(k <= n)
  <2>1. SUFFICES ASSUME k <= n PROVE FALSE
    OBVIOUS
  <2>2. k \in 1..n
    BY <1>2, <2>1
  <2>. QED  BY <1>1, <2>2 DEF Passed
<1>4. n + 1 \in 1..k /\ n < Len(Body)
  BY <1>2, <1>3
<1>5. CASE n + 1 = k
  BY <1>1, <1>4, <1>5
<1>6. CASE n + 1 # k
  <2>1. n + 1 \in 1..(k - 1)
    BY <1>2, <1>4, <1>6
  <2>. QED  BY <1>1, <1>4, <2>1
<1>. QED  BY <1>5, <1>6

\* The body cannot be read any further, or is over before its object is.
LEMMA BrokenKeeps ==
  ASSUME IInv, phase = "members", ~WellFormed(Body),
         phase' = "done", outcome' = InvalidBody, asked' \in Nat,
         UNCHANGED <<parse, failsAt, arrived, at, wanted, kept>>
  PROVE  IInv'
<1>1. IsJson
  BY DEF IInv, Searching
<1>2. Body' = Body /\ IsJson' = IsJson
  BY SameCase
<1>3. WellFormed(Body)' = WellFormed(Body)
  BY <1>2 DEF WellFormed
<1>4. SameAsWhole' /\ BrokenOffIsTold'
  BY <1>1, <1>2, <1>3 DEF SameAsWhole, BrokenOffIsTold
<1>. QED  BY <1>4, EndKeeps

LEMMA StreamEndsKeeps ==
  ASSUME IInv, StreamEnds
  PROVE  IInv'
<1>1. /\ phase \in {"whole", "members"} /\ arrived = Len(Body) /\ ~Breaks /\ asked' \in Nat
      /\ phase = "members" => at = arrived
      /\ UNCHANGED <<parse, failsAt, arrived, at, wanted, kept>>
  BY DEF StreamEnds, Waits, IInv, TypeInv
<1>2. TypeInv
  BY DEF IInv
<1>3. failsAt > Len(Body)
  BY <1>1, <1>2, BodyIsCut DEF Breaks, TypeInv, LastPiece
<1>4. CASE phase = "members"
  <2>1. phase' = "done" /\ outcome' = InvalidBody
    BY <1>4 DEF StreamEnds, End
  <2>2. Passed(at) /\ at \in 0..Len(Body) /\ at = Len(Body)
    BY <1>1, <1>2, <1>4, BodyIsCut DEF IInv, Searching, TypeInv
  <2>3. ~WellFormed(Body)
    BY <1>2, <2>2, BodyIsCut, NotWellFormed
  <2>. QED  BY <1>1, <1>4, <2>1, <2>3, BrokenKeeps
<1>5. CASE phase = "whole"
  <2>1. phase' = "fields"
    BY <1>5 DEF StreamEnds
  <2>2. ~IsJson'
    BY <1>1, <1>5, SameCase DEF IInv, WholeIsKept
  <2>3. kept = Body
    BY <1>1, <1>2, <1>5, BodyIsCut, SubSeqFull DEF IInv, WholeIsKept
  <2>4. TypeInv'
    BY <1>1, <1>2, <2>1, SameCase DEF TypeInv
  <2>5. WholeIsKept'
    BY <1>1, <1>3, <2>1, <2>2, <2>3, SameCase DEF WholeIsKept
  <2>. QED  BY <2>1, <2>2, <2>4, <2>5
             DEF IInv, NotBegun, Searching, Stopped, OnlyFirstsKept, SameAsWhole, BrokenOffIsTold
<1>. QED  BY <1>1, <1>4, <1>5

\* Reading one more piece: which keys are met then, and what was passed.
LEMMA NextPiece ==
  ASSUME NEW n \in Nat
  PROVE  /\ \A key : Met(key, n + 1) <=> (Met(key, n) \/ IsMemberOf(Body[n + 1], key))
         /\ Passed(n) /\ Body[n + 1].is \in {"blank", "open", "member"} => Passed(n + 1)
<1>1. \A k : k \in 1..(n + 1) <=> (k \in 1..n \/ k = n + 1)
  OBVIOUS
<1>. QED  BY <1>1 DEF Met, Passed

\* Where the reader stands when it reads a piece.
LEMMA Reading ==
  ASSUME IInv, Reads
  PROVE  /\ TypeInv /\ phase = "members" /\ IsJson
         /\ at \in Nat /\ at + 1 \in 1..Len(Body) /\ at + 1 \in 0..arrived
         /\ Piece \in Pieces
         /\ Piece.is = "member" => Piece.name = <<Piece.name[1]>>
         /\ kept \in Seq(Pieces) /\ Firsts(kept, at) /\ Holds(kept, Len(kept), at) /\ Passed(at)
         /\ wanted = {key \in Named : ~Met(key, at)}
<1>1. TypeInv /\ phase = "members"
  BY DEF IInv, Reads
<1>2. at \in Nat /\ at + 1 \in 1..Len(Body) /\ at + 1 \in 0..arrived
  BY <1>1, BodyIsCut DEF Reads, TypeInv
<1>3. Piece \in Pieces /\ (Piece.is = "member" => Piece.name = <<Piece.name[1]>>)
  BY <1>1, <1>2, BodyIsCut DEF Piece
<1>. QED  BY <1>1, <1>2, <1>3 DEF IInv, TypeInv, Searching, OnlyFirstsKept

LEMMA PassMarkKeeps ==
  ASSUME IInv, PassMark
  PROVE  IInv'
<1>1. /\ Reads /\ Piece.is \in {"blank", "open"} /\ at' = at + 1
      /\ UNCHANGED <<parse, failsAt, phase, arrived, wanted, kept, asked, outcome>>
  BY DEF PassMark
<1>2. \A key : Met(key, at + 1) <=> Met(key, at)
  <2>1. \A key : ~IsMemberOf(Body[at + 1], key)
    BY <1>1 DEF Piece, IsMemberOf
  <2>. QED  BY <1>1, <2>1, Reading, NextPiece
<1>3. Passed(at + 1)
  BY <1>1, Reading, NextPiece DEF Piece
<1>4. Holds(kept, Len(kept), at + 1)
  BY <1>1, <1>2, Reading DEF Holds
<1>5. Firsts(kept, at + 1)
  BY <1>1, Reading, FirstsGoOn
<1>6. TypeInv'
  BY <1>1, Reading, SameCase DEF TypeInv
<1>7. Searching'
  <2>1. IsJson' /\ Named' = Named /\ wanted' # {}
    BY <1>1, Reading, SameCase DEF IInv, Searching
  <2>2. Passed(at)'
    BY <1>1, <1>3, SameCase
  <2>3. Holds(kept, Len(kept), at)'
    BY <1>1, <1>4, SameCase
  <2>4. \A key : Met(key, at)' <=> Met(key, at)
    BY <1>1, <1>2, SameCase
  <2>. QED  BY <1>1, <2>1, <2>2, <2>3, <2>4, Reading DEF Searching
<1>8. OnlyFirstsKept'
  BY <1>1, <1>5, SameCase DEF OnlyFirstsKept
<1>9. NotBegun' /\ WholeIsKept' /\ Stopped' /\ SameAsWhole' /\ BrokenOffIsTold'
  BY <1>1, Reading DEF NotBegun, WholeIsKept, Stopped, SameAsWhole, BrokenOffIsTold
<1>. QED  BY <1>6, <1>7, <1>8, <1>9 DEF IInv

\* What a reader that stops behind the piece it reads leaves for the fields.
LEMMA StopKeeps ==
  ASSUME IInv, Reads, at' = at + 1, phase' = "fields",
         UNCHANGED <<parse, failsAt, arrived, asked, outcome>>,
         wanted' \subseteq Named,
         NEW s \in Seq(Pieces), kept' = Append(s, Close),
         Firsts(s, at + 1), Holds(s, Len(s), at + 1),
         \/ Piece.is = "close"
         \/ Piece.is = "member" /\ \A key \in Named : Met(key, at + 1)
  PROVE  IInv'
<1>1. /\ kept' \in Seq(Pieces) /\ Len(s) \in Nat /\ Len(kept') = Len(s) + 1
      /\ kept'[Len(kept')] = Close /\ \A j \in 1..Len(s) : kept'[j] = s[j]
  BY AppendProperties, LenProperties DEF Pieces
<1>2. Firsts(kept', at + 1)
  BY Reading, FirstsAndMark
<1>3. Holds(kept', Len(kept') - 1, at + 1)
  BY <1>1 DEF Holds
<1>4. TypeInv'
  BY <1>1, Reading, SameCase DEF TypeInv
<1>5. Stopped'
  <2>1. at' >= 1 /\ at' - 1 = at
    BY Reading
  <2>2. Passed(at - 1)'
    BY <2>1, Reading, SameCase
  <2>3. Body[at]' = Piece
    BY SameCase DEF Piece
  <2>4. (\A key \in Named : Met(key, at + 1)) => (\A key \in Named : Met(key, at))'
    BY SameCase
  <2>5. Holds(kept, Len(kept) - 1, at)'
    BY <1>3, SameCase
  <2>. QED  BY <1>1, <2>1, <2>2, <2>3, <2>4, <2>5 DEF Stopped
<1>6. OnlyFirstsKept'
  BY <1>2, SameCase DEF OnlyFirstsKept
<1>7. IsJson'
  BY Reading, SameCase
<1>. QED  BY <1>4, <1>5, <1>6, <1>7
          DEF IInv, NotBegun, WholeIsKept, Searching, SameAsWhole, BrokenOffIsTold

LEMMA TakeCloseKeeps ==
  ASSUME IInv, TakeClose
  PROVE  IInv'
<1>1. /\ Reads /\ Piece.is = "close" /\ at' = at + 1 /\ phase' = "fields"
      /\ kept' = Append(kept, Close)
      /\ UNCHANGED <<parse, failsAt, arrived, wanted, asked, outcome>>
  BY DEF TakeClose
<1>2. \A key : Met(key, at + 1) <=> Met(key, at)
  <2>1. \A key : ~IsMemberOf(Body[at + 1], key)
    BY <1>1 DEF Piece, IsMemberOf
  <2>. QED  BY <1>1, <2>1, Reading, NextPiece
<1>3. Holds(kept, Len(kept), at + 1) /\ Firsts(kept, at + 1)
  BY <1>1, <1>2, Reading, FirstsGoOn DEF Holds
<1>4. wanted' \subseteq Named
  BY <1>1, Reading
<1>. QED  BY <1>1, <1>3, <1>4, Reading, StopKeeps

LEMMA TakeBrokenKeeps ==
  ASSUME IInv, TakeBroken
  PROVE  IInv'
<1>1. /\ Reads /\ Piece.is \in {"broken", "array", "pair", "part"}
      /\ phase' = "done" /\ outcome' = InvalidBody /\ asked' \in Nat
      /\ UNCHANGED <<parse, failsAt, arrived, at, wanted, kept>>
  BY DEF TakeBroken, End, IInv, TypeInv
<1>2. ~WellFormed(Body)
  <2>1. at \in 0..Len(Body) /\ Len(Body) \in Nat
    BY <1>1, Reading, BodyIsCut
  <2>. QED  BY <1>1, <2>1, Reading, NotWellFormed DEF Piece
<1>. QED  BY <1>1, <1>2, Reading, BrokenKeeps

LEMMA TakeMemberKeeps ==
  ASSUME IInv, TakeMember
  PROVE  IInv'
<1> DEFINE key == Piece.name[1]
           left == wanted \ {key}
           now == IF key \in wanted THEN Append(kept, Piece) ELSE kept
<1>1. /\ Reads /\ Piece.is = "member" /\ at' = at + 1
      /\ wanted' = left
      /\ phase' = IF left = {} THEN "fields" ELSE "members"
      /\ kept' = IF left = {} THEN Append(now, Close) ELSE now
      /\ UNCHANGED <<parse, failsAt, arrived, asked, outcome>>
  BY DEF TakeMember
<1>2. \A other : IsMemberOf(Body[at + 1], other) <=> other = key
  <2>1. Piece.name = <<key>>
    BY <1>1, Reading
  <2>2. \A other : <<other>> = <<key>> <=> other = key
    OBVIOUS
  <2>. QED  BY <1>1, <2>1, <2>2 DEF Piece, IsMemberOf
<1>3. \A other : Met(other, at + 1) <=> Met(other, at) \/ other = key
  BY <1>1, <1>2, Reading, NextPiece
<1>4. IsMemberOf(Piece, key)
  BY <1>2 DEF Piece
<1>. HIDE DEF key
<1>5. left = {other \in Named : ~Met(other, at + 1)} /\ left \subseteq Named
  BY <1>1, <1>3, Reading
<1>6. /\ now \in Seq(Pieces) /\ Firsts(now, at + 1) /\ Holds(now, Len(now), at + 1)
  <2>1. /\ kept \in Seq(Pieces) /\ Len(kept) \in Nat /\ at \in Nat /\ Piece \in Pieces
        /\ Firsts(kept, at) /\ Holds(kept, Len(kept), at)
    BY <1>1, Reading, LenProperties
  <2>2. CASE key \in wanted
    <3>1. key \in Named /\ ~Met(key, at)
      BY <1>1, <2>2, Reading
    <3>2. Firsts(now, at + 1)
      BY <1>4, <2>1, <2>2, <3>1, FirstsAndMember DEF Piece
    <3>3. /\ now \in Seq(Pieces) /\ Len(now) = Len(kept) + 1 /\ now[Len(now)] = Piece
          /\ \A j \in 1..Len(kept) : now[j] = kept[j]
      BY <2>1, <2>2, AppendProperties
    <3>. HIDE DEF now
    <3>4. now[1] = Open /\ Len(now) >= 1
      BY <2>1, <3>3 DEF Holds
    <3>5. \A j \in 2..Len(now) : now[j].is = "member"
      <4>1. \A j \in 2..Len(now) : j \in 2..Len(kept) \/ j = Len(now)
        BY <2>1, <3>3
      <4>. QED  BY <1>1, <2>1, <3>3, <4>1 DEF Holds
    <3>6. ASSUME NEW other \in Named, Met(other, at + 1)
          PROVE  \E j \in 1..Len(now) : IsMemberOf(now[j], other)
      <4>1. CASE other = key
        <5>1. Len(now) \in 1..Len(now) /\ IsMemberOf(now[Len(now)], other)
          BY <1>4, <2>1, <3>3, <4>1
        <5>. QED  BY <5>1
      <4>2. CASE Met(other, at)
        <5>1. PICK j \in 1..Len(kept) : IsMemberOf(kept[j], other)
          BY <2>1, <4>2 DEF Holds
        <5>. QED  BY <2>1, <3>3, <5>1
      <4>. QED  BY <1>3, <3>6, <4>1, <4>2
    <3>. QED  BY <3>2, <3>3, <3>4, <3>5, <3>6 DEF Holds
  <2>3. CASE key \notin wanted
    <3>1. now = kept
      BY <2>3
    <3>. HIDE DEF now
    <3>2. \A other \in Named : Met(other, at + 1) => Met(other, at)
      BY <1>1, <1>3, <2>3, Reading
    <3>. QED  BY <2>1, <3>1, <3>2, FirstsGoOn DEF Holds
  <2>. QED  BY <2>2, <2>3
<1>. HIDE DEF now, left
<1>7. CASE left = {}
  <2>1. \A other \in Named : Met(other, at + 1)
    BY <1>5, <1>7
  <2>2. phase' = "fields" /\ kept' = Append(now, Close) /\ wanted' \subseteq Named
    BY <1>1, <1>5, <1>7
  <2>. QED  BY <1>1, <1>6, <2>1, <2>2, StopKeeps
<1>8. CASE left # {}
  <2>1. phase' = "members" /\ kept' = now
    BY <1>1, <1>8
  <2>2. TypeInv'
    BY <1>1, <1>5, <1>6, <2>1, Reading, SameCase DEF TypeInv
  <2>3. OnlyFirstsKept'
    BY <1>1, <1>6, <2>1, SameCase DEF OnlyFirstsKept
  <2>4. Searching'
    <3>1. IsJson' /\ Named' = Named
      BY <1>1, Reading, SameCase
    <3>2. Passed(at)'
      BY <1>1, Reading, NextPiece, SameCase DEF Piece
    <3>3. Holds(kept, Len(kept), at)'
      BY <1>1, <1>6, <2>1, SameCase
    <3>4. \A other : Met(other, at)' <=> Met(other, at + 1)
      BY <1>1, SameCase
    <3>. QED  BY <1>1, <1>5, <1>8, <3>1, <3>2, <3>3, <3>4 DEF Searching
  <2>. QED  BY <2>1, <2>2, <2>3, <2>4, <1>1, Reading
            DEF IInv, NotBegun, WholeIsKept, Stopped, SameAsWhole, BrokenOffIsTold
<1>. QED  BY <1>7, <1>8

-----------------------------------------------------------------------------
(* The fields *)

\* A name of the model is found in what was kept as it is found in the body.
LEMMA SameValue ==
  ASSUME IInv, phase = "fields", IsJson, NEW name, Head(name) \in Named
  PROVE  JsonValue(kept, name) = JsonValue(Body, name)
<1> DEFINE key == Head(name)
           last == Len(kept)
<1>1. /\ TypeInv /\ Firsts(kept, at) /\ Passed(at - 1) /\ Holds(kept, last - 1, at)
      /\ kept[last] = Close /\ key \in Named
      /\ \/ Body[at].is = "close"
         \/ Body[at].is = "member" /\ \A k \in Named : Met(k, at)
  BY DEF IInv, Stopped, OnlyFirstsKept
<1>2. Len(Body) \in Nat /\ at \in 1..Len(Body) /\ last \in Nat /\ last >= 2
  BY <1>1, BodyIsCut, KeptIsSeq DEF IInv, Stopped, TypeInv, Holds
<1>. HIDE DEF key, last
<1>3. CASE Met(key, at)
  <2>1. PICK j \in 1..(last - 1) : IsMemberOf(kept[j], key)
    BY <1>1, <1>3 DEF Holds
  <2>2. PICK other \in Named, k \in 1..at : kept[j] = Body[k] /\ First(k, other)
    <3>1. j \in 1..Len(kept) /\ kept[j] \notin {Open, Close}
      BY <1>2, <2>1, Marks DEF IsMemberOf, last
    <3>. QED  BY <1>1, <3>1 DEF Firsts
  <2>3. other = key
    <3>1. <<other>> = <<key>>
      BY <2>1, <2>2 DEF First, IsMemberOf
    <3>. QED  BY <3>1
  <2>4. JsonValue(Body, name) = Within(Body[k], name)
    <3>1. k \in 1..Len(Body) /\ Stops(Body[k], Head(name))
      BY <1>2, <2>1, <2>2 DEF Stops, key
    <3>2. ASSUME NEW i \in 1..(k - 1) PROVE ~Stops(Body[i], Head(name))
      <4>1. i \in 1..(at - 1)
        BY <1>2
      <4>2. Body[i].is \in {"blank", "open", "member"}
        BY <1>1, <4>1 DEF Passed
      <4>. QED  BY <2>2, <2>3, <4>2 DEF Stops, First, key
    <3>. QED  BY <1>2, <3>1, <3>2, JsonValueIs
  <2>5. JsonValue(kept, name) = Within(kept[j], name)
    <3>1. j \in 1..Len(kept) /\ Stops(kept[j], Head(name)) /\ Len(kept) \in Nat
      BY <1>2, <2>1 DEF Stops, key, last
    <3>2. ASSUME NEW i \in 1..(j - 1) PROVE ~Stops(kept[i], Head(name))
      <4>1. i \in 1..(last - 1) /\ i \in 1..Len(kept) /\ i # j
        BY <1>2 DEF last
      <4>2. kept[i].is \in {"open", "member"}
        <5>1. i = 1 \/ i \in 2..(last - 1)
          BY <4>1
        <5>. QED  BY <1>1, <5>1, Marks DEF Holds
      <4>3. ~IsMemberOf(kept[i], key)
        BY <1>1, <2>1, <3>1, <4>1 DEF Firsts, IsMemberOf
      <4>. QED  BY <4>2, <4>3 DEF Stops, key
    <3>. QED  BY <3>1, <3>2, JsonValueIs
  <2>. QED  BY <2>2, <2>4, <2>5
<1>4. CASE ~Met(key, at)
  <2>1. Body[at].is = "close"
    BY <1>1, <1>4
  <2>2. JsonValue(Body, name) = Within(Body[at], name)
    <3>1. Stops(Body[at], Head(name))
      BY <2>1 DEF Stops
    <3>2. ASSUME NEW i \in 1..(at - 1) PROVE ~Stops(Body[i], Head(name))
      <4>1. Body[i].is \in {"blank", "open", "member"} /\ i \in 1..at
        BY <1>1, <1>2 DEF Passed
      <4>. QED  BY <1>4, <4>1 DEF Stops, Met, key
    <3>. QED  BY <1>2, <3>1, <3>2, JsonValueIs
  <2>3. JsonValue(kept, name) = Within(kept[last], name)
    <3>1. Stops(kept[last], Head(name)) /\ last \in 1..Len(kept) /\ Len(kept) \in Nat
      BY <1>1, <1>2, Marks DEF Stops, last
    <3>2. ASSUME NEW i \in 1..(last - 1) PROVE ~Stops(kept[i], Head(name))
      <4>1. kept[i].is \in {"open", "member"}
        <5>1. i = 1 \/ i \in 2..(last - 1)
          BY <1>2
        <5>. QED  BY <1>1, <5>1, Marks DEF Holds
      <4>2. ~IsMemberOf(kept[i], key)
        <5>1. SUFFICES ASSUME IsMemberOf(kept[i], key) PROVE FALSE
          OBVIOUS
        <5>2. i \in 1..Len(kept) /\ kept[i] \notin {Open, Close}
          BY <1>2, <5>1, Marks DEF IsMemberOf, last
        <5>3. PICK other \in Named, k \in 1..at : kept[i] = Body[k] /\ First(k, other)
          BY <1>1, <5>2 DEF Firsts
        <5>. QED  BY <1>4, <5>1, <5>3 DEF Met
      <4>. QED  BY <4>1, <4>2 DEF Stops, key
    <3>. QED  BY <3>1, <3>2, JsonValueIs
  <2>. QED  BY <1>1, <2>1, <2>2, <2>3, Marks DEF Within
<1>. QED  BY <1>3, <1>4

\* What is kept of an object is an object, and so is the body it was kept of.
LEMMA BothAreObjects ==
  ASSUME IInv, phase = "fields", IsJson
  PROVE  Beginning(kept) = "open" /\ Beginning(Body) = "open"
<1>1. /\ TypeInv /\ Passed(at - 1) /\ at >= 1 /\ Body[at].is \in {"close", "member"}
      /\ Holds(kept, Len(kept) - 1, at)
  BY DEF IInv, Stopped
<1>2. Len(Body) \in Nat /\ at \in 1..Len(Body) /\ Len(kept) \in Nat
  BY <1>1, BodyIsCut, KeptIsSeq DEF TypeInv
<1>3. Beginning(kept) = "open"
  <2>1. 1 \in 1..Len(kept) /\ kept[1].is = "open"
    BY <1>1, <1>2, Marks DEF Holds
  <2>2. PICK k \in 1..1 : kept[k].is # "blank" /\ Beginning(kept) = kept[k].is
    BY <1>2, <2>1, BeginningIs
  <2>3. k = 1
    OBVIOUS
  <2>. QED  BY <2>1, <2>2, <2>3
<1>4. Beginning(Body) = "open"
  <2>1. PICK k \in 1..at : Body[k].is # "blank" /\ Beginning(Body) = Body[k].is
    BY <1>1, <1>2, BeginningIs
  <2>2. k \in 1..(at - 1) \/ k = at
    BY <1>2
  <2>3. Body[k].is \in {"open", "member", "close"}
    BY <1>1, <2>1, <2>2 DEF Passed
  <2>. QED  BY <1>1, <2>1, <2>3, BodyIsCut
<1>. QED  BY <1>3, <1>4

LEMMA FieldsReadTheSame ==
  ASSUME IInv, phase = "fields"
  PROVE  (IF parse.takes = "raw" THEN Model(kept)
          ELSE ReadModel(kept, Header, parse.fields, parse.sources = "refused")) = OfTheWhole
<1>1. CASE ~IsJson
  BY <1>1 DEF IInv, WholeIsKept, OfTheWhole
<1>2. CASE IsJson
  <2>1. parse.takes # "raw" /\ Header # NoHeader /\ FromContentType(Header) = "Json"
    BY <1>2 DEF IsJson
  <2>2. ASSUME NEW k \in DOMAIN parse.fields
        PROVE  JsonValue(kept, parse.fields[k].name) = JsonValue(Body, parse.fields[k].name)
    <3>1. Head(parse.fields[k].name) \in Named
      BY DEF Named, TopLevelKey
    <3>. QED  BY <1>2, <3>1, SameValue
  <2>3. Beginning(kept) = "open" /\ Beginning(Body) = "open"
    BY <1>2, BothAreObjects
  <2>4. ASSUME NEW refused
        PROVE  ReadModel(kept, Header, parse.fields, refused) = ReadModel(Body, Header, parse.fields, refused)
    <3>1. PICK fields : fields = parse.fields
      OBVIOUS
    <3>2. \A k \in DOMAIN fields : JsonValue(kept, fields[k].name) = JsonValue(Body, fields[k].name)
      BY <2>2, <3>1
    <3>3. ReadModel(kept, Header, fields, refused) = ReadModel(Body, Header, fields, refused)
      BY <2>1, <2>3, <3>2, SameModel
    <3>. QED  BY <3>1, <3>3
  <2>. QED  BY <2>1, <2>4 DEF OfTheWhole
<1>. QED  BY <1>1, <1>2

\* All a JSON body has for the model has arrived when the fields are read.
LEMMA StoppedHasEnough ==
  ASSUME IInv, phase = "fields", IsJson
  PROVE  Enough
<1>1. /\ at \in 1..arrived
      /\ \/ Body[at].is = "close"
         \/ \A key \in Named : Met(key, at)
  BY DEF IInv, Stopped, TypeInv
<1> DEFINE here == {Body[k] : k \in 1..arrived}
<1>2. CASE Body[at].is = "close"
  <2>1. Body[at] \in here
    BY <1>1
  <2>. QED  BY <1>2, <2>1 DEF Enough
<1>3. CASE \A key \in Named : Met(key, at)
  <2>1. ASSUME NEW key \in Named
        PROVE  \E p \in here : p.is = "member" /\ p.name = <<key>>
    <3>1. PICK k \in 1..at : IsMemberOf(Body[k], key)
      BY <1>3 DEF Met
    <3>2. Body[k] \in here
      BY <1>1 DEF IInv, TypeInv
    <3>. QED  BY <3>1, <3>2 DEF IsMemberOf
  <2>. QED  BY <2>1 DEF Enough
<1>. QED  BY <1>1, <1>2, <1>3

LEMMA ReadFieldsKeeps ==
  ASSUME IInv, ReadFields
  PROVE  IInv'
<1>1. /\ phase = "fields" /\ phase' = "done" /\ asked' = asked
      /\ outcome' = IF parse.takes = "raw" THEN Model(kept)
                    ELSE ReadModel(kept, Header, parse.fields, parse.sources = "refused")
      /\ UNCHANGED <<parse, failsAt, arrived, at, wanted, kept>>
  BY DEF ReadFields, End
<1>2. SameAsWhole'
  <2>1. outcome' = OfTheWhole'
    BY <1>1, FieldsReadTheSame, SameCase
  <2>. QED  BY <2>1 DEF SameAsWhole
<1>3. BrokenOffIsTold'
  <2>1. CASE IsJson
    <3>1. Enough' = Enough
      BY <1>1, SameCase DEF Enough
    <3>. QED  BY <1>1, <2>1, <3>1, StoppedHasEnough DEF BrokenOffIsTold
  <2>2. CASE ~IsJson
    <3>1. failsAt > Len(Body)
      BY <1>1, <2>2 DEF IInv, WholeIsKept
    <3>2. failsAt \in Nat /\ Len(Body) \in Nat
      BY BodyIsCut DEF IInv, TypeInv
    <3>. QED  BY <1>1, <3>1, <3>2, SameCase DEF BrokenOffIsTold
  <2>. QED  BY <2>1, <2>2
<1>4. asked' \in Nat
  BY <1>1 DEF IInv, TypeInv
<1>. QED  BY <1>1, <1>2, <1>3, <1>4, EndKeeps

-----------------------------------------------------------------------------
(* The theorems *)

LEMMA StepKeeps ==
  ASSUME IInv, [Next]_vars
  PROVE  IInv'
<1>1. CASE Next
  BY <1>1, RefuseRequestKeeps, LeaveUnreadKeeps, BeginBodyKeeps, ChunkKeeps, StreamFailsKeeps,
     StreamEndsKeeps, PassMarkKeeps, TakeMemberKeeps, TakeCloseKeeps, TakeBrokenKeeps, ReadFieldsKeeps
     DEF Next
<1>2. CASE UNCHANGED vars
  <2>1. UNCHANGED <<parse, failsAt, phase, arrived, at, wanted, kept, asked, outcome>>
    BY <1>2 DEF vars
  <2>2. Enough' = Enough
    <3>1. Body' = Body /\ Named' = Named /\ IsJson' = IsJson /\ arrived' = arrived
      BY <2>1, SameCase
    <3>. QED  BY <3>1 DEF Enough
  <2>3. WellFormed(Body)' = WellFormed(Body)
    BY <2>1, SameCase DEF WellFormed
  <2>4. TypeInv' /\ NotBegun'
    BY <2>1, SameCase DEF IInv, TypeInv, NotBegun
  <2>5. WholeIsKept'
    BY <2>1, SameCase DEF IInv, WholeIsKept
  <2>6. /\ Passed(at)' = Passed(at) /\ \A key : Met(key, at)' = Met(key, at)
        /\ Passed(at - 1)' = Passed(at - 1)
        /\ Holds(kept, Len(kept), at)' = Holds(kept, Len(kept), at)
        /\ Holds(kept, Len(kept) - 1, at)' = Holds(kept, Len(kept) - 1, at)
        /\ Firsts(kept, at)' = Firsts(kept, at)
    BY <2>1, SameCase
  <2>7. Searching'
    BY <2>1, <2>6, SameCase DEF IInv, Searching
  <2>8. Stopped'
    BY <2>1, <2>6, SameCase DEF IInv, Stopped
  <2>9. OnlyFirstsKept'
    BY <2>1, <2>6, SameCase DEF IInv, OnlyFirstsKept
  <2>10. SameAsWhole'
    BY <2>1, <2>3, SameCase DEF IInv, SameAsWhole
  <2>11. BrokenOffIsTold'
    BY <2>1, <2>2, SameCase DEF IInv, BrokenOffIsTold
  <2>. QED  BY <2>4, <2>5, <2>7, <2>8, <2>9, <2>10, <2>11 DEF IInv
<1>. QED  BY <1>1, <1>2

\* Wherever the parse of a stream stands, what was kept and what is still wanted are as IInv says.
THEOREM Invariance == Spec => []IInv
<1>. QED  BY InitIsInd, StepKeeps, PTL DEF Spec

\* A body that comes as a stream reads into the model, or the error, the whole body reads into
\* (BodyFromStream), and a stream that breaks off too early fails the parse.
THEOREM StreamedAsWhole == Spec => []SameAsWhole
<1>1. IInv => SameAsWhole
  BY DEF IInv
<1>. QED  BY <1>1, Invariance, PTL

\* A stream that breaks off before the parse has what it needs ends in an error, never in a model
\* with the fields that came by then (the `?` behind each get_next).
THEOREM NoTruncatedModel == Spec => []BrokenOffIsTold
<1>1. IInv => BrokenOffIsTold
  BY DEF IInv
<1>. QED  BY <1>1, Invariance, PTL

\* What is kept of a JSON body is one member for each key the model names, and no other
\* (read_json_members).
THEOREM KeptIsBounded == Spec => []OnlyNamedKept
<1>1. ASSUME IInv PROVE OnlyNamedKept
  <2>1. SUFFICES ASSUME IsJson, NEW j \in 1..Len(kept), NEW k \in 1..Len(kept), kept[j].is = "member"
                 PROVE  kept[j].name[1] \in Named /\ (kept[k].name = kept[j].name => j = k)
    BY <1>1, KeptIsSeq DEF IInv, OnlyNamedKept
  <2>2. Firsts(kept, at)
    BY <1>1, <2>1 DEF IInv, OnlyFirstsKept
  <2>3. PICK key \in Named, n \in 1..at : kept[j] = Body[n] /\ First(n, key)
    BY <2>1, <2>2, Marks DEF Firsts
  <2>4. kept[j].name[1] = key
    BY <2>3 DEF First, IsMemberOf
  <2>. QED  BY <2>1, <2>2, <2>4 DEF Firsts
<1>. QED  BY <1>1, Invariance, PTL

\* The stream of a JSON body is asked for more only while a member the model names is missing
\* (the loop of read_json_members).
THEOREM ReadsNoFurther == Spec => NotReadFurther
<1>1. ASSUME IInv, [Next]_vars PROVE asked' # asked => ~Enough
  <2>1. SUFFICES ASSUME asked' # asked, IsJson PROVE ~Enough
    BY DEF Enough
  <2>2. Waits
    BY <1>1, <2>1 DEF Next, vars, RefuseRequest, LeaveUnread, BeginBody, Chunk, StreamFails, StreamEnds,
      PassMark, TakeMember, TakeClose, TakeBroken, ReadFields
  <2>3. /\ phase = "members" /\ at = arrived /\ at \in Nat /\ Passed(at)
        /\ wanted = {key \in Named : ~Met(key, at)} /\ wanted # {}
    BY <1>1, <2>1, <2>2 DEF Waits, IInv, WholeIsKept, Searching, TypeInv
  <2>4. \A p \in {Body[k] : k \in 1..arrived} : p.is # "close"
    BY <2>3 DEF Passed
  <2>5. PICK key \in Named : ~Met(key, at)
    BY <2>3
  <2>6. \A p \in {Body[k] : k \in 1..arrived} : ~(p.is = "member" /\ p.name = <<key>>)
    BY <2>3, <2>5 DEF Met, IsMemberOf
  <2>. QED  BY <2>4, <2>6 DEF Enough
<1>. QED  BY <1>1, Invariance, PTL DEF Spec, NotReadFurther
=============================================================================
