---------------------------- MODULE UrlTextProofs ----------------------------
(* Facts about the texts of urls, for the proofs. *)
EXTENDS UrlText, TLAPS, SequenceTheorems, WellFoundedInduction

-----------------------------------------------------------------------------
(* Texts *)

\* There is a least one in a set of places.
LEMMA MinIsLeast ==
  ASSUME NEW S, S \subseteq Nat, S # {}
  PROVE  Min(S) \in S /\ \A n \in S : Min(S) <= n
<1> DEFINE R == OpToRel(<, Nat)
<1>1. IsWellFoundedOn(R, Nat)
  BY NatLessThanWellFounded
<1>2. \A x, y \in Nat : <<x, y>> \in R <=> x < y
  BY DEF OpToRel
<1> HIDE DEF R
<1>3. PICK m \in S : \A n \in S : ~(<<n, m>> \in R)
  BY <1>1, WFMin
<1>4. ASSUME NEW n \in S PROVE m <= n
  <2>1. m \in Nat /\ n \in Nat
    OBVIOUS
  <2>2. ~(n < m)
    BY <1>2, <1>3, <2>1
  <2>. QED  BY <2>1, <2>2
<1>. QED  BY <1>3, <1>4 DEF Min

\* c is what stands in t between m and n; and what a and b give, one behind the other.
IsCut(c, t, m, n) ==
  /\ c \in Text /\ Len(c) = n - m
  /\ \A k \in 1..(n - m) : c[k] = t[m + k]

IsGlued(c, a, b) ==
  /\ c \in Text /\ Len(c) = Len(a) + Len(b)
  /\ \A k \in 1..Len(a) : c[k] = a[k]
  /\ \A k \in 1..Len(b) : c[Len(a) + k] = b[k]

LEMMA Lengths == ASSUME NEW t \in Text PROVE Len(t) \in Nat
BY LenProperties DEF Text

LEMMA Cut ==
  ASSUME NEW t \in Text, NEW m \in Nat, NEW n \in Nat, m <= n, n <= Len(t)
  PROVE  IsCut(Between(t, m, n), t, m, n)
<1>1. Len(t) \in Nat /\ \A k \in (m + 1)..n : t[k] \in Char
  BY ElementOfSeq, LenProperties DEF Text
<1>2. /\ SubSeq(t, m + 1, n) \in Seq(Char)
      /\ Len(SubSeq(t, m + 1, n)) = IF m + 1 <= n THEN n - (m + 1) + 1 ELSE 0
      /\ \A k \in 1..(n - (m + 1) + 1) : SubSeq(t, m + 1, n)[k] = t[(m + 1) + k - 1]
  BY <1>1, SubSeqProperties
<1>3. /\ SubSeq(t, m + 1, n) \in Text
      /\ Len(SubSeq(t, m + 1, n)) = n - m
      /\ \A k \in 1..(n - m) : SubSeq(t, m + 1, n)[k] = t[m + k]
  BY <1>2 DEF Text
<1>. QED  BY <1>3 DEF Between, IsCut

LEMMA CutUpto ==
  ASSUME NEW t \in Text, NEW n \in Nat, n <= Len(t)
  PROVE  IsCut(Upto(t, n), t, 0, n)
<1>1. Upto(t, n) = Between(t, 0, n)
  BY DEF Upto, Between
<1>2. 0 \in Nat /\ 0 <= n
  OBVIOUS
<1>3. IsCut(Between(t, 0, n), t, 0, n)
  BY <1>2, Cut
<1>. QED  BY <1>1, <1>3

LEMMA CutBehind ==
  ASSUME NEW t \in Text, NEW n \in Nat, n <= Len(t)
  PROVE  IsCut(Behind(t, n), t, n, Len(t))
<1>1. Behind(t, n) = Between(t, n, Len(t))
  BY DEF Behind, Between
<1>2. IsCut(Between(t, n, Len(t)), t, n, Len(t))
  BY Lengths, Cut
<1>. QED  BY <1>1, <1>2

LEMMA Glue ==
  ASSUME NEW s \in Text, NEW t \in Text
  PROVE  IsGlued(s \o t, s, t)
<1>1. /\ s \o t \in Seq(Char) /\ Len(s \o t) = Len(s) + Len(t)
      /\ \A k \in 1..(Len(s) + Len(t)) :
           (s \o t)[k] = IF k <= Len(s) THEN s[k] ELSE t[k - Len(s)]
      /\ Len(s) \in Nat /\ Len(t) \in Nat
  BY ConcatProperties, LenProperties DEF Text
<1>. QED  BY <1>1 DEF Text, IsGlued

LEMMA SameText ==
  ASSUME NEW s \in Text, NEW t \in Text, Len(s) = Len(t), \A k \in 1..Len(s) : s[k] = t[k]
  PROVE  s = t
BY SeqEqual DEF Text

\* w is v with t put in at place q.
IsPutIn(w, v, q, t) ==
  /\ w \in Text /\ Len(w) = Len(v) + Len(t)
  /\ \A k \in 1..q : w[k] = v[k]
  /\ \A k \in 1..Len(t) : w[q + k] = t[k]
  /\ \A k \in 1..(Len(v) - q) : w[q + Len(t) + k] = v[q + k]

LEMMA PutIn ==
  ASSUME NEW v \in Text, NEW q \in Nat, q <= Len(v), NEW t \in Text
  PROVE  IsPutIn((Upto(v, q) \o t) \o Behind(v, q), v, q, t)
<1>1. PICK a : a = Upto(v, q)
  OBVIOUS
<1>2. PICK b : b = Behind(v, q)
  OBVIOUS
<1>3. PICK c : c = a \o t
  OBVIOUS
<1>4. PICK w : w = c \o b
  OBVIOUS
<1>5. Len(v) \in Nat /\ Len(t) \in Nat
  BY Lengths
<1>6. IsCut(a, v, 0, q) /\ IsCut(b, v, q, Len(v))
  BY <1>1, <1>2, CutUpto, CutBehind
<1>7. a \in Text /\ Len(a) = q /\ \A k \in 1..q : a[k] = v[k]
  BY <1>6 DEF IsCut
<1>8. b \in Text /\ Len(b) = Len(v) - q /\ \A k \in 1..(Len(v) - q) : b[k] = v[q + k]
  BY <1>6 DEF IsCut
<1>9. IsGlued(c, a, t)
  BY <1>3, <1>7, Glue
<1>10. c \in Text
  BY <1>9 DEF IsGlued
<1>11. IsGlued(w, c, b)
  BY <1>4, <1>8, <1>10, Glue
<1>12. IsPutIn(w, v, q, t)
  BY <1>5, <1>7, <1>8, <1>9, <1>11 DEF IsGlued, IsPutIn
<1>. QED  BY <1>1, <1>2, <1>3, <1>4, <1>12

\* What is before q stays, the part that ends there grows by t, and what is behind stays.
LEMMA PartBefore ==
  ASSUME NEW v \in Text, NEW e \in Nat, NEW n \in Nat, NEW q \in Nat, e <= n, n <= q, q <= Len(v),
         NEW t \in Text, NEW w, IsPutIn(w, v, q, t)
  PROVE  Between(w, e, n) = Between(v, e, n)
<1>1. PICK a : a = Between(w, e, n)
  OBVIOUS
<1>2. PICK b : b = Between(v, e, n)
  OBVIOUS
<1>3. w \in Text /\ Len(v) \in Nat /\ Len(t) \in Nat /\ n <= Len(v) /\ n <= Len(w)
  BY Lengths DEF IsPutIn
<1>4. IsCut(a, w, e, n) /\ IsCut(b, v, e, n)
  BY <1>1, <1>2, <1>3, Cut
<1>5. a \in Text /\ b \in Text /\ Len(a) = n - e /\ Len(b) = n - e
  BY <1>4 DEF IsCut
<1>6. ASSUME NEW k \in 1..Len(a) PROVE a[k] = b[k]
  <2>1. e + k \in 1..q /\ k \in 1..(n - e)
    BY <1>3, <1>5
  <2>. QED  BY <1>4, <2>1 DEF IsCut, IsPutIn
<1>. QED  BY <1>1, <1>2, <1>5, <1>6, SameText

LEMMA PartGrown ==
  ASSUME NEW v \in Text, NEW e \in Nat, NEW q \in Nat, e <= q, q <= Len(v), NEW t \in Text,
         NEW w, IsPutIn(w, v, q, t)
  PROVE  Between(w, e, q + Len(t)) = Between(v, e, q) \o t
<1>1. PICK c : c = Between(w, e, q + Len(t))
  OBVIOUS
<1>2. PICK d : d = Between(v, e, q)
  OBVIOUS
<1>3. PICK g : g = d \o t
  OBVIOUS
<1>4. w \in Text /\ Len(v) \in Nat /\ Len(t) \in Nat /\ q + Len(t) <= Len(w)
  BY Lengths DEF IsPutIn
<1>5. IsCut(c, w, e, q + Len(t)) /\ IsCut(d, v, e, q)
  BY <1>1, <1>2, <1>4, Cut
<1>6. d \in Text
  BY <1>5 DEF IsCut
<1>7. IsGlued(g, d, t)
  BY <1>3, <1>6, Glue
<1>8. c \in Text /\ Len(c) = q + Len(t) - e /\ \A k \in 1..Len(c) : c[k] = w[e + k]
  BY <1>5 DEF IsCut
<1>9. /\ g \in Text /\ Len(g) = q - e + Len(t)
      /\ \A k \in 1..(q - e) : g[k] = v[e + k]
      /\ \A k \in 1..Len(t) : g[q - e + k] = t[k]
  BY <1>5, <1>7 DEF IsCut, IsGlued
<1>10. ASSUME NEW k \in 1..Len(c) PROVE c[k] = g[k]
  <2>1. CASE k <= q - e
    <3>1. e + k \in 1..q /\ w[e + k] = v[e + k]
      BY <1>4, <1>8, <2>1 DEF IsPutIn
    <3>. QED  BY <1>8, <1>9, <2>1, <3>1
  <2>2. CASE k > q - e
    <3>1. k - (q - e) \in 1..Len(t) /\ q + (k - (q - e)) = e + k /\ (q - e) + (k - (q - e)) = k
      BY <1>4, <1>8, <2>2
    <3>2. w[e + k] = t[k - (q - e)]
      BY <3>1 DEF IsPutIn
    <3>3. g[k] = t[k - (q - e)]
      BY <1>9, <3>1
    <3>. QED  BY <1>8, <3>2, <3>3
  <2>. QED  BY <1>4, <1>8, <2>1, <2>2
<1>11. c = g
  BY <1>4, <1>8, <1>9, <1>10, SameText
<1>. QED  BY <1>1, <1>2, <1>3, <1>11

LEMMA PartBehind ==
  ASSUME NEW v \in Text, NEW q \in Nat, NEW t \in Text, NEW w, IsPutIn(w, v, q, t),
         NEW m \in Nat, q + m <= Len(v)
  PROVE  Behind(w, q + Len(t) + m) = Behind(v, q + m)
<1>1. PICK p : p = q + Len(t) + m
  OBVIOUS
<1>2. PICK c : c = Behind(w, p)
  OBVIOUS
<1>3. PICK d : d = Behind(v, q + m)
  OBVIOUS
<1>4. /\ w \in Text /\ Len(v) \in Nat /\ Len(t) \in Nat /\ Len(w) = Len(v) + Len(t)
      /\ p \in Nat /\ p <= Len(w) /\ q + m \in Nat
  BY <1>1, Lengths DEF IsPutIn
<1>5. IsCut(c, w, p, Len(w)) /\ IsCut(d, v, q + m, Len(v))
  BY <1>2, <1>3, <1>4, CutBehind
<1>6. /\ c \in Text /\ d \in Text /\ Len(c) = Len(v) - (q + m) /\ Len(d) = Len(v) - (q + m)
      /\ \A k \in 1..Len(c) : c[k] = w[p + k]
      /\ \A k \in 1..Len(c) : d[k] = v[q + m + k]
  BY <1>1, <1>4, <1>5 DEF IsCut
<1>7. ASSUME NEW k \in 1..Len(c) PROVE c[k] = d[k]
  <2>1. m + k \in 1..(Len(v) - q) /\ p + k = q + Len(t) + (m + k) /\ q + m + k = q + (m + k)
    BY <1>1, <1>4, <1>6
  <2>2. w[q + Len(t) + (m + k)] = v[q + (m + k)]
    BY <2>1 DEF IsPutIn
  <2>. QED  BY <1>6, <2>1, <2>2
<1>8. c = d
  BY <1>6, <1>7, SameText
<1>. QED  BY <1>1, <1>2, <1>3, <1>8

\* What is behind a part that was put in front.
LEMMA BehindFront ==
  ASSUME NEW a \in Text, NEW b \in Text, NEW m \in Nat, m <= Len(b)
  PROVE  Behind(a \o b, Len(a) + m) = Behind(b, m)
<1>1. PICK w : w = a \o b
  OBVIOUS
<1>2. PICK c : c = Behind(w, Len(a) + m)
  OBVIOUS
<1>3. PICK d : d = Behind(b, m)
  OBVIOUS
<1>4. IsGlued(w, a, b)
  BY <1>1, Glue
<1>5. w \in Text /\ Len(a) \in Nat /\ Len(b) \in Nat /\ Len(w) = Len(a) + Len(b)
  BY <1>4, Lengths DEF IsGlued
<1>6. IsCut(c, w, Len(a) + m, Len(w)) /\ IsCut(d, b, m, Len(b))
  BY <1>2, <1>3, <1>5, CutBehind
<1>7. c \in Text /\ d \in Text /\ Len(c) = Len(b) - m /\ Len(d) = Len(b) - m
  BY <1>5, <1>6 DEF IsCut
<1>8. ASSUME NEW k \in 1..Len(c) PROVE c[k] = d[k]
  <2>1. /\ c[k] = w[Len(a) + m + k] /\ d[k] = b[m + k]
        /\ m + k \in 1..Len(b) /\ Len(a) + m + k = Len(a) + (m + k)
    BY <1>5, <1>6, <1>7 DEF IsCut
  <2>. QED  BY <1>4, <2>1 DEF IsGlued
<1>. QED  BY <1>1, <1>2, <1>3, <1>7, <1>8, SameText

LEMMA Whole ==
  ASSUME NEW t \in Text
  PROVE  Upto(t, Len(t)) = t /\ Behind(t, 0) = t /\ Behind(t, Len(t)) = <<>>
<1>1. Len(t) \in Nat
  BY Lengths
<1>2. SubSeq(t, 1, Len(t)) = t
  BY SubSeqFull DEF Text
<1>3. SubSeq(t, Len(t) + 1, Len(t)) = <<>>
  BY <1>1, SubSeqEmpty
<1>. QED  BY <1>2, <1>3 DEF Upto, Behind

\* Cutting a text in two loses nothing.
LEMMA InTwo ==
  ASSUME NEW t \in Text, NEW n \in Nat, n <= Len(t)
  PROVE  /\ Upto(t, n) \in Text /\ Behind(t, n) \in Text
         /\ Len(Upto(t, n)) = n /\ Len(Behind(t, n)) = Len(t) - n
         /\ t = Upto(t, n) \o Behind(t, n)
<1>1. PICK a : a = Upto(t, n)
  OBVIOUS
<1>2. PICK b : b = Behind(t, n)
  OBVIOUS
<1>3. PICK w : w = a \o b
  OBVIOUS
<1>4. IsCut(a, t, 0, n) /\ IsCut(b, t, n, Len(t)) /\ Len(t) \in Nat
  BY <1>1, <1>2, CutUpto, CutBehind, Lengths
<1>5. a \in Text /\ b \in Text /\ Len(a) = n /\ Len(b) = Len(t) - n
  BY <1>4 DEF IsCut
<1>6. IsGlued(w, a, b)
  BY <1>3, <1>5, Glue
<1>7. w \in Text /\ Len(w) = Len(t)
  BY <1>4, <1>5, <1>6 DEF IsGlued
<1>8. ASSUME NEW k \in 1..Len(t) PROVE w[k] = t[k]
  <2>1. CASE k <= n
    BY <1>4, <1>5, <1>6, <2>1 DEF IsCut, IsGlued
  <2>2. CASE k > n
    <3>1. k - n \in 1..Len(b) /\ n + (k - n) = k
      BY <1>4, <1>5, <2>2
    <3>2. w[k] = b[k - n]
      BY <1>5, <1>6, <3>1 DEF IsGlued
    <3>3. b[k - n] = t[k]
      BY <1>4, <1>5, <3>1 DEF IsCut
    <3>. QED  BY <3>2, <3>3
  <2>. QED  BY <1>4, <2>1, <2>2
<1>9. w = t
  BY <1>7, <1>8, SameText
<1>. QED  BY <1>1, <1>2, <1>3, <1>5, <1>9

LEMMA TextAlgebra ==
  /\ <<>> \in Text
  /\ \A c \in Char : <<c>> \in Text /\ Len(<<c>>) = 1 /\ <<c>>[1] = c
  /\ \A s, t \in Text : s \o t \in Text
  /\ \A s \in Text : s \o <<>> = s /\ <<>> \o s = s
  /\ \A s \in Text : \A c \in Char : Append(s, c) = s \o <<c>>
<1>1. <<>> \in Text
  BY EmptySeq DEF Text
<1>2. \A c \in Char : <<c>> \in Text /\ Len(<<c>>) = 1 /\ <<c>>[1] = c
  BY DEF Text
<1>3. \A s, t \in Text : s \o t \in Text
  BY ConcatProperties DEF Text
<1>4. \A s \in Text : s \o <<>> = s /\ <<>> \o s = s
  BY ConcatEmptySeq DEF Text
<1>5. \A s \in Text : \A c \in Char : Append(s, c) = s \o <<c>>
  BY AppendIsConcat DEF Text
<1>. QED  BY <1>1, <1>2, <1>3, <1>4, <1>5

\* Three texts, put together from the left or from the right.
SameJoined(s, t, u) == (s \o t) \o u = s \o (t \o u)

LEMMA Regroup ==
  ASSUME NEW s \in Text, NEW t \in Text, NEW u \in Text
  PROVE  SameJoined(s, t, u)
BY ConcatAssociative DEF Text, SameJoined

LEMMA PutAtEnd ==
  ASSUME NEW v \in Text, NEW t \in Text
  PROVE  IsPutIn(v \o t, v, Len(v), t)
<1>1. IsPutIn((Upto(v, Len(v)) \o t) \o Behind(v, Len(v)), v, Len(v), t)
  BY Lengths, PutIn
<1>2. (Upto(v, Len(v)) \o t) \o Behind(v, Len(v)) = v \o t
  BY Whole, TextAlgebra
<1>. QED  BY <1>1, <1>2

\* The separator.
Slash(t) == IF EndsWithSlash(t) THEN <<>> ELSE <<"/">>

LEMMA SlashIsText ==
  /\ "/" \in Char /\ "?" \in Char /\ "&" \in Char /\ "=" \in Char
  /\ \A t : Slash(t) \in Text
<1>1. "/" \in Char /\ "?" \in Char /\ "&" \in Char /\ "=" \in Char
  BY DEF Char
<1>. QED  BY <1>1, TextAlgebra DEF Slash

LEMMA SlashOfCut ==
  ASSUME NEW v \in Text, NEW m \in Nat, NEW n \in Nat, m < n, n <= Len(v), NEW c, IsCut(c, v, m, n)
  PROVE  EndsWithSlash(c) <=> v[n] = "/"
<1>1. c \in Text /\ Len(c) = n - m /\ n - m \in 1..(n - m)
  BY DEF IsCut
<1>2. c[Len(c)] = v[m + (n - m)] /\ m + (n - m) = n
  BY <1>1 DEF IsCut
<1>3. c # <<>>
  BY <1>1, EmptySeq DEF Text
<1>. QED  BY <1>2, <1>3 DEF EndsWithSlash

\* What the encoders give is a text.
LEMMA EncodedIsText ==
  ASSUME NEW t \in Text
  PROVE  EncodePathSegment(t) \in Text /\ EncodeUrlString(t) \in Text
<1>1. /\ Len(t) \in Nat /\ "%" \in Char
      /\ \A k \in 1..Len(t) : t[k] \in Char
  BY Lengths, ElementOfSeq DEF Text, Char
<1>2. /\ [k \in 1..Len(t) |-> IF t[k] \in PathSafe THEN t[k] ELSE "%"] \in [1..Len(t) -> Char]
      /\ [k \in 1..Len(t) |-> IF t[k] \in QuerySafe THEN t[k] ELSE "%"] \in [1..Len(t) -> Char]
  BY <1>1
<1>3. \A f \in [1..Len(t) -> Char] : f \in Seq(Char)
  BY <1>1, SeqDef
<1>. QED  BY <1>2, <1>3 DEF EncodePathSegment, EncodeUrlString, Text

LEMMA StrippedIsText ==
  ASSUME NEW t \in Text
  PROVE  StripSlash(t) \in Text
<1>1. CASE ~StartsWith(t, <<"/">>)
  BY <1>1 DEF StripSlash
<1>2. CASE StartsWith(t, <<"/">>)
  <2>1. Len(t) >= 1
    BY <1>2 DEF StartsWith
  <2>2. t # <<>>
    BY <2>1, EmptySeq
  <2>3. Tail(t) \in Text
    BY <2>2, HeadTailProperties DEF Text
  <2>. QED  BY <1>2, <2>3 DEF StripSlash
<1>. QED  BY <1>1, <1>2

LEMMA PairIsText ==
  ASSUME NEW name \in Text, NEW v \in Text \cup {NoValue}
  PROVE  Pair(name, v) \in Text
<1>1. EncodeUrlString(name) \in Text
  BY EncodedIsText
<1>2. CASE v = NoValue
  BY <1>1, <1>2, TextAlgebra DEF Pair
<1>3. CASE v # NoValue
  <2>1. v \in Text
    BY <1>3
  <2>2. EncodeUrlString(v) \in Text /\ <<"=">> \in Text
    BY <2>1, EncodedIsText, TextAlgebra, SlashIsText
  <2>. QED  BY <1>1, <1>3, <2>2, TextAlgebra DEF Pair
<1>. QED  BY <1>2, <1>3

-----------------------------------------------------------------------------
(* Looking for a character *)

LEMMA MinIs ==
  ASSUME NEW S, S \subseteq Nat, NEW n \in S, \A m \in S : n <= m
  PROVE  Min(S) = n
<1>1. PICK a : a = Min(S)
  OBVIOUS
<1>2. a \in S /\ \A m \in S : a <= m
  BY <1>1, MinIsLeast
<1>3. a \in Nat /\ n \in Nat /\ a <= n /\ n <= a
  BY <1>2
<1>. QED  BY <1>1, <1>3

\* There is a greatest one in a set of places of a text.
LEMMA MaxIsGreatest ==
  ASSUME NEW S, S \subseteq Nat, S # {}, NEW b \in Nat, \A n \in S : n < b
  PROVE  Max(S) \in S /\ \A n \in S : n <= Max(S)
<1>1. PICK U : U = {m \in Nat : \A n \in S : n < m}
  OBVIOUS
<1>2. U \subseteq Nat /\ b \in U
  BY <1>1
<1>3. PICK m \in U : \A u \in U : m <= u
  BY <1>2, MinIsLeast
<1>4. m \in Nat /\ \A n \in S : n < m
  BY <1>1, <1>3
<1>5. PICK n0 \in S : TRUE
  OBVIOUS
<1>6. m - 1 \in Nat
  BY <1>4, <1>5
<1>7. ~(m - 1 \in U)
  BY <1>3, <1>4, <1>6
<1>8. PICK x \in S : ~(x < m - 1)
  BY <1>1, <1>6, <1>7
<1>9. ASSUME NEW n \in S PROVE x >= n
  <2>1. n \in Nat /\ x \in Nat /\ n < m /\ x < m
    BY <1>4
  <2>. QED  BY <1>4, <1>8, <2>1
<1>10. \E y \in S : \A n \in S : y >= n
  BY <1>9
<1>11. Max(S) \in S /\ \A n \in S : Max(S) >= n
  BY <1>10 DEF Max
<1>12. ASSUME NEW n \in S PROVE n <= Max(S)
  <2>1. n \in Nat /\ Max(S) \in Nat /\ Max(S) >= n
    BY <1>11
  <2>. QED  BY <2>1
<1>. QED  BY <1>11, <1>12

LEMMA MaxIs ==
  ASSUME NEW S, S \subseteq Nat, NEW n \in S, \A m \in S : m <= n
  PROVE  Max(S) = n
<1>1. n \in Nat /\ n + 1 \in Nat /\ \A m \in S : m < n + 1
  OBVIOUS
<1>2. PICK a : a = Max(S)
  OBVIOUS
<1>3. a \in S /\ \A m \in S : m <= a
  BY <1>1, <1>2, MaxIsGreatest
<1>4. a \in Nat /\ a <= n /\ n <= a
  BY <1>3
<1>. QED  BY <1>1, <1>2, <1>4

LEMMA PlaceOf ==
  ASSUME NEW t \in Text, NEW c
  PROVE  /\ Places(t, c) \subseteq Nat
         /\ \A n : n \in Places(t, c) <=> n \in Nat /\ n < Len(t) /\ t[n + 1] = c
<1>1. Len(t) \in Nat
  BY Lengths
<1>. QED  BY <1>1 DEF Places

\* A character is nowhere in a text, character by character.
LEMMA NoPlace ==
  ASSUME NEW t \in Text, NEW c
  PROVE  Places(t, c) = {} <=> \A k \in 1..Len(t) : t[k] # c
<1>1. Len(t) \in Nat
  BY Lengths
<1>2. ASSUME Places(t, c) = {}, NEW k \in 1..Len(t) PROVE t[k] # c
  <2>1. k - 1 \in Nat /\ k - 1 < Len(t) /\ (k - 1) + 1 = k
    BY <1>1
  <2>. QED  BY <1>2, <2>1, PlaceOf
<1>3. ASSUME \A k \in 1..Len(t) : t[k] # c, NEW n \in Places(t, c) PROVE FALSE
  <2>1. n \in Nat /\ n < Len(t) /\ t[n + 1] = c
    BY PlaceOf
  <2>2. n + 1 \in 1..Len(t)
    BY <1>1, <2>1
  <2>. QED  BY <1>3, <2>1, <2>2
<1>. QED  BY <1>2, <1>3

LEMMA NoPlaceInBoth ==
  ASSUME NEW s \in Text, NEW t \in Text, NEW c, Places(s, c) = {}, Places(t, c) = {}
  PROVE  Places(s \o t, c) = {}
<1>1. PICK w : w = s \o t
  OBVIOUS
<1>2. IsGlued(w, s, t) /\ Len(s) \in Nat /\ Len(t) \in Nat
  BY <1>1, Glue, Lengths
<1>3. w \in Text /\ Len(w) = Len(s) + Len(t)
  BY <1>2 DEF IsGlued
<1>4. (\A k \in 1..Len(s) : s[k] # c) /\ (\A k \in 1..Len(t) : t[k] # c)
  BY NoPlace
<1>5. ASSUME NEW k \in 1..Len(w) PROVE w[k] # c
  <2>1. CASE k <= Len(s)
    BY <1>2, <1>3, <1>4, <2>1 DEF IsGlued
  <2>2. CASE k > Len(s)
    <3>1. PICK j : j = k - Len(s)
      OBVIOUS
    <3>2. j \in 1..Len(t) /\ Len(s) + j = k
      BY <1>2, <1>3, <2>2, <3>1
    <3>3. w[k] = t[j]
      BY <1>2, <3>2 DEF IsGlued
    <3>. QED  BY <1>4, <3>2, <3>3
  <2>. QED  BY <1>2, <1>3, <2>1, <2>2
<1>6. Places(w, c) = {}
  BY <1>3, <1>5, NoPlace
<1>. QED  BY <1>1, <1>6

\* Up to its first place a character is not in a text.
LEMMA NoneBefore ==
  ASSUME NEW t \in Text, NEW c, Places(t, c) # {}
  PROVE  /\ Min(Places(t, c)) \in Nat /\ Min(Places(t, c)) < Len(t)
         /\ t[Min(Places(t, c)) + 1] = c
         /\ Upto(t, Min(Places(t, c))) \in Text
         /\ Places(Upto(t, Min(Places(t, c))), c) = {}
<1>1. PICK n : n = Min(Places(t, c))
  OBVIOUS
<1>2. n \in Places(t, c) /\ \A m \in Places(t, c) : n <= m
  BY <1>1, PlaceOf, MinIsLeast
<1>3. n \in Nat /\ n < Len(t) /\ t[n + 1] = c /\ Len(t) \in Nat
  BY <1>2, PlaceOf, Lengths
<1>4. PICK u : u = Upto(t, n)
  OBVIOUS
<1>5. IsCut(u, t, 0, n)
  BY <1>3, <1>4, CutUpto
<1>6. u \in Text /\ Len(u) = n /\ \A k \in 1..n : u[k] = t[k]
  BY <1>3, <1>5 DEF IsCut
<1>7. ASSUME NEW k \in 1..Len(u) PROVE u[k] # c
  <2>1. k - 1 \in Nat /\ k - 1 < n /\ k - 1 < Len(t) /\ (k - 1) + 1 = k
    BY <1>3, <1>6
  <2>2. ~(k - 1 \in Places(t, c))
    BY <1>2, <1>3, <2>1
  <2>3. t[k] # c
    BY <2>1, <2>2, PlaceOf
  <2>. QED  BY <1>6, <2>3
<1>8. Places(u, c) = {}
  BY <1>6, <1>7, NoPlace
<1>. QED  BY <1>1, <1>3, <1>4, <1>6, <1>8

\* Cutting at the first c gives back what was put before it and behind it.
LEMMA CutAtFirst ==
  ASSUME NEW s \in Text, NEW t \in Text, NEW c, Places(s, c) = {}, t # <<>>, t[1] = c
  PROVE  /\ Places(s \o t, c) # {} /\ Min(Places(s \o t, c)) = Len(s)
         /\ Upto(s \o t, Len(s)) = s
         /\ Behind(s \o t, Len(s)) = t /\ Behind(s \o t, Len(s) + 1) = Behind(t, 1)
<1>1. PICK w : w = s \o t
  OBVIOUS
<1>2. IsGlued(w, s, t) /\ Len(s) \in Nat /\ Len(t) \in Nat /\ Len(t) >= 1
  BY <1>1, Glue, Lengths, EmptySeq DEF Text
<1>3. w \in Text /\ Len(w) = Len(s) + Len(t)
  BY <1>2 DEF IsGlued
<1>4. Len(s) \in Places(w, c)
  <2>1. 1 \in 1..Len(t)
    BY <1>2
  <2>2. w[Len(s) + 1] = c
    BY <1>2, <2>1 DEF IsGlued
  <2>. QED  BY <1>2, <1>3, <2>2, PlaceOf
<1>5. ASSUME NEW m \in Places(w, c) PROVE Len(s) <= m
  <2>1. m \in Nat /\ m < Len(w) /\ w[m + 1] = c
    BY <1>3, PlaceOf
  <2>2. CASE m < Len(s)
    <3>1. m + 1 \in 1..Len(s)
      BY <1>2, <2>1, <2>2
    <3>2. s[m + 1] = c
      BY <1>2, <2>1, <3>1 DEF IsGlued
    <3>. QED  BY <3>1, <3>2, NoPlace
  <2>. QED  BY <1>2, <2>1, <2>2
<1>6. Min(Places(w, c)) = Len(s)
  BY <1>3, <1>4, <1>5, PlaceOf, MinIs
<1>7. Upto(w, Len(s)) = s
  <2>1. PICK u : u = Upto(w, Len(s))
    OBVIOUS
  <2>2. IsCut(u, w, 0, Len(s))
    BY <1>2, <1>3, <2>1, CutUpto
  <2>3. u \in Text /\ Len(u) = Len(s) /\ \A k \in 1..Len(u) : u[k] = s[k]
    BY <1>2, <2>2 DEF IsCut, IsGlued
  <2>. QED  BY <2>1, <2>3, SameText
<1>8. Behind(w, Len(s)) = t /\ Behind(w, Len(s) + 1) = Behind(t, 1)
  <2>1. Behind(w, Len(s) + 0) = Behind(t, 0)
    BY <1>1, <1>2, BehindFront
  <2>2. Behind(w, Len(s) + 1) = Behind(t, 1)
    BY <1>1, <1>2, BehindFront
  <2>. QED  BY <1>2, <2>1, <2>2, Whole
<1>. QED  BY <1>1, <1>4, <1>6, <1>7, <1>8

LEMMA Begins ==
  ASSUME NEW t \in Text, NEW p \in Text
  PROVE  StartsWith(t, p) <=> Len(p) <= Len(t) /\ \A k \in 1..Len(p) : t[k] = p[k]
<1>1. Len(p) \in Nat /\ Len(t) \in Nat
  BY Lengths
<1>2. CASE Len(p) <= Len(t)
  <2>1. PICK u : u = Upto(t, Len(p))
    OBVIOUS
  <2>2. IsCut(u, t, 0, Len(p))
    BY <1>1, <1>2, <2>1, CutUpto
  <2>3. u \in Text /\ Len(u) = Len(p) /\ \A k \in 1..Len(p) : u[k] = t[k]
    BY <1>1, <2>2 DEF IsCut
  <2>4. u = p <=> \A k \in 1..Len(p) : t[k] = p[k]
    BY <2>3, SameText
  <2>. QED  BY <1>2, <2>1, <2>4 DEF StartsWith
<1>3. CASE ~(Len(p) <= Len(t))
  BY <1>3 DEF StartsWith
<1>. QED  BY <1>2, <1>3

\* A text begins with a character.
LEMMA BeginsWithOne ==
  ASSUME NEW t \in Text, NEW c \in Char
  PROVE  StartsWith(t, <<c>>) <=> t # <<>> /\ t[1] = c
<1>1. PICK p : p = <<c>>
  OBVIOUS
<1>2. p \in Text /\ Len(p) = 1 /\ p[1] = c
  BY <1>1, TextAlgebra
<1>3. Len(t) \in Nat /\ (t # <<>> <=> 1 <= Len(t))
  BY Lengths, EmptySeq DEF Text
<1>4. StartsWith(t, p) <=> Len(p) <= Len(t) /\ \A k \in 1..Len(p) : t[k] = p[k]
  BY <1>2, Begins
<1>. QED  BY <1>1, <1>2, <1>3, <1>4

\* An encoded path has no mark of a query.
LEMMA EncodedHasNoMark ==
  ASSUME NEW t \in Text
  PROVE  Places(EncodePathSegment(t), "?") = {}
<1>1. PICK e : e = EncodePathSegment(t)
  OBVIOUS
<1>2. e \in Text /\ Len(t) \in Nat
  BY <1>1, EncodedIsText, Lengths
<1>3. e = [k \in 1..Len(t) |-> IF t[k] \in PathSafe THEN t[k] ELSE "%"]
  BY <1>1 DEF EncodePathSegment
<1>4. Len(e) = Len(t)
  BY <1>2, <1>3, LenProperties DEF Text
<1>5. ASSUME NEW k \in 1..Len(e) PROVE e[k] # "?"
  BY <1>3, <1>4 DEF PathSafe
<1>. QED  BY <1>1, <1>2, <1>5, NoPlace
=============================================================================
