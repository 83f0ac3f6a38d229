-------------------------- MODULE UrlBuilderProofs --------------------------
(***************************************************************************)
(* Both url builders, for every text they are begun with and every order   *)
(* of calls: what is written reads back as the same builder, the target as *)
(* the path and the query it was put together of, no append moves what a   *)
(* connection is made to, the TCP builder implements UrlParts, and both    *)
(* builders come to the same path and query while they are told nothing    *)
(* that they treat differently.                                            *)
(*                                                                         *)
(* Of the TCP builder this is shown in UrlBuilderInnerProofs; of the unix  *)
(* socket builder here.                                                    *)
(***************************************************************************)
EXTENDS UrlBuilder, UrlTextProofs

Inner == INSTANCE UrlBuilderInnerProofs

-----------------------------------------------------------------------------
(* Where the socket begins *)

LEMMA UnixWords ==
  /\ \A t, n : Unix!Upto(t, n) = Upto(t, n) /\ Unix!Behind(t, n) = Behind(t, n)
  /\ \A t, c : Unix!Places(t, c) = Places(t, c)
  /\ \A S : Unix!Min(S) = Min(S) /\ Unix!Max(S) = Max(S)
  /\ \A t, p : Unix!StartsWith(t, p) <=> StartsWith(t, p)
  /\ \A t : Unix!HasUnixScheme(t) <=> HasUnixScheme(t)
  /\ \A t : Unix!IsUnixSocket(t) <=> IsUnixSocket(t)
  /\ \A t : Unix!EncodePathSegment(t) = EncodePathSegment(t)
  /\ \A t : Unix!StripSlash(t) = StripSlash(t)
  /\ \A name, v : Unix!Pair(name, v) = Pair(name, v)
<1>1. Unix!PathSafe = PathSafe /\ Unix!QuerySafe = QuerySafe
  BY DEF Unix!PathSafe, PathSafe, Unix!QuerySafe, QuerySafe, Unix!Char, Char,
         Unix!SchemeChar, SchemeChar, Unix!Letters, Letters
<1>2. \A t : Unix!EncodeUrlString(t) = EncodeUrlString(t)
  BY <1>1 DEF Unix!EncodeUrlString, EncodeUrlString
<1>3. \A name, v : Unix!Pair(name, v) = Pair(name, v)
  BY <1>2 DEF Unix!Pair, Pair
<1>4. \A t, n : Unix!Upto(t, n) = Upto(t, n) /\ Unix!Behind(t, n) = Behind(t, n)
  BY DEF Unix!Upto, Upto, Unix!Behind, Behind
<1>5. \A t, p : Unix!StartsWith(t, p) <=> StartsWith(t, p)
  BY <1>4 DEF Unix!StartsWith, StartsWith
<1>6. \A t : Unix!StripSlash(t) = StripSlash(t)
  BY <1>5 DEF Unix!StripSlash, StripSlash
<1>7. \A t : Unix!EncodePathSegment(t) = EncodePathSegment(t)
  BY <1>1 DEF Unix!EncodePathSegment, EncodePathSegment
<1>8. \A t, c : Unix!Places(t, c) = Places(t, c)
  BY DEF Unix!Places, Places
<1>9. \A S : Unix!Min(S) = Min(S) /\ Unix!Max(S) = Max(S)
  BY DEF Unix!Min, Min, Unix!Max, Max
<1>10. \A t : Unix!IsUnixScheme(t) <=> IsUnixScheme(t)
  BY DEF Unix!IsUnixScheme, IsUnixScheme
<1>11. \A t : Unix!HasUnixScheme(t) <=> HasUnixScheme(t)
  BY <1>4, <1>5, <1>8, <1>10 DEF Unix!HasUnixScheme, HasUnixScheme
<1>12. \A t : Unix!IsUnixSocket(t) <=> IsUnixSocket(t)
  BY <1>5, <1>11 DEF Unix!IsUnixSocket, IsUnixSocket
<1>. QED  BY <1>3, <1>4, <1>5, <1>6, <1>7, <1>8, <1>9, <1>11, <1>12

\* t begins with the scheme of a unix socket and slashes, and the socket begins at i: in the home
\* directory behind all slashes, else with the last of them.
SocketAt(t, i) ==
  /\ i \in Nat /\ 2 <= i /\ i < Len(t)
  /\ t[1] = "u" /\ t[2] = ":" /\ t[3] = "/"
  /\ \A k \in 3..i : t[k] = "/"
  /\ \/ t[i + 1] = "~"
     \/ t[i + 1] = "/" /\ (i + 2 <= Len(t) => t[i + 2] # "/" /\ t[i + 2] # "~")

\* Does a part of a text begin with a character.
LEMMA BehindBegins ==
  ASSUME NEW t \in Text, NEW n \in Nat, n <= Len(t), NEW c \in Char
  PROVE  StartsWith(Behind(t, n), <<c>>) <=> n < Len(t) /\ t[n + 1] = c
<1>1. PICK b : b = Behind(t, n)
  OBVIOUS
<1>2. IsCut(b, t, n, Len(t)) /\ Len(t) \in Nat
  BY <1>1, CutBehind, Lengths
<1>3. b \in Text /\ Len(b) = Len(t) - n /\ \A k \in 1..(Len(t) - n) : b[k] = t[n + k]
  BY <1>2 DEF IsCut
<1>4. b # <<>> <=> n < Len(t)
  BY <1>2, <1>3, EmptySeq DEF Text
<1>5. n < Len(t) => b[1] = t[n + 1]
  BY <1>2, <1>3
<1>6. StartsWith(b, <<c>>) <=> b # <<>> /\ b[1] = c
  BY <1>3, BeginsWithOne
<1>. QED  BY <1>1, <1>4, <1>5, <1>6

LEMMA UnixSchemeIs ==
  ASSUME NEW t \in Text
  PROVE  HasUnixScheme(t) <=> 3 <= Len(t) /\ t[1] = "u" /\ t[2] = ":" /\ t[3] = "/"
<1>1. Len(t) \in Nat /\ "/" \in Char /\ "u" \in Char
  BY Lengths DEF Char, SchemeChar, Letters
<1>2. ASSUME NEW n \in Places(t, ":"), IsUnixScheme(Upto(t, n)), StartsWith(Behind(t, n + 1), <<"/">>)
      PROVE  3 <= Len(t) /\ t[1] = "u" /\ t[2] = ":" /\ t[3] = "/"
  <2>1. n \in Nat /\ n < Len(t) /\ t[n + 1] = ":"
    BY PlaceOf
  <2>2. PICK s : s = Upto(t, n)
    OBVIOUS
  <2>3. IsCut(s, t, 0, n)
    BY <1>1, <2>1, <2>2, CutUpto
  <2>4. Len(s) = n /\ \A k \in 1..n : s[k] = t[k]
    BY <2>1, <2>3 DEF IsCut
  <2>5. Len(s) = 1 /\ s[1] = "u"
    BY <1>2, <2>2 DEF IsUnixScheme
  <2>6. n + 1 \in Nat /\ n + 1 <= Len(t)
    BY <1>1, <2>1
  <2>7. n + 1 < Len(t) /\ t[(n + 1) + 1] = "/"
    BY <1>1, <1>2, <2>6, BehindBegins
  <2>. QED  BY <1>1, <2>1, <2>4, <2>5, <2>7
<1>3. ASSUME 3 <= Len(t), t[1] = "u", t[2] = ":", t[3] = "/"
      PROVE  HasUnixScheme(t)
  <2>1. 1 \in Places(t, ":")
    BY <1>1, <1>3, PlaceOf
  <2>2. ASSUME NEW m \in Places(t, ":") PROVE 1 <= m
    <3>1. m \in Nat /\ t[m + 1] = ":"
      BY PlaceOf
    <3>2. m # 0
      BY <1>3, <3>1
    <3>. QED  BY <3>1, <3>2
  <2>3. IsUnixScheme(Upto(t, 1))
    <3>1. PICK s : s = Upto(t, 1)
      OBVIOUS
    <3>2. IsCut(s, t, 0, 1)
      BY <1>1, <1>3, <3>1, CutUpto
    <3>3. s \in Text /\ Len(s) = 1 /\ s[1] = "u"
      BY <1>3, <3>2 DEF IsCut
    <3>4. PICK w : w = <<"u">>
      OBVIOUS
    <3>5. w \in Text /\ Len(w) = 1 /\ w[1] = "u"
      BY <1>1, <3>4, TextAlgebra
    <3>6. \A k \in 1..Len(s) : s[k] = w[k]
      BY <3>3, <3>5
    <3>7. s = w
      BY <3>3, <3>5, <3>6, SameText
    <3>. QED  BY <3>1, <3>4, <3>7 DEF IsUnixScheme
  <2>4. StartsWith(Behind(t, 1 + 1), <<"/">>)
    <3>1. 2 \in Nat /\ 2 <= Len(t) /\ 2 < Len(t)
      BY <1>1, <1>3
    <3>2. StartsWith(Behind(t, 2), <<"/">>)
      BY <1>1, <1>3, <3>1, BehindBegins
    <3>. QED  BY <3>2
  <2>. QED  BY <2>1, <2>2, <2>3, <2>4 DEF HasUnixScheme
<1>. QED  BY <1>2, <1>3 DEF HasUnixScheme

\* socket_path_index finds just that place.
LEMMA SocketIndexIs ==
  ASSUME NEW t \in Text, NEW i
  PROVE  SocketAt(t, i) <=> HasUnixScheme(t) /\ i = Unix!SocketPathIndex(t)
<1>1. Len(t) \in Nat /\ "~" \in Char
  BY Lengths DEF Char
<1>2. ASSUME HasUnixScheme(t)
      PROVE  SocketAt(t, i) <=> i = Unix!SocketPathIndex(t)
  <2>1. 3 <= Len(t) /\ t[1] = "u" /\ t[2] = ":" /\ t[3] = "/"
    BY <1>2, UnixSchemeIs
  <2>2. Min(Places(t, ":")) = 1
    <3>1. Places(t, ":") \subseteq Nat /\ 1 \in Places(t, ":")
      BY <1>1, <2>1, PlaceOf
    <3>2. ASSUME NEW m \in Places(t, ":") PROVE 1 <= m
      <4>1. m \in Nat /\ t[m + 1] = ":"
        BY PlaceOf
      <4>2. m # 0
        BY <2>1, <4>1
      <4>. QED  BY <4>1, <4>2
    <3>. QED  BY <3>1, <3>2, MinIs
  <2>3. PICK N : N = {n \in 0..(Len(t) - 2) : \A k \in 1..n : t[2 + k] = "/"}
    OBVIOUS
  <2>4. PICK m : m = Max(N)
    OBVIOUS
  <2>5. Unix!Slashes(t) = m
    <3>1. Len(t) - 1 - 1 = Len(t) - 2 /\ \A k : 1 + 1 + k = 2 + k
      BY <1>1
    <3>2. Unix!Slashes(t) = Max({n \in 0..(Len(t) - 1 - 1) : \A k \in 1..n : t[1 + 1 + k] = "/"})
      BY <2>2, UnixWords DEF Unix!Slashes
    <3>3. {n \in 0..(Len(t) - 1 - 1) : \A k \in 1..n : t[1 + 1 + k] = "/"} = N
      BY <1>1, <2>3
    <3>. QED  BY <2>4, <3>2, <3>3
  <2>6. m \in N /\ \A n \in N : n <= m
    <3>1. N \subseteq Nat /\ \A n \in N : n < Len(t)
      BY <1>1, <2>3
    <3>2. 1 \in N
      BY <1>1, <2>1, <2>3
    <3>. QED  BY <1>1, <2>4, <3>1, <3>2, MaxIsGreatest
  <2>7. m \in Nat /\ 1 <= m /\ m <= Len(t) - 2 /\ \A k \in 1..m : t[2 + k] = "/"
    <3>1. 1 \in N
      BY <1>1, <2>1, <2>3
    <3>2. m \in 0..(Len(t) - 2)
      BY <2>3, <2>6
    <3>3. \A k \in 1..m : t[2 + k] = "/"
      BY <2>3, <2>6
    <3>4. 1 <= m
      BY <2>6, <3>1
    <3>. QED  BY <1>1, <3>2, <3>3, <3>4
  <2>8. m + 3 <= Len(t) => t[m + 3] # "/"
    <3>. SUFFICES ASSUME m + 3 <= Len(t), t[m + 3] = "/" PROVE FALSE
      OBVIOUS
    <3>1. ASSUME NEW k \in 1..(m + 1) PROVE t[2 + k] = "/"
      <4>1. CASE k \in 1..m
        BY <2>7, <4>1
      <4>2. CASE k = m + 1
        <5>1. 2 + k = m + 3
          BY <2>7, <4>2
        <5>. QED  BY <5>1
      <4>. QED  BY <2>7, <4>1, <4>2
    <3>2. m + 1 \in N
      BY <1>1, <2>3, <2>7, <3>1
    <3>. QED  BY <2>6, <2>7, <3>2
  <2>9. PICK j : j = Unix!SocketPathIndex(t)
    OBVIOUS
  <2>10. j = IF StartsWith(Behind(t, 2 + m), <<"~">>) THEN 2 + m ELSE 1 + m
    <3>1. Unix!Min(Unix!Places(t, ":")) = 1
      <4>1. Unix!Places(t, ":") = Places(t, ":")
        BY UnixWords
      <4>2. Unix!Min(Places(t, ":")) = Min(Places(t, ":"))
        BY UnixWords
      <4>. QED  BY <2>2, <4>1, <4>2
    <3>2. PICK a : a = Unix!Min(Unix!Places(t, ":")) + 1 + Unix!Slashes(t)
      OBVIOUS
    <3>3. a = 2 + m /\ a - 1 = 1 + m
      BY <2>5, <2>7, <3>1, <3>2
    <3>4. Unix!SocketPathIndex(t) = IF Unix!StartsWith(Unix!Behind(t, a), <<"~">>) THEN a ELSE a - 1
      BY <3>2 DEF Unix!SocketPathIndex
    <3>5. Unix!Behind(t, a) = Behind(t, a)
      BY UnixWords
    <3>6. Unix!StartsWith(Behind(t, a), <<"~">>) <=> StartsWith(Behind(t, a), <<"~">>)
      BY UnixWords
    <3>. QED  BY <2>9, <3>3, <3>4, <3>5, <3>6
  <2>11. StartsWith(Behind(t, 2 + m), <<"~">>) <=> 2 + m < Len(t) /\ t[m + 3] = "~"
    <3>1. 2 + m \in Nat /\ 2 + m <= Len(t) /\ (2 + m) + 1 = m + 3
      BY <1>1, <2>7
    <3>. QED  BY <1>1, <3>1, BehindBegins
  <2>12. SocketAt(t, j)
    <3>1. CASE 2 + m < Len(t) /\ t[m + 3] = "~"
      <4>1. j = 2 + m /\ j + 1 = m + 3
        BY <2>7, <2>10, <2>11, <3>1
      <4>2. ASSUME NEW k \in 3..j PROVE t[k] = "/"
        <5>1. k - 2 \in 1..m /\ 2 + (k - 2) = k
          BY <2>7, <4>1
        <5>. QED  BY <2>7, <5>1
      <4>. QED  BY <1>1, <2>1, <2>7, <3>1, <4>1, <4>2 DEF SocketAt
    <3>2. CASE ~(2 + m < Len(t) /\ t[m + 3] = "~")
      <4>1. j = 1 + m /\ j + 1 = 2 + m /\ j + 2 = m + 3
        BY <2>7, <2>10, <2>11, <3>2
      <4>2. ASSUME NEW k \in 3..j PROVE t[k] = "/"
        <5>1. k - 2 \in 1..m /\ 2 + (k - 2) = k
          BY <2>7, <4>1
        <5>. QED  BY <2>7, <5>1
      <4>3. t[j + 1] = "/"
        <5>1. m \in 1..m
          BY <2>7
        <5>. QED  BY <2>7, <4>1, <5>1
      <4>4. j + 2 <= Len(t) => t[j + 2] # "/" /\ t[j + 2] # "~"
        BY <1>1, <2>7, <2>8, <3>2, <4>1
      <4>. QED  BY <1>1, <2>1, <2>7, <4>1, <4>2, <4>3, <4>4 DEF SocketAt
    <3>. QED  BY <3>1, <3>2
  <2>13. ASSUME SocketAt(t, i) PROVE i = j
    <3>1. /\ i \in Nat /\ 2 <= i /\ i < Len(t) /\ \A k \in 3..i : t[k] = "/"
          /\ \/ t[i + 1] = "~"
             \/ t[i + 1] = "/" /\ (i + 2 <= Len(t) => t[i + 2] # "/" /\ t[i + 2] # "~")
      BY <2>13 DEF SocketAt
    <3>2. i - 2 \in N
      <4>1. ASSUME NEW k \in 1..(i - 2) PROVE t[2 + k] = "/"
        <5>1. 2 + k \in 3..i
          BY <3>1
        <5>. QED  BY <3>1, <5>1
      <4>. QED  BY <1>1, <2>3, <3>1, <4>1
    <3>3. i - 2 <= m
      BY <2>6, <3>2
    <3>4. CASE t[i + 1] = "~"
      <4>1. ~(i - 1 <= m)
        <5>. SUFFICES ASSUME i - 1 <= m PROVE FALSE
          OBVIOUS
        <5>1. i - 1 \in 1..m /\ 2 + (i - 1) = i + 1
          BY <2>7, <3>1
        <5>. QED  BY <2>7, <3>4, <5>1
      <4>2. i = 2 + m
        BY <2>7, <3>1, <3>3, <4>1
      <4>3. 2 + m < Len(t) /\ t[m + 3] = "~"
        <5>1. i + 1 = m + 3
          BY <2>7, <4>2
        <5>. QED  BY <3>1, <3>4, <4>2, <5>1
      <4>. QED  BY <2>10, <2>11, <4>2, <4>3
    <3>5. CASE t[i + 1] = "/" /\ (i + 2 <= Len(t) => t[i + 2] # "/" /\ t[i + 2] # "~")
      <4>1. i - 1 \in N
        <5>1. ASSUME NEW k \in 1..(i - 1) PROVE t[2 + k] = "/"
          <6>1. CASE 2 + k \in 3..i
            BY <3>1, <6>1
          <6>2. CASE 2 + k = i + 1
            BY <3>5, <6>2
          <6>. QED  BY <3>1, <6>1, <6>2
        <5>. QED  BY <1>1, <2>3, <3>1, <5>1
      <4>2. i - 1 <= m
        BY <2>6, <4>1
      <4>3. ~(i <= m)
        <5>. SUFFICES ASSUME i <= m PROVE FALSE
          OBVIOUS
        <5>1. i \in 1..m /\ 2 + i = i + 2 /\ i + 2 <= Len(t)
          BY <1>1, <2>7, <3>1
        <5>. QED  BY <2>7, <3>5, <5>1
      <4>4. i = 1 + m /\ i + 2 = m + 3
        BY <2>7, <3>1, <4>2, <4>3
      <4>5. ~(2 + m < Len(t) /\ t[m + 3] = "~")
        BY <1>1, <2>7, <3>5, <4>4
      <4>. QED  BY <2>10, <2>11, <4>4, <4>5
    <3>. QED  BY <3>1, <3>4, <3>5
  <2>. QED  BY <2>9, <2>12, <2>13
<1>3. ASSUME SocketAt(t, i) PROVE HasUnixScheme(t)
  <2>1. 3 <= Len(t) /\ t[1] = "u" /\ t[2] = ":" /\ t[3] = "/"
    BY <1>1, <1>3 DEF SocketAt
  <2>. QED  BY <2>1, UnixSchemeIs
<1>. QED  BY <1>2, <1>3

\* What is written behind a socket does not move where it begins.
LEMMA SocketStays ==
  ASSUME NEW w \in Text, NEW y \in Text, y # <<>> => y[1] = ":", NEW i
  PROVE  /\ SocketAt(w, i) => SocketAt(w \o y, i)
         /\ SocketAt(w \o y, i) /\ i < Len(w) => SocketAt(w, i)
<1>1. PICK v : v = w \o y
  OBVIOUS
<1>2. Len(w) \in Nat /\ Len(y) \in Nat /\ Len(v) = Len(w) + Len(y) /\ \A k \in 1..Len(w) : v[k] = w[k]
  BY <1>1, Glue, Lengths DEF IsGlued
<1>3. Len(w) + 1 <= Len(v) => v[Len(w) + 1] = ":"
  <2>. SUFFICES ASSUME Len(w) + 1 <= Len(v) PROVE v[Len(w) + 1] = ":"
    OBVIOUS
  <2>1. 1 \in 1..Len(y) /\ Len(y) # 0
    BY <1>2
  <2>2. y # <<>>
    BY <2>1
  <2>3. v[Len(w) + 1] = y[1]
    BY <1>1, <2>1, Glue DEF IsGlued
  <2>. QED  BY <2>2, <2>3
<1>4. ASSUME i \in Nat, 2 <= i, i < Len(w)
      PROVE  /\ w[1] = v[1] /\ w[2] = v[2] /\ (3 <= Len(w) => w[3] = v[3])
             /\ w[i + 1] = v[i + 1] /\ \A k \in 3..i : w[k] = v[k]
             /\ i + 2 <= Len(w) => w[i + 2] = v[i + 2]
             /\ i + 2 <= Len(v) => i + 2 <= Len(w) \/ v[i + 2] = ":"
  <2>1. i + 2 <= Len(v) => i + 2 <= Len(w) \/ i + 2 = Len(w) + 1
    BY <1>2, <1>4
  <2>2. 1 \in 1..Len(w) /\ 2 \in 1..Len(w) /\ i + 1 \in 1..Len(w)
    BY <1>2, <1>4
  <2>3. (3 <= Len(w) => 3 \in 1..Len(w)) /\ (i + 2 <= Len(w) => i + 2 \in 1..Len(w))
    BY <1>2, <1>4
  <2>4. \A k \in 3..i : k \in 1..Len(w)
    BY <1>2, <1>4
  <2>5. i + 2 = Len(w) + 1 /\ i + 2 <= Len(v) => v[i + 2] = ":"
    BY <1>3
  <2>. QED  BY <1>2, <2>1, <2>2, <2>3, <2>4, <2>5
<1>5. ASSUME i \in Nat, 2 <= i, i < Len(w) PROVE 3 <= Len(w) /\ i < Len(v) /\ (i + 2 <= Len(w) => i + 2 <= Len(v))
  BY <1>2, <1>5
<1>6. SocketAt(w, i) => SocketAt(v, i)
  BY <1>4, <1>5 DEF SocketAt
<1>7. SocketAt(v, i) /\ i < Len(w) => SocketAt(w, i)
  BY <1>4, <1>5 DEF SocketAt
<1>. QED  BY <1>1, <1>6, <1>7

\* What stands in front.
LEMMA UptoFront ==
  ASSUME NEW a \in Text, NEW b \in Text
  PROVE  Upto(a \o b, Len(a)) = a /\ Behind(a \o b, Len(a)) = b
<1>1. PICK v : v = a \o b
  OBVIOUS
<1>2. v \in Text /\ Len(v) = Len(a) + Len(b) /\ Len(a) \in Nat /\ Len(b) \in Nat
      /\ \A k \in 1..Len(a) : v[k] = a[k]
  BY <1>1, Glue, Lengths DEF IsGlued
<1>3. PICK u : u = Upto(v, Len(a))
  OBVIOUS
<1>4. IsCut(u, v, 0, Len(a))
  BY <1>2, <1>3, CutUpto
<1>5. u \in Text /\ Len(u) = Len(a) /\ \A k \in 1..Len(u) : u[k] = a[k]
  BY <1>2, <1>4 DEF IsCut
<1>6. u = a
  BY <1>5, SameText
<1>7. Behind(v, Len(a) + 0) = Behind(b, 0)
  BY <1>1, <1>2, BehindFront
<1>8. Behind(b, 0) = b /\ Len(a) + 0 = Len(a)
  BY <1>2, Whole
<1>. QED  BY <1>1, <1>3, <1>6, <1>7, <1>8

-----------------------------------------------------------------------------
(* The unix socket builder: what is written reads back *)

\* A scheme, or none, and the path of a socket, which has no colon: the socket is found where the
\* scheme ends.
SocketForm(s, h) ==
  /\ Places(h, ":") = {}
  /\ \/ s = <<>> /\ h # <<>> /\ (h[1] = "/" \/ h[1] = "~")
     \/ SocketAt(s \o h, Len(s))

\* A path, which ends where the query begins.
RestForm(p, q) == Places(p, "?") = {} /\ (q # <<>> => q[1] = "?")

LEMMA SocketIsText == ":" \in Char /\ "~" \in Char /\ <<":">> \in Text
<1>1. ":" \in Char /\ "~" \in Char
  BY DEF Char
<1>. QED  BY <1>1, TextAlgebra

\* A text whose first character is not that of a unix socket scheme has none.
LEMMA BareSocket ==
  ASSUME NEW t \in Text, t # <<>>, t[1] = "/" \/ t[1] = "~"
  PROVE  ~HasUnixScheme(t) /\ IsUnixSocket(t)
<1>1. ~HasUnixScheme(t)
  BY UnixSchemeIs
<1>2. "/" \in Char /\ "~" \in Char
  BY SlashIsText, SocketIsText
<1>. QED  BY <1>1, <1>2, BeginsWithOne DEF IsUnixSocket

\* What follows the socket: a colon, the path and the query, or nothing if there is neither.
Follows(y, p, q) == (y = <<>> /\ p = <<>> /\ q = <<>>) \/ y = <<":">> \o (p \o q)

\* A text that is put together of its parts.
PutTogether(w, s, h, p, q) ==
  /\ SocketForm(s, h) /\ RestForm(p, q)
  /\ \E y \in Text : w = (s \o h) \o y /\ Follows(y, p, q)

\* The parse of such a text gives its parts.
LEMMA UnixReads ==
  ASSUME NEW w, NEW s \in Text, NEW h \in Text, NEW p \in Text, NEW q \in Text,
         PutTogether(w, s, h, p, q)
  PROVE  /\ IsUnixSocket(w)
         /\ Unix!Parsed(w) = [scheme |-> s, host |-> h, path |-> p, query |-> q]
<1>0. SocketForm(s, h) /\ RestForm(p, q)
  BY DEF PutTogether
<1>1. PICK y \in Text :
        /\ w = (s \o h) \o y
        /\ (y = <<>> /\ p = <<>> /\ q = <<>>) \/ y = <<":">> \o (p \o q)
  BY DEF PutTogether, Follows
<1>2. PICK z : z = h \o y
  OBVIOUS
<1>3. w \in Text /\ z \in Text /\ w = s \o z /\ p \o q \in Text /\ s \o h \in Text
  BY <1>1, <1>2, TextAlgebra
<1>4. y = <<>> \/ (y # <<>> /\ y[1] = ":" /\ Behind(y, 1) = p \o q)
  <2>1. CASE y = <<":">> \o (p \o q)
    <3>1. Len(<<":">>) = 1 /\ <<":">>[1] = ":" /\ Len(p \o q) \in Nat
      BY <1>3, SocketIsText, TextAlgebra, Lengths
    <3>2. Behind(y, 1) = p \o q
      BY <1>3, <2>1, <3>1, SocketIsText, UptoFront
    <3>3. y[1] = ":" /\ Len(y) # 0
      BY <1>3, <2>1, <3>1, SocketIsText, Glue DEF IsGlued
    <3>. QED  BY <3>2, <3>3
  <2>. QED  BY <1>1, <2>1
<1>5. /\ IsUnixSocket(w)
      /\ Unix!SchemePart(w) = s /\ Unix!SocketPart(w) = z
  <2>1. CASE s = <<>> /\ h # <<>> /\ (h[1] = "/" \/ h[1] = "~")
    <3>1. w = z
      BY <1>3, <2>1, TextAlgebra
    <3>2. 1 \in 1..Len(h) /\ Len(h) \in Nat
      BY <2>1, Lengths, EmptySeq DEF Text
    <3>3. z[1] = h[1] /\ Len(z) = Len(h) + Len(y) /\ Len(y) \in Nat
      BY <1>2, <3>2, Glue, Lengths DEF IsGlued
    <3>4. z # <<>>
      BY <3>2, <3>3
    <3>5. ~HasUnixScheme(z) /\ IsUnixSocket(z)
      BY <1>3, <2>1, <3>3, <3>4, BareSocket
    <3>6. ~Unix!HasUnixScheme(w)
      BY <3>1, <3>5, UnixWords
    <3>. QED  BY <2>1, <3>1, <3>5, <3>6 DEF Unix!SchemePart, Unix!SocketPart
  <2>2. CASE SocketAt(s \o h, Len(s))
    <3>1. SocketAt(w, Len(s))
      BY <1>1, <1>3, <1>4, <2>2, SocketStays
    <3>2. PICK n : n = Len(s)
      OBVIOUS
    <3>3. HasUnixScheme(w) /\ n = Unix!SocketPathIndex(w)
      BY <1>3, <3>1, <3>2, SocketIndexIs
    <3>4. Unix!HasUnixScheme(w) /\ IsUnixSocket(w)
      BY <3>3, UnixWords DEF IsUnixSocket
    <3>5. Unix!Upto(w, n) = Upto(w, n) /\ Unix!Behind(w, n) = Behind(w, n)
      BY UnixWords
    <3>6. Upto(w, n) = s /\ Behind(w, n) = z
      BY <1>3, <3>2, UptoFront
    <3>7. Unix!SchemePart(w) = s /\ Unix!SocketPart(w) = z
      BY <3>3, <3>4, <3>5, <3>6 DEF Unix!SchemePart, Unix!SocketPart
    <3>. QED  BY <3>4, <3>7
  <2>. QED  BY <1>0, <2>1, <2>2 DEF SocketForm
<1>6. PICK r : r = p \o q
  OBVIOUS
<1>7. PICK colons : colons = Places(z, ":")
  OBVIOUS
<1>8. PICK m : m = Min(colons)
  OBVIOUS
<1>9. PICK marks : marks = Places(r, "?")
  OBVIOUS
<1>10. PICK k : k = Min(marks)
  OBVIOUS
<1>11. /\ h = IF colons = {} THEN z ELSE Upto(z, m)
       /\ r = IF colons = {} THEN <<>> ELSE Behind(z, m + 1)
  <2>1. CASE y = <<>>
    <3>1. z = h
      BY <1>2, <2>1, TextAlgebra
    <3>2. p = <<>> /\ q = <<>>
      <4>1. ~(y = <<":">> \o (p \o q))
        <5>. SUFFICES ASSUME y = <<":">> \o (p \o q) PROVE FALSE
          OBVIOUS
        <5>1. Len(y) = Len(<<":">>) + Len(p \o q) /\ Len(<<":">>) = 1 /\ Len(p \o q) \in Nat
          BY <1>3, SocketIsText, Glue, TextAlgebra, Lengths DEF IsGlued
        <5>. QED  BY <2>1, <5>1
      <4>. QED  BY <1>1, <4>1
    <3>3. r = <<>>
      BY <1>6, <3>2, TextAlgebra
    <3>4. colons = {}
      BY <1>0, <1>7, <3>1 DEF SocketForm
    <3>. QED  BY <3>1, <3>3, <3>4
  <2>2. CASE y # <<>> /\ y[1] = ":" /\ Behind(y, 1) = p \o q
    <3>1. Places(h, ":") = {}
      BY <1>0 DEF SocketForm
    <3>2. colons # {} /\ m = Len(h) /\ Upto(z, Len(h)) = h /\ Behind(z, Len(h) + 1) = Behind(y, 1)
      BY <1>2, <1>7, <1>8, <2>2, <3>1, CutAtFirst
    <3>. QED  BY <1>6, <2>2, <3>2
  <2>. QED  BY <1>4, <2>1, <2>2
<1>12. /\ p = IF marks = {} THEN r ELSE Upto(r, k)
       /\ q = IF marks = {} THEN <<>> ELSE Behind(r, k)
  <2>1. CASE q = <<>>
    <3>1. r = p
      BY <1>6, <2>1, TextAlgebra
    <3>. QED  BY <1>0, <1>9, <2>1, <3>1 DEF RestForm
  <2>2. CASE q # <<>>
    <3>1. marks # {} /\ k = Len(p) /\ Upto(r, Len(p)) = p /\ Behind(r, Len(p)) = q
      BY <1>0, <1>6, <1>9, <1>10, <2>2, CutAtFirst DEF RestForm
    <3>. QED  BY <3>1
  <2>. QED  BY <2>1, <2>2
<1>13. PICK uc : uc = Unix!Places(z, ":")
  OBVIOUS
<1>14. PICK um : um = Unix!Places(r, "?")
  OBVIOUS
<1>15. uc = colons /\ um = marks /\ Unix!Min(uc) = m /\ Unix!Min(um) = k
  BY <1>7, <1>8, <1>9, <1>10, <1>13, <1>14, UnixWords
<1>16. /\ Unix!Upto(z, m) = Upto(z, m) /\ Unix!Behind(z, m + 1) = Behind(z, m + 1)
       /\ Unix!Upto(r, k) = Upto(r, k) /\ Unix!Behind(r, k) = Behind(r, k)
  BY UnixWords
<1>17. r = IF uc = {} THEN <<>> ELSE Unix!Behind(z, Unix!Min(uc) + 1)
  BY <1>11, <1>15, <1>16
<1>18. Unix!Parsed(w) =
         [scheme |-> s,
          host   |-> IF uc = {} THEN z ELSE Unix!Upto(z, Unix!Min(uc)),
          path   |-> IF um = {} THEN r ELSE Unix!Upto(r, Unix!Min(um)),
          query  |-> IF um = {} THEN <<>> ELSE Unix!Behind(r, Unix!Min(um))]
  BY <1>5, <1>13, <1>14, <1>17 DEF Unix!Parsed
<1>19. Unix!Parsed(w) = [scheme |-> s, host |-> h, path |-> p, query |-> q]
  BY <1>11, <1>12, <1>15, <1>16, <1>18
<1>. QED  BY <1>1, <1>5, <1>19

\* What new() takes for the scheme, and for the socket and the rest.
LEMMA SocketParts ==
  ASSUME NEW src \in Text, IsUnixSocket(src),
         NEW s, s = Unix!SchemePart(src), NEW z, z = Unix!SocketPart(src)
  PROVE  /\ s \in Text /\ z \in Text /\ src = s \o z
         /\ z # <<>> /\ (z[1] = "/" \/ z[1] = "~")
         /\ s = <<>> \/ SocketAt(src, Len(s))
<1>1. CASE HasUnixScheme(src)
  <2>1. PICK i : i = Unix!SocketPathIndex(src)
    OBVIOUS
  <2>2. SocketAt(src, i)
    BY <1>1, <2>1, SocketIndexIs
  <2>3. i \in Nat /\ i < Len(src) /\ Len(src) \in Nat /\ (src[i + 1] = "~" \/ src[i + 1] = "/")
    BY <2>2, Lengths DEF SocketAt
  <2>4. Unix!HasUnixScheme(src) /\ Unix!Upto(src, i) = Upto(src, i) /\ Unix!Behind(src, i) = Behind(src, i)
    BY <1>1, UnixWords
  <2>5. s = Upto(src, i) /\ z = Behind(src, i)
    BY <2>1, <2>4 DEF Unix!SchemePart, Unix!SocketPart
  <2>6. s \in Text /\ z \in Text /\ Len(s) = i /\ Len(z) = Len(src) - i /\ src = s \o z
    <3>1. i <= Len(src)
      BY <2>3
    <3>2. /\ Upto(src, i) \in Text /\ Behind(src, i) \in Text
          /\ Len(Upto(src, i)) = i /\ Len(Behind(src, i)) = Len(src) - i
          /\ src = Upto(src, i) \o Behind(src, i)
      BY <2>3, <3>1, InTwo
    <3>. QED  BY <2>5, <3>2
  <2>7. IsCut(z, src, i, Len(src))
    BY <2>3, <2>5, CutBehind
  <2>8. z[1] = src[i + 1]
    BY <2>3, <2>7 DEF IsCut
  <2>9. z # <<>>
    BY <2>3, <2>6, EmptySeq DEF Text
  <2>. QED  BY <2>2, <2>3, <2>6, <2>8, <2>9
<1>2. CASE ~HasUnixScheme(src)
  <2>1. ~Unix!HasUnixScheme(src)
    BY <1>2, UnixWords
  <2>2. s = <<>> /\ z = src
    BY <2>1 DEF Unix!SchemePart, Unix!SocketPart
  <2>3. "/" \in Char /\ "~" \in Char
    BY SlashIsText, SocketIsText
  <2>4. src # <<>> /\ (src[1] = "/" \/ src[1] = "~")
    BY <1>2, <2>3, BeginsWithOne DEF IsUnixSocket
  <2>. QED  BY <2>2, <2>4, TextAlgebra
<1>. QED  BY <1>1, <1>2

\* The path and the query a rest is cut into.
AtMark(r, p, q) ==
  /\ p = IF Places(r, "?") = {} THEN r ELSE Upto(r, Min(Places(r, "?")))
  /\ q = IF Places(r, "?") = {} THEN <<>> ELSE Behind(r, Min(Places(r, "?")))

LEMMA CutAtMark ==
  ASSUME NEW r \in Text, NEW p, NEW q, AtMark(r, p, q)
  PROVE  p \in Text /\ q \in Text /\ RestForm(p, q) /\ r = p \o q
<1>1. PICK marks : marks = Places(r, "?")
  OBVIOUS
<1>2. PICK k : k = Min(marks)
  OBVIOUS
<1>3. p = (IF marks = {} THEN r ELSE Upto(r, k)) /\ q = (IF marks = {} THEN <<>> ELSE Behind(r, k))
  BY <1>1, <1>2 DEF AtMark
<1>4. CASE marks = {}
  BY <1>1, <1>3, <1>4, TextAlgebra DEF RestForm
<1>5. CASE marks # {}
  <2>1. k \in Nat /\ k < Len(r) /\ r[k + 1] = "?" /\ p \in Text /\ Places(p, "?") = {}
    BY <1>1, <1>2, <1>3, <1>5, NoneBefore
  <2>2. q = Behind(r, k) /\ p = Upto(r, k) /\ Len(r) \in Nat /\ k <= Len(r)
    BY <1>3, <1>5, <2>1, Lengths
  <2>3. IsCut(q, r, k, Len(r))
    BY <2>1, <2>2, CutBehind
  <2>4. q \in Text /\ q[1] = "?"
    BY <2>1, <2>2, <2>3 DEF IsCut
  <2>5. r = Upto(r, k) \o Behind(r, k)
    BY <2>1, <2>2, InTwo
  <2>. QED  BY <2>1, <2>2, <2>4, <2>5 DEF RestForm
<1>. QED  BY <1>4, <1>5

LEMMA ParsedForm ==
  ASSUME NEW src \in Text, IsUnixSocket(src), NEW P, P = Unix!Parsed(src)
  PROVE  /\ P.scheme \in Text /\ P.host \in Text /\ P.path \in Text /\ P.query \in Text
         /\ SocketForm(P.scheme, P.host) /\ RestForm(P.path, P.query)
<1>1. PICK s : s = Unix!SchemePart(src)
  OBVIOUS
<1>2. PICK z : z = Unix!SocketPart(src)
  OBVIOUS
<1>3. /\ s \in Text /\ z \in Text /\ src = s \o z
      /\ z # <<>> /\ (z[1] = "/" \/ z[1] = "~")
      /\ s = <<>> \/ SocketAt(src, Len(s))
  BY <1>1, <1>2, SocketParts
<1>4. PICK colons : colons = Places(z, ":")
  OBVIOUS
<1>5. PICK m : m = Min(colons)
  OBVIOUS
<1>6. PICK h : h = IF colons = {} THEN z ELSE Upto(z, m)
  OBVIOUS
<1>7. PICK y : y = IF colons = {} THEN <<>> ELSE Behind(z, m)
  OBVIOUS
<1>8. PICK r : r = IF colons = {} THEN <<>> ELSE Behind(z, m + 1)
  OBVIOUS
<1>9. PICK marks : marks = Places(r, "?")
  OBVIOUS
<1>10. PICK p : p = IF marks = {} THEN r ELSE Upto(r, Min(marks))
  OBVIOUS
<1>11. PICK q : q = IF marks = {} THEN <<>> ELSE Behind(r, Min(marks))
  OBVIOUS
<1>12. /\ h \in Text /\ y \in Text /\ r \in Text /\ z = h \o y /\ Places(h, ":") = {}
       /\ h # <<>> /\ h[1] = z[1] /\ (y # <<>> => y[1] = ":")
  <2>1. CASE colons = {}
    BY <1>3, <1>4, <1>6, <1>7, <1>8, <2>1, TextAlgebra
  <2>2. CASE colons # {}
    <3>1. m \in Nat /\ m < Len(z) /\ z[m + 1] = ":" /\ h \in Text /\ Places(h, ":") = {}
      BY <1>3, <1>4, <1>5, <1>6, <2>2, NoneBefore
    <3>2. h = Upto(z, m) /\ y = Behind(z, m) /\ r = Behind(z, m + 1) /\ Len(z) \in Nat
      BY <1>3, <1>6, <1>7, <1>8, <2>2, Lengths
    <3>3. IsCut(y, z, m, Len(z)) /\ IsCut(h, z, 0, m)
      BY <1>3, <3>1, <3>2, CutBehind, CutUpto
    <3>4. m + 1 \in Nat /\ m + 1 <= Len(z)
      BY <3>1, <3>2
    <3>5. r \in Text
      BY <1>3, <3>2, <3>4, InTwo
    <3>6. y \in Text /\ y[1] = ":"
      BY <3>1, <3>2, <3>3 DEF IsCut
    <3>7. z = h \o y /\ Len(h) = m
      <4>1. m <= Len(z)
        BY <3>1, <3>2
      <4>2. z = Upto(z, m) \o Behind(z, m) /\ Len(Upto(z, m)) = m
        BY <1>3, <3>1, <4>1, InTwo
      <4>. QED  BY <3>2, <4>2
    <3>8. m # 0
      BY <1>3, <3>1
    <3>9. h # <<>> /\ h[1] = z[1]
      BY <3>1, <3>3, <3>7, <3>8, EmptySeq DEF IsCut, Text
    <3>. QED  BY <3>1, <3>5, <3>6, <3>7, <3>9
  <2>. QED  BY <2>1, <2>2
<1>13. p \in Text /\ q \in Text /\ RestForm(p, q)
  <2>1. AtMark(r, p, q)
    BY <1>9, <1>10, <1>11 DEF AtMark
  <2>. QED  BY <1>12, <2>1, CutAtMark
<1>14. SocketForm(s, h)
  <2>1. CASE s = <<>>
    BY <1>3, <1>12, <2>1 DEF SocketForm
  <2>2. CASE s # <<>>
    <3>1. src = (s \o h) \o y /\ s \o h \in Text
      <4>1. s \o h \in Text
        BY <1>3, <1>12, TextAlgebra
      <4>2. (s \o h) \o y = s \o (h \o y)
        <5>1. s \in Text /\ h \in Text /\ y \in Text
          BY <1>3, <1>12
        <5>2. SameJoined(s, h, y)
          BY <5>1, Regroup
        <5>. QED  BY <5>2 DEF SameJoined
      <4>. QED  BY <1>3, <1>12, <4>1, <4>2
    <3>2. Len(s \o h) = Len(s) + Len(h) /\ Len(s) \in Nat /\ Len(h) \in Nat /\ Len(h) # 0
      BY <1>3, <1>12, Glue, Lengths, EmptySeq DEF IsGlued, Text
    <3>3. SocketAt((s \o h) \o y, Len(s))
      BY <1>3, <2>2, <3>1
    <3>4. PICK n : n = Len(s)
      OBVIOUS
    <3>5. SocketAt(s \o h, n)
      <4>1. PICK w \in Text : w = s \o h
        BY <3>1
      <4>2. SocketAt(w \o y, n) /\ n < Len(w)
        BY <3>2, <3>3, <3>4, <4>1
      <4>3. SocketAt(w, n)
        BY <1>12, <4>2, SocketStays
      <4>. QED  BY <4>1, <4>3
    <3>. QED  BY <1>12, <3>4, <3>5 DEF SocketForm
  <2>. QED  BY <2>1, <2>2
<1>15. PICK uc : uc = Unix!Places(z, ":")
  OBVIOUS
<1>16. PICK um : um = Unix!Places(r, "?")
  OBVIOUS
<1>17. uc = colons /\ um = marks /\ Unix!Min(uc) = m /\ Unix!Min(um) = Min(marks)
  BY <1>4, <1>5, <1>9, <1>15, <1>16, UnixWords
<1>18. /\ Unix!Upto(z, m) = Upto(z, m) /\ Unix!Behind(z, m + 1) = Behind(z, m + 1)
       /\ \A k : Unix!Upto(r, k) = Upto(r, k) /\ Unix!Behind(r, k) = Behind(r, k)
  BY UnixWords
<1>19. r = IF uc = {} THEN <<>> ELSE Unix!Behind(z, Unix!Min(uc) + 1)
  BY <1>8, <1>17, <1>18
<1>20. P = [scheme |-> s,
            host   |-> IF uc = {} THEN z ELSE Unix!Upto(z, Unix!Min(uc)),
            path   |-> IF um = {} THEN r ELSE Unix!Upto(r, Unix!Min(um)),
            query  |-> IF um = {} THEN <<>> ELSE Unix!Behind(r, Unix!Min(um))]
  BY <1>1, <1>2, <1>15, <1>16, <1>19 DEF Unix!Parsed
<1>21. P.scheme = s /\ P.host = h /\ P.path = p /\ P.query = q
  BY <1>6, <1>10, <1>11, <1>17, <1>18, <1>20
<1>. QED  BY <1>3, <1>12, <1>13, <1>14, <1>21

-----------------------------------------------------------------------------
(* The unix socket builder: what a call leaves *)

UnixForm ==
  /\ scheme \in Text /\ host \in Text /\ path \in Text /\ query \in Text
  /\ SocketForm(scheme, host) /\ RestForm(path, query)

\* A path, if there is one, begins with its slash.
Rooted(p) == p # <<>> => p[1] = "/"

LEMMA FirstOfBoth ==
  ASSUME NEW a \in Text, NEW b \in Text
  PROVE  /\ a \o b \in Text
         /\ a # <<>> => a \o b # <<>> /\ (a \o b)[1] = a[1]
         /\ a = <<>> => a \o b = b
<1>1. a \o b \in Text /\ (a = <<>> => a \o b = b)
  BY TextAlgebra
<1>2. ASSUME a # <<>> PROVE a \o b # <<>> /\ (a \o b)[1] = a[1]
  <2>1. Len(a) \in Nat /\ Len(a) # 0 /\ Len(b) \in Nat
    BY <1>2, Lengths, EmptySeq DEF Text
  <2>2. 1 \in 1..Len(a)
    BY <2>1
  <2>3. Len(a \o b) = Len(a) + Len(b) /\ (a \o b)[1] = a[1]
    BY <2>2, Glue DEF IsGlued
  <2>. QED  BY <2>1, <2>3
<1>. QED  BY <1>1, <1>2

\* A text is bare if the path it is cut into has no slash before it.
LEMMA BareIsUnrooted ==
  ASSUME NEW t \in Text, NEW a \in Text, NEW b \in Text, RestForm(a, b), t = a \o b
  PROVE  IsBare(t) <=> ~Rooted(a)
<1>1. "/" \in Char /\ "?" \in Char
  BY SlashIsText
<1>2. IsBare(t) <=> t # <<>> /\ t[1] # "/" /\ t[1] # "?"
  BY <1>1, BeginsWithOne DEF IsBare
<1>3. CASE a = <<>>
  <2>1. t = b
    BY <1>3, FirstOfBoth
  <2>. QED  BY <1>2, <1>3, <2>1 DEF RestForm, Rooted
<1>4. CASE a # <<>>
  <2>1. t # <<>> /\ t[1] = a[1]
    BY <1>4, FirstOfBoth
  <2>2. 1 \in 1..Len(a)
    BY <1>4, Lengths, EmptySeq DEF Text
  <2>3. a[1] # "?"
    BY <2>2, NoPlace DEF RestForm
  <2>. QED  BY <1>2, <1>4, <2>1, <2>3 DEF Rooted
<1>. QED  BY <1>3, <1>4

\* Four texts, put together from the left or from the right.
FourJoined(s, t, u, v) == ((s \o t) \o u) \o v = s \o (t \o (u \o v))

LEMMA RegroupFour ==
  ASSUME NEW s \in Text, NEW t \in Text, NEW u \in Text, NEW v \in Text
  PROVE  FourJoined(s, t, u, v)
<1>1. PICK a \in Text : a = s \o t
  BY TextAlgebra
<1>2. PICK b \in Text : b = u \o v
  BY TextAlgebra
<1>3. SameJoined(a, u, v) /\ SameJoined(s, t, b)
  BY Regroup
<1>. QED  BY <1>1, <1>2, <1>3 DEF SameJoined, FourJoined

LEMMA UnixReadsBack ==
  ASSUME UnixForm
  PROVE  Unix!ReadsBackTheSame
<1>1. PICK s \in Text : s = scheme
  BY DEF UnixForm
<1>2. PICK h \in Text : h = host
  BY DEF UnixForm
<1>3. PICK p \in Text : p = path
  BY DEF UnixForm
<1>4. PICK q \in Text : q = query
  BY DEF UnixForm
<1>5. SocketForm(s, h) /\ RestForm(p, q)
  BY <1>1, <1>2, <1>3, <1>4 DEF UnixForm
<1>6. PICK c \in Text : c = IF p = <<>> /\ q = <<>> THEN <<>> ELSE <<":">>
  BY TextAlgebra, SocketIsText
<1>7. PICK x \in Text : x = s \o h
  BY TextAlgebra
<1>8. PICK y : y = c \o (p \o q)
  OBVIOUS
<1>9. p \o q \in Text /\ y \in Text
  BY <1>8, TextAlgebra
<1>10. PICK w : w = ((x \o c) \o p) \o q
  OBVIOUS
<1>11. w = x \o y
  <2>1. FourJoined(x, c, p, q)
    BY RegroupFour
  <2>. QED  BY <1>8, <1>10, <2>1 DEF FourJoined
<1>12. Unix!Written = w
  BY <1>1, <1>2, <1>3, <1>4, <1>6, <1>7, <1>10 DEF Unix!Written
<1>13. PutTogether(w, s, h, p, q)
  <2>1. (y = <<>> /\ p = <<>> /\ q = <<>>) \/ y = <<":">> \o (p \o q)
    BY <1>6, <1>8, <1>9, TextAlgebra
  <2>. QED  BY <1>5, <1>7, <1>9, <1>11, <2>1 DEF PutTogether, Follows
<1>14. IsUnixSocket(w) /\ Unix!Parsed(w) = [scheme |-> s, host |-> h, path |-> p, query |-> q]
  BY <1>13, UnixReads
<1>15. Unix!IsUnixSocket(w)
  BY <1>14, UnixWords
<1>. QED  BY <1>1, <1>2, <1>3, <1>4, <1>12, <1>14, <1>15 DEF Unix!ReadsBackTheSame

LEMMA UnixNew ==
  ASSUME NEW src \in Text, Unix!New(src)
  PROVE  UnixForm
<1>1. PICK P : P = Unix!Parsed(src)
  OBVIOUS
<1>2. IsUnixSocket(src)
  BY UnixWords DEF Unix!New
<1>3. scheme = P.scheme /\ host = P.host /\ path = P.path /\ query = P.query
  BY <1>1 DEF Unix!New
<1>4. /\ P.scheme \in Text /\ P.host \in Text /\ P.path \in Text /\ P.query \in Text
      /\ SocketForm(P.scheme, P.host) /\ RestForm(P.path, P.query)
  BY <1>1, <1>2, ParsedForm
<1>. QED  BY <1>3, <1>4 DEF UnixForm

LEMMA UnixSegment ==
  ASSUME UnixForm, NEW segment \in Text, Unix!AppendPathSegment(segment)
  PROVE  UnixForm' /\ (Rooted(path') <=> Rooted(path))
<1>1. PICK p \in Text : p = path
  BY DEF UnixForm
<1>2. PICK e : e = EncodePathSegment(StripSlash(segment))
  OBVIOUS
<1>3. e \in Text /\ Places(e, "?") = {}
  BY <1>2, StrippedIsText, EncodedIsText, EncodedHasNoMark
<1>4. path' = Append(p, "/") \o e /\ scheme' = scheme /\ host' = host /\ query' = query
  BY <1>1, <1>2, UnixWords DEF Unix!AppendPathSegment
<1>5. <<"/">> \in Text /\ Len(<<"/">>) = 1 /\ <<"/">>[1] = "/" /\ Append(p, "/") = p \o <<"/">>
  BY SlashIsText, TextAlgebra
<1>6. Places(<<"/">>, "?") = {}
  <2>1. \A k \in 1..Len(<<"/">>) : <<"/">>[k] # "?"
    BY <1>5
  <2>. QED  BY <1>5, <2>1, NoPlace
<1>7. PICK t : t = p \o <<"/">>
  OBVIOUS
<1>8. t \in Text /\ Places(t, "?") = {} /\ t # <<>> /\ (Rooted(p) <=> t[1] = "/")
  <2>1. <<"/">> # <<>>
    BY <1>5
  <2>2. t \in Text /\ t # <<>> /\ (Rooted(p) <=> t[1] = "/")
    BY <1>5, <1>7, <2>1, FirstOfBoth DEF Rooted
  <2>3. Places(t, "?") = {}
    BY <1>1, <1>5, <1>6, <1>7, NoPlaceInBoth DEF UnixForm, RestForm
  <2>. QED  BY <2>2, <2>3
<1>9. PICK g : g = t \o e
  OBVIOUS
<1>10. g \in Text /\ Places(g, "?") = {} /\ (Rooted(g) <=> Rooted(p))
  BY <1>3, <1>8, <1>9, FirstOfBoth, NoPlaceInBoth DEF Rooted
<1>11. path' = g
  BY <1>4, <1>5, <1>7, <1>9
<1>. QED  BY <1>1, <1>4, <1>10, <1>11 DEF UnixForm, RestForm

LEMMA UnixParam ==
  ASSUME UnixForm, NEW name \in Text, NEW v \in Text \cup {NoValue}, Unix!AppendQueryParam(name, v)
  PROVE  UnixForm' /\ path' = path
<1>1. PICK q \in Text : q = query
  BY DEF UnixForm
<1>2. PICK e : e = Pair(name, v)
  OBVIOUS
<1>3. e \in Text
  BY <1>2, PairIsText
<1>4. PICK c : c = IF q = <<>> THEN "?" ELSE "&"
  OBVIOUS
<1>5. query' = Append(q, c) \o e /\ scheme' = scheme /\ host' = host /\ path' = path
  BY <1>1, <1>2, <1>4, UnixWords DEF Unix!AppendQueryParam
<1>6. c \in Char
  BY <1>4, SlashIsText
<1>7. <<c>> \in Text /\ Len(<<c>>) = 1 /\ <<c>>[1] = c /\ Append(q, c) = q \o <<c>>
  BY <1>6, TextAlgebra
<1>8. PICK t : t = q \o <<c>>
  OBVIOUS
<1>9. t \in Text /\ t # <<>> /\ t[1] = "?"
  <2>1. <<c>> # <<>>
    BY <1>7
  <2>2. q # <<>> => q[1] = "?"
    BY <1>1 DEF UnixForm, RestForm
  <2>. QED  BY <1>4, <1>7, <1>8, <2>1, <2>2, FirstOfBoth
<1>10. t \o e \in Text /\ (t \o e)[1] = "?"
  BY <1>3, <1>9, FirstOfBoth
<1>11. query' = t \o e
  BY <1>5, <1>7, <1>8
<1>. QED  BY <1>5, <1>10, <1>11 DEF UnixForm, RestForm

LEMMA UnixEnding ==
  ASSUME UnixForm, NEW raw_ending \in Text, Unix!AppendRawEnding(raw_ending)
  PROVE  UnixForm' /\ (~Rooted(path') <=> ~Rooted(path) \/ (path = <<>> /\ IsBare(raw_ending)))
<1>1. PICK p \in Text : p = path
  BY DEF UnixForm
<1>2. PICK q \in Text : q = query
  BY DEF UnixForm
<1>3. PICK marks : marks = Places(raw_ending, "?")
  OBVIOUS
<1>4. PICK a : a = IF marks = {} THEN raw_ending ELSE Upto(raw_ending, Min(marks))
  OBVIOUS
<1>5. PICK b : b = IF marks = {} THEN <<>> ELSE Behind(raw_ending, Min(marks))
  OBVIOUS
<1>6. a \in Text /\ b \in Text /\ RestForm(a, b) /\ raw_ending = a \o b
  <2>1. AtMark(raw_ending, a, b)
    BY <1>3, <1>4, <1>5 DEF AtMark
  <2>. QED  BY <2>1, CutAtMark
<1>7. Places(a, "?") = {} /\ (b # <<>> => b[1] = "?")
  BY <1>6 DEF RestForm
<1>8. PICK n : n = Min(marks)
  OBVIOUS
<1>9. PICK um : um = Unix!Places(raw_ending, "?")
  OBVIOUS
<1>10. /\ um = marks /\ Unix!Min(um) = n
       /\ Unix!Upto(raw_ending, n) = Upto(raw_ending, n)
       /\ Unix!Behind(raw_ending, n) = Behind(raw_ending, n)
       /\ Unix!Behind(raw_ending, n + 1) = Behind(raw_ending, n + 1)
  BY <1>3, <1>8, <1>9, UnixWords
<1>11. /\ \/ marks = {} /\ path' = p \o raw_ending /\ query' = q
          \/ /\ marks # {}
             /\ path' = p \o Upto(raw_ending, n)
             /\ query' = IF q = <<>> THEN Behind(raw_ending, n)
                         ELSE Append(q, "&") \o Behind(raw_ending, n + 1)
       /\ scheme' = scheme /\ host' = host
  <2>1. /\ \/ um = {} /\ path' = path \o raw_ending /\ query' = query
           \/ /\ um # {}
              /\ path' = path \o Unix!Upto(raw_ending, Unix!Min(um))
              /\ query' = IF query = <<>> THEN Unix!Behind(raw_ending, Unix!Min(um))
                          ELSE Append(query, "&") \o Unix!Behind(raw_ending, Unix!Min(um) + 1)
        /\ scheme' = scheme /\ host' = host
    BY <1>9 DEF Unix!AppendRawEnding
  <2>. QED  BY <1>1, <1>2, <1>10, <2>1
<1>12. path' = p \o a
  BY <1>4, <1>8, <1>11
<1>13. p \o a \in Text /\ Places(p \o a, "?") = {}
  <2>1. Places(p, "?") = {}
    BY <1>1 DEF UnixForm, RestForm
  <2>. QED  BY <1>6, <1>7, <2>1, NoPlaceInBoth, TextAlgebra
<1>14. query' \in Text /\ (query' # <<>> => query'[1] = "?")
  <2>1. q # <<>> => q[1] = "?"
    BY <1>2 DEF UnixForm, RestForm
  <2>2. CASE marks = {}
    BY <1>11, <2>1, <2>2
  <2>3. CASE marks # {} /\ q = <<>>
    <3>1. query' = b
      BY <1>5, <1>8, <1>11, <2>3
    <3>. QED  BY <1>6, <1>7, <3>1
  <2>4. CASE marks # {} /\ q # <<>>
    <3>1. <<"&">> \in Text /\ Append(q, "&") = q \o <<"&">>
      BY SlashIsText, TextAlgebra
    <3>2. n \in Nat /\ n < Len(raw_ending) /\ Len(raw_ending) \in Nat
      BY <1>3, <1>8, <2>4, NoneBefore, Lengths
    <3>3. n + 1 \in Nat /\ n + 1 <= Len(raw_ending)
      BY <3>2
    <3>4. PICK d : d = Behind(raw_ending, n + 1)
      OBVIOUS
    <3>5. d \in Text
      BY <3>3, <3>4, InTwo
    <3>6. PICK t : t = q \o <<"&">>
      OBVIOUS
    <3>7. t \in Text /\ t # <<>> /\ t[1] = "?"
      BY <2>1, <2>4, <3>1, <3>6, FirstOfBoth
    <3>8. t \o d \in Text /\ (t \o d)[1] = "?"
      BY <3>5, <3>7, FirstOfBoth
    <3>9. query' = t \o d
      BY <1>11, <2>4, <3>1, <3>4, <3>6
    <3>. QED  BY <3>8, <3>9
  <2>. QED  BY <2>2, <2>3, <2>4
<1>15. ~Rooted(p \o a) <=> ~Rooted(p) \/ (p = <<>> /\ IsBare(raw_ending))
  <2>1. CASE p = <<>>
    <3>1. p \o a = a /\ Rooted(p)
      BY <1>6, <2>1, FirstOfBoth DEF Rooted
    <3>. QED  BY <1>6, <2>1, <3>1, BareIsUnrooted
  <2>2. CASE p # <<>>
    <3>1. p \o a # <<>> /\ (p \o a)[1] = p[1]
      BY <1>6, <2>2, FirstOfBoth
    <3>. QED  BY <2>2, <3>1 DEF Rooted
  <2>. QED  BY <2>1, <2>2
<1>. QED  BY <1>1, <1>11, <1>12, <1>13, <1>14, <1>15 DEF UnixForm, RestForm

-----------------------------------------------------------------------------
(* The TCP builder, as it is used here and as the lemmas about it name it *)

LEMMA TcpWords ==
  /\ \A t, n : Inner!Upto(t, n) = Tcp!Upto(t, n) /\ Inner!Behind(t, n) = Tcp!Behind(t, n)
  /\ \A t, m, n : Inner!Between(t, m, n) = Tcp!Between(t, m, n)
  /\ \A t, c : Inner!Places(t, c) = Tcp!Places(t, c)
  /\ \A S : Inner!Min(S) = Tcp!Min(S) /\ Inner!Max(S) = Tcp!Max(S)
  /\ \A t, p : Inner!StartsWith(t, p) <=> Tcp!StartsWith(t, p)
  /\ \A t : Inner!EndsWithSlash(t) <=> Tcp!EndsWithSlash(t)
  /\ \A t : Inner!IsUnixScheme(t) <=> Tcp!IsUnixScheme(t)
  /\ \A t : Inner!IsUnixSocket(t) <=> Tcp!IsUnixSocket(t)
  /\ \A t : Inner!EncodePathSegment(t) = Tcp!EncodePathSegment(t)
  /\ \A t : Inner!StripSlash(t) = Tcp!StripSlash(t)
  /\ \A name, v : Inner!Pair(name, v) = Tcp!Pair(name, v)
<1>1. Inner!PathSafe = Tcp!PathSafe /\ Inner!QuerySafe = Tcp!QuerySafe
  BY DEF Inner!PathSafe, Tcp!PathSafe, Inner!QuerySafe, Tcp!QuerySafe, Inner!Char, Tcp!Char,
         Inner!SchemeChar, Tcp!SchemeChar, Inner!Letters, Tcp!Letters
<1>2. \A t : Inner!EncodeUrlString(t) = Tcp!EncodeUrlString(t)
  BY <1>1 DEF Inner!EncodeUrlString, Tcp!EncodeUrlString
<1>3. \A name, v : Inner!Pair(name, v) = Tcp!Pair(name, v)
  BY <1>2 DEF Inner!Pair, Tcp!Pair
<1>4. \A t, n : Inner!Upto(t, n) = Tcp!Upto(t, n) /\ Inner!Behind(t, n) = Tcp!Behind(t, n)
  BY DEF Inner!Upto, Tcp!Upto, Inner!Behind, Tcp!Behind
<1>5. \A t, p : Inner!StartsWith(t, p) <=> Tcp!StartsWith(t, p)
  BY <1>4 DEF Inner!StartsWith, Tcp!StartsWith
<1>6. \A t : Inner!StripSlash(t) = Tcp!StripSlash(t)
  BY <1>5 DEF Inner!StripSlash, Tcp!StripSlash
<1>7. \A t : Inner!EncodePathSegment(t) = Tcp!EncodePathSegment(t)
  BY <1>1 DEF Inner!EncodePathSegment, Tcp!EncodePathSegment
<1>8. \A t, c : Inner!Places(t, c) = Tcp!Places(t, c)
  BY DEF Inner!Places, Tcp!Places
<1>9. \A S : Inner!Min(S) = Tcp!Min(S) /\ Inner!Max(S) = Tcp!Max(S)
  BY DEF Inner!Min, Tcp!Min, Inner!Max, Tcp!Max
<1>10. \A t : Inner!IsUnixScheme(t) <=> Tcp!IsUnixScheme(t)
  BY DEF Inner!IsUnixScheme, Tcp!IsUnixScheme
<1>11. \A t : Inner!HasUnixScheme(t) <=> Tcp!HasUnixScheme(t)
  BY <1>4, <1>5, <1>8, <1>10 DEF Inner!HasUnixScheme, Tcp!HasUnixScheme
<1>12. \A t : Inner!IsUnixSocket(t) <=> Tcp!IsUnixSocket(t)
  BY <1>5, <1>11 DEF Inner!IsUnixSocket, Tcp!IsUnixSocket
<1>13. \A t, m, n : Inner!Between(t, m, n) = Tcp!Between(t, m, n)
  BY DEF Inner!Between, Tcp!Between
<1>14. \A t : Inner!EndsWithSlash(t) <=> Tcp!EndsWithSlash(t)
  BY DEF Inner!EndsWithSlash, Tcp!EndsWithSlash
<1>. QED  BY <1>3, <1>4, <1>5, <1>6, <1>7, <1>8, <1>9, <1>10, <1>12, <1>13, <1>14

LEMMA TcpParse ==
  /\ \A t : Inner!WithScheme(t) = Tcp!WithScheme(t)
  /\ \A t : Inner!Parsed(t) = Tcp!Parsed(t)
<1>1. \A v, h : Inner!Scan(v, h) = Tcp!Scan(v, h)
  BY DEF Inner!Scan, Tcp!Scan, Inner!OrNone, Tcp!OrNone, Inner!Places, Tcp!Places,
         Inner!Min, Tcp!Min, Inner!Max, Tcp!Max
<1>2. \A t : Inner!SchemeLen(t) = Tcp!SchemeLen(t)
  BY DEF Inner!SchemeLen, Tcp!SchemeLen, Inner!SchemeChar, Tcp!SchemeChar, Inner!Letters, Tcp!Letters,
         Inner!Min, Tcp!Min
<1>3. \A t : Inner!HasScheme(t) <=> Tcp!HasScheme(t)
  BY <1>2, TcpWords DEF Inner!HasScheme, Tcp!HasScheme, Inner!SchemeChar, Tcp!SchemeChar,
                        Inner!Letters, Tcp!Letters
<1>4. \A t : Inner!WithScheme(t) = Tcp!WithScheme(t) /\ Inner!HostIndex(t) = Tcp!HostIndex(t)
  BY <1>2, <1>3 DEF Inner!WithScheme, Tcp!WithScheme, Inner!HostIndex, Tcp!HostIndex, Inner!Http, Tcp!Http
<1>5. \A t : Inner!Parsed(t) = Tcp!Parsed(t)
  BY <1>1, <1>4 DEF Inner!Parsed, Tcp!Parsed
<1>. QED  BY <1>4, <1>5

LEMMA TcpGetters ==
  /\ Inner!GetHost = Tcp!GetHost /\ Inner!GetHostPort = Tcp!GetHostPort
  /\ Inner!GetSchemeAndHost = Tcp!GetSchemeAndHost
  /\ Inner!GetPath = Tcp!GetPath /\ Inner!GetQuery = Tcp!GetQuery
  /\ Inner!GetPathAndQuery = Tcp!GetPathAndQuery
  /\ Inner!GetHost' = Tcp!GetHost' /\ Inner!GetHostPort' = Tcp!GetHostPort'
  /\ Inner!GetSchemeAndHost' = Tcp!GetSchemeAndHost'
  /\ Inner!GetPath' = Tcp!GetPath' /\ Inner!GetQuery' = Tcp!GetQuery'
<1>1. Inner!EndOfHost = Tcp!EndOfHost /\ Inner!EndOfHost' = Tcp!EndOfHost'
  BY DEF Inner!EndOfHost, Tcp!EndOfHost
<1>. QED  BY <1>1, TcpWords DEF Inner!GetHost, Tcp!GetHost, Inner!GetHostPort, Tcp!GetHostPort,
            Inner!GetSchemeAndHost, Tcp!GetSchemeAndHost, Inner!GetPath, Tcp!GetPath,
            Inner!GetQuery, Tcp!GetQuery, Inner!GetPathAndQuery, Tcp!GetPathAndQuery

LEMMA TcpNew ==
  ASSUME NEW src, Tcp!New(src)
  PROVE  Inner!New(src)
BY TcpWords, TcpParse DEF Inner!New, Tcp!New

LEMMA TcpSegment ==
  ASSUME NEW segment, Tcp!AppendPathSegment(segment)
  PROVE  Inner!AppendPathSegment(segment)
BY TcpWords DEF Inner!AppendPathSegment, Tcp!AppendPathSegment, Inner!Separated, Tcp!Separated

LEMMA TcpParam ==
  ASSUME NEW name, NEW v, Tcp!AppendQueryParam(name, v)
  PROVE  Inner!AppendQueryParam(name, v)
BY TcpWords DEF Inner!AppendQueryParam, Tcp!AppendQueryParam

LEMMA TcpEnding ==
  ASSUME NEW raw_ending, Tcp!AppendRawEnding(raw_ending)
  PROVE  Inner!AppendRawEnding(raw_ending)
BY TcpWords DEF Inner!AppendRawEnding, Tcp!AppendRawEnding, Inner!Separated, Tcp!Separated

LEMMA TcpReadsBack ==
  ASSUME Inner!ReadsBackTheSame
  PROVE  Tcp!ReadsBackTheSame
<1>1. Inner!IsUnixSocketScheme <=> Tcp!IsUnixSocketScheme
  BY TcpWords DEF Inner!IsUnixSocketScheme, Tcp!IsUnixSocketScheme, Inner!SchemeEnds, Tcp!SchemeEnds
<1>. QED  BY <1>1, TcpWords, TcpParse DEF Inner!ReadsBackTheSame, Tcp!ReadsBackTheSame,
            Inner!Indices, Tcp!Indices

LEMMA TcpIsReadBack ==
  \A target, p, q : Inner!IsReadBack(target, p, q) <=> Tcp!IsReadBack(target, p, q)
<1>1. \A t : Inner!Normal(t) = Tcp!Normal(t)
  BY TcpWords DEF Inner!Normal, Tcp!Normal, Inner!Front, Tcp!Front
<1>2. \A t : Inner!PathOf(t) = Tcp!PathOf(t) /\ Inner!QueryOf(t) = Tcp!QueryOf(t)
  BY TcpWords DEF Inner!PathOf, Tcp!PathOf, Inner!QueryOf, Tcp!QueryOf
<1>3. \A target, p : Inner!IsMyPath(target, p) <=> Tcp!IsMyPath(target, p)
  BY <1>1, <1>2, TcpWords DEF Inner!IsMyPath, Tcp!IsMyPath
<1>. QED  BY <1>2, <1>3, TcpWords DEF Inner!IsReadBack, Tcp!IsReadBack

LEMMA InnerStarts == \A t, p : Inner!StartsWith(t, p) <=> StartsWith(t, p)
BY DEF Inner!StartsWith, StartsWith, Inner!Upto, Upto

LEMMA PartsWords ==
  /\ Inner!Parts!Text = Tcp!Parts!Text
  /\ \A t : Inner!Parts!WithSlash(t) = Tcp!Parts!WithSlash(t)
  /\ \A t : Inner!Parts!EncodePathSegment(t) = Tcp!Parts!EncodePathSegment(t)
  /\ \A t : Inner!Parts!StripSlash(t) = Tcp!Parts!StripSlash(t)
  /\ \A name, v : Inner!Parts!Pair(name, v) = Tcp!Parts!Pair(name, v)
  /\ \A t, n : Inner!Parts!Upto(t, n) = Tcp!Parts!Upto(t, n) /\ Inner!Parts!Behind(t, n) = Tcp!Parts!Behind(t, n)
  /\ \A t, c : Inner!Parts!Places(t, c) = Tcp!Parts!Places(t, c)
  /\ \A S : Inner!Parts!Min(S) = Tcp!Parts!Min(S)
<1>1. Inner!Parts!Char = Tcp!Parts!Char /\ Inner!Parts!QuerySafe = Tcp!Parts!QuerySafe
  BY DEF Inner!Parts!QuerySafe, Tcp!Parts!QuerySafe, Inner!Parts!Char, Tcp!Parts!Char,
         Inner!Parts!SchemeChar, Tcp!Parts!SchemeChar, Inner!Parts!Letters, Tcp!Parts!Letters
<1>2. Inner!Parts!Text = Tcp!Parts!Text /\ Inner!Parts!PathSafe = Tcp!Parts!PathSafe
  BY <1>1 DEF Inner!Parts!Text, Tcp!Parts!Text, Inner!Parts!PathSafe, Tcp!Parts!PathSafe
<1>3. \A t : Inner!Parts!EncodeUrlString(t) = Tcp!Parts!EncodeUrlString(t)
  BY <1>1 DEF Inner!Parts!EncodeUrlString, Tcp!Parts!EncodeUrlString
<1>4. \A name, v : Inner!Parts!Pair(name, v) = Tcp!Parts!Pair(name, v)
  BY <1>3 DEF Inner!Parts!Pair, Tcp!Parts!Pair
<1>5. \A t, n : Inner!Parts!Upto(t, n) = Tcp!Parts!Upto(t, n)
               /\ Inner!Parts!Behind(t, n) = Tcp!Parts!Behind(t, n)
  BY DEF Inner!Parts!Upto, Tcp!Parts!Upto, Inner!Parts!Behind, Tcp!Parts!Behind
<1>6. \A t : Inner!Parts!StripSlash(t) = Tcp!Parts!StripSlash(t)
  BY <1>5 DEF Inner!Parts!StripSlash, Tcp!Parts!StripSlash, Inner!Parts!StartsWith, Tcp!Parts!StartsWith
<1>7. \A t : Inner!Parts!EncodePathSegment(t) = Tcp!Parts!EncodePathSegment(t)
  BY <1>2 DEF Inner!Parts!EncodePathSegment, Tcp!Parts!EncodePathSegment
<1>8. \A t, c : Inner!Parts!Places(t, c) = Tcp!Parts!Places(t, c)
  BY DEF Inner!Parts!Places, Tcp!Parts!Places
<1>9. \A S : Inner!Parts!Min(S) = Tcp!Parts!Min(S)
  BY DEF Inner!Parts!Min, Tcp!Parts!Min
<1>10. \A t : Inner!Parts!WithSlash(t) = Tcp!Parts!WithSlash(t)
  BY DEF Inner!Parts!WithSlash, Tcp!Parts!WithSlash, Inner!Parts!EndsWithSlash, Tcp!Parts!EndsWithSlash
<1>. QED  BY <1>2, <1>4, <1>5, <1>6, <1>7, <1>8, <1>9, <1>10

LEMMA TcpParts ==
  /\ Inner!Parts!Init => Tcp!Parts!Init
  /\ [Inner!Parts!Next]_(Inner!Parts!vars) => [Tcp!Parts!Next]_(Tcp!Parts!vars)
<1>1. Inner!Parts!Init => Tcp!Parts!Init
  BY PartsWords, TcpGetters DEF Inner!Parts!Init, Tcp!Parts!Init
<1>2. \A segment : Inner!Parts!Segment(segment) => Tcp!Parts!Segment(segment)
  BY PartsWords, TcpGetters DEF Inner!Parts!Segment, Tcp!Parts!Segment
<1>3. \A name, v : Inner!Parts!Param(name, v) => Tcp!Parts!Param(name, v)
  BY PartsWords, TcpGetters DEF Inner!Parts!Param, Tcp!Parts!Param
<1>4. \A raw_ending : Inner!Parts!Ending(raw_ending) => Tcp!Parts!Ending(raw_ending)
  BY PartsWords, TcpGetters DEF Inner!Parts!Ending, Tcp!Parts!Ending
<1>5. Inner!Parts!Next => Tcp!Parts!Next
  BY <1>2, <1>3, <1>4 DEF Inner!Parts!Next, Tcp!Parts!Next
<1>6. UNCHANGED Inner!Parts!vars => UNCHANGED Tcp!Parts!vars
  BY TcpGetters DEF Inner!Parts!vars, Tcp!Parts!vars
<1>. QED  BY <1>1, <1>5, <1>6

-----------------------------------------------------------------------------
(* Both builders *)

\* The strengthening: of the TCP builder InOrder and InForm (UrlBuilderInnerProofs), of its twin,
\* if it has one, UnixForm, and that bare tells whether the path has no slash before it.
TwinForm == UnixForm /\ (bare <=> ~Rooted(path))

IInv ==
  /\ builders = {"TcpBased"} \/ builders = {"TcpBased", "UnixSocketBased"}
  /\ Inner!InOrder /\ Inner!InForm
  /\ HasTwin => TwinForm
  /\ alike => HasTwin

LEMMA SameInputs == Inner!Text = Text /\ Inner!Inputs
<1>1. Inner!Text = Text
  BY DEF Inner!Text, Text, Inner!Char, Char, Inner!SchemeChar, SchemeChar, Inner!Letters, Letters
<1>. QED  BY <1>1, UrlBuilderAssumption DEF Inner!Inputs

\* However a socket is written in front of a path and a query, that path is found.
LEMMA TwinBegins ==
  ASSUME NEW socket \in Sockets, NEW rest \in Rests, NEW src \in UnixTexts(socket, rest), Unix!New(src)
  PROVE  UnixForm /\ AtMark(rest, path, query) /\ (IsBare(rest) <=> ~Rooted(path))
<1>1. socket \in Text /\ rest \in Text
  BY UrlBuilderAssumption
<1>2. PICK s : s = Unix!SchemePart(socket)
  OBVIOUS
<1>3. PICK z : z = Unix!SocketPart(socket)
  OBVIOUS
<1>4. IsUnixSocket(socket) /\ Places(z, ":") = {}
  BY <1>3, TwinsAssumption
<1>5. /\ s \in Text /\ z \in Text /\ socket = s \o z
      /\ z # <<>> /\ (z[1] = "/" \/ z[1] = "~")
      /\ s = <<>> \/ SocketAt(socket, Len(s))
  BY <1>1, <1>2, <1>3, <1>4, SocketParts
<1>6. SocketForm(s, z)
  BY <1>4, <1>5 DEF SocketForm
<1>7. PICK marks : marks = Places(rest, "?")
  OBVIOUS
<1>8. PICK p : p = IF marks = {} THEN rest ELSE Upto(rest, Min(marks))
  OBVIOUS
<1>9. PICK q : q = IF marks = {} THEN <<>> ELSE Behind(rest, Min(marks))
  OBVIOUS
<1>10. AtMark(rest, p, q) /\ p \in Text /\ q \in Text /\ RestForm(p, q) /\ rest = p \o q
  <2>1. AtMark(rest, p, q)
    BY <1>7, <1>8, <1>9 DEF AtMark
  <2>. QED  BY <1>1, <2>1, CutAtMark
<1>11. PICK y : /\ y \in Text /\ src = socket \o y
                /\ (y = <<>> /\ p = <<>> /\ q = <<>>) \/ y = <<":">> \o (p \o q)
  <2>1. CASE src = socket \o <<":">> \o rest
    <3>1. <<":">> \in Text
      BY SocketIsText
    <3>2. (socket \o <<":">>) \o rest = socket \o (<<":">> \o rest)
      <4>1. SameJoined(socket, <<":">>, rest)
        BY <1>1, <3>1, Regroup
      <4>. QED  BY <4>1 DEF SameJoined
    <3>3. <<":">> \o rest \in Text
      BY <1>1, <3>1, TextAlgebra
    <3>. QED  BY <1>10, <2>1, <3>2, <3>3
  <2>2. CASE rest = <<>> /\ src = socket
    <3>1. marks = {}
      <4>1. Len(rest) = 0
        BY <2>2
      <4>2. \A k \in 1..Len(rest) : rest[k] # "?"
        BY <4>1
      <4>. QED  BY <1>1, <1>7, <4>2, NoPlace
    <3>2. p = <<>> /\ q = <<>>
      BY <1>8, <1>9, <2>2, <3>1
    <3>3. <<>> \in Text /\ socket \o <<>> = socket
      BY <1>1, TextAlgebra
    <3>. QED  BY <2>2, <3>2, <3>3
  <2>. QED  BY <2>1, <2>2 DEF UnixTexts
<1>12. Unix!Parsed(src) = [scheme |-> s, host |-> z, path |-> p, query |-> q]
  <2>1. PutTogether(src, s, z, p, q)
    BY <1>5, <1>6, <1>10, <1>11 DEF PutTogether, Follows
  <2>. QED  BY <1>5, <1>10, <2>1, UnixReads
<1>13. path = p /\ query = q
  BY <1>12 DEF Unix!New
<1>14. IsBare(rest) <=> ~Rooted(p)
  BY <1>1, <1>10, BareIsUnrooted
<1>15. src \in Text
  BY <1>1, <1>11, TextAlgebra
<1>16. UnixForm
  BY <1>15, UnixNew
<1>. QED  BY <1>10, <1>13, <1>14, <1>16

LEMMA BothBegin ==
  ASSUME Init
  PROVE  IInv /\ Inner!Parts!Init
<1>1. CASE /\ builders = {"TcpBased"}
           /\ \E src \in Starts : Tcp!New(src)
           /\ alike = FALSE
  <2>1. PICK src \in Starts : Tcp!New(src)
    BY <1>1
  <2>2. src \in Inner!Text /\ Inner!New(src)
    BY <2>1, TcpNew, SameInputs, UrlBuilderAssumption
  <2>3. Inner!InOrder /\ Inner!InForm /\ Inner!Parts!Init
    BY <2>2, Inner!NewInOrder
  <2>4. ~HasTwin
    BY <1>1 DEF HasTwin
  <2>. QED  BY <1>1, <2>3, <2>4 DEF IInv
<1>2. CASE /\ builders = {"TcpBased", "UnixSocketBased"}
           /\ \E rest \in Rests, socket \in Sockets : \E src \in UnixTexts(socket, rest) :
                /\ Tcp!New(TcpText(rest)) /\ Unix!New(src)
                /\ bare = IsBare(rest) /\ alike = ~IsBare(rest)
  <2>1. PICK rest \in Rests, socket \in Sockets :
          \E src \in UnixTexts(socket, rest) :
            Tcp!New(TcpText(rest)) /\ Unix!New(src) /\ bare = IsBare(rest)
    BY <1>2
  <2>2. PICK t : t = TcpText(rest)
    OBVIOUS
  <2>3. t \in Text
    <3>1. "a" \in Char
      BY DEF Char, SchemeChar, Letters
    <3>2. <<"a">> \in Text /\ rest \in Text
      BY <3>1, TextAlgebra, UrlBuilderAssumption
    <3>. QED  BY <2>2, <3>2, TextAlgebra DEF TcpText
  <2>4. t \in Inner!Text /\ Inner!New(t)
    BY <2>1, <2>2, <2>3, TcpNew, SameInputs
  <2>5. Inner!InOrder /\ Inner!InForm /\ Inner!Parts!Init
    BY <2>4, Inner!NewInOrder
  <2>6. TwinForm
    <3>1. PICK src \in UnixTexts(socket, rest) : Unix!New(src) /\ bare = IsBare(rest)
      BY <2>1
    <3>. QED  BY <3>1, TwinBegins DEF TwinForm
  <2>7. HasTwin
    BY <1>2 DEF HasTwin
  <2>. QED  BY <1>2, <2>5, <2>6, <2>7 DEF IInv
<1>. QED  BY <1>1, <1>2 DEF Init

\* What every step does: the invariant stays, the head of the url and the socket stay, and one part
\* of UrlParts grows.
Kept ==
  /\ IInv'
  /\ Inner!BaseStays /\ host' = host /\ builders' = builders
  /\ [Inner!Parts!Next]_(Inner!Parts!vars)

LEMMA SegmentKeeps ==
  ASSUME IInv, NEW segment \in Segments, AppendPathSegment(segment)
  PROVE  Kept
<1>1. Inner!AppendPathSegment(segment)
  BY TcpSegment DEF AppendPathSegment
<1>2. Inner!InOrder' /\ Inner!Parts!Segment(segment)
  BY <1>1, SameInputs, Inner!SegmentStep DEF IInv
<1>3. Inner!BaseStays /\ Inner!InForm'
  BY <1>1, SameInputs, Inner!SegmentKeepsForm DEF IInv
<1>4. [Inner!Parts!Next]_(Inner!Parts!vars)
  BY <1>2 DEF Inner!Parts!Next
<1>5. builders' = builders
  BY DEF AppendPathSegment
<1>6. host' = host
  BY DEF AppendPathSegment, Unix!AppendPathSegment, unixVars
<1>7. ASSUME HasTwin PROVE TwinForm'
  <2>1. Unix!AppendPathSegment(segment)
    BY <1>7 DEF AppendPathSegment
  <2>2. segment \in Text /\ UnixForm /\ (bare <=> ~Rooted(path))
    BY <1>7, UrlBuilderAssumption DEF IInv, TwinForm
  <2>3. UnixForm' /\ (Rooted(path') <=> Rooted(path))
    BY <2>1, <2>2, UnixSegment
  <2>4. bare' = bare
    BY DEF AppendPathSegment
  <2>. QED  BY <2>2, <2>3, <2>4 DEF TwinForm, Rooted
<1>8. alike' => HasTwin'
  BY <1>5 DEF AppendPathSegment, IInv, HasTwin
<1>9. IInv'
  BY <1>2, <1>3, <1>5, <1>7, <1>8 DEF IInv, HasTwin
<1>. QED  BY <1>3, <1>4, <1>5, <1>6, <1>9 DEF Kept

LEMMA ParamKeeps ==
  ASSUME IInv, NEW param \in Names, NEW v \in Values, AppendQueryParam(param, v)
  PROVE  Kept
<1>1. Inner!AppendQueryParam(param, v)
  BY TcpParam DEF AppendQueryParam
<1>2. Inner!InOrder' /\ Inner!Parts!Param(param, v)
  BY <1>1, SameInputs, Inner!ParamStep DEF IInv
<1>3. Inner!BaseStays /\ Inner!InForm'
  BY <1>1, SameInputs, Inner!ParamKeepsForm DEF IInv
<1>4. [Inner!Parts!Next]_(Inner!Parts!vars)
  BY <1>2 DEF Inner!Parts!Next
<1>5. builders' = builders
  BY DEF AppendQueryParam
<1>6. host' = host
  BY DEF AppendQueryParam, Unix!AppendQueryParam, unixVars
<1>7. ASSUME HasTwin PROVE TwinForm'
  <2>1. Unix!AppendQueryParam(param, v)
    BY <1>7 DEF AppendQueryParam
  <2>2. param \in Text /\ v \in Text \cup {NoValue} /\ UnixForm /\ (bare <=> ~Rooted(path))
    BY <1>7, UrlBuilderAssumption DEF IInv, TwinForm
  <2>3. UnixForm' /\ path' = path
    BY <2>1, <2>2, UnixParam
  <2>4. bare' = bare
    BY DEF AppendQueryParam, told
  <2>. QED  BY <2>2, <2>3, <2>4 DEF TwinForm, Rooted
<1>8. alike' => HasTwin'
  BY <1>5 DEF AppendQueryParam, told, IInv, HasTwin
<1>9. IInv'
  BY <1>2, <1>3, <1>5, <1>7, <1>8 DEF IInv, HasTwin
<1>. QED  BY <1>3, <1>4, <1>5, <1>6, <1>9 DEF Kept

LEMMA EndingKeeps ==
  ASSUME IInv, NEW raw_ending \in Endings, AppendRawEnding(raw_ending)
  PROVE  Kept
<1>1. Inner!AppendRawEnding(raw_ending)
  BY TcpEnding DEF AppendRawEnding
<1>2. Inner!InOrder' /\ Inner!Parts!Ending(raw_ending)
  BY <1>1, SameInputs, Inner!EndingStep DEF IInv
<1>3. Inner!BaseStays /\ Inner!InForm'
  BY <1>1, SameInputs, Inner!EndingKeepsForm DEF IInv
<1>4. [Inner!Parts!Next]_(Inner!Parts!vars)
  BY <1>2 DEF Inner!Parts!Next
<1>5. builders' = builders
  BY DEF AppendRawEnding
<1>6. host' = host
  BY DEF AppendRawEnding, Unix!AppendRawEnding, unixVars
<1>7. ASSUME HasTwin PROVE TwinForm'
  <2>1. Unix!AppendRawEnding(raw_ending)
    BY <1>7 DEF AppendRawEnding
  <2>2. raw_ending \in Text /\ UnixForm /\ (bare <=> ~Rooted(path))
    BY <1>7, UrlBuilderAssumption DEF IInv, TwinForm
  <2>3. UnixForm' /\ (~Rooted(path') <=> ~Rooted(path) \/ (path = <<>> /\ IsBare(raw_ending)))
    BY <2>1, <2>2, UnixEnding
  <2>4. bare' <=> bare \/ (path = <<>> /\ IsBare(raw_ending))
    BY <1>7 DEF AppendRawEnding
  <2>. QED  BY <2>2, <2>3, <2>4 DEF TwinForm, Rooted
<1>8. alike' => HasTwin'
  BY <1>5 DEF AppendRawEnding, IInv, HasTwin
<1>9. IInv'
  BY <1>2, <1>3, <1>5, <1>7, <1>8 DEF IInv, HasTwin
<1>. QED  BY <1>3, <1>4, <1>5, <1>6, <1>9 DEF Kept

LEMMA NothingKeeps ==
  ASSUME IInv, UNCHANGED vars
  PROVE  Kept
<1>1. UNCHANGED <<builders, value, host_index, port_index, path_index, query_index>>
  BY DEF vars
<1>2. UNCHANGED <<scheme, host, path, query, bare, alike>>
  BY DEF vars, unixVars, told
<1>3. Inner!InOrder'
  BY <1>1 DEF IInv, Inner!InOrder, Inner!EndOfHost, Inner!EndOfPath
<1>4. /\ Inner!GetSchemeAndHost' = Inner!GetSchemeAndHost /\ Inner!GetPath' = Inner!GetPath
      /\ Inner!GetQuery' = Inner!GetQuery
  BY <1>1 DEF Inner!GetSchemeAndHost, Inner!GetPath, Inner!GetQuery, Inner!EndOfHost
<1>5. Inner!Base' = Inner!Base /\ Inner!Path' = Inner!Path
  BY <1>1, <1>4 DEF Inner!Base, Inner!Path
<1>6. Inner!InForm' /\ Inner!BaseStays
  BY <1>1, <1>5 DEF IInv, Inner!InForm, Inner!BaseStays
<1>7. UNCHANGED Inner!Parts!vars
  BY <1>1, <1>4 DEF Inner!Parts!vars
<1>8. (HasTwin' => TwinForm') /\ (alike' => HasTwin')
  BY <1>1, <1>2 DEF IInv, HasTwin, TwinForm, UnixForm, Rooted
<1>9. IInv'
  BY <1>1, <1>3, <1>6, <1>8 DEF IInv
<1>. QED  BY <1>1, <1>2, <1>6, <1>7, <1>9 DEF Kept

LEMMA StepKeeps == IInv /\ [Next]_vars => Kept
<1>. SUFFICES ASSUME IInv, [Next]_vars PROVE Kept
  OBVIOUS
<1>1. ASSUME NEW segment \in Segments, AppendPathSegment(segment) PROVE Kept
  BY <1>1, SegmentKeeps
<1>2. ASSUME NEW param \in Names, NEW v \in Values, AppendQueryParam(param, v) PROVE Kept
  BY <1>2, ParamKeeps
<1>3. ASSUME NEW raw_ending \in Endings, AppendRawEnding(raw_ending) PROVE Kept
  BY <1>3, EndingKeeps
<1>4. CASE UNCHANGED vars
  BY <1>4, NothingKeeps
<1>. QED  BY <1>1, <1>2, <1>3, <1>4 DEF Next

\* Whatever is appended to a builder, the parts of its url stay in order and in form.
THEOREM Invariance == Spec => []IInv
<1>1. Init => IInv
  BY BothBegin
<1>2. IInv /\ [Next]_vars => IInv'
  BY StepKeeps DEF Kept
<1>. QED  BY <1>1, <1>2, PTL DEF Spec

-----------------------------------------------------------------------------
(* The properties *)

\* What is written reads back as the same builder with the same parts, for either builder and
\* however long the calls go on: parsing to_string() again finds the indices kept by the calls.
THEOREM Rereads == Spec => []ReadsBackTheSame
<1>1. IInv => ReadsBackTheSame
  <2>. SUFFICES ASSUME IInv PROVE ReadsBackTheSame
    OBVIOUS
  <2>1. Tcp!ReadsBackTheSame
    BY Inner!FormReadsBack, TcpReadsBack DEF IInv
  <2>2. ASSUME HasTwin PROVE Unix!ReadsBackTheSame
    BY <2>2, UnixReadsBack DEF IInv, TwinForm
  <2>3. ~IsUnixSocket(value) /\ ~Tcp!IsUnixSocketScheme
    <3>1. ~Tcp!IsUnixSocket(value) /\ ~Tcp!IsUnixSocketScheme
      BY <2>1 DEF Tcp!ReadsBackTheSame
    <3>2. Tcp!IsUnixSocket(value) <=> IsUnixSocket(value)
      BY DEF Tcp!IsUnixSocket, IsUnixSocket, Tcp!StartsWith, StartsWith, Tcp!Upto, Upto,
             Tcp!HasUnixScheme, HasUnixScheme, Tcp!Places, Places, Tcp!IsUnixScheme, IsUnixScheme,
             Tcp!Behind, Behind
    <3>. QED  BY <3>1, <3>2
  <2>4. ASSUME HasTwin PROVE IsUnixSocket(Unix!Written)
    BY <2>2, <2>4, UnixWords DEF Unix!ReadsBackTheSame
  <2>5. ASSUME NEW b \in builders
        PROVE  /\ IsUnixSocket(Written(b)) <=> IsUnixSocketBased(b)
               /\ GetSchemeIsUnix(b) <=> IsUnixSocketBased(b)
    <3>1. CASE b = "TcpBased"
      BY <2>3, <3>1 DEF Written, GetSchemeIsUnix, IsUnixSocketBased
    <3>2. CASE b = "UnixSocketBased"
      BY <2>4, <3>2 DEF Written, GetSchemeIsUnix, IsUnixSocketBased, HasTwin
    <3>. QED  BY <3>1, <3>2 DEF IInv
  <2>. QED  BY <2>1, <2>2, <2>5 DEF ReadsBackTheSame
<1>. QED  BY <1>1, Invariance, PTL

\* In the target of either builder PathAndQueryReader finds the path and the query the getters give,
\* and takes that path for its own, whatever texts the builder was begun with and given; and the
\* target is in origin form but for a unix socket whose path was begun without a slash.
THEOREM TargetFound == Spec => []TargetReadsBack
<1>1. ASSUME IInv
      PROVE  /\ Tcp!IsReadBack(Tcp!GetPathAndQuery, Tcp!GetPath, Tcp!GetQuery)
             /\ StartsWith(Tcp!GetPathAndQuery, <<"/">>)
  <2>1. /\ Inner!IsReadBack(Inner!GetPathAndQuery, Inner!GetPath, Inner!GetQuery)
        /\ Inner!StartsWith(Inner!GetPathAndQuery, <<"/">>)
    BY <1>1, Inner!FormTargetReadsBack DEF IInv
  <2>. QED  BY <2>1, TcpGetters, TcpIsReadBack, InnerStarts
<1>2. ASSUME TwinForm
      PROVE  /\ Tcp!IsReadBack(Unix!GetPathAndQuery, Unix!GetPath, Unix!GetQuery)
             /\ StartsWith(Unix!GetPathAndQuery, <<"/">>) <=> ~bare
  <2>1. PICK p : p = Unix!GetPath
    OBVIOUS
  <2>2. PICK q : q = query
    OBVIOUS
  <2>3. path \in Text /\ q \in Text /\ Places(path, "?") = {} /\ (q # <<>> => q[1] = "?")
    BY <1>2, <2>2 DEF TwinForm, UnixForm, RestForm
  <2>4. p \in Text /\ p # <<>> /\ (p[1] = "/" <=> Rooted(path)) /\ Places(p, "?") = {}
    <3>1. CASE path = <<>>
      <4>1. p = <<"/">>
        BY <2>1, <3>1 DEF Unix!GetPath
      <4>2. p \in Text /\ Len(p) = 1 /\ p[1] = "/"
        BY <4>1, SlashIsText, TextAlgebra
      <4>3. p # <<>> /\ \A k \in 1..Len(p) : p[k] # "?"
        BY <4>2
      <4>. QED  BY <3>1, <4>2, <4>3, NoPlace DEF Rooted
    <3>2. CASE path # <<>>
      <4>1. p = path
        BY <2>1, <3>2 DEF Unix!GetPath
      <4>. QED  BY <2>3, <3>2, <4>1 DEF Rooted
    <3>. QED  BY <3>1, <3>2
  <2>5. p \in Inner!Text /\ Inner!Places(p, "?") = {} /\ q \in Inner!Text
    BY <2>3, <2>4, SameInputs DEF Inner!Places, Places
  <2>6. Unix!GetPathAndQuery = p \o q
    BY <2>1, <2>2 DEF Unix!GetPathAndQuery
  <2>7. bare <=> p[1] # "/"
    BY <1>2, <2>4 DEF TwinForm
  <2>8. CASE q = <<>>
    <3>1. p \o q = p /\ Unix!GetQuery = NoQuery
      BY <2>2, <2>4, <2>8, TextAlgebra DEF Unix!GetQuery
    <3>2. Inner!IsReadBack(p, p, NoQuery) /\ (StartsWith(p, <<"/">>) <=> p[1] = "/")
      BY <2>4, <2>5, Inner!ReadBackParts, InnerStarts
    <3>. QED  BY <2>1, <2>6, <2>7, <3>1, <3>2, TcpIsReadBack
  <2>9. CASE q # <<>>
    <3>1. /\ Inner!IsReadBack(p \o q, p, Inner!Behind(q, 1))
          /\ StartsWith(p \o q, <<"/">>) <=> p[1] = "/"
      BY <2>3, <2>4, <2>5, <2>9, Inner!ReadBackParts, InnerStarts
    <3>2. Unix!GetQuery = Inner!Behind(q, 1)
      BY <2>2, <2>9 DEF Unix!GetQuery, Inner!Behind
    <3>. QED  BY <2>1, <2>6, <2>7, <3>1, <3>2, TcpIsReadBack
  <2>. QED  BY <2>8, <2>9
<1>3. IInv => TargetReadsBack
  <2>. SUFFICES ASSUME IInv, NEW b \in builders
                PROVE  /\ Tcp!IsReadBack(GetPathAndQuery(b), GetPath(b), GetQuery(b))
                       /\ StartsWith(GetPathAndQuery(b), <<"/">>) <=> ~(IsUnixSocketBased(b) /\ bare)
    BY DEF TargetReadsBack
  <2>1. CASE b = "TcpBased"
    BY <1>1, <2>1 DEF GetPathAndQuery, GetPath, GetQuery, IsUnixSocketBased
  <2>2. CASE b = "UnixSocketBased"
    <3>1. TwinForm
      BY <2>2 DEF IInv, HasTwin
    <3>. QED  BY <1>2, <2>2, <3>1 DEF GetPathAndQuery, GetPath, GetQuery, IsUnixSocketBased
  <2>. QED  BY <2>1, <2>2 DEF IInv
<1>. QED  BY <1>3, Invariance, PTL

\* Nothing that is appended, raw text included, moves the host, the port or the socket a connection
\* is made to.
THEOREM HostIsKept == Spec => ConnectionStays
<1>1. ASSUME IInv, [Next]_vars
      PROVE  [\A b \in builders :
                /\ GetHost(b)' = GetHost(b) /\ GetHostPort(b)' = GetHostPort(b)
                /\ GetSchemeAndHost(b)' = GetSchemeAndHost(b)]_vars
  <2>1. Kept
    BY <1>1, StepKeeps
  <2>2. /\ Inner!GetHost' = Inner!GetHost /\ Inner!GetHostPort' = Inner!GetHostPort
        /\ Inner!GetSchemeAndHost' = Inner!GetSchemeAndHost
    BY <1>1, <2>1, Inner!HostStays DEF Kept, IInv
  <2>3. /\ Tcp!GetHost' = Tcp!GetHost /\ Tcp!GetHostPort' = Tcp!GetHostPort
        /\ Tcp!GetSchemeAndHost' = Tcp!GetSchemeAndHost
    BY <2>2, TcpGetters
  <2>4. Unix!GetHost' = Unix!GetHost
    BY <2>1 DEF Kept, Unix!GetHost
  <2>. QED  BY <2>3, <2>4 DEF GetHost, GetHostPort, GetSchemeAndHost
<1>. QED  BY <1>1, Invariance, PTL DEF Spec, ConnectionStays

\* Seen through its getters the TCP builder, alone or with a twin, is the abstract url of three parts.
THEOREM PromiseKept == Spec => PartsSpec
<1>1. Init => Tcp!Parts!Init
  <2>1. Init => Inner!Parts!Init
    BY BothBegin
  <2>2. Inner!Parts!Init => Tcp!Parts!Init
    BY TcpParts
  <2>. QED  BY <2>1, <2>2
<1>2. IInv /\ [Next]_vars => [Tcp!Parts!Next]_(Tcp!Parts!vars)
  BY StepKeeps, TcpParts DEF Kept
<1>. QED  BY <1>1, <1>2, Invariance, PTL DEF Spec, PartsSpec, Tcp!PartsSpec, Tcp!Parts!Spec

-----------------------------------------------------------------------------
(* Parity *)

\* The words of the promise are those of this module.
LEMMA PartsAreWritten ==
  /\ \A t : Inner!Parts!WithSlash(t) = IF EndsWithSlash(t) THEN t ELSE Append(t, "/")
  /\ \A t : Inner!Parts!EncodePathSegment(t) = EncodePathSegment(t)
  /\ \A t : Inner!Parts!StripSlash(t) = StripSlash(t)
  /\ \A name, v : Inner!Parts!Pair(name, v) = Pair(name, v)
  /\ \A t, n : Inner!Parts!Upto(t, n) = Upto(t, n) /\ Inner!Parts!Behind(t, n) = Behind(t, n)
  /\ \A t, c : Inner!Parts!Places(t, c) = Places(t, c)
  /\ \A S : Inner!Parts!Min(S) = Min(S)
<1>1. Inner!Parts!PathSafe = PathSafe /\ Inner!Parts!QuerySafe = QuerySafe
  BY DEF Inner!Parts!PathSafe, PathSafe, Inner!Parts!QuerySafe, QuerySafe, Inner!Parts!Char, Char,
         Inner!Parts!SchemeChar, SchemeChar, Inner!Parts!Letters, Letters
<1>2. \A t : Inner!Parts!EncodeUrlString(t) = EncodeUrlString(t)
  BY <1>1 DEF Inner!Parts!EncodeUrlString, EncodeUrlString
<1>3. \A name, v : Inner!Parts!Pair(name, v) = Pair(name, v)
  BY <1>2 DEF Inner!Parts!Pair, Pair
<1>4. \A t, n : Inner!Parts!Upto(t, n) = Upto(t, n) /\ Inner!Parts!Behind(t, n) = Behind(t, n)
  BY DEF Inner!Parts!Upto, Upto, Inner!Parts!Behind, Behind
<1>5. \A t : Inner!Parts!StripSlash(t) = StripSlash(t)
  BY <1>4 DEF Inner!Parts!StripSlash, StripSlash, Inner!Parts!StartsWith, StartsWith
<1>6. \A t : Inner!Parts!EncodePathSegment(t) = EncodePathSegment(t)
  BY <1>1 DEF Inner!Parts!EncodePathSegment, EncodePathSegment
<1>7. \A t, c : Inner!Parts!Places(t, c) = Places(t, c)
  BY DEF Inner!Parts!Places, Places
<1>8. \A S : Inner!Parts!Min(S) = Min(S)
  BY DEF Inner!Parts!Min, Min
<1>9. \A t : Inner!Parts!WithSlash(t) = IF EndsWithSlash(t) THEN t ELSE Append(t, "/")
  BY DEF Inner!Parts!WithSlash, Inner!Parts!EndsWithSlash, EndsWithSlash
<1>. QED  BY <1>3, <1>4, <1>5, <1>6, <1>7, <1>8, <1>9

LEMMA TailBehind ==
  ASSUME NEW t \in Text, t # <<>>
  PROVE  Tail(t) \in Text /\ Tail(t) = Behind(t, 1) /\ t = <<t[1]>> \o Tail(t)
<1>1. PICK n \in Nat : n = Len(t) /\ n # 0
  BY Lengths, EmptySeq DEF Text
<1>2. PICK u : u = Tail(t)
  OBVIOUS
<1>3. u \in Text /\ Len(u) = n - 1 /\ \A k \in 1..(n - 1) : u[k] = t[k + 1]
  BY <1>1, <1>2, Inner!TailIs, SameInputs
<1>4. 1 \in Nat /\ 1 <= Len(t)
  BY <1>1
<1>5. u = Behind(t, 1)
  <2>1. PICK v : v = Behind(t, 1)
    OBVIOUS
  <2>2. IsCut(v, t, 1, n)
    BY <1>1, <1>4, <2>1, CutBehind
  <2>3. v \in Text /\ Len(v) = n - 1 /\ \A k \in 1..(n - 1) : v[k] = t[1 + k]
    BY <2>2 DEF IsCut
  <2>4. ASSUME NEW k \in 1..(n - 1) PROVE u[k] = v[k]
    <3>1. k + 1 = 1 + k
      OBVIOUS
    <3>. QED  BY <1>3, <2>3, <3>1
  <2>. QED  BY <1>3, <2>1, <2>3, <2>4, SameText
<1>6. PICK c \in Char : c = t[1]
  BY <1>1, ElementOfSeq DEF Text
<1>7. PICK h \in Text : h = <<c>> /\ Len(h) = 1 /\ h[1] = c
  BY TextAlgebra
<1>8. PICK w : w = h \o u
  OBVIOUS
<1>9. w \in Text /\ Len(w) = n /\ w[1] = c /\ \A k \in 1..(n - 1) : w[1 + k] = u[k]
  <2>1. IsGlued(w, h, u)
    BY <1>3, <1>8, Glue
  <2>. QED  BY <1>1, <1>3, <1>7, <2>1 DEF IsGlued
<1>10. ASSUME NEW k \in 1..n PROVE w[k] = t[k]
  <2>1. CASE k = 1
    BY <1>6, <1>9, <2>1
  <2>2. CASE k # 1
    <3>1. k - 1 \in 1..(n - 1) /\ 1 + (k - 1) = k /\ (k - 1) + 1 = k
      BY <2>2
    <3>. QED  BY <1>3, <1>9, <3>1
  <2>. QED  BY <2>1, <2>2
<1>11. w = t
  BY <1>1, <1>9, <1>10, SameText
<1>. QED  BY <1>2, <1>3, <1>5, <1>6, <1>7, <1>8, <1>11

LEMMA TailOfBoth ==
  ASSUME NEW s \in Text, NEW t \in Text, s # <<>>
  PROVE  s \o t # <<>> /\ Tail(s \o t) = Tail(s) \o t
<1>1. PICK w \in Text : w = s \o t
  BY TextAlgebra
<1>2. w # <<>>
  BY <1>1, FirstOfBoth
<1>3. Tail(w) = Behind(w, 1) /\ Tail(s) = Behind(s, 1) /\ Tail(w) \in Text /\ Tail(s) \in Text
  BY <1>2, TailBehind
<1>4. PICK a \in Text : a = Tail(s)
  BY <1>3
<1>5. s = <<s[1]>> \o a
  BY <1>4, TailBehind
<1>6. PICK c \in Char : c = s[1]
  <2>1. 1 \in 1..Len(s)
    BY Lengths, EmptySeq DEF Text
  <2>. QED  BY <2>1, ElementOfSeq DEF Text
<1>7. PICK h \in Text : h = <<c>> /\ Len(h) = 1
  BY TextAlgebra
<1>8. s = h \o a
  BY <1>5, <1>6, <1>7
<1>9. SameJoined(h, a, t)
  BY Regroup
<1>10. PICK b \in Text : b = a \o t
  BY TextAlgebra
<1>11. w = h \o b
  BY <1>1, <1>8, <1>9, <1>10 DEF SameJoined
<1>12. Behind(w, 1) = b
  BY <1>7, <1>11, UptoFront
<1>. QED  BY <1>1, <1>2, <1>3, <1>4, <1>10, <1>12

\* What twins have in common that were told only what both take alike: the path and the query.
Agree == alike => Inner!Path = path /\ Inner!GetQuery = Unix!GetQuery

LEMMA TcpBegins ==
  ASSUME NEW rest \in Rests, NEW p, NEW q, AtMark(rest, p, q), Rooted(p), Tcp!New(TcpText(rest))
  PROVE  Inner!Path = p /\ Inner!GetQuery = IF q = <<>> THEN NoQuery ELSE Tail(q)
<1>1. rest \in Text
  BY UrlBuilderAssumption
<1>2. p \in Text /\ q \in Text /\ RestForm(p, q) /\ rest = p \o q
  BY <1>1, CutAtMark
<1>3. PICK src : src = <<"a">> \o (p \o q)
  OBVIOUS
<1>4. Inner!New(src)
  BY <1>2, <1>3, TcpNew DEF TcpText
<1>5. \A t, c : Inner!Places(t, c) = Places(t, c)
  BY DEF Inner!Places, Places
<1>6. \A t, n : Inner!Behind(t, n) = Behind(t, n)
  BY DEF Inner!Behind, Behind
<1>7. Inner!PathForm(p) /\ Inner!Places(p, "?") = {} /\ (q # <<>> => q[1] = "?")
  BY <1>2, <1>5 DEF Inner!PathForm, Rooted, RestForm
<1>8. Inner!Path = p /\ Inner!GetQuery = IF q = <<>> THEN NoQuery ELSE Inner!Behind(q, 1)
  BY <1>2, <1>3, <1>4, <1>7, SameInputs, Inner!NewBehindHost
<1>. QED  BY <1>2, <1>6, <1>8, TailBehind

LEMMA BeginAgree == Init => Agree
<1>. SUFFICES ASSUME Init, alike
              PROVE  Inner!Path = path /\ Inner!GetQuery = Unix!GetQuery
  BY DEF Agree
<1>1. PICK rest \in Rests, socket \in Sockets :
        \E src \in UnixTexts(socket, rest) :
          Tcp!New(TcpText(rest)) /\ Unix!New(src) /\ alike = ~IsBare(rest)
  BY DEF Init
<1>2. PICK src \in UnixTexts(socket, rest) :
        Tcp!New(TcpText(rest)) /\ Unix!New(src) /\ alike = ~IsBare(rest)
  BY <1>1
<1>3. AtMark(rest, path, query) /\ Rooted(path)
  BY <1>2, TwinBegins
<1>4. Inner!Path = path /\ Inner!GetQuery = IF query = <<>> THEN NoQuery ELSE Tail(query)
  BY <1>2, <1>3, TcpBegins
<1>. QED  BY <1>4 DEF Unix!GetQuery

\* The twin's query is text behind its mark, and its path is text.
LEMMA TwinView ==
  ASSUME IInv, alike, Agree
  PROVE  /\ HasTwin /\ path \in Text /\ query \in Text /\ Inner!Path = path
         /\ Inner!GetQuery = IF query = <<>> THEN NoQuery ELSE Tail(query)
         /\ Inner!GetQuery = NoQuery <=> query = <<>>
<1>1. HasTwin /\ path \in Text /\ query \in Text
  BY DEF IInv, TwinForm, UnixForm
<1>2. Inner!Path = path /\ Inner!GetQuery = IF query = <<>> THEN NoQuery ELSE Tail(query)
  BY DEF Agree, Unix!GetQuery
<1>3. query # <<>> => Tail(query) \in Text
  BY <1>1, TailBehind
<1>. QED  BY <1>1, <1>2, <1>3, UrlBuilderAssumption

LEMMA SegmentAgrees ==
  ASSUME IInv, Agree, NEW segment \in Segments, AppendPathSegment(segment)
  PROVE  Agree'
<1>. SUFFICES ASSUME alike'
              PROVE  Inner!Path' = path' /\ Inner!GetQuery' = Unix!GetQuery'
  BY DEF Agree
<1>1. alike /\ ~EndsWithSlash(path)
  BY DEF AppendPathSegment
<1>2. HasTwin /\ Inner!Path = path
  BY <1>1, TwinView
<1>3. PICK e : e = EncodePathSegment(StripSlash(segment))
  OBVIOUS
<1>4. Inner!Parts!Segment(segment)
  <2>1. Inner!AppendPathSegment(segment)
    BY TcpSegment DEF AppendPathSegment
  <2>. QED  BY <2>1, SameInputs, Inner!SegmentStep DEF IInv
<1>5. Inner!Path' = Append(path, "/") \o e /\ Inner!GetQuery' = Inner!GetQuery
  BY <1>1, <1>2, <1>3, <1>4, PartsAreWritten DEF Inner!Parts!Segment, Inner!Path
<1>6. path' = Append(path, "/") \o e /\ query' = query
  BY <1>2, <1>3, UnixWords DEF AppendPathSegment, Unix!AppendPathSegment
<1>7. Inner!GetQuery' = Unix!GetQuery'
  BY <1>1, <1>5, <1>6 DEF Agree, Unix!GetQuery
<1>. QED  BY <1>5, <1>6, <1>7

LEMMA ParamAgrees ==
  ASSUME IInv, Agree, NEW param \in Names, NEW v \in Values, AppendQueryParam(param, v)
  PROVE  Agree'
<1>. SUFFICES ASSUME alike'
              PROVE  Inner!Path' = path' /\ Inner!GetQuery' = Unix!GetQuery'
  BY DEF Agree
<1>0. alike /\ HasTwin
  <2>1. alike
    BY DEF AppendQueryParam, told
  <2>. QED  BY <2>1, TwinView
<1>1. PICK q \in Text : q = query
  BY <1>0, TwinView
<1>2. Inner!GetQuery = (IF q = <<>> THEN NoQuery ELSE Tail(q)) /\ (Inner!GetQuery = NoQuery <=> q = <<>>)
  BY <1>0, <1>1, TwinView
<1>3. PICK e \in Text : e = Pair(param, v)
  BY UrlBuilderAssumption, PairIsText
<1>4. Inner!Parts!Param(param, v)
  <2>1. Inner!AppendQueryParam(param, v)
    BY TcpParam DEF AppendQueryParam
  <2>. QED  BY <2>1, SameInputs, Inner!ParamStep DEF IInv
<1>5. /\ Inner!Path' = Inner!Path
      /\ Inner!GetQuery' = IF Inner!GetQuery = NoQuery THEN e ELSE Append(Inner!GetQuery, "&") \o e
  BY <1>3, <1>4, PartsAreWritten DEF Inner!Parts!Param, Inner!Path
<1>6. path' = path /\ query' = Append(q, IF q = <<>> THEN "?" ELSE "&") \o e
  BY <1>0, <1>1, <1>3, UnixWords DEF AppendQueryParam, Unix!AppendQueryParam
<1>7. query' # <<>> /\ Tail(query') = Inner!GetQuery'
  <2>1. CASE q = <<>>
    <3>1. PICK m \in Text : m = <<"?">> /\ Len(m) = 1
      BY SlashIsText, TextAlgebra
    <3>2. query' = m \o e /\ m # <<>>
      BY <1>6, <2>1, <3>1
    <3>3. Tail(m) = <<>>
      BY <3>1
    <3>4. Tail(m) \o e = e
      BY <3>3, TextAlgebra
    <3>. QED  BY <1>2, <1>5, <2>1, <3>2, <3>4, TailOfBoth
  <2>2. CASE q # <<>>
    <3>1. PICK m \in Text : m = <<"&">>
      BY SlashIsText, TextAlgebra
    <3>2. Tail(q) \in Text
      BY <2>2, TailBehind
    <3>3. Append(q, "&") = q \o m /\ Append(Tail(q), "&") = Tail(q) \o m
      BY <3>1, <3>2, SlashIsText, TextAlgebra
    <3>4. PICK n \in Text : n = q \o m
      BY TextAlgebra
    <3>5. n # <<>> /\ Tail(n) = Tail(q) \o m
      BY <2>2, <3>4, TailOfBoth
    <3>6. query' = n \o e
      BY <1>6, <2>2, <3>3, <3>4
    <3>7. query' # <<>> /\ Tail(query') = Tail(n) \o e
      BY <3>5, <3>6, TailOfBoth
    <3>. QED  BY <1>2, <1>5, <2>2, <3>3, <3>5, <3>7
  <2>. QED  BY <2>1, <2>2
<1>8. Inner!GetQuery' = Unix!GetQuery'
  BY <1>7 DEF Unix!GetQuery
<1>. QED  BY <1>0, <1>5, <1>6, <1>8, TwinView

\* A raw ending that begins with a slash, cut at its mark or not.
LEMMA EndingCut ==
  ASSUME NEW raw \in Text, StartsWith(raw, <<"/">>), NEW e, e = StripSlash(raw), NEW m, m = Places(e, "?")
  PROVE  /\ e \in Text /\ raw = <<"/">> \o e
         /\ m = {} => Places(raw, "?") = {}
         /\ m # {} => /\ Upto(e, Min(m)) \in Text
                      /\ Places(raw, "?") # {}
                      /\ Upto(raw, Min(Places(raw, "?"))) = <<"/">> \o Upto(e, Min(m))
                      /\ Behind(raw, Min(Places(raw, "?"))) # <<>>
                      /\ Tail(Behind(raw, Min(Places(raw, "?")))) = Behind(e, Min(m) + 1)
<1>1. "/" \in Char /\ <<"/">> \in Text /\ Len(<<"/">>) = 1 /\ <<"/">>[1] = "/"
  BY SlashIsText, TextAlgebra
<1>2. raw # <<>> /\ raw[1] = "/" /\ e = Tail(raw)
  BY <1>1, BeginsWithOne DEF StripSlash
<1>3. e \in Text /\ raw = <<"/">> \o e
  BY <1>2, TailBehind
<1>4. PICK h \in Text : h = <<"/">> /\ Places(h, "?") = {}
  <2>1. \A k \in 1..Len(<<"/">>) : <<"/">>[k] # "?"
    BY <1>1
  <2>. QED  BY <1>1, <2>1, NoPlace
<1>5. m = {} => Places(raw, "?") = {}
  BY <1>3, <1>4, NoPlaceInBoth
<1>6. ASSUME m # {}
      PROVE  /\ Upto(e, Min(m)) \in Text
             /\ Places(raw, "?") # {}
             /\ Upto(raw, Min(Places(raw, "?"))) = <<"/">> \o Upto(e, Min(m))
             /\ Behind(raw, Min(Places(raw, "?"))) # <<>>
             /\ Tail(Behind(raw, Min(Places(raw, "?")))) = Behind(e, Min(m) + 1)
  <2>1. PICK n : n = Min(m)
    OBVIOUS
  <2>2. n \in Nat /\ n < Len(e) /\ e[n + 1] = "?" /\ Upto(e, n) \in Text /\ Places(Upto(e, n), "?") = {}
    BY <1>3, <1>6, <2>1, NoneBefore
  <2>3. PICK x \in Text : x = Upto(e, n) /\ Places(x, "?") = {}
    BY <2>2
  <2>4. n <= Len(e) /\ Len(e) \in Nat
    BY <1>3, <2>2, Lengths
  <2>5. PICK y \in Text : y = Behind(e, n) /\ e = x \o y
    BY <1>3, <2>2, <2>3, <2>4, InTwo
  <2>6. y # <<>> /\ y[1] = "?"
    <3>1. IsCut(y, e, n, Len(e))
      BY <1>3, <2>2, <2>4, <2>5, CutBehind
    <3>2. 1 \in 1..(Len(e) - n) /\ Len(y) # 0
      BY <2>2, <2>4, <3>1 DEF IsCut
    <3>3. y[1] = e[n + 1]
      BY <3>1, <3>2 DEF IsCut
    <3>. QED  BY <2>2, <3>2, <3>3, EmptySeq DEF Text
  <2>7. PICK s \in Text : s = h \o x /\ Places(s, "?") = {}
    BY <1>4, <2>3, TextAlgebra, NoPlaceInBoth
  <2>8. raw = s \o y
    <3>1. SameJoined(h, x, y)
      BY Regroup
    <3>. QED  BY <1>3, <1>4, <2>5, <2>7, <3>1 DEF SameJoined
  <2>9. /\ Places(raw, "?") # {} /\ Min(Places(raw, "?")) = Len(s)
        /\ Upto(raw, Len(s)) = s /\ Behind(raw, Len(s)) = y
    BY <2>6, <2>7, <2>8, CutAtFirst
  <2>10. Min(m) = Len(x) /\ Behind(e, Len(x) + 1) = Behind(y, 1)
    <3>1. Min(Places(x \o y, "?")) = Len(x) /\ Behind(x \o y, Len(x) + 1) = Behind(y, 1)
      BY <2>3, <2>6, CutAtFirst
    <3>. QED  BY <2>5, <3>1
  <2>11. Tail(y) = Behind(y, 1)
    BY <2>6, TailBehind
  <2>. QED  BY <1>4, <2>1, <2>2, <2>3, <2>6, <2>7, <2>9, <2>10, <2>11
<1>. QED  BY <1>3, <1>5, <1>6

LEMMA EndingAgrees ==
  ASSUME IInv, Agree, NEW raw_ending \in Endings, AppendRawEnding(raw_ending)
  PROVE  Agree'
<1>. SUFFICES ASSUME alike'
              PROVE  Inner!Path' = path' /\ Inner!GetQuery' = Unix!GetQuery'
  BY DEF Agree
<1>1. alike /\ query = <<>> /\ StartsWith(raw_ending, <<"/">>) /\ ~EndsWithSlash(path)
  BY DEF AppendRawEnding
<1>2. PICK p \in Text : p = path /\ p = Inner!Path
  BY <1>1, TwinView
<1>3. PICK raw \in Text : raw = raw_ending
  BY UrlBuilderAssumption
<1>4. HasTwin /\ Inner!GetQuery = NoQuery /\ StartsWith(raw, <<"/">>)
  BY <1>1, <1>3, TwinView
<1>5. PICK e : e = StripSlash(raw)
  OBVIOUS
<1>6. PICK m : m = Places(e, "?")
  OBVIOUS
<1>7. PICK n : n = Places(raw, "?")
  OBVIOUS
<1>8. /\ e \in Text /\ raw = <<"/">> \o e
      /\ m = {} => n = {}
      /\ m # {} => /\ Upto(e, Min(m)) \in Text
                   /\ n # {} /\ Upto(raw, Min(n)) = <<"/">> \o Upto(e, Min(m))
                   /\ Behind(raw, Min(n)) # <<>>
                   /\ Tail(Behind(raw, Min(n))) = Behind(e, Min(m) + 1)
  BY <1>4, <1>5, <1>6, <1>7, EndingCut
<1>9. PICK a : a = Append(p, "/")
  OBVIOUS
<1>10. Inner!Parts!Ending(raw_ending)
  <2>1. Inner!AppendRawEnding(raw_ending)
    BY TcpEnding DEF AppendRawEnding
  <2>. QED  BY <2>1, SameInputs, Inner!EndingStep DEF IInv
<1>11. \/ m = {} /\ Inner!Path' = a \o e /\ Inner!GetQuery' = NoQuery
       \/ /\ m # {} /\ Inner!Path' = a \o Upto(e, Min(m))
          /\ Inner!GetQuery' = Behind(e, Min(m) + 1)
  BY <1>1, <1>2, <1>3, <1>4, <1>5, <1>6, <1>9, <1>10, PartsAreWritten DEF Inner!Parts!Ending, Inner!Path
<1>12. \/ n = {} /\ path' = p \o raw /\ query' = <<>>
       \/ n # {} /\ path' = p \o Upto(raw, Min(n)) /\ query' = Behind(raw, Min(n))
  BY <1>1, <1>2, <1>3, <1>4, <1>7, UnixWords DEF AppendRawEnding, Unix!AppendRawEnding
<1>13. ASSUME NEW u \in Text PROVE a \o u = p \o (<<"/">> \o u)
  <2>1. PICK h \in Text : h = <<"/">> /\ Append(p, "/") = p \o h
    BY SlashIsText, TextAlgebra
  <2>2. SameJoined(p, h, u)
    BY Regroup
  <2>. QED  BY <1>9, <2>1, <2>2 DEF SameJoined
<1>14. CASE m = {}
  <2>1. Inner!Path' = a \o e /\ Inner!GetQuery' = NoQuery
    BY <1>11, <1>14
  <2>2. path' = p \o raw /\ query' = <<>>
    BY <1>8, <1>12, <1>14
  <2>3. Inner!Path' = path'
    BY <1>8, <1>13, <2>1, <2>2
  <2>. QED  BY <2>1, <2>2, <2>3 DEF Unix!GetQuery
<1>15. CASE m # {}
  <2>1. Inner!Path' = a \o Upto(e, Min(m)) /\ Inner!GetQuery' = Behind(e, Min(m) + 1)
    BY <1>11, <1>15
  <2>2. PICK u \in Text : u = Upto(e, Min(m))
    BY <1>8, <1>15
  <2>3. path' = p \o (<<"/">> \o u) /\ query' # <<>> /\ Tail(query') = Behind(e, Min(m) + 1)
    BY <1>8, <1>12, <1>15, <2>2
  <2>4. Inner!Path' = path'
    BY <1>13, <2>1, <2>2, <2>3
  <2>. QED  BY <2>1, <2>3, <2>4 DEF Unix!GetQuery
<1>. QED  BY <1>14, <1>15

LEMMA StepAgrees == IInv /\ Agree /\ [Next]_vars => Agree'
<1>. SUFFICES ASSUME IInv, Agree, [Next]_vars PROVE Agree'
  OBVIOUS
<1>1. ASSUME NEW segment \in Segments, AppendPathSegment(segment) PROVE Agree'
  BY <1>1, SegmentAgrees
<1>2. ASSUME NEW param \in Names, NEW v \in Values, AppendQueryParam(param, v) PROVE Agree'
  BY <1>2, ParamAgrees
<1>3. ASSUME NEW raw_ending \in Endings, AppendRawEnding(raw_ending) PROVE Agree'
  BY <1>3, EndingAgrees
<1>4. CASE UNCHANGED vars
  <2>1. UNCHANGED <<value, path_index, query_index, path, query, alike>>
    BY <1>4 DEF vars, unixVars, told
  <2>. QED  BY <2>1 DEF Agree, Inner!Path, Inner!GetPath, Inner!GetQuery, Unix!GetQuery
<1>. QED  BY <1>1, <1>2, <1>3, <1>4 DEF Next

\* The same calls, in whatever order, however many and with whatever texts, give a builder of a TCP
\* host and one of a unix socket the same path and the same query, as long as none of them is one the
\* two treat differently: alike tells which those are.
THEOREM SamePathAndQuery == Spec => []SameTarget
<1>1. Init => IInv /\ Agree
  BY BothBegin, BeginAgree
<1>2. IInv /\ Agree /\ [Next]_vars => IInv' /\ Agree'
  BY StepKeeps, StepAgrees DEF Kept
<1>3. IInv /\ Agree => SameTarget
  <2>. SUFFICES ASSUME IInv, Agree, alike
                PROVE  Tcp!GetPath = Unix!GetPath /\ Tcp!GetQuery = Unix!GetQuery
    BY DEF SameTarget, GetQuery, GetPath
  <2>1. PICK p \in Text : p = path /\ p = Inner!Path
    BY TwinView
  <2>2. Inner!GetPath = IF p = <<>> THEN <<"/">> ELSE p
    <3>1. CASE path_index = 0
      BY <2>1, <3>1 DEF Inner!Path, Inner!GetPath
    <3>2. CASE path_index # 0
      <4>1. Inner!EndOfHost < Inner!EndOfPath /\ Inner!EndOfHost \in Nat /\ Inner!EndOfPath \in Nat
        BY <3>2 DEF IInv, Inner!InOrder, Inner!EndOfHost
      <4>2. Inner!IsCut(p, value, Inner!EndOfHost, Inner!EndOfPath)
        BY <2>1, Inner!PathIsCut DEF IInv
      <4>3. Len(p) # 0
        BY <4>1, <4>2 DEF Inner!IsCut
      <4>4. p # <<>>
        BY <4>3
      <4>. QED  BY <2>1, <3>2, <4>4 DEF Inner!Path
    <3>. QED  BY <3>1, <3>2
  <2>3. Tcp!GetPath = Inner!GetPath /\ Tcp!GetQuery = Inner!GetQuery
    BY TcpGetters
  <2>4. Unix!GetPath = IF p = <<>> THEN <<"/">> ELSE p
    BY <2>1 DEF Unix!GetPath
  <2>5. Inner!GetQuery = Unix!GetQuery
    BY DEF Agree
  <2>. QED  BY <2>2, <2>3, <2>4, <2>5
<1>. QED  BY <1>1, <1>2, <1>3, PTL DEF Spec
=============================================================================
