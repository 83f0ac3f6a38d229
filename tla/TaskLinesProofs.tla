-------------------------- MODULE TaskLinesProofs --------------------------
(* Facts about lines of tasks, about histories, about folds and loops, for the proofs. *)
EXTENDS TaskLines, TLAPS, SequenceTheorems, WellFoundedInduction

\* A new task at the end of a line.
LEMMA JoinLine ==
  ASSUME NEW S, NEW line \in Seq(S), NEW x \in S
  PROVE  /\ Append(line, x) \in Seq(S)
         /\ Append(line, x) # <<>>
         /\ Elements(Append(line, x)) = Elements(line) \cup {x}
         /\ NoRepeat(line) /\ x \notin Elements(line) => NoRepeat(Append(line, x))
<1>1. /\ Append(line, x) \in Seq(S) /\ Len(Append(line, x)) = Len(line) + 1
      /\ \A k \in 1..Len(line) : Append(line, x)[k] = line[k]
      /\ Append(line, x)[Len(line) + 1] = x
  BY AppendProperties
<1>2. Elements(Append(line, x)) = Elements(line) \cup {x}
  BY <1>1 DEF Elements
<1>3. NoRepeat(line) /\ x \notin Elements(line) => NoRepeat(Append(line, x))
  BY <1>1 DEF Elements, NoRepeat
<1>. QED  BY <1>1, <1>2, <1>3

\* The first task leaves a line.
LEMMA LeaveFront ==
  ASSUME NEW S, NEW line \in Seq(S), line # <<>>
  PROVE  /\ Head(line) \in S /\ Tail(line) \in Seq(S)
         /\ Head(line) \in Elements(line)
         /\ Len(Tail(line)) = Len(line) - 1
         /\ NoRepeat(line) => /\ NoRepeat(Tail(line))
                              /\ Elements(Tail(line)) = Elements(line) \ {Head(line)}
<1>1. /\ Head(line) \in S /\ Tail(line) \in Seq(S) /\ Len(Tail(line)) = Len(line) - 1
      /\ \A k \in 1..Len(Tail(line)) : Tail(line)[k] = line[k + 1]
      /\ Head(line) = line[1] /\ Len(line) \in Nat /\ Len(line) > 0
  BY HeadTailProperties
<1>2. Head(line) \in Elements(line)
  BY <1>1 DEF Elements
<1>3. ASSUME NoRepeat(line)
      PROVE  NoRepeat(Tail(line))
  BY <1>1, <1>3 DEF NoRepeat
<1>4. ASSUME NoRepeat(line)
      PROVE  Elements(Tail(line)) = Elements(line) \ {Head(line)}
  <2>1. ASSUME NEW k \in 1..Len(Tail(line))
        PROVE  Tail(line)[k] \in Elements(line) /\ Tail(line)[k] # Head(line)
    BY <1>1, <1>4 DEF Elements, NoRepeat
  <2>2. ASSUME NEW k \in 1..Len(line), line[k] # Head(line)
        PROVE  line[k] \in Elements(Tail(line))
    <3>1. k - 1 \in 1..Len(Tail(line)) /\ Tail(line)[k - 1] = line[k]
      BY <1>1, <2>2
    <3>. QED  BY <1>1, <3>1 DEF Elements
  <2>. QED  BY <2>1, <2>2 DEF Elements
<1>. QED  BY <1>1, <1>2, <1>3, <1>4

\* Any task leaves a line.
LEMMA LeaveLine ==
  ASSUME NEW S, NEW line \in Seq(S), NEW x
  PROVE  /\ Without(line, x) \in Seq(S)
         /\ NoRepeat(line) => /\ NoRepeat(Without(line, x))
                              /\ Elements(Without(line, x)) = Elements(line) \ {x}
<1>1. CASE x \notin Elements(line)
  BY <1>1 DEF Without
<1>2. CASE x \in Elements(line)
  <2> DEFINE k == CHOOSE j \in 1..Len(line) : line[j] = x
             w == Without(line, x)
  <2>1. k \in 1..Len(line) /\ line[k] = x
    BY <1>2 DEF Elements
  <2>2. w = SubSeq(line, 1, k - 1) \o SubSeq(line, k + 1, Len(line))
    BY <1>2 DEF Without
  <2>3. /\ SubSeq(line, 1, k - 1) \in Seq(S) /\ Len(SubSeq(line, 1, k - 1)) = k - 1
        /\ \A j \in 1..(k - 1) : SubSeq(line, 1, k - 1)[j] = line[j]
    <3>1. \A j \in 1..(k - 1) : line[j] \in S
      BY <2>1
    <3>. QED  BY <2>1, <3>1, SubSeqProperties
  <2>4. /\ SubSeq(line, k + 1, Len(line)) \in Seq(S)
        /\ Len(SubSeq(line, k + 1, Len(line))) = Len(line) - k
        /\ \A j \in 1..(Len(line) - k) : SubSeq(line, k + 1, Len(line))[j] = line[k + j]
    <3>1. \A j \in (k + 1)..Len(line) : line[j] \in S
      BY <2>1
    <3>. QED  BY <2>1, <3>1, SubSeqProperties
  <2>5. /\ w \in Seq(S) /\ Len(w) = Len(line) - 1
        /\ \A j \in 1..Len(w) : w[j] = IF j < k THEN line[j] ELSE line[j + 1]
    <3> DEFINE front == SubSeq(line, 1, k - 1)
               back  == SubSeq(line, k + 1, Len(line))
    <3>1. w = front \o back
      BY <2>2
    <3>2. /\ front \in Seq(S) /\ Len(front) = k - 1
          /\ \A j \in 1..(k - 1) : front[j] = line[j]
      BY <2>3
    <3>3. /\ back \in Seq(S) /\ Len(back) = Len(line) - k
          /\ \A j \in 1..(Len(line) - k) : back[j] = line[k + j]
      BY <2>4
    <3> HIDE DEF k, w, front, back
    <3>4. /\ w \in Seq(S) /\ Len(w) = Len(line) - 1
          /\ \A j \in 1..Len(w) : w[j] = IF j <= k - 1 THEN front[j] ELSE back[j - (k - 1)]
      BY <2>1, <3>1, <3>2, <3>3, ConcatProperties
    <3>5. ASSUME NEW j \in 1..Len(w)
          PROVE  w[j] = IF j < k THEN line[j] ELSE line[j + 1]
      BY <2>1, <3>2, <3>3, <3>4
    <3>. QED  BY <3>4, <3>5
  <2> HIDE DEF k, w
  <2>6. ASSUME NoRepeat(line)
        PROVE  NoRepeat(w)
    BY <2>1, <2>5, <2>6 DEF NoRepeat
  <2>7. ASSUME NoRepeat(line)
        PROVE  Elements(w) = Elements(line) \ {x}
    <3>1. ASSUME NEW j \in 1..Len(w)
          PROVE  w[j] \in Elements(line) /\ w[j] # x
      BY <2>1, <2>5, <2>7 DEF Elements, NoRepeat
    <3>2. ASSUME NEW j \in 1..Len(line), line[j] # x
          PROVE  line[j] \in Elements(w)
      <4>1. CASE j < k
        <5>1. j \in 1..Len(w) /\ w[j] = line[j]
          BY <2>1, <2>5, <4>1
        <5>. QED  BY <5>1 DEF Elements
      <4>2. CASE j > k
        <5>1. j - 1 \in 1..Len(w) /\ w[j - 1] = line[j]
          BY <2>1, <2>5, <4>2
        <5>. QED  BY <5>1 DEF Elements
      <4>. QED  BY <2>1, <3>2, <4>1, <4>2
    <3>. QED  BY <3>1, <3>2 DEF Elements
  <2>. QED  BY <2>5, <2>6, <2>7 DEF w
<1>. QED  BY <1>1, <1>2

\* One item more at the end of what is still to be read.
LEMMA PushFlow ==
  ASSUME NEW S, NEW s \in Seq(S), NEW q \in Seq(S), NEW i \in S
  PROVE  s \o Append(q, i) = Append(s \o q, i)
<1>. QED  BY ConcatAssociative, AppendIsConcat, ConcatProperties, IsASeq

\* One item less at its front.
LEMMA TakeFlow ==
  ASSUME NEW S, NEW s \in Seq(S), NEW q \in Seq(S), q # <<>>
  PROVE  Append(s, Head(q)) \o Tail(q) = s \o q
<1>1. Head(q) \in S /\ Tail(q) \in Seq(S) /\ Len(Tail(q)) = Len(q) - 1
      /\ \A k \in 1..Len(Tail(q)) : Tail(q)[k] = q[k + 1]
      /\ Head(q) = q[1]
  BY HeadTailProperties
<1>2. <<Head(q)>> \in Seq(S)
  BY <1>1
<1>3. /\ <<Head(q)>> \o Tail(q) \in Seq(S)
      /\ Len(<<Head(q)>> \o Tail(q)) = Len(q)
      /\ \A k \in 1..Len(q) :
           (<<Head(q)>> \o Tail(q))[k] = IF k <= 1 THEN <<Head(q)>>[k] ELSE Tail(q)[k - 1]
  BY <1>1, <1>2, ConcatProperties
<1>4. \A k \in 1..Len(q) : (<<Head(q)>> \o Tail(q))[k] = q[k]
  BY <1>1, <1>3
<1>5. <<Head(q)>> \o Tail(q) = q
  BY <1>3, <1>4, SeqEqual
<1>6. Append(s, Head(q)) = s \o <<Head(q)>>
  BY <1>1, AppendIsConcat
<1>. QED  BY <1>1, <1>2, <1>5, <1>6, ConcatAssociative
-----------------------------------------------------------------------------
(* Folds *)

\* The last of a set of places.
Top(s) == CHOOSE x \in s : \A y \in s : x >= y

LEMMA LeastThereIs ==
  ASSUME NEW S, S \subseteq Nat, S # {}
  PROVE  \E m \in S : \A n \in S : m <= n
<1> DEFINE R == OpToRel(<, Nat)
<1>1. IsWellFoundedOn(R, Nat)
  BY NatLessThanWellFounded
<1>2. \A x, y \in Nat : <<x, y>> \in R <=> x < y
  BY DEF OpToRel
<1> HIDE DEF R
<1>3. PICK m \in S : \A n \in S : ~(<<n, m>> \in R)
  BY <1>1, WFMin
<1>4. ASSUME NEW n \in S PROVE m <= n
  <2>1. m \in Nat /\ n \in Nat
    OBVIOUS
  <2>2. ~(n < m)
    BY <1>2, <1>3, <2>1
  <2>. QED  BY <2>1, <2>2
<1>. QED  BY <1>3, <1>4

LEMMA TopIsLast ==
  ASSUME NEW n \in Nat, NEW s, s \subseteq 1..n, s # {}
  PROVE  Top(s) \in s /\ \A y \in s : y <= Top(s)
<1>1. PICK U : U = {m \in Nat : \A y \in s : y <= m}
  OBVIOUS
<1>2. U \subseteq Nat /\ n \in U
  BY <1>1
<1>3. PICK m \in U : \A u \in U : m <= u
  BY <1>2, LeastThereIs
<1>4. m \in Nat /\ \A y \in s : y <= m /\ y \in Nat /\ y >= 1
  BY <1>1, <1>3
<1>5. m \in s
  <2>. SUFFICES ASSUME m \notin s PROVE FALSE
    OBVIOUS
  <2>1. m >= 1
    <3>1. PICK y \in s : TRUE
      OBVIOUS
    <3>. QED  BY <1>4, <3>1
  <2>2. m - 1 \in Nat /\ \A y \in s : y <= m - 1
    BY <1>4, <2>1
  <2>3. m <= m - 1
    BY <1>1, <1>3, <2>2
  <2>. QED  BY <1>4, <2>3
<1>6. m \in s /\ \A y \in s : m >= y
  BY <1>4, <1>5
<1>7. Top(s) \in s /\ \A y \in s : Top(s) >= y
  BY <1>6 DEF Top
<1>. QED  BY <1>4, <1>7

\* What is folded: from base, one place after the other, by a function f of what came of the places
\* before and of the place.  The library folds over sets of places, the last one first.
IsFold(it, f, base, n) ==
  it = [s \in SUBSET (1..n) |-> IF s = {} THEN base ELSE f[<<it[s \ {Top(s)}], Top(s)>>]]

\* Such a fold exists.
LEMMA FoldExists ==
  ASSUME NEW X, NEW base \in X, NEW n \in Nat, NEW f \in [X \X (1..n) -> X]
  PROVE  \E it \in [SUBSET (1..n) -> X] : IsFold(it, f, base, n)
<1> DEFINE Bad == {m \in 0..n : ~\E it \in [SUBSET (1..m) -> X] : IsFold(it, f, base, m)}
<1>. SUFFICES ASSUME Bad # {} PROVE FALSE
  BY n \in 0..n
<1>1. PICK m \in Bad : \A k \in Bad : m <= k
  <2>1. Bad \subseteq Nat
    OBVIOUS
  <2>. QED  BY <2>1, LeastThereIs
<1>2. CASE m = 0
  <2>1. PICK it : it = [s \in SUBSET (1..0) |-> base]
    OBVIOUS
  <2>2. it \in [SUBSET (1..0) -> X] /\ IsFold(it, f, base, 0)
    BY <2>1 DEF IsFold
  <2>. QED  BY <1>1, <1>2, <2>2
<1>3. CASE m # 0
  <2>1. PICK k \in 0..n : m = k + 1 /\ k + 1 <= n
    <3>1. m \in 0..n
      BY <1>1
    <3>2. m - 1 \in 0..n /\ m = (m - 1) + 1 /\ (m - 1) + 1 <= n
      BY <1>3, <3>1
    <3>. QED  BY <3>2
  <2>2. k \notin Bad
    <3>1. ~(m <= k)
      BY <2>1
    <3>. HIDE DEF Bad
    <3>. QED  BY <1>1, <3>1
  <2>3. PICK it \in [SUBSET (1..k) -> X] : IsFold(it, f, base, k)
    BY <2>2
  <2>4. PICK more : more = [s \in SUBSET (1..m) |-> IF m \in s THEN f[<<it[s \ {m}], m>>] ELSE it[s]]
    OBVIOUS
  <2>5. \A s \in SUBSET (1..m) : s \ {m} \in SUBSET (1..k)
    BY <2>1
  <2>6. \A s \in SUBSET (1..m) : m \notin s => s \in SUBSET (1..k)
    BY <2>1
  <2>7. m \in 1..n /\ m \in 1..m
    BY <2>1
  <2>8. more \in [SUBSET (1..m) -> X]
    <3>. SUFFICES ASSUME NEW s \in SUBSET (1..m)
                  PROVE  (IF m \in s THEN f[<<it[s \ {m}], m>>] ELSE it[s]) \in X
      BY <2>4
    <3>1. CASE m \in s
      <4>1. <<it[s \ {m}], m>> \in X \X (1..n)
        BY <2>5, <2>7
      <4>. QED  BY <3>1, <4>1
    <3>2. CASE m \notin s
      BY <2>6, <3>2
    <3>. QED  BY <3>1, <3>2
  <2>9. IsFold(more, f, base, m)
    <3>. SUFFICES ASSUME NEW s \in SUBSET (1..m)
                  PROVE  more[s] = IF s = {} THEN base ELSE f[<<more[s \ {Top(s)}], Top(s)>>]
      BY <2>4 DEF IsFold
    <3>1. CASE m \in s
      <4>1. Top(s) \in s /\ \A y \in s : y <= Top(s)
        <5>1. m \in Nat /\ s \subseteq 1..m /\ s # {}
          BY <2>1, <3>1
        <5>. QED  BY <5>1, TopIsLast
      <4>2. Top(s) = m
        <5>1. m <= Top(s) /\ Top(s) \in 1..m
          BY <3>1, <4>1
        <5>. QED  BY <2>1, <5>1
      <4>3. s \ {m} \in SUBSET (1..m) /\ m \notin s \ {m}
        OBVIOUS
      <4>4. more[s \ {m}] = it[s \ {m}]
        BY <2>4, <4>3
      <4>. QED  BY <2>4, <3>1, <4>2, <4>4
    <3>2. CASE m \notin s /\ s # {}
      <4>1. s \in SUBSET (1..k)
        BY <2>6, <3>2
      <4>2. it[s] = f[<<it[s \ {Top(s)}], Top(s)>>]
        BY <2>3, <3>2, <4>1 DEF IsFold
      <4>3. s \ {Top(s)} \in SUBSET (1..m) /\ m \notin s \ {Top(s)}
        BY <3>2
      <4>4. more[s \ {Top(s)}] = it[s \ {Top(s)}] /\ more[s] = it[s]
        BY <2>4, <3>2, <4>3
      <4>. QED  BY <3>2, <4>2, <4>4
    <3>3. CASE s = {}
      <4>1. {} \in SUBSET (1..k) /\ m \notin s
        BY <3>3
      <4>2. it[{}] = base
        BY <2>3, <4>1 DEF IsFold
      <4>. QED  BY <2>4, <3>3, <4>1, <4>2
    <3>. QED  BY <3>1, <3>2, <3>3
  <2>. QED  BY <1>1, <2>8, <2>9
<1>. QED  BY <1>2, <1>3

\* What a fold has made of the first places.
IsRun(g, f, base, n) ==
  /\ DOMAIN g = 0..n
  /\ g[0] = base
  /\ \A k \in 0..(n - 1) : g[k + 1] = f[<<g[k], k + 1>>]

\* A function that folds over the sets of places, wherever it stays among the values folded, has such
\* a run behind it.
FoldsWithin(c, X, f, base, n) ==
  /\ c[{}] = base
  /\ \A s \in SUBSET (1..n) :
       s # {} /\ c[s \ {Top(s)}] \in X => c[s] = f[<<c[s \ {Top(s)}], Top(s)>>]

\* There is a run, over n places, that ends with what c makes of all of them.
HasRun(c, X, f, base, n) == \E g \in [0..n -> X] : IsRun(g, f, base, n) /\ c[1..n] = g[n]

LEMMA FoldRuns ==
  ASSUME NEW X, NEW base \in X, NEW n \in Nat, NEW f \in [X \X (1..n) -> X], NEW c,
         FoldsWithin(c, X, f, base, n)
  PROVE  HasRun(c, X, f, base, n)
<1> DEFINE g == [k \in 0..n |-> c[1..k]]
<1>0. /\ c[{}] = base
      /\ \A s \in SUBSET (1..n) :
           s # {} /\ c[s \ {Top(s)}] \in X => c[s] = f[<<c[s \ {Top(s)}], Top(s)>>]
  BY DEF FoldsWithin
<1>1. g[0] = base /\ 0 \in 0..n
  <2>1. 1..0 = {} /\ 0 \in 0..n
    OBVIOUS
  <2>. QED  BY <1>0, <2>1
<1>2. ASSUME NEW k \in 0..(n - 1), g[k] \in X
      PROVE  g[k + 1] = f[<<g[k], k + 1>>] /\ g[k + 1] \in X
  <2>1. PICK s : s = 1..(k + 1)
    OBVIOUS
  <2>2. s \in SUBSET (1..n) /\ s # {} /\ k + 1 \in s
    <3>1. k \in Nat /\ k + 1 <= n /\ k + 1 \in 1..(k + 1) /\ k \in 0..n /\ k + 1 \in 0..n
      OBVIOUS
    <3>2. 1..(k + 1) \subseteq 1..n
      BY <3>1
    <3>. QED  BY <2>1, <3>1, <3>2
  <2>3. Top(s) = k + 1
    <3>1. Top(s) \in s /\ \A y \in s : y <= Top(s)
      BY <2>2, TopIsLast
    <3>2. k + 1 <= Top(s) /\ Top(s) \in 1..(k + 1)
      BY <2>1, <2>2, <3>1
    <3>. QED  BY <3>2
  <2>4. s \ {Top(s)} = 1..k
    BY <2>1, <2>3
  <2>5. g[k] = c[s \ {Top(s)}] /\ g[k + 1] = c[s]
    <3>1. k \in 0..n /\ k + 1 \in 0..n
      OBVIOUS
    <3>2. g[k] = c[1..k] /\ g[k + 1] = c[1..(k + 1)]
      BY <3>1
    <3>. QED  BY <2>1, <2>4, <3>2
  <2>6. g[k + 1] = f[<<g[k], k + 1>>]
    BY <1>0, <1>2, <2>2, <2>3, <2>5
  <2>7. <<g[k], k + 1>> \in X \X (1..n)
    BY <1>2
  <2>. QED  BY <2>6, <2>7
<1> HIDE DEF g
<1>3. \A k \in 0..n : g[k] \in X
  <2> DEFINE Bad == {k \in 0..n : g[k] \notin X}
  <2>. SUFFICES ASSUME Bad # {} PROVE FALSE
    OBVIOUS
  <2>1. PICK m \in Bad : \A k \in Bad : m <= k
    <3>1. Bad \subseteq Nat
      OBVIOUS
    <3>. QED  BY <3>1, LeastThereIs
  <2>2. m # 0
    BY <1>1, <2>1
  <2>3. m - 1 \in 0..(n - 1) /\ (m - 1) + 1 = m /\ m - 1 \in 0..n
    BY <2>1, <2>2
  <2>4. m - 1 \notin Bad
    BY <2>1, <2>3
  <2>5. g[m] \in X
    BY <1>2, <2>3, <2>4
  <2>. QED  BY <2>1, <2>5
<1>4. DOMAIN g = 0..n /\ c[1..n] = g[n]
  BY DEF g
<1>5. g = [k \in 0..n |-> g[k]]
  BY DEF g
<1>6. g \in [0..n -> X]
  BY <1>3, <1>5
<1>7. IsRun(g, f, base, n)
  BY <1>1, <1>2, <1>3, <1>4 DEF IsRun
<1>. QED  BY <1>4, <1>6, <1>7 DEF HasRun

-----------------------------------------------------------------------------
(* Loops *)

\* What a loop over the elements of s makes of base, one element after the other, by a function f of
\* what it has so far and of the element; and v is what comes of it.
IsLoop(g, f, base, s) ==
  /\ DOMAIN g = 0..Len(s)
  /\ g[0] = base
  /\ \A k \in 0..(Len(s) - 1) : g[k + 1] = f[<<g[k], s[k + 1]>>]

IsStep(f, X, A) == f \in [X \X A -> X]

Loops(v, f, X, base, s) == \E g \in [0..Len(s) -> X] : IsLoop(g, f, base, s) /\ v = g[Len(s)]

\* The library's folds, over the sets of places of s.
IsFoldOver(it, f, base, s) ==
  it = [S \in SUBSET (1..Len(s)) |-> IF S = {} THEN base ELSE f[<<it[S \ {Top(S)}], s[Top(S)]>>]]

FoldsOver(c, X, f, base, s) ==
  /\ c[{}] = base
  /\ \A S \in SUBSET (1..Len(s)) :
       S # {} /\ c[S \ {Top(S)}] \in X => c[S] = f[<<c[S \ {Top(S)}], s[Top(S)]>>]

LEMMA FoldOverExists ==
  ASSUME NEW X, NEW A, NEW base \in X, NEW f \in [X \X A -> X], NEW s \in Seq(A)
  PROVE  \E it \in [SUBSET (1..Len(s)) -> X] : IsFoldOver(it, f, base, s)
<1>1. PICK n \in Nat : n = Len(s)
  BY LenProperties
<1> DEFINE h == [p \in X \X (1..n) |-> f[<<p[1], s[p[2]]>>]]
<1>2. \A k \in 1..n : s[k] \in A
  BY <1>1, ElementOfSeq
<1>3. h \in [X \X (1..n) -> X]
  BY <1>2
<1>4. PICK it \in [SUBSET (1..n) -> X] : IsFold(it, h, base, n)
  <2>. HIDE DEF h
  <2>. QED  BY <1>3, FoldExists
<1>5. ASSUME NEW S \in SUBSET (1..n)
      PROVE  it[S] = IF S = {} THEN base ELSE f[<<it[S \ {Top(S)}], s[Top(S)]>>]
  <2>1. it[S] = IF S = {} THEN base ELSE h[<<it[S \ {Top(S)}], Top(S)>>]
    BY <1>4 DEF IsFold
  <2>2. ASSUME S # {} PROVE <<it[S \ {Top(S)}], Top(S)>> \in X \X (1..n)
    <3>1. Top(S) \in S
      BY <2>2, TopIsLast
    <3>2. S \ {Top(S)} \in SUBSET (1..n)
      OBVIOUS
    <3>. QED  BY <3>1, <3>2
  <2>. QED  BY <2>1, <2>2
<1>6. IsFoldOver(it, f, base, s)
  BY <1>1, <1>4, <1>5 DEF IsFoldOver
<1>. QED  BY <1>1, <1>4, <1>6

LEMMA FoldLoops ==
  ASSUME NEW X, NEW A, NEW base \in X, NEW f \in [X \X A -> X], NEW s \in Seq(A), NEW c,
         FoldsOver(c, X, f, base, s)
  PROVE  Loops(c[1..Len(s)], f, X, base, s)
<1>1. PICK n \in Nat : n = Len(s)
  BY LenProperties
<1> DEFINE h == [p \in X \X (1..n) |-> f[<<p[1], s[p[2]]>>]]
<1>2. \A k \in 1..n : s[k] \in A
  BY <1>1, ElementOfSeq
<1>3. h \in [X \X (1..n) -> X]
  BY <1>2
<1>4. FoldsWithin(c, X, h, base, n)
  <2>. SUFFICES ASSUME NEW S \in SUBSET (1..n), S # {}, c[S \ {Top(S)}] \in X
                PROVE  c[S] = h[<<c[S \ {Top(S)}], Top(S)>>]
    BY DEF FoldsOver, FoldsWithin
  <2>1. Top(S) \in S
    BY TopIsLast
  <2>2. <<c[S \ {Top(S)}], Top(S)>> \in X \X (1..n)
    BY <2>1
  <2>3. c[S] = f[<<c[S \ {Top(S)}], s[Top(S)]>>]
    BY <1>1 DEF FoldsOver
  <2>. QED  BY <2>2, <2>3
<1>5. HasRun(c, X, h, base, n)
  <2>. HIDE DEF h
  <2>. QED  BY <1>3, <1>4, FoldRuns
<1>6. PICK g \in [0..n -> X] : IsRun(g, h, base, n) /\ c[1..n] = g[n]
  <2>. HIDE DEF h
  <2>. QED  BY <1>5 DEF HasRun
<1>7. ASSUME NEW k \in 0..(n - 1) PROVE g[k + 1] = f[<<g[k], s[k + 1]>>]
  <2>1. <<g[k], k + 1>> \in X \X (1..n)
    BY <1>6
  <2>2. g[k + 1] = h[<<g[k], k + 1>>]
    <3>. HIDE DEF h
    <3>. QED  BY <1>6 DEF IsRun
  <2>. QED  BY <2>1, <2>2
<1>8. IsLoop(g, f, base, s)
  <2>. HIDE DEF h
  <2>. QED  BY <1>1, <1>6, <1>7 DEF IsLoop, IsRun
<1>. QED  BY <1>1, <1>6, <1>8 DEF Loops

\* Over nothing, and over one element more.
LEMMA LoopBegins ==
  ASSUME NEW X, NEW f, NEW base, NEW v, Loops(v, f, X, base, <<>>)
  PROVE  v = base
BY DEF Loops, IsLoop

LEMMA LoopGoesOn ==
  ASSUME NEW X, NEW A, NEW base \in X, NEW f, IsStep(f, X, A), NEW s \in Seq(A), NEW a \in A,
         NEW v, NEW w, Loops(v, f, X, base, s), Loops(w, f, X, base, Append(s, a))
  PROVE  v \in X /\ w = f[<<v, a>>]
<1>1. PICK n \in Nat : n = Len(s)
  BY LenProperties
<1>2. PICK t : t = Append(s, a)
  OBVIOUS
<1>3. Len(t) = n + 1 /\ (\A k \in 1..n : t[k] = s[k]) /\ t[n + 1] = a
  BY <1>1, <1>2, AppendProperties
<1>4. PICK g \in [0..n -> X] : IsLoop(g, f, base, s) /\ v = g[n]
  BY <1>1 DEF Loops
<1>5. PICK h \in [0..(n + 1) -> X] : IsLoop(h, f, base, t) /\ w = h[n + 1]
  BY <1>2, <1>3 DEF Loops
<1>6. g[0] = base /\ \A k \in 0..(n - 1) : g[k + 1] = f[<<g[k], s[k + 1]>>]
  BY <1>1, <1>4 DEF IsLoop
<1>7. h[0] = base /\ \A k \in 0..n : h[k + 1] = f[<<h[k], t[k + 1]>>]
  BY <1>3, <1>5 DEF IsLoop
<1> DEFINE Bad == {k \in 0..n : g[k] # h[k]}
<1>8. Bad = {}
  <2>. SUFFICES ASSUME Bad # {} PROVE FALSE
    OBVIOUS
  <2>1. PICK m \in Bad : \A k \in Bad : m <= k
    <3>1. Bad \subseteq Nat
      OBVIOUS
    <3>. QED  BY <3>1, LeastThereIs
  <2>2. m # 0
    BY <1>6, <1>7, <2>1
  <2>3. m - 1 \in 0..(n - 1) /\ (m - 1) + 1 = m /\ m - 1 \in 0..n
    BY <2>1, <2>2
  <2>4. m - 1 \notin Bad
    BY <2>1, <2>3
  <2>5. g[m] = f[<<g[m - 1], s[m]>>] /\ h[m] = f[<<h[m - 1], t[m]>>]
    BY <1>6, <1>7, <2>3
  <2>6. t[m] = s[m]
    BY <1>3, <2>1, <2>2
  <2>. QED  BY <2>1, <2>3, <2>4, <2>5, <2>6
<1>0. f \in [X \X A -> X]
  BY DEF IsStep
<1>9. g[n] = h[n]
  BY <1>8
<1>10. h[n + 1] = f[<<h[n], t[n + 1]>>]
  BY <1>7
<1>. QED  BY <1>3, <1>4, <1>5, <1>9, <1>10

-----------------------------------------------------------------------------
(* Sequences *)

\* What holds of the empty sequence, and goes on to hold with an element more, holds of every one.
LEMMA EverySequence ==
  ASSUME NEW A, NEW S, <<>> \in S, \A s \in Seq(A), a \in A : s \in S => Append(s, a) \in S
  PROVE  Seq(A) \subseteq S
<1> DEFINE Bad == {n \in Nat : \E s \in Seq(A) : Len(s) = n /\ s \notin S}
<1>. SUFFICES ASSUME NEW t \in Seq(A), t \notin S PROVE FALSE
  OBVIOUS
<1>1. Bad # {}
  BY LenProperties
<1>2. PICK n \in Bad : \A k \in Bad : n <= k
  <2>1. Bad \subseteq Nat
    OBVIOUS
  <2>. HIDE DEF Bad
  <2>. QED  BY <1>1, <2>1, LeastThereIs
<1>3. PICK s \in Seq(A) : Len(s) = n /\ s \notin S
  BY <1>2
<1>4. s # <<>>
  BY <1>3
<1>5. PICK u \in Seq(A), a \in A : s = Append(u, a) /\ Len(u) = Len(s) - 1
  <2>1. PICK m \in Nat : Len(s) = m + 1
    <3>1. Len(s) \in Nat /\ Len(s) # 0
      BY <1>4, EmptySeq, LenProperties
    <3>2. Len(s) - 1 \in Nat /\ Len(s) = (Len(s) - 1) + 1
      BY <3>1
    <3>. QED  BY <3>2
  <2>2. \A k \in 1..(m + 1) : s[k] \in A
    BY <2>1, ElementOfSeq
  <2>3. PICK u : u = SubSeq(s, 1, m)
    OBVIOUS
  <2>4. u \in Seq(A) /\ Len(u) = m /\ \A k \in 1..m : u[k] = s[k]
    <3>1. /\ SubSeq(s, 1, m) \in Seq(A)
          /\ Len(SubSeq(s, 1, m)) = IF 1 <= m THEN m - 1 + 1 ELSE 0
          /\ \A k \in 1..(m - 1 + 1) : SubSeq(s, 1, m)[k] = s[1 + k - 1]
      BY <2>2, SubSeqProperties
    <3>. QED  BY <2>3, <3>1
  <2>5. PICK a \in A : a = s[m + 1]
    BY <2>2
  <2>6. PICK v : v = Append(u, a)
    OBVIOUS
  <2>7. v \in Seq(A) /\ Len(v) = m + 1 /\ (\A k \in 1..m : v[k] = u[k]) /\ v[m + 1] = a
    BY <2>4, <2>6, AppendProperties
  <2>8. \A k \in 1..(m + 1) : v[k] = s[k]
    BY <2>4, <2>5, <2>7
  <2>9. v = s
    BY <2>1, <2>7, <2>8, SeqEqual
  <2>. QED  BY <2>1, <2>4, <2>6, <2>9
<1>6. u \notin S
  BY <1>3, <1>5
<1>7. n - 1 \in Bad
  <2>1. n \in Nat /\ Len(u) = n - 1 /\ Len(u) \in Nat
    BY <1>2, <1>3, <1>5, LenProperties
  <2>. QED  BY <1>6, <2>1
<1>8. n <= n - 1 /\ n \in Nat
  <2>1. n \in Nat
    BY <1>2
  <2>. HIDE DEF Bad
  <2>. QED  BY <1>2, <1>7, <2>1
<1>. QED  BY <1>8

\* Concatenation with one element, and with none.
LEMMA PutBehind ==
  ASSUME NEW A, NEW s \in Seq(A), NEW t \in Seq(A), NEW a \in A
  PROVE  /\ s \o <<a>> = Append(s, a) /\ s \o <<>> = s /\ <<>> \o s = s
         /\ s \o Append(t, a) = Append(s \o t, a)
         /\ Append(s, a) \in Seq(A) /\ s \o t \in Seq(A) /\ <<a>> \in Seq(A) /\ <<>> \in Seq(A)
<1>1. s \o <<a>> = Append(s, a)
  BY AppendIsConcat
<1>2. s \o <<>> = s /\ <<>> \o s = s
  BY ConcatEmptySeq
<1>3. s \o Append(t, a) = Append(s \o t, a)
  BY PushFlow
<1>4. Append(s, a) \in Seq(A) /\ s \o t \in Seq(A) /\ <<a>> \in Seq(A) /\ <<>> \in Seq(A)
  BY AppendProperties, ConcatProperties, EmptySeq
<1>. QED  BY <1>1, <1>2, <1>3, <1>4
=============================================================================
