------------------------- MODULE BytesStreamProofs -------------------------
(* Proofs about the body that is read straight from a stream. *)
EXTENDS BytesStream, TaskLinesProofs

\* What an "end" among the answers means: it was said, and it is the last word.
EndIsLastWord ==
  /\ ended => /\ ~reading
              /\ given # <<>> /\ given[Len(given)].kind = "end"
  /\ ~ended => \A a \in 1..Len(given) : given[a].kind # "end"

IInv == TypeOK /\ EndIsLastWord /\ OneEnd

\* Another answer handed to a caller.
LEMMA HandOut ==
  ASSUME NEW s \in Seq(Answer), NEW a \in Answer
  PROVE  /\ Append(s, a) \in Seq(Answer) /\ Append(s, a) # <<>>
         /\ Len(s) \in Nat /\ Len(Append(s, a)) = Len(s) + 1
         /\ \A k \in 1..Len(s) : Append(s, a)[k] = s[k]
         /\ Append(s, a)[Len(s) + 1] = a
         /\ a \in Elements(Append(s, a))
         /\ Elements(s) \subseteq Elements(Append(s, a))
<1>1. /\ Append(s, a) \in Seq(Answer) /\ Len(Append(s, a)) = Len(s) + 1
      /\ \A k \in 1..Len(s) : Append(s, a)[k] = s[k]
      /\ Append(s, a)[Len(s) + 1] = a
  BY AppendProperties
<1>. QED  BY <1>1, JoinLine, LenProperties

\* Nothing is ended or handed out before the first call.
LEMMA InitIInv == Init => IInv
<1> SUFFICES ASSUME Init PROVE IInv
  OBVIOUS
<1> USE BytesStreamAssumption
<1>1. TypeOK
  <2>1. script \in Seq(Answer) /\ story \in Stories /\ begun = None /\ reading = FALSE /\ ended = FALSE
    BY DEF Init
  <2>2. given \in Seq(Answer) /\ turns \in Seq(Readers)
    BY DEF Init
  <2>3. NoRepeat(turns)
    <3>1. Len(turns) = 0
      BY DEF Init
    <3>. QED  BY <3>1 DEF NoRepeat
  <2>4. reads \in [Readers -> 0..MaxReads]
    BY DEF Init
  <2>. QED  BY <2>1, <2>2, <2>3, <2>4 DEF TypeOK
<1>2. EndIsLastWord /\ OneEnd
  BY DEF Init, EndIsLastWord, OneEnd
<1>. QED  BY <1>1, <1>2 DEF IInv

\* Each step keeps the types.
LEMMA NextTypeOK == TypeOK /\ [Next]_vars => TypeOK'
<1> SUFFICES ASSUME TypeOK, [Next]_vars PROVE TypeOK'
  OBVIOUS
<1> USE BytesStreamAssumption
<1>0. CASE UNCHANGED vars
  BY <1>0 DEF TypeOK, vars
<1>n. ASSUME NEW r \in Readers,
             StartRead(r) \/ Ask(r) \/ EndAgain(r) \/ Begin(r) \/ PassBy(r) \/ Answered(r)
               \/ CancelRead(r)
      PROVE  TypeOK'
  <2>1. CASE StartRead(r)
    <3>1. turns' \in Seq(Readers) /\ NoRepeat(turns')
      BY <2>1, JoinLine DEF StartRead, Reading, TypeOK
    <3>2. reads' \in [Readers -> 0..MaxReads]
      BY <2>1 DEF StartRead, TypeOK
    <3>. QED  BY <2>1, <3>1, <3>2 DEF StartRead, TypeOK
  <2>2. CASE Ask(r)
    BY <2>2 DEF Ask, TypeOK
  <2>3. CASE EndAgain(r)
    <3>1. turns' \in Seq(Readers) /\ NoRepeat(turns')
      BY <2>3, LeaveFront DEF EndAgain, HasTurn, TypeOK
    <3>2. [n |-> 0, kind |-> "end"] \in Answer
      BY DEF Answer
    <3>3. given' \in Seq(Answer)
      BY <2>3, <3>2, HandOut DEF EndAgain, TypeOK
    <3>. QED  BY <2>3, <3>1, <3>3 DEF EndAgain, TypeOK
  <2>4. CASE Begin(r)
    <3>1. begun' \in Answer /\ script' \in Seq(Answer)
      BY <2>4, LeaveFront DEF Begin, TypeOK
    <3>. QED  BY <2>4, <3>1 DEF Begin, TypeOK
  <2>5. CASE PassBy(r)
    BY <2>5 DEF PassBy, TypeOK
  <2>6. CASE Answered(r)
    <3>1. turns' \in Seq(Readers) /\ NoRepeat(turns')
      BY <2>6, LeaveFront DEF Answered, HasTurn, TypeOK
    <3>2. given' \in Seq(Answer)
      BY <2>6, HandOut DEF Answered, TypeOK
    <3>3. ended' \in BOOLEAN
      BY <2>6 DEF Answered
    <3>. QED  BY <2>6, <3>1, <3>2, <3>3 DEF Answered, TypeOK
  <2>7. CASE CancelRead(r)
    <3>1. turns' \in Seq(Readers) /\ NoRepeat(turns')
      BY <2>7, LeaveLine DEF CancelRead, TypeOK
    <3>. QED  BY <2>7, <3>1 DEF CancelRead, TypeOK
  <2>. QED  BY <1>n, <2>1, <2>2, <2>3, <2>4, <2>5, <2>6, <2>7
<1>. QED  BY <1>0, <1>n DEF Next

\* A step that hands nothing out and does not end the stream changes nothing of what was said.
LEMMA NothingSaid ==
  ASSUME EndIsLastWord, OneEnd, UNCHANGED <<given, ended>>, ended => ~reading'
  PROVE  EndIsLastWord' /\ OneEnd'
<1>. QED  BY DEF EndIsLastWord, OneEnd

\* Another "end" after an end.
LEMMA EndAgainIsLastWord ==
  ASSUME IInv, NEW r \in Readers, EndAgain(r)
  PROVE  EndIsLastWord' /\ OneEnd'
<1> DEFINE a == [n |-> 0, kind |-> "end"]
<1>1. a \in Answer /\ a.kind = "end" /\ given' = Append(given, a) /\ given \in Seq(Answer)
  BY DEF Answer, EndAgain, IInv, TypeOK
<1>2. ended /\ ended' /\ ~reading /\ ~reading'
  BY DEF EndAgain, IInv, EndIsLastWord
<1> HIDE DEF a
<1>3. /\ given' # <<>> /\ Len(given) \in Nat /\ Len(given') = Len(given) + 1
      /\ \A k \in 1..Len(given) : given'[k] = given[k]
      /\ given'[Len(given')] = a
      /\ a \in Elements(given')
  BY <1>1, HandOut
<1>4. EndIsLastWord'
  BY <1>1, <1>2, <1>3 DEF EndIsLastWord
<1>5. \A k \in 1..Len(given') :
        /\ given'[k].kind # "empty"
        /\ given'[k].kind = "end" => \A b \in k..Len(given') : given'[b].kind = "end"
  BY <1>1, <1>3 DEF IInv, OneEnd
<1>6. OneEnd'
  BY <1>1, <1>3, <1>5 DEF OneEnd
<1>. QED  BY <1>4, <1>6

\* An answer of the stream: there was no end before it.
LEMMA AnsweredIsLastWord ==
  ASSUME IInv, NEW r \in Readers, Answered(r)
  PROVE  EndIsLastWord' /\ OneEnd'
<1>1. begun \in Answer /\ reading /\ given' = Append(given, begun) /\ given \in Seq(Answer)
  BY DEF Answered, IInv, TypeOK
<1>2. ~ended /\ ~reading' /\ begun.kind # "empty" /\ ended' = (begun.kind = "end")
  BY <1>1 DEF Answered, IInv, EndIsLastWord
<1>3. /\ given' # <<>> /\ Len(given) \in Nat /\ Len(given') = Len(given) + 1
      /\ \A k \in 1..Len(given) : given'[k] = given[k]
      /\ given'[Len(given')] = begun
      /\ begun \in Elements(given')
  BY <1>1, HandOut
<1>4. \A k \in 1..Len(given) : given[k].kind # "end" /\ given[k].kind # "empty"
  BY <1>2 DEF IInv, EndIsLastWord, OneEnd
<1>5. EndIsLastWord'
  <2>1. CASE begun.kind = "end"
    BY <1>2, <1>3, <2>1 DEF EndIsLastWord
  <2>2. CASE begun.kind # "end"
    <3>1. ASSUME NEW k \in 1..Len(given') PROVE given'[k].kind # "end"
      BY <1>3, <1>4, <2>2
    <3>. QED  BY <1>2, <2>2, <3>1 DEF EndIsLastWord
  <2>. QED  BY <2>1, <2>2
<1>6. \A k \in 1..Len(given') :
        /\ given'[k].kind # "empty"
        /\ given'[k].kind = "end" => \A b \in k..Len(given') : given'[b].kind = "end"
  BY <1>2, <1>3, <1>4
<1>7. OneEnd'
  BY <1>2, <1>3, <1>6 DEF OneEnd
<1>. QED  BY <1>5, <1>7

LEMMA NextIInv == IInv /\ [Next]_vars => IInv'
<1> SUFFICES ASSUME IInv, [Next]_vars PROVE IInv'
  OBVIOUS
<1>1. TypeOK'
  BY NextTypeOK DEF IInv
<1>2. EndIsLastWord' /\ OneEnd'
  <2>0. CASE UNCHANGED vars
    BY <2>0, NothingSaid DEF vars, IInv, EndIsLastWord
  <2>n. ASSUME NEW r \in Readers,
               StartRead(r) \/ Ask(r) \/ EndAgain(r) \/ Begin(r) \/ PassBy(r) \/ Answered(r)
                 \/ CancelRead(r)
        PROVE  EndIsLastWord' /\ OneEnd'
    <3>1. CASE StartRead(r)
      BY <3>1, NothingSaid DEF StartRead, IInv, EndIsLastWord
    <3>2. CASE Ask(r)
      BY <3>2, NothingSaid DEF Ask, IInv
    <3>3. CASE EndAgain(r)
      BY <3>3, EndAgainIsLastWord
    <3>4. CASE Begin(r)
      BY <3>4, NothingSaid DEF Begin, IInv, EndIsLastWord
    <3>5. CASE PassBy(r)
      BY <3>5, NothingSaid DEF PassBy, IInv, EndIsLastWord
    <3>6. CASE Answered(r)
      BY <3>6, AnsweredIsLastWord
    <3>7. CASE CancelRead(r)
      BY <3>7, NothingSaid DEF CancelRead, IInv, EndIsLastWord
    <3>. QED  BY <2>n, <3>1, <3>2, <3>3, <3>4, <3>5, <3>6, <3>7
  <2>. QED  BY <2>0, <2>n DEF Next
<1>. QED  BY <1>1, <1>2 DEF IInv

\* At every moment the state is what it should be, whatever the stream and however many readers.
THEOREM InvariantHolds == Spec => []IInv
<1>. QED  BY InitIInv, NextIInv, PTL DEF Spec

\* poll_next of BytesStreamSource: no caller is handed an empty chunk, and whoever is told of the
\* end once is told of nothing else from there on.
THEOREM OneEndHolds == Spec => []OneEnd
<1>1. IInv => OneEnd
  BY DEF IInv
<1>. QED  BY <1>1, InvariantHolds, PTL

\* A step of a source that saw the end leaves the stream alone.
LEMMA AloneAfterEnd == IInv /\ [Next]_vars => [ended => UNCHANGED <<script, reading>>]_vars
<1> SUFFICES ASSUME IInv, [Next]_vars, ended PROVE UNCHANGED <<script, reading>>
  OBVIOUS
<1>0. CASE UNCHANGED vars
  BY <1>0 DEF vars
<1>n. ASSUME NEW r \in Readers,
             StartRead(r) \/ Ask(r) \/ EndAgain(r) \/ Begin(r) \/ PassBy(r) \/ Answered(r)
               \/ CancelRead(r)
      PROVE  UNCHANGED <<script, reading>>
  <2>1. ~reading /\ begun = None
    BY DEF IInv, EndIsLastWord, TypeOK
  <2>. QED
    BY <1>n, <2>1 DEF StartRead, Ask, EndAgain, Begin, PassBy, Answered, CancelRead
<1>. QED  BY <1>0, <1>n DEF Next

\* "The stream said where its end is - it is not asked again": next_chunk of the foreign stream is
\* never called after it, though it would have more to say.
THEOREM NotAskedAfterEndHolds == Spec => NotAskedAfterEnd
<1>. QED  BY InvariantHolds, AloneAfterEnd, PTL DEF Spec, NotAskedAfterEnd

-----------------------------------------------------------------------------
(* A read that is given up is picked up *)

\* The script is the rest of the story, and what is worked on the last of it that was begun.
Storyline ==
  /\ Begun \in Nat
  /\ \A k \in 1..Len(script) : script[k] = story[Begun + k]
  /\ begun # None => Begun > 0 /\ begun = story[Begun]

Picking == Storyline /\ PickedUp

LEMMA StoryIsNumbered ==
  ASSUME TypeOK
  PROVE  /\ story \in Seq(Answer) /\ Len(story) \in Nat /\ Len(script) \in Nat /\ Len(given) \in Nat
         /\ \A k \in 1..Len(story) : story[k] \in Answer /\ story[k].n = k /\ story[k] # None
         /\ \A k \in 1..Len(given) : given[k] \in Answer /\ given[k].n \in Nat
<1>1. story \in Seq(Answer) /\ \A k \in 1..Len(story) : story[k].n = k
  BY BytesStreamAssumption DEF TypeOK
<1>2. ASSUME NEW k \in 1..Len(story) PROVE story[k] \in Answer /\ story[k] # None
  <2>1. story[k] \in Answer
    BY <1>1
  <2>. QED  BY <2>1, BytesStreamAssumption
<1>3. script \in Seq(Answer) /\ given \in Seq(Answer)
  BY DEF TypeOK
<1>4. ASSUME NEW k \in 1..Len(given) PROVE given[k] \in Answer /\ given[k].n \in Nat
  <2>1. given[k] \in Answer
    BY <1>3
  <2>. QED  BY <2>1 DEF Answer
<1>. QED  BY <1>1, <1>2, <1>3, <1>4, LenProperties

LEMMA InitPicking == Init => Picking
<1> SUFFICES ASSUME Init PROVE Picking
  OBVIOUS
<1>1. TypeOK
  BY InitIInv DEF IInv
<1>2. script = story /\ Begun = 0 /\ begun = None /\ Len(given) = 0
  BY <1>1, StoryIsNumbered DEF Init, Begun
<1>3. Storyline
  BY <1>1, <1>2, StoryIsNumbered DEF Storyline
<1>4. PickedUp
  BY <1>2 DEF PickedUp
<1>. QED  BY <1>3, <1>4 DEF Picking

\* A step that begins nothing and hands nothing out.
LEMMA NothingPicked ==
  ASSUME Picking, UNCHANGED <<script, begun, given, story>>
  PROVE  Picking'
<1>. QED  BY DEF Picking, Storyline, PickedUp, Begun

LEMMA EndAgainPicking ==
  ASSUME IInv, Picking, NEW r \in Readers, EndAgain(r)
  PROVE  Picking'
<1> DEFINE a == [n |-> 0, kind |-> "end"]
<1>1. a \in Answer /\ a.n = 0 /\ given' = Append(given, a)
  BY DEF Answer, EndAgain
<1>2. begun = None /\ UNCHANGED <<script, begun, story>>
  BY DEF EndAgain, IInv, EndIsLastWord, TypeOK
<1> HIDE DEF a
<1>3. given \in Seq(Answer) /\ TypeOK
  BY DEF IInv, TypeOK
<1>4. /\ Len(given) \in Nat /\ Len(given') = Len(given) + 1
      /\ \A k \in 1..Len(given) : given'[k] = given[k]
      /\ given'[Len(given')] = a
      /\ Elements(given) \subseteq Elements(given')
  BY <1>1, <1>3, HandOut
<1>5. Begun' = Begun /\ Begun \in Nat /\ Storyline'
  BY <1>2 DEF Picking, Storyline, Begun
<1>6. \A k \in 1..Begun' :
        story'[k].kind = "empty" \/ story'[k] = begun' \/ story'[k] \in Elements(given')
  BY <1>2, <1>4, <1>5 DEF Picking, PickedUp
<1>7. \A x, y \in 1..Len(given') :
        x < y /\ given'[x].n # 0 /\ given'[y].n # 0 => given'[x].n < given'[y].n
  BY <1>1, <1>4 DEF Picking, PickedUp
<1>8. \A x \in 1..Len(given') : given'[x].n <= Begun'
  BY <1>1, <1>4, <1>5 DEF Picking, PickedUp
<1>. QED  BY <1>2, <1>5, <1>6, <1>7, <1>8 DEF Picking, PickedUp

LEMMA BeginPicking ==
  ASSUME IInv, Picking, NEW r \in Readers, Begin(r)
  PROVE  Picking'
<1>0. TypeOK /\ script \in Seq(Answer)
  BY DEF IInv, TypeOK
<1>1. /\ begun = None /\ begun' = Head(script) /\ script' = Tail(script) /\ script # <<>>
      /\ UNCHANGED <<given, story>>
  BY DEF Begin
<1>2. /\ Len(script) \in Nat /\ Len(script) > 0 /\ Len(script') = Len(script) - 1
      /\ begun' = script[1] /\ \A k \in 1..Len(script') : script'[k] = script[k + 1]
  BY <1>0, <1>1, HeadTailProperties
<1>3. Begun \in Nat /\ Begun + Len(script) = Len(story) /\ Begun' = Begun + 1
  BY <1>0, <1>1, <1>2, StoryIsNumbered DEF Picking, Storyline, Begun
<1>4. begun' = story[Begun + 1] /\ story[Begun + 1].n = Begun + 1
  BY <1>0, <1>2, <1>3, StoryIsNumbered DEF Picking, Storyline
<1>5. Storyline'
  <2>1. ASSUME NEW k \in 1..Len(script') PROVE script'[k] = story[Begun + 1 + k]
    <3>1. k + 1 \in 1..Len(script) /\ Begun + (k + 1) = Begun + 1 + k
      BY <1>2, <1>3
    <3>. QED  BY <1>2, <3>1 DEF Picking, Storyline
  <2>. QED  BY <1>1, <1>3, <1>4, <2>1 DEF Storyline
<1>6. ASSUME NEW k \in 1..Begun'
      PROVE  story'[k].kind = "empty" \/ story'[k] = begun' \/ story'[k] \in Elements(given')
  <2>1. CASE k = Begun + 1
    BY <1>1, <1>4, <2>1
  <2>2. CASE k # Begun + 1
    <3>1. k \in 1..Begun /\ story[k] # None
      BY <1>0, <1>2, <1>3, <2>2, StoryIsNumbered
    <3>. QED  BY <1>1, <3>1 DEF Picking, PickedUp
  <2>. QED  BY <2>1, <2>2
<1>7. ASSUME NEW a \in 1..Len(given') PROVE given'[a].n <= Begun' /\ given'[a].n < begun'.n
  BY <1>0, <1>1, <1>3, <1>4, StoryIsNumbered DEF Picking, PickedUp
<1>8. \A a, b \in 1..Len(given') :
        a < b /\ given'[a].n # 0 /\ given'[b].n # 0 => given'[a].n < given'[b].n
  BY <1>1 DEF Picking, PickedUp
<1>. QED  BY <1>5, <1>6, <1>7, <1>8 DEF Picking, PickedUp

LEMMA PassByPicking ==
  ASSUME IInv, Picking, NEW r \in Readers, PassBy(r)
  PROVE  Picking'
<1>1. begun.kind = "empty" /\ begun' = None /\ UNCHANGED <<script, given, story>>
  BY DEF PassBy
<1>2. Begun' = Begun /\ Storyline'
  BY <1>1 DEF Picking, Storyline, Begun
<1>3. PickedUp'
  BY <1>1, <1>2 DEF Picking, PickedUp
<1>. QED  BY <1>2, <1>3 DEF Picking

LEMMA AnsweredPicking ==
  ASSUME IInv, Picking, NEW r \in Readers, Answered(r)
  PROVE  Picking'
<1>1. begun # None /\ begun' = None /\ UNCHANGED <<script, story>> /\ given' = Append(given, begun)
  BY DEF Answered
<1>2. begun \in Answer /\ given \in Seq(Answer) /\ TypeOK
  BY <1>1 DEF IInv, TypeOK
<1>3. /\ Len(given) \in Nat /\ Len(given') = Len(given) + 1
      /\ \A k \in 1..Len(given) : given'[k] = given[k]
      /\ given'[Len(given')] = begun /\ begun \in Elements(given')
      /\ Elements(given) \subseteq Elements(given')
  BY <1>1, <1>2, HandOut
<1>4. Begun' = Begun /\ Begun \in Nat /\ Storyline'
  BY <1>1 DEF Picking, Storyline, Begun
<1>5. begun.n = Begun
  <2>1. Begun \in 1..Len(story) /\ begun = story[Begun]
    BY <1>1, <1>2, <1>4, StoryIsNumbered DEF Picking, Storyline, Begun
  <2>. QED  BY <1>2, <2>1, StoryIsNumbered
<1>6. \A k \in 1..Begun' :
        story'[k].kind = "empty" \/ story'[k] = begun' \/ story'[k] \in Elements(given')
  BY <1>1, <1>3, <1>4 DEF Picking, PickedUp
<1>7. ASSUME NEW x \in 1..Len(given'), NEW y \in 1..Len(given'),
             x < y, given'[x].n # 0, given'[y].n # 0
      PROVE  given'[x].n < given'[y].n
  <2>1. x \in 1..Len(given) /\ given'[x] = given[x]
    BY <1>3, <1>7
  <2>2. CASE y \in 1..Len(given)
    BY <1>3, <1>7, <2>1, <2>2 DEF Picking, PickedUp
  <2>3. CASE y = Len(given')
    BY <1>1, <1>3, <2>1, <2>3 DEF Picking, PickedUp
  <2>. QED  BY <1>3, <2>2, <2>3
<1>8. ASSUME NEW x \in 1..Len(given') PROVE given'[x].n <= Begun'
  BY <1>3, <1>4, <1>5 DEF Picking, PickedUp
<1>. QED  BY <1>1, <1>4, <1>6, <1>7, <1>8 DEF Picking, PickedUp

LEMMA NextPicking == IInv /\ Picking /\ [Next]_vars => Picking'
<1> SUFFICES ASSUME IInv, Picking, [Next]_vars PROVE Picking'
  OBVIOUS
<1>0. CASE UNCHANGED vars
  BY <1>0, NothingPicked DEF vars
<1>n. ASSUME NEW r \in Readers,
             StartRead(r) \/ Ask(r) \/ EndAgain(r) \/ Begin(r) \/ PassBy(r) \/ Answered(r)
               \/ CancelRead(r)
      PROVE  Picking'
  <2>1. CASE StartRead(r) \/ Ask(r) \/ CancelRead(r)
    BY <2>1, NothingPicked DEF StartRead, Ask, CancelRead
  <2>2. CASE EndAgain(r)
    BY <2>2, EndAgainPicking
  <2>3. CASE Begin(r)
    BY <2>3, BeginPicking
  <2>4. CASE PassBy(r)
    BY <2>4, PassByPicking
  <2>5. CASE Answered(r)
    BY <2>5, AnsweredPicking
  <2>. QED  BY <1>n, <2>1, <2>2, <2>3, <2>4, <2>5
<1>. QED  BY <1>0, <1>n DEF Next

\* "A read that is given up half-way is picked up by the next call instead of losing a chunk",
\* however many tasks share the reader and whatever the stream has to say.
THEOREM PickedUpHolds == Spec => []PickedUp
<1>1. Picking => PickedUp
  BY DEF Picking
<1>. QED  BY <1>1, InvariantHolds, InitPicking, NextPicking, PTL DEF Spec
=============================================================================
