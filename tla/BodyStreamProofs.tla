-------------------------- MODULE BodyStreamProofs --------------------------
(***************************************************************************)
(* What holds of the body channel for any number of producers and readers, *)
(* any buffer, and any number of calls.                                    *)
(*                                                                         *)
(* The inductive invariant says how the lines of waiting tasks and the     *)
(* receiver hang together (SendLine, ReadLine), and what the buffer is     *)
(* between the two histories (Flow, Room); the safety invariants of        *)
(* BodyStream are its consequences.  On it rest the refinement of          *)
(* BodyDelivery, what becomes of the chunks behind the channel, and at the *)
(* end what the pump and the handler make of it.                           *)
(***************************************************************************)
EXTENDS BodyPump, TaskLinesProofs, FiniteSetTheorems

\* A task with a send in progress holds the sender and either waits for a permit or was given one.
SendLine ==
  /\ NoRepeat(parked)
  /\ granted \cap Elements(parked) = {}
  /\ \A p \in Producers : pending[p] # NoItem <=> p \in granted \cup Elements(parked)
  /\ \A p \in Producers : pending[p] # NoItem => p \in senders

\* A task with a read in progress holds the reader and is in the line for the lock.
ReadLine ==
  /\ NoRepeat(turns)
  /\ \A r \in Readers : r \in Elements(turns) <=> call[r] # "idle"
  /\ \A r \in Readers : call[r] # "idle" => r \in holders

\* The receiver is in one place only.
OneReceiver == holders # {} => stream = "Taken"

Flow ==
  /\ Open => received \o queue = sent
  /\ ~Open => queue = <<>>
  /\ IsPrefixOf(received, sent)

Room ==
  Open => /\ Len(queue) + Cardinality(granted) <= Capacity
          /\ parked # <<>> => Len(queue) + Cardinality(granted) = Capacity

IInv == TypeOK /\ SendLine /\ ReadLine /\ OneReceiver /\ Flow /\ Room /\ EndIsTrue /\ GoneIsTrue

-----------------------------------------------------------------------------
(* What the actions have in common *)

LEMMA Sizing == /\ Capacity \in Nat
                /\ \A g \in SUBSET Producers : IsFiniteSet(g) /\ Cardinality(g) \in Nat
<1>1. Capacity \in Nat
  BY BodyStreamAssumption DEF Capacity
<1>2. \A g \in SUBSET Producers : IsFiniteSet(g) /\ Cardinality(g) \in Nat
  BY BodyStreamAssumption, FS_Subset, FS_CardinalityType
<1>. QED  BY <1>1, <1>2

\* A permit changes hands: the tasks that wait or have one stay the same, and there is one more
\* that has one if there was one that waited.
LEMMA PermitPassed ==
  ASSUME NEW having \in SUBSET Producers, PassPermit(parked, having),
         parked \in Seq(Producers), NoRepeat(parked), having \cap Elements(parked) = {}
  PROVE  /\ parked' \in Seq(Producers) /\ granted' \in SUBSET Producers
         /\ NoRepeat(parked')
         /\ granted' \cap Elements(parked') = {}
         /\ granted' \cup Elements(parked') = having \cup Elements(parked)
         /\ parked = <<>> => parked' = <<>> /\ Cardinality(granted') = Cardinality(having)
         /\ parked # <<>> => Cardinality(granted') = Cardinality(having) + 1
<1>1. CASE parked = <<>>
  BY <1>1 DEF PassPermit
<1>2. CASE parked # <<>>
  <2>1. parked' = Tail(parked) /\ granted' = having \cup {Head(parked)}
    BY <1>2 DEF PassPermit
  <2>2. /\ Head(parked) \in Producers /\ Tail(parked) \in Seq(Producers)
        /\ Head(parked) \in Elements(parked)
        /\ NoRepeat(Tail(parked)) /\ Elements(Tail(parked)) = Elements(parked) \ {Head(parked)}
    BY <1>2, LeaveFront
  <2>3. Cardinality(having \cup {Head(parked)}) = Cardinality(having) + 1
    BY <2>2, Sizing, FS_AddElement
  <2>. QED  BY <1>2, <2>1, <2>2, <2>3
<1>. QED  BY <1>1, <1>2

\* An item goes into the buffer of an open channel.
LEMMA Pushed ==
  ASSUME IInv, Open, NEW p \in Producers, NEW i \in Item, Push(p, i)
  PROVE  /\ queue' \in Seq(Item) /\ sent' \in Seq(Item) /\ Len(queue') = Len(queue) + 1
         /\ answer' \in [Producers -> {"none", "true", "false"}]
         /\ \A q \in Producers : answer'[q] = "false" => answer[q] = "false"
         /\ received \o queue' = sent'
         /\ IsPrefixOf(received, sent')
<1>1. /\ queue \in Seq(Item) /\ sent \in Seq(Item) /\ received \in Seq(Item)
      /\ answer \in [Producers -> {"none", "true", "false"}]
      /\ received \o queue = sent /\ IsPrefixOf(received, sent)
  BY DEF IInv, TypeOK, Flow
<1>2. queue' = Append(queue, i) /\ sent' = Append(sent, i)
  BY DEF Push
<1>3. /\ queue' \in Seq(Item) /\ Len(queue') = Len(queue) + 1
      /\ sent' \in Seq(Item) /\ Len(sent') = Len(sent) + 1
      /\ \A k \in 1..Len(sent) : sent'[k] = sent[k]
  BY <1>1, <1>2, AppendProperties
<1>4. received \o queue' = sent'
  BY <1>1, <1>2, PushFlow
<1>5. IsPrefixOf(received, sent')
  <2>1. Len(received) \in Nat /\ Len(sent) \in Nat /\ Len(received) <= Len(sent)
    BY <1>1, LenProperties DEF IsPrefixOf
  <2>2. ASSUME NEW k \in 1..Len(received) PROVE received[k] = sent'[k]
    <3>1. k \in 1..Len(sent)
      BY <2>1
    <3>2. received[k] = sent[k]
      BY <1>1 DEF IsPrefixOf
    <3>. QED  BY <1>3, <3>1, <3>2
  <2>3. Len(received) <= Len(sent')
    BY <1>3, <2>1
  <2>. QED  BY <2>2, <2>3 DEF IsPrefixOf
<1>6. /\ answer' \in [Producers -> {"none", "true", "false"}]
      /\ \A q \in Producers : answer'[q] = "false" => answer[q] = "false"
  BY <1>1 DEF Push, Tell
<1>. QED  BY <1>3, <1>4, <1>5, <1>6

\* A read ends: its task leaves the line for the lock.
LEMMA CallEnded ==
  ASSUME IInv, NEW r \in Readers, EndCall(r)
  PROVE  /\ call' \in [Readers -> {"idle", "next", "all"}]
         /\ limit' \in [Readers -> Nat \cup {NoLimit}]
         /\ acc' \in [Readers -> [items : Seq(Item), len : Nat]]
         /\ turns' \in Seq(Readers)
         /\ NoRepeat(turns')
         /\ \A s \in Readers : s \in Elements(turns') <=> call'[s] # "idle"
         /\ \A s \in Readers : call'[s] # "idle" => call[s] # "idle"
<1>1. /\ Nothing \in [items : Seq(Item), len : Nat]
  BY DEF Nothing
<1>2. /\ call' = [call EXCEPT ![r] = "idle"]
      /\ limit' = [limit EXCEPT ![r] = NoLimit]
      /\ acc' = [acc EXCEPT ![r] = Nothing]
      /\ turns' = Without(turns, r)
  BY DEF EndCall
<1>3. /\ call \in [Readers -> {"idle", "next", "all"}]
      /\ limit \in [Readers -> Nat \cup {NoLimit}]
      /\ acc \in [Readers -> [items : Seq(Item), len : Nat]]
      /\ turns \in Seq(Readers)
      /\ NoRepeat(turns)
      /\ \A s \in Readers : s \in Elements(turns) <=> call[s] # "idle"
  BY DEF IInv, TypeOK, ReadLine
<1>4. /\ turns' \in Seq(Readers) /\ NoRepeat(turns')
      /\ Elements(turns') = Elements(turns) \ {r}
  BY <1>2, <1>3, LeaveLine
<1>. QED  BY <1>1, <1>2, <1>3, <1>4

\* A task that has its turn holds the reader.
LEMMA TurnOpen ==
  ASSUME IInv, NEW r \in Readers, HasTurn(r)
  PROVE  Open /\ r \in Elements(turns)
<1>1. turns \in Seq(Readers) /\ turns # <<>> /\ call[r] # "idle"
  BY DEF IInv, TypeOK, HasTurn
<1>. QED  BY <1>1 DEF IInv, ReadLine, Open

\* The parts that an action does not touch.
LEMMA Untouched ==
  /\ SendLine /\ UNCHANGED <<parked, granted, pending, senders>> => SendLine'
  /\ ReadLine /\ UNCHANGED <<turns, call, holders>> => ReadLine'
  /\ OneReceiver /\ UNCHANGED <<holders, stream>> => OneReceiver'
  /\ Flow /\ UNCHANGED <<received, queue, sent, holders, stream>> => Flow'
  /\ Room /\ UNCHANGED <<queue, granted, parked, holders, stream>> => Room'
  /\ EndIsTrue /\ UNCHANGED <<seen, senders, received, sent, completed>> => EndIsTrue'
  /\ GoneIsTrue /\ UNCHANGED <<answer, holders, stream>> => GoneIsTrue'
<1>1. SendLine /\ UNCHANGED <<parked, granted, pending, senders>> => SendLine'
  BY DEF SendLine
<1>2. ReadLine /\ UNCHANGED <<turns, call, holders>> => ReadLine'
  BY DEF ReadLine
<1>3. OneReceiver /\ UNCHANGED <<holders, stream>> => OneReceiver'
  BY DEF OneReceiver
<1>4. Flow /\ UNCHANGED <<received, queue, sent, holders, stream>> => Flow'
  BY DEF Flow, Open
<1>5. Room /\ UNCHANGED <<queue, granted, parked, holders, stream>> => Room'
  BY DEF Room, Open
<1>6. EndIsTrue /\ UNCHANGED <<seen, senders, received, sent, completed>> => EndIsTrue'
  BY DEF EndIsTrue
<1>7. GoneIsTrue /\ UNCHANGED <<answer, holders, stream>> => GoneIsTrue'
  BY DEF GoneIsTrue, Open
<1>. QED  BY <1>1, <1>2, <1>3, <1>4, <1>5, <1>6, <1>7

-----------------------------------------------------------------------------
(* The actions of the sender *)

LEMMA SendEmptyStep ==
  ASSUME IInv, NEW p \in Producers, SendEmpty(p)
  PROVE  IInv'
<1>1. TypeOK'
  <2>1. calls[p] + 1 \in 0..MaxCalls
    BY BodyStreamAssumption DEF IInv, TypeOK, SendEmpty
  <2>2. calls' \in [Producers -> 0..MaxCalls]
    BY <2>1 DEF IInv, TypeOK, SendEmpty
  <2>3. answer' \in [Producers -> {"none", "true", "false"}]
    BY DEF IInv, TypeOK, SendEmpty
  <2>. QED  BY <2>2, <2>3 DEF IInv, TypeOK, SendEmpty, readerVars, readLog
<1>2. GoneIsTrue'
  BY DEF IInv, TypeOK, SendEmpty, readerVars, GoneIsTrue, Open
<1>3. SendLine' /\ ReadLine' /\ OneReceiver' /\ Flow' /\ Room' /\ EndIsTrue'
  BY Untouched DEF IInv, SendEmpty, readerVars, readLog
<1>. QED  BY <1>1, <1>2, <1>3 DEF IInv

LEMMA SendStep ==
  ASSUME IInv, NEW p \in Producers, NEW kind \in {"chunk", "error"}, NEW size \in Sizes \cup {0},
         Send(p, kind, size)
  PROVE  IInv'
<1> DEFINE i == NewItem(p, kind, size)
<1>1. i \in Item
  BY BodyStreamAssumption DEF IInv, TypeOK, Send, NewItem, Item
<1>2. /\ p \in senders /\ pending[p] = NoItem
      /\ calls' = [calls EXCEPT ![p] = @ + 1] /\ calls' \in [Producers -> 0..MaxCalls]
      /\ UNCHANGED <<senders, completed, granted, stream, holders, turns, call, limit, acc,
                     received, seen, got, lost>>
  BY BodyStreamAssumption DEF IInv, TypeOK, Send, Idle, readerVars, readLog
<1>3. ReadLine' /\ OneReceiver'
  BY <1>2, Untouched DEF IInv
<1>4. EndIsTrue'
  BY <1>2 DEF IInv, EndIsTrue
<1> HIDE DEF i
<1>5. CASE ~Open /\ Tell(p, i, "false") /\ UNCHANGED <<parked, pending, queue, sent>>
  <2>1. TypeOK'
    BY <1>1, <1>2, <1>5 DEF IInv, TypeOK, Tell
  <2>2. SendLine' /\ Flow' /\ Room'
    BY <1>2, <1>5, Untouched DEF IInv
  <2>3. GoneIsTrue'
    BY <1>2, <1>5 DEF IInv, GoneIsTrue, Open
  <2>. QED  BY <1>3, <1>4, <2>1, <2>2, <2>3 DEF IInv
<1>6. CASE Open /\ Free > 0 /\ Push(p, i) /\ UNCHANGED <<parked, pending>>
  <2>1. /\ queue' \in Seq(Item) /\ sent' \in Seq(Item) /\ Len(queue') = Len(queue) + 1
        /\ answer' \in [Producers -> {"none", "true", "false"}]
        /\ \A q \in Producers : answer'[q] = "false" => answer[q] = "false"
        /\ received \o queue' = sent' /\ IsPrefixOf(received, sent')
    BY <1>1, <1>6, Pushed
  <2>2. TypeOK'
    BY <1>2, <1>6, <2>1 DEF IInv, TypeOK
  <2>3. SendLine'
    BY <1>2, <1>6, Untouched DEF IInv
  <2>4. Flow'
    BY <1>2, <1>6, <2>1 DEF Flow, Open
  <2>5. Room'
    <3>1. Len(queue) \in Nat /\ Cardinality(granted) \in Nat /\ Capacity \in Nat
      BY Sizing DEF IInv, TypeOK
    <3>. QED  BY <1>2, <1>6, <2>1, <3>1 DEF IInv, Room, Open, Free
  <2>6. GoneIsTrue'
    BY <1>2, <2>1 DEF IInv, GoneIsTrue, Open
  <2>. QED  BY <1>3, <1>4, <2>2, <2>3, <2>4, <2>5, <2>6 DEF IInv
<1>7. CASE /\ Open /\ Free = 0
           /\ parked' = Append(parked, p)
           /\ pending' = [pending EXCEPT ![p] = i]
           /\ UNCHANGED <<answer, queue, sent>>
  <2>1. /\ parked \in Seq(Producers) /\ NoRepeat(parked)
        /\ p \notin granted /\ p \notin Elements(parked)
    BY <1>2 DEF IInv, TypeOK, SendLine
  <2>2. /\ parked' \in Seq(Producers) /\ NoRepeat(parked')
        /\ Elements(parked') = Elements(parked) \cup {p}
    BY <1>7, <2>1, JoinLine
  <2>3. TypeOK'
    BY <1>1, <1>2, <1>7, <2>2 DEF IInv, TypeOK
  <2>4. SendLine'
    <3>1. \A q \in Producers : pending'[q] # NoItem <=> (pending[q] # NoItem \/ q = p)
      BY <1>1, <1>7, BodyStreamAssumption DEF IInv, TypeOK
    <3>. QED  BY <1>2, <2>1, <2>2, <3>1 DEF IInv, SendLine
  <2>5. Flow' /\ GoneIsTrue'
    BY <1>2, <1>7, Untouched DEF IInv
  <2>6. Room'
    <3>1. Len(queue) \in Nat /\ Cardinality(granted) \in Nat /\ Capacity \in Nat
      BY Sizing DEF IInv, TypeOK
    <3>. QED  BY <1>2, <1>7, <3>1 DEF IInv, Room, Open, Free
  <2>. QED  BY <1>3, <1>4, <2>3, <2>4, <2>5, <2>6 DEF IInv
<1>. QED  BY <1>5, <1>6, <1>7 DEF Send, i

LEMMA SendGrantedStep ==
  ASSUME IInv, NEW p \in Producers, SendGranted(p)
  PROVE  IInv'
<1>1. /\ p \in granted /\ Open
      /\ pending[p] \in Item /\ p \in senders
      /\ Push(p, pending[p])
      /\ granted' = granted \ {p}
      /\ pending' = [pending EXCEPT ![p] = NoItem]
      /\ UNCHANGED <<senders, completed, parked, calls, stream, holders, turns, call, limit, acc,
                     received, seen, got, lost>>
  BY DEF IInv, TypeOK, SendLine, SendGranted, readerVars, readLog
<1>2. /\ queue' \in Seq(Item) /\ sent' \in Seq(Item) /\ Len(queue') = Len(queue) + 1
      /\ answer' \in [Producers -> {"none", "true", "false"}]
      /\ \A q \in Producers : answer'[q] = "false" => answer[q] = "false"
      /\ received \o queue' = sent' /\ IsPrefixOf(received, sent')
  BY <1>1, Pushed
<1>3. TypeOK'
  BY <1>1, <1>2 DEF IInv, TypeOK
<1>4. SendLine'
  BY <1>1 DEF IInv, TypeOK, SendLine
<1>5. ReadLine' /\ OneReceiver'
  BY <1>1, Untouched DEF IInv
<1>6. Flow'
  BY <1>1, <1>2 DEF Flow, Open
<1>7. Room'
  <2>1. /\ Len(queue) \in Nat /\ Capacity \in Nat
        /\ granted \in SUBSET Producers
    BY Sizing DEF IInv, TypeOK
  <2>2. IsFiniteSet(granted) /\ Cardinality(granted) \in Nat
    BY <2>1, Sizing
  <2>3. Cardinality(granted') = Cardinality(granted) - 1
    BY <1>1, <2>2, FS_RemoveElement
  <2>4. /\ Len(queue) + Cardinality(granted) <= Capacity
        /\ parked # <<>> => Len(queue) + Cardinality(granted) = Capacity
    BY <1>1 DEF IInv, Room
  <2>5. Len(queue') + Cardinality(granted') = Len(queue) + Cardinality(granted)
    BY <1>2, <2>1, <2>2, <2>3
  <2>. QED  BY <1>1, <2>4, <2>5 DEF Room
<1>8. EndIsTrue'
  BY <1>1 DEF IInv, EndIsTrue
<1>9. GoneIsTrue'
  BY <1>1, <1>2 DEF IInv, GoneIsTrue, Open
<1>. QED  BY <1>3, <1>4, <1>5, <1>6, <1>7, <1>8, <1>9 DEF IInv

LEMMA SendRefusedStep ==
  ASSUME IInv, NEW p \in Producers, SendRefused(p)
  PROVE  IInv'
<1>1. /\ ~Open
      /\ Tell(p, pending[p], "false")
      /\ parked' = Without(parked, p)
      /\ granted' = granted \ {p}
      /\ pending' = [pending EXCEPT ![p] = NoItem]
      /\ UNCHANGED <<senders, completed, calls, stream, holders, turns, call, limit, acc,
                     received, seen, got, lost, queue, sent>>
  BY DEF SendRefused, readerVars, readLog
<1>2. /\ parked' \in Seq(Producers) /\ NoRepeat(parked')
      /\ Elements(parked') = Elements(parked) \ {p}
  BY <1>1, LeaveLine DEF IInv, TypeOK, SendLine
<1>3. TypeOK'
  BY <1>1, <1>2 DEF IInv, TypeOK, Tell
<1>4. SendLine'
  BY <1>1, <1>2 DEF IInv, TypeOK, SendLine
<1>5. ReadLine' /\ OneReceiver' /\ Flow' /\ EndIsTrue'
  BY <1>1, Untouched DEF IInv
<1>6. Room' /\ GoneIsTrue'
  BY <1>1 DEF Room, GoneIsTrue, Open
<1>. QED  BY <1>3, <1>4, <1>5, <1>6 DEF IInv

LEMMA CancelSendStep ==
  ASSUME IInv, NEW p \in Producers, CancelSend(p)
  PROVE  IInv'
<1>1. /\ IF p \in granted
           THEN PassPermit(parked, granted \ {p})
           ELSE parked' = Without(parked, p) /\ granted' = granted
      /\ pending' = [pending EXCEPT ![p] = NoItem]
      /\ UNCHANGED <<senders, completed, calls, answer, stream, holders, turns, call, limit, acc,
                     received, seen, got, lost, queue, sent>>
  BY DEF CancelSend, readerVars, readLog
<1>2. /\ parked \in Seq(Producers) /\ NoRepeat(parked) /\ granted \in SUBSET Producers
      /\ granted \cap Elements(parked) = {}
  BY DEF IInv, TypeOK, SendLine
<1>3. Len(queue) \in Nat /\ Capacity \in Nat /\ Cardinality(granted) \in Nat
  BY <1>2, Sizing DEF IInv, TypeOK
<1>4. /\ parked' \in Seq(Producers) /\ NoRepeat(parked') /\ granted' \in SUBSET Producers
      /\ granted' \cap Elements(parked') = {}
      /\ granted' \cup Elements(parked') = (granted \cup Elements(parked)) \ {p}
      /\ Cardinality(granted') <= Cardinality(granted)
      /\ parked' # <<>> => parked # <<>> /\ Cardinality(granted') = Cardinality(granted)
  <2>1. CASE p \in granted
    <3>1. /\ granted \ {p} \in SUBSET Producers
          /\ (granted \ {p}) \cap Elements(parked) = {}
          /\ Cardinality(granted \ {p}) = Cardinality(granted) - 1
      BY <1>2, <2>1, Sizing, FS_RemoveElement
    <3>2. PassPermit(parked, granted \ {p})
      BY <1>1, <2>1
    <3>3. /\ parked' \in Seq(Producers) /\ granted' \in SUBSET Producers
          /\ NoRepeat(parked')
          /\ granted' \cap Elements(parked') = {}
          /\ granted' \cup Elements(parked') = (granted \ {p}) \cup Elements(parked)
          /\ parked = <<>> => parked' = <<>> /\ Cardinality(granted') = Cardinality(granted \ {p})
          /\ parked # <<>> => Cardinality(granted') = Cardinality(granted \ {p}) + 1
      BY <1>2, <3>1, <3>2, PermitPassed
    <3>. QED  BY <1>2, <1>3, <2>1, <3>1, <3>3
  <2>2. CASE p \notin granted
    <3>1. /\ parked' \in Seq(Producers) /\ NoRepeat(parked')
          /\ Elements(parked') = Elements(parked) \ {p}
      BY <1>1, <1>2, <2>2, LeaveLine
    <3>2. parked = <<>> => parked' = <<>>
      BY <1>1, <2>2 DEF Without, Elements
    <3>. QED  BY <1>1, <1>2, <1>3, <2>2, <3>1, <3>2
  <2>. QED  BY <2>1, <2>2
<1>5. TypeOK'
  BY <1>1, <1>4 DEF IInv, TypeOK
<1>6. SendLine'
  BY <1>1, <1>4 DEF IInv, TypeOK, SendLine
<1>7. ReadLine' /\ OneReceiver' /\ Flow' /\ EndIsTrue' /\ GoneIsTrue'
  BY <1>1, Untouched DEF IInv
<1>8. Room'
  <2>1. Cardinality(granted') \in Nat
    BY <1>4, Sizing
  <2>. QED  BY <1>1, <1>3, <1>4, <2>1 DEF IInv, Room, Open
<1>. QED  BY <1>5, <1>6, <1>7, <1>8 DEF IInv

LEMMA ClosedStep ==
  ASSUME IInv, NEW p \in Producers, Closed(p)
  PROVE  IInv'
<1>1. TypeOK'
  BY DEF IInv, TypeOK, Closed, readerVars, readLog
<1>2. GoneIsTrue'
  BY DEF Closed, readerVars, GoneIsTrue, Open
<1>3. SendLine' /\ ReadLine' /\ OneReceiver' /\ Flow' /\ Room' /\ EndIsTrue'
  BY Untouched DEF IInv, Closed, readerVars, readLog
<1>. QED  BY <1>1, <1>2, <1>3 DEF IInv

\* The flag can still change only while there is a sender, and then nobody was told of an end.
LEMMA FinishStep ==
  ASSUME IInv, NEW p \in Producers, Finish(p)
  PROVE  IInv'
<1>1. TypeOK'
  BY DEF IInv, TypeOK, Finish, readerVars, readLog
<1>2. EndIsTrue'
  BY DEF IInv, EndIsTrue, Finish, readLog
<1>3. SendLine' /\ ReadLine' /\ OneReceiver' /\ Flow' /\ Room' /\ GoneIsTrue'
  BY Untouched DEF IInv, Finish, readerVars, readLog
<1>. QED  BY <1>1, <1>2, <1>3 DEF IInv

LEMMA DropSenderStep ==
  ASSUME IInv, NEW p \in Producers, DropSender(p)
  PROVE  IInv'
<1>1. TypeOK'
  BY DEF IInv, TypeOK, DropSender, readerVars, readLog
<1>2. SendLine'
  BY DEF IInv, SendLine, DropSender, Idle
<1>3. EndIsTrue'
  BY DEF IInv, EndIsTrue, DropSender, readLog
<1>4. ReadLine' /\ OneReceiver' /\ Flow' /\ Room' /\ GoneIsTrue'
  BY Untouched DEF IInv, DropSender, readerVars, readLog
<1>. QED  BY <1>1, <1>2, <1>3, <1>4 DEF IInv

-----------------------------------------------------------------------------
(* The actions of the reader *)

LEMMA GetBodyReaderStep ==
  ASSUME IInv, NEW r \in Readers, GetBodyReader(r)
  PROVE  IInv'
<1>1. /\ stream = "Ready" /\ stream' = "Taken" /\ holders' = {r} /\ Open /\ Open'
      /\ UNCHANGED <<turns, call, limit, acc, senders, completed, parked, granted, pending, calls,
                     answer, received, seen, got, lost, queue, sent>>
  BY DEF GetBodyReader, senderVars, readLog, Open
<1>2. TypeOK'
  BY <1>1 DEF IInv, TypeOK
<1>3. ReadLine'
  BY <1>1 DEF IInv, ReadLine, OneReceiver
<1>4. OneReceiver' /\ Flow' /\ Room' /\ GoneIsTrue'
  BY <1>1 DEF IInv, OneReceiver, Flow, Room, GoneIsTrue
<1>5. SendLine' /\ EndIsTrue'
  BY <1>1, Untouched DEF IInv
<1>. QED  BY <1>2, <1>3, <1>4, <1>5 DEF IInv

LEMMA ShareReaderStep ==
  ASSUME IInv, NEW r \in Readers, NEW s \in Readers, ShareReader(r, s)
  PROVE  IInv'
<1>1. /\ r \in holders /\ holders' = holders \cup {s} /\ Open /\ Open'
      /\ UNCHANGED <<stream, turns, call, limit, acc, senders, completed, parked, granted, pending,
                     calls, answer, received, seen, got, lost, queue, sent>>
  BY DEF ShareReader, senderVars, readLog, Open
<1>2. TypeOK'
  BY <1>1 DEF IInv, TypeOK
<1>3. ReadLine' /\ OneReceiver' /\ Flow' /\ Room' /\ GoneIsTrue'
  BY <1>1 DEF IInv, ReadLine, OneReceiver, Flow, Room, GoneIsTrue
<1>4. SendLine' /\ EndIsTrue'
  BY <1>1, Untouched DEF IInv
<1>. QED  BY <1>2, <1>3, <1>4 DEF IInv

LEMMA StartReadStep ==
  ASSUME IInv, NEW r \in Readers, NEW kind \in {"next", "all"}, NEW max \in Limits \cup {NoLimit},
         StartRead(r, kind, max)
  PROVE  IInv'
<1>1. /\ r \in holders /\ call[r] = "idle"
      /\ call' = [call EXCEPT ![r] = kind]
      /\ limit' = [limit EXCEPT ![r] = max]
      /\ turns' = Append(turns, r)
      /\ UNCHANGED <<stream, holders, acc, senders, completed, parked, granted, pending, calls,
                     answer, received, seen, got, lost, queue, sent>>
  BY DEF StartRead, senderVars, readLog
<1>2. /\ turns' \in Seq(Readers) /\ NoRepeat(turns') /\ Elements(turns') = Elements(turns) \cup {r}
  BY <1>1, JoinLine DEF IInv, TypeOK, ReadLine
<1>3. TypeOK'
  BY <1>1, <1>2, BodyStreamAssumption DEF IInv, TypeOK
<1>4. ReadLine'
  BY <1>1, <1>2 DEF IInv, TypeOK, ReadLine
<1>5. SendLine' /\ OneReceiver' /\ Flow' /\ Room' /\ EndIsTrue' /\ GoneIsTrue'
  BY <1>1, Untouched DEF IInv
<1>. QED  BY <1>3, <1>4, <1>5 DEF IInv

\* What a task that was given item i does with it, of either call.
LEMMA ItemTaken ==
  ASSUME IInv, NEW r \in Readers, HasTurn(r), NEW i \in Item,
         IF call[r] = "next" THEN HandOver(r, i) ELSE Gather(r, i),
         UNCHANGED <<holders, stream>>
  PROVE  /\ call' \in [Readers -> {"idle", "next", "all"}]
         /\ limit' \in [Readers -> Nat \cup {NoLimit}]
         /\ acc' \in [Readers -> [items : Seq(Item), len : Nat]]
         /\ turns' \in Seq(Readers)
         /\ got' \in [Readers -> Seq(Item)]
         /\ lost' \in SUBSET Item
         /\ ReadLine'
<1>1. /\ acc[r] \in [items : Seq(Item), len : Nat] /\ got[r] \in Seq(Item)
      /\ got \in [Readers -> Seq(Item)] /\ lost \in SUBSET Item
      /\ acc \in [Readers -> [items : Seq(Item), len : Nat]]
      /\ \A s \in Readers : call[s] # "idle" => s \in holders
  BY DEF IInv, TypeOK, ReadLine
<1>2. i.size \in Nat
  <2>1. i.size \in Sizes \cup {0}
    BY DEF Item
  <2>2. Sizes \subseteq Nat
    BY BodyStreamAssumption
  <2>3. \A n \in Sizes : n \in Nat
    BY <2>2
  <2>. QED  BY <2>1, <2>3
<1>3. Gathered(r) \in SUBSET Item
  BY <1>1 DEF Gathered, Elements
<1>4. CASE EndCall(r)
  <2>1. /\ call' \in [Readers -> {"idle", "next", "all"}]
        /\ limit' \in [Readers -> Nat \cup {NoLimit}]
        /\ acc' \in [Readers -> [items : Seq(Item), len : Nat]]
        /\ turns' \in Seq(Readers)
        /\ NoRepeat(turns')
        /\ \A s \in Readers : s \in Elements(turns') <=> call'[s] # "idle"
        /\ \A s \in Readers : call'[s] # "idle" => call[s] # "idle"
    BY <1>4, CallEnded
  <2>2. ReadLine'
    BY <1>1, <2>1 DEF ReadLine
  <2>3. got' \in [Readers -> Seq(Item)]
    <3>1. Append(got[r], i) \in Seq(Item)
      BY <1>1, AppendProperties
    <3>2. \/ got' = got \/ got' = [got EXCEPT ![r] = Append(@, i)]
          \/ got' = got /\ acc' = [acc EXCEPT ![r] = [items |-> Append(@.items, i), len |-> @.len + i.size]]
      BY DEF HandOver, Gather
    <3>. QED  BY <1>1, <3>1, <3>2
  <2>4. lost' \in SUBSET Item
    BY <1>1, <1>3 DEF HandOver, Gather
  <2>. QED  BY <2>1, <2>2, <2>3, <2>4
<1>5. CASE /\ acc' = [acc EXCEPT ![r] = [items |-> Append(@.items, i), len |-> @.len + i.size]]
           /\ turns' = Append(Tail(turns), r)
           /\ UNCHANGED <<call, limit, got, lost>>
  <2>1. [items |-> Append(acc[r].items, i), len |-> acc[r].len + i.size] \in [items : Seq(Item), len : Nat]
    BY <1>1, <1>2, AppendProperties
  <2>2. acc' \in [Readers -> [items : Seq(Item), len : Nat]]
    BY <1>1, <1>5, <2>1
  <2>3. /\ turns \in Seq(Readers) /\ turns # <<>> /\ Head(turns) = r /\ NoRepeat(turns)
    BY DEF IInv, TypeOK, ReadLine, HasTurn
  <2>4. /\ Tail(turns) \in Seq(Readers) /\ NoRepeat(Tail(turns))
        /\ Elements(Tail(turns)) = Elements(turns) \ {r} /\ r \in Elements(turns)
    BY <2>3, LeaveFront
  <2>5. /\ turns' \in Seq(Readers) /\ NoRepeat(turns') /\ Elements(turns') = Elements(turns)
    <3> DEFINE rest == Tail(turns)
    <3>1. rest \in Seq(Readers) /\ NoRepeat(rest) /\ r \notin Elements(rest)
      BY <2>4
    <3> HIDE DEF rest
    <3>2. /\ Append(rest, r) \in Seq(Readers) /\ NoRepeat(Append(rest, r))
          /\ Elements(Append(rest, r)) = Elements(rest) \cup {r}
      BY <3>1, JoinLine
    <3>. QED  BY <1>5, <2>4, <3>2 DEF rest
  <2>6. ReadLine'
    BY <1>5, <2>5 DEF IInv, ReadLine
  <2>. QED  BY <1>5, <2>2, <2>5, <2>6 DEF IInv, TypeOK
<1>. QED  BY <1>4, <1>5 DEF HandOver, Gather

LEMMA ReceiveStep ==
  ASSUME IInv, NEW r \in Readers, Receive(r)
  PROVE  IInv'
<1> DEFINE i == Head(queue)
<1>1. /\ HasTurn(r) /\ queue # <<>>
      /\ queue' = Tail(queue)
      /\ PassPermit(parked, granted)
      /\ received' = Append(received, i)
      /\ IF call[r] = "next" THEN HandOver(r, i) ELSE Gather(r, i)
      /\ UNCHANGED <<stream, holders, senders, completed, pending, calls, answer, seen, sent>>
  BY DEF Receive
<1>2. Open
  BY <1>1, TurnOpen
<1>3. /\ queue \in Seq(Item) /\ received \in Seq(Item) /\ sent \in Seq(Item)
      /\ received \o queue = sent
  BY <1>2 DEF IInv, TypeOK, Flow
<1>4. i \in Item /\ queue' \in Seq(Item) /\ Len(queue') = Len(queue) - 1
  BY <1>1, <1>3, HeadTailProperties
<1>5. received' \in Seq(Item)
  BY <1>1, <1>3, <1>4, AppendProperties
<1>6. /\ parked \in Seq(Producers) /\ NoRepeat(parked) /\ granted \in SUBSET Producers
      /\ granted \cap Elements(parked) = {}
  BY DEF IInv, TypeOK, SendLine
<1>7. /\ parked' \in Seq(Producers) /\ granted' \in SUBSET Producers /\ NoRepeat(parked')
      /\ granted' \cap Elements(parked') = {}
      /\ granted' \cup Elements(parked') = granted \cup Elements(parked)
      /\ parked = <<>> => parked' = <<>> /\ Cardinality(granted') = Cardinality(granted)
      /\ parked # <<>> => Cardinality(granted') = Cardinality(granted) + 1
  BY <1>1, <1>6, PermitPassed
<1>8. /\ call' \in [Readers -> {"idle", "next", "all"}]
      /\ limit' \in [Readers -> Nat \cup {NoLimit}]
      /\ acc' \in [Readers -> [items : Seq(Item), len : Nat]]
      /\ turns' \in Seq(Readers)
      /\ got' \in [Readers -> Seq(Item)]
      /\ lost' \in SUBSET Item
      /\ ReadLine'
  BY <1>1, <1>4, ItemTaken
<1>9. TypeOK'
  BY <1>1, <1>4, <1>5, <1>7, <1>8 DEF IInv, TypeOK
<1>10. SendLine'
  BY <1>1, <1>7 DEF IInv, SendLine
<1>11. OneReceiver' /\ GoneIsTrue'
  BY <1>1, Untouched DEF IInv
<1>12. Flow'
  <2>1. received' \o queue' = sent
    BY <1>1, <1>3, TakeFlow
  <2>2. IsPrefixOf(received', sent)
    BY <1>4, <1>5, <2>1, ConcatProperties DEF IsPrefixOf
  <2>. QED  BY <1>1, <1>2, <2>1, <2>2 DEF Flow, Open
<1>13. Room'
  <2>1. Len(queue) \in Nat /\ Capacity \in Nat /\ Cardinality(granted) \in Nat
    BY <1>3, <1>6, Sizing
  <2>2. /\ Len(queue) + Cardinality(granted) <= Capacity
        /\ parked # <<>> => Len(queue) + Cardinality(granted) = Capacity
    BY <1>2 DEF IInv, Room
  <2>. QED  BY <1>4, <1>7, <2>1, <2>2 DEF Room
<1>14. EndIsTrue'
  <2>1. received # sent
    BY <1>1, <1>3, ConcatEqualIffEmpty
  <2>. QED  BY <1>1, <2>1 DEF IInv, EndIsTrue
<1>. QED  BY <1>8, <1>9, <1>10, <1>11, <1>12, <1>13, <1>14 DEF IInv

LEMMA ReceiveEndStep ==
  ASSUME IInv, NEW r \in Readers, ReceiveEnd(r)
  PROVE  IInv'
<1>1. /\ HasTurn(r) /\ queue = <<>> /\ senders = {}
      /\ seen' = seen \cup {EndOfBody}
      /\ IF EndOfBody = "eof"
           THEN got' = [got EXCEPT ![r] = @ \o acc[r].items] /\ lost' = lost
           ELSE got' = got /\ lost' = lost \cup Gathered(r)
      /\ EndCall(r)
      /\ UNCHANGED <<stream, holders, senders, completed, parked, granted, pending, calls, answer,
                     received, queue, sent>>
  BY DEF ReceiveEnd, senderVars
<1>2. /\ call' \in [Readers -> {"idle", "next", "all"}]
      /\ limit' \in [Readers -> Nat \cup {NoLimit}]
      /\ acc' \in [Readers -> [items : Seq(Item), len : Nat]]
      /\ turns' \in Seq(Readers)
      /\ NoRepeat(turns')
      /\ \A s \in Readers : s \in Elements(turns') <=> call'[s] # "idle"
      /\ \A s \in Readers : call'[s] # "idle" => call[s] # "idle"
  BY <1>1, CallEnded
<1>3. /\ acc[r].items \in Seq(Item) /\ got[r] \in Seq(Item) /\ got \in [Readers -> Seq(Item)]
      /\ lost \in SUBSET Item
  BY DEF IInv, TypeOK
<1>4. /\ Gathered(r) \in SUBSET Item /\ got[r] \o acc[r].items \in Seq(Item)
  BY <1>3, ConcatProperties DEF Gathered, Elements
<1>5. seen' \in SUBSET {"eof", "abort"}
  BY <1>1 DEF IInv, TypeOK, EndOfBody
<1>6. got' \in [Readers -> Seq(Item)] /\ lost' \in SUBSET Item
  BY <1>1, <1>3, <1>4
<1>7. TypeOK'
  BY <1>1, <1>2, <1>5, <1>6 DEF IInv, TypeOK
<1>8. ReadLine'
  BY <1>1, <1>2 DEF IInv, ReadLine
<1>9. SendLine' /\ OneReceiver' /\ Flow' /\ Room' /\ GoneIsTrue'
  BY <1>1, Untouched DEF IInv
<1>10. EndIsTrue'
  <2>1. received = sent
    <3>1. Open
      BY <1>1, TurnOpen
    <3>2. received \in Seq(Item) /\ received \o <<>> = sent
      BY <1>1, <3>1 DEF IInv, TypeOK, Flow
    <3>. QED  BY <3>2, ConcatEmptySeq
  <2>. QED  BY <1>1, <2>1 DEF IInv, EndIsTrue, EndOfBody
<1>. QED  BY <1>7, <1>8, <1>9, <1>10 DEF IInv

LEMMA CancelReadStep ==
  ASSUME IInv, NEW r \in Readers, CancelRead(r)
  PROVE  IInv'
<1>1. /\ EndCall(r)
      /\ lost' = lost \cup Gathered(r)
      /\ UNCHANGED <<stream, holders, senders, completed, parked, granted, pending, calls, answer,
                     received, seen, got, queue, sent>>
  BY DEF CancelRead, senderVars
<1>2. /\ call' \in [Readers -> {"idle", "next", "all"}]
      /\ limit' \in [Readers -> Nat \cup {NoLimit}]
      /\ acc' \in [Readers -> [items : Seq(Item), len : Nat]]
      /\ turns' \in Seq(Readers)
      /\ NoRepeat(turns')
      /\ \A s \in Readers : s \in Elements(turns') <=> call'[s] # "idle"
      /\ \A s \in Readers : call'[s] # "idle" => call[s] # "idle"
  BY <1>1, CallEnded
<1>3. lost' \in SUBSET Item
  BY <1>1 DEF IInv, TypeOK, Gathered, Elements
<1>4. TypeOK'
  BY <1>1, <1>2, <1>3 DEF IInv, TypeOK
<1>5. ReadLine'
  BY <1>1, <1>2 DEF IInv, ReadLine
<1>6. SendLine' /\ OneReceiver' /\ Flow' /\ Room' /\ EndIsTrue' /\ GoneIsTrue'
  BY <1>1, Untouched DEF IInv
<1>. QED  BY <1>4, <1>5, <1>6 DEF IInv

LEMMA DropReaderStep ==
  ASSUME IInv, NEW r \in Readers, DropReader(r)
  PROVE  IInv'
<1>1. /\ r \in holders /\ call[r] = "idle"
      /\ holders' = holders \ {r}
      /\ queue' = IF holders' = {} THEN <<>> ELSE queue
      /\ UNCHANGED <<stream, turns, call, limit, acc, senders, completed, parked, granted, pending,
                     calls, answer, received, seen, got, lost, sent>>
  BY DEF DropReader, senderVars, readLog
<1>2. Open /\ stream = "Taken" /\ (Open' <=> holders' # {})
  BY <1>1 DEF IInv, OneReceiver, Open
<1>3. TypeOK'
  BY <1>1, EmptySeq DEF IInv, TypeOK
<1>4. ReadLine' /\ OneReceiver' /\ GoneIsTrue'
  BY <1>1, <1>2 DEF IInv, ReadLine, OneReceiver, GoneIsTrue
<1>5. Flow' /\ Room'
  BY <1>1, <1>2 DEF IInv, Flow, Room
<1>6. SendLine' /\ EndIsTrue'
  BY <1>1, Untouched DEF IInv
<1>. QED  BY <1>3, <1>4, <1>5, <1>6 DEF IInv

LEMMA DropStreamStep ==
  ASSUME IInv, DropStream
  PROVE  IInv'
<1>1. /\ stream = "Ready" /\ stream' = "Dropped" /\ queue' = <<>> /\ holders' = holders
      /\ UNCHANGED <<turns, call, limit, acc, senders, completed, parked, granted, pending, calls,
                     answer, received, seen, got, lost, sent>>
  BY DEF DropStream, senderVars, readLog
<1>2. holders = {} /\ ~Open' /\ Open
  BY <1>1 DEF IInv, OneReceiver, Open
<1>3. TypeOK'
  BY <1>1, EmptySeq DEF IInv, TypeOK
<1>4. ReadLine' /\ OneReceiver' /\ Flow' /\ Room' /\ GoneIsTrue'
  BY <1>1, <1>2 DEF IInv, ReadLine, OneReceiver, Flow, Room, GoneIsTrue
<1>5. SendLine' /\ EndIsTrue'
  BY <1>1, Untouched DEF IInv
<1>. QED  BY <1>3, <1>4, <1>5 DEF IInv

-----------------------------------------------------------------------------
(* The theorems *)

\* The inductive invariant holds in every reachable state.
THEOREM Invariance == Spec => []IInv
<1>1. Init => IInv
  <2> SUFFICES ASSUME Init PROVE IInv
    OBVIOUS
  <2>1. TypeOK
    <3>1. Nothing \in [items : Seq(Item), len : Nat]
      BY EmptySeq DEF Nothing
    <3>2. 0 \in 0..MaxCalls
      BY BodyStreamAssumption
    <3>3. <<>> \in Seq(Item) /\ <<>> \in Seq(Producers) /\ <<>> \in Seq(Readers)
      BY EmptySeq
    <3>4. /\ stream \in {"Ready", "Taken", "NotAvailable", "Dropped"}
          /\ holders \in SUBSET Readers /\ senders \in SUBSET Producers
          /\ completed \in BOOLEAN /\ granted \in SUBSET Producers
          /\ seen \in SUBSET {"eof", "abort"} /\ lost \in SUBSET Item
      BY DEF Init
    <3>5. /\ pending \in [Producers -> Item \cup {NoItem}]
          /\ calls \in [Producers -> 0..MaxCalls]
          /\ answer \in [Producers -> {"none", "true", "false"}]
      BY <3>2 DEF Init
    <3>6. /\ call \in [Readers -> {"idle", "next", "all"}]
          /\ limit \in [Readers -> Nat \cup {NoLimit}]
          /\ acc \in [Readers -> [items : Seq(Item), len : Nat]]
          /\ got \in [Readers -> Seq(Item)]
      BY <3>1, <3>3 DEF Init
    <3>7. /\ queue \in Seq(Item) /\ parked \in Seq(Producers) /\ turns \in Seq(Readers)
          /\ sent \in Seq(Item) /\ received \in Seq(Item)
      BY <3>3 DEF Init
    <3>. QED  BY <3>4, <3>5, <3>6, <3>7 DEF TypeOK
  <2>2. SendLine
    BY DEF Init, SendLine, NoRepeat, Elements
  <2>3. ReadLine
    BY DEF Init, ReadLine, NoRepeat, Elements
  <2>4. Flow
    <3>1. received \o queue = sent
      BY EmptySeq, ConcatEmptySeq DEF Init
    <3>. QED  BY <3>1 DEF Init, Flow, Open, IsPrefixOf
  <2>5. Room
    BY Sizing, FS_EmptySet DEF Init, Room, Capacity
  <2>6. OneReceiver /\ EndIsTrue /\ GoneIsTrue
    BY DEF Init, OneReceiver, EndIsTrue, GoneIsTrue
  <2>. QED  BY <2>1, <2>2, <2>3, <2>4, <2>5, <2>6 DEF IInv
<1>2. IInv /\ [Next]_vars => IInv'
  <2> SUFFICES ASSUME IInv, [Next]_vars PROVE IInv'
    OBVIOUS
  <2>1. ASSUME NEW p \in Producers, Producer(p)
        PROVE  IInv'
    <3>1. CASE \E size \in Sizes : Send(p, "chunk", size)
      BY <3>1, SendStep
    <3>2. CASE Send(p, "error", 0)
      BY <3>2, SendStep
    <3>. QED  BY <2>1, <3>1, <3>2, SendEmptyStep, SendGrantedStep, SendRefusedStep,
                 CancelSendStep, ClosedStep, FinishStep, DropSenderStep DEF Producer
  <2>2. ASSUME NEW r \in Readers, Reader(r)
        PROVE  IInv'
    <3>1. CASE \E s \in Readers : ShareReader(r, s)
      BY <3>1, ShareReaderStep
    <3>2. CASE StartRead(r, "next", NoLimit) \/ \E max \in Limits : StartRead(r, "all", max)
      BY <3>2, StartReadStep
    <3>. QED  BY <2>2, <3>1, <3>2, GetBodyReaderStep, ReceiveStep, ReceiveEndStep,
                 CancelReadStep, DropReaderStep DEF Reader
  <2>3. CASE UNCHANGED vars
    <3>1. TypeOK'
      BY <2>3 DEF IInv, TypeOK, vars, senderVars, readerVars, readLog
    <3>. QED  BY <2>3, <3>1, Untouched DEF IInv, vars, senderVars, readerVars, readLog
  <2>. QED  BY <2>1, <2>2, <2>3, DropStreamStep DEF Next
<1>. QED  BY <1>1, <1>2, PTL DEF Spec

\* Every variable keeps its type, whatever the tasks do.
THEOREM TypeCorrect == Spec => []TypeOK
<1>1. IInv => TypeOK
  BY DEF IInv
<1>. QED  BY <1>1, Invariance, PTL

\* "No chunk is lost": the readers together take the items out in the order in which they went
\* in, for any number of producers and readers and whatever they give up.
THEOREM NoneLost == Spec => []InOrderNoneLost
<1>1. IInv => InOrderNoneLost
  BY DEF IInv, Flow, InOrderNoneLost
<1>. QED  BY <1>1, Invariance, PTL

\* "A truncated body is an error, not an EOF": no reader is told of an end that is not true.
THEOREM TrueEnd == Spec => []EndIsTrue
<1>1. IInv => EndIsTrue
  BY DEF IInv
<1>. QED  BY <1>1, Invariance, PTL

\* A pump that stops because the reader is gone stops rightly.
THEOREM TrueGone == Spec => []GoneIsTrue
<1>1. IInv => GoneIsTrue
  BY DEF IInv
<1>. QED  BY <1>1, Invariance, PTL

\* "Back pressure": the channel never holds more than its buffer.
THEOREM Bounded == Spec => []BackPressure
<1>1. IInv => BackPressure
  <2> SUFFICES ASSUME IInv, Open PROVE Len(sent) + Cardinality(granted) <= Len(received) + Capacity
    BY DEF BackPressure
  <2>1. /\ received \in Seq(Item) /\ queue \in Seq(Item) /\ sent = received \o queue
        /\ Len(queue) + Cardinality(granted) <= Capacity
        /\ granted \in SUBSET Producers
    BY DEF IInv, TypeOK, Flow, Room
  <2>2. /\ Len(sent) = Len(received) + Len(queue)
        /\ Len(received) \in Nat /\ Len(queue) \in Nat /\ Capacity \in Nat
        /\ Cardinality(granted) \in Nat
    BY <2>1, ConcatProperties, Sizing
  <2>. QED  BY <2>1, <2>2
<1>. QED  BY <1>1, Invariance, PTL

\* No producer waits beside a free place of the channel.
THEOREM NoWaitBesideFree == Spec => []NoLostPermit
<1>1. IInv => NoLostPermit
  <2> SUFFICES ASSUME IInv, Open, parked # <<>> PROVE Free = 0
    BY DEF NoLostPermit
  <2>1. /\ Len(queue) + Cardinality(granted) = Capacity
        /\ Len(queue) \in Nat /\ Capacity \in Nat /\ Cardinality(granted) \in Nat
    BY Sizing DEF IInv, TypeOK, Room
  <2>. QED  BY <2>1 DEF Free
<1>. QED  BY <1>1, Invariance, PTL

-----------------------------------------------------------------------------
(* The promise of BodyDelivery: a step of the channel is one of the promise when an item goes in or
   comes out, the last sender or the last reader leaves, or a reader is told of an end; any other
   step is not seen from outside. *)

\* What the writers left behind, as BodyDelivery sees it.
Ending == IF senders # {} THEN "open" ELSE EndOfBody

\* A step that is not seen from outside.
Unseen == Ending' = Ending /\ Open' = Open /\ UNCHANGED <<sent, received, seen>>

LEMMA UnseenStutters == Unseen => UNCHANGED Delivery!vars
BY DEF Unseen, Ending, Delivery!vars

\* An item is accepted from a task that holds the sender.
LEMMA PushIsWrite ==
  ASSUME Open, NEW p \in senders, NEW i, Push(p, i),
         UNCHANGED <<senders, completed, stream, holders, received, seen>>
  PROVE  Delivery!Write(i)
<1>1. senders # {} /\ sent' = Append(sent, i)
  BY DEF Push
<1>2. EndOfBody' = EndOfBody /\ Open' = Open
  BY DEF EndOfBody, Open
<1>. QED  BY <1>1, <1>2 DEF Delivery!Write

LEMMA ProducerStep ==
  ASSUME IInv, NEW p \in Producers, Producer(p)
  PROVE  [Delivery!Next]_(Delivery!vars)
<1>1. ASSUME NEW i \in Item, p \in senders, Open, Push(p, i),
             UNCHANGED <<senders, completed, stream, holders, received, seen>>
      PROVE  Delivery!Next
  <2>1. Delivery!Write(i)
    BY <1>1, PushIsWrite
  <2>. QED  BY <2>1 DEF Delivery!Next
<1>2. ASSUME UNCHANGED <<senders, completed, stream, holders, received, seen, sent>>
      PROVE  Unseen
  BY <1>2 DEF Unseen, Ending, EndOfBody, Open
<1>3. ASSUME NEW kind \in {"chunk", "error"}, NEW size \in Sizes \cup {0}, Send(p, kind, size)
      PROVE  Delivery!Next \/ Unseen
  <2>1. NewItem(p, kind, size) \in Item
    BY <1>3, BodyStreamAssumption DEF IInv, TypeOK, Send, NewItem, Item
  <2>2. p \in senders /\ UNCHANGED <<senders, completed, stream, holders, received, seen>>
    BY <1>3 DEF Send, readerVars, readLog
  <2>3. sent' = sent \/ (Open /\ Push(p, NewItem(p, kind, size)))
    BY <1>3 DEF Send
  <2>. QED  BY <2>1, <2>2, <2>3, <1>1, <1>2
<1>4. ASSUME SendGranted(p)
      PROVE  Delivery!Next
  <2>1. /\ p \in granted /\ Open /\ Push(p, pending[p])
        /\ UNCHANGED <<senders, completed, stream, holders, received, seen>>
    BY <1>4 DEF SendGranted, readerVars, readLog
  <2>2. pending[p] # NoItem /\ p \in senders
    BY <2>1 DEF IInv, SendLine
  <2>3. pending[p] \in Item
    BY <2>2 DEF IInv, TypeOK
  <2>. QED  BY <2>1, <2>2, <2>3, <1>1
<1>5. ASSUME SendEmpty(p) \/ SendRefused(p) \/ CancelSend(p) \/ Closed(p)
      PROVE  Unseen
  BY <1>5, <1>2 DEF SendEmpty, SendRefused, CancelSend, Closed, readerVars, readLog
<1>6. ASSUME Finish(p)
      PROVE  Unseen
  BY <1>6 DEF Finish, readerVars, readLog, Unseen, Ending, Open
<1>7. ASSUME DropSender(p)
      PROVE  Delivery!Next \/ Unseen
  <2>1. /\ p \in senders /\ senders' = senders \ {p}
        /\ UNCHANGED <<completed, stream, holders, received, seen, sent>>
    BY <1>7 DEF DropSender, readerVars, readLog
  <2>2. Open' = Open /\ EndOfBody' = EndOfBody /\ EndOfBody \in {"eof", "abort"}
    BY <2>1 DEF Open, EndOfBody
  <2>3. CASE senders' = {}
    <3>1. Delivery!End(EndOfBody)
      BY <2>1, <2>2, <2>3 DEF Delivery!End
    <3>. QED  BY <3>1, <2>2 DEF Delivery!Next
  <2>4. CASE senders' # {}
    BY <2>1, <2>2, <2>4 DEF Unseen, Ending
  <2>. QED  BY <2>3, <2>4
<1>8. Delivery!Next \/ Unseen
  <2>1. CASE \E size \in Sizes : Send(p, "chunk", size)
    BY <2>1, <1>3
  <2>2. CASE Send(p, "error", 0)
    BY <2>2, <1>3
  <2>. QED  BY <2>1, <2>2, <1>4, <1>5, <1>6, <1>7 DEF Producer
<1>. QED  BY <1>8, UnseenStutters

LEMMA ReaderStep ==
  ASSUME IInv, NEW r \in Readers, Reader(r)
  PROVE  [Delivery!Next]_(Delivery!vars)
<1>1. ASSUME UNCHANGED <<senders, completed, received, seen, sent>>, Open' = Open
      PROVE  Unseen
  BY <1>1 DEF Unseen, Ending, EndOfBody
<1>2. ASSUME GetBodyReader(r)
      PROVE  Unseen
  BY <1>2, <1>1 DEF GetBodyReader, senderVars, readLog, Open
<1>3. ASSUME NEW s \in Readers, ShareReader(r, s)
      PROVE  Unseen
  BY <1>3, <1>1 DEF ShareReader, senderVars, readLog, Open
<1>4. ASSUME NEW kind, NEW max, StartRead(r, kind, max)
      PROVE  Unseen
  BY <1>4, <1>1 DEF StartRead, senderVars, readLog, Open
<1>5. ASSUME CancelRead(r)
      PROVE  Unseen
  BY <1>5, <1>1 DEF CancelRead, senderVars, Open
<1>6. ASSUME Receive(r)
      PROVE  Delivery!Next
  <2>1. /\ HasTurn(r) /\ queue # <<>> /\ received' = Append(received, Head(queue))
        /\ UNCHANGED <<stream, holders, senders, completed, seen, sent>>
    BY <1>6 DEF Receive
  <2>2. Open
    BY <2>1, TurnOpen
  <2>3. received \o queue = sent /\ received \in Seq(Item) /\ queue \in Seq(Item)
    BY <2>2 DEF IInv, TypeOK, Flow
  <2>4. Len(received) < Len(sent) /\ sent[Len(received) + 1] = Head(queue)
    BY <2>1, <2>3
  <2>5. Open' = Open /\ Ending' = Ending
    BY <2>1 DEF Open, Ending, EndOfBody
  <2>6. Delivery!Read
    BY <2>1, <2>2, <2>4, <2>5 DEF Delivery!Read, Ending
  <2>. QED  BY <2>6 DEF Delivery!Next
<1>7. ASSUME ReceiveEnd(r)
      PROVE  Delivery!Next
  <2>1. /\ HasTurn(r) /\ queue = <<>> /\ senders = {} /\ seen' = seen \cup {EndOfBody}
        /\ UNCHANGED <<stream, holders, senders, completed, received, sent>>
    BY <1>7 DEF ReceiveEnd, senderVars
  <2>2. Open
    BY <2>1, TurnOpen
  <2>3. received = sent
    BY <2>1, <2>2, ConcatEmptySeq DEF IInv, TypeOK, Flow
  <2>4. Open' = Open /\ EndOfBody' = EndOfBody /\ EndOfBody # "open"
    BY <2>1 DEF Open, EndOfBody
  <2>5. Delivery!TellEnd
    BY <2>1, <2>2, <2>3, <2>4 DEF Delivery!TellEnd
  <2>. QED  BY <2>5 DEF Delivery!Next
<1>8. ASSUME DropReader(r)
      PROVE  Delivery!Next \/ Unseen
  <2>1. /\ r \in holders /\ holders' = holders \ {r}
        /\ UNCHANGED <<stream, senders, completed, received, seen, sent>>
    BY <1>8 DEF DropReader, senderVars, readLog
  <2>2. Open /\ stream = "Taken" /\ Ending' = Ending
    BY <2>1 DEF IInv, OneReceiver, Open, Ending, EndOfBody
  <2>3. CASE holders' = {}
    <3>1. ~Open'
      BY <2>1, <2>2, <2>3 DEF Open
    <3>2. Delivery!Leave
      BY <2>1, <2>2, <3>1 DEF Delivery!Leave, Ending
    <3>. QED  BY <3>2 DEF Delivery!Next
  <2>4. CASE holders' # {}
    BY <2>1, <2>4, <1>1 DEF Open
  <2>. QED  BY <2>3, <2>4
<1>9. Delivery!Next \/ Unseen
  <2>1. CASE \E s \in Readers : ShareReader(r, s)
    BY <2>1, <1>3
  <2>2. CASE StartRead(r, "next", NoLimit) \/ \E max \in Limits : StartRead(r, "all", max)
    BY <2>2, <1>4
  <2>. QED  BY <2>1, <2>2, <1>2, <1>5, <1>6, <1>7, <1>8 DEF Reader
<1>. QED  BY <1>9, UnseenStutters

LEMMA DropStreamIsLeave ==
  ASSUME IInv, DropStream
  PROVE  Delivery!Leave
<1>1. /\ stream = "Ready" /\ stream' = "Dropped" /\ holders' = holders
      /\ UNCHANGED <<senders, completed, received, seen, sent>>
  BY DEF DropStream, senderVars, readLog
<1>2. Open /\ ~Open' /\ Ending' = Ending
  BY <1>1 DEF IInv, OneReceiver, Open, Ending, EndOfBody
<1>. QED  BY <1>1, <1>2 DEF Delivery!Leave, Ending

\* Whatever tasks share the two ends and however their calls interleave, what is seen from outside
\* is items coming out once and in order and then one true ending.
THEOREM Delivers == Spec => DeliverySpec
<1>1. Init => Delivery!Init
  <2> SUFFICES ASSUME Init PROVE Delivery!Init
    OBVIOUS
  <2>1. sent = <<>> /\ received = <<>> /\ seen = {} /\ holders = {} /\ completed = FALSE
    BY DEF Init
  <2>2. CASE stream = "Ready" /\ senders = Producers
    <3>1. senders # {} /\ Open = TRUE
      BY <2>2, BodyStreamAssumption DEF Open
    <3>. QED  BY <2>1, <3>1 DEF Delivery!Init
  <2>3. CASE stream = "NotAvailable" /\ senders = {}
    <3>1. EndOfBody = "abort" /\ Open = FALSE
      BY <2>1, <2>3 DEF Open, EndOfBody
    <3>. QED  BY <2>1, <2>3, <3>1 DEF Delivery!Init
  <2>. QED  BY <2>2, <2>3 DEF Init
<1>2. IInv /\ [Next]_vars => [Delivery!Next]_(Delivery!vars)
  <2> SUFFICES ASSUME IInv, [Next]_vars PROVE [Delivery!Next]_(Delivery!vars)
    OBVIOUS
  <2>1. CASE DropStream
    BY <2>1, DropStreamIsLeave DEF Delivery!Next
  <2>2. CASE UNCHANGED vars
    <3>1. Unseen
      BY <2>2 DEF Unseen, Ending, EndOfBody, Open, vars, senderVars, readerVars, readLog
    <3>. QED  BY <3>1, UnseenStutters
  <2>. QED  BY <2>1, <2>2, ProducerStep, ReaderStep DEF Next
<1>. QED  BY <1>1, <1>2, Invariance, PTL DEF Spec, DeliverySpec, Delivery!Spec

\* Once the reader is gone no call of any task brings a receiving half back.
THEOREM NeverBack == Spec => GoneForGood
<1>1. IInv /\ [Next]_vars => [~Open => ~Open']_vars
  <2> SUFFICES ASSUME IInv, Next, ~Open PROVE ~Open'
    OBVIOUS
  <2>1. stream # "Ready" /\ holders = {}
    BY DEF Open
  <2>2. ASSUME NEW p \in Producers, Producer(p)
        PROVE  UNCHANGED <<stream, holders>>
    BY <2>2 DEF Producer, SendEmpty, Send, SendGranted, SendRefused, CancelSend, Closed, Finish,
                DropSender, readerVars
  <2>3. ASSUME NEW r \in Readers, Reader(r)
        PROVE  FALSE
    <3>1. call[r] = "idle"
      BY <2>1 DEF IInv, TypeOK, ReadLine
    <3>. QED  BY <2>1, <2>3, <3>1 DEF Reader, GetBodyReader, ShareReader, StartRead, Receive,
                 ReceiveEnd, CancelRead, DropReader, HasTurn
  <2>. QED  BY <2>1, <2>2, <2>3 DEF Next, DropStream, Open
<1>. QED  BY <1>1, Invariance, PTL DEF Spec, GoneForGood

-----------------------------------------------------------------------------
(* Behind the channel, for any number of tasks that share the reader: what a read_to_end gathers
   stays within its limit, a get_next_chunk has nothing to lose, every chunk that came out is in one
   place, and each task is handed its chunks in order. *)

\* Only a read_to_end has a limit or something gathered, and never more than its limit.
Gathering ==
  \A r \in Readers :
    /\ call[r] # "all" => acc[r] = Nothing /\ limit[r] = NoLimit
    /\ limit[r] # NoLimit => acc[r].len <= limit[r]

LEMMA SizeIsNat ==
  ASSUME NEW i \in Item
  PROVE  i.size \in Nat
<1>1. i.size \in Sizes \cup {0}
  BY DEF Item
<1>2. Sizes \subseteq Nat
  BY BodyStreamAssumption
<1>3. \A n \in Sizes : n \in Nat
  BY <1>2
<1>. QED  BY <1>1, <1>3

\* A call that is over leaves nothing behind.
LEMMA EndsGathering ==
  ASSUME IInv, Gathering, NEW r \in Readers, EndCall(r)
  PROVE  Gathering'
<1>1. /\ call \in [Readers -> {"idle", "next", "all"}] /\ limit \in [Readers -> Nat \cup {NoLimit}]
      /\ acc \in [Readers -> [items : Seq(Item), len : Nat]]
  BY DEF IInv, TypeOK
<1>. SUFFICES ASSUME NEW s \in Readers
              PROVE  /\ call'[s] # "all" => acc'[s] = Nothing /\ limit'[s] = NoLimit
                     /\ limit'[s] # NoLimit => acc'[s].len <= limit'[s]
  BY DEF Gathering
<1>2. CASE s = r
  BY <1>1, <1>2 DEF EndCall
<1>3. CASE s # r
  <2>1. call'[s] = call[s] /\ acc'[s] = acc[s] /\ limit'[s] = limit[s]
    BY <1>1, <1>3 DEF EndCall
  <2>. QED  BY <2>1 DEF Gathering
<1>. QED  BY <1>2, <1>3

\* A chunk is gathered only if the limit allows it.
LEMMA GatherStep ==
  ASSUME IInv, Gathering, NEW r \in Readers, NEW i \in Item, call[r] = "all", Gather(r, i)
  PROVE  Gathering'
<1>1. CASE EndCall(r)
  BY <1>1, EndsGathering
<1>2. CASE /\ ~TooBig(r, i)
           /\ acc' = [acc EXCEPT ![r] = [items |-> Append(@.items, i), len |-> @.len + i.size]]
           /\ UNCHANGED <<call, limit>>
  <2>1. acc \in [Readers -> [items : Seq(Item), len : Nat]] /\ limit \in [Readers -> Nat \cup {NoLimit}]
    BY DEF IInv, TypeOK
  <2>2. i.size \in Nat
    BY SizeIsNat
  <2>. SUFFICES ASSUME NEW s \in Readers
                PROVE  /\ call[s] # "all" => acc'[s] = Nothing /\ limit[s] = NoLimit
                       /\ limit[s] # NoLimit => acc'[s].len <= limit[s]
    BY <1>2 DEF Gathering
  <2>3. CASE s = r
    <3>1. acc'[r].len = acc[r].len + i.size
      BY <1>2, <2>1
    <3>2. limit[r] # NoLimit => acc[r].len + i.size <= limit[r]
      BY <1>2, <2>1, <2>2 DEF TooBig
    <3>. QED  BY <2>3, <3>1, <3>2
  <2>4. CASE s # r
    <3>1. acc'[s] = acc[s]
      BY <1>2, <2>1, <2>4
    <3>. QED  BY <3>1 DEF Gathering
  <2>. QED  BY <2>3, <2>4
<1>. QED  BY <1>1, <1>2 DEF Gather

\* A read begins with nothing, so within any limit.
LEMMA StartGathering ==
  ASSUME IInv, Gathering, NEW r \in Readers, NEW kind \in {"next", "all"},
         NEW max \in Nat \cup {NoLimit}, StartRead(r, kind, max)
  PROVE  Gathering'
<1>1. /\ call \in [Readers -> {"idle", "next", "all"}] /\ limit \in [Readers -> Nat \cup {NoLimit}]
      /\ acc' = acc /\ call[r] = "idle" /\ (kind = "next" => max = NoLimit)
      /\ call' = [call EXCEPT ![r] = kind] /\ limit' = [limit EXCEPT ![r] = max]
  BY DEF IInv, TypeOK, StartRead
<1>. SUFFICES ASSUME NEW s \in Readers
              PROVE  /\ call'[s] # "all" => acc[s] = Nothing /\ limit'[s] = NoLimit
                     /\ limit'[s] # NoLimit => acc[s].len <= limit'[s]
  BY <1>1 DEF Gathering
<1>2. CASE s = r
  <2>1. acc[r] = Nothing /\ call'[r] = kind /\ limit'[r] = max
    BY <1>1 DEF Gathering
  <2>. QED  BY <1>1, <1>2, <2>1 DEF Nothing
<1>3. CASE s # r
  <2>1. call'[s] = call[s] /\ limit'[s] = limit[s]
    BY <1>1, <1>3
  <2>. QED  BY <2>1 DEF Gathering
<1>. QED  BY <1>2, <1>3

LEMMA GatheringStep == IInv /\ Gathering /\ [Next]_vars => Gathering'
<1>. SUFFICES ASSUME IInv, Gathering, [Next]_vars PROVE Gathering'
  OBVIOUS
<1>1. CASE UNCHANGED <<call, limit, acc>>
  BY <1>1 DEF Gathering
<1>2. ASSUME NEW r \in Readers, Receive(r) PROVE Gathering'
  <2>1. Head(queue) \in Item /\ call[r] \in {"next", "all"}
    BY <1>2, HeadTailProperties DEF IInv, TypeOK, Receive, HasTurn
  <2>2. CASE call[r] = "next"
    BY <1>2, <2>2, EndsGathering DEF Receive, HandOver
  <2>3. CASE call[r] = "all"
    BY <1>2, <2>1, <2>3, GatherStep DEF Receive
  <2>. QED  BY <2>1, <2>2, <2>3
<1>3. ASSUME NEW r \in Readers, ReceiveEnd(r) \/ CancelRead(r) PROVE Gathering'
  BY <1>3, EndsGathering DEF ReceiveEnd, CancelRead
<1>4. ASSUME NEW r \in Readers, StartRead(r, "next", NoLimit) \/ \E max \in Limits : StartRead(r, "all", max)
      PROVE  Gathering'
  <2>1. \A max \in Limits : max \in Nat \cup {NoLimit}
    BY BodyStreamAssumption
  <2>. QED  BY <1>4, <2>1, StartGathering
<1>5. ASSUME NEW p \in Producers, Producer(p) PROVE UNCHANGED <<call, limit, acc>>
  BY <1>5 DEF Producer, SendEmpty, Send, SendGranted, SendRefused, CancelSend, Closed, Finish,
              DropSender, readerVars
<1>6. ASSUME NEW r \in Readers,
             GetBodyReader(r) \/ (\E s \in Readers : ShareReader(r, s)) \/ DropReader(r)
      PROVE  UNCHANGED <<call, limit, acc>>
  BY <1>6 DEF GetBodyReader, ShareReader, DropReader
<1>7. CASE DropStream \/ UNCHANGED vars
  BY <1>1, <1>7 DEF DropStream, vars, readerVars
<1>. QED  BY <1>1, <1>2, <1>3, <1>4, <1>5, <1>6, <1>7 DEF Next, Reader

LEMMA GatheringHolds == Spec => []Gathering
<1>1. Init => Gathering
  BY DEF Init, Gathering
<1>. QED  BY <1>1, GatheringStep, Invariance, PTL DEF Spec

\* No read_to_end ever holds more than its max_size.
THEOREM Limited == Spec => []WithinLimit
<1>1. Gathering => WithinLimit
  BY DEF Gathering, WithinLimit
<1>. QED  BY <1>1, GatheringHolds, PTL

\* A get_next_chunk that is given up, at any point and by any task, drops no chunk.
THEOREM NextLosesNothing == Spec => NextIsCancelSafe
<1>1. IInv /\ Gathering /\ [Next]_vars => [(\A r \in Readers : call[r] # "all") => lost' = lost]_vars
  <2> SUFFICES ASSUME IInv, Gathering, Next, \A r \in Readers : call[r] # "all"
               PROVE  lost' = lost
    OBVIOUS
  <2>1. \A r \in Readers : Gathered(r) = {}
    BY DEF Gathering, Gathered, Nothing, Elements
  <2>2. ASSUME NEW p \in Producers, Producer(p) PROVE lost' = lost
    BY <2>2 DEF Producer, SendEmpty, Send, SendGranted, SendRefused, CancelSend, Closed, Finish,
                DropSender, readLog
  <2>3. ASSUME NEW r \in Readers, Receive(r) PROVE lost' = lost
    <3>1. call[r] = "next"
      BY <2>3 DEF IInv, TypeOK, Receive, HasTurn
    <3>. QED  BY <2>3, <3>1 DEF Receive, HandOver
  <2>4. ASSUME NEW r \in Readers, ReceiveEnd(r) \/ CancelRead(r) PROVE lost' = lost
    BY <2>1, <2>4 DEF ReceiveEnd, CancelRead
  <2>5. ASSUME NEW r \in Readers, Reader(r) PROVE lost' = lost
    BY <2>3, <2>4, <2>5 DEF Reader, GetBodyReader, ShareReader, StartRead, DropReader, readLog
  <2>. QED  BY <2>2, <2>5 DEF Next, DropStream, readLog
<1>. QED  BY <1>1, Invariance, GatheringHolds, PTL DEF Spec, NextIsCancelSafe

-----------------------------------------------------------------------------
(* Every chunk in one place *)

\* Items are told apart: none goes in twice, and one that waits to go in has not gone in yet.
Numbered ==
  /\ NoRepeat(sent)
  /\ \A i \in Elements(sent) : i.n <= calls[i.by]
  /\ \A p \in Producers :
       pending[p] # NoItem =>
         pending[p].by = p /\ pending[p].n = calls[p] /\ pending[p] \notin Elements(sent)

\* The numbers of the calls only grow, so what was sent stays numbered.
LEMMA StillNumbered ==
  ASSUME IInv, Numbered, calls' \in [Producers -> Nat],
         \A q \in Producers : calls[q] <= calls'[q], NEW j \in Elements(sent)
  PROVE  j.n <= calls'[j.by]
<1>1. sent \in Seq(Item) /\ calls \in [Producers -> 0..MaxCalls] /\ MaxCalls \in Nat
  BY BodyStreamAssumption DEF IInv, TypeOK
<1>2. j \in Item
  BY <1>1 DEF Elements
<1>3. j.by \in Producers /\ j.n \in Nat /\ j.n <= calls[j.by]
  BY <1>2 DEF Item, Numbered
<1>4. calls[j.by] \in Nat /\ calls'[j.by] \in Nat /\ calls[j.by] <= calls'[j.by]
  BY <1>1, <1>3
<1>. QED  BY <1>3, <1>4

\* An item nobody has sent goes in: it comes from p, whose call it is.
LEMMA NewItemSent ==
  ASSUME IInv, Numbered, NEW p \in Producers, NEW i \in Item, i \notin Elements(sent),
         i.by = p, i.n = calls'[p], sent' = Append(sent, i),
         calls' \in [Producers -> Nat], \A q \in Producers : calls[q] <= calls'[q],
         \A q \in Producers : q # p => calls'[q] = calls[q], pending'[p] = NoItem,
         \A q \in Producers : q # p => pending'[q] = pending[q]
  PROVE  Numbered'
<1>1. sent \in Seq(Item) /\ calls \in [Producers -> 0..MaxCalls] /\ MaxCalls \in Nat
  BY BodyStreamAssumption DEF IInv, TypeOK
<1>2. NoRepeat(sent') /\ Elements(sent') = Elements(sent) \cup {i}
  BY <1>1, JoinLine DEF Numbered
<1>3. ASSUME NEW j \in Elements(sent')
      PROVE  j.n <= calls'[j.by]
  <2>1. CASE j = i
    <3>1. i.n = calls'[p] /\ i.by = p /\ calls'[p] \in Nat
      OBVIOUS
    <3>. QED  BY <2>1, <3>1
  <2>2. CASE j \in Elements(sent)
    BY <2>2, StillNumbered
  <2>. QED  BY <1>2, <2>1, <2>2
<1>4. ASSUME NEW q \in Producers, pending'[q] # NoItem
      PROVE  pending'[q].by = q /\ pending'[q].n = calls'[q] /\ pending'[q] \notin Elements(sent')
  <2>1. q # p /\ pending'[q] = pending[q]
    BY <1>4
  <2>. QED  BY <1>2, <1>4, <2>1 DEF Numbered
<1>. QED  BY <1>2, <1>3, <1>4 DEF Numbered

LEMMA SendNumbered ==
  ASSUME IInv, Numbered, NEW p \in Producers, NEW kind \in {"chunk", "error"},
         NEW size \in Sizes \cup {0}, Send(p, kind, size)
  PROVE  Numbered'
<1> DEFINE i == NewItem(p, kind, size)
<1>1. /\ sent \in Seq(Item) /\ calls \in [Producers -> 0..MaxCalls] /\ MaxCalls \in Nat
      /\ pending \in [Producers -> Item \cup {NoItem}]
  BY BodyStreamAssumption DEF IInv, TypeOK
<1>2. /\ pending[p] = NoItem /\ calls[p] < MaxCalls
      /\ calls' = [calls EXCEPT ![p] = @ + 1]
      /\ \/ UNCHANGED <<pending, sent>>
         \/ sent' = Append(sent, i) /\ UNCHANGED pending
         \/ pending' = [pending EXCEPT ![p] = i] /\ UNCHANGED sent
  BY DEF Send, Push, Idle
<1>3. i \in Item /\ i.by = p /\ i.n = calls'[p] /\ i.n = calls[p] + 1
  BY <1>1, <1>2 DEF NewItem, Item
<1>4. i \notin Elements(sent)
  BY <1>1, <1>3 DEF Numbered
<1>5. /\ calls' \in [Producers -> Nat] /\ \A q \in Producers : calls[q] <= calls'[q]
      /\ \A q \in Producers : q # p => calls'[q] = calls[q]
  BY <1>1, <1>2
<1>6. ASSUME UNCHANGED sent
      PROVE  \A j \in Elements(sent') : j.n <= calls'[j.by]
  BY <1>5, <1>6, StillNumbered
<1>. HIDE DEF i
<1>7. CASE UNCHANGED <<pending, sent>>
  BY <1>2, <1>5, <1>6, <1>7 DEF Numbered
<1>8. CASE sent' = Append(sent, i) /\ UNCHANGED pending
  BY <1>2, <1>3, <1>4, <1>5, <1>8, NewItemSent
<1>9. CASE pending' = [pending EXCEPT ![p] = i] /\ UNCHANGED sent
  <2>1. ASSUME NEW q \in Producers, pending'[q] # NoItem
        PROVE  pending'[q].by = q /\ pending'[q].n = calls'[q] /\ pending'[q] \notin Elements(sent)
    <3>1. CASE q = p
      BY <1>1, <1>3, <1>4, <1>9, <3>1
    <3>2. CASE q # p
      BY <1>1, <1>5, <1>9, <2>1, <3>2 DEF Numbered
    <3>. QED  BY <3>1, <3>2
  <2>. QED  BY <1>6, <1>9, <2>1 DEF Numbered
<1>. QED  BY <1>2, <1>7, <1>8, <1>9

LEMMA NumberedStep == IInv /\ Numbered /\ [Next]_vars => Numbered'
<1>. SUFFICES ASSUME IInv, Numbered, [Next]_vars PROVE Numbered'
  OBVIOUS
<1>1. /\ sent \in Seq(Item) /\ calls \in [Producers -> 0..MaxCalls] /\ MaxCalls \in Nat
      /\ pending \in [Producers -> Item \cup {NoItem}]
  BY BodyStreamAssumption DEF IInv, TypeOK
<1>2. CASE UNCHANGED <<sent, calls, pending>>
  BY <1>2 DEF Numbered
<1>3. ASSUME NEW p \in Producers, SendEmpty(p) PROVE Numbered'
  <2>1. calls' = [calls EXCEPT ![p] = @ + 1] /\ UNCHANGED <<sent, pending>> /\ pending[p] = NoItem
    BY <1>3 DEF SendEmpty, Idle
  <2>2. ASSUME NEW j \in Elements(sent) PROVE j.n <= calls'[j.by]
    <3>1. calls' \in [Producers -> Nat] /\ \A q \in Producers : calls[q] <= calls'[q]
      BY <1>1, <2>1
    <3>. QED  BY <3>1, StillNumbered
  <2>. QED  BY <1>1, <2>1, <2>2 DEF Numbered
<1>4. ASSUME NEW p \in Producers, SendGranted(p) PROVE Numbered'
  <2>1. /\ sent' = Append(sent, pending[p]) /\ UNCHANGED calls
        /\ pending' = [pending EXCEPT ![p] = NoItem]
    BY <1>4 DEF SendGranted, Push
  <2>2. pending[p] # NoItem
    BY <1>4 DEF SendGranted, IInv, SendLine
  <2>3. pending[p] \in Item /\ pending[p].by = p /\ pending[p].n = calls[p] /\ pending[p] \notin Elements(sent)
    BY <1>1, <2>2 DEF Numbered
  <2>4. /\ calls' \in [Producers -> Nat] /\ pending'[p] = NoItem
        /\ \A q \in Producers : calls[q] <= calls'[q]
    BY <1>1, <2>1
  <2>5. \A q \in Producers : q # p => calls'[q] = calls[q] /\ pending'[q] = pending[q]
    BY <1>1, <2>1
  <2>. QED  BY <2>1, <2>3, <2>4, <2>5, NewItemSent
<1>5. ASSUME NEW p \in Producers, SendRefused(p) \/ CancelSend(p) PROVE Numbered'
  <2>1. pending' = [pending EXCEPT ![p] = NoItem] /\ UNCHANGED <<sent, calls>>
    BY <1>5 DEF SendRefused, CancelSend
  <2>. QED  BY <1>1, <2>1 DEF Numbered
<1>6. ASSUME NEW p \in Producers, Closed(p) \/ Finish(p) \/ DropSender(p)
      PROVE  UNCHANGED <<sent, calls, pending>>
  BY <1>6 DEF Closed, Finish, DropSender
<1>7. ASSUME NEW p \in Producers, Producer(p) PROVE Numbered'
  <2>1. CASE \E size \in Sizes : Send(p, "chunk", size)
    BY <2>1, SendNumbered
  <2>2. CASE Send(p, "error", 0)
    BY <2>2, SendNumbered
  <2>. QED  BY <1>2, <1>3, <1>4, <1>5, <1>6, <1>7, <2>1, <2>2 DEF Producer
<1>8. ASSUME NEW r \in Readers, Reader(r) PROVE UNCHANGED <<sent, calls, pending>>
  BY <1>8 DEF Reader, GetBodyReader, ShareReader, StartRead, Receive, ReceiveEnd, CancelRead,
              DropReader, senderVars
<1>9. CASE DropStream \/ UNCHANGED vars
  BY <1>2, <1>9 DEF DropStream, vars, senderVars
<1>. QED  BY <1>2, <1>7, <1>8, <1>9 DEF Next

LEMMA NumberedHolds == Spec => []Numbered
<1>1. Init => Numbered
  BY DEF Init, Numbered, NoRepeat, Elements
<1>. QED  BY <1>1, NumberedStep, Invariance, PTL DEF Spec

Got(r) == Elements(got[r])

\* HandedOnce, chunk by chunk.
Sorted ==
  /\ \A x : x \in ChunksIn(received) <=>
             x \in lost \/ \E r \in Readers : x \in Got(r) \/ x \in Gathered(r)
  /\ \A x : \A r, s \in Readers :
       /\ r # s => ~(x \in Got(r) /\ x \in Got(s)) /\ ~(x \in Gathered(r) /\ x \in Gathered(s))
       /\ ~(x \in Got(r) /\ x \in Gathered(s))
       /\ x \in lost => x \notin Got(r) /\ x \notin Gathered(r)

LEMMA SortedIsHandedOnce == Sorted => HandedOnce
<1>. SUFFICES ASSUME Sorted PROVE HandedOnce
  OBVIOUS
<1>1. UNION Places = ChunksIn(received)
  <2>1. ASSUME NEW x \in UNION Places PROVE x \in ChunksIn(received)
    <3>1. x \in lost \/ \E r \in Readers : x \in Got(r) \/ x \in Gathered(r)
      BY <2>1 DEF Places, Got
    <3>. QED  BY <3>1 DEF Sorted
  <2>2. ASSUME NEW x \in ChunksIn(received) PROVE x \in UNION Places
    <3>1. x \in lost \/ \E r \in Readers : x \in Got(r) \/ x \in Gathered(r)
      BY <2>2 DEF Sorted
    <3>. QED  BY <3>1 DEF Places, Got
  <2>. QED  BY <2>1, <2>2
<1>. QED  BY <1>1 DEF Sorted, HandedOnce, Got

\* What a step of one reader does with the chunks that are new and those it has gathered: they go
\* to its caller, or they are lost, or the new ones are gathered with the others.
LEMMA Moved ==
  ASSUME Sorted, NEW r \in Readers, NEW new, new \cap ChunksIn(received) = {},
         ChunksIn(received)' = ChunksIn(received) \cup new,
         \A s \in Readers : s # r => Got(s)' = Got(s) /\ Gathered(s)' = Gathered(s),
         \/ Got(r)' = Got(r) \cup Gathered(r) \cup new /\ Gathered(r)' = {} /\ lost' = lost
         \/ Got(r)' = Got(r) /\ Gathered(r)' = {} /\ lost' = lost \cup Gathered(r) \cup new
         \/ Got(r)' = Got(r) /\ Gathered(r)' = Gathered(r) \cup new /\ lost' = lost
  PROVE  Sorted'
<1>1. ASSUME NEW x
      PROVE  x \in ChunksIn(received)' <=>
               x \in lost' \/ \E s \in Readers : x \in Got(s)' \/ x \in Gathered(s)'
  <2>1. x \in ChunksIn(received) <=>
          x \in lost \/ \E s \in Readers : x \in Got(s) \/ x \in Gathered(s)
    BY DEF Sorted
  <2>2. (\E s \in Readers : x \in Got(s)' \/ x \in Gathered(s)') <=>
          \/ x \in Got(r)' \/ x \in Gathered(r)'
          \/ \E s \in Readers : s # r /\ (x \in Got(s) \/ x \in Gathered(s))
    OBVIOUS
  <2>3. (\E s \in Readers : x \in Got(s) \/ x \in Gathered(s)) <=>
          \/ x \in Got(r) \/ x \in Gathered(r)
          \/ \E s \in Readers : s # r /\ (x \in Got(s) \/ x \in Gathered(s))
    OBVIOUS
  <2>. QED  BY <2>1, <2>2, <2>3
<1>2. ASSUME NEW x, NEW s \in Readers, NEW t \in Readers
      PROVE  /\ s # t => ~(x \in Got(s)' /\ x \in Got(t)') /\ ~(x \in Gathered(s)' /\ x \in Gathered(t)')
             /\ ~(x \in Got(s)' /\ x \in Gathered(t)')
             /\ x \in lost' => x \notin Got(s)' /\ x \notin Gathered(s)'
  <2>1. x \in new => x \notin lost /\ \A u \in Readers : x \notin Got(u) /\ x \notin Gathered(u)
    BY DEF Sorted
  <2>2. \A u, v \in Readers :
          /\ u # v => ~(x \in Got(u) /\ x \in Got(v)) /\ ~(x \in Gathered(u) /\ x \in Gathered(v))
          /\ ~(x \in Got(u) /\ x \in Gathered(v))
          /\ x \in lost => x \notin Got(u) /\ x \notin Gathered(u)
    BY DEF Sorted
  <2>3. CASE s = r /\ t = r
    BY <2>1, <2>2, <2>3
  <2>4. CASE s = r /\ t # r
    BY <2>1, <2>2, <2>4
  <2>5. CASE s # r /\ t = r
    BY <2>1, <2>2, <2>5
  <2>6. CASE s # r /\ t # r
    BY <2>1, <2>2, <2>6
  <2>. QED  BY <2>3, <2>4, <2>5, <2>6
<1>. QED  BY <1>1, <1>2 DEF Sorted

LEMMA HeadIsNew ==
  ASSUME NEW S, NEW s \in Seq(S), NEW q \in Seq(S), q # <<>>, NoRepeat(s \o q)
  PROVE  Head(q) \notin Elements(s)
<1>1. /\ Len(s \o q) = Len(s) + Len(q) /\ Len(s) \in Nat /\ Len(q) \in Nat /\ Len(q) > 0
      /\ \A k \in 1..Len(s) + Len(q) : (s \o q)[k] = IF k <= Len(s) THEN s[k] ELSE q[k - Len(s)]
      /\ Head(q) = q[1]
  BY ConcatProperties, HeadTailProperties, EmptySeq
<1>2. (s \o q)[Len(s) + 1] = Head(q) /\ Len(s) + 1 \in 1..Len(s \o q)
  BY <1>1
<1>3. ASSUME NEW k \in 1..Len(s) PROVE s[k] # Head(q)
  <2>1. (s \o q)[k] = s[k] /\ k \in 1..Len(s \o q) /\ k # Len(s) + 1
    BY <1>1
  <2>. QED  BY <1>2, <2>1 DEF NoRepeat
<1>. QED  BY <1>3 DEF Elements

LEMMA JoinLines ==
  ASSUME NEW S, NEW s \in Seq(S), NEW t \in Seq(S)
  PROVE  Elements(s \o t) = Elements(s) \cup Elements(t)
<1>1. /\ Len(s \o t) = Len(s) + Len(t) /\ Len(s) \in Nat /\ Len(t) \in Nat
      /\ \A k \in 1..Len(s) + Len(t) : (s \o t)[k] = IF k <= Len(s) THEN s[k] ELSE t[k - Len(s)]
  BY ConcatProperties
<1>2. ASSUME NEW k \in 1..Len(s \o t) PROVE (s \o t)[k] \in Elements(s) \cup Elements(t)
  <2>1. CASE k <= Len(s)
    BY <1>1, <2>1 DEF Elements
  <2>2. CASE k > Len(s)
    <3>1. k - Len(s) \in 1..Len(t) /\ (s \o t)[k] = t[k - Len(s)]
      BY <1>1, <2>2
    <3>. QED  BY <3>1 DEF Elements
  <2>. QED  BY <1>1, <2>1, <2>2
<1>3. ASSUME NEW k \in 1..Len(s) PROVE s[k] \in Elements(s \o t)
  <2>1. k \in 1..Len(s \o t) /\ (s \o t)[k] = s[k]
    BY <1>1
  <2>. QED  BY <2>1 DEF Elements
<1>4. ASSUME NEW k \in 1..Len(t) PROVE t[k] \in Elements(s \o t)
  <2>1. Len(s) + k \in 1..Len(s \o t) /\ (s \o t)[Len(s) + k] = t[k]
    BY <1>1
  <2>. QED  BY <2>1 DEF Elements
<1>5. Elements(s \o t) \subseteq Elements(s) \cup Elements(t)
  BY <1>2 DEF Elements
<1>6. Elements(s) \subseteq Elements(s \o t) /\ Elements(t) \subseteq Elements(s \o t)
  BY <1>3, <1>4 DEF Elements
<1>. QED  BY <1>5, <1>6

\* A call that is over has nothing gathered, and the other calls are as they were.
LEMMA GatheredAfter ==
  ASSUME IInv, NEW r \in Readers, EndCall(r)
  PROVE  /\ Gathered(r)' = {}
         /\ \A s \in Readers : s # r => Gathered(s)' = Gathered(s)
<1>1. acc' = [acc EXCEPT ![r] = Nothing] /\ acc \in [Readers -> [items : Seq(Item), len : Nat]]
  BY DEF EndCall, IInv, TypeOK
<1>2. acc'[r].items = <<>>
  BY <1>1 DEF Nothing
<1>3. \A s \in Readers : s # r => acc'[s] = acc[s]
  BY <1>1
<1>. QED  BY <1>2, <1>3 DEF Gathered, Elements

\* The item that comes out of the channel is one that did not come out before.
LEMMA TakenIsNew ==
  ASSUME IInv, Numbered, NEW r \in Readers, Receive(r)
  PROVE  /\ Head(queue) \in Item /\ Head(queue) \notin Elements(received)
         /\ Elements(received') = Elements(received) \cup {Head(queue)}
<1>1. /\ queue \in Seq(Item) /\ received \in Seq(Item) /\ queue # <<>>
      /\ received' = Append(received, Head(queue)) /\ r \in holders
  BY DEF IInv, TypeOK, ReadLine, Receive, HasTurn
<1>2. NoRepeat(received \o queue)
  BY <1>1 DEF IInv, Flow, Open, Numbered
<1>3. Head(queue) \in Item
  BY <1>1, HeadTailProperties
<1>. QED  BY <1>1, <1>2, <1>3, HeadIsNew, JoinLine

LEMMA ReceiveSorted ==
  ASSUME IInv, Gathering, Numbered, Sorted, NEW r \in Readers, Receive(r)
  PROVE  Sorted'
<1> DEFINE i == Head(queue)
           new == IF i.kind = "chunk" THEN {i} ELSE {}
<1>1. /\ i \in Item /\ i \notin Elements(received)
      /\ Elements(received') = Elements(received) \cup {i}
  BY TakenIsNew
<1>2. new \cap ChunksIn(received) = {} /\ ChunksIn(received)' = ChunksIn(received) \cup new
  BY <1>1 DEF ChunksIn
<1>3. /\ got \in [Readers -> Seq(Item)]
      /\ acc \in [Readers -> [items : Seq(Item), len : Nat]]
      /\ call[r] \in {"next", "all"}
  BY DEF IInv, TypeOK, Receive, HasTurn
<1>4. /\ call[r] = "next" => HandOver(r, i)
      /\ call[r] # "next" => Gather(r, i)
  BY DEF Receive
<1>5. CASE call[r] = "next"
  <2>1. Gathered(r) = {}
    BY <1>5 DEF Gathering, Gathered, Nothing, Elements
  <2>2. /\ Gathered(r)' = {} /\ lost' = lost
        /\ \A s \in Readers : s # r => Gathered(s)' = Gathered(s)
    BY <1>4, <1>5, GatheredAfter DEF HandOver
  <2>3. got' = IF i.kind = "chunk" THEN [got EXCEPT ![r] = Append(@, i)] ELSE got
    BY <1>4, <1>5 DEF HandOver
  <2>4. \A s \in Readers : s # r => Got(s)' = Got(s)
    BY <1>3, <2>3 DEF Got
  <2>5. Got(r)' = Got(r) \cup new
    <3>1. CASE i.kind = "chunk"
      <4>1. got'[r] = Append(got[r], i) /\ got[r] \in Seq(Item)
        BY <1>3, <2>3, <3>1
      <4>. QED  BY <1>1, <3>1, <4>1, JoinLine DEF Got
    <3>2. CASE i.kind # "chunk"
      BY <2>3, <3>2 DEF Got
    <3>. QED  BY <3>1, <3>2
  <2>. QED  BY <1>2, <2>1, <2>2, <2>4, <2>5, Moved
<1>6. CASE call[r] # "next" /\ (i.kind = "error" \/ TooBig(r, i))
  <2>1. EndCall(r) /\ lost' = lost \cup Gathered(r) \cup new /\ got' = got
    BY <1>4, <1>6 DEF Gather
  <2>2. \A s \in Readers : Got(s)' = Got(s)
    BY <2>1 DEF Got
  <2>. QED  BY <1>2, <2>1, <2>2, GatheredAfter, Moved
<1>7. CASE call[r] # "next" /\ ~(i.kind = "error" \/ TooBig(r, i))
  <2>1. /\ acc' = [acc EXCEPT ![r] = [items |-> Append(@.items, i), len |-> @.len + i.size]]
        /\ UNCHANGED <<got, lost>>
    BY <1>4, <1>7 DEF Gather
  <2>2. i.kind = "chunk"
    BY <1>1, <1>7 DEF Item
  <2>3. acc'[r].items = Append(acc[r].items, i) /\ acc[r].items \in Seq(Item)
    BY <1>3, <2>1
  <2>4. Gathered(r)' = Gathered(r) \cup new
    BY <1>1, <2>2, <2>3, JoinLine DEF Gathered
  <2>5. \A s \in Readers : s # r => acc'[s] = acc[s]
    BY <1>3, <2>1
  <2>6. /\ \A s \in Readers : Got(s)' = Got(s)
        /\ \A s \in Readers : s # r => Gathered(s)' = Gathered(s)
    BY <2>1, <2>5 DEF Got, Gathered
  <2>. QED  BY <1>2, <2>1, <2>4, <2>6, Moved
<1>. QED  BY <1>5, <1>6, <1>7

LEMMA ReceiveEndSorted ==
  ASSUME IInv, Sorted, NEW r \in Readers, ReceiveEnd(r)
  PROVE  Sorted'
<1>1. received' = received /\ EndCall(r)
  BY DEF ReceiveEnd
<1>2. {} \cap ChunksIn(received) = {} /\ ChunksIn(received)' = ChunksIn(received) \cup {}
  BY <1>1 DEF ChunksIn
<1>3. CASE EndOfBody = "eof"
  <2>1. /\ got' = [got EXCEPT ![r] = @ \o acc[r].items] /\ lost' = lost
        /\ got \in [Readers -> Seq(Item)] /\ acc[r].items \in Seq(Item)
    BY <1>3 DEF ReceiveEnd, IInv, TypeOK
  <2>2. Got(r)' = Got(r) \cup Gathered(r)
    <3>1. got'[r] = got[r] \o acc[r].items
      BY <2>1
    <3>. QED  BY <2>1, <3>1, JoinLines DEF Got, Gathered
  <2>3. \A s \in Readers : s # r => Got(s)' = Got(s)
    BY <2>1 DEF Got
  <2>. QED  BY <1>1, <1>2, <2>1, <2>2, <2>3, GatheredAfter, Moved
<1>4. CASE EndOfBody # "eof"
  <2>1. lost' = lost \cup Gathered(r) /\ \A s \in Readers : Got(s)' = Got(s)
    BY <1>4 DEF ReceiveEnd, Got
  <2>. QED  BY <1>1, <1>2, <2>1, GatheredAfter, Moved
<1>. QED  BY <1>3, <1>4

LEMMA CancelReadSorted ==
  ASSUME IInv, Sorted, NEW r \in Readers, CancelRead(r)
  PROVE  Sorted'
<1>1. /\ received' = received /\ got' = got /\ EndCall(r)
      /\ lost' = lost \cup Gathered(r)
  BY DEF CancelRead
<1>2. {} \cap ChunksIn(received) = {} /\ ChunksIn(received)' = ChunksIn(received) \cup {}
  BY <1>1 DEF ChunksIn
<1>3. \A s \in Readers : Got(s)' = Got(s)
  BY <1>1 DEF Got
<1>. QED  BY <1>1, <1>2, <1>3, GatheredAfter, Moved

LEMMA SortedStep == IInv /\ Gathering /\ Numbered /\ Sorted /\ [Next]_vars => Sorted'
<1>. SUFFICES ASSUME IInv, Gathering, Numbered, Sorted, [Next]_vars PROVE Sorted'
  OBVIOUS
<1>1. CASE UNCHANGED <<got, acc, lost, received>>
  BY <1>1 DEF Sorted, Got, Gathered, ChunksIn
<1>2. ASSUME NEW p \in Producers, Producer(p) PROVE UNCHANGED <<got, acc, lost, received>>
  BY <1>2 DEF Producer, SendEmpty, Send, SendGranted, SendRefused, CancelSend, Closed, Finish,
              DropSender, readerVars, readLog
<1>3. ASSUME NEW r \in Readers, Reader(r) PROVE Sorted'
  <2>1. CASE \/ GetBodyReader(r) \/ (\E s \in Readers : ShareReader(r, s))
             \/ StartRead(r, "next", NoLimit) \/ (\E max \in Limits : StartRead(r, "all", max))
             \/ DropReader(r)
    BY <1>1, <2>1 DEF GetBodyReader, ShareReader, StartRead, DropReader, readLog
  <2>. QED  BY <1>3, <2>1, ReceiveSorted, ReceiveEndSorted, CancelReadSorted DEF Reader
<1>4. CASE DropStream \/ UNCHANGED vars
  BY <1>1, <1>4 DEF DropStream, vars, readerVars, readLog
<1>. QED  BY <1>1, <1>2, <1>3, <1>4 DEF Next

\* Every chunk that came out of the channel is in one place: with one caller, in one read_to_end
\* that is under way, or lost with one that failed or was given up.
THEOREM OncePlaced == Spec => []HandedOnce
<1>1. Init => Sorted
  <2>. SUFFICES ASSUME Init PROVE Sorted
    OBVIOUS
  <2>1. /\ ChunksIn(received) = {} /\ lost = {}
        /\ \A r \in Readers : Got(r) = {} /\ Gathered(r) = {}
    BY DEF Init, ChunksIn, Got, Gathered, Elements, Nothing
  <2>. QED  BY <2>1 DEF Sorted
<1>. QED  BY <1>1, SortedStep, SortedIsHandedOnce, Invariance, GatheringHolds, NumberedHolds,
             PTL DEF Spec

-----------------------------------------------------------------------------
(* The order in which a task is handed chunks: what it was handed and what *)
(* its read_to_end is gathering are, one behind the other, a subsequence   *)
(* of what came out of the channel.                                        *)

\* The items of s are items of t, in the same order.
Sub(s, t) ==
  /\ \A a \in 1..Len(s) : \E x \in 1..Len(t) : t[x] = s[a]
  /\ \A a, b \in 1..Len(s) :
       a < b => \E x, y \in 1..Len(t) : x < y /\ t[x] = s[a] /\ t[y] = s[b]

Line(r) == got[r] \o acc[r].items

InLine == \A r \in Readers : Sub(Line(r), received)

\* What was in order stays so when another item comes out.
LEMMA SubOfLonger ==
  ASSUME NEW s \in Seq(Item), NEW t \in Seq(Item), NEW i \in Item, Sub(s, t)
  PROVE  Sub(s, Append(t, i))
<1> DEFINE u == Append(t, i)
<1>1. Len(t) \in Nat /\ Len(u) = Len(t) + 1 /\ \A x \in 1..Len(t) : u[x] = t[x]
  BY AppendProperties, LenProperties
<1> HIDE DEF u
<1>2. ASSUME NEW a \in 1..Len(s) PROVE \E x \in 1..Len(u) : u[x] = s[a]
  BY <1>1 DEF Sub
<1>3. ASSUME NEW a \in 1..Len(s), NEW b \in 1..Len(s), a < b
      PROVE  \E x, y \in 1..Len(u) : x < y /\ u[x] = s[a] /\ u[y] = s[b]
  <2>1. PICK x \in 1..Len(t), y \in 1..Len(t) : x < y /\ t[x] = s[a] /\ t[y] = s[b]
    BY <1>3 DEF Sub
  <2>. QED  BY <1>1, <2>1
<1>4. Sub(s, u)
  BY <1>2, <1>3 DEF Sub
<1>. QED  BY <1>4 DEF u

\* An item that comes out last is the last of the line it joins.
LEMMA SubWithLast ==
  ASSUME NEW s \in Seq(Item), NEW t \in Seq(Item), NEW i \in Item, Sub(s, t)
  PROVE  Sub(Append(s, i), Append(t, i))
<1> DEFINE u == Append(t, i)
           v == Append(s, i)
<1>1. /\ Len(t) \in Nat /\ Len(u) = Len(t) + 1 /\ u[Len(u)] = i
      /\ Len(s) \in Nat /\ Len(v) = Len(s) + 1 /\ v[Len(v)] = i
      /\ \A x \in 1..Len(t) : u[x] = t[x]
      /\ \A a \in 1..Len(s) : v[a] = s[a]
  BY AppendProperties, LenProperties
<1> HIDE DEF u, v
<1>2. ASSUME NEW a \in 1..Len(s) PROVE \E x \in 1..Len(t) : u[x] = v[a]
  BY <1>1 DEF Sub
<1>3. ASSUME NEW a \in 1..Len(v) PROVE \E x \in 1..Len(u) : u[x] = v[a]
  <2>1. CASE a \in 1..Len(s)
    BY <1>1, <1>2, <2>1
  <2>2. CASE a = Len(v)
    BY <1>1, <2>2
  <2>. QED  BY <1>1, <2>1, <2>2
<1>4. ASSUME NEW a \in 1..Len(v), NEW b \in 1..Len(v), a < b
      PROVE  \E x, y \in 1..Len(u) : x < y /\ u[x] = v[a] /\ u[y] = v[b]
  <2>1. a \in 1..Len(s) /\ v[a] = s[a]
    BY <1>1, <1>4
  <2>2. CASE b \in 1..Len(s)
    <3>1. PICK x \in 1..Len(t), y \in 1..Len(t) : x < y /\ t[x] = s[a] /\ t[y] = s[b]
      BY <1>4, <2>1, <2>2 DEF Sub
    <3>. QED  BY <1>1, <2>1, <2>2, <3>1
  <2>3. CASE b = Len(v)
    <3>1. PICK x \in 1..Len(t) : u[x] = v[a]
      BY <1>2, <2>1
    <3>2. x < Len(u) /\ u[Len(u)] = v[b] /\ x \in 1..Len(u) /\ Len(u) \in 1..Len(u)
      BY <1>1, <2>3, <3>1
    <3>. QED  BY <3>1, <3>2
  <2>. QED  BY <1>1, <2>2, <2>3
<1>5. Sub(v, u)
  BY <1>3, <1>4 DEF Sub
<1>. QED  BY <1>5 DEF u, v

\* A line that loses its end keeps its order.
LEMMA SubOfFront ==
  ASSUME NEW s \in Seq(Item), NEW e \in Seq(Item), NEW t \in Seq(Item), Sub(s \o e, t)
  PROVE  Sub(s, t)
<1> DEFINE w == s \o e
<1>1. /\ Len(s) \in Nat /\ Len(e) \in Nat /\ Len(w) = Len(s) + Len(e)
      /\ \A a \in 1..Len(s) : w[a] = s[a]
  BY ConcatProperties, LenProperties
<1>2. Sub(w, t)
  OBVIOUS
<1> HIDE DEF w
<1>3. \A a \in 1..Len(s) : \E x \in 1..Len(t) : t[x] = s[a]
  BY <1>1, <1>2 DEF Sub
<1>4. ASSUME NEW a \in 1..Len(s), NEW b \in 1..Len(s), a < b
      PROVE  \E x, y \in 1..Len(t) : x < y /\ t[x] = s[a] /\ t[y] = s[b]
  <2>1. a \in 1..Len(w) /\ b \in 1..Len(w)
    BY <1>1
  <2>2. PICK x \in 1..Len(t), y \in 1..Len(t) : x < y /\ t[x] = w[a] /\ t[y] = w[b]
    BY <1>2, <1>4, <2>1 DEF Sub
  <2>. QED  BY <1>1, <2>2
<1>. QED  BY <1>3, <1>4 DEF Sub

LEMMA LineTypes ==
  ASSUME IInv
  PROVE  /\ received \in Seq(Item)
         /\ got \in [Readers -> Seq(Item)] /\ acc \in [Readers -> [items : Seq(Item), len : Nat]]
         /\ \A r \in Readers : got[r] \in Seq(Item) /\ acc[r].items \in Seq(Item) /\ Line(r) \in Seq(Item)
<1>1. /\ received \in Seq(Item) /\ got \in [Readers -> Seq(Item)]
      /\ acc \in [Readers -> [items : Seq(Item), len : Nat]]
  BY DEF IInv, TypeOK
<1>2. ASSUME NEW r \in Readers PROVE got[r] \in Seq(Item) /\ acc[r].items \in Seq(Item)
  BY <1>1
<1>3. \A r \in Readers : Line(r) \in Seq(Item)
  BY <1>2, ConcatProperties DEF Line
<1>. QED  BY <1>1, <1>2, <1>3

\* The line of a task whose call is over is what it was handed.
LEMMA LineAfterCall ==
  ASSUME IInv, NEW r \in Readers, EndCall(r), got' \in [Readers -> Seq(Item)]
  PROVE  /\ Line(r)' = got'[r]
         /\ \A s \in Readers : s # r /\ got'[s] = got[s] => Line(s)' = Line(s)
<1>1. acc' = [acc EXCEPT ![r] = Nothing] /\ acc \in [Readers -> [items : Seq(Item), len : Nat]]
  BY LineTypes DEF EndCall
<1>2. acc'[r].items = <<>> /\ got'[r] \in Seq(Item)
  BY <1>1 DEF Nothing
<1>3. Line(r)' = got'[r]
  BY <1>2, ConcatEmptySeq DEF Line
<1>4. \A s \in Readers : s # r => acc'[s] = acc[s]
  BY <1>1
<1>. QED  BY <1>3, <1>4 DEF Line

\* A call that hands nothing over takes what it gathered out of the line.
LEMMA GivenUpInLine ==
  ASSUME IInv, InLine, NEW r \in Readers, EndCall(r), got' = got, received' = received
  PROVE  InLine'
<1>1. Sub(got[r], received)
  BY LineTypes, SubOfFront DEF InLine, Line
<1>2. Line(r)' = got[r] /\ \A s \in Readers : s # r => Line(s)' = Line(s)
  BY LineTypes, LineAfterCall
<1>. QED  BY <1>1, <1>2 DEF InLine

LEMMA ReceiveEndInLine ==
  ASSUME IInv, InLine, NEW r \in Readers, ReceiveEnd(r)
  PROVE  InLine'
<1>1. EndCall(r) /\ received' = received
  BY DEF ReceiveEnd
<1>2. CASE got' = got
  BY <1>1, <1>2, GivenUpInLine
<1>3. CASE got' = [got EXCEPT ![r] = @ \o acc[r].items]
  <2>1. got'[r] = Line(r) /\ \A s \in Readers : s # r => got'[s] = got[s]
    BY <1>3, LineTypes DEF Line
  <2>2. got' \in [Readers -> Seq(Item)]
    BY <1>3, <2>1, LineTypes
  <2>3. Line(r)' = Line(r) /\ \A s \in Readers : s # r => Line(s)' = Line(s)
    BY <1>1, <2>1, <2>2, LineAfterCall
  <2>. QED  BY <1>1, <2>3 DEF InLine
<1>. QED  BY <1>2, <1>3 DEF ReceiveEnd

LEMMA ReceiveInLine ==
  ASSUME IInv, InLine, NEW r \in Readers, Receive(r)
  PROVE  InLine'
<1> DEFINE i == Head(queue)
<1>1. i \in Item /\ received' = Append(received, i)
  BY HeadTailProperties DEF IInv, TypeOK, Receive
<1>2. IF call[r] = "next" THEN HandOver(r, i) ELSE Gather(r, i)
  BY DEF Receive
<1> HIDE DEF i
<1>3. \A s \in Readers : Sub(Line(s), received')
  BY <1>1, LineTypes, SubOfLonger DEF InLine
<1>4. Sub(got[r], received)
  BY LineTypes, SubOfFront DEF InLine, Line
<1>5. CASE EndCall(r) /\ got' = got
  <2>1. Sub(got[r], received')
    BY <1>1, <1>4, LineTypes, SubOfLonger
  <2>2. Line(r)' = got[r] /\ \A s \in Readers : s # r => Line(s)' = Line(s)
    BY <1>5, LineTypes, LineAfterCall
  <2>. QED  BY <1>3, <2>1, <2>2 DEF InLine
<1>6. CASE EndCall(r) /\ got' = [got EXCEPT ![r] = Append(@, i)]
  <2>1. got'[r] = Append(got[r], i) /\ \A s \in Readers : s # r => got'[s] = got[s]
    BY <1>6, LineTypes
  <2>2. got' \in [Readers -> Seq(Item)]
    BY <1>1, <1>6, LineTypes
  <2>3. Line(r)' = Append(got[r], i) /\ \A s \in Readers : s # r => Line(s)' = Line(s)
    BY <1>6, <2>1, <2>2, LineAfterCall
  <2>4. Sub(Append(got[r], i), received')
    BY <1>1, <1>4, LineTypes, SubWithLast
  <2>. QED  BY <1>3, <2>3, <2>4 DEF InLine
<1>7. CASE /\ acc' = [acc EXCEPT ![r] = [items |-> Append(@.items, i), len |-> @.len + i.size]]
           /\ got' = got
  <2>1. acc'[r].items = Append(acc[r].items, i) /\ \A s \in Readers : s # r => acc'[s] = acc[s]
    BY <1>7, LineTypes
  <2>2. Line(r)' = Append(Line(r), i)
    BY <1>1, <1>7, <2>1, LineTypes, PushFlow DEF Line
  <2>3. \A s \in Readers : s # r => Line(s)' = Line(s)
    BY <1>7, <2>1 DEF Line
  <2>4. Sub(Append(Line(r), i), received')
    BY <1>1, LineTypes, SubWithLast DEF InLine
  <2>. QED  BY <1>3, <2>2, <2>3, <2>4 DEF InLine
<1>. QED  BY <1>2, <1>5, <1>6, <1>7 DEF HandOver, Gather

LEMMA InLineStep == IInv /\ InLine /\ [Next]_vars => InLine'
<1>. SUFFICES ASSUME IInv, InLine, [Next]_vars PROVE InLine'
  OBVIOUS
<1>1. CASE UNCHANGED <<got, acc, received>>
  BY <1>1 DEF InLine, Line
<1>2. ASSUME NEW p \in Producers, Producer(p) PROVE UNCHANGED <<got, acc, received>>
  BY <1>2 DEF Producer, SendEmpty, Send, SendGranted, SendRefused, CancelSend, Closed, Finish,
              DropSender, readerVars, readLog
<1>3. ASSUME NEW r \in Readers, Reader(r) PROVE InLine'
  <2>1. CASE \/ GetBodyReader(r) \/ (\E s \in Readers : ShareReader(r, s))
             \/ StartRead(r, "next", NoLimit) \/ (\E max \in Limits : StartRead(r, "all", max))
             \/ DropReader(r)
    BY <1>1, <2>1 DEF GetBodyReader, ShareReader, StartRead, DropReader, readLog
  <2>2. CASE CancelRead(r)
    BY <2>2, GivenUpInLine DEF CancelRead
  <2>. QED  BY <1>3, <2>1, <2>2, ReceiveInLine, ReceiveEndInLine DEF Reader
<1>4. CASE DropStream \/ UNCHANGED vars
  BY <1>1, <1>4 DEF DropStream, vars, readerVars, readLog
<1>. QED  BY <1>1, <1>2, <1>3, <1>4 DEF Next

\* A task is handed chunks in the order in which they came out of the channel, also when it mixes
\* get_next_chunk with read_to_end, gives calls up, and other tasks read in between.
THEOREM OrderKept == Spec => []HandedInOrder
<1>1. Init => InLine
  <2>. SUFFICES ASSUME Init PROVE InLine
    OBVIOUS
  <2>1. ASSUME NEW r \in Readers PROVE Len(Line(r)) = 0
    <3>1. got[r] = <<>> /\ acc[r].items = <<>>
      BY DEF Init, Nothing
    <3>. QED  BY <3>1 DEF Line
  <2>. QED  BY <2>1 DEF InLine, Sub
<1>2. IInv /\ InLine => HandedInOrder
  <2>. SUFFICES ASSUME IInv, InLine, NEW r \in Readers PROVE Sub(got[r], received)
    BY DEF HandedInOrder, Sub
  <2>. QED  BY LineTypes, SubOfFront DEF InLine, Line
<1>. QED  BY <1>1, <1>2, InLineStep, Invariance, PTL DEF Spec

-----------------------------------------------------------------------------
(***************************************************************************)
(* The documented pump and handler around the channel, for every size of   *)
(* body and of buffer: a clean end means the whole body.  The pump's side  *)
(* (what it has put in), the channel's (EndIsTrue) and the handler's (what *)
(* it has taken out) are three invariants that meet in the property.       *)
(***************************************************************************)

\* What they do to the channel are steps of the channel.
LEMMA PumpStepIsStep == [PumpNext]_allVars => [Next]_vars
<1> SUFFICES ASSUME [PumpNext]_allVars PROVE [Next]_vars
  OBVIOUS
<1>1. Pump \in Producers /\ Handler \in Readers
  BY BodyPumpAssumption
<1>2. CASE UNCHANGED vars
  BY <1>2
<1>3. ASSUME Producer(Pump) PROVE Next
  BY <1>1, <1>3 DEF Next
<1>4. ASSUME Reader(Handler) PROVE Next
  BY <1>1, <1>4 DEF Next
<1>5. CASE PumpChunk \/ PumpWakes \/ SourceFails \/ SourceEnds \/ SeesClosed \/ PumpLeaves
  BY <1>3, <1>5 DEF PumpChunk, PumpWakes, SourceFails, SourceEnds, SeesClosed, PumpLeaves, Producer
<1>6. CASE PumpDies
  BY <1>2, <1>3, <1>6 DEF PumpDies, Producer
<1>7. CASE TakeReader \/ Ask \/ TakeItem \/ TakeEnd
  BY <1>4, <1>7 DEF TakeReader, Ask, TakeItem, TakeEnd, Reader
<1>8. CASE GiveUp
  BY <1>2, <1>4, <1>8 DEF GiveUp, Reader
<1>9. CASE HandlerLeaves
  BY <1>4, <1>9 DEF HandlerLeaves, Reader, Next
<1>10. CASE NextChunk \/ CheckAnswer \/ UNCHANGED allVars
  BY <1>2, <1>10 DEF NextChunk, CheckAnswer, allVars
<1>. QED  BY <1>5, <1>6, <1>7, <1>8, <1>9, <1>10 DEF PumpNext

\* So whatever is true of the channel is true of it here.
LEMMA PumpIsChannel == PumpSpec => [](IInv /\ Gathering)
<1>1. PumpInit => Init
  BY DEF PumpInit
<1>2. PumpSpec => Spec
  BY <1>1, PumpStepIsStep, PTL DEF PumpSpec, Spec
<1>. QED  BY <1>2, Invariance, GatheringHolds, PTL

-----------------------------------------------------------------------------
(* The pump *)

\* The channel was given the first n chunks of the source, in order, and nothing else.
Put(n) == Len(sent) = n /\ \A k \in 1..n : sent[k].n = k

PumpInv ==
  /\ produced \in Nat
  /\ pump \in {"reading", "holding", "sending", "leaving", "gone"}
  /\ source \in {"open", "failed", "ended", "died"}
  /\ pump = "reading" =>
       source = "open" /\ Put(produced) /\ calls[Pump] = produced /\ pending[Pump] = NoItem
  /\ pump = "holding" =>
       /\ source = "open" /\ produced > 0 /\ Put(produced - 1)
       /\ calls[Pump] = produced - 1 /\ pending[Pump] = NoItem
  /\ pump = "sending" /\ source = "open" =>
       /\ produced > 0 /\ calls[Pump] = produced
       /\ pending[Pump] = NoItem /\ answer[Pump] = "true" => Put(produced)
       /\ pending[Pump] # NoItem =>
            pending[Pump].kind = "chunk" /\ pending[Pump].n = produced /\ Put(produced - 1)
  /\ pump = "sending" => source \in {"open", "failed"}
  /\ pump \in {"leaving", "gone"} => pending[Pump] = NoItem
  /\ completed => /\ source = "ended" /\ pump \in {"leaving", "gone"}
                  /\ produced = total /\ Put(total)

LEMMA PumpTypes ==
  ASSUME IInv
  PROVE  /\ Pump \in Producers /\ Handler \in Readers
         /\ sent \in Seq(Item) /\ Len(sent) \in Nat
         /\ pending \in [Producers -> Item \cup {NoItem}]
         /\ calls \in [Producers -> 0..MaxCalls]
         /\ answer \in [Producers -> {"none", "true", "false"}]
         /\ Pump \in granted => pending[Pump] # NoItem
<1>1. Pump \in Producers /\ Handler \in Readers
  BY BodyPumpAssumption
<1>. QED  BY <1>1, LenProperties DEF IInv, TypeOK, SendLine

\* One chunk more.
LEMMA PutNext ==
  ASSUME NEW n \in Nat, Put(n), sent \in Seq(Item), NEW i \in Item, i.n = n + 1,
         sent' = Append(sent, i)
  PROVE  Put(n + 1)'
<1>1. /\ Len(sent') = n + 1 /\ \A k \in 1..n : sent'[k] = sent[k]
      /\ sent'[n + 1] = i
  BY AppendProperties DEF Put
<1>. QED  BY <1>1 DEF Put

LEMMA PumpChunkInv ==
  ASSUME IInv, PumpInv, PumpChunk
  PROVE  PumpInv'
<1>1. PICK size \in Sizes : Send(Pump, "chunk", size)
  BY DEF PumpChunk
<1> DEFINE i == NewItem(Pump, "chunk", size)
<1>2. /\ pump = "holding" /\ pump' = "sending" /\ UNCHANGED <<produced, source, total>>
      /\ source = "open" /\ produced \in Nat /\ produced > 0 /\ Put(produced - 1)
      /\ calls[Pump] = produced - 1 /\ pending[Pump] = NoItem /\ ~completed
  BY DEF PumpChunk, PumpInv
<1>3. /\ calls' = [calls EXCEPT ![Pump] = @ + 1] /\ completed' = completed
      /\ calls[Pump] < MaxCalls
  BY <1>1 DEF Send
<1>4. calls'[Pump] = produced
  BY <1>2, <1>3, PumpTypes
<1>5. i \in Item /\ i.n = produced /\ i.kind = "chunk" /\ i # NoItem
  <2>1. calls[Pump] + 1 \in 1..MaxCalls
    BY <1>2, <1>3, PumpTypes, BodyStreamAssumption
  <2>2. i \in Item /\ i.kind = "chunk"
    BY <2>1, PumpTypes DEF NewItem, Item
  <2>3. i.n = produced
    BY <1>2 DEF NewItem
  <2>. QED  BY <2>2, <2>3, BodyStreamAssumption
<1> HIDE DEF i
<1>6. /\ pending'[Pump] = NoItem /\ answer'[Pump] = "true" => Put(produced)'
      /\ pending'[Pump] # NoItem =>
           pending'[Pump].kind = "chunk" /\ pending'[Pump].n = produced /\ Put(produced - 1)'
  <2>1. CASE ~Open /\ Tell(Pump, i, "false") /\ UNCHANGED <<parked, pending, queue, sent>>
    <3>1. answer'[Pump] = "false"
      BY <1>5, <2>1, PumpTypes DEF Tell
    <3>. QED  BY <1>2, <2>1, <3>1
  <2>2. CASE Open /\ Free > 0 /\ Push(Pump, i) /\ UNCHANGED <<parked, pending>>
    <3>1. sent' = Append(sent, i)
      BY <2>2 DEF Push
    <3>2. produced - 1 \in Nat /\ (produced - 1) + 1 = produced
      BY <1>2
    <3>3. Put((produced - 1) + 1)'
      <4> DEFINE n == produced - 1
      <4>1. n \in Nat /\ Put(n) /\ i.n = n + 1 /\ n' = n
        BY <1>2, <1>5, <3>2
      <4> HIDE DEF n
      <4>2. Put(n + 1)'
        BY <1>5, <3>1, <4>1, PumpTypes, PutNext
      <4>. QED  BY <4>1, <4>2 DEF n, Put
    <3>. QED  BY <1>2, <2>2, <3>2, <3>3 DEF Put
  <2>3. CASE /\ pending' = [pending EXCEPT ![Pump] = i]
             /\ UNCHANGED <<answer, queue, sent>>
    <3>1. pending'[Pump] = i
      BY <2>3, PumpTypes
    <3>. QED  BY <1>2, <1>5, <2>3, <3>1 DEF Put
  <2>. QED  BY <1>1, <2>1, <2>2, <2>3 DEF Send, i
<1>. QED  BY <1>2, <1>3, <1>4, <1>6 DEF PumpInv

LEMMA PumpWakesInv ==
  ASSUME IInv, PumpInv, PumpWakes
  PROVE  PumpInv'
<1>1. /\ UNCHANGED <<produced, total, pump, source, completed, calls>>
      /\ pending[Pump] # NoItem
      /\ pending' = [pending EXCEPT ![Pump] = NoItem]
  BY PumpTypes DEF PumpWakes, pumpVars, SendGranted, SendRefused, Idle
<1>2. pending'[Pump] = NoItem /\ pump = "sending" /\ ~completed
  BY <1>1, PumpTypes DEF PumpInv
<1>3. ASSUME source = "open", answer'[Pump] = "true" PROVE Put(produced)'
  <2>1. /\ produced \in Nat /\ produced > 0 /\ Put(produced - 1)
        /\ pending[Pump].kind = "chunk" /\ pending[Pump].n = produced /\ pending[Pump] \in Item
    BY <1>1, <1>2, <1>3, PumpTypes DEF PumpInv
  <2>2. CASE SendGranted(Pump)
    <3> DEFINE n == produced - 1
               i == pending[Pump]
    <3>1. n \in Nat /\ Put(n) /\ n + 1 = produced /\ i \in Item /\ i.n = n + 1 /\ n' = n
      BY <1>1, <2>1
    <3>2. sent' = Append(sent, i)
      BY <2>2 DEF SendGranted, Push
    <3> HIDE DEF n, i
    <3>3. Put(n + 1)'
      BY <3>1, <3>2, PumpTypes, PutNext
    <3>. QED  BY <1>1, <3>1, <3>3 DEF Put
  <2>3. CASE SendRefused(Pump)
    <3>1. answer'[Pump] = "false"
      BY <2>1, <2>3, PumpTypes DEF SendRefused, Tell
    <3>. QED  BY <1>3, <3>1
  <2>. QED  BY <2>2, <2>3 DEF PumpWakes
<1>. QED  BY <1>1, <1>2, <1>3 DEF PumpInv

LEMMA PumpInvStep == IInv /\ PumpInv /\ [PumpNext]_allVars => PumpInv'
<1> SUFFICES ASSUME IInv, PumpInv, [PumpNext]_allVars PROVE PumpInv'
  OBVIOUS
<1>0. ASSUME UNCHANGED <<produced, total, pump, source, sent, calls, pending, answer, completed>>
      PROVE  PumpInv'
  BY <1>0 DEF PumpInv, Put
<1>1. CASE NextChunk
  <2>1. UNCHANGED <<source, total, sent, calls, pending, answer, completed>> /\ produced' = produced + 1
    BY <1>1 DEF NextChunk, vars, senderVars
  <2>. QED  BY <1>1, <2>1 DEF NextChunk, PumpInv, Put
<1>2. CASE PumpChunk
  BY <1>2, PumpChunkInv
<1>3. CASE PumpWakes
  BY <1>3, PumpWakesInv
<1>4. CASE CheckAnswer
  <2>1. UNCHANGED <<source, total, produced, sent, calls, pending, answer, completed>>
    BY <1>4 DEF CheckAnswer, vars, senderVars
  <2>2. pump = "sending" /\ pending[Pump] = NoItem
    BY <1>4 DEF CheckAnswer, Idle
  <2>3. pump' = IF source = "open" /\ answer[Pump] = "true" THEN "reading" ELSE "leaving"
    BY <1>4 DEF CheckAnswer
  <2>. QED  BY <2>1, <2>2, <2>3 DEF PumpInv, Put
<1>5. CASE SourceFails
  <2>1. /\ pump = "reading" /\ pump' = "sending" /\ source' = "failed"
        /\ UNCHANGED <<total, produced, completed>>
    BY <1>5 DEF SourceFails, Send
  <2>. QED  BY <2>1 DEF PumpInv
<1>6. CASE SourceEnds
  <2>1. /\ pump = "reading" /\ produced = total /\ source' = "ended" /\ pump' = "leaving"
        /\ UNCHANGED <<produced, total, sent, pending>>
    BY <1>6 DEF SourceEnds, Finish
  <2>. QED  BY <2>1 DEF PumpInv, Put
<1>7. CASE SeesClosed
  <2>1. /\ pump = "reading" /\ pump' = "leaving"
        /\ UNCHANGED <<source, produced, total, sent, pending, completed>>
    BY <1>7 DEF SeesClosed, Closed
  <2>. QED  BY <2>1 DEF PumpInv, Put
<1>8. CASE PumpDies
  <2>1. pump # "leaving" /\ pump # "gone" /\ pump' = "leaving" /\ source' \in {"failed", "died"}
    BY <1>8 DEF PumpDies
  <2>2. UNCHANGED <<produced, total, completed>>
    BY <1>8 DEF PumpDies, CancelSend, vars, senderVars
  <2>3. pending'[Pump] = NoItem
    BY <1>8, PumpTypes DEF PumpDies, CancelSend, Idle, vars, senderVars
  <2>. QED  BY <2>1, <2>2, <2>3 DEF PumpInv
<1>9. CASE PumpLeaves
  <2>1. /\ pump = "leaving" /\ pump' = "gone"
        /\ UNCHANGED <<source, produced, total, sent, pending, completed>>
    BY <1>9 DEF PumpLeaves, DropSender
  <2>. QED  BY <2>1 DEF PumpInv, Put
<1>10. CASE TakeReader \/ Ask \/ TakeItem \/ TakeEnd \/ GiveUp \/ HandlerLeaves
  BY <1>0, <1>10 DEF TakeReader, Ask, TakeItem, TakeEnd, GiveUp, HandlerLeaves, GetBodyReader,
      StartRead, Receive, ReceiveEnd, CancelRead, DropReader, DropStream, senderVars, pumpVars, vars
<1>11. CASE UNCHANGED allVars
  BY <1>0, <1>11 DEF allVars, vars, senderVars, pumpVars
<1>. QED
  BY <1>1, <1>2, <1>3, <1>4, <1>5, <1>6, <1>7, <1>8, <1>9, <1>10, <1>11 DEF PumpNext

-----------------------------------------------------------------------------
(* The handler *)

\* As long as it reads, the handler has everything that came out; told of a clean end, it keeps it.
HandlerInv ==
  /\ handler \in {"start", "reading"} =>
       result # "eof" /\ got[Handler] \o acc[Handler].items = received
  /\ result = "eof" => "eof" \in seen /\ got[Handler] = received

LEMMA HandlerTypes ==
  ASSUME IInv
  PROVE  /\ Handler \in Readers /\ received \in Seq(Item)
         /\ got \in [Readers -> Seq(Item)] /\ acc \in [Readers -> [items : Seq(Item), len : Nat]]
         /\ got[Handler] \in Seq(Item) /\ acc[Handler].items \in Seq(Item)
<1>1. /\ Handler \in Readers /\ received \in Seq(Item)
      /\ got \in [Readers -> Seq(Item)] /\ acc \in [Readers -> [items : Seq(Item), len : Nat]]
  BY BodyPumpAssumption DEF IInv, TypeOK
<1>. QED  BY <1>1

LEMMA TakeItemInv ==
  ASSUME IInv, Gathering, HandlerInv, TakeItem
  PROVE  HandlerInv'
<1> DEFINE i == Head(queue)
<1>1. /\ handler = "reading" /\ result # "eof" /\ got[Handler] \o acc[Handler].items = received
      /\ Receive(Handler)
  BY DEF TakeItem, HandlerInv
<1>2. i \in Item /\ received' = Append(received, i) /\ call[Handler] \in {"next", "all"}
      /\ call \in [Readers -> {"idle", "next", "all"}]
  BY <1>1, HandlerTypes, HeadTailProperties DEF IInv, TypeOK, Receive, HasTurn
<1>3. CASE handler' = "done" /\ result' = "failed"
  BY <1>3 DEF HandlerInv
<1>4. CASE UNCHANGED handlerVars
  <2>1. ~(call'[Handler] = "idle" /\ (call[Handler] = "all" \/ i.kind = "error"))
    BY <1>1, <1>4 DEF TakeItem, handlerVars
  <2>2. got'[Handler] \o acc'[Handler].items = received'
    <3>1. CASE call[Handler] = "next"
      <4>1. EndCall(Handler) /\ got' = IF i.kind = "chunk" THEN [got EXCEPT ![Handler] = Append(@, i)] ELSE got
        BY <1>1, <3>1 DEF Receive, HandOver
      <4>2. call'[Handler] = "idle" /\ acc'[Handler].items = <<>>
        BY <1>2, <4>1, HandlerTypes DEF EndCall, Nothing
      <4>3. i.kind = "chunk"
        <5>1. i.kind # "error"
          BY <2>1, <4>2
        <5>. QED  BY <1>2, <5>1 DEF Item
      <4>4. got'[Handler] = Append(got[Handler], i) /\ got'[Handler] \in Seq(Item)
        BY <1>2, <4>1, <4>3, HandlerTypes
      <4>5. acc[Handler].items = <<>>
        BY <3>1, HandlerTypes DEF Gathering, Nothing
      <4>6. got[Handler] = received
        BY <1>1, <4>5, HandlerTypes, ConcatEmptySeq
      <4>. QED  BY <1>2, <4>2, <4>4, <4>6, ConcatEmptySeq
    <3>2. CASE call[Handler] = "all"
      <4>1. Gather(Handler, i)
        BY <1>1, <3>2 DEF Receive
      <4>2. ~EndCall(Handler)
        <5>1. call'[Handler] # "idle"
          BY <2>1, <3>2
        <5>. QED  BY <1>2, <5>1, HandlerTypes DEF EndCall
      <4>3. acc' = [acc EXCEPT ![Handler] = [items |-> Append(@.items, i), len |-> @.len + i.size]]
            /\ got' = got
        BY <4>1, <4>2 DEF Gather
      <4>4. acc'[Handler].items = Append(acc[Handler].items, i)
        BY <4>3, HandlerTypes
      <4>. QED  BY <1>1, <1>2, <4>3, <4>4, HandlerTypes, PushFlow
    <3>. QED  BY <1>2, <3>1, <3>2
  <2>. QED  BY <1>1, <1>4, <2>2 DEF HandlerInv, handlerVars
<1>. QED  BY <1>3, <1>4 DEF TakeItem

LEMMA TakeEndInv ==
  ASSUME IInv, HandlerInv, TakeEnd
  PROVE  HandlerInv'
<1>1. /\ handler = "reading" /\ got[Handler] \o acc[Handler].items = received
      /\ ReceiveEnd(Handler) /\ handler' = "done" /\ result' = EndOfBody
  BY DEF TakeEnd, HandlerInv
<1>2. seen' = seen \cup {EndOfBody} /\ received' = received
  BY <1>1 DEF ReceiveEnd
<1>3. ASSUME EndOfBody = "eof" PROVE got'[Handler] = received
  <2>1. got' = [got EXCEPT ![Handler] = @ \o acc[Handler].items]
    BY <1>1, <1>3 DEF ReceiveEnd
  <2>. QED  BY <1>1, <2>1, HandlerTypes
<1>. QED  BY <1>1, <1>2, <1>3 DEF HandlerInv

LEMMA HandlerInvStep == IInv /\ Gathering /\ HandlerInv /\ [PumpNext]_allVars => HandlerInv'
<1> SUFFICES ASSUME IInv, Gathering, HandlerInv, [PumpNext]_allVars PROVE HandlerInv'
  OBVIOUS
<1>0. ASSUME UNCHANGED <<got, acc, received, seen, result>>,
             handler' \in {"start", "reading"} => handler \in {"start", "reading"}
      PROVE  HandlerInv'
  BY <1>0 DEF HandlerInv
<1>1. CASE TakeReader
  <2>1. handler = "start" /\ UNCHANGED <<got, acc, received, seen, result>>
    BY <1>1 DEF TakeReader, GetBodyReader, readLog
  <2>. QED  BY <1>0, <2>1
<1>2. CASE Ask
  BY <1>0, <1>2 DEF Ask, StartRead, readLog, handlerVars
<1>3. CASE TakeItem
  BY <1>3, TakeItemInv
<1>4. CASE TakeEnd
  BY <1>4, TakeEndInv
<1>5. CASE GiveUp
  <2>1. handler = "reading" /\ handler' = "done" /\ result' = result
    BY <1>5 DEF GiveUp
  <2>. QED  BY <2>1 DEF HandlerInv
<1>6. CASE HandlerLeaves
  <2>1. handler' = "gone" /\ UNCHANGED <<got, received, seen, result>>
    BY <1>6 DEF HandlerLeaves, DropReader, DropStream, readLog
  <2>. QED  BY <2>1 DEF HandlerInv
<1>7. CASE NextChunk \/ PumpChunk \/ PumpWakes \/ CheckAnswer \/ SourceFails \/ SourceEnds
             \/ SeesClosed \/ PumpDies \/ PumpLeaves
  BY <1>0, <1>7 DEF NextChunk, PumpChunk, PumpWakes, CheckAnswer, SourceFails, SourceEnds, SeesClosed,
      PumpDies, PumpLeaves, Send, SendGranted, SendRefused, Finish, Closed, CancelSend, DropSender,
      readerVars, readLog, handlerVars, vars
<1>8. CASE UNCHANGED allVars
  BY <1>0, <1>8 DEF allVars, vars, readerVars, readLog, handlerVars
<1>. QED  BY <1>1, <1>2, <1>3, <1>4, <1>5, <1>6, <1>7, <1>8 DEF PumpNext

-----------------------------------------------------------------------------
(* Both *)

LEMMA InitPumpHandler == PumpInit => PumpInv /\ HandlerInv
<1> SUFFICES ASSUME PumpInit PROVE PumpInv /\ HandlerInv
  OBVIOUS
<1>1. Pump \in Producers /\ Handler \in Readers
  BY BodyPumpAssumption
<1>2. Len(sent) = 0 /\ calls[Pump] = 0 /\ pending[Pump] = NoItem /\ completed = FALSE
  BY <1>1 DEF PumpInit, Init
<1>3. PumpInv
  BY <1>2 DEF PumpInit, PumpInv, Put
<1>4. got[Handler] = <<>> /\ acc[Handler].items = <<>> /\ received = <<>>
  BY <1>1 DEF PumpInit, Init, Nothing
<1>5. got[Handler] \o acc[Handler].items = received
  BY <1>4
<1>6. HandlerInv
  BY <1>5 DEF PumpInit, HandlerInv
<1>. QED  BY <1>3, <1>6

\* "Ok(None) means the body has been read in full": for every body, every buffer and every moment
\* at which the source fails or the pump or the handler goes, a handler told of a clean end holds
\* each chunk of the source once and in order.
THEOREM CleanEndIsWhole == PumpSpec => []WholeMeansWhole
<1>1. IInv /\ PumpInv /\ HandlerInv => WholeMeansWhole
  <2> SUFFICES ASSUME IInv, PumpInv, HandlerInv, result = "eof"
               PROVE  /\ source = "ended" /\ produced = total
                      /\ [k \in 1..Len(got[Handler]) |-> got[Handler][k].n] = [k \in 1..total |-> k]
    BY DEF WholeMeansWhole
  <2>1. "eof" \in seen /\ got[Handler] = received
    BY DEF HandlerInv
  <2>2. received = sent /\ completed
    BY <2>1 DEF IInv, EndIsTrue
  <2>3. source = "ended" /\ produced = total /\ Put(total)
    BY <2>2 DEF PumpInv
  <2>4. Len(got[Handler]) = total /\ \A k \in 1..total : got[Handler][k].n = k
    BY <2>1, <2>2, <2>3 DEF Put
  <2>. QED  BY <2>3, <2>4
<1>. QED  BY <1>1, InitPumpHandler, PumpInvStep, HandlerInvStep, PumpIsChannel, PTL DEF PumpSpec
=============================================================================
