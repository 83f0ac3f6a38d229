----------------------------- MODULE BodyStream -----------------------------
(***************************************************************************)
(* The body channel of http_input/body_as_stream.rs: what                  *)
(* HttpBodyAsStream::create makes, seen through its public calls.          *)
(*                                                                         *)
(* Every public call may be made by every task that holds the handle, at   *)
(* any time, and every future may be given up at the point where it waits; *)
(* who calls what, and in which order, is left to the environment (module  *)
(* BodyPump has the pump the documentation asks for).                      *)
(*                                                                         *)
(* An item is what one send call puts into the channel: a chunk, of which  *)
(* only the size matters, or an error.  It carries the producer task and   *)
(* the number of that task's call, so that every item is told apart.       *)
(*                                                                         *)
(* sent, received, seen, got and lost are history: no action reads them.   *)
(***************************************************************************)
EXTENDS Naturals, Sequences, FiniteSets, TaskLines

CONSTANTS
  Producers,   \* tasks that share the sender (an Arc of it, all calls are &self)
  Readers,     \* tasks that may hold or share the reader
  Buffer,      \* the buffer argument of create()
  Sizes,       \* chunk sizes; 0 is the empty chunk
  Limits,      \* max_size arguments of read_to_end
  MaxCalls,    \* bound: send calls of one producer
  NoItem,      \* no send is in progress
  NoLimit      \* read_to_end(None), and the "limit" of a plain get_next_chunk

Item == [by : Producers, n : 1..MaxCalls, kind : {"chunk", "error"}, size : Sizes \cup {0}]

ASSUME BodyStreamAssumption ==
  /\ IsFiniteSet(Producers)
  /\ Producers # {}
  /\ Buffer \in Nat
  /\ Sizes \subseteq Nat
  /\ MaxCalls \in Nat
  /\ Limits \subseteq Nat \cup {NoLimit}
  /\ NoLimit \notin Nat
  /\ NoItem \notin Item

VARIABLES
  stream,      \* HttpBodyAsStream.inner, or "Dropped" once the model is gone
  holders,     \* tasks that hold the HttpBodyReader (its Arc)
  senders,     \* tasks that hold the HttpBodyStreamSender (its Arc)
  completed,   \* the flag finish() sets
  queue,       \* the items in the mpsc buffer
  parked,      \* tasks waiting for a permit of the channel, oldest first
  granted,     \* tasks given a permit they have not used yet
  pending,     \* the item of a task's send call in progress
  calls,       \* number of send calls a task has made
  answer,      \* what a task's last send_chunk or closed() told it
  turns,       \* the reader's tokio Mutex: its holder, then those waiting
  call,        \* the read a task has in progress
  limit,       \* its max_size
  acc,         \* what its read_to_end has gathered
  sent,        \* history: items the channel accepted, in order
  received,    \* history: items taken out of the channel, in order
  seen,        \* history: the ends of body readers were told of
  got,         \* history: chunks handed to each task's caller, in order
  lost         \* history: chunks gathered by a read_to_end that was given up or failed

senderVars == <<senders, completed, parked, granted, pending, calls, answer>>
readerVars == <<stream, holders, turns, call, limit, acc>>
readLog == <<received, seen, got, lost>>
vars == <<senderVars, readerVars, readLog, queue, sent>>

Capacity == IF Buffer = 0 THEN 1 ELSE Buffer

\* The one receiving half lives in the model field until it is taken, then in the reader.
Open == stream = "Ready" \/ holders # {}

\* Mutant of Free: an unbounded channel.
UnboundedFree == 1

Free == Capacity - Len(queue) - Cardinality(granted)

Idle(p) == pending[p] = NoItem

Nothing == [items |-> <<>>, len |-> 0]

Init ==
  /\ \/ stream = "Ready" /\ senders = Producers   \* create()
     \/ stream = "NotAvailable" /\ senders = {}   \* empty()
  /\ holders = {}
  /\ completed = FALSE
  /\ queue = <<>>
  /\ parked = <<>>
  /\ granted = {}
  /\ pending = [p \in Producers |-> NoItem]
  /\ calls = [p \in Producers |-> 0]
  /\ answer = [p \in Producers |-> "none"]
  /\ turns = <<>>
  /\ call = [r \in Readers |-> "idle"]
  /\ limit = [r \in Readers |-> NoLimit]
  /\ acc = [r \in Readers |-> Nothing]
  /\ sent = <<>>
  /\ received = <<>>
  /\ seen = {}
  /\ got = [r \in Readers |-> <<>>]
  /\ lost = {}

-----------------------------------------------------------------------------
(* The sender *)

NewItem(p, kind, size) == [by |-> p, n |-> calls[p] + 1, kind |-> kind, size |-> size]

\* send_chunk says whether the item went in; send_error does not.
Tell(p, i, worked) ==
  answer' = IF i.kind = "chunk" THEN [answer EXCEPT ![p] = worked] ELSE answer

\* Item i of task p goes into the buffer: the send call is over, and it worked.
Push(p, i) ==
  /\ queue' = Append(queue, i)
  /\ sent' = Append(sent, i)
  /\ Tell(p, i, "true")

\* Mutant of SendEmpty: a full channel is taken for one that is gone.
SendEmptyIfRoom(p) ==
  /\ p \in senders /\ Idle(p) /\ calls[p] < MaxCalls /\ 0 \in Sizes
  /\ calls' = [calls EXCEPT ![p] = @ + 1]
  /\ answer' = [answer EXCEPT ![p] = IF Open /\ Free > 0 THEN "true" ELSE "false"]
  /\ UNCHANGED <<senders, completed, parked, granted, pending, readerVars, readLog, queue, sent>>

\* send_chunk of an empty chunk: nothing goes in, but the reader is asked after.
SendEmpty(p) ==
  /\ p \in senders /\ Idle(p) /\ calls[p] < MaxCalls /\ 0 \in Sizes
  /\ calls' = [calls EXCEPT ![p] = @ + 1]
  /\ answer' = [answer EXCEPT ![p] = IF Open THEN "true" ELSE "false"]
  /\ UNCHANGED <<senders, completed, parked, granted, pending, readerVars, readLog, queue, sent>>

\* send_chunk or send_error, up to the point where it is done or has to wait.  A task never
\* overtakes one that waits already: free permits and waiting tasks do not go together.
Send(p, kind, size) ==
  LET i == NewItem(p, kind, size) IN
  /\ p \in senders /\ Idle(p) /\ calls[p] < MaxCalls
  /\ kind = "chunk" => size # 0
  /\ calls' = [calls EXCEPT ![p] = @ + 1]
  /\ \/ ~Open /\ Tell(p, i, "false") /\ UNCHANGED <<parked, pending, queue, sent>>
     \/ Open /\ Free > 0 /\ Push(p, i) /\ UNCHANGED <<parked, pending>>
     \/ /\ Open /\ Free = 0
        /\ parked' = Append(parked, p)
        /\ pending' = [pending EXCEPT ![p] = i]
        /\ UNCHANGED <<answer, queue, sent>>
  /\ UNCHANGED <<senders, completed, granted, readerVars, readLog>>

\* A task that was given a permit wakes up and puts its item in.
SendGranted(p) ==
  /\ p \in granted /\ Open
  /\ Push(p, pending[p])
  /\ granted' = granted \ {p}
  /\ pending' = [pending EXCEPT ![p] = NoItem]
  /\ UNCHANGED <<senders, completed, parked, calls, readerVars, readLog>>

\* Mutant of SendRefused: a waiting send does not notice that the reader was dropped.
SendRefusedByModelOnly(p) ==
  /\ ~Idle(p) /\ stream = "Dropped"
  /\ Tell(p, pending[p], "false")
  /\ parked' = Without(parked, p)
  /\ granted' = granted \ {p}
  /\ pending' = [pending EXCEPT ![p] = NoItem]
  /\ UNCHANGED <<senders, completed, calls, readerVars, readLog, queue, sent>>

\* A task that waits in a send wakes up to a channel that is gone.
SendRefused(p) ==
  /\ ~Idle(p) /\ ~Open
  /\ Tell(p, pending[p], "false")
  /\ parked' = Without(parked, p)
  /\ granted' = granted \ {p}
  /\ pending' = [pending EXCEPT ![p] = NoItem]
  /\ UNCHANGED <<senders, completed, calls, readerVars, readLog, queue, sent>>

\* A permit that comes free goes to the task that has waited longest.
PassPermit(waiting, having) ==
  IF waiting = <<>>
    THEN parked' = waiting /\ granted' = having
    ELSE parked' = Tail(waiting) /\ granted' = having \cup {Head(waiting)}

\* Mutant of CancelSend: a permit that was given is not passed on.
CancelSendKeepsPermit(p) ==
  /\ ~Idle(p)
  /\ parked' = Without(parked, p)
  /\ granted' = granted \ {p}
  /\ pending' = [pending EXCEPT ![p] = NoItem]
  /\ UNCHANGED <<senders, completed, calls, answer, readerVars, readLog, queue, sent>>

\* The future of a send is dropped while it waits (a timeout, a select): its item is never sent,
\* and a permit it was given goes on.
CancelSend(p) ==
  /\ ~Idle(p)
  /\ IF p \in granted
       THEN PassPermit(parked, granted \ {p})
       ELSE parked' = Without(parked, p) /\ granted' = granted
  /\ pending' = [pending EXCEPT ![p] = NoItem]
  /\ UNCHANGED <<senders, completed, calls, answer, readerVars, readLog, queue, sent>>

\* Mutant of Closed: it notices a model that was dropped, but not a reader.
ClosedByModelOnly(p) ==
  /\ p \in senders /\ Idle(p) /\ stream = "Dropped"
  /\ answer' = [answer EXCEPT ![p] = "false"]
  /\ UNCHANGED <<senders, completed, parked, granted, pending, calls, readerVars, readLog, queue, sent>>

\* closed() resolves.
Closed(p) ==
  /\ p \in senders /\ Idle(p) /\ ~Open
  /\ answer' = [answer EXCEPT ![p] = "false"]
  /\ UNCHANGED <<senders, completed, parked, granted, pending, calls, readerVars, readLog, queue, sent>>

\* finish() sets the flag and nothing else; the sender can still be used.
Finish(p) ==
  /\ p \in senders /\ Idle(p)
  /\ completed' = TRUE
  /\ UNCHANGED <<senders, parked, granted, pending, calls, answer, readerVars, readLog, queue, sent>>

\* A task lets go of the sender, whether it is done or died; the last one closes the channel.
DropSender(p) ==
  /\ p \in senders /\ Idle(p)
  /\ senders' = senders \ {p}
  /\ UNCHANGED <<completed, parked, granted, pending, calls, answer, readerVars, readLog, queue, sent>>

-----------------------------------------------------------------------------
(* The reader *)

\* Mutant of GetBodyReader: only a reader that was taken is refused.
GetBodyReaderUnlessTaken(r) ==
  /\ stream # "Taken"
  /\ stream' = "Taken"
  /\ holders' = {r}
  /\ UNCHANGED <<turns, call, limit, acc, senderVars, readLog, queue, sent>>

\* get_body_reader: the first call gets the one reader, every other call an error and no change.
GetBodyReader(r) ==
  /\ stream = "Ready"
  /\ stream' = "Taken"
  /\ holders' = {r}
  /\ UNCHANGED <<turns, call, limit, acc, senderVars, readLog, queue, sent>>

\* The reader sits in an Arc, and a task that has it gives it to another one.
ShareReader(r, s) ==
  /\ r \in holders /\ s \notin holders
  /\ holders' = holders \cup {s}
  /\ UNCHANGED <<stream, turns, call, limit, acc, senderVars, readLog, queue, sent>>

\* get_next_chunk ("next") or read_to_end ("all") is called, and asks for the lock.
StartRead(r, kind, max) ==
  /\ r \in holders /\ call[r] = "idle"
  /\ kind = "next" => max = NoLimit
  /\ call' = [call EXCEPT ![r] = kind]
  /\ limit' = [limit EXCEPT ![r] = max]
  /\ turns' = Append(turns, r)
  /\ UNCHANGED <<stream, holders, acc, senderVars, readLog, queue, sent>>

\* Task r holds the lock and polls the channel.
HasTurn(r) == turns # <<>> /\ Head(turns) = r /\ call[r] # "idle"

\* Mutant of EndCall: what was gathered stays for the next call.
EndCallKeepsGathered(r) ==
  /\ call' = [call EXCEPT ![r] = "idle"]
  /\ limit' = [limit EXCEPT ![r] = NoLimit]
  /\ turns' = Without(turns, r)
  /\ acc' = acc

\* The call of r is over: the lock is let go, what read_to_end had gathered is dropped.
EndCall(r) ==
  /\ call' = [call EXCEPT ![r] = "idle"]
  /\ limit' = [limit EXCEPT ![r] = NoLimit]
  /\ acc' = [acc EXCEPT ![r] = Nothing]
  /\ turns' = Without(turns, r)

Gathered(r) == Elements(acc[r].items)

\* Mutant of TooBig: looks at what is there already, not at what it is about to become.
AlreadyTooBig(r, i) == limit[r] # NoLimit /\ acc[r].len > limit[r]

TooBig(r, i) == limit[r] # NoLimit /\ acc[r].len + i.size > limit[r]

\* get_next_chunk hands item i to its caller.
HandOver(r, i) ==
  /\ EndCall(r)
  /\ got' = IF i.kind = "chunk" THEN [got EXCEPT ![r] = Append(@, i)] ELSE got
  /\ lost' = lost

\* Mutant of Gather: a chunk goes in front of what is there.
GatherInFront(r, i) ==
  IF i.kind = "error" \/ TooBig(r, i)
    THEN /\ EndCall(r)
         /\ lost' = lost \cup Gathered(r) \cup (IF i.kind = "chunk" THEN {i} ELSE {})
         /\ got' = got
    ELSE /\ acc' = [acc EXCEPT ![r] = [items |-> <<i>> \o @.items, len |-> @.len + i.size]]
         /\ turns' = Append(Tail(turns), r)
         /\ UNCHANGED <<call, limit, got, lost>>

\* read_to_end gets item i: an error or a chunk over the limit ends it and drops what it had;
\* any other chunk is kept, and the lock asked for again behind those that wait.
Gather(r, i) ==
  IF i.kind = "error" \/ TooBig(r, i)
    THEN /\ EndCall(r)
         /\ lost' = lost \cup Gathered(r) \cup (IF i.kind = "chunk" THEN {i} ELSE {})
         /\ got' = got
    ELSE /\ acc' = [acc EXCEPT ![r] = [items |-> Append(@.items, i), len |-> @.len + i.size]]
         /\ turns' = Append(Tail(turns), r)
         /\ UNCHANGED <<call, limit, got, lost>>

\* ChannelSource::poll_next gives the next item; its place in the buffer comes free.
Receive(r) ==
  LET i == Head(queue) IN
  /\ HasTurn(r) /\ queue # <<>>
  /\ queue' = Tail(queue)
  /\ PassPermit(parked, granted)
  /\ received' = Append(received, i)
  /\ IF call[r] = "next" THEN HandOver(r, i) ELSE Gather(r, i)
  /\ UNCHANGED <<stream, holders, senders, completed, pending, calls, answer, seen, sent>>

\* Mutants of EndOfBody: any closed channel is an end of body, and an end of a kind of its own.
AlwaysEof == "eof"
EofOrNone == IF completed THEN "eof" ELSE "none"

\* Every sender is gone and the buffer is empty: the end of the body if finish() was called, an
\* abort if not.  read_to_end hands over what it has gathered, or drops it.
EndOfBody == IF completed THEN "eof" ELSE "abort"

\* Mutant of ReceiveEnd: a channel that closed without the flag keeps the reader waiting.
ReceiveEndIfFinished(r) ==
  /\ HasTurn(r) /\ queue = <<>> /\ senders = {} /\ completed
  /\ seen' = seen \cup {"eof"}
  /\ got' = [got EXCEPT ![r] = @ \o acc[r].items]
  /\ lost' = lost
  /\ EndCall(r)
  /\ UNCHANGED <<stream, holders, senderVars, received, queue, sent>>

ReceiveEnd(r) ==
  /\ HasTurn(r) /\ queue = <<>> /\ senders = {}
  /\ seen' = seen \cup {EndOfBody}
  /\ IF EndOfBody = "eof"
       THEN got' = [got EXCEPT ![r] = @ \o acc[r].items] /\ lost' = lost
       ELSE got' = got /\ lost' = lost \cup Gathered(r)
  /\ EndCall(r)
  /\ UNCHANGED <<stream, holders, senderVars, received, queue, sent>>

\* Mutants of CancelRead: the read had taken an item already; the lock stays taken.
CancelReadTaking(r) ==
  /\ call[r] # "idle"
  /\ EndCall(r)
  /\ IF HasTurn(r) /\ queue # <<>>
       THEN /\ queue' = Tail(queue)
            /\ lost' = lost \cup Gathered(r) \cup {Head(queue)}
       ELSE queue' = queue /\ lost' = lost \cup Gathered(r)
  /\ UNCHANGED <<stream, holders, senderVars, received, seen, got, sent>>

CancelReadKeepsLock(r) ==
  /\ call[r] # "idle"
  /\ call' = [call EXCEPT ![r] = "idle"]
  /\ limit' = [limit EXCEPT ![r] = NoLimit]
  /\ acc' = [acc EXCEPT ![r] = Nothing]
  /\ lost' = lost \cup Gathered(r)
  /\ UNCHANGED <<stream, holders, turns, senderVars, received, seen, got, queue, sent>>

\* The future of a read is dropped while it waits, for the lock or for the channel.
CancelRead(r) ==
  /\ call[r] # "idle"
  /\ EndCall(r)
  /\ lost' = lost \cup Gathered(r)
  /\ UNCHANGED <<stream, holders, senderVars, received, seen, got, queue, sent>>

\* Mutant of DropReader: any task that leaves empties the buffer.
DropReaderForAll(r) ==
  /\ r \in holders /\ call[r] = "idle"
  /\ holders' = holders \ {r}
  /\ queue' = <<>>
  /\ UNCHANGED <<stream, turns, call, limit, acc, senderVars, readLog, sent>>

\* A task lets go of the reader; the last one takes the receiver and the buffer with it.
DropReader(r) ==
  /\ r \in holders /\ call[r] = "idle"
  /\ holders' = holders \ {r}
  /\ queue' = IF holders' = {} THEN <<>> ELSE queue
  /\ UNCHANGED <<stream, turns, call, limit, acc, senderVars, readLog, sent>>

\* The model is dropped with the reader still in it.
DropStream ==
  /\ stream = "Ready"
  /\ stream' = "Dropped"
  /\ queue' = <<>>
  /\ UNCHANGED <<holders, turns, call, limit, acc, senderVars, readLog, sent>>

-----------------------------------------------------------------------------

Producer(p) ==
  \/ SendEmpty(p)
  \/ \E size \in Sizes : Send(p, "chunk", size)
  \/ Send(p, "error", 0)
  \/ SendGranted(p)
  \/ SendRefused(p)
  \/ CancelSend(p)
  \/ Closed(p)
  \/ Finish(p)
  \/ DropSender(p)

Reader(r) ==
  \/ GetBodyReader(r)
  \/ \E s \in Readers : ShareReader(r, s)
  \/ StartRead(r, "next", NoLimit)
  \/ \E max \in Limits : StartRead(r, "all", max)
  \/ Receive(r)
  \/ ReceiveEnd(r)
  \/ CancelRead(r)
  \/ DropReader(r)

Next ==
  \/ \E p \in Producers : Producer(p)
  \/ \E r \in Readers : Reader(r)
  \/ DropStream

Spec == Init /\ [][Next]_vars

-----------------------------------------------------------------------------
(* Properties *)

TypeOK ==
  /\ stream \in {"Ready", "Taken", "NotAvailable", "Dropped"}
  /\ holders \in SUBSET Readers
  /\ senders \in SUBSET Producers
  /\ completed \in BOOLEAN
  /\ queue \in Seq(Item)
  /\ parked \in Seq(Producers)
  /\ granted \in SUBSET Producers
  /\ pending \in [Producers -> Item \cup {NoItem}]
  /\ calls \in [Producers -> 0..MaxCalls]
  /\ answer \in [Producers -> {"none", "true", "false"}]
  /\ turns \in Seq(Readers)
  /\ call \in [Readers -> {"idle", "next", "all"}]
  /\ limit \in [Readers -> Nat \cup {NoLimit}]
  /\ acc \in [Readers -> [items : Seq(Item), len : Nat]]
  /\ sent \in Seq(Item)
  /\ received \in Seq(Item)
  /\ seen \in SUBSET {"eof", "abort"}
  /\ got \in [Readers -> Seq(Item)]
  /\ lost \in SUBSET Item

\* "No chunk is lost" between the two halves: however many tasks read, and whatever they give up
\* half-way, they take the items out in the order they went in, and as long as there is a reader
\* the ones not taken out yet are all still there.
InOrderNoneLost ==
  /\ IsPrefixOf(received, sent)
  /\ Open => received \o queue = sent

\* "Back pressure": the producers are never further ahead of the readers than the channel is
\* wide, permits that were given out but not used included.
BackPressure ==
  Open => Len(sent) + Cardinality(granted) <= Len(received) + Capacity

\* A producer waits only while the channel is full: no place stays free beside a task that waits
\* for one, whoever gave up a send or a read in between.
NoLostPermit == Open /\ parked # <<>> => Free = 0

\* "A truncated body is an error, not an EOF": a reader is told of an end only after it has been
\* given everything the channel accepted, of a clean one only if finish() was called, of an
\* abort only if it was not; so no two calls are told different ends.
EndIsTrue ==
  seen # {} =>
    /\ senders = {} /\ received = sent
    /\ seen = IF completed THEN {"eof"} ELSE {"abort"}

\* send_chunk and closed() say "the reader is gone" only when it is: a pump that stops on it
\* stops rightly.
GoneIsTrue == \A p \in Producers : answer[p] = "false" => ~Open

\* Once the reader is gone it stays gone: nothing brings a receiving half back.
GoneForGood == [][~Open => ~Open']_vars

\* Tasks that read at the same time are served in turn: once the producers are gone every read
\* that is under way comes to its end, also when others gave theirs up or keep asking again.
ReadingRuns == \A r \in Readers : WF_vars(Receive(r)) /\ WF_vars(ReceiveEnd(r))

ReadingSpec == Spec /\ ReadingRuns

EveryReadEnds ==
  \A r \in Readers : (senders = {} /\ call[r] # "idle") ~> (call[r] = "idle")

ChunksIn(seq) == {i \in Elements(seq) : i.kind = "chunk"}

\* Every chunk that came out of the channel was handed to one caller, or is being gathered by one
\* read_to_end, or was dropped with a read_to_end that failed or was given up; never two of them.
Places == {Elements(got[r]) : r \in Readers} \cup {Gathered(r) : r \in Readers} \cup {lost}

HandedOnce ==
  /\ UNION Places = ChunksIn(received)
  /\ \A r, s \in Readers :
       /\ r # s => Elements(got[r]) \cap Elements(got[s]) = {}
       /\ r # s => Gathered(r) \cap Gathered(s) = {}
       /\ Elements(got[r]) \cap Gathered(s) = {}
       /\ lost \cap (Elements(got[r]) \cup Gathered(r)) = {}

\* What a task is handed is in the order of the channel, across its calls of either kind.
HandedInOrder ==
  \A r \in Readers : \A a, b \in 1..Len(got[r]) :
    a < b => \E x, y \in 1..Len(received) :
               x < y /\ received[x] = got[r][a] /\ received[y] = got[r][b]

\* read_to_end never holds more than its max_size.
WithinLimit == \A r \in Readers : limit[r] # NoLimit => acc[r].len <= limit[r]

\* get_next_chunk on its own is cancel-safe: with no read_to_end running nothing is ever lost.
NextIsCancelSafe ==
  [][(\A r \in Readers : call[r] # "all") => lost' = lost]_vars

\* The channel keeps the promise of BodyDelivery.
Delivery == INSTANCE BodyDelivery WITH
  written <- sent,
  read <- received,
  ending <- IF senders # {} THEN "open" ELSE EndOfBody,
  told <- seen,
  reading <- Open

DeliverySpec == Delivery!Spec

\* README: "both are cancel-safe: a read given up half-way is picked up by the next call, no chunk
\* is lost".  Taken of every read: one that ends with neither an item nor an end has lost nothing.
GivenUpReadLosesNothing ==
  [][\A r \in Readers :
       call[r] # "idle" /\ call'[r] = "idle" /\ received' = received /\ seen' = seen
         => lost' = lost]_vars
=============================================================================
