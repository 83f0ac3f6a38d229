---------------------------- MODULE BytesStream ----------------------------
(***************************************************************************)
(* The body read straight from a stream (HttpBodyAsStream::                *)
(* from_bytes_stream, BytesStreamSource), behind the lock of the           *)
(* HttpBodyReader that tasks share.                                        *)
(*                                                                         *)
(* The stream is whatever the application or a transport brings.  script   *)
(* is what it still has in store, one entry per answer of its get_next();  *)
(* it works on an answer only while it is polled, and an answer it has     *)
(* begun is lost with the future that works on it.                         *)
(***************************************************************************)
EXTENDS Naturals, Sequences, FiniteSets, TaskLines

CONSTANTS
  Readers,    \* tasks that share the reader
  Stories,    \* what a stream may have in store
  MaxReads,   \* bound: get_next_chunk calls of one task
  None        \* nothing begun

\* An answer has its number in the story and is a chunk, an empty chunk, an error or the end; a
\* stream that is asked again after an error or after its end has more to say.  Number 0 is an end
\* the source repeats without asking.
Answer == [n : Nat, kind : {"chunk", "empty", "error", "end"}]

ASSUME BytesStreamAssumption ==
  /\ Stories \subseteq Seq(Answer)
  /\ \A told \in Stories : \A k \in 1..Len(told) : told[k].n = k
  /\ MaxReads \in Nat
  /\ None \notin Answer

VARIABLES
  script,     \* the answers still to come
  reading,    \* the kept future: is a get_next() of the stream in progress
  begun,      \* the answer that get_next() has begun
  ended,      \* the stream said where its end is
  turns,      \* the reader's tokio Mutex: its holder, then those waiting
  reads,      \* number of calls a task has made
  given,      \* history: answers handed to callers, in order
  story       \* history: all the stream had in store

vars == <<script, reading, begun, ended, turns, reads, given, story>>

Init ==
  /\ story \in Stories /\ script = story
  /\ reading = FALSE /\ begun = None /\ ended = FALSE
  /\ turns = <<>>
  /\ reads = [r \in Readers |-> 0]
  /\ given = <<>>

Reading(r) == r \in Elements(turns)
HasTurn(r) == turns # <<>> /\ Head(turns) = r

\* get_next_chunk is called, and asks for the lock.
StartRead(r) ==
  /\ ~Reading(r) /\ reads[r] < MaxReads
  /\ reads' = [reads EXCEPT ![r] = @ + 1]
  /\ turns' = Append(turns, r)
  /\ UNCHANGED <<script, reading, begun, ended, given, story>>

\* Mutant of Ask: the end is not kept in mind.
AskAgain(r) ==
  /\ HasTurn(r) /\ ~reading
  /\ reading' = TRUE
  /\ UNCHANGED <<script, begun, ended, turns, reads, given, story>>

\* poll_next with no read in progress: the stream is asked for its next chunk.
Ask(r) ==
  /\ HasTurn(r) /\ ~ended /\ ~reading
  /\ reading' = TRUE
  /\ UNCHANGED <<script, begun, ended, turns, reads, given, story>>

\* Mutant of EndAgain: the end is told once.
EndOnce(r) ==
  /\ HasTurn(r) /\ ended /\ given[Len(given)].kind # "end"
  /\ turns' = Tail(turns)
  /\ given' = Append(given, [n |-> 0, kind |-> "end"])
  /\ UNCHANGED <<script, reading, begun, ended, reads, story>>

\* poll_next after the end: the end again, and the stream is left alone.
EndAgain(r) ==
  /\ HasTurn(r) /\ ended
  /\ turns' = Tail(turns)
  /\ given' = Append(given, [n |-> 0, kind |-> "end"])
  /\ UNCHANGED <<script, reading, begun, ended, reads, story>>

\* poll_next polls the read in progress, and the stream gets to work on its next answer, whoever
\* asked for it.
Begin(r) ==
  /\ HasTurn(r) /\ reading /\ begun = None /\ script # <<>>
  /\ begun' = Head(script)
  /\ script' = Tail(script)
  /\ UNCHANGED <<reading, ended, turns, reads, given, story>>

\* The loop of next_chunk: an empty chunk is passed by, and the stream asked again.
PassBy(r) ==
  /\ HasTurn(r) /\ begun # None /\ begun.kind = "empty"
  /\ begun' = None
  /\ UNCHANGED <<script, reading, ended, turns, reads, given, story>>

\* Mutant of Answered: an error is taken for the end.
AnsweredErrorEnds(r) ==
  /\ HasTurn(r) /\ begun # None /\ begun.kind # "empty"
  /\ reading' = FALSE /\ begun' = None
  /\ ended' = (begun.kind \in {"end", "error"})
  /\ given' = Append(given, begun)
  /\ turns' = Tail(turns)
  /\ UNCHANGED <<script, reads, story>>

\* The read is done: the next call begins a new one, unless this was the end.
Answered(r) ==
  /\ HasTurn(r) /\ begun # None /\ begun.kind # "empty"
  /\ reading' = FALSE /\ begun' = None
  /\ ended' = (begun.kind = "end")
  /\ given' = Append(given, begun)
  /\ turns' = Tail(turns)
  /\ UNCHANGED <<script, reads, story>>

\* Mutant of CancelRead: the read in progress belongs to the call and is dropped with it.
CancelReadDropsFuture(r) ==
  /\ Reading(r)
  /\ turns' = Without(turns, r)
  /\ IF HasTurn(r)
       THEN reading' = FALSE /\ begun' = None
       ELSE UNCHANGED <<reading, begun>>
  /\ UNCHANGED <<script, ended, reads, given, story>>

\* The future of a get_next_chunk is dropped while it waits: the lock is let go, the read in
\* progress stays with the source.
CancelRead(r) ==
  /\ Reading(r)
  /\ turns' = Without(turns, r)
  /\ UNCHANGED <<script, reading, begun, ended, reads, given, story>>

Next ==
  \E r \in Readers :
    \/ StartRead(r) \/ Ask(r) \/ EndAgain(r) \/ Begin(r) \/ PassBy(r) \/ Answered(r)
    \/ CancelRead(r)

\* A task that holds the lock and is woken goes on; nothing makes it give up or call.
Spec == Init /\ [][Next]_vars

ReadersRun ==
  \A r \in Readers : WF_vars(Ask(r) \/ EndAgain(r) \/ Begin(r) \/ PassBy(r) \/ Answered(r))

FairSpec == Spec /\ ReadersRun

-----------------------------------------------------------------------------
(* Properties *)

TypeOK ==
  /\ script \in Seq(Answer) /\ given \in Seq(Answer) /\ story \in Stories
  /\ reading \in BOOLEAN /\ ended \in BOOLEAN
  /\ begun \in Answer \cup {None} /\ (begun # None => reading)
  /\ turns \in Seq(Readers) /\ NoRepeat(turns)
  /\ reads \in [Readers -> 0..MaxReads]

\* How far the stream has come in its story.
Begun == Len(story) - Len(script)

\* "A read that is given up half-way is picked up by the next call instead of losing a chunk":
\* what the stream has begun to say is handed out without a gap, each answer once and in order, up
\* to the one that is being worked on, whoever asks and whoever gives up.
PickedUp ==
  /\ \A k \in 1..Begun :
       story[k].kind = "empty" \/ story[k] = begun \/ story[k] \in Elements(given)
  /\ \A a, b \in 1..Len(given) :
       a < b /\ given[a].n # 0 /\ given[b].n # 0 => given[a].n < given[b].n
  /\ \A a \in 1..Len(given) :
       given[a].n <= Begun /\ (begun # None => given[a].n < begun.n)

\* "The stream said where its end is - it is not asked again", though it would have more to give.
NotAskedAfterEnd == [][ended => UNCHANGED <<script, reading>>]_vars

\* "An empty chunk must never be mistaken for almost the end": callers see none, and after an end
\* nothing but ends.  An error is not one: "the next call asks the stream again".
OneEnd ==
  /\ ended => \E a \in Elements(given) : a.kind = "end"
  /\ \A a \in 1..Len(given) :
       /\ given[a].kind # "empty"
       /\ given[a].kind = "end" => \A b \in a..Len(given) : given[b].kind = "end"

\* A read of a stream that has an answer in store comes to its end, through empty chunks and
\* though the task in front gave up half-way.
EveryReadEnds ==
  \A r \in Readers : Reading(r) ~> (~Reading(r) \/ (script = <<>> /\ ~ended))
=============================================================================
