------------------------------ MODULE BodyPump ------------------------------
(***************************************************************************)
(* The body channel between the two programs the repository documents:     *)
(* the pump that pours a source into HttpBodyStreamSender (README,         *)
(* "Client"; the comments of send_chunk, send_error, closed and finish)    *)
(* and the handler that reads it (README, "Server", and read_to_end).      *)
(* Both are outside src/ and follow its documentation; every step they     *)
(* take on the channel is an action of BodyStream.                         *)
(*                                                                         *)
(* The source has total chunks; it may fail or fall silent before its end, *)
(* the pump may die, and the handler may give up, at any point.            *)
(***************************************************************************)
EXTENDS BodyStream

CONSTANTS
  Pump,       \* the one producer task
  Handler,    \* the one reader task
  MaxBody     \* bound: chunks of a body

ASSUME BodyPumpAssumption ==
  /\ Producers = {Pump} /\ Readers = {Handler}
  /\ MaxBody \in Nat /\ MaxBody < MaxCalls

VARIABLES
  watch,      \* does the pump wait for closed() beside the source?
  total,      \* chunks the source has
  produced,   \* chunks the pump has read from it
  pump,       \* where the pump is
  source,     \* how the pump's reading of the source ended
  handler,    \* where the handler is
  result      \* what the handler was told last

pumpVars == <<watch, total, produced, pump, source>>
handlerVars == <<handler, result>>
allVars == <<vars, pumpVars, handlerVars>>

PumpInit ==
  /\ Init /\ stream = "Ready"
  /\ watch \in BOOLEAN
  /\ total \in 0..MaxBody
  /\ produced = 0
  /\ pump = "reading"
  /\ source = "open"
  /\ handler = "start"
  /\ result = "none"

-----------------------------------------------------------------------------
(* The pump *)

NextChunk ==
  /\ pump = "reading" /\ produced < total
  /\ produced' = produced + 1
  /\ pump' = "holding"
  /\ UNCHANGED <<watch, total, source, handlerVars, vars>>

PumpChunk ==
  /\ pump = "holding"
  /\ \E size \in Sizes : Send(Pump, "chunk", size)
  /\ pump' = "sending"
  /\ UNCHANGED <<watch, total, produced, source, handlerVars>>

\* The wait inside send_chunk or send_error is over.
PumpWakes ==
  /\ SendGranted(Pump) \/ SendRefused(Pump)
  /\ UNCHANGED <<pumpVars, handlerVars>>

\* "if !sender.send_chunk(chunk).await { return; }"
CheckAnswer ==
  /\ pump = "sending" /\ Idle(Pump)
  /\ pump' = IF source = "open" /\ answer[Pump] = "true" THEN "reading" ELSE "leaving"
  /\ UNCHANGED <<watch, total, produced, source, handlerVars, vars>>

\* "Reports a read failure. The pump must stop after this."
SourceFails ==
  /\ pump = "reading"
  /\ Send(Pump, "error", 0)
  /\ source' = "failed"
  /\ pump' = "sending"
  /\ UNCHANGED <<watch, total, produced, handlerVars>>

SourceEnds ==
  /\ pump = "reading" /\ produced = total
  /\ Finish(Pump)
  /\ source' = "ended"
  /\ pump' = "leaving"
  /\ UNCHANGED <<watch, total, produced, handlerVars>>

\* "a pump asleep waiting for data ... would never learn that the reader left"
SeesClosed ==
  /\ watch /\ pump = "reading"
  /\ Closed(Pump)
  /\ pump' = "leaving"
  /\ UNCHANGED <<watch, total, produced, source, handlerVars>>

\* The task of the pump is cancelled wherever it is; it never gets to finish().
PumpDies ==
  /\ pump \in {"reading", "holding", "sending"}
  /\ IF Idle(Pump) THEN UNCHANGED vars ELSE CancelSend(Pump)
  /\ source' = IF source = "failed" /\ Idle(Pump) THEN source ELSE "died"
  /\ pump' = "leaving"
  /\ UNCHANGED <<watch, total, produced, handlerVars>>

PumpLeaves ==
  /\ pump = "leaving"
  /\ DropSender(Pump)
  /\ pump' = "gone"
  /\ UNCHANGED <<watch, total, produced, source, handlerVars>>

-----------------------------------------------------------------------------
(* The handler *)

TakeReader ==
  /\ handler = "start"
  /\ GetBodyReader(Handler)
  /\ handler' = "reading"
  /\ UNCHANGED <<result, pumpVars>>

\* Chunk by chunk, or the rest of the body at once.
Ask ==
  /\ handler = "reading"
  /\ \/ StartRead(Handler, "next", NoLimit)
     \/ \E max \in Limits : StartRead(Handler, "all", max)
  /\ UNCHANGED <<handlerVars, pumpVars>>

\* An error, and a body over the limit, ends the handler ("?").
TakeItem ==
  /\ handler = "reading"
  /\ Receive(Handler)
  /\ IF call'[Handler] = "idle" /\ (call[Handler] = "all" \/ Head(queue).kind = "error")
       THEN handler' = "done" /\ result' = "failed"
       ELSE UNCHANGED handlerVars
  /\ UNCHANGED pumpVars

TakeEnd ==
  /\ handler = "reading"
  /\ ReceiveEnd(Handler)
  /\ handler' = "done"
  /\ result' = EndOfBody
  /\ UNCHANGED pumpVars

GiveUp ==
  /\ handler = "reading"
  /\ IF call[Handler] = "idle" THEN UNCHANGED vars ELSE CancelRead(Handler)
  /\ handler' = "done"
  /\ UNCHANGED <<result, pumpVars>>

HandlerLeaves ==
  /\ \/ handler = "done" /\ DropReader(Handler)
     \/ handler = "start" /\ DropStream
  /\ handler' = "gone"
  /\ UNCHANGED <<result, pumpVars>>

-----------------------------------------------------------------------------

PumpNext ==
  \/ NextChunk \/ PumpChunk \/ PumpWakes \/ CheckAnswer \/ SourceFails \/ SourceEnds
  \/ SeesClosed \/ PumpDies \/ PumpLeaves
  \/ TakeReader \/ Ask \/ TakeItem \/ TakeEnd \/ GiveUp \/ HandlerLeaves

\* A task that is woken is polled: whatever the pump or the handler can do without the outside
\* world it does.  Nothing makes the source give a chunk, an end or an error, a task die, or a
\* handler give up; a handler that is done drops what it holds.
PumpRuns ==
  /\ WF_allVars(PumpChunk) /\ WF_allVars(PumpWakes) /\ WF_allVars(CheckAnswer)
  /\ WF_allVars(SeesClosed) /\ WF_allVars(PumpLeaves)

HandlerRuns ==
  /\ WF_allVars(TakeReader) /\ WF_allVars(Ask) /\ WF_allVars(TakeItem) /\ WF_allVars(TakeEnd)
  /\ WF_allVars(handler = "done" /\ HandlerLeaves)

PumpSpec == PumpInit /\ [][PumpNext]_allVars /\ PumpRuns /\ HandlerRuns

\* The source does not fall silent.
LiveSource == WF_allVars(NextChunk \/ SourceEnds)

-----------------------------------------------------------------------------
(* Properties *)

\* "Ok(None) means the body has been read in full": the handler is told of a clean end only when
\* the source ended, and then it holds each of its chunks once and in order; a source that
\* failed, and a pump that died at any point, never looks like a shorter body.
WholeMeansWhole ==
  result = "eof" =>
    /\ source = "ended" /\ produced = total
    /\ [k \in 1..Len(got[Handler]) |-> got[Handler][k].n] = [k \in 1..total |-> k]

\* A pump that watches closed() learns that the reader is gone and stops, also when it waits in a
\* full channel, and also when the source is silent forever.
PumpStops == (watch /\ ~Open) ~> pump = "gone"

\* A handler that keeps reading is not left waiting once the pump is gone: it gets to an end.
HandlerServed == (pump = "gone") ~> (handler \in {"done", "gone"})

\* With a source that does not fall silent nobody waits on anybody for ever, with closed() or
\* without: the pump is done and the handler has got to its end.
BothDone == LiveSource => <>(pump = "gone" /\ handler = "gone")
=============================================================================
