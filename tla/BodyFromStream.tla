--------------------------- MODULE BodyFromStream ---------------------------
(***************************************************************************)
(* parse_with_body_stream: the parse of a model whose body comes as a      *)
(* stream.  Path, headers and query are read first; then the stream is     *)
(* asked for as much of the body as the model takes - a JSON body member   *)
(* by member, until every member the model names is there, any other body  *)
(* to its end - and the fields are read out of what was kept, by the very  *)
(* reader a body in memory is read by (BodyReading).                       *)
(*                                                                         *)
(* The stream cuts the body wherever it likes and may break off.           *)
(***************************************************************************)
EXTENDS BodyReading, FiniteSets

CONSTANTS
  Cases        \* the parses there may be

\* What a model takes of its body, and its fields; whether the path, header and query values of the
\* request are fine, cannot be read, or are read and refused by a validator; its Content-Type; and
\* the body it comes with.
ASSUME BodyFromStreamAssumption ==
  \A c \in Cases :
    /\ c.takes \in {"fields", "raw", "stream", "nothing"}
    /\ c.fields \in Seq(Field) /\ (c.takes = "fields") = (c.fields # <<>>)
    /\ c.sources \in {"fine", "unreadable", "refused"}
    /\ IsCut(c.body)

VARIABLES
  parse,      \* the case at hand
  failsAt,    \* the stream fails behind so many pieces; never, if that is more than there are
  phase,      \* where the parse stands
  arrived,    \* how many pieces the stream has handed over
  at,         \* how many of them the JSON reader has been through
  wanted,     \* keys of the members still to be read
  kept,       \* what is kept of the body
  asked,      \* how often the stream was asked
  outcome     \* how the parse ended

vars == <<parse, failsAt, phase, arrived, at, wanted, kept, asked, outcome>>

Body == parse.body
Header == parse.header

\* The key of the member a name is looked up in.
TopLevelKey(name) == Head(name)

Named == {TopLevelKey(parse.fields[k].name) : k \in DOMAIN parse.fields}

Init ==
  /\ parse \in Cases
  /\ failsAt \in 0..(Len(parse.body) + 1)
  /\ phase = "sources"
  /\ arrived = 0 /\ at = 0 /\ asked = 0
  /\ wanted = {} /\ kept = <<>>
  /\ outcome = Fine

End(o) == phase' = "done" /\ outcome' = o

\* The sources before the body cannot be read.
RefuseRequest ==
  /\ phase = "sources" /\ parse.sources = "unreadable"
  /\ End(Required(<<"header">>))
  /\ UNCHANGED <<parse, failsAt, arrived, at, wanted, kept, asked>>

\* The model takes nothing of the body, or the stream itself: the stream is not read.  A raw body
\* is read behind the validators, so it is left unread if they refuse.
LeaveUnread ==
  /\ phase = "sources" /\ parse.sources # "unreadable"
  /\ \/ parse.takes \in {"stream", "nothing"}
     \/ (parse.takes = "raw" /\ parse.sources = "refused")
  /\ End(IF parse.sources = "refused" THEN Validation ELSE Model(<<>>))
  /\ UNCHANGED <<parse, failsAt, arrived, at, wanted, kept, asked>>

\* BodyFromStream::read looks at the Content-Type before it reads; a raw body needs none.
BeginBody ==
  /\ phase = "sources" /\ parse.sources # "unreadable"
  /\ parse.takes = "fields" \/ (parse.takes = "raw" /\ parse.sources = "fine")
  /\ LET format == IF parse.takes = "raw" \/ Header = NoHeader
                   THEN "Unknown" ELSE FromContentType(Header)
     IN  CASE format = "refused" -> End(InvalidBody) /\ UNCHANGED <<wanted, kept>>
           [] format = "Json" ->
                /\ phase' = "members" /\ wanted' = Named /\ kept' = <<Open>>
                /\ UNCHANGED outcome
           [] OTHER -> phase' = "whole" /\ UNCHANGED <<wanted, kept, outcome>>
  /\ UNCHANGED <<parse, failsAt, arrived, at, asked>>

-----------------------------------------------------------------------------
(* The stream *)

\* The stream is asked when what has arrived is used up.
Waits == phase = "whole" \/ (phase = "members" /\ at = arrived)

Breaks == failsAt <= Len(Body) /\ arrived = failsAt
LastPiece == IF failsAt <= Len(Body) THEN failsAt ELSE Len(Body)

\* It hands over another chunk: so many pieces as it likes.
Chunk ==
  /\ Waits
  /\ \E upto \in (arrived + 1)..LastPiece :
       /\ arrived' = upto
       /\ kept' = IF phase = "whole" THEN kept \o SubSeq(Body, arrived + 1, upto) ELSE kept
  /\ asked' = asked + 1
  /\ UNCHANGED <<parse, failsAt, phase, at, wanted, outcome>>

\* Mutant of StreamFails: a stream that breaks off is one that has ended.
StreamFailsAsEnd ==
  /\ Waits /\ Breaks
  /\ asked' = asked + 1
  /\ phase' = "fields"
  /\ UNCHANGED <<parse, failsAt, arrived, at, wanted, kept, outcome>>

\* It fails; its error becomes the parse's.
StreamFails ==
  /\ Waits /\ Breaks
  /\ asked' = asked + 1
  /\ End(BodyStreamError)
  /\ UNCHANGED <<parse, failsAt, arrived, at, wanted, kept>>

\* It ends.  An object that is not over by then is a broken one.
StreamEnds ==
  /\ Waits /\ ~Breaks /\ arrived = Len(Body)
  /\ asked' = asked + 1
  /\ IF phase = "whole" THEN phase' = "fields" /\ UNCHANGED outcome ELSE End(InvalidBody)
  /\ UNCHANGED <<parse, failsAt, arrived, at, wanted, kept>>

-----------------------------------------------------------------------------
(* read_json_members *)

Piece == Body[at + 1]
Reads == phase = "members" /\ at < arrived

\* White space and the opening bracket.
PassMark ==
  /\ Reads /\ Piece.is \in {"blank", "open"}
  /\ at' = at + 1
  /\ UNCHANGED <<parse, failsAt, phase, arrived, wanted, kept, asked, outcome>>

\* Mutants of TakeMember: a later member of the same key is put in front of the first one; the
\* object is read to its end all the same; what the model does not name is kept too.
TakeMemberLastFirst ==
  /\ Reads /\ Piece.is = "member"
  /\ at' = at + 1
  /\ LET key == Piece.name[1]
         left == wanted \ {key}
         now == IF key \in Named THEN <<Open, Piece>> \o Tail(kept) ELSE kept
     IN  /\ wanted' = left
         /\ phase' = IF left = {} THEN "fields" ELSE "members"
         /\ kept' = IF left = {} THEN Append(now, Close) ELSE now
  /\ UNCHANGED <<parse, failsAt, arrived, asked, outcome>>

TakeMemberToTheEnd ==
  /\ Reads /\ Piece.is = "member"
  /\ at' = at + 1
  /\ LET key == Piece.name[1]
     IN  /\ wanted' = wanted \ {key}
         /\ kept' = IF key \in wanted THEN Append(kept, Piece) ELSE kept
  /\ UNCHANGED <<parse, failsAt, phase, arrived, asked, outcome>>

TakeEveryMember ==
  /\ Reads /\ Piece.is = "member"
  /\ at' = at + 1
  /\ LET left == wanted \ {Piece.name[1]}
     IN  /\ wanted' = left
         /\ phase' = IF left = {} THEN "fields" ELSE "members"
         /\ kept' = IF left = {} THEN kept \o <<Piece, Close>> ELSE Append(kept, Piece)
  /\ UNCHANGED <<parse, failsAt, arrived, asked, outcome>>

\* A member: the first one of a key the model names is kept as it is.  With the last of them the
\* object put together is closed, and nothing more is read.
TakeMember ==
  /\ Reads /\ Piece.is = "member"
  /\ at' = at + 1
  /\ LET key == Piece.name[1]
         left == wanted \ {key}
         now == IF key \in wanted THEN Append(kept, Piece) ELSE kept
     IN  /\ wanted' = left
         /\ phase' = IF left = {} THEN "fields" ELSE "members"
         /\ kept' = IF left = {} THEN Append(now, Close) ELSE now
  /\ UNCHANGED <<parse, failsAt, arrived, asked, outcome>>

\* The closing bracket: the names still wanted are not in the body.
TakeClose ==
  /\ Reads /\ Piece.is = "close"
  /\ at' = at + 1
  /\ phase' = "fields" /\ kept' = Append(kept, Close)
  /\ UNCHANGED <<parse, failsAt, arrived, wanted, asked, outcome>>

\* Anything else cannot be read.
TakeBroken ==
  /\ Reads /\ Piece.is \in {"broken", "array", "pair", "part"}
  /\ End(InvalidBody)
  /\ UNCHANGED <<parse, failsAt, arrived, at, wanted, kept, asked>>

-----------------------------------------------------------------------------
\* Everything is there: the fields are read, and the model is made.
ReadFields ==
  /\ phase = "fields"
  /\ End(IF parse.takes = "raw" THEN Model(kept)
         ELSE ReadModel(kept, Header, parse.fields, parse.sources = "refused"))
  /\ UNCHANGED <<parse, failsAt, arrived, at, wanted, kept, asked>>

Next ==
  \/ RefuseRequest \/ LeaveUnread \/ BeginBody
  \/ Chunk \/ StreamFails \/ StreamEnds
  \/ PassMark \/ TakeMember \/ TakeClose \/ TakeBroken
  \/ ReadFields

Spec == Init /\ [][Next]_vars

-----------------------------------------------------------------------------
(* Properties *)

IsJson == parse.takes = "fields" /\ Header # NoHeader /\ FromContentType(Header) = "Json"

WellFormed(body) ==
  \E k \in DOMAIN body :
    /\ body[k].is = "close"
    /\ \A j \in 1..(k - 1) : body[j].is \in {"blank", "open", "member"}

\* What parse makes of the same body, in memory.
OfTheWhole ==
  IF parse.takes = "raw" THEN Model(Body)
  ELSE ReadModel(Body, Header, parse.fields, parse.sources = "refused")

\* A body that comes as a stream reads into the same model, or fails with the same error, as the
\* body in memory, wherever it is cut and however much of it was read; the stream's own error and
\* a malformed JSON body are the only other outcomes (read_json_members, BodyFromStream).
SameAsWhole ==
  phase = "done" /\ kept # <<>> =>
    \/ outcome = OfTheWhole
    \/ outcome = BodyStreamError /\ failsAt <= Len(Body)
    \/ outcome = InvalidBody /\ IsJson /\ ~WellFormed(Body)

\* All a JSON body has for the model has arrived: each member the model names, or the end.
Enough ==
  /\ IsJson
  /\ LET here == {Body[k] : k \in 1..arrived}
     IN  \/ \A key \in Named : \E p \in here : p.is = "member" /\ p.name = <<key>>
         \/ \E p \in here : p.is = "close"

\* A stream that breaks off before the parse has what it needs fails the parse: no truncated body
\* becomes a model, though the fields that are missing be optional (the `?` behind each get_next).
BrokenOffIsTold ==
  phase = "done" /\ asked > 0 /\ failsAt <= Len(Body) /\ ~Enough =>
    outcome \in {BodyStreamError, InvalidBody}

\* Of a JSON body one member for each key the model names is kept, and none of the others: what is
\* kept does not grow with the body (read_json_members).
OnlyNamedKept ==
  IsJson =>
    \A j, k \in DOMAIN kept :
      kept[j].is = "member" =>
        /\ kept[j].name[1] \in Named
        /\ kept[k].name = kept[j].name => j = k

\* The stream is not asked for more of a JSON body than the model needs: a client that never sends
\* the rest does not hold the parse up (the loop of read_json_members).
NotReadFurther == [][asked' # asked => ~Enough]_vars

\* "path, headers and query are read through THttpRequest exactly as in parse, and before the body,
\* so a request that fails on them does not wait for its body" (README, Parsing a body that comes
\* as a stream).
FailsWithoutBody ==
  phase = "done" /\ parse.sources # "fine" => asked = 0
=============================================================================
