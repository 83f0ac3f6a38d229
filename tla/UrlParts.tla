------------------------------ MODULE UrlParts ------------------------------
(***************************************************************************)
(* What a url builder promises: a url is a base (scheme, host and port), a *)
(* path and a query, and an append grows the one part it is about.         *)
(***************************************************************************)
EXTENDS UrlText

CONSTANTS Segments, Names, Values, Endings, NoQuery

VARIABLES base, path, query

vars == <<base, path, query>>

Init ==
  /\ base \in Text /\ base # <<>>
  /\ path \in Text /\ (path # <<>> => path[1] = "/" /\ Places(path, "?") = {})
  /\ query = NoQuery \/ query \in Text

WithSlash(t) == IF EndsWithSlash(t) THEN t ELSE Append(t, "/")

\* A "/" stands between the path and what is appended to it, and only one if there was one.
Segment(segment) ==
  /\ path' = WithSlash(path) \o EncodePathSegment(StripSlash(segment))
  /\ UNCHANGED <<base, query>>

Param(name, v) ==
  /\ query' = IF query = NoQuery THEN Pair(name, v) ELSE Append(query, "&") \o Pair(name, v)
  /\ UNCHANGED <<base, path>>

\* Raw text goes into the last part there is; the first "?" of a url begins its query.
Ending(raw_ending) ==
  LET ending == StripSlash(raw_ending) IN
  /\ \/ /\ query # NoQuery
        /\ query' = WithSlash(query) \o ending
        /\ path' = path
     \/ /\ query = NoQuery /\ Places(ending, "?") = {}
        /\ path' = WithSlash(path) \o ending
        /\ query' = query
     \/ /\ query = NoQuery /\ Places(ending, "?") # {}
        /\ path' = WithSlash(path) \o Upto(ending, Min(Places(ending, "?")))
        /\ query' = Behind(ending, Min(Places(ending, "?")) + 1)
  /\ UNCHANGED base

Next ==
  \/ \E segment \in Segments : Segment(segment)
  \/ \E name \in Names, v \in Values : Param(name, v)
  \/ \E raw_ending \in Endings : Ending(raw_ending)

Spec == Init /\ [][Next]_vars
=============================================================================
