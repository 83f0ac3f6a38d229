-------------------------- MODULE UrlBuilderInner --------------------------
(***************************************************************************)
(* The url builder of a TCP host (url_builder/url_builder_inner.rs): one   *)
(* string that grows, and four indices into it that every call has to keep *)
(* right, for the getters cut the string at them.                          *)
(***************************************************************************)
EXTENDS UrlText

CONSTANTS
  Starts,     \* texts given to UrlBuilder::new; those that name a unix socket go elsewhere
  Segments,   \* arguments of append_path_segment
  Names,      \* names of query parameters
  Values,     \* their values
  Endings,    \* arguments of append_raw_ending
  NoQuery,    \* what get_query gives when there is none
  MaxLen      \* bound: no append to a url that has reached this length

VARIABLES
  value,
  host_index, port_index, path_index, query_index

indices == <<host_index, port_index, path_index, query_index>>
vars == <<value, indices>>

-----------------------------------------------------------------------------
(* new: where the parts of a text begin *)

\* host_index_after_scheme, without its ":/~": a text with that goes to the other builder.
SchemeLen(src) == Min({n \in 0..(Len(src) - 1) : src[n + 1] \notin SchemeChar})

HasScheme(src) ==
  /\ src # <<>> /\ src[1] \in Letters
  /\ \E k \in 1..Len(src) : src[k] \notin SchemeChar
  /\ StartsWith(Behind(src, SchemeLen(src)), <<":", "/", "/">>)

Http == <<"a", ":", "/", "/">>

WithScheme(src) == IF HasScheme(src) THEN src ELSE Http \o src

HostIndex(src) == IF HasScheme(src) THEN SchemeLen(src) + 3 ELSE Len(Http)

OrNone(f(_), S) == IF S = {} THEN 0 ELSE f(S)

\* The scan: the query begins at the first "?", the path at the first "/" before it, the port
\* at the last ":" before that which is not inside the brackets of an IPv6 address.
Scan(v, host) ==
  LET query == OrNone(Min, {n \in Places(v, "?") : n >= host})
      end == IF query = 0 THEN Len(v) ELSE query
      path == OrNone(Min, {n \in Places(v, "/") : n >= host /\ n < end})
      inBrackets(n) == /\ host < Len(v) /\ v[host + 1] = "["
                       /\ \A m \in Places(v, "]") : m >= host => n < m
      port == OrNone(Max, {n \in Places(v, ":") :
                             /\ n >= host /\ n < end /\ (path # 0 => n < path)
                             /\ ~inBrackets(n)})
  IN [host |-> host, port |-> port, path |-> path, query |-> query]

Parsed(src) == Scan(WithScheme(src), HostIndex(src))

Indices == [host |-> host_index, port |-> port_index, path |-> path_index, query |-> query_index]

New(src) ==
  /\ ~IsUnixSocket(src)
  /\ value = WithScheme(src)
  /\ host_index = Parsed(src).host /\ port_index = Parsed(src).port
  /\ path_index = Parsed(src).path /\ query_index = Parsed(src).query

Init == \E src \in Starts : New(src)

-----------------------------------------------------------------------------
(* The appends *)

\* Mutant of Separated: asks for the last character though there is no path yet.
SeparatedByLastChar(v) ==
  [value |-> IF EndsWithSlash(v) THEN v ELSE Append(v, "/"),
   path  |-> IF path_index = 0 THEN Len(v) ELSE path_index]

\* push_path_separator on v, which ends where the path ends: the text and the index of its path.
Separated(v) ==
  [value |-> IF path_index # 0 /\ EndsWithSlash(v) THEN v ELSE Append(v, "/"),
   path  |-> IF path_index = 0 THEN Len(v) ELSE path_index]

\* Mutant of AppendPathSegment: it goes to the end, wherever the query is.
AppendSegmentAtEnd(segment) ==
  LET s == Separated(value) IN
  /\ Len(value) < MaxLen
  /\ value' = s.value \o EncodePathSegment(StripSlash(segment))
  /\ path_index' = s.path
  /\ UNCHANGED <<host_index, port_index, query_index>>

\* A query that is there already is split off and put back behind the segment.
AppendPathSegment(segment) ==
  LET s == Separated(IF query_index # 0 THEN Upto(value, query_index) ELSE value)
      path == s.value \o EncodePathSegment(StripSlash(segment))
  IN
  /\ Len(value) < MaxLen
  /\ path_index' = s.path
  /\ IF query_index # 0
       THEN value' = path \o Behind(value, query_index) /\ query_index' = Len(path)
       ELSE value' = path /\ query_index' = query_index
  /\ UNCHANGED <<host_index, port_index>>

AppendQueryParam(param, v) ==
  /\ Len(value) < MaxLen
  /\ IF query_index = 0
       THEN value' = Append(value, "?") \o Pair(param, v) /\ query_index' = Len(value)
       ELSE value' = Append(value, "&") \o Pair(param, v) /\ query_index' = query_index
  /\ UNCHANGED <<host_index, port_index, path_index>>

\* Mutant of AppendRawEnding: it records a path though it lands in the query.
AppendEndingRecordsPath(raw_ending) ==
  LET s == Separated(value) IN
  /\ Len(value) < MaxLen
  /\ value' = s.value \o StripSlash(raw_ending)
  /\ path_index' = s.path
  /\ UNCHANGED <<host_index, port_index, query_index>>

\* Raw text: after a query it goes into the query, otherwise into the path, and what follows a
\* "?" in it is the query.
AppendRawEnding(raw_ending) ==
  LET ending == StripSlash(raw_ending)
      s == Separated(value)
  IN
  /\ Len(value) < MaxLen
  /\ \/ /\ query_index # 0
        /\ value' = (IF EndsWithSlash(value) THEN value ELSE Append(value, "/")) \o ending
        /\ UNCHANGED <<path_index, query_index>>
     \/ /\ query_index = 0
        /\ value' = s.value \o ending
        /\ path_index' = s.path
        /\ query_index' = IF Places(ending, "?") = {} THEN 0
                          ELSE Len(s.value) + Min(Places(ending, "?"))
  /\ UNCHANGED <<host_index, port_index>>

Next ==
  \/ \E segment \in Segments : AppendPathSegment(segment)
  \/ \E param \in Names, v \in Values : AppendQueryParam(param, v)
  \/ \E raw_ending \in Endings : AppendRawEnding(raw_ending)

Spec == Init /\ [][Next]_vars

-----------------------------------------------------------------------------
(* The getters *)

\* The text from index on, up to the nearest part that is there.
EndOfHost == IF path_index > 0 THEN path_index ELSE IF query_index > 0 THEN query_index ELSE Len(value)

GetHost == Between(value, host_index, IF port_index > 0 THEN port_index ELSE EndOfHost)
GetHostPort == Between(value, host_index, EndOfHost)
GetSchemeAndHost == Upto(value, EndOfHost)

\* get_scheme: what stands before the first ":/", if the string has one.
SchemeEnds == {n \in Places(value, ":") : n + 1 \in Places(value, "/")}
IsUnixSocketScheme == SchemeEnds # {} /\ IsUnixScheme(Upto(value, Min(SchemeEnds)))

GetPath ==
  IF path_index = 0 THEN <<"/">>
  ELSE IF query_index = 0 THEN Behind(value, path_index)
  ELSE Between(value, path_index, query_index)

GetQuery == IF query_index = 0 THEN NoQuery ELSE Behind(value, query_index + 1)

\* Mutant of GetPathAndQuery: a query with no path is given as it is.
PathAndQueryAsWritten ==
  IF path_index = 0 /\ query_index = 0 THEN <<"/">>
  ELSE IF path_index > 0 THEN Behind(value, path_index)
  ELSE Behind(value, query_index)

GetPathAndQuery ==
  IF path_index = 0 /\ query_index = 0 THEN <<"/">>
  ELSE IF path_index > 0 THEN Behind(value, path_index)
  ELSE <<"/">> \o Behind(value, query_index)

-----------------------------------------------------------------------------
(* Properties *)

\* The indices kept from call to call are those a fresh builder finds in the string: whatever
\* was appended, in whatever order, UrlBuilder::new of to_string() is the same builder again, and no
\* getter takes the branch of a unix socket, whatever a host or a path is called.
ReadsBackTheSame ==
  /\ ~IsUnixSocket(value) /\ ~IsUnixSocketScheme
  /\ WithScheme(value) = value
  /\ Parsed(value) = Indices

\* What the builder promises, seen through its getters.
Parts == INSTANCE UrlParts WITH
  base <- GetSchemeAndHost,
  path <- IF path_index = 0 THEN <<>> ELSE GetPath,
  query <- GetQuery

PartsSpec == Parts!Spec
=============================================================================
