----------------------- MODULE UrlBuilderUnixSocket -----------------------
(***************************************************************************)
(* The url builder of a unix socket (url_builder_unix_socket.rs): the      *)
(* scheme as written, the path of the socket, which stands for the host,   *)
(* and the path and the query of the request.  In the written form a colon *)
(* stands between the socket and the rest.                                 *)
(***************************************************************************)
EXTENDS UrlText

CONSTANTS
  Starts,     \* texts given to UrlBuilder::new; those that name a TCP host go elsewhere
  Segments,   \* arguments of append_path_segment
  Names,      \* names of query parameters
  Values,     \* their values
  Endings,    \* arguments of append_raw_ending
  NoQuery,    \* what get_query gives when there is none
  MaxLen      \* bound: no append to a url that has reached this length

VARIABLES scheme, host, path, query

vars == <<scheme, host, path, query>>

-----------------------------------------------------------------------------
(* new *)

\* The slashes right behind the first colon of t.
Slashes(t) ==
  LET colon == Min(Places(t, ":")) IN
  Max({n \in 0..(Len(t) - colon - 1) : \A k \in 1..n : t[colon + 1 + k] = "/"})

\* socket_path_index: the path keeps one of the slashes behind the scheme, one in the home
\* directory none.
SocketPathIndex(t) ==
  LET after == Min(Places(t, ":")) + 1 + Slashes(t)
  IN IF StartsWith(Behind(t, after), <<"~">>) THEN after ELSE after - 1

\* Scheme and the rest of a text.
SchemePart(src) == IF HasUnixScheme(src) THEN Upto(src, SocketPathIndex(src)) ELSE <<>>
SocketPart(src) == IF HasUnixScheme(src) THEN Behind(src, SocketPathIndex(src)) ELSE src

\* The socket ends at the first colon; what follows it is path and query.  The query keeps
\* its "?".
Parsed(src) ==
  LET socket == SocketPart(src)
      colons == Places(socket, ":")
      rest == IF colons = {} THEN <<>> ELSE Behind(socket, Min(colons) + 1)
      marks == Places(rest, "?")
  IN [scheme |-> SchemePart(src),
      host   |-> IF colons = {} THEN socket ELSE Upto(socket, Min(colons)),
      path   |-> IF marks = {} THEN rest ELSE Upto(rest, Min(marks)),
      query  |-> IF marks = {} THEN <<>> ELSE Behind(rest, Min(marks))]

New(src) ==
  /\ IsUnixSocket(src)
  /\ scheme = Parsed(src).scheme /\ host = Parsed(src).host
  /\ path = Parsed(src).path /\ query = Parsed(src).query

Init == \E src \in Starts : New(src)

-----------------------------------------------------------------------------
(* The text, and the getters *)

\* Mutant of Written: the colon is left out when there is no path.
WrittenWithoutColon ==
  scheme \o host \o (IF path = <<>> THEN <<>> ELSE <<":">>) \o path \o query

\* Display: a socket alone is written without the colon.
Written ==
  scheme \o host \o (IF path = <<>> /\ query = <<>> THEN <<>> ELSE <<":">>) \o path \o query

GetHost == host
GetPath == IF path = <<>> THEN <<"/">> ELSE path
GetPathAndQuery == GetPath \o query
GetQuery == IF query = <<>> THEN NoQuery ELSE Tail(query)

-----------------------------------------------------------------------------
(* The appends *)

AppendPathSegment(segment) ==
  /\ Len(Written) < MaxLen
  /\ path' = Append(path, "/") \o EncodePathSegment(StripSlash(segment))
  /\ UNCHANGED <<scheme, host, query>>

AppendQueryParam(name, v) ==
  /\ Len(Written) < MaxLen
  /\ query' = Append(query, IF query = <<>> THEN "?" ELSE "&") \o Pair(name, v)
  /\ UNCHANGED <<scheme, host, path>>

\* Mutant of AppendRawEnding: the query inside the ending stays in the path.
AppendEndingAsPath(raw_ending) ==
  /\ Len(Written) < MaxLen
  /\ path' = path \o raw_ending
  /\ UNCHANGED <<scheme, host, query>>

\* The ending is split at its "?": its path goes behind the path, its query behind the query.
AppendRawEnding(raw_ending) ==
  LET marks == Places(raw_ending, "?") IN
  /\ Len(Written) < MaxLen
  /\ \/ marks = {} /\ path' = path \o raw_ending /\ query' = query
     \/ /\ marks # {}
        /\ path' = path \o Upto(raw_ending, Min(marks))
        /\ query' = IF query = <<>> THEN Behind(raw_ending, Min(marks))
                    ELSE Append(query, "&") \o Behind(raw_ending, Min(marks) + 1)
  /\ UNCHANGED <<scheme, host>>

Next ==
  \/ \E segment \in Segments : AppendPathSegment(segment)
  \/ \E param \in Names, v \in Values : AppendQueryParam(param, v)
  \/ \E raw_ending \in Endings : AppendRawEnding(raw_ending)

Spec == Init /\ [][Next]_vars

-----------------------------------------------------------------------------
(* Properties *)

\* What is written reads back as the same builder: the same socket, path and query, whatever was
\* appended, though the path may hold colons and the colon before it is sometimes left out.
ReadsBackTheSame ==
  /\ IsUnixSocket(Written)
  /\ Parsed(Written) = [scheme |-> scheme, host |-> host, path |-> path, query |-> query]
=============================================================================
