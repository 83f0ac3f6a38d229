----------------------------- MODULE UrlBuilder -----------------------------
(***************************************************************************)
(* UrlBuilder (url_builder/url_builder.rs): one of two builders, chosen by *)
(* new, and every call handed on to it.  Here a builder of a TCP host is   *)
(* alone, or has a twin: a builder of a unix socket which begins with the  *)
(* same path and query and is given the same calls.                        *)
(*                                                                         *)
(* The twins are given the same calls whatever the two make of them, and   *)
(* two history variables, which no call reads, keep what they were told:   *)
(* the builders say of some calls the same and of others not.              *)
(***************************************************************************)
EXTENDS UrlText, SequencesExt

CONSTANTS
  Starts,     \* texts given to UrlBuilder::new for a builder without a twin
  Sockets,    \* sockets as they are written, with a scheme or without
  Rests,      \* what may follow the host of one twin, the socket and its colon of the other
  Segments,   \* arguments of append_path_segment
  Names,      \* names of query parameters
  Values,     \* their values
  Endings,    \* arguments of append_raw_ending
  NoQuery,    \* what get_query gives when there is none
  MaxLen      \* bound: no append to a url that has reached this length

ASSUME UrlBuilderAssumption ==
  /\ Starts \subseteq Text /\ Sockets \subseteq Text /\ Rests \subseteq Text
  /\ Segments \subseteq Text /\ Names \subseteq Text
  /\ Values \subseteq Text \cup {NoValue} /\ Endings \subseteq Text
  /\ NoValue \notin Text /\ NoQuery \notin Text
  /\ MaxLen \in Nat

VARIABLES
  builders,                                                 \* the builders there are
  value, host_index, port_index, path_index, query_index,   \* TcpBased
  scheme, host, path, query,                                \* UnixSocketBased
  bare,    \* history: the path of the unix socket builder was begun with a text without a "/"
  alike    \* history: there are twins, and they were told nothing but what both take alike

Tcp == INSTANCE UrlTarget
Unix == INSTANCE UrlBuilderUnixSocket

unixVars == <<scheme, host, path, query>>
told == <<bare, alike>>
vars == <<builders, value, host_index, port_index, path_index, query_index, unixVars, told>>

\* A socket is all that stands before the first colon behind the scheme.
ASSUME TwinsAssumption ==
  \A socket \in Sockets : IsUnixSocket(socket) /\ Places(Unix!SocketPart(socket), ":") = {}

HasTwin == "UnixSocketBased" \in builders

-----------------------------------------------------------------------------
(* new, and the calls that change a builder *)

TcpText(rest) == <<"a">> \o rest

\* A text that begins with neither a path nor a query.
IsBare(t) == t # <<>> /\ ~StartsWith(t, <<"/">>) /\ ~StartsWith(t, <<"?">>)

\* The ways to write a socket: with nothing behind it, its colon may be left out.
UnixTexts(socket, rest) ==
  {socket \o <<":">> \o rest} \cup (IF rest = <<>> THEN {socket} ELSE {})

Init ==
  \/ /\ builders = {"TcpBased"}
     /\ \E src \in Starts : Tcp!New(src)
     /\ scheme = <<>> /\ host = <<>> /\ path = <<>> /\ query = <<>>
     /\ bare = FALSE /\ alike = FALSE
  \/ /\ builders = {"TcpBased", "UnixSocketBased"}
     /\ \E rest \in Rests, socket \in Sockets : \E src \in UnixTexts(socket, rest) :
          /\ Tcp!New(TcpText(rest)) /\ Unix!New(src)
          /\ bare = IsBare(rest) /\ alike = ~IsBare(rest)

AppendPathSegment(segment) ==
  /\ Tcp!AppendPathSegment(segment)
  /\ IF HasTwin THEN Unix!AppendPathSegment(segment) ELSE UNCHANGED unixVars
  /\ alike' = (alike /\ ~EndsWithSlash(path))
  /\ UNCHANGED <<builders, bare>>

AppendQueryParam(param, v) ==
  /\ Tcp!AppendQueryParam(param, v)
  /\ IF HasTwin THEN Unix!AppendQueryParam(param, v) ELSE UNCHANGED unixVars
  /\ UNCHANGED <<builders, told>>

AppendRawEnding(raw_ending) ==
  /\ Tcp!AppendRawEnding(raw_ending)
  /\ IF HasTwin THEN Unix!AppendRawEnding(raw_ending) ELSE UNCHANGED unixVars
  /\ bare' = (bare \/ (HasTwin /\ path = <<>> /\ IsBare(raw_ending)))
  /\ alike' = (alike /\ query = <<>> /\ StartsWith(raw_ending, <<"/">>) /\ ~EndsWithSlash(path))
  /\ UNCHANGED builders

Next ==
  \/ \E segment \in Segments : AppendPathSegment(segment)
  \/ \E param \in Names, v \in Values : AppendQueryParam(param, v)
  \/ \E raw_ending \in Endings : AppendRawEnding(raw_ending)

Spec == Init /\ [][Next]_vars

-----------------------------------------------------------------------------
(* The getters *)

GetHost(b) == IF b = "TcpBased" THEN Tcp!GetHost ELSE Unix!GetHost
GetHostPort(b) == IF b = "TcpBased" THEN Tcp!GetHostPort ELSE Unix!GetHost
GetSchemeAndHost(b) == IF b = "TcpBased" THEN Tcp!GetSchemeAndHost ELSE Unix!GetHost
GetPathAndQuery(b) == IF b = "TcpBased" THEN Tcp!GetPathAndQuery ELSE Unix!GetPathAndQuery
GetPath(b) == IF b = "TcpBased" THEN Tcp!GetPath ELSE Unix!GetPath
GetQuery(b) == IF b = "TcpBased" THEN Tcp!GetQuery ELSE Unix!GetQuery
Written(b) == IF b = "TcpBased" THEN value ELSE Unix!Written

\* get_scheme is that of a unix socket.
GetSchemeIsUnix(b) == IF b = "TcpBased" THEN Tcp!IsUnixSocketScheme ELSE TRUE

IsUnixSocketBased(b) == b = "UnixSocketBased"

-----------------------------------------------------------------------------
(* Properties *)

\* Whatever was appended, in whatever order, what to_string() writes goes to the same builder again
\* and parses to the same indices or parts: for the TCP builder those kept from call to call are
\* those a fresh builder finds, for the unix socket the path may hold colons though the colon before
\* it is sometimes left out.  And a builder's scheme says which one it is, whatever a host or a path
\* is called.
ReadsBackTheSame ==
  /\ Tcp!ReadsBackTheSame
  /\ HasTwin => Unix!ReadsBackTheSame
  /\ \A b \in builders :
       /\ IsUnixSocket(Written(b)) <=> IsUnixSocketBased(b)
       /\ GetSchemeIsUnix(b) <=> IsUnixSocketBased(b)

\* The crate's reader finds in the request target of either builder the path and the query the
\* builder's getters give, and takes that path for its own, whatever was appended.  The target is in
\* origin form, but for a unix socket whose path was begun with a text that has no "/", by new or by
\* a raw ending: it is sent as it is, and nothing appended later mends it.
TargetReadsBack ==
  \A b \in builders :
    /\ Tcp!IsReadBack(GetPathAndQuery(b), GetPath(b), GetQuery(b))
    /\ StartsWith(GetPathAndQuery(b), <<"/">>) <=> ~(IsUnixSocketBased(b) /\ bare)

\* A key says what the target of the url says, and is the same for every order of its query.
KeyIsCanonical == Tcp!KeyIsCanonical

\* The getters of the TCP builder implement UrlParts: each append grows the one part it is about.
PartsSpec == Tcp!PartsSpec

\* No append moves what a connection is made to, of either builder.
ConnectionStays ==
  [][\A b \in builders :
       /\ GetHost(b)' = GetHost(b) /\ GetHostPort(b)' = GetHostPort(b)
       /\ GetSchemeAndHost(b)' = GetSchemeAndHost(b)]_vars

\* Parity of the builders: the same calls give the same path and the same query, in whatever order
\* the two were appended.  Three calls the two treat differently, and alike is FALSE from then on: a
\* raw ending onto a query (the TCP builder puts all of it into the query: "not decided",
\* url_forms_tests.rs:616-619), one that does not begin with a "/" (the TCP builder puts one before
\* it), and a segment or an ending behind a path that ends with a slash (the unix socket builder adds
\* another, where url_builder_unix_socket.rs:62 claims parity for a segment).
SameTarget ==
  alike =>
    /\ GetPath("TcpBased") = GetPath("UnixSocketBased")
    /\ GetQuery("TcpBased") = GetQuery("UnixSocketBased")
=============================================================================
