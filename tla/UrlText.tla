------------------------------ MODULE UrlText ------------------------------
(***************************************************************************)
(* The text of a url, as far as the url builders look at it.               *)
(*                                                                         *)
(* A text is a sequence of characters.  The delimiters the code looks for  *)
(* are themselves; everything else is a run: "a" of letters, "u" of the    *)
(* letters that spell a unix socket scheme, "1" of digits, "%" an escape   *)
(* sequence.  An index is the number of characters before a place, as in   *)
(* the code; 0 stands for "none" where the code says so.                   *)
(***************************************************************************)
EXTENDS Naturals, Sequences, FiniteSetsExt

CONSTANT NoValue   \* the value of a query parameter that has none

Letters == {"a", "u"}
SchemeChar == Letters \cup {"1"}
Char == SchemeChar \cup {":", "/", "?", "[", "]", "~", "&", "=", "%"}
Text == Seq(Char)

\* value[..n] and value[n..]
Upto(t, n) == SubSeq(t, 1, n)
Behind(t, n) == SubSeq(t, n + 1, Len(t))
Between(t, m, n) == SubSeq(t, m + 1, n)

StartsWith(t, prefix) == Len(prefix) <= Len(t) /\ Upto(t, Len(prefix)) = prefix
EndsWithSlash(t) == t # <<>> /\ t[Len(t)] = "/"

\* The places of character c in t.
Places(t, c) == {n \in 0..(Len(t) - 1) : t[n + 1] = c}

StripSlash(t) == IF StartsWith(t, <<"/">>) THEN Tail(t) ELSE t

\* What a path segment and what a query name or value may hold as it is.
PathSafe == Char \ {"?", "[", "]", "%"}
QuerySafe == SchemeChar \cup {"~"}

\* Percent-encoding: anything else becomes an escape.
EncodePathSegment(t) == [k \in 1..Len(t) |-> IF t[k] \in PathSafe THEN t[k] ELSE "%"]
EncodeUrlString(t) == [k \in 1..Len(t) |-> IF t[k] \in QuerySafe THEN t[k] ELSE "%"]

\* A query parameter as it is written: its name, and "=" and its value if it has one.
Pair(name, v) ==
  EncodeUrlString(name) \o (IF v = NoValue THEN <<>> ELSE <<"=">> \o EncodeUrlString(v))

-----------------------------------------------------------------------------
(* Schemes *)

\* rust_extensions' Scheme::try_parse says of these that they are unix sockets.
IsUnixScheme(t) == t = <<"u">>

\* socket_path_index finds a unix socket scheme: the name, a colon and a slash at least.
HasUnixScheme(t) ==
  \E n \in Places(t, ":") :
    /\ \A m \in Places(t, ":") : n <= m
    /\ IsUnixScheme(Upto(t, n))
    /\ StartsWith(Behind(t, n + 1), <<"/">>)

\* UrlBuilder::new: which of the two builders a text goes to.
IsUnixSocket(t) == StartsWith(t, <<"/">>) \/ StartsWith(t, <<"~">>) \/ HasUnixScheme(t)
=============================================================================
