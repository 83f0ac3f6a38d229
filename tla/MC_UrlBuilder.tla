--------------------------- MODULE MC_UrlBuilder ---------------------------
(* Small instances of UrlBuilder for TLC. *)
EXTENDS UrlBuilder

\* Every text of up to four characters, out of those new() looks for ...
ShortTexts == BoundedSeq({"a", "u", ":", "/", "?"}, 4)
\* ... and addresses: with a scheme, a port, an IPv6 host, a base path, a query.
Addresses ==
  LET hosts == {<<>>, <<"a">>, <<"1">>, <<"[", ":", ":", "1", "]">>, <<"[", ":", "1">>}
      ports == {<<>>, <<":", "1">>, <<":">>}
      paths == {<<>>, <<"/">>, <<"/", "a">>, <<"/", "a", "/">>, <<"/", "a", ":", "1">>}
      queries == {<<>>, <<"?">>, <<"?", "a", "=", "/">>, <<"?", "a", ":", "/", "/", "1">>}
  IN {s \o h \o p \o q \o r : s \in {<<>>, <<"a", ":", "/", "/">>}, h \in hosts, p \in ports,
                              q \in paths, r \in queries}
SomeStarts == ShortTexts \cup Addresses

\* With and without a scheme, with one slash and with more, in the home directory, and a path
\* that looks like a scheme.
SomeSockets ==
  {<<"/", "a">>, <<"~", "/", "a">>, <<"/", "u">>,
   <<"u", ":", "/", "a">>, <<"u", ":", "/", "/", "/", "a">>, <<"u", ":", "/", "~", "/", "a">>}

SomeRests ==
  {<<>>, <<"/">>, <<"/", "a">>, <<"/", "a", "/">>, <<"?", "a">>, <<"?">>,
   <<"/", "a", "?", "a", "=", "/">>, <<"/", "a", ":", "1">>, <<"/", "?", ":", "?">>,
   <<"a">>, <<"a", "/", "?", "a">>, <<":", "1">>, <<":", "/">>, <<":", "/", "/", "a">>}

SomeSegments == {<<>>, <<"a">>, <<"/", "a", "/">>, <<"a", "?", ":">>}
SomeNames == {<<"a">>, <<"&", "/">>}
SomeValues == {NoValue, <<"?", "=">>}
SomeEndings ==
  {<<>>, <<"/">>, <<"/", "a">>, <<"a", "/", "?", "a">>, <<"/", "?">>, <<"?">>,
   <<":", "/", "[", "a">>, <<"/", ":", "a", "/", "?", "a">>}
=============================================================================
