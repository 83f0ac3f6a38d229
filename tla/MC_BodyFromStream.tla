------------------------- MODULE MC_BodyFromStream -------------------------
EXTENDS BodyFromStream

F(name, presence, number, validator, raw) ==
  [name |-> name, presence |-> presence, number |-> number, validator |-> validator, raw |-> raw]

Models ==
  { <<F(<<"a">>, "required", TRUE, FALSE, FALSE), F(<<"b">>, "optional", FALSE, FALSE, FALSE)>>,
    <<F(<<"u", "n">>, "required", FALSE, FALSE, FALSE), F(<<"u">>, "optional", FALSE, FALSE, FALSE)>>,
    <<F(<<"b">>, "optional", TRUE, FALSE, TRUE), F(<<"a">>, "default", FALSE, TRUE, FALSE)>> }

Text(t) == <<>> :> t
Nested == (<<>> :> "{n:1}") @@ (<<"n">> :> "1")
Members == {Member("a", Text("1")), Member("a", Text("x")), Member("a", Text(Null)),
            Member("b", Text("1")), Member("u", Nested), Member("u", Text("7")), Broken}
Few == {Member("a", Text("1")), Member("a", Text("x")), Member("b", Text("1"))}

JsonBodies ==
  {<<Open>> \o items \o over : items \in SeqOf(Members, 2) \cup SeqOf(Few, 3), over \in {<<>>, <<Close>>}}
OddBodies ==
  {<<>>, <<Blank>>, <<Array, Close>>, <<Broken>>,
   <<Blank, Open, Member("a", Text("1")), Blank, Close, Broken>>}
OtherBodies ==
  {<<Pair(<<"a">>, "1"), Pair(<<"a">>, "x")>>, <<Pair(<<"u", "n">>, "1")>>,
   <<Pair(<<"b">>, "x"), Broken>>, <<Part(<<"b">>, "1"), Broken, Part(<<"a">>, "1")>>}

Asked(takes, fields, sources, header, bodies) ==
  {[takes |-> takes, fields |-> fields, sources |-> sources, header |-> header, body |-> b] : b \in bodies}

SomeCases ==
  UNION ({Asked("fields", m, "fine", "json", JsonBodies) : m \in Models}
    \cup {Asked("fields", m, s, h, OddBodies \cup OtherBodies) : m \in Models, s \in {"fine", "refused", "unreadable"},
            h \in {"json", "urlencoded", "multipart", "multipart without boundary", "other", NoHeader}}
    \cup {Asked(t, <<>>, s, "json", OddBodies \cup OtherBodies) : t \in {"raw", "stream", "nothing"},
            s \in {"fine", "refused"}})
=============================================================================
