------------------------ MODULE MC_RequestRoundTrip ------------------------
EXTENDS RequestRoundTrip

F(source, name, kind, type) ==
  [source |-> source, name |-> name, type |-> type, kind |-> kind, default |-> <<>>,
   trim |-> FALSE, case |-> "as is", validator |-> FALSE]

Plain(source, name) == F(source, name, "one", "text")
Optional(source, name) == F(source, name, "option", "text")
WithDefault(f, t) == [f EXCEPT !.default = <<t>>]

\* A, a, 1, space, % & + / = ? and a character of two bytes.
Chars == {<<65>>, <<97>>, <<49>>, <<32>>, <<37>>, <<38>>, <<43>>, <<47>>, <<61>>, <<63>>, <<194, 167>>}
Texts == {<<>>} \cup Chars \cup {c \o d : c, d \in Chars}
Few == {<<>>, <<97>>, <<65, 32>>, <<43>>, <<38, 97, 61, 65>>, <<47, 97>>, <<97, 47>>}

\* What a multipart body may stumble over: line breaks, a dash, a quote, a backslash, a colon.
Odd == {<<13, 10>>, <<13>>, <<45>>, <<34>>, <<92>>, <<58>>, <<116>>}
FormTexts == {<<>>} \cup Odd \cup {c \o d : c, d \in Odd} \cup {<<13, 10, 13, 10, 13, 10>>, <<45, 45, 13, 10>>}

\* One case is written with what its query has to escape, one has the other's first letter.
SomeEnum ==
  <<[name |-> <<65>>, value |-> <<97, 38>>, id |-> <<49>>], [name |-> <<66>>, value |-> <<97>>, id |-> <<50>>]>>

\* What a model holds of a type, and what else a client may write for it.
ValuesOf == [number |-> {<<48>>, <<52, 50>>, <<50, 53, 53>>}, bool |-> {True, False},
             enum |-> {e.value : e \in Range(SomeEnum)}]
WrittenFor == [number |-> {<<43, 55>>, <<48, 48, 55>>}, bool |-> {<<49>>, <<84, 114, 117, 101>>},
               enum |-> {<<97, 38>>, <<50>>}]

p == <<112>>    q == <<113>>    odd == <<38, 32>>

Sent(client, fields, values) == [client |-> client, fields |-> fields, values |-> values]

OneField ==
  {[Plain(s, p) EXCEPT !.trim = trim, !.case = case, !.validator = validator] :
     s \in {"path", "query", "header", "form", "body"}, trim, validator \in BOOLEAN, case \in {"as is", "lower", "upper"}}

\* Everything there can be in one field, and less of it in two or three.
TextCases ==
  {Sent("ours", <<f>>, <<<<t>>>>) : f \in OneField, t \in Texts}
    \cup {Sent("ours", <<Plain("path", p), Plain("path", q)>>, <<<<s>>, <<t>>>>) : s, t \in Few}
    \cup {Sent("ours", <<F("query", odd, "vec", "text"), Optional("query", q)>>, <<vs, o>>) :
            vs \in BoundedSeq(Few, 2), o \in {<<>>} \cup {<<t>> : t \in Few}}
    \cup {Sent("ours", <<Plain("path", p), Plain("query", p), Plain("header", p)>>, <<<<s>>, <<t>>, <<u>>>>) :
            s, t, u \in Few}
    \cup {Sent("other", <<[Plain("query", p) EXCEPT !.trim = trim, !.case = "lower"], Optional("query", q)>>, <<<<t>>, u>>) :
            trim \in BOOLEAN, t \in Texts, u \in {<<>>, <<<<43, 32>>>>}}
    \cup {Sent("other", <<Plain("body", p), Optional("body", q)>>, <<<<s>>, <<t>>>>) : s, t \in Few}
    \cup {Sent("ours", <<Optional("query", p), Optional("form", <<59, 61, 92, 112>>), Plain("form", q)>>, <<vs, vs, <<t>>>>) :
            vs \in {<<>>, <<<<116>>>>}, t \in FormTexts}
    \cup {Sent("other", <<Plain("form", p)>>, <<<<t>>>>) : t \in FormTexts}
    \cup {Sent("other", <<Plain("form", p), Plain("form", q)>>, <<<<s>>, <<t>>>>) : s, t \in {<<>>, <<13, 10>>}}
    \cup {Sent("other", <<Plain("file", p)>>, <<<<s, <<116>>, t>>>>) : s \in Odd, t \in FormTexts}
    \cup {Sent("other", <<Plain("file", p), Plain("form", q)>>, <<<<s, <<116>>, <<255>>>>, <<<<45>>>>>>) :
            s \in {<<34>>, <<92>>, <<58>>}}

\* Texts of a Vec where it is read as an array.
ArrayCases ==
  {Sent("ours", <<F(s, p, "vec", "text"), Plain(s, q)>>, <<vs, <<<<43>>>>>>) :
     s \in {"header", "form"}, vs \in BoundedSeq({<<>>, <<97>>, EmptyArray}, 2)}

\* A value of a type, or none, with a default or without, in front of a text.
OursOf(type, s) ==
  {Sent("ours", <<F(s, p, "one", type), Plain(s, q)>>, <<<<v>>, <<<<43>>>>>>) : v \in ValuesOf[type]}
    \cup (IF s = "path" THEN {} ELSE
           {Sent("ours", <<f, Plain(s, q)>>, <<vs, <<<<43>>>>>>) :
              f \in {F(s, p, "option", type)}
                \cup (IF type = "enum" THEN {} ELSE {WithDefault(F(s, p, "option", type), d) : d \in ValuesOf[type]}),
              vs \in {<<>>} \cup {<<v>> : v \in ValuesOf[type]}})
    \cup (IF s \in {"query", "body"}
          THEN {Sent("ours", <<F(s, odd, "vec", type)>>, <<vs>>) : vs \in BoundedSeq(ValuesOf[type], 2)} ELSE {})
    \cup (IF s \in {"header", "form"}
          THEN {Sent("ours", <<F(s, p, "vec", type), Plain(s, q)>>, <<vs, <<<<43>>>>>>) :
                  vs \in BoundedSeq(ValuesOf[type], 2)} ELSE {})

OthersOf(type, s) ==
  {Sent("other", <<F(s, p, "one", type), Optional(s, q)>>, <<<<v>>, <<>>>>) : v \in ValuesOf[type] \cup WrittenFor[type]}
    \cup {Sent("other", <<[WithDefault(Plain(s, q), <<97, 32>>) EXCEPT !.case = "upper"]>>, <<<<>>>>)}

TypedCases ==
  UNION {OursOf(type, s) : type \in DOMAIN ValuesOf, s \in Sources \ {"file"}}
    \cup UNION {OthersOf(type, s) : type \in DOMAIN ValuesOf, s \in {"query", "form", "body"}}

SomeCases ==
  TextCases \cup TypedCases \cup ArrayCases
    \cup {Sent("broken", <<Plain("query", q), F("query", p, "one", type)>>, <<<<<<97>>>>, <<<<49>>>>>>) : type \in Types}

\* A lone %, an escape cut off, one of no hex, and escapes that are no UTF-8.
NoText == {<<97, 37>>, <<37, 50>>, <<37, 50, 90>>, <<37, 43, 43>>, <<37, 67, 51, 40>>, <<37, 65, 55>>}

\* No number of a u8, no bool, no case.
SomeMalformed ==
  [text |-> NoText,
   number |-> NoText \cup {<<>>, <<37, 50, 66>>, <<37, 50, 100, 49>>, <<50, 53, 54>>, <<55, 43>>, <<49, 97>>},
   bool |-> NoText \cup {<<>>, <<50>>, <<116>>, <<48, 48>>},
   enum |-> NoText \cup {<<>>, <<97, 97>>, <<65>>, <<48>>}]
=============================================================================
