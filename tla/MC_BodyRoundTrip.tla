------------------------- MODULE MC_BodyRoundTrip -------------------------
EXTENDS BodyRoundTrip

\* One case is listed by the name that another is written as; the last by its own.
SomeEnum ==
  <<[name |-> <<82>>, value |-> <<114, 34>>, id |-> <<49>>], [name |-> <<71>>, value |-> <<82>>, id |-> <<50>>],
    [name |-> <<66>>, value |-> <<66>>, id |-> <<51>>]>>

a == <<97>>   b == <<98>>   aUnderB == <<97, 95, 98>>

One(x) == [form |-> "one", to |-> x]
Split2 == [form |-> "split", to |-> <<>>]
Field_(name, type) == [name |-> name, json_name |-> NotNamed, rename |-> NotNamed, params |-> {}, type |-> type]
Struct(rule, params, fields) == [attributes |-> [rename_all |-> rule, params |-> params], fields |-> fields]
Simple(fields) == Struct(NotNamed, {}, fields)

SomeStructs ==
  [Plain |-> Simple(<<Field_(a, <<"custom">>), Field_(b, <<"Option", "number">>)>>),
   Camel |-> Struct(One("camelCase"), {"deny_unknown_fields"},
               <<Field_(aUnderB, <<"Option", "enum">>), [Field_(b, <<"Vec", "bool">>) EXCEPT !.rename = One(<<45>>)]>>),
   Outer |-> Struct(One("SCREAMING-KEBAB-CASE"), {},
               <<Field_(aUnderB, <<"Plain">>), Field_(a, <<"Option", "Vec", "Camel">>), Field_(b, <<"integer enum">>)>>),
   JsonNamed |-> Struct(One("PascalCase"), {}, <<[Field_(a, <<"Option", "text">>) EXCEPT !.json_name = One(b)]>>),
   BothNamed |-> Simple(<<[Field_(a, <<"text">>) EXCEPT !.json_name = One(b), !.rename = One(b)]>>),
   Twice |-> Simple(<<Field_(a, <<"text">>), [Field_(b, <<"text">>) EXCEPT !.rename = One(a)]>>),
   Dotted |-> Simple(<<[Field_(a, <<"text">>) EXCEPT !.rename = One(<<97, 46, 98>>)]>>),
   Endless |-> Simple(<<Field_(a, <<"Vec", "Endless">>)>>),
   Flattened |-> Simple(<<[Field_(a, <<"Plain">>) EXCEPT !.params = {"flatten"}]>>),
   Split |-> Struct(Split2, {}, <<Field_(a, <<"text">>)>>),
   Tagged |-> Struct(NotNamed, {"tag"}, <<Field_(a, <<"text">>)>>),
   Disagrees |-> Simple(<<[Field_(a, <<"text">>) EXCEPT !.json_name = One(b), !.rename = One(a)]>>)]

RawBytes == {<<>>, <<97>>, <<34, 92>>, <<32, 91, 93>>, <<255>>}

RECURSIVE SomeValues(_)
SomeValues(type) ==
  LET of == Tail(type) IN
  CASE type \in {<<"String">>} -> {t \in RawBytes : IsUtf8(t)}
    [] type \in {<<"Vec<u8>">>, <<"RawData">>, <<"RawDataTyped">>} -> RawBytes
    [] type[1] = "Option" -> {<<>>} \cup {<<v>> : v \in SomeValues(of)}
    [] type[1] = "Vec" -> IF type[2] = "Endless" THEN {<<>>}
                          ELSE {<<>>} \cup {<<v>> : v \in SomeValues(of)} \cup {<<v, v>> : v \in SomeValues(of)}
    [] type[1] = "HashMap" -> {<<>>} \cup {<<Member(b, v), Member(<<46>>, v)>> : v \in SomeValues(of)}
    [] type[1] \in DOMAIN Structs ->
         FoldLeft(LAMBDA given, f : {Append(vs, v) : vs \in given, v \in SomeValues(f.type)}, {<<>>}, FieldsOf(type[1]))
    [] type[1] \in {"text", "custom"} -> {<<>>, <<34, 92>>}
    [] type[1] = "number" -> {<<52, 50>>}
    [] type[1] = "bool" -> {True, False}
    [] IsEnum(type[1]) -> {c.value : c \in Range(SomeEnum)}

BodyField(name, type) == [attr |-> "http_body", name |-> name, type |-> type, default |-> <<>>]
Default(f, v) == [f EXCEPT !.default = <<v>>]
Model(method, fields) == [method |-> method, fields |-> fields]

Leaves_ == {"text", "number", "bool", "custom", "enum", "integer enum"}
Wrappers == {<<>>, <<"Option">>, <<"Vec">>, <<"HashMap">>, <<"Vec", "Vec">>, <<"HashMap", "Vec">>, <<"Option", "HashMap">>,
             <<"Vec", "HashMap">>, <<"HashMap", "HashMap">>, <<"HashMap", "Vec", "Vec">>}

SomeModels ==
  {Model("POST", <<BodyField(a, w \o <<leaf>>)>>) : w \in Wrappers, leaf \in Leaves_}
    \cup {Model("POST", <<BodyField(a, w \o <<s>>)>>) :
            w \in {<<>>, <<"Option">>, <<"Vec">>, <<"HashMap">>}, s \in DOMAIN SomeStructs \ {"Outer"}}
    \cup {Model("POST", <<BodyField(a, <<"Outer">>)>>)}
    \* several fields, in the order of somebody else; twice the same name; a name that is a path
    \cup {Model("POST", <<BodyField(n, t), Default(BodyField(b, <<"text">>), <<120>>), BodyField(a, <<"Option", "enum">>)>>) :
            n \in {<<99>>, a, b, <<97, 46, 98>>}, t \in {<<"Plain">>, <<"Vec", "text">>, <<"number">>}}
    \cup {Model("POST", <<Default(BodyField(a, <<"Option", "number">>), <<<<55>>>>), Default(BodyField(b, <<"bool">>), True)>>)}
    \* bodies of other kinds, on every method, and two kinds in one model
    \cup {Model(m, <<[BodyField(a, t) EXCEPT !.attr = "http_body_raw"]>>) : t \in RawTypes, m \in {"GET", "POST"}}
    \cup {Model(m, <<[BodyField(a, <<"text">>) EXCEPT !.attr = attr]>>) :
            attr \in {"http_form_data", "http_body"}, m \in {"GET", "DELETE", "POST"}}
    \cup {Model("POST", <<BodyField(a, <<"text">>), [BodyField(b, <<"text">>) EXCEPT !.attr = "http_form_data"]>>)}
=============================================================================
