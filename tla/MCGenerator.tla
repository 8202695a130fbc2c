------------------------------ MODULE MCGenerator ------------------------------
EXTENDS Generator

C == INSTANCE Contract

\* One library that fails when its version is taken, and one that does not.
MCEmitted == <<"npm", "nuget">>

A == <<"a">>
B == <<"b">>
D == <<"d">>
X == <<"x">>
Y == <<"y">>
PostId     == <<"post", "id">>
TitleStaff == <<"title", "staff">>
Title      == <<"title">>

String == C!Typed(<<"string">>)
Property(name, is, required) == [name |-> name, is |-> is, required |-> required]
Object(properties) == C!Shape(<<>>, properties)

Document(shapes, names, ops, tags) ==
    [shapes |-> shapes, names |-> names, ops |-> ops, tags |-> tags,
     alphabet |-> <<<<"api">>, <<"item">>, <<"list", "titles">>, <<"people">>, <<"remove">>, Title,
                    TitleStaff, <<"titles">>>>]
Shapes3(a, b, d) == (A :> a) @@ (B :> b) @@ (D :> d)

\* Composition: two shapes and a part written inline, diamonds and cycles.
OwnOf(names) == LET order == <<X, Y>> IN
    [i \in DOMAIN SelectSeq(order, LAMBDA n : n \in names) |->
        Property(SelectSeq(order, LAMBDA n : n \in names)[i], String, TRUE)]
Lists(names) == {<<>>} \cup {<<C!Composed(n)>> : n \in names}
                \cup {<<C!Composed(p[1]), C!Composed(p[2])>> : p \in {q \in names \X names : q[1] # q[2]}}
Parted(lists) == lists \cup {Append(l, C!Inline(Object(OwnOf({X})))) : l \in lists}
MCComposed ==
    {Document(Shapes3(C!Shape(la, OwnOf(oa)), C!Shape(lb, OwnOf(ob)), C!Shape(ld, OwnOf(od))), <<A, B, D>>, {}, <<>>) :
        la \in Parted(Lists({B, D})), oa \in {{}, {X}, {X, Y}}, lb \in Lists({A, D}), ob \in SUBSET {X, Y},
        ld \in {<<>>, <<C!Composed(A)>>, <<C!Composed(B)>>}, od \in {{}, {X}}}

\* One property of every kind.
Simple == {String, C!Typed(<<"int", "null">>), C!Typed(<<"null", "bool">>), C!Typed(<<"string", "int">>),
           C!Typed(<<"object">>), C!Untyped, C!RefTo(B), C!RefTo(PostId),
           C!Envelope(B, C!RefTo(B)), C!Envelope(<<"string">>, String)}
Null == C!Typed(<<"null">>)
Compound == Simple \cup {C!ListOf(s, t) : s \in Simple, t \in {<<"array">>, <<"array", "null">>}}
            \cup {C!OneOf(<<Null, s>>) : s \in Simple} \cup {C!OneOf(<<s, String, Null>>) : s \in Simple}
MCTyped ==
    {Document((A :> Object(<<Property(X, s, r)>>)) @@ (B :> Object(<<Property(X, String, TRUE)>>))
                @@ (PostId :> C!Alias(String)), <<A, B, PostId>>, {}, <<>>) :
        s \in Compound \cup {C!ListOf(l, <<"array">>) : l \in Compound}, r \in BOOLEAN}

\* Who mentions whom, in every way among three.
Mentions(names) == LET order == <<A, B, D>> IN
    [i \in 1 .. 3 |-> Property(<<"of", ToString(i)>>,
        IF order[i] \notin names THEN String ELSE IF i = 2 THEN C!ListOf(C!RefTo(order[i]), <<"array">>)
        ELSE C!RefTo(order[i]), TRUE)]
MCMentioned ==
    {Document(Shapes3(Object(Mentions(a)), Object(Mentions(b)), Object(Mentions(d))), <<A, B, D>>, {}, <<>>) :
        a, b, d \in SUBSET {A, B, D}}

\* Operations: a paged one, one called like the shape it answers, one with two
\* parameters in its path and a body, one that answers nothing.
Text(word) == [hole |-> FALSE, name |-> <<word>>]
Hole(name) == [hole |-> TRUE, name |-> name]
Parameter(name, in, required) == [name |-> name, in |-> in, required |-> required, is |-> String]
Op(id, tags, verb, path, parameters, body, responses) ==
    [id |-> id, tags |-> tags, verb |-> verb, path |-> path, parameters |-> parameters, body |-> body,
     responses |-> responses]
Genre == <<"genre", "id">>
ListTitles(tags) == Op(<<"list", "titles">>, tags, "GET", <<Text("titles")>>,
    <<Parameter(<<"type">>, "query", TRUE), Parameter(Genre, "query", FALSE), Parameter(<<"limit">>, "query", FALSE),
      Parameter(<<"offset">>, "query", FALSE)>>, <<>>, (200 :> <<C!Envelope(Title, C!RefTo(Title))>>))
Staff(tags) == Op(TitleStaff, tags, "GET", <<Text("titles"), Hole(<<"id">>)>>,
    <<Parameter(<<"default">>, "query", FALSE), Parameter(<<"id">>, "path", TRUE)>>, <<>>,
    (404 :> <<>>) @@ (200 :> <<C!Envelope(TitleStaff, C!RefTo(TitleStaff))>>))
Item(tags, swapped) == Op(<<"item">>, tags, "PUT", <<Text("items"), Hole(<<"code">>), Hole(<<"shikimori", "id">>)>>,
    LET number == [Parameter(<<"shikimori", "id">>, "path", TRUE) EXCEPT !.is = C!Typed(<<"int">>)]
        code   == Parameter(<<"code">>, "path", TRUE)
    IN  IF swapped THEN <<number, code>> ELSE <<code, number>>,
    <<[is |-> C!RefTo(TitleStaff), required |-> TRUE]>>, (201 :> <<C!RefTo(Title)>>))
RemoveItem(tags) == Op(<<"remove">>, tags, "DELETE", <<Text("items"), Hole(<<"id">>)>>,
    <<Parameter(<<"id">>, "path", TRUE)>>, <<>>, (204 :> <<>>))
Tags == {<<>>, <<Title>>, <<<<"titles">>>>, <<<<"people">>>>}
MCOperated ==
    {Document((Title :> Object(<<Property(Title, String, TRUE)>>)) @@ (TitleStaff :> Object(<<Property(X, C!RefTo(Title), FALSE), Property(<<"type">>, String, TRUE),
                          Property(<<"default">>, String, FALSE)>>)),
              <<Title, TitleStaff>>, {ListTitles(t), Staff(u), Item(v, s), RemoveItem(w)}, declared) :
        t, u, v, w \in Tags, s \in BOOLEAN, declared \in {<<>>, <<<<"titles">>, <<"people">>>>}}

MCDocuments == MCComposed \cup MCTyped \cup MCMentioned \cup MCOperated
================================================================================
