-------------------------------- MODULE Emitter --------------------------------
(***************************************************************************)
(* What the six emitters have in common: identifiers, and the records in   *)
(* which a model here says what a library's source would say.  A method is *)
(* what it is called, the arguments it takes and what it hands to its      *)
(* transport; a shape is its members; a client is the groups it carries.   *)
(* Layout, comments and the spelling of the built-in types are left out.   *)
(***************************************************************************)
EXTENDS Contract

\* An identifier: the words of a name in a case, and what was put on it to make
\* it legal.  One word in lower case is the same in camel and in snake.
Spelled(words, case) ==
    [words |-> words, mark |-> "",
     case  |-> IF Len(words) = 1 /\ case # "pascal" THEN "lower" ELSE case]
camel(words)  == Spelled(words, "camel")
pascal(words) == Spelled(words, "pascal")
snake(words)  == Spelled(words, "snake")
Marked(id, mark) == [id EXCEPT !.mark = mark]
Escaped(id, keywords, mark) == IF id.case = "lower" /\ id.words \in keywords THEN Marked(id, mark) ELSE id

In(op, where) == SelectSeq(op.params, LAMBDA p : p.where = where)
Is(p)  == p.required
Not(p) == ~p.required

\* An argument stands for a parameter or for the body; a builder's or a struct's
\* member is an argument that is not needed.
Arg(id, of, needed) == [id |-> id, of |-> of, needed |-> needed]
Of(name) == <<"param", name>>
ForBody  == <<"body">>
BodyId   == snake(<<"body">>)
Limit    == <<"limit">>
Offset   == <<"offset">>

ArgsOf(params, called(_), needed(_)) ==
    [i \in DOMAIN params |-> Arg(called(params[i].name), Of(params[i].name), needed(params[i]))]
BodyArg(op, needed) == IF op.body = None THEN <<>> ELSE <<Arg(BodyId, ForBody, needed)>>
RequiredFirst(op, called(_)) ==
    ArgsOf(SelectSeq(op.params, Is), called, Is) \o BodyArg(op, TRUE) \o ArgsOf(SelectSeq(op.params, Not), called, Is)

\* What stands in braces is filled in, by its name; `plain` are the names whose value
\* goes in with the slashes it holds.
Filled(op, called(_), plain) ==
    [i \in DOMAIN op.path |->
        LET name == op.path[i].name
        IN  IF op.path[i].hole THEN <<"value", called(name), name \in plain>> ELSE <<"text", name>>]

\* The wire keeps its own names.
Query(op, called(_)) == {<<p.name, called(p.name)>> : p \in Range(In(op, "query"))}

\* Defect: the walk forgets what else was asked.
WindowOnly(op) == {Of(Limit), Of(Offset)}

\* A page is asked for with its window, and every other parameter by its name.
PassedOn(op) ==
    {Of(Limit), Of(Offset)} \cup {Of(p.name) : p \in {q \in Range(op.params) : q.name \notin {Limit, Offset}}}

\* A limit as it was given, or None; and how large a page a walk asks for then.
Limits == {None, <<0>>, <<1>>}
Coalesced(limit)   == IF limit = None THEN 100 ELSE limit[1]            \* limit ?? 100
OrAHundred(limit) == IF limit \in {None, <<0>>} THEN 100 ELSE limit[1]  \* limit or 100
Walk(passes, window(_)) == [passes |-> passes, window |-> [limit \in Limits |-> window(limit)]]

Method(name, op, args, called(_), plain, walk) ==
    [name |-> name, id |-> op.id, verb |-> op.method, args |-> args,
     path |-> Filled(op, called, plain), query |-> Query(op, called),
     body |-> IF op.body = None THEN None ELSE <<BodyId>>,
     answer |-> op.ok, walk |-> IF op.pages THEN <<walk>> ELSE None]

-------------------------------------------------------------------------------
\* A shape's member: what it is called, and the name it is read and written by.
Member(id, field) == [id |-> id, wire |-> field.name, ty |-> field.ty, defaulted |-> field.optional]
Members(fields, called(_)) == [i \in DOMAIN fields |-> Member(called(fields[i].name), fields[i])]
Sorted(fields) == SelectSeq(fields, LAMBDA f : ~f.optional) \o SelectSeq(fields, LAMBDA f : f.optional)
Shaped(models, members(_)) ==
    {[name |-> models[i].name, members |-> members(models[i])] : i \in DOMAIN models}

\* A group and what a client calls it, in the order of the tags.
Carried(api, attribute(_), class(_)) ==
    LET tagged == byTag(api)
    IN  [i \in DOMAIN tagged |-> [tag |-> tagged[i].tag, as |-> attribute(tagged[i].tag), class |-> class(tagged[i].tag)]]

ShapeNames(api) == {api.models[i].name : i \in DOMAIN api.models} \cup Range(api.aliases)

RECURSIVE mentioned(_)
mentioned(ty) ==
    CASE ty.k = "ref" -> {ty.name}
      [] ty.k \in {"array", "page"} -> mentioned(ty.of)
      [] OTHER -> {}

\* The file of the operations: its methods by group, the names it declares next
\* to the groups, the shapes' names in its scope, and whether it reaches them
\* through a path instead.
File(api, class(_), method(_), beside, scope, through) ==
    LET tagged == byTag(api)
    IN  [groups   |-> [i \in DOMAIN tagged |->
                        [tag |-> tagged[i].tag, class |-> class(tagged[i].tag),
                         methods |-> [j \in DOMAIN tagged[i].ops |-> method(tagged[i].ops[j])]]],
         beside   |-> beside, scope |-> scope, through |-> through]
===============================================================================
