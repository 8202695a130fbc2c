------------------------------- MODULE EmitCpp -------------------------------
(***************************************************************************)
(* tools/emit/cpp.ts: structs with a conversion each way, and for every    *)
(* operation that takes anything a struct of what it takes.                *)
(***************************************************************************)
EXTENDS Emitter

KEYWORDS == {<<"default">>}
ident(name) == Escaped(snake(name), KEYWORDS, "_")

models(api) == Shaped(api.models, LAMBDA m : Members(m.fields, ident))

\* Every member of a request has a default.
request(op) ==
    LET never(p) == FALSE
    IN  ArgsOf(In(op, "path"), ident, never) \o ArgsOf(In(op, "query"), ident, never) \o BodyArg(op, FALSE)

\* The request is copied, and its window moved.
all(op) == Walk({a.of : a \in Range(request(op))} \cup {Of(Limit), Of(Offset)}, Coalesced)

\* `{name}` is replaced for each of the path's parameters, and for nothing else.
method(op) ==
    LET params == {p.name : p \in Range(In(op, "path"))}
    IN  [Method(snake(op.id), op, request(op), ident, {}, all(op)) EXCEPT
          !.path = [i \in DOMAIN op.path |->
                      IF op.path[i].name \in params THEN @[i] ELSE <<"text", op.path[i].name>>]]

Api(tag) == Marked(camel(tag), "_api")
operations(api) ==
    File(api, Api, method,
         {Marked(pascal(op.id), "Request") : op \in {o \in Range(api.ops) : request(o) # <<>>}},
         {pascal(n) : n \in ShapeNames(api)}, FALSE)

client(api) == Carried(api, camel, Api)

cpp(api) == [library |-> "cpp", types |-> models(api), operations |-> operations(api), client |-> client(api)]
===============================================================================
