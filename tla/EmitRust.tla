------------------------------- MODULE EmitRust -------------------------------
(***************************************************************************)
(* tools/emit/rust.ts: structs, and for every operation a builder whose    *)
(* constructor takes the path and the body and whose setters take the      *)
(* query.                                                                  *)
(***************************************************************************)
EXTENDS Emitter

KEYWORDS == {<<"type">>}
ident(name) == Escaped(snake(name), KEYWORDS, "r#")

structs(api) == Shaped(api.models, LAMBDA m : Members(m.fields, ident))

Constructor(op) == ArgsOf(In(op, "path"), ident, LAMBDA p : TRUE) \o BodyArg(op, TRUE)
ask(op) == Constructor(op) \o ArgsOf(In(op, "query"), ident, LAMBDA p : FALSE)

\* Streamed from a clone of the builder, with another window.
stream(op) == Walk({a.of : a \in Range(ask(op))} \cup {Of(Limit), Of(Offset)}, Coalesced)

\* Only a string is escaped.
unescaped(op) == {p.name : p \in {q \in Range(In(op, "path")) : q.ty # Scalar("string")}}
send(op) == Method(snake(op.id), op, ask(op), ident, unescaped(op), stream(op))

\* The shapes are reached through their module.
operations(api) == File(api, pascal, send, {pascal(op.id) : op \in Range(api.ops)}, {}, TRUE)

client(api) == Carried(api, camel, pascal)

rust(api) ==
    [library |-> "rust", types |-> structs(api), operations |-> operations(api), client |-> client(api)]
===============================================================================
