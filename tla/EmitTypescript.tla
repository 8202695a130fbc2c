---------------------------- MODULE EmitTypescript ----------------------------
(***************************************************************************)
(* tools/emit/typescript.ts: types, one class per tag, one object for the  *)
(* arguments of a method.                                                  *)
(***************************************************************************)
EXTENDS Emitter

\* Nothing here renames a field.
field(f) == Member(snake(f.name), f)
types(api) == Shaped(api.models, LAMBDA m : [i \in DOMAIN m.fields |-> field(m.fields[i])])

\* One object, which may be left out when nothing in it is required.
args(op) ==
    ArgsOf(op.params, snake, Is)
        \o BodyArg(op, op.body # None /\ (op.body[1].required \/ \E p \in Range(op.params) : Is(p)))

\* The paginator spreads the input it was given under the window.
all(op) == Walk({a.of : a \in Range(args(op))} \cup {Of(Limit), Of(Offset)}, Coalesced)
method(op) == Method(camel(op.id), op, args(op), snake, {}, all(op))

\* Every generated type name the operations mention, which they import.
referenced(api) ==
    UNION {(IF op.ok = None THEN {} ELSE mentioned(op.ok[1]))
             \cup UNION {mentioned(p.ty) : p \in Range(op.params)}
             \cup (IF op.body = None THEN {} ELSE {op.body[1].model}) : op \in Range(api.ops)}
operations(api) == File(api, pascal, method, {}, {pascal(n) : n \in referenced(api)}, FALSE)

client(api) == Carried(api, camel, pascal)

typescript(api) ==
    [library |-> "typescript", types |-> types(api), operations |-> operations(api), client |-> client(api)]
===============================================================================
