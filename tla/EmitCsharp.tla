------------------------------ MODULE EmitCsharp ------------------------------
(***************************************************************************)
(* tools/emit/csharp.ts: positional records, and a class per tag whose     *)
(* name no shape has.                                                      *)
(***************************************************************************)
EXTENDS Emitter

\* Defect: a property named like its type.
propAsItIs(name, inside) == pascal(name)

\* A property may not be named like the type it is declared in.
prop(name, inside) == IF name = inside THEN Marked(pascal(name), "_") ELSE pascal(name)
models(api) == Shaped(api.models, LAMBDA m : Members(Sorted(m.fields), LAMBDA name : prop(name, m.name)))

RESERVED == {<<"default">>}
camelArg(name) == Escaped(camel(name), RESERVED, "@")

signature(op) == RequiredFirst(op, camelArg)
all(op) == Walk(PassedOn(op), Coalesced)
method(op) == Method(Marked(pascal(op.id), "Async"), op, signature(op), camelArg, {}, all(op))
Api(tag) == Marked(pascal(tag), "Api")
operations(api) == File(api, Api, method, {}, {pascal(n) : n \in ShapeNames(api)}, FALSE)

namespaces(api) == Carried(api, pascal, Api)

csharp(api) ==
    [library |-> "csharp", types |-> models(api), operations |-> operations(api), client |-> namespaces(api)]
===============================================================================
