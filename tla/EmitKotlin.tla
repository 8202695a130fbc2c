------------------------------ MODULE EmitKotlin ------------------------------
(***************************************************************************)
(* tools/emit/kotlin.ts: data classes that name the wire's field, and      *)
(* suspending methods.                                                     *)
(***************************************************************************)
EXTENDS Emitter

\* Required first.
models(api) == Shaped(api.models, LAMBDA m : Members(Sorted(m.fields), camel))

signature(op) == RequiredFirst(op, camel)
all(op) == Walk(PassedOn(op), Coalesced)
method(op) == Method(camel(op.id), op, signature(op), camel, {}, all(op))
operations(api) == File(api, pascal, method, {}, {pascal(n) : n \in ShapeNames(api)}, FALSE)

namespaces(api) == Carried(api, camel, pascal)

kotlin(api) ==
    [library |-> "kotlin", types |-> models(api), operations |-> operations(api), client |-> namespaces(api)]
===============================================================================
