------------------------------ MODULE EmitPython ------------------------------
(***************************************************************************)
(* tools/emit/python.ts: dataclasses with a parser each, in an order in    *)
(* which they exist when they are called, and methods with keyword         *)
(* arguments.  The asynchronous half differs by two keywords.              *)
(***************************************************************************)
EXTENDS Emitter

\* How one value is read back out of JSON; `plain` are the aliases.
RECURSIVE parse(_, _)
parse(ty, plain) ==
    LET shaped(t) == t.k = "ref" /\ t.name \notin plain
    IN  CASE shaped(ty) -> <<"make", ty.name>>
          [] ty.k = "array" /\ (shaped(ty.of) \/ ty.of.k = "page") -> <<"each", parse(ty.of, plain)>>
          [] ty.k = "page" -> <<"page", IF shaped(ty.of) THEN <<"make", ty.of.name>> ELSE <<"as is">>>>
          [] OTHER -> <<"as is">>

RECURSIVE needs(_)
needs(ty) == CASE ty.k = "ref" -> <<ty.name>> [] ty.k \in {"array", "page"} -> needs(ty.of) [] OTHER -> <<>>
NeedsOf(model) == FlattenSeq([i \in DOMAIN model.fields |-> needs(model.fields[i].ty)])

\* Depth first, with a cycle broken rather than followed; `out` is `done` too.
RECURSIVE visit(_, _, _, _)
visit(shapes, name, on, out) ==
    LET at == SelectInSeq(shapes, LAMBDA m : m.name = name)
        deeper(sofar, next) == visit(shapes, next, on \cup {name}, sofar)
    IN  IF at = 0 \/ Contains(out, name) \/ name \in on THEN out
        ELSE Append(FoldLeft(deeper, out, NeedsOf(shapes[at])), name)

\* Defect: the order of the document.
orderedAsRead(api) == [i \in DOMAIN api.models |-> api.models[i].name]

ordered(api) ==
    LET each(out, model) == visit(api.models, model.name, {}, out)
    IN  FoldLeft(each, <<>>, api.models)

\* What has no default comes first, as a dataclass wants it.
models(api) == Shaped(api.models, LAMBDA m : Members(Sorted(m.fields), snake))

\* How each field and each answer is read.
readers(api) ==
    LET types == UNION {{f.ty : f \in Range(m.fields)} : m \in Range(api.models)}
                   \cup {op.ok[1] : op \in {o \in Range(api.ops) : o.ok # None}}
    IN  {<<ty, parse(ty, Range(api.aliases))>> : ty \in types}

signature(op) == RequiredFirst(op, snake)
all(op) == Walk(PassedOn(op), OrAHundred)

\* quote() takes a slash for safe.
quoted(op) == {part.name : part \in Range(op.path)}
method(op) == Method(snake(op.id), op, signature(op), snake, quoted(op), all(op))
groups(api) == File(api, pascal, method, {}, {pascal(n) : n \in ShapeNames(api)}, FALSE)

namespaces(api) == Carried(api, snake, pascal)

python(api) ==
    [library |-> "python", types |-> models(api), operations |-> groups(api), client |-> namespaces(api),
     order |-> ordered(api), readers |-> readers(api)]
===============================================================================
