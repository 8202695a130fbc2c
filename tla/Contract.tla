------------------------------- MODULE Contract -------------------------------
(***************************************************************************)
(* tools/spec.ts: `openapi.json`, read once into something six emitters    *)
(* can walk.  A name of the document is the sequence of its words; the     *)
(* case it is written in is the document's convention (Pascal for shapes,  *)
(* camel for operations, snake for parameters and fields).  Descriptions,  *)
(* scopes and formats are left out.                                        *)
(***************************************************************************)
EXTENDS Naturals, FiniteSets, SequencesExt

None == <<>>

\* A schema as the document writes it.  Envelope is a $ref to `Items_<row>`,
\* whose own rows are `inside`.
Typed(types)          == [raw |-> "typed", types |-> types]
ListOf(items, types)  == [raw |-> "list", types |-> types, items |-> items]
RefTo(name)           == [raw |-> "ref", name |-> name]
Envelope(row, inside) == [raw |-> "envelope", name |-> row, inside |-> inside]
OneOf(branches)       == [raw |-> "oneOf", branches |-> branches]
Untyped               == [raw |-> "untyped"]

\* What a client can hold.
Scalar(kind) == [k |-> kind]
Unknown      == [k |-> "unknown"]
Array(of)    == [k |-> "array", of |-> of]
Named(name)  == [k |-> "ref", name |-> name]
Page(of)     == [k |-> "page", of |-> of]

Kinds == {"string", "int", "float", "bool"}

bare(schema) ==
    LET said == IF schema.raw \in {"typed", "list"} THEN schema.types ELSE <<>>
    IN  [type |-> SelectSeq(said, LAMBDA t : t # "null"), nullable |-> Contains(said, "null")]

RECURSIVE tyOf(_, _)
tyOf(schema, named) ==
    CASE schema.raw = "oneOf" ->
           LET real == SelectSeq(schema.branches, LAMBDA b : b # Typed(<<"null">>))
           IN  IF Len(real) = 1 THEN tyOf(real[1], named) ELSE Unknown
      [] schema.raw = "ref" -> Named(schema.name)
      [] schema.raw = "envelope" ->
           Page(IF schema.name \in named THEN Named(schema.name) ELSE tyOf(schema.inside, named))
      [] schema.raw = "list" -> Array(tyOf(schema.items, named))
      [] schema.raw = "typed" ->
           LET type == bare(schema).type
           IN  IF type # <<>> /\ type[1] \in Kinds THEN Scalar(type[1]) ELSE Unknown
      [] OTHER -> Unknown

-------------------------------------------------------------------------------
\* A shape: what it is composed of (another shape, or a part written inline),
\* and its own properties in order.  An alias is a scalar wearing a name.
Shape(allOf, properties) == [alias |-> FALSE, allOf |-> allOf, properties |-> properties]
Alias(schema)            == [alias |-> TRUE, is |-> schema]
Composed(name)           == [inline |-> FALSE, name |-> name]
Inline(shape)            == [inline |-> TRUE, shape |-> shape]

isAlias(shape) == shape.alias

\* Defect: a type that admits null does not make its field optional.
FieldAsRequired(property, by, named) ==
    [name |-> property.name, ty |-> tyOf(property.is, named), by |-> by, optional |-> ~property.required]

\* One property's field; `by` is the shape that declares it, for the properties.
Field(property, by, named) ==
    [name |-> property.name, ty |-> tyOf(property.is, named), by |-> by,
     optional |-> bare(property.is).nullable \/ ~property.required]

\* Defect: a field declared again stands there twice.
DeclareAnyway(out, field) == Append(out, field)

\* A field a shape declares itself takes the place of the one it inherited.
Declare(out, field) ==
    LET already == SelectInSeq(out, LAMBDA f : f.name = field.name)
    IN  IF already > 0 THEN [out EXCEPT ![already] = field] ELSE Append(out, field)

\* The fields of one shape, and which shapes have been merged by then: `seen`
\* is one set for the whole walk.
RECURSIVE fieldsOf(_, _, _, _)
fieldsOf(shape, by, shapes, seen) ==
    LET merge(sofar, part) ==
          IF part.inline
            THEN LET got == fieldsOf(part.shape, by, shapes, sofar.seen)
                 IN  [got EXCEPT !.fields = sofar.fields \o @]
            ELSE IF part.name \in sofar.seen THEN sofar
            ELSE LET got == fieldsOf(shapes[part.name], part.name, shapes, sofar.seen \cup {part.name})
                 IN  [got EXCEPT !.fields = sofar.fields \o @]
        base == FoldLeft(merge, [fields |-> <<>>, seen |-> seen], shape.allOf)
        own  == [i \in DOMAIN shape.properties |-> Field(shape.properties[i], by, DOMAIN shapes)]
    IN  [base EXCEPT !.fields = FoldLeft(Declare, @, own)]

-------------------------------------------------------------------------------
\* The first 2xx a document declares is the one that carries the answer.
success(responses, named) ==
    LET codes  == {c \in DOMAIN responses : c \in 200 .. 299}
        status == IF codes = {} THEN 200 ELSE CHOOSE c \in codes : \A d \in codes : c <= d
    IN  IF status \in codes /\ responses[status] # None THEN <<tyOf(responses[status][1], named)>> ELSE None

\* Only a body the document refers to by name is seen; a parameter that is not
\* in the path is in the query.
Operation(op, named) ==
    LET ok    == success(op.responses, named)
        asks(name) == \E i \in DOMAIN op.parameters : op.parameters[i].name = name
    IN  [id |-> op.id, method |-> op.verb, path |-> op.path,
         tag    |-> IF op.tags = <<>> THEN <<"api">> ELSE op.tags[1],
         params |-> [i \in DOMAIN op.parameters |->
                      [name     |-> op.parameters[i].name,
                       required |-> op.parameters[i].required,
                       ty       |-> tyOf(op.parameters[i].is, named),
                       where    |-> IF op.parameters[i].in = "path" THEN "path" ELSE "query"]],
         body   |-> IF op.body # None /\ op.body[1].is.raw = "ref"
                      THEN <<[model |-> op.body[1].is.name, required |-> op.body[1].required]>>
                      ELSE None,
         ok     |-> ok,
         pages  |-> ok # None /\ ok[1].k = "page" /\ asks(<<"offset">>) /\ asks(<<"limit">>)]

\* The document's names in alphabetical order, which is what `sort` goes by.
Before(alphabet, a, b) ==
    LET at(name) == SelectInSeq(alphabet, LAMBDA n : n = name)
    IN  at(a.tag) < at(b.tag) \/ (a.tag = b.tag /\ at(a.id) < at(b.id))

read(doc) ==
    LET named  == DOMAIN doc.shapes
        isA(n) == isAlias(doc.shapes[n])
    IN  [aliases |-> SelectSeq(doc.names, isA),
         models  |-> LET shaped == SelectSeq(doc.names, LAMBDA n : ~isA(n))
                     IN  [i \in DOMAIN shaped |->
                           [name   |-> shaped[i],
                            fields |-> fieldsOf(doc.shapes[shaped[i]], shaped[i], doc.shapes, {}).fields]],
         tags    |-> doc.tags,
         ops     |-> SetToSortSeq({Operation(op, named) : op \in doc.ops},
                                  LAMBDA a, b : Before(doc.alphabet, a, b))]

\* Every operation, grouped by the tag it was filed under: the declared tags
\* first, the others as they come, and none that is empty.
byTag(api) ==
    LET file(known, op) ==
          LET at == SelectInSeq(known, LAMBDA g : g.tag = op.tag)
          IN  IF at > 0 THEN [known EXCEPT ![at].ops = Append(@, op)]
                        ELSE Append(known, [tag |-> op.tag, ops |-> <<op>>])
        declared == [i \in DOMAIN api.tags |-> [tag |-> api.tags[i], ops |-> <<>>]]
    IN  SelectSeq(FoldLeft(file, declared, api.ops), LAMBDA g : g.ops # <<>>)

-------------------------------------------------------------------------------
(* What the document says, for the properties *)

\* What a value may be, `null` and all.
RECURSIVE Admits(_)
Admits(schema) ==
    CASE schema.raw = "oneOf"    -> UNION {Admits(schema.branches[i]) : i \in DOMAIN schema.branches}
      [] schema.raw = "ref"      -> {<<"shape", schema.name>>}
      [] schema.raw = "envelope" -> {<<"page", v>> : v \in Admits(schema.inside)}
      [] schema.raw = "list"     -> {<<"list", v>> : v \in Admits(schema.items)}
                                    \cup (IF bare(schema).nullable THEN {<<"null">>} ELSE {})
      [] schema.raw = "typed"    -> {<<schema.types[i]>> : i \in DOMAIN schema.types}
      [] OTHER                   -> {<<"object">>}

RECURSIVE Holds(_, _)
Holds(ty, value) ==
    CASE ty.k = "unknown" -> TRUE
      [] ty.k = "ref"     -> value = <<"shape", ty.name>>
      [] ty.k = "page"    -> value[1] = "page" /\ Holds(ty.of, value[2])
      [] ty.k = "array"   -> value[1] = "list" /\ Holds(ty.of, value[2])
      [] OTHER            -> value = <<ty.k>>

\* Every shape a shape is composed of, itself included.
RECURSIVE Reach(_, _)
Reach(shapes, found) ==
    LET more == found \cup UNION {{p.name : p \in {q \in Range(shapes[n].allOf) : ~q.inline}} : n \in found}
    IN  IF more = found THEN found ELSE Reach(shapes, more)

OwnNames(shape) == {shape.properties[i].name : i \in DOMAIN shape.properties}
Declares(shape) == OwnNames(shape) \cup UNION {OwnNames(p.shape) : p \in {q \in Range(shape.allOf) : q.inline}}
===============================================================================
