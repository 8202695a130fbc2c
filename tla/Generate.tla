------------------------------- MODULE Generate -------------------------------
(***************************************************************************)
(* tools/generate.ts: a document is read once, and each emitter writes its *)
(* library from what was read.  The properties compare what was written    *)
(* with what the document says, not with what the reader made of it.       *)
(***************************************************************************)
EXTENDS Emitter

Typescript == INSTANCE EmitTypescript
Python     == INSTANCE EmitPython
Rust       == INSTANCE EmitRust
Kotlin     == INSTANCE EmitKotlin
Csharp     == INSTANCE EmitCsharp
Cpp        == INSTANCE EmitCpp

emitters == <<"typescript", "python", "rust", "kotlin", "csharp", "cpp">>
emit(library, document) ==
    CASE library = "typescript" -> Typescript!typescript(document)
      [] library = "python"     -> Python!python(document)
      [] library = "rust"       -> Rust!rust(document)
      [] library = "kotlin"     -> Kotlin!kotlin(document)
      [] library = "csharp"     -> Csharp!csharp(document)
      [] library = "cpp"        -> Cpp!cpp(document)

\* A keyword of each language that holds the names to one.
Keywords == [rust |-> Rust!KEYWORDS, csharp |-> Csharp!RESERVED, cpp |-> Cpp!KEYWORDS,
             typescript |-> {}, python |-> {}, kotlin |-> {}]

CONSTANT Documents      \* the documents the server may answer

VARIABLES
    doc,        \* openapi.json
    api,        \* what read() made of it; nothing before
    clients     \* the libraries written so far

vars == <<doc, api, clients>>

Init == doc \in Documents /\ api = None /\ clients = <<>>

Read ==
    /\ api = None
    /\ api' = <<read(doc)>>
    /\ UNCHANGED <<doc, clients>>

Emit ==
    /\ api # None /\ Len(clients) < Len(emitters)
    /\ clients' = Append(clients, emit(emitters[Len(clients) + 1], api[1]))
    /\ UNCHANGED <<doc, api>>

Next == Read \/ Emit

Spec == Init /\ [][Next]_vars

-------------------------------------------------------------------------------
(* Whether the reader sees all there is *)

TypeOK ==
    /\ api = None \/ DOMAIN api[1] = {"aliases", "models", "tags", "ops"}
    /\ Len(clients) <= Len(emitters)
    /\ \A i \in DOMAIN clients : clients[i].library = emitters[i]

Models == IF api = None THEN {} ELSE Range(api[1].models)

\* The declarations a shape is put together from.
Parts(name) == Reach(doc.shapes, {name})
Properties(name) ==
    LET own(shape) == Range(shape.properties)
    IN  own(doc.shapes[name]) \cup UNION {own(p.shape) : p \in {q \in Range(doc.shapes[name].allOf) : q.inline}}

\* Two parts of one allOf that declare a name each, in places of their own.
PartDeclares(part, by) ==
    IF part.inline THEN {<<n, by>> : n \in OwnNames(part.shape)}
    ELSE UNION {{<<n, s>> : n \in Declares(doc.shapes[s])} : s \in Reach(doc.shapes, {part.name})}
Disputed(name) ==
    UNION {UNION {{d[1] : d \in {e \in PartDeclares(doc.shapes[s].allOf[i], s) :
                       \E f \in PartDeclares(doc.shapes[s].allOf[j], s) : f[1] = e[1]}} :
                    <<i, j>> \in {<<a, b>> \in (DOMAIN doc.shapes[s].allOf) \X (DOMAIN doc.shapes[s].allOf) : a < b}} :
           s \in Parts(name)}

\* A composed shape is one flat object: every field of every shape it is composed
\* of is there, a field it declares itself is the one it declares, and none is
\* there twice, through diamonds and cycles, unless two parts of one allOf
\* dispute it.
FlatAsOnTheWire ==
    \A m \in Models :
        LET fields == m.fields
            names  == UNION {Declares(doc.shapes[s]) : s \in Parts(m.name)}
        IN  /\ {f.name : f \in Range(fields)} = names
            /\ \A n \in names \ Disputed(m.name) :
                 /\ Len(SelectSeq(fields, LAMBDA f : f.name = n)) = 1
                 /\ n \in OwnNames(doc.shapes[m.name])
                      => SelectSeq(fields, LAMBDA f : f.name = n)[1].by = m.name

\* A schema that admits one kind of thing, whatever is said of null.
Plain(schema) == schema.raw \in {"ref", "envelope", "list"}
                 \/ (schema.raw = "typed" /\ Range(schema.types) \cap Kinds # {})
NullLeftOut(schema) ==
    IF schema.raw = "oneOf"
      THEN LET real == SelectSeq(schema.branches, LAMBDA b : b # Typed(<<"null">>))
           IN  IF Len(real) = 1 THEN real[1] ELSE Untyped
      ELSE schema

\* What a client can hold of a field is what the document says may be sent: a
\* schema that says it is not read as unknown, an absent or null value is
\* optional, and every other value is one the type can hold.  Null inside a list,
\* a required field that is nullable by a oneOf, and a type of two kinds are
\* hazards of their own.
HoldsWhatIsSent ==
    \A m \in Models : \A f \in Range(m.fields) :
        \A p \in {q \in Properties(f.by) : q.name = f.name} :
            LET kinds == Admits(p.is) \ {<<"null">>}
                odd   == \/ p.is.raw = "oneOf" /\ p.required
                         \/ Cardinality(kinds) > 1 /\ NullLeftOut(p.is) # Untyped
                         \/ \E v \in kinds : v[1] = "list" /\ v[2] = <<"null">>
            IN  (f.name \notin Disputed(m.name) /\ ~odd)
                => /\ \A v \in kinds : Holds(f.ty, v)
                   /\ f.ty = Unknown => ~Plain(NullLeftOut(p.is))
                   /\ (<<"null">> \in Admits(p.is) \/ ~p.required) => f.optional

Groups(c)  == Range(c.operations.groups)
Methods(c) == UNION {Range(g.methods) : g \in Groups(c)}

\* Every operation of the document is one method of one group of every library,
\* and a client carries each group once under a name of its own: a tag nobody
\* declared loses none.
NoOperationLost ==
    \A c \in Range(clients) :
        LET groups == c.operations.groups
            filed  == {<<g.tag, m.id>> : <<g, m>> \in UNION {{<<h, n>> : n \in Range(h.methods)} : h \in Groups(c)}}
        IN  /\ filed = {<<IF op.tags = <<>> THEN <<"api">> ELSE op.tags[1], op.id>> : op \in doc.ops}
            /\ SumFunction([i \in DOMAIN groups |-> Len(groups[i].methods)]) = Cardinality(doc.ops)
            /\ IsInjective([i \in DOMAIN groups |-> groups[i].class])
            /\ [i \in DOMAIN groups |-> groups[i].class] = [i \in DOMAIN c.client |-> c.client[i].class]
            /\ IsInjective([i \in DOMAIN c.client |-> c.client[i].as])

-------------------------------------------------------------------------------
(* Whether six libraries say the same *)

\* What goes out when the arguments `given` are given, those of `slashed` with a slash
\* in their values: in the path the value of a parameter, by the argument that
\* stands there, as one segment or, with a slash that nothing escaped, as two.
Stands(m, id) == {a.of : a \in {b \in Range(m.args) : b.id = id}}
Segments(m, part, slashed) ==
    LET of == Stands(m, part[2])
    IN  IF part[1] = "text" THEN <<part>>
        ELSE IF part[3] /\ of \cap slashed # {} THEN <<<<"before", of>>, <<"behind", of>>>>
        ELSE <<<<"value", of>>>>
Sent(m, given, slashed) ==
    [verb  |-> m.verb,
     path  |-> FlattenSeq([i \in DOMAIN m.path |-> Segments(m, m.path[i], slashed)]),
     query |-> {<<q[1], Stands(m, q[2]) \cap given>> : q \in {r \in m.query : Stands(m, r[2]) \cap given # {}}},
     body  |-> IF m.body = None THEN {} ELSE Stands(m, m.body[1]) \cap given]

\* What the document says goes out then.
Asked(op, given) ==
    [verb  |-> op.verb,
     path  |-> [i \in DOMAIN op.path |->
                 IF op.path[i].hole THEN <<"value", {Of(op.path[i].name)}>>
                                    ELSE <<"text", op.path[i].name>>],
     query |-> {<<p.name, {Of(p.name)}>> :
                  p \in {q \in Range(op.parameters) : q.in = "query" /\ Of(q.name) \in given}},
     body  |-> IF op.body = None THEN {} ELSE {ForBody} \cap given]

\* A caller of any of the six who gives the same arguments sends the request the
\* document describes: each value where its name stands, under the wire's own
\* names, and nothing that was not given.  A value in the path is one segment of it,
\* also with a slash in it ("a name with a `/` in it would otherwise address a
\* different route"), in every library but Python, which sends another request just
\* then.  For bodies the document names and requires, and parameters of the path
\* and the query.
ArgumentsAskTheSame ==
    \A c \in Range(clients) : \A m \in Methods(c) : \A op \in {o \in doc.ops : o.id = m.id} :
        LET free == {Of(p.name) : p \in {q \in Range(op.parameters) : ~q.required}}
            needed == {Of(p.name) : p \in {q \in Range(op.parameters) : q.required}}
                        \cup (IF op.body = None THEN {} ELSE {ForBody})
            texts == {Of(p.name) : p \in {q \in Range(op.parameters) :
                                            q.in = "path" /\ q.is = Typed(<<"string">>)}}
        IN  ((\A p \in Range(op.parameters) : p.in # "header")
               /\ (op.body = None \/ (op.body[1].is.raw = "ref" /\ op.body[1].required)))
            => \A given \in {needed \cup more : more \in SUBSET free}, slashed \in SUBSET texts :
                  Sent(m, given, slashed) = Asked(op, given) <=> ~(c.library = "python" /\ slashed # {})

\* What a library insists on, the document requires, or it is the body; and a
\* required path parameter is insisted on by all but C++, whose struct has a
\* default for every member.  The arguments are told apart, and none is a keyword
\* of the language where the language has a way to write one.
ArgumentsAreWritable ==
    \A c \in Range(clients) : \A m \in Methods(c) : \A op \in {o \in doc.ops : o.id = m.id} :
        /\ \A a \in Range(m.args) : a.needed =>
             a.of = ForBody \/ \E p \in Range(op.parameters) : p.required /\ a.of = Of(p.name)
        /\ c.library # "cpp" =>
             \A p \in {q \in Range(op.parameters) : q.in = "path"} :
                 \E a \in Range(m.args) : a.needed /\ a.of = Of(p.name)
        /\ \A i, j \in DOMAIN m.args : m.args[i].id = m.args[j].id => i = j
        /\ \A a \in Range(m.args) : a.id.mark = "" =>
             (a.id.case = "lower" => a.id.words \notin Keywords[c.library])

\* A walk asks every page with all its caller gave, and for pages as long as the
\* caller said, or of a hundred rows: in Python a limit of 0 is none.
WalksKeepTheFilters ==
    \A c \in Range(clients) : \A m \in {n \in Methods(c) : n.walk # None} :
        /\ {a.of : a \in Range(m.args)} \ {ForBody} \subseteq m.walk[1].passes
        /\ \A limit \in Limits :
             m.walk[1].window[limit] = (IF limit = None THEN 100 ELSE limit[1])
               <=> ~(c.library = "python" /\ limit = <<0>>)

\* A shape that a method mentions is the shape: the file that mentions it has the
\* name, and declares nothing else by that name.  In Rust "the collision cannot
\* happen at all"; C# and C++ put a suffix on their groups; in the other three
\* it takes a document without a tag that is called like a shape.
ShapesKeepTheirNames ==
    \A c \in Range(clients) : \A name \in Typescript!referenced(api[1]) :
        LET file   == c.operations
            beside == file.beside \cup {g.class : g \in Groups(c)}
            tagged == \E op \in doc.ops : op.tags # <<>> /\ op.tags[1] = name
        IN  (c.library \in {"typescript", "python", "kotlin"} => ~tagged)
            => file.through \/ pascal(name) \in file.scope \ beside

\* A shape holds every field under the wire's own name in each library, and may
\* leave out the ones the document may; its members are told apart, none has a
\* name the language keeps for itself, C# has none named like the type around it,
\* and where the order matters none that is needed follows one that is not.
FieldsKeepTheirNames ==
    \A c \in Range(clients) : \A shape \in {s \in c.types : Disputed(s.name) = {}} :
        LET members == shape.members
        IN  /\ {<<m.wire, m.defaulted>> : m \in Range(members)} =
                 {<<f.name, f.optional>> : f \in UNION {Range(m.fields) : m \in {n \in Models : n.name = shape.name}}}
            /\ IsInjective([i \in DOMAIN members |-> members[i].id])
            /\ \A m \in Range(members) :
                 /\ m.id.mark = "" /\ m.id.case = "lower" => m.id.words \notin Keywords[c.library]
                 /\ c.library = "csharp" => m.id # pascal(shape.name)
            /\ c.library \in {"python", "kotlin", "csharp"} =>
                 \A i, j \in DOMAIN members : i < j /\ members[i].defaulted => members[j].defaulted

-------------------------------------------------------------------------------
(* Whether Python reads what it is sent *)

RECURSIVE Reads(_, _, _)
Reads(plan, ty, plain) ==
    CASE ty.k = "ref"   -> plan = IF ty.name \in plain THEN <<"as is">> ELSE <<"make", ty.name>>
      [] ty.k = "page"  -> plan[1] = "page" /\ Reads(plan[2], ty.of, plain)
      [] ty.k = "array" -> IF plan[1] = "each" THEN Reads(plan[2], ty.of, plain)
                           ELSE plan = <<"as is">> /\ mentioned(ty.of) \subseteq plain
      [] OTHER          -> plan = <<"as is">>

\* A shape inside a field or an answer is parsed wherever it stands, and an alias
\* nowhere; lists of lists and pages of lists are hazards of their own.
ParsesWhatItReads ==
    \A c \in {d \in Range(clients) : d.library = "python"} : \A reader \in c.readers :
        LET plain == Range(api[1].aliases)
            nested(ty) == ty.k \in {"array", "page"} /\ ty.of.k = "array"
            ty == reader[1]
        IN  ~nested(ty) /\ (ty.k = "array" => ~nested(ty.of)) => Reads(reader[2], ty, plain)

\* "Models, with anything a model parses into defined before it": each once, and
\* before whatever needs it, unless the two need each other.
RECURSIVE Needed(_)
Needed(found) ==
    LET more == found \cup UNION {Range(Python!NeedsOf(m)) : m \in {n \in Models : n.name \in found}}
    IN  IF more = found THEN found ELSE Needed(more)

ShapesInOrder ==
    \A c \in {d \in Range(clients) : d.library = "python"} :
        LET at(name) == SelectInSeq(c.order, LAMBDA n : n = name)
        IN  /\ Range(c.order) = {m.name : m \in Models} /\ IsInjective(c.order)
            /\ \A m \in Models : \A n \in Range(Python!NeedsOf(m)) \cap Range(c.order) :
                 m.name \notin Needed({n}) => at(n) < at(m.name)

-------------------------------------------------------------------------------
\* Every operation of the document is one method of each of the six libraries,
\* the same arguments send the same request from all of them, but for Python with a
\* slash in its path, and a walk asks every page with all its caller gave, but for
\* Python with a limit of 0.
SixAskTheSame == NoOperationLost /\ ArgumentsAskTheSame /\ WalksKeepTheFilters

\* The arguments of a method, the members of a shape and the shapes in a file of
\* operations have names that their language can tell apart.
NamesStandApart == ArgumentsAreWritable /\ FieldsKeepTheirNames /\ ShapesKeepTheirNames

\* Python parses a shape wherever it stands, by a parser that was defined before.
ParsesEveryShape == ParsesWhatItReads /\ ShapesInOrder
===============================================================================
