--------------------------------- MODULE Walk ---------------------------------
(***************************************************************************)
(* A generated paginator, the `...All` beside every operation that answers *)
(* a page and takes a limit and an offset, against a list that moves while *)
(* it is read: rows are appended, inserted and removed between two pages.  *)
(* The rows are numbered as they come into being.  The caller takes the    *)
(* rows of a page at any pace, or stops; the list may move meanwhile.      *)
(***************************************************************************)
EXTENDS Naturals, FiniteSets, SequencesExt

CONSTANTS
    Queries,    \* Queries[o]: the query keys operation o passes on
    Limits,     \* the limits a caller asks for
    Firsts,     \* the offsets a caller starts from
    Longest,    \* the longest list a walk starts on
    Default,    \* the page size of a caller, and of a server, that names none
    Ceiling,    \* the longest page the api hands out
    MaxMoves    \* how often the list moves

\* What the constants may be; whoever composes a walk assumes it.
WalkConstants ==
    /\ Limits \subseteq Nat /\ Firsts \subseteq Nat
    /\ {Longest, MaxMoves} \subseteq Nat
    /\ {Default, Ceiling} \subseteq Nat \ {0}

VARIABLES
    list,       \* the rows that stand, in the api's order
    coming,     \* the number of the next row
    asked,      \* what the walk was begun with
    offset,     \* the paginator's `offset`
    page,       \* the page it holds; empty while it asks for the next
    yielded,    \* every row it has handed over
    phase,
    moves,      \* how the list moved, and how often
    base        \* the rows that stood when the walk began

vars == <<list, coming, asked, offset, page, yielded, phase, moves, base>>
moving == <<list, coming, moves>>

Ways == {"appended", "inserted", "removed"}

TypeOK ==
    /\ list \in Seq(Nat) /\ coming \in Nat /\ base \in Seq(Nat)
    /\ asked \in [op : DOMAIN Queries, window : Nat, first : Nat]
    /\ offset \in Nat /\ page \in Seq(Nat) /\ yielded \in Seq(Nat)
    /\ phase \in {"asking", "yielding", "done", "raised"}
    /\ moves \in [times : Nat, ways : SUBSET Ways]

\* `limit ?? 100` in five libraries, `limit or 100` in Python.
WindowOf(library, limit) == IF library = "python" /\ limit = 0 THEN Default ELSE limit

Init ==
    /\ \E n \in 0 .. Longest : list = [i \in 1 .. n |-> i] /\ coming = n + 1
    /\ \E o \in DOMAIN Queries, library \in {"typescript", "python"},
          limit \in Limits \cup {Default}, first \in Firsts :
         asked = [op |-> o, window |-> WindowOf(library, limit), first |-> first]
    /\ offset = asked.first
    /\ page = <<>> /\ yielded = <<>> /\ phase = "asking"
    /\ moves = [times |-> 0, ways |-> {}] /\ base = list

-------------------------------------------------------------------------------
(* The api *)

\* The api hands out at least one row and at most Ceiling of them at a time.
Served(limit) == IF limit = 0 THEN 1 ELSE IF limit > Ceiling THEN Ceiling ELSE limit

\* Only the keys the operation picks reach the api.
Answered ==
    LET given(key, value, other) == IF key \in Queries[asked.op] THEN value ELSE other
        from == given("offset", offset, 0)
        to   == from + Served(given("limit", asked.window, Default))
    IN  SubSeq(list, from + 1, IF to < Len(list) THEN to ELSE Len(list))

Moved(way) ==
    /\ moves.times < MaxMoves
    /\ moves' = [times |-> moves.times + 1, ways |-> moves.ways \cup {way}]
    /\ UNCHANGED <<asked, offset, page, yielded, phase, base>>

RowAppended ==
    /\ Moved("appended")
    /\ list' = Append(list, coming)
    /\ coming' = coming + 1

RowInserted(i) ==
    /\ Moved("inserted")
    /\ list' = InsertAt(list, i, coming)
    /\ coming' = coming + 1

RowRemoved(i) ==
    /\ Moved("removed")
    /\ list' = RemoveAt(list, i)
    /\ UNCHANGED coming

-------------------------------------------------------------------------------
(* The paginator *)

Ask ==
    /\ phase = "asking"
    /\ page' = Answered
    /\ phase' = "yielding"
    /\ UNCHANGED <<moving, asked, offset, yielded, base>>

\* The call raised, and the generator with it.
Raise ==
    /\ phase = "asking"
    /\ phase' = "raised"
    /\ UNCHANGED <<moving, asked, offset, page, yielded, base>>

\* The page is handed over; the walk stops, or goes on `step` further.
HandsOver(stops, step) ==
    /\ phase = "yielding"
    /\ yielded' = yielded \o page
    /\ page' = <<>>
    /\ IF stops THEN phase' = "done" /\ UNCHANGED offset
                ELSE phase' = "asking" /\ offset' = offset + step
    /\ UNCHANGED <<moving, asked, base>>

\* Defects: a full page ends it; a page overlaps the one before; the offset stays.
YieldOnePage     == HandsOver(Len(page) <= asked.window, Len(page))
YieldOverlapping == HandsOver(Len(page) < asked.window, IF Len(page) > 1 THEN Len(page) - 1 ELSE Len(page))
YieldInPlace     == HandsOver(Len(page) < asked.window, 0)

Yield == HandsOver(Len(page) < asked.window, Len(page))

Next ==
    \/ RowAppended
    \/ \E i \in 1 .. Len(list) : RowInserted(i) \/ RowRemoved(i)
    \/ Ask
    \/ Raise
    \/ Yield

Spec == Init /\ [][Next]_vars

\* The caller takes the next row, and the call it waits for ends.
FairSpec == Spec /\ WF_vars(Ask \/ Raise \/ Yield)

-------------------------------------------------------------------------------
Ended == phase \in {"done", "raised"}

\* `yielded` and the page in hand as one sequence.
Reached == yielded \o page

\* A walk over a list that loses no row ends only after every row that stood
\* behind its start: a row that comes in before it moves nothing out of its
\* reach ("the list can grow while it is being read").  For a limit the api
\* honours; see the hazards for the others.
SkipsNothing ==
    (phase = "done" /\ "removed" \notin moves.ways /\ asked.window \in 1 .. Ceiling)
        => \A i \in asked.first + 1 .. Len(base) : base[i] \in Range(yielded)

\* A walk over a list into which nothing is inserted hands over no row twice,
\* whatever is appended or removed, and whatever the limit.
RepeatsNothing == "inserted" \notin moves.ways => IsInjective(Reached)

\* A walk ends once the list has come to rest ("counting against a number from
\* the first page walks off the end"), unless it was begun with a limit of 0.
WalkEnds == asked.window > 0 => <>Ended
================================================================================
