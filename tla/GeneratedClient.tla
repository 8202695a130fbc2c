---------------------------- MODULE GeneratedClient ----------------------------
(***************************************************************************)
(* The generated methods over the hand-written transport: either a walk    *)
(* over one of the paged operations, or calls of the ones that write.      *)
(***************************************************************************)
EXTENDS Operations, Naturals

CONSTANTS Limits, Firsts, Longest, Default, Ceiling, MaxMoves,
          Written, Retries, MaxCalls, MaxForeign

VARIABLES flow, list, coming, asked, offset, page, yielded, phase, moves, base,
          granted, stored, foreign, calls, place, attempt

walkVars  == <<list, coming, asked, offset, page, yielded, phase, moves, base>>
writeVars == <<granted, stored, foreign, calls, place, attempt>>
vars      == <<flow, walkVars, writeVars>>

Reading == INSTANCE Walk WITH Queries <- [o \in Paged |-> operations[o].query]

\* Acyka.user with every scope, and Acyka.app, which holds the two that are
\* about nobody.
AppScopes == {"catalog:read", "people:read"}

Changing == INSTANCE Writes WITH Ops <- [o \in Written |-> operations[o]], Granted <- {SCOPES, AppScopes}

ASSUME GeneratedClientAssumption == Reading!WalkConstants /\ Changing!WritesConstants

Init ==
    /\ flow \in {"reading", "writing"}
    /\ Reading!Init /\ Changing!Init
    /\ flow = "reading" => granted = SCOPES
    /\ flow = "writing" => list = <<>> /\ asked = [op |-> "listMyList", window |-> Default, first |-> 0]

Next ==
    \/ flow = "reading" /\ Reading!Next /\ UNCHANGED <<flow, writeVars>>
    \/ flow = "writing" /\ Changing!Next /\ UNCHANGED <<flow, walkVars>>

FairSpec ==
    /\ Init /\ [][Next]_vars
    /\ WF_vars(flow = "reading" /\ (Reading!Ask \/ Reading!Raise \/ Reading!Yield) /\ UNCHANGED <<flow, writeVars>>)
    /\ WF_vars(flow = "writing" /\ Changing!Wake /\ UNCHANGED <<flow, walkVars>>)
    /\ WF_vars(flow = "writing" /\ Changing!Hears /\ UNCHANGED <<flow, walkVars>>)

\* The two components are well typed.
TypeOK == Reading!TypeOK /\ Changing!TypeOK

\* Stated in Walk: a list that loses no row is read to its end.
SkipsNothing == Reading!SkipsNothing

\* Stated in Walk: a list into which nothing is inserted is read without
\* repeating a row.
RepeatsNothing == Reading!RepeatsNothing

\* Stated in Writes: a method that returns did what it is named for, one error says
\* that it was done and its answer could not be read, and a call did it no more often
\* than it had attempts.
DoneAsReported == Changing!DoneAsReported

\* Stated in Writes: what the last write left stands.
LastWriteStands == Changing!LastWriteStands

\* Stated in Walk and Writes: a walk begun with a limit above 0 ends, and so does
\* every call that writes.
WalksAndWritesEnd == (flow = "reading" => Reading!WalkEnds) /\ Changing!EveryWriteEnds
================================================================================
