------------------------------- MODULE Generator -------------------------------
(***************************************************************************)
(* The generator as a function of one document, beside the way from the    *)
(* contract to the registries: each behaviour is one or the other.  What   *)
(* Release says of its own states is checked as it stands there.           *)
(***************************************************************************)
EXTENDS Release

CONSTANT Documents  \* what the server may answer

VARIABLES
    flow,               \* which of the two this behaviour is
    doc, api, clients   \* of Generate

documentVars == <<doc, api, clients>>
generatorVars == <<flow, documentVars, vars>>

Reading == INSTANCE Generate

GeneratorInit ==
    /\ Init
    /\ \/ flow = "document" /\ Reading!Init
       \/ flow = "release" /\ doc = Nothing /\ api = Nothing /\ clients = Nothing

OnlyReading   == flow = "document" /\ UNCHANGED <<flow, vars>>
OnlyReleasing == flow = "release" /\ UNCHANGED <<flow, documentVars>>

GeneratorNext == (OnlyReading /\ Reading!Next) \/ (OnlyReleasing /\ Next)

GeneratorSpec ==
    /\ GeneratorInit /\ [][GeneratorNext]_generatorVars
    /\ WF_generatorVars(OnlyReleasing /\ JobEnds)

-------------------------------------------------------------------------------
\* Stated in Generate: a composed shape is one flat object.
FlatAsOnTheWire == Reading!FlatAsOnTheWire

\* Stated in Generate: what may be sent in a field is what its type can hold.
HoldsWhatIsSent == Reading!HoldsWhatIsSent

\* Stated in Generate: the libraries are written in the emitters' order, every
\* operation of the document is one method of each, the same arguments send the
\* same request from all of them, and a walk asks every page with all its caller
\* gave; Python alone, and it always, sends another request for a slash in its path
\* and walks by the hundred for a limit of 0.
SixAskTheSame == Reading!TypeOK /\ Reading!SixAskTheSame

\* Stated in Generate: the arguments of a method, the members of a shape and the
\* shapes in a file of operations have names that their language can tell apart.
NamesStandApart == Reading!NamesStandApart

\* Stated in Generate: Python parses a shape wherever it stands, by a parser that
\* was defined before.
ParsesEveryShape == Reading!ParsesEveryShape
================================================================================
