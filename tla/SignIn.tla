-------------------------------- MODULE SignIn --------------------------------
(***************************************************************************)
(* The playground's sign-in: one browser tab, its sessionStorage, which    *)
(* outlives a page, its memory, which does not, and a provider that is not *)
(* in the repository.  The n-th press of the button makes the n-th state,  *)
(* verifier and challenge, and the code for that challenge is code n;      *)
(* code 0 is one that this tab never asked for.                            *)
(***************************************************************************)
EXTENDS Naturals, FiniteSets, SequencesExt

CONSTANT MaxStarts      \* presses of "Sign in"

\* What the constant may be; whoever composes the component assumes it.
SignInConstants == MaxStarts \in Nat

VARIABLES
    at,         \* the document in the tab: "page", "callback" or "consent"
    visit,      \* the code the callback's address carries, or NoCode
    leaving,    \* the attempt whose address location.href was given
    \* memory
    token,      \* the attempt the token came from
    asked,      \* the promise `asked`: "none", "pending", "good", "rejected"
    digesting,  \* the starts before their sessionStorage write
    waiting,    \* the starts that await the doors, in order
    finishing,  \* what finish() is about to present: {} or {[code, verifier]}
    exchanging, \* it was presented
    \* sessionStorage
    pending, stored, live,
    \* what has happened
    starts, opened, approved, spent, presented

memory == <<token, asked, digesting, waiting, finishing, exchanging>>
storage == <<pending, stored, live>>
past == <<starts, opened, approved, spent, presented>>
vars == <<at, visit, leaving, memory, storage, past>>

Attempts == 1 .. MaxStarts
NoCode == MaxStarts + 1     \* an error, or no code or no state in the address
Presentations == [code : 0 .. MaxStarts, verifier : Attempts]

TypeOK ==
    /\ at \in {"page", "callback", "consent"}
    /\ visit \in 0 .. NoCode /\ {leaving, token, pending, stored, starts} \subseteq 0 .. MaxStarts
    /\ asked \in {"none", "pending", "good", "rejected"}
    /\ {digesting, opened, approved, spent} \subseteq SUBSET Attempts /\ waiting \in Seq(Attempts)
    /\ finishing \subseteq Presentations /\ Cardinality(finishing) <= 1
    /\ {exchanging, live} \subseteq BOOLEAN
    /\ presented \in Seq(Presentations)

Init ==
    /\ at = "page" /\ visit = 0 /\ leaving = 0
    /\ token = 0 /\ asked = "none" /\ digesting = {} /\ waiting = <<>>
    /\ finishing = {} /\ exchanging = FALSE
    /\ pending = 0 /\ stored = 0 /\ live = TRUE
    /\ starts = 0 /\ opened = {} /\ approved = {} /\ spent = {} /\ presented = <<>>

-------------------------------------------------------------------------------
(* Documents *)

\* Signed's constructor: a stored token past its hour is dropped.
constructed ==
    /\ stored' = IF live THEN stored ELSE 0
    /\ token' = stored' /\ live' = TRUE
    /\ digesting' = {} /\ waiting' = <<>> /\ exchanging' = FALSE /\ leaving' = 0

\* Defects: PENDING is not dropped; the state that came back is not compared.
mountedKeeping(code) ==
    /\ UNCHANGED pending
    /\ finishing' = IF code = pending /\ code # 0 THEN {[code |-> code, verifier |-> pending]} ELSE {}
    /\ asked' = IF finishing' = {} THEN "none" ELSE "pending"

mountedUnchecked(code) ==
    /\ pending' = IF code = NoCode THEN pending ELSE 0
    /\ finishing' = IF code # NoCode THEN {[code |-> code, verifier |-> pending]} ELSE {}
    /\ asked' = IF finishing' = {} THEN "none" ELSE "pending"

\* The callback mounts: it stops short of finish() at an error and at an address
\* without a code or a state, or runs it as far as its first await.
mounted(code) ==
    /\ pending' = IF code = NoCode THEN pending ELSE 0
    /\ finishing' = IF code = pending /\ code # 0 THEN {[code |-> code, verifier |-> pending]} ELSE {}
    /\ asked' = IF finishing' = {} THEN "none" ELSE "pending"

Load(document, code) ==
    /\ at' = document /\ visit' = code
    /\ constructed
    /\ IF document = "callback" THEN mounted(code)
       ELSE finishing' = {} /\ asked' = "none" /\ UNCHANGED pending
    /\ UNCHANGED past

\* The consent screen of attempt n: nothing of the site's is in memory.
Away(n) ==
    /\ at' = "consent" /\ visit' = n
    /\ leaving' = 0 /\ token' = 0 /\ asked' = "none" /\ digesting' = {} /\ waiting' = <<>>
    /\ finishing' = {} /\ exchanging' = FALSE
    /\ opened' = opened \cup {n}
    /\ UNCHANGED <<storage, starts, approved, spent, presented>>

Unload == leaving # 0 /\ Away(leaving)

\* The provider sends the reader back; the state goes with the code.
Approve ==
    /\ at = "consent"
    /\ at' = "callback" /\ visit' = visit
    /\ constructed /\ mounted(visit)
    /\ approved' = approved \cup {visit}
    /\ UNCHANGED <<opened, starts, spent, presented>>

Deny == at = "consent" /\ Load("callback", NoCode)

\* The reader comes back without an answer, reloads, or opens an address again
\* that the history holds; or somebody else's link, whose state is not ours, or the
\* callback's bare address.
Return == at = "consent" /\ Load("page", 0)
Reload == at # "consent" /\ Load(at, visit)
Revisit(n) == Load("callback", n) /\ n \in approved \cup {0, NoCode}
ForthToConsent(n) == at # "consent" /\ n \in opened /\ Away(n)

\* A link within the site keeps the memory.
ToPage ==
    /\ at = "callback" /\ at' = "page" /\ visit' = 0
    /\ UNCHANGED <<leaving, memory, storage, past>>

-------------------------------------------------------------------------------
(* start, finish and out *)

Press ==
    /\ at = "page" /\ token = 0 /\ starts < MaxStarts
    /\ starts' = starts + 1
    /\ digesting' = digesting \cup {starts'}
    /\ UNCHANGED <<at, visit, leaving, token, asked, waiting, finishing, exchanging, storage,
                   opened, approved, spent, presented>>

\* PENDING is written, over what stood there, and the doors are asked for.
Digested(n) ==
    /\ n \in digesting /\ digesting' = digesting \ {n}
    /\ pending' = n
    /\ waiting' = IF asked \in {"none", "pending"} THEN Append(waiting, n) ELSE waiting
    /\ asked' = IF asked = "none" THEN "pending" ELSE asked
    /\ leaving' = IF asked = "good" THEN n ELSE leaving
    /\ UNCHANGED <<at, visit, token, finishing, exchanging, stored, live, past>>

\* The discovery document came: the starts go where it says, one after another.
DoorsOpen ==
    /\ asked = "pending" /\ asked' = "good"
    /\ leaving' = IF waiting = <<>> THEN leaving ELSE waiting[Len(waiting)]
    /\ waiting' = <<>>
    /\ UNCHANGED <<at, visit, token, digesting, finishing, exchanging, storage, past>>

\* An answer that is no document is asked for again next time; a request without
\* an answer, or a body that is no JSON, stays the answer.
DoorsShut ==
    /\ asked = "pending"
    /\ asked' \in {"none", "rejected"}
    /\ waiting' = <<>> /\ finishing' = {}
    /\ UNCHANGED <<at, visit, leaving, token, digesting, exchanging, storage, past>>

FinishFails ==
    /\ finishing # {} /\ (asked = "rejected" \/ exchanging)
    /\ finishing' = {} /\ exchanging' = FALSE
    /\ UNCHANGED <<at, visit, leaving, token, asked, digesting, waiting, storage, past>>

Present ==
    /\ finishing # {} /\ asked = "good" /\ ~exchanging
    /\ exchanging' = TRUE
    /\ \E p \in finishing : presented' = Append(presented, p)
    /\ UNCHANGED <<at, visit, leaving, token, asked, digesting, waiting, finishing, storage,
                   starts, opened, approved, spent>>

\* The exchange: the code is spent whether or not its answer arrives.
Exchanged ==
    /\ exchanging /\ \E p \in finishing :
         /\ p.code = p.verifier /\ p.code \notin spent
         /\ spent' = spent \cup {p.code}
         /\ \/ token' = p.code /\ stored' = p.code /\ live' = TRUE /\ at' = "page" /\ visit' = 0
            \/ UNCHANGED <<token, stored, live, at, visit>>
    /\ finishing' = {} /\ exchanging' = FALSE
    /\ UNCHANGED <<leaving, asked, digesting, waiting, pending, starts, opened, approved, presented>>

\* Defect: the token stays in sessionStorage.
outOfMemory ==
    /\ at = "page" /\ token # 0
    /\ token' = 0
    /\ UNCHANGED <<at, visit, leaving, asked, digesting, waiting, finishing, exchanging, storage, past>>

out ==
    /\ at = "page" /\ token # 0
    /\ token' = 0 /\ stored' = 0
    /\ UNCHANGED <<at, visit, leaving, asked, digesting, waiting, finishing, exchanging, pending, live, past>>

Lapse ==
    /\ stored # 0 /\ live /\ live' = FALSE
    /\ UNCHANGED <<at, visit, leaving, memory, pending, stored, past>>

Next ==
    \/ Unload \/ Approve \/ Deny \/ Return \/ Reload \/ ToPage
    \/ \E n \in 0 .. NoCode : Revisit(n) \/ ForthToConsent(n) \/ Digested(n)
    \/ Press \/ DoorsOpen \/ DoorsShut \/ FinishFails \/ Present \/ Exchanged
    \/ out \/ Lapse

Spec == Init /\ [][Next]_vars

-------------------------------------------------------------------------------
\* However the reader goes back and forth, a code is presented once, and only
\* with the verifier of the attempt it was issued for: PENDING is dropped before
\* the exchange and the state compared ("pressing back does not return to a
\* spent code").  The attempt the tab leaves for is the one PENDING holds, however
\* many presses wait for one discovery document.
EachCodeOnce ==
    /\ \A i \in 1 .. Len(presented) : presented[i].code = presented[i].verifier
    /\ \A i, j \in 1 .. Len(presented) : presented[i].code = presented[j].code => i = j
    /\ leaving # 0 => pending = leaving

\* What a page shows is what a reload within the hour would show: the token in
\* memory is the one in sessionStorage, and there is none where there is none.
ReloadKeepsTheSignIn == at # "consent" => token = stored
================================================================================
