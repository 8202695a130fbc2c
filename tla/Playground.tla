------------------------------ MODULE Playground ------------------------------
(***************************************************************************)
(* The playground's page: an operation is picked, its form is filled, and  *)
(* one request at a time leaves the browser.  What came back is shown      *)
(* under whatever is picked by then.                                       *)
(***************************************************************************)
EXTENDS Naturals, FiniteSets

CONSTANT Ops    \* the operations the page lists; every one has a required field

\* What the constant may be; whoever composes the component assumes it.
PlaygroundConstants == 0 \notin Ops

VARIABLES
    linked,     \* the operation `?op=` names; 0 for none
    chosen, filled, answer, failed, running,
    signedIn,
    flying,     \* the requests on their way
    switched    \* something else was picked while one was

vars == <<linked, chosen, filled, answer, failed, running, signedIn, flying, switched>>

Requests == [op : Ops, filled : BOOLEAN, token : BOOLEAN]

TypeOK ==
    /\ {linked, chosen, answer} \subseteq Ops \cup {0}
    /\ {filled, failed, running, signedIn, switched} \subseteq BOOLEAN
    /\ flying \subseteq Requests

Init ==
    /\ linked \in Ops \cup {0} /\ chosen = 0 /\ filled = FALSE
    /\ answer = 0 /\ failed = FALSE /\ running = FALSE
    /\ signedIn \in BOOLEAN
    /\ flying = {} /\ switched = FALSE

\* Defect: the answer stays on the page.
pickKeepingTheAnswer(op) ==
    /\ chosen' = op /\ filled' = FALSE
    /\ switched' = (running \/ (switched /\ flying # {}))
    /\ UNCHANGED <<linked, answer, failed, running, signedIn, flying>>

\* pick: everything but `running` starts afresh.
pick(op) ==
    /\ chosen' = op /\ filled' = FALSE
    /\ answer' = 0 /\ failed' = FALSE
    /\ switched' = (running \/ (switched /\ flying # {}))
    /\ UNCHANGED <<linked, running, signedIn, flying>>

\* The effect: a link names an operation, but only while none is chosen.
FollowLink == linked # 0 /\ chosen = 0 /\ pick(linked)
PickFromList(op) == pick(op)

Link(op) ==
    /\ linked' = op
    /\ UNCHANGED <<chosen, filled, answer, failed, running, signedIn, flying, switched>>

Fill ==
    /\ chosen # 0 /\ filled' \in BOOLEAN
    /\ UNCHANGED <<linked, chosen, answer, failed, running, signedIn, flying, switched>>

ready == chosen # 0 /\ filled

\* The button, and what run() does up to its await.
run ==
    /\ ready /\ ~running /\ signedIn
    /\ running' = TRUE /\ failed' = FALSE /\ answer' = 0
    /\ flying' = flying \cup {[op |-> chosen, filled |-> filled, token |-> signedIn]}
    /\ switched' = FALSE
    /\ UNCHANGED <<linked, chosen, filled, signedIn>>

\* The answer, whatever is chosen by then; or the browser would not send it.
Came(request) ==
    /\ \/ answer' = request.op /\ UNCHANGED failed
       \/ failed' = TRUE /\ UNCHANGED answer
    /\ running' = FALSE /\ flying' = flying \ {request}
    /\ UNCHANGED <<linked, chosen, filled, signedIn, switched>>

SignOut ==
    /\ signedIn /\ signedIn' = FALSE
    /\ UNCHANGED <<linked, chosen, filled, answer, failed, running, flying, switched>>

Next ==
    \/ FollowLink
    \/ \E op \in Ops : PickFromList(op) \/ Link(op)
    \/ Fill \/ run
    \/ \E request \in flying : Came(request)
    \/ SignOut

Spec == Init /\ [][Next]_vars
FairSpec == Spec /\ WF_vars(\E request \in flying : Came(request))

-------------------------------------------------------------------------------
\* The answer on the page is of the operation above it, unless another one was
\* picked while it was on its way; and there is one request at a time, with what
\* the form asks for and a token, whatever is picked, emptied or signed out of
\* meanwhile.
AnswerIsOfTheChosen ==
    /\ answer # 0 /\ answer # chosen => switched
    /\ Cardinality(flying) <= 1 /\ (flying # {} <=> running)
    /\ \A request \in flying : request.filled /\ request.token

\* The button comes back: a request does not run for ever.
SendComesBack == running ~> ~running
================================================================================
