------------------------------ MODULE DeviceFlow ------------------------------
(***************************************************************************)
(* awaitDevice: a poller that waits for somebody at another screen, against *)
(* a token endpoint that is not in the repository.  Time is counted.  The   *)
(* client's timers are punctual; an answer takes the time it takes.         *)
(***************************************************************************)
EXTENDS Naturals

CONSTANTS
    Intervals,  \* what a caller passes as `interval`, which need not be the endpoint's
    Floor,      \* the time between two polls that the endpoint asks for
    More,       \* what a slow_down adds to the wait
    Expiry      \* when the device code runs out

\* What the constants may be; whoever composes the component assumes it.
DeviceFlowConstants == Intervals \subseteq Nat /\ {Floor, More, Expiry} \subseteq Nat

VARIABLES
    poller,    \* TypeScript takes a signal; it and Python take an interval of 0 as it is
    interval, wait, wakeAt, phase, aborted,
    now,
    decision,   \* what the person pressed
    lastPoll, hurried,      \* when the last poll left, and whether too soon
    slowdowns, heardAfter,  \* polls told to slow down, and polls that met the decision
    redeemed, faults

vars == <<poller, interval, wait, wakeAt, phase, aborted, now, decision,
          lastPoll, hurried, slowdowns, heardAfter, redeemed, faults>>
given == <<poller, interval>>
timer == <<wait, wakeAt>>
polls == <<lastPoll, hurried>>
counts == <<slowdowns, heardAfter, redeemed, faults>>

Ends == {"tokens", "access_denied", "expired_token", "error", "aborted"}

TypeOK ==
    /\ poller \in {"ts", "py", "clamped"} /\ interval \in Intervals
    /\ {wait, wakeAt, now, lastPoll, slowdowns, heardAfter, faults} \subseteq Nat
    /\ {aborted, hurried, redeemed} \subseteq BOOLEAN
    /\ phase \in {"asleep", "asking"} \cup Ends
    /\ decision \in {"none", "approved", "denied"}

Clamped(i) == IF poller = "clamped" /\ i = 0 THEN 1 ELSE i

Init ==
    /\ poller \in {"ts", "py", "clamped"} /\ interval \in Intervals
    /\ wait = Clamped(interval) /\ wakeAt = wait
    /\ phase = "asleep" /\ aborted = FALSE /\ now = 0
    /\ decision = "none" /\ lastPoll = 0 /\ hurried = FALSE
    /\ slowdowns = 0 /\ heardAfter = 0 /\ redeemed = FALSE /\ faults = 0

-------------------------------------------------------------------------------
(* The poller *)

\* The signal is looked at on both sides of the sleep.
Wake ==
    /\ phase = "asleep" /\ now >= wakeAt
    /\ IF aborted
         THEN phase' = "aborted" /\ UNCHANGED polls
         ELSE phase' = "asking" /\ lastPoll' = now /\ hurried' = (now - lastPoll < Floor)
    /\ UNCHANGED <<given, timer, aborted, now, decision, counts>>

Sleeps(longer) ==
    /\ phase' = IF aborted THEN "aborted" ELSE "asleep"
    /\ wait' = wait + longer
    /\ wakeAt' = now + wait'

\* Defect: a denial is taken for "not yet".
TakesDenialForPending(answer) ==
    \/ answer \in {"authorization_pending", "access_denied"} /\ Sleeps(0)
    \/ answer = "slow_down" /\ Sleeps(More)
    \/ answer \in Ends \ {"access_denied"} /\ phase' = answer /\ UNCHANGED timer

\* What the poller makes of an answer: two of them mean going on.
Takes(answer) ==
    \/ answer = "authorization_pending" /\ Sleeps(0)
    \/ answer = "slow_down" /\ Sleeps(More)
    \/ answer \in Ends /\ phase' = answer /\ UNCHANGED timer

Abort ==
    /\ poller = "ts" /\ ~aborted /\ phase \notin Ends
    /\ aborted' = TRUE
    /\ UNCHANGED <<given, timer, phase, now, decision, polls, counts>>

-------------------------------------------------------------------------------
(* The endpoint, the person and the clock *)

Says ==
    IF now >= Expiry THEN "expired_token"
    ELSE [none |-> "authorization_pending", denied |-> "access_denied", approved |-> "tokens"][decision]

Meets == heardAfter' = heardAfter + IF decision # "none" /\ now < Expiry THEN 1 ELSE 0

Answered ==
    /\ phase = "asking"
    /\ Takes(Says)
    /\ Meets
    /\ redeemed' = (redeemed \/ Says = "tokens")
    /\ UNCHANGED <<given, aborted, now, decision, polls, slowdowns, faults>>

SlowedDown ==
    /\ phase = "asking" /\ hurried
    /\ Takes("slow_down")
    /\ slowdowns' = slowdowns + 1
    /\ UNCHANGED <<given, aborted, now, decision, polls, heardAfter, redeemed, faults>>

\* A 5xx, or an answer lost on its way: thrown, and the flow with it.
Faulty ==
    /\ phase = "asking"
    /\ Takes("error")
    /\ faults' = faults + 1
    /\ \E answers \in BOOLEAN : redeemed' = (redeemed \/ (answers /\ Says = "tokens"))
    /\ UNCHANGED <<given, aborted, now, decision, polls, slowdowns, heardAfter>>

Press(what) ==
    /\ decision = "none" /\ now < Expiry
    /\ decision' = what
    /\ UNCHANGED <<given, timer, phase, aborted, now, polls, counts>>

Tick ==
    /\ \/ phase = "asleep" /\ now < wakeAt
       \/ phase = "asking" /\ now < Expiry
    /\ now' = now + 1
    /\ UNCHANGED <<given, timer, phase, aborted, decision, polls, counts>>

Hears == Answered \/ SlowedDown \/ Faulty

Next ==
    \/ Wake
    \/ Abort
    \/ Answered \/ SlowedDown \/ Faulty
    \/ \E what \in {"approved", "denied"} : Press(what)
    \/ Tick

Spec == Init /\ [][Next]_vars

-------------------------------------------------------------------------------
\* The decision is met by one poll at most, and the flow ends as it says: never
\* by polling on into the expiry "after the answer has already arrived", and
\* never without the tokens that were handed out, unless their answer was lost.
\* The waits settle: a poller that begins below the endpoint's interval is told
\* to slow down only as often as it takes to reach it, and one that begins at it
\* never is.
EndsAsDecided ==
    /\ heardAfter <= 1
    /\ phase = "tokens" => decision = "approved" /\ redeemed
    /\ phase = "access_denied" => decision = "denied"
    /\ phase = "expired_token" => heardAfter = 0
    /\ redeemed => phase = "tokens" \/ faults > 0
    /\ slowdowns > 0 => (slowdowns - 1) * More + Clamped(interval) < Floor

\* The flow ends, if only when the code runs out.
FlowEnds == <>(phase \in Ends)
================================================================================
