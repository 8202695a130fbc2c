------------------------------- MODULE Pacing -------------------------------
(***************************************************************************)
(* How the six transports pace themselves: what a call does with a 429, a  *)
(* 5xx and silence, against the api's limiter, which is not in the         *)
(* repository.  The limiter counts the requests of one application and     *)
(* person in a window, serves Limit of them, and tells the others how many *)
(* seconds are left until the window turns; the edge in front of it may    *)
(* refuse a request without saying that.  Once, the api is gone for a      *)
(* while: "a dropped socket during a deploy is a gap, not a refusal".      *)
(*                                                                         *)
(* Time is counted in ticks of 250 ms, the first backoff, and every time is *)
(* kept as the ticks that are left of it.  Timers and answers may be late   *)
(* by any number of ticks.                                                 *)
(***************************************************************************)
EXTENDS Integers, FiniteSets

CONSTANTS
    Callers,    \* one call each, made whenever they like
    Limit,      \* `x-ratelimit-limit`: the requests served in a window
    Window,     \* the length of a window
    Second,     \* the ticks in a second, the unit of the headers
    Retries,    \* the `retries` option
    MaxWait,    \* the `maxWait` option
    GapLength   \* how long the api is gone for

ASSUME PacingAssumption ==
    /\ IsFiniteSet(Callers)
    /\ {Limit, Window, Second, GapLength} \subseteq Nat \ {0}
    /\ {Retries, MaxWait} \subseteq Nat

\* The defaults: 65 s against a window of 60 s and the second it is rounded to.
ASSUME MaxWaitAssumption == MaxWait >= Window + Second

VARIABLES
    left,       \* the ticks until the limiter's window turns
    used,       \* the requests it served in this window
    refused,    \* the calls it refused in this window
    gap,        \* the ticks until the api is back; Absent while it is not gone yet
    rule,       \* which of the two ways of reading the headers runs
    call        \* call[c]: where c's call is, its locals, and what it has met

vars == <<left, used, refused, gap, rule, call>>

Absent == -1    \* no number: a header that is missing, a gap that is ahead
Headers == [retryAfter : Nat \cup {Absent}, reset : Nat \cup {Absent}]
Silent == [retryAfter |-> Absent, reset |-> Absent]

\* "asleep": not yet sent, or waiting to be sent again.  "limited", "failed",
\* "silent": a 429, a 5xx, or no answer is on its way to the caller.
Places == {"asleep", "limited", "failed", "silent", "served", "gaveup"}

\* sleep: what is left of it.  byWindow, byEdge, byGap: how often the call was
\* turned away, and by what.
CallRecords ==
    [at : Places, attempt : Nat, sleep : Nat, headers : Headers,
     byWindow : Nat, byEdge : Nat, byGap : Nat]

TypeOK ==
    /\ left \in 1 .. Window
    /\ used \in 0 .. Limit
    /\ refused \in SUBSET Callers
    /\ gap \in Nat \cup {Absent}
    /\ rule \in {"asked", "largest"}
    /\ call \in [Callers -> CallRecords]

Init ==
    /\ left = Window
    /\ used = 0
    /\ refused = {}
    /\ gap = Absent
    /\ rule \in {"asked", "largest"}
    /\ call = [c \in Callers |->
                [at |-> "asleep", attempt |-> 0, sleep |-> 0, headers |-> Silent,
                 byWindow |-> 0, byEdge |-> 0, byGap |-> 0]]

-----------------------------------------------------------------------------
(* Time, the limiter, the edge and the gap. *)

Less(n) == IF n > 0 THEN n - 1 ELSE n

Tick ==
    /\ IF left > 1
       THEN left' = left - 1 /\ UNCHANGED <<used, refused>>
       ELSE left' = Window /\ used' = 0 /\ refused' = {}
    /\ gap' = Less(gap)
    /\ call' = [c \in Callers |-> [call[c] EXCEPT !.sleep = Less(@)]]
    /\ UNCHANGED rule

GapBegins ==
    /\ gap = Absent
    /\ gap' = GapLength
    /\ UNCHANGED <<left, used, refused, rule, call>>

Gone == gap > 0

\* A request that arrives when its caller's sleep is over, or later.
Arrives(c) == call[c].at = "asleep" /\ call[c].sleep = 0

Serves(c) ==
    /\ Arrives(c)
    /\ ~Gone
    /\ used < Limit
    /\ used' = used + 1
    /\ call' = [call EXCEPT ![c].at = "served"]
    /\ UNCHANGED <<left, refused, gap, rule>>

\* What a call has been answered: by the limiter, by the edge, by nobody.
ByWindow(k, s) ==
    [k EXCEPT !.at = "limited", !.byWindow = @ + 1,
              !.headers = [retryAfter |-> s, reset |-> s]]
ByEdge(k) == [k EXCEPT !.at = "limited", !.byEdge = @ + 1, !.headers = Silent]
InGap(k, place) == [k EXCEPT !.at = place, !.byGap = @ + 1]

\* What is left of the window, in whole seconds and not less than it is.
Asked == {s \in left .. left + Second - 1 : s % Second = 0}

Refuses(c) ==
    /\ Arrives(c)
    /\ ~Gone
    /\ used = Limit
    /\ refused' = refused \cup {c}
    /\ \E s \in Asked : call' = [call EXCEPT ![c] = ByWindow(call[c], s)]
    /\ UNCHANGED <<left, used, gap, rule>>

\* The edge says nothing of when.  Bound: it refuses one request.
EdgeRefuses(c) ==
    /\ Arrives(c)
    /\ \A d \in Callers : call[d].byEdge = 0
    /\ call' = [call EXCEPT ![c] = ByEdge(call[c])]
    /\ UNCHANGED <<left, used, refused, gap, rule>>

\* In the gap: a 502 from the proxy, or a socket nobody answers.
FallsInTheGap(c) ==
    /\ Arrives(c)
    /\ Gone
    /\ \E place \in {"failed", "silent"} :
        call' = [call EXCEPT ![c] = InGap(call[c], place)]
    /\ UNCHANGED <<left, used, refused, gap, rule>>

-----------------------------------------------------------------------------
(* The transports. *)

Smaller(a, b) == IF a < b THEN a ELSE b
Larger(a, b) == IF a > b THEN a ELSE b

\* a ?? b
Else(a, b) == IF a = Absent THEN b ELSE a

\* Defect: the second is the most that is waited, and not the least.
AskedAtMost(h) == Smaller(Second, Else(h.retryAfter, Else(h.reset, Second)))

\* TypeScript and Python: Retry-After, or else the reset, or else a second.
AskedFirst(h) == Larger(Second, Else(h.retryAfter, Else(h.reset, Second)))

\* C++, Rust, C# and Kotlin: whichever is the longest.
Largest(h) == Larger(Larger(Else(h.retryAfter, 0), Else(h.reset, Second)), Second)

\* min(250 ms * 2^attempt, 4 s)
Backoff(attempt) == IF attempt >= 4 THEN 16 ELSE <<1, 2, 4, 8>>[attempt + 1]

\* The same defaults: 65 s against a longest backoff of 4 s.
ASSUME BackoffAssumption == \A n \in 0 .. Retries - 1 : Backoff(n) <= MaxWait

\* Defect: every refusal is waited out like a 5xx.
BackoffAlways(k) == Backoff(k.attempt)

\* How long the call sleeps after what it was answered.
Wait(k) ==
    IF k.at # "limited" THEN Backoff(k.attempt)
    ELSE IF rule = "asked" THEN AskedFirst(k.headers) ELSE Largest(k.headers)

TurnedAway(c) == call[c].at \in {"limited", "failed", "silent"}

\* Defect: the last attempt is not made.
WorthAnotherButOne(k) == k.attempt + 1 < Retries

\* Defect: seconds are compared with what is left of maxWait in ticks.
WorthAnotherInSeconds(k) ==
    /\ k.attempt < Retries
    /\ k.at # "silent" => Wait(k) * Second <= MaxWait

\* An attempt is left, and the wait is not too long; a socket that nobody
\* answered is not held to maxWait.
WorthAnother(k) ==
    /\ k.attempt < Retries
    /\ k.at # "silent" => Wait(k) <= MaxWait

Asleep(k) ==
    [k EXCEPT !.at = "asleep", !.sleep = Wait(k), !.attempt = @ + 1, !.headers = Silent]

Sleeps(c) ==
    /\ TurnedAway(c)
    /\ WorthAnother(call[c])
    /\ call' = [call EXCEPT ![c] = Asleep(call[c])]
    /\ UNCHANGED <<left, used, refused, gap, rule>>

GivesUp(c) ==
    /\ TurnedAway(c)
    /\ ~WorthAnother(call[c])
    /\ call' = [call EXCEPT ![c].at = "gaveup"]
    /\ UNCHANGED <<left, used, refused, gap, rule>>

Next ==
    \/ Tick
    \/ GapBegins
    \/ \E c \in Callers :
        \/ Serves(c) \/ Refuses(c) \/ EdgeRefuses(c) \/ FallsInTheGap(c)
        \/ Sleeps(c) \/ GivesUp(c)

Spec == Init /\ [][Next]_vars

-----------------------------------------------------------------------------
(* Properties *)

\* "Waiting exactly that long is neither too little (and refused again)": no
\* window refuses the same call twice, however late the call learns of it.
NotRefusedTwice ==
    [][\A c \in Callers : call'[c].byWindow # call[c].byWindow => c \notin refused]_vars

\* "Read the header and wait exactly that long, then try again": a burst of as
\* many calls as the attempts' windows can serve gets through.  A call that the
\* limiter alone turned away gives up only when there were more than that.
BurstGetsThrough ==
    \A c \in Callers :
        call[c].at = "gaveup" /\ call[c].byEdge + call[c].byGap = 0
            => Cardinality(Callers) > Limit * (Retries + 1)

\* The time that the backoffs of n retries take together.
Waited(n) == IF n < 5 THEN <<0, 1, 3, 7, 15>>[n + 1] ELSE 15 + 16 * (n - 4)

\* "A gap, not a refusal": a gap no longer than the backoffs together is not the
\* end of a call that met nothing else.
RidesOutTheGap ==
    \A c \in Callers :
        call[c].at = "gaveup" /\ call[c].byEdge + call[c].byWindow = 0
            => GapLength > Waited(Retries)
-----------------------------------------------------------------------------
(* The invariant behind them. *)

Served == {c \in Callers : call[c].at = "served"}

\* The headers on their way ask for no more than a window and its rounding.
AsksForAWindow(k) ==
    k.at = "limited" =>
        /\ k.headers.retryAfter = k.headers.reset
        /\ k.headers.reset <= Window + Second

\* A call this window refused is not sent before it turns.
WaitsForTheTurn(c) ==
    c \in refused =>
        \/ call[c].at = "limited" /\ call[c].headers.reset >= left
        \/ call[c].at = "asleep" /\ call[c].sleep >= left
        \/ call[c].at = "gaveup"

\* Behind every refusal of a call is a window that served as many as it could.
BehindFullWindows(c) ==
    /\ c \in refused => used = Limit /\ Limit * call[c].byWindow <= Cardinality(Served)
    /\ c \notin refused => Limit * call[c].byWindow + used <= Cardinality(Served)

\* Every attempt but the one under way has been turned away, and what gave up
\* had none left, or met the gap or the edge.
CountsAttempts(k) ==
    LET turned == k.byWindow + k.byEdge + k.byGap
    IN  /\ k.at = "asleep" => k.attempt = turned
        /\ k.at \in {"limited", "failed", "silent", "gaveup"} => k.attempt + 1 = turned
        /\ k.at \in {"failed", "silent"} => k.byGap > 0
        /\ k.at = "gaveup" /\ k.byEdge + k.byGap = 0 => k.attempt >= Retries

Paced(c) ==
    /\ AsksForAWindow(call[c])
    /\ WaitsForTheTurn(c)
    /\ BehindFullWindows(c)
    /\ CountsAttempts(call[c])

IInv == TypeOK /\ \A c \in Callers : Paced(c)
=============================================================================
