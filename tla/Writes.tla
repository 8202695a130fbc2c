-------------------------------- MODULE Writes --------------------------------
(***************************************************************************)
(* The operations that change something, through the retry loop of         *)
(* Core.call, against an api that is not in the repository and a network   *)
(* that loses requests and answers and delays them: a request the client   *)
(* has given up on may still be carried out, after its retry or after the  *)
(* call has ended.  One caller makes one call after another; somebody else *)
(* may write to the same address in between.  Tokens are left out here     *)
(* (TsClient, LockedClients), so every request carries a live one.         *)
(***************************************************************************)
EXTENDS Naturals, Sequences

CONSTANTS
    Ops,            \* Ops[o]: verb, path, scope and answer of operation o
    Granted,        \* the scopes the token may carry: a set of sets
    Retries,        \* the `retries` option
    MaxCalls,       \* how many calls the caller makes
    MaxForeign      \* how many writes somebody else makes

\* What the constants may be; whoever composes the calls assumes it.
WritesConstants ==
    /\ \A o \in DOMAIN Ops : Ops[o].verb \in {"PUT", "POST", "DELETE"}
    /\ {Retries, MaxCalls, MaxForeign} \subseteq Nat

VARIABLES
    granted,    \* what the caller's token carries
    stored,     \* what the api holds at an address: whose write, or nothing
    foreign,    \* how many writes somebody else has made
    calls,      \* the calls made so far, the last one perhaps still under way
    place,      \* where the call under way stands
    attempt     \* which attempt of it that is

vars == <<granted, stored, foreign, calls, place, attempt>>

Addresses == {Ops[o].path : o \in DOMAIN Ops}
Absent == 0                 \* nothing is held there
Other  == MaxCalls + 1      \* somebody else's write

\* carried: how often the api did it.  travelling: the requests given up on
\* that have neither arrived nor been lost.  abandoned, failed: whether one of
\* its attempts met silence, or a 5xx.  Unread is every error over an answer that
\* came and could not be read.
CallRecords ==
    [op : DOMAIN Ops, carried : Nat, travelling : Nat, abandoned : BOOLEAN, failed : BOOLEAN,
     end : {"-", "answered", "Unread", "Forbidden", "NotFound", "RateLimited", "ServerError",
            "Unreachable"}]

\* "sent": the request is on its way.  "carried": the api did it, the answer is
\* on its way.  "asleep": before the next attempt.
TypeOK ==
    /\ granted \in Granted
    /\ stored \in [Addresses -> 0 .. MaxCalls + 1]
    /\ foreign \in 0 .. MaxForeign
    /\ calls \in Seq(CallRecords) /\ Len(calls) <= MaxCalls
    /\ place \in {"idle", "sent", "carried", "asleep"}
    /\ attempt \in 0 .. Retries

Init ==
    /\ granted \in Granted
    /\ stored = [a \in Addresses |-> Absent]
    /\ foreign = 0 /\ calls = <<>> /\ place = "idle" /\ attempt = 0

Last == Len(calls)
Path(c) == Ops[calls[c].op].path
Verb(c) == Ops[calls[c].op].verb

-------------------------------------------------------------------------------
(* The api *)

\* A DELETE of what is not there, or a call whose scope was not granted, is
\* refused on its merits.
Acceptable(c) ==
    /\ Ops[calls[c].op].scope \in granted
    /\ Verb(c) = "DELETE" => stored[Path(c)] # Absent

Effect(c) ==
    stored' = [stored EXCEPT ![Path(c)] = IF Verb(c) = "DELETE" THEN Absent ELSE c]

CarryOut ==
    /\ place = "sent" /\ Acceptable(Last)
    /\ Effect(Last)
    /\ calls' = [calls EXCEPT ![Last].carried = @ + 1]
    /\ place' = "carried"
    /\ UNCHANGED <<granted, foreign, attempt>>

\* A request the client gave up on arrives after all, or never does.
LateArrival(c) ==
    /\ calls[c].travelling > 0
    /\ IF Acceptable(c)
         THEN /\ Effect(c)
              /\ calls' = [calls EXCEPT ![c].travelling = @ - 1, ![c].carried = @ + 1]
         ELSE /\ calls' = [calls EXCEPT ![c].travelling = @ - 1]
              /\ UNCHANGED stored
    /\ UNCHANGED <<granted, foreign, place, attempt>>

LostForGood(c) ==
    /\ calls[c].travelling > 0
    /\ calls' = [calls EXCEPT ![c].travelling = @ - 1]
    /\ UNCHANGED <<granted, stored, foreign, place, attempt>>

ForeignWrite(a) ==
    /\ foreign < MaxForeign
    /\ foreign' = foreign + 1
    /\ stored' = [stored EXCEPT ![a] = Other]
    /\ UNCHANGED <<granted, calls, place, attempt>>

-------------------------------------------------------------------------------
(* Core.call *)

Begin(o) ==
    /\ place = "idle" /\ Last < MaxCalls
    /\ calls' = Append(calls, [op |-> o, carried |-> 0, travelling |-> 0,
                               abandoned |-> FALSE, failed |-> FALSE, end |-> "-"])
    /\ place' = "sent" /\ attempt' = 0
    /\ UNCHANGED <<granted, stored, foreign>>

Wake ==
    /\ place = "asleep"
    /\ place' = "sent" /\ attempt' = attempt + 1
    /\ UNCHANGED <<granted, stored, foreign, calls>>

\* The call ends with `how`; `seen` is its record with what the attempt met.
End(seen, how) ==
    /\ calls' = [calls EXCEPT ![Last] = [seen EXCEPT !.end = how]]
    /\ place' = "idle" /\ attempt' = 0
    /\ UNCHANGED <<granted, stored, foreign>>

RetryOr(seen, how) ==
    IF attempt < Retries
      THEN /\ calls' = [calls EXCEPT ![Last] = seen]
           /\ place' = "asleep"
           /\ UNCHANGED <<granted, stored, foreign, attempt>>
      ELSE End(seen, how)

\* Defect: the method returns once its request is written.
AnsweredUnread ==
    /\ place = "sent"
    /\ End([calls[Last] EXCEPT !.travelling = @ + 1], "answered")

Answered == place = "carried" /\ End(calls[Last], "answered")

\* Defect: an answer that cannot be read is taken for none.
UnreadableRetried ==
    /\ place = "carried" /\ Ops[calls[Last].op].answer.kind # "nothing"
    /\ RetryOr(calls[Last], "Unread")

\* The 2xx is there and its body is not what it should be, or breaks off behind
\* the headers where those are answered before it (TypeScript and Rust; the other
\* four read it within the attempt, as Silence).  It leaves the call as an error
\* and is not tried again.  What answers nothing has no body to read.
Unreadable ==
    /\ place = "carried" /\ Ops[calls[Last].op].answer.kind # "nothing"
    /\ End(calls[Last], "Unread")

\* Refused on its merits: raised as what it is, and never sent again.
refusal(c) == IF Ops[calls[c].op].scope \in granted THEN "NotFound" ELSE "Forbidden"
Refused == place = "sent" /\ ~Acceptable(Last) /\ End(calls[Last], refusal(Last))

\* Defect: a refusal of the limiter gives an attempt back.
LimitedUncounted ==
    /\ place = "sent" /\ place' = "asleep"
    /\ attempt' = IF attempt > 0 THEN attempt - 1 ELSE 0
    /\ UNCHANGED <<granted, stored, foreign, calls>>

\* The limiter turned it away: sent again after the wait, unless that is past
\* `maxWait`.
Limited ==
    /\ place = "sent"
    /\ RetryOr(calls[Last], "RateLimited") \/ End(calls[Last], "RateLimited")

\* A 5xx, before the api did anything or after.
Failed ==
    /\ place \in {"sent", "carried"}
    /\ RetryOr([calls[Last] EXCEPT !.failed = TRUE], "ServerError")

\* Nothing answered within the timeout, or the socket dropped.
Silence ==
    /\ place \in {"sent", "carried"}
    /\ RetryOr([calls[Last] EXCEPT !.abandoned = TRUE,
                                   !.travelling = IF place = "sent" THEN @ + 1 ELSE @],
               "Unreachable")

Hears == Answered \/ Unreadable \/ Refused \/ Limited \/ Failed \/ Silence

Next ==
    \/ \E o \in DOMAIN Ops : Begin(o)
    \/ Wake
    \/ CarryOut
    \/ \E c \in 1 .. Last : LateArrival(c) \/ LostForGood(c)
    \/ \E a \in Addresses : ForeignWrite(a)
    \/ Answered \/ Unreadable \/ Refused \/ Limited \/ Failed \/ Silence

Spec == Init /\ [][Next]_vars

\* The timeout and the backoff are timers of the client's own.
FairSpec == Spec /\ WF_vars(Wake) /\ WF_vars(Hears)

-------------------------------------------------------------------------------
\* The ends that say the api did it: the method returned, or what it raised is that
\* the answer to a thing done could not be read.
SaidDone == {"answered", "Unread"}

\* A method that returns has done what it is named for, and where no attempt met
\* silence or a 5xx it did it exactly once.  An error then means that nothing was
\* done, but for one: that the answer could not be read is raised of a write that
\* was carried out.  However answers were lost, it is done at most once for every
\* attempt that was allowed: what arrives late and what is still on its way included.
DoneAsReported ==
    \A c \in 1 .. Last :
        /\ calls[c].end \in SaidDone => calls[c].carried >= 1
        /\ ~calls[c].abandoned /\ ~calls[c].failed /\ calls[c].end # "-"
             => calls[c].carried = IF calls[c].end \in SaidDone THEN 1 ELSE 0
        /\ calls[c].carried + calls[c].travelling <= Retries + 1

\* What the last write to an address left there stands, also where its answer could
\* not be read: nothing of an earlier call comes after it, unless one of them was
\* given up on or somebody else wrote.
LastWriteStands ==
    \A c \in 1 .. Last :
        (/\ calls[c].end \in SaidDone /\ foreign = 0
         /\ \A d \in 1 .. c : ~calls[d].abandoned
         /\ \A d \in c + 1 .. Last : Path(d) # Path(c))
        => stored[Path(c)] = IF Verb(c) = "DELETE" THEN Absent ELSE c

\* Every call ends, whatever the network does: the retries run out and the
\* timeout rings.
EveryWriteEnds == place # "idle" ~> place = "idle"
================================================================================
