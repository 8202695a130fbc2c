-------------------------------- MODULE AppOnly --------------------------------
(***************************************************************************)
(* AppOnly, six times: an application token minted on demand by the calls  *)
(* that find none, and thrown away by the ones the api refused it; and     *)
(* BearerToken, which has one token and, in TypeScript and Python only,    *)
(* throws it away.  The transport around them is cut down to the request,  *)
(* its 401 and the one retry.                                              *)
(***************************************************************************)
EXTENDS Naturals, FiniteSets

CONSTANTS
    Callers,    \* the calls under way at once
    MaxDeaths   \* how many tokens end, by the clock or by the api

VARIABLES
    library, kind,
    held,       \* the token in hand, 0 for none
    minted,     \* tokens are numbered as they are minted
    lapsed,     \* the tokens past their hour, less a minute
    dead,       \* the tokens the api takes no longer
    dropped,    \* how many forgets threw a token away
    lock,       \* who holds the mutex; Nobody
    pc, carried, refused

vars == <<library, kind, held, minted, lapsed, dead, dropped, lock, pc, carried, refused>>
fixed == <<library, kind>>

Nobody == "nobody"

\* What the constants may be; whoever composes the component assumes it.
AppOnlyConstants ==
    /\ IsFiniteSet(Callers) /\ Nobody \notin Callers
    /\ MaxDeaths \in Nat

Locking     == {"cpp", "cs", "kt", "rs", "py"}    \* all but TypeScript
LooksFirst  == {"ts", "cs", "kt", "py"}           \* before they lock
ForgetLocks == {"cpp", "kt"}

Tokens == 0 .. minted
Live(t) == t # 0 /\ t \notin lapsed
Stages == {"idle", "fresh", "queued", "locked", "minting", "asking", "forgetting",
           "answered", "unauthorized", "raised"}
Over == {"answered", "unauthorized", "raised"}

TypeOK ==
    /\ library \in Locking \cup {"ts"} /\ kind \in {"app", "bearer"}
    /\ minted \in Nat /\ held \in Tokens
    /\ {lapsed, dead} \subseteq SUBSET (1 .. minted)
    /\ dropped \in 0 .. Cardinality(Callers)
    /\ lock \in Callers \cup {Nobody}
    /\ pc \in [Callers -> Stages]
    /\ {carried, refused} \subseteq [Callers -> Tokens]

Init ==
    /\ library \in Locking \cup {"ts"} /\ kind \in {"app", "bearer"}
    /\ held = IF kind = "bearer" THEN 1 ELSE 0
    /\ minted = held
    /\ lapsed = {} /\ dead = {} /\ dropped = 0 /\ lock = Nobody
    /\ pc = [c \in Callers |-> "idle"]
    /\ carried = [c \in Callers |-> 0] /\ refused = carried

Goes(c, from, to) == pc[c] = from /\ pc' = [pc EXCEPT ![c] = to]

\* fresh() answers with the token in hand.
Takes(c, from) ==
    /\ Goes(c, from, "asking")
    /\ carried' = [carried EXCEPT ![c] = held]

Begin(c) ==
    /\ Goes(c, "idle", "fresh")
    /\ UNCHANGED <<fixed, held, minted, lapsed, dead, dropped, lock, carried, refused>>

-------------------------------------------------------------------------------
(* fresh *)

Look(c) ==
    /\ kind = "app"
    /\ \/ library \in LooksFirst /\ Live(held) /\ Takes(c, "fresh")
       \/ /\ library \in LooksFirst => ~Live(held)
          /\ Goes(c, "fresh", IF library \in Locking THEN "queued" ELSE "minting")
          /\ UNCHANGED carried
    /\ UNCHANGED <<fixed, held, minted, lapsed, dead, dropped, lock, refused>>

Locks(c) ==
    /\ Goes(c, "queued", "locked")
    /\ lock = Nobody /\ lock' = c
    /\ UNCHANGED <<fixed, held, minted, lapsed, dead, dropped, carried, refused>>

\* Defect: the token is not looked at again.
LookAgainBlind(c) ==
    /\ Goes(c, "locked", "minting")
    /\ UNCHANGED <<fixed, held, minted, lapsed, dead, dropped, lock, carried, refused>>

\* The token is looked at again under the lock.
LookAgain(c) ==
    /\ \/ Live(held) /\ Takes(c, "locked") /\ lock' = Nobody
       \/ ~Live(held) /\ Goes(c, "locked", "minting") /\ UNCHANGED <<lock, carried>>
    /\ UNCHANGED <<fixed, held, minted, lapsed, dead, dropped, refused>>

Unlock(c) == lock' = IF lock = c THEN Nobody ELSE lock

Minted(c) ==
    /\ Goes(c, "minting", "asking")
    /\ minted' = minted + 1
    /\ held' = minted'
    /\ carried' = [carried EXCEPT ![c] = minted']
    /\ Unlock(c)
    /\ UNCHANGED <<fixed, lapsed, dead, dropped, refused>>

\* Defect: a failure leaves the lock taken.
MintFailsLocked(c) ==
    /\ Goes(c, "minting", "raised")
    /\ UNCHANGED <<fixed, held, minted, lapsed, dead, dropped, lock, carried, refused>>

MintFails(c) ==
    /\ Goes(c, "minting", "raised")
    /\ Unlock(c)
    /\ UNCHANGED <<fixed, held, minted, lapsed, dead, dropped, carried, refused>>

BearerFresh(c) ==
    /\ kind = "bearer"
    /\ \/ held # 0 /\ Takes(c, "fresh")
       \/ held = 0 /\ Goes(c, "fresh", "unauthorized") /\ UNCHANGED carried
    /\ UNCHANGED <<fixed, held, minted, lapsed, dead, dropped, lock, refused>>

-------------------------------------------------------------------------------
(* The request, and forget *)

Heard(c) ==
    /\ pc[c] = "asking"
    /\ \/ carried[c] \notin dead /\ Goes(c, "asking", "answered") /\ UNCHANGED refused
       \/ carried[c] \in dead /\ refused[c] # 0 /\ Goes(c, "asking", "unauthorized") /\ UNCHANGED refused
       \/ /\ carried[c] \in dead /\ refused[c] = 0
          /\ Goes(c, "asking", "forgetting")
          /\ refused' = [refused EXCEPT ![c] = carried[c]]
    /\ UNCHANGED <<fixed, held, minted, lapsed, dead, dropped, lock, carried>>

\* Whether forget() throws the token away whatever else is under way.  Four
\* libraries' BearerToken keeps it: there is no way to get another, "and clearing it
\* would turn one 401 into every call failing".  Rust's AppOnly only tries the lock.
ThrowsAway == IF kind = "bearer" THEN library \in {"ts", "py"} ELSE library # "rs"

\* C# and Python throw away without the lock.
Forgets == ThrowsAway \/ (kind = "app" /\ lock = Nobody)

\* Defect: nothing is thrown away.
ForgetNothing(c) ==
    /\ Goes(c, "forgetting", "fresh")
    /\ UNCHANGED <<fixed, held, minted, lapsed, dead, dropped, lock, carried, refused>>

Forget(c) ==
    /\ library \in ForgetLocks => lock = Nobody
    /\ Goes(c, "forgetting", "fresh")
    /\ IF Forgets
         THEN held' = 0 /\ dropped' = dropped + (IF held = 0 THEN 0 ELSE 1)
         ELSE UNCHANGED <<held, dropped>>
    /\ UNCHANGED <<fixed, minted, lapsed, dead, lock, carried, refused>>

-------------------------------------------------------------------------------
(* The clock and the api *)

Lapse ==
    /\ Live(held) /\ Cardinality(lapsed) < MaxDeaths
    /\ lapsed' = lapsed \cup {held}
    /\ UNCHANGED <<fixed, held, minted, dead, dropped, lock, pc, carried, refused>>

Die(t) ==
    /\ t \notin dead /\ Cardinality(dead) < MaxDeaths
    /\ dead' = dead \cup {t}
    /\ UNCHANGED <<fixed, held, minted, lapsed, dropped, lock, pc, carried, refused>>

\* What a call does without waiting for anybody but the lock and the endpoint.
Step(c) ==
    \/ Look(c) \/ Locks(c) \/ LookAgain(c) \/ Minted(c) \/ MintFails(c)
    \/ BearerFresh(c) \/ Heard(c) \/ Forget(c)

Next ==
    \/ \E c \in Callers : Begin(c) \/ Step(c)
    \/ Lapse
    \/ \E t \in 1 .. minted : Die(t)

Spec == Init /\ [][Next]_vars

-------------------------------------------------------------------------------
\* The five locked libraries mint no token that nobody needs: one for the first
\* call, one for each that lapsed, one for each that a 401 threw away ("mint one
\* token between them rather than one each").
MintsAsNeeded ==
    library \in Locking => minted <= 1 + Cardinality(lapsed) + dropped

\* Where forget() throws the token away, a call whose token was refused asks again
\* with another one: nobody puts the refused token back in hand.  That is AppOnly
\* but for Rust, whose forget gives up when somebody is reading, and BearerToken in
\* TypeScript and Python, which asks for no more; in the other four a BearerToken
\* sends the token that was refused a second time.
AsksAgainWithAnother ==
    ThrowsAway => \A c \in Callers : pc[c] = "asking" => carried[c] # refused[c]

\* Every call ends, and leaves no lock behind for the ones that queue.
EveryMintEnds == \A c \in Callers : pc[c] = "fresh" ~> pc[c] \in Over
================================================================================
