------------------------------ MODULE PyClient ------------------------------
(***************************************************************************)
(* The Python client acting for a person: Core.call and AsyncCore.call     *)
(* (_core.py) over one UserToken (auth.py).  Threads go through fresh()    *)
(* and one lock, the tasks of an event loop through afresh() and another.  *)
(***************************************************************************)
EXTENDS LockedToken

CONSTANT Tasks      \* the callers that are tasks; the others are threads

Begin(c) == Begins(c)

-----------------------------------------------------------------------------
(* UserToken.fresh, afresh and forget *)

\* _lock is the threads' and _alock the tasks': neither keeps the other out.
Locked(c) == \E d \in lock : d \in Tasks <=> c \in Tasks

\* Answered without the lock when the token is live, and looked at again inside.
FreshHeld(c) == AnswersHeld(c)
FreshRefreshes(c) == Refreshes(c, ~Locked(c))

\* Whatever fresh() raises is outside the transport's try.
FreshThrows(c) == CannotRefresh(c, ~Locked(c), Over)
RefreshThrows(c) == RefreshFails(c, Over)

\* _adopt(): an answer without a refresh token keeps the one held by now.
Adopts(c) == AdoptsFirst(c, Adopted([wire[c] EXCEPT !.asked = held.refresh]))
Kept(c) == KeeperStores(c)
KeepThrows(c) == KeeperThrows(c, Over)

\* forget() expires the object it read, which may have been replaced since.
HandleUnauthorized(c) == ForgetReads(c)
Forgets(c) ==
    ForgetWrites(c, IF held.access = copied[c].access THEN Expired(held) ELSE held)

\* A task is cancelled where it awaits.
Cancelled(c) == c \in Tasks /\ BrokenOff(c)

-----------------------------------------------------------------------------
(* Core.call and AsyncCore.call *)

HandleOk(c) == Succeeds(c)
HandleRetry(c) == RetriesLater(c)
HandleRefusal(c) == GivesUp(c)

\* A task runs from await to await without another task in between.
Runnable(c) ==
    c \in Tasks => \A d \in Tasks \ {c} : call[d].at \notin {"forgetting", "keeping"}

Locking(c) == Runnable(c) /\ (FreshRefreshes(c) \/ FreshThrows(c))
Running(c) ==
    /\ Runnable(c)
    /\ \/ FreshHeld(c) \/ Adopts(c) \/ Kept(c) \/ KeepThrows(c) \/ RefreshThrows(c)
       \/ HandleOk(c) \/ HandleRetry(c) \/ HandleRefusal(c)
       \/ HandleUnauthorized(c) \/ Forgets(c)

Next ==
    \/ \E c \in Callers :
        Locking(c) \/ Running(c) \/ (Runnable(c) /\ (Begin(c) \/ Cancelled(c)))
    \/ Outside
    \/ Restart

Spec == Init /\ [][Next]_vars
=============================================================================
