------------------------------ MODULE KtClient ------------------------------
(***************************************************************************)
(* The Kotlin client acting for a person: Core.text (Core.kt) over one     *)
(* UserToken (Auth.kt), from coroutines on several threads.  fresh() is    *)
(* called inside the try that surrounds the request, so what it throws is  *)
(* taken for a request that nothing answered.                              *)
(***************************************************************************)
EXTENDS LockedToken

Begin(c) == Begins(c)

-----------------------------------------------------------------------------
(* UserToken.fresh and forget *)

\* What fresh() throws at the top of the loop is retried, and wrapped in an
\* Unreachable when the attempts are spent.  An OauthException is no
\* AcykaException, so the token endpoint's refusals are retried as well.
TakenForSilence(k) ==
    IF ~k.again /\ k.attempt < Retries THEN Retried(k) ELSE Over

\* Answered without the lock when the token is live, and looked at again inside.
FreshHeld(c) == AnswersHeld(c)
FreshRefreshes(c) == Refreshes(c, Free)
FreshThrows(c) == CannotRefresh(c, Free, TakenForSilence(call[c]))
RefreshThrows(c) == RefreshFails(c, TakenForSilence(call[c]))

Adopts(c) == AdoptsFirst(c, Adopted(wire[c]))
Kept(c) == KeeperStores(c)
KeepThrows(c) == KeeperThrows(c, TakenForSilence(call[c]))

\* forget() takes the lock, and expires whatever token is held by then.
HandleUnauthorized(c) == Free /\ ForgetsAtOnce(c, Expired(held))

\* The coroutine is cancelled where it suspends.
Cancelled(c) == BrokenOff(c)

-----------------------------------------------------------------------------
(* Core.text *)

HandleOk(c) == Succeeds(c)
HandleRetry(c) == RetriesLater(c)
HandleRefusal(c) == GivesUp(c)

\* The steps that need the mutex, and those that do not.
Locking(c) == FreshRefreshes(c) \/ FreshThrows(c) \/ HandleUnauthorized(c)
Running(c) ==
    \/ FreshHeld(c) \/ Adopts(c) \/ Kept(c) \/ KeepThrows(c) \/ RefreshThrows(c)
    \/ HandleOk(c) \/ HandleRetry(c) \/ HandleRefusal(c)

Next ==
    \/ \E c \in Callers : Begin(c) \/ Locking(c) \/ Running(c) \/ Cancelled(c)
    \/ Outside
    \/ Restart

Spec == Init /\ [][Next]_vars

-----------------------------------------------------------------------------
(* Properties *)

\* "A request refused on its merits is not [retried]" (README.md of the library):
\* once the token endpoint has refused a refresh, the call that asked is over.
RefusedRefreshIsFinal ==
    [][\A c \in Callers :
        call[c].at = "refreshing" /\ wire[c].at = "refused" /\ call'[c] # call[c]
            => call'[c].at = "ended"]_vars
=============================================================================
