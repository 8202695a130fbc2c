----------------------------- MODULE CppClient ------------------------------
(***************************************************************************)
(* The C++ client acting for a person: core::text (core.hpp) over one      *)
(* user_token (auth.hpp), called from several threads.  What a thread does *)
(* while it holds lock_ is one step, except that the token endpoint and    *)
(* the keeper are waited for with the lock held.                           *)
(***************************************************************************)
EXTENDS LockedToken

Begin(c) == Begins(c)

-----------------------------------------------------------------------------
(* user_token::fresh and forget *)

\* Every reading of held_ waits for the lock.
FreshHeld(c) == Free /\ AnswersHeld(c)
FreshRefreshes(c) == Refreshes(c, Free)

\* Whatever fresh() throws is outside core's try: the caller sees it.
FreshThrows(c) == CannotRefresh(c, Free, Over)
RefreshThrows(c) == RefreshFails(c, Over)

Adopts(c) == AdoptsFirst(c, Adopted(wire[c]))
Kept(c) == KeeperStores(c)
KeepThrows(c) == KeeperThrows(c, Over)

\* forget(): expires_at_ = 0, whichever token was refused; then fresh().
HandleUnauthorized(c) == Free /\ ForgetsAtOnce(c, Expired(held))

-----------------------------------------------------------------------------
(* core::text *)

HandleOk(c) == Succeeds(c)
HandleRetry(c) == RetriesLater(c)
HandleRefusal(c) == GivesUp(c)

\* The steps that need lock_, and those that do not.
Locking(c) ==
    FreshHeld(c) \/ FreshRefreshes(c) \/ FreshThrows(c) \/ HandleUnauthorized(c)
Running(c) ==
    \/ Adopts(c) \/ Kept(c) \/ KeepThrows(c) \/ RefreshThrows(c)
    \/ HandleOk(c) \/ HandleRetry(c) \/ HandleRefusal(c)

Next ==
    \/ \E c \in Callers : Begin(c) \/ Locking(c) \/ Running(c)
    \/ Outside
    \/ Restart

Spec == Init /\ [][Next]_vars
=============================================================================
