------------------------------ MODULE CsClient ------------------------------
(***************************************************************************)
(* The C# client acting for a person: Core.TextAsync (Core.cs) over one    *)
(* UserToken (Auth.cs), from tasks that run on several threads.  _held is  *)
(* read without the semaphore, and Forget reads, copies and writes it back *)
(* without it, so other tasks can run between its two halves.              *)
(***************************************************************************)
EXTENDS LockedToken

Begin(c) == Begins(c)

-----------------------------------------------------------------------------
(* UserToken.FreshAsync and Forget *)

\* Answered without the lock when the token is live, and looked at again inside.
FreshHeld(c) == AnswersHeld(c)
FreshRefreshes(c) == Refreshes(c, Free)

\* Whatever FreshAsync throws is outside the transport's try.
FreshThrows(c) == CannotRefresh(c, Free, Over)
RefreshThrows(c) == RefreshFails(c, Over)

Adopts(c) == AdoptsFirst(c, Adopted(wire[c]))
Kept(c) == KeeperStores(c)
KeepThrows(c) == KeeperThrows(c, Over)

\* Forget writes back the copy it read, expired, whatever _held has become.
HandleUnauthorized(c) == ForgetReads(c)
Forgets(c) == ForgetWrites(c, Expired(copied[c]))

\* The caller's CancellationToken, at an await that takes it.
Cancelled(c) == BrokenOff(c)

-----------------------------------------------------------------------------
(* Core.TextAsync *)

HandleOk(c) == Succeeds(c)
HandleRetry(c) == RetriesLater(c)
HandleRefusal(c) == GivesUp(c)

Locking(c) == FreshRefreshes(c) \/ FreshThrows(c)
Running(c) ==
    \/ FreshHeld(c) \/ Adopts(c) \/ Kept(c) \/ KeepThrows(c) \/ RefreshThrows(c)
    \/ HandleOk(c) \/ HandleRetry(c) \/ HandleRefusal(c)
    \/ HandleUnauthorized(c) \/ Forgets(c)

Next ==
    \/ \E c \in Callers : Begin(c) \/ Locking(c) \/ Running(c) \/ Cancelled(c)
    \/ Outside
    \/ Restart

Spec == Init /\ [][Next]_vars
=============================================================================
