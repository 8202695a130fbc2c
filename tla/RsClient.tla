------------------------------ MODULE RsClient ------------------------------
(***************************************************************************)
(* The Rust client acting for a person: Core::text (core.rs) over one      *)
(* UserToken (auth.rs), from tasks that run on several threads.  The lock  *)
(* is taken to read the token too, forget() only tries to take it, and     *)
(* fresh() is part of the attempt that a failed request repeats.           *)
(***************************************************************************)
EXTENDS LockedToken

Begin(c) == Begins(c)

-----------------------------------------------------------------------------
(* UserToken::fresh and forget *)

\* The lock is taken in a step of its own: while a task only reads the token
\* with it, another's forget() finds it taken.
Locks(c) ==
    /\ call[c].at = "fresh"
    /\ Free
    /\ lock' = lock \cup {c}
    /\ Goes(c, "locked")
    /\ UNCHANGED <<providerVars, held, fresh, stored, copied>>

FreshHeld(c) ==
    /\ call[c].at = "locked"
    /\ held.live
    /\ Leaves(c, Got(call[c], held.access))
    /\ UNCHANGED <<providerVars, held, stored>>

FreshRefreshes(c) ==
    /\ call[c].at = "locked"
    /\ ~held.live
    /\ held.refresh # None
    /\ Presents(c)
    /\ UNCHANGED tokenVars

\* once() hands fresh()'s error to the loop, which retries it like a dropped
\* socket; after a 401 any error is the Unauthorized.
TakenForSilence(k) ==
    IF ~k.again /\ k.attempt < Retries THEN Retried(k) ELSE Over

FreshThrows(c) ==
    /\ call[c].at = "locked"
    /\ ~held.live
    /\ held.refresh = None
    /\ Leaves(c, TakenForSilence(call[c]))
    /\ UNCHANGED <<providerVars, held, stored>>

RefreshThrows(c) == RefreshFails(c, TakenForSilence(call[c]))

Adopts(c) ==
    /\ call[c].at = "refreshing"
    /\ wire[c].at = "tokens"
    /\ fresh' = [fresh EXCEPT ![c] = Adopted(wire[c])]
    /\ Goes(c, "keeping")
    /\ ReadsAnswer(c)
    /\ UNCHANGED <<held, stored, lock, copied>>

\* The keeper is called first, and *held assigned when it returns.
Kept(c) ==
    /\ call[c].at = "keeping"
    /\ Stores(c)
    /\ held' = fresh[c]
    /\ Leaves(c, Got(call[c], fresh[c].access))

\* A keeper that panics takes the new tokens with it.
KeepPanics(c) == Disturbable /\ KeeperThrows(c, Over)

\* forget() does nothing when somebody has the lock, if only to read the token.
HandleUnauthorized(c) ==
    ForgetsAtOnce(c, IF Free THEN Expired(held) ELSE held)

\* The future is dropped at an await.
Cancelled(c) == BrokenOff(c)

-----------------------------------------------------------------------------
(* Core::text *)

HandleOk(c) == Succeeds(c)
HandleRetry(c) == RetriesLater(c)
HandleRefusal(c) == GivesUp(c)

Locking(c) == Locks(c)
Running(c) ==
    \/ FreshHeld(c) \/ FreshRefreshes(c) \/ FreshThrows(c) \/ RefreshThrows(c)
    \/ Adopts(c) \/ Kept(c) \/ KeepPanics(c) \/ HandleUnauthorized(c)
    \/ HandleOk(c) \/ HandleRetry(c) \/ HandleRefusal(c)

Next ==
    \/ \E c \in Callers : Begin(c) \/ Locking(c) \/ Running(c) \/ Cancelled(c)
    \/ Outside
    \/ Restart

Spec == Init /\ [][Next]_vars
=============================================================================
