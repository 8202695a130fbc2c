---------------------------- MODULE LockedToken -----------------------------
(***************************************************************************)
(* The state of a UserToken that serialises its refresh with a lock, as    *)
(* every library but the TypeScript one does, and the steps that are not   *)
(* the library's own.  Whoever refreshes does so with the lock held, so    *)
(* the token request of c is wire[c].                                      *)
(***************************************************************************)
EXTENDS Calls

ASSUME SlotPerCaller == Slots = Callers

VARIABLES
    held,       \* the token set in use; live says its expires_at is ahead
    fresh,      \* fresh[c]: what c's refresh brought, while the keeper is told
    stored,     \* what the keeper last put away, and a restart begins with
    lock,       \* the calls inside the lock's critical section
    copied      \* copied[c]: the token set that c's forget() has read

tokenVars == <<held, fresh, stored, lock, copied>>
vars == <<providerVars, tokenVars, call>>

TypeOK ==
    /\ ProviderTypeOK
    /\ CallsTypeOK
    /\ held \in TokenSets
    /\ fresh \in [Callers -> TokenSets]
    /\ stored \in TokenSets
    /\ lock \in SUBSET Callers
    /\ copied \in [Callers -> TokenSets]

Init ==
    /\ ProviderInit
    /\ CallsInit
    /\ held \in GivenTokens
    /\ fresh = [c \in Callers |-> NoTokens]
    /\ stored = held
    /\ lock = {}
    /\ copied = [c \in Callers |-> NoTokens]

\* Defect: forget() and the clock leave the token in use.
Unexpired(t) == t

Expired(t) == [t EXCEPT !.live = FALSE]

\* Defect: the lock keeps nobody out.
AlwaysFree == TRUE

\* The lock can be taken.
Free == lock = {}

\* A step of a call that leaves the tokens and the provider alone.
Untouched == UNCHANGED <<providerVars, tokenVars>>

\* Defect: the refresh token is read back from the keeper's store.
PresentsStored(c) ==
    /\ Goes(c, "refreshing")
    /\ wire' = [wire EXCEPT ![c] = Asking(stored.refresh)]
    /\ UNCHANGED <<current, alive, minted, good, orphans, cut>>

\* c presents the refresh token it read with the lock held.
Presents(c) ==
    /\ Goes(c, "refreshing")
    /\ wire' = [wire EXCEPT ![c] = Asking(held.refresh)]
    /\ UNCHANGED <<current, alive, minted, good, orphans, cut>>

\* c has read the answer to its token request.
ReadsAnswer(c) ==
    /\ wire' = [wire EXCEPT ![c] = Idle]
    /\ UNCHANGED <<current, alive, minted, good, orphans, cut>>

\* c has told the keeper, and the keeper stored what it was told ...
Stores(c) ==
    /\ stored' = fresh[c]
    /\ UNCHANGED providerVars

\* ... or threw.
FailsToStore(c) ==
    /\ cut' = (cut \/ fresh[c].refresh # stored.refresh)
    /\ UNCHANGED <<current, alive, minted, good, wire, orphans, stored>>

\* Defect: the lock is never released.
LeavesLocked(c, k) ==
    /\ fresh' = [fresh EXCEPT ![c] = NoTokens]
    /\ Becomes(c, k)
    /\ UNCHANGED <<lock, copied>>

\* c leaves the critical section, with what fresh() answers or with its error.
Leaves(c, k) ==
    /\ lock' = lock \ {c}
    /\ fresh' = [fresh EXCEPT ![c] = NoTokens]
    /\ Becomes(c, k)
    /\ UNCHANGED copied

\* What is lost when the calls in C are broken off where they are.  A token
\* request that is under way may still reach the provider.
BreaksOff(C) ==
    /\ orphans' = orphans \cup {wire[c].refresh : c \in {d \in C : wire[d].at = "out"}}
    /\ cut' = \/ cut
              \/ \E c \in C :
                    \/ wire[c].at = "out"
                    \/ wire[c].at = "tokens" /\ wire[c].refresh # None
                    \/ call[c].at = "keeping" /\ fresh[c].refresh # stored.refresh
    /\ wire' = [c \in Callers |-> IF c \in C THEN Idle ELSE wire[c]]
    /\ fresh' = [c \in Callers |-> IF c \in C THEN NoTokens ELSE fresh[c]]
    /\ call' = [c \in Callers |-> IF c \in C THEN Over ELSE call[c]]
    /\ lock' = lock \ C
    /\ copied' = [c \in Callers |-> IF c \in C THEN NoTokens ELSE copied[c]]
    /\ UNCHANGED <<current, alive, minted, good, stored>>

\* The client's clock passes expires_at.
Lapse ==
    /\ Disturbable
    /\ held.live
    /\ held' = Expired(held)
    /\ UNCHANGED <<providerVars, fresh, stored, lock, copied, call>>

\* The process that holds the client dies, and another starts from what the
\* keeper put away.
Restart ==
    /\ Disturbable
    /\ BreaksOff(Callers)
    /\ held' = stored

\* The steps that are not the library's.
Outside ==
    \/ \E c \in Callers : (Answer(c) \/ Unanswered(c)) /\ Untouched
    \/ ProviderNext /\ UNCHANGED <<tokenVars, call>>
    \/ Lapse

-----------------------------------------------------------------------------
(* fresh() and forget(): the shapes that two libraries or more have in       *)
(* common.  `free` says that c can take the lock, k what an error makes of c's *)
(* call.                                                                       *)

\* The token is live.
AnswersHeld(c) ==
    /\ call[c].at = "fresh"
    /\ held.live
    /\ Becomes(c, Got(call[c], held.access))
    /\ Untouched

\* With the lock held the token is looked at, found expired, and refreshed.
Refreshes(c, free) ==
    /\ call[c].at = "fresh"
    /\ free
    /\ ~held.live
    /\ held.refresh # None
    /\ lock' = lock \cup {c}
    /\ Presents(c)
    /\ UNCHANGED <<held, fresh, stored, copied>>

\* There is no refresh token to present.
CannotRefresh(c, free, k) ==
    /\ call[c].at = "fresh"
    /\ free
    /\ ~held.live
    /\ held.refresh = None
    /\ Becomes(c, k)
    /\ Untouched

\* The exchange throws.
RefreshFails(c, k) ==
    /\ call[c].at = "refreshing"
    /\ wire[c].at \in {"refused", "broken"}
    /\ Leaves(c, k)
    /\ ReadsAnswer(c)
    /\ UNCHANGED <<held, stored>>

\* The answer is put in use before the keeper is called.
AdoptsFirst(c, tokens) ==
    /\ call[c].at = "refreshing"
    /\ wire[c].at = "tokens"
    /\ held' = tokens
    /\ fresh' = [fresh EXCEPT ![c] = tokens]
    /\ Goes(c, "keeping")
    /\ ReadsAnswer(c)
    /\ UNCHANGED <<stored, lock, copied>>

\* The keeper returns ...
KeeperStores(c) ==
    /\ call[c].at = "keeping"
    /\ Stores(c)
    /\ Leaves(c, Got(call[c], fresh[c].access))
    /\ UNCHANGED held

\* ... or throws.
KeeperThrows(c, k) ==
    /\ call[c].at = "keeping"
    /\ FailsToStore(c)
    /\ Leaves(c, k)
    /\ UNCHANGED held

\* The first 401, the token forgotten in one step: fresh() comes next.
ForgetsAtOnce(c, left) ==
    /\ Handles(c, {"unauthorized"})
    /\ call[c].spent = None
    /\ held' = left
    /\ Becomes(c, Unauthed(call[c]))
    /\ UNCHANGED <<providerVars, fresh, stored, lock, copied>>

\* The first 401 where forget() reads the token set without the lock ...
ForgetReads(c) ==
    /\ Handles(c, {"unauthorized"})
    /\ call[c].spent = None
    /\ copied' = [copied EXCEPT ![c] = held]
    /\ Becomes(c, [Unauthed(call[c]) EXCEPT !.at = "forgetting"])
    /\ UNCHANGED <<providerVars, held, fresh, stored, lock>>

\* ... and then writes it.
ForgetWrites(c, left) ==
    /\ call[c].at = "forgetting"
    /\ held' = left
    /\ copied' = [copied EXCEPT ![c] = NoTokens]
    /\ Goes(c, "fresh")
    /\ UNCHANGED <<providerVars, fresh, stored, lock>>

\* The call is cancelled where it awaits.
BrokenOff(c) ==
    /\ Disturbable
    /\ call[c].at \in {"fresh", "refreshing", "sent"}
    /\ BreaksOff({c})
    /\ UNCHANGED held

-----------------------------------------------------------------------------
(* The steps of a call that the five transports have alike. *)

Begins(c) ==
    /\ call[c].at = "ended"
    /\ Becomes(c, At("fresh"))
    /\ Untouched

\* A 2xx; its body may still fail to arrive or to parse.
Succeeds(c) ==
    /\ Handles(c, {"ok"})
    /\ Ends(c)
    /\ Untouched

\* A 429, a 5xx or silence, with an attempt left and a wait that is not too long.
RetriesLater(c) ==
    /\ Handles(c, {"busy", "unanswered"})
    /\ call[c].attempt < Retries
    /\ Becomes(c, Retried(call[c]))
    /\ Untouched

\* Out of attempts, asked to wait for too long, or refused on the merits.
GivesUp(c) ==
    /\ \/ Handles(c, {"busy", "refused"})
       \/ Handles(c, {"unanswered"}) /\ call[c].attempt >= Retries
       \/ Handles(c, {"unauthorized"}) /\ call[c].spent # None
    /\ Ends(c)
    /\ Untouched

-----------------------------------------------------------------------------
\* What every UserToken promises, its renewal being the lock holder's.
Refreshing == {c \in Callers : call[c].at = "refreshing"}
Keeping == {c \in Callers : call[c].at = "keeping"}

KeeperWire == IF Refreshing = {} THEN Idle ELSE wire[CHOOSE c \in Refreshing : TRUE]
KeeperFresh == IF Keeping = {} THEN NoTokens ELSE fresh[CHOOSE c \in Keeping : TRUE]
KeeperPhase ==
    IF Refreshing # {} THEN "asking" ELSE IF Keeping # {} THEN "keeping" ELSE "none"

Keeper == INSTANCE TokenKeeper WITH
    Slots <- {"keeper"},
    wire  <- [s \in {"keeper"} |-> KeeperWire],
    token <- held,
    fresh <- KeeperFresh,
    phase <- KeeperPhase

KeeperSpec == Keeper!Spec

-----------------------------------------------------------------------------
(* Properties of the locking itself, whichever the library. *)

\* "Four requests that all notice the expiry at once must send one refresh
\* between them": no two token requests are ever under way together.
OneRefresh ==
    \A c, d \in Callers : wire[c].at # "idle" /\ wire[d].at # "idle" => c = d

\* The keeper is told of the token sets in the order they were issued, so what
\* it last stored is never older than what it had: "the one handed back is the
\* one to keep".
KeptInOrder == [][stored'.access >= stored.access]_stored
=============================================================================
