------------------------------ MODULE TsClient ------------------------------
(***************************************************************************)
(* The TypeScript client acting for a person: Core.call (core.ts) over one *)
(* UserToken (auth.ts), with several calls under way at once.              *)
(*                                                                         *)
(* JavaScript runs one thing at a time, so an action here is what runs     *)
(* between two awaits.  A renewal is one promise that every call that      *)
(* finds the token expired waits on.  Sleeping is not a step: a call that  *)
(* sleeps stays in "fresh", and every other step can happen meanwhile.     *)
(***************************************************************************)
EXTENDS Calls

ASSUME TsAssumption == Slots = {"renewing"}

VARIABLES
    token,      \* UserToken.token
    renewing,   \* UserToken.renewing, by how far the promise has come
    fresh,      \* what renew() got, while the keeper is told
    stored      \* what the keeper last put away, and a restart begins with

tokenVars == <<token, renewing, fresh, stored>>
vars == <<providerVars, tokenVars, call>>

W == "renewing"

TypeOK ==
    /\ ProviderTypeOK
    /\ CallsTypeOK
    /\ token \in TokenSets
    /\ fresh \in TokenSets
    /\ stored \in TokenSets
    /\ renewing \in {"none", "asking", "keeping"}

Init ==
    /\ ProviderInit
    /\ CallsInit
    /\ token \in GivenTokens
    /\ fresh = NoTokens
    /\ stored = token
    /\ renewing = "none"

-----------------------------------------------------------------------------
(* UserToken.fresh and renew *)

Begin(c) ==
    /\ call[c].at = "ended"
    /\ Becomes(c, At("fresh"))
    /\ UNCHANGED <<providerVars, tokenVars>>

FreshHeld(c) ==
    /\ call[c].at = "fresh"
    /\ token.live
    /\ Becomes(c, Got(call[c], token.access))
    /\ UNCHANGED <<providerVars, tokenVars>>

FreshJoins(c) ==
    /\ call[c].at = "fresh"
    /\ ~token.live
    /\ renewing # "none"
    /\ Goes(c, "joined")
    /\ UNCHANGED <<providerVars, tokenVars>>

\* Defect: `renewing ??=` became `renewing =`.
FreshRenewsAnew(c) ==
    /\ call[c].at = "fresh"
    /\ ~token.live
    /\ token.refresh # None
    /\ renewing' = "asking"
    /\ wire' = [wire EXCEPT ![W] = Asking(token.refresh)]
    /\ Goes(c, "joined")
    /\ UNCHANGED <<current, alive, minted, good, orphans, cut, token, fresh, stored>>

\* The first call to see the token expired starts the renewal.
FreshRenews(c) ==
    /\ call[c].at = "fresh"
    /\ ~token.live
    /\ renewing = "none"
    /\ token.refresh # None
    /\ renewing' = "asking"
    /\ wire' = [wire EXCEPT ![W] = Asking(token.refresh)]
    /\ Goes(c, "joined")
    /\ UNCHANGED <<current, alive, minted, good, orphans, cut, token, fresh, stored>>

\* renew() throws at once: there is no refresh token to present.
FreshThrows(c) ==
    /\ call[c].at = "fresh"
    /\ ~token.live
    /\ renewing = "none"
    /\ token.refresh = None
    /\ Becomes(c, Over)
    /\ UNCHANGED <<providerVars, tokenVars>>

\* The calls that wait on the promise go on with its access token ...
Fulfil(a) ==
    call' = [c \in Callers |-> IF call[c].at = "joined" THEN Got(call[c], a)
                                                        ELSE call[c]]

\* ... or throw what it threw.
Reject ==
    call' = [c \in Callers |-> IF call[c].at = "joined" THEN Over
                                                        ELSE call[c]]

\* Defect: the answer is handed to the keeper and not put in use.
RenewedUnadopted ==
    /\ renewing = "asking"
    /\ wire[W].at = "tokens"
    /\ fresh' = Adopted(wire[W])
    /\ renewing' = "keeping"
    /\ wire' = [wire EXCEPT ![W] = Idle]
    /\ UNCHANGED <<current, alive, minted, good, orphans, cut, token, stored, call>>

\* The answer is adopted before the keeper is told of it.
Renewed ==
    /\ renewing = "asking"
    /\ wire[W].at = "tokens"
    /\ fresh' = Adopted(wire[W])
    /\ token' = Adopted(wire[W])
    /\ renewing' = "keeping"
    /\ wire' = [wire EXCEPT ![W] = Idle]
    /\ UNCHANGED <<current, alive, minted, good, orphans, cut, stored, call>>

\* Defect: a renewal that failed stays in `renewing`, its `finally` gone.
RenewFailsForGood ==
    /\ renewing = "asking"
    /\ wire[W].at \in {"refused", "broken"}
    /\ wire' = [wire EXCEPT ![W] = Idle]
    /\ Reject
    /\ UNCHANGED <<renewing, current, alive, minted, good, orphans, cut, token, fresh, stored>>

RenewFails ==
    /\ renewing = "asking"
    /\ wire[W].at \in {"refused", "broken"}
    /\ renewing' = "none"
    /\ wire' = [wire EXCEPT ![W] = Idle]
    /\ Reject
    /\ UNCHANGED <<current, alive, minted, good, orphans, cut, token, fresh, stored>>

Kept ==
    /\ renewing = "keeping"
    /\ stored' = fresh
    /\ fresh' = NoTokens
    /\ renewing' = "none"
    /\ Fulfil(fresh.access)
    /\ UNCHANGED <<providerVars, token>>

\* The keeper throws: the waiting calls fail although the token was adopted.
KeepFails ==
    /\ renewing = "keeping"
    /\ renewing' = "none"
    /\ fresh' = NoTokens
    /\ cut' = (cut \/ fresh.refresh # stored.refresh)
    /\ Reject
    /\ UNCHANGED <<current, alive, minted, good, wire, orphans, token, stored>>

\* The client's clock passes expires_at.
Lapse ==
    /\ Disturbable
    /\ token.live
    /\ token' = [token EXCEPT !.live = FALSE]
    /\ UNCHANGED <<providerVars, renewing, fresh, stored, call>>

-----------------------------------------------------------------------------
(* Core.call *)

\* A 2xx; its body may still fail to arrive or to parse.
HandleOk(c) ==
    /\ Handles(c, {"ok"})
    /\ Ends(c)
    /\ UNCHANGED <<providerVars, tokenVars>>

\* A 429, a 5xx or silence, with an attempt left and a wait within maxWait.
HandleRetry(c) ==
    /\ Handles(c, {"busy", "unanswered"})
    /\ call[c].attempt < Retries
    /\ Becomes(c, Retried(call[c]))
    /\ UNCHANGED <<providerVars, tokenVars>>

\* Out of attempts, asked to wait beyond maxWait, or refused on the merits.
HandleRefusal(c) ==
    /\ \/ Handles(c, {"busy", "refused"})
       \/ Handles(c, {"unanswered"}) /\ call[c].attempt >= Retries
       \/ Handles(c, {"unauthorized"}) /\ call[c].spent # None
    /\ Ends(c)
    /\ UNCHANGED <<providerVars, tokenVars>>

\* Defect: forget() is not called.
HandleUnauthorizedUnforgotten(c) ==
    /\ Handles(c, {"unauthorized"})
    /\ call[c].spent = None
    /\ Becomes(c, Unauthed(call[c]))
    /\ UNCHANGED <<providerVars, tokenVars>>

\* The first 401: forget(), then fresh().  With the token forgotten, fresh()
\* can only wait for a renewal that is already under way.  The `continue` that
\* follows goes through the loop's own attempt++, so the refresh uses an attempt.
HandleUnauthorized(c) ==
    /\ Handles(c, {"unauthorized"})
    /\ call[c].spent = None
    /\ token' = NoTokens
    /\ IF renewing = "none" THEN Ends(c)
       ELSE Becomes(c, [Unauthed(call[c]) EXCEPT !.at = "joined", !.attempt = @ + 1])
    /\ UNCHANGED <<providerVars, renewing, fresh, stored>>

-----------------------------------------------------------------------------
(* The process that holds the client dies, and another starts from what the *)
(* keeper put away.  A token request that was under way may still arrive.    *)
Restart ==
    /\ Disturbable
    /\ orphans' = orphans \cup {w.refresh : w \in {x \in {wire[W]} : x.at = "out"}}
    /\ cut' = \/ cut
              \/ wire[W].at = "out"
              \/ wire[W].at = "tokens" /\ wire[W].refresh # None
              \/ renewing = "keeping" /\ fresh.refresh # stored.refresh
    /\ wire' = [wire EXCEPT ![W] = Idle]
    /\ token' = stored
    /\ renewing' = "none"
    /\ fresh' = NoTokens
    /\ call' = [c \in Callers |-> Over]
    /\ UNCHANGED <<current, alive, minted, good, stored>>

CallStep(c) ==
    \/ FreshHeld(c) \/ FreshJoins(c) \/ FreshRenews(c) \/ FreshThrows(c)
    \/ HandleOk(c) \/ HandleRetry(c) \/ HandleRefusal(c)
    \/ HandleUnauthorized(c)

RenewalStep == Renewed \/ RenewFails \/ Kept \/ KeepFails

Next ==
    \/ \E c \in Callers : Begin(c) \/ CallStep(c)
    \/ \E c \in Callers : (Answer(c) \/ Unanswered(c)) /\ UNCHANGED <<providerVars, tokenVars>>
    \/ RenewalStep
    \/ Lapse
    \/ Restart
    \/ ProviderNext /\ UNCHANGED <<tokenVars, call>>

\* The event loop runs what is ready.  A request to the api is answered or
\* times out (Options.timeout).  The token endpoint is assumed to answer: the
\* exchange has no timeout of its own.
Fairness ==
    /\ \A c \in Callers : WF_vars(CallStep(c))
    /\ \A c \in Callers :
        WF_vars((Answer(c) \/ Unanswered(c)) /\ UNCHANGED <<providerVars, tokenVars>>)
    /\ WF_vars(RenewalStep)
    /\ WF_vars(ProviderStep(W) /\ UNCHANGED <<tokenVars, call>>)

Spec == Init /\ [][Next]_vars /\ Fairness

-----------------------------------------------------------------------------
(* Properties *)

\* What every UserToken promises: this promise, with the calls left out.
Keeper == INSTANCE TokenKeeper WITH
    Slots <- {"keeper"},
    wire  <- [s \in {"keeper"} |-> wire[W]],
    phase <- renewing

KeeperSpec == Keeper!Spec

\* core.ts: "refreshing once on a 401 ... It gets one retry with a fresh token".
\* The first 401 of a call whose client holds a refresh token is answered with
\* a renewal, not with the 401.
RefreshOnceOn401 ==
    [][\A c \in Callers :
        Handles(c, {"unauthorized"}) /\ call[c].spent = None
            /\ token.refresh # None /\ call'[c] # call[c]
            => call'[c].at # "ended"]_vars
=============================================================================
