---------------------------- MODULE TokenKeeper -----------------------------
(***************************************************************************)
(* What a UserToken promises in every library, with nothing said of who    *)
(* calls it: it shows the provider one refresh token at a time, always the *)
(* newest it was given, adopts the answer, and then tells its keeper.  The *)
(* libraries' own modules, with their locks and promises, implement this.  *)
(***************************************************************************)
EXTENDS OAuthProvider

ASSUME OneSlot == Slots = {"keeper"}

VARIABLES
    token,      \* the token set in use
    phase,      \* how far a renewal has come
    fresh,      \* what it brought, while the keeper is told
    stored      \* what the keeper last put away

keeperVars == <<token, phase, fresh, stored>>
vars == <<providerVars, keeperVars>>

Wire == wire["keeper"]

TypeOK ==
    /\ ProviderTypeOK
    /\ token \in TokenSets
    /\ phase \in {"none", "asking", "keeping"}
    /\ fresh \in TokenSets
    /\ stored \in TokenSets

Init ==
    /\ ProviderInit
    /\ token \in GivenTokens
    /\ phase = "none"
    /\ fresh = NoTokens
    /\ stored = token

\* Defect: a refresh begins whether or not one is under way.
PresentAnyway ==
    /\ ~token.live
    /\ token.refresh # None
    /\ phase' = "asking"
    /\ wire' = [wire EXCEPT !["keeper"] = Asking(token.refresh)]
    /\ UNCHANGED <<current, alive, minted, good, orphans, cut, token, fresh, stored>>

\* A refresh begins only when none is under way, with the token held now.
Present ==
    /\ phase = "none"
    /\ ~token.live
    /\ token.refresh # None
    /\ phase' = "asking"
    /\ wire' = [wire EXCEPT !["keeper"] = Asking(token.refresh)]
    /\ UNCHANGED <<current, alive, minted, good, orphans, cut, token, fresh, stored>>

Adopt ==
    /\ phase = "asking"
    /\ Wire.at = "tokens"
    /\ token' = Adopted(Wire)
    /\ fresh' = Adopted(Wire)
    /\ phase' = "keeping"
    /\ wire' = [wire EXCEPT !["keeper"] = Idle]
    /\ UNCHANGED <<current, alive, minted, good, orphans, cut, stored>>

GiveUp ==
    /\ phase = "asking"
    /\ Wire.at \in {"refused", "broken"}
    /\ phase' = "none"
    /\ wire' = [wire EXCEPT !["keeper"] = Idle]
    /\ UNCHANGED <<current, alive, minted, good, orphans, cut, token, fresh, stored>>

Keep ==
    /\ phase = "keeping"
    /\ stored' = fresh
    /\ fresh' = NoTokens
    /\ phase' = "none"
    /\ UNCHANGED <<providerVars, token>>

\* The keeper throws: the token is in use all the same, and stored nowhere.
KeepFails ==
    /\ phase = "keeping"
    /\ phase' = "none"
    /\ fresh' = NoTokens
    /\ cut' = (cut \/ fresh.refresh # stored.refresh)
    /\ UNCHANGED <<current, alive, minted, good, wire, orphans, token, stored>>

\* The access token's hour is over, or a 401 had it forgotten; or, in the
\* TypeScript library, forget() dropped the refresh token with it.
Forget ==
    /\ token' \in {NoTokens, [token EXCEPT !.live = FALSE]}
    /\ UNCHANGED <<providerVars, phase, fresh, stored>>

\* What is cut off when a renewal is broken off at the point it has come to.
BreaksOff ==
    /\ orphans' = IF Wire.at = "out" THEN orphans \cup {Wire.refresh} ELSE orphans
    /\ cut' = \/ cut
              \/ Wire.at = "out"
              \/ Wire.at = "tokens" /\ Wire.refresh # None
              \/ phase = "keeping" /\ fresh.refresh # stored.refresh
    /\ wire' = [wire EXCEPT !["keeper"] = Idle]
    /\ phase' = "none"
    /\ fresh' = NoTokens
    /\ UNCHANGED <<current, alive, minted, good, stored>>

\* The call that was renewing is cancelled.
Cancel == phase # "none" /\ BreaksOff /\ UNCHANGED token

\* The process dies and another begins from what the keeper stored.
Restart == BreaksOff /\ token' = stored

Next ==
    \/ Present \/ Adopt \/ GiveUp \/ Keep \/ KeepFails
    \/ Forget
    \/ Cancel
    \/ Restart
    \/ ProviderNext /\ UNCHANGED keeperVars

Spec == Init /\ [][Next]_vars

\* Bound of the runs: states in which more tokens were minted are not explored
\* further.
Bound == minted <= MaxMinted

-----------------------------------------------------------------------------
(* Properties *)

\* While nothing was cut off, what the keeper holds or is being handed is the
\* one refresh token the provider still takes, and so is what a restart reads.
NewestIsHeld ==
    /\ alive
    /\ orphans = {}
    /\ phase = "asking" <=> Wire.at # "idle"
    /\ Wire.at = "out" => Wire.refresh = current
    /\ Wire.at = "tokens" => Adopted(Wire).refresh = current
    /\ token.refresh \in {None, IF Wire.at = "tokens" THEN Wire.asked ELSE current}
    /\ phase = "keeping" => fresh.refresh = current
    /\ \/ stored.refresh \in {None, current}
       \/ phase = "keeping"
       \/ Wire.at = "tokens" /\ Wire.refresh # None

IInv == TypeOK /\ (~cut => NewestIsHeld)
=============================================================================
