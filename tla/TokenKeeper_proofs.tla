------------------------- MODULE TokenKeeper_proofs -------------------------
(***************************************************************************)
(* Proofs about TokenKeeper, for any number of rotations.  The lemmas      *)
(* about the provider stand in Calls_proofs; no call is spoken of here.    *)
(***************************************************************************)
EXTENDS TokenKeeper, Calls_proofs

\* The initial states have the types the comments in TokenKeeper give.
LEMMA TypeInit == Init => TypeOK
  BY ProviderTypeInit, TokenSetsBuilt DEF Init, TypeOK, GivenTokens

\* Every step, whether the keeper's or the provider's, keeps those types.
LEMMA TypeStep == TypeOK /\ [Next]_vars => TypeOK'
<1> SUFFICES ASSUME TypeOK, [Next]_vars PROVE TypeOK'
  OBVIOUS
<1>1. CASE ProviderNext /\ UNCHANGED keeperVars
  BY <1>1, ProviderTypeStep DEF TypeOK, keeperVars
<1> USE DEF TypeOK, ProviderTypeOK
<1>w. Wire \in Wires
  BY OneSlot DEF Wire
<1>2. CASE Present
  BY <1>2, WiresBuilt DEF Present, TokenSets
<1>3. CASE Adopt
  BY <1>3, <1>w, WiresBuilt, WireFields DEF Adopt
<1>4. CASE GiveUp
  BY <1>4, WiresBuilt DEF GiveUp
<1>5. CASE Keep
  BY <1>5, TokenSetsBuilt DEF Keep, providerVars
<1>6. CASE KeepFails
  BY <1>6, TokenSetsBuilt DEF KeepFails
<1>7. CASE Forget
  BY <1>7, TokenSetsBuilt DEF Forget, providerVars
<1>8. CASE Cancel \/ Restart
  BY <1>8, <1>w, WiresBuilt, WireFields, TokenSetsBuilt DEF Cancel, Restart, BreaksOff
<1>9. CASE UNCHANGED vars
  BY <1>9 DEF vars, providerVars, keeperVars
<1>10. QED
  BY <1>1, <1>2, <1>3, <1>4, <1>5, <1>6, <1>7, <1>8, <1>9 DEF Next

\* Every variable keeps its type: TokenKeeper's state is what the comments
\* beside its variables say.
THEOREM TypeCorrect == Spec => []TypeOK
<1>1. QED
  BY TypeInit, TypeStep, PTL DEF Spec

-----------------------------------------------------------------------------
\* While nothing is cut off, a step of the provider leaves the keeper with the
\* newest refresh token, or with an answer that brings it.
LEMMA ProviderKeepsNewest ==
    ASSUME TypeOK, NewestIsHeld, ProviderNext, UNCHANGED keeperVars, ~cut'
    PROVE  NewestIsHeld'
<1> USE DEF TypeOK, ProviderTypeOK, NewestIsHeld, keeperVars
<1>w. Wire \in Wires
  BY OneSlot DEF Wire
<1>1. CASE Issue("keeper")
  <2>1. PICK rotates \in BOOLEAN :
           /\ TakeCurrent(Wire.refresh, rotates)
           /\ Wire' = Tokens(minted + 1, IF rotates THEN current + 1 ELSE None,
                             Wire.refresh)
    BY <1>1, OneSlot DEF Issue, Wire
  <2>2. Wire.at = "out" /\ orphans' = orphans
    BY <1>1 DEF Issue, Wire
  <2>3. Wire'.at = "tokens" /\ Wire'.asked = current
        /\ Wire'.refresh = IF rotates THEN current + 1 ELSE None
    BY <2>1, <2>2 DEF Tokens
  <2>4. Adopted(Wire').refresh = current'
    BY <2>1, <2>3 DEF Adopted, TakeCurrent, None
  <2>5. alive' /\ token' = token /\ phase' = phase /\ fresh' = fresh /\ stored' = stored
    BY <2>1 DEF TakeCurrent
  <2>6. stored'.refresh \in {None, current'} \/ phase' = "keeping" \/ Wire'.refresh # None
    BY <2>1, <2>2, <2>3, <2>5 DEF TakeCurrent, None
  <2>7. QED
    BY <2>2, <2>3, <2>4, <2>5, <2>6
<1>2. CASE Kill("keeper")
  BY <1>2 DEF Kill, KillFamily, Wire
<1>3. CASE Unserved("keeper")
  <2>1. Wire'.at = "broken" /\ Wire.at = "out"
    BY <1>3, OneSlot DEF Unserved, Wire, Broken
  <2>2. QED
    BY <1>3, <2>1 DEF Unserved
<1>4. CASE LoseAnswer("keeper")
  <2>1. Wire'.at = "broken" /\ Wire.at = "tokens" /\ Wire.refresh = None
    BY <1>4, OneSlot DEF LoseAnswer, Wire, Broken
  <2>2. Wire.asked = current
    BY <2>1 DEF Adopted
  <2>3. QED
    BY <1>4, <2>1, <2>2 DEF LoseAnswer
<1>5. ASSUME NEW r \in orphans, ServeOrphan(r) PROVE NewestIsHeld'
  BY <1>5
<1>6. ASSUME NEW a \in good, Revoke(a) PROVE NewestIsHeld'
  BY <1>6 DEF Revoke, Wire
<1>7. QED
  BY <1>1, <1>2, <1>3, <1>4, <1>5, <1>6, OneSlot DEF ProviderNext, ProviderStep

\* The same for the keeper's own steps.
LEMMA KeeperKeepsNewest ==
    ASSUME TypeOK, NewestIsHeld, ~cut',
           Present \/ Adopt \/ GiveUp \/ Keep \/ KeepFails \/ Forget \/ Cancel \/ Restart
    PROVE  NewestIsHeld'
<1> USE DEF TypeOK, ProviderTypeOK, NewestIsHeld
<1>w. Wire \in Wires
  BY OneSlot DEF Wire
<1>1. CASE Present
  BY <1>1, OneSlot DEF Present, Wire, Asking, Idle
<1>2. CASE Adopt
  <2>1. Wire'.at = "idle" /\ token' = Adopted(Wire) /\ fresh' = Adopted(Wire)
    BY <1>2, OneSlot DEF Adopt, Wire, Idle
  <2>2. QED
    BY <1>2, <2>1 DEF Adopt
<1>3. CASE GiveUp
  BY <1>3, OneSlot DEF GiveUp, Wire, Idle
<1>4. CASE Keep
  BY <1>4 DEF Keep, providerVars, Wire
<1>5. CASE KeepFails
  BY <1>5 DEF KeepFails, Wire
<1>6. CASE Forget
  <2>1. token'.refresh \in {None, token.refresh}
    BY <1>6 DEF Forget, NoTokens, TokenSets
  <2>2. QED
    BY <1>6, <2>1 DEF Forget, providerVars, Wire
<1>7. CASE Cancel \/ Restart
  <2>1. wire' = [wire EXCEPT !["keeper"] = Idle]
    BY <1>7 DEF Cancel, Restart, BreaksOff
  <2>2. Wire'.at = "idle"
    BY <2>1, OneSlot DEF Wire, Idle
  <2>3. QED
    BY <1>7, <2>2 DEF Cancel, Restart, BreaksOff, Adopted
<1>8. QED
  BY <1>1, <1>2, <1>3, <1>4, <1>5, <1>6, <1>7

\* What was cut off stays cut off.
LEMMA CutStays ==
    ASSUME TypeOK, [Next]_vars, cut
    PROVE  cut'
  BY DEF Next, vars, providerVars, keeperVars, Present, Adopt, GiveUp, Keep, KeepFails,
         Forget, Cancel, Restart, BreaksOff, ProviderNext, ProviderStep, Issue, Kill,
         Unserved, LoseAnswer, ServeOrphan, Revoke

\* Until a rotation is cut off, what the keeper holds, is being handed or has
\* stored is the one refresh token that the provider still takes.
THEOREM KeepsTheNewest == Spec => []IInv
<1>1. Init => IInv
  <2>1. Init => NewestIsHeld
    BY OneSlot DEF Init, ProviderInit, NewestIsHeld, Wire, Idle, GivenTokens, FirstTokens
  <2>2. QED
    BY <2>1, TypeInit DEF IInv
<1>2. IInv /\ [Next]_vars => IInv'
  <2> SUFFICES ASSUME TypeOK, ~cut => NewestIsHeld, [Next]_vars, ~cut'
               PROVE  NewestIsHeld'
    BY TypeStep DEF IInv
  <2>1. NewestIsHeld
    BY CutStays
  <2>2. CASE ProviderNext /\ UNCHANGED keeperVars
    BY <2>1, <2>2, ProviderKeepsNewest
  <2>3. CASE Present \/ Adopt \/ GiveUp \/ Keep \/ KeepFails \/ Forget \/ Cancel \/ Restart
    BY <2>1, <2>3, KeeperKeepsNewest
  <2>4. CASE UNCHANGED vars
    BY <2>1, <2>4 DEF NewestIsHeld, vars, providerVars, keeperVars, Wire
  <2>5. QED
    BY <2>2, <2>3, <2>4 DEF Next
<1>3. QED
  BY <1>1, <1>2, PTL DEF Spec

\* The family of refresh tokens is killed only after a rotation was cut off on
\* its way to the client or its keeper: a UserToken that behaves as TokenKeeper
\* never signs its user out by itself.
THEOREM NeverKillsItsFamily == Spec => []KilledOnlyWhenCut
<1>1. IInv => KilledOnlyWhenCut
  BY DEF IInv, NewestIsHeld, KilledOnlyWhenCut
<1>2. QED
  BY <1>1, KeepsTheNewest, PTL
=============================================================================
