--------------------------- MODULE TsClient_proofs --------------------------
(***************************************************************************)
(* The TypeScript client, for any number of calls at once, of retries and  *)
(* of rotations: no call repeats a token that was refused, the client      *)
(* implements TokenKeeper, and what TokenKeeper promises holds of it.      *)
(***************************************************************************)
EXTENDS TsClient, Calls_proofs

\* The initial states have the types the comments in TsClient give.
LEMMA TypeInit == Init => TypeOK
<1>1. CallsInit => CallsTypeOK
  BY CallsBuiltAtFirst DEF CallsInit, CallsTypeOK
<1>2. QED
  BY <1>1, ProviderTypeInit, TokenSetsBuilt DEF Init, TypeOK

\* The calls that wait on the promise go on, and are call records still.
LEMMA PromiseTyped ==
    ASSUME CallsTypeOK, Reject \/ \E a \in Nat : Fulfil(a)
    PROVE  CallsTypeOK'
  BY CallsBuilt DEF CallsTypeOK, Reject, Fulfil

\* A step of a call keeps the types.
LEMMA CallStepTyped ==
    ASSUME TypeOK, NEW c \in Callers, Begin(c) \/ CallStep(c)
    PROVE  TypeOK'
<1> USE DEF TypeOK
<1>k. call[c] \in CallRecords
  BY DEF CallsTypeOK
<1>t. token.access \in Nat /\ token.refresh \in Nat
  BY DEF TokenSets
<1>p. "joined" \in Places
  BY DEF Places
<1>n. ASSUME CallsTypeOK', UNCHANGED <<providerVars, tokenVars>> PROVE TypeOK'
  BY <1>n DEF providerVars, tokenVars, ProviderTypeOK
<1>1. CASE Begin(c)
  BY <1>1, <1>n, <1>k, CallsBuilt, BecomesTyped DEF Begin
<1>2. CASE FreshHeld(c)
  BY <1>2, <1>n, <1>k, <1>t, CallsBuilt, BecomesTyped DEF FreshHeld
<1>3. CASE FreshJoins(c)
  BY <1>3, <1>n, <1>p, GoesTyped DEF FreshJoins
<1>4. CASE FreshRenews(c)
  <2>1. CallsTypeOK'
    BY <1>4, <1>p, GoesTyped DEF FreshRenews
  <2>2. wire' \in [Slots -> Wires]
    BY <1>4, <1>t, WiresBuilt DEF FreshRenews, ProviderTypeOK
  <2>3. QED
    BY <1>4, <2>1, <2>2 DEF FreshRenews, ProviderTypeOK
<1>5. CASE FreshThrows(c)
  BY <1>5, <1>n, <1>k, CallsBuilt, BecomesTyped DEF FreshThrows
<1>6. CASE HandleOk(c) \/ HandleRefusal(c)
  BY <1>6, <1>n, <1>k, CallsBuilt, BecomesTyped DEF HandleOk, HandleRefusal, Ends
<1>7. CASE HandleRetry(c)
  BY <1>7, <1>n, <1>k, CallsBuilt, BecomesTyped DEF HandleRetry
<1>8. CASE HandleUnauthorized(c)
  <2>1. [Unauthed(call[c]) EXCEPT !.at = "joined", !.attempt = @ + 1] \in CallRecords
    <3>1. Unauthed(call[c]) \in CallRecords
      BY <1>k, CallsBuilt
    <3>2. Unauthed(call[c]).attempt + 1 \in Nat
      BY <3>1, CallRecordFields
    <3>3. QED
      BY <3>1, <3>2, <1>p, Zenon DEF CallRecords
  <2>2. CallsTypeOK'
    BY <1>8, <1>k, <2>1, CallsBuilt, BecomesTyped DEF HandleUnauthorized, Ends
  <2>3. QED
    BY <1>8, <2>2, TokenSetsBuilt DEF HandleUnauthorized, providerVars, ProviderTypeOK
<1>9. QED
  BY <1>1, <1>2, <1>3, <1>4, <1>5, <1>6, <1>7, <1>8 DEF CallStep

\* So do the steps of the renewal.
LEMMA RenewalTyped ==
    ASSUME TypeOK, RenewalStep
    PROVE  TypeOK'
<1> USE DEF TypeOK
<1>w. wire[W] \in Wires
  BY TsAssumption DEF W, ProviderTypeOK
<1>t. fresh.access \in Nat
  BY DEF TokenSets
<1>1. CASE Renewed
  BY <1>1, <1>w, WireFields, WiresBuilt DEF Renewed, ProviderTypeOK, CallsTypeOK
<1>2. CASE RenewFails
  BY <1>2, WiresBuilt, PromiseTyped DEF RenewFails, ProviderTypeOK
<1>3. CASE Kept
  BY <1>3, <1>t, TokenSetsBuilt, PromiseTyped DEF Kept, providerVars, ProviderTypeOK
<1>4. CASE KeepFails
  BY <1>4, TokenSetsBuilt, PromiseTyped DEF KeepFails, ProviderTypeOK
<1>5. QED
  BY <1>1, <1>2, <1>3, <1>4 DEF RenewalStep

\* And the steps of the world: the clock, a crash, the provider and the api.
LEMMA TypeStep == TypeOK /\ [Next]_vars => TypeOK'
<1> SUFFICES ASSUME TypeOK, [Next]_vars PROVE TypeOK'
  OBVIOUS
<1> USE DEF TypeOK
<1>1. ASSUME NEW c \in Callers, Begin(c) \/ CallStep(c) PROVE TypeOK'
  BY <1>1, CallStepTyped
<1>2. ASSUME NEW c \in Callers, Answer(c) \/ Unanswered(c), UNCHANGED <<providerVars, tokenVars>>
      PROVE  TypeOK'
  BY <1>2, AnswerTyped DEF providerVars, tokenVars, ProviderTypeOK
<1>3. CASE RenewalStep
  BY <1>3, RenewalTyped
<1>4. CASE Lapse
  BY <1>4, TokenSetsBuilt DEF Lapse, providerVars, ProviderTypeOK, CallsTypeOK
<1>5. CASE Restart
  <2>1. wire[W] \in Wires
    BY TsAssumption DEF W, ProviderTypeOK
  <2>2. orphans' \in SUBSET Nat
    BY <1>5, <2>1, WireFields DEF Restart, ProviderTypeOK
  <2>3. CallsTypeOK'
    BY <1>5, CallsBuiltAtFirst DEF Restart, CallsTypeOK
  <2>4. QED
    BY <1>5, <2>2, <2>3, WiresBuilt, TokenSetsBuilt DEF Restart, ProviderTypeOK
<1>6. CASE ProviderNext /\ UNCHANGED <<tokenVars, call>>
  BY <1>6, ProviderTypeStep DEF tokenVars, CallsTypeOK
<1>7. CASE UNCHANGED vars
  BY <1>7 DEF vars, providerVars, tokenVars, ProviderTypeOK, CallsTypeOK
<1>8. QED
  BY <1>1, <1>2, <1>3, <1>4, <1>5, <1>6, <1>7 DEF Next

\* Every variable of the TypeScript client keeps its type.
THEOREM TypeCorrect == Spec => []TypeOK
<1>1. QED
  BY TypeInit, TypeStep, PTL DEF Spec

-----------------------------------------------------------------------------
(* A 401 is not answered with the same token again *)

\* Nobody has a token newer than any that was minted; an answer on its way is
\* newer than whatever anybody has; and a token whose 401 used up a call's
\* refresh is neither live nor handed to that call by the renewal that is being
\* kept, which the call is itself waiting for, to go round its loop again.
RetryInv ==
    /\ token.access <= minted /\ stored.access <= minted
    /\ renewing = "keeping" => fresh.access <= minted
    /\ \A c \in Callers : call[c].bearer <= minted /\ call[c].spent <= minted
    /\ wire[W].at # "idle" => renewing = "asking"
    /\ wire[W].at = "tokens" =>
        /\ token.access < wire[W].access /\ wire[W].access <= minted
        /\ \A c \in Callers : call[c].bearer < wire[W].access /\ call[c].spent < wire[W].access
    /\ \A c \in Callers : call[c].spent # None /\ token.live => call[c].spent # token.access
    /\ \A c \in Callers :
        renewing = "keeping" /\ call[c].spent # None /\ call[c].spent = fresh.access
            => call[c].at = "joined" /\ call[c].again
    /\ RetriesWithAnother

\* At the start there is nothing to retry.
LEMMA RetryInit == Init => RetryInv
<1> SUFFICES ASSUME Init PROVE RetryInv
  OBVIOUS
<1>1. \A c \in Callers : call[c].bearer = None /\ call[c].spent = None
  BY BlankRecords DEF Init, CallsInit
<1>2. token.access = 1 /\ stored.access = 1 /\ minted = 1 /\ wire[W].at = "idle" /\ renewing = "none"
  BY TsAssumption DEF Init, ProviderInit, GivenTokens, FirstTokens, Idle, W
<1>3. QED
  BY <1>1, <1>2 DEF RetryInv, RetriesWithAnother, None

\* A call that moves by itself, with the token in use if it gets one at all.
CallMoves(c) ==
    /\ UNCHANGED <<providerVars, tokenVars>>
    /\ call[c].at # "joined"
    /\ \E k \in CallRecords :
        /\ Becomes(c, k)
        /\ k.spent \in {None, call[c].spent}
        /\ \/ k.bearer \in {None, call[c].bearer}
           \/ k.bearer = token.access /\ token.live

\* The steps of a call that are such moves.
LEMMA QuietSteps ==
    ASSUME TypeOK, NEW c \in Callers,
           \/ Begin(c) \/ FreshHeld(c) \/ FreshJoins(c) \/ FreshThrows(c)
           \/ HandleOk(c) \/ HandleRetry(c) \/ HandleRefusal(c)
           \/ (Answer(c) \/ Unanswered(c)) /\ UNCHANGED <<providerVars, tokenVars>>
    PROVE  CallMoves(c)
<1>a. call[c].at # "joined" /\ UNCHANGED <<providerVars, tokenVars>>
  BY DEF Begin, FreshHeld, FreshJoins, FreshThrows, HandleOk, HandleRetry, HandleRefusal, Handles,
     Answer, Unanswered
<1>k. call[c] \in CallRecords /\ token.access \in Nat
  BY DEF TypeOK, CallsTypeOK, TokenSets
<1>1. CASE Begin(c) \/ FreshThrows(c) \/ HandleOk(c) \/ HandleRefusal(c)
  BY <1>1, <1>a, BlankRecords, CallsBuiltAtFirst
     DEF CallMoves, Begin, FreshThrows, HandleOk, HandleRefusal, Ends
<1>2. CASE FreshHeld(c)
  <2> DEFINE k == Got(call[c], token.access)
  <2>1. /\ k \in CallRecords /\ k.spent = call[c].spent
        /\ k.bearer = call[c].bearer \/ k.bearer = token.access
    BY <1>k, GotMade
  <2>2. Becomes(c, k) /\ token.live
    BY <1>2 DEF FreshHeld
  <2> HIDE DEF k
  <2>3. QED
    BY <1>a, <2>1, <2>2 DEF CallMoves
<1>3. CASE FreshJoins(c)
  <2> DEFINE k == [call[c] EXCEPT !.at = "joined"]
  <2>1. k \in CallRecords /\ k.bearer = call[c].bearer /\ k.spent = call[c].spent
    BY <1>k DEF CallRecords, Places
  <2>2. Becomes(c, k)
    BY <1>3 DEF FreshJoins, Goes, Becomes
  <2> HIDE DEF k
  <2>3. QED
    BY <1>a, <2>1, <2>2 DEF CallMoves
<1>4. CASE HandleRetry(c)
  BY <1>4, <1>a, <1>k, RecordsMade, CallsBuilt DEF CallMoves, HandleRetry
<1>5. CASE Answer(c) \/ Unanswered(c)
  <2>1. PICK v \in Statuses : call' = [call EXCEPT ![c].at = "handle", ![c].status = v]
    BY <1>5 DEF Answer, Unanswered, Verdicts, Statuses
  <2> DEFINE k == [call[c] EXCEPT !.at = "handle", !.status = v]
  <2>2. k \in CallRecords /\ k.bearer = call[c].bearer /\ k.spent = call[c].spent
    BY <1>k DEF CallRecords, Places
  <2>3. Becomes(c, k)
    BY <2>1 DEF Becomes
  <2> HIDE DEF k
  <2>4. QED
    BY <1>a, <2>2, <2>3 DEF CallMoves
<1>6. QED
  BY <1>1, <1>2, <1>3, <1>4, <1>5

\* Such a move neither brings a token back nor makes a call miss its renewal.
LEMMA MovesRetry ==
    ASSUME TypeOK, RetryInv, NEW c \in Callers, CallMoves(c)
    PROVE  RetryInv'
<1>1. PICK k \in CallRecords :
        /\ call'[c] = k
        /\ k.spent \in {None, call[c].spent}
        /\ k.bearer \in {None, call[c].bearer} \/ (k.bearer = token.access /\ token.live)
  BY Became DEF CallMoves, TypeOK
<1>2. \A d \in Callers \ {c} : call'[d] = call[d]
  BY Became DEF CallMoves, TypeOK
<1>3. UNCHANGED <<minted, wire, token, renewing, fresh, stored>> /\ call[c].at # "joined"
  BY DEF CallMoves, providerVars, tokenVars
<1>n. minted \in Nat /\ minted >= 0 /\ token.access \in Nat
  BY DEF TypeOK, ProviderTypeOK, TokenSets
<1>4. \A d \in Callers : call'[d].bearer <= minted' /\ call'[d].spent <= minted'
  BY <1>1, <1>2, <1>3, <1>n DEF RetryInv, None
<1>5. wire[W].at = "tokens" =>
        /\ token.access < wire[W].access /\ wire[W].access <= minted
        /\ \A d \in Callers : call'[d].bearer < wire[W].access /\ call'[d].spent < wire[W].access
  <2> SUFFICES ASSUME wire[W].at = "tokens"
               PROVE  /\ token.access < wire[W].access /\ wire[W].access <= minted
                      /\ \A d \in Callers : /\ call'[d].bearer < wire[W].access
                                            /\ call'[d].spent < wire[W].access
    OBVIOUS
  <2>1. wire[W].access \in Nat
    BY TsAssumption, WireFields DEF TypeOK, ProviderTypeOK, W
  <2>2. token.access < wire[W].access /\ 0 < wire[W].access
    BY <1>n, <2>1 DEF RetryInv
  <2>3. QED
    BY <1>1, <1>2, <2>2 DEF RetryInv, None
<1>6. \A d \in Callers : call'[d].spent # None /\ token.live => call'[d].spent # token.access
  BY <1>1, <1>2 DEF RetryInv
<1>7. \A d \in Callers :
        renewing = "keeping" /\ call'[d].spent # None /\ call'[d].spent = fresh.access
            => call'[d].at = "joined" /\ call'[d].again
  BY <1>1, <1>2, <1>3 DEF RetryInv
<1>8. RetriesWithAnother'
  BY <1>1, <1>2, <1>6 DEF RetryInv, RetriesWithAnother
<1>9. QED
  BY <1>3, <1>4, <1>5, <1>6, <1>7, <1>8 DEF RetryInv

\* The 401 drops the token, and the call waits for what is under way or is over.
LEMMA UnauthorizedRetry ==
    ASSUME TypeOK, RetryInv, NEW c \in Callers, HandleUnauthorized(c)
    PROVE  RetryInv'
<1>k. call[c] \in CallRecords
  BY DEF TypeOK, CallsTypeOK
<1> DEFINE u == Unauthed(call[c])
           j == [u EXCEPT !.at = "joined", !.attempt = @ + 1]
<1>u. u \in CallRecords /\ u.bearer = None /\ u.spent = call[c].bearer /\ u.again
  BY <1>k, RecordsMade, CallsBuilt
<1>j. j.at = "joined" /\ j.again /\ j.bearer = None /\ j.spent = call[c].bearer
  <2> HIDE DEF u
  <2>1. QED
    BY <1>u DEF CallRecords
<1>h. /\ renewing = "none" => Becomes(c, Over)
      /\ renewing # "none" => Becomes(c, j)
  BY DEF HandleUnauthorized, Ends
<1> HIDE DEF u, j
<1>1. /\ call'[c].bearer = None
      /\ call'[c].spent \in {None, call[c].bearer}
      /\ renewing = "keeping" => call'[c].at = "joined" /\ call'[c].again
      /\ \A d \in Callers \ {c} : call'[d] = call[d]
  BY <1>h, <1>j, Became, BlankRecords DEF TypeOK
<1>2. UNCHANGED <<minted, wire, renewing, fresh, stored>> /\ token' = NoTokens
  BY DEF HandleUnauthorized, providerVars
<1>3. token'.access = 0 /\ ~token'.live
  BY <1>2 DEF NoTokens, None
<1>n. minted \in Nat /\ 0 <= minted /\ token.access \in Nat
  BY DEF TypeOK, ProviderTypeOK, TokenSets
<1>4. \A d \in Callers : call'[d].bearer <= minted' /\ call'[d].spent <= minted'
  BY <1>1, <1>2, <1>n DEF RetryInv, None
<1>5. ASSUME wire[W].at = "tokens"
      PROVE  /\ token'.access < wire[W].access /\ wire[W].access <= minted
             /\ \A d \in Callers : call'[d].bearer < wire[W].access /\ call'[d].spent < wire[W].access
  <2>1. wire[W].access \in Nat
    BY <1>5, TsAssumption, WireFields DEF TypeOK, ProviderTypeOK, W
  <2>2. 0 < wire[W].access
    BY <1>n, <1>5, <2>1 DEF RetryInv
  <2>3. QED
    BY <1>1, <1>3, <1>5, <2>2 DEF RetryInv, None
<1>6. \A d \in Callers :
        renewing = "keeping" /\ call'[d].spent # None /\ call'[d].spent = fresh.access
            => call'[d].at = "joined" /\ call'[d].again
  BY <1>1 DEF RetryInv
<1>7. RetriesWithAnother'
  BY <1>1 DEF RetryInv, RetriesWithAnother
<1>8. QED
  BY <1>2, <1>3, <1>4, <1>5, <1>6, <1>7, <1>n DEF RetryInv

\* The token request is sent: nothing is kept yet, and nothing has been answered.
LEMMA RenewsRetry ==
    ASSUME TypeOK, RetryInv, NEW c \in Callers, FreshRenews(c)
    PROVE  RetryInv'
<1>1. \A d \in Callers : call'[d].bearer = call[d].bearer /\ call'[d].spent = call[d].spent
  BY DEF FreshRenews, Goes, TypeOK, CallsTypeOK, CallRecords
<1>2. UNCHANGED <<minted, token, stored>> /\ renewing' = "asking"
  BY DEF FreshRenews
<1>3. wire'[W].at = "out"
  BY TsAssumption DEF FreshRenews, Asking, TypeOK, ProviderTypeOK, W
<1>4. RetriesWithAnother'
  BY <1>1 DEF RetryInv, RetriesWithAnother
<1>5. QED
  BY <1>1, <1>2, <1>3, <1>4 DEF RetryInv

\* What the renewal brings is newer than what anybody has, and what it hands to
\* the calls that wait is another token than theirs, or sends them round again.
LEMMA RenewalRetry ==
    ASSUME TypeOK, RetryInv, RenewalStep
    PROVE  RetryInv'
<1>k. \A d \in Callers : call[d] \in CallRecords
  BY DEF TypeOK, CallsTypeOK
<1>f. fresh.access \in Nat
  BY DEF TypeOK, TokenSets
<1>r. ASSUME Reject
      PROVE  \A d \in Callers : \/ call'[d] = call[d]
                                \/ call'[d].bearer = None /\ call'[d].spent = None
  BY <1>r, BlankRecords DEF Reject
<1>n. minted \in Nat /\ 0 <= minted
  BY DEF TypeOK, ProviderTypeOK
<1>1. CASE Renewed
  <2>1. token'.access = wire[W].access /\ fresh'.access = wire[W].access
    BY <1>1 DEF Renewed, Adopted
  <2>2. wire'[W].at = "idle"
    BY <1>1, TsAssumption DEF Renewed, Idle, TypeOK, ProviderTypeOK, W
  <2>3. UNCHANGED <<minted, stored, call>> /\ wire[W].at = "tokens"
    BY <1>1 DEF Renewed
  <2>4. wire[W].access \in Nat /\ \A d \in Callers : call[d].spent \in Nat
    BY <1>k, <2>3, TsAssumption, WireFields DEF TypeOK, ProviderTypeOK, W, CallRecords
  <2>5. \A d \in Callers : call[d].spent # wire[W].access
    BY <2>3, <2>4 DEF RetryInv
  <2>6. RetriesWithAnother'
    BY <2>3 DEF RetryInv, RetriesWithAnother
  <2>7. QED
    BY <2>1, <2>2, <2>3, <2>5, <2>6 DEF RetryInv
<1>2. CASE RenewFails \/ KeepFails
  <2>1. wire'[W].at = "idle" /\ renewing' = "none" /\ UNCHANGED <<minted, token, stored>> /\ Reject
    BY <1>2, TsAssumption DEF RenewFails, KeepFails, Idle, TypeOK, ProviderTypeOK, W, RetryInv
  <2>2. \A d \in Callers : call'[d].bearer <= minted /\ call'[d].spent <= minted
    BY <1>n, <1>r, <2>1 DEF RetryInv, None
  <2>3. \A d \in Callers : call'[d].spent # None /\ token.live => call'[d].spent # token.access
    BY <1>r, <2>1 DEF RetryInv
  <2>4. RetriesWithAnother'
    BY <1>r, <2>1 DEF RetryInv, RetriesWithAnother
  <2>5. QED
    BY <2>1, <2>2, <2>3, <2>4 DEF RetryInv
<1>3. CASE Kept
  <2>1. wire[W].at = "idle" /\ renewing = "keeping" /\ renewing' = "none"
        /\ UNCHANGED <<minted, token, wire>> /\ stored' = fresh
    BY <1>3 DEF Kept, RetryInv, providerVars
  <2>2. \A d \in Callers :
          /\ call'[d].spent = call[d].spent
          /\ \/ call'[d].bearer = call[d].bearer
             \/ /\ call[d].at = "joined" /\ ~call[d].again
                /\ call'[d].bearer = fresh.access
    BY <1>3, <1>k, <1>f DEF Kept, Fulfil, Got, CallRecords
  <2>3. \A d \in Callers : call'[d].bearer <= minted /\ call'[d].spent <= minted
    BY <2>1, <2>2 DEF RetryInv
  <2>4. RetriesWithAnother'
    BY <2>1, <2>2 DEF RetryInv, RetriesWithAnother
  <2>5. QED
    BY <2>1, <2>2, <2>3, <2>4 DEF RetryInv
<1>4. QED
  BY <1>1, <1>2, <1>3 DEF RenewalStep

\* The clock, a crash and the provider change nothing about it.
LEMMA WorldRetry ==
    ASSUME TypeOK, RetryInv,
           Lapse \/ Restart \/ (ProviderNext /\ UNCHANGED <<tokenVars, call>>)
    PROVE  RetryInv'
<1>n. minted \in Nat /\ 0 <= minted
  BY DEF TypeOK, ProviderTypeOK
<1>1. CASE Lapse
  <2>1. token'.access = token.access /\ ~token'.live
    BY <1>1 DEF Lapse, TypeOK, TokenSets
  <2>2. UNCHANGED <<minted, wire, renewing, fresh, stored, call>>
    BY <1>1 DEF Lapse, providerVars
  <2>3. RetriesWithAnother'
    BY <2>2 DEF RetryInv, RetriesWithAnother
  <2>4. QED
    BY <2>1, <2>2, <2>3 DEF RetryInv
<1>2. CASE Restart
  <2>1. \A d \in Callers : call'[d].bearer = None /\ call'[d].spent = None
    BY <1>2, BlankRecords DEF Restart
  <2>2. wire'[W].at = "idle" /\ token' = stored /\ renewing' = "none" /\ UNCHANGED <<minted, stored>>
    BY <1>2, TsAssumption DEF Restart, Idle, TypeOK, ProviderTypeOK, W
  <2>3. QED
    BY <1>n, <2>1, <2>2 DEF RetryInv, RetriesWithAnother, None
<1>3. CASE ProviderNext /\ UNCHANGED <<tokenVars, call>>
  <2>1. UNCHANGED <<token, renewing, fresh, stored, call>>
    BY <1>3 DEF tokenVars
  <2>2. minted' \in {minted, minted + 1} /\ Answered(W)
    BY <1>3, ProviderAnswers, TsAssumption DEF TypeOK, W
  <2>t. token.access \in Nat /\ stored.access \in Nat /\ fresh.access \in Nat
        /\ \A d \in Callers : call[d].bearer \in Nat /\ call[d].spent \in Nat
    BY DEF TypeOK, TokenSets, CallsTypeOK, CallRecords
  <2>3. /\ token.access <= minted' /\ stored.access <= minted'
        /\ renewing = "keeping" => fresh.access <= minted'
        /\ \A d \in Callers : call[d].bearer <= minted' /\ call[d].spent <= minted'
    BY <1>n, <2>2, <2>t DEF RetryInv
  <2>4. wire'[W].at # "idle" => renewing = "asking"
    BY <2>2 DEF Answered, RetryInv
  <2>5. ASSUME wire'[W].at = "tokens"
        PROVE  /\ token.access < wire'[W].access /\ wire'[W].access <= minted'
               /\ \A d \in Callers : call[d].bearer < wire'[W].access /\ call[d].spent < wire'[W].access
    <3>1. CASE wire'[W] = wire[W]
      <4>1. wire[W].access \in Nat
        BY <2>5, <3>1, TsAssumption, WireFields DEF TypeOK, ProviderTypeOK, W
      <4>2. wire[W].access <= minted
        BY <2>5, <3>1 DEF RetryInv
      <4>3. wire[W].access <= minted'
        BY <1>n, <2>2, <4>1, <4>2
      <4>4. QED
        BY <2>5, <3>1, <4>3 DEF RetryInv
    <3>2. CASE wire'[W].access = minted + 1 /\ minted' = minted + 1
      BY <1>n, <2>t, <3>2 DEF RetryInv
    <3>3. QED
      BY <2>2, <2>5, <3>1, <3>2 DEF Answered
  <2>6. RetriesWithAnother'
    BY <2>1 DEF RetryInv, RetriesWithAnother
  <2>7. QED
    BY <2>1, <2>3, <2>4, <2>5, <2>6 DEF RetryInv
<1>4. QED
  BY <1>1, <1>2, <1>3

\* It is inductive.
LEMMA RetryStep == TypeOK /\ RetryInv /\ [Next]_vars => RetryInv'
<1> SUFFICES ASSUME TypeOK, RetryInv, [Next]_vars PROVE RetryInv'
  OBVIOUS
<1>1. ASSUME NEW c \in Callers, Begin(c) \/ CallStep(c) PROVE RetryInv'
  BY <1>1, QuietSteps, MovesRetry, UnauthorizedRetry, RenewsRetry DEF CallStep
<1>2. ASSUME NEW c \in Callers, (Answer(c) \/ Unanswered(c)) /\ UNCHANGED <<providerVars, tokenVars>>
      PROVE  RetryInv'
  BY <1>2, QuietSteps, MovesRetry
<1>3. CASE UNCHANGED vars
  <2>1. UNCHANGED <<minted, wire, token, renewing, fresh, stored, call>>
    BY <1>3 DEF vars, providerVars, tokenVars
  <2>2. QED
    BY <2>1 DEF RetryInv, RetriesWithAnother
<1>4. QED
  BY <1>1, <1>2, <1>3, RenewalRetry, WorldRetry DEF Next

\* A call of the TypeScript client that was answered with a 401 never sends the
\* same access token again, whichever of the calls renews and whenever.
THEOREM SendsAnother == Spec => []RetriesWithAnother
<1>1. RetryInv => RetriesWithAnother
  BY DEF RetryInv
<1>2. QED
  BY <1>1, TypeInit, TypeStep, RetryInit, RetryStep, PTL DEF Spec

-----------------------------------------------------------------------------
(* The refinement: each step is a step of the keeper, or none of its own. *)

\* A client starts as a token keeper does.
LEMMA KeeperInit == Init => Keeper!Init
  BY TsAssumption
     DEF Init, ProviderInit, W, Keeper!Init, Keeper!ProviderInit, Idle, Keeper!Idle,
         GivenTokens, Keeper!GivenTokens, FirstTokens, Keeper!FirstTokens, NoTokens,
         Keeper!NoTokens, None, Keeper!None

\* A step of a call that leaves the tokens and the provider alone is none of the
\* keeper's.
LEMMA KeeperStutters ==
    ASSUME UNCHANGED <<providerVars, tokenVars>>
    PROVE  UNCHANGED Keeper!vars
  BY DEF providerVars, tokenVars, Keeper!vars, Keeper!providerVars, Keeper!keeperVars

\* The renewal's steps are the keeper's.
LEMMA RenewalIsKeeper ==
    ASSUME TypeOK
    PROVE  /\ \A c \in Callers : FreshRenews(c) => Keeper!Present
           /\ Renewed => Keeper!Adopt
           /\ RenewFails => Keeper!GiveUp
           /\ Kept => Keeper!Keep
           /\ KeepFails => Keeper!KeepFails
<1> USE DEF TypeOK, ProviderTypeOK, W
<1>1. ASSUME NEW c \in Callers, FreshRenews(c) PROVE Keeper!Present
  BY <1>1, TsAssumption DEF FreshRenews, Keeper!Present, Asking, Keeper!Asking, None, Keeper!None
<1>2. ASSUME Renewed PROVE Keeper!Adopt
  BY <1>2, TsAssumption DEF Renewed, Keeper!Adopt, Keeper!Wire, Adopted, Keeper!Adopted,
     Idle, Keeper!Idle, None, Keeper!None
<1>3. ASSUME RenewFails PROVE Keeper!GiveUp
  BY <1>3, TsAssumption DEF RenewFails, Keeper!GiveUp, Keeper!Wire, Idle, Keeper!Idle
<1>4. ASSUME Kept PROVE Keeper!Keep
  BY <1>4, TsAssumption DEF Kept, Keeper!Keep, NoTokens, Keeper!NoTokens, None, Keeper!None,
     providerVars, Keeper!providerVars
<1>5. ASSUME KeepFails PROVE Keeper!KeepFails
  BY <1>5, TsAssumption DEF KeepFails, Keeper!KeepFails, NoTokens, Keeper!NoTokens, None, Keeper!None
<1>6. QED
  BY <1>1, <1>2, <1>3, <1>4, <1>5

\* The clock and a 401 make the keeper forget, whatever they make of the call.
LEMMA ForgettingIsKeeper ==
    Lapse \/ (\E c \in Callers : HandleUnauthorized(c)) => Keeper!Forget
  BY DEF Lapse, HandleUnauthorized, Keeper!Forget, NoTokens, Keeper!NoTokens, None,
     Keeper!None, providerVars, Keeper!providerVars

\* The process that dies takes the renewal with it.
LEMMA RestartIsKeeper ==
    ASSUME TypeOK, Restart
    PROVE  Keeper!Restart
  BY TsAssumption DEF TypeOK, ProviderTypeOK, W, Restart, Keeper!Restart, Keeper!BreaksOff, Keeper!Wire,
     Idle, Keeper!Idle, NoTokens, Keeper!NoTokens, None, Keeper!None

\* The provider does to the renewal's wire what it does to the keeper's.
LEMMA ProviderIsKeeper ==
    ASSUME TypeOK, ProviderNext, UNCHANGED <<tokenVars, call>>
    PROVE  Keeper!ProviderNext /\ UNCHANGED Keeper!keeperVars
<1> USE DEF TypeOK, ProviderTypeOK, W
<1>1. UNCHANGED Keeper!keeperVars
  BY DEF tokenVars, Keeper!keeperVars
<1>2. ASSUME Issue(W) PROVE Keeper!Issue("keeper")
  BY <1>2, TsAssumption DEF Issue, Keeper!Issue, TakeCurrent, Keeper!TakeCurrent, Tokens,
     Keeper!Tokens, None, Keeper!None
<1>3. ASSUME Kill(W) PROVE Keeper!Kill("keeper")
  BY <1>3, TsAssumption DEF Kill, Keeper!Kill, KillFamily, Keeper!KillFamily, Refused,
     Keeper!Refused
<1>4. ASSUME Unserved(W) PROVE Keeper!Unserved("keeper")
  BY <1>4, TsAssumption DEF Unserved, Keeper!Unserved, Broken, Keeper!Broken
<1>5. ASSUME LoseAnswer(W) PROVE Keeper!LoseAnswer("keeper")
  BY <1>5, TsAssumption DEF LoseAnswer, Keeper!LoseAnswer, Broken, Keeper!Broken,
     Disturbable, Keeper!Disturbable, None, Keeper!None
<1>6. ASSUME NEW r \in orphans, ServeOrphan(r) PROVE Keeper!ServeOrphan(r)
  BY <1>6, TsAssumption DEF ServeOrphan, Keeper!ServeOrphan, TakeCurrent, Keeper!TakeCurrent,
     KillFamily, Keeper!KillFamily
<1>7. ASSUME NEW a \in good, Revoke(a) PROVE Keeper!Revoke(a)
  BY <1>7 DEF Revoke, Keeper!Revoke, Disturbable, Keeper!Disturbable
<1>8. QED
  BY <1>1, <1>2, <1>3, <1>4, <1>5, <1>6, <1>7, TsAssumption
     DEF ProviderNext, ProviderStep, Keeper!ProviderNext, Keeper!ProviderStep

\* Every step is the keeper's or leaves the keeper as it was.
LEMMA StepIsKeeper == TypeOK /\ [Next]_vars => [Keeper!Next]_(Keeper!vars)
<1> SUFFICES ASSUME TypeOK, [Next]_vars PROVE [Keeper!Next]_(Keeper!vars)
  OBVIOUS
<1>1. ASSUME NEW c \in Callers, Begin(c) PROVE UNCHANGED Keeper!vars
  BY <1>1, KeeperStutters DEF Begin
<1>2. ASSUME NEW c \in Callers, CallStep(c) PROVE [Keeper!Next]_(Keeper!vars)
  <2>1. CASE FreshRenews(c)
    BY <2>1, RenewalIsKeeper DEF Keeper!Next
  <2>2. CASE HandleUnauthorized(c)
    BY <2>2, ForgettingIsKeeper DEF Keeper!Next
  <2>3. CASE ~FreshRenews(c) /\ ~HandleUnauthorized(c)
    BY <1>2, <2>3, KeeperStutters DEF CallStep, FreshHeld, FreshJoins, FreshThrows, HandleOk,
       HandleRetry, HandleRefusal
  <2>4. QED
    BY <2>1, <2>2, <2>3
<1>3. ASSUME NEW c \in Callers, UNCHANGED <<providerVars, tokenVars>> PROVE UNCHANGED Keeper!vars
  BY <1>3, KeeperStutters
<1>4. CASE RenewalStep
  BY <1>4, RenewalIsKeeper DEF RenewalStep, Keeper!Next
<1>5. CASE Lapse
  BY <1>5, ForgettingIsKeeper DEF Keeper!Next
<1>6. CASE Restart
  BY <1>6, RestartIsKeeper DEF Keeper!Next
<1>7. CASE ProviderNext /\ UNCHANGED <<tokenVars, call>>
  BY <1>7, ProviderIsKeeper DEF Keeper!Next
<1>8. CASE UNCHANGED vars
  BY <1>8, KeeperStutters DEF vars
<1>9. QED
  BY <1>1, <1>2, <1>3, <1>4, <1>5, <1>6, <1>7, <1>8 DEF Next

\* The TypeScript client, with all its calls, is a token keeper: it presents
\* one refresh token at a time, the newest, adopts the answer, and then keeps it.
THEOREM ImplementsKeeper == Spec => KeeperSpec
<1>1. QED
  BY TypeCorrect, KeeperInit, StepIsKeeper, PTL DEF Spec, KeeperSpec, Keeper!Spec
\* The module of the proofs about TokenKeeper, with this client for its keeper.
Promise == INSTANCE TokenKeeper_proofs WITH
    Slots <- {"keeper"},
    wire  <- [s \in {"keeper"} |-> wire[W]],
    phase <- renewing

\* That module EXTENDS the one that Keeper is: they say the same.
LEMMA PromiseIsKeeper == KeeperSpec => Promise!Spec
<1>1. Keeper!Init => Promise!Init
  BY DEF Keeper!Init, Promise!Init, Keeper!ProviderInit, Promise!ProviderInit,
         Keeper!GivenTokens, Promise!GivenTokens, Keeper!FirstTokens, Promise!FirstTokens,
         Keeper!NoTokens, Promise!NoTokens, Keeper!None, Promise!None, Keeper!Idle,
         Promise!Idle
<1>2. [Keeper!Next]_(Keeper!vars) => [Promise!Next]_(Promise!vars)
  BY DEF Keeper!Wire, Promise!Wire, Keeper!Present, Promise!Present, Keeper!Adopt,
         Promise!Adopt, Keeper!GiveUp, Promise!GiveUp, Keeper!Keep, Promise!Keep,
         Keeper!KeepFails, Promise!KeepFails, Keeper!Forget, Promise!Forget,
         Keeper!BreaksOff, Promise!BreaksOff, Keeper!Cancel, Promise!Cancel,
         Keeper!Restart, Promise!Restart, Keeper!ProviderNext, Promise!ProviderNext,
         Keeper!ProviderStep, Promise!ProviderStep, Keeper!Issue, Promise!Issue,
         Keeper!Kill, Promise!Kill, Keeper!Unserved, Promise!Unserved, Keeper!LoseAnswer,
         Promise!LoseAnswer, Keeper!ServeOrphan, Promise!ServeOrphan, Keeper!Revoke,
         Promise!Revoke, Keeper!TakeCurrent, Promise!TakeCurrent, Keeper!KillFamily,
         Promise!KillFamily, Keeper!Disturbable, Promise!Disturbable, Keeper!Adopted,
         Promise!Adopted, Keeper!Asking, Promise!Asking, Keeper!Tokens, Promise!Tokens,
         Keeper!Refused, Promise!Refused, Keeper!Broken, Promise!Broken, Keeper!Idle,
         Promise!Idle, Keeper!NoTokens, Promise!NoTokens, Keeper!None, Promise!None,
         Keeper!vars, Promise!vars, Keeper!providerVars, Promise!providerVars,
         Keeper!keeperVars, Promise!keeperVars, Keeper!Next, Promise!Next
<1>3. QED
  BY <1>1, <1>2, PTL DEF KeeperSpec, Keeper!Spec, Promise!Spec

\* Whatever the calls of one client do together, the family of its refresh tokens
\* is killed only after a rotation was cut off on its way to it or its keeper.
THEOREM NeverKillsItsFamily == Spec => []KilledOnlyWhenCut
<1>1. {"keeper"} = {"keeper"}
  OBVIOUS
<1>2. MaxMinted \in Nat /\ Retries \in Nat
  BY MaxMintedAssumption, RetriesAssumption
<1>3. Promise!Spec => []Promise!KilledOnlyWhenCut
  BY <1>1, <1>2, Promise!NeverKillsItsFamily
<1>4. Promise!KilledOnlyWhenCut <=> KilledOnlyWhenCut
  BY DEF Promise!KilledOnlyWhenCut, KilledOnlyWhenCut
<1>5. QED
  BY <1>3, <1>4, ImplementsKeeper, PromiseIsKeeper, PTL
=============================================================================
