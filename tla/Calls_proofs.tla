---------------------------- MODULE Calls_proofs ----------------------------
(***************************************************************************)
(* What every proof about a client of the provider rests on: the records   *)
(* on the wire, the token sets and the records of the calls, and that no   *)
(* step of the provider disturbs their types.                              *)
(***************************************************************************)
EXTENDS Calls, TLAPS

\* What a wire may hold, by what it is at: a lemma for every step that reads it.
LEMMA WireFields ==
    ASSUME NEW w \in Wires
    PROVE  /\ w.at \in {"idle", "refused", "broken", "out", "tokens"}
           /\ w.at = "out" => w.refresh \in Nat
           /\ w.at = "tokens" => /\ w.access \in Nat
                                 /\ w.refresh \in Nat
                                 /\ w.asked \in Nat
                                 /\ Adopted(w) \in TokenSets
  BY DEF Wires, Idle, Refused, Broken, Adopted, TokenSets, None

\* The records that the steps put on the wire are wires.
LEMMA WiresBuilt ==
    /\ Idle \in Wires /\ Refused \in Wires /\ Broken \in Wires
    /\ \A r \in Nat : Asking(r) \in Wires
    /\ \A a, r, asked \in Nat : Tokens(a, r, asked) \in Wires
  BY DEF Wires, Asking, Tokens

\* The token sets the steps build are token sets.
LEMMA TokenSetsBuilt ==
    /\ GivenTokens \subseteq TokenSets
    /\ NoTokens \in TokenSets
    /\ \A t \in TokenSets : [t EXCEPT !.live = FALSE] \in TokenSets
<1>1. FirstTokens \in TokenSets /\ NoTokens \in TokenSets
  BY DEF FirstTokens, NoTokens, TokenSets, None
<1>2. \A t \in TokenSets : /\ [t EXCEPT !.live = FALSE] \in TokenSets
                           /\ [t EXCEPT !.refresh = None] \in TokenSets
  BY DEF TokenSets, None
<1>3. QED
  BY <1>1, <1>2 DEF GivenTokens

\* The provider starts with the types the comments in OAuthProvider give.
LEMMA ProviderTypeInit == ProviderInit => ProviderTypeOK
<1> SUFFICES ASSUME ProviderInit PROVE ProviderTypeOK
  OBVIOUS
<1>1. alive \in BOOLEAN /\ cut \in BOOLEAN
  BY Zenon DEF ProviderInit
<1>2. QED
  BY <1>1, WiresBuilt DEF ProviderInit, ProviderTypeOK

\* None of its steps leaves them.
LEMMA ProviderTypeStep ==
    ASSUME ProviderTypeOK, ProviderNext
    PROVE  ProviderTypeOK'
<1> USE DEF ProviderTypeOK
<1>1. ASSUME NEW s \in Slots, Issue(s) PROVE ProviderTypeOK'
  <2>1. wire[s] \in Wires
    OBVIOUS
  <2>2. PICK rotates \in BOOLEAN :
           /\ TakeCurrent(wire[s].refresh, rotates)
           /\ wire' = [wire EXCEPT ![s] =
                        Tokens(minted + 1, IF rotates THEN current + 1 ELSE None,
                               wire[s].refresh)]
    BY <1>1 DEF Issue
  <2>3. wire' \in [Slots -> Wires]
    BY <1>1, <2>1, <2>2, WireFields, WiresBuilt DEF Issue, None
  <2>4. QED
    BY <1>1, <2>2, <2>3 DEF Issue, TakeCurrent
<1>2. ASSUME NEW s \in Slots, Kill(s) \/ Unserved(s) \/ LoseAnswer(s) PROVE ProviderTypeOK'
  BY <1>2, WiresBuilt DEF Kill, KillFamily, Unserved, LoseAnswer
<1>3. ASSUME NEW r \in orphans, ServeOrphan(r) PROVE ProviderTypeOK'
  <2>1. CASE \E rotates \in BOOLEAN : TakeCurrent(r, rotates)
    BY <1>3, <2>1 DEF ServeOrphan, TakeCurrent
  <2>2. CASE KillFamily(r)
    BY <1>3, <2>2 DEF ServeOrphan, KillFamily
  <2>3. QED
    BY <1>3, <2>1, <2>2 DEF ServeOrphan
<1>4. ASSUME NEW a \in good, Revoke(a) PROVE ProviderTypeOK'
  BY <1>4 DEF Revoke
<1>5. QED
  BY <1>1, <1>2, <1>3, <1>4 DEF ProviderNext, ProviderStep

\* What the provider does to a wire: nothing; an answer to what was sent, with an
\* access token newer than any before; or a failure.
Answered(s) ==
    \/ wire'[s] = wire[s]
    \/ /\ wire[s].at = "out"
       /\ wire'[s].at = "tokens"
       /\ wire'[s].access = minted + 1
       /\ minted' = minted + 1
       /\ wire'[s].asked = wire[s].refresh
    \/ wire[s].at # "idle" /\ wire'[s].at \in {"refused", "broken"}

\* Nothing else comes of a step of the provider.
LEMMA ProviderAnswers ==
    ASSUME ProviderTypeOK, ProviderNext
    PROVE  minted' \in {minted, minted + 1} /\ \A s \in Slots : Answered(s)
<1> USE DEF ProviderTypeOK, Answered
<1>1. ASSUME NEW s \in Slots, Issue(s) 
      PROVE  minted' \in {minted, minted + 1} /\ \A j \in Slots : Answered(j)
  BY <1>1 DEF Issue, TakeCurrent, Tokens
<1>2. ASSUME NEW s \in Slots, Kill(s) \/ Unserved(s) \/ LoseAnswer(s) 
      PROVE  minted' \in {minted, minted + 1} /\ \A j \in Slots : Answered(j)
  BY <1>2 DEF Kill, KillFamily, Unserved, LoseAnswer, Refused, Broken
<1>3. ASSUME NEW r \in orphans, ServeOrphan(r) 
      PROVE  minted' \in {minted, minted + 1} /\ \A j \in Slots : Answered(j)
  BY <1>3 DEF ServeOrphan, TakeCurrent, KillFamily
<1>4. ASSUME NEW a \in good, Revoke(a) 
      PROVE  minted' \in {minted, minted + 1} /\ \A j \in Slots : Answered(j)
  BY <1>4 DEF Revoke
<1>5. QED
  BY <1>1, <1>2, <1>3, <1>4 DEF ProviderNext, ProviderStep

-------------------------------------------------------------------------------
(* Calls *)

\* A record with one of its fields replaced is a record still.
LEMMA CallFieldsBuilt ==
    ASSUME NEW k \in CallRecords
    PROVE  /\ \A l \in Places : [k EXCEPT !.at = l] \in CallRecords
           /\ \A n \in Nat : [k EXCEPT !.attempt = n] \in CallRecords
           /\ \A b \in Nat : [k EXCEPT !.bearer = b] \in CallRecords
           /\ \A t \in Nat : [k EXCEPT !.spent = t] \in CallRecords
           /\ \A g \in BOOLEAN : [k EXCEPT !.again = g] \in CallRecords
           /\ \A s \in Statuses : [k EXCEPT !.status = s] \in CallRecords
  BY DEF CallRecords

LEMMA CallRecordFields ==
    ASSUME NEW k \in CallRecords
    PROVE  /\ k.at \in Places
           /\ k.attempt \in Nat
           /\ k.spent \in Nat
           /\ k.again \in BOOLEAN
           /\ k.bearer \in Nat
           /\ k.status \in Statuses
  BY DEF CallRecords

\* A call that begins, or is over, is a call record.
LEMMA CallsBuiltAtFirst == Over \in CallRecords /\ At("fresh") \in CallRecords
  BY DEF Over, At, CallRecords, Places, Statuses, None

\* Where a transport sends a call, there is a call record.
LEMMA CallsBuilt ==
    ASSUME NEW k \in CallRecords
    PROVE  /\ Over \in CallRecords
           /\ At("fresh") \in CallRecords
           /\ \A a \in Nat : Got(k, a) \in CallRecords
           /\ Top(k) \in CallRecords
           /\ Retried(k) \in CallRecords
           /\ Unauthed(k) \in CallRecords
<1>1. Over \in CallRecords /\ At("fresh") \in CallRecords
  BY CallsBuiltAtFirst
<1>2. \A a \in Nat : Got(k, a) \in CallRecords
  BY DEF Got, CallRecords, Places
<1>3. Top(k) \in CallRecords
  BY DEF Top, CallRecords, Places, Statuses, None
<1>4. Retried(k) \in CallRecords
  BY <1>3, CallRecordFields, CallFieldsBuilt DEF Retried
<1>5. Unauthed(k) \in CallRecords
  BY <1>3, CallRecordFields, CallFieldsBuilt DEF Unauthed
<1>6. QED
  BY <1>1, <1>2, <1>3, <1>4, <1>5

\* One call goes on, and the others are where they were.
LEMMA BecomesTyped ==
    ASSUME CallsTypeOK, NEW c \in Callers, NEW k \in CallRecords, Becomes(c, k)
    PROVE  CallsTypeOK'
  BY DEF CallsTypeOK, Becomes

LEMMA GoesTyped ==
    ASSUME CallsTypeOK, NEW c \in Callers, NEW l \in Places, Goes(c, l)
    PROVE  CallsTypeOK'
  BY CallFieldsBuilt DEF CallsTypeOK, Goes

\* The api answers what a call can be told.
LEMMA AnswerTyped ==
    ASSUME CallsTypeOK, NEW c \in Callers, Answer(c) \/ Unanswered(c)
    PROVE  CallsTypeOK'
<1>1. ASSUME NEW v \in Statuses, call' = [call EXCEPT ![c].at = "handle", ![c].status = v]
      PROVE  CallsTypeOK'
  <2> DEFINE k == [call[c] EXCEPT !.at = "handle"]
  <2>1. k \in CallRecords
    BY CallFieldsBuilt DEF CallsTypeOK, Places
  <2>2. [k EXCEPT !.status = v] \in CallRecords
    BY <2>1, CallFieldsBuilt
  <2>3. QED
    BY <1>1, <2>2 DEF CallsTypeOK
<1>2. \A a : Verdicts(a) \subseteq Statuses
  BY DEF Verdicts, Statuses
<1>3. QED
  BY <1>1, <1>2 DEF Answer, Unanswered, Statuses

\* A call that begins, or is over, has nothing to tell.
LEMMA BlankRecords ==
    /\ At("fresh").at = "fresh" /\ At("fresh").bearer = None /\ At("fresh").spent = None
    /\ Over.at = "ended" /\ Over.bearer = None /\ Over.spent = None
  BY DEF At, Over

\* What the other records of a call hold.
LEMMA RecordsMade ==
    ASSUME NEW k \in CallRecords
    PROVE  /\ Retried(k).at = "fresh" /\ Retried(k).bearer = None /\ Retried(k).spent = k.spent
           /\ Unauthed(k).at = "fresh" /\ Unauthed(k).bearer = None /\ Unauthed(k).spent = k.bearer
           /\ Unauthed(k).again
  BY DEF Retried, Top, Unauthed, CallRecords

\* Where an answered fresh() sends a call.
LEMMA GotMade ==
    ASSUME NEW k \in CallRecords, NEW a \in Nat
    PROVE  /\ Got(k, a) \in CallRecords
           /\ Got(k, a).spent = k.spent
           /\ \/ Got(k, a).at = "fresh" /\ Got(k, a).bearer = k.bearer
              \/ Got(k, a).at = "sent" /\ Got(k, a).bearer = a
  BY DEF Got, CallRecords, Places

\* One call goes on and the others stay.
LEMMA Became ==
    ASSUME CallsTypeOK, NEW c \in Callers, NEW k, Becomes(c, k)
    PROVE  call'[c] = k /\ \A d \in Callers \ {c} : call'[d] = call[d]
  BY DEF CallsTypeOK, Becomes
=============================================================================
