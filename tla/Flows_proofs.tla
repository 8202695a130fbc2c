---------------------------- MODULE Flows_proofs ----------------------------
(***************************************************************************)
(* Proofs about what stands beside the calls, for any set of callers, any  *)
(* interval, any number of starts, any operations, deliveries and clocks.  *)
(* Each of the five components has an inductive invariant of its own, and  *)
(* a step of one leaves the others alone.                                  *)
(***************************************************************************)
EXTENDS Flows, FiniteSetTheorems, SequenceTheorems, TLAPS

-------------------------------------------------------------------------------
(* Application tokens *)

\* The counts of the components are those of the library.
LEMMA SameCounts ==
    /\ \A S : Minting!IsFiniteSet(S) <=> IsFiniteSet(S)
    /\ \A S : Minting!Cardinality(S) = Cardinality(S)
    /\ \A S : SigningIn!Cardinality(S) = Cardinality(S)
    /\ \A S : Trying!Cardinality(S) = Cardinality(S)
<1>1. ASSUME NEW S PROVE Minting!IsFiniteSet(S) <=> IsFiniteSet(S)
  BY Zenon DEF Minting!IsFiniteSet, IsFiniteSet
<1>2. ASSUME NEW S
      PROVE  Minting!Cardinality(S) = Cardinality(S)
  BY Zenon DEF Minting!Cardinality, Cardinality
<1>3. ASSUME NEW S
      PROVE  SigningIn!Cardinality(S) = Cardinality(S)
  BY Zenon DEF SigningIn!Cardinality, Cardinality
<1>4. ASSUME NEW S
      PROVE  Trying!Cardinality(S) = Cardinality(S)
  BY Zenon DEF Trying!Cardinality, Cardinality
<1>5. QED
  BY <1>1, <1>2, <1>3, <1>4

\* The calls whose token was refused, and that have got over it.
Used == {c \in Callers : refused[c] # 0 /\ pc[c] # "forgetting"}

\* Who is in the lock, and what they know there.
LockInv ==
    library \in Minting!Locking =>
        \A c \in Callers :
            /\ pc[c] \in {"locked", "minting"} => lock = c
            /\ pc[c] = "minting" => ~Minting!Live(held)

\* Every token but the one in hand has lapsed or was thrown away.
MintsCounted ==
    library \in Minting!Locking =>
        minted <= Cardinality(lapsed) + dropped + IF Minting!Live(held) THEN 1 ELSE 0

\* What was refused is not in hand any more, and what is sent is another token.
RefusedIsGone ==
    \A c \in Callers :
        /\ pc[c] = "forgetting" => refused[c] # 0
        /\ pc[c] = "asking" => carried[c] # 0
        /\ Minting!ThrowsAway /\ c \in Used => held # refused[c]
        /\ Minting!ThrowsAway /\ pc[c] = "asking" => carried[c] # refused[c]

MintingInv ==
    /\ Minting!TypeOK /\ dropped <= Cardinality(Used)
    /\ LockInv /\ MintsCounted /\ RefusedIsGone

\* The sets that are counted are finite, and grow by one.
LEMMA CountsOfMinting ==
    ASSUME Minting!TypeOK
    PROVE  /\ IsFiniteSet(lapsed) /\ Cardinality(lapsed) \in Nat
           /\ \A t : t \notin lapsed => Cardinality(lapsed \cup {t}) = Cardinality(lapsed) + 1
           /\ IsFiniteSet(Used) /\ Cardinality(Used) \in Nat /\ Cardinality(Callers) \in Nat
           /\ \A c : c \notin Used => Cardinality(Used \cup {c}) = Cardinality(Used) + 1
<1>1. minted \in Nat /\ lapsed \subseteq 1 .. minted
  BY DEF Minting!TypeOK
<1>2. IsFiniteSet(1 .. minted)
  BY <1>1, FS_Interval
<1>3. IsFiniteSet(lapsed)
  BY <1>1, <1>2, FS_Subset
<1>4. IsFiniteSet(Callers)
  BY FlowsAssumption, SameCounts DEF Minting!AppOnlyConstants
<1>5. IsFiniteSet(Used)
  BY <1>4, FS_Subset DEF Used
<1>6. QED
  BY <1>3, <1>4, <1>5, FS_CardinalityType, FS_AddElement

\* No more calls have thrown a token away than there are.
LEMMA UsedAreCallers ==
    ASSUME Minting!TypeOK
    PROVE  (Cardinality(Used) <= Cardinality(Callers))'
<1>1. IsFiniteSet(Callers)
  BY FlowsAssumption, SameCounts DEF Minting!AppOnlyConstants
<1>2. Used' \subseteq Callers
  BY DEF Used
<1>3. Cardinality(Used') <= Cardinality(Callers)
  BY <1>1, <1>2, FS_Subset
<1>4. QED
  BY <1>3

\* A call goes on, with the token in hand if it asks, and keeps to the lock.
LEMMA MovesKeep ==
    ASSUME MintingInv, NEW c \in Callers, NEW to \in Minting!Stages \ {"forgetting"},
           pc' = [pc EXCEPT ![c] = to], pc[c] # "forgetting",
           UNCHANGED <<library, kind, held, minted, lapsed, dead, dropped, refused>>,
           \/ to = "asking" /\ held # 0 /\ carried' = [carried EXCEPT ![c] = held]
           \/ to # "asking" /\ carried' = carried,
           lock' \in {lock, c, Minting!Nobody},
           library \in Minting!Locking =>
              /\ lock' = lock \/ (lock = Minting!Nobody /\ lock' = c) \/ lock = c
              /\ to \in {"locked", "minting"} => lock' = c
              /\ to = "minting" => ~Minting!Live(held)
    PROVE  MintingInv'
<1>1. /\ Minting!TypeOK /\ pc \in [Callers -> Minting!Stages] /\ held \in 0 .. minted
      /\ carried \in [Callers -> 0 .. minted] /\ refused \in [Callers -> 0 .. minted]
      /\ dropped \in 0 .. Cardinality(Callers)
  BY SameCounts DEF MintingInv, Minting!TypeOK, Minting!Tokens
<1>2. pc' \in [Callers -> Minting!Stages] /\ pc'[c] = to /\ \A d \in Callers \ {c} : pc'[d] = pc[d]
  BY <1>1
<1>3. /\ carried' \in [Callers -> 0 .. minted]
      /\ to = "asking" => carried'[c] = held /\ held # 0
      /\ \A d \in Callers \ {c} : carried'[d] = carried[d]
  BY <1>1
<1>4. Minting!TypeOK'
  <2>1. lock' \in Callers \cup {Minting!Nobody}
    BY <1>1 DEF Minting!TypeOK
  <2>2. QED
    BY <1>1, <1>2, <1>3, <2>1, SameCounts DEF Minting!TypeOK, Minting!Tokens
<1>5. Used' = Used
  BY <1>2 DEF Used
<1>6. LockInv'
  <2> SUFFICES ASSUME library \in Minting!Locking, NEW d \in Callers
               PROVE  /\ pc'[d] \in {"locked", "minting"} => lock' = d
                      /\ pc'[d] = "minting" => ~Minting!Live(held)
    BY DEF LockInv, Minting!Live
  <2>1. CASE d = c
    BY <1>2, <2>1
  <2>2. CASE d # c
    <3>1. Minting!Nobody \notin Callers
      BY FlowsAssumption DEF Minting!AppOnlyConstants
    <3>2. QED
      BY <1>2, <2>2, <3>1 DEF MintingInv, LockInv
  <2>3. QED
    BY <2>1, <2>2
<1>7. MintsCounted'
  BY DEF MintingInv, MintsCounted, Minting!Live
<1>8. RefusedIsGone'
  <2> SUFFICES ASSUME NEW d \in Callers
               PROVE  /\ pc'[d] = "forgetting" => refused[d] # 0
                      /\ pc'[d] = "asking" => carried'[d] # 0
                      /\ Minting!ThrowsAway /\ d \in Used => held # refused[d]
                      /\ Minting!ThrowsAway /\ pc'[d] = "asking" => carried'[d] # refused[d]
    BY <1>1, <1>5 DEF RefusedIsGone, Minting!ThrowsAway
  <2>1. CASE d = c
    BY <1>2, <1>3, <2>1 DEF MintingInv, RefusedIsGone, Used
  <2>2. CASE d # c
    BY <1>2, <1>3, <2>2 DEF MintingInv, RefusedIsGone
  <2>3. QED
    BY <2>1, <2>2
<1>9. QED
  BY <1>4, <1>5, <1>6, <1>7, <1>8 DEF MintingInv

\* What the steps below start from, unfolded once.
LEMMA MintingFields ==
    ASSUME MintingInv
    PROVE  /\ library \in Minting!Locking \cup {"ts"} /\ kind \in {"app", "bearer"}
           /\ minted \in Nat /\ held \in 0 .. minted
           /\ lapsed \subseteq 1 .. minted /\ dead \subseteq 1 .. minted
           /\ dropped \in Nat
           /\ lock \in Callers \cup {Minting!Nobody} /\ Minting!Nobody \notin Callers
           /\ pc \in [Callers -> Minting!Stages]
           /\ carried \in [Callers -> 0 .. minted] /\ refused \in [Callers -> 0 .. minted]
BY SameCounts, FlowsAssumption, CountsOfMinting
   DEF MintingInv, Minting!TypeOK, Minting!Tokens, Minting!AppOnlyConstants

\* The steps of a call that touch neither the token in hand nor what was refused.
LEMMA GoingOnKeeps ==
    ASSUME MintingInv, NEW c \in Callers,
           \/ Minting!Begin(c) \/ Minting!Look(c) \/ Minting!Locks(c) \/ Minting!LookAgain(c)
           \/ Minting!MintFails(c) \/ Minting!BearerFresh(c)
    PROVE  MintingInv'
<1>1. {"idle", "fresh", "queued", "locked", "minting", "asking", "unauthorized", "raised"}
         \subseteq Minting!Stages \ {"forgetting"}
  BY DEF Minting!Stages
<1>2. /\ lock \in Callers \cup {Minting!Nobody} /\ "ts" \notin Minting!Locking
      /\ library \in Minting!Locking \cup {"ts"} /\ held \in Nat
  BY MintingFields DEF Minting!Locking
<1>3. library \in Minting!Locking =>
         /\ pc[c] \in {"locked", "minting"} => lock = c
         /\ pc[c] = "minting" => ~Minting!Live(held)
  BY DEF MintingInv, LockInv
<1>4. Minting!Live(held) => held # 0
  BY DEF Minting!Live
<1>5. CASE Minting!Begin(c)
  <2>1. /\ pc[c] = "idle" /\ pc' = [pc EXCEPT ![c] = "fresh"]
        /\ UNCHANGED <<library, kind, held, minted, lapsed, dead, dropped, refused, carried, lock>>
    BY <1>5 DEF Minting!Begin, Minting!Goes, Minting!fixed
  <2>2. QED
    BY <1>1, <2>1, MovesKeep
<1>6. CASE Minting!Look(c)
  <2>1. /\ pc[c] = "fresh"
        /\ UNCHANGED <<library, kind, held, minted, lapsed, dead, dropped, refused, lock>>
    BY <1>6 DEF Minting!Look, Minting!Takes, Minting!Goes, Minting!fixed
  <2>2. CASE held # 0 /\ pc' = [pc EXCEPT ![c] = "asking"] /\ carried' = [carried EXCEPT ![c] = held]
    BY <1>1, <2>1, <2>2, MovesKeep
  <2>3. CASE library \in Minting!Locking /\ pc' = [pc EXCEPT ![c] = "queued"] /\ carried' = carried
    BY <1>1, <2>1, <2>3, MovesKeep
  <2>4. CASE library \notin Minting!Locking /\ pc' = [pc EXCEPT ![c] = "minting"] /\ carried' = carried
    BY <1>1, <2>1, <2>4, MovesKeep
  <2>5. QED
    BY <1>4, <1>6, <2>2, <2>3, <2>4 DEF Minting!Look, Minting!Takes, Minting!Goes
<1>7. CASE Minting!Locks(c)
  <2>1. /\ pc[c] = "queued" /\ pc' = [pc EXCEPT ![c] = "locked"]
        /\ lock = Minting!Nobody /\ lock' = c
        /\ UNCHANGED <<library, kind, held, minted, lapsed, dead, dropped, refused, carried>>
    BY <1>7 DEF Minting!Locks, Minting!Goes, Minting!fixed
  <2>2. QED
    BY <1>1, <2>1, MovesKeep
<1>8. CASE Minting!LookAgain(c)
  <2>1. /\ pc[c] = "locked"
        /\ UNCHANGED <<library, kind, held, minted, lapsed, dead, dropped, refused>>
    BY <1>8 DEF Minting!LookAgain, Minting!Takes, Minting!Goes, Minting!fixed
  <2>2. CASE /\ held # 0 /\ pc' = [pc EXCEPT ![c] = "asking"] /\ carried' = [carried EXCEPT ![c] = held]
             /\ lock' = Minting!Nobody
    BY <1>1, <1>3, <2>1, <2>2, MovesKeep
  <2>3. CASE /\ ~Minting!Live(held) /\ pc' = [pc EXCEPT ![c] = "minting"] /\ carried' = carried
             /\ lock' = lock
    BY <1>1, <1>3, <2>1, <2>3, MovesKeep
  <2>4. QED
    BY <1>4, <1>8, <2>2, <2>3 DEF Minting!LookAgain, Minting!Takes, Minting!Goes
<1>9. CASE Minting!MintFails(c)
  <2>1. /\ pc[c] = "minting" /\ pc' = [pc EXCEPT ![c] = "raised"]
        /\ lock' = IF lock = c THEN Minting!Nobody ELSE lock
        /\ UNCHANGED <<library, kind, held, minted, lapsed, dead, dropped, refused, carried>>
    BY <1>9 DEF Minting!MintFails, Minting!Goes, Minting!Unlock, Minting!fixed
  <2>2. QED
    BY <1>1, <1>3, <2>1, MovesKeep
<1>10. CASE Minting!BearerFresh(c)
  <2>1. /\ pc[c] = "fresh"
        /\ UNCHANGED <<library, kind, held, minted, lapsed, dead, dropped, refused, lock>>
    BY <1>10 DEF Minting!BearerFresh, Minting!Takes, Minting!Goes, Minting!fixed
  <2>2. CASE held # 0 /\ pc' = [pc EXCEPT ![c] = "asking"] /\ carried' = [carried EXCEPT ![c] = held]
    BY <1>1, <2>1, <2>2, MovesKeep
  <2>3. CASE pc' = [pc EXCEPT ![c] = "unauthorized"] /\ carried' = carried
    BY <1>1, <2>1, <2>3, MovesKeep
  <2>4. QED
    BY <1>10, <2>2, <2>3 DEF Minting!BearerFresh, Minting!Takes, Minting!Goes
<1>11. QED
  BY <1>5, <1>6, <1>7, <1>8, <1>9, <1>10

\* The token that is minted is one nobody was refused, and replaces one that is
\* of no use any more.
LEMMA MintedKeeps ==
    ASSUME MintingInv, NEW c \in Callers, Minting!Minted(c)
    PROVE  MintingInv'
<1>1. /\ pc[c] = "minting" /\ pc' = [pc EXCEPT ![c] = "asking"]
      /\ minted' = minted + 1 /\ held' = minted + 1 /\ carried' = [carried EXCEPT ![c] = minted + 1]
      /\ lock' = IF lock = c THEN Minting!Nobody ELSE lock
      /\ UNCHANGED <<library, kind, lapsed, dead, dropped, refused>>
  BY DEF Minting!Minted, Minting!Goes, Minting!Unlock, Minting!fixed
<1>2. /\ minted \in Nat /\ held \in 0 .. minted /\ dropped \in Nat
      /\ lapsed \subseteq 1 .. minted /\ dead \subseteq 1 .. minted
      /\ lock \in Callers \cup {Minting!Nobody} /\ Minting!Nobody \notin Callers
      /\ pc \in [Callers -> Minting!Stages]
      /\ carried \in [Callers -> 0 .. minted] /\ refused \in [Callers -> 0 .. minted]
      /\ Cardinality(lapsed) \in Nat
  BY MintingFields, CountsOfMinting DEF MintingInv
<1>3. /\ pc'[c] = "asking" /\ carried'[c] = minted + 1
      /\ \A d \in Callers \ {c} : pc'[d] = pc[d] /\ carried'[d] = carried[d]
  BY <1>1, <1>2
<1>4. Minting!TypeOK'
  <2>1. 0 .. minted \subseteq 0 .. minted' /\ 1 .. minted \subseteq 1 .. minted' /\ minted' \in Nat
    BY <1>1, <1>2
  <2>2. minted + 1 \in 0 .. minted' /\ held' \in 0 .. minted'
    BY <1>1, <1>2
  <2>3. carried' \in [Callers -> 0 .. minted']
    <3>1. carried \in [Callers -> 0 .. minted']
      BY <1>2, <2>1
    <3>2. QED
      BY <1>1, <2>2, <3>1
  <2>4. refused' \in [Callers -> 0 .. minted']
    BY <1>1, <1>2, <2>1
  <2>5. pc' \in [Callers -> Minting!Stages]
    BY <1>1, <1>2 DEF Minting!Stages
  <2>6. lapsed' \subseteq 1 .. minted' /\ dead' \subseteq 1 .. minted'
    BY <1>1, <1>2, <2>1
  <2>7. /\ library' \in Minting!Locking \cup {"ts"} /\ kind' \in {"app", "bearer"}
        /\ dropped' \in 0 .. Minting!Cardinality(Callers) /\ lock' \in Callers \cup {Minting!Nobody}
    BY <1>1, <1>2 DEF MintingInv, Minting!TypeOK
  <2>8. QED
    BY <2>1, <2>2, <2>3, <2>4, <2>5, <2>6, <2>7 DEF Minting!TypeOK, Minting!Tokens
<1>5. Used' = Used
  BY <1>1, <1>3 DEF Used
<1>6. ASSUME library \in Minting!Locking PROVE lock = c /\ ~Minting!Live(held)
  BY <1>1, <1>6 DEF MintingInv, LockInv
<1>7. LockInv'
  <2> SUFFICES ASSUME library \in Minting!Locking, NEW d \in Callers
               PROVE  pc'[d] \notin {"locked", "minting"}
    BY <1>1 DEF LockInv
  <2>1. CASE d = c
    BY <1>3, <2>1
  <2>2. CASE d # c
    BY <1>3, <1>6, <2>2 DEF MintingInv, LockInv
  <2>3. QED
    BY <2>1, <2>2
<1>8. MintsCounted'
  <2> SUFFICES ASSUME library \in Minting!Locking
               PROVE  minted' <= Cardinality(lapsed) + dropped + IF Minting!Live(held)' THEN 1 ELSE 0
    BY <1>1 DEF MintsCounted
  <2>1. minted <= Cardinality(lapsed) + dropped
    BY <1>2, <1>6 DEF MintingInv, MintsCounted
  <2>2. held' # 0 /\ held' \notin lapsed
    BY <1>1, <1>2
  <2>3. Minting!Live(held)'
    BY <1>1, <2>2 DEF Minting!Live
  <2>4. QED
    BY <1>1, <1>2, <2>1, <2>3
<1>9. RefusedIsGone'
  <2> SUFFICES ASSUME NEW d \in Callers
               PROVE  /\ pc'[d] = "forgetting" => refused'[d] # 0
                      /\ pc'[d] = "asking" => carried'[d] # 0
                      /\ Minting!ThrowsAway /\ d \in Used => held' # refused'[d]
                      /\ Minting!ThrowsAway /\ pc'[d] = "asking" => carried'[d] # refused'[d]
    BY <1>1, <1>5 DEF RefusedIsGone, Minting!ThrowsAway
  <2>1. refused'[d] \in 0 .. minted /\ held' # refused'[d]
    BY <1>1, <1>2
  <2>2. CASE d = c
    BY <1>1, <1>2, <1>3, <2>1, <2>2
  <2>3. CASE d # c
    BY <1>1, <1>3, <2>1, <2>3 DEF MintingInv, RefusedIsGone
  <2>4. QED
    BY <2>2, <2>3
<1>10. dropped' <= Cardinality(Used')
  BY <1>1, <1>5 DEF MintingInv
<1>11. QED
  BY <1>4, <1>7, <1>8, <1>9, <1>10 DEF MintingInv

\* The api's answer: a refusal is remembered, and the token with it.
LEMMA HeardKeeps ==
    ASSUME MintingInv, NEW c \in Callers, Minting!Heard(c)
    PROVE  MintingInv'
<1>1. /\ pc[c] = "asking"
      /\ UNCHANGED <<library, kind, held, minted, lapsed, dead, dropped, lock, carried>>
  BY DEF Minting!Heard, Minting!fixed
<1>2. /\ minted \in Nat /\ pc \in [Callers -> Minting!Stages]
      /\ carried \in [Callers -> 0 .. minted] /\ refused \in [Callers -> 0 .. minted]
  BY MintingFields
<1>3. carried[c] # 0
  BY <1>1 DEF MintingInv, RefusedIsGone
<1>4. CASE refused' = refused /\ pc' = [pc EXCEPT ![c] = "answered"]
  <2>1. "answered" \in Minting!Stages \ {"forgetting"}
    BY DEF Minting!Stages
  <2>2. QED
    BY <1>1, <1>4, <2>1, MovesKeep
<1>5. CASE refused' = refused /\ pc' = [pc EXCEPT ![c] = "unauthorized"]
  <2>1. "unauthorized" \in Minting!Stages \ {"forgetting"}
    BY DEF Minting!Stages
  <2>2. QED
    BY <1>1, <1>5, <2>1, MovesKeep
<1>6. CASE refused[c] = 0 /\ pc' = [pc EXCEPT ![c] = "forgetting"]
             /\ refused' = [refused EXCEPT ![c] = carried[c]]
  <2>1. /\ pc'[c] = "forgetting" /\ refused'[c] = carried[c]
        /\ \A d \in Callers \ {c} : pc'[d] = pc[d] /\ refused'[d] = refused[d]
    BY <1>2, <1>6
  <2>2. Minting!TypeOK'
    <3>1. pc' \in [Callers -> Minting!Stages]
      BY <1>2, <1>6 DEF Minting!Stages
    <3>2. refused' \in [Callers -> 0 .. minted]
      BY <1>2, <1>6
    <3>3. QED
      BY <1>1, <3>1, <3>2 DEF MintingInv, Minting!TypeOK, Minting!Tokens
  <2>3. Used' = Used
    BY <1>6, <2>1 DEF Used
  <2>4. LockInv' /\ MintsCounted'
    BY <1>1, <2>1 DEF MintingInv, LockInv, MintsCounted, Minting!Live
  <2>5. RefusedIsGone'
    <3> SUFFICES ASSUME NEW d \in Callers
                 PROVE  /\ pc'[d] = "forgetting" => refused'[d] # 0
                        /\ pc'[d] = "asking" => carried'[d] # 0
                        /\ Minting!ThrowsAway /\ d \in Used => held' # refused'[d]
                        /\ Minting!ThrowsAway /\ pc'[d] = "asking" => carried'[d] # refused'[d]
      BY <1>1, <2>3 DEF RefusedIsGone, Minting!ThrowsAway
    <3>1. CASE d = c
      <4>1. c \notin Used
        BY <1>6 DEF Used
      <4>2. QED
        BY <1>3, <2>1, <3>1, <4>1
    <3>2. CASE d # c
      BY <1>1, <2>1, <3>2 DEF MintingInv, RefusedIsGone
    <3>3. QED
      BY <3>1, <3>2
  <2>6. dropped' <= Cardinality(Used')
    BY <1>1, <2>3 DEF MintingInv
  <2>7. QED
    BY <2>2, <2>4, <2>5, <2>6 DEF MintingInv
<1>7. QED
  BY <1>4, <1>5, <1>6 DEF Minting!Heard, Minting!Goes

\* A call throws the token away, if that is what its library does: once in its
\* life, and the refused token is in nobody's way any more.
LEMMA ForgetKeeps ==
    ASSUME MintingInv, NEW c \in Callers, Minting!Forget(c)
    PROVE  MintingInv'
<1>1. /\ pc[c] = "forgetting" /\ pc' = [pc EXCEPT ![c] = "fresh"]
      /\ UNCHANGED <<library, kind, minted, lapsed, dead, lock, carried, refused>>
  BY DEF Minting!Forget, Minting!Goes, Minting!fixed
<1>2. /\ minted \in Nat /\ held \in 0 .. minted /\ dropped \in Nat
      /\ pc \in [Callers -> Minting!Stages] /\ refused \in [Callers -> 0 .. minted]
      /\ Cardinality(lapsed) \in Nat /\ Cardinality(Used) \in Nat
      /\ Cardinality(Used \cup {c}) = Cardinality(Used) + 1
  <2>1. c \notin Used
    BY <1>1 DEF Used
  <2>2. QED
    BY <2>1, MintingFields, CountsOfMinting DEF MintingInv
<1>3. /\ pc'[c] = "fresh" /\ \A d \in Callers \ {c} : pc'[d] = pc[d]
      /\ refused[c] # 0
  BY <1>1, <1>2 DEF MintingInv, RefusedIsGone
<1>4. Used' = Used \cup {c}
  BY <1>1, <1>3 DEF Used
<1>5. \/ held' = 0 /\ dropped' = dropped + IF held = 0 THEN 0 ELSE 1
      \/ ~Minting!ThrowsAway /\ UNCHANGED <<held, dropped>>
  BY DEF Minting!Forget, Minting!Forgets
<1>6. dropped' \in Nat /\ dropped' <= Cardinality(Used')
  <2>1. dropped <= Cardinality(Used)
    BY DEF MintingInv
  <2>2. dropped' = dropped \/ dropped' = dropped + 1
    BY <1>2, <1>5
  <2>3. QED
    BY <1>2, <1>4, <2>1, <2>2
<1>7. Minting!TypeOK'
  <2>1. dropped' \in 0 .. Minting!Cardinality(Callers)
    <3>1. Cardinality(Used') <= Cardinality(Callers) /\ Cardinality(Callers) \in Nat
      <4>1. Minting!TypeOK
        BY DEF MintingInv
      <4>2. QED
        BY <4>1, UsedAreCallers, CountsOfMinting
    <3>2. Cardinality(Used') \in Nat
      BY <1>2, <1>4
    <3>3. QED
      BY <1>6, <3>1, <3>2, SameCounts
  <2>2. pc' \in [Callers -> Minting!Stages]
    BY <1>1, <1>2 DEF Minting!Stages
  <2>3. held' \in 0 .. minted
    BY <1>2, <1>5
  <2>4. QED
    BY <1>1, <2>1, <2>2, <2>3 DEF MintingInv, Minting!TypeOK, Minting!Tokens
<1>8. held' = held \/ ~Minting!Live(held)'
  BY <1>5 DEF Minting!Live
<1>9. LockInv'
  <2> SUFFICES ASSUME library \in Minting!Locking, NEW d \in Callers
               PROVE  /\ pc'[d] \in {"locked", "minting"} => lock = d
                      /\ pc'[d] = "minting" => ~Minting!Live(held)'
    BY <1>1 DEF LockInv
  <2>1. CASE d = c
    BY <1>3, <2>1
  <2>2. CASE d # c
    BY <1>1, <1>3, <1>8, <2>2 DEF MintingInv, LockInv, Minting!Live
  <2>3. QED
    BY <2>1, <2>2
<1>10. MintsCounted'
  <2> SUFFICES ASSUME library \in Minting!Locking
               PROVE  minted <= Cardinality(lapsed) + dropped' + IF Minting!Live(held)' THEN 1 ELSE 0
    BY <1>1 DEF MintsCounted
  <2>1. minted <= Cardinality(lapsed) + dropped + IF Minting!Live(held) THEN 1 ELSE 0
    BY DEF MintingInv, MintsCounted
  <2>2. CASE held' = 0 /\ dropped' = dropped + IF held = 0 THEN 0 ELSE 1
    <3>1. ~Minting!Live(held)' /\ (held = 0 => ~Minting!Live(held))
      BY <2>2 DEF Minting!Live
    <3>2. CASE held = 0
      BY <1>2, <2>1, <2>2, <3>1, <3>2
    <3>3. CASE held # 0
      BY <1>2, <2>1, <2>2, <3>1, <3>3
    <3>4. QED
      BY <3>2, <3>3
  <2>3. CASE UNCHANGED <<held, dropped>>
    BY <1>1, <2>1, <2>3 DEF Minting!Live
  <2>4. QED
    BY <1>5, <2>2, <2>3
<1>11. RefusedIsGone'
  <2> SUFFICES ASSUME NEW d \in Callers
               PROVE  /\ pc'[d] = "forgetting" => refused[d] # 0
                      /\ pc'[d] = "asking" => carried[d] # 0
                      /\ Minting!ThrowsAway /\ d \in Used' => held' # refused[d]
                      /\ Minting!ThrowsAway /\ pc'[d] = "asking" => carried[d] # refused[d]
    BY <1>1 DEF RefusedIsGone, Minting!ThrowsAway
  <2>1. Minting!ThrowsAway /\ d \in Used' => held' # refused[d]
    BY <1>1, <1>5 DEF Used
  <2>2. CASE d = c
    BY <1>3, <2>1, <2>2
  <2>3. CASE d # c
    BY <1>3, <2>1, <2>3 DEF MintingInv, RefusedIsGone
  <2>4. QED
    BY <2>2, <2>3
<1>12. QED
  BY <1>6, <1>7, <1>9, <1>10, <1>11 DEF MintingInv

\* The token in hand passes its hour, and counts among the others.
LEMMA LapseKeeps ==
    ASSUME MintingInv, Minting!Lapse
    PROVE  MintingInv'
<1>1. /\ Minting!Live(held) /\ lapsed' = lapsed \cup {held}
      /\ UNCHANGED <<library, kind, held, minted, dead, dropped, lock, pc, carried, refused>>
  BY DEF Minting!Lapse, Minting!fixed
<1>2. /\ minted \in Nat /\ held \in 1 .. minted /\ dropped \in Nat /\ lapsed \subseteq 1 .. minted
      /\ Cardinality(lapsed) \in Nat /\ Cardinality(lapsed') = Cardinality(lapsed) + 1
  <2>1. held # 0 /\ held \notin lapsed
    BY <1>1 DEF Minting!Live
  <2>2. QED
    BY <1>1, <2>1, MintingFields, CountsOfMinting DEF MintingInv
<1>3. Minting!TypeOK'
  <2>1. lapsed' \subseteq 1 .. minted
    BY <1>1, <1>2
  <2>2. QED
    BY <1>1, <2>1 DEF MintingInv, Minting!TypeOK, Minting!Tokens
<1>4. ~Minting!Live(held)'
  BY <1>1 DEF Minting!Live
<1>5. Used' = Used
  BY <1>1 DEF Used
<1>6. LockInv'
  BY <1>1, <1>4 DEF MintingInv, LockInv
<1>7. MintsCounted'
  <2> SUFFICES ASSUME library \in Minting!Locking
               PROVE  minted <= Cardinality(lapsed') + dropped
    BY <1>1, <1>2, <1>4 DEF MintsCounted
  <2>1. minted <= Cardinality(lapsed) + dropped + 1
    BY <1>1 DEF MintingInv, MintsCounted
  <2>2. QED
    BY <1>2, <2>1
<1>8. RefusedIsGone'
  BY <1>1, <1>5 DEF MintingInv, RefusedIsGone, Minting!ThrowsAway
<1>9. dropped' <= Cardinality(Used')
  BY <1>1, <1>5 DEF MintingInv
<1>10. QED
  BY <1>3, <1>6, <1>7, <1>8, <1>9 DEF MintingInv

\* The invariant holds at first, and every step of the component keeps it.
LEMMA MintingKeeps ==
    /\ Init => MintingInv
    /\ MintingInv /\ Minting!Next => MintingInv'
    /\ MintingInv /\ UNCHANGED minting => MintingInv'
<1>1. ASSUME Init PROVE MintingInv
  <2>1. Minting!Init
    BY <1>1 DEF Init
  <2>2. /\ held \in {0, 1} /\ minted = held /\ lapsed = {} /\ dead = {} /\ dropped = 0
        /\ lock = Minting!Nobody /\ pc = [c \in Callers |-> "idle"]
        /\ carried = [c \in Callers |-> 0] /\ refused = [c \in Callers |-> 0]
        /\ library \in Minting!Locking \cup {"ts"} /\ kind \in {"app", "bearer"}
    BY <2>1 DEF Minting!Init
  <2>3. IsFiniteSet(Callers) /\ Cardinality(Callers) \in Nat
    BY FlowsAssumption, SameCounts, FS_CardinalityType DEF Minting!AppOnlyConstants
  <2>4. Minting!TypeOK
    <3>1. pc \in [Callers -> Minting!Stages]
      BY <2>2 DEF Minting!Stages
    <3>2. {carried, refused} \subseteq [Callers -> Minting!Tokens]
      BY <2>2 DEF Minting!Tokens
    <3>3. dropped \in 0 .. Minting!Cardinality(Callers)
      BY <2>2, <2>3, SameCounts
    <3>4. minted \in Nat /\ held \in Minting!Tokens
      BY <2>2 DEF Minting!Tokens
    <3>5. {lapsed, dead} \subseteq SUBSET (1 .. minted)
      BY <2>2
    <3>6. QED
      BY <2>2, <3>1, <3>2, <3>3, <3>4, <3>5 DEF Minting!TypeOK
  <2>5. Used = {}
    BY <2>2 DEF Used
  <2>6. Cardinality(Used) = 0 /\ Cardinality(lapsed) = 0
    BY <2>2, <2>5, FS_EmptySet
  <2>7. LockInv /\ RefusedIsGone
    BY <2>2, <2>5 DEF LockInv, RefusedIsGone
  <2>8. MintsCounted
    <3>1. held = 1 => Minting!Live(held)
      BY <2>2 DEF Minting!Live
    <3>2. QED
      BY <2>2, <2>6, <3>1 DEF MintsCounted
  <2>9. QED
    BY <2>2, <2>4, <2>6, <2>7, <2>8 DEF MintingInv
<1>2. ASSUME MintingInv, NEW t \in 1 .. minted, Minting!Die(t) PROVE MintingInv'
  <2>1. /\ dead' = dead \cup {t}
        /\ UNCHANGED <<library, kind, held, minted, lapsed, dropped, lock, pc, carried, refused>>
    BY <1>2 DEF Minting!Die, Minting!fixed
  <2>2. Used' = Used
    BY <2>1 DEF Used
  <2>3. Minting!TypeOK'
    BY <1>2, <2>1 DEF MintingInv, Minting!TypeOK, Minting!Tokens
  <2>4. LockInv' /\ MintsCounted' /\ RefusedIsGone'
    BY <1>2, <2>1, <2>2 DEF MintingInv, LockInv, MintsCounted, RefusedIsGone, Minting!Live, Minting!ThrowsAway
  <2>5. dropped' <= Cardinality(Used')
    BY <1>2, <2>1, <2>2 DEF MintingInv
  <2>6. QED
    BY <2>3, <2>4, <2>5 DEF MintingInv
<1>3. ASSUME MintingInv, UNCHANGED minting PROVE MintingInv'
  <2>1. UNCHANGED <<library, kind, held, minted, lapsed, dead, dropped, lock, pc, carried, refused>>
    BY <1>3 DEF minting
  <2>2. Used' = Used
    BY <2>1 DEF Used
  <2>3. Minting!TypeOK'
    BY <1>3, <2>1 DEF MintingInv, Minting!TypeOK, Minting!Tokens
  <2>4. LockInv' /\ MintsCounted' /\ RefusedIsGone'
    BY <1>3, <2>1, <2>2 DEF MintingInv, LockInv, MintsCounted, RefusedIsGone, Minting!Live, Minting!ThrowsAway
  <2>5. dropped' <= Cardinality(Used')
    BY <1>3, <2>1, <2>2 DEF MintingInv
  <2>6. QED
    BY <2>3, <2>4, <2>5 DEF MintingInv
<1>4. MintingInv /\ Minting!Next => MintingInv'
  BY <1>2, GoingOnKeeps, MintedKeeps, HeardKeeps, ForgetKeeps, LapseKeeps
     DEF Minting!Next, Minting!Step
<1>5. QED
  BY <1>1, <1>3, <1>4

-------------------------------------------------------------------------------
(* The device flow *)

\* The wait is the interval with what the slow-downs added, and a poll that came
\* too soon slept for less than the endpoint asks for.
WaitsAsTold ==
    /\ wait = Polling!Clamped(interval) + slowdowns * More
    /\ lastPoll <= now
    /\ phase = "asleep" => lastPoll + wait <= wakeAt
    /\ phase = "asking" /\ hurried => wait < Floor
    /\ slowdowns > 0 => wait < Floor + More

\* As long as the poller goes on, no poll met the decision.
GoesOnUnmet == phase \in {"asleep", "asking"} => heardAfter = 0 /\ ~redeemed /\ faults = 0

EndedAsDecided ==
    /\ heardAfter <= 1
    /\ phase = "tokens" => decision = "approved" /\ redeemed
    /\ phase = "access_denied" => decision = "denied"
    /\ phase = "expired_token" => heardAfter = 0
    /\ redeemed => phase = "tokens" \/ faults > 0

PollingInv == Polling!TypeOK /\ WaitsAsTold /\ GoesOnUnmet /\ EndedAsDecided

\* What the steps below start from, unfolded once.
LEMMA PollingFields ==
    ASSUME PollingInv
    PROVE  /\ poller \in {"ts", "py", "clamped"} /\ interval \in Nat /\ interval \in Intervals
           /\ Floor \in Nat /\ More \in Nat /\ Expiry \in Nat
           /\ wait \in Nat /\ wakeAt \in Nat /\ now \in Nat /\ lastPoll \in Nat
           /\ slowdowns \in Nat /\ heardAfter \in Nat /\ faults \in Nat
           /\ aborted \in BOOLEAN /\ hurried \in BOOLEAN /\ redeemed \in BOOLEAN
           /\ phase \in {"asleep", "asking"} \cup Polling!Ends
           /\ decision \in {"none", "approved", "denied"}
           /\ Polling!Clamped(interval) \in Nat
<1>1. /\ Intervals \subseteq Nat /\ Floor \in Nat /\ More \in Nat /\ Expiry \in Nat
  BY FlowsAssumption DEF Polling!DeviceFlowConstants
<1>2. /\ poller \in {"ts", "py", "clamped"} /\ interval \in Intervals
      /\ {wait, wakeAt, now, lastPoll, slowdowns, heardAfter, faults} \subseteq Nat
      /\ {aborted, hurried, redeemed} \subseteq BOOLEAN
      /\ phase \in {"asleep", "asking"} \cup Polling!Ends
      /\ decision \in {"none", "approved", "denied"}
  BY DEF PollingInv, Polling!TypeOK
<1>3. aborted \in BOOLEAN /\ hurried \in BOOLEAN /\ redeemed \in BOOLEAN
  BY <1>2
<1>4. Polling!Clamped(interval) \in Nat
  BY <1>1, <1>2 DEF Polling!Clamped
<1>5. QED
  BY <1>1, <1>2, <1>3, <1>4

\* One slow-down more adds `More` once more.
LEMMA OnceMore == \A s, m \in Nat : (s + 1) * m = s * m + m /\ s * m \in Nat
OBVIOUS

\* The poller wakes: it polls too soon only if its wait is below the endpoint's.
LEMMA WakeKeeps ==
    ASSUME PollingInv, Polling!Wake
    PROVE  PollingInv'
<1>1. /\ phase = "asleep" /\ now >= wakeAt
      /\ UNCHANGED <<poller, interval, wait, wakeAt, aborted, now, decision,
                     slowdowns, heardAfter, redeemed, faults>>
      /\ \/ phase' = "aborted" /\ UNCHANGED <<lastPoll, hurried>>
         \/ phase' = "asking" /\ lastPoll' = now /\ hurried' = (now - lastPoll < Floor)
  BY DEF Polling!Wake, Polling!given, Polling!timer, Polling!counts, Polling!polls
<1>2. /\ wait \in Nat /\ wakeAt \in Nat /\ now \in Nat /\ lastPoll \in Nat /\ Floor \in Nat
      /\ lastPoll + wait <= wakeAt /\ lastPoll <= now
      /\ heardAfter = 0 /\ ~redeemed /\ faults = 0
  BY <1>1, PollingFields DEF PollingInv, WaitsAsTold, GoesOnUnmet
<1>3. Polling!TypeOK'
  <2>1. phase' \in {"asleep", "asking"} \cup Polling!Ends
    BY <1>1 DEF Polling!Ends
  <2>2. lastPoll' \in Nat
    BY <1>1, <1>2
  <2>3. (now - lastPoll < Floor) \in BOOLEAN /\ hurried \in BOOLEAN
    BY PollingFields
  <2>4. hurried' \in BOOLEAN
    BY <1>1, <2>3, Zenon
  <2>5. QED
    BY <1>1, <2>1, <2>2, <2>4 DEF PollingInv, Polling!TypeOK, Polling!Ends
<1>4. WaitsAsTold'
  <2>1. Polling!Clamped(interval)' = Polling!Clamped(interval)
    BY <1>1 DEF Polling!Clamped
  <2>2. lastPoll' <= now'
    BY <1>1, <1>2
  <2>3. now - lastPoll < Floor => wait < Floor
    BY <1>1, <1>2
  <2>4. phase' # "aborted" => (hurried' <=> now - lastPoll < Floor)
    BY <1>1, Zenon
  <2>5. phase' = "asking" /\ hurried' => wait' < Floor
    <3>1. phase' = "asking" => phase' # "aborted"
      OBVIOUS
    <3>2. wait' = wait
      BY <1>1
    <3>3. QED
      BY <2>3, <2>4, <3>1, <3>2
  <2>6. phase' # "asleep"
    BY <1>1
  <2>7. wait' = wait /\ slowdowns' = slowdowns /\ interval' = interval /\ UNCHANGED <<Floor, More>>
    BY <1>1
  <2>8. QED
    BY <1>1, <2>1, <2>2, <2>5, <2>6, <2>7 DEF PollingInv, WaitsAsTold
<1>5. GoesOnUnmet' /\ EndedAsDecided'
  BY <1>1, <1>2 DEF GoesOnUnmet, EndedAsDecided
<1>6. QED
  BY <1>3, <1>4, <1>5 DEF PollingInv

\* What going back to sleep leaves.
LEMMA SleepsFor ==
    ASSUME PollingInv, NEW longer \in Nat, Polling!Sleeps(longer), phase = "asking"
    PROVE  /\ phase' \in {"asleep", "aborted"}
           /\ wait' = wait + longer /\ wait' \in Nat /\ wakeAt' \in Nat
           /\ lastPoll + wait' <= wakeAt'
<1>1. wait' = wait + longer /\ wakeAt' = now + wait'
  BY DEF Polling!Sleeps
<1>2. wait \in Nat /\ now \in Nat /\ lastPoll \in Nat /\ lastPoll <= now
  BY PollingFields DEF PollingInv, WaitsAsTold
<1>3. QED
  BY <1>1, <1>2 DEF Polling!Sleeps

\* An answer: two mean going on, and the others end the flow as was decided.
LEMMA AnsweredKeeps ==
    ASSUME PollingInv, Polling!Answered
    PROVE  PollingInv'
<1>1. /\ phase = "asking" /\ Polling!Takes(Polling!Says) /\ Polling!Meets
      /\ redeemed' = (redeemed \/ Polling!Says = "tokens")
      /\ UNCHANGED <<poller, interval, aborted, now, decision, lastPoll, hurried, slowdowns, faults>>
  BY DEF Polling!Answered, Polling!given, Polling!polls
<1>2. heardAfter = 0 /\ ~redeemed /\ faults = 0
  BY <1>1 DEF PollingInv, GoesOnUnmet
<1>3. /\ now \in Nat /\ Expiry \in Nat /\ decision \in {"none", "approved", "denied"}
      /\ wait \in Nat /\ wakeAt \in Nat /\ lastPoll \in Nat
  BY PollingFields
<1>4. Polling!Says = IF now >= Expiry THEN "expired_token"
                     ELSE IF decision = "none" THEN "authorization_pending"
                     ELSE IF decision = "denied" THEN "access_denied" ELSE "tokens"
  BY <1>3 DEF Polling!Says
<1>5. heardAfter' = IF decision # "none" /\ now < Expiry THEN 1 ELSE 0
  BY <1>1, <1>2 DEF Polling!Meets
<1>6. \/ /\ Polling!Says = "authorization_pending" /\ Polling!Sleeps(0)
      \/ /\ Polling!Says \in {"expired_token", "access_denied", "tokens"}
         /\ phase' = Polling!Says /\ UNCHANGED <<wait, wakeAt>>
  BY <1>1, <1>4 DEF Polling!Takes, Polling!Ends, Polling!timer
<1>7. /\ phase' \in {"asleep", "aborted", "expired_token", "access_denied", "tokens"}
      /\ wait' = wait /\ wakeAt' \in Nat
      /\ phase' = "asleep" => lastPoll + wait' <= wakeAt'
  <2>1. CASE Polling!Sleeps(0)
    BY <1>1, <1>3, <2>1, SleepsFor
  <2>2. CASE ~Polling!Sleeps(0)
    BY <1>3, <1>6, <2>2
  <2>3. QED
    BY <2>1, <2>2
<1>8. phase' \in {"asleep", "aborted"} <=> Polling!Says = "authorization_pending"
  <2>1. CASE Polling!Says = "authorization_pending"
    BY <1>6, <2>1 DEF Polling!Sleeps
  <2>2. CASE Polling!Says # "authorization_pending"
    BY <1>6, <2>2
  <2>3. QED
    BY <2>1, <2>2
<1>9. Polling!TypeOK'
  <2>1. phase' \in {"asleep", "asking"} \cup Polling!Ends
    BY <1>7 DEF Polling!Ends
  <2>2. heardAfter' \in Nat /\ redeemed' \in BOOLEAN /\ wait' \in Nat /\ wakeAt' \in Nat
    BY <1>1, <1>3, <1>5, <1>7
  <2>3. QED
    BY <1>1, <2>1, <2>2 DEF PollingInv, Polling!TypeOK, Polling!Ends
<1>10. WaitsAsTold'
  <2>1. Polling!Clamped(interval)' = Polling!Clamped(interval)
    BY <1>1 DEF Polling!Clamped
  <2>2. QED
    BY <1>1, <1>7, <2>1 DEF PollingInv, WaitsAsTold
<1>11. GoesOnUnmet'
  <2>1. phase' \in {"asleep", "asking"} => Polling!Says = "authorization_pending"
    BY <1>7, <1>8
  <2>2. Polling!Says = "authorization_pending" => decision = "none"
    BY <1>3, <1>4
  <2>3. QED
    BY <1>1, <1>2, <1>5, <2>1, <2>2 DEF GoesOnUnmet
<1>12. EndedAsDecided'
  <2>1. Polling!Says # "authorization_pending" => phase' = Polling!Says
    BY <1>6
  <2>2. phase' \in {"tokens", "access_denied", "expired_token"} => phase' = Polling!Says
    BY <1>8, <2>1
  <2>3. heardAfter' <= 1
    BY <1>5
  <2>4. phase' = "tokens" => decision' = "approved" /\ redeemed'
    BY <1>1, <1>3, <1>4, <2>2
  <2>5. phase' = "access_denied" => decision' = "denied"
    BY <1>1, <1>3, <1>4, <2>2
  <2>6. phase' = "expired_token" => heardAfter' = 0
    BY <1>3, <1>4, <1>5, <2>2
  <2>7. redeemed' => phase' = "tokens"
    BY <1>1, <1>2, <2>1
  <2>8. QED
    BY <2>3, <2>4, <2>5, <2>6, <2>7 DEF EndedAsDecided
<1>13. QED
  BY <1>9, <1>10, <1>11, <1>12 DEF PollingInv

\* A poll that came too soon is told so: it slept for less than the endpoint asks.
LEMMA SlowedDownKeeps ==
    ASSUME PollingInv, Polling!SlowedDown
    PROVE  PollingInv'
<1>1. /\ phase = "asking" /\ hurried /\ Polling!Takes("slow_down") /\ slowdowns' = slowdowns + 1
      /\ UNCHANGED <<poller, interval, aborted, now, decision, lastPoll, hurried,
                     heardAfter, redeemed, faults>>
  BY DEF Polling!SlowedDown, Polling!given, Polling!polls
<1>2. /\ More \in Nat /\ Floor \in Nat /\ wait \in Nat /\ slowdowns \in Nat
      /\ now \in Nat /\ lastPoll \in Nat /\ Polling!Clamped(interval) \in Nat
  BY PollingFields
<1>3. Polling!Sleeps(More)
  BY <1>1 DEF Polling!Takes, Polling!Ends
<1>4. /\ phase' \in {"asleep", "aborted"} /\ wait' = wait + More /\ wait' \in Nat /\ wakeAt' \in Nat
      /\ lastPoll + wait' <= wakeAt'
  BY <1>1, <1>2, <1>3, SleepsFor
<1>5. Polling!TypeOK'
  <2>1. phase' \in {"asleep", "asking"} \cup Polling!Ends
    BY <1>4 DEF Polling!Ends
  <2>2. slowdowns' \in Nat
    BY <1>1, <1>2
  <2>3. QED
    BY <1>1, <1>4, <2>1, <2>2 DEF PollingInv, Polling!TypeOK, Polling!Ends
<1>6. WaitsAsTold'
  <2>1. Polling!Clamped(interval)' = Polling!Clamped(interval)
    BY <1>1 DEF Polling!Clamped
  <2>2. /\ wait = Polling!Clamped(interval) + slowdowns * More
        /\ wait < Floor /\ lastPoll <= now
    BY <1>1 DEF PollingInv, WaitsAsTold
  <2>3. /\ (slowdowns + 1) * More = slowdowns * More + More
        /\ slowdowns * More \in Nat
    BY <1>2, OnceMore
  <2>4. wait' = Polling!Clamped(interval)' + slowdowns' * More
    <3>1. slowdowns' * More = slowdowns * More + More
      BY <1>1, <2>3
    <3>2. QED
      BY <1>2, <1>4, <2>1, <2>2, <2>3, <3>1
  <2>5. wait' < Floor + More
    BY <1>2, <1>4, <2>2
  <2>6. lastPoll' <= now' /\ phase' # "asking" /\ lastPoll' + wait' <= wakeAt'
    BY <1>1, <1>4, <2>2
  <2>7. QED
    BY <2>4, <2>5, <2>6 DEF WaitsAsTold
<1>7. GoesOnUnmet' /\ EndedAsDecided'
  BY <1>1, <1>4 DEF PollingInv, GoesOnUnmet, EndedAsDecided
<1>8. QED
  BY <1>5, <1>6, <1>7 DEF PollingInv

\* A fault ends the flow, whether or not the tokens were handed out.
LEMMA FaultyKeeps ==
    ASSUME PollingInv, Polling!Faulty
    PROVE  PollingInv'
<1>1. /\ phase = "asking" /\ Polling!Takes("error") /\ faults' = faults + 1
      /\ \E answers \in BOOLEAN : redeemed' = (redeemed \/ (answers /\ Polling!Says = "tokens"))
      /\ UNCHANGED <<poller, interval, aborted, now, decision, lastPoll, hurried,
                     slowdowns, heardAfter>>
  BY DEF Polling!Faulty, Polling!given, Polling!polls
<1>2. phase' = "error" /\ UNCHANGED <<wait, wakeAt>>
  BY <1>1 DEF Polling!Takes, Polling!timer
<1>3. heardAfter = 0 /\ faults \in Nat /\ redeemed \in BOOLEAN
  BY <1>1, PollingFields DEF PollingInv, GoesOnUnmet
<1>4. redeemed' \in BOOLEAN
  BY <1>1, <1>3, Zenon
<1>5. Polling!TypeOK'
  <2>1. phase' \in {"asleep", "asking"} \cup Polling!Ends /\ faults' \in Nat
    BY <1>1, <1>2, <1>3 DEF Polling!Ends
  <2>2. QED
    BY <1>1, <1>2, <1>4, <2>1 DEF PollingInv, Polling!TypeOK, Polling!Ends
<1>6. WaitsAsTold'
  <2>1. Polling!Clamped(interval)' = Polling!Clamped(interval)
    BY <1>1 DEF Polling!Clamped
  <2>2. QED
    BY <1>1, <1>2, <2>1 DEF PollingInv, WaitsAsTold
<1>7. GoesOnUnmet' /\ EndedAsDecided'
  BY <1>1, <1>2, <1>3 DEF GoesOnUnmet, EndedAsDecided
<1>8. QED
  BY <1>5, <1>6, <1>7 DEF PollingInv

\* The signal, the person and the clock: none of them is the poller.
LEMMA OthersKeep ==
    ASSUME PollingInv,
           \/ Polling!Abort
           \/ \E what \in {"approved", "denied"} : Polling!Press(what)
           \/ Polling!Tick
    PROVE  PollingInv'
<1>1. /\ UNCHANGED <<poller, interval, wait, wakeAt, phase, lastPoll, hurried,
                     slowdowns, heardAfter, redeemed, faults>>
      /\ now' \in {now, now + 1}
      /\ aborted' \in {aborted, TRUE}
      /\ decision' = decision \/ (decision = "none" /\ decision' \in {"approved", "denied"})
  BY DEF Polling!Abort, Polling!Press, Polling!Tick, Polling!given, Polling!timer, Polling!polls,
         Polling!counts
<1>2. now \in Nat /\ lastPoll \in Nat /\ aborted \in BOOLEAN
  BY PollingFields
<1>3. now' \in Nat /\ now' >= now /\ aborted' \in BOOLEAN
  <2>1. now' \in Nat /\ now' >= now
    BY <1>1, <1>2
  <2>2. aborted' \in BOOLEAN
    BY <1>1, <1>2, Zenon
  <2>3. QED
    BY <2>1, <2>2
<1>4. Polling!TypeOK'
  BY <1>1, <1>3 DEF PollingInv, Polling!TypeOK, Polling!Ends
<1>5. WaitsAsTold'
  <2>1. Polling!Clamped(interval)' = Polling!Clamped(interval)
    BY <1>1 DEF Polling!Clamped
  <2>2. lastPoll' <= now'
    BY <1>1, <1>2, <1>3 DEF PollingInv, WaitsAsTold
  <2>3. QED
    BY <1>1, <2>1, <2>2 DEF PollingInv, WaitsAsTold
<1>6. GoesOnUnmet' /\ EndedAsDecided'
  BY <1>1 DEF PollingInv, GoesOnUnmet, EndedAsDecided
<1>7. QED
  BY <1>4, <1>5, <1>6 DEF PollingInv

\* The invariant of the device flow holds from the start, is kept by every step,
\* and is untouched by the steps of the others.
LEMMA PollingKeeps ==
    /\ Polling!Init => PollingInv
    /\ PollingInv /\ Polling!Next => PollingInv'
    /\ PollingInv /\ UNCHANGED polling => PollingInv'
<1>1. ASSUME Polling!Init PROVE PollingInv
  <2>1. /\ poller \in {"ts", "py", "clamped"} /\ interval \in Intervals
        /\ wait = Polling!Clamped(interval) /\ wakeAt = wait
        /\ phase = "asleep" /\ aborted = FALSE /\ now = 0 /\ decision = "none"
        /\ lastPoll = 0 /\ hurried = FALSE
        /\ slowdowns = 0 /\ heardAfter = 0 /\ redeemed = FALSE /\ faults = 0
    BY <1>1 DEF Polling!Init
  <2>2. Intervals \subseteq Nat /\ Floor \in Nat /\ More \in Nat
    BY FlowsAssumption DEF Polling!DeviceFlowConstants
  <2>3. Polling!Clamped(interval) \in Nat
    BY <2>1, <2>2 DEF Polling!Clamped
  <2>4. Polling!TypeOK
    <3>1. {wait, wakeAt, now, lastPoll, slowdowns, heardAfter, faults} \subseteq Nat
      BY <2>1, <2>3
    <3>2. {aborted, hurried, redeemed} \subseteq BOOLEAN
      BY <2>1, Zenon
    <3>3. QED
      BY <2>1, <3>1, <3>2 DEF Polling!TypeOK, Polling!Ends
  <2>5. WaitsAsTold
    <3>1. slowdowns * More = 0
      BY <2>1, <2>2
    <3>2. QED
      BY <2>1, <2>2, <2>3, <3>1 DEF WaitsAsTold
  <2>6. GoesOnUnmet /\ EndedAsDecided
    BY <2>1 DEF GoesOnUnmet, EndedAsDecided
  <2>7. QED
    BY <2>4, <2>5, <2>6 DEF PollingInv
<1>2. ASSUME PollingInv, Polling!Next PROVE PollingInv'
  <2>1. CASE Polling!Wake
    BY <1>2, <2>1, WakeKeeps
  <2>2. CASE Polling!Answered
    BY <1>2, <2>2, AnsweredKeeps
  <2>3. CASE Polling!SlowedDown
    BY <1>2, <2>3, SlowedDownKeeps
  <2>4. CASE Polling!Faulty
    BY <1>2, <2>4, FaultyKeeps
  <2>5. CASE \/ Polling!Abort
             \/ \E what \in {"approved", "denied"} : Polling!Press(what)
             \/ Polling!Tick
    BY <1>2, <2>5, OthersKeep
  <2>6. QED
    BY <1>2, <2>1, <2>2, <2>3, <2>4, <2>5 DEF Polling!Next
<1>3. ASSUME PollingInv, UNCHANGED polling PROVE PollingInv'
  <2>1. UNCHANGED <<poller, interval, wait, wakeAt, phase, aborted, now, decision, lastPoll,
                    hurried, slowdowns, heardAfter, redeemed, faults>>
    BY <1>3 DEF polling
  <2>2. Polling!Clamped(interval)' = Polling!Clamped(interval)
    BY <2>1 DEF Polling!Clamped
  <2>3. Polling!TypeOK' /\ GoesOnUnmet' /\ EndedAsDecided'
    BY <1>3, <2>1 DEF PollingInv, Polling!TypeOK, Polling!Ends, GoesOnUnmet, EndedAsDecided
  <2>4. WaitsAsTold'
    BY <1>3, <2>1, <2>2 DEF PollingInv, WaitsAsTold
  <2>5. QED
    BY <2>3, <2>4 DEF PollingInv
<1>4. QED
  BY <1>1, <1>2, <1>3

\* What the invariant says of the end: the slow-downs stop at the endpoint's interval.
LEMMA PollingInvSuffices == PollingInv => Polling!EndsAsDecided
<1>1. SUFFICES ASSUME PollingInv PROVE Polling!EndsAsDecided
  OBVIOUS
<1>2. slowdowns > 0 => (slowdowns - 1) * More + Polling!Clamped(interval) < Floor
  <2>1. SUFFICES ASSUME slowdowns > 0
                 PROVE  (slowdowns - 1) * More + Polling!Clamped(interval) < Floor
    OBVIOUS
  <2>2. /\ More \in Nat /\ Floor \in Nat /\ slowdowns \in Nat /\ wait \in Nat
        /\ Polling!Clamped(interval) \in Nat
    BY <1>1, PollingFields
  <2>3. /\ wait = Polling!Clamped(interval) + slowdowns * More
        /\ wait < Floor + More
    BY <1>1, <2>1 DEF PollingInv, WaitsAsTold
  <2>4. ASSUME NEW s \in Nat, s = slowdowns - 1
        PROVE  s * More + Polling!Clamped(interval) < Floor
    <3>1. slowdowns = s + 1
      BY <2>2, <2>4
    <3>2. (s + 1) * More = s * More + More /\ s * More \in Nat
      BY <2>2, OnceMore
    <3>3. slowdowns * More = s * More + More
      BY <3>1, <3>2
    <3>4. QED
      BY <2>2, <2>3, <3>2, <3>3
  <2>5. slowdowns - 1 \in Nat
    BY <2>1, <2>2
  <2>6. QED
    BY <2>4, <2>5
<1>3. QED
  BY <1>1, <1>2 DEF PollingInv, EndedAsDecided, Polling!EndsAsDecided

-------------------------------------------------------------------------------
(* The playground's sign-in *)

\* The attempts whose code was presented.
Codes == {presented[i].code : i \in 1 .. Len(presented)}

\* The code of an attempt is neither presented nor about to be.
Unused(n) == n \notin Codes /\ \A p \in finishing : p.code # n

\* An attempt is digested, pending, about to be presented, presented: in this
\* order, and in one place at a time.
OncePerAttempt ==
    /\ \A n \in digesting : n <= starts /\ n # pending /\ Unused(n)
    /\ pending <= starts /\ (pending # 0 => Unused(pending))
    /\ \A p \in finishing :
          p.code = p.verifier /\ p.code <= starts /\ (p.code \notin Codes \/ exchanging)

PresentedOnce ==
    /\ \A i \in 1 .. Len(presented) :
          presented[i].code = presented[i].verifier /\ presented[i].code <= starts
    /\ \A i, j \in 1 .. Len(presented) : presented[i].code = presented[j].code => i = j

\* The start that waits last is the one PENDING is about, and so is the one the
\* tab leaves for.
LastIsPending ==
    /\ waiting # <<>> => asked = "pending" /\ waiting[Len(waiting)] = pending
    /\ leaving # 0 => asked = "good" /\ pending = leaving

\* What a page shows is stored; a consent screen is about an attempt.
ByDocument ==
    /\ at # "consent" => token = stored
    /\ at = "consent" => visit \in SigningIn!Attempts

SigningInv ==
    /\ SigningIn!TypeOK
    /\ OncePerAttempt /\ PresentedOnce /\ LastIsPending /\ ByDocument

\* The types, one by one.
Typed ==
    /\ at \in {"page", "callback", "consent"} /\ visit \in 0 .. SigningIn!NoCode
    /\ leaving \in 0 .. MaxStarts /\ token \in 0 .. MaxStarts
    /\ pending \in 0 .. MaxStarts /\ stored \in 0 .. MaxStarts /\ starts \in 0 .. MaxStarts
    /\ asked \in {"none", "pending", "good", "rejected"}
    /\ digesting \subseteq SigningIn!Attempts /\ opened \subseteq SigningIn!Attempts
    /\ approved \subseteq SigningIn!Attempts /\ spent \subseteq SigningIn!Attempts
    /\ waiting \in Seq(SigningIn!Attempts)
    /\ finishing \subseteq SigningIn!Presentations
    /\ SigningIn!Cardinality(finishing) <= 1
    /\ exchanging \in BOOLEAN /\ live \in BOOLEAN
    /\ presented \in Seq(SigningIn!Presentations)

LEMMA SigningTyped == Typed <=> SigningIn!TypeOK
<1>1. exchanging \in BOOLEAN /\ live \in BOOLEAN <=> {exchanging, live} \subseteq BOOLEAN
  BY Zenon
<1>2. /\ leaving \in 0 .. MaxStarts /\ token \in 0 .. MaxStarts /\ pending \in 0 .. MaxStarts
      /\ stored \in 0 .. MaxStarts /\ starts \in 0 .. MaxStarts
      <=> {leaving, token, pending, stored, starts} \subseteq 0 .. MaxStarts
  OBVIOUS
<1>3. /\ digesting \subseteq SigningIn!Attempts /\ opened \subseteq SigningIn!Attempts
      /\ approved \subseteq SigningIn!Attempts /\ spent \subseteq SigningIn!Attempts
      <=> {digesting, opened, approved, spent} \subseteq SUBSET SigningIn!Attempts
  OBVIOUS
<1>4. QED
  BY <1>1, <1>2, <1>3 DEF Typed, SigningIn!TypeOK

\* What the steps below start from.
LEMMA SigningFields ==
    ASSUME SigningInv
    PROVE  MaxStarts \in Nat /\ Typed
<1>1. MaxStarts \in Nat
  BY FlowsAssumption DEF SigningIn!SignInConstants
<1>2. QED
  BY <1>1, SigningTyped DEF SigningInv

\* No presentation, or one.
LEMMA OneOrNone ==
    /\ SigningIn!Cardinality({}) <= 1
    /\ \A p : SigningIn!Cardinality({p}) <= 1
<1>1. Cardinality({}) = 0
  BY FS_EmptySet
<1>2. \A p : Cardinality({p}) = 1
  BY FS_Singleton
<1>3. QED
  BY <1>1, <1>2, SameCounts

\* What a new document does with the tab, whichever it is: memory is gone, and
\* what finish() is about to present is what was pending, and is not any more.
Renewed ==
    /\ digesting' = {} /\ waiting' = <<>> /\ exchanging' = FALSE /\ leaving' = 0
    /\ UNCHANGED <<starts, spent, presented>>
    /\ \/ finishing' = {} /\ pending' \in {0, pending} /\ asked' = "none"
       \/ /\ pending # 0 /\ pending' = 0 /\ asked' = "pending"
          /\ finishing' = {[code |-> pending, verifier |-> pending]}

LEMMA RenewedKeeps ==
    ASSUME SigningInv, Renewed, ByDocument',
           at' \in {"page", "callback", "consent"}, visit' \in 0 .. SigningIn!NoCode,
           token' \in {0, token, stored}, stored' \in {0, stored}, live' \in BOOLEAN,
           opened' \subseteq SigningIn!Attempts, approved' \subseteq SigningIn!Attempts
    PROVE  SigningInv'
<1>1. /\ MaxStarts \in Nat /\ token \in 0 .. MaxStarts /\ pending \in 0 .. MaxStarts
      /\ stored \in 0 .. MaxStarts /\ starts \in 0 .. MaxStarts
      /\ spent \subseteq SigningIn!Attempts /\ presented \in Seq(SigningIn!Presentations)
  BY SigningFields DEF Typed
<1>2. /\ finishing' \subseteq SigningIn!Presentations /\ SigningIn!Cardinality(finishing') <= 1
      /\ pending' \in 0 .. MaxStarts /\ asked' \in {"none", "pending", "good", "rejected"}
  <2>1. CASE finishing' = {}
    BY <1>1, <2>1, OneOrNone DEF Renewed
  <2>2. CASE /\ pending # 0 /\ pending' = 0 /\ asked' = "pending"
             /\ finishing' = {[code |-> pending, verifier |-> pending]}
    <3>1. pending \in 0 .. MaxStarts /\ pending \in 1 .. MaxStarts
      BY <1>1, <2>2
    <3>2. [code |-> pending, verifier |-> pending] \in SigningIn!Presentations
      BY <3>1 DEF SigningIn!Presentations, SigningIn!Attempts
    <3>3. finishing' \subseteq SigningIn!Presentations
      BY <2>2, <3>2
    <3>4. \A S : (\E p : S = {p}) => SigningIn!Cardinality(S) <= 1
      BY OneOrNone
    <3>5. SigningIn!Cardinality(finishing') <= 1
      BY <2>2, <3>4, Zenon
    <3>6. QED
      BY <1>1, <2>2, <3>3, <3>5
  <2>3. QED
    BY <2>1, <2>2 DEF Renewed
<1>3. /\ token' \in 0 .. MaxStarts /\ stored' \in 0 .. MaxStarts
      /\ leaving' \in 0 .. MaxStarts /\ starts' \in 0 .. MaxStarts
  BY <1>1 DEF Renewed
<1>4. /\ digesting' \subseteq SigningIn!Attempts /\ waiting' \in Seq(SigningIn!Attempts)
      /\ spent' \subseteq SigningIn!Attempts /\ presented' \in Seq(SigningIn!Presentations)
  <2>1. digesting' = {} /\ waiting' = <<>> /\ spent' = spent /\ presented' = presented
    BY DEF Renewed
  <2>2. QED
    BY <1>1, <2>1
<1>5. SigningIn!TypeOK'
  <2>1. exchanging' \in BOOLEAN
    BY Zenon DEF Renewed
  <2>2. Typed'
    BY <1>2, <1>3, <1>4, <2>1 DEF Typed, SigningIn!NoCode, SigningIn!Attempts,
       SigningIn!Presentations
  <2>3. QED
    BY <2>2, SigningTyped, PTL
<1>6. Codes' = Codes /\ starts' = starts
  BY DEF Renewed, Codes
<1>7. OncePerAttempt'
  <2>1. OncePerAttempt
    BY DEF SigningInv
  <2>2. pending' <= starts'
    BY <1>1, <1>6, <2>1 DEF Renewed, OncePerAttempt
  <2>3. pending' # 0 => Unused(pending)'
    BY <1>6, <2>1 DEF Renewed, OncePerAttempt, Unused
  <2>4. \A p \in finishing' : p.code = p.verifier /\ p.code <= starts /\ p.code \notin Codes
    BY <2>1 DEF Renewed, OncePerAttempt, Unused
  <2>5. QED
    BY <1>6, <2>2, <2>3, <2>4 DEF Renewed, OncePerAttempt
<1>8. PresentedOnce' /\ LastIsPending'
  BY DEF SigningInv, Renewed, PresentedOnce, LastIsPending
<1>9. QED
  BY <1>5, <1>7, <1>8 DEF SigningInv

\* The documents that come and go: a page, the callback, a consent screen.
LEMMA DocumentsKeep ==
    ASSUME SigningInv,
           \/ SigningIn!Unload \/ SigningIn!Approve \/ SigningIn!Deny
           \/ SigningIn!Return \/ SigningIn!Reload
           \/ \E n \in 0 .. SigningIn!NoCode : SigningIn!Revisit(n) \/ SigningIn!ForthToConsent(n)
    PROVE  SigningInv'
<1>1. /\ MaxStarts \in Nat /\ pending \in 0 .. MaxStarts /\ leaving \in 0 .. MaxStarts
      /\ visit \in 0 .. SigningIn!NoCode /\ at \in {"page", "callback", "consent"}
      /\ opened \subseteq SigningIn!Attempts /\ approved \subseteq SigningIn!Attempts
      /\ live \in BOOLEAN
  BY SigningFields DEF Typed
<1>2. SigningIn!NoCode = MaxStarts + 1 /\ SigningIn!Attempts = 1 .. MaxStarts
  BY DEF SigningIn!NoCode, SigningIn!Attempts
<1>3. ASSUME NEW n \in SigningIn!Attempts, SigningIn!Away(n) PROVE SigningInv'
  <2>1. /\ at' = "consent" /\ visit' = n /\ leaving' = 0 /\ token' = 0 /\ asked' = "none"
        /\ digesting' = {} /\ waiting' = <<>> /\ finishing' = {} /\ exchanging' = FALSE
        /\ opened' = opened \cup {n}
        /\ UNCHANGED <<pending, stored, live, starts, approved, spent, presented>>
    BY <1>3 DEF SigningIn!Away, SigningIn!storage
  <2>2. Renewed
    BY <2>1 DEF Renewed
  <2>3. visit' \in 0 .. SigningIn!NoCode /\ visit' \in SigningIn!Attempts
    BY <1>1, <1>2, <1>3, <2>1
  <2>4. ByDocument'
    BY <2>1, <2>3 DEF ByDocument, SigningIn!Attempts
  <2>5. opened' \subseteq SigningIn!Attempts /\ approved' \subseteq SigningIn!Attempts
    BY <1>1, <1>3, <2>1
  <2>6. at' \in {"page", "callback", "consent"}
    BY <2>1
  <2>7. token' \in {0, token, stored} /\ stored' \in {0, stored} /\ live' \in BOOLEAN
    BY <1>1, <2>1
  <2>8. QED
    BY <2>2, <2>3, <2>4, <2>5, <2>6, <2>7, RenewedKeeps
<1>4. ASSUME NEW code, SigningIn!mounted(code)
      PROVE  \/ finishing' = {} /\ pending' \in {0, pending} /\ asked' = "none"
             \/ /\ pending # 0 /\ pending' = 0 /\ asked' = "pending"
                /\ finishing' = {[code |-> pending, verifier |-> pending]}
  <2>1. CASE code = pending /\ code # 0
    <3>1. pending # SigningIn!NoCode
      BY <1>1, <1>2
    <3>2. QED
      BY <1>4, <2>1, <3>1 DEF SigningIn!mounted
  <2>2. CASE ~(code = pending /\ code # 0)
    BY <1>4, <2>2 DEF SigningIn!mounted
  <2>3. QED
    BY <2>1, <2>2
<1>5. ASSUME SigningIn!constructed
      PROVE  /\ digesting' = {} /\ waiting' = <<>> /\ exchanging' = FALSE /\ leaving' = 0
             /\ stored' \in {0, stored} /\ token' = stored' /\ live' \in BOOLEAN
  BY <1>5 DEF SigningIn!constructed
<1>6. ASSUME NEW document \in {"page", "callback"}, NEW code \in 0 .. SigningIn!NoCode,
             SigningIn!Load(document, code)
      PROVE  SigningInv'
  <2>1. /\ at' = document /\ visit' = code /\ SigningIn!constructed
        /\ UNCHANGED <<starts, opened, approved, spent, presented>>
        /\ \/ SigningIn!mounted(code)
           \/ finishing' = {} /\ asked' = "none" /\ pending' = pending
    BY <1>6 DEF SigningIn!Load, SigningIn!past
  <2>2. Renewed
    BY <1>4, <1>5, <2>1 DEF Renewed
  <2>3. ByDocument'
    BY <1>5, <1>6, <2>1 DEF ByDocument
  <2>4. at' \in {"page", "callback", "consent"} /\ visit' \in 0 .. SigningIn!NoCode
    BY <2>1
  <2>5. opened' \subseteq SigningIn!Attempts /\ approved' \subseteq SigningIn!Attempts
    BY <1>1, <2>1
  <2>6. token' \in {0, token, stored} /\ stored' \in {0, stored} /\ live' \in BOOLEAN
    BY <1>5, <2>1
  <2>7. QED
    BY <2>2, <2>3, <2>4, <2>5, <2>6, RenewedKeeps
<1>7. CASE SigningIn!Unload
  <2>1. leaving \in SigningIn!Attempts /\ SigningIn!Away(leaving)
    BY <1>1, <1>2, <1>7 DEF SigningIn!Unload
  <2>2. QED
    BY <1>3, <2>1
<1>8. CASE SigningIn!Approve
  <2>1. /\ at = "consent" /\ at' = "callback" /\ visit' = visit
        /\ SigningIn!constructed /\ SigningIn!mounted(visit)
        /\ approved' = approved \cup {visit}
        /\ UNCHANGED <<opened, starts, spent, presented>>
    BY <1>8 DEF SigningIn!Approve
  <2>2. Renewed
    BY <1>4, <1>5, <2>1 DEF Renewed
  <2>3. ByDocument'
    BY <1>5, <2>1 DEF ByDocument
  <2>4. visit \in SigningIn!Attempts
    BY <2>1 DEF SigningInv, ByDocument
  <2>5. opened' \subseteq SigningIn!Attempts /\ approved' \subseteq SigningIn!Attempts
    BY <1>1, <2>1, <2>4
  <2>6. at' \in {"page", "callback", "consent"} /\ visit' \in 0 .. SigningIn!NoCode
    BY <1>1, <2>1
  <2>7. token' \in {0, token, stored} /\ stored' \in {0, stored} /\ live' \in BOOLEAN
    BY <1>5, <2>1
  <2>8. QED
    BY <2>2, <2>3, <2>5, <2>6, <2>7, RenewedKeeps
<1>9. CASE SigningIn!Deny
  <2>1. SigningIn!NoCode \in 0 .. SigningIn!NoCode /\ SigningIn!Load("callback", SigningIn!NoCode)
    BY <1>1, <1>2, <1>9 DEF SigningIn!Deny
  <2>2. QED
    BY <1>6, <2>1
<1>10. CASE SigningIn!Return
  <2>1. 0 \in 0 .. SigningIn!NoCode /\ SigningIn!Load("page", 0)
    BY <1>1, <1>2, <1>10 DEF SigningIn!Return
  <2>2. QED
    BY <1>6, <2>1
<1>11. CASE SigningIn!Reload
  <2>1. at \in {"page", "callback"} /\ SigningIn!Load(at, visit)
    BY <1>1, <1>11 DEF SigningIn!Reload
  <2>2. QED
    BY <1>1, <1>6, <2>1
<1>12. ASSUME NEW n \in 0 .. SigningIn!NoCode, SigningIn!Revisit(n) PROVE SigningInv'
  <2>1. n \in 0 .. SigningIn!NoCode /\ SigningIn!Load("callback", n)
    BY <1>1, <1>2, <1>12 DEF SigningIn!Revisit
  <2>2. QED
    BY <1>6, <2>1
<1>13. ASSUME NEW n \in 0 .. SigningIn!NoCode, SigningIn!ForthToConsent(n) PROVE SigningInv'
  <2>1. n \in SigningIn!Attempts /\ SigningIn!Away(n)
    BY <1>1, <1>13 DEF SigningIn!ForthToConsent
  <2>2. QED
    BY <1>3, <2>1
<1>14. QED
  BY <1>7, <1>8, <1>9, <1>10, <1>11, <1>12, <1>13

\* The invariant by its parts.
LEMMA SigningAgain ==
    Typed' /\ OncePerAttempt' /\ PresentedOnce' /\ LastIsPending' /\ ByDocument' => SigningInv'
<1>1. Typed' => SigningIn!TypeOK'
  BY SigningTyped, PTL
<1>2. QED
  BY <1>1 DEF SigningInv

\* What starts nothing and presents nothing: a link within the site, doors that
\* stay shut, an exchange given up, a token taken back or that lapses.
LEMMA QuietKeeps ==
    ASSUME SigningInv,
           \/ SigningIn!ToPage \/ SigningIn!DoorsShut \/ SigningIn!FinishFails
           \/ SigningIn!out \/ SigningIn!Lapse
    PROVE  SigningInv'
<1>1. /\ UNCHANGED <<leaving, digesting, pending, starts, opened, approved, spent, presented>>
      /\ \/ at' = at /\ visit' = visit
         \/ at' = "page" /\ at # "consent" /\ visit' = 0
      /\ finishing' = {} \/ (finishing' = finishing /\ exchanging' = exchanging)
      /\ exchanging' \in {exchanging, FALSE}
      /\ \/ UNCHANGED <<asked, waiting>>
         \/ /\ asked = "pending" /\ asked' \in {"none", "rejected"} /\ waiting' = <<>>
      /\ \/ UNCHANGED <<token, stored>>
         \/ token' = 0 /\ stored' = 0
      /\ live' \in {live, FALSE}
  BY DEF SigningIn!ToPage, SigningIn!DoorsShut, SigningIn!FinishFails, SigningIn!out, SigningIn!Lapse,
         SigningIn!memory, SigningIn!storage, SigningIn!past
<1>2. MaxStarts \in Nat /\ Typed
  BY SigningFields
<1>3. exchanging' \in BOOLEAN /\ live' \in BOOLEAN
  BY <1>1, <1>2, Zenon DEF Typed
<1>4. finishing' \subseteq SigningIn!Presentations /\ SigningIn!Cardinality(finishing') <= 1
  BY <1>1, <1>2, OneOrNone DEF Typed
<1>5. waiting' \in Seq(SigningIn!Attempts) /\ asked' \in {"none", "pending", "good", "rejected"}
  <2>1. /\ waiting \in Seq(SigningIn!Attempts) /\ asked \in {"none", "pending", "good", "rejected"}
        /\ <<>> \in Seq(SigningIn!Attempts)
    BY <1>2 DEF Typed
  <2>2. waiting' \in {waiting, <<>>}
    BY <1>1
  <2>3. asked' \in {asked, "none", "rejected"}
    BY <1>1
  <2>4. waiting' \in Seq(SigningIn!Attempts)
    BY <2>1, <2>2
  <2>5. QED
    BY <2>1, <2>3, <2>4
<1>6. at' \in {"page", "callback", "consent"} /\ visit' \in 0 .. SigningIn!NoCode
  BY <1>1, <1>2 DEF Typed, SigningIn!NoCode
<1>7. token' \in 0 .. MaxStarts /\ stored' \in 0 .. MaxStarts
  BY <1>1, <1>2 DEF Typed
<1>8. Typed'
  BY <1>1, <1>2, <1>3, <1>4, <1>5, <1>6, <1>7
     DEF Typed, SigningIn!NoCode, SigningIn!Attempts, SigningIn!Presentations
<1>9. Codes' = Codes
  BY <1>1 DEF Codes
<1>10. OncePerAttempt'
  <2>1. finishing' \subseteq finishing /\ (finishing' = {} \/ exchanging' = exchanging)
    BY <1>1
  <2>2. OncePerAttempt
    BY DEF SigningInv
  <2>3. \A n : Unused(n) => Unused(n)'
    BY <1>9, <2>1 DEF Unused
  <2>4. \A n \in digesting' : n <= starts' /\ n # pending' /\ Unused(n)'
    BY <1>1, <2>2, <2>3 DEF OncePerAttempt
  <2>5. pending' <= starts' /\ (pending' # 0 => Unused(pending)')
    <3>1. Unused(pending)' <=> (pending' \notin Codes' /\ \A p \in finishing' : p.code # pending')
      BY DEF Unused
    <3>2. QED
      BY <1>1, <1>9, <2>1, <2>2, <3>1 DEF OncePerAttempt, Unused
  <2>6. \A p \in finishing' :
           p.code = p.verifier /\ p.code <= starts' /\ (p.code \notin Codes' \/ exchanging')
    BY <1>1, <1>9, <2>1, <2>2 DEF OncePerAttempt
  <2>7. QED
    BY <2>4, <2>5, <2>6 DEF OncePerAttempt
<1>11. PresentedOnce'
  BY <1>1 DEF SigningInv, PresentedOnce
<1>12. LastIsPending'
  BY <1>1 DEF SigningInv, LastIsPending
<1>13. ByDocument'
  BY <1>1 DEF SigningInv, ByDocument, SigningIn!Attempts
<1>14. QED
  BY <1>8, <1>10, <1>11, <1>12, <1>13, SigningAgain

\* A press begins an attempt that nothing knows of yet.
LEMMA PressKeeps ==
    ASSUME SigningInv, SigningIn!Press
    PROVE  SigningInv'
<1>1. /\ starts < MaxStarts /\ starts' = starts + 1 /\ digesting' = digesting \cup {starts + 1}
      /\ UNCHANGED <<at, visit, leaving, token, asked, waiting, finishing, exchanging,
                     pending, stored, live, opened, approved, spent, presented>>
  BY DEF SigningIn!Press, SigningIn!storage
<1>2. MaxStarts \in Nat /\ Typed /\ starts \in 0 .. MaxStarts
  BY SigningFields DEF Typed
<1>3. starts' \in 0 .. MaxStarts /\ starts + 1 \in SigningIn!Attempts
  BY <1>1, <1>2 DEF SigningIn!Attempts
<1>4. Typed'
  BY <1>1, <1>2, <1>3 DEF Typed, SigningIn!NoCode, SigningIn!Attempts, SigningIn!Presentations
<1>5. Codes' = Codes
  BY <1>1 DEF Codes
<1>6. OncePerAttempt'
  <2>1. OncePerAttempt /\ PresentedOnce
    BY DEF SigningInv
  <2>2. \A n : Unused(n)' <=> Unused(n)
    BY <1>1, <1>5 DEF Unused
  <2>3. \A n \in Codes : n <= starts
    BY <2>1 DEF Codes, PresentedOnce
  <2>4. \A n \in Codes : n # starts + 1
    BY <1>2, <2>3
  <2>5. \A p \in finishing : p.code # starts + 1
    <3>1. \A p \in finishing : p.code <= starts
      BY <2>1 DEF OncePerAttempt
    <3>2. QED
      BY <1>2, <3>1
  <2>6. Unused(starts + 1)
    BY <2>4, <2>5 DEF Unused
  <2>7. pending # starts + 1 /\ pending <= starts + 1
    BY <1>2, <2>1 DEF OncePerAttempt, Typed
  <2>8. \A n \in digesting : n <= starts + 1
    BY <1>2, <2>1 DEF OncePerAttempt, Typed, SigningIn!Attempts
  <2>9. \A n \in digesting' : n <= starts' /\ n # pending' /\ Unused(n)'
    <3>1. ASSUME NEW n \in digesting' PROVE n <= starts' /\ n # pending' /\ Unused(n)
      <4>1. CASE n \in digesting
        BY <1>1, <2>1, <2>8, <4>1 DEF OncePerAttempt
      <4>2. CASE n = starts + 1
        <5>1. n <= starts'
          BY <1>1, <1>2, <4>2
        <5>2. n # pending' /\ Unused(n)
          BY <1>1, <2>6, <2>7, <4>2
        <5>3. QED
          BY <5>1, <5>2
      <4>3. QED
        BY <1>1, <3>1, <4>1, <4>2
    <3>2. QED
      BY <2>2, <3>1
  <2>10. pending' # 0 => Unused(pending)'
    <3>1. Unused(pending)' <=> Unused(pending)
      BY <1>1, <1>5 DEF Unused
    <3>2. QED
      BY <1>1, <2>1, <3>1 DEF OncePerAttempt
  <2>11. \A p \in finishing' :
            p.code = p.verifier /\ p.code <= starts' /\ (p.code \notin Codes' \/ exchanging')
    <3>1. \A p \in finishing : p.code \in Nat
      BY <1>2 DEF Typed, SigningIn!Presentations
    <3>2. \A p \in finishing : p.code <= starts + 1
      BY <1>2, <2>1, <3>1 DEF OncePerAttempt
    <3>3. QED
      BY <1>1, <1>5, <2>1, <3>2 DEF OncePerAttempt
  <2>12. QED
    BY <1>1, <2>7, <2>9, <2>10, <2>11 DEF OncePerAttempt
<1>7. PresentedOnce'
  <2>1. \A i \in 1 .. Len(presented) : presented[i].code \in Nat /\ presented[i].code <= starts
    <3>1. presented \in Seq(SigningIn!Presentations)
      BY <1>2 DEF Typed
    <3>2. \A i \in 1 .. Len(presented) : presented[i] \in SigningIn!Presentations
      BY <3>1
    <3>3. \A p \in SigningIn!Presentations : p.code \in Nat
      BY <1>2 DEF SigningIn!Presentations
    <3>4. QED
      BY <3>2, <3>3 DEF SigningInv, PresentedOnce
  <2>2. \A i \in 1 .. Len(presented) : presented[i].code <= starts + 1
    BY <1>2, <2>1
  <2>3. QED
    BY <1>1, <2>2 DEF SigningInv, PresentedOnce
<1>8. LastIsPending' /\ ByDocument'
  BY <1>1 DEF SigningInv, LastIsPending, ByDocument, SigningIn!Attempts
<1>9. QED
  BY <1>4, <1>6, <1>7, <1>8, SigningAgain

\* PENDING is the attempt just digested: no other place holds it any more.
LEMMA DigestedKeeps ==
    ASSUME SigningInv, NEW n \in 0 .. SigningIn!NoCode, SigningIn!Digested(n)
    PROVE  SigningInv'
<1>1. /\ n \in digesting /\ digesting' = digesting \ {n} /\ pending' = n
      /\ waiting' = IF asked \in {"none", "pending"} THEN Append(waiting, n) ELSE waiting
      /\ asked' = IF asked = "none" THEN "pending" ELSE asked
      /\ leaving' = IF asked = "good" THEN n ELSE leaving
      /\ UNCHANGED <<at, visit, token, finishing, exchanging, stored, live,
                     starts, opened, approved, spent, presented>>
  BY DEF SigningIn!Digested, SigningIn!past
<1>2. MaxStarts \in Nat /\ Typed /\ n \in SigningIn!Attempts /\ waiting \in Seq(SigningIn!Attempts)
  BY <1>1, SigningFields DEF Typed
<1>3. Append(waiting, n) \in Seq(SigningIn!Attempts) /\ waiting' \in Seq(SigningIn!Attempts)
  BY <1>1, <1>2
<1>4. Typed'
  <2>1. asked' \in {"none", "pending", "good", "rejected"}
    BY <1>1, <1>2 DEF Typed
  <2>2. leaving' \in 0 .. MaxStarts /\ pending' \in 0 .. MaxStarts
    BY <1>1, <1>2 DEF Typed, SigningIn!Attempts
  <2>3. digesting' \subseteq SigningIn!Attempts
    BY <1>1, <1>2 DEF Typed
  <2>4. QED
    BY <1>1, <1>2, <1>3, <2>1, <2>2, <2>3
       DEF Typed, SigningIn!NoCode, SigningIn!Attempts, SigningIn!Presentations
<1>5. OncePerAttempt'
  <2>1. Codes' = Codes
    BY <1>1 DEF Codes
  <2>2. OncePerAttempt
    BY DEF SigningInv
  <2>3. \A k : Unused(k)' <=> Unused(k)
    BY <1>1, <2>1 DEF Unused
  <2>4. Unused(pending)' <=> Unused(n)
    BY <1>1, <2>1 DEF Unused
  <2>5. \A k \in digesting' : k <= starts' /\ k # pending' /\ Unused(k)'
    BY <1>1, <2>2, <2>3 DEF OncePerAttempt
  <2>6. pending' <= starts' /\ (pending' # 0 => Unused(pending)')
    BY <1>1, <2>2, <2>4 DEF OncePerAttempt
  <2>7. \A p \in finishing' :
           p.code = p.verifier /\ p.code <= starts' /\ (p.code \notin Codes' \/ exchanging')
    BY <1>1, <2>1, <2>2 DEF OncePerAttempt
  <2>8. QED
    BY <2>5, <2>6, <2>7 DEF OncePerAttempt
<1>6. PresentedOnce' /\ ByDocument'
  BY <1>1 DEF SigningInv, PresentedOnce, ByDocument, SigningIn!Attempts
<1>7. LastIsPending'
  <2>1. waiting # <<>> => asked = "pending"
    BY DEF SigningInv, LastIsPending
  <2>2. leaving # 0 => asked = "good"
    BY DEF SigningInv, LastIsPending
  <2>3. Append(waiting, n)[Len(Append(waiting, n))] = n
    BY <1>2
  <2>4. waiting' # <<>> => waiting' = Append(waiting, n) /\ asked' = "pending"
    BY <1>1, <2>1
  <2>5. waiting' # <<>> => asked' = "pending" /\ waiting'[Len(waiting')] = pending'
    BY <1>1, <2>3, <2>4
  <2>6. leaving' # 0 => asked' = "good" /\ pending' = leaving'
    BY <1>1, <2>2
  <2>7. QED
    BY <2>5, <2>6 DEF LastIsPending
<1>8. QED
  BY <1>4, <1>5, <1>6, <1>7, SigningAgain

\* The doors are opened once for all the starts that wait: the last one wins, and
\* it is what PENDING is about.
LEMMA DoorsOpenKeeps ==
    ASSUME SigningInv, SigningIn!DoorsOpen
    PROVE  SigningInv'
<1>1. /\ asked = "pending" /\ asked' = "good" /\ waiting' = <<>>
      /\ leaving' = IF waiting = <<>> THEN leaving ELSE waiting[Len(waiting)]
      /\ UNCHANGED <<at, visit, token, digesting, finishing, exchanging, pending, stored, live,
                     starts, opened, approved, spent, presented>>
  BY DEF SigningIn!DoorsOpen, SigningIn!storage, SigningIn!past
<1>2. MaxStarts \in Nat /\ Typed
  BY SigningFields
<1>3. /\ waiting # <<>> => waiting[Len(waiting)] = pending
      /\ leaving = 0
  BY <1>1 DEF SigningInv, LastIsPending
<1>4. leaving' \in {0, pending}
  BY <1>1, <1>3
<1>5. Typed'
  <2>1. leaving' \in 0 .. MaxStarts
    BY <1>2, <1>4 DEF Typed
  <2>2. waiting' \in Seq(SigningIn!Attempts)
    BY <1>1
  <2>3. QED
    BY <1>1, <1>2, <2>1, <2>2
       DEF Typed, SigningIn!NoCode, SigningIn!Attempts, SigningIn!Presentations
<1>6. OncePerAttempt' /\ PresentedOnce' /\ ByDocument'
  BY <1>1 DEF SigningInv, OncePerAttempt, PresentedOnce, ByDocument, SigningIn!Attempts, Unused, Codes
<1>7. LastIsPending'
  BY <1>1, <1>4 DEF LastIsPending
<1>8. QED
  BY <1>5, <1>6, <1>7, SigningAgain

\* A code is presented, and neither is pending nor waits to be.
LEMMA PresentKeeps ==
    ASSUME SigningInv, SigningIn!Present
    PROVE  SigningInv'
<1>1. PICK p \in finishing :
         /\ ~exchanging /\ exchanging' = TRUE /\ presented' = Append(presented, p)
         /\ UNCHANGED <<at, visit, leaving, token, asked, digesting, waiting, finishing,
                        pending, stored, live, starts, opened, approved, spent>>
  BY DEF SigningIn!Present, SigningIn!storage
<1>2. MaxStarts \in Nat /\ Typed
  BY SigningFields
<1>3. /\ presented \in Seq(SigningIn!Presentations) /\ p \in SigningIn!Presentations
      /\ Len(presented) \in Nat
  BY <1>2 DEF Typed
<1>4. /\ presented' \in Seq(SigningIn!Presentations)
      /\ Len(presented') = Len(presented) + 1
      /\ \A i \in 1 .. Len(presented) : presented'[i] = presented[i]
      /\ presented'[Len(presented) + 1] = p
  BY <1>1, <1>3
<1>5. p.code = p.verifier /\ p.code <= starts /\ p.code \notin Codes
  BY <1>1 DEF SigningInv, OncePerAttempt
<1>6. Codes' = Codes \cup {p.code}
  <2>1. \A i \in 1 .. Len(presented') : i \in 1 .. Len(presented) \/ i = Len(presented) + 1
    BY <1>3, <1>4
  <2>2. \A i \in 1 .. Len(presented) : i \in 1 .. Len(presented')
    BY <1>3, <1>4
  <2>3. Len(presented) + 1 \in 1 .. Len(presented')
    BY <1>3, <1>4
  <2>4. Codes' = {presented'[i].code : i \in 1 .. Len(presented')}
    BY DEF Codes
  <2>5. \A c : c \in Codes' => c \in Codes \cup {p.code}
    BY <1>4, <2>1, <2>4 DEF Codes
  <2>6. \A c : c \in Codes => c \in Codes'
    BY <1>4, <2>2, <2>4 DEF Codes
  <2>7. p.code \in Codes'
    BY <1>4, <2>3, <2>4
  <2>8. QED
    BY <2>5, <2>6, <2>7
<1>7. Typed'
  BY <1>1, <1>2, <1>4 DEF Typed, SigningIn!NoCode, SigningIn!Attempts, SigningIn!Presentations
<1>8. OncePerAttempt'
  <2>1. OncePerAttempt
    BY DEF SigningInv
  <2>2. \A n : Unused(n) => Unused(n)'
    BY <1>1, <1>6 DEF Unused
  <2>3. Unused(pending) => Unused(pending)'
    BY <1>1, <1>6 DEF Unused
  <2>4. \A n \in digesting' : n <= starts' /\ n # pending' /\ Unused(n)'
    BY <1>1, <2>1, <2>2 DEF OncePerAttempt
  <2>5. pending' <= starts' /\ (pending' # 0 => Unused(pending)')
    BY <1>1, <2>1, <2>3 DEF OncePerAttempt
  <2>6. \A q \in finishing' : q.code = q.verifier /\ q.code <= starts' /\ exchanging'
    BY <1>1, <2>1 DEF OncePerAttempt
  <2>7. QED
    BY <2>4, <2>5, <2>6 DEF OncePerAttempt
<1>9. PresentedOnce'
  <2>1. PresentedOnce
    BY DEF SigningInv
  <2>2. \A i \in 1 .. Len(presented') : i \in 1 .. Len(presented) \/ i = Len(presented) + 1
    BY <1>3, <1>4
  <2>3. \A i \in 1 .. Len(presented') :
           presented'[i].code = presented'[i].verifier /\ presented'[i].code <= starts'
    BY <1>1, <1>4, <1>5, <2>1, <2>2 DEF PresentedOnce
  <2>4. \A i \in 1 .. Len(presented) : presented[i].code # p.code
    BY <1>5 DEF Codes
  <2>5. \A i, j \in 1 .. Len(presented') : presented'[i].code = presented'[j].code => i = j
    BY <1>4, <2>1, <2>2, <2>4 DEF PresentedOnce
  <2>6. QED
    BY <2>3, <2>5 DEF PresentedOnce
<1>10. LastIsPending' /\ ByDocument'
  BY <1>1 DEF SigningInv, LastIsPending, ByDocument, SigningIn!Attempts
<1>11. QED
  BY <1>7, <1>8, <1>9, <1>10, SigningAgain

\* The exchange ends, with the token in memory and in storage or in neither.
LEMMA ExchangedKeeps ==
    ASSUME SigningInv, SigningIn!Exchanged
    PROVE  SigningInv'
<1>1. PICK p \in finishing :
         /\ p.code = p.verifier /\ spent' = spent \cup {p.code}
         /\ \/ token' = p.code /\ stored' = p.code /\ live' = TRUE /\ at' = "page" /\ visit' = 0
            \/ UNCHANGED <<token, stored, live, at, visit>>
  BY DEF SigningIn!Exchanged
<1>2. /\ finishing' = {} /\ exchanging' = FALSE
      /\ UNCHANGED <<leaving, asked, digesting, waiting, pending, starts, opened, approved, presented>>
  BY DEF SigningIn!Exchanged
<1>3. MaxStarts \in Nat /\ Typed
  BY SigningFields
<1>4. p.code \in 0 .. MaxStarts /\ p.code \in SigningIn!Attempts
  BY <1>1, <1>3 DEF Typed, SigningIn!Presentations
<1>5. /\ token' \in 0 .. MaxStarts /\ stored' \in 0 .. MaxStarts
      /\ at' \in {"page", "callback", "consent"} /\ visit' \in 0 .. SigningIn!NoCode
      /\ spent' \subseteq SigningIn!Attempts
  BY <1>1, <1>3, <1>4 DEF Typed, SigningIn!NoCode
<1>6. live' \in BOOLEAN /\ exchanging' \in BOOLEAN
  BY <1>1, <1>2, <1>3, Zenon DEF Typed
<1>7. Typed'
  <2>1. finishing' \subseteq SigningIn!Presentations /\ SigningIn!Cardinality(finishing') <= 1
    BY <1>2, OneOrNone
  <2>2. QED
    BY <1>2, <1>3, <1>5, <1>6, <2>1
       DEF Typed, SigningIn!NoCode, SigningIn!Attempts, SigningIn!Presentations
<1>8. OncePerAttempt'
  <2>1. Codes' = Codes
    BY <1>2 DEF Codes
  <2>2. QED
    BY <1>2, <2>1 DEF SigningInv, OncePerAttempt, Unused
<1>9. PresentedOnce' /\ LastIsPending'
  BY <1>2 DEF SigningInv, PresentedOnce, LastIsPending
<1>10. ByDocument'
  BY <1>1 DEF SigningInv, ByDocument, SigningIn!Attempts
<1>11. QED
  BY <1>7, <1>8, <1>9, <1>10, SigningAgain

\* The invariant of the sign-in holds from the start, is kept by every step, and
\* is untouched by the steps of the others.
LEMMA SigningKeeps ==
    /\ SigningIn!Init => SigningInv
    /\ SigningInv /\ SigningIn!Next => SigningInv'
    /\ SigningInv /\ UNCHANGED signingIn => SigningInv'
<1>1. ASSUME SigningIn!Init PROVE SigningInv
  <2>1. /\ at = "page" /\ visit = 0 /\ leaving = 0 /\ token = 0 /\ asked = "none"
        /\ digesting = {} /\ waiting = <<>> /\ finishing = {} /\ exchanging = FALSE
        /\ pending = 0 /\ stored = 0 /\ live = TRUE /\ starts = 0
        /\ opened = {} /\ approved = {} /\ spent = {} /\ presented = <<>>
    BY <1>1 DEF SigningIn!Init
  <2>2. MaxStarts \in Nat
    BY FlowsAssumption DEF SigningIn!SignInConstants
  <2>3. SigningIn!TypeOK
    <3>1. visit \in 0 .. SigningIn!NoCode /\ SigningIn!Cardinality(finishing) <= 1
      BY <2>1, <2>2, OneOrNone DEF SigningIn!NoCode
    <3>2. exchanging \in BOOLEAN /\ live \in BOOLEAN
      BY <2>1, Zenon
    <3>3. waiting \in Seq(SigningIn!Attempts) /\ presented \in Seq(SigningIn!Presentations)
      BY <2>1
    <3>4. Typed
      BY <2>1, <2>2, <3>1, <3>2, <3>3 DEF Typed
    <3>5. QED
      BY <3>4, SigningTyped
  <2>4. OncePerAttempt /\ PresentedOnce /\ LastIsPending /\ ByDocument
    BY <2>1 DEF OncePerAttempt, PresentedOnce, LastIsPending, ByDocument
  <2>5. QED
    BY <2>3, <2>4 DEF SigningInv
<1>2. SigningInv /\ SigningIn!Next => SigningInv'
  BY DocumentsKeep, QuietKeeps, PressKeeps, DigestedKeeps, DoorsOpenKeeps, PresentKeeps,
     ExchangedKeeps DEF SigningIn!Next
<1>3. ASSUME SigningInv, UNCHANGED signingIn PROVE SigningInv'
  <2>1. UNCHANGED <<at, visit, leaving, token, asked, digesting, waiting, finishing, exchanging,
                    pending, stored, live, starts, opened, approved, spent, presented>>
    BY <1>3 DEF signingIn
  <2>2. Typed'
    BY <1>3, <2>1, SigningFields
       DEF Typed, SigningIn!NoCode, SigningIn!Attempts, SigningIn!Presentations
  <2>3. OncePerAttempt' /\ PresentedOnce' /\ LastIsPending' /\ ByDocument'
    BY <1>3, <2>1
       DEF SigningInv, OncePerAttempt, PresentedOnce, LastIsPending, ByDocument, Unused, Codes,
           SigningIn!Attempts
  <2>4. QED
    BY <2>2, <2>3, SigningAgain
<1>4. QED
  BY <1>1, <1>2, <1>3

-------------------------------------------------------------------------------
(* The playground's page *)

\* There is the request that runs or none, with what was asked for; it is of what
\* is chosen unless something else was picked since.
OneFlies ==
    /\ running => \E r \in Trying!Requests :
                     flying = {r} /\ r.filled /\ r.token /\ (r.op # chosen => switched)
    /\ ~running => flying = {}

AnsweredUnlessSwitched == answer # 0 /\ answer # chosen => switched

TryingInv == Trying!TypeOK /\ OneFlies /\ AnsweredUnlessSwitched

\* The types, one by one.
LEMMA TryingTyped ==
    Trying!TypeOK <=>
        /\ linked \in Ops \cup {0} /\ chosen \in Ops \cup {0} /\ answer \in Ops \cup {0}
        /\ filled \in BOOLEAN /\ failed \in BOOLEAN /\ running \in BOOLEAN
        /\ signedIn \in BOOLEAN /\ switched \in BOOLEAN
        /\ flying \subseteq Trying!Requests
<1>1. {filled, failed, running, signedIn, switched} \subseteq BOOLEAN <=>
        /\ filled \in BOOLEAN /\ failed \in BOOLEAN /\ running \in BOOLEAN
        /\ signedIn \in BOOLEAN /\ switched \in BOOLEAN
  BY Zenon
<1>2. QED
  BY <1>1 DEF Trying!TypeOK

\* And after a step.
LEMMA TryingTypedAgain ==
    ASSUME (/\ linked \in Ops \cup {0} /\ chosen \in Ops \cup {0} /\ answer \in Ops \cup {0}
            /\ filled \in BOOLEAN /\ failed \in BOOLEAN /\ running \in BOOLEAN
            /\ signedIn \in BOOLEAN /\ switched \in BOOLEAN
            /\ flying \subseteq Trying!Requests)'
    PROVE  Trying!TypeOK'
BY TryingTyped, PTL

\* Another operation is picked: the page starts afresh, and a request that runs
\* goes on, about what was picked before.
LEMMA PickKeeps ==
    ASSUME TryingInv, NEW op \in Ops \cup {0}, Trying!pick(op)
    PROVE  TryingInv'
<1>1. /\ chosen' = op /\ filled' = FALSE /\ answer' = 0 /\ failed' = FALSE
      /\ switched' = (running \/ (switched /\ flying # {}))
      /\ UNCHANGED <<linked, running, signedIn, flying>>
  BY DEF Trying!pick
<1>2. /\ linked \in Ops \cup {0} /\ running \in BOOLEAN /\ signedIn \in BOOLEAN
      /\ switched \in BOOLEAN /\ flying \subseteq Trying!Requests
  BY TryingTyped DEF TryingInv
<1>3. running => switched'
  BY <1>1, Zenon
<1>4. Trying!TypeOK'
  <2>1. switched' \in BOOLEAN /\ filled' \in BOOLEAN /\ failed' \in BOOLEAN
    BY <1>1, Zenon
  <2>2. QED
    BY <1>1, <1>2, <2>1, TryingTypedAgain DEF Trying!Requests
<1>5. OneFlies'
  BY <1>1, <1>3 DEF TryingInv, OneFlies, Trying!Requests
<1>6. AnsweredUnlessSwitched'
  BY <1>1 DEF AnsweredUnlessSwitched
<1>7. QED
  BY <1>4, <1>5, <1>6 DEF TryingInv

\* The button: it sends what is chosen, filled in and signed, when nothing runs.
LEMMA RunKeeps ==
    ASSUME TryingInv, Trying!run
    PROVE  TryingInv'
<1>1. /\ chosen # 0 /\ filled /\ ~running /\ signedIn
      /\ running' = TRUE /\ failed' = FALSE /\ answer' = 0 /\ switched' = FALSE
      /\ flying' = flying \cup {[op |-> chosen, filled |-> filled, token |-> signedIn]}
      /\ UNCHANGED <<linked, chosen, filled, signedIn>>
  BY DEF Trying!run, Trying!ready
<1>2. /\ linked \in Ops \cup {0} /\ chosen \in Ops \cup {0}
      /\ filled \in BOOLEAN /\ signedIn \in BOOLEAN
  BY TryingTyped DEF TryingInv
<1>3. PICK r : r = [op |-> chosen, filled |-> filled, token |-> signedIn]
  OBVIOUS
<1>4. r \in Trying!Requests
  <2>1. chosen \in Ops
    BY <1>1, <1>2
  <2>2. QED
    BY <1>2, <1>3, <2>1 DEF Trying!Requests
<1>5. r.op = chosen /\ r.filled /\ r.token
  BY <1>1, <1>3
<1>6. flying' = {r}
  BY <1>1, <1>3 DEF TryingInv, OneFlies
<1>7. Trying!TypeOK'
  <2>1. running' \in BOOLEAN /\ failed' \in BOOLEAN /\ switched' \in BOOLEAN
    BY <1>1, Zenon
  <2>2. flying' \subseteq Trying!Requests
    BY <1>4, <1>6
  <2>3. QED
    BY <1>1, <1>2, <2>1, <2>2, TryingTypedAgain DEF Trying!Requests
<1>8. OneFlies'
  BY <1>1, <1>4, <1>5, <1>6 DEF OneFlies, Trying!Requests
<1>9. AnsweredUnlessSwitched'
  BY <1>1 DEF AnsweredUnlessSwitched
<1>10. QED
  BY <1>7, <1>8, <1>9 DEF TryingInv

\* The answer is of the request that ran.
LEMMA CameKeeps ==
    ASSUME TryingInv, NEW request \in flying, Trying!Came(request)
    PROVE  TryingInv'
<1>1. /\ \/ answer' = request.op /\ failed' = failed
         \/ failed' = TRUE /\ answer' = answer
      /\ running' = FALSE /\ flying' = flying \ {request}
      /\ UNCHANGED <<linked, chosen, filled, signedIn, switched>>
  BY DEF Trying!Came
<1>2. PICK r \in Trying!Requests : flying = {r} /\ (r.op # chosen => switched)
  BY DEF TryingInv, OneFlies
<1>3. request = r /\ flying' = {} /\ r.op \in Ops
  BY <1>1, <1>2 DEF Trying!Requests
<1>4. /\ linked \in Ops \cup {0} /\ chosen \in Ops \cup {0} /\ answer \in Ops \cup {0}
      /\ filled \in BOOLEAN /\ failed \in BOOLEAN /\ signedIn \in BOOLEAN /\ switched \in BOOLEAN
  BY TryingTyped DEF TryingInv
<1>5. Trying!TypeOK'
  <2>1. running' \in BOOLEAN /\ failed' \in BOOLEAN
    BY <1>1, <1>4, Zenon
  <2>2. answer' \in Ops \cup {0}
    BY <1>1, <1>3, <1>4
  <2>3. QED
    BY <1>1, <1>3, <1>4, <2>1, <2>2, TryingTypedAgain DEF Trying!Requests
<1>6. OneFlies'
  BY <1>1, <1>3 DEF OneFlies
<1>7. AnsweredUnlessSwitched'
  BY <1>1, <1>2, <1>3 DEF TryingInv, AnsweredUnlessSwitched
<1>8. QED
  BY <1>5, <1>6, <1>7 DEF TryingInv

\* The invariant of the page holds from the start, is kept by every step, and is
\* untouched by the steps of the others.
LEMMA TryingKeeps ==
    /\ Trying!Init => TryingInv
    /\ TryingInv /\ Trying!Next => TryingInv'
    /\ TryingInv /\ UNCHANGED trying => TryingInv'
<1>1. ASSUME Trying!Init PROVE TryingInv
  <2>1. /\ linked \in Ops \cup {0} /\ chosen = 0 /\ filled = FALSE /\ answer = 0
        /\ failed = FALSE /\ running = FALSE /\ signedIn \in BOOLEAN
        /\ flying = {} /\ switched = FALSE
    BY <1>1 DEF Trying!Init
  <2>2. filled \in BOOLEAN /\ failed \in BOOLEAN /\ running \in BOOLEAN /\ switched \in BOOLEAN
    BY <2>1, Zenon
  <2>3. Trying!TypeOK
    BY <2>1, <2>2, TryingTyped
  <2>4. QED
    BY <2>1, <2>3 DEF TryingInv, OneFlies, AnsweredUnlessSwitched
<1>2. ASSUME TryingInv,
             /\ UNCHANGED <<chosen, answer, failed, running, flying, switched>>
             /\ linked' \in Ops \cup {0} /\ filled' \in BOOLEAN /\ signedIn' \in BOOLEAN
      PROVE  TryingInv'
  <2>1. Trying!TypeOK'
    BY <1>2, TryingTyped, TryingTypedAgain DEF TryingInv, Trying!Requests
  <2>2. OneFlies' /\ AnsweredUnlessSwitched'
    BY <1>2 DEF TryingInv, OneFlies, AnsweredUnlessSwitched, Trying!Requests
  <2>3. QED
    BY <2>1, <2>2 DEF TryingInv
<1>3. ASSUME TryingInv, Trying!Next PROVE TryingInv'
  <2>1. linked \in Ops \cup {0} /\ filled \in BOOLEAN /\ signedIn \in BOOLEAN
    BY <1>3, TryingTyped DEF TryingInv
  <2>2. CASE Trying!FollowLink
    BY <1>3, <2>1, <2>2, PickKeeps DEF Trying!FollowLink
  <2>3. CASE \E op \in Ops : Trying!PickFromList(op)
    BY <1>3, <2>3, PickKeeps DEF Trying!PickFromList
  <2>4. CASE Trying!run
    BY <1>3, <2>4, RunKeeps
  <2>5. CASE \E request \in flying : Trying!Came(request)
    BY <1>3, <2>5, CameKeeps
  <2>6. CASE \/ \E op \in Ops : Trying!Link(op)
             \/ Trying!Fill \/ Trying!SignOut
    <3>1. UNCHANGED <<chosen, answer, failed, running, flying, switched>>
      BY <2>6 DEF Trying!Link, Trying!Fill, Trying!SignOut
    <3>2. linked' \in Ops \cup {0}
      BY <2>1, <2>6 DEF Trying!Link, Trying!Fill, Trying!SignOut
    <3>3. filled' \in BOOLEAN
      BY <2>1, <2>6, Zenon DEF Trying!Link, Trying!Fill, Trying!SignOut
    <3>4. signedIn' \in BOOLEAN
      BY <2>1, <2>6, Zenon DEF Trying!Link, Trying!Fill, Trying!SignOut
    <3>5. QED
      BY <1>2, <1>3, <3>1, <3>2, <3>3, <3>4
  <2>7. QED
    BY <1>3, <2>2, <2>3, <2>4, <2>5, <2>6 DEF Trying!Next
<1>4. ASSUME TryingInv, UNCHANGED trying PROVE TryingInv'
  <2>1. UNCHANGED <<linked, chosen, filled, answer, failed, running, signedIn, flying, switched>>
    BY <1>4 DEF trying
  <2>2. linked \in Ops \cup {0} /\ filled \in BOOLEAN /\ signedIn \in BOOLEAN
    BY <1>4, TryingTyped DEF TryingInv
  <2>3. QED
    BY <1>2, <1>4, <2>1, <2>2
<1>5. QED
  BY <1>1, <1>3, <1>4

\* One request at a time, and its answer under what it is of.
LEMMA TryingInvSuffices == TryingInv => Trying!AnswerIsOfTheChosen
<1>1. SUFFICES ASSUME TryingInv PROVE Trying!AnswerIsOfTheChosen
  OBVIOUS
<1>2. CASE running
  <2>1. PICK r \in Trying!Requests : flying = {r} /\ r.filled /\ r.token
    BY <1>1, <1>2 DEF TryingInv, OneFlies
  <2>2. Cardinality(flying) = 1
    BY <2>1, FS_Singleton
  <2>3. QED
    BY <1>1, <1>2, <2>1, <2>2, SameCounts
       DEF TryingInv, AnsweredUnlessSwitched, Trying!AnswerIsOfTheChosen
<1>3. CASE ~running
  <2>1. flying = {} /\ Cardinality(flying) = 0
    BY <1>1, <1>3, FS_EmptySet DEF TryingInv, OneFlies
  <2>2. QED
    BY <1>1, <1>3, <2>1, SameCounts
       DEF TryingInv, AnsweredUnlessSwitched, Trying!AnswerIsOfTheChosen
<1>4. QED
  BY <1>2, <1>3

-------------------------------------------------------------------------------
(* Webhooks *)

\* A header says when and what was signed, in either order, and may say more.
SaysOf(header, t, v) ==
    header \in {<<t, v>>, <<v, t>>, <<t, v, Verifying!Piece("v0", "-")>>,
                <<v, t, Verifying!Piece("v0", "-")>>}

\* Only what was signed goes by the name of v1; and what nobody spoilt still says
\* when and what was signed.
Sound(d) ==
    /\ d = [header |-> d.header, body |-> d.body, intact |-> d.intact]
    /\ d.body \in Bodies /\ Len(d.header) \in 1 .. 3
    /\ \A i \in 1 .. Len(d.header) : d.header[i].key = "v1" => d.header[i].value \in sent
    /\ d.intact => \E m \in sent :
          m[3] = d.body /\ SaysOf(d.header, Verifying!Piece("t", m[2]), Verifying!Piece("v1", m))

Judged(v) ==
    /\ v.with \in {1, 2} /\ v.at \in Int
    /\ v.said = Verifying!verify(v.of.header, v.of.body, v.with, v.at)

VerifyingInv ==
    /\ Verifying!TypeOK
    /\ \A d \in onTheWay : Sound(d)
    /\ \A v \in verdicts : Sound(v.of) /\ Judged(v)
    /\ sent = {} => onTheWay = {} /\ verdicts = {}

\* The last piece of a name is a piece of that name.
LEMMA LastIsNamed ==
    ASSUME NEW header, NEW key, Len(header) \in 1 .. 3, Verifying!named(header, key) # {}
    PROVE  \E i \in 1 .. Len(header) :
              header[i].key = key /\ Verifying!lastOf(header, key) = header[i].value
<1>1. Verifying!named(header, key) \subseteq 1 .. 3
  BY DEF Verifying!named
<1>2. \E i \in Verifying!named(header, key) : \A j \in Verifying!named(header, key) : j <= i
  <2>1. CASE 3 \in Verifying!named(header, key)
    BY <1>1, <2>1
  <2>2. CASE 3 \notin Verifying!named(header, key) /\ 2 \in Verifying!named(header, key)
    BY <1>1, <2>2
  <2>3. CASE 3 \notin Verifying!named(header, key) /\ 2 \notin Verifying!named(header, key)
    <3>1. Verifying!named(header, key) = {1}
      BY <1>1, <2>3
    <3>2. QED
      BY <3>1
  <2>4. QED
    BY <2>1, <2>2, <2>3
<1>3. PICK i \in Verifying!named(header, key) :
         i = CHOOSE k \in Verifying!named(header, key) : \A j \in Verifying!named(header, key) : j <= k
  BY <1>2
<1>4. Verifying!lastOf(header, key) = header[i].value
  BY <1>3 DEF Verifying!lastOf
<1>5. i \in 1 .. Len(header) /\ header[i].key = key
  BY DEF Verifying!named
<1>6. QED
  BY <1>4, <1>5

\* The only one is the last one.
LEMMA LastOfOne ==
    ASSUME NEW header, NEW key, NEW k \in Nat, Verifying!named(header, key) = {k}
    PROVE  Verifying!lastOf(header, key) = header[k].value
<1>1. k = CHOOSE i \in {k} : \A j \in {k} : j <= i
  OBVIOUS
<1>2. QED
  BY <1>1 DEF Verifying!lastOf

\* What a verdict is made of.
LEMMA VerifyMeans ==
    ASSUME NEW header, NEW body, NEW secret, NEW instant
    PROVE  /\ Verifying!verify(header, body, secret, instant)
                \in {"accepted", "malformed", "old", "mismatch"}
           /\ Verifying!verify(header, body, secret, instant) = "accepted" <=>
                /\ Verifying!named(header, "t") # {} /\ Verifying!named(header, "v1") # {}
                /\ Verifying!lastOf(header, "t") # Verifying!NaN
                /\ ~(Verifying!Apart(instant, Verifying!lastOf(header, "t")) > Tolerance)
                /\ Verifying!Mac(secret, Verifying!lastOf(header, "t"), body)
                     = Verifying!lastOf(header, "v1")
<1>0. PICK t, v1, said : /\ t = Verifying!lastOf(header, "t") /\ v1 = Verifying!lastOf(header, "v1")
                         /\ said = Verifying!verify(header, body, secret, instant)
  OBVIOUS
<1> DEFINE bad == \/ Verifying!named(header, "t") = {} \/ Verifying!named(header, "v1") = {}
                  \/ t = Verifying!NaN
<1>1. CASE bad
  <2>1. Verifying!parts(header) = {}
    BY <1>0, <1>1 DEF Verifying!parts
  <2>2. said = "malformed"
    BY <1>0, <2>1 DEF Verifying!verify
  <2>3. QED
    BY <1>0, <1>1, <2>2
<1>2. CASE ~bad
  <2>1. Verifying!parts(header) = {[t |-> t, v1 |-> v1]}
    BY <1>0, <1>2 DEF Verifying!parts
  <2>2. PICK p : p = [t |-> t, v1 |-> v1]
    OBVIOUS
  <2>3. Verifying!parts(header) = {p} /\ p.t = t /\ p.v1 = v1
    BY <2>1, <2>2
  <2>4. p = CHOOSE q \in Verifying!parts(header) : TRUE
    BY <2>3
  <2>5. said = IF Verifying!Apart(instant, p.t) > Tolerance THEN "old"
               ELSE IF Verifying!Mac(secret, p.t, body) # p.v1 THEN "mismatch" ELSE "accepted"
    BY <1>0, <2>3, <2>4, Zenon DEF Verifying!verify
  <2>6. QED
    BY <1>0, <1>2, <2>3, <2>5
<1>3. QED
  BY <1>1, <1>2

\* What a delivery that says when and what was signed consists of.
LEMMA SaysBoth ==
    ASSUME NEW header, NEW when, NEW m,
           SaysOf(header, Verifying!Piece("t", when), Verifying!Piece("v1", m))
    PROVE  /\ Len(header) \in 2 .. 3
           /\ \A i \in 1 .. Len(header) : header[i].key = "v1" => header[i].value = m
           /\ \E i, j \in 1 .. Len(header) :
                 /\ Verifying!named(header, "t") = {i} /\ header[i].value = when
                 /\ Verifying!named(header, "v1") = {j} /\ header[j].value = m
<1>1. PICK t, v, w :
         /\ t.key = "t" /\ t.value = when /\ v.key = "v1" /\ v.value = m /\ w.key = "v0"
         /\ header \in {<<t, v>>, <<v, t>>, <<t, v, w>>, <<v, t, w>>}
  <2>1. PICK t, v, w :
           t = Verifying!Piece("t", when) /\ v = Verifying!Piece("v1", m)
           /\ w = Verifying!Piece("v0", "-")
    OBVIOUS
  <2>2. t.key = "t" /\ t.value = when /\ v.key = "v1" /\ v.value = m /\ w.key = "v0"
    BY <2>1 DEF Verifying!Piece
  <2>3. header \in {<<t, v>>, <<v, t>>, <<t, v, w>>, <<v, t, w>>}
    BY <2>1 DEF SaysOf
  <2>4. QED
    BY <2>2, <2>3
<1>2. CASE header = <<t, v>>
  BY <1>1, <1>2 DEF Verifying!named
<1>3. CASE header = <<v, t>>
  BY <1>1, <1>3 DEF Verifying!named
<1>4. CASE header = <<t, v, w>>
  BY <1>1, <1>4 DEF Verifying!named
<1>5. CASE header = <<v, t, w>>
  BY <1>1, <1>5 DEF Verifying!named
<1>6. QED
  BY <1>1, <1>2, <1>3, <1>4, <1>5

\* A delivery stays sound whatever else is signed.
LEMMA SoundStays ==
    ASSUME NEW d, Sound(d), sent \subseteq sent'
    PROVE  /\ d = [header |-> d.header, body |-> d.body, intact |-> d.intact]
           /\ d.body \in Bodies /\ Len(d.header) \in 1 .. 3
           /\ \A i \in 1 .. Len(d.header) : d.header[i].key = "v1" => d.header[i].value \in sent'
           /\ d.intact => \E m \in sent' :
                 m[3] = d.body
                 /\ SaysOf(d.header, Verifying!Piece("t", m[2]), Verifying!Piece("v1", m))
BY DEF Sound

\* What was signed, and the clocks, as the type invariant has them.
LEMMA SignedMacs ==
    ASSUME Verifying!TypeOK
    PROVE  /\ MaxClock \in Nat /\ Tolerance \in Nat
           /\ clock \in 0 .. MaxClock /\ clock \in Int /\ skew \in Int
           /\ signing \in {1, 2} /\ checking \in {1, 2}
           /\ \A m \in sent : /\ m = <<m[1], m[2], m[3]>> /\ m[1] \in {1, 2}
                              /\ m[2] \in 0 .. MaxClock /\ m[2] \in Nat /\ m[3] \in Bodies
<1>1. MaxClock \in Nat /\ Tolerance \in Nat /\ Skews \subseteq Int
  BY FlowsAssumption DEF Verifying!WebhooksConstants
<1>2. clock \in 0 .. MaxClock /\ skew \in Skews /\ {signing, checking} \subseteq {1, 2}
  BY DEF Verifying!TypeOK
<1>3. \A m \in sent : \E s \in {1, 2}, t \in 0 .. MaxClock, b \in Bodies : m = <<s, t, b>>
  BY DEF Verifying!TypeOK, Verifying!Mac
<1>4. \A m \in sent : /\ m = <<m[1], m[2], m[3]>> /\ m[1] \in {1, 2}
                      /\ m[2] \in 0 .. MaxClock /\ m[3] \in Bodies
  BY <1>3
<1>5. QED
  BY <1>1, <1>2, <1>4

\* A delivery with another header, or another body, that somebody spoilt.
LEMMA SpoiltIs ==
    ASSUME NEW d, NEW h, NEW b, NEW i, d = [header |-> h, body |-> b, intact |-> i],
           NEW x, NEW e
    PROVE  /\ e = [d EXCEPT !.header = x] => e = [header |-> x, body |-> b, intact |-> i]
           /\ e = [d EXCEPT !.header = x, !.intact = FALSE]
                => e = [header |-> x, body |-> b, intact |-> FALSE]
           /\ e = [d EXCEPT !.body = x, !.intact = FALSE]
                => e = [header |-> h, body |-> x, intact |-> FALSE]
<1>1. ASSUME e = [k \in DOMAIN e |-> e[k]], DOMAIN e = {"header", "body", "intact"}
      PROVE  e = [header |-> e.header, body |-> e.body, intact |-> e.intact]
  BY <1>1
<1>2. ASSUME e = [d EXCEPT !.header = x, !.intact = FALSE]
      PROVE  e = [header |-> x, body |-> b, intact |-> FALSE]
  <2>1. e.header = x /\ e.body = b /\ e.intact = FALSE
    BY <1>2
  <2>2. DOMAIN e = {"header", "body", "intact"} /\ e = [k \in DOMAIN e |-> e[k]]
    BY <1>2
  <2>3. QED
    BY <1>1, <2>1, <2>2
<1>3. ASSUME e = [d EXCEPT !.body = x, !.intact = FALSE]
      PROVE  e = [header |-> h, body |-> x, intact |-> FALSE]
  <2>1. e.header = h /\ e.body = x /\ e.intact = FALSE
    BY <1>3
  <2>2. DOMAIN e = {"header", "body", "intact"} /\ e = [k \in DOMAIN e |-> e[k]]
    BY <1>3
  <2>3. QED
    BY <1>1, <2>1, <2>2
<1>4. e = [d EXCEPT !.header = x] => e = [header |-> x, body |-> b, intact |-> i]
  OBVIOUS
<1>5. QED
  BY <1>2, <1>3, <1>4

\* A header with a piece more.
LEMMA OneMorePiece ==
    ASSUME NEW p, NEW q, NEW w
    PROVE  Append(<<p, q>>, w) = <<p, q, w>>
<1> DEFINE longer == Append(<<p, q>>, w)
           three == <<p, q, w>>
<1>1. <<p, q>> \in Seq({p, q, w}) /\ three \in Seq({p, q, w}) /\ w \in {p, q, w}
  OBVIOUS
<1>2. longer \in Seq({p, q, w}) /\ Len(longer) = 3 /\ Len(three) = 3
  BY <1>1
<1>3. \A k \in 1 .. 3 : longer[k] = three[k]
  BY <1>1
<1> HIDE DEF longer, three
<1>4. longer = three
  BY <1>1, <1>2, <1>3, SeqEqual
<1>5. QED
  BY <1>4 DEF longer, three

\* What the way does to a delivery: it is as sound as it was.
LEMMA AlteredIsSound ==
    ASSUME VerifyingInv, NEW d, Sound(d), d.intact, Len(d.header) = 2,
           NEW e \in Verifying!Altered(d)
    PROVE  Sound(e)
<1>1. PICK m \in sent :
         m[3] = d.body /\ SaysOf(d.header, Verifying!Piece("t", m[2]), Verifying!Piece("v1", m))
  BY DEF Sound
<1>2. PICK t, v, w, n, c :
         /\ t = Verifying!Piece("t", m[2]) /\ v = Verifying!Piece("v1", m)
         /\ w = Verifying!Piece("v0", "-") /\ n = Verifying!Piece("t", Verifying!NaN)
         /\ c = Verifying!Piece("t", clock)
  OBVIOUS
<1>3. /\ t.key = "t" /\ v.key = "v1" /\ v.value = m /\ w.key = "v0" /\ n.key = "t" /\ c.key = "t"
  BY <1>2 DEF Verifying!Piece
<1>4. PICK h, b : h = d.header /\ b = d.body
  OBVIOUS
<1>5. /\ d = [header |-> h, body |-> b, intact |-> d.intact] /\ b \in Bodies
      /\ h = <<t, v>> \/ h = <<v, t>>
  <2>1. h \in {<<t, v>>, <<v, t>>, <<t, v, w>>, <<v, t, w>>} /\ Len(h) = 2
    BY <1>1, <1>2, <1>4 DEF SaysOf
  <2>2. h = <<t, v>> \/ h = <<v, t>>
    BY <2>1
  <2>3. QED
    BY <1>4, <2>2 DEF Sound
<1>6. \/ e = [header |-> <<h[2], h[1]>>, body |-> b, intact |-> d.intact]
      \/ e = [header |-> Append(h, w), body |-> b, intact |-> d.intact]
      \/ \E g \in {<<h[1]>>, <<h[2]>>, <<n, h[2]>>, <<h[1], c, h[2]>>} :
            e = [header |-> g, body |-> b, intact |-> FALSE]
      \/ \E x \in Bodies : e = [header |-> h, body |-> x, intact |-> FALSE]
  <2>1. \/ e = [d EXCEPT !.header = <<h[2], h[1]>>]
        \/ e = [d EXCEPT !.header = Append(h, w)]
        \/ \E g \in {<<h[1]>>, <<h[2]>>, <<n, h[2]>>, <<h[1], c, h[2]>>} :
              e = [d EXCEPT !.header = g, !.intact = FALSE]
        \/ \E x \in Bodies : e = [d EXCEPT !.body = x, !.intact = FALSE]
    BY <1>2, <1>4 DEF Verifying!Altered
  <2>2. PICK i : i = d.intact
    OBVIOUS
  <2>3. d = [header |-> h, body |-> b, intact |-> i]
    BY <1>5, <2>2
  <2>4. ASSUME NEW x
        PROVE  /\ e = [d EXCEPT !.header = x] => e = [header |-> x, body |-> b, intact |-> d.intact]
               /\ e = [d EXCEPT !.header = x, !.intact = FALSE]
                    => e = [header |-> x, body |-> b, intact |-> FALSE]
               /\ e = [d EXCEPT !.body = x, !.intact = FALSE]
                    => e = [header |-> h, body |-> x, intact |-> FALSE]
    <3>1. e = [d EXCEPT !.header = x] => e = [header |-> x, body |-> b, intact |-> i]
      BY <2>3, SpoiltIs, Zenon
    <3>2. e = [d EXCEPT !.header = x, !.intact = FALSE]
            => e = [header |-> x, body |-> b, intact |-> FALSE]
      BY <2>3, SpoiltIs, Zenon
    <3>3. e = [d EXCEPT !.body = x, !.intact = FALSE]
            => e = [header |-> h, body |-> x, intact |-> FALSE]
      BY <2>3, SpoiltIs, Zenon
    <3>4. QED
      BY <2>2, <3>1, <3>2, <3>3, Zenon
  <2>5. CASE e = [d EXCEPT !.header = <<h[2], h[1]>>]
    BY <2>4, <2>5
  <2>6. CASE e = [d EXCEPT !.header = Append(h, w)]
    BY <2>4, <2>6
  <2>7. CASE \E g \in {<<h[1]>>, <<h[2]>>, <<n, h[2]>>, <<h[1], c, h[2]>>} :
               e = [d EXCEPT !.header = g, !.intact = FALSE]
    BY <2>4, <2>7
  <2>8. CASE \E x \in Bodies : e = [d EXCEPT !.body = x, !.intact = FALSE]
    BY <2>4, <2>8
  <2>9. QED
    BY <2>1, <2>5, <2>6, <2>7, <2>8
<1>7. \A g, x : LET f == [header |-> g, body |-> x, intact |-> FALSE] IN
         /\ x \in Bodies /\ Len(g) \in 1 .. 3
         /\ \A i \in 1 .. Len(g) : g[i].key = "v1" => g[i].value \in sent
         => Sound(f)
  BY DEF Sound
<1>8. \A g : LET f == [header |-> g, body |-> b, intact |-> d.intact] IN
         SaysOf(g, t, v) => Sound(f)
  <2>1. SUFFICES ASSUME NEW g, SaysOf(g, t, v)
                 PROVE  Sound([header |-> g, body |-> b, intact |-> d.intact])
    OBVIOUS
  <2>2. /\ Len(g) \in 2 .. 3
        /\ \A i \in 1 .. Len(g) : g[i].key = "v1" => g[i].value = m
    BY <1>2, <2>1, SaysBoth
  <2>3. PICK f : f = [header |-> g, body |-> b, intact |-> d.intact]
    OBVIOUS
  <2>4. /\ f.header = g /\ f.body = b
        /\ f = [header |-> f.header, body |-> f.body, intact |-> f.intact]
    BY <2>3
  <2>5. m[3] = f.body /\ SaysOf(f.header, Verifying!Piece("t", m[2]), Verifying!Piece("v1", m))
    BY <1>1, <1>2, <1>4, <2>1, <2>4
  <2>6. Len(f.header) \in 1 .. 3 /\ f.body \in Bodies
    BY <1>5, <2>2, <2>4
  <2>7. \A i \in 1 .. Len(f.header) : f.header[i].key = "v1" => f.header[i].value \in sent
    BY <1>1, <2>2, <2>4
  <2>8. Sound(f)
    BY <1>1, <2>4, <2>5, <2>6, <2>7 DEF Sound
  <2>9. QED
    BY <2>3, <2>8
<1>9. CASE e = [header |-> <<h[2], h[1]>>, body |-> b, intact |-> d.intact]
  <2>1. SaysOf(<<h[2], h[1]>>, t, v)
    BY <1>5 DEF SaysOf
  <2>2. QED
    BY <1>8, <1>9, <2>1
<1>10. CASE e = [header |-> Append(h, w), body |-> b, intact |-> d.intact]
  <2>1. Append(h, w) = <<t, v, w>> \/ Append(h, w) = <<v, t, w>>
    <3>1. Append(<<t, v>>, w) = <<t, v, w>> /\ Append(<<v, t>>, w) = <<v, t, w>>
      BY OneMorePiece
    <3>2. QED
      BY <1>5, <3>1
  <2>2. SaysOf(Append(h, w), t, v)
    BY <1>2, <2>1 DEF SaysOf
  <2>3. QED
    BY <1>8, <1>10, <2>2
<1>11. ASSUME NEW g \in {<<h[1]>>, <<h[2]>>, <<n, h[2]>>, <<h[1], c, h[2]>>},
              e = [header |-> g, body |-> b, intact |-> FALSE]
       PROVE  Sound(e)
  <2>1. /\ h[1].key = "v1" => h[1].value \in sent
        /\ h[2].key = "v1" => h[2].value \in sent
    BY <1>1, <1>3, <1>5
  <2>2. PICK p, q : p = h[1] /\ q = h[2]
    OBVIOUS
  <2>3. g \in {<<p>>, <<q>>, <<n, q>>, <<p, c, q>>}
    BY <1>11, <2>2
  <2>4. /\ p.key = "v1" => p.value \in sent
        /\ q.key = "v1" => q.value \in sent
    BY <2>1, <2>2
  <2>5. Len(g) \in 1 .. 3 /\ \A i \in 1 .. Len(g) : g[i].key = "v1" => g[i].value \in sent
    BY <1>3, <2>3, <2>4
  <2>6. QED
    BY <1>5, <1>7, <1>11, <2>5
<1>12. ASSUME NEW x \in Bodies, e = [header |-> h, body |-> x, intact |-> FALSE]
       PROVE  Sound(e)
  <2>1. Len(h) \in 1 .. 3 /\ \A i \in 1 .. Len(h) : h[i].key = "v1" => h[i].value \in sent
    BY <1>1, <1>3, <1>5
  <2>2. QED
    BY <1>7, <1>12, <2>1
<1>13. QED
  BY <1>6, <1>9, <1>10, <1>11, <1>12

\* A step that signs nothing leaves what is sound sound, and what is judged judged.
LEMMA SoundAgain ==
    ASSUME VerifyingInv, sent' = sent, onTheWay' = onTheWay, verdicts' = verdicts,
           Verifying!TypeOK'
    PROVE  VerifyingInv'
<1>1. \A d \in onTheWay' : Sound(d)'
  BY DEF VerifyingInv, Sound
<1>2. \A v \in verdicts' : Sound(v.of)' /\ Judged(v)'
  BY DEF VerifyingInv, Sound, Judged
<1>3. sent' = {} => onTheWay' = {} /\ verdicts' = {}
  BY DEF VerifyingInv
<1>4. QED
  BY <1>1, <1>2, <1>3 DEF VerifyingInv

\* A delivery is signed with what the sender knows, and sent as it is.
LEMMA SendKeeps ==
    ASSUME VerifyingInv, NEW body \in Bodies, Verifying!Send(body)
    PROVE  VerifyingInv'
<1>1. /\ sent = {} /\ sent' = {<<signing, clock, body>>}
      /\ UNCHANGED <<clock, skew, signing, checking, verdicts>>
  BY DEF Verifying!Send, Verifying!Mac
<1>2. PICK m : m = <<signing, clock, body>>
  OBVIOUS
<1>3. PICK t, v : t = Verifying!Piece("t", clock) /\ v = Verifying!Piece("v1", m)
  OBVIOUS
<1>4. PICK d : d = [header |-> <<t, v>>, body |-> body, intact |-> TRUE]
  OBVIOUS
<1>5. onTheWay' = {d} /\ verdicts' = {} /\ m \in sent' /\ m[2] = clock /\ m[3] = body
  BY <1>1, <1>2, <1>3, <1>4
     DEF VerifyingInv, Verifying!Send, Verifying!Mac, Verifying!Delivery
<1>6. /\ d = [header |-> d.header, body |-> d.body, intact |-> d.intact]
      /\ d.header = <<t, v>> /\ d.body = body
  BY <1>4
<1>7. SaysOf(d.header, t, v)
  BY <1>6 DEF SaysOf
<1>8. /\ Len(d.header) \in 1 .. 3
      /\ \A i \in 1 .. Len(d.header) : d.header[i].key = "v1" => d.header[i].value \in sent'
  <2>1. t.key = "t" /\ v.key = "v1" /\ v.value = m
    BY <1>3 DEF Verifying!Piece
  <2>2. QED
    BY <1>5, <1>6, <2>1
<1>9. \E s \in sent' :
         s[3] = d.body /\ SaysOf(d.header, Verifying!Piece("t", s[2]), Verifying!Piece("v1", s))
  BY <1>3, <1>5, <1>6, <1>7
<1>10. Sound(d)'
  BY <1>6, <1>8, <1>9 DEF Sound
<1>11. Verifying!TypeOK'
  <2>1. Verifying!TypeOK
    BY DEF VerifyingInv
  <2>2. signing \in {1, 2} /\ clock \in 0 .. MaxClock
    BY <2>1, SignedMacs
  <2>3. sent' \subseteq {Verifying!Mac(s, u, b) : s \in {1, 2}, u \in 0 .. MaxClock, b \in Bodies}
    BY <1>1, <2>2 DEF Verifying!Mac
  <2>4. \A e \in onTheWay' : e.body \in Bodies /\ Len(e.header) <= 3
    <3>1. d.body \in Bodies /\ Len(d.header) <= 3
      BY <1>6, <1>8
    <3>2. QED
      BY <1>5, <3>1
  <2>5. QED
    BY <1>1, <1>5, <2>1, <2>3, <2>4 DEF Verifying!TypeOK, Verifying!Mac
<1>12. QED
  BY <1>5, <1>10, <1>11 DEF VerifyingInv

\* The way alters a delivery.
LEMMA AlterKeeps ==
    ASSUME VerifyingInv, NEW d \in onTheWay, Verifying!Alter(d)
    PROVE  VerifyingInv'
<1>1. PICK e \in Verifying!Altered(d) : onTheWay' = {e}
  BY DEF Verifying!Alter
<1>2. /\ Len(d.header) = 2 /\ d.intact
      /\ UNCHANGED <<clock, skew, signing, checking, sent, verdicts>>
  BY DEF Verifying!Alter
<1>3. Sound(e)
  BY <1>2, AlteredIsSound DEF VerifyingInv
<1>4. \A f \in onTheWay' : Sound(f)'
  BY <1>1, <1>2, <1>3 DEF Sound
<1>5. \A v \in verdicts' : Sound(v.of)' /\ Judged(v)'
  BY <1>2 DEF VerifyingInv, Sound, Judged
<1>6. sent' # {}
  BY <1>2 DEF VerifyingInv
<1>7. Verifying!TypeOK'
  <2>1. e.body \in Bodies /\ Len(e.header) <= 3
    BY <1>3 DEF Sound
  <2>2. QED
    BY <1>1, <1>2, <2>1 DEF VerifyingInv, Verifying!TypeOK, Verifying!Mac
<1>8. QED
  BY <1>4, <1>5, <1>6, <1>7 DEF VerifyingInv

\* A verdict is what verify says of a delivery on its way.
LEMMA ReceiveKeeps ==
    ASSUME VerifyingInv, NEW d \in onTheWay, Verifying!Receive(d)
    PROVE  VerifyingInv'
<1>1. UNCHANGED <<clock, skew, signing, checking, sent, onTheWay>>
  BY DEF Verifying!Receive
<1>2. PICK said : said = Verifying!verify(d.header, d.body, checking, clock + skew)
  OBVIOUS
<1>3. PICK v : v = [of |-> d, at |-> clock + skew, with |-> checking, said |-> said]
  OBVIOUS
<1>4. verdicts' = {v}
  BY <1>2, <1>3 DEF Verifying!Receive
<1>5. v.of = d /\ v.at = clock + skew /\ v.with = checking /\ v.said = said
  BY <1>3
<1>6. v.at \in Int /\ v.with \in {1, 2}
  <2>1. clock \in Int /\ skew \in Int /\ checking \in {1, 2}
    BY SignedMacs DEF VerifyingInv
  <2>2. QED
    BY <1>5, <2>1
<1>7. Judged(v)
  BY <1>2, <1>5, <1>6 DEF Judged
<1>8. v.said \in {"accepted", "malformed", "old", "mismatch"}
  <2>1. said \in {"accepted", "malformed", "old", "mismatch"}
    BY <1>2, VerifyMeans
  <2>2. QED
    BY <1>5, <2>1
<1>9. \A f \in onTheWay' : Sound(f)'
  BY <1>1 DEF VerifyingInv, Sound
<1>10. \A w \in verdicts' : Sound(w.of)' /\ Judged(w)'
  <2>1. Judged(v)'
    BY <1>7 DEF Judged
  <2>2. Sound(v.of)'
    BY <1>1, <1>5 DEF VerifyingInv, Sound
  <2>3. QED
    BY <1>4, <2>1, <2>2
<1>11. sent' # {}
  BY <1>1 DEF VerifyingInv
<1>12. Verifying!TypeOK'
  BY <1>1, <1>4, <1>8 DEF VerifyingInv, Verifying!TypeOK, Verifying!Mac
<1>13. QED
  BY <1>9, <1>10, <1>11, <1>12 DEF VerifyingInv

\* The invariant of the webhooks holds from the start, is kept by every step, and
\* is untouched by the steps of the others.
LEMMA VerifyingKeeps ==
    /\ Verifying!Init => VerifyingInv
    /\ VerifyingInv /\ Verifying!Next => VerifyingInv'
    /\ VerifyingInv /\ UNCHANGED verifying => VerifyingInv'
<1>1. ASSUME Verifying!Init PROVE VerifyingInv
  <2>1. /\ clock = 0 /\ skew \in Skews /\ signing = 1 /\ checking = 1
        /\ sent = {} /\ onTheWay = {} /\ verdicts = {}
    BY <1>1 DEF Verifying!Init
  <2>2. MaxClock \in Nat
    BY FlowsAssumption DEF Verifying!WebhooksConstants
  <2>3. QED
    BY <2>1, <2>2 DEF VerifyingInv, Verifying!TypeOK
<1>2. ASSUME VerifyingInv, Verifying!Tick PROVE VerifyingInv'
  <2>1. /\ clock < MaxClock /\ clock' = clock + 1
        /\ UNCHANGED <<skew, signing, checking, sent, onTheWay, verdicts>>
    BY <1>2 DEF Verifying!Tick
  <2>2. clock' \in 0 .. MaxClock
    BY <1>2, <2>1, SignedMacs DEF VerifyingInv
  <2>3. Verifying!TypeOK'
    BY <1>2, <2>1, <2>2 DEF VerifyingInv, Verifying!TypeOK, Verifying!Mac
  <2>4. QED
    BY <1>2, <2>1, <2>3, SoundAgain
<1>3. ASSUME VerifyingInv, Verifying!Replace PROVE VerifyingInv'
  <2>1. /\ UNCHANGED <<clock, skew, sent, onTheWay, verdicts>>
        /\ signing' \in {signing, 2} /\ checking' \in {checking, 2}
    BY <1>3 DEF Verifying!Replace
  <2>2. Verifying!TypeOK'
    BY <1>3, <2>1 DEF VerifyingInv, Verifying!TypeOK, Verifying!Mac
  <2>3. QED
    BY <1>3, <2>1, <2>2, SoundAgain
<1>4. ASSUME VerifyingInv, UNCHANGED verifying PROVE VerifyingInv'
  <2>1. UNCHANGED <<clock, skew, signing, checking, sent, onTheWay, verdicts>>
    BY <1>4 DEF verifying
  <2>2. Verifying!TypeOK'
    BY <1>4, <2>1 DEF VerifyingInv, Verifying!TypeOK, Verifying!Mac
  <2>3. QED
    BY <1>4, <2>1, <2>2, SoundAgain
<1>5. VerifyingInv /\ Verifying!Next => VerifyingInv'
  BY <1>2, <1>3, SendKeeps, AlterKeeps, ReceiveKeeps DEF Verifying!Next
<1>6. QED
  BY <1>1, <1>4, <1>5

\* What was accepted was signed, and what is intact is accepted.
LEMMA VerifyingInvSuffices == VerifyingInv => Verifying!AcceptsTheGenuine
<1>1. SUFFICES ASSUME VerifyingInv, NEW v \in verdicts
               PROVE  LET signed == {m \in sent : /\ m[1] = v.with /\ m[3] = v.of.body
                                                 /\ Verifying!Apart(v.at, m[2]) <= Tolerance}
                      IN  /\ v.said = "accepted" => signed # {}
                          /\ (/\ v.of.intact
                              /\ \E m \in signed, i \in 1 .. Len(v.of.header) :
                                    v.of.header[i] = Verifying!Piece("v1", m))
                               => v.said = "accepted"
  BY Zenon DEF Verifying!AcceptsTheGenuine
<1> DEFINE h == v.of.header
           b == v.of.body
           signed == {m \in sent : /\ m[1] = v.with /\ m[3] = b
                                   /\ Verifying!Apart(v.at, m[2]) <= Tolerance}
           t == Verifying!lastOf(h, "t")
           v1 == Verifying!lastOf(h, "v1")
<1>2. /\ Sound(v.of) /\ v.at \in Int /\ v.with \in {1, 2}
      /\ v.said = Verifying!verify(h, b, v.with, v.at)
  BY <1>1 DEF VerifyingInv, Judged
<1>3. Tolerance \in Nat /\ \A m \in sent : m = <<m[1], m[2], m[3]>> /\ m[2] \in Nat
  BY <1>1, SignedMacs DEF VerifyingInv
<1>4. \A m \in sent : Verifying!Apart(v.at, m[2]) \in Int
  BY <1>2, <1>3 DEF Verifying!Apart
<1>5. v.said = "accepted" <=>
        /\ Verifying!named(h, "t") # {} /\ Verifying!named(h, "v1") # {}
        /\ t # Verifying!NaN /\ ~(Verifying!Apart(v.at, t) > Tolerance)
        /\ Verifying!Mac(v.with, t, b) = v1
  <2>1. Verifying!verify(h, b, v.with, v.at) = "accepted" <=>
          /\ Verifying!named(h, "t") # {} /\ Verifying!named(h, "v1") # {}
          /\ t # Verifying!NaN /\ ~(Verifying!Apart(v.at, t) > Tolerance)
          /\ Verifying!Mac(v.with, t, b) = v1
    BY VerifyMeans, Zenon
  <2>2. v.said = "accepted" <=> Verifying!verify(h, b, v.with, v.at) = "accepted"
    BY <1>2
  <2>3. QED
    BY <2>1, <2>2, Zenon
<1>6. ASSUME v.said = "accepted" PROVE signed # {}
  <2>1. /\ Verifying!named(h, "v1") # {}
        /\ ~(Verifying!Apart(v.at, t) > Tolerance)
        /\ Verifying!Mac(v.with, t, b) = v1
    BY <1>5, <1>6
  <2>2. Len(h) \in 1 .. 3 /\ \A i \in 1 .. Len(h) : h[i].key = "v1" => h[i].value \in sent
    BY <1>2 DEF Sound
  <2>3. v1 \in sent
    BY <2>1, <2>2, LastIsNamed
  <2>4. PICK m \in sent : m = <<v.with, t, b>>
    BY <2>1, <2>3 DEF Verifying!Mac
  <2>5. m[1] = v.with /\ m[2] = t /\ m[3] = b
    BY <2>4
  <2>6. Verifying!Apart(v.at, m[2]) <= Tolerance
    BY <1>3, <1>4, <2>1, <2>5
  <2>7. QED
    BY <2>5, <2>6
<1>7. ASSUME v.of.intact, NEW m \in signed, NEW i \in 1 .. Len(h), h[i] = Verifying!Piece("v1", m)
      PROVE  v.said = "accepted"
  <2>1. PICK s \in sent :
           SaysOf(h, Verifying!Piece("t", s[2]), Verifying!Piece("v1", s))
    BY <1>2, <1>7 DEF Sound
  <2>2. \A k \in 1 .. Len(h) : h[k].key = "v1" => h[k].value = s
    BY <2>1, SaysBoth
  <2>3. h[i].key = "v1" /\ h[i].value = m
    BY <1>7 DEF Verifying!Piece
  <2>4. s = m
    BY <2>2, <2>3
  <2>5. PICK j, k \in 1 .. Len(h) :
           /\ Verifying!named(h, "t") = {j} /\ h[j].value = m[2]
           /\ Verifying!named(h, "v1") = {k} /\ h[k].value = m
    BY <2>1, <2>4, SaysBoth
  <2>6. t = m[2] /\ v1 = m
    BY <2>5, LastOfOne
  <2>7. t # Verifying!NaN
    BY <1>3, <2>6 DEF Verifying!NaN
  <2>8. ~(Verifying!Apart(v.at, t) > Tolerance)
    BY <1>3, <1>4, <2>6
  <2>9. Verifying!Mac(v.with, t, b) = v1
    <3>1. m = <<m[1], m[2], m[3]>> /\ m[1] = v.with /\ m[3] = b
      BY <1>3
    <3>2. QED
      BY <2>6, <3>1 DEF Verifying!Mac
  <2>10. QED
    BY <2>5, <2>7, <2>8, <2>9, <1>5
<1>8. QED
  BY <1>6, <1>7

-------------------------------------------------------------------------------
(* All of it *)

FlowsInv == MintingInv /\ PollingInv /\ SigningInv /\ TryingInv /\ VerifyingInv

\* Each component keeps its invariant by its own steps, and the steps of the
\* others do not touch what it is about.
LEMMA FlowsInvKept == FairSpec => []FlowsInv
<1>1. Init => FlowsInv
  BY MintingKeeps, PollingKeeps, SigningKeeps, TryingKeeps, VerifyingKeeps DEF Init, FlowsInv
<1>2. FlowsInv /\ [Next]_vars => FlowsInv'
  <2>1. FlowsInv /\ Minting!Next /\ OnlyMinting => FlowsInv'
    BY MintingKeeps, PollingKeeps, SigningKeeps, TryingKeeps, VerifyingKeeps
       DEF FlowsInv, OnlyMinting
  <2>2. FlowsInv /\ Polling!Next /\ OnlyPolling => FlowsInv'
    BY MintingKeeps, PollingKeeps, SigningKeeps, TryingKeeps, VerifyingKeeps
       DEF FlowsInv, OnlyPolling
  <2>3. FlowsInv /\ SigningIn!Next /\ OnlySigningIn => FlowsInv'
    BY MintingKeeps, PollingKeeps, SigningKeeps, TryingKeeps, VerifyingKeeps
       DEF FlowsInv, OnlySigningIn
  <2>4. FlowsInv /\ Trying!Next /\ OnlyTrying => FlowsInv'
    BY MintingKeeps, PollingKeeps, SigningKeeps, TryingKeeps, VerifyingKeeps
       DEF FlowsInv, OnlyTrying
  <2>5. FlowsInv /\ Verifying!Next /\ OnlyVerifying => FlowsInv'
    BY MintingKeeps, PollingKeeps, SigningKeeps, TryingKeeps, VerifyingKeeps
       DEF FlowsInv, OnlyVerifying
  <2>6. FlowsInv /\ UNCHANGED vars => FlowsInv'
    BY MintingKeeps, PollingKeeps, SigningKeeps, TryingKeeps, VerifyingKeeps DEF FlowsInv, vars
  <2>7. QED
    BY <2>1, <2>2, <2>3, <2>4, <2>5, <2>6 DEF Next
<1>3. QED
  BY <1>1, <1>2, PTL DEF FairSpec

\* The variables of every flow stay within their types, whatever the flows do.
THEOREM TypeCorrect == FairSpec => []TypeOK
<1>1. FlowsInv => TypeOK
  BY DEF FlowsInv, TypeOK, MintingInv, PollingInv, SigningInv, TryingInv, VerifyingInv
<1>2. QED
  BY <1>1, FlowsInvKept, PTL

\* The five libraries that lock mint a token only for the first call, after one
\* lapsed or after one was thrown away, however many calls find none in hand.
THEOREM MintsNoMoreThanNeeded == FairSpec => []MintsAsNeeded
<1>1. ASSUME FlowsInv PROVE MintsAsNeeded
  <2>1. MintsCounted /\ minted \in Nat /\ Cardinality(lapsed) \in Nat /\ dropped \in Nat
    <3>1. Minting!TypeOK /\ MintsCounted
      BY <1>1 DEF FlowsInv, MintingInv
    <3>2. IsFiniteSet(Callers) /\ Cardinality(Callers) \in Nat
      BY FlowsAssumption, SameCounts, FS_CardinalityType DEF Minting!AppOnlyConstants
    <3>3. minted \in Nat /\ dropped \in 0 .. Cardinality(Callers)
      BY <3>1, SameCounts DEF Minting!TypeOK
    <3>4. QED
      BY <3>1, <3>2, <3>3, CountsOfMinting
  <2>2. library \in Minting!Locking => minted <= 1 + Cardinality(lapsed) + dropped
    BY <2>1 DEF MintsCounted
  <2>3. QED
    BY <2>2, SameCounts DEF MintsAsNeeded, Minting!MintsAsNeeded
<1>2. QED
  BY <1>1, FlowsInvKept, PTL

\* In every library whose forget() throws the token away whatever else is under way
\* (AppOnly but for Rust; of BearerToken, TypeScript and Python), a call whose token
\* was refused does not send it again.
THEOREM RefusedTokensAreNotSentAgain == FairSpec => []AsksAgainWithAnother
<1>1. FlowsInv => AsksAgainWithAnother
  BY DEF FlowsInv, MintingInv, RefusedIsGone, AsksAgainWithAnother, Minting!AsksAgainWithAnother
<1>2. QED
  BY <1>1, FlowsInvKept, PTL

\* Whatever interval the caller passes and whenever somebody decides, the device
\* flow ends as was decided, and slows down to the endpoint's interval and no more.
THEOREM TheDeviceFlowEndsAsDecided == FairSpec => []EndsAsDecided
<1>1. FlowsInv => EndsAsDecided
  BY PollingInvSuffices DEF FlowsInv, EndsAsDecided
<1>2. QED
  BY <1>1, FlowsInvKept, PTL

\* However often "Sign in" is pressed and the history gone through, a code is
\* presented once, with the verifier of the attempt it was issued for.
THEOREM CodesArePresentedOnce == FairSpec => []EachCodeOnce
<1>1. FlowsInv => EachCodeOnce
  BY DEF FlowsInv, SigningInv, PresentedOnce, LastIsPending, EachCodeOnce, SigningIn!EachCodeOnce
<1>2. QED
  BY <1>1, FlowsInvKept, PTL

\* The token a page shows is the one sessionStorage holds.
THEOREM TheSignInIsStored == FairSpec => []ReloadKeepsTheSignIn
<1>1. FlowsInv => ReloadKeepsTheSignIn
  BY DEF FlowsInv, SigningInv, ByDocument, ReloadKeepsTheSignIn, SigningIn!ReloadKeepsTheSignIn
<1>2. QED
  BY <1>1, FlowsInvKept, PTL

\* The page shows no answer under another operation, but where the operation was
\* switched while the answer was on its way, and sends one request at a time.
THEOREM AnswersStandUnderTheirOperation == FairSpec => []AnswerIsOfTheChosen
<1>1. FlowsInv => AnswerIsOfTheChosen
  BY TryingInvSuffices DEF FlowsInv, AnswerIsOfTheChosen
<1>2. QED
  BY <1>1, FlowsInvKept, PTL

\* verify accepts nothing but what was signed with its secret, this body and a time
\* within the tolerance, and accepts all of that which arrives intact.
THEOREM TheGenuineIsAccepted == FairSpec => []AcceptsTheGenuine
<1>1. FlowsInv => AcceptsTheGenuine
  BY VerifyingInvSuffices DEF FlowsInv, AcceptsTheGenuine
<1>2. QED
  BY <1>1, FlowsInvKept, PTL
=============================================================================
