--------------------------- MODULE OAuthProvider ----------------------------
(***************************************************************************)
(* The two servers the client libraries talk to, and the network between:  *)
(* the OAuth provider's token endpoint and the api that takes its bearer   *)
(* tokens.  Neither is in the repository: they are modelled from what the  *)
(* libraries send them, read back and say of them.                         *)
(*                                                                         *)
(* Refresh tokens form one family, numbered in the order they are issued.  *)
(* Only the newest is current; presenting any other "is what the server    *)
(* reads as theft and answers by killing the whole chain".  A refresh may  *)
(* also be answered without a new refresh token, which leaves the one that *)
(* was presented current.  Access tokens are numbered the same way, and    *)
(* the api accepts those in `good`.  0 stands for no token.                *)
(***************************************************************************)
EXTENDS Naturals, FiniteSets

CONSTANTS
    Slots,      \* who can have a token request of their own in flight
    MaxMinted   \* bound: nothing goes wrong once this many tokens were minted

ASSUME MaxMintedAssumption == MaxMinted \in Nat

VARIABLES
    current,    \* the refresh token the provider will take
    alive,      \* FALSE once the family has been killed
    minted,     \* the newest access token
    good,       \* the access tokens the api accepts
    wire,       \* wire[s]: the token request of s, and then its answer
    orphans,    \* refresh tokens in requests whose sender is gone
    cut         \* a rotation's answer, or its way to the keeper, was cut off

providerVars == <<current, alive, minted, good, wire, orphans, cut>>

None == 0

Idle == [at |-> "idle"]
Asking(r) == [at |-> "out", refresh |-> r]
Tokens(a, r, asked) ==
    [at |-> "tokens", access |-> a, refresh |-> r, asked |-> asked]
Refused == [at |-> "refused"]    \* 400 invalid_grant
Broken == [at |-> "broken"]      \* a 5xx, or no answer at all

Wires == {Idle, Refused, Broken}
           \cup [at : {"out"}, refresh : Nat]
           \cup [at : {"tokens"}, access : Nat, refresh : Nat, asked : Nat]

\* MaxMinted bounds the runs: expiries, losses and crashes stop there.
Disturbable == minted < MaxMinted

\* A token set as a client holds it: live until the client's clock says not.
TokenSets == [access : Nat, refresh : Nat, live : BOOLEAN]
NoTokens == [access |-> None, refresh |-> None, live |-> FALSE]
FirstTokens == [access |-> 1, refresh |-> 1, live |-> TRUE]

\* What a client may be constructed with: the refresh token is there only when
\* offline_access was asked for.
GivenTokens == {FirstTokens, [FirstTokens EXCEPT !.refresh = None]}

\* Defect: an answer without a refresh token leaves the client without one.
AdoptedBare(answer) ==
    [access |-> answer.access, live |-> TRUE, refresh |-> answer.refresh]

\* The token set an answer gives.  One without a refresh token did not rotate
\* it: the one that was presented is kept.
Adopted(answer) ==
    [access |-> answer.access, live |-> TRUE,
     refresh |-> IF answer.refresh = None THEN answer.asked ELSE answer.refresh]

ProviderTypeOK ==
    /\ current \in Nat \ {0}
    /\ alive \in BOOLEAN
    /\ minted \in Nat \ {0}
    /\ good \in SUBSET Nat
    /\ wire \in [Slots -> Wires]
    /\ orphans \in SUBSET Nat
    /\ cut \in BOOLEAN

ProviderInit ==
    /\ current = 1
    /\ alive = TRUE
    /\ minted = 1
    /\ good = {1}
    /\ wire = [s \in Slots |-> Idle]
    /\ orphans = {}
    /\ cut = FALSE

-----------------------------------------------------------------------------
(* The token endpoint. *)

\* What presenting the refresh token r does to the family, whoever presents it.
TakeCurrent(r, rotates) ==
    /\ alive
    /\ r = current
    /\ minted' = minted + 1
    /\ good' = good \cup {minted + 1}
    /\ current' = IF rotates THEN current + 1 ELSE current
    /\ UNCHANGED alive

KillFamily(r) ==
    /\ r # current \/ ~alive
    /\ alive' = FALSE
    /\ good' = {}
    /\ UNCHANGED <<current, minted>>

\* The presented token is current: new tokens, usually a new refresh token too.
Issue(s) ==
    /\ wire[s].at = "out"
    /\ \E rotates \in BOOLEAN :
        /\ TakeCurrent(wire[s].refresh, rotates)
        /\ wire' = [wire EXCEPT ![s] =
                        Tokens(minted + 1,
                               IF rotates THEN current + 1 ELSE None,
                               wire[s].refresh)]
    /\ UNCHANGED <<orphans, cut>>

\* The presented token has been retired: the whole family dies.
Kill(s) ==
    /\ wire[s].at = "out"
    /\ KillFamily(wire[s].refresh)
    /\ wire' = [wire EXCEPT ![s] = Refused]
    /\ UNCHANGED <<orphans, cut>>

\* The request never reached the provider, or met a 5xx.
Unserved(s) ==
    /\ wire[s].at = "out"
    /\ wire' = [wire EXCEPT ![s] = Broken]
    /\ UNCHANGED <<current, alive, minted, good, orphans, cut>>

\* The provider answered with tokens and the answer is lost on its way.
LoseAnswer(s) ==
    /\ Disturbable
    /\ wire[s].at = "tokens"
    /\ wire' = [wire EXCEPT ![s] = Broken]
    /\ cut' = (cut \/ wire[s].refresh # None)
    /\ UNCHANGED <<current, alive, minted, good, orphans>>

\* A request whose sender is gone arrives all the same; nobody reads the answer.
ServeOrphan(r) ==
    /\ r \in orphans
    /\ orphans' = orphans \ {r}
    /\ (\E rotates \in BOOLEAN : TakeCurrent(r, rotates)) \/ KillFamily(r)
    /\ UNCHANGED <<wire, cut>>

\* The api stops accepting an access token: it ran out, or was revoked.
Revoke(a) ==
    /\ Disturbable
    /\ a \in good
    /\ good' = good \ {a}
    /\ UNCHANGED <<current, alive, minted, wire, orphans, cut>>

ProviderStep(s) == Issue(s) \/ Kill(s) \/ Unserved(s) \/ LoseAnswer(s)

ProviderNext ==
    \/ \E s \in Slots : ProviderStep(s)
    \/ \E r \in orphans : ServeOrphan(r)
    \/ \E a \in good : Revoke(a)

\* "Presenting it again is what the server reads as theft and answers by
\* killing the whole chain" (auth.ts): a client brings that on itself only when
\* a rotation was cut off on its way to the client or to its keeper.
KilledOnlyWhenCut == ~alive => cut

-----------------------------------------------------------------------------
(* The api. *)

\* What the api may answer to a request that carries the access token a:
\* 2xx, a 429 or 5xx, a 401, or another refusal on the request's merits.
Verdicts(a) ==
    IF a \in good THEN {"ok", "busy", "refused"} ELSE {"unauthorized", "busy"}

Statuses == {"none", "ok", "busy", "refused", "unauthorized", "unanswered"}
=============================================================================
