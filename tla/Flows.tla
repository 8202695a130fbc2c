--------------------------------- MODULE Flows ---------------------------------
(***************************************************************************)
(* What stands beside the calls of a client: minting an application token, *)
(* waiting for somebody at another screen, signing in to the playground    *)
(* and using it, and checking a webhook.  They share nothing, so each      *)
(* behaviour is of one of them.                                            *)
(***************************************************************************)
EXTENDS Naturals, FiniteSets, Sequences

CONSTANTS Callers, MaxDeaths, Intervals, Floor, More, Expiry, MaxStarts, Ops,
          Bodies, Tolerance, Skews, MaxClock

VARIABLES
    flow,
    library, kind, held, minted, lapsed, dead, dropped, lock, pc, carried, refused,
    poller, interval, wait, wakeAt, phase, aborted, now, decision, lastPoll, hurried,
    slowdowns, heardAfter, redeemed, faults,
    at, visit, leaving, token, asked, digesting, waiting, finishing, exchanging,
    pending, stored, live, starts, opened, approved, spent, presented,
    linked, chosen, filled, answer, failed, running, signedIn, flying, switched,
    clock, skew, signing, checking, sent, onTheWay, verdicts

Minting   == INSTANCE AppOnly
Polling   == INSTANCE DeviceFlow
SigningIn == INSTANCE SignIn
Trying    == INSTANCE Playground
Verifying == INSTANCE Webhooks

ASSUME FlowsAssumption ==
    /\ Minting!AppOnlyConstants /\ Polling!DeviceFlowConstants /\ SigningIn!SignInConstants
    /\ Trying!PlaygroundConstants /\ Verifying!WebhooksConstants

minting   == <<library, kind, held, minted, lapsed, dead, dropped, lock, pc, carried, refused>>
polling   == <<poller, interval, wait, wakeAt, phase, aborted, now, decision, lastPoll, hurried,
               slowdowns, heardAfter, redeemed, faults>>
signingIn == <<at, visit, leaving, token, asked, digesting, waiting, finishing, exchanging,
               pending, stored, live, starts, opened, approved, spent, presented>>
trying    == <<linked, chosen, filled, answer, failed, running, signedIn, flying, switched>>
verifying == <<clock, skew, signing, checking, sent, onTheWay, verdicts>>

vars == <<flow, minting, polling, signingIn, trying, verifying>>

\* The other components wait in one of their initial states.
Rest ==
    /\ flow # "minting" => library = "ts" /\ kind = "app"
    /\ flow # "polling" => poller = "ts" /\ interval = Floor
    /\ flow # "trying" => linked = 0 /\ signedIn = FALSE
    /\ flow # "verifying" => skew = 0

Init ==
    /\ flow \in {"minting", "polling", "signingIn", "trying", "verifying"}
    /\ Minting!Init /\ Polling!Init /\ SigningIn!Init /\ Trying!Init /\ Verifying!Init
    /\ Rest

OnlyMinting   == flow = "minting" /\ UNCHANGED <<flow, polling, signingIn, trying, verifying>>
OnlyPolling   == flow = "polling" /\ UNCHANGED <<flow, minting, signingIn, trying, verifying>>
OnlySigningIn == flow = "signingIn" /\ UNCHANGED <<flow, minting, polling, trying, verifying>>
OnlyTrying    == flow = "trying" /\ UNCHANGED <<flow, minting, polling, signingIn, verifying>>
OnlyVerifying == flow = "verifying" /\ UNCHANGED <<flow, minting, polling, signingIn, trying>>

Next ==
    \/ Minting!Next /\ OnlyMinting
    \/ Polling!Next /\ OnlyPolling
    \/ SigningIn!Next /\ OnlySigningIn
    \/ Trying!Next /\ OnlyTrying
    \/ Verifying!Next /\ OnlyVerifying

\* A caller goes on, an endpoint or a socket answers at last, time passes, and
\* whoever queues for a lock that is let go of again and again gets it.
FairSpec ==
    /\ Init /\ [][Next]_vars
    /\ \A c \in Callers : SF_vars(Minting!Step(c) /\ OnlyMinting)
    /\ WF_vars(Polling!Wake /\ OnlyPolling) /\ WF_vars(Polling!Hears /\ OnlyPolling)
    /\ SF_vars(Polling!Tick /\ OnlyPolling)
    /\ WF_vars((\E request \in flying : Trying!Came(request)) /\ OnlyTrying)

\* The five components are well typed.
TypeOK ==
    /\ Minting!TypeOK /\ Polling!TypeOK /\ SigningIn!TypeOK /\ Trying!TypeOK /\ Verifying!TypeOK

\* Stated in AppOnly: no token is minted that nobody needs.
MintsAsNeeded == Minting!MintsAsNeeded

\* Stated in AppOnly: where forget() throws a refused token away, it is not sent again.
AsksAgainWithAnother == Minting!AsksAgainWithAnother

\* Stated in DeviceFlow: the flow ends as was decided, and settles on the interval
\* the endpoint asks for.
EndsAsDecided == Polling!EndsAsDecided

\* Stated in SignIn: a code is presented once, with its own verifier.
EachCodeOnce == SigningIn!EachCodeOnce

\* Stated in SignIn: a reload keeps the sign-in.
ReloadKeepsTheSignIn == SigningIn!ReloadKeepsTheSignIn

\* Stated in Playground: an answer is shown under its operation.
AnswerIsOfTheChosen == Trying!AnswerIsOfTheChosen

\* Stated in Webhooks: what is accepted was signed, and what is intact is accepted.
AcceptsTheGenuine == Verifying!AcceptsTheGenuine

\* Stated in AppOnly, DeviceFlow and Playground: a call that asks for a token
\* ends, a device flow ends, and the button comes back.
EveryFlowEnds ==
    /\ Minting!EveryMintEnds
    /\ flow = "polling" => Polling!FlowEnds
    /\ Trying!SendComesBack
================================================================================
