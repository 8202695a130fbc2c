# acyka-api in TLA+

Models, model-checking runs and proofs for the client libraries of this
repository, for the generator that writes half of each of them, for the
playground, and for the way the libraries are published. Every definition that
stands for code is listed in `PROJECT.json` under `map` with the lines it stands
for.

## 1. The system

`openapi.json` is the contract. `tools/` reads it (`spec.ts`) and six emitters
write, for each of six languages, the operations, the models and the paginators.
Everything else in a library is written by hand, once per language, to the same
design. `apps/docs` is the documentation site, with a playground that signs a
reader in. `.gitlab-ci.yml` and `.gitlab/scripts` guard a release.

| component | state it keeps | operations | what makes it correct |
|---|---|---|---|
| transport: `core.ts`, `core.hpp`, `core.rs`, `Core.cs`, `Core.kt`, `_core.py` | per call: the attempt, `refreshed`, the bearer token; C++ also one `pace_` for all threads | `call` / `text`: fresh token, request, then 2xx, 401, 429, 5xx, silence, refusal | one retry on a 401 and with another token; a 429 waits out the window; every call ends; a method that returns has done what it is named for, and an error but one says that it was not done |
| `UserToken`: `auth.*` | the token set, a lock or a renewal promise, the keeper's callback | `fresh`, `forget`, and keeping what a rotation brought | one refresh at a time, always with the newest refresh token; the keeper is told in order; the lock is released on every way out |
| `AppOnly`, `BearerToken` | a minted or a given access token, a lock but in TypeScript | `fresh`, `forget` | no token is minted that nobody needs; where `forget` throws the token away, the refused one is not sent again |
| code exchange, PKCE | none | `authorizeUrl`, `exchangeCode` | the verifier is the one the challenge was made from |
| device flow | the interval | `startDevice`, `awaitDevice` | pending and slow_down go on, denied and expired end |
| webhooks | none | `verify` | only a fresh and correctly signed body is accepted |
| paginators (generated) | `offset`, `limit` | `*All` | a row is neither skipped nor repeated by what moves elsewhere; the loop ends |
| operations (generated) | none | one method each | verb, path, query and body are the contract's |
| generator | none | `read`, `emit` | no operation or field of the contract is lost; six libraries ask the same |
| playground | `sessionStorage`: the held token and the pending sign-in; memory: the token, the discovery request, the page | `start`, `finish`, `out`, `pick`, `run` | a sign-in is finished once and with its own verifier; what is shown is of what is chosen |
| release | the branches, the tag's pipeline, six registries | `versions.ts`, `generate.ts`, `endpoints.ts`, the jobs | six equal versions of one contract or a word that says otherwise |
| token endpoint, api, limiter, edge, provider | not in the repository | the refresh grant, the bearer check, the limits, the consent | modelled from the libraries' side, marked external |

How they interact: an operation calls the transport, the transport asks an auth
object for a token at the top of every attempt and tells it to `forget()` on the
first 401; a `UserToken` that has expired sends its refresh token to the token
endpoint, adopts the answer and hands it to the keeper, a callback of the
application. All calls of one client share the auth object; that is where the
concurrency is: an event loop in TypeScript, threads in C++, both in Python,
tasks on a thread pool in C# and Rust, coroutines in Kotlin.

What is hard in it:

- **Rotation.** Every refresh retires the refresh token it used. Presenting a
  retired one is answered by killing the whole family, so two refreshes at the
  same time, a lost answer, a crash before the keeper stored the new token, or a
  token set restored from an old copy each sign the person out.
- **The 401 handler** runs against the other calls' refreshes: a 401 can be
  late, `forget()` can hit a token that was renewed meanwhile, and only C++ and
  Kotlin wait there for the lock that the refresh takes.
- **What counts as silence.** Some transports call `fresh()` within the attempt
  that they retry, and all retry what may have been carried out.
- **Pacing.** The waits after a 429 come from two headers in whole seconds, read
  late, by six slightly different formulas, and compete with the attempts that
  5xx answers and dropped sockets use up.
- **Lists that move** between two pages of a walk.
- **Two lives of one tab**: what `sessionStorage` keeps and what a page forgets.
- **One contract, six languages**: names, orders and defaults are decided six
  times, and the outcome is published by six jobs that fail one by one.

`PROJECT.json` lists these under `hazards`, each at its line, with the
properties that watch it or the reason why none does.

## 2. The modules

    OAuthProvider          the token endpoint, the api and the network (external)
      TokenKeeper          what a UserToken promises: the abstract specification
        TokenKeeper_proofs
      Calls                what the six transports' loops have in common
        Calls_proofs         the types of its records, and of the provider's
        TsClient           TypeScript: one renewal promise
          TsClient_proofs    it implements TokenKeeper
        LockedToken        the state and the shapes of the five with a lock
          CppClient CsClient KtClient RsClient PyClient
          LockedClients    the five (Python twice) behind one variable
            LockedClients_proofs   all of them refresh alone; four implement TokenKeeper;
                                   all but C# keep their family
    Pacing                 the waits of all six, against a limiter and a gap
      Pacing_proofs
    GeneratedClient        the generated methods over the transport
      GeneratedClient_proofs its paginators and its writes
      Operations             what each of them asks and answers, as data
      Walk                   a paginator against a list that moves
      Writes                 calls that change something, through the retries
    Flows                  what stands beside the calls
      Flows_proofs           every property of the five below but liveness
      AppOnly                application tokens, and BearerToken
      DeviceFlow             awaitDevice
      SignIn                 the playground's sign-in, in one tab
      Playground             its page
      Webhooks               verify
    Generator              the two that follow, side by side in one specification
      Generate               generate.ts: from the contract to six libraries
        Contract             the reader, and documents
        Emitter              what the emitters have in common
        EmitTypescript EmitPython EmitRust EmitKotlin EmitCsharp EmitCpp
      Release                from the repository to six registries: edits,
                             refreshes, tags, publications
        Release_proofs         every property of it but liveness

**OAuthProvider.** Refresh tokens form one family, numbered as issued;
`current` is the one that is taken. `wire[s]` is a token request and then its
answer. `Issue` rotates (or, as the libraries allow for, answers without a new
refresh token), `Kill` is reuse detection, `LoseAnswer` a rotation whose answer
never arrives, `ServeOrphan` a request whose sender is gone and which the
endpoint serves all the same. `Revoke` and `Verdicts` are the api's bearer
check. `cut` is a history variable: it records that the answer of a rotation was
lost, or broken off on its way to the client or to its keeper. The two things
nobody on the client's side can prevent are told apart from the client's own
mistakes by it.

**TokenKeeper** is the promise of `UserToken` without callers, locks or
promises: `Present` (only when no renewal is under way, and with the token held
at that moment), `Adopt`, `Keep` or `KeepFails`, `GiveUp`, `Forget`, `Cancel`,
`Restart`.

**Calls** is the record a call keeps (`at`, `attempt`, `spent`, `again`,
`bearer`, `status`) and its transitions. `spent` is the code's `refreshed`
flag, with the token that used it up. A call that is over forgets its locals
and may begin again: a caller makes any number of calls.

**TsClient** is `Core.call` over `UserToken` of the TypeScript library. Its
steps are the pieces of code between two awaits, which is what the event loop
interleaves. `renewing` is the promise: none, asking, keeping. Whoever finds it
set joins it. `forget()` drops the whole token set, as the code does.

**LockedToken** is the state the five others share (`held`, `lock`, `fresh[c]`
while the keeper runs, `stored`, and `copied[c]`, a token set that `forget()`
has read and not yet written) and the shapes of their steps. Each client module
picks the shapes that are its own:

| | FreshHeld takes the lock | fresh() is retried with the attempt | adopts before the keeper | forget() | cancelled |
|---|---|---|---|---|---|
| C++ | yes | no | yes | one step, waits for the lock | no |
| C# | no | no | yes | read, then write, no lock | yes |
| Kotlin | no | yes, also what the endpoint refused | yes | one step, waits for the lock | yes: caught like silence, and thrown again by the wait that follows |
| Rust | yes, in a step of its own | yes, every error | no: keeper first | one step, only if the lock is free | yes |
| Python | no, one lock for threads, one for tasks | no | yes | expires the object that was read | tasks |

**LockedClients** runs one of them, with its own number of retries and of token
sets, chosen by `library` at the start, so that one run covers all six.

**Pacing** leaves out tokens. `left`, `used` and `refused` are the limiter's
window, `gap` a deploy, `call[c]` a call with its attempt and what is left of
its sleep. `rule` says which of the two readings of the headers runs: TypeScript
and Python take `Retry-After`, or else the reset, or else a second; the other
four take the largest of the three. The backoff is the same in all six.

**Operations** is `generated/operations.ts` as a table: for each method the
verb, the path, the query keys it picks, whether a body goes out, the scope and
the answer, with the shapes of `generated/types.ts` that answers mention.
`Paged` picks the operations that have a walk by the reader's own rule.
**Walk** is the loop the emitters write beside them. `Ask` is the call of a
page, `Yield` hands it over and ends or moves `offset`; between any two of them
rows are appended, inserted or removed. Only the keys that an operation of the
table picks reach the api, so a method that lost its `offset` would walk in
place. **Writes** is `Core.call` around the operations that write: a request is
carried out (`CarryOut`), refused, limited, failed or met with silence; one that
was given up on may arrive later (`LateArrival`), and the answer of one that was
carried out may not be readable (`Unreadable`), which the method raises. `stored` says whose write an
address holds. **GeneratedClient** composes the two with the table.

**AppOnly** is `fresh` and `forget` of the six, with the differences that matter:
who looks before locking (all but C++ and Rust), who has no lock (TypeScript),
whose `forget` waits for the lock (C++, Kotlin), tries it (Rust) or ignores it. A
`BearerToken` is one of its `kind`s: its `forget` empties the token in TypeScript
and Python, and is empty itself in the other four, where the token that was refused
is sent a second time, on purpose.
**DeviceFlow** counts time: the poller sleeps its interval, the endpoint tells a
poll that came too soon to slow down, and a fault ends the flow as it does in
the code. **SignIn** keeps apart what a tab's storage and a page's memory hold;
`start` is cut at its two awaits, the digest and the discovery, and the browser
goes away, back, forth and reloads in between; an address without a code or a state
(`NoCode`) leaves what is pending where it is. **Playground** is the page, with
one request at a time. **Webhooks** treats a header as pieces and an HMAC as what
it was computed from, so a forged one cannot be written down.

**Contract** reads a document into models, aliases, tags and operations as
`spec.ts` does; a name is a sequence of words. The six **Emit** modules say which
method, arguments, request with its escapes, walk with its window, shapes and
groups each emitter writes;
**Generate** reads and emits in order. **Release** is people, a schedule and
tags: main is edited, generated wholly or half, bumped rightly or wrongly; the
refresh proposes; a pipeline agrees, publishes six times, says how it went, by a
count of its jobs or without one (`counted`), and is run again. **Generator** is either the one or the other: two components that share
nothing are checked in one run, and what `Release` says of itself is checked, and
proved, as it stands there.

## 3. The runs

| run | what is asked | bounds | states |
|---|---|---|---|
| `token_keeper` | is the promise itself safe; is `IInv` an invariant | refresh tokens until 4 access tokens are minted | 29k |
| `ts_client` | two calls share one renewal promise; implements `TokenKeeper`; every call ends | 2 callers, 1 retry, 3 tokens | 421k |
| `locked_clients` | all six with a lock: one refresh, kept in order; all but C# keep their family; the four that adopt first implement `TokenKeeper` and retry with another token | 2 callers; 1 retry over 2 tokens, no retry over 3 | 2.1M |
| `locked_calls_end` | Kotlin and Rust, which retry what `fresh()` throws: every call ends | 2 callers, 1 retry, 2 tokens | 262k |
| `pacing` | `NotRefusedTwice`, `BurstGetsThrough`, `RidesOutTheGap` | 3 callers, limit 1, window of 6 ticks, 2 retries | 313k |
| `generated_client` | walks over moving lists; writes through retries | lists of 0 to 4 rows, pages of 3, limits 0, 1, 2, 4 and the default, 2 moves; 2 calls with 1 retry, 1 foreign write | 735k |
| `flows` | application tokens, device flow, sign-in, playground, webhooks | 2 callers and 2 dead tokens of two kinds in six libraries; 4 intervals around a floor of 3; 3 sign-ins; 2 operations; 3 clock ticks and 3 skews | 118k |
| `generator` | the reader and six emitters over four families of documents; edits, refreshes, merges, tags, uploads that fail, are refused or canceled, reruns | 3 shapes in every composition; every kind of type two deep; every graph of mentions among 3; 4 operations under 4 tags; 2 libraries, 2 contracts, 2 versions, 1 edit beside the merges, 2 pipelines, 1 rerun | 575k |
| `ts_forget` | *violated*: `RefreshOnceOn401` | 2 callers | |
| `cs_forget_race` | *violated*: `KilledOnlyWhenCut` for C# | 2 callers | |
| `py_mixed` | *violated*: `KilledOnlyWhenCut` for a Python thread and a task | 2 callers | |
| `kt_refused_refresh` | *violated*: `RefusedRefreshIsFinal` for Kotlin | 2 callers | |

The properties, each stated in full above its definition; where a run checks no type
invariant of its own (`locked_clients`, `generated_client`), the types are a theorem
of section 5:

- Tokens. `KilledOnlyWhenCut`: the family is killed only after a rotation was cut
  off. `KeeperSpec` and `AdoptersKeep`: the library implements `TokenKeeper`;
  for a lock, the renewal that `TokenKeeper` sees is that of the lock's holder.
  `OneRefresh`: never two token requests under way (C# and Rust do not implement
  `TokenKeeper`: C# restores an old token set in `Forget`, Rust tells the keeper
  before it adopts). `KeepsItsFamily`: `KilledOnlyWhenCut` of every library with a
  lock but C#. `KeptInOrder`: the keeper never stores an older set over a
  newer one. `RetriesWithAnother`, `AdoptersRetryWithAnother`: the request after a
  401 does not carry the refused token. `EveryCallEnds`.
- Pacing. `NotRefusedTwice`, `BurstGetsThrough`, `RidesOutTheGap`: section 5.
- Walks. `SkipsNothing`: over a list that loses no row, a walk that ends has
  handed over every row that stood behind its start. `RepeatsNothing`: over a
  list into which nothing is inserted, no row comes twice. Each is false as soon
  as its condition is dropped, which is what an offset costs.
- Writes. `DoneAsReported`: a method that returns, or raises that its answer could
  not be read, did it; without silence and 5xx exactly once, and any other error then
  means that it was not done; and it is never done more often than attempts.
  `LastWriteStands`, of an unread answer too.
  `WalksAndWritesEnd`, for limits above 0.
- Flows. `MintsAsNeeded` counts mints against lapses and forgets;
  `AsksAgainWithAnother`, where `forget` throws the token away; `EndsAsDecided` relates what the person pressed, what the
  endpoint handed out, how often it had to say `slow_down`, and how the flow
  ended; `EachCodeOnce`: no code twice, none with another attempt's verifier, and
  the tab leaves with the state it stored; `ReloadKeepsTheSignIn`;
  `AnswerIsOfTheChosen`; `AcceptsTheGenuine`, in both directions; `EveryFlowEnds`.
- Generator. `FlatAsOnTheWire`: composition through diamonds and cycles;
  `HoldsWhatIsSent`: values the document admits against what a type can hold;
  `SixAskTheSame`: for every choice of arguments, slashes in the path's among them,
  the request of each library is the document's, and for every limit the window of
  its walks the same, Python apart: a slash in a path addresses another route from
  it (`quote` takes it for safe, `python.ts:288`), and a limit of 0 is a window of a
  hundred (`limit or 100`, `python.ts:322`). The property says that it is Python
  alone, and always; the comment and the test of `rust/src/core.rs` (28-32, 264-269)
  say why the slash matters. `NamesStandApart`; `ParsesEveryShape`.
- Releases. `PublishedAsGenerated`; `MatchingVersions`; `GreenMeansSix`, of words
  that were counted: `said` counts the jobs that fell in what a request for their
  status answers, and one that fails counts none, so "all six went out" is said then
  over whatever happened (`.gitlab-ci.yml:409`);
  `ProposesWhatGenerates`: the branch that the schedule pushes holds six libraries
  of one contract, with the addresses the server gave; `EveryTagIsSaid`.

**Bounds.** Two callers are enough for every hazard of the tokens: each is about
one call against another, and the provider, the clock and the crash are actors of
their own. Three tokens are two rotations, what it takes to hold one that is
retired, to present it, and to hold one that was issued after. `MaxMinted`
switches off expiry, revocation, losses, cancellations and restarts once that
many tokens are minted; until then they happen at any point and any number of
times. One retry tells the first attempt from the last; in `locked_clients` a
library has either the retry or the third token set, as no property there needs
both. In `pacing`, with a limit of 1 and two retries, three callers are exactly
as many as `BurstGetsThrough` lets through, `GapLength` of 3 ticks is exactly the
two backoffs, and `MaxWait` is exactly a window and the second it may be rounded
up to (the default, 65 s, is more than that). In `generated_client` a page is
`Ceiling = 3` rows and a list has up to 4 and grows by 2, so a walk meets an
empty page, a short one, a full last one and a second; the limits are none, less
than a page, and more than the api hands out. `Written` are two addresses with a
PUT and a DELETE each, one a part of the other, and a POST. In `flows` the
intervals are none, below, at and above the endpoint's, and the code runs out
after four polls. In `generator` the documents are built so that every branch of
the reader is taken. The registries are two, one of which skips
duplicates (nuget) and one of which refuses them; two pipelines may be of one
commit, of one version at two commits (a tag that was cut again), or of two
versions. After the last tag the server and main stand still (`TagsLeft`): a pipeline
works from its commit, and the first of the two sees main move on. More edits are the matter of the proofs. Symmetry over the callers is used only where no
liveness is checked. The runs without a deadlock check are those whose behaviours
end: a walk, a flow or a pipeline that is over.

**What the violations show.** They are disagreements between the code and what
its own comments or docs say, quoted under `findings`:

- TypeScript: `forget()` drops the refresh token, so a 401 ends the call with
  `Unauthorized` unless another call is already renewing.
- C#: `Forget()` reads, copies and writes without the semaphore. A rotation in
  between is undone, and the next refresh presents a retired token.
- Python: a thread and a task that share a `UserToken` take different locks and
  refresh side by side.
- Kotlin: a refresh that the endpoint refused is retried like a dropped socket.

Two more are in the models and have no run of their own; the properties name them as
what they leave out. Python leaves a slash in a path unescaped and takes a limit of
0 for none given (`SixAskTheSame`), and the last job of a tag's pipeline says that
all six went out when it could not ask for their status (`GreenMeansSix`). Both are
listed as hazards, as are the places where a property holds of some libraries only.

## 4. Fairness

Safety is checked without it, except that `TsClient` states it in `Spec`.
`EveryCallEnds` assumes that

- what is ready to run is run at last (weak fairness of each caller's steps and,
  in TypeScript, of the renewal): the event loop, the threads, the executors;
- who waits for a lock that is released again and again gets it at last (strong
  fairness of `Locking`): the mutexes of Kotlin and tokio are first-come first-served;
- a request to the api is answered or times out: `Options.timeout`;
- the token endpoint answers or the connection breaks (weak fairness of
  `ProviderStep`). This one is an assumption and no fact: `exchange` has no
  timeout in TypeScript and Rust. Without it one silent endpoint keeps every
  caller waiting; that is listed as a hazard which no property watches.

`WalksAndWritesEnd` assumes that a walk's caller takes the next row and that its
calls end, and that a backoff and a timeout ring; `EveryFlowEnds` that a caller of
an application token gets a lock that is let go of again and again, that the
token endpoint answers, that time passes and the poller is woken, and that the
page's `fetch` settles; `EveryTagIsSaid` that a runner picks every job up and
every job ends (`timeout` of the runner).

Nothing is assumed of new calls, expiry, revocation, cancellations and restarts.

## 5. The proofs

TLAPS checks them for every value of the constants.

`TokenKeeper_proofs`, for any `MaxMinted`:

- `TypeCorrect`: `Spec => []TypeOK`;
- `KeepsTheNewest`: `Spec => []IInv`;
- `NeverKillsItsFamily`: `Spec => []KilledOnlyWhenCut`.

`KilledOnlyWhenCut` is not inductive: it says nothing of what is on the wire.
The invariant is `IInv == TypeOK /\ (~cut => NewestIsHeld)`. `NewestIsHeld` says
that, while nothing was cut off, the family is alive, a request on the wire
carries `current`, an answer on the wire brings what is `current` now, and the
token in hand is `current` or the one that was presented for that answer; and
that what the keeper stored is `current` unless a newer one is on its way to it.
The provider's steps and the keeper's are two lemmas (`ProviderKeepsNewest`,
`KeeperKeepsNewest`). The assumption used is `OneSlot`.

`TsClient_proofs`, for any set of callers and any numbers of retries and tokens:

- `TypeCorrect`: `Spec => []TypeOK`;
- `ImplementsKeeper`: `Spec => KeeperSpec`;
- `NeverKillsItsFamily`: `Spec => []KilledOnlyWhenCut`;
- `SendsAnother`: `Spec => []RetriesWithAnother`.

The refinement maps the renewal promise to the keeper's phase and the renewal's
request to the keeper's wire. `FreshRenews`, `Renewed`, `RenewFails`, `Kept` and
`KeepFails` are the keeper's `Present`, `Adopt`, `GiveUp`, `Keep` and `KeepFails`;
`Lapse` and `HandleUnauthorized` are `Forget`; everything else a call does leaves
the keeper as it was (`StepIsKeeper`). The only invariant the refinement needs is
the types, and the assumption is `TsAssumption`: the client has one request slot
because it has one promise. `NeverKillsItsFamily` is then the theorem of the same
name about `TokenKeeper`, instantiated with the mapping.

`RetriesWithAnother` compares two fields of a call and says nothing of the token
the next attempt will be handed. `RetryInv` adds that: an answer on the wire
brings an access token newer than any that anybody has; a token in use is never
one whose 401 a call has spent its retry on; and where the renewal that is being
kept brings just that token, the call is itself waiting for it and will look
again. The last part is the odd one: a call may send the renewed token before the
keeper is done, and its 401 may be back first.

`LockedClients_proofs`, for any callers, any set of libraries, each with its own
numbers of retries and of tokens (`LibrariesAssumption`):

- `TypeCorrect`: `Spec => []TypeOK`;
- `RefreshesOneAtATime`: `Spec => []OneRefresh`;
- `KeepsInOrder`: `Spec => KeptInOrder`;
- `AdoptersSendAnother`: `Spec => []AdoptersRetryWithAnother`;
- `AdoptersAreKeepers`: `Spec => AdoptersKeep`;
- `AdoptersNeverKillTheirFamily`: `Spec => [](Adopting => KilledOnlyWhenCut)`;
- `FamiliesAreKept`: `Spec => []KeepsItsFamily`.

The six clients are not proved about one by one. Each one's `Next` is first shown
to consist of shapes with the differences left open (`CppSteps` and its
like; `LockedStep` for all, `AdopterStep` for the four that adopt first), and an
invariant is proved of the shapes. `SafeInv` holds of all six: whoever is past the
door of the critical section is in the lock, and alone; a request is on the wire
only for a call that is refreshing (`LockInv`); what is stored is not newer than
what is on its way to be stored (`OrderInv`). `OneRefresh` and `KeptInOrder` follow
from it, C#'s `Forget()` and Rust's `try_lock` included. `AdopterInv` is false of
these two and says of the others that nobody has a newer access token than the one
in use, that what is on its way is newer still, that a request carries the refresh
token in use, and that a token a call has spent its retry on is not in use,
unless that call is about to forget it (`SpentIsGone`). For the refinement the
keeper's wire, phase and fresh token set are those of the lock's holder
(`RenewalView`); taking and releasing the lock are stutters, adopting and keeping
are `Adopt` and `Keep`, and a cancellation of the holder is `Cancel`.

Rust is no token keeper: it tells the keeper first and adopts after. That its
family is kept all the same is shown directly, from its own shapes (`RustStep`).
`RustInv` says that what is stored is what is in use, however a renewal ends, which
is what a restart rests on; and that, while nothing was cut off, a request carries
the newest refresh token, an answer brings the one after it, the keeper is told of
the newest, and with no answer and no keeper under way the one in hand is the newest
itself. `FamiliesAreKept` puts this beside the theorem about the adopters; of C#,
which is left out, the run `cs_forget_race` shows the contrary.

`Pacing_proofs`, for any finite set of callers, any limit, window, second,
length of the gap and number of retries, under `PacingAssumption`,
`MaxWaitAssumption` and, for the last theorem alone, `BackoffAssumption`:

- `TypeCorrect`: `Spec => []TypeOK`;
- `PacedThroughout`: `Spec => []IInv`;
- `NeverRefusedTwice`: `Spec => NotRefusedTwice`: no window refuses the same
  call twice, however late answers and timers are ("too little, and refused again");
- `EveryBurstGetsThrough`: `Spec => []BurstGetsThrough`: a call that met only the
  limiter gives up only if there are more calls than `Limit * (Retries + 1)`;
- `EveryGapIsRiddenOut`: `Spec => []RidesOutTheGap`: a call that met only a gap
  gives up only if the gap is longer than its backoffs together.

`IInv` has four parts for each call: the headers on their way ask for at most a
window and its rounding (`AsksForAWindow`, which is where the default of
`maxWait` enters); a call refused in this window sleeps until it turns or is yet
to be told so (`WaitsForTheTurn`); `Limit * byWindow` requests of others were
served behind its refusals (`BehindFullWindows`); and what turned it away adds
up to its attempts (`CountsAttempts`). `BurstGetsThrough` follows by counting:
a call given up by the limiter alone was refused `Retries + 1` times, so
`Limit * (Retries + 1)` others were served.

`RidesOutTheGap` needs an invariant of its own, `GapInv`, because it says nothing
of calls that have not given up. A call that met only the gap has been turned away
for as many ticks, at least, as the backoffs it slept (`InTheGap`): the time the gap
has lasted, and what is left of the sleep, make up for `Waited(attempt)`. `Waited`
is a closed form, since the sum of the backoffs as a recursion would need an
induction; `BackoffsAddUp` shows that it is that sum. The two assumptions about
`MaxWait` are the defaults of all six: 65 s, against a window of 60 s and a second,
and against a longest backoff of 4 s.

`GeneratedClient_proofs`, for any list, limits, offsets, page sizes and number of
moves, and any number of calls and retries, under `WalkConstants` and
`WritesConstants`:

- `TypeCorrect`: `FairSpec => []TypeOK`;
- `NothingIsRepeated`: `FairSpec => []RepeatsNothing`;
- `NothingIsSkipped`: `FairSpec => []SkipsNothing`;
- `CallsAreDoneAsReported`: `FairSpec => []DoneAsReported`, unread answers included;
- `TheLastWriteStands`: `FairSpec => []LastWriteStands`.

Neither of the properties of walks is inductive, because neither says where in the
list the walk stands. `WalkInv` adds: what was reached and still stands, stands
behind the end of the page in hand (`Behind`, unless a row was inserted); what is
due and was not reached stands ahead of it (`Ahead`, unless one was removed); a page
shorter than was asked for was the last (`ShortIsLast`, where a limit beyond the
ceiling would break it); and the numbers tell rows apart (`Numbered`). One lemma
covers the three moves of the list (`MovingKeeps`): none brings a row nearer to the
front but a removal, none further back but an insertion; `InsertRows` and
`RemoveRows` state that of the library's `InsertAt` and `RemoveAt`. A paginator is
generated only for an operation that takes both keys, so the page that comes is
the one the walk means (`PagedTakesItsWindow`): a fact about the contract's table.

Of the calls that write, `DoneAsReported` compares what is over with what was
carried out, and is silent about the call under way. `WritesInv` keeps its books
(`Accounted`): it was carried out, and travels, no more often than it has attempts
behind it (`Allowance`), and unless it was dropped or failed exactly as often as
the client has heard or is about to hear (`Did`); and what such a call left at its
address is there from the moment the api carried it out, not from the moment the
answer is read (`Stands`).

`Flows_proofs`, for any callers, intervals, floors, expiries, numbers of sign-ins,
operations, tolerances and skews, under `FlowsAssumption`, which collects what each
component says of its own constants:

- `TypeCorrect`: `FairSpec => []TypeOK`;
- `MintsNoMoreThanNeeded`: `FairSpec => []MintsAsNeeded`;
- `RefusedTokensAreNotSentAgain`: `FairSpec => []AsksAgainWithAnother`, which is
  said of `AppOnly` but in Rust, and of `BearerToken` in TypeScript and Python;
- `TheDeviceFlowEndsAsDecided`: `FairSpec => []EndsAsDecided`;
- `CodesArePresentedOnce`: `FairSpec => []EachCodeOnce`;
- `TheSignInIsStored`: `FairSpec => []ReloadKeepsTheSignIn`;
- `AnswersStandUnderTheirOperation`: `FairSpec => []AnswerIsOfTheChosen`;
- `TheGenuineIsAccepted`: `FairSpec => []AcceptsTheGenuine`.

Each component has an invariant over its own variables, and `FlowsInv` is their
conjunction: the steps of the others leave them alone.

- `MintingInv`: who mints is in the lock and has seen under it that no token in hand
  is alive (`LockInv`), so the mints are the lapsed, the forgotten, and the one in
  hand (`MintsCounted`); where `forget` throws the token away, what was refused is no longer in hand
  by the time the call asks again (`RefusedIsGone`).
- `PollingInv`: the wait is the interval and what every `slow_down` added, and the
  next poll is at least that far behind the last (`WaitsAsTold`), so only a wait below
  the floor is hurried, which bounds the slow-downs; a flow that goes on has not met
  the decision yet (`GoesOnUnmet`).
- `SigningInv`: an attempt is digested, pending, about to be presented, or presented,
  in one place at a time and in this order (`OncePerAttempt`), through new documents
  too (`Renewed`); the last of the presses that wait for the discovery is the
  pending one (`LastIsPending`), which is why the tab leaves with the state it stored.
- `TryingInv`: one request flies while the page runs, and it is of the chosen
  operation unless another was picked meanwhile (`OneFlies`).
- `VerifyingInv`: a value under `v1` is one that was signed, a delivery nobody
  spoilt says what was signed in any order of its pieces (`Sound`), and a verdict is
  what `verify` says of its delivery (`Judged`). The header has two or three pieces,
  so what `verify` picks out of it is found by cases.

`Release_proofs`, for any sequence of libraries, any contracts and versions and any
numbers of edits, tags and reruns, under `ReleaseAssumption`:

- `TypeCorrect`: `Spec => []TypeOK`;
- `ReleasedThroughPipelines`: `Spec => []IInv`;
- `WhatIsPublishedIsGenerated`: `Spec => []PublishedAsGenerated`;
- `VersionsMatch`: `Spec => []MatchingVersions`;
- `GreenIsTrue`: `Spec => []GreenMeansSix`, of words that were counted;
- `ProposalsAreWhole`: `Spec => []ProposesWhatGenerates`.

The properties speak of what stands in the registries, and say nothing of how it
came there. `IInv` does. Every artefact was put where it is by a pipeline that had
agreed, whose commit says that version of that library, and is what this commit
holds (`CameFromAPipeline`). Of a pipeline (`PipelineInv`): one that agreed is of a
commit that says the tag's version six times and is what the generator writes
(`Whole`); its jobs ran only then; a job that succeeded has an artefact under its
version, its own or, with `--skip-duplicate`, an earlier one; and after a green word
that was counted no job has failed. What a registry holds is never taken away, and a commit in a
pipeline never changes, so both outlive every later edit. `VersionsMatch` then needs
that one cut of a tag is one commit, which is why the property leaves a tag that was
cut again out.

Only model-checked:

- the properties of `Generate`. The reader, the order of Python's parsers and what
  the emitters share are recursive over documents of any depth, which is induction
  over data; and some of the properties are facts about the contract at hand, which
  there is nothing to quantify over;
- `EveryCallEnds`, `WalksAndWritesEnd`, `EveryFlowEnds` and `EveryTagIsSaid`: liveness
  under fairness is out of the prover's reach;
- the properties that the code does not have, for which TLC shows how: section 3.

## 6. Abstractions

- A token is a number in the order of issue; a form, a header, a body is left
  out. `live` stands for `expires_at` against the clock: `Lapse` clears it.
- What a wait is worth is `Pacing`'s matter; in the client modules and in
  `Writes` a 429 or 5xx may be waited for or given up (`maxWait`), whichever it is.
- A keeper returns or throws; it does not call back into the client. A C++
  keeper that does would lock a `std::mutex` twice (a hazard).
- A restart begins with what the keeper last stored.
- A client built without `offline_access` has no refresh token
  (`GivenTokens`).
- In `Pacing` the limiter rounds up to whole seconds, and the edge refuses one
  request in a run. There is one gap.
- In `Walk` a page is taken from the list in one step at the api, and a row is a
  number in the order of its making. In `Writes` the requests carry live tokens;
  tokens are the matter of the client modules.
- `AppOnly` of Python has one lock, as its threads and its tasks take one each.
- A value in a path is plain or holds a slash. One that is `.` or `..` all six leave
  as it is, and is not looked into.
- In `DeviceFlow` the endpoint may, and need not, slow a hurried poll down.
- In `SignIn` a page is built anew whenever the tab comes back to it (the
  browser's back-forward cache is left out) and `sessionStorage` can be written.
- In `Contract` a name is a sequence of words, whose spelling in a case is not
  looked into; descriptions, scopes and formats are left out.
- In `Release` a request for the status of the jobs that fails counts none. Where the
  shell of the image ends a pipe's job at its first failing part (`pipefail`), the
  job fails instead, which the model has as well.
- `Release` has one proposal branch, edits of one commit each, and registries
  that never take a version twice.

## 7. Not modelled, and the plan

Left out for good: the layout and the comments that the emitters write, the
generated code of the other five libraries (the emitters that write it are
modelled), the site's pages, the HMAC and the random generators.

What could come next:

1. The error types of the other five libraries, with what their transports take
   for silence, in `Writes`.
2. One client with `Pacing`'s waits and `TokenKeeper`'s tokens together: a token
   that lapses during a wait of a minute.
3. The C++ `pace_` shared by threads, and keepers that call back.
4. What is true of C# in place of `KeepsItsFamily`: a weaker promise than
   `TokenKeeper`, in which a retired token set may come back.
