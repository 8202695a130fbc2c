------------------------ MODULE LockedClients_proofs ------------------------
(***************************************************************************)
(* The clients that refresh under a lock, for any number of callers, of    *)
(* retries and of rotations.                                               *)
(*                                                                         *)
(* Each library's steps are first shown to be among a few shapes that      *)
(* LockedToken gives names to, whatever its `retries`.  What is proved of  *)
(* the shapes is then true of all of them.                                 *)
(***************************************************************************)
EXTENDS LockedClients, Calls_proofs

-----------------------------------------------------------------------------
(* The shapes *)

\* A request is sent again, or its call is over: why does not matter here.
Repeats(c) == Handles(c, {"busy", "unanswered"}) /\ Becomes(c, Retried(call[c])) /\ Untouched
Quits(c) == call[c].at = "handle" /\ Ends(c) /\ Untouched

\* What becomes of a call whose fresh() threw.
Thrown(c) == {Over, Retried(call[c])}

\* Nothing changes but the call, which is outside the critical section.
Quiet(c) ==
    \/ Begins(c)
    \/ AnswersHeld(c)
    \/ \E k \in Thrown(c) : CannotRefresh(c, TRUE, k)
    \/ (Answer(c) \/ Unanswered(c)) /\ Untouched
    \/ Repeats(c)
    \/ Quits(c)

\* The steps that every library has.
Common(c) ==
    \/ Quiet(c)
    \/ \E k \in Thrown(c) : RefreshFails(c, k) \/ KeeperThrows(c, k)
    \/ BrokenOff(c)

\* Those of all but Rust.  In Python the refresh token that was presented is
\* the one held by the time the answer comes.
Usual(c) ==
    \/ Common(c)
    \/ Refreshes(c, Free)
    \/ \E a \in {wire[c], [wire[c] EXCEPT !.asked = held.refresh]} : AdoptsFirst(c, Adopted(a))
    \/ KeeperStores(c)
    \/ ForgetReads(c)

\* Those of the libraries that adopt a token set before they keep it, and never
\* have an expired one back in use.
AdopterStep(c) ==
    \/ Usual(c)
    \/ ForgetsAtOnce(c, Expired(held))
    \/ \E t \in {held, Expired(held)} :
        /\ held.access = copied[c].access => t = Expired(held)
        /\ ForgetWrites(c, t)

\* Those of all, with what they differ in left open: whether the lock is first
\* taken only to look, what forget() leaves, and when a token set is put in use.
Takes(c) ==
    /\ call[c].at = "fresh"
    /\ Free
    /\ lock' = lock \cup {c}
    /\ Presents(c) \/ (Goes(c, "locked") /\ UNCHANGED providerVars)
    /\ UNCHANGED <<held, fresh, stored, copied>>
TakesOn(c) == call[c].at = "locked" /\ Presents(c) /\ UNCHANGED tokenVars
Unlocks(c, k) ==
    /\ call[c].at = "locked"
    /\ Leaves(c, k)
    /\ UNCHANGED <<providerVars, held, stored>>
Adopts(c, t) ==
    /\ call[c].at = "refreshing"
    /\ wire[c].at = "tokens"
    /\ t.access = wire[c].access
    /\ held' \in {held, t}
    /\ fresh' = [fresh EXCEPT ![c] = t]
    /\ Goes(c, "keeping")
    /\ ReadsAnswer(c)
    /\ UNCHANGED <<stored, lock, copied>>
Keeps(c) ==
    /\ call[c].at = "keeping"
    /\ Stores(c)
    /\ held' \in {held, fresh[c]}
    /\ Leaves(c, Got(call[c], fresh[c].access))

\* Those of Rust, which takes its lock to look, and puts a token set in use when
\* the keeper has returned.
RustStep(c) ==
    \/ Common(c)
    \/ Takes(c) /\ Goes(c, "locked") /\ UNCHANGED providerVars
    \/ TakesOn(c) /\ held.refresh # None
    \/ \E k \in Thrown(c) \cup {Got(call[c], held.access)} : Unlocks(c, k)
    \/ Adopts(c, Adopted(wire[c])) /\ held' = held
    \/ Keeps(c) /\ held' = fresh[c]
    \/ \E t \in {held, Expired(held)} : ForgetsAtOnce(c, t)

\* And all of them together.
LockedStep(c) ==
    \/ Common(c)
    \/ Takes(c) \/ TakesOn(c)
    \/ \E k \in Thrown(c) \cup {Got(call[c], held.access)} : Unlocks(c, k)
    \/ \E t \in TokenSets : Adopts(c, t)
    \/ Keeps(c)
    \/ ForgetReads(c)
    \/ \E t \in TokenSets : ForgetsAtOnce(c, t) \/ ForgetWrites(c, t)

\* The clock, the provider and a crash.
World == Lapse \/ (ProviderNext /\ UNCHANGED <<tokenVars, call>>) \/ Restart


\* The C++ client's steps are among these.
LEMMA CppSteps ==
    ASSUME NEW l \in Libraries, Cpp(l)!Next, TypeOK
    PROVE  World \/ \E c \in Callers : AdopterStep(c)
<1>d. Cpp(l)!Disturbable => Disturbable
  BY LibrariesAssumption, MaxMintedAssumption
     DEF TypeOK, ProviderTypeOK, Cpp!Disturbable, Disturbable
<1>1. ASSUME NEW c \in Callers,
             \/ Cpp(l)!Begin(c) \/ Cpp(l)!FreshHeld(c)
             \/ Cpp(l)!FreshRefreshes(c) \/ Cpp(l)!FreshThrows(c)
      PROVE  AdopterStep(c)
  BY <1>1
     DEF Cpp!Begin, Cpp!FreshHeld, Cpp!FreshRefreshes, Cpp!FreshThrows, Cpp!Begins, Cpp!Free,
        Cpp!AnswersHeld, Cpp!Refreshes, Cpp!CannotRefresh, Cpp!Over, Cpp!Becomes, Cpp!At,
        Cpp!Untouched, Cpp!Got, Cpp!None, Cpp!Presents, Cpp!providerVars, Cpp!tokenVars,
        Cpp!Goes, Cpp!Asking, Begins, Free, AnswersHeld, Refreshes, CannotRefresh, Over,
        Becomes, At, Untouched, Got, None, Presents, providerVars, tokenVars, Goes, Asking,
        AdopterStep, Usual, Common, Quiet, Quits, Repeats, Thrown
<1>2. ASSUME NEW c \in Callers,
             \/ Cpp(l)!RefreshThrows(c) \/ Cpp(l)!Adopts(c)
             \/ Cpp(l)!Kept(c) \/ Cpp(l)!KeepThrows(c)
      PROVE  AdopterStep(c)
  BY <1>2
     DEF Cpp!RefreshThrows, Cpp!Adopts, Cpp!Kept, Cpp!KeepThrows, Cpp!RefreshFails, Cpp!Over,
        Cpp!AdoptsFirst, Cpp!Adopted, Cpp!KeeperStores, Cpp!KeeperThrows, Cpp!Leaves,
        Cpp!ReadsAnswer, Cpp!At, Cpp!Goes, Cpp!None, Cpp!Stores, Cpp!Got, Cpp!FailsToStore,
        Cpp!NoTokens, Cpp!Becomes, Cpp!Idle, Cpp!providerVars, RefreshFails, Over, AdoptsFirst,
        Adopted, KeeperStores, KeeperThrows, Leaves, ReadsAnswer, At, Goes, None, Stores, Got,
        FailsToStore, NoTokens, Becomes, Idle, providerVars, AdopterStep, Usual, Common, Quiet,
        Quits, Repeats, Thrown
<1>3. ASSUME NEW c \in Callers,
             \/ Cpp(l)!HandleOk(c) \/ Cpp(l)!HandleRetry(c)
             \/ Cpp(l)!HandleRefusal(c)
      PROVE  AdopterStep(c)
  BY <1>3
     DEF Cpp!HandleOk, Cpp!HandleRetry, Cpp!HandleRefusal, Cpp!Succeeds, Cpp!RetriesLater,
        Cpp!GivesUp, Cpp!Handles, Cpp!Ends, Cpp!Untouched, Cpp!Becomes, Cpp!Retried, Cpp!None,
        Cpp!Over, Cpp!providerVars, Cpp!tokenVars, Cpp!Top, Cpp!At, Succeeds, RetriesLater,
        GivesUp, Handles, Ends, Untouched, Becomes, Retried, None, Over, providerVars,
        tokenVars, Top, At, AdopterStep, Usual, Common, Quiet, Quits, Repeats, Thrown
<1>4. ASSUME NEW c \in Callers, Cpp(l)!HandleUnauthorized(c)
      PROVE  AdopterStep(c)
  BY <1>4
     DEF Cpp!HandleUnauthorized, Cpp!Free, Cpp!ForgetsAtOnce, Cpp!Expired, Cpp!Handles,
        Cpp!None, Cpp!Becomes, Cpp!Unauthed, Cpp!providerVars, Cpp!Top, Free, ForgetsAtOnce,
        Expired, Handles, None, Becomes, Unauthed, providerVars, Top, AdopterStep, Usual,
        Common, Quiet, Quits, Repeats, Thrown
<1>5. ASSUME NEW c \in Callers, Cpp(l)!Answer(c) \/ Cpp(l)!Unanswered(c),
             Cpp(l)!Untouched
      PROVE  Quiet(c)
  BY <1>5
     DEF Cpp!Answer, Cpp!Unanswered, Cpp!Untouched, Cpp!Verdicts, Cpp!providerVars,
        Cpp!tokenVars, Answer, Unanswered, Untouched, Verdicts, providerVars, tokenVars, Quiet
<1>6. Cpp(l)!Lapse => Lapse
  BY <1>d
     DEF Cpp!Lapse, Cpp!Expired, Cpp!providerVars, Lapse, Expired, providerVars
<1>7. Cpp(l)!Restart => Restart
  BY <1>d
     DEF Cpp!Restart, Cpp!BreaksOff, Cpp!None, Cpp!Idle, Cpp!NoTokens, Cpp!Over, Cpp!At,
        Restart, BreaksOff, None, Idle, NoTokens, Over, At
<1>8. Cpp(l)!ProviderNext => ProviderNext
  BY <1>d
     DEF Cpp!ProviderNext, Cpp!ProviderStep, Cpp!ServeOrphan, Cpp!Revoke, Cpp!Issue, Cpp!Kill,
        Cpp!Unserved, Cpp!LoseAnswer, Cpp!TakeCurrent, Cpp!KillFamily, Cpp!Tokens, Cpp!None,
        Cpp!Refused, Cpp!Broken, ProviderNext, ProviderStep, ServeOrphan, Revoke, Issue, Kill,
        Unserved, LoseAnswer, TakeCurrent, KillFamily, Tokens, None, Refused, Broken
<1>9. QED
  BY <1>1, <1>2, <1>3, <1>4, <1>5, <1>6, <1>7, <1>8
     DEF Cpp!Next, Cpp!Locking, Cpp!Running, Cpp!Outside, Cpp!tokenVars, tokenVars, World,
        AdopterStep, Usual, Common

\* The Kotlin client's steps are among these.
LEMMA KtSteps ==
    ASSUME NEW l \in Libraries, Kt(l)!Next, TypeOK
    PROVE  World \/ \E c \in Callers : AdopterStep(c)
<1>d. Kt(l)!Disturbable => Disturbable
  BY LibrariesAssumption, MaxMintedAssumption
     DEF TypeOK, ProviderTypeOK, Kt!Disturbable, Disturbable
<1>1. ASSUME NEW c \in Callers,
             \/ Kt(l)!Begin(c) \/ Kt(l)!FreshHeld(c)
             \/ Kt(l)!FreshRefreshes(c) \/ Kt(l)!FreshThrows(c)
      PROVE  AdopterStep(c)
  BY <1>1
     DEF Kt!Begin, Kt!FreshHeld, Kt!FreshRefreshes, Kt!FreshThrows, Kt!Begins, Kt!AnswersHeld,
        Kt!Refreshes, Kt!Free, Kt!CannotRefresh, Kt!TakenForSilence, Kt!Becomes, Kt!At,
        Kt!Untouched, Kt!Got, Kt!None, Kt!Presents, Kt!Retried, Kt!Over, Kt!providerVars,
        Kt!tokenVars, Kt!Goes, Kt!Asking, Kt!Top, Begins, AnswersHeld, Refreshes, Free,
        CannotRefresh, Becomes, At, Untouched, Got, None, Presents, Retried, Over, providerVars,
        tokenVars, Goes, Asking, Top, AdopterStep, Usual, Common, Quiet, Quits, Repeats, Thrown
<1>2. ASSUME NEW c \in Callers,
             \/ Kt(l)!RefreshThrows(c) \/ Kt(l)!Adopts(c)
             \/ Kt(l)!Kept(c) \/ Kt(l)!KeepThrows(c)
      PROVE  AdopterStep(c)
  BY <1>2
     DEF Kt!RefreshThrows, Kt!Adopts, Kt!Kept, Kt!KeepThrows, Kt!RefreshFails,
        Kt!TakenForSilence, Kt!AdoptsFirst, Kt!Adopted, Kt!KeeperStores, Kt!KeeperThrows,
        Kt!Leaves, Kt!ReadsAnswer, Kt!Retried, Kt!Over, Kt!Goes, Kt!None, Kt!Stores, Kt!Got,
        Kt!FailsToStore, Kt!NoTokens, Kt!Becomes, Kt!Idle, Kt!Top, Kt!At, Kt!providerVars,
        RefreshFails, AdoptsFirst, Adopted, KeeperStores, KeeperThrows, Leaves, ReadsAnswer,
        Retried, Over, Goes, None, Stores, Got, FailsToStore, NoTokens, Becomes, Idle, Top, At,
        providerVars, AdopterStep, Usual, Common, Quiet, Quits, Repeats, Thrown
<1>3. ASSUME NEW c \in Callers,
             \/ Kt(l)!HandleOk(c) \/ Kt(l)!HandleRetry(c)
             \/ Kt(l)!HandleRefusal(c)
      PROVE  AdopterStep(c)
  BY <1>3
     DEF Kt!HandleOk, Kt!HandleRetry, Kt!HandleRefusal, Kt!Succeeds, Kt!RetriesLater,
        Kt!GivesUp, Kt!Handles, Kt!Ends, Kt!Untouched, Kt!Becomes, Kt!Retried, Kt!None, Kt!Over,
        Kt!providerVars, Kt!tokenVars, Kt!Top, Kt!At, Succeeds, RetriesLater, GivesUp, Handles,
        Ends, Untouched, Becomes, Retried, None, Over, providerVars, tokenVars, Top, At,
        AdopterStep, Usual, Common, Quiet, Quits, Repeats, Thrown
<1>4. ASSUME NEW c \in Callers, Kt(l)!HandleUnauthorized(c)
      PROVE  AdopterStep(c)
  BY <1>4
     DEF Kt!HandleUnauthorized, Kt!Free, Kt!ForgetsAtOnce, Kt!Expired, Kt!Handles, Kt!None,
        Kt!Becomes, Kt!Unauthed, Kt!providerVars, Kt!Top, Free, ForgetsAtOnce, Expired, Handles,
        None, Becomes, Unauthed, providerVars, Top, AdopterStep, Usual, Common, Quiet, Quits,
        Repeats, Thrown
<1>5. ASSUME NEW c \in Callers, Kt(l)!Cancelled(c) PROVE Common(c)
  BY <1>5, <1>d
     DEF Kt!Cancelled, Kt!BrokenOff, Kt!BreaksOff, Kt!None, Kt!Idle, Kt!NoTokens, Kt!Over,
        Kt!At, BrokenOff, BreaksOff, None, Idle, NoTokens, Over, At, Common
<1>6. ASSUME NEW c \in Callers, Kt(l)!Answer(c) \/ Kt(l)!Unanswered(c),
             Kt(l)!Untouched
      PROVE  Quiet(c)
  BY <1>6
     DEF Kt!Answer, Kt!Unanswered, Kt!Untouched, Kt!Verdicts, Kt!providerVars, Kt!tokenVars,
        Answer, Unanswered, Untouched, Verdicts, providerVars, tokenVars, Quiet
<1>7. Kt(l)!Lapse => Lapse
  BY <1>d
     DEF Kt!Lapse, Kt!Expired, Kt!providerVars, Lapse, Expired, providerVars
<1>8. Kt(l)!Restart => Restart
  BY <1>d
     DEF Kt!Restart, Kt!BreaksOff, Kt!None, Kt!Idle, Kt!NoTokens, Kt!Over, Kt!At, Restart,
        BreaksOff, None, Idle, NoTokens, Over, At
<1>9. Kt(l)!ProviderNext => ProviderNext
  BY <1>d
     DEF Kt!ProviderNext, Kt!ProviderStep, Kt!ServeOrphan, Kt!Revoke, Kt!Issue, Kt!Kill,
        Kt!Unserved, Kt!LoseAnswer, Kt!TakeCurrent, Kt!KillFamily, Kt!Tokens, Kt!None,
        Kt!Refused, Kt!Broken, ProviderNext, ProviderStep, ServeOrphan, Revoke, Issue, Kill,
        Unserved, LoseAnswer, TakeCurrent, KillFamily, Tokens, None, Refused, Broken
<1>10. QED
  BY <1>1, <1>2, <1>3, <1>4, <1>5, <1>6, <1>7, <1>8, <1>9
     DEF Kt!Next, Kt!Locking, Kt!Running, Kt!Outside, Kt!tokenVars, tokenVars, World,
        AdopterStep, Usual, Common

\* The Python client's steps are among these.
LEMMA PySteps ==
    ASSUME NEW l \in Libraries, NEW tasks \in {{}, Callers}, Py(l, tasks)!Next, TypeOK
    PROVE  World \/ \E c \in Callers : AdopterStep(c)
<1>d. Py(l, tasks)!Disturbable => Disturbable
  BY LibrariesAssumption, MaxMintedAssumption
     DEF TypeOK, ProviderTypeOK, Py!Disturbable, Disturbable
<1>l. \A c \in Callers : Py(l, tasks)!Locked(c) \/ Free
  BY DEF TypeOK, Py!Locked, Free
<1>1. ASSUME NEW c \in Callers,
             \/ Py(l, tasks)!Begin(c) \/ Py(l, tasks)!FreshHeld(c)
             \/ Py(l, tasks)!FreshRefreshes(c) \/ Py(l, tasks)!FreshThrows(c)
      PROVE  AdopterStep(c)
  BY <1>1, <1>l
     DEF Py!Begin, Py!FreshHeld, Py!FreshRefreshes, Py!FreshThrows, Py!Begins, Py!AnswersHeld,
        Py!Refreshes, Py!CannotRefresh, Py!Over, Py!Becomes, Py!At, Py!Untouched, Py!Got,
        Py!None, Py!Presents, Py!providerVars, Py!tokenVars, Py!Goes, Py!Asking, Begins,
        AnswersHeld, Refreshes, CannotRefresh, Over, Becomes, At, Untouched, Got, None,
        Presents, providerVars, tokenVars, Goes, Asking, AdopterStep, Usual, Common, Quiet,
        Quits, Repeats, Thrown
<1>2. ASSUME NEW c \in Callers,
             \/ Py(l, tasks)!RefreshThrows(c) \/ Py(l, tasks)!Adopts(c)
             \/ Py(l, tasks)!Kept(c) \/ Py(l, tasks)!KeepThrows(c)
      PROVE  AdopterStep(c)
  BY <1>2
     DEF Py!RefreshThrows, Py!Adopts, Py!Kept, Py!KeepThrows, Py!RefreshFails, Py!Over,
        Py!AdoptsFirst, Py!Adopted, Py!KeeperStores, Py!KeeperThrows, Py!Leaves, Py!ReadsAnswer,
        Py!At, Py!Goes, Py!None, Py!Stores, Py!Got, Py!FailsToStore, Py!NoTokens, Py!Becomes,
        Py!Idle, Py!providerVars, RefreshFails, Over, AdoptsFirst, Adopted, KeeperStores,
        KeeperThrows, Leaves, ReadsAnswer, At, Goes, None, Stores, Got, FailsToStore, NoTokens,
        Becomes, Idle, providerVars, AdopterStep, Usual, Common, Quiet, Quits, Repeats, Thrown
<1>3. ASSUME NEW c \in Callers,
             \/ Py(l, tasks)!HandleOk(c) \/ Py(l, tasks)!HandleRetry(c)
             \/ Py(l, tasks)!HandleRefusal(c)
      PROVE  AdopterStep(c)
  BY <1>3
     DEF Py!HandleOk, Py!HandleRetry, Py!HandleRefusal, Py!Succeeds, Py!RetriesLater,
        Py!GivesUp, Py!Handles, Py!Ends, Py!Untouched, Py!Becomes, Py!Retried, Py!None, Py!Over,
        Py!providerVars, Py!tokenVars, Py!Top, Py!At, Succeeds, RetriesLater, GivesUp, Handles,
        Ends, Untouched, Becomes, Retried, None, Over, providerVars, tokenVars, Top, At,
        AdopterStep, Usual, Common, Quiet, Quits, Repeats, Thrown
<1>4. ASSUME NEW c \in Callers,
             \/ Py(l, tasks)!HandleUnauthorized(c)
             \/ Py(l, tasks)!Forgets(c)
      PROVE  AdopterStep(c)
  BY <1>4
     DEF Py!HandleUnauthorized, Py!Forgets, Py!ForgetReads, Py!ForgetWrites, Py!Expired,
        Py!Handles, Py!None, Py!Becomes, Py!Unauthed, Py!providerVars, Py!NoTokens, Py!Goes,
        Py!Top, ForgetReads, ForgetWrites, Expired, Handles, None, Becomes, Unauthed,
        providerVars, NoTokens, Goes, Top, AdopterStep, Usual, Common, Quiet, Quits, Repeats,
        Thrown
<1>5. ASSUME NEW c \in Callers, Py(l, tasks)!Cancelled(c) PROVE Common(c)
  BY <1>5, <1>d
     DEF Py!Cancelled, Py!BrokenOff, Py!BreaksOff, Py!None, Py!Idle, Py!NoTokens, Py!Over,
        Py!At, BrokenOff, BreaksOff, None, Idle, NoTokens, Over, At, Common
<1>6. ASSUME NEW c \in Callers, Py(l, tasks)!Answer(c) \/ Py(l, tasks)!Unanswered(c),
             Py(l, tasks)!Untouched
      PROVE  Quiet(c)
  BY <1>6
     DEF Py!Answer, Py!Unanswered, Py!Untouched, Py!Verdicts, Py!providerVars, Py!tokenVars,
        Answer, Unanswered, Untouched, Verdicts, providerVars, tokenVars, Quiet
<1>7. Py(l, tasks)!Lapse => Lapse
  BY <1>d
     DEF Py!Lapse, Py!Expired, Py!providerVars, Lapse, Expired, providerVars
<1>8. Py(l, tasks)!Restart => Restart
  BY <1>d
     DEF Py!Restart, Py!BreaksOff, Py!None, Py!Idle, Py!NoTokens, Py!Over, Py!At, Restart,
        BreaksOff, None, Idle, NoTokens, Over, At
<1>9. Py(l, tasks)!ProviderNext => ProviderNext
  BY <1>d
     DEF Py!ProviderNext, Py!ProviderStep, Py!ServeOrphan, Py!Revoke, Py!Issue, Py!Kill,
        Py!Unserved, Py!LoseAnswer, Py!TakeCurrent, Py!KillFamily, Py!Tokens, Py!None,
        Py!Refused, Py!Broken, ProviderNext, ProviderStep, ServeOrphan, Revoke, Issue, Kill,
        Unserved, LoseAnswer, TakeCurrent, KillFamily, Tokens, None, Refused, Broken
<1>10. QED
  BY <1>1, <1>2, <1>3, <1>4, <1>5, <1>6, <1>7, <1>8, <1>9
     DEF Py!Next, Py!Locking, Py!Running, Py!Outside, Py!tokenVars, tokenVars, World,
        AdopterStep, Usual, Common

\* The C# client's steps are among these.
LEMMA CsSteps ==
    ASSUME NEW l \in Libraries, Cs(l)!Next, TypeOK
    PROVE  World \/ \E c \in Callers : Usual(c) \/ ForgetWrites(c, Expired(copied[c]))
<1>d. Cs(l)!Disturbable => Disturbable
  BY LibrariesAssumption, MaxMintedAssumption
     DEF TypeOK, ProviderTypeOK, Cs!Disturbable, Disturbable
<1>1. ASSUME NEW c \in Callers,
             \/ Cs(l)!Begin(c) \/ Cs(l)!FreshHeld(c)
             \/ Cs(l)!FreshRefreshes(c) \/ Cs(l)!FreshThrows(c)
      PROVE  Usual(c) \/ ForgetWrites(c, Expired(copied[c]))
  BY <1>1
     DEF Cs!Begin, Cs!FreshHeld, Cs!FreshRefreshes, Cs!FreshThrows, Cs!Begins, Cs!AnswersHeld,
        Cs!Refreshes, Cs!Free, Cs!CannotRefresh, Cs!Over, Cs!Becomes, Cs!At, Cs!Untouched,
        Cs!Got, Cs!None, Cs!Presents, Cs!providerVars, Cs!tokenVars, Cs!Goes, Cs!Asking, Begins,
        AnswersHeld, Refreshes, Free, CannotRefresh, Over, Becomes, At, Untouched, Got, None,
        Presents, providerVars, tokenVars, Goes, Asking, Usual, Common, Quiet, Quits, Repeats,
        Thrown
<1>2. ASSUME NEW c \in Callers,
             \/ Cs(l)!RefreshThrows(c) \/ Cs(l)!Adopts(c)
             \/ Cs(l)!Kept(c) \/ Cs(l)!KeepThrows(c)
      PROVE  Usual(c) \/ ForgetWrites(c, Expired(copied[c]))
  BY <1>2
     DEF Cs!RefreshThrows, Cs!Adopts, Cs!Kept, Cs!KeepThrows, Cs!RefreshFails, Cs!Over,
        Cs!AdoptsFirst, Cs!Adopted, Cs!KeeperStores, Cs!KeeperThrows, Cs!Leaves, Cs!ReadsAnswer,
        Cs!At, Cs!Goes, Cs!None, Cs!Stores, Cs!Got, Cs!FailsToStore, Cs!NoTokens, Cs!Becomes,
        Cs!Idle, Cs!providerVars, RefreshFails, Over, AdoptsFirst, Adopted, KeeperStores,
        KeeperThrows, Leaves, ReadsAnswer, At, Goes, None, Stores, Got, FailsToStore, NoTokens,
        Becomes, Idle, providerVars, Usual, Common, Quiet, Quits, Repeats, Thrown
<1>3. ASSUME NEW c \in Callers,
             \/ Cs(l)!HandleOk(c) \/ Cs(l)!HandleRetry(c)
             \/ Cs(l)!HandleRefusal(c)
      PROVE  Usual(c) \/ ForgetWrites(c, Expired(copied[c]))
  BY <1>3
     DEF Cs!HandleOk, Cs!HandleRetry, Cs!HandleRefusal, Cs!Succeeds, Cs!RetriesLater,
        Cs!GivesUp, Cs!Handles, Cs!Ends, Cs!Untouched, Cs!Becomes, Cs!Retried, Cs!None, Cs!Over,
        Cs!providerVars, Cs!tokenVars, Cs!Top, Cs!At, Succeeds, RetriesLater, GivesUp, Handles,
        Ends, Untouched, Becomes, Retried, None, Over, providerVars, tokenVars, Top, At, Usual,
        Common, Quiet, Quits, Repeats, Thrown
<1>4. ASSUME NEW c \in Callers, Cs(l)!HandleUnauthorized(c) \/ Cs(l)!Forgets(c)
      PROVE  Usual(c) \/ ForgetWrites(c, Expired(copied[c]))
  BY <1>4
     DEF Cs!HandleUnauthorized, Cs!Forgets, Cs!ForgetReads, Cs!ForgetWrites, Cs!Expired,
        Cs!Handles, Cs!None, Cs!Becomes, Cs!Unauthed, Cs!providerVars, Cs!NoTokens, Cs!Goes,
        Cs!Top, ForgetReads, ForgetWrites, Expired, Handles, None, Becomes, Unauthed,
        providerVars, NoTokens, Goes, Top, Usual, Common, Quiet, Quits, Repeats, Thrown
<1>5. ASSUME NEW c \in Callers, Cs(l)!Cancelled(c) PROVE Common(c)
  BY <1>5, <1>d
     DEF Cs!Cancelled, Cs!BrokenOff, Cs!BreaksOff, Cs!None, Cs!Idle, Cs!NoTokens, Cs!Over,
        Cs!At, BrokenOff, BreaksOff, None, Idle, NoTokens, Over, At, Common
<1>6. ASSUME NEW c \in Callers, Cs(l)!Answer(c) \/ Cs(l)!Unanswered(c),
             Cs(l)!Untouched
      PROVE  Quiet(c)
  BY <1>6
     DEF Cs!Answer, Cs!Unanswered, Cs!Untouched, Cs!Verdicts, Cs!providerVars, Cs!tokenVars,
        Answer, Unanswered, Untouched, Verdicts, providerVars, tokenVars, Quiet
<1>7. Cs(l)!Lapse => Lapse
  BY <1>d
     DEF Cs!Lapse, Cs!Expired, Cs!providerVars, Lapse, Expired, providerVars
<1>8. Cs(l)!Restart => Restart
  BY <1>d
     DEF Cs!Restart, Cs!BreaksOff, Cs!None, Cs!Idle, Cs!NoTokens, Cs!Over, Cs!At, Restart,
        BreaksOff, None, Idle, NoTokens, Over, At
<1>9. Cs(l)!ProviderNext => ProviderNext
  BY <1>d
     DEF Cs!ProviderNext, Cs!ProviderStep, Cs!ServeOrphan, Cs!Revoke, Cs!Issue, Cs!Kill,
        Cs!Unserved, Cs!LoseAnswer, Cs!TakeCurrent, Cs!KillFamily, Cs!Tokens, Cs!None,
        Cs!Refused, Cs!Broken, ProviderNext, ProviderStep, ServeOrphan, Revoke, Issue, Kill,
        Unserved, LoseAnswer, TakeCurrent, KillFamily, Tokens, None, Refused, Broken
<1>10. QED
  BY <1>1, <1>2, <1>3, <1>4, <1>5, <1>6, <1>7, <1>8, <1>9
     DEF Cs!Next, Cs!Locking, Cs!Running, Cs!Outside, Cs!tokenVars, tokenVars, World, Usual,
        Common

\* The Rust client's steps are among these.
LEMMA RsSteps ==
    ASSUME NEW l \in Libraries, Rs(l)!Next, TypeOK
    PROVE  World \/ \E c \in Callers : RustStep(c)
<1>d. Rs(l)!Disturbable => Disturbable
  BY LibrariesAssumption, MaxMintedAssumption
     DEF TypeOK, ProviderTypeOK, Rs!Disturbable, Disturbable
<1>1. ASSUME NEW c \in Callers, Rs(l)!Begin(c) \/ Rs(l)!Locks(c) \/ Rs(l)!FreshHeld(c)
      PROVE  RustStep(c)
  BY <1>1
     DEF Rs!Begin, Rs!Locks, Rs!FreshHeld, Rs!Begins, Rs!Free, Rs!Goes, Rs!providerVars,
        Rs!Leaves, Rs!Got, Rs!Becomes, Rs!At, Rs!Untouched, Rs!NoTokens, Rs!None, Rs!tokenVars,
        Begins, Free, Goes, providerVars, Leaves, Got, Becomes, At, Untouched, NoTokens, None,
        tokenVars, RustStep, Common, Quiet, Quits, Repeats, Thrown, Takes, TakesOn, Unlocks,
        Adopts, Keeps
<1>2. ASSUME NEW c \in Callers,
             \/ Rs(l)!FreshRefreshes(c) \/ Rs(l)!FreshThrows(c)
             \/ Rs(l)!RefreshThrows(c)
      PROVE  RustStep(c)
  BY <1>2
     DEF Rs!FreshRefreshes, Rs!FreshThrows, Rs!RefreshThrows, Rs!None, Rs!Presents,
        Rs!tokenVars, Rs!Leaves, Rs!TakenForSilence, Rs!providerVars, Rs!RefreshFails, Rs!Goes,
        Rs!Asking, Rs!NoTokens, Rs!Becomes, Rs!Retried, Rs!Over, Rs!ReadsAnswer, Rs!Top, Rs!At,
        Rs!Idle, None, Presents, tokenVars, Leaves, providerVars, RefreshFails, Goes, Asking,
        NoTokens, Becomes, Retried, Over, ReadsAnswer, Top, At, Idle, RustStep, Common, Quiet,
        Quits, Repeats, Thrown, Takes, TakesOn, Unlocks, Adopts, Keeps
<1>3. ASSUME NEW c \in Callers, Rs(l)!Adopts(c) \/ Rs(l)!Kept(c)
      PROVE  RustStep(c)
  BY <1>3
     DEF Rs!Adopts, Rs!Kept, Rs!Adopted, Rs!Goes, Rs!ReadsAnswer, Rs!Stores, Rs!Leaves, Rs!Got,
        Rs!None, Rs!Idle, Rs!providerVars, Rs!NoTokens, Rs!Becomes, Adopted, Goes, ReadsAnswer,
        Stores, Leaves, Got, None, Idle, providerVars, NoTokens, Becomes, RustStep, Common,
        Quiet, Quits, Repeats, Thrown, Takes, TakesOn, Unlocks, Adopts, Keeps
<1>4. ASSUME NEW c \in Callers, Rs(l)!KeepPanics(c)
      PROVE  RustStep(c)
  BY <1>4, <1>d
     DEF Rs!KeepPanics, Rs!KeeperThrows, Rs!Over, Rs!FailsToStore, Rs!Leaves, Rs!At,
        Rs!NoTokens, Rs!Becomes, Rs!None, KeeperThrows, Over, FailsToStore, Leaves, At,
        NoTokens, Becomes, None, RustStep, Common, Quiet, Quits, Repeats, Thrown, Takes,
        TakesOn, Unlocks, Adopts, Keeps
<1>5. ASSUME NEW c \in Callers,
             \/ Rs(l)!HandleOk(c) \/ Rs(l)!HandleRetry(c)
             \/ Rs(l)!HandleRefusal(c)
      PROVE  RustStep(c)
  BY <1>5
     DEF Rs!HandleOk, Rs!HandleRetry, Rs!HandleRefusal, Rs!Succeeds, Rs!RetriesLater,
        Rs!GivesUp, Rs!Handles, Rs!Ends, Rs!Untouched, Rs!Becomes, Rs!Retried, Rs!None, Rs!Over,
        Rs!providerVars, Rs!tokenVars, Rs!Top, Rs!At, Succeeds, RetriesLater, GivesUp, Handles,
        Ends, Untouched, Becomes, Retried, None, Over, providerVars, tokenVars, Top, At,
        RustStep, Common, Quiet, Quits, Repeats, Thrown, Takes, TakesOn, Unlocks, Adopts, Keeps
<1>6. ASSUME NEW c \in Callers, Rs(l)!HandleUnauthorized(c)
      PROVE  RustStep(c)
  BY <1>6
     DEF Rs!HandleUnauthorized, Rs!ForgetsAtOnce, Rs!Free, Rs!Expired, Rs!Handles, Rs!None,
        Rs!Becomes, Rs!Unauthed, Rs!providerVars, Rs!Top, ForgetsAtOnce, Free, Expired, Handles,
        None, Becomes, Unauthed, providerVars, Top, RustStep, Common, Quiet, Quits, Repeats,
        Thrown, Takes, TakesOn, Unlocks, Adopts, Keeps
<1>7. ASSUME NEW c \in Callers, Rs(l)!Cancelled(c) PROVE Common(c)
  BY <1>7, <1>d
     DEF Rs!Cancelled, Rs!BrokenOff, Rs!BreaksOff, Rs!None, Rs!Idle, Rs!NoTokens, Rs!Over,
        Rs!At, BrokenOff, BreaksOff, None, Idle, NoTokens, Over, At, Common
<1>8. ASSUME NEW c \in Callers, Rs(l)!Answer(c) \/ Rs(l)!Unanswered(c),
             Rs(l)!Untouched
      PROVE  Quiet(c)
  BY <1>8
     DEF Rs!Answer, Rs!Unanswered, Rs!Untouched, Rs!Verdicts, Rs!providerVars, Rs!tokenVars,
        Answer, Unanswered, Untouched, Verdicts, providerVars, tokenVars, Quiet
<1>9. Rs(l)!Lapse => Lapse
  BY <1>d
     DEF Rs!Lapse, Rs!Expired, Rs!providerVars, Lapse, Expired, providerVars
<1>10. Rs(l)!Restart => Restart
  BY <1>d
     DEF Rs!Restart, Rs!BreaksOff, Rs!None, Rs!Idle, Rs!NoTokens, Rs!Over, Rs!At, Restart,
        BreaksOff, None, Idle, NoTokens, Over, At
<1>11. Rs(l)!ProviderNext => ProviderNext
  BY <1>d
     DEF Rs!ProviderNext, Rs!ProviderStep, Rs!ServeOrphan, Rs!Revoke, Rs!Issue, Rs!Kill,
        Rs!Unserved, Rs!LoseAnswer, Rs!TakeCurrent, Rs!KillFamily, Rs!Tokens, Rs!None,
        Rs!Refused, Rs!Broken, ProviderNext, ProviderStep, ServeOrphan, Revoke, Issue, Kill,
        Unserved, LoseAnswer, TakeCurrent, KillFamily, Tokens, None, Refused, Broken
<1>12. QED
  BY <1>1, <1>2, <1>3, <1>4, <1>5, <1>6, <1>7, <1>8, <1>9, <1>10, <1>11
     DEF Rs!Next, Rs!Locking, Rs!Running, Rs!Outside, Rs!tokenVars, tokenVars, World, RustStep,
        Common

-----------------------------------------------------------------------------
(* Types *)

\* The places outside the critical section.
Plain == {"ended", "fresh", "sent", "handle", "forgetting"}

\* c's call becomes k, and was and stays outside the critical section.
Moves(c, k) ==
    /\ k \in CallRecords
    /\ call[c].at \in Plain
    /\ k.at \in Plain
    /\ Becomes(c, k)

\* Where the request of a call that moves got its token from, and its spent one.
Tells(c, k) ==
    \/ k.bearer = None /\ k.spent \in {None, call[c].spent}
    \/ k.bearer = call[c].bearer /\ k.spent = call[c].spent
    \/ /\ call[c].at = "fresh" /\ held.live
       /\ k.bearer = held.access /\ k.spent = call[c].spent

\* Where a fresh() that threw sends a call.
LEMMA ThrownMade ==
    ASSUME NEW c \in Callers, call[c] \in CallRecords, NEW k \in Thrown(c)
    PROVE  /\ k \in CallRecords
           /\ k.at \in {"fresh", "ended"}
           /\ k.bearer = None
           /\ k.spent \in {None, call[c].spent}
<1>1. CASE k = Over
  BY <1>1, BlankRecords, CallsBuiltAtFirst
<1>2. CASE k = Retried(call[c])
  BY <1>2, RecordsMade, CallsBuilt
<1>3. QED
  BY <1>1, <1>2 DEF Thrown

\* A quiet step moves its call.
LEMMA QuietMoves ==
    ASSUME TypeOK, NEW c \in Callers, Quiet(c)
    PROVE  /\ Untouched
           /\ call[c].at # "forgetting"
           /\ \E k : Moves(c, k) /\ Tells(c, k) /\ k.at # "forgetting"
<1>a. call[c].at # "forgetting"
  BY DEF Quiet, Begins, AnswersHeld, CannotRefresh, Answer, Unanswered, Repeats, Handles, Quits
<1>k. call[c] \in CallRecords
  BY DEF TypeOK, CallsTypeOK
<1>t. held.access \in Nat
  BY DEF TypeOK, TokenSets
<1> USE DEF Moves, Tells, Plain
<1>1. CASE Begins(c)
  BY <1>1, BlankRecords, CallsBuiltAtFirst DEF Begins
<1>2. CASE AnswersHeld(c)
  <2> DEFINE k == Got(call[c], held.access)
  <2>1. /\ k \in CallRecords /\ k.spent = call[c].spent
        /\ \/ k.at = "fresh" /\ k.bearer = call[c].bearer
           \/ k.at = "sent" /\ k.bearer = held.access
    BY <1>k, <1>t, GotMade
  <2>2. Becomes(c, k) /\ call[c].at = "fresh" /\ held.live /\ Untouched
    BY <1>2 DEF AnswersHeld
  <2> HIDE DEF k
  <2>3. QED
    BY <2>1, <2>2
<1>3. ASSUME NEW k \in Thrown(c), CannotRefresh(c, TRUE, k) 
      PROVE  Untouched /\ \E j : Moves(c, j) /\ Tells(c, j) /\ j.at # "forgetting"
  <2>1. /\ k \in CallRecords /\ k.at \in {"fresh", "ended"}
        /\ k.bearer = None /\ k.spent \in {None, call[c].spent}
    BY <1>k, ThrownMade
  <2>2. QED
    BY <1>3, <2>1 DEF CannotRefresh
<1>4. CASE (Answer(c) \/ Unanswered(c)) /\ Untouched
  <2>1. PICK v \in Statuses : call' = [call EXCEPT ![c].at = "handle", ![c].status = v]
    BY <1>4 DEF Answer, Unanswered, Verdicts, Statuses
  <2> DEFINE k == [call[c] EXCEPT !.at = "handle", !.status = v]
  <2>2. k \in CallRecords /\ k.at = "handle" /\ k.bearer = call[c].bearer /\ k.spent = call[c].spent
    BY <1>k DEF CallRecords, Places
  <2>3. Becomes(c, k)
    BY <2>1 DEF Becomes
  <2>4. QED
    BY <1>4, <2>2, <2>3 DEF Answer, Unanswered
<1>5. CASE Repeats(c)
  <2>1. Retried(call[c]) \in Thrown(c)
    BY DEF Thrown
  <2>2. QED
    BY <1>5, <1>k, <2>1, ThrownMade DEF Repeats, Handles
<1>6. CASE Quits(c)
  BY <1>6, BlankRecords, CallsBuiltAtFirst DEF Quits, Ends
<1>7. QED
  BY <1>a, <1>1, <1>2, <1>3, <1>4, <1>5, <1>6 DEF Quiet

\* So does a step of forget(), which leaves the call without a bearer.
LEMMA ForgetsMove ==
    ASSUME TypeOK, NEW c \in Callers, NEW t \in TokenSets,
           ForgetsAtOnce(c, t) \/ ForgetReads(c) \/ ForgetWrites(c, t)
    PROVE  /\ UNCHANGED <<providerVars, fresh, stored, lock>>
           /\ \E k : /\ Moves(c, k)
                     /\ \/ k.bearer = None /\ k.spent = call[c].bearer
                        \/ /\ ForgetWrites(c, t) /\ k.at = "fresh"
                           /\ k.bearer = call[c].bearer /\ k.spent = call[c].spent
<1>k. call[c] \in CallRecords
  BY DEF TypeOK, CallsTypeOK
<1> USE DEF Moves, Plain
<1>1. CASE ForgetsAtOnce(c, t)
  <2> DEFINE k == Unauthed(call[c])
  <2>1. k \in CallRecords /\ k.at = "fresh" /\ k.bearer = None /\ k.spent = call[c].bearer
    BY <1>k, RecordsMade, CallsBuilt
  <2>2. Becomes(c, k) /\ call[c].at = "handle" /\ UNCHANGED <<providerVars, fresh, stored, lock>>
    BY <1>1 DEF ForgetsAtOnce, Handles
  <2> HIDE DEF k
  <2>3. QED
    BY <2>1, <2>2
<1>2. CASE ForgetReads(c)
  <2> DEFINE u == Unauthed(call[c])
             k == [u EXCEPT !.at = "forgetting"]
  <2>1. u \in CallRecords /\ u.bearer = None /\ u.spent = call[c].bearer
    BY <1>k, RecordsMade, CallsBuilt
  <2> HIDE DEF u
  <2>2. k \in CallRecords /\ k.at = "forgetting" /\ k.bearer = u.bearer /\ k.spent = u.spent
    BY <2>1 DEF CallRecords, Places
  <2>3. QED
    BY <1>2, <2>1, <2>2 DEF ForgetReads, Handles, u
<1>3. CASE ForgetWrites(c, t)
  <2> DEFINE k == [call[c] EXCEPT !.at = "fresh"]
  <2>1. k \in CallRecords /\ k.at = "fresh" /\ k.bearer = call[c].bearer /\ k.spent = call[c].spent
    BY <1>k DEF CallRecords, Places
  <2>2. Becomes(c, k) /\ call[c].at = "forgetting"
    BY <1>3 DEF ForgetWrites, Goes, Becomes
  <2>3. UNCHANGED <<providerVars, fresh, stored, lock>>
    BY <1>3 DEF ForgetWrites
  <2>4. QED
    BY <1>3, <2>1, <2>2, <2>3
<1>4. QED
  BY <1>1, <1>2, <1>3
\* The initial states have the types the comments in LockedToken give.
LEMMA TypeInit == Init => TypeOK
<1> SUFFICES ASSUME Init PROVE TypeOK
  OBVIOUS
<1>1. CallsTypeOK
  BY CallsBuiltAtFirst DEF Init, CallsInit, CallsTypeOK
<1>2. held \in TokenSets /\ stored \in TokenSets /\ NoTokens \in TokenSets
  BY TokenSetsBuilt DEF Init
<1>3. QED
  BY <1>1, <1>2, ProviderTypeInit DEF Init, TypeOK

\* The calls that are broken off leave their tokens behind.
LEMMA BreaksOffTyped ==
    ASSUME TypeOK, NEW C \in SUBSET Callers, BreaksOff(C), held' \in TokenSets
    PROVE  TypeOK'
<1> USE DEF TypeOK, ProviderTypeOK
<1>1. wire' \in [Slots -> Wires]
  BY SlotPerCaller, WiresBuilt DEF BreaksOff
<1>2. orphans' \in SUBSET Nat
  <2>1. \A d \in C : wire[d].at = "out" => wire[d].refresh \in Nat
    BY SlotPerCaller, WireFields
  <2>2. QED
    BY <2>1 DEF BreaksOff
<1>3. CallsTypeOK'
  BY CallsBuiltAtFirst DEF BreaksOff, CallsTypeOK
<1>4. fresh' \in [Callers -> TokenSets] /\ copied' \in [Callers -> TokenSets]
  BY TokenSetsBuilt DEF BreaksOff
<1>5. cut' \in BOOLEAN /\ lock' \in SUBSET Callers
  BY DEF BreaksOff
<1>6. QED
  BY <1>1, <1>2, <1>3, <1>4, <1>5 DEF BreaksOff

\* A call that leaves the critical section takes its token set with it.
LEMMA LeavesTyped ==
    ASSUME TypeOK, NEW c \in Callers, NEW k \in CallRecords, Leaves(c, k)
    PROVE  /\ CallsTypeOK'
           /\ lock' \in SUBSET Callers
           /\ fresh' \in [Callers -> TokenSets]
           /\ copied' = copied
  BY BecomesTyped, TokenSetsBuilt DEF Leaves, TypeOK

\* Every shape of step keeps the types.
LEMMA LockedStepTyped ==
    ASSUME TypeOK, NEW c \in Callers, LockedStep(c)
    PROVE  TypeOK'
<1> USE DEF TypeOK, ProviderTypeOK
<1>k. call[c] \in CallRecords
  BY DEF CallsTypeOK
<1>t. held.access \in Nat /\ held.refresh \in Nat /\ fresh[c].access \in Nat
  BY DEF TokenSets
<1>1. CASE Quiet(c)
  <2>1. PICK k : Moves(c, k)
    BY <1>1, QuietMoves
  <2>2. CallsTypeOK' /\ Untouched
    BY <1>1, <2>1, QuietMoves, BecomesTyped DEF Moves
  <2>3. QED
    BY <2>2 DEF Untouched, providerVars, tokenVars
<1>2. ASSUME NEW k \in Thrown(c), RefreshFails(c, k) PROVE TypeOK'
  BY <1>2, <1>k, ThrownMade, LeavesTyped, WiresBuilt DEF RefreshFails, ReadsAnswer
<1>3. ASSUME NEW k \in Thrown(c), KeeperThrows(c, k) PROVE TypeOK'
  <2>1. cut' \in BOOLEAN
    BY <1>3 DEF KeeperThrows, FailsToStore
  <2>2. QED
    BY <1>3, <2>1, <1>k, ThrownMade, LeavesTyped DEF KeeperThrows, FailsToStore
<1>4. CASE BrokenOff(c)
  BY <1>4, BreaksOffTyped DEF BrokenOff
<1>5. CASE Takes(c) \/ TakesOn(c)
  <2>1. CallsTypeOK'
    BY <1>5, GoesTyped DEF Takes, TakesOn, Presents, Places
  <2>2. wire' \in [Slots -> Wires]
    BY <1>5, <1>t, WiresBuilt DEF Takes, TakesOn, Presents, providerVars
  <2>3. QED
    BY <1>5, <2>1, <2>2 DEF Takes, TakesOn, Presents, providerVars, tokenVars
<1>6. CASE Keeps(c)
  <2>1. Got(call[c], fresh[c].access) \in CallRecords
    BY <1>k, <1>t, GotMade
  <2>2. QED
    BY <1>6, <2>1, LeavesTyped DEF Keeps, Stores, providerVars
<1>u. ASSUME NEW k \in Thrown(c) \cup {Got(call[c], held.access)}, Unlocks(c, k) PROVE TypeOK'
  <2>1. k \in CallRecords
    BY <1>k, <1>t, GotMade, ThrownMade
  <2>2. QED
    BY <1>u, <2>1, LeavesTyped DEF Unlocks, providerVars
<1>7. ASSUME NEW t \in TokenSets, ForgetsAtOnce(c, t) \/ ForgetReads(c) \/ ForgetWrites(c, t)
      PROVE  TypeOK'
  <2>1. PICK k : Moves(c, k)
    BY <1>7, ForgetsMove
  <2>2. CallsTypeOK'
    BY <2>1, BecomesTyped DEF Moves
  <2>3. UNCHANGED <<providerVars, fresh, stored, lock>>
    BY <1>7, ForgetsMove
  <2>4. held' \in TokenSets /\ copied' \in [Callers -> TokenSets]
    BY <1>7, TokenSetsBuilt DEF ForgetsAtOnce, ForgetReads, ForgetWrites
  <2>5. QED
    BY <2>2, <2>3, <2>4 DEF providerVars
<1>8. ASSUME NEW t \in TokenSets, Adopts(c, t) PROVE TypeOK'
  <2>1. CallsTypeOK'
    BY <1>8, GoesTyped DEF Adopts, Places
  <2>2. QED
    BY <1>8, <2>1, WiresBuilt DEF Adopts, ReadsAnswer
<1>9. QED
  BY <1>1, <1>2, <1>3, <1>4, <1>5, <1>6, <1>u, <1>7, <1>8, TokenSetsBuilt
     DEF LockedStep, Common

\* And so do the clock, a crash, the provider and the api.
LEMMA WorldTyped == TypeOK /\ World => TypeOK'
<1> USE DEF TypeOK
<1>1. ASSUME TypeOK, Lapse PROVE TypeOK'
  BY <1>1, TokenSetsBuilt DEF Lapse, Expired, providerVars, ProviderTypeOK, CallsTypeOK
<1>2. ASSUME TypeOK, ProviderNext, UNCHANGED <<tokenVars, call>> PROVE TypeOK'
  BY <1>2, ProviderTypeStep DEF tokenVars, CallsTypeOK
<1>3. ASSUME TypeOK, Restart PROVE TypeOK'
  BY <1>3, BreaksOffTyped DEF Restart
<1>4. QED
  BY <1>1, <1>2, <1>3 DEF World
-----------------------------------------------------------------------------
(* The lock *)

\* Whoever is in the critical section has the lock, nobody else has, and token
\* requests are sent from there only.
LockInv ==
    /\ \A c \in Callers : call[c].at \notin Plain => c \in lock
    /\ \A c, d \in lock : c = d
    /\ \A c \in Callers : wire[c].at # "idle" => call[c].at = "refreshing"

\* What the keeper is told, and will be told, is no older than what it stored.
OrderInv ==
    /\ stored.access <= minted
    /\ \A c \in Callers : wire[c].at = "tokens" =>
        stored.access <= wire[c].access /\ wire[c].access <= minted
    /\ \A c \in Callers : call[c].at = "keeping" =>
        stored.access <= fresh[c].access /\ fresh[c].access <= minted

SafeInv == TypeOK /\ LockInv /\ OrderInv

\* It holds at the start.
LEMMA SafeInit == Init => SafeInv
<1> SUFFICES ASSUME Init PROVE LockInv /\ OrderInv
  BY TypeInit DEF SafeInv
<1>1. \A c \in Callers : call[c].at = "ended" /\ wire[c].at = "idle"
  BY BlankRecords, SlotPerCaller DEF Init, CallsInit, ProviderInit, Idle
<1>2. lock = {} /\ stored.access = 1 /\ minted = 1
  BY DEF Init, ProviderInit, GivenTokens, FirstTokens
<1>3. QED
  BY <1>1, <1>2 DEF LockInv, OrderInv, Plain

\* A call that moves outside the critical section leaves it to who is in it.
LEMMA MovesKeepLock ==
    ASSUME SafeInv, NEW c \in Callers, NEW k, Moves(c, k),
           UNCHANGED <<providerVars, fresh, stored, lock>>
    PROVE  LockInv' /\ OrderInv'
<1>1. call'[c].at \in Plain /\ call[c].at \in Plain /\ \A d \in Callers \ {c} : call'[d] = call[d]
  BY Became DEF SafeInv, TypeOK, Moves
<1>2. LockInv'
  BY <1>1 DEF SafeInv, LockInv, providerVars, Plain
<1>3. OrderInv'
  BY <1>1 DEF SafeInv, OrderInv, providerVars, Plain
<1>4. QED
  BY <1>2, <1>3

\* Where c has neither an answer to read nor the keeper to tell, and the others
\* are where they were, what was in order is in order.
LEMMA OrderFrame ==
    ASSUME OrderInv, NEW c \in Callers, UNCHANGED <<minted, stored>>,
           wire'[c].at # "tokens", call'[c].at # "keeping",
           \A d \in Callers \ {c} : /\ call'[d] = call[d] /\ wire'[d] = wire[d]
                                   /\ fresh'[d] = fresh[d]
    PROVE  OrderInv'
  BY DEF OrderInv

\* The lock is taken by one.
LEMMA TakesKeepLock ==
    ASSUME SafeInv, NEW c \in Callers, Takes(c) \/ TakesOn(c)
    PROVE  LockInv' /\ OrderInv'
<1>1. call'[c].at \in {"refreshing", "locked"} /\ \A d \in Callers \ {c} : call'[d] = call[d]
  BY DEF Takes, TakesOn, Presents, Goes, SafeInv, TypeOK, CallsTypeOK, CallRecords
<1>2. \A d \in Callers \ {c} : wire'[d] = wire[d]
  BY SlotPerCaller DEF Takes, TakesOn, Presents, SafeInv, TypeOK, ProviderTypeOK, providerVars
<1>3. wire'[c].at # "tokens" /\ (wire'[c].at # "idle" => call'[c].at = "refreshing")
  <2>1. CASE Presents(c)
    <3>1. wire'[c].at = "out"
      BY <2>1, SlotPerCaller DEF Presents, SafeInv, TypeOK, ProviderTypeOK, Asking
    <3>2. call'[c].at = "refreshing"
      BY <2>1 DEF Presents, Goes, SafeInv, TypeOK, CallsTypeOK, CallRecords
    <3>3. QED
      BY <3>1, <3>2
  <2>2. CASE Takes(c) /\ UNCHANGED providerVars
    BY <2>2 DEF Takes, SafeInv, LockInv, providerVars
  <2>3. QED
    BY <2>1, <2>2 DEF Takes, TakesOn
<1>4. lock' = {c} \/ (lock' = lock /\ c \in lock)
  BY DEF Takes, TakesOn, Free, SafeInv, LockInv, tokenVars, Plain
<1>5. LockInv'
  BY <1>1, <1>2, <1>3, <1>4 DEF SafeInv, LockInv, Plain, Takes, TakesOn, Free
<1>6. OrderInv'
  BY <1>1, <1>2, <1>3, OrderFrame
     DEF SafeInv, Takes, TakesOn, tokenVars, Presents, providerVars
<1>7. QED
  BY <1>5, <1>6

\* Who leaves the critical section has nothing on the wire.
LEMMA LeavesKeepLock ==
    ASSUME SafeInv, NEW c \in Callers, NEW k \in CallRecords, k.at \in Plain, Leaves(c, k),
           wire'[c].at = "idle", \A d \in Callers \ {c} : wire'[d] = wire[d]
    PROVE  LockInv'
<1>1. call'[c].at \in Plain /\ \A d \in Callers \ {c} : call'[d] = call[d]
  BY Became DEF SafeInv, TypeOK, Leaves
<1>2. lock' = lock \ {c}
  BY DEF Leaves
<1>3. QED
  BY <1>1, <1>2 DEF SafeInv, LockInv, Plain

\* The steps of the lock's holder.
LEMMA HolderKeepsLock ==
    ASSUME SafeInv, NEW c \in Callers,
           \/ \E k \in Thrown(c) : RefreshFails(c, k) \/ KeeperThrows(c, k)
           \/ \E k \in Thrown(c) \cup {Got(call[c], held.access)} : Unlocks(c, k)
           \/ \E t \in TokenSets : Adopts(c, t)
           \/ Keeps(c)
    PROVE  LockInv' /\ OrderInv' /\ stored'.access >= stored.access
<1>i. LockInv /\ OrderInv
  BY DEF SafeInv
<1>k. call[c] \in CallRecords /\ held.access \in Nat /\ fresh[c].access \in Nat
      /\ stored.access \in Nat
  BY DEF SafeInv, TypeOK, CallsTypeOK, TokenSets
<1>o. \A k : Leaves(c, k) => \A d \in Callers \ {c} : call'[d] = call[d] /\ fresh'[d] = fresh[d]
  BY DEF Leaves, Becomes, SafeInv, TypeOK, CallsTypeOK
<1>l. \A k : Leaves(c, k) => call'[c] = k
  BY DEF Leaves, Becomes, SafeInv, TypeOK, CallsTypeOK
<1>r. ReadsAnswer(c) => wire'[c].at = "idle" /\ \A d \in Callers \ {c} : wire'[d] = wire[d]
  BY SlotPerCaller DEF ReadsAnswer, SafeInv, TypeOK, ProviderTypeOK, Idle
<1>t. \A k \in Thrown(c) : k \in CallRecords /\ k.at \in Plain
  BY <1>k, ThrownMade DEF Plain
<1>g. \A a \in Nat : Got(call[c], a) \in CallRecords /\ Got(call[c], a).at \in Plain
  BY <1>k, GotMade DEF Plain
<1>1. ASSUME NEW k \in CallRecords, k.at \in Plain, RefreshFails(c, k)
      PROVE  LockInv' /\ OrderInv' /\ stored' = stored
  <2>1. LockInv'
    BY <1>1, <1>r, LeavesKeepLock DEF RefreshFails
  <2>2. call'[c].at # "keeping"
    BY <1>1, <1>l DEF RefreshFails, Plain
  <2>3. OrderInv'
    BY <1>1, <1>i, <1>r, <1>o, <2>2, OrderFrame DEF RefreshFails, ReadsAnswer
  <2>4. QED
    BY <1>1, <2>1, <2>3 DEF RefreshFails
<1>2. ASSUME NEW k \in CallRecords, k.at \in Plain, KeeperThrows(c, k) \/ Unlocks(c, k)
      PROVE  LockInv' /\ OrderInv' /\ stored' = stored
  <2>1. wire' = wire /\ stored' = stored /\ minted' = minted /\ Leaves(c, k)
    BY <1>2 DEF KeeperThrows, Unlocks, FailsToStore, providerVars
  <2>2. wire[c].at = "idle"
    BY <1>2, <1>i DEF KeeperThrows, Unlocks, LockInv
  <2>3. LockInv'
    BY <1>2, <2>1, <2>2, LeavesKeepLock
  <2>4. call'[c].at # "keeping"
    BY <1>2, <2>1, <1>l DEF Plain
  <2>5. OrderInv'
    BY <1>i, <1>o, <2>1, <2>2, <2>4, OrderFrame
  <2>6. QED
    BY <2>1, <2>3, <2>5
<1>3. ASSUME NEW t \in TokenSets, Adopts(c, t)
      PROVE  LockInv' /\ OrderInv' /\ stored' = stored
  <2>1. call'[c].at = "keeping" /\ \A d \in Callers \ {c} : call'[d] = call[d]
    BY <1>3 DEF Adopts, Goes, SafeInv, TypeOK, CallsTypeOK, CallRecords
  <2>2. fresh'[c] = t /\ \A d \in Callers \ {c} : fresh'[d] = fresh[d]
    BY <1>3 DEF Adopts, SafeInv, TypeOK
  <2>3. UNCHANGED <<minted, stored, lock>>
    BY <1>3 DEF Adopts, ReadsAnswer
  <2>4. stored.access <= t.access /\ t.access <= minted
    BY <1>3, <1>i DEF Adopts, OrderInv
  <2>5. OrderInv'
    BY <1>3, <1>i, <1>r, <2>1, <2>2, <2>3, <2>4 DEF OrderInv, Adopts
  <2>6. LockInv'
    BY <1>3, <1>i, <1>r, <2>1, <2>3 DEF LockInv, Plain, Adopts
  <2>7. QED
    BY <2>3, <2>5, <2>6
<1>4. CASE Keeps(c)
  <2>1. wire' = wire /\ stored' = fresh[c] /\ minted' = minted
    BY <1>4 DEF Keeps, Stores, providerVars
  <2>2. \A d \in Callers : wire[d].at = "idle" /\ (d # c => call[d].at # "keeping")
    BY <1>4, <1>i DEF Keeps, LockInv, Plain
  <2>3. LockInv'
    BY <1>4, <1>k, <1>g, <2>1, <2>2, LeavesKeepLock DEF Keeps
  <2>4. call'[c].at # "keeping" /\ \A d \in Callers \ {c} : call'[d] = call[d]
    BY <1>4, <1>k, <1>g, <1>l, <1>o DEF Keeps, Plain
  <2>5. stored.access <= fresh[c].access /\ fresh[c].access <= minted
    BY <1>4, <1>i DEF Keeps, OrderInv
  <2>6. OrderInv'
    BY <2>1, <2>2, <2>4, <2>5 DEF OrderInv
  <2>7. QED
    BY <1>k, <2>1, <2>3, <2>5, <2>6
<1>5. QED
  BY <1>k, <1>t, <1>g, <1>1, <1>2, <1>3, <1>4

\* The calls that are broken off leave the lock, and the wire.
LEMMA BreaksOffKeepsLock ==
    ASSUME SafeInv, NEW C \in SUBSET Callers, BreaksOff(C)
    PROVE  LockInv' /\ OrderInv' /\ stored' = stored
<1>1. \A d \in Callers : IF d \in C THEN call'[d].at = "ended" /\ wire'[d].at = "idle"
        ELSE call'[d] = call[d] /\ wire'[d] = wire[d] /\ fresh'[d] = fresh[d]
  BY BlankRecords, SlotPerCaller DEF BreaksOff, Idle
<1>2. lock' = lock \ C /\ minted' = minted /\ stored' = stored
  BY DEF BreaksOff
<1>3. LockInv'
  BY <1>1, <1>2 DEF SafeInv, LockInv, Plain
<1>4. OrderInv'
  BY <1>1, <1>2 DEF SafeInv, OrderInv
<1>5. QED
  BY <1>2, <1>3, <1>4

\* Whatever a library does, and the world around it, the lock is kept, and the
\* keeper is told in order.
LEMMA SafeStep ==
    ASSUME SafeInv, World \/ \E c \in Callers : LockedStep(c)
    PROVE  SafeInv' /\ stored'.access >= stored.access
<1> SUFFICES LockInv' /\ OrderInv' /\ stored'.access >= stored.access
  BY LockedStepTyped, WorldTyped DEF SafeInv
<1>n. stored.access \in Nat /\ minted \in Nat
  BY DEF SafeInv, TypeOK, TokenSets, ProviderTypeOK
<1>1. ASSUME NEW c \in Callers, LockedStep(c)
      PROVE  LockInv' /\ OrderInv' /\ stored'.access >= stored.access
  <2>1. CASE Quiet(c)
    <3>1. PICK k : Moves(c, k)
      BY <2>1, QuietMoves DEF SafeInv
    <3>2. UNCHANGED <<providerVars, fresh, stored, lock>>
      BY <2>1, QuietMoves DEF SafeInv, Untouched, tokenVars
    <3>3. QED
      BY <1>n, <3>1, <3>2, MovesKeepLock
  <2>2. ASSUME NEW t \in TokenSets, ForgetsAtOnce(c, t) \/ ForgetReads(c) \/ ForgetWrites(c, t)
        PROVE  LockInv' /\ OrderInv' /\ stored' = stored
    <3>1. PICK k : Moves(c, k)
      BY <2>2, ForgetsMove DEF SafeInv
    <3>2. UNCHANGED <<providerVars, fresh, stored, lock>>
      BY <2>2, ForgetsMove DEF SafeInv
    <3>3. QED
      BY <3>1, <3>2, MovesKeepLock
  <2>3. CASE Takes(c) \/ TakesOn(c)
    BY <1>n, <2>3, TakesKeepLock DEF Takes, TakesOn, tokenVars
  <2>4. CASE BrokenOff(c)
    BY <1>n, <2>4, BreaksOffKeepsLock DEF BrokenOff
  <2>5. QED
    BY <1>1, <1>n, <2>1, <2>2, <2>3, <2>4, HolderKeepsLock, TokenSetsBuilt DEF LockedStep, Common
<1>2. CASE Lapse
  <2>1. UNCHANGED <<providerVars, fresh, stored, lock, call>>
    BY <1>2 DEF Lapse
  <2>2. LockInv' /\ OrderInv'
    BY <2>1 DEF SafeInv, LockInv, OrderInv, providerVars
  <2>3. QED
    BY <1>n, <2>1, <2>2
<1>3. CASE ProviderNext /\ UNCHANGED <<tokenVars, call>>
  <2>a. minted' \in {minted, minted + 1} /\ \A d \in Callers : Answered(d)
    BY <1>3, ProviderAnswers, SlotPerCaller DEF SafeInv, TypeOK
  <2>u. UNCHANGED <<call, fresh, stored, lock>>
    BY <1>3 DEF tokenVars
  <2>1. LockInv'
    BY <2>a, <2>u DEF SafeInv, LockInv, Answered
  <2>2. OrderInv'
    <3>1. stored.access <= minted /\ minted <= minted' /\ minted' \in Nat
      BY <1>n, <2>a DEF SafeInv, OrderInv
    <3>2. ASSUME NEW d \in Callers, wire'[d].at = "tokens"
          PROVE  stored.access <= wire'[d].access /\ wire'[d].access <= minted'
      <4>1. CASE wire'[d] = wire[d]
        <5>1. wire[d].access \in Nat
          BY <3>2, <4>1, WireFields, SlotPerCaller DEF SafeInv, TypeOK, ProviderTypeOK
        <5>2. QED
          BY <1>n, <3>1, <3>2, <4>1, <5>1 DEF SafeInv, OrderInv
      <4>2. CASE wire'[d].access = minted + 1 /\ minted' = minted + 1
        BY <1>n, <3>1, <4>2
      <4>3. QED
        BY <2>a, <3>2, <4>1, <4>2 DEF Answered
    <3>3. ASSUME NEW d \in Callers, call[d].at = "keeping"
          PROVE  stored.access <= fresh[d].access /\ fresh[d].access <= minted'
      <4>1. fresh[d].access \in Nat
        BY DEF SafeInv, TypeOK, TokenSets
      <4>2. QED
        BY <1>n, <3>1, <3>3, <4>1 DEF SafeInv, OrderInv
    <3>4. QED
      BY <1>n, <2>u, <3>1, <3>2, <3>3 DEF OrderInv
  <2>3. QED
    BY <1>3, <1>n, <2>1, <2>2 DEF tokenVars
<1>4. CASE Restart
  BY <1>4, <1>n, BreaksOffKeepsLock DEF Restart
<1>5. QED
  BY <1>1, <1>2, <1>3, <1>4 DEF World
-----------------------------------------------------------------------------
(* What every library keeps *)

\* What an answer gives, whichever refresh token counts as the presented one.
LEMMA AnswersAlike ==
    ASSUME TypeOK, NEW c \in Callers, wire[c].at = "tokens",
           NEW a \in {wire[c], [wire[c] EXCEPT !.asked = held.refresh]}
    PROVE  /\ Adopted(a) \in TokenSets
           /\ Adopted(a).access = wire[c].access
           /\ wire[c].asked = held.refresh => Adopted(a) = Adopted(wire[c])
<1>w. wire[c] \in Wires /\ held.refresh \in Nat
  BY SlotPerCaller DEF TypeOK, ProviderTypeOK, TokenSets
<1>1. /\ wire[c].at = "tokens" /\ wire[c].access \in Nat
      /\ wire[c].refresh \in Nat /\ wire[c].asked \in Nat
  BY <1>w, WireFields
<1>2. wire[c] \in [at : {"tokens"}, access : Nat, refresh : Nat, asked : Nat]
  BY <1>w, <1>1 DEF Wires, Idle, Refused, Broken
<1>3. /\ a.access = wire[c].access /\ a.refresh = wire[c].refresh /\ a.asked \in Nat
      /\ wire[c].asked = held.refresh => a.asked = wire[c].asked
  BY <1>w, <1>2
<1>4. QED
  BY <1>1, <1>3 DEF Adopted, TokenSets

\* What all but Rust have alike is among the steps of all.
LEMMA UsualIsLocked ==
    ASSUME TypeOK, NEW c \in Callers, Usual(c)
    PROVE  LockedStep(c)
<1>1. ASSUME NEW a \in {wire[c], [wire[c] EXCEPT !.asked = held.refresh]},
             AdoptsFirst(c, Adopted(a))
      PROVE  \E t \in TokenSets : Adopts(c, t)
  BY <1>1, AnswersAlike DEF AdoptsFirst, Adopts
<1>2. CASE Refreshes(c, Free)
  BY <1>2 DEF Refreshes, LockedStep, Takes
<1>3. CASE KeeperStores(c)
  BY <1>3 DEF KeeperStores, LockedStep, Keeps
<1>4. QED
  BY <1>1, <1>2, <1>3 DEF Usual, LockedStep

\* And so is what the adopters have alike.
LEMMA AdopterIsLocked ==
    ASSUME TypeOK, NEW c \in Callers, AdopterStep(c)
    PROVE  LockedStep(c)
<1>1. Expired(held) \in TokenSets /\ held \in TokenSets
  BY TokenSetsBuilt DEF TypeOK, Expired
<1>2. QED
  BY <1>1, UsualIsLocked DEF AdopterStep, LockedStep

\* Every step of every library is one of them.
LEMMA EveryStep ==
    ASSUME TypeOK, Next
    PROVE  World \/ \E c \in Callers : LockedStep(c)
<1>1. PICK l \in Libraries :
        \/ Cpp(l)!Next \/ Cs(l)!Next \/ Kt(l)!Next \/ Rs(l)!Next
        \/ Py(l, {})!Next \/ Py(l, Callers)!Next
  BY Zenon DEF Next
<1>2. CASE Cs(l)!Next
  <2>1. \A c \in Callers : Expired(copied[c]) \in TokenSets
    BY TokenSetsBuilt DEF TypeOK, Expired
  <2>2. QED
    BY <1>2, <2>1, CsSteps, UsualIsLocked DEF LockedStep
<1>3. CASE Rs(l)!Next
  <2>1. held \in TokenSets /\ Expired(held) \in TokenSets
    BY TokenSetsBuilt DEF TypeOK, Expired
  <2>2. ASSUME NEW c \in Callers, Adopts(c, Adopted(wire[c]))
        PROVE  \E t \in TokenSets : Adopts(c, t)
    BY <2>2, WireFields, SlotPerCaller DEF TypeOK, ProviderTypeOK, Adopts
  <2>3. QED
    BY <1>3, <2>1, <2>2, RsSteps DEF LockedStep, RustStep
<1>4. CASE Cpp(l)!Next \/ Kt(l)!Next \/ Py(l, {})!Next \/ Py(l, Callers)!Next
  <2>1. World \/ \E c \in Callers : AdopterStep(c)
    BY <1>4, CppSteps, KtSteps, PySteps
  <2>2. QED
    BY <2>1, AdopterIsLocked
<1>5. QED
  BY <1>1, <1>2, <1>3, <1>4

\* The invariant is inductive, and no step stores anything older.
LEMMA SafeNext == SafeInv /\ [Next]_clientVars => SafeInv' /\ stored'.access >= stored.access
<1>1. SafeInv /\ Next => SafeInv' /\ stored'.access >= stored.access
  BY EveryStep, SafeStep DEF SafeInv
<1>2. ASSUME SafeInv, UNCHANGED clientVars PROVE SafeInv' /\ stored'.access >= stored.access
  <2>1. UNCHANGED <<providerVars, tokenVars, call>>
    BY <1>2 DEF clientVars, vars
  <2>2. LockInv' /\ OrderInv' /\ TypeOK'
    BY <1>2, <2>1 DEF SafeInv, LockInv, OrderInv, TypeOK, ProviderTypeOK, CallsTypeOK,
       providerVars, tokenVars
  <2>3. stored'.access = stored.access /\ stored.access \in Nat
    BY <1>2, <2>1 DEF tokenVars, SafeInv, TypeOK, TokenSets
  <2>4. QED
    BY <2>2, <2>3 DEF SafeInv
<1>3. QED
  BY <1>1, <1>2

\* In all six ways of locking, every variable keeps its type.
THEOREM TypeCorrect == Spec => []TypeOK
<1>1. ClientsInit => SafeInv
  BY SafeInit DEF ClientsInit
<1>2. SafeInv => TypeOK
  BY DEF SafeInv
<1>3. QED
  BY <1>1, <1>2, SafeNext, PTL DEF Spec

\* In all six, no two token requests are ever under way together, however many
\* callers find the token expired.
THEOREM RefreshesOneAtATime == Spec => []OneRefresh
<1>1. ClientsInit => SafeInv
  BY SafeInit DEF ClientsInit
<1>2. SafeInv => OneRefresh
  BY DEF SafeInv, LockInv, OneRefresh, Plain
<1>3. QED
  BY <1>1, <1>2, SafeNext, PTL DEF Spec

\* In all six, what the keeper last stored is never replaced by something older.
THEOREM KeepsInOrder == Spec => KeptInOrder
<1>1. ClientsInit => SafeInv
  BY SafeInit DEF ClientsInit
<1>2. SafeInv /\ [Next]_clientVars => [stored'.access >= stored.access]_stored
  BY SafeNext
<1>3. QED
  BY <1>1, <1>2, SafeNext, PTL DEF Spec, KeptInOrder
-----------------------------------------------------------------------------
(* The libraries that adopt a token set before they keep it *)

\* The token whose 401 used up c's refresh is not answered again: it is replaced
\* or expired, or c has yet to expire the very token set it has read.
SpentIsGone(c) ==
    call[c].spent # None /\ call[c].spent = held.access /\ held.live
        => call[c].at = "forgetting" /\ copied[c].access = held.access

\* Nobody has a newer access token than the one in use, what is under way was
\* presented with the refresh token held now and brings something newer, and
\* what the keeper is told of is in use.
AdopterInv ==
    /\ held.access <= minted
    /\ \A c \in Callers : call[c].bearer <= held.access /\ call[c].spent <= held.access
    /\ \A c \in Callers : wire[c].at = "out" => wire[c].refresh = held.refresh
    /\ \A c \in Callers : wire[c].at = "tokens" =>
        held.access < wire[c].access /\ wire[c].asked = held.refresh
    /\ \A c \in Callers : call[c].at = "keeping" =>
        fresh[c].access = held.access /\ call[c].spent < held.access
    /\ \A c \in Callers : SpentIsGone(c)
    /\ RetriesWithAnother

\* At the start there is nothing to retry or to adopt.
LEMMA AdopterInit == Init => AdopterInv
<1> SUFFICES ASSUME Init PROVE AdopterInv
  OBVIOUS
<1>1. \A c \in Callers : /\ call[c].at = "ended" /\ wire[c].at = "idle"
                         /\ call[c].bearer = None /\ call[c].spent = None
  BY BlankRecords, SlotPerCaller DEF Init, CallsInit, ProviderInit, Idle
<1>2. held.access = 1 /\ minted = 1
  BY DEF Init, ProviderInit, GivenTokens, FirstTokens
<1>3. QED
  BY <1>1, <1>2 DEF AdopterInv, SpentIsGone, RetriesWithAnother, None

\* Where only c's call changes, and only its own part has to be looked at.
LEMMA AdopterFrame ==
    ASSUME TypeOK, AdopterInv, NEW c \in Callers, NEW k \in CallRecords,
           call'[c] = k, held' = held, minted' = minted,
           k.at # "keeping", k.at # "forgetting",
           k.bearer <= held.access, k.spent <= held.access,
           k.spent # None /\ k.spent = held.access => ~held.live,
           k.spent # None /\ k.bearer # None => k.bearer # k.spent,
           wire'[c] = wire[c] \/ wire'[c].at \in {"idle", "refused", "broken"}
              \/ (wire'[c].at = "out" /\ wire'[c].refresh = held.refresh),
           \A d \in Callers \ {c} : /\ call'[d] = call[d] /\ wire'[d] = wire[d]
                                   /\ fresh'[d] = fresh[d] /\ copied'[d] = copied[d]
    PROVE  AdopterInv'
<1>1. (/\ held.access <= minted
       /\ \A d \in Callers : call[d].bearer <= held.access /\ call[d].spent <= held.access)'
  BY DEF AdopterInv
<1>2. (\A d \in Callers : wire[d].at = "out" => wire[d].refresh = held.refresh)'
  BY DEF AdopterInv
<1>3. (\A d \in Callers : wire[d].at = "tokens" =>
        held.access < wire[d].access /\ wire[d].asked = held.refresh)'
  BY DEF AdopterInv
<1>4. (\A d \in Callers : call[d].at = "keeping" =>
        fresh[d].access = held.access /\ call[d].spent < held.access)'
  BY DEF AdopterInv
<1>5. (\A d \in Callers : SpentIsGone(d))'
  BY DEF AdopterInv, SpentIsGone
<1>6. RetriesWithAnother'
  BY DEF AdopterInv, RetriesWithAnother
<1>7. QED
  BY <1>1, <1>2, <1>3, <1>4, <1>5, <1>6 DEF AdopterInv
\* A call that moves without forgetting anything.
LEMMA QuietKeepsAdopter ==
    ASSUME SafeInv, AdopterInv, NEW c \in Callers, Quiet(c)
    PROVE  AdopterInv'
<1>1. PICK k : Moves(c, k) /\ Tells(c, k) /\ k.at # "forgetting"
  BY QuietMoves DEF SafeInv
<1>2. call[c].at # "forgetting" /\ UNCHANGED <<minted, wire, held, fresh, copied>>
  BY QuietMoves DEF SafeInv, Untouched, tokenVars, providerVars
<1>3. call'[c] = k /\ \A d \in Callers \ {c} : call'[d] = call[d]
  BY <1>1, Became DEF SafeInv, TypeOK, Moves
<1>4. /\ call[c].bearer <= held.access /\ call[c].spent <= held.access
      /\ call[c].spent # None /\ call[c].spent = held.access => ~held.live
      /\ call[c].spent # None /\ call[c].bearer # None => call[c].bearer # call[c].spent
  BY <1>2 DEF AdopterInv, SpentIsGone, RetriesWithAnother
<1>5. held.access \in Nat
  BY DEF SafeInv, TypeOK, TokenSets
<1>6. /\ k.bearer <= held.access /\ k.spent <= held.access
      /\ k.spent # None /\ k.spent = held.access => ~held.live
      /\ k.spent # None /\ k.bearer # None => k.bearer # k.spent
  BY <1>1, <1>4, <1>5 DEF Tells, None
<1>7. k \in CallRecords /\ k.at # "keeping"
  BY <1>1 DEF Moves, Plain
<1>8. QED
  BY <1>1, <1>2, <1>3, <1>6, <1>7, AdopterFrame DEF SafeInv

\* Neither a refresh that begins nor one that fails makes a difference.
LEMMA RefreshKeepsAdopter ==
    ASSUME SafeInv, AdopterInv, NEW c \in Callers,
           \/ Refreshes(c, Free)
           \/ \E k \in Thrown(c) : RefreshFails(c, k) \/ KeeperThrows(c, k)
    PROVE  AdopterInv'
<1>k. call[c] \in CallRecords /\ held.access \in Nat
  BY DEF SafeInv, TypeOK, CallsTypeOK, TokenSets
<1>a. ASSUME call[c].at # "forgetting"
      PROVE  /\ call[c].bearer <= held.access /\ call[c].spent <= held.access
             /\ call[c].spent # None /\ call[c].spent = held.access => ~held.live
             /\ call[c].spent # None /\ call[c].bearer # None => call[c].bearer # call[c].spent
  BY <1>a DEF AdopterInv, SpentIsGone, RetriesWithAnother
<1>1. CASE Refreshes(c, Free)
  <2> DEFINE k == [call[c] EXCEPT !.at = "refreshing"]
  <2>1. k \in CallRecords /\ k.at = "refreshing" /\ k.bearer = call[c].bearer /\ k.spent = call[c].spent
    BY <1>k DEF CallRecords, Places
  <2>2. call'[c] = k /\ \A d \in Callers \ {c} : call'[d] = call[d]
    BY <1>1 DEF Refreshes, Presents, Goes, SafeInv, TypeOK, CallsTypeOK
  <2>3. wire'[c].at = "out" /\ wire'[c].refresh = held.refresh
        /\ \A d \in Callers \ {c} : wire'[d] = wire[d]
    BY <1>1, SlotPerCaller DEF Refreshes, Presents, SafeInv, TypeOK, ProviderTypeOK, Asking
  <2>4. UNCHANGED <<held, fresh, copied, minted>> /\ call[c].at = "fresh"
    BY <1>1 DEF Refreshes, Presents
  <2> HIDE DEF k
  <2>5. QED
    BY <1>a, <2>1, <2>2, <2>3, <2>4, AdopterFrame DEF SafeInv
<1>2. ASSUME NEW k \in Thrown(c), RefreshFails(c, k) \/ KeeperThrows(c, k)
      PROVE  AdopterInv'
  <2>1. /\ k \in CallRecords /\ k.at \in {"fresh", "ended"} /\ k.bearer = None
        /\ k.spent \in {None, call[c].spent}
    BY <1>k, ThrownMade
  <2>2. UNCHANGED <<held, minted>> /\ Leaves(c, k)
    BY <1>2 DEF RefreshFails, KeeperThrows, ReadsAnswer, FailsToStore
  <2>3. /\ call'[c] = k /\ \A d \in Callers \ {c} : call'[d] = call[d] /\ fresh'[d] = fresh[d]
        /\ copied' = copied
    BY <2>2, Became DEF Leaves, SafeInv, TypeOK
  <2>4. (wire'[c].at = "idle" \/ wire'[c] = wire[c]) /\ \A d \in Callers \ {c} : wire'[d] = wire[d]
    BY <1>2, SlotPerCaller DEF RefreshFails, KeeperThrows, ReadsAnswer, FailsToStore, SafeInv,
       TypeOK, ProviderTypeOK, Idle
  <2>5. call[c].at # "forgetting"
    BY <1>2 DEF RefreshFails, KeeperThrows
  <2>6. 0 <= held.access
    BY <1>k
  <2>7. k.bearer <= held.access /\ k.spent <= held.access
    BY <1>a, <2>1, <2>5, <2>6 DEF None
  <2>8. k.spent # None /\ k.spent = held.access => ~held.live
    BY <1>a, <2>1, <2>5
  <2>9. QED
    BY <2>1, <2>2, <2>3, <2>4, <2>7, <2>8, AdopterFrame DEF SafeInv
<1>3. QED
  BY <1>1, <1>2

\* The new token set is newer than any that a call has seen.
LEMMA AdoptsKeepsAdopter ==
    ASSUME SafeInv, AdopterInv, NEW c \in Callers,
           NEW a \in {wire[c], [wire[c] EXCEPT !.asked = held.refresh]},
           AdoptsFirst(c, Adopted(a))
    PROVE  AdopterInv'
<1>1. /\ held'.access = wire[c].access /\ fresh'[c].access = wire[c].access
      /\ call[c].at = "refreshing" /\ minted' = minted
  <2>1. Adopted(a).access = wire[c].access
    BY AnswersAlike DEF AdoptsFirst, SafeInv
  <2>2. QED
    BY <2>1 DEF AdoptsFirst, ReadsAnswer, SafeInv, TypeOK
<1>2. /\ call'[c].at = "keeping" /\ call'[c].bearer = call[c].bearer
      /\ call'[c].spent = call[c].spent
      /\ \A d \in Callers \ {c} : call'[d] = call[d]
  BY DEF AdoptsFirst, Goes, SafeInv, TypeOK, CallsTypeOK, CallRecords
<1>3. \A d \in Callers : wire'[d].at = "idle"
  BY <1>1, SlotPerCaller
     DEF AdoptsFirst, ReadsAnswer, Idle, SafeInv, LockInv, Plain, TypeOK, ProviderTypeOK
<1>4. \A d \in Callers \ {c} : call[d].at # "keeping"
  BY <1>1 DEF SafeInv, LockInv, Plain
<1>5. held.access < wire[c].access /\ wire[c].access <= minted /\ wire[c].access \in Nat
  BY SlotPerCaller, WireFields
     DEF AdoptsFirst, AdopterInv, SafeInv, OrderInv, TypeOK, ProviderTypeOK
<1>6. \A d \in Callers : call[d].bearer <= held.access /\ call[d].spent <= held.access
  BY DEF AdopterInv
<1>7. \A d \in Callers : call[d].bearer \in Nat /\ call[d].spent \in Nat /\ held.access \in Nat
  BY DEF SafeInv, TypeOK, CallsTypeOK, CallRecords, TokenSets
<1>8. \A d \in Callers : call'[d].bearer < held'.access /\ call'[d].spent < held'.access
  <2>1. ASSUME NEW d \in Callers
        PROVE  call'[d].bearer < held'.access /\ call'[d].spent < held'.access
    <3>1. call'[d].bearer = call[d].bearer /\ call'[d].spent = call[d].spent
      BY <1>2
    <3>2. QED
      BY <1>1, <1>5, <1>6, <1>7, <3>1
  <2>2. QED
    BY <2>1
<1>9. RetriesWithAnother'
  BY <1>2 DEF AdopterInv, RetriesWithAnother
<1>n. \A d \in Callers : call'[d].bearer \in Nat /\ call'[d].spent \in Nat /\ held'.access \in Nat
  BY <1>1, <1>2, <1>5, <1>7
<1>10. (\A d \in Callers : call[d].bearer <= held.access /\ call[d].spent <= held.access)'
  BY <1>8, <1>n
<1>11. (\A d \in Callers : call[d].at = "keeping" =>
         fresh[d].access = held.access /\ call[d].spent < held.access)'
  BY <1>1, <1>2, <1>4, <1>8
<1>12. (\A d \in Callers : SpentIsGone(d))'
  BY <1>8, <1>n DEF SpentIsGone
<1>13. QED
  BY <1>1, <1>3, <1>5, <1>9, <1>10, <1>11, <1>12 DEF AdopterInv

\* The keeper has stored what is in use already.
LEMMA KeptKeepsAdopter ==
    ASSUME SafeInv, AdopterInv, NEW c \in Callers, KeeperStores(c)
    PROVE  AdopterInv'
<1>1. UNCHANGED <<held, minted, wire, copied>> /\ call[c].at = "keeping"
  BY DEF KeeperStores, Stores, Leaves, providerVars
<1>2. fresh[c].access = held.access /\ call[c].spent < held.access /\ call[c].bearer <= held.access
  BY <1>1 DEF AdopterInv
<1>3. call[c] \in CallRecords /\ held.access \in Nat
  BY DEF SafeInv, TypeOK, CallsTypeOK, TokenSets
<1>4. call[c].spent \in Nat
  BY <1>3 DEF CallRecords
<1> DEFINE k == Got(call[c], fresh[c].access)
<1>5. k \in CallRecords /\ k.at # "keeping" /\ k.at # "forgetting" /\ k.spent = call[c].spent
      /\ (k.bearer = call[c].bearer \/ k.bearer = held.access)
  BY <1>2, <1>3, GotMade
<1>6. /\ call'[c] = k
      /\ \A d \in Callers \ {c} : call'[d] = call[d] /\ fresh'[d] = fresh[d]
  BY Became DEF KeeperStores, Leaves, SafeInv, TypeOK
<1> HIDE DEF k
<1>7. k.spent # held.access /\ k.spent <= held.access
  BY <1>2, <1>3, <1>4, <1>5
<1>8. call[c].spent # None /\ call[c].bearer # None => call[c].bearer # call[c].spent
  BY DEF AdopterInv, RetriesWithAnother
<1>9. k.bearer <= held.access
  BY <1>2, <1>3, <1>5
<1>10. k.spent # None /\ k.bearer # None => k.bearer # k.spent
  BY <1>5, <1>7, <1>8
<1>11. QED
  BY <1>1, <1>5, <1>6, <1>7, <1>9, <1>10, AdopterFrame DEF SafeInv

\* A 401 leaves the token expired, or its own call about to expire it.
LEMMA ForgetKeepsAdopter ==
    ASSUME SafeInv, AdopterInv, NEW c \in Callers,
           ForgetsAtOnce(c, Expired(held)) \/ ForgetReads(c)
    PROVE  AdopterInv'
<1>k. call[c] \in CallRecords /\ held \in TokenSets /\ copied \in [Callers -> TokenSets]
  BY DEF SafeInv, TypeOK, CallsTypeOK
<1> DEFINE u == Unauthed(call[c])
<1>u. u \in CallRecords /\ u.at = "fresh" /\ u.bearer = None /\ u.spent = call[c].bearer
  BY <1>k, RecordsMade, CallsBuilt
<1>b. call[c].bearer <= held.access /\ 0 <= held.access /\ held.access \in Nat
  BY <1>k DEF AdopterInv, TokenSets
<1> HIDE DEF u
<1>1. CASE ForgetsAtOnce(c, Expired(held))
  <2>1. call'[c] = u /\ \A d \in Callers \ {c} : call'[d] = call[d]
    BY <1>1, Became DEF ForgetsAtOnce, SafeInv, TypeOK, u
  <2>2. UNCHANGED <<minted, wire, fresh, copied>>
    BY <1>1 DEF ForgetsAtOnce, providerVars
  <2>3. held'.access = held.access /\ held'.refresh = held.refresh /\ ~held'.live
    BY <1>1, <1>k DEF ForgetsAtOnce, Expired, TokenSets
  <2>4. \A d \in Callers : call'[d].bearer <= held'.access /\ call'[d].spent <= held'.access
    BY <1>u, <1>b, <2>1, <2>3 DEF AdopterInv, None
  <2>5. RetriesWithAnother'
    BY <1>u, <2>1 DEF AdopterInv, RetriesWithAnother
  <2>6. (\A d \in Callers : SpentIsGone(d))'
    BY <2>3 DEF SpentIsGone
  <2>7. (\A d \in Callers : call[d].at = "keeping" =>
          fresh[d].access = held.access /\ call[d].spent < held.access)'
    BY <1>u, <2>1, <2>2, <2>3 DEF AdopterInv
  <2>8. QED
    BY <2>2, <2>3, <2>4, <2>5, <2>6, <2>7 DEF AdopterInv
<1>2. CASE ForgetReads(c)
  <2> DEFINE k == [u EXCEPT !.at = "forgetting"]
  <2>1. k.at = "forgetting" /\ k.bearer = None /\ k.spent = call[c].bearer
    BY <1>u DEF CallRecords
  <2>2. call'[c] = k /\ \A d \in Callers \ {c} : call'[d] = call[d] /\ copied'[d] = copied[d]
    BY <1>2, <1>k, Became DEF ForgetReads, SafeInv, TypeOK, u
  <2>3. UNCHANGED <<minted, wire, fresh, held>> /\ copied'[c] = held
    BY <1>2, <1>k DEF ForgetReads, providerVars
  <2> HIDE DEF k
  <2>4. \A d \in Callers : call'[d].bearer <= held'.access /\ call'[d].spent <= held'.access
    BY <1>b, <2>1, <2>2, <2>3 DEF AdopterInv, None
  <2>5. RetriesWithAnother'
    BY <2>1, <2>2 DEF AdopterInv, RetriesWithAnother
  <2>6. (\A d \in Callers : SpentIsGone(d))'
    BY <2>1, <2>2, <2>3 DEF AdopterInv, SpentIsGone
  <2>7. (\A d \in Callers : call[d].at = "keeping" =>
          fresh[d].access = held.access /\ call[d].spent < held.access)'
    BY <2>1, <2>2, <2>3 DEF AdopterInv
  <2>8. QED
    BY <2>3, <2>4, <2>5, <2>6, <2>7 DEF AdopterInv
<1>3. QED
  BY <1>1, <1>2

\* forget() expires the token set it has read, unless that was replaced.
LEMMA WriteKeepsAdopter ==
    ASSUME SafeInv, AdopterInv, NEW c \in Callers, NEW t \in {held, Expired(held)},
           held.access = copied[c].access => t = Expired(held),
           ForgetWrites(c, t)
    PROVE  AdopterInv'
<1>k. call[c] \in CallRecords /\ held \in TokenSets
  BY DEF SafeInv, TypeOK, CallsTypeOK
<1>1. call'[c].at = "fresh" /\ call'[c].bearer = call[c].bearer /\ call'[c].spent = call[c].spent
      /\ call[c].at = "forgetting"
  BY <1>k DEF ForgetWrites, Goes, CallRecords, SafeInv, TypeOK, CallsTypeOK
<1>2. \A d \in Callers \ {c} : call'[d] = call[d] /\ copied'[d] = copied[d]
  BY DEF ForgetWrites, Goes, SafeInv, TypeOK, CallsTypeOK
<1>3. UNCHANGED <<minted, wire, fresh>>
  BY DEF ForgetWrites, providerVars
<1>4. /\ held'.access = held.access /\ held'.refresh = held.refresh
      /\ held'.live => held.live /\ held.access # copied[c].access
  <2>1. held' = t
    BY DEF ForgetWrites
  <2>2. Expired(held).access = held.access /\ Expired(held).refresh = held.refresh
        /\ ~Expired(held).live
    BY <1>k DEF Expired, TokenSets
  <2>3. QED
    BY <2>1, <2>2
<1>5. \A d \in Callers : call'[d].bearer = call[d].bearer /\ call'[d].spent = call[d].spent
  BY <1>1, <1>2
<1>6. \A d \in Callers : call'[d].bearer <= held'.access /\ call'[d].spent <= held'.access
  BY <1>4, <1>5 DEF AdopterInv
<1>7. RetriesWithAnother'
  BY <1>5 DEF AdopterInv, RetriesWithAnother
<1>8. (\A d \in Callers : SpentIsGone(d))'
  BY <1>1, <1>2, <1>4 DEF AdopterInv, SpentIsGone
<1>9. (\A d \in Callers : call[d].at = "keeping" =>
        fresh[d].access = held.access /\ call[d].spent < held.access)'
  BY <1>1, <1>2, <1>3, <1>4 DEF AdopterInv
<1>10. QED
  BY <1>3, <1>4, <1>6, <1>7, <1>8, <1>9 DEF AdopterInv

\* The calls that are broken off have nothing to retry.
LEMMA BreaksOffKeepsAdopter ==
    ASSUME SafeInv, AdopterInv, NEW C \in SUBSET Callers, BreaksOff(C),
           held' = held \/ (C = Callers /\ held' = stored)
    PROVE  AdopterInv'
<1>1. \A d \in Callers :
        IF d \in C
        THEN /\ call'[d].at = "ended" /\ call'[d].bearer = None /\ call'[d].spent = None
             /\ wire'[d].at = "idle"
        ELSE /\ call'[d] = call[d] /\ wire'[d] = wire[d] /\ fresh'[d] = fresh[d]
             /\ copied'[d] = copied[d] /\ held' = held
  BY BlankRecords, SlotPerCaller DEF BreaksOff, Idle
<1>2. minted' = minted /\ held'.access <= minted /\ held'.access \in Nat
  BY DEF BreaksOff, AdopterInv, SafeInv, OrderInv, TypeOK, TokenSets
<1>3. \A d \in Callers : call'[d].bearer <= held'.access /\ call'[d].spent <= held'.access
  BY <1>1, <1>2 DEF AdopterInv, None
<1>4. RetriesWithAnother'
  BY <1>1 DEF AdopterInv, RetriesWithAnother
<1>5. (\A d \in Callers : SpentIsGone(d))'
  BY <1>1 DEF AdopterInv, SpentIsGone
<1>6. (\A d \in Callers : call[d].at = "keeping" =>
        fresh[d].access = held.access /\ call[d].spent < held.access)'
  BY <1>1 DEF AdopterInv
<1>7. (\A d \in Callers : wire[d].at = "out" => wire[d].refresh = held.refresh)'
  BY <1>1 DEF AdopterInv
<1>8. (\A d \in Callers : wire[d].at = "tokens" =>
        held.access < wire[d].access /\ wire[d].asked = held.refresh)'
  BY <1>1 DEF AdopterInv
<1>9. QED
  BY <1>2, <1>3, <1>4, <1>5, <1>6, <1>7, <1>8 DEF AdopterInv

\* The clock expires what is in use, and the provider answers with newer tokens.
LEMMA WorldKeepsAdopter ==
    ASSUME SafeInv, AdopterInv, World
    PROVE  AdopterInv'
<1>t. held.access \in Nat /\ minted \in Nat
  BY DEF SafeInv, TypeOK, TokenSets, ProviderTypeOK
<1>1. CASE Lapse
  <2>1. held' = Expired(held) /\ UNCHANGED <<minted, wire, fresh, copied, call>>
    BY <1>1 DEF Lapse, providerVars
  <2>2. held'.access = held.access /\ held'.refresh = held.refresh /\ ~held'.live
    BY <2>1 DEF Expired, SafeInv, TypeOK, TokenSets
  <2>3. (\A d \in Callers : SpentIsGone(d))'
    BY <2>2 DEF SpentIsGone
  <2>4. RetriesWithAnother'
    BY <2>1 DEF AdopterInv, RetriesWithAnother
  <2>5. QED
    BY <2>1, <2>2, <2>3, <2>4 DEF AdopterInv
<1>2. CASE ProviderNext /\ UNCHANGED <<tokenVars, call>>
  <2>1. minted' \in {minted, minted + 1} /\ \A d \in Callers : Answered(d)
    BY <1>2, ProviderAnswers, SlotPerCaller DEF SafeInv, TypeOK
  <2>2. UNCHANGED <<call, held, fresh, copied>>
    BY <1>2 DEF tokenVars
  <2>3. held.access <= minted
    BY DEF AdopterInv
  <2>4. held.access <= minted' /\ held.access < minted + 1
    BY <1>t, <2>1, <2>3
  <2>5. (\A d \in Callers : SpentIsGone(d))'
    BY <2>2 DEF AdopterInv, SpentIsGone
  <2>6. RetriesWithAnother'
    BY <2>2 DEF AdopterInv, RetriesWithAnother
  <2>7. (\A d \in Callers : wire[d].at = "out" => wire[d].refresh = held.refresh)'
    BY <2>1, <2>2 DEF AdopterInv, Answered
  <2>8. (\A d \in Callers : wire[d].at = "tokens" =>
          held.access < wire[d].access /\ wire[d].asked = held.refresh)'
    BY <2>1, <2>2, <2>4 DEF AdopterInv, Answered
  <2>9. QED
    BY <2>2, <2>4, <2>5, <2>6, <2>7, <2>8 DEF AdopterInv
<1>3. CASE Restart
  BY <1>3, BreaksOffKeepsAdopter DEF Restart
<1>4. QED
  BY <1>1, <1>2, <1>3 DEF World

\* Whatever an adopter does, and the world around it, keeps all of this.
LEMMA AdopterStepKeeps ==
    ASSUME SafeInv, AdopterInv, World \/ \E c \in Callers : AdopterStep(c)
    PROVE  AdopterInv'
<1>1. ASSUME NEW c \in Callers, AdopterStep(c) PROVE AdopterInv'
  <2>1. CASE BrokenOff(c)
    BY <2>1, BreaksOffKeepsAdopter DEF BrokenOff
  <2>2. QED
    BY <1>1, <2>1, QuietKeepsAdopter, RefreshKeepsAdopter, AdoptsKeepsAdopter, KeptKeepsAdopter,
       ForgetKeepsAdopter, WriteKeepsAdopter DEF AdopterStep, Usual, Common
<1>2. QED
  BY <1>1, WorldKeepsAdopter

\* The library is chosen once, and those that adopt first take an adopter's steps.
LEMMA AdoptersStep ==
    ASSUME TypeOK, Next
    PROVE  /\ library' = library
           /\ Adopting => World \/ \E c \in Callers : AdopterStep(c)
<1>1. PICK l \in Libraries :
        /\ library = l /\ library' = library
        /\ \/ l.name = "cpp" /\ Cpp(l)!Next
           \/ l.name = "cs" /\ Cs(l)!Next
           \/ l.name = "kt" /\ Kt(l)!Next
           \/ l.name = "rs" /\ Rs(l)!Next
           \/ l.name = "py_threads" /\ Py(l, {})!Next
           \/ l.name = "py_tasks" /\ Py(l, Callers)!Next
  BY Zenon DEF Next
<1>2. Adopting => l.name # "cs" /\ l.name # "rs"
  BY <1>1 DEF Adopting, AdoptFirst
<1>3. Adopting => Cpp(l)!Next \/ Kt(l)!Next \/ Py(l, {})!Next \/ Py(l, Callers)!Next
  BY <1>1, <1>2, Zenon
<1>4. QED
  BY <1>1, <1>3, CppSteps, KtSteps, PySteps

\* The invariant of all six, and what the adopters keep beyond it.
AdoptersInv == SafeInv /\ (Adopting => AdopterInv)

\* It is inductive.
LEMMA AdoptersNext == AdoptersInv /\ [Next]_clientVars => AdoptersInv'
<1>1. AdoptersInv /\ [Next]_clientVars => SafeInv'
  BY SafeNext DEF AdoptersInv
<1>2. ASSUME AdoptersInv, Next PROVE (Adopting => AdopterInv)'
  <2>1. SafeInv /\ TypeOK
    BY <1>2 DEF AdoptersInv, SafeInv
  <2>2. Adopting' <=> Adopting
    BY <1>2, <2>1, AdoptersStep DEF Adopting
  <2>3. QED
    BY <1>2, <2>1, <2>2, AdoptersStep, AdopterStepKeeps DEF AdoptersInv
<1>3. ASSUME AdoptersInv, UNCHANGED clientVars PROVE (Adopting => AdopterInv)'
  <2>1. UNCHANGED <<minted, wire, held, fresh, copied, call, library>>
    BY <1>3 DEF clientVars, vars, providerVars, tokenVars
  <2>2. (Adopting' <=> Adopting) /\ (AdopterInv' <=> AdopterInv)
    BY <2>1 DEF Adopting, AdopterInv, SpentIsGone, RetriesWithAnother
  <2>3. QED
    BY <1>3, <2>2 DEF AdoptersInv
<1>4. QED
  BY <1>1, <1>2, <1>3 DEF AdoptersInv

\* In C++, Kotlin and Python a call that was answered with a 401 never sends the
\* same access token again, whoever else calls, refreshes or forgets meanwhile.
THEOREM AdoptersSendAnother == Spec => []AdoptersRetryWithAnother
<1>1. ClientsInit => AdoptersInv
  BY SafeInit, AdopterInit DEF ClientsInit, AdoptersInv
<1>2. AdoptersInv => AdoptersRetryWithAnother
  BY DEF AdoptersInv, AdopterInv, AdoptersRetryWithAnother
<1>3. QED
  BY <1>1, <1>2, AdoptersNext, PTL DEF Spec

-----------------------------------------------------------------------------
(* The adopters are token keepers *)

\* What the keeper's variables are, by what the one in the critical section does.
RenewalView ==
    /\ \A c \in Callers : call[c].at = "refreshing" =>
        KeeperWire = wire[c] /\ KeeperFresh = NoTokens /\ KeeperPhase = "asking"
    /\ \A c \in Callers : call[c].at = "keeping" =>
        KeeperWire = Idle /\ KeeperFresh = fresh[c] /\ KeeperPhase = "keeping"
    /\ (\A c \in Callers : call[c].at \notin {"refreshing", "keeping"}) =>
        KeeperWire = Idle /\ KeeperFresh = NoTokens /\ KeeperPhase = "none"

\* One is in the critical section at most, so it is that one's wire that is seen.
LEMMA RenewalSeen == LockInv => RenewalView
<1> SUFFICES ASSUME LockInv PROVE RenewalView
  OBVIOUS
<1>1. \A c, d \in Callers : call[c].at \notin Plain /\ call[d].at \notin Plain => c = d
  BY DEF LockInv
<1>2. ASSUME NEW c \in Callers, call[c].at = "refreshing"
      PROVE  KeeperWire = wire[c] /\ KeeperFresh = NoTokens /\ KeeperPhase = "asking"
  <2>1. Refreshing = {c} /\ Keeping = {}
    BY <1>1, <1>2 DEF Refreshing, Keeping, Plain
  <2>2. (CHOOSE d \in {c} : TRUE) = c
    OBVIOUS
  <2>3. QED
    BY <2>1, <2>2 DEF KeeperWire, KeeperFresh, KeeperPhase
<1>3. ASSUME NEW c \in Callers, call[c].at = "keeping"
      PROVE  KeeperWire = Idle /\ KeeperFresh = fresh[c] /\ KeeperPhase = "keeping"
  <2>1. Keeping = {c} /\ Refreshing = {}
    BY <1>1, <1>3 DEF Refreshing, Keeping, Plain
  <2>2. (CHOOSE d \in {c} : TRUE) = c
    OBVIOUS
  <2>3. QED
    BY <2>1, <2>2 DEF KeeperWire, KeeperFresh, KeeperPhase
<1>4. (\A c \in Callers : call[c].at \notin {"refreshing", "keeping"}) =>
        KeeperWire = Idle /\ KeeperFresh = NoTokens /\ KeeperPhase = "none"
  BY DEF Refreshing, Keeping, KeeperWire, KeeperFresh, KeeperPhase
<1>5. QED
  BY <1>2, <1>3, <1>4 DEF RenewalView

\* The same after a step.
LEMMA RenewalSeenNext == LockInv' => RenewalView'
  BY RenewalSeen, PTL

\* Where the critical section is left to who is in it, the keeper sees nothing.
LEMMA RenewalFrame ==
    ASSUME SafeInv, LockInv',
           \A d \in Callers :
            \/ /\ call[d].at \notin {"refreshing", "keeping"}
               /\ call'[d].at \notin {"refreshing", "keeping"}
            \/ call'[d].at = call[d].at /\ wire'[d] = wire[d] /\ fresh'[d] = fresh[d]
    PROVE  UNCHANGED <<KeeperWire, KeeperFresh, KeeperPhase>>
<1>1. RenewalView /\ RenewalView'
  BY RenewalSeen, RenewalSeenNext DEF SafeInv
<1>2. CASE \E d \in Callers : call[d].at \in {"refreshing", "keeping"}
  BY <1>1, <1>2 DEF RenewalView
<1>3. CASE \A d \in Callers : call[d].at \notin {"refreshing", "keeping"}
  BY <1>1, <1>3 DEF RenewalView
<1>4. QED
  BY <1>2, <1>3

\* What neither touches the provider nor the tokens is no step of the keeper.
LEMMA KeeperStutters ==
    ASSUME UNCHANGED <<current, alive, minted, good, orphans, cut, held, stored>>,
           UNCHANGED <<KeeperWire, KeeperFresh, KeeperPhase>>
    PROVE  UNCHANGED Keeper!vars
  BY DEF Keeper!vars, Keeper!providerVars, Keeper!keeperVars

\* The keeper forgets when the token is expired, whoever does it.
LEMMA ForgettingIsKeeper ==
    ASSUME UNCHANGED <<current, alive, minted, good, orphans, cut, stored>>,
           UNCHANGED <<KeeperWire, KeeperFresh, KeeperPhase>>,
           held' = Expired(held)
    PROVE  Keeper!Forget
  BY DEF Keeper!Forget, Expired, Keeper!providerVars

\* A call that moves outside the critical section is nothing to the keeper.
LEMMA QuietIsKeeper ==
    ASSUME SafeInv, LockInv', NEW c \in Callers, Quiet(c)
    PROVE  UNCHANGED Keeper!vars
<1>1. PICK k : Moves(c, k)
  BY QuietMoves DEF SafeInv
<1>2. UNCHANGED <<providerVars, tokenVars>>
  BY QuietMoves DEF SafeInv, Untouched
<1>3. /\ call[c].at \notin {"refreshing", "keeping"} /\ call'[c].at \notin {"refreshing", "keeping"}
      /\ \A d \in Callers \ {c} : call'[d] = call[d]
  BY <1>1, Became DEF SafeInv, TypeOK, Moves, Plain
<1>4. UNCHANGED <<KeeperWire, KeeperFresh, KeeperPhase>>
  BY <1>2, <1>3, RenewalFrame DEF providerVars, tokenVars
<1>5. QED
  BY <1>2, <1>4, KeeperStutters DEF providerVars, tokenVars

\* forget() is a keeper's, in one step or in two.
LEMMA ForgetIsKeeper ==
    ASSUME SafeInv, LockInv', NEW c \in Callers,
           \/ ForgetsAtOnce(c, Expired(held))
           \/ ForgetReads(c)
           \/ \E t \in {held, Expired(held)} : ForgetWrites(c, t)
    PROVE  KeepersStep
<1>1. ASSUME NEW t \in TokenSets, ForgetsAtOnce(c, t) \/ ForgetReads(c) \/ ForgetWrites(c, t),
             held' \in {held, Expired(held)}
      PROVE  KeepersStep
  <2>1. PICK k : Moves(c, k)
    BY <1>1, ForgetsMove DEF SafeInv
  <2>2. UNCHANGED <<providerVars, fresh, stored, lock>>
    BY <1>1, ForgetsMove DEF SafeInv
  <2>3. /\ call[c].at \notin {"refreshing", "keeping"} /\ call'[c].at \notin {"refreshing", "keeping"}
        /\ \A d \in Callers \ {c} : call'[d] = call[d]
    BY <2>1, Became DEF SafeInv, TypeOK, Moves, Plain
  <2>4. UNCHANGED <<KeeperWire, KeeperFresh, KeeperPhase>>
    BY <2>2, <2>3, RenewalFrame DEF providerVars
  <2>5. QED
    BY <1>1, <2>2, <2>4, KeeperStutters, ForgettingIsKeeper
       DEF providerVars, KeepersStep, Keeper!Next
<1>2. held \in TokenSets /\ Expired(held) \in TokenSets
  BY TokenSetsBuilt DEF SafeInv, TypeOK, Expired
<1>3. QED
  BY <1>1, <1>2 DEF ForgetsAtOnce, ForgetReads, ForgetWrites

\* The refresh of the lock's holder is the keeper's renewal.
LEMMA RefreshIsKeeper ==
    ASSUME SafeInv, LockInv', NEW c \in Callers, Refreshes(c, Free)
    PROVE  Keeper!Present
<1>1. RenewalView /\ RenewalView'
  BY RenewalSeen, RenewalSeenNext DEF SafeInv
<1>2. \A d \in Callers : call[d].at \notin {"refreshing", "keeping"}
  BY DEF Refreshes, Free, SafeInv, LockInv, Plain
<1>3. call'[c].at = "refreshing"
  BY DEF Refreshes, Presents, Goes, SafeInv, TypeOK, CallsTypeOK, CallRecords
<1>4. wire'[c] = Asking(held.refresh)
  BY SlotPerCaller DEF Refreshes, Presents, SafeInv, TypeOK, ProviderTypeOK
<1>5. /\ KeeperFresh' = KeeperFresh /\ KeeperPhase = "none" /\ KeeperPhase' = "asking"
      /\ KeeperWire' = Asking(held.refresh)
  BY <1>1, <1>2, <1>3, <1>4 DEF RenewalView
<1>6. QED
  BY <1>5 DEF Refreshes, Presents, Keeper!Present, Asking, Keeper!Asking, None, Keeper!None

\* So is what it adopts: in Python, too, nobody else has replaced the refresh token.
LEMMA AdoptIsKeeper ==
    ASSUME SafeInv, AdopterInv, LockInv', NEW c \in Callers,
           NEW a \in {wire[c], [wire[c] EXCEPT !.asked = held.refresh]},
           AdoptsFirst(c, Adopted(a))
    PROVE  Keeper!Adopt
<1>1. RenewalView /\ RenewalView'
  BY RenewalSeen, RenewalSeenNext DEF SafeInv
<1>2. call[c].at = "refreshing" /\ call'[c].at = "keeping" /\ wire[c].at = "tokens"
  BY DEF AdoptsFirst, Goes, SafeInv, TypeOK, CallsTypeOK, CallRecords
<1>3. Adopted(a) = Adopted(wire[c])
  BY <1>2, AnswersAlike DEF AdopterInv, SafeInv
<1>4. held' = Adopted(wire[c]) /\ fresh'[c] = Adopted(wire[c])
  BY <1>3 DEF AdoptsFirst, SafeInv, TypeOK
<1>5. /\ KeeperWire = wire[c] /\ KeeperPhase = "asking"
      /\ KeeperWire' = Idle /\ KeeperPhase' = "keeping" /\ KeeperFresh' = Adopted(wire[c])
  BY <1>1, <1>2, <1>4 DEF RenewalView
<1>6. QED
  BY <1>2, <1>4, <1>5 DEF AdoptsFirst, ReadsAnswer, Keeper!Adopt, Keeper!Wire, Adopted, Keeper!Adopted,
     Idle, Keeper!Idle, None, Keeper!None

\* Whoever leaves the critical section leaves the keeper with no renewal.
LEMMA LeavingSeen ==
    ASSUME SafeInv, LockInv', NEW c \in Callers, call[c].at \notin Plain,
           call'[c].at \in Plain, \A d \in Callers \ {c} : call'[d] = call[d]
    PROVE  (KeeperWire = Idle /\ KeeperFresh = NoTokens /\ KeeperPhase = "none")'
<1>1. \A d \in Callers : call'[d].at \notin {"refreshing", "keeping"}
  BY DEF SafeInv, LockInv, Plain
<1>2. QED
  BY <1>1, RenewalSeenNext DEF RenewalView

\* The refresh that fails and the keeper that returns or throws are the keeper's.
LEMMA EndIsKeeper ==
    ASSUME SafeInv, LockInv', NEW c \in Callers,
           \/ KeeperStores(c)
           \/ \E k \in Thrown(c) : RefreshFails(c, k) \/ KeeperThrows(c, k)
    PROVE  Keeper!GiveUp \/ Keeper!Keep \/ Keeper!KeepFails
<1>k. call[c] \in CallRecords /\ fresh[c].access \in Nat
  BY DEF SafeInv, TypeOK, CallsTypeOK, TokenSets
<1>v. RenewalView
  BY RenewalSeen DEF SafeInv
<1>l. ASSUME NEW k \in CallRecords, k.at \in Plain, Leaves(c, k), call[c].at \notin Plain
      PROVE  (KeeperWire = Idle /\ KeeperFresh = NoTokens /\ KeeperPhase = "none")'
  BY <1>l, Became, LeavingSeen DEF Leaves, SafeInv, TypeOK
<1>t. \A k \in Thrown(c) : k \in CallRecords /\ k.at \in Plain
  BY <1>k, ThrownMade DEF Plain
<1>1. ASSUME NEW k \in Thrown(c), RefreshFails(c, k) PROVE Keeper!GiveUp
  <2>1. /\ KeeperWire = wire[c] /\ KeeperPhase = "asking" /\ KeeperFresh = NoTokens
    BY <1>1, <1>v DEF RefreshFails, RenewalView
  <2>2. (KeeperWire = Idle /\ KeeperFresh = NoTokens /\ KeeperPhase = "none")'
    BY <1>1, <1>l, <1>t DEF RefreshFails, Plain
  <2>3. QED
    BY <1>1, <2>1, <2>2 DEF RefreshFails, ReadsAnswer, Keeper!GiveUp, Keeper!Wire, Idle, Keeper!Idle,
       NoTokens, None
<1>2. ASSUME NEW k \in Thrown(c), KeeperThrows(c, k) PROVE Keeper!KeepFails
  <2>1. /\ KeeperWire = Idle /\ KeeperPhase = "keeping" /\ KeeperFresh = fresh[c]
    BY <1>2, <1>v DEF KeeperThrows, RenewalView
  <2>2. (KeeperWire = Idle /\ KeeperFresh = NoTokens /\ KeeperPhase = "none")'
    BY <1>2, <1>l, <1>t DEF KeeperThrows, Plain
  <2>3. QED
    BY <1>2, <2>1, <2>2 DEF KeeperThrows, FailsToStore, Keeper!KeepFails, NoTokens,
       Keeper!NoTokens, None, Keeper!None, Idle
<1>3. CASE KeeperStores(c)
  <2>1. /\ KeeperWire = Idle /\ KeeperPhase = "keeping" /\ KeeperFresh = fresh[c]
    BY <1>3, <1>v DEF KeeperStores, RenewalView
  <2>2. Got(call[c], fresh[c].access) \in CallRecords /\ Got(call[c], fresh[c].access).at \in Plain
    BY <1>k, GotMade DEF Plain
  <2>3. (KeeperWire = Idle /\ KeeperFresh = NoTokens /\ KeeperPhase = "none")'
    BY <1>3, <1>l, <2>2 DEF KeeperStores, Plain
  <2>4. Keeper!Keep
    BY <1>3, <2>1, <2>3 DEF KeeperStores, Stores, Keeper!Keep, NoTokens, Keeper!NoTokens, None,
       Keeper!None, Idle, providerVars, Keeper!providerVars
  <2>5. QED
    BY <2>4
<1>4. QED
  BY <1>1, <1>2, <1>3

\* A call that is broken off gives up its renewal, if it has one.
LEMMA BreakIsKeeper ==
    ASSUME SafeInv, LockInv', NEW c \in Callers, BrokenOff(c)
    PROVE  Keeper!Cancel \/ UNCHANGED Keeper!vars
<1>b. BreaksOff({c}) /\ held' = held /\ call[c].at \in {"fresh", "refreshing", "sent"}
  BY DEF BrokenOff
<1>o. /\ call'[c].at = "ended"
      /\ \A d \in Callers \ {c} : call'[d] = call[d] /\ wire'[d] = wire[d] /\ fresh'[d] = fresh[d]
  BY <1>b, BlankRecords, SlotPerCaller DEF BreaksOff
<1>v. RenewalView
  BY RenewalSeen DEF SafeInv
<1>1. CASE call[c].at = "refreshing"
  <2>1. KeeperWire = wire[c] /\ KeeperPhase = "asking" /\ KeeperFresh = NoTokens
    BY <1>1, <1>v DEF RenewalView
  <2>2. (KeeperWire = Idle /\ KeeperFresh = NoTokens /\ KeeperPhase = "none")'
    BY <1>1, <1>o, LeavingSeen DEF Plain
  <2>3. orphans' = (IF wire[c].at = "out" THEN orphans \cup {wire[c].refresh} ELSE orphans)
    BY <1>b DEF BreaksOff
  <2>4. cut' = (cut \/ wire[c].at = "out" \/ (wire[c].at = "tokens" /\ wire[c].refresh # None))
    BY <1>1, <1>b DEF BreaksOff
  <2>5. Keeper!Cancel
    BY <1>b, <2>1, <2>2, <2>3, <2>4 DEF BreaksOff, Keeper!Cancel, Keeper!BreaksOff, Keeper!Wire,
       Idle, Keeper!Idle, NoTokens, Keeper!NoTokens, None, Keeper!None
  <2>6. QED
    BY <2>5
<1>2. CASE call[c].at \in {"fresh", "sent"}
  <2>1. wire[c].at = "idle"
    BY <1>2 DEF SafeInv, LockInv
  <2>2. orphans' = orphans
    BY <1>b, <2>1 DEF BreaksOff
  <2>3. cut' = cut
    BY <1>2, <1>b, <2>1 DEF BreaksOff, SafeInv, TypeOK, ProviderTypeOK
  <2>4. UNCHANGED <<KeeperWire, KeeperFresh, KeeperPhase>>
    BY <1>2, <1>o, RenewalFrame
  <2>5. QED
    BY <1>b, <2>2, <2>3, <2>4, KeeperStutters DEF BreaksOff
<1>3. QED
  BY <1>1, <1>2, <1>b

\* What is lost of the renewal that is under way.
CutsOff ==
    /\ orphans' = (IF KeeperWire.at = "out" THEN orphans \cup {KeeperWire.refresh} ELSE orphans)
    /\ cut' = \/ cut
              \/ KeeperWire.at = "out"
              \/ KeeperWire.at = "tokens" /\ KeeperWire.refresh # None
              \/ KeeperPhase = "keeping" /\ KeeperFresh.refresh # stored.refresh

\* The process that dies takes the renewal with it.
LEMMA RestartIsKeeper ==
    ASSUME SafeInv, LockInv', Restart
    PROVE  Keeper!Restart
<1>b. BreaksOff(Callers) /\ held' = stored
  BY DEF Restart
<1>v. RenewalView
  BY RenewalSeen DEF SafeInv
<1>o. \A d \in Callers : call'[d].at = "ended"
  BY <1>b, BlankRecords DEF BreaksOff
<1>e. (KeeperWire = Idle /\ KeeperFresh = NoTokens /\ KeeperPhase = "none")'
  BY <1>o, RenewalSeenNext DEF RenewalView
<1>1. CutsOff
  <2>i. Idle.at = "idle"
    BY DEF Idle
  <2>w. \A c, d \in Callers : call[c].at \notin Plain /\ c # d =>
            call[d].at \in Plain /\ wire[d].at = "idle"
    BY DEF SafeInv, LockInv, Plain
  <2>1. ASSUME NEW c \in Callers, call[c].at = "refreshing"
        PROVE  CutsOff
    <3>1. KeeperWire = wire[c] /\ KeeperPhase = "asking"
      BY <1>v, <2>1 DEF RenewalView
    <3>2. \A d \in Callers : (wire[d].at # "idle" => d = c) /\ call[d].at # "keeping"
      BY <2>1, <2>w DEF Plain
    <3>3. orphans' = (IF wire[c].at = "out" THEN orphans \cup {wire[c].refresh} ELSE orphans)
      BY <1>b, <3>2 DEF BreaksOff
    <3>4. cut' = (cut \/ wire[c].at = "out" \/ (wire[c].at = "tokens" /\ wire[c].refresh # None))
      BY <1>b, <3>2 DEF BreaksOff
    <3>5. QED
      BY <3>1, <3>3, <3>4 DEF CutsOff
  <2>2. ASSUME NEW c \in Callers, call[c].at = "keeping"
        PROVE  CutsOff
    <3>1. KeeperWire.at = "idle" /\ KeeperPhase = "keeping" /\ KeeperFresh = fresh[c]
      BY <1>v, <2>2, <2>i DEF RenewalView
    <3>2. \A d \in Callers : wire[d].at = "idle" /\ (call[d].at = "keeping" => d = c)
      BY <2>2, <2>w DEF Plain, SafeInv, LockInv
    <3>3. orphans' = orphans
      BY <1>b, <3>2 DEF BreaksOff
    <3>4. cut' = (cut \/ fresh[c].refresh # stored.refresh)
      BY <1>b, <2>2, <3>2 DEF BreaksOff
    <3>5. QED
      BY <3>1, <3>3, <3>4 DEF CutsOff
  <2>3. CASE \A c \in Callers : call[c].at \notin {"refreshing", "keeping"}
    <3>1. KeeperWire.at = "idle" /\ KeeperPhase = "none"
      BY <1>v, <2>3, <2>i DEF RenewalView
    <3>2. \A d \in Callers : wire[d].at = "idle"
      BY <2>3 DEF SafeInv, LockInv
    <3>3. orphans' = orphans /\ cut' = cut
      BY <1>b, <2>3, <3>2 DEF BreaksOff, SafeInv, TypeOK, ProviderTypeOK
    <3>4. QED
      BY <3>1, <3>3 DEF CutsOff, SafeInv, TypeOK, ProviderTypeOK
  <2>4. QED
    BY <2>1, <2>2, <2>3
<1>2. QED
  BY <1>b, <1>e, <1>1 DEF CutsOff, BreaksOff, Keeper!Restart, Keeper!BreaksOff, Keeper!Wire,
     Idle, Keeper!Idle, NoTokens, Keeper!NoTokens, None, Keeper!None

\* The provider does to the holder's wire what it does to the keeper's.
LEMMA ProviderIsKeeper ==
    ASSUME SafeInv, LockInv', ProviderNext, UNCHANGED <<tokenVars, call>>
    PROVE  Keeper!ProviderNext /\ UNCHANGED Keeper!keeperVars
<1>v. RenewalView /\ RenewalView'
  BY RenewalSeen, RenewalSeenNext DEF SafeInv
<1>u. UNCHANGED <<held, fresh, stored, call>>
  BY DEF tokenVars
<1>p. UNCHANGED <<KeeperFresh, KeeperPhase>>
  BY <1>u DEF KeeperFresh, KeeperPhase, Keeping, Refreshing
<1>1. UNCHANGED Keeper!keeperVars
  BY <1>u, <1>p DEF Keeper!keeperVars
<1>s. ASSUME NEW c \in Callers, wire[c].at # "idle"
      PROVE  KeeperWire = wire[c] /\ KeeperWire' = wire'[c]
  BY <1>s, <1>u, <1>v DEF SafeInv, LockInv, RenewalView
<1>k. ASSUME wire' = wire PROVE KeeperWire' = KeeperWire
  BY <1>k, <1>u DEF KeeperWire, Refreshing
<1> USE DEF SafeInv, TypeOK, ProviderTypeOK
<1>2. ASSUME NEW c \in Callers, Issue(c) PROVE Keeper!Issue("keeper")
  <2>1. KeeperWire = wire[c] /\ KeeperWire' = wire'[c]
    BY <1>2, <1>s DEF Issue
  <2>2. QED
    BY <1>2, <2>1, SlotPerCaller DEF Issue, Keeper!Issue, TakeCurrent, Keeper!TakeCurrent, Tokens,
       Keeper!Tokens, None, Keeper!None
<1>3. ASSUME NEW c \in Callers, Kill(c) PROVE Keeper!Kill("keeper")
  <2>1. KeeperWire = wire[c] /\ KeeperWire' = wire'[c]
    BY <1>3, <1>s DEF Kill
  <2>2. QED
    BY <1>3, <2>1, SlotPerCaller DEF Kill, Keeper!Kill, KillFamily, Keeper!KillFamily, Refused,
       Keeper!Refused
<1>4. ASSUME NEW c \in Callers, Unserved(c) PROVE Keeper!Unserved("keeper")
  <2>1. KeeperWire = wire[c] /\ KeeperWire' = wire'[c]
    BY <1>4, <1>s DEF Unserved
  <2>2. QED
    BY <1>4, <2>1, SlotPerCaller DEF Unserved, Keeper!Unserved, Broken, Keeper!Broken
<1>5. ASSUME NEW c \in Callers, LoseAnswer(c) PROVE Keeper!LoseAnswer("keeper")
  <2>1. KeeperWire = wire[c] /\ KeeperWire' = wire'[c]
    BY <1>5, <1>s DEF LoseAnswer
  <2>2. QED
    BY <1>5, <2>1, SlotPerCaller DEF LoseAnswer, Keeper!LoseAnswer, Broken, Keeper!Broken,
       Disturbable, Keeper!Disturbable, None, Keeper!None
<1>6. ASSUME NEW r \in orphans, ServeOrphan(r) PROVE Keeper!ServeOrphan(r)
  <2>1. KeeperWire' = KeeperWire
    BY <1>6, <1>k DEF ServeOrphan
  <2>2. QED
    BY <1>6, <2>1 DEF ServeOrphan, Keeper!ServeOrphan, TakeCurrent, Keeper!TakeCurrent,
       KillFamily, Keeper!KillFamily
<1>7. ASSUME NEW a \in good, Revoke(a) PROVE Keeper!Revoke(a)
  <2>1. KeeperWire' = KeeperWire
    BY <1>7, <1>k DEF Revoke
  <2>2. QED
    BY <1>7, <2>1 DEF Revoke, Keeper!Revoke, Disturbable, Keeper!Disturbable
<1>8. QED
  BY <1>1, <1>2, <1>3, <1>4, <1>5, <1>6, <1>7, SlotPerCaller
     DEF ProviderNext, ProviderStep, Keeper!ProviderNext, Keeper!ProviderStep

\* So does the clock.
LEMMA WorldIsKeeper ==
    ASSUME SafeInv, LockInv', World
    PROVE  Keeper!Next
<1>1. CASE Lapse
  <2>1. UNCHANGED <<providerVars, fresh, stored, lock, call>> /\ held' = Expired(held)
    BY <1>1 DEF Lapse
  <2>2. UNCHANGED <<KeeperWire, KeeperFresh, KeeperPhase>>
    BY <2>1, RenewalFrame DEF providerVars
  <2>3. QED
    BY <2>1, <2>2, ForgettingIsKeeper DEF providerVars, Keeper!Next
<1>2. QED
  BY <1>1, ProviderIsKeeper, RestartIsKeeper DEF World, Keeper!Next

\* Whatever an adopter does, a keeper may do.
LEMMA AdopterStepIsKeeper ==
    ASSUME SafeInv, AdopterInv, LockInv', World \/ \E c \in Callers : AdopterStep(c)
    PROVE  KeepersStep
<1>1. ASSUME NEW c \in Callers, AdopterStep(c) PROVE KeepersStep
  BY <1>1, QuietIsKeeper, ForgetIsKeeper, RefreshIsKeeper, AdoptIsKeeper, EndIsKeeper, BreakIsKeeper
     DEF AdopterStep, Usual, Common, KeepersStep, Keeper!Next
<1>2. QED
  BY <1>1, WorldIsKeeper DEF KeepersStep

\* The keeper begins as the client does.
LEMMA KeeperInit == Init => Keeper!Init
<1> SUFFICES ASSUME Init PROVE Keeper!Init
  OBVIOUS
<1>1. SafeInv
  BY SafeInit
<1>2. \A c \in Callers : call[c].at = "ended"
  BY BlankRecords DEF Init, CallsInit
<1>3. KeeperWire = Idle /\ KeeperFresh = NoTokens /\ KeeperPhase = "none"
  BY <1>1, <1>2, RenewalSeen DEF SafeInv, RenewalView
<1>4. QED
  BY <1>3 DEF Init, ProviderInit, Keeper!Init, Keeper!ProviderInit, GivenTokens,
     Keeper!GivenTokens, FirstTokens, Keeper!FirstTokens, NoTokens, Keeper!NoTokens, None,
     Keeper!None, Idle, Keeper!Idle

\* Every step of an adopter is the keeper's or leaves the keeper as it was.
LEMMA StepIsKeepers ==
    AdoptersInv /\ [Next]_clientVars => (Adopting => KeepersStep) /\ (Adopting' <=> Adopting)
<1>1. ASSUME AdoptersInv, Next
      PROVE  (Adopting => KeepersStep) /\ (Adopting' <=> Adopting)
  <2>1. SafeInv /\ TypeOK
    BY <1>1 DEF AdoptersInv, SafeInv
  <2>2. LockInv'
    BY <1>1, AdoptersNext DEF AdoptersInv, SafeInv
  <2>3. Adopting' <=> Adopting
    BY <1>1, <2>1, AdoptersStep DEF Adopting
  <2>4. QED
    BY <1>1, <2>1, <2>2, <2>3, AdoptersStep, AdopterStepIsKeeper DEF AdoptersInv
<1>2. ASSUME UNCHANGED clientVars
      PROVE  (Adopting => KeepersStep) /\ (Adopting' <=> Adopting)
  <2>1. UNCHANGED <<providerVars, held, stored, fresh, call, library>>
    BY <1>2 DEF clientVars, vars, tokenVars
  <2>2. UNCHANGED <<KeeperWire, KeeperFresh, KeeperPhase>>
    BY <2>1 DEF providerVars, KeeperWire, KeeperFresh, KeeperPhase, Refreshing, Keeping
  <2>3. UNCHANGED Keeper!vars
    BY <2>1, <2>2, KeeperStutters DEF providerVars
  <2>4. QED
    BY <2>1, <2>3 DEF KeepersStep, Adopting
<1>3. QED
  BY <1>1, <1>2

\* C++, Kotlin and Python are token keepers: whatever their callers, their lock and
\* their keeper do, they present one refresh token at a time, the newest, adopt
\* the answer, and then keep it.
THEOREM AdoptersAreKeepers == Spec => AdoptersKeep
<1>1. ClientsInit => AdoptersInv /\ Keeper!Init
  BY SafeInit, AdopterInit, KeeperInit DEF ClientsInit, AdoptersInv
<1>2. QED
  BY <1>1, AdoptersNext, StepIsKeepers, PTL DEF Spec, AdoptersKeep

\* The module of the proofs about TokenKeeper, with these clients for its keeper.
Promise == INSTANCE TokenKeeper_proofs WITH
    Slots <- {"keeper"},
    wire  <- [s \in {"keeper"} |-> KeeperWire],
    token <- held,
    fresh <- KeeperFresh,
    phase <- KeeperPhase

\* That module EXTENDS the one that Keeper is: they say the same.
LEMMA PromiseIsKeeper == KeeperSpec => Promise!Spec
<1>1. Keeper!Init => Promise!Init
  BY DEF Keeper!Init, Promise!Init, Keeper!ProviderInit, Promise!ProviderInit,
         Keeper!GivenTokens, Promise!GivenTokens, Keeper!FirstTokens, Promise!FirstTokens,
         Keeper!NoTokens, Promise!NoTokens, Keeper!None, Promise!None, Keeper!Idle,
         Promise!Idle
<1>2. [Keeper!Next]_(Keeper!vars) => [Promise!Next]_(Promise!vars)
  BY DEF Keeper!Wire, Promise!Wire, Keeper!Present, Promise!Present, Keeper!Adopt,
         Promise!Adopt, Keeper!GiveUp, Promise!GiveUp, Keeper!Keep, Promise!Keep,
         Keeper!KeepFails, Promise!KeepFails, Keeper!Forget, Promise!Forget,
         Keeper!BreaksOff, Promise!BreaksOff, Keeper!Cancel, Promise!Cancel,
         Keeper!Restart, Promise!Restart, Keeper!ProviderNext, Promise!ProviderNext,
         Keeper!ProviderStep, Promise!ProviderStep, Keeper!Issue, Promise!Issue,
         Keeper!Kill, Promise!Kill, Keeper!Unserved, Promise!Unserved, Keeper!LoseAnswer,
         Promise!LoseAnswer, Keeper!ServeOrphan, Promise!ServeOrphan, Keeper!Revoke,
         Promise!Revoke, Keeper!TakeCurrent, Promise!TakeCurrent, Keeper!KillFamily,
         Promise!KillFamily, Keeper!Disturbable, Promise!Disturbable, Keeper!Adopted,
         Promise!Adopted, Keeper!Asking, Promise!Asking, Keeper!Tokens, Promise!Tokens,
         Keeper!Refused, Promise!Refused, Keeper!Broken, Promise!Broken, Keeper!Idle,
         Promise!Idle, Keeper!NoTokens, Promise!NoTokens, Keeper!None, Promise!None,
         Keeper!vars, Promise!vars, Keeper!providerVars, Promise!providerVars,
         Keeper!keeperVars, Promise!keeperVars, Keeper!Next, Promise!Next
<1>3. QED
  BY <1>1, <1>2, PTL DEF KeeperSpec, Keeper!Spec, Promise!Spec

\* In C++, Kotlin and Python the family of refresh tokens is killed only after a
\* rotation was cut off on its way to the client or to its keeper, whatever the
\* calls of one client do together.
THEOREM AdoptersNeverKillTheirFamily == Spec => [](Adopting => KilledOnlyWhenCut)
<1>1. {"keeper"} = {"keeper"}
  OBVIOUS
<1>2. MaxMinted \in Nat /\ Retries \in Nat
  BY MaxMintedAssumption, RetriesAssumption
<1>3. Promise!Spec => []Promise!KilledOnlyWhenCut
  BY <1>1, <1>2, Promise!NeverKillsItsFamily
<1>4. Promise!KilledOnlyWhenCut <=> KilledOnlyWhenCut
  BY DEF Promise!KilledOnlyWhenCut, KilledOnlyWhenCut
<1>5. ClientsInit => AdoptersInv
  BY SafeInit, AdopterInit DEF ClientsInit, AdoptersInv
<1>6. KeepersStep => [Keeper!Next]_(Keeper!vars)
  BY DEF KeepersStep
<1>7. Spec /\ Adopting => KeeperSpec
  BY <1>5, <1>6, AdoptersAreKeepers, AdoptersNext, StepIsKeepers, PTL
     DEF Spec, AdoptersKeep, KeeperSpec, Keeper!Spec
<1>8. Spec /\ ~Adopting => []~Adopting
  BY <1>5, AdoptersNext, StepIsKeepers, PTL DEF Spec
<1>9. QED
  BY <1>3, <1>4, <1>7, <1>8, PromiseIsKeeper, PTL

-----------------------------------------------------------------------------
(* Rust keeps before it adopts *)

\* What is put away is what is in use, however a renewal ends; and while nothing
\* was cut off, the refresh token in hand is the newest, unless its successor has
\* come and is on its way to the keeper.
RustInv ==
    /\ held.refresh = stored.refresh
    /\ ~cut =>
         /\ alive /\ orphans = {}
         /\ \A c \in Callers : wire[c].at = "out" =>
              wire[c].refresh = held.refresh /\ held.refresh = current
         /\ \A c \in Callers : wire[c].at = "tokens" =>
              wire[c].asked = held.refresh /\ Adopted(wire[c]).refresh = current
         /\ \A c \in Callers : call[c].at = "keeping" => fresh[c].refresh = current
         /\ (\A c \in Callers : wire[c].at # "tokens" /\ call[c].at # "keeping")
              => held.refresh \in {None, current}

\* It holds at the start.
LEMMA RustInit == Init => RustInv
<1> SUFFICES ASSUME Init PROVE RustInv
  OBVIOUS
<1>1. \A c \in Callers : call[c].at = "ended" /\ wire[c].at = "idle"
  BY BlankRecords, SlotPerCaller DEF Init, CallsInit, ProviderInit, Idle
<1>2. alive /\ orphans = {} /\ current = 1
  BY Zenon DEF Init, ProviderInit
<1>3. held.refresh \in {None, 1} /\ stored = held
  BY DEF Init, GivenTokens, FirstTokens, None
<1>4. QED
  BY <1>1, <1>2, <1>3 DEF RustInv

\* A step that leaves the provider and the tokens alone, of a call outside the
\* critical section.
LEMMA MovesKeepRust ==
    ASSUME SafeInv, RustInv, NEW c \in Callers, NEW k, Moves(c, k),
           UNCHANGED <<providerVars, fresh, stored>>,
           held'.refresh = held.refresh
    PROVE  RustInv'
<1>1. call'[c].at \in Plain /\ call[c].at \in Plain /\ \A d \in Callers \ {c} : call'[d] = call[d]
  BY Became DEF SafeInv, TypeOK, Moves
<1>2. UNCHANGED <<current, alive, orphans, wire, cut>>
  BY DEF providerVars
<1>3. \A d \in Callers : call'[d].at = "keeping" <=> call[d].at = "keeping"
  BY <1>1 DEF Plain
<1>4. QED
  BY <1>2, <1>3 DEF RustInv

\* A request with the refresh token in hand, from a lock that was taken to look.
LEMMA TakesKeepRust ==
    ASSUME SafeInv, RustInv, NEW c \in Callers,
           \/ Takes(c) /\ Goes(c, "locked") /\ UNCHANGED providerVars
           \/ TakesOn(c) /\ held.refresh # None
    PROVE  RustInv'
<1>1. /\ call'[c].at \in {"locked", "refreshing"} /\ call[c].at \in {"fresh", "locked"}
      /\ \A d \in Callers \ {c} : call'[d] = call[d]
  BY DEF Takes, TakesOn, Presents, Goes, SafeInv, TypeOK, CallsTypeOK, CallRecords
<1>2. UNCHANGED <<held, stored, fresh>>
  BY DEF Takes, TakesOn, tokenVars
<1>3. CASE Takes(c) /\ UNCHANGED providerVars
  BY <1>1, <1>2, <1>3 DEF RustInv, providerVars
<1>4. CASE TakesOn(c) /\ held.refresh # None
  <2>1. /\ wire'[c].at = "out" /\ wire'[c].refresh = held.refresh
        /\ \A d \in Callers \ {c} : wire'[d] = wire[d]
        /\ UNCHANGED <<current, alive, orphans, cut>>
    BY <1>4, SlotPerCaller DEF TakesOn, Presents, SafeInv, TypeOK, ProviderTypeOK, Asking
  <2>2. call[c].at = "locked"
    BY <1>4 DEF TakesOn
  <2>3. \A d \in Callers : wire[d].at = "idle" /\ call[d].at # "keeping"
    BY <2>2 DEF SafeInv, LockInv, Plain
  <2>4. ~cut => held.refresh = current
    BY <1>4, <2>3 DEF RustInv
  <2>5. QED
    BY <1>1, <1>2, <2>1, <2>3, <2>4 DEF RustInv
<1>5. QED
  BY <1>3, <1>4

\* The holder of the lock leaves, having read a refusal or nothing, or reads the
\* new token set and takes it to the keeper, who puts it away or throws.
LEMMA HolderKeepsRust ==
    ASSUME SafeInv, RustInv, NEW c \in Callers,
           \/ \E k \in Thrown(c) : RefreshFails(c, k) \/ KeeperThrows(c, k)
           \/ \E k \in Thrown(c) \cup {Got(call[c], held.access)} : Unlocks(c, k)
           \/ Adopts(c, Adopted(wire[c])) /\ held' = held
           \/ Keeps(c) /\ held' = fresh[c]
    PROVE  RustInv'
<1>i. LockInv
  BY DEF SafeInv
<1>k. call[c] \in CallRecords /\ held.access \in Nat /\ fresh[c].access \in Nat
  BY DEF SafeInv, TypeOK, CallsTypeOK, TokenSets
<1>o. \A k : Leaves(c, k) =>
        /\ call'[c] = k
        /\ \A d \in Callers \ {c} : call'[d] = call[d] /\ fresh'[d] = fresh[d]
  BY DEF Leaves, Becomes, SafeInv, TypeOK, CallsTypeOK
<1>r. ReadsAnswer(c) => /\ wire'[c].at = "idle" /\ \A d \in Callers \ {c} : wire'[d] = wire[d]
                        /\ UNCHANGED <<current, alive, orphans, cut>>
  BY SlotPerCaller DEF ReadsAnswer, SafeInv, TypeOK, ProviderTypeOK, Idle
<1>t. \A k \in Thrown(c) : k.at \in Plain
  BY <1>k, ThrownMade DEF Plain
<1>g. \A a \in Nat : Got(call[c], a).at \in Plain
  BY <1>k, GotMade DEF Plain
<1>1. ASSUME NEW k, k.at \in Plain, RefreshFails(c, k) PROVE RustInv'
  <2>1. /\ wire[c].at \in {"refused", "broken"} /\ call[c].at = "refreshing"
        /\ UNCHANGED <<held, stored>> /\ Leaves(c, k) /\ ReadsAnswer(c)
    BY <1>1 DEF RefreshFails
  <2>2. \A d \in Callers : wire[d].at # "tokens" /\ call[d].at # "keeping"
    BY <1>i, <2>1 DEF LockInv, Plain
  <2>3. \A d \in Callers : wire'[d].at # "tokens" /\ call'[d].at # "keeping"
    BY <1>1, <1>o, <1>r, <2>1, <2>2 DEF Plain
  <2>4. \A d \in Callers : wire'[d].at # "out"
    BY <1>i, <1>r, <2>1 DEF LockInv, Plain
  <2>5. QED
    BY <1>r, <2>1, <2>2, <2>3, <2>4 DEF RustInv
<1>2. ASSUME NEW k, k.at \in Plain, Unlocks(c, k) PROVE RustInv'
  <2>1. UNCHANGED <<current, alive, orphans, wire, cut, held, stored>> /\ Leaves(c, k)
    BY <1>2 DEF Unlocks, providerVars
  <2>2. \A d \in Callers : /\ call[d].at = "keeping" <=> call'[d].at = "keeping"
                           /\ call[d].at = "keeping" => fresh'[d] = fresh[d]
    BY <1>2, <1>o, <2>1 DEF Unlocks, Plain
  <2>3. QED
    BY <2>1, <2>2 DEF RustInv
<1>3. ASSUME NEW k, k.at \in Plain, KeeperThrows(c, k) PROVE RustInv'
  <2>1. /\ UNCHANGED <<current, alive, orphans, wire, held, stored>> /\ Leaves(c, k)
        /\ call[c].at = "keeping" /\ cut' = (cut \/ fresh[c].refresh # stored.refresh)
    BY <1>3 DEF KeeperThrows, FailsToStore
  <2>2. \A d \in Callers : wire[d].at = "idle" /\ (d # c => call[d].at # "keeping")
    BY <1>i, <2>1 DEF LockInv, Plain
  <2>3. ~cut' => ~cut /\ fresh[c].refresh = stored.refresh
    BY <2>1
  <2>4. ~cut' => held.refresh = current
    BY <2>1, <2>3 DEF RustInv
  <2>5. \A d \in Callers : call'[d].at # "keeping"
    BY <1>3, <1>o, <2>1, <2>2 DEF Plain
  <2>6. QED
    BY <2>1, <2>2, <2>3, <2>4, <2>5 DEF RustInv
<1>4. ASSUME Adopts(c, Adopted(wire[c])), held' = held PROVE RustInv'
  <2>1. /\ wire[c].at = "tokens" /\ UNCHANGED <<held, stored>> /\ ReadsAnswer(c)
        /\ fresh'[c] = Adopted(wire[c]) /\ call[c].at = "refreshing"
    BY <1>4 DEF Adopts, SafeInv, TypeOK
  <2>2. call'[c].at = "keeping" /\ \A d \in Callers \ {c} : call'[d] = call[d]
    BY <1>4 DEF Adopts, Goes, SafeInv, TypeOK, CallsTypeOK, CallRecords
  <2>3. \A d \in Callers \ {c} : wire[d].at = "idle" /\ call[d].at # "keeping"
    BY <1>i, <2>1 DEF LockInv, Plain
  <2>4. QED
    BY <1>r, <2>1, <2>2, <2>3 DEF RustInv
<1>5. ASSUME Keeps(c), held' = fresh[c] PROVE RustInv'
  <2>1. /\ UNCHANGED <<current, alive, orphans, wire, cut>> /\ stored' = fresh[c]
        /\ call[c].at = "keeping" /\ Leaves(c, Got(call[c], fresh[c].access))
    BY <1>5 DEF Keeps, Stores, providerVars
  <2>2. \A d \in Callers : wire[d].at = "idle" /\ (d # c => call[d].at # "keeping")
    BY <1>i, <2>1 DEF LockInv, Plain
  <2>3. \A d \in Callers : call'[d].at # "keeping"
    BY <1>o, <1>k, <1>g, <2>1, <2>2 DEF Plain
  <2>4. ~cut => held'.refresh = current
    BY <1>5, <2>1 DEF RustInv
  <2>5. held'.refresh = stored'.refresh
    BY <1>5, <2>1
  <2>6. QED
    BY <2>1, <2>2, <2>3, <2>4, <2>5 DEF RustInv
<1>6. QED
  BY <1>k, <1>t, <1>g, <1>1, <1>2, <1>3, <1>4, <1>5

\* Calls are broken off, or all of them with their client: unless that cut a
\* rotation off, what was put away is the newest.
LEMMA BreaksOffKeepsRust ==
    ASSUME SafeInv, RustInv, NEW C \in SUBSET Callers, BreaksOff(C),
           held'.refresh = held.refresh
    PROVE  RustInv'
<1>1. \A d \in Callers : IF d \in C THEN call'[d].at = "ended" /\ wire'[d].at = "idle"
        ELSE call'[d] = call[d] /\ wire'[d] = wire[d] /\ fresh'[d] = fresh[d]
  BY BlankRecords, SlotPerCaller DEF BreaksOff, Idle
<1>2. UNCHANGED <<current, alive, stored>>
  BY DEF BreaksOff
<1>3. ~cut' => /\ ~cut
               /\ \A c \in C : /\ wire[c].at # "out"
                               /\ wire[c].at = "tokens" => wire[c].refresh = None
                               /\ call[c].at = "keeping" => fresh[c].refresh = stored.refresh
  BY DEF BreaksOff
<1>4. ~cut' => orphans' = {}
  BY <1>3 DEF BreaksOff, RustInv
<1>5. ASSUME ~cut', \A c \in Callers : wire'[c].at # "tokens" /\ call'[c].at # "keeping"
      PROVE  held.refresh \in {None, current}
  <2>1. CASE \A c \in Callers : wire[c].at # "tokens" /\ call[c].at # "keeping"
    BY <1>3, <1>5, <2>1 DEF RustInv
  <2>2. ASSUME NEW c \in Callers, wire[c].at = "tokens" PROVE held.refresh = current
    <3>1. c \in C
      BY <1>1, <1>5, <2>2
    <3>2. wire[c].refresh = None /\ wire[c].asked = held.refresh /\ Adopted(wire[c]).refresh = current
      BY <1>3, <1>5, <2>2, <3>1 DEF RustInv
    <3>3. QED
      BY <3>2 DEF Adopted
  <2>3. ASSUME NEW c \in Callers, call[c].at = "keeping" PROVE held.refresh = current
    <3>1. c \in C
      BY <1>1, <1>5, <2>3
    <3>2. QED
      BY <1>3, <1>5, <2>3, <3>1 DEF RustInv
  <2>4. QED
    BY <2>1, <2>2, <2>3
<1>6. QED
  BY <1>1, <1>2, <1>3, <1>4, <1>5 DEF RustInv

\* The token endpoint serves the request of the lock's holder, if there is one: the
\* newest refresh token is what it was sent, so it rotates and does not kill.
LEMMA ProviderKeepsRust ==
    ASSUME SafeInv, RustInv, NEW c \in Callers, ProviderStep(c), UNCHANGED <<tokenVars, call>>
    PROVE  RustInv'
<1>1. wire[c].at \in {"out", "tokens"} /\ \A d \in Callers \ {c} : wire'[d] = wire[d]
  BY SlotPerCaller DEF ProviderStep, Issue, Kill, Unserved, LoseAnswer, SafeInv, TypeOK, ProviderTypeOK
<1>2. \A d \in Callers : call[d].at # "keeping" /\ (d # c => wire[d].at = "idle")
  BY <1>1 DEF SafeInv, LockInv, Plain
<1>3. UNCHANGED <<held, stored, call, fresh>>
  BY DEF tokenVars
<1>c. current \in Nat \ {0} /\ held.refresh \in Nat /\ wire \in [Callers -> Wires]
  BY SlotPerCaller DEF SafeInv, TypeOK, ProviderTypeOK, TokenSets
<1>4. CASE Issue(c)
  <2>1. PICK rotates \in BOOLEAN :
          /\ TakeCurrent(wire[c].refresh, rotates)
          /\ wire' = [wire EXCEPT ![c] = Tokens(minted + 1, IF rotates THEN current + 1 ELSE None,
                                                wire[c].refresh)]
    BY <1>4, Zenon DEF Issue
  <2>2. /\ wire[c].at = "out" /\ wire[c].refresh = current
        /\ current' = IF rotates THEN current + 1 ELSE current
    BY <1>4, <2>1 DEF Issue, TakeCurrent
  <2>3. alive' = alive /\ orphans' = orphans /\ cut' = cut
    BY <1>4, <2>1, Zenon DEF Issue, TakeCurrent
  <2>4. wire'[c].at = "tokens" /\ Adopted(wire'[c]).refresh = current' /\ wire'[c].asked = current
    BY <1>c, <2>1, <2>2 DEF Tokens, Adopted, None
  <2>5. ~cut => held.refresh = current
    BY <2>2 DEF RustInv
  <2>6. QED
    BY <1>1, <1>2, <1>3, <2>3, <2>4, <2>5 DEF RustInv
<1>5. CASE Kill(c)
  <2>1. wire[c].at = "out" /\ (wire[c].refresh # current \/ ~alive) /\ cut' = cut
    BY <1>5, Zenon DEF Kill, KillFamily
  <2>2. cut
    BY <2>1 DEF RustInv
  <2>3. QED
    BY <1>3, <2>1, <2>2 DEF RustInv
<1>6. CASE Unserved(c)
  <2>1. /\ wire[c].at = "out" /\ wire'[c].at = "broken"
        /\ UNCHANGED <<current, alive, orphans, cut>>
    BY <1>6, <1>c DEF Unserved, Broken
  <2>2. QED
    BY <1>1, <1>2, <1>3, <2>1 DEF RustInv
<1>7. CASE LoseAnswer(c)
  <2>1. wire[c].at = "tokens" /\ wire'[c].at = "broken" /\ UNCHANGED <<current, alive, orphans>>
    BY <1>7, <1>c DEF LoseAnswer, Broken
  <2>2. ~cut' => ~cut /\ wire[c].refresh = None
    BY <1>7 DEF LoseAnswer
  <2>3. ~cut' => held.refresh = current
    BY <2>1, <2>2 DEF RustInv, Adopted
  <2>4. QED
    BY <1>1, <1>2, <1>3, <2>1, <2>2, <2>3 DEF RustInv
<1>8. QED
  BY <1>4, <1>5, <1>6, <1>7 DEF ProviderStep

\* The clock leaves the refresh token alone, nobody's request is under way without
\* a rotation cut off, and a restart begins with what is in use.
LEMMA WorldKeepsRust ==
    ASSUME SafeInv, RustInv, World
    PROVE  RustInv'
<1>1. CASE Lapse
  <2>1. held' = Expired(held) /\ UNCHANGED <<current, alive, wire, orphans, cut, fresh, stored, call>>
    BY <1>1 DEF Lapse, providerVars
  <2>2. held'.refresh = held.refresh
    BY <2>1 DEF Expired, SafeInv, TypeOK, TokenSets
  <2>3. QED
    BY <2>1, <2>2 DEF RustInv
<1>2. ASSUME ProviderNext, UNCHANGED <<tokenVars, call>> PROVE RustInv'
  <2>1. UNCHANGED <<held, stored, call, fresh>>
    BY <1>2 DEF tokenVars
  <2>2. ASSUME NEW r \in orphans, ServeOrphan(r) PROVE RustInv'
    <3>1. cut /\ cut' = cut
      BY <2>2 DEF RustInv, ServeOrphan
    <3>2. QED
      BY <2>1, <3>1 DEF RustInv
  <2>3. ASSUME NEW a \in good, Revoke(a) PROVE RustInv'
    <3>1. UNCHANGED <<current, alive, wire, orphans, cut>>
      BY <2>3 DEF Revoke
    <3>2. QED
      BY <2>1, <3>1 DEF RustInv
  <2>4. QED
    BY <1>2, <2>2, <2>3, ProviderKeepsRust, SlotPerCaller DEF ProviderNext
<1>3. CASE Restart
  <2>1. BreaksOff(Callers) /\ held'.refresh = held.refresh
    BY <1>3 DEF Restart, RustInv
  <2>2. QED
    BY <2>1, BreaksOffKeepsRust
<1>4. QED
  BY <1>1, <1>2, <1>3 DEF World

\* Whatever Rust does, and the world around it, keeps all of this.
LEMMA RustStepKeeps ==
    ASSUME SafeInv, RustInv, World \/ \E c \in Callers : RustStep(c)
    PROVE  RustInv'
<1>1. ASSUME NEW c \in Callers, RustStep(c) PROVE RustInv'
  <2>1. CASE Quiet(c)
    <3>1. PICK k : Moves(c, k)
      BY <2>1, QuietMoves DEF SafeInv
    <3>2. UNCHANGED <<providerVars, held, fresh, stored>>
      BY <2>1, QuietMoves DEF SafeInv, Untouched, tokenVars
    <3>3. QED
      BY <3>1, <3>2, MovesKeepRust
  <2>2. ASSUME NEW t \in {held, Expired(held)}, ForgetsAtOnce(c, t) PROVE RustInv'
    <3>1. t \in TokenSets /\ t.refresh = held.refresh
      BY <2>2, TokenSetsBuilt DEF SafeInv, TypeOK, Expired, TokenSets
    <3>2. PICK k : Moves(c, k)
      BY <2>2, <3>1, ForgetsMove DEF SafeInv
    <3>3. UNCHANGED <<providerVars, fresh, stored>> /\ held' = t
      BY <2>2, <3>1, ForgetsMove DEF SafeInv, ForgetsAtOnce
    <3>4. QED
      BY <3>1, <3>2, <3>3, MovesKeepRust
  <2>3. CASE BrokenOff(c)
    BY <2>3, BreaksOffKeepsRust DEF BrokenOff
  <2>4. QED
    BY <1>1, <2>1, <2>2, <2>3, TakesKeepRust, HolderKeepsRust DEF RustStep, Common
<1>2. QED
  BY <1>1, WorldKeepsRust

\* Of the libraries that keep the family and do not adopt first, that is Rust.
Kept == library.name \notin AdoptFirst \cup {"cs"}

\* A step of one of them is a step of Rust's.
LEMMA RustsStep ==
    ASSUME TypeOK, Next
    PROVE  library' = library /\ (Kept => World \/ \E c \in Callers : RustStep(c))
<1>1. PICK l \in Libraries :
        /\ library = l /\ library' = library
        /\ \/ l.name = "cpp" /\ Cpp(l)!Next
           \/ l.name = "cs" /\ Cs(l)!Next
           \/ l.name = "kt" /\ Kt(l)!Next
           \/ l.name = "rs" /\ Rs(l)!Next
           \/ l.name = "py_threads" /\ Py(l, {})!Next
           \/ l.name = "py_tasks" /\ Py(l, Callers)!Next
  BY Zenon DEF Next
<1>2. Kept => l.name \notin {"cpp", "cs", "kt", "py_threads", "py_tasks"}
  BY <1>1 DEF Kept, AdoptFirst
<1>3. Kept => Rs(l)!Next
  BY <1>1, <1>2
<1>4. QED
  BY <1>1, <1>3, RsSteps

\* What Rust keeps beyond the invariant of all six.
RustsInv == SafeInv /\ (Kept => RustInv)

\* It is inductive.
LEMMA RustsNext == RustsInv /\ [Next]_clientVars => RustsInv' /\ (Kept' <=> Kept)
<1>1. RustsInv /\ [Next]_clientVars => SafeInv'
  BY SafeNext DEF RustsInv
<1>2. ASSUME RustsInv, Next PROVE (Kept => RustInv)' /\ (Kept' <=> Kept)
  <2>1. SafeInv /\ TypeOK
    BY <1>2 DEF RustsInv, SafeInv
  <2>2. Kept' <=> Kept
    BY <1>2, <2>1, RustsStep DEF Kept
  <2>3. QED
    BY <1>2, <2>1, <2>2, RustsStep, RustStepKeeps DEF RustsInv
<1>3. ASSUME RustsInv, UNCHANGED clientVars PROVE (Kept => RustInv)' /\ (Kept' <=> Kept)
  <2>1. UNCHANGED <<current, alive, wire, orphans, cut, held, fresh, stored, call, library>>
    BY <1>3 DEF clientVars, vars, providerVars, tokenVars
  <2>2. (Kept' <=> Kept) /\ (RustInv' <=> RustInv)
    BY <2>1 DEF Kept, RustInv
  <2>3. QED
    BY <1>3, <2>2 DEF RustsInv
<1>4. QED
  BY <1>1, <1>2, <1>3 DEF RustsInv

\* In Rust, too, which keeps a token set before it adopts it, the family of refresh
\* tokens is killed only after a rotation was cut off.  With what was shown of the
\* adopters this is so in every library that locks but C#.
THEOREM FamiliesAreKept == Spec => []KeepsItsFamily
<1>1. ClientsInit => RustsInv
  BY SafeInit, RustInit DEF ClientsInit, RustsInv
<1>2. RustsInv /\ Kept => KilledOnlyWhenCut
  BY DEF RustsInv, RustInv, KilledOnlyWhenCut
<1>3. (Adopting => KilledOnlyWhenCut) /\ (Kept => KilledOnlyWhenCut) => KeepsItsFamily
  BY DEF Kept, Adopting, KeepsItsFamily
<1>4. QED
  BY <1>1, <1>2, <1>3, RustsNext, AdoptersNeverKillTheirFamily, PTL DEF Spec
=============================================================================
