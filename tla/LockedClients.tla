--------------------------- MODULE LockedClients ----------------------------
(***************************************************************************)
(* The five clients that serialise their refresh with a lock, side by side *)
(* over the same provider: which one runs is chosen at the start.  Python  *)
(* counts twice, as its threads and its tasks take locks of their own.     *)
(***************************************************************************)
EXTENDS LockedToken

CONSTANT Libraries  \* the clients that are looked at, and how deep: each one's
                    \* name, its `retries` and its own MaxMinted

\* Every client is looked at within the bound of the instance.
ASSUME LibrariesAssumption ==
    Libraries \subseteq [name : STRING, retries : Nat, minted : 0..MaxMinted]

VARIABLE library

clientVars == <<vars, library>>

Cpp(l) == INSTANCE CppClient WITH Retries <- l.retries, MaxMinted <- l.minted
Cs(l)  == INSTANCE CsClient WITH Retries <- l.retries, MaxMinted <- l.minted
Kt(l)  == INSTANCE KtClient WITH Retries <- l.retries, MaxMinted <- l.minted
Rs(l)  == INSTANCE RsClient WITH Retries <- l.retries, MaxMinted <- l.minted
Py(l, tasks) == INSTANCE PyClient WITH
    Tasks <- tasks, Retries <- l.retries, MaxMinted <- l.minted

ClientsInit == Init /\ library \in Libraries

Next ==
    \E l \in Libraries :
        /\ library = l /\ UNCHANGED library
        /\ \/ l.name = "cpp" /\ Cpp(l)!Next
           \/ l.name = "cs" /\ Cs(l)!Next
           \/ l.name = "kt" /\ Kt(l)!Next
           \/ l.name = "rs" /\ Rs(l)!Next
           \/ l.name = "py_threads" /\ Py(l, {})!Next
           \/ l.name = "py_tasks" /\ Py(l, Callers)!Next

Locking(c) ==
    \E l \in Libraries :
        /\ library = l /\ UNCHANGED library
        /\ \/ l.name = "cpp" /\ Cpp(l)!Locking(c)
           \/ l.name = "cs" /\ Cs(l)!Locking(c)
           \/ l.name = "kt" /\ Kt(l)!Locking(c)
           \/ l.name = "rs" /\ Rs(l)!Locking(c)
           \/ l.name = "py_threads" /\ Py(l, {})!Locking(c)
           \/ l.name = "py_tasks" /\ Py(l, Callers)!Locking(c)

Running(c) ==
    \E l \in Libraries :
        /\ library = l /\ UNCHANGED library
        /\ \/ l.name = "cpp" /\ Cpp(l)!Running(c)
           \/ l.name = "cs" /\ Cs(l)!Running(c)
           \/ l.name = "kt" /\ Kt(l)!Running(c)
           \/ l.name = "rs" /\ Rs(l)!Running(c)
           \/ l.name = "py_threads" /\ Py(l, {})!Running(c)
           \/ l.name = "py_tasks" /\ Py(l, Callers)!Running(c)

\* Threads, tasks and coroutines are scheduled; a lock that keeps being released
\* is got in the end; a request to the api is answered or times out, and so is
\* one to the token endpoint.
Fairness ==
    \A c \in Callers :
        /\ SF_clientVars(Locking(c))
        /\ WF_clientVars(Running(c))
        /\ WF_clientVars((Answer(c) \/ Unanswered(c)) /\ Untouched /\ UNCHANGED library)
        /\ WF_clientVars(ProviderStep(c) /\ UNCHANGED <<tokenVars, call, library>>)

Spec == ClientsInit /\ [][Next]_clientVars
FairSpec == Spec /\ Fairness

-----------------------------------------------------------------------------
(* The libraries that adopt a token set before they keep it *)

AdoptFirst == {"cpp", "kt", "py_threads", "py_tasks"}
Adopting == library.name \in AdoptFirst

KeepersStep == Keeper!Next \/ UNCHANGED Keeper!vars

\* Each of them implements TokenKeeper: whatever its callers, its lock and its
\* keeper do, it presents and adopts token sets as that specification allows.
AdoptersKeep ==
    /\ Adopting => Keeper!Init
    /\ [][Adopting => KeepersStep]_clientVars

\* Stated in Calls: a call that was answered with a 401 is sent again with
\* another token.
AdoptersRetryWithAnother == Adopting => RetriesWithAnother

\* Stated in OAuthProvider, of all but C#, whose forget() may put a retired token
\* set back: the family is killed only after a rotation was cut off.
KeepsItsFamily == library.name # "cs" => KilledOnlyWhenCut
=============================================================================
