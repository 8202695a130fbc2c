------------------------------- MODULE Calls --------------------------------
(***************************************************************************)
(* What the six transports have in common, as vocabulary: the record a     *)
(* call keeps while it goes round its loop.  Each library's own module     *)
(* says when a call moves from one place to the next.                      *)
(***************************************************************************)
EXTENDS OAuthProvider

CONSTANTS
    Callers,    \* the concurrent uses of one client
    Retries     \* the `retries` option

ASSUME RetriesAssumption == Retries \in Nat

VARIABLE call   \* call[c]: where c's call is, and its locals

\* "ended": not begun, or over with a value or an error; no property tells them
\* apart.  "fresh": about to ask the auth object for a token, or asleep before that.
\* "locked": holding the auth object's lock.  "refreshing", "joined": waiting
\* for the token endpoint.  "keeping": in the keeper's callback.  "forgetting":
\* inside forget().  "sent", "handle": during and after the request to the api,
\* which is sent as soon as fresh() has answered.
Places == {"ended", "fresh", "locked", "refreshing", "joined", "keeping",
           "forgetting", "sent", "handle"}

\* attempt counts the retries.  spent is the access token whose 401 used up the
\* call's one refresh (`refreshed` in the code; None: not used up).  again says
\* that fresh() was asked from the 401 handler rather than from the top of the
\* loop.  bearer is the token the request carries, status its answer.
CallRecords == [at : Places, attempt : Nat, spent : Nat, again : BOOLEAN,
                bearer : Nat, status : Statuses]

At(l) == [at |-> l, attempt |-> 0, spent |-> None, again |-> FALSE,
          bearer |-> None, status |-> "none"]

CallsTypeOK == call \in [Callers -> CallRecords]

\* What every way out of a call leaves: its locals go with it.
Over == At("ended")

CallsInit == call = [c \in Callers |-> Over]

Becomes(c, k) == call' = [call EXCEPT ![c] = k]
Goes(c, l) == call' = [call EXCEPT ![c].at = l]
Ends(c) == Becomes(c, Over)

\* fresh() answered a: go and send, or, in the 401 handler, back to the top.
Got(k, a) ==
    IF k.again THEN [k EXCEPT !.at = "fresh", !.again = FALSE]
               ELSE [k EXCEPT !.at = "sent", !.bearer = a]

\* Back to the top of the loop, this request forgotten.
Top(k) == [k EXCEPT !.at = "fresh", !.bearer = None, !.status = "none"]
Retried(k) == [Top(k) EXCEPT !.attempt = @ + 1]

\* The first 401 leads to forget() and a second fresh().
Unauthed(k) == [Top(k) EXCEPT !.spent = k.bearer, !.again = TRUE]

Handles(c, said) == call[c].at = "handle" /\ call[c].status \in said

-----------------------------------------------------------------------------
(* The api's side of a request, and the socket's. *)

\* The api answers; the answer may be read long after it was decided.
Answer(c) ==
    /\ call[c].at = "sent"
    /\ \E v \in Verdicts(call[c].bearer) :
        call' = [call EXCEPT ![c].at = "handle", ![c].status = v]

\* A socket error, or the request's timeout.
Unanswered(c) ==
    /\ call[c].at = "sent"
    /\ call' = [call EXCEPT ![c].at = "handle", ![c].status = "unanswered"]

-----------------------------------------------------------------------------
(* Properties every library's calls are held to. *)

\* The retry after a 401 carries another access token than the one the api
\* refused: only then does a second 401 say that "the credential is wrong
\* rather than stale".
RetriesWithAnother ==
    \A c \in Callers :
        call[c].spent # None /\ call[c].bearer # None
            => call[c].bearer # call[c].spent

\* Every call ends: in its value, in a refusal or in an error.
EveryCallEnds == \A c \in Callers : call[c].at = "fresh" ~> call[c].at = "ended"
=============================================================================
