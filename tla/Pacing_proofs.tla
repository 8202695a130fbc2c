--------------------------- MODULE Pacing_proofs ----------------------------
(***************************************************************************)
(* Proofs about Pacing, for any number of calls, any limit and any length  *)
(* of the window, the gap and the waits.                                   *)
(***************************************************************************)
EXTENDS Pacing, FiniteSetTheorems, TLAPS

\* The assumptions, one parameter at a time.
LEMMA Parameters ==
    /\ IsFiniteSet(Callers)
    /\ Limit \in Nat /\ Limit > 0
    /\ Window \in Nat /\ Window > 0
    /\ Second \in Nat /\ Second > 0
    /\ GapLength \in Nat
    /\ Retries \in Nat
    /\ MaxWait \in Nat /\ MaxWait >= Window + Second
  BY PacingAssumption, MaxWaitAssumption

\* One more of a product, for the provers' arithmetic.
LEMMA OneMore == \A a, b \in Nat : a * (b + 1) = a * b + a
  OBVIOUS

\* The larger the factor, the larger the product.
LEMMA MoreOfIt == \A a, b, c \in Nat : b <= c => a * b <= a * c
  OBVIOUS

\* A backoff is a number of ticks, between one and sixteen.
LEMMA BackoffType == \A n \in Nat : Backoff(n) \in 1 .. 16
<1> SUFFICES ASSUME NEW n \in Nat PROVE Backoff(n) \in 1 .. 16
  OBVIOUS
<1>1. CASE n >= 4
  BY <1>1 DEF Backoff
<1>2. CASE n < 4
  <2>1. n = 0 \/ n = 1 \/ n = 2 \/ n = 3
    BY <1>2
  <2>2. QED
    BY <2>1, <1>2 DEF Backoff
<1>3. QED
  BY <1>1, <1>2

\* Whatever the headers hold, the wait is a number.
LEMMA WaitType ==
    ASSUME NEW k \in CallRecords PROVE Wait(k) \in Nat
<1> USE Parameters
<1>1. Backoff(k.attempt) \in Nat
  BY BackoffType DEF CallRecords
<1>2. k.headers.retryAfter \in Nat \cup {Absent} /\ k.headers.reset \in Nat \cup {Absent}
  BY DEF CallRecords, Headers
<1>3. AskedFirst(k.headers) \in Nat /\ Largest(k.headers) \in Nat
  BY <1>2 DEF AskedFirst, Largest, Else, Larger, Absent
<1>4. QED
  BY <1>1, <1>3 DEF Wait

\* Both ways of reading the headers wait for at least what they say, and for
\* no more than maxWait when they say no more than a window.
LEMMA WaitReadsHeaders ==
    ASSUME NEW k \in CallRecords, k.at = "limited", AsksForAWindow(k)
    PROVE  Wait(k) >= k.headers.reset /\ Wait(k) <= MaxWait
<1> USE Parameters
<1>1. /\ k.headers.reset \in Nat \cup {Absent}
      /\ k.headers.retryAfter = k.headers.reset
      /\ k.headers.reset <= Window + Second
  BY DEF CallRecords, Headers, AsksForAWindow
<1>2. \A h \in Headers :
        h.retryAfter = h.reset /\ h.reset <= Window + Second
            => /\ AskedFirst(h) >= h.reset /\ AskedFirst(h) <= MaxWait
               /\ Largest(h) >= h.reset /\ Largest(h) <= MaxWait
  BY DEF Headers, AskedFirst, Largest, Else, Larger, Absent
<1>3. k.headers \in Headers
  BY DEF CallRecords
<1>4. QED
  BY <1>1, <1>2, <1>3 DEF Wait

\* What the limiter may say is at least what is left of the window, and at most
\* a window and its rounding.
LEMMA AskedBounds ==
    ASSUME TypeOK, NEW s \in Asked
    PROVE  s \in Nat /\ s >= left /\ s <= Window + Second
<1>1. s \in left .. left + Second - 1
  BY DEF Asked
<1>2. left \in 1 .. Window
  BY DEF TypeOK
<1>3. QED
  BY <1>1, <1>2, Parameters

\* Served calls are counted one by one, and are some of the calls.
LEMMA ServedFinite ==
    /\ IsFiniteSet(Served)
    /\ Cardinality(Served) \in Nat
    /\ \A c \in Callers \ Served : Cardinality(Served) < Cardinality(Callers)
<1>1. Served \in SUBSET Callers
  BY DEF Served
<1>2. /\ IsFiniteSet(Served)
      /\ Cardinality(Served) <= Cardinality(Callers)
      /\ Cardinality(Callers) = Cardinality(Served) => Callers = Served
  BY <1>1, Parameters, FS_Subset
<1>3. Cardinality(Served) \in Nat /\ Cardinality(Callers) \in Nat
  BY <1>2, Parameters, FS_CardinalityType
<1>4. QED
  BY <1>2, <1>3

\* The types the comments in Pacing give hold at the start.
LEMMA TypeInit == Init => TypeOK
<1> SUFFICES ASSUME Init PROVE TypeOK
  OBVIOUS
<1>1. Silent \in Headers
  BY DEF Silent, Headers
<1>2. [at |-> "asleep", attempt |-> 0, sleep |-> 0, headers |-> Silent,
       byWindow |-> 0, byEdge |-> 0, byGap |-> 0] \in CallRecords
  BY <1>1 DEF CallRecords, Places
<1>3. call \in [Callers -> CallRecords]
  BY <1>2 DEF Init
<1>4. left \in 1 .. Window /\ used \in 0 .. Limit
  BY Parameters DEF Init
<1>5. gap \in Nat \cup {Absent} /\ refused \in SUBSET Callers
  BY DEF Init
<1>6. rule \in {"asked", "largest"}
  BY DEF Init
<1>7. QED
  BY <1>3, <1>4, <1>5, <1>6 DEF TypeOK

\* The records that the steps leave are call records.
LEMMA RecordsBuilt ==
    ASSUME NEW k \in CallRecords
    PROVE  /\ \A n \in Nat : [k EXCEPT !.sleep = n] \in CallRecords
           /\ \A place \in Places : [k EXCEPT !.at = place] \in CallRecords
           /\ \A s \in Nat : ByWindow(k, s) \in CallRecords
           /\ ByEdge(k) \in CallRecords
           /\ \A place \in Places : InGap(k, place) \in CallRecords
           /\ Asleep(k) \in CallRecords
<1>1. Silent \in Headers /\ \A s \in Nat : [retryAfter |-> s, reset |-> s] \in Headers
  BY DEF Silent, Headers
<1>2. Wait(k) \in Nat
  BY WaitType
<1>3. \A n \in Nat : [k EXCEPT !.sleep = n] \in CallRecords
  BY DEF CallRecords
<1>4. \A place \in Places : [k EXCEPT !.at = place] \in CallRecords
  BY DEF CallRecords
<1>c. /\ k.attempt + 1 \in Nat
      /\ k.byWindow + 1 \in Nat /\ k.byEdge + 1 \in Nat /\ k.byGap + 1 \in Nat
  BY DEF CallRecords
<1>p. "limited" \in Places /\ "asleep" \in Places
  BY DEF Places
<1>5. ASSUME NEW s \in Nat PROVE ByWindow(k, s) \in CallRecords
  BY <1>1, <1>c, <1>p, Zenon DEF CallRecords, ByWindow
<1>6. ByEdge(k) \in CallRecords
  BY <1>1, <1>c, <1>p, Zenon DEF CallRecords, ByEdge
<1>7. ASSUME NEW place \in Places PROVE InGap(k, place) \in CallRecords
  BY <1>c, Zenon DEF CallRecords, InGap
<1>8. Asleep(k) \in CallRecords
  BY <1>1, <1>2, <1>c, <1>p, Zenon DEF CallRecords, Asleep
<1>9. QED
  BY <1>3, <1>4, <1>5, <1>6, <1>7, <1>8

-----------------------------------------------------------------------------
\* Every step of the limiter, of time and of a transport keeps the types.
LEMMA TypeStep == TypeOK /\ [Next]_vars => TypeOK'
<1> SUFFICES ASSUME TypeOK, [Next]_vars PROVE TypeOK'
  OBVIOUS
<1> USE Parameters, RecordsBuilt DEF TypeOK
<1>p. {"served", "failed", "silent", "gaveup"} \subseteq Places
  BY DEF Places
<1>1. CASE Tick
  <2>1. \A n \in Nat : Less(n) \in Nat
    BY DEF Less
  <2>2. gap' \in Nat \cup {Absent}
    BY <1>1 DEF Tick, Less, Absent
  <2>3. ASSUME NEW c \in Callers
        PROVE  [call[c] EXCEPT !.sleep = Less(@)] \in CallRecords
    BY <2>1 DEF CallRecords
  <2>4. call' \in [Callers -> CallRecords]
    BY <1>1, <2>3 DEF Tick
  <2>5. left' \in 1 .. Window /\ used' \in 0 .. Limit /\ refused' \in SUBSET Callers
    BY <1>1 DEF Tick
  <2>6. QED
    BY <1>1, <2>2, <2>4, <2>5 DEF Tick
<1>2. CASE GapBegins
  BY <1>2 DEF GapBegins
<1>3. ASSUME NEW c \in Callers, Serves(c) PROVE TypeOK'
  BY <1>3, <1>p DEF Serves
<1>4. ASSUME NEW c \in Callers, Refuses(c) PROVE TypeOK'
  BY <1>4, AskedBounds DEF Refuses
<1>5. ASSUME NEW c \in Callers, EdgeRefuses(c) PROVE TypeOK'
  BY <1>5 DEF EdgeRefuses
<1>6. ASSUME NEW c \in Callers, FallsInTheGap(c) PROVE TypeOK'
  BY <1>6, <1>p DEF FallsInTheGap
<1>7. ASSUME NEW c \in Callers, Sleeps(c) PROVE TypeOK'
  BY <1>7 DEF Sleeps
<1>8. ASSUME NEW c \in Callers, GivesUp(c) PROVE TypeOK'
  BY <1>8, <1>p DEF GivesUp
<1>9. CASE UNCHANGED vars
  BY <1>9 DEF vars
<1>10. QED
  BY <1>1, <1>2, <1>3, <1>4, <1>5, <1>6, <1>7, <1>8, <1>9 DEF Next

\* The types hold of every behaviour.
THEOREM TypeCorrect == Spec => []TypeOK
  BY TypeInit, TypeStep, PTL DEF Spec

-----------------------------------------------------------------------------
\* What the records that the steps leave hold in each of their fields.
LEMMA FieldsBuilt ==
    ASSUME NEW k \in CallRecords
    PROVE  /\ \A s : /\ ByWindow(k, s).at = "limited"
                     /\ ByWindow(k, s).headers = [retryAfter |-> s, reset |-> s]
                     /\ ByWindow(k, s).attempt = k.attempt
                     /\ ByWindow(k, s).byWindow = k.byWindow + 1
                     /\ ByWindow(k, s).byEdge = k.byEdge
                     /\ ByWindow(k, s).byGap = k.byGap
           /\ ByEdge(k).at = "limited" /\ ByEdge(k).headers = Silent
           /\ ByEdge(k).attempt = k.attempt /\ ByEdge(k).byWindow = k.byWindow
           /\ ByEdge(k).byEdge = k.byEdge + 1 /\ ByEdge(k).byGap = k.byGap
           /\ \A p : /\ InGap(k, p).at = p
                     /\ InGap(k, p).attempt = k.attempt
                     /\ InGap(k, p).byWindow = k.byWindow
                     /\ InGap(k, p).byEdge = k.byEdge
                     /\ InGap(k, p).byGap = k.byGap + 1
           /\ Asleep(k).at = "asleep" /\ Asleep(k).sleep = Wait(k)
           /\ Asleep(k).attempt = k.attempt + 1 /\ Asleep(k).byWindow = k.byWindow
           /\ Asleep(k).byEdge = k.byEdge /\ Asleep(k).byGap = k.byGap
<1>1. \A s : /\ ByWindow(k, s).at = "limited"
            /\ ByWindow(k, s).headers = [retryAfter |-> s, reset |-> s]
            /\ ByWindow(k, s).attempt = k.attempt
            /\ ByWindow(k, s).byWindow = k.byWindow + 1
            /\ ByWindow(k, s).byEdge = k.byEdge
            /\ ByWindow(k, s).byGap = k.byGap
  BY DEF CallRecords, ByWindow
<1>2. /\ ByEdge(k).at = "limited" /\ ByEdge(k).headers = Silent
      /\ ByEdge(k).attempt = k.attempt /\ ByEdge(k).byWindow = k.byWindow
      /\ ByEdge(k).byEdge = k.byEdge + 1 /\ ByEdge(k).byGap = k.byGap
  BY DEF CallRecords, ByEdge
<1>3. \A p : /\ InGap(k, p).at = p
            /\ InGap(k, p).attempt = k.attempt
            /\ InGap(k, p).byWindow = k.byWindow
            /\ InGap(k, p).byEdge = k.byEdge
            /\ InGap(k, p).byGap = k.byGap + 1
  BY DEF CallRecords, InGap
<1>4. /\ Asleep(k).at = "asleep" /\ Asleep(k).sleep = Wait(k)
      /\ Asleep(k).attempt = k.attempt + 1 /\ Asleep(k).byWindow = k.byWindow
      /\ Asleep(k).byEdge = k.byEdge /\ Asleep(k).byGap = k.byGap
  BY DEF CallRecords, Asleep
<1>5. QED
  BY <1>1, <1>2, <1>3, <1>4

\* A step of one call that neither begins nor ends it served leaves the count.
LEMMA SameServed ==
    ASSUME TypeOK, NEW c \in Callers, NEW k,
           call' = [call EXCEPT ![c] = k],
           call[c].at # "served", k.at # "served"
    PROVE  Served' = Served
  BY DEF TypeOK, Served

\* Nothing that the invariant says of another call is disturbed by such a step.
LEMMA Undisturbed ==
    ASSUME IInv, NEW c \in Callers, NEW k,
           call' = [call EXCEPT ![c] = k],
           call[c].at # "served", k.at # "served",
           left' = left, used' = used, refused' \in {refused, refused \cup {c}},
           NEW d \in Callers, d # c
    PROVE  Paced(d)'
<1>1. Served' = Served
  BY SameServed DEF IInv
<1>2. call'[d] = call[d]
  BY DEF IInv, TypeOK
<1>3. d \in refused' <=> d \in refused
  OBVIOUS
<1>4. Paced(d)
  BY DEF IInv
<1>5. AsksForAWindow(call[d])' /\ CountsAttempts(call[d])'
  BY <1>2, <1>4 DEF Paced, AsksForAWindow, CountsAttempts
<1>6. WaitsForTheTurn(d)'
  BY <1>2, <1>3, <1>4 DEF Paced, WaitsForTheTurn
<1>7. BehindFullWindows(d)'
  BY <1>1, <1>2, <1>3, <1>4 DEF Paced, BehindFullWindows
<1>8. QED
  BY <1>5, <1>6, <1>7 DEF Paced

\* A call this window refused cannot arrive before it turns.
LEMMA RefusedStaysAway ==
    ASSUME IInv, NEW c \in Callers, Arrives(c) PROVE c \notin refused
<1>1. left \in 1 .. Window /\ Window \in Nat
  BY Parameters DEF IInv, TypeOK
<1>2. WaitsForTheTurn(c)
  BY DEF IInv, Paced
<1>3. call[c].at = "asleep" /\ call[c].sleep = 0
  BY DEF Arrives
<1>4. QED
  BY <1>1, <1>2, <1>3 DEF WaitsForTheTurn

\* At the start nobody is served and nobody was turned away.
LEMMA InvInit == Init => IInv
<1> SUFFICES ASSUME Init PROVE IInv
  OBVIOUS
<1>1. TypeOK
  BY TypeInit
<1>2. ASSUME NEW c \in Callers PROVE Paced(c)
  <2>1. /\ call[c].at = "asleep" /\ call[c].attempt = 0
        /\ call[c].byWindow = 0 /\ call[c].byEdge = 0 /\ call[c].byGap = 0
    BY DEF Init
  <2>2. Cardinality(Served) \in Nat /\ used = 0 /\ refused = {} /\ Limit \in Nat
    BY ServedFinite, Parameters DEF Init
  <2>3. AsksForAWindow(call[c])
    BY <2>1 DEF AsksForAWindow
  <2>4. WaitsForTheTurn(c)
    BY <2>2 DEF WaitsForTheTurn
  <2>5. BehindFullWindows(c)
    BY <2>1, <2>2 DEF BehindFullWindows
  <2>6. CountsAttempts(call[c])
    BY <2>1 DEF CountsAttempts
  <2>7. QED
    BY <2>3, <2>4, <2>5, <2>6 DEF Paced
<1>3. QED
  BY <1>1, <1>2 DEF IInv

\* Time passes: a sleep and the window shorten together, or the window turns.
LEMMA InvTick == IInv /\ TypeOK' /\ Tick => IInv'
<1> SUFFICES ASSUME IInv, TypeOK', Tick PROVE IInv'
  OBVIOUS
<1> SUFFICES ASSUME NEW c \in Callers PROVE Paced(c)'
  BY DEF IInv
<1> DEFINE k == call[c]
<1>t. /\ TypeOK /\ k \in CallRecords /\ Window \in Nat /\ Limit \in Nat
      /\ left \in 1 .. Window /\ used \in 0 .. Limit
  BY Parameters DEF IInv, TypeOK
<1>k. /\ call'[c].at = k.at /\ call'[c].attempt = k.attempt
      /\ call'[c].headers = k.headers /\ call'[c].sleep = Less(k.sleep)
      /\ call'[c].byWindow = k.byWindow /\ call'[c].byEdge = k.byEdge
      /\ call'[c].byGap = k.byGap
  BY <1>t DEF Tick, CallRecords
<1>s. Served' = Served
  <2>1. ASSUME NEW d \in Callers PROVE call'[d].at = call[d].at
    <3>1. call[d] \in CallRecords
      BY <1>t DEF TypeOK
    <3>2. QED
      BY <3>1 DEF Tick, CallRecords
  <2>2. QED
    BY <2>1 DEF Served
<1>p. Paced(c)
  BY DEF IInv
<1>1. AsksForAWindow(call[c])' /\ CountsAttempts(call[c])'
  BY <1>k, <1>p DEF Paced, AsksForAWindow, CountsAttempts
<1>n. k.sleep \in Nat /\ k.headers.reset \in Int /\ k.byWindow \in Nat
  BY <1>t DEF CallRecords, Headers, Absent
<1>2. WaitsForTheTurn(c)'
  <2>1. CASE left > 1
    BY <2>1, <1>t, <1>k, <1>n, <1>p DEF Paced, WaitsForTheTurn, Tick, Less
  <2>2. CASE ~(left > 1)
    BY <2>2 DEF WaitsForTheTurn, Tick
  <2>3. QED
    BY <2>1, <2>2
<1>3. BehindFullWindows(c)'
  <2>1. Cardinality(Served) \in Nat /\ Limit * k.byWindow \in Nat
    BY ServedFinite, <1>t, <1>n
  <2>2. CASE left > 1
    BY <2>2, <1>k, <1>s, <1>p DEF Paced, BehindFullWindows, Tick
  <2>3. CASE ~(left > 1)
    BY <2>1, <2>3, <1>t, <1>k, <1>s, <1>p DEF Paced, BehindFullWindows, Tick
  <2>4. QED
    BY <2>2, <2>3
<1>4. QED
  BY <1>1, <1>2, <1>3 DEF Paced

\* A call is served: the count and what is used of the window grow together.
LEMMA InvServes ==
    ASSUME IInv, TypeOK', NEW c \in Callers, Serves(c) PROVE IInv'
<1> SUFFICES ASSUME NEW d \in Callers PROVE Paced(d)'
  BY DEF IInv
<1>t. /\ TypeOK /\ call[d] \in CallRecords /\ Limit \in Nat /\ used \in 0 .. Limit
  BY Parameters DEF IInv, TypeOK
<1>p. Paced(d)
  BY DEF IInv
<1>s. /\ Cardinality(Served) \in Nat
      /\ Cardinality(Served') = Cardinality(Served) + 1
  <2>1. c \notin Served /\ Served' = Served \cup {c}
    BY <1>t DEF Serves, Arrives, Served, TypeOK
  <2>2. QED
    BY <2>1, ServedFinite, FS_AddElement
<1>k. /\ call'[d].byWindow = call[d].byWindow
      /\ call'[d].at = IF d = c THEN "served" ELSE call[d].at
      /\ call'[d].attempt = call[d].attempt /\ call'[d].headers = call[d].headers
      /\ call'[d].sleep = call[d].sleep /\ call'[d].byEdge = call[d].byEdge
      /\ call'[d].byGap = call[d].byGap
  BY <1>t DEF Serves, TypeOK, CallRecords
<1>1. AsksForAWindow(call[d])' /\ CountsAttempts(call[d])'
  BY <1>k, <1>p DEF Paced, AsksForAWindow, CountsAttempts
<1>2. WaitsForTheTurn(d)'
  <2>1. c \notin refused
    BY RefusedStaysAway DEF Serves
  <2>2. QED
    BY <2>1, <1>k, <1>p DEF Paced, WaitsForTheTurn, Serves
<1>3. BehindFullWindows(d)'
  <2>1. Limit * call[d].byWindow \in Nat
    BY <1>t DEF CallRecords
  <2>2. used < Limit /\ used' = used + 1 /\ refused' = refused
    BY DEF Serves
  <2>3. QED
    BY <2>1, <2>2, <1>t, <1>k, <1>s, <1>p DEF Paced, BehindFullWindows
<1>4. QED
  BY <1>1, <1>2, <1>3 DEF Paced

\* The limiter refuses a call: behind this refusal is the window it filled.
LEMMA InvRefuses ==
    ASSUME IInv, TypeOK', NEW c \in Callers, Refuses(c) PROVE IInv'
<1> DEFINE k == call[c]
<1>t. /\ TypeOK /\ k \in CallRecords /\ Limit \in Nat
  BY Parameters DEF IInv, TypeOK
<1>1. PICK s \in Asked : call' = [call EXCEPT ![c] = ByWindow(k, s)]
  BY DEF Refuses
<1>2. s \in Nat /\ s >= left /\ s <= Window + Second
  BY <1>t, AskedBounds
<1>3. k.at = "asleep" /\ c \notin refused /\ used = Limit
  BY RefusedStaysAway DEF Refuses, Arrives
<1>4. call'[c] = ByWindow(k, s)
  BY <1>1 DEF IInv, TypeOK
<1>5. ByWindow(k, s).at # "served" /\ k.at # "served"
  BY <1>3, <1>t, FieldsBuilt
<1>6. Served' = Served
  BY <1>1, <1>5, <1>t, SameServed
<1>p. Paced(c)
  BY DEF IInv
<1>f. /\ call'[c].at = "limited" /\ call'[c].attempt = k.attempt
      /\ call'[c].headers = [retryAfter |-> s, reset |-> s]
      /\ call'[c].byWindow = k.byWindow + 1
      /\ call'[c].byEdge = k.byEdge /\ call'[c].byGap = k.byGap
  BY <1>4, <1>t, FieldsBuilt
<1>h. call'[c].headers.retryAfter = s /\ call'[c].headers.reset = s
  BY <1>f
<1>n. {k.attempt, k.byWindow, k.byEdge, k.byGap} \subseteq Nat
  BY <1>t DEF CallRecords
<1>7. Paced(c)'
  <2>1. AsksForAWindow(call[c])'
    BY <1>2, <1>h DEF AsksForAWindow
  <2>2. WaitsForTheTurn(c)'
    BY <1>2, <1>f, <1>h DEF WaitsForTheTurn, Refuses
  <2>3. BehindFullWindows(c)'
    <3>1. Limit * (k.byWindow + 1) = Limit * k.byWindow + Limit
      BY <1>t, <1>n, OneMore
    <3>2. call'[c].byWindow = k.byWindow + 1 /\ c \in refused' /\ used' = used
      BY <1>f DEF Refuses
    <3>3. QED
      BY <3>1, <3>2, <1>3, <1>6, <1>p DEF Paced, BehindFullWindows
  <2>4. CountsAttempts(call[c])'
    BY <1>3, <1>f, <1>n, <1>p DEF Paced, CountsAttempts
  <2>5. QED
    BY <2>1, <2>2, <2>3, <2>4 DEF Paced
<1>8. ASSUME NEW d \in Callers, d # c PROVE Paced(d)'
  BY <1>1, <1>5, <1>8, Undisturbed DEF Refuses
<1>9. QED
  BY <1>7, <1>8 DEF IInv

\* The edge refuses a call, and it stays what the limiter made of it.
LEMMA InvEdgeRefuses ==
    ASSUME IInv, TypeOK', NEW c \in Callers, EdgeRefuses(c) PROVE IInv'
<1> DEFINE k == call[c]
<1>t. TypeOK /\ k \in CallRecords
  BY DEF IInv, TypeOK
<1>1. call' = [call EXCEPT ![c] = ByEdge(k)] /\ call'[c] = ByEdge(k)
  BY DEF EdgeRefuses, IInv, TypeOK
<1>2. k.at = "asleep" /\ c \notin refused
  BY RefusedStaysAway DEF EdgeRefuses, Arrives
<1>f. /\ call'[c].at = "limited" /\ call'[c].attempt = k.attempt
      /\ call'[c].headers = Silent /\ call'[c].byWindow = k.byWindow
      /\ call'[c].byEdge = k.byEdge + 1 /\ call'[c].byGap = k.byGap
  BY <1>1, <1>t, FieldsBuilt
<1>n. {k.attempt, k.byWindow, k.byEdge, k.byGap} \subseteq Nat
  BY <1>t DEF CallRecords
<1>3. ByEdge(k).at # "served" /\ k.at # "served"
  BY <1>1, <1>2, <1>f
<1>4. Served' = Served
  BY <1>1, <1>3, <1>t, SameServed
<1>p. Paced(c)
  BY DEF IInv
<1>5. Paced(c)'
  <2>1. AsksForAWindow(call[c])'
    BY <1>f, Parameters DEF AsksForAWindow, Silent, Absent
  <2>2. WaitsForTheTurn(c)'
    BY <1>2 DEF WaitsForTheTurn, EdgeRefuses
  <2>3. BehindFullWindows(c)'
    BY <1>4, <1>f, <1>p DEF Paced, BehindFullWindows, EdgeRefuses
  <2>4. CountsAttempts(call[c])'
    BY <1>2, <1>f, <1>n, <1>p DEF Paced, CountsAttempts
  <2>5. QED
    BY <2>1, <2>2, <2>3, <2>4 DEF Paced
<1>6. ASSUME NEW d \in Callers, d # c PROVE Paced(d)'
  BY <1>1, <1>3, <1>6, Undisturbed DEF EdgeRefuses
<1>7. QED
  BY <1>5, <1>6 DEF IInv

\* A call falls in the gap.
LEMMA InvFallsInTheGap ==
    ASSUME IInv, TypeOK', NEW c \in Callers, FallsInTheGap(c) PROVE IInv'
<1> DEFINE k == call[c]
<1>t. TypeOK /\ k \in CallRecords
  BY DEF IInv, TypeOK
<1>1. PICK place \in {"failed", "silent"} : call' = [call EXCEPT ![c] = InGap(k, place)]
  BY DEF FallsInTheGap
<1>c. call'[c] = InGap(k, place)
  BY <1>1 DEF IInv, TypeOK
<1>2. k.at = "asleep" /\ c \notin refused
  BY RefusedStaysAway DEF FallsInTheGap, Arrives
<1>f. /\ call'[c].at = place /\ call'[c].attempt = k.attempt
      /\ call'[c].byWindow = k.byWindow
      /\ call'[c].byEdge = k.byEdge /\ call'[c].byGap = k.byGap + 1
  BY <1>c, <1>t, FieldsBuilt
<1>n. {k.attempt, k.byWindow, k.byEdge, k.byGap} \subseteq Nat
  BY <1>t DEF CallRecords
<1>3. InGap(k, place).at # "served" /\ k.at # "served"
  BY <1>c, <1>2, <1>f
<1>4. Served' = Served
  BY <1>1, <1>3, <1>t, SameServed
<1>p. Paced(c)
  BY DEF IInv
<1>5. Paced(c)'
  <2>1. AsksForAWindow(call[c])'
    BY <1>f DEF AsksForAWindow
  <2>2. WaitsForTheTurn(c)'
    BY <1>2 DEF WaitsForTheTurn, FallsInTheGap
  <2>3. BehindFullWindows(c)'
    BY <1>4, <1>f, <1>p DEF Paced, BehindFullWindows, FallsInTheGap
  <2>4. CountsAttempts(call[c])'
    BY <1>2, <1>f, <1>n, <1>p DEF Paced, CountsAttempts
  <2>5. QED
    BY <2>1, <2>2, <2>3, <2>4 DEF Paced
<1>6. ASSUME NEW d \in Callers, d # c PROVE Paced(d)'
  BY <1>1, <1>3, <1>6, Undisturbed DEF FallsInTheGap
<1>7. QED
  BY <1>5, <1>6 DEF IInv

\* A call goes to sleep, for at least what its headers asked.
LEMMA InvSleeps ==
    ASSUME IInv, TypeOK', NEW c \in Callers, Sleeps(c) PROVE IInv'
<1> DEFINE k == call[c]
<1>t. TypeOK /\ k \in CallRecords
  BY DEF IInv, TypeOK
<1>1. call' = [call EXCEPT ![c] = Asleep(k)] /\ call'[c] = Asleep(k)
  BY DEF Sleeps, IInv, TypeOK
<1>2. k.at \in {"limited", "failed", "silent"}
  BY DEF Sleeps, TurnedAway
<1>f. /\ call'[c].at = "asleep" /\ call'[c].attempt = k.attempt + 1
      /\ call'[c].sleep = Wait(k) /\ call'[c].byWindow = k.byWindow
      /\ call'[c].byEdge = k.byEdge /\ call'[c].byGap = k.byGap
  BY <1>1, <1>t, FieldsBuilt
<1>3. Asleep(k).at # "served" /\ k.at # "served"
  BY <1>1, <1>2, <1>f
<1>4. Served' = Served
  BY <1>1, <1>3, <1>t, SameServed
<1>p. Paced(c)
  BY DEF IInv
<1>5. Paced(c)'
  <2>1. AsksForAWindow(call[c])'
    BY <1>f DEF AsksForAWindow
  <2>2. WaitsForTheTurn(c)'
    <3> SUFFICES ASSUME c \in refused PROVE Wait(k) >= left
      BY <1>f DEF WaitsForTheTurn, Sleeps
    <3>1. k.at = "limited" /\ k.headers.reset >= left
      BY <1>2, <1>p DEF Paced, WaitsForTheTurn
    <3>2. Wait(k) >= k.headers.reset /\ Wait(k) \in Nat
      BY <3>1, <1>t, <1>p, WaitReadsHeaders, WaitType DEF Paced
    <3>3. k.headers.reset \in Int /\ left \in Int
      BY <1>t, Parameters DEF CallRecords, Headers, Absent, TypeOK
    <3>4. QED
      BY <3>1, <3>2, <3>3
  <2>3. BehindFullWindows(c)'
    BY <1>4, <1>f, <1>p DEF Paced, BehindFullWindows, Sleeps
  <2>4. CountsAttempts(call[c])'
    BY <1>2, <1>f, <1>p DEF Paced, CountsAttempts
  <2>5. QED
    BY <2>1, <2>2, <2>3, <2>4 DEF Paced
<1>6. ASSUME NEW d \in Callers, d # c PROVE Paced(d)'
  BY <1>1, <1>3, <1>6, Undisturbed DEF Sleeps
<1>7. QED
  BY <1>5, <1>6 DEF IInv

\* A call gives up: no wait a limiter asks for is too long, so its attempts are
\* spent, unless something else turned it away as well.
LEMMA InvGivesUp ==
    ASSUME IInv, TypeOK', NEW c \in Callers, GivesUp(c) PROVE IInv'
<1> DEFINE k == call[c]
           j == [k EXCEPT !.at = "gaveup"]
<1>t. TypeOK /\ k \in CallRecords
  BY DEF IInv, TypeOK
<1>1. call' = [call EXCEPT ![c] = j] /\ call'[c] = j
  BY DEF GivesUp, IInv, TypeOK
<1>2. k.at \in {"limited", "failed", "silent"}
  BY DEF GivesUp, TurnedAway
<1>f. /\ call'[c].at = "gaveup" /\ call'[c].attempt = k.attempt
      /\ call'[c].byWindow = k.byWindow
      /\ call'[c].byEdge = k.byEdge /\ call'[c].byGap = k.byGap
  BY <1>1, <1>t DEF CallRecords
<1>n. {k.attempt, k.byWindow, k.byEdge, k.byGap, Retries} \subseteq Nat
  BY <1>t, Parameters DEF CallRecords
<1>3. j.at # "served" /\ k.at # "served"
  BY <1>1, <1>2, <1>f
<1>4. Served' = Served
  BY <1>1, <1>3, <1>t, SameServed
<1>p. Paced(c)
  BY DEF IInv
<1>5. Paced(c)'
  <2>1. AsksForAWindow(call[c])'
    BY <1>f DEF AsksForAWindow
  <2>2. WaitsForTheTurn(c)'
    BY <1>f DEF WaitsForTheTurn
  <2>3. BehindFullWindows(c)'
    BY <1>4, <1>f, <1>p DEF Paced, BehindFullWindows, GivesUp
  <2>4. k.at = "limited" => k.attempt >= Retries
    <3>1. k.at = "limited" => Wait(k) <= MaxWait
      BY <1>t, <1>p, WaitReadsHeaders DEF Paced
    <3>2. QED
      BY <3>1, <1>n DEF GivesUp, WorthAnother
  <2>5. CountsAttempts(call[c])'
    BY <2>4, <1>2, <1>f, <1>n, <1>p DEF Paced, CountsAttempts
  <2>6. QED
    BY <2>1, <2>2, <2>3, <2>5 DEF Paced
<1>6. ASSUME NEW d \in Callers, d # c PROVE Paced(d)'
  BY <1>1, <1>3, <1>6, Undisturbed DEF GivesUp
<1>7. QED
  BY <1>5, <1>6 DEF IInv

\* Every step keeps the invariant.
LEMMA InvStep == IInv /\ [Next]_vars => IInv'
<1> SUFFICES ASSUME IInv, [Next]_vars PROVE IInv'
  OBVIOUS
<1>t. TypeOK'
  BY TypeStep DEF IInv
<1>1. CASE Tick
  BY <1>1, <1>t, InvTick
<1>2. CASE GapBegins \/ UNCHANGED vars
  <2>1. UNCHANGED <<left, used, refused, call>>
    BY <1>2 DEF GapBegins, vars
  <2>2. Served' = Served
    BY <2>1 DEF Served
  <2>3. ASSUME NEW c \in Callers PROVE Paced(c)'
    <3>1. Paced(c)
      BY DEF IInv
    <3>2. QED
      BY <2>1, <2>2, <3>1
         DEF Paced, AsksForAWindow, WaitsForTheTurn, BehindFullWindows, CountsAttempts
  <2>4. QED
    BY <2>3, <1>t DEF IInv
<1>3. ASSUME NEW c \in Callers, Serves(c) PROVE IInv'
  BY <1>3, <1>t, InvServes
<1>4. ASSUME NEW c \in Callers, Refuses(c) PROVE IInv'
  BY <1>4, <1>t, InvRefuses
<1>5. ASSUME NEW c \in Callers, EdgeRefuses(c) PROVE IInv'
  BY <1>5, <1>t, InvEdgeRefuses
<1>6. ASSUME NEW c \in Callers, FallsInTheGap(c) PROVE IInv'
  BY <1>6, <1>t, InvFallsInTheGap
<1>7. ASSUME NEW c \in Callers, Sleeps(c) PROVE IInv'
  BY <1>7, <1>t, InvSleeps
<1>8. ASSUME NEW c \in Callers, GivesUp(c) PROVE IInv'
  BY <1>8, <1>t, InvGivesUp
<1>9. QED
  BY <1>1, <1>2, <1>3, <1>4, <1>5, <1>6, <1>7, <1>8 DEF Next

\* The invariant holds throughout.
THEOREM PacedThroughout == Spec => []IInv
  BY InvInit, InvStep, PTL DEF Spec

-----------------------------------------------------------------------------
\* "Neither too little (and refused again)": whichever way the headers are read
\* and however late an answer is, no window refuses the same call twice.
THEOREM NeverRefusedTwice == Spec => NotRefusedTwice
<1>1. ASSUME IInv, [Next]_vars, NEW c \in Callers,
             call'[c].byWindow # call[c].byWindow
      PROVE  c \notin refused
  <2>t. TypeOK /\ \A d \in Callers : call[d] \in CallRecords
    BY <1>1 DEF IInv, TypeOK
  <2>1. CASE Tick \/ GapBegins \/ UNCHANGED vars
    BY <1>1, <2>1, <2>t DEF Tick, GapBegins, vars, CallRecords
  <2>2. ASSUME NEW d \in Callers, Refuses(d) PROVE c \notin refused
    <3>1. d = c
      BY <1>1, <2>2, <2>t DEF Refuses, TypeOK
    <3>2. QED
      BY <1>1, <2>2, <3>1, RefusedStaysAway DEF Refuses
  <2>3. ASSUME NEW d \in Callers,
               Serves(d) \/ EdgeRefuses(d) \/ FallsInTheGap(d) \/ Sleeps(d) \/ GivesUp(d)
        PROVE  c \notin refused
    <3>1. /\ ByEdge(call[d]).byWindow = call[d].byWindow
          /\ \A p : InGap(call[d], p).byWindow = call[d].byWindow
          /\ Asleep(call[d]).byWindow = call[d].byWindow
          /\ \A p : [call[d] EXCEPT !.at = p].byWindow = call[d].byWindow
      BY <2>t, FieldsBuilt DEF CallRecords
    <3>2. call'[c].byWindow = call[c].byWindow
      BY <2>3, <3>1, <2>t
         DEF TypeOK, Serves, EdgeRefuses, FallsInTheGap, Sleeps, GivesUp, CallRecords
    <3>3. QED
      BY <1>1, <3>2
  <2>4. QED
    BY <1>1, <2>1, <2>2, <2>3 DEF Next
<1>2. IInv /\ [Next]_vars
        => [\A c \in Callers : call'[c].byWindow # call[c].byWindow => c \notin refused]_vars
  BY <1>1
<1>3. QED
  BY PacedThroughout, <1>2, PTL DEF Spec, NotRefusedTwice

\* A burst of as many calls as the windows of all attempts can serve gets
\* through: the limiter alone makes nobody give up.
THEOREM EveryBurstGetsThrough == Spec => []BurstGetsThrough
<1>1. IInv => BurstGetsThrough
  <2> SUFFICES ASSUME IInv, NEW c \in Callers, call[c].at = "gaveup",
                      call[c].byEdge + call[c].byGap = 0
               PROVE  Cardinality(Callers) > Limit * (Retries + 1)
    BY DEF BurstGetsThrough
  <2> DEFINE k == call[c]
  <2>n. /\ {k.attempt, k.byWindow, k.byEdge, k.byGap, Retries, Limit} \subseteq Nat
        /\ used \in Nat
    BY Parameters DEF IInv, TypeOK, CallRecords
  <2>p. Paced(c)
    BY DEF IInv
  <2>1. k.byWindow >= Retries + 1
    <3>1. CountsAttempts(k) /\ k.at = "gaveup" /\ k.byEdge + k.byGap = 0
      BY <2>p DEF Paced
    <3>2. k.attempt >= Retries /\ k.attempt + 1 = k.byWindow + k.byEdge + k.byGap
      BY <3>1 DEF CountsAttempts
    <3>3. QED
      BY <3>1, <3>2, <2>n
  <2>2. Limit * (Retries + 1) <= Limit * k.byWindow
    <3>1. Retries + 1 \in Nat /\ k.byWindow \in Nat /\ Limit \in Nat
      BY <2>n
    <3>2. Retries + 1 <= k.byWindow
      BY <2>1, <3>1
    <3>3. QED
      BY <3>1, <3>2, MoreOfIt, Zenon
  <2>3. Limit * k.byWindow <= Cardinality(Served)
    <3>1. Limit * k.byWindow \in Nat /\ Cardinality(Served) \in Nat
      BY <2>n, ServedFinite
    <3>2. QED
      BY <3>1, <2>n, <2>p DEF Paced, BehindFullWindows
  <2>4. Cardinality(Served) < Cardinality(Callers)
    BY ServedFinite DEF Served
  <2>5. /\ Cardinality(Callers) \in Nat /\ Cardinality(Served) \in Nat
        /\ Limit * k.byWindow \in Nat /\ Limit * (Retries + 1) \in Nat
    BY <2>n, ServedFinite, Parameters, FS_CardinalityType
  <2>6. QED
    BY <2>2, <2>3, <2>4, <2>5
<1>2. QED
  BY <1>1, PacedThroughout, PTL

-----------------------------------------------------------------------------
(* The gap *)

\* A call that only the gap turned away has been at it for as long as its backoffs
\* took, since the gap began.
InTheGap(c) ==
    LET k == call[c] IN
    /\ k.byGap > 0 => gap # Absent
    /\ k.at = "limited" => k.byEdge + k.byWindow > 0
    /\ k.byEdge + k.byWindow = 0 =>
        /\ k.at = "asleep" /\ gap > 0 => GapLength - gap + k.sleep >= Waited(k.attempt)
        /\ k.at \in {"failed", "silent"} =>
              /\ GapLength > Waited(k.attempt)
              /\ gap > 0 => GapLength - gap >= Waited(k.attempt)
        /\ k.at = "gaveup" => GapLength > Waited(Retries)

GapInv == gap <= GapLength /\ \A c \in Callers : InTheGap(c)

\* The backoffs add up, and none of them is too long to be waited.
LEMMA BackoffsAddUp ==
    /\ Waited(0) = 0
    /\ \A n \in Nat : Waited(n) \in Nat /\ Waited(n + 1) = Waited(n) + Backoff(n)
    /\ \A m, n \in Nat : m <= n => Waited(m) <= Waited(n)
<1> DEFINE Closed(n) == IF n < 5 THEN IF n = 0 THEN 0 ELSE IF n = 1 THEN 1 ELSE IF n = 2 THEN 3
                                      ELSE IF n = 3 THEN 7 ELSE 15
                        ELSE 15 + 16 * (n - 4)
<1>1. \A n \in Nat : Waited(n) = Closed(n)
  <2>1. ASSUME NEW n \in Nat PROVE Waited(n) = Closed(n)
    <3>1. CASE n < 5
      <4>1. n = 0 \/ n = 1 \/ n = 2 \/ n = 3 \/ n = 4
        BY <3>1
      <4>2. QED
        BY <4>1 DEF Waited
    <3>2. CASE ~(n < 5)
      BY <3>2 DEF Waited
    <3>3. QED
      BY <3>1, <3>2
  <2>2. QED
    BY <2>1
<1>2. \A n \in Nat : Backoff(n) = IF n >= 4 THEN 16 ELSE IF n = 0 THEN 1 ELSE IF n = 1 THEN 2
                                 ELSE IF n = 2 THEN 4 ELSE 8
  <2>1. ASSUME NEW n \in Nat, n < 4 PROVE n = 0 \/ n = 1 \/ n = 2 \/ n = 3
    BY <2>1
  <2>2. QED
    BY <2>1 DEF Backoff
<1>3. \A n \in Nat : Closed(n) \in Nat /\ Closed(n + 1) = Closed(n) + Backoff(n)
  BY <1>2
<1>4. \A m, n \in Nat : m <= n => Closed(m) <= Closed(n)
  OBVIOUS
<1>5. Closed(0) = 0
  OBVIOUS
<1> HIDE DEF Closed
<1>6. QED
  BY <1>1, <1>3, <1>4, <1>5

\* A step of one call leaves what the gap has done to the others.
LEMMA OthersInTheGap ==
    ASSUME IInv, GapInv, NEW c \in Callers, NEW k, call' = [call EXCEPT ![c] = k], gap' = gap,
           NEW d \in Callers, d # c
    PROVE  InTheGap(d)'
<1>1. call'[d] = call[d]
  BY DEF IInv, TypeOK
<1>2. QED
  BY <1>1 DEF GapInv, InTheGap

\* Nobody has met the gap before it begins.
LEMMA GapInvInit == Init => GapInv
<1>1. SUFFICES ASSUME Init PROVE GapInv
  OBVIOUS
<1>2. gap = Absent /\ gap <= GapLength
  BY <1>1, Parameters DEF Init, Absent
<1>3. ASSUME NEW c \in Callers PROVE InTheGap(c)
  <2>1. call[c].at = "asleep" /\ call[c].byGap = 0
    BY <1>1 DEF Init
  <2>2. QED
    BY <1>2, <2>1 DEF InTheGap, Absent
<1>4. QED
  BY <1>2, <1>3 DEF GapInv

\* The gap begins, and whoever has met nothing else has not been sent yet.
LEMMA GapInvBegins ==
    ASSUME IInv, GapInv, GapBegins
    PROVE  GapInv'
<1>1. gap = Absent /\ gap' = GapLength /\ call' = call
  BY DEF GapBegins
<1>2. GapLength \in Nat
  BY Parameters
<1>3. ASSUME NEW c \in Callers PROVE InTheGap(c)'
  <2>1. call[c] \in CallRecords /\ CountsAttempts(call[c]) /\ InTheGap(c)
    BY DEF IInv, TypeOK, Paced, GapInv
  <2>2. /\ call[c].byGap = 0 /\ call[c].sleep \in Nat /\ call[c].attempt \in Nat
        /\ call[c].byEdge \in Nat /\ call[c].byWindow \in Nat
    BY <1>1, <2>1 DEF InTheGap, CallRecords
  <2>3. call[c].at \notin {"failed", "silent"}
    BY <2>1, <2>2 DEF CountsAttempts
  <2>4. call[c].at = "asleep" /\ call[c].byEdge + call[c].byWindow = 0 => call[c].attempt = 0
    BY <2>1, <2>2 DEF CountsAttempts
  <2>5. GapLength - gap' + call[c].sleep >= 0
    BY <1>1, <1>2, <2>2
  <2>6. QED
    BY <1>1, <2>1, <2>2, <2>3, <2>4, <2>5, BackoffsAddUp DEF InTheGap
<1>4. QED
  BY <1>1, <1>2, <1>3 DEF GapInv

\* The gap and the sleeps run down together.
LEMMA GapInvTick ==
    ASSUME IInv, GapInv, Tick
    PROVE  GapInv'
<1>1. gap' = Less(gap) /\ call' = [c \in Callers |-> [call[c] EXCEPT !.sleep = Less(@)]]
  BY DEF Tick
<1>2. GapLength \in Nat /\ gap \in Nat \cup {Absent} /\ gap \in Int /\ gap <= GapLength
  BY Parameters DEF IInv, TypeOK, Absent, GapInv
<1>3. /\ gap' <= GapLength /\ (gap = Absent <=> gap' = Absent) /\ gap' \in Int
      /\ gap' > 0 => gap' = gap - 1 /\ gap > 0
  BY <1>1, <1>2 DEF Less, Absent
<1>4. ASSUME NEW c \in Callers PROVE InTheGap(c)'
  <2>1. call[c] \in CallRecords /\ InTheGap(c)
    BY DEF IInv, TypeOK, GapInv
  <2>2. /\ call'[c].at = call[c].at /\ call'[c].attempt = call[c].attempt
        /\ call'[c].sleep = Less(call[c].sleep) /\ call'[c].byWindow = call[c].byWindow
        /\ call'[c].byEdge = call[c].byEdge /\ call'[c].byGap = call[c].byGap
    BY <1>1, <2>1 DEF CallRecords
  <2>3. call[c].sleep \in Nat /\ call[c].attempt \in Nat /\ Waited(call[c].attempt) \in Nat
    BY <2>1, BackoffsAddUp DEF CallRecords
  <2>4. Less(call[c].sleep) \in Nat /\ Less(call[c].sleep) >= call[c].sleep - 1
    BY <2>3 DEF Less
  <2>5. gap' > 0 => /\ GapLength - gap' + Less(call[c].sleep) >= GapLength - gap + call[c].sleep
                   /\ GapLength - gap' >= GapLength - gap
    BY <1>2, <1>3, <2>3, <2>4
  <2>6. ASSUME gap' > 0, call[c].at = "asleep", call[c].byEdge + call[c].byWindow = 0
        PROVE  GapLength - gap' + Less(call[c].sleep) >= Waited(call[c].attempt)
    <3>1. GapLength - gap + call[c].sleep >= Waited(call[c].attempt)
      BY <1>3, <2>1, <2>6 DEF InTheGap
    <3>2. QED
      BY <1>2, <1>3, <2>3, <2>4, <2>5, <2>6, <3>1
  <2>7. ASSUME gap' > 0, call[c].at \in {"failed", "silent"}, call[c].byEdge + call[c].byWindow = 0
        PROVE  GapLength - gap' >= Waited(call[c].attempt)
    <3>1. GapLength - gap >= Waited(call[c].attempt)
      BY <1>3, <2>1, <2>7 DEF InTheGap
    <3>2. QED
      BY <1>2, <1>3, <2>3, <2>5, <2>7, <3>1
  <2>8. QED
    BY <1>3, <2>1, <2>2, <2>6, <2>7 DEF InTheGap
<1>5. QED
  BY <1>3, <1>4 DEF GapInv

\* A request of a call that nothing else turned away is in the gap as late as its
\* backoffs took; so the gap is longer.
LEMMA GapInvFalls ==
    ASSUME IInv, GapInv, NEW c \in Callers, FallsInTheGap(c)
    PROVE  GapInv'
<1> DEFINE k == call[c]
<1>1. PICK place \in {"failed", "silent"} : call' = [call EXCEPT ![c] = InGap(k, place)]
  BY DEF FallsInTheGap
<1>2. k \in CallRecords /\ k.at = "asleep" /\ k.sleep = 0 /\ gap > 0 /\ gap' = gap
  BY DEF FallsInTheGap, Arrives, Gone, IInv, TypeOK
<1>3. call'[c] = InGap(k, place)
  BY <1>1 DEF IInv, TypeOK
<1>4. /\ call'[c].at = place /\ call'[c].attempt = k.attempt /\ call'[c].byWindow = k.byWindow
      /\ call'[c].byEdge = k.byEdge
  BY <1>2, <1>3, FieldsBuilt
<1>5. /\ GapLength \in Nat /\ gap \in Int /\ k.attempt \in Nat /\ Waited(k.attempt) \in Nat
  BY <1>2, Parameters, BackoffsAddUp DEF IInv, TypeOK, Absent, CallRecords
<1>6. k.byEdge + k.byWindow = 0 => GapLength - gap >= Waited(k.attempt)
  BY <1>2, <1>5 DEF GapInv, InTheGap
<1>7. k.byEdge + k.byWindow = 0 => GapLength > Waited(k.attempt)
  BY <1>2, <1>5, <1>6
<1>8. gap' # Absent
  BY <1>2, <1>5 DEF Absent
<1>9. InTheGap(c)'
  BY <1>1, <1>2, <1>4, <1>6, <1>7, <1>8 DEF InTheGap
<1>10. ASSUME NEW d \in Callers, d # c PROVE InTheGap(d)'
  BY <1>1, <1>2, <1>10, OthersInTheGap
<1>11. QED
  BY <1>2, <1>9, <1>10 DEF GapInv

\* It backs off for as long as the attempt asks.
LEMMA GapInvSleeps ==
    ASSUME IInv, GapInv, NEW c \in Callers, Sleeps(c)
    PROVE  GapInv'
<1> DEFINE k == call[c]
<1>1. /\ call' = [call EXCEPT ![c] = Asleep(k)] /\ call'[c] = Asleep(k) /\ gap' = gap
      /\ k \in CallRecords /\ k.at \in {"limited", "failed", "silent"}
  BY DEF Sleeps, TurnedAway, IInv, TypeOK
<1>2. /\ call'[c].at = "asleep" /\ call'[c].attempt = k.attempt + 1 /\ call'[c].sleep = Wait(k)
      /\ call'[c].byWindow = k.byWindow /\ call'[c].byEdge = k.byEdge
      /\ call'[c].byGap = k.byGap
  BY <1>1, FieldsBuilt
<1>3. /\ GapLength \in Nat /\ gap \in Int /\ k.attempt \in Nat /\ Waited(k.attempt) \in Nat
      /\ Backoff(k.attempt) \in Nat
      /\ Waited(k.attempt + 1) = Waited(k.attempt) + Backoff(k.attempt)
  <2>1. GapLength \in Nat /\ gap \in Int /\ k.attempt \in Nat
    BY <1>1, Parameters DEF IInv, TypeOK, Absent, CallRecords
  <2>2. Backoff(k.attempt) \in 1 .. 16
    BY <2>1, BackoffType
  <2>3. Backoff(k.attempt) \in Nat
    BY <2>2
  <2>4. Waited(k.attempt) \in Nat /\ Waited(k.attempt + 1) = Waited(k.attempt) + Backoff(k.attempt)
    BY <2>1, BackoffsAddUp
  <2>5. QED
    BY <2>1, <2>3, <2>4
<1>4. ASSUME k.byEdge + k.byWindow = 0, gap > 0
      PROVE  GapLength - gap + Wait(k) >= Waited(k.attempt + 1)
  <2>1. k.at \in {"failed", "silent"}
    BY <1>1, <1>4 DEF GapInv, InTheGap
  <2>2. GapLength - gap >= Waited(k.attempt)
    BY <1>4, <2>1 DEF GapInv, InTheGap
  <2>3. Wait(k) = Backoff(k.attempt)
    BY <2>1 DEF Wait
  <2>4. QED
    BY <1>3, <2>2, <2>3
<1>5. InTheGap(c)'
  <2>1. InTheGap(c)
    BY DEF GapInv
  <2>2. QED
    BY <1>1, <1>2, <1>4, <2>1 DEF InTheGap
<1>6. ASSUME NEW d \in Callers, d # c PROVE InTheGap(d)'
  BY <1>1, <1>6, OthersInTheGap
<1>7. QED
  BY <1>1, <1>5, <1>6 DEF GapInv

\* It gives up when its attempts are spent: no backoff is too long to be waited.
LEMMA GapInvGivesUp ==
    ASSUME IInv, GapInv, NEW c \in Callers, GivesUp(c)
    PROVE  GapInv'
<1> DEFINE k == call[c]
           j == [k EXCEPT !.at = "gaveup"]
<1>1. /\ call' = [call EXCEPT ![c] = j] /\ call'[c] = j /\ gap' = gap /\ ~WorthAnother(k)
      /\ k \in CallRecords /\ k.at \in {"limited", "failed", "silent"}
  BY DEF GivesUp, TurnedAway, IInv, TypeOK
<1>2. /\ call'[c].at = "gaveup" /\ call'[c].attempt = k.attempt
      /\ call'[c].byWindow = k.byWindow /\ call'[c].byEdge = k.byEdge
      /\ call'[c].byGap = k.byGap
  BY <1>1 DEF CallRecords
<1>3. GapLength \in Nat /\ k.attempt \in Nat /\ Retries \in Nat
  BY <1>1, Parameters DEF CallRecords
<1>4. ASSUME k.byEdge + k.byWindow = 0 PROVE GapLength > Waited(Retries)
  <2>1. k.at \in {"failed", "silent"} /\ GapLength > Waited(k.attempt)
    BY <1>1, <1>4 DEF GapInv, InTheGap
  <2>2. k.attempt < Retries => Backoff(k.attempt) <= MaxWait
    BY <1>3, BackoffAssumption
  <2>3. Wait(k) = Backoff(k.attempt)
    BY <2>1 DEF Wait
  <2>4. k.attempt >= Retries
    BY <1>1, <1>3, <2>2, <2>3 DEF WorthAnother
  <2>5. /\ Waited(Retries) <= Waited(k.attempt)
        /\ Waited(Retries) \in Nat /\ Waited(k.attempt) \in Nat
    BY <1>3, <2>4, BackoffsAddUp
  <2>6. QED
    BY <1>3, <2>1, <2>5
<1>5. InTheGap(c)'
  BY <1>1, <1>2, <1>4 DEF GapInv, InTheGap
<1>6. ASSUME NEW d \in Callers, d # c PROVE InTheGap(d)'
  BY <1>1, <1>6, OthersInTheGap
<1>7. QED
  BY <1>1, <1>5, <1>6 DEF GapInv

\* The limiter and the edge turn away, and whom they have turned away the gap
\* does not account for.
LEMMA GapInvRefused ==
    ASSUME IInv, GapInv, NEW c \in Callers, Serves(c) \/ Refuses(c) \/ EdgeRefuses(c)
    PROVE  GapInv'
<1> DEFINE k == call[c]
<1>1. gap' = gap /\ k \in CallRecords /\ InTheGap(c)
  BY DEF Serves, Refuses, EdgeRefuses, IInv, TypeOK, GapInv
<1>2. PICK j : call' = [call EXCEPT ![c] = j] /\ j = call'[c]
                 /\ (\/ j = [k EXCEPT !.at = "served"]
                     \/ j = ByEdge(k)
                     \/ \E s \in Asked : j = ByWindow(k, s))
  <2>1. CASE Serves(c)
    BY <2>1 DEF Serves, IInv, TypeOK
  <2>2. CASE Refuses(c)
    BY <2>2 DEF Refuses, IInv, TypeOK
  <2>3. CASE EdgeRefuses(c)
    BY <2>3 DEF EdgeRefuses, IInv, TypeOK
  <2>4. QED
    BY <2>1, <2>2, <2>3
<1>3. k.byEdge \in Nat /\ k.byWindow \in Nat
  BY <1>1 DEF CallRecords
<1>4. /\ j.byGap = k.byGap
      /\ \/ j.at = "served"
         \/ j.at = "limited" /\ j.byEdge = k.byEdge + 1 /\ j.byWindow = k.byWindow
         \/ j.at = "limited" /\ j.byEdge = k.byEdge /\ j.byWindow = k.byWindow + 1
  <2>1. CASE j = [k EXCEPT !.at = "served"]
    BY <1>1, <2>1 DEF CallRecords
  <2>2. CASE j = ByEdge(k)
    BY <1>1, <2>2, FieldsBuilt
  <2>3. ASSUME NEW s \in Asked, j = ByWindow(k, s)
        PROVE  j.byGap = k.byGap /\ j.at = "limited" /\ j.byEdge = k.byEdge
               /\ j.byWindow = k.byWindow + 1
    <3>1. /\ ByWindow(k, s).byGap = k.byGap /\ ByWindow(k, s).at = "limited"
          /\ ByWindow(k, s).byEdge = k.byEdge /\ ByWindow(k, s).byWindow = k.byWindow + 1
      BY <1>1 DEF ByWindow, CallRecords
    <3>2. QED
      BY <2>3, <3>1
  <2>4. QED
    BY <1>2, <2>1, <2>2, <2>3
<1>5. InTheGap(c)'
  <2>1. j.at \in {"limited", "served"}
    BY <1>4
  <2>2. j.at = "limited" => j.byEdge + j.byWindow > 0
    BY <1>3, <1>4
  <2>3. QED
    BY <1>1, <1>2, <1>4, <2>1, <2>2 DEF InTheGap
<1>6. ASSUME NEW d \in Callers, d # c PROVE InTheGap(d)'
  BY <1>1, <1>2, <1>6, OthersInTheGap
<1>7. QED
  BY <1>1, <1>5, <1>6 DEF GapInv

\* Every step keeps the invariant of the gap, on top of the other one.
LEMMA GapInvStep == IInv /\ GapInv /\ [Next]_vars => GapInv'
<1> SUFFICES ASSUME IInv, GapInv, [Next]_vars PROVE GapInv'
  OBVIOUS
<1>1. CASE UNCHANGED vars
  BY <1>1 DEF vars, GapInv, InTheGap
<1>2. CASE Next
  BY <1>2, GapInvTick, GapInvBegins, GapInvRefused, GapInvFalls, GapInvSleeps, GapInvGivesUp
     DEF Next
<1>3. QED
  BY <1>1, <1>2

\* "A gap, not a refusal": for any number of retries, a call that meets nothing but
\* the gap outlives every gap that is no longer than its backoffs together.
THEOREM EveryGapIsRiddenOut == Spec => []RidesOutTheGap
<1>1. GapInv => RidesOutTheGap
  BY DEF GapInv, InTheGap, RidesOutTheGap
<1>2. Spec => []GapInv
  BY GapInvInit, GapInvStep, PacedThroughout, PTL DEF Spec
<1>3. QED
  BY <1>1, <1>2, PTL
=============================================================================
