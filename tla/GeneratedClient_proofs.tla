------------------------ MODULE GeneratedClient_proofs ------------------------
(***************************************************************************)
(* Proofs about the generated client: about its paginators, for a list of  *)
(* any length, any limit, offset and ceiling and any number of moves; and  *)
(* about its calls that write, for any choice of them and any number of    *)
(* calls, retries and foreign writes.                                      *)
(***************************************************************************)
EXTENDS GeneratedClient, SequenceTheorems, TLAPS

-------------------------------------------------------------------------------
(* The paginators *)

\* A paginator is generated only for an operation that takes a limit and an
\* offset.
LEMMA PagedTakesItsWindow ==
    \A o \in Paged : {"limit", "offset"} \subseteq operations[o].query
BY DEF Paged, Window

\* A page is the rows behind the offset, as many as were asked for, served and
\* there.
LEMMA PageRows ==
    ASSUME Reading!WalkConstants, Reading!TypeOK
    PROVE  /\ Reading!Answered \in Seq(Nat)
           /\ \A k \in 1 .. Len(Reading!Answered) :
                 offset + k \in 1 .. Len(list) /\ Reading!Answered[k] = list[offset + k]
           /\ asked.window \in 1 .. Ceiling /\ Len(Reading!Answered) < asked.window
                 => Len(list) <= offset + Len(Reading!Answered)
<1> DEFINE room == Reading!Served(asked.window)
           to   == offset + room
           last == IF to < Len(list) THEN to ELSE Len(list)
<1>1. /\ list \in Seq(Nat) /\ offset \in Nat /\ asked.window \in Nat /\ asked.op \in Paged
      /\ Len(list) \in Nat /\ Ceiling \in Nat /\ Ceiling > 0
  BY DEF Reading!TypeOK, Reading!WalkConstants
<1>2. room \in Nat /\ (asked.window \in 1 .. Ceiling => room = asked.window)
  BY <1>1 DEF Reading!Served
<1>3. Reading!Answered = SubSeq(list, offset + 1, last)
  BY <1>1, PagedTakesItsWindow DEF Reading!Answered, Reading!Served
<1> HIDE DEF room
<1>4. last \in Nat /\ last <= Len(list)
  BY <1>1, <1>2
<1>5. \A k \in offset + 1 .. last : list[k] \in Nat
  BY <1>1, <1>4
<1>6. /\ Reading!Answered \in Seq(Nat)
      /\ Len(Reading!Answered) = IF offset + 1 <= last THEN last - offset ELSE 0
      /\ \A k \in 1 .. last - offset : Reading!Answered[k] = list[offset + k]
  <2>1. /\ SubSeq(list, offset + 1, last) \in Seq(Nat)
        /\ Len(SubSeq(list, offset + 1, last)) = IF offset + 1 <= last
               THEN last - (offset + 1) + 1 ELSE 0
        /\ \A k \in 1 .. last - (offset + 1) + 1 :
               SubSeq(list, offset + 1, last)[k] = list[offset + 1 + k - 1]
    <3> HIDE DEF last
    <3>1. QED
      BY <1>1, <1>4, <1>5, SubSeqProperties, SMT
  <2> HIDE DEF last
  <2>2. QED
    BY <2>1, <1>1, <1>3, <1>4
<1>7. ASSUME NEW k \in 1 .. Len(Reading!Answered)
      PROVE  offset + k \in 1 .. Len(list) /\ Reading!Answered[k] = list[offset + k]
  <2>1. k \in 1 .. last - offset
    BY <1>1, <1>4, <1>6
  <2>2. QED
    BY <1>1, <1>4, <1>6, <2>1
<1>8. asked.window \in 1 .. Ceiling /\ Len(Reading!Answered) < asked.window
          => Len(list) <= offset + Len(Reading!Answered)
  BY <1>1, <1>2, <1>4, <1>6
<1>9. QED
  BY <1>6, <1>7, <1>8

\* What putting a row in does to the others.
LEMMA InsertRows ==
    ASSUME NEW s \in Seq(Nat), NEW i \in 1 .. Len(s), NEW r \in Nat
    PROVE  /\ Reading!InsertAt(s, i, r) \in Seq(Nat)
           /\ Len(Reading!InsertAt(s, i, r)) = Len(s) + 1
           /\ \A j \in 1 .. Len(s) + 1 :
                 Reading!InsertAt(s, i, r)[j] = IF j < i THEN s[j] ELSE IF j = i THEN r ELSE s[j - 1]
<1> DEFINE front == SubSeq(s, 1, i - 1)
           back  == SubSeq(s, i, Len(s))
           upTo  == front \o <<r>>
<1>1. front \in Seq(Nat) /\ Len(front) = i - 1 /\ \A j \in 1 .. i - 1 : front[j] = s[j]
  OBVIOUS
<1>2. back \in Seq(Nat) /\ Len(back) = Len(s) - i + 1 /\ \A j \in 1 .. Len(s) - i + 1 :
          back[j] = s[i + j - 1]
  BY SMTT(30)
<1>3. Reading!InsertAt(s, i, r) = upTo \o back
  BY DEF Reading!InsertAt
<1> HIDE DEF front, back
<1>4. <<r>> \in Seq(Nat) /\ Len(<<r>>) = 1 /\ <<r>>[1] = r
  OBVIOUS
<1>5. /\ upTo \in Seq(Nat) /\ Len(upTo) = i
      /\ \A j \in 1 .. i : upTo[j] = IF j < i THEN s[j] ELSE r
  <2>1. /\ upTo \in Seq(Nat) /\ Len(upTo) = Len(front) + Len(<<r>>)
        /\ \A j \in 1 .. Len(front) + Len(<<r>>) :
              upTo[j] = IF j <= Len(front) THEN front[j] ELSE <<r>>[j - Len(front)]
    BY <1>1, <1>4, ConcatProperties
  <2> HIDE DEF upTo
  <2>2. QED
    BY <1>1, <1>4, <2>1, SMTT(30)
<1> HIDE DEF upTo
<1>6. /\ upTo \o back \in Seq(Nat) /\ Len(upTo \o back) = Len(upTo) + Len(back)
      /\ \A j \in 1 .. Len(upTo) + Len(back) :
            (upTo \o back)[j] = IF j <= Len(upTo) THEN upTo[j] ELSE back[j - Len(upTo)]
  BY <1>2, <1>5, ConcatProperties
<1>7. ASSUME NEW j \in 1 .. Len(s) + 1
      PROVE  Reading!InsertAt(s, i, r)[j] = IF j < i THEN s[j] ELSE IF j = i THEN r ELSE s[j - 1]
  <2>1. CASE j <= i
    <3>1. j \in 1 .. Len(upTo) + Len(back) /\ j <= Len(upTo) /\ j \in 1 .. i
      BY <1>2, <1>5, <2>1
    <3>2. Reading!InsertAt(s, i, r)[j] = upTo[j]
      BY <1>3, <1>6, <3>1
    <3>3. QED
      BY <1>5, <2>1, <3>1, <3>2
  <2>2. CASE j > i
    <3>1. j - i \in 1 .. Len(s) - i + 1 /\ i + (j - i) - 1 = j - 1
      BY <2>2
    <3>2. j \in 1 .. Len(upTo) + Len(back) /\ ~(j <= Len(upTo)) /\ j - Len(upTo) = j - i
      BY <1>2, <1>5, <2>2
    <3>3. Reading!InsertAt(s, i, r)[j] = back[j - i]
      BY <1>3, <1>6, <3>2
    <3>4. QED
      BY <1>2, <2>2, <3>1, <3>3
  <2>3. QED
    BY <2>1, <2>2
<1>8. Len(upTo) + Len(back) = Len(s) + 1
  BY <1>2, <1>5
<1>9. Reading!InsertAt(s, i, r) \in Seq(Nat) /\ Len(Reading!InsertAt(s, i, r)) = Len(s) + 1
  BY <1>3, <1>6, <1>8
<1>10. QED
  BY <1>7, <1>9

\* What taking a row out does to the others.
LEMMA RemoveRows ==
    ASSUME NEW s \in Seq(Nat), NEW i \in 1 .. Len(s)
    PROVE  /\ Reading!RemoveAt(s, i) \in Seq(Nat)
           /\ Len(Reading!RemoveAt(s, i)) = Len(s) - 1
           /\ \A j \in 1 .. Len(s) - 1 : Reading!RemoveAt(s, i)[j] = IF j < i THEN s[j] ELSE s[j + 1]
<1> DEFINE front == SubSeq(s, 1, i - 1)
           back  == SubSeq(s, i + 1, Len(s))
<1>1. front \in Seq(Nat) /\ Len(front) = i - 1 /\ \A j \in 1 .. i - 1 : front[j] = s[j]
  OBVIOUS
<1>2. back \in Seq(Nat) /\ Len(back) = Len(s) - i /\ \A j \in 1 .. Len(s) - i : back[j] = s[i + j]
  OBVIOUS
<1>3. Reading!RemoveAt(s, i) = front \o back
  BY DEF Reading!RemoveAt
<1> HIDE DEF front, back
<1>4. /\ front \o back \in Seq(Nat) /\ Len(front \o back) = Len(front) + Len(back)
      /\ \A j \in 1 .. Len(front) + Len(back) :
            (front \o back)[j] = IF j <= Len(front) THEN front[j] ELSE back[j - Len(front)]
  BY <1>1, <1>2, ConcatProperties
<1>5. ASSUME NEW j \in 1 .. Len(s) - 1
      PROVE  Reading!RemoveAt(s, i)[j] = IF j < i THEN s[j] ELSE s[j + 1]
  <2>1. CASE j < i
    BY <1>1, <1>2, <1>3, <1>4, <2>1
  <2>2. CASE j >= i
    <3>1. j - (i - 1) \in 1 .. Len(s) - i /\ i + (j - (i - 1)) = j + 1
      BY <2>2
    <3>2. j \in 1 .. Len(front) + Len(back) /\ ~(j <= Len(front)) /\ j - Len(front) = j - (i - 1)
      BY <1>1, <1>2, <2>2
    <3>3. Reading!RemoveAt(s, i)[j] = back[j - (i - 1)]
      BY <1>3, <1>4, <3>2
    <3>4. back[j - (i - 1)] = s[j + 1]
      BY <1>2, <3>1
    <3>5. QED
      BY <2>2, <3>3, <3>4
  <2>3. QED
    BY <2>1, <2>2
<1>6. Len(front) + Len(back) = Len(s) - 1
  BY <1>1, <1>2
<1>7. QED
  BY <1>3, <1>4, <1>5, <1>6

-------------------------------------------------------------------------------
(* The invariant *)

Inserted == "inserted" \in moves.ways
Removed  == "removed" \in moves.ways
Honoured == asked.window \in 1 .. Ceiling
Walking  == phase \in {"asking", "yielding"}
EndOf    == offset + Len(page)      \* where the walk has come to
Due      == asked.first + 1 .. Len(base)

Emptied == phase # "yielding" => page = <<>>

\* Rows are told apart, and a number that comes has not been.
Numbered ==
    /\ Reading!IsInjective(list)
    /\ \A j \in 1 .. Len(list) : list[j] < coming
    /\ \A k \in 1 .. Len(Reading!Reached) : Reading!Reached[k] < coming

\* What was reached and still stands, stands behind the walk.
Behind ==
    Walking /\ ~Inserted =>
        \A k \in 1 .. Len(Reading!Reached), j \in 1 .. Len(list) : list[j] = Reading!Reached[k]
            => j <= EndOf

Distinct == ~Inserted => Reading!IsInjective(Reading!Reached)

\* What is due and was not reached stands ahead of the walk.
Ahead ==
    ~Removed /\ Honoured /\ phase # "raised" =>
        \A i \in Due : \/ base[i] \in Reading!Range(Reading!Reached)
                       \/ Walking /\ \E j \in EndOf + 1 .. Len(list) : list[j] = base[i]

\* A page shorter than it was asked for was the last.
ShortIsLast ==
    ~Removed /\ Honoured /\ phase = "yielding" /\ Len(page) < asked.window =>
        \A i \in Due : base[i] \in Reading!Range(Reading!Reached)

WalkInv == Reading!TypeOK /\ Emptied /\ Numbered /\ Behind /\ Distinct /\ Ahead /\ ShortIsLast

\* `Reached` is a sequence, and without a page in hand what was handed over.
LEMMA ReachedIsSeq ==
    ASSUME Reading!TypeOK
    PROVE  /\ Reading!Reached \in Seq(Nat) /\ DOMAIN Reading!Reached = 1 .. Len(Reading!Reached)
                  /\ Len(Reading!Reached) \in Nat
           /\ page = <<>> => Reading!Reached = yielded
BY ConcatEmptySeq DEF Reading!TypeOK, Reading!Reached

\* A walk begins with the invariant.
LEMMA WalkBegins ==
    ASSUME Reading!WalkConstants, Reading!Init
    PROVE  WalkInv
<1>1. PICK n \in 0 .. Longest : list = [i \in 1 .. n |-> i] /\ coming = n + 1
  BY DEF Reading!Init
<1>2. n \in Nat /\ list \in Seq(Nat) /\ Len(list) = n
  BY <1>1 DEF Reading!WalkConstants
<1>3. PICK o \in Paged, language \in {"typescript", "python"},
           limit \in Limits \cup {Default}, first \in Firsts :
         asked = [op |-> o, window |-> Reading!WindowOf(language, limit), first |-> first]
  BY DEF Reading!Init
<1>4. asked \in [op : Paged, window : Nat, first : Nat]
  BY <1>3 DEF Reading!WalkConstants, Reading!WindowOf
<1>5. moves \in [times : Nat, ways : SUBSET Reading!Ways]
  BY DEF Reading!Init, Reading!Ways
<1>6. Reading!TypeOK
  BY <1>1, <1>2, <1>4, <1>5 DEF Reading!Init, Reading!TypeOK
<1>7. Reading!Reached = <<>> /\ Len(Reading!Reached) = 0
  BY <1>6, ReachedIsSeq DEF Reading!Init
<1>8. Emptied /\ Numbered /\ Behind /\ Distinct /\ ShortIsLast
  BY <1>1, <1>2, <1>7 DEF Reading!Init, Emptied, Numbered, Behind, Distinct, ShortIsLast,
             Reading!IsInjective
<1>9. Ahead
  BY <1>1, <1>2, <1>4 DEF Reading!Init, Ahead, Walking, EndOf, Due
<1>10. QED
  BY <1>6, <1>8, <1>9 DEF WalkInv

\* A list that moves keeps the invariant, if its rows stay apart, none comes
\* nearer to the front unless one was taken out, and none goes further back unless
\* one was put in.
LEMMA MovingKeeps ==
    ASSUME WalkInv, NEW way \in Reading!Ways, Reading!Moved(way),
           list' \in Seq(Nat), coming' \in Nat, coming <= coming', Reading!IsInjective(list'),
           \A j \in 1 .. Len(list') : list'[j] < coming',
           way # "inserted" => \A j \in 1 .. Len(list') :
               list'[j] >= coming \/ \E m \in j .. Len(list) : list[m] = list'[j],
           way # "removed" => \A j \in 1 .. Len(list) : \E m \in j .. Len(list') : list'[m] = list[j]
    PROVE  WalkInv'
<1> USE DEF WalkInv
<1>1. /\ moves.ways \subseteq moves'.ways /\ way \in moves'.ways
      /\ moves' \in [times : Nat, ways : SUBSET Reading!Ways]
  BY DEF Reading!TypeOK, Reading!Moved
<1>2. /\ asked' = asked /\ offset' = offset /\ page' = page /\ yielded' = yielded /\ phase' = phase
             /\ base' = base
      /\ Reading!Reached' = Reading!Reached
  BY DEF Reading!Moved, Reading!Reached
<1>3. Reading!TypeOK'
  BY <1>1, <1>2 DEF Reading!TypeOK
<1>4. Emptied' /\ ShortIsLast'
  BY <1>1, <1>2 DEF Emptied, ShortIsLast, Removed, Honoured, Due
<1>5. Reading!Reached \in Seq(Nat) /\ Len(Reading!Reached) \in Nat /\ coming \in Nat
          /\ EndOf \in Nat /\ EndOf' = EndOf
      /\ Len(list) \in Nat /\ Len(list') \in Nat
  BY <1>2, ReachedIsSeq DEF Reading!TypeOK, EndOf
<1>6. Numbered'
  BY <1>2, <1>5 DEF Numbered
<1>7. Distinct'
  BY <1>1, <1>2 DEF Distinct, Inserted
<1>8. Behind'
  <2> SUFFICES ASSUME Walking', ~Inserted', NEW k \in 1 .. Len(Reading!Reached),
          NEW j \in 1 .. Len(list'),
                      list'[j] = Reading!Reached[k]
               PROVE  j <= EndOf
    BY <1>2, <1>5 DEF Behind
  <2>1. Walking /\ ~Inserted /\ way # "inserted"
    BY <1>1, <1>2 DEF Walking, Inserted
  <2>2. Reading!Reached[k] \in Nat
    BY <1>5
  <2>3. ~(list'[j] >= coming)
    BY <1>5, <2>2 DEF Numbered
  <2>4. PICK m \in j .. Len(list) : list[m] = list'[j]
    BY <2>1, <2>3
  <2>5. m \in 1 .. Len(list) /\ m <= EndOf
    BY <2>1, <2>4, <1>5 DEF Behind
  <2>6. QED
    BY <2>4, <2>5, <1>5
<1>9. Ahead'
  <2> SUFFICES ASSUME ~Removed', Honoured', phase' # "raised", NEW i \in Due',
          base[i] \notin Reading!Range(Reading!Reached)
               PROVE  Walking' /\ \E j \in EndOf + 1 .. Len(list') : list'[j] = base[i]
    BY <1>2, <1>5 DEF Ahead
  <2>1. ~Removed /\ way # "removed" /\ Honoured /\ phase # "raised" /\ i \in Due
    BY <1>1, <1>2 DEF Removed, Honoured, Due
  <2>2. Walking
    BY <2>1 DEF Ahead
  <2>3. PICK j \in EndOf + 1 .. Len(list) : list[j] = base[i]
    BY <2>1 DEF Ahead
  <2>4. j \in 1 .. Len(list)
    BY <2>3, <1>5
  <2>5. PICK m \in j .. Len(list') : list'[m] = list[j]
    BY <2>1, <2>4
  <2>6. m \in EndOf + 1 .. Len(list') /\ list'[m] = base[i]
    BY <2>3, <2>5, <1>5
  <2>7. QED
    BY <1>2, <2>2, <2>6 DEF Walking
<1>10. QED
  BY <1>3, <1>4, <1>6, <1>7, <1>8, <1>9

\* Two places that close up, or make room, to one place were one.
LEMMA Unshifted ==
    ASSUME NEW i \in Int, NEW a \in Int, NEW b \in Int
    PROVE  /\ (IF a < i THEN a ELSE a + 1) = (IF b < i THEN b ELSE b + 1) => a = b
           /\ a # i /\ b # i /\ (IF a < i THEN a ELSE a - 1) = (IF b < i THEN b ELSE b - 1) => a = b
OBVIOUS

\* Putting a new row in keeps the rows apart, and takes none to the front.
LEMMA ApartAfterInsert ==
    ASSUME NEW rows \in Seq(Nat), NEW at \in 1 .. Len(rows), NEW new \in Nat
    PROVE  (Reading!IsInjective(rows) /\ \A j \in 1 .. Len(rows) : rows[j] < new) =>
              /\ Reading!InsertAt(rows, at, new) \in Seq(Nat)
                     /\ Reading!IsInjective(Reading!InsertAt(rows, at, new))
              /\ \A j \in 1 .. Len(Reading!InsertAt(rows, at, new)) :
                     Reading!InsertAt(rows, at, new)[j] < new + 1
              /\ \A j \in 1 .. Len(rows) : \E m \in j .. Len(Reading!InsertAt(rows, at, new)) :
                     Reading!InsertAt(rows, at, new)[m] = rows[j]
<1>a. Reading!InsertAt(rows, at, new) \in Seq(Nat)
          /\ Len(Reading!InsertAt(rows, at, new)) = Len(rows) + 1
  BY InsertRows
<1>b. \A j \in 1 .. Len(rows) + 1 : Reading!InsertAt(rows, at, new)[j] =
            IF j < at THEN rows[j] ELSE IF j = at THEN new ELSE rows[j - 1]
  BY InsertRows
<1> DEFINE t == Reading!InsertAt(rows, at, new)
<1>0. /\ t \in Seq(Nat) /\ Len(t) = Len(rows) + 1
      /\ \A j \in 1 .. Len(rows) + 1 :
             t[j] = IF j < at THEN rows[j] ELSE IF j = at THEN new ELSE rows[j - 1]
  BY <1>a, <1>b
<1> HIDE DEF t
<1> SUFFICES ASSUME Reading!IsInjective(rows), \A j \in 1 .. Len(rows) : rows[j] < new
             PROVE  /\ Reading!IsInjective(t)
                    /\ \A j \in 1 .. Len(t) : t[j] < new + 1
                    /\ \A j \in 1 .. Len(rows) : \E m \in j .. Len(t) : t[m] = rows[j]
  BY <1>0 DEF t
<1> DEFINE back(j) == IF j < at THEN j ELSE j - 1
<1>1. Len(rows) \in Nat /\ DOMAIN rows = 1 .. Len(rows) /\ DOMAIN t = 1 .. Len(rows) + 1
  BY <1>0
<1>2. ASSUME NEW j \in 1 .. Len(rows) + 1, j # at
      PROVE  back(j) \in 1 .. Len(rows) /\ t[j] = rows[back(j)]
  BY <1>0, <1>1, <1>2
<1>3. t[at] = new
  BY <1>0, <1>1
<1>4. ASSUME NEW j \in 1 .. Len(rows) + 1, j # at
      PROVE  t[j] < new /\ t[j] # new /\ t[j] < new + 1
  <2>1. rows[back(j)] < new /\ t[j] = rows[back(j)] /\ rows[back(j)] \in Nat
    BY <1>1, <1>2, <1>4
  <2>2. QED
    BY <2>1
<1>5. ASSUME NEW a \in 1 .. Len(rows) + 1, NEW b \in 1 .. Len(rows) + 1, t[a] = t[b]
      PROVE  a = b
  <2>1. CASE a = at
    BY <1>3, <1>4, <1>5, <2>1
  <2>2. CASE b = at
    BY <1>3, <1>4, <1>5, <2>2
  <2>3. CASE a # at /\ b # at
    <3>1. back(a) \in DOMAIN rows /\ back(b) \in DOMAIN rows /\ rows[back(a)] = rows[back(b)]
      BY <1>1, <1>2, <1>5, <2>3
    <3> HIDE DEF back
    <3>2. back(a) = back(b)
      BY <3>1 DEF Reading!IsInjective
    <3>3. (IF a < at THEN a ELSE a - 1) = (IF b < at THEN b ELSE b - 1)
      BY <3>2 DEF back
    <3>4. a \in Int /\ b \in Int /\ at \in Int
      BY <1>1
    <3>5. QED
      BY <2>3, <3>3, <3>4, Unshifted
  <2>4. QED
    BY <2>1, <2>2, <2>3
<1>6. Reading!IsInjective(t)
  BY <1>1, <1>5 DEF Reading!IsInjective
<1>7. ASSUME NEW j \in 1 .. Len(t)
      PROVE  t[j] < new + 1
  BY <1>0, <1>1, <1>3, <1>4
<1>8. ASSUME NEW j \in 1 .. Len(rows)
      PROVE  \E m \in j .. Len(t) : t[m] = rows[j]
  <2>1. CASE j < at
    <3>1. j \in j .. Len(t) /\ t[j] = rows[j]
      BY <1>0, <1>1, <2>1, SMTT(30)
    <3>2. QED
      BY <3>1
  <2>2. CASE j >= at
    <3>1. /\ j + 1 \in j .. Len(t) /\ j + 1 \in 1 .. Len(rows) + 1
          /\ ~(j + 1 < at) /\ j + 1 # at /\ (j + 1) - 1 = j
      BY <1>0, <1>1, <2>2
    <3>2. t[j + 1] = rows[(j + 1) - 1]
      BY <1>0, <3>1
    <3>3. QED
      BY <3>1, <3>2
  <2>3. QED
    BY <1>1, <2>1, <2>2
<1>9. QED
  BY <1>6, <1>7, <1>8

\* Taking a row out keeps the others apart, and brings none back.
LEMMA ApartAfterRemove ==
    ASSUME NEW s \in Seq(Nat), NEW i \in 1 .. Len(s), NEW t \in Seq(Nat),
           Reading!IsInjective(s), Len(t) = Len(s) - 1,
           \A j \in 1 .. Len(s) - 1 : t[j] = IF j < i THEN s[j] ELSE s[j + 1]
    PROVE  /\ Reading!IsInjective(t)
           /\ \A j \in 1 .. Len(t) : \E m \in j .. Len(s) : s[m] = t[j]
<1> DEFINE was(j) == IF j < i THEN j ELSE j + 1
<1>1. Len(s) \in Nat /\ DOMAIN s = 1 .. Len(s) /\ DOMAIN t = 1 .. Len(s) - 1
  OBVIOUS
<1>2. ASSUME NEW j \in 1 .. Len(s) - 1
      PROVE  was(j) \in j .. Len(s) /\ was(j) \in DOMAIN s /\ t[j] = s[was(j)]
  <2>1. CASE j < i
    BY <1>1, <2>1, SMTT(30)
  <2>2. CASE ~(j < i)
    BY <1>1, <2>2, SMTT(30)
  <2>3. QED
    BY <2>1, <2>2
<1>3. ASSUME NEW a \in 1 .. Len(s) - 1, NEW b \in 1 .. Len(s) - 1, t[a] = t[b]
      PROVE  a = b
  <2>1. was(a) \in DOMAIN s /\ was(b) \in DOMAIN s /\ s[was(a)] = s[was(b)]
    BY <1>2, <1>3
  <2> HIDE DEF was
  <2>2. was(a) = was(b)
    BY <2>1 DEF Reading!IsInjective
  <2>3. (IF a < i THEN a ELSE a + 1) = (IF b < i THEN b ELSE b + 1)
    BY <2>2 DEF was
  <2>4. a \in Int /\ b \in Int /\ i \in Int
    BY <1>1
  <2>5. QED
    BY <2>3, <2>4, Unshifted
<1> HIDE DEF was
<1>4. \A j \in 1 .. Len(t) : \E m \in j .. Len(s) : s[m] = t[j]
  BY <1>1, <1>2
<1>5. QED
  BY <1>1, <1>3, <1>4 DEF Reading!IsInjective

\* A row that is appended keeps the invariant.
LEMMA AppendedKeeps ==
    ASSUME WalkInv, Reading!RowAppended
    PROVE  WalkInv'
<1>1. list \in Seq(Nat) /\ coming \in Nat /\ Len(list) \in Nat
  BY DEF WalkInv, Reading!TypeOK
<1>2. /\ list' \in Seq(Nat) /\ Len(list') = Len(list) + 1 /\ coming' = coming + 1
      /\ \A j \in 1 .. Len(list) : list'[j] = list[j]
      /\ list'[Len(list) + 1] = coming
  BY <1>1 DEF Reading!RowAppended
<1>3. Reading!IsInjective(list) /\ (\A j \in 1 .. Len(list) : list[j] < coming /\ list[j] \in Nat)
  BY <1>1 DEF WalkInv, Numbered
<1>4. DOMAIN list = 1 .. Len(list) /\ DOMAIN list' = 1 .. Len(list) + 1
  BY <1>1, <1>2
<1>5. Reading!IsInjective(list')
  BY <1>1, <1>2, <1>3, <1>4 DEF Reading!IsInjective
<1>6. ASSUME NEW j \in 1 .. Len(list')
      PROVE  /\ list'[j] < coming'
             /\ list'[j] >= coming \/ \E m \in j .. Len(list) : list[m] = list'[j]
  <2>1. CASE j = Len(list) + 1
    BY <1>1, <1>2, <2>1
  <2>2. CASE j # Len(list) + 1
    <3>1. j \in 1 .. Len(list) /\ j \in j .. Len(list)
      BY <1>1, <1>2, <2>2
    <3>2. list'[j] = list[j] /\ list[j] < coming /\ list[j] \in Nat
      BY <1>2, <1>3, <3>1
    <3>3. list[j] < coming + 1
      BY <1>1, <3>2
    <3>4. QED
      BY <1>2, <3>1, <3>2, <3>3
  <2>3. QED
    BY <2>1, <2>2
<1>7. \A j \in 1 .. Len(list) : \E m \in j .. Len(list') : list'[m] = list[j]
  BY <1>1, <1>2
<1>8. coming' \in Nat /\ coming <= coming'
  BY <1>1, <1>2
<1>9. "appended" \in Reading!Ways /\ Reading!Moved("appended")
  BY DEF Reading!RowAppended, Reading!Ways
<1>10. QED
  BY <1>2, <1>5, <1>6, <1>7, <1>8, <1>9, MovingKeeps

\* A row that is put in keeps it.
LEMMA InsertedKeeps ==
    ASSUME WalkInv, NEW i \in 1 .. Len(list), Reading!RowInserted(i)
    PROVE  WalkInv'
<1>1. list \in Seq(Nat) /\ coming \in Nat /\ Len(list) \in Nat
  BY DEF WalkInv, Reading!TypeOK
<1>2. list' = Reading!InsertAt(list, i, coming) /\ coming' = coming + 1 /\ Reading!Moved("inserted")
  BY DEF Reading!RowInserted
<1>4. Reading!IsInjective(list) /\ \A j \in 1 .. Len(list) : list[j] < coming
  BY DEF WalkInv, Numbered
<1>5. /\ Reading!InsertAt(list, i, coming) \in Seq(Nat)
             /\ Reading!IsInjective(Reading!InsertAt(list, i, coming))
      /\ \A j \in 1 .. Len(Reading!InsertAt(list, i, coming)) :
             Reading!InsertAt(list, i, coming)[j] < coming + 1
      /\ \A j \in 1 .. Len(list) : \E m \in j .. Len(Reading!InsertAt(list, i, coming)) :
            Reading!InsertAt(list, i, coming)[m] = list[j]
  BY <1>1, <1>4, ApartAfterInsert
<1>6. coming' \in Nat /\ coming <= coming'
  BY <1>1, <1>2
<1>7. "inserted" \in Reading!Ways
  BY DEF Reading!Ways
<1>8. QED
  BY <1>2, <1>5, <1>6, <1>7, MovingKeeps

\* A row that is taken out keeps it.
LEMMA RemovedKeeps ==
    ASSUME WalkInv, NEW i \in 1 .. Len(list), Reading!RowRemoved(i)
    PROVE  WalkInv'
<1>1. list \in Seq(Nat) /\ coming \in Nat /\ Len(list) \in Nat
  BY DEF WalkInv, Reading!TypeOK
<1>2. list' = Reading!RemoveAt(list, i) /\ coming' = coming /\ Reading!Moved("removed")
  BY DEF Reading!RowRemoved
<1>3. /\ Reading!RemoveAt(list, i) \in Seq(Nat) /\ Len(Reading!RemoveAt(list, i)) = Len(list) - 1
      /\ \A j \in 1 .. Len(list) - 1 :
             Reading!RemoveAt(list, i)[j] = IF j < i THEN list[j] ELSE list[j + 1]
  BY <1>1, RemoveRows
<1>4. Reading!IsInjective(list) /\ \A j \in 1 .. Len(list) : list[j] < coming
  BY DEF WalkInv, Numbered
<1>5. /\ Reading!IsInjective(Reading!RemoveAt(list, i))
      /\ \A j \in 1 .. Len(Reading!RemoveAt(list, i)) : \E m \in j .. Len(list) :
             list[m] = Reading!RemoveAt(list, i)[j]
  BY <1>1, <1>3, <1>4, ApartAfterRemove
<1>6. \A j \in 1 .. Len(list') : list'[j] < coming'
  <2> SUFFICES ASSUME NEW j \in 1 .. Len(list')
               PROVE  list'[j] < coming
    BY <1>2
  <2>1. PICK m \in j .. Len(list) : list[m] = list'[j]
    BY <1>2, <1>5
  <2>2. m \in 1 .. Len(list)
    BY <1>1, <2>1
  <2>3. QED
    BY <1>4, <2>1, <2>2
<1>7. coming' \in Nat /\ coming <= coming' /\ list' \in Seq(Nat)
  BY <1>1, <1>2, <1>3
<1>8. "removed" \in Reading!Ways /\ "removed" # "inserted"
  BY DEF Reading!Ways
<1>9. QED
  BY <1>2, <1>5, <1>6, <1>7, <1>8, MovingKeeps

\* The places of a sequence made of two.
LEMMA Joined ==
    ASSUME NEW a \in Seq(Nat), NEW b \in Seq(Nat)
    PROVE  /\ a \o b \in Seq(Nat) /\ Len(a \o b) = Len(a) + Len(b)
           /\ \A k \in 1 .. Len(a) : (a \o b)[k] = a[k]
           /\ \A k \in 1 .. Len(a \o b) : \/ k \in 1 .. Len(a) /\ (a \o b)[k] = a[k]
                                          \/ k - Len(a) \in 1 .. Len(b) /\ (a \o b)[k] = b[k - Len(a)]
           /\ \A m \in 1 .. Len(b) : Len(a) + m \in 1 .. Len(a \o b) /\ (a \o b)[Len(a) + m] = b[m]
<1>1. /\ a \o b \in Seq(Nat) /\ Len(a \o b) = Len(a) + Len(b)
      /\ \A k \in 1 .. Len(a) + Len(b) : (a \o b)[k] = IF k <= Len(a) THEN a[k] ELSE b[k - Len(a)]
  BY ConcatProperties
<1>2. Len(a) \in Nat /\ Len(b) \in Nat
  OBVIOUS
<1>3. ASSUME NEW k \in 1 .. Len(a)
      PROVE  (a \o b)[k] = a[k]
  BY <1>1, <1>2
<1>4. ASSUME NEW k \in 1 .. Len(a \o b)
      PROVE  \/ k \in 1 .. Len(a) /\ (a \o b)[k] = a[k]
             \/ k - Len(a) \in 1 .. Len(b) /\ (a \o b)[k] = b[k - Len(a)]
  BY <1>1, <1>2
<1>5. ASSUME NEW m \in 1 .. Len(b)
      PROVE  Len(a) + m \in 1 .. Len(a \o b) /\ (a \o b)[Len(a) + m] = b[m]
  <2>1. /\ Len(a) + m \in 1 .. Len(a) + Len(b) /\ ~(Len(a) + m <= Len(a))
        /\ Len(a) + m - Len(a) = m
    BY <1>2
  <2>2. QED
    BY <1>1, <2>1
<1>6. QED
  BY <1>1, <1>3, <1>4, <1>5

\* A page that is fetched keeps the invariant.
LEMMA AskKeeps ==
    ASSUME Reading!WalkConstants, WalkInv, Reading!Ask
    PROVE  WalkInv'
<1>1. /\ list' = list /\ coming' = coming /\ moves' = moves /\ asked' = asked /\ offset' = offset
      /\ yielded' = yielded /\ base' = base /\ phase = "asking" /\ phase' = "yielding"
             /\ page' = Reading!Answered
  BY DEF Reading!Ask, Reading!moving
<1>2. /\ list \in Seq(Nat) /\ yielded \in Seq(Nat) /\ offset \in Nat /\ coming \in Nat
      /\ Len(list) \in Nat /\ Len(yielded) \in Nat
      /\ DOMAIN list = 1 .. Len(list) /\ DOMAIN yielded = 1 .. Len(yielded)
  BY DEF WalkInv, Reading!TypeOK
<1>3. Reading!TypeOK
  BY DEF WalkInv
<1>4. /\ Reading!Answered \in Seq(Nat) /\ Len(Reading!Answered) \in Nat
      /\ \A k \in 1 .. Len(Reading!Answered) : offset + k \in 1 .. Len(list)
             /\ Reading!Answered[k] = list[offset + k]
      /\ Honoured /\ Len(Reading!Answered) < asked.window => Len(list) <= offset + Len(Reading!Answered)
  BY <1>3, PageRows DEF Honoured
<1>5. page = <<>> /\ Reading!Reached = yielded /\ EndOf = offset
          /\ EndOf' = offset + Len(Reading!Answered)
  <2>1. page = <<>>
    BY <1>1 DEF WalkInv, Emptied
  <2>2. QED
    BY <1>1, <1>2, <1>3, <2>1, ReachedIsSeq DEF EndOf
<1> DEFINE reached == yielded \o Reading!Answered
<1>6. Reading!Reached' = reached
  BY <1>1 DEF Reading!Reached
<1>7. /\ reached \in Seq(Nat) /\ Len(reached) = Len(yielded) + Len(Reading!Answered)
      /\ \A k \in 1 .. Len(yielded) : reached[k] = yielded[k]
      /\ \A k \in 1 .. Len(reached) : \/ k \in 1 .. Len(yielded) /\ reached[k] = yielded[k]
                                      \/ k - Len(yielded) \in 1 .. Len(Reading!Answered)
                                             /\ reached[k] = Reading!Answered[k - Len(yielded)]
      /\ \A m \in 1 .. Len(Reading!Answered) : Len(yielded) + m \in 1 .. Len(reached)
             /\ reached[Len(yielded) + m] = Reading!Answered[m]
  BY <1>2, <1>4, Joined
<1> HIDE DEF reached
<1>8. DOMAIN reached = 1 .. Len(reached)
  BY <1>7
<1>9. /\ Reading!IsInjective(list) /\ \A j \in 1 .. Len(list) : list[j] < coming
      /\ \A k \in 1 .. Len(yielded) : yielded[k] < coming
  BY <1>5 DEF WalkInv, Numbered
<1>10. ~Inserted => \A k \in 1 .. Len(yielded), j \in 1 .. Len(list) : list[j] = yielded[k]
           => j <= offset
  BY <1>1, <1>5 DEF WalkInv, Behind, Walking
<1>11. Reading!TypeOK' /\ Emptied'
  BY <1>1, <1>3, <1>4 DEF Reading!TypeOK, Emptied
<1>12. ASSUME NEW m \in 1 .. Len(Reading!Answered), NEW j \in 1 .. Len(list),
           list[j] = Reading!Answered[m]
       PROVE  j = offset + m
  <2>1. offset + m \in DOMAIN list /\ j \in DOMAIN list /\ list[j] = list[offset + m]
    BY <1>2, <1>4, <1>12
  <2>2. QED
    BY <1>9, <2>1 DEF Reading!IsInjective
<1>13. Numbered'
  <2>1. ASSUME NEW k \in 1 .. Len(reached)
        PROVE  reached[k] < coming
    <3>1. CASE k \in 1 .. Len(yielded) /\ reached[k] = yielded[k]
      BY <1>9, <3>1
    <3>2. CASE k - Len(yielded) \in 1 .. Len(Reading!Answered)
              /\ reached[k] = Reading!Answered[k - Len(yielded)]
      <4>1. /\ offset + (k - Len(yielded)) \in 1 .. Len(list)
            /\ reached[k] = list[offset + (k - Len(yielded))]
        BY <1>4, <3>2
      <4>2. QED
        BY <1>9, <4>1
    <3>3. QED
      BY <1>7, <3>1, <3>2
  <2>2. QED
    BY <1>1, <1>6, <1>9, <2>1 DEF Numbered
<1>14. Behind'
  <2> SUFFICES ASSUME ~Inserted, NEW k \in 1 .. Len(reached), NEW j \in 1 .. Len(list),
          list[j] = reached[k]
               PROVE  j <= offset + Len(Reading!Answered)
    BY <1>1, <1>5, <1>6 DEF Behind, Inserted
  <2>1. CASE k \in 1 .. Len(yielded) /\ reached[k] = yielded[k]
    <3>1. j <= offset
      BY <1>10, <2>1
    <3>2. QED
      BY <1>2, <1>4, <3>1
  <2>2. CASE k - Len(yielded) \in 1 .. Len(Reading!Answered)
            /\ reached[k] = Reading!Answered[k - Len(yielded)]
    <3>1. j = offset + (k - Len(yielded))
      BY <1>12, <2>2
    <3>2. QED
      BY <1>2, <1>4, <2>2, <3>1
  <2>3. QED
    BY <1>7, <2>1, <2>2
<1>15. Distinct'
  <2> SUFFICES ASSUME ~Inserted
               PROVE  Reading!IsInjective(reached)
    BY <1>1, <1>6 DEF Distinct, Inserted
  <2>1. Reading!IsInjective(yielded)
    BY <1>5 DEF WalkInv, Distinct
  <2>2. ASSUME NEW a \in 1 .. Len(yielded), NEW m \in 1 .. Len(Reading!Answered)
        PROVE  yielded[a] # Reading!Answered[m]
    <3>1. offset + m \in 1 .. Len(list) /\ Reading!Answered[m] = list[offset + m]
              /\ ~(offset + m <= offset)
      BY <1>2, <1>4
    <3>2. QED
      BY <1>10, <3>1
  <2>3. ASSUME NEW a \in 1 .. Len(Reading!Answered), NEW b \in 1 .. Len(Reading!Answered),
            Reading!Answered[a] = Reading!Answered[b]
        PROVE  a = b
    <3>1. offset + a \in 1 .. Len(list) /\ list[offset + a] = Reading!Answered[b]
      BY <1>4, <2>3
    <3>2. offset + a = offset + b
      BY <1>12, <3>1
    <3>3. QED
      BY <1>2, <3>2
  <2>4. ASSUME NEW a \in 1 .. Len(reached), NEW b \in 1 .. Len(reached), reached[a] = reached[b]
        PROVE  a = b
    <3> DEFINE inYielded(k) == k \in 1 .. Len(yielded) /\ reached[k] = yielded[k]
               inPage(k) == k - Len(yielded) \in 1 .. Len(Reading!Answered)
                   /\ reached[k] = Reading!Answered[k - Len(yielded)]
    <3>1. (inYielded(a) \/ inPage(a)) /\ (inYielded(b) \/ inPage(b))
      BY <1>7
    <3>2. CASE inYielded(a) /\ inYielded(b)
      BY <1>2, <2>1, <2>4, <3>2 DEF Reading!IsInjective
    <3>3. CASE inYielded(a) /\ inPage(b)
      BY <2>2, <2>4, <3>3
    <3>4. CASE inPage(a) /\ inYielded(b)
      BY <2>2, <2>4, <3>4
    <3>5. CASE inPage(a) /\ inPage(b)
      <4>1. a - Len(yielded) = b - Len(yielded)
        BY <2>3, <2>4, <3>5
      <4>2. a \in Int /\ b \in Int
        OBVIOUS
      <4>3. QED
        BY <1>2, <4>1, <4>2
    <3>6. QED
      BY <3>1, <3>2, <3>3, <3>4, <3>5
  <2>5. QED
    BY <1>8, <2>4 DEF Reading!IsInjective
<1>16. Reading!Range(yielded) \subseteq Reading!Range(reached)
           /\ \A m \in 1 .. Len(Reading!Answered) : Reading!Answered[m] \in Reading!Range(reached)
  <2>1. ASSUME NEW k \in 1 .. Len(yielded)
        PROVE  k \in DOMAIN reached /\ reached[k] = yielded[k]
    BY <1>2, <1>4, <1>7, <1>8
  <2>2. ASSUME NEW m \in 1 .. Len(Reading!Answered)
        PROVE  Len(yielded) + m \in DOMAIN reached /\ reached[Len(yielded) + m] = Reading!Answered[m]
    BY <1>7, <1>8
  <2>3. QED
    BY <1>2, <2>1, <2>2 DEF Reading!Range
<1>17. ASSUME ~Removed, Honoured, NEW i \in Due, base[i] \notin Reading!Range(reached)
       PROVE  \E j \in offset + Len(Reading!Answered) + 1 .. Len(list) : list[j] = base[i]
  <2>1. base[i] \notin Reading!Range(yielded)
    BY <1>16, <1>17
  <2>2. PICK j \in offset + 1 .. Len(list) : list[j] = base[i]
    BY <1>1, <1>5, <1>17, <2>1 DEF WalkInv, Ahead
  <2>3. ~(j <= offset + Len(Reading!Answered))
    <3> SUFFICES ASSUME j <= offset + Len(Reading!Answered)
                 PROVE  FALSE
      OBVIOUS
    <3>1. j - offset \in 1 .. Len(Reading!Answered) /\ offset + (j - offset) = j
      BY <1>2, <1>4
    <3>2. Reading!Answered[j - offset] = base[i]
      BY <1>4, <2>2, <3>1
    <3>3. QED
      BY <1>16, <1>17, <3>1, <3>2
  <2>4. j \in offset + Len(Reading!Answered) + 1 .. Len(list)
    BY <1>2, <1>4, <2>3
  <2>5. QED
    BY <2>2, <2>4
<1>18. Ahead'
  BY <1>1, <1>5, <1>6, <1>17 DEF Ahead, Removed, Honoured, Due, Walking
<1>19. ShortIsLast'
  <2> SUFFICES ASSUME ~Removed, Honoured, Len(Reading!Answered) < asked.window, NEW i \in Due,
          base[i] \notin Reading!Range(reached)
               PROVE  FALSE
    BY <1>1, <1>6 DEF ShortIsLast, Removed, Honoured, Due
  <2>1. Len(list) <= offset + Len(Reading!Answered)
    BY <1>4
  <2>2. PICK j \in offset + Len(Reading!Answered) + 1 .. Len(list) : TRUE
    BY <1>17
  <2>3. QED
    BY <1>2, <1>4, <2>1, <2>2
<1>20. QED
  BY <1>11, <1>13, <1>14, <1>15, <1>18, <1>19 DEF WalkInv

\* A page that is handed over keeps it: the last if it was short, the walk goes
\* on behind it if it was not.
LEMMA YieldKeeps ==
    ASSUME WalkInv, Reading!Yield
    PROVE  WalkInv'
<1>1. /\ list' = list /\ coming' = coming /\ moves' = moves /\ asked' = asked /\ base' = base
      /\ phase = "yielding" /\ page' = <<>> /\ yielded' = Reading!Reached
      /\ \/ Len(page) < asked.window /\ phase' = "done" /\ offset' = offset
         \/ ~(Len(page) < asked.window) /\ phase' = "asking" /\ offset' = EndOf
  BY DEF Reading!Yield, Reading!HandsOver, Reading!moving, Reading!Reached, EndOf
<1>2. Reading!TypeOK /\ Reading!Reached \in Seq(Nat) /\ page \in Seq(Nat) /\ offset \in Nat
          /\ EndOf \in Nat
  BY ReachedIsSeq DEF WalkInv, Reading!TypeOK, EndOf
<1>3. Reading!TypeOK'
  BY <1>1, <1>2 DEF Reading!TypeOK
<1>4. Reading!Reached' = Reading!Reached
  BY <1>1, <1>3, ReachedIsSeq, ConcatEmptySeq, <1>2 DEF Reading!Reached
<1>5. Len(page') = 0
  BY <1>1
<1>6. Emptied' /\ Numbered' /\ Distinct' /\ ShortIsLast'
  BY <1>1, <1>4 DEF WalkInv, Emptied, Numbered, Distinct, Inserted, ShortIsLast
<1>7. CASE phase' = "done"
  <2>1. Len(page) < asked.window
    BY <1>1, <1>7
  <2>2. Behind' /\ Ahead'
    BY <1>1, <1>4, <1>7, <2>1 DEF WalkInv, Behind, Ahead, ShortIsLast, Walking, Removed, Honoured, Due
  <2>3. QED
    BY <1>3, <1>6, <2>2 DEF WalkInv
<1>8. CASE phase' = "asking"
  <2>1. EndOf' = EndOf
    BY <1>1, <1>2, <1>5, <1>8 DEF EndOf
  <2>2. Behind'
    BY <1>1, <1>4, <2>1 DEF WalkInv, Behind, Walking, Inserted
  <2>3. Ahead'
    BY <1>1, <1>4, <1>8, <2>1 DEF WalkInv, Ahead, Walking, Removed, Honoured, Due
  <2>4. QED
    BY <1>3, <1>6, <2>2, <2>3 DEF WalkInv
<1>9. QED
  BY <1>1, <1>7, <1>8

\* Every step keeps it.
LEMMA WalkingKeeps ==
    ASSUME Reading!WalkConstants, WalkInv, [Reading!Next]_Reading!vars
    PROVE  WalkInv'
<1>1. CASE Reading!RowAppended
  BY <1>1, AppendedKeeps
<1>2. ASSUME NEW i \in 1 .. Len(list), Reading!RowInserted(i) \/ Reading!RowRemoved(i)
      PROVE  WalkInv'
  BY <1>2, InsertedKeeps, RemovedKeeps
<1>3. CASE Reading!Ask
  BY <1>3, AskKeeps
<1>4. CASE Reading!Raise
  <2>1. UNCHANGED <<list, coming, moves, asked, offset, page, yielded, base>> /\ phase = "asking"
            /\ phase' = "raised"
    BY <1>4 DEF Reading!Raise, Reading!moving
  <2>2. Reading!Reached' = Reading!Reached
    BY <2>1 DEF Reading!Reached
  <2>3. QED
    BY <2>1, <2>2 DEF WalkInv, Reading!TypeOK, Emptied, Numbered, Behind, Distinct, Ahead,
               ShortIsLast, Inserted, Walking
<1>5. CASE Reading!Yield
  BY <1>5, YieldKeeps
<1>6. CASE UNCHANGED Reading!vars
  BY <1>6, ZenonT(60) DEF Reading!vars, WalkInv, Reading!TypeOK, Emptied, Numbered, Behind,
             Distinct, Ahead, ShortIsLast, Reading!Reached,
              Inserted, Removed, Honoured, Walking, EndOf, Due
<1>7. QED
  BY <1>1, <1>2, <1>3, <1>4, <1>5, <1>6 DEF Reading!Next

\* What the invariant says of a walk: it repeats no row unless one was put in,
\* and, when it is done, it has handed over every row that was due, unless one
\* was taken out.
LEMMA WalkInvSuffices ==
    ASSUME WalkInv
    PROVE  Reading!TypeOK /\ Reading!RepeatsNothing /\ Reading!SkipsNothing
<1>1. Reading!TypeOK /\ Reading!RepeatsNothing
  BY DEF WalkInv, Distinct, Reading!RepeatsNothing, Inserted
<1>2. phase = "done" => page = <<>> /\ Reading!Reached = yielded
  BY <1>1, ReachedIsSeq DEF WalkInv, Emptied
<1>3. Reading!SkipsNothing
  BY <1>2 DEF WalkInv, Ahead, Reading!SkipsNothing, Removed, Honoured, Due, Walking
<1>4. QED
  BY <1>1, <1>3

\* A client that reads steps as a walk, and one that writes leaves the walk alone.
LEMMA WalkKept == FairSpec => []WalkInv
<1>1. Init => WalkInv
  BY WalkBegins, GeneratedClientAssumption DEF Init
<1>2. [Next]_vars => [Reading!Next]_Reading!vars
  BY DEF Next, vars, walkVars, Reading!vars
<1>3. WalkInv /\ [Next]_vars => WalkInv'
  BY <1>2, WalkingKeeps, GeneratedClientAssumption
<1>4. QED
  BY <1>1, <1>3, PTL DEF FairSpec

\* The generated paginators hand over no row twice, whatever is appended to the
\* list or removed from it, and whatever the limit.
THEOREM NothingIsRepeated == FairSpec => []RepeatsNothing
<1>1. WalkInv => RepeatsNothing
  BY WalkInvSuffices DEF RepeatsNothing
<1>2. QED
  BY <1>1, WalkKept, PTL

\* The generated paginators hand over every row that stood behind their start,
\* whatever is appended or inserted, for every limit the api honours.
THEOREM NothingIsSkipped == FairSpec => []SkipsNothing
<1>1. WalkInv => SkipsNothing
  BY WalkInvSuffices DEF SkipsNothing
<1>2. QED
  BY <1>1, WalkKept, PTL

-------------------------------------------------------------------------------
(* The calls that write *)

\* The call was carried out and the client has heard so, or is about to.
Did(c) == calls[c].end \in Changing!SaidDone \/ (c = Len(calls) /\ place = "carried")

UnderWay(c) == c = Len(calls) /\ place # "idle"

\* How often call c may have been carried out by now, late requests included.
Allowance(c) ==
    IF ~UnderWay(c) THEN Retries + 1 ELSE IF place = "sent" THEN attempt ELSE attempt + 1

Accounted(c) ==
    /\ calls[c].end = "-" <=> UnderWay(c)
    /\ ~calls[c].abandoned => calls[c].travelling = 0
    /\ calls[c].carried + calls[c].travelling <= Allowance(c)
    /\ Did(c) => calls[c].carried >= 1
    /\ ~calls[c].abandoned /\ ~calls[c].failed => calls[c].carried = IF Did(c) THEN 1 ELSE 0

\* Nothing of an earlier call, of somebody else or of a later call to the same
\* address comes after call c.
Undisturbed(c) ==
    /\ foreign = 0
    /\ \A d \in 1 .. c : ~calls[d].abandoned
    /\ \A d \in c + 1 .. Len(calls) : Changing!Path(d) # Changing!Path(c)

Left(c) == IF Changing!Verb(c) = "DELETE" THEN Changing!Absent ELSE c

Stands(c) == Did(c) /\ Undisturbed(c) => stored[Changing!Path(c)] = Left(c)

\* Where the call under way stands.
PlaceInv ==
    /\ place # "idle" => Len(calls) > 0
    /\ place = "asleep" => attempt < Retries

WritesInv ==
    /\ Changing!TypeOK /\ PlaceInv
    /\ \A c \in 1 .. Len(calls) : Accounted(c)
    /\ \A c \in 1 .. Len(calls) : Stands(c)

\* A call is a record, and its operation has an address.
LEMMA CallsAreRecords ==
    ASSUME Changing!TypeOK
    PROVE  /\ Len(calls) \in Nat /\ Retries \in Nat /\ MaxCalls \in Nat /\ attempt \in Nat
           /\ attempt <= Retries /\ Len(calls) <= MaxCalls
           /\ \A c \in 1 .. Len(calls) :
                 /\ calls[c] \in Changing!CallRecords
                 /\ calls[c].carried \in Nat /\ calls[c].travelling \in Nat
                 /\ calls[c].abandoned \in BOOLEAN /\ calls[c].failed \in BOOLEAN
                 /\ Changing!Path(c) \in Changing!Addresses
<1>1. /\ calls \in Seq(Changing!CallRecords) /\ Retries \in Nat /\ MaxCalls \in Nat
      /\ attempt \in 0 .. Retries /\ Len(calls) <= MaxCalls
  BY GeneratedClientAssumption DEF Changing!TypeOK, Changing!WritesConstants
<1>2. Len(calls) \in Nat /\ \A c \in 1 .. Len(calls) : calls[c] \in Changing!CallRecords
  BY <1>1
<1>3. \A c \in 1 .. Len(calls) :
         /\ calls[c].carried \in Nat /\ calls[c].travelling \in Nat
         /\ calls[c].abandoned \in BOOLEAN /\ calls[c].failed \in BOOLEAN
         /\ calls[c].op \in DOMAIN [o \in Written |-> operations[o]]
  BY <1>2 DEF Changing!CallRecords
<1>4. \A c \in 1 .. Len(calls) : Changing!Path(c) \in Changing!Addresses
  BY <1>3 DEF Changing!Path, Changing!Addresses
<1>5. QED
  BY <1>1, <1>2, <1>3, <1>4

\* Rewriting the record of a call leaves the others and every address alone.
LEMMA Rewritten ==
    ASSUME Changing!TypeOK, NEW c \in 1 .. Len(calls), NEW r \in Changing!CallRecords,
           r.op = calls[c].op, calls' = [calls EXCEPT ![c] = r]
    PROVE  /\ calls' \in Seq(Changing!CallRecords) /\ Len(calls') = Len(calls)
           /\ calls'[c] = r
           /\ \A d \in 1 .. Len(calls) : d # c => calls'[d] = calls[d]
           /\ \A d \in 1 .. Len(calls) :
                 Changing!Path(d)' = Changing!Path(d) /\ Changing!Verb(d)' = Changing!Verb(d)
<1>1. calls \in Seq(Changing!CallRecords)
  BY DEF Changing!TypeOK
<1>2. /\ calls' \in Seq(Changing!CallRecords) /\ Len(calls') = Len(calls)
      /\ \A d \in 1 .. Len(calls) : calls'[d] = IF d = c THEN r ELSE calls[d]
  BY <1>1, ExceptSeq
<1>3. \A d \in 1 .. Len(calls) : calls'[d].op = calls[d].op
  BY <1>2
<1>4. QED
  BY <1>2, <1>3 DEF Changing!Path, Changing!Verb

\* What a call hears ends it or sends it to sleep; if it is answered it was
\* carried out, and only silence leaves a request behind.
LEMMA HearsOnce ==
    ASSUME WritesInv, place \in {"sent", "carried"}, NEW r \in Changing!CallRecords,
           r.op = calls[Len(calls)].op, calls' = [calls EXCEPT ![Len(calls)] = r],
           UNCHANGED <<granted, stored, foreign>>,
           \/ place' = "idle" /\ attempt' = 0 /\ r.end # "-"
           \/ place' = "asleep" /\ attempt' = attempt /\ attempt < Retries /\ r.end = "-",
           r.carried = calls[Len(calls)].carried,
           r.travelling = calls[Len(calls)].travelling
             \/ (place = "sent" /\ r.abandoned /\ r.travelling = calls[Len(calls)].travelling + 1),
           calls[Len(calls)].abandoned => r.abandoned,
           calls[Len(calls)].failed => r.failed,
           r.end \in Changing!SaidDone => place = "carried",
           place = "carried" /\ ~r.abandoned /\ ~r.failed => r.end \in Changing!SaidDone
    PROVE  WritesInv'
<1> DEFINE last == Len(calls)
<1>1. last > 0 /\ last \in 1 .. Len(calls) /\ Changing!TypeOK
  BY CallsAreRecords DEF WritesInv, PlaceInv
<1>2. /\ calls' \in Seq(Changing!CallRecords) /\ Len(calls') = last
      /\ calls'[last] = r
      /\ \A d \in 1 .. last : d # last => calls'[d] = calls[d]
      /\ \A d \in 1 .. last :
            Changing!Path(d)' = Changing!Path(d) /\ Changing!Verb(d)' = Changing!Verb(d)
  BY <1>1, Rewritten
<1>3. /\ Retries \in Nat /\ attempt \in Nat /\ attempt <= Retries
      /\ \A c \in 1 .. last :
            /\ calls[c].carried \in Nat /\ calls[c].travelling \in Nat
            /\ calls[c].abandoned \in BOOLEAN /\ calls[c].failed \in BOOLEAN
      /\ last \in Nat
  BY <1>1, CallsAreRecords
<1>4. r.abandoned \in BOOLEAN /\ r.failed \in BOOLEAN
  BY DEF Changing!CallRecords
<1>5. (Changing!TypeOK /\ PlaceInv)'
  <2>1. /\ granted' \in {SCOPES, AppScopes} /\ stored' \in [Changing!Addresses' -> 0 .. MaxCalls + 1]
        /\ foreign' \in 0 .. MaxForeign /\ Len(calls') <= MaxCalls
    BY <1>1, <1>2 DEF Changing!TypeOK, Changing!Addresses
  <2>2. place' \in {"idle", "sent", "carried", "asleep"} /\ attempt' \in 0 .. Retries
    BY <1>3
  <2>3. Changing!TypeOK'
    BY <1>2, <2>1, <2>2 DEF Changing!TypeOK, Changing!CallRecords
  <2>4. PlaceInv'
    <3>1. Len(calls') > 0
      BY <1>1, <1>2
    <3>2. QED
      BY <3>1 DEF PlaceInv
  <2>5. QED
    BY <2>3, <2>4
<1>6. ASSUME NEW c \in 1 .. last PROVE Accounted(c)'
  <2>1. Accounted(c)
    BY DEF WritesInv
  <2>2. CASE c = last
    <3>1. calls'[c] = r /\ Len(calls') = last
      BY <1>2, <2>2
    <3>2. UnderWay(c)' <=> place' = "asleep"
      BY <2>2, <3>1 DEF UnderWay
    <3>3. Did(c)' <=> r.end \in Changing!SaidDone
      BY <2>2, <3>1 DEF Did
    <3>4. /\ r.abandoned \/ r.travelling = 0
          /\ r.carried + r.travelling <= attempt + 1
      BY <1>3, <1>4, <2>1, <2>2 DEF Accounted, UnderWay, Allowance
    <3>5. Allowance(c)' = IF place' = "asleep" THEN attempt' + 1 ELSE Retries + 1
      BY <3>2 DEF Allowance
    <3>6. r.carried + r.travelling <= Allowance(c)'
      BY <1>3, <3>4, <3>5 DEF Changing!CallRecords
    <3>7. /\ r.end \in Changing!SaidDone => r.carried >= 1
          /\ ~r.abandoned /\ ~r.failed => r.carried = IF r.end \in Changing!SaidDone THEN 1 ELSE 0
      BY <1>3, <1>4, <2>1, <2>2 DEF Accounted, Did, UnderWay, Changing!SaidDone
    <3>8. QED
      BY <3>1, <3>2, <3>3, <3>4, <3>6, <3>7 DEF Accounted
  <2>3. CASE c # last
    BY <1>2, <1>3, <2>1, <2>3 DEF Accounted, Did, UnderWay, Allowance
  <2>4. QED
    BY <2>2, <2>3
<1>7. ASSUME NEW c \in 1 .. last, Did(c)', Undisturbed(c)'
      PROVE  stored'[Changing!Path(c)'] = Left(c)'
  <2>1. Did(c)
    BY <1>2, <1>7 DEF Did
  <2>2. ASSUME NEW d \in 1 .. c PROVE ~calls[d].abandoned
    <3>1. d \in 1 .. last /\ ~calls'[d].abandoned
      BY <1>3, <1>7 DEF Undisturbed
    <3>2. CASE d = last
      BY <1>2, <3>1, <3>2
    <3>3. CASE d # last
      BY <1>2, <3>1, <3>3
    <3>4. QED
      BY <3>2, <3>3
  <2>3. ASSUME NEW d \in c + 1 .. last PROVE Changing!Path(d) # Changing!Path(c)
    <3>1. d \in 1 .. last /\ d \in c + 1 .. Len(calls')
      <4>1. \A n \in Nat : \A i \in 1 .. n : \A e \in i + 1 .. n : e \in 1 .. n
        OBVIOUS
      <4>2. QED
        BY <1>2, <1>3, <4>1
    <3>2. Changing!Path(d)' # Changing!Path(c)'
      BY <1>7, <3>1 DEF Undisturbed
    <3>3. QED
      BY <1>2, <3>1, <3>2
  <2>4. Undisturbed(c)
    BY <1>7, <2>2, <2>3 DEF Undisturbed
  <2>5. stored[Changing!Path(c)] = Left(c)
    BY <2>1, <2>4 DEF WritesInv, Stands
  <2>6. QED
    BY <1>2, <2>5 DEF Left
<1>8. \A c \in 1 .. last : Stands(c)'
  BY <1>7 DEF Stands
<1>9. QED
  BY <1>2, <1>5, <1>6, <1>8 DEF WritesInv

\* The client's half of a call: whatever it hears.
LEMMA HearingKeeps == WritesInv /\ Changing!Hears => WritesInv'
<1> SUFFICES ASSUME WritesInv, Changing!Hears PROVE WritesInv'
  OBVIOUS
<1> DEFINE last == Len(calls)
           call == calls[last]
<1>1. CASE place \in {"sent", "carried"}
  <2>1. /\ last \in 1 .. Len(calls) /\ Changing!TypeOK /\ attempt \in Nat /\ Retries \in Nat
        /\ call \in Changing!CallRecords
    BY <1>1, CallsAreRecords DEF WritesInv, PlaceInv
  <2>2. Changing!Last = last
    BY DEF Changing!Last
  <2>3. /\ call.carried \in Nat /\ call.travelling \in Nat
        /\ call.abandoned \in BOOLEAN /\ call.failed \in BOOLEAN
    BY <2>1 DEF Changing!CallRecords
  <2>4. /\ call.end = "-"
        /\ place = "sent" /\ ~call.abandoned /\ ~call.failed => call.carried = 0
    BY <1>1, <2>1, <2>3 DEF WritesInv, Accounted, UnderWay, Did, Changing!SaidDone
  <2>5. CASE Changing!Answered \/ Changing!Unreadable
    <3> PICK how \in Changing!SaidDone : place = "carried" /\ Changing!End(call, how)
      BY <2>2, <2>5 DEF Changing!Answered, Changing!Unreadable, Changing!SaidDone
    <3> DEFINE r == [call EXCEPT !.end = how]
    <3>1. r \in Changing!CallRecords
      BY <2>1 DEF Changing!CallRecords, Changing!SaidDone
    <3>2. /\ r.op = call.op /\ r.carried = call.carried /\ r.travelling = call.travelling
          /\ r.abandoned = call.abandoned /\ r.failed = call.failed /\ r.end = how
          /\ how # "-"
      BY <2>1 DEF Changing!CallRecords, Changing!SaidDone
    <3>3. /\ calls' = [calls EXCEPT ![last] = r] /\ UNCHANGED <<granted, stored, foreign>>
          /\ place = "carried" /\ place' = "idle" /\ attempt' = 0
      BY <2>2 DEF Changing!End
    <3> HIDE DEF r
    <3>4. QED
      BY <3>1, <3>2, <3>3, HearsOnce
  <2>6. ASSUME NEW seen \in Changing!CallRecords,
               NEW how \in {"Forbidden", "NotFound", "RateLimited", "ServerError", "Unreachable"},
               Changing!End(seen, how) \/ Changing!RetryOr(seen, how),
               seen.op = call.op, seen.end = call.end, seen.carried = call.carried,
               seen.travelling = call.travelling
                 \/ (place = "sent" /\ seen.abandoned /\ seen.travelling = call.travelling + 1),
               call.abandoned => seen.abandoned, call.failed => seen.failed,
               place = "sent" \/ seen.abandoned \/ seen.failed
        PROVE  WritesInv'
    <3> DEFINE ended == [seen EXCEPT !.end = how]
    <3>1. ended \in Changing!CallRecords
      BY DEF Changing!CallRecords
    <3>2. /\ ended.op = seen.op /\ ended.carried = seen.carried
          /\ ended.travelling = seen.travelling /\ ended.abandoned = seen.abandoned
          /\ ended.failed = seen.failed /\ ended.end = how
      BY DEF Changing!CallRecords
    <3>3. CASE Changing!End(seen, how)
      <4>1. /\ calls' = [calls EXCEPT ![last] = ended] /\ UNCHANGED <<granted, stored, foreign>>
            /\ place' = "idle" /\ attempt' = 0
        BY <2>2, <3>3 DEF Changing!End
      <4> HIDE DEF ended
      <4>2. ended.end # "-" /\ ended.end \notin Changing!SaidDone
        BY <3>2 DEF Changing!SaidDone
      <4>3. QED
        BY <1>1, <2>6, <3>1, <3>2, <4>1, <4>2, HearsOnce
    <3>4. CASE ~Changing!End(seen, how)
      <4>1. /\ calls' = [calls EXCEPT ![last] = seen] /\ UNCHANGED <<granted, stored, foreign>>
            /\ place' = "asleep" /\ attempt' = attempt /\ attempt < Retries
        BY <2>2, <2>6, <3>4 DEF Changing!RetryOr
      <4> HIDE DEF ended
      <4>2. seen.end = "-" /\ seen.end \notin Changing!SaidDone
        BY <2>4, <2>6 DEF Changing!SaidDone
      <4>3. QED
        BY <1>1, <2>6, <4>1, <4>2, HearsOnce
    <3>5. QED
      BY <3>3, <3>4
  <2>7. CASE Changing!Refused
    <3>1. place = "sent" /\ Changing!End(call, Changing!refusal(last))
      BY <2>2, <2>7 DEF Changing!Refused
    <3>2. Changing!refusal(last) \in {"Forbidden", "NotFound"}
      BY DEF Changing!refusal
    <3>3. QED
      BY <2>1, <2>6, <3>1, <3>2
  <2>8. CASE Changing!Limited
    <3>1. /\ place = "sent"
          /\ Changing!RetryOr(call, "RateLimited") \/ Changing!End(call, "RateLimited")
      BY <2>2, <2>8 DEF Changing!Limited
    <3>2. QED
      BY <2>1, <2>6, <3>1
  <2>9. CASE Changing!Failed
    <3> DEFINE seen == [call EXCEPT !.failed = TRUE]
    <3>1. /\ seen \in Changing!CallRecords
          /\ seen.op = call.op /\ seen.end = call.end /\ seen.carried = call.carried
          /\ seen.travelling = call.travelling /\ seen.abandoned = call.abandoned /\ seen.failed = TRUE
      BY <2>1 DEF Changing!CallRecords
    <3>2. Changing!RetryOr(seen, "ServerError")
      BY <2>2, <2>9 DEF Changing!Failed
    <3> HIDE DEF seen
    <3>3. QED
      BY <2>6, <3>1, <3>2
  <2>10. CASE Changing!Silence
    <3> DEFINE more == IF place = "sent" THEN call.travelling + 1 ELSE call.travelling
               seen == [call EXCEPT !.abandoned = TRUE, !.travelling = more]
    <3>1. more \in Nat
      BY <2>3
    <3>2. Changing!RetryOr(seen, "Unreachable")
      BY <2>2, <2>10 DEF Changing!Silence
    <3> HIDE DEF more
    <3>3. /\ seen \in Changing!CallRecords
          /\ seen.op = call.op /\ seen.end = call.end /\ seen.carried = call.carried
          /\ seen.travelling = more /\ seen.abandoned = TRUE /\ seen.failed = call.failed
      BY <2>1, <3>1 DEF Changing!CallRecords
    <3>4. more = call.travelling \/ (place = "sent" /\ more = call.travelling + 1)
      BY DEF more
    <3> HIDE DEF seen
    <3>5. QED
      BY <2>6, <3>2, <3>3, <3>4
  <2>11. QED
    BY <2>5, <2>7, <2>8, <2>9, <2>10 DEF Changing!Hears
<1>2. CASE place \notin {"sent", "carried"}
  BY <1>2 DEF Changing!Hears, Changing!Answered, Changing!Unreadable, Changing!Refused, Changing!Limited,
              Changing!Failed, Changing!Silence
<1>3. QED
  BY <1>1, <1>2

\* What is done to an address leaves the others as they were.
LEMMA EffectIsThere ==
    ASSUME Changing!TypeOK, NEW c \in 1 .. Len(calls), Changing!Effect(c)
    PROVE  /\ stored' \in [Changing!Addresses -> 0 .. MaxCalls + 1]
           /\ stored'[Changing!Path(c)] = Left(c)
           /\ \A d \in 1 .. Len(calls) :
                 Changing!Path(d) # Changing!Path(c) => stored'[Changing!Path(d)]
                     = stored[Changing!Path(d)]
<1> DEFINE v == IF Changing!Verb(c) = "DELETE" THEN Changing!Absent ELSE c
<1>1. stored' = [stored EXCEPT ![Changing!Path(c)] = v]
  BY DEF Changing!Effect
<1>2. stored \in [Changing!Addresses -> 0 .. MaxCalls + 1]
  BY DEF Changing!TypeOK
<1>3. \A d \in 1 .. Len(calls) : Changing!Path(d) \in Changing!Addresses
  BY CallsAreRecords
<1>4. v \in 0 .. MaxCalls + 1
  BY CallsAreRecords DEF Changing!Absent
<1>5. v = Left(c)
  BY DEF Left
<1> HIDE DEF v
<1>6. QED
  BY <1>1, <1>2, <1>3, <1>4, <1>5

\* A request the client has given up on, arriving or lost, is of a call that says
\* so, and is counted once.
LEMMA ArrivalKeeps ==
    ASSUME WritesInv, NEW c \in 1 .. Len(calls), Changing!LateArrival(c) \/ Changing!LostForGood(c)
    PROVE  WritesInv'
<1> DEFINE call == calls[c]
           lost == [call EXCEPT !.travelling = call.travelling - 1]
           done == [call EXCEPT !.travelling = call.travelling - 1, !.carried = call.carried + 1]
<1>1. Changing!TypeOK
  BY DEF WritesInv
<1>2. /\ Retries \in Nat /\ attempt \in Nat /\ Len(calls) \in Nat
      /\ \A d \in 1 .. Len(calls) :
            /\ calls[d] \in Changing!CallRecords
            /\ calls[d].carried \in Nat /\ calls[d].travelling \in Nat
            /\ calls[d].abandoned \in BOOLEAN /\ calls[d].failed \in BOOLEAN
  BY <1>1, CallsAreRecords
<1>3. call.travelling > 0 /\ call.travelling - 1 \in Nat /\ call.carried + 1 \in Nat
  BY <1>2 DEF Changing!LateArrival, Changing!LostForGood
<1>4. call.abandoned
  BY <1>2, <1>3 DEF WritesInv, Accounted
<1>5. call \in Changing!CallRecords
  BY <1>2
<1>6. /\ lost \in Changing!CallRecords /\ lost.op = call.op /\ lost.end = call.end
      /\ lost.carried = call.carried /\ lost.travelling = call.travelling - 1
      /\ lost.abandoned = call.abandoned /\ lost.failed = call.failed
  BY <1>3, <1>5 DEF Changing!CallRecords
<1>7. /\ done \in Changing!CallRecords /\ done.op = call.op /\ done.end = call.end
      /\ done.carried = call.carried + 1 /\ done.travelling = call.travelling - 1
      /\ done.abandoned = call.abandoned /\ done.failed = call.failed
  BY <1>3, <1>5 DEF Changing!CallRecords
<1>8. /\ calls' = [calls EXCEPT ![c] = lost] \/ calls' = [calls EXCEPT ![c] = done]
      /\ UNCHANGED stored \/ Changing!Effect(c)
      /\ UNCHANGED <<granted, foreign, place, attempt>>
  BY DEF Changing!LateArrival, Changing!LostForGood
<1> HIDE DEF lost, done
<1>9. PICK r \in Changing!CallRecords :
         /\ r.op = call.op /\ r.end = call.end /\ r.travelling = call.travelling - 1
         /\ r.carried = call.carried \/ r.carried = call.carried + 1
         /\ r.abandoned = call.abandoned /\ r.failed = call.failed
         /\ calls' = [calls EXCEPT ![c] = r]
  BY <1>6, <1>7, <1>8
<1>10. /\ calls' \in Seq(Changing!CallRecords) /\ Len(calls') = Len(calls)
       /\ calls'[c] = r
       /\ \A d \in 1 .. Len(calls) : d # c => calls'[d] = calls[d]
       /\ \A d \in 1 .. Len(calls) :
             Changing!Path(d)' = Changing!Path(d) /\ Changing!Verb(d)' = Changing!Verb(d)
  BY <1>1, <1>9, Rewritten
<1>11. stored' \in [Changing!Addresses -> 0 .. MaxCalls + 1]
  BY <1>1, <1>8, EffectIsThere DEF Changing!TypeOK
<1>12. Changing!TypeOK' /\ PlaceInv'
  <2>1. /\ granted' \in {SCOPES, AppScopes} /\ foreign' \in 0 .. MaxForeign
        /\ Len(calls') <= MaxCalls /\ place' \in {"idle", "sent", "carried", "asleep"}
        /\ attempt' \in 0 .. Retries
    BY <1>1, <1>8, <1>10 DEF Changing!TypeOK
  <2>2. stored' \in [Changing!Addresses' -> 0 .. MaxCalls + 1]
    BY <1>11 DEF Changing!Addresses
  <2>3. PlaceInv'
    BY <1>8, <1>10 DEF WritesInv, PlaceInv
  <2>4. QED
    BY <1>10, <2>1, <2>2, <2>3 DEF Changing!TypeOK, Changing!CallRecords
<1>13. ASSUME NEW d \in 1 .. Len(calls)
       PROVE  /\ calls'[d].end = calls[d].end /\ calls'[d].abandoned = calls[d].abandoned
              /\ Did(d)' = Did(d)
  <2>1. calls'[d].end = calls[d].end /\ calls'[d].abandoned = calls[d].abandoned
    BY <1>9, <1>10
  <2>2. QED
    BY <1>8, <1>10, <2>1 DEF Did
<1>14. ASSUME NEW d \in 1 .. Len(calls) PROVE Accounted(d)'
  <2>1. Accounted(d)
    BY DEF WritesInv
  <2>2. UnderWay(d)' = UnderWay(d) /\ Allowance(d)' = Allowance(d)
    BY <1>8, <1>10 DEF UnderWay, Allowance
  <2>3. CASE d # c
    BY <1>10, <1>13, <2>1, <2>2, <2>3 DEF Accounted
  <2>4. CASE d = c
    <3>1. Allowance(d) \in Nat
      BY <1>2 DEF Allowance
    <3>2. /\ calls'[d].carried + calls'[d].travelling <= Allowance(d)'
          /\ Did(d)' => calls'[d].carried >= 1
      BY <1>2, <1>9, <1>10, <1>13, <2>1, <2>2, <2>4, <3>1 DEF Accounted
    <3>3. QED
      BY <1>4, <1>13, <2>1, <2>2, <2>4, <3>2 DEF Accounted
  <2>5. QED
    BY <2>3, <2>4
<1>15. ASSUME NEW d \in 1 .. Len(calls), Did(d)', Undisturbed(d)'
       PROVE  stored'[Changing!Path(d)'] = Left(d)'
  <2>1. \A e \in 1 .. d : e \in 1 .. Len(calls)
    BY <1>2
  <2>2. \A e \in d + 1 .. Len(calls) : e \in 1 .. Len(calls)
    BY <1>2
  <2>3. \A e \in 1 .. d : ~calls[e].abandoned
    BY <1>13, <1>15, <2>1 DEF Undisturbed
  <2>4. \A e \in d + 1 .. Len(calls) : Changing!Path(e) # Changing!Path(d)
    BY <1>10, <1>15, <2>2 DEF Undisturbed
  <2>5. Undisturbed(d)
    BY <1>8, <1>15, <2>3, <2>4 DEF Undisturbed
  <2>6. stored[Changing!Path(d)] = Left(d)
    BY <1>13, <1>15, <2>5 DEF WritesInv, Stands
  <2>7. c \in d + 1 .. Len(calls)
    BY <1>2, <1>4, <2>3
  <2>8. Changing!Path(c) # Changing!Path(d)
    BY <2>4, <2>7
  <2>9. stored'[Changing!Path(d)] = stored[Changing!Path(d)]
    BY <1>1, <1>8, <2>8, EffectIsThere
  <2>10. QED
    BY <1>10, <2>6, <2>9 DEF Left
<1>16. \A d \in 1 .. Len(calls) : Stands(d)'
  BY <1>15 DEF Stands
<1>17. QED
  BY <1>10, <1>12, <1>14, <1>16 DEF WritesInv

\* The api carries out what the last call asks for: its attempt is used, and its
\* effect is the last.
LEMMA CarryingKeeps ==
    ASSUME WritesInv, Changing!CarryOut
    PROVE  WritesInv'
<1> DEFINE last == Len(calls)
           call == calls[last]
           r    == [call EXCEPT !.carried = call.carried + 1]
<1>1. Changing!TypeOK /\ place = "sent" /\ place' = "carried"
  BY DEF WritesInv, Changing!CarryOut
<1>2. last > 0 /\ last \in 1 .. Len(calls)
  BY <1>1, CallsAreRecords DEF WritesInv, PlaceInv
<1>3. /\ Retries \in Nat /\ attempt \in Nat /\ attempt <= Retries /\ last \in Nat
      /\ \A d \in 1 .. Len(calls) :
            /\ calls[d] \in Changing!CallRecords
            /\ calls[d].carried \in Nat /\ calls[d].travelling \in Nat
            /\ calls[d].abandoned \in BOOLEAN /\ calls[d].failed \in BOOLEAN
  BY <1>1, CallsAreRecords
<1>4. call \in Changing!CallRecords /\ call.carried + 1 \in Nat
  BY <1>2, <1>3
<1>5. /\ r \in Changing!CallRecords /\ r.op = call.op /\ r.end = call.end
      /\ r.carried = call.carried + 1 /\ r.travelling = call.travelling
      /\ r.abandoned = call.abandoned /\ r.failed = call.failed
  BY <1>4 DEF Changing!CallRecords
<1>6. /\ calls' = [calls EXCEPT ![last] = r] /\ Changing!Effect(last)
      /\ UNCHANGED <<granted, foreign, attempt>>
  BY DEF Changing!CarryOut, Changing!Last
<1> HIDE DEF r
<1>7. /\ calls' \in Seq(Changing!CallRecords) /\ Len(calls') = last
      /\ calls'[last] = r
      /\ \A d \in 1 .. last : d # last => calls'[d] = calls[d]
      /\ \A d \in 1 .. last :
            Changing!Path(d)' = Changing!Path(d) /\ Changing!Verb(d)' = Changing!Verb(d)
  BY <1>1, <1>2, <1>5, <1>6, Rewritten
<1>8. /\ stored' \in [Changing!Addresses -> 0 .. MaxCalls + 1]
      /\ stored'[Changing!Path(last)] = Left(last)
      /\ \A d \in 1 .. last :
            Changing!Path(d) # Changing!Path(last) => stored'[Changing!Path(d)]
                = stored[Changing!Path(d)]
  BY <1>1, <1>2, <1>6, EffectIsThere
<1>9. Changing!TypeOK' /\ PlaceInv'
  <2>1. /\ granted' \in {SCOPES, AppScopes} /\ foreign' \in 0 .. MaxForeign
        /\ Len(calls') <= MaxCalls /\ place' \in {"idle", "sent", "carried", "asleep"}
        /\ attempt' \in 0 .. Retries
    BY <1>1, <1>6, <1>7 DEF Changing!TypeOK
  <2>2. stored' \in [Changing!Addresses' -> 0 .. MaxCalls + 1]
    BY <1>8 DEF Changing!Addresses
  <2>3. PlaceInv'
    BY <1>1, <1>2, <1>7 DEF PlaceInv
  <2>4. QED
    BY <1>7, <2>1, <2>2, <2>3 DEF Changing!TypeOK, Changing!CallRecords
<1>10. ASSUME NEW d \in 1 .. last PROVE Accounted(d)'
  <2>1. Accounted(d)
    BY DEF WritesInv
  <2>2. CASE d # last
    BY <1>7, <2>1, <2>2 DEF Accounted, Did, UnderWay, Allowance
  <2>3. CASE d = last
    <3>1. UnderWay(d) /\ UnderWay(d)' /\ Did(d)'
      BY <1>1, <1>7, <2>3 DEF UnderWay, Did
    <3>2. Allowance(d) = attempt /\ Allowance(d)' = attempt + 1
      BY <1>1, <1>6, <3>1 DEF Allowance
    <3>3. ~call.abandoned => call.travelling = 0
      BY <2>1, <2>3 DEF Accounted
    <3>4. call.end = "-" /\ ~Did(d)
      BY <1>1, <2>1, <2>3, <3>1 DEF Accounted, Did, Changing!SaidDone
    <3>5. call.carried + call.travelling <= attempt
      BY <2>1, <2>3, <3>2 DEF Accounted
    <3>6. ~call.abandoned /\ ~call.failed => call.carried = 0
      BY <2>1, <2>3, <3>4 DEF Accounted
    <3>7. /\ r.carried + r.travelling <= attempt + 1 /\ r.carried >= 1
          /\ ~r.abandoned /\ ~r.failed => r.carried = 1
      BY <1>3, <1>5, <2>3, <3>5, <3>6
    <3>8. calls'[d] = r
      BY <1>7, <2>3
    <3>9. QED
      BY <1>5, <3>1, <3>2, <3>3, <3>4, <3>7, <3>8 DEF Accounted
  <2>4. QED
    BY <2>2, <2>3
<1>11. ASSUME NEW d \in 1 .. last, Did(d)', Undisturbed(d)'
       PROVE  stored'[Changing!Path(d)'] = Left(d)'
  <2>1. CASE d = last
    BY <1>7, <1>8, <2>1 DEF Left
  <2>2. CASE d # last
    <3>1. Did(d)
      BY <1>7, <1>11, <2>2 DEF Did
    <3>2. \A e \in 1 .. d : e \in 1 .. last /\ e # last
      BY <1>3, <2>2
    <3>3. \A e \in d + 1 .. last : e \in 1 .. last
      BY <1>3
    <3>4. \A e \in 1 .. d : ~calls[e].abandoned
      BY <1>7, <1>11, <3>2 DEF Undisturbed
    <3>5. \A e \in d + 1 .. last : Changing!Path(e) # Changing!Path(d)
      BY <1>7, <1>11, <3>3 DEF Undisturbed
    <3>6. Undisturbed(d)
      BY <1>6, <1>11, <3>4, <3>5 DEF Undisturbed
    <3>7. stored[Changing!Path(d)] = Left(d)
      BY <3>1, <3>6 DEF WritesInv, Stands
    <3>8. last \in d + 1 .. last
      BY <1>3, <2>2
    <3>9. stored'[Changing!Path(d)] = stored[Changing!Path(d)]
      BY <1>8, <3>5, <3>8
    <3>10. QED
      BY <1>7, <3>7, <3>9 DEF Left
  <2>3. QED
    BY <2>1, <2>2
<1>12. \A d \in 1 .. last : Stands(d)'
  BY <1>11 DEF Stands
<1>13. QED
  BY <1>7, <1>9, <1>10, <1>12 DEF WritesInv

\* A call begins with nothing done, no attempt used and nothing left behind.
LEMMA BeginningKeeps ==
    ASSUME WritesInv, NEW o \in DOMAIN [p \in Written |-> operations[p]], Changing!Begin(o)
    PROVE  WritesInv'
<1> DEFINE last == Len(calls)
           r    == [op |-> o, carried |-> 0, travelling |-> 0,
                    abandoned |-> FALSE, failed |-> FALSE, end |-> "-"]
<1>1. /\ place = "idle" /\ place' = "sent" /\ attempt' = 0 /\ last < MaxCalls
      /\ calls' = Append(calls, r) /\ UNCHANGED <<granted, stored, foreign>>
  BY DEF Changing!Begin, Changing!Last
<1>2. r \in Changing!CallRecords
  BY DEF Changing!CallRecords
<1>3. /\ r.carried = 0 /\ r.travelling = 0 /\ r.abandoned = FALSE /\ r.failed = FALSE /\ r.end = "-"
  OBVIOUS
<1> HIDE DEF r
<1>4. /\ Changing!TypeOK /\ calls \in Seq(Changing!CallRecords)
  BY DEF WritesInv, Changing!TypeOK
<1>5. /\ calls' \in Seq(Changing!CallRecords) /\ Len(calls') = last + 1
      /\ \A d \in 1 .. last : calls'[d] = calls[d]
      /\ calls'[last + 1] = r
  BY <1>1, <1>2, <1>4, AppendProperties
<1>6. last \in Nat /\ Retries \in Nat /\ MaxCalls \in Nat /\ attempt \in Nat
  BY <1>4, CallsAreRecords
<1>7. \A d \in 1 .. last :
         Changing!Path(d)' = Changing!Path(d) /\ Changing!Verb(d)' = Changing!Verb(d)
  BY <1>5 DEF Changing!Path, Changing!Verb
<1>8. Changing!TypeOK' /\ PlaceInv'
  <2>1. /\ granted' \in {SCOPES, AppScopes} /\ foreign' \in 0 .. MaxForeign
        /\ stored' \in [Changing!Addresses' -> 0 .. MaxCalls + 1]
    BY <1>1, <1>4 DEF Changing!TypeOK, Changing!Addresses
  <2>2. /\ Len(calls') <= MaxCalls /\ place' \in {"idle", "sent", "carried", "asleep"}
        /\ attempt' \in 0 .. Retries
    BY <1>1, <1>5, <1>6
  <2>3. PlaceInv'
    BY <1>1, <1>5, <1>6 DEF PlaceInv
  <2>4. QED
    BY <1>5, <2>1, <2>2, <2>3 DEF Changing!TypeOK, Changing!CallRecords
<1>9. ASSUME NEW d \in 1 .. last PROVE Accounted(d)' /\ (Did(d)' <=> Did(d))
  <2>1. /\ Accounted(d) /\ calls'[d] = calls[d] /\ d # Len(calls')
    BY <1>5, <1>6 DEF WritesInv
  <2>2. ~UnderWay(d) /\ ~UnderWay(d)'
    BY <1>1, <2>1 DEF UnderWay
  <2>3. Did(d)' <=> Did(d)
    BY <1>1, <2>1 DEF Did
  <2>4. QED
    BY <2>1, <2>2, <2>3 DEF Accounted, Allowance
<1>10. ASSUME NEW d, d = last + 1 PROVE Accounted(d)' /\ Stands(d)'
  <2>1. UnderWay(d)' /\ ~Did(d)'
    BY <1>1, <1>3, <1>5, <1>10 DEF UnderWay, Did, Changing!SaidDone
  <2>2. Allowance(d)' = 0
    BY <1>1, <2>1 DEF Allowance
  <2>3. calls'[d] = r
    BY <1>5, <1>10
  <2>4. QED
    BY <1>3, <2>1, <2>2, <2>3 DEF Accounted, Stands
<1>11. ASSUME NEW d \in 1 .. last, Did(d)', Undisturbed(d)'
       PROVE  stored'[Changing!Path(d)'] = Left(d)'
  <2>1. \A e \in 1 .. d : e \in 1 .. last
    BY <1>6
  <2>2. \A e \in d + 1 .. last : e \in 1 .. last /\ e \in d + 1 .. Len(calls')
    BY <1>5, <1>6
  <2>3. \A e \in 1 .. d : ~calls[e].abandoned
    BY <1>5, <1>11, <2>1 DEF Undisturbed
  <2>4. \A e \in d + 1 .. last : Changing!Path(e) # Changing!Path(d)
    BY <1>7, <1>11, <2>2 DEF Undisturbed
  <2>5. Undisturbed(d) /\ Did(d)
    BY <1>1, <1>9, <1>11, <2>3, <2>4 DEF Undisturbed
  <2>6. stored[Changing!Path(d)] = Left(d)
    BY <2>5 DEF WritesInv, Stands
  <2>7. QED
    BY <1>1, <1>7, <2>6 DEF Left
<1>12. \A d \in 1 .. last : Stands(d)'
  BY <1>11 DEF Stands
<1>13. \A d \in 1 .. Len(calls') : d \in 1 .. last \/ d = last + 1
  BY <1>5, <1>6
<1>14. QED
  BY <1>8, <1>9, <1>10, <1>12, <1>13 DEF WritesInv

\* Every step of the calls, of the api and of somebody else keeps the invariant.
LEMMA WritingKeeps == WritesInv /\ Changing!Next => WritesInv'
<1> SUFFICES ASSUME WritesInv, Changing!Next PROVE WritesInv'
  OBVIOUS
<1>1. Changing!TypeOK
  BY DEF WritesInv
<1>2. /\ Retries \in Nat /\ attempt \in Nat /\ attempt <= Retries
      /\ \A d \in 1 .. Len(calls) :
            calls[d].carried \in Nat /\ calls[d].travelling \in Nat
  BY <1>1, CallsAreRecords
<1>3. CASE Changing!Wake
  <2>1. /\ place = "asleep" /\ place' = "sent" /\ attempt' = attempt + 1
        /\ UNCHANGED <<granted, stored, foreign, calls>> /\ attempt < Retries
    BY <1>3 DEF Changing!Wake, WritesInv, PlaceInv
  <2>2. Changing!TypeOK'
    BY <1>1, <1>2, <2>1 DEF Changing!TypeOK, Changing!CallRecords, Changing!Addresses
  <2>3. PlaceInv'
    BY <2>1 DEF WritesInv, PlaceInv
  <2>4. ASSUME NEW d \in 1 .. Len(calls) PROVE Accounted(d)' /\ Stands(d)'
    <3>1. UnderWay(d)' = UnderWay(d) /\ Did(d)' = Did(d)
      BY <2>1 DEF UnderWay, Did
    <3>2. Allowance(d)' = Allowance(d)
      BY <2>1, <3>1 DEF Allowance
    <3>3. Undisturbed(d)' = Undisturbed(d) /\ Left(d)' = Left(d)
      BY <2>1 DEF Undisturbed, Left, Changing!Path, Changing!Verb
    <3>4. Accounted(d) /\ Stands(d)
      BY DEF WritesInv
    <3>5. Accounted(d)'
      BY <2>1, <3>1, <3>2, <3>4 DEF Accounted
    <3>6. Stands(d)'
      BY <2>1, <3>1, <3>3, <3>4 DEF Stands, Changing!Path
    <3>7. QED
      BY <3>5, <3>6
  <2>5. QED
    BY <2>1, <2>2, <2>3, <2>4 DEF WritesInv
<1>4. ASSUME NEW a \in Changing!Addresses, Changing!ForeignWrite(a) PROVE WritesInv'
  <2>1. /\ foreign < MaxForeign /\ foreign' = foreign + 1
        /\ stored' = [stored EXCEPT ![a] = MaxCalls + 1]
        /\ UNCHANGED <<granted, calls, place, attempt>>
    BY <1>4 DEF Changing!ForeignWrite, Changing!Other
  <2>2. foreign \in Nat /\ MaxForeign \in Nat /\ MaxCalls \in Nat
    BY <1>1, GeneratedClientAssumption DEF Changing!TypeOK, Changing!WritesConstants
  <2>3. stored' \in [Changing!Addresses -> 0 .. MaxCalls + 1]
    <3>1. stored \in [Changing!Addresses -> 0 .. MaxCalls + 1] /\ MaxCalls + 1 \in 0 .. MaxCalls + 1
      BY <1>1, <2>2 DEF Changing!TypeOK
    <3>2. QED
      BY <2>1, <3>1
  <2>4. Changing!TypeOK'
    <3>1. foreign' \in 0 .. MaxForeign
      BY <2>1, <2>2
    <3>2. stored' \in [Changing!Addresses' -> 0 .. MaxCalls + 1]
      BY <2>3 DEF Changing!Addresses
    <3>3. QED
      BY <1>1, <2>1, <3>1, <3>2 DEF Changing!TypeOK, Changing!CallRecords
  <2>5. \A d \in 1 .. Len(calls) : Stands(d)'
    BY <2>1, <2>2 DEF Stands, Undisturbed
  <2>6. ASSUME NEW d \in 1 .. Len(calls) PROVE Accounted(d)'
    BY <2>1 DEF WritesInv, Accounted, UnderWay, Did, Allowance
  <2>7. PlaceInv'
    BY <2>1 DEF WritesInv, PlaceInv
  <2>8. QED
    BY <2>1, <2>4, <2>5, <2>6, <2>7 DEF WritesInv
<1>5. ASSUME NEW c \in 1 .. Changing!Last, Changing!LateArrival(c) \/ Changing!LostForGood(c)
      PROVE  WritesInv'
  <2>1. c \in 1 .. Len(calls)
    BY <1>5 DEF Changing!Last
  <2>2. QED
    BY <1>5, <2>1, ArrivalKeeps
<1>6. QED
  BY <1>3, <1>4, <1>5, BeginningKeeps, CarryingKeeps, HearingKeeps DEF Changing!Next, Changing!Hears

\* The invariant holds when the client is made, and of one that does nothing.
LEMMA WritesInductive ==
    /\ Init => WritesInv
    /\ WritesInv /\ [Next]_vars => WritesInv'
<1>1. ASSUME Init PROVE WritesInv
  <2>1. /\ granted \in {SCOPES, AppScopes} /\ stored = [a \in Changing!Addresses |-> 0]
        /\ foreign = 0 /\ calls = <<>> /\ place = "idle" /\ attempt = 0
    BY <1>1 DEF Init, Changing!Init, Changing!Absent
  <2>2. {Retries, MaxCalls, MaxForeign} \subseteq Nat
    BY GeneratedClientAssumption DEF Changing!WritesConstants
  <2>3. calls \in Seq(Changing!CallRecords) /\ Len(calls) = 0
    BY <2>1
  <2>4. stored \in [Changing!Addresses -> 0 .. MaxCalls + 1]
    BY <2>1, <2>2
  <2>5. Changing!TypeOK
    BY <2>1, <2>2, <2>3, <2>4 DEF Changing!TypeOK
  <2>6. PlaceInv /\ \A c \in 1 .. Len(calls) : FALSE
    BY <2>1, <2>3 DEF PlaceInv
  <2>7. QED
    BY <2>5, <2>6 DEF WritesInv
<1>2. ASSUME WritesInv, UNCHANGED writeVars PROVE WritesInv'
  <2>1. UNCHANGED <<granted, stored, foreign, calls, place, attempt>>
    BY <1>2 DEF writeVars
  <2>2. Changing!TypeOK' /\ PlaceInv'
    BY <1>2, <2>1 DEF WritesInv, Changing!TypeOK, PlaceInv, Changing!CallRecords, Changing!Addresses
  <2>3. ASSUME NEW c \in 1 .. Len(calls) PROVE Accounted(c)' /\ Stands(c)'
    <3>1. Accounted(c)'
      BY <1>2, <2>1 DEF WritesInv, Accounted, UnderWay, Did, Allowance
    <3>2. Stands(c)'
      BY <1>2, <2>1 DEF WritesInv, Stands, Undisturbed, Did, Left, Changing!Path, Changing!Verb
    <3>3. QED
      BY <3>1, <3>2
  <2>4. QED
    BY <2>1, <2>2, <2>3 DEF WritesInv
<1>3. [Next]_vars => Changing!Next \/ UNCHANGED writeVars
  BY DEF Next, vars
<1>4. QED
  BY <1>1, <1>2, <1>3, WritingKeeps

\* What a client that writes holds, in every state.
LEMMA WritesKept == FairSpec => []WritesInv
BY WritesInductive, PTL DEF FairSpec

\* Every state of the generated client is of its type, for every choice of the
\* operations called and of the constants.
THEOREM TypeCorrect == FairSpec => []TypeOK
<1>1. WalkInv => Reading!TypeOK
  BY DEF WalkInv
<1>2. WritesInv => Changing!TypeOK
  BY DEF WritesInv
<1>3. WalkInv /\ WritesInv => TypeOK
  BY <1>1, <1>2 DEF TypeOK
<1>4. QED
  BY <1>3, WalkKept, WritesKept, PTL

\* A method that returned, or raised over an answer it could not read, did what it
\* is named for; one that met neither silence nor a 5xx did it exactly once then,
\* and not at all if it raised anything else; and none does it more often than it has
\* attempts, whatever the network loses and delays.
THEOREM CallsAreDoneAsReported == FairSpec => []DoneAsReported
<1>1. ASSUME WritesInv PROVE DoneAsReported
  <2>1. /\ Retries \in Nat /\ attempt \in Nat /\ attempt <= Retries
        /\ \A c \in 1 .. Len(calls) : calls[c].carried \in Nat /\ calls[c].travelling \in Nat
    BY <1>1, CallsAreRecords DEF WritesInv
  <2>2. ASSUME NEW c \in 1 .. Len(calls)
        PROVE  /\ calls[c].end \in Changing!SaidDone => calls[c].carried >= 1
               /\ ~calls[c].abandoned /\ ~calls[c].failed /\ calls[c].end # "-"
                    => calls[c].carried = IF calls[c].end \in Changing!SaidDone THEN 1 ELSE 0
               /\ calls[c].carried + calls[c].travelling <= Retries + 1
    <3>1. Accounted(c)
      BY <1>1 DEF WritesInv
    <3>2. calls[c].end # "-" => (Did(c) <=> calls[c].end \in Changing!SaidDone)
      BY <3>1 DEF Accounted, Did, UnderWay, Changing!SaidDone
    <3>3. Allowance(c) \in Nat /\ Allowance(c) <= Retries + 1
      BY <2>1 DEF Allowance
    <3>4. calls[c].carried + calls[c].travelling <= Retries + 1
      BY <2>1, <3>1, <3>3 DEF Accounted
    <3>5. QED
      BY <3>1, <3>2, <3>4 DEF Accounted, Did
  <2>3. QED
    BY <2>2 DEF DoneAsReported, Changing!DoneAsReported, Changing!Last
<1>2. QED
  BY <1>1, WritesKept, PTL

\* What the last write to an address left there stands, unless a call up to it was
\* given up on or somebody else wrote.
THEOREM TheLastWriteStands == FairSpec => []LastWriteStands
<1>1. ASSUME WritesInv PROVE LastWriteStands
  <2>1. ASSUME NEW c \in 1 .. Len(calls)
        PROVE  (/\ calls[c].end \in Changing!SaidDone /\ foreign = 0
                /\ \A d \in 1 .. c : ~calls[d].abandoned
                /\ \A d \in c + 1 .. Len(calls) : Changing!Path(d) # Changing!Path(c))
               => stored[Changing!Path(c)] = Left(c)
    BY <1>1 DEF WritesInv, Stands, Did, Undisturbed
  <2>2. QED
    BY <2>1 DEF LastWriteStands, Changing!LastWriteStands, Changing!Last, Left
<1>2. QED
  BY <1>1, WritesKept, PTL
================================================================================
