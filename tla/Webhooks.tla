------------------------------- MODULE Webhooks -------------------------------
(***************************************************************************)
(* verify, at the receiving end of a delivery that is signed elsewhere:    *)
(* delayed, repeated, re-serialised on its way, with the two clocks apart  *)
(* and the secret replaced at one end before the other.  A header is a     *)
(* sequence of pieces; the HMAC is the triple it is computed from.         *)
(***************************************************************************)
EXTENDS Integers, Sequences

CONSTANTS
    Bodies,
    Tolerance,
    Skews,      \* how far the receiver's clock is ahead
    MaxClock

\* What the constants may be; whoever composes the component assumes it.
WebhooksConstants == {Tolerance, MaxClock} \subseteq Nat /\ Skews \subseteq Int

VARIABLES
    clock, skew,
    signing, checking,  \* the secret at each end
    sent,               \* what was signed: secret, time and body
    onTheWay,           \* the delivery on its way, with what became of it
    verdicts            \* what verify said last, of which delivery, and when

vars == <<clock, skew, signing, checking, sent, onTheWay, verdicts>>

Piece(key, value) == [key |-> key, value |-> value]
NaN == -1
Mac(secret, t, body) == <<secret, t, body>>
Delivery(header, body) == [header |-> header, body |-> body, intact |-> TRUE]

TypeOK ==
    /\ clock \in 0 .. MaxClock /\ skew \in Skews
    /\ {signing, checking} \subseteq {1, 2}
    /\ sent \subseteq {Mac(s, t, b) : s \in {1, 2}, t \in 0 .. MaxClock, b \in Bodies}
    /\ \A d \in onTheWay : d.body \in Bodies /\ Len(d.header) <= 3
    /\ \A v \in verdicts : v.said \in {"accepted", "malformed", "old", "mismatch"}

Init ==
    /\ clock = 0 /\ skew \in Skews /\ signing = 1 /\ checking = 1
    /\ sent = {} /\ onTheWay = {} /\ verdicts = {}

-------------------------------------------------------------------------------
(* verify *)

\* The pieces that name a key; the last of them counts, and a `t` that is no
\* number, or an empty `v1`, makes the header malformed.
named(header, key) == {i \in 1 .. Len(header) : header[i].key = key}
lastOf(header, key) == header[CHOOSE i \in named(header, key) : \A j \in named(header, key) : j <= i].value
parts(header) ==
    IF named(header, "t") = {} \/ named(header, "v1") = {} \/ lastOf(header, "t") = NaN THEN {}
    ELSE {[t |-> lastOf(header, "t"), v1 |-> lastOf(header, "v1")]}

Apart(a, b) == IF a < b THEN b - a ELSE a - b

\* Defect: only a delivery that is late is too far off.
verifyLate(header, body, secret, now) ==
    IF parts(header) = {} THEN "malformed"
    ELSE LET said == CHOOSE p \in parts(header) : TRUE IN
         IF now - said.t > Tolerance THEN "old"
         ELSE IF Mac(secret, said.t, body) # said.v1 THEN "mismatch"
         ELSE "accepted"

verify(header, body, secret, now) ==
    IF parts(header) = {} THEN "malformed"
    ELSE LET said == CHOOSE p \in parts(header) : TRUE IN
         IF Apart(now, said.t) > Tolerance THEN "old"
         ELSE IF Mac(secret, said.t, body) # said.v1 THEN "mismatch"
         ELSE "accepted"

\* A delivery may be handed to verify more than once.
Receive(d) ==
    /\ verdicts' = {[of |-> d, at |-> clock + skew, with |-> checking,
                     said |-> verify(d.header, d.body, checking, clock + skew)]}
    /\ UNCHANGED <<clock, skew, signing, checking, sent, onTheWay>>

-------------------------------------------------------------------------------
(* The sender and the way *)

Send(body) ==
    /\ sent = {}
    /\ sent' = sent \cup {Mac(signing, clock, body)}
    /\ onTheWay' =
          {Delivery(<<Piece("t", clock), Piece("v1", Mac(signing, clock, body))>>, body)}
    /\ UNCHANGED <<clock, skew, signing, checking, verdicts>>

\* A proxy that re-orders the header, adds a piece to it, drops one or spoils
\* one, or a framework that parses and re-serialises the body.
Altered(d) ==
    LET h == d.header IN
    {[d EXCEPT !.header = <<h[2], h[1]>>], [d EXCEPT !.header = Append(h, Piece("v0", "-"))]}
      \cup {[d EXCEPT !.header = g, !.intact = FALSE] :
              g \in {<<h[1]>>, <<h[2]>>, <<Piece("t", NaN), h[2]>>, <<h[1], Piece("t", clock), h[2]>>}}
      \cup {[d EXCEPT !.body = b, !.intact = FALSE] : b \in Bodies \ {d.body}}

Alter(d) ==
    /\ Len(d.header) = 2 /\ d.intact
    /\ \E e \in Altered(d) : onTheWay' = {e}
    /\ UNCHANGED <<clock, skew, signing, checking, sent, verdicts>>

Tick ==
    /\ clock < MaxClock /\ clock' = clock + 1
    /\ UNCHANGED <<skew, signing, checking, sent, onTheWay, verdicts>>

Replace ==
    /\ \/ signing = 1 /\ signing' = 2 /\ UNCHANGED checking
       \/ checking = 1 /\ checking' = 2 /\ UNCHANGED signing
    /\ UNCHANGED <<clock, skew, sent, onTheWay, verdicts>>

Next ==
    \/ \E d \in onTheWay : Receive(d) \/ Alter(d)
    \/ \E b \in Bodies : Send(b)
    \/ Tick
    \/ Replace

Spec == Init /\ [][Next]_vars

-------------------------------------------------------------------------------
\* What is accepted was signed, with the secret it was checked with and this very
\* body, within the tolerance of the receiver's clock: however late, spoilt or
\* repeated it arrived.  And a delivery nobody spoilt is accepted as long as the
\* two ends share the secret and its age and the skew together stay within the
\* tolerance, in whatever order the header's pieces come.
AcceptsTheGenuine ==
    \A v \in verdicts :
        LET signed == {m \in sent : m[1] = v.with /\ m[3] = v.of.body /\ Apart(v.at, m[2]) <= Tolerance}
        IN  /\ v.said = "accepted" => signed # {}
            /\ (v.of.intact /\ \E m \in signed, i \in 1 .. Len(v.of.header) : v.of.header[i] = Piece("v1", m))
                 => v.said = "accepted"
================================================================================
