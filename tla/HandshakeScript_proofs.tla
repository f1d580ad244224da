----------------------- MODULE HandshakeScript_proofs -----------------------
(***************************************************************************)
(* The script of a handshake, first half of the proof that it is followed:  *)
(* lines of numbered messages and what adding and taking one does to them,  *)
(* the places of an endpoint and their keys, flags and transcripts, and the *)
(* steps at which an endpoint says something or nothing.                    *)
(***************************************************************************)
EXTENDS Handshake_proofs

-----------------------------------------------------------------------------
(* Numbers in a line.                                                        *)

\* The numbers that p uses.
LEMMA Numbered ==
  ASSUME NEW p \in Ends, NEW k, Versions, Sends(p, k)
  PROVE  /\ k \in 1..104 /\ k # 100
         /\ k <= LastOwn(p) \/ k \in 101..104
  <1>1. Version \in {"13", "12", "12r"}
    BY DEF Version
  <1> QED BY <1>1 DEF Sends, LastOwn, Ends

\* The numbers from 101 on that a client uses are those of its re-authentication.
LEMMA ClientNumbers ==
  ASSUME NEW k \in 1..104, Versions, Sends("client", k), k \notin Reauths
  PROVE  k < 100
  <1>1. Version \in {"13", "12", "12r"}
    BY DEF Version
  <1> QED BY <1>1 DEF Sends, Reauths

\* The initial handshake ends with the messages 13 to 17.
LEMMA LastOwnRange == ASSUME NEW p \in Ends PROVE LastOwn(p) \in 13..17
  BY DEF LastOwn, Ends

\* Silent messages come early.
LEMMA SilentRange == ASSUME NEW k, Silent(k) PROVE k \in 1..8
  BY DEF Silent

\* An entry at the end of a line.
LEMMA Longer ==
  ASSUME NEW K \in Seq(Nat), NEW k \in Nat
  PROVE  /\ Append(K, k) \in Seq(Nat) /\ Len(Append(K, k)) = Len(K) + 1 /\ Len(K) \in Nat
         /\ Append(K, k)[Len(K) + 1] = k
         /\ \A i \in 1..Len(K) : Append(K, k)[i] = K[i] /\ K[i] \in Nat
  OBVIOUS

\* A line without its first entry.
LEMMA Shorter ==
  ASSUME NEW K \in Seq(Nat), K # <<>>
  PROVE  /\ Tail(K) \in Seq(Nat) /\ Len(K) \in Nat /\ Len(Tail(K)) = Len(K) - 1 /\ Len(K) >= 1
         /\ \A i \in 1..Len(Tail(K)) : Tail(K)[i] = K[i + 1] /\ (i + 1) \in 1..Len(K) /\ K[i + 1] \in Nat
         /\ \A i \in 2..Len(K) : K[i] = Tail(K)[i - 1] /\ (i - 1) \in 1..Len(Tail(K))
         /\ K[1] \in Nat /\ 1 \in 1..Len(K)
  OBVIOUS

\* A later message at the end keeps the order.
LEMMA OrderedAppend ==
  ASSUME NEW K \in Seq(Nat), NEW k \in Nat, Ordered(K), \A i \in 1..Len(K) : Before(K[i], k)
  PROVE  Ordered(Append(K, k))
  <1> DEFINE M == Append(K, k)
  <1>1. /\ Len(M) = Len(K) + 1 /\ Len(K) \in Nat /\ M[Len(K) + 1] = k
        /\ \A i \in 1..Len(K) : M[i] = K[i] /\ K[i] \in Nat
    BY Longer
  <1> HIDE DEF M
  <1> SUFFICES ASSUME NEW i \in 1..Len(M), NEW j \in 1..Len(M), i < j PROVE Before(M[i], M[j])
    BY DEF Ordered, M
  <1>2. i \in 1..Len(K) /\ M[i] = K[i]
    BY <1>1
  <1>3. CASE j = Len(K) + 1
    BY <1>1, <1>2, <1>3
  <1>4. CASE j # Len(K) + 1
    <2>1. j \in 1..Len(K) /\ M[j] = K[j]
      BY <1>1, <1>4
    <2> QED BY <1>2, <2>1 DEF Ordered
  <1> QED BY <1>3, <1>4

\* So does reading the first.
LEMMA OrderedTail ==
  ASSUME NEW K \in Seq(Nat), K # <<>>, Ordered(K)
  PROVE  Ordered(Tail(K))
  <1> SUFFICES ASSUME NEW i \in 1..Len(Tail(K)), NEW j \in 1..Len(Tail(K)), i < j
               PROVE  Before(Tail(K)[i], Tail(K)[j])
    BY DEF Ordered
  <1>1. /\ Tail(K)[i] = K[i + 1] /\ (i + 1) \in 1..Len(K)
        /\ Tail(K)[j] = K[j + 1] /\ (j + 1) \in 1..Len(K)
    BY Shorter
  <1>2. i + 1 < j + 1 /\ i \in Nat /\ j \in Nat
    BY Shorter
  <1> QED BY <1>1, <1>2 DEF Ordered

\* What may be under way stays so when its sender goes on.
LEMMA RangeKept ==
  ASSUME NEW p \in Ends, NEW k \in Nat, NEW a \in 0..104, NEW b \in 0..104, NEW c \in 0..104, b <= c,
         InRange(p, k, a, b)
  PROVE  InRange(p, k, a, c)
  <1>1. LastOwn(p) \in 13..17
    BY LastOwnRange
  <1> QED BY <1>1 DEF InRange

\* Nor does the receiver get ahead then.
LEMMA SaneKept ==
  ASSUME NEW p, NEW a \in 0..104, NEW b \in 0..104, NEW c \in 0..104, b <= c, Sane(p, a, b)
  PROVE  Sane(p, a, c)
  BY DEF Sane

\* Of the messages after b and up to c, p sends k at most.
Alone(p, k, b, c) == \A j \in 1..104 : Spoken(p, j) /\ b < j /\ j <= c => j = k

\* k may join the line.
Fits(p, k, a, c) == (Silent(k) => Pending(p, k, a)) /\ (k > 100 => c >= LastOwn(p))

\* p moves on to c; what it had to send up to there, if anything, is k.
LEMMA LineSend ==
  ASSUME NEW p \in Ends, Versions, NEW K \in Seq(Nat), NEW a \in 0..104, NEW b \in 0..104,
         NEW c \in 0..104, NEW k \in Nat, Line(p, K, a, b), Sends(p, k), b < k, k <= c,
         Alone(p, k, b, c),
         Fits(p, k, a, c)
  PROVE  Line(p, Append(K, k), a, c)
  <1> DEFINE M == Append(K, k)
  <1>0. /\ \A i \in 1..Len(K) : InRange(p, K[i], a, b)
        /\ Ordered(K) /\ Whole(p, K, a, b) /\ Sane(p, a, b) /\ (p = "client" => Apart(K, a, b))
    BY Zenon DEF Line
  <1>1. /\ Len(M) = Len(K) + 1 /\ Len(K) \in Nat /\ M[Len(K) + 1] = k
        /\ \A i \in 1..Len(K) : M[i] = K[i] /\ K[i] \in Nat
    BY Longer
  <1> HIDE DEF M
  <1>2. k \in 1..104 /\ k # 100 /\ (k <= LastOwn(p) \/ k > 100)
    <2> HIDE DEF Ends
    <2>1. k \in 1..104 /\ k # 100 /\ (k <= LastOwn(p) \/ k \in 101..104)
      BY Numbered, Zenon
    <2> QED BY <2>1
  <1>3. LastOwn(p) \in 13..17
    BY LastOwnRange
  <1>4. Silent(k) \/ a < k
    BY <1>0, <1>2 DEF Sane, Spoken
  <1>5. \A i \in 1..Len(K) : Before(K[i], k)
    <2> SUFFICES ASSUME NEW i \in 1..Len(K) PROVE Before(K[i], k)
      OBVIOUS
    <2>1. InRange(p, K[i], a, b) /\ K[i] \in Nat
      BY <1>0, <1>1
    <2>2. CASE K[i] = 100
      BY <1>2, <1>3, <2>1, <2>2 DEF InRange, Before
    <2>3. CASE K[i] # 100
      BY <2>1, <2>3 DEF InRange, Before
    <2> QED BY <2>2, <2>3
  <1>6. \A i \in 1..Len(M) : InRange(p, M[i], a, c)
    <2> SUFFICES ASSUME NEW i \in 1..Len(M) PROVE InRange(p, M[i], a, c)
      OBVIOUS
    <2>1. CASE i = Len(K) + 1
      BY <1>1, <1>2, <1>4, <2>1 DEF InRange, Fits
    <2>2. CASE i # Len(K) + 1
      <3>1. i \in 1..Len(K) /\ M[i] = K[i] /\ K[i] \in Nat
        BY <1>1, <2>2
      <3>2. InRange(p, K[i], a, b)
        BY <1>0, <3>1
      <3>3. b <= c
        OBVIOUS
      <3>4. InRange(p, K[i], a, c)
        BY <3>1, <3>2, <3>3, RangeKept, Zenon
      <3> QED BY <3>1, <3>4, Zenon
    <2> QED BY <2>1, <2>2
  <1>7. Ordered(M)
    BY <1>0, <1>5, OrderedAppend DEF M
  <1>8. ASSUME NEW m \in 1..104, Spoken(p, m), a < m, m <= c
        PROVE  \E i \in 1..Len(M) : M[i] = m
    <2>1. CASE m <= b
      <3>1. PICK i \in 1..Len(K) : K[i] = m
        BY <1>0, <1>8, <2>1, Zenon DEF Whole
      <3> QED BY <1>1, <3>1
    <2>2. CASE m > b
      <3>1. m = k
        BY <1>8, <2>2 DEF Alone
      <3> QED BY <1>1, <3>1
    <2> QED BY <2>1, <2>2
  <1>9. Sane(p, a, c)
    <2>1. b <= c
      OBVIOUS
    <2> QED BY <1>0, <2>1, SaneKept, Zenon
  <1>10. ASSUME p = "client" PROVE Apart(M, a, c)
    <2> SUFFICES ASSUME NEW i \in 1..Len(M), M[i] = 100 PROVE a < 102 /\ DataFirst(M, i)
      BY DEF Apart
    <2>1. i \in 1..Len(K) /\ K[i] = 100
      BY <1>1, <1>2
    <2>2. b # 104 /\ Apart(K, a, b)
      BY <1>0, <1>2, <1>10
    <2>3. a < 102 /\ DataFirst(K, i)
      BY <2>1, <2>2, Zenon DEF Apart
    <2>4. ASSUME NEW j \in 1..Len(M), M[j] \in Reauths PROVE i < j
      <3>1. CASE j = Len(K) + 1
        BY <1>1, <2>1, <3>1
      <3>2. CASE j # Len(K) + 1
        <4>1. j \in 1..Len(K) /\ K[j] \in Reauths
          BY <1>1, <2>4, <3>2
        <4> QED BY <2>3, <4>1, Zenon DEF DataFirst
      <3> QED BY <3>1, <3>2
    <2> QED BY <2>3, <2>4, Zenon DEF DataFirst
  <1>11. Line(p, M, a, c)
    BY <1>6, <1>7, <1>8, <1>9, <1>10 DEF Line, Whole
  <1> QED BY <1>11 DEF M

\* p sends data or a ticket.
LEMMA LineLate ==
  ASSUME NEW p \in Ends, Versions, NEW K \in Seq(Nat), NEW a \in 0..104, NEW b \in 0..104,
         Line(p, K, a, b), b >= LastOwn(p), p = "client" => (a < 102 /\ b < 102) \/ b = 104
  PROVE  Line(p, Append(K, 100), a, b)
  <1> DEFINE M == Append(K, 100)
  <1>1. /\ Len(M) = Len(K) + 1 /\ Len(K) \in Nat /\ M[Len(K) + 1] = 100
        /\ \A i \in 1..Len(K) : M[i] = K[i] /\ K[i] \in Nat
    BY Longer
  <1> HIDE DEF M
  <1>2. ~Silent(100)
    BY DEF Silent
  <1>3. \A i \in 1..Len(K) : Before(K[i], 100)
    BY <1>1 DEF Before
  <1>4. \A i \in 1..Len(M) : InRange(p, M[i], a, b)
    <2> SUFFICES ASSUME NEW i \in 1..Len(M) PROVE InRange(p, M[i], a, b)
      OBVIOUS
    <2>1. CASE i = Len(K) + 1
      BY <1>1, <1>2, <2>1 DEF InRange
    <2>2. CASE i # Len(K) + 1
      <3>1. i \in 1..Len(K) /\ M[i] = K[i]
        BY <1>1, <2>2
      <3> QED BY <3>1 DEF Line
    <2> QED BY <2>1, <2>2
  <1>5. Ordered(M)
    BY <1>3, OrderedAppend DEF Line, M
  <1>6. ASSUME NEW m \in 1..104, Spoken(p, m), a < m, m <= b
        PROVE  \E i \in 1..Len(M) : M[i] = m
    <2>1. Whole(p, K, a, b)
      BY DEF Line
    <2>2. PICK i \in 1..Len(K) : K[i] = m
      BY <1>6, <2>1 DEF Whole
    <2> QED BY <1>1, <2>2
  <1>7. ASSUME p = "client" PROVE Apart(M, a, b)
    <2> SUFFICES ASSUME NEW i \in 1..Len(M), M[i] = 100
                 PROVE  (a < 102 /\ DataFirst(M, i)) \/ (b = 104 /\ DataLast(M, i))
      BY DEF Apart
    <2>1. CASE i = Len(K) + 1
      <3>1. CASE b = 104
        BY <1>1, <2>1, <3>1 DEF Reauths, DataLast
      <3>2. CASE a < 102 /\ b < 102
        <4>1. ASSUME NEW j \in 1..Len(M) PROVE M[j] \notin Reauths
          <5>1. CASE j = Len(K) + 1
            BY <1>1, <5>1 DEF Reauths
          <5>2. CASE j # Len(K) + 1
            <6>1. j \in 1..Len(K) /\ M[j] = K[j] /\ K[j] \in Nat
              BY <1>1, <5>2
            <6>2. InRange(p, K[j], a, b)
              BY <6>1 DEF Line
            <6> QED BY <3>2, <6>1, <6>2 DEF InRange, Reauths
          <5> QED BY <5>1, <5>2
        <4> QED BY <3>2, <4>1 DEF DataFirst
      <3> QED BY <1>7, <3>1, <3>2
    <2>2. CASE i # Len(K) + 1
      <3>1. i \in 1..Len(K) /\ K[i] = 100
        BY <1>1, <2>2
      <3>2. Apart(K, a, b)
        BY <1>7 DEF Line
      <3>3. (a < 102 /\ DataFirst(K, i)) \/ (b = 104 /\ DataLast(K, i))
        BY <3>1, <3>2 DEF Apart
      <3>4. M[Len(K) + 1] \notin Reauths
        BY <1>1 DEF Reauths
      <3>5. \A j \in 1..Len(M) : M[j] \in Reauths => j \in 1..Len(K) /\ K[j] \in Reauths
        BY <1>1, <3>4
      <3> QED BY <3>3, <3>5 DEF DataFirst, DataLast
    <2> QED BY <2>1, <2>2
  <1>8. Line(p, M, a, b)
    BY <1>4, <1>5, <1>6, <1>7 DEF Line, Whole
  <1> QED BY <1>8 DEF M

\* p speaks no message after a and up to c.
Quiet(p, a, c) == \A j \in 1..104 : Spoken(p, j) => ~(a < j /\ j <= c)

\* A peer that goes on from a to c passes no silent message that is under way.
StillPending(p, a, c) == \A k \in 1..8 : Sends(p, k) /\ Silent(k) /\ Pending(p, k, a) => Pending(p, k, c)

\* What may be under way stays so when the receiver passes no message of its own.
LEMMA RangeMoved ==
  ASSUME NEW p \in Ends, Versions, NEW k \in Nat, NEW a \in 0..104, NEW b \in 0..104, NEW c \in 0..104,
         a <= c, Quiet(p, a, c), StillPending(p, a, c), InRange(p, k, a, b)
  PROVE  InRange(p, k, c, b)
  <1>1. CASE k = 100
    BY <1>1 DEF InRange, Silent
  <1>2. CASE k # 100 /\ Silent(k)
    <2>1. k \in 1..8
      BY <1>2, SilentRange
    <2>2. Sends(p, k) /\ k <= b /\ Pending(p, k, a) /\ (k >= 100 => b >= LastOwn(p))
      BY <1>2 DEF InRange
    <2>3. Pending(p, k, c)
      BY <1>2, <2>1, <2>2, Zenon DEF StillPending
    <2> QED BY <1>2, <2>2, <2>3, Zenon DEF InRange
  <1>3. CASE k # 100 /\ ~Silent(k)
    <2>1. Sends(p, k) /\ k <= b /\ a < k /\ (k >= 100 => b >= LastOwn(p))
      BY <1>3 DEF InRange
    <2>2. k \in 1..104 /\ Spoken(p, k)
      BY <1>3, <2>1, Numbered, Zenon DEF Spoken
    <2>3. ~(k <= c)
      BY <2>1, <2>2, Zenon DEF Quiet
    <2>4. c < k
      BY <2>2, <2>3
    <2> QED BY <1>3, <2>1, <2>4, Zenon DEF InRange
  <1> QED BY <1>1, <1>2, <1>3

\* None is missing when neither side passes a message.
LEMMA WholeMoved ==
  ASSUME NEW p \in Ends, NEW K, NEW a \in 0..104, NEW b \in 0..104,
         NEW c \in 0..104, NEW d \in 0..104, a <= c, b <= d, Quiet(p, a, c), Quiet(p, b, d),
         Whole(p, K, a, b), Sane(p, a, b)
  PROVE  Whole(p, K, c, d) /\ Sane(p, c, d)
  <1>1. ASSUME NEW k \in 1..104, Spoken(p, k), c < k, k <= d
        PROVE  \E i \in 1..Len(K) : K[i] = k
    <2>1. a < k
      BY <1>1
    <2>2. k <= b
      <3>1. ~(b < k /\ k <= d)
        BY <1>1, Zenon DEF Quiet
      <3> QED BY <1>1, <3>1
    <2> QED BY <1>1, <2>1, <2>2, Zenon DEF Whole
  <1>2. ASSUME NEW k \in 1..104, Spoken(p, k), k <= c
        PROVE  k <= d
    <2>1. k <= a
      <3>1. ~(a < k /\ k <= c)
        BY <1>2, Zenon DEF Quiet
      <3> QED BY <1>2, <3>1
    <2>2. k <= b
      BY <1>2, <2>1, Zenon DEF Sane
    <2> QED BY <2>2
  <1> QED BY <1>1, <1>2, Zenon DEF Whole, Sane

\* Both go on without a word.
LEMMA LineMove ==
  ASSUME NEW p \in Ends, Versions, NEW K \in Seq(Nat), NEW a \in 0..104, NEW b \in 0..104,
         NEW c \in 0..104, NEW d \in 0..104, Line(p, K, a, b), a <= c, b <= d,
         Quiet(p, a, c), Quiet(p, b, d), StillPending(p, a, c), a < 102 => c < 102
  PROVE  Line(p, K, c, d)
  <1>0. /\ \A i \in 1..Len(K) : InRange(p, K[i], a, b)
        /\ Ordered(K) /\ Whole(p, K, a, b) /\ Sane(p, a, b) /\ (p = "client" => Apart(K, a, b))
    BY Zenon DEF Line
  <1>1. ASSUME NEW i \in 1..Len(K) PROVE InRange(p, K[i], c, d)
    <2>1. K[i] \in Nat
      OBVIOUS
    <2>2. InRange(p, K[i], a, b)
      BY <1>0, <1>1, Zenon
    <2>3. InRange(p, K[i], c, b)
      BY <2>1, <2>2, RangeMoved, Zenon
    <2> QED BY <2>1, <2>3, RangeKept, Zenon
  <1>2. Whole(p, K, c, d) /\ Sane(p, c, d)
    BY <1>0, WholeMoved, Zenon
  <1>3. ASSUME p = "client" PROVE Apart(K, c, d)
    <2> SUFFICES ASSUME NEW i \in 1..Len(K), K[i] = 100
                 PROVE  (c < 102 /\ DataFirst(K, i)) \/ (d = 104 /\ DataLast(K, i))
      BY Zenon DEF Apart
    <2>1. (a < 102 /\ DataFirst(K, i)) \/ (b = 104 /\ DataLast(K, i))
      BY <1>0, <1>3, Zenon DEF Apart
    <2>2. b = 104 => d = 104
      BY SMTT(40)
    <2> QED BY <2>1, <2>2, Zenon
  <1> QED BY <1>0, <1>1, <1>2, <1>3, Zenon DEF Line

\* The data stay apart from a re-authentication when the first record is read.
LEMMA ApartTail ==
  ASSUME NEW K \in Seq(Nat), K # <<>>, NEW a, NEW b, Apart(K, a, b)
  PROVE  Apart(Tail(K), a, b)
  <1> DEFINE L == Tail(K)
  <1>0. /\ L \in Seq(Nat) /\ Len(K) \in Nat /\ Len(L) = Len(K) - 1 /\ Len(K) >= 1
        /\ \A i \in 1..Len(L) : L[i] = K[i + 1] /\ (i + 1) \in 1..Len(K) /\ K[i + 1] \in Nat
    BY Shorter
  <1> HIDE DEF L
  <1> SUFFICES ASSUME NEW i \in 1..Len(L), L[i] = 100
               PROVE  (a < 102 /\ DataFirst(L, i)) \/ (b = 104 /\ DataLast(L, i))
    BY DEF Apart, L
  <1>1. (i + 1) \in 1..Len(K) /\ K[i + 1] = 100
    BY <1>0
  <1>2. (a < 102 /\ DataFirst(K, i + 1)) \/ (b = 104 /\ DataLast(K, i + 1))
    BY <1>1, Zenon DEF Apart
  <1>3. ASSUME NEW j \in 1..Len(L), L[j] \in Reauths
        PROVE  (j + 1) \in 1..Len(K) /\ K[j + 1] \in Reauths
    BY <1>0, <1>3
  <1>4. ASSUME DataFirst(K, i + 1) PROVE DataFirst(L, i)
    <2> SUFFICES ASSUME NEW j \in 1..Len(L), L[j] \in Reauths PROVE i < j
      BY DEF DataFirst
    <2>1. i + 1 < j + 1
      BY <1>3, <1>4 DEF DataFirst
    <2> QED BY <2>1, <1>0
  <1>5. ASSUME DataLast(K, i + 1) PROVE DataLast(L, i)
    <2> SUFFICES ASSUME NEW j \in 1..Len(L), L[j] \in Reauths PROVE j < i
      BY DEF DataLast
    <2>1. j + 1 < i + 1
      BY <1>3, <1>5 DEF DataLast
    <2> QED BY <2>1, <1>0
  <1> QED BY <1>2, <1>4, <1>5

\* Data, a ticket or a silent message is read.
LEMMA LineDrop ==
  ASSUME NEW p \in Ends, Versions, NEW K \in Seq(Nat), K # <<>>, NEW a \in 0..104, NEW b \in 0..104,
         Line(p, K, a, b), K[1] = 100 \/ Silent(K[1])
  PROVE  Line(p, Tail(K), a, b)
  <1>0. /\ \A i \in 1..Len(K) : InRange(p, K[i], a, b)
        /\ Ordered(K) /\ Whole(p, K, a, b) /\ Sane(p, a, b) /\ (p = "client" => Apart(K, a, b))
    BY Zenon DEF Line
  <1>1. ~Spoken(p, K[1])
    <2>1. CASE K[1] = 100
      BY <2>1, Numbered, Zenon DEF Spoken
    <2> QED BY <2>1 DEF Spoken
  <1>2. ASSUME NEW i \in 1..Len(Tail(K)) PROVE InRange(p, Tail(K)[i], a, b)
    <2>1. Tail(K)[i] = K[i + 1] /\ (i + 1) \in 1..Len(K)
      BY Shorter, Zenon
    <2> QED BY <1>0, <2>1, Zenon
  <1>3. ASSUME NEW k \in 1..104, Spoken(p, k), a < k, k <= b
        PROVE  \E i \in 1..Len(Tail(K)) : Tail(K)[i] = k
    <2>1. PICK i \in 1..Len(K) : K[i] = k
      BY <1>0, <1>3, Zenon DEF Whole
    <2>2. i # 1
      BY <1>1, <1>3, <2>1, Zenon
    <2>3. i \in 2..Len(K)
      BY <2>2, Shorter
    <2>4. K[i] = Tail(K)[i - 1] /\ (i - 1) \in 1..Len(Tail(K))
      BY <2>3, Shorter, Zenon
    <2> QED BY <2>1, <2>4, Zenon
  <1>4. Ordered(Tail(K))
    BY <1>0, OrderedTail, Zenon
  <1>5. p = "client" => Apart(Tail(K), a, b)
    BY <1>0, ApartTail, Zenon
  <1> QED BY <1>0, <1>2, <1>3, <1>4, <1>5, Zenon DEF Line, Whole

\* A peer that read k is through with c; silent messages after k may follow.
Passes(p, k, c) == /\ \A j \in 1..8 : Sends(p, j) /\ Silent(j) /\ k < j => Pending(p, j, c)
                   /\ k < 100 => c < 100

\* A message is read.
LEMMA LineHear ==
  ASSUME NEW p \in Ends, Versions, NEW K \in Seq(Nat), K # <<>>, NEW a \in 0..104, NEW b \in 0..104,
         NEW c \in 0..104, Line(p, K, a, b), Spoken(p, K[1]), K[1] <= c, Alone(p, K[1], a, c),
         Passes(p, K[1], c)
  PROVE  Line(p, Tail(K), c, b)
  <1> DEFINE k == K[1]
  <1>0. /\ \A i \in 1..Len(K) : InRange(p, K[i], a, b)
        /\ Ordered(K) /\ Whole(p, K, a, b) /\ Sane(p, a, b) /\ (p = "client" => Apart(K, a, b))
    BY Zenon DEF Line
  <1>1. K[1] \in Nat /\ 1 \in 1..Len(K)
    BY Shorter
  <1>2. InRange(p, k, a, b)
    BY <1>0, <1>1, Zenon
  <1>3. k \in 1..104 /\ k # 100 /\ a < k /\ k <= b /\ Sends(p, k) /\ ~Silent(k)
    <2>1. k \in 1..104 /\ k # 100 /\ Sends(p, k) /\ ~Silent(k)
      BY Numbered, Zenon DEF Spoken
    <2> QED BY <1>2, <2>1, Zenon DEF InRange
  <1>4. \A i \in 1..Len(Tail(K)) : /\ Tail(K)[i] = K[i + 1] /\ (i + 1) \in 1..Len(K) /\ Tail(K)[i] \in Nat
                                   /\ 1 < i + 1
    BY Shorter
  <1>5. ASSUME NEW i \in 1..Len(Tail(K)) PROVE InRange(p, Tail(K)[i], c, b)
    <2> DEFINE m == Tail(K)[i]
    <2>1. m \in Nat /\ InRange(p, m, a, b) /\ Before(k, m)
      BY <1>0, <1>1, <1>4, Zenon DEF Ordered
    <2> SUFFICES InRange(p, m, c, b)
      OBVIOUS
    <2> HIDE DEF k, m
    <2>2. CASE m = 100
      BY <2>1, <2>2 DEF InRange, Silent
    <2>3. CASE m # 100 /\ Silent(m)
      <3>1. m \in 1..8
        BY <2>3, SilentRange, Zenon
      <3>2. Sends(p, m) /\ m <= b /\ (m >= 100 => b >= LastOwn(p))
        BY <2>1, <2>3, Zenon DEF InRange
      <3>3. k < m
        BY <1>3, <2>1, <3>1 DEF Before
      <3>4. Pending(p, m, c)
        BY <2>3, <3>1, <3>2, <3>3, Zenon DEF Passes, k
      <3> QED BY <2>3, <3>2, <3>4, Zenon DEF InRange
    <2>4. CASE m # 100 /\ ~Silent(m)
      <3>1. Sends(p, m) /\ m <= b /\ a < m /\ (m >= 100 => b >= LastOwn(p))
        BY <2>1, <2>4, Zenon DEF InRange
      <3>2. m \in 1..104 /\ Spoken(p, m)
        BY <2>4, <3>1, Numbered, Zenon DEF Spoken
      <3>3. k < m
        BY <1>3, <2>1, <2>4 DEF Before
      <3>4. m <= c => m = k
        BY <3>1, <3>2, Zenon DEF Alone, k
      <3>5. c < m
        BY <1>3, <3>2, <3>3, <3>4
      <3> QED BY <2>4, <3>1, <3>5, Zenon DEF InRange
    <2> QED BY <2>2, <2>3, <2>4
  <1>6. ASSUME NEW m \in 1..104, Spoken(p, m), c < m, m <= b
        PROVE  \E i \in 1..Len(Tail(K)) : Tail(K)[i] = m
    <2>0. a < m /\ m # k
      BY <1>3, <1>6
    <2>1. PICK i \in 1..Len(K) : K[i] = m
      BY <1>0, <1>6, <2>0, Zenon DEF Whole
    <2>2. i # 1
      BY <2>0, <2>1
    <2>3. i \in 2..Len(K)
      BY <2>2, Shorter
    <2>4. K[i] = Tail(K)[i - 1] /\ (i - 1) \in 1..Len(Tail(K))
      BY <2>3, Shorter, Zenon
    <2> QED BY <2>1, <2>4, Zenon
  <1>7. ASSUME NEW m \in 1..104, Spoken(p, m), m <= c
        PROVE  m <= b
    <2>1. CASE m <= a
      BY <1>0, <1>7, <2>1, Zenon DEF Sane
    <2>2. CASE a < m
      <3>1. m = k
        BY <1>7, <2>2, Zenon DEF Alone
      <3> QED BY <1>3, <3>1
    <2> QED BY <2>1, <2>2
  <1>8. Ordered(Tail(K))
    BY <1>0, OrderedTail, Zenon
  <1>9. ASSUME p = "client" PROVE Apart(Tail(K), c, b)
    <2>1. CASE k \in Reauths
      <3>1. ASSUME NEW i \in 1..Len(Tail(K)), Tail(K)[i] = 100
            PROVE  b = 104 /\ DataLast(Tail(K), i)
        <4>1. (a < 102 /\ DataFirst(K, i + 1)) \/ (b = 104 /\ DataLast(K, i + 1))
          BY <1>0, <1>4, <1>9, <3>1, Zenon DEF Apart
        <4>2. ~DataFirst(K, i + 1)
          BY <1>1, <1>4, <2>1, <3>1 DEF DataFirst
        <4>3. Apart(Tail(K), a, b)
          BY <1>0, <1>9, ApartTail, Zenon
        <4>4. (a < 102 /\ DataFirst(Tail(K), i)) \/ (b = 104 /\ DataLast(Tail(K), i))
          BY <3>1, <4>3, Zenon DEF Apart
        <4>5. ASSUME NEW j \in 1..Len(Tail(K)), Tail(K)[j] \in Reauths PROVE j < i
          <5>1. (j + 1) \in 1..Len(K) /\ K[j + 1] \in Reauths
            BY <1>4, <4>5, Zenon
          <5>2. j + 1 < i + 1
            BY <4>1, <4>2, <5>1, Zenon DEF DataLast
          <5> QED BY <5>2, Shorter
        <4> QED BY <4>1, <4>2, <4>5, Zenon DEF DataLast
      <3> QED BY <3>1, Zenon DEF Apart
    <2>2. CASE k \notin Reauths
      <3>1. k < 100
        <4>1. Sends("client", k)
          BY <1>3, <1>9
        <4> QED BY <1>3, <2>2, <4>1, ClientNumbers, Zenon
      <3>2. c < 102
        <4>1. c < 100
          BY <3>1, Zenon DEF Passes
        <4> QED BY <4>1
      <3>3. Apart(Tail(K), a, b)
        BY <1>0, <1>9, ApartTail, Zenon
      <3> QED BY <3>2, <3>3, Zenon DEF Apart
    <2> QED BY <2>1, <2>2
  <1> QED BY <1>5, <1>6, <1>7, <1>8, <1>9, Zenon DEF Line, Whole, Sane

\* A peer that is through with a next reads k, or what it takes in silence.
LEMMA FirstOf ==
  ASSUME NEW p \in Ends, Versions, NEW K \in Seq(Nat), K # <<>>, NEW a \in 0..104, NEW b \in 0..104,
         Line(p, K, a, b), NEW k \in 1..104, k < 100 \/ a >= 102, Spoken(p, k), a < k, Alone(p, k, a, k),
         k < 100 \/ p = "client", k < 100 => k <= LastOwn(p)
  PROVE  K[1] = k \/ Silent(K[1])
  <1>0. /\ \A i \in 1..Len(K) : InRange(p, K[i], a, b)
        /\ Ordered(K) /\ Whole(p, K, a, b) /\ Sane(p, a, b) /\ (p = "client" => Apart(K, a, b))
    BY Zenon DEF Line
  <1>1. K[1] \in Nat /\ 1 \in 1..Len(K)
    BY Shorter
  <1>2. InRange(p, K[1], a, b)
    BY <1>0, <1>1, Zenon
  <1> SUFFICES ASSUME ~Silent(K[1]), K[1] # k PROVE FALSE
    OBVIOUS
  <1>3. \A i \in 1..Len(K) : i = 1 \/ 1 < i
    BY <1>1
  <1>4. CASE K[1] = 100 /\ k < 100
    <2>1. b >= LastOwn(p) /\ LastOwn(p) \in 13..17
      BY <1>2, <1>4, LastOwnRange DEF InRange
    <2>2. k <= b
      BY <1>4, <2>1
    <2>3. PICK i \in 1..Len(K) : K[i] = k
      BY <1>0, <2>2, Zenon DEF Whole
    <2>4. Before(K[1], k)
      BY <1>0, <1>1, <1>3, <2>3, Zenon DEF Ordered
    <2> QED BY <1>4, <2>4 DEF Before
  <1>5. CASE K[1] = 100 /\ a >= 102 /\ k >= 100
    <2>1. p = "client"
      BY <1>5
    <2>2. (a < 102 /\ DataFirst(K, 1)) \/ (b = 104 /\ DataLast(K, 1))
      BY <1>0, <1>1, <1>5, <2>1, Zenon DEF Apart
    <2>3. b = 104 /\ DataLast(K, 1)
      BY <1>5, <2>2
    <2>4. k <= b /\ k \in Reauths
      BY <1>5, <2>3 DEF Reauths
    <2>5. PICK i \in 1..Len(K) : K[i] = k
      BY <1>0, <2>4, Zenon DEF Whole
    <2>6. i < 1
      BY <2>3, <2>4, <2>5, Zenon DEF DataLast
    <2> QED BY <1>3, <2>6
  <1>6. CASE K[1] # 100
    <2>1. Sends(p, K[1]) /\ K[1] <= b /\ a < K[1]
      BY <1>2, <1>6, Zenon DEF InRange
    <2>2. Spoken(p, K[1]) /\ K[1] \in 1..104
      BY <2>1, Numbered, Zenon DEF Spoken
    <2>3. k < K[1]
      <3>1. ~(K[1] <= k)
        BY <2>1, <2>2, Zenon DEF Alone
      <3> QED BY <2>2, <3>1
    <2>4. k <= b
      BY <2>1, <2>2, <2>3
    <2>5. PICK i \in 1..Len(K) : K[i] = k
      BY <1>0, <2>4, Zenon DEF Whole
    <2>6. Before(K[1], k)
      BY <1>0, <1>1, <1>3, <2>5, Zenon DEF Ordered
    <2>7. k # 100
      <3>1. Sends(p, k)
        BY DEF Spoken
      <3> QED BY <3>1, Numbered
    <2> QED BY <1>6, <2>2, <2>3, <2>6, <2>7 DEF Before
  <1> QED BY <1>4, <1>5, <1>6

\* What p takes in silence before k is behind k in the script too.
LEMMA FirstSilent ==
  ASSUME NEW p \in Ends, Versions, NEW K \in Seq(Nat), K # <<>>, NEW a \in 0..104, NEW b \in 0..104,
         Line(p, K, a, b), NEW k \in 1..104, Spoken(p, k), a < k, Silent(K[1])
  PROVE  K[1] < k /\ Pending(p, K[1], a) /\ Sends(p, K[1]) /\ K[1] <= b
  <1>0. /\ \A i \in 1..Len(K) : InRange(p, K[i], a, b)
        /\ Ordered(K) /\ Whole(p, K, a, b)
    BY Zenon DEF Line
  <1>1. K[1] \in Nat /\ 1 \in 1..Len(K)
    BY Shorter
  <1>2. InRange(p, K[1], a, b)
    BY <1>0, <1>1, Zenon
  <1>3. \A i \in 1..Len(K) : i = 1 \/ 1 < i
    BY <1>1
  <1>4. K[1] \in 1..8
    BY SilentRange, Zenon
  <1>5. Pending(p, K[1], a) /\ Sends(p, K[1]) /\ K[1] <= b
    BY <1>2, <1>4 DEF InRange
  <1>6. K[1] < k
    <2> SUFFICES ASSUME ~(K[1] < k) PROVE FALSE
      OBVIOUS
    <2>1. k <= b
      BY <1>4, <1>5
    <2>2. PICK i \in 1..Len(K) : K[i] = k
      BY <1>0, <2>1, Zenon DEF Whole
    <2>3. K[1] # k
      BY DEF Spoken
    <2>4. Before(K[1], k)
      BY <1>0, <1>1, <1>3, <2>2, <2>3, Zenon DEF Ordered
    <2> QED BY <1>4, <2>3, <2>4 DEF Before
  <1> QED BY <1>5, <1>6, Zenon

\* After the handshake there is nothing silent.
LEMMA FirstLate ==
  ASSUME NEW p \in Ends, Versions, NEW K \in Seq(Nat), K # <<>>, NEW a \in 0..104, NEW b \in 0..104,
         Line(p, K, a, b), a >= 17
  PROVE  K[1] = 100 \/ (Spoken(p, K[1]) /\ a < K[1] /\ K[1] <= b)
  <1>1. K[1] \in Nat /\ 1 \in 1..Len(K)
    BY Shorter
  <1>2. InRange(p, K[1], a, b)
    BY <1>1, Zenon DEF Line
  <1>3. ~Silent(K[1])
    <2> SUFFICES ASSUME Silent(K[1]) PROVE FALSE
      OBVIOUS
    <2>1. K[1] \in 1..8
      BY SilentRange, Zenon
    <2>2. Pending(p, K[1], a)
      BY <1>2, Zenon DEF InRange
    <2> QED BY <2>1, <2>2 DEF Pending
  <1> QED BY <1>2, <1>3, Zenon DEF InRange, Spoken

-----------------------------------------------------------------------------
(* Data under way.                                                           *)

\* The parts of InOrder.
DataRange(D, n, m) == \A i \in 1..Len(D) : D[i] \in Nat /\ (D[i] # 0 => n < D[i] /\ D[i] <= m)
Increasing(D) == \A i, j \in 1..Len(D) : i < j /\ D[i] # 0 /\ D[j] # 0 => D[i] < D[j]
AllThere(D, n, m) == \A k \in (n + 1)..m : \E i \in 1..Len(D) : D[i] = k

\* The parts of InOrder.
LEMMA InOrderParts ==
  ASSUME NEW D, NEW n, NEW m
  PROVE  InOrder(D, n, m) <=> DataRange(D, n, m) /\ Increasing(D) /\ AllThere(D, n, m)
  BY Zenon DEF InOrder, DataRange, Increasing, AllThere

\* The next data is sent, or something else (x = 0).
LEMMA OrderAppend ==
  ASSUME NEW D \in Seq(Nat), NEW n \in Nat, NEW m \in Nat, n <= m, InOrder(D, n, m),
         NEW x \in Nat, NEW c \in Nat, (x = 0 /\ c = m) \/ (x = m + 1 /\ c = m + 1)
  PROVE  InOrder(Append(D, x), n, c)
  <1> DEFINE M == Append(D, x)
  <1>0. DataRange(D, n, m) /\ Increasing(D) /\ AllThere(D, n, m)
    BY InOrderParts, Zenon
  <1>1. /\ Len(M) = Len(D) + 1 /\ Len(D) \in Nat /\ M[Len(D) + 1] = x
        /\ \A i \in 1..Len(D) : M[i] = D[i] /\ D[i] \in Nat
    BY Longer
  <1> HIDE DEF M
  <1>2. DataRange(M, n, c)
    <2> SUFFICES ASSUME NEW i \in 1..Len(M) PROVE M[i] \in Nat /\ (M[i] # 0 => n < M[i] /\ M[i] <= c)
      BY DEF DataRange
    <2>1. CASE i = Len(D) + 1
      BY <1>1, <2>1
    <2>2. CASE i # Len(D) + 1
      <3>1. i \in 1..Len(D) /\ M[i] = D[i]
        BY <1>1, <2>2
      <3>2. D[i] \in Nat /\ (D[i] # 0 => n < D[i] /\ D[i] <= m)
        BY <1>0, <3>1, Zenon DEF DataRange
      <3> QED BY <3>1, <3>2
    <2> QED BY <2>1, <2>2
  <1>3. Increasing(M)
    <2> SUFFICES ASSUME NEW i \in 1..Len(M), NEW j \in 1..Len(M), i < j, M[i] # 0, M[j] # 0
                 PROVE  M[i] < M[j]
      BY DEF Increasing
    <2>1. i \in 1..Len(D) /\ M[i] = D[i]
      BY <1>1
    <2>2. D[i] \in Nat /\ (D[i] # 0 => n < D[i] /\ D[i] <= m)
      BY <1>0, <2>1, Zenon DEF DataRange
    <2>3. CASE j = Len(D) + 1
      BY <1>1, <2>1, <2>2, <2>3
    <2>4. CASE j # Len(D) + 1
      <3>0. Len(M) = Len(D) + 1 /\ Len(D) \in Nat
        BY <1>1
      <3>1. j \in 1..Len(D)
        BY <2>4, <3>0
      <3>4. M[j] = D[j]
        BY <1>1, <3>1, Zenon
      <3>2. D[i] # 0 /\ D[j] # 0
        BY <2>1, <3>4
      <3>3. D[i] < D[j]
        BY <1>0, <2>1, <3>1, <3>2, Zenon DEF Increasing
      <3> QED BY <2>1, <3>3, <3>4
    <2> QED BY <2>3, <2>4
  <1>4. AllThere(M, n, c)
    <2> SUFFICES ASSUME NEW k \in (n + 1)..c PROVE \E i \in 1..Len(M) : M[i] = k
      BY DEF AllThere
    <2>1. CASE k = m + 1
      BY <1>1, <2>1
    <2>2. CASE k # m + 1
      <3>1. k \in (n + 1)..m
        BY <2>2
      <3>2. PICK i \in 1..Len(D) : D[i] = k
        BY <1>0, <3>1, Zenon DEF AllThere
      <3> QED BY <1>1, <3>2
    <2> QED BY <2>1, <2>2
  <1> QED BY <1>2, <1>3, <1>4, InOrderParts, Zenon DEF M

\* The first is read: other than data, or the next data.
LEMMA OrderTail ==
  ASSUME NEW D \in Seq(Nat), D # <<>>, NEW n \in Nat, NEW m \in Nat, n <= m, InOrder(D, n, m)
  PROVE  IF D[1] = 0 THEN InOrder(Tail(D), n, m)
         ELSE D[1] = n + 1 /\ n + 1 <= m /\ InOrder(Tail(D), n + 1, m)
  <1> DEFINE M == Tail(D)
  <1>0. DataRange(D, n, m) /\ Increasing(D) /\ AllThere(D, n, m)
    BY InOrderParts, Zenon
  <1>1. /\ Len(D) \in Nat /\ Len(M) = Len(D) - 1 /\ Len(D) >= 1
        /\ \A i \in 1..Len(M) : M[i] = D[i + 1] /\ (i + 1) \in 1..Len(D) /\ D[i + 1] \in Nat
        /\ \A i \in 2..Len(D) : D[i] = M[i - 1] /\ (i - 1) \in 1..Len(M)
        /\ D[1] \in Nat /\ 1 \in 1..Len(D)
    BY Shorter
  <1> HIDE DEF M
  <1>2. Increasing(M)
    <2> SUFFICES ASSUME NEW i \in 1..Len(M), NEW j \in 1..Len(M), i < j, M[i] # 0, M[j] # 0
                 PROVE  M[i] < M[j]
      BY DEF Increasing
    <2>1. M[i] = D[i + 1] /\ (i + 1) \in 1..Len(D) /\ M[j] = D[j + 1] /\ (j + 1) \in 1..Len(D)
      BY <1>1
    <2>2. i + 1 < j + 1
      BY <1>1
    <2> QED BY <1>0, <2>1, <2>2, Zenon DEF Increasing
  <1>3. ASSUME NEW i \in 1..Len(M)
        PROVE  M[i] \in Nat /\ (M[i] # 0 => n < M[i] /\ M[i] <= m)
    <2>1. M[i] = D[i + 1] /\ (i + 1) \in 1..Len(D)
      BY <1>1
    <2> QED BY <1>0, <2>1, Zenon DEF DataRange
  <1>4. CASE D[1] = 0
    <2>1. AllThere(M, n, m)
      <3> SUFFICES ASSUME NEW k \in (n + 1)..m PROVE \E i \in 1..Len(M) : M[i] = k
        BY DEF AllThere
      <3>1. PICK i \in 1..Len(D) : D[i] = k
        BY <1>0, Zenon DEF AllThere
      <3>2. i \in 2..Len(D)
        BY <1>1, <1>4, <3>1
      <3> QED BY <1>1, <3>1, <3>2
    <2>2. DataRange(M, n, m)
      BY <1>3, Zenon DEF DataRange
    <2>3. InOrder(M, n, m)
      BY <1>2, <2>1, <2>2, InOrderParts, Zenon
    <2> QED BY <1>4, <2>3 DEF M
  <1>5. CASE D[1] # 0
    <2>1. n < D[1] /\ D[1] <= m
      BY <1>0, <1>1, <1>5, Zenon DEF DataRange
    <2>2. n + 1 <= m /\ (n + 1) \in (n + 1)..m
      BY <1>1, <2>1
    <2>3. PICK h \in 1..Len(D) : D[h] = n + 1
      BY <1>0, <2>2, Zenon DEF AllThere
    <2>4. D[1] = n + 1
      <3> SUFFICES ASSUME h # 1 PROVE FALSE
        BY <2>3
      <3>1. 1 < h /\ D[h] # 0
        BY <1>1, <2>3
      <3>2. D[1] < D[h]
        BY <1>0, <1>1, <1>5, <3>1, Zenon DEF Increasing
      <3> QED BY <1>1, <2>1, <2>3, <3>2
    <2>5. DataRange(M, n + 1, m)
      <3> SUFFICES ASSUME NEW i \in 1..Len(M), M[i] # 0 PROVE n + 1 < M[i]
        BY <1>3 DEF DataRange
      <3>1. M[i] = D[i + 1] /\ (i + 1) \in 1..Len(D) /\ 1 < i + 1
        BY <1>1
      <3>2. D[1] < D[i + 1]
        BY <1>0, <1>1, <1>5, <3>1, Zenon DEF Increasing
      <3> QED BY <2>4, <3>1, <3>2
    <2>6. AllThere(M, n + 1, m)
      <3> SUFFICES ASSUME NEW k \in ((n + 1) + 1)..m PROVE \E i \in 1..Len(M) : M[i] = k
        BY DEF AllThere
      <3>1. k \in (n + 1)..m /\ k # n + 1
        OBVIOUS
      <3>2. PICK i \in 1..Len(D) : D[i] = k
        BY <1>0, <3>1, Zenon DEF AllThere
      <3>3. i \in 2..Len(D)
        BY <1>1, <2>4, <3>1, <3>2
      <3> QED BY <1>1, <3>2, <3>3
    <2>7. InOrder(M, n + 1, m)
      BY <1>2, <2>5, <2>6, InOrderParts, Zenon
    <2> QED BY <1>5, <2>2, <2>4, <2>7 DEF M
  <1> QED BY <1>4, <1>5

-----------------------------------------------------------------------------
(* Early data under way.                                                     *)

Holds8(K) == \E i \in 1..Len(K) : K[i] = 8

\* The parts of EarlyLine, with the early data as Holds8.
LEMMA EarlyLineParts ==
  ASSUME NEW K, NEW a, NEW b, NEW got
  PROVE  EarlyLine(K, a, b, got) <=> /\ got = <<>> /\ b >= 8 => Holds8(K)
                                     /\ got # <<>> => b >= 8 /\ ~Holds8(K)
                                     /\ a >= 14 => got # <<>>
  BY Zenon DEF EarlyLine, Holds8

\* The early data are in a longer line or are its last.
LEMMA HoldsAppend ==
  ASSUME NEW K \in Seq(Nat), NEW k \in Nat
  PROVE  Holds8(Append(K, k)) <=> Holds8(K) \/ k = 8
  <1> DEFINE M == Append(K, k)
  <1>1. /\ Len(M) = Len(K) + 1 /\ Len(K) \in Nat /\ M[Len(K) + 1] = k
        /\ \A i \in 1..Len(K) : M[i] = K[i] /\ K[i] \in Nat
    BY Longer
  <1> HIDE DEF M
  <1>2. Holds8(M) => Holds8(K) \/ k = 8
    BY <1>1 DEF Holds8
  <1>3. Holds8(K) => Holds8(M)
    BY <1>1 DEF Holds8
  <1>4. k = 8 => Holds8(M)
    BY <1>1 DEF Holds8
  <1> QED BY <1>2, <1>3, <1>4 DEF M

\* Reading the first record takes the early data away only if that is they.
LEMMA HoldsTail ==
  ASSUME NEW K \in Seq(Nat), K # <<>>, Ordered(K)
  PROVE  /\ K[1] # 8 => (Holds8(Tail(K)) <=> Holds8(K))
         /\ K[1] = 8 => ~Holds8(Tail(K)) /\ Holds8(K)
  <1> DEFINE M == Tail(K)
  <1>1. /\ Len(K) \in Nat /\ Len(M) = Len(K) - 1 /\ Len(K) >= 1
        /\ \A i \in 1..Len(M) : M[i] = K[i + 1] /\ (i + 1) \in 1..Len(K) /\ K[i + 1] \in Nat
        /\ \A i \in 2..Len(K) : K[i] = M[i - 1] /\ (i - 1) \in 1..Len(M)
        /\ K[1] \in Nat /\ 1 \in 1..Len(K)
    BY Shorter
  <1> HIDE DEF M
  <1>2. Holds8(M) => Holds8(K)
    BY <1>1 DEF Holds8
  <1>3. ASSUME Holds8(K), K[1] # 8 PROVE Holds8(M)
    <2>1. PICK i \in 1..Len(K) : K[i] = 8
      BY <1>3 DEF Holds8
    <2>2. i \in 2..Len(K)
      BY <1>1, <1>3, <2>1
    <2> QED BY <1>1, <2>1, <2>2 DEF Holds8
  <1>4. ASSUME K[1] = 8, Holds8(M) PROVE FALSE
    <2>1. PICK i \in 1..Len(M) : M[i] = 8
      BY <1>4 DEF Holds8
    <2>2. K[i + 1] = 8 /\ (i + 1) \in 1..Len(K) /\ 1 < i + 1
      BY <1>1, <2>1
    <2>3. Before(K[1], K[i + 1])
      BY <1>1, <2>2, Zenon DEF Ordered
    <2> QED BY <1>4, <2>2, <2>3 DEF Before
  <1>5. K[1] = 8 => Holds8(K)
    BY <1>1, Zenon DEF Holds8
  <1> QED BY <1>2, <1>3, <1>4, <1>5 DEF M

-----------------------------------------------------------------------------
(* The records under way.                                                    *)

Buffers(e) == IsSeq(e.wire) /\ IsSeq(e.out) /\ IsSeq(e.q)

\* The buffers of an endpoint hold things of one kind.
LEMMA Typed ==
  ASSUME NEW e, Buffers(e), NEW x
  PROVE  \E R : e.wire \in Seq(R) /\ e.out \in Seq(R) /\ Seal(e) \in Seq(R) /\ x \in R
  <1> DEFINE A == Elems(e.wire)
             B == Elems(e.out)
             C == {Sealed(e, e.q[i]) : i \in 1..Len(e.q)}
             R == A \cup B \cup C \cup {x}
             t == Seal(e)
  <1>1. e.wire \in Seq(A) /\ e.out \in Seq(B) /\ Len(e.q) \in Nat
    <2>1. e.q \in Seq(Elems(e.q))
      BY DEF Buffers, IsSeq
    <2> QED BY <2>1, LenProperties DEF Buffers, IsSeq
  <1>2. t = [i \in 1..Len(e.q) |-> Sealed(e, e.q[i])]
    BY DEF Seal
  <1> HIDE DEF t
  <1>3. t \in [1..Len(e.q) -> C]
    BY <1>2
  <1> HIDE DEF A, B, C
  <1>4. t \in Seq(C)
    BY <1>1, <1>3
  <1>5. A \subseteq R /\ B \subseteq R /\ C \subseteq R /\ x \in R
    OBVIOUS
  <1> HIDE DEF R
  <1>6. e.wire \in Seq(R) /\ e.out \in Seq(R) /\ t \in Seq(R)
    BY <1>1, <1>4, <1>5, SeqMonotonic, Zenon
  <1> QED BY <1>5, <1>6, Zenon DEF t

\* The unread records form a sequence.
LEMMA UnreadSeq ==
  ASSUME NEW e, Buffers(e)
  PROVE  IsSeq(Unread(e)) /\ Len(Unread(e)) \in Nat
  <1>1. PICK R : e.wire \in Seq(R) /\ e.out \in Seq(R) /\ Seal(e) \in Seq(R)
    BY Typed, Zenon
  <1>2. Unread(e) \in Seq(R)
    BY <1>1, ConcatProperties, Zenon DEF Unread
  <1> QED BY <1>2, SeqOf, LenProperties

\* Nothing changes as long as the messages that wait keep their keys.
LEMMA UnreadSame ==
  ASSUME NEW e, NEW g, SameBuffers(e, g), \A i \in 1..Len(e.q) : g.keys[e.q[i].epoch].w = e.keys[e.q[i].epoch].w
  PROVE  Unread(g) = Unread(e)
  <1>1. Seal(g) = Seal(e)
    BY DEF Seal, Sealed, SameBuffers
  <1> QED BY <1>1 DEF Unread, SameBuffers

\* A write of some records to the wire leaves the unread records the same.
LEMMA UnreadTakes ==
  ASSUME NEW e, DOMAIN e = Fields, Buffers(e), NEW n \in 0..Len(e.out)
  PROVE  Unread(Takes(e, n)) = Unread(e) /\ Buffers(Takes(e, n))
  <1> DEFINE g == Takes(e, n)
             a == SubSeq(e.out, 1, n)
             b == SubSeq(e.out, n + 1, Len(e.out))
             w == e.wire \o a
  <1>1. g = [e EXCEPT !.wire = w, !.out = b]
    BY DEF Takes, Fields
  <1>2. g.wire = w /\ g.out = b /\ g.q = e.q /\ g.keys = e.keys
    BY <1>1 DEF Fields
  <1>3. PICK R : e.wire \in Seq(R) /\ e.out \in Seq(R) /\ Seal(e) \in Seq(R)
    BY Typed, Zenon
  <1>4. Len(e.out) \in Nat /\ n \in Nat
    BY <1>3, LenProperties
  <1>5. a \in Seq(R) /\ b \in Seq(R)
    BY <1>3, <1>4
  <1>6. a \o b = e.out
    <2>0. /\ 1 \in 1..(Len(e.out) + 1) /\ n \in (1 - 1)..Len(e.out)
          /\ Len(e.out) \in n..Len(e.out)
      BY <1>4
    <2>1. a \o b = SubSeq(e.out, 1, Len(e.out))
      BY <1>3, <2>0, ConcatAdjacentSubSeq, Zenon
    <2> QED BY <1>3, <2>1, SubSeqFull, Zenon
  <1>7. w \o b = e.wire \o e.out
    <2> DEFINE v == e.wire
    <2>1. v \in Seq(R)
      BY <1>3
    <2> HIDE DEF v, a, b
    <2>2. (v \o a) \o b = v \o (a \o b)
      BY <1>5, <2>1, ConcatAssociative, SMTT(40)
    <2> QED BY <1>6, <2>2 DEF v
  <1>8. Seal(g) = Seal(e)
    BY <1>2 DEF Seal, Sealed
  <1> HIDE DEF g
  <1>9. Unread(g) = Unread(e)
    BY <1>2, <1>7, <1>8 DEF Unread
  <1>10. Buffers(g)
    <2>1. w \in Seq(R)
      BY <1>3, <1>5, ConcatProperties, Zenon
    <2>2. IsSeq(e.q)
      BY DEF Buffers
    <2> QED BY <1>2, <1>5, <2>1, <2>2, SeqOf, Zenon DEF Buffers
  <1> QED BY <1>9, <1>10 DEF g

\* So does a flush of the queued messages.
LEMMA UnreadFlush ==
  ASSUME NEW e, DOMAIN e = Fields, Buffers(e)
  PROVE  Unread(Flush(e)) = Unread(e) /\ Buffers(Flush(e))
  <1> DEFINE g == Flush(e)
             o == e.out \o Seal(e)
  <1>1. g = [e EXCEPT !.out = o, !.q = <<>>]
    BY DEF Flush, Seal, Sealed, Fields
  <1>2. g.wire = e.wire /\ g.out = o /\ g.q = <<>>
    BY <1>1 DEF Fields
  <1> HIDE DEF g
  <1>3. Seal(g) = <<>>
    BY <1>2 DEF Seal
  <1>4. PICK R : e.wire \in Seq(R) /\ e.out \in Seq(R) /\ Seal(e) \in Seq(R)
    BY Typed, Zenon
  <1>5. o \in Seq(R) /\ e.wire \o o \in Seq(R)
    BY <1>4, ConcatProperties, Zenon
  <1>6. (e.wire \o o) \o <<>> = e.wire \o o
    BY <1>5, ConcatEmptySeq, Zenon
  <1>7. e.wire \o o = (e.wire \o e.out) \o Seal(e)
    <2> DEFINE w == e.wire
               a == e.out
               b == Seal(e)
    <2>1. w \in Seq(R) /\ a \in Seq(R) /\ b \in Seq(R)
      BY <1>4
    <2> HIDE DEF w, a, b
    <2>2. (w \o a) \o b = w \o (a \o b)
      BY <2>1, ConcatAssociative
    <2> QED BY <2>2 DEF w, a, b
  <1>8. Unread(g) = Unread(e)
    BY <1>2, <1>3, <1>6, <1>7 DEF Unread
  <1>9. Buffers(g)
    BY <1>2, <1>4, <1>5, SeqOf, NoElements, Zenon DEF Buffers
  <1> QED BY <1>8, <1>9 DEF g

\* One more message waits.
LEMMA UnreadAppend ==
  ASSUME NEW e, NEW g, Buffers(e), NEW x, g.wire = e.wire, g.out = e.out, g.q = Append(e.q, x),
         g.keys = e.keys
  PROVE  Unread(g) = Append(Unread(e), Sealed(e, x)) /\ Buffers(g)
  <1> DEFINE y == Sealed(e, x)
             t == Seal(e)
  <1>1. PICK R : e.wire \in Seq(R) /\ e.out \in Seq(R) /\ t \in Seq(R) /\ y \in R
    BY Typed, Zenon
  <1>2. /\ Len(Append(e.q, x)) = Len(e.q) + 1 /\ Append(e.q, x)[Len(e.q) + 1] = x /\ Len(e.q) \in Nat
        /\ \A i \in 1..Len(e.q) : Append(e.q, x)[i] = e.q[i]
    <2>1. e.q \in Seq(Elems(e.q) \cup {x})
      <3>1. e.q \in Seq(Elems(e.q)) /\ Elems(e.q) \subseteq Elems(e.q) \cup {x}
        BY DEF Buffers, IsSeq
      <3> QED BY <3>1, SeqMonotonic, Zenon
    <2>2. x \in Elems(e.q) \cup {x}
      OBVIOUS
    <2> HIDE DEF Elems
    <2> QED BY <2>1, <2>2, AppendProperties, LenProperties
  <1>3. Len(t) = Len(e.q)
    BY <1>2 DEF Seal
  <1>4. Append(t, y) \in Seq(R) /\ Len(Append(t, y)) = Len(e.q) + 1
    BY <1>1, <1>3, AppendProperties
  <1>5. Seal(g) = Append(t, y)
    <2>1. Seal(g) = [i \in 1..(Len(e.q) + 1) |-> Sealed(e, Append(e.q, x)[i])]
      BY <1>2 DEF Seal, Sealed
    <2>2. ASSUME NEW i \in 1..(Len(e.q) + 1) PROVE Sealed(e, Append(e.q, x)[i]) = Append(t, y)[i]
      <3>1. CASE i = Len(e.q) + 1
        <4>1. Append(t, y)[i] = y
          BY <1>1, <1>3, <3>1, AppendProperties
        <4> QED BY <1>2, <3>1, <4>1
      <3>2. CASE i # Len(e.q) + 1
        <4>1. i \in 1..Len(e.q)
          BY <1>2, <3>2
        <4>2. Append(t, y)[i] = t[i]
          BY <1>1, <1>3, <4>1, AppendProperties
        <4>3. t[i] = Sealed(e, e.q[i])
          BY <4>1 DEF Seal
        <4> QED BY <1>2, <4>1, <4>2, <4>3
      <3> QED BY <3>1, <3>2
    <2>3. Append(t, y) = [i \in 1..(Len(e.q) + 1) |-> Append(t, y)[i]]
      BY <1>2, <1>4, LenProperties
    <2> HIDE DEF y, t
    <2> QED BY <2>1, <2>2, <2>3
  <1> HIDE DEF t, y
  <1>6. LET w == e.wire \o e.out IN w \in Seq(R) /\ w \o Append(t, y) = Append(w \o t, y)
    <2> DEFINE w == e.wire \o e.out
    <2>1. w \in Seq(R)
      BY <1>1, ConcatProperties, Zenon
    <2> HIDE DEF w
    <2>2. Append(t, y) = t \o <<y>> /\ <<y>> \in Seq(R)
      BY <1>1, AppendIsConcat
    <2>3. w \o t \in Seq(R)
      BY <1>1, <2>1, ConcatProperties, Zenon
    <2>4. Append(w \o t, y) = (w \o t) \o <<y>>
      BY <1>1, <2>3, AppendIsConcat, Zenon
    <2>5. w \o Append(t, y) = Append(w \o t, y)
      BY <1>1, <2>1, <2>2, <2>4, ConcatAssociative
    <2> QED BY <2>1, <2>5 DEF w
  <1>7. Unread(g) = Append(Unread(e), y)
    BY <1>5, <1>6 DEF Unread, t
  <1>8. Buffers(g)
    BY AppendSeq DEF Buffers
  <1> QED BY <1>7, <1>8 DEF y

\* Data is written at once.
LEMMA UnreadData ==
  ASSUME NEW e, NEW g, Buffers(e), NEW r, e.out = <<>>, e.q = <<>>, g.wire = Append(e.wire, r),
         g.out = e.out, g.q = e.q
  PROVE  Unread(g) = Append(Unread(e), r) /\ Buffers(g)
  <1>1. Seal(e) = <<>> /\ Seal(g) = <<>>
    BY DEF Seal
  <1>2. PICK R : e.wire \in Seq(R) /\ r \in R
    BY Typed, Zenon
  <1>3. g.wire \in Seq(R)
    BY <1>2, AppendProperties, Zenon
  <1>4. (e.wire \o <<>>) \o <<>> = e.wire /\ (g.wire \o <<>>) \o <<>> = g.wire
    BY <1>2, <1>3, ConcatEmptySeq, Zenon
  <1>5. Unread(g) = Append(Unread(e), r)
    BY <1>1, <1>4 DEF Unread
  <1>6. Buffers(g)
    BY AppendSeq DEF Buffers
  <1> QED BY <1>5, <1>6

\* The first record is read.
LEMMA UnreadTail ==
  ASSUME NEW e, NEW g, Buffers(e), e.wire # <<>>, g.wire = Tail(e.wire), g.out = e.out, g.q = e.q,
         g.keys = e.keys
  PROVE  /\ Unread(e) # <<>> /\ Unread(g) = Tail(Unread(e)) /\ Unread(e)[1] = Head(e.wire)
         /\ Buffers(g)
  <1> DEFINE u == e.out \o Seal(e)
             w == e.wire
  <1>1. PICK R : e.wire \in Seq(R) /\ e.out \in Seq(R) /\ Seal(e) \in Seq(R)
    BY Typed, Zenon
  <1>2. Seal(g) = Seal(e)
    BY DEF Seal, Sealed
  <1>3. u \in Seq(R) /\ w \in Seq(R) /\ w # <<>>
    BY <1>1, ConcatProperties, Zenon
  <1>4. Tail(w) \in Seq(R) /\ Len(Tail(w)) = Len(w) - 1 /\ Len(w) >= 1
    BY <1>3, HeadTailProperties, LenProperties
  <1>5. Unread(e) = w \o u
    <2> DEFINE a == e.out
               b == Seal(e)
    <2>1. w \in Seq(R) /\ a \in Seq(R) /\ b \in Seq(R)
      BY <1>1
    <2> HIDE DEF w, a, b
    <2>2. (w \o a) \o b = w \o (a \o b)
      BY <2>1, ConcatAssociative
    <2> QED BY <2>2 DEF w, a, b, Unread
  <1>6. Unread(g) = Tail(w) \o u
    <2>1. (Tail(w) \o e.out) \o Seal(e) = Tail(w) \o u
      <3> DEFINE v == Tail(w)
                 a == e.out
                 b == Seal(e)
      <3>1. v \in Seq(R) /\ a \in Seq(R) /\ b \in Seq(R)
        BY <1>1, <1>4
      <3> HIDE DEF v, a, b
      <3>2. (v \o a) \o b = v \o (a \o b)
        BY <3>1, ConcatAssociative
      <3> QED BY <3>2 DEF v, a, b
    <2> QED BY <1>2, <2>1 DEF Unread
  <1>7. IsSeq(Tail(w))
    BY <1>4, SeqOf, Zenon
  <1>8. Buffers(g)
    BY <1>7 DEF Buffers
  <1> HIDE DEF u, w
  <1>9. /\ w \o u # <<>> /\ Tail(w \o u) = Tail(w) \o u /\ (w \o u)[1] = Head(w)
    <2>1. /\ w \o u \in Seq(R) /\ Len(w \o u) = Len(w) + Len(u) /\ Len(w) \in Nat /\ Len(u) \in Nat
          /\ \A i \in 1..(Len(w) + Len(u)) : (w \o u)[i] = IF i <= Len(w) THEN w[i] ELSE u[i - Len(w)]
      BY <1>3, ConcatProperties, LenProperties
    <2>2. /\ Tail(w) \o u \in Seq(R) /\ Len(Tail(w) \o u) = Len(Tail(w)) + Len(u)
          /\ \A i \in 1..(Len(Tail(w)) + Len(u)) :
                (Tail(w) \o u)[i] = IF i <= Len(Tail(w)) THEN Tail(w)[i] ELSE u[i - Len(Tail(w))]
      BY <1>3, <1>4, ConcatProperties
    <2>3. w \o u # <<>>
      BY <1>4, <2>1
    <2>4. /\ Tail(w \o u) \in Seq(R) /\ Len(Tail(w \o u)) = Len(w \o u) - 1
          /\ \A i \in 1..Len(Tail(w \o u)) : Tail(w \o u)[i] = (w \o u)[i + 1]
      BY <2>1, <2>3, HeadTailProperties
    <2>5. \A i \in 1..Len(Tail(w)) : Tail(w)[i] = w[i + 1]
      BY <1>3, HeadTailProperties
    <2>6. Len(Tail(w \o u)) = Len(Tail(w) \o u)
      BY <1>4, <2>1, <2>2, <2>4
    <2>7. ASSUME NEW i \in 1..Len(Tail(w \o u)) PROVE Tail(w \o u)[i] = (Tail(w) \o u)[i]
      <3>1. i \in 1..(Len(Tail(w)) + Len(u)) /\ (i + 1) \in 1..(Len(w) + Len(u))
        BY <1>4, <2>1, <2>2, <2>6
      <3>2. Tail(w \o u)[i] = (w \o u)[i + 1]
        BY <2>4, <2>7, Zenon
      <3>3. CASE i <= Len(Tail(w))
        <4>1. i + 1 <= Len(w) /\ i \in 1..Len(Tail(w))
          BY <1>4, <2>1, <3>1, <3>3
        <4>2. (w \o u)[i + 1] = w[i + 1] /\ (Tail(w) \o u)[i] = Tail(w)[i]
          BY <2>1, <2>2, <3>1, <4>1
        <4> QED BY <2>5, <3>2, <4>1, <4>2
      <3>4. CASE ~(i <= Len(Tail(w)))
        <4>1. ~(i + 1 <= Len(w)) /\ (i + 1) - Len(w) = i - Len(Tail(w))
          BY <1>4, <2>1, <3>1, <3>4
        <4>2. (w \o u)[i + 1] = u[(i + 1) - Len(w)] /\ (Tail(w) \o u)[i] = u[i - Len(Tail(w))]
          BY <2>1, <2>2, <3>1, <3>4, <4>1
        <4> QED BY <3>2, <4>1, <4>2
      <3> QED BY <3>3, <3>4
    <2>8. Tail(w \o u) = Tail(w) \o u
      BY <2>2, <2>4, <2>6, <2>7, SeqEqual, Zenon
    <2>9. (w \o u)[1] = w[1] /\ Head(w) = w[1]
      BY <1>3, <1>4, <2>1
    <2> QED BY <2>3, <2>8, <2>9
  <1> QED BY <1>5, <1>6, <1>8, <1>9 DEF w

-----------------------------------------------------------------------------
(* The numbers of the records under way.                                     *)

\* The number of a record is a number.
LEMMA SlotNat == ASSUME NEW p, NEW h, NEW r PROVE Slot(p, h, r) \in Nat
  BY DEF Slot

\* The numbers of the unread records form a sequence as long as theirs.
LEMMA SlotsSeq ==
  ASSUME NEW p, NEW e, Buffers(e)
  PROVE  /\ Slots(p, e) \in Seq(Nat) /\ Len(Slots(p, e)) = Len(Unread(e))
         /\ \A i \in 1..Len(Unread(e)) : Slots(p, e)[i] = Slot(p, First1(p, e), Unread(e)[i])
         /\ Slots(p, e) # <<>> <=> Unread(e) # <<>>
  <1>1. Len(Unread(e)) \in Nat /\ IsSeq(Unread(e))
    BY UnreadSeq
  <1>2. Slots(p, e) \in [1..Len(Unread(e)) -> Nat]
    BY SlotNat DEF Slots
  <1>3. Slots(p, e) \in Seq(Nat) /\ Len(Slots(p, e)) = Len(Unread(e))
    BY <1>1, <1>2
  <1>4. Slots(p, e) # <<>> <=> Len(Unread(e)) # 0
    BY <1>1, <1>3
  <1>5. Unread(e) # <<>> <=> Len(Unread(e)) # 0
    <2>1. Unread(e) \in Seq(Elems(Unread(e)))
      BY <1>1 DEF IsSeq
    <2> QED BY <2>1
  <1> QED BY <1>3, <1>4, <1>5 DEF Slots

\* What Append and Tail do to a list of records.
LEMMA ListAppend ==
  ASSUME NEW U, IsSeq(U), NEW x
  PROVE  /\ Len(U) \in Nat /\ Len(Append(U, x)) = Len(U) + 1 /\ Append(U, x)[Len(U) + 1] = x
         /\ \A i \in 1..Len(U) : Append(U, x)[i] = U[i]
  <1> DEFINE T == Elems(U) \cup {x}
  <1>1. U \in Seq(Elems(U)) /\ Elems(U) \subseteq T /\ x \in T
    BY DEF IsSeq
  <1> HIDE DEF T
  <1>2. U \in Seq(T)
    BY <1>1, SeqMonotonic, Zenon
  <1> QED BY <1>1, <1>2, AppendProperties, LenProperties

\* The tail of a sequence, by its elements.
LEMMA ListTail ==
  ASSUME NEW U, IsSeq(U), U # <<>>
  PROVE  /\ Len(U) \in Nat /\ Len(Tail(U)) = Len(U) - 1 /\ Len(U) >= 1
         /\ \A i \in 1..Len(Tail(U)) : Tail(U)[i] = U[i + 1]
  <1>1. U \in Seq(Elems(U))
    BY DEF IsSeq
  <1> QED BY <1>1, HeadTailProperties, LenProperties

\* A list that maps another follows it.
LEMMA MapAppend ==
  ASSUME NEW T, NEW n \in Nat, NEW f \in [1..n -> T], NEW g \in [1..(n + 1) -> T],
         \A i \in 1..n : g[i] = f[i]
  PROVE  g = Append(f, g[n + 1]) /\ f \in Seq(T)
  <1>1. f \in Seq(T) /\ Len(f) = n /\ g \in Seq(T) /\ Len(g) = n + 1 /\ g[n + 1] \in T
    OBVIOUS
  <1> DEFINE x == g[n + 1]
             h == Append(f, x)
  <1>2. /\ h \in Seq(T) /\ Len(h) = n + 1 /\ h[n + 1] = x
        /\ \A i \in 1..n : h[i] = f[i]
    BY <1>1, AppendProperties
  <1> HIDE DEF h
  <1>3. ASSUME NEW i \in 1..Len(g) PROVE g[i] = h[i]
    <2>1. CASE i = n + 1
      BY <1>2, <2>1
    <2>2. CASE i # n + 1
      <3>1. i \in 1..n
        BY <1>1, <2>2
      <3> QED BY <1>2, <3>1
    <2> QED BY <2>1, <2>2
  <1>4. g = h
    BY <1>1, <1>2, <1>3, SeqEqual, Zenon
  <1> QED BY <1>1, <1>4 DEF h

\* A function on 1..n-1 that is another one shifted by one is its tail.
LEMMA MapTail ==
  ASSUME NEW T, NEW n \in Nat \ {0}, NEW f \in [1..n -> T], NEW g \in [1..(n - 1) -> T],
         \A i \in 1..(n - 1) : g[i] = f[i + 1]
  PROVE  g = Tail(f) /\ f \in Seq(T) /\ f # <<>>
  <1>1. f \in Seq(T) /\ Len(f) = n /\ g \in Seq(T) /\ Len(g) = n - 1 /\ f # <<>>
    OBVIOUS
  <1>2. /\ Tail(f) \in Seq(T) /\ Len(Tail(f)) = n - 1
        /\ \A i \in 1..Len(Tail(f)) : Tail(f)[i] = f[i + 1]
    BY <1>1, HeadTailProperties
  <1>3. ASSUME NEW i \in 1..Len(g) PROVE g[i] = Tail(f)[i]
    BY <1>1, <1>2
  <1>4. g = Tail(f)
    BY <1>1, <1>2, <1>3, SeqEqual, Zenon
  <1> QED BY <1>1, <1>4

\* The same for numbers, with quantifiers.
LEMMA NatTail ==
  \A n \in Nat \ {0} : \A f \in [1..n -> Nat] : \A g \in [1..(n - 1) -> Nat] :
     (\A i \in 1..(n - 1) : g[i] = f[i + 1]) => g = Tail(f) /\ f \in Seq(Nat) /\ f # <<>>
  BY MapTail

\* The number of a data record.
DataNo(k, x) == IF x.type = "data" /\ k = 100 THEN x.msg ELSE 0

\* The number of each data record.
LEMMA NumbersAre ==
  ASSUME NEW p, NEW e, Buffers(e)
  PROVE  /\ DOMAIN Numbers(p, e) = 1..Len(Unread(e))
         /\ \A i \in 1..Len(Unread(e)) : Numbers(p, e)[i] = DataNo(Slots(p, e)[i], Unread(e)[i])
  BY DEF Numbers, DataNo

\* The numbers of the data records form a sequence.
LEMMA NumbersSeq ==
  ASSUME NEW p, NEW e, Buffers(e), \A i \in 1..Len(Unread(e)) : Numbers(p, e)[i] \in Nat
  PROVE  Numbers(p, e) \in [1..Len(Unread(e)) -> Nat] /\ Len(Numbers(p, e)) = Len(Unread(e)) /\ Numbers(p, e) \in Seq(Nat)
  <1>1. Len(Unread(e)) \in Nat
    BY UnreadSeq
  <1>2. Numbers(p, e) \in [1..Len(Unread(e)) -> Nat]
    BY DEF Numbers
  <1> QED BY <1>1, <1>2

NumbersOK(p, e) == \A i \in 1..Len(Unread(e)) : Numbers(p, e)[i] \in Nat

\* One record more.
LEMMA SlotsAppend ==
  ASSUME NEW p, NEW e, NEW g, NEW x, Buffers(e), Buffers(g), Unread(g) = Append(Unread(e), x),
         First1(p, g) = First1(p, e)
  PROVE  LET k == Slot(p, First1(p, e), x)
         IN  /\ Slots(p, e) \in Seq(Nat) /\ k \in Nat
             /\ Slots(p, g) = Append(Slots(p, e), k)
             /\ Items(p, e) /\ Item(p, k, x) => Items(p, g)
             /\ NumbersOK(p, e) /\ DataNo(k, x) \in Nat =>
                   /\ Numbers(p, e) \in Seq(Nat) /\ NumbersOK(p, g)
                   /\ Numbers(p, g) = Append(Numbers(p, e), DataNo(k, x))
  <1> DEFINE U == Unread(e)
             V == Unread(g)
             k == Slot(p, First1(p, e), x)
             n == Len(U)
  <1>1. IsSeq(U)
    BY UnreadSeq
  <1>2. n \in Nat /\ Len(V) = n + 1 /\ V[n + 1] = x /\ \A i \in 1..n : V[i] = U[i]
    BY <1>1, ListAppend
  <1>3. k \in Nat
    BY SlotNat
  <1>4. /\ Slots(p, e) \in [1..n -> Nat]
        /\ \A i \in 1..n : Slots(p, e)[i] = Slot(p, First1(p, e), U[i])
    BY SlotNat DEF Slots
  <1>5. /\ Slots(p, g) \in [1..(n + 1) -> Nat]
        /\ \A i \in 1..(n + 1) : Slots(p, g)[i] = Slot(p, First1(p, e), V[i])
    <2>1. Slots(p, g) = [i \in 1..(n + 1) |-> Slot(p, First1(p, e), V[i])]
      BY <1>2 DEF Slots
    <2> QED BY <2>1, SlotNat
  <1>6. \A i \in 1..n : i \in 1..(n + 1)
    BY <1>2
  <1>7. (n + 1) \in 1..(n + 1)
    BY <1>2
  <1> HIDE DEF U, V, n
  <1>8. Slots(p, g)[n + 1] = k /\ \A i \in 1..n : Slots(p, g)[i] = Slots(p, e)[i]
    BY <1>2, <1>4, <1>5, <1>6, <1>7, Zenon
  <1>9. Slots(p, g) = Append(Slots(p, e), k) /\ Slots(p, e) \in Seq(Nat)
    <2>1. Slots(p, g) = Append(Slots(p, e), Slots(p, g)[n + 1]) /\ Slots(p, e) \in Seq(Nat)
      BY <1>2, <1>4, <1>5, <1>8, MapAppend, Zenon
    <2> QED BY <1>8, <2>1, Zenon
  <1>10. ASSUME Items(p, e), Item(p, k, x) PROVE Items(p, g)
    <2> SUFFICES ASSUME NEW i \in 1..(n + 1) PROVE Item(p, Slots(p, g)[i], V[i])
      BY <1>2, Zenon DEF Items, V
    <2>1. CASE i = n + 1
      BY <1>2, <1>8, <1>10, <2>1, Zenon
    <2>2. CASE i # n + 1
      <3>1. i \in 1..n
        BY <1>2, <2>2
      <3>2. Item(p, Slots(p, e)[i], U[i])
        BY <1>10, <3>1, Zenon DEF Items, U, n
      <3> QED BY <1>2, <1>8, <3>1, <3>2, Zenon
    <2> QED BY <2>1, <2>2
  <1>11. ASSUME NumbersOK(p, e), DataNo(k, x) \in Nat
         PROVE  /\ Numbers(p, e) \in Seq(Nat) /\ NumbersOK(p, g)
                /\ Numbers(p, g) = Append(Numbers(p, e), DataNo(k, x))
    <2>1. Numbers(p, e) \in [1..n -> Nat]
      BY <1>11, NumbersSeq, Zenon DEF NumbersOK, U, n
    <2>2. \A i \in 1..n : Numbers(p, e)[i] = DataNo(Slots(p, e)[i], U[i])
      BY NumbersAre, Zenon DEF U, n
    <2>3. \A i \in 1..(n + 1) : Numbers(p, g)[i] = DataNo(Slots(p, g)[i], V[i])
      BY <1>2, NumbersAre, Zenon DEF V
    <2>4. /\ \A i \in 1..n : Numbers(p, g)[i] = Numbers(p, e)[i]
          /\ Numbers(p, g)[n + 1] = DataNo(k, x)
      BY <1>2, <1>6, <1>7, <1>8, <2>2, <2>3, Zenon
    <2>5. ASSUME NEW i \in 1..(n + 1) PROVE Numbers(p, g)[i] \in Nat
      <3>1. CASE i = n + 1
        BY <1>11, <2>4, <3>1, Zenon
      <3>2. CASE i # n + 1
        <4>1. i \in 1..n
          BY <1>2, <3>2
        <4> QED BY <2>1, <2>4, <4>1
      <3> QED BY <3>1, <3>2
    <2>6. NumbersOK(p, g)
      BY <1>2, <2>5, Zenon DEF NumbersOK, V
    <2>7. Numbers(p, g) \in [1..(n + 1) -> Nat]
      BY <1>2, <2>6, NumbersSeq, Zenon DEF NumbersOK, V
    <2>8. Numbers(p, g) = Append(Numbers(p, e), Numbers(p, g)[n + 1]) /\ Numbers(p, e) \in Seq(Nat)
      BY <1>2, <2>1, <2>4, <2>7, MapAppend, Zenon
    <2> QED BY <2>4, <2>6, <2>8, Zenon
  <1> QED BY <1>3, <1>9, <1>10, <1>11, Zenon

\* What is on its way in g is what is in e without its first record.
Less(p, e, g) ==
    LET x == Unread(e)[1]
        k == Slot(p, First1(p, e), x)
    IN  /\ Slots(p, e) \in Seq(Nat) /\ Slots(p, e) # <<>> /\ Slots(p, e)[1] = k /\ k \in Nat
        /\ Slots(p, g) = Tail(Slots(p, e))
        /\ Items(p, e) => Items(p, g) /\ Item(p, k, x)
        /\ NumbersOK(p, e) =>
              /\ Numbers(p, e) \in Seq(Nat) /\ Numbers(p, e) # <<>> /\ NumbersOK(p, g)
              /\ Numbers(p, e)[1] = DataNo(k, x) /\ Numbers(p, g) = Tail(Numbers(p, e))

\* One record less.
LEMMA SlotsTail ==
  ASSUME NEW p, NEW e, NEW g, Buffers(e), Buffers(g), Unread(e) # <<>>, Unread(g) = Tail(Unread(e)),
         First1(p, g) = First1(p, e)
  PROVE  Less(p, e, g)
  <1> DEFINE U == Unread(e)
             V == Unread(g)
             x == U[1]
             k == Slot(p, First1(p, e), x)
             n == Len(U)
  <1>1. IsSeq(U)
    BY UnreadSeq
  <1>2. n \in Nat /\ n >= 1 /\ Len(V) = n - 1 /\ \A i \in 1..(n - 1) : V[i] = U[i + 1]
    BY <1>1, ListTail
  <1>3. k \in Nat
    BY SlotNat
  <1>4. /\ Slots(p, e) \in [1..n -> Nat]
        /\ \A i \in 1..n : Slots(p, e)[i] = Slot(p, First1(p, e), U[i])
    BY SlotNat DEF Slots
  <1>5. /\ Slots(p, g) \in [1..(n - 1) -> Nat]
        /\ \A i \in 1..(n - 1) : Slots(p, g)[i] = Slot(p, First1(p, e), V[i])
    <2>1. Slots(p, g) = [i \in 1..(n - 1) |-> Slot(p, First1(p, e), V[i])]
      BY <1>2 DEF Slots
    <2> QED BY <2>1, SlotNat
  <1>6. \A i \in 1..(n - 1) : (i + 1) \in 1..n
    BY <1>2
  <1>7. 1 \in 1..n /\ n \in Nat \ {0}
    BY <1>2
  <1> HIDE DEF U, V, n
  <1>8. Slots(p, e)[1] = k /\ \A i \in 1..(n - 1) : Slots(p, g)[i] = Slots(p, e)[i + 1]
    BY <1>2, <1>4, <1>5, <1>6, <1>7, Zenon
  <1>9. Slots(p, g) = Tail(Slots(p, e)) /\ Slots(p, e) \in Seq(Nat) /\ Slots(p, e) # <<>>
    BY <1>4, <1>5, <1>7, <1>8, MapTail
  <1>10. ASSUME Items(p, e) PROVE Items(p, g) /\ Item(p, k, x)
    <2>1. \A i \in 1..n : Item(p, Slots(p, e)[i], U[i])
      BY <1>10, Zenon DEF Items, U, n
    <2>2. \A i \in 1..(n - 1) : Item(p, Slots(p, g)[i], V[i])
      BY <1>2, <1>6, <1>8, <2>1, Zenon
    <2>3. Items(p, g)
      BY <1>2, <2>2, Zenon DEF Items, V
    <2> QED BY <1>7, <1>8, <2>1, <2>3, Zenon
  <1>11. ASSUME NumbersOK(p, e)
         PROVE  /\ Numbers(p, e) \in Seq(Nat) /\ Numbers(p, e) # <<>> /\ NumbersOK(p, g)
                /\ Numbers(p, e)[1] = DataNo(k, x) /\ Numbers(p, g) = Tail(Numbers(p, e))
    <2>1. Numbers(p, e) \in [1..n -> Nat]
      BY <1>11, NumbersSeq, Zenon DEF NumbersOK, U, n
    <2>2. \A i \in 1..n : Numbers(p, e)[i] = DataNo(Slots(p, e)[i], U[i])
      BY NumbersAre, Zenon DEF U, n
    <2>3. \A i \in 1..(n - 1) : Numbers(p, g)[i] = DataNo(Slots(p, g)[i], V[i])
      BY <1>2, NumbersAre, ZenonT(40) DEF V
    <2>4. /\ \A i \in 1..(n - 1) : Numbers(p, g)[i] = Numbers(p, e)[i + 1]
          /\ Numbers(p, e)[1] = DataNo(k, x)
      BY <1>2, <1>6, <1>7, <1>8, <2>2, <2>3, Zenon
    <2>5. \A i \in 1..(n - 1) : Numbers(p, g)[i] \in Nat
      BY <1>6, <2>1, <2>4
    <2>6. NumbersOK(p, g)
      BY <1>2, <2>5, Zenon DEF NumbersOK, V
    <2>7. Numbers(p, g) \in [1..(n - 1) -> Nat]
      BY <1>2, <2>6, NumbersSeq, Zenon DEF NumbersOK, V
    <2>8. Numbers(p, g) = Tail(Numbers(p, e)) /\ Numbers(p, e) \in Seq(Nat) /\ Numbers(p, e) # <<>>
      <3> DEFINE f == Numbers(p, e)
                 h == Numbers(p, g)
      <3>1. /\ f \in [1..n -> Nat] /\ h \in [1..(n - 1) -> Nat]
            /\ \A i \in 1..(n - 1) : h[i] = f[i + 1]
        BY <2>1, <2>4, <2>7, Zenon
      <3> HIDE DEF f, h
      <3>2. h = Tail(f) /\ f \in Seq(Nat) /\ f # <<>>
        BY <1>7, <3>1, NatTail, Zenon
      <3> QED BY <3>2, Zenon DEF f, h
    <2> QED BY <2>4, <2>6, <2>8, Zenon
  <1> QED BY <1>3, <1>8, <1>9, <1>10, <1>11, Zenon DEF U, Less

-----------------------------------------------------------------------------
(* What a step of one endpoint does to the records under way.                *)

Ranged(p, e) == Said(p, e) \in 0..104 /\ HeardTo(p, e) \in 0..104

\* Who stays where he is passes nothing.
LEMMA QuietHere ==
  ASSUME NEW p, NEW a \in 0..104
  PROVE  Quiet(p, a, a) /\ StillPending(p, a, a)
  BY DEF Quiet, StillPending

\* The peer of the peer.
LEMMA PeerEnds == ASSUME NEW p \in Ends PROVE Peer(p) \in Ends /\ Peer(Peer(p)) = p /\ Peer(p) # p
  BY DEF Peer, Ends

\* p goes on without sending.
LEMMA FlowMove ==
  ASSUME NEW p \in Ends, NEW e, NEW g, NEW o, Versions, Buffers(e), Flow(p, e, o),
         Ranged(p, e), Ranged(p, g), Ranged(Peer(p), o),
         Unread(g) = Unread(e), Slots(p, g) = Slots(p, e),
         Said(p, e) <= Said(p, g), Quiet(p, Said(p, e), Said(p, g))
  PROVE  Flow(p, g, o)
  <1> DEFINE K == Slots(p, e)
             a == HeardTo(Peer(p), o)
             b == Said(p, e)
             d == Said(p, g)
  <1>1. K \in Seq(Nat) /\ a \in 0..104 /\ b \in 0..104 /\ d \in 0..104 /\ a <= a /\ b <= d
    <2>1. K \in Seq(Nat)
      BY SlotsSeq, Zenon
    <2>2. a \in 0..104 /\ b \in 0..104 /\ d \in 0..104
      BY Zenon DEF Ranged
    <2>3. a <= a
      BY <2>2
    <2> QED BY <2>1, <2>2, <2>3, Zenon
  <1>2. Line(p, K, a, b) /\ Items(p, e)
    BY Zenon DEF Flow
  <1>3. Quiet(p, a, a) /\ StillPending(p, a, a) /\ (a < 102 => a < 102) /\ Quiet(p, b, d)
    BY <1>1, QuietHere, Zenon
  <1> HIDE DEF K, a, b, d
  <1>4. Line(p, K, a, d)
    BY <1>1, <1>2, <1>3, LineMove, Zenon
  <1>5. Items(p, g)
    BY <1>2, Zenon DEF Items
  <1> QED BY <1>4, <1>5, Zenon DEF Flow, K, a, d

\* p goes on without reading.
LEMMA FlowPass ==
  ASSUME NEW p \in Ends, NEW e, NEW g, NEW o, Versions, Buffers(o), Flow(Peer(p), o, e),
         Ranged(p, e), Ranged(p, g), Ranged(Peer(p), o),
         HeardTo(p, e) <= HeardTo(p, g), Quiet(Peer(p), HeardTo(p, e), HeardTo(p, g)),
         StillPending(Peer(p), HeardTo(p, e), HeardTo(p, g)),
         HeardTo(p, e) < 102 => HeardTo(p, g) < 102
  PROVE  Flow(Peer(p), o, g)
  <1> DEFINE q == Peer(p)
             K == Slots(q, o)
             a == HeardTo(p, e)
             b == Said(q, o)
             c == HeardTo(p, g)
  <1>1. K \in Seq(Nat) /\ a \in 0..104 /\ b \in 0..104 /\ c \in 0..104 /\ a <= c /\ b <= b
    <2>1. K \in Seq(Nat)
      BY SlotsSeq, Zenon
    <2>2. a \in 0..104 /\ b \in 0..104 /\ c \in 0..104
      BY Zenon DEF Ranged
    <2>3. b <= b
      BY <2>2
    <2> QED BY <2>1, <2>2, <2>3, Zenon
  <1>0. q \in Ends /\ Peer(q) = p
    BY PeerEnds
  <1>2. Line(q, K, a, b) /\ Items(q, o)
    BY <1>0, Zenon DEF Flow
  <1>3. /\ Quiet(q, b, b) /\ Quiet(q, a, c) /\ StillPending(q, a, c) /\ (a < 102 => c < 102)
    BY <1>1, QuietHere, Zenon
  <1> HIDE DEF K, a, b, c, q
  <1>4. Line(q, K, c, b)
    BY <1>0, <1>1, <1>2, <1>3, LineMove, Zenon
  <1> QED BY <1>0, <1>2, <1>4, Zenon DEF Flow, K, b, c, q

\* One more record x of p is under way, with number k.
Grows(p, e, g, x, k) == /\ Buffers(e) /\ Buffers(g) /\ Unread(g) = Append(Unread(e), x)
                        /\ First1(p, g) = First1(p, e) /\ k = Slot(p, First1(p, e), x)

\* A record that is added adds its number.
LEMMA SlotsMore ==
  ASSUME NEW p, NEW e, NEW g, NEW x, NEW k, Grows(p, e, g, x, k)
  PROVE  /\ Slots(p, e) \in Seq(Nat) /\ k \in Nat
         /\ Slots(p, g) = Append(Slots(p, e), k)
  <1>1. Buffers(e) /\ Buffers(g) /\ Unread(g) = Append(Unread(e), x) /\ First1(p, g) = First1(p, e)
    BY Zenon DEF Grows
  <1>2. k = Slot(p, First1(p, e), x)
    BY Zenon DEF Grows
  <1> QED BY <1>1, <1>2, SlotsAppend

\* Then every record is still what its number says.
LEMMA ItemsMore ==
  ASSUME NEW p, NEW e, NEW g, NEW x, NEW k, Grows(p, e, g, x, k), Items(p, e), Item(p, k, x)
  PROVE  Items(p, g)
  <1>1. Buffers(e) /\ Buffers(g) /\ Unread(g) = Append(Unread(e), x) /\ First1(p, g) = First1(p, e)
    BY Zenon DEF Grows
  <1>2. k = Slot(p, First1(p, e), x)
    BY Zenon DEF Grows
  <1> QED BY <1>1, <1>2, SlotsAppend

\* And the data number is added.
LEMMA NumbersMore ==
  ASSUME NEW p, NEW e, NEW g, NEW x, NEW k, Grows(p, e, g, x, k), NumbersOK(p, e), DataNo(k, x) \in Nat
  PROVE  Numbers(p, e) \in Seq(Nat) /\ Numbers(p, g) = Append(Numbers(p, e), DataNo(k, x))
  <1>1. Buffers(e) /\ Buffers(g) /\ Unread(g) = Append(Unread(e), x) /\ First1(p, g) = First1(p, e)
    BY Zenon DEF Grows
  <1>2. k = Slot(p, First1(p, e), x)
    BY Zenon DEF Grows
  <1> QED BY <1>1, <1>2, SlotsAppend

\* p sends a message.
LEMMA FlowSend ==
  ASSUME NEW p \in Ends, NEW e, NEW g, NEW o, NEW x, NEW k, Versions, Grows(p, e, g, x, k), Flow(p, e, o),
         Ranged(p, e), Ranged(p, g), Ranged(Peer(p), o),
         Item(p, k, x), Sends(p, k), Said(p, e) < k, k <= Said(p, g),
         Alone(p, k, Said(p, e), Said(p, g)), Fits(p, k, HeardTo(Peer(p), o), Said(p, g))
  PROVE  Flow(p, g, o)
  <1> DEFINE K == Slots(p, e)
             a == HeardTo(Peer(p), o)
             b == Said(p, e)
             d == Said(p, g)
  <1>1. a \in 0..104 /\ b \in 0..104 /\ d \in 0..104 /\ b < k /\ k <= d
    BY DEF Ranged
  <1>2. Line(p, K, a, b) /\ Items(p, e)
    BY Zenon DEF Flow
  <1>3. K \in Seq(Nat) /\ k \in Nat /\ Slots(p, g) = Append(K, k) /\ Items(p, g)
    BY <1>2, SlotsMore, ItemsMore
  <1> HIDE DEF K, a, b, d
  <1>4. Alone(p, k, b, d) /\ Fits(p, k, a, d)
    BY Zenon DEF a, b, d
  <1>5. Line(p, Append(K, k), a, d)
    BY <1>1, <1>2, <1>3, <1>4, LineSend, ZenonT(40)
  <1> QED BY <1>3, <1>5, Zenon DEF Flow, a, d

\* p may send data or a ticket.
LateFits(p, a, b) == LastOwn(p) <= b /\ (p = "client" => (a < 102 /\ b < 102) \/ b = 104)

\* Data or a ticket at the end of the line.
LEMMA LineLater ==
  ASSUME NEW p \in Ends, Versions, NEW K \in Seq(Nat), NEW a \in 0..104, NEW b \in 0..104, NEW k \in {100},
         Line(p, K, a, b), LateFits(p, a, b)
  PROVE  Line(p, Append(K, k), a, b)
  <1>1. b >= LastOwn(p) /\ (p = "client" => (a < 102 /\ b < 102) \/ b = 104)
    BY LastOwnRange DEF LateFits
  <1>2. k = 100
    OBVIOUS
  <1> QED BY <1>1, <1>2, LineLate

\* p sends data or a ticket.
LEMMA FlowLate ==
  ASSUME NEW p \in Ends, NEW e, NEW g, NEW o, NEW x, NEW k \in {100}, Versions, Grows(p, e, g, x, k), Flow(p, e, o),
         Ranged(p, e), Ranged(Peer(p), o),
         Item(p, k, x), Said(p, g) = Said(p, e), LateFits(p, HeardTo(Peer(p), o), Said(p, e))
  PROVE  Flow(p, g, o)
  <1> DEFINE K == Slots(p, e)
             a == HeardTo(Peer(p), o)
             b == Said(p, e)
  <1>1. a \in 0..104 /\ b \in 0..104
    BY DEF Ranged
  <1>2. Line(p, K, a, b) /\ Items(p, e)
    BY Zenon DEF Flow
  <1>3. K \in Seq(Nat) /\ Slots(p, g) = Append(K, k) /\ Items(p, g)
    BY <1>2, SlotsMore, ItemsMore
  <1>4. LateFits(p, a, b)
    BY Zenon
  <1> HIDE DEF K, a, b
  <1>5. Line(p, Append(K, k), a, b)
    BY <1>1, <1>2, <1>3, <1>4, LineLater, Zenon
  <1> QED BY <1>3, <1>5, Zenon DEF Flow, a, b

\* What p finds in front.
FirstNo(p, o) == Slot(Peer(p), First1(Peer(p), o), Unread(o)[1])

\* The first of o's records is taken away.
Consumed(p, o, h) == /\ Buffers(o) /\ Buffers(h) /\ Unread(o) # <<>> /\ Unread(h) = Tail(Unread(o))
                     /\ First1(Peer(p), h) = First1(Peer(p), o) /\ Said(Peer(p), h) = Said(Peer(p), o)

\* p reads a message of o.
LEMMA FlowHear ==
  ASSUME NEW p \in Ends, NEW e, NEW g, NEW o, NEW h, NEW k, Versions, Flow(Peer(p), o, e),
         Ranged(p, e), Ranged(p, g), Ranged(Peer(p), o), Consumed(p, o, h), k = FirstNo(p, o),
         Spoken(Peer(p), k), k <= HeardTo(p, g), Alone(Peer(p), k, HeardTo(p, e), HeardTo(p, g)),
         Passes(Peer(p), k, HeardTo(p, g))
  PROVE  Flow(Peer(p), h, g)
  <1> DEFINE q == Peer(p)
             K == Slots(q, o)
             a == HeardTo(p, e)
             b == Said(q, o)
             c == HeardTo(p, g)
  <1>0. q \in Ends /\ Peer(q) = p
    BY PeerEnds
  <1>1. a \in 0..104 /\ b \in 0..104 /\ c \in 0..104
    BY DEF Ranged
  <1>2. Line(q, K, a, b) /\ Items(q, o)
    BY <1>0, Zenon DEF Flow
  <1>3. K \in Seq(Nat) /\ K # <<>> /\ K[1] = k /\ Slots(q, h) = Tail(K) /\ Items(q, h)
    BY <1>2, SlotsTail, Zenon DEF Consumed, FirstNo, Less
  <1>4. /\ Spoken(q, K[1]) /\ K[1] <= c /\ Alone(q, K[1], a, c) /\ Passes(q, K[1], c)
    BY <1>3, Zenon
  <1>5. Said(q, h) = b
    BY Zenon DEF Consumed
  <1> HIDE DEF K, a, b, c, q
  <1>6. Line(q, Tail(K), c, b)
    BY <1>0, <1>1, <1>2, <1>3, <1>4, LineHear, Zenon
  <1>7. Line(q, Slots(q, h), HeardTo(Peer(q), g), Said(q, h))
    BY <1>0, <1>3, <1>5, <1>6, Zenon DEF c
  <1> QED BY <1>3, <1>7, Zenon DEF Flow, q

\* p reads data, a ticket or what it takes in silence.
LEMMA FlowDrop ==
  ASSUME NEW p \in Ends, NEW e, NEW g, NEW o, NEW h, NEW k, Versions, Flow(Peer(p), o, e),
         Ranged(p, e), Ranged(Peer(p), o), Consumed(p, o, h), k = FirstNo(p, o),
         k = 100 \/ Silent(k), HeardTo(p, g) = HeardTo(p, e)
  PROVE  Flow(Peer(p), h, g)
  <1> DEFINE q == Peer(p)
             K == Slots(q, o)
             a == HeardTo(p, e)
             b == Said(q, o)
  <1>0. q \in Ends /\ Peer(q) = p
    BY PeerEnds
  <1>1. a \in 0..104 /\ b \in 0..104
    BY DEF Ranged
  <1>2. Line(q, K, a, b) /\ Items(q, o)
    BY <1>0, Zenon DEF Flow
  <1>3. K \in Seq(Nat) /\ K # <<>> /\ K[1] = k /\ Slots(q, h) = Tail(K) /\ Items(q, h)
    BY <1>2, SlotsTail, Zenon DEF Consumed, FirstNo, Less
  <1>4. K[1] = 100 \/ Silent(K[1])
    BY <1>3, Zenon
  <1>5. Said(q, h) = b
    BY Zenon DEF Consumed
  <1> HIDE DEF K, b, q
  <1>6. Line(q, Tail(K), a, b)
    BY <1>0, <1>1, <1>2, <1>3, <1>4, LineDrop, Zenon
  <1>7. Line(q, Slots(q, h), HeardTo(Peer(q), g), Said(q, h))
    BY <1>0, <1>3, <1>5, <1>6, Zenon
  <1> QED BY <1>3, <1>7, Zenon DEF Flow, q

-----------------------------------------------------------------------------
(* What a step of one endpoint does to the data under way.                   *)

\* What p was given: the early data and then the rest in order.
Delivered(p, got) == IsSeq(got) /\ \A i \in 1..Len(got) : got[i] = i - Skew(p)

\* The parts of DataOK.
LEMMA DataParts ==
  ASSUME NEW p \in Ends, NEW e, NEW o, Buffers(e)
  PROVE  /\ DataOK(p, e, o) <=>
                /\ e.sent \in Nat /\ Got(Peer(p), o) <= e.sent /\ Delivered(Peer(p), o.got)
                /\ InOrder(Numbers(p, e), Got(Peer(p), o), e.sent)
                /\ p = "client" /\ EarlyTaken =>
                      EarlyLine(Slots(p, e), HeardTo(Peer(p), o), Said(p, e), o.got)
         /\ DataOK(p, e, o) => NumbersOK(p, e)
  <1>1. Len(Numbers(p, e)) = Len(Unread(e))
    BY NumbersAre, UnreadSeq
  <1>2. DataOK(p, e, o) => NumbersOK(p, e)
    <2>1. DataOK(p, e, o) => InOrder(Numbers(p, e), Got(Peer(p), o), e.sent)
      BY Zenon DEF DataOK
    <2>2. DataOK(p, e, o) => DataRange(Numbers(p, e), Got(Peer(p), o), e.sent)
      BY <2>1, InOrderParts, Zenon
    <2> QED BY <1>1, <2>2, Zenon DEF DataRange, NumbersOK
  <1> QED BY <1>2, Zenon DEF DataOK, Delivered

\* The count of what was delivered is a number.
LEMMA GotNat == ASSUME NEW p, NEW o, Delivered(p, o.got) PROVE Got(p, o) \in Nat
  BY DEF Got, Skew, Delivered, IsSeq

\* Early data passes under TLS 1.3 only.
Modern == EarlyTaken => Version = "13"

\* A client with early data ends them with message 14.
LEMMA EarlySpoken ==
  ASSUME NEW p, p = "client", EarlyTaken, Modern
  PROVE  Spoken(p, 14) /\ ~Spoken(p, 8) /\ LastOwn(p) = 17 /\ Silent(8)
  <1>1. Version = "13"
    BY Zenon DEF Modern
  <1>2. Silent(8) /\ ~Silent(14) /\ LastOwn(p) = 17
    BY <1>1 DEF Silent, LastOwn
  <1>3. Sends(p, 14)
    BY <1>1, Zenon DEF Sends
  <1> QED BY <1>2, <1>3, Zenon DEF Spoken

\* The early data is not passed over.
Stays8(p, b, d) == p = "client" /\ EarlyTaken => (b >= 8 <=> d >= 8)

\* p goes on without sending.
LEMMA DataMove ==
  ASSUME NEW p \in Ends, NEW e, NEW g, NEW o, Buffers(e), Buffers(g), DataOK(p, e, o),
         Unread(g) = Unread(e), Slots(p, g) = Slots(p, e), g.sent = e.sent,
         Stays8(p, Said(p, e), Said(p, g))
  PROVE  DataOK(p, g, o)
  <1>1. Numbers(p, g) = Numbers(p, e)
    BY Zenon DEF Numbers
  <1>2. p = "client" /\ EarlyTaken => EarlyLine(Slots(p, g), HeardTo(Peer(p), o), Said(p, g), o.got)
    <2> SUFFICES ASSUME p = "client", EarlyTaken
                 PROVE  EarlyLine(Slots(p, g), HeardTo(Peer(p), o), Said(p, g), o.got)
      BY Zenon
    <2>1. EarlyLine(Slots(p, e), HeardTo(Peer(p), o), Said(p, e), o.got)
      BY DataParts, Zenon
    <2>2. Said(p, e) >= 8 <=> Said(p, g) >= 8
      BY DEF Stays8
    <2> QED BY <2>1, <2>2, EarlyLineParts
  <1> QED BY <1>1, <1>2, DataParts, Zenon

\* p goes on without reading.
LEMMA DataPass ==
  ASSUME NEW p \in Ends, NEW e, NEW g, NEW o, Buffers(o), Modern, DataOK(Peer(p), o, e),
         Ranged(p, e), Ranged(p, g),
         Quiet(Peer(p), HeardTo(p, e), HeardTo(p, g)), g.got = e.got
  PROVE  DataOK(Peer(p), o, g)
  <1> DEFINE q == Peer(p)
  <1>0. q \in Ends /\ Peer(q) = p
    BY PeerEnds
  <1>1. Got(p, g) = Got(p, e)
    BY Zenon DEF Got
  <1>2. q = "client" /\ EarlyTaken => EarlyLine(Slots(q, o), HeardTo(p, g), Said(q, o), g.got)
    <2> SUFFICES ASSUME q = "client", EarlyTaken
                 PROVE  EarlyLine(Slots(q, o), HeardTo(p, g), Said(q, o), g.got)
      BY Zenon
    <2>1. EarlyLine(Slots(q, o), HeardTo(p, e), Said(q, o), e.got)
      BY <1>0, DataParts, Zenon
    <2>2. HeardTo(p, g) >= 14 => HeardTo(p, e) >= 14
      <3>1. Spoken(q, 14)
        BY EarlySpoken, Zenon
      <3>2. ~(HeardTo(p, e) < 14 /\ 14 <= HeardTo(p, g))
        BY <3>1 DEF Quiet
      <3> QED BY <3>2 DEF Ranged
    <2> QED BY <2>1, <2>2, EarlyLineParts
  <1> QED BY <1>0, <1>1, <1>2, DataParts, Zenon

\* z is no data, or the data after m; c is sent now.
Counts(z, m, c) == (z = 0 /\ c = m) \/ (z = m + 1 /\ c = m + 1)

\* The numbers of the data, one record more.
LEMMA OrderMore ==
  ASSUME NEW p \in Ends, NEW e, NEW g, NEW o, NEW x, NEW k, NEW c, Grows(p, e, g, x, k), DataOK(p, e, o),
         Counts(DataNo(k, x), e.sent, c)
  PROVE  InOrder(Numbers(p, g), Got(Peer(p), o), c) /\ Got(Peer(p), o) <= c /\ c \in Nat
  <1> DEFINE n == Got(Peer(p), o)
             D == Numbers(p, e)
             z == DataNo(k, x)
             m == e.sent
  <1>1. NumbersOK(p, e) /\ InOrder(D, n, m) /\ m \in Nat /\ n <= m /\ Delivered(Peer(p), o.got)
    BY DataParts, Zenon DEF Grows
  <1>2. n \in Nat
    BY <1>1, GotNat, Zenon
  <1>3. Counts(z, m, c)
    BY Zenon
  <1>7. z \in Nat /\ c \in Nat
    <2> HIDE DEF z, m
    <2> QED BY <1>1, <1>3 DEF Counts
  <1>4. D \in Seq(Nat) /\ Numbers(p, g) = Append(D, z)
    BY <1>1, <1>7, NumbersMore
  <1> HIDE DEF n, D, z, m
  <1>5. InOrder(Append(D, z), n, c)
    <2>1. (z = 0 /\ c = m) \/ (z = m + 1 /\ c = m + 1)
      BY <1>3, Zenon DEF Counts
    <2> QED BY <1>1, <1>2, <1>4, <1>7, <2>1, OrderAppend
  <1>6. n <= c
    <2>1. n <= m /\ n \in Nat /\ m \in Nat /\ (c = m \/ c = m + 1)
      BY <1>1, <1>2, <1>3, Zenon DEF Counts
    <2> QED BY <2>1
  <1> QED BY <1>4, <1>5, <1>6, <1>7, Zenon DEF n

\* The sender goes on from b to d, the line becomes L.
LEMMA EarlyMore ==
  ASSUME NEW K, NEW L, NEW a, NEW b \in 0..104, NEW d \in 0..104, NEW got, b <= d, EarlyLine(K, a, b, got),
         b < 8 => d < 8 \/ Holds8(L), ~(b < 8) => (Holds8(L) <=> Holds8(K))
  PROVE  EarlyLine(L, a, d, got)
  <1>1. /\ got = <<>> /\ b >= 8 => Holds8(K)
        /\ got # <<>> => b >= 8 /\ ~Holds8(K)
        /\ a >= 14 => got # <<>>
    BY EarlyLineParts, Zenon
  <1>2. /\ got = <<>> /\ d >= 8 => Holds8(L)
        /\ got # <<>> => d >= 8 /\ ~Holds8(L)
    BY <1>1
  <1>3. EarlyLine(L, a, d, got) <=> /\ got = <<>> /\ d >= 8 => Holds8(L)
                                    /\ got # <<>> => d >= 8 /\ ~Holds8(L)
                                    /\ a >= 14 => got # <<>>
    BY EarlyLineParts, Zenon
  <1> QED BY <1>1, <1>2, <1>3, Zenon

\* The early data is what p sends when it passes 8.
Only8(p, k, b, d) == p = "client" /\ EarlyTaken /\ b < 8 /\ d >= 8 => k = 8

\* p sends a message.
LEMMA DataSend ==
  ASSUME NEW p \in Ends, NEW e, NEW g, NEW o, NEW x, NEW k, Grows(p, e, g, x, k), DataOK(p, e, o),
         Ranged(p, e), Ranged(p, g),
         k # 100, g.sent = e.sent, Said(p, e) < k, k <= Said(p, g), Only8(p, k, Said(p, e), Said(p, g))
  PROVE  DataOK(p, g, o)
  <1>1. InOrder(Numbers(p, g), Got(Peer(p), o), g.sent) /\ Got(Peer(p), o) <= g.sent /\ g.sent \in Nat
    <2>1. Counts(DataNo(k, x), e.sent, g.sent)
      BY Zenon DEF DataNo, Counts
    <2> QED BY <2>1, OrderMore, Zenon
  <1>0. Slots(p, e) \in Seq(Nat) /\ k \in Nat /\ Slots(p, g) = Append(Slots(p, e), k)
    BY SlotsMore
  <1>2. p = "client" /\ EarlyTaken => EarlyLine(Slots(p, g), HeardTo(Peer(p), o), Said(p, g), o.got)
    <2> SUFFICES ASSUME p = "client", EarlyTaken
                 PROVE  EarlyLine(Slots(p, g), HeardTo(Peer(p), o), Said(p, g), o.got)
      BY Zenon
    <2> DEFINE K == Slots(p, e)
               a == HeardTo(Peer(p), o)
               b == Said(p, e)
               d == Said(p, g)
               got == o.got
    <2>1. EarlyLine(K, a, b, got)
      BY DataParts, Zenon DEF Grows
    <2>2. K \in Seq(Nat) /\ k \in Nat /\ Slots(p, g) = Append(K, k)
      BY <1>0, Zenon
    <2>3. b \in 0..104 /\ d \in 0..104 /\ b < k /\ k <= d /\ (b < 8 /\ d >= 8 => k = 8)
      BY DEF Ranged, Only8
    <2> HIDE DEF K, a, b, d, got
    <2>4. Holds8(Append(K, k)) <=> Holds8(K) \/ k = 8
      BY <2>2, HoldsAppend, Zenon
    <2>5. /\ b <= d /\ (b < 8 => d < 8 \/ Holds8(Append(K, k)))
          /\ ~(b < 8) => (Holds8(Append(K, k)) <=> Holds8(K))
      BY <2>2, <2>3, <2>4
    <2>6. EarlyLine(Append(K, k), a, d, got)
      BY <2>1, <2>3, <2>5, EarlyMore, Zenon
    <2> QED BY <2>2, <2>6, Zenon DEF a, d, got
  <1> QED BY <1>1, <1>2, DataParts, Zenon DEF Grows

IsLate(k) == k = 100

\* p sends data or a ticket.
LEMMA DataLate ==
  ASSUME NEW p \in Ends, NEW e, NEW g, NEW o, NEW x, NEW k, IsLate(k), Grows(p, e, g, x, k), DataOK(p, e, o),
         \/ x.type # "data" /\ g.sent = e.sent
         \/ x.type = "data" /\ x.msg = e.sent + 1 /\ g.sent = e.sent + 1,
         Said(p, g) = Said(p, e)
  PROVE  DataOK(p, g, o)
  <1>1. InOrder(Numbers(p, g), Got(Peer(p), o), g.sent) /\ Got(Peer(p), o) <= g.sent /\ g.sent \in Nat
    <2>1. Counts(DataNo(k, x), e.sent, g.sent)
      BY DEF DataNo, Counts, IsLate
    <2> DEFINE c == g.sent
               z == DataNo(k, x)
    <2> HIDE DEF c, z
    <2>2. Counts(DataNo(k, x), e.sent, c)
      BY <2>1, Zenon DEF c
    <2> QED BY <2>2, OrderMore, Zenon DEF c
  <1>0. Slots(p, e) \in Seq(Nat) /\ k \in Nat /\ Slots(p, g) = Append(Slots(p, e), k)
    BY SlotsMore
  <1>2. p = "client" /\ EarlyTaken => EarlyLine(Slots(p, g), HeardTo(Peer(p), o), Said(p, g), o.got)
    <2> SUFFICES ASSUME p = "client", EarlyTaken
                 PROVE  EarlyLine(Slots(p, g), HeardTo(Peer(p), o), Said(p, g), o.got)
      BY Zenon
    <2> DEFINE K == Slots(p, e)
               a == HeardTo(Peer(p), o)
               b == Said(p, e)
               got == o.got
    <2>1. EarlyLine(K, a, b, got)
      BY DataParts, Zenon DEF Grows
    <2>2. K \in Seq(Nat) /\ k \in Nat /\ Slots(p, g) = Append(K, k)
      BY <1>0, Zenon
    <2> HIDE DEF K, a, b, got
    <2>3. k # 8
      BY DEF IsLate
    <2>4. Holds8(Append(K, k)) <=> Holds8(K)
      BY <2>2, <2>3, HoldsAppend, Zenon
    <2>5. EarlyLine(Append(K, k), a, b, got)
      <3> DEFINE L == Append(K, k)
      <3>1. EarlyLine(L, a, b, got) <=> EarlyLine(K, a, b, got)
        BY <2>4, EarlyLineParts, Zenon
      <3> QED BY <2>1, <3>1, Zenon
    <2> QED BY <2>2, <2>5, Zenon DEF a, b, got
  <1> QED BY <1>1, <1>2, DataParts, Zenon DEF Grows

-----------------------------------------------------------------------------
(* What is read.                                                             *)

\* Reading a record takes the first number away.
LEMMA SlotsLess ==
  ASSUME NEW p \in Ends, NEW o, NEW h, NEW q, q = Peer(p), Consumed(p, o, h)
  PROVE  /\ Slots(q, o) \in Seq(Nat) /\ Slots(q, o) # <<>> /\ Slots(q, o)[1] = FirstNo(p, o)
         /\ Slots(q, h) = Tail(Slots(q, o))
         /\ Buffers(o) /\ Buffers(h) /\ Said(q, h) = Said(q, o)
  BY SlotsTail DEF Consumed, FirstNo, Less

\* And the first data number.
LEMMA NumbersLess ==
  ASSUME NEW p \in Ends, NEW o, NEW h, NEW q, q = Peer(p), Consumed(p, o, h), NumbersOK(q, o)
  PROVE  /\ Numbers(q, o) \in Seq(Nat) /\ Numbers(q, o) # <<>>
         /\ Numbers(q, o)[1] = DataNo(FirstNo(p, o), Unread(o)[1])
         /\ Numbers(q, h) = Tail(Numbers(q, o))
  <1>1. Buffers(o) /\ Buffers(h) /\ Unread(o) # <<>> /\ Unread(h) = Tail(Unread(o)) /\ First1(q, h) = First1(q, o)
    BY Zenon DEF Consumed
  <1>2. Less(q, o, h)
    BY <1>1, SlotsTail, Zenon
  <1> QED BY <1>2, Zenon DEF Less, FirstNo

\* The record that is read is what its number says.
LEMMA ItemLess ==
  ASSUME NEW p \in Ends, NEW o, NEW h, NEW q, q = Peer(p), Consumed(p, o, h), Items(q, o)
  PROVE  Item(q, FirstNo(p, o), Unread(o)[1])
  BY SlotsTail DEF Consumed, FirstNo, Less

\* What p was given with the next data added.
LEMMA DeliverMore ==
  ASSUME NEW p, NEW got, Delivered(p, got), NEW x, x = Len(got) + 1 - Skew(p)
  PROVE  /\ Delivered(p, Append(got, x)) /\ Len(Append(got, x)) = Len(got) + 1 /\ Len(got) \in Nat
         /\ Append(got, x) # <<>>
  <1>1. IsSeq(got)
    BY DEF Delivered
  <1>2. /\ Len(got) \in Nat /\ Len(Append(got, x)) = Len(got) + 1 /\ Append(got, x)[Len(got) + 1] = x
        /\ \A i \in 1..Len(got) : Append(got, x)[i] = got[i]
    BY <1>1, ListAppend, ZenonT(40)
  <1>3. IsSeq(Append(got, x))
    BY <1>1, AppendSeq, Zenon
  <1>4. ASSUME NEW i \in 1..(Len(got) + 1) PROVE Append(got, x)[i] = i - Skew(p)
    <2>1. \A j \in 1..Len(got) : got[j] = j - Skew(p)
      BY Zenon DEF Delivered
    <2>2. i \in 1..Len(got) \/ i = Len(got) + 1
      BY <1>2
    <2>3. CASE i \in 1..Len(got)
      BY <1>2, <2>1, <2>3, Zenon
    <2>4. CASE i = Len(got) + 1
      <3>1. Append(got, x)[i] = x
        BY <1>2, <2>4, Zenon
      <3>2. Skew(p) \in Int
        BY DEF Skew
      <3> QED BY <1>2, <2>4, <3>1, <3>2
    <2> QED BY <2>2, <2>3, <2>4
  <1>5. Append(got, x) # <<>>
    BY <1>1 DEF IsSeq
  <1> QED BY <1>2, <1>3, <1>4, <1>5, Zenon DEF Delivered

\* Nothing but early data has number 8, and it does not come after 14 or 100.
LEMMA No8After ==
  ASSUME NEW K \in Seq(Nat), K # <<>>, Ordered(K), K[1] > 8
  PROVE  ~Holds8(K)
  <1>1. Len(K) \in Nat /\ \A i \in 1..Len(K) : K[i] \in Nat
    OBVIOUS
  <1> SUFFICES ASSUME NEW i \in 1..Len(K), K[i] = 8 PROVE FALSE
    BY Zenon DEF Holds8
  <1>2. i # 1 /\ 1 < i /\ 1 \in 1..Len(K)
    BY <1>1
  <1>3. Before(K[1], K[i])
    BY <1>2 DEF Ordered
  <1> QED BY <1>1, <1>2, <1>3 DEF Before

\* The first of a line is in range.
LEMMA LineParts ==
  ASSUME NEW p, NEW K \in Seq(Nat), K # <<>>, NEW a, NEW b, Line(p, K, a, b)
  PROVE  Ordered(K) /\ InRange(p, K[1], a, b)
  <1>1. 1 \in 1..Len(K)
    BY Shorter
  <1> QED BY <1>1, Zenon DEF Line

\* p reads a message of o.
LEMMA DataHear ==
  ASSUME NEW p \in Ends, NEW e, NEW g, NEW o, NEW h, NEW k, NEW q, q = Peer(p), Versions, Modern,
         Flow(q, o, e), DataOK(q, o, e),
         Ranged(p, e), Ranged(p, g), Ranged(q, o), Consumed(p, o, h), k = FirstNo(p, o),
         Spoken(q, k), Alone(q, k, HeardTo(p, e), HeardTo(p, g)), g.got = e.got, h.sent = o.sent
  PROVE  DataOK(q, h, g)
  <1> DEFINE K == Slots(q, o)
             D == Numbers(q, o)
             n == Got(p, e)
             m == o.sent
             a == HeardTo(p, e)
             b == Said(q, o)
             c == HeardTo(p, g)
             got == e.got
  <1>0. q \in Ends /\ Peer(q) = p
    BY PeerEnds
  <1>1. a \in 0..104 /\ b \in 0..104 /\ c \in 0..104
    BY DEF Ranged
  <1>2. Line(q, K, a, b)
    BY <1>0, Zenon DEF Flow
  <1>3. /\ K \in Seq(Nat) /\ K # <<>> /\ K[1] = k /\ Slots(q, h) = Tail(K)
        /\ Buffers(o) /\ Buffers(h) /\ Said(q, h) = b
    BY SlotsLess
  <1>4. /\ NumbersOK(q, o) /\ m \in Nat /\ n <= m /\ Delivered(p, got) /\ InOrder(D, n, m)
        /\ (q = "client" /\ EarlyTaken => EarlyLine(K, a, b, got))
    BY <1>0, <1>3, DataParts, Zenon
  <1>5. n \in Nat
    BY <1>4, GotNat, Zenon
  <1>6. k \in 1..104 /\ k # 100
    BY <1>0, Numbered DEF Spoken
  <1>7. D \in Seq(Nat) /\ D # <<>> /\ D[1] = 0 /\ Numbers(q, h) = Tail(D)
    <2>1. D[1] = DataNo(k, Unread(o)[1]) /\ D \in Seq(Nat) /\ D # <<>> /\ Numbers(q, h) = Tail(D)
      BY <1>4, NumbersLess
    <2>2. DataNo(k, Unread(o)[1]) = 0
      BY <1>6, Zenon DEF DataNo
    <2> QED BY <2>1, <2>2, Zenon
  <1>8. Got(p, g) = n /\ g.got = got /\ h.sent = m
    BY Zenon DEF Got
  <1>9. Ordered(K) /\ InRange(q, k, a, b)
    BY <1>2, <1>3, LineParts, Zenon
  <1> HIDE DEF K, D, n, m, a, b, c, got
  <1>10. InOrder(Tail(D), n, m)
    BY <1>4, <1>5, <1>7, OrderTail, Zenon
  <1>11. q = "client" /\ EarlyTaken => EarlyLine(Tail(K), c, b, got)
    <2> SUFFICES ASSUME q = "client", EarlyTaken PROVE EarlyLine(Tail(K), c, b, got)
      BY Zenon
    <2>1. Spoken(q, 14) /\ ~Spoken(q, 8)
      BY EarlySpoken, Zenon
    <2>2. k # 8
      BY <2>1
    <2>3. Holds8(Tail(K)) <=> Holds8(K)
      BY <1>3, <1>9, <2>2, HoldsTail, Zenon
    <2>4. /\ got = <<>> /\ b >= 8 => Holds8(K)
          /\ got # <<>> => b >= 8 /\ ~Holds8(K)
          /\ a >= 14 => got # <<>>
      BY <1>4, EarlyLineParts, Zenon
    <2>5. c >= 14 => got # <<>>
      <3> SUFFICES ASSUME c >= 14, ~(a >= 14) PROVE got # <<>>
        BY <2>4
      <3>1. Alone(q, k, a, c)
        BY Zenon DEF a, c
      <3>2. k = 14
        BY <1>1, <2>1, <3>1 DEF Alone
      <3>3. b >= 8
        BY <1>1, <1>9, <3>2 DEF InRange
      <3>4. ~Holds8(K)
        BY <1>3, <1>9, <3>2, No8After
      <3> QED BY <2>4, <3>3, <3>4, Zenon
    <2>6. EarlyLine(Tail(K), c, b, got) <=> /\ got = <<>> /\ b >= 8 => Holds8(Tail(K))
                                            /\ got # <<>> => b >= 8 /\ ~Holds8(Tail(K))
                                            /\ c >= 14 => got # <<>>
      BY EarlyLineParts, Zenon
    <2> QED BY <2>3, <2>4, <2>5, <2>6, Zenon
  <1>12. InOrder(Numbers(q, h), Got(p, g), h.sent) /\ Got(p, g) <= h.sent /\ h.sent \in Nat /\ Delivered(p, g.got)
    BY <1>4, <1>7, <1>8, <1>10, Zenon
  <1>13. q = "client" /\ EarlyTaken => EarlyLine(Slots(q, h), HeardTo(p, g), Said(q, h), g.got)
    BY <1>3, <1>8, <1>11, Zenon DEF c
  <1> QED BY <1>0, <1>3, <1>12, <1>13, DataParts, Zenon

\* What the application is given of record x with number k.
Gains(k, x, got) == IF k = 8 /\ EarlyTaken THEN Append(got, EarlyData)
                    ELSE IF k = 100 /\ x.type = "data" THEN Append(got, x.msg) ELSE got

\* What is given, in numbers.
Given(p, got) == IF Len(got) < Skew(p) THEN 0 ELSE Len(got) - Skew(p)

\* The early data are delivered first.
LEMMA GivenEarly ==
  ASSUME NEW p \in Ends, NEW got, Delivered(p, got), Len(got) = 0, Skew(p) = 1
  PROVE  LET new == Append(got, 0)
         IN  Given(p, new) = Given(p, got) /\ Delivered(p, new) /\ new # <<>>
  <1> DEFINE z == 0
  <1>1. Len(got) = 0 /\ z = Len(got) + 1 - Skew(p)
    OBVIOUS
  <1>2. /\ Delivered(p, Append(got, 0)) /\ Len(Append(got, 0)) = Len(got) + 1 /\ Append(got, 0) # <<>>
    <2> HIDE DEF z
    <2>1. /\ Delivered(p, Append(got, z)) /\ Len(Append(got, z)) = Len(got) + 1 /\ Append(got, z) # <<>>
      BY <1>1, DeliverMore, Zenon
    <2> QED BY <2>1, Zenon DEF z
  <1> QED BY <1>1, <1>2 DEF Given

\* The next data are delivered.
LEMMA GivenNext ==
  ASSUME NEW p \in Ends, NEW got, Delivered(p, got), Skew(p) = 1 => got # <<>>, NEW x, x = Given(p, got) + 1
  PROVE  LET new == Append(got, x)
         IN  Given(p, new) = Given(p, got) + 1 /\ Delivered(p, new) /\ new # <<>>
  <1>1. IsSeq(got) /\ Skew(p) \in {0, 1}
    BY DEF Delivered, Skew
  <1>2. Len(got) \in Nat /\ (got = <<>> <=> Len(got) = 0)
    BY <1>1 DEF IsSeq
  <1>3. Given(p, got) = Len(got) - Skew(p) /\ x = Len(got) + 1 - Skew(p)
    BY <1>1, <1>2 DEF Given
  <1>4. Delivered(p, Append(got, x)) /\ Len(Append(got, x)) = Len(got) + 1 /\ Append(got, x) # <<>>
    BY <1>3, DeliverMore
  <1> QED BY <1>1, <1>2, <1>3, <1>4 DEF Given

\* p reads data, a ticket or what it takes in silence.
LEMMA DataDrop ==
  ASSUME NEW p \in Ends, NEW e, NEW g, NEW o, NEW h, NEW k, NEW q, q = Peer(p), Versions, Modern,
         Flow(q, o, e), DataOK(q, o, e),
         Ranged(p, e), Ranged(q, o), Consumed(p, o, h), k = FirstNo(p, o),
         k = 100 \/ Silent(k), HeardTo(p, g) = HeardTo(p, e), h.sent = o.sent,
         g.got = Gains(k, Unread(o)[1], e.got)
  PROVE  DataOK(q, h, g)
  <1> DEFINE K == Slots(q, o)
             D == Numbers(q, o)
             n == Got(p, e)
             m == o.sent
             a == HeardTo(p, e)
             b == Said(q, o)
             got == e.got
             new == g.got
             x == Unread(o)[1]
  <1>0. q \in Ends /\ Peer(q) = p
    BY PeerEnds
  <1>1. a \in 0..104 /\ b \in 0..104
    BY DEF Ranged
  <1>2. Line(q, K, a, b) /\ Items(q, o)
    BY <1>0, Zenon DEF Flow
  <1>3. /\ K \in Seq(Nat) /\ K # <<>> /\ K[1] = k /\ Slots(q, h) = Tail(K)
        /\ Buffers(o) /\ Buffers(h) /\ Said(q, h) = b
    BY SlotsLess
  <1>4. /\ NumbersOK(q, o) /\ m \in Nat /\ n <= m /\ Delivered(p, got) /\ InOrder(D, n, m)
        /\ (q = "client" /\ EarlyTaken => EarlyLine(K, a, b, got))
    BY <1>0, <1>3, DataParts, Zenon
  <1>5. n \in Nat
    BY <1>4, GotNat, Zenon
  <1>6. Item(q, k, x)
    BY <1>2, ItemLess
  <1>7. D \in Seq(Nat) /\ D # <<>> /\ D[1] = DataNo(k, x) /\ Numbers(q, h) = Tail(D)
    BY <1>4, NumbersLess
  <1>8. Ordered(K) /\ InRange(q, k, a, b)
    BY <1>2, <1>3, LineParts, Zenon
  <1>9. k = 8 => q = "client" /\ Silent(8) /\ b >= 8
    <2> SUFFICES ASSUME k = 8 PROVE q = "client" /\ Silent(8) /\ b >= 8
      OBVIOUS
    <2>1. Silent(8)
      OBVIOUS
    <2>2. Sends(q, 8) /\ 8 <= b
      BY <1>8 DEF InRange
    <2>3. Version = "13"
      BY <2>1, Zenon DEF Silent
    <2>4. q = "client"
      BY <1>0, <2>2, <2>3 DEF Sends, Ends
    <2> QED BY <1>1, <2>1, <2>2, <2>4
  <1>10. k = 100 => b >= LastOwn(q)
    BY <1>8 DEF InRange
  <1>11. q = "client" <=> p = "server"
    BY <1>0 DEF Ends, Peer
  <1>12. g.got = Gains(k, x, got)
    BY Zenon
  <1>17. n = Given(p, got) /\ Got(p, g) = Given(p, new)
    BY Zenon DEF Got, Given
  <1> HIDE DEF K, D, n, m, a, b, got, x, new
  <1>13. /\ InOrder(Tail(D), Got(p, g), m) /\ Got(p, g) <= m /\ Delivered(p, new)
         /\ q = "client" /\ EarlyTaken => EarlyLine(Tail(K), a, b, new)
    <2>1. q = "client" /\ EarlyTaken =>
            /\ got = <<>> /\ b >= 8 => Holds8(K)
            /\ got # <<>> => b >= 8 /\ ~Holds8(K)
            /\ a >= 14 => got # <<>>
      BY <1>4, EarlyLineParts, Zenon
    <2>2. EarlyLine(Tail(K), a, b, new) <=> /\ new = <<>> /\ b >= 8 => Holds8(Tail(K))
                                            /\ new # <<>> => b >= 8 /\ ~Holds8(Tail(K))
                                            /\ a >= 14 => new # <<>>
      BY EarlyLineParts, Zenon
    <2>3. /\ k # 8 => (Holds8(Tail(K)) <=> Holds8(K))
          /\ k = 8 => ~Holds8(Tail(K)) /\ Holds8(K)
      BY <1>3, <1>8, HoldsTail, Zenon
    <2>4. IF D[1] = 0 THEN InOrder(Tail(D), n, m)
          ELSE D[1] = n + 1 /\ n + 1 <= m /\ InOrder(Tail(D), n + 1, m)
      BY <1>4, <1>5, <1>7, OrderTail, Zenon
    <2>5. CASE k = 8 /\ EarlyTaken
      <3>1. got = <<>> /\ Skew(p) = 1
        <4>1. q = "client" /\ p = "server"
          BY <1>9, <1>11, <2>5, Zenon
        <4>2. got = <<>>
          BY <2>1, <2>3, <2>5, <4>1, Zenon
        <4> QED BY <2>5, <4>1, <4>2, Zenon DEF Skew
      <3>2. g.got = Append(got, 0)
        BY <1>12, <2>5, Zenon DEF Gains, EarlyData
      <3>3. Got(p, g) = n /\ Delivered(p, new) /\ new # <<>>
        <4>1. Given(p, Append(got, 0)) = Given(p, got) /\ Delivered(p, Append(got, 0)) /\ Append(got, 0) # <<>>
          <5>1. Len(got) = 0
            BY <3>1
          <5> QED BY <1>4, <3>1, <5>1, GivenEarly
        <4> QED BY <1>17, <3>2, <4>1, Zenon DEF new
      <3>4. D[1] = 0
        BY <1>7, <2>5 DEF DataNo
      <3> QED BY <1>4, <1>9, <2>2, <2>3, <2>4, <2>5, <3>3, <3>4, Zenon
    <2>6. CASE k = 100 /\ x.type = "data"
      <3>1. D[1] # 0 /\ D[1] = x.msg
        BY <1>6, <1>7, <2>6 DEF DataNo, Item
      <3>2. EarlyTaken /\ q = "client" => got # <<>>
        <4> SUFFICES ASSUME EarlyTaken, q = "client" PROVE got # <<>>
          BY Zenon
        <4>1. LastOwn(q) = 17
          BY EarlySpoken, Zenon
        <4>2. b >= 8
          BY <1>1, <1>10, <2>6, <4>1
        <4>3. ~Holds8(K)
          BY <1>3, <1>8, <2>6, No8After
        <4> QED BY <2>1, <4>2, <4>3, Zenon
      <3>3. Skew(p) = 1 => got # <<>>
        BY <1>11, <3>2 DEF Skew
      <3>4. k # 8
        BY <2>6
      <3>5. g.got = Append(got, x.msg)
        BY <1>12, <2>6, <3>4, Zenon DEF Gains
      <3>6. x.msg = n + 1
        BY <2>4, <3>1, Zenon
      <3>7. Got(p, g) = n + 1 /\ Delivered(p, new) /\ new # <<>>
        <4> DEFINE z == x.msg
        <4>1. z = Given(p, got) + 1
          BY <1>17, <3>6, Zenon
        <4> HIDE DEF z
        <4>2. Given(p, Append(got, z)) = Given(p, got) + 1 /\ Delivered(p, Append(got, z)) /\ Append(got, z) # <<>>
          BY <1>4, <3>3, <4>1, GivenNext
        <4>3. g.got = Append(got, z)
          BY <3>5, Zenon DEF z
        <4> QED BY <1>17, <4>2, <4>3, Zenon DEF new
      <3> QED BY <2>1, <2>2, <2>3, <2>4, <3>1, <3>2, <3>4, <3>7, Zenon
    <2>7. CASE ~(k = 8 /\ EarlyTaken) /\ ~(k = 100 /\ x.type = "data")
      <3>1. new = got /\ Got(p, g) = n
        BY <1>12, <2>7, Zenon DEF Gains, Got, got, new, n
      <3>2. D[1] = 0
        BY <1>7, <2>7, Zenon DEF DataNo
      <3> QED BY <1>4, <2>1, <2>2, <2>3, <2>4, <2>7, <3>1, <3>2, Zenon
    <2> QED BY <2>5, <2>6, <2>7, Zenon
  <1>14. InOrder(Numbers(q, h), Got(p, g), h.sent) /\ Got(p, g) <= h.sent /\ h.sent \in Nat /\ Delivered(p, g.got)
    BY <1>4, <1>7, <1>13, Zenon DEF m, new
  <1>15. q = "client" /\ EarlyTaken => EarlyLine(Slots(q, h), HeardTo(p, g), Said(q, h), g.got)
    BY <1>3, <1>13, Zenon DEF a, new
  <1> QED BY <1>0, <1>3, <1>14, <1>15, DataParts, Zenon

-----------------------------------------------------------------------------
(* The places, in numbers.                                                   *)

\* The numbers at a place of the initial handshake.
LEMMA SaidRange ==
  ASSUME NEW p \in Ends, NEW n \in Places(p), Three
  PROVE  SaidAt(p, n) \in 0..17 /\ HeardAt(p, n) \in 0..17
  <1>1. p = "client" => SaidAt(p, n) \in 0..17
    BY DEF SaidAt, Three, Places, EndPlace
  <1>2. p = "server" => SaidAt(p, n) \in 0..17
    BY DEF SaidAt, Three, Places, EndPlace
  <1>3. p = "client" => HeardAt(p, n) \in 0..17
    BY DEF HeardAt, Three, Places, EndPlace
  <1>4. p = "server" => HeardAt(p, n) \in 0..17
    BY DEF HeardAt, Three, Places, EndPlace
  <1> QED BY <1>1, <1>2, <1>3, <1>4 DEF Ends

\* What p speaks between two places is one message.
LEMMA SaidNext ==
  ASSUME NEW p \in Ends, NEW n \in Nat, NEW m \in Nat, Three, Follows(p, n, m) \/ Jumps(p, n, m)
  PROVE  /\ SaidAt(p, n) <= SaidAt(p, m)
         /\ Alone(p, SaidAt(p, m), SaidAt(p, n), SaidAt(p, m))
  <1>1. CASE Version = "13" /\ p = "client"
    BY <1>1 DEF SaidAt, Alone, Spoken, Sends, Silent, Follows, Jumps, EndPlace
  <1>2. CASE Version = "13" /\ p = "server"
    <2>1. SaidAt(p, n) <= SaidAt(p, m)
      BY <1>2 DEF SaidAt, Follows, Jumps, EndPlace
    <2>2. ASSUME NEW j \in 1..104, Spoken(p, j), SaidAt(p, n) < j, j <= SaidAt(p, m) PROVE j = SaidAt(p, m)
      BY <1>2, <2>2 DEF SaidAt, Spoken, Sends, Silent, Follows, Jumps, EndPlace
    <2> QED BY <2>1, <2>2, Zenon DEF Alone
  <1>3. CASE Version = "12" /\ p = "client"
    BY <1>3 DEF SaidAt, Alone, Spoken, Sends, Silent, Follows, Jumps, EndPlace
  <1>4. CASE Version = "12" /\ p = "server"
    BY <1>4 DEF SaidAt, Alone, Spoken, Sends, Silent, Follows, Jumps, EndPlace
  <1>5. CASE Version = "12r"
    BY <1>5 DEF SaidAt, Alone, Spoken, Sends, Silent, Follows, Jumps, EndPlace, Ends
  <1> QED BY <1>1, <1>2, <1>3, <1>4, <1>5 DEF Three, Ends

\* At most one message is heard from one place to the next.
LEMMA HeardNext ==
  ASSUME NEW p \in Ends, NEW n \in Nat, NEW m \in Nat, Three, Follows(p, n, m) \/ Jumps(p, n, m)
  PROVE  /\ HeardAt(p, n) <= HeardAt(p, m)
         /\ Alone(Peer(p), HeardAt(p, m), HeardAt(p, n), HeardAt(p, m))
  <1>1. CASE Version = "13" /\ p = "client"
    BY <1>1 DEF HeardAt, Alone, Spoken, Sends, Silent, Follows, Jumps, EndPlace, Peer
  <1>2. CASE Version = "13" /\ p = "server"
    BY <1>2 DEF HeardAt, Alone, Spoken, Sends, Silent, Follows, Jumps, EndPlace, Peer
  <1>3. CASE Version = "12" /\ p = "client"
    BY <1>3 DEF HeardAt, Alone, Spoken, Sends, Silent, Follows, Jumps, EndPlace, Peer
  <1>4. CASE Version = "12" /\ p = "server"
    BY <1>4 DEF HeardAt, Alone, Spoken, Sends, Silent, Follows, Jumps, EndPlace, Peer
  <1>5. CASE Version = "12r"
    BY <1>5 DEF HeardAt, Alone, Spoken, Sends, Silent, Follows, Jumps, EndPlace, Ends, Peer
  <1> QED BY <1>1, <1>2, <1>3, <1>4, <1>5 DEF Three, Ends

-----------------------------------------------------------------------------
(* The steps that are skipped.                                               *)

\* What is skipped under TLS 1.3.
LEMMA SkipsClient13 ==
  ASSUME NEW e, e.prog = "13", Version = "13", e.pc \in 4..18, FlagsAt("client", e, e.pc + 10), ~e.done
  PROVE  Skips("client", e, At("client", e)) <=> SkipAt("client", e.pc + 10)
  BY Client13Steps DEF Skips, SkipAt, S, FlagsAt, ClientFlags, Certs, Psk, Asked, EarlySent, EarlyTaken

\* The steps that a TLS 1.3 server skips.
LEMMA SkipsServer13 ==
  ASSUME NEW e, e.prog = "13", Version = "13", e.pc \in 2..23, FlagsAt("server", e, e.pc + 10), ~e.done
  PROVE  /\ Skips("server", e, At("server", e)) => SkipAt("server", e.pc + 10)
         /\ SkipAt("server", e.pc + 10) /\ e.pc \notin {17, 23} => Skips("server", e, At("server", e))
  BY Server13Steps DEF Skips, SkipAt, S, FlagsAt, ServerFlags, Certs, Psk, Asked, EarlySent, EarlyTaken

\* What is skipped under TLS 1.2.
LEMMA SkipsClient12 ==
  ASSUME NEW e, e.prog = "12", Version = "12", e.pc \in 4..17, FlagsAt("client", e, e.pc + 10), ~e.done
  PROVE  Skips("client", e, At("client", e)) <=> SkipAt("client", e.pc + 10)
  BY Client12Steps DEF Skips, SkipAt, S, FlagsAt, ClientFlags, Certs, Psk, Asked

\* Those that a TLS 1.2 server skips.
LEMMA SkipsServer12 ==
  ASSUME NEW e, e.prog = "12", Version = "12", e.pc \in 2..15, FlagsAt("server", e, e.pc + 10),
         e.done => e.pc >= 12
  PROVE  Skips("server", e, At("server", e)) <=> SkipAt("server", e.pc + 10)
  BY Server12Steps DEF Skips, SkipAt, S, FlagsAt, ServerFlags, Certs, Psk, Asked

\* Those that a client skips when a TLS 1.2 session is resumed.
LEMMA SkipsClient12r ==
  ASSUME NEW e, e.prog = "12r", Version = "12r", e.pc \in 4..9, FlagsAt("client", e, e.pc + 10)
  PROVE  Skips("client", e, At("client", e)) <=> SkipAt("client", e.pc + 10)
  BY Client12Steps DEF Skips, SkipAt, S, FlagsAt, ClientFlags, Certs, Psk, Asked

\* And the server.
LEMMA SkipsServer12r ==
  ASSUME NEW e, e.prog = "12r", Version = "12r", e.pc \in 2..8, FlagsAt("server", e, e.pc + 10)
  PROVE  Skips("server", e, At("server", e)) <=> SkipAt("server", e.pc + 10)
  BY Server12Steps DEF Skips, SkipAt, S, FlagsAt, ServerFlags, Certs, Psk, Asked

\* The hellos are not skipped.
LEMMA SkipsStart ==
  ASSUME NEW p \in Ends, NEW e, e.prog = "start", e.pc \in (IF p = "client" THEN 1..3 ELSE {1})
  PROVE  ~Skips(p, e, At(p, e))
  BY StartSteps DEF Skips, S, Ends, Certs

\* An idle step says nothing and hears nothing.
LEMMA IdleSame ==
  ASSUME NEW p \in Ends, NEW n \in Nat, Three, IdleAt(p, n)
  PROVE  SaidAt(p, n + 1) = SaidAt(p, n) /\ HeardAt(p, n + 1) = HeardAt(p, n)
  <1>1. CASE p = "client"
    BY <1>1 DEF IdleAt, SaidAt, HeardAt, Three
  <1>2. CASE p = "server"
    BY <1>2 DEF IdleAt, SaidAt, HeardAt, Three
  <1> QED BY <1>1, <1>2 DEF Ends

\* What is skipped is not spoken.
LEMMA SkipSame ==
  ASSUME NEW p \in Ends, NEW n \in Nat, Three, Modern, SkipAt(p, n)
  PROVE  /\ SaidAt(p, n + 1) = SaidAt(p, n) \/ ~Spoken(p, SaidAt(p, n + 1))
         /\ HeardAt(p, n + 1) = HeardAt(p, n) \/ ~Spoken(Peer(p), HeardAt(p, n + 1))
         /\ p = "client" /\ EarlyTaken => (SaidAt(p, n) >= 8 <=> SaidAt(p, n + 1) >= 8)
  <1>1. CASE p = "client"
    <2>1. CASE Version = "13"
      <3>1. SaidAt(p, n + 1) = SaidAt(p, n) \/ ~Spoken(p, SaidAt(p, n + 1))
        BY <1>1, <2>1 DEF SkipAt, SaidAt, Spoken, Sends, EarlySent, EarlyTaken, Asked, Psk, Silent
      <3>2. HeardAt(p, n + 1) = HeardAt(p, n) \/ ~Spoken(Peer(p), HeardAt(p, n + 1))
        BY <1>1, <2>1 DEF SkipAt, HeardAt, Spoken, Sends, Peer, EarlySent, EarlyTaken, Asked, Psk, Silent
      <3>3. p = "client" /\ EarlyTaken => (SaidAt(p, n) >= 8 <=> SaidAt(p, n + 1) >= 8)
        BY <1>1, <2>1 DEF SkipAt, SaidAt, EarlySent, EarlyTaken, Modern
      <3> QED BY <3>1, <3>2, <3>3, Zenon
    <2>2. CASE Version = "12"
      <3>1. SaidAt(p, n + 1) = SaidAt(p, n) \/ ~Spoken(p, SaidAt(p, n + 1))
        BY <1>1, <2>2 DEF SkipAt, SaidAt, Spoken, Sends, EarlySent, EarlyTaken, Asked, Psk, Silent
      <3>2. HeardAt(p, n + 1) = HeardAt(p, n) \/ ~Spoken(Peer(p), HeardAt(p, n + 1))
        BY <1>1, <2>2 DEF SkipAt, HeardAt, Spoken, Sends, Peer, EarlySent, EarlyTaken, Asked, Psk, Silent
      <3>3. p = "client" /\ EarlyTaken => (SaidAt(p, n) >= 8 <=> SaidAt(p, n + 1) >= 8)
        BY <1>1, <2>2 DEF SkipAt, SaidAt, EarlySent, EarlyTaken, Modern
      <3> QED BY <3>1, <3>2, <3>3, Zenon
    <2>3. CASE Version = "12r"
      <3>1. SaidAt(p, n + 1) = SaidAt(p, n) \/ ~Spoken(p, SaidAt(p, n + 1))
        BY <1>1, <2>3 DEF SkipAt, SaidAt, Spoken, Sends, EarlySent, EarlyTaken, Asked, Psk, Silent
      <3>2. HeardAt(p, n + 1) = HeardAt(p, n) \/ ~Spoken(Peer(p), HeardAt(p, n + 1))
        BY <1>1, <2>3 DEF SkipAt, HeardAt, Spoken, Sends, Peer, EarlySent, EarlyTaken, Asked, Psk, Silent
      <3>3. p = "client" /\ EarlyTaken => (SaidAt(p, n) >= 8 <=> SaidAt(p, n + 1) >= 8)
        BY <1>1, <2>3 DEF SkipAt, SaidAt, EarlySent, EarlyTaken, Modern
      <3> QED BY <3>1, <3>2, <3>3, Zenon
    <2> QED BY <2>1, <2>2, <2>3, Zenon DEF Three
  <1>2. CASE p = "server"
    <2>1. CASE Version = "13"
      <3>1. SaidAt(p, n + 1) = SaidAt(p, n) \/ ~Spoken(p, SaidAt(p, n + 1))
        BY <1>2, <2>1 DEF SkipAt, SaidAt, Spoken, Sends, EarlySent, EarlyTaken, Asked, Psk, Silent
      <3>2. HeardAt(p, n + 1) = HeardAt(p, n) \/ ~Spoken(Peer(p), HeardAt(p, n + 1))
        BY <1>2, <2>1 DEF SkipAt, HeardAt, Spoken, Sends, Peer, EarlySent, EarlyTaken, Asked, Psk, Silent
      <3>3. p = "client" /\ EarlyTaken => (SaidAt(p, n) >= 8 <=> SaidAt(p, n + 1) >= 8)
        BY <1>2, <2>1 DEF SkipAt, SaidAt, EarlySent, EarlyTaken, Modern
      <3> QED BY <3>1, <3>2, <3>3, Zenon
    <2>2. CASE Version = "12"
      <3>1. SaidAt(p, n + 1) = SaidAt(p, n) \/ ~Spoken(p, SaidAt(p, n + 1))
        BY <1>2, <2>2 DEF SkipAt, SaidAt, Spoken, Sends, EarlySent, EarlyTaken, Asked, Psk, Silent
      <3>2. HeardAt(p, n + 1) = HeardAt(p, n) \/ ~Spoken(Peer(p), HeardAt(p, n + 1))
        BY <1>2, <2>2 DEF SkipAt, HeardAt, Spoken, Sends, Peer, EarlySent, EarlyTaken, Asked, Psk, Silent
      <3>3. p = "client" /\ EarlyTaken => (SaidAt(p, n) >= 8 <=> SaidAt(p, n + 1) >= 8)
        BY <1>2, <2>2 DEF SkipAt, SaidAt, EarlySent, EarlyTaken, Modern
      <3> QED BY <3>1, <3>2, <3>3, Zenon
    <2>3. CASE Version = "12r"
      <3>1. SaidAt(p, n + 1) = SaidAt(p, n) \/ ~Spoken(p, SaidAt(p, n + 1))
        BY <1>2, <2>3 DEF SkipAt, SaidAt, Spoken, Sends, EarlySent, EarlyTaken, Asked, Psk, Silent
      <3>2. HeardAt(p, n + 1) = HeardAt(p, n) \/ ~Spoken(Peer(p), HeardAt(p, n + 1))
        BY <1>2, <2>3 DEF SkipAt, HeardAt, Spoken, Sends, Peer, EarlySent, EarlyTaken, Asked, Psk, Silent
      <3>3. p = "client" /\ EarlyTaken => (SaidAt(p, n) >= 8 <=> SaidAt(p, n + 1) >= 8)
        BY <1>2, <2>3 DEF SkipAt, SaidAt, EarlySent, EarlyTaken, Modern
      <3> QED BY <3>1, <3>2, <3>3, Zenon
    <2> QED BY <2>1, <2>2, <2>3, Zenon DEF Three
  <1> QED BY <1>1, <1>2 DEF Ends

\* Silent messages are still pending after a skipped step.
LEMMA SkipPending ==
  ASSUME NEW p \in Ends, NEW n \in Nat, Three, SkipAt(p, n)
  PROVE  StillPending(Peer(p), HeardAt(p, n), HeardAt(p, n + 1))
  <1> SUFFICES ASSUME NEW k \in 1..8, Sends(Peer(p), k), Silent(k), Pending(Peer(p), k, HeardAt(p, n))
               PROVE  Pending(Peer(p), k, HeardAt(p, n + 1))
    BY Zenon DEF StillPending
  <1>0. Version = "13"
    BY DEF Silent
  <1>1. CASE p = "client"
    BY <1>0, <1>1 DEF SkipAt, HeardAt, Pending, Peer
  <1>2. CASE p = "server"
    BY <1>0, <1>2 DEF SkipAt, HeardAt, Pending, Peer, EarlyTaken
  <1> QED BY <1>1, <1>2 DEF Ends

\* Nothing is said and nothing heard.
Glides(p, n, m) ==
    /\ SaidAt(p, n) <= SaidAt(p, m) /\ Quiet(p, SaidAt(p, n), SaidAt(p, m))
    /\ Stays8(p, SaidAt(p, n), SaidAt(p, m))
    /\ HeardAt(p, n) <= HeardAt(p, m) /\ Quiet(Peer(p), HeardAt(p, n), HeardAt(p, m))
    /\ StillPending(Peer(p), HeardAt(p, n), HeardAt(p, m))

\* Nothing is spoken between two numbers if only a silent one is.
LEMMA QuietAlone ==
  ASSUME NEW p, NEW b \in Nat, NEW d \in Nat, b <= d, Alone(p, d, b, d), b = d \/ ~Spoken(p, d)
  PROVE  Quiet(p, b, d)
  BY DEF Alone, Quiet

\* A skipped or idle step passes without a word.
LEMMA Glide ==
  ASSUME NEW p \in Ends, NEW n \in Nat, NEW m \in Nat, Three, Modern, Follows(p, n, m), m = n + 1,
         n \in Places(p), m \in Places(p), SkipAt(p, n) \/ IdleAt(p, n)
  PROVE  Glides(p, n, m)
  <1>1. /\ SaidAt(p, n) \in 0..17 /\ SaidAt(p, m) \in 0..17
        /\ HeardAt(p, n) \in 0..17 /\ HeardAt(p, m) \in 0..17
    BY SaidRange, Zenon
  <1>2. SaidAt(p, n) <= SaidAt(p, m) /\ Alone(p, SaidAt(p, m), SaidAt(p, n), SaidAt(p, m))
    BY SaidNext, Zenon
  <1>3. HeardAt(p, n) <= HeardAt(p, m) /\ Alone(Peer(p), HeardAt(p, m), HeardAt(p, n), HeardAt(p, m))
    BY HeardNext, Zenon
  <1>4. /\ SaidAt(p, m) = SaidAt(p, n) \/ ~Spoken(p, SaidAt(p, m))
        /\ HeardAt(p, m) = HeardAt(p, n) \/ ~Spoken(Peer(p), HeardAt(p, m))
        /\ p = "client" /\ EarlyTaken => (SaidAt(p, n) >= 8 <=> SaidAt(p, m) >= 8)
        /\ StillPending(Peer(p), HeardAt(p, n), HeardAt(p, m))
    <2>1. CASE SkipAt(p, n)
      BY <2>1, SkipSame, SkipPending, Zenon
    <2>2. CASE IdleAt(p, n)
      <3>1. SaidAt(p, m) = SaidAt(p, n) /\ HeardAt(p, m) = HeardAt(p, n)
        BY <2>2, IdleSame, Zenon
      <3> QED BY <1>1, <3>1, QuietHere, Zenon DEF StillPending
    <2> QED BY <2>1, <2>2, Zenon
  <1> DEFINE b == SaidAt(p, n)
             d == SaidAt(p, m)
             a == HeardAt(p, n)
             c == HeardAt(p, m)
  <1>5. b \in Nat /\ d \in Nat /\ a \in Nat /\ c \in Nat
    BY <1>1
  <1>6. b <= d /\ a <= c /\ Alone(p, d, b, d) /\ Alone(Peer(p), c, a, c) /\ (b = d \/ ~Spoken(p, d))
        /\ (a = c \/ ~Spoken(Peer(p), c)) /\ Stays8(p, b, d) /\ StillPending(Peer(p), a, c)
    BY <1>2, <1>3, <1>4, Zenon DEF Stays8
  <1> HIDE DEF a, b, c, d
  <1>7. Quiet(p, b, d) /\ Quiet(Peer(p), a, c)
    BY <1>5, <1>6, QuietAlone, Zenon
  <1> QED BY <1>6, <1>7, Zenon DEF Glides, a, b, c, d

-----------------------------------------------------------------------------
(* The conversation of p in state e with its peer in state o.                *)

\* A sound mode is a setting.
LEMMA SettingIs ==
  ASSUME Versions, Sound(mode), mode.early \in {"none", "accepted", "rejected"}, mode.size \in 1..MaxEarlyData
  PROVE  Setting
  <1>1. Three /\ (Version = "13" <=> mode.vers = 13)
    BY DEF Three, Version, Versions
  <1>2. EarlySent => Psk /\ Version = "13"
    BY DEF Sound, EarlySent, Psk, Version, Versions
  <1>3. EarlyTaken => EarlySent /\ ~mode.hrr
    BY DEF Sound, EarlySent, EarlyTaken
  <1>4. Version # "13" => ~mode.hrr
    BY DEF Sound, Version, Versions
  <1>5. (Version = "12r" => Psk) /\ (Version = "12" => ~Psk)
    BY DEF Psk, Version
  <1>6. WithinLimit
    <2>1. ~(mode.size > MaxEarlyData)
      BY HandshakeAssumption
    <2>2. EarlySent /\ ~EarlyTaken => mode.early = "rejected"
      BY DEF EarlySent, EarlyTaken
    <2> QED BY <2>1, <2>2 DEF WithinLimit, Sound, Overrun
  <1> QED BY <1>1, <1>2, <1>3, <1>4, <1>5, <1>6 DEF Setting

\* What a setting says of the version.
LEMMA SettingParts == ASSUME Setting PROVE Versions /\ Three /\ Modern
  BY DEF Setting, Modern

\* Both are in range and have buffers.
Fit(p, e) == Buffers(e) /\ Ranged(p, e)

\* p goes on from e to g without a word.
Passing(p, e, g) ==
    /\ Unread(g) = Unread(e) /\ Slots(p, g) = Slots(p, e) /\ g.sent = e.sent /\ g.got = e.got
    /\ Said(p, e) <= Said(p, g) /\ Quiet(p, Said(p, e), Said(p, g)) /\ Stays8(p, Said(p, e), Said(p, g))
    /\ HeardTo(p, e) <= HeardTo(p, g) /\ Quiet(Peer(p), HeardTo(p, e), HeardTo(p, g))
    /\ StillPending(Peer(p), HeardTo(p, e), HeardTo(p, g))
    /\ HeardTo(p, e) < 102 => HeardTo(p, g) < 102

\* The conversation goes on when p moves without a word.
LEMMA TalkPass ==
  ASSUME NEW p \in Ends, NEW e, NEW g, NEW o, Setting, Fit(p, e), Fit(p, g), Fit(Peer(p), o),
         Talk(p, e, o), Passing(p, e, g)
  PROVE  Talk(p, g, o)
  <1>0. Versions /\ Modern
    BY SettingParts, Zenon
  <1>1. Buffers(e) /\ Ranged(p, e) /\ Buffers(g) /\ Ranged(p, g) /\ Buffers(o) /\ Ranged(Peer(p), o)
    BY Zenon DEF Fit
  <1>2. Peer(p) \in Ends /\ Peer(Peer(p)) = p
    BY PeerEnds
  <1>3. Flow(p, e, o) /\ Flow(Peer(p), o, e) /\ DataOK(p, e, o) /\ DataOK(Peer(p), o, e)
    BY Zenon DEF Talk
  <1>4. Flow(p, g, o)
    BY <1>0, <1>1, <1>3, FlowMove, Zenon DEF Passing
  <1>5. Flow(Peer(p), o, g)
    BY <1>0, <1>1, <1>3, FlowPass, Zenon DEF Passing
  <1>6. DataOK(p, g, o)
    BY <1>0, <1>1, <1>3, DataMove, Zenon DEF Passing
  <1>7. DataOK(Peer(p), o, g)
    BY <1>0, <1>1, <1>3, DataPass, Zenon DEF Passing
  <1> QED BY <1>4, <1>5, <1>6, <1>7, Zenon DEF Talk

\* p sends message k as record x.
Speaking(p, e, g, x, k, a) ==
    /\ Grows(p, e, g, x, k) /\ g.sent = e.sent /\ g.got = e.got
    /\ Item(p, k, x) /\ Sends(p, k) /\ Said(p, e) < k /\ k <= Said(p, g)
    /\ Alone(p, k, Said(p, e), Said(p, g)) /\ Fits(p, k, a, Said(p, g))
    /\ Only8(p, k, Said(p, e), Said(p, g))
    /\ HeardTo(p, g) = HeardTo(p, e)

\* It goes on when p sends the next message of the script.
LEMMA TalkSend ==
  ASSUME NEW p \in Ends, NEW e, NEW g, NEW o, NEW x, NEW k, Setting, Fit(p, e), Fit(p, g), Fit(Peer(p), o),
         Talk(p, e, o), Speaking(p, e, g, x, k, HeardTo(Peer(p), o))
  PROVE  Talk(p, g, o)
  <1>0. Versions /\ Modern
    BY SettingParts, Zenon
  <1>1. Buffers(e) /\ Ranged(p, e) /\ Buffers(g) /\ Ranged(p, g) /\ Buffers(o) /\ Ranged(Peer(p), o)
    BY Zenon DEF Fit
  <1>2. Peer(p) \in Ends /\ Peer(Peer(p)) = p
    BY PeerEnds
  <1>3. Flow(p, e, o) /\ Flow(Peer(p), o, e) /\ DataOK(p, e, o) /\ DataOK(Peer(p), o, e)
    BY Zenon DEF Talk
  <1>4. Flow(p, g, o)
    BY <1>0, <1>1, <1>3, FlowSend, Zenon DEF Speaking
  <1>5. /\ HeardTo(p, e) <= HeardTo(p, g) /\ Quiet(Peer(p), HeardTo(p, e), HeardTo(p, g))
        /\ StillPending(Peer(p), HeardTo(p, e), HeardTo(p, g))
        /\ HeardTo(p, e) < 102 => HeardTo(p, g) < 102
    <2>1. HeardTo(p, e) \in 0..104 /\ HeardTo(p, g) = HeardTo(p, e)
      BY <1>1 DEF Ranged, Speaking
    <2>2. HeardTo(p, e) <= HeardTo(p, g)
      BY <2>1
    <2> QED BY <2>1, <2>2, QuietHere, Zenon
  <1>6. Flow(Peer(p), o, g)
    BY <1>0, <1>1, <1>3, <1>5, FlowPass, Zenon
  <1>7. k # 100
    BY <1>0, Numbered DEF Speaking
  <1>8. DataOK(p, g, o)
    BY <1>0, <1>1, <1>3, <1>7, DataSend, Zenon DEF Speaking
  <1>9. DataOK(Peer(p), o, g)
    BY <1>0, <1>1, <1>3, <1>5, DataPass, Zenon DEF Speaking
  <1> QED BY <1>4, <1>6, <1>8, <1>9, Zenon DEF Talk

\* p sends data or a ticket.
Adding(p, e, g, x, k, a) ==
    /\ Grows(p, e, g, x, k) /\ g.got = e.got /\ Item(p, k, x) /\ IsLate(k)
    /\ Said(p, g) = Said(p, e) /\ LateFits(p, a, Said(p, e)) /\ HeardTo(p, g) = HeardTo(p, e)
    /\ \/ x.type # "data" /\ g.sent = e.sent
       \/ x.type = "data" /\ x.msg = e.sent + 1 /\ g.sent = e.sent + 1

\* It goes on when p sends data or a ticket.
LEMMA TalkLate ==
  ASSUME NEW p \in Ends, NEW e, NEW g, NEW o, NEW x, NEW k, Setting, Fit(p, e), Fit(p, g), Fit(Peer(p), o),
         Talk(p, e, o), Adding(p, e, g, x, k, HeardTo(Peer(p), o))
  PROVE  Talk(p, g, o)
  <1>0. Versions /\ Modern
    BY SettingParts, Zenon
  <1>1. Buffers(e) /\ Ranged(p, e) /\ Buffers(g) /\ Ranged(p, g) /\ Buffers(o) /\ Ranged(Peer(p), o)
    BY Zenon DEF Fit
  <1>2. Peer(p) \in Ends /\ Peer(Peer(p)) = p
    BY PeerEnds
  <1>3. Flow(p, e, o) /\ Flow(Peer(p), o, e) /\ DataOK(p, e, o) /\ DataOK(Peer(p), o, e)
    BY Zenon DEF Talk
  <1>k. k \in {100} /\ IsLate(k)
    BY DEF Adding, IsLate
  <1>a. /\ Grows(p, e, g, x, k) /\ g.got = e.got /\ Item(p, k, x)
        /\ Said(p, g) = Said(p, e) /\ LateFits(p, HeardTo(Peer(p), o), Said(p, e))
    BY Zenon DEF Adding
  <1>b. \/ x.type # "data" /\ g.sent = e.sent
        \/ x.type = "data" /\ x.msg = e.sent + 1 /\ g.sent = e.sent + 1
    BY Zenon DEF Adding
  <1>4. Flow(p, g, o)
    BY <1>0, <1>1, <1>3, <1>k, <1>a, FlowLate, Zenon
  <1>5. /\ HeardTo(p, e) <= HeardTo(p, g) /\ Quiet(Peer(p), HeardTo(p, e), HeardTo(p, g))
        /\ StillPending(Peer(p), HeardTo(p, e), HeardTo(p, g))
        /\ HeardTo(p, e) < 102 => HeardTo(p, g) < 102
    <2>1. HeardTo(p, e) \in 0..104 /\ HeardTo(p, g) = HeardTo(p, e)
      BY <1>1 DEF Ranged, Adding
    <2>2. HeardTo(p, e) <= HeardTo(p, g)
      BY <2>1
    <2> QED BY <2>1, <2>2, QuietHere, Zenon
  <1>6. Flow(Peer(p), o, g)
    BY <1>0, <1>1, <1>3, <1>5, FlowPass, Zenon
  <1>8. DataOK(p, g, o)
    BY <1>0, <1>1, <1>3, <1>k, <1>a, <1>b, DataLate, Zenon
  <1>9. DataOK(Peer(p), o, g)
    BY <1>0, <1>1, <1>3, <1>a, <1>5, DataPass, Zenon
  <1> QED BY <1>4, <1>6, <1>8, <1>9, Zenon DEF Talk

\* The first record of o is taken away, and nothing else of it changes.
Taken(p, o, h) == /\ Consumed(p, o, h) /\ HeardTo(Peer(p), h) = HeardTo(Peer(p), o)
                  /\ h.got = o.got /\ h.sent = o.sent

\* What p sent is not touched when p reads.
LEMMA OtherSide ==
  ASSUME NEW p \in Ends, NEW g, NEW o, NEW h, Taken(p, o, h), Flow(p, g, o), DataOK(p, g, o)
  PROVE  Flow(p, g, h) /\ DataOK(p, g, h)
  <1>1. HeardTo(Peer(p), h) = HeardTo(Peer(p), o) /\ h.got = o.got
    BY Zenon DEF Taken
  <1>2. Flow(p, g, h)
    BY <1>1, Zenon DEF Flow
  <1>3. Got(Peer(p), h) = Got(Peer(p), o)
    BY <1>1 DEF Got
  <1>4. DataOK(p, g, h)
    BY <1>1, <1>3, Zenon DEF DataOK
  <1> QED BY <1>2, <1>4

\* What p does not say when it reads.
Listening(p, e, g) ==
    /\ Unread(g) = Unread(e) /\ Slots(p, g) = Slots(p, e) /\ g.sent = e.sent
    /\ Said(p, e) <= Said(p, g) /\ Quiet(p, Said(p, e), Said(p, g)) /\ Stays8(p, Said(p, e), Said(p, g))

\* What p sent is still in order when p reads and moves on.
LEMMA TalkListen ==
  ASSUME NEW p \in Ends, NEW e, NEW g, NEW o, NEW h, Setting, Fit(p, e), Fit(p, g), Fit(Peer(p), o),
         Talk(p, e, o), Listening(p, e, g), Taken(p, o, h)
  PROVE  Flow(p, g, h) /\ DataOK(p, g, h)
  <1>0. Versions /\ Modern
    BY SettingParts, Zenon
  <1>1. Buffers(e) /\ Ranged(p, e) /\ Buffers(g) /\ Ranged(p, g) /\ Buffers(o) /\ Ranged(Peer(p), o)
    BY Zenon DEF Fit
  <1>3. Flow(p, e, o) /\ DataOK(p, e, o)
    BY Zenon DEF Talk
  <1>4. Flow(p, g, o)
    BY <1>0, <1>1, <1>3, FlowMove, Zenon DEF Listening
  <1>5. DataOK(p, g, o)
    BY <1>0, <1>1, <1>3, DataMove, Zenon DEF Listening
  <1> QED BY <1>4, <1>5, OtherSide, Zenon

\* p reads message k.
Hearing(p, e, g, k) ==
    /\ Spoken(Peer(p), k) /\ k <= HeardTo(p, g) /\ Alone(Peer(p), k, HeardTo(p, e), HeardTo(p, g))
    /\ Passes(Peer(p), k, HeardTo(p, g)) /\ g.got = e.got

\* The conversation goes on when p reads the next message of the script.
LEMMA TalkHear ==
  ASSUME NEW p \in Ends, NEW e, NEW g, NEW o, NEW h, NEW k, Setting, Fit(p, e), Fit(p, g), Fit(Peer(p), o),
         Talk(p, e, o), Listening(p, e, g), Taken(p, o, h), k = FirstNo(p, o), Hearing(p, e, g, k)
  PROVE  Talk(p, g, h)
  <1>0. Versions /\ Modern
    BY SettingParts, Zenon
  <1>1. Buffers(e) /\ Ranged(p, e) /\ Buffers(g) /\ Ranged(p, g) /\ Buffers(o) /\ Ranged(Peer(p), o)
    BY Zenon DEF Fit
  <1>3. Flow(Peer(p), o, e) /\ DataOK(Peer(p), o, e)
    BY Zenon DEF Talk
  <1>4. Flow(p, g, h) /\ DataOK(p, g, h)
    BY TalkListen, Zenon
  <1>5. Consumed(p, o, h) /\ h.sent = o.sent
    BY Zenon DEF Taken
  <1>6. Flow(Peer(p), h, g)
    BY <1>0, <1>1, <1>3, <1>5, FlowHear, Zenon DEF Hearing
  <1>7. DataOK(Peer(p), h, g)
    BY <1>0, <1>1, <1>3, <1>5, DataHear, Zenon DEF Hearing
  <1> QED BY <1>4, <1>6, <1>7, Zenon DEF Talk

\* p reads data, a ticket or what it takes in silence.
LEMMA TalkDrop ==
  ASSUME NEW p \in Ends, NEW e, NEW g, NEW o, NEW h, NEW k, Setting, Fit(p, e), Fit(p, g), Fit(Peer(p), o),
         Talk(p, e, o), Listening(p, e, g), Taken(p, o, h), k = FirstNo(p, o), k = 100 \/ Silent(k),
         HeardTo(p, g) = HeardTo(p, e), g.got = Gains(k, Unread(o)[1], e.got)
  PROVE  Talk(p, g, h)
  <1>0. Versions /\ Modern
    BY SettingParts, Zenon
  <1>1. Buffers(e) /\ Ranged(p, e) /\ Buffers(g) /\ Ranged(p, g) /\ Buffers(o) /\ Ranged(Peer(p), o)
    BY Zenon DEF Fit
  <1>3. Flow(Peer(p), o, e) /\ DataOK(Peer(p), o, e)
    BY Zenon DEF Talk
  <1>4. Flow(p, g, h) /\ DataOK(p, g, h)
    BY TalkListen, Zenon
  <1>5. Consumed(p, o, h) /\ h.sent = o.sent
    BY Zenon DEF Taken
  <1>6. Flow(Peer(p), h, g)
    BY <1>0, <1>1, <1>3, <1>5, FlowDrop, Zenon
  <1>7. DataOK(Peer(p), h, g)
    BY <1>0, <1>1, <1>3, <1>5, DataDrop
  <1> QED BY <1>4, <1>6, <1>7, Zenon DEF Talk

-----------------------------------------------------------------------------
(* What the operations leave alone.                                          *)

Aux(e, g) == /\ g.started = e.started /\ g.done = e.done /\ g.sent = e.sent /\ g.got = e.got
             /\ g.auths = e.auths /\ g.extra = e.extra

\* The counters and notes that a step leaves alone: reflexive,
LEMMA AuxSame == ASSUME NEW e PROVE Aux(e, e)
  BY DEF Aux

\* transitive,
LEMMA AuxTwice == ASSUME NEW e, NEW f, NEW g, Aux(e, f), Aux(f, g) PROVE Aux(e, g)
  BY DEF Aux

\* and kept by moving to the next step,
LEMMA AuxMoved == ASSUME NEW f, DOMAIN f = Fields PROVE Aux(f, Moved(f))
  BY DEF Moved, Fields, Aux

\* by a write to the wire,
LEMMA AuxTakes == ASSUME NEW e, DOMAIN e = Fields, NEW n PROVE Aux(e, Takes(e, n))
  BY DEF Takes, Fields, Aux

\* by a flush,
LEMMA AuxFlush == ASSUME NEW e, DOMAIN e = Fields PROVE Aux(e, Flush(e))
  BY DEF Flush, Fields, Aux

\* by queuing a message,
LEMMA AuxCache ==
  ASSUME NEW e, DOMAIN e = Fields, NEW type, NEW msg, NEW info, NEW ctx
  PROVE  /\ Aux(e, Cache(e, type, msg, info, ctx))
         /\ Cache(e, type, msg, info, ctx).q =
              Append(e.q, [type |-> type, msg |-> msg, info |-> info, ctx |-> ctx, epoch |-> e.we])
  BY DEF Cache, Fields, Aux

\* by composing one,
LEMMA AuxCompose ==
  ASSUME NEW p, NEW e, NEW msg, DOMAIN e = Fields
  PROVE  /\ Aux(e, Compose(p, e, msg))
         /\ Compose(p, e, msg).q = Append(e.q, Entry(p, e, msg))
  <1> DEFINE type == IF msg = "EarlyData" THEN "data" ELSE "hs"
             fl == e.flags \cup SentFlags(p, msg)
             a == [e EXCEPT !.flags = fl]
             ctx == Context(e, msg)
             info == Info(p, e, msg)
             b == Cache(a, type, msg, info, ctx)
             t == Append(b.tr, <<p, msg>>)
             c == IF Unhashed(e, msg) THEN b ELSE [b EXCEPT !.tr = t]
             k == Has(e, "psk_selected") \/ e.prog = "12r"
             f == Compose(p, e, msg)
  <1>1. f = CASE msg = "ServerHello" -> [c EXCEPT !.psk = k, !.mark = c.tr]
              [] msg = "ClientKeyExchange" \/ (msg = "Finished" /\ p = "server" /\ e.prog = "13")
                               -> [c EXCEPT !.mark = c.tr]
              [] OTHER -> c
    BY DEF Compose, Context
  <1>e. [type |-> type, msg |-> msg, info |-> info, ctx |-> ctx, epoch |-> e.we] = Entry(p, e, msg)
    BY DEF Entry
  <1> HIDE DEF fl, ctx, info, k, type
  <1>2. DOMAIN a = Fields /\ Aux(e, a) /\ a.q = e.q /\ a.we = e.we
    BY DEF Fields, Aux
  <1> HIDE DEF a
  <1>3. DOMAIN b = Fields /\ Aux(a, b) /\ b.q = Append(e.q, Entry(p, e, msg))
    <2>1. DOMAIN b = Fields
      BY <1>2 DEF Cache, Fields
    <2> QED BY <1>2, <1>e, <2>1, AuxCache
  <1> HIDE DEF b, t
  <1>4. DOMAIN c = Fields /\ Aux(b, c) /\ c.q = b.q
    BY <1>3 DEF Fields, Aux
  <1> HIDE DEF c, f
  <1>5. Aux(c, f) /\ f.q = c.q
    BY <1>1, <1>4 DEF Fields, Aux
  <1>6. Aux(e, f)
    BY <1>2, <1>3, <1>4, <1>5 DEF Aux
  <1> QED BY <1>3, <1>4, <1>5, <1>6 DEF f

\* by setting keys,
LEMMA AuxSetKeys ==
  ASSUME NEW e, DOMAIN e = Fields, NEW r, NEW w
  PROVE  Aux(e, SetKeys(e, r, w)) /\ DOMAIN SetKeys(e, r, w) = Fields
  BY DEF SetKeys, Fields, Aux

\* by taking keys into use,
LEMMA AuxInit ==
  ASSUME NEW e, DOMAIN e = Fields, NEW k
  PROVE  /\ Aux(e, ReadInit(e, k)) /\ DOMAIN ReadInit(e, k) = Fields
         /\ Aux(e, WriteInit(e, k)) /\ DOMAIN WriteInit(e, k) = Fields
         /\ Aux(e, ConnectionInit(e, k)) /\ DOMAIN ConnectionInit(e, k) = Fields
  <1>1. ASSUME NEW d, DOMAIN d = Fields
        PROVE  /\ Aux(d, ReadInit(d, k)) /\ DOMAIN ReadInit(d, k) = Fields
               /\ Aux(d, WriteInit(d, k)) /\ DOMAIN WriteInit(d, k) = Fields
    <2> DEFINE f == SetKeys(d, k, k)
    <2>1. Aux(d, f) /\ DOMAIN f = Fields
      BY <1>1, AuxSetKeys
    <2> HIDE DEF f
    <2>2. /\ ReadInit(d, k) = [f EXCEPT !.re = d.next]
          /\ WriteInit(d, k) = [f EXCEPT !.we = d.next]
      BY DEF ReadInit, WriteInit, f
    <2> QED BY <2>1, <2>2 DEF Fields, Aux
  <1>2. Aux(e, ReadInit(e, k)) /\ DOMAIN ReadInit(e, k) = Fields
    BY <1>1
  <1>3. Aux(ReadInit(e, k), WriteInit(ReadInit(e, k), k)) /\ DOMAIN WriteInit(ReadInit(e, k), k) = Fields
    BY <1>1, <1>2
  <1> QED BY <1>1, <1>2, <1>3, AuxTwice DEF ConnectionInit

\* and by copying the keys of an epoch.
LEMMA AuxBump ==
  ASSUME NEW e, DOMAIN e = Fields
  PROVE  Aux(e, BumpDup(e)) /\ DOMAIN BumpDup(e) = Fields
  <1> DEFINE f == [e EXCEPT !.next = @ + 1]
  <1>1. DOMAIN f = Fields /\ Aux(e, f)
    BY DEF Fields, Aux
  <1>2. BumpDup(e) = SetupNext(f)
    BY DEF BumpDup
  <1> HIDE DEF f
  <1>3. Aux(f, SetupNext(f)) /\ DOMAIN SetupNext(f) = Fields
    BY <1>1 DEF SetupNext, Fail, Fields, Aux
  <1> QED BY <1>1, <1>2, <1>3, AuxTwice

-----------------------------------------------------------------------------
(* The transcript by numbers.                                                *)

\* The transcript grows by one number at a time,
LEMMA TrExtend == ASSUME NEW k \in 5..17 PROVE Tr(k) = Extend(Tr(k - 1), k)
  <1>1. CASE k \in 5..9
    BY <1>1 DEF Tr, T5, T6, T7, T8, T9
  <1>2. CASE k \in 10..13
    BY <1>2 DEF Tr, T10, T11, T12, T13
  <1>3. CASE k \in 14..17
    BY <1>3 DEF Tr, T14, T15, T16, T17
  <1> QED BY <1>1, <1>2, <1>3

\* also in a re-authentication.
LEMMA TrLate == ASSUME NEW k \in 101..104 PROVE Tr(k) = Extend(Tr(k - 1), k)
  BY SMTT(40) DEF Tr, T101, T102, T103, T104

\* The transcripts up to the second hello.
LEMMA TrEarly == /\ Tr(0) = <<>> /\ Tr(1) = <<Greeting>> /\ Tr(2) = Retry /\ Tr(3) = Retry /\ Tr(4) = Hello
                 /\ Tr(100) = Tr(17)
  BY DEF Tr

\* A number that is not hashed leaves the transcript as it is.
LEMMA TrSame ==
  ASSUME NEW k \in 5..17, MsgOf(k) = "ccs" \/ (~Sends("client", k) /\ ~Sends("server", k))
  PROVE  Tr(k) = Tr(k - 1)
  BY TrExtend DEF Extend

\* A message that is hashed is appended.
LEMMA TrGrows ==
  ASSUME NEW p \in Ends, NEW k \in 5..17 \cup 101..104, MsgOf(k) # "ccs", Sends(p, k), ~(Sends("client", k) /\ Sends("server", k))
  PROVE  Tr(k) = Append(Tr(k - 1), <<p, MsgOf(k)>>)
  <1>1. Tr(k) = Extend(Tr(k - 1), k)
    BY TrExtend, TrLate
  <1> QED BY <1>1 DEF Extend, Ends

\* No message has two senders.
LEMMA OneSender == ASSUME NEW k, Three PROVE ~(Sends("client", k) /\ Sends("server", k))
  <1>1. CASE Version = "13"
    BY <1>1 DEF Sends
  <1>2. CASE Version = "12"
    BY <1>2 DEF Sends
  <1>3. CASE Version = "12r"
    BY <1>3 DEF Sends
  <1> QED BY <1>1, <1>2, <1>3 DEF Three

\* The last message in the transcript at place n.
LastAt(p, n) == Later(SaidAt(p, n), HeardAt(p, n))

\* Where no keys are taken up.
LEMMA KeysStay ==
  ASSUME NEW p \in Ends, NEW n \in Nat, NEW m \in Nat, Three, Follows(p, n, m) \/ Jumps(p, n, m), ~KeyStep(p, n)
  PROVE  /\ WriteKeyAt(p, m) = WriteKeyAt(p, n) /\ ReadKeyAt(p, m) = ReadKeyAt(p, n)
         /\ NextKeyAt(p, m) = NextKeyAt(p, n)
  <1>1. CASE Version = "13" /\ p = "client"
    BY <1>1 DEF WriteKeyAt, ReadKeyAt, NextKeyAt, KeyStep, Follows, Jumps, EndPlace
  <1>2. CASE Version = "13" /\ p = "server"
    BY <1>2 DEF WriteKeyAt, ReadKeyAt, NextKeyAt, KeyStep, Follows, Jumps, EndPlace
  <1>3. CASE Version = "12"
    BY <1>3 DEF WriteKeyAt, ReadKeyAt, NextKeyAt, KeyStep, Follows, Jumps, EndPlace, Read12, Write12, Ends
  <1>4. CASE Version = "12r"
    BY <1>4 DEF WriteKeyAt, ReadKeyAt, NextKeyAt, KeyStep, Follows, Jumps, EndPlace, Read12, Write12, Ends
  <1> QED BY <1>1, <1>2, <1>3, <1>4 DEF Three, Ends

\* No keys change where nothing is heard or said but a change cipher spec.
LEMMA PlainKeys == ASSUME NEW p \in Ends, NEW n \in Nat, Setting, PlainAt(p, n) PROVE ~KeyStep(p, n)
  <1>1. CASE Version = "13" /\ p = "client"
    BY <1>1 DEF PlainAt, SkipAt, AbsentAt, RestAt, CcsAt, KeyStep
  <1>2. CASE Version = "13" /\ p = "server"
    BY <1>2 DEF PlainAt, SkipAt, AbsentAt, RestAt, CcsAt, KeyStep
  <1>3. CASE Version = "12"
    BY <1>3 DEF PlainAt, SkipAt, AbsentAt, RestAt, CcsAt, KeyStep, Read12, Write12, Ends
  <1>4. CASE Version = "12r"
    BY <1>4 DEF PlainAt, SkipAt, AbsentAt, RestAt, CcsAt, KeyStep, Read12, Write12, Ends
  <1> QED BY <1>1, <1>2, <1>3, <1>4 DEF Three, Ends, Setting

\* The flags suit the next place where none changes.
LEMMA FlagsStay ==
  ASSUME NEW p \in Ends, NEW e, NEW g, NEW n \in Nat, NEW m \in Nat, Setting, Follows(p, n, m) \/ Jumps(p, n, m),
         n \in Places(p), ~FlagStep(p, n), g.flags = e.flags, FlagsAt(p, e, n)
  PROVE  FlagsAt(p, g, m)
  <1>1. CASE p = "client"
    <2>1. ClientFlags(e, n)
      BY <1>1 DEF FlagsAt
    <2>2. ASSUME NEW f PROVE Has(g, f) <=> Has(e, f)
      BY DEF Has
    <2>3. ClientFlags(g, m)
      <3>1. CASE Version = "13"
        BY <1>1, <2>1, <2>2, <3>1 DEF ClientFlags, FlagStep, Follows, Jumps, Places, EndPlace, Setting, EarlySent, EarlyTaken
      <3>2. CASE Version = "12"
        BY <1>1, <2>1, <2>2, <3>2 DEF ClientFlags, FlagStep, Follows, Jumps, Places, EndPlace, Setting
      <3>3. CASE Version = "12r"
        BY <1>1, <2>1, <2>2, <3>3 DEF ClientFlags, FlagStep, Follows, Jumps, Places, EndPlace, Setting
      <3> QED BY <3>1, <3>2, <3>3 DEF Setting, Three
    <2> QED BY <1>1, <2>3 DEF FlagsAt
  <1>2. CASE p = "server"
    <2>1. ServerFlags(e, n)
      BY <1>2 DEF FlagsAt
    <2>2. ASSUME NEW f PROVE Has(g, f) <=> Has(e, f)
      BY DEF Has
    <2>3. ServerFlags(g, m)
      <3>1. CASE Version = "13"
        BY <1>2, <2>1, <2>2, <3>1 DEF ServerFlags, FlagStep, Follows, Jumps, Places, EndPlace, Setting, EarlySent, EarlyTaken
      <3>2. CASE Version = "12"
        BY <1>2, <2>1, <2>2, <3>2 DEF ServerFlags, FlagStep, Follows, Jumps, Places, EndPlace, Setting
      <3>3. CASE Version = "12r"
        BY <1>2, <2>1, <2>2, <3>3 DEF ServerFlags, FlagStep, Follows, Jumps, Places, EndPlace, Setting
      <3> QED BY <3>1, <3>2, <3>3 DEF Setting, Three
    <2> QED BY <1>2, <2>3 DEF FlagsAt
  <1> QED BY <1>1, <1>2 DEF Ends

\* No flags change there either.
LEMMA PlainFlags == ASSUME NEW p \in Ends, NEW n \in Nat, Setting, PlainAt(p, n) PROVE ~FlagStep(p, n)
  <1>1. CASE Version = "13" /\ p = "client"
    BY <1>1 DEF PlainAt, SkipAt, AbsentAt, RestAt, CcsAt, FlagStep, Setting, Asked
  <1>2. CASE Version = "13" /\ p = "server"
    BY <1>2 DEF PlainAt, SkipAt, AbsentAt, RestAt, CcsAt, FlagStep, Setting, Asked
  <1>3. CASE Version = "12"
    BY <1>3 DEF PlainAt, SkipAt, AbsentAt, RestAt, CcsAt, FlagStep, Ends, Setting
  <1>4. CASE Version = "12r"
    BY <1>4 DEF PlainAt, SkipAt, AbsentAt, RestAt, CcsAt, FlagStep, Ends, Setting
  <1> QED BY <1>1, <1>2, <1>3, <1>4 DEF Three, Ends, Setting

\* The transcript where nothing is hashed.
Unhashes(k) == MsgOf(k) = "ccs" \/ (~Sends("client", k) /\ ~Sends("server", k))

\* The last number in the transcript of a TLS 1.3 client,
LEMMA LastClient13 ==
  ASSUME NEW n \in Nat, Version = "13"
  PROVE  LastAt("client", n) = IF n <= 1 THEN 0 ELSE IF n <= 3 THEN IF mode.hrr THEN 1 ELSE 4
                               ELSE IF n <= 11 THEN IF mode.hrr THEN 2 ELSE 4
                               ELSE IF n <= 13 THEN 4 ELSE IF n = 14 THEN 5
                               ELSE IF n <= 16 THEN 7 ELSE IF n <= 18 THEN 8 ELSE IF n <= 22 THEN n - 10
                               ELSE IF n = 23 THEN 13 ELSE IF n <= 25 THEN 14 ELSE IF n <= 27 THEN n - 11
                               ELSE 17
  <1>1. SaidAt("client", n) = IF n <= 1 THEN 0 ELSE IF n <= 11 THEN IF mode.hrr THEN 1 ELSE 4
              ELSE IF n <= 14 THEN 4 ELSE IF n <= 16 THEN 7 ELSE IF n <= 23 THEN 8
              ELSE IF n <= 25 THEN 14 ELSE IF n <= 27 THEN n - 11 ELSE 17
    BY DEF SaidAt
  <1>2. HeardAt("client", n) = IF n <= 3 THEN 0 ELSE IF n <= 13 THEN 2 ELSE IF n <= 18 THEN 5
              ELSE IF n <= 22 THEN n - 10 ELSE 13
    BY DEF HeardAt
  <1> QED BY <1>1, <1>2 DEF LastAt, Later

\* of a TLS 1.3 server,
LEMMA LastServer13 ==
  ASSUME NEW n \in Nat, Version = "13"
  PROVE  LastAt("server", n) = IF n <= 1 THEN 0 ELSE IF n <= 13 THEN IF mode.hrr THEN 1 ELSE 4
                               ELSE IF n = 14 THEN IF mode.hrr THEN 2 ELSE 4
                               ELSE IF n = 15 THEN IF mode.hrr THEN 3 ELSE 4
                               ELSE IF n = 16 THEN 4 ELSE IF n = 17 THEN 5 ELSE IF n <= 19 THEN 6
                               ELSE IF n <= 23 THEN n - 11 ELSE IF n = 24 THEN 13
                               ELSE IF n <= 29 THEN 14 ELSE IF n <= 31 THEN n - 15 ELSE 17
  <1>1. SaidAt("server", n) = IF n <= 13 THEN 0 ELSE IF n = 14 THEN 2 ELSE IF n <= 16 THEN 3 ELSE IF n = 17 THEN 5
              ELSE IF n <= 19 THEN 6 ELSE IF n <= 23 THEN n - 11 ELSE 13
    BY DEF SaidAt
  <1>2. HeardAt("server", n) = IF n <= 1 THEN 0 ELSE IF n <= 15 THEN IF mode.hrr THEN 1 ELSE 4
              ELSE IF n <= 24 THEN 4 ELSE IF n <= 29 THEN 14 ELSE IF n <= 31 THEN n - 15 ELSE 17
    BY DEF HeardAt
  <1> QED BY <1>1, <1>2 DEF LastAt, Later

\* of a TLS 1.2 client,
LEMMA LastClient12 ==
  ASSUME NEW n \in Nat, Version = "12"
  PROVE  LastAt("client", n) = IF n <= 1 THEN 0 ELSE IF n <= 13 THEN 4 ELSE IF n <= 17 THEN n - 9
                               ELSE IF n = 18 THEN 9 ELSE IF n <= 21 THEN n - 9
                               ELSE IF n <= 23 THEN 13 ELSE IF n <= 25 THEN 14
                               ELSE IF n <= 27 THEN n - 11 ELSE 17
  <1>1. SaidAt("client", n) = IF n <= 1 THEN 0 ELSE IF n <= 18 THEN 4 ELSE IF n <= 21 THEN n - 9
              ELSE IF n <= 23 THEN 13 ELSE 14
    BY DEF SaidAt
  <1>2. HeardAt("client", n) = IF n <= 3 THEN 0 ELSE IF n <= 17 THEN n - 9 ELSE IF n <= 25 THEN 9
              ELSE IF n <= 27 THEN n - 11 ELSE 17
    BY DEF HeardAt
  <1> QED BY <1>1, <1>2 DEF LastAt, Later

\* of a TLS 1.2 server,
LEMMA LastServer12 ==
  ASSUME NEW n \in Nat, Version = "12"
  PROVE  LastAt("server", n) = IF n <= 1 THEN 0 ELSE IF n <= 12 THEN 4 ELSE IF n <= 17 THEN n - 8
                               ELSE IF n <= 21 THEN n - 8 ELSE IF n = 22 THEN 14
                               ELSE IF n = 23 THEN 15 ELSE IF n <= 25 THEN 16 ELSE 17
  <1>1. SaidAt("server", n) = IF n <= 12 THEN 0 ELSE IF n <= 17 THEN n - 8 ELSE IF n <= 22 THEN 9
              ELSE IF n = 23 THEN 15 ELSE IF n <= 25 THEN 16 ELSE 17
    BY DEF SaidAt
  <1>2. HeardAt("server", n) = IF n <= 1 THEN 0 ELSE IF n <= 17 THEN 4 ELSE IF n <= 21 THEN n - 8 ELSE 14
    BY DEF HeardAt
  <1> QED BY <1>1, <1>2 DEF LastAt, Later

\* and when a TLS 1.2 session is resumed.
LEMMA Last12r ==
  ASSUME NEW n \in Nat, Version = "12r"
  PROVE  /\ LastAt("client", n) = IF n <= 1 THEN 0 ELSE IF n <= 3 THEN 4 ELSE IF n <= 15 THEN 5
                                  ELSE IF n = 16 THEN 13 ELSE IF n = 17 THEN 14
                                  ELSE IF n <= 19 THEN 15 ELSE 16
         /\ LastAt("server", n) = IF n <= 1 THEN 0 ELSE IF n <= 12 THEN 4 ELSE IF n = 13 THEN 5
                                  ELSE IF n <= 15 THEN 13 ELSE IF n <= 17 THEN 14
                                  ELSE IF n = 18 THEN 15 ELSE 16
  <1>1. SaidAt("client", n) = IF n <= 1 THEN 0 ELSE IF n <= 17 THEN 4 ELSE IF n <= 19 THEN 15 ELSE 16
    BY DEF SaidAt
  <1>2. HeardAt("client", n) = IF n <= 3 THEN 0 ELSE IF n <= 15 THEN 5 ELSE IF n = 16 THEN 13 ELSE 14
    BY DEF HeardAt
  <1>3. SaidAt("server", n) = IF n <= 12 THEN 0 ELSE IF n = 13 THEN 5 ELSE IF n <= 15 THEN 13 ELSE 14
    BY DEF SaidAt
  <1>4. HeardAt("server", n) = IF n <= 1 THEN 0 ELSE IF n <= 17 THEN 4 ELSE IF n = 18 THEN 15 ELSE 16
    BY DEF HeardAt
  <1> QED BY <1>1, <1>2, <1>3, <1>4 DEF LastAt, Later

\* At a plain step the transcript passes only numbers that are not hashed.
LEMMA PlainLast ==
  ASSUME NEW p \in Ends, NEW n \in Nat, Setting, PlainAt(p, n)
  PROVE  \/ LastAt(p, n + 1) = LastAt(p, n)
         \/ LastAt(p, n + 1) = LastAt(p, n) + 1 /\ LastAt(p, n + 1) \in 5..17 /\ Unhashes(LastAt(p, n + 1))
         \/ LastAt(p, n) = 5 /\ LastAt(p, n + 1) \in {6, 7} /\ Version = "13"
         \/ LastAt(p, n) = 2 /\ LastAt(p, n + 1) = 3
         \/ LastAt(p, n) = 5 /\ LastAt(p, n + 1) = 13 /\ Version = "12r"
  <1>1. CASE Version = "13" /\ p = "client"
    <2>1. \/ LastAt(p, n + 1) = LastAt(p, n)
          \/ n = 16 /\ LastAt(p, n) = 7 /\ LastAt(p, n + 1) = 8
          \/ n = 19 /\ LastAt(p, n) = 9 /\ LastAt(p, n + 1) = 10 /\ ~Asked
          \/ n \in 20..21 /\ LastAt(p, n) = n - 10 /\ LastAt(p, n + 1) = n - 9 /\ Psk
          \/ n = 23 /\ LastAt(p, n) = 13 /\ LastAt(p, n + 1) = 14 /\ ~EarlyTaken
          \/ n = 25 /\ LastAt(p, n) = 14 /\ LastAt(p, n + 1) = 15 /\ ~Asked
          \/ n = 26 /\ LastAt(p, n) = 15 /\ LastAt(p, n + 1) = 16 /\ ~(Asked /\ mode.cc)
          \/ n = 14 /\ LastAt(p, n) = 5 /\ LastAt(p, n + 1) = 7
      <3>1. n \in {2, 12, 14, 15, 16, 19, 20, 21, 23, 24, 25, 26}
        BY <1>1 DEF PlainAt, SkipAt, AbsentAt, RestAt, CcsAt
      <3>2. /\ n \in 19..21 => ~Asked /\ (n # 19 => Psk)
            /\ n = 23 => ~EarlyTaken
            /\ n = 25 => ~Asked
            /\ n = 26 => ~(Asked /\ mode.cc)
            /\ n = 2 => ~mode.hrr
        BY <1>1 DEF PlainAt, SkipAt, AbsentAt, RestAt, CcsAt, Asked
      <3> QED BY <1>1, <3>1, <3>2, LastClient13
    <2>2. MsgOf(8) = "ccs"
      BY <1>1 DEF MsgOf
    <2> QED BY <1>1, <2>1, <2>2 DEF Unhashes, Sends
  <1>2. CASE Version = "13" /\ p = "server"
    <2>1. \/ LastAt(p, n + 1) = LastAt(p, n)
          \/ n = 20 /\ LastAt(p, n) = 9 /\ LastAt(p, n + 1) = 10 /\ ~Asked
          \/ n \in 21..22 /\ LastAt(p, n) = n - 11 /\ LastAt(p, n + 1) = n - 10 /\ Psk
          \/ n = 24 /\ LastAt(p, n) = 13 /\ LastAt(p, n + 1) = 14 /\ ~EarlyTaken
          \/ n = 29 /\ LastAt(p, n) = 14 /\ LastAt(p, n + 1) = 15 /\ ~Asked
          \/ n = 30 /\ LastAt(p, n) = 15 /\ LastAt(p, n + 1) = 16 /\ ~(Asked /\ mode.cc)
          \/ n = 14 /\ LastAt(p, n) = 2 /\ LastAt(p, n + 1) = 3
          \/ n = 17 /\ LastAt(p, n) = 5 /\ LastAt(p, n + 1) = 6
      <3>1. n \in {12, 13, 14, 15, 17, 20, 21, 22, 24, 25, 27, 28, 29, 30, 33}
        BY <1>2 DEF PlainAt, SkipAt, AbsentAt, RestAt, CcsAt
      <3>2. /\ n \in {20, 29} => ~Asked
            /\ n \in 21..22 => Psk
            /\ n = 24 => ~EarlyTaken
            /\ n = 30 => ~(Asked /\ mode.cc)
            /\ n \in {12, 13, 15} => ~mode.hrr
        BY <1>2 DEF PlainAt, SkipAt, AbsentAt, RestAt, CcsAt
      <3> QED BY <1>2, <3>1, <3>2, LastServer13
    <2> QED BY <1>2, <2>1 DEF Unhashes, Sends
  <1>3. CASE Version = "12" /\ p = "client"
    <2>1. \/ LastAt(p, n + 1) = LastAt(p, n)
          \/ n = 16 /\ LastAt(p, n) = 7 /\ LastAt(p, n + 1) = 8 /\ ~mode.cr
          \/ n = 18 /\ LastAt(p, n) = 9 /\ LastAt(p, n + 1) = 10 /\ ~mode.cr
          \/ n = 20 /\ LastAt(p, n) = 11 /\ LastAt(p, n + 1) = 12 /\ ~(mode.cr /\ mode.cc)
          \/ n = 21 /\ LastAt(p, n) = 12 /\ LastAt(p, n + 1) = 13
          \/ n = 25 /\ LastAt(p, n) = 14 /\ LastAt(p, n + 1) = 15 /\ ~mode.tickets
      BY <1>3, LastClient12 DEF PlainAt, SkipAt, AbsentAt, RestAt, CcsAt, Setting
    <2>2. MsgOf(13) = "ccs"
      BY <1>3 DEF MsgOf
    <2> QED BY <1>3, <2>1, <2>2 DEF Unhashes, Sends
  <1>4. CASE Version = "12" /\ p = "server"
    <2>1. \/ LastAt(p, n + 1) = LastAt(p, n)
          \/ n = 15 /\ LastAt(p, n) = 7 /\ LastAt(p, n + 1) = 8 /\ ~mode.cr
          \/ n = 17 /\ LastAt(p, n) = 9 /\ LastAt(p, n + 1) = 10 /\ ~mode.cr
          \/ n = 19 /\ LastAt(p, n) = 11 /\ LastAt(p, n + 1) = 12 /\ ~(mode.cr /\ mode.cc)
          \/ n = 22 /\ LastAt(p, n) = 14 /\ LastAt(p, n + 1) = 15 /\ ~mode.tickets
          \/ n = 23 /\ LastAt(p, n) = 15 /\ LastAt(p, n + 1) = 16
      BY <1>4, LastServer12 DEF PlainAt, SkipAt, AbsentAt, RestAt, CcsAt
    <2>2. MsgOf(16) = "ccs"
      BY <1>4 DEF MsgOf
    <2> QED BY <1>4, <2>1, <2>2 DEF Unhashes, Sends
  <1>5. CASE Version = "12r"
    <2>0. ~mode.hrr
      BY <1>5 DEF Setting
    <2>1. \/ LastAt(p, n + 1) = LastAt(p, n)
          \/ LastAt(p, n) = 14 /\ LastAt(p, n + 1) = 15
          \/ LastAt(p, n) = 5 /\ LastAt(p, n + 1) = 13
      BY <1>5, <2>0, Last12r DEF PlainAt, SkipAt, AbsentAt, RestAt, CcsAt, Ends
    <2>2. MsgOf(15) = "ccs"
      BY <1>5 DEF MsgOf
    <2> QED BY <1>5, <2>1, <2>2 DEF Unhashes
  <1> QED BY <1>1, <1>2, <1>3, <1>4, <1>5 DEF Three, Ends, Setting

\* Nothing is hashed at a plain step.
LEMMA PlainTr ==
  ASSUME NEW p \in Ends, NEW n \in Nat, Setting, PlainAt(p, n)
  PROVE  Tr(LastAt(p, n + 1)) = Tr(LastAt(p, n))
  <1> DEFINE a == LastAt(p, n)
             b == LastAt(p, n + 1)
  <1>1. \/ b = a
        \/ b = a + 1 /\ b \in 5..17 /\ Unhashes(b)
        \/ a = 5 /\ b \in {6, 7} /\ Version = "13"
        \/ a = 2 /\ b = 3
        \/ a = 5 /\ b = 13 /\ Version = "12r"
    BY PlainLast, Zenon
  <1> HIDE DEF a, b
  <1>2. CASE b = a + 1 /\ b \in 5..17 /\ Unhashes(b)
    <2>1. Tr(b) = Tr(b - 1)
      BY <1>2, TrSame, Zenon DEF Unhashes
    <2>2. LastAt(p, n) \in Nat
      BY SaidRange DEF LastAt, Later, SaidAt, HeardAt, Setting, Three, Ends
    <2>3. b - 1 = a
      BY <1>2, <2>2 DEF a
    <2> QED BY <2>1, <2>3 DEF a, b
  <1>3. CASE a = 5 /\ b \in {6, 7} /\ Version = "13"
    <2>1. MsgOf(6) = "ccs" /\ MsgOf(7) = "ccs"
      BY <1>3 DEF MsgOf
    <2>2. Tr(6) = Tr(5) /\ Tr(7) = Tr(6)
      BY <2>1 DEF Tr, T6, T7, Extend
    <2> QED BY <1>3, <2>2 DEF a, b
  <1>4. CASE a = 2 /\ b = 3
    BY <1>4, TrEarly DEF a, b
  <1>5. CASE a = 5 /\ b = 13 /\ Version = "12r"
    <2>1. \A k \in 6..12 : ~Sends("client", k) /\ ~Sends("server", k)
      BY <1>5 DEF Sends
    <2>2. MsgOf(13) = "ccs"
      BY <1>5 DEF MsgOf
    <2>3. \A s : \A k \in 6..13 : Extend(s, k) = s
      BY <2>1, <2>2 DEF Extend
    <2>4. Tr(13) = Tr(5)
      BY <2>3 DEF Tr, T6, T7, T8, T9, T10, T11, T12, T13
    <2> QED BY <1>5, <2>4 DEF a, b
  <1>6. CASE b = a
    BY <1>6 DEF a, b
  <1> QED BY <1>1, <1>2, <1>3, <1>4, <1>5, <1>6

\* The secrets at a plain step.
LEMMA PlainSecrets ==
  ASSUME NEW p \in Ends, NEW e, NEW g, NEW n \in Nat, Setting, PlainAt(p, n), n \in Places(p), n + 1 \in Places(p),
         SecretsAt(p, e, n), g.tr = e.tr, g.psk = e.psk, g.mark = e.mark
  PROVE  SecretsAt(p, g, n + 1)
  <1>1. ~Forgets(p, n) /\ ~Forgets(p, n + 1)
    BY DEF Forgets, PlainAt, SkipAt, AbsentAt, RestAt, CcsAt
  <1>2. e.tr = Tr(LastAt(p, n))
    BY <1>1 DEF SecretsAt, LastAt
  <1>3. g.tr = Tr(LastAt(p, n + 1))
    BY <1>2, PlainTr
  <1>4. /\ n + 1 >= (IF p = "client" THEN 14 ELSE IF Version = "13" THEN 17 ELSE 13)
            => n >= (IF p = "client" THEN 14 ELSE IF Version = "13" THEN 17 ELSE 13)
        /\ Version = "13" /\ n + 1 \in (IF p = "client" THEN 14..22 ELSE 17..23)
            => n \in (IF p = "client" THEN 14..22 ELSE 17..23)
        /\ Version = "13" /\ n + 1 >= (IF p = "client" THEN 23 ELSE 24)
            => n >= (IF p = "client" THEN 23 ELSE 24)
        /\ Version = "12" /\ n + 1 >= (IF p = "client" THEN 20 ELSE 19) => n >= (IF p = "client" THEN 20 ELSE 19)
        /\ Version = "12r" /\ n + 1 >= (IF p = "client" THEN 14 ELSE 13) => n >= (IF p = "client" THEN 14 ELSE 13)
    <2>1. CASE p = "client"
      BY <2>1 DEF PlainAt, SkipAt, AbsentAt, RestAt, CcsAt
    <2>2. CASE p = "server"
      BY <2>2 DEF PlainAt, SkipAt, AbsentAt, RestAt, CcsAt, Places, EndPlace
    <2> QED BY <2>1, <2>2 DEF Ends
  <1> QED BY <1>1, <1>3, <1>4 DEF SecretsAt, LastAt

-----------------------------------------------------------------------------
(* An endpoint at its places.                                                *)

\* The parts of what holds at a place.
QueueOK(p, e) == /\ e.q # <<>> => e.prog # "start" /\ ~e.again /\ e.pc <= QueueEnd(p)
                 /\ \A i \in 1..Len(e.q) : e.q[i].epoch \in 0..e.we
StartedAt(p, n) == \/ p = "server" /\ Version = "13" /\ n >= 29
                   \/ p = "client" /\ Version = "12" /\ n >= 25
DoneAt(p, n) == \/ Version = "12" /\ n >= (IF p = "client" THEN 28 ELSE 22)
                \/ Version = "12r" /\ n >= (IF p = "client" THEN 17 ELSE 19)
Notes(p, e, n) == /\ e.auths = 0 /\ (p = "client" /\ n = 3 => ~mode.hrr)
                  /\ (e.done => DoneAt(p, n)) /\ (e.started => StartedAt(p, n))

\* The parts of Stands.
LEMMA StandsParts ==
  ASSUME NEW p, NEW e, NEW n
  PROVE  Stands(p, e, n) <=> /\ Notes(p, e, n) /\ QueueOK(p, e)
                             /\ KeysAt(p, e, n) /\ FlagsAt(p, e, n) /\ SecretsAt(p, e, n)
  BY Zenon DEF Stands, Notes, QueueOK, StartedAt, DoneAt

\* What is noted at a place holds at a later one.
LEMMA NotesMore ==
  ASSUME NEW p \in Ends, NEW e, NEW g, NEW n \in Nat, NEW m \in Nat, n <= m, Notes(p, e, n),
         p = "client" /\ m = 3 => ~mode.hrr,
         g.auths = e.auths, g.done = e.done \/ DoneAt(p, m), g.started = e.started \/ StartedAt(p, m)
  PROVE  Notes(p, g, m)
  <1>1. (DoneAt(p, n) => DoneAt(p, m)) /\ (StartedAt(p, n) => StartedAt(p, m))
    BY DEF DoneAt, StartedAt
  <1>2. g.auths = 0
    BY DEF Notes
  <1>3. g.done => DoneAt(p, m)
    BY <1>1, Zenon DEF Notes
  <1>4. g.started => StartedAt(p, m)
    BY <1>1, Zenon DEF Notes
  <1> QED BY <1>2, <1>3, <1>4, Zenon DEF Notes

\* The keys suit the next place where none changes.
LEMMA KeysMore ==
  ASSUME NEW p \in Ends, NEW e, NEW g, NEW n \in Nat, NEW m \in Nat, Setting, Follows(p, n, m) \/ Jumps(p, n, m),
         ~KeyStep(p, n), KeysAt(p, e, n), SameEpochs(e, g)
  PROVE  KeysAt(p, g, m)
  <1>1. /\ WriteKeyAt(p, m) = WriteKeyAt(p, n) /\ ReadKeyAt(p, m) = ReadKeyAt(p, n)
        /\ NextKeyAt(p, m) = NextKeyAt(p, n)
    BY KeysStay, Zenon DEF Setting
  <1> QED BY <1>1 DEF KeysAt, SameEpochs

\* Moving on at a plain step.
LEMMA PlainStands ==
  ASSUME NEW p \in Ends, NEW e, NEW g, NEW n \in Nat, Setting, PlainAt(p, n), n \in Places(p), n + 1 \in Places(p),
         Follows(p, n, n + 1),
         Stands(p, e, n), QueueOK(p, g), SameEpochs(e, g), g.flags = e.flags,
         g.tr = e.tr, g.psk = e.psk, g.mark = e.mark,
         g.auths = e.auths, g.done = e.done, g.started = e.started \/ StartedAt(p, n + 1)
  PROVE  Stands(p, g, n + 1)
  <1>1. /\ Notes(p, e, n) /\ KeysAt(p, e, n) /\ FlagsAt(p, e, n) /\ SecretsAt(p, e, n)
    BY StandsParts, Zenon
  <1>2. p = "client" /\ n + 1 = 3 => ~mode.hrr
    BY DEF PlainAt, SkipAt, AbsentAt, RestAt, CcsAt, Setting, Three
  <1>3. n + 1 \in Nat /\ n <= n + 1
    OBVIOUS
  <1>4. Notes(p, g, n + 1)
    BY <1>1, <1>2, <1>3, NotesMore, Zenon
  <1>5. KeysAt(p, g, n + 1)
    BY <1>1, <1>3, PlainKeys, KeysMore, Zenon
  <1>6. FlagsAt(p, g, n + 1)
    BY <1>1, <1>3, PlainFlags, FlagsStay, Zenon
  <1>7. SecretsAt(p, g, n + 1)
    BY <1>1, PlainSecrets, Zenon
  <1> QED BY <1>4, <1>5, <1>6, <1>7, StandsParts, Zenon

-----------------------------------------------------------------------------
(* Where an endpoint is.                                                     *)

\* The first entries of a transcript differ after a HelloRetryRequest.
LEMMA Synth == /\ Greeting # Synthetic
               /\ <<Greeting>>[1] = Greeting /\ <<Greeting>> # <<>> /\ <<Synthetic>>[1] = Synthetic
               /\ Retry[1] = Synthetic /\ Retry # <<>>
  BY DEF Greeting, Synthetic, Retry

\* So do those of the transcripts of a hello.
LEMMA TrFirst ==
  /\ ~mode.hrr => Tr(4) = <<Greeting>>
  /\ mode.hrr => Tr(4)[1] = Synthetic /\ Tr(4) # <<>>
  /\ Tr(1) = <<Greeting>>
  <1>1. Tr(4) = Hello /\ Tr(1) = <<Greeting>>
    BY TrEarly
  <1>2. mode.hrr => Hello = Append(Retry, Greeting)
    BY DEF Hello
  <1>3. Append(Retry, Greeting)[1] = Synthetic /\ Append(Retry, Greeting) # <<>>
    <2>1. \A a, b, c : Append(<<a, b>>, c)[1] = a /\ Append(<<a, b>>, c) # <<>>
      OBVIOUS
    <2> QED BY <2>1, Zenon DEF Retry
  <1> QED BY <1>1, <1>2, <1>3 DEF Hello

\* A client before the answer.
LEMMA StartClient ==
  ASSUME NEW e, Setting, Local("client", e), e.prog = "start", HereOK("client", e)
  PROVE  /\ e.pc \in 1..3 /\ Reach(e) \in 1..3 /\ (e.again => e.pc = 1)
         /\ Retried(e) => mode.hrr /\ Place(e) = Reach(e) + 10
         /\ ~Retried(e) => Place(e) = Reach(e)
         /\ Stands("client", e, Place(e)) /\ Place(e) \in Places("client")
         /\ Place(e) # 3 \/ ~mode.hrr
         /\ e.q = <<>>
  <1>1. ~Past(e) /\ Stands("client", e, Place(e))
    BY DEF HereOK, Past
  <1>2. e.pc \in 1..3
    BY Due DEF Ends, Setting
  <1>3. e.again => e.pc = 1
    <2>1. e.again => Engine("client", e.prog)[e.pc].op = "send"
      BY DEF Local
    <2>2. At("client", e) = Engine("client", e.prog)[e.pc]
      BY DEF At
    <2>3. e.pc = 2 => At("client", e).op = "recv"
      BY StartSteps DEF S
    <2>4. e.pc = 3 => At("client", e).op = "recv"
      BY StartSteps DEF S
    <2> QED BY <1>2, <2>1, <2>2, <2>3, <2>4
  <1>4. Reach(e) \in 1..3
    BY <1>2, <1>3 DEF Reach
  <1>5. /\ Retried(e) => Place(e) = Reach(e) + 10
        /\ ~Retried(e) => Place(e) = Reach(e)
    BY DEF Place
  <1>6. Place(e) \in 1..3 \cup 11..13
    BY <1>4, <1>5
  <1>7. Place(e) \in Places("client")
    BY <1>6 DEF Places, EndPlace
  <1>8. Retried(e) => mode.hrr
    <2>1. CASE Retried(e) /\ ~mode.hrr
      <3>1. Place(e) \in 11..13
        BY <1>4, <1>5, <2>1
      <3>2. e.tr = Tr(LastAt("client", Place(e)))
        BY <1>1, StandsParts DEF SecretsAt, LastAt, Forgets
      <3>3. LastAt("client", Place(e)) \in {4, 5}
        BY <3>1, <2>1, LastClient13, LastClient12, Last12r DEF Setting, Three
      <3>4. Tr(4) = <<Greeting>>
        BY <2>1, TrFirst
      <3>5. Tr(5) = Extend(Tr(4), 5)
        BY TrExtend
      <3>6. Tr(5)[1] = Greeting
        <4>1. Append(<<Greeting>>, <<"client", MsgOf(5)>>)[1] = Greeting /\ Append(<<Greeting>>, <<"server", MsgOf(5)>>)[1] = Greeting
          OBVIOUS
        <4> QED BY <3>4, <3>5, <4>1 DEF Extend
      <3>7. e.tr[1] = Greeting
        BY <3>2, <3>3, <3>4, <3>6
      <3> QED BY <3>7, <2>1, Synth DEF Retried
    <2> QED BY <2>1
  <1>9. Place(e) # 3 \/ ~mode.hrr
    BY <1>1, StandsParts DEF Notes
  <1>10. e.q = <<>>
    BY <1>1, StandsParts DEF QueueOK
  <1> QED BY <1>1, <1>2, <1>3, <1>4, <1>5, <1>7, <1>8, <1>9, <1>10

\* A server before the first hello.
LEMMA StartServer ==
  ASSUME NEW e, Setting, Local("server", e), e.prog = "start", HereOK("server", e)
  PROVE  /\ e.pc = 1 /\ ~e.again /\ Place(e) = 1 /\ Stands("server", e, 1) /\ e.q = <<>> /\ e.tr = <<>>
  <1>1. ~Past(e) /\ Stands("server", e, Place(e))
    BY DEF HereOK, Past
  <1>2. e.pc = 1
    BY Due DEF Ends, Setting
  <1>3. ~e.again
    <2>1. e.again => Engine("server", e.prog)[e.pc].op = "send"
      BY DEF Local
    <2>2. At("server", e) = Engine("server", e.prog)[e.pc]
      BY DEF At
    <2>3. At("server", e).op = "recv"
      BY <1>2, StartSteps DEF S
    <2> QED BY <2>1, <2>2, <2>3
  <1>4. Reach(e) = 1
    BY <1>2, <1>3 DEF Reach
  <1>5. ~Retried(e)
    <2>1. CASE Retried(e)
      <3>1. Place(e) = 11
        BY <1>4, <2>1 DEF Place
      <3>2. e.tr = Tr(LastAt("server", 11))
        BY <1>1, <3>1, StandsParts DEF SecretsAt, LastAt, Forgets
      <3>3. LastAt("server", 11) = IF mode.hrr THEN 1 ELSE 4
        BY LastServer13, LastServer12, Last12r DEF Setting, Three
      <3>4. e.tr = <<Greeting>>
        BY <3>2, <3>3, TrFirst
      <3> QED BY <2>1, <3>4, Synth DEF Retried
    <2> QED BY <2>1
  <1>6. Place(e) = 1
    BY <1>4, <1>5 DEF Place
  <1>7. e.tr = <<>>
    <2>1. LastAt("server", 1) = 0
      BY LastServer13, LastServer12, Last12r DEF Setting, Three
    <2>2. e.tr = Tr(LastAt("server", 1))
      BY <1>1, <1>6, StandsParts DEF SecretsAt, LastAt, Forgets
    <2> QED BY <2>1, <2>2, TrEarly
  <1>8. e.q = <<>>
    BY <1>1, StandsParts DEF QueueOK
  <1> QED BY <1>1, <1>2, <1>3, <1>6, <1>7, <1>8

\* An endpoint in the engine of its version.
LEMMA EnginePlace ==
  ASSUME NEW p \in Ends, NEW e, Setting, Local(p, e), e.prog \in {"13", "12", "12r"}, HereOK(p, e)
  PROVE  /\ e.prog = Version /\ e.pc \in Nat /\ e.pc + 10 \in Places(p) /\ e.pc + 11 \in Places(p)
         /\ Follows(p, e.pc + 10, e.pc + 11)
         /\ ~e.again => Place(e) = e.pc + 10
         /\ e.again => Place(e) = e.pc + 11
         /\ Stands(p, e, Place(e)) /\ ~Past(e)
         /\ p = "client" => e.pc >= 4
         /\ p = "server" => e.pc >= 2
  <1>1. ~Past(e) /\ Stands(p, e, Place(e))
    BY DEF HereOK, Past
  <1>2. e.prog = Version /\ e.pc \in Nat
    BY Where DEF Local, Core, Setting
  <1>3. /\ p = "client" => /\ e.prog = "13" => e.pc \in 4..18
                           /\ e.prog = "12" => e.pc \in 4..17
                           /\ e.prog = "12r" => e.pc \in 4..9
        /\ p = "server" => /\ e.prog = "13" => e.pc \in 2..23
                           /\ e.prog = "12" => e.pc \in 2..15
                           /\ e.prog = "12r" => e.pc \in 2..8
    BY Due DEF Setting
  <1>4. /\ ~e.again => Place(e) = e.pc + 10
        /\ e.again => Place(e) = e.pc + 11
    BY <1>2 DEF Place, Reach
  <1>5. CASE p = "client"
    BY <1>1, <1>2, <1>3, <1>4, <1>5 DEF Places, EndPlace, Follows, Setting, Three
  <1>6. CASE p = "server"
    BY <1>1, <1>2, <1>3, <1>4, <1>6 DEF Places, EndPlace, Follows, Setting, Three
  <1> QED BY <1>5, <1>6 DEF Ends

\* An engine skips a step where the script says so.
LEMMA SkipPlace ==
  ASSUME NEW p \in Ends, NEW e, Setting, Local(p, e), e.prog \in {"13", "12", "12r"}, HereOK(p, e), ~e.again
  PROVE  /\ Skips(p, e, At(p, e)) => SkipAt(p, e.pc + 10)
         /\ SkipAt(p, e.pc + 10) => Skips(p, e, At(p, e)) \/ (p = "server" /\ Version = "13" /\ e.pc \in {17, 23})
  <1>1. /\ e.prog = Version /\ e.pc \in Nat /\ Place(e) = e.pc + 10 /\ Stands(p, e, Place(e))
    BY EnginePlace
  <1>2. FlagsAt(p, e, e.pc + 10) /\ Notes(p, e, e.pc + 10)
    BY <1>1, StandsParts
  <1>3. /\ p = "client" => /\ e.prog = "13" => e.pc \in 4..18
                           /\ e.prog = "12" => e.pc \in 4..17
                           /\ e.prog = "12r" => e.pc \in 4..9
        /\ p = "server" => /\ e.prog = "13" => e.pc \in 2..23
                           /\ e.prog = "12" => e.pc \in 2..15
                           /\ e.prog = "12r" => e.pc \in 2..8
    BY Due DEF Setting
  <1>4. e.done => DoneAt(p, e.pc + 10)
    BY <1>2 DEF Notes
  <1>5. CASE Version = "13"
    <2>1. ~e.done
      BY <1>4, <1>5 DEF DoneAt
    <2>2. CASE p = "client"
      BY <1>1, <1>2, <1>3, <1>5, <2>1, <2>2, SkipsClient13
    <2>3. CASE p = "server"
      BY <1>1, <1>2, <1>3, <1>5, <2>1, <2>3, SkipsServer13
    <2> QED BY <2>2, <2>3 DEF Ends
  <1>6. CASE Version = "12"
    <2>2. CASE p = "client"
      <3>1. ~e.done
        BY <1>1, <1>3, <1>4, <1>6, <2>2 DEF DoneAt
      <3> QED BY <1>1, <1>2, <1>3, <1>6, <3>1, <2>2, SkipsClient12
    <2>3. CASE p = "server"
      <3>1. e.done => e.pc >= 12
        BY <1>1, <1>3, <1>4, <1>6, <2>3 DEF DoneAt
      <3> QED BY <1>1, <1>2, <1>3, <1>6, <3>1, <2>3, SkipsServer12
    <2> QED BY <2>2, <2>3 DEF Ends
  <1>7. CASE Version = "12r"
    BY <1>1, <1>2, <1>3, <1>7, SkipsClient12r, SkipsServer12r DEF Ends
  <1> QED BY <1>5, <1>6, <1>7 DEF Setting, Three

-----------------------------------------------------------------------------
(* Going on without a word.                                                  *)

\* What an endpoint at place n said and heard.
LEMMA FitPlace ==
  ASSUME NEW p \in Ends, NEW e, Setting, ~Past(e), Place(e) \in Places(p), Buffers(e)
  PROVE  /\ Fit(p, e) /\ Said(p, e) = SaidAt(p, Place(e)) /\ HeardTo(p, e) = HeardAt(p, Place(e))
         /\ SaidAt(p, Place(e)) \in 0..17 /\ HeardAt(p, Place(e)) \in 0..17
  <1>1. Said(p, e) = SaidAt(p, Place(e)) /\ HeardTo(p, e) = HeardAt(p, Place(e))
    BY DEF Said, HeardTo
  <1>2. SaidAt(p, Place(e)) \in 0..17 /\ HeardAt(p, Place(e)) \in 0..17
    BY SaidRange DEF Setting
  <1> QED BY <1>1, <1>2 DEF Fit, Ranged

\* The same records have the same numbers.
LEMMA SameSlots ==
  ASSUME NEW p, NEW e, NEW g, Unread(g) = Unread(e), First1(p, g) = First1(p, e)
  PROVE  Slots(p, g) = Slots(p, e)
  BY DEF Slots

\* A hello is the first only at the start.
LEMMA NoFirst1 == ASSUME NEW p, NEW e, e.prog # "start" PROVE First1(p, e) = FALSE
  BY DEF First1

\* An endpoint glides from place n to m.
LEMMA GlideTalk ==
  ASSUME NEW p \in Ends, NEW e, NEW g, NEW o, Setting, Talk(p, e, o), Fit(Peer(p), o),
         ~Past(e), Place(e) \in Places(p), Buffers(e), ~Past(g), Place(g) \in Places(p), Buffers(g),
         Glides(p, Place(e), Place(g)), Unread(g) = Unread(e), First1(p, g) = First1(p, e),
         g.sent = e.sent, g.got = e.got
  PROVE  Talk(p, g, o)
  <1>1. /\ Fit(p, e) /\ Said(p, e) = SaidAt(p, Place(e)) /\ HeardTo(p, e) = HeardAt(p, Place(e))
        /\ Fit(p, g) /\ Said(p, g) = SaidAt(p, Place(g)) /\ HeardTo(p, g) = HeardAt(p, Place(g))
    BY FitPlace, Zenon
  <1>2. HeardAt(p, Place(g)) \in 0..17
    BY FitPlace, Zenon
  <1>3. HeardTo(p, g) < 102
    BY <1>1, <1>2
  <1>4. Slots(p, g) = Slots(p, e)
    BY SameSlots, Zenon
  <1>5. Passing(p, e, g)
    BY <1>1, <1>3, <1>4, Zenon DEF Passing, Glides
  <1> QED BY <1>1, <1>5, TalkPass, Zenon

\* What Advance does.
LEMMA AdvanceIs ==
  ASSUME NEW p, NEW f, DOMAIN f = Fields, f.err = "none", f.pc \in Nat
  PROVE  /\ f.pc # Len(Engine(p, f.prog)) => Advance(p, f) = Moved(f)
         /\ f.pc = Len(Engine(p, f.prog)) => Advance(p, f) = Complete([f EXCEPT !.again = FALSE])
  <1>1. /\ [f EXCEPT !.again = FALSE].err = "none" /\ [f EXCEPT !.again = FALSE].pc = f.pc
        /\ [f EXCEPT !.again = FALSE].prog = f.prog
        /\ [[f EXCEPT !.again = FALSE] EXCEPT !.pc = @ + 1] = Moved(f)
    BY DEF Fields, Moved
  <1> QED BY <1>1 DEF Advance

\* The end of an engine, in numbers.
LEMMA EndNumbers ==
  ASSUME NEW p \in Ends, Setting
  PROVE  /\ SaidAt(p, EndPlace(p)) = LastOwn(p) /\ HeardAt(p, EndPlace(p)) = LastOwn(Peer(p))
         /\ Version = "13" => LastAt(p, EndPlace(p)) = 17
         /\ WriteKeyAt(p, EndPlace(p)) = LateK /\ ReadKeyAt(p, EndPlace(p)) = LateK
         /\ Len(Engine(p, Version)) + 11 = EndPlace(p) /\ QueueEnd(p) <= Len(Engine(p, Version))
         /\ Len(Engine(p, Version)) \in Nat
  <1>1. SaidAt(p, EndPlace(p)) = LastOwn(p) /\ HeardAt(p, EndPlace(p)) = LastOwn(Peer(p))
    <2>1. CASE p = "client"
      BY <2>1 DEF SaidAt, HeardAt, EndPlace, LastOwn, Peer, Setting, Three
    <2>2. CASE p = "server"
      BY <2>2 DEF SaidAt, HeardAt, EndPlace, LastOwn, Peer, Setting, Three
    <2> QED BY <2>1, <2>2 DEF Ends
  <1>2. Version = "13" => LastAt(p, EndPlace(p)) = 17
    <2>1. CASE p = "client"
      BY <2>1, LastClient13 DEF EndPlace
    <2>2. CASE p = "server"
      BY <2>2, LastServer13 DEF EndPlace
    <2> QED BY <2>1, <2>2 DEF Ends
  <1>3. WriteKeyAt(p, EndPlace(p)) = LateK /\ ReadKeyAt(p, EndPlace(p)) = LateK
    <2>1. CASE p = "client"
      BY <2>1 DEF WriteKeyAt, ReadKeyAt, EndPlace, LateK, Write12, Read12, Setting, Three
    <2>2. CASE p = "server"
      BY <2>2 DEF WriteKeyAt, ReadKeyAt, EndPlace, LateK, Write12, Read12, Setting, Three
    <2> QED BY <2>1, <2>2 DEF Ends
  <1>4. /\ Len(Engine(p, Version)) + 11 = EndPlace(p) /\ QueueEnd(p) <= Len(Engine(p, Version))
        /\ Len(Engine(p, Version)) \in Nat
    <2> DEFINE n == Len(Engine(p, Version))
    <2>0. Version \in {"13", "12", "12r"} /\ p \in {"client", "server"}
      BY DEF Setting, Three, Ends
    <2>1. /\ p = "client" /\ Version = "13" => n = 18
          /\ p = "client" /\ Version = "12" => n = 17
          /\ p = "client" /\ Version = "12r" => n = 9
          /\ p = "server" /\ Version = "13" => n = 23
          /\ p = "server" /\ Version = "12" => n = 15
          /\ p = "server" /\ Version = "12r" => n = 8
      BY Lengths
    <2> HIDE DEF n
    <2>2. n + 11 = EndPlace(p) /\ QueueEnd(p) <= n /\ n \in Nat
      BY <2>0, <2>1 DEF EndPlace, QueueEnd
    <2> QED BY <2>2 DEF n
  <1> QED BY <1>1, <1>2, <1>3, <1>4

\* Nothing is spoken between the initial handshake and what follows.
LEMMA EndQuiet ==
  ASSUME NEW p \in Ends, Setting
  PROVE  /\ LastOwn(p) <= 100 /\ Quiet(p, LastOwn(p), 100) /\ StillPending(p, LastOwn(p), 100)
         /\ Stays8(p, LastOwn(p), 100)
  <1>1. LastOwn(p) \in 13..17
    BY LastOwnRange
  <1>2. Quiet(p, LastOwn(p), 100)
    <2>1. ASSUME NEW j \in 1..104, Spoken(p, j), LastOwn(p) < j, j <= 100 PROVE FALSE
      <3>1. j # 100 /\ (j <= LastOwn(p) \/ j \in 101..104)
        BY <2>1, Numbered DEF Spoken, Setting
      <3> QED BY <1>1, <2>1, <3>1
    <2> QED BY <2>1, Zenon DEF Quiet
  <1>3. StillPending(p, LastOwn(p), 100)
    BY DEF StillPending, Pending, LastOwn, Silent, Ends
  <1>4. Stays8(p, LastOwn(p), 100)
    BY <1>1 DEF Stays8
  <1> QED BY <1>1, <1>2, <1>3, <1>4

-----------------------------------------------------------------------------
(* The end of an engine.                                                     *)

\* The counters at the end of a handshake, of a re-authentication and of a ticket.
LEMMA AuxComplete ==
  ASSUME NEW f, DOMAIN f = Fields
  PROVE  LET g == Complete([f EXCEPT !.again = FALSE])
         IN  /\ g.sent = f.sent /\ g.got = f.got /\ g.extra = f.extra
             /\ f.prog = "reauth" => g.auths = f.auths + 1
             /\ f.prog # "reauth" => g.auths = f.auths
             /\ f.prog \in {"ticket", "reauth"} => g.done = f.done /\ g.started = f.started
             /\ f.prog \notin {"ticket", "reauth"} => g.done = TRUE /\ g.started = FALSE
             /\ g.err = f.err
  <1> DEFINE h == [f EXCEPT !.again = FALSE]
  <1>1. /\ DOMAIN h = Fields /\ h.prog = f.prog /\ h.sent = f.sent /\ h.got = f.got /\ h.extra = f.extra
        /\ h.auths = f.auths /\ h.done = f.done /\ h.started = f.started /\ h.err = f.err /\ h.tr = f.tr
    BY DEF Fields
  <1> HIDE DEF h
  <1>2. CASE f.prog = "ticket"
    BY <1>1, <1>2 DEF Complete, Fields, h
  <1>3. CASE f.prog = "reauth"
    BY <1>1, <1>3 DEF Complete, Fields, h
  <1>4. CASE f.prog \notin {"ticket", "reauth"}
    <2> DEFINE d == [h EXCEPT !.prog = "none", !.pc = 1, !.started = FALSE, !.done = TRUE,
                             !.saved = h.tr, !.tr = <<>>]
    <2>1. /\ DOMAIN d = Fields /\ d.sent = h.sent /\ d.got = h.got /\ d.extra = h.extra
          /\ d.auths = h.auths /\ d.done = TRUE /\ d.started = FALSE /\ d.err = h.err
      BY <1>1 DEF Fields
    <2>2. Complete(h) = GcBump(d)
      BY <1>1, <1>4 DEF Complete
    <2> HIDE DEF d
    <2> DEFINE c == GcBump(d)
    <2>3. /\ c.sent = d.sent /\ c.got = d.got /\ c.extra = d.extra
          /\ c.auths = d.auths /\ c.done = d.done /\ c.started = d.started /\ c.err = d.err
      BY <2>1 DEF GcBump, Fields
    <2> HIDE DEF c
    <2> QED BY <1>1, <1>4, <2>1, <2>2, <2>3 DEF h, c
  <1> QED BY <1>2, <1>3, <1>4

\* An endpoint at rest has said and heard everything.
LEMMA RestNumbers ==
  ASSUME NEW p \in Ends, NEW g, g.prog = "none", g.auths = 0
  PROVE  Past(g) /\ Said(p, g) = 100 /\ HeardTo(p, g) = 100
  BY DEF Past, Said, HeardTo, AuthSaid, AuthHeard

\* Nothing is left to read of what does not wait.
LEMMA UnreadKept ==
  ASSUME NEW e, NEW g, SameBuffers(e, g), e.q = <<>>
  PROVE  Unread(g) = Unread(e)
  BY UnreadSame

\* The last flags of a server.
LEMMA EndFlags ==
  ASSUME NEW e, Setting, Version = "13", FlagsAt("server", e, EndPlace("server"))
  PROVE  ~Has(e, "in_flight") /\ (Has(e, "crt_vrfy_expected") => mode.cc)
  BY DEF FlagsAt, ServerFlags, EndPlace

\* The keys that are in use survive the end of a handshake.
LEMMA EndKeys ==
  ASSUME NEW p \in Ends, NEW f, DOMAIN f = Fields, f.prog \in {"13", "12", "12r"},
         Local(p, Complete([f EXCEPT !.again = FALSE]))
  PROVE  LET g == Complete([f EXCEPT !.again = FALSE])
         IN  g.keys[g.we] = f.keys[f.we] /\ g.keys[g.re] = f.keys[f.re]
  <1> DEFINE g == Complete([f EXCEPT !.again = FALSE])
  <1>1. /\ g.prog = "none" /\ g.re = f.re /\ g.we = f.we
        /\ \E live \in SUBSET DOMAIN f.keys : /\ DOMAIN g.keys = live
                                              /\ \A i \in live : g.keys[i] = f.keys[i]
    BY CompleteFields
  <1> HIDE DEF g
  <1>2. Local(p, g)
    BY DEF g
  <1>3. g.re \in DOMAIN g.keys /\ g.we \in DOMAIN g.keys
    BY <1>1, <1>2 DEF Local, Core, EpochsOK, Past
  <1>4. g.keys[g.we] = f.keys[f.we] /\ g.keys[g.re] = f.keys[f.re]
    BY <1>1, <1>3
  <1> QED BY <1>4 DEF g

\* What holds behind the last step holds at rest.
LEMMA EndRested ==
  ASSUME NEW p \in Ends, NEW f, Setting, DOMAIN f = Fields, f.err = "none", f.prog = Version,
         f.pc = Len(Engine(p, f.prog)), Stands(p, Moved(f), EndPlace(p)),
         Local(p, Complete([f EXCEPT !.again = FALSE]))
  PROVE  LET g == Complete([f EXCEPT !.again = FALSE])
         IN  /\ HereOK(p, g) /\ g.auths = 0 /\ g.prog = "none" /\ g.q = <<>> /\ f.q = <<>>
  <1> DEFINE g == Complete([f EXCEPT !.again = FALSE])
             m == Moved(f)
  <1>1. f.prog \in {"13", "12", "12r"}
    BY DEF Setting, Three
  <1>2. /\ m.pc = f.pc + 1 /\ m.prog = f.prog /\ SameEpochs(f, m) /\ m.tr = f.tr /\ m.flags = f.flags /\ m.q = f.q
    BY MovedFields DEF SameSecrets, SameBuffers
  <1>3. m.auths = f.auths
    BY AuxMoved DEF Aux
  <1>4. /\ Notes(p, m, EndPlace(p)) /\ QueueOK(p, m)
        /\ KeysAt(p, m, EndPlace(p)) /\ FlagsAt(p, m, EndPlace(p)) /\ SecretsAt(p, m, EndPlace(p))
    BY StandsParts
  <1>5. /\ g.prog = "none" /\ g.q = f.q /\ g.saved = f.tr /\ g.flags = f.flags
    BY CompleteFields, <1>1 DEF SameBuffers
  <1>6. g.done = TRUE /\ g.started = FALSE /\ g.auths = f.auths /\ g.err = f.err
    BY AuxComplete, <1>1
  <1>7. g.keys[g.we] = f.keys[f.we] /\ g.keys[g.re] = f.keys[f.re]
    BY EndKeys, <1>1
  <1> HIDE DEF g, m
  <1>8. g.auths = 0
    BY <1>3, <1>4, <1>6 DEF Notes
  <1>9. f.q = <<>>
    <2>1. QueueEnd(p) <= Len(Engine(p, Version)) /\ Len(Engine(p, Version)) \in Nat /\ QueueEnd(p) \in Nat
      BY EndNumbers DEF QueueEnd
    <2> DEFINE n == Len(Engine(p, Version))
    <2>2. f.pc = n
      OBVIOUS
    <2> HIDE DEF n
    <2>3. QueueEnd(p) <= n /\ n \in Nat /\ QueueEnd(p) \in Nat
      BY <2>1 DEF n
    <2>4. ~(m.pc <= QueueEnd(p))
      BY <1>2, <2>2, <2>3
    <2> QED BY <1>2, <1>4, <2>4 DEF QueueOK
  <1>10. g.keys[g.we].w = LateK /\ g.keys[g.re].r = LateK
    BY <1>2, <1>4, <1>7, EndNumbers DEF KeysAt, SameEpochs
  <1>11. Version = "13" => g.saved = Tr(17)
    <2>1. ~Forgets(p, EndPlace(p))
      BY DEF Forgets, EndPlace
    <2>2. m.tr = Tr(LastAt(p, EndPlace(p)))
      BY <1>4, <2>1 DEF SecretsAt, LastAt
    <2> QED BY <1>2, <1>5, <2>2, EndNumbers
  <1>12. Version = "13" /\ p = "server" => ~Has(g, "in_flight") /\ (Has(g, "crt_vrfy_expected") => mode.cc)
    <2>1. Has(g, "in_flight") = Has(m, "in_flight") /\ Has(g, "crt_vrfy_expected") = Has(m, "crt_vrfy_expected")
      BY <1>2, <1>5 DEF Has
    <2> QED BY <2>1, <1>4, EndFlags
  <1>13. Version = "13" => Rests13(p, g)
    BY <1>5, <1>8, <1>11, <1>12 DEF Rests13
  <1>14. Rested(p, g)
    BY <1>5, <1>6, <1>8, <1>9, <1>10, <1>13 DEF Rested
  <1>15. HereOK(p, g)
    BY <1>5, <1>6, <1>14 DEF HereOK, Past
  <1> QED BY <1>5, <1>8, <1>9, <1>15 DEF g

\* The conversation at the end of a handshake.
LEMMA EndTalk ==
  ASSUME NEW p \in Ends, NEW m, NEW g, NEW o, Setting, Talk(p, m, o), Fit(Peer(p), o), Buffers(m),
         ~Past(m), m.prog # "start", Place(m) = EndPlace(p),
         g.prog = "none", g.auths = 0, SameBuffers(m, g), m.q = <<>>, g.sent = m.sent, g.got = m.got
  PROVE  Talk(p, g, o)
  <1>1. Past(g) /\ Said(p, g) = 100 /\ HeardTo(p, g) = 100
    BY RestNumbers
  <1>2. EndPlace(p) \in Places(p)
    BY DEF EndPlace, Places
  <1>3. Fit(p, m) /\ Said(p, m) = SaidAt(p, EndPlace(p)) /\ HeardTo(p, m) = HeardAt(p, EndPlace(p))
    BY <1>2, FitPlace
  <1>4. Said(p, m) = LastOwn(p) /\ HeardTo(p, m) = LastOwn(Peer(p))
    BY <1>3, EndNumbers
  <1>5. Fit(p, g)
    BY <1>1 DEF Fit, Ranged, Buffers, SameBuffers
  <1>6. Unread(g) = Unread(m)
    BY UnreadKept
  <1>7. First1(p, g) = First1(p, m)
    BY NoFirst1
  <1>8. Slots(p, g) = Slots(p, m)
    BY <1>6, <1>7, SameSlots
  <1>9. /\ LastOwn(p) <= 100 /\ Quiet(p, LastOwn(p), 100) /\ Stays8(p, LastOwn(p), 100)
        /\ LastOwn(Peer(p)) <= 100 /\ Quiet(Peer(p), LastOwn(Peer(p)), 100)
        /\ StillPending(Peer(p), LastOwn(Peer(p)), 100)
    BY EndQuiet, PeerEnds
  <1>10. Passing(p, m, g)
    BY <1>1, <1>4, <1>6, <1>8, <1>9 DEF Passing
  <1> QED BY <1>3, <1>5, <1>10, TalkPass

OK(p, e, o) == HereOK(p, e) /\ Talk(p, e, o)

\* A step of the engine is followed by the next or by the end.
LEMMA AdvanceOK ==
  ASSUME NEW p \in Ends, NEW f, NEW o, Setting, DOMAIN f = Fields, f.err = "none", f.prog = Version,
         f.pc \in Nat, Buffers(f), Fit(Peer(p), o),
         Stands(p, Moved(f), f.pc + 11), Talk(p, Moved(f), o), Local(p, Advance(p, f))
  PROVE  OK(p, Advance(p, f), o)
  <1> DEFINE m == Moved(f)
  <1>1. /\ m.pc = f.pc + 1 /\ m.again = FALSE /\ m.prog = f.prog /\ SameBuffers(f, m) /\ m.err = f.err
    BY MovedFields
  <1>2. Aux(f, m)
    BY AuxMoved
  <1>3. f.prog \in {"13", "12", "12r"}
    BY DEF Setting, Three
  <1>4. Talk(p, m, o) /\ Stands(p, m, f.pc + 11)
    OBVIOUS
  <1> HIDE DEF m
  <1>5. Place(m) = f.pc + 11 /\ ~Past(m) /\ m.prog # "start"
    BY <1>1, <1>3 DEF Place, Reach, Past
  <1>6. CASE f.pc # Len(Engine(p, f.prog))
    <2>1. Advance(p, f) = m
      BY <1>6, AdvanceIs DEF m
    <2>2. HereOK(p, m)
      BY <1>1, <1>4, <1>5 DEF HereOK
    <2> QED BY <1>4, <2>1, <2>2 DEF OK
  <1>7. CASE f.pc = Len(Engine(p, f.prog))
    <2> DEFINE g == Complete([f EXCEPT !.again = FALSE])
    <2>1. Advance(p, f) = g
      BY <1>7, AdvanceIs
    <2>2. f.pc + 11 = EndPlace(p)
      BY <1>7, EndNumbers
    <2>3. HereOK(p, g) /\ g.auths = 0 /\ g.prog = "none" /\ g.q = <<>> /\ f.q = <<>>
      BY <1>7, <2>1, <2>2, EndRested
    <2>4. SameBuffers(f, g)
      BY CompleteFields
    <2>5. g.sent = f.sent /\ g.got = f.got
      BY AuxComplete
    <2> HIDE DEF g
    <2>6. SameBuffers(m, g) /\ m.q = <<>> /\ g.sent = m.sent /\ g.got = m.got /\ Buffers(m)
      BY <1>1, <1>2, <2>3, <2>4, <2>5 DEF SameBuffers, Aux, Buffers
    <2>7. Talk(p, g, o)
      BY <1>4, <1>5, <2>2, <2>3, <2>6, EndTalk
    <2> QED BY <2>1, <2>3, <2>7 DEF OK
  <1> QED BY <1>6, <1>7

-----------------------------------------------------------------------------
(* Steps without a word.                                                     *)

\* Moving to the next step leaves the unread records the same.
LEMMA UnreadMoved ==
  ASSUME NEW f, DOMAIN f = Fields, Buffers(f)
  PROVE  Unread(Moved(f)) = Unread(f) /\ Buffers(Moved(f))
  <1> DEFINE m == Moved(f)
  <1>1. SameBuffers(f, m) /\ m.keys = f.keys
    BY MovedFields DEF SameEpochs
  <1> HIDE DEF m
  <1>2. Unread(m) = Unread(f)
    BY <1>1, UnreadSame
  <1>3. Buffers(m)
    BY <1>1 DEF Buffers, SameBuffers
  <1> QED BY <1>2, <1>3 DEF m

\* The engine of the version goes on and nothing is said or heard.
LEMMA GlideOK ==
  ASSUME NEW p \in Ends, NEW e, NEW f, NEW o, Setting, Local(p, e), HereOK(p, e), Talk(p, e, o), Fit(Peer(p), o),
         e.prog \in {"13", "12", "12r"}, Local(p, Advance(p, f)),
         DOMAIN f = Fields, f.err = "none", f.prog = e.prog, f.pc = e.pc,
         Unread(f) = Unread(e), Buffers(f), f.sent = e.sent, f.got = e.got,
         Stands(p, Moved(f), e.pc + 11), Glides(p, Place(e), e.pc + 11)
  PROVE  OK(p, Advance(p, f), o)
  <1> DEFINE m == Moved(f)
  <1>1. /\ e.prog = Version /\ e.pc \in Nat /\ e.pc + 10 \in Places(p) /\ e.pc + 11 \in Places(p)
        /\ ~e.again => Place(e) = e.pc + 10
        /\ e.again => Place(e) = e.pc + 11
        /\ ~Past(e)
    BY EnginePlace
  <1>2. Place(e) \in Places(p)
    BY <1>1
  <1>3. Buffers(e)
    BY DEF Local, Core, ItemsOK, Buffers
  <1>4. m.pc = f.pc + 1 /\ m.again = FALSE /\ m.prog = f.prog
    BY MovedFields
  <1>5. Unread(m) = Unread(e) /\ Buffers(m)
    BY UnreadMoved
  <1>6. m.sent = e.sent /\ m.got = e.got
    BY AuxMoved DEF Aux
  <1>7. Stands(p, m, e.pc + 11)
    OBVIOUS
  <1> HIDE DEF m
  <1>8. Place(m) = e.pc + 11 /\ ~Past(m) /\ m.prog # "start" /\ e.prog # "start"
    BY <1>1, <1>4 DEF Place, Reach, Past
  <1>9. First1(p, m) = First1(p, e)
    BY <1>8, NoFirst1
  <1>10. Talk(p, m, o)
    BY <1>1, <1>2, <1>3, <1>5, <1>6, <1>8, <1>9, GlideTalk
  <1> QED BY <1>1, <1>7, <1>10, AdvanceOK DEF m

\* Staying is gliding.
LEMMA GlideHere ==
  ASSUME NEW p \in Ends, NEW n \in Places(p), Setting
  PROVE  Glides(p, n, n)
  <1>1. SaidAt(p, n) \in 0..17 /\ HeardAt(p, n) \in 0..17
    BY SaidRange DEF Setting
  <1>2. /\ Quiet(p, SaidAt(p, n), SaidAt(p, n)) /\ Quiet(Peer(p), HeardAt(p, n), HeardAt(p, n))
        /\ StillPending(Peer(p), HeardAt(p, n), HeardAt(p, n))
    BY <1>1, QuietHere
  <1>3. Stays8(p, SaidAt(p, n), SaidAt(p, n))
    BY DEF Stays8
  <1> QED BY <1>1, <1>2, <1>3 DEF Glides

\* Where a plain step leaves the messages that wait.
LEMMA PlainQueue ==
  ASSUME NEW p \in Ends, NEW n \in Nat, Setting, PlainAt(p, n) \/ KeyStep(p, n)
  PROVE  n # QueueEnd(p) + 10
  <1>1. PlainAt(p, n) => n # QueueEnd(p) + 10
    <2>1. CASE p = "client"
      BY <2>1 DEF PlainAt, SkipAt, AbsentAt, RestAt, CcsAt, QueueEnd, Setting, Three
    <2>2. CASE p = "server"
      BY <2>2 DEF PlainAt, SkipAt, AbsentAt, RestAt, CcsAt, QueueEnd, Setting, Three
    <2> QED BY <2>1, <2>2 DEF Ends
  <1>2. KeyStep(p, n) => n # QueueEnd(p) + 10
    BY DEF KeyStep, QueueEnd, Setting, Three, Ends, Write12, Read12
  <1> QED BY <1>1, <1>2

\* And the queue is in order at the next step.
LEMMA QueueMoved ==
  ASSUME NEW p \in Ends, NEW e, NEW m, QueueOK(p, e), m.q = e.q, m.prog = e.prog, m.again = FALSE,
         e.pc \in Nat, m.pc = e.pc + 1, e.pc # QueueEnd(p), e.we \in Nat, m.we \in Nat, e.we <= m.we
  PROVE  QueueOK(p, m)
  <1>1. QueueEnd(p) \in Nat
    BY DEF QueueEnd
  <1> QED BY <1>1 DEF QueueOK

\* A step that is skipped or finds nothing to do.
LEMMA RestOK ==
  ASSUME NEW p \in Ends, NEW e, NEW f, NEW o, Setting, Local(p, e), HereOK(p, e), Talk(p, e, o), Fit(Peer(p), o),
         e.prog \in {"13", "12", "12r"}, ~e.again, Local(p, Advance(p, f)),
         SameRest(e, f), SameBuffers(e, f), f.sent = e.sent, f.got = e.got, f.auths = e.auths, f.done = e.done,
         f.started = e.started \/ StartedAt(p, e.pc + 11),
         PlainAt(p, e.pc + 10), Glides(p, e.pc + 10, e.pc + 11)
  PROVE  OK(p, Advance(p, f), o)
  <1> DEFINE m == Moved(f)
             n == e.pc + 10
  <1>1. /\ e.pc \in Nat /\ e.pc + 10 \in Places(p) /\ e.pc + 11 \in Places(p)
        /\ Follows(p, e.pc + 10, e.pc + 11) /\ Place(e) = e.pc + 10 /\ Stands(p, e, Place(e))
    BY EnginePlace
  <1>2. n \in Nat /\ n + 1 = e.pc + 11 /\ n = e.pc + 10
    BY <1>1
  <1>3. /\ m.pc = f.pc + 1 /\ m.again = FALSE /\ m.prog = f.prog /\ SameEpochs(f, m)
        /\ m.tr = f.tr /\ m.psk = f.psk /\ m.mark = f.mark /\ m.flags = f.flags /\ m.q = f.q
    BY MovedFields DEF SameRest, SameSecrets, SameBuffers
  <1>4. Aux(f, m)
    BY AuxMoved DEF SameRest
  <1> HIDE DEF m, n
  <1>5. QueueOK(p, m)
    <2>1. n # QueueEnd(p) + 10
      BY <1>2, PlainQueue
    <2>2. e.pc # QueueEnd(p)
      BY <2>1, <1>2
    <2>3. e.we \in Nat
      BY Table DEF Setting
    <2>4. QueueOK(p, e)
      BY <1>1, StandsParts
    <2>5. m.q = e.q /\ m.prog = e.prog /\ m.again = FALSE /\ m.pc = e.pc + 1 /\ m.we = e.we
      BY <1>3 DEF SameRest, SameControl, SameEpochs, SameBuffers
    <2>6. m.we \in Nat /\ e.we <= m.we
      BY <2>3, <2>5
    <2>7. e.pc \in Nat
      BY <1>1
    <2> QED BY <2>2, <2>3, <2>4, <2>5, <2>6, <2>7, QueueMoved, Zenon
  <1>6. /\ SameEpochs(e, m) /\ m.flags = e.flags /\ m.tr = e.tr /\ m.psk = e.psk /\ m.mark = e.mark
        /\ m.auths = e.auths /\ m.done = e.done
    BY <1>3, <1>4 DEF SameRest, SameEpochs, SameSecrets, Aux
  <1>7. m.started = e.started \/ StartedAt(p, n + 1)
    BY <1>2, <1>4 DEF Aux
  <1>8. Stands(p, m, n + 1)
    BY <1>1, <1>2, <1>5, <1>6, <1>7, PlainStands
  <1>9. Stands(p, Moved(f), e.pc + 11)
    BY <1>2, <1>8 DEF m
  <1>10. Unread(f) = Unread(e) /\ Buffers(f)
    <2>1. f.keys = e.keys
      BY DEF SameRest, SameEpochs
    <2>2. Unread(f) = Unread(e)
      BY <2>1, UnreadSame
    <2> QED BY <2>2 DEF Local, Core, ItemsOK, Buffers, SameBuffers
  <1>11. DOMAIN f = Fields /\ f.err = e.err /\ f.prog = e.prog /\ f.pc = e.pc /\ f.err = "none"
    BY DEF SameRest, SameControl, HereOK
  <1>12. Glides(p, Place(e), e.pc + 11)
    BY <1>1
  <1> QED BY <1>9, <1>10, <1>11, <1>12, GlideOK

\* An optional message that does not come was not sent.
LEMMA GlideAbsent ==
  ASSUME NEW p \in Ends, NEW n \in Nat, NEW m \in Nat, Setting, Follows(p, n, m), m = n + 1,
         n \in Places(p), m \in Places(p), AbsentAt(p, n)
  PROVE  Glides(p, n, m)
  <1>0. p = "client" /\ Three /\ n \in {2, 12, 16, 19}
    BY DEF AbsentAt, Setting
  <1>1. SaidAt(p, m) = SaidAt(p, n) /\ SaidAt(p, n) \in 0..17 /\ HeardAt(p, n) \in 0..17 /\ HeardAt(p, m) \in 0..17
    <2>1. SaidAt(p, n) \in 0..17 /\ HeardAt(p, n) \in 0..17 /\ HeardAt(p, m) \in 0..17
      BY SaidRange DEF Setting
    <2>2. SaidAt(p, m) = SaidAt(p, n)
      BY <1>0 DEF AbsentAt, SaidAt, Three
    <2> QED BY <2>1, <2>2
  <1>2. HeardAt(p, m) = HeardAt(p, n) \/ ~Spoken(Peer(p), HeardAt(p, m))
    <2>1. CASE Version = "13"
      BY <1>0, <2>1 DEF AbsentAt, HeardAt, Spoken, Sends, Peer
    <2>2. CASE Version = "12"
      BY <1>0, <2>2 DEF AbsentAt, HeardAt, Spoken, Sends, Peer
    <2>3. CASE Version = "12r"
      BY <1>0, <2>3 DEF AbsentAt, HeardAt, Spoken, Sends, Peer
    <2> QED BY <1>0, <2>1, <2>2, <2>3 DEF Three
  <1>3. HeardAt(p, n) <= HeardAt(p, m) /\ Alone(Peer(p), HeardAt(p, m), HeardAt(p, n), HeardAt(p, m))
    BY HeardNext DEF Setting
  <1>4. Quiet(Peer(p), HeardAt(p, n), HeardAt(p, m))
    BY <1>1, <1>2, <1>3, QuietAlone
  <1>5. Quiet(p, SaidAt(p, n), SaidAt(p, m))
    BY <1>1, QuietHere
  <1>6. Stays8(p, SaidAt(p, n), SaidAt(p, m))
    BY <1>1 DEF Stays8
  <1>7. StillPending(Peer(p), HeardAt(p, n), HeardAt(p, m))
    <2> SUFFICES ASSUME NEW k \in 1..8, Silent(k), Pending(Peer(p), k, HeardAt(p, n))
                 PROVE  Pending(Peer(p), k, HeardAt(p, m))
      BY Zenon DEF StillPending
    <2>1. Version = "13"
      BY DEF Silent
    <2> QED BY <1>0, <2>1 DEF AbsentAt, HeardAt, Pending, Peer
  <1> QED BY <1>1, <1>3, <1>4, <1>5, <1>6, <1>7 DEF Glides

\* What a plain step is.
LEMMA PlainGlides ==
  ASSUME NEW p \in Ends, NEW n \in Nat, NEW m \in Nat, Setting, Follows(p, n, m), m = n + 1,
         n \in Places(p), m \in Places(p), SkipAt(p, n) \/ AbsentAt(p, n) \/ RestAt(p, n)
  PROVE  Glides(p, n, m) /\ PlainAt(p, n)
  <1>1. PlainAt(p, n)
    BY DEF PlainAt
  <1>2. RestAt(p, n) => IdleAt(p, n)
    BY DEF RestAt, IdleAt
  <1>3. CASE SkipAt(p, n) \/ RestAt(p, n)
    BY <1>1, <1>2, <1>3, Glide, SettingParts
  <1>4. CASE AbsentAt(p, n)
    BY <1>1, <1>4, GlideAbsent
  <1> QED BY <1>3, <1>4

\* A step that is skipped, an optional message that does not come, or nothing
\* to be done.
LEMMA PlainOK ==
  ASSUME NEW p \in Ends, NEW e, NEW f, NEW o, Setting, Local(p, e), HereOK(p, e), Talk(p, e, o), Fit(Peer(p), o),
         e.prog \in {"13", "12", "12r"}, ~e.again, Local(p, Advance(p, f)),
         SameRest(e, f), SameBuffers(e, f), f.sent = e.sent, f.got = e.got, f.auths = e.auths, f.done = e.done,
         f.started = e.started \/ StartedAt(p, e.pc + 11),
         SkipAt(p, e.pc + 10) \/ AbsentAt(p, e.pc + 10) \/ RestAt(p, e.pc + 10)
  PROVE  OK(p, Advance(p, f), o)
  <1>1. /\ e.pc \in Nat /\ e.pc + 10 \in Places(p) /\ e.pc + 11 \in Places(p)
        /\ Follows(p, e.pc + 10, e.pc + 11)
    BY EnginePlace
  <1> DEFINE n == e.pc + 10
             m == e.pc + 11
  <1>2. n \in Nat /\ m \in Nat /\ m = n + 1
    BY <1>1
  <1>3. SkipAt(p, n) \/ AbsentAt(p, n) \/ RestAt(p, n)
    OBVIOUS
  <1>4. Follows(p, n, m) /\ n \in Places(p) /\ m \in Places(p)
    BY <1>1
  <1> HIDE DEF n, m
  <1>5. Glides(p, n, m) /\ PlainAt(p, n)
    BY <1>2, <1>3, <1>4, PlainGlides
  <1>6. Glides(p, e.pc + 10, e.pc + 11) /\ PlainAt(p, e.pc + 10)
    BY <1>5 DEF n, m
  <1> QED BY <1>6, RestOK

\* An endpoint is like itself.
LEMMA SameSelf == ASSUME NEW e, DOMAIN e = Fields PROVE SameRest(e, e) /\ SameBuffers(e, e)
  BY DEF SameRest, SameBuffers, SameControl, SameEpochs, SameSecrets

\* A step that is skipped.
LEMMA SkipOK ==
  ASSUME NEW p \in Ends, NEW e, NEW o, Setting, Local(p, e), HereOK(p, e), Talk(p, e, o), Fit(Peer(p), o),
         e.prog \in {"13", "12", "12r"}, ~e.again, Local(p, Advance(p, e)), Skips(p, e, At(p, e))
  PROVE  OK(p, Advance(p, e), o)
  <1>1. SkipAt(p, e.pc + 10)
    BY SkipPlace
  <1>2. SameRest(e, e) /\ SameBuffers(e, e)
    BY SameSelf DEF Local, Core, Control
  <1> QED BY <1>1, <1>2, PlainOK

\* The end of an interrupted call.
LEMMA DoneOK ==
  ASSUME NEW p \in Ends, NEW e, NEW o, Setting, Local(p, e), HereOK(p, e), Talk(p, e, o), Fit(Peer(p), o),
         e.prog \in {"13", "12", "12r"}, e.again, Local(p, Advance(p, e))
  PROVE  OK(p, Advance(p, e), o)
  <1> DEFINE m == Moved(e)
  <1>0. DOMAIN e = Fields /\ Buffers(e) /\ e.err = "none"
    BY DEF Local, Core, Control, ItemsOK, Buffers, HereOK
  <1>1. e.pc \in Nat /\ e.pc + 11 \in Places(p) /\ Place(e) = e.pc + 11 /\ Stands(p, e, e.pc + 11)
    BY EnginePlace
  <1>2. /\ m.prog = e.prog /\ m.again = FALSE /\ SameEpochs(e, m)
        /\ m.tr = e.tr /\ m.psk = e.psk /\ m.mark = e.mark /\ m.flags = e.flags /\ m.q = e.q
    BY <1>0, MovedFields DEF SameSecrets, SameBuffers
  <1>3. Aux(e, m)
    BY <1>0, AuxMoved
  <1> HIDE DEF m
  <1> DEFINE n == e.pc + 11
  <1>4. n \in Nat /\ Stands(p, e, n)
    BY <1>1
  <1> HIDE DEF n
  <1>5. Notes(p, e, n) /\ QueueOK(p, e) /\ KeysAt(p, e, n) /\ FlagsAt(p, e, n) /\ SecretsAt(p, e, n)
    BY <1>4, StandsParts
  <1>6. e.q = <<>>
    BY <1>5 DEF QueueOK
  <1>7. QueueOK(p, m)
    BY <1>2, <1>6 DEF QueueOK
  <1>8. Notes(p, m, n)
    BY <1>3, <1>5 DEF Notes, Aux
  <1>9. KeysAt(p, m, n)
    BY <1>2, <1>5 DEF KeysAt, SameEpochs
  <1>10. FlagsAt(p, m, n)
    BY <1>2, <1>5 DEF FlagsAt, ClientFlags, ServerFlags, Has
  <1>11. SecretsAt(p, m, n)
    BY <1>2, <1>5 DEF SecretsAt
  <1>12. Stands(p, m, n)
    BY <1>7, <1>8, <1>9, <1>10, <1>11, StandsParts
  <1>13. Glides(p, Place(e), e.pc + 11)
    BY <1>1, GlideHere
  <1>14. Stands(p, Moved(e), e.pc + 11)
    BY <1>12 DEF m, n
  <1> QED BY <1>0, <1>13, <1>14, GlideOK

-----------------------------------------------------------------------------
(* Taking up keys.                                                           *)

\* f has other keys to use than e; those of the messages that wait are kept.
Rekeyed(e, f) ==
    /\ DOMAIN f = Fields /\ SameControl(e, f) /\ f.err = e.err
    /\ f.tr = e.tr /\ f.mark = e.mark /\ f.psk = e.psk /\ SameBuffers(e, f) /\ Aux(e, f)
    /\ e.we \in Nat /\ f.we \in Nat /\ e.we <= f.we
    /\ \A i \in 0..e.we : f.keys[i].w = e.keys[i].w

\* New keys leave the records under way as they are.
LEMMA RekeyedUnread ==
  ASSUME NEW p, NEW e, NEW f, Rekeyed(e, f), QueueOK(p, e)
  PROVE  Unread(f) = Unread(e)
  <1>1. SameBuffers(e, f) /\ \A i \in 1..Len(e.q) : f.keys[e.q[i].epoch].w = e.keys[e.q[i].epoch].w
    BY DEF Rekeyed, QueueOK
  <1> QED BY <1>1, UnreadSame

\* The secrets do not change where keys are taken up.
LEMMA KeySecrets ==
  ASSUME NEW p \in Ends, NEW e, NEW g, NEW n \in Nat, Setting, KeyStep(p, n), Tr(LastAt(p, n + 1)) = Tr(LastAt(p, n)),
         SecretsAt(p, e, n), g.tr = e.tr, g.psk = e.psk, g.mark = e.mark
  PROVE  SecretsAt(p, g, n + 1)
  <1>0. ~Forgets(p, n) /\ ~Forgets(p, n + 1)
    BY DEF Forgets, KeyStep
  <1>1. e.tr = Tr(LastAt(p, n))
    BY <1>0 DEF SecretsAt, LastAt
  <1>2. g.tr = Tr(LastAt(p, n + 1))
    BY <1>1
  <1>3. CASE p = "client"
    <2>1. CASE Version = "13"
      BY <1>0, <1>2, <1>3, <2>1 DEF SecretsAt, LastAt, KeyStep
    <2>2. CASE Version = "12"
      BY <1>0, <1>2, <1>3, <2>2 DEF SecretsAt, LastAt, KeyStep, Read12, Write12
    <2>3. CASE Version = "12r"
      BY <1>0, <1>2, <1>3, <2>3 DEF SecretsAt, LastAt, KeyStep, Read12, Write12
    <2> QED BY <2>1, <2>2, <2>3 DEF Setting, Three
  <1>4. CASE p = "server"
    <2>1. CASE Version = "13"
      BY <1>0, <1>2, <1>4, <2>1 DEF SecretsAt, LastAt, KeyStep
    <2>2. CASE Version = "12"
      BY <1>0, <1>2, <1>4, <2>2 DEF SecretsAt, LastAt, KeyStep, Read12, Write12
    <2>3. CASE Version = "12r"
      BY <1>0, <1>2, <1>4, <2>3 DEF SecretsAt, LastAt, KeyStep, Read12, Write12
    <2> QED BY <2>1, <2>2, <2>3 DEF Setting, Three
  <1> QED BY <1>3, <1>4 DEF Ends

\* An endpoint takes up keys and moves on.
LEMMA KeyStands ==
  ASSUME NEW p \in Ends, NEW e, NEW f, Setting, Local(p, e), HereOK(p, e), e.prog \in {"13", "12", "12r"}, ~e.again,
         KeyStep(p, e.pc + 10), Tr(LastAt(p, e.pc + 11)) = Tr(LastAt(p, e.pc + 10)), Rekeyed(e, f),
         KeysAt(p, f, e.pc + 11), FlagsAt(p, f, e.pc + 11)
  PROVE  Stands(p, Moved(f), e.pc + 11) /\ Unread(f) = Unread(e) /\ Buffers(f)
  <1> DEFINE m == Moved(f)
             n == e.pc + 10
  <1>1. /\ e.pc \in Nat /\ Place(e) = e.pc + 10 /\ Stands(p, e, Place(e)) /\ Follows(p, e.pc + 10, e.pc + 11)
    BY EnginePlace
  <1>2. n \in Nat /\ n + 1 = e.pc + 11 /\ n = e.pc + 10 /\ Stands(p, e, n)
    BY <1>1
  <1>3. /\ m.pc = f.pc + 1 /\ m.again = FALSE /\ m.prog = f.prog /\ SameEpochs(f, m)
        /\ m.tr = f.tr /\ m.psk = f.psk /\ m.mark = f.mark /\ m.flags = f.flags /\ m.q = f.q
    BY MovedFields DEF Rekeyed, SameSecrets, SameBuffers
  <1>4. Aux(f, m)
    BY AuxMoved DEF Rekeyed
  <1>5. /\ KeyStep(p, n) /\ Tr(LastAt(p, n + 1)) = Tr(LastAt(p, n)) /\ KeysAt(p, f, n + 1) /\ FlagsAt(p, f, n + 1)
    BY <1>2
  <1> HIDE DEF m, n
  <1>6. Notes(p, e, n) /\ QueueOK(p, e) /\ SecretsAt(p, e, n)
    BY <1>2, StandsParts
  <1>7. QueueOK(p, m)
    <2>1. n # QueueEnd(p) + 10
      BY <1>2, <1>5, PlainQueue
    <2>2. e.pc # QueueEnd(p)
      BY <2>1, <1>2
    <2>3. e.we \in Nat /\ m.we \in Nat /\ e.we <= m.we
      BY <1>3 DEF Rekeyed, SameEpochs
    <2>4. m.q = e.q /\ m.prog = e.prog /\ m.again = FALSE /\ m.pc = e.pc + 1
      BY <1>3 DEF Rekeyed, SameControl, SameBuffers
    <2>5. e.pc \in Nat
      BY <1>1
    <2> QED BY <1>6, <2>2, <2>3, <2>4, <2>5, QueueMoved, Zenon
  <1>8. Notes(p, m, n + 1)
    <2>1. m.auths = e.auths /\ m.done = e.done /\ m.started = e.started
      BY <1>4 DEF Rekeyed, Aux
    <2>2. ~(p = "client" /\ n + 1 = 3)
      BY <1>5 DEF KeyStep, Read12, Write12
    <2>3. n \in Nat /\ n + 1 \in Nat /\ n <= n + 1
      BY <1>2
    <2> QED BY <1>6, <2>1, <2>2, <2>3, NotesMore
  <1>9. KeysAt(p, m, n + 1)
    BY <1>3, <1>5 DEF KeysAt, SameEpochs
  <1>10. FlagsAt(p, m, n + 1)
    BY <1>3, <1>5 DEF FlagsAt, ClientFlags, ServerFlags, Has
  <1>11. SecretsAt(p, m, n + 1)
    <2>1. m.tr = e.tr /\ m.psk = e.psk /\ m.mark = e.mark
      BY <1>3 DEF Rekeyed
    <2> QED BY <1>2, <1>5, <1>6, <2>1, KeySecrets
  <1>12. Stands(p, m, n + 1)
    BY <1>7, <1>8, <1>9, <1>10, <1>11, StandsParts
  <1>13. Unread(f) = Unread(e)
    BY <1>6, RekeyedUnread
  <1>14. Buffers(f)
    BY DEF Rekeyed, Local, Core, ItemsOK, Buffers, SameBuffers
  <1> QED BY <1>2, <1>12, <1>13, <1>14 DEF m

\* A step that takes up keys and neither speaks nor listens.
LEMMA KeyOK ==
  ASSUME NEW p \in Ends, NEW e, NEW f, NEW o, Setting, Local(p, e), HereOK(p, e), Talk(p, e, o), Fit(Peer(p), o),
         e.prog \in {"13", "12", "12r"}, ~e.again, Local(p, Advance(p, f)),
         IdleAt(p, e.pc + 10), KeyStep(p, e.pc + 10), Rekeyed(e, f),
         KeysAt(p, f, e.pc + 11), FlagsAt(p, f, e.pc + 11)
  PROVE  OK(p, Advance(p, f), o)
  <1>1. /\ e.pc \in Nat /\ Place(e) = e.pc + 10 /\ Follows(p, e.pc + 10, e.pc + 11)
        /\ e.pc + 10 \in Places(p) /\ e.pc + 11 \in Places(p)
    BY EnginePlace
  <1> DEFINE n == e.pc + 10
             m == e.pc + 11
  <1>2. n \in Nat /\ m \in Nat /\ m = n + 1
    BY <1>1
  <1>3. IdleAt(p, n) /\ Follows(p, n, m) /\ n \in Places(p) /\ m \in Places(p)
    BY <1>1
  <1> HIDE DEF n, m
  <1>4. Glides(p, n, m)
    BY <1>2, <1>3, Glide, SettingParts
  <1>5. LastAt(p, m) = LastAt(p, n)
    BY <1>2, <1>3, IdleSame, SettingParts DEF LastAt
  <1>6. Glides(p, Place(e), e.pc + 11) /\ Tr(LastAt(p, e.pc + 11)) = Tr(LastAt(p, e.pc + 10))
    BY <1>1, <1>4, <1>5 DEF n, m
  <1>7. Stands(p, Moved(f), e.pc + 11) /\ Unread(f) = Unread(e) /\ Buffers(f)
    BY <1>6, KeyStands
  <1>8. DOMAIN f = Fields /\ f.err = "none" /\ f.prog = e.prog /\ f.pc = e.pc /\ f.sent = e.sent /\ f.got = e.got
    BY DEF Rekeyed, SameControl, Aux, HereOK
  <1> QED BY <1>6, <1>7, <1>8, GlideOK

-----------------------------------------------------------------------------
(* The keys by their places.                                                 *)

\* The transcripts around the ServerHello of TLS 1.3.
LEMMA HelloTr ==
  ASSUME Version = "13"
  PROVE  /\ Tr(6) = Tr(5) /\ Tr(7) = Tr(5) /\ Tr(8) = Tr(5)
         /\ Tr(5) = Append(Tr(4), <<"server", "ServerHello">>)
         /\ SubSeq(Tr(5), 1, Len(Tr(5)) - 1) = Tr(4)
  <1>1. MsgOf(6) = "ccs" /\ MsgOf(7) = "ccs" /\ MsgOf(8) = "ccs" /\ MsgOf(5) = "ServerHello"
    BY DEF MsgOf
  <1>2. Tr(6) = Tr(6 - 1) /\ Tr(7) = Tr(7 - 1) /\ Tr(8) = Tr(8 - 1)
    BY <1>1, TrSame
  <1>3. Sends("server", 5) /\ ~Sends("client", 5)
    BY DEF Sends
  <1>4. Tr(5) = Append(Tr(5 - 1), <<"server", "ServerHello">>)
    <2>1. 5 \in 5..17 \cup 101..104 /\ "server" \in Ends /\ MsgOf(5) # "ccs"
          /\ ~(Sends("client", 5) /\ Sends("server", 5))
      BY <1>1, <1>3 DEF Ends
    <2>2. Tr(5) = Append(Tr(5 - 1), <<"server", MsgOf(5)>>)
      BY <1>3, <2>1, TrGrows, Zenon
    <2> QED BY <1>1, <2>2
  <1>5. Tr(4) \in Seq({Synthetic, <<"server", "HelloRetryRequest">>, Greeting})
    <2>1. \A a, b, c : <<c>> \in Seq({a, b, c}) /\ Append(<<a, b>>, c) \in Seq({a, b, c})
      OBVIOUS
    <2>2. Tr(4) = Append(<<Synthetic, <<"server", "HelloRetryRequest">>>>, Greeting) \/ Tr(4) = <<Greeting>>
      BY TrEarly DEF Hello, Retry
    <2> QED BY <2>1, <2>2, Zenon
  <1>6. \A T : \A s \in Seq(T) : \A x : SubSeq(Append(s, x), 1, Len(Append(s, x)) - 1) = s
    OBVIOUS
  <1>7. Tr(5) = Append(Tr(4), <<"server", "ServerHello">>)
    BY <1>4
  <1>8. SubSeq(Tr(5), 1, Len(Tr(5)) - 1) = Tr(4)
    BY <1>5, <1>6, <1>7
  <1> QED BY <1>2, <1>7, <1>8

\* Every place has keys.
LEMMA KeyStages ==
  ASSUME NEW p, NEW n
  PROVE  WriteKeyAt(p, n) # NoKey /\ ReadKeyAt(p, n) # NoKey
  <1>1. HsK # NoKey /\ AppK # NoKey /\ K12 # NoKey /\ EarlyK # NoKey /\ Plain # NoKey
    BY DEF HsK, AppK, K12, EarlyK, Plain, NoKey, Label, KeyFor
  <1> QED BY <1>1 DEF WriteKeyAt, ReadKeyAt

\* The keys of a handshake are not the unset ones.
LEMMA KeysNotUnset ==
  /\ Both(HsK) # Unset /\ Both(AppK) # Unset /\ Both(K12) # Unset
  /\ \A k : Both(k).r = k /\ Both(k).w = k
  /\ Unset.w = NoKey /\ Unset.r = NoKey
  <1>1. HsK # NoKey /\ AppK # NoKey /\ K12 # NoKey
    BY DEF HsK, AppK, K12, NoKey, Label, KeyFor
  <1>2. \A k : Both(k).r = k /\ Both(k).w = k
    BY DEF Both
  <1>3. Unset.w = NoKey /\ Unset.r = NoKey
    BY DEF Unset
  <1> QED BY <1>1, <1>2, <1>3

\* The keys in use are not in an epoch without keys.
LEMMA InUse ==
  ASSUME NEW p, NEW e, NEW n, KeysAt(p, e, n), e.keys[e.next] = Unset
  PROVE  e.we # e.next /\ e.re # e.next
  BY KeyStages, KeysNotUnset DEF KeysAt

\* The secrets of an endpoint of TLS 1.3.
LEMMA Secrets13 ==
  ASSUME NEW p \in Ends, NEW e, NEW n \in Nat, Setting, Version = "13", SecretsAt(p, e, n)
  PROVE  /\ n \in (IF p = "client" THEN 14..18 ELSE 17..19) =>
               /\ HsKey(e) = HsK /\ EarlyKey(e) = EarlyK
         /\ n >= (IF p = "client" THEN 23 ELSE 24) => AppKey(e) = AppK
  <1>1. ASSUME n \in (IF p = "client" THEN 14..18 ELSE 17..19)
        PROVE  HsKey(e) = HsK /\ EarlyKey(e) = EarlyK
    <2>1. LastAt(p, n) \in 5..8
      <3>1. CASE p = "client"
        BY <1>1, <3>1, LastClient13
      <3>2. CASE p = "server"
        BY <1>1, <3>2, LastServer13
      <3> QED BY <3>1, <3>2 DEF Ends
    <2>2. e.tr = Tr(LastAt(p, n)) /\ e.psk = Psk
      <3>1. CASE p = "client"
        BY <1>1, <3>1 DEF SecretsAt, Forgets, LastAt
      <3>2. CASE p = "server"
        BY <1>1, <3>2 DEF SecretsAt, Forgets, LastAt
      <3> QED BY <3>1, <3>2 DEF Ends
    <2>3. e.tr = Tr(5)
      <3>1. LastAt(p, n) = 5 \/ LastAt(p, n) = 6 \/ LastAt(p, n) = 7 \/ LastAt(p, n) = 8
        BY <2>1
      <3> QED BY <3>1, <2>2, HelloTr
    <2>4. SubSeq(e.tr, 1, Len(e.tr) - 1) = Tr(4)
      BY <2>3, HelloTr
    <2> QED BY <2>2, <2>3, <2>4 DEF HsKey, HsK, Key, KeyFor, EarlyKey, EarlyK
  <1>2. ASSUME n >= (IF p = "client" THEN 23 ELSE 24)
        PROVE  AppKey(e) = AppK
    <2>1. e.mark = Tr(13) /\ e.psk = Psk
      <3>1. CASE p = "client"
        BY <1>2, <3>1 DEF SecretsAt
      <3>2. CASE p = "server"
        BY <1>2, <3>2 DEF SecretsAt
      <3> QED BY <3>1, <3>2 DEF Ends
    <2> QED BY <2>1 DEF AppKey, AppK, Key, KeyFor
  <1> QED BY <1>1, <1>2

\* And of TLS 1.2, from where keys are taken up.
LEMMA Secrets12 ==
  ASSUME NEW p \in Ends, NEW e, NEW n \in Nat, Setting, Version # "13", SecretsAt(p, e, n), KeyStep(p, n)
  PROVE  Key12(e) = K12
  <1>1. CASE Version = "12"
    <2>1. CASE p = "client"
      BY <1>1, <2>1 DEF SecretsAt, KeyStep, Write12, Read12, Key12, K12, Key, KeyFor
    <2>2. CASE p = "server"
      BY <1>1, <2>2 DEF SecretsAt, KeyStep, Write12, Read12, Key12, K12, Key, KeyFor
    <2> QED BY <2>1, <2>2 DEF Ends
  <1>2. CASE Version = "12r"
    <2>1. CASE p = "client"
      BY <1>2, <2>1 DEF SecretsAt, KeyStep, Write12, Read12, Key12, K12, Key, KeyFor
    <2>2. CASE p = "server"
      BY <1>2, <2>2 DEF SecretsAt, KeyStep, Write12, Read12, Key12, K12, Key, KeyFor
    <2> QED BY <2>1, <2>2 DEF Ends
  <1> QED BY <1>1, <1>2 DEF Setting, Three

\* What an engine finds at its step.
LEMMA AtStep ==
  ASSUME NEW p \in Ends, NEW e, Setting, Local(p, e), HereOK(p, e), e.prog \in {"13", "12", "12r"}, ~e.again
  PROVE  /\ DOMAIN e = Fields /\ e.min = 0 /\ e.next \in 1..3 /\ DOMAIN e.keys = 0..e.next
         /\ e.re \in 0..e.next /\ e.we \in 0..e.next /\ e.next \in DOMAIN e.keys /\ e.pc \in Nat
         /\ KeysAt(p, e, e.pc + 10) /\ FlagsAt(p, e, e.pc + 10) /\ SecretsAt(p, e, e.pc + 10)
  <1>1. e.pc \in Nat /\ Stands(p, e, e.pc + 10)
    BY EnginePlace
  <1>2. Versions
    BY DEF Setting
  <1> QED BY <1>1, <1>2, Table, StandsParts

\* What a step that sets keys changes.
LEMMA RekeyedIs ==
  ASSUME NEW e, NEW f, SameButKeys(e, f), Aux(e, f), e.we \in Nat, f.we \in Nat, e.we <= f.we,
         \A i \in 0..e.we : f.keys[i].w = e.keys[i].w
  PROVE  Rekeyed(e, f)
  BY DEF Rekeyed, SameButKeys, SameSecrets

\* The client's early keys.
LEMMA EarlyKeysStep ==
  ASSUME NEW e, Setting, Local("client", e), HereOK("client", e), e.prog = "13", Version = "13", ~e.again,
         e.pc = 5, EarlySent
  PROVE  LET f == ClientEarlyKeys(e)
         IN  Rekeyed(e, f) /\ KeysAt("client", f, 16) /\ FlagsAt("client", f, 16)
  <1> DEFINE s == SetKeys(e, NoKey, EarlyKey(e))
             d == [s EXCEPT !.we = e.next]
             f == BumpDup(d)
  <1>1. /\ DOMAIN e = Fields /\ e.min = 0 /\ DOMAIN e.keys = 0..e.next
        /\ e.re \in 0..e.next /\ e.we \in 0..e.next /\ e.next \in DOMAIN e.keys
        /\ KeysAt("client", e, 15) /\ FlagsAt("client", e, 15) /\ SecretsAt("client", e, 15)
    BY AtStep DEF Ends
  <1>2. e.next = 1 /\ e.keys[e.next] = Unset
    BY DEF Local, Core, EpochsOK, Client13Epochs
  <1>3. EarlyKey(e) = EarlyK
    BY <1>1, Secrets13 DEF Ends
  <1>4. /\ SameButKeys(e, s) /\ s.next = e.next /\ s.re = e.re /\ s.we = e.we
        /\ DOMAIN s.keys = DOMAIN e.keys
        /\ \A i \in DOMAIN e.keys : i # e.next => s.keys[i] = e.keys[i]
        /\ s.keys[e.next] = [r |-> NoKey, w |-> EarlyKey(e)]
    BY <1>1, <1>2, SetKeysFields
  <1>5. Aux(e, s) /\ DOMAIN s = Fields
    BY <1>1, AuxSetKeys
  <1> HIDE DEF s
  <1>6. /\ DOMAIN d = Fields /\ d.keys = s.keys /\ d.next = s.next /\ d.re = s.re /\ d.we = e.next /\ d.min = s.min
        /\ SameControl(s, d) /\ SameSecrets(s, d) /\ SameBuffers(s, d)
        /\ d.flags = s.flags /\ d.tickets = s.tickets /\ d.err = s.err
    BY <1>5 DEF Fields, SameControl, SameSecrets, SameBuffers
  <1>7. Aux(s, d)
    BY <1>5 DEF Fields, Aux
  <1> HIDE DEF d
  <1>8. SameButKeys(s, d)
    BY <1>6 DEF SameButKeys
  <1>9. d.min = 0 /\ d.next = 1 /\ DOMAIN d.keys = 0..d.next
    BY <1>1, <1>2, <1>4, <1>6 DEF SameButKeys
  <1>10. /\ SameButKeys(d, f) /\ f.next = 2 /\ f.re = d.re /\ f.we = d.we
         /\ \A i \in 0..1 : f.keys[i] = d.keys[i]
         /\ f.keys[2] = Unset
    <2>1. d.next \in 1..2
      BY <1>9
    <2>2. /\ SameButKeys(d, f) /\ f.next = d.next + 1 /\ f.re = d.re /\ f.we = d.we
          /\ \A i \in 0..d.next : f.keys[i] = d.keys[i]
          /\ f.keys[d.next + 1] = Unset
      BY <1>6, <1>9, <2>1, BumpFields
    <2> HIDE DEF f
    <2> QED BY <1>9, <2>2
  <1>11. Aux(d, f)
    BY <1>6, AuxBump
  <1> HIDE DEF f
  <1>12. Aux(e, f)
    BY <1>5, <1>7, <1>11 DEF Aux
  <1>13. SameButKeys(e, f)
    BY <1>4, <1>8, <1>10 DEF SameButKeys, SameControl, SameSecrets, SameBuffers
  <1>14. e.we # e.next /\ e.re # e.next
    BY <1>1, <1>2, InUse
  <1>15. e.we = 0 /\ e.re = 0
    BY <1>1, <1>2, <1>14
  <1>16. f.we = 1 /\ f.re = 0 /\ f.next = 2 /\ f.keys[0] = e.keys[0] /\ f.keys[1].w = EarlyK /\ f.keys[2] = Unset
    <2>1. f.keys[0] = s.keys[0] /\ f.keys[1] = s.keys[1]
      BY <1>6, <1>10
    <2>2. s.keys[0] = e.keys[0] /\ s.keys[1].w = EarlyK
      BY <1>1, <1>2, <1>3, <1>4
    <2> QED BY <1>2, <1>4, <1>6, <1>10, <1>15, <2>1, <2>2
  <1>17. Rekeyed(e, f)
    BY <1>12, <1>13, <1>15, <1>16, RekeyedIs
  <1>18. KeysAt("client", f, 16)
    <2>1. e.keys[0].r = Plain
      BY <1>1, <1>15 DEF KeysAt, ReadKeyAt
    <2> QED BY <1>16, <2>1 DEF KeysAt, ReadKeyAt, WriteKeyAt, NextKeyAt
  <1>19. FlagsAt("client", f, 16)
    BY <1>1, <1>13 DEF SameButKeys, FlagsAt, ClientFlags, Has
  <1> QED BY <1>17, <1>18, <1>19 DEF f, d, s, ClientEarlyKeys

\* The client's handshake keys, for both directions or for reading only.
LEMMA ClientHsStep ==
  ASSUME NEW e, Setting, Local("client", e), HereOK("client", e), e.prog = "13", Version = "13", ~e.again,
         e.pc = 7
  PROVE  LET f == ClientHsKeys(e)
         IN  Rekeyed(e, f) /\ KeysAt("client", f, 18) /\ FlagsAt("client", f, 18)
  <1> DEFINE f == ClientHsKeys(e)
  <1>1. /\ DOMAIN e = Fields /\ e.next \in 1..3 /\ DOMAIN e.keys = 0..e.next
        /\ e.re \in 0..e.next /\ e.we \in 0..e.next /\ e.next \in DOMAIN e.keys
        /\ KeysAt("client", e, 17) /\ FlagsAt("client", e, 17) /\ SecretsAt("client", e, 17)
    BY AtStep DEF Ends
  <1>2. HsKey(e) = HsK
    BY <1>1, Secrets13 DEF Ends
  <1>3. e.keys[e.next] = Unset
    BY <1>1 DEF KeysAt, NextKeyAt
  <1>4. e.we # e.next /\ e.re # e.next
    BY <1>1, <1>3, InUse
  <1>5. Has(e, "in_flight") <=> EarlySent
    BY <1>1 DEF FlagsAt, ClientFlags
  <1>6. /\ Inited(e, f, HsK) /\ f.re = e.next
        /\ f.we = IF EarlySent THEN e.we ELSE e.next
    BY <1>1, <1>2, <1>5, InitFields DEF ClientHsKeys
  <1>7. Aux(e, f)
    BY <1>1, AuxInit DEF ClientHsKeys
  <1> HIDE DEF f
  <1>8. /\ SameButKeys(e, f) /\ f.next = e.next
        /\ \A i \in 0..e.next : i # e.next => f.keys[i] = e.keys[i]
        /\ f.keys[e.next] = Both(HsK)
    BY <1>1, <1>3, <1>6 DEF Inited
  <1>9. Rekeyed(e, f)
    <2>1. \A i \in 0..e.we : f.keys[i].w = e.keys[i].w
      BY <1>1, <1>4, <1>8
    <2>2. e.we \in Nat /\ f.we \in Nat /\ e.we <= f.we
      BY <1>1, <1>6
    <2> QED BY <1>7, <1>8, <2>1, <2>2, RekeyedIs
  <1>10. KeysAt("client", f, 18)
    <2>1. EarlySent => f.keys[f.we].w = EarlyK
      BY <1>1, <1>4, <1>6, <1>8 DEF KeysAt, WriteKeyAt
    <2>2. ~EarlySent => f.keys[f.we].w = HsK
      BY <1>6, <1>8, KeysNotUnset
    <2>3. f.keys[f.re].r = HsK /\ f.keys[f.next] = Both(HsK)
      BY <1>6, <1>8, KeysNotUnset
    <2> QED BY <2>1, <2>2, <2>3 DEF KeysAt, WriteKeyAt, ReadKeyAt, NextKeyAt
  <1>11. FlagsAt("client", f, 18)
    BY <1>1, <1>8 DEF SameButKeys, FlagsAt, ClientFlags, Has
  <1> QED BY <1>9, <1>10, <1>11 DEF f

\* The client writes under the handshake keys after its early data.
LEMMA ClientEndStep ==
  ASSUME NEW e, Setting, Local("client", e), HereOK("client", e), e.prog = "13", Version = "13", ~e.again,
         e.pc = 14, EarlySent
  PROVE  LET f == ClientEndEarly(e)
         IN  Rekeyed(e, f) /\ KeysAt("client", f, 25) /\ FlagsAt("client", f, 25)
  <1> DEFINE d == [e EXCEPT !.flags = @ \ {"in_flight"}]
             f == WriteInit(d, HsKey(e))
  <1>1. /\ DOMAIN e = Fields /\ e.next \in 1..3 /\ DOMAIN e.keys = 0..e.next
        /\ e.re \in 0..e.next /\ e.we \in 0..e.next /\ e.next \in DOMAIN e.keys
        /\ KeysAt("client", e, 24) /\ FlagsAt("client", e, 24)
    BY AtStep DEF Ends
  <1>2. e.keys[e.next] = Both(HsK) /\ e.keys[e.re].r = HsK
    BY <1>1 DEF KeysAt, NextKeyAt, ReadKeyAt
  <1>3. Has(e, "in_flight")
    BY <1>1 DEF FlagsAt, ClientFlags
  <1>4. ClientEndEarly(e) = f
    BY <1>3 DEF ClientEndEarly
  <1>5. /\ DOMAIN d = Fields /\ SameEpochs(e, d) /\ SameControl(e, d) /\ SameSecrets(e, d) /\ SameBuffers(e, d)
        /\ d.flags = e.flags \ {"in_flight"} /\ d.tickets = e.tickets /\ d.err = e.err
    BY <1>1 DEF Fields, SameEpochs, SameControl, SameSecrets, SameBuffers
  <1>6. Aux(e, d)
    BY <1>1 DEF Fields, Aux
  <1> HIDE DEF d
  <1>7. d.next \in DOMAIN d.keys /\ d.next = e.next /\ d.keys = e.keys /\ d.re = e.re
    BY <1>1, <1>5 DEF SameEpochs
  <1>8. Inited(d, f, HsKey(e)) /\ f.we = d.next /\ f.re = d.re
    BY <1>5, <1>7, InitFields
  <1>9. Aux(d, f)
    BY <1>5, AuxInit
  <1> HIDE DEF f
  <1>10. /\ SameButKeys(d, f) /\ f.next = e.next /\ f.we = e.next /\ f.re = e.re
         /\ \A i \in 0..e.next : f.keys[i] = e.keys[i]
    <2>1. f.keys[e.next] = e.keys[e.next]
      BY <1>2, <1>7, <1>8, KeysNotUnset DEF Inited
    <2> QED BY <1>1, <1>7, <1>8, <2>1 DEF Inited
  <1>11. Rekeyed(e, f)
    <2>1. Aux(e, f)
      BY <1>6, <1>9 DEF Aux
    <2>2. \A i \in 0..e.we : f.keys[i].w = e.keys[i].w
      BY <1>1, <1>10
    <2>3. e.we \in Nat /\ f.we \in Nat /\ e.we <= f.we
      BY <1>1, <1>10
    <2>4. /\ DOMAIN f = Fields /\ SameControl(e, f) /\ f.err = e.err
          /\ f.tr = e.tr /\ f.mark = e.mark /\ f.psk = e.psk /\ SameBuffers(e, f)
      BY <1>5, <1>10 DEF SameButKeys, SameControl, SameSecrets, SameBuffers
    <2> QED BY <2>1, <2>2, <2>3, <2>4 DEF Rekeyed
  <1>12. KeysAt("client", f, 25)
    <2>1. f.keys[e.next] = Both(HsK) /\ f.keys[e.re].r = HsK
      BY <1>1, <1>2, <1>10
    <2> QED BY <1>10, <2>1, KeysNotUnset DEF KeysAt, WriteKeyAt, ReadKeyAt, NextKeyAt
  <1>13. FlagsAt("client", f, 25)
    <2>1. f.flags = e.flags \ {"in_flight"}
      BY <1>5, <1>10 DEF SameButKeys
    <2> QED BY <1>1, <2>1 DEF FlagsAt, ClientFlags, Has
  <1> QED BY <1>4, <1>11, <1>12, <1>13

\* The client's application keys.
LEMMA ClientAppStep ==
  ASSUME NEW e, Setting, Local("client", e), HereOK("client", e), e.prog = "13", Version = "13", ~e.again,
         e.pc = 18
  PROVE  LET f == ClientAppKeys(e)
         IN  Rekeyed(e, f) /\ KeysAt("client", f, 29) /\ FlagsAt("client", f, 29)
  <1> DEFINE b == BumpDup(e)
             d == [b EXCEPT !.rms = e.tr]
             f == ConnectionInit(d, AppKey(e))
  <1>1. /\ DOMAIN e = Fields /\ e.min = 0 /\ e.next \in 1..3 /\ DOMAIN e.keys = 0..e.next
        /\ e.re \in 0..e.next /\ e.we \in 0..e.next /\ e.next \in DOMAIN e.keys
        /\ KeysAt("client", e, 28) /\ FlagsAt("client", e, 28) /\ SecretsAt("client", e, 28)
    BY AtStep DEF Ends
  <1>2. AppKey(e) = AppK
    BY <1>1, Secrets13 DEF Ends
  <1>3. e.next <= 2
    BY DEF Local, Core, EpochsOK, Client13Epochs
  <1>4. e.next \in 1..2
    BY <1>1, <1>3
  <1>5. /\ SameButKeys(e, b) /\ b.next = e.next + 1 /\ b.re = e.re /\ b.we = e.we
        /\ DOMAIN b.keys = 0..(e.next + 1)
        /\ \A i \in 0..e.next : b.keys[i] = e.keys[i]
        /\ b.keys[e.next + 1] = Unset
    BY <1>1, <1>4, BumpFields
  <1>6. Aux(e, b) /\ DOMAIN b = Fields
    BY <1>1, AuxBump
  <1> HIDE DEF b
  <1>7. /\ DOMAIN d = Fields /\ SameEpochs(b, d) /\ SameControl(b, d) /\ SameBuffers(b, d)
        /\ d.tr = b.tr /\ d.mark = b.mark /\ d.psk = b.psk /\ d.flags = b.flags /\ d.err = b.err
    BY <1>6 DEF Fields, SameEpochs, SameControl, SameBuffers
  <1>8. Aux(b, d)
    BY <1>6 DEF Fields, Aux
  <1> HIDE DEF d
  <1>9. d.next = e.next + 1 /\ d.keys = b.keys /\ d.next \in DOMAIN d.keys
    BY <1>4, <1>5, <1>7 DEF SameEpochs
  <1>10. Inited(d, f, AppK) /\ f.we = d.next /\ f.re = d.next
    BY <1>2, <1>7, <1>9, InitFields
  <1>11. Aux(d, f)
    BY <1>7, AuxInit
  <1> HIDE DEF f
  <1>12. /\ SameButKeys(d, f) /\ f.next = e.next + 1 /\ f.we = e.next + 1 /\ f.re = e.next + 1
         /\ \A i \in 0..e.next : f.keys[i] = e.keys[i]
         /\ f.keys[e.next + 1] = Both(AppK)
    <2>1. SameButKeys(d, f) /\ f.next = e.next + 1 /\ f.we = e.next + 1 /\ f.re = e.next + 1
      BY <1>9, <1>10 DEF Inited
    <2>2. f.keys[e.next + 1] = Both(AppK)
      BY <1>5, <1>9, <1>10 DEF Inited
    <2>3. ASSUME NEW i \in 0..e.next PROVE f.keys[i] = e.keys[i]
      <3>1. i \in DOMAIN d.keys /\ i # d.next
        BY <1>4, <1>5, <1>9, <2>3
      <3>2. f.keys[i] = d.keys[i]
        BY <1>10, <3>1 DEF Inited
      <3> QED BY <1>5, <1>9, <3>2
    <2> QED BY <2>1, <2>2, <2>3
  <1>13. Rekeyed(e, f)
    <2>1. Aux(e, f)
      BY <1>6, <1>8, <1>11 DEF Aux
    <2>2. \A i \in 0..e.we : f.keys[i].w = e.keys[i].w
      BY <1>1, <1>12
    <2>3. e.we \in Nat /\ f.we \in Nat /\ e.we <= f.we
      BY <1>1, <1>12
    <2>4. /\ DOMAIN f = Fields /\ SameControl(e, f) /\ f.err = e.err
          /\ f.tr = e.tr /\ f.mark = e.mark /\ f.psk = e.psk /\ SameBuffers(e, f)
      BY <1>5, <1>7, <1>12 DEF SameButKeys, SameControl, SameSecrets, SameBuffers
    <2> QED BY <2>1, <2>2, <2>3, <2>4 DEF Rekeyed
  <1>14. KeysAt("client", f, 29)
    BY <1>12, KeysNotUnset DEF KeysAt, WriteKeyAt, ReadKeyAt, NextKeyAt
  <1>15. FlagsAt("client", f, 29)
    <2>1. f.flags = e.flags
      BY <1>5, <1>7, <1>12 DEF SameButKeys
    <2> QED BY <1>1, <2>1 DEF FlagsAt, ClientFlags, Has
  <1> QED BY <1>13, <1>14, <1>15 DEF f, d, b, ClientAppKeys

\* The server's handshake keys; with early data they take a second epoch.
LEMMA ServerHsStep ==
  ASSUME NEW e, Setting, Local("server", e), HereOK("server", e), e.prog = "13", Version = "13", ~e.again,
         e.pc = 8
  PROVE  LET f == ServerHsKeys(e)
         IN  Rekeyed(e, f) /\ KeysAt("server", f, 19) /\ FlagsAt("server", f, 19)
  <1>1. /\ DOMAIN e = Fields /\ e.min = 0 /\ DOMAIN e.keys = 0..e.next
        /\ e.re \in 0..e.next /\ e.we \in 0..e.next /\ e.next \in DOMAIN e.keys
        /\ KeysAt("server", e, 18) /\ FlagsAt("server", e, 18) /\ SecretsAt("server", e, 18)
    BY AtStep DEF Ends
  <1>2. e.next = 1 /\ e.keys[e.next] = Unset
    BY DEF Local, Core, EpochsOK, Server13Epochs
  <1>3. EarlyKey(e) = EarlyK /\ HsKey(e) = HsK
    BY <1>1, Secrets13 DEF Ends
  <1>4. e.we # e.next /\ e.re # e.next
    BY <1>1, <1>2, InUse
  <1>5. e.we = 0 /\ e.re = 0
    BY <1>1, <1>2, <1>4
  <1>6. Has(e, "accepted") <=> EarlyTaken
    BY <1>1 DEF FlagsAt, ServerFlags
  <1>7. CASE ~EarlyTaken
    <2> DEFINE f == ConnectionInit(e, HsKey(e))
    <2>1. ServerHsKeys(e) = f
      BY <1>6, <1>7 DEF ServerHsKeys
    <2>2. Inited(e, f, HsK) /\ f.re = e.next /\ f.we = e.next
      BY <1>1, <1>3, InitFields
    <2>3. Aux(e, f)
      BY <1>1, AuxInit
    <2> HIDE DEF f
    <2>4. SameButKeys(e, f) /\ f.next = 1 /\ f.keys[0] = e.keys[0] /\ f.keys[1] = Both(HsK) /\ f.re = 1 /\ f.we = 1
      BY <1>1, <1>2, <2>2 DEF Inited
    <2>5. Rekeyed(e, f)
      BY <1>5, <2>3, <2>4, RekeyedIs
    <2>6. KeysAt("server", f, 19)
      BY <1>7, <2>4, KeysNotUnset DEF KeysAt, WriteKeyAt, ReadKeyAt, NextKeyAt
    <2>7. FlagsAt("server", f, 19)
      BY <1>1, <2>4 DEF SameButKeys, FlagsAt, ServerFlags, Has
    <2> QED BY <2>1, <2>5, <2>6, <2>7
  <1>8. CASE EarlyTaken
    <2> DEFINE s == SetKeys(e, EarlyKey(e), NoKey)
               d == [s EXCEPT !.re = e.next]
               b == BumpDup(d)
               f == WriteInit(b, HsKey(e))
    <2>1. ServerHsKeys(e) = f
      BY <1>6, <1>8 DEF ServerHsKeys
    <2>2. /\ SameButKeys(e, s) /\ s.next = e.next /\ s.re = e.re /\ s.we = e.we
          /\ DOMAIN s.keys = DOMAIN e.keys
          /\ \A i \in DOMAIN e.keys : i # e.next => s.keys[i] = e.keys[i]
          /\ s.keys[e.next] = [r |-> EarlyKey(e), w |-> NoKey]
      BY <1>1, <1>2, SetKeysFields
    <2>3. Aux(e, s) /\ DOMAIN s = Fields
      BY <1>1, AuxSetKeys
    <2> HIDE DEF s
    <2>4. /\ DOMAIN d = Fields /\ d.keys = s.keys /\ d.next = s.next /\ d.we = s.we /\ d.re = e.next /\ d.min = s.min
          /\ SameControl(s, d) /\ SameSecrets(s, d) /\ SameBuffers(s, d)
          /\ d.flags = s.flags /\ d.tickets = s.tickets /\ d.err = s.err
      BY <2>3 DEF Fields, SameControl, SameSecrets, SameBuffers
    <2>5. Aux(s, d)
      BY <2>3 DEF Fields, Aux
    <2> HIDE DEF d
    <2>6. SameButKeys(s, d)
      BY <2>4 DEF SameButKeys
    <2>7. d.min = 0 /\ d.next = 1 /\ DOMAIN d.keys = 0..d.next /\ d.next \in 1..2
      BY <1>1, <1>2, <2>2, <2>4 DEF SameButKeys
    <2>8. /\ SameButKeys(d, b) /\ b.next = d.next + 1 /\ b.re = d.re /\ b.we = d.we
          /\ DOMAIN b.keys = 0..(d.next + 1)
          /\ \A i \in 0..d.next : b.keys[i] = d.keys[i]
          /\ b.keys[d.next + 1] = Unset
      BY <2>4, <2>7, BumpFields
    <2>9. Aux(d, b) /\ DOMAIN b = Fields
      BY <2>4, AuxBump
    <2> HIDE DEF b
    <2>10. b.next = 2 /\ b.re = 1 /\ b.we = 0 /\ DOMAIN b.keys = 0..2 /\ b.keys[2] = Unset
           /\ b.keys[0] = e.keys[0] /\ b.keys[1].r = EarlyK /\ b.next \in DOMAIN b.keys
      <3>1. b.next = 2 /\ b.re = 1 /\ b.we = 0 /\ DOMAIN b.keys = 0..2 /\ b.keys[2] = Unset
        BY <1>2, <1>5, <2>2, <2>4, <2>7, <2>8
      <3>2. b.keys[0] = s.keys[0] /\ b.keys[1] = s.keys[1]
        BY <2>4, <2>7, <2>8
      <3>3. s.keys[0] = e.keys[0] /\ s.keys[1].r = EarlyK
        BY <1>1, <1>2, <1>3, <2>2
      <3> QED BY <3>1, <3>2, <3>3
    <2>11. Inited(b, f, HsK) /\ f.we = b.next /\ f.re = b.re
      BY <1>3, <2>9, <2>10, InitFields
    <2>12. Aux(b, f)
      BY <2>9, AuxInit
    <2> HIDE DEF f
    <2>13. /\ SameButKeys(b, f) /\ f.next = 2 /\ f.we = 2 /\ f.re = 1 /\ f.keys[0] = e.keys[0]
           /\ f.keys[1].r = EarlyK /\ f.keys[2] = Both(HsK)
      BY <2>10, <2>11 DEF Inited
    <2>14. SameButKeys(e, f)
      BY <2>2, <2>6, <2>8, <2>13 DEF SameButKeys, SameControl, SameSecrets, SameBuffers
    <2>15. Aux(e, f)
      BY <2>3, <2>5, <2>9, <2>12 DEF Aux
    <2>16. Rekeyed(e, f)
      BY <1>5, <2>13, <2>14, <2>15, RekeyedIs
    <2>17. KeysAt("server", f, 19)
      BY <1>8, <2>13, KeysNotUnset DEF KeysAt, WriteKeyAt, ReadKeyAt, NextKeyAt
    <2>18. FlagsAt("server", f, 19)
      BY <1>1, <2>14 DEF SameButKeys, FlagsAt, ServerFlags, Has
    <2> QED BY <2>1, <2>16, <2>17, <2>18
  <1> QED BY <1>7, <1>8

\* Keys that are set are taken up for reading.
LEMMA ReadOn ==
  ASSUME NEW p \in Ends, NEW e, NEW d, NEW k, DOMAIN e = Fields, e.next \in Nat, DOMAIN e.keys = 0..e.next, e.we \in 0..e.next,
         e.keys[e.next] # Unset, DOMAIN d = Fields, SameEpochs(e, d), SameControl(e, d), SameBuffers(e, d),
         d.tr = e.tr, d.mark = e.mark, d.psk = e.psk, d.flags = e.flags, d.err = e.err, Aux(e, d)
  PROVE  LET f == ReadInit(d, k)
         IN  /\ Rekeyed(e, f) /\ f.keys = e.keys /\ f.we = e.we /\ f.re = e.next /\ f.next = e.next
             /\ f.flags = e.flags
  <1> DEFINE f == ReadInit(d, k)
  <1>1. d.next \in DOMAIN d.keys /\ d.next = e.next /\ d.keys = e.keys /\ d.we = e.we
    BY DEF SameEpochs
  <1>2. f = [d EXCEPT !.re = d.next]
    BY <1>1 DEF ReadInit, SetKeys
  <1>3. /\ DOMAIN f = Fields /\ f.keys = d.keys /\ f.we = d.we /\ f.re = d.next /\ f.next = d.next
        /\ SameControl(d, f) /\ SameBuffers(d, f) /\ f.tr = d.tr /\ f.mark = d.mark /\ f.psk = d.psk
        /\ f.flags = d.flags /\ f.err = d.err
    BY <1>2 DEF Fields, SameControl, SameBuffers
  <1>4. Aux(d, f)
    BY <1>2 DEF Fields, Aux
  <1> HIDE DEF f
  <1>5. Rekeyed(e, f)
    <2>1. Aux(e, f)
      BY <1>4 DEF Aux
    <2>2. e.we \in Nat /\ f.we \in Nat /\ e.we <= f.we /\ \A i \in 0..e.we : f.keys[i].w = e.keys[i].w
      BY <1>1, <1>3
    <2>3. DOMAIN f = Fields /\ SameControl(e, f) /\ f.err = e.err /\ SameBuffers(e, f)
      BY <1>3 DEF SameControl, SameBuffers
    <2> QED BY <1>3, <2>1, <2>2, <2>3 DEF Rekeyed
  <1> QED BY <1>1, <1>3, <1>5 DEF f

\* The server reads under the handshake keys after the early data.
LEMMA ServerEndStep ==
  ASSUME NEW e, Setting, Local("server", e), HereOK("server", e), e.prog = "13", Version = "13", ~e.again,
         e.pc = 15, EarlyTaken
  PROVE  LET f == ServerEndEarly(e)
         IN  Rekeyed(e, f) /\ KeysAt("server", f, 26) /\ FlagsAt("server", f, 26)
  <1> DEFINE f == ReadInit(e, HsKey(e))
  <1>1. /\ DOMAIN e = Fields /\ e.next \in 1..3 /\ DOMAIN e.keys = 0..e.next
        /\ e.re \in 0..e.next /\ e.we \in 0..e.next
        /\ KeysAt("server", e, 25) /\ FlagsAt("server", e, 25)
    BY AtStep DEF Ends
  <1>2. e.keys[e.next] = Both(HsK) /\ e.keys[e.we].w = HsK
    BY <1>1 DEF KeysAt, NextKeyAt, WriteKeyAt
  <1>3. Has(e, "accepted")
    BY <1>1 DEF FlagsAt, ServerFlags
  <1>4. ServerEndEarly(e) = f
    BY <1>3 DEF ServerEndEarly
  <1>5. e.keys[e.next] # Unset /\ e.next \in Nat
    BY <1>1, <1>2, KeysNotUnset
  <1>6. SameEpochs(e, e) /\ SameControl(e, e) /\ SameBuffers(e, e) /\ Aux(e, e)
    BY AuxSame DEF SameEpochs, SameControl, SameBuffers
  <1>7. /\ Rekeyed(e, f) /\ f.keys = e.keys /\ f.we = e.we /\ f.re = e.next /\ f.next = e.next
        /\ f.flags = e.flags
    BY <1>1, <1>5, <1>6, ReadOn DEF Ends
  <1> HIDE DEF f
  <1>8. KeysAt("server", f, 26)
    BY <1>2, <1>7, KeysNotUnset DEF KeysAt, WriteKeyAt, ReadKeyAt, NextKeyAt
  <1>9. FlagsAt("server", f, 26)
    BY <1>1, <1>7 DEF FlagsAt, ServerFlags, Has
  <1> QED BY <1>4, <1>7, <1>8, <1>9

\* The server reads under the application keys.
LEMMA ServerReadStep ==
  ASSUME NEW e, Setting, Local("server", e), HereOK("server", e), e.prog = "13", Version = "13", ~e.again,
         e.pc = 22
  PROVE  LET f == ServerReadKeys(e)
         IN  Rekeyed(e, f) /\ KeysAt("server", f, 33) /\ FlagsAt("server", f, 33)
  <1> DEFINE d == [e EXCEPT !.rms = IF Has(e, "early_start_used") THEN @ ELSE e.tr]
             f == ReadInit(d, AppKey(e))
  <1>1. /\ DOMAIN e = Fields /\ e.next \in 1..3 /\ DOMAIN e.keys = 0..e.next
        /\ e.re \in 0..e.next /\ e.we \in 0..e.next
        /\ KeysAt("server", e, 32) /\ FlagsAt("server", e, 32)
    BY AtStep DEF Ends
  <1>2. e.keys[e.next] = Both(AppK) /\ e.keys[e.we].w = AppK
    BY <1>1 DEF KeysAt, NextKeyAt, WriteKeyAt
  <1>3. e.keys[e.next] # Unset /\ e.next \in Nat
    BY <1>1, <1>2, KeysNotUnset
  <1>4. /\ DOMAIN d = Fields /\ SameEpochs(e, d) /\ SameControl(e, d) /\ SameBuffers(e, d)
        /\ d.tr = e.tr /\ d.mark = e.mark /\ d.psk = e.psk /\ d.flags = e.flags /\ d.err = e.err
    BY <1>1 DEF Fields, SameEpochs, SameControl, SameBuffers
  <1>5. Aux(e, d)
    BY <1>1 DEF Fields, Aux
  <1> HIDE DEF d
  <1>6. /\ Rekeyed(e, f) /\ f.keys = e.keys /\ f.we = e.we /\ f.re = e.next /\ f.next = e.next
        /\ f.flags = e.flags
    BY <1>1, <1>3, <1>4, <1>5, ReadOn DEF Ends
  <1> HIDE DEF f
  <1>7. KeysAt("server", f, 33)
    BY <1>2, <1>6, KeysNotUnset DEF KeysAt, WriteKeyAt, ReadKeyAt, NextKeyAt
  <1>8. FlagsAt("server", f, 33)
    BY <1>1, <1>6 DEF FlagsAt, ServerFlags, Has
  <1> QED BY <1>6, <1>7, <1>8 DEF f, d, ServerReadKeys

\* The server's application keys.
LEMMA ServerAppStep ==
  ASSUME NEW e, Setting, Local("server", e), HereOK("server", e), e.prog = "13", Version = "13", ~e.again,
         e.pc = 16
  PROVE  LET f == ServerAppKeys(e)
         IN  Rekeyed(e, f) /\ KeysAt("server", f, 27) /\ FlagsAt("server", f, 27)
  <1> DEFINE b == BumpDup(e)
             d == IF EarlyStart(e)
                  THEN [b EXCEPT !.rms = Append(e.tr, <<"client", "Finished">>),
                                 !.flags = @ \cup {"early_start_used"}]
                  ELSE b
             f == WriteInit(d, AppKey(d))
  <1>1. /\ DOMAIN e = Fields /\ e.min = 0 /\ e.next \in 1..3 /\ DOMAIN e.keys = 0..e.next
        /\ e.re \in 0..e.next /\ e.we \in 0..e.next /\ e.next \in DOMAIN e.keys
        /\ KeysAt("server", e, 26) /\ FlagsAt("server", e, 26) /\ SecretsAt("server", e, 26)
    BY AtStep DEF Ends
  <1>2. AppKey(e) = AppK
    BY <1>1, Secrets13 DEF Ends
  <1>3. e.next <= 2
    BY DEF Local, Core, EpochsOK, Server13Epochs
  <1>4. e.next \in 1..2
    BY <1>1, <1>3
  <1>5. /\ SameButKeys(e, b) /\ b.next = e.next + 1 /\ b.re = e.re /\ b.we = e.we
        /\ DOMAIN b.keys = 0..(e.next + 1)
        /\ \A i \in 0..e.next : b.keys[i] = e.keys[i]
        /\ b.keys[e.next + 1] = Unset
    BY <1>1, <1>4, BumpFields
  <1>6. Aux(e, b) /\ DOMAIN b = Fields
    BY <1>1, AuxBump
  <1> HIDE DEF b
  <1>7. /\ DOMAIN d = Fields /\ SameEpochs(b, d) /\ SameControl(b, d) /\ SameBuffers(b, d)
        /\ d.tr = b.tr /\ d.mark = b.mark /\ d.psk = b.psk /\ d.err = b.err
        /\ \A x : x # "early_start_used" => (x \in d.flags <=> x \in b.flags)
    BY <1>6 DEF Fields, SameEpochs, SameControl, SameBuffers
  <1>8. Aux(b, d)
    BY <1>6 DEF Fields, Aux
  <1> HIDE DEF d
  <1>9. d.next = e.next + 1 /\ d.keys = b.keys /\ d.next \in DOMAIN d.keys /\ d.re = e.re
    BY <1>4, <1>5, <1>7 DEF SameEpochs
  <1>10. AppKey(d) = AppK
    BY <1>2, <1>5, <1>7 DEF AppKey, Key, SameButKeys, SameSecrets
  <1>11. Inited(d, f, AppK) /\ f.we = d.next /\ f.re = d.re
    BY <1>7, <1>9, <1>10, InitFields
  <1>12. Aux(d, f)
    BY <1>7, AuxInit
  <1> HIDE DEF f
  <1>13. /\ SameButKeys(d, f) /\ f.next = e.next + 1 /\ f.we = e.next + 1 /\ f.re = e.re
         /\ \A i \in 0..e.next : f.keys[i] = e.keys[i]
         /\ f.keys[e.next + 1] = Both(AppK)
    <2>1. SameButKeys(d, f) /\ f.next = e.next + 1 /\ f.we = e.next + 1 /\ f.re = e.re
      BY <1>9, <1>11 DEF Inited
    <2>2. f.keys[e.next + 1] = Both(AppK)
      BY <1>5, <1>9, <1>11 DEF Inited
    <2>3. ASSUME NEW i \in 0..e.next PROVE f.keys[i] = e.keys[i]
      <3>1. i \in DOMAIN d.keys /\ i # d.next
        BY <1>4, <1>5, <1>9, <2>3
      <3>2. f.keys[i] = d.keys[i]
        BY <1>11, <3>1 DEF Inited
      <3> QED BY <1>5, <1>9, <3>2
    <2> QED BY <2>1, <2>2, <2>3
  <1>14. Rekeyed(e, f)
    <2>1. Aux(e, f)
      BY <1>6, <1>8, <1>12 DEF Aux
    <2>2. \A i \in 0..e.we : f.keys[i].w = e.keys[i].w
      BY <1>1, <1>13
    <2>3. e.we \in Nat /\ f.we \in Nat /\ e.we <= f.we
      BY <1>1, <1>13
    <2>4. /\ DOMAIN f = Fields /\ SameControl(e, f) /\ f.err = e.err
          /\ f.tr = e.tr /\ f.mark = e.mark /\ f.psk = e.psk /\ SameBuffers(e, f)
      BY <1>5, <1>7, <1>13 DEF SameButKeys, SameControl, SameSecrets, SameBuffers
    <2> QED BY <2>1, <2>2, <2>3, <2>4 DEF Rekeyed
  <1>15. KeysAt("server", f, 27)
    <2>1. f.keys[e.re].r = HsK
      <3>1. e.keys[e.re].r = ReadKeyAt("server", 26)
        BY <1>1 DEF KeysAt
      <3> QED BY <1>1, <1>13, <3>1 DEF ReadKeyAt
    <2> QED BY <1>13, <2>1, KeysNotUnset DEF KeysAt, WriteKeyAt, ReadKeyAt, NextKeyAt
  <1>16. FlagsAt("server", f, 27)
    <2>1. \A x : x # "early_start_used" => (x \in f.flags <=> x \in e.flags)
      BY <1>5, <1>7, <1>13 DEF SameButKeys
    <2> QED BY <1>1, <2>1 DEF FlagsAt, ServerFlags, Has
  <1> QED BY <1>14, <1>15, <1>16 DEF f, d, b, ServerAppKeys

\* The keys of TLS 1.2 are set once; what is in use stays.
LEMMA Inited12 ==
  ASSUME NEW p \in Ends, NEW e, NEW f, NEW n \in Nat, Setting, Version # "13", KeysAt(p, e, n), e.next = 1,
         DOMAIN e.keys = 0..1, e.we \in 0..1, e.re \in 0..1, Inited(e, f, K12)
  PROVE  /\ f.keys[1] = Both(K12) /\ f.keys[0] = e.keys[0] /\ f.next = 1
         /\ f.keys[e.we].w = WriteKeyAt(p, n) /\ f.keys[e.re].r = ReadKeyAt(p, n)
         /\ \A i \in 0..e.we : f.keys[i].w = e.keys[i].w
  <1>1. e.keys[1] = Unset \/ e.keys[1] = Both(K12)
    BY DEF KeysAt, NextKeyAt
  <1>2. f.keys[1] = Both(K12) /\ f.keys[0] = e.keys[0] /\ f.next = 1
    BY <1>1, KeysNotUnset DEF Inited
  <1>3. e.keys[1] = Unset => e.we = 0 /\ e.re = 0
    BY InUse
  <1>4. e.keys[1] # Unset => f.keys[1] = e.keys[1]
    BY <1>1, <1>2
  <1>5. f.keys[e.we] = e.keys[e.we] /\ f.keys[e.re] = e.keys[e.re]
    <2>1. CASE e.keys[1] = Unset
      BY <2>1, <1>2, <1>3
    <2>2. CASE e.keys[1] # Unset
      BY <2>2, <1>2, <1>4
    <2> QED BY <2>1, <2>2
  <1>6. \A i \in 0..e.we : f.keys[i].w = e.keys[i].w
    <2>1. CASE e.keys[1] = Unset
      BY <2>1, <1>2, <1>3
    <2>2. CASE e.keys[1] # Unset
      BY <2>2, <1>2, <1>4
    <2> QED BY <2>1, <2>2
  <1> QED BY <1>2, <1>5, <1>6 DEF KeysAt

\* What is common to both directions.
LEMMA At12 ==
  ASSUME NEW p \in Ends, NEW e, Setting, Local(p, e), HereOK(p, e), e.prog \in {"12", "12r"}, ~e.again
  PROVE  /\ DOMAIN e = Fields /\ e.next = 1 /\ DOMAIN e.keys = 0..1 /\ e.we \in 0..1 /\ e.re \in 0..1
         /\ e.next \in DOMAIN e.keys /\ e.prog = Version /\ Version # "13" /\ e.pc \in Nat
         /\ KeysAt(p, e, e.pc + 10) /\ FlagsAt(p, e, e.pc + 10) /\ SecretsAt(p, e, e.pc + 10)
  <1>1. e.next = 1
    BY DEF Local, Core, EpochsOK, Epochs12
  <1>2. /\ DOMAIN e = Fields /\ DOMAIN e.keys = 0..e.next
        /\ e.re \in 0..e.next /\ e.we \in 0..e.next /\ e.next \in DOMAIN e.keys /\ e.pc \in Nat
        /\ KeysAt(p, e, e.pc + 10) /\ FlagsAt(p, e, e.pc + 10) /\ SecretsAt(p, e, e.pc + 10)
    BY AtStep
  <1>3. e.prog = Version
    BY EnginePlace
  <1> QED BY <1>1, <1>2, <1>3

\* The steps of TLS 1.2 that set keys change no flag.
LEMMA NoFlag12 ==
  ASSUME NEW p \in Ends, NEW n \in Nat, Setting, Version # "13", KeyStep(p, n)
  PROVE  ~FlagStep(p, n)
  BY DEF KeyStep, FlagStep, Read12, Write12, Setting, Three, EarlySent, EarlyTaken, Ends

\* An endpoint of TLS 1.2 takes up its keys to write.
LEMMA Write12Step ==
  ASSUME NEW p \in Ends, NEW e, Setting, Local(p, e), HereOK(p, e), e.prog \in {"12", "12r"}, ~e.again,
         e.pc = Write12(p, e.prog)
  PROVE  LET f == WriteInit(e, Key12(e))
         IN  Rekeyed(e, f) /\ KeysAt(p, f, e.pc + 11) /\ FlagsAt(p, f, e.pc + 11) /\ KeyStep(p, e.pc + 10)
  <1> DEFINE f == WriteInit(e, Key12(e))
             n == e.pc + 10
             m == e.pc + 11
  <1>1. /\ DOMAIN e = Fields /\ e.next = 1 /\ DOMAIN e.keys = 0..1 /\ e.we \in 0..1 /\ e.re \in 0..1
        /\ e.next \in DOMAIN e.keys /\ e.prog = Version /\ Version # "13" /\ e.pc \in Nat
        /\ KeysAt(p, e, n) /\ FlagsAt(p, e, n) /\ SecretsAt(p, e, n)
    BY At12
  <1>2. n \in Nat /\ m \in Nat /\ m = n + 1 /\ n = 10 + Write12(p, Version)
    BY <1>1
  <1>3. KeyStep(p, n)
    BY <1>1, <1>2 DEF KeyStep
  <1>4. n \in Places(p) /\ Follows(p, n, m)
    BY EnginePlace
  <1> HIDE DEF n, m
  <1>5. Key12(e) = K12
    BY <1>1, <1>2, <1>3, Secrets12
  <1>6. Inited(e, f, K12) /\ f.we = e.next /\ f.re = e.re
    BY <1>1, <1>5, InitFields
  <1>7. Aux(e, f)
    BY <1>1, AuxInit
  <1> HIDE DEF f
  <1>8. /\ f.keys[1] = Both(K12) /\ f.keys[0] = e.keys[0] /\ f.next = 1
        /\ f.keys[e.we].w = WriteKeyAt(p, n) /\ f.keys[e.re].r = ReadKeyAt(p, n)
        /\ \A i \in 0..e.we : f.keys[i].w = e.keys[i].w
    BY <1>1, <1>2, <1>6, Inited12
  <1>9. Rekeyed(e, f)
    <2>1. SameButKeys(e, f)
      BY <1>6 DEF Inited
    <2>2. e.we \in Nat /\ f.we \in Nat /\ e.we <= f.we
      BY <1>1, <1>6
    <2> QED BY <1>7, <1>8, <2>1, <2>2, RekeyedIs
  <1>10. KeysAt(p, f, m)
    <2>1. WriteKeyAt(p, m) = K12 /\ NextKeyAt(p, m) = Both(K12) /\ ReadKeyAt(p, m) = ReadKeyAt(p, n)
      BY <1>1, <1>2 DEF WriteKeyAt, NextKeyAt, ReadKeyAt, Read12, Write12, Setting, Three
    <2> QED BY <1>1, <1>6, <1>8, <2>1, KeysNotUnset DEF KeysAt
  <1>11. FlagsAt(p, f, m)
    <2>1. f.flags = e.flags
      BY <1>6 DEF Inited, SameButKeys
    <2> QED BY <1>1, <1>2, <1>3, <1>4, <2>1, NoFlag12, FlagsStay
  <1> QED BY <1>3, <1>9, <1>10, <1>11 DEF f, n, m

\* And to read.
LEMMA Read12Step ==
  ASSUME NEW p \in Ends, NEW e, Setting, Local(p, e), HereOK(p, e), e.prog \in {"12", "12r"}, ~e.again,
         e.pc = Read12(p, e.prog)
  PROVE  LET f == ReadInit(e, Key12(e))
         IN  Rekeyed(e, f) /\ KeysAt(p, f, e.pc + 11) /\ FlagsAt(p, f, e.pc + 11) /\ KeyStep(p, e.pc + 10)
  <1> DEFINE f == ReadInit(e, Key12(e))
             n == e.pc + 10
             m == e.pc + 11
  <1>1. /\ DOMAIN e = Fields /\ e.next = 1 /\ DOMAIN e.keys = 0..1 /\ e.we \in 0..1 /\ e.re \in 0..1
        /\ e.next \in DOMAIN e.keys /\ e.prog = Version /\ Version # "13" /\ e.pc \in Nat
        /\ KeysAt(p, e, n) /\ FlagsAt(p, e, n) /\ SecretsAt(p, e, n)
    BY At12
  <1>2. n \in Nat /\ m \in Nat /\ m = n + 1 /\ n = 10 + Read12(p, Version)
    BY <1>1
  <1>3. KeyStep(p, n)
    BY <1>1, <1>2 DEF KeyStep
  <1>4. n \in Places(p) /\ Follows(p, n, m)
    BY EnginePlace
  <1> HIDE DEF n, m
  <1>5. Key12(e) = K12
    BY <1>1, <1>2, <1>3, Secrets12
  <1>6. Inited(e, f, K12) /\ f.we = e.we /\ f.re = e.next
    BY <1>1, <1>5, InitFields
  <1>7. Aux(e, f)
    BY <1>1, AuxInit
  <1> HIDE DEF f
  <1>8. /\ f.keys[1] = Both(K12) /\ f.keys[0] = e.keys[0] /\ f.next = 1
        /\ f.keys[e.we].w = WriteKeyAt(p, n) /\ f.keys[e.re].r = ReadKeyAt(p, n)
        /\ \A i \in 0..e.we : f.keys[i].w = e.keys[i].w
    BY <1>1, <1>2, <1>6, Inited12
  <1>9. Rekeyed(e, f)
    <2>1. SameButKeys(e, f)
      BY <1>6 DEF Inited
    <2>2. e.we \in Nat /\ f.we \in Nat /\ e.we <= f.we
      BY <1>1, <1>6
    <2> QED BY <1>7, <1>8, <2>1, <2>2, RekeyedIs
  <1>10. KeysAt(p, f, m)
    <2>1. ReadKeyAt(p, m) = K12 /\ NextKeyAt(p, m) = Both(K12) /\ WriteKeyAt(p, m) = WriteKeyAt(p, n)
      BY <1>1, <1>2 DEF WriteKeyAt, NextKeyAt, ReadKeyAt, Read12, Write12, Setting, Three
    <2> QED BY <1>1, <1>6, <1>8, <2>1, KeysNotUnset DEF KeysAt
  <1>11. FlagsAt(p, f, m)
    <2>1. f.flags = e.flags
      BY <1>6 DEF Inited, SameButKeys
    <2> QED BY <1>1, <1>2, <1>3, <1>4, <2>1, NoFlag12, FlagsStay
  <1> QED BY <1>3, <1>9, <1>10, <1>11 DEF f, n, m

-----------------------------------------------------------------------------
(* The steps that neither send nor receive.                                  *)

\* A server that asks for another hello replaces the first by its hash.
LEMMA SynthOK ==
  ASSUME NEW e, NEW o, Setting, Local("server", e), HereOK("server", e), Talk("server", e, o), Fit("client", o),
         e.prog = "13", ~e.again, e.pc = 2, mode.hrr,
         Local("server", Advance("server", [e EXCEPT !.tr = <<Synthetic>>]))
  PROVE  OK("server", Advance("server", [e EXCEPT !.tr = <<Synthetic>>]), o)
  <1> DEFINE f == [e EXCEPT !.tr = <<Synthetic>>]
             m == Moved(f)
  <1>1. "server" \in Ends /\ Peer("server") = "client" /\ Version = "13" /\ e.prog \in {"13", "12", "12r"}
    BY EnginePlace DEF Ends, Peer
  <1>2. /\ Place(e) = 12 /\ Follows("server", 12, 13) /\ 12 \in Places("server") /\ 13 \in Places("server")
        /\ Stands("server", e, 12)
    BY <1>1, EnginePlace
  <1>3. DOMAIN e = Fields
    BY <1>1, AtStep
  <1>4. /\ DOMAIN f = Fields /\ f.err = e.err /\ f.prog = e.prog /\ f.pc = e.pc /\ f.again = e.again
        /\ SameBuffers(e, f) /\ SameEpochs(e, f) /\ f.flags = e.flags /\ f.tr = <<Synthetic>>
        /\ f.psk = e.psk /\ f.mark = e.mark
    BY <1>3 DEF Fields, SameBuffers, SameEpochs
  <1>5. Aux(e, f)
    BY <1>3 DEF Fields, Aux
  <1> HIDE DEF f
  <1>6. /\ m.pc = 3 /\ m.again = FALSE /\ m.prog = e.prog /\ SameEpochs(f, m) /\ SameBuffers(f, m)
        /\ m.flags = f.flags /\ m.tr = f.tr /\ m.psk = f.psk /\ m.mark = f.mark
    <2>1. /\ m.pc = f.pc + 1 /\ m.again = FALSE /\ m.prog = f.prog /\ SameEpochs(f, m) /\ SameSecrets(f, m)
          /\ SameBuffers(f, m) /\ m.flags = f.flags
      BY <1>4, MovedFields
    <2> HIDE DEF m
    <2> QED BY <1>4, <2>1 DEF SameSecrets
  <1>7. Aux(f, m)
    BY <1>4, AuxMoved
  <1> HIDE DEF m
  <1>8. /\ Notes("server", e, 12) /\ QueueOK("server", e) /\ KeysAt("server", e, 12)
        /\ FlagsAt("server", e, 12)
    BY <1>2, StandsParts
  <1>9. Stands("server", m, 13)
    <2>1. Notes("server", m, 13)
      BY <1>5, <1>7, <1>8 DEF Notes, Aux, DoneAt, StartedAt
    <2>2. QueueOK("server", m)
      <3>1. e.q = m.q /\ e.we = m.we
        BY <1>4, <1>6 DEF SameBuffers, SameEpochs
      <3>2. m.prog # "start" /\ ~m.again /\ m.pc <= QueueEnd("server")
        BY <1>1, <1>6 DEF QueueEnd
      <3> QED BY <1>8, <3>1, <3>2 DEF QueueOK
    <2>3. KeysAt("server", m, 13)
      BY <1>1, <1>4, <1>6, <1>8 DEF KeysAt, SameEpochs, WriteKeyAt, ReadKeyAt, NextKeyAt
    <2>4. FlagsAt("server", m, 13)
      BY <1>1, <1>4, <1>6, <1>8 DEF FlagsAt, ServerFlags, Has
    <2>5. SecretsAt("server", m, 13)
      <3>1. m.tr = <<Synthetic>> /\ Forgets("server", 13)
        BY <1>1, <1>4, <1>6 DEF Forgets
      <3> QED BY <1>1, <3>1 DEF SecretsAt
    <2> QED BY <2>1, <2>2, <2>3, <2>4, <2>5, StandsParts
  <1>10. Glides("server", 12, 13)
    <2>1. IdleAt("server", 12)
      BY <1>1 DEF IdleAt
    <2>2. 12 \in Nat /\ 13 \in Nat /\ 13 = 12 + 1 /\ Three /\ Modern
      BY SettingParts
    <2> QED BY <1>1, <1>2, <2>1, <2>2, Glide
  <1>11. Buffers(e)
    BY DEF Local, Core, ItemsOK, Buffers
  <1>12. Buffers(f) /\ Unread(f) = Unread(e)
    <2>1. f.q = e.q /\ f.keys = e.keys
      BY <1>4 DEF SameBuffers, SameEpochs
    <2> QED BY <1>4, <1>11, <2>1, UnreadSame DEF Buffers, SameBuffers
  <1>13. f.sent = e.sent /\ f.got = e.got /\ f.err = "none"
    BY <1>4, <1>5 DEF Aux, HereOK
  <1>14. Stands("server", Moved(f), e.pc + 11) /\ Glides("server", Place(e), e.pc + 11) /\ Local("server", Advance("server", f))
    BY <1>2, <1>9, <1>10 DEF m, f
  <1>15. OK("server", Advance("server", f), o)
    BY <1>1, <1>4, <1>12, <1>13, <1>14, GlideOK
  <1> QED BY <1>15 DEF f

\* gnutls_handshake may return early.
LEMMA StartOK ==
  ASSUME NEW p \in Ends, NEW e, NEW o, Setting, Local(p, e), HereOK(p, e), Talk(p, e, o), Fit(Peer(p), o),
         e.prog \in {"13", "12", "12r"}, ~e.again, Local(p, Advance(p, Start(p, e))),
         RestAt(p, e.pc + 10), StartedAt(p, e.pc + 11)
  PROVE  OK(p, Advance(p, Start(p, e)), o)
  <1> DEFINE f == Start(p, e)
  <1>1. DOMAIN e = Fields
    BY AtStep
  <1>2. SameRest(e, f) /\ SameBuffers(e, f) /\ f.sent = e.sent /\ f.got = e.got /\ f.auths = e.auths /\ f.done = e.done
    BY <1>1 DEF Start, Fields, SameRest, SameControl, SameEpochs, SameSecrets, SameBuffers
  <1> HIDE DEF f
  <1>3. OK(p, Advance(p, f), o)
    BY <1>2, PlainOK DEF f
  <1> QED BY <1>3 DEF f

\* Nothing to be done.
LEMMA NothingOK ==
  ASSUME NEW p \in Ends, NEW e, NEW o, Setting, Local(p, e), HereOK(p, e), Talk(p, e, o), Fit(Peer(p), o),
         e.prog \in {"13", "12", "12r"}, ~e.again, Local(p, Advance(p, e)),
         AbsentAt(p, e.pc + 10) \/ RestAt(p, e.pc + 10)
  PROVE  OK(p, Advance(p, e), o)
  <1>1. DOMAIN e = Fields
    BY AtStep
  <1> QED BY <1>1, SameSelf, PlainOK

\* An endpoint and its peer before a step.
Ready(p, e, o) == Setting /\ Local(p, e) /\ HereOK(p, e) /\ Talk(p, e, o) /\ Fit(Peer(p), o)

\* A step that is not skipped.
LEMMA NotSkipped ==
  ASSUME NEW p \in Ends, NEW e, NEW o, Ready(p, e, o), e.prog \in {"13", "12", "12r"}, ~e.again,
         ~Skips(p, e, At(p, e)), ~(p = "server" /\ e.pc \in {17, 23})
  PROVE  ~SkipAt(p, e.pc + 10)
  BY SkipPlace DEF Ready

\* A step that takes up keys.
LEMMA KeyReady ==
  ASSUME NEW p \in Ends, NEW e, NEW f, NEW o, Ready(p, e, o), e.prog \in {"13", "12", "12r"}, ~e.again,
         Local(p, Advance(p, f)), NEW n, NEW m, n = e.pc + 10, m = e.pc + 11,
         IdleAt(p, n), KeyStep(p, n), Rekeyed(e, f), KeysAt(p, f, m), FlagsAt(p, f, m)
  PROVE  OK(p, Advance(p, f), o)
  BY KeyOK DEF Ready

\* The TLS 1.3 client.
LEMMA DoClient13 ==
  ASSUME NEW e, NEW o, Ready("client", e, o), e.prog = "13", ~e.again,
         At("client", e).op = "do", ~Skips("client", e, At("client", e)),
         Local("client", Advance("client", Do("client", e, At("client", e).msg)))
  PROVE  OK("client", Advance("client", Do("client", e, At("client", e).msg)), o)
  <1> DEFINE p == "client"
             s == At(p, e)
             f == Do(p, e, s.msg)
  <1>1. p \in Ends /\ Setting /\ Local(p, e) /\ HereOK(p, e) /\ Talk(p, e, o) /\ Fit(Peer(p), o) /\ Versions
    BY DEF Ends, Ready, Setting
  <1>2. Version = "13"
    BY <1>1, EnginePlace
  <1>3. ~SkipAt(p, e.pc + 10)
    BY <1>1, NotSkipped
  <1>4. e.pc \in {5, 7, 14, 18}
    <2>1. e.pc \in 4..18
      BY <1>1, Due
    <2> QED BY <2>1, Client13Steps DEF S
  <1>5. CASE e.pc = 5
    <2>1. s.msg = "early_keys"
      BY <1>5, Client13Steps DEF S
    <2>2. f = ClientEarlyKeys(e)
      BY <2>1 DEF Do
    <2>3. EarlySent
      BY <1>2, <1>3, <1>5 DEF SkipAt
    <2>4. Rekeyed(e, f) /\ KeysAt(p, f, 16) /\ FlagsAt(p, f, 16)
      BY <1>1, <1>2, <1>5, <2>2, <2>3, EarlyKeysStep
    <2>5. IdleAt(p, 15) /\ KeyStep(p, 15)
      BY <1>2, <2>3 DEF IdleAt, KeyStep
    <2> HIDE DEF f
    <2> QED BY <1>1, <1>5, <2>4, <2>5, KeyReady DEF f
  <1>6. CASE e.pc = 7
    <2>1. s.msg = "hs_keys"
      BY <1>6, Client13Steps DEF S
    <2>2. f = ClientHsKeys(e)
      BY <2>1 DEF Do
    <2>4. Rekeyed(e, f) /\ KeysAt(p, f, 18) /\ FlagsAt(p, f, 18)
      BY <1>1, <1>2, <1>6, <2>2, ClientHsStep
    <2>5. IdleAt(p, 17) /\ KeyStep(p, 17)
      BY <1>2 DEF IdleAt, KeyStep
    <2> HIDE DEF f
    <2> QED BY <1>1, <1>6, <2>4, <2>5, KeyReady DEF f
  <1>7. CASE e.pc = 14
    <2>1. s.msg = "end_early"
      BY <1>7, Client13Steps DEF S
    <2>2. f = ClientEndEarly(e)
      BY <2>1 DEF Do
    <2>3. CASE EarlySent
      <3>1. Rekeyed(e, f) /\ KeysAt(p, f, 25) /\ FlagsAt(p, f, 25)
        BY <1>1, <1>2, <1>7, <2>2, <2>3, ClientEndStep
      <3>2. IdleAt(p, 24) /\ KeyStep(p, 24)
        BY <1>2, <2>3 DEF IdleAt, KeyStep
      <3> HIDE DEF f
      <3> QED BY <1>1, <1>7, <3>1, <3>2, KeyReady DEF f
    <2>4. CASE ~EarlySent
      <3>1. FlagsAt(p, e, e.pc + 10)
        BY <1>1, AtStep
      <3>2. ~Has(e, "in_flight")
        BY <2>4, <3>1 DEF FlagsAt, ClientFlags
      <3>3. f = e
        BY <2>2, <3>2 DEF ClientEndEarly
      <3>4. RestAt(p, e.pc + 10)
        BY <1>2, <1>7, <2>4 DEF RestAt
      <3>5. Local(p, Advance(p, e))
        BY <3>3
      <3> HIDE DEF f
      <3> QED BY <1>1, <3>3, <3>4, <3>5, NothingOK DEF f
    <2> QED BY <2>3, <2>4
  <1>8. CASE e.pc = 18
    <2>1. s.msg = "app_keys"
      BY <1>8, Client13Steps DEF S
    <2>2. f = ClientAppKeys(e)
      BY <2>1 DEF Do
    <2>4. Rekeyed(e, f) /\ KeysAt(p, f, 29) /\ FlagsAt(p, f, 29)
      BY <1>1, <1>2, <1>8, <2>2, ClientAppStep
    <2>5. IdleAt(p, 28) /\ KeyStep(p, 28)
      BY <1>2 DEF IdleAt, KeyStep
    <2> HIDE DEF f
    <2> QED BY <1>1, <1>8, <2>4, <2>5, KeyReady DEF f
  <1> QED BY <1>4, <1>5, <1>6, <1>7, <1>8

\* The TLS 1.3 server.
LEMMA DoServer13 ==
  ASSUME NEW e, NEW o, Ready("server", e, o), e.prog = "13", ~e.again,
         At("server", e).op = "do", ~Skips("server", e, At("server", e)),
         Local("server", Advance("server", Do("server", e, At("server", e).msg)))
  PROVE  OK("server", Advance("server", Do("server", e, At("server", e).msg)), o)
  <1> DEFINE p == "server"
             s == At(p, e)
             f == Do(p, e, s.msg)
  <1>1. p \in Ends /\ Setting /\ Local(p, e) /\ HereOK(p, e) /\ Talk(p, e, o) /\ Fit(Peer(p), o) /\ Versions
    BY DEF Ends, Ready, Setting
  <1>2. Version = "13"
    BY <1>1, EnginePlace
  <1>4. e.pc \in {2, 8, 15, 16, 18, 22}
    <2>1. e.pc \in 2..23
      BY <1>1, Due
    <2> QED BY <2>1, Server13Steps DEF S
  <1>3. ~SkipAt(p, e.pc + 10)
    BY <1>1, <1>4, NotSkipped
  <1>5. CASE e.pc = 2
    <2>1. s.msg = "synth"
      BY <1>5, Server13Steps DEF S
    <2>2. f = [e EXCEPT !.tr = <<Synthetic>>]
      BY <2>1 DEF Do
    <2>3. mode.hrr
      BY <1>2, <1>3, <1>5 DEF SkipAt
    <2>4. Fit("client", o)
      BY <1>1 DEF Peer
    <2> QED BY <1>1, <1>5, <2>2, <2>3, <2>4, SynthOK
  <1>6. CASE e.pc = 8
    <2>1. s.msg = "hs_keys"
      BY <1>6, Server13Steps DEF S
    <2>2. f = ServerHsKeys(e)
      BY <2>1 DEF Do
    <2>4. Rekeyed(e, f) /\ KeysAt(p, f, 19) /\ FlagsAt(p, f, 19)
      BY <1>1, <1>2, <1>6, <2>2, ServerHsStep
    <2>5. IdleAt(p, 18) /\ KeyStep(p, 18)
      BY <1>2 DEF IdleAt, KeyStep
    <2> HIDE DEF f
    <2> QED BY <1>1, <1>6, <2>4, <2>5, KeyReady DEF f
  <1>7. CASE e.pc = 15
    <2>1. s.msg = "end_early"
      BY <1>7, Server13Steps DEF S
    <2>2. f = ServerEndEarly(e)
      BY <2>1 DEF Do
    <2>3. CASE EarlyTaken
      <3>1. Rekeyed(e, f) /\ KeysAt(p, f, 26) /\ FlagsAt(p, f, 26)
        BY <1>1, <1>2, <1>7, <2>2, <2>3, ServerEndStep
      <3>2. IdleAt(p, 25) /\ KeyStep(p, 25)
        BY <1>2, <2>3 DEF IdleAt, KeyStep
      <3> HIDE DEF f
      <3> QED BY <1>1, <1>7, <3>1, <3>2, KeyReady DEF f
    <2>4. CASE ~EarlyTaken
      <3>1. FlagsAt(p, e, e.pc + 10)
        BY <1>1, AtStep
      <3>2. ~Has(e, "accepted")
        BY <2>4, <3>1 DEF FlagsAt, ServerFlags
      <3>3. f = e
        BY <2>2, <3>2 DEF ServerEndEarly
      <3>4. RestAt(p, e.pc + 10)
        BY <1>2, <1>7, <2>4 DEF RestAt
      <3>5. Local(p, Advance(p, e))
        BY <3>3
      <3> HIDE DEF f
      <3> QED BY <1>1, <3>3, <3>4, <3>5, NothingOK DEF f
    <2> QED BY <2>3, <2>4
  <1>8. CASE e.pc = 16
    <2>1. s.msg = "app_keys"
      BY <1>8, Server13Steps DEF S
    <2>2. f = ServerAppKeys(e)
      BY <2>1 DEF Do
    <2>4. Rekeyed(e, f) /\ KeysAt(p, f, 27) /\ FlagsAt(p, f, 27)
      BY <1>1, <1>2, <1>8, <2>2, ServerAppStep
    <2>5. IdleAt(p, 26) /\ KeyStep(p, 26)
      BY <1>2 DEF IdleAt, KeyStep
    <2> HIDE DEF f
    <2> QED BY <1>1, <1>8, <2>4, <2>5, KeyReady DEF f
  <1>9. CASE e.pc = 18
    <2>1. s.msg = "start"
      BY <1>9, Server13Steps DEF S
    <2>2. f = Start(p, e)
      BY <2>1 DEF Do
    <2>3. RestAt(p, e.pc + 10) /\ StartedAt(p, e.pc + 11)
      BY <1>2, <1>9 DEF RestAt, StartedAt
    <2> QED BY <1>1, <2>2, <2>3, StartOK
  <1>10. CASE e.pc = 22
    <2>1. s.msg = "read_keys"
      BY <1>10, Server13Steps DEF S
    <2>2. f = ServerReadKeys(e)
      BY <2>1 DEF Do
    <2>4. Rekeyed(e, f) /\ KeysAt(p, f, 33) /\ FlagsAt(p, f, 33)
      BY <1>1, <1>2, <1>10, <2>2, ServerReadStep
    <2>5. IdleAt(p, 32) /\ KeyStep(p, 32)
      BY <1>2 DEF IdleAt, KeyStep
    <2> HIDE DEF f
    <2> QED BY <1>1, <1>10, <2>4, <2>5, KeyReady DEF f
  <1> QED BY <1>4, <1>5, <1>6, <1>7, <1>8, <1>9, <1>10

\* An endpoint of TLS 1.2.
LEMMA Do12 ==
  ASSUME NEW p \in Ends, NEW e, NEW o, Ready(p, e, o), e.prog \in {"12", "12r"}, ~e.again,
         At(p, e).op = "do", Local(p, Advance(p, Do(p, e, At(p, e).msg)))
  PROVE  OK(p, Advance(p, Do(p, e, At(p, e).msg)), o)
  <1> DEFINE s == At(p, e)
             f == Do(p, e, s.msg)
  <1>1. Setting /\ Local(p, e) /\ HereOK(p, e) /\ Talk(p, e, o) /\ Fit(Peer(p), o) /\ Versions
    BY DEF Ready, Setting
  <1>2. Version = e.prog
    BY <1>1, EnginePlace
  <1>3. /\ p = "client" => /\ e.prog = "12" => e.pc \in 4..17
                           /\ e.prog = "12r" => e.pc \in 4..9
        /\ p = "server" => /\ e.prog = "12" => e.pc \in 2..15
                           /\ e.prog = "12r" => e.pc \in 2..8
    BY <1>1, Due
  <1>4. \/ s.msg = "start" /\ p = "client" /\ e.prog = "12" /\ e.pc = 14
        \/ s.msg = "write12" /\ e.pc = Write12(p, e.prog)
    <2>1. CASE p = "client"
      BY <1>3, <2>1, Client12Steps DEF S, Write12
    <2>2. CASE p = "server"
      BY <1>3, <2>2, Server12Steps DEF S, Write12
    <2> QED BY <2>1, <2>2 DEF Ends
  <1>5. CASE s.msg = "start" /\ p = "client" /\ e.prog = "12" /\ e.pc = 14
    <2>1. f = Start(p, e)
      BY <1>5 DEF Do
    <2>2. RestAt(p, e.pc + 10) /\ StartedAt(p, e.pc + 11)
      BY <1>2, <1>5 DEF RestAt, StartedAt
    <2> QED BY <1>1, <2>1, <2>2, StartOK
  <1>6. CASE s.msg = "write12" /\ e.pc = Write12(p, e.prog)
    <2>1. f = WriteInit(e, Key12(e))
      BY <1>6 DEF Do
    <2>2. Rekeyed(e, f) /\ KeysAt(p, f, e.pc + 11) /\ FlagsAt(p, f, e.pc + 11) /\ KeyStep(p, e.pc + 10)
      BY <1>1, <1>6, <2>1, Write12Step
    <2>3. IdleAt(p, e.pc + 10)
      BY <1>2, <1>6 DEF IdleAt, Write12, Ends
    <2> HIDE DEF f
    <2> QED BY <1>1, <2>2, <2>3, KeyReady DEF f
  <1> QED BY <1>4, <1>5, <1>6

\* A step that neither sends nor receives.
LEMMA DoOK ==
  ASSUME NEW p \in Ends, NEW e, NEW o, Ready(p, e, o), Running(e),
         At(p, e).op = "do", ~Skips(p, e, At(p, e)), Local(p, Advance(p, Do(p, e, At(p, e).msg)))
  PROVE  OK(p, Advance(p, Do(p, e, At(p, e).msg)), o)
  <1>1. Setting /\ Local(p, e) /\ Versions /\ e.prog # "none" /\ Control(p, e)
    BY DEF Ready, Setting, Running, Local, Core
  <1>2. ~e.again
    BY <1>1 DEF Local, At
  <1>3. e.prog \notin {"start", "reauth", "ticket"}
    <2>1. CASE p = "client"
      BY <1>1, <2>1, Due, Where, StartSteps, LaterSteps DEF S
    <2>2. CASE p = "server"
      BY <1>1, <2>2, Due, Where, StartSteps, LaterSteps DEF S
    <2> QED BY <2>1, <2>2 DEF Ends
  <1>4. e.prog \in {"13", "12", "12r"}
    BY <1>1, <1>3, Where
  <1> QED BY <1>2, <1>4, DoClient13, DoServer13, Do12 DEF Ends

-----------------------------------------------------------------------------
(* The hellos, where nothing is said or heard.                               *)

\* A client that goes on with its hellos.
LEMMA StartGoes ==
  ASSUME NEW e, NEW o, Ready("client", e, o), e.prog = "start",
         \/ e.again
         \/ e.pc = 2 /\ ~e.again /\ AbsentAt("client", Place(e))
  PROVE  OK("client", Advance("client", e), o)
  <1> DEFINE p == "client"
             m == Moved(e)
             n == Place(e)
  <1>1. p \in Ends /\ Setting /\ Local(p, e) /\ HereOK(p, e) /\ Talk(p, e, o) /\ Fit(Peer(p), o)
    BY DEF Ends, Ready
  <1>2. /\ e.pc \in 1..3 /\ Reach(e) \in 1..3 /\ (e.again => e.pc = 1)
        /\ Retried(e) => mode.hrr /\ n = Reach(e) + 10
        /\ ~Retried(e) => n = Reach(e)
        /\ Stands(p, e, n) /\ n \in Places(p)
        /\ n # 3 \/ ~mode.hrr
        /\ e.q = <<>>
    BY <1>1, StartClient
  <1>3. DOMAIN e = Fields /\ Buffers(e) /\ e.err = "none"
    BY <1>1 DEF Local, Core, Control, ItemsOK, Buffers, HereOK
  <1>4. Advance(p, e) = m
    <2>1. e.pc = 1 \/ e.pc = 2
      BY <1>2
    <2>2. Len(Engine(p, e.prog)) = 3
      BY Lengths
    <2>3. e.pc # Len(Engine(p, e.prog)) /\ e.pc \in Nat
      BY <2>1, <2>2
    <2> QED BY <1>3, <2>3, AdvanceIs
  <1>5. /\ m.pc = e.pc + 1 /\ m.again = FALSE /\ m.prog = e.prog /\ SameEpochs(e, m) /\ SameBuffers(e, m)
        /\ SameSecrets(e, m) /\ m.flags = e.flags /\ m.err = e.err
    BY <1>3, MovedFields
  <1>6. Unread(m) = Unread(e) /\ Buffers(m)
    BY <1>3, UnreadMoved
  <1>7. Aux(e, m)
    BY <1>3, AuxMoved
  <1> HIDE DEF m, n
  <1>8. /\ e.again => Reach(m) = Reach(e) /\ Reach(e) = 2
        /\ ~e.again => Reach(m) = 3 /\ Reach(e) = 2
    BY <1>2, <1>5 DEF Reach
  <1>9. Retried(m) <=> Retried(e)
    BY <1>5 DEF Retried, SameSecrets
  <1>10. /\ e.again => Place(m) = n
         /\ ~e.again => Place(m) = n + 1
         /\ n \in {2, 12}
    BY <1>2, <1>5, <1>8, <1>9 DEF Place
  <1>11. QueueOK(p, m)
    BY <1>2, <1>5 DEF QueueOK, SameBuffers
  <1>12. ASSUME e.again PROVE Stands(p, m, Place(m)) /\ Glides(p, n, Place(m))
    <2>1. Stands(p, m, n)
      <3>1. Notes(p, e, n) /\ KeysAt(p, e, n) /\ FlagsAt(p, e, n) /\ SecretsAt(p, e, n)
        BY <1>2, StandsParts
      <3>2. Notes(p, m, n)
        BY <1>7, <3>1 DEF Notes, Aux
      <3>3. KeysAt(p, m, n)
        BY <1>5, <3>1 DEF KeysAt, SameEpochs
      <3>4. FlagsAt(p, m, n)
        BY <1>5, <3>1 DEF FlagsAt, ClientFlags, Has
      <3>5. SecretsAt(p, m, n)
        BY <1>5, <3>1 DEF SecretsAt, SameSecrets
      <3> QED BY <1>11, <3>2, <3>3, <3>4, <3>5, StandsParts
    <2>2. Glides(p, n, Place(m))
      BY <1>1, <1>2, <1>10, <1>12, GlideHere
    <2> QED BY <1>10, <1>12, <2>1, <2>2
  <1>13. ASSUME ~e.again PROVE Stands(p, m, Place(m)) /\ Glides(p, n, Place(m))
    <2>1. PlainAt(p, n) /\ AbsentAt(p, n)
      BY <1>13 DEF PlainAt, n
    <2>2. n \in Nat /\ n + 1 \in Nat /\ Follows(p, n, n + 1) /\ n + 1 \in Places(p)
      BY <1>1, <1>10 DEF Follows, Places, EndPlace
    <2>3. Stands(p, m, n + 1)
      BY <1>1, <1>2, <1>5, <1>7, <1>11, <2>1, <2>2, PlainStands DEF SameSecrets, Aux
    <2>4. Glides(p, n, n + 1)
      BY <1>1, <1>2, <2>1, <2>2, GlideAbsent
    <2> QED BY <1>10, <1>13, <2>3, <2>4
  <1>14. Stands(p, m, Place(m)) /\ Glides(p, n, Place(m))
    BY <1>12, <1>13
  <1>15. ~Past(e) /\ ~Past(m) /\ Place(m) \in Places(p)
    BY <1>1, <1>5, <1>10 DEF Past, Places, EndPlace
  <1>16. First1(p, m) = First1(p, e)
    BY <1>2, <1>5, <1>10 DEF First1, n
  <1>17. Talk(p, m, o)
    <2>1. m.sent = e.sent /\ m.got = e.got
      BY <1>7 DEF Aux
    <2>2. Glides(p, Place(e), Place(m)) /\ Place(e) \in Places(p)
      BY <1>2, <1>14 DEF n
    <2> QED BY <1>1, <1>3, <1>6, <1>15, <1>16, <2>1, <2>2, GlideTalk
  <1>18. HereOK(p, m)
    BY <1>3, <1>5, <1>14, <1>15 DEF HereOK
  <1> QED BY <1>4, <1>17, <1>18 DEF OK

-----------------------------------------------------------------------------
(* What is said at each place.                                               *)

\* The numbers.
LEMMA SpeakNumbers ==
  ASSUME NEW p \in Ends, NEW n \in Nat, NEW msg, Setting, SpeakAt(p, n, msg)
  PROVE  LET k == SaidAt(p, n + 1)
         IN  /\ Sends(p, k) /\ SaidAt(p, n) < k /\ k \in 1..17 /\ HeardAt(p, n + 1) = HeardAt(p, n)
             /\ Only8(p, k, SaidAt(p, n), k)
             /\ n \in Places(p) /\ n + 1 \in Places(p) /\ Follows(p, n, n + 1)
             /\ ~KeyStep(p, n)
             /\ msg # "ClientHello" => ~FlagStep(p, n)
  <1>1. CASE Version = "13" /\ p = "client"
    BY <1>1 DEF SpeakAt, SaidAt, HeardAt, Sends, Only8, Places, EndPlace, Follows, KeyStep, FlagStep, Setting, EarlyTaken, EarlySent
  <1>2. CASE Version = "13" /\ p = "server"
    BY <1>2 DEF SpeakAt, SaidAt, HeardAt, Sends, Only8, Places, EndPlace, Follows, KeyStep, FlagStep, Setting, Asked
  <1>3. CASE Version = "12"
    BY <1>3 DEF SpeakAt, SaidAt, HeardAt, Sends, Only8, Places, EndPlace, Follows, KeyStep, FlagStep, Setting, EarlyTaken, EarlySent, Write12, Read12, Ends
  <1>4. CASE Version = "12r"
    BY <1>4 DEF SpeakAt, SaidAt, HeardAt, Sends, Only8, Places, EndPlace, Follows, KeyStep, FlagStep, Setting, EarlyTaken, EarlySent, Write12, Read12, Ends
  <1> QED BY <1>1, <1>2, <1>3, <1>4 DEF Ends, Setting, Three

\* The number of a change cipher spec.
LEMMA CcsNumbers ==
  ASSUME NEW p \in Ends, NEW n \in Nat, Setting, CcsAt(p, n)
  PROVE  LET k == SaidAt(p, n + 1)
         IN  /\ Sends(p, k) /\ SaidAt(p, n) < k /\ k \in 1..17 /\ HeardAt(p, n + 1) = HeardAt(p, n)
             /\ Only8(p, k, SaidAt(p, n), k)
             /\ n \in Places(p) /\ n + 1 \in Places(p) /\ Follows(p, n, n + 1)
             /\ \A h, x : x.type = "ccs" => Slot(p, h, x) = k /\ (Item(p, k, x) <=> Sends(p, k))
  <1> DEFINE k == SaidAt(p, n + 1)
  <1>1. /\ Sends(p, k) /\ SaidAt(p, n) < k /\ k \in 1..17 /\ HeardAt(p, n + 1) = HeardAt(p, n)
        /\ Only8(p, k, SaidAt(p, n), k)
        /\ n \in Places(p) /\ n + 1 \in Places(p) /\ Follows(p, n, n + 1)
    BY DEF CcsAt, SaidAt, HeardAt, Sends, Only8, Places, EndPlace, Follows, Setting, Three, Ends
  <1>2. k = IF Version = "13" THEN IF p = "client" THEN 7 ELSE IF mode.hrr THEN 3 ELSE 6
            ELSE IF Version = "12" THEN IF p = "client" THEN 13 ELSE 16
            ELSE IF p = "client" THEN 15 ELSE 13
    BY DEF CcsAt, SaidAt, Setting, Three, Ends
  <1> HIDE DEF k
  <1>3. ASSUME NEW h, NEW x, x.type = "ccs" PROVE Slot(p, h, x) = k /\ (Item(p, k, x) <=> Sends(p, k))
    <2>1. Slot(p, h, x) = k
      BY <1>2, <1>3 DEF Slot
    <2>2. Item(p, k, x) <=> Sends(p, k)
      BY <1>1, <1>3 DEF Item
    <2> QED BY <2>1, <2>2
  <1> QED BY <1>1, <1>3 DEF k

\* The stages of the keys.
LEMMA Stages == /\ HsK.stage = "hs" /\ AppK.stage = "app" /\ EarlyK.stage = "early" /\ K12.stage = "tls12"
                /\ Plain.stage = "plain" /\ NoKey.stage = "none"
                /\ LateK.stage = IF Version = "13" THEN "app" ELSE "tls12"
  BY DEF HsK, AppK, EarlyK, K12, Plain, NoKey, Label, KeyFor, LateK

\* The messages of the script by their numbers.
LEMMA SpeakMsg ==
  ASSUME NEW p \in Ends, NEW n \in Nat, NEW msg, Setting, SpeakAt(p, n, msg)
  PROVE  LET k == SaidAt(p, n + 1)
         IN  /\ msg \notin {"ClientHello", "HelloRetryRequest", "EarlyData"} => k \in 5..17 /\ MsgOf(k) = msg
             /\ msg = "ClientHello" => p = "client" /\ k = IF n = 1 /\ mode.hrr THEN 1 ELSE 4
             /\ msg = "HelloRetryRequest" => Version = "13" /\ p = "server" /\ k = 2
             /\ msg = "EarlyData" => Version = "13" /\ p = "client" /\ k = 8 /\ n = 16 /\ EarlySent
             /\ msg = "ServerHello" => k = 5 /\ p = "server"
             /\ msg = "EncryptedExtensions" => k = 9 /\ Version = "13" /\ p = "server"
             /\ msg = "ClientKeyExchange" => k = 11 /\ Version = "12" /\ p = "client"
             /\ msg = "Finished" /\ Version = "13" => k = IF p = "client" THEN 17 ELSE 13
             /\ msg # "ccs"
  <1>1. CASE Version = "13" /\ p = "client"
    BY <1>1 DEF SpeakAt, SaidAt, MsgOf
  <1>2. CASE Version = "13" /\ p = "server"
    BY <1>2 DEF SpeakAt, SaidAt, MsgOf
  <1>3. CASE Version = "12"
    BY <1>3 DEF SpeakAt, SaidAt, MsgOf, Ends, Setting
  <1>4. CASE Version = "12r"
    BY <1>4 DEF SpeakAt, SaidAt, MsgOf, Ends, Setting
  <1> QED BY <1>1, <1>2, <1>3, <1>4 DEF Ends, Setting, Three

\* The record of what is said.
TypeFor(msg) == IF msg = "EarlyData" THEN "data" ELSE "hs"

\* A message is sent under the key of its number.
LEMMA SpeakKey ==
  ASSUME NEW p \in Ends, NEW n \in Nat, NEW msg, Setting, SpeakAt(p, n, msg)
  PROVE  WriteKeyAt(p, n) = KeyOf(SaidAt(p, n + 1))
  <1>1. CASE Version = "13" /\ p = "client"
    BY <1>1 DEF SpeakAt, SaidAt, KeyOf, WriteKeyAt, Setting
  <1>2. CASE Version = "13" /\ p = "server"
    BY <1>2 DEF SpeakAt, SaidAt, KeyOf, WriteKeyAt, Setting
  <1>3. CASE Version = "12"
    BY <1>3 DEF SpeakAt, SaidAt, KeyOf, WriteKeyAt, Setting, Write12, Ends, MsgOf
  <1>4. CASE Version = "12r"
    BY <1>4 DEF SpeakAt, SaidAt, KeyOf, WriteKeyAt, Setting, Write12, Ends, MsgOf
  <1> QED BY <1>1, <1>2, <1>3, <1>4 DEF Ends, Setting, Three

\* It is recognised by its number.
LEMMA SpeakSlot ==
  ASSUME NEW p \in Ends, NEW n \in Nat, NEW msg, NEW h, NEW x, Setting, SpeakAt(p, n, msg),
         x.type = TypeFor(msg), x.msg = msg, x.key = WriteKeyAt(p, n), h <=> (p = "client" /\ mode.hrr /\ n <= 3)
  PROVE  Slot(p, h, x) = SaidAt(p, n + 1)
  <1> DEFINE st == x.key.stage
  <1>1. CASE Version = "13" /\ p = "client"
    <2>1. msg = "EarlyData" => st = "early"
      BY <1>1, Stages DEF SpeakAt, WriteKeyAt
    <2>2. msg \in {"Certificate", "CertificateVerify", "Finished"} => st = "hs"
      BY <1>1, Stages DEF SpeakAt, WriteKeyAt
    <2> QED BY <1>1, <2>1, <2>2 DEF SpeakAt, SaidAt, Slot, TypeFor
  <1>2. CASE Version = "13" /\ p = "server"
    <2>1. msg = "CertificateRequest" => st = "hs"
      BY <1>2, Stages DEF SpeakAt, WriteKeyAt
    <2> QED BY <1>2, <2>1 DEF SpeakAt, SaidAt, Slot, TypeFor
  <1>3. CASE Version = "12"
    BY <1>3 DEF SpeakAt, SaidAt, Slot, TypeFor, Ends, Setting
  <1>4. CASE Version = "12r"
    BY <1>4 DEF SpeakAt, SaidAt, Slot, TypeFor, Ends, Setting
  <1> QED BY <1>1, <1>2, <1>3, <1>4 DEF Ends, Setting, Three

\* It says what its number stands for.
LEMMA SpeakInfo ==
  ASSUME NEW p \in Ends, NEW e, NEW n \in Nat, NEW msg, Setting, SpeakAt(p, n, msg), FlagsAt(p, e, n), msg # "EarlyData"
  PROVE  Info(p, e, msg) = InfoOf(p, SaidAt(p, n + 1))
  <1> DEFINE k == SaidAt(p, n + 1)
  <1>1. /\ msg \notin {"ClientHello", "HelloRetryRequest", "EarlyData"} => k \in 5..17 /\ MsgOf(k) = msg
        /\ msg = "ClientHello" => p = "client" /\ k = IF n = 1 /\ mode.hrr THEN 1 ELSE 4
        /\ msg = "HelloRetryRequest" => Version = "13" /\ p = "server" /\ k = 2
        /\ msg = "ServerHello" => k = 5 /\ p = "server"
        /\ msg = "EncryptedExtensions" => k = 9 /\ Version = "13" /\ p = "server"
        /\ msg # "ccs"
    BY SpeakMsg
  <1>2. msg = "ServerHello" => n = IF Version = "13" THEN 16 ELSE 12
    BY <1>1 DEF SpeakAt
  <1>3. msg = "EncryptedExtensions" => n = 19
    BY <1>1 DEF SpeakAt
  <1>4. msg \notin {"ServerHello", "ClientHello"} => k # 5
    <2>1. MsgOf(5) = "ServerHello"
      BY DEF MsgOf
    <2> QED BY <1>1, <2>1
  <1> HIDE DEF k
  <1>20. Info(p, e, msg) = InfoOf(p, k)
    <2>5. CASE msg = "ClientHello"
      <3>1. k \in {1, 4}
        BY <1>1, <2>5
      <3> QED BY <3>1, <2>5 DEF Info, InfoOf, EarlySent
    <2>6. CASE msg = "ServerHello"
      <3>1. ServerFlags(e, n)
        BY <1>1, <2>6 DEF FlagsAt
      <3>2. /\ "psk_selected" \in e.flags <=> Version = "13" /\ Psk
            /\ "renew" \in e.flags <=> Version = "12" /\ mode.tickets
        BY <1>2, <2>6, <3>1 DEF ServerFlags, Has
      <3>3. e.flags \cap {"psk_selected", "renew"} = {x \in {"psk_selected"} : Version = "13" /\ Psk} \cup
                       {x \in {"renew"} : Version = "12" /\ mode.tickets}
        BY <3>2
      <3>4. k = 5
        BY <1>1, <2>6
      <3>5. InfoOf(p, k) = {x \in {"psk_selected"} : Version = "13" /\ Psk} \cup
                       {x \in {"renew"} : Version = "12" /\ mode.tickets}
        BY <3>4 DEF InfoOf
      <3>6. Info(p, e, msg) = e.flags \cap {"psk_selected", "renew"}
        BY <2>6 DEF Info
      <3> QED BY <3>3, <3>5, <3>6
    <2>7. CASE msg = "EncryptedExtensions"
      <3>1. ServerFlags(e, n)
        BY <1>1, <2>7 DEF FlagsAt
      <3>2. "accepted" \in e.flags <=> EarlyTaken
        BY <1>3, <2>7, <3>1 DEF ServerFlags, Has
      <3>3. e.flags \cap {"accepted"} = {x \in {"accepted"} : EarlyTaken}
        BY <3>2
      <3>4. k = 9 /\ MsgOf(k) = "EncryptedExtensions"
        BY <1>1, <2>7
      <3>5. InfoOf(p, k) = {x \in {"accepted"} : EarlyTaken}
        BY <3>4 DEF InfoOf
      <3> QED BY <3>3, <3>5, <2>7 DEF Info
    <2>8. CASE msg = "Certificate"
      <3>1. MsgOf(k) = "Certificate" /\ k \in 5..17 /\ k # 5
        BY <1>1, <1>4, <2>8
      <3>2. InfoOf(p, k) = {x \in {"cert"} : p = "server" \/ mode.cc}
        BY <3>1 DEF InfoOf
      <3>3. CASE p = "server" \/ mode.cc
        <4>1. {"cert"} = {x \in {"cert"} : p = "server" \/ mode.cc}
          BY <3>3
        <4>2. Info(p, e, msg) = {"cert"}
          BY <2>8, <3>3 DEF Info
        <4> QED BY <3>2, <4>1, <4>2
      <3>4. CASE ~(p = "server" \/ mode.cc)
        <4>1. {} = {x \in {"cert"} : p = "server" \/ mode.cc}
          BY <3>4
        <4>2. Info(p, e, msg) = {}
          BY <2>8, <3>4 DEF Info
        <4> QED BY <3>2, <4>1, <4>2
      <3> QED BY <3>3, <3>4
    <2>9. CASE msg = "HelloRetryRequest"
      <3>1. k = 2 /\ MsgOf(2) = "ccs"
        BY <1>1, <2>9 DEF MsgOf
      <3>2. InfoOf(p, k) = {}
        BY <3>1 DEF InfoOf
      <3> QED BY <3>2, <2>9 DEF Info
    <2>10. CASE msg \notin {"ClientHello", "ServerHello", "EncryptedExtensions", "Certificate", "HelloRetryRequest"}
      <3>1. MsgOf(k) = msg /\ k \in 5..17 /\ k # 5
        BY <1>1, <1>4, <2>10
      <3>2. InfoOf(p, k) = {}
        BY <3>1, <2>10 DEF InfoOf
      <3> QED BY <3>2, <2>10 DEF Info
    <2> QED BY <2>5, <2>6, <2>7, <2>8, <2>9, <2>10
  <1> QED BY <1>20 DEF k

\* The transcript at the place where a message is sent.
TrAt(p, n) == IF Forgets(p, n) THEN <<Synthetic>> ELSE Tr(LastAt(p, n))

\* A message is numbered after the transcript it is appended to, or follows on
\* one that is not hashed.
LEMMA SpeakLast ==
  ASSUME NEW p \in Ends, NEW n \in Nat, NEW msg, Setting, SpeakAt(p, n, msg), msg # "EarlyData"
  PROVE  LET k == SaidAt(p, n + 1)
         IN  /\ LastAt(p, n + 1) = k
             /\ msg \notin {"ClientHello", "HelloRetryRequest"} =>
                   LastAt(p, n) = k - 1 \/ (Version = "13" /\ k = 9 /\ LastAt(p, n) = 6)
             /\ msg = "ClientHello" => LastAt(p, n) = IF n = 1 THEN 0 ELSE 2
             /\ msg = "Finished" => LastAt(p, n) = k - 1
             /\ msg = "HelloRetryRequest" <=> Forgets(p, n)
  <1>1. CASE Version = "13" /\ p = "client"
    <2>1. /\ n \in Nat /\ (n + 1) \in Nat
      OBVIOUS
    <2> QED BY <1>1, <2>1, LastClient13 DEF SpeakAt, SaidAt, Forgets
  <1>2. CASE Version = "13" /\ p = "server"
    <2>1. /\ n \in Nat /\ (n + 1) \in Nat
      OBVIOUS
    <2> QED BY <1>2, <2>1, LastServer13 DEF SpeakAt, SaidAt, Forgets
  <1>3. CASE Version = "12" /\ p = "client"
    <2>1. /\ n \in Nat /\ (n + 1) \in Nat
      OBVIOUS
    <2> QED BY <1>3, <2>1, LastClient12 DEF SpeakAt, SaidAt, Forgets, Setting
  <1>4. CASE Version = "12" /\ p = "server"
    <2>1. /\ n \in Nat /\ (n + 1) \in Nat
      OBVIOUS
    <2> QED BY <1>4, <2>1, LastServer12 DEF SpeakAt, SaidAt, Forgets, Setting
  <1>5. CASE Version = "12r"
    <2>1. /\ n \in Nat /\ (n + 1) \in Nat
      OBVIOUS
    <2> QED BY <1>5, <2>1, Last12r DEF SpeakAt, SaidAt, Forgets, Setting, Ends
  <1> QED BY <1>1, <1>2, <1>3, <1>4, <1>5 DEF Ends, Setting, Three

\* What is sent extends the transcript of the script.
LEMMA SpeakTr ==
  ASSUME NEW p \in Ends, NEW n \in Nat, NEW msg, Setting, SpeakAt(p, n, msg), msg # "EarlyData"
  PROVE  /\ TrAt(p, n + 1) = Append(TrAt(p, n), <<p, msg>>)
         /\ msg = "Finished" => TrAt(p, n) = Tr(SaidAt(p, n + 1) - 1)
  <1> DEFINE k == SaidAt(p, n + 1)
  <1>1. /\ LastAt(p, n + 1) = k
        /\ msg \notin {"ClientHello", "HelloRetryRequest"} =>
              LastAt(p, n) = k - 1 \/ (Version = "13" /\ k = 9 /\ LastAt(p, n) = 6)
        /\ msg = "ClientHello" => LastAt(p, n) = IF n = 1 THEN 0 ELSE 2
        /\ msg = "Finished" => LastAt(p, n) = k - 1
        /\ msg = "HelloRetryRequest" <=> Forgets(p, n)
    BY SpeakLast
  <1>2. /\ msg \notin {"ClientHello", "HelloRetryRequest", "EarlyData"} => k \in 5..17 /\ MsgOf(k) = msg
        /\ msg = "ClientHello" => p = "client" /\ k = IF n = 1 /\ mode.hrr THEN 1 ELSE 4
        /\ msg = "HelloRetryRequest" => Version = "13" /\ p = "server" /\ k = 2
        /\ msg # "ccs"
    BY SpeakMsg
  <1>3. Sends(p, k)
    BY SpeakNumbers
  <1>4. ~Forgets(p, n + 1)
    BY <1>1 DEF SpeakAt, Forgets
  <1>5. msg = "ClientHello" => n = 1 \/ (mode.hrr /\ n = 11)
    BY <1>2 DEF SpeakAt
  <1> HIDE DEF k
  <1>6. TrAt(p, n + 1) = Tr(k)
    BY <1>1, <1>4 DEF TrAt
  <1>7. msg # "HelloRetryRequest" => TrAt(p, n) = Tr(LastAt(p, n))
    BY <1>1 DEF TrAt
  <1>8. Tr(k) = Append(TrAt(p, n), <<p, msg>>)
    <2>1. CASE msg = "ClientHello"
      <3>1. CASE n = 1
        <4>1. Tr(k) = <<Greeting>>
          BY <1>2, <2>1, <3>1, TrEarly, TrFirst
        <4>2. TrAt(p, n) = <<>>
          BY <1>1, <1>7, <2>1, <3>1, TrEarly
        <4> QED BY <4>1, <4>2, <1>2, <2>1 DEF Greeting
      <3>2. CASE n # 1
        <4>1. Tr(k) = Append(Retry, Greeting)
          BY <1>2, <1>5, <2>1, <3>2, TrEarly DEF Hello
        <4>2. TrAt(p, n) = Retry
          BY <1>1, <1>7, <2>1, <3>2, TrEarly
        <4> QED BY <4>1, <4>2, <1>2, <2>1 DEF Greeting
      <3> QED BY <3>1, <3>2
    <2>2. CASE msg = "HelloRetryRequest"
      <3>1. Tr(k) = Retry
        BY <1>2, <2>2, TrEarly
      <3>2. TrAt(p, n) = <<Synthetic>>
        BY <1>1, <2>2 DEF TrAt
      <3> QED BY <3>1, <3>2, <1>2, <2>2 DEF Retry
    <2>3. CASE msg \notin {"ClientHello", "HelloRetryRequest"}
      <3>1. k \in 5..17 /\ MsgOf(k) = msg /\ MsgOf(k) # "ccs" /\ k \in 5..17 \cup 101..104
        BY <1>2, <2>3
      <3>2. ~(Sends("client", k) /\ Sends("server", k))
        BY OneSender DEF Setting
      <3>3. Tr(k) = Append(Tr(k - 1), <<p, MsgOf(k)>>)
        BY <3>1, <3>2, <1>3, TrGrows
      <3>4. Tr(k - 1) = Tr(LastAt(p, n))
        <4>1. CASE LastAt(p, n) = k - 1
          BY <4>1
        <4>2. CASE Version = "13" /\ k = 9 /\ LastAt(p, n) = 6
          <5>1. k - 1 = 8
            BY <4>2
          <5> QED BY <4>2, <5>1, HelloTr
        <4> QED BY <4>1, <4>2, <1>1, <2>3
      <3> QED BY <3>1, <3>3, <3>4, <1>7, <2>3
    <2> QED BY <2>1, <2>2, <2>3
  <1>9. msg = "Finished" => TrAt(p, n) = Tr(k - 1)
    BY <1>1, <1>7
  <1> QED BY <1>6, <1>8, <1>9 DEF k

\* The secrets after a message.
LEMMA SpeakSecrets ==
  ASSUME NEW p \in Ends, NEW e, NEW g, NEW n \in Nat, NEW msg, Setting, SpeakAt(p, n, msg),
         SecretsAt(p, e, n), FlagsAt(p, e, n), e.prog \in {"start", Version},
         n >= 12 => e.prog = Version, n < 12 => e.prog = "start", Spoke(p, e, g, msg)
  PROVE  SecretsAt(p, g, n + 1)
  <1>1. e.tr = TrAt(p, n)
    BY DEF SecretsAt, TrAt, LastAt
  <1>2. g.tr = TrAt(p, n + 1)
    <2>1. CASE msg = "EarlyData"
      <3>1. g.tr = e.tr
        BY <2>1 DEF Spoke, Unhashed
      <3>2. Version = "13" /\ p = "client" /\ n = 16
        BY <2>1, SpeakMsg
      <3>3. LastAt(p, n) = 7 /\ LastAt(p, n + 1) = 8
        BY <3>2, LastClient13
      <3>4. TrAt(p, n) = TrAt(p, n + 1)
        BY <3>2, <3>3, HelloTr DEF TrAt, Forgets
      <3> QED BY <1>1, <3>1, <3>4
    <2>2. CASE msg # "EarlyData"
      <3>1. ~Unhashed(e, msg)
        BY <2>2 DEF Unhashed, SpeakAt
      <3> QED BY <1>1, <2>2, <3>1, SpeakTr DEF Spoke
    <2> QED BY <2>1, <2>2
  <1>3. g.tr = IF Forgets(p, n + 1) THEN <<Synthetic>> ELSE Tr(Later(SaidAt(p, n + 1), HeardAt(p, n + 1)))
    BY <1>2 DEF TrAt, LastAt
  <1>4. CASE msg = "ServerHello"
    <2>1. p = "server" /\ SaidAt(p, n + 1) = 5 /\ n = IF Version = "13" THEN 16 ELSE 12
      BY <1>4, SpeakMsg DEF SpeakAt
    <2>2. ServerFlags(e, n)
      BY <2>1 DEF FlagsAt
    <2>3. g.psk = Psk
      <3>1. g.psk = (Has(e, "psk_selected") \/ e.prog = "12r")
        BY <1>4 DEF Spoke
      <3>2. Has(e, "psk_selected") <=> Version = "13" /\ Psk
        BY <2>1, <2>2 DEF ServerFlags
      <3>3. (Has(e, "psk_selected") \/ e.prog = "12r") <=> Psk
        BY <3>2, <2>1 DEF Setting, Three
      <3> QED BY <3>1, <3>3 DEF Psk
    <2>4. g.tr = Tr(5)
      <3>1. LastAt(p, n + 1) = 5
        BY <1>4, <2>1, SpeakLast
      <3>2. ~Forgets(p, n + 1)
        BY <2>1 DEF Forgets
      <3> QED BY <1>2, <3>1, <3>2 DEF TrAt
    <2>5. g.mark = Tr(5)
      BY <1>4, <2>4 DEF Spoke, Marks
    <2> QED BY <1>3, <2>1, <2>3, <2>5 DEF SecretsAt
  <1>5. CASE msg = "ClientKeyExchange"
    <2>1. p = "client" /\ SaidAt(p, n + 1) = 11 /\ Version = "12" /\ n = 19
      BY <1>5, SpeakMsg DEF SpeakAt
    <2>2. g.tr = Tr(11)
      <3>1. LastAt(p, n + 1) = 11
        BY <1>5, <2>1, SpeakLast
      <3>2. ~Forgets(p, n + 1)
        BY <2>1 DEF Forgets
      <3> QED BY <1>2, <3>1, <3>2 DEF TrAt
    <2>3. g.mark = Tr(11) /\ g.psk = e.psk
      BY <1>5, <2>2 DEF Spoke, Marks
    <2> QED BY <1>3, <2>1, <2>3 DEF SecretsAt
  <1>6. CASE msg = "Finished" /\ Version = "13" /\ p = "server"
    <2>1. SaidAt(p, n + 1) = 13 /\ n = 23
      BY <1>6, SpeakMsg DEF SpeakAt
    <2>2. g.tr = Tr(13)
      <3>1. LastAt(p, n + 1) = 13
        BY <1>6, <2>1, SpeakLast
      <3>2. ~Forgets(p, n + 1)
        BY <2>1 DEF Forgets
      <3> QED BY <1>2, <3>1, <3>2 DEF TrAt
    <2>4. e.prog = "13"
      BY <1>6, <2>1
    <2>5. Marks(p, e, msg)
      BY <1>6, <2>4 DEF Marks
    <2>3. g.mark = Tr(13) /\ g.psk = e.psk
      BY <1>6, <2>2, <2>5 DEF Spoke
    <2> QED BY <1>3, <1>6, <2>1, <2>3 DEF SecretsAt
  <1>7. CASE msg \notin {"ServerHello", "ClientKeyExchange"} /\ ~(msg = "Finished" /\ Version = "13" /\ p = "server")
    <2>1. g.psk = e.psk /\ g.mark = e.mark
      BY <1>7 DEF Spoke, Marks
    <2>2. CASE Version = "13"
      BY <1>3, <1>7, <2>1, <2>2 DEF SecretsAt, SpeakAt, Ends
    <2>3. CASE Version = "12"
      BY <1>3, <1>7, <2>1, <2>3 DEF SecretsAt, SpeakAt, Ends
    <2>4. CASE Version = "12r"
      BY <1>3, <1>7, <2>1, <2>4 DEF SecretsAt, SpeakAt, Ends
    <2> QED BY <2>2, <2>3, <2>4 DEF Setting, Three
  <1> QED BY <1>4, <1>5, <1>6, <1>7

\* The record of a message.
LEMMA SpeakItem ==
  ASSUME NEW p \in Ends, NEW e, NEW n \in Nat, NEW msg, NEW x, Setting, SpeakAt(p, n, msg),
         FlagsAt(p, e, n), SecretsAt(p, e, n), KeysAt(p, e, n), x = Sealed(e, Entry(p, e, msg)), NEW h,
         h <=> (p = "client" /\ mode.hrr /\ n <= 3)
  PROVE  Slot(p, h, x) = SaidAt(p, n + 1) /\ Item(p, SaidAt(p, n + 1), x)
  <1> DEFINE k == SaidAt(p, n + 1)
  <1>1. /\ x.type = TypeFor(msg) /\ x.msg = msg /\ x.info = Info(p, e, msg) /\ x.ctx = Context(e, msg)
        /\ x.key = e.keys[e.we].w
    BY DEF Sealed, Entry, Record, TypeFor
  <1>2. x.key = WriteKeyAt(p, n)
    BY <1>1 DEF KeysAt
  <1>3. Slot(p, h, x) = k
    BY <1>1, <1>2, SpeakSlot
  <1>4. x.key = KeyOf(k)
    BY <1>2, SpeakKey
  <1>5. msg # "EarlyData" => x.info = InfoOf(p, k)
    BY <1>1, SpeakInfo
  <1>6. msg = "Finished" => x.ctx = Tr(k - 1)
    <2>1. CASE msg = "Finished"
      <3>1. e.tr = TrAt(p, n)
        BY DEF SecretsAt, TrAt, LastAt
      <3>2. TrAt(p, n) = Tr(k - 1)
        BY <2>1, SpeakTr
      <3>3. x.ctx = e.tr
        BY <1>1, <2>1 DEF Context
      <3> QED BY <3>1, <3>2, <3>3
    <2> QED BY <2>1
  <1>7. Sends(p, k) /\ k \in 1..17
    BY SpeakNumbers
  <1> HIDE DEF k
  <1>8. Item(p, k, x)
    BY <1>1, <1>4, <1>5, <1>6, <1>7 DEF Item, TypeFor
  <1> QED BY <1>3, <1>8 DEF k

\* The flags that places tell of.
Told8 == {"in_flight", "accepted", "psk_selected", "renew", "hrr_sent", "crt_asked", "crt_vrfy_expected"}

\* Only these flags matter to the script.
LEMMA FlagsLike ==
  ASSUME NEW p, NEW e, NEW g, NEW n, \A f \in Told8 : Has(g, f) <=> Has(e, f), FlagsAt(p, e, n)
  PROVE  FlagsAt(p, g, n)
  BY DEF Told8, FlagsAt, ClientFlags, ServerFlags

\* The flags after a message.
LEMMA SpeakFlags ==
  ASSUME NEW p \in Ends, NEW e, NEW g, NEW n \in Nat, NEW msg, Setting, SpeakAt(p, n, msg),
         FlagsAt(p, e, n), g.flags = e.flags \cup SentFlags(p, msg)
  PROVE  FlagsAt(p, g, n + 1)
  <1>1. CASE msg = "ClientHello"
    <2>1. p = "client" /\ n \in {1, 11}
      BY <1>1, SpeakMsg DEF SpeakAt
    <2>2. SentFlags(p, msg) = IF EarlySent THEN {"in_flight"} ELSE {}
      BY <1>1 DEF SentFlags, EarlySent
    <2>3. ClientFlags(e, n)
      BY <2>1 DEF FlagsAt
    <2>4. /\ Has(g, "in_flight") <=> EarlySent
          /\ ~Has(g, "accepted") /\ ~Has(g, "psk_selected") /\ ~Has(g, "renew") /\ ~Has(g, "crt_asked")
          /\ Version = "13" => ~Has(g, "crt_vrfy_expected")
      BY <2>1, <2>2, <2>3 DEF ClientFlags, Has
    <2>5. ClientFlags(g, n + 1)
      BY <2>1, <2>4 DEF ClientFlags
    <2> QED BY <2>1, <2>5 DEF FlagsAt
  <1>2. CASE msg # "ClientHello"
    <2>1. SentFlags(p, msg) \subseteq {"crt_req_sent", "ticket_sent"}
      BY <1>2 DEF SentFlags
    <2>2. \A f \in Told8 : Has(g, f) <=> Has(e, f)
      BY <2>1 DEF Told8, Has
    <2>3. FlagsAt(p, g, n)
      BY <2>2, FlagsLike
    <2>4. ~FlagStep(p, n) /\ n \in Places(p) /\ Follows(p, n, n + 1) /\ (n + 1) \in Nat
      BY <1>2, SpeakNumbers
    <2> QED BY <2>3, <2>4, FlagsStay
  <1> QED BY <1>1, <1>2

-----------------------------------------------------------------------------
(* Speaking.                                                                 *)

\* Where the client is when it reads the server's answers.
LEMMA ClientHears ==
  ASSUME NEW o, Setting, Version = "13", Local("client", o)
  PROVE  HeardTo("client", o) \notin {3, 4, 6, 7, 8}
  <1>1. o.pc \in Nat
    BY Where DEF Local, Core, Setting, Ends
  <1>2. Place(o) \in Nat
    BY <1>1 DEF Place, Reach
  <1>3. HeardAt("client", Place(o)) \notin {3, 4, 6, 7, 8}
    <2> DEFINE n == Place(o)
    <2>1. n \in Nat
      BY <1>2
    <2> HIDE DEF n
    <2>2. HeardAt("client", n) \notin {3, 4, 6, 7, 8}
      BY <2>1 DEF HeardAt
    <2> QED BY <2>2 DEF n
  <1>4. AuthHeard("client", o) \in {100, 101}
    BY DEF AuthHeard
  <1> QED BY <1>3, <1>4 DEF HeardTo

\* A message that is taken in silence is not passed when it is sent.
LEMMA SilentFits ==
  ASSUME NEW p \in Ends, NEW o, NEW k, NEW b \in 0..17, NEW c, Setting, Local(Peer(p), o), Fit(Peer(p), o),
         Sends(p, k), b < k, k \in 1..17, Sane(p, HeardTo(Peer(p), o), b)
  PROVE  Fits(p, k, HeardTo(Peer(p), o), c)
  <1> DEFINE a == HeardTo(Peer(p), o)
  <1>1. a \in 0..104
    BY DEF Fit, Ranged
  <1>2. Version = "13" /\ p = "server" => a \notin {3, 4, 6, 7, 8}
    BY ClientHears DEF Peer
  <1>3. Sane(p, a, b)
    OBVIOUS
  <1> HIDE DEF a
  <1>4. ASSUME Silent(k) PROVE Pending(p, k, a)
    <2>1. Version = "13" /\ k \in {3, 6, 7, 8}
      BY <1>4 DEF Silent
    <2>2. CASE p = "client"
      <3>1. Spoken(p, 17) /\ (EarlyTaken => Spoken(p, 14)) /\ k \in {7, 8}
        BY <2>1, <2>2 DEF Spoken, Sends, Silent
      <3>2. 17 <= a => 17 <= b
        BY <1>3, <3>1 DEF Sane
      <3>3. EarlyTaken => (14 <= a => 14 <= b)
        BY <1>3, <3>1 DEF Sane
      <3> QED BY <1>1, <2>1, <2>2, <3>2, <3>3 DEF Pending
    <2>3. CASE p = "server"
      <3>1. Spoken(p, 5) /\ Spoken(p, 9) /\ k \in {3, 6}
        BY <2>1, <2>3 DEF Spoken, Sends, Silent
      <3>2. (5 <= a => 5 <= b) /\ (9 <= a => 9 <= b)
        BY <1>3, <3>1 DEF Sane
      <3> QED BY <1>1, <1>2, <2>1, <2>3, <3>1, <3>2 DEF Pending
    <2> QED BY <2>2, <2>3 DEF Ends
  <1>5. Fits(p, k, a, c)
    BY <1>4 DEF Fits
  <1> QED BY <1>5 DEF a

\* p goes from place n to the next and x is under way.
Says(p, e, g, x, n) ==
    /\ ~Past(e) /\ ~Past(g) /\ Place(e) = n /\ Place(g) = n + 1
    /\ Buffers(e) /\ Buffers(g) /\ Unread(g) = Append(Unread(e), x) /\ First1(p, g) = First1(p, e)
    /\ g.sent = e.sent /\ g.got = e.got

\* x is message k.
Number(p, e, x, n) ==
    LET k == SaidAt(p, n + 1)
    IN  /\ Sends(p, k) /\ SaidAt(p, n) < k /\ k \in 1..17 /\ HeardAt(p, n + 1) = HeardAt(p, n)
        /\ Only8(p, k, SaidAt(p, n), k) /\ n \in Places(p) /\ n + 1 \in Places(p) /\ Follows(p, n, n + 1)
        /\ Slot(p, First1(p, e), x) = k /\ Item(p, k, x)

\* The conversation goes on when a message of the initial handshake is sent.
LEMMA SayTalk ==
  ASSUME NEW p \in Ends, NEW e, NEW g, NEW o, NEW x, NEW n \in Nat, Setting, Talk(p, e, o), Fit(Peer(p), o),
         Local(Peer(p), o), Says(p, e, g, x, n), Number(p, e, x, n)
  PROVE  Talk(p, g, o)
  <1> DEFINE k == SaidAt(p, n + 1)
             a == HeardTo(Peer(p), o)
  <1>1. /\ Sends(p, k) /\ SaidAt(p, n) < k /\ k \in 1..17 /\ HeardAt(p, n + 1) = HeardAt(p, n)
        /\ Only8(p, k, SaidAt(p, n), k) /\ n \in Places(p) /\ n + 1 \in Places(p) /\ Follows(p, n, n + 1)
        /\ Slot(p, First1(p, e), x) = k /\ Item(p, k, x)
    BY DEF Number
  <1>2. Fit(p, e) /\ Said(p, e) = SaidAt(p, n) /\ HeardTo(p, e) = HeardAt(p, n) /\ SaidAt(p, n) \in 0..17
    BY <1>1, FitPlace DEF Says
  <1>3. Fit(p, g) /\ Said(p, g) = k /\ HeardTo(p, g) = HeardAt(p, n + 1)
    BY <1>1, FitPlace DEF Says
  <1>4. Sane(p, a, Said(p, e))
    BY DEF Talk, Flow, Line
  <1>5. Fits(p, k, a, k)
    BY <1>1, <1>2, <1>4, SilentFits
  <1>6. Alone(p, k, SaidAt(p, n), k)
    BY <1>1, SaidNext DEF Setting
  <1>7. Grows(p, e, g, x, k)
    BY <1>1 DEF Grows, Says
  <1>8. g.sent = e.sent /\ g.got = e.got
    BY DEF Says
  <1> HIDE DEF k, a
  <1>9. Speaking(p, e, g, x, k, a)
    <2>1. k <= Said(p, g) /\ Said(p, e) < k
      BY <1>1, <1>2, <1>3
    <2> QED BY <1>1, <1>2, <1>3, <1>5, <1>6, <1>7, <1>8, <2>1 DEF Speaking
  <1> QED BY <1>2, <1>3, <1>9, TalkSend DEF a

\* A message was sent.
LEMMA SayStands ==
  ASSUME NEW p \in Ends, NEW e, NEW g, NEW n \in Nat, NEW msg, Setting, SpeakAt(p, n, msg),
         Stands(p, e, n), e.prog \in {"start", Version},
         n >= 12 => e.prog = Version, n < 12 => e.prog = "start", Spoke(p, e, g, msg), QueueOK(p, g), Aux(e, g)
  PROVE  Stands(p, g, n + 1)
  <1>1. Notes(p, e, n) /\ KeysAt(p, e, n) /\ FlagsAt(p, e, n) /\ SecretsAt(p, e, n)
    BY StandsParts
  <1>2. ~KeyStep(p, n) /\ Follows(p, n, n + 1) /\ (n + 1) \in Nat /\ n <= n + 1
    BY SpeakNumbers
  <1>3. p = "client" /\ n + 1 = 3 => ~mode.hrr
    BY DEF SpeakAt
  <1>4. Notes(p, g, n + 1)
    BY <1>1, <1>2, <1>3, NotesMore DEF Aux
  <1>5. KeysAt(p, g, n + 1)
    BY <1>1, <1>2, KeysMore DEF Spoke
  <1>6. FlagsAt(p, g, n + 1)
    BY <1>1, SpeakFlags DEF Spoke
  <1>7. SecretsAt(p, g, n + 1)
    BY <1>1, SpeakSecrets
  <1> QED BY <1>4, <1>5, <1>6, <1>7, StandsParts

\* Message msg is sent at place n.
Sending(p, e, n, msg) ==
    /\ SpeakAt(p, n, msg) /\ Place(e) = n /\ n \in Nat /\ ~Past(e) /\ Stands(p, e, n)
    /\ e.prog \in {"start", Version} /\ (n >= 12 => e.prog = Version) /\ (n < 12 => e.prog = "start")

\* And the sender is at its next place.
LEMMA SayOK ==
  ASSUME NEW p \in Ends, NEW e, NEW g, NEW o, NEW n, NEW msg, Ready(p, e, o), Local(Peer(p), o),
         Sending(p, e, n, msg), Spoke(p, e, g, msg), QueueOK(p, g), Aux(e, g), Place(g) = n + 1, Buffers(g),
         Unread(g) = Append(Unread(e), Sealed(e, Entry(p, e, msg)))
  PROVE  Stands(p, g, n + 1) /\ Talk(p, g, o)
  <1> DEFINE x == Sealed(e, Entry(p, e, msg))
  <1>1. n \in Nat /\ SpeakAt(p, n, msg) /\ Setting /\ Stands(p, e, n)
    BY DEF Sending, Ready
  <1>2. Stands(p, g, n + 1)
    BY <1>1, SayStands DEF Sending
  <1>3. KeysAt(p, e, n) /\ FlagsAt(p, e, n) /\ SecretsAt(p, e, n)
    BY <1>1, StandsParts
  <1>4. First1(p, e) <=> (p = "client" /\ mode.hrr /\ n <= 3)
    BY DEF First1, Sending
  <1>5. Slot(p, First1(p, e), x) = SaidAt(p, n + 1) /\ Item(p, SaidAt(p, n + 1), x)
    BY <1>1, <1>3, <1>4, SpeakItem
  <1>6. g.prog = e.prog
    BY DEF Spoke
  <1>7. First1(p, g) = First1(p, e)
    <2>1. p = "client" => n # 3
      BY <1>1 DEF SpeakAt
    <2>2. First1(p, g) <=> First1(p, e)
      BY <1>1, <1>6, <2>1 DEF First1, Sending
    <2> QED BY <2>2 DEF First1
  <1>8. ~Past(e) /\ ~Past(g) /\ Place(e) = n
    BY <1>6 DEF Sending, Past
  <1>9. Buffers(e)
    BY DEF Ready, Local, Core, ItemsOK, Buffers
  <1> HIDE DEF x
  <1>10. Says(p, e, g, x, n)
    BY <1>7, <1>8, <1>9 DEF Says, Aux, x
  <1>11. Number(p, e, x, n)
    <2>1. LET k == SaidAt(p, n + 1)
          IN  /\ Sends(p, k) /\ SaidAt(p, n) < k /\ k \in 1..17 /\ HeardAt(p, n + 1) = HeardAt(p, n)
              /\ Only8(p, k, SaidAt(p, n), k)
              /\ n \in Places(p) /\ n + 1 \in Places(p) /\ Follows(p, n, n + 1)
      BY <1>1, SpeakNumbers
    <2> QED BY <1>5, <2>1 DEF Number
  <1>12. Talk(p, g, o)
    BY <1>1, <1>10, <1>11, SayTalk DEF Ready
  <1> QED BY <1>2, <1>12

\* Where an engine sends.
LEMMA SendWhere ==
  ASSUME NEW p \in Ends, NEW e, NEW o, Ready(p, e, o), e.prog \in {"13", "12", "12r"}, ~e.again,
         At(p, e).op = "send", ~Skips(p, e, At(p, e)), ~(p = "server" /\ e.prog = "13" /\ e.pc \in {17, 23})
  PROVE  Sending(p, e, e.pc + 10, At(p, e).msg)
  <1> DEFINE n == e.pc + 10
             msg == At(p, e).msg
  <1>1. /\ e.prog = Version /\ e.pc \in Nat /\ Place(e) = n /\ Stands(p, e, n) /\ ~Past(e)
        /\ p = "client" => e.pc >= 4
        /\ p = "server" => e.pc >= 2
    BY EnginePlace DEF Ready
  <1>2. Versions /\ e.prog # "none" /\ Setting /\ Local(p, e)
    BY DEF Ready, Setting
  <1>3. ~SkipAt(p, n)
    <2>1. SkipAt(p, n) => Skips(p, e, At(p, e)) \/ (p = "server" /\ Version = "13" /\ e.pc \in {17, 23})
      BY SkipPlace DEF Ready
    <2> QED BY <1>1, <2>1
  <1> HIDE DEF msg
  <1>4. SpeakAt(p, n, msg)
    <2>1. CASE p = "client" /\ Version = "13"
      <3>1. \/ e.pc = 6 /\ msg = "EarlyData"
            \/ e.pc = 13 /\ msg = "EndOfEarlyData"
            \/ e.pc = 15 /\ msg = "Certificate"
            \/ e.pc = 16 /\ msg = "CertificateVerify"
            \/ e.pc = 17 /\ msg = "Finished"
        BY <1>1, <1>2, <2>1, SendPositions DEF msg
      <3> QED BY <1>3, <2>1, <3>1 DEF SkipAt, SpeakAt
    <2>2. CASE p = "server" /\ Version = "13"
      <3>1. \/ e.pc = 3 /\ msg = "HelloRetryRequest"
            \/ e.pc = 6 /\ msg = "ServerHello"
            \/ e.pc = 9 /\ msg = "EncryptedExtensions"
            \/ e.pc = 10 /\ msg = "CertificateRequest"
            \/ e.pc = 11 /\ msg = "Certificate"
            \/ e.pc = 12 /\ msg = "CertificateVerify"
            \/ e.pc = 13 /\ msg = "Finished"
        BY <1>1, <1>2, <2>2, SendPositions DEF msg
      <3> QED BY <1>3, <2>2, <3>1 DEF SkipAt, SpeakAt
    <2>3. CASE p = "client" /\ Version = "12"
      <3>1. \/ e.pc = 8 /\ msg = "Certificate"
            \/ e.pc = 9 /\ msg = "ClientKeyExchange"
            \/ e.pc = 10 /\ msg = "CertificateVerify"
            \/ e.pc = 13 /\ msg = "Finished"
        BY <1>1, <1>2, <2>3, SendPositions DEF msg
      <3> QED BY <1>3, <2>3, <3>1 DEF SkipAt, SpeakAt
    <2>4. CASE p = "server" /\ Version = "12"
      <3>1. \/ e.pc = 2 /\ msg = "ServerHello"
            \/ e.pc = 3 /\ msg = "Certificate"
            \/ e.pc = 4 /\ msg = "ServerKeyExchange"
            \/ e.pc = 5 /\ msg = "CertificateRequest"
            \/ e.pc = 6 /\ msg = "ServerHelloDone"
            \/ e.pc = 12 /\ msg = "NewSessionTicket"
            \/ e.pc = 15 /\ msg = "Finished"
        BY <1>1, <1>2, <2>4, SendPositions DEF msg
      <3> QED BY <1>3, <2>4, <3>1 DEF SkipAt, SpeakAt
    <2>5. CASE p = "client" /\ Version = "12r"
      <3>1. e.pc = 9 /\ msg = "Finished"
        BY <1>1, <1>2, <2>5, SendPositions DEF msg
      <3> QED BY <2>5, <3>1 DEF SpeakAt
    <2>6. CASE p = "server" /\ Version = "12r"
      <3>1. \/ e.pc = 2 /\ msg = "ServerHello"
            \/ e.pc = 5 /\ msg = "Finished"
            \/ e.pc = 6 /\ msg = "NewSessionTicket"
        BY <1>1, <1>2, <2>6, SendPositions DEF msg
      <3> QED BY <1>3, <2>6, <3>1 DEF SkipAt, SpeakAt
    <2> QED BY <1>2, <2>1, <2>2, <2>3, <2>4, <2>5, <2>6 DEF Ends, Setting, Three
  <1>5. n \in Nat /\ n >= 12
    BY <1>1 DEF Ends
  <1> QED BY <1>1, <1>4, <1>5 DEF Sending, msg

\* A session that composed a message.
LEMMA Composed ==
  ASSUME NEW p \in Ends, NEW e, NEW msg, Local(p, e)
  PROVE  LET f == Compose(p, e, msg)
         IN  /\ DOMAIN f = Fields /\ SameControl(e, f) /\ f.err = e.err /\ Spoke(p, e, f, msg) /\ Aux(e, f)
             /\ Unread(f) = Append(Unread(e), Sealed(e, Entry(p, e, msg))) /\ Buffers(f)
             /\ f.q = Append(e.q, Entry(p, e, msg))
  <1> DEFINE f == Compose(p, e, msg)
  <1>1. DOMAIN e = Fields /\ IsSeq(e.q) /\ Buffers(e)
    BY DEF Local, Core, Control, ItemsOK, Buffers
  <1>2. /\ DOMAIN f = Fields /\ SameControl(e, f) /\ f.err = e.err
        /\ f.out = e.out /\ f.wire = e.wire /\ Spoke(p, e, f, msg)
    BY <1>1, ComposeFields
  <1>3. Aux(e, f) /\ f.q = Append(e.q, Entry(p, e, msg))
    BY <1>1, AuxCompose
  <1> HIDE DEF f
  <1>4. f.keys = e.keys
    BY <1>2 DEF Spoke, SameEpochs
  <1>5. Unread(f) = Append(Unread(e), Sealed(e, Entry(p, e, msg))) /\ Buffers(f)
    BY <1>1, <1>2, <1>3, <1>4, UnreadAppend
  <1> QED BY <1>2, <1>3, <1>5 DEF f

\* And one that will repeat the call.
LEMMA Flushed ==
  ASSUME NEW p \in Ends, NEW e, NEW msg, Local(p, e)
  PROVE  LET g == [Flush(Compose(p, e, msg)) EXCEPT !.again = TRUE]
         IN  /\ g.pc = e.pc /\ g.prog = e.prog /\ g.again = TRUE /\ g.err = e.err /\ g.q = <<>>
             /\ Spoke(p, e, g, msg) /\ Aux(e, g)
             /\ Unread(g) = Append(Unread(e), Sealed(e, Entry(p, e, msg))) /\ Buffers(g)
  <1> DEFINE f == Compose(p, e, msg)
             h == Flush(f)
             g == [h EXCEPT !.again = TRUE]
             u == Append(Unread(e), Sealed(e, Entry(p, e, msg)))
  <1>1. /\ DOMAIN f = Fields /\ SameControl(e, f) /\ f.err = e.err /\ Spoke(p, e, f, msg) /\ Aux(e, f)
        /\ Unread(f) = u /\ Buffers(f)
    BY Composed
  <1> HIDE DEF f, u
  <1>2. /\ SameRest(f, h) /\ h.q = <<>>
    BY <1>1, FlushFields DEF Buffers
  <1>3. Aux(f, h) /\ Unread(h) = u /\ Buffers(h)
    BY <1>1, AuxFlush, UnreadFlush
  <1>4. DOMAIN h = Fields
    BY <1>2 DEF SameRest
  <1> HIDE DEF h
  <1>5. /\ DOMAIN g = Fields /\ g.prog = h.prog /\ g.pc = h.pc /\ g.again = TRUE
        /\ SameEpochs(h, g) /\ SameSecrets(h, g) /\ SameBuffers(h, g)
        /\ g.flags = h.flags /\ g.tickets = h.tickets /\ g.err = h.err /\ Aux(h, g)
    BY <1>4 DEF Fields, SameEpochs, SameSecrets, SameBuffers, Aux
  <1> HIDE DEF g
  <1>6. g.pc = e.pc /\ g.prog = e.prog /\ g.again = TRUE /\ g.err = e.err /\ g.q = <<>>
    BY <1>1, <1>2, <1>5 DEF SameRest, SameControl, SameBuffers
  <1>7. Spoke(p, e, g, msg)
    <2>1. /\ g.tr = f.tr /\ g.mark = f.mark /\ g.psk = f.psk /\ g.saved = f.saved /\ g.rms = f.rms
          /\ g.flags = f.flags /\ g.tickets = f.tickets
      BY <1>2, <1>5 DEF SameRest, SameSecrets
    <2>2. SameEpochs(f, g)
      BY <1>2, <1>5 DEF SameRest, SameEpochs
    <2>3. SameEpochs(e, g)
      BY <1>1, <2>2 DEF Spoke, SameEpochs
    <2> QED BY <1>1, <1>6, <2>1, <2>3 DEF Spoke
  <1>8. Aux(e, g)
    BY <1>1, <1>3, <1>5, AuxTwice
  <1>9. Unread(g) = u
    <2>1. Unread(g) = Unread(h)
      <3>1. SameBuffers(h, g)
        BY <1>5
      <3> QED BY <1>2, <3>1, UnreadKept
    <2> QED BY <1>3, <2>1
  <1>10. Buffers(g)
    BY <1>3, <1>5 DEF Buffers, SameBuffers
  <1> QED BY <1>6, <1>7, <1>8, <1>9, <1>10 DEF g, h, f, u

\* The messages that wait when another joins them.
LEMMA QueueMore ==
  ASSUME NEW p, NEW e, NEW m, NEW x, QueueOK(p, e), IsSeq(e.q), m.q = Append(e.q, x), x.epoch = e.we, e.we \in Nat,
         m.we = e.we, m.prog # "start", m.again = FALSE, m.pc <= QueueEnd(p)
  PROVE  QueueOK(p, m)
  <1>1. Len(e.q) \in Nat /\ Len(m.q) = Len(e.q) + 1 /\ m.q[Len(e.q) + 1] = x /\ \A i \in 1..Len(e.q) : m.q[i] = e.q[i]
    BY ListAppend
  <1>2. ASSUME NEW i \in 1..Len(m.q) PROVE m.q[i].epoch \in 0..m.we
    <2>1. CASE i \in 1..Len(e.q)
      BY <1>1, <2>1 DEF QueueOK
    <2>2. CASE i = Len(e.q) + 1
      BY <1>1, <2>2
    <2> QED BY <1>1, <2>1, <2>2
  <1> QED BY <1>2 DEF QueueOK

\* The last messages of a flight are not kept.
LEMMA KeptWhere ==
  ASSUME NEW p \in Ends, NEW n \in Nat, NEW msg, NEW e, Setting, SpeakAt(p, n, msg), msg \in Cached(e),
         e.prog = Version, n = e.pc + 10, e.pc \in Nat
  PROVE  e.pc + 1 <= QueueEnd(p)
  <1>1. CASE Version = "13"
    BY <1>1 DEF SpeakAt, Cached, QueueEnd, Ends
  <1>2. CASE Version = "12"
    BY <1>2 DEF SpeakAt, Cached, QueueEnd, Ends
  <1>3. CASE Version = "12r"
    BY <1>3 DEF SpeakAt, Cached, QueueEnd, Ends
  <1> QED BY <1>1, <1>2, <1>3 DEF Setting, Three

\* A message is kept for the flight.
LEMMA KeptOK ==
  ASSUME NEW p \in Ends, NEW e, NEW o, NEW msg, Ready(p, e, o), Local(Peer(p), o), ~e.again, e.prog \in {"13", "12", "12r"},
         Sending(p, e, e.pc + 10, msg), msg \in Cached(e), Local(p, Advance(p, Compose(p, e, msg)))
  PROVE  OK(p, Advance(p, Compose(p, e, msg)), o)
  <1> DEFINE f == Compose(p, e, msg)
             m == Moved(f)
             n == e.pc + 10
             u == Append(Unread(e), Sealed(e, Entry(p, e, msg)))
  <1>1. /\ DOMAIN f = Fields /\ SameControl(e, f) /\ f.err = e.err /\ Spoke(p, e, f, msg) /\ Aux(e, f)
        /\ Unread(f) = u /\ Buffers(f) /\ f.q = Append(e.q, Entry(p, e, msg))
    BY Composed DEF Ready
  <1>2. /\ e.prog = Version /\ e.pc \in Nat /\ Place(e) = n /\ Stands(p, e, n) /\ ~Past(e)
    BY EnginePlace DEF Ready
  <1>3. IsSeq(e.q) /\ e.we \in Nat /\ Setting /\ e.err = "none"
    <2>1. e.we \in 0..e.next /\ e.next \in 1..3
      BY Table DEF Ready, Setting
    <2>2. e.we \in Nat
      BY <2>1
    <2> QED BY <2>2 DEF Ready, Local, Core, ItemsOK, HereOK
  <1>4. QueueOK(p, e)
    BY <1>2, StandsParts
  <1>5. e.pc + 1 <= QueueEnd(p)
    <2>1. SpeakAt(p, n, msg) /\ n \in Nat
      BY DEF Sending
    <2> QED BY <1>2, <1>3, <2>1, KeptWhere
  <1> HIDE DEF f, u
  <1>6. /\ DOMAIN m = Fields /\ m.pc = f.pc + 1 /\ m.again = FALSE /\ m.prog = f.prog
        /\ SameEpochs(f, m) /\ SameSecrets(f, m) /\ SameBuffers(f, m)
        /\ m.flags = f.flags /\ m.tickets = f.tickets /\ m.err = f.err
    BY <1>1, MovedFields
  <1>7. Aux(f, m) /\ Unread(m) = u /\ Buffers(m)
    BY <1>1, AuxMoved, UnreadMoved
  <1> HIDE DEF m
  <1>8. Spoke(p, e, m, msg)
    BY <1>1, <1>6 DEF Spoke, SameEpochs, SameSecrets
  <1>9. Aux(e, m)
    BY <1>1, <1>7, AuxTwice
  <1>10. m.pc = e.pc + 1 /\ m.prog = e.prog /\ m.again = FALSE /\ m.we = e.we /\ m.q = Append(e.q, Entry(p, e, msg))
    BY <1>1, <1>6, <1>8 DEF SameControl, SameBuffers, Spoke, SameEpochs
  <1>11. QueueOK(p, m)
    <2>1. Entry(p, e, msg).epoch = e.we
      BY DEF Entry
    <2>2. m.prog # "start" /\ m.pc <= QueueEnd(p)
      BY <1>5, <1>10
    <2> QED BY <1>3, <1>4, <1>10, <2>1, <2>2, QueueMore
  <1>12. Place(m) = n + 1
    <2>1. m.prog # "start"
      BY <1>10
    <2> QED BY <1>2, <1>10, <2>1 DEF Place, Reach
  <1>13. Stands(p, m, n + 1) /\ Talk(p, m, o)
    BY <1>7, <1>8, <1>9, <1>11, <1>12, SayOK DEF u
  <1>14. n + 1 = f.pc + 11 /\ f.pc \in Nat /\ f.prog = Version /\ f.err = "none"
    BY <1>1, <1>2, <1>3 DEF SameControl
  <1> QED BY <1>1, <1>3, <1>13, <1>14, AdvanceOK DEF Ready, m, f

\* A message is sent with all that waits.
LEMMA FlushOK ==
  ASSUME NEW p \in Ends, NEW e, NEW o, NEW msg, NEW n, Ready(p, e, o), Local(Peer(p), o), ~e.again,
         Sending(p, e, n, msg), e.pc \in Nat,
         LET g == [Flush(Compose(p, e, msg)) EXCEPT !.again = TRUE] IN Place(g) = n + 1
  PROVE  OK(p, [Flush(Compose(p, e, msg)) EXCEPT !.again = TRUE], o)
  <1> DEFINE g == [Flush(Compose(p, e, msg)) EXCEPT !.again = TRUE]
  <1>1. /\ g.pc = e.pc /\ g.prog = e.prog /\ g.again = TRUE /\ g.err = e.err /\ g.q = <<>>
        /\ Spoke(p, e, g, msg) /\ Aux(e, g)
        /\ Unread(g) = Append(Unread(e), Sealed(e, Entry(p, e, msg))) /\ Buffers(g)
    BY Flushed DEF Ready
  <1>2. Place(g) = n + 1
    OBVIOUS
  <1> HIDE DEF g
  <1>3. QueueOK(p, g)
    BY <1>1 DEF QueueOK
  <1>4. Stands(p, g, n + 1) /\ Talk(p, g, o)
    BY <1>1, <1>2, <1>3, SayOK
  <1>5. ~Past(g) /\ g.err = "none"
    BY <1>1 DEF Sending, Past, Ready, HereOK
  <1>6. HereOK(p, g)
    BY <1>2, <1>4, <1>5 DEF HereOK
  <1>7. OK(p, g, o)
    BY <1>4, <1>6 DEF OK
  <1> QED BY <1>7 DEF g

-----------------------------------------------------------------------------
(* The change cipher spec.                                                   *)

\* What waits is written out, and the transport takes some of it.
LEMMA WrittenOut ==
  ASSUME NEW f, DOMAIN f = Fields, Buffers(f), NEW n \in 0..Len(Flush(f).out)
  PROVE  LET h == Takes(Flush(f), n)
         IN  /\ SameRest(f, h) /\ h.q = <<>> /\ Unread(h) = Unread(f) /\ Buffers(h) /\ Aux(f, h)
  <1> DEFINE d == Flush(f)
             h == Takes(d, n)
  <1>1. SameRest(f, d) /\ d.q = <<>>
    BY FlushFields DEF Buffers
  <1>2. Aux(f, d) /\ Unread(d) = Unread(f) /\ Buffers(d)
    BY AuxFlush, UnreadFlush
  <1>3. DOMAIN d = Fields /\ n \in 0..Len(d.out)
    BY <1>1 DEF SameRest
  <1> HIDE DEF d
  <1>4. SameRest(d, h) /\ h.q = d.q
    BY <1>2, <1>3, TakesFields DEF Buffers
  <1>5. Aux(d, h) /\ Unread(h) = Unread(d) /\ Buffers(h)
    BY <1>2, <1>3, AuxTakes, UnreadTakes
  <1> HIDE DEF h
  <1>6. SameRest(f, h)
    <2>1. SameControl(f, h) /\ SameEpochs(f, h)
      BY <1>1, <1>4 DEF SameRest, SameControl, SameEpochs
    <2>2. SameSecrets(f, h)
      BY <1>1, <1>4 DEF SameRest, SameSecrets
    <2>3. DOMAIN h = Fields /\ h.flags = f.flags /\ h.tickets = f.tickets /\ h.err = f.err
      BY <1>1, <1>4 DEF SameRest
    <2> QED BY <2>1, <2>2, <2>3 DEF SameRest
  <1>7. Aux(f, h)
    BY <1>2, <1>5, AuxTwice
  <1> QED BY <1>1, <1>2, <1>4, <1>5, <1>6, <1>7 DEF h, d

\* Where a change cipher spec is sent.
LEMMA CcsWhere ==
  ASSUME NEW p \in Ends, NEW e, NEW o, Ready(p, e, o), e.prog # "none", ~Skips(p, e, At(p, e)), At(p, e).op = "ccs"
  PROVE  /\ CcsAt(p, e.pc + 10) /\ e.prog \in {"13", "12", "12r"} /\ ~e.again
         /\ e.prog # "13" => e.pc + 1 <= QueueEnd(p)
  <1>1. Versions /\ Setting /\ Local(p, e) /\ HereOK(p, e) /\ Three
    BY DEF Ready, Setting
  <1>2. ~e.again
    BY <1>1 DEF Local, At
  <1>3. e.prog \in {"13", "12", "12r"}
    <2>1. e.prog \in {"start", "13", "12", "12r", "none", "reauth", "ticket"} /\ (e.prog = "ticket" => p = "server")
      BY <1>1, Where DEF Local, Core
    <2>2. e.prog # "start"
      BY <1>1, Due, StartSteps DEF S, Ends
    <2>3. e.prog \notin {"reauth", "ticket"}
      BY <1>1, <2>1, Due, LaterSteps DEF S, Ends
    <2> QED BY <2>1, <2>2, <2>3
  <1>4. e.prog = Version /\ e.pc \in Nat
    BY <1>1, <1>3, EnginePlace
  <1>5. CASE p = "client" /\ Version = "13"
    <2>1. e.pc = 4
      BY <1>1, <1>4, <1>5, Due, Client13Steps DEF S
    <2> QED BY <1>2, <1>3, <1>4, <1>5, <2>1 DEF CcsAt
  <1>6. CASE p = "server" /\ Version = "13"
    <2>1. e.pc \in {4, 7}
      BY <1>1, <1>4, <1>6, Due, Server13Steps DEF S
    <2>2. SkipAt(p, e.pc + 10) => Skips(p, e, At(p, e)) \/ (p = "server" /\ Version = "13" /\ e.pc \in {17, 23})
      BY <1>1, <1>2, <1>3, SkipPlace
    <2>3. ~SkipAt(p, e.pc + 10)
      BY <2>1, <2>2
    <2> QED BY <1>2, <1>3, <1>4, <1>6, <2>1, <2>3 DEF CcsAt, SkipAt
  <1>7. CASE p = "client" /\ Version = "12"
    <2>1. e.pc = 11
      BY <1>1, <1>4, <1>7, Due, Client12Steps DEF S
    <2> QED BY <1>2, <1>3, <1>4, <1>7, <2>1 DEF CcsAt, QueueEnd
  <1>8. CASE p = "server" /\ Version = "12"
    <2>1. e.pc = 13
      BY <1>1, <1>4, <1>8, Due, Server12Steps DEF S
    <2> QED BY <1>2, <1>3, <1>4, <1>8, <2>1 DEF CcsAt, QueueEnd
  <1>9. CASE p = "client" /\ Version = "12r"
    <2>1. e.pc = 7
      BY <1>1, <1>4, <1>9, Due, Client12Steps DEF S
    <2> QED BY <1>2, <1>3, <1>4, <1>9, <2>1 DEF CcsAt, QueueEnd
  <1>10. CASE p = "server" /\ Version = "12r"
    <2>1. e.pc = 3
      BY <1>1, <1>4, <1>10, Due, Server12Steps DEF S
    <2> QED BY <1>2, <1>3, <1>4, <1>10, <2>1 DEF CcsAt, QueueEnd
  <1> QED BY <1>1, <1>5, <1>6, <1>7, <1>8, <1>9, <1>10 DEF Ends, Three

\* A change cipher spec joins what is under way.
LEMMA CcsJoins ==
  ASSUME NEW p \in Ends, NEW e, NEW f, NEW o, NEW x, Ready(p, e, o), Local(Peer(p), o), e.prog \in {"13", "12", "12r"},
         ~e.again, CcsAt(p, e.pc + 10), SameRest(e, f), Aux(e, f), Buffers(f), Unread(f) = Append(Unread(e), x),
         x.type = "ccs", QueueOK(p, Moved(f)), Local(p, Advance(p, f))
  PROVE  OK(p, Advance(p, f), o)
  <1> DEFINE m == Moved(f)
             n == e.pc + 10
  <1>1. /\ e.prog = Version /\ e.pc \in Nat /\ Place(e) = n /\ Stands(p, e, n) /\ ~Past(e)
    BY EnginePlace DEF Ready
  <1>2. Setting /\ e.err = "none" /\ Buffers(e) /\ DOMAIN f = Fields
    BY DEF Ready, HereOK, Local, Core, ItemsOK, Buffers, SameRest
  <1>3. LET k == SaidAt(p, n + 1)
        IN  /\ Sends(p, k) /\ SaidAt(p, n) < k /\ k \in 1..17 /\ HeardAt(p, n + 1) = HeardAt(p, n)
            /\ Only8(p, k, SaidAt(p, n), k)
            /\ n \in Places(p) /\ n + 1 \in Places(p) /\ Follows(p, n, n + 1)
            /\ \A h, y : y.type = "ccs" => Slot(p, h, y) = k /\ (Item(p, k, y) <=> Sends(p, k))
    <2>1. n \in Nat /\ CcsAt(p, n)
      BY <1>1
    <2> HIDE DEF n
    <2> QED BY <1>2, <2>1, CcsNumbers
  <1>4. n \in Nat
    BY <1>1
  <1>5. /\ DOMAIN m = Fields /\ m.pc = f.pc + 1 /\ m.again = FALSE /\ m.prog = f.prog
        /\ SameEpochs(f, m) /\ SameSecrets(f, m) /\ SameBuffers(f, m)
        /\ m.flags = f.flags /\ m.tickets = f.tickets /\ m.err = f.err
    BY <1>2, MovedFields
  <1>6. Aux(f, m) /\ Unread(m) = Append(Unread(e), x) /\ Buffers(m)
    BY <1>2, AuxMoved, UnreadMoved
  <1>7. QueueOK(p, m) /\ CcsAt(p, n)
    OBVIOUS
  <1>8. /\ m.pc = e.pc + 1 /\ m.prog = e.prog /\ m.again = FALSE /\ SameEpochs(e, m) /\ m.flags = e.flags
        /\ m.tr = e.tr /\ m.psk = e.psk /\ m.mark = e.mark
    BY <1>5 DEF SameRest, SameControl, SameEpochs, SameSecrets
  <1>9. Aux(e, m)
    BY <1>6, AuxTwice
  <1> HIDE DEF m
  <1>10. Place(m) = n + 1 /\ ~Past(m) /\ First1(p, m) = First1(p, e)
    <2>1. m.prog # "start" /\ e.prog # "start"
      BY <1>8
    <2>2. First1(p, m) = FALSE /\ First1(p, e) = FALSE
      BY <2>1, NoFirst1
    <2>3. First1(p, m) = First1(p, e)
      BY <2>2, Zenon
    <2>4. ~Past(m)
      BY <1>1, <1>8 DEF Past
    <2>5. Place(m) = n + 1
      BY <1>1, <1>8, <2>1 DEF Place, Reach
    <2> QED BY <2>3, <2>4, <2>5
  <1> HIDE DEF n
  <1>11. Stands(p, m, n + 1)
    <2>1. PlainAt(p, n)
      BY <1>7 DEF PlainAt
    <2>2. n \in Places(p) /\ n + 1 \in Places(p) /\ Follows(p, n, n + 1)
      BY <1>3
    <2>3. m.auths = e.auths /\ m.done = e.done /\ m.started = e.started
      BY <1>9 DEF Aux
    <2> QED BY <1>1, <1>2, <1>4, <1>7, <1>8, <2>1, <2>2, <2>3, PlainStands
  <1>12. Says(p, e, m, x, n)
    BY <1>1, <1>2, <1>6, <1>9, <1>10 DEF Says, Aux
  <1>13. Number(p, e, x, n)
    <2>1. \A h : Slot(p, h, x) = SaidAt(p, n + 1) /\ Item(p, SaidAt(p, n + 1), x)
      BY <1>3
    <2> QED BY <1>3, <2>1 DEF Number
  <1>14. Talk(p, m, o)
    BY <1>2, <1>4, <1>12, <1>13, SayTalk DEF Ready
  <1>15. n + 1 = f.pc + 11 /\ f.pc \in Nat /\ f.prog = Version /\ f.err = "none"
    BY <1>1, <1>2 DEF SameRest, SameControl, n
  <1> QED BY <1>2, <1>11, <1>14, <1>15, AdvanceOK DEF Ready, m

\* A change cipher spec: written out, or kept for the flight.
LEMMA CcsOK ==
  ASSUME NEW p \in Ends, NEW e, NEW o, Ready(p, e, o), Local(Peer(p), o), e.prog # "none", ~Skips(p, e, At(p, e)),
         At(p, e).op = "ccs"
  PROVE  LET f == Cache(e, "ccs", "ccs", {}, <<>>)
         IN  /\ mode.vers # 13 => OK(p, Advance(p, f), o)
             /\ mode.vers = 13 => \A n \in 0..Len(Flush(f).out) : OK(p, Advance(p, Takes(Flush(f), n)), o)
  <1> DEFINE f == Cache(e, "ccs", "ccs", {}, <<>>)
             y == [type |-> "ccs", msg |-> "ccs", info |-> {}, ctx |-> <<>>, epoch |-> e.we]
             x == Sealed(e, y)
  <1>1. /\ CcsAt(p, e.pc + 10) /\ e.prog \in {"13", "12", "12r"} /\ ~e.again
        /\ e.prog # "13" => e.pc + 1 <= QueueEnd(p)
    BY CcsWhere
  <1>2. DOMAIN e = Fields /\ IsSeq(e.q) /\ Buffers(e) /\ Versions /\ Local(p, e) /\ Setting
    <2>1. Local(p, e) /\ Setting
      BY DEF Ready
    <2>2. Versions
      BY <2>1 DEF Setting
    <2> QED BY <2>1, <2>2 DEF Local, Core, Control, ItemsOK, Buffers
  <1>3. /\ e.prog = Version /\ e.pc \in Nat /\ Stands(p, e, e.pc + 10) /\ (Version = "13" <=> mode.vers = 13)
    BY <1>1, <1>2, EnginePlace DEF Ready, Setting
  <1>4. SameRest(e, f) /\ f.out = e.out /\ f.wire = e.wire
    BY <1>2, CacheFields
  <1>5. Aux(e, f) /\ f.q = Append(e.q, y)
    <2>1. \A info, ctx : /\ Aux(e, Cache(e, "ccs", "ccs", info, ctx))
                        /\ Cache(e, "ccs", "ccs", info, ctx).q =
                             Append(e.q, [type |-> "ccs", msg |-> "ccs", info |-> info, ctx |-> ctx, epoch |-> e.we])
      BY <1>2, AuxCache
    <2> QED BY <2>1, Zenon
  <1>6. Running(e)
    BY DEF Ready, HereOK, Running
  <1>7. /\ Good(p, e, Advance(p, f))
        /\ \A n \in 0..Len(Flush(f).out) : Good(p, e, Advance(p, Takes(Flush(f), n)))
    BY <1>2, <1>6, CcsGood
  <1>8. x.type = "ccs"
    BY DEF Sealed, Record
  <1>9. y.epoch = e.we
    OBVIOUS
  <1>10. QueueOK(p, e)
    BY <1>3, StandsParts
  <1>11. e.we \in Nat
    <2>1. e.we \in 0..e.next /\ e.next \in 1..3
      BY <1>1, <1>2, Table
    <2> QED BY <2>1
  <1> HIDE DEF f, x, y
  <1>12. f.keys = e.keys /\ DOMAIN f = Fields
    BY <1>4 DEF SameRest, SameEpochs
  <1>13. Unread(f) = Append(Unread(e), x) /\ Buffers(f)
    BY <1>2, <1>4, <1>5, <1>12, UnreadAppend DEF x
  <1>14. ASSUME mode.vers # 13 PROVE OK(p, Advance(p, f), o)
    <2> DEFINE m == Moved(f)
    <2>1. m.q = f.q /\ m.we = f.we /\ m.prog = f.prog /\ m.again = FALSE /\ m.pc = f.pc + 1
      BY <1>12, MovedFields DEF SameBuffers, SameEpochs
    <2> HIDE DEF m
    <2>2. m.q = Append(e.q, y) /\ m.we = e.we /\ m.prog # "start" /\ m.pc <= QueueEnd(p)
      BY <1>1, <1>3, <1>4, <1>5, <1>14, <2>1 DEF SameRest, SameControl, SameEpochs
    <2>3. QueueOK(p, m)
      BY <1>2, <1>9, <1>10, <1>11, <2>1, <2>2, QueueMore
    <2>4. Local(p, Advance(p, f))
      BY <1>7 DEF Good
    <2> QED BY <1>1, <1>4, <1>5, <1>8, <1>13, <2>3, <2>4, CcsJoins DEF m
  <1>15. ASSUME NEW n \in 0..Len(Flush(f).out) PROVE OK(p, Advance(p, Takes(Flush(f), n)), o)
    <2> DEFINE h == Takes(Flush(f), n)
               m == Moved(h)
    <2>1. SameRest(f, h) /\ h.q = <<>> /\ Unread(h) = Unread(f) /\ Buffers(h) /\ Aux(f, h)
      BY <1>12, <1>13, WrittenOut
    <2>2. Local(p, Advance(p, h))
      BY <1>7 DEF Good
    <2> HIDE DEF h
    <2>3. SameRest(e, h)
      <3>1. SameControl(e, h) /\ SameEpochs(e, h)
        BY <1>4, <2>1 DEF SameRest, SameControl, SameEpochs
      <3>2. SameSecrets(e, h)
        BY <1>4, <2>1 DEF SameRest, SameSecrets
      <3>3. DOMAIN h = Fields /\ h.flags = e.flags /\ h.tickets = e.tickets /\ h.err = e.err
        BY <1>4, <2>1 DEF SameRest
      <3> QED BY <3>1, <3>2, <3>3 DEF SameRest
    <2>4. Aux(e, h)
      BY <1>5, <2>1, AuxTwice
    <2>5. QueueOK(p, m)
      <3>1. m.q = <<>>
        BY <2>1, <2>3, MovedFields DEF SameRest, SameBuffers
      <3> HIDE DEF m
      <3> QED BY <3>1 DEF QueueOK
    <2>6. Unread(h) = Append(Unread(e), x)
      BY <1>13, <2>1
    <2>7. OK(p, Advance(p, h), o)
      BY <1>1, <1>8, <2>1, <2>2, <2>3, <2>4, <2>5, <2>6, CcsJoins
    <2> QED BY <2>7 DEF h
  <1>16. /\ mode.vers # 13 => OK(p, Advance(p, f), o)
         /\ mode.vers = 13 => \A n \in 0..Len(Flush(f).out) : OK(p, Advance(p, Takes(Flush(f), n)), o)
    BY <1>14, <1>15
  <1> QED BY <1>16 DEF f

-----------------------------------------------------------------------------
(* The tickets of TLS 1.3.                                                   *)

\* The record of a ticket.
LEMMA TicketRecord ==
  ASSUME NEW e, NEW h, Setting, Version = "13", e.keys[e.we].w = AppK
  PROVE  LET x == Sealed(e, Entry("server", e, "NewSessionTicket"))
         IN  Slot("server", h, x) = 100 /\ Item("server", 100, x) /\ x.type = "hs"
  <1> DEFINE x == Sealed(e, Entry("server", e, "NewSessionTicket"))
  <1>1. x.type = "hs" /\ x.msg = "NewSessionTicket" /\ x.key = AppK
    BY DEF Sealed, Record, Entry
  <1> HIDE DEF x
  <1>2. Slot("server", h, x) = 100
    BY <1>1 DEF Slot
  <1>3. Item("server", 100, x)
    BY <1>1 DEF Item, KeyOf, LateK
  <1> QED BY <1>1, <1>2, <1>3 DEF x

\* The server's tickets in the handshake: of an early start, and at its end.
LEMMA TicketMoves ==
  ASSUME NEW e, NEW g, NEW o, Ready("server", e, o), e.prog = "13", ~e.again, e.pc \in {17, 23},
         g.prog = "13", Place(g) = e.pc + 11, Spoke("server", e, g, "NewSessionTicket"), Aux(e, g), g.q = <<>>,
         Buffers(g), Unread(g) = Append(Unread(e), Sealed(e, Entry("server", e, "NewSessionTicket")))
  PROVE  Stands("server", g, e.pc + 11) /\ Talk("server", g, o)
  <1> DEFINE n == e.pc + 10
             x == Sealed(e, Entry("server", e, "NewSessionTicket"))
             a == HeardTo("client", o)
             y == 100
  <1>1. /\ e.prog = Version /\ Place(e) = n /\ Stands("server", e, n) /\ ~Past(e)
        /\ n \in Places("server") /\ e.pc + 11 \in Places("server") /\ Follows("server", n, e.pc + 11)
    BY EnginePlace DEF Ready, Ends
  <1>2. Setting /\ Version = "13" /\ Buffers(e) /\ Fit("client", o) /\ Talk("server", e, o)
    BY <1>1 DEF Ready, Local, Core, ItemsOK, Buffers, Peer
  <1>3. n \in {27, 33} /\ n \in Nat /\ n + 1 = e.pc + 11 /\ (n + 1) \in Nat /\ n <= n + 1
    OBVIOUS
  <1>4. Unread(g) = Append(Unread(e), x) /\ Place(g) = n + 1
    BY <1>3
  <1> HIDE DEF n
  <1>5. Notes("server", e, n) /\ KeysAt("server", e, n) /\ FlagsAt("server", e, n) /\ SecretsAt("server", e, n)
    BY <1>1, StandsParts
  <1>6. PlainAt("server", n) /\ IdleAt("server", n)
    BY <1>2, <1>3 DEF PlainAt, SkipAt, IdleAt
  <1>7. n \in Places("server") /\ n + 1 \in Places("server") /\ Follows("server", n, n + 1)
    BY <1>1, <1>3
  <1>8. ~KeyStep("server", n) /\ ~FlagStep("server", n)
    BY <1>2, <1>3, <1>6, PlainKeys, PlainFlags DEF Ends
  <1>9. Notes("server", g, n + 1)
    BY <1>3, <1>5, NotesMore DEF Aux, Ends
  <1>10. KeysAt("server", g, n + 1)
    BY <1>2, <1>3, <1>5, <1>7, <1>8, KeysMore DEF Spoke, Ends
  <1>11. FlagsAt("server", g, n + 1)
    <2>1. FlagsAt("server", e, n + 1)
      BY <1>2, <1>3, <1>5, <1>7, <1>8, FlagsStay DEF Ends
    <2>2. \A t \in Told8 : Has(g, t) <=> Has(e, t)
      BY DEF Spoke, SentFlags, Told8, Has
    <2> QED BY <2>1, <2>2, FlagsLike
  <1>12. SecretsAt("server", g, n + 1)
    <2>1. g.tr = e.tr /\ g.psk = e.psk /\ g.mark = e.mark
      BY DEF Spoke, Unhashed, Marks
    <2> QED BY <1>2, <1>3, <1>5, <1>6, <1>7, <2>1, PlainSecrets DEF Ends
  <1>13. QueueOK("server", g)
    BY DEF QueueOK
  <1>14. Stands("server", g, n + 1)
    BY <1>9, <1>10, <1>11, <1>12, <1>13, StandsParts
  <1>15. e.keys[e.we].w = AppK
    BY <1>2, <1>3, <1>5 DEF KeysAt, WriteKeyAt
  <1>16. Slot("server", First1("server", e), x) = y /\ Item("server", y, x) /\ x.type = "hs"
    BY <1>2, <1>15, TicketRecord
  <1>17. IsLate(y)
    BY DEF IsLate
  <1> HIDE DEF x, y
  <1>18. First1("server", g) = First1("server", e)
    BY DEF First1
  <1>19. Grows("server", e, g, x, y)
    BY <1>2, <1>4, <1>16, <1>18 DEF Grows
  <1>20. ~Past(g)
    BY DEF Past
  <1>21. /\ Fit("server", e) /\ Said("server", e) = SaidAt("server", n) /\ HeardTo("server", e) = HeardAt("server", n)
    BY <1>1, <1>2, <1>7, FitPlace DEF Ends
  <1>22. /\ Fit("server", g) /\ Said("server", g) = SaidAt("server", n + 1)
         /\ HeardTo("server", g) = HeardAt("server", n + 1)
    BY <1>2, <1>4, <1>7, <1>20, FitPlace DEF Ends
  <1>23. SaidAt("server", n + 1) = SaidAt("server", n) /\ HeardAt("server", n + 1) = HeardAt("server", n)
    BY <1>2, <1>3, <1>6, IdleSame DEF Ends, Setting
  <1>24. SaidAt("server", n) = 13 /\ LastOwn("server") = 13
    BY <1>2, <1>3 DEF SaidAt, LastOwn
  <1>25. LateFits("server", a, Said("server", e))
    BY <1>21, <1>24 DEF LateFits
  <1>26. g.sent = e.sent /\ g.got = e.got
    BY DEF Aux
  <1>27. x.type # "data" /\ Said("server", g) = Said("server", e) /\ HeardTo("server", g) = HeardTo("server", e)
    BY <1>16, <1>21, <1>22, <1>23
  <1>28. Adding("server", e, g, x, y, a)
    BY <1>16, <1>17, <1>19, <1>25, <1>26, <1>27 DEF Adding
  <1>29. Peer("server") = "client" /\ "server" \in Ends
    BY DEF Peer, Ends
  <1>30. Talk("server", g, o)
    BY <1>2, <1>21, <1>22, <1>28, <1>29, TalkLate
  <1> QED BY <1>3, <1>14, <1>30

-----------------------------------------------------------------------------
(* The first call of a send step.                                            *)

\* A hello goes to the next place.
LEMMA HelloPlace ==
  ASSUME NEW e, NEW g, NEW o, Ready("client", e, o), e.prog = "start", e.pc = 1, ~e.again,
         g.prog = "start", g.pc = 1, g.again = TRUE, Spoke("client", e, g, "ClientHello")
  PROVE  Place(g) = Place(e) + 1 /\ Place(e) \in {1, 11} /\ (Place(e) = 11 => mode.hrr)
  <1>1. /\ Retried(e) => mode.hrr /\ Place(e) = Reach(e) + 10
        /\ ~Retried(e) => Place(e) = Reach(e)
        /\ Stands("client", e, Place(e))
    BY StartClient DEF Ready
  <1>2. Reach(e) = 1 /\ Reach(g) = 2
    BY DEF Reach
  <1>3. g.tr = Append(e.tr, Greeting)
    BY DEF Spoke, Unhashed, Greeting
  <1>4. IsSeq(e.tr)
    <2>1. ~Past(e)
      BY DEF Past
    <2> QED BY <2>1 DEF Ready, Local, Core, TranscriptOK
  <1>5. CASE Retried(e)
    <2>1. e.tr # <<>> /\ e.tr[1] = Synthetic
      BY <1>5 DEF Retried
    <2>2. Len(e.tr) \in Nat /\ Len(e.tr) >= 1 /\ Len(g.tr) = Len(e.tr) + 1 /\ g.tr[1] = e.tr[1]
      BY <1>3, <1>4, <2>1, ListAppend, ListTail
    <2>3. g.tr # <<>>
      BY <2>2
    <2>4. Retried(g)
      BY <2>1, <2>2, <2>3 DEF Retried
    <2> QED BY <1>1, <1>2, <1>5, <2>4 DEF Place
  <1>6. CASE ~Retried(e)
    <2>1. Place(e) = 1
      BY <1>1, <1>2, <1>6
    <2>2. SecretsAt("client", e, 1)
      BY <1>1, <2>1, StandsParts
    <2>3. e.tr = <<>>
      <3>1. SaidAt("client", 1) = 0 /\ HeardAt("client", 1) = 0
        BY DEF SaidAt, HeardAt
      <3>2. ~Forgets("client", 1)
        BY DEF Forgets
      <3>3. e.tr = Tr(Later(SaidAt("client", 1), HeardAt("client", 1)))
        BY <2>2, <3>2 DEF SecretsAt
      <3>4. Later(0, 0) = 0
        BY DEF Later
      <3> QED BY <3>1, <3>3, <3>4, TrEarly
    <2>4. g.tr = <<Greeting>>
      BY <1>3, <2>3
    <2>5. ~Retried(g)
      BY <2>4, Synth DEF Retried
    <2> QED BY <1>2, <2>1, <2>5 DEF Place
  <1> QED BY <1>5, <1>6

\* The client's hellos.
LEMMA HelloOK ==
  ASSUME NEW e, NEW o, Ready("client", e, o), Local("server", o), e.prog = "start", e.pc = 1, ~e.again
  PROVE  OK("client", [Flush(Compose("client", e, "ClientHello")) EXCEPT !.again = TRUE], o)
  <1> DEFINE g == [Flush(Compose("client", e, "ClientHello")) EXCEPT !.again = TRUE]
             n == Place(e)
  <1>1. /\ g.pc = e.pc /\ g.prog = e.prog /\ g.again = TRUE /\ Spoke("client", e, g, "ClientHello")
    BY Flushed DEF Ready, Ends
  <1>2. g.pc = 1 /\ g.prog = "start"
    BY <1>1
  <1> HIDE DEF g
  <1>3. Place(g) = n + 1 /\ n \in {1, 11} /\ (n = 11 => mode.hrr)
    BY <1>1, <1>2, HelloPlace
  <1>4. Stands("client", e, n)
    BY StartClient DEF Ready
  <1>5. SpeakAt("client", n, "ClientHello")
    <2>1. Three /\ (Version # "13" => ~mode.hrr)
      BY DEF Ready, Setting
    <2> HIDE DEF n
    <2> QED BY <1>3, <2>1 DEF SpeakAt, Three
  <1>6. ~Past(e)
    BY DEF Past
  <1>7. n \in Nat /\ ~(n >= 12) /\ n < 12
    BY <1>3
  <1>8. Sending("client", e, n, "ClientHello")
    BY <1>4, <1>5, <1>6, <1>7 DEF Sending
  <1>9. Peer("client") = "server" /\ "client" \in Ends /\ e.pc \in Nat
    BY DEF Peer, Ends
  <1> HIDE DEF n
  <1> QED BY <1>3, <1>8, <1>9, FlushOK DEF g

\* The tickets in the server's handshake.
LEMMA TicketOK ==
  ASSUME NEW e, NEW o, Ready("server", e, o), e.prog = "13", ~e.again, e.pc \in {17, 23}
  PROVE  LET f == Compose("server", e, "NewSessionTicket")
         IN  /\ e.pc = 17 => OK("server", [Flush(f) EXCEPT !.again = TRUE], o)
             /\ e.pc = 23 => \A n \in 0..Len(Flush(f).out) :
                    Local("server", Advance("server", Takes(Flush(f), n))) =>
                        OK("server", Advance("server", Takes(Flush(f), n)), o)
  <1> DEFINE f == Compose("server", e, "NewSessionTicket")
             g == [Flush(f) EXCEPT !.again = TRUE]
             u == Append(Unread(e), Sealed(e, Entry("server", e, "NewSessionTicket")))
  <1>1. Setting /\ Local("server", e) /\ e.err = "none" /\ Version = "13" /\ Fit("client", o)
    BY EnginePlace DEF Ready, HereOK, Peer, Ends
  <1>2. /\ DOMAIN f = Fields /\ SameControl(e, f) /\ f.err = e.err /\ Spoke("server", e, f, "NewSessionTicket") /\ Aux(e, f)
        /\ Unread(f) = u /\ Buffers(f)
    BY <1>1, Composed DEF Ends
  <1>3. ASSUME e.pc = 17 PROVE OK("server", g, o)
    <2>1. /\ g.pc = e.pc /\ g.prog = e.prog /\ g.again = TRUE /\ g.err = e.err /\ g.q = <<>>
          /\ Spoke("server", e, g, "NewSessionTicket") /\ Aux(e, g)
          /\ Unread(g) = u /\ Buffers(g)
      BY <1>1, Flushed DEF Ends
    <2> HIDE DEF g
    <2>2. g.prog = "13" /\ Place(g) = e.pc + 11
      BY <1>3, <2>1 DEF Place, Reach
    <2>3. Stands("server", g, e.pc + 11) /\ Talk("server", g, o)
      BY <2>1, <2>2, TicketMoves
    <2>4. ~Past(g) /\ g.err = "none"
      BY <1>1, <2>1, <2>2 DEF Past
    <2> QED BY <2>2, <2>3, <2>4 DEF OK, HereOK
  <1> HIDE DEF f, u
  <1>4. ASSUME e.pc = 23, NEW n \in 0..Len(Flush(f).out), Local("server", Advance("server", Takes(Flush(f), n)))
        PROVE  OK("server", Advance("server", Takes(Flush(f), n)), o)
    <2> DEFINE h == Takes(Flush(f), n)
               m == Moved(h)
    <2>1. SameRest(f, h) /\ h.q = <<>> /\ Unread(h) = Unread(f) /\ Buffers(h) /\ Aux(f, h)
      BY <1>2, WrittenOut
    <2>2. Local("server", Advance("server", h))
      BY <1>4
    <2> HIDE DEF h
    <2>3. DOMAIN h = Fields
      BY <2>1 DEF SameRest
    <2>4. /\ DOMAIN m = Fields /\ m.pc = h.pc + 1 /\ m.again = FALSE /\ m.prog = h.prog
          /\ SameEpochs(h, m) /\ SameSecrets(h, m) /\ SameBuffers(h, m)
          /\ m.flags = h.flags /\ m.tickets = h.tickets /\ m.err = h.err
      BY <2>3, MovedFields
    <2>5. Aux(h, m) /\ Unread(m) = Unread(h) /\ Buffers(m)
      BY <2>1, <2>3, AuxMoved, UnreadMoved
    <2> HIDE DEF m
    <2>6. h.pc = 23 /\ h.prog = "13" /\ h.err = "none"
      BY <1>1, <1>2, <1>4, <2>1 DEF SameRest, SameControl
    <2>7. m.pc = 24 /\ m.prog = "13" /\ m.again = FALSE /\ m.q = <<>>
      BY <2>1, <2>4, <2>6 DEF SameBuffers
    <2>8. Aux(e, m) /\ Unread(m) = u
      BY <1>2, <2>1, <2>5, AuxTwice
    <2>9. Spoke("server", e, m, "NewSessionTicket")
      <3>1. /\ m.tr = f.tr /\ m.mark = f.mark /\ m.psk = f.psk /\ m.saved = f.saved /\ m.rms = f.rms
            /\ m.flags = f.flags /\ m.tickets = f.tickets
        BY <2>1, <2>4 DEF SameRest, SameSecrets
      <3>2. SameEpochs(f, m)
        BY <2>1, <2>4 DEF SameRest, SameEpochs
      <3>3. SameEpochs(e, m)
        BY <1>2, <3>2 DEF Spoke, SameEpochs
      <3>4. m.prog = e.prog
        BY <2>7
      <3> QED BY <1>2, <3>1, <3>3, <3>4 DEF Spoke
    <2>10. Place(m) = e.pc + 11
      BY <1>4, <2>7 DEF Place, Reach
    <2>11. Stands("server", m, e.pc + 11) /\ Talk("server", m, o)
      BY <2>5, <2>7, <2>8, <2>9, <2>10, TicketMoves DEF u
    <2>12. e.pc + 11 = h.pc + 11 /\ h.pc \in Nat /\ h.prog = Version
      BY <1>1, <1>4, <2>6
    <2>13. Stands("server", Moved(h), h.pc + 11) /\ Talk("server", Moved(h), o)
      BY <2>11, <2>12 DEF m
    <2>14. Peer("server") = "client" /\ "server" \in Ends
      BY DEF Peer, Ends
    <2>15. OK("server", Advance("server", h), o)
      BY <1>1, <2>1, <2>2, <2>3, <2>6, <2>12, <2>13, <2>14, AdvanceOK
    <2> QED BY <2>15 DEF h
  <1> HIDE DEF g
  <1>5. /\ e.pc = 17 => OK("server", g, o)
        /\ e.pc = 23 => \A n \in 0..Len(Flush(f).out) :
                    Local("server", Advance("server", Takes(Flush(f), n))) =>
                        OK("server", Advance("server", Takes(Flush(f), n)), o)
    BY <1>3, <1>4
  <1> QED BY <1>5 DEF g, f

\* The other messages of an engine.
LEMMA EngineSends ==
  ASSUME NEW p \in Ends, NEW e, NEW o, Ready(p, e, o), Local(Peer(p), o), e.prog \in {"13", "12", "12r"}, ~e.again,
         At(p, e).op = "send", ~Skips(p, e, At(p, e)), ~(p = "server" /\ e.prog = "13" /\ e.pc \in {17, 23})
  PROVE  LET f == Compose(p, e, At(p, e).msg)
         IN  /\ At(p, e).state # 115
             /\ OK(p, IF At(p, e).msg \in Cached(e) THEN Advance(p, f) ELSE [Flush(f) EXCEPT !.again = TRUE], o)
  <1> DEFINE msg == At(p, e).msg
             f == Compose(p, e, msg)
             g == [Flush(f) EXCEPT !.again = TRUE]
             n == e.pc + 10
  <1>1. Sending(p, e, n, msg)
    BY SendWhere
  <1>2. Setting /\ Versions /\ Local(p, e) /\ Running(e)
    BY DEF Ready, Setting, HereOK, Running
  <1>3. At(p, e).state # 115
    BY <1>2, SendPositions
  <1>4. msg \in Cached(e) => Local(p, Advance(p, f))
    BY <1>2, <1>3, SendGood DEF Good
  <1>5. ASSUME msg \in Cached(e) PROVE OK(p, Advance(p, f), o)
    BY <1>1, <1>4, <1>5, KeptOK
  <1>6. /\ g.pc = e.pc /\ g.prog = e.prog /\ g.again = TRUE
    BY <1>2, Flushed
  <1>7. e.pc \in Nat
    BY <1>2, EnginePlace DEF Ready
  <1>8. Place(g) = n + 1
    <2> HIDE DEF g
    <2>1. g.prog # "start"
      BY <1>6
    <2> QED BY <1>6, <1>7, <2>1 DEF Place, Reach
  <1>9. OK(p, g, o)
    BY <1>1, <1>7, <1>8, FlushOK
  <1> HIDE DEF f, g, msg
  <1>10. OK(p, IF msg \in Cached(e) THEN Advance(p, f) ELSE g, o)
    BY <1>5, <1>9
  <1> QED BY <1>3, <1>10 DEF f, g, msg

\* The first call of a send step in the initial handshake.
LEMMA SendOK ==
  ASSUME NEW p \in Ends, NEW e, NEW o, Ready(p, e, o), Local(Peer(p), o), ~Past(e), ~e.again,
         At(p, e).op = "send", ~Skips(p, e, At(p, e))
  PROVE  LET f == Compose(p, e, At(p, e).msg)
         IN  /\ At(p, e).state = 115 => \A n \in 0..Len(Flush(f).out) : OK(p, Advance(p, Takes(Flush(f), n)), o)
             /\ At(p, e).state # 115 =>
                   OK(p, IF At(p, e).msg \in Cached(e) THEN Advance(p, f) ELSE [Flush(f) EXCEPT !.again = TRUE], o)
  <1>1. Setting /\ Versions /\ Local(p, e) /\ Running(e) /\ e.prog # "none"
    BY DEF Ready, Setting, HereOK, Running, Past
  <1>2. CASE e.prog = "start"
    <2>1. p = "client" /\ e.pc = 1 /\ At(p, e).msg = "ClientHello"
      BY <1>1, <1>2, SendPositions DEF Ends
    <2>2. At(p, e).state # 115
      BY <1>1, <1>2, SendPositions
    <2>3. At(p, e).msg \notin Cached(e)
      BY <1>2, <2>1 DEF Cached
    <2>4. Local("server", o)
      BY <2>1 DEF Peer
    <2>5. OK("client", [Flush(Compose("client", e, "ClientHello")) EXCEPT !.again = TRUE], o)
      BY <1>2, <2>1, <2>4, HelloOK
    <2> QED BY <2>1, <2>2, <2>3, <2>5
  <1>3. CASE p = "server" /\ e.prog = "13" /\ e.pc \in {17, 23}
    <2> DEFINE f == Compose("server", e, "NewSessionTicket")
    <2>1. At(p, e).msg = "NewSessionTicket" /\ (e.pc = 17 => At(p, e).state = 109) /\ (e.pc = 23 => At(p, e).state = 115)
      BY <1>3, Server13Steps DEF S
    <2>2. At(p, e).msg \notin Cached(e)
      BY <1>3, <2>1 DEF Cached
    <2>3. /\ e.pc = 17 => OK("server", [Flush(f) EXCEPT !.again = TRUE], o)
          /\ e.pc = 23 => \A n \in 0..Len(Flush(f).out) :
                    Local("server", Advance("server", Takes(Flush(f), n))) =>
                        OK("server", Advance("server", Takes(Flush(f), n)), o)
      BY <1>3, TicketOK
    <2>4. At(p, e).state = 115 =>
              \A n \in 0..Len(Flush(f).out) : Local(p, Advance(p, Takes(Flush(f), n)))
      BY <1>1, <1>3, <2>1, SendGood, ZenonT(40) DEF Good
    <2> HIDE DEF f
    <2>5. CASE e.pc = 17
      <3>1. At(p, e).state # 115 /\ OK("server", [Flush(f) EXCEPT !.again = TRUE], o)
        BY <2>1, <2>3, <2>5
      <3> QED BY <1>3, <2>1, <2>2, <3>1 DEF f
    <2>6. CASE e.pc = 23
      <3>1. At(p, e).state = 115 /\ \A n \in 0..Len(Flush(f).out) : OK("server", Advance("server", Takes(Flush(f), n)), o)
        BY <1>3, <2>1, <2>3, <2>4, <2>6
      <3> QED BY <1>3, <2>1, <3>1 DEF f
    <2> QED BY <1>3, <2>5, <2>6
  <1>4. CASE e.prog \in {"13", "12", "12r"} /\ ~(p = "server" /\ e.prog = "13" /\ e.pc \in {17, 23})
    <2> DEFINE f == Compose(p, e, At(p, e).msg)
    <2>1. /\ At(p, e).state # 115
          /\ OK(p, IF At(p, e).msg \in Cached(e) THEN Advance(p, f) ELSE [Flush(f) EXCEPT !.again = TRUE], o)
      BY <1>4, EngineSends
    <2> QED BY <2>1
  <1> QED BY <1>2, <1>3, <1>4 DEF Past

-----------------------------------------------------------------------------
(* What is common to all states.                                             *)

\* The steps of the engines after the handshake.
LEMMA LaterReach ==
  ASSUME NEW p \in Ends, NEW e, Versions, Local(p, e), e.prog = "reauth"
  PROVE  /\ e.pc \in Nat /\ Reach(e) \in Nat
         /\ p = "client" => e.pc \in 1..3 /\ Reach(e) \in 1..4
         /\ p = "server" => e.pc \in 1..4 /\ Reach(e) \in 1..4 /\ (e.again => e.pc = 1)
  <1>1. e.pc \in Nat /\ (p = "client" => e.pc \in 1..3) /\ (p = "server" => e.pc \in 1..4)
    BY Due
  <1>2. e.again => At(p, e).op = "send"
    BY DEF Local, At
  <1>3. ASSUME p = "server", e.again PROVE e.pc = 1
    BY <1>1, <1>2, <1>3, LaterSteps DEF S
  <1>4. p = "client" => Reach(e) \in 1..4
    BY <1>1 DEF Reach
  <1>5. p = "server" => Reach(e) \in 1..4
    BY <1>1, <1>3 DEF Reach
  <1>6. Reach(e) \in Nat
    BY <1>1 DEF Reach
  <1> QED BY <1>1, <1>3, <1>4, <1>5, <1>6

\* An endpoint is in range.
LEMMA FitOf ==
  ASSUME NEW p \in Ends, NEW e, Setting, Local(p, e), HereOK(p, e)
  PROVE  Fit(p, e)
  <1>1. Buffers(e) /\ Versions
    BY DEF Local, Core, ItemsOK, Buffers, Setting
  <1>2. CASE ~Past(e)
    <2>1. Place(e) \in Places(p)
      <3>1. CASE e.prog = "start" /\ p = "client"
        BY <3>1, StartClient
      <3>2. CASE e.prog = "start" /\ p = "server"
        <4>1. Place(e) = 1
          BY <3>2, StartServer
        <4> QED BY <3>2, <4>1 DEF Places
      <3>3. CASE e.prog \in {"13", "12", "12r"}
        BY <3>3, EnginePlace
      <3> QED BY <1>2, <3>1, <3>2, <3>3 DEF Past, Ends
    <2> QED BY <1>1, <1>2, <2>1, FitPlace
  <1>3. CASE Past(e)
    <2>1. e.prog = "reauth" => Reach(e) \in Nat /\ (p = "client" => Reach(e) \in 1..4) /\ (p = "server" => Reach(e) \in 1..4)
      BY <1>1, LaterReach
    <2>2. AuthSaid(p, e) \in 0..104
      BY <2>1 DEF AuthSaid, Ends
    <2>3. AuthHeard(p, e) \in 0..104
      BY <2>1 DEF AuthHeard, Ends
    <2> QED BY <1>1, <1>3, <2>2, <2>3 DEF Fit, Ranged, Said, HeardTo
  <1> QED BY <1>2, <1>3

\* What places depend on.
Alike(e, g) == SameControl(e, g) /\ g.tr = e.tr /\ g.auths = e.auths

\* Endpoints that agree in control and transcript are equally far.
LEMMA AlikeSaid ==
  ASSUME NEW p, NEW e, NEW g, Alike(e, g)
  PROVE  /\ Past(g) <=> Past(e)
         /\ Place(g) = Place(e) /\ Said(p, g) = Said(p, e) /\ HeardTo(p, g) = HeardTo(p, e)
         /\ First1(p, g) = First1(p, e) /\ Reach(g) = Reach(e)
  <1>1. g.prog = e.prog /\ g.pc = e.pc /\ (g.again <=> e.again) /\ g.tr = e.tr /\ g.auths = e.auths
    BY DEF Alike, SameControl
  <1>2. Past(g) <=> Past(e)
    BY <1>1 DEF Past
  <1>3. Reach(g) = Reach(e)
    BY <1>1 DEF Reach
  <1>4. Retried(g) <=> Retried(e)
    BY <1>1 DEF Retried
  <1>5. Place(g) = Place(e)
    BY <1>1, <1>3, <1>4 DEF Place
  <1>6. AuthSaid(p, g) = AuthSaid(p, e) /\ AuthHeard(p, g) = AuthHeard(p, e)
    BY <1>1, <1>3 DEF AuthSaid, AuthHeard
  <1>7. First1(p, g) = First1(p, e)
    BY <1>1, <1>5 DEF First1
  <1> QED BY <1>2, <1>3, <1>5, <1>6, <1>7 DEF Said, HeardTo

\* Nothing is said, heard, sent or read.
LEMMA SameTalk ==
  ASSUME NEW p \in Ends, NEW e, NEW g, NEW o, Setting, Fit(p, e), Fit(Peer(p), o), Talk(p, e, o), Alike(e, g),
         Buffers(g), Unread(g) = Unread(e), g.sent = e.sent, g.got = e.got
  PROVE  Talk(p, g, o)
  <1>1. Said(p, g) = Said(p, e) /\ HeardTo(p, g) = HeardTo(p, e) /\ First1(p, g) = First1(p, e)
    BY AlikeSaid
  <1>2. Slots(p, g) = Slots(p, e)
    BY <1>1, SameSlots
  <1>3. Said(p, e) \in 0..104 /\ HeardTo(p, e) \in 0..104
    BY DEF Fit, Ranged
  <1>4. Quiet(p, Said(p, e), Said(p, e)) /\ Quiet(Peer(p), HeardTo(p, e), HeardTo(p, e))
    BY <1>3, QuietHere
  <1>5. StillPending(Peer(p), HeardTo(p, e), HeardTo(p, e))
    BY <1>3, QuietHere
  <1>6. Stays8(p, Said(p, e), Said(p, e))
    BY DEF Stays8
  <1>7. Passing(p, e, g)
    BY <1>1, <1>2, <1>3, <1>4, <1>5, <1>6 DEF Passing
  <1>8. Fit(p, g)
    BY <1>1 DEF Fit, Ranged
  <1> QED BY <1>7, <1>8, TalkPass

\* Two states that differ in their records and in what the application sees.
Like(e, g) == /\ SameControl(e, g) /\ SameEpochs(e, g) /\ SameSecrets(e, g) /\ g.flags = e.flags /\ g.err = e.err
              /\ g.q = e.q /\ g.done = e.done /\ g.started = e.started /\ g.auths = e.auths

\* What holds of an endpoint does not depend on them.
LEMMA HereLike ==
  ASSUME NEW p, NEW e, NEW g, HereOK(p, e), Like(e, g)
  PROVE  HereOK(p, g) /\ Alike(e, g)
  <1>1. /\ g.prog = e.prog /\ g.pc = e.pc /\ (g.again <=> e.again) /\ g.tr = e.tr /\ g.auths = e.auths
        /\ SameControl(e, g) /\ g.q = e.q
    BY DEF Like, SameControl, SameSecrets
  <1>2. Alike(e, g)
    BY <1>1 DEF Alike
  <1>3. (Past(g) <=> Past(e)) /\ Place(g) = Place(e) /\ Reach(g) = Reach(e)
    BY <1>2, AlikeSaid
  <1>4. /\ SameEpochs(e, g) /\ g.flags = e.flags /\ g.mark = e.mark /\ g.psk = e.psk /\ g.saved = e.saved
        /\ g.err = e.err /\ g.done = e.done /\ g.started = e.started
    BY DEF Like, SameSecrets
  <1>5. ASSUME ~Past(e) PROVE Stands(p, g, Place(e))
    <2> DEFINE n == Place(e)
    <2>1. Stands(p, e, n)
      BY <1>5 DEF HereOK
    <2> HIDE DEF n
    <2>2. Notes(p, e, n) /\ QueueOK(p, e) /\ KeysAt(p, e, n) /\ FlagsAt(p, e, n) /\ SecretsAt(p, e, n)
      BY <2>1, StandsParts
    <2>3. Notes(p, g, n)
      BY <1>1, <1>4, <2>2 DEF Notes
    <2>4. QueueOK(p, g)
      BY <1>1, <1>4, <2>2 DEF QueueOK, SameEpochs
    <2>5. KeysAt(p, g, n)
      BY <1>4, <2>2 DEF KeysAt, SameEpochs
    <2>6. FlagsAt(p, g, n)
      <3>1. \A t \in Told8 : Has(g, t) <=> Has(e, t)
        BY <1>4 DEF Has
      <3> QED BY <2>2, <3>1, FlagsLike
    <2>7. SecretsAt(p, g, n)
      BY <1>1, <1>4, <2>2 DEF SecretsAt
    <2>8. Stands(p, g, n)
      BY <2>3, <2>4, <2>5, <2>6, <2>7, StandsParts
    <2> QED BY <2>8 DEF n
  <1>6. ASSUME Past(e) PROVE Rested(p, g)
    <2>1. Rested(p, e)
      BY <1>6 DEF HereOK
    <2>2. Version = "13" => Rests13(p, e)
      BY <2>1 DEF Rested
    <2>3. AuthSaid(p, g) = AuthSaid(p, e) /\ AuthHeard(p, g) = AuthHeard(p, e)
      BY <1>1, <1>3 DEF AuthSaid, AuthHeard
    <2>4. Version = "13" => Rests13(p, g)
      BY <1>1, <1>3, <1>4, <2>2, <2>3 DEF Rests13, Has
    <2> QED BY <1>1, <1>4, <2>1, <2>4 DEF Rested, SameEpochs
  <1> QED BY <1>2, <1>3, <1>4, <1>5, <1>6 DEF HereOK

\* What holds of an endpoint does not depend on its records.
LEMMA HereAlike ==
  ASSUME NEW p, NEW e, NEW g, HereOK(p, e), SameRest(e, g), Aux(e, g), g.q = e.q
  PROVE  HereOK(p, g) /\ Alike(e, g)
  <1>1. Like(e, g)
    BY DEF Like, SameRest, Aux
  <1> QED BY <1>1, HereLike

\* Records leave record_send_buffer.
LEMMA TakesOK ==
  ASSUME NEW p \in Ends, NEW e, NEW o, Ready(p, e, o), e.out # <<>>
  PROVE  OK(p, Takes(e, 1), o)
  <1> DEFINE g == Takes(e, 1)
  <1>1. Setting /\ Local(p, e) /\ HereOK(p, e) /\ Talk(p, e, o) /\ Fit(Peer(p), o)
    BY DEF Ready
  <1>2. DOMAIN e = Fields /\ Buffers(e) /\ IsSeq(e.out) /\ IsSeq(e.wire)
    BY <1>1 DEF Local, Core, Control, ItemsOK, Buffers
  <1>3. 1 \in 0..Len(e.out)
    BY <1>2, ListTail
  <1>4. SameRest(e, g) /\ g.q = e.q
    BY <1>2, <1>3, TakesFields
  <1>5. Aux(e, g) /\ Unread(g) = Unread(e) /\ Buffers(g)
    BY <1>2, <1>3, AuxTakes, UnreadTakes
  <1> HIDE DEF g
  <1>6. HereOK(p, g) /\ Alike(e, g)
    BY <1>1, <1>4, <1>5, HereAlike
  <1>7. Fit(p, e)
    BY <1>1, FitOf
  <1>8. g.sent = e.sent /\ g.got = e.got
    BY <1>5 DEF Aux
  <1>9. Talk(p, g, o)
    BY <1>1, <1>5, <1>6, <1>7, <1>8, SameTalk
  <1>10. OK(p, g, o)
    BY <1>6, <1>9 DEF OK
  <1> QED BY <1>10 DEF g
=============================================================================
