--------------------------- MODULE Tickets_proofs ---------------------------
(* Proofs about Tickets, for every period, window, rate of the clock and       *)
(* number of sessions, tickets and hellos.                                     *)
EXTENDS Tickets, Integers, FiniteSetTheorems, TLAPS

\* A ticket carries the time of the full handshake it goes back to, and a key
\* that is derived is that of the period in which it was made; n is the time.
GoodTicket(t, n) ==
    /\ t.ts = t.origin
    /\ t.created <= n
    /\ t.origin <= Seconds(t.created)
    /\ t.key # Underived => t.key = T(t.created)

\* A session that got its hello knows the time of the full handshake; its key
\* is that of the last rotation.
GoodSession(e, n) ==
    /\ e.st \in {"new", "enabled"} => e.resumed = FALSE
    /\ e.st = "new" => e.key = Underived
    /\ e.st \in {"hello", "done"} => SessionTime(e) = e.origin
    /\ e.origin <= Seconds(n)
    /\ e.key # Underived => e.rotated = TRUE /\ e.key = e.last
    /\ e.key = Underived => e.rotated = FALSE

GoodHeld(c, n) == GoodTicket(c.t, n) /\ c.t.created <= c.arrival /\ c.arrival <= n

\* The client states an age within the lifetime of the ticket; k is the number
\* of hellos so far.
GoodHello(h, n, k) == /\ GoodTicket(h.t, n)
                      /\ ~Stale(h)
                      /\ h.t.created + h.age <= h.sent
                      /\ h.sent <= n
                      /\ h.id <= k

Tracked == /\ Boot <= now
           /\ \A s \in Sessions : GoodSession(srv[s], now)
           /\ \A t \in mail : GoodTicket(t, now)
           /\ \A c \in held : GoodHeld(c, now)
           /\ \A h \in hellos : GoodHello(h, now, Cardinality(hellos))

Distinct == /\ IsFiniteSet(hellos)
            /\ \A h, g \in hellos : h.id = g.id => h = g

\* An entry belongs to the recording that began at b or an earlier one, lasts
\* for the window in whole seconds, and its hello's ticket is older than every
\* later recording.
GoodEntry(x, b, H) ==
    /\ x.key[1] <= b
    /\ x.key[2] <= Cardinality(H)
    /\ x.exp = Seconds(x.at) + Window \div TPS
    /\ \A h \in H : h.id = x.key[2] =>
          /\ h.t.created <= x.key[1] + Window
          /\ x.key[1] < b => h.t.created < b

Recording == start <= now /\ \A x \in db : GoodEntry(x, start, hellos)

IInv == TypeOK /\ Tracked /\ Distinct /\ Recording

-----------------------------------------------------------------------------
(* Division.                                                                 *)

\* A quotient of natural numbers is one.
LEMMA DivNat == ASSUME NEW a \in Nat, NEW n \in Nat \ {0} PROVE a \div n \in Nat
OBVIOUS

\* What a quotient is.
LEMMA DivDef == ASSUME NEW a \in Nat, NEW n \in Nat \ {0}
                PROVE  n * (a \div n) <= a /\ a < n * (a \div n) + n
OBVIOUS

\* Adding k times the divisor adds k to the quotient.
LEMMA DivShift ==
    ASSUME NEW a \in Nat, NEW b \in Nat, NEW k \in Nat, NEW n \in Nat \ {0}, a <= b + n * k
    PROVE  a \div n <= (b \div n) + k
<1> DEFINE p == a \div n
           q == b \div n
<1>1. p \in Nat /\ q \in Nat
  BY DivNat
<1>2. n * p <= a /\ b < n * q + n
  BY DivDef
<1>3. n * p < n * q + n + n * k
  BY <1>1, <1>2
<1>4. n * p < n * (q + 1 + k)
  BY <1>1, <1>3
<1>5. SUFFICES ASSUME ~(p <= q + k) PROVE FALSE
  OBVIOUS
<1>6. p >= q + k + 1
  BY <1>1, <1>5
<1>7. PICK d \in Nat : p = q + k + 1 + d
  BY <1>1, <1>6
<1>8. n * p = n * (q + k + 1) + n * d
  BY <1>1, <1>7
<1>9. n * d \in Nat /\ n * p \in Nat /\ n * (q + k + 1) \in Nat
  BY <1>1
<1> QED BY <1>1, <1>4, <1>8, <1>9

\* gnutls_time is a natural number ...
LEMMA SecondsNat == ASSUME NEW t \in Nat PROVE Seconds(t) \in Nat
BY DivNat, TicketsAssumption DEF Seconds

\* ... that grows with gnutls_gettime.
LEMMA SecondsMono == ASSUME NEW a \in Nat, NEW b \in Nat, a <= b PROVE Seconds(a) <= Seconds(b)
<1>1. a <= b + TPS * 0
  BY TicketsAssumption
<1>2. a \div TPS <= (b \div TPS) + 0
  BY <1>1, DivShift, TicketsAssumption
<1>3. b \div TPS \in Nat
  BY DivNat, TicketsAssumption
<1> QED BY <1>2, <1>3 DEF Seconds

\* When the window in whole seconds has passed by gnutls_time, less than a
\* second of it may be left by gnutls_gettime.
LEMMA WindowPassed ==
    ASSUME NEW a \in Nat, NEW b \in Nat, Seconds(a) + Window \div TPS <= Seconds(b)
    PROVE  b - a > Window - (Window % TPS) - TPS
<1> DEFINE p == a \div TPS
           q == b \div TPS
           w == Window \div TPS
<1>1. p \in Nat /\ q \in Nat /\ w \in Nat /\ p + w <= q /\ TPS \in Nat \ {0} /\ Window \in Nat
  BY DivNat, TicketsAssumption DEF Seconds
<1>2. TPS * q <= b /\ a < TPS * p + TPS
  BY DivDef, TicketsAssumption
<1>3. Window - (Window % TPS) = TPS * w
  BY TicketsAssumption
<1>4. Window % TPS \in Nat
  BY TicketsAssumption
<1> HIDE DEF p, q, w
<1>5. PICK d \in Nat : q = p + w + d
  BY <1>1
<1>6. TPS * q = TPS * p + TPS * w + TPS * d
  BY <1>1, <1>5
<1>7. TPS * d \in Nat /\ TPS * p \in Nat /\ TPS * w \in Nat /\ TPS * q \in Nat
  BY <1>1, <1>5
<1> QED BY <1>1, <1>2, <1>3, <1>4, <1>6, <1>7

\* The length of a rotation period.
Period == Expire * STEK_ROTATION_PERIOD_PRODUCT

\* A period is longer than the expiry time.
LEMMA PeriodNat == Period \in Nat \ {0} /\ Expire <= Period
BY TicketsAssumption DEF Period, STEK_ROTATION_PERIOD_PRODUCT

\* The number of a period is a natural number ...
LEMMA TNat == ASSUME NEW t \in Nat PROVE T(t) \in Nat
BY SecondsNat, DivNat, PeriodNat DEF T, Period

\* ... that grows with time.
LEMMA TMono == ASSUME NEW a \in Nat, NEW b \in Nat, a <= b PROVE T(a) <= T(b)
<1>1. Seconds(a) \in Nat /\ Seconds(b) \in Nat /\ Seconds(a) <= Seconds(b)
  BY SecondsNat, SecondsMono
<1>2. Seconds(a) <= Seconds(b) + Period * 0
  BY <1>1, PeriodNat
<1>3. Seconds(a) \div Period <= (Seconds(b) \div Period) + 0
  BY <1>1, <1>2, DivShift, PeriodNat
<1>4. Seconds(b) \div Period \in Nat
  BY <1>1, DivNat, PeriodNat
<1> QED BY <1>3, <1>4 DEF T, Period

\* Within the expiry time the period number grows by at most one.
LEMMA TStep ==
    ASSUME NEW a \in Nat, NEW b \in Nat, Seconds(b) <= Seconds(a) + Expire
    PROVE  T(b) <= T(a) + 1
<1>1. Seconds(a) \in Nat /\ Seconds(b) \in Nat
  BY SecondsNat
<1>2. Seconds(b) <= Seconds(a) + Period * 1
  BY <1>1, PeriodNat, TicketsAssumption
<1>3. Seconds(b) \div Period <= (Seconds(a) \div Period) + 1
  BY <1>1, <1>2, DivShift, PeriodNat
<1> QED BY <1>3 DEF T, Period

\* From the start of the server on, the period is never 0.
LEMMA TNow == ASSUME now \in Nat, Boot <= now PROVE T(now) \in Nat \ {0}
<1>1. Boot \in Nat
  BY TicketsAssumption
<1>2. T(now) \in Nat /\ T(Boot) \in Nat /\ T(Boot) <= T(now)
  BY <1>1, TNat, TMono
<1> QED BY <1>2, BootAssumption

-----------------------------------------------------------------------------
(* Rotation and tickets.                                                     *)

\* What rotate does to a session: the key is current afterwards, or underived.
LEMMA RotateFacts ==
    ASSUME NEW e \in SessionType, now \in Nat, Boot <= now,
           e.key # Underived => e.rotated = TRUE /\ e.key = e.last,
           e.key = Underived => e.rotated = FALSE
    PROVE  /\ Rotate(e) \in SessionType
           /\ Rotate(e).last = T(now)
           /\ Rotate(e).key # Underived => Rotate(e).rotated = TRUE /\ Rotate(e).key = T(now)
           /\ Rotate(e).key = Underived => Rotate(e).rotated = FALSE
           /\ Rotate(e).st = e.st /\ Rotate(e).vers = e.vers /\ Rotate(e).resumed = e.resumed
           /\ Rotate(e).ts = e.ts /\ Rotate(e).rts = e.rts /\ Rotate(e).origin = e.origin
<1>1. T(now) \in Nat \ {0}
  BY TNow
<1>2. CASE T(now) = e.last
  <2>1. Rotate(e) = e
    BY <1>2 DEF Rotate
  <2> QED BY <2>1, <1>2
<1>3. CASE T(now) # e.last
  <2>1. Rotate(e) = [e EXCEPT !.last = T(now), !.key = T(now), !.rotated = TRUE]
    BY <1>1, <1>3 DEF Rotate
  <2> DEFINE r == Rotate(e)
  <2>2. /\ r.last = T(now) /\ r.key = T(now) /\ r.rotated = TRUE
        /\ r.st = e.st /\ r.vers = e.vers /\ r.resumed = e.resumed
        /\ r.ts = e.ts /\ r.rts = e.rts /\ r.origin = e.origin
    BY <2>1 DEF SessionType
  <2>3. r \in SessionType
    <3> DEFINE v == T(now)
    <3>1. v \in Nat
      BY <1>1
    <3> HIDE DEF v
    <3>2. [e EXCEPT !.last = v, !.key = v, !.rotated = TRUE] \in SessionType
      BY <3>1 DEF SessionType
    <3> QED BY <2>1, <3>2, Zenon DEF v
  <2>4. T(now) # Underived
    BY <1>1 DEF Underived
  <2> HIDE DEF r
  <2>5. r.key # Underived
    BY <2>2, <2>4, Zenon
  <2> QED BY <2>2, <2>3, <2>5, Zenon DEF r
<1> QED BY <1>2, <1>3

\* Tickets and sessions stay good as time passes.
LEMMA TicketLater ==
    ASSUME NEW t \in TicketType, NEW n \in Nat, NEW m \in Nat, n <= m, GoodTicket(t, n)
    PROVE  GoodTicket(t, m)
BY DEF GoodTicket, TicketType

\* The same for sessions.
LEMMA SessionLater ==
    ASSUME NEW e \in SessionType, NEW n \in Nat, NEW m \in Nat, n <= m, GoodSession(e, n)
    PROVE  GoodSession(e, m)
<1>1. Seconds(n) \in Nat /\ Seconds(m) \in Nat /\ Seconds(n) <= Seconds(m)
  BY SecondsNat, SecondsMono
<1> QED BY <1>1 DEF GoodSession, SessionType

\* A session that starts with a hello, before its ticket is looked at.
LEMMA HelloFacts ==
    ASSUME NEW e \in SessionType, NEW v \in {12, 13}, now \in Nat, Boot <= now,
           GoodSession(e, now), e.st = "enabled"
    PROVE  /\ Hello(e, v) \in SessionType
           /\ GoodSession(Hello(e, v), now)
           /\ Hello(e, v).resumed = FALSE
           /\ Hello(e, v).st = "hello" /\ Hello(e, v).vers = v
<1>1. Seconds(now) \in Nat
  BY SecondsNat
<1>2. Hello(e, v) = [e EXCEPT !.st = "hello", !.vers = v, !.ts = Seconds(now),
                              !.origin = Seconds(now)]
  BY DEF Hello
<1>3. Hello(e, v) \in SessionType
  BY <1>1, <1>2 DEF SessionType
<1>4. e.resumed = FALSE
  BY DEF GoodSession
<1>5. /\ Hello(e, v).resumed = FALSE /\ Hello(e, v).st = "hello" /\ Hello(e, v).vers = v
      /\ Hello(e, v).ts = Seconds(now) /\ Hello(e, v).origin = Seconds(now)
      /\ Hello(e, v).key = e.key /\ Hello(e, v).last = e.last /\ Hello(e, v).rotated = e.rotated
  BY <1>2, <1>4 DEF SessionType
<1>6. GoodSession(Hello(e, v), now)
  BY <1>1, <1>5 DEF GoodSession, SessionTime
<1> QED BY <1>3, <1>5, <1>6

\* An action that rewrites one session and leaves time, tickets, hellos and the
\* recording alone keeps the invariant if the new session is good.
LEMMA PutIInv ==
    ASSUME IInv, NEW s \in Sessions, NEW e \in SessionType, GoodSession(e, now), Put(s, e),
           UNCHANGED <<now, mail, held, hellos, start, db>>
    PROVE  IInv'
<1> USE DEF IInv
<1>1. srv' = [srv EXCEPT ![s] = e]
  BY DEF Put
<1>2. TypeOK'
  BY <1>1 DEF TypeOK
<1>3. Tracked'
  <2>1. \A r \in Sessions : GoodSession(srv[r], now)'
    BY <1>1 DEF TypeOK, Tracked
  <2> QED BY <2>1 DEF Tracked
<1>4. Distinct'
  BY DEF Distinct
<1>5. Recording'
  BY DEF Recording
<1> QED BY <1>2, <1>3, <1>4, <1>5

\* The invariant holds at the start.
LEMMA InitIInv == Init => IInv
<1> SUFFICES ASSUME Init PROVE IInv
  OBVIOUS
<1> USE DEF Init
<1>1. Boot \in Nat /\ Seconds(Boot) \in Nat /\ T(Boot) \in Nat /\ T(Boot) - 1 \in Nat
  BY TicketsAssumption, BootAssumption, SecondsNat, TNat
<1>2. Fresh \in SessionType /\ Earlier \in SessionType
  BY <1>1 DEF Fresh, Earlier, SessionType, Underived
<1>3. GoodSession(Fresh, Boot) /\ GoodSession(Earlier, Boot)
  BY <1>1 DEF Fresh, Earlier, GoodSession, Underived
<1>4. TypeOK
  BY <1>1, <1>2 DEF TypeOK
<1>5. Tracked
  <2>1. \A s \in Sessions : srv[s] \in {Fresh, Earlier}
    OBVIOUS
  <2>2. \A s \in Sessions : GoodSession(srv[s], now)
    BY <1>3, <2>1
  <2> QED BY <1>1, <2>2 DEF Tracked
<1>6. Distinct
  BY FS_EmptySet DEF Distinct
<1>7. Recording
  BY <1>1 DEF Recording
<1> QED BY <1>4, <1>5, <1>6, <1>7 DEF IInv

\* Opening, a hello without a ticket, and closing.
LEMMA SessionSteps ==
    ASSUME IInv, NEW s \in Sessions
    PROVE  /\ EnableServer(s) => IInv'
           /\ Close(s) => IInv'
           /\ \A vers \in {12, 13} : FullHello(s, vers) => IInv'
<1>1. srv[s] \in SessionType /\ GoodSession(srv[s], now) /\ now \in Nat /\ Boot <= now
  BY DEF IInv, TypeOK, Tracked
<1>2. T(now) \in Nat /\ Seconds(now) \in Nat
  BY <1>1, TNat, SecondsNat
<1>3. ASSUME EnableServer(s) PROVE IInv'
  <2> DEFINE e == [srv[s] EXCEPT !.st = "enabled", !.last = T(now), !.rotated = FALSE]
  <2>1. e \in SessionType
    BY <1>1, <1>2 DEF SessionType
  <2>2. srv[s].resumed = FALSE /\ srv[s].key = Underived
    BY <1>1, <1>3 DEF GoodSession, EnableServer
  <2>3. /\ e.st = "enabled" /\ e.resumed = FALSE /\ e.key = Underived /\ e.rotated = FALSE
        /\ e.origin = srv[s].origin
    BY <1>1, <2>2 DEF SessionType
  <2>4. GoodSession(e, now)
    BY <1>1, <2>3 DEF GoodSession
  <2>5. Put(s, e) /\ UNCHANGED <<now, mail, held, hellos, start, db>>
    BY <1>3 DEF EnableServer
  <2> HIDE DEF e
  <2> QED BY <2>1, <2>4, <2>5, PutIInv
<1>4. ASSUME Close(s) PROVE IInv'
  <2>1. Fresh \in SessionType
    BY DEF Fresh, SessionType, Underived
  <2>2. GoodSession(Fresh, now)
    BY <1>2 DEF Fresh, GoodSession, Underived
  <2>3. Put(s, Fresh) /\ UNCHANGED <<now, mail, held, hellos, start, db>>
    BY <1>4 DEF Close
  <2> QED BY <2>1, <2>2, <2>3, PutIInv
<1>5. ASSUME NEW vers \in {12, 13}, FullHello(s, vers) PROVE IInv'
  <2>1. srv[s].st = "enabled" /\ Put(s, Hello(srv[s], vers))
        /\ UNCHANGED <<now, mail, held, hellos, start, db>>
    BY <1>5 DEF FullHello
  <2>2. Hello(srv[s], vers) \in SessionType /\ GoodSession(Hello(srv[s], vers), now)
    BY <1>1, <2>1, HelloFacts
  <2> QED BY <2>1, <2>2, PutIInv
<1> QED BY <1>3, <1>4, <1>5

\* A new ticket is good: it carries the time of the full handshake and a key
\* of this period.
LEMMA SendTicketStep == ASSUME IInv, NEW s \in Sessions, SendTicket(s) PROVE IInv'
<1> DEFINE e == Rotate(srv[s])
           f == [e EXCEPT !.st = "done", !.ts = SessionTime(e)]
<1>1. srv[s] \in SessionType /\ GoodSession(srv[s], now) /\ now \in Nat /\ Boot <= now
  BY DEF IInv, TypeOK, Tracked
<1>2. /\ srv[s].st \in {"hello", "done"} /\ Due(srv[s]) /\ Put(s, f)
      /\ mail' = mail \cup {Ticket(e)} /\ UNCHANGED <<now, held, hellos, start, db>>
  BY DEF SendTicket
<1>3. Seconds(now) \in Nat /\ T(now) \in Nat
  BY <1>1, SecondsNat, TNat
<1>4. /\ srv[s].key # Underived => srv[s].rotated = TRUE /\ srv[s].key = srv[s].last
      /\ srv[s].key = Underived => srv[s].rotated = FALSE
  BY <1>1 DEF GoodSession
<1>5. /\ e \in SessionType /\ e.last = T(now)
      /\ e.key # Underived => e.rotated = TRUE /\ e.key = T(now)
      /\ e.key = Underived => e.rotated = FALSE
      /\ e.st = srv[s].st /\ e.vers = srv[s].vers /\ e.resumed = srv[s].resumed
      /\ e.ts = srv[s].ts /\ e.rts = srv[s].rts /\ e.origin = srv[s].origin
  BY <1>1, <1>4, RotateFacts
<1> HIDE DEF e
<1>6. SessionTime(e) = SessionTime(srv[s]) /\ SessionTime(e) = e.origin /\ e.origin \in Nat
  BY <1>1, <1>2, <1>5 DEF SessionTime, GoodSession, SessionType
<1>7. f \in SessionType /\ GoodSession(f, now)
  <2>1. f \in SessionType
    BY <1>5, <1>6 DEF SessionType
  <2>2. /\ f.st = "done" /\ f.ts = SessionTime(e) /\ f.resumed = e.resumed /\ f.rts = e.rts
        /\ f.origin = e.origin /\ f.key = e.key /\ f.last = e.last /\ f.rotated = e.rotated
    BY <1>5 DEF SessionType
  <2>3. SessionTime(f) = f.origin
    BY <1>6, <2>2 DEF SessionTime
  <2>4. f.origin <= Seconds(now)
    BY <1>1, <1>5, <2>2 DEF GoodSession
  <2> HIDE DEF f
  <2> QED BY <1>5, <2>1, <2>2, <2>3, <2>4 DEF GoodSession
<1>8. Lifetime(e) \in Nat
  <2>1. CASE e.vers = 13 /\ e.resumed
    <3>1. Seconds(now) < SessionTime(srv[s]) + Expire
      BY <1>2, <1>5, <2>1 DEF Due
    <3> QED BY <1>3, <1>6, <2>1, <3>1, TicketsAssumption DEF Lifetime
  <2>2. CASE ~(e.vers = 13 /\ e.resumed)
    BY <2>2, TicketsAssumption DEF Lifetime
  <2> QED BY <2>1, <2>2
<1>9. Ticket(e) \in TicketType /\ GoodTicket(Ticket(e), now)
  <2>1. Ticket(e) = [vers |-> e.vers, key |-> e.key, created |-> now, life |-> Lifetime(e),
                     ts |-> SessionTime(e), origin |-> e.origin]
    BY DEF Ticket
  <2>2. e.origin <= Seconds(now)
    BY <1>1, <1>5 DEF GoodSession
  <2>3. Ticket(e) \in TicketType
    BY <1>1, <1>5, <1>6, <1>8, <2>1 DEF TicketType, SessionType
  <2> QED BY <1>1, <1>5, <1>6, <2>1, <2>2, <2>3 DEF GoodTicket
<1> HIDE DEF f
<1>10. srv' = [srv EXCEPT ![s] = f]
  BY <1>2 DEF Put
<1>11. TypeOK'
  BY <1>2, <1>7, <1>9, <1>10 DEF IInv, TypeOK
<1>12. Tracked'
  <2>1. \A r \in Sessions : GoodSession(srv[r], now)'
    BY <1>2, <1>7, <1>10 DEF IInv, TypeOK, Tracked
  <2>2. \A t \in mail' : GoodTicket(t, now')
    BY <1>2, <1>9 DEF IInv, Tracked
  <2> QED BY <1>2, <2>1, <2>2 DEF IInv, Tracked
<1>13. Distinct' /\ Recording'
  BY <1>2 DEF IInv, Distinct, Recording
<1> QED BY <1>11, <1>12, <1>13 DEF IInv

\* Time passes.
LEMMA TickStep == ASSUME IInv, Tick PROVE IInv'
<1>1. now \in Nat /\ now' = now + 1 /\ now' \in Nat /\ now <= now'
  BY DEF IInv, TypeOK, Tick
<1>2. UNCHANGED <<srv, mail, held, hellos, start, db>>
  BY DEF Tick
<1>3. TypeOK'
  BY <1>1, <1>2 DEF IInv, TypeOK
<1>4. Tracked'
  <2>1. Boot <= now'
    BY <1>1, TicketsAssumption DEF IInv, Tracked
  <2>2. \A s \in Sessions : GoodSession(srv[s], now')
    BY <1>1, SessionLater DEF IInv, TypeOK, Tracked
  <2>3. \A t \in mail : GoodTicket(t, now')
    BY <1>1, TicketLater DEF IInv, TypeOK, Tracked
  <2>4. \A c \in held : GoodHeld(c, now')
    BY <1>1, TicketLater DEF IInv, TypeOK, Tracked, GoodHeld
  <2>5. \A h \in hellos : GoodHello(h, now', Cardinality(hellos))
    BY <1>1, TicketLater DEF IInv, TypeOK, Tracked, GoodHello, HelloType
  <2> QED BY <1>2, <2>1, <2>2, <2>3, <2>4, <2>5 DEF Tracked
<1>5. Distinct'
  BY <1>2 DEF IInv, Distinct
<1>6. Recording'
  BY <1>1, <1>2 DEF IInv, TypeOK, Recording
<1> QED BY <1>3, <1>4, <1>5, <1>6 DEF IInv

\* Clients receive tickets and give them up.
LEMMA ClientSteps ==
    ASSUME IInv
    PROVE  /\ \A t \in mail : RecvTicket(t) => IInv'
           /\ \A c \in held : Drop(c) => IInv'
<1>1. ASSUME NEW t \in mail, RecvTicket(t) PROVE IInv'
  <2> DEFINE c == [t |-> t, arrival |-> now]
  <2>1. mail' = mail \ {t} /\ held' = held \cup {c} /\ UNCHANGED <<now, srv, hellos, start, db>>
    BY <1>1 DEF RecvTicket
  <2>2. t \in TicketType /\ GoodTicket(t, now) /\ now \in Nat
    BY DEF IInv, TypeOK, Tracked
  <2>3. c \in [t : TicketType, arrival : Nat] /\ GoodHeld(c, now)
    BY <2>2 DEF GoodHeld, GoodTicket
  <2> HIDE DEF c
  <2>4. TypeOK'
    BY <2>1, <2>3 DEF IInv, TypeOK
  <2>5. Tracked'
    BY <2>1, <2>3 DEF IInv, Tracked
  <2>6. Distinct' /\ Recording'
    BY <2>1 DEF IInv, Distinct, Recording
  <2> QED BY <2>4, <2>5, <2>6 DEF IInv
<1>2. ASSUME NEW c \in held, Drop(c) PROVE IInv'
  <2>1. held' = held \ {c} /\ UNCHANGED <<now, srv, mail, hellos, start, db>>
    BY <1>2 DEF Drop
  <2> QED BY <2>1 DEF IInv, TypeOK, Tracked, Distinct, Recording
<1> QED BY <1>1, <1>2

\* A hello gets a number of its own, which no entry of the recording has.
LEMMA ClientHelloStep ==
    ASSUME IInv, NEW c \in held, NEW early \in BOOLEAN, ClientHello(c, early)
    PROVE  IInv'
<1> DEFINE n == Cardinality(hellos)
           h == [t |-> c.t, age |-> now - c.arrival, sent |-> now, id |-> n + 1, early |-> early]
<1>1. hellos' = hellos \cup {h} /\ UNCHANGED <<now, srv, mail, held, start, db>>
  BY DEF ClientHello
<1>2. /\ c.t \in TicketType /\ c.arrival \in Nat /\ now \in Nat
      /\ GoodTicket(c.t, now) /\ c.t.created <= c.arrival /\ c.arrival <= now
  BY DEF IInv, TypeOK, Tracked, GoodHeld
<1>3. IsFiniteSet(hellos) /\ n \in Nat
  BY FS_CardinalityType DEF IInv, Distinct
<1>4. \A g \in hellos : g \in HelloType /\ GoodHello(g, now, n)
  BY DEF IInv, TypeOK, Tracked
<1>5. h \notin hellos
  <2>1. \A g \in hellos : g.id \in Nat /\ g.id <= n
    BY <1>4 DEF GoodHello, HelloType
  <2>2. h.id = n + 1
    OBVIOUS
  <2> HIDE DEF h, n
  <2> QED BY <1>3, <2>1, <2>2
<1>6. IsFiniteSet(hellos') /\ Cardinality(hellos') = n + 1
  BY <1>1, <1>3, <1>5, FS_AddElement
<1>7. /\ h \in HelloType /\ h.t = c.t /\ h.sent = now /\ h.id = n + 1
      /\ h.t.created + h.age <= h.sent
  BY <1>2, <1>3 DEF HelloType, TicketType
<1>8. GoodHello(h, now, n + 1)
  <2>1. c.t.vers = 13 => (now - c.arrival) \div TPS <= c.t.life
    BY DEF ClientHello
  <2>2. (now - c.arrival) \div TPS \in Nat /\ c.t.life \in Nat
    BY <1>2, DivNat, TicketsAssumption DEF TicketType
  <2>3. h.age = now - c.arrival
    OBVIOUS
  <2>4. ~Stale(h)
    BY <1>7, <2>1, <2>2, <2>3 DEF Stale
  <2> QED BY <1>2, <1>3, <1>7, <2>4 DEF GoodHello
<1> HIDE DEF h, n
<1>9. TypeOK'
  BY <1>1, <1>7 DEF IInv, TypeOK
<1>10. Tracked'
  <2>1. \A g \in hellos : GoodHello(g, now, n + 1)
    BY <1>3, <1>4 DEF GoodHello, HelloType
  <2> QED BY <1>1, <1>6, <1>8, <2>1 DEF IInv, Tracked
<1>11. Distinct'
  <2>1. \A g \in hellos : g.id # h.id
    BY <1>3, <1>4, <1>7 DEF GoodHello, HelloType
  <2> QED BY <1>1, <1>6, <2>1 DEF IInv, Distinct
<1>12. Recording'
  <2>1. ASSUME NEW x \in db PROVE GoodEntry(x, start, hellos')
    <3>1. GoodEntry(x, start, hellos) /\ x.key[2] \in Nat
      BY DEF IInv, Recording, TypeOK
    <3>2. x.key[2] <= n
      BY <3>1 DEF GoodEntry, n
    <3>3. x.key[2] <= n + 1 /\ h.id # x.key[2]
      BY <1>3, <1>7, <3>1, <3>2
    <3> QED BY <1>1, <1>6, <3>1, <3>3 DEF GoodEntry
  <2> QED BY <1>1, <2>1 DEF IInv, Recording
<1> QED BY <1>9, <1>10, <1>11, <1>12 DEF IInv

-----------------------------------------------------------------------------
(* A hello is read.                                                          *)

\* The recording after the check: the old one within the window, else a new one.
LEMMA RolloverFacts ==
    ASSUME IInv
    PROVE  /\ Rollover \in Nat /\ start <= Rollover /\ Rollover <= now
           /\ \/ Rollover = start /\ now <= start + Window
              \/ Rollover = now /\ now > start + Window
BY TicketsAssumption DEF IInv, TypeOK, Recording, Rollover

\* An entry stays good when the recording is renewed.
LEMMA EntryRenewed ==
    ASSUME IInv, NEW x \in db PROVE GoodEntry(x, Rollover, hellos)
<1>1. GoodEntry(x, start, hellos) /\ x.key \in Nat \X Nat /\ start \in Nat /\ now \in Nat
  BY DEF IInv, Recording, TypeOK
<1>2. \A h \in hellos : h.t.created \in Nat
  BY DEF IInv, TypeOK, HelloType, TicketType
<1>3. CASE Rollover = start
  BY <1>1, <1>3
<1>4. CASE Rollover = now /\ now > start + Window
  BY <1>1, <1>2, <1>4, TicketsAssumption DEF GoodEntry
<1> QED BY <1>3, <1>4, RolloverFacts

\* The entry of an accepted hello is good.
LEMMA EntryGood ==
    ASSUME IInv, NEW h \in hellos
    PROVE  Entry(h) \in [key : Nat \X Nat, exp : Nat, at : Nat] /\ GoodEntry(Entry(h), Rollover, hellos)
<1>1. h \in HelloType /\ GoodHello(h, now, Cardinality(hellos)) /\ now \in Nat /\ start \in Nat
  BY DEF IInv, TypeOK, Tracked
<1>2. Seconds(now) \in Nat /\ Window \div TPS \in Nat
  BY <1>1, SecondsNat, DivNat, TicketsAssumption
<1>3. /\ Rollover \in Nat /\ Rollover <= now /\ start <= Rollover
      /\ \/ Rollover = start /\ now <= start + Window
         \/ Rollover = now
  BY RolloverFacts
<1>5. /\ Entry(h).key[1] = Rollover /\ Entry(h).key[2] = h.id
      /\ Entry(h).exp = Seconds(now) + Window \div TPS /\ Entry(h).at = now
  BY DEF Entry
<1>6. Entry(h) \in [key : Nat \X Nat, exp : Nat, at : Nat]
  BY <1>1, <1>2, <1>3 DEF Entry, HelloType
<1>7. h.id <= Cardinality(hellos) /\ h.t.created \in Nat /\ h.t.created <= now
  BY <1>1 DEF GoodHello, GoodTicket, HelloType, TicketType
<1>8. h.t.created <= Rollover + Window
  BY <1>1, <1>3, <1>7, TicketsAssumption
<1>9. \A g \in hellos : g.id = h.id => g = h
  BY DEF IInv, Distinct
<1>10. Entry(h).exp = Seconds(Entry(h).at) + Window \div TPS
  BY <1>5
<1>11. Rollover <= Rollover /\ ~(Rollover < Rollover)
  BY <1>3
<1> QED BY <1>5, <1>6, <1>7, <1>8, <1>9, <1>10, <1>11 DEF GoodEntry

\* The session that reads hello h with its ticket: its key is that of this
\* period, or underived; if the ticket is accepted, it takes over the time.
Reader(s, h) == Rotate(Hello(srv[s], h.t.vers))
Accepted(s, h) == Opens(Reader(s, h), h.t.key) /\ ~Expired(h.t) /\ ~Stale(h)
After(s, h) == IF Accepted(s, h)
               THEN [Reader(s, h) EXCEPT !.resumed = TRUE, !.rts = h.t.ts, !.origin = h.t.origin]
               ELSE Reader(s, h)

\* What is known of that session before and after.
LEMMA ReaderFacts ==
    ASSUME IInv, NEW s \in Sessions, NEW h \in hellos, srv[s].st = "enabled"
    PROVE  /\ Reader(s, h).last = T(now)
           /\ Reader(s, h).key # Underived =>
                 Reader(s, h).rotated = TRUE /\ Reader(s, h).key = T(now)
           /\ Reader(s, h).key = Underived => Reader(s, h).rotated = FALSE
           /\ After(s, h) \in SessionType /\ GoodSession(After(s, h), now)
<1>1. srv[s] \in SessionType /\ GoodSession(srv[s], now) /\ now \in Nat /\ Boot <= now
  BY DEF IInv, TypeOK, Tracked
<1>2. h.t \in TicketType /\ GoodTicket(h.t, now)
  BY DEF IInv, TypeOK, HelloType, Tracked, GoodHello
<1>3. h.t.vers \in {12, 13} /\ h.t.ts \in Nat /\ h.t.origin \in Nat /\ h.t.created \in Nat
  BY <1>2 DEF TicketType
<1> DEFINE e == Hello(srv[s], h.t.vers)
           f == Reader(s, h)
           g == [f EXCEPT !.resumed = TRUE, !.rts = h.t.ts, !.origin = h.t.origin]
<1>4. e \in SessionType /\ GoodSession(e, now) /\ e.resumed = FALSE /\ e.st = "hello"
  BY <1>1, <1>3, HelloFacts
<1>5. /\ e.key # Underived => e.rotated = TRUE /\ e.key = e.last
      /\ e.key = Underived => e.rotated = FALSE
  BY <1>4 DEF GoodSession
<1>6. f = Rotate(e)
  BY DEF Reader
<1> HIDE DEF e
<1>7. /\ f \in SessionType /\ f.last = T(now)
      /\ f.key # Underived => f.rotated = TRUE /\ f.key = T(now)
      /\ f.key = Underived => f.rotated = FALSE
      /\ f.st = e.st /\ f.resumed = e.resumed
      /\ f.ts = e.ts /\ f.rts = e.rts /\ f.origin = e.origin
  BY <1>1, <1>4, <1>5, <1>6, RotateFacts, ZenonT(40)
<1> HIDE DEF f
<1>8. GoodSession(f, now)
  BY <1>4, <1>7 DEF GoodSession, SessionTime
<1>9. Seconds(now) \in Nat /\ Seconds(h.t.created) \in Nat /\ Seconds(h.t.created) <= Seconds(now)
  BY <1>1, <1>2, <1>3, SecondsNat, SecondsMono DEF GoodTicket
<1>10. h.t.ts = h.t.origin /\ h.t.origin <= Seconds(now)
  BY <1>2, <1>3, <1>9 DEF GoodTicket
<1>11. g \in SessionType
  BY <1>3, <1>7 DEF SessionType
<1>12. /\ g.resumed = TRUE /\ g.rts = h.t.ts /\ g.origin = h.t.origin /\ g.st = "hello"
       /\ g.key = f.key /\ g.last = f.last /\ g.rotated = f.rotated
  BY <1>4, <1>7 DEF SessionType
<1> HIDE DEF g
<1>13. GoodSession(g, now)
  BY <1>7, <1>10, <1>12 DEF GoodSession, SessionTime
<1>14. After(s, h) = g \/ After(s, h) = f
  BY DEF After, f, g
<1> QED BY <1>7, <1>8, <1>11, <1>13, <1>14 DEF f

\* A session that reads a hello stays good, and so does the recording.
LEMMA RecvHelloStep ==
    ASSUME IInv, NEW s \in Sessions, NEW h \in hellos, RecvHello(s, h)
    PROVE  IInv'
<1>1. /\ srv[s].st = "enabled" /\ Put(s, After(s, h))
      /\ AntiReplay(h, Accepted(s, h) /\ h.early)
      /\ UNCHANGED <<now, mail, held, hellos>>
  BY DEF RecvHello, Reader, Accepted, After
<1>2. After(s, h) \in SessionType /\ GoodSession(After(s, h), now)
  BY <1>1, ReaderFacts
<1>3. srv' = [srv EXCEPT ![s] = After(s, h)]
  BY <1>1 DEF Put
<1>4. /\ start' = start \/ start' = Rollover
      /\ db' = db \/ (start' = Rollover /\ db' = db \cup {Entry(h)})
  BY <1>1 DEF AntiReplay, AcceptsEarly
<1>5. Rollover \in Nat /\ Rollover <= now /\ start \in Nat /\ start <= now
  BY RolloverFacts DEF IInv, TypeOK, Recording
<1>6. Entry(h) \in [key : Nat \X Nat, exp : Nat, at : Nat] /\ GoodEntry(Entry(h), Rollover, hellos)
  BY EntryGood
<1>7. TypeOK'
  <2>1. db' \subseteq [key : Nat \X Nat, exp : Nat, at : Nat] /\ start' \in Nat
    BY <1>4, <1>5, <1>6 DEF IInv, TypeOK
  <2>2. srv' \in [Sessions -> SessionType]
    BY <1>2, <1>3 DEF IInv, TypeOK
  <2> QED BY <1>1, <2>1, <2>2 DEF IInv, TypeOK
<1>8. Tracked'
  <2>1. \A r \in Sessions : GoodSession(srv'[r], now)
    BY <1>2, <1>3 DEF IInv, TypeOK, Tracked
  <2> QED BY <1>1, <2>1 DEF IInv, Tracked
<1>9. Distinct'
  BY <1>1 DEF IInv, Distinct
<1>10. Recording'
  <2>1. ASSUME NEW x \in db PROVE GoodEntry(x, start', hellos)
    <3>1. GoodEntry(x, start, hellos) /\ GoodEntry(x, Rollover, hellos)
      BY EntryRenewed DEF IInv, Recording
    <3> QED BY <1>4, <3>1
  <2>2. \A x \in db' : GoodEntry(x, start', hellos)
    BY <1>4, <1>6, <2>1
  <2>3. start' <= now
    BY <1>4, <1>5
  <2> QED BY <1>1, <2>2, <2>3 DEF Recording
<1> QED BY <1>7, <1>8, <1>9, <1>10 DEF IInv

\* Every step keeps the invariant.
LEMMA NextIInv == IInv /\ [Next]_vars => IInv'
<1> SUFFICES ASSUME IInv, [Next]_vars PROVE IInv'
  OBVIOUS
<1>1. CASE Tick
  BY <1>1, TickStep
<1>2. ASSUME NEW s \in Sessions, EnableServer(s) PROVE IInv'
  BY <1>2, SessionSteps
<1>3. ASSUME NEW s \in Sessions, SendTicket(s) PROVE IInv'
  BY <1>3, SendTicketStep
<1>4. ASSUME NEW s \in Sessions, Close(s) PROVE IInv'
  BY <1>4, SessionSteps
<1>5. ASSUME NEW s \in Sessions, NEW vers \in {12, 13}, FullHello(s, vers) PROVE IInv'
  BY <1>5, SessionSteps
<1>6. ASSUME NEW s \in Sessions, NEW h \in hellos, RecvHello(s, h) PROVE IInv'
  BY <1>6, RecvHelloStep
<1>7. ASSUME NEW t \in mail, RecvTicket(t) PROVE IInv'
  BY <1>7, ClientSteps
<1>8. ASSUME NEW c \in held, Drop(c) PROVE IInv'
  BY <1>8, ClientSteps
<1>9. ASSUME NEW c \in held, NEW early \in BOOLEAN, ClientHello(c, early) PROVE IInv'
  BY <1>9, ClientHelloStep
<1>10. CASE UNCHANGED vars
  BY <1>10 DEF vars, IInv, TypeOK, Tracked, Distinct, Recording
<1> QED BY <1>1, <1>2, <1>3, <1>4, <1>5, <1>6, <1>7, <1>8, <1>9, <1>10 DEF Next

-----------------------------------------------------------------------------
(* The theorems.                                                             *)

\* Only a step that reads a hello leaves a trace in seen.
LEMMA SeenStep ==
    ASSUME [Next]_vars
    PROVE  \/ seen' = Nothing
           \/ seen' = seen /\ now' = now
           \/ \E s \in Sessions : \E h \in hellos : RecvHello(s, h)
<1>1. CASE Tick
  BY <1>1 DEF Tick
<1>2. ASSUME NEW s \in Sessions, EnableServer(s) \/ SendTicket(s) \/ Close(s)
      PROVE  seen' = Nothing
  BY <1>2 DEF EnableServer, SendTicket, Close
<1>3. ASSUME NEW s \in Sessions, NEW vers \in {12, 13}, FullHello(s, vers) PROVE seen' = Nothing
  BY <1>3 DEF FullHello
<1>4. ASSUME NEW t \in mail, RecvTicket(t) PROVE seen' = Nothing
  BY <1>4 DEF RecvTicket
<1>5. ASSUME NEW c \in held, NEW early \in BOOLEAN, Drop(c) \/ ClientHello(c, early)
      PROVE  seen' = Nothing
  BY <1>5 DEF Drop, ClientHello
<1>6. CASE UNCHANGED vars
  BY <1>6 DEF vars
<1> QED BY <1>1, <1>2, <1>3, <1>4, <1>5, <1>6 DEF Next

\* The earlier acceptances of a hello.
Before(h) == {[rec |-> x.key[1], at |-> x.at] : x \in {y \in db : y.key[2] = h.id}}

\* What seen says of a hello.
LEMMA SeenFields ==
    ASSUME NEW s \in Sessions, NEW h \in hellos, RecvHello(s, h)
    PROVE  /\ srv[s].st = "enabled" /\ now' = now
           /\ seen'.outcome = "resumed" => Accepted(s, h)
           /\ seen'.outcome = "refused" <=> ~Accepted(s, h)
           /\ seen'.mixed <=> ~((h.t.key = Underived) <=> (Reader(s, h).key = Underived))
           /\ seen'.age = Seconds(now) - h.t.origin
           /\ seen'.early => Accepted(s, h) /\ AcceptsEarly(h) /\ start' = Rollover
           /\ seen'.delay = now - h.sent
           /\ seen'.before = Before(h)
           /\ seen'.rec = start'
<1> DEFINE e == Reader(s, h)
           ok == Accepted(s, h)
<1>1. /\ srv[s].st = "enabled" /\ now' = now
      /\ AntiReplay(h, ok /\ h.early)
      /\ seen' = [outcome |-> IF ok THEN "resumed" ELSE "refused",
                  mixed |-> (h.t.key = Underived) # (e.key = Underived),
                  age |-> Seconds(now) - h.t.origin,
                  early |-> ok /\ h.early /\ AcceptsEarly(h),
                  delay |-> now - h.sent,
                  before |-> Before(h),
                  rec |-> start']
  BY DEF RecvHello, Reader, Accepted, Before
<1> HIDE DEF e, ok
<1>2. /\ seen'.outcome = IF ok THEN "resumed" ELSE "refused"
      /\ seen'.mixed = ((h.t.key = Underived) # (e.key = Underived))
      /\ seen'.age = Seconds(now) - h.t.origin
      /\ seen'.early = (ok /\ h.early /\ AcceptsEarly(h))
      /\ seen'.delay = now - h.sent
      /\ seen'.before = Before(h)
      /\ seen'.rec = start'
  BY <1>1
<1>3. (seen'.outcome = "resumed" => ok) /\ (seen'.outcome = "refused" <=> ~ok)
  BY <1>2
<1>4. seen'.mixed <=> ~((h.t.key = Underived) <=> (e.key = Underived))
  BY <1>2
<1>5. seen'.early => ok /\ AcceptsEarly(h) /\ start' = Rollover
  BY <1>1, <1>2 DEF AntiReplay, AcceptsEarly
<1> QED BY <1>1, <1>2, <1>3, <1>4, <1>5 DEF e, ok

\* The invariant holds throughout.
THEOREM Invariance == Spec => []IInv
BY InitIInv, NextIInv, PTL DEF Spec

\* The state is well typed; no ticket is given out with a negative lifetime.
THEOREM TypeCorrect == Spec => []TypeOK
<1>1. IInv => TypeOK
  BY DEF IInv
<1> QED BY <1>1, Invariance, PTL

\* A ticket that is not expired goes back to a full handshake at most expire_time ago.
LEMMA AgeOfTicket ==
    ASSUME IInv, NEW h \in hellos
    PROVE  /\ h.t.origin \in Nat /\ h.t.created \in Nat /\ Seconds(now) \in Nat /\ now \in Nat
           /\ h.t.ts = h.t.origin /\ h.t.origin <= Seconds(h.t.created)
           /\ h.t.created <= now /\ h.t.origin <= Seconds(now)
           /\ Seconds(h.t.created) \in Nat
           /\ Expired(h.t) <=> Seconds(now) - h.t.origin > Expire
<1>1. h \in HelloType /\ GoodTicket(h.t, now) /\ now \in Nat
  BY DEF IInv, TypeOK, Tracked, GoodHello
<1>2. h.t.origin \in Nat /\ h.t.created \in Nat /\ h.t.ts \in Nat
  BY <1>1 DEF HelloType, TicketType
<1>3. Seconds(now) \in Nat /\ Seconds(h.t.created) \in Nat
  BY <1>1, <1>2, SecondsNat
<1>4. h.t.ts = h.t.origin /\ h.t.origin <= Seconds(h.t.created) /\ h.t.created <= now
  BY <1>1 DEF GoodTicket
<1>5. Seconds(h.t.created) <= Seconds(now)
  BY <1>1, <1>2, <1>4, SecondsMono
<1>6. h.t.origin <= Seconds(now)
  BY <1>2, <1>3, <1>4, <1>5
<1>7. Expired(h.t) <=> Seconds(now) - h.t.origin > Expire
  BY <1>2, <1>3, <1>4, <1>6, TicketsAssumption DEF Expired
<1> QED BY <1>1, <1>2, <1>3, <1>4, <1>6, <1>7

\* For every expire_time and any chain of resumptions: none happens later than
\* expire_time after the full handshake (NoLateResumption).
THEOREM NoLateResumptionTheorem == Spec => []NoLateResumption
<1>1. Init => NoLateResumption
  BY DEF Init, NoLateResumption, Nothing
<1>2. IInv /\ NoLateResumption /\ [Next]_vars => NoLateResumption'
  <2> SUFFICES ASSUME IInv, NoLateResumption, [Next]_vars PROVE NoLateResumption'
    OBVIOUS
  <2>1. CASE seen' = Nothing
    BY <2>1 DEF NoLateResumption, Nothing
  <2>2. CASE seen' = seen
    BY <2>2 DEF NoLateResumption
  <2>3. ASSUME NEW s \in Sessions, NEW h \in hellos, RecvHello(s, h) PROVE NoLateResumption'
    <3>1. seen'.outcome = "resumed" => ~Expired(h.t)
      BY <2>3, SeenFields DEF Accepted
    <3>2. seen'.age = Seconds(now) - h.t.origin
      BY <2>3, SeenFields
    <3> QED BY <3>1, <3>2, AgeOfTicket, TicketsAssumption DEF NoLateResumption
  <2> QED BY <2>1, <2>2, <2>3, SeenStep
<1> QED BY <1>1, <1>2, Invariance, PTL DEF Spec

\* A ticket of a session whose key is like this one's, and which is not
\* expired, can be opened.
LEMMA OpensAlike ==
    ASSUME IInv, NEW s \in Sessions, NEW h \in hellos, srv[s].st = "enabled",
           (h.t.key = Underived) <=> (Reader(s, h).key = Underived),
           ~Expired(h.t)
    PROVE  Opens(Reader(s, h), h.t.key)
<1> DEFINE e == Reader(s, h)
<1>1. e.last = T(now) /\ (e.key # Underived => e.rotated = TRUE /\ e.key = T(now))
  BY ReaderFacts
<1>2. h.t.key # Underived => h.t.key = T(h.t.created)
  BY DEF IInv, Tracked, GoodHello, GoodTicket
<1> HIDE DEF e
<1>3. CASE h.t.key = Underived
  BY <1>3 DEF Opens, e
<1>4. CASE h.t.key # Underived
  <2>1. /\ h.t.created \in Nat /\ now \in Nat /\ h.t.created <= now
        /\ h.t.origin \in Nat /\ Seconds(now) \in Nat /\ Seconds(h.t.created) \in Nat
        /\ h.t.origin <= Seconds(h.t.created) /\ ~(Seconds(now) - h.t.origin > Expire)
    BY AgeOfTicket
  <2>2. Seconds(now) <= Seconds(h.t.created) + Expire
    BY <2>1, TicketsAssumption
  <2>3. T(now) \in Nat /\ T(h.t.created) \in Nat
    BY <2>1, TNat
  <2>4. T(h.t.created) <= T(now) /\ T(now) <= T(h.t.created) + 1
    BY <2>1, <2>2, TMono, TStep
  <2>5. h.t.key = T(h.t.created) /\ e.key # Underived
    BY <1>2, <1>4 DEF e
  <2>6. CASE T(h.t.created) = T(now)
    BY <1>1, <2>5, <2>6 DEF Opens, e
  <2>7. CASE T(h.t.created) # T(now)
    <3>1. T(now) = T(h.t.created) + 1 /\ T(h.t.created) # 0
      BY <1>4, <2>3, <2>4, <2>5, <2>7 DEF Underived
    <3>2. e.last > 1 /\ h.t.key = e.last - 1
      BY <1>1, <2>3, <2>5, <3>1
    <3>3. e.rotated = TRUE
      BY <1>1, <2>5
    <3> QED BY <3>2, <3>3 DEF Opens, e
  <2> QED BY <2>6, <2>7
<1> QED BY <1>3, <1>4

\* A derived key opens no ticket of an underived one, nor the other way round.
LEMMA OpensMixed ==
    ASSUME IInv, NEW s \in Sessions, NEW h \in hellos, srv[s].st = "enabled",
           ~((h.t.key = Underived) <=> (Reader(s, h).key = Underived))
    PROVE  ~Opens(Reader(s, h), h.t.key)
<1> DEFINE e == Reader(s, h)
<1>1. /\ e.last = T(now) /\ (e.key # Underived => e.rotated = TRUE /\ e.key = T(now))
      /\ e.key = Underived => e.rotated = FALSE
  BY ReaderFacts
<1>2. T(now) \in Nat
  BY TNat DEF IInv, TypeOK
<1> HIDE DEF e
<1>3. CASE e.key = Underived
  BY <1>1, <1>3 DEF Opens, e
<1>4. CASE e.key # Underived
  BY <1>1, <1>2, <1>4 DEF Opens, e, Underived
<1> QED BY <1>3, <1>4

\* For every period and clock rate: a ticket is refused exactly when it is too
\* old or one of the two keys is derived and the other not (RefusedExactly).
THEOREM RefusedExactlyTheorem == Spec => []RefusedExactly
<1>1. Init => RefusedExactly
  BY DEF Init, RefusedExactly, Nothing
<1>2. IInv /\ RefusedExactly /\ [Next]_vars => RefusedExactly'
  <2> SUFFICES ASSUME IInv, RefusedExactly, [Next]_vars PROVE RefusedExactly'
    OBVIOUS
  <2>1. CASE seen' = Nothing
    BY <2>1 DEF RefusedExactly, Nothing
  <2>2. CASE seen' = seen
    BY <2>2 DEF RefusedExactly
  <2>3. ASSUME NEW s \in Sessions, NEW h \in hellos, RecvHello(s, h) PROVE RefusedExactly'
    <3> DEFINE alike == (h.t.key = Underived) <=> (Reader(s, h).key = Underived)
    <3>1. /\ srv[s].st = "enabled"
          /\ seen'.outcome = "refused" <=> ~Accepted(s, h)
          /\ seen'.mixed <=> ~alike
          /\ seen'.age = Seconds(now) - h.t.origin
      BY <2>3, SeenFields
    <3>2. ~Stale(h)
      BY DEF IInv, Tracked, GoodHello
    <3>3. Expired(h.t) <=> seen'.age > Expire
      BY <3>1, AgeOfTicket
    <3>4. alike /\ ~Expired(h.t) => Opens(Reader(s, h), h.t.key)
      BY <3>1, OpensAlike
    <3>5. ~alike => ~Opens(Reader(s, h), h.t.key)
      BY <3>1, OpensMixed
    <3> HIDE DEF alike
    <3>6. ~Accepted(s, h) <=> seen'.age > Expire \/ ~alike
      BY <3>2, <3>3, <3>4, <3>5 DEF Accepted
    <3> QED BY <3>1, <3>6 DEF RefusedExactly
  <2> QED BY <2>1, <2>2, <2>3, SeenStep
<1> QED BY <1>1, <1>2, Invariance, PTL DEF Spec

\* For every window: accepted early data was sent at most that long ago
\* (EarlyFresh).
THEOREM EarlyFreshTheorem == Spec => []EarlyFresh
<1>1. Init => EarlyFresh
  BY DEF Init, EarlyFresh, Nothing
<1>2. IInv /\ EarlyFresh /\ [Next]_vars => EarlyFresh'
  <2> SUFFICES ASSUME IInv, EarlyFresh, [Next]_vars PROVE EarlyFresh'
    OBVIOUS
  <2>1. CASE seen' = Nothing
    BY <2>1 DEF EarlyFresh, Nothing
  <2>2. CASE seen' = seen
    BY <2>2 DEF EarlyFresh
  <2>3. ASSUME NEW s \in Sessions, NEW h \in hellos, RecvHello(s, h) PROVE EarlyFresh'
    <3>1. (seen'.early => InWindow(h)) /\ seen'.delay = now - h.sent
      BY <2>3, SeenFields DEF AcceptsEarly
    <3>2. /\ h.t.created \in Nat /\ h.age \in Nat /\ h.sent \in Nat /\ now \in Nat
          /\ h.t.created + h.age <= h.sent
      BY DEF IInv, TypeOK, HelloType, TicketType, Tracked, GoodHello
    <3>3. InWindow(h) => now - h.sent <= Window
      BY <3>2, TicketsAssumption DEF InWindow
    <3> QED BY <3>1, <3>3 DEF EarlyFresh
  <2> QED BY <2>1, <2>2, <2>3, SeenStep
<1> QED BY <1>1, <1>2, Invariance, PTL DEF Spec

\* For every window, of whole seconds or not, and any number of deliveries: the
\* early data of a hello is accepted again only after its entry expired, or by
\* the check that starts the next recording (AcceptedAgain).
THEOREM AcceptedAgainTheorem == Spec => []AcceptedAgain
<1>1. Init => AcceptedAgain
  BY DEF Init, AcceptedAgain, Nothing
<1>2. IInv /\ AcceptedAgain /\ [Next]_vars => AcceptedAgain'
  <2> SUFFICES ASSUME IInv, AcceptedAgain, [Next]_vars PROVE AcceptedAgain'
    OBVIOUS
  <2>1. CASE seen' = Nothing
    BY <2>1 DEF AcceptedAgain, Nothing
  <2>2. CASE seen' = seen /\ now' = now
    BY <2>2 DEF AcceptedAgain
  <2>3. ASSUME NEW s \in Sessions, NEW h \in hellos, RecvHello(s, h) PROVE AcceptedAgain'
    <3> SUFFICES ASSUME seen'.early, NEW y \in seen'.before
                 PROVE  IF y.rec = seen'.rec THEN now' - y.at > Window - (Window % TPS) - TPS
                        ELSE seen'.rec = now' /\ now' > y.rec + Window
      BY DEF AcceptedAgain
    <3>1. /\ now' = now /\ seen'.rec = Rollover /\ Timely(h) /\ ~Replayed(h)
          /\ seen'.before = Before(h)
      BY <2>3, SeenFields DEF AcceptsEarly
    <3>2. PICK x \in db : x.key[2] = h.id /\ y = [rec |-> x.key[1], at |-> x.at]
      BY <3>1 DEF Before
    <3>3. /\ now \in Nat /\ start \in Nat /\ Rollover \in Nat /\ h.t.created \in Nat
          /\ start <= h.t.created /\ h.id \in Nat
      BY <3>1, RolloverFacts DEF IInv, TypeOK, HelloType, TicketType, Timely
    <3>4. x.key \in Nat \X Nat /\ x.key[1] \in Nat /\ x.exp \in Nat /\ x.at \in Nat
      BY DEF IInv, TypeOK
    <3>5. /\ x.key[1] <= start /\ ~(x.key[1] < start)
          /\ x.exp = Seconds(x.at) + Window \div TPS
      BY <3>2, <3>3, <3>4 DEF IInv, Recording, GoodEntry
    <3>6. x.key[1] = start /\ x.key = <<start, h.id>> /\ y.rec = start /\ y.at = x.at
      BY <3>2, <3>3, <3>4, <3>5
    <3>7. CASE Rollover = start
      <4>1. Entry(h).key = x.key
        BY <3>6, <3>7 DEF Entry
      <4>2. ~(Seconds(now) < x.exp)
        BY <3>1, <4>1 DEF Replayed, Recorded
      <4>3. Seconds(x.at) + Window \div TPS <= Seconds(now)
        <5>1. Seconds(now) \in Nat
          BY <3>3, SecondsNat
        <5> QED BY <3>4, <3>5, <4>2, <5>1
      <4>4. now - x.at > Window - (Window % TPS) - TPS
        BY <3>3, <3>4, <4>3, WindowPassed
      <4> QED BY <3>1, <3>6, <3>7, <4>4
    <3>8. CASE Rollover # start
      <4>1. Rollover = now /\ now > start + Window
        BY <3>8, RolloverFacts
      <4> QED BY <3>1, <3>6, <3>8, <4>1
    <3> QED BY <3>7, <3>8
  <2> QED BY <2>1, <2>2, <2>3, SeenStep
<1> QED BY <1>1, <1>2, Invariance, PTL DEF Spec
=============================================================================
