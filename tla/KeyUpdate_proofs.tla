-------------------------- MODULE KeyUpdate_proofs --------------------------
(* Proofs about KeyUpdate, for every bound on the keys and the chunks, both    *)
(* choices of the senders and every way to use the library.                    *)
EXTENDS KeyUpdate, SequenceTheorems, TLAPS

Calls == {"none", "send", "update", "uncork", "loop", "bye"}

Errors == {"none", "decryption_failed", "too_many_updates", "crossed_request",
           "repeated_request", "premature_termination"}

\* The records an endpoint of profile x sends; no key is beyond the bound.
Record(x) == {r \in [type : RecordTypes, gen : Nat, body : Nat] :
                 /\ r.type = "key_update" => r.gen < MaxUpdates
                 /\ r.type = "key_update" /\ r.body = 1 => x.requests}

SessionSet(x) ==
    [st : SendStates \cup {"KEY_UPDATE_3"}, state150 : BOOLEAN, asked : BOOLEAN,
     presend : Seq(Nat), kubuf : Nat, sendbuf : Seq(Record(x)), wire : Seq(Record(x)),
     wgen : Nat, wseq : Nat, rgen : Nat, recent : BOOLEAN, orig : SendStates,
     call : Calls, next : Nat, got : Seq(Nat), rbuf : Seq(Nat), bye : {0, 1, 2},
     eof : BOOLEAN, closed : BOOLEAN, noread : BOOLEAN, ended : BOOLEAN,
     error : Errors, due : BOOLEAN, skipped : BOOLEAN]

\* What endpoint e sent and its peer did not read.
Pipe(e) == e.wire \o e.sendbuf

\* The first part of the induction, for all profiles.
GoodSession(e, x) ==
    /\ e.st \in SendStates
    /\ e.next <= x.chunks
    /\ e.wgen <= MaxUpdates /\ e.rgen <= MaxUpdates
    /\ e.call = "update" => e.wgen < MaxUpdates
    /\ Corked(e) \/ e.call \in {"uncork", "loop"} => x.cork

Typed == /\ ep \in [Nodes -> SessionSet(prof)]
         /\ prof \in Profiles
         /\ \A p \in Nodes : GoodSession(ep[p], prof)

-----------------------------------------------------------------------------
\* The close_notify of e is on its way, or its reader f does not miss it.
Announced(e, f) == \/ e.ended \/ f.eof \/ f.error # "none"
                   \/ \E i \in 1..Len(Pipe(e)) : Pipe(e)[i].type = "alert"

Closing(e, f) ==
    /\ e.bye # 0 => e.call = "bye" /\ ~e.closed
    /\ e.closed => e.call = "none"
    /\ e.bye = 1 => e.sendbuf # <<>>
    /\ e.bye = 2 \/ e.closed => e.sendbuf = <<>>
    /\ e.bye # 0 \/ e.closed => Announced(e, f)

ByeInv == \A p \in Nodes : Closing(ep[p], ep[Peer(p)])

-----------------------------------------------------------------------------
Prompt(e, x) ==
    /\ ~e.skipped
    /\ e.due => x.requests
    /\ e.due /\ e.error = "none" => e.st = "KEY_UPDATE_1" /\ (e.state150 => e.call = "update")
    /\ ~x.cork /\ e.state150 => \/ e.call = "update"
                                \/ e.call = "send" /\ e.st \in {"KEY_UPDATE_1", "KEY_UPDATE_2"}

UpdInv == \A p \in Nodes : Prompt(ep[p], prof)

-----------------------------------------------------------------------------
(* The two endpoints, and the operators of the sending side.                 *)

\* Each of the two endpoints is the peer of the other.
LEMMA PeerOther ==
    ASSUME NEW p \in Nodes
    PROVE  /\ Peer(p) \in Nodes /\ Peer(p) # p /\ Peer(Peer(p)) = p
           /\ \A q \in Nodes : q = p \/ q = Peer(p)
<1>1. PICK a \in Nodes, b \in Nodes : a # b /\ Nodes = {a, b}
  BY KeyUpdateAssumption
<1>2. \A x \in Nodes : Peer(x) \in Nodes /\ Peer(x) # x
  BY <1>1 DEF Peer
<1>3. QED
  BY <1>1, <1>2

\* The fields that sending does not touch.
Kept(e, f) ==
    /\ f.presend = e.presend /\ f.rgen = e.rgen /\ f.recent = e.recent
    /\ f.orig = e.orig /\ f.call = e.call /\ f.next = e.next
    /\ f.got = e.got /\ f.rbuf = e.rbuf /\ f.bye = e.bye /\ f.eof = e.eof
    /\ f.closed = e.closed /\ f.noread = e.noread /\ f.ended = e.ended
    /\ f.error = e.error

\* The record that e encrypts next.
Rec(e, type, body) == [type |-> type, gen |-> e.wgen, body |-> body]

\* Encryption appends one record to the send buffer.
LEMMA EncryptFacts ==
    ASSUME NEW x, NEW e \in SessionSet(x), NEW type, NEW body, Rec(e, type, body) \in Record(x)
    PROVE  LET f == Encrypt(e, type, body)
           IN  /\ f \in SessionSet(x) /\ Kept(e, f)
               /\ f.sendbuf = Append(e.sendbuf, Rec(e, type, body))
               /\ f.wire = e.wire /\ f.wgen = e.wgen /\ f.st = e.st
               /\ f.state150 = e.state150 /\ f.kubuf = e.kubuf
               /\ f.due <=> (e.due /\ type # "key_update")
               /\ f.skipped <=> (e.skipped \/ (e.due /\ type = "data"))
<1> DEFINE f == Encrypt(e, type, body)
<1>1. /\ f.sendbuf = Append(e.sendbuf, Rec(e, type, body))
      /\ f.wire = e.wire /\ f.wgen = e.wgen /\ f.st = e.st
      /\ f.state150 = e.state150 /\ f.kubuf = e.kubuf
  BY DEF Encrypt, SessionSet, Rec
<1>2. Kept(e, f)
  BY DEF Encrypt, SessionSet, Kept
<1>3. f.due <=> (e.due /\ type # "key_update")
  BY DEF Encrypt, SessionSet
<1>4. f.skipped <=> (e.skipped \/ (e.due /\ type = "data"))
  BY DEF Encrypt, SessionSet
<1>5. Append(e.sendbuf, Rec(e, type, body)) \in Seq(Record(x))
  BY DEF SessionSet
<1>6. f \in SessionSet(x)
  <2> DEFINE d == e.due /\ type # "key_update"
             k == e.skipped \/ (e.due /\ type = "data")
             b == Append(e.sendbuf, Rec(e, type, body))
             w == e.wseq + 1
  <2>1. d \in BOOLEAN /\ k \in BOOLEAN /\ b \in Seq(Record(x)) /\ w \in Nat
    BY <1>5 DEF SessionSet
  <2>2. f = [e EXCEPT !.sendbuf = b, !.wseq = w, !.due = d, !.skipped = k]
    BY DEF Encrypt, Rec
  <2> HIDE DEF d, k, b, w, f
  <2> QED
    BY <2>1, <2>2 DEF SessionSet
<1> QED
  BY <1>1, <1>2, <1>3, <1>4, <1>6

\* The parts of a session that only encryption and key updates touch.
Idle(e, f) == /\ Kept(e, f) /\ f.wgen = e.wgen /\ f.state150 = e.state150
              /\ f.kubuf = e.kubuf

\* A record appended to the second of two sequences.
LEMMA JoinAppend ==
    ASSUME NEW S, NEW s \in Seq(S), NEW t \in Seq(S), NEW r \in S
    PROVE  s \o Append(t, r) = Append(s \o t, r)
<1>1. Append(t, r) = t \o <<r>> /\ <<r>> \in Seq(S)
  BY AppendIsConcat
<1>2. s \o (t \o <<r>>) = (s \o t) \o <<r>>
  BY <1>1, ConcatAssociative
<1>3. s \o t \in Seq(S)
  BY ConcatProperties
<1>4. Append(s \o t, r) = (s \o t) \o <<r>>
  BY <1>3, AppendIsConcat
<1> QED
  BY <1>1, <1>2, <1>4

\* Encryption appends to the pipe as well.
LEMMA EncryptPipe ==
    ASSUME NEW x, NEW e \in SessionSet(x), NEW type, NEW body, Rec(e, type, body) \in Record(x)
    PROVE  /\ Pipe(Encrypt(e, type, body)) = Append(Pipe(e), Rec(e, type, body))
           /\ Idle(e, Encrypt(e, type, body)) /\ Blocked(Encrypt(e, type, body))
           /\ Len(Encrypt(e, type, body).sendbuf) = Len(e.sendbuf) + 1
<1>1. e.wire \in Seq(Record(x)) /\ e.sendbuf \in Seq(Record(x))
  BY DEF SessionSet
<1> DEFINE f == Encrypt(e, type, body)
<1>2. /\ f.sendbuf = Append(e.sendbuf, Rec(e, type, body))
      /\ f.wire = e.wire /\ Idle(e, f)
  BY EncryptFacts DEF Idle
<1>3. f.wire \o f.sendbuf = Append(e.wire \o e.sendbuf, Rec(e, type, body))
  <2> DEFINE w == e.wire
             b == e.sendbuf
             r == Rec(e, type, body)
  <2>1. w \in Seq(Record(x)) /\ b \in Seq(Record(x)) /\ r \in Record(x)
    BY <1>1
  <2>2. f.wire = w /\ f.sendbuf = Append(b, r)
    BY <1>2
  <2> HIDE DEF w, b, r, f
  <2>3. w \o Append(b, r) = Append(w \o b, r)
    BY <2>1, JoinAppend
  <2> QED
    BY <2>2, <2>3 DEF w, b, r
<1>4. Len(f.sendbuf) = Len(e.sendbuf) + 1
  BY <1>1, <1>2, AppendProperties
<1>5. Len(e.sendbuf) \in Nat /\ Len(f.sendbuf) # 0
  BY <1>1, <1>4, LenProperties
<1>6. f.sendbuf # <<>>
  BY <1>5, EmptySeq
<1> QED
  BY <1>2, <1>3, <1>4, <1>6 DEF Pipe, Blocked

\* Flushing moves records from the send buffer to the wire.
LEMMA FlushFacts ==
    ASSUME NEW x, NEW e \in SessionSet(x), NEW n \in 0..Len(e.sendbuf)
    PROVE  LET f == Flush(e, n)
           IN  /\ f \in SessionSet(x) /\ Idle(e, f) /\ Pipe(f) = Pipe(e)
               /\ f.st = e.st /\ f.due = e.due /\ f.skipped = e.skipped
               /\ Blocked(f) <=> n # Len(e.sendbuf)
<1> DEFINE f == Flush(e, n)
           a == SubSeq(e.sendbuf, 1, n)
           w == e.wire \o a
           b == SubSeq(e.sendbuf, n + 1, Len(e.sendbuf))
<1>1. e.wire \in Seq(Record(x)) /\ e.sendbuf \in Seq(Record(x))
  BY DEF SessionSet
<1>2. /\ w \in Seq(Record(x)) /\ b \in Seq(Record(x))
      /\ w \o b = e.wire \o e.sendbuf /\ Len(b) = Len(e.sendbuf) - n
  <2> DEFINE s == e.wire
             t == e.sendbuf
  <2>1. s \in Seq(Record(x)) /\ t \in Seq(Record(x)) /\ n \in 0..Len(t) /\ Len(t) \in Nat
    BY <1>1, LenProperties
  <2>2. a = SubSeq(t, 1, n) /\ b = SubSeq(t, n + 1, Len(t)) /\ w = s \o a
    OBVIOUS
  <2> HIDE DEF s, t, a, b, w
  <2>3. a \in Seq(Record(x)) /\ b \in Seq(Record(x)) /\ Len(b) = Len(t) - n
    BY <2>1, <2>2, SubSeqProperties
  <2>4. a \o b = SubSeq(t, 1, Len(t))
    <3>1. 1 \in 1..(Len(t) + 1) /\ n \in (1 - 1)..Len(t) /\ Len(t) \in n..Len(t)
      BY <2>1
    <3> QED
      BY <2>1, <2>2, <3>1, ConcatAdjacentSubSeq, Zenon
  <2>5. SubSeq(t, 1, Len(t)) = t
    BY <2>1, SubSeqFull
  <2>6. (s \o a) \o b = s \o (a \o b) /\ s \o a \in Seq(Record(x))
    <3> DEFINE R == Record(x)
    <3>0. s \in Seq(R) /\ a \in Seq(R) /\ b \in Seq(R)
      BY <2>1, <2>3, Zenon
    <3> HIDE DEF R
    <3>1. (s \o a) \o b = s \o (a \o b)
      BY <3>0, ConcatAssociative, SMTT(40)
    <3>2. s \o a \in Seq(Record(x))
      BY <2>1, <2>3, ConcatProperties, Zenon
    <3> QED BY <3>1, <3>2, Zenon
  <2> QED
    BY <2>2, <2>3, <2>4, <2>5, <2>6 DEF s, t
<1>3. f = [e EXCEPT !.wire = w, !.sendbuf = b]
  BY DEF Flush
<1>4. b = <<>> <=> n = Len(e.sendbuf)
  <2>1. b = <<>> <=> Len(b) = 0
    BY <1>2, EmptySeq
  <2>2. Len(e.sendbuf) \in Nat
    BY <1>1, LenProperties
  <2> QED
    BY <1>2, <2>1, <2>2
<1> HIDE DEF f, w, b
<1>5. f \in SessionSet(x)
  BY <1>2, <1>3 DEF SessionSet
<1>6. f.wire = w /\ f.sendbuf = b
  BY <1>3 DEF SessionSet
<1>7. Idle(e, f) /\ f.st = e.st
  BY <1>3 DEF SessionSet, Idle, Kept
<1>8. f.due = e.due /\ f.skipped = e.skipped
  BY <1>3 DEF SessionSet
<1> QED
  BY <1>2, <1>4, <1>5, <1>6, <1>7, <1>8 DEF Pipe, Blocked, f

\* The automatic re-key only changes the state.
LEMMA MarkFacts ==
    ASSUME NEW x, NEW e \in SessionSet(x)
    PROVE  LET f == MarkRekey(e)
           IN  /\ f \in SessionSet(x) /\ Idle(e, f) /\ Pipe(f) = Pipe(e)
               /\ f.sendbuf = e.sendbuf /\ f.due = e.due /\ f.skipped = e.skipped
               /\ f.st = e.st \/ (f.st = "KEY_UPDATE_1" /\ prof.rekey # 0)
<1> DEFINE g == [e EXCEPT !.st = "KEY_UPDATE_1"]
<1>1. g \in SessionSet(x)
  BY DEF SessionSet, SendStates
<1>2. g.st = "KEY_UPDATE_1" /\ g.wire = e.wire /\ g.sendbuf = e.sendbuf /\ Idle(e, g)
  BY DEF SessionSet, Idle, Kept
<1>3. g.due = e.due /\ g.skipped = e.skipped
  BY DEF SessionSet
<1>4. Idle(e, e)
  BY DEF Idle, Kept
<1>5. MarkRekey(e) = e \/ (MarkRekey(e) = g /\ prof.rekey # 0)
  BY DEF MarkRekey
<1> HIDE DEF g
<1> QED
  BY <1>1, <1>2, <1>3, <1>4, <1>5 DEF Pipe

\* Idle is transitive.
LEMMA IdleTrans ==
    ASSUME NEW e, NEW f, NEW g, Idle(e, f), Idle(f, g)
    PROVE  Idle(e, g)
BY DEF Idle, Kept

\* How much the transport takes.
LEMMA TakesFacts ==
    ASSUME NEW k \in Nat, NEW n \in Takes(k)
    PROVE  n \in 0..k /\ (~prof.nonblock => n = k)
BY DEF Takes

\* What a session looks like after data or an alert was sent: one more record,
\* unless one was left over.
Sends(e, f, type, body) ==
    /\ f.wgen = e.wgen /\ f.state150 = e.state150 /\ f.kubuf = e.kubuf
    /\ Blocked(e) => Pipe(f) = Pipe(e) /\ f.skipped = e.skipped
    /\ ~Blocked(e) => /\ Pipe(f) = Append(Pipe(e), Rec(e, type, body))
                      /\ f.skipped <=> (e.skipped \/ (e.due /\ type = "data"))
    /\ f.due = e.due
    /\ f.st = e.st \/ (f.st = "KEY_UPDATE_1" /\ ~Blocked(f) /\ prof.rekey # 0)
    /\ ~prof.nonblock => ~Blocked(f)

\* _gnutls_send_tlen_int does that.
LEMMA SendTlenFacts ==
    ASSUME NEW x, NEW e \in SessionSet(x), NEW type \in {"data", "alert"}, NEW body \in Nat,
           NEW n \in Takes(IF Blocked(e) THEN Len(e.sendbuf) ELSE 1)
    PROVE  /\ SendTlen(e, type, body, n) \in SessionSet(x)
           /\ Kept(e, SendTlen(e, type, body, n))
           /\ Sends(e, SendTlen(e, type, body, n), type, body)
<1> DEFINE d == IF Blocked(e) THEN e ELSE Encrypt(e, type, body)
           f == Flush(d, n)
           g == SendTlen(e, type, body, n)
<1>1. e.wgen \in Nat /\ e.sendbuf \in Seq(Record(x))
  BY DEF SessionSet
<1>2. Rec(e, type, body) \in Record(x)
  BY <1>1 DEF Rec, Record, RecordTypes
<1>3. Idle(e, e) /\ Len(e.sendbuf) \in Nat /\ (~Blocked(e) => Len(e.sendbuf) = 0)
  BY <1>1, LenProperties, EmptySeq DEF Idle, Kept, Blocked
<1>4. /\ d \in SessionSet(x) /\ Idle(e, d) /\ d.st = e.st
      /\ Blocked(e) => Pipe(d) = Pipe(e) /\ d.skipped = e.skipped /\ d.due = e.due
      /\ ~Blocked(e) => /\ Pipe(d) = Append(Pipe(e), Rec(e, type, body))
                        /\ d.skipped <=> (e.skipped \/ (e.due /\ type = "data"))
                        /\ d.due <=> (e.due /\ type # "key_update")
      /\ Len(d.sendbuf) = IF Blocked(e) THEN Len(e.sendbuf) ELSE 1
  <2>1. CASE Blocked(e)
    BY <1>3, <2>1
  <2>2. CASE ~Blocked(e)
    <3>1. d = Encrypt(e, type, body)
      BY <2>2
    <3> HIDE DEF d
    <3>2. d \in SessionSet(x) /\ d.st = e.st
      BY <1>2, <3>1, EncryptFacts
    <3>3. /\ d.skipped <=> (e.skipped \/ (e.due /\ type = "data"))
          /\ d.due <=> (e.due /\ type # "key_update")
      BY <1>2, <3>1, EncryptFacts
    <3>4. /\ Pipe(d) = Append(Pipe(e), Rec(e, type, body)) /\ Idle(e, d)
          /\ Len(d.sendbuf) = Len(e.sendbuf) + 1
      BY <1>2, <3>1, EncryptPipe
    <3>5. Len(d.sendbuf) = 1
      BY <1>3, <2>2, <3>4
    <3> QED
      BY <2>2, <3>2, <3>3, <3>4, <3>5
  <2> QED
    BY <2>1, <2>2
<1>5. d.due = e.due
  <2>1. e.due \in BOOLEAN /\ d.due \in BOOLEAN
    BY <1>4 DEF SessionSet
  <2> QED
    BY <1>4, <2>1
<1>6. n \in 0..Len(d.sendbuf) /\ (~prof.nonblock => n = Len(d.sendbuf))
  BY <1>3, <1>4, TakesFacts
<1> HIDE DEF d
<1>7. /\ f \in SessionSet(x) /\ Idle(d, f) /\ Pipe(f) = Pipe(d)
      /\ f.st = d.st /\ f.due = d.due /\ f.skipped = d.skipped
      /\ Blocked(f) <=> n # Len(d.sendbuf)
  BY <1>4, <1>6, FlushFacts
<1>8. g = IF Blocked(f) THEN f ELSE MarkRekey(f)
  BY DEF SendTlen, d
<1> HIDE DEF f, g
<1>9. /\ g \in SessionSet(x) /\ Idle(f, g) /\ Pipe(g) = Pipe(f) /\ g.due = f.due
      /\ g.skipped = f.skipped /\ (Blocked(g) <=> Blocked(f))
      /\ g.st = f.st \/ (g.st = "KEY_UPDATE_1" /\ ~Blocked(f) /\ prof.rekey # 0)
  <2>1. Idle(f, f)
    BY DEF Idle, Kept
  <2> QED
    BY <1>7, <1>8, <2>1, MarkFacts DEF Blocked
<1>10. Idle(e, g)
  BY <1>4, <1>7, <1>9, IdleTrans
<1> QED
  BY <1>4, <1>5, <1>6, <1>7, <1>9, <1>10 DEF Sends, Idle, g

\* The pipe after the key update message of e, which an interrupted call has
\* already put there.
AfterUpdate(e, byte) == IF e.state150 THEN Pipe(e)
                        ELSE Append(Pipe(e), Rec(e, "key_update", byte))

\* A session after gnutls_session_key_update.
Updates(e, f, byte) ==
    /\ f.kubuf = e.kubuf /\ f.skipped = e.skipped
    /\ Pipe(f) = AfterUpdate(e, byte)
    /\ f.due <=> (e.due /\ e.state150)
    /\ Blocked(f) => f.state150 /\ f.wgen = e.wgen
    /\ ~Blocked(f) => ~f.state150 /\ f.wgen = e.wgen + 1
    /\ f.st = e.st \/ (f.st = "KEY_UPDATE_1" /\ prof.rekey # 0)
    /\ ~prof.nonblock => ~Blocked(f)

\* There is a number of records to get out.
LEMMA UpdateRecordsNat ==
    ASSUME NEW x, NEW e \in SessionSet(x)
    PROVE  UpdateRecords(e) \in Nat
<1>1. Len(e.sendbuf) \in Nat
  BY LenProperties DEF SessionSet
<1>2. CASE e.state150
  BY <1>1, <1>2 DEF UpdateRecords
<1>3. CASE ~e.state150
  BY <1>1, <1>3 DEF UpdateRecords
<1> QED
  BY <1>2, <1>3

\* gnutls_session_key_update, new or repeated.
LEMMA SessionKeyUpdateFacts ==
    ASSUME NEW x, NEW e \in SessionSet(x), e.wgen < MaxUpdates,
           NEW ask \in BOOLEAN, ask => x.requests,
           NEW n \in Takes(UpdateRecords(e))
    PROVE  /\ SessionKeyUpdate(e, ask, n) \in SessionSet(x)
           /\ Kept(e, SessionKeyUpdate(e, ask, n))
           /\ Updates(e, SessionKeyUpdate(e, ask, n), RequestByte(ask))
<1> DEFINE by == RequestByte(ask)
           a == e.asked \/ ask
           e0 == [e EXCEPT !.asked = a]
           d == Encrypt(e0, "key_update", by)
           q == IF e.state150 THEN e ELSE MarkRekey(d)
           f == Flush(q, n)
           g == SessionKeyUpdate(e, ask, n)
           u == f.wgen + 1
<1>1. e.wgen \in Nat /\ e.sendbuf \in Seq(Record(x)) /\ Len(e.sendbuf) \in Nat
  BY LenProperties DEF SessionSet
<1>2. /\ e0 \in SessionSet(x) /\ Idle(e, e0) /\ Pipe(e0) = Pipe(e) /\ e0.sendbuf = e.sendbuf
      /\ e0.st = e.st /\ e0.due = e.due /\ e0.skipped = e.skipped
  <2>1. a \in BOOLEAN
    OBVIOUS
  <2> HIDE DEF a
  <2>2. e0 \in SessionSet(x)
    BY <2>1 DEF SessionSet
  <2>3. e0.sendbuf = e.sendbuf /\ e0.wire = e.wire /\ e0.st = e.st /\ Idle(e, e0)
    BY DEF SessionSet, Idle, Kept
  <2>4. e0.due = e.due /\ e0.skipped = e.skipped
    BY DEF SessionSet
  <2> QED
    BY <2>2, <2>3, <2>4 DEF Pipe
<1>3. Rec(e0, "key_update", by) = Rec(e, "key_update", by) /\ by \in Nat /\ (by = 1 => ask)
  BY <1>2 DEF Rec, Idle, RequestByte
<1>4. Rec(e0, "key_update", by) \in Record(x)
  <2> HIDE DEF by, e0
  <2> QED
    BY <1>1, <1>3 DEF Rec, Record, RecordTypes
<1> HIDE DEF by, e0
<1>5. /\ d \in SessionSet(x) /\ Idle(e0, d) /\ d.st = e0.st
      /\ Pipe(d) = Append(Pipe(e), Rec(e, "key_update", by))
      /\ Len(d.sendbuf) = Len(e.sendbuf) + 1
  BY <1>2, <1>3, <1>4, EncryptFacts, EncryptPipe
<1>6. ~d.due /\ (d.skipped <=> e.skipped)
  BY <1>2, <1>4, EncryptFacts
<1>7. d.skipped = e.skipped
  BY <1>5, <1>6 DEF SessionSet
<1> HIDE DEF d
<1>8. /\ q \in SessionSet(x) /\ Idle(e, q) /\ Pipe(q) = AfterUpdate(e, by)
      /\ q.st = e.st \/ (q.st = "KEY_UPDATE_1" /\ prof.rekey # 0)
      /\ Len(q.sendbuf) = UpdateRecords(e)
  <2>1. CASE e.state150
    <3>1. q = e
      BY <2>1
    <3>2. Idle(e, e)
      BY DEF Idle, Kept
    <3> QED
      BY <1>1, <2>1, <3>1, <3>2 DEF AfterUpdate, UpdateRecords
  <2>2. CASE ~e.state150
    <3>1. q = MarkRekey(d)
      BY <2>2
    <3>2. Idle(e, d)
      BY <1>2, <1>5, IdleTrans
    <3> HIDE DEF q
    <3>3. /\ q \in SessionSet(x) /\ Idle(d, q) /\ Pipe(q) = Pipe(d) /\ q.sendbuf = d.sendbuf
          /\ q.st = d.st \/ (q.st = "KEY_UPDATE_1" /\ prof.rekey # 0)
      BY <1>5, <3>1, MarkFacts
    <3>4. Idle(e, q)
      BY <3>2, <3>3, IdleTrans
    <3> QED
      BY <1>2, <1>5, <2>2, <3>3, <3>4 DEF AfterUpdate, UpdateRecords
  <2> QED
    BY <2>1, <2>2
<1>9. q.skipped = e.skipped /\ (q.due <=> (e.due /\ e.state150))
  <2>1. MarkRekey(d).due = d.due /\ MarkRekey(d).skipped = d.skipped
    BY <1>5, MarkFacts
  <2> QED
    BY <1>6, <1>7, <2>1
<1>10. n \in 0..Len(q.sendbuf) /\ (~prof.nonblock => n = Len(q.sendbuf))
  <2>1. UpdateRecords(e) \in Nat
    BY UpdateRecordsNat
  <2>2. n \in 0..UpdateRecords(e) /\ (~prof.nonblock => n = UpdateRecords(e))
    BY <2>1, TakesFacts
  <2>3. Len(q.sendbuf) = UpdateRecords(e)
    BY <1>8
  <2> HIDE DEF q
  <2> QED
    BY <2>2, <2>3
<1> HIDE DEF q
<1>11. /\ f \in SessionSet(x) /\ Idle(q, f) /\ Pipe(f) = Pipe(q)
       /\ f.st = q.st /\ f.due = q.due /\ f.skipped = q.skipped
       /\ Blocked(f) <=> n # Len(q.sendbuf)
  BY <1>8, <1>10, FlushFacts
<1>12. Idle(e, f)
  BY <1>8, <1>11, IdleTrans
<1>13. g = IF Blocked(f) THEN [f EXCEPT !.state150 = TRUE]
           ELSE [f EXCEPT !.state150 = FALSE, !.wgen = u, !.wseq = 0]
  BY DEF SessionKeyUpdate, q, d, e0, by
<1>14. u \in Nat /\ u = e.wgen + 1
  BY <1>1, <1>12 DEF Idle
<1> HIDE DEF f, g, u
<1>15. g \in SessionSet(x)
  BY <1>11, <1>13, <1>14, ZenonT(40) DEF SessionSet
<1>16. Kept(f, g) /\ g.kubuf = f.kubuf /\ g.wire = f.wire /\ g.sendbuf = f.sendbuf /\ g.st = f.st
  BY <1>11, <1>13 DEF SessionSet, Kept
<1>17. g.due = f.due /\ g.skipped = f.skipped
  BY <1>11, <1>13 DEF SessionSet
<1>18. /\ Blocked(f) => g.state150 /\ g.wgen = f.wgen
       /\ ~Blocked(f) => ~g.state150 /\ g.wgen = u
  BY <1>11, <1>13 DEF SessionSet
<1>19. Kept(e, g)
  BY <1>12, <1>16 DEF Idle, Kept
<1>20. Pipe(g) = AfterUpdate(e, by) /\ (Blocked(g) <=> Blocked(f))
  BY <1>8, <1>11, <1>16 DEF Pipe, Blocked
<1>21. /\ g.kubuf = e.kubuf /\ g.skipped = e.skipped
       /\ g.st = e.st \/ (g.st = "KEY_UPDATE_1" /\ prof.rekey # 0)
       /\ Blocked(g) => g.wgen = e.wgen
       /\ ~Blocked(g) => g.wgen = e.wgen + 1
       /\ ~prof.nonblock => ~Blocked(g)
  BY <1>8, <1>9, <1>10, <1>11, <1>12, <1>14, <1>16, <1>17, <1>18, <1>20 DEF Idle
<1>22. /\ g.due <=> (e.due /\ e.state150)
       /\ Blocked(g) <=> g.state150
  BY <1>9, <1>11, <1>17, <1>18, <1>20
<1> QED
  BY <1>15, <1>19, <1>20, <1>21, <1>22 DEF Updates, g, by

Updating(e) == e.st \in {"KEY_UPDATE_1", "KEY_UPDATE_2"}

\* The chunk that is sent after the key update.
Deferred(e, chunk) == IF e.st = "KEY_UPDATE_1" THEN chunk ELSE e.kubuf

\* gnutls_record_send interrupted in the key update ...
Interrupted(e, f, chunk) ==
    /\ f.kubuf = Deferred(e, chunk) /\ f.skipped = e.skipped
    /\ Pipe(f) = AfterUpdate(e, 0)
    /\ f.due <=> (e.due /\ e.state150)
    /\ f.state150 /\ f.wgen = e.wgen /\ Updating(f)
    /\ Blocked(f) /\ prof.nonblock

\* ... or beyond it, when the data follows under the new key.
Updated(e, f, chunk) ==
    /\ Pipe(f) = Append(AfterUpdate(e, 0), [type |-> "data", gen |-> e.wgen + 1,
                                            body |-> Deferred(e, chunk)])
    /\ f.due <=> (e.due /\ e.state150)
    /\ f.skipped <=> (e.skipped \/ (e.due /\ e.state150))
    /\ ~f.state150 /\ f.wgen = e.wgen + 1 /\ f.st = "NORMAL"
    /\ ~prof.nonblock => ~Blocked(f)

\* The key update within gnutls_record_send.
LEMMA RecordSendUpdateFacts ==
    ASSUME NEW x, NEW e \in SessionSet(x), e.wgen < MaxUpdates, Updating(e), NEW chunk \in Nat,
           NEW n \in Takes(UpdateRecords(e))
    PROVE  LET f == RecordSendUpdate(e, chunk, n)
           IN  /\ f \in SessionSet(x)
               /\ Kept(e, f) /\ f.kubuf = Deferred(e, chunk) /\ f.skipped = e.skipped
               /\ Pipe(f) = AfterUpdate(e, 0)
               /\ f.due <=> (e.due /\ e.state150)
               /\ Blocked(f) => f.state150 /\ f.wgen = e.wgen /\ Updating(f) /\ prof.nonblock
               /\ ~Blocked(f) => ~f.state150 /\ f.wgen = e.wgen + 1
<1> DEFINE q == IF e.st = "KEY_UPDATE_1" THEN [e EXCEPT !.kubuf = chunk, !.st = "KEY_UPDATE_2"]
                ELSE e
           g == SessionKeyUpdate(q, FALSE, n)
           f == RecordSendUpdate(e, chunk, n)
<1>1. q \in SessionSet(x)
  <2>1. [e EXCEPT !.kubuf = chunk, !.st = "KEY_UPDATE_2"] \in SessionSet(x)
    BY DEF SessionSet, SendStates
  <2> QED
    BY <2>1
<1>2. /\ q.wire = e.wire /\ q.sendbuf = e.sendbuf /\ q.wgen = e.wgen /\ q.state150 = e.state150
      /\ q.kubuf = Deferred(e, chunk) /\ q.st = "KEY_UPDATE_2"
  BY DEF SessionSet, Deferred, Updating
<1>3. Kept(e, q) /\ q.skipped = e.skipped /\ q.due = e.due
  BY DEF SessionSet, Kept
<1> HIDE DEF q
<1>4. AfterUpdate(q, 0) = AfterUpdate(e, 0)
  BY <1>2 DEF AfterUpdate, Pipe, Rec
<1>5. g \in SessionSet(x) /\ Kept(q, g) /\ Updates(q, g, 0)
  <2>1. RequestByte(FALSE) = 0
    BY DEF RequestByte
  <2>2. n \in Takes(UpdateRecords(q))
    BY <1>2 DEF UpdateRecords
  <2>3. /\ SessionKeyUpdate(q, FALSE, n) \in SessionSet(x)
        /\ Kept(q, SessionKeyUpdate(q, FALSE, n))
        /\ Updates(q, SessionKeyUpdate(q, FALSE, n), RequestByte(FALSE))
    BY <1>1, <1>2, <2>2, SessionKeyUpdateFacts
  <2> QED
    BY <2>1, <2>3
<1>6. f = IF Blocked(g) THEN g ELSE [g EXCEPT !.st = "KEY_UPDATE_3"]
  BY DEF RecordSendUpdate, q
<1> HIDE DEF g, f
<1>7. f \in SessionSet(x)
  BY <1>5, <1>6 DEF SessionSet
<1>8. /\ Kept(g, f) /\ f.kubuf = g.kubuf /\ f.wire = g.wire /\ f.sendbuf = g.sendbuf
      /\ f.wgen = g.wgen /\ (Blocked(g) => f.st = g.st)
  BY <1>5, <1>6 DEF SessionSet, Kept
<1>9. f.skipped = g.skipped /\ f.due = g.due /\ f.state150 = g.state150
  BY <1>5, <1>6 DEF SessionSet
<1>10. Kept(e, f)
  BY <1>3, <1>5, <1>8 DEF Kept, Updates
<1>11. Pipe(f) = AfterUpdate(e, 0) /\ (Blocked(f) <=> Blocked(g))
  BY <1>4, <1>5, <1>8 DEF Pipe, Blocked, Updates
<1>12. f.kubuf = Deferred(e, chunk) /\ f.skipped = e.skipped
  BY <1>2, <1>3, <1>5, <1>8, <1>9 DEF Updates
<1>13. f.due <=> (e.due /\ e.state150)
  BY <1>2, <1>3, <1>5, <1>9 DEF Updates
<1>14. /\ Blocked(f) => f.state150 /\ f.wgen = e.wgen /\ Updating(f) /\ prof.nonblock
       /\ ~Blocked(f) => ~f.state150 /\ f.wgen = e.wgen + 1
  BY <1>2, <1>5, <1>8, <1>9, <1>11 DEF Updates, Updating
<1> QED
  BY <1>7, <1>10, <1>11, <1>12, <1>13, <1>14 DEF f

\* The data that waited for the key update.
LEMMA RecordSendBufferedFacts ==
    ASSUME NEW x, NEW e \in SessionSet(x), ~Blocked(e), NEW m \in Takes(1)
    PROVE  LET f == RecordSendBuffered(e, m)
           IN  /\ f \in SessionSet(x) /\ Kept(e, f)
               /\ Pipe(f) = Append(Pipe(e), Rec(e, "data", e.kubuf))
               /\ f.due = e.due /\ (f.skipped <=> (e.skipped \/ e.due))
               /\ f.state150 = e.state150 /\ f.wgen = e.wgen /\ f.st = "NORMAL"
               /\ ~prof.nonblock => ~Blocked(f)
<1> DEFINE g == SendTlen(e, "data", e.kubuf, m)
           f == RecordSendBuffered(e, m)
<1>1. e.kubuf \in Nat
  BY DEF SessionSet
<1>2. g \in SessionSet(x) /\ Kept(e, g) /\ Sends(e, g, "data", e.kubuf)
  BY <1>1, SendTlenFacts
<1>3. f = [g EXCEPT !.kubuf = 0, !.st = "NORMAL"]
  BY DEF RecordSendBuffered
<1> HIDE DEF f, g
<1>4. f \in SessionSet(x)
  BY <1>2, <1>3 DEF SessionSet, SendStates
<1>5. /\ Kept(g, f) /\ f.wire = g.wire /\ f.sendbuf = g.sendbuf /\ f.wgen = g.wgen
      /\ f.st = "NORMAL"
  BY <1>2, <1>3 DEF SessionSet, Kept
<1>6. f.due = g.due /\ f.skipped = g.skipped /\ f.state150 = g.state150
  BY <1>2, <1>3 DEF SessionSet
<1>7. Pipe(f) = Pipe(g) /\ (Blocked(f) <=> Blocked(g))
  BY <1>5 DEF Pipe, Blocked
<1>8. Kept(e, f) /\ f.wgen = e.wgen
  BY <1>2, <1>5 DEF Kept, Sends
<1>9. f.skipped <=> (e.skipped \/ e.due)
  BY <1>2, <1>6 DEF Sends
<1>10. f.due = e.due /\ f.state150 = e.state150
  BY <1>2, <1>6 DEF Sends
<1> QED
  BY <1>2, <1>4, <1>5, <1>7, <1>8, <1>9, <1>10 DEF Sends, f

\* gnutls_record_send as a whole.
SendsData(e, f, chunk) ==
    \/ Updating(e) /\ Interrupted(e, f, chunk)
    \/ Updating(e) /\ Updated(e, f, chunk)
    \/ ~Updating(e) /\ Sends(e, f, "data", chunk)

\* These are the ways in which the call may end.
LEMMA RecordSendFacts ==
    ASSUME NEW x, NEW e \in SessionSet(x), NEW chunk \in Nat, NEW f \in RecordSend(e, chunk),
           Updating(e) => e.wgen < MaxUpdates
    PROVE  f \in SessionSet(x) /\ Kept(e, f) /\ SendsData(e, f, chunk)
<1>1. CASE ~Updating(e)
  <2>1. PICK n \in Takes(IF Blocked(e) THEN Len(e.sendbuf) ELSE 1) :
           f = SendTlen(e, "data", chunk, n)
    BY <1>1 DEF RecordSend, Updating
  <2> QED
    BY <1>1, <2>1, SendTlenFacts DEF SendsData
<1>2. CASE Updating(e)
  <2> DEFINE C(n) == RecordSendUpdate(e, chunk, n)
  <2>1. \/ \E n \in Takes(UpdateRecords(e)) : f = C(n) /\ Blocked(C(n))
        \/ \E n \in Takes(UpdateRecords(e)), m \in Takes(1) :
              ~Blocked(C(n)) /\ f = RecordSendBuffered(C(n), m)
    BY <1>2 DEF RecordSend, Updating
  <2>2. ASSUME NEW n \in Takes(UpdateRecords(e)) PROVE
           /\ C(n) \in SessionSet(x)
           /\ Kept(e, C(n)) /\ C(n).kubuf = Deferred(e, chunk) /\ C(n).skipped = e.skipped
           /\ Pipe(C(n)) = AfterUpdate(e, 0)
           /\ C(n).due <=> (e.due /\ e.state150)
           /\ Blocked(C(n)) => /\ C(n).state150 /\ C(n).wgen = e.wgen
                               /\ Updating(C(n)) /\ prof.nonblock
           /\ ~Blocked(C(n)) => ~C(n).state150 /\ C(n).wgen = e.wgen + 1
    BY <1>2, RecordSendUpdateFacts
  <2> HIDE DEF C
  <2>3. ASSUME NEW n \in Takes(UpdateRecords(e)), f = C(n), Blocked(C(n))
        PROVE  f \in SessionSet(x) /\ Kept(e, f) /\ Interrupted(e, f, chunk)
    BY <2>2, <2>3 DEF Interrupted
  <2>4. ASSUME NEW n \in Takes(UpdateRecords(e)), NEW m \in Takes(1),
               ~Blocked(C(n)), f = RecordSendBuffered(C(n), m)
        PROVE  f \in SessionSet(x) /\ Kept(e, f) /\ Updated(e, f, chunk)
    <3> DEFINE c == C(n)
    <3>1. /\ c \in SessionSet(x)
          /\ Kept(e, c) /\ c.kubuf = Deferred(e, chunk) /\ c.skipped = e.skipped
          /\ Pipe(c) = AfterUpdate(e, 0)
          /\ c.due <=> (e.due /\ e.state150)
          /\ ~c.state150 /\ c.wgen = e.wgen + 1 /\ ~Blocked(c)
      BY <2>2, <2>4
    <3>2. f = RecordSendBuffered(c, m)
      BY <2>4
    <3> HIDE DEF c
    <3>3. /\ f \in SessionSet(x) /\ Kept(c, f)
          /\ Pipe(f) = Append(Pipe(c), Rec(c, "data", c.kubuf))
          /\ f.wgen = c.wgen /\ f.st = "NORMAL" /\ (~prof.nonblock => ~Blocked(f))
      BY <3>1, <3>2, RecordSendBufferedFacts
    <3>4. f.due = c.due /\ (f.skipped <=> (c.skipped \/ c.due)) /\ f.state150 = c.state150
      BY <3>1, <3>2, RecordSendBufferedFacts
    <3>5. Kept(e, f)
      BY <3>1, <3>3 DEF Kept
    <3>6. Pipe(f) = Append(AfterUpdate(e, 0), [type |-> "data", gen |-> e.wgen + 1,
                                               body |-> Deferred(e, chunk)])
      BY <3>1, <3>3 DEF Rec
    <3>7. /\ f.due <=> (e.due /\ e.state150)
          /\ f.skipped <=> (e.skipped \/ (e.due /\ e.state150))
          /\ ~f.state150
      BY <3>1, <3>4
    <3> QED
      BY <3>1, <3>3, <3>5, <3>6, <3>7 DEF Updated
  <2> QED
    BY <1>2, <2>1, <2>3, <2>4 DEF SendsData
<1> QED
  BY <1>1, <1>2

-----------------------------------------------------------------------------
(* The receiving side.                                                       *)

\* The fields that receiving does not touch.
Untouched(e, f) ==
    /\ f.presend = e.presend /\ f.kubuf = e.kubuf /\ f.sendbuf = e.sendbuf
    /\ f.wire = e.wire /\ f.wgen = e.wgen /\ f.state150 = e.state150
    /\ f.orig = e.orig /\ f.call = e.call /\ f.next = e.next /\ f.bye = e.bye
    /\ f.closed = e.closed /\ f.noread = e.noread /\ f.ended = e.ended
    /\ f.skipped = e.skipped

\* A record that is refused is fatal and leaves the data as they are ...
Refused(e, f, r) ==
    /\ f.error # "none" /\ f.eof = e.eof /\ f.got = e.got /\ f.rbuf = e.rbuf
    /\ f.st = e.st /\ f.due = e.due
    /\ f.error = "decryption_failed" => r.gen # e.rgen
    /\ f.rgen = e.rgen \/ (f.rgen = e.rgen + 1 /\ r.gen = e.rgen /\ r.type = "key_update")

\* How many keys a record moves its reader on.
Step(r) == IF r.type = "key_update" THEN 1 ELSE 0

\* ... and one that is accepted is data, a key update or the end.
Accepted(e, f, r, wanted) ==
    /\ f.error = e.error /\ r.gen = e.rgen /\ f.rgen = e.rgen + Step(r)
    /\ f.got = IF r.type = "data" /\ wanted = "data" THEN Append(e.got, r.body) ELSE e.got
    /\ f.rbuf = IF r.type = "data" /\ wanted # "data" THEN Append(e.rbuf, r.body) ELSE e.rbuf
    /\ f.eof <=> (e.eof \/ r.type = "alert")
    /\ \/ f.st = e.st /\ f.due = e.due
       \/ /\ r.type = "key_update" /\ r.body = 1
          /\ \/ e.st = "NORMAL" /\ f.st = "KEY_UPDATE_1"
             \/ e.st = "CORKED" /\ f.st = "CORKED_TO_KU"

\* A key update message is refused or accepted.
LEMMA RecvKeyUpdateFacts ==
    ASSUME NEW x, NEW e \in SessionSet(x), NEW r \in Record(x), NEW wanted,
           r.gen = e.rgen, r.type = "key_update"
    PROVE  LET f == RecvKeyUpdate(e, r.body = 1)
           IN  /\ f \in SessionSet(x) /\ Untouched(e, f)
               /\ Refused(e, f, r) \/ Accepted(e, f, r, wanted)
<1> DEFINE f == RecvKeyUpdate(e, r.body = 1)
           u == e.rgen + 1
           upd == [e EXCEPT !.recent = TRUE, !.rgen = u]
<1>1. u \in Nat /\ u = e.rgen + Step(r)
  BY DEF SessionSet, Step
<1>2. \/ f = [e EXCEPT !.error = "too_many_updates"]
      \/ f = [upd EXCEPT !.asked = FALSE]
      \/ f = [[e EXCEPT !.recent = TRUE] EXCEPT !.error = "crossed_request"]
      \/ /\ r.body = 1 /\ e.st = "NORMAL"
         /\ f = [upd EXCEPT !.asked = FALSE, !.st = "KEY_UPDATE_1", !.due = TRUE]
      \/ /\ r.body = 1 /\ e.st = "CORKED"
         /\ f = [upd EXCEPT !.asked = FALSE, !.st = "CORKED_TO_KU", !.due = TRUE]
      \/ f = [upd EXCEPT !.error = "repeated_request"]
  BY DEF RecvKeyUpdate, Fail
<1> HIDE DEF f, u
<1>3. CASE f = [e EXCEPT !.error = "too_many_updates"]
  <2>1. f \in SessionSet(x) /\ Untouched(e, f)
    BY <1>3 DEF SessionSet, Untouched, Errors
  <2>2. Refused(e, f, r)
    BY <1>3 DEF SessionSet, Refused
  <2> QED
    BY <2>1, <2>2 DEF f
<1>4. CASE f = [upd EXCEPT !.asked = FALSE]
  <2>1. f \in SessionSet(x) /\ Untouched(e, f)
    BY <1>1, <1>4 DEF SessionSet, Untouched
  <2>2. Accepted(e, f, r, wanted)
    BY <1>1, <1>4 DEF SessionSet, Accepted
  <2> QED
    BY <2>1, <2>2 DEF f
<1>5. CASE f = [[e EXCEPT !.recent = TRUE] EXCEPT !.error = "crossed_request"]
  <2>1. f \in SessionSet(x) /\ Untouched(e, f)
    BY <1>5 DEF SessionSet, Untouched, Errors
  <2>2. Refused(e, f, r)
    BY <1>5 DEF SessionSet, Refused
  <2> QED
    BY <2>1, <2>2 DEF f
<1>6. CASE /\ r.body = 1 /\ e.st = "NORMAL"
           /\ f = [upd EXCEPT !.asked = FALSE, !.st = "KEY_UPDATE_1", !.due = TRUE]
  <2>1. f \in SessionSet(x) /\ Untouched(e, f)
    BY <1>1, <1>6, ZenonT(40) DEF SessionSet, Untouched, SendStates
  <2>2. Accepted(e, f, r, wanted)
    BY <1>1, <1>6 DEF SessionSet, Accepted
  <2> QED
    BY <2>1, <2>2 DEF f
<1>7. CASE /\ r.body = 1 /\ e.st = "CORKED"
           /\ f = [upd EXCEPT !.asked = FALSE, !.st = "CORKED_TO_KU", !.due = TRUE]
  <2>1. f \in SessionSet(x) /\ Untouched(e, f)
    BY <1>1, <1>7, ZenonT(40) DEF SessionSet, Untouched, SendStates
  <2>2. Accepted(e, f, r, wanted)
    BY <1>1, <1>7 DEF SessionSet, Accepted
  <2> QED
    BY <2>1, <2>2 DEF f
<1>8. CASE f = [upd EXCEPT !.error = "repeated_request"]
  <2>1. f \in SessionSet(x) /\ Untouched(e, f)
    BY <1>1, <1>8 DEF SessionSet, Untouched, Errors
  <2>2. Refused(e, f, r)
    BY <1>1, <1>8 DEF SessionSet, Refused, u
  <2> QED
    BY <2>1, <2>2 DEF f
<1> QED
  BY <1>2, <1>3, <1>4, <1>5, <1>6, <1>7, <1>8

\* A record of the wire is refused or accepted.
LEMMA TakeFacts ==
    ASSUME NEW x, NEW e \in SessionSet(x), NEW r \in Record(x), NEW wanted
    PROVE  LET f == Take(e, r, wanted)
           IN  /\ f \in SessionSet(x) /\ Untouched(e, f)
               /\ Refused(e, f, r) \/ Accepted(e, f, r, wanted)
<1> DEFINE f == Take(e, r, wanted)
           g == Append(e.got, r.body)
           b == Append(e.rbuf, r.body)
<1>1. /\ r.body \in Nat /\ r.type \in {"data", "key_update", "alert"}
      /\ e.got \in Seq(Nat) /\ e.rbuf \in Seq(Nat) /\ e.rgen \in Nat
  BY DEF Record, RecordTypes, SessionSet
<1>2. g \in Seq(Nat) /\ b \in Seq(Nat)
  BY <1>1, AppendProperties
<1>3. CASE r.gen # e.rgen
  <2>1. f = [e EXCEPT !.error = "decryption_failed"]
    BY <1>3 DEF Take, Fail
  <2> HIDE DEF f
  <2>2. f \in SessionSet(x) /\ Untouched(e, f)
    BY <2>1 DEF SessionSet, Untouched, Errors
  <2>3. Refused(e, f, r)
    BY <1>3, <2>1 DEF SessionSet, Refused
  <2> QED
    BY <2>2, <2>3 DEF f
<1>4. CASE r.gen = e.rgen /\ r.type = "data"
  <2>1. Step(r) = 0 /\ e.rgen = e.rgen + Step(r)
    BY <1>1, <1>4 DEF Step
  <2>2. f = IF wanted = "data" THEN [e EXCEPT !.got = g] ELSE [e EXCEPT !.rbuf = b]
    BY <1>4 DEF Take
  <2> HIDE DEF f, g, b
  <2>3. f \in SessionSet(x) /\ Untouched(e, f)
    <3>1. CASE wanted = "data"
      BY <1>2, <2>2, <3>1 DEF SessionSet, Untouched
    <3>2. CASE wanted # "data"
      BY <1>2, <2>2, <3>2 DEF SessionSet, Untouched
    <3> QED
      BY <3>1, <3>2
  <2>4. /\ f.error = e.error /\ f.rgen = e.rgen /\ f.st = e.st
        /\ f.got = IF wanted = "data" THEN g ELSE e.got
        /\ f.rbuf = IF wanted # "data" THEN b ELSE e.rbuf
    BY <2>2 DEF SessionSet
  <2>5. f.due = e.due /\ f.eof = e.eof
    BY <2>2 DEF SessionSet
  <2>6. /\ f.got = IF r.type = "data" /\ wanted = "data" THEN Append(e.got, r.body) ELSE e.got
        /\ f.rbuf = IF r.type = "data" /\ wanted # "data" THEN Append(e.rbuf, r.body)
                    ELSE e.rbuf
    BY <1>4, <2>4 DEF g, b
  <2>7. f.eof <=> (e.eof \/ r.type = "alert")
    BY <1>4, <2>5
  <2>8. Accepted(e, f, r, wanted)
    BY <1>4, <2>1, <2>4, <2>5, <2>6, <2>7 DEF Accepted
  <2> QED
    BY <2>3, <2>8 DEF f
<1>5. CASE r.gen = e.rgen /\ r.type = "key_update"
  <2>1. f = RecvKeyUpdate(e, r.body = 1)
    BY <1>5 DEF Take
  <2> QED
    BY <1>5, <2>1, RecvKeyUpdateFacts
<1>6. CASE r.gen = e.rgen /\ r.type = "alert"
  <2>1. Step(r) = 0 /\ e.rgen = e.rgen + Step(r)
    BY <1>1, <1>6 DEF Step
  <2>2. f = [e EXCEPT !.eof = TRUE]
    BY <1>6 DEF Take
  <2> HIDE DEF f
  <2>3. f \in SessionSet(x) /\ Untouched(e, f)
    BY <2>2 DEF SessionSet, Untouched
  <2>4. /\ f.error = e.error /\ f.rgen = e.rgen /\ f.st = e.st
        /\ f.got = e.got /\ f.rbuf = e.rbuf
    BY <2>2 DEF SessionSet
  <2>5. f.due = e.due /\ f.eof
    BY <2>2 DEF SessionSet
  <2> QED
    BY <1>6, <2>1, <2>3, <2>4, <2>5 DEF Accepted, f
<1> QED
  BY <1>1, <1>3, <1>4, <1>5, <1>6

-----------------------------------------------------------------------------
(* The actions.  A step of p changes its own session and at most takes a       *)
(* record from the wire of its peer.                                           *)

\* What the sending calls read and write.
Core(e) == <<e.st, e.state150, e.kubuf, e.wire, e.sendbuf, e.wgen, e.due, e.skipped>>

\* What belongs to the receiving side, and the transport.
Still(e, f) == /\ f.rgen = e.rgen /\ f.got = e.got /\ f.rbuf = e.rbuf /\ f.eof = e.eof
               /\ f.noread = e.noread /\ f.ended = e.ended /\ f.error = e.error

\* Only p takes a step.
Alone(p) == /\ ep' \in [Nodes -> SessionSet(prof)] /\ prof' = prof
            /\ ep'[Peer(p)] = ep[Peer(p)]

\* What the type says of the fields of a session ...
LEMMA FieldTypes ==
    ASSUME NEW x, NEW e \in SessionSet(x)
    PROVE  /\ e.presend \in Seq(Nat) /\ e.got \in Seq(Nat) /\ e.rbuf \in Seq(Nat)
           /\ e.sendbuf \in Seq(Record(x)) /\ e.wire \in Seq(Record(x))
           /\ e.wgen \in Nat /\ e.rgen \in Nat /\ e.next \in Nat /\ e.kubuf \in Nat
           /\ e.bye \in {0, 1, 2} /\ e.call \in Calls /\ e.orig \in SendStates
           /\ e.error \in Errors
BY DEF SessionSet

\* ... of its flags ...
LEMMA FlagTypes ==
    ASSUME NEW x, NEW e \in SessionSet(x)
    PROVE  /\ e.state150 \in BOOLEAN /\ e.eof \in BOOLEAN /\ e.closed \in BOOLEAN
           /\ e.noread \in BOOLEAN /\ e.ended \in BOOLEAN /\ e.due \in BOOLEAN
           /\ e.skipped \in BOOLEAN
BY DEF SessionSet

\* ... and of the profile.
LEMMA TypedFacts ==
    ASSUME Typed, NEW p \in Nodes
    PROVE  /\ ep[p] \in SessionSet(prof) /\ GoodSession(ep[p], prof)
           /\ prof.chunks \in Nat /\ prof.rekey \in Nat /\ MaxUpdates \in Nat
           /\ prof.nonblock \in BOOLEAN /\ prof.requests \in BOOLEAN
           /\ prof.cork \in BOOLEAN /\ prof.bye \in BOOLEAN
<1>1. prof \in Profile /\ MaxUpdates \in Nat
  BY KeyUpdateAssumption DEF Typed
<1> QED
  BY <1>1 DEF Typed, Profile

\* An action that sets the session of p is a step of p alone.
LEMMA SetFacts ==
    ASSUME Typed, NEW p \in Nodes, NEW f \in SessionSet(prof), Set(p, f)
    PROVE  Alone(p) /\ ep'[p] = f
BY PeerOther DEF Typed, Set, Alone

\* A session with other values for call and next.
LEMMA SendsDataCore ==
    ASSUME NEW e, NEW f, NEW d, NEW g, NEW chunk,
           Core(d) = Core(e), Core(g) = Core(f), SendsData(d, g, chunk)
    PROVE  SendsData(e, f, chunk)
<1>1. /\ Pipe(d) = Pipe(e) /\ Pipe(g) = Pipe(f) /\ (Blocked(d) <=> Blocked(e))
      /\ (Blocked(g) <=> Blocked(f)) /\ (Updating(d) <=> Updating(e))
      /\ (Updating(g) <=> Updating(f)) /\ d.wgen = e.wgen /\ g.wgen = f.wgen
      /\ Deferred(d, chunk) = Deferred(e, chunk) /\ g.st = f.st /\ d.st = e.st
      /\ g.kubuf = f.kubuf /\ d.kubuf = e.kubuf
  BY DEF Core, Pipe, Blocked, Updating, Deferred
<1>2. /\ d.state150 = e.state150 /\ g.state150 = f.state150 /\ d.due = e.due /\ g.due = f.due
      /\ d.skipped = e.skipped /\ g.skipped = f.skipped
  BY DEF Core
<1>3. /\ AfterUpdate(d, 0) = AfterUpdate(e, 0)
      /\ Rec(d, "data", chunk) = Rec(e, "data", chunk)
  BY <1>1, <1>2 DEF AfterUpdate, Rec
<1>4. ASSUME Interrupted(d, g, chunk) PROVE Interrupted(e, f, chunk)
  BY <1>1, <1>2, <1>3, <1>4 DEF Interrupted
<1>5. ASSUME Updated(d, g, chunk) PROVE Updated(e, f, chunk)
  BY <1>1, <1>2, <1>3, <1>5 DEF Updated
<1>6. ASSUME Sends(d, g, "data", chunk) PROVE Sends(e, f, "data", chunk)
  BY <1>1, <1>2, <1>3, <1>6 DEF Sends
<1> QED
  BY <1>1, <1>4, <1>5, <1>6 DEF SendsData

\* The chunk of a call of gnutls_record_send.
Chunk(e) == IF e.call = "send" THEN e.next ELSE e.next + 1

\* gnutls_record_send of the application.
LEMMA SendStep ==
    ASSUME Typed, NEW p \in Nodes, Send(p)
    PROVE  LET e == ep[p]
               f == ep'[p]
           IN  /\ f \in SessionSet(prof) /\ Alone(p)
               /\ MayWrite(p) /\ ~Corked(e) /\ e.call \in {"none", "send"}
               /\ Updating(e) => e.wgen < MaxUpdates
               /\ Still(e, f) /\ f.presend = e.presend /\ f.orig = e.orig
               /\ f.bye = e.bye /\ f.closed = e.closed
               /\ f.next = Chunk(e) /\ f.next <= prof.chunks
               /\ f.call = IF Blocked(f) THEN "send" ELSE "none"
               /\ SendsData(e, f, Chunk(e))
<1> DEFINE e == ep[p]
           k == e.next + 1
           d == IF e.call = "send" THEN e ELSE [e EXCEPT !.next = k]
           h == [e EXCEPT !.next = k]
<1>1. /\ e \in SessionSet(prof) /\ e.next \in Nat /\ k \in Nat /\ e.next <= prof.chunks
      /\ prof.chunks \in Nat
  <2>1. e \in SessionSet(prof) /\ GoodSession(e, prof) /\ prof.chunks \in Nat
    BY TypedFacts
  <2> HIDE DEF e
  <2> QED
    BY <2>1, FieldTypes DEF GoodSession
<1> HIDE DEF e, k
<1>2. h \in SessionSet(prof)
  BY <1>1 DEF SessionSet
<1>3. /\ Core(h) = Core(e) /\ h.call = e.call /\ h.next = k /\ Still(e, h)
      /\ h.presend = e.presend /\ h.orig = e.orig /\ h.bye = e.bye
  BY <1>1 DEF SessionSet, Core, Still
<1>4. h.closed = e.closed
  BY <1>1 DEF SessionSet
<1> HIDE DEF h
<1>5. /\ d \in SessionSet(prof) /\ Core(d) = Core(e) /\ d.next = Chunk(e) /\ d.next \in Nat
      /\ d.call = e.call /\ Still(e, d) /\ d.presend = e.presend /\ d.orig = e.orig
      /\ d.bye = e.bye /\ d.closed = e.closed
  <2>1. CASE e.call = "send"
    BY <1>1, <2>1 DEF Chunk, Still
  <2>2. CASE e.call # "send"
    <3>1. d = h
      BY <2>2 DEF h
    <3> QED
      BY <1>1, <1>2, <1>3, <1>4, <2>2, <3>1 DEF Chunk, k
  <2> QED
    BY <2>1, <2>2
<1>6. /\ MayWrite(p) /\ ~Corked(e)
      /\ e.call = "send" \/ (e.call = "none" /\ e.next < prof.chunks)
      /\ d.st \in {"KEY_UPDATE_1", "KEY_UPDATE_2"} => d.wgen < MaxUpdates
      /\ \E g \in RecordSend(d, d.next) :
            Set(p, [g EXCEPT !.call = IF Blocked(g) THEN "send" ELSE "none"])
  BY DEF Send, e, k
<1>7. PICK g \in RecordSend(d, d.next) :
         Set(p, [g EXCEPT !.call = IF Blocked(g) THEN "send" ELSE "none"])
  BY <1>6
<1> DEFINE c == IF Blocked(g) THEN "send" ELSE "none"
           f == [g EXCEPT !.call = c]
<1>8. d.st = e.st /\ d.wgen = e.wgen /\ (Updating(e) => e.wgen < MaxUpdates)
  BY <1>5, <1>6 DEF Core, Updating
<1> HIDE DEF d
<1>9. g \in SessionSet(prof) /\ Kept(d, g) /\ SendsData(d, g, d.next)
  BY <1>5, <1>8, RecordSendFacts DEF Updating
<1>10. c \in Calls
  BY DEF Calls
<1> HIDE DEF c
<1>11. f \in SessionSet(prof)
  BY <1>9, <1>10 DEF SessionSet
<1>12. Core(f) = Core(g) /\ f.call = c /\ Still(g, f)
  BY <1>9 DEF SessionSet, Core, Still
<1>13. /\ f.presend = g.presend /\ f.orig = g.orig /\ f.bye = g.bye
       /\ f.closed = g.closed /\ f.next = g.next
  BY <1>9 DEF SessionSet
<1>14. Set(p, f)
  BY <1>7 DEF c
<1> HIDE DEF f
<1>15. Alone(p) /\ ep'[p] = f
  BY <1>11, <1>14, SetFacts
<1>16. Still(e, f)
  BY <1>5, <1>9, <1>12 DEF Still, Kept
<1>17. /\ f.presend = e.presend /\ f.orig = e.orig /\ f.bye = e.bye
       /\ f.closed = e.closed /\ f.next = Chunk(e)
  BY <1>5, <1>9, <1>13 DEF Kept
<1>18. f.call = IF Blocked(f) THEN "send" ELSE "none"
  BY <1>12 DEF c, Core, Blocked
<1>19. SendsData(e, f, Chunk(e))
  BY <1>5, <1>9, <1>12, SendsDataCore
<1>20. f.next <= prof.chunks
  BY <1>1, <1>6, <1>17 DEF Chunk
<1> QED
  BY <1>6, <1>8, <1>11, <1>15, <1>16, <1>17, <1>18, <1>19, <1>20 DEF e

\* gnutls_record_uncork: g is the session after gnutls_record_send.
Uncorks(e, f, g) ==
    /\ g \in SessionSet(prof) /\ Kept(e, g) /\ SendsData(e, g, Head(e.presend))
    /\ Pipe(f) = Pipe(g) /\ f.sendbuf = g.sendbuf /\ f.wgen = g.wgen
    /\ f.state150 = g.state150 /\ f.due = g.due /\ f.skipped = g.skipped
    /\ Blocked(g) => f.st = e.orig /\ f.call = "uncork" /\ f.presend = e.presend
    /\ ~Blocked(g) => f.st = g.st /\ f.call = "loop" /\ f.presend = Tail(e.presend)

\* One round of the loop of gnutls_record_uncork.
LEMMA UncorkSendStep ==
    ASSUME Typed, NEW p \in Nodes, UncorkSend(p)
    PROVE  LET e == ep[p]
               f == ep'[p]
           IN  /\ f \in SessionSet(prof) /\ Alone(p)
               /\ Running(p) /\ e.call = "loop" /\ e.presend # <<>>
               /\ Updating(e) => e.wgen < MaxUpdates
               /\ Still(e, f) /\ f.orig = e.orig /\ f.bye = e.bye /\ f.closed = e.closed
               /\ f.next = e.next
               /\ \E g : Uncorks(e, f, g)
<1> DEFINE e == ep[p]
           k == Head(e.presend)
<1>1. e \in SessionSet(prof)
  BY TypedFacts
<1>2. /\ Running(p) /\ e.call = "loop" /\ e.presend # <<>>
      /\ Updating(e) => e.wgen < MaxUpdates
      /\ \E g \in RecordSend(e, k) :
            Set(p, IF Blocked(g) THEN [g EXCEPT !.st = e.orig, !.call = "uncork"]
                   ELSE [g EXCEPT !.presend = Tail(@)])
  BY DEF UncorkSend, Updating
<1> HIDE DEF e
<1>3. e.presend \in Seq(Nat) /\ e.orig \in SendStates
  BY <1>1, FieldTypes
<1>4. k \in Nat /\ Tail(e.presend) \in Seq(Nat)
  BY <1>2, <1>3, HeadTailProperties
<1> HIDE DEF k
<1>5. PICK g \in RecordSend(e, k) :
         Set(p, IF Blocked(g) THEN [g EXCEPT !.st = e.orig, !.call = "uncork"]
                ELSE [g EXCEPT !.presend = Tail(@)])
  BY <1>2
<1>6. g \in SessionSet(prof) /\ Kept(e, g) /\ SendsData(e, g, k)
  BY <1>1, <1>2, <1>4, RecordSendFacts
<1>7. g.presend = e.presend
  BY <1>6 DEF Kept
<1> DEFINE t == Tail(e.presend)
           f == IF Blocked(g) THEN [g EXCEPT !.st = e.orig, !.call = "uncork"]
                ELSE [g EXCEPT !.presend = t]
<1>8. Set(p, f) /\ t \in Seq(Nat)
  BY <1>4, <1>5, <1>7
<1> HIDE DEF t
<1>9. f \in SessionSet(prof)
  <2>1. CASE Blocked(g)
    BY <1>3, <1>6, <2>1 DEF SessionSet, Calls
  <2>2. CASE ~Blocked(g)
    BY <1>6, <1>8, <2>2 DEF SessionSet
  <2> QED
    BY <2>1, <2>2
<1>10. /\ f.wire = g.wire /\ f.sendbuf = g.sendbuf /\ f.wgen = g.wgen
       /\ Blocked(g) => f.st = e.orig /\ f.call = "uncork" /\ f.presend = g.presend
       /\ ~Blocked(g) => f.st = g.st /\ f.call = g.call /\ f.presend = t
  BY <1>6 DEF SessionSet
<1>11. f.state150 = g.state150 /\ f.due = g.due /\ f.skipped = g.skipped /\ f.closed = g.closed
  BY <1>6 DEF SessionSet
<1>12. Still(g, f) /\ f.orig = g.orig /\ f.bye = g.bye /\ f.next = g.next
  BY <1>6 DEF SessionSet, Still
<1> HIDE DEF f
<1>13. Alone(p) /\ ep'[p] = f
  BY <1>8, <1>9, SetFacts
<1>14. Still(e, f)
  BY <1>6, <1>12 DEF Still, Kept
<1>15. f.orig = e.orig /\ f.bye = e.bye /\ f.next = e.next /\ f.closed = e.closed
  BY <1>6, <1>11, <1>12 DEF Kept
<1>16. g.call = "loop"
  BY <1>2, <1>6 DEF Kept
<1>17. Uncorks(e, f, g)
  BY <1>6, <1>7, <1>10, <1>11, <1>16 DEF Uncorks, Pipe, k, t
<1> QED
  BY <1>2, <1>9, <1>13, <1>14, <1>15, <1>17 DEF e

\* gnutls_session_key_update of the application.
LEMMA UpdateStep ==
    ASSUME Typed, NEW p \in Nodes, NEW ask \in BOOLEAN, Update(p, ask)
    PROVE  LET e == ep[p]
               f == ep'[p]
           IN  /\ f \in SessionSet(prof) /\ Alone(p)
               /\ MayWrite(p) /\ e.call \in {"none", "update"} /\ (ask => prof.requests)
               /\ e.wgen < MaxUpdates
               /\ Still(e, f) /\ f.presend = e.presend /\ f.orig = e.orig
               /\ f.bye = e.bye /\ f.closed = e.closed /\ f.next = e.next
               /\ f.call = IF Blocked(f) THEN "update" ELSE "none"
               /\ Updates(e, f, RequestByte(ask))
<1> DEFINE e == ep[p]
<1>1. e \in SessionSet(prof) /\ GoodSession(e, prof)
  BY TypedFacts
<1>2. /\ MayWrite(p) /\ (ask => prof.requests)
      /\ e.call = "update" \/ (e.call = "none" /\ e.wgen < MaxUpdates)
  BY DEF Update
<1>3. PICK n \in Takes(UpdateRecords(e)) :
         Set(p, [SessionKeyUpdate(e, ask, n) EXCEPT !.call =
                    IF Blocked(SessionKeyUpdate(e, ask, n)) THEN "update" ELSE "none"])
  BY DEF Update
<1> HIDE DEF e
<1>4. e.wgen < MaxUpdates
  BY <1>1, <1>2 DEF GoodSession
<1> DEFINE g == SessionKeyUpdate(e, ask, n)
           c == IF Blocked(g) THEN "update" ELSE "none"
           f == [g EXCEPT !.call = c]
<1>5. g \in SessionSet(prof) /\ Kept(e, g) /\ Updates(e, g, RequestByte(ask))
  BY <1>1, <1>2, <1>4, SessionKeyUpdateFacts
<1>6. Set(p, f) /\ c \in Calls
  BY <1>3 DEF Calls
<1> HIDE DEF g, c
<1>7. f \in SessionSet(prof)
  BY <1>5, <1>6 DEF SessionSet
<1>8. Core(f) = Core(g) /\ f.call = c /\ Still(g, f)
  BY <1>5 DEF SessionSet, Core, Still
<1>9. /\ f.presend = g.presend /\ f.orig = g.orig /\ f.bye = g.bye
      /\ f.closed = g.closed /\ f.next = g.next
  BY <1>5 DEF SessionSet
<1> HIDE DEF f
<1>10. Alone(p) /\ ep'[p] = f
  BY <1>6, <1>7, SetFacts
<1>11. Still(e, f)
  BY <1>5, <1>8 DEF Still, Kept
<1>12. /\ f.presend = e.presend /\ f.orig = e.orig /\ f.bye = e.bye
       /\ f.closed = e.closed /\ f.next = e.next
  BY <1>5, <1>9 DEF Kept
<1>13. /\ Pipe(f) = Pipe(g) /\ (Blocked(f) <=> Blocked(g)) /\ f.wgen = g.wgen
       /\ f.kubuf = g.kubuf /\ f.st = g.st
  BY <1>8 DEF Core, Pipe, Blocked
<1>14. f.state150 = g.state150 /\ f.due = g.due /\ f.skipped = g.skipped
  BY <1>8 DEF Core
<1>15. Updates(e, f, RequestByte(ask))
  BY <1>5, <1>13, <1>14 DEF Updates
<1>16. f.call = IF Blocked(f) THEN "update" ELSE "none"
  BY <1>8, <1>13 DEF c
<1> QED
  BY <1>2, <1>4, <1>7, <1>10, <1>11, <1>12, <1>15, <1>16 DEF e

\* gnutls_bye: what is left over is sent first, then the alert.
Goodbye(e, f) ==
    \/ f.bye = 0 /\ e.bye = 0 /\ Pipe(f) = Pipe(e) /\ Blocked(f) /\ f.st = e.st
    \/ /\ f.bye = IF Blocked(f) THEN 1 ELSE 2
       /\ \/ Pipe(f) = Pipe(e) /\ e.bye = 1 /\ Blocked(e)
          \/ /\ Pipe(f) = Append(Pipe(e), Rec(e, "alert", 0))
             /\ e.bye = 0 \/ ~Blocked(e)
       /\ f.st = e.st \/ (f.st = "KEY_UPDATE_1" /\ prof.rekey # 0)

\* gnutls_bye up to the wait for the alert of the peer.
LEMMA ByeStep ==
    ASSUME Typed, NEW p \in Nodes, Bye(p)
    PROVE  LET e == ep[p]
               f == ep'[p]
           IN  /\ f \in SessionSet(prof) /\ Alone(p)
               /\ Running(p) /\ e.call \in {"none", "send", "bye"} /\ e.bye \in {0, 1}
               /\ e.presend = <<>> /\ ~e.state150 /\ ~e.closed
               /\ Still(e, f) /\ f.presend = e.presend /\ f.orig = e.orig
               /\ f.closed = e.closed /\ f.next = e.next /\ f.call = "bye"
               /\ f.wgen = e.wgen /\ f.state150 = e.state150 /\ f.due = e.due
               /\ f.skipped = e.skipped
               /\ ~prof.nonblock => ~Blocked(f)
               /\ Goodbye(e, f)
<1> DEFINE e == ep[p]
           D(n) == IF e.bye = 0 THEN ByeFlush(e, n) ELSE e
           G(n, m) == SendTlen(D(n), "alert", 0, IF Blocked(D(n)) THEN n ELSE m)
<1>1. e \in SessionSet(prof)
  BY TypedFacts
<1>2. /\ Running(p) /\ e.call \in {"none", "send", "bye"} /\ e.bye \in {0, 1}
      /\ e.presend = <<>> /\ ~e.state150 /\ ~e.closed
  BY DEF Bye
<1>3. PICK n \in Takes(Len(e.sendbuf)), m \in Takes(1) :
         Set(p, IF D(n).bye = 0 THEN [D(n) EXCEPT !.call = "bye"]
                ELSE [G(n, m) EXCEPT !.call = "bye",
                                     !.bye = IF Blocked(G(n, m)) THEN @ ELSE 2])
  BY DEF Bye
<1> DEFINE d == D(n)
           g == SendTlen(d, "alert", 0, IF Blocked(d) THEN n ELSE m)
           b == IF Blocked(g) THEN g.bye ELSE 2
           fl == Flush(e, n)
           up == [fl EXCEPT !.bye = 1]
<1> HIDE DEF e
<1>4. Len(e.sendbuf) \in Nat /\ e.sendbuf \in Seq(Record(prof))
  BY <1>1, FieldTypes, LenProperties
<1>5. n \in 0..Len(e.sendbuf) /\ (~prof.nonblock => n = Len(e.sendbuf))
  BY <1>4, TakesFacts
<1>6. /\ fl \in SessionSet(prof) /\ Idle(e, fl) /\ Pipe(fl) = Pipe(e)
      /\ fl.st = e.st /\ fl.due = e.due /\ fl.skipped = e.skipped
      /\ Blocked(fl) <=> n # Len(e.sendbuf)
  BY <1>1, <1>5, FlushFacts
<1>7. fl.bye = e.bye
  BY <1>6 DEF Idle, Kept
<1> HIDE DEF fl
<1>8. up \in SessionSet(prof)
  BY <1>6 DEF SessionSet
<1>9. Core(up) = Core(fl) /\ Still(fl, up) /\ up.bye = 1
  BY <1>6 DEF SessionSet, Core, Still
<1>10. up.presend = fl.presend /\ up.orig = fl.orig /\ up.next = fl.next /\ up.closed = fl.closed
  BY <1>6 DEF SessionSet
<1> HIDE DEF up
<1>11. \/ d = fl /\ Blocked(fl) /\ e.bye = 0
       \/ d = up /\ ~Blocked(fl) /\ e.bye = 0
       \/ d = e /\ e.bye = 1
  BY <1>2 DEF ByeFlush, fl, up
<1> HIDE DEF d
<1>12. /\ d \in SessionSet(prof) /\ Still(e, d) /\ d.presend = e.presend /\ d.orig = e.orig
       /\ d.next = e.next /\ d.closed = e.closed /\ Pipe(d) = Pipe(e) /\ d.wgen = e.wgen
       /\ d.st = e.st /\ d.bye \in {0, 1} /\ (d.bye = 0 => Blocked(d) /\ e.bye = 0)
       /\ d.bye = 1 => (d = e /\ e.bye = 1) \/ (~Blocked(d) /\ e.bye = 0)
       /\ d.bye = 0 => prof.nonblock
  <2>1. CASE d = fl /\ Blocked(fl) /\ e.bye = 0
    BY <1>5, <1>6, <1>7, <2>1 DEF Idle, Kept, Still
  <2>2. CASE d = up /\ ~Blocked(fl) /\ e.bye = 0
    <3>1. Pipe(up) = Pipe(fl) /\ ~Blocked(up) /\ up.wgen = fl.wgen /\ up.st = fl.st
      BY <1>9, <2>2 DEF Core, Pipe, Blocked
    <3>2. Still(e, up)
      BY <1>6, <1>9 DEF Still, Idle, Kept
    <3> QED
      BY <1>6, <1>8, <1>9, <1>10, <2>2, <3>1, <3>2 DEF Idle, Kept
  <2>3. CASE d = e /\ e.bye = 1
    BY <1>1, <2>3 DEF Still
  <2> QED
    BY <1>11, <2>1, <2>2, <2>3
<1>13. d.due = e.due /\ d.skipped = e.skipped /\ d.state150 = e.state150
  BY <1>6, <1>9, <1>11 DEF Idle, Core
<1>14. CASE d.bye = 0
  <2> DEFINE f == [d EXCEPT !.call = "bye"]
  <2>1. Set(p, f)
    BY <1>3, <1>14 DEF d
  <2>2. f \in SessionSet(prof)
    BY <1>12 DEF SessionSet, Calls
  <2>3. Core(f) = Core(d) /\ Still(d, f) /\ f.call = "bye" /\ f.bye = d.bye
    BY <1>12 DEF SessionSet, Core, Still
  <2>4. f.presend = d.presend /\ f.orig = d.orig /\ f.next = d.next /\ f.closed = d.closed
    BY <1>12 DEF SessionSet
  <2> HIDE DEF f
  <2>5. Alone(p) /\ ep'[p] = f
    BY <2>1, <2>2, SetFacts
  <2>6. Still(e, f) /\ f.wgen = e.wgen /\ f.st = e.st
    BY <1>12, <2>3 DEF Still, Core
  <2>7. Pipe(f) = Pipe(e) /\ Blocked(f)
    BY <1>12, <1>14, <2>3 DEF Core, Pipe, Blocked
  <2>8. f.due = e.due /\ f.skipped = e.skipped /\ f.state150 = e.state150
    BY <1>13, <2>3 DEF Core
  <2>9. Goodbye(e, f)
    BY <1>12, <1>14, <2>3, <2>6, <2>7 DEF Goodbye
  <2> QED
    BY <1>2, <1>12, <1>14, <2>2, <2>3, <2>4, <2>5, <2>6, <2>7, <2>8, <2>9 DEF e
<1>15. CASE d.bye # 0
  <2> DEFINE f == [g EXCEPT !.call = "bye", !.bye = b]
  <2>1. Set(p, f)
    BY <1>3, <1>15 DEF d
  <2>2. (IF Blocked(d) THEN n ELSE m) \in Takes(IF Blocked(d) THEN Len(d.sendbuf) ELSE 1)
    <3>1. CASE Blocked(d)
      BY <1>12, <1>15, <3>1
    <3>2. CASE ~Blocked(d)
      BY <3>2
    <3> QED
      BY <3>1, <3>2
  <2>3. g \in SessionSet(prof) /\ Kept(d, g) /\ Sends(d, g, "alert", 0)
    BY <1>12, <2>2, SendTlenFacts
  <2>4. b \in {0, 1, 2} /\ (Blocked(g) => b = 1) /\ (~Blocked(g) => b = 2)
    <3>1. g.bye = 1
      BY <1>12, <1>15, <2>3 DEF Kept
    <3> QED
      BY <3>1
  <2> HIDE DEF g, b
  <2>5. f \in SessionSet(prof)
    BY <2>3, <2>4 DEF SessionSet, Calls
  <2>6. Core(f) = Core(g) /\ Still(g, f) /\ f.call = "bye" /\ f.bye = b
    BY <2>3 DEF SessionSet, Core, Still
  <2>7. f.presend = g.presend /\ f.orig = g.orig /\ f.next = g.next /\ f.closed = g.closed
    BY <2>3 DEF SessionSet
  <2> HIDE DEF f
  <2>8. Alone(p) /\ ep'[p] = f
    BY <2>1, <2>5, SetFacts
  <2>9. /\ Pipe(f) = Pipe(g) /\ (Blocked(f) <=> Blocked(g)) /\ f.wgen = g.wgen /\ f.st = g.st
    BY <2>6 DEF Core, Pipe, Blocked
  <2>10. f.due = g.due /\ f.skipped = g.skipped /\ f.state150 = g.state150
    BY <2>6 DEF Core
  <2>11. Still(e, f) /\ f.presend = e.presend /\ f.orig = e.orig /\ f.next = e.next
    BY <1>12, <2>3, <2>6, <2>7 DEF Still, Kept
  <2>12. f.closed = e.closed
    BY <1>12, <2>3, <2>7 DEF Kept
  <2>13. f.wgen = e.wgen /\ (~prof.nonblock => ~Blocked(f))
    BY <1>12, <2>3, <2>9 DEF Sends
  <2>14. g.due = d.due /\ g.skipped = d.skipped /\ g.state150 = d.state150
    <3>1. g.skipped <=> d.skipped
      BY <2>3 DEF Sends
    <3>2. g.skipped \in BOOLEAN /\ d.skipped \in BOOLEAN
      BY <1>12, <2>3, FlagTypes
    <3> QED
      BY <2>3, <3>1, <3>2 DEF Sends
  <2>15. Rec(d, "alert", 0) = Rec(e, "alert", 0)
    BY <1>12 DEF Rec
  <2>16. Goodbye(e, f)
    <3>1. f.bye = IF Blocked(f) THEN 1 ELSE 2
      BY <2>4, <2>6, <2>9
    <3>2. f.st = e.st \/ (f.st = "KEY_UPDATE_1" /\ prof.rekey # 0)
      BY <1>12, <2>3, <2>9 DEF Sends
    <3>3. CASE d = e /\ e.bye = 1
      BY <2>3, <2>9, <3>1, <3>2, <3>3 DEF Goodbye, Sends
    <3>4. CASE ~Blocked(d) /\ e.bye = 0
      BY <1>12, <2>3, <2>9, <2>15, <3>1, <3>2, <3>4 DEF Goodbye, Sends
    <3> QED
      BY <1>12, <1>15, <3>3, <3>4
  <2> QED
    BY <1>2, <1>13, <2>5, <2>6, <2>8, <2>10, <2>11, <2>12, <2>13, <2>14, <2>16 DEF e
<1> QED
  BY <1>14, <1>15

\* What is left of Core when the state changes, and what belongs to the calls.
Rest(e) == <<e.state150, e.kubuf, e.wire, e.sendbuf, e.wgen, e.due, e.skipped>>
Call(e) == <<e.presend, e.orig, e.call, e.next, e.bye, e.closed>>

\* gnutls_record_send while corked.
LEMMA SendCorkedStep ==
    ASSUME Typed, NEW p \in Nodes, SendCorked(p)
    PROVE  LET e == ep[p]
               f == ep'[p]
           IN  /\ f \in SessionSet(prof) /\ Alone(p)
               /\ MayWrite(p) /\ Corked(e) /\ e.call \in {"none", "uncork"}
               /\ e.next < prof.chunks
               /\ Core(f) = Core(e) /\ Still(e, f) /\ f.orig = e.orig /\ f.call = e.call
               /\ f.bye = e.bye /\ f.closed = e.closed
               /\ f.next = e.next + 1 /\ f.presend = Append(e.presend, e.next + 1)
<1> DEFINE e == ep[p]
           k == e.next + 1
           s == Append(e.presend, k)
           f == [e EXCEPT !.next = k, !.presend = s]
<1>1. e \in SessionSet(prof)
  BY TypedFacts
<1>2. /\ MayWrite(p) /\ Corked(e) /\ e.call \in {"none", "uncork"}
      /\ e.next < prof.chunks /\ Set(p, f)
  BY DEF SendCorked
<1> HIDE DEF e
<1>3. k \in Nat /\ s \in Seq(Nat)
  BY <1>1, FieldTypes, AppendProperties
<1> HIDE DEF k, s
<1>4. f \in SessionSet(prof)
  BY <1>1, <1>3 DEF SessionSet
<1>5. Core(f) = Core(e) /\ Still(e, f) /\ f.next = k /\ f.presend = s
  BY <1>1 DEF SessionSet, Core, Still
<1>6. f.orig = e.orig /\ f.call = e.call /\ f.bye = e.bye /\ f.closed = e.closed
  BY <1>1 DEF SessionSet
<1> HIDE DEF f
<1>7. Alone(p) /\ ep'[p] = f
  BY <1>2, <1>4, SetFacts
<1> QED
  BY <1>2, <1>4, <1>5, <1>6, <1>7 DEF e, k, s

\* Corking, uncorking and leaving the loop only change the state and the call.
LEMMA CorkSteps ==
    ASSUME Typed, NEW p \in Nodes, Cork(p) \/ Uncork(p) \/ UncorkDone(p)
    PROVE  LET e == ep[p]
               f == ep'[p]
           IN  /\ f \in SessionSet(prof) /\ Alone(p)
               /\ Rest(f) = Rest(e) /\ Still(e, f) /\ f.presend = e.presend
               /\ f.next = e.next /\ f.bye = e.bye /\ f.closed = e.closed
               /\ \/ /\ MayWrite(p) /\ prof.cork /\ e.call = "none"
                     /\ f.st = "CORKED" /\ f.call = e.call /\ f.orig = e.orig
                  \/ /\ MayWrite(p) /\ Corked(e) /\ e.call \in {"none", "uncork"}
                     /\ f.call = "loop" /\ f.orig = e.st
                     /\ f.st = IF e.st = "CORKED" THEN "NORMAL" ELSE "KEY_UPDATE_1"
                  \/ /\ Running(p) /\ e.call = "loop" /\ e.presend = <<>>
                     /\ f.st = e.st /\ f.call = "none" /\ f.orig = e.orig
<1> DEFINE e == ep[p]
           c == IF e.st = "CORKED" THEN "NORMAL" ELSE "KEY_UPDATE_1"
<1>1. e \in SessionSet(prof) /\ e.st \in SendStates
  BY TypedFacts DEF GoodSession
<1>2. CASE Cork(p)
  <2> DEFINE f == [e EXCEPT !.st = "CORKED"]
  <2>1. MayWrite(p) /\ prof.cork /\ e.call = "none" /\ Set(p, f)
    BY <1>2 DEF Cork
  <2> HIDE DEF e
  <2>2. f \in SessionSet(prof)
    BY <1>1 DEF SessionSet, SendStates
  <2>3. Rest(f) = Rest(e) /\ Still(e, f) /\ f.presend = e.presend /\ f.st = "CORKED"
    BY <1>1 DEF SessionSet, Rest, Still
  <2>4. /\ f.next = e.next /\ f.bye = e.bye /\ f.closed = e.closed /\ f.call = e.call
        /\ f.orig = e.orig
    BY <1>1 DEF SessionSet
  <2> HIDE DEF f
  <2>5. Alone(p) /\ ep'[p] = f
    BY <2>1, <2>2, SetFacts
  <2> QED
    BY <2>1, <2>2, <2>3, <2>4, <2>5 DEF e
<1>3. CASE Uncork(p)
  <2> DEFINE f == [e EXCEPT !.orig = e.st, !.st = c, !.call = "loop"]
  <2>1. MayWrite(p) /\ Corked(e) /\ e.call \in {"none", "uncork"} /\ Set(p, f)
    BY <1>3 DEF Uncork
  <2> HIDE DEF e
  <2>2. c \in SendStates
    BY DEF SendStates
  <2> HIDE DEF c
  <2>3. f \in SessionSet(prof)
    BY <1>1, <2>2 DEF SessionSet, Calls
  <2>4. Rest(f) = Rest(e) /\ Still(e, f) /\ f.presend = e.presend
    BY <1>1 DEF SessionSet, Rest, Still
  <2>5. /\ f.next = e.next /\ f.bye = e.bye /\ f.closed = e.closed /\ f.call = "loop"
        /\ f.orig = e.st /\ f.st = c
    BY <1>1 DEF SessionSet
  <2> HIDE DEF f
  <2>6. Alone(p) /\ ep'[p] = f
    BY <2>1, <2>3, SetFacts
  <2> QED
    BY <2>1, <2>3, <2>4, <2>5, <2>6 DEF e, c
<1>4. CASE UncorkDone(p)
  <2> DEFINE f == [e EXCEPT !.call = "none"]
  <2>1. Running(p) /\ e.call = "loop" /\ e.presend = <<>> /\ Set(p, f)
    BY <1>4 DEF UncorkDone
  <2> HIDE DEF e
  <2>2. f \in SessionSet(prof)
    BY <1>1 DEF SessionSet, Calls
  <2>3. Rest(f) = Rest(e) /\ Still(e, f) /\ f.presend = e.presend
    BY <1>1 DEF SessionSet, Rest, Still
  <2>4. /\ f.next = e.next /\ f.bye = e.bye /\ f.closed = e.closed /\ f.call = "none"
        /\ f.orig = e.orig /\ f.st = e.st
    BY <1>1 DEF SessionSet
  <2> HIDE DEF f
  <2>5. Alone(p) /\ ep'[p] = f
    BY <2>1, <2>2, SetFacts
  <2> QED
    BY <2>1, <2>2, <2>3, <2>4, <2>5 DEF e
<1> QED
  BY <1>2, <1>3, <1>4

\* gnutls_record_recv from the record buffer.
LEMMA RecvBufferedStep ==
    ASSUME Typed, NEW p \in Nodes, RecvBuffered(p)
    PROVE  LET e == ep[p]
               f == ep'[p]
           IN  /\ f \in SessionSet(prof) /\ Alone(p)
               /\ Readable(p) /\ e.rbuf # <<>>
               /\ Core(f) = Core(e) /\ Call(f) = Call(e)
               /\ f.rgen = e.rgen /\ f.eof = e.eof /\ f.ended = e.ended /\ f.error = e.error
               /\ f.got = Append(e.got, Head(e.rbuf)) /\ f.rbuf = Tail(e.rbuf)
<1> DEFINE e == ep[p]
           s == Append(e.got, Head(e.rbuf))
           t == Tail(e.rbuf)
           f == [e EXCEPT !.got = s, !.rbuf = t]
<1>1. e \in SessionSet(prof)
  BY TypedFacts
<1>2. Readable(p) /\ e.rbuf # <<>> /\ Set(p, f)
  BY DEF RecvBuffered
<1> HIDE DEF e
<1>3. e.rbuf \in Seq(Nat) /\ e.got \in Seq(Nat)
  BY <1>1, FieldTypes
<1>4. Head(e.rbuf) \in Nat /\ t \in Seq(Nat)
  BY <1>2, <1>3, HeadTailProperties
<1>5. s \in Seq(Nat)
  BY <1>3, <1>4, AppendProperties
<1> HIDE DEF s, t
<1>6. f \in SessionSet(prof)
  BY <1>1, <1>4, <1>5 DEF SessionSet
<1>7. Core(f) = Core(e) /\ f.got = s /\ f.rbuf = t /\ f.rgen = e.rgen /\ f.error = e.error
  BY <1>1 DEF SessionSet, Core
<1>8. Call(f) = Call(e) /\ f.eof = e.eof /\ f.ended = e.ended
  BY <1>1 DEF SessionSet, Call
<1> HIDE DEF f
<1>9. Alone(p) /\ ep'[p] = f
  BY <1>2, <1>6, SetFacts
<1> QED
  BY <1>2, <1>6, <1>7, <1>8, <1>9 DEF e, s, t

\* The transport ends, or a second passes, or gnutls_record_recv finds the end.
LEMMA QuietSteps ==
    ASSUME Typed, NEW p \in Nodes, RecvEnd(p) \/ End(p) \/ Tick(p)
    PROVE  LET e == ep[p]
               f == ep'[p]
           IN  /\ f \in SessionSet(prof) /\ Alone(p)
               /\ Call(f) = Call(e) /\ f.st = e.st /\ f.state150 = e.state150
               /\ f.kubuf = e.kubuf /\ f.sendbuf = e.sendbuf /\ f.wgen = e.wgen
               /\ f.due = e.due /\ f.skipped = e.skipped
               /\ f.rgen = e.rgen /\ f.got = e.got /\ f.rbuf = e.rbuf /\ f.eof = e.eof
               /\ \/ f.wire = e.wire /\ f.ended = e.ended /\ f.error = e.error
                  \/ f.wire = e.wire /\ f.ended = e.ended /\ f.error = "premature_termination"
                  \/ /\ f.ended /\ f.error = e.error
                     /\ \E n \in 0..Len(e.wire) : f.wire = SubSeq(e.wire, 1, n)
<1> DEFINE e == ep[p]
<1>1. e \in SessionSet(prof)
  BY TypedFacts
<1>2. CASE RecvEnd(p)
  <2> DEFINE f == [e EXCEPT !.error = "premature_termination"]
  <2>1. Set(p, f)
    BY <1>2 DEF RecvEnd, AtEnd, Fail
  <2> HIDE DEF e
  <2>2. f \in SessionSet(prof)
    BY <1>1 DEF SessionSet, Errors
  <2>3. Core(f) = Core(e) /\ Call(f) = Call(e) /\ f.error = "premature_termination"
    BY <1>1 DEF SessionSet, Core, Call
  <2>4. f.rgen = e.rgen /\ f.got = e.got /\ f.rbuf = e.rbuf /\ f.eof = e.eof /\ f.ended = e.ended
    BY <1>1 DEF SessionSet
  <2> HIDE DEF f
  <2>5. Alone(p) /\ ep'[p] = f
    BY <2>1, <2>2, SetFacts
  <2> QED
    BY <2>2, <2>3, <2>4, <2>5 DEF e, Core
<1>3. CASE Tick(p)
  <2> DEFINE f == [e EXCEPT !.recent = FALSE]
  <2>1. Set(p, f)
    BY <1>3 DEF Tick
  <2> HIDE DEF e
  <2>2. f \in SessionSet(prof)
    BY <1>1 DEF SessionSet
  <2>3. Core(f) = Core(e) /\ Call(f) = Call(e) /\ f.error = e.error
    BY <1>1 DEF SessionSet, Core, Call
  <2>4. f.rgen = e.rgen /\ f.got = e.got /\ f.rbuf = e.rbuf /\ f.eof = e.eof /\ f.ended = e.ended
    BY <1>1 DEF SessionSet
  <2> HIDE DEF f
  <2>5. Alone(p) /\ ep'[p] = f
    BY <2>1, <2>2, SetFacts
  <2> QED
    BY <2>2, <2>3, <2>4, <2>5 DEF e, Core
<1>4. CASE End(p)
  <2>1. PICK n \in 0..Len(e.wire) :
           Set(p, [e EXCEPT !.ended = TRUE, !.wire = SubSeq(e.wire, 1, n)])
    BY <1>4 DEF End
  <2> DEFINE w == SubSeq(e.wire, 1, n)
             f == [e EXCEPT !.ended = TRUE, !.wire = w]
  <2> HIDE DEF e
  <2>2. w \in Seq(Record(prof))
    <3>1. e.wire \in Seq(Record(prof)) /\ Len(e.wire) \in Nat
      BY <1>1, FieldTypes, LenProperties
    <3> QED
      BY <3>1, SubSeqProperties
  <2>3. Set(p, f)
    BY <2>1
  <2> HIDE DEF w
  <2>4. f \in SessionSet(prof)
    BY <1>1, <2>2 DEF SessionSet
  <2>5. Call(f) = Call(e) /\ f.error = e.error /\ f.wire = w /\ f.ended
    BY <1>1 DEF SessionSet, Call
  <2>6. /\ f.st = e.st /\ f.state150 = e.state150 /\ f.kubuf = e.kubuf
        /\ f.sendbuf = e.sendbuf /\ f.wgen = e.wgen
    BY <1>1 DEF SessionSet
  <2>7. /\ f.rgen = e.rgen /\ f.got = e.got /\ f.rbuf = e.rbuf /\ f.eof = e.eof
        /\ f.due = e.due /\ f.skipped = e.skipped
    BY <1>1 DEF SessionSet
  <2> HIDE DEF f
  <2>8. Alone(p) /\ ep'[p] = f
    BY <2>3, <2>4, SetFacts
  <2> QED
    BY <2>4, <2>5, <2>6, <2>7, <2>8 DEF e, w
<1> QED
  BY <1>2, <1>3, <1>4

\* The end of gnutls_bye.
Closes(e, f) ==
    /\ Core(f) = Core(e) /\ f.presend = e.presend /\ f.orig = e.orig /\ f.next = e.next
    /\ f.rgen = e.rgen /\ f.got = e.got /\ f.rbuf = e.rbuf /\ f.ended = e.ended
    /\ f.bye = 0 /\ f.closed /\ f.call = "none"

\* A session that gnutls_bye closes, with the error and the flags it may set.
Shut(e, b, c, w) == [e EXCEPT !.bye = 0, !.closed = TRUE, !.call = "none", !.noread = b,
                              !.eof = c, !.error = w]

\* Closing leaves all that was sent and received as it is.
LEMMA ClosesFacts ==
    ASSUME NEW x, NEW e \in SessionSet(x), NEW b \in BOOLEAN, NEW c \in BOOLEAN, NEW w \in Errors
    PROVE  /\ Shut(e, b, c, w) \in SessionSet(x) /\ Closes(e, Shut(e, b, c, w))
           /\ Shut(e, b, c, w).eof = c /\ Shut(e, b, c, w).error = w
<1> DEFINE f == [e EXCEPT !.bye = 0, !.closed = TRUE, !.call = "none", !.noread = b,
                          !.eof = c, !.error = w]
<1>1. f \in SessionSet(x)
  BY DEF SessionSet, Calls
<1>2. Core(f) = Core(e) /\ f.presend = e.presend /\ f.orig = e.orig /\ f.next = e.next
  BY DEF SessionSet, Core
<1>3. /\ f.rgen = e.rgen /\ f.got = e.got /\ f.rbuf = e.rbuf /\ f.ended = e.ended
      /\ f.bye = 0 /\ f.closed /\ f.call = "none"
  BY DEF SessionSet
<1>4. f.eof = c /\ f.error = w
  BY DEF SessionSet
<1> HIDE DEF f
<1>5. f \in SessionSet(x) /\ Closes(e, f) /\ f.eof = c /\ f.error = w
  BY <1>1, <1>2, <1>3, <1>4 DEF Closes
<1> QED
  BY <1>5 DEF f, Shut

\* The first element of two joined sequences.
LEMMA JoinTail ==
    ASSUME NEW S, NEW u \in Seq(S), NEW v \in Seq(S), u # <<>>
    PROVE  Head(u \o v) = Head(u) /\ Tail(u \o v) = Tail(u) \o v /\ u \o v # <<>>
<1>1. u \o v # <<>>
  BY ConcatEqualIffEmpty
<1> DEFINE w == u \o v
           t == Tail(u)
<1>2. /\ w \in Seq(S) /\ Len(w) = Len(u) + Len(v) /\ Len(u) \in Nat \ {0} /\ Len(v) \in Nat
      /\ \A i \in 1..(Len(u) + Len(v)) : w[i] = IF i <= Len(u) THEN u[i] ELSE v[i - Len(u)]
  BY ConcatProperties, LenProperties, EmptySeq
<1>3. t \in Seq(S) /\ Len(t) = Len(u) - 1 /\ \A i \in 1..Len(t) : t[i] = u[i + 1]
  BY HeadTailProperties
<1>4. /\ Tail(w) \in Seq(S) /\ Len(Tail(w)) = Len(w) - 1
      /\ \A i \in 1..Len(Tail(w)) : Tail(w)[i] = w[i + 1]
  BY <1>1, <1>2, HeadTailProperties
<1>5. /\ t \o v \in Seq(S) /\ Len(t \o v) = Len(t) + Len(v)
      /\ \A i \in 1..(Len(t) + Len(v)) : (t \o v)[i] = IF i <= Len(t) THEN t[i] ELSE v[i - Len(t)]
  BY <1>3, ConcatProperties
<1>6. Head(w) = Head(u)
  BY <1>2
<1> DEFINE a == Tail(w)
           b == t \o v
           k == Len(u)
           l == Len(v)
<1>7. /\ a \in Seq(S) /\ b \in Seq(S) /\ Len(a) = Len(b) /\ Len(a) = k + l - 1
      /\ k \in Nat \ {0} /\ l \in Nat
  BY <1>2, <1>3, <1>4, <1>5
<1>8. ASSUME NEW i \in 1..(k + l - 1) PROVE a[i] = b[i]
  <2>1. a[i] = w[i + 1] /\ i \in Nat /\ i + 1 \in 1..(k + l)
    BY <1>4, <1>7
  <2>2. w[i + 1] = IF i + 1 <= k THEN u[i + 1] ELSE v[i + 1 - k]
    BY <1>2, <2>1
  <2>3. b[i] = IF i <= k - 1 THEN t[i] ELSE v[i - (k - 1)]
    BY <1>3, <1>5, <1>7
  <2>4. i <= k - 1 => t[i] = u[i + 1]
    BY <1>3, <1>7
  <2>5. i - (k - 1) = i + 1 - k /\ (i + 1 <= k <=> i <= k - 1)
    BY <1>7, <2>1
  <2> QED
    BY <2>1, <2>2, <2>3, <2>4, <2>5
<1> HIDE DEF w, t, a, b, k, l
<1>9. a = b
  BY <1>7, <1>8, SeqEqual
<1> QED
  BY <1>1, <1>6, <1>9 DEF a, b, t, w

\* A record of the wire of d is read.
Drained(d, c) ==
    /\ d.wire # <<>> /\ Head(d.wire) \in Record(prof)
    /\ c \in SessionSet(prof) /\ c.wire = Tail(d.wire)
    /\ Head(Pipe(d)) = Head(d.wire) /\ Pipe(c) = Tail(Pipe(d)) /\ Pipe(d) # <<>>
    /\ c.st = d.st /\ c.state150 = d.state150 /\ c.kubuf = d.kubuf
    /\ c.sendbuf = d.sendbuf /\ c.wgen = d.wgen /\ c.due = d.due /\ c.skipped = d.skipped
    /\ Call(c) = Call(d) /\ Still(d, c)

\* The first of the records that are not read is the first of those on the wire.
LEMMA DrainedFacts ==
    ASSUME NEW d \in SessionSet(prof), d.wire # <<>>
    PROVE  Drained(d, [d EXCEPT !.wire = Tail(@)])
<1> DEFINE t == Tail(d.wire)
           c == [d EXCEPT !.wire = t]
<1>1. d.wire \in Seq(Record(prof)) /\ d.sendbuf \in Seq(Record(prof))
  BY FieldTypes
<1>2. /\ t \in Seq(Record(prof)) /\ Head(d.wire) \in Record(prof)
      /\ Head(d.wire \o d.sendbuf) = Head(d.wire) /\ t \o d.sendbuf = Tail(d.wire \o d.sendbuf)
      /\ d.wire \o d.sendbuf # <<>>
  <2> DEFINE u == d.wire
             v == d.sendbuf
  <2>1. u \in Seq(Record(prof)) /\ v \in Seq(Record(prof)) /\ u # <<>>
    BY <1>1
  <2> HIDE DEF u, v
  <2>2. /\ Tail(u) \in Seq(Record(prof)) /\ Head(u) \in Record(prof)
        /\ Head(u \o v) = Head(u) /\ Tail(u \o v) = Tail(u) \o v /\ u \o v # <<>>
    BY <2>1, HeadTailProperties, JoinTail
  <2> QED
    BY <2>2 DEF u, v
<1> HIDE DEF t
<1>3. c \in SessionSet(prof)
  BY <1>2 DEF SessionSet
<1>4. c.wire = t /\ c.st = d.st /\ c.kubuf = d.kubuf /\ c.sendbuf = d.sendbuf /\ c.wgen = d.wgen
  BY DEF SessionSet
<1>5. c.due = d.due /\ c.skipped = d.skipped /\ c.state150 = d.state150
  BY DEF SessionSet
<1>6. Call(c) = Call(d) /\ Still(d, c)
  BY DEF SessionSet, Call, Still
<1> HIDE DEF c
<1>7. Drained(d, c)
  BY <1>2, <1>3, <1>4, <1>5, <1>6 DEF Drained, Pipe, t
<1> QED
  BY <1>7 DEF c, t

\* The session after a record was read, and the step that reads it.
Reads(e, f, r, wanted) == Untouched(e, f) /\ (Refused(e, f, r) \/ Accepted(e, f, r, wanted))

Reading(p) == /\ ep' \in [Nodes -> SessionSet(prof)] /\ prof' = prof
              /\ Drained(ep[Peer(p)], ep'[Peer(p)])

\* A step of p that takes a record from the wire of its peer.
LEMMA ReadingFacts ==
    ASSUME Typed, NEW p \in Nodes, NEW f \in SessionSet(prof), ep[Peer(p)].wire # <<>>,
           ep' = [ep EXCEPT ![p] = f, ![Peer(p)].wire = Tail(@)], UNCHANGED prof
    PROVE  Reading(p) /\ ep'[p] = f
<1> DEFINE q == Peer(p)
           d == ep[q]
           c == [d EXCEPT !.wire = Tail(@)]
<1>1. q \in Nodes /\ q # p
  BY PeerOther
<1>2. d \in SessionSet(prof)
  BY <1>1, TypedFacts
<1>3. ep \in [Nodes -> SessionSet(prof)]
  BY DEF Typed
<1>4. ep' = [ep EXCEPT ![p] = f, ![q] = c]
  BY <1>1, <1>3
<1>5. Drained(d, c)
  BY <1>2, DrainedFacts
<1>6. c \in SessionSet(prof)
  BY <1>5 DEF Drained
<1> HIDE DEF c, q
<1>7. ep' \in [Nodes -> SessionSet(prof)] /\ ep'[p] = f /\ ep'[q] = c
  BY <1>1, <1>3, <1>4, <1>6
<1> QED
  BY <1>5, <1>7 DEF Reading, q

\* gnutls_record_recv of a record.
LEMMA RecvStep ==
    ASSUME Typed, NEW p \in Nodes, Recv(p)
    PROVE  LET e == ep[p]
               f == ep'[p]
           IN  /\ f \in SessionSet(prof) /\ Reading(p)
               /\ Readable(p) /\ e.rbuf = <<>> /\ e.call # "loop"
               /\ Reads(e, f, Head(ep[Peer(p)].wire), "data")
<1> DEFINE e == ep[p]
           d == ep[Peer(p)]
           r == Head(d.wire)
           f == Take(e, r, "data")
<1>1. /\ Readable(p) /\ e.rbuf = <<>> /\ e.call # "loop" /\ d.wire # <<>>
      /\ ep' = [ep EXCEPT ![p] = f, ![Peer(p)].wire = Tail(@)] /\ UNCHANGED prof
  BY DEF Recv
<1>2. e \in SessionSet(prof) /\ d \in SessionSet(prof)
  BY PeerOther, TypedFacts
<1>3. r \in Record(prof)
  BY <1>1, <1>2, DrainedFacts DEF Drained
<1> HIDE DEF r, e
<1>4. f \in SessionSet(prof) /\ Reads(e, f, r, "data")
  BY <1>2, <1>3, TakeFacts DEF Reads
<1> HIDE DEF f
<1>5. Reading(p) /\ ep'[p] = f
  BY <1>1, <1>4, ReadingFacts
<1> QED
  BY <1>1, <1>4, <1>5 DEF e, r

\* gnutls_bye reads on until the alert or the end.
LEMMA ByeWaitStep ==
    ASSUME Typed, NEW p \in Nodes, ByeWrite(p) \/ ByeWait(p)
    PROVE  LET e == ep[p]
               f == ep'[p]
               r == Head(ep[Peer(p)].wire)
           IN  /\ f \in SessionSet(prof) /\ Running(p) /\ e.bye = 2
               /\ \/ Alone(p) /\ Closes(e, f) /\ (f.eof <=> e.eof)
                     /\ f.error \in {"none", "premature_termination"}
                  \/ Reading(p) /\ ~e.eof /\ Reads(e, f, r, "alert") /\ ~f.eof
                  \/ /\ Reading(p) /\ ~e.eof /\ Closes(e, f) /\ f.eof /\ f.error = "none"
                     /\ r.type = "alert"
<1> DEFINE e == ep[p]
           d == ep[Peer(p)]
           r == Head(d.wire)
           g == Take(e, r, "alert")
           Z(b, c, w) == Shut(e, b, c, w)
<1>1. e \in SessionSet(prof) /\ d \in SessionSet(prof)
  BY PeerOther, TypedFacts
<1>2. Running(p) /\ e.bye = 2 /\ e.error = "none"
  BY DEF ByeWrite, ByeWait, Running
<1>3. e.eof \in BOOLEAN /\ e.noread \in BOOLEAN /\ "none" \in Errors /\ "premature_termination" \in Errors
  BY <1>1, FlagTypes DEF Errors
<1>4. /\ ByeDone(e) = Z(e.noread, e.eof, "none")
      /\ [ByeDone(e) EXCEPT !.noread = TRUE] = Z(TRUE, e.eof, "none")
      /\ AtEnd([ByeDone(e) EXCEPT !.noread = TRUE]) = Z(TRUE, e.eof, "premature_termination")
      /\ [[ByeDone(e) EXCEPT !.noread = TRUE] EXCEPT !.eof = TRUE] = Z(TRUE, TRUE, "none")
  <2> HIDE DEF e
  <2> QED
    BY <1>1, <1>2 DEF SessionSet, ByeDone, AtEnd, Fail, Shut
<1>5. ASSUME NEW b \in BOOLEAN, NEW c \in BOOLEAN, NEW w \in Errors
      PROVE  /\ Z(b, c, w) \in SessionSet(prof) /\ Closes(e, Z(b, c, w))
             /\ Z(b, c, w).eof = c /\ Z(b, c, w).error = w
  BY <1>1, ClosesFacts
<1>6. \/ Set(p, Z(e.noread, e.eof, "none"))
      \/ Set(p, Z(TRUE, e.eof, "none"))
      \/ Set(p, Z(TRUE, e.eof, "premature_termination"))
      \/ /\ ~e.eof /\ d.wire # <<>> /\ UNCHANGED prof
         /\ ep' = [ep EXCEPT ![p] = IF g.eof THEN Z(TRUE, TRUE, "none") ELSE g,
                             ![Peer(p)].wire = Tail(@)]
  BY <1>4 DEF ByeWrite, ByeWait
<1> HIDE DEF Z
<1>7. ASSUME NEW b \in BOOLEAN, NEW w \in {"none", "premature_termination"},
             Set(p, Z(b, e.eof, w))
      PROVE  /\ ep'[p] \in SessionSet(prof) /\ Alone(p) /\ Closes(e, ep'[p])
             /\ (ep'[p].eof <=> e.eof) /\ ep'[p].error \in {"none", "premature_termination"}
  <2>1. w \in Errors
    BY <1>3
  <2>2. /\ Z(b, e.eof, w) \in SessionSet(prof) /\ Closes(e, Z(b, e.eof, w))
        /\ Z(b, e.eof, w).eof = e.eof /\ Z(b, e.eof, w).error = w
    BY <1>3, <1>5, <2>1
  <2>3. Alone(p) /\ ep'[p] = Z(b, e.eof, w)
    BY <1>7, <2>2, SetFacts
  <2> QED
    BY <2>2, <2>3
<1>8. CASE \/ Set(p, Z(e.noread, e.eof, "none")) \/ Set(p, Z(TRUE, e.eof, "none"))
           \/ Set(p, Z(TRUE, e.eof, "premature_termination"))
  BY <1>2, <1>3, <1>7, <1>8
<1>9. CASE /\ ~e.eof /\ d.wire # <<>> /\ UNCHANGED prof
           /\ ep' = [ep EXCEPT ![p] = IF g.eof THEN Z(TRUE, TRUE, "none") ELSE g,
                               ![Peer(p)].wire = Tail(@)]
  <2>1. r \in Record(prof)
    BY <1>1, <1>9, DrainedFacts DEF Drained
  <2> DEFINE z == Z(TRUE, TRUE, "none")
             f == IF g.eof THEN z ELSE g
  <2>2. z \in SessionSet(prof) /\ Closes(e, z) /\ z.eof /\ z.error = "none"
    BY <1>3, <1>5
  <2> HIDE DEF r, e, z
  <2>3. g \in SessionSet(prof) /\ Reads(e, g, r, "alert")
    BY <1>1, <2>1, TakeFacts DEF Reads
  <2>4. g.eof => r.type = "alert"
    BY <1>9, <2>3 DEF Reads, Refused, Accepted
  <2> HIDE DEF g
  <2>5. f \in SessionSet(prof)
    BY <2>2, <2>3
  <2>6. Reading(p) /\ ep'[p] = f
    BY <1>9, <2>5, ReadingFacts DEF e, z
  <2> QED
    BY <1>2, <1>9, <2>2, <2>3, <2>4, <2>6 DEF e, r
<1> QED
  BY <1>6, <1>8, <1>9

-----------------------------------------------------------------------------
(* Types and bounds.                                                         *)

\* A step of p alone keeps the types if its session stays within the bounds ...
LEMMA TypedAlone ==
    ASSUME Typed, NEW p \in Nodes, Alone(p), GoodSession(ep'[p], prof)
    PROVE  Typed'
<1>1. ep' \in [Nodes -> SessionSet(prof')] /\ prof' \in Profiles
  BY DEF Typed, Alone
<1>2. ASSUME NEW n \in Nodes PROVE GoodSession(ep'[n], prof')
  <2>1. n = p \/ n = Peer(p)
    BY PeerOther
  <2>2. GoodSession(ep[n], prof)
    BY TypedFacts
  <2> QED
    BY <2>1, <2>2 DEF Alone
<1> QED
  BY <1>1, <1>2 DEF Typed

\* ... and so does one that reads.
LEMMA TypedReading ==
    ASSUME Typed, NEW p \in Nodes, Reading(p), GoodSession(ep'[p], prof)
    PROVE  Typed'
<1>1. ep' \in [Nodes -> SessionSet(prof')] /\ prof' \in Profiles
  BY DEF Typed, Reading
<1>2. GoodSession(ep'[Peer(p)], prof)
  <2>1. GoodSession(ep[Peer(p)], prof)
    BY TypedFacts, PeerOther
  <2>2. /\ ep'[Peer(p)].st = ep[Peer(p)].st /\ ep'[Peer(p)].wgen = ep[Peer(p)].wgen
        /\ ep'[Peer(p)].rgen = ep[Peer(p)].rgen /\ ep'[Peer(p)].call = ep[Peer(p)].call
        /\ ep'[Peer(p)].next = ep[Peer(p)].next
    BY DEF Reading, Drained, Call, Still
  <2> QED
    BY <2>1, <2>2 DEF GoodSession, Corked
<1>3. ASSUME NEW n \in Nodes PROVE GoodSession(ep'[n], prof')
  <2>1. n = p \/ n = Peer(p)
    BY PeerOther
  <2> QED
    BY <1>2, <2>1 DEF Reading
<1> QED
  BY <1>1, <1>3 DEF Typed

\* A record that was read changes the key it is read with by at most one.
LEMMA ReadsGood ==
    ASSUME NEW e \in SessionSet(prof), NEW f \in SessionSet(prof), NEW r \in Record(prof),
           NEW wanted, GoodSession(e, prof), Reads(e, f, r, wanted)
    PROVE  GoodSession(f, prof)
<1>1. f.next = e.next /\ f.wgen = e.wgen /\ f.call = e.call
  BY DEF Reads, Untouched
<1>2. f.st = e.st \/ (e.st = "NORMAL" /\ f.st = "KEY_UPDATE_1")
      \/ (e.st = "CORKED" /\ f.st = "CORKED_TO_KU")
  BY DEF Reads, Refused, Accepted
<1>3. f.rgen <= MaxUpdates
  <2>1. e.rgen \in Nat /\ MaxUpdates \in Nat /\ e.rgen <= MaxUpdates
    BY FieldTypes, KeyUpdateAssumption DEF GoodSession
  <2>2. r.type = "key_update" => r.gen < MaxUpdates
    BY DEF Record
  <2>3. f.rgen = e.rgen \/ (f.rgen = e.rgen + 1 /\ r.gen = e.rgen /\ r.type = "key_update")
    BY <2>1 DEF Reads, Refused, Accepted, Step
  <2> QED
    BY <2>1, <2>2, <2>3
<1> QED
  BY <1>1, <1>2, <1>3 DEF GoodSession, Corked, SendStates

\* gnutls_record_send leaves the state and the key in range.
LEMMA SendsDataGood ==
    ASSUME NEW e \in SessionSet(prof), NEW f \in SessionSet(prof), NEW chunk,
           GoodSession(e, prof), SendsData(e, f, chunk), Updating(e) => e.wgen < MaxUpdates
    PROVE  /\ f.st \in SendStates /\ f.wgen <= MaxUpdates
           /\ f.st = e.st \/ f.st = "NORMAL" \/ Updating(f)
<1>1. e.wgen \in Nat /\ MaxUpdates \in Nat /\ e.wgen <= MaxUpdates /\ e.st \in SendStates
  BY FieldTypes, KeyUpdateAssumption DEF GoodSession
<1>2. \/ Updating(f) /\ f.wgen = e.wgen
      \/ f.st = "NORMAL" /\ f.wgen = e.wgen + 1 /\ Updating(e)
      \/ f.wgen = e.wgen /\ (f.st = e.st \/ f.st = "KEY_UPDATE_1")
  BY DEF SendsData, Interrupted, Updated, Sends
<1> QED
  BY <1>1, <1>2 DEF Updating, SendStates

\* Every step keeps types and bounds.
LEMMA TypedNext ==
    ASSUME Typed, Next
    PROVE  Typed'
<1>1. PICK p \in Nodes :
            \/ Send(p) \/ SendCorked(p)
            \/ Cork(p) \/ Uncork(p) \/ UncorkSend(p) \/ UncorkDone(p)
            \/ \E ask \in BOOLEAN : Update(p, ask)
            \/ Recv(p) \/ RecvBuffered(p) \/ RecvEnd(p)
            \/ Bye(p) \/ ByeWrite(p) \/ ByeWait(p) \/ End(p)
            \/ Tick(p)
  BY DEF Next
<1> DEFINE e == ep[p]
           f == ep'[p]
           r == Head(ep[Peer(p)].wire)
<1>2. /\ e \in SessionSet(prof) /\ GoodSession(e, prof)
      /\ prof.chunks \in Nat /\ MaxUpdates \in Nat
  BY TypedFacts
<1>3. e.wgen \in Nat /\ e.next \in Nat
  BY <1>2, FieldTypes
<1>4. CASE Send(p)
  <2> HIDE DEF e, f
  <2>1. /\ f \in SessionSet(prof) /\ ~Corked(e) /\ SendsData(e, f, Chunk(e))
        /\ (Updating(e) => e.wgen < MaxUpdates) /\ f.next <= prof.chunks /\ f.rgen = e.rgen
        /\ f.call \in {"send", "none"} /\ Alone(p)
    BY <1>4, SendStep DEF Still, e, f
  <2>2. /\ f.st \in SendStates /\ f.wgen <= MaxUpdates
        /\ f.st = e.st \/ f.st = "NORMAL" \/ Updating(f)
    BY <1>2, <2>1, SendsDataGood
  <2>3. GoodSession(f, prof)
    BY <1>2, <2>1, <2>2 DEF GoodSession, Corked, Updating
  <2> QED
    BY <2>1, <2>3, TypedAlone DEF f
<1>5. CASE SendCorked(p)
  <2>1. /\ Core(f) = Core(e) /\ e.next < prof.chunks /\ f.next = e.next + 1
        /\ f.rgen = e.rgen /\ f.call = e.call /\ Alone(p)
    BY <1>5, SendCorkedStep DEF Still
  <2> HIDE DEF e, f
  <2>2. f.next <= prof.chunks
    BY <1>2, <1>3, <2>1
  <2>3. GoodSession(f, prof)
    BY <1>2, <2>1, <2>2 DEF GoodSession, Corked, Core
  <2> QED
    BY <2>1, <2>3, TypedAlone DEF f
<1>6. CASE Cork(p) \/ Uncork(p) \/ UncorkDone(p)
  <2>1. /\ Alone(p) /\ Rest(f) = Rest(e) /\ Still(e, f) /\ f.next = e.next
        /\ \/ prof.cork /\ f.st = "CORKED" /\ f.call = "none"
           \/ Corked(e) /\ f.st \in {"NORMAL", "KEY_UPDATE_1"} /\ f.call = "loop"
           \/ f.st = e.st /\ f.call = "none"
    BY <1>6, CorkSteps
  <2> HIDE DEF e, f
  <2>2. GoodSession(f, prof)
    BY <1>2, <2>1 DEF GoodSession, Corked, Rest, Still, SendStates
  <2> QED
    BY <2>1, <2>2, TypedAlone DEF f
<1>7. CASE UncorkSend(p)
  <2> HIDE DEF e, f
  <2>1. /\ f \in SessionSet(prof) /\ Alone(p) /\ e.call = "loop" /\ Still(e, f)
        /\ (Updating(e) => e.wgen < MaxUpdates) /\ f.next = e.next /\ f.orig = e.orig
        /\ \E g : Uncorks(e, f, g)
    BY <1>7, UncorkSendStep DEF e, f
  <2>2. PICK g : Uncorks(e, f, g)
    BY <2>1
  <2>3. g.st \in SendStates /\ g.wgen <= MaxUpdates
    BY <1>2, <2>1, <2>2, SendsDataGood DEF Uncorks
  <2>4. f.st \in SendStates /\ f.wgen <= MaxUpdates /\ f.call \in {"uncork", "loop"}
    BY <1>2, <2>2, <2>3, FieldTypes DEF Uncorks
  <2>5. GoodSession(f, prof)
    BY <1>2, <2>1, <2>4 DEF GoodSession, Still
  <2> QED
    BY <2>1, <2>5, TypedAlone DEF f
<1>8. CASE \E ask \in BOOLEAN : Update(p, ask)
  <2>1. PICK ask \in BOOLEAN : Update(p, ask)
    BY <1>8
  <2>2. /\ Alone(p) /\ e.wgen < MaxUpdates /\ Still(e, f) /\ f.next = e.next
        /\ f.call = (IF Blocked(f) THEN "update" ELSE "none")
        /\ Updates(e, f, RequestByte(ask))
    BY <2>1, UpdateStep
  <2> HIDE DEF e, f
  <2>3. f.st \in SendStates /\ f.wgen <= MaxUpdates /\ (f.call = "update" => f.wgen < MaxUpdates)
    BY <1>2, <1>3, <2>2 DEF Updates, GoodSession, SendStates
  <2>4. Corked(f) => Corked(e)
    BY <2>2 DEF Updates, Corked
  <2>5. GoodSession(f, prof)
    BY <1>2, <2>2, <2>3, <2>4 DEF GoodSession, Still
  <2> QED
    BY <2>2, <2>5, TypedAlone DEF f
<1>9. CASE Recv(p)
  <2>1. f \in SessionSet(prof) /\ Reading(p) /\ Reads(e, f, r, "data")
    BY <1>9, RecvStep
  <2>2. r \in Record(prof)
    BY <2>1 DEF Reading, Drained
  <2>3. GoodSession(f, prof)
    BY <1>2, <2>1, <2>2, ReadsGood
  <2> QED
    BY <2>1, <2>3, TypedReading
<1>10. CASE RecvBuffered(p)
  <2>1. Alone(p) /\ Core(f) = Core(e) /\ Call(f) = Call(e) /\ f.rgen = e.rgen
    BY <1>10, RecvBufferedStep
  <2> HIDE DEF e, f
  <2>2. GoodSession(f, prof)
    BY <1>2, <2>1 DEF GoodSession, Corked, Core, Call
  <2> QED
    BY <2>1, <2>2, TypedAlone DEF f
<1>11. CASE RecvEnd(p) \/ End(p) \/ Tick(p)
  <2>1. /\ Alone(p) /\ f.st = e.st /\ Call(f) = Call(e) /\ f.rgen = e.rgen /\ f.wgen = e.wgen
    BY <1>11, QuietSteps
  <2> HIDE DEF e, f
  <2>2. GoodSession(f, prof)
    BY <1>2, <2>1 DEF GoodSession, Corked, Call
  <2> QED
    BY <2>1, <2>2, TypedAlone DEF f
<1>12. CASE Bye(p)
  <2>1. /\ Alone(p) /\ Still(e, f) /\ f.next = e.next /\ f.call = "bye" /\ f.wgen = e.wgen
        /\ f.st = e.st \/ f.st = "KEY_UPDATE_1"
    BY <1>12, ByeStep DEF Goodbye
  <2> HIDE DEF e, f
  <2>2. GoodSession(f, prof)
    BY <1>2, <2>1 DEF GoodSession, Corked, Still, SendStates
  <2> QED
    BY <2>1, <2>2, TypedAlone DEF f
<1>13. CASE ByeWrite(p) \/ ByeWait(p)
  <2>1. /\ f \in SessionSet(prof)
        /\ \/ (Alone(p) \/ Reading(p)) /\ Closes(e, f)
           \/ Reading(p) /\ Reads(e, f, r, "alert")
    BY <1>13, ByeWaitStep
  <2>2. CASE (Alone(p) \/ Reading(p)) /\ Closes(e, f)
    <3>1. GoodSession(f, prof)
      <4> HIDE DEF e, f
      <4> QED
        BY <1>2, <2>2 DEF GoodSession, Corked, Closes, Core
    <3> QED
      BY <2>2, <3>1, TypedAlone, TypedReading
  <2>3. CASE Reading(p) /\ Reads(e, f, r, "alert")
    <3>1. r \in Record(prof)
      BY <2>3 DEF Reading, Drained
    <3>2. GoodSession(f, prof)
      BY <1>2, <2>1, <2>3, <3>1, ReadsGood
    <3> QED
      BY <2>3, <3>2, TypedReading
  <2> QED
    BY <2>1, <2>2, <2>3
<1> QED
  BY <1>1, <1>4, <1>5, <1>6, <1>7, <1>8, <1>9, <1>10, <1>11, <1>12, <1>13

\* The sessions at the start.
LEMMA TypedInit ==
    ASSUME Init
    PROVE  Typed
<1>1. prof \in Profiles /\ prof.chunks \in Nat /\ MaxUpdates \in Nat
  BY KeyUpdateAssumption DEF Init, Profile
<1>2. Session \in SessionSet(prof)
  BY EmptySeq DEF Session, SessionSet, SendStates, Calls, Errors
<1>3. GoodSession(Session, prof)
  BY <1>1 DEF Session, GoodSession, Corked, SendStates
<1> QED
  BY <1>1, <1>2, <1>3 DEF Typed, Init

\* The inductive invariant of the types, which all that follows rests on.
LEMMA TypedSpec == Spec => []Typed
<1>1. Init => Typed
  BY TypedInit
<1>2. Typed /\ [Next]_vars => Typed'
  <2>1. ASSUME Typed, Next PROVE Typed'
    BY <2>1, TypedNext
  <2>2. ASSUME Typed, UNCHANGED vars PROVE Typed'
    BY <2>2 DEF Typed, vars
  <2> QED
    BY <2>1, <2>2
<1> QED
  BY <1>1, <1>2, PTL DEF Spec

\* Chunks, keys and call states stay within their bounds whatever the profile,
\* and gnutls_record_send2 never returns in RECORD_SEND_KEY_UPDATE_3.
THEOREM TypeCorrect == Spec => []TypeOK
<1>1. Typed => TypeOK
  <2> SUFFICES ASSUME Typed, NEW p \in Nodes
               PROVE  /\ ep[p].st \in SendStates
                      /\ ep[p].next \in 0..prof.chunks
                      /\ ep[p].wgen \in 0..MaxUpdates /\ ep[p].rgen \in 0..MaxUpdates
                      /\ ep[p].call \in {"none", "send", "update", "uncork", "loop", "bye"}
                      /\ ep[p].bye \in 0..2
                      /\ \A i \in 1..Len(ep[p].wire) : ep[p].wire[i].type \in RecordTypes
    BY DEF TypeOK
  <2> DEFINE e == ep[p]
  <2>1. e \in SessionSet(prof) /\ GoodSession(e, prof) /\ prof.chunks \in Nat /\ MaxUpdates \in Nat
    BY TypedFacts
  <2> HIDE DEF e
  <2>2. /\ e.next \in Nat /\ e.wgen \in Nat /\ e.rgen \in Nat /\ e.call \in Calls
        /\ e.bye \in {0, 1, 2} /\ e.wire \in Seq(Record(prof))
    BY <2>1, FieldTypes
  <2>3. ASSUME NEW i \in 1..Len(e.wire) PROVE e.wire[i].type \in RecordTypes
    <3>1. e.wire[i] \in Record(prof)
      BY <2>2, ElementOfSeq
    <3> QED
      BY <3>1 DEF Record
  <2>4. /\ e.next \in 0..prof.chunks /\ e.wgen \in 0..MaxUpdates /\ e.rgen \in 0..MaxUpdates
        /\ e.bye \in 0..2
    BY <2>1, <2>2 DEF GoodSession
  <2> QED
    BY <2>1, <2>2, <2>3, <2>4 DEF e, GoodSession, Calls
<1> QED
  BY <1>1, TypedSpec, PTL

-----------------------------------------------------------------------------
(* The close_notify.                                                         *)

\* What does not touch the closing of e keeps it.
LEMMA ClosingSame ==
    ASSUME NEW e, NEW f, NEW d, NEW c, Closing(e, d),
           f.bye = e.bye, f.call = e.call, f.closed = e.closed, f.sendbuf = e.sendbuf,
           f.ended \/ (Pipe(f) = Pipe(e) /\ f.ended = e.ended),
           d.eof => c.eof, d.error # "none" => c.error # "none"
    PROVE  Closing(f, c)
<1>1. Announced(e, d) => Announced(f, c)
  BY DEF Announced
<1> QED
  BY <1>1 DEF Closing

\* A session that was not closed has nothing to announce.
LEMMA ClosingOpen ==
    ASSUME NEW f, NEW c, f.bye = 0, ~f.closed
    PROVE  Closing(f, c)
BY DEF Closing

\* Reading the alert of d tells its reader f; other records leave it in the pipe.
LEMMA ClosingDrained ==
    ASSUME NEW d \in SessionSet(prof), NEW c, Drained(d, c), NEW e, NEW f, Closing(d, e),
           e.eof => f.eof, e.error # "none" => f.error # "none",
           Head(d.wire).type = "alert" => f.eof \/ f.error # "none"
    PROVE  Closing(c, f)
<1> DEFINE s == Pipe(d)
<1>1. /\ Head(s).type = "alert" => f.eof \/ f.error # "none"
      /\ Pipe(c) = Tail(s) /\ s # <<>>
  BY DEF Drained
<1>2. s \in Seq(Record(prof))
  BY FieldTypes, ConcatProperties DEF Pipe
<1> HIDE DEF s
<1>3. ASSUME NEW i \in 1..Len(s), s[i].type = "alert", Head(s).type # "alert"
      PROVE  \E j \in 1..Len(Tail(s)) : Tail(s)[j].type = "alert"
  <2>1. Len(Tail(s)) = Len(s) - 1 /\ \A j \in 1..Len(Tail(s)) : Tail(s)[j] = s[j + 1]
    BY <1>1, <1>2, HeadTailProperties
  <2>2. Len(s) \in Nat /\ Head(s) = s[1] /\ i \in Nat
    BY <1>2, LenProperties
  <2>3. i # 1
    BY <1>3, <2>2
  <2>4. i - 1 \in 1..Len(Tail(s)) /\ (i - 1) + 1 = i
    BY <2>1, <2>2, <2>3
  <2>5. Tail(s)[i - 1] = s[i]
    BY <2>1, <2>4
  <2> QED
    BY <1>3, <2>4, <2>5
<1>4. /\ c.bye = d.bye /\ c.call = d.call /\ c.closed = d.closed /\ c.sendbuf = d.sendbuf
      /\ c.ended = d.ended
  BY DEF Drained, Call, Still
<1>5. Announced(d, e) => Announced(c, f)
  BY <1>1, <1>3, <1>4 DEF Announced, s
<1> QED
  BY <1>4, <1>5 DEF Closing

\* gnutls_bye puts the alert behind what is left over.
LEMMA ClosingGoodbye ==
    ASSUME NEW e \in SessionSet(prof), NEW f, NEW d, Closing(e, d), Goodbye(e, f),
           f.call = "bye", ~f.closed, f.ended = e.ended
    PROVE  Closing(f, d)
<1>1. CASE f.bye = 0
  BY <1>1, ClosingOpen
<1>2. CASE f.bye # 0
  <2>1. f.bye = IF Blocked(f) THEN 1 ELSE 2
    BY <1>2 DEF Goodbye
  <2>2. Announced(f, d)
    <3>1. CASE Pipe(f) = Pipe(e) /\ e.bye = 1
      BY <3>1 DEF Closing, Announced
    <3>2. CASE Pipe(f) = Append(Pipe(e), Rec(e, "alert", 0))
      <4> DEFINE s == Pipe(e)
                 r == Rec(e, "alert", 0)
      <4>1. s \in Seq(Record(prof)) /\ e.wgen \in Nat
        BY FieldTypes, ConcatProperties DEF Pipe
      <4>2. r \in Record(prof) /\ r.type = "alert"
        BY <4>1 DEF Rec, Record, RecordTypes
      <4> HIDE DEF s, r
      <4>3. /\ Len(Append(s, r)) = Len(s) + 1 /\ Append(s, r)[Len(s) + 1] = r /\ Len(s) \in Nat
        BY <4>1, <4>2, AppendProperties, LenProperties
      <4>4. Len(s) + 1 \in 1..Len(Pipe(f)) /\ Pipe(f)[Len(s) + 1].type = "alert"
        BY <3>2, <4>2, <4>3 DEF s, r
      <4> QED
        BY <4>4 DEF Announced
    <3> QED
      BY <1>2, <3>1, <3>2 DEF Goodbye
  <2> QED
    BY <2>1, <2>2 DEF Closing, Blocked
<1> QED
  BY <1>1, <1>2

\* What a record that was read means for the closing of both endpoints.
LEMMA ClosingReads ==
    ASSUME Typed, ByeInv, NEW p \in Nodes, Reading(p), NEW wanted,
           Reads(ep[p], ep'[p], Head(ep[Peer(p)].wire), wanted),
           ep[p].error = "none"
    PROVE  Closing(ep'[p], ep'[Peer(p)]) /\ Closing(ep'[Peer(p)], ep'[p])
<1> DEFINE e == ep[p]
           f == ep'[p]
           d == ep[Peer(p)]
           c == ep'[Peer(p)]
           r == Head(d.wire)
<1>1. Closing(e, d) /\ Closing(d, e) /\ d \in SessionSet(prof)
  BY PeerOther, TypedFacts DEF ByeInv
<1>2. Drained(d, c) /\ c.eof = d.eof /\ c.error = d.error
  BY DEF Reading, Drained, Still
<1> HIDE DEF e, f, d, c
<1>3. /\ f.bye = e.bye /\ f.call = e.call /\ f.closed = e.closed /\ f.sendbuf = e.sendbuf
      /\ f.ended = e.ended /\ f.wire = e.wire
  BY DEF Reads, Untouched, e, f
<1>4. Closing(f, c)
  BY <1>1, <1>2, <1>3, ClosingSame DEF Pipe
<1>5. (e.eof => f.eof) /\ (r.type = "alert" => f.eof \/ f.error # "none")
  BY DEF Reads, Refused, Accepted, e, f, d
<1>6. Closing(c, f)
  BY <1>1, <1>2, <1>5, ClosingDrained DEF e
<1> QED
  BY <1>4, <1>6 DEF f, c

\* Every step keeps the promise of gnutls_bye.
LEMMA ByeNext ==
    ASSUME Typed, ByeInv, Next
    PROVE  ByeInv'
<1>1. PICK p \in Nodes :
            \/ Send(p) \/ SendCorked(p)
            \/ Cork(p) \/ Uncork(p) \/ UncorkSend(p) \/ UncorkDone(p)
            \/ \E ask \in BOOLEAN : Update(p, ask)
            \/ Recv(p) \/ RecvBuffered(p) \/ RecvEnd(p)
            \/ Bye(p) \/ ByeWrite(p) \/ ByeWait(p) \/ End(p)
            \/ Tick(p)
  BY DEF Next
<1> DEFINE e == ep[p]
           f == ep'[p]
           d == ep[Peer(p)]
           c == ep'[Peer(p)]
<1>2. /\ Closing(e, d) /\ Closing(d, e)
      /\ e \in SessionSet(prof) /\ d \in SessionSet(prof)
  BY PeerOther, TypedFacts DEF ByeInv
<1>3. SUFFICES Closing(f, c) /\ Closing(c, f)
  BY PeerOther DEF ByeInv
\* What the peer announced concerns only what p read.
<1>4. ASSUME Alone(p), e.eof => f.eof, e.error # "none" => f.error # "none"
      PROVE  c = d /\ Closing(c, f)
  <2>1. c = d
    BY <1>4 DEF Alone
  <2> QED
    BY <1>2, <1>4, <2>1, ClosingSame
<1>5. CASE \/ Send(p) \/ SendCorked(p) \/ Cork(p) \/ Uncork(p) \/ UncorkDone(p)
           \/ UncorkSend(p) \/ \E ask \in BOOLEAN : Update(p, ask)
  <2>1. /\ Alone(p) /\ Still(e, f) /\ f.bye = e.bye /\ f.closed = e.closed
        /\ (MayWrite(p) \/ e.call = "loop")
    BY <1>5, SendStep, SendCorkedStep, CorkSteps, UncorkSendStep, UpdateStep
  <2>2. e.bye = 0 /\ ~e.closed
    <3>1. CASE MayWrite(p)
      BY <1>2, <3>1 DEF MayWrite, Closing
    <3>2. CASE e.call = "loop"
      BY <1>2, <3>2 DEF Closing
    <3> QED
      BY <2>1, <3>1, <3>2
  <2> HIDE DEF e, f
  <2>3. Closing(f, c)
    BY <2>1, <2>2, ClosingOpen
  <2> QED
    BY <1>4, <2>1, <2>3 DEF Still
<1>6. CASE Recv(p)
  BY <1>6, RecvStep, ClosingReads DEF Readable, Running
<1>7. CASE RecvBuffered(p)
  <2>1. /\ Alone(p) /\ Core(f) = Core(e) /\ Call(f) = Call(e) /\ f.eof = e.eof
        /\ f.ended = e.ended /\ f.error = e.error
    BY <1>7, RecvBufferedStep
  <2>2. c = d /\ Closing(c, f)
    BY <1>4, <2>1
  <2> HIDE DEF e, f
  <2>3. Closing(f, c)
    BY <1>2, <2>1, <2>2, ClosingSame, ZenonT(40) DEF Core, Call, Pipe
  <2> QED
    BY <2>2, <2>3
<1>8. CASE RecvEnd(p) \/ End(p) \/ Tick(p)
  <2>1. /\ Alone(p) /\ Call(f) = Call(e) /\ f.sendbuf = e.sendbuf /\ f.eof = e.eof
        /\ e.error # "none" => f.error # "none"
        /\ f.ended \/ (f.wire = e.wire /\ f.ended = e.ended)
    BY <1>8, QuietSteps
  <2>2. c = d /\ Closing(c, f)
    BY <1>4, <2>1
  <2> HIDE DEF e, f
  <2>3. Closing(f, c)
    BY <1>2, <2>1, <2>2, ClosingSame, ZenonT(40) DEF Call, Pipe
  <2> QED
    BY <2>2, <2>3
<1>9. CASE Bye(p)
  <2>1. /\ Alone(p) /\ Still(e, f) /\ f.call = "bye" /\ f.closed = e.closed /\ ~e.closed
        /\ Goodbye(e, f)
    BY <1>9, ByeStep
  <2>2. c = d /\ Closing(c, f)
    BY <1>4, <2>1 DEF Still
  <2>3. Closing(f, c)
    BY <1>2, <2>1, <2>2, ClosingGoodbye DEF Still
  <2> QED
    BY <2>2, <2>3
<1>10. CASE ByeWrite(p) \/ ByeWait(p)
  <2> DEFINE r == Head(d.wire)
  <2>1. /\ e.bye = 2 /\ e.error = "none"
        /\ \/ Alone(p) /\ Closes(e, f) /\ (f.eof <=> e.eof)
           \/ Reading(p) /\ Reads(e, f, r, "alert")
           \/ Reading(p) /\ Closes(e, f) /\ f.eof /\ f.error = "none"
    BY <1>10, ByeWaitStep DEF Running
  <2>2. ASSUME Closes(e, f), c.eof = d.eof, c.error = d.error
        PROVE  Closing(f, c)
    <3>1. e.sendbuf = <<>> /\ Announced(e, d)
      BY <1>2, <2>1 DEF Closing
    <3> HIDE DEF e, f, d, c
    <3>2. f.sendbuf = <<>> /\ f.wire = e.wire /\ f.ended = e.ended
      BY <2>2, <3>1 DEF Closes, Core
    <3>3. Announced(f, c)
      BY <2>2, <3>1, <3>2 DEF Announced, Pipe
    <3> QED
      BY <2>2, <3>2, <3>3 DEF Closing, Closes
  <2>3. CASE Alone(p) /\ Closes(e, f) /\ (f.eof <=> e.eof)
    <3>1. c = d /\ Closing(c, f)
      BY <1>4, <2>1, <2>3
    <3> QED
      BY <2>2, <2>3, <3>1
  <2>4. CASE Reading(p) /\ Reads(e, f, r, "alert")
    BY <2>1, <2>4, ClosingReads
  <2>5. CASE Reading(p) /\ Closes(e, f) /\ f.eof /\ f.error = "none"
    <3>1. Drained(d, c) /\ c.eof = d.eof /\ c.error = d.error
      BY <2>5 DEF Reading, Drained, Still
    <3>2. Closing(c, f)
      BY <1>2, <2>1, <2>5, <3>1, ClosingDrained
    <3> QED
      BY <2>2, <2>5, <3>1, <3>2
  <2> QED
    BY <2>1, <2>3, <2>4, <2>5
<1> QED
  BY <1>1, <1>5, <1>6, <1>7, <1>8, <1>9, <1>10

\* The inductive invariant of closing.
LEMMA ByeSpec == Spec => [](Typed /\ ByeInv)
<1>1. Init => ByeInv
  <2> SUFFICES ASSUME Init, NEW p \in Nodes PROVE Closing(ep[p], ep[Peer(p)])
    BY DEF ByeInv
  <2>1. ep[p] = Session
    BY DEF Init
  <2>2. Session.bye = 0 /\ ~Session.closed
    BY DEF Session
  <2> QED
    BY <2>1, <2>2, ClosingOpen
<1>2. Typed /\ ByeInv /\ [Next]_vars => ByeInv'
  <2>1. ASSUME Typed, ByeInv, Next PROVE ByeInv'
    BY <2>1, ByeNext
  <2>2. ASSUME ByeInv, UNCHANGED vars PROVE ByeInv'
    BY <2>2 DEF ByeInv, vars
  <2> QED
    BY <2>1, <2>2
<1> QED
  BY <1>1, <1>2, TypedSpec, PTL DEF Spec

\* An endpoint that gnutls_bye closed has sent its close_notify, and the peer
\* reads it unless the transport or its own session came to an end: also after
\* an interrupted gnutls_record_send, and for every profile.
THEOREM ByeAnnouncedHolds == Spec => []ByeAnnounced
<1>1. Typed /\ ByeInv => ByeAnnounced
  <2> SUFFICES ASSUME Typed, ByeInv, NEW p \in Nodes, ep[p].closed
               PROVE  \/ \E i \in 1..Len(ep[p].wire) : ep[p].wire[i].type = "alert"
                      \/ ep[Peer(p)].eof \/ ep[Peer(p)].error # "none"
                      \/ ep[p].ended
    BY DEF ByeAnnounced
  <2>1. ep[p].sendbuf = <<>> /\ Announced(ep[p], ep[Peer(p)])
    BY DEF ByeInv, Closing
  <2>2. ep[p].wire \in Seq(Record(prof))
    BY TypedFacts, FieldTypes
  <2>3. Pipe(ep[p]) = ep[p].wire
    BY <2>1, <2>2, ConcatEmptySeq DEF Pipe
  <2> QED
    BY <2>1, <2>3 DEF Announced
<1> QED
  BY <1>1, ByeSpec, PTL

-----------------------------------------------------------------------------
(* The key update that the peer asked for.                                   *)

\* The application does not cork, or nobody asks for key updates.
NoCorkedRequests(x) == ~(x.cork /\ x.requests)

\* What does not touch the state of the sending side keeps the promise.
LEMMA PromptSame ==
    ASSUME NEW e, NEW f, Prompt(e, prof),
           f.st = e.st, f.state150 = e.state150, f.due = e.due, f.skipped = e.skipped,
           f.call = e.call, e.error # "none" => f.error # "none"
    PROVE  Prompt(f, prof)
BY DEF Prompt

\* A record that was read may ask for an update.
LEMMA PromptReads ==
    ASSUME Typed, NoCorkedRequests(prof), NEW p \in Nodes, NEW f \in SessionSet(prof),
           NEW r \in Record(prof), NEW wanted, Prompt(ep[p], prof), Reads(ep[p], f, r, wanted),
           ep[p].error = "none"
    PROVE  Prompt(f, prof)
<1> DEFINE e == ep[p]
<1>1. e \in SessionSet(prof) /\ GoodSession(e, prof)
  BY TypedFacts
<1>2. /\ f.state150 = e.state150 /\ f.skipped = e.skipped /\ f.call = e.call
  BY DEF Reads, Untouched
<1>3. e.st = "CORKED" => prof.cork
  BY <1>1 DEF GoodSession, Corked
<1>4. r.type = "key_update" /\ r.body = 1 => prof.requests
  BY DEF Record
<1>5. CASE Refused(e, f, r)
  BY <1>2, <1>5 DEF Refused, Prompt
<1>6. CASE Accepted(e, f, r, wanted)
  <2>1. CASE f.st = e.st /\ f.due = e.due
    BY <1>2, <1>6, <2>1, PromptSame DEF Accepted
  <2>2. CASE e.st = "NORMAL" /\ f.st = "KEY_UPDATE_1" /\ prof.requests
    BY <1>2, <2>2 DEF Prompt, NoCorkedRequests
  <2>3. CASE e.st = "CORKED" /\ prof.requests
    BY <1>3, <2>3 DEF NoCorkedRequests
  <2> QED
    BY <1>4, <1>6, <2>1, <2>2, <2>3 DEF Accepted
<1> QED
  BY <1>5, <1>6 DEF Reads

\* gnutls_record_send performs the update first.
LEMMA PromptSends ==
    ASSUME NEW e, NEW f, NEW chunk, Prompt(e, prof), SendsData(e, f, chunk),
           e.error = "none", e.call \in {"none", "send"}, f.error = e.error,
           f.call = IF Blocked(f) THEN "send" ELSE "none"
    PROVE  Prompt(f, prof)
<1>1. e.due => e.st = "KEY_UPDATE_1" /\ ~e.state150
  BY DEF Prompt
<1>2. CASE Updating(e) /\ Interrupted(e, f, chunk)
  BY <1>1, <1>2 DEF Prompt, Interrupted, Updating
<1>3. CASE Updating(e) /\ Updated(e, f, chunk)
  BY <1>1, <1>3 DEF Prompt, Updated
<1>4. CASE ~Updating(e) /\ Sends(e, f, "data", chunk)
  <2>1. ~e.due /\ (~prof.cork => ~e.state150)
    BY <1>1, <1>4 DEF Updating, Prompt
  <2> QED
    BY <1>4, <2>1 DEF Prompt, Sends
<1> QED
  BY <1>2, <1>3, <1>4 DEF SendsData

\* Every step of p keeps the promise of its session and of its peer.
LEMMA UpdNext ==
    ASSUME Typed, ByeInv, NoCorkedRequests(prof), UpdInv, Next
    PROVE  UpdInv'
<1>1. PICK p \in Nodes :
            \/ Send(p) \/ SendCorked(p)
            \/ Cork(p) \/ Uncork(p) \/ UncorkSend(p) \/ UncorkDone(p)
            \/ \E ask \in BOOLEAN : Update(p, ask)
            \/ Recv(p) \/ RecvBuffered(p) \/ RecvEnd(p)
            \/ Bye(p) \/ ByeWrite(p) \/ ByeWait(p) \/ End(p)
            \/ Tick(p)
  BY DEF Next
<1> DEFINE e == ep[p]
           f == ep'[p]
           d == ep[Peer(p)]
           c == ep'[Peer(p)]
           r == Head(d.wire)
<1>2. /\ Prompt(e, prof) /\ Prompt(d, prof) /\ Closing(e, d)
      /\ e \in SessionSet(prof) /\ GoodSession(e, prof)
  BY PeerOther, TypedFacts DEF UpdInv, ByeInv
<1>3. ASSUME Alone(p), Prompt(f, prof) PROVE UpdInv'
  <2>1. c = d /\ prof' = prof
    BY <1>3 DEF Alone
  <2> QED
    BY <1>2, <1>3, <2>1, PeerOther DEF UpdInv
<1>4. ASSUME Reading(p) PROVE r \in Record(prof) /\ (Prompt(f, prof) => UpdInv')
  <2>1. /\ prof' = prof /\ c.st = d.st /\ c.state150 = d.state150 /\ c.due = d.due
        /\ c.skipped = d.skipped /\ c.call = d.call /\ c.error = d.error /\ r \in Record(prof)
    BY <1>4 DEF Reading, Drained, Call, Still
  <2> HIDE DEF c, d
  <2>2. Prompt(c, prof)
    BY <1>2, <2>1, PromptSame
  <2> QED
    BY <2>1, <2>2, PeerOther DEF UpdInv, c
<1>5. CASE Send(p)
  <2>1. /\ Alone(p) /\ MayWrite(p) /\ e.call \in {"none", "send"} /\ f.error = e.error
        /\ f.call = (IF Blocked(f) THEN "send" ELSE "none") /\ SendsData(e, f, Chunk(e))
    BY <1>5, SendStep DEF Still
  <2>2. e.error = "none"
    BY <2>1 DEF MayWrite, Running
  <2>3. Prompt(f, prof)
    BY <1>2, <2>1, <2>2, PromptSends
  <2> QED
    BY <1>3, <2>1, <2>3
<1>6. CASE SendCorked(p)
  <2>1. Alone(p) /\ Core(f) = Core(e) /\ Still(e, f) /\ f.call = e.call
    BY <1>6, SendCorkedStep
  <2>2. Prompt(f, prof)
    <3> HIDE DEF e, f
    <3> QED
      BY <1>2, <2>1, PromptSame DEF Core, Still
  <2> QED
    BY <1>3, <2>1, <2>2
<1>7. CASE Cork(p) \/ Uncork(p) \/ UncorkDone(p)
  <2>1. /\ Alone(p) /\ Rest(f) = Rest(e) /\ Still(e, f)
        /\ prof.cork \/ Corked(e) \/ e.call = "loop"
    BY <1>7, CorkSteps
  <2>2. prof.cork
    BY <1>2, <2>1 DEF GoodSession
  <2>3. Prompt(f, prof)
    <3> HIDE DEF e, f
    <3> QED
      BY <1>2, <2>1, <2>2 DEF Prompt, Rest, NoCorkedRequests
  <2> QED
    BY <1>3, <2>1, <2>3
<1>8. CASE UncorkSend(p)
  <2>1. /\ Alone(p) /\ e.call = "loop" /\ \E g : Uncorks(e, f, g)
    BY <1>8, UncorkSendStep
  <2>2. PICK g : Uncorks(e, f, g)
    BY <2>1
  <2>3. prof.cork /\ ~e.due /\ ~e.skipped
    BY <1>2, <2>1 DEF GoodSession, Prompt, NoCorkedRequests
  <2>4. ~g.due /\ ~g.skipped
    <3>1. SendsData(e, g, Head(e.presend))
      BY <2>2 DEF Uncorks
    <3>2. g.skipped \in BOOLEAN /\ g.due \in BOOLEAN
      BY <2>2, FlagTypes DEF Uncorks
    <3> QED
      BY <2>3, <3>1, <3>2 DEF SendsData, Interrupted, Updated, Sends
  <2>5. Prompt(f, prof)
    BY <2>2, <2>3, <2>4 DEF Uncorks, Prompt
  <2> QED
    BY <1>3, <2>1, <2>5
<1>9. CASE \E ask \in BOOLEAN : Update(p, ask)
  <2>1. PICK ask \in BOOLEAN : Update(p, ask)
    BY <1>9
  <2>2. /\ Alone(p) /\ MayWrite(p) /\ Updates(e, f, RequestByte(ask)) /\ f.error = e.error
        /\ f.call = (IF Blocked(f) THEN "update" ELSE "none")
    BY <2>1, UpdateStep DEF Still
  <2>3. e.error = "none"
    BY <2>2 DEF MayWrite, Running
  <2>4. Prompt(f, prof)
    <3> HIDE DEF e, f
    <3> QED
      BY <1>2, <2>2, <2>3 DEF Prompt, Updates
  <2> QED
    BY <1>3, <2>2, <2>4
<1>10. CASE Recv(p)
  <2>1. f \in SessionSet(prof) /\ Reading(p) /\ Reads(e, f, r, "data") /\ e.error = "none"
    BY <1>10, RecvStep DEF Readable, Running
  <2> QED
    BY <1>2, <1>4, <2>1, PromptReads
<1>11. CASE RecvBuffered(p)
  <2>1. Alone(p) /\ Core(f) = Core(e) /\ Call(f) = Call(e) /\ f.error = e.error
    BY <1>11, RecvBufferedStep
  <2>2. Prompt(f, prof)
    <3> HIDE DEF e, f
    <3> QED
      BY <1>2, <2>1, PromptSame DEF Core, Call
  <2> QED
    BY <1>3, <2>1, <2>2
<1>12. CASE RecvEnd(p) \/ End(p) \/ Tick(p)
  <2>1. /\ Alone(p) /\ Call(f) = Call(e) /\ f.st = e.st /\ f.state150 = e.state150
        /\ f.due = e.due /\ f.skipped = e.skipped
        /\ e.error # "none" => f.error # "none"
    BY <1>12, QuietSteps
  <2>2. Prompt(f, prof)
    <3> HIDE DEF e, f
    <3> QED
      BY <1>2, <2>1, PromptSame DEF Call
  <2> QED
    BY <1>3, <2>1, <2>2
<1>13. CASE Bye(p)
  <2>1. /\ Alone(p) /\ Running(p) /\ ~e.state150 /\ f.state150 = e.state150 /\ f.due = e.due
        /\ f.skipped = e.skipped /\ (f.st = e.st \/ f.st = "KEY_UPDATE_1")
    BY <1>13, ByeStep DEF Goodbye
  <2>2. e.error = "none"
    BY <2>1 DEF Running
  <2>3. Prompt(f, prof)
    <3> HIDE DEF e, f
    <3> QED
      BY <1>2, <2>1, <2>2 DEF Prompt
  <2> QED
    BY <1>3, <2>1, <2>3
<1>14. CASE ByeWrite(p) \/ ByeWait(p)
  <2>1. /\ f \in SessionSet(prof) /\ e.bye = 2 /\ e.error = "none"
        /\ \/ (Alone(p) \/ Reading(p)) /\ Closes(e, f)
           \/ Reading(p) /\ Reads(e, f, r, "alert")
    BY <1>14, ByeWaitStep DEF Running
  <2>2. CASE (Alone(p) \/ Reading(p)) /\ Closes(e, f)
    <3>1. e.call = "bye"
      BY <1>2, <2>1 DEF Closing
    <3>2. Prompt(f, prof)
      <4> HIDE DEF e, f
      <4> QED
        BY <1>2, <2>1, <2>2, <3>1 DEF Prompt, Closes, Core
    <3> QED
      BY <1>3, <1>4, <2>2, <3>2
  <2>3. CASE Reading(p) /\ Reads(e, f, r, "alert")
    BY <1>2, <1>4, <2>1, <2>3, PromptReads, SMTT(40)
  <2> QED
    BY <2>1, <2>2, <2>3
<1> QED
  BY <1>1, <1>5, <1>6, <1>7, <1>8, <1>9, <1>10, <1>11, <1>12, <1>13, <1>14

\* A key update that the peer asked for is performed before the next record of
\* application data is encrypted, unless the application both corks and the
\* peer asks: whatever calls are interrupted and whenever automatic updates fall.
THEOREM UpdateBeforeDataHolds == Spec => [](NoCorkedRequests(prof) => UpdateBeforeData)
<1> DEFINE Inv == NoCorkedRequests(prof) => UpdInv
<1>1. Init => Inv
  <2> SUFFICES ASSUME Init, NEW p \in Nodes PROVE Prompt(ep[p], prof)
    BY DEF UpdInv
  <2>1. ep[p] = Session
    BY DEF Init
  <2>2. ~Session.due /\ ~Session.skipped /\ ~Session.state150
    BY DEF Session
  <2> QED
    BY <2>1, <2>2 DEF Prompt
<1>2. Typed /\ ByeInv /\ Inv /\ [Next]_vars => Inv'
  <2>1. ASSUME Typed, Next PROVE prof' = prof
    BY <2>1, ZenonT(40) DEF Next, Set, Send, SendCorked, Cork, Uncork, UncorkSend, UncorkDone, Update,
                Recv, RecvBuffered, RecvEnd, Bye, ByeWrite, ByeWait, End, Tick
  <2>2. ASSUME Typed, ByeInv, Inv, Next PROVE Inv'
    BY <2>1, <2>2, UpdNext
  <2>3. ASSUME Inv, UNCHANGED vars PROVE Inv'
    BY <2>3 DEF UpdInv, vars
  <2> QED
    BY <2>2, <2>3
<1>3. Inv => (NoCorkedRequests(prof) => UpdateBeforeData)
  BY DEF UpdInv, Prompt, UpdateBeforeData
<1> QED
  BY <1>1, <1>2, <1>3, ByeSpec, PTL DEF Spec

-----------------------------------------------------------------------------
(* The keys.                                                                   *)

\* The records of s are encrypted with the keys from generation g on, each key
\* but the last given up by a key update message; the next one is to be h.
Chain(s, g, h) ==
    /\ s = <<>> => g = h
    /\ s # <<>> => s[1].gen = g /\ h = s[Len(s)].gen + Step(s[Len(s)])
    /\ \A i \in 1..Len(s) : i # Len(s) => s[i + 1].gen = s[i].gen + Step(s[i])

\* Only the call that was interrupted in a key update is repeated.
Resumable(e, x) ==
    /\ e.state150 => \/ e.call = "update"
                     \/ e.call = "send" /\ e.st \in {"KEY_UPDATE_1", "KEY_UPDATE_2"}
                     \/ e.call = "uncork" /\ e.st = "CORKED_TO_KU" /\ e.presend # <<>>
                     \/ e.call = "loop" /\ e.st = "KEY_UPDATE_1" /\ e.presend # <<>>
    /\ e.call = "update" => e.state150
    /\ e.call = "loop" => e.orig \in {"CORKED", "CORKED_TO_KU"}
    /\ x.nonblock /\ e.call = "loop" /\ e.orig = "CORKED" => e.st = "NORMAL"
    /\ ~x.nonblock => e.sendbuf = <<>> /\ ~e.state150

\* The generation of the next record that e encrypts.
NextGen(e) == e.wgen + (IF e.state150 THEN 1 ELSE 0)

InStep(e, f) ==
    f.error = "none" =>
        IF e.ended THEN \E h \in Nat : Chain(e.wire, f.rgen, h)
        ELSE Chain(Pipe(e), f.rgen, NextGen(e))

KeyInv == \A p \in Nodes : Resumable(ep[p], prof) /\ InStep(ep[p], ep[Peer(p)])


\* One more record under the next key.
LEMMA ChainAppend ==
    ASSUME NEW x, NEW s \in Seq(Record(x)), NEW r \in Record(x), NEW g, NEW h,
           Chain(s, g, h), r.gen = h
    PROVE  Chain(Append(s, r), g, h + Step(r))
<1> DEFINE t == Append(s, r)
           n == Len(s)
<1>1. /\ t # <<>> /\ Len(t) = n + 1 /\ n \in Nat /\ t[n + 1] = r
      /\ \A i \in 1..n : t[i] = s[i]
  BY AppendProperties, LenProperties
<1>2. s = <<>> <=> n = 0
  BY EmptySeq
<1> HIDE DEF t
<1>3. t[1].gen = g
  <2>1. CASE n = 0
    BY <1>1, <1>2, <2>1 DEF Chain
  <2>2. CASE n # 0
    BY <1>1, <1>2, <2>2 DEF Chain
  <2> QED
    BY <2>1, <2>2
<1>4. ASSUME NEW i \in 1..Len(t), i # Len(t)
      PROVE  t[i + 1].gen = t[i].gen + Step(t[i])
  <2>1. i \in 1..n /\ t[i] = s[i] /\ n # 0
    BY <1>1, <1>4
  <2>2. CASE i = n
    BY <1>1, <1>2, <2>1, <2>2 DEF Chain
  <2>3. CASE i # n
    <3>1. i + 1 \in 1..n /\ t[i + 1] = s[i + 1]
      BY <1>1, <2>1, <2>3
    <3> QED
      BY <2>1, <2>3, <3>1 DEF Chain
  <2> QED
    BY <2>2, <2>3
<1>5. t[Len(t)] = r
  BY <1>1
<1>6. Chain(t, g, h + Step(r))
  BY <1>1, <1>3, <1>4, <1>5 DEF Chain
<1> QED
  BY <1>6 DEF t

\* The first record of a chain has the key g; the others follow.
LEMMA ChainTail ==
    ASSUME NEW x, NEW s \in Seq(Record(x)), s # <<>>, NEW g, NEW h, Chain(s, g, h)
    PROVE  Head(s).gen = g /\ Chain(Tail(s), g + Step(Head(s)), h)
<1> DEFINE t == Tail(s)
           n == Len(s)
<1>1. /\ n \in Nat \ {0} /\ Head(s) = s[1] /\ t \in Seq(Record(x)) /\ Len(t) = n - 1
      /\ \A i \in 1..Len(t) : t[i] = s[i + 1]
  BY EmptySeq, LenProperties, HeadTailProperties
<1>2. t = <<>> <=> n = 1
  BY <1>1, EmptySeq
<1>3. Head(s).gen = g
  BY <1>1 DEF Chain
<1> HIDE DEF t
<1>4. t = <<>> => g + Step(Head(s)) = h
  BY <1>1, <1>2 DEF Chain
<1>5. ASSUME t # <<>>
      PROVE  t[1].gen = g + Step(Head(s)) /\ h = t[Len(t)].gen + Step(t[Len(t)])
  <2>1. n # 1 /\ 1 \in 1..Len(t) /\ Len(t) \in 1..Len(t) /\ Len(t) + 1 = n /\ 1 \in 1..n
    BY <1>1, <1>2, <1>5
  <2>2. t[1] = s[1 + 1] /\ t[Len(t)] = s[n]
    BY <1>1, <2>1
  <2> QED
    BY <1>1, <1>3, <2>1, <2>2 DEF Chain
<1>6. ASSUME NEW i \in 1..Len(t), i # Len(t)
      PROVE  t[i + 1].gen = t[i].gen + Step(t[i])
  <2>1. i + 1 \in 1..Len(t) /\ i + 1 \in 1..n /\ i + 1 # n
    BY <1>1, <1>6
  <2>2. t[i] = s[i + 1] /\ t[i + 1] = s[(i + 1) + 1]
    BY <1>1, <2>1
  <2>3. s[(i + 1) + 1].gen = s[i + 1].gen + Step(s[i + 1])
    BY <2>1 DEF Chain
  <2> QED
    BY <2>2, <2>3
<1>7. Chain(t, g + Step(Head(s)), h)
  BY <1>4, <1>5, <1>6 DEF Chain
<1> QED
  BY <1>3, <1>7 DEF t

\* What comes first in a chain is a chain.
LEMMA ChainPrefix ==
    ASSUME NEW x, NEW s \in Seq(Record(x)), NEW t \in Seq(Record(x)), NEW g \in Nat, NEW h,
           Chain(s, g, h), Len(t) <= Len(s), \A i \in 1..Len(t) : t[i] = s[i]
    PROVE  \E k \in Nat : Chain(t, g, k)
<1> DEFINE n == Len(t)
           k == IF n = 0 THEN g ELSE t[n].gen + Step(t[n])
<1>1. n \in Nat /\ Len(s) \in Nat /\ (t = <<>> <=> n = 0) /\ (s = <<>> <=> Len(s) = 0)
  BY LenProperties, EmptySeq
<1>2. k \in Nat
  <2>1. CASE n = 0
    BY <2>1
  <2>2. CASE n # 0
    <3>1. t[n] \in Record(x)
      BY <1>1, <2>2, ElementOfSeq
    <3>2. t[n].gen \in Nat /\ Step(t[n]) \in Nat
      BY <3>1 DEF Record, Step
    <3> QED
      BY <2>2, <3>2
  <2> QED
    BY <2>1, <2>2
<1>3. ASSUME NEW i \in 1..n, i # n
      PROVE  t[i + 1].gen = t[i].gen + Step(t[i])
  <2>1. i + 1 \in 1..n /\ i \in 1..Len(s) /\ i # Len(s)
    BY <1>1, <1>3
  <2> QED
    BY <2>1 DEF Chain
<1>4. t # <<>> => t[1].gen = g
  BY <1>1 DEF Chain
<1>5. Chain(t, g, k)
  BY <1>1, <1>3, <1>4 DEF Chain
<1> QED
  BY <1>2, <1>5

\* The records that a session sent, and the one that it encrypts next.
LEMMA PipeFacts ==
    ASSUME NEW x, NEW e \in SessionSet(x)
    PROVE  /\ Pipe(e) \in Seq(Record(x)) /\ e.wgen \in Nat
           /\ \A type \in {"data", "alert"}, body \in Nat :
                 Rec(e, type, body) \in Record(x)
           /\ e.wgen < MaxUpdates => Rec(e, "key_update", 0) \in Record(x)
           /\ e.wgen < MaxUpdates /\ x.requests => Rec(e, "key_update", 1) \in Record(x)
<1>1. e.wgen \in Nat /\ e.wire \in Seq(Record(x)) /\ e.sendbuf \in Seq(Record(x))
  BY FieldTypes
<1>2. Pipe(e) \in Seq(Record(x))
  BY <1>1, ConcatProperties DEF Pipe
<1> QED
  BY <1>1, <1>2 DEF Rec, Record, RecordTypes

\* Data and alerts are encrypted with the key in use ...
LEMMA ChainSends ==
    ASSUME NEW x, NEW e \in SessionSet(x), NEW f, NEW type \in {"data", "alert"},
           NEW body \in Nat, NEW g,
           Chain(Pipe(e), g, NextGen(e)), ~Blocked(e) => ~e.state150, Sends(e, f, type, body)
    PROVE  Chain(Pipe(f), g, NextGen(f))
<1>1. NextGen(f) = NextGen(e)
  BY DEF NextGen, Sends
<1>2. CASE Blocked(e)
  BY <1>1, <1>2 DEF Sends
<1>3. CASE ~Blocked(e)
  <2> DEFINE s == Pipe(e)
             r == Rec(e, type, body)
  <2>1. s \in Seq(Record(x)) /\ r \in Record(x) /\ e.wgen \in Nat
    BY PipeFacts
  <2>2. r.gen = e.wgen /\ Step(r) = 0
    BY DEF Rec, Step
  <2>3. NextGen(e) = e.wgen /\ e.wgen + Step(r) = e.wgen
    BY <1>3, <2>1, <2>2 DEF NextGen
  <2>4. Pipe(f) = Append(s, r) /\ Chain(s, g, e.wgen)
    BY <1>3, <2>3 DEF Sends
  <2> HIDE DEF s, r
  <2>5. Chain(Append(s, r), g, e.wgen + Step(r))
    BY <2>1, <2>2, <2>4, ChainAppend
  <2> QED
    BY <1>1, <2>3, <2>4, <2>5
<1> QED
  BY <1>2, <1>3

\* ... and so is the key update message, after which comes the next key.
LEMMA ChainAfterUpdate ==
    ASSUME NEW x, NEW e \in SessionSet(x), e.wgen < MaxUpdates, NEW byte \in {0, 1},
           byte = 1 => x.requests, NEW g, Chain(Pipe(e), g, NextGen(e))
    PROVE  AfterUpdate(e, byte) \in Seq(Record(x)) /\ Chain(AfterUpdate(e, byte), g, e.wgen + 1)
<1>1. CASE e.state150
  BY <1>1, PipeFacts DEF AfterUpdate, NextGen
<1>2. CASE ~e.state150
  <2> DEFINE s == Pipe(e)
             r == Rec(e, "key_update", byte)
  <2>1. s \in Seq(Record(x)) /\ r \in Record(x) /\ e.wgen \in Nat
    BY PipeFacts
  <2>2. r.gen = e.wgen /\ Step(r) = 1
    BY DEF Rec, Step
  <2>3. AfterUpdate(e, byte) = Append(s, r) /\ Chain(s, g, e.wgen)
    BY <1>2, <2>1 DEF AfterUpdate, NextGen
  <2> HIDE DEF s, r
  <2>4. Append(s, r) \in Seq(Record(x)) /\ Chain(Append(s, r), g, e.wgen + Step(r))
    BY <2>1, <2>2, <2>3, ChainAppend, AppendProperties
  <2> QED
    BY <2>2, <2>3, <2>4
<1> QED
  BY <1>1, <1>2

\* gnutls_record_send keeps the chain whole, interrupted or not.
LEMMA ChainSendsData ==
    ASSUME NEW x, NEW e \in SessionSet(x), NEW f \in SessionSet(x), NEW chunk \in Nat, NEW g,
           Chain(Pipe(e), g, NextGen(e)), Updating(e) => e.wgen < MaxUpdates,
           ~Updating(e) => ~e.state150, SendsData(e, f, chunk)
    PROVE  Chain(Pipe(f), g, NextGen(f))
<1>1. CASE ~Updating(e)
  BY <1>1, ChainSends DEF SendsData
<1>2. CASE Updating(e)
  <2> DEFINE s == AfterUpdate(e, 0)
             r == [type |-> "data", gen |-> e.wgen + 1, body |-> Deferred(e, chunk)]
  <2>1. s \in Seq(Record(x)) /\ Chain(s, g, e.wgen + 1)
    BY <1>2, ChainAfterUpdate
  <2>2. e.wgen \in Nat /\ Deferred(e, chunk) \in Nat
    BY FieldTypes DEF Deferred
  <2>3. r \in Record(x) /\ r.gen = e.wgen + 1 /\ Step(r) = 0
    BY <2>2 DEF Record, RecordTypes, Step
  <2>4. CASE Interrupted(e, f, chunk)
    BY <2>1, <2>4 DEF Interrupted, NextGen
  <2>5. CASE Updated(e, f, chunk)
    <3>1. Pipe(f) = Append(s, r) /\ NextGen(f) = e.wgen + 1
      BY <2>2, <2>5 DEF Updated, NextGen
    <3> HIDE DEF s, r
    <3>2. Chain(Append(s, r), g, (e.wgen + 1) + Step(r))
      BY <2>1, <2>3, ChainAppend
    <3> QED
      BY <2>2, <2>3, <3>1, <3>2
  <2> QED
    BY <1>2, <2>4, <2>5 DEF SendsData
<1> QED
  BY <1>1, <1>2

\* The records that p reads are those its peer wrote, in that order: the first
\* one has the key p reads with, and the key it has then fits the next one.
LEMMA InStepDrained ==
    ASSUME NEW d \in SessionSet(prof), NEW c, Drained(d, c), NEW e \in SessionSet(prof),
           e.error = "none", InStep(d, e)
    PROVE  /\ Head(d.wire).gen = e.rgen
           /\ \A f : f.rgen = e.rgen + Step(Head(d.wire)) => InStep(c, f)
<1> DEFINE r == Head(d.wire)
<1>1. /\ c.ended = d.ended /\ NextGen(c) = NextGen(d) /\ c.wire = Tail(d.wire)
      /\ Pipe(c) = Tail(Pipe(d)) /\ Head(Pipe(d)) = r /\ Pipe(d) # <<>> /\ d.wire # <<>>
  BY DEF Drained, Still, NextGen
<1>2. d.wire \in Seq(Record(prof)) /\ Pipe(d) \in Seq(Record(prof))
  BY FieldTypes, PipeFacts
<1>3. CASE d.ended
  <2>1. PICK h \in Nat : Chain(d.wire, e.rgen, h)
    BY <1>3 DEF InStep
  <2>2. r.gen = e.rgen /\ Chain(Tail(d.wire), e.rgen + Step(r), h)
    BY <1>1, <1>2, <2>1, ChainTail
  <2> QED
    BY <1>1, <1>3, <2>2 DEF InStep
<1>4. CASE ~d.ended
  <2>1. Chain(Pipe(d), e.rgen, NextGen(d))
    BY <1>4 DEF InStep
  <2>2. r.gen = e.rgen /\ Chain(Tail(Pipe(d)), e.rgen + Step(r), NextGen(d))
    BY <1>1, <1>2, <2>1, ChainTail
  <2> QED
    BY <1>1, <1>4, <2>2 DEF InStep
<1> QED
  BY <1>3, <1>4

\* What does not touch what e sent, and what f reads, leaves them in step.
LEMMA InStepSame ==
    ASSUME NEW e, NEW f, NEW d, NEW c, InStep(e, d),
           f.wire = e.wire, f.sendbuf = e.sendbuf, f.ended = e.ended, f.wgen = e.wgen,
           f.state150 = e.state150, c.rgen = d.rgen, d.error # "none" => c.error # "none"
    PROVE  InStep(f, c)
BY DEF InStep, Pipe, NextGen

\* The transport does not block, the application does not cork, or the library
\* does not update keys by itself.
NoCorkedRekey(x) == x.nonblock /\ x.cork => x.rekey = 0

\* A record that was read does not disturb an interrupted call.
LEMMA ResumableReads ==
    ASSUME NEW e, NEW f, NEW r, NEW wanted, Resumable(e, prof), Reads(e, f, r, wanted),
           e.call # "loop"
    PROVE  Resumable(f, prof)
<1>1. /\ f.state150 = e.state150 /\ f.call = e.call /\ f.presend = e.presend
      /\ f.orig = e.orig /\ f.sendbuf = e.sendbuf
  BY DEF Reads, Untouched
<1>2. \/ f.st = e.st
      \/ e.st = "NORMAL" /\ f.st = "KEY_UPDATE_1"
      \/ e.st = "CORKED" /\ f.st = "CORKED_TO_KU"
  BY DEF Reads, Refused, Accepted
<1> QED
  BY <1>1, <1>2 DEF Resumable

\* A step that reads keeps the keys in step.
LEMMA KeysReading ==
    ASSUME Typed, KeyInv, KeysInStep, NEW p \in Nodes, Reading(p), ep[p].error = "none",
           ep'[p] \in SessionSet(prof), Resumable(ep'[p], prof),
           LET e == ep[p]
               f == ep'[p]
               r == Head(ep[Peer(p)].wire)
           IN  \/ \E wanted : Reads(e, f, r, wanted)
               \/ Closes(e, f) /\ r.type = "alert" /\ f.error = "none"
    PROVE  KeyInv' /\ KeysInStep'
<1> DEFINE e == ep[p]
           f == ep'[p]
           d == ep[Peer(p)]
           c == ep'[Peer(p)]
           r == Head(d.wire)
<1>1. /\ e \in SessionSet(prof) /\ d \in SessionSet(prof) /\ InStep(e, d) /\ InStep(d, e)
      /\ Resumable(d, prof) /\ d.error # "decryption_failed"
  BY PeerOther, TypedFacts DEF KeyInv, KeysInStep
<1>2. Drained(d, c) /\ prof' = prof
  BY DEF Reading
<1>3. /\ c.rgen = d.rgen /\ c.error = d.error /\ Call(c) = Call(d)
      /\ c.st = d.st /\ c.state150 = d.state150 /\ c.sendbuf = d.sendbuf
  BY <1>2 DEF Drained, Still
<1>4. /\ f.wire = e.wire /\ f.sendbuf = e.sendbuf /\ f.ended = e.ended /\ f.wgen = e.wgen
      /\ f.state150 = e.state150
  BY DEF Reads, Untouched, Closes, Core
<1>5. InStep(f, c)
  BY <1>1, <1>3, <1>4, InStepSame
<1>6. Resumable(c, prof)
  <2> HIDE DEF c, d
  <2> QED
    BY <1>1, <1>3 DEF Resumable, Call
<1>7. r.gen = e.rgen /\ \A g : g.rgen = e.rgen + Step(r) => InStep(c, g)
  BY <1>1, <1>2, InStepDrained
<1>8. InStep(c, f) /\ f.error # "decryption_failed"
  <2>1. e.rgen \in Nat
    BY <1>1, FieldTypes
  <2>2. CASE f.error # "none"
    BY <1>7, <2>2 DEF InStep, Reads, Refused, Accepted
  <2>3. CASE f.error = "none" /\ Closes(e, f) /\ r.type = "alert"
    BY <1>7, <2>1, <2>3 DEF Closes, Step
  <2>4. ASSUME f.error = "none", NEW wanted, Reads(e, f, r, wanted)
        PROVE  f.rgen = e.rgen + Step(r)
    BY <2>4 DEF Reads, Refused, Accepted
  <2> QED
    BY <1>7, <2>2, <2>3, <2>4
<1>9. c.error # "decryption_failed"
  BY <1>1, <1>3
<1> QED
  BY <1>2, <1>5, <1>6, <1>8, <1>9, PeerOther DEF KeyInv, KeysInStep

\* A step of p alone keeps them in step if its own records fit.
LEMMA KeysAlone ==
    ASSUME Typed, KeyInv, KeysInStep, NEW p \in Nodes, Alone(p), Resumable(ep'[p], prof),
           ep'[p].rgen = ep[p].rgen,
           ep'[p].error \in {ep[p].error, "premature_termination"},
           InStep(ep'[p], ep[Peer(p)])
    PROVE  KeyInv' /\ KeysInStep'
<1> DEFINE e == ep[p]
           f == ep'[p]
           d == ep[Peer(p)]
           c == ep'[Peer(p)]
<1>1. /\ InStep(d, e) /\ Resumable(d, prof) /\ d.error # "decryption_failed"
      /\ e.error # "decryption_failed"
  BY PeerOther DEF KeyInv, KeysInStep
<1>2. c = d /\ prof' = prof
  BY DEF Alone
<1>3. InStep(c, f)
  BY <1>1, <1>2, InStepSame
<1> QED
  BY <1>1, <1>2, <1>3, PeerOther DEF KeyInv, KeysInStep

\* Every step of the specification keeps the keys in step.
LEMMA KeyNext ==
    ASSUME Typed, ByeInv, NoCorkedRekey(prof), KeyInv, KeysInStep, Next
    PROVE  KeyInv' /\ KeysInStep'
<1>1. PICK p \in Nodes :
            \/ Send(p) \/ SendCorked(p)
            \/ Cork(p) \/ Uncork(p) \/ UncorkSend(p) \/ UncorkDone(p)
            \/ \E ask \in BOOLEAN : Update(p, ask)
            \/ Recv(p) \/ RecvBuffered(p) \/ RecvEnd(p)
            \/ Bye(p) \/ ByeWrite(p) \/ ByeWait(p) \/ End(p)
            \/ Tick(p)
  BY DEF Next
<1> DEFINE e == ep[p]
           f == ep'[p]
           d == ep[Peer(p)]
           r == Head(d.wire)
<1>2. /\ e \in SessionSet(prof) /\ GoodSession(e, prof) /\ Resumable(e, prof)
      /\ InStep(e, d) /\ Closing(e, d) /\ d \in SessionSet(prof)
  BY PeerOther, TypedFacts DEF KeyInv, ByeInv
<1>3. e.wgen \in Nat /\ e.next \in Nat /\ e.presend \in Seq(Nat)
  BY <1>2, FieldTypes
\* A call that encrypts, on a transport that is there.
<1>4. ASSUME ~e.ended, f.ended = e.ended,
             \A g : Chain(Pipe(e), g, NextGen(e)) => Chain(Pipe(f), g, NextGen(f))
      PROVE  InStep(f, d)
  BY <1>2, <1>4 DEF InStep
<1>5. CASE Send(p)
  <2>1. /\ f \in SessionSet(prof) /\ Alone(p) /\ MayWrite(p) /\ e.call \in {"none", "send"}
        /\ (Updating(e) => e.wgen < MaxUpdates) /\ Still(e, f)
        /\ f.call = (IF Blocked(f) THEN "send" ELSE "none") /\ SendsData(e, f, Chunk(e))
    BY <1>5, SendStep
  <2>2. ~e.ended /\ Chunk(e) \in Nat /\ (~Updating(e) => ~e.state150)
    BY <1>2, <1>3, <2>1 DEF MayWrite, Running, Chunk, Resumable, Updating
  <2>3. ASSUME NEW g, Chain(Pipe(e), g, NextGen(e)) PROVE Chain(Pipe(f), g, NextGen(f))
    <3> HIDE DEF e, f
    <3> QED
      BY <1>2, <2>1, <2>2, <2>3, ChainSendsData
  <2>4. InStep(f, d)
    BY <1>4, <2>1, <2>2, <2>3 DEF Still
  <2>5. Resumable(f, prof)
    <3> HIDE DEF e, f
    <3>1. CASE Interrupted(e, f, Chunk(e))
      BY <2>1, <3>1 DEF Interrupted, Updating, Resumable
    <3>2. CASE Updated(e, f, Chunk(e))
      BY <2>1, <3>2 DEF Updated, Resumable, Blocked
    <3>3. CASE ~Updating(e) /\ Sends(e, f, "data", Chunk(e))
      BY <2>1, <2>2, <3>3 DEF Sends, Resumable, Blocked
    <3> QED
      BY <2>1, <3>1, <3>2, <3>3 DEF SendsData
  <2> QED
    BY <2>1, <2>4, <2>5, KeysAlone DEF Still
<1>6. CASE SendCorked(p)
  <2>1. /\ Alone(p) /\ Core(f) = Core(e) /\ Still(e, f) /\ f.orig = e.orig /\ f.call = e.call
        /\ f.presend = Append(e.presend, e.next + 1) /\ e.call \in {"none", "uncork"}
    BY <1>6, SendCorkedStep
  <2>2. f.presend # <<>>
    <3> DEFINE s == e.presend
               k == e.next + 1
    <3>1. s \in Seq(Nat) /\ k \in Nat /\ f.presend = Append(s, k)
      BY <1>3, <2>1
    <3> HIDE DEF s, k, f
    <3> QED
      BY <3>1, AppendProperties
  <2>3. InStep(f, d)
    <3> HIDE DEF e, f
    <3> QED
      BY <1>2, <2>1, InStepSame DEF Core, Still
  <2>4. Resumable(f, prof)
    <3> HIDE DEF e, f
    <3> QED
      BY <1>2, <2>1, <2>2 DEF Resumable, Core
  <2> QED
    BY <2>1, <2>3, <2>4, KeysAlone DEF Still
<1>7. CASE Cork(p) \/ Uncork(p) \/ UncorkDone(p)
  <2>1. /\ Alone(p) /\ Rest(f) = Rest(e) /\ Still(e, f) /\ f.presend = e.presend
        /\ \/ e.call = "none" /\ f.call = e.call
           \/ /\ Corked(e) /\ e.call \in {"none", "uncork"} /\ f.call = "loop" /\ f.orig = e.st
              /\ f.st = (IF e.st = "CORKED" THEN "NORMAL" ELSE "KEY_UPDATE_1")
           \/ e.call = "loop" /\ e.presend = <<>> /\ f.call = "none"
    BY <1>7, CorkSteps
  <2>2. InStep(f, d)
    <3> HIDE DEF e, f
    <3> QED
      BY <1>2, <2>1, InStepSame DEF Rest, Still
  <2>3. Resumable(f, prof)
    <3> HIDE DEF e, f
    <3>1. f.state150 = e.state150 /\ f.sendbuf = e.sendbuf
      BY <2>1 DEF Rest
    <3> QED
      BY <1>2, <2>1, <3>1 DEF Resumable, Corked
  <2> QED
    BY <2>1, <2>2, <2>3, KeysAlone DEF Still
<1>8. CASE UncorkSend(p)
  <2>1. /\ Alone(p) /\ Running(p) /\ e.call = "loop" /\ e.presend # <<>> /\ Still(e, f)
        /\ (Updating(e) => e.wgen < MaxUpdates) /\ f.orig = e.orig /\ \E g : Uncorks(e, f, g)
    BY <1>8, UncorkSendStep
  <2>2. PICK g : Uncorks(e, f, g)
    BY <2>1
  <2> DEFINE k == Head(e.presend)
  <2>3. k \in Nat
    BY <1>3, <2>1, HeadTailProperties
  <2>4. /\ g \in SessionSet(prof) /\ SendsData(e, g, k) /\ Pipe(f) = Pipe(g)
        /\ f.wgen = g.wgen /\ f.state150 = g.state150 /\ f.sendbuf = g.sendbuf
    BY <2>2 DEF Uncorks
  <2>5. ~e.ended /\ (~Updating(e) => ~e.state150) /\ prof.cork
    BY <1>2, <2>1 DEF Running, Resumable, Updating, GoodSession
  <2> HIDE DEF e, f, k
  <2>6. ASSUME NEW h, Chain(Pipe(e), h, NextGen(e)) PROVE Chain(Pipe(f), h, NextGen(f))
    <3>1. Chain(Pipe(g), h, NextGen(g))
      BY <1>2, <2>1, <2>3, <2>4, <2>5, <2>6, ChainSendsData
    <3> QED
      BY <2>4, <3>1 DEF NextGen
  <2>7. InStep(f, d)
    BY <1>4, <2>1, <2>5, <2>6 DEF Still
  <2>8. Resumable(f, prof)
    <3>1. /\ Blocked(g) => f.st = e.orig /\ f.call = "uncork" /\ f.presend = e.presend
          /\ ~Blocked(g) => f.st = g.st /\ f.call = "loop"
      BY <2>2 DEF Uncorks
    <3>2. e.orig \in {"CORKED", "CORKED_TO_KU"}
      BY <1>2, <2>1 DEF Resumable
    <3>3. CASE Updating(e) /\ Interrupted(e, g, k)
      <4>1. prof.nonblock /\ Blocked(g) /\ g.state150 /\ e.orig = "CORKED_TO_KU"
        BY <1>2, <2>1, <3>2, <3>3 DEF Interrupted, Resumable, Updating
      <4> QED
        BY <2>1, <3>1, <4>1 DEF Resumable
    <3>4. CASE Updating(e) /\ Updated(e, g, k)
      <4>1. ~g.state150 /\ (~prof.nonblock => ~Blocked(g))
        BY <3>4 DEF Updated
      <4>2. prof.nonblock => e.orig = "CORKED_TO_KU"
        BY <1>2, <2>1, <3>2, <3>4 DEF Resumable, Updating
      <4> QED
        BY <2>1, <2>4, <3>1, <3>2, <4>1, <4>2 DEF Resumable, Blocked
    <3>5. CASE ~Updating(e) /\ Sends(e, g, "data", k)
      <4>1. ~g.state150 /\ (~prof.nonblock => ~Blocked(g))
        BY <2>5, <3>5 DEF Sends
      <4>2. prof.nonblock /\ e.orig = "CORKED" => g.st = "NORMAL"
        BY <1>2, <2>1, <2>5, <3>5 DEF Sends, Resumable, NoCorkedRekey
      <4> QED
        BY <2>1, <2>4, <3>1, <3>2, <4>1, <4>2 DEF Resumable, Blocked
    <3> QED
      BY <2>4, <3>3, <3>4, <3>5 DEF SendsData
  <2> QED
    BY <2>1, <2>7, <2>8, KeysAlone DEF Still, e, f
<1>9. CASE \E ask \in BOOLEAN : Update(p, ask)
  <2>1. PICK ask \in BOOLEAN : Update(p, ask)
    BY <1>9
  <2> DEFINE b == RequestByte(ask)
  <2>2. /\ Alone(p) /\ MayWrite(p) /\ (ask => prof.requests) /\ e.wgen < MaxUpdates
        /\ Still(e, f) /\ f.call = (IF Blocked(f) THEN "update" ELSE "none")
        /\ Updates(e, f, b)
    BY <2>1, UpdateStep
  <2>3. ~e.ended /\ b \in {0, 1} /\ (b = 1 => prof.requests)
    BY <2>2 DEF MayWrite, Running, RequestByte
  <2> HIDE DEF e, f, b
  <2>4. NextGen(f) = e.wgen + 1
    BY <1>3, <2>2 DEF Updates, NextGen
  <2>5. ASSUME NEW g, Chain(Pipe(e), g, NextGen(e)) PROVE Chain(Pipe(f), g, NextGen(f))
    <3>1. Chain(AfterUpdate(e, b), g, e.wgen + 1)
      BY <1>2, <2>2, <2>3, <2>5, ChainAfterUpdate
    <3> QED
      BY <2>2, <2>4, <3>1 DEF Updates
  <2>6. InStep(f, d)
    BY <1>4, <2>2, <2>3, <2>5 DEF Still
  <2>7. Resumable(f, prof)
    BY <2>2 DEF Updates, Resumable, Blocked
  <2> QED
    BY <2>2, <2>6, <2>7, KeysAlone DEF Still, e, f
<1>10. CASE Recv(p)
  <2>1. /\ f \in SessionSet(prof) /\ Reading(p) /\ Reads(e, f, r, "data")
        /\ e.error = "none" /\ e.call # "loop"
    BY <1>10, RecvStep DEF Readable, Running
  <2>2. Resumable(f, prof)
    BY <1>2, <2>1, ResumableReads
  <2> QED
    BY <2>1, <2>2, KeysReading
<1>11. CASE RecvBuffered(p)
  <2>1. /\ Alone(p) /\ Core(f) = Core(e) /\ Call(f) = Call(e) /\ f.rgen = e.rgen
        /\ f.ended = e.ended /\ f.error = e.error
    BY <1>11, RecvBufferedStep
  <2> HIDE DEF e, f
  <2>2. InStep(f, d)
    BY <1>2, <2>1, InStepSame DEF Core
  <2>3. Resumable(f, prof)
    BY <1>2, <2>1 DEF Resumable, Core, Call
  <2> QED
    BY <2>1, <2>2, <2>3, KeysAlone DEF e, f
<1>12. CASE RecvEnd(p) \/ End(p) \/ Tick(p)
  <2>1. /\ Alone(p) /\ Call(f) = Call(e) /\ f.st = e.st /\ f.state150 = e.state150
        /\ f.sendbuf = e.sendbuf /\ f.wgen = e.wgen /\ f.rgen = e.rgen
        /\ f.error \in {e.error, "premature_termination"}
        /\ \/ f.wire = e.wire /\ f.ended = e.ended
           \/ f.ended /\ \E n \in 0..Len(e.wire) : f.wire = SubSeq(e.wire, 1, n)
    BY <1>12, QuietSteps
  <2>2. f \in SessionSet(prof)
    BY <1>12, QuietSteps
  <2> HIDE DEF e, f
  <2>3. Resumable(f, prof)
    BY <1>2, <2>1 DEF Resumable, Call
  <2>4. CASE f.wire = e.wire /\ f.ended = e.ended
    <3>1. InStep(f, d)
      BY <1>2, <2>1, <2>4, InStepSame
    <3> QED
      BY <2>1, <2>3, <3>1, KeysAlone DEF e, f
  <2>5. CASE f.ended /\ \E n \in 0..Len(e.wire) : f.wire = SubSeq(e.wire, 1, n)
    <3>1. PICK n \in 0..Len(e.wire) : f.wire = SubSeq(e.wire, 1, n)
      BY <2>5
    <3> DEFINE w == e.wire
               b == e.sendbuf
               t == f.wire
    <3>2. w \in Seq(Record(prof)) /\ b \in Seq(Record(prof)) /\ t \in Seq(Record(prof))
      BY <1>2, <2>2, FieldTypes
    <3>3. d.rgen \in Nat
      BY <1>2, FieldTypes
    <3>4. t = SubSeq(w, 1, n) /\ n \in 0..Len(w) /\ Len(w) \in Nat /\ Len(b) \in Nat
      BY <3>1, <3>2, LenProperties
    <3> HIDE DEF w, b, t
    <3>5. Len(t) = n /\ \A i \in 1..n : t[i] = w[i]
      BY <3>2, <3>4, SubSeqProperties
    <3>6. /\ w \o b \in Seq(Record(prof)) /\ Len(w \o b) = Len(w) + Len(b)
          /\ \A i \in 1..Len(w) : (w \o b)[i] = w[i]
      BY <3>2, <3>4, ConcatProperties
    <3>7. Len(t) <= Len(w) /\ Len(t) <= Len(w \o b) /\ \A i \in 1..Len(t) : t[i] = (w \o b)[i]
      BY <3>4, <3>5, <3>6
    <3>8. ASSUME d.error = "none" PROVE \E h \in Nat : Chain(t, d.rgen, h)
      <4>1. CASE e.ended
        <5>1. PICK h \in Nat : Chain(w, d.rgen, h)
          BY <1>2, <3>8, <4>1 DEF InStep, w
        <5> QED
          BY <3>2, <3>3, <3>5, <3>7, <5>1, ChainPrefix
      <4>2. CASE ~e.ended
        <5>1. Chain(w \o b, d.rgen, NextGen(e))
          BY <1>2, <3>8, <4>2 DEF InStep, Pipe, w, b
        <5> QED
          BY <3>2, <3>3, <3>6, <3>7, <5>1, ChainPrefix
      <4> QED
        BY <4>1, <4>2
    <3>9. InStep(f, d)
      BY <2>5, <3>8 DEF InStep, t
    <3> QED
      BY <2>1, <2>3, <3>9, KeysAlone DEF e, f
  <2> QED
    BY <2>1, <2>4, <2>5
<1>13. CASE Bye(p)
  <2>1. /\ Alone(p) /\ Running(p) /\ ~e.state150 /\ Still(e, f) /\ f.call = "bye"
        /\ f.wgen = e.wgen /\ f.state150 = e.state150 /\ (~prof.nonblock => ~Blocked(f))
        /\ Goodbye(e, f)
    BY <1>13, ByeStep
  <2>2. ~e.ended /\ NextGen(f) = e.wgen /\ NextGen(e) = e.wgen
    BY <1>3, <2>1 DEF Running, NextGen
  <2> HIDE DEF e, f
  <2>3. ASSUME NEW g, Chain(Pipe(e), g, NextGen(e)) PROVE Chain(Pipe(f), g, NextGen(f))
    <3>1. CASE Pipe(f) = Pipe(e)
      BY <2>2, <2>3, <3>1
    <3>2. CASE Pipe(f) = Append(Pipe(e), Rec(e, "alert", 0))
      <4> DEFINE s == Pipe(e)
                 a == Rec(e, "alert", 0)
      <4>1. s \in Seq(Record(prof)) /\ a \in Record(prof)
        BY <1>2, PipeFacts
      <4>2. a.gen = e.wgen /\ Step(a) = 0
        BY DEF Rec, Step
      <4> HIDE DEF s, a
      <4>3. Chain(Append(s, a), g, e.wgen + Step(a))
        BY <2>2, <2>3, <4>1, <4>2, ChainAppend DEF s
      <4> QED
        BY <1>3, <2>2, <3>2, <4>2, <4>3 DEF s, a
    <3> QED
      BY <2>1, <3>1, <3>2 DEF Goodbye
  <2>4. InStep(f, d)
    BY <1>4, <2>1, <2>2, <2>3 DEF Still
  <2>5. Resumable(f, prof)
    BY <2>1 DEF Resumable, Blocked
  <2> QED
    BY <2>1, <2>4, <2>5, KeysAlone DEF Still, e, f
<1>14. CASE ByeWrite(p) \/ ByeWait(p)
  <2>1. /\ f \in SessionSet(prof) /\ e.bye = 2 /\ e.error = "none"
        /\ \/ Alone(p) /\ Closes(e, f) /\ f.error \in {"none", "premature_termination"}
           \/ Reading(p) /\ Reads(e, f, r, "alert")
           \/ Reading(p) /\ Closes(e, f) /\ r.type = "alert" /\ f.error = "none"
    BY <1>14, ByeWaitStep DEF Running
  <2>2. e.call = "bye" /\ ~e.state150
    BY <1>2, <2>1 DEF Closing, Resumable
  <2>3. ASSUME Closes(e, f) PROVE Resumable(f, prof) /\ InStep(f, d) /\ f.rgen = e.rgen
    <3> HIDE DEF e, f
    <3>1. /\ f.wire = e.wire /\ f.sendbuf = e.sendbuf /\ f.ended = e.ended /\ f.wgen = e.wgen
          /\ f.state150 = e.state150 /\ f.call = "none" /\ f.rgen = e.rgen
      BY <2>3 DEF Closes, Core
    <3> QED
      BY <1>2, <2>2, <3>1, InStepSame DEF Resumable
  <2>4. CASE Alone(p) /\ Closes(e, f) /\ f.error \in {"none", "premature_termination"}
    BY <2>1, <2>3, <2>4, KeysAlone
  <2>5. CASE Reading(p) /\ Reads(e, f, r, "alert")
    <3>1. Resumable(f, prof)
      BY <1>2, <2>2, <2>5, ResumableReads
    <3> QED
      BY <2>1, <2>5, <3>1, KeysReading
  <2>6. CASE Reading(p) /\ Closes(e, f) /\ r.type = "alert" /\ f.error = "none"
    BY <2>1, <2>3, <2>6, KeysReading, SMTT(40)
  <2> QED
    BY <2>1, <2>4, <2>5, <2>6
<1> QED
  BY <1>1, <1>5, <1>6, <1>7, <1>8, <1>9, <1>10, <1>11, <1>12, <1>13, <1>14

\* The profile does not change.
LEMMA ProfSame ==
    ASSUME Next
    PROVE  prof' = prof
BY ZenonT(40) DEF Next, Set, Send, SendCorked, Cork, Uncork, UncorkSend, UncorkDone, Update,
       Recv, RecvBuffered, RecvEnd, Bye, ByeWrite, ByeWait, End, Tick

\* The inductive invariant of the keys.
LEMMA KeySpec == Spec => [](Typed /\ ByeInv /\ (NoCorkedRekey(prof) => KeyInv /\ KeysInStep))
<1> DEFINE Inv == NoCorkedRekey(prof) => KeyInv /\ KeysInStep
<1>1. Init => Inv
  <2> SUFFICES ASSUME Init, NEW p \in Nodes
               PROVE  /\ Resumable(ep[p], prof) /\ InStep(ep[p], ep[Peer(p)])
                      /\ ep[p].error # "decryption_failed"
    BY DEF KeyInv, KeysInStep
  <2>1. ep[p] = Session /\ ep[Peer(p)] = Session
    BY PeerOther DEF Init
  <2>2. Resumable(Session, prof) /\ Session.error # "decryption_failed"
    BY DEF Session, Resumable
  <2>3. Session.wire = <<>> /\ Session.sendbuf = <<>> /\ Session.rgen = 0 /\ NextGen(Session) = 0
    BY DEF Session, NextGen
  <2>4. ~Session.ended
    BY DEF Session
  <2>5. <<>> \o <<>> = <<>> /\ Len(<<>>) = 0
    BY EmptySeq, ConcatEmptySeq
  <2>6. Chain(<<>>, 0, 0)
    BY <2>5 DEF Chain
  <2>7. InStep(Session, Session)
    BY <2>3, <2>4, <2>5, <2>6 DEF InStep, Pipe
  <2> QED
    BY <2>1, <2>2, <2>7
<1>2. Typed /\ ByeInv /\ Inv /\ [Next]_vars => Inv'
  <2>1. ASSUME Typed, ByeInv, Inv, Next PROVE Inv'
    BY <2>1, ProfSame, KeyNext
  <2>2. ASSUME Inv, UNCHANGED vars PROVE Inv'
    BY <2>2 DEF KeyInv, KeysInStep, vars
  <2> QED
    BY <2>1, <2>2
<1> QED
  BY <1>1, <1>2, ByeSpec, PTL DEF Spec

\* No record ever fails to decrypt: the reader changes keys exactly where the
\* writer did, whichever calls of gnutls_record_send and gnutls_session_key_update
\* were interrupted and repeated.  On a transport that blocks this needs no
\* condition; otherwise corking and automatic updates must not come together.
THEOREM KeysInStepHolds == Spec => [](NoCorkedRekey(prof) => KeysInStep)
BY KeySpec, PTL

-----------------------------------------------------------------------------
(* The application data.                                                       *)

\* How many chunks f has taken from the wire.
Received(f) == Len(f.got) + Len(f.rbuf)

\* How many chunks were encrypted.
Encrypted(e) == e.next - Len(e.presend)
                 + (IF e.call \in {"uncork", "loop"} /\ e.sendbuf # <<>> THEN 1 ELSE 0)
                 - (IF e.call = "send" /\ e.state150 THEN 1 ELSE 0)

\* A record of application data.
Data(s, i) == i \in 1..Len(s) /\ s[i].type = "data"

\* After n chunks were received the data records of s carry the next ones in
\* order, up to c at most, and before an alert all of them up to c.
Ordered(s, n, c) ==
    /\ \A i \in 1..Len(s) : Data(s, i) => n < s[i].body /\ s[i].body <= c
    /\ \A i, j \in 1..Len(s) : Data(s, i) /\ Data(s, j) /\ i < j => s[i].body < s[j].body
    /\ \A i \in 1..Len(s) : Data(s, i) =>
          \A k \in (n + 1)..s[i].body : \E j \in 1..i : Data(s, j) /\ s[j].body = k
    /\ \A i \in 1..Len(s) : s[i].type = "alert" =>
          \A k \in (n + 1)..c : \E j \in 1..i : Data(s, j) /\ s[j].body = k

\* They are all there.
Complete(s, n, c) == c = n \/ \E i \in 1..Len(s) : Data(s, i) /\ s[i].body = c

\* The application of e has begun to say goodbye, or is done with that.
Said(e) == e.call = "bye" \/ e.closed

\* What e sent and f received.
Stream(e, f) ==
    /\ Received(f) <= Encrypted(e)
    /\ f.error = "none" =>
          IF e.ended THEN Ordered(e.wire, Received(f), Encrypted(e))
          ELSE /\ Ordered(Pipe(e), Received(f), Encrypted(e))
               /\ Complete(Pipe(e), Received(f), Encrypted(e))
    /\ f.eof => Said(e) /\ Received(f) = e.next
    /\ \A i \in 1..Len(Pipe(e)) : Pipe(e)[i].type = "alert" => e.bye # 0 \/ e.closed
    /\ \A i \in 1..Len(f.got) : f.got[i] = i
    /\ \A i \in 1..Len(f.rbuf) : f.rbuf[i] = Len(f.got) + i

\* What the calls leave behind: between two calls nothing, an interrupted one
\* its last record; corked chunks are the last ones that were submitted.
Leftover(e, x) ==
    /\ e.call = "none" => e.sendbuf = <<>>
    /\ e.call = "send" => e.sendbuf # <<>> /\ (~e.state150 => e.st = "NORMAL")
    /\ e.call = "send" /\ e.state150 => e.kubuf = e.next
    /\ e.presend # <<>> => Corked(e) \/ e.call = "loop"
    /\ e.call = "uncork" => Corked(e)
    /\ e.sendbuf # <<>> /\ e.call \in {"uncork", "loop"} => e.presend # <<>> /\ ~e.state150
    /\ \A i \in 1..Len(e.presend) : e.presend[i] = e.next - Len(e.presend) + i
    /\ e.call \in {"send", "bye"} \/ e.closed => e.presend = <<>>
    /\ e.st = "KEY_UPDATE_2" => e.call = "send" /\ e.state150
    /\ ~x.requests => e.st # "CORKED_TO_KU" /\ e.orig # "CORKED_TO_KU"
    /\ x.nonblock /\ e.call = "loop" => e.st = "NORMAL"

StreamInv == \A p \in Nodes : Leftover(ep[p], prof) /\ Stream(ep[p], ep[Peer(p)])

\* Key updates change nothing for the data.
LEMMA OrderedAppendOther ==
    ASSUME NEW x, NEW s \in Seq(Record(x)), NEW r \in Record(x), r.type # "data",
           NEW n \in Nat, NEW c \in Nat, n <= c, Ordered(s, n, c), Complete(s, n, c)
    PROVE  Ordered(Append(s, r), n, c) /\ Complete(Append(s, r), n, c)
<1> DEFINE t == Append(s, r)
           l == Len(s)
<1>1. l \in Nat /\ Len(t) = l + 1 /\ t[l + 1] = r /\ \A i \in 1..l : t[i] = s[i]
  BY AppendProperties, LenProperties
<1> HIDE DEF t
<1>2. \A i : Data(t, i) <=> Data(s, i)
  BY <1>1 DEF Data
<1>3. \A i : Data(s, i) => i \in 1..l /\ s[i] \in Record(x) /\ t[i] = s[i] /\ s[i].body \in Nat
  BY <1>1, ElementOfSeq DEF Data, Record
<1>4. Complete(t, n, c)
  BY <1>1, <1>2, <1>3 DEF Complete
<1>5. \A i \in 1..Len(t) : Data(t, i) => n < t[i].body /\ t[i].body <= c
  BY <1>1, <1>2, <1>3 DEF Ordered
<1>6. \A i, j \in 1..Len(t) : Data(t, i) /\ Data(t, j) /\ i < j => t[i].body < t[j].body
  BY <1>1, <1>2, <1>3 DEF Ordered
<1>7. ASSUME NEW i \in 1..Len(t), Data(t, i), NEW k \in (n + 1)..t[i].body
      PROVE  \E j \in 1..i : Data(t, j) /\ t[j].body = k
  <2>1. i \in 1..l /\ Data(s, i) /\ k \in (n + 1)..s[i].body
    BY <1>2, <1>3, <1>7
  <2>2. PICK j \in 1..i : Data(s, j) /\ s[j].body = k
    BY <2>1 DEF Ordered
  <2> QED
    BY <1>2, <1>3, <2>2
<1>8. ASSUME NEW i \in 1..Len(t), t[i].type = "alert", NEW k \in (n + 1)..c
      PROVE  \E j \in 1..i : Data(t, j) /\ t[j].body = k
  <2>1. CASE i \in 1..l
    <3>1. s[i].type = "alert"
      BY <1>1, <1>8, <2>1
    <3>2. PICK j \in 1..i : Data(s, j) /\ s[j].body = k
      BY <1>8, <2>1, <3>1 DEF Ordered
    <3> QED
      BY <1>2, <1>3, <3>2
  <2>2. CASE i = l + 1
    <3>1. PICK a \in 1..l : Data(s, a) /\ s[a].body = c
      BY <1>8 DEF Complete
    <3>2. PICK j \in 1..a : Data(s, j) /\ s[j].body = k
      BY <1>8, <3>1 DEF Ordered
    <3>3. j \in 1..i
      BY <1>1, <2>2, <3>1, <3>2
    <3> QED
      BY <1>2, <1>3, <3>2, <3>3
  <2> QED
    BY <1>1, <2>1, <2>2
<1>9. Ordered(t, n, c)
  BY <1>5, <1>6, <1>7, <1>8 DEF Ordered
<1> QED
  BY <1>4, <1>9 DEF t

\* The next chunk may follow where no alert was sent.
LEMMA OrderedAppendData ==
    ASSUME NEW x, NEW s \in Seq(Record(x)), NEW r \in Record(x), r.type = "data",
           NEW n \in Nat, NEW c \in Nat, n <= c, r.body = c + 1, Ordered(s, n, c),
           Complete(s, n, c), \A i \in 1..Len(s) : s[i].type # "alert"
    PROVE  Ordered(Append(s, r), n, c + 1) /\ Complete(Append(s, r), n, c + 1)
<1> DEFINE t == Append(s, r)
           l == Len(s)
<1>1. l \in Nat /\ Len(t) = l + 1 /\ t[l + 1] = r /\ \A i \in 1..l : t[i] = s[i]
  BY AppendProperties, LenProperties
<1> HIDE DEF t
<1>2. \A i : Data(t, i) <=> (Data(s, i) \/ i = l + 1)
  BY <1>1 DEF Data
<1>3. \A i : Data(s, i) => i \in 1..l /\ s[i] \in Record(x) /\ t[i] = s[i] /\ s[i].body \in Nat
  BY <1>1, ElementOfSeq DEF Data, Record
<1>4. Complete(t, n, c + 1)
  BY <1>1, <1>2 DEF Complete
<1>5. \A i \in 1..Len(t) : Data(t, i) => n < t[i].body /\ t[i].body <= c + 1
  BY <1>1, <1>2, <1>3 DEF Ordered
<1>6. ASSUME NEW i \in 1..Len(t), NEW j \in 1..Len(t), Data(t, i), Data(t, j), i < j
      PROVE  t[i].body < t[j].body
  <2>1. i \in 1..l /\ Data(s, i) /\ t[i] = s[i]
    BY <1>1, <1>2, <1>3, <1>6
  <2>2. CASE j \in 1..l
    <3>1. Data(s, j) /\ t[j] = s[j]
      BY <1>1, <1>2, <1>3, <1>6, <2>2
    <3> QED
      BY <1>6, <2>1, <2>2, <3>1 DEF Ordered
  <2>3. CASE j = l + 1
    <3>1. s[i].body <= c /\ s[i].body \in Nat
      BY <1>3, <2>1 DEF Ordered
    <3> QED
      BY <1>1, <2>1, <2>3, <3>1
  <2> QED
    BY <1>1, <2>2, <2>3
<1>7. ASSUME NEW i \in 1..Len(t), Data(t, i), NEW k \in (n + 1)..t[i].body
      PROVE  \E j \in 1..i : Data(t, j) /\ t[j].body = k
  <2>1. CASE i \in 1..l
    <3>1. Data(s, i) /\ k \in (n + 1)..s[i].body
      BY <1>1, <1>2, <1>3, <1>7, <2>1
    <3>2. PICK j \in 1..i : Data(s, j) /\ s[j].body = k
      BY <2>1, <3>1 DEF Ordered
    <3> QED
      BY <1>2, <1>3, <3>2
  <2>2. CASE i = l + 1 /\ k = c + 1
    <3>1. Data(t, i) /\ t[i].body = k /\ i \in 1..i
      BY <1>1, <1>7, <2>2
    <3> QED
      BY <3>1
  <2>3. CASE i = l + 1 /\ k # c + 1
    <3>1. k \in (n + 1)..c
      BY <1>1, <1>7, <2>3
    <3>2. PICK a \in 1..l : Data(s, a) /\ s[a].body = c
      BY <3>1 DEF Complete
    <3>3. PICK j \in 1..a : Data(s, j) /\ s[j].body = k
      BY <3>1, <3>2 DEF Ordered
    <3>4. j \in 1..i
      BY <1>1, <2>3, <3>2, <3>3
    <3> QED
      BY <1>2, <1>3, <3>3, <3>4
  <2> QED
    BY <1>1, <2>1, <2>2, <2>3
<1>8. \A i \in 1..Len(t) : t[i].type # "alert"
  BY <1>1
<1>9. Ordered(t, n, c + 1)
  BY <1>5, <1>6, <1>7, <1>8 DEF Ordered
<1> QED
  BY <1>4, <1>9 DEF t

\* What comes first in the pipe is in order.
LEMMA OrderedPrefix ==
    ASSUME NEW x, NEW s \in Seq(Record(x)), NEW t \in Seq(Record(x)), NEW n \in Nat,
           NEW c \in Nat, Ordered(s, n, c), Len(t) <= Len(s), \A i \in 1..Len(t) : t[i] = s[i]
    PROVE  Ordered(t, n, c)
<1>1. Len(t) \in Nat /\ Len(s) \in Nat
  BY LenProperties
<1>2. \A i : Data(t, i) <=> (Data(s, i) /\ i <= Len(t))
  BY <1>1 DEF Data
<1>3. \A i \in 1..Len(t) : Data(t, i) => n < t[i].body /\ t[i].body <= c
  BY <1>1, <1>2 DEF Ordered
<1>4. \A i, j \in 1..Len(t) : Data(t, i) /\ Data(t, j) /\ i < j => t[i].body < t[j].body
  BY <1>1, <1>2 DEF Ordered
<1>5. ASSUME NEW i \in 1..Len(t), NEW k, \E j \in 1..i : Data(s, j) /\ s[j].body = k
      PROVE  \E j \in 1..i : Data(t, j) /\ t[j].body = k
  BY <1>1, <1>2, <1>5
<1>6. ASSUME NEW i \in 1..Len(t), Data(t, i), NEW k \in (n + 1)..t[i].body
      PROVE  \E j \in 1..i : Data(t, j) /\ t[j].body = k
  <2>1. i \in 1..Len(s) /\ Data(s, i) /\ k \in (n + 1)..s[i].body
    BY <1>1, <1>2, <1>6
  <2>2. \E j \in 1..i : Data(s, j) /\ s[j].body = k
    BY <2>1 DEF Ordered
  <2> QED
    BY <1>5, <2>2
<1>7. ASSUME NEW i \in 1..Len(t), t[i].type = "alert", NEW k \in (n + 1)..c
      PROVE  \E j \in 1..i : Data(t, j) /\ t[j].body = k
  <2>1. i \in 1..Len(s) /\ s[i].type = "alert"
    BY <1>1, <1>7
  <2>2. \E j \in 1..i : Data(s, j) /\ s[j].body = k
    BY <2>1 DEF Ordered
  <2> QED
    BY <1>5, <2>2
<1> QED
  BY <1>3, <1>4, <1>6, <1>7 DEF Ordered

\* A data record that is read is the next chunk; an alert comes after the last.
LEMMA OrderedTail ==
    ASSUME NEW x, NEW s \in Seq(Record(x)), s # <<>>, NEW n \in Nat, NEW c \in Nat, n <= c,
           Ordered(s, n, c)
    PROVE  LET r == Head(s)
               m == IF r.type = "data" THEN n + 1 ELSE n
           IN  /\ r.type = "data" => r.body = n + 1 /\ n + 1 <= c
               /\ r.type = "alert" => n = c
               /\ Ordered(Tail(s), m, c)
               /\ Complete(s, n, c) => Complete(Tail(s), m, c)
<1> DEFINE r == Head(s)
           m == IF r.type = "data" THEN n + 1 ELSE n
           t == Tail(s)
<1>1. /\ Len(s) \in Nat \ {0} /\ r = s[1] /\ t \in Seq(Record(x)) /\ Len(t) = Len(s) - 1
      /\ \A i \in 1..Len(t) : t[i] = s[i + 1]
  BY EmptySeq, LenProperties, HeadTailProperties
<1> HIDE DEF r, t
<1>2. \A i \in Nat : Data(t, i) <=> i > 0 /\ Data(s, i + 1)
  BY <1>1 DEF Data
<1>3. \A i : Data(s, i) => i \in 1..Len(s) /\ s[i].body \in Nat
  BY ElementOfSeq DEF Data, Record
<1>4. Data(s, 1) <=> r.type = "data"
  BY <1>1 DEF Data
<1>5. ASSUME r.type = "data" PROVE r.body = n + 1 /\ n + 1 <= c
  <2>1. n < s[1].body /\ s[1].body <= c /\ s[1].body \in Nat
    BY <1>1, <1>3, <1>4, <1>5 DEF Ordered
  <2>2. n + 1 \in (n + 1)..s[1].body
    BY <2>1
  <2>3. PICK j \in 1..1 : Data(s, j) /\ s[j].body = n + 1
    BY <1>1, <1>4, <1>5, <2>2 DEF Ordered
  <2> QED
    BY <1>1, <2>1, <2>3
<1>6. ASSUME r.type = "alert" PROVE n = c
  <2>1. SUFFICES ASSUME n < c PROVE FALSE
    OBVIOUS
  <2>2. n + 1 \in (n + 1)..c
    BY <2>1
  <2>3. 1 \in 1..Len(s) /\ s[1].type = "alert"
    BY <1>1, <1>6
  <2>4. \E j \in 1..1 : Data(s, j) /\ s[j].body = n + 1
    BY <2>2, <2>3 DEF Ordered
  <2>5. Data(s, 1)
    BY <2>4
  <2> QED
    BY <1>4, <1>6, <2>5
<1>7. m \in Nat /\ n <= m
  OBVIOUS
<1>7a. \A i \in 1..Len(t) : /\ i + 1 \in 1..Len(s) /\ t[i] = s[i + 1] /\ i \in Nat
                            /\ Data(t, i) => Data(s, i + 1)
  BY <1>1, <1>2
<1>8. ASSUME NEW i \in 1..Len(t), Data(t, i)
      PROVE  m < t[i].body /\ t[i].body <= c
  <2>1. i + 1 \in 1..Len(s) /\ Data(s, i + 1) /\ t[i] = s[i + 1] /\ i \in Nat
    BY <1>1, <1>2, <1>8
  <2>2. n < s[i + 1].body /\ s[i + 1].body <= c /\ s[i + 1].body \in Nat
    BY <1>3, <2>1 DEF Ordered
  <2>3. ASSUME r.type = "data" PROVE s[1].body < s[i + 1].body
    <3>1. Data(s, 1) /\ 1 \in 1..Len(s) /\ 1 < i + 1
      BY <1>1, <1>4, <2>1, <2>3
    <3> QED
      BY <2>1, <3>1 DEF Ordered
  <2> QED
    BY <1>1, <1>5, <2>1, <2>2, <2>3
<1>9. ASSUME NEW i \in 1..Len(t), NEW j \in 1..Len(t), Data(t, i), Data(t, j), i < j
      PROVE  t[i].body < t[j].body
  <2>1. /\ i + 1 \in 1..Len(s) /\ Data(s, i + 1) /\ t[i] = s[i + 1]
        /\ j + 1 \in 1..Len(s) /\ Data(s, j + 1) /\ t[j] = s[j + 1] /\ i + 1 < j + 1
    BY <1>1, <1>2, <1>9
  <2> QED
    BY <2>1 DEF Ordered
\* A chunk behind m that is found up to i + 1 is not the first record.
<1>10. ASSUME NEW i \in 1..Len(t), NEW k \in Nat, k > m,
              \E j \in 1..(i + 1) : Data(s, j) /\ s[j].body = k
       PROVE  \E j \in 1..i : Data(t, j) /\ t[j].body = k
  <2>1. PICK j \in 1..(i + 1) : Data(s, j) /\ s[j].body = k
    BY <1>10
  <2>2. j # 1
    BY <1>1, <1>4, <1>5, <1>10, <2>1
  <2>3. j - 1 \in 1..i /\ j - 1 \in 1..Len(t) /\ (j - 1) + 1 = j
    BY <1>1, <2>1, <2>2
  <2>4. Data(t, j - 1) /\ t[j - 1] = s[j]
    BY <1>1, <1>2, <2>1, <2>3
  <2> QED
    BY <2>1, <2>3, <2>4
<1>11. ASSUME NEW i \in 1..Len(t), Data(t, i), NEW k \in (m + 1)..t[i].body
       PROVE  \E j \in 1..i : Data(t, j) /\ t[j].body = k
  <2>1. i + 1 \in 1..Len(s) /\ Data(s, i + 1) /\ t[i] = s[i + 1] /\ i \in Nat
    BY <1>11, <1>7a
  <2>2. k \in (n + 1)..s[i + 1].body /\ k \in Nat /\ k > m
    BY <1>3, <1>7, <1>11, <2>1
  <2>3. \E j \in 1..(i + 1) : Data(s, j) /\ s[j].body = k
    BY <2>1, <2>2 DEF Ordered
  <2> QED
    BY <1>10, <2>2, <2>3
<1>12. ASSUME NEW i \in 1..Len(t), t[i].type = "alert", NEW k \in (m + 1)..c
       PROVE  \E j \in 1..i : Data(t, j) /\ t[j].body = k
  <2>1. i + 1 \in 1..Len(s) /\ s[i + 1].type = "alert" /\ i \in Nat
    BY <1>1, <1>12
  <2>2. k \in (n + 1)..c /\ k \in Nat /\ k > m
    BY <1>7, <1>12
  <2>3. \E j \in 1..(i + 1) : Data(s, j) /\ s[j].body = k
    BY <2>1, <2>2 DEF Ordered
  <2> QED
    BY <1>10, <2>2, <2>3
<1>13. Ordered(t, m, c)
  BY <1>8, <1>9, <1>11, <1>12 DEF Ordered
<1>14. ASSUME Complete(s, n, c) PROVE Complete(t, m, c)
  <2>1. CASE c = n
    <3>1. r.type # "data"
      BY <1>5, <2>1
    <3> QED
      BY <2>1, <3>1 DEF Complete
  <2>2. CASE c # n
    <3>1. PICK i \in 1..Len(s) : Data(s, i) /\ s[i].body = c
      BY <1>14, <2>2 DEF Complete
    <3>2. CASE i = 1
      BY <1>1, <1>4, <1>5, <3>1, <3>2 DEF Complete
    <3>3. CASE i # 1
      <4>1. i - 1 \in 1..Len(t) /\ (i - 1) + 1 = i
        BY <1>1, <3>1, <3>3
      <4>2. Data(t, i - 1) /\ t[i - 1] = s[i]
        BY <1>1, <1>2, <3>1, <4>1, SMTT(40)
      <4> QED
        BY <3>1, <4>1, <4>2 DEF Complete
    <3> QED
      BY <3>2, <3>3
  <2> QED
    BY <2>1, <2>2
<1> HIDE DEF m
<1> QED
  BY <1>5, <1>6, <1>13, <1>14 DEF r, m, t

\* All chunks up to c are received or in s, in order.
Flow(s, n, c) == Ordered(s, n, c) /\ Complete(s, n, c)

NoAlert(s) == \A i \in 1..Len(s) : s[i].type # "alert"

\* Records that are no alerts leave a pipe without alert.
LEMMA NoAlertAppend ==
    ASSUME NEW x, NEW s \in Seq(Record(x)), NEW r \in Record(x), NoAlert(s), r.type # "alert"
    PROVE  NoAlert(Append(s, r))
<1> DEFINE t == Append(s, r)
           l == Len(s)
<1>1. l \in Nat /\ Len(t) = l + 1 /\ t[l + 1] = r /\ \A i \in 1..l : t[i] = s[i]
  BY AppendProperties, LenProperties
<1> HIDE DEF t
<1>2. NoAlert(t)
  BY <1>1 DEF NoAlert
<1> QED
  BY <1>2 DEF t

\* The key update message changes nothing for the data.
LEMMA FlowAfterUpdate ==
    ASSUME NEW x, NEW e \in SessionSet(x), e.wgen < MaxUpdates, NEW byte \in {0, 1},
           byte = 1 => x.requests
    PROVE  /\ AfterUpdate(e, byte) \in Seq(Record(x))
           /\ NoAlert(Pipe(e)) => NoAlert(AfterUpdate(e, byte))
           /\ \A n, c \in Nat : n <= c /\ Flow(Pipe(e), n, c) => Flow(AfterUpdate(e, byte), n, c)
<1>1. CASE e.state150
  BY <1>1, PipeFacts DEF AfterUpdate
<1>2. CASE ~e.state150
  <2> DEFINE s == Pipe(e)
             r == Rec(e, "key_update", byte)
  <2>1. s \in Seq(Record(x)) /\ r \in Record(x)
    BY PipeFacts
  <2>2. r.type = "key_update" /\ AfterUpdate(e, byte) = Append(s, r)
    BY <1>2 DEF Rec, AfterUpdate
  <2> HIDE DEF s, r
  <2>3. Append(s, r) \in Seq(Record(x)) /\ (NoAlert(s) => NoAlert(Append(s, r)))
    BY <2>1, <2>2, NoAlertAppend, AppendProperties
  <2>4. \A n, c \in Nat : n <= c /\ Flow(s, n, c) => Flow(Append(s, r), n, c)
    BY <2>1, <2>2, OrderedAppendOther DEF Flow
  <2> QED
    BY <2>2, <2>3, <2>4 DEF s
<1> QED
  BY <1>1, <1>2

\* Whether gnutls_record_send has encrypted its chunk.
Adds(e, f) == IF Updating(e) THEN ~f.state150 ELSE ~Blocked(e)

\* gnutls_record_send adds one chunk to the flow or none, and no alert.
LEMMA FlowSendsData ==
    ASSUME NEW x, NEW e \in SessionSet(x), NEW f \in SessionSet(x), NEW chunk \in Nat,
           Updating(e) => e.wgen < MaxUpdates, SendsData(e, f, chunk), NoAlert(Pipe(e))
    PROVE  /\ NoAlert(Pipe(f))
           /\ \A n, c \in Nat :
                 /\ n <= c /\ Flow(Pipe(e), n, c)
                 /\ Adds(e, f) => (IF Updating(e) THEN Deferred(e, chunk) ELSE chunk) = c + 1
                 => Flow(Pipe(f), n, IF Adds(e, f) THEN c + 1 ELSE c)
<1>1. CASE ~Updating(e)
  <2>1. Sends(e, f, "data", chunk)
    BY <1>1 DEF SendsData
  <2>2. CASE Blocked(e)
    BY <1>1, <2>1, <2>2 DEF Sends, Adds
  <2>3. CASE ~Blocked(e)
    <3> DEFINE s == Pipe(e)
               r == Rec(e, "data", chunk)
    <3>1. s \in Seq(Record(x)) /\ r \in Record(x)
      BY PipeFacts
    <3>2. r.type = "data" /\ r.body = chunk /\ Pipe(f) = Append(s, r) /\ Adds(e, f)
      BY <1>1, <2>1, <2>3 DEF Rec, Sends, Adds
    <3> HIDE DEF r
    <3>3. ASSUME NEW n \in Nat, NEW c \in Nat, n <= c, Flow(s, n, c), chunk = c + 1
          PROVE  Flow(Append(s, r), n, c + 1)
      BY <3>1, <3>2, <3>3, OrderedAppendData DEF Flow, NoAlert
    <3>4. NoAlert(Append(s, r))
      BY <3>1, <3>2, NoAlertAppend
    <3> HIDE DEF s
    <3> QED
      BY <1>1, <3>2, <3>3, <3>4 DEF s
  <2> QED
    BY <2>2, <2>3
<1>2. CASE Updating(e)
  <2> DEFINE s == AfterUpdate(e, 0)
             b == Deferred(e, chunk)
             r == [type |-> "data", gen |-> e.wgen + 1, body |-> b]
  <2>1. /\ s \in Seq(Record(x)) /\ NoAlert(s)
        /\ \A n, c \in Nat : n <= c /\ Flow(Pipe(e), n, c) => Flow(s, n, c)
    BY <1>2, FlowAfterUpdate
  <2>2. e.wgen \in Nat /\ b \in Nat
    BY FieldTypes DEF Deferred
  <2>3. r \in Record(x) /\ r.type = "data" /\ r.body = b
    BY <2>2 DEF Record, RecordTypes
  <2>4. CASE Interrupted(e, f, chunk)
    BY <1>2, <2>1, <2>4 DEF Interrupted, Adds
  <2>5. CASE Updated(e, f, chunk)
    <3>1. Pipe(f) = Append(s, r) /\ Adds(e, f)
      BY <1>2, <2>5 DEF Updated, Adds
    <3> HIDE DEF s, r, b
    <3>2. ASSUME NEW n \in Nat, NEW c \in Nat, n <= c, Flow(Pipe(e), n, c), b = c + 1
          PROVE  Flow(Append(s, r), n, c + 1)
      <4>1. Flow(s, n, c)
        BY <2>1, <3>2
      <4> QED
        BY <2>1, <2>3, <3>2, <4>1, OrderedAppendData DEF Flow, NoAlert
    <3>3. NoAlert(Append(s, r))
      BY <2>1, <2>3, NoAlertAppend
    <3> QED
      BY <1>2, <3>1, <3>2, <3>3 DEF b
  <2> QED
    BY <1>2, <2>4, <2>5 DEF SendsData
<1> QED
  BY <1>1, <1>2

\* The counters are numbers, and not more is encrypted than was submitted.
LEMMA CountFacts ==
    ASSUME NEW x, NEW e \in SessionSet(x), Leftover(e, x)
    PROVE  /\ Received(e) \in Nat /\ Len(e.presend) \in Nat
           /\ Encrypted(e) \in Int /\ Encrypted(e) <= e.next
<1>1. e.next \in Nat /\ Len(e.presend) \in Nat /\ Len(e.got) \in Nat /\ Len(e.rbuf) \in Nat
  BY FieldTypes, LenProperties
<1>2. e.presend \in Seq(Nat) /\ (e.presend # <<>> => Len(e.presend) # 0)
  BY FieldTypes, EmptySeq
<1>3. e.call \in {"uncork", "loop"} /\ e.sendbuf # <<>> => Len(e.presend) # 0
  BY <1>2 DEF Leftover
<1> DEFINE u == IF e.call \in {"uncork", "loop"} /\ e.sendbuf # <<>> THEN 1 ELSE 0
           v == IF e.call = "send" /\ e.state150 THEN 1 ELSE 0
<1>4. u \in {0, 1} /\ v \in {0, 1} /\ (u = 1 => Len(e.presend) # 0)
  BY <1>3
<1>5. Encrypted(e) = e.next - Len(e.presend) + u - v
  BY DEF Encrypted
<1> DEFINE k == Len(e.presend)
           m == e.next
<1>6. k \in Nat /\ m \in Nat /\ u \in Int /\ v \in Int /\ u <= k /\ 0 <= v
  BY <1>1, <1>4
<1> HIDE DEF u, v, k, m
<1>7. m - k + u - v \in Int /\ m - k + u - v <= m
  BY <1>6
<1>8. Encrypted(e) = m - k + u - v
  BY <1>5 DEF k, m
<1>9. Received(e) \in Nat
  <2> DEFINE a == Len(e.got)
             b == Len(e.rbuf)
  <2>1. a \in Nat /\ b \in Nat /\ Received(e) = a + b
    BY <1>1 DEF Received
  <2> HIDE DEF a, b
  <2> QED
    BY <2>1
<1>10. Encrypted(e) \in Int
  BY <1>7, <1>8
<1>11. Encrypted(e) <= m
  BY <1>7, <1>8
<1> QED
  BY <1>1, <1>9, <1>10, <1>11 DEF m

\* The application does not cork where the library updates keys by itself, and
\* on a transport that may block nobody asks for key updates.
SafeUse(x) == (x.cork => x.rekey = 0) /\ (x.nonblock => ~x.requests)

\* What does not touch what e sent, and what d received.
LEMMA StreamSame ==
    ASSUME NEW e, NEW f, NEW d, NEW c, Stream(e, d),
           f.wire = e.wire, f.sendbuf = e.sendbuf, f.ended = e.ended, f.next = e.next,
           f.presend = e.presend, f.call = e.call, f.state150 = e.state150,
           f.bye = e.bye, f.closed = e.closed,
           c.got = d.got, c.rbuf = d.rbuf, c.eof = d.eof, d.error # "none" => c.error # "none"
    PROVE  Stream(f, c)
<1>1. Pipe(f) = Pipe(e) /\ Encrypted(f) = Encrypted(e) /\ Received(c) = Received(d)
  BY DEF Pipe, Encrypted, Received
<1> QED
  BY <1>1 DEF Stream, Said

\* A step that sends: the flow goes on, and alerts belong to gnutls_bye.
LEMMA StreamSent ==
    ASSUME NEW e, NEW f, NEW d \in SessionSet(prof), NEW c \in Int, NEW m \in Int,
           Leftover(d, prof), Stream(e, d), ~e.ended, ~f.ended,
           c = Encrypted(e), m = Encrypted(f), c <= m,
           c \in Nat /\ m \in Nat => \A n \in Nat : n <= c /\ Flow(Pipe(e), n, c) => Flow(Pipe(f), n, m),
           d.eof => Said(f) /\ f.next = e.next,
           NoAlert(Pipe(f)) \/ f.bye # 0 \/ f.closed
    PROVE  Stream(f, d)
<1> DEFINE n == Received(d)
<1>1. n \in Nat /\ n <= c
  BY CountFacts DEF Stream
<1>2. c \in Nat /\ m \in Nat /\ n <= m
  <2> HIDE DEF n
  <2> QED
    BY <1>1
<1>3. ASSUME d.error = "none" PROVE Flow(Pipe(f), n, m)
  <2>1. Flow(Pipe(e), n, c)
    BY <1>3 DEF Stream, Flow
  <2> HIDE DEF n
  <2> QED
    BY <1>1, <1>2, <2>1
<1>4. \A i \in 1..Len(Pipe(f)) : Pipe(f)[i].type = "alert" => f.bye # 0 \/ f.closed
  BY DEF NoAlert
<1>5. d.eof => Said(f) /\ n = f.next
  BY DEF Stream
<1>6. /\ \A i \in 1..Len(d.got) : d.got[i] = i
      /\ \A i \in 1..Len(d.rbuf) : d.rbuf[i] = Len(d.got) + i
  BY DEF Stream
<1>7. n <= Encrypted(f) /\ (d.error = "none" => Flow(Pipe(f), n, Encrypted(f)))
  BY <1>2, <1>3
<1> QED
  BY <1>4, <1>5, <1>6, <1>7 DEF Stream, Flow

\* An endpoint that may write has sent no alert, and its peer has read none.
LEMMA OpenSender ==
    ASSUME ByeInv, StreamInv, NEW p \in Nodes, Running(p), MayWrite(p) \/ ep[p].call = "loop"
    PROVE  LET e == ep[p]
           IN  /\ e.bye = 0 /\ ~e.closed /\ ~e.ended /\ e.error = "none" /\ e.call # "bye"
               /\ NoAlert(Pipe(e)) /\ ~ep[Peer(p)].eof
<1> DEFINE e == ep[p]
           d == ep[Peer(p)]
<1>1. Closing(e, d) /\ Stream(e, d)
  BY DEF ByeInv, StreamInv
<1>2. e.bye = 0 /\ ~e.closed /\ ~e.ended /\ e.error = "none" /\ e.call # "bye"
  BY <1>1 DEF Closing, MayWrite, Running
<1>3. NoAlert(Pipe(e)) /\ ~d.eof
  BY <1>1, <1>2 DEF Stream, Said, NoAlert
<1> QED
  BY <1>2, <1>3

\* A step of p alone, by what it sends and what it has received.
LEMMA StreamAlone ==
    ASSUME StreamInv, NEW p \in Nodes, Alone(p), Leftover(ep'[p], prof),
           Stream(ep'[p], ep[Peer(p)]), Stream(ep[Peer(p)], ep'[p])
    PROVE  StreamInv'
<1>1. ep'[Peer(p)] = ep[Peer(p)] /\ prof' = prof
  BY DEF Alone
<1> QED
  BY <1>1, PeerOther DEF StreamInv

\* What p received does not change when p sends.
LEMMA StreamStill ==
    ASSUME StreamInv, NEW p \in Nodes, NEW f, f.got = ep[p].got, f.rbuf = ep[p].rbuf,
           f.eof = ep[p].eof, ep[p].error # "none" => f.error # "none"
    PROVE  Stream(ep[Peer(p)], f)
<1>1. Stream(ep[Peer(p)], ep[p])
  BY PeerOther DEF StreamInv
<1> QED
  BY <1>1, StreamSame

\* The induction hypotheses of the stream.
Before == Typed /\ ByeInv /\ KeyInv /\ StreamInv /\ SafeUse(prof)

\* What they say of an endpoint and its peer.
LEMMA BeforeFacts ==
    ASSUME Before, NEW p \in Nodes
    PROVE  LET e == ep[p]
               d == ep[Peer(p)]
           IN  /\ e \in SessionSet(prof) /\ d \in SessionSet(prof)
               /\ GoodSession(e, prof) /\ Resumable(e, prof) /\ Closing(e, d)
               /\ Leftover(e, prof) /\ Stream(e, d) /\ Leftover(d, prof) /\ Stream(d, e)
               /\ Closing(d, e) /\ Resumable(d, prof)
BY PeerOther, TypedFacts DEF Before, ByeInv, KeyInv, StreamInv

\* gnutls_record_send encrypts its chunk, now or in the call that repeats it.
LEMMA StreamSend ==
    ASSUME Before, NEW p \in Nodes, Send(p)
    PROVE  StreamInv'
<1> DEFINE e == ep[p]
           f == ep'[p]
           d == ep[Peer(p)]
           c == Encrypted(e)
           m == Encrypted(f)
           k == Chunk(e)
<1>1. /\ f \in SessionSet(prof) /\ Alone(p) /\ MayWrite(p) /\ ~Corked(e)
      /\ e.call \in {"none", "send"} /\ (Updating(e) => e.wgen < MaxUpdates)
      /\ Still(e, f) /\ f.presend = e.presend /\ f.orig = e.orig
      /\ f.next = k /\ f.call = (IF Blocked(f) THEN "send" ELSE "none")
      /\ SendsData(e, f, k)
  BY SendStep DEF Before
<1>2. /\ e \in SessionSet(prof) /\ d \in SessionSet(prof) /\ GoodSession(e, prof)
      /\ Resumable(e, prof) /\ Leftover(e, prof) /\ Stream(e, d) /\ Leftover(d, prof)
  BY BeforeFacts
<1>3. NoAlert(Pipe(e)) /\ ~d.eof /\ ~e.ended
  BY <1>1, OpenSender DEF Before, MayWrite
<1>4. e.next \in Nat /\ k \in Nat /\ e.st \in SendStates
  BY <1>2, FieldTypes DEF Chunk, GoodSession
<1> HIDE DEF e, f, d
<1>5. e.presend = <<>> /\ Len(e.presend) = 0
  BY <1>1, <1>2, EmptySeq DEF Leftover
<1>6. /\ e.call = "none" => ~Blocked(e) /\ ~e.state150 /\ e.st # "KEY_UPDATE_2"
      /\ e.call = "send" /\ e.state150 => Updating(e) /\ e.kubuf = e.next
      /\ e.call = "send" /\ ~e.state150 => e.st = "NORMAL" /\ Blocked(e)
  BY <1>2 DEF Leftover, Resumable, Blocked, Updating
<1>7. /\ f.state150 \/ ~Blocked(f) => (f.state150 <=> Updating(e) /\ Interrupted(e, f, k))
      /\ Updating(e) => (f.state150 <=> Interrupted(e, f, k))
      /\ ~Updating(e) => ~f.state150
  <2>1. CASE Updating(e)
    BY <1>1, <2>1 DEF SendsData, Interrupted, Updated
  <2>2. CASE ~Updating(e)
    BY <1>1, <1>6, <2>2 DEF SendsData, Sends
  <2> QED
    BY <2>1, <2>2
<1>8. c = (IF e.call = "send" /\ e.state150 THEN e.next - 1 ELSE e.next)
  BY <1>1, <1>4, <1>5 DEF Encrypted
<1>9. f.state150 => f.call = "send"
  BY <1>1, <1>7 DEF Interrupted
<1>10. m = (IF f.state150 THEN k - 1 ELSE k)
  BY <1>1, <1>4, <1>5, <1>9 DEF Encrypted
<1>11. /\ m = (IF Adds(e, f) THEN c + 1 ELSE c)
       /\ Adds(e, f) => (IF Updating(e) THEN Deferred(e, k) ELSE k) = c + 1
  <2>1. CASE e.call = "none"
    BY <1>4, <1>6, <1>7, <1>8, <1>10, <2>1 DEF Adds, Chunk, Deferred, Updating
  <2>2. CASE e.call = "send" /\ e.state150
    BY <1>4, <1>6, <1>7, <1>8, <1>10, <2>2 DEF Adds, Chunk, Deferred, Updating
  <2>3. CASE e.call = "send" /\ ~e.state150
    BY <1>4, <1>6, <1>7, <1>8, <1>10, <2>3 DEF Adds, Chunk, Deferred, Updating
  <2> QED
    BY <1>1, <2>1, <2>2, <2>3
<1>12. c \in Int /\ m \in Int /\ c <= m
  BY <1>4, <1>8, <1>11
<1> HIDE DEF c, m
<1>13. /\ NoAlert(Pipe(f))
       /\ \A n, a \in Nat : n <= a /\ Flow(Pipe(e), n, a) /\ a = c => Flow(Pipe(f), n, m)
  BY <1>1, <1>2, <1>3, <1>4, <1>11, FlowSendsData
<1>14. Stream(f, d)
  <2>1. ~f.ended
    BY <1>1, <1>3 DEF Still
  <2>2. c \in Nat /\ m \in Nat => \A n \in Nat : n <= c /\ Flow(Pipe(e), n, c) => Flow(Pipe(f), n, m)
    BY <1>13
  <2> QED
    BY <1>2, <1>3, <1>12, <1>13, <2>1, <2>2, StreamSent DEF c, m
<1>15. Leftover(f, prof)
  <2>1. /\ f.call = "send" => f.sendbuf # <<>> /\ (~f.state150 => f.st = "NORMAL")
        /\ f.call = "none" => f.sendbuf = <<>>
        /\ f.st = "KEY_UPDATE_2" => f.call = "send" /\ f.state150
        /\ f.st # "CORKED_TO_KU"
    <3>1. CASE Updating(e) /\ Interrupted(e, f, k)
      BY <1>1, <3>1 DEF Interrupted, Blocked, Updating
    <3>2. CASE Updating(e) /\ Updated(e, f, k)
      BY <1>1, <3>2 DEF Updated, Blocked
    <3>3. CASE ~Updating(e) /\ Sends(e, f, "data", k)
      <4>1. e.st = "NORMAL"
        BY <1>1, <1>4, <3>3 DEF Corked, Updating, SendStates
      <4> QED
        BY <1>1, <3>3, <4>1 DEF Sends, Blocked
    <3> QED
      BY <1>1, <3>1, <3>2, <3>3 DEF SendsData
  <2>2. f.state150 => f.kubuf = f.next
    BY <1>1, <1>4, <1>6, <1>7 DEF Interrupted, Deferred, Chunk, Updating
  <2>3. f.presend = <<>> /\ Len(f.presend) = 0 /\ f.call \in {"none", "send"}
    BY <1>1, <1>5
  <2> QED
    BY <1>1, <1>2, <2>1, <2>2, <2>3 DEF Leftover
<1>16. Stream(d, f)
  BY <1>1, StreamStill DEF Before, Still, e, f, d
<1> QED
  BY <1>1, <1>14, <1>15, <1>16, StreamAlone DEF Before, e, f, d

\* Corked chunks wait behind those that were sent.
LEMMA StreamSendCorked ==
    ASSUME Before, NEW p \in Nodes, SendCorked(p)
    PROVE  StreamInv'
<1> DEFINE e == ep[p]
           f == ep'[p]
           d == ep[Peer(p)]
<1>1. /\ f \in SessionSet(prof) /\ Alone(p) /\ MayWrite(p) /\ Corked(e)
      /\ e.call \in {"none", "uncork"} /\ Core(f) = Core(e) /\ Still(e, f)
      /\ f.orig = e.orig /\ f.call = e.call /\ f.closed = e.closed
      /\ f.next = e.next + 1 /\ f.presend = Append(e.presend, e.next + 1)
  BY SendCorkedStep DEF Before
<1>2. /\ e \in SessionSet(prof) /\ d \in SessionSet(prof)
      /\ Leftover(e, prof) /\ Stream(e, d) /\ Leftover(d, prof)
  BY BeforeFacts
<1>3. NoAlert(Pipe(e)) /\ ~d.eof /\ ~e.ended /\ ~e.closed
  BY <1>1, OpenSender DEF Before, MayWrite
<1>4. e.next \in Nat /\ e.presend \in Seq(Nat)
  BY <1>2, FieldTypes
<1> HIDE DEF e, f, d
<1>5. /\ f.st = e.st /\ f.state150 = e.state150 /\ f.kubuf = e.kubuf
      /\ f.wire = e.wire /\ f.sendbuf = e.sendbuf
  BY <1>1 DEF Core
<1> DEFINE s == e.presend
           k == e.next
           l == Len(s)
           t == f.presend
<1>6. s \in Seq(Nat) /\ k \in Nat /\ t = Append(s, k + 1) /\ f.next = k + 1 /\ k + 1 \in Nat
  BY <1>1, <1>4
<1>7. \A i \in 1..l : s[i] = k - l + i
  BY <1>2 DEF Leftover
<1> HIDE DEF s, k, t
<1>8. /\ l \in Nat /\ Len(t) = l + 1 /\ t # <<>> /\ t[l + 1] = k + 1
      /\ \A i \in 1..l : t[i] = s[i]
  BY <1>6, AppendProperties, LenProperties
<1>9. ASSUME NEW i \in 1..Len(t) PROVE t[i] = (k + 1) - Len(t) + i
  <2>1. CASE i \in 1..l
    <3>1. t[i] = k - l + i
      BY <1>7, <1>8, <2>1
    <3> HIDE DEF l
    <3>2. i \in Int /\ l \in Int /\ k \in Int
      BY <1>6, <1>8, <2>1
    <3>3. (k + 1) - (l + 1) + i = k - l + i
      BY <3>2
    <3> QED
      BY <1>8, <3>1, <3>3
  <2>2. CASE i = l + 1
    <3> HIDE DEF l
    <3> QED
      BY <1>6, <1>8, <2>2
  <2> QED
    BY <1>8, <2>1, <2>2
<1>10. Encrypted(f) = Encrypted(e) /\ Encrypted(e) \in Int
  <2> DEFINE u == IF e.call \in {"uncork", "loop"} /\ e.sendbuf # <<>> THEN 1 ELSE 0
             v == IF e.call = "send" /\ e.state150 THEN 1 ELSE 0
  <2>1. Encrypted(e) = k - l + u - v /\ Encrypted(f) = (k + 1) - Len(t) + u - v
    BY <1>1, <1>5, <1>6 DEF Encrypted, s, k, t
  <2>2. u \in Int /\ v \in Int
    OBVIOUS
  <2> HIDE DEF u, v, l
  <2> QED
    BY <1>6, <1>8, <2>1, <2>2
<1>11. Pipe(f) = Pipe(e) /\ ~f.ended
  BY <1>1, <1>3, <1>5 DEF Pipe, Still
<1>12. Stream(f, d)
  <2> DEFINE c == Encrypted(e)
  <2>1. c \in Int /\ c <= c
    BY <1>10
  <2> HIDE DEF c
  <2> QED
    BY <1>2, <1>3, <1>10, <1>11, <2>1, StreamSent DEF c
<1>13. Leftover(f, prof)
  <2>1. \A i \in 1..Len(f.presend) : f.presend[i] = f.next - Len(f.presend) + i
    BY <1>6, <1>9 DEF t
  <2>2. f.presend # <<>> /\ Corked(f) /\ ~f.closed
    BY <1>1, <1>3, <1>5, <1>8 DEF Corked, t
  <2> QED
    BY <1>1, <1>2, <1>5, <2>1, <2>2 DEF Leftover
<1>14. Stream(d, f)
  BY <1>1, StreamStill DEF Before, Still, e, f, d
<1> QED
  BY <1>1, <1>12, <1>13, <1>14, StreamAlone DEF Before, e, f, d

\* Corking and uncorking send nothing by themselves.
LEMMA StreamCork ==
    ASSUME Before, NEW p \in Nodes, Cork(p) \/ Uncork(p) \/ UncorkDone(p)
    PROVE  StreamInv'
<1> DEFINE e == ep[p]
           f == ep'[p]
           d == ep[Peer(p)]
<1>1. /\ f \in SessionSet(prof) /\ Alone(p)
      /\ Rest(f) = Rest(e) /\ Still(e, f) /\ f.presend = e.presend
      /\ f.next = e.next /\ f.bye = e.bye /\ f.closed = e.closed
      /\ \/ /\ MayWrite(p) /\ prof.cork /\ e.call = "none"
            /\ f.st = "CORKED" /\ f.call = e.call /\ f.orig = e.orig
         \/ /\ MayWrite(p) /\ Corked(e) /\ e.call \in {"none", "uncork"}
            /\ f.call = "loop" /\ f.orig = e.st
            /\ f.st = IF e.st = "CORKED" THEN "NORMAL" ELSE "KEY_UPDATE_1"
         \/ /\ Running(p) /\ e.call = "loop" /\ e.presend = <<>>
            /\ f.st = e.st /\ f.call = "none" /\ f.orig = e.orig
  BY CorkSteps DEF Before
<1>2. /\ e \in SessionSet(prof) /\ d \in SessionSet(prof)
      /\ Leftover(e, prof) /\ Stream(e, d) /\ Leftover(d, prof)
  BY BeforeFacts
<1>3. NoAlert(Pipe(e)) /\ ~d.eof /\ ~e.ended /\ ~e.closed
  BY <1>1, OpenSender DEF Before, MayWrite
<1>4. SafeUse(prof)
  BY DEF Before
<1> HIDE DEF e, f, d
<1>5. f.state150 = e.state150 /\ f.kubuf = e.kubuf /\ f.wire = e.wire /\ f.sendbuf = e.sendbuf
  BY <1>1 DEF Rest
<1>6. Encrypted(f) = Encrypted(e) /\ Encrypted(e) \in Int
  <2>1. /\ (f.call \in {"uncork", "loop"} /\ f.sendbuf # <<>>)
             <=> (e.call \in {"uncork", "loop"} /\ e.sendbuf # <<>>)
        /\ f.call # "send" /\ e.call # "send"
    BY <1>1, <1>2, <1>5 DEF Leftover
  <2>2. Encrypted(f) = Encrypted(e)
    BY <1>1, <2>1 DEF Encrypted
  <2> QED
    BY <1>2, <2>2, CountFacts
<1>7. Pipe(f) = Pipe(e) /\ ~f.ended
  BY <1>1, <1>3, <1>5 DEF Pipe, Still
<1>8. Stream(f, d)
  <2> DEFINE c == Encrypted(e)
  <2>1. c \in Int /\ c <= c
    BY <1>6
  <2> HIDE DEF c
  <2> QED
    BY <1>2, <1>3, <1>6, <1>7, <2>1, StreamSent DEF c
<1>9. Leftover(f, prof)
  <2>1. CASE e.call = "none" /\ f.st = "CORKED" /\ f.call = e.call /\ f.orig = e.orig
    BY <1>1, <1>2, <1>3, <1>5, <2>1 DEF Leftover, Corked
  <2>2. CASE /\ Corked(e) /\ e.call \in {"none", "uncork"} /\ f.call = "loop" /\ f.orig = e.st
             /\ f.st = IF e.st = "CORKED" THEN "NORMAL" ELSE "KEY_UPDATE_1"
    BY <1>1, <1>2, <1>3, <1>4, <1>5, <2>2 DEF Leftover, Corked, SafeUse
  <2>3. CASE /\ e.call = "loop" /\ e.presend = <<>>
             /\ f.st = e.st /\ f.call = "none" /\ f.orig = e.orig
    BY <1>1, <1>2, <1>3, <1>5, <2>3 DEF Leftover
  <2> QED
    BY <1>1, <2>1, <2>2, <2>3
<1>10. Stream(d, f)
  BY <1>1, StreamStill DEF Before, Still, e, f, d
<1> QED
  BY <1>1, <1>8, <1>9, <1>10, StreamAlone DEF Before, e, f, d

\* gnutls_record_uncork sends the corked chunks in order, each one once.
LEMMA StreamUncorkSend ==
    ASSUME Before, NEW p \in Nodes, UncorkSend(p)
    PROVE  StreamInv'
<1> DEFINE e == ep[p]
           f == ep'[p]
           d == ep[Peer(p)]
           c == Encrypted(e)
           m == Encrypted(f)
           s == e.presend
           t == f.presend
           k == Head(s)
           a == e.next
           l == Len(s)
<1>1. /\ f \in SessionSet(prof) /\ Alone(p) /\ Running(p) /\ e.call = "loop" /\ s # <<>>
      /\ (Updating(e) => e.wgen < MaxUpdates) /\ Still(e, f) /\ f.orig = e.orig
      /\ f.closed = e.closed /\ f.next = a /\ \E g : Uncorks(e, f, g)
  BY UncorkSendStep DEF Before
<1>2. /\ e \in SessionSet(prof) /\ d \in SessionSet(prof) /\ GoodSession(e, prof)
      /\ Resumable(e, prof) /\ Leftover(e, prof) /\ Stream(e, d) /\ Leftover(d, prof)
  BY BeforeFacts
<1>3. NoAlert(Pipe(e)) /\ ~d.eof /\ ~e.ended /\ ~e.closed
  BY <1>1, OpenSender DEF Before
<1>4. a \in Nat /\ s \in Seq(Nat) /\ t \in Seq(Nat) /\ SafeUse(prof) /\ prof.cork
  BY <1>1, <1>2, FieldTypes DEF Before, GoodSession
<1>5. PICK g : Uncorks(e, f, g)
  BY <1>1
<1> HIDE DEF e, f, d
<1>6. /\ ~e.state150 /\ e.st # "KEY_UPDATE_2" /\ (prof.nonblock => e.st = "NORMAL")
      /\ (~prof.nonblock => ~Blocked(e)) /\ e.orig \in {"CORKED", "CORKED_TO_KU"}
  BY <1>1, <1>2 DEF Leftover, Resumable, Blocked
<1>7. /\ g \in SessionSet(prof) /\ SendsData(e, g, k) /\ Pipe(f) = Pipe(g)
      /\ f.sendbuf = g.sendbuf /\ f.state150 = g.state150
      /\ (Blocked(g) => f.st = e.orig /\ f.call = "uncork" /\ t = s)
      /\ (~Blocked(g) => f.st = g.st /\ f.call = "loop" /\ t = Tail(s))
  BY <1>5 DEF Uncorks
<1>8. \A i \in 1..l : s[i] = a - l + i
  BY <1>2 DEF Leftover
<1> HIDE DEF s, t, a
<1>9. /\ l \in Nat \ {0} /\ k = s[1] /\ k \in Nat
      /\ Len(Tail(s)) = l - 1 /\ \A i \in 1..(l - 1) : Tail(s)[i] = s[i + 1]
  BY <1>1, <1>4, EmptySeq, LenProperties, HeadTailProperties
<1>10. k = a - l + 1
  BY <1>8, <1>9
\* How the call ends.
<1>11. /\ ~g.state150 /\ (Adds(e, g) <=> ~Blocked(e))
       /\ g.st \in {e.st, "NORMAL", "KEY_UPDATE_1"}
       /\ prof.nonblock => g.st = "NORMAL"
       /\ Updating(e) => Deferred(e, k) = k
  <2>1. CASE Updating(e)
    <3>1. ~prof.nonblock
      BY <1>6, <2>1 DEF Updating
    <3>2. Updated(e, g, k)
      BY <1>7, <2>1, <3>1 DEF SendsData, Interrupted
    <3> QED
      BY <1>6, <2>1, <3>1, <3>2 DEF Updated, Adds, Deferred, Updating
  <2>2. CASE ~Updating(e)
    <3>1. Sends(e, g, "data", k)
      BY <1>7, <2>2 DEF SendsData
    <3> QED
      BY <1>4, <1>6, <2>2, <3>1 DEF Sends, Adds, SafeUse
  <2> QED
    BY <2>1, <2>2
<1>12. c = (IF Blocked(e) THEN a - l + 1 ELSE a - l)
  BY <1>1, <1>4, <1>9 DEF Encrypted, Blocked, s, a
<1>13. m = a - l + 1
  <2>1. CASE Blocked(g)
    <3>1. m = a - l + 1 - 0
      BY <1>1, <1>7, <2>1 DEF Encrypted, Blocked, s, t, a
    <3> HIDE DEF l
    <3> QED
      BY <1>4, <1>9, <3>1
  <2>2. CASE ~Blocked(g)
    <3>1. m = a - (l - 1) + 0 - 0
      BY <1>1, <1>7, <1>9, <2>2 DEF Encrypted, Blocked, t, a
    <3> HIDE DEF l
    <3> QED
      BY <1>4, <1>9, <3>1
  <2> QED
    BY <2>1, <2>2
<1>14. /\ m = (IF Adds(e, g) THEN c + 1 ELSE c) /\ c \in Int /\ m \in Int /\ c <= m
       /\ Adds(e, g) => (IF Updating(e) THEN Deferred(e, k) ELSE k) = c + 1
  <2> HIDE DEF l, c, m, k
  <2> QED
    BY <1>4, <1>9, <1>10, <1>11, <1>12, <1>13
<1> HIDE DEF c, m, k, l
<1>15. /\ NoAlert(Pipe(g))
       /\ \A n, b \in Nat : n <= b /\ Flow(Pipe(e), n, b) /\ b = c => Flow(Pipe(g), n, m)
  BY <1>1, <1>2, <1>3, <1>7, <1>9, <1>14, FlowSendsData
<1>16. Stream(f, d)
  <2>1. ~f.ended /\ NoAlert(Pipe(f))
    BY <1>1, <1>3, <1>7, <1>15 DEF Still
  <2>2. c \in Nat /\ m \in Nat => \A n \in Nat : n <= c /\ Flow(Pipe(e), n, c) => Flow(Pipe(f), n, m)
    BY <1>7, <1>15
  <2> QED
    BY <1>2, <1>3, <1>14, <2>1, <2>2, StreamSent DEF c, m
<1>17. \A i \in 1..Len(t) : t[i] = a - Len(t) + i
  <2>1. CASE Blocked(g)
    BY <1>7, <1>8, <2>1 DEF l
  <2>2. ASSUME ~Blocked(g), NEW i \in 1..Len(t) PROVE t[i] = a - Len(t) + i
    <3>0. t = Tail(s) /\ Len(t) = l - 1
      BY <1>7, <1>9, <2>2
    <3>1. t = Tail(s) /\ Len(t) = l - 1 /\ i \in 1..(l - 1) /\ i + 1 \in 1..l
      BY <1>9, <3>0
    <3>2. t[i] = s[i + 1] /\ s[i + 1] = a - l + (i + 1)
      BY <1>8, <1>9, <3>1
    <3>3. a - l + (i + 1) = a - (l - 1) + i
      BY <1>4, <1>9, <3>1
    <3> QED
      BY <3>1, <3>2, <3>3
  <2> QED
    BY <2>1, <2>2
<1>18. Leftover(f, prof)
  <2>1. \A i \in 1..Len(f.presend) : f.presend[i] = f.next - Len(f.presend) + i
    BY <1>1, <1>17 DEF t
  <2>2. ~f.state150 /\ ~f.closed
    BY <1>1, <1>3, <1>7, <1>11
  <2>3. CASE Blocked(g)
    <3>1. f.st = e.orig /\ f.call = "uncork" /\ f.presend # <<>> /\ Corked(f)
      BY <1>1, <1>6, <1>7, <2>3 DEF Corked, t
    <3> QED
      BY <1>1, <1>2, <1>6, <2>1, <2>2, <3>1 DEF Leftover
  <2>4. CASE ~Blocked(g)
    <3>1. f.st = g.st /\ f.call = "loop" /\ f.sendbuf = <<>>
      BY <1>7, <2>4 DEF Blocked
    <3>2. e.st # "CORKED_TO_KU" \/ prof.requests
      BY <1>2 DEF Leftover
    <3> QED
      BY <1>1, <1>2, <1>6, <1>11, <2>1, <2>2, <3>1, <3>2 DEF Leftover
  <2> QED
    BY <2>3, <2>4
<1>19. Stream(d, f)
  BY <1>1, StreamStill DEF Before, Still, e, f, d
<1> QED
  BY <1>1, <1>16, <1>18, <1>19, StreamAlone DEF Before, e, f, d

\* gnutls_session_key_update puts no data on the wire and takes none off it.
LEMMA StreamUpdate ==
    ASSUME Before, NEW p \in Nodes, NEW ask \in BOOLEAN, Update(p, ask)
    PROVE  StreamInv'
<1> DEFINE e == ep[p]
           f == ep'[p]
           d == ep[Peer(p)]
           c == Encrypted(e)
           b == RequestByte(ask)
<1>1. /\ f \in SessionSet(prof) /\ Alone(p) /\ MayWrite(p) /\ e.call \in {"none", "update"}
      /\ (ask => prof.requests) /\ e.wgen < MaxUpdates /\ Still(e, f)
      /\ f.presend = e.presend /\ f.orig = e.orig /\ f.closed = e.closed
      /\ f.next = e.next /\ f.call = (IF Blocked(f) THEN "update" ELSE "none")
      /\ Updates(e, f, b)
  BY UpdateStep DEF Before
<1>2. /\ e \in SessionSet(prof) /\ d \in SessionSet(prof) /\ GoodSession(e, prof)
      /\ Leftover(e, prof) /\ Stream(e, d) /\ Leftover(d, prof)
  BY BeforeFacts
<1>3. NoAlert(Pipe(e)) /\ ~d.eof /\ ~e.ended /\ ~e.closed
  BY <1>1, OpenSender DEF Before, MayWrite
<1>4. SafeUse(prof) /\ b \in {0, 1} /\ (b = 1 => prof.requests)
  BY <1>1 DEF Before, RequestByte
<1> HIDE DEF e, f, d, b
<1>5. Encrypted(f) = c
  BY <1>1 DEF Encrypted
<1>6. c \in Int /\ c <= c
  BY <1>2, CountFacts
<1> HIDE DEF c
<1>7. /\ NoAlert(Pipe(f))
      /\ \A n, a \in Nat : n <= a /\ Flow(Pipe(e), n, a) => Flow(Pipe(f), n, a)
  <2>1. Pipe(f) = AfterUpdate(e, b)
    BY <1>1 DEF Updates
  <2> QED
    BY <1>1, <1>2, <1>3, <1>4, <2>1, FlowAfterUpdate
<1>8. Stream(f, d)
  <2>1. ~f.ended
    BY <1>1, <1>3 DEF Still
  <2>2. c \in Nat => \A n \in Nat : n <= c /\ Flow(Pipe(e), n, c) => Flow(Pipe(f), n, c)
    BY <1>7
  <2> QED
    BY <1>2, <1>3, <1>5, <1>6, <1>7, <2>1, <2>2, StreamSent DEF c
<1>9. Leftover(f, prof)
  <2>1. f.call \in {"none", "update"} /\ (f.call = "none" => f.sendbuf = <<>>)
    BY <1>1 DEF Blocked
  <2>2. f.presend # <<>> => Corked(f)
    <3>1. Corked(e) => f.st = e.st
      BY <1>1, <1>2, <1>4 DEF Updates, GoodSession, SafeUse
    <3> QED
      BY <1>1, <1>2, <3>1 DEF Leftover, Corked
  <2>3. f.st # "KEY_UPDATE_2" /\ (~prof.requests => f.st # "CORKED_TO_KU")
    BY <1>1, <1>2 DEF Leftover, Updates
  <2> QED
    BY <1>1, <1>2, <1>3, <2>1, <2>2, <2>3 DEF Leftover
<1>10. Stream(d, f)
  BY <1>1, StreamStill DEF Before, Still, e, f, d
<1> QED
  BY <1>1, <1>8, <1>9, <1>10, StreamAlone DEF Before, e, f, d

\* gnutls_record_recv hands out what was buffered first, in order.
LEMMA StreamRecvBuffered ==
    ASSUME Before, NEW p \in Nodes, RecvBuffered(p)
    PROVE  StreamInv'
<1> DEFINE e == ep[p]
           f == ep'[p]
           d == ep[Peer(p)]
<1>1. /\ f \in SessionSet(prof) /\ Alone(p) /\ e.rbuf # <<>>
      /\ Core(f) = Core(e) /\ Call(f) = Call(e)
      /\ f.eof = e.eof /\ f.ended = e.ended /\ f.error = e.error
      /\ f.got = Append(e.got, Head(e.rbuf)) /\ f.rbuf = Tail(e.rbuf)
  BY RecvBufferedStep DEF Before
<1>2. /\ e \in SessionSet(prof) /\ Leftover(e, prof) /\ Stream(e, d) /\ Stream(d, e)
  BY BeforeFacts
<1> HIDE DEF e, f, d
<1>3. /\ f.st = e.st /\ f.state150 = e.state150 /\ f.kubuf = e.kubuf
      /\ f.wire = e.wire /\ f.sendbuf = e.sendbuf
  BY <1>1 DEF Core
<1>4. /\ f.presend = e.presend /\ f.orig = e.orig /\ f.call = e.call /\ f.next = e.next
      /\ f.bye = e.bye /\ f.closed = e.closed
  BY <1>1 DEF Call
<1>5. Leftover(f, prof)
  BY <1>2, <1>3, <1>4 DEF Leftover, Corked
<1>6. Stream(f, d)
  BY <1>1, <1>2, <1>3, <1>4, StreamSame
<1> DEFINE s == e.got
           b == e.rbuf
           t == f.got
           a == f.rbuf
           l == Len(s)
<1>7. s \in Seq(Nat) /\ b \in Seq(Nat) /\ b # <<>> /\ t = Append(s, Head(b)) /\ a = Tail(b)
  BY <1>1, <1>2, FieldTypes
<1>8. (\A i \in 1..l : s[i] = i) /\ (\A i \in 1..Len(b) : b[i] = l + i)
  BY <1>2 DEF Stream
<1> HIDE DEF s, b, t, a
<1>9. /\ Len(b) \in Nat \ {0} /\ Head(b) = b[1] /\ b[1] \in Nat /\ Len(a) = Len(b) - 1
      /\ \A i \in 1..Len(a) : a[i] = b[i + 1]
  BY <1>7, EmptySeq, LenProperties, HeadTailProperties, ElementOfSeq
<1> DEFINE h == Head(b)
<1>10. h \in Nat /\ t = Append(s, h) /\ h = b[1]
  BY <1>7, <1>9
<1> HIDE DEF h
<1>11. l \in Nat /\ Len(t) = l + 1 /\ t[l + 1] = h /\ \A i \in 1..l : t[i] = s[i]
  BY <1>7, <1>10, AppendProperties, LenProperties
<1> HIDE DEF l
<1>12. h = l + 1
  BY <1>8, <1>9, <1>10
<1>13. \A i \in 1..Len(t) : t[i] = i
  BY <1>8, <1>11, <1>12 DEF l
<1>14. ASSUME NEW i \in 1..Len(a) PROVE a[i] = Len(t) + i
  <2>1. i + 1 \in 1..Len(b) /\ a[i] = b[i + 1]
    BY <1>9
  <2>2. a[i] = l + (i + 1)
    BY <1>8, <2>1
  <2>3. l + (i + 1) = (l + 1) + i
    BY <1>11
  <2> QED
    BY <1>11, <2>2, <2>3
<1>15. Received(f) = Received(e)
  <2>1. Received(f) = Len(t) + Len(a) /\ Received(e) = l + Len(b)
    BY DEF Received, t, a, l, s, b
  <2> QED
    BY <1>9, <1>11, <2>1
<1>16. Stream(d, f)
  <2>1. /\ \A i \in 1..Len(f.got) : f.got[i] = i
        /\ \A i \in 1..Len(f.rbuf) : f.rbuf[i] = Len(f.got) + i
    BY <1>13, <1>14 DEF t, a
  <2> QED
    BY <1>1, <1>2, <1>15, <2>1 DEF Stream
<1> QED
  BY <1>1, <1>5, <1>6, <1>16, StreamAlone DEF Before, e, f, d

\* What the end of a call that reads has received: nothing if the record was
\* refused, or else its data, in the place the call puts them.
Gets(e, f, r, wanted) ==
    \/ f.error # "none" /\ f.got = e.got /\ f.rbuf = e.rbuf /\ (f.eof <=> e.eof)
    \/ /\ f.error = "none" /\ (f.eof <=> (e.eof \/ r.type = "alert"))
       /\ f.got = IF r.type = "data" /\ wanted = "data" THEN Append(e.got, r.body) ELSE e.got
       /\ f.rbuf = IF r.type = "data" /\ wanted # "data" THEN Append(e.rbuf, r.body) ELSE e.rbuf

\* The next chunk is kept behind those that came before.
LEMMA KeepsOrder ==
    ASSUME NEW x, NEW e \in SessionSet(x), NEW f, NEW r, NEW wanted,
           wanted = "data" => e.rbuf = <<>>,
           \A i \in 1..Len(e.got) : e.got[i] = i,
           \A i \in 1..Len(e.rbuf) : e.rbuf[i] = Len(e.got) + i,
           r.type = "data" => r.body = Received(e) + 1,
           f.error = "none", Gets(e, f, r, wanted)
    PROVE  /\ Received(f) = IF r.type = "data" THEN Received(e) + 1 ELSE Received(e)
           /\ \A i \in 1..Len(f.got) : f.got[i] = i
           /\ \A i \in 1..Len(f.rbuf) : f.rbuf[i] = Len(f.got) + i
<1> DEFINE s == e.got
           b == e.rbuf
           l == Len(s)
           h == Len(b)
           k == r.body
<1>1. s \in Seq(Nat) /\ b \in Seq(Nat) /\ l \in Nat /\ h \in Nat
  BY FieldTypes, LenProperties
<1>2. Received(e) = l + h
  BY DEF Received
<1>3. CASE r.type # "data"
  BY <1>3 DEF Gets, Received
<1>4. CASE r.type = "data" /\ wanted = "data"
  <2>0. f.got = Append(s, k) /\ f.rbuf = b /\ b = <<>> /\ k = Received(e) + 1
    BY <1>4 DEF Gets
  <2>1. f.got = Append(s, k) /\ f.rbuf = b /\ b = <<>> /\ h = 0 /\ k = l + 1
    <3>1. h = 0
      BY <2>0, EmptySeq
    <3> HIDE DEF s, b, l, h, k
    <3> QED
      BY <1>1, <1>2, <2>0, <3>1
  <2>2. k \in Nat
    BY <1>1, <2>1
  <2>3. \A i \in 1..l : s[i] = i
    OBVIOUS
  <2> DEFINE t == f.got
  <2>4. t = Append(s, k)
    BY <2>1
  <2> HIDE DEF s, b, k, t
  <2>5. Len(t) = l + 1 /\ t[l + 1] = k /\ \A i \in 1..l : t[i] = s[i]
    BY <1>1, <2>2, <2>4, AppendProperties
  <2>6. \A i \in 1..Len(t) : t[i] = i
    <3> HIDE DEF l
    <3> QED
      BY <1>1, <2>1, <2>3, <2>5 DEF l
  <2>7. Received(f) = Len(t) + h
    BY <2>1 DEF Received, t, b
  <2> HIDE DEF l, h
  <2>8. Received(f) = Received(e) + 1
    BY <1>1, <1>2, <2>1, <2>5, <2>7
  <2>9. Len(f.rbuf) = 0
    BY <2>1 DEF h
  <2> QED
    BY <1>4, <2>6, <2>8, <2>9 DEF t
<1>5. CASE r.type = "data" /\ wanted # "data"
  <2>1. f.rbuf = Append(b, k) /\ f.got = s /\ k = l + h + 1
    BY <1>1, <1>2, <1>5 DEF Gets
  <2>2. k \in Nat
    <3> HIDE DEF s, b, l, h, k
    <3> QED
      BY <1>1, <2>1
  <2>3. \A i \in 1..h : b[i] = l + i
    OBVIOUS
  <2>3a. \A i \in 1..l : s[i] = i
    OBVIOUS
  <2> DEFINE t == f.rbuf
  <2>4. t = Append(b, k)
    BY <2>1
  <2> HIDE DEF s, b, k, t
  <2>5. Len(t) = h + 1 /\ t[h + 1] = k /\ \A i \in 1..h : t[i] = b[i]
    BY <1>1, <2>2, <2>4, AppendProperties
  <2>7. Received(f) = l + Len(t)
    BY <2>1 DEF Received, t, s
  <2> HIDE DEF l, h
  <2>6. ASSUME NEW i \in 1..Len(t) PROVE t[i] = l + i
    <3>1. CASE i \in 1..h
      BY <2>3, <2>5, <3>1
    <3>2. CASE i = h + 1
      BY <1>1, <2>1, <2>5, <3>2
    <3> QED
      BY <1>1, <2>5, <3>1, <3>2
  <2>8. Received(f) = Received(e) + 1
    BY <1>1, <1>2, <2>5, <2>7
  <2> QED
    BY <1>5, <2>1, <2>3a, <2>6, <2>8 DEF t, l
<1> QED
  BY <1>3, <1>4, <1>5

\* A record that is read: data is the next chunk, and the alert says that there
\* is no more.
LEMMA StreamGets ==
    ASSUME NEW d \in SessionSet(prof), NEW c, Drained(d, c), NEW e \in SessionSet(prof), NEW f,
           Leftover(e, prof), Leftover(d, prof), Closing(d, e), Stream(d, e),
           e.error = "none", ~e.eof, NEW wanted, wanted = "data" => e.rbuf = <<>>,
           Gets(e, f, Head(d.wire), wanted)
    PROVE  Stream(c, f)
<1> DEFINE r == Head(d.wire)
           n == Received(e)
           k == Encrypted(d)
           m == IF r.type = "data" THEN n + 1 ELSE n
           P == Pipe(d)
<1>1. n \in Nat /\ k \in Int /\ n <= k
  BY CountFacts DEF Stream
<1>2. k \in Nat
  <2> HIDE DEF n, k
  <2> QED
    BY <1>1
<1>3. /\ c.ended = d.ended /\ c.wire = Tail(d.wire) /\ c.sendbuf = d.sendbuf
      /\ Pipe(c) = Tail(P) /\ Head(P) = r /\ P # <<>> /\ d.wire # <<>>
      /\ c.state150 = d.state150 /\ r \in Record(prof) /\ Call(c) = Call(d)
  BY DEF Drained, Still
<1>4. /\ c.presend = d.presend /\ c.call = d.call /\ c.next = d.next /\ c.bye = d.bye
      /\ c.closed = d.closed
  <2> HIDE DEF Drained, Stream, Closing, Leftover
  <2> QED
    BY <1>3 DEF Call
<1>5. Encrypted(c) = k /\ (Said(c) <=> Said(d))
  BY <1>3, <1>4 DEF Encrypted, Said
<1>6. d.wire \in Seq(Record(prof)) /\ P \in Seq(Record(prof))
  BY FieldTypes, PipeFacts
<1>7. Len(P) \in Nat \ {0} /\ r = P[1] /\ \A i \in 1..Len(Tail(P)) : Tail(P)[i] = P[i + 1] /\ i + 1 \in 1..Len(P)
  <2> HIDE DEF P
  <2> QED
    BY <1>3, <1>6, EmptySeq, LenProperties, HeadTailProperties
<1>8. \A i \in 1..Len(P) : P[i].type = "alert" => d.bye # 0 \/ d.closed
  BY DEF Stream
<1>9. \A i \in 1..Len(Pipe(c)) : Pipe(c)[i].type = "alert" => c.bye # 0 \/ c.closed
  <2> HIDE DEF P
  <2> QED
    BY <1>3, <1>4, <1>7, <1>8
<1>10. /\ \A i \in 1..Len(e.got) : e.got[i] = i
       /\ \A i \in 1..Len(e.rbuf) : e.rbuf[i] = Len(e.got) + i
  BY DEF Stream
<1>11. CASE f.error # "none"
  <2>1. f.got = e.got /\ f.rbuf = e.rbuf /\ ~f.eof
    BY <1>11 DEF Gets
  <2>2. Received(f) = n
    BY <2>1 DEF Received
  <2> HIDE DEF n, k
  <2> QED
    BY <1>1, <1>5, <1>9, <1>10, <1>11, <2>1, <2>2 DEF Stream
<1>12. CASE f.error = "none"
  <2> DEFINE s == IF d.ended THEN d.wire ELSE P
             t == IF d.ended THEN c.wire ELSE Pipe(c)
  <2>1. s \in Seq(Record(prof)) /\ s # <<>> /\ Head(s) = r /\ t = Tail(s)
    BY <1>3, <1>6
  <2>2. Ordered(s, n, k) /\ (~d.ended => Complete(s, n, k))
    BY DEF Stream
  <2> HIDE DEF s, n, k
  <2>3. /\ r.type = "data" => r.body = n + 1 /\ n + 1 <= k
        /\ r.type = "alert" => n = k
        /\ Ordered(Tail(s), m, k)
        /\ Complete(s, n, k) => Complete(Tail(s), m, k)
    BY <1>1, <1>2, <2>1, <2>2, OrderedTail
  <2>4. m <= k
    BY <1>1, <2>3
  <2>5. /\ Received(f) = m
        /\ \A i \in 1..Len(f.got) : f.got[i] = i
        /\ \A i \in 1..Len(f.rbuf) : f.rbuf[i] = Len(f.got) + i
    BY <1>10, <1>12, <2>3, KeepsOrder DEF n
  <2>6. f.eof => r.type = "alert"
    BY <1>12 DEF Gets
  <2>7. ASSUME r.type = "alert" PROVE Said(c) /\ m = c.next
    <3>1. d.bye # 0 \/ d.closed
      BY <1>7, <1>8, <2>7
    <3>2. d.call = "bye" \/ (d.closed /\ d.call = "none")
      BY <3>1 DEF Closing
    <3>3. d.presend = <<>> /\ Len(d.presend) = 0
      BY <3>2, EmptySeq DEF Leftover
    <3>4. d.next \in Nat
      BY FieldTypes
    <3>5. k = d.next
      BY <3>2, <3>3, <3>4 DEF Encrypted, k
    <3> QED
      BY <1>4, <1>5, <2>3, <2>7, <3>2, <3>5 DEF Said
  <2>8. IF c.ended THEN Ordered(c.wire, m, k) ELSE Ordered(Pipe(c), m, k) /\ Complete(Pipe(c), m, k)
    BY <1>3, <2>1, <2>2, <2>3 DEF s
  <2> HIDE DEF m
  <2>9. f.eof => Said(c) /\ m = c.next
    BY <2>6, <2>7
  <2> QED
    BY <1>5, <1>9, <2>4, <2>5, <2>8, <2>9 DEF Stream
<1> QED
  BY <1>11, <1>12

\* A record that was read does not disturb an interrupted call.
LEMMA LeftoverReads ==
    ASSUME NEW e, NEW f, NEW r \in Record(prof), NEW wanted, Leftover(e, prof),
           Resumable(e, prof), SafeUse(prof), e.call # "loop", Reads(e, f, r, wanted)
    PROVE  Leftover(f, prof)
<1>1. Untouched(e, f)
  BY DEF Reads
<1>2. \/ f.st = e.st
      \/ prof.requests /\ e.st = "NORMAL" /\ f.st = "KEY_UPDATE_1"
      \/ prof.requests /\ e.st = "CORKED" /\ f.st = "CORKED_TO_KU"
  BY DEF Reads, Refused, Accepted, Record
<1>3. Corked(e) => Corked(f)
  BY <1>2 DEF Corked
<1>4. f.call = "send" /\ ~f.state150 => f.st = "NORMAL"
  <2>1. e.sendbuf # <<>> => ~prof.requests
    BY DEF Resumable, SafeUse
  <2> QED
    BY <1>1, <1>2, <2>1 DEF Leftover, Untouched
<1>5. /\ f.st = "KEY_UPDATE_2" => e.st = "KEY_UPDATE_2"
      /\ ~prof.requests => f.st = e.st
  BY <1>2
<1> QED
  BY <1>1, <1>3, <1>4, <1>5 DEF Leftover, Untouched

\* The end of gnutls_bye leaves nothing behind.
LEMMA StreamCloses ==
    ASSUME NEW e, NEW f, NEW d, NEW c, Leftover(e, prof), Closing(e, d), Stream(e, d),
           e.bye = 2, Closes(e, f),
           c.got = d.got, c.rbuf = d.rbuf, c.eof = d.eof, d.error # "none" => c.error # "none"
    PROVE  Leftover(f, prof) /\ Stream(f, c)
<1>1. e.call = "bye" /\ e.sendbuf = <<>>
  BY DEF Closing
<1>2. /\ f.wire = e.wire /\ f.sendbuf = e.sendbuf /\ f.ended = e.ended /\ f.next = e.next
      /\ f.presend = e.presend /\ f.state150 = e.state150 /\ f.st = e.st /\ f.orig = e.orig
      /\ f.kubuf = e.kubuf /\ f.closed /\ f.call = "none"
  BY DEF Closes, Core
<1>3. Leftover(f, prof)
  BY <1>1, <1>2 DEF Leftover, Corked
<1>4. Pipe(f) = Pipe(e) /\ Encrypted(f) = Encrypted(e) /\ Received(c) = Received(d)
  BY <1>1, <1>2 DEF Pipe, Encrypted, Received
<1>5. Stream(f, c)
  BY <1>2, <1>4 DEF Stream, Said
<1> QED
  BY <1>3, <1>5

\* A call that reads, of gnutls_record_recv or gnutls_bye.
LEMMA StreamReading ==
    ASSUME Before, NEW p \in Nodes, Reading(p), ep[p].error = "none", ~ep[p].eof, NEW wanted,
           wanted = "data" => ep[p].rbuf = <<>>,
           LET e == ep[p]
               f == ep'[p]
               r == Head(ep[Peer(p)].wire)
           IN  \/ Reads(e, f, r, wanted) /\ e.call # "loop"
               \/ Closes(e, f) /\ e.bye = 2 /\ r.type = "alert" /\ f.eof /\ f.error = "none"
    PROVE  StreamInv'
<1> DEFINE e == ep[p]
           f == ep'[p]
           d == ep[Peer(p)]
           c == ep'[Peer(p)]
           r == Head(d.wire)
<1>1. /\ e \in SessionSet(prof) /\ d \in SessionSet(prof) /\ Leftover(e, prof)
      /\ Leftover(d, prof) /\ Closing(e, d) /\ Closing(d, e) /\ Stream(e, d) /\ Stream(d, e)
      /\ Resumable(e, prof) /\ SafeUse(prof)
  BY BeforeFacts DEF Before
<1>2. Drained(d, c) /\ prof' = prof
  BY DEF Reading
<1>3. /\ Still(d, c) /\ Call(c) = Call(d) /\ r \in Record(prof) /\ c.st = d.st
      /\ c.state150 = d.state150 /\ c.kubuf = d.kubuf /\ c.sendbuf = d.sendbuf
  BY <1>2 DEF Drained
<1>4. Gets(e, f, r, wanted)
  <2>1. CASE Reads(e, f, r, wanted)
    BY <2>1 DEF Reads, Refused, Accepted, Gets
  <2>2. CASE Closes(e, f) /\ r.type = "alert" /\ f.eof /\ f.error = "none"
    BY <2>2 DEF Closes, Gets
  <2> QED
    BY <2>1, <2>2
<1>5. Stream(c, f)
  BY <1>1, <1>2, <1>4, StreamGets
<1> HIDE DEF e, f, d, c
<1>6. Leftover(c, prof)
  <2>1. /\ c.presend = d.presend /\ c.orig = d.orig /\ c.call = d.call /\ c.next = d.next
        /\ c.closed = d.closed
    BY <1>3 DEF Call
  <2> QED
    BY <1>1, <1>3, <2>1 DEF Leftover, Corked
<1>7. Leftover(f, prof) /\ Stream(f, c)
  <2>1. c.got = d.got /\ c.rbuf = d.rbuf /\ c.eof = d.eof /\ c.error = d.error
    BY <1>3 DEF Still
  <2>2. CASE Reads(e, f, r, wanted) /\ e.call # "loop"
    <3>1. Leftover(f, prof)
      BY <1>1, <1>3, <2>2, LeftoverReads
    <3>2. Stream(f, c)
      BY <1>1, <2>1, <2>2, StreamSame DEF Reads, Untouched
    <3> QED
      BY <3>1, <3>2
  <2>3. CASE Closes(e, f) /\ e.bye = 2
    BY <1>1, <2>1, <2>3, StreamCloses
  <2> QED
    BY <2>2, <2>3 DEF e, f, r, d
<1> QED
  BY <1>2, <1>5, <1>6, <1>7, PeerOther DEF StreamInv, e, f, d, c

\* What is left of the wire when the transport ends is in order; what was lost
\* is not read.
LEMMA StreamQuiet ==
    ASSUME Before, NEW p \in Nodes, RecvEnd(p) \/ End(p) \/ Tick(p)
    PROVE  StreamInv'
<1> DEFINE e == ep[p]
           f == ep'[p]
           d == ep[Peer(p)]
<1>1. /\ f \in SessionSet(prof) /\ Alone(p) /\ Call(f) = Call(e) /\ f.st = e.st
      /\ f.state150 = e.state150 /\ f.kubuf = e.kubuf /\ f.sendbuf = e.sendbuf
      /\ f.got = e.got /\ f.rbuf = e.rbuf /\ f.eof = e.eof
      /\ f.error \in {e.error, "premature_termination"}
      /\ \/ f.wire = e.wire /\ f.ended = e.ended
         \/ f.ended /\ \E n \in 0..Len(e.wire) : f.wire = SubSeq(e.wire, 1, n)
  BY QuietSteps DEF Before
<1>2. /\ e \in SessionSet(prof) /\ d \in SessionSet(prof) /\ Leftover(e, prof)
      /\ Leftover(d, prof) /\ Stream(e, d)
  BY BeforeFacts
<1>3. Stream(d, f)
  BY <1>1, StreamStill DEF Before
<1> HIDE DEF e, f, d
<1>4. /\ f.presend = e.presend /\ f.orig = e.orig /\ f.call = e.call /\ f.next = e.next
      /\ f.bye = e.bye /\ f.closed = e.closed
  BY <1>1 DEF Call
<1>5. Leftover(f, prof)
  BY <1>1, <1>2, <1>4 DEF Leftover, Corked
<1>6. ASSUME f.wire = e.wire, f.ended = e.ended PROVE Stream(f, d)
  BY <1>1, <1>2, <1>4, <1>6, StreamSame
<1>7. ASSUME f.ended, NEW l \in 0..Len(e.wire), f.wire = SubSeq(e.wire, 1, l)
      PROVE  Stream(f, d)
  <2> DEFINE w == e.wire
             b == e.sendbuf
             t == f.wire
             n == Received(d)
             k == Encrypted(e)
  <2>1. w \in Seq(Record(prof)) /\ b \in Seq(Record(prof)) /\ t \in Seq(Record(prof))
    BY <1>1, <1>2, FieldTypes
  <2>2. t = SubSeq(w, 1, l) /\ l \in 0..Len(w) /\ Len(w) \in Nat /\ Len(b) \in Nat
    BY <1>7, <2>1, LenProperties
  <2>3. Pipe(e) = w \o b /\ Pipe(f) = t \o b
    BY <1>1 DEF Pipe
  <2>4. Encrypted(f) = k /\ (Said(f) <=> Said(e))
    BY <1>1, <1>4 DEF Encrypted, Said
  <2>5. n \in Nat /\ k \in Int /\ n <= k
    BY <1>2, CountFacts DEF Stream
  <2> HIDE DEF w, b, t, n, k
  <2>6. l \in Nat /\ Len(t) = l /\ \A i \in 1..l : t[i] = w[i]
    BY <2>1, <2>2, SubSeqProperties
  <2>7. /\ w \o b \in Seq(Record(prof)) /\ Len(w \o b) = Len(w) + Len(b)
        /\ \A i \in 1..Len(w) : (w \o b)[i] = w[i]
        /\ \A i \in 1..Len(b) : (w \o b)[Len(w) + i] = b[i]
    BY <2>1, <2>2, ConcatProperties
  <2>14. /\ Len(t \o b) = Len(t) + Len(b) /\ \A i \in 1..Len(t) : (t \o b)[i] = t[i]
         /\ Len(t) \in Nat /\ \A i \in 1..Len(b) : (t \o b)[Len(t) + i] = b[i]
    BY <2>1, LenProperties, ConcatProperties
  <2>8. /\ Len(t \o b) = l + Len(b) /\ \A i \in 1..l : (t \o b)[i] = t[i]
        /\ \A i \in 1..Len(b) : (t \o b)[l + i] = b[i]
    BY <2>6, <2>14
  <2>9. k \in Nat
    BY <2>5
  <2>10. ASSUME d.error = "none" PROVE Ordered(t, n, k)
    <3>1. CASE e.ended
      <4>1. Ordered(w, n, k)
        BY <1>2, <2>10, <3>1 DEF Stream, w, n, k
      <4>2. Len(t) <= Len(w) /\ \A i \in 1..Len(t) : t[i] = w[i]
        BY <2>2, <2>6
      <4> QED
        BY <2>1, <2>5, <2>9, <4>1, <4>2, OrderedPrefix
    <3>2. CASE ~e.ended
      <4>1. Ordered(w \o b, n, k)
        BY <1>2, <2>3, <2>10, <3>2 DEF Stream, n, k
      <4>2. Len(t) <= Len(w \o b) /\ \A i \in 1..Len(t) : t[i] = (w \o b)[i]
        BY <2>2, <2>6, <2>7
      <4> QED
        BY <2>1, <2>5, <2>7, <2>9, <4>1, <4>2, OrderedPrefix
    <3> QED
      BY <3>1, <3>2
  <2>11. \A i \in 1..Len(w \o b) : (w \o b)[i].type = "alert" => e.bye # 0 \/ e.closed
    BY <1>2, <2>3 DEF Stream
  <2>12. ASSUME NEW i \in 1..Len(t \o b), (t \o b)[i].type = "alert"
         PROVE  f.bye # 0 \/ f.closed
    <3>1. CASE i \in 1..l
      <4>1. i \in 1..Len(w \o b) /\ (t \o b)[i] = (w \o b)[i]
        BY <2>2, <2>6, <2>7, <2>8, <3>1
      <4> QED
        BY <1>4, <2>11, <2>12, <4>1
    <3>2. CASE i \notin 1..l
      <4> DEFINE j == i - l
      <4>1. j \in 1..Len(b) /\ i = l + j
        BY <2>2, <2>6, <2>8, <3>2
      <4> HIDE DEF j
      <4>2. Len(w) + j \in 1..Len(w \o b) /\ (t \o b)[i] = (w \o b)[Len(w) + j]
        BY <2>2, <2>7, <2>8, <4>1
      <4> QED
        BY <1>4, <2>11, <2>12, <4>2
    <3> QED
      BY <3>1, <3>2
  <2>13. \A i \in 1..Len(Pipe(f)) : Pipe(f)[i].type = "alert" => f.bye # 0 \/ f.closed
    BY <2>3, <2>12
  <2> QED
    BY <1>2, <1>4, <1>7, <2>4, <2>10, <2>13 DEF Stream, n, k, t
<1>8. Stream(f, d)
  BY <1>1, <1>6, <1>7
<1> QED
  BY <1>1, <1>3, <1>5, <1>8, StreamAlone DEF Before, e, f, d

\* gnutls_bye sends its alert behind all the data, also what an interrupted call
\* had left.
LEMMA StreamBye ==
    ASSUME Before, NEW p \in Nodes, Bye(p)
    PROVE  StreamInv'
<1> DEFINE e == ep[p]
           f == ep'[p]
           d == ep[Peer(p)]
           c == Encrypted(e)
<1>1. /\ f \in SessionSet(prof) /\ Alone(p) /\ Running(p) /\ e.call \in {"none", "send", "bye"}
      /\ e.presend = <<>> /\ ~e.state150 /\ Still(e, f) /\ f.presend = e.presend
      /\ f.orig = e.orig /\ f.next = e.next /\ f.call = "bye" /\ f.state150 = e.state150
      /\ Goodbye(e, f)
  BY ByeStep DEF Before
<1>2. /\ e \in SessionSet(prof) /\ d \in SessionSet(prof) /\ Leftover(e, prof)
      /\ Leftover(d, prof) /\ Stream(e, d) /\ Closing(e, d) /\ ~e.closed
  BY BeforeFacts, ByeStep DEF Before
<1>3. ~e.ended /\ ~f.ended
  BY <1>1 DEF Running, Still
<1>4. Stream(d, f)
  BY <1>1, StreamStill DEF Before, Still
<1> HIDE DEF e, f, d
<1>5. Encrypted(f) = c
  BY <1>1 DEF Encrypted
<1>6. c \in Int /\ c <= c
  BY <1>2, CountFacts
<1>7. Leftover(f, prof)
  <2>1. f.st \in {e.st, "KEY_UPDATE_1"}
    BY <1>1 DEF Goodbye
  <2> QED
    BY <1>1, <1>2, <2>1, EmptySeq DEF Leftover
<1>8. NoAlert(Pipe(f)) \/ f.bye # 0
  <2>1. CASE f.bye = 0
    BY <1>1, <1>2, <2>1 DEF Goodbye, Stream, NoAlert
  <2> QED
    BY <2>1
<1> HIDE DEF c
<1>9. ASSUME NEW n \in Nat, NEW a \in Nat, n <= a, Flow(Pipe(e), n, a)
      PROVE  Flow(Pipe(f), n, a)
  <2> DEFINE s == Pipe(e)
             r == Rec(e, "alert", 0)
  <2>1. s \in Seq(Record(prof)) /\ r \in Record(prof)
    BY <1>2, PipeFacts
  <2>2. r.type # "data"
    BY DEF Rec
  <2>3. Pipe(f) = s \/ Pipe(f) = Append(s, r)
    BY <1>1 DEF Goodbye
  <2> HIDE DEF s, r
  <2>4. Flow(Append(s, r), n, a)
    BY <1>9, <2>1, <2>2, OrderedAppendOther DEF Flow, s
  <2> QED
    BY <1>9, <2>3, <2>4 DEF s
<1>10. Stream(f, d)
  <2>1. d.eof => Said(f) /\ f.next = e.next
    BY <1>1 DEF Said
  <2>2. c \in Nat => \A n \in Nat : n <= c /\ Flow(Pipe(e), n, c) => Flow(Pipe(f), n, c)
    BY <1>9
  <2> QED
    BY <1>2, <1>3, <1>5, <1>6, <1>8, <2>1, <2>2, StreamSent DEF c
<1> QED
  BY <1>1, <1>4, <1>7, <1>10, StreamAlone DEF Before, e, f, d

\* Every step keeps the stream whole.
LEMMA StreamNext ==
    ASSUME Before, Next
    PROVE  StreamInv'
<1>1. PICK p \in Nodes :
            \/ Send(p) \/ SendCorked(p)
            \/ Cork(p) \/ Uncork(p) \/ UncorkSend(p) \/ UncorkDone(p)
            \/ \E ask \in BOOLEAN : Update(p, ask)
            \/ Recv(p) \/ RecvBuffered(p) \/ RecvEnd(p)
            \/ Bye(p) \/ ByeWrite(p) \/ ByeWait(p) \/ End(p)
            \/ Tick(p)
  BY DEF Next
<1> DEFINE e == ep[p]
           f == ep'[p]
           d == ep[Peer(p)]
           r == Head(d.wire)
<1>2. CASE Recv(p)
  <2>1. Reading(p) /\ Readable(p) /\ e.rbuf = <<>> /\ e.call # "loop" /\ Reads(e, f, r, "data")
    BY <1>2, RecvStep DEF Before
  <2>2. e.error = "none" /\ ~e.eof
    BY <2>1 DEF Readable, Running
  <2> QED
    BY <2>1, <2>2, StreamReading
<1>3. CASE ByeWrite(p) \/ ByeWait(p)
  <2>1. /\ f \in SessionSet(prof) /\ Running(p) /\ e.bye = 2
        /\ \/ Alone(p) /\ Closes(e, f) /\ (f.eof <=> e.eof)
              /\ f.error \in {"none", "premature_termination"}
           \/ Reading(p) /\ ~e.eof /\ Reads(e, f, r, "alert") /\ ~f.eof
           \/ /\ Reading(p) /\ ~e.eof /\ Closes(e, f) /\ f.eof /\ f.error = "none"
              /\ r.type = "alert"
    BY <1>3, ByeWaitStep DEF Before
  <2>2. /\ e \in SessionSet(prof) /\ Leftover(e, prof) /\ Closing(e, d) /\ Stream(e, d)
        /\ e.error = "none" /\ e.call # "loop" /\ e.eof \in BOOLEAN /\ f.eof \in BOOLEAN
    BY <2>1, BeforeFacts, FlagTypes DEF Running, Closing
  <2>3. CASE Alone(p) /\ Closes(e, f) /\ (f.eof <=> e.eof)
    <3>1. Leftover(f, prof) /\ Stream(f, d)
      BY <2>1, <2>2, <2>3, StreamCloses
    <3>2. f.got = e.got /\ f.rbuf = e.rbuf /\ f.eof = e.eof
      BY <2>2, <2>3 DEF Closes
    <3>3. Stream(d, f)
      BY <2>2, <3>2, StreamStill DEF Before
    <3> QED
      BY <2>3, <3>1, <3>3, StreamAlone DEF Before
  <2>4. CASE Reading(p) /\ ~e.eof /\ Reads(e, f, r, "alert")
    <3>1. "alert" = "data" => e.rbuf = <<>>
      OBVIOUS
    <3> QED
      BY <2>2, <2>4, <3>1, StreamReading
  <2>5. CASE /\ Reading(p) /\ ~e.eof /\ Closes(e, f) /\ f.eof /\ f.error = "none"
             /\ r.type = "alert"
    <3>1. "alert" = "data" => e.rbuf = <<>>
      OBVIOUS
    <3> QED
      BY <2>1, <2>2, <2>5, <3>1, StreamReading
  <2> QED
    BY <2>1, <2>3, <2>4, <2>5
<1>4. CASE Cork(p) \/ Uncork(p) \/ UncorkDone(p)
  BY <1>4, StreamCork
<1>5. CASE RecvEnd(p) \/ End(p) \/ Tick(p)
  BY <1>5, StreamQuiet
<1>6. CASE \E ask \in BOOLEAN : Update(p, ask)
  BY <1>6, StreamUpdate
<1> QED
  BY <1>1, <1>2, <1>3, <1>4, <1>5, <1>6, StreamSend, StreamSendCorked, StreamUncorkSend,
     StreamRecvBuffered, StreamBye

\* The inductive invariant of the stream.
LEMMA StreamSpec == Spec => [](Typed /\ (SafeUse(prof) => StreamInv))
<1> DEFINE Inv == SafeUse(prof) => StreamInv
<1>1. Init => Inv
  <2> SUFFICES ASSUME Init, NEW p \in Nodes
               PROVE  Leftover(ep[p], prof) /\ Stream(ep[p], ep[Peer(p)])
    BY DEF StreamInv
  <2>1. ep[p] = Session /\ ep[Peer(p)] = Session
    BY PeerOther DEF Init
  <2>2. Len(<<>>) = 0 /\ <<>> \o <<>> = <<>>
    BY EmptySeq, ConcatEmptySeq
  <2>3. /\ Session.wire = <<>> /\ Session.sendbuf = <<>> /\ Session.got = <<>>
        /\ Session.rbuf = <<>> /\ Session.presend = <<>> /\ Session.next = 0
        /\ Session.call = "none" /\ Session.st = "NORMAL" /\ Session.orig = "NORMAL"
    BY DEF Session
  <2>4. ~Session.eof /\ ~Session.ended
    BY DEF Session
  <2> HIDE DEF Session
  <2>5. Leftover(Session, prof)
    BY <2>2, <2>3 DEF Leftover
  <2>6. Pipe(Session) = <<>> /\ Received(Session) = 0 /\ Encrypted(Session) = 0
    <3>1. Len(Session.got) = 0 /\ Len(Session.rbuf) = 0 /\ Len(Session.presend) = 0
      BY <2>2, <2>3
    <3>2. Received(Session) = 0 + 0
      BY <3>1 DEF Received
    <3>3. Encrypted(Session) = 0 - 0 + 0 - 0
      BY <2>3, <3>1 DEF Encrypted
    <3> QED
      BY <2>2, <2>3, <3>2, <3>3 DEF Pipe
  <2>7. Ordered(<<>>, 0, 0) /\ Complete(<<>>, 0, 0)
    BY <2>2 DEF Ordered, Complete
  <2>8. Stream(Session, Session)
    BY <2>2, <2>3, <2>4, <2>6, <2>7 DEF Stream
  <2> QED
    BY <2>1, <2>5, <2>8
<1>2. Typed /\ ByeInv /\ (NoCorkedRekey(prof) => KeyInv /\ KeysInStep) /\ Inv /\ [Next]_vars => Inv'
  <2>1. ASSUME Typed, ByeInv, NoCorkedRekey(prof) => KeyInv /\ KeysInStep, Inv, Next PROVE Inv'
    <3>1. SUFFICES ASSUME SafeUse(prof)' PROVE StreamInv'
      OBVIOUS
    <3>2. SafeUse(prof)
      BY <2>1, <3>1, ProfSame
    <3>3. Before
      BY <2>1, <3>2 DEF Before, SafeUse, NoCorkedRekey
    <3> QED
      BY <2>1, <3>3, StreamNext
  <2>2. ASSUME Inv, UNCHANGED vars PROVE Inv'
    BY <2>2 DEF StreamInv, vars
  <2> QED
    BY <2>1, <2>2
<1> QED
  BY <1>1, <1>2, KeySpec, PTL DEF Spec

\* A sequence that counts.
LEMMA UptoFacts ==
    ASSUME NEW s \in Seq(Nat), \A i \in 1..Len(s) : s[i] = i
    PROVE  s = Upto(Len(s))
<1>1. s \in [1..Len(s) -> Nat]
  BY LenProperties
<1> QED
  BY <1>1 DEF Upto

\* What an endpoint received is what its peer submitted, from the first chunk on,
\* in order and each chunk once, whichever calls of gnutls_record_send,
\* gnutls_record_uncork and gnutls_bye were interrupted and repeated in between.
THEOREM StreamIntegrityHolds == Spec => [](SafeUse(prof) => StreamIntegrity)
<1>1. Typed /\ StreamInv => StreamIntegrity
  <2> SUFFICES ASSUME Typed, StreamInv, NEW p \in Nodes
               PROVE  /\ Len(ep[p].got) <= ep[Peer(p)].next
                      /\ ep[p].got = Upto(Len(ep[p].got))
    BY DEF StreamIntegrity
  <2> DEFINE e == ep[Peer(p)]
             f == ep[p]
  <2>1. /\ e \in SessionSet(prof) /\ f \in SessionSet(prof) /\ Leftover(e, prof)
        /\ Leftover(f, prof) /\ Stream(e, f)
    BY PeerOther, TypedFacts DEF StreamInv
  <2>2. f.got \in Seq(Nat) /\ Len(f.got) \in Nat /\ Len(f.rbuf) \in Nat /\ e.next \in Nat
    BY <2>1, FieldTypes, LenProperties
  <2> HIDE DEF e, f
  <2>3. f.got = Upto(Len(f.got))
    BY <2>1, <2>2, UptoFacts DEF Stream
  <2>4. /\ Received(f) = Len(f.got) + Len(f.rbuf) /\ Encrypted(e) \in Int
        /\ Received(f) <= Encrypted(e) /\ Encrypted(e) <= e.next
    BY <2>1, CountFacts DEF Received, Stream
  <2> DEFINE a == Len(f.got)
             b == Len(f.rbuf)
             k == Encrypted(e)
             n == e.next
  <2>5. a \in Nat /\ b \in Nat /\ n \in Nat /\ k \in Int /\ a + b <= k /\ k <= n
    BY <2>2, <2>4
  <2> HIDE DEF a, b, k, n
  <2>6. a <= n
    BY <2>5
  <2> QED
    BY <2>3, <2>6 DEF a, n, e, f
<1> QED
  BY <1>1, StreamSpec, PTL

\* Whoever reads the close_notify of its peer has received everything that was
\* submitted there, the data of an interrupted call included.
THEOREM EofCompleteHolds == Spec => [](SafeUse(prof) => EofComplete)
<1>1. Typed /\ StreamInv => EofComplete
  <2> SUFFICES ASSUME Typed, StreamInv, NEW p \in Nodes, ep[p].eof
               PROVE  ep[p].got \o ep[p].rbuf = Upto(ep[Peer(p)].next)
    BY DEF EofComplete
  <2> DEFINE e == ep[Peer(p)]
             f == ep[p]
             s == f.got
             b == f.rbuf
             t == s \o b
  <2>1. e \in SessionSet(prof) /\ f \in SessionSet(prof) /\ Stream(e, f)
    BY PeerOther, TypedFacts DEF StreamInv
  <2>2. s \in Seq(Nat) /\ b \in Seq(Nat) /\ Len(s) \in Nat /\ Len(b) \in Nat
    BY <2>1, FieldTypes, LenProperties
  <2>3. /\ e.next = Len(s) + Len(b)
        /\ \A i \in 1..Len(s) : s[i] = i
        /\ \A i \in 1..Len(b) : b[i] = Len(s) + i
    BY <2>1 DEF Stream, Received
  <2> HIDE DEF e, f, s, b
  <2>4. /\ t \in Seq(Nat) /\ Len(t) = Len(s) + Len(b)
        /\ \A i \in 1..Len(s) : t[i] = s[i]
        /\ \A i \in 1..Len(b) : t[Len(s) + i] = b[i]
    BY <2>2, ConcatProperties
  <2> HIDE DEF t
  <2>5. ASSUME NEW i \in 1..Len(t) PROVE t[i] = i
    <3>1. CASE i \in 1..Len(s)
      BY <2>3, <2>4, <3>1
    <3>2. CASE i \notin 1..Len(s)
      <4> DEFINE j == i - Len(s)
      <4>1. j \in 1..Len(b) /\ i = Len(s) + j
        BY <2>2, <2>4, <3>2
      <4> HIDE DEF j
      <4> QED
        BY <2>3, <2>4, <4>1
    <3> QED
      BY <3>1, <3>2
  <2>6. t = Upto(Len(t))
    BY <2>4, <2>5, UptoFacts
  <2> QED
    BY <2>3, <2>4, <2>6 DEF t, s, b, e, f
<1> QED
  BY <1>1, StreamSpec, PTL

\* Between two calls every chunk that was submitted is received, on the wire or
\* corked, and nowhere twice.
THEOREM NothingDroppedHolds == Spec => [](SafeUse(prof) => NothingDropped)
<1>1. Typed /\ StreamInv => NothingDropped
  <2> SUFFICES ASSUME Typed, StreamInv, NEW p \in Nodes, ep[p].call = "none", ~ep[p].ended,
                      ep[Peer(p)].error = "none"
               PROVE  LET e        == ep[p]
                          data     == {i \in 1..Len(e.wire) : e.wire[i].type = "data"}
                          received == Len(ep[Peer(p)].got) + Len(ep[Peer(p)].rbuf)
                          sent     == e.next - Len(e.presend)
                      IN  /\ {e.wire[i].body : i \in data} = (received + 1)..sent
                          /\ \A i, j \in data : e.wire[i].body = e.wire[j].body => i = j
                          /\ received <= sent
                          /\ e.presend = [i \in 1..Len(e.presend) |-> sent + i]
    BY DEF NothingDropped
  <2> DEFINE e == ep[p]
             f == ep[Peer(p)]
             w == e.wire
             D == {i \in 1..Len(w) : w[i].type = "data"}
             n == Received(f)
             c == e.next - Len(e.presend)
             s == e.presend
  <2>1. /\ e \in SessionSet(prof) /\ f \in SessionSet(prof) /\ Leftover(e, prof)
        /\ Leftover(f, prof) /\ Stream(e, f)
    BY PeerOther, TypedFacts DEF StreamInv
  <2>2. w \in Seq(Record(prof)) /\ s \in Seq(Nat) /\ e.next \in Nat /\ Len(s) \in Nat
    BY <2>1, FieldTypes, LenProperties
  <2>3. e.call = "none" /\ ~e.ended /\ f.error = "none" /\ e.sendbuf = <<>>
    BY <2>1 DEF Leftover
  <2>4. s = [i \in 1..Len(s) |-> c + i]
    <3>1. s \in [1..Len(s) -> Nat] /\ \A i \in 1..Len(s) : s[i] = c + i
      BY <2>1, <2>2, LenProperties DEF Leftover
    <3> HIDE DEF s, c
    <3> QED
      BY <3>1
  <2> HIDE DEF e, f
  <2>5. Encrypted(e) = c /\ c \in Int
    <3>1. Encrypted(e) = c + 0 - 0
      BY <2>3 DEF Encrypted
    <3>2. c \in Int
      BY <2>2
    <3> HIDE DEF c
    <3> QED
      BY <3>1, <3>2
  <2>6. Pipe(e) = w
    BY <2>2, <2>3, ConcatEmptySeq DEF Pipe
  <2>7. n \in Nat /\ n <= c
    BY <2>1, <2>5, CountFacts DEF Stream
  <2>8. Ordered(w, n, c) /\ Complete(w, n, c)
    BY <2>1, <2>3, <2>5, <2>6 DEF Stream
  <2>9. n = Len(f.got) + Len(f.rbuf)
    BY DEF Received
  <2> HIDE DEF w, n, c
  <2>10. \A i : i \in D <=> Data(w, i)
    BY DEF Data
  <2>11. \A i \in D : i \in 1..Len(w) /\ w[i].body \in Nat /\ n < w[i].body /\ w[i].body <= c
    <3>1. \A i \in D : i \in 1..Len(w) /\ Data(w, i)
      BY <2>10
    <3>2. \A i \in D : w[i] \in Record(prof)
      BY <2>2, <3>1, ElementOfSeq
    <3>3. \A i \in D : w[i].body \in Nat
      BY <3>2 DEF Record
    <3> HIDE DEF D
    <3> QED
      BY <2>8, <3>1, <3>3 DEF Ordered
  <2>12. ASSUME NEW i \in D, NEW j \in D, w[i].body = w[j].body PROVE i = j
    <3>1. i \in 1..Len(w) /\ j \in 1..Len(w) /\ Data(w, i) /\ Data(w, j) /\ w[i].body \in Nat
      BY <2>10, <2>11
    <3>2. ~(i < j) /\ ~(j < i)
      BY <2>8, <2>12, <3>1 DEF Ordered
    <3>3. Len(w) \in Nat
      BY <2>2, LenProperties
    <3> QED
      BY <3>1, <3>2, <3>3
  <2>13. ASSUME NEW k \in (n + 1)..c PROVE \E i \in D : w[i].body = k
    <3>1. c # n
      BY <2>5, <2>7
    <3>2. PICK i \in 1..Len(w) : Data(w, i) /\ w[i].body = c
      BY <2>8, <3>1 DEF Complete
    <3>3. PICK j \in 1..i : Data(w, j) /\ w[j].body = k
      BY <2>8, <3>2 DEF Ordered
    <3> QED
      BY <2>10, <3>3
  <2> HIDE DEF D
  <2>14. {w[i].body : i \in D} = (n + 1)..c
    <3>1. \A i \in D : w[i].body \in (n + 1)..c
      BY <2>5, <2>7, <2>11
    <3> QED
      BY <2>13, <3>1
  <2> QED
    BY <2>4, <2>7, <2>9, <2>12, <2>14 DEF D, w, c, s, e, f
<1> QED
  BY <1>1, StreamSpec, PTL
=============================================================================
