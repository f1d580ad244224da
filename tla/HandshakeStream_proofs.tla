----------------------- MODULE HandshakeStream_proofs -----------------------
(***************************************************************************)
(* A handshake follows its script, second half: the steps at which an       *)
(* endpoint hears something, and what comes after the initial handshake.    *)
(* No endpoint fails, and what one application writes is what the other     *)
(* reads, for every set of modes and any amount of data.                    *)
(***************************************************************************)
EXTENDS HandshakeScript_proofs

-----------------------------------------------------------------------------
(* What is heard at each place.                                              *)

\* Where messages are heard.
LEMMA HearPlaces ==
  ASSUME NEW p \in Ends, NEW n \in Nat, NEW m \in Nat, NEW msg, Setting, HearAt(p, n, m, msg)
  PROVE  /\ n \in Places(p) /\ m \in Places(p) /\ (Follows(p, n, m) \/ Jumps(p, n, m)) /\ n <= m
         /\ SaidAt(p, m) = SaidAt(p, n) /\ ~KeyStep(p, n)
         /\ m # 3
  <1>1. CASE Version = "13" /\ p = "client"
    BY <1>1 DEF HearAt, Places, EndPlace, Follows, Jumps, SaidAt, KeyStep
  <1>2. CASE Version = "13" /\ p = "server"
    BY <1>2 DEF HearAt, Places, EndPlace, Follows, Jumps, SaidAt, KeyStep, Setting
  <1>3. CASE Version = "12" /\ p = "client"
    BY <1>3 DEF HearAt, Places, EndPlace, Follows, Jumps, SaidAt, KeyStep, Read12, Write12, Setting
  <1>4. CASE Version = "12" /\ p = "server"
    BY <1>4 DEF HearAt, Places, EndPlace, Follows, Jumps, SaidAt, KeyStep, Read12, Write12
  <1>5. CASE Version = "12r" /\ p = "client"
    BY <1>5 DEF HearAt, Places, EndPlace, Follows, Jumps, SaidAt, KeyStep, Read12, Write12, Setting
  <1>6. CASE Version = "12r" /\ p = "server"
    BY <1>6 DEF HearAt, Places, EndPlace, Follows, Jumps, SaidAt, KeyStep, Read12, Write12
  <1> QED BY <1>1, <1>2, <1>3, <1>4, <1>5, <1>6 DEF Ends, Setting, Three

\* What is heard by numbers.
LEMMA HearNumbers ==
  ASSUME NEW p \in Ends, NEW n \in Nat, NEW m \in Nat, NEW msg, Setting, HearAt(p, n, m, msg)
  PROVE  LET k == HeardAt(p, m)
         IN  /\ Spoken(Peer(p), k) /\ HeardAt(p, n) < k /\ k \in 1..17 /\ k <= LastOwn(Peer(p))
             /\ msg = "ClientHello" => p = "server" /\ k = IF n = 1 /\ mode.hrr THEN 1 ELSE 4
             /\ msg = "HelloRetryRequest" => Version = "13" /\ p = "client" /\ k = 2 /\ n = 2 /\ m = 11 /\ mode.hrr
             /\ msg = "ServerHello" => p = "client" /\ m = 14 /\ k = 5
             /\ msg \notin {"ClientHello", "HelloRetryRequest"} => k \in 5..17 /\ MsgOf(k) = msg
             /\ msg \notin {"ccs", "EarlyData"}
  <1>1. CASE Version = "13" /\ p = "client"
    BY <1>1 DEF HearAt, HeardAt, Spoken, Sends, Silent, LastOwn, Peer, MsgOf
  <1>2. CASE Version = "13" /\ p = "server"
    BY <1>2 DEF HearAt, HeardAt, Spoken, Sends, Silent, LastOwn, Peer, MsgOf, Setting
  <1>3. CASE Version = "12" /\ p = "client"
    BY <1>3 DEF HearAt, HeardAt, Spoken, Sends, Silent, LastOwn, Peer, MsgOf
  <1>4. CASE Version = "12" /\ p = "server"
    BY <1>4 DEF HearAt, HeardAt, Spoken, Sends, Silent, LastOwn, Peer, MsgOf, Setting
  <1>5. CASE Version = "12r" /\ p = "client"
    BY <1>5 DEF HearAt, HeardAt, Spoken, Sends, Silent, LastOwn, Peer, MsgOf
  <1>6. CASE Version = "12r" /\ p = "server"
    BY <1>6 DEF HearAt, HeardAt, Spoken, Sends, Silent, LastOwn, Peer, MsgOf, Setting
  <1> QED BY <1>1, <1>2, <1>3, <1>4, <1>5, <1>6 DEF Ends, Setting, Three

\* The key to read it with.
LEMMA HearKey ==
  ASSUME NEW p \in Ends, NEW n \in Nat, NEW m \in Nat, NEW msg, Setting, HearAt(p, n, m, msg)
  PROVE  KeyOf(HeardAt(p, m)) = ReadKeyAt(p, n)
  <1>1. CASE Version = "13" /\ p = "client"
    BY <1>1 DEF HearAt, HeardAt, KeyOf, ReadKeyAt
  <1>2. CASE Version = "13" /\ p = "server"
    BY <1>2 DEF HearAt, HeardAt, KeyOf, ReadKeyAt, Setting
  <1>3. CASE Version = "12" /\ p = "client"
    BY <1>3 DEF HearAt, HeardAt, KeyOf, ReadKeyAt, MsgOf, Read12
  <1>4. CASE Version = "12" /\ p = "server"
    BY <1>4 DEF HearAt, HeardAt, KeyOf, ReadKeyAt, MsgOf, Read12, Setting
  <1>5. CASE Version = "12r" /\ p = "client"
    BY <1>5 DEF HearAt, HeardAt, KeyOf, ReadKeyAt, MsgOf, Read12
  <1>6. CASE Version = "12r" /\ p = "server"
    BY <1>6 DEF HearAt, HeardAt, KeyOf, ReadKeyAt, MsgOf, Read12, Setting
  <1> QED BY <1>1, <1>2, <1>3, <1>4, <1>5, <1>6 DEF Ends, Setting, Three

\* The record tells what it is.
LEMMA HearSlot ==
  ASSUME NEW p \in Ends, NEW n \in Nat, NEW m \in Nat, NEW msg, NEW h, NEW r, Setting, HearAt(p, n, m, msg),
         Item(Peer(p), HeardAt(p, m), r), Slot(Peer(p), h, r) = HeardAt(p, m)
  PROVE  r.type = "hs" /\ r.msg = msg
  <1> r.type \in {"hs", "ccs", "data"}
    BY DEF Item
  <1>1. CASE Version = "13" /\ p = "client"
    BY <1>1 DEF HearAt, HeardAt, Slot, Peer
  <1>2. CASE Version = "13" /\ p = "server"
    <2> DEFINE k == HeardAt(p, m)
    <2>1. \/ k \in {1, 4} /\ msg = "ClientHello"
          \/ k = 14 /\ msg = "EndOfEarlyData"
          \/ k = 15 /\ msg = "Certificate"
          \/ k = 16 /\ msg = "CertificateVerify"
          \/ k = 17 /\ msg = "Finished"
      BY <1>2 DEF HearAt, HeardAt
    <2> HIDE DEF k
    <2>2. Slot("client", h, r) = k
      BY <1>2 DEF Peer, k
    <2>3. r.type = "hs"
      BY <1>2, <2>1, <2>2 DEF Slot
    <2>4. CASE r.msg \in {"ClientHello", "EndOfEarlyData"}
      BY <1>2, <2>1, <2>2, <2>3, <2>4 DEF Slot
    <2>5. CASE r.msg \in {"Certificate", "CertificateVerify", "Finished"}
      BY <1>2, <2>1, <2>2, <2>3, <2>5 DEF Slot
    <2>6. CASE r.msg \notin {"ClientHello", "EndOfEarlyData", "Certificate", "CertificateVerify", "Finished"}
      <3>1. Slot("client", h, r) = 0
        BY <1>2, <2>3, <2>6 DEF Slot
      <3> QED BY <2>1, <2>2, <3>1
    <2> QED BY <2>3, <2>4, <2>5, <2>6
  <1>3. CASE Version = "12" /\ p = "client"
    <2> DEFINE k == HeardAt(p, m)
    <2>1. \/ k = 5 /\ msg = "ServerHello"
          \/ k = 6 /\ msg = "Certificate"
          \/ k = 7 /\ msg = "ServerKeyExchange"
          \/ k = 8 /\ msg = "CertificateRequest"
          \/ k = 9 /\ msg = "ServerHelloDone"
          \/ k = 15 /\ msg = "NewSessionTicket"
          \/ k = 17 /\ msg = "Finished"
      BY <1>3 DEF HearAt, HeardAt
    <2> HIDE DEF k
    <2>2. Slot("server", h, r) = k
      BY <1>3 DEF Peer, k
    <2>3. r.type = "hs"
      <3>1. r.type # "ccs"
        BY <1>3, <2>1, <2>2 DEF Slot
      <3>2. r.key = KeyOf(k)
        BY <3>1 DEF Item, k
      <3>3. k = 8 => KeyOf(k) = Plain
        BY <1>3 DEF KeyOf, MsgOf
      <3>4. k = 8 => r.key.stage # "early"
        BY <3>2, <3>3, Stages
      <3> QED BY <1>3, <2>1, <2>2, <3>1, <3>4 DEF Slot
    <2>4. CASE r.msg \in {"ServerHello", "Certificate", "ServerKeyExchange", "CertificateRequest"}
      BY <1>3, <2>1, <2>2, <2>3, <2>4 DEF Slot
    <2>5. CASE r.msg \in {"ServerHelloDone", "NewSessionTicket", "Finished"}
      BY <1>3, <2>1, <2>2, <2>3, <2>5 DEF Slot
    <2>6. CASE r.msg \notin {"ServerHello", "Certificate", "ServerKeyExchange", "CertificateRequest",
                            "ServerHelloDone", "NewSessionTicket", "Finished"}
      <3>1. Slot("server", h, r) = 0
        BY <1>3, <2>3, <2>6 DEF Slot
      <3> QED BY <2>1, <2>2, <3>1
    <2> QED BY <2>3, <2>4, <2>5, <2>6
  <1>4. CASE Version = "12" /\ p = "server"
    BY <1>4 DEF HearAt, HeardAt, Slot, Peer, Setting
  <1>5. CASE Version = "12r" /\ p = "client"
    BY <1>5 DEF HearAt, HeardAt, Slot, Peer
  <1>6. CASE Version = "12r" /\ p = "server"
    BY <1>6 DEF HearAt, HeardAt, Slot, Peer, Setting
  <1> QED BY <1>1, <1>2, <1>3, <1>4, <1>5, <1>6 DEF Ends, Setting, Three

-----------------------------------------------------------------------------
(* What is in front of an endpoint that waits.                               *)

\* The next message that p waits for at place n is k.
Awaits(p, n, k) == /\ Spoken(Peer(p), k) /\ HeardAt(p, n) < k /\ k \in 1..17 /\ k <= LastOwn(Peer(p))
                   /\ Alone(Peer(p), k, HeardAt(p, n), k)

\* What is heard at a place is the next that was spoken.
LEMMA HearAwaits ==
  ASSUME NEW p \in Ends, NEW n \in Nat, NEW m \in Nat, NEW msg, Setting, HearAt(p, n, m, msg)
  PROVE  Awaits(p, n, HeardAt(p, m))
  <1>1. Three
    BY DEF Setting
  <1>2. Follows(p, n, m) \/ Jumps(p, n, m)
    BY HearPlaces
  <1>3. Alone(Peer(p), HeardAt(p, m), HeardAt(p, n), HeardAt(p, m))
    BY <1>1, <1>2, HeardNext
  <1> QED BY <1>3, HearNumbers DEF Awaits

\* The change cipher spec of TLS 1.2.
LEMMA CcsAwaits ==
  ASSUME NEW p \in Ends, NEW n \in Nat, Setting, CcsHeardAt(p, n)
  PROVE  /\ Awaits(p, n, HeardAt(p, n + 1)) /\ SaidAt(p, n + 1) = SaidAt(p, n) /\ Follows(p, n, n + 1)
         /\ n \in Places(p) /\ n + 1 \in Places(p) /\ Tr(LastAt(p, n + 1)) = Tr(LastAt(p, n))
         /\ \A h, r : Item(Peer(p), HeardAt(p, n + 1), r) /\ Slot(Peer(p), h, r) = HeardAt(p, n + 1) => r.type = "ccs"
  <1>1. Three
    BY DEF Setting
  <1>2. CASE Version = "12" /\ p = "client"
    <2>1. n = 26
      BY <1>2 DEF CcsHeardAt, Read12
    <2>2. Follows(p, n, n + 1) /\ n \in Places(p) /\ n + 1 \in Places(p)
      BY <1>2, <2>1 DEF Follows, EndPlace, Places
    <2>3. Alone(Peer(p), HeardAt(p, n + 1), HeardAt(p, n), HeardAt(p, n + 1))
      BY <1>1, <2>2, HeardNext
    <2>4. HeardAt(p, n) = 15 /\ HeardAt(p, n + 1) = 16 /\ SaidAt(p, n + 1) = SaidAt(p, n)
      BY <1>2, <2>1 DEF HeardAt, SaidAt
    <2>5. Spoken(Peer(p), 16) /\ 16 <= LastOwn(Peer(p))
      BY <1>2 DEF Spoken, Sends, Silent, Peer, LastOwn
    <2>6. Tr(LastAt(p, n + 1)) = Tr(LastAt(p, n))
      <3>1. n \in Nat /\ n + 1 \in Nat
        BY <2>1
      <3>2. LastAt(p, n) = 15 /\ LastAt(p, n + 1) = 16
        BY <1>2, <2>1, <3>1, LastClient12
      <3>3. MsgOf(16) = "ccs"
        BY <1>2 DEF MsgOf
      <3>4. Tr(16) = Tr(15)
        BY <3>3, TrSame
      <3> QED BY <3>2, <3>4
    <2>7. \A h, r : Item(Peer(p), 16, r) /\ Slot(Peer(p), h, r) = 16 => r.type = "ccs"
      BY <1>2 DEF Item, Slot, Peer
    <2> QED BY <2>2, <2>3, <2>4, <2>5, <2>6, <2>7 DEF Awaits
  <1>3. CASE Version = "12" /\ p = "server"
    <2>1. n = 20
      BY <1>3 DEF CcsHeardAt, Read12
    <2>2. Follows(p, n, n + 1) /\ n \in Places(p) /\ n + 1 \in Places(p)
      BY <1>3, <2>1 DEF Follows, EndPlace, Places
    <2>3. Alone(Peer(p), HeardAt(p, n + 1), HeardAt(p, n), HeardAt(p, n + 1))
      BY <1>1, <2>2, HeardNext
    <2>4. HeardAt(p, n) = 12 /\ HeardAt(p, n + 1) = 13 /\ SaidAt(p, n + 1) = SaidAt(p, n)
      BY <1>3, <2>1 DEF HeardAt, SaidAt
    <2>5. Spoken(Peer(p), 13) /\ 13 <= LastOwn(Peer(p))
      BY <1>3 DEF Spoken, Sends, Silent, Peer, LastOwn
    <2>6. Tr(LastAt(p, n + 1)) = Tr(LastAt(p, n))
      <3>1. n \in Nat /\ n + 1 \in Nat
        BY <2>1
      <3>2. LastAt(p, n) = 12 /\ LastAt(p, n + 1) = 13
        BY <1>3, <2>1, <3>1, LastServer12
      <3>3. MsgOf(13) = "ccs"
        BY <1>3 DEF MsgOf
      <3>4. Tr(13) = Tr(12)
        BY <3>3, TrSame
      <3> QED BY <3>2, <3>4
    <2>7. \A h, r : Item(Peer(p), 13, r) /\ Slot(Peer(p), h, r) = 13 => r.type = "ccs"
      BY <1>3 DEF Item, Slot, Peer
    <2> QED BY <2>2, <2>3, <2>4, <2>5, <2>6, <2>7 DEF Awaits
  <1>4. CASE Version = "12r" /\ p = "client"
    <2>1. n = 15
      BY <1>4 DEF CcsHeardAt, Read12
    <2>2. Follows(p, n, n + 1) /\ n \in Places(p) /\ n + 1 \in Places(p)
      BY <1>4, <2>1 DEF Follows, EndPlace, Places
    <2>3. Alone(Peer(p), HeardAt(p, n + 1), HeardAt(p, n), HeardAt(p, n + 1))
      BY <1>1, <2>2, HeardNext
    <2>4. HeardAt(p, n) = 5 /\ HeardAt(p, n + 1) = 13 /\ SaidAt(p, n + 1) = SaidAt(p, n)
      BY <1>4, <2>1 DEF HeardAt, SaidAt
    <2>5. Spoken(Peer(p), 13) /\ 13 <= LastOwn(Peer(p))
      BY <1>4 DEF Spoken, Sends, Silent, Peer, LastOwn
    <2>6. Tr(LastAt(p, n + 1)) = Tr(LastAt(p, n))
      <3>1. n \in Nat /\ n + 1 \in Nat
        BY <2>1
      <3>2. LastAt(p, n) = 5 /\ LastAt(p, n + 1) = 13
        BY <1>4, <2>1, <3>1, Last12r
      <3>3. \A k \in 6..12 : ~Sends("client", k) /\ ~Sends("server", k)
        BY <1>4 DEF Sends
      <3>4. MsgOf(13) = "ccs"
        BY <1>4 DEF MsgOf
      <3>5. \A s : \A k \in 6..13 : Extend(s, k) = s
        BY <3>3, <3>4 DEF Extend
      <3>6. Tr(13) = Tr(5)
        BY <3>5 DEF Tr, T6, T7, T8, T9, T10, T11, T12, T13
      <3> QED BY <3>2, <3>6
    <2>7. \A h, r : Item(Peer(p), 13, r) /\ Slot(Peer(p), h, r) = 13 => r.type = "ccs"
      BY <1>4 DEF Item, Slot, Peer
    <2> QED BY <2>2, <2>3, <2>4, <2>5, <2>6, <2>7 DEF Awaits
  <1>5. CASE Version = "12r" /\ p = "server"
    <2>1. n = 17
      BY <1>5 DEF CcsHeardAt, Read12
    <2>2. Follows(p, n, n + 1) /\ n \in Places(p) /\ n + 1 \in Places(p)
      BY <1>5, <2>1 DEF Follows, EndPlace, Places
    <2>3. Alone(Peer(p), HeardAt(p, n + 1), HeardAt(p, n), HeardAt(p, n + 1))
      BY <1>1, <2>2, HeardNext
    <2>4. HeardAt(p, n) = 4 /\ HeardAt(p, n + 1) = 15 /\ SaidAt(p, n + 1) = SaidAt(p, n)
      BY <1>5, <2>1 DEF HeardAt, SaidAt
    <2>5. Spoken(Peer(p), 15) /\ 15 <= LastOwn(Peer(p))
      BY <1>5 DEF Spoken, Sends, Silent, Peer, LastOwn
    <2>6. Tr(LastAt(p, n + 1)) = Tr(LastAt(p, n))
      <3>1. n \in Nat /\ n + 1 \in Nat
        BY <2>1
      <3>2. LastAt(p, n) = 14 /\ LastAt(p, n + 1) = 15
        BY <1>5, <2>1, <3>1, Last12r
      <3>3. MsgOf(15) = "ccs"
        BY <1>5 DEF MsgOf
      <3>4. Tr(15) = Tr(14)
        BY <3>3, TrSame
      <3> QED BY <3>2, <3>4
    <2>7. \A h, r : Item(Peer(p), 15, r) /\ Slot(Peer(p), h, r) = 15 => r.type = "ccs"
      BY <1>5 DEF Item, Slot, Peer
    <2> QED BY <2>2, <2>3, <2>4, <2>5, <2>6, <2>7 DEF Awaits
  <1> QED BY <1>1, <1>2, <1>3, <1>4, <1>5 DEF Ends, Three, CcsHeardAt

\* An optional message that does not come is followed by one that does.
AbsentMsg(n) == IF n \in {2, 12} THEN "HelloRetryRequest" ELSE "CertificateRequest"

\* Where an optional message does not come, the one after it is the next.
LEMMA AbsentAwaits ==
  ASSUME NEW p \in Ends, NEW n \in Nat, Setting, AbsentAt(p, n), ~SkipAt(p, n), n = 12 => mode.hrr
  PROVE  /\ Awaits(p, n, Instead(n)) /\ KeyOf(Instead(n)) = ReadKeyAt(p, n)
         /\ \A h, r : Item(Peer(p), Instead(n), r) /\ Slot(Peer(p), h, r) = Instead(n) =>
                r.type = "hs" /\ r.msg # AbsentMsg(n)
  <1>1. p = "client" /\ Peer(p) = "server" /\ Three /\ (Version # "13" => ~mode.hrr)
    BY DEF AbsentAt, Peer, Setting
  <1>2. CASE n \in {2, 12}
    <2>1. Instead(n) = 5 /\ AbsentMsg(n) = "HelloRetryRequest"
      BY <1>2 DEF Instead, AbsentMsg
    <2>2. Spoken("server", 5) /\ 5 <= LastOwn("server")
      BY <1>1 DEF Spoken, Sends, Silent, LastOwn, Three
    <2>3. n = 12 => mode.hrr /\ Version = "13"
      BY <1>1
    <2>4. n = 2 => ~mode.hrr
      BY <1>1 DEF AbsentAt
    <2>5. HeardAt("client", n) = (IF n = 12 THEN 2 ELSE 0)
      BY <1>1, <1>2, <2>3 DEF HeardAt, Three
    <2>6. Alone("server", 5, HeardAt("client", n), 5)
      <3>1. SUFFICES ASSUME NEW j \in 1..104, Spoken("server", j), HeardAt("client", n) < j, j <= 5 PROVE j = 5
        BY DEF Alone
      <3>2. CASE Version = "13"
        BY <1>2, <2>3, <2>4, <2>5, <3>1, <3>2 DEF Spoken, Sends, Silent
      <3>3. CASE Version # "13"
        BY <1>1, <1>2, <2>3, <2>4, <2>5, <3>1, <3>3 DEF Spoken, Sends, Silent, Three
      <3> QED BY <3>2, <3>3
    <2>7. KeyOf(5) = Plain /\ ReadKeyAt("client", n) = Plain
      BY <1>1, <1>2 DEF KeyOf, MsgOf, ReadKeyAt, Three, Read12
    <2>8. \A h, r : Item("server", 5, r) /\ Slot("server", h, r) = 5 => r.type = "hs" /\ r.msg = "ServerHello"
      <3>1. CASE Version = "13"
        BY <3>1 DEF Item, Slot
      <3>2. CASE Version = "12"
        BY <3>2 DEF Item, Slot
      <3>3. CASE Version = "12r"
        BY <3>3 DEF Item, Slot
      <3> QED BY <1>1, <3>1, <3>2, <3>3 DEF Three
    <2>9. HeardAt("client", n) < 5
      BY <2>5
    <2> QED BY <1>1, <2>1, <2>2, <2>6, <2>7, <2>8, <2>9 DEF Awaits
  <1>3. CASE Version = "13" /\ n = 19
    <2>1. Instead(n) = 11 /\ AbsentMsg(n) = "CertificateRequest"
      BY <1>3 DEF Instead, AbsentMsg
    <2>2. ~Psk /\ ~Asked
      BY <1>1, <1>3 DEF AbsentAt, SkipAt
    <2>3. Spoken("server", 11) /\ 11 <= LastOwn("server")
      BY <1>3, <2>2 DEF Spoken, Sends, Silent, LastOwn
    <2>4. HeardAt("client", n) = 9
      BY <1>3 DEF HeardAt
    <2>5. Alone("server", 11, 9, 11)
      BY <1>3, <2>2 DEF Alone, Spoken, Sends
    <2>6. KeyOf(11) = HsK /\ ReadKeyAt("client", n) = HsK
      BY <1>3 DEF KeyOf, ReadKeyAt
    <2>7. \A h, r : Item("server", 11, r) /\ Slot("server", h, r) = 11 => r.type = "hs" /\ r.msg = "Certificate"
      BY <1>3 DEF Item, Slot
    <2>8. HeardAt("client", n) < 11
      BY <2>4
    <2> QED BY <1>1, <2>1, <2>3, <2>4, <2>5, <2>6, <2>7, <2>8 DEF Awaits
  <1>4. CASE Version = "12" /\ n = 16
    <2>1. Instead(n) = 9 /\ AbsentMsg(n) = "CertificateRequest"
      BY <1>4 DEF Instead, AbsentMsg
    <2>2. ~mode.cr
      BY <1>1, <1>4 DEF AbsentAt
    <2>3. Spoken("server", 9) /\ 9 <= LastOwn("server")
      BY <1>4, <2>2 DEF Spoken, Sends, Silent, LastOwn
    <2>4. HeardAt("client", n) = 7
      BY <1>4 DEF HeardAt
    <2>5. Alone("server", 9, 7, 9)
      BY <1>4, <2>2 DEF Alone, Spoken, Sends
    <2>6. KeyOf(9) = Plain /\ ReadKeyAt("client", n) = Plain
      BY <1>4 DEF KeyOf, ReadKeyAt, MsgOf, Read12
    <2>7. \A h, r : Item("server", 9, r) /\ Slot("server", h, r) = 9 => r.type = "hs" /\ r.msg = "ServerHelloDone"
      BY <1>4 DEF Item, Slot
    <2>8. HeardAt("client", n) < 9
      BY <2>4
    <2> QED BY <1>1, <2>1, <2>3, <2>4, <2>5, <2>6, <2>7, <2>8 DEF Awaits
  <1> QED BY <1>1, <1>2, <1>3, <1>4 DEF AbsentAt

\* Where an endpoint waits for a message.
Goes(p, n) == IF p = "client" /\ n = 2 THEN 11 ELSE IF p = "client" /\ n = 3 THEN 14
              ELSE IF p = "server" /\ n = 1 THEN 12 ELSE n + 1

\* Where an endpoint waits.
LEMMA HearWhere ==
  ASSUME NEW p \in Ends, NEW e, NEW o, Ready(p, e, o), ~Past(e), At(p, e).op = "recv", ~Skips(p, e, At(p, e))
  PROVE  LET n == Place(e)
             msg == At(p, e).msg
         IN  /\ ~e.again /\ n \in Nat /\ n \in Places(p) /\ Stands(p, e, n)
             /\ \/ HearAt(p, n, Goes(p, n), msg)
                \/ AbsentAt(p, n) /\ ~SkipAt(p, n) /\ (n = 12 => mode.hrr) /\ msg = AbsentMsg(n)
             /\ e.prog = "start" => e.q = <<>>
  <1>1. Versions /\ Setting /\ Local(p, e) /\ HereOK(p, e) /\ Three
    BY DEF Ready, Setting
  <1>2. ~e.again
    BY <1>1 DEF Local, At
  <1>3. e.prog \in {"start", "13", "12", "12r"} /\ e.prog # "none"
    BY DEF Past
  <1> DEFINE n == Place(e)
             msg == At(p, e).msg
             rest == /\ ~e.again /\ n \in Nat /\ n \in Places(p) /\ Stands(p, e, n)
                     /\ \/ HearAt(p, n, Goes(p, n), msg)
                        \/ AbsentAt(p, n) /\ ~SkipAt(p, n) /\ (n = 12 => mode.hrr) /\ msg = AbsentMsg(n)
                     /\ e.prog = "start" => e.q = <<>>
  <1>13. n = Place(e) /\ msg = At(p, e).msg
    OBVIOUS
  <1> SUFFICES rest
    OBVIOUS
  <1> HIDE DEF n, msg
  <1>4. CASE e.prog = "start" /\ p = "client"
    <2>1. /\ Retried(e) => mode.hrr /\ n = Reach(e) + 10
          /\ ~Retried(e) => n = Reach(e)
          /\ Stands("client", e, n) /\ n \in Places("client")
          /\ n # 3 \/ ~mode.hrr
          /\ e.q = <<>>
      BY <1>1, <1>4, <1>13, StartClient
    <2>2. (e.pc = 2 /\ msg = "HelloRetryRequest") \/ (e.pc = 3 /\ msg = "ServerHello")
      BY <1>1, <1>3, <1>4, <1>13, RecvPositions
    <2>3. Reach(e) = e.pc
      BY <1>2 DEF Reach
    <2>4. Version # "13" => ~mode.hrr
      BY <1>1 DEF Setting
    <2>5. CASE Retried(e)
      <3>1. Version = "13" /\ mode.hrr /\ n = e.pc + 10
        BY <2>1, <2>3, <2>4, <2>5
      <3>2. CASE e.pc = 2
        BY <1>2, <1>4, <2>1, <2>2, <3>1, <3>2 DEF AbsentAt, AbsentMsg, SkipAt
      <3>3. CASE e.pc = 3
        BY <1>2, <1>4, <2>1, <2>2, <3>1, <3>3 DEF HearAt, Goes
      <3> QED BY <2>2, <3>2, <3>3
    <2>6. CASE ~Retried(e)
      <3>1. n = e.pc
        BY <2>1, <2>3, <2>6
      <3>2. CASE e.pc = 2 /\ mode.hrr
        BY <1>2, <1>4, <2>1, <2>2, <2>4, <3>1, <3>2 DEF HearAt, Goes
      <3>3. CASE e.pc = 2 /\ ~mode.hrr
        BY <1>1, <1>2, <1>4, <2>1, <2>2, <3>1, <3>3 DEF AbsentAt, AbsentMsg, SkipAt, Three
      <3>4. CASE e.pc = 3
        BY <1>1, <1>2, <1>4, <2>1, <2>2, <3>1, <3>4 DEF HearAt, Goes, Three
      <3> QED BY <2>2, <3>2, <3>3, <3>4
    <2> QED BY <2>5, <2>6
  <1>5. CASE e.prog = "start" /\ p = "server"
    <2>1. n = 1 /\ Stands("server", e, n) /\ e.q = <<>>
      BY <1>1, <1>5, <1>13, StartServer
    <2>2. msg = "ClientHello"
      BY <1>1, <1>3, <1>5, <1>13, RecvPositions
    <2> QED BY <1>1, <1>2, <1>5, <2>1, <2>2 DEF HearAt, Goes, Places, Three
  <1>6. ASSUME e.prog \in {"13", "12", "12r"}
        PROVE  /\ e.prog = Version /\ e.pc \in Nat /\ n = e.pc + 10 /\ n \in Places(p) /\ Stands(p, e, n)
               /\ ~(p = "server" /\ e.pc \in {17, 23}) => ~SkipAt(p, e.pc + 10)
    <2>1. /\ e.prog = Version /\ e.pc \in Nat /\ n = e.pc + 10 /\ n \in Places(p) /\ Stands(p, e, n)
      BY <1>1, <1>2, <1>6, <1>13, EnginePlace
    <2>2. ~(p = "server" /\ e.pc \in {17, 23}) => ~SkipAt(p, e.pc + 10)
      BY <1>2, <1>6, NotSkipped
    <2> QED BY <2>1, <2>2
  <1>7. CASE e.prog = "13" /\ p = "client"
    <2>1. \/ e.pc = 8 /\ msg = "EncryptedExtensions"
          \/ e.pc = 9 /\ msg = "CertificateRequest"
          \/ e.pc = 10 /\ msg = "Certificate"
          \/ e.pc = 11 /\ msg = "CertificateVerify"
          \/ e.pc = 12 /\ msg = "Finished"
      BY <1>1, <1>3, <1>7, <1>13, RecvPositions
    <2>2. Version = "13" /\ n = e.pc + 10 /\ n \in Places(p) /\ Stands(p, e, n) /\ ~SkipAt(p, n)
      BY <1>6, <1>7
    <2>3. CASE e.pc = 9 /\ ~Asked
      <3>1. AbsentAt(p, n) /\ msg = AbsentMsg(n) /\ n # 12 /\ n \in Nat
        BY <1>7, <2>1, <2>2, <2>3 DEF AbsentAt, AbsentMsg
      <3> QED BY <1>2, <1>7, <2>2, <3>1
    <2>4. CASE ~(e.pc = 9 /\ ~Asked)
      <3>1. HearAt(p, n, Goes(p, n), msg) /\ n \in Nat
        BY <1>7, <2>1, <2>2, <2>4 DEF HearAt, Goes, SkipAt
      <3> QED BY <1>2, <1>7, <2>2, <3>1
    <2> QED BY <2>3, <2>4
  <1>8. CASE e.prog = "13" /\ p = "server"
    <2>1. \/ e.pc = 5 /\ msg = "ClientHello"
          \/ e.pc = 14 /\ msg = "EndOfEarlyData"
          \/ e.pc = 19 /\ msg = "Certificate"
          \/ e.pc = 20 /\ msg = "CertificateVerify"
          \/ e.pc = 21 /\ msg = "Finished"
      BY <1>1, <1>3, <1>8, <1>13, RecvPositions
    <2>2. Version = "13" /\ n = e.pc + 10 /\ n \in Places(p) /\ Stands(p, e, n) /\ ~SkipAt(p, n)
      BY <1>6, <1>8, <2>1
    <2>3. HearAt(p, n, Goes(p, n), msg) /\ n \in Nat
      BY <1>8, <2>1, <2>2 DEF HearAt, Goes, SkipAt
    <2> QED BY <1>2, <1>8, <2>2, <2>3
  <1>9. CASE e.prog = "12" /\ p = "client"
    <2>1. \/ e.pc = 4 /\ msg = "Certificate"
          \/ e.pc = 5 /\ msg = "ServerKeyExchange"
          \/ e.pc = 6 /\ msg = "CertificateRequest"
          \/ e.pc = 7 /\ msg = "ServerHelloDone"
          \/ e.pc = 15 /\ msg = "NewSessionTicket"
          \/ e.pc = 17 /\ msg = "Finished"
      BY <1>1, <1>3, <1>9, <1>13, RecvPositions
    <2>2. Version = "12" /\ n = e.pc + 10 /\ n \in Places(p) /\ Stands(p, e, n) /\ ~SkipAt(p, n)
      BY <1>6, <1>9
    <2>3. CASE e.pc = 6 /\ ~mode.cr
      <3>1. AbsentAt(p, n) /\ msg = AbsentMsg(n) /\ n # 12 /\ n \in Nat
        BY <1>9, <2>1, <2>2, <2>3 DEF AbsentAt, AbsentMsg
      <3> QED BY <1>2, <1>9, <2>2, <3>1
    <2>4. CASE ~(e.pc = 6 /\ ~mode.cr)
      <3>1. HearAt(p, n, Goes(p, n), msg) /\ n \in Nat
        BY <1>9, <2>1, <2>2, <2>4 DEF HearAt, Goes, SkipAt
      <3> QED BY <1>2, <1>9, <2>2, <3>1
    <2> QED BY <2>3, <2>4
  <1>10. CASE e.prog = "12" /\ p = "server"
    <2>1. \/ e.pc = 7 /\ msg = "Certificate"
          \/ e.pc = 8 /\ msg = "ClientKeyExchange"
          \/ e.pc = 9 /\ msg = "CertificateVerify"
          \/ e.pc = 11 /\ msg = "Finished"
      BY <1>1, <1>3, <1>10, <1>13, RecvPositions
    <2>2. Version = "12" /\ n = e.pc + 10 /\ n \in Places(p) /\ Stands(p, e, n) /\ ~SkipAt(p, n)
      BY <1>6, <1>10, <2>1
    <2>3. HearAt(p, n, Goes(p, n), msg) /\ n \in Nat
      BY <1>10, <2>1, <2>2 DEF HearAt, Goes, SkipAt
    <2> QED BY <1>2, <1>10, <2>2, <2>3
  <1>11. CASE e.prog = "12r"
    <2>1. /\ p = "client" => (e.pc = 4 /\ msg = "NewSessionTicket") \/ (e.pc = 6 /\ msg = "Finished")
          /\ p = "server" => e.pc = 8 /\ msg = "Finished"
      BY <1>1, <1>3, <1>11, <1>13, RecvPositions
    <2>2. Version = "12r" /\ n = e.pc + 10 /\ n \in Places(p) /\ Stands(p, e, n) /\ ~SkipAt(p, n)
      BY <1>6, <1>11, <2>1 DEF Ends
    <2>3. HearAt(p, n, Goes(p, n), msg) /\ n \in Nat
      BY <1>11, <2>1, <2>2 DEF HearAt, Goes, SkipAt, Ends
    <2> QED BY <1>2, <1>11, <2>2, <2>3
  <1> QED BY <1>3, <1>4, <1>5, <1>7, <1>8, <1>9, <1>10, <1>11 DEF Ends

\* Where an endpoint waits for the change cipher spec of TLS 1.2.
LEMMA CcsHeardWhere ==
  ASSUME NEW p \in Ends, NEW e, NEW o, Ready(p, e, o), e.prog # "none", At(p, e).op = "recvccs"
  PROVE  /\ ~e.again /\ e.prog \in {"12", "12r"} /\ e.pc = Read12(p, e.prog) /\ e.prog = Version
         /\ Place(e) = e.pc + 10 /\ CcsHeardAt(p, e.pc + 10) /\ e.pc \in Nat /\ ~Past(e)
  <1>1. Versions /\ Setting /\ Local(p, e) /\ HereOK(p, e)
    BY DEF Ready, Setting
  <1>2. ~e.again
    BY <1>1 DEF Local, At
  <1>3. e.prog \in {"12", "12r"} /\ e.pc = Read12(p, e.prog)
    BY <1>1, RecvPositions
  <1>4. e.prog = Version /\ e.pc \in Nat /\ Place(e) = e.pc + 10 /\ ~Past(e)
    BY <1>1, <1>2, <1>3, EnginePlace
  <1> QED BY <1>2, <1>3, <1>4 DEF CcsHeardAt

-----------------------------------------------------------------------------
(* The record in front.                                                      *)

\* Both endpoints before p reads.
Meet(p, e, o) == Ready(p, e, o) /\ Local(Peer(p), o) /\ HereOK(Peer(p), o)

\* The record leaves the wire.
LEMMA WireTaken ==
  ASSUME NEW p \in Ends, NEW e, NEW o, Meet(p, e, o), o.wire # <<>>
  PROVE  LET h == [o EXCEPT !.wire = Tail(@)]
             q == Peer(p)
         IN  /\ Local(q, h) /\ HereOK(q, h) /\ Fit(q, h) /\ Taken(p, o, h)
             /\ Unread(o)[1] = Head(o.wire)
             /\ Item(q, FirstNo(p, o), Head(o.wire))
             /\ Head(o.wire).type = "hs" => Head(o.wire) \in Sent(o)
             /\ FirstNo(p, o) = Slot(q, First1(q, o), Head(o.wire))
             /\ FirstNo(p, o) \in Nat
  <1> DEFINE h == [o EXCEPT !.wire = Tail(@)]
             q == Peer(p)
  <1>1. Setting /\ Local(q, o) /\ HereOK(q, o) /\ Versions /\ q \in Ends /\ Talk(p, e, o)
    BY PeerEnds DEF Meet, Ready, Setting
  <1>2. DOMAIN o = Fields /\ Buffers(o)
    BY <1>1 DEF Local, Core, Control, ItemsOK, Buffers
  <1>3. Good(q, o, h) /\ (Head(o.wire).type = "hs" => Head(o.wire) \in Sent(o))
    BY <1>1, TakenGood
  <1>4. Local(q, h)
    BY <1>3 DEF Good
  <1>5. /\ h.wire = Tail(o.wire) /\ h.out = o.out /\ h.q = o.q /\ SameRest(o, h) /\ Aux(o, h)
    BY <1>2 DEF SameRest, SameControl, SameEpochs, SameSecrets, Aux, Fields
  <1> HIDE DEF h
  <1>6. HereOK(q, h) /\ Alike(o, h)
    BY <1>1, <1>5, HereAlike
  <1>7. Unread(o) # <<>> /\ Unread(h) = Tail(Unread(o)) /\ Unread(o)[1] = Head(o.wire) /\ Buffers(h)
    BY <1>2, <1>5, UnreadTail DEF SameRest, SameEpochs
  <1>8. Said(q, h) = Said(q, o) /\ HeardTo(q, h) = HeardTo(q, o) /\ First1(q, h) = First1(q, o)
    BY <1>6, AlikeSaid, Zenon
  <1>9. Consumed(p, o, h)
    BY <1>2, <1>7, <1>8 DEF Consumed
  <1>10. Taken(p, o, h)
    BY <1>5, <1>8, <1>9 DEF Taken, Aux
  <1>11. Fit(q, h)
    BY <1>1, <1>4, <1>6, FitOf
  <1>12. Items(q, o)
    BY <1>1 DEF Talk, Flow
  <1>13. Item(q, FirstNo(p, o), Unread(o)[1])
    BY <1>9, <1>12, ItemLess
  <1>14. FirstNo(p, o) = Slot(q, First1(q, o), Head(o.wire))
    BY <1>7 DEF FirstNo
  <1>15. FirstNo(p, o) \in Nat
    BY <1>14, SlotNat
  <1> QED BY <1>3, <1>4, <1>6, <1>7, <1>10, <1>11, <1>13, <1>14, <1>15 DEF h

\* An endpoint that waits for k finds it, or something it takes in silence.
LEMMA FirstFound ==
  ASSUME NEW p \in Ends, NEW e, NEW o, NEW k, Meet(p, e, o), ~Past(e), o.wire # <<>>, Awaits(p, Place(e), k)
  PROVE  LET f == FirstNo(p, o)
             q == Peer(p)
         IN  f = k \/ (Silent(f) /\ f < k /\ Pending(q, f, HeardAt(p, Place(e))) /\ Sends(q, f))
  <1> DEFINE q == Peer(p)
             K == Slots(q, o)
             a == HeardTo(p, e)
             b == Said(q, o)
             h == [o EXCEPT !.wire = Tail(@)]
  <1>1. Setting /\ Versions /\ q \in Ends /\ Flow(q, o, e) /\ Fit(q, o) /\ Local(p, e) /\ HereOK(p, e)
    BY PeerEnds DEF Meet, Ready, Setting, Talk
  <1>2. Fit(p, e)
    BY <1>1, FitOf
  <1>3. a \in 0..104 /\ b \in 0..104
    BY <1>1, <1>2 DEF Fit, Ranged
  <1>4. Consumed(p, o, h)
    BY WireTaken DEF Taken
  <1>5. K \in Seq(Nat) /\ K # <<>> /\ K[1] = FirstNo(p, o)
    BY <1>4, SlotsLess
  <1>6. a = HeardAt(p, Place(e))
    BY DEF HeardTo
  <1>7. Peer(q) = p
    BY PeerEnds
  <1>8. Line(q, K, a, b)
    BY <1>1, PeerEnds DEF Flow
  <1>9. Spoken(q, k) /\ a < k /\ k \in 1..17 /\ k <= LastOwn(q) /\ Alone(q, k, a, k)
    BY <1>6 DEF Awaits
  <1> HIDE DEF K, a, b, h, q
  <1>10. k \in 1..104 /\ k < 100
    BY <1>9, SMTT(40)
  <1>11. K[1] = k \/ Silent(K[1])
    BY <1>1, <1>3, <1>5, <1>8, <1>9, <1>10, FirstOf, ZenonT(40)
  <1>12. Silent(K[1]) => K[1] < k /\ Pending(q, K[1], a) /\ Sends(q, K[1])
    BY <1>1, <1>3, <1>5, <1>8, <1>9, <1>10, FirstSilent
  <1> QED BY <1>5, <1>6, <1>11, <1>12 DEF q

-----------------------------------------------------------------------------
(* What a message does.                                                      *)

\* The flags after message r.
Gained(e, r) ==
    CASE r.msg = "ClientHello" -> e.flags \cup HelloFlags(e, r.info)
      [] r.msg \in {"ServerHello", "EncryptedExtensions"} -> e.flags \cup r.info
      [] r.msg = "CertificateRequest" -> e.flags \cup {"crt_asked"}
      [] r.msg = "Certificate" -> e.flags \cup CertFlags(r.info)
      [] r.msg = "EndOfEarlyData" -> e.flags \ {"in_flight"}
      [] OTHER -> e.flags

\* Whether a Finished ends the handshake at once.
Ends12(e, r) == r.msg = "Finished" /\ e.prog \in {"12", "12r"}

\* What message r makes of e, besides what Heard says.
Turned(p, e, f, r) ==
    /\ f.flags = Gained(e, r)
    /\ f.started = e.started /\ f.sent = e.sent /\ f.got = e.got /\ f.auths = e.auths /\ f.extra = e.extra
    /\ f.done = e.done \/ Ends12(e, r)
    /\ r.msg = "ServerHello" => f.psk = (Has(e, "in_flight") \/ "psk_selected" \in r.info \/ Version = "12r")
    /\ r.msg = "NewSessionTicket" /\ e.prog \in {"12", "12r"} => f.tr = Append(e.tr, <<Peer(p), r.msg>>)

\* All that a message does.
LEMMA ProcessTurns ==
  ASSUME NEW p, NEW e, NEW r, DOMAIN e = Fields, r.msg = "Finished" => r.ctx = e.tr
  PROVE  Turned(p, e, Process(p, e, r), r)
  <1> DEFINE t == Append(e.tr, <<Peer(p), r.msg>>)
             f == IF Unhashed(e, r.msg) THEN e ELSE [e EXCEPT !.tr = t]
             g == Process(p, e, r)
             hf == HelloFlags(e, r.info)
             cf == CertFlags(r.info)
             sy == <<Synthetic, <<"server", r.msg>>>>
             k == Has(e, "in_flight") \/ "psk_selected" \in r.info \/ Version = "12r"
  <1>1. g = CASE r.msg = "ClientHello" -> [f EXCEPT !.flags = @ \cup hf, !.prog = Version]
              [] r.msg = "HelloRetryRequest" -> [f EXCEPT !.tr = sy, !.pc = 0]
              [] r.msg = "ServerHello" ->
                   [f EXCEPT !.flags = @ \cup r.info, !.prog = Version, !.mark = f.tr, !.psk = k]
              [] r.msg = "EncryptedExtensions" -> [f EXCEPT !.flags = @ \cup r.info]
              [] r.msg = "CertificateRequest"  -> [f EXCEPT !.flags = @ \cup {"crt_asked"}]
              [] r.msg = "Certificate"         -> [f EXCEPT !.flags = @ \cup cf]
              [] r.msg = "ClientKeyExchange"   -> [f EXCEPT !.mark = f.tr]
              [] r.msg = "EndOfEarlyData"      -> [f EXCEPT !.flags = @ \ {"in_flight"}]
              [] r.msg = "Finished" ->
                   IF r.ctx # e.tr THEN Fail(e, "finished")
                   ELSE IF e.prog = "13" /\ p = "client" THEN [f EXCEPT !.mark = f.tr]
                   ELSE IF e.prog \in {"12", "12r"} THEN [f EXCEPT !.done = TRUE] ELSE f
              [] OTHER -> f
    BY DEF Process
  <1>2. Gained(e, r) = CASE r.msg = "ClientHello" -> e.flags \cup hf
              [] r.msg \in {"ServerHello", "EncryptedExtensions"} -> e.flags \cup r.info
              [] r.msg = "CertificateRequest" -> e.flags \cup {"crt_asked"}
              [] r.msg = "Certificate" -> e.flags \cup cf
              [] r.msg = "EndOfEarlyData" -> e.flags \ {"in_flight"}
              [] OTHER -> e.flags
    BY DEF Gained
  <1>3. r.msg = "NewSessionTicket" /\ e.prog \in {"12", "12r"} => ~Unhashed(e, r.msg)
    BY DEF Unhashed
  <1>4. k = (Has(e, "in_flight") \/ "psk_selected" \in r.info \/ Version = "12r")
    OBVIOUS
  <1> HIDE DEF t, hf, cf, sy, k
  <1>5. /\ DOMAIN f = Fields /\ f.flags = e.flags /\ Aux(e, f) /\ (~Unhashed(e, r.msg) => f.tr = t)
    BY DEF Fields, Aux
  <1> HIDE DEF f, g
  <1>6. g.flags = Gained(e, r)
    BY <1>1, <1>2, <1>5 DEF Fields
  <1>7. /\ g.started = e.started /\ g.sent = e.sent /\ g.got = e.got /\ g.auths = e.auths /\ g.extra = e.extra
        /\ g.done = e.done \/ Ends12(e, r)
    BY <1>1, <1>5 DEF Fields, Aux, Ends12
  <1>8. r.msg = "ServerHello" => g.psk = k
    BY <1>1, <1>5 DEF Fields
  <1>9. r.msg = "NewSessionTicket" /\ e.prog \in {"12", "12r"} => g.tr = t
    BY <1>1, <1>3, <1>5 DEF Fields
  <1>10. Turned(p, e, g, r)
    BY <1>4, <1>6, <1>7, <1>8, <1>9 DEF Turned, t
  <1> QED BY <1>10 DEF g

\* The wait for early data that is not accepted ends with the next message.
Quits(p, e) == p = "server" /\ Has(e, "in_flight") /\ ~Has(e, "accepted")
After(p, e) == IF Quits(p, e) THEN e.flags \ {"in_flight"} ELSE e.flags

\* The flags of the client that read a message.
LEMMA HearFlagsClient ==
  ASSUME NEW e, NEW d, NEW g, NEW r, NEW n \in Nat, NEW m \in Nat, NEW msg, Setting, HearAt("client", n, m, msg),
         FlagsAt("client", e, n), d.flags = e.flags, r.msg = msg, r.info = InfoOf("server", HeardAt("client", m)),
         g.flags = Gained(d, r)
  PROVE  FlagsAt("client", g, m)
  <1>1. ClientFlags(e, n)
    BY DEF FlagsAt
  <1> SUFFICES ClientFlags(g, m)
    BY DEF FlagsAt
  <1>2. CASE msg = "ServerHello"
    <2>1. m = 14 /\ HeardAt("client", m) = 5 /\ n \in {3, 13}
      BY <1>2, HearNumbers DEF HearAt, Ends, Setting, Three
    <2>2. g.flags = e.flags \cup r.info
      BY <1>2 DEF Gained
    <2>3. \A x : x \in r.info <=> \/ x = "psk_selected" /\ Version = "13" /\ Psk
                                  \/ x = "renew" /\ Version = "12" /\ mode.tickets
      BY <2>1 DEF InfoOf
    <2>4. Has(g, "psk_selected") <=> Has(e, "psk_selected") \/ (Version = "13" /\ Psk)
      BY <2>2, <2>3 DEF Has
    <2>5. Has(g, "renew") <=> Has(e, "renew") \/ (Version = "12" /\ mode.tickets)
      BY <2>2, <2>3 DEF Has
    <2>6. /\ Has(g, "in_flight") <=> Has(e, "in_flight")
          /\ Has(g, "accepted") <=> Has(e, "accepted")
          /\ Has(g, "crt_asked") <=> Has(e, "crt_asked")
          /\ Has(g, "crt_vrfy_expected") <=> Has(e, "crt_vrfy_expected")
      BY <2>2, <2>3 DEF Has
    <2> QED BY <1>1, <2>1, <2>4, <2>5, <2>6 DEF ClientFlags
  <1>3. CASE msg = "EncryptedExtensions"
    <2>1. m = 19 /\ MsgOf(HeardAt("client", m)) = msg /\ HeardAt("client", m) \in 5..17 /\ n = 18 /\ Version = "13"
      BY <1>3, HearNumbers DEF HearAt, Ends
    <2>2. g.flags = e.flags \cup r.info
      BY <1>3 DEF Gained
    <2>3. HeardAt("client", m) = 9
      BY <2>1 DEF HeardAt
    <2>4. \A x : x \in r.info <=> x = "accepted" /\ EarlyTaken
      BY <1>3, <2>1, <2>3 DEF InfoOf
    <2>5. Has(g, "accepted") <=> Has(e, "accepted") \/ EarlyTaken
      BY <2>2, <2>4 DEF Has
    <2>6. /\ Has(g, "in_flight") <=> Has(e, "in_flight")
          /\ Has(g, "psk_selected") <=> Has(e, "psk_selected")
          /\ Has(g, "renew") <=> Has(e, "renew")
          /\ Has(g, "crt_asked") <=> Has(e, "crt_asked")
          /\ Has(g, "crt_vrfy_expected") <=> Has(e, "crt_vrfy_expected")
      BY <2>2, <2>4 DEF Has
    <2> QED BY <1>1, <2>1, <2>5, <2>6 DEF ClientFlags
  <1>4. CASE msg = "CertificateRequest"
    <2>1. (Version = "13" /\ n = 19 /\ m = 20 /\ Asked) \/ (Version = "12" /\ n = 16 /\ m = 17 /\ mode.cr)
      BY <1>4 DEF HearAt
    <2>2. g.flags = e.flags \cup {"crt_asked"}
      BY <1>4 DEF Gained
    <2>3. Has(g, "crt_asked")
      BY <2>2 DEF Has
    <2>4. /\ Has(g, "in_flight") <=> Has(e, "in_flight")
          /\ Has(g, "accepted") <=> Has(e, "accepted")
          /\ Has(g, "psk_selected") <=> Has(e, "psk_selected")
          /\ Has(g, "renew") <=> Has(e, "renew")
          /\ Has(g, "crt_vrfy_expected") <=> Has(e, "crt_vrfy_expected")
      BY <2>2 DEF Has
    <2> QED BY <1>1, <2>1, <2>3, <2>4 DEF ClientFlags
  <1>5. CASE msg = "Certificate"
    <2>1. (Version = "13" /\ n = 20 /\ m = 21 /\ ~Psk) \/ (Version = "12" /\ n = 14 /\ m = 15)
      BY <1>5 DEF HearAt
    <2>2. g.flags = e.flags \cup CertFlags(r.info)
      BY <1>5 DEF Gained
    <2>3. MsgOf(HeardAt("client", m)) = "Certificate" /\ HeardAt("client", m) \in 5..17
      BY <1>5, HearNumbers DEF Ends
    <2>4. HeardAt("client", m) # 5
      BY <2>1 DEF HeardAt
    <2>5. "cert" \in r.info
      BY <2>3, <2>4 DEF InfoOf
    <2>6. Has(g, "crt_vrfy_expected")
      BY <2>2, <2>5 DEF Has, CertFlags
    <2>7. /\ Has(g, "in_flight") <=> Has(e, "in_flight")
          /\ Has(g, "accepted") <=> Has(e, "accepted")
          /\ Has(g, "psk_selected") <=> Has(e, "psk_selected")
          /\ Has(g, "renew") <=> Has(e, "renew")
          /\ Has(g, "crt_asked") <=> Has(e, "crt_asked")
      BY <2>2, <2>5 DEF Has, CertFlags
    <2> QED BY <1>1, <2>1, <2>6, <2>7 DEF ClientFlags
  <1>6. CASE msg \notin {"ServerHello", "EncryptedExtensions", "CertificateRequest", "Certificate"}
    <2>1. msg \notin {"ClientHello", "EndOfEarlyData"}
      BY DEF HearAt
    <2>2. g.flags = e.flags
      BY <1>6, <2>1 DEF Gained
    <2>3. ~FlagStep("client", n)
      BY <1>6 DEF HearAt, FlagStep, Setting, Three
    <2>4. n \in Places("client") /\ (Follows("client", n, m) \/ Jumps("client", n, m)) /\ "client" \in Ends
      BY HearPlaces DEF Ends
    <2> QED BY <2>2, <2>3, <2>4, FlagsStay DEF FlagsAt
  <1> QED BY <1>2, <1>3, <1>4, <1>5, <1>6

\* The flags of the server that read a message.
LEMMA HearFlagsServer ==
  ASSUME NEW e, NEW d, NEW g, NEW r, NEW n \in Nat, NEW m \in Nat, NEW msg, Setting, HearAt("server", n, m, msg),
         FlagsAt("server", e, n), d.flags = After("server", e), r.msg = msg,
         r.info = InfoOf("client", HeardAt("server", m)), g.flags = Gained(d, r)
  PROVE  FlagsAt("server", g, m)
  <1>1. ServerFlags(e, n)
    BY DEF FlagsAt
  <1> SUFFICES ServerFlags(g, m)
    BY DEF FlagsAt
  <1>0. \A x \in Told8 \ {"in_flight"} : Has(d, x) <=> Has(e, x)
    BY DEF Has, After, Told8
  <1>2. CASE msg = "ClientHello"
    <2>1. (n = 1 /\ m = 12) \/ (n = 15 /\ m = 16 /\ Version = "13" /\ mode.hrr)
      BY <1>2 DEF HearAt, Setting, Three
    <2>2. HeardAt("server", m) \in {1, 4}
      BY <1>2, HearNumbers DEF Ends
    <2>3. "early" \in r.info <=> EarlySent
      BY <2>2 DEF InfoOf
    <2>4. g.flags = d.flags \cup HelloFlags(d, r.info)
      BY <1>2 DEF Gained
    <2>5. Has(d, "hrr_sent") <=> n = 15
      BY <1>0, <1>1, <2>1 DEF ServerFlags, Told8
    <2>6. Has(g, "in_flight") <=> EarlySent
      <3>1. Has(e, "in_flight") => EarlySent
        BY <1>1 DEF ServerFlags
      <3>2. Has(d, "in_flight") => Has(e, "in_flight")
        BY DEF Has, After
      <3> QED BY <2>3, <2>4, <3>1, <3>2 DEF HelloFlags, Has
    <2>7. Has(g, "accepted") <=> EarlyTaken
      <3>1. Has(d, "accepted") => EarlyTaken
        BY <1>0, <1>1 DEF ServerFlags, Told8
      <3>2. "accepted" \in HelloFlags(d, r.info) <=> "early" \in r.info /\ mode.early = "accepted" /\ ~Has(d, "hrr_sent")
        BY DEF HelloFlags
      <3>3. EarlyTaken => EarlySent /\ ~mode.hrr
        BY DEF Setting
      <3> QED BY <2>1, <2>3, <2>4, <2>5, <3>1, <3>2, <3>3 DEF Has, EarlyTaken
    <2>8. Has(g, "psk_selected") <=> Version = "13" /\ Psk
      <3>1. Has(d, "psk_selected") => Version = "13" /\ Psk
        BY <1>0, <1>1 DEF ServerFlags, Told8
      <3>2. "psk_selected" \in HelloFlags(d, r.info) <=> mode.vers = 13 /\ Psk
        BY DEF HelloFlags, Psk
      <3> QED BY <2>4, <3>1, <3>2 DEF Has, Setting
    <2>9. Has(g, "renew") <=> Version = "12" /\ mode.tickets
      <3>1. Has(d, "renew") => Version = "12" /\ mode.tickets
        BY <1>0, <1>1 DEF ServerFlags, Told8
      <3>2. "renew" \in HelloFlags(d, r.info) <=> mode.vers = 12 /\ mode.tickets /\ ~Psk
        BY DEF HelloFlags, Psk
      <3>3. mode.vers = 12 /\ ~Psk <=> Version = "12"
        BY DEF Setting, Version, Psk, Versions, Three
      <3> QED BY <2>4, <3>1, <3>2, <3>3 DEF Has
    <2>10. Has(g, "hrr_sent") <=> mode.hrr
      <3>1. Has(d, "hrr_sent") => mode.hrr
        BY <1>0, <1>1 DEF ServerFlags, Told8
      <3>2. "hrr_sent" \in HelloFlags(d, r.info) <=> mode.hrr
        BY DEF HelloFlags
      <3> QED BY <2>4, <3>1, <3>2 DEF Has
    <2>11. ~Has(g, "crt_vrfy_expected")
      <3>1. ~Has(d, "crt_vrfy_expected")
        BY <1>0, <1>1, <2>1 DEF ServerFlags, Told8
      <3>2. "crt_vrfy_expected" \notin HelloFlags(d, r.info)
        BY DEF HelloFlags
      <3> QED BY <2>4, <3>1, <3>2 DEF Has
    <2> QED BY <2>1, <2>6, <2>7, <2>8, <2>9, <2>10, <2>11 DEF ServerFlags
  <1>3. CASE msg = "EndOfEarlyData"
    <2>1. n = 24 /\ m = 25 /\ Version = "13" /\ EarlyTaken
      BY <1>3 DEF HearAt
    <2>2. g.flags = d.flags \ {"in_flight"}
      BY <1>3 DEF Gained
    <2>3. ~Has(g, "in_flight") /\ \A x \in Told8 \ {"in_flight"} : Has(g, x) <=> Has(e, x)
      BY <1>0, <2>2 DEF Has, Told8
    <2> QED BY <1>1, <2>1, <2>3 DEF ServerFlags, Told8
  <1>4. CASE msg = "Certificate"
    <2>1. (Version = "13" /\ n = 29 /\ m = 30 /\ Asked) \/ (Version = "12" /\ n = 17 /\ m = 18 /\ mode.cr)
      BY <1>4 DEF HearAt
    <2>2. ~EarlySent
      BY <2>1 DEF Setting, Asked
    <2>3. ~Has(e, "in_flight") /\ ~Has(d, "in_flight")
      BY <1>1, <2>2 DEF ServerFlags, Has, After
    <2>4. g.flags = d.flags \cup CertFlags(r.info)
      BY <1>4 DEF Gained
    <2>5. MsgOf(HeardAt("server", m)) = "Certificate" /\ HeardAt("server", m) \in 5..17
      BY <1>4, HearNumbers DEF Ends
    <2>6. HeardAt("server", m) # 5
      BY <2>1 DEF HeardAt
    <2>7. "cert" \in r.info <=> mode.cc
      BY <2>5, <2>6 DEF InfoOf
    <2>8. Has(g, "crt_vrfy_expected") <=> Has(e, "crt_vrfy_expected") \/ mode.cc
      BY <1>0, <2>4, <2>7 DEF Has, CertFlags, Told8
    <2>9. \A x \in Told8 \ {"crt_vrfy_expected"} : Has(g, x) <=> Has(e, x)
      BY <1>0, <2>3, <2>4 DEF Has, CertFlags, Told8
    <2> QED BY <1>1, <2>1, <2>2, <2>8, <2>9 DEF ServerFlags, Told8, EarlySent, EarlyTaken
  <1>5. CASE msg \notin {"ClientHello", "EndOfEarlyData", "Certificate"}
    <2>1. msg \notin {"ServerHello", "EncryptedExtensions", "CertificateRequest"}
      BY DEF HearAt
    <2>2. g.flags = d.flags
      BY <1>5, <2>1 DEF Gained
    <2>3. \A x \in Told8 \ {"in_flight"} : Has(g, x) <=> Has(e, x)
      BY <1>0, <2>2 DEF Has
    <2>4. CASE EarlySent
      <3>1. n = 31 /\ m = 32 /\ Version = "13"
        BY <1>5, <2>4 DEF HearAt, Setting, Asked
      <3>2. Has(e, "in_flight") <=> ~EarlyTaken
        BY <1>1, <2>4, <3>1 DEF ServerFlags
      <3>3. Has(e, "accepted") <=> EarlyTaken
        BY <1>1, <3>1 DEF ServerFlags
      <3>4. ~Has(g, "in_flight")
        BY <2>2, <3>2, <3>3 DEF Has, After, Quits
      <3> QED BY <1>1, <2>3, <3>1, <3>4 DEF ServerFlags, Told8
    <2>5. CASE ~EarlySent
      <3>1. ~Has(e, "in_flight") /\ ~Has(g, "in_flight")
        BY <1>1, <2>2, <2>5 DEF ServerFlags, Has, After
      <3>2. n \in {18, 30, 31, 19, 21} /\ m = n + 1
        BY <1>5 DEF HearAt
      <3>3. (Version = "13" => n \in {30, 31}) /\ (Version = "12" => n >= 18)
        BY <1>5 DEF HearAt
      <3> QED BY <1>1, <2>3, <2>5, <3>1, <3>2, <3>3 DEF ServerFlags, Told8
    <2> QED BY <2>4, <2>5
  <1> QED BY <1>2, <1>3, <1>4, <1>5

\* The transcript where a message is read, by numbers.
LEMMA HearLast ==
  ASSUME NEW p \in Ends, NEW n \in Nat, NEW m \in Nat, NEW msg, Setting, HearAt(p, n, m, msg)
  PROVE  LET k == HeardAt(p, m)
         IN  /\ LastAt(p, m) = k /\ ~Forgets(p, n) /\ ~Forgets(p, m)
             /\ msg \notin {"ClientHello", "HelloRetryRequest"} => LastAt(p, n) = k - 1
             /\ msg = "ClientHello" => LastAt(p, n) = IF n = 1 THEN 0 ELSE 3
  <1>1. Three
    BY DEF Setting
  <1>2. CASE Version = "13" /\ p = "client"
    <2>1. LastAt(p, m) = HeardAt(p, m)
      BY <1>2, LastClient13 DEF HearAt, HeardAt
    <2>2. msg # "HelloRetryRequest" => LastAt(p, n) = HeardAt(p, m) - 1
      BY <1>2, LastClient13 DEF HearAt, HeardAt
    <2>3. msg # "ClientHello"
      BY <1>2 DEF HearAt
    <2> QED BY <1>2, <2>1, <2>2, <2>3 DEF Forgets
  <1>3. CASE Version = "13" /\ p = "server"
    <2>1. LastAt(p, m) = HeardAt(p, m)
      BY <1>3, LastServer13 DEF HearAt, HeardAt
    <2>2. msg # "ClientHello" => LastAt(p, n) = HeardAt(p, m) - 1
      BY <1>3, LastServer13 DEF HearAt, HeardAt
    <2>3. msg = "ClientHello" => LastAt(p, n) = IF n = 1 THEN 0 ELSE 3
      BY <1>3, LastServer13 DEF HearAt
    <2>4. n # 13 /\ m # 13
      BY <1>3 DEF HearAt
    <2> QED BY <1>3, <2>1, <2>2, <2>3, <2>4 DEF Forgets
  <1>4. CASE Version = "12" /\ p = "client"
    <2>1. LastAt(p, m) = HeardAt(p, m) /\ LastAt(p, n) = HeardAt(p, m) - 1 /\ msg # "ClientHello"
      BY <1>4, LastClient12 DEF HearAt, HeardAt
    <2> QED BY <1>4, <2>1 DEF Forgets
  <1>5. CASE Version = "12" /\ p = "server"
    <2>1. /\ LastAt(p, m) = HeardAt(p, m) /\ (msg # "ClientHello" => LastAt(p, n) = HeardAt(p, m) - 1)
          /\ msg = "ClientHello" => n = 1 /\ LastAt(p, n) = 0
      BY <1>5, LastServer12 DEF HearAt, HeardAt
    <2> QED BY <1>5, <2>1 DEF Forgets
  <1>6. CASE Version = "12r"
    <2>1. /\ LastAt(p, m) = HeardAt(p, m) /\ (msg # "ClientHello" => LastAt(p, n) = HeardAt(p, m) - 1)
          /\ msg = "ClientHello" => n = 1 /\ LastAt(p, n) = 0
      BY <1>6, Last12r DEF HearAt, HeardAt, Ends
    <2> QED BY <1>6, <2>1 DEF Forgets
  <1> QED BY <1>1, <1>2, <1>3, <1>4, <1>5, <1>6 DEF Three, Ends

\* What is read extends the transcript of the script.
LEMMA HearTr ==
  ASSUME NEW p \in Ends, NEW n \in Nat, NEW m \in Nat, NEW msg, Setting, HearAt(p, n, m, msg)
  PROVE  /\ TrAt(p, m) = IF msg = "HelloRetryRequest" THEN Retry ELSE Append(TrAt(p, n), <<Peer(p), msg>>)
         /\ msg = "Finished" => TrAt(p, n) = Tr(HeardAt(p, m) - 1)
  <1> DEFINE k == HeardAt(p, m)
  <1>1. /\ LastAt(p, m) = k /\ ~Forgets(p, n) /\ ~Forgets(p, m)
        /\ msg \notin {"ClientHello", "HelloRetryRequest"} => LastAt(p, n) = k - 1
        /\ msg = "ClientHello" => LastAt(p, n) = IF n = 1 THEN 0 ELSE 3
    BY HearLast
  <1>2. TrAt(p, m) = Tr(k) /\ TrAt(p, n) = Tr(LastAt(p, n))
    BY <1>1 DEF TrAt
  <1>3. /\ Spoken(Peer(p), k) /\ k \in 1..17
        /\ msg = "ClientHello" => p = "server" /\ k = IF n = 1 /\ mode.hrr THEN 1 ELSE 4
        /\ msg = "HelloRetryRequest" => k = 2
        /\ msg \notin {"ClientHello", "HelloRetryRequest"} => k \in 5..17 /\ MsgOf(k) = msg
        /\ msg \notin {"ccs", "EarlyData"}
    BY HearNumbers
  <1>4. Peer(p) \in Ends
    BY PeerEnds
  <1> HIDE DEF k
  <1>5. CASE msg = "ClientHello"
    <2>1. n = 1 \/ (n = 15 /\ mode.hrr)
      BY <1>5 DEF HearAt, Setting, Three
    <2>2. Peer(p) = "client"
      BY <1>3, <1>5 DEF Peer
    <2>3. CASE n = 1
      <3>1. Tr(LastAt(p, n)) = <<>>
        BY <1>1, <1>5, <2>3, TrEarly
      <3>2. Tr(k) = <<Greeting>>
        BY <1>3, <1>5, <2>3, TrFirst
      <3>3. Append(<<>>, Greeting) = <<Greeting>>
        OBVIOUS
      <3> QED BY <1>2, <1>5, <2>2, <3>1, <3>2, <3>3 DEF Greeting
    <2>4. CASE n = 15 /\ mode.hrr
      <3>1. Tr(LastAt(p, n)) = Retry
        BY <1>1, <1>5, <2>4, TrEarly
      <3>2. Tr(k) = Append(Retry, Greeting)
        BY <1>3, <1>5, <2>4, TrEarly DEF Hello
      <3> QED BY <1>2, <1>5, <2>2, <3>1, <3>2 DEF Greeting
    <2> QED BY <2>1, <2>3, <2>4
  <1>6. CASE msg = "HelloRetryRequest"
    BY <1>2, <1>3, <1>6, TrEarly
  <1>7. CASE msg \notin {"ClientHello", "HelloRetryRequest"}
    <2>1. ~(Sends("client", k) /\ Sends("server", k))
      BY OneSender DEF Setting
    <2>2. k \in 5..17 \cup 101..104 /\ MsgOf(k) # "ccs" /\ Sends(Peer(p), k) /\ MsgOf(k) = msg
      BY <1>3, <1>7 DEF Spoken
    <2>3. Tr(k) = Append(Tr(k - 1), <<Peer(p), MsgOf(k)>>)
      BY <1>4, <2>1, <2>2, TrGrows
    <2>4. TrAt(p, n) = Tr(k - 1)
      BY <1>1, <1>2, <1>7
    <2> QED BY <1>2, <1>7, <2>2, <2>3, <2>4 DEF k
  <1> QED BY <1>5, <1>6, <1>7

\* What a message does to the secrets.
Learns(p, e, g, msg, info) ==
    /\ g.tr = IF msg = "HelloRetryRequest" THEN Retry ELSE Append(e.tr, <<Peer(p), msg>>)
    /\ g.mark = IF HeardMarks(p, e, msg) THEN g.tr ELSE e.mark
    /\ msg # "ServerHello" => g.psk = e.psk
    /\ msg = "ServerHello" => g.psk = (Has(e, "in_flight") \/ "psk_selected" \in info \/ Version = "12r")

\* The secrets of an endpoint after it has read a message.
LEMMA HearSecrets ==
  ASSUME NEW p \in Ends, NEW e, NEW g, NEW n \in Nat, NEW m \in Nat, NEW msg, NEW info, Setting, HearAt(p, n, m, msg),
         SecretsAt(p, e, n), FlagsAt(p, e, n), info = InfoOf(Peer(p), HeardAt(p, m)),
         e.prog = IF n < 12 \/ (p = "client" /\ n <= 13) THEN "start" ELSE Version, Learns(p, e, g, msg, info)
  PROVE  SecretsAt(p, g, m)
  <1>0. Three
    BY DEF Setting
  <1>1. e.tr = TrAt(p, n)
    BY DEF SecretsAt, TrAt, LastAt
  <1>2. g.tr = TrAt(p, m)
    BY <1>1, HearTr DEF Learns
  <1>3. g.tr = IF Forgets(p, m) THEN <<Synthetic>> ELSE Tr(Later(SaidAt(p, m), HeardAt(p, m)))
    BY <1>2 DEF TrAt, LastAt
  <1>4. g.tr = Tr(HeardAt(p, m))
    BY <1>2, HearLast DEF TrAt
  <1>5. CASE msg = "ServerHello"
    <2>1. p = "client" /\ m = 14 /\ HeardAt(p, m) = 5 /\ n \in {3, 13}
      BY <1>0, <1>5, HearNumbers DEF HearAt, Three
    <2>2. g.psk = (Has(e, "in_flight") \/ "psk_selected" \in info \/ Version = "12r")
      BY <1>5 DEF Learns
    <2>3. "psk_selected" \in info <=> Version = "13" /\ Psk
      BY <2>1 DEF InfoOf
    <2>4. Has(e, "in_flight") => EarlySent
      BY <2>1 DEF FlagsAt, ClientFlags
    <2>5. (Has(e, "in_flight") \/ "psk_selected" \in info \/ Version = "12r") <=> Psk
      <3>1. (EarlySent => Psk) /\ (Version = "12r" => Psk) /\ (Version = "12" => ~Psk)
        BY DEF Setting
      <3>2. Psk => Version = "13" \/ Version = "12r"
        BY <1>0, <3>1 DEF Three
      <3> QED BY <2>3, <2>4, <3>1, <3>2, Zenon
    <2>6. g.psk = Psk
      BY <2>2, <2>5 DEF Psk
    <2>7. g.mark = Tr(5)
      BY <1>4, <1>5, <2>1 DEF Learns, HeardMarks
    <2> QED BY <1>3, <2>1, <2>6, <2>7 DEF SecretsAt
  <1>6. CASE msg = "ClientKeyExchange"
    <2>1. p = "server" /\ m = 19 /\ n = 18 /\ Version = "12"
      BY <1>6 DEF HearAt, Ends
    <2>2. HeardAt(p, m) = 11
      BY <2>1 DEF HeardAt
    <2>3. g.mark = Tr(11) /\ g.psk = e.psk
      BY <1>4, <1>6, <2>2 DEF Learns, HeardMarks
    <2> QED BY <1>3, <2>1, <2>3 DEF SecretsAt
  <1>7. CASE msg = "Finished" /\ p = "client" /\ Version = "13"
    <2>1. m = 23 /\ n = 22
      BY <1>7 DEF HearAt
    <2>2. HeardAt(p, m) = 13 /\ e.prog = "13"
      BY <1>7, <2>1 DEF HeardAt
    <2>3. g.mark = Tr(13) /\ g.psk = e.psk
      BY <1>4, <1>7, <2>2 DEF Learns, HeardMarks
    <2> QED BY <1>3, <1>7, <2>1, <2>3 DEF SecretsAt
  <1>8. CASE msg \notin {"ServerHello", "ClientKeyExchange"} /\ ~(msg = "Finished" /\ p = "client" /\ Version = "13")
    <2>0. ~HeardMarks(p, e, msg)
      <3>1. CASE msg = "Finished" /\ p = "client"
        <4>1. n >= 14
          BY <3>1 DEF HearAt
        <4>2. e.prog = Version
          BY <4>1
        <4> QED BY <1>8, <3>1, <4>2 DEF HeardMarks
      <3>2. CASE ~(msg = "Finished" /\ p = "client")
        BY <1>8, <3>2 DEF HeardMarks
      <3> QED BY <3>1, <3>2
    <2>1. g.mark = e.mark /\ g.psk = e.psk
      BY <1>8, <2>0 DEF Learns
    <2>2. CASE p = "client" /\ Version = "13"
      <3>1. (n = 2 /\ m = 11) \/ (n \in 18..21 /\ m = n + 1)
        BY <1>8, <2>2 DEF HearAt
      <3> QED BY <1>3, <2>1, <2>2, <3>1 DEF SecretsAt
    <2>3. CASE p = "server" /\ Version = "13"
      <3>1. (n = 1 /\ m = 12) \/ (n = 15 /\ m = 16) \/ (n >= 24 /\ m = n + 1)
        BY <1>8, <2>3 DEF HearAt
      <3> QED BY <1>3, <2>1, <2>3, <3>1 DEF SecretsAt
    <2>4. CASE p = "client" /\ Version = "12"
      <3>1. (n \in 14..17 \/ n \in {25, 27}) /\ m = n + 1
        BY <1>8, <2>4 DEF HearAt
      <3> QED BY <1>3, <2>1, <2>4, <3>1 DEF SecretsAt
    <2>5. CASE p = "server" /\ Version = "12"
      <3>1. (n = 1 /\ m = 12) \/ (n \in {17, 19, 21} /\ m = n + 1)
        BY <1>8, <2>5 DEF HearAt
      <3> QED BY <1>3, <2>1, <2>5, <3>1 DEF SecretsAt
    <2>6. CASE Version = "12r"
      <3>1. \/ p = "client" /\ n = 16 /\ m = 17
            \/ p = "server" /\ ((n = 1 /\ m = 12) \/ (n = 18 /\ m = 19))
        BY <1>8, <2>6 DEF HearAt, Ends
      <3> QED BY <1>3, <2>1, <2>6, <3>1 DEF SecretsAt
    <2> QED BY <1>0, <2>2, <2>3, <2>4, <2>5, <2>6 DEF Three, Ends
  <1> QED BY <1>5, <1>6, <1>7, <1>8

-----------------------------------------------------------------------------
(* The message an engine waits for.                                          *)

\* p waits at place n for msg, after which it goes on at m.
Waiting(p, e, n, m, msg) ==
    /\ n = Place(e) /\ n \in Nat /\ m \in Nat /\ HearAt(p, n, m, msg) /\ Stands(p, e, n) /\ ~Past(e) /\ ~e.again
    /\ e.prog = "start" => e.q = <<>>
    /\ e.prog = IF n < 12 \/ (p = "client" /\ n <= 13) THEN "start" ELSE Version
    /\ e.pc \in Nat /\ (msg # "HelloRetryRequest" => m = e.pc + 11)
    /\ msg = "HelloRetryRequest" => e.prog = "start" /\ p = "client"
    /\ e.prog # "start" => n = e.pc + 10 /\ m = n + 1

\* The engine by the place.
LEMMA ProgOf ==
  ASSUME NEW p \in Ends, NEW e, Setting, Local(p, e), HereOK(p, e), ~Past(e)
  PROVE  /\ e.prog = IF Place(e) < 12 \/ (p = "client" /\ Place(e) <= 13) THEN "start" ELSE Version
         /\ e.pc \in Nat /\ Place(e) \in Places(p) /\ Place(e) \in Nat
         /\ e.prog # "start" /\ ~e.again => Place(e) = e.pc + 10
  <1>1. e.prog \in {"start", "13", "12", "12r"}
    BY DEF Past
  <1>2. CASE e.prog = "start" /\ p = "client"
    <2>1. /\ e.pc \in 1..3 /\ Reach(e) \in 1..3
          /\ Place(e) = Reach(e) + 10 \/ Place(e) = Reach(e)
          /\ Place(e) \in Places("client")
      BY <1>2, StartClient
    <2> QED BY <1>2, <2>1
  <1>3. CASE e.prog = "start" /\ p = "server"
    <2>1. e.pc = 1 /\ Place(e) = 1
      BY <1>3, StartServer
    <2> QED BY <1>3, <2>1 DEF Places
  <1>4. CASE e.prog \in {"13", "12", "12r"}
    <2>1. /\ e.prog = Version /\ e.pc \in Nat /\ e.pc + 10 \in Places(p) /\ e.pc + 11 \in Places(p)
          /\ ~e.again => Place(e) = e.pc + 10
          /\ e.again => Place(e) = e.pc + 11
          /\ p = "client" => e.pc >= 4
          /\ p = "server" => e.pc >= 2
      BY <1>4, EnginePlace
    <2>2. Place(e) \in Places(p) /\ Place(e) \in Nat /\ (p = "client" => Place(e) >= 14) /\ (p = "server" => Place(e) >= 12)
      BY <2>1
    <2> QED BY <1>4, <2>1, <2>2 DEF Ends
  <1> QED BY <1>1, <1>2, <1>3, <1>4 DEF Ends

\* An endpoint that reads waits for the message of its place.
LEMMA WaitingIs ==
  ASSUME NEW p \in Ends, NEW e, NEW o, Ready(p, e, o), ~Past(e), At(p, e).op = "recv", ~Skips(p, e, At(p, e)),
         HearAt(p, Place(e), Goes(p, Place(e)), At(p, e).msg)
  PROVE  Waiting(p, e, Place(e), Goes(p, Place(e)), At(p, e).msg)
  <1> DEFINE n == Place(e)
             m == Goes(p, n)
             msg == At(p, e).msg
  <1>1. Versions /\ Setting /\ Local(p, e) /\ HereOK(p, e) /\ Three
    BY DEF Ready, Setting
  <1>2. /\ ~e.again /\ n \in Nat /\ n \in Places(p) /\ Stands(p, e, n)
        /\ e.prog = "start" => e.q = <<>>
    BY HearWhere
  <1>3. /\ e.prog = IF n < 12 \/ (p = "client" /\ n <= 13) THEN "start" ELSE Version
        /\ e.pc \in Nat /\ (e.prog # "start" => n = e.pc + 10)
    BY <1>1, <1>2, ProgOf
  <1>4. e.prog # "none"
    BY DEF Past
  <1>5. p = "client" /\ e.prog = "start" => (e.pc = 2 /\ msg = "HelloRetryRequest") \/ (e.pc = 3 /\ msg = "ServerHello")
    BY <1>1, <1>4, RecvPositions
  <1>6. p = "server" /\ e.prog = "start" => e.pc = 1 /\ msg = "ClientHello"
    BY <1>1, <1>4, RecvPositions
  <1>7. HearAt(p, n, m, msg)
    OBVIOUS
  <1>8. m \in Nat
    BY <1>2 DEF Goes
  <1>9. /\ msg = "ServerHello" => m = 14
        /\ msg = "HelloRetryRequest" => n = 2 /\ p = "client"
    BY <1>1, <1>2, <1>7, <1>8, HearNumbers
  <1>10. p = "client" /\ n >= 14 => m = n + 1
    BY <1>2 DEF Goes
  <1>11. p = "server" /\ n >= 12 => m = n + 1
    BY <1>2 DEF Goes
  <1>12. p = "server" /\ n < 12 => n = 1 /\ m = 12
    BY <1>2 DEF Places, Goes
  <1> SUFFICES Waiting(p, e, n, m, msg)
    OBVIOUS
  <1> HIDE DEF n, m, msg
  <1>13. CASE e.prog = "start" /\ p = "client"
    <2>1. (msg # "HelloRetryRequest" => m = e.pc + 11)
      BY <1>5, <1>9, <1>13
    <2> QED BY <1>2, <1>3, <1>7, <1>8, <1>13, <2>1 DEF Waiting, n
  <1>14. CASE e.prog = "start" /\ p = "server"
    <2>0. Version # "start"
      BY <1>1 DEF Three
    <2>1. n < 12
      BY <1>3, <1>14, <2>0
    <2>2. m = e.pc + 11 /\ msg # "HelloRetryRequest"
      BY <1>6, <1>12, <1>14, <2>1
    <2> QED BY <1>2, <1>3, <1>7, <1>8, <1>14, <2>2 DEF Waiting, n
  <1>15. CASE e.prog # "start"
    <2>1. (p = "client" => n >= 14) /\ (p = "server" => n >= 12) /\ n = e.pc + 10
      BY <1>2, <1>3, <1>15
    <2>2. m = n + 1
      BY <1>10, <1>11, <2>1 DEF Ends
    <2>3. msg # "HelloRetryRequest"
      BY <1>9, <2>1
    <2> QED BY <1>2, <1>3, <1>7, <1>8, <1>15, <2>1, <2>2, <2>3 DEF Waiting, n
  <1> QED BY <1>13, <1>14, <1>15 DEF Ends

\* Nothing is sent where messages wait to be sent.
LEMMA HearQueue ==
  ASSUME NEW p \in Ends, NEW n \in Nat, NEW m \in Nat, NEW msg, Setting, HearAt(p, n, m, msg)
  PROVE  /\ n # QueueEnd(p) + 10
         /\ msg = "Finished" /\ Version # "13" => DoneAt(p, m)
  <1>1. Three
    BY DEF Setting
  <1>2. CASE Version = "13"
    BY <1>2 DEF HearAt, QueueEnd
  <1>3. CASE Version = "12"
    BY <1>3 DEF HearAt, QueueEnd, DoneAt
  <1>4. CASE Version = "12r"
    BY <1>4 DEF HearAt, QueueEnd, DoneAt
  <1> QED BY <1>1, <1>2, <1>3, <1>4 DEF Three

\* p read r, of which f is the result; d is what it took e for.
Hearer(p, e, d, f, r, n, m, msg) ==
    /\ Waiting(p, e, n, m, msg) /\ DOMAIN e = Fields /\ SameButEarly(e, d) /\ d.flags = After(p, e) /\ Aux(e, d)
    /\ Heard(p, e, f, r) /\ Turned(p, d, f, r) /\ r.msg = msg /\ r.info = InfoOf(Peer(p), HeardAt(p, m))

\* What it learns from it.
LEMMA HearerLearns ==
  ASSUME NEW p \in Ends, NEW e, NEW d, NEW f, NEW r, NEW n, NEW m, NEW msg, Setting, Hearer(p, e, d, f, r, n, m, msg)
  PROVE  Learns(p, e, Moved(f), msg, r.info)
  <1> DEFINE g == Moved(f)
  <1>1. Hears(p, e, g, r) /\ r.msg = msg
    BY HeardMoved DEF Hearer
  <1>2. DOMAIN f = Fields
    BY DEF Hearer, Heard
  <1>3. g.psk = f.psk /\ g.tr = f.tr
    BY <1>2, MovedFields DEF SameSecrets
  <1>4. Waiting(p, e, n, m, msg) /\ HearAt(p, n, m, msg) /\ n \in Nat /\ m \in Nat
    BY DEF Hearer, Waiting
  <1>5. msg \notin {"ccs", "EarlyData"}
    BY <1>4, HearNumbers
  <1> HIDE DEF g
  <1>6. g.tr = IF msg = "HelloRetryRequest" THEN Retry ELSE Append(e.tr, <<Peer(p), msg>>)
    <2>1. CASE msg = "HelloRetryRequest"
      BY <1>1, <2>1 DEF Hears, Retry
    <2>2. CASE msg = "NewSessionTicket"
      <3>1. Version = "12" /\ p = "client" /\ n = 25
        BY <1>4, <2>2 DEF HearAt
      <3>2. e.prog = "12"
        BY <1>4, <3>1 DEF Waiting
      <3>3. d.prog = "12" /\ d.tr = e.tr
        BY <3>2 DEF Hearer, SameButEarly, SameControl, SameSecrets
      <3>4. f.tr = Append(d.tr, <<Peer(p), r.msg>>)
        BY <1>1, <2>2, <3>3 DEF Hearer, Turned
      <3> QED BY <1>1, <1>3, <2>2, <3>3, <3>4
    <2>3. CASE msg \notin {"HelloRetryRequest", "NewSessionTicket"}
      BY <1>1, <1>5, <2>3 DEF Hears
    <2> QED BY <2>1, <2>2, <2>3
  <1>7. g.mark = IF HeardMarks(p, e, msg) THEN g.tr ELSE e.mark
    BY <1>1 DEF Hears
  <1>8. msg # "ServerHello" => g.psk = e.psk
    BY <1>1 DEF Hears
  <1>9. ASSUME msg = "ServerHello" PROVE g.psk = (Has(e, "in_flight") \/ "psk_selected" \in r.info \/ Version = "12r")
    <2>1. p = "client"
      BY <1>4, <1>9, HearNumbers
    <2>2. d.flags = e.flags
      BY <2>1 DEF Hearer, After, Quits
    <2>3. f.psk = (Has(d, "in_flight") \/ "psk_selected" \in r.info \/ Version = "12r")
      BY <1>1, <1>9 DEF Hearer, Turned
    <2> QED BY <1>3, <2>2, <2>3 DEF Has
  <1>10. Learns(p, e, g, msg, r.info)
    BY <1>6, <1>7, <1>8, <1>9 DEF Learns
  <1> QED BY <1>10 DEF g

\* An endpoint is at m after message msg.
Arrives(e, f, g, m, msg) ==
    /\ Place(g) = m /\ ~Past(g) /\ DOMAIN g = Fields /\ DOMAIN f = Fields
    /\ msg # "HelloRetryRequest" => f.prog = Version /\ f.pc = e.pc
    /\ msg = "HelloRetryRequest" => f.prog = "start" /\ f.pc = 0
    /\ g.prog = f.prog /\ g.again = FALSE /\ g.pc = f.pc + 1

\* And where it arrives.
LEMMA HearerPlace ==
  ASSUME NEW p \in Ends, NEW e, NEW d, NEW f, NEW r, NEW n, NEW m, NEW msg, Setting, Hearer(p, e, d, f, r, n, m, msg)
  PROVE  Arrives(e, f, Moved(f), m, msg)
  <1> DEFINE g == Moved(f)
  <1>1. Hears(p, e, g, r) /\ r.msg = msg /\ DOMAIN g = Fields
    BY HeardMoved DEF Hearer
  <1>2. DOMAIN f = Fields
    BY DEF Hearer, Heard
  <1>3. g.prog = f.prog /\ g.pc = f.pc + 1 /\ g.again = FALSE
    BY <1>2, MovedFields
  <1>4. Waiting(p, e, n, m, msg) /\ HearAt(p, n, m, msg) /\ n \in Nat /\ m \in Nat
    BY DEF Hearer, Waiting
  <1>5. Learns(p, e, g, msg, r.info)
    BY HearerLearns
  <1>6. Three
    BY DEF Setting
  <1>7. /\ f.prog = IF r.msg \in {"ClientHello", "ServerHello"} THEN Version ELSE e.prog
        /\ f.pc = IF r.msg = "HelloRetryRequest" THEN 0 ELSE e.pc
    BY DEF Hearer, Heard
  <1> SUFFICES Arrives(e, f, g, m, msg)
    OBVIOUS
  <1> HIDE DEF g
  <1>8. CASE msg = "HelloRetryRequest"
    <2>1. f.prog = "start" /\ f.pc = 0 /\ m = 11
      BY <1>1, <1>4, <1>7, <1>8, HearNumbers DEF Waiting
    <2>2. g.tr = Retry
      BY <1>5, <1>8 DEF Learns
    <2>3. Retried(g)
      BY <2>2, Synth DEF Retried
    <2>4. Place(g) = 11
      BY <1>3, <2>1, <2>3 DEF Place, Reach
    <2> QED BY <1>1, <1>2, <1>3, <1>8, <2>1, <2>4 DEF Past, Arrives
  <1>9. CASE msg # "HelloRetryRequest"
    <2>1. f.prog = Version
      <3>1. CASE msg \in {"ClientHello", "ServerHello"}
        BY <1>1, <1>7, <3>1
      <3>2. CASE msg \notin {"ClientHello", "ServerHello"}
        <4>1. n >= 14
          BY <1>4, <1>6, <1>9, <3>2 DEF HearAt, Three
        <4>2. e.prog = Version
          BY <1>4, <4>1 DEF Waiting
        <4> QED BY <1>1, <1>7, <3>2, <4>2
      <3> QED BY <3>1, <3>2
    <2>2. f.pc = e.pc /\ m = e.pc + 11 /\ e.pc \in Nat
      BY <1>1, <1>4, <1>7, <1>9 DEF Waiting
    <2>3. g.prog # "start" /\ ~Past(g)
      BY <1>3, <1>6, <2>1 DEF Three, Past
    <2>4. Place(g) = m
      BY <1>3, <2>2, <2>3 DEF Place, Reach
    <2> QED BY <1>1, <1>2, <1>3, <1>9, <2>1, <2>2, <2>3, <2>4 DEF Arrives
  <1> QED BY <1>8, <1>9

\* What holds at the next place.
LEMMA HearerStands ==
  ASSUME NEW p \in Ends, NEW e, NEW d, NEW f, NEW r, NEW n, NEW m, NEW msg, Setting, Hearer(p, e, d, f, r, n, m, msg),
         Local(p, e)
  PROVE  Stands(p, Moved(f), m)
  <1> DEFINE g == Moved(f)
  <1>1. Hears(p, e, g, r) /\ r.msg = msg /\ SameBuffers(e, g)
    BY HeardMoved DEF Hearer
  <1>2. /\ Place(g) = m /\ ~Past(g) /\ DOMAIN g = Fields /\ DOMAIN f = Fields
        /\ msg # "HelloRetryRequest" => f.prog = Version /\ f.pc = e.pc
        /\ msg = "HelloRetryRequest" => f.prog = "start" /\ f.pc = 0
        /\ g.prog = f.prog /\ g.again = FALSE /\ g.pc = f.pc + 1
    <2>1. Arrives(e, f, Moved(f), m, msg)
      BY HearerPlace, Zenon
    <2> QED BY <2>1, Zenon DEF Arrives
  <1>3. g.flags = f.flags /\ Aux(f, g)
    BY <1>2, MovedFields, AuxMoved
  <1>4. /\ Waiting(p, e, n, m, msg) /\ HearAt(p, n, m, msg) /\ n \in Nat /\ m \in Nat /\ Stands(p, e, n)
        /\ r.info = InfoOf(Peer(p), HeardAt(p, m)) /\ Turned(p, d, f, r) /\ Aux(e, d) /\ d.flags = After(p, e)
        /\ d.prog = e.prog
    BY DEF Hearer, Waiting, SameButEarly, SameControl
  <1>5. /\ Notes(p, e, n) /\ QueueOK(p, e) /\ KeysAt(p, e, n) /\ FlagsAt(p, e, n) /\ SecretsAt(p, e, n)
    BY <1>4, StandsParts
  <1>6. /\ n <= m /\ m # 3 /\ (Follows(p, n, m) \/ Jumps(p, n, m)) /\ ~KeyStep(p, n)
    BY <1>4, HearPlaces
  <1>7. Learns(p, e, g, msg, r.info)
    BY HearerLearns
  <1>8. e.we \in Nat
    <2>1. e.next \in 1..3 /\ e.we \in 0..e.next
      BY <1>4 DEF Local, Core, EpochsOK, Waiting
    <2> QED BY <2>1
  <1> HIDE DEF g
  <1>9. Notes(p, g, m)
    <2>1. g.auths = e.auths /\ g.started = e.started
      BY <1>3, <1>4 DEF Aux, Turned
    <2>2. g.done = e.done \/ DoneAt(p, m)
      <3>1. CASE Ends12(d, r)
        <4>1. msg = "Finished" /\ e.prog \in {"12", "12r"}
          BY <1>1, <1>4, <3>1 DEF Ends12
        <4>2. n >= 14
          BY <1>4, <4>1 DEF HearAt, Setting, Three
        <4>3. Version # "13"
          BY <1>4, <4>1, <4>2 DEF Waiting
        <4>4. DoneAt(p, m)
          BY <1>4, <4>1, <4>3, HearQueue
        <4> QED BY <4>4
      <3>2. CASE ~Ends12(d, r)
        BY <1>3, <1>4, <3>2 DEF Aux, Turned
      <3> QED BY <3>1, <3>2
    <2> QED BY <1>4, <1>5, <1>6, <2>1, <2>2, NotesMore
  <1>10. QueueOK(p, g)
    <2>1. CASE e.prog = "start"
      <3>1. e.q = <<>>
        BY <1>4, <2>1 DEF Waiting
      <3>2. g.q = <<>>
        BY <1>1, <3>1 DEF SameBuffers
      <3> QED BY <3>2 DEF QueueOK
    <2>2. CASE e.prog # "start"
      <3>1. n = e.pc + 10 /\ e.pc \in Nat /\ msg # "HelloRetryRequest"
        BY <1>4, <2>2 DEF Waiting
      <3>2. n # QueueEnd(p) + 10
        BY <1>4, HearQueue
      <3>3. e.pc # QueueEnd(p)
        BY <3>1, <3>2
      <3>4. g.prog = e.prog
        <4>1. e.prog = Version
          BY <1>4, <2>2 DEF Waiting
        <4> QED BY <1>2, <3>1, <4>1
      <3>5. g.q = e.q /\ g.we = e.we
        BY <1>1 DEF SameBuffers, Hears, SameEpochs
      <3>6. g.pc = e.pc + 1 /\ g.again = FALSE
        BY <1>2, <3>1
      <3>7. g.we \in Nat /\ e.we <= g.we
        BY <1>8, <3>5
      <3> QED BY <1>5, <1>8, <3>1, <3>3, <3>4, <3>5, <3>6, <3>7, QueueMoved, Zenon
    <2> QED BY <2>1, <2>2
  <1>11. KeysAt(p, g, m)
    BY <1>1, <1>4, <1>5, <1>6, KeysMore DEF Hears
  <1>12. FlagsAt(p, g, m)
    <2>1. g.flags = Gained(d, r)
      BY <1>3, <1>4 DEF Turned
    <2>2. CASE p = "client"
      <3>1. d.flags = e.flags /\ Peer(p) = "server"
        BY <1>4, <2>2 DEF After, Quits, Peer
      <3> QED BY <1>1, <1>4, <1>5, <2>1, <2>2, <3>1, HearFlagsClient
    <2>3. CASE p = "server"
      <3>1. Peer(p) = "client"
        BY <2>3 DEF Peer
      <3> QED BY <1>1, <1>4, <1>5, <2>1, <2>3, <3>1, HearFlagsServer
    <2> QED BY <2>2, <2>3 DEF Ends
  <1>13. SecretsAt(p, g, m)
    <2>1. e.prog = IF n < 12 \/ (p = "client" /\ n <= 13) THEN "start" ELSE Version
      BY <1>4 DEF Waiting
    <2> QED BY <1>4, <1>5, <1>7, <2>1, HearSecrets
  <1>14. Stands(p, g, m)
    BY <1>9, <1>10, <1>11, <1>12, <1>13, StandsParts
  <1> QED BY <1>14 DEF g

-----------------------------------------------------------------------------
(* The conversation when a message is read.                                  *)

\* Reading a message passes it and no other.
LEMMA PassesHere ==
  ASSUME NEW p \in Ends, NEW k \in 1..17, Setting
  PROVE  Passes(p, k, k)
  BY DEF Passes, Pending, Ends, Silent

\* Said by the server after it was asked.
LEMMA SaidAfter ==
  ASSUME NEW o, Setting, Local("server", o), HereOK("server", o), Said("server", o) >= 2
  PROVE  HeardTo("server", o) >= 1
  <1>1. "server" \in Ends
    BY DEF Ends
  <1>2. CASE Past(o)
    <2>1. CASE o.prog = "reauth"
      <3>1. Reach(o) \in Nat
        BY <1>1, <2>1, LaterReach DEF Setting
      <3> QED BY <1>2, <3>1 DEF HeardTo, AuthHeard
    <2>2. CASE o.prog # "reauth"
      BY <1>2, <2>2 DEF HeardTo, AuthHeard
    <2> QED BY <2>1, <2>2
  <1>3. CASE ~Past(o)
    <2>1. Place(o) \in Nat
      BY <1>1, <1>3, ProgOf
    <2>2. SaidAt("server", Place(o)) >= 2
      BY <1>3 DEF Said
    <2>3. Place(o) >= 2
      BY <2>1, <2>2 DEF SaidAt
    <2>4. HeardAt("server", Place(o)) >= 1
      BY <2>1, <2>3 DEF HeardAt, Setting, Three
    <2> QED BY <1>3, <2>4 DEF HeardTo
  <1> QED BY <1>2, <1>3

\* A client that is asked again has nothing under way.
LEMMA AskedAgain ==
  ASSUME NEW e, NEW o, Meet("client", e, o), ~Past(e), Place(e) = 2, mode.hrr, Version = "13",
         o.wire # <<>>, FirstNo("client", o) = 2
  PROVE  Unread(e) = <<>>
  <1> DEFINE K == Slots("client", e)
             a == HeardTo("server", o)
             b == Said("client", e)
             h == [o EXCEPT !.wire = Tail(@)]
  <1>1. /\ Setting /\ Local("server", o) /\ HereOK("server", o) /\ Local("client", e) /\ HereOK("client", e)
        /\ "client" \in Ends /\ "server" \in Ends /\ Peer("client") = "server" /\ Peer("server") = "client"
        /\ Flow("client", e, o) /\ Flow("server", o, e) /\ Fit("server", o)
    BY DEF Meet, Ready, Ends, Peer, Talk
  <1>2. Consumed("client", o, h)
    BY <1>1, WireTaken DEF Taken
  <1>3. Slots("server", o) \in Seq(Nat) /\ Slots("server", o) # <<>> /\ Slots("server", o)[1] = 2
    BY <1>1, <1>2, SlotsLess
  <1>4. Line("server", Slots("server", o), HeardTo("client", e), Said("server", o))
    BY <1>1 DEF Flow
  <1>5. InRange("server", 2, HeardTo("client", e), Said("server", o))
    BY <1>3, <1>4, LineParts
  <1>6. Said("server", o) >= 2
    <2>1. Said("server", o) \in 0..104
      BY <1>1 DEF Fit, Ranged
    <2> QED BY <1>5, <2>1 DEF InRange
  <1>7. a >= 1 /\ a \in 0..104
    BY <1>1, <1>6, SaidAfter DEF Fit, Ranged
  <1>8. b = 1
    BY DEF Said, SaidAt
  <1>9. Line("client", K, a, b)
    BY <1>1 DEF Flow
  <1>10. Fit("client", e)
    BY <1>1, FitOf
  <1>11. IsSeq(Unread(e)) /\ K \in Seq(Nat) /\ Len(K) = Len(Unread(e))
    BY <1>10, SlotsSeq, UnreadSeq DEF Fit
  <1> HIDE DEF K, a, b, h
  <1>12. ~(1 \in 1..Len(K))
    <2> SUFFICES ASSUME 1 \in 1..Len(K) PROVE FALSE
      OBVIOUS
    <2>1. InRange("client", K[1], a, b) /\ K[1] \in Nat
      BY <1>9, <1>11 DEF Line
    <2>2. K[1] # 100
      BY <1>8, <2>1 DEF InRange, LastOwn
    <2>3. K[1] <= 1 /\ (Silent(K[1]) \/ a < K[1])
      BY <1>8, <2>1, <2>2 DEF InRange
    <2>4. ~Silent(K[1])
      BY <2>3 DEF Silent
    <2> QED BY <1>7, <2>1, <2>3, <2>4
  <1>13. Len(Unread(e)) = 0
    BY <1>11, <1>12
  <1> QED BY <1>11, <1>13 DEF IsSeq

\* Two numbers that are the same.
LEMMA SelfLe ==
  ASSUME NEW x, NEW y, x = y, y \in 0..104
  PROVE  y <= x
  OBVIOUS

\* The client that is asked again goes back to its first step.
LEMMA AgainMoves ==
  ASSUME NEW f, DOMAIN f = Fields, f.err = "none", f.prog = "start", f.pc = 0
  PROVE  Advance("client", f) = Moved(f)
  <1>1. Len(Engine("client", f.prog)) = 3
    BY Lengths
  <1>0. \A x : x = 0 => x \in Nat /\ x # 3
    OBVIOUS
  <1>2. f.pc \in Nat /\ f.pc # Len(Engine("client", f.prog))
    BY <1>0, <1>1, Zenon
  <1> QED BY <1>2, AdvanceIs DEF Ends

\* The first record was taken from the wire.
Popped(o, h) == h = [o EXCEPT !.wire = Tail(@)]

\* What is left of the peer when a record is read from it.
LEMMA PoppedIs ==
  ASSUME NEW p \in Ends, NEW e, NEW o, NEW h, Meet(p, e, o), o.wire # <<>>, Popped(o, h)
  PROVE  Local(Peer(p), h) /\ HereOK(Peer(p), h) /\ Fit(Peer(p), h) /\ Taken(p, o, h)
  BY WireTaken DEF Popped

\* The numbers of what p has under way do not change when it reads.
LEMMA HearerSlots ==
  ASSUME NEW p \in Ends, NEW e, NEW d, NEW f, NEW r, NEW n, NEW m, NEW msg, NEW o, Hearer(p, e, d, f, r, n, m, msg),
         Meet(p, e, o), o.wire # <<>>, FirstNo(p, o) = HeardAt(p, m)
  PROVE  /\ Unread(Moved(f)) = Unread(e) /\ Slots(p, Moved(f)) = Slots(p, e) /\ Buffers(Moved(f)) /\ Buffers(e)
         /\ Buffers(f)
  <1> DEFINE g == Moved(f)
  <1>1. Setting /\ Local(p, e) /\ HereOK(p, e)
    BY DEF Meet, Ready
  <1>2. Arrives(e, f, g, m, msg)
    BY <1>1, HearerPlace, Zenon
  <1>3. SameBuffers(e, g) /\ Hears(p, e, g, r)
    BY HeardMoved DEF Hearer
  <1>4. Buffers(e)
    BY <1>1 DEF Local, Core, ItemsOK, Buffers
  <1>5. SameBuffers(e, f)
    BY DEF Hearer, Heard
  <1> HIDE DEF g
  <1>6. g.keys = e.keys
    BY <1>3 DEF Hears, SameEpochs
  <1>7. Unread(g) = Unread(e) /\ Buffers(g) /\ Buffers(f)
    BY <1>3, <1>4, <1>5, <1>6 DEF Unread, Seal, Sealed, SameBuffers, Buffers
  <1>8. /\ Waiting(p, e, n, m, msg) /\ HearAt(p, n, m, msg) /\ n \in Nat /\ m \in Nat /\ ~Past(e) /\ Place(e) = n
        /\ msg = "HelloRetryRequest" => e.prog = "start" /\ p = "client"
    BY DEF Hearer, Waiting
  <1>9. Slots(p, g) = Slots(p, e)
    <2>1. CASE msg = "HelloRetryRequest"
      <3>1. Version = "13" /\ p = "client" /\ HeardAt(p, m) = 2 /\ n = 2 /\ mode.hrr
        BY <1>1, <1>8, <2>1, HearNumbers
      <3>2. Unread(e) = <<>>
        BY <1>8, <3>1, AskedAgain
      <3>3. Len(Unread(e)) = 0 /\ Len(Unread(g)) = 0
        BY <1>7, <3>2
      <3> QED BY <3>3 DEF Slots
    <2>2. CASE msg # "HelloRetryRequest"
      <3>1. g.prog = Version /\ Version # "start"
        BY <1>1, <1>2, <2>2 DEF Arrives, Setting, Three
      <3>2. First1(p, g) = FALSE
        BY <3>1, NoFirst1
      <3>3. First1(p, e) = FALSE
        <4>1. CASE e.prog # "start"
          BY <4>1, NoFirst1
        <4>2. CASE e.prog = "start" /\ p = "client"
          <5>1. msg = "ServerHello" /\ (n = 13 \/ ~mode.hrr)
            BY <1>1, <1>8, <2>2, <4>2 DEF HearAt, Waiting, Setting, Three
          <5> QED BY <1>8, <5>1 DEF First1
        <4>3. CASE p = "server"
          BY <4>3 DEF First1
        <4> QED BY <4>1, <4>2, <4>3 DEF Ends
      <3> QED BY <1>7, <3>2, <3>3, SameSlots
    <2> QED BY <2>1, <2>2
  <1> QED BY <1>4, <1>7, <1>9 DEF g

\* p reads the message it waits for.
LEMMA HearerTalk ==
  ASSUME NEW p \in Ends, NEW e, NEW d, NEW f, NEW r, NEW n, NEW m, NEW msg, NEW o, NEW h, Hearer(p, e, d, f, r, n, m, msg),
         Meet(p, e, o), o.wire # <<>>, Popped(o, h), FirstNo(p, o) = HeardAt(p, m)
  PROVE  Talk(p, Moved(f), h)
  <1> DEFINE g == Moved(f)
             k == HeardAt(p, m)
             q == Peer(p)
  <1>1. Setting /\ Local(p, e) /\ HereOK(p, e) /\ Talk(p, e, o) /\ Fit(q, o)
    BY DEF Meet, Ready
  <1>2. Arrives(e, f, g, m, msg)
    BY <1>1, HearerPlace, Zenon
  <1>3. Unread(g) = Unread(e) /\ Slots(p, g) = Slots(p, e) /\ Buffers(g) /\ Buffers(e)
    BY HearerSlots
  <1>4. /\ HearAt(p, n, m, msg) /\ n \in Nat /\ m \in Nat /\ ~Past(e) /\ Place(e) = n
    BY DEF Hearer, Waiting
  <1>5. n \in Places(p) /\ m \in Places(p) /\ SaidAt(p, m) = SaidAt(p, n)
    BY <1>1, <1>4, HearPlaces
  <1>6. Awaits(p, n, k)
    BY <1>1, <1>4, HearAwaits
  <1>7. Taken(p, o, h)
    BY PoppedIs
  <1>8. g.sent = e.sent /\ g.got = e.got
    <2>1. DOMAIN f = Fields
      BY <1>2 DEF Arrives
    <2>2. Aux(f, g)
      BY <2>1, AuxMoved
    <2>3. f.sent = d.sent /\ f.got = d.got /\ Aux(e, d)
      BY DEF Hearer, Turned
    <2> QED BY <2>2, <2>3 DEF Aux
  <1>9. Place(g) = m /\ ~Past(g)
    BY <1>2, Zenon DEF Arrives
  <1>10. q \in Ends /\ k = FirstNo(p, o)
    BY PeerEnds
  <1> HIDE DEF g, k, q
  <1>11. /\ Fit(p, e) /\ Said(p, e) = SaidAt(p, n) /\ HeardTo(p, e) = HeardAt(p, n)
         /\ SaidAt(p, n) \in 0..17
    BY <1>1, <1>3, <1>4, <1>5, FitPlace
  <1>12. /\ Fit(p, g) /\ Said(p, g) = SaidAt(p, m) /\ HeardTo(p, g) = HeardAt(p, m)
    BY <1>1, <1>3, <1>5, <1>9, FitPlace
  <1>13. Said(p, g) = Said(p, e) /\ Said(p, e) \in 0..104
    BY <1>5, <1>11, <1>12
  <1>14. Listening(p, e, g)
    <2>1. Quiet(p, Said(p, e), Said(p, g))
      BY <1>13, QuietHere
    <2>2. Stays8(p, Said(p, e), Said(p, g))
      BY <1>13 DEF Stays8
    <2>3. Said(p, e) <= Said(p, g)
      BY <1>13, SelfLe, Zenon
    <2> QED BY <1>3, <1>8, <2>1, <2>2, <2>3 DEF Listening
  <1>15. Hearing(p, e, g, k)
    <2>1. Spoken(q, k) /\ k \in 1..17 /\ Alone(q, k, HeardAt(p, n), k)
      BY <1>6 DEF Awaits, q
    <2>2. HeardTo(p, g) = k
      BY <1>12 DEF k
    <2>3. Passes(q, k, k)
      BY <1>1, <1>10, <2>1, PassesHere
    <2>4. k <= k
      BY <2>1
    <2> QED BY <1>8, <1>11, <2>1, <2>2, <2>3, <2>4 DEF Hearing, q
  <1>16. Talk(p, g, h)
    BY <1>1, <1>7, <1>10, <1>11, <1>12, <1>14, <1>15, TalkHear DEF q
  <1> QED BY <1>16 DEF g

-----------------------------------------------------------------------------
(* Reading in the initial handshake.                                         *)

\* The end of a step that read the message it waited for.
LEMMA HearerOK ==
  ASSUME NEW p \in Ends, NEW e, NEW d, NEW f, NEW r, NEW n, NEW m, NEW msg, NEW o, NEW h, Hearer(p, e, d, f, r, n, m, msg),
         Meet(p, e, o), o.wire # <<>>, Popped(o, h), FirstNo(p, o) = HeardAt(p, m),
         Local(p, Advance(p, f))
  PROVE  OK(p, Advance(p, f), h)
  <1> DEFINE g == Moved(f)
  <1>1. Setting /\ Local(p, e) /\ HereOK(p, e)
    BY DEF Meet, Ready
  <1>2. Arrives(e, f, g, m, msg)
    BY <1>1, HearerPlace, Zenon
  <1>3. Stands(p, g, m)
    BY <1>1, HearerStands
  <1>4. Talk(p, g, h)
    BY HearerTalk
  <1>5. Fit(Peer(p), h)
    BY PoppedIs
  <1>6. Buffers(f)
    BY HearerSlots
  <1>7. f.err = "none" /\ DOMAIN f = Fields
    BY <1>1 DEF Hearer, Heard, HereOK
  <1>8. /\ e.pc \in Nat /\ (msg # "HelloRetryRequest" => m = e.pc + 11)
        /\ msg = "HelloRetryRequest" => e.prog = "start" /\ p = "client"
    BY DEF Hearer, Waiting
  <1>9. CASE msg # "HelloRetryRequest"
    <2>1. f.prog = Version /\ f.pc = e.pc
      BY <1>2, <1>9 DEF Arrives
    <2>2. f.pc \in Nat /\ Stands(p, Moved(f), f.pc + 11)
      BY <1>3, <1>8, <1>9, <2>1
    <2> QED BY <1>1, <1>4, <1>5, <1>6, <1>7, <2>1, <2>2, AdvanceOK
  <1>10. CASE msg = "HelloRetryRequest"
    <2>1. f.prog = "start" /\ f.pc = 0 /\ p = "client"
      BY <1>2, <1>8, <1>10 DEF Arrives
    <2>3. Advance(p, f) = g
      BY <1>7, <2>1, AgainMoves
    <2>4. Place(g) = m /\ ~Past(g)
      BY <1>2, Zenon DEF Arrives
    <2>5. g.err = "none"
      BY <1>7, MovedFields
    <2>6. HereOK(p, g)
      BY <1>3, <2>4, <2>5 DEF HereOK
    <2> QED BY <1>4, <2>3, <2>6 DEF OK
  <1> QED BY <1>9, <1>10

\* The state that processes a message: the wait for early data may be over.
Quit(p, e) == IF Quits(p, e) THEN [e EXCEPT !.flags = @ \ {"in_flight"}] ELSE e

\* Turning off early data changes one flag.
LEMMA QuitIs ==
  ASSUME NEW p, NEW e, DOMAIN e = Fields
  PROVE  SameButEarly(e, Quit(p, e)) /\ Quit(p, e).flags = After(p, e) /\ Aux(e, Quit(p, e))
  <1>1. SameButEarly(e, Quit(p, e))
    BY EarlyOver DEF Quit
  <1>2. Quit(p, e).flags = After(p, e)
    BY DEF Quit, After, Fields
  <1>3. Aux(e, Quit(p, e))
    BY DEF Quit, Aux, Fields
  <1> QED BY <1>1, <1>2, <1>3

\* The record of a message under the key that is read.
LEMMA OutcomeIs ==
  ASSUME NEW p, NEW e, NEW r, NEW s, r.type = "hs", r.msg = s.msg, r.key = ReadKey(e),
         p = "server" /\ Has(e, "in_flight") /\ Has(e, "accepted") => ReadKey(e) # Plain
  PROVE  Outcome(p, e, r, s) = Advance(p, Process(p, Quit(p, e), r))
  <1>1. ~Discards(p, e, r)
    BY DEF Discards
  <1> QED BY <1>1 DEF Outcome, Quit, Quits

\* The first record is the message p waits for, and says what it should.
LEMMA ExpectedIs ==
  ASSUME NEW p \in Ends, NEW e, NEW o, NEW n, NEW m, NEW msg, NEW r, Meet(p, e, o), o.wire # <<>>,
         Waiting(p, e, n, m, msg), FirstNo(p, o) = HeardAt(p, m), r = Head(o.wire)
  PROVE  /\ r.type = "hs" /\ r.msg = msg /\ r.key = ReadKey(e) /\ r.info = InfoOf(Peer(p), HeardAt(p, m))
         /\ r.msg = "Finished" => r.ctx = e.tr
         /\ r \in Sent(o)
         /\ p = "server" /\ Has(e, "in_flight") /\ Has(e, "accepted") => ReadKey(e) # Plain
  <1> DEFINE k == HeardAt(p, m)
             q == Peer(p)
  <1>1. Setting /\ HearAt(p, n, m, msg) /\ n \in Nat /\ m \in Nat /\ Stands(p, e, n)
    BY DEF Meet, Ready, Waiting
  <1>2. /\ Item(q, k, r) /\ k = Slot(q, First1(q, o), r) /\ (r.type = "hs" => r \in Sent(o))
    BY WireTaken
  <1>3. r.type = "hs" /\ r.msg = msg
    BY <1>1, <1>2, HearSlot
  <1>4. k \in 1..17
    BY <1>1, HearNumbers
  <1>5. KeyOf(k) = ReadKeyAt(p, n)
    BY <1>1, HearKey
  <1>6. KeysAt(p, e, n) /\ FlagsAt(p, e, n) /\ SecretsAt(p, e, n)
    BY <1>1, StandsParts
  <1>7. msg = "Finished" => TrAt(p, n) = Tr(k - 1)
    BY <1>1, HearTr
  <1>8. e.tr = TrAt(p, n)
    BY <1>6 DEF SecretsAt, TrAt, LastAt
  <1> HIDE DEF k
  <1>9. k # 100
    BY <1>4
  <1>10. r.info = InfoOf(q, k) /\ r.key = KeyOf(k) /\ (r.msg = "Finished" => r.ctx = Tr(k - 1))
    BY <1>2, <1>3, <1>9 DEF Item
  <1>11. r.key = ReadKey(e)
    BY <1>5, <1>6, <1>10 DEF KeysAt, ReadKey
  <1>12. r.msg = "Finished" => r.ctx = e.tr
    BY <1>3, <1>7, <1>8, <1>10
  <1>13. ASSUME p = "server", Has(e, "in_flight"), Has(e, "accepted")
         PROVE  ReadKey(e) # Plain
    <2>1. EarlyTaken /\ n \in 12..24
      BY <1>1, <1>6, <1>13 DEF FlagsAt, ServerFlags
    <2>2. Version = "13" /\ ~mode.hrr
      BY <1>1, <2>1 DEF Setting
    <2>3. n = 24
      BY <1>1, <1>13, <2>1, <2>2 DEF HearAt
    <2>4. ReadKeyAt(p, n) = EarlyK
      BY <1>13, <2>1, <2>2, <2>3 DEF ReadKeyAt
    <2>5. EarlyK # Plain
      BY DEF EarlyK, Plain, Label
    <2> QED BY <1>6, <2>4, <2>5 DEF KeysAt, ReadKey
  <1> QED BY <1>2, <1>3, <1>10, <1>11, <1>12, <1>13 DEF k

\* p reads the message it waits for.
LEMMA ExpectedOK ==
  ASSUME NEW p \in Ends, NEW e, NEW o, NEW h, NEW n, NEW m, NEW msg, NEW r, Meet(p, e, o), o.wire # <<>>, Popped(o, h),
         Waiting(p, e, n, m, msg), At(p, e).op = "recv", At(p, e).msg = msg, ~Skips(p, e, At(p, e)),
         FirstNo(p, o) = HeardAt(p, m), r = Head(o.wire)
  PROVE  OK(p, Outcome(p, e, r, At(p, e)), h)
  <1> DEFINE d == Quit(p, e)
             f == Process(p, d, r)
  <1>1. Setting /\ Versions /\ Local(p, e) /\ HereOK(p, e) /\ Local(Peer(p), o)
    BY SettingParts DEF Meet, Ready
  <1>2. DOMAIN e = Fields
    BY <1>1 DEF Local, Core, Control
  <1>3. /\ r.type = "hs" /\ r.msg = msg /\ r.key = ReadKey(e) /\ r.info = InfoOf(Peer(p), HeardAt(p, m))
        /\ r.msg = "Finished" => r.ctx = e.tr
        /\ r \in Sent(o)
        /\ p = "server" /\ Has(e, "in_flight") /\ Has(e, "accepted") => ReadKey(e) # Plain
    BY ExpectedIs
  <1>4. SameButEarly(e, d) /\ d.flags = After(p, e) /\ Aux(e, d)
    BY <1>2, QuitIs
  <1>5. Outcome(p, e, r, At(p, e)) = Advance(p, f)
    BY <1>3, OutcomeIs
  <1>6. ~Past(e) /\ e.err = "none"
    BY <1>1 DEF Waiting, HereOK
  <1>7. Running(e)
    BY <1>6 DEF Running, Past
  <1>8. Local(p, Advance(p, f))
    BY <1>1, <1>3, <1>5, <1>7, RecvGood
  <1> HIDE DEF d
  <1>9. d.tr = e.tr /\ DOMAIN d = Fields
    BY <1>4 DEF SameButEarly, SameSecrets
  <1>10. r.msg = "Finished" => r.ctx = d.tr
    BY <1>3, <1>9
  <1>11. Heard(p, e, f, r)
    BY <1>2, <1>4, <1>10, ProcessFields
  <1>12. Turned(p, d, f, r)
    BY <1>9, <1>10, ProcessTurns
  <1> HIDE DEF f
  <1>13. Hearer(p, e, d, f, r, n, m, msg)
    BY <1>2, <1>3, <1>4, <1>11, <1>12, Zenon DEF Hearer
  <1>14. OK(p, Advance(p, f), h)
    BY <1>8, <1>13, HearerOK
  <1> QED BY <1>5, <1>14

-----------------------------------------------------------------------------
(* Records that are taken in passing.                                        *)

\* Records without a place of their own, or taken in silence.
Passed(k) == k = 100 \/ Silent(k)

\* p takes such a record and stays where it is.
LEMMA DropOK ==
  ASSUME NEW p \in Ends, NEW e, NEW g, NEW o, NEW h, NEW r, Meet(p, e, o), o.wire # <<>>, Popped(o, h), Like(e, g),
         SameBuffers(e, g), g.sent = e.sent, r = Head(o.wire), Passed(FirstNo(p, o)),
         g.got = Gains(FirstNo(p, o), r, e.got)
  PROVE  OK(p, g, h)
  <1> DEFINE k == FirstNo(p, o)
  <1>1. Setting /\ Local(p, e) /\ HereOK(p, e) /\ Talk(p, e, o) /\ Fit(Peer(p), o)
    BY DEF Meet, Ready
  <1>2. Fit(p, e)
    BY <1>1, FitOf
  <1>3. HereOK(p, g) /\ Alike(e, g)
    BY <1>1, HereLike
  <1>4. Said(p, g) = Said(p, e) /\ HeardTo(p, g) = HeardTo(p, e) /\ First1(p, g) = First1(p, e)
    BY <1>3, AlikeSaid
  <1>5. g.keys = e.keys
    BY DEF Like, SameEpochs
  <1>6. Unread(g) = Unread(e) /\ Buffers(g)
    BY <1>2, <1>5 DEF Fit, Unread, Seal, Sealed, SameBuffers, Buffers
  <1>7. Slots(p, g) = Slots(p, e)
    BY <1>4, <1>6, SameSlots
  <1>8. Fit(p, g)
    BY <1>2, <1>4, <1>6 DEF Fit, Ranged
  <1>9. Said(p, e) \in 0..104
    BY <1>2 DEF Fit, Ranged
  <1>10. Listening(p, e, g)
    <2>1. Quiet(p, Said(p, e), Said(p, g)) /\ Stays8(p, Said(p, e), Said(p, g))
      BY <1>4, <1>9, QuietHere DEF Stays8
    <2>2. Said(p, e) <= Said(p, g)
      BY <1>4, <1>9, SelfLe, Zenon
    <2> QED BY <1>6, <1>7, <2>1, <2>2 DEF Listening
  <1>11. Taken(p, o, h)
    BY PoppedIs
  <1>12. Unread(o)[1] = r
    BY WireTaken
  <1>13. g.got = Gains(k, Unread(o)[1], e.got)
    BY <1>12
  <1>14. k = 100 \/ Silent(k)
    BY DEF Passed
  <1> HIDE DEF k
  <1>15. k = FirstNo(p, o)
    BY DEF k
  <1>16. Talk(p, g, h)
    BY <1>1, <1>2, <1>4, <1>8, <1>10, <1>11, <1>13, <1>14, <1>15, TalkDrop
  <1> QED BY <1>3, <1>16 DEF OK

\* An endpoint is like itself,
LEMMA LikeSelf == ASSUME NEW e PROVE Like(e, e) /\ SameBuffers(e, e)
  BY DEF Like, SameBuffers, SameControl, SameEpochs, SameSecrets

\* also when data are delivered to it.
LEMMA LikeGot ==
  ASSUME NEW e, NEW v, DOMAIN e = Fields
  PROVE  LET g == [e EXCEPT !.got = v]
         IN  Like(e, g) /\ SameBuffers(e, g) /\ g.sent = e.sent /\ g.got = v
  BY DEF Like, SameBuffers, SameControl, SameEpochs, SameSecrets, Fields

\* What is taken in silence, by its number.
LEMMA SilentIs ==
  ASSUME NEW p \in Ends, NEW k, NEW h, NEW r, Setting, Silent(k), Item(Peer(p), k, r), Slot(Peer(p), h, r) = k
  PROVE  /\ Version = "13" /\ k \in {3, 6, 7, 8}
         /\ k # 8 => r.type = "ccs"
         /\ k = 8 => r.type = "data" /\ r.key = EarlyK /\ p = "server" /\ EarlySent
         /\ k # 100
  <1>1. Version = "13" /\ k \in {3, 6, 7, 8}
    BY DEF Silent
  <1>2. k = 8 => r.type = "data" /\ p = "server"
    BY <1>1 DEF Slot, Item, Sends, Peer, Ends
  <1>3. k # 8 => r.type = "ccs"
    BY <1>1 DEF Slot, Item
  <1>4. k = 8 => EarlySent
    BY <1>1 DEF Item, Sends
  <1>5. k = 8 => r.key = EarlyK
    BY <1>1, <1>2 DEF Item, KeyOf
  <1> QED BY <1>1, <1>2, <1>3, <1>4, <1>5

\* Early data reaches a server that waits at place n.
Early8(p, e, n, m, msg) == p = "server" => /\ HearAt(p, n, m, msg) /\ m \in Nat /\ 8 < HeardAt(p, m)
                                           /\ EarlyTaken => HeardAt(p, n) < 14

\* What becomes of it.
LEMMA EarlyOutcome ==
  ASSUME NEW e, NEW n, NEW m, NEW msg, NEW r, NEW s, Setting, Early8("server", e, n, m, msg), n \in Nat,
         KeysAt("server", e, n), FlagsAt("server", e, n), EarlySent, r.type = "data", r.key = EarlyK
  PROVE  Outcome("server", e, r, s) = IF EarlyTaken THEN [e EXCEPT !.got = Append(@, EarlyData)] ELSE e
  <1>1. Version = "13"
    BY DEF Setting
  <1>2. EarlyK # Plain /\ EarlyK # HsK
    BY DEF EarlyK, HsK, KeyFor, Plain, Label
  <1>3. HearAt("server", n, m, msg) /\ m \in Nat /\ 8 < HeardAt("server", m)
    BY Zenon DEF Early8
  <1>4. EarlyTaken => HeardAt("server", n) < 14
    BY Zenon DEF Early8
  <1>5. n \in {24, 29, 30, 31}
    BY <1>1, <1>3 DEF HearAt, HeardAt
  <1>6. CASE EarlyTaken
    <2>1. n = 24
      BY <1>1, <1>4, <1>5, <1>6 DEF HeardAt
    <2>2. ReadKey(e) = EarlyK
      BY <1>1, <1>6, <2>1 DEF KeysAt, ReadKeyAt, ReadKey
    <2>3. Has(e, "in_flight") /\ Has(e, "accepted")
      BY <1>6, <2>1 DEF FlagsAt, ServerFlags
    <2>4. ~Discards("server", e, r)
      BY <2>3 DEF Discards
    <2>5. TakeEarly(e) = [e EXCEPT !.got = Append(@, EarlyData)]
      BY DEF TakeEarly, Setting, WithinLimit
    <2> QED BY <1>2, <1>6, <2>2, <2>3, <2>4, <2>5 DEF Outcome
  <1>7. CASE ~EarlyTaken
    <2>1. n # 24
      BY <1>1, <1>3, <1>7 DEF HearAt
    <2>2. ReadKey(e) = HsK
      BY <1>1, <1>5, <1>7, <2>1 DEF KeysAt, ReadKeyAt, ReadKey
    <2>3. Has(e, "in_flight") /\ ~Has(e, "accepted")
      BY <1>5, <1>7, <2>1 DEF FlagsAt, ServerFlags
    <2>4. Discards("server", e, r)
      BY <1>2, <2>2, <2>3 DEF Discards
    <2>5. Discard(e) = e
      BY <1>7 DEF Discard, Setting, WithinLimit
    <2> QED BY <1>7, <2>4, <2>5 DEF Outcome
  <1> QED BY <1>6, <1>7

\* A record that is taken in silence while an engine waits.
LEMMA SilentOK ==
  ASSUME NEW p \in Ends, NEW e, NEW o, NEW h, NEW n, NEW m, NEW msg, NEW r, Meet(p, e, o), ~Past(e), o.wire # <<>>,
         Popped(o, h), r = Head(o.wire), At(p, e).op = "recv", Silent(FirstNo(p, o)), n = Place(e),
         FirstNo(p, o) = 8 => Early8(p, e, n, m, msg)
  PROVE  OK(p, Outcome(p, e, r, At(p, e)), h)
  <1> DEFINE k == FirstNo(p, o)
  <1>1. Setting /\ Local(p, e) /\ HereOK(p, e) /\ DOMAIN e = Fields
    BY DEF Meet, Ready, Local, Core, Control
  <1>2. Item(Peer(p), k, r) /\ k = Slot(Peer(p), First1(Peer(p), o), r)
    BY WireTaken
  <1>3. /\ Version = "13" /\ k \in {3, 6, 7, 8} /\ k # 100
        /\ k # 8 => r.type = "ccs"
        /\ k = 8 => r.type = "data" /\ r.key = EarlyK /\ p = "server" /\ EarlySent
    BY <1>1, <1>2, SilentIs
  <1>4. e.prog \in {"start", "13"} /\ n \in Nat
    BY <1>1, <1>3, ProgOf
  <1>5. Passed(k)
    BY DEF Passed
  <1> DEFINE g == Outcome(p, e, r, At(p, e))
  <1>6. CASE k # 8
    <2>1. g = e
      BY <1>3, <1>4, <1>6 DEF Outcome
    <2>2. e.got = Gains(k, r, e.got)
      BY <1>3, <1>6 DEF Gains
    <2>3. Like(e, e) /\ SameBuffers(e, e)
      BY LikeSelf
    <2>4. OK(p, e, h)
      BY <1>5, <2>2, <2>3, DropOK
    <2> QED BY <2>1, <2>4
  <1>7. CASE k = 8
    <2>1. Stands(p, e, n)
      BY <1>1 DEF HereOK
    <2>2. KeysAt(p, e, n) /\ FlagsAt(p, e, n)
      BY <2>1, StandsParts
    <2>3. p = "server" /\ Early8("server", e, n, m, msg)
      BY <1>3, <1>7
    <2>4. g = IF EarlyTaken THEN [e EXCEPT !.got = Append(@, EarlyData)] ELSE e
      BY <1>1, <1>3, <1>4, <1>7, <2>2, <2>3, EarlyOutcome
    <2>5. CASE EarlyTaken
      <3> DEFINE d == [e EXCEPT !.got = Append(e.got, EarlyData)]
      <3>1. g = d
        BY <2>4, <2>5
      <3>2. Like(e, d) /\ SameBuffers(e, d) /\ d.sent = e.sent /\ d.got = Append(e.got, EarlyData)
        BY <1>1, LikeGot
      <3> HIDE DEF d
      <3>3. d.got = Gains(k, r, e.got)
        BY <1>7, <2>5, <3>2 DEF Gains
      <3>4. OK(p, d, h)
        BY <1>5, <3>2, <3>3, DropOK
      <3> QED BY <3>1, <3>4
    <2>6. CASE ~EarlyTaken
      <3>1. g = e
        BY <2>4, <2>6
      <3>2. e.got = Gains(k, r, e.got)
        BY <1>3, <2>6 DEF Gains
      <3>3. Like(e, e) /\ SameBuffers(e, e)
        BY LikeSelf
      <3>4. OK(p, e, h)
        BY <1>5, <3>2, <3>3, DropOK
      <3> QED BY <3>1, <3>4
    <2> QED BY <2>5, <2>6
  <1> QED BY <1>6, <1>7

\* p reads a record while an engine waits for a message.
LEMMA WaitOK ==
  ASSUME NEW p \in Ends, NEW e, NEW o, NEW h, NEW r, Meet(p, e, o), ~Past(e), o.wire # <<>>,
         Popped(o, h), r = Head(o.wire), At(p, e).op = "recv", ~Skips(p, e, At(p, e)),
         ~Absent(p, e, r, At(p, e))
  PROVE  OK(p, Outcome(p, e, r, At(p, e)), h)
  <1> DEFINE n == Place(e)
             m == Goes(p, n)
             msg == At(p, e).msg
             k == HeardAt(p, m)
             q == Peer(p)
             f == FirstNo(p, o)
  <1>1. Setting /\ Ready(p, e, o)
    BY DEF Meet, Ready
  <1>2. /\ ~e.again /\ n \in Nat /\ n \in Places(p) /\ Stands(p, e, n)
        /\ \/ HearAt(p, n, m, msg)
           \/ AbsentAt(p, n) /\ ~SkipAt(p, n) /\ (n = 12 => mode.hrr) /\ msg = AbsentMsg(n)
    BY <1>1, HearWhere
  <1>3. Item(q, f, r) /\ f = Slot(q, First1(q, o), r)
    BY WireTaken
  <1>4. CASE HearAt(p, n, m, msg)
    <2>1. Waiting(p, e, n, m, msg)
      BY <1>1, <1>4, WaitingIs
    <2>2. m \in Nat
      BY <2>1 DEF Waiting
    <2>3. Awaits(p, n, k)
      BY <1>1, <1>2, <1>4, <2>2, HearAwaits
    <2>4. f = k \/ (Silent(f) /\ f < k /\ Pending(q, f, HeardAt(p, n)) /\ Sends(q, f))
      BY <2>3, FirstFound
    <2>5. CASE f = k
      BY <2>1, <2>5, ExpectedOK
    <2>6. CASE Silent(f) /\ f < k /\ Pending(q, f, HeardAt(p, n)) /\ Sends(q, f)
      <3>1. ASSUME f = 8 PROVE Early8(p, e, n, m, msg)
        <4>1. 8 < k
          BY <2>6, <3>1
        <4>2. p = "server" /\ EarlyTaken => HeardAt(p, n) < 14
          BY <2>6, <3>1 DEF Pending, Peer
        <4> QED BY <1>4, <2>2, <4>1, <4>2 DEF Early8
      <3> HIDE DEF m, msg
      <3>2. Silent(FirstNo(p, o)) /\ (FirstNo(p, o) = 8 => Early8(p, e, n, m, msg))
        BY <2>6, <3>1
      <3> QED BY <3>2, SilentOK
    <2> QED BY <2>4, <2>5, <2>6
  <1>5. CASE AbsentAt(p, n) /\ ~SkipAt(p, n) /\ (n = 12 => mode.hrr) /\ msg = AbsentMsg(n)
    <2>1. /\ Awaits(p, n, Instead(n)) /\ KeyOf(Instead(n)) = ReadKeyAt(p, n)
          /\ \A t, x : Item(q, Instead(n), x) /\ Slot(q, t, x) = Instead(n) =>
                x.type = "hs" /\ x.msg # AbsentMsg(n)
      BY <1>1, <1>2, <1>5, AbsentAwaits
    <2>2. f = Instead(n) \/ (Silent(f) /\ f < Instead(n))
      BY <2>1, FirstFound
    <2>3. p = "client"
      BY <1>5 DEF AbsentAt
    <2>4. f # Instead(n)
      <3> SUFFICES ASSUME f = Instead(n) PROVE FALSE
        OBVIOUS
      <3>1. r.type = "hs" /\ r.msg # msg
        BY <1>3, <1>5, <2>1
      <3>2. Instead(n) \in {5, 11, 9}
        BY DEF Instead
      <3>3. r.key = KeyOf(f)
        BY <1>3, <3>1 DEF Item
      <3>4. KeysAt(p, e, n)
        BY <1>2, StandsParts
      <3>5. r.key = ReadKey(e)
        BY <2>1, <3>3, <3>4 DEF KeysAt, ReadKey
      <3>6. Optional(At(p, e))
        BY <1>5 DEF Optional, AbsentMsg
      <3> QED BY <3>1, <3>5, <3>6 DEF Absent
    <2>5. FirstNo(p, o) = 8 => Early8(p, e, n, m, msg)
      BY <2>3 DEF Early8
    <2> HIDE DEF m, msg
    <2>6. Silent(FirstNo(p, o))
      BY <2>2, <2>4
    <2> QED BY <2>5, <2>6, SilentOK
  <1> QED BY <1>2, <1>4, <1>5

\* An endpoint of TLS 1.2 took up its keys to read.
LEMMA CcsTalk ==
  ASSUME NEW p \in Ends, NEW e, NEW o, NEW h, NEW n, NEW g, Meet(p, e, o), ~Past(e), o.wire # <<>>, Popped(o, h),
         n = Place(e), n \in Nat, CcsHeardAt(p, n), FirstNo(p, o) = HeardAt(p, n + 1), e.prog # "start",
         ~Past(g), g.prog # "start", Place(g) = n + 1, Buffers(g), Unread(g) = Unread(e), Aux(e, g)
  PROVE  Talk(p, g, h)
  <1> DEFINE k == HeardAt(p, n + 1)
             q == Peer(p)
  <1>1. Setting /\ Local(p, e) /\ HereOK(p, e) /\ Talk(p, e, o) /\ Fit(q, o)
    BY DEF Meet, Ready
  <1>2. /\ Awaits(p, n, k) /\ SaidAt(p, n + 1) = SaidAt(p, n) /\ n \in Places(p) /\ n + 1 \in Places(p)
    BY <1>1, CcsAwaits
  <1>3. Buffers(e)
    BY <1>1, FitOf DEF Fit
  <1>4. Taken(p, o, h)
    BY PoppedIs
  <1>5. First1(p, g) = FALSE /\ First1(p, e) = FALSE
    BY NoFirst1
  <1>6. Slots(p, g) = Slots(p, e)
    BY <1>5, SameSlots
  <1>7. g.sent = e.sent /\ g.got = e.got
    BY DEF Aux
  <1>8. q \in Ends /\ k = FirstNo(p, o)
    BY PeerEnds
  <1>9. /\ Fit(p, e) /\ Said(p, e) = SaidAt(p, n) /\ HeardTo(p, e) = HeardAt(p, n)
        /\ SaidAt(p, n) \in 0..17
    BY <1>1, <1>2, <1>3, FitPlace
  <1>10. /\ Fit(p, g) /\ Said(p, g) = SaidAt(p, n + 1) /\ HeardTo(p, g) = HeardAt(p, n + 1)
    BY <1>1, <1>2, FitPlace
  <1> HIDE DEF k, q
  <1>11. Said(p, g) = Said(p, e) /\ Said(p, e) \in 0..104
    BY <1>2, <1>9, <1>10
  <1>12. Listening(p, e, g)
    <2>1. Quiet(p, Said(p, e), Said(p, g))
      BY <1>11, QuietHere
    <2>2. Stays8(p, Said(p, e), Said(p, g))
      BY <1>11 DEF Stays8
    <2>3. Said(p, e) <= Said(p, g)
      BY <1>11, SelfLe, Zenon
    <2> QED BY <1>6, <1>7, <2>1, <2>2, <2>3 DEF Listening
  <1>13. Hearing(p, e, g, k)
    <2>1. Spoken(q, k) /\ k \in 1..17 /\ Alone(q, k, HeardAt(p, n), k)
      BY <1>2 DEF Awaits, q
    <2>2. HeardTo(p, g) = k
      BY <1>10 DEF k
    <2>3. Passes(q, k, k)
      BY <1>1, <1>8, <2>1, PassesHere
    <2>4. k <= k
      BY <2>1
    <2> QED BY <1>7, <1>9, <2>1, <2>2, <2>3, <2>4 DEF Hearing, q
  <1> QED BY <1>1, <1>4, <1>8, <1>9, <1>10, <1>12, <1>13, TalkHear DEF q

\* p reads while it waits for the change cipher spec of TLS 1.2.
LEMMA CcsWaitOK ==
  ASSUME NEW p \in Ends, NEW e, NEW o, NEW h, NEW r, Meet(p, e, o), ~Past(e), o.wire # <<>>,
         Popped(o, h), r = Head(o.wire), At(p, e).op = "recvccs", ~Skips(p, e, At(p, e))
  PROVE  OK(p, Outcome(p, e, r, At(p, e)), h)
  <1> DEFINE n == Place(e)
             q == Peer(p)
             f == ReadInit(e, Key12(e))
             g == Moved(f)
  <1>1. Setting /\ Versions /\ Ready(p, e, o) /\ Local(p, e) /\ HereOK(p, e) /\ Local(q, o) /\ DOMAIN e = Fields
    BY SettingParts DEF Meet, Ready, Local, Core, Control
  <1>2. e.prog # "none"
    BY DEF Past
  <1>3. /\ ~e.again /\ e.prog \in {"12", "12r"} /\ e.pc = Read12(p, e.prog) /\ e.prog = Version
        /\ n = e.pc + 10 /\ CcsHeardAt(p, n) /\ e.pc \in Nat
    BY <1>1, <1>2, CcsHeardWhere
  <1>4. n \in Nat /\ n + 1 = e.pc + 11
    BY <1>3
  <1>5. /\ Awaits(p, n, HeardAt(p, n + 1)) /\ Tr(LastAt(p, n + 1)) = Tr(LastAt(p, n))
        /\ \A t, x : Item(q, HeardAt(p, n + 1), x) /\ Slot(q, t, x) = HeardAt(p, n + 1) => x.type = "ccs"
    BY <1>1, <1>3, <1>4, CcsAwaits
  <1>6. FirstNo(p, o) = HeardAt(p, n + 1)
    <2>1. ~Silent(FirstNo(p, o))
      BY <1>3 DEF Silent
    <2> QED BY <1>5, <2>1, FirstFound
  <1>7. r.type = "ccs"
    <2>1. Item(q, FirstNo(p, o), r) /\ FirstNo(p, o) = Slot(q, First1(q, o), r)
      BY WireTaken
    <2> QED BY <1>5, <1>6, <2>1
  <1>8. Outcome(p, e, r, At(p, e)) = Advance(p, f)
    BY <1>7 DEF Outcome
  <1>9. Running(e)
    BY <1>1, <1>2 DEF Running, HereOK
  <1>10. Local(p, Advance(p, f))
    BY <1>1, <1>7, <1>8, <1>9, RecvGood
  <1>11. Rekeyed(e, f) /\ KeysAt(p, f, e.pc + 11) /\ FlagsAt(p, f, e.pc + 11) /\ KeyStep(p, e.pc + 10)
    BY <1>1, <1>3, Read12Step
  <1>12. Tr(LastAt(p, e.pc + 11)) = Tr(LastAt(p, e.pc + 10))
    BY <1>3, <1>4, <1>5
  <1> HIDE DEF f
  <1>13. Stands(p, Moved(f), e.pc + 11) /\ Unread(f) = Unread(e) /\ Buffers(f)
    BY <1>1, <1>3, <1>11, <1>12, KeyStands
  <1>14. /\ DOMAIN f = Fields /\ f.err = "none" /\ f.prog = e.prog /\ f.pc = e.pc /\ Aux(e, f)
    BY <1>1 , <1>11 DEF Rekeyed, SameControl, HereOK
  <1>15. /\ g.pc = f.pc + 1 /\ g.again = FALSE /\ g.prog = f.prog /\ Aux(f, g)
         /\ Unread(g) = Unread(f) /\ Buffers(g)
    BY <1>13, <1>14, MovedFields, AuxMoved, UnreadMoved
  <1> HIDE DEF g
  <1>16. Aux(e, g)
    BY <1>14, <1>15, AuxTwice
  <1>17. g.prog # "start" /\ e.prog # "start" /\ ~Past(g)
    BY <1>3, <1>14, <1>15 DEF Past
  <1>18. Place(g) = n + 1
    BY <1>3, <1>14, <1>15, <1>17 DEF Place, Reach
  <1>19. Talk(p, g, h)
    BY <1>3, <1>4, <1>6, <1>13, <1>15, <1>16, <1>17, <1>18, CcsTalk
  <1>20. Fit(q, h)
    BY PoppedIs
  <1>21. Talk(p, Moved(f), h) /\ Stands(p, Moved(f), f.pc + 11) /\ f.prog = Version /\ f.pc \in Nat
    BY <1>3, <1>13, <1>14, <1>19 DEF g
  <1>22. OK(p, Advance(p, f), h)
    BY <1>1, <1>10, <1>13, <1>14, <1>20, <1>21, AdvanceOK
  <1> QED BY <1>8, <1>22

\* An optional message does not come.
LEMMA AbsentOK ==
  ASSUME NEW p \in Ends, NEW e, NEW o, NEW r, Meet(p, e, o), ~Past(e), o.wire # <<>>,
         r = Head(o.wire), At(p, e).op = "recv", ~Skips(p, e, At(p, e)), Absent(p, e, r, At(p, e))
  PROVE  OK(p, Advance(p, e), o)
  <1> DEFINE n == Place(e)
             m == Goes(p, n)
             msg == At(p, e).msg
             k == HeardAt(p, m)
             q == Peer(p)
             f == FirstNo(p, o)
  <1>1. Setting /\ Versions /\ Ready(p, e, o) /\ Local(p, e) /\ HereOK(p, e) /\ Talk(p, e, o) /\ Fit(q, o)
    BY SettingParts DEF Meet, Ready
  <1>2. /\ ~e.again /\ n \in Nat /\ n \in Places(p) /\ Stands(p, e, n)
        /\ \/ HearAt(p, n, m, msg)
           \/ AbsentAt(p, n) /\ ~SkipAt(p, n) /\ (n = 12 => mode.hrr) /\ msg = AbsentMsg(n)
    BY <1>1, HearWhere
  <1>3. Item(q, f, r) /\ f = Slot(q, First1(q, o), r)
    BY WireTaken
  <1>4. Optional(At(p, e)) /\ r.type = "hs" /\ r.msg # msg
    BY DEF Absent
  <1>5. ASSUME HearAt(p, n, m, msg) PROVE FALSE
    <2>1. Waiting(p, e, n, m, msg)
      BY <1>1, <1>5, WaitingIs
    <2>2. m \in Nat
      BY <2>1 DEF Waiting
    <2>3. Awaits(p, n, k)
      BY <1>1, <1>2, <1>5, <2>2, HearAwaits
    <2>4. f = k \/ Silent(f)
      BY <2>3, FirstFound
    <2>5. ASSUME f = k PROVE FALSE
      BY <1>4, <2>1, <2>5, ExpectedIs
    <2>6. ASSUME Silent(f) PROVE FALSE
      BY <1>1, <1>3, <1>4, <2>6, SilentIs
    <2> QED BY <2>4, <2>5, <2>6
  <1>6. AbsentAt(p, n)
    BY <1>2, <1>5
  <1>7. e.err = "none" /\ e.prog # "none"
    BY <1>1 DEF HereOK, Past
  <1>8. Running(e)
    BY <1>7 DEF Running
  <1>9. Local(p, Advance(p, e))
    BY <1>1, <1>4, <1>8, PlainGood DEF Good
  <1>10. CASE e.prog = "start"
    <2>1. p = "client"
      BY <1>6 DEF AbsentAt
    <2>2. msg \in {"HelloRetryRequest", "CertificateRequest"}
      BY <1>4 DEF Optional
    <2>3. e.pc = 2
      BY <1>1, <1>7, <1>10, <2>1, <2>2, RecvPositions
    <2> QED BY <1>1, <1>2, <1>6, <1>10, <2>1, <2>3, StartGoes
  <1>11. CASE e.prog # "start"
    <2>1. e.prog \in {"13", "12", "12r"}
      BY <1>11 DEF Past
    <2>2. n = e.pc + 10
      BY <1>1, <1>2, <1>11, ProgOf
    <2>3. AbsentAt(p, e.pc + 10)
      BY <1>6, <2>2
    <2> QED BY <1>1, <1>2, <1>9, <2>1, <2>3, NothingOK
  <1> QED BY <1>10, <1>11

-----------------------------------------------------------------------------
(* After the handshake.                                                      *)

\* An endpoint that is through with the initial handshake.
LEMMA RestedIs ==
  ASSUME NEW p \in Ends, NEW e, Setting, Local(p, e), HereOK(p, e), Past(e)
  PROVE  /\ Rested(p, e) /\ e.q = <<>> /\ e.keys[e.we].w = LateK /\ ReadKey(e) = LateK /\ e.done /\ ~e.started
         /\ DOMAIN e = Fields /\ Buffers(e) /\ First1(p, e) = FALSE /\ Fit(p, e) /\ e.err = "none"
         /\ e.prog \in {"none", "reauth", "ticket"} /\ (e.prog = "ticket" => p = "server")
         /\ Version = "13" => Rests13(p, e)
         /\ Version # "13" => e.auths = 0 /\ e.prog = "none"
         /\ e.pc \in Nat
  <1>1. Rested(p, e) /\ e.err = "none"
    BY DEF HereOK
  <1>2. /\ e.q = <<>> /\ e.keys[e.we].w = LateK /\ ReadKey(e) = LateK /\ e.done /\ ~e.started
        /\ (Version = "13" => Rests13(p, e)) /\ (Version # "13" => e.auths = 0)
    BY <1>1 DEF Rested, ReadKey
  <1>3. Versions /\ Control(p, e) /\ DOMAIN e = Fields /\ Buffers(e)
    BY SettingParts DEF Local, Core, Control, ItemsOK, Buffers
  <1>4. /\ e.prog \in {"none", "reauth", "ticket"} /\ (e.prog = "ticket" => p = "server") /\ e.pc \in Nat
        /\ e.prog \in {"reauth", "ticket"} => Version = "13"
    BY <1>3, Where
  <1>5. First1(p, e) = FALSE
    BY <1>4, NoFirst1
  <1>6. Fit(p, e)
    BY FitOf
  <1> QED BY <1>1, <1>2, <1>3, <1>4, <1>5, <1>6

\* What it said and heard.
LEMMA LateNumbers ==
  ASSUME NEW p \in Ends, NEW e, Setting, Local(p, e), HereOK(p, e), Past(e)
  PROVE  /\ Said(p, e) \in 100..104 /\ HeardTo(p, e) \in 100..104
         /\ p = "client" => HeardTo(p, e) \in {100, 101}
         /\ p = "server" => Said(p, e) \in {100, 101}
         /\ e.prog # "reauth" /\ e.auths = 0 => Said(p, e) = 100 /\ HeardTo(p, e) = 100
         /\ e.auths \in {0, 1} /\ (e.prog = "reauth" => e.auths = 0)
         /\ Said(p, e) = AuthSaid(p, e) /\ HeardTo(p, e) = AuthHeard(p, e)
  <1>1. Versions
    BY SettingParts
  <1>2. e.auths \in {0, 1} /\ (e.prog = "reauth" => e.auths = 0)
    BY RestedIs DEF Rests13
  <1>3. Said(p, e) = AuthSaid(p, e) /\ HeardTo(p, e) = AuthHeard(p, e)
    BY DEF Said, HeardTo
  <1>4. CASE e.prog = "reauth"
    <2>1. /\ Reach(e) \in Nat
          /\ p = "client" => Reach(e) \in 1..4
          /\ p = "server" => Reach(e) \in 1..4
      BY <1>1, <1>4, LaterReach
    <2> HIDE DEF Reach
    <2>2. CASE p = "client"
      BY <1>2, <1>3, <1>4, <2>1, <2>2 DEF AuthSaid, AuthHeard
    <2>3. CASE p = "server"
      BY <1>2, <1>3, <1>4, <2>1, <2>3 DEF AuthSaid, AuthHeard
    <2> QED BY <2>2, <2>3 DEF Ends
  <1>5. CASE e.prog # "reauth"
    BY <1>2, <1>3, <1>5 DEF AuthSaid, AuthHeard
  <1> QED BY <1>4, <1>5

\* The records of an endpoint are the same if its buffers and keys are.
LEMMA SameUnread ==
  ASSUME NEW e, NEW g, SameBuffers(e, g), e.q = <<>>, Buffers(e)
  PROVE  Unread(g) = Unread(e) /\ Buffers(g) /\ g.q = <<>>
  <1>1. Unread(g) = Unread(e)
    BY UnreadKept
  <1> QED BY <1>1 DEF Buffers, SameBuffers

\* p goes on without a word.
Lates(p, e, g) ==
    /\ Said(p, e) <= Said(p, g) /\ HeardTo(p, e) <= HeardTo(p, g) /\ Said(p, g) \in 100..104 /\ HeardTo(p, g) \in 100..104
    /\ Quiet(p, Said(p, e), Said(p, g)) /\ Quiet(Peer(p), HeardTo(p, e), HeardTo(p, g))
    /\ HeardTo(p, e) < 102 => HeardTo(p, g) < 102

\* The conversation goes on when an endpoint moves without a word after the handshake.
LEMMA LatePass ==
  ASSUME NEW p \in Ends, NEW e, NEW g, NEW o, Ready(p, e, o), Past(e), Past(g), SameBuffers(e, g), g.sent = e.sent,
         g.got = e.got, Lates(p, e, g)
  PROVE  Talk(p, g, o)
  <1>1. Setting /\ Local(p, e) /\ HereOK(p, e) /\ Talk(p, e, o) /\ Fit(Peer(p), o)
    BY DEF Ready
  <1>2. e.q = <<>> /\ Buffers(e) /\ First1(p, e) = FALSE /\ Fit(p, e)
    BY <1>1, RestedIs
  <1>3. First1(p, g) = FALSE
    BY NoFirst1 DEF Past
  <1>4. Unread(g) = Unread(e) /\ Buffers(g)
    BY <1>2, SameUnread
  <1>5. Slots(p, g) = Slots(p, e)
    BY <1>2, <1>3, <1>4, SameSlots
  <1>6. Fit(p, g)
    BY <1>4 DEF Fit, Ranged, Lates
  <1>7. Said(p, e) \in 100..104 /\ HeardTo(p, e) \in 100..104
    BY <1>1, LateNumbers
  <1>8. StillPending(Peer(p), HeardTo(p, e), HeardTo(p, g))
    BY <1>7 DEF StillPending, Pending
  <1>9. Stays8(p, Said(p, e), Said(p, g))
    BY <1>7 DEF Stays8, Lates
  <1>10. Passing(p, e, g)
    BY <1>4, <1>5, <1>8, <1>9 DEF Passing, Lates
  <1> QED BY <1>1, <1>2, <1>6, <1>10, TalkPass

-----------------------------------------------------------------------------
(* The application.                                                          *)

\* gnutls_reauth starts.
LEMMA ReauthOK ==
  ASSUME NEW e, NEW o, Ready("server", e, o), e.prog = "none", e.auths = 0, Version = "13", mode.reauth
  PROVE  OK("server", [e EXCEPT !.tr = e.saved, !.prog = "reauth"], o)
  <1> DEFINE g == [e EXCEPT !.tr = e.saved, !.prog = "reauth"]
  <1>0. "server" \in Ends
    BY DEF Ends
  <1>1. Setting /\ Versions /\ Local("server", e) /\ HereOK("server", e) /\ Past(e)
    BY SettingParts DEF Ready, Past
  <1>2. /\ Rested("server", e) /\ DOMAIN e = Fields /\ e.q = <<>> /\ Rests13("server", e) /\ e.err = "none"
    BY <1>0, <1>1, RestedIs
  <1>3. ~e.again /\ e.pc = 1
    BY <1>0, <1>1, Resting
  <1>4. /\ g.prog = "reauth" /\ g.tr = e.saved /\ g.pc = 1 /\ ~g.again /\ g.auths = 0 /\ SameEpochs(e, g)
        /\ SameBuffers(e, g) /\ g.flags = e.flags /\ g.saved = e.saved /\ g.err = e.err /\ g.done = e.done
        /\ g.started = e.started /\ g.sent = e.sent /\ g.got = e.got
    BY <1>2, <1>3 DEF SameEpochs, SameBuffers, Fields
  <1> HIDE DEF g
  <1>5. Past(g) /\ Reach(g) = 1
    BY <1>4 DEF Past, Reach
  <1>6. AuthSaid("server", g) = 100 /\ AuthHeard("server", g) = 100
    BY <1>4, <1>5 DEF AuthSaid, AuthHeard
  <1>7. Said("server", g) = 100 /\ HeardTo("server", g) = 100
    BY <1>5, <1>6 DEF Said, HeardTo
  <1>8. Said("server", e) = 100 /\ HeardTo("server", e) = 100
    BY <1>0, <1>1, LateNumbers
  <1>9. Rests13("server", g)
    <2>1. Later(100, 100) = 100
      BY DEF Later
    <2>2. Tr(100) = Tr(17)
      BY TrEarly
    <2>3. g.tr = Tr(Later(AuthSaid("server", g), AuthHeard("server", g)))
      BY <1>2, <1>4, <1>6, <2>1, <2>2 DEF Rests13
    <2>4. Has(g, "in_flight") = Has(e, "in_flight") /\ Has(g, "crt_vrfy_expected") = Has(e, "crt_vrfy_expected")
      BY <1>4 DEF Has
    <2>5. ~(Reach(g) >= 3)
      BY <1>5
    <2> QED BY <1>2, <1>4, <2>3, <2>4, <2>5 DEF Rests13
  <1>10. Rested("server", g)
    BY <1>2, <1>4, <1>9 DEF Rested, SameEpochs, SameBuffers
  <1>11. HereOK("server", g)
    BY <1>2, <1>4, <1>5, <1>10 DEF HereOK
  <1>12. Lates("server", e, g)
    <2>1. 100 \in 0..104 /\ 100 \in 100..104 /\ 100 <= 100 /\ 100 < 102
      OBVIOUS
    <2>2. Quiet("server", 100, 100) /\ Quiet(Peer("server"), 100, 100)
      BY <2>1, QuietHere
    <2> QED BY <1>7, <1>8, <2>1, <2>2 DEF Lates
  <1>13. Talk("server", g, o)
    BY <1>0, <1>1, <1>4, <1>5, <1>12, LatePass
  <1>14. OK("server", g, o)
    BY <1>11, <1>13 DEF OK
  <1> QED BY <1>14 DEF g

\* gnutls_session_ticket_send starts.
LEMMA TicketStartOK ==
  ASSUME NEW e, NEW o, Ready("server", e, o), e.prog = "none", Version = "13"
  PROVE  OK("server", [e EXCEPT !.prog = "ticket", !.extra = TRUE], o)
  <1> DEFINE g == [e EXCEPT !.prog = "ticket", !.extra = TRUE]
  <1>0. "server" \in Ends
    BY DEF Ends
  <1>1. Setting /\ Versions /\ Local("server", e) /\ HereOK("server", e) /\ Past(e)
    BY SettingParts DEF Ready, Past
  <1>2. /\ Rested("server", e) /\ DOMAIN e = Fields /\ e.q = <<>> /\ Rests13("server", e) /\ e.err = "none"
    BY <1>0, <1>1, RestedIs
  <1>4. /\ g.prog = "ticket" /\ g.auths = e.auths /\ SameEpochs(e, g)
        /\ SameBuffers(e, g) /\ g.flags = e.flags /\ g.saved = e.saved /\ g.err = e.err /\ g.done = e.done
        /\ g.started = e.started /\ g.sent = e.sent /\ g.got = e.got
    BY <1>2 DEF SameEpochs, SameBuffers, Fields
  <1> HIDE DEF g
  <1>5. Past(g)
    BY <1>4 DEF Past
  <1>6. AuthSaid("server", g) = AuthSaid("server", e) /\ AuthHeard("server", g) = AuthHeard("server", e)
    BY <1>4 DEF AuthSaid, AuthHeard
  <1>7. Said("server", g) = Said("server", e) /\ HeardTo("server", g) = HeardTo("server", e)
    BY <1>1, <1>5, <1>6 DEF Said, HeardTo
  <1>8. Said("server", e) \in 100..104 /\ HeardTo("server", e) \in 100..104
    BY <1>0, <1>1, LateNumbers
  <1>9. Rests13("server", g)
    <2>1. Has(g, "in_flight") = Has(e, "in_flight") /\ Has(g, "crt_vrfy_expected") = Has(e, "crt_vrfy_expected")
      BY <1>4 DEF Has
    <2> QED BY <1>2, <1>4, <2>1 DEF Rests13
  <1>10. Rested("server", g)
    BY <1>2, <1>4, <1>9 DEF Rested, SameEpochs, SameBuffers
  <1>11. HereOK("server", g)
    BY <1>2, <1>4, <1>5, <1>10 DEF HereOK
  <1>12. Lates("server", e, g)
    <2>1. \A x \in 100..104 : x \in 0..104 /\ x <= x
      OBVIOUS
    <2>2. Quiet("server", Said("server", e), Said("server", e)) /\ Quiet(Peer("server"), HeardTo("server", e), HeardTo("server", e))
      BY <1>8, <2>1, QuietHere
    <2> QED BY <1>7, <1>8, <2>1, <2>2 DEF Lates
  <1>13. Talk("server", g, o)
    BY <1>0, <1>1, <1>4, <1>5, <1>12, LatePass
  <1>14. OK("server", g, o)
    BY <1>11, <1>13 DEF OK
  <1> QED BY <1>14 DEF g

\* There is no re-authentication before TLS 1.3.
LEMMA OldHeard ==
  ASSUME NEW p \in Ends, NEW o, Setting, Local(p, o), HereOK(p, o), Version # "13"
  PROVE  HeardTo(p, o) \in 0..100
  <1>1. CASE Past(o)
    <2>1. o.auths = 0 /\ o.prog = "none"
      BY <1>1, RestedIs
    <2> QED BY <1>1, <2>1, LateNumbers
  <1>2. CASE ~Past(o)
    <2>1. Place(o) \in Places(p)
      BY <1>2, ProgOf
    <2>2. HeardAt(p, Place(o)) \in 0..17
      BY <2>1, SaidRange, SettingParts
    <2>3. HeardTo(p, o) = HeardAt(p, Place(o))
      BY <1>2 DEF HeardTo
    <2> QED BY <2>2, <2>3
  <1> QED BY <1>1, <1>2

\* A client that has not authenticated again was not heard to.
LEMMA NotYet ==
  ASSUME NEW e, NEW o, Meet("client", e, o), Said("client", e) <= 101
  PROVE  HeardTo("server", o) < 102
  <1>0. "client" \in Ends /\ "server" \in Ends /\ Peer("client") = "server"
    BY DEF Ends, Peer
  <1>1. Setting /\ Local("server", o) /\ HereOK("server", o) /\ Talk("client", e, o) /\ Fit("server", o)
    BY <1>0 DEF Meet, Ready
  <1>2. Said("client", e) \in 0..104 /\ HeardTo("server", o) \in 0..104
    BY <1>0, <1>1, FitOf DEF Fit, Ranged, Meet, Ready
  <1>3. CASE Version # "13"
    BY <1>0, <1>1, <1>3, OldHeard
  <1>4. CASE Version = "13"
    <2>1. Spoken("client", 102)
      BY <1>4 DEF Spoken, Sends, Silent
    <2>2. Sane("client", HeardTo("server", o), Said("client", e))
      BY <1>0, <1>1, Zenon DEF Talk, Flow, Line
    <2>3. 102 <= HeardTo("server", o) => 102 <= Said("client", e)
      <3>1. 102 \in 1..104
        OBVIOUS
      <3> QED BY <2>1, <2>2, <3>1, Zenon DEF Sane
    <2> QED BY <1>2, <2>3
  <1> QED BY <1>3, <1>4

\* Who may send data has nothing waiting and its last key.
LEMMA OpenIs ==
  ASSUME NEW p \in Ends, NEW e, NEW o, Meet(p, e, o), Open(e)
  PROVE  /\ LateFits(p, HeardTo(Peer(p), o), Said(p, e)) /\ e.keys[e.we].w = LateK /\ e.q = <<>>
         /\ First1(p, e) = FALSE /\ DOMAIN e = Fields /\ Buffers(e)
  <1>1. Setting /\ Local(p, e) /\ HereOK(p, e) /\ Talk(p, e, o) /\ Versions
    BY SettingParts DEF Meet, Ready
  <1>2. DOMAIN e = Fields /\ Buffers(e)
    BY <1>1 DEF Local, Core, Control, ItemsOK, Buffers
  <1>3. LastOwn(p) \in 13..17
    BY LastOwnRange
  <1>4. CASE Past(e)
    <2>1. e.q = <<>> /\ e.keys[e.we].w = LateK /\ First1(p, e) = FALSE /\ ~e.started
      BY <1>1, <1>4, RestedIs
    <2>2. e.prog = "none"
      BY <2>1 DEF Open
    <2>3. Said(p, e) = AuthSaid(p, e) /\ e.auths \in {0, 1} /\ Said(p, e) \in 100..104
      BY <1>1, <1>4, LateNumbers
    <2>4. p = "client" => Said(p, e) \in {100, 104}
      BY <2>2, <2>3 DEF AuthSaid
    <2>5. p = "client" /\ Said(p, e) = 100 => HeardTo(Peer(p), o) < 102
      <3>1. Peer("client") = "server"
        BY DEF Peer
      <3>2. Said(p, e) = 100 => Said(p, e) <= 101
        OBVIOUS
      <3> QED BY <3>1, <3>2, NotYet
    <2>6. LateFits(p, HeardTo(Peer(p), o), Said(p, e))
      BY <1>3, <2>3, <2>4, <2>5 DEF LateFits
    <2> QED BY <1>2, <2>1, <2>6
  <1>5. CASE ~Past(e)
    <2> DEFINE n == Place(e)
    <2>1. Stands(p, e, n)
      BY <1>1, <1>5 DEF HereOK
    <2>2. e.started
      BY <1>5 DEF Open, Past
    <2>3. n \in Nat /\ e.pc \in Nat /\ (e.prog # "start" /\ ~e.again => n = e.pc + 10)
      BY <1>1, <1>5, ProgOf
    <2>4. Said(p, e) = SaidAt(p, n)
      BY <1>5 DEF Said
    <2>5. KeysAt(p, e, n) /\ QueueOK(p, e) /\ Notes(p, e, n)
      BY <2>1, StandsParts
    <2>6. StartedAt(p, n)
      BY <2>2, <2>5 DEF Notes
    <2> HIDE DEF n
    <2>7. Version = "13" \/ Version = "12"
      BY <2>6 DEF StartedAt
    <2>8. CASE p = "server"
      <3>1. Version = "13" /\ n >= 29
        BY <2>6, <2>8 DEF StartedAt
      <3>2. SaidAt(p, n) = 13 /\ LastOwn(p) = 13 /\ WriteKeyAt(p, n) = AppK /\ LateK = AppK
        BY <2>3, <2>8, <3>1 DEF SaidAt, LastOwn, WriteKeyAt, LateK
      <3>3. e.q = <<>>
        BY <2>3, <2>5, <2>8, <3>1 DEF QueueOK, QueueEnd
      <3>4. First1(p, e) = FALSE
        BY <2>8 DEF First1
      <3>5. LateFits(p, HeardTo(Peer(p), o), Said(p, e))
        BY <2>4, <2>8, <3>2 DEF LateFits
      <3> QED BY <1>2, <2>5, <3>2, <3>3, <3>4, <3>5 DEF KeysAt
    <2>9. CASE p = "client"
      <3>1. Version = "12" /\ n >= 25
        BY <2>6, <2>9 DEF StartedAt
      <3>2. SaidAt(p, n) = 14 /\ LastOwn(p) = 14 /\ WriteKeyAt(p, n) = K12 /\ LateK = K12
        BY <2>3, <2>9, <3>1 DEF SaidAt, LastOwn, WriteKeyAt, LateK, Write12
      <3>3. e.q = <<>>
        BY <2>3, <2>5, <2>9, <3>1 DEF QueueOK, QueueEnd
      <3>4. First1(p, e) = FALSE
        BY <1>1, <2>9, <3>1 DEF First1, Setting
      <3>5. HeardTo(Peer(p), o) < 102
        <4>1. Local(Peer(p), o) /\ HereOK(Peer(p), o) /\ Peer(p) \in Ends
          BY PeerEnds DEF Meet
        <4> QED BY <1>1, <3>1, <4>1, OldHeard
      <3>6. LateFits(p, HeardTo(Peer(p), o), Said(p, e))
        BY <2>4, <2>9, <3>2, <3>5 DEF LateFits
      <3> QED BY <1>2, <2>5, <3>2, <3>3, <3>4, <3>6 DEF KeysAt
    <2> QED BY <2>8, <2>9 DEF Ends
  <1> QED BY <1>4, <1>5

\* Data is written.
Wrote(e, g, r) == /\ g.wire = Append(e.wire, r) /\ g.out = e.out /\ g.q = e.q /\ g.sent = e.sent + 1
                  /\ g.got = e.got /\ Like(e, g)

\* What a write of data changes.
LEMMA WroteIs ==
  ASSUME NEW e, NEW r, DOMAIN e = Fields
  PROVE  Wrote(e, [e EXCEPT !.sent = @ + 1, !.wire = Append(@, r)], r)
  BY DEF Wrote, Like, SameControl, SameEpochs, SameSecrets, Fields

\* The record of data.
LEMMA DataRecord ==
  ASSUME NEW p \in Ends, NEW n \in Nat
  PROVE  LET r == Record("data", n + 1, {}, <<>>, LateK)
         IN  (\A h : Slot(p, h, r) = 100) /\ Item(p, 100, r) /\ r.type = "data" /\ r.msg = n + 1
  <1> DEFINE r == Record("data", n + 1, {}, <<>>, LateK)
  <1>1. r.type = "data" /\ r.msg = n + 1 /\ r.key = LateK
    BY DEF Record
  <1>2. LateK.stage # "early"
    BY Stages
  <1> HIDE DEF r
  <1>3. \A h : Slot(p, h, r) = 100
    BY <1>1, <1>2 DEF Slot
  <1>4. KeyOf(100) = LateK
    BY DEF KeyOf
  <1>5. n + 1 \in Nat \ {0}
    OBVIOUS
  <1>6. Item(p, 100, r)
    BY <1>1, <1>4, <1>5 DEF Item
  <1> QED BY <1>1, <1>3, <1>6 DEF r

\* gnutls_record_send.
LEMMA AppSendOK ==
  ASSUME NEW p \in Ends, NEW e, NEW o, Meet(p, e, o), Open(e), e.out = <<>>
  PROVE  OK(p, [e EXCEPT !.sent = @ + 1, !.wire = Append(@, Record("data", e.sent + 1, {}, <<>>, e.keys[e.we].w))], o)
  <1> DEFINE r == Record("data", e.sent + 1, {}, <<>>, e.keys[e.we].w)
             g == [e EXCEPT !.sent = @ + 1, !.wire = Append(@, r)]
  <1>1. Setting /\ Local(p, e) /\ HereOK(p, e) /\ Talk(p, e, o) /\ Fit(Peer(p), o)
    BY DEF Meet, Ready
  <1>2. /\ LateFits(p, HeardTo(Peer(p), o), Said(p, e)) /\ e.keys[e.we].w = LateK /\ e.q = <<>>
        /\ First1(p, e) = FALSE /\ DOMAIN e = Fields /\ Buffers(e)
    BY OpenIs
  <1>3. Fit(p, e)
    BY <1>1, FitOf
  <1>4. Wrote(e, g, r)
    BY <1>2, WroteIs
  <1>5. e.sent \in Nat
    BY <1>1 DEF Talk, DataOK
  <1>6. r = Record("data", e.sent + 1, {}, <<>>, LateK)
    BY <1>2
  <1> HIDE DEF r, g
  <1>7. (\A h : Slot(p, h, r) = 100) /\ Item(p, 100, r) /\ r.type = "data" /\ r.msg = e.sent + 1
    BY <1>5, <1>6, DataRecord
  <1>8. HereOK(p, g) /\ Alike(e, g)
    BY <1>1, <1>4, HereLike DEF Wrote
  <1>9. Said(p, g) = Said(p, e) /\ HeardTo(p, g) = HeardTo(p, e) /\ First1(p, g) = First1(p, e)
    BY <1>8, AlikeSaid
  <1>10. Unread(g) = Append(Unread(e), r) /\ Buffers(g)
    BY <1>2, <1>4, UnreadData DEF Wrote
  <1>11. Fit(p, g)
    BY <1>3, <1>9, <1>10 DEF Fit, Ranged
  <1>12. Grows(p, e, g, r, 100)
    BY <1>2, <1>7, <1>9, <1>10, Zenon DEF Grows
  <1>13. IsLate(100)
    BY DEF IsLate
  <1>14. Adding(p, e, g, r, 100, HeardTo(Peer(p), o))
    BY <1>2, <1>4, <1>7, <1>9, <1>12, <1>13 DEF Adding, Wrote
  <1>15. Talk(p, g, o)
    BY <1>1, <1>3, <1>11, <1>14, TalkLate
  <1>16. OK(p, g, o)
    BY <1>8, <1>15 DEF OK
  <1> QED BY <1>16 DEF r, g

-----------------------------------------------------------------------------
(* Reading after the handshake.                                              *)

\* After the handshake the next message of the script comes first, or data or
\* a ticket.
LEMMA LateNext ==
  ASSUME NEW p \in Ends, Versions, NEW K \in Seq(Nat), K # <<>>, NEW a \in 0..104, NEW b \in 0..104,
         Line(p, K, a, b), a >= 17, NEW k \in 101..104, Spoken(p, k), a < k, Alone(p, k, a, k)
  PROVE  K[1] = 100 \/ K[1] = k
  <1>1. K[1] = 100 \/ (Spoken(p, K[1]) /\ a < K[1] /\ K[1] <= b)
    BY FirstLate
  <1>2. SUFFICES ASSUME K[1] # 100, K[1] # k PROVE FALSE
    OBVIOUS
  <1>3. Spoken(p, K[1]) /\ a < K[1] /\ K[1] <= b
    BY <1>1, <1>2
  <1>4. K[1] \in Nat /\ 1 \in 1..Len(K) /\ Len(K) \in Nat
    BY Shorter
  <1>5. K[1] \in 1..104
    <2>1. \A x \in Nat : a < x /\ x <= b => x \in 1..104
      OBVIOUS
    <2> QED BY <1>3, <1>4, <2>1
  <1>6. ~(K[1] <= k)
    BY <1>2, <1>3, <1>5, Zenon DEF Alone
  <1>7. k \in 1..104 /\ k <= b /\ K[1] > k
    BY <1>3, <1>4, <1>6
  <1>8. Whole(p, K, a, b) /\ Ordered(K)
    BY DEF Line
  <1>9. PICK i \in 1..Len(K) : K[i] = k
    BY <1>7, <1>8, Zenon DEF Whole
  <1>10. 1 < i
    BY <1>2, <1>4, <1>9
  <1>11. Before(K[1], k)
    BY <1>4, <1>8, <1>9, <1>10 DEF Ordered
  <1> QED BY <1>2, <1>4, <1>7, <1>11, SMTT(40) DEF Before

\* The record in front of an endpoint that is through with the handshake.
Late(p, o, k, r) == /\ Item(p, k, r) /\ k = Slot(p, First1(p, o), r) /\ k \in Nat
                    /\ k = 100 \/ (Spoken(p, k) /\ k \in 101..104)

\* The first record after the handshake: data, a ticket or the next of a re-authentication.
LEMMA LateFirst ==
  ASSUME NEW p \in Ends, NEW e, NEW o, NEW q, NEW k, Meet(p, e, o), Past(e), o.wire # <<>>, q = Peer(p),
         k = FirstNo(p, o)
  PROVE  /\ Late(q, o, k, Head(o.wire))
         /\ k # 100 => HeardTo(p, e) < k /\ k <= Said(q, o)
         /\ \A j \in 101..104 : Spoken(q, j) /\ HeardTo(p, e) < j /\ Alone(q, j, HeardTo(p, e), j) => k = 100 \/ k = j
  <1> DEFINE K == Slots(q, o)
             a == HeardTo(p, e)
             b == Said(q, o)
             h == [o EXCEPT !.wire = Tail(@)]
  <1>1. Setting /\ Versions /\ q \in Ends /\ Flow(q, o, e) /\ Fit(q, o) /\ Local(p, e) /\ HereOK(p, e) /\ Peer(q) = p
    BY PeerEnds DEF Meet, Ready, Setting, Talk
  <1>2. b \in 0..104
    BY <1>1 DEF Fit, Ranged
  <1>3. a \in 100..104
    BY <1>1, LateNumbers
  <1>4. Consumed(p, o, h)
    BY WireTaken DEF Taken
  <1>5. K \in Seq(Nat) /\ K # <<>> /\ K[1] = k
    BY <1>4, SlotsLess
  <1>6. Line(q, K, a, b)
    BY <1>1 DEF Flow
  <1>7. Item(q, k, Head(o.wire)) /\ k = Slot(q, First1(q, o), Head(o.wire)) /\ k \in Nat
    BY WireTaken
  <1> HIDE DEF K, a, b, h
  <1>8. a \in 0..104 /\ a >= 17
    BY <1>3
  <1>9. k = 100 \/ (Spoken(q, k) /\ a < k /\ k <= b)
    BY <1>1, <1>2, <1>5, <1>6, <1>8, FirstLate, ZenonT(40)
  <1>10. k # 100 => k \in 101..104
    BY <1>2, <1>3, <1>7, <1>9
  <1>11. \A j \in 101..104 : Spoken(q, j) /\ a < j /\ Alone(q, j, a, j) => k = 100 \/ k = j
    BY <1>1, <1>2, <1>5, <1>6, <1>8, LateNext, ZenonT(40)
  <1>12. Late(q, o, k, Head(o.wire))
    BY <1>7, <1>9, <1>10 DEF Late
  <1> QED BY <1>9, <1>11, <1>12 DEF a, b

\* What it says.
LEMMA LateRecord ==
  ASSUME NEW q \in Ends, NEW o, NEW k, NEW r, Setting, Late(q, o, k, r)
  PROVE  /\ r.key = LateK /\ r.type # "ccs"
         /\ k = 100 => \/ r.type = "data"
                       \/ r.type = "hs" /\ r.msg = "NewSessionTicket" /\ q = "server" /\ Version = "13"
         /\ k # 100 => /\ r.type = "hs" /\ r.msg = MsgOf(k) /\ Version = "13" /\ r.info = InfoOf(q, k)
                       /\ q = "server" <=> k = 101
         /\ k = 104 => r.ctx = Tr(103)
  <1>1. Item(q, k, r) /\ k = Slot(q, First1(q, o), r) /\ Three
    BY SettingParts DEF Late
  <1>2. k >= 100 /\ KeyOf(k) = LateK
    BY DEF Late, KeyOf
  <1>3. r.type \in {"hs", "ccs", "data"} /\ r.type # "ccs"
    BY <1>1, <1>2 DEF Item, Slot
  <1>4. r.key = LateK
    BY <1>1, <1>2, <1>3 DEF Item
  <1>5. k = 100 /\ r.type = "hs" => r.msg = "NewSessionTicket" /\ q = "server" /\ Version = "13"
    <2> SUFFICES ASSUME k = 100, r.type = "hs" PROVE r.msg = "NewSessionTicket" /\ q = "server" /\ Version = "13"
      OBVIOUS
    <2>1. CASE Version = "13" /\ q = "client"
      BY <1>1, <2>1 DEF Slot
    <2>2. CASE Version = "13" /\ q = "server"
      BY <1>1, <2>2 DEF Slot
    <2>3. CASE Version # "13" /\ q = "client"
      BY <1>1, <2>3 DEF Slot
    <2>4. CASE Version # "13" /\ q = "server"
      BY <1>1, <2>4 DEF Slot
    <2> QED BY <2>1, <2>2, <2>3, <2>4 DEF Ends
  <1>6. ASSUME k # 100 PROVE /\ r.type = "hs" /\ r.msg = MsgOf(k) /\ Version = "13" /\ r.info = InfoOf(q, k)
                             /\ q = "server" <=> k = 101
                             /\ k = 104 => r.ctx = Tr(103)
    <2>1. Sends(q, k) /\ k \in 101..104
      BY <1>6 DEF Late, Spoken
    <2>2. Version = "13"
      BY <1>1, <2>1 DEF Sends, Three
    <2>3. q = "server" <=> k = 101
      <3>1. CASE q = "client"
        BY <2>1, <2>2, <3>1 DEF Sends
      <3>2. CASE q = "server"
        BY <2>1, <2>2, <3>2 DEF Sends
      <3> QED BY <3>1, <3>2 DEF Ends
    <2>4. r.type = "hs"
      BY <1>1, <1>3, <1>6, <2>1 DEF Slot
    <2>5. r.msg = MsgOf(k)
      <3>1. CASE q = "client"
        BY <1>1, <2>1, <2>2, <2>4, <3>1 DEF Slot, MsgOf
      <3>2. CASE q = "server"
        BY <1>1, <2>1, <2>2, <2>4, <3>2 DEF Slot, MsgOf
      <3> QED BY <3>1, <3>2 DEF Ends
    <2>6. r.info = InfoOf(q, k)
      BY <1>1, <1>6, <2>4 DEF Item
    <2>7. k = 104 => r.ctx = Tr(103)
      <3>1. k = 104 => MsgOf(k) = "Finished" /\ k - 1 = 103
        BY <2>2 DEF MsgOf
      <3> QED BY <1>1, <2>4, <2>5, <3>1 DEF Item
    <2> QED BY <2>2, <2>3, <2>4, <2>5, <2>6, <2>7
  <1> QED BY <1>3, <1>4, <1>5, <1>6

\* A client that authenticates again was asked to.
LEMMA WasAsked ==
  ASSUME NEW o, Setting, Local("client", o), HereOK("client", o), Said("client", o) >= 101
  PROVE  HeardTo("client", o) = 101 /\ mode.reauth /\ Version = "13"
  <1>0. "client" \in Ends
    BY DEF Ends
  <1>1. Past(o)
    <2> SUFFICES ASSUME ~Past(o) PROVE FALSE
      OBVIOUS
    <2>1. Place(o) \in Places("client")
      BY <1>0, ProgOf
    <2>2. SaidAt("client", Place(o)) \in 0..17
      BY <1>0, <2>1, SaidRange, SettingParts
    <2>3. Said("client", o) = SaidAt("client", Place(o))
      BY DEF Said
    <2> QED BY <2>2, <2>3
  <1>2. o.prog = "reauth" \/ o.auths # 0
    <2>1. o.prog # "reauth" /\ o.auths = 0 => Said("client", o) = 100
      BY <1>0, <1>1, LateNumbers
    <2> QED BY <2>1
  <1>3. Version = "13" /\ Rests13("client", o) /\ o.auths \in {0, 1}
    <2>1. (Version = "13" => Rests13("client", o)) /\ (Version # "13" => o.auths = 0 /\ o.prog = "none")
      BY <1>0, <1>1, RestedIs
    <2>2. o.auths \in {0, 1}
      BY <1>0, <1>1, LateNumbers
    <2> QED BY <1>2, <2>1, <2>2
  <1>4. mode.reauth
    BY <1>2, <1>3 DEF Rests13
  <1>5. HeardTo("client", o) = 101
    BY <1>1, <1>2, <1>3 DEF HeardTo, AuthHeard
  <1> QED BY <1>3, <1>4, <1>5

\* A client is asked to authenticate again.
LEMMA AskedOK ==
  ASSUME NEW e, NEW o, NEW h, Meet("client", e, o), e.prog = "none", e.auths = 0, o.wire # <<>>, Popped(o, h),
         FirstNo("client", o) = 101, mode.reauth, Version = "13"
  PROVE  OK("client", [e EXCEPT !.tr = Append(e.saved, <<"server", "CertificateRequest">>), !.prog = "reauth",
                                !.flags = @ \cup {"crt_asked"}], h)
  <1> DEFINE g == [e EXCEPT !.tr = Append(e.saved, <<"server", "CertificateRequest">>), !.prog = "reauth",
                            !.flags = @ \cup {"crt_asked"}]
  <1>0. "client" \in Ends /\ "server" \in Ends /\ Peer("client") = "server"
    BY DEF Ends, Peer
  <1>1. Setting /\ Versions /\ Local("client", e) /\ HereOK("client", e) /\ Past(e) /\ Talk("client", e, o)
    BY SettingParts DEF Meet, Ready, Past
  <1>2. /\ Rested("client", e) /\ DOMAIN e = Fields /\ e.q = <<>> /\ Rests13("client", e) /\ e.err = "none"
        /\ Buffers(e) /\ First1("client", e) = FALSE /\ Fit("client", e)
    BY <1>0, <1>1, RestedIs
  <1>3. ~e.again /\ e.pc = 1
    BY <1>0, <1>1, Resting
  <1>4. /\ g.prog = "reauth" /\ g.tr = Append(e.saved, <<"server", "CertificateRequest">>) /\ g.pc = 1 /\ ~g.again
        /\ g.auths = 0 /\ SameEpochs(e, g) /\ SameBuffers(e, g) /\ g.flags = e.flags \cup {"crt_asked"}
        /\ g.saved = e.saved /\ g.err = e.err /\ g.done = e.done
        /\ g.started = e.started /\ g.sent = e.sent /\ g.got = e.got
    BY <1>2, <1>3 DEF SameEpochs, SameBuffers, Fields
  <1> HIDE DEF g
  <1>5. Past(g) /\ Reach(g) = 1
    BY <1>4 DEF Past, Reach
  <1>6. AuthSaid("client", g) = 101 /\ AuthHeard("client", g) = 101
    BY <1>4, <1>5 DEF AuthSaid, AuthHeard
  <1>7. Said("client", g) = 101 /\ HeardTo("client", g) = 101
    BY <1>5, <1>6 DEF Said, HeardTo
  <1>8. Said("client", e) = 100 /\ HeardTo("client", e) = 100
    BY <1>0, <1>1, LateNumbers
  <1>9. Sends("server", 101) /\ ~Sends("client", 101) /\ MsgOf(101) = "CertificateRequest" /\ Spoken("server", 101)
    BY DEF Sends, MsgOf, Spoken, Silent
  <1>10. Rests13("client", g)
    <2>1. Later(101, 101) = 101
      BY DEF Later
    <2>2. Tr(100) = Tr(17)
      BY TrEarly
    <2>3. 101 \in 5..17 \cup 101..104 /\ 101 - 1 = 100 /\ "CertificateRequest" # "ccs"
      OBVIOUS
    <2>4. Tr(101) = Append(Tr(100), <<"server", "CertificateRequest">>)
      BY <1>0, <1>9, <2>3, TrGrows
    <2>5. g.tr = Tr(Later(AuthSaid("client", g), AuthHeard("client", g)))
      BY <1>2, <1>4, <1>6, <2>1, <2>2, <2>4 DEF Rests13
    <2>6. Has(g, "crt_asked")
      BY <1>4 DEF Has
    <2> QED BY <1>2, <1>4, <2>5, <2>6 DEF Rests13
  <1>11. Rested("client", g)
    BY <1>2, <1>4, <1>10 DEF Rested, SameEpochs, SameBuffers
  <1>12. HereOK("client", g)
    BY <1>2, <1>4, <1>5, <1>11 DEF HereOK
  <1>13. First1("client", g) = FALSE
    BY <1>4 DEF First1
  <1>14. Unread(g) = Unread(e) /\ Buffers(g)
    BY <1>2, <1>4, SameUnread
  <1>15. Slots("client", g) = Slots("client", e)
    <2>1. First1("client", g) = First1("client", e)
      BY <1>2, <1>13, Zenon
    <2> QED BY <1>14, <2>1 DEF Slots
  <1>16. Fit("client", g)
    BY <1>7, <1>14 DEF Fit, Ranged
  <1>17. Listening("client", e, g)
    <2>1. Quiet("client", 100, 101)
      <3>1. ~Spoken("client", 101)
        BY <1>9, Zenon DEF Spoken
      <3> SUFFICES ASSUME NEW j \in 1..104, Spoken("client", j), 100 < j, j <= 101
                   PROVE  FALSE
        BY Zenon DEF Quiet
      <3>2. j = 101
        OBVIOUS
      <3> QED BY <3>1, <3>2, Zenon
    <2>2. Stays8("client", 100, 101)
      BY DEF Stays8
    <2> QED BY <1>4, <1>7, <1>8, <1>14, <1>15, <2>1, <2>2 DEF Listening
  <1>18. Hearing("client", e, g, 101)
    <2>1. Alone("server", 101, 100, 101)
      BY DEF Alone
    <2>2. Passes("server", 101, 101)
      BY DEF Passes
    <2> QED BY <1>0, <1>4, <1>7, <1>8, <1>9, <2>1, <2>2 DEF Hearing
  <1>19. Taken("client", o, h)
    BY <1>0, PoppedIs
  <1>20. Fit(Peer("client"), o)
    BY DEF Meet, Ready
  <1>21. Talk("client", g, h)
    BY <1>0, <1>1, <1>2, <1>16, <1>17, <1>18, <1>19, <1>20, TalkHear
  <1>22. OK("client", g, h)
    BY <1>12, <1>21 DEF OK
  <1> QED BY <1>22 DEF g

\* What gnutls_record_recv makes of record r.
AppRead(p, e, r) == IF r.key # ReadKey(e) THEN Fail(e, "decryption")
                    ELSE CASE r.type = "data" -> [e EXCEPT !.got = Append(@, r.msg)]
                           [] r.type = "hs" /\ mode.vers = 13 -> Async(p, e, r)
                           [] OTHER -> Fail(e, "unexpected_packet")

\* Data or a ticket is read.
LEMMA LateDataOK ==
  ASSUME NEW p \in Ends, NEW e, NEW o, NEW h, NEW r, Meet(p, e, o), Past(e), o.wire # <<>>, Popped(o, h),
         r = Head(o.wire), FirstNo(p, o) = 100, r.type = "data"
  PROVE  OK(p, [e EXCEPT !.got = Append(@, r.msg)], h)
  <1> DEFINE v == Append(e.got, r.msg)
  <1> DEFINE g == [e EXCEPT !.got = v]
  <1>1. DOMAIN e = Fields
    BY DEF Meet, Ready, Local, Core, Control
  <1>2. Like(e, g) /\ SameBuffers(e, g) /\ g.sent = e.sent /\ g.got = v
    <2> HIDE DEF v
    <2> QED BY <1>1 DEF Like, SameBuffers, SameControl, SameEpochs, SameSecrets, Fields
  <1> HIDE DEF g
  <1>3. g.got = Gains(FirstNo(p, o), r, e.got)
    BY <1>2 DEF Gains
  <1> HIDE DEF v
  <1>4. Passed(FirstNo(p, o))
    BY DEF Passed
  <1>5. OK(p, g, h)
    BY <1>2, <1>3, <1>4, DropOK
  <1> QED BY <1>5 DEF g, v

\* A ticket that is read.
LEMMA LateTicketOK ==
  ASSUME NEW p \in Ends, NEW e, NEW o, NEW h, NEW r, NEW v, Meet(p, e, o), Past(e), o.wire # <<>>, Popped(o, h),
         r = Head(o.wire), FirstNo(p, o) = 100, r.type = "hs"
  PROVE  OK(p, [e EXCEPT !.tickets = v], h)
  <1> DEFINE g == [e EXCEPT !.tickets = v]
  <1>1. DOMAIN e = Fields
    BY DEF Meet, Ready, Local, Core, Control
  <1>2. Like(e, g) /\ SameBuffers(e, g) /\ g.sent = e.sent /\ g.got = e.got
    BY <1>1 DEF Like, SameBuffers, SameControl, SameEpochs, SameSecrets, Fields
  <1> HIDE DEF g
  <1>3. g.got = Gains(FirstNo(p, o), r, e.got)
    BY <1>2 DEF Gains
  <1>4. Passed(FirstNo(p, o))
    BY DEF Passed
  <1>5. OK(p, g, h)
    BY <1>2, <1>3, <1>4, DropOK
  <1> QED BY <1>5 DEF g

\* The numbers of a re-authentication follow on its request.
LEMMA FromAsked == \A x \in 0..104 : \A y \in 102..104 : y <= x => x >= 101
  OBVIOUS

\* At rest nothing of a re-authentication arrives but the request.
LEMMA RestFirst ==
  ASSUME NEW p \in Ends, NEW e, NEW o, NEW k, Meet(p, e, o), e.prog = "none", Past(e), o.wire # <<>>,
         k = FirstNo(p, o), k # 100
  PROVE  p = "client" /\ k = 101 /\ mode.reauth /\ e.auths = 0 /\ Version = "13"
  <1> DEFINE q == Peer(p)
  <1>1. Setting /\ Local(p, e) /\ HereOK(p, e) /\ Talk(p, e, o) /\ Local(q, o) /\ HereOK(q, o) /\ q \in Ends /\ Peer(q) = p
    BY PeerEnds DEF Meet, Ready
  <1>2. Late(q, o, k, Head(o.wire)) /\ HeardTo(p, e) < k /\ k <= Said(q, o)
    BY LateFirst
  <1>3. Spoken(q, k) /\ k \in 101..104
    BY <1>2 DEF Late
  <1>4. Version = "13" /\ (q = "server" <=> k = 101)
    BY <1>1, <1>2, LateRecord
  <1>5. HeardTo(p, e) = AuthHeard(p, e) /\ e.auths \in {0, 1}
    BY <1>1, LateNumbers
  <1>6. CASE p = "client"
    <2>1. k = 101
      BY <1>4, <1>6 DEF Peer
    <2>2. mode.reauth
      <3>1. Sends("server", 101)
        BY <1>3, <1>6, <2>1 DEF Spoken, Peer
      <3> QED BY <1>4, <3>1 DEF Sends
    <2>3. e.auths = 0
      BY <1>2, <1>5, <1>6, <2>1 DEF AuthHeard
    <2> QED BY <1>4, <1>6, <2>1, <2>2, <2>3
  <1>7. CASE p = "server"
    <2>1. q = "client" /\ k \in 102..104
      BY <1>3, <1>4, <1>7 DEF Peer
    <2>2. e.auths = 0
      BY <1>2, <1>5, <1>7, <2>1 DEF AuthHeard
    <2>3. Said("server", e) = 100
      BY <1>1, <1>7, <2>2, LateNumbers
    <2>4. Said("client", o) \in 0..104
      BY <1>1, <2>1, FitOf DEF Fit, Ranged
    <2>5. Said("client", o) >= 101
      <3>1. k <= Said("client", o)
        BY <1>2, <2>1
      <3> QED BY <2>1, <2>4, <3>1, FromAsked
    <2>6. HeardTo("client", o) = 101 /\ mode.reauth
      BY <1>1, <2>1, <2>5, WasAsked
    <2>7. Spoken("server", 101)
      BY <1>4, <2>6 DEF Spoken, Sends, Silent
    <2>8. Sane("server", 101, 100)
      BY <1>1, <1>7, <2>1, <2>3, <2>6 DEF Talk, Flow, Line
    <2>9. 101 \in 1..104 /\ 101 <= 101 /\ ~(101 <= 100)
      OBVIOUS
    <2> QED BY <2>7, <2>8, <2>9, Zenon DEF Sane
  <1> QED BY <1>6, <1>7 DEF Ends

\* gnutls_record_recv after the handshake.
LEMMA AppRecvOK ==
  ASSUME NEW p \in Ends, NEW e, NEW o, NEW h, NEW r, Meet(p, e, o), e.prog = "none", o.wire # <<>>, Popped(o, h),
         r = Head(o.wire)
  PROVE  OK(p, AppRead(p, e, r), h)
  <1> DEFINE k == FirstNo(p, o)
             q == Peer(p)
  <1>1. Setting /\ Local(p, e) /\ HereOK(p, e) /\ q \in Ends /\ Past(e)
    BY PeerEnds DEF Meet, Ready, Past
  <1>2. Late(q, o, k, r)
    BY <1>1, LateFirst
  <1>3. /\ r.key = LateK /\ r.type # "ccs"
        /\ k = 100 => \/ r.type = "data"
                      \/ r.type = "hs" /\ r.msg = "NewSessionTicket" /\ q = "server" /\ Version = "13"
        /\ k # 100 => r.type = "hs" /\ r.msg = MsgOf(k)
    BY <1>1, <1>2, LateRecord
  <1>4. ReadKey(e) = LateK
    BY <1>1, RestedIs
  <1>5. Version = "13" => mode.vers = 13
    BY <1>1 DEF Setting
  <1>6. CASE k = 100 /\ r.type = "data"
    <2>1. AppRead(p, e, r) = [e EXCEPT !.got = Append(@, r.msg)]
      BY <1>3, <1>4, <1>6 DEF AppRead
    <2>2. OK(p, [e EXCEPT !.got = Append(@, r.msg)], h)
      BY <1>1, <1>6, LateDataOK
    <2> QED BY <2>1, <2>2
  <1>7. CASE k = 100 /\ r.type # "data"
    <2>1. r.type = "hs" /\ r.msg = "NewSessionTicket" /\ p = "client" /\ mode.vers = 13
      BY <1>3, <1>5, <1>7 DEF Peer, Ends
    <2>2. AppRead(p, e, r) = [e EXCEPT !.tickets = @ \cup {<<r.ctx, e.rms>>}]
      BY <1>3, <1>4, <2>1 DEF AppRead, Async
    <2>3. OK(p, [e EXCEPT !.tickets = e.tickets \cup {<<r.ctx, e.rms>>}], h)
      BY <1>1, <1>7, <2>1, LateTicketOK
    <2> QED BY <2>2, <2>3
  <1>8. CASE k # 100
    <2>1. p = "client" /\ k = 101 /\ mode.reauth /\ e.auths = 0 /\ Version = "13"
      BY <1>1, <1>8, RestFirst
    <2>2. r.type = "hs" /\ r.msg = "CertificateRequest" /\ mode.vers = 13
      BY <1>3, <1>5, <1>8, <2>1 DEF MsgOf
    <2>3. AppRead(p, e, r) = [e EXCEPT !.tr = Append(e.saved, <<"server", r.msg>>), !.prog = "reauth",
                                       !.flags = @ \cup {"crt_asked"}]
      BY <1>3, <1>4, <2>1, <2>2 DEF AppRead, Async
    <2>4. OK("client", [e EXCEPT !.tr = Append(e.saved, <<"server", "CertificateRequest">>), !.prog = "reauth",
                                !.flags = @ \cup {"crt_asked"}], h)
      BY <2>1, AskedOK
    <2>5. AppRead(p, e, r) = [e EXCEPT !.tr = Append(e.saved, <<"server", "CertificateRequest">>), !.prog = "reauth",
                                       !.flags = @ \cup {"crt_asked"}]
      BY <2>2, <2>3
    <2> QED BY <2>1, <2>4, <2>5, Zenon
  <1> QED BY <1>6, <1>7, <1>8

-----------------------------------------------------------------------------
(* A re-authentication.                                                      *)

\* What was said and heard at step n of it.
ReSaid(p, n) == IF p = "client" THEN 100 + n ELSE IF n >= 2 THEN 101 ELSE 100
ReHeard(p, n) == IF p = "client" THEN 101 ELSE IF n > 2 THEN 99 + n ELSE 100

\* An endpoint at step n of it.
ReAt(p, e, n) == /\ e.prog = "reauth" /\ e.auths = 0 /\ Reach(e) = n /\ n \in 1..4

\* How far an endpoint is in a re-authentication.
LEMMA ReNumbers ==
  ASSUME NEW p \in Ends, NEW e, NEW n, ReAt(p, e, n)
  PROVE  /\ Past(e) /\ Said(p, e) = ReSaid(p, n) /\ HeardTo(p, e) = ReHeard(p, n)
         /\ AuthSaid(p, e) = ReSaid(p, n) /\ AuthHeard(p, e) = ReHeard(p, n)
         /\ ReSaid(p, n) \in 100..104 /\ ReHeard(p, n) \in 100..104
         /\ First1(p, e) = FALSE
  <1>1. Past(e)
    BY DEF ReAt, Past
  <1>2. AuthSaid(p, e) = ReSaid(p, n) /\ AuthHeard(p, e) = ReHeard(p, n)
    BY DEF ReAt, AuthSaid, AuthHeard, ReSaid, ReHeard
  <1>3. ReSaid(p, n) \in 100..104 /\ ReHeard(p, n) \in 100..104
    BY DEF ReAt, ReSaid, ReHeard
  <1>4. First1(p, e) = FALSE
    BY DEF ReAt, First1
  <1> QED BY <1>1, <1>2, <1>3, <1>4 DEF Said, HeardTo

\* What is known of an endpoint in it.
LEMMA ReauthIs ==
  ASSUME NEW p \in Ends, NEW e, Setting, Local(p, e), HereOK(p, e), e.prog = "reauth"
  PROVE  /\ ReAt(p, e, Reach(e)) /\ Version = "13" /\ mode.reauth /\ mode.vers = 13
         /\ e.tr = Tr(Later(ReSaid(p, Reach(e)), ReHeard(p, Reach(e))))
         /\ e.done /\ e.q = <<>> /\ DOMAIN e = Fields /\ e.err = "none" /\ Past(e)
         /\ e.pc \in Nat
         /\ p = "client" => Has(e, "crt_asked") /\ e.pc \in 1..3
         /\ p = "server" => /\ e.pc \in 1..4 /\ (e.again => e.pc = 1) /\ ~Has(e, "in_flight")
                            /\ Has(e, "crt_vrfy_expected") => mode.cc
                            /\ Reach(e) >= 3 => (Has(e, "crt_vrfy_expected") <=> mode.cc)
  <1>1. Past(e) /\ Versions
    BY SettingParts DEF Past
  <1>2. /\ Rested(p, e) /\ e.q = <<>> /\ e.done /\ DOMAIN e = Fields /\ e.err = "none"
        /\ Version = "13" => Rests13(p, e)
        /\ Version # "13" => e.prog = "none"
    BY <1>1, RestedIs
  <1>3. Version = "13" /\ Rests13(p, e)
    BY <1>2
  <1>4. /\ e.pc \in Nat /\ Reach(e) \in Nat
        /\ p = "client" => e.pc \in 1..3 /\ Reach(e) \in 1..4
        /\ p = "server" => e.pc \in 1..4 /\ Reach(e) \in 1..4 /\ (e.again => e.pc = 1)
    BY <1>1, LaterReach
  <1>5. e.auths = 0 /\ mode.reauth /\ e.tr = Tr(Later(AuthSaid(p, e), AuthHeard(p, e)))
    BY <1>3 DEF Rests13
  <1>6. ReAt(p, e, Reach(e))
    BY <1>4, <1>5 DEF ReAt, Ends
  <1>7. AuthSaid(p, e) = ReSaid(p, Reach(e)) /\ AuthHeard(p, e) = ReHeard(p, Reach(e))
    BY <1>6, ReNumbers
  <1>8. mode.vers = 13
    BY <1>3 DEF Setting
  <1>9. p = "client" => Has(e, "crt_asked")
    BY <1>3 DEF Rests13
  <1>10. p = "server" => /\ ~Has(e, "in_flight")
                         /\ Has(e, "crt_vrfy_expected") => mode.cc
                         /\ Reach(e) >= 3 => (Has(e, "crt_vrfy_expected") <=> mode.cc)
    BY <1>3 DEF Rests13
  <1>11. e.tr = Tr(Later(ReSaid(p, Reach(e)), ReHeard(p, Reach(e))))
    BY <1>5, <1>7
  <1> QED BY <1>1, <1>2, <1>3, <1>4, <1>5, <1>6, <1>8, <1>9, <1>10, <1>11

\* What does not change in it.
Resumes(e, g) == /\ g.err = e.err /\ SameEpochs(e, g) /\ g.saved = e.saved /\ g.done = e.done
                 /\ g.started = e.started /\ g.q = <<>>
ReFlags(p, g, n) == /\ p = "client" => Has(g, "crt_asked")
                    /\ p = "server" => /\ ~Has(g, "in_flight")
                                       /\ Has(g, "crt_vrfy_expected") => mode.cc
                                       /\ n >= 3 => (Has(g, "crt_vrfy_expected") <=> mode.cc)

\* An endpoint in a re-authentication is where the script says.
LEMMA ReauthHere ==
  ASSUME NEW p \in Ends, NEW e, NEW g, NEW n, Setting, Local(p, e), HereOK(p, e), e.prog = "reauth", Resumes(e, g),
         ReAt(p, g, n), ReFlags(p, g, n), g.tr = Tr(Later(ReSaid(p, n), ReHeard(p, n)))
  PROVE  HereOK(p, g)
  <1>1. Past(e) /\ Version = "13" /\ mode.reauth /\ e.err = "none"
    BY ReauthIs
  <1>2. Rested(p, e) /\ Rests13(p, e)
    BY <1>1, RestedIs
  <1>3. Past(g) /\ AuthSaid(p, g) = ReSaid(p, n) /\ AuthHeard(p, g) = ReHeard(p, n)
    BY ReNumbers
  <1>4. g.saved = Tr(17)
    BY <1>2 DEF Rests13, Resumes
  <1>5. g.prog = "reauth" /\ g.auths = 0 /\ Reach(g) = n
    BY DEF ReAt
  <1>6. Rests13(p, g)
    BY <1>1, <1>3, <1>4, <1>5 DEF Rests13, ReFlags
  <1>7. Rested(p, g)
    BY <1>1, <1>2, <1>6 DEF Rested, Resumes, SameEpochs
  <1> QED BY <1>1, <1>3, <1>7 DEF HereOK, Resumes

-----------------------------------------------------------------------------
(* Sending in it.                                                            *)

\* At step n of it p sends msg, with number k.
ReSpeaks(p, n, msg, k) ==
    \/ p = "client" /\ n = 1 /\ msg = "Certificate" /\ k = 102
    \/ p = "client" /\ n = 2 /\ msg = "CertificateVerify" /\ k = 103 /\ mode.cc
    \/ p = "client" /\ n = 3 /\ msg = "Finished" /\ k = 104
    \/ p = "server" /\ n = 1 /\ msg = "CertificateRequest" /\ k = 101

\* The messages of a re-authentication by their numbers.
LEMMA ReSpeaksIs ==
  ASSUME NEW p \in Ends, NEW n, NEW msg, NEW k, ReSpeaks(p, n, msg, k), Version = "13", mode.reauth
  PROVE  /\ Sends(p, k) /\ ~Silent(k) /\ MsgOf(k) = msg /\ k \in 101..104 /\ n \in 1..3 /\ msg # "ccs"
         /\ ReSaid(p, n) = k - 1 /\ ReSaid(p, n + 1) = k /\ ReHeard(p, n + 1) = ReHeard(p, n)
         /\ Later(ReSaid(p, n), ReHeard(p, n)) = k - 1 /\ Later(ReSaid(p, n + 1), ReHeard(p, n + 1)) = k
         /\ ~(Sends("client", k) /\ Sends("server", k))
         /\ LastOwn(p) <= k
  <1>1. Sends(p, k) /\ ~(Sends("client", k) /\ Sends("server", k))
    BY DEF ReSpeaks, Sends
  <1>2. ~Silent(k) /\ MsgOf(k) = msg /\ k \in 101..104 /\ n \in 1..3 /\ msg # "ccs"
    BY DEF ReSpeaks, Silent, MsgOf
  <1>3. /\ ReSaid(p, n) = k - 1 /\ ReSaid(p, n + 1) = k /\ ReHeard(p, n + 1) = ReHeard(p, n)
    BY DEF ReSpeaks, ReSaid, ReHeard
  <1>4. Later(ReSaid(p, n), ReHeard(p, n)) = k - 1 /\ Later(ReSaid(p, n + 1), ReHeard(p, n + 1)) = k
    BY DEF ReSpeaks, ReSaid, ReHeard, Later
  <1>5. LastOwn(p) <= k
    BY <1>2, LastOwnRange
  <1> QED BY <1>1, <1>2, <1>3, <1>4, <1>5

\* The record of it.
LEMMA ReRecord ==
  ASSUME NEW p \in Ends, NEW e, NEW n, NEW msg, NEW k, ReSpeaks(p, n, msg, k), Version = "13", mode.reauth,
         e.keys[e.we].w = LateK, e.tr = Tr(k - 1)
  PROVE  LET x == Sealed(e, Entry(p, e, msg))
         IN  (\A h : Slot(p, h, x) = k) /\ Item(p, k, x)
  <1> DEFINE x == Sealed(e, Entry(p, e, msg))
  <1>1. /\ x.type = "hs" /\ x.msg = msg /\ x.key = LateK /\ x.info = Info(p, e, msg)
        /\ msg = "Finished" => x.ctx = Tr(k - 1)
    BY DEF Sealed, Entry, Record, Context, ReSpeaks
  <1> HIDE DEF x
  <1>2. x.key.stage = "app"
    BY <1>1, Stages
  <1>3. \A h : Slot(p, h, x) = k
    BY <1>1, <1>2 DEF Slot, ReSpeaks
  <1>4. Sends(p, k) /\ k \in 101..104 /\ MsgOf(k) = msg
    BY ReSpeaksIs
  <1>5. KeyOf(k) = LateK
    BY <1>4 DEF KeyOf
  <1>6. Info(p, e, msg) = InfoOf(p, k)
    BY <1>4 DEF ReSpeaks, Info, InfoOf
  <1>7. Item(p, k, x)
    BY <1>1, <1>4, <1>5, <1>6 DEF Item
  <1> QED BY <1>3, <1>7 DEF x

\* What is sent where.
LEMMA ReSendWhere ==
  ASSUME NEW p \in Ends, NEW e, Setting, Local(p, e), HereOK(p, e), e.prog = "reauth", ~e.again,
         At(p, e).op = "send", ~Skips(p, e, At(p, e))
  PROVE  /\ ReSpeaks(p, Reach(e), At(p, e).msg, ReSaid(p, Reach(e) + 1)) /\ At(p, e).state # 115
         /\ Cached(e) = {} /\ Reach(e) = e.pc
  <1>1. /\ e.done /\ e.pc \in Nat
        /\ p = "client" => Has(e, "crt_asked") /\ e.pc \in 1..3
        /\ p = "server" => e.pc \in 1..4
    BY ReauthIs
  <1>2. Reach(e) = e.pc
    BY DEF Reach
  <1>3. Cached(e) = {}
    BY <1>1 DEF Cached
  <1>4. CASE p = "client"
    <2>1. /\ e.pc = 1 => At(p, e) = S(202, "send", "Certificate")
          /\ e.pc = 2 => At(p, e) = S(203, "send", "CertificateVerify")
          /\ e.pc = 3 => At(p, e) = S(204, "send", "Finished")
      BY <1>4, LaterSteps
    <2>2. e.pc = 2 => mode.cc
      BY <1>4, <2>1 DEF Skips, S
    <2> QED BY <1>1, <1>2, <1>3, <1>4, <2>1, <2>2 DEF ReSpeaks, ReSaid, S
  <1>5. CASE p = "server"
    <2>1. /\ e.pc = 1 => At(p, e) = S(201, "send", "CertificateRequest")
          /\ e.pc = 2 => At(p, e) = S(202, "recv", "Certificate")
          /\ e.pc = 3 => At(p, e) = S(203, "recv", "CertificateVerify")
          /\ e.pc = 4 => At(p, e) = S(205, "recv", "Finished")
      BY <1>5, LaterSteps
    <2>2. e.pc = 1
      BY <1>1, <1>5, <2>1 DEF S
    <2> QED BY <1>1, <1>2, <1>3, <1>5, <2>1, <2>2 DEF ReSpeaks, ReSaid, S
  <1> QED BY <1>4, <1>5 DEF Ends

\* The flags stay but for the note that a certificate was asked for.
LEMMA ReSentFlags ==
  ASSUME NEW p \in Ends, NEW e, NEW g, NEW n, NEW msg, NEW k, ReSpeaks(p, n, msg, k),
         g.flags = e.flags \cup SentFlags(p, msg), ReFlags(p, e, n)
  PROVE  ReFlags(p, g, n + 1)
  <1>1. SentFlags(p, msg) \subseteq {"crt_req_sent"}
    BY DEF SentFlags, ReSpeaks
  <1>2. /\ Has(g, "in_flight") <=> Has(e, "in_flight")
        /\ Has(g, "crt_vrfy_expected") <=> Has(e, "crt_vrfy_expected")
        /\ Has(e, "crt_asked") => Has(g, "crt_asked")
    BY <1>1 DEF Has
  <1>3. p = "server" => ~(n + 1 >= 3)
    BY DEF ReSpeaks
  <1> QED BY <1>2, <1>3 DEF ReFlags

\* The first call of a send step.
LEMMA ReSendOK ==
  ASSUME NEW p \in Ends, NEW e, NEW o, NEW msg, Ready(p, e, o), e.prog = "reauth", ~e.again,
         ReSpeaks(p, Reach(e), msg, ReSaid(p, Reach(e) + 1)), Reach(e) = e.pc
  PROVE  OK(p, [Flush(Compose(p, e, msg)) EXCEPT !.again = TRUE], o)
  <1> DEFINE n == e.pc
             k == ReSaid(p, Reach(e) + 1)
             g == [Flush(Compose(p, e, msg)) EXCEPT !.again = TRUE]
             x == Sealed(e, Entry(p, e, msg))
  <1>1. Setting /\ Versions /\ Local(p, e) /\ HereOK(p, e) /\ Talk(p, e, o) /\ Fit(Peer(p), o)
    BY SettingParts DEF Ready
  <1>2. /\ ReAt(p, e, Reach(e)) /\ Version = "13" /\ mode.reauth
        /\ e.tr = Tr(Later(ReSaid(p, Reach(e)), ReHeard(p, Reach(e)))) /\ Past(e)
        /\ e.q = <<>> /\ e.pc \in Nat
        /\ p = "client" => Has(e, "crt_asked")
        /\ p = "server" => /\ ~Has(e, "in_flight")
                           /\ Has(e, "crt_vrfy_expected") => mode.cc
                           /\ Reach(e) >= 3 => (Has(e, "crt_vrfy_expected") <=> mode.cc)
    BY <1>1, ReauthIs
  <1>3. ReSpeaks(p, n, msg, k)
    OBVIOUS
  <1>4. /\ Sends(p, k) /\ ~Silent(k) /\ MsgOf(k) = msg /\ k \in 101..104 /\ n \in 1..3 /\ msg # "ccs"
        /\ ReSaid(p, n) = k - 1 /\ ReSaid(p, n + 1) = k /\ ReHeard(p, n + 1) = ReHeard(p, n)
        /\ Later(ReSaid(p, n), ReHeard(p, n)) = k - 1 /\ Later(ReSaid(p, n + 1), ReHeard(p, n + 1)) = k
        /\ ~(Sends("client", k) /\ Sends("server", k)) /\ LastOwn(p) <= k
    <2> HIDE DEF k, n
    <2> QED BY <1>2, <1>3, ReSpeaksIs
  <1>5. e.keys[e.we].w = LateK /\ Buffers(e)
    BY <1>1, <1>2, RestedIs
  <1>6. e.tr = Tr(k - 1)
    BY <1>2, <1>4
  <1>7. (\A h : Slot(p, h, x) = k) /\ Item(p, k, x)
    <2> HIDE DEF k, n
    <2> QED BY <1>2, <1>3, <1>5, <1>6, ReRecord
  <1>8. /\ g.pc = e.pc /\ g.prog = e.prog /\ g.again = TRUE /\ g.err = e.err /\ g.q = <<>>
        /\ Spoke(p, e, g, msg) /\ Aux(e, g)
        /\ Unread(g) = Append(Unread(e), x) /\ Buffers(g)
    BY <1>1, Flushed
  <1> HIDE DEF g, x
  <1>9. Reach(g) = n + 1
    BY <1>8 DEF Reach
  <1>10. ReAt(p, g, n + 1)
    BY <1>2, <1>4, <1>8, <1>9 DEF ReAt, Aux
  <1>11. Resumes(e, g)
    BY <1>8 DEF Resumes, Spoke, Aux
  <1>12. ReFlags(p, e, n)
    BY <1>2 DEF ReFlags
  <1>13. ReFlags(p, g, n + 1)
    <2>1. g.flags = e.flags \cup SentFlags(p, msg)
      BY <1>8 DEF Spoke
    <2> HIDE DEF k, n
    <2> QED BY <1>3, <1>12, <2>1, ReSentFlags
  <1>14. g.tr = Tr(Later(ReSaid(p, n + 1), ReHeard(p, n + 1)))
    <2>1. ~Unhashed(e, msg)
      BY <1>3 DEF Unhashed, ReSpeaks
    <2>2. g.tr = Append(e.tr, <<p, msg>>)
      BY <1>8, <2>1 DEF Spoke
    <2> HIDE DEF k, n
    <2>3. k \in 5..17 \cup 101..104 /\ MsgOf(k) # "ccs"
      BY <1>4
    <2>4. Tr(k) = Append(Tr(k - 1), <<p, MsgOf(k)>>)
      BY <1>4, <2>3, TrGrows
    <2> QED BY <1>4, <1>6, <2>2, <2>4
  <1>15. HereOK(p, g)
    <2> HIDE DEF n, k
    <2> QED BY <1>1, <1>10, <1>11, <1>13, <1>14, ReauthHere
  <1>16. /\ Said(p, g) = k /\ HeardTo(p, g) = ReHeard(p, n) /\ First1(p, g) = FALSE
    <2> HIDE DEF n, k
    <2> QED BY <1>4, <1>10, ReNumbers
  <1>17. /\ Said(p, e) = k - 1 /\ HeardTo(p, e) = ReHeard(p, n) /\ First1(p, e) = FALSE /\ ReHeard(p, n) \in 100..104
    <2>1. ReAt(p, e, n)
      BY <1>2
    <2> HIDE DEF n, k
    <2> QED BY <1>4, <2>1, ReNumbers
  <1> HIDE DEF n, k
  <1>18. Fit(p, e) /\ Fit(p, g)
    <2>1. k \in 0..104 /\ k - 1 \in 0..104 /\ ReHeard(p, n) \in 0..104
      BY <1>4, <1>17
    <2> QED BY <1>5, <1>8, <1>16, <1>17, <2>1 DEF Fit, Ranged
  <1>19. Grows(p, e, g, x, k)
    <2>1. First1(p, g) = First1(p, e)
      BY <1>16, <1>17, Zenon
    <2>2. k = Slot(p, First1(p, e), x)
      BY <1>7, Zenon
    <2> QED BY <1>5, <1>8, <2>1, <2>2 DEF Grows
  <1>20. Speaking(p, e, g, x, k, HeardTo(Peer(p), o))
    <2>1. Alone(p, k, k - 1, k)
      BY <1>4 DEF Alone
    <2>2. Fits(p, k, HeardTo(Peer(p), o), k)
      <3>1. LastOwn(p) \in 13..17
        BY LastOwnRange
      <3> QED BY <1>4, <3>1 DEF Fits
    <2>3. Only8(p, k, k - 1, k)
      BY <1>4 DEF Only8
    <2>4. k - 1 < k /\ k <= k
      BY <1>4
    <2>5. g.sent = e.sent /\ g.got = e.got
      BY <1>8 DEF Aux
    <2> QED BY <1>4, <1>7, <1>16, <1>17, <1>19, <2>1, <2>2, <2>3, <2>4, <2>5 DEF Speaking
  <1>21. Talk(p, g, o)
    BY <1>1, <1>18, <1>20, TalkSend
  <1>22. OK(p, g, o)
    BY <1>15, <1>21 DEF OK
  <1> QED BY <1>22 DEF g

-----------------------------------------------------------------------------
(* Going on after the handshake.                                             *)

\* Without a certificate there is no signature.
LEMMA NoSignature ==
  ASSUME Version = "13", ~mode.cc
  PROVE  Quiet("client", 102, 103) /\ Tr(103) = Tr(102)
  <1>1. ~Sends("client", 103) /\ ~Sends("server", 103)
    BY DEF Sends
  <1>2. \A j \in 1..104 : 102 < j /\ j <= 103 => j = 103
    OBVIOUS
  <1>3. Quiet("client", 102, 103)
    BY <1>1, <1>2, Zenon DEF Quiet, Spoken
  <1>4. 103 \in 101..104 /\ 103 - 1 = 102
    OBVIOUS
  <1>5. Tr(103) = Extend(Tr(102), 103)
    BY <1>4, TrLate
  <1> QED BY <1>1, <1>3, <1>5 DEF Extend

\* Steps that are skipped.
LEMMA ReSkips ==
  ASSUME NEW p \in Ends, NEW e, Setting, Local(p, e), HereOK(p, e), e.prog = "reauth", ~e.again
  PROVE  /\ Skips(p, e, At(p, e)) => ~mode.cc /\ ((p = "client" /\ e.pc = 2) \/ (p = "server" /\ e.pc = 3))
         /\ p = "server" /\ e.pc = 3 /\ ~Skips(p, e, At(p, e)) => mode.cc
  <1>1. /\ e.done /\ e.pc \in Nat
        /\ p = "client" => Has(e, "crt_asked") /\ e.pc \in 1..3
        /\ p = "server" => /\ e.pc \in 1..4
                           /\ Reach(e) >= 3 => (Has(e, "crt_vrfy_expected") <=> mode.cc)
    BY ReauthIs
  <1>2. Reach(e) = e.pc
    BY DEF Reach
  <1>3. CASE p = "client"
    <2>1. /\ e.pc = 1 => At(p, e) = S(202, "send", "Certificate")
          /\ e.pc = 2 => At(p, e) = S(203, "send", "CertificateVerify")
          /\ e.pc = 3 => At(p, e) = S(204, "send", "Finished")
      BY <1>3, LaterSteps
    <2>2. ASSUME e.pc = 1 PROVE ~Skips(p, e, At(p, e))
      BY <1>1, <1>3, <2>1, <2>2 DEF Skips, S, Certs
    <2>3. ASSUME e.pc = 2, Skips(p, e, At(p, e)) PROVE ~mode.cc
      BY <1>1, <1>3, <2>1, <2>3 DEF Skips, S, Certs
    <2>4. ASSUME e.pc = 3 PROVE ~Skips(p, e, At(p, e))
      BY <1>1, <1>3, <2>1, <2>4 DEF Skips, S, Certs
    <2> QED BY <1>1, <1>3, <2>2, <2>3, <2>4
  <1>4. CASE p = "server"
    <2>1. /\ e.pc = 1 => At(p, e) = S(201, "send", "CertificateRequest")
          /\ e.pc = 2 => At(p, e) = S(202, "recv", "Certificate")
          /\ e.pc = 3 => At(p, e) = S(203, "recv", "CertificateVerify")
          /\ e.pc = 4 => At(p, e) = S(205, "recv", "Finished")
      BY <1>4, LaterSteps
    <2>2. ASSUME e.pc \in {1, 2, 4} PROVE ~Skips(p, e, At(p, e))
      BY <1>1, <1>4, <2>1, <2>2 DEF Skips, S, Certs
    <2>3. ASSUME e.pc = 3 PROVE Skips(p, e, At(p, e)) <=> ~mode.cc
      BY <1>1, <1>2, <1>4, <2>1, <2>3 DEF Skips, S, Certs
    <2> QED BY <1>1, <1>4, <2>2, <2>3
  <1> QED BY <1>3, <1>4 DEF Ends

\* p goes on to the next step without a word.
LEMMA ReMoveOK ==
  ASSUME NEW p \in Ends, NEW e, NEW o, Ready(p, e, o), e.prog = "reauth",
         \/ e.again
         \/ ~mode.cc /\ ((p = "client" /\ Reach(e) = 2) \/ (p = "server" /\ Reach(e) = 3)),
         e.pc + 1 \in 1..4, ~e.again => e.pc = Reach(e)
  PROVE  OK(p, Moved(e), o)
  <1> DEFINE g == Moved(e)
             n == Reach(e)
             m == Reach(g)
  <1>1. Setting /\ Versions /\ Local(p, e) /\ HereOK(p, e)
    BY SettingParts DEF Ready
  <1>2. /\ ReAt(p, e, n) /\ Version = "13" /\ mode.reauth
        /\ e.tr = Tr(Later(ReSaid(p, n), ReHeard(p, n))) /\ Past(e)
        /\ e.q = <<>> /\ e.pc \in Nat /\ DOMAIN e = Fields
        /\ p = "client" => Has(e, "crt_asked")
        /\ p = "server" => /\ ~Has(e, "in_flight")
                           /\ Has(e, "crt_vrfy_expected") => mode.cc
                           /\ n >= 3 => (Has(e, "crt_vrfy_expected") <=> mode.cc)
        /\ p = "server" /\ e.again => e.pc = 1
    BY <1>1, ReauthIs
  <1>3. /\ g.pc = e.pc + 1 /\ g.again = FALSE /\ g.prog = "reauth" /\ SameEpochs(e, g) /\ SameBuffers(e, g)
        /\ g.flags = e.flags /\ g.tr = e.tr /\ g.saved = e.saved /\ g.err = e.err
    BY <1>2, MovedFields DEF SameSecrets
  <1>4. Aux(e, g)
    BY <1>2, AuxMoved
  <1> HIDE DEF g
  <1>5. m = e.pc + 1
    BY <1>3 DEF Reach
  <1>6. e.again => n = m
    BY <1>5 DEF Reach
  <1>7. ~e.again => m = n + 1 /\ ~mode.cc /\ ((p = "client" /\ n = 2) \/ (p = "server" /\ n = 3))
    BY <1>5
  <1>8. ReAt(p, g, m)
    BY <1>2, <1>3, <1>4, <1>5 DEF ReAt, Aux
  <1>9. Resumes(e, g)
    BY <1>2, <1>3, <1>4 DEF Resumes, SameBuffers, Aux
  <1>10. ReFlags(p, g, m)
    <2>1. \A x : Has(g, x) <=> Has(e, x)
      BY <1>3 DEF Has
    <2>2. p = "server" /\ m >= 3 => n >= 3
      BY <1>2, <1>5, <1>6, <1>7
    <2> QED BY <1>2, <2>1, <2>2 DEF ReFlags
  <1>11. /\ Said(p, g) = ReSaid(p, m) /\ HeardTo(p, g) = ReHeard(p, m) /\ Past(g)
         /\ ReSaid(p, m) \in 100..104 /\ ReHeard(p, m) \in 100..104
    BY <1>8, ReNumbers, ZenonT(40)
  <1>12. /\ Said(p, e) = ReSaid(p, n) /\ HeardTo(p, e) = ReHeard(p, n)
         /\ ReSaid(p, n) \in 100..104 /\ ReHeard(p, n) \in 100..104
    BY <1>2, ReNumbers, ZenonT(40)
  <1> HIDE DEF n, m
  <1>13. g.tr = Tr(Later(ReSaid(p, m), ReHeard(p, m))) /\ Lates(p, e, g)
    <2>1. CASE e.again
      <3>1. \A x \in 100..104 : x \in 0..104 /\ x <= x
        OBVIOUS
      <3>2. Quiet(p, ReSaid(p, n), ReSaid(p, n)) /\ Quiet(Peer(p), ReHeard(p, n), ReHeard(p, n))
        BY <1>12, <3>1, QuietHere
      <3>3. n = m
        BY <1>6, <2>1
      <3> QED BY <1>2, <1>3, <1>11, <1>12, <3>1, <3>2, <3>3 DEF Lates
    <2>2. CASE ~e.again /\ p = "client"
      <3>1. n = 2 /\ m = 3 /\ ~mode.cc
        BY <1>7, <2>2
      <3>2. ReSaid(p, n) = 102 /\ ReSaid(p, m) = 103 /\ ReHeard(p, n) = 101 /\ ReHeard(p, m) = 101
        BY <2>2, <3>1 DEF ReSaid, ReHeard
      <3>3. Quiet(p, 102, 103) /\ Tr(103) = Tr(102)
        BY <1>2, <2>2, <3>1, NoSignature
      <3>4. Quiet(Peer(p), 101, 101)
        BY QuietHere
      <3>5. Later(102, 101) = 102 /\ Later(103, 101) = 103
        BY DEF Later
      <3>6. 102 <= 103 /\ 101 <= 101 /\ 103 \in 100..104 /\ 101 \in 100..104 /\ 101 < 102
        OBVIOUS
      <3> QED BY <1>2, <1>3, <1>11, <1>12, <3>2, <3>3, <3>4, <3>5, <3>6 DEF Lates
    <2>3. CASE ~e.again /\ p = "server"
      <3>1. n = 3 /\ m = 4 /\ ~mode.cc
        BY <1>7, <2>3
      <3>2. ReSaid(p, n) = 101 /\ ReSaid(p, m) = 101 /\ ReHeard(p, n) = 102 /\ ReHeard(p, m) = 103
        BY <2>3, <3>1 DEF ReSaid, ReHeard
      <3>3. Quiet(Peer(p), 102, 103) /\ Tr(103) = Tr(102)
        BY <1>2, <2>3, <3>1, NoSignature DEF Peer
      <3>4. Quiet(p, 101, 101)
        BY QuietHere
      <3>5. Later(101, 102) = 102 /\ Later(101, 103) = 103
        BY DEF Later
      <3>6. 102 <= 103 /\ 101 <= 101 /\ 103 \in 100..104 /\ 101 \in 100..104 /\ ~(102 < 102)
        OBVIOUS
      <3> QED BY <1>2, <1>3, <1>11, <1>12, <3>2, <3>3, <3>4, <3>5, <3>6 DEF Lates
    <2> QED BY <2>1, <2>2, <2>3 DEF Ends
  <1>14. HereOK(p, g)
    BY <1>1, <1>8, <1>9, <1>10, <1>13, ReauthHere
  <1>15. Talk(p, g, o)
    BY <1>2, <1>3, <1>4, <1>11, <1>13, LatePass DEF Aux
  <1>16. OK(p, g, o)
    BY <1>14, <1>15 DEF OK
  <1> QED BY <1>16 DEF g

\* The end of a re-authentication.
ReEnded(p, f, g) == /\ HereOK(p, g) /\ Past(g) /\ SameBuffers(f, g) /\ g.sent = f.sent /\ g.got = f.got
                    /\ Said(p, g) = (IF p = "client" THEN 104 ELSE 101)
                    /\ HeardTo(p, g) = (IF p = "client" THEN 101 ELSE 104)

\* What ends a re-authentication.
LEMMA ReComplete ==
  ASSUME NEW p \in Ends, NEW e, NEW f, Setting, Local(p, e), HereOK(p, e), e.prog = "reauth", DOMAIN f = Fields,
         f.prog = "reauth", Resumes(e, f), f.auths = e.auths, f.flags = e.flags
  PROVE  ReEnded(p, f, Complete([f EXCEPT !.again = FALSE]))
  <1> DEFINE g == Complete([f EXCEPT !.again = FALSE])
  <1>1. /\ ReAt(p, e, Reach(e)) /\ Version = "13" /\ mode.reauth /\ Past(e) /\ e.err = "none"
        /\ p = "server" => ~Has(e, "in_flight") /\ (Has(e, "crt_vrfy_expected") => mode.cc)
    BY ReauthIs
  <1>2. Rested(p, e) /\ Rests13(p, e)
    BY <1>1, RestedIs
  <1>3. /\ g.prog = "none" /\ g.flags = f.flags /\ g.re = f.re /\ g.we = f.we /\ SameBuffers(f, g)
        /\ g.keys = f.keys /\ g.saved = f.saved
    BY CompleteFields
  <1>4. /\ g.sent = f.sent /\ g.got = f.got /\ g.auths = f.auths + 1 /\ g.done = f.done /\ g.started = f.started
        /\ g.err = f.err
    BY AuxComplete
  <1> HIDE DEF g
  <1>5. g.auths = 1 /\ Past(g)
    BY <1>1, <1>3, <1>4 DEF ReAt, Past
  <1>6. /\ Said(p, g) = (IF p = "client" THEN 104 ELSE 101)
        /\ HeardTo(p, g) = (IF p = "client" THEN 101 ELSE 104)
    BY <1>5 DEF Said, HeardTo, AuthSaid, AuthHeard
  <1>7. \A x : Has(g, x) <=> Has(e, x)
    BY <1>3 DEF Has
  <1>8. Rests13(p, g)
    BY <1>1, <1>2, <1>3, <1>5, <1>7 DEF Rests13, Resumes
  <1>9. Rested(p, g)
    BY <1>1, <1>2, <1>3, <1>4, <1>8 DEF Rested, Resumes, SameEpochs, SameBuffers
  <1>10. HereOK(p, g)
    BY <1>1, <1>4, <1>5, <1>9 DEF HereOK, Resumes
  <1>11. ReEnded(p, f, g)
    BY <1>3, <1>4, <1>5, <1>6, <1>10 DEF ReEnded
  <1> QED BY <1>11 DEF g

\* A step of a re-authentication that is skipped, or the end of an
\* interrupted call.
LEMMA ReAdvanceOK ==
  ASSUME NEW p \in Ends, NEW e, NEW o, Ready(p, e, o), e.prog = "reauth",
         e.again \/ Skips(p, e, At(p, e))
  PROVE  OK(p, Advance(p, e), o)
  <1>1. Setting /\ Versions /\ Local(p, e) /\ HereOK(p, e)
    BY SettingParts DEF Ready
  <1>2. /\ ReAt(p, e, Reach(e)) /\ Version = "13" /\ Past(e) /\ e.q = <<>>
        /\ e.pc \in Nat /\ DOMAIN e = Fields /\ e.err = "none"
        /\ p = "client" => e.pc \in 1..3
        /\ p = "server" => e.pc \in 1..4 /\ (e.again => e.pc = 1)
    BY <1>1, ReauthIs
  <1>3. Len(Engine(p, e.prog)) = IF p = "client" THEN 3 ELSE 4
    BY Lengths DEF Ends
  <1>4. ASSUME ~e.again PROVE /\ ~mode.cc /\ ((p = "client" /\ e.pc = 2) \/ (p = "server" /\ e.pc = 3))
                             /\ Reach(e) = e.pc
    <2>1. Reach(e) = e.pc
      BY <1>4 DEF Reach
    <2>2. ~mode.cc /\ ((p = "client" /\ e.pc = 2) \/ (p = "server" /\ e.pc = 3))
      BY <1>1, <1>4, ReSkips
    <2> QED BY <2>1, <2>2
  <1>5. CASE e.pc # Len(Engine(p, e.prog))
    <2>1. Advance(p, e) = Moved(e)
      BY <1>2, <1>5, AdvanceIs
    <2>2. e.pc + 1 \in 1..4
      <3>1. p = "server" => e.pc # 4
        <4>1. p = "server" => Len(Engine(p, e.prog)) = 4
          BY <1>3
        <4> QED BY <1>5, <4>1, Zenon
      <3> QED BY <1>2, <3>1 DEF Ends
    <2>3. \/ e.again
          \/ ~mode.cc /\ ((p = "client" /\ Reach(e) = 2) \/ (p = "server" /\ Reach(e) = 3))
      BY <1>4
    <2>4. ~e.again => e.pc = Reach(e)
      BY <1>4
    <2>5. OK(p, Moved(e), o)
      BY <2>2, <2>3, <2>4, ReMoveOK
    <2> QED BY <2>1, <2>5
  <1>6. CASE e.pc = Len(Engine(p, e.prog))
    <2> DEFINE g == Complete([e EXCEPT !.again = FALSE])
    <2>1. Advance(p, e) = g
      BY <1>2, <1>6, AdvanceIs
    <2>2. e.again /\ p = "client" /\ e.pc = 3
      BY <1>2, <1>3, <1>4, <1>6 DEF Ends
    <2>3. Reach(e) = 4
      BY <2>2 DEF Reach
    <2>4. Resumes(e, e)
      BY <1>2 DEF Resumes, SameEpochs
    <2>5. ReEnded(p, e, g)
      BY <1>1, <1>2, <2>4, ReComplete
    <2> HIDE DEF g
    <2>6. Said(p, e) = 104 /\ HeardTo(p, e) = 101
      <3>1. ReAt(p, e, 4)
        BY <1>2, <2>3
      <3>2. Said(p, e) = ReSaid(p, 4) /\ HeardTo(p, e) = ReHeard(p, 4)
        BY <3>1, ReNumbers
      <3> QED BY <2>2, <3>2 DEF ReSaid, ReHeard
    <2>7. Said(p, g) = 104 /\ HeardTo(p, g) = 101
      BY <2>2, <2>5 DEF ReEnded
    <2>8. Lates(p, e, g)
      <3>1. 104 <= 104 /\ 101 <= 101 /\ 104 \in 100..104 /\ 101 \in 100..104 /\ 104 \in 0..104 /\ 101 \in 0..104
            /\ 101 < 102
        OBVIOUS
      <3>2. Quiet(p, 104, 104) /\ Quiet(Peer(p), 101, 101)
        BY <3>1, QuietHere
      <3> QED BY <2>6, <2>7, <3>1, <3>2 DEF Lates
    <2>9. Talk(p, g, o)
      BY <1>2, <2>5, <2>8, LatePass DEF ReEnded
    <2>10. OK(p, g, o)
      BY <2>5, <2>9 DEF OK, ReEnded
    <2> QED BY <2>1, <2>10
  <1> QED BY <1>5, <1>6

-----------------------------------------------------------------------------
(* gnutls_session_ticket_send.                                               *)

\* Its state.
LEMMA TicketIs ==
  ASSUME NEW p \in Ends, NEW e, Setting, Local(p, e), HereOK(p, e), e.prog = "ticket"
  PROVE  /\ p = "server" /\ Past(e) /\ Version = "13" /\ e.pc = 1 /\ DOMAIN e = Fields /\ e.err = "none"
         /\ Rested(p, e) /\ Rests13(p, e) /\ e.q = <<>> /\ Buffers(e) /\ e.keys[e.we].w = LateK
         /\ At(p, e) = S(301, "send", "NewSessionTicket")
  <1>1. Past(e) /\ Versions
    BY SettingParts DEF Past
  <1>2. /\ Rested(p, e) /\ e.q = <<>> /\ DOMAIN e = Fields /\ e.err = "none" /\ p = "server" /\ Buffers(e)
        /\ e.keys[e.we].w = LateK
        /\ Version = "13" => Rests13(p, e)
        /\ Version # "13" => e.prog = "none"
    BY <1>1, RestedIs
  <1>3. e.pc = 1
    BY <1>1, <1>2, Due
  <1>4. At(p, e) = S(301, "send", "NewSessionTicket")
    BY <1>2, <1>3, LaterSteps
  <1> QED BY <1>1, <1>2, <1>3, <1>4

\* What it leaves alone.
LEMMA TicketHere ==
  ASSUME NEW e, NEW g, Setting, Local("server", e), HereOK("server", e), e.prog = "ticket", Resumes(e, g),
         g.prog \in {"ticket", "none"}, g.auths = e.auths, \A x \in {"in_flight", "crt_vrfy_expected"} : Has(g, x) <=> Has(e, x)
  PROVE  /\ HereOK("server", g) /\ Past(g) /\ Said("server", g) = Said("server", e) /\ HeardTo("server", g) = HeardTo("server", e)
         /\ First1("server", g) = FALSE
  <1>0. "server" \in Ends
    BY DEF Ends
  <1>1. /\ Past(e) /\ Version = "13" /\ Rested("server", e) /\ Rests13("server", e) /\ e.err = "none"
    BY <1>0, TicketIs
  <1>2. Past(g)
    BY DEF Past
  <1>3. Rests13("server", g)
    BY <1>1 DEF Rests13, Resumes
  <1>4. Rested("server", g)
    BY <1>1, <1>3 DEF Rested, Resumes, SameEpochs
  <1>5. HereOK("server", g)
    BY <1>1, <1>2, <1>4 DEF HereOK, Resumes
  <1>6. Said("server", g) = Said("server", e) /\ HeardTo("server", g) = HeardTo("server", e)
    BY <1>1, <1>2 DEF Said, HeardTo, AuthSaid, AuthHeard
  <1>7. First1("server", g) = FALSE
    BY DEF First1
  <1> QED BY <1>2, <1>5, <1>6, <1>7

\* No ticket is sent, or it is out.
LEMMA TicketAdvanceOK ==
  ASSUME NEW p \in Ends, NEW e, NEW o, Ready(p, e, o), e.prog = "ticket"
  PROVE  OK(p, Advance(p, e), o)
  <1> DEFINE g == Complete([e EXCEPT !.again = FALSE])
  <1>1. Setting /\ Local(p, e) /\ HereOK(p, e)
    BY DEF Ready
  <1>2. p = "server" /\ Past(e) /\ e.pc = 1 /\ DOMAIN e = Fields /\ e.err = "none" /\ e.q = <<>>
    BY <1>1, TicketIs
  <1>3. Len(Engine(p, e.prog)) = e.pc /\ e.pc \in Nat
    BY <1>2, Lengths
  <1>a. DOMAIN e = Fields /\ e.err = "none"
    BY <1>2
  <1>4. Advance(p, e) = g
    BY <1>3, <1>a, AdvanceIs
  <1>5. /\ g.prog = "none" /\ g.flags = e.flags /\ g.re = e.re /\ g.we = e.we /\ SameBuffers(e, g)
        /\ g.keys = e.keys /\ g.saved = e.saved /\ g.min = e.min
    BY <1>2, CompleteFields
  <1>6. /\ g.sent = e.sent /\ g.got = e.got /\ g.auths = e.auths /\ g.done = e.done /\ g.started = e.started
        /\ g.err = e.err
    BY <1>2, AuxComplete
  <1>7. g.next = e.next
    BY <1>2 DEF Complete, Fields
  <1> HIDE DEF g
  <1>8. Resumes(e, g)
    BY <1>2, <1>5, <1>6, <1>7 DEF Resumes, SameEpochs, SameBuffers
  <1>9. \A x \in {"in_flight", "crt_vrfy_expected"} : Has(g, x) <=> Has(e, x)
    BY <1>5 DEF Has
  <1>10. /\ HereOK(p, g) /\ Past(g) /\ Said(p, g) = Said(p, e) /\ HeardTo(p, g) = HeardTo(p, e)
    BY <1>1, <1>2, <1>5, <1>6, <1>8, <1>9, TicketHere
  <1>11. Said(p, e) \in 100..104 /\ HeardTo(p, e) \in 100..104
    BY <1>1, <1>2, LateNumbers
  <1>12. Lates(p, e, g)
    <2>1. \A x \in 100..104 : x \in 0..104 /\ x <= x
      OBVIOUS
    <2>2. Quiet(p, Said(p, e), Said(p, e)) /\ Quiet(Peer(p), HeardTo(p, e), HeardTo(p, e))
      BY <1>11, <2>1, QuietHere
    <2> QED BY <1>10, <1>11, <2>1, <2>2 DEF Lates
  <1>13. Talk(p, g, o)
    BY <1>2, <1>5, <1>6, <1>10, <1>12, LatePass
  <1>14. OK(p, g, o)
    BY <1>10, <1>13 DEF OK
  <1> QED BY <1>4, <1>14

\* The ticket is sent.
LEMMA TicketLateOK ==
  ASSUME NEW e, NEW o, Ready("server", e, o), e.prog = "ticket"
  PROVE  OK("server", [Flush(Compose("server", e, "NewSessionTicket")) EXCEPT !.again = TRUE], o)
  <1> DEFINE p == "server"
             msg == "NewSessionTicket"
             g == [Flush(Compose(p, e, msg)) EXCEPT !.again = TRUE]
             x == Sealed(e, Entry(p, e, msg))
  <1>0. p \in Ends
    BY DEF Ends
  <1>1. Setting /\ Local(p, e) /\ HereOK(p, e) /\ Talk(p, e, o) /\ Fit(Peer(p), o)
    BY DEF Ready
  <1>2. Past(e) /\ Version = "13" /\ e.q = <<>> /\ Buffers(e) /\ e.keys[e.we].w = LateK
    BY <1>0, <1>1, TicketIs
  <1>3. /\ g.prog = e.prog /\ g.err = e.err /\ g.q = <<>> /\ Spoke(p, e, g, msg) /\ Aux(e, g)
        /\ Unread(g) = Append(Unread(e), x) /\ Buffers(g)
    BY <1>0, <1>1, Flushed
  <1> HIDE DEF g
  <1>4. e.keys[e.we].w = AppK
    BY <1>2 DEF LateK
  <1>5. \A h : Slot(p, h, x) = 100 /\ Item(p, 100, x) /\ x.type = "hs"
    BY <1>1, <1>2, <1>4, TicketRecord
  <1> HIDE DEF x
  <1>6. Resumes(e, g)
    BY <1>3 DEF Resumes, Spoke, Aux
  <1>7. \A y \in {"in_flight", "crt_vrfy_expected"} : Has(g, y) <=> Has(e, y)
    BY <1>3 DEF Has, Spoke, SentFlags
  <1>8. /\ HereOK(p, g) /\ Past(g) /\ Said(p, g) = Said(p, e) /\ HeardTo(p, g) = HeardTo(p, e)
        /\ First1(p, g) = FALSE
    BY <1>1, <1>3, <1>6, <1>7, TicketHere DEF Aux
  <1>9. Said(p, e) \in 100..104 /\ First1(p, e) = FALSE /\ Fit(p, e)
    BY <1>0, <1>1, <1>2, LateNumbers, RestedIs
  <1>10. Fit(p, g)
    BY <1>3, <1>8, <1>9 DEF Fit, Ranged
  <1>11. Grows(p, e, g, x, 100)
    BY <1>2, <1>3, <1>5, <1>8, <1>9, Zenon DEF Grows
  <1>12. LateFits(p, HeardTo(Peer(p), o), Said(p, e))
    <2>1. LastOwn(p) \in 13..17
      BY <1>0, LastOwnRange
    <2> QED BY <1>9, <2>1 DEF LateFits
  <1>13. IsLate(100)
    BY DEF IsLate
  <1>14. Adding(p, e, g, x, 100, HeardTo(Peer(p), o))
    BY <1>3, <1>5, <1>8, <1>11, <1>12, <1>13 DEF Adding, Aux
  <1>15. Talk(p, g, o)
    BY <1>0, <1>1, <1>9, <1>10, <1>14, TalkLate
  <1>16. OK(p, g, o)
    BY <1>8, <1>15 DEF OK
  <1> QED BY <1>16 DEF g

-----------------------------------------------------------------------------
(* Reading in a re-authentication.                                           *)

\* At step n of it the server waits for msg, with number k.
ReWaits(e, n, msg, k) ==
    /\ e.prog = "reauth" /\ e.pc = n /\ Reach(e) = n /\ ~e.again /\ k = 100 + n /\ n \in 2..4
    /\ \/ n = 2 /\ msg = "Certificate"
       \/ n = 3 /\ msg = "CertificateVerify" /\ mode.cc
       \/ n = 4 /\ msg = "Finished"

\* Where an endpoint waits in it.
LEMMA ReWaitWhere ==
  ASSUME NEW p \in Ends, NEW e, Setting, Local(p, e), HereOK(p, e), Past(e), Running(e), At(p, e).op = "recv",
         ~Skips(p, e, At(p, e))
  PROVE  p = "server" /\ e.prog = "reauth" /\ ReWaits(e, e.pc, At(p, e).msg, 100 + e.pc)
  <1>1. Versions /\ e.prog \in {"none", "reauth", "ticket"} /\ (e.prog = "ticket" => p = "server")
    BY RestedIs, SettingParts
  <1>2. e.prog # "none"
    BY DEF Running
  <1>3. p = "server"
    <2>1. p = "client" => e.prog \in {"start", "13", "12", "12r"}
      BY <1>1, <1>2, RecvPositions
    <2> QED BY <1>1, <2>1 DEF Ends
  <1>4. e.prog # "ticket"
    <2> SUFFICES ASSUME e.prog = "ticket" PROVE FALSE
      OBVIOUS
    <2>1. At(p, e) = S(301, "send", "NewSessionTicket")
      BY TicketIs
    <2> QED BY <2>1 DEF S
  <1>5. e.prog = "reauth"
    BY <1>1, <1>2, <1>4
  <1>6. ~e.again
    <2>1. e.again => At(p, e).op = "send"
      BY DEF Local, At
    <2> QED BY <2>1
  <1>7. e.pc \in 1..4
    BY <1>3, <1>5, ReauthIs
  <1>8. /\ e.pc = 1 => At(p, e) = S(201, "send", "CertificateRequest")
        /\ e.pc = 2 => At(p, e) = S(202, "recv", "Certificate")
        /\ e.pc = 3 => At(p, e) = S(203, "recv", "CertificateVerify")
        /\ e.pc = 4 => At(p, e) = S(205, "recv", "Finished")
    BY <1>3, <1>5, LaterSteps
  <1>9. e.pc # 1
    BY <1>8 DEF S
  <1>10. e.pc = 3 => mode.cc
    BY <1>3, <1>5, <1>6, ReSkips
  <1>11. /\ e.pc = 2 => At(p, e).msg = "Certificate"
         /\ e.pc = 3 => At(p, e).msg = "CertificateVerify"
         /\ e.pc = 4 => At(p, e).msg = "Finished"
    BY <1>8 DEF S
  <1>12. Reach(e) = e.pc
    BY <1>6 DEF Reach
  <1>13. e.pc \in 2..4
    BY <1>7, <1>9
  <1>14. ReWaits(e, e.pc, At(p, e).msg, 100 + e.pc)
    BY <1>5, <1>6, <1>10, <1>11, <1>12, <1>13 DEF ReWaits
  <1> QED BY <1>3, <1>5, <1>14

\* The numbers of what it waits for.
LEMMA ReWaitsIs ==
  ASSUME NEW e, NEW n, NEW msg, NEW k, ReWaits(e, n, msg, k), Version = "13", mode.reauth
  PROVE  /\ k \in 102..104 /\ Spoken("client", k) /\ MsgOf(k) = msg /\ Alone("client", k, ReHeard("server", n), k)
         /\ ReHeard("server", n) < k /\ ReHeard("server", n + 1) = k /\ Sends("client", k) /\ ~Sends("server", k)
         /\ ReSaid("server", n) = 101 /\ ReSaid("server", n + 1) = 101
         /\ ReHeard("server", n) \in 100..103 /\ (n # 2 => ReHeard("server", n) >= 102)
         /\ Later(101, k) = k /\ Tr(Later(101, ReHeard("server", n))) = Tr(k - 1)
         /\ Tr(k) = Append(Tr(k - 1), <<"client", msg>>)
  <1>1. Sends("client", k) /\ ~Sends("server", k) /\ ~Silent(k) /\ MsgOf(k) = msg /\ k \in 102..104
    BY DEF ReWaits, Sends, Silent, MsgOf
  <1>2. /\ n = 2 => k = 102 /\ ReHeard("server", n) = 100 /\ ReHeard("server", n + 1) = 102
        /\ n = 3 => k = 103 /\ ReHeard("server", n) = 102 /\ ReHeard("server", n + 1) = 103
        /\ n = 4 => k = 104 /\ ReHeard("server", n) = 103 /\ ReHeard("server", n + 1) = 104
        /\ n \in {2, 3, 4}
    BY DEF ReWaits, ReHeard
  <1>3. ReSaid("server", n) = 101 /\ ReSaid("server", n + 1) = 101
    BY <1>2 DEF ReSaid
  <1>4. ~Sends("client", 101)
    BY DEF Sends
  <1>5. Alone("client", k, ReHeard("server", n), k)
    <2>1. \A j \in 1..104 : /\ 100 < j /\ j <= 102 => j = 101 \/ j = 102
                            /\ 102 < j /\ j <= 103 => j = 103
                            /\ 103 < j /\ j <= 104 => j = 104
      OBVIOUS
    <2> QED BY <1>2, <1>4, <2>1 DEF Alone, Spoken
  <1>6. Later(101, k) = k /\ Tr(Later(101, ReHeard("server", n))) = Tr(k - 1)
    <2>1. n = 2 => Later(101, ReHeard("server", n)) = k - 1
      BY <1>2 DEF Later
    <2>2. n = 3 => Later(101, ReHeard("server", n)) = k - 1
      BY <1>2 DEF Later
    <2>3. n = 4 => Later(101, ReHeard("server", n)) = k - 1
      BY <1>2 DEF Later
    <2>4. Later(101, k) = k
      BY <1>1 DEF Later
    <2> QED BY <1>2, <2>1, <2>2, <2>3, <2>4
  <1>7. Tr(k) = Append(Tr(k - 1), <<"client", msg>>)
    <2>1. k \in 5..17 \cup 101..104 /\ MsgOf(k) # "ccs" /\ "client" \in Ends
      BY <1>1 DEF ReWaits, Ends
    <2> QED BY <1>1, <2>1, TrGrows
  <1>8. /\ ReHeard("server", n) < k /\ ReHeard("server", n) \in 100..103 /\ (n # 2 => ReHeard("server", n) >= 102)
        /\ ReHeard("server", n + 1) = k
    BY <1>2
  <1> QED BY <1>1, <1>3, <1>5, <1>6, <1>7, <1>8 DEF Spoken

\* What the server finds: what it waits for, or data before it.
LEMMA ReFirst ==
  ASSUME NEW e, NEW o, NEW n, NEW msg, NEW k, NEW f, Meet("server", e, o), ReWaits(e, n, msg, k), o.wire # <<>>,
         f = FirstNo("server", o)
  PROVE  /\ Late("client", o, f, Head(o.wire))
         /\ f = k \/ (f = 100 /\ n = 2)
  <1> DEFINE K == Slots("client", o)
             a == HeardTo("server", e)
             b == Said("client", o)
             h == [o EXCEPT !.wire = Tail(@)]
  <1>0. "server" \in Ends /\ "client" \in Ends /\ Peer("server") = "client" /\ Peer("client") = "server"
    BY DEF Ends, Peer
  <1>1. /\ Setting /\ Versions /\ Local("server", e) /\ HereOK("server", e) /\ Fit("client", o)
        /\ Flow("client", o, e) /\ e.prog = "reauth"
    BY <1>0, SettingParts DEF Meet, Ready, Talk, ReWaits
  <1>2. ReAt("server", e, Reach(e)) /\ Version = "13" /\ mode.reauth /\ Past(e) /\ Reach(e) = n
    BY <1>0, <1>1, ReauthIs DEF ReWaits
  <1>3. a = ReHeard("server", n)
    BY <1>0, <1>2, ReNumbers
  <1>4. /\ k \in 102..104 /\ Spoken("client", k) /\ Alone("client", k, a, k) /\ a < k
        /\ a \in 100..103 /\ (n # 2 => a >= 102)
    BY <1>2, <1>3, ReWaitsIs
  <1>5. Late("client", o, f, Head(o.wire))
    BY <1>0, <1>2, LateFirst
  <1>6. k \in 101..104
    BY <1>4
  <1>7. f = 100 \/ f = k
    BY <1>0, <1>2, <1>4, <1>6, LateFirst
  <1>8. ASSUME n # 2, f = 100 PROVE FALSE
    <2>1. Consumed("server", o, h)
      BY <1>0, WireTaken DEF Taken
    <2>2. K \in Seq(Nat) /\ K # <<>> /\ K[1] = f
      BY <1>0, <2>1, SlotsLess
    <2>3. Line("client", K, a, b)
      BY <1>0, <1>1 DEF Flow
    <2>4. b \in 0..104
      BY <1>1 DEF Fit, Ranged
    <2>5. a \in 0..104 /\ k \in 1..104 /\ a >= 102 /\ ~(k < 100)
      BY <1>4, <1>8, SMTT(40)
    <2> HIDE DEF K, a, b, h
    <2>6. K[1] = k \/ Silent(K[1])
      BY <1>0, <1>1, <1>4, <2>2, <2>3, <2>4, <2>5, FirstOf
    <2> QED BY <1>4, <1>8, <2>2, <2>6 DEF Silent
  <1> QED BY <1>5, <1>7, <1>8

\* The server reads the message it waits for: what that makes of it.
ReHeardBy(e, f, n, msg, k) ==
    /\ DOMAIN f = Fields /\ Resumes(e, f) /\ SameBuffers(e, f) /\ f.prog = "reauth" /\ f.pc = n
    /\ f.tr = Tr(k) /\ f.auths = 0 /\ f.sent = e.sent /\ f.got = e.got /\ ReFlags("server", f, n + 1)
    /\ n = 4 => f.flags = e.flags

\* What a server does with a message of a re-authentication.
LEMMA ReProcess ==
  ASSUME NEW e, NEW n, NEW msg, NEW k, NEW r, Setting, Local("server", e), HereOK("server", e),
         ReWaits(e, n, msg, k), r.msg = msg, r.info = InfoOf("client", k), k = 104 => r.ctx = Tr(103)
  PROVE  /\ ReHeardBy(e, Process("server", Quit("server", e), r), n, msg, k)
         /\ ~Has(e, "in_flight")
  <1> DEFINE d == Quit("server", e)
             f == Process("server", d, r)
  <1>0. "server" \in Ends /\ Peer("server") = "client"
    BY DEF Ends, Peer
  <1>1. e.prog = "reauth" /\ Reach(e) = n /\ e.pc = n /\ n \in 2..4
    BY DEF ReWaits
  <1>2. /\ ReAt("server", e, n) /\ Version = "13" /\ mode.reauth /\ DOMAIN e = Fields
        /\ e.tr = Tr(Later(ReSaid("server", n), ReHeard("server", n))) /\ ~Has(e, "in_flight") /\ e.q = <<>>
        /\ Has(e, "crt_vrfy_expected") => mode.cc
        /\ n >= 3 => (Has(e, "crt_vrfy_expected") <=> mode.cc)
    BY <1>0, <1>1, ReauthIs
  <1>3. /\ k \in 102..104 /\ MsgOf(k) = msg /\ ReSaid("server", n) = 101
        /\ Tr(Later(101, ReHeard("server", n))) = Tr(k - 1)
        /\ Tr(k) = Append(Tr(k - 1), <<"client", msg>>)
    BY <1>2, ReWaitsIs
  <1>4. e.tr = Tr(k - 1)
    BY <1>2, <1>3
  <1>5. d = e
    BY <1>2 DEF Quit, Quits
  <1>6. r.msg = "Finished" => r.ctx = d.tr
    <2>1. r.msg = "Finished" => k = 104
      BY DEF ReWaits
    <2>2. k = 104 => k - 1 = 103
      OBVIOUS
    <2> QED BY <1>4, <1>5, <2>1, <2>2
  <1>7. SameButEarly(e, d) /\ DOMAIN d = Fields
    BY <1>2, QuitIs DEF SameButEarly
  <1>8. Heard("server", e, f, r)
    BY <1>2, <1>6, <1>7, ProcessFields
  <1>9. Turned("server", d, f, r)
    BY <1>6, <1>7, ProcessTurns
  <1> HIDE DEF f, d
  <1>10. /\ f.flags = Gained(e, r) /\ f.started = e.started /\ f.sent = e.sent /\ f.got = e.got /\ f.auths = e.auths
         /\ f.done = e.done \/ Ends12(e, r)
    BY <1>5, <1>9 DEF Turned
  <1>11. f.done = e.done
    BY <1>1, <1>10 DEF Ends12
  <1>12. msg \in {"Certificate", "CertificateVerify", "Finished"}
    BY DEF ReWaits
  <1>13. f.prog = "reauth" /\ f.pc = n /\ f.tr = Append(e.tr, <<"client", msg>>)
    BY <1>0, <1>1, <1>8, <1>12 DEF Heard
  <1>14. /\ DOMAIN f = Fields /\ f.err = e.err /\ SameEpochs(e, f) /\ SameBuffers(e, f) /\ f.saved = e.saved
    BY <1>8 DEF Heard
  <1>15. Resumes(e, f)
    BY <1>2, <1>10, <1>11, <1>14 DEF Resumes, SameBuffers
  <1>16. msg # "Certificate" => f.flags = e.flags
    BY <1>10, <1>12 DEF Gained
  <1>17. msg = "Certificate" => f.flags = e.flags \cup CertFlags(r.info)
    BY <1>10 DEF Gained
  <1>18. msg = "Certificate" => ("cert" \in r.info <=> mode.cc)
    <2> SUFFICES ASSUME msg = "Certificate" PROVE "cert" \in r.info <=> mode.cc
      OBVIOUS
    <2>1. MsgOf(k) = "Certificate" /\ k \notin {1, 4} /\ k # 5
      BY <1>3
    <2>2. InfoOf("client", k) = {x \in {"cert"} : mode.cc}
      BY <2>1 DEF InfoOf
    <2> QED BY <2>2
  <1>19. n = 2 <=> msg = "Certificate"
    BY DEF ReWaits
  <1>20. ReFlags("server", f, n + 1)
    <2>1. CASE n = 2
      BY <1>2, <1>17, <1>18, <1>19, <2>1 DEF ReFlags, Has, CertFlags
    <2>2. CASE n # 2
      <3>1. n >= 3
        BY <1>1, <2>2
      <3> QED BY <1>2, <1>16, <1>19, <2>2, <3>1 DEF ReFlags, Has
    <2> QED BY <2>1, <2>2
  <1>21. f.auths = 0
    BY <1>2, <1>10 DEF ReAt
  <1>22. f.tr = Tr(k)
    BY <1>3, <1>4, <1>13
  <1>23. n = 4 => f.flags = e.flags
    BY <1>16, <1>19
  <1>24. ReHeardBy(e, f, n, msg, k)
    BY <1>10, <1>13, <1>14, <1>15, <1>20, <1>21, <1>22, <1>23 DEF ReHeardBy
  <1> QED BY <1>2, <1>24 DEF f, d

\* The server after it.
ReAfter(e, g, k) == /\ HereOK("server", g) /\ Past(g) /\ SameBuffers(e, g) /\ g.sent = e.sent /\ g.got = e.got
                    /\ Said("server", g) = 101 /\ HeardTo("server", g) = k

\* And where it goes on.
LEMMA ReMoves ==
  ASSUME NEW e, NEW f, NEW n, NEW msg, NEW k, Setting, Local("server", e), HereOK("server", e),
         ReWaits(e, n, msg, k), ReHeardBy(e, f, n, msg, k)
  PROVE  ReAfter(e, Advance("server", f), k)
  <1>0. "server" \in Ends
    BY DEF Ends
  <1>1. e.prog = "reauth" /\ Reach(e) = n /\ e.pc = n /\ n \in 2..4
    BY DEF ReWaits
  <1>2. ReAt("server", e, n) /\ Version = "13" /\ mode.reauth /\ e.err = "none"
    BY <1>0, <1>1, ReauthIs
  <1>3. ReSaid("server", n + 1) = 101 /\ ReHeard("server", n + 1) = k /\ Later(101, k) = k
    BY <1>2, ReWaitsIs
  <1>4. /\ DOMAIN f = Fields /\ Resumes(e, f) /\ SameBuffers(e, f) /\ f.prog = "reauth" /\ f.pc = n /\ f.pc \in Nat
        /\ f.tr = Tr(k) /\ f.auths = 0 /\ f.sent = e.sent /\ f.got = e.got /\ ReFlags("server", f, n + 1)
        /\ n = 4 => f.flags = e.flags
    BY <1>1 DEF ReHeardBy
  <1>5. f.err = "none"
    BY <1>2, <1>4 DEF Resumes
  <1>6. Len(Engine("server", f.prog)) = 4
    BY <1>4, Lengths
  <1>7. CASE n # 4
    <2> DEFINE g == Moved(f)
    <2>1. Advance("server", f) = g
      <3>1. f.pc # Len(Engine("server", f.prog))
        BY <1>4, <1>6, <1>7
      <3> QED BY <1>4, <1>5, <3>1, AdvanceIs
    <2>2. /\ g.pc = n + 1 /\ g.again = FALSE /\ g.prog = "reauth" /\ SameEpochs(f, g) /\ SameBuffers(f, g)
          /\ g.flags = f.flags /\ g.tr = f.tr /\ g.saved = f.saved /\ g.err = f.err
      BY <1>4, MovedFields DEF SameSecrets
    <2>3. Aux(f, g)
      BY <1>4, AuxMoved
    <2> HIDE DEF g
    <2>4. ReAt("server", g, n + 1)
      BY <1>1, <1>4, <1>7, <2>2, <2>3 DEF ReAt, Reach, Aux
    <2>5. Resumes(e, g)
      BY <1>4, <2>2, <2>3 DEF Resumes, SameEpochs, SameBuffers, Aux
    <2>6. ReFlags("server", g, n + 1)
      <3>1. \A x : Has(g, x) <=> Has(f, x)
        BY <2>2 DEF Has
      <3> QED BY <1>4, <3>1 DEF ReFlags
    <2>7. g.tr = Tr(Later(ReSaid("server", n + 1), ReHeard("server", n + 1)))
      BY <1>3, <1>4, <2>2
    <2>8. HereOK("server", g)
      BY <1>0, <1>1, <2>4, <2>5, <2>6, <2>7, ReauthHere
    <2>9. Past(g) /\ Said("server", g) = 101 /\ HeardTo("server", g) = k
      BY <1>0, <1>3, <2>4, ReNumbers
    <2>10. ReAfter(e, g, k)
      BY <1>4, <2>2, <2>3, <2>8, <2>9 DEF ReAfter, SameBuffers, Aux
    <2> QED BY <2>1, <2>10
  <1>8. CASE n = 4
    <2> DEFINE g == Complete([f EXCEPT !.again = FALSE])
    <2>1. Advance("server", f) = g
      <3>1. f.pc = Len(Engine("server", f.prog))
        BY <1>4, <1>6, <1>8
      <3> QED BY <1>4, <1>5, <3>1, AdvanceIs
    <2>2. f.auths = e.auths
      BY <1>2, <1>4 DEF ReAt
    <2>3. ReEnded("server", f, g)
      BY <1>0, <1>1, <1>4, <1>8, <2>2, ReComplete
    <2> HIDE DEF g
    <2>4. k = 104
      BY <1>8 DEF ReWaits
    <2>5. ReAfter(e, g, k)
      BY <1>4, <2>3, <2>4 DEF ReAfter, ReEnded, SameBuffers
    <2> QED BY <2>1, <2>5
  <1> QED BY <1>7, <1>8

\* It is heard.
LEMMA ReAfterOK ==
  ASSUME NEW e, NEW g, NEW o, NEW h, NEW n, NEW msg, NEW k, Meet("server", e, o), o.wire # <<>>, Popped(o, h),
         ReWaits(e, n, msg, k), FirstNo("server", o) = k, ReAfter(e, g, k)
  PROVE  OK("server", g, h)
  <1>0. "server" \in Ends /\ "client" \in Ends /\ Peer("server") = "client"
    BY DEF Ends, Peer
  <1>1. Setting /\ Versions /\ Local("server", e) /\ HereOK("server", e) /\ Talk("server", e, o) /\ Fit("client", o)
    BY <1>0, SettingParts DEF Meet, Ready
  <1>2. e.prog = "reauth" /\ Reach(e) = n
    BY DEF ReWaits
  <1>3. ReAt("server", e, n) /\ Version = "13" /\ mode.reauth /\ e.q = <<>> /\ Past(e)
    BY <1>0, <1>1, <1>2, ReauthIs
  <1>4. Fit("server", e) /\ Buffers(e) /\ First1("server", e) = FALSE
    BY <1>0, <1>1, <1>3, RestedIs
  <1>5. /\ HereOK("server", g) /\ Past(g) /\ SameBuffers(e, g) /\ g.sent = e.sent /\ g.got = e.got
        /\ Said("server", g) = 101 /\ HeardTo("server", g) = k
    BY DEF ReAfter
  <1>6. Said("server", e) = ReSaid("server", n) /\ HeardTo("server", e) = ReHeard("server", n)
    BY <1>0, <1>3, ReNumbers
  <1>7. /\ k \in 102..104 /\ Spoken("client", k) /\ Alone("client", k, ReHeard("server", n), k)
        /\ ReSaid("server", n) = 101
    BY <1>3, ReWaitsIs
  <1>8. Unread(g) = Unread(e) /\ Buffers(g)
    BY <1>3, <1>4, <1>5, SameUnread
  <1>9. First1("server", g) = FALSE
    BY DEF First1
  <1>10. Slots("server", g) = Slots("server", e)
    <2>1. First1("server", g) = First1("server", e)
      BY <1>4, <1>9, Zenon
    <2> QED BY <1>8, <2>1, SameSlots
  <1>11. Fit("server", g)
    <2>1. k \in 0..104 /\ 101 \in 0..104
      BY <1>7
    <2> QED BY <1>5, <1>8, <2>1 DEF Fit, Ranged
  <1>12. Listening("server", e, g)
    <2>1. Quiet("server", 101, 101) /\ Stays8("server", 101, 101) /\ 101 <= 101
      <3>1. 101 \in 0..104 /\ 101 <= 101
        OBVIOUS
      <3>2. Stays8("server", 101, 101)
        BY DEF Stays8
      <3> QED BY <1>0, <3>1, <3>2, QuietHere
    <2> QED BY <1>5, <1>6, <1>7, <1>8, <1>10, <2>1 DEF Listening
  <1>13. Hearing("server", e, g, k)
    <2>1. Passes("client", k, k)
      BY <1>7 DEF Passes
    <2>2. k <= k
      BY <1>7
    <2> QED BY <1>0, <1>5, <1>6, <1>7, <2>1, <2>2 DEF Hearing
  <1>14. Taken("server", o, h)
    BY <1>0, PoppedIs
  <1>15. Talk("server", g, h)
    BY <1>0, <1>1, <1>4, <1>11, <1>12, <1>13, <1>14, TalkHear
  <1> QED BY <1>5, <1>15 DEF OK

\* Reading after the handshake.
LEMMA LateWaitOK ==
  ASSUME NEW p \in Ends, NEW e, NEW o, NEW h, NEW r, Meet(p, e, o), Past(e), Running(e), At(p, e).op = "recv",
         ~Skips(p, e, At(p, e)), o.wire # <<>>, Popped(o, h), r = Head(o.wire)
  PROVE  OK(p, Outcome(p, e, r, At(p, e)), h)
  <1> DEFINE n == e.pc
             msg == At(p, e).msg
             k == 100 + e.pc
             x == FirstNo("server", o)
             f == Process("server", Quit("server", e), r)
  <1>1. Setting /\ Local(p, e) /\ HereOK(p, e)
    BY DEF Meet, Ready
  <1>2. p = "server" /\ e.prog = "reauth" /\ ReWaits(e, n, msg, k)
    BY <1>1, ReWaitWhere
  <1>3. Late("client", o, x, r) /\ (x = k \/ (x = 100 /\ n = 2))
    BY <1>2, ReFirst
  <1>4. "client" \in Ends /\ "server" \in Ends
    BY DEF Ends
  <1>5. /\ r.key = LateK /\ r.type # "ccs"
        /\ x = 100 => r.type = "data"
        /\ x # 100 => r.type = "hs" /\ r.msg = MsgOf(x) /\ r.info = InfoOf("client", x)
        /\ x = 104 => r.ctx = Tr(103)
    BY <1>1, <1>3, <1>4, LateRecord
  <1>6. ReadKey(e) = LateK
    BY <1>1, RestedIs
  <1>7. ~Has(e, "in_flight") /\ e.done /\ Version = "13" /\ mode.reauth
    BY <1>1, <1>2, ReauthIs
  <1>8. CASE x = 100 /\ n = 2
    <2>1. msg = "Certificate"
      BY <1>2, <1>8 DEF ReWaits
    <2>2. TakesData(e, At(p, e))
      BY <1>7, <2>1 DEF TakesData
    <2>3. ~Discards(p, e, r)
      BY <1>7 DEF Discards
    <2>4. Outcome(p, e, r, At(p, e)) = [e EXCEPT !.got = Append(@, r.msg)]
      BY <1>5, <1>6, <1>7, <1>8, <2>2, <2>3 DEF Outcome
    <2>5. OK(p, [e EXCEPT !.got = Append(@, r.msg)], h)
      BY <1>2, <1>5, <1>8, LateDataOK
    <2> QED BY <2>4, <2>5
  <1>9. CASE x = k
    <2>1. k \in 102..104 /\ MsgOf(k) = msg
      BY <1>2, <1>7, ReWaitsIs
    <2>2. r.type = "hs" /\ r.msg = msg /\ r.info = InfoOf("client", k) /\ (k = 104 => r.ctx = Tr(103))
      BY <1>5, <1>9, <2>1
    <2>3. Outcome(p, e, r, At(p, e)) = Advance(p, Process(p, Quit(p, e), r))
      BY <1>5, <1>6, <1>7, <2>2, OutcomeIs
    <2> HIDE DEF n, msg, k, x
    <2>4. ReHeardBy(e, f, n, msg, k)
      BY <1>1, <1>2, <2>2, ReProcess
    <2> HIDE DEF f
    <2>5. ReAfter(e, Advance("server", f), k)
      BY <1>1, <1>2, <2>4, ReMoves
    <2>6. OK("server", Advance("server", f), h)
      BY <1>2, <1>9, <2>5, ReAfterOK DEF x
    <2> QED BY <1>2, <2>3, <2>6 DEF f
  <1> QED BY <1>3, <1>8, <1>9

-----------------------------------------------------------------------------
(* The script of a handshake depends on its mode only, which does not change. *)

\* Who sends what.
LEMMA SameSends ==
  ASSUME mode' = mode
  PROVE  /\ Version' = Version /\ (Psk' <=> Psk) /\ (Asked' <=> Asked) /\ (EarlySent' <=> EarlySent)
         /\ EarlyTaken' <=> EarlyTaken
         /\ \A p, k : Sends(p, k)' <=> Sends(p, k)
         /\ \A k : Silent(k)' <=> Silent(k)
         /\ \A p, k : Spoken(p, k)' <=> Spoken(p, k)
         /\ \A p : LastOwn(p)' = LastOwn(p)
         /\ \A k : MsgOf(k)' = MsgOf(k)
  <1>1. Version' = Version
    BY SameVersion
  <1>2. (Psk' <=> Psk) /\ (EarlySent' <=> EarlySent) /\ (EarlyTaken' <=> EarlyTaken)
    BY DEF Psk, EarlySent, EarlyTaken
  <1>3. Asked' <=> Asked
    BY <1>2 DEF Asked
  <1>4. \A p, k : Sends(p, k)' <=> Sends(p, k)
    BY <1>1, <1>2, <1>3 DEF Sends
  <1>5. \A k : Silent(k)' <=> Silent(k)
    BY <1>1 DEF Silent
  <1>6. \A p, k : Spoken(p, k)' <=> Spoken(p, k)
    BY <1>4, <1>5 DEF Spoken
  <1>7. \A p : LastOwn(p)' = LastOwn(p)
    BY <1>1 DEF LastOwn
  <1>8. \A k : MsgOf(k)' = MsgOf(k)
    BY <1>1 DEF MsgOf
  <1> QED BY <1>1, <1>2, <1>3, <1>4, <1>5, <1>6, <1>7, <1>8

\* The transcripts.
LEMMA SameTr ==
  ASSUME mode' = mode
  PROVE  \A k : Tr(k)' = Tr(k)
  <1>1. \A s, k : Extend(s, k)' = Extend(s, k)
    BY SameSends DEF Extend
  <1>2. Hello' = Hello
    BY DEF Hello
  <1>3. T5' = T5
    BY <1>1, <1>2 DEF T5
  <1>4. T6' = T6
    BY <1>1, <1>3 DEF T6
  <1>5. T7' = T7
    BY <1>1, <1>4 DEF T7
  <1>6. T8' = T8
    BY <1>1, <1>5 DEF T8
  <1>7. T9' = T9
    BY <1>1, <1>6 DEF T9
  <1>8. T10' = T10
    BY <1>1, <1>7 DEF T10
  <1>9. T11' = T11
    BY <1>1, <1>8 DEF T11
  <1>10. T12' = T12
    BY <1>1, <1>9 DEF T12
  <1>11. T13' = T13
    BY <1>1, <1>10 DEF T13
  <1>12. T14' = T14
    BY <1>1, <1>11 DEF T14
  <1>13. T15' = T15
    BY <1>1, <1>12 DEF T15
  <1>14. T16' = T16
    BY <1>1, <1>13 DEF T16
  <1>15. T17' = T17
    BY <1>1, <1>14 DEF T17
  <1>16. T101' = T101
    BY <1>1, <1>15 DEF T101
  <1>17. T102' = T102
    BY <1>1, <1>16 DEF T102
  <1>18. T103' = T103
    BY <1>1, <1>17 DEF T103
  <1>19. T104' = T104
    BY <1>1, <1>18 DEF T104
  <1>20. ASSUME NEW k PROVE Tr(k)' = Tr(k)
    BY <1>2, <1>3, <1>4, <1>5, <1>6, <1>7, <1>8, <1>9, <1>10, <1>11, <1>12, <1>13, <1>14, <1>15, <1>16, <1>17,
       <1>18, <1>19 DEF Tr
  <1> QED BY <1>20

\* The keys.
LEMMA SameKeys ==
  ASSUME mode' = mode
  PROVE  /\ HsK' = HsK /\ AppK' = AppK /\ EarlyK' = EarlyK /\ K12' = K12 /\ LateK' = LateK
         /\ \A k : KeyOf(k)' = KeyOf(k)
         /\ \A p, k : InfoOf(p, k)' = InfoOf(p, k)
         /\ \A p, n : /\ WriteKeyAt(p, n)' = WriteKeyAt(p, n) /\ ReadKeyAt(p, n)' = ReadKeyAt(p, n)
                      /\ NextKeyAt(p, n)' = NextKeyAt(p, n)
  <1>0. Version' = Version /\ (EarlySent' <=> EarlySent) /\ (EarlyTaken' <=> EarlyTaken)
        /\ (\A k : Tr(k)' = Tr(k)) /\ (\A k : MsgOf(k)' = MsgOf(k)) /\ (Psk' <=> Psk)
    BY SameSends, SameTr
  <1>1. \A s, c : KeyFor(s, c)' = KeyFor(s, c)
    BY DEF KeyFor, Psk
  <1>2. HsK' = HsK /\ AppK' = AppK /\ EarlyK' = EarlyK
    BY <1>0, <1>1 DEF HsK, AppK, EarlyK
  <1>3. K12' = K12
    BY <1>0, <1>1 DEF K12
  <1>4. LateK' = LateK
    BY <1>0, <1>2, <1>3 DEF LateK
  <1>5. \A k : KeyOf(k)' = KeyOf(k)
    BY <1>0, <1>2, <1>3, <1>4 DEF KeyOf
  <1>6. \A p, k : InfoOf(p, k)' = InfoOf(p, k)
    BY <1>0 DEF InfoOf
  <1>7. \A p, n : WriteKeyAt(p, n)' = WriteKeyAt(p, n)
    BY <1>0, <1>2, <1>3 DEF WriteKeyAt
  <1>8. \A p, n : ReadKeyAt(p, n)' = ReadKeyAt(p, n)
    BY <1>0, <1>2, <1>3 DEF ReadKeyAt
  <1>9. \A p, n : NextKeyAt(p, n)' = NextKeyAt(p, n)
    BY <1>0, <1>2, <1>3 DEF NextKeyAt
  <1> QED BY <1>2, <1>3, <1>4, <1>5, <1>6, <1>7, <1>8, <1>9

\* How far an endpoint is.
LEMMA SameSaid ==
  ASSUME mode' = mode
  PROVE  /\ \A p, n : SaidAt(p, n)' = SaidAt(p, n) /\ HeardAt(p, n)' = HeardAt(p, n)
         /\ \A p, e : Said(p, e)' = Said(p, e) /\ HeardTo(p, e)' = HeardTo(p, e)
  <1>0. Version' = Version
    BY SameSends
  <1>1. \A p, n : SaidAt(p, n)' = SaidAt(p, n)
    BY <1>0 DEF SaidAt
  <1>2. \A p, n : HeardAt(p, n)' = HeardAt(p, n)
    BY <1>0 DEF HeardAt
  <1>3. \A p, e : Said(p, e)' = Said(p, e)
    BY <1>1 DEF Said
  <1>4. \A p, e : HeardTo(p, e)' = HeardTo(p, e)
    BY <1>2 DEF HeardTo
  <1> QED BY <1>1, <1>2, <1>3, <1>4

\* What the state of an endpoint is.
LEMMA SameHere ==
  ASSUME NEW p, NEW e, mode' = mode
  PROVE  HereOK(p, e)' <=> HereOK(p, e)
  <1>0. /\ Version' = Version /\ (Psk' <=> Psk) /\ (Asked' <=> Asked) /\ (EarlySent' <=> EarlySent)
        /\ EarlyTaken' <=> EarlyTaken
        /\ \A k : Tr(k)' = Tr(k)
        /\ \A n : SaidAt(p, n)' = SaidAt(p, n) /\ HeardAt(p, n)' = HeardAt(p, n)
        /\ LateK' = LateK
    BY SameSends, SameTr, SameKeys, SameSaid
  <1>1. \A n : KeysAt(p, e, n)' <=> KeysAt(p, e, n)
    BY SameKeys DEF KeysAt
  <1>2. \A n : ClientFlags(e, n)' <=> ClientFlags(e, n)
    BY <1>0 DEF ClientFlags
  <1>3. \A n : ServerFlags(e, n)' <=> ServerFlags(e, n)
    BY <1>0 DEF ServerFlags
  <1>4. \A n : FlagsAt(p, e, n)' <=> FlagsAt(p, e, n)
    BY <1>2, <1>3 DEF FlagsAt
  <1>5. \A n : SecretsAt(p, e, n)' <=> SecretsAt(p, e, n)
    <2>1. \A n : Forgets(p, n)' <=> Forgets(p, n)
      BY <1>0 DEF Forgets
    <2>2. Psk' = Psk
      BY DEF Psk
    <2> QED BY <1>0, <2>1, <2>2 DEF SecretsAt
  <1>6. QueueEnd(p)' = QueueEnd(p)
    BY <1>0 DEF QueueEnd
  <1>7. \A n : Stands(p, e, n)' <=> Stands(p, e, n)
    BY <1>0, <1>1, <1>4, <1>5, <1>6 DEF Stands
  <1>8. Rests13(p, e)' <=> Rests13(p, e)
    BY <1>0 DEF Rests13
  <1>9. Rested(p, e)' <=> Rested(p, e)
    BY <1>0, <1>8 DEF Rested
  <1> QED BY <1>7, <1>9 DEF HereOK

\* What is under way between two.
LEMMA SameWords ==
  ASSUME NEW p, NEW e, NEW o, mode' = mode
  PROVE  Talk(p, e, o)' <=> Talk(p, e, o)
  <1>0. /\ Version' = Version /\ (EarlyTaken' <=> EarlyTaken)
        /\ \A q, k : Sends(q, k)' <=> Sends(q, k)
        /\ \A k : Silent(k)' <=> Silent(k)
        /\ \A q, k : Spoken(q, k)' <=> Spoken(q, k)
        /\ \A q : LastOwn(q)' = LastOwn(q)
        /\ \A k : Tr(k)' = Tr(k)
        /\ \A k : KeyOf(k)' = KeyOf(k)
        /\ \A q, k : InfoOf(q, k)' = InfoOf(q, k)
        /\ \A q, x : Said(q, x)' = Said(q, x) /\ HeardTo(q, x)' = HeardTo(q, x)
    BY SameSends, SameTr, SameKeys, SameSaid
  <1>1. \A q, h, r : Slot(q, h, r)' = Slot(q, h, r)
    BY <1>0 DEF Slot
  <1>2. \A q, x : First1(q, x)' = First1(q, x)
    BY DEF First1
  <1>3. \A q, x : Slots(q, x)' = Slots(q, x)
    BY <1>1, <1>2 DEF Slots
  <1>4. \A q, k, r : Item(q, k, r)' <=> Item(q, k, r)
    BY <1>0 DEF Item
  <1>5. \A q, x : Items(q, x)' <=> Items(q, x)
    BY <1>3, <1>4 DEF Items
  <1>6. \A q, k, a : Pending(q, k, a)' <=> Pending(q, k, a)
    BY <1>0 DEF Pending
  <1>7. \A q, k, a, b : InRange(q, k, a, b)' <=> InRange(q, k, a, b)
    BY <1>0, <1>6 DEF InRange
  <1>8. \A q, K, a, b : Whole(q, K, a, b)' <=> Whole(q, K, a, b)
    BY <1>0 DEF Whole
  <1>9. \A q, a, b : Sane(q, a, b)' <=> Sane(q, a, b)
    BY <1>0 DEF Sane
  <1>10. \A q, K, a, b : Line(q, K, a, b)' <=> Line(q, K, a, b)
    BY <1>7, <1>8, <1>9 DEF Line
  <1>11. \A q, x, y : Flow(q, x, y)' <=> Flow(q, x, y)
    BY <1>0, <1>3, <1>5, <1>10 DEF Flow
  <1>12. \A q, x : Numbers(q, x)' = Numbers(q, x)
    BY <1>3 DEF Numbers
  <1>13. \A q : Skew(q)' = Skew(q)
    BY <1>0 DEF Skew
  <1>14. \A q, x : Got(q, x)' = Got(q, x)
    BY <1>13 DEF Got
  <1>15. \A q, x, y : DataOK(q, x, y)' <=> DataOK(q, x, y)
    BY <1>0, <1>3, <1>12, <1>13, <1>14 DEF DataOK
  <1> QED BY <1>11, <1>15 DEF Talk

-----------------------------------------------------------------------------
(* The steps of an endpoint, whichever engine it runs.                       *)

\* The engines.
LEMMA ProgIs ==
  ASSUME NEW p \in Ends, NEW e, Setting, Local(p, e), HereOK(p, e), Running(e)
  PROVE  /\ e.prog \in {"start", "13", "12", "12r", "reauth", "ticket"}
         /\ Past(e) <=> e.prog \in {"reauth", "ticket"}
         /\ e.prog = "ticket" => p = "server"
  <1>1. e.prog # "none"
    BY DEF Running
  <1>2. CASE Past(e)
    <2>1. e.prog \in {"none", "reauth", "ticket"} /\ (e.prog = "ticket" => p = "server")
      BY <1>2, RestedIs
    <2> QED BY <1>1, <1>2, <2>1
  <1>3. CASE ~Past(e)
    BY <1>3 DEF Past
  <1> QED BY <1>2, <1>3

\* A step that is skipped.
LEMMA SkipsOK ==
  ASSUME NEW p \in Ends, NEW e, NEW o, Meet(p, e, o), Running(e), ~e.again, Skips(p, e, At(p, e))
  PROVE  OK(p, Advance(p, e), o)
  <1>1. Ready(p, e, o) /\ Setting /\ Versions /\ Local(p, e) /\ HereOK(p, e) /\ Talk(p, e, o) /\ Fit(Peer(p), o)
    BY SettingParts DEF Meet, Ready
  <1>2. e.prog \in {"start", "13", "12", "12r", "reauth", "ticket"}
    BY <1>1, ProgIs
  <1>3. CASE e.prog = "start"
    <2>1. p = "client" => e.pc \in 1..3
      BY <1>1, <1>3, StartClient
    <2>2. p = "server" => e.pc = 1
      BY <1>1, <1>3, StartServer
    <2>3. e.pc \in (IF p = "client" THEN 1..3 ELSE {1})
      BY <2>1, <2>2 DEF Ends
    <2>4. ~Skips(p, e, At(p, e))
      BY <1>3, <2>3, SkipsStart
    <2> QED BY <2>4
  <1>4. CASE e.prog \in {"13", "12", "12r"}
    <2>1. Good(p, e, Advance(p, e))
      BY <1>1, PlainGood
    <2>2. Local(p, Advance(p, e))
      BY <2>1 DEF Good
    <2> QED BY <1>1, <1>4, <2>2, SkipOK
  <1>5. CASE e.prog = "reauth"
    BY <1>1, <1>5, ReAdvanceOK
  <1>6. CASE e.prog = "ticket"
    BY <1>1, <1>6, TicketAdvanceOK
  <1> QED BY <1>2, <1>3, <1>4, <1>5, <1>6

\* A message that is out.
LEMMA DonesOK ==
  ASSUME NEW p \in Ends, NEW e, NEW o, Meet(p, e, o), Running(e), e.again
  PROVE  OK(p, Advance(p, e), o)
  <1>1. Ready(p, e, o) /\ Setting /\ Versions /\ Local(p, e) /\ HereOK(p, e) /\ Talk(p, e, o) /\ Fit(Peer(p), o)
    BY SettingParts DEF Meet, Ready
  <1>2. e.prog \in {"start", "13", "12", "12r", "reauth", "ticket"}
    BY <1>1, ProgIs
  <1>3. CASE e.prog = "start"
    <2>1. p = "client"
      <3>1. p = "server" => ~e.again
        BY <1>1, <1>3, StartServer
      <3> QED BY <3>1 DEF Ends
    <2>2. Ready("client", e, o)
      BY <1>1, <2>1
    <2>3. OK("client", Advance("client", e), o)
      BY <1>3, <2>2, StartGoes
    <2> QED BY <2>1, <2>3
  <1>4. CASE e.prog \in {"13", "12", "12r"}
    <2>0. At(p, e).op = "send"
      BY <1>1 DEF Local, At
    <2>1. Good(p, e, Advance(p, e))
      BY <1>1, <2>0, PlainGood
    <2>2. Local(p, Advance(p, e))
      BY <2>1 DEF Good
    <2> QED BY <1>1, <1>4, <2>2, DoneOK
  <1>5. CASE e.prog = "reauth"
    BY <1>1, <1>5, ReAdvanceOK
  <1>6. CASE e.prog = "ticket"
    BY <1>1, <1>6, TicketAdvanceOK
  <1> QED BY <1>2, <1>3, <1>4, <1>5, <1>6

\* A step that only works on the session.
LEMMA DosOK ==
  ASSUME NEW p \in Ends, NEW e, NEW o, Meet(p, e, o), Running(e), At(p, e).op = "do", ~Skips(p, e, At(p, e))
  PROVE  OK(p, Advance(p, Do(p, e, At(p, e).msg)), o)
  <1>1. Ready(p, e, o) /\ Versions /\ Local(p, e)
    BY SettingParts DEF Meet, Ready
  <1>2. Good(p, e, Advance(p, Do(p, e, At(p, e).msg)))
    BY <1>1, DoGood
  <1>3. Local(p, Advance(p, Do(p, e, At(p, e).msg)))
    BY <1>2 DEF Good
  <1> QED BY <1>1, <1>3, DoOK

\* A message that is composed after the handshake.
LEMMA LateSendOK ==
  ASSUME NEW p \in Ends, NEW e, NEW o, Meet(p, e, o), Running(e), Past(e), ~e.again,
         At(p, e).op = "send", ~Skips(p, e, At(p, e))
  PROVE  /\ At(p, e).state # 115 /\ At(p, e).msg \notin Cached(e)
         /\ OK(p, [Flush(Compose(p, e, At(p, e).msg)) EXCEPT !.again = TRUE], o)
  <1> DEFINE msg == At(p, e).msg
  <1>1. Ready(p, e, o) /\ Setting /\ Local(p, e) /\ HereOK(p, e)
    BY DEF Meet, Ready
  <1>2. e.prog \in {"reauth", "ticket"} /\ (e.prog = "ticket" => p = "server")
    BY <1>1, ProgIs
  <1>3. CASE e.prog = "reauth"
    <2>1. /\ ReSpeaks(p, Reach(e), msg, ReSaid(p, Reach(e) + 1)) /\ At(p, e).state # 115
          /\ Cached(e) = {} /\ Reach(e) = e.pc
      BY <1>1, <1>3, ReSendWhere
    <2> HIDE DEF msg
    <2>2. OK(p, [Flush(Compose(p, e, msg)) EXCEPT !.again = TRUE], o)
      BY <1>1, <1>3, <2>1, ReSendOK
    <2> QED BY <2>1, <2>2 DEF msg
  <1>4. CASE e.prog = "ticket"
    <2>1. p = "server" /\ At(p, e) = S(301, "send", "NewSessionTicket")
      BY <1>1, <1>4, TicketIs
    <2>2. At(p, e).state = 301 /\ msg = "NewSessionTicket"
      BY <2>1 DEF S
    <2>3. msg \notin Cached(e)
      BY <1>4, <2>2 DEF Cached
    <2>4. OK("server", [Flush(Compose("server", e, "NewSessionTicket")) EXCEPT !.again = TRUE], o)
      BY <1>1, <1>4, <2>1, TicketLateOK
    <2>5. OK(p, [Flush(Compose(p, e, msg)) EXCEPT !.again = TRUE], o)
      <3> HIDE DEF msg
      <3> QED BY <2>1, <2>2, <2>4, Zenon
    <2>6. At(p, e).state # 115
      BY <2>2
    <2> QED BY <2>3, <2>5, <2>6
  <1> QED BY <1>2, <1>3, <1>4

\* A message that is composed.
LEMMA SendsOK ==
  ASSUME NEW p \in Ends, NEW e, NEW o, Meet(p, e, o), Running(e), ~e.again,
         At(p, e).op = "send", ~Skips(p, e, At(p, e))
  PROVE  LET f == Compose(p, e, At(p, e).msg)
         IN  /\ At(p, e).state = 115 => \A n \in 0..Len(Flush(f).out) : OK(p, Advance(p, Takes(Flush(f), n)), o)
             /\ At(p, e).state # 115 =>
                   OK(p, IF At(p, e).msg \in Cached(e) THEN Advance(p, f) ELSE [Flush(f) EXCEPT !.again = TRUE], o)
  <1>1. CASE ~Past(e)
    <2>1. Ready(p, e, o) /\ Local(Peer(p), o)
      BY DEF Meet
    <2> QED BY <1>1, <2>1, SendOK
  <1>2. CASE Past(e)
    <2>1. /\ At(p, e).state # 115 /\ At(p, e).msg \notin Cached(e)
          /\ OK(p, [Flush(Compose(p, e, At(p, e).msg)) EXCEPT !.again = TRUE], o)
      BY <1>2, LateSendOK
    <2> QED BY <2>1
  <1> QED BY <1>1, <1>2

\* A record that is read.
LEMMA ReadsOK ==
  ASSUME NEW p \in Ends, NEW e, NEW o, NEW h, NEW r, Meet(p, e, o), Running(e), o.wire # <<>>,
         Popped(o, h), r = Head(o.wire), At(p, e).op \in {"recv", "recvccs"}, ~Skips(p, e, At(p, e)),
         ~Absent(p, e, r, At(p, e))
  PROVE  OK(p, Outcome(p, e, r, At(p, e)), h)
  <1>1. Setting /\ Versions /\ Local(p, e) /\ HereOK(p, e)
    BY SettingParts DEF Meet, Ready
  <1>2. CASE At(p, e).op = "recvccs"
    <2>1. e.prog \in {"12", "12r"}
      BY <1>1, <1>2, RecvPositions DEF Running
    <2>2. ~Past(e)
      BY <2>1 DEF Past
    <2> QED BY <1>2, <2>2, CcsWaitOK
  <1>3. CASE At(p, e).op = "recv" /\ ~Past(e)
    BY <1>3, WaitOK
  <1>4. CASE At(p, e).op = "recv" /\ Past(e)
    BY <1>4, LateWaitOK
  <1> QED BY <1>2, <1>3, <1>4

\* A message that does not come.
LEMMA AbsentsOK ==
  ASSUME NEW p \in Ends, NEW e, NEW o, NEW r, Meet(p, e, o), Running(e), o.wire # <<>>,
         r = Head(o.wire), At(p, e).op = "recv", ~Skips(p, e, At(p, e)), Absent(p, e, r, At(p, e))
  PROVE  OK(p, Advance(p, e), o)
  <1>1. Setting /\ Versions /\ Local(p, e) /\ HereOK(p, e)
    BY SettingParts DEF Meet, Ready
  <1>2. ASSUME Past(e) PROVE FALSE
    <2>1. ReWaits(e, e.pc, At(p, e).msg, 100 + e.pc)
      BY <1>1, <1>2, ReWaitWhere
    <2>2. At(p, e).msg \in {"Certificate", "CertificateVerify", "Finished"}
      BY <2>1 DEF ReWaits
    <2> QED BY <2>2 DEF Absent, Optional
  <1> QED BY <1>2, AbsentOK

-----------------------------------------------------------------------------
(* The system.                                                               *)

\* Both directions.
LEMMA TalkBack ==
  ASSUME NEW p \in Ends, NEW e, NEW o, Talk(p, e, o)
  PROVE  Talk(Peer(p), o, e)
  <1>1. Peer(Peer(p)) = p
    BY PeerEnds
  <1> QED BY <1>1 DEF Talk

\* The endpoints before a step.
LEMMA Meeting ==
  ASSUME IInv, Sound(mode), Synced, NEW p \in Ends
  PROVE  Meet(p, ep[p], ep[Peer(p)]) /\ Setting
  <1>1. Versions /\ mode.early \in {"none", "accepted", "rejected"} /\ mode.size \in 1..MaxEarlyData
    BY ModeVersions, HandshakeAssumption DEF IInv, Mode
  <1>2. Setting
    BY <1>1, SettingIs
  <1>3. Peer(p) \in Ends /\ "client" \in Ends /\ Peer("client") = "server" /\ Peer("server") = "client"
    BY DEF Ends, Peer
  <1>4. Local(p, ep[p]) /\ Local(Peer(p), ep[Peer(p)])
    BY <1>3 DEF IInv
  <1>5. HereOK(p, ep[p]) /\ HereOK(Peer(p), ep[Peer(p)])
    BY <1>3 DEF Synced
  <1>6. Fit(Peer(p), ep[Peer(p)])
    BY <1>2, <1>3, <1>4, <1>5, FitOf
  <1>7. Talk(p, ep[p], ep[Peer(p)])
    <2>1. Talk("client", ep["client"], ep["server"])
      BY DEF Synced
    <2>2. Talk("server", ep["server"], ep["client"])
      BY <1>3, <2>1, TalkBack
    <2> QED BY <1>3, <2>1, <2>2 DEF Ends
  <1> QED BY <1>2, <1>4, <1>5, <1>6, <1>7 DEF Meet, Ready

\* The endpoints after it.
LEMMA Parting ==
  ASSUME NEW p \in Ends, mode' = mode, OK(p, ep'[p], ep'[Peer(p)]), HereOK(Peer(p), ep'[Peer(p)])
  PROVE  Synced'
  <1>1. Peer(p) \in Ends /\ "client" \in Ends /\ Peer("client") = "server" /\ Peer("server") = "client"
    BY DEF Ends, Peer
  <1>2. HereOK(p, ep'[p]) /\ Talk(p, ep'[p], ep'[Peer(p)])
    BY DEF OK
  <1>3. \A q \in Ends : HereOK(q, ep'[q])
    BY <1>1, <1>2 DEF Ends
  <1>4. Talk("client", ep'["client"], ep'["server"])
    <2>1. Talk(Peer(p), ep'[Peer(p)], ep'[p])
      BY <1>2, TalkBack
    <2> QED BY <1>1, <1>2, <2>1 DEF Ends
  <1>5. \A q \in Ends : HereOK(q, ep[q])'
    BY <1>3, SameHere
  <1>6. Talk("client", ep["client"], ep["server"])'
    BY <1>4, SameWords
  <1> QED BY <1>5, <1>6 DEF Synced

\* A step of one endpoint.
LEMMA OneMoves ==
  ASSUME IInv, Synced, NEW p \in Ends, NEW g, Set(p, g), OK(p, g, ep[Peer(p)])
  PROVE  Synced'
  <1>1. Peer(p) \in Ends /\ Peer(p) # p
    BY PeerEnds
  <1>2. mode' = mode /\ ep'[p] = g /\ ep'[Peer(p)] = ep[Peer(p)]
    BY <1>1 DEF Set, IInv
  <1>3. HereOK(Peer(p), ep[Peer(p)])
    BY <1>1 DEF Synced
  <1>4. OK(p, ep'[p], ep'[Peer(p)]) /\ HereOK(Peer(p), ep'[Peer(p)])
    BY <1>2, <1>3
  <1> QED BY <1>2, <1>4, Parting

\* A step that reads a record.
LEMMA TwoMove ==
  ASSUME IInv, Synced, NEW p \in Ends, NEW g, Consume(p, g), Meet(p, ep[p], ep[Peer(p)]), Arrived(p),
         \A h : Popped(ep[Peer(p)], h) => OK(p, g, h)
  PROVE  Synced'
  <1> DEFINE h == [ep[Peer(p)] EXCEPT !.wire = Tail(@)]
  <1>1. Peer(p) \in Ends /\ Peer(p) # p
    BY PeerEnds
  <1>2. mode' = mode /\ ep'[p] = g /\ ep'[Peer(p)] = h
    BY <1>1 DEF Consume, IInv
  <1>3. Popped(ep[Peer(p)], h)
    BY DEF Popped
  <1>4. ep[Peer(p)].wire # <<>>
    BY DEF Arrived
  <1> HIDE DEF h
  <1>5. HereOK(Peer(p), h)
    BY <1>3, <1>4, PoppedIs
  <1>6. OK(p, g, h)
    BY <1>3
  <1>7. OK(p, ep'[p], ep'[Peer(p)]) /\ HereOK(Peer(p), ep'[Peer(p)])
    BY <1>2, <1>5, <1>6
  <1> QED BY <1>2, <1>7, Parting

\* Every step of the system keeps the script.
LEMMA NextSynced == IInv /\ FollowsScript /\ [Next]_vars => FollowsScript'
  <1> SUFFICES ASSUME IInv, Sound(mode), Synced, [Next]_vars PROVE Synced'
    <2>1. [Next]_vars => mode' = mode
      BY DEF Next, Progress, SkipStep, DoStep, CcsStep, SendStep, Transmit, SendDone, RecvStep, RecvAbsent, AppRecv,
             AppSend, AppFlush, Reauth, TicketSend, Set, Consume, vars
    <2>2. mode' = mode => (Sound(mode)' <=> Sound(mode))
      BY DEF Sound, Overrun
    <2> QED BY <2>1, <2>2, SMTT(40) DEF FollowsScript
  <1>1. ASSUME NEW p \in Ends PROVE Meet(p, ep[p], ep[Peer(p)]) /\ Ready(p, ep[p], ep[Peer(p)])
    BY Meeting DEF Meet
  <1>2. Setting /\ \A p \in Ends : Step(p) = At(p, ep[p])
    BY Meeting DEF Ends, Step, At
  <1>3. ASSUME NEW p \in Ends, SkipStep(p) PROVE Synced'
    <2>1. OK(p, Advance(p, ep[p]), ep[Peer(p)])
      BY <1>1, <1>2, <1>3, SkipsOK DEF SkipStep
    <2> QED BY <1>3, <2>1, OneMoves DEF SkipStep
  <1>4. ASSUME NEW p \in Ends, DoStep(p) PROVE Synced'
    <2>1. OK(p, Advance(p, Do(p, ep[p], Step(p).msg)), ep[Peer(p)])
      BY <1>1, <1>2, <1>4, DosOK DEF DoStep, Calls
    <2> QED BY <1>4, <2>1, OneMoves DEF DoStep
  <1>5. ASSUME NEW p \in Ends, CcsStep(p) PROVE Synced'
    <2> DEFINE f == Cache(ep[p], "ccs", "ccs", {}, <<>>)
               o == ep[Peer(p)]
    <2>1. ep[p].prog # "none" /\ At(p, ep[p]).op = "ccs" /\ ~Skips(p, ep[p], At(p, ep[p]))
      BY <1>2, <1>5 DEF CcsStep, Calls, Running
    <2>2. Ready(p, ep[p], o) /\ Local(Peer(p), o)
      BY <1>1 DEF Meet
    <2>3. /\ mode.vers # 13 => OK(p, Advance(p, f), o)
          /\ mode.vers = 13 => \A n \in 0..Len(Flush(f).out) : OK(p, Advance(p, Takes(Flush(f), n)), o)
      BY <2>1, <2>2, CcsOK
    <2>4. \/ mode.vers = 13 /\ \E n \in 0..Len(Flush(f).out) : Set(p, Advance(p, Takes(Flush(f), n)))
          \/ mode.vers # 13 /\ Set(p, Advance(p, f))
      BY <1>5 DEF CcsStep
    <2> HIDE DEF f
    <2>5. ASSUME NEW g, OK(p, g, o), Set(p, g) PROVE Synced'
      BY <2>5, OneMoves
    <2> QED BY <2>3, <2>4, <2>5
  <1>6. ASSUME NEW p \in Ends, SendStep(p) PROVE Synced'
    <2> DEFINE s == At(p, ep[p])
               f == Compose(p, ep[p], s.msg)
               h == [Flush(f) EXCEPT !.again = TRUE]
               o == ep[Peer(p)]
    <2>1. Running(ep[p]) /\ s.op = "send" /\ ~Skips(p, ep[p], s) /\ ~ep[p].again
      BY <1>2, <1>6 DEF SendStep, Calls
    <2>2. /\ s.state = 115 => \A n \in 0..Len(Flush(f).out) : OK(p, Advance(p, Takes(Flush(f), n)), o)
          /\ s.state # 115 => OK(p, IF s.msg \in Cached(ep[p]) THEN Advance(p, f) ELSE h, o)
      BY <1>1, <2>1, SendsOK
    <2>3. \/ s.state = 115 /\ \E n \in 0..Len(Flush(f).out) : Set(p, Advance(p, Takes(Flush(f), n)))
          \/ s.state # 115 /\ Set(p, IF s.msg \in Cached(ep[p]) THEN Advance(p, f) ELSE h)
      BY <1>2, <1>6 DEF SendStep
    <2> HIDE DEF s, f, h
    <2>4. ASSUME NEW g, OK(p, g, o), Set(p, g) PROVE Synced'
      BY <2>4, OneMoves
    <2> QED BY <2>2, <2>3, <2>4
  <1>7. ASSUME NEW p \in Ends, Transmit(p) \/ AppFlush(p) PROVE Synced'
    <2>1. ep[p].out # <<>> /\ Set(p, Takes(ep[p], 1))
      BY <1>7 DEF Transmit, AppFlush
    <2>2. OK(p, Takes(ep[p], 1), ep[Peer(p)])
      BY <1>1, <2>1, TakesOK
    <2> QED BY <2>1, <2>2, OneMoves
  <1>8. ASSUME NEW p \in Ends, SendDone(p) PROVE Synced'
    <2>1. OK(p, Advance(p, ep[p]), ep[Peer(p)])
      BY <1>1, <1>8, DonesOK DEF SendDone
    <2> QED BY <1>8, <2>1, OneMoves DEF SendDone
  <1>9. ASSUME NEW p \in Ends, RecvStep(p) PROVE Synced'
    <2> DEFINE e == ep[p]
               o == ep[Peer(p)]
               r == Head(o.wire)
               g == Outcome(p, e, r, At(p, e))
    <2>1. /\ Running(e) /\ At(p, e).op \in {"recv", "recvccs"} /\ ~Skips(p, e, At(p, e)) /\ o.wire # <<>>
          /\ ~Absent(p, e, r, At(p, e)) /\ Arrived(p)
      BY <1>2, <1>9 DEF RecvStep, Calls, Arrived, First
    <2>2. Consume(p, g)
      BY <1>2, <1>9 DEF RecvStep, First
    <2>3. Meet(p, e, o)
      BY <1>1
    <2>4. ASSUME NEW h, Popped(o, h) PROVE OK(p, g, h)
      BY <2>1, <2>3, <2>4, ReadsOK
    <2> HIDE DEF g
    <2> QED BY <2>1, <2>2, <2>3, <2>4, TwoMove
  <1>10. ASSUME NEW p \in Ends, RecvAbsent(p) PROVE Synced'
    <2>1. /\ Running(ep[p]) /\ At(p, ep[p]).op = "recv" /\ ~Skips(p, ep[p], At(p, ep[p]))
          /\ ep[Peer(p)].wire # <<>> /\ Absent(p, ep[p], Head(ep[Peer(p)].wire), At(p, ep[p]))
      BY <1>2, <1>10 DEF RecvAbsent, Calls, Arrived, First
    <2>2. OK(p, Advance(p, ep[p]), ep[Peer(p)])
      BY <1>1, <2>1, AbsentsOK
    <2> QED BY <1>10, <2>2, OneMoves DEF RecvAbsent
  <1>11. ASSUME NEW p \in Ends, AppRecv(p) PROVE Synced'
    <2> DEFINE e == ep[p]
               o == ep[Peer(p)]
               r == Head(o.wire)
               g == AppRead(p, e, r)
    <2>1. e.prog = "none" /\ o.wire # <<>> /\ Arrived(p)
      BY <1>11 DEF AppRecv, Arrived
    <2>2. Consume(p, g)
      BY <1>11 DEF AppRecv, First, AppRead
    <2>3. Meet(p, e, o)
      BY <1>1
    <2>4. ASSUME NEW h, Popped(o, h) PROVE OK(p, g, h)
      BY <2>1, <2>3, <2>4, AppRecvOK
    <2> HIDE DEF g
    <2> QED BY <2>1, <2>2, <2>3, <2>4, TwoMove
  <1>12. ASSUME NEW p \in Ends, AppSend(p) PROVE Synced'
    <2> DEFINE g == [ep[p] EXCEPT !.sent = @ + 1,
                        !.wire = Append(@, Record("data", ep[p].sent + 1, {}, <<>>, ep[p].keys[ep[p].we].w))]
    <2>1. Open(ep[p]) /\ ep[p].out = <<>> /\ Set(p, g)
      BY <1>12 DEF AppSend
    <2>2. OK(p, g, ep[Peer(p)])
      BY <1>1, <2>1, AppSendOK
    <2> HIDE DEF g
    <2> QED BY <2>1, <2>2, OneMoves
  <1>13. ASSUME Reauth \/ TicketSend PROVE Synced'
    <2> DEFINE e == ep["server"]
               o == ep["client"]
    <2>0. "server" \in Ends /\ Peer("server") = "client"
      BY DEF Ends, Peer
    <2>1. Ready("server", e, o)
      BY <1>1, <2>0
    <2>2. CASE Reauth
      <3>1. /\ e.prog = "none" /\ e.auths = 0 /\ Version = "13" /\ mode.reauth
            /\ Set("server", [e EXCEPT !.tr = e.saved, !.prog = "reauth"])
        BY <2>2 DEF Reauth, Version
      <3>2. OK("server", [e EXCEPT !.tr = e.saved, !.prog = "reauth"], o)
        BY <2>1, <3>1, ReauthOK
      <3> QED BY <2>0, <3>1, <3>2, OneMoves
    <2>3. CASE TicketSend
      <3>1. /\ e.prog = "none" /\ Version = "13"
            /\ Set("server", [e EXCEPT !.prog = "ticket", !.extra = TRUE])
        BY <2>3 DEF TicketSend, Version
      <3>2. OK("server", [e EXCEPT !.prog = "ticket", !.extra = TRUE], o)
        BY <2>1, <3>1, TicketStartOK
      <3> QED BY <2>0, <3>1, <3>2, OneMoves
    <2> QED BY <1>13, <2>2, <2>3
  <1>14. CASE UNCHANGED vars
    <2>1. ep' = ep /\ mode' = mode
      BY <1>14 DEF vars
    <2>2. \A p \in Ends : HereOK(p, ep[p])'
      BY <2>1, SameHere DEF Synced
    <2>3. Talk("client", ep["client"], ep["server"])'
      BY <2>1, SameWords DEF Synced
    <2> QED BY <2>2, <2>3 DEF Synced
  <1>15. CASE Next
    BY <1>3, <1>4, <1>5, <1>6, <1>7, <1>8, <1>9, <1>10, <1>11, <1>12, <1>13, <1>15 DEF Next, Progress
  <1> QED BY <1>14, <1>15

\* An endpoint that has not begun.
LEMMA Begins ==
  ASSUME NEW p \in Ends, NEW e, e = Session, Setting
  PROVE  /\ HereOK(p, e) /\ Said(p, e) = 0 /\ HeardTo(p, e) = 0 /\ Unread(e) = <<>>
         /\ e.sent = 0 /\ e.got = <<>>
  <1>1. /\ e.prog = "start" /\ e.pc = 1 /\ e.again = FALSE /\ e.tr = <<>> /\ e.flags = {} /\ e.q = <<>>
        /\ e.out = <<>> /\ e.wire = <<>> /\ e.next = 1 /\ e.re = 0 /\ e.we = 0 /\ e.done = FALSE
        /\ e.started = FALSE /\ e.auths = 0 /\ e.err = "none" /\ e.sent = 0 /\ e.got = <<>>
    BY DEF Session
  <1>2. e.keys[0] = [r |-> Plain, w |-> Plain] /\ e.keys[1] = Unset
    BY DEF Session
  <1>3. ~Past(e) /\ Place(e) = 1
    BY <1>1 DEF Past, Place, Retried, Reach
  <1>4. SaidAt(p, 1) = 0 /\ HeardAt(p, 1) = 0
    BY DEF SaidAt, HeardAt
  <1>5. KeysAt(p, e, 1)
    <2>1. 1 <= 10 + Write12(p, Version) /\ 1 <= 10 + Read12(p, Version)
      BY DEF Write12, Read12
    <2>2. WriteKeyAt(p, 1) = Plain /\ ReadKeyAt(p, 1) = Plain /\ NextKeyAt(p, 1) = Unset
      BY <2>1 DEF WriteKeyAt, ReadKeyAt, NextKeyAt
    <2> QED BY <1>1, <1>2, <2>2 DEF KeysAt
  <1>6. FlagsAt(p, e, 1)
    BY <1>1 DEF FlagsAt, ClientFlags, ServerFlags, Has
  <1>7. SecretsAt(p, e, 1)
    <2>1. Later(0, 0) = 0 /\ Tr(0) = <<>> /\ ~Forgets(p, 1)
      BY TrEarly DEF Later, Forgets
    <2> QED BY <1>1, <1>4, <2>1 DEF SecretsAt
  <1>8. Stands(p, e, 1)
    BY <1>1, <1>5, <1>6, <1>7 DEF Stands
  <1>9. HereOK(p, e)
    BY <1>1, <1>3, <1>8 DEF HereOK
  <1>10. Said(p, e) = 0 /\ HeardTo(p, e) = 0
    BY <1>3, <1>4 DEF Said, HeardTo
  <1>11. Seal(e) = <<>>
    BY <1>1 DEF Seal
  <1>12. Unread(e) = <<>>
    BY <1>1, <1>11 DEF Unread
  <1> QED BY <1>1, <1>9, <1>10, <1>12

\* Nothing is under way.
LEMMA NothingYet ==
  ASSUME NEW p \in Ends, NEW e, e = Session, Setting
  PROVE  Flow(p, e, e) /\ DataOK(p, e, e)
  <1>1. Peer(p) \in Ends
    BY PeerEnds
  <1>2. Unread(e) = <<>> /\ Said(p, e) = 0 /\ HeardTo(Peer(p), e) = 0 /\ e.sent = 0 /\ e.got = <<>>
    BY <1>1, Begins
  <1>3. Len(Unread(e)) = 0 /\ Len(<<>>) = 0 /\ 1..0 = {}
    BY <1>2
  <1>4. Slots(p, e) = <<>>
    BY <1>3 DEF Slots
  <1>5. Items(p, e)
    BY <1>3 DEF Items
  <1>6. Line(p, <<>>, 0, 0)
    <2>1. \A k \in 1..104 : ~(0 < k /\ k <= 0) /\ ~(k <= 0)
      OBVIOUS
    <2>2. Whole(p, <<>>, 0, 0) /\ Sane(p, 0, 0)
      BY <2>1, Zenon DEF Whole, Sane
    <2>3. Ordered(<<>>) /\ Apart(<<>>, 0, 0)
      BY <1>3 DEF Ordered, Apart
    <2> QED BY <1>3, <2>2, <2>3 DEF Line
  <1>7. Flow(p, e, e)
    BY <1>2, <1>4, <1>5, <1>6 DEF Flow
  <1>8. Got(Peer(p), e) = 0
    BY <1>2, <1>3 DEF Got, Skew
  <1>9. Numbers(p, e) = <<>>
    BY <1>3 DEF Numbers
  <1>10. InOrder(<<>>, 0, 0)
    BY <1>3 DEF InOrder
  <1>11. EarlyLine(<<>>, 0, 0, <<>>)
    BY DEF EarlyLine
  <1>12. IsSeq(<<>>)
    BY DEF IsSeq
  <1>13. e.sent \in Nat /\ 0 <= e.sent
    BY <1>2
  <1> QED BY <1>2, <1>3, <1>4, <1>7, <1>8, <1>9, <1>10, <1>11, <1>12, <1>13 DEF DataOK

\* Initially both endpoints are as the script has them.
LEMMA InitSynced == Init => FollowsScript
  <1> SUFFICES ASSUME Init, Sound(mode) PROVE Synced
    BY DEF FollowsScript
  <1>1. \A p \in Ends : ep[p] = Session
    BY DEF Init
  <1>2. Versions /\ mode.early \in {"none", "accepted", "rejected"} /\ mode.size \in 1..MaxEarlyData
    BY InitIInv, ModeVersions, HandshakeAssumption DEF Init, Mode
  <1>3. Setting
    BY <1>2, SettingIs
  <1>4. \A p \in Ends : HereOK(p, ep[p])
    BY <1>1, <1>3, Begins
  <1>5. "client" \in Ends /\ "server" \in Ends /\ Peer("client") = "server"
    BY DEF Ends, Peer
  <1>6. Talk("client", Session, Session)
    <2>1. Flow("client", Session, Session) /\ DataOK("client", Session, Session)
      BY <1>3, <1>5, NothingYet
    <2>2. Flow("server", Session, Session) /\ DataOK("server", Session, Session)
      BY <1>3, <1>5, NothingYet
    <2> QED BY <1>5, <2>1, <2>2 DEF Talk
  <1>7. Talk("client", ep["client"], ep["server"])
    BY <1>1, <1>5, <1>6
  <1> QED BY <1>4, <1>7 DEF Synced

\* In every sound mode both endpoints follow the script: each is, at its
\* place, as the messages it sent and received make it, and the records on
\* their way are those that are missing between the two, in order.
THEOREM ScriptFollowed == Spec => []FollowsScript
  <1>1. Init => IInv /\ FollowsScript
    BY InitIInv, InitSynced
  <1>2. IInv /\ FollowsScript /\ [Next]_vars => IInv' /\ FollowsScript'
    BY NextIInv, NextSynced
  <1> QED BY <1>1, <1>2, PTL DEF Spec

\* In every sound mode the messages under way in each direction are those
\* between the places of the two sessions, in order, none lost and none
\* repeated: what handshake_send_buffer and record_send_buffer still hold and
\* what STATE makes an interrupted call repeat never overlap.
THEOREM InSequenceHolds == Spec => []InSequence
  <1>1. FollowsScript => InSequence
    <2> SUFFICES ASSUME FollowsScript, Sound(mode), NEW p \in Ends
                 PROVE  Line(p, Slots(p, ep[p]), HeardTo(Peer(p), ep[Peer(p)]), Said(p, ep[p]))
      BY DEF InSequence
    <2>1. /\ Flow("client", ep["client"], ep["server"])
          /\ Flow("server", ep["server"], ep["client"])
      BY DEF FollowsScript, Synced, Talk, Peer
    <2>2. Flow(p, ep[p], ep[Peer(p)])
      <3>1. CASE p = "client"
        BY <3>1, <2>1 DEF Peer
      <3>2. CASE p = "server"
        BY <3>2, <2>1 DEF Peer
      <3> QED BY <3>1, <3>2 DEF Ends
    <2> QED BY <2>2 DEF Flow
  <1> QED BY <1>1, ScriptFollowed, PTL

\* In every sound mode (refused early data within its limit) no handshake,
\* re-authentication or ticket ends in an error: every record decrypts where it is read, every message is expected
\* where it arrives and every Finished matches, however the calls of both
\* endpoints interleave and wherever they are interrupted.
THEOREM NoFatalHolds == Spec => [](Sound(mode) => NoFatal)
  <1>1. FollowsScript => (Sound(mode) => NoFatal)
    BY DEF FollowsScript, Synced, HereOK, NoFatal
  <1> QED BY <1>1, ScriptFollowed, PTL

\* A sequence is its elements.
LEMMA IsItems ==
  ASSUME NEW s, IsSeq(s)
  PROVE  Len(s) \in Nat /\ s = [i \in 1..Len(s) |-> s[i]]
  <1>1. Len(s) \in Nat /\ DOMAIN s = 1..Len(s) /\ s \in [1..Len(s) -> Elems(s)]
    BY LenProperties DEF IsSeq
  <1> QED BY <1>1

\* What one endpoint got is a prefix of what the other sent.
LEMMA GotPrefix ==
  ASSUME NEW p \in Ends, NEW e, NEW o, DataOK(p, e, o), Skew(Peer(p)) = 0
  PROVE  \E n \in 0..e.sent : o.got = Upto(n)
  <1>1. e.sent \in Nat /\ Got(Peer(p), o) <= e.sent /\ IsSeq(o.got) /\ \A i \in 1..Len(o.got) : o.got[i] = i - 0
    BY DEF DataOK
  <1>2. Len(o.got) \in Nat /\ o.got = [i \in 1..Len(o.got) |-> o.got[i]]
    BY <1>1, IsItems
  <1>3. Got(Peer(p), o) = Len(o.got)
    BY <1>2 DEF Got
  <1>4. Len(o.got) \in 0..e.sent
    BY <1>1, <1>2, <1>3
  <1>5. \A i \in 1..Len(o.got) : o.got[i] = i
    BY <1>1, <1>2
  <1>6. o.got = Upto(Len(o.got))
    BY <1>2, <1>5 DEF Upto
  <1> QED BY <1>4, <1>6

\* The early data comes first, and at the end it has come.
LEMMA GotEarly ==
  ASSUME NEW e, NEW o, DataOK("client", e, o), Setting, EarlyTaken, Local("server", o), HereOK("server", o)
  PROVE  \/ o.got = <<>> /\ ~o.done
         \/ \E n \in 0..e.sent : o.got = <<EarlyData>> \o Upto(n)
  <1>0. "server" \in Ends /\ Peer("client") = "server" /\ Skew("server") = 1
    BY DEF Ends, Peer, Skew
  <1>1. e.sent \in Nat /\ Got("server", o) <= e.sent /\ IsSeq(o.got) /\ \A i \in 1..Len(o.got) : o.got[i] = i - 1
    BY <1>0 DEF DataOK
  <1>2. Len(o.got) \in Nat /\ o.got = [i \in 1..Len(o.got) |-> o.got[i]]
    BY <1>1, IsItems
  <1>3. HeardTo("server", o) >= 14 => o.got # <<>>
    BY <1>0 DEF DataOK, EarlyLine
  <1>4. CASE o.got = <<>>
    <2>1. Version = "13"
      BY DEF Setting
    <2>2. ASSUME o.done PROVE FALSE
      <3>1. Past(o)
        BY <2>1, <2>2 DEF HereOK, Stands
      <3>2. HeardTo("server", o) \in 100..104
        BY <1>0, <3>1, LateNumbers
      <3> QED BY <1>3, <1>4, <3>2
    <2> QED BY <1>4, <2>2
  <1>5. CASE o.got # <<>>
    <2> DEFINE m == Len(o.got) - 1
               u == <<EarlyData>> \o Upto(m)
    <2>1. Len(o.got) # 0
      BY <1>1, <1>2, <1>5 DEF IsSeq
    <2>2. m \in Nat /\ Got("server", o) = m
      BY <1>0, <1>2, <2>1 DEF Got
    <2>3. m \in 0..e.sent
      BY <1>1, <2>2
    <2>4. Upto(m) \in Seq(Nat) /\ Len(Upto(m)) = m /\ \A i \in 1..m : Upto(m)[i] = i
      BY <2>2 DEF Upto
    <2>5. <<EarlyData>> \in Seq(Nat) /\ Len(<<EarlyData>>) = 1 /\ <<EarlyData>>[1] = 0
      BY DEF EarlyData
    <2>6. u \in Seq(Nat) /\ Len(u) = m + 1
          /\ \A i \in 1..(m + 1) : u[i] = IF i <= 1 THEN <<EarlyData>>[i] ELSE Upto(m)[i - 1]
      <3>1. u \in Seq(Nat) /\ Len(u) = 1 + m
        BY <2>2, <2>4, <2>5, ConcatProperties
      <3>2. \A i \in 1..(1 + m) : u[i] = IF i <= 1 THEN <<EarlyData>>[i] ELSE Upto(m)[i - 1]
        BY <2>2, <2>4, <2>5, ConcatProperties
      <3>3. 1 + m = m + 1
        BY <2>2
      <3> QED BY <3>1, <3>2, <3>3
    <2>7. m + 1 = Len(o.got)
      BY <1>2
    <2> HIDE DEF m, u
    <2>8. \A i \in 1..(m + 1) : u[i] = i - 1
      BY <2>2, <2>4, <2>5, <2>6
    <2>9. u = [i \in 1..(m + 1) |-> u[i]]
      <3>1. DOMAIN u = 1..(m + 1)
        BY <2>6, LenProperties
      <3>2. u \in [1..(m + 1) -> Nat]
        BY <2>6, LenProperties
      <3> QED BY <3>2
    <2>10. o.got = u
      BY <1>1, <1>2, <2>7, <2>8, <2>9
    <2> QED BY <2>3, <2>10 DEF u
  <1> QED BY <1>4, <1>5

\* In every sound mode the application data of each endpoint arrives once and
\* in the order it was sent; early data comes first if it was accepted, and
\* not at all if not, and has come when the server is through.
THEOREM StreamIntegrityHolds == Spec => [](Sound(mode) => StreamIntegrity)
  <1>1. ASSUME IInv, FollowsScript, Sound(mode) PROVE StreamIntegrity
    <2> DEFINE c == ep["client"]
               s == ep["server"]
    <2>0. "client" \in Ends /\ "server" \in Ends /\ Peer("client") = "server" /\ Peer("server") = "client"
      BY DEF Ends, Peer
    <2>1. Synced
      BY <1>1 DEF FollowsScript
    <2>2. Setting
      BY <1>1, <2>0, <2>1, Meeting
    <2>3. DataOK("client", c, s) /\ DataOK("server", s, c) /\ HereOK("server", s) /\ Local("server", s)
      BY <1>1, <2>0, <2>1 DEF Synced, Talk, IInv
    <2> HIDE DEF c, s
    <2>4. \E n \in 0..s.sent : c.got = Upto(n)
      <3>1. Skew(Peer("server")) = 0
        BY <2>0 DEF Skew
      <3> QED BY <2>0, <2>3, <3>1, GotPrefix
    <2>5. CASE EarlyTaken
      <3>1. EarlyPart = <<EarlyData>>
        BY <2>5 DEF EarlyTaken, EarlyPart
      <3>2. \/ s.got = <<>> /\ ~s.done
            \/ \E n \in 0..c.sent : s.got = <<EarlyData>> \o Upto(n)
        BY <2>2, <2>3, <2>5, GotEarly
      <3> QED BY <2>4, <3>1, <3>2 DEF StreamIntegrity, c, s
    <2>6. CASE ~EarlyTaken
      <3>1. EarlyPart = <<>>
        BY <2>6 DEF EarlyTaken, EarlyPart
      <3>2. Skew(Peer("client")) = 0
        BY <2>0, <2>6 DEF Skew
      <3>3. \E n \in 0..c.sent : s.got = Upto(n)
        BY <2>0, <2>3, <3>2, GotPrefix
      <3>4. PICK n \in 0..c.sent : s.got = Upto(n)
        BY <3>3
      <3>5. Upto(n) \in Seq(Nat)
        BY DEF Upto
      <3>6. <<>> \o Upto(n) = Upto(n)
        BY <3>5
      <3>7. s.got = EarlyPart \o Upto(n)
        BY <3>1, <3>4, <3>6
      <3> QED BY <2>4, <3>4, <3>7 DEF StreamIntegrity, c, s
    <2> QED BY <2>5, <2>6
  <1>2. IInv /\ FollowsScript => (Sound(mode) => StreamIntegrity)
    BY <1>1
  <1> QED BY <1>2, HandshakeInvariant, ScriptFollowed, PTL
=============================================================================
