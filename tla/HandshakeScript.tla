--------------------------- MODULE HandshakeScript --------------------------
(***************************************************************************)
(* What holds of two endpoints at every moment of a handshake: the          *)
(* inductive invariants of the proofs about Handshake.  IInv is what each   *)
(* endpoint ensures by itself and what two of them agree on; FollowsScript  *)
(* says that both are somewhere in one script and that what is under way    *)
(* between them is what the script has between their places.                *)
(***************************************************************************)
EXTENDS Handshake

\* The handshake messages among the entries of a buffer.
Messages(s) == {s[i] : i \in {j \in 1..Len(s) : s[j].type = "hs"}}
Sent(e) == Messages(e.out) \cup Messages(e.wire)
Elems(s) == {s[i] : i \in 1..Len(s)}
IsSeq(s) == s \in Seq(Elems(s))

Fields == {"prog", "pc", "again", "tr", "mark", "flags", "psk", "q", "out", "wire", "keys",
           "min", "next", "re", "we", "started", "done", "saved", "rms", "sent", "got",
           "tickets", "extra", "auths", "err"}

\* Endpoint e is through with the initial handshake.
Past(e) == e.prog \notin {"start", "13", "12", "12r"}

\* The steps of engine prog up to n are behind e; it has sent the message of n.
Beyond(e, prog, n) == Past(e) \/ (e.prog = prog /\ e.pc > n)
Did(e, prog, n) == Beyond(e, prog, n) \/ (e.prog = prog /\ e.pc = n /\ e.again)

\* The last Finished of a handshake, its sender and where it is sent and read.
LastSender == IF Version = "12" THEN "server" ELSE "client"
LastSend == IF Version = "13" THEN 17 ELSE IF Version = "12" THEN 15 ELSE 9
LastRecv == IF Version = "13" THEN 21 ELSE IF Version = "12" THEN 17 ELSE 8

\* The transcript of the initial handshake.
Full(e) == IF Past(e) THEN e.saved ELSE e.tr

Control(p, e) ==
    /\ DOMAIN e = Fields
    /\ \/ e.prog \in {"start", Version, "none"}
       \/ mode.vers = 13 /\ e.prog = "reauth"
       \/ mode.vers = 13 /\ p = "server" /\ e.prog = "ticket"
    /\ e.pc \in 1..(Len(Engine(p, e.prog)) + 1)
    /\ e.prog = Version => e.pc >= (IF p = "client" THEN 4 ELSE 2)
    /\ e.flags \subseteq Flags

Both(k) == [r |-> k, w |-> k]

Client13Epochs(e) ==
    /\ e.pc <= 5 => e.next = 1
    /\ e.pc <= 18 => e.next <= 2
    /\ e.pc <= 7 => e.keys[e.next] = Unset
    /\ e.pc \in 8..18 => /\ e.re = e.next
                         /\ e.keys[e.next].r.stage = "hs"
                         /\ e.keys[e.next].r.psk = e.psk
    /\ e.pc > 18 => e.re = e.next /\ e.we = e.next /\ e.keys[e.next] = Both(AppKey(e))

Server13Epochs(e) ==
    /\ e.pc <= 8 => e.next = 1 /\ e.keys[1] = Unset
    /\ e.pc > 8 => e.we = e.next
    /\ e.pc \in 9..16 => /\ e.next <= 2
                         /\ e.keys[e.next].r = e.keys[e.next].w
                         /\ e.keys[e.next].w.stage = "hs"
                         /\ e.keys[e.next].w.psk = e.psk
                         /\ e.pc = 16 \/ ~Has(e, "accepted") => e.re = e.next
    /\ e.pc > 16 => e.keys[e.next] = Both(AppKey(e))
    /\ e.pc \in 17..22 => e.keys[e.re].r.stage = "hs"
    /\ e.pc > 22 => e.re = e.next

\* The steps in which a TLS 1.2 endpoint takes up its keys to write and to read.
Write12(p, prog) == IF p = "client" THEN IF prog = "12" THEN 12 ELSE 8
                    ELSE IF prog = "12" THEN 14 ELSE 4
Read12(p, prog) == IF p = "client" THEN IF prog = "12" THEN 16 ELSE 5
                   ELSE IF prog = "12" THEN 10 ELSE 7

Epochs12(p, e) ==
    /\ e.next = 1
    /\ e.keys[1].r = e.keys[1].w
    /\ e.pc > Write12(p, e.prog) => e.we = 1
    /\ e.pc > Read12(p, e.prog) => e.re = 1

EpochsOK(p, e) ==
    /\ ~Past(e) => /\ e.min = 0 /\ e.next \in 1..3 /\ DOMAIN e.keys = 0..e.next
                   /\ e.re \in 0..e.next /\ e.we \in 0..e.next
    /\ e.prog = "start" => e.next = 1 /\ e.keys[1] = Unset
    /\ e.prog = "13" => IF p = "client" THEN Client13Epochs(e) ELSE Server13Epochs(e)
    /\ e.prog \in {"12", "12r"} => Epochs12(p, e)
    /\ Past(e) =>
         /\ e.re \in DOMAIN e.keys /\ e.we = e.re
         /\ \A i \in DOMAIN e.keys : i - e.min \in 0..3
         /\ mode.vers = 13 => e.keys[e.re] = Both(AppKey(e))
         /\ mode.vers = 12 => e.re = 1 /\ e.keys[1].r = e.keys[1].w

RmsFixed(e) == mode.vers = 12 \/ Has(e, "early_start_used") \/ Beyond(e, "13", 22)

\* What message x of e tells the peer is still so.
Told(p, e, x) ==
    /\ x.msg # "ccs"
    /\ x.msg = "ServerHello" => x.info \subseteq {"psk_selected", "renew"}
    /\ x.msg = "EncryptedExtensions" => /\ p = "server"
                                        /\ Beyond(e, "13", 9)
                                        /\ x.info = e.flags \cap {"accepted"}
    /\ x.msg = "NewSessionTicket" => p = "server" /\ x.ctx = e.rms /\ RmsFixed(e)

FinishedOK(p, e, x) ==
    /\ p = "server" /\ mode.vers = 13 =>
              /\ Did(e, "13", 13)
              /\ Append(x.ctx, <<"server", "Finished">>) = e.mark
              /\ x.key.psk = e.psk
    /\ p = LastSender /\ (mode.vers = 13 => x.key.stage = "hs") =>
              /\ Did(e, Version, LastSend)
              /\ Append(x.ctx, <<p, "Finished">>) = Full(e)
              /\ mode.vers = 12 => x.key = e.keys[1].w

ItemsOK(p, e) ==
    /\ IsSeq(e.q) /\ IsSeq(e.out) /\ IsSeq(e.wire)
    /\ \A x \in Messages(e.q) : Told(p, e, x) /\ x.msg # "Finished"
    /\ \A x \in Sent(e) : Told(p, e, x) /\ (x.msg = "Finished" => FinishedOK(p, e, x))

Asks == <<"server", "CertificateRequest">>
Ext(e) == IF Has(e, "accepted") THEN Append(e.mark, <<"client", "EndOfEarlyData">>) ELSE e.mark
Answer(e) == Append(Ext(e), <<"client", "Finished">>)

ServerTr(e) ==
    /\ ~Past(e) /\ Asks \in Elems(e.tr) => Has(e, "crt_req_sent")
    /\ ~Past(e) /\ Asks \in Elems(e.mark) => Has(e, "crt_req_sent")
    /\ e.prog = "13" /\ (e.pc = 14 \/ (e.pc = 13 /\ e.again)) => e.tr = e.mark
    /\ e.prog = "13" /\ e.pc \in 15..16 => e.tr = Ext(e)
    /\ Has(e, "early_start_used") => /\ Beyond(e, "13", 16)
                                     /\ Asks \notin Elems(e.mark)
                                     /\ e.rms = Answer(e)
    /\ Beyond(e, "13", 22) /\ ~Has(e, "early_start_used") => e.rms = Full(e)

ClientTr(e) ==
    /\ ~Beyond(e, "13", 8) => ~Has(e, "accepted")
    /\ e.prog = "start" => ~Has(e, "crt_asked")
    /\ e.prog = "13" /\ Has(e, "crt_asked") =>
          IF e.pc > 12 THEN Asks \in Elems(e.mark) ELSE Asks \in Elems(e.tr)
    /\ e.prog = "13" /\ e.pc = 13 /\ ~e.again => e.tr = e.mark
    /\ e.prog = "13" /\ Did(e, "13", 13) /\ ~Has(e, "crt_asked") =>
          e.tr = IF Did(e, "13", 17) THEN Answer(e) ELSE Ext(e)
    /\ Beyond(e, "13", 18) => e.rms = Full(e)
    /\ Past(e) /\ Asks \notin Elems(e.mark) => e.saved = Answer(e)

TranscriptOK(p, e) ==
    /\ ~Past(e) => IsSeq(e.tr)
    /\ mode.vers = 12 => e.rms = <<>>
    /\ mode.vers = 13 => IF p = "client" THEN ClientTr(e) ELSE ServerTr(e)

Core(p, e) == Control(p, e) /\ EpochsOK(p, e) /\ ItemsOK(p, e) /\ TranscriptOK(p, e)

\* An engine that came to its end was left, and only a message is resumed.
Local(p, e) == /\ Core(p, e)
               /\ e.prog # "none" => e.pc <= Len(Engine(p, e.prog))
               /\ e.again => e.prog # "none" /\ Engine(p, e.prog)[e.pc].op = "send"

Pair(c, s) ==
    LET l == IF LastSender = "client" THEN c ELSE s
        d == IF LastSender = "client" THEN s ELSE c
    IN  /\ Beyond(d, Version, LastRecv) =>
              /\ Did(l, Version, LastSend)
              /\ Full(l) = Full(d)
              /\ mode.vers = 12 => l.keys[1].w = d.keys[1].w
        /\ mode.vers = 13 /\ Beyond(c, "13", 12) =>
              Did(s, "13", 13) /\ c.mark = s.mark /\ c.psk = s.psk
        /\ mode.vers = 13 /\ Beyond(c, "13", 8) =>
              Beyond(s, "13", 9) /\ (Has(c, "accepted") <=> Has(s, "accepted"))
        /\ \A t \in c.tickets : t[1] = t[2]

IInv == /\ mode \in Modes
        /\ DOMAIN ep = Ends
        /\ \A p \in Ends : Local(p, ep[p])
        /\ Pair(ep["client"], ep["server"])

\* The record made of the entry x of handshake_send_buffer.
Sealed(e, x) == Record(x.type, x.msg, x.info, x.ctx, e.keys[x.epoch].w)
Versions == mode.vers \in {12, 13}

-----------------------------------------------------------------------------
(* The script of a handshake.  The messages of both endpoints are numbered   *)
(* in the order of the transcript; which of the numbers are used depends on  *)
(* the mode alone.  Numbers from 101 on are those of a re-authentication;     *)
(* 100 stands for what has no place of its own: data and TLS 1.3 tickets.     *)

\* The modes in which the handshake completes: early data needs TLS 1.3 and a
\* session that is resumed, is not accepted with a HelloRetryRequest, and does
\* not overrun its limit when it is refused.
Sound(m) == /\ m.vers = 12 => ~m.hrr /\ m.early = "none"
            /\ m.early # "none" => m.offer = "accepted"
            /\ m.early = "accepted" => ~m.hrr
            /\ ~Overrun(m)

\* What a mode decides: a session is resumed, a client certificate asked for,
\* early data sent and taken.
Psk == mode.offer = "accepted"
Asked == mode.cr /\ ~Psk
EarlySent == mode.early # "none"
EarlyTaken == mode.early = "accepted"

\* Endpoint p sends message k.
Sends(p, k) ==
    IF Version = "13"
    THEN IF p = "client"
         THEN \/ k \in {4, 7, 17, 102, 104}
              \/ k = 1 /\ mode.hrr
              \/ k = 8 /\ EarlySent
              \/ k = 14 /\ EarlyTaken
              \/ k = 15 /\ Asked
              \/ k = 16 /\ Asked /\ mode.cc
              \/ k = 103 /\ mode.cc
         ELSE \/ k \in {5, 9, 13}
              \/ k = 101 /\ mode.reauth
              \/ k \in {2, 3} /\ mode.hrr
              \/ k = 6 /\ ~mode.hrr
              \/ k = 10 /\ Asked
              \/ k \in {11, 12} /\ ~Psk
    ELSE IF Version = "12"
    THEN IF p = "client"
         THEN k \in {4, 11, 13, 14} \/ (k = 10 /\ mode.cr) \/ (k = 12 /\ mode.cr /\ mode.cc)
         ELSE k \in {5, 6, 7, 9, 16, 17} \/ (k = 8 /\ mode.cr) \/ (k = 15 /\ mode.tickets)
    ELSE IF p = "client" THEN k \in {4, 15, 16} ELSE k \in {5, 13, 14}

\* The messages that a receiver takes without moving on.
Silent(k) == Version = "13" /\ k \in {3, 6, 7, 8}

\* The last message of p in the initial handshake.
LastOwn(p) == IF Version = "13" THEN IF p = "client" THEN 17 ELSE 13
              ELSE IF Version = "12" THEN IF p = "client" THEN 14 ELSE 17
              ELSE IF p = "client" THEN 16 ELSE 14

\* The message with number k.
MsgOf(k) ==
    CASE k \in {101, 10} /\ Version = "13" -> "CertificateRequest"
      [] k \in {102, 11, 15} /\ Version = "13" -> "Certificate"
      [] k \in {103, 12, 16} /\ Version = "13" -> "CertificateVerify"
      [] k \in {104, 13, 17} /\ Version = "13" -> "Finished"
      [] k = 9 /\ Version = "13" -> "EncryptedExtensions"
      [] k = 14 /\ Version = "13" -> "EndOfEarlyData"
      [] k = 5 -> "ServerHello"
      [] k \in {6, 10} /\ Version = "12" -> "Certificate"
      [] k = 7 /\ Version = "12" -> "ServerKeyExchange"
      [] k = 8 /\ Version = "12" -> "CertificateRequest"
      [] k = 9 /\ Version = "12" -> "ServerHelloDone"
      [] k = 11 /\ Version = "12" -> "ClientKeyExchange"
      [] k = 12 /\ Version = "12" -> "CertificateVerify"
      [] k = 15 /\ Version = "12" -> "NewSessionTicket"
      [] k \in {14, 17} /\ Version = "12" -> "Finished"
      [] k \in {14, 16} /\ Version = "12r" -> "Finished"
      [] OTHER -> "ccs"

\* The transcript up to message k.
Extend(s, k) == IF MsgOf(k) = "ccs" THEN s
                ELSE IF Sends("client", k) THEN Append(s, <<"client", MsgOf(k)>>)
                ELSE IF Sends("server", k) THEN Append(s, <<"server", MsgOf(k)>>) ELSE s
Greeting == <<"client", "ClientHello">>
Retry == <<Synthetic, <<"server", "HelloRetryRequest">>>>
Hello == IF mode.hrr THEN Append(Retry, Greeting) ELSE <<Greeting>>
T5 == Extend(Hello, 5)
T6 == Extend(T5, 6)
T7 == Extend(T6, 7)
T8 == Extend(T7, 8)
T9 == Extend(T8, 9)
T10 == Extend(T9, 10)
T11 == Extend(T10, 11)
T12 == Extend(T11, 12)
T13 == Extend(T12, 13)
T14 == Extend(T13, 14)
T15 == Extend(T14, 15)
T16 == Extend(T15, 16)
T17 == Extend(T16, 17)
T101 == Extend(T17, 101)
T102 == Extend(T101, 102)
T103 == Extend(T102, 103)
T104 == Extend(T103, 104)
Tr(k) == CASE k = 0 -> <<>> [] k = 1 -> <<Greeting>> [] k \in {2, 3} -> Retry [] k = 4 -> Hello
           [] k = 5 -> T5 [] k = 6 -> T6 [] k = 7 -> T7 [] k = 8 -> T8 [] k = 9 -> T9
           [] k = 10 -> T10 [] k = 11 -> T11 [] k = 12 -> T12 [] k = 13 -> T13
           [] k = 14 -> T14 [] k = 15 -> T15 [] k = 16 -> T16 [] k \in {17, 100} -> T17
           [] k = 101 -> T101 [] k = 102 -> T102 [] k = 103 -> T103 [] OTHER -> T104

\* The keys of a handshake.
KeyFor(stage, ctx) == [stage |-> stage, psk |-> Psk, ctx |-> ctx]
HsK == KeyFor("hs", Tr(5))
AppK == KeyFor("app", Tr(13))
EarlyK == [stage |-> "early", psk |-> TRUE, ctx |-> Tr(4)]
K12 == KeyFor("tls12", IF Version = "12" THEN Tr(11) ELSE Tr(5))
LateK == IF Version = "13" THEN AppK ELSE K12

-----------------------------------------------------------------------------
(* How far an endpoint is.                                                   *)

\* The step e is at, or the next if the message of this one is under way.
Reach(e) == IF e.again THEN e.pc + 1 ELSE e.pc
Retried(e) == e.tr # <<>> /\ e.tr[1] = Synthetic

\* The steps up to the first answer of the server count from 1, the others
\* from 11, so that a client that was asked again does not repeat a place.
Place(e) == IF e.prog = "start" /\ ~Retried(e) THEN Reach(e) ELSE Reach(e) + 10

\* The last message that p has said when it is at place n of the initial
\* handshake, and the last it has heard.
SaidAt(p, n) ==
    IF Version = "13"
    THEN IF p = "client"
         THEN IF n <= 1 THEN 0 ELSE IF n <= 11 THEN IF mode.hrr THEN 1 ELSE 4
              ELSE IF n <= 14 THEN 4 ELSE IF n <= 16 THEN 7 ELSE IF n <= 23 THEN 8
              ELSE IF n <= 25 THEN 14 ELSE IF n <= 27 THEN n - 11 ELSE 17
         ELSE IF n <= 13 THEN 0 ELSE IF n = 14 THEN 2 ELSE IF n <= 16 THEN 3 ELSE IF n = 17 THEN 5
              ELSE IF n <= 19 THEN 6 ELSE IF n <= 23 THEN n - 11 ELSE 13
    ELSE IF Version = "12"
    THEN IF p = "client"
         THEN IF n <= 1 THEN 0 ELSE IF n <= 18 THEN 4 ELSE IF n <= 21 THEN n - 9
              ELSE IF n <= 23 THEN 13 ELSE 14
         ELSE IF n <= 12 THEN 0 ELSE IF n <= 17 THEN n - 8 ELSE IF n <= 22 THEN 9
              ELSE IF n = 23 THEN 15 ELSE IF n <= 25 THEN 16 ELSE 17
    ELSE IF p = "client"
         THEN IF n <= 1 THEN 0 ELSE IF n <= 17 THEN 4 ELSE IF n <= 19 THEN 15 ELSE 16
         ELSE IF n <= 12 THEN 0 ELSE IF n = 13 THEN 5 ELSE IF n <= 15 THEN 13 ELSE 14

HeardAt(p, n) ==
    IF Version = "13"
    THEN IF p = "client"
         THEN IF n <= 3 THEN 0 ELSE IF n <= 13 THEN 2 ELSE IF n <= 18 THEN 5
              ELSE IF n <= 22 THEN n - 10 ELSE 13
         ELSE IF n <= 1 THEN 0 ELSE IF n <= 15 THEN IF mode.hrr THEN 1 ELSE 4
              ELSE IF n <= 24 THEN 4 ELSE IF n <= 29 THEN 14 ELSE IF n <= 31 THEN n - 15 ELSE 17
    ELSE IF Version = "12"
    THEN IF p = "client"
         THEN IF n <= 3 THEN 0 ELSE IF n <= 17 THEN n - 9 ELSE IF n <= 25 THEN 9
              ELSE IF n <= 27 THEN n - 11 ELSE 17
         ELSE IF n <= 1 THEN 0 ELSE IF n <= 17 THEN 4 ELSE IF n <= 21 THEN n - 8 ELSE 14
    ELSE IF p = "client"
         THEN IF n <= 3 THEN 0 ELSE IF n <= 15 THEN 5 ELSE IF n = 16 THEN 13 ELSE 14
         ELSE IF n <= 1 THEN 0 ELSE IF n <= 17 THEN 4 ELSE IF n = 18 THEN 15 ELSE 16

\* After the handshake: the messages of a re-authentication.
AuthSaid(p, e) ==
    IF p = "client"
    THEN IF e.auths = 1 THEN 104 ELSE IF e.prog = "reauth" THEN 100 + Reach(e) ELSE 100
    ELSE IF e.auths = 1 \/ (e.prog = "reauth" /\ Reach(e) >= 2) THEN 101 ELSE 100
AuthHeard(p, e) ==
    IF p = "client"
    THEN IF e.auths = 1 \/ e.prog = "reauth" THEN 101 ELSE 100
    ELSE IF e.auths = 1 THEN 104 ELSE IF e.prog = "reauth" /\ Reach(e) > 2 THEN 99 + Reach(e) ELSE 100

\* The last message that p is through with, of its own and of its peer.
Said(p, e) == IF Past(e) THEN AuthSaid(p, e) ELSE SaidAt(p, Place(e))
HeardTo(p, e) == IF Past(e) THEN AuthHeard(p, e) ELSE HeardAt(p, Place(e))
Later(a, b) == IF a <= b THEN b ELSE a

-----------------------------------------------------------------------------
(* What the state of an endpoint is at each place.                           *)

\* The keys in use at place n, and those of the next epoch.
WriteKeyAt(p, n) ==
    IF Version = "13"
    THEN IF p = "client"
         THEN IF n <= 15 \/ (n <= 17 /\ ~EarlySent) THEN Plain
              ELSE IF n <= 24 /\ EarlySent THEN EarlyK ELSE IF n <= 28 THEN HsK ELSE AppK
         ELSE IF n <= 18 THEN Plain ELSE IF n <= 26 THEN HsK ELSE AppK
    ELSE IF n <= 10 + Write12(p, Version) THEN Plain ELSE K12

ReadKeyAt(p, n) ==
    IF Version = "13"
    THEN IF p = "client" THEN IF n <= 17 THEN Plain ELSE IF n <= 28 THEN HsK ELSE AppK
         ELSE IF n <= 18 THEN Plain ELSE IF n <= 25 /\ EarlyTaken THEN EarlyK
              ELSE IF n <= 32 THEN HsK ELSE AppK
    ELSE IF n <= 10 + Read12(p, Version) THEN Plain ELSE K12

NextKeyAt(p, n) ==
    IF Version = "13"
    THEN IF p = "client" THEN IF n <= 17 THEN Unset ELSE IF n <= 28 THEN Both(HsK) ELSE Both(AppK)
         ELSE IF n <= 18 THEN Unset ELSE IF n <= 26 THEN Both(HsK) ELSE Both(AppK)
    ELSE IF n <= 10 + Read12(p, Version) /\ n <= 10 + Write12(p, Version) THEN Unset ELSE Both(K12)

KeysAt(p, e, n) == /\ e.keys[e.we].w = WriteKeyAt(p, n)
                   /\ e.keys[e.re].r = ReadKeyAt(p, n)
                   /\ e.keys[e.next] = NextKeyAt(p, n)

\* The handshake flags at place n.
ClientFlags(e, n) ==
    /\ Has(e, "in_flight") <=> EarlySent /\ n \in 2..24
    /\ Has(e, "accepted") <=> EarlyTaken /\ n >= 19
    /\ Has(e, "psk_selected") <=> Version = "13" /\ Psk /\ n >= 14
    /\ Has(e, "renew") <=> Version = "12" /\ mode.tickets /\ n >= 14
    /\ Has(e, "crt_asked") <=> \/ Version = "13" /\ Asked /\ n >= 20
                               \/ Version = "12" /\ mode.cr /\ n >= 17
    /\ Version = "13" => (Has(e, "crt_vrfy_expected") <=> ~Psk /\ n >= 21)

ServerFlags(e, n) ==
    /\ Has(e, "in_flight") <=> EarlySent /\ n \in 12..(IF EarlyTaken THEN 24 ELSE 31)
    /\ Has(e, "accepted") <=> EarlyTaken /\ n >= 12
    /\ Has(e, "psk_selected") <=> Version = "13" /\ Psk /\ n >= 12
    /\ Has(e, "renew") <=> Version = "12" /\ mode.tickets /\ n >= 12
    /\ Has(e, "hrr_sent") <=> mode.hrr /\ n >= 12
    /\ Has(e, "crt_vrfy_expected") <=> \/ Version = "13" /\ Asked /\ mode.cc /\ n >= 30
                                       \/ Version = "12" /\ mode.cr /\ mode.cc /\ n >= 18

FlagsAt(p, e, n) == IF p = "client" THEN ClientFlags(e, n) ELSE ServerFlags(e, n)

\* A server that asks for another hello forgets the first.
Forgets(p, n) == p = "server" /\ Version = "13" /\ n = 13 /\ mode.hrr

\* The transcript and what is kept of it: the pre-shared key and the prefix
\* that the keys are derived from.
SecretsAt(p, e, n) ==
    /\ e.tr = IF Forgets(p, n) THEN <<Synthetic>> ELSE Tr(Later(SaidAt(p, n), HeardAt(p, n)))
    /\ n >= (IF p = "client" THEN 14 ELSE IF Version = "13" THEN 17 ELSE 13) => e.psk = Psk
    /\ Version = "13" => /\ n \in (IF p = "client" THEN 14..22 ELSE 17..23) => e.mark = Tr(5)
                         /\ n >= (IF p = "client" THEN 23 ELSE 24) => e.mark = Tr(13)
    /\ Version = "12" /\ n >= (IF p = "client" THEN 20 ELSE 19) => e.mark = Tr(11)
    /\ Version = "12r" /\ n >= (IF p = "client" THEN 14 ELSE 13) => e.mark = Tr(5)

\* The last step at which messages may be waiting in handshake_send_buffer.
QueueEnd(p) == IF Version = "13" THEN IF p = "client" THEN 17 ELSE 13
               ELSE IF Version = "12" THEN IF p = "client" THEN 13 ELSE 15
               ELSE IF p = "client" THEN 9 ELSE 5

\* During the initial handshake.
Stands(p, e, n) ==
    /\ e.auths = 0
    /\ p = "client" /\ n = 3 => ~mode.hrr
    /\ e.done => \/ Version = "12" /\ n >= (IF p = "client" THEN 28 ELSE 22)
                 \/ Version = "12r" /\ n >= (IF p = "client" THEN 17 ELSE 19)
    /\ e.started => \/ p = "server" /\ Version = "13" /\ n >= 29
                    \/ p = "client" /\ Version = "12" /\ n >= 25
    /\ e.q # <<>> => e.prog # "start" /\ ~e.again /\ e.pc <= QueueEnd(p)
    /\ \A i \in 1..Len(e.q) : e.q[i].epoch \in 0..e.we
    /\ KeysAt(p, e, n) /\ FlagsAt(p, e, n) /\ SecretsAt(p, e, n)

\* After it.
Rests13(p, e) ==
    /\ e.auths \in {0, 1} /\ (e.auths = 1 => mode.reauth)
    /\ e.prog = "reauth" => /\ e.auths = 0 /\ mode.reauth
                            /\ e.tr = Tr(Later(AuthSaid(p, e), AuthHeard(p, e)))
    /\ e.saved = Tr(17)
    /\ p = "client" /\ e.prog = "reauth" => Has(e, "crt_asked")
    /\ p = "server" => /\ ~Has(e, "in_flight")
                       /\ Has(e, "crt_vrfy_expected") => mode.cc
                       /\ e.prog = "reauth" /\ Reach(e) >= 3 => (Has(e, "crt_vrfy_expected") <=> mode.cc)

Rested(p, e) ==
    /\ e.done /\ ~e.started /\ e.q = <<>>
    /\ e.keys[e.we].w = LateK /\ e.keys[e.re].r = LateK
    /\ IF Version = "13" THEN Rests13(p, e) ELSE e.auths = 0

\* Endpoint p has not failed and is as the script says.
HereOK(p, e) == e.err = "none" /\ IF Past(e) THEN Rested(p, e) ELSE Stands(p, e, Place(e))

-----------------------------------------------------------------------------
(* What is under way.                                                        *)

\* The records of e that the peer has not read: on the wire, in
\* record_send_buffer and, not yet encrypted, in handshake_send_buffer.
Seal(e) == [i \in 1..Len(e.q) |-> Sealed(e, e.q[i])]
Unread(e) == (e.wire \o e.out) \o Seal(e)

\* The number of record r of p.  Both hellos of a client that is asked again
\* look the same; h tells that it is the first.
Slot(p, h, r) ==
    IF r.type = "data" THEN IF r.key.stage = "early" THEN 8 ELSE 100
    ELSE IF r.type = "ccs"
    THEN IF Version = "13" THEN IF p = "client" THEN 7 ELSE IF mode.hrr THEN 3 ELSE 6
         ELSE IF Version = "12" THEN IF p = "client" THEN 13 ELSE 16
         ELSE IF p = "client" THEN 15 ELSE 13
    ELSE IF Version = "13"
    THEN IF p = "client"
         THEN CASE r.msg = "ClientHello" -> IF h THEN 1 ELSE 4
                [] r.msg = "EndOfEarlyData" -> 14
                [] r.msg = "Certificate" -> IF r.key.stage = "app" THEN 102 ELSE 15
                [] r.msg = "CertificateVerify" -> IF r.key.stage = "app" THEN 103 ELSE 16
                [] r.msg = "Finished" -> IF r.key.stage = "app" THEN 104 ELSE 17
                [] OTHER -> 0
         ELSE CASE r.msg = "HelloRetryRequest" -> 2
                [] r.msg = "ServerHello" -> 5
                [] r.msg = "EncryptedExtensions" -> 9
                [] r.msg = "CertificateRequest" -> IF r.key.stage = "app" THEN 101 ELSE 10
                [] r.msg = "Certificate" -> 11
                [] r.msg = "CertificateVerify" -> 12
                [] r.msg = "Finished" -> 13
                [] r.msg = "NewSessionTicket" -> 100
                [] OTHER -> 0
    ELSE IF p = "client"
    THEN CASE r.msg = "ClientHello" -> 4
           [] r.msg = "Certificate" -> 10
           [] r.msg = "ClientKeyExchange" -> 11
           [] r.msg = "CertificateVerify" -> 12
           [] r.msg = "Finished" -> IF Version = "12" THEN 14 ELSE 16
           [] OTHER -> 0
    ELSE CASE r.msg = "ServerHello" -> 5
           [] r.msg = "Certificate" -> 6
           [] r.msg = "ServerKeyExchange" -> 7
           [] r.msg = "CertificateRequest" -> 8
           [] r.msg = "ServerHelloDone" -> 9
           [] r.msg = "NewSessionTicket" -> 15
           [] r.msg = "Finished" -> IF Version = "12" THEN 17 ELSE 14
           [] OTHER -> 0

First1(p, e) == p = "client" /\ mode.hrr /\ e.prog = "start" /\ Place(e) <= 3

\* The key of message k and what it tells.
KeyOf(k) ==
    IF k >= 100 THEN LateK
    ELSE IF Version = "13" THEN IF k <= 7 THEN Plain ELSE IF k \in {8, 14} THEN EarlyK ELSE HsK
    ELSE IF MsgOf(k) = "Finished" THEN K12 ELSE Plain

InfoOf(p, k) ==
    IF k \in {1, 4} THEN {x \in {"early"} : EarlySent}
    ELSE IF k = 5 THEN {x \in {"psk_selected"} : Version = "13" /\ Psk} \cup
                       {x \in {"renew"} : Version = "12" /\ mode.tickets}
    ELSE IF MsgOf(k) = "EncryptedExtensions" THEN {x \in {"accepted"} : EarlyTaken}
    ELSE IF MsgOf(k) = "Certificate" THEN {x \in {"cert"} : p = "server" \/ mode.cc}
    ELSE {}

\* Record r is message k of p, or data or a ticket.
Item(p, k, r) ==
    /\ r.type \in {"hs", "ccs", "data"}
    /\ k = 100 \/ Sends(p, k)
    /\ r.type = "hs" /\ k # 100 => r.info = InfoOf(p, k)
    /\ r.type # "ccs" => r.key = KeyOf(k)
    /\ r.type = "hs" /\ r.msg = "Finished" => r.ctx = Tr(k - 1)
    /\ r.type = "data" /\ k = 100 => r.msg \in Nat \ {0}

\* The numbers of the records under way from p.
Slots(p, e) == [i \in 1..Len(Unread(e)) |-> Slot(p, First1(p, e), Unread(e)[i])]

\* y may follow x; data and tickets lie anywhere after the handshake.
Before(x, y) == x < y \/ (x >= 100 /\ y >= 100 /\ (x = 100 \/ y = 100))
Reauths == {102, 103, 104}

\* Silent message k of p has not been passed by a peer that is through with a.
Pending(p, k, a) == IF p = "server" THEN a < k ELSE a < 17 /\ (k = 8 /\ EarlyTaken => a < 14)

\* k may be under way from p, which is through with b.
InRange(p, k, a, b) == /\ k = 100 \/ (Sends(p, k) /\ k <= b /\ (Silent(k) \/ a < k))
                       /\ Silent(k) => Pending(p, k, a)
                       /\ k >= 100 => b >= LastOwn(p)

\* No message overtakes another.
Ordered(K) == \A i, j \in 1..Len(K) : i < j => Before(K[i], K[j])

\* The messages that a receiver must hear.
Spoken(p, k) == Sends(p, k) /\ ~Silent(k)

\* None is missing, and nothing was read that was not sent.
Whole(p, K, a, b) == \A k \in 1..104 : Spoken(p, k) /\ a < k /\ k <= b => \E i \in 1..Len(K) : K[i] = k
Sane(p, a, b) == \A k \in 1..104 : Spoken(p, k) /\ k <= a => k <= b

\* The data of a client comes before its re-authentication or after it.
DataFirst(K, i) == \A j \in 1..Len(K) : K[j] \in Reauths => i < j
DataLast(K, i) == \A j \in 1..Len(K) : K[j] \in Reauths => j < i
Apart(K, a, b) == \A i \in 1..Len(K) : K[i] = 100 => (a < 102 /\ DataFirst(K, i)) \/ (b = 104 /\ DataLast(K, i))

\* The numbers under way from p, which is through with b, to a peer that is
\* through with a: in order, none missing and none twice.
Line(p, K, a, b) ==
    /\ \A i \in 1..Len(K) : InRange(p, K[i], a, b)
    /\ Ordered(K)
    /\ Whole(p, K, a, b)
    /\ Sane(p, a, b)
    /\ p = "client" => Apart(K, a, b)

\* Every record under way is what its number says.
Items(p, e) == \A i \in 1..Len(Unread(e)) : Item(p, Slots(p, e)[i], Unread(e)[i])

\* What is under way from p to its peer is what the script has in between.
Flow(p, e, o) == Items(p, e) /\ Line(p, Slots(p, e), HeardTo(Peer(p), o), Said(p, e))

-----------------------------------------------------------------------------
(* Data.                                                                     *)

\* The numbers of the data records under way, 0 for the other records.
Numbers(p, e) ==
    [i \in 1..Len(Unread(e)) |-> IF Unread(e)[i].type = "data" /\ Slots(p, e)[i] = 100
                                 THEN Unread(e)[i].msg ELSE 0]

\* D: data n+1 to m under way.
InOrder(D, n, m) ==
    /\ \A i \in 1..Len(D) : D[i] \in Nat /\ (D[i] # 0 => n < D[i] /\ D[i] <= m)
    /\ \A i, j \in 1..Len(D) : i < j /\ D[i] # 0 /\ D[j] # 0 => D[i] < D[j]
    /\ \A k \in (n + 1)..m : \E i \in 1..Len(D) : D[i] = k

\* The early data comes first.
Skew(p) == IF p = "server" /\ EarlyTaken THEN 1 ELSE 0
Got(p, o) == IF Len(o.got) < Skew(p) THEN 0 ELSE Len(o.got) - Skew(p)

\* The early data is under way until it is delivered, before EndOfEarlyData.
EarlyLine(K, a, b, got) ==
    /\ got = <<>> /\ b >= 8 => \E i \in 1..Len(K) : K[i] = 8
    /\ got # <<>> => b >= 8 /\ \A i \in 1..Len(K) : K[i] # 8
    /\ a >= 14 => got # <<>>

\* The peer has the first of the data of p and the rest is under way.
DataOK(p, e, o) ==
    /\ e.sent \in Nat /\ Got(Peer(p), o) <= e.sent
    /\ IsSeq(o.got) /\ \A i \in 1..Len(o.got) : o.got[i] = i - Skew(Peer(p))
    /\ InOrder(Numbers(p, e), Got(Peer(p), o), e.sent)
    /\ p = "client" /\ EarlyTaken => EarlyLine(Slots(p, e), HeardTo(Peer(p), o), Said(p, e), o.got)

\* The two directions of a conversation.
Talk(p, e, o) == /\ Flow(p, e, o) /\ Flow(Peer(p), o, e)
                 /\ DataOK(p, e, o) /\ DataOK(Peer(p), o, e)

\* Both endpoints are as the script has them at their places, and what is
\* under way between them is what it has in between.
Synced == /\ \A p \in Ends : HereOK(p, ep[p])
          /\ Talk("client", ep["client"], ep["server"])

\* In every mode whose handshake can complete, and wherever the calls of
\* gnutls_handshake, gnutls_record_send and gnutls_record_recv are interrupted,
\* STATE, the keys, the flags and the transcript of both sessions are those of
\* a place in one script, and the records that one has sent or queued and the
\* other has not read are the messages between the two places, in order, each
\* once and under the key the reader will have by then, and the data likewise.
FollowsScript == Sound(mode) => Synced

\* In the same modes, the part of it that needs no transcripts: in both
\* directions the messages that _gnutls_handshake_io_write_flush and the record
\* layer have not brought to the peer are those between the places of the two
\* sessions, in the order of the script, none lost and none repeated, however
\* often STATE makes an interrupted call do a step again.
InSequence ==
    Sound(mode) => \A p \in Ends :
                       Line(p, Slots(p, ep[p]), HeardTo(Peer(p), ep[Peer(p)]), Said(p, ep[p]))

-----------------------------------------------------------------------------
(* The moves of the script, from place to place.                             *)

Three == Version \in {"13", "12", "12r"}

\* Early data neither exceeds its limit as it is sent nor, if it is refused, as
\* it arrives.
WithinLimit == /\ ~(mode.size > MaxEarlyData)
               /\ EarlySent /\ ~EarlyTaken => ~(mode.size + Expansion > MaxEarlyData)

\* What follows of the mode.
Setting ==
    /\ Versions /\ Three /\ (Version = "13" <=> mode.vers = 13)
    /\ EarlySent => Psk /\ Version = "13"
    /\ EarlyTaken => EarlySent /\ ~mode.hrr
    /\ Version # "13" => ~mode.hrr
    /\ Version = "12r" => Psk
    /\ Version = "12" => ~Psk
    /\ WithinLimit

\* The place behind the last step of the initial handshake.
EndPlace(p) == IF Version = "13" THEN IF p = "client" THEN 29 ELSE 34
               ELSE IF Version = "12" THEN IF p = "client" THEN 28 ELSE 26
               ELSE IF p = "client" THEN 20 ELSE 19

\* The places of p, and the one that follows on n without a jump.
Places(p) == IF p = "client" THEN 1..3 \cup 11..EndPlace(p) ELSE {1} \cup 12..EndPlace(p)

Follows(p, n, m) == m = n + 1 /\ (n \in 11..(EndPlace(p) - 1) \/ (p = "client" /\ n \in 1..2))

\* The jumps: the client is asked again, or hears the answer; the server hears
\* the client.
Jumps(p, n, m) == \/ p = "client" /\ n = 2 /\ m = 11 /\ mode.hrr
                  \/ p = "client" /\ n = 3 /\ m = 14 /\ ~mode.hrr
                  \/ p = "server" /\ n = 1 /\ m = 12

\* The steps that the mode leaves out.
SkipAt(p, n) ==
    IF Version = "13"
    THEN IF p = "client"
         THEN \/ n \in {15, 16} /\ ~EarlySent
              \/ n \in 19..21 /\ Psk
              \/ n = 23 /\ ~EarlyTaken
              \/ n = 25 /\ ~Asked
              \/ n = 26 /\ ~(Asked /\ mode.cc)
         ELSE \/ n \in 12..15 /\ ~mode.hrr
              \/ n = 17 /\ mode.hrr
              \/ n \in {20, 29} /\ ~Asked
              \/ n \in 21..22 /\ Psk
              \/ n = 24 /\ ~EarlyTaken
              \/ n \in {27, 33}
              \/ n = 30 /\ ~(Asked /\ mode.cc)
    ELSE IF Version = "12"
    THEN IF p = "client"
         THEN \/ n = 18 /\ ~mode.cr
              \/ n = 20 /\ ~(mode.cr /\ mode.cc)
              \/ n = 25 /\ ~mode.tickets
         ELSE \/ n \in {15, 17} /\ ~mode.cr
              \/ n = 19 /\ ~(mode.cr /\ mode.cc)
              \/ n = 22 /\ ~mode.tickets
    ELSE IF p = "client" THEN n = 14 ELSE n = 16

\* The steps that neither send nor receive, and those with TLS 1.3 tickets.
IdleAt(p, n) ==
    IF Version = "13"
    THEN IF p = "client" THEN n \in {15, 17, 24, 28} ELSE n \in {12, 18, 25, 26, 27, 28, 32, 33}
    ELSE IF Version = "12"
    THEN IF p = "client" THEN n \in {22, 24} ELSE n = 24
    ELSE IF p = "client" THEN n = 18 ELSE n = 14

\* An optional message does not come.
AbsentAt(p, n) == p = "client" /\ \/ n = 2 /\ ~mode.hrr
                                  \/ n = 12
                                  \/ Version = "13" /\ n = 19 /\ ~Asked
                                  \/ Version = "12" /\ n = 16 /\ ~mode.cr

\* Nothing happens but that an engine goes on.
RestAt(p, n) == \/ Version = "13" /\ p = "client" /\ n = 24 /\ ~EarlySent
                \/ Version = "13" /\ p = "server" /\ n = 25 /\ ~EarlyTaken
                \/ Version = "13" /\ p = "server" /\ n = 28
                \/ Version = "12" /\ p = "client" /\ n = 24

\* A change cipher spec is sent.
CcsAt(p, n) ==
    IF Version = "13" THEN IF p = "client" THEN n = 14 ELSE (n = 14 /\ mode.hrr) \/ (n = 17 /\ ~mode.hrr)
    ELSE IF Version = "12" THEN n = (IF p = "client" THEN 21 ELSE 23)
    ELSE n = (IF p = "client" THEN 17 ELSE 13)

\* What is said or heard there is no handshake message.
PlainAt(p, n) == SkipAt(p, n) \/ AbsentAt(p, n) \/ RestAt(p, n) \/ CcsAt(p, n)

\* Where keys are set or taken into use.
KeyStep(p, n) ==
    IF Version = "13"
    THEN IF p = "client" THEN n \in {17, 28} \/ (n \in {15, 24} /\ EarlySent)
         ELSE n \in {18, 26, 32} \/ (n = 25 /\ EarlyTaken)
    ELSE n \in {10 + Read12(p, Version), 10 + Write12(p, Version)}

\* Where flags change.
FlagStep(p, n) ==
    IF p = "client"
    THEN \/ n = 1 /\ EarlySent
         \/ n \in {3, 13}
         \/ n = 18 /\ EarlyTaken
         \/ n = 19 /\ Version = "13" /\ Asked
         \/ n = 20 /\ Version = "13" /\ ~Psk
         \/ n = 24 /\ EarlySent
         \/ n = 16 /\ Version = "12" /\ mode.cr
    ELSE \/ n = 1
         \/ n = 24 /\ EarlyTaken
         \/ n = 31 /\ EarlySent /\ ~EarlyTaken
         \/ n = 29 /\ Version = "13" /\ Asked /\ mode.cc
         \/ n = 17 /\ Version = "12" /\ mode.cr /\ mode.cc

\* At place n endpoint p sends the handshake message or the early data msg.
SpeakAt(p, n, msg) ==
    IF Version = "13"
    THEN IF p = "client"
         THEN \/ n = 1 /\ msg = "ClientHello"
              \/ n = 11 /\ mode.hrr /\ msg = "ClientHello"
              \/ n = 16 /\ EarlySent /\ msg = "EarlyData"
              \/ n = 23 /\ EarlyTaken /\ msg = "EndOfEarlyData"
              \/ n = 25 /\ Asked /\ msg = "Certificate"
              \/ n = 26 /\ Asked /\ mode.cc /\ msg = "CertificateVerify"
              \/ n = 27 /\ msg = "Finished"
         ELSE \/ n = 13 /\ mode.hrr /\ msg = "HelloRetryRequest"
              \/ n = 16 /\ msg = "ServerHello"
              \/ n = 19 /\ msg = "EncryptedExtensions"
              \/ n = 20 /\ Asked /\ msg = "CertificateRequest"
              \/ n = 21 /\ ~Psk /\ msg = "Certificate"
              \/ n = 22 /\ ~Psk /\ msg = "CertificateVerify"
              \/ n = 23 /\ msg = "Finished"
    ELSE IF Version = "12"
    THEN IF p = "client"
         THEN \/ n = 1 /\ msg = "ClientHello"
              \/ n = 18 /\ mode.cr /\ msg = "Certificate"
              \/ n = 19 /\ msg = "ClientKeyExchange"
              \/ n = 20 /\ mode.cr /\ mode.cc /\ msg = "CertificateVerify"
              \/ n = 23 /\ msg = "Finished"
         ELSE \/ n = 12 /\ msg = "ServerHello"
              \/ n = 13 /\ msg = "Certificate"
              \/ n = 14 /\ msg = "ServerKeyExchange"
              \/ n = 15 /\ mode.cr /\ msg = "CertificateRequest"
              \/ n = 16 /\ msg = "ServerHelloDone"
              \/ n = 22 /\ mode.tickets /\ msg = "NewSessionTicket"
              \/ n = 25 /\ msg = "Finished"
    ELSE IF p = "client"
         THEN \/ n = 1 /\ msg = "ClientHello"
              \/ n = 19 /\ msg = "Finished"
         ELSE \/ n = 12 /\ msg = "ServerHello"
              \/ n = 15 /\ msg = "Finished"

\* At place n endpoint p reads the handshake message msg and goes on at m.
HearAt(p, n, m, msg) ==
    IF Version = "13"
    THEN IF p = "client"
         THEN \/ n = 2 /\ m = 11 /\ mode.hrr /\ msg = "HelloRetryRequest"
              \/ n = 3 /\ m = 14 /\ ~mode.hrr /\ msg = "ServerHello"
              \/ n = 13 /\ m = 14 /\ mode.hrr /\ msg = "ServerHello"
              \/ n = 18 /\ m = 19 /\ msg = "EncryptedExtensions"
              \/ n = 19 /\ m = 20 /\ Asked /\ msg = "CertificateRequest"
              \/ n = 20 /\ m = 21 /\ ~Psk /\ msg = "Certificate"
              \/ n = 21 /\ m = 22 /\ ~Psk /\ msg = "CertificateVerify"
              \/ n = 22 /\ m = 23 /\ msg = "Finished"
         ELSE \/ n = 1 /\ m = 12 /\ msg = "ClientHello"
              \/ n = 15 /\ m = 16 /\ mode.hrr /\ msg = "ClientHello"
              \/ n = 24 /\ m = 25 /\ EarlyTaken /\ msg = "EndOfEarlyData"
              \/ n = 29 /\ m = 30 /\ Asked /\ msg = "Certificate"
              \/ n = 30 /\ m = 31 /\ Asked /\ mode.cc /\ msg = "CertificateVerify"
              \/ n = 31 /\ m = 32 /\ msg = "Finished"
    ELSE IF Version = "12"
    THEN IF p = "client"
         THEN \/ n = 3 /\ m = 14 /\ msg = "ServerHello"
              \/ n = 14 /\ m = 15 /\ msg = "Certificate"
              \/ n = 15 /\ m = 16 /\ msg = "ServerKeyExchange"
              \/ n = 16 /\ m = 17 /\ mode.cr /\ msg = "CertificateRequest"
              \/ n = 17 /\ m = 18 /\ msg = "ServerHelloDone"
              \/ n = 25 /\ m = 26 /\ mode.tickets /\ msg = "NewSessionTicket"
              \/ n = 27 /\ m = 28 /\ msg = "Finished"
         ELSE \/ n = 1 /\ m = 12 /\ msg = "ClientHello"
              \/ n = 17 /\ m = 18 /\ mode.cr /\ msg = "Certificate"
              \/ n = 18 /\ m = 19 /\ msg = "ClientKeyExchange"
              \/ n = 19 /\ m = 20 /\ mode.cr /\ mode.cc /\ msg = "CertificateVerify"
              \/ n = 21 /\ m = 22 /\ msg = "Finished"
    ELSE IF p = "client"
         THEN \/ n = 3 /\ m = 14 /\ msg = "ServerHello"
              \/ n = 16 /\ m = 17 /\ msg = "Finished"
         ELSE \/ n = 1 /\ m = 12 /\ msg = "ClientHello"
              \/ n = 18 /\ m = 19 /\ msg = "Finished"

\* At place n endpoint p reads the change cipher spec of TLS 1.2.
CcsHeardAt(p, n) == Version # "13" /\ n = 10 + Read12(p, Version)

\* The message after the optional one that does not come.
Instead(n) == IF n \in {2, 12} THEN 5 ELSE IF Version = "13" THEN 11 ELSE 9
=============================================================================
