-------------------------- MODULE Handshake_proofs --------------------------
(***************************************************************************)
(* Two endpoints that end a handshake agree: proofs about Handshake, for    *)
(* every set of modes.                                                      *)
(***************************************************************************)
EXTENDS HandshakeScript, SequenceTheorems, TLAPS
-----------------------------------------------------------------------------
(* Sequences.                                                                *)

\* A sequence of anything is a sequence of its own elements.
LEMMA SeqOf == ASSUME NEW T, NEW s \in Seq(T) PROVE IsSeq(s)
  <1> DEFINE U == Elems(s)
  <1>1. \A i \in 1..Len(s) : s[i] \in U
    BY DEF Elems
  <1> HIDE DEF U
  <1>2. Len(s) \in Nat /\ s \in [1..Len(s) -> T]
    BY LenProperties
  <1>3. s \in [1..Len(s) -> U]
    BY <1>1, <1>2
  <1>4. s \in Seq(U)
    BY <1>2, <1>3
  <1> QED BY <1>4 DEF IsSeq, U

\* The empty sequence.
LEMMA NoElements == IsSeq(<<>>) /\ Elems(<<>>) = {} /\ Messages(<<>>) = {}
  <1>1. <<>> \in Seq({}) /\ Len(<<>>) = 0
    OBVIOUS
  <1>2. IsSeq(<<>>)
    BY <1>1, SeqOf
  <1> QED BY <1>1, <1>2 DEF Elems, Messages

\* Appending adds one element.
LEMMA AppendSeq ==
  ASSUME NEW s, IsSeq(s), NEW x
  PROVE  /\ IsSeq(Append(s, x))
         /\ Elems(Append(s, x)) = Elems(s) \cup {x}
         /\ Messages(Append(s, x)) \subseteq Messages(s) \cup {x}
         /\ x.type # "hs" => Messages(Append(s, x)) = Messages(s)
  <1> DEFINE T == Elems(s) \cup {x}
             a == Append(s, x)
  <1>1. s \in Seq(T) /\ x \in T
    <2>1. s \in Seq(Elems(s))
      BY DEF IsSeq
    <2> HIDE DEF T
    <2>2. Elems(s) \subseteq T /\ x \in T
      BY DEF T
    <2> QED BY <2>1, <2>2
  <1> HIDE DEF T
  <1>2. /\ a \in Seq(T) /\ Len(a) = Len(s) + 1
        /\ \A i \in 1..Len(s) : a[i] = s[i]
        /\ a[Len(s) + 1] = x
    BY <1>1
  <1>3. Len(s) \in Nat
    BY <1>1
  <1>4. IsSeq(a)
    BY <1>2, SeqOf
  <1> HIDE DEF a
  <1>5. Elems(a) = Elems(s) \cup {x}
    BY <1>2, <1>3 DEF Elems
  <1>6. Messages(a) \subseteq Messages(s) \cup {x}
    BY <1>2, <1>3 DEF Messages
  <1>7. Messages(s) \subseteq Messages(a)
    BY <1>2, <1>3 DEF Messages
  <1>8. x.type # "hs" => Messages(a) \subseteq Messages(s)
    BY <1>2, <1>3 DEF Messages
  <1> QED BY <1>4, <1>5, <1>6, <1>7, <1>8 DEF a

\* The elements of a concatenation are those of its parts.
LEMMA ConcatSeq ==
  ASSUME NEW s, IsSeq(s), NEW t, IsSeq(t)
  PROVE  IsSeq(s \o t) /\ Messages(s \o t) \subseteq Messages(s) \cup Messages(t)
  <1> DEFINE T == Elems(s) \cup Elems(t)
             a == s \o t
  <1>1. s \in Seq(T) /\ t \in Seq(T)
    <2>1. s \in Seq(Elems(s)) /\ t \in Seq(Elems(t))
      BY DEF IsSeq
    <2> HIDE DEF T
    <2>2. Elems(s) \subseteq T /\ Elems(t) \subseteq T
      BY DEF T
    <2> QED BY <2>1, <2>2
  <1> HIDE DEF T
  <1>2. /\ a \in Seq(T) /\ Len(a) = Len(s) + Len(t)
        /\ \A i \in 1..Len(a) : a[i] = IF i <= Len(s) THEN s[i] ELSE t[i - Len(s)]
    BY <1>1, ConcatProperties
  <1>3. Len(s) \in Nat /\ Len(t) \in Nat
    BY <1>1
  <1>4. IsSeq(a)
    BY <1>2, SeqOf
  <1> HIDE DEF a
  <1>6. Messages(a) \subseteq Messages(s) \cup Messages(t)
    <2> SUFFICES ASSUME NEW i \in 1..Len(a), a[i].type = "hs"
                 PROVE  a[i] \in Messages(s) \cup Messages(t)
      BY DEF Messages
    <2>1. CASE i <= Len(s)
      BY <2>1, <1>2, <1>3 DEF Messages
    <2>2. CASE i > Len(s)
      <3>1. i - Len(s) \in 1..Len(t) /\ a[i] = t[i - Len(s)]
        BY <2>2, <1>2, <1>3
      <3> QED BY <3>1 DEF Messages
    <2> QED BY <2>1, <2>2, <1>3
  <1> QED BY <1>4, <1>6 DEF a

\* A part of a sequence has no other elements.
LEMMA PartSeq ==
  ASSUME NEW s, IsSeq(s), NEW m \in Nat \ {0}, NEW n \in Nat, n <= Len(s)
  PROVE  IsSeq(SubSeq(s, m, n)) /\ Messages(SubSeq(s, m, n)) \subseteq Messages(s)
  <1> DEFINE T == Elems(s)
             a == SubSeq(s, m, n)
  <1>1. s \in Seq(T)
    BY DEF IsSeq
  <1> HIDE DEF T
  <1>2. /\ a \in Seq(T) /\ Len(a) = IF m <= n THEN n - m + 1 ELSE 0
        /\ \A i \in 1..Len(a) : a[i] = s[m + i - 1]
    BY <1>1, SubSeqProperties
  <1>3. Len(s) \in Nat
    BY <1>1
  <1>4. IsSeq(a)
    BY <1>2, SeqOf
  <1> HIDE DEF a
  <1>6. Messages(a) \subseteq Messages(s)
    <2> SUFFICES ASSUME NEW i \in 1..Len(a), a[i].type = "hs"
                 PROVE  a[i] \in Messages(s)
      BY DEF Messages
    <2>1. m + i - 1 \in 1..Len(s) /\ a[i] = s[m + i - 1]
      BY <1>2, <1>3
    <2> QED BY <2>1 DEF Messages
  <1> QED BY <1>4, <1>6 DEF a

\* The head and the tail.
LEMMA HeadTail ==
  ASSUME NEW s, IsSeq(s), s # <<>>
  PROVE  /\ Head(s).type = "hs" => Head(s) \in Messages(s)
         /\ IsSeq(Tail(s)) /\ Messages(Tail(s)) \subseteq Messages(s)
  <1> DEFINE T == Elems(s)
             a == Tail(s)
  <1>1. s \in Seq(T)
    BY DEF IsSeq
  <1> HIDE DEF T
  <1>2. /\ a \in Seq(T) /\ Len(a) = Len(s) - 1 /\ Len(s) \in Nat \ {0}
        /\ \A i \in 1..Len(a) : a[i] = s[i + 1]
        /\ Head(s) = s[1]
    BY <1>1
  <1>4. IsSeq(a)
    BY <1>2, SeqOf
  <1> HIDE DEF a
  <1>6. Messages(a) \subseteq Messages(s)
    BY <1>2 DEF Messages
  <1>7. Head(s).type = "hs" => Head(s) \in Messages(s)
    BY <1>2 DEF Messages
  <1> QED BY <1>4, <1>6, <1>7 DEF a

-----------------------------------------------------------------------------
(* The cases of the engines, by position.                                    *)

At(p, e) == Engine(p, e.prog)[e.pc]

\* The lengths of the engines.
LEMMA Lengths ==
  /\ Len(Engine("client", "start")) = 3 /\ Len(Engine("server", "start")) = 1
  /\ Len(Engine("client", "13")) = 18 /\ Len(Engine("server", "13")) = 23
  /\ Len(Engine("client", "12")) = 17 /\ Len(Engine("server", "12")) = 15
  /\ Len(Engine("client", "12r")) = 9 /\ Len(Engine("server", "12r")) = 8
  /\ Len(Engine("client", "reauth")) = 3 /\ Len(Engine("server", "reauth")) = 4
  /\ Len(Engine("server", "ticket")) = 1
  /\ Len(Engine("client", "none")) = 0 /\ Len(Engine("server", "none")) = 0
  <1>1. Len(ClientHellos) = 3 /\ Len(Client13) = 18 /\ Len(Server13) = 23
    BY DEF ClientHellos, Client13, Server13
  <1>2. Len(Client12) = 17 /\ Len(Server12) = 15
    BY DEF ClientHellos, Client12, Server12, SendFinal, RecvFinal
  <1>3. Len(Client12Resumed) = 9 /\ Len(Server12Resumed) = 8
    BY DEF ClientHellos, Client12Resumed, Server12Resumed, SendFinal, RecvFinal
  <1>4. Len(ClientReauth) = 3 /\ Len(ServerReauth) = 4 /\ Len(ServerTicket) = 1
    BY DEF ClientReauth, ServerReauth, ServerTicket
  <1> QED BY <1>1, <1>2, <1>3, <1>4 DEF Engine

\* The first steps of both endpoints.
LEMMA StartSteps ==
  ASSUME NEW e, e.prog = "start"
  PROVE  /\ e.pc = 1 => At("client", e) = S(1, "send", "ClientHello")
         /\ e.pc = 2 => At("client", e) = S(2, "recv", "HelloRetryRequest")
         /\ e.pc = 3 => At("client", e) = S(3, "recv", "ServerHello")
         /\ e.pc = 1 => At("server", e) = S(1, "recv", "ClientHello")
  BY DEF At, Engine, ClientHellos

\* The steps of the TLS 1.3 client.
LEMMA Client13Steps ==
  ASSUME NEW e, e.prog = "13"
  PROVE  LET s == At("client", e)
         IN  /\ e.pc = 4 => s = S(100, "ccs", "ccs")
             /\ e.pc = 5 => s = S(101, "do", "early_keys")
             /\ e.pc = 6 => s = S(102, "send", "EarlyData")
             /\ e.pc = 7 => s = S(103, "do", "hs_keys")
             /\ e.pc = 8 => s = S(104, "recv", "EncryptedExtensions")
             /\ e.pc = 9 => s = S(105, "recv", "CertificateRequest")
             /\ e.pc = 10 => s = S(106, "recv", "Certificate")
             /\ e.pc = 11 => s = S(107, "recv", "CertificateVerify")
             /\ e.pc = 12 => s = S(109, "recv", "Finished")
             /\ e.pc = 13 => s = S(110, "send", "EndOfEarlyData")
             /\ e.pc = 14 => s = S(110, "do", "end_early")
             /\ e.pc = 15 => s = S(111, "send", "Certificate")
             /\ e.pc = 16 => s = S(112, "send", "CertificateVerify")
             /\ e.pc = 17 => s = S(113, "send", "Finished")
             /\ e.pc = 18 => s = S(114, "do", "app_keys")
  BY DEF At, Engine, ClientHellos, Client13

\* The steps of the TLS 1.3 server.
LEMMA Server13Steps ==
  ASSUME NEW e, e.prog = "13"
  PROVE  LET s == At("server", e)
         IN  /\ e.pc = 2 => s = S(90, "do", "synth")
             /\ e.pc = 3 => s = S(91, "send", "HelloRetryRequest")
             /\ e.pc = 4 => s = S(92, "ccs", "ccs")
             /\ e.pc = 5 => s = S(93, "recv", "ClientHello")
             /\ e.pc = 6 => s = S(94, "send", "ServerHello")
             /\ e.pc = 7 => s = S(100, "ccs", "ccs")
             /\ e.pc = 8 => s = S(101, "do", "hs_keys")
             /\ e.pc = 9 => s = S(102, "send", "EncryptedExtensions")
             /\ e.pc = 10 => s = S(103, "send", "CertificateRequest")
             /\ e.pc = 11 => s = S(104, "send", "Certificate")
             /\ e.pc = 12 => s = S(105, "send", "CertificateVerify")
             /\ e.pc = 13 => s = S(106, "send", "Finished")
             /\ e.pc = 14 => s = S(107, "recv", "EndOfEarlyData")
             /\ e.pc = 15 => s = S(107, "do", "end_early")
             /\ e.pc = 16 => s = S(108, "do", "app_keys")
             /\ e.pc = 17 => s = S(109, "send", "NewSessionTicket")
             /\ e.pc = 18 => s = S(109, "do", "start")
             /\ e.pc = 19 => s = S(110, "recv", "Certificate")
             /\ e.pc = 20 => s = S(111, "recv", "CertificateVerify")
             /\ e.pc = 21 => s = S(113, "recv", "Finished")
             /\ e.pc = 22 => s = S(114, "do", "read_keys")
             /\ e.pc = 23 => s = S(115, "send", "NewSessionTicket")
  BY DEF At, Engine, Server13

\* The steps of the TLS 1.2 client.
LEMMA Client12Steps ==
  ASSUME NEW e
  PROVE  LET s == At("client", e)
         IN  /\ e.prog = "12" =>
                /\ e.pc = 4 => s = S(6, "recv", "Certificate")
                /\ e.pc = 5 => s = S(9, "recv", "ServerKeyExchange")
                /\ e.pc = 6 => s = S(10, "recv", "CertificateRequest")
                /\ e.pc = 7 => s = S(11, "recv", "ServerHelloDone")
                /\ e.pc = 8 => s = S(13, "send", "Certificate")
                /\ e.pc = 9 => s = S(14, "send", "ClientKeyExchange")
                /\ e.pc = 10 => s = S(15, "send", "CertificateVerify")
                /\ e.pc = 11 => s = S(16, "ccs", "ccs")
                /\ e.pc = 12 => s = S(16, "do", "write12")
                /\ e.pc = 13 => s = S(16, "send", "Finished")
                /\ e.pc = 14 => s = S(17, "do", "start")
                /\ e.pc = 15 => s = S(18, "recv", "NewSessionTicket")
                /\ e.pc = 16 => s = S(19, "recvccs", "ccs")
                /\ e.pc = 17 => s = S(19, "recv", "Finished")
             /\ e.prog = "12r" =>
                /\ e.pc = 4 => s = S(16, "recv", "NewSessionTicket")
                /\ e.pc = 5 => s = S(18, "recvccs", "ccs")
                /\ e.pc = 6 => s = S(18, "recv", "Finished")
                /\ e.pc = 7 => s = S(19, "ccs", "ccs")
                /\ e.pc = 8 => s = S(19, "do", "write12")
                /\ e.pc = 9 => s = S(19, "send", "Finished")
  <1>1. /\ Client12[1] = S(1, "send", "ClientHello")
        /\ Client12[2] = S(2, "recv", "HelloRetryRequest")
        /\ Client12[3] = S(3, "recv", "ServerHello")
        /\ Client12[4] = S(6, "recv", "Certificate")
        /\ Client12[5] = S(9, "recv", "ServerKeyExchange")
        /\ Client12[6] = S(10, "recv", "CertificateRequest")
        /\ Client12[7] = S(11, "recv", "ServerHelloDone")
        /\ Client12[8] = S(13, "send", "Certificate")
        /\ Client12[9] = S(14, "send", "ClientKeyExchange")
        /\ Client12[10] = S(15, "send", "CertificateVerify")
        /\ Client12[11] = S(16, "ccs", "ccs")
        /\ Client12[12] = S(16, "do", "write12")
        /\ Client12[13] = S(16, "send", "Finished")
        /\ Client12[14] = S(17, "do", "start")
        /\ Client12[15] = S(18, "recv", "NewSessionTicket")
        /\ Client12[16] = S(19, "recvccs", "ccs")
        /\ Client12[17] = S(19, "recv", "Finished")
    BY DEF ClientHellos, Client12, SendFinal, RecvFinal
  <1>2. /\ Client12Resumed[1] = S(1, "send", "ClientHello")
        /\ Client12Resumed[2] = S(2, "recv", "HelloRetryRequest")
        /\ Client12Resumed[3] = S(3, "recv", "ServerHello")
        /\ Client12Resumed[4] = S(16, "recv", "NewSessionTicket")
        /\ Client12Resumed[5] = S(18, "recvccs", "ccs")
        /\ Client12Resumed[6] = S(18, "recv", "Finished")
        /\ Client12Resumed[7] = S(19, "ccs", "ccs")
        /\ Client12Resumed[8] = S(19, "do", "write12")
        /\ Client12Resumed[9] = S(19, "send", "Finished")
    BY DEF ClientHellos, Client12Resumed, SendFinal, RecvFinal
  <1> QED BY <1>1, <1>2 DEF At, Engine

\* The steps of the TLS 1.2 server.
LEMMA Server12Steps ==
  ASSUME NEW e
  PROVE  LET s == At("server", e)
         IN  /\ e.prog = "12" =>
                /\ e.pc = 2 => s = S(3, "send", "ServerHello")
                /\ e.pc = 3 => s = S(5, "send", "Certificate")
                /\ e.pc = 4 => s = S(7, "send", "ServerKeyExchange")
                /\ e.pc = 5 => s = S(8, "send", "CertificateRequest")
                /\ e.pc = 6 => s = S(9, "send", "ServerHelloDone")
                /\ e.pc = 7 => s = S(11, "recv", "Certificate")
                /\ e.pc = 8 => s = S(13, "recv", "ClientKeyExchange")
                /\ e.pc = 9 => s = S(14, "recv", "CertificateVerify")
                /\ e.pc = 10 => s = S(15, "recvccs", "ccs")
                /\ e.pc = 11 => s = S(15, "recv", "Finished")
                /\ e.pc = 12 => s = S(16, "send", "NewSessionTicket")
                /\ e.pc = 13 => s = S(17, "ccs", "ccs")
                /\ e.pc = 14 => s = S(17, "do", "write12")
                /\ e.pc = 15 => s = S(17, "send", "Finished")
             /\ e.prog = "12r" =>
                /\ e.pc = 2 => s = S(3, "send", "ServerHello")
                /\ e.pc = 3 => s = S(15, "ccs", "ccs")
                /\ e.pc = 4 => s = S(15, "do", "write12")
                /\ e.pc = 5 => s = S(15, "send", "Finished")
                /\ e.pc = 6 => s = S(16, "send", "NewSessionTicket")
                /\ e.pc = 7 => s = S(17, "recvccs", "ccs")
                /\ e.pc = 8 => s = S(17, "recv", "Finished")
  <1>1. /\ Server12[1] = S(1, "recv", "ClientHello")
        /\ Server12[2] = S(3, "send", "ServerHello")
        /\ Server12[3] = S(5, "send", "Certificate")
        /\ Server12[4] = S(7, "send", "ServerKeyExchange")
        /\ Server12[5] = S(8, "send", "CertificateRequest")
        /\ Server12[6] = S(9, "send", "ServerHelloDone")
        /\ Server12[7] = S(11, "recv", "Certificate")
        /\ Server12[8] = S(13, "recv", "ClientKeyExchange")
        /\ Server12[9] = S(14, "recv", "CertificateVerify")
        /\ Server12[10] = S(15, "recvccs", "ccs")
        /\ Server12[11] = S(15, "recv", "Finished")
        /\ Server12[12] = S(16, "send", "NewSessionTicket")
        /\ Server12[13] = S(17, "ccs", "ccs")
        /\ Server12[14] = S(17, "do", "write12")
        /\ Server12[15] = S(17, "send", "Finished")
    BY DEF Server12, SendFinal, RecvFinal
  <1>2. /\ Server12Resumed[1] = S(1, "recv", "ClientHello")
        /\ Server12Resumed[2] = S(3, "send", "ServerHello")
        /\ Server12Resumed[3] = S(15, "ccs", "ccs")
        /\ Server12Resumed[4] = S(15, "do", "write12")
        /\ Server12Resumed[5] = S(15, "send", "Finished")
        /\ Server12Resumed[6] = S(16, "send", "NewSessionTicket")
        /\ Server12Resumed[7] = S(17, "recvccs", "ccs")
        /\ Server12Resumed[8] = S(17, "recv", "Finished")
    BY DEF Server12Resumed, SendFinal, RecvFinal
  <1> QED BY <1>1, <1>2 DEF At, Engine

\* The steps of a re-authentication and of a later ticket.
LEMMA LaterSteps ==
  ASSUME NEW e
  PROVE  /\ e.prog = "reauth" =>
              /\ e.pc = 1 => At("client", e) = S(202, "send", "Certificate")
              /\ e.pc = 2 => At("client", e) = S(203, "send", "CertificateVerify")
              /\ e.pc = 3 => At("client", e) = S(204, "send", "Finished")
              /\ e.pc = 1 => At("server", e) = S(201, "send", "CertificateRequest")
              /\ e.pc = 2 => At("server", e) = S(202, "recv", "Certificate")
              /\ e.pc = 3 => At("server", e) = S(203, "recv", "CertificateVerify")
              /\ e.pc = 4 => At("server", e) = S(205, "recv", "Finished")
         /\ e.prog = "ticket" /\ e.pc = 1 => At("server", e) = S(301, "send", "NewSessionTicket")
  BY DEF At, Engine, ClientReauth, ServerReauth, ServerTicket

-----------------------------------------------------------------------------
(* What a step of endpoint p from e to f may not undo, and what it may not   *)
(* reach without a word from the peer.                                       *)

Frozen(p, e, f) ==
    /\ p = "server" /\ Beyond(e, "13", 9) =>
          Beyond(f, "13", 9) /\ (Has(f, "accepted") <=> Has(e, "accepted"))
    /\ p = "server" /\ RmsFixed(e) => RmsFixed(f) /\ f.rms = e.rms
    /\ p = "server" /\ mode.vers = 13 /\ Did(e, "13", 13) =>
          Did(f, "13", 13) /\ f.mark = e.mark /\ f.psk = e.psk
    /\ p = "client" /\ mode.vers = 13 /\ Beyond(e, "13", 12) =>
          Beyond(f, "13", 12) /\ f.mark = e.mark /\ f.psk = e.psk
    /\ p = "client" /\ mode.vers = 13 /\ Beyond(e, "13", 8) =>
          Beyond(f, "13", 8) /\ (Has(f, "accepted") <=> Has(e, "accepted"))
    /\ p = LastSender /\ Did(e, Version, LastSend) =>
          /\ Did(f, Version, LastSend) /\ Full(f) = Full(e)
          /\ mode.vers = 12 => f.keys[1].w = e.keys[1].w
    /\ p # LastSender /\ Beyond(e, Version, LastRecv) =>
          /\ Beyond(f, Version, LastRecv) /\ Full(f) = Full(e)
          /\ mode.vers = 12 => f.keys[1].w = e.keys[1].w

NoCross(p, e, f) ==
    /\ p # LastSender /\ Beyond(f, Version, LastRecv) => Beyond(e, Version, LastRecv)
    /\ p = "client" /\ mode.vers = 13 /\ Beyond(f, "13", 12) => Beyond(e, "13", 12)
    /\ p = "client" /\ mode.vers = 13 /\ Beyond(f, "13", 8) => Beyond(e, "13", 8)
    /\ f.tickets = e.tickets

SameControl(e, f) == f.prog = e.prog /\ f.pc = e.pc /\ (f.again <=> e.again)
SameEpochs(e, f) == /\ f.keys = e.keys /\ f.min = e.min /\ f.next = e.next
                    /\ f.re = e.re /\ f.we = e.we
SameSecrets(e, f) == /\ f.tr = e.tr /\ f.mark = e.mark /\ f.psk = e.psk
                     /\ f.saved = e.saved /\ f.rms = e.rms
SameBuffers(e, f) == f.q = e.q /\ f.out = e.out /\ f.wire = e.wire

\* Nothing is undone, and nothing reached, in two steps if in neither.
LEMMA Chained ==
  ASSUME NEW p, NEW e, NEW f, NEW g, Frozen(p, e, f), Frozen(p, f, g)
  PROVE  /\ Frozen(p, e, g)
         /\ NoCross(p, e, f) /\ NoCross(p, f, g) => NoCross(p, e, g)
  BY DEF Frozen, NoCross

\* The agreement of the endpoints survives what does not undo it.
LEMMA PairKept ==
  ASSUME NEW c, NEW s, NEW c2, NEW s2, Pair(c, s),
         Frozen("client", c, c2), NoCross("client", c, c2),
         Frozen("server", s, s2), NoCross("server", s, s2)
  PROVE  Pair(c2, s2)
  BY DEF Pair, Frozen, NoCross, LastSender

\* Changes that concern neither the position nor the secrets undo nothing.
LEMMA SameFrozen ==
  ASSUME NEW p, NEW e, NEW f, SameControl(e, f), SameSecrets(e, f), f.flags = e.flags,
         f.keys = e.keys, f.tickets = e.tickets
  PROVE  Frozen(p, e, f) /\ NoCross(p, e, f)
  <1>1. \A prog, n : (Beyond(f, prog, n) <=> Beyond(e, prog, n)) /\ (Did(f, prog, n) <=> Did(e, prog, n))
    BY DEF SameControl, Beyond, Did, Past
  <1>2. Full(f) = Full(e) /\ (RmsFixed(f) <=> RmsFixed(e))
    BY <1>1 DEF SameControl, SameSecrets, Full, Past, RmsFixed, Has
  <1> QED BY <1>1, <1>2 DEF Frozen, NoCross, SameSecrets, Has

\* The messages under way stay true: those that were there before, those that
\* were queued, and new ones that are true themselves.
LEMMA ItemsStep ==
  ASSUME NEW p, NEW e, NEW m, ItemsOK(p, e), Frozen(p, e, m),
         IsSeq(m.q), IsSeq(m.out), IsSeq(m.wire),
         \A x \in Messages(m.q) : \/ x \in Messages(e.q)
                                  \/ Told(p, m, x) /\ x.msg # "Finished",
         \A y \in Sent(m) :
            \/ y \in Sent(e)
            \/ \E x \in Messages(e.q) : y.msg = x.msg /\ y.info = x.info /\ y.ctx = x.ctx
            \/ Told(p, m, y) /\ (y.msg = "Finished" => FinishedOK(p, m, y))
  PROVE  ItemsOK(p, m)
  <1>1. ASSUME NEW x, Told(p, e, x) PROVE Told(p, m, x)
    BY <1>1 DEF Told, Frozen, Has
  <1>2. ASSUME NEW x, FinishedOK(p, e, x) PROVE FinishedOK(p, m, x)
    BY <1>2 DEF FinishedOK, Frozen
  <1>3. ASSUME NEW x \in Messages(m.q) PROVE Told(p, m, x) /\ x.msg # "Finished"
    BY <1>3, <1>1 DEF ItemsOK
  <1>4. ASSUME NEW y \in Sent(m) PROVE Told(p, m, y) /\ (y.msg = "Finished" => FinishedOK(p, m, y))
    <2>1. CASE y \in Sent(e)
      BY <2>1, <1>1, <1>2 DEF ItemsOK
    <2>2. CASE \E x \in Messages(e.q) : y.msg = x.msg /\ y.info = x.info /\ y.ctx = x.ctx
      <3>1. PICK x \in Messages(e.q) : y.msg = x.msg /\ y.info = x.info /\ y.ctx = x.ctx
        BY <2>2
      <3>2. Told(p, m, x) /\ x.msg # "Finished"
        BY <1>1 DEF ItemsOK
      <3> QED BY <3>1, <3>2 DEF Told
    <2> QED BY <2>1, <2>2
  <1> QED BY <1>3, <1>4 DEF ItemsOK

-----------------------------------------------------------------------------
(* Moving on.                                                                *)

Moved(f) == [f EXCEPT !.again = FALSE, !.pc = @ + 1]

\* The fields of a session that moved on.
LEMMA MovedFields ==
  ASSUME NEW f, DOMAIN f = Fields
  PROVE  LET m == Moved(f)
         IN  /\ DOMAIN m = Fields
             /\ m.pc = f.pc + 1 /\ m.again = FALSE /\ m.prog = f.prog
             /\ SameEpochs(f, m) /\ SameSecrets(f, m) /\ SameBuffers(f, m)
             /\ m.flags = f.flags /\ m.tickets = f.tickets /\ m.err = f.err
  BY DEF Moved, Fields, SameEpochs, SameSecrets, SameBuffers

\* The versions, the engines that run in them and the positions they reach.
LEMMA Where ==
  ASSUME NEW p \in Ends, NEW e, Versions, Control(p, e)
  PROVE  /\ Version \in {"13", "12", "12r"} /\ (Version = "13" <=> mode.vers = 13)
         /\ e.prog \in {"start", "13", "12", "12r", "none", "reauth", "ticket"}
         /\ e.prog \in {"13", "12", "12r"} => e.prog = Version
         /\ e.prog = "ticket" => p = "server"
         /\ e.prog \in {"reauth", "ticket"} => mode.vers = 13
         /\ e.pc \in Nat /\ e.pc >= 1
         /\ e.prog = "start" => e.pc <= IF p = "client" THEN 4 ELSE 2
         /\ e.prog = "13" => IF p = "client" THEN e.pc \in 4..19 ELSE e.pc \in 2..24
         /\ e.prog = "12" => IF p = "client" THEN e.pc \in 4..18 ELSE e.pc \in 2..16
         /\ e.prog = "12r" => IF p = "client" THEN e.pc \in 4..10 ELSE e.pc \in 2..9
         /\ e.prog = "reauth" => IF p = "client" THEN e.pc \in 1..4 ELSE e.pc \in 1..5
         /\ e.prog = "ticket" => e.pc \in 1..2
         /\ e.prog = "none" => e.pc = 1
         /\ Past(e) <=> e.prog \in {"none", "reauth", "ticket"}
  <1>1. Version \in {"13", "12", "12r"} /\ (Version = "13" <=> mode.vers = 13)
    BY DEF Version, Versions
  <1>2. e.prog \in {"start", "13", "12", "12r", "none", "reauth", "ticket"}
    BY <1>1 DEF Control
  <1>3. p = "client" \/ p = "server"
    BY DEF Ends
  <1>4. e.pc \in 1..(Len(Engine(p, e.prog)) + 1)
    BY DEF Control
  <1>5. e.prog = Version => e.pc >= IF p = "client" THEN 4 ELSE 2
    BY DEF Control
  <1>6. /\ e.prog \in {"13", "12", "12r"} => e.prog = Version
        /\ e.prog = "ticket" => p = "server"
        /\ e.prog \in {"reauth", "ticket"} => mode.vers = 13
        /\ Past(e) <=> e.prog \in {"none", "reauth", "ticket"}
    BY <1>1, <1>2 DEF Control, Past
  <1>7. e.pc \in Nat /\ e.pc >= 1
    <2> DEFINE n == Len(Engine(p, e.prog))
    <2>1. n \in Nat
      BY <1>2, <1>3, <1>6, Lengths
    <2> HIDE DEF n
    <2> QED BY <2>1, <1>4 DEF n
  <1>8. ASSUME p = "client"
        PROVE  /\ e.prog = "start" => e.pc <= 4
               /\ e.prog = "13" => e.pc \in 4..19
               /\ e.prog = "12" => e.pc \in 4..18
               /\ e.prog = "12r" => e.pc \in 4..10
               /\ e.prog = "reauth" => e.pc \in 1..4
               /\ e.prog = "none" => e.pc = 1
    <2> DEFINE n == Len(Engine(p, e.prog))
    <2>1. /\ e.prog = "start" => n = 3
          /\ e.prog = "13" => n = 18
          /\ e.prog = "12" => n = 17
          /\ e.prog = "12r" => n = 9
          /\ e.prog = "reauth" => n = 3
          /\ e.prog = "none" => n = 0
      BY <1>8, Lengths
    <2>2. e.pc \in 1..(n + 1) /\ (e.prog = Version => e.pc >= 4)
      BY <1>4, <1>5, <1>8
    <2> HIDE DEF n
    <2> QED BY <2>1, <2>2, <1>6, <1>7
  <1>9. ASSUME p = "server"
        PROVE  /\ e.prog = "start" => e.pc <= 2
               /\ e.prog = "13" => e.pc \in 2..24
               /\ e.prog = "12" => e.pc \in 2..16
               /\ e.prog = "12r" => e.pc \in 2..9
               /\ e.prog = "reauth" => e.pc \in 1..5
               /\ e.prog = "ticket" => e.pc \in 1..2
               /\ e.prog = "none" => e.pc = 1
    <2> DEFINE n == Len(Engine(p, e.prog))
    <2>1. /\ e.prog = "start" => n = 1
          /\ e.prog = "13" => n = 23
          /\ e.prog = "12" => n = 15
          /\ e.prog = "12r" => n = 8
          /\ e.prog = "reauth" => n = 4
          /\ e.prog = "ticket" => n = 1
          /\ e.prog = "none" => n = 0
      BY <1>9, Lengths
    <2>2. e.pc \in 1..(n + 1) /\ (e.prog = Version => e.pc >= 2)
      BY <1>4, <1>5, <1>9
    <2> HIDE DEF n
    <2> QED BY <2>1, <2>2, <1>6, <1>7
  <1> QED BY <1>1, <1>2, <1>3, <1>6, <1>7, <1>8, <1>9

LeastOf(live) == CHOOSE i \in live : \A j \in live : i <= j

\* The fields at the end of a handshake, of a re-authentication and of a ticket.
LEMMA CompleteFields ==
  ASSUME NEW f, DOMAIN f = Fields
  PROVE  LET g == Complete([f EXCEPT !.again = FALSE])
         IN  /\ DOMAIN g = Fields
             /\ g.prog = "none" /\ g.pc = 1 /\ g.again = FALSE
             /\ g.mark = f.mark /\ g.psk = f.psk /\ g.rms = f.rms /\ g.flags = f.flags
             /\ g.re = f.re /\ g.we = f.we /\ SameBuffers(f, g) /\ g.tickets = f.tickets
             /\ f.prog \in {"ticket", "reauth"} =>
                   g.keys = f.keys /\ g.min = f.min /\ g.saved = f.saved
             /\ f.prog \notin {"ticket", "reauth"} =>
                   /\ g.saved = f.tr
                   /\ \E live \in SUBSET DOMAIN f.keys :
                         /\ DOMAIN f.keys \cap {f.re, f.we} \subseteq live
                         /\ DOMAIN g.keys = live
                         /\ \A i \in live : g.keys[i] = f.keys[i]
                         /\ g.min = LeastOf(live)
  <1> DEFINE a == [f EXCEPT !.again = FALSE]
             g == Complete(a)
             b == [a EXCEPT !.prog = "none", !.pc = 1, !.started = FALSE, !.done = TRUE,
                            !.saved = a.tr, !.tr = <<>>]
  <1>1. CASE f.prog = "ticket"
    BY <1>1 DEF Complete, Fields, SameBuffers
  <1>2. CASE f.prog = "reauth"
    BY <1>2 DEF Complete, Fields, SameBuffers
  <1>3. CASE f.prog \notin {"ticket", "reauth"}
    <2>1. g = GcBump(b)
      BY <1>3 DEF Complete, Fields
    <2>2. /\ DOMAIN b = Fields /\ b.prog = "none" /\ b.pc = 1 /\ b.again = FALSE
          /\ b.mark = f.mark /\ b.psk = f.psk /\ b.rms = f.rms /\ b.flags = f.flags
          /\ b.re = f.re /\ b.we = f.we /\ b.keys = f.keys /\ b.next = f.next
          /\ b.q = f.q /\ b.out = f.out /\ b.wire = f.wire
          /\ b.saved = f.tr /\ b.tickets = f.tickets
      BY DEF Fields
    <2> HIDE DEF b
    <2> DEFINE used == {b.re, b.we, b.next} \cup {b.q[i].epoch : i \in 1..Len(b.q)}
               live == DOMAIN b.keys \cap used
    <2>3. g = [b EXCEPT !.keys = [i \in live |-> b.keys[i]],
                        !.min = LeastOf(live),
                        !.next = @ + 1]
      BY <2>1 DEF GcBump, LeastOf
    <2>4. live \in SUBSET DOMAIN f.keys /\ DOMAIN f.keys \cap {f.re, f.we} \subseteq live
      BY <2>2
    <2> HIDE DEF live, g
    <2>5. /\ DOMAIN g = Fields
          /\ g.prog = "none" /\ g.pc = 1 /\ g.again = FALSE
          /\ g.mark = f.mark /\ g.psk = f.psk /\ g.rms = f.rms /\ g.flags = f.flags
          /\ g.re = f.re /\ g.we = f.we /\ SameBuffers(f, g) /\ g.tickets = f.tickets
          /\ g.saved = f.tr
      BY <2>2, <2>3 DEF Fields, SameBuffers
    <2>6. /\ DOMAIN g.keys = live
          /\ \A i \in live : g.keys[i] = f.keys[i]
          /\ g.min = LeastOf(live)
      BY <2>2, <2>3 DEF Fields
    <2>7. \E lv \in SUBSET DOMAIN f.keys :
             /\ DOMAIN f.keys \cap {f.re, f.we} \subseteq lv
             /\ DOMAIN g.keys = lv
             /\ \A i \in lv : g.keys[i] = f.keys[i]
             /\ g.min = LeastOf(lv)
      BY <2>4, <2>6
    <2> QED BY <2>5, <2>7, <1>3 DEF g
  <1> QED BY <1>1, <1>2, <1>3

\* A set of a few numbers has a least one, which CHOOSE finds.
LEMMA Least ==
  ASSUME NEW live \in SUBSET (0..3), live # {}
  PROVE  LeastOf(live) \in live /\ \A j \in live : LeastOf(live) <= j
  <1>1. \E i \in live : \A j \in live : i <= j
    <2>1. CASE 0 \in live
      BY <2>1
    <2>2. CASE 0 \notin live /\ 1 \in live
      BY <2>2
    <2>3. CASE 0 \notin live /\ 1 \notin live /\ 2 \in live
      BY <2>3
    <2>4. CASE 0 \notin live /\ 1 \notin live /\ 2 \notin live
      <3>1. \A i \in live : i = 3
        BY <2>4
      <3>2. PICK i \in live : TRUE
        OBVIOUS
      <3>3. \A j \in live : i <= j
        BY <3>1
      <3> QED BY <3>3
    <2> QED BY <2>1, <2>2, <2>3, <2>4
  <1> QED BY <1>1 DEF LeastOf

\* Moving on, at the end of an engine too, keeps the invariant of a session
\* that has done its step.
LEMMA Advanced ==
  ASSUME NEW p \in Ends, NEW f, Versions, DOMAIN f = Fields, f.err = "none",
         f.prog # "none", f.pc \in Nat, f.pc <= Len(Engine(p, f.prog)),
         f.prog = "start" => f.pc < Len(Engine(p, f.prog)),
         Core(p, Moved(f))
  PROVE  LET g == Advance(p, f)
         IN  Local(p, g) /\ Frozen(p, Moved(f), g) /\ NoCross(p, Moved(f), g)
  <1> DEFINE m == Moved(f)
             g == Advance(p, f)
             n == Len(Engine(p, f.prog))
  <1>0. /\ DOMAIN m = Fields
        /\ m.pc = f.pc + 1 /\ m.again = FALSE /\ m.prog = f.prog
        /\ SameEpochs(f, m) /\ SameSecrets(f, m) /\ SameBuffers(f, m)
        /\ m.flags = f.flags /\ m.tickets = f.tickets
    BY MovedFields
  <1>00. p = "client" \/ p = "server"
    BY DEF Ends
  <1>1. CASE f.pc # n
    <2>1. g = m
      BY <1>1 DEF Advance, Moved, Fields
    <2>2. m.pc <= Len(Engine(p, m.prog))
      <3>1. n \in Nat
        BY <1>00, <1>0, Where, Lengths DEF Core
      <3> HIDE DEF n
      <3>2. f.pc + 1 <= n
        BY <3>1, <1>1 DEF n
      <3> QED BY <1>0, <3>2 DEF n
    <2>3. Frozen(p, m, m) /\ NoCross(p, m, m)
      BY SameFrozen DEF SameControl, SameSecrets
    <2> QED BY <1>0, <2>1, <2>2, <2>3 DEF Local
  <1>2. CASE f.pc = n
    <2>1. g = Complete([f EXCEPT !.again = FALSE])
      BY <1>2 DEF Advance, Fields
    <2> HIDE DEF m, g
    <2>2. /\ DOMAIN g = Fields
          /\ g.prog = "none" /\ g.pc = 1 /\ g.again = FALSE
          /\ g.mark = m.mark /\ g.psk = m.psk /\ g.rms = m.rms /\ g.flags = m.flags
          /\ g.re = m.re /\ g.we = m.we /\ SameBuffers(m, g) /\ g.tickets = m.tickets
          /\ f.prog \in {"ticket", "reauth"} =>
                g.keys = m.keys /\ g.min = m.min /\ g.saved = m.saved
          /\ f.prog \notin {"ticket", "reauth"} =>
                /\ g.saved = m.tr
                /\ \E live \in SUBSET DOMAIN m.keys :
                      /\ DOMAIN m.keys \cap {m.re, m.we} \subseteq live
                      /\ DOMAIN g.keys = live
                      /\ \A i \in live : g.keys[i] = m.keys[i]
                      /\ g.min = LeastOf(live)
      <3>1. /\ m.mark = f.mark /\ m.psk = f.psk /\ m.rms = f.rms /\ m.flags = f.flags /\ m.re = f.re
            /\ m.we = f.we /\ m.tickets = f.tickets /\ m.keys = f.keys /\ m.min = f.min
            /\ m.saved = f.saved /\ m.tr = f.tr /\ m.q = f.q /\ m.out = f.out /\ m.wire = f.wire
        BY <1>0 DEF SameEpochs, SameSecrets, SameBuffers
      <3>2. /\ DOMAIN g = Fields
            /\ g.prog = "none" /\ g.pc = 1 /\ g.again = FALSE
            /\ g.mark = f.mark /\ g.psk = f.psk /\ g.rms = f.rms /\ g.flags = f.flags
            /\ g.re = f.re /\ g.we = f.we /\ SameBuffers(f, g) /\ g.tickets = f.tickets
            /\ f.prog \in {"ticket", "reauth"} =>
                  g.keys = f.keys /\ g.min = f.min /\ g.saved = f.saved
            /\ f.prog \notin {"ticket", "reauth"} => g.saved = f.tr
        BY <2>1, CompleteFields
      <3>3. f.prog \notin {"ticket", "reauth"} =>
               \E live \in SUBSET DOMAIN f.keys :
                         /\ DOMAIN f.keys \cap {f.re, f.we} \subseteq live
                         /\ DOMAIN g.keys = live
                         /\ \A i \in live : g.keys[i] = f.keys[i]
                         /\ g.min = LeastOf(live)
        <4> SUFFICES ASSUME f.prog \notin {"ticket", "reauth"}
                     PROVE  \E live \in SUBSET DOMAIN f.keys :
                              /\ DOMAIN f.keys \cap {f.re, f.we} \subseteq live
                              /\ DOMAIN g.keys = live
                              /\ \A i \in live : g.keys[i] = f.keys[i]
                              /\ g.min = LeastOf(live)
          OBVIOUS
        <4> DEFINE k == Complete([f EXCEPT !.again = FALSE])
        <4>1. \E live \in SUBSET DOMAIN f.keys :
                 /\ DOMAIN f.keys \cap {f.re, f.we} \subseteq live
                 /\ DOMAIN k.keys = live
                 /\ \A i \in live : k.keys[i] = f.keys[i]
                 /\ k.min = LeastOf(live)
          BY CompleteFields
        <4> HIDE DEF k
        <4> QED BY <4>1, <2>1 DEF k
      <3> QED BY <3>1, <3>2, <3>3 DEF SameBuffers
    <2>3. Core(p, m)
      BY DEF m
    <2>4. /\ Version \in {"13", "12", "12r"} /\ (Version = "13" <=> mode.vers = 13)
          /\ m.prog \in {"13", "12", "12r", "reauth", "ticket"}
          /\ m.prog \in {"13", "12", "12r"} => m.prog = Version
          /\ m.prog \in {"reauth", "ticket"} => mode.vers = 13
          /\ Past(m) <=> m.prog \in {"reauth", "ticket"}
      BY <2>3, <1>0, <1>2, Where DEF Core
    <2>5. /\ m.prog = "13" => m.pc = IF p = "client" THEN 19 ELSE 24
          /\ m.prog = "12" => m.pc = IF p = "client" THEN 18 ELSE 16
          /\ m.prog = "12r" => m.pc = IF p = "client" THEN 10 ELSE 9
      <3>1. m.pc = n + 1 /\ m.prog = f.prog
        BY <1>0, <1>2
      <3>2. /\ f.prog = "13" => n = IF p = "client" THEN 18 ELSE 23
            /\ f.prog = "12" => n = IF p = "client" THEN 17 ELSE 15
            /\ f.prog = "12r" => n = IF p = "client" THEN 9 ELSE 8
        <4>1. CASE p = "client"
          BY <4>1, Lengths
        <4>2. CASE p = "server"
          BY <4>2, Lengths
        <4> QED BY <4>1, <4>2, <1>00
      <3> HIDE DEF n
      <3> QED BY <3>1, <3>2
    <2>6. Past(g) /\ (\A prog, k : Beyond(g, prog, k) /\ Did(g, prog, k))
      BY <2>2 DEF Past, Beyond, Did
    <2>7. Full(g) = Full(m)
      BY <2>2, <2>4, <2>6, <1>0 DEF Full
    <2>8. Beyond(m, Version, LastRecv) \/ p = LastSender
      BY <2>4, <2>5, <1>00 DEF Beyond, LastRecv, LastSender
    <2>9. p = "client" /\ mode.vers = 13 => Beyond(m, "13", 12) /\ Beyond(m, "13", 8)
      BY <2>4, <2>5, <1>00 DEF Beyond
    <2>10. Control(p, g)
      <3>1. Len(Engine(p, "none")) = 0
        BY <1>00, Lengths
      <3> QED BY <2>2, <2>3, <2>4, <3>1 DEF Core, Control
    <2>11. m.prog \in {"13", "12", "12r"} =>
             /\ \E live \in SUBSET (0..3) :
                 /\ {m.re, m.we} \subseteq live
                 /\ DOMAIN g.keys = live
                 /\ \A i \in live : g.keys[i] = m.keys[i]
                 /\ g.min = LeastOf(live)
      <3> SUFFICES ASSUME m.prog \in {"13", "12", "12r"}
                   PROVE  \E live \in SUBSET (0..3) :
                            /\ {m.re, m.we} \subseteq live
                            /\ DOMAIN g.keys = live
                            /\ \A i \in live : g.keys[i] = m.keys[i]
                            /\ g.min = LeastOf(live)
        OBVIOUS
      <3>1. PICK live \in SUBSET DOMAIN m.keys :
                      /\ DOMAIN m.keys \cap {m.re, m.we} \subseteq live
                      /\ DOMAIN g.keys = live
                      /\ \A i \in live : g.keys[i] = m.keys[i]
                      /\ g.min = LeastOf(live)
        BY <2>2, <1>0
      <3>2. m.next \in 1..3 /\ DOMAIN m.keys = 0..m.next /\ m.re \in 0..m.next /\ m.we \in 0..m.next
        BY <2>3, <2>4 DEF Core, EpochsOK
      <3>3. live \in SUBSET (0..3) /\ {m.re, m.we} \subseteq live
        BY <3>1, <3>2
      <3> QED BY <3>1, <3>3
    <2>12. g.re \in DOMAIN g.keys /\ g.we = g.re /\ g.keys[g.re] = m.keys[m.re]
      <3>1. CASE m.prog \in {"13", "12", "12r"}
        <4>1. m.we = m.re
          <5>1. CASE m.prog = "13"
            BY <5>1, <2>3, <2>5, <1>00 DEF Core, EpochsOK, Client13Epochs, Server13Epochs
          <5>2. CASE m.prog # "13"
            BY <5>2, <3>1, <2>3, <2>5, <1>00 DEF Core, EpochsOK, Epochs12, Write12, Read12
          <5> QED BY <5>1, <5>2
        <4> QED BY <3>1, <4>1, <2>2, <2>11
      <3>2. CASE m.prog \in {"reauth", "ticket"}
        BY <3>2, <2>2, <2>3, <2>4, <1>0 DEF Core, EpochsOK
      <3> QED BY <3>1, <3>2, <2>4
    <2>13. \A i \in DOMAIN g.keys : i - g.min \in 0..3
      <3>1. CASE m.prog \in {"13", "12", "12r"}
        <4>1. PICK live \in SUBSET (0..3) :
                 /\ {m.re, m.we} \subseteq live
                 /\ DOMAIN g.keys = live
                 /\ g.min = LeastOf(live)
          BY <3>1, <2>11
        <4>2. g.min \in live /\ \A j \in live : g.min <= j
          <5>1. live # {}
            BY <4>1
          <5> QED BY <5>1, <4>1, Least
        <4> SUFFICES ASSUME NEW i \in live PROVE i - g.min \in 0..3
          BY <4>1
        <4>3. i \in 0..3 /\ g.min \in 0..3 /\ g.min <= i
          BY <4>2
        <4> QED BY <4>3
      <3>2. CASE m.prog \in {"reauth", "ticket"}
        BY <3>2, <2>2, <2>3, <2>4, <1>0 DEF Core, EpochsOK
      <3> QED BY <3>1, <3>2, <2>4
    <2>14. /\ mode.vers = 13 => g.keys[g.re] = Both(AppKey(g))
           /\ mode.vers = 12 => g.re = 1 /\ g.keys[1].r = g.keys[1].w /\ g.keys[1] = m.keys[1]
      <3>1. AppKey(g) = AppKey(m)
        BY <2>2 DEF AppKey, Key
      <3>2. CASE m.prog = "13"
        BY <3>1, <3>2, <2>3, <2>4, <2>5, <2>12, <1>00, SMTT(40) DEF Core, EpochsOK, Client13Epochs, Server13Epochs, Versions
      <3>3. CASE m.prog \in {"12", "12r"}
        BY <3>3, <2>2, <2>3, <2>4, <2>5, <2>12, <1>00 DEF Core, EpochsOK, Epochs12, Write12, Read12, Versions
      <3>4. CASE m.prog \in {"reauth", "ticket"}
        BY <3>1, <3>4, <2>2, <2>3, <2>4, <2>12, <1>0 DEF Core, EpochsOK
      <3> QED BY <3>2, <3>3, <3>4, <2>4
    <2>15. EpochsOK(p, g)
      BY <2>2, <2>6, <2>12, <2>13, <2>14 DEF EpochsOK
    <2>16. Frozen(p, m, g) /\ NoCross(p, m, g)
      <3>1. mode.vers = 12 => g.keys[1].w = m.keys[1].w
        BY <2>14
      <3>2. RmsFixed(g)
        BY <2>6 DEF RmsFixed
      <3> QED BY <3>1, <3>2, <2>2, <2>6, <2>7, <2>8, <2>9 DEF Frozen, NoCross, Has
    <2>17. ItemsOK(p, g)
      <3>1. Sent(g) = Sent(m) /\ g.q = m.q /\ g.out = m.out /\ g.wire = m.wire
        BY <2>2 DEF Sent, SameBuffers
      <3> QED BY <3>1, <2>3, <2>16, ItemsStep DEF Core, ItemsOK
    <2>18. TranscriptOK(p, g)
      <3>1. Ext(g) = Ext(m) /\ Answer(g) = Answer(m)
        BY <2>2 DEF Ext, Answer, Has
      <3>2. CASE m.prog \in {"reauth", "ticket"}
        BY <3>1, <3>2, <2>2, <2>3, <2>4, <2>6, <2>7, <1>0
           DEF Core, TranscriptOK, ClientTr, ServerTr, Beyond, Has
      <3>3. CASE m.prog \in {"12", "12r"}
        BY <3>1, <3>3, <2>2, <2>3, <2>4, <2>6 DEF Core, TranscriptOK, Versions
      <3>4. CASE m.prog = "13"
        <4>1. CASE p = "client"
          <5>1. ClientTr(m) /\ mode.vers = 13 /\ ~Past(m)
            BY <4>1, <3>4, <2>3, <2>4 DEF Core, TranscriptOK
          <5>2. m.pc = 19 /\ Did(m, "13", 13) /\ Did(m, "13", 17) /\ Beyond(m, "13", 18)
            BY <4>1, <3>4, <2>5 DEF Did, Beyond
          <5>3. Asks \notin Elems(m.mark) => m.tr = Answer(m)
            BY <5>1, <5>2, <3>4 DEF ClientTr
          <5>4. g.rms = Full(g)
            BY <5>1, <5>2, <2>2, <2>7 DEF ClientTr
          <5>5. ClientTr(g)
            BY <5>3, <5>4, <3>1, <2>2, <2>6, <3>4, <1>0 DEF ClientTr
          <5> QED BY <5>1, <5>5, <4>1, <2>6 DEF TranscriptOK
        <4>2. CASE p = "server"
          <5>1. ServerTr(m) /\ mode.vers = 13 /\ ~Past(m)
            BY <4>2, <3>4, <2>3, <2>4 DEF Core, TranscriptOK
          <5>2. Beyond(m, "13", 22) /\ Beyond(m, "13", 16)
            BY <4>2, <3>4, <2>5 DEF Beyond
          <5>3. Beyond(g, "13", 16) /\ Beyond(g, "13", 22)
            BY <2>6
          <5>5. ServerTr(g)
            BY <5>1, <5>2, <5>3, <3>1, <2>2, <2>6, <2>7, <3>4, <1>0 DEF ServerTr, Has
          <5> QED BY <5>1, <5>5, <4>2, <2>6 DEF TranscriptOK
        <4> QED BY <4>1, <4>2, <1>00
      <3> QED BY <3>2, <3>3, <3>4, <2>4
    <2> QED BY <2>2, <2>10, <2>15, <2>16, <2>17, <2>18 DEF Local, Core, m, g
  <1> QED BY <1>1, <1>2

-----------------------------------------------------------------------------
(* Steps that leave the keys and the transcript alone.                       *)

\* Moving on from here needs no keys.
PlainEpochs(p, e) ==
    /\ e.prog = "13" => IF p = "client" THEN e.pc \notin {7, 18} ELSE e.pc \notin {8, 15, 16, 22}
    /\ e.prog \in {"12", "12r"} => e.pc # Write12(p, e.prog) /\ e.pc # Read12(p, e.prog)

\* Moving on from here needs no message.
PlainMessages(p, e) ==
    /\ e.prog = "13" /\ p = "client" => /\ e.pc \notin {8, 12, 18}
                                        /\ e.pc = 13 => e.again \/ ~Has(e, "accepted")
                                        /\ e.pc = 17 => e.again
    /\ e.prog = "13" /\ p = "server" => /\ e.pc \notin {21, 22}
                                        /\ e.pc = 13 => e.again
                                        /\ e.pc = 14 => ~Has(e, "accepted")
    /\ e.prog = "12" /\ p = "client" => e.pc # 17
    /\ e.prog = "12r" /\ p = "server" => e.pc # 8

Stays(e, m) == m.prog = e.prog /\ m.pc = e.pc /\ (m.again <=> e.again)
Moves(e, m) == m.prog = e.prog /\ m.pc = e.pc + 1 /\ m.again = FALSE

SameFlags(e, m) ==
    \A f \in {"accepted", "crt_asked", "crt_req_sent", "early_start_used"} : Has(m, f) <=> Has(e, f)

\* TLS 1.2 keys that a Finished has confirmed are not replaced.
KeysKept(p, e, m) ==
    mode.vers = 12 => \/ m.keys[1].w = e.keys[1].w
                      \/ IF p = LastSender THEN ~Did(e, Version, LastSend)
                                           ELSE ~Beyond(e, Version, LastRecv)

\* A step is followed by another or by the end of the engine.
LEMMA ControlMoved ==
  ASSUME NEW p \in Ends, NEW e, NEW m, Versions, Control(p, e), DOMAIN m = Fields,
         m.prog = e.prog, m.flags \subseteq Flags,
         \/ m.pc = e.pc
         \/ m.pc = e.pc + 1 /\ e.pc <= Len(Engine(p, e.prog))
  PROVE  Control(p, m)
  <1> DEFINE n == Len(Engine(p, e.prog))
  <1>1. n \in Nat /\ e.pc \in 1..(n + 1)
    <2>1. p = "client" \/ p = "server"
      BY DEF Ends
    <2>2. n \in Nat
      BY <2>1, Where, Lengths
    <2> QED BY <2>2 DEF Control
  <1>2. m.pc = e.pc \/ (m.pc = e.pc + 1 /\ e.pc <= n)
    OBVIOUS
  <1> HIDE DEF n
  <1>3. m.pc \in 1..(n + 1) /\ m.pc >= e.pc
    BY <1>1, <1>2
  <1>4. e.prog = Version => m.pc >= (IF p = "client" THEN 4 ELSE 2)
    BY <1>1, <1>3 DEF Control
  <1> QED BY <1>3, <1>4 DEF Control, n

\* The table of epochs is not touched.
LEMMA EpochsKept ==
  ASSUME NEW p \in Ends, NEW e, NEW m, Versions, Control(p, e), EpochsOK(p, e),
         m.prog = e.prog, SameEpochs(e, m),
         m.pc = e.pc \/ (m.pc = e.pc + 1 /\ PlainEpochs(p, e)),
         Past(e) => m.psk = e.psk /\ m.mark = e.mark,
         e.prog = "13" => /\ e.pc >= 8 => m.psk = e.psk
                          /\ e.pc > 16 => m.mark = e.mark
                          /\ e.pc > 8 /\ p = "server" => (Has(m, "accepted") <=> Has(e, "accepted"))
  PROVE  EpochsOK(p, m)
  <1>1. p = "client" \/ p = "server"
    BY DEF Ends
  <1>2. Past(m) <=> Past(e)
    BY DEF Past
  <1>3. m.keys = e.keys /\ m.min = e.min /\ m.next = e.next /\ m.re = e.re /\ m.we = e.we
    BY DEF SameEpochs
  <1>4. Past(e) \/ (e.prog = "13" /\ e.pc > 16) => AppKey(m) = AppKey(e)
    <2>1. e.pc \in Nat
      BY Where
    <2> QED BY <2>1 DEF AppKey, Key
  <1>5. CASE Past(e)
    BY <1>2, <1>3, <1>4, <1>5 DEF EpochsOK, Past
  <1>6. CASE e.prog = "start"
    BY <1>2, <1>3, <1>6 DEF EpochsOK, Past
  <1>7. CASE e.prog \in {"12", "12r"}
    <2>1. Epochs12(p, m)
      <3>1. Epochs12(p, e) /\ e.pc \in Nat
        BY <1>7, Where DEF EpochsOK
      <3>2. Write12(p, m.prog) = Write12(p, e.prog) /\ Write12(p, e.prog) \in Nat
        BY DEF Write12
      <3>3. Read12(p, m.prog) = Read12(p, e.prog) /\ Read12(p, e.prog) \in Nat
        BY DEF Read12
      <3> QED BY <3>1, <3>2, <3>3, <1>3, <1>7 DEF Epochs12, PlainEpochs
    <2> QED BY <2>1, <1>2, <1>3, <1>7 DEF EpochsOK, Past
  <1>8. CASE e.prog = "13" /\ p = "client"
    <2>1. Client13Epochs(e) /\ e.pc \in 4..19
      BY <1>8, Where DEF EpochsOK
    <2>2. Client13Epochs(m)
      BY <2>1, <1>3, <1>4, <1>8 DEF Client13Epochs, PlainEpochs
    <2> QED BY <2>2, <1>2, <1>3, <1>8 DEF EpochsOK, Past
  <1>9. CASE e.prog = "13" /\ p = "server"
    <2>1. Server13Epochs(e) /\ e.pc \in 2..24
      BY <1>9, Where DEF EpochsOK
    <2>2. Server13Epochs(m)
      BY <2>1, <1>3, <1>4, <1>9 DEF Server13Epochs, PlainEpochs
    <2> QED BY <2>2, <1>2, <1>3, <1>9 DEF EpochsOK, Past
  <1> QED BY <1>1, <1>5, <1>6, <1>7, <1>8, <1>9, Where

\* The transcript and what depends on it are not touched.
LEMMA TranscriptKept ==
  ASSUME NEW p \in Ends, NEW e, NEW m, Versions, Control(p, e), TranscriptOK(p, e),
         SameSecrets(e, m), SameFlags(e, m),
         Stays(e, m) \/ (Moves(e, m) /\ PlainMessages(p, e))
  PROVE  TranscriptOK(p, m)
  <1>1. p = "client" \/ p = "server"
    BY DEF Ends
  <1>2. m.tr = e.tr /\ m.mark = e.mark /\ m.rms = e.rms /\ m.saved = e.saved /\ m.prog = e.prog
    BY DEF SameSecrets, Stays, Moves
  <1>3. Past(m) <=> Past(e)
    BY <1>2 DEF Past
  <1>4. /\ Has(m, "accepted") <=> Has(e, "accepted")
        /\ Has(m, "crt_asked") <=> Has(e, "crt_asked")
        /\ Has(m, "crt_req_sent") <=> Has(e, "crt_req_sent")
        /\ Has(m, "early_start_used") <=> Has(e, "early_start_used")
    BY DEF SameFlags
  <1>5. Ext(m) = Ext(e) /\ Answer(m) = Answer(e) /\ Full(m) = Full(e)
    BY <1>2, <1>3, <1>4 DEF Ext, Answer, Full
  <1>6. e.pc \in Nat
    BY Where
  <1>7. CASE p = "client"
    <2>1. mode.vers = 13 => ClientTr(m)
      <3> SUFFICES ASSUME mode.vers = 13 PROVE ClientTr(m)
        OBVIOUS
      <3>1. ClientTr(e)
        BY <1>7 DEF TranscriptOK
      <3>2. CASE Stays(e, m)
        BY <3>1, <3>2, <1>2, <1>3, <1>4, <1>5 DEF ClientTr, Beyond, Did, Stays
      <3>3. CASE Moves(e, m) /\ PlainMessages(p, e)
        <4>1. /\ ~Beyond(m, "13", 8) => ~Has(m, "accepted")
              /\ m.prog = "start" => ~Has(m, "crt_asked")
              /\ m.prog = "13" /\ Has(m, "crt_asked") =>
                    IF m.pc > 12 THEN Asks \in Elems(m.mark) ELSE Asks \in Elems(m.tr)
              /\ m.prog = "13" /\ m.pc = 13 /\ ~m.again => m.tr = m.mark
          BY <3>1, <3>3, <1>2, <1>3, <1>4, <1>6, <1>7 DEF ClientTr, Beyond, Moves, PlainMessages
        <4>2. m.prog = "13" /\ Did(m, "13", 13) /\ ~Has(m, "crt_asked") =>
                 m.tr = IF Did(m, "13", 17) THEN Answer(m) ELSE Ext(m)
          <5>1. e.prog = "13" /\ e.pc = 13 /\ ~e.again => e.tr = Ext(e)
            BY <3>1, <3>3, <1>7 DEF ClientTr, PlainMessages, Ext
          <5>2. e.prog = "13" => (Did(m, "13", 17) <=> Did(e, "13", 17))
            BY <3>3, <1>2, <1>3, <1>6, <1>7 DEF Did, Beyond, Moves, PlainMessages, Past
          <5>3. e.prog = "13" /\ Did(m, "13", 13) => (e.pc = 13 /\ ~e.again) \/ Did(e, "13", 13)
            BY <3>3, <1>2, <1>3, <1>6, <1>7 DEF Did, Beyond, Moves, Past
          <5>4. e.pc = 13 => ~(Did(e, "13", 17) /\ e.prog = "13")
            BY <3>3, <1>2, <1>3, <1>6, <1>7 DEF Did, Beyond, Moves, Past
          <5> QED BY <3>1, <5>1, <5>2, <5>3, <5>4, <1>2, <1>4, <1>5 DEF ClientTr
        <4>3. /\ Beyond(m, "13", 18) => m.rms = Full(m)
              /\ Past(m) /\ Asks \notin Elems(m.mark) => m.saved = Answer(m)
          BY <3>1, <3>3, <1>2, <1>3, <1>5, <1>6, <1>7 DEF ClientTr, Beyond, Moves, PlainMessages
        <4> QED BY <4>1, <4>2, <4>3 DEF ClientTr
      <3> QED BY <3>2, <3>3
    <2> QED BY <2>1, <1>2, <1>3, <1>7 DEF TranscriptOK
  <1>8. CASE p = "server"
    <2>1. mode.vers = 13 => ServerTr(m)
      <3> SUFFICES ASSUME mode.vers = 13 PROVE ServerTr(m)
        OBVIOUS
      <3>1. ServerTr(e)
        BY <1>8 DEF TranscriptOK
      <3>2. CASE Stays(e, m)
        BY <3>1, <3>2, <1>2, <1>3, <1>4, <1>5 DEF ServerTr, Beyond, Stays
      <3>3. CASE Moves(e, m) /\ PlainMessages(p, e)
        <4>1. /\ e.prog = "13" /\ m.pc = 14 => e.tr = e.mark
              /\ e.prog = "13" /\ m.pc \in 15..16 => e.tr = Ext(e)
          BY <3>1, <3>3, <1>6, <1>8 DEF ServerTr, Moves, PlainMessages, Ext
        <4> QED BY <4>1, <3>1, <3>3, <1>2, <1>3, <1>4, <1>5, <1>6, <1>8
           DEF ServerTr, Beyond, Moves, PlainMessages
      <3> QED BY <3>2, <3>3
    <2> QED BY <2>1, <1>2, <1>3, <1>8 DEF TranscriptOK
  <1> QED BY <1>1, <1>7, <1>8

\* Moving on undoes nothing.
LEMMA FrozenKept ==
  ASSUME NEW p \in Ends, NEW e, NEW m, Versions, Control(p, e),
         SameSecrets(e, m), SameFlags(e, m), m.tickets = e.tickets, KeysKept(p, e, m),
         Stays(e, m) \/ (Moves(e, m) /\ PlainMessages(p, e))
  PROVE  Frozen(p, e, m) /\ NoCross(p, e, m)
  <1>1. m.tr = e.tr /\ m.mark = e.mark /\ m.psk = e.psk /\ m.rms = e.rms /\ m.saved = e.saved /\ m.prog = e.prog
    BY DEF SameSecrets, Stays, Moves
  <1>2. Past(m) <=> Past(e)
    BY <1>1 DEF Past
  <1>3. /\ Has(m, "accepted") <=> Has(e, "accepted")
        /\ Has(m, "early_start_used") <=> Has(e, "early_start_used")
    BY DEF SameFlags
  <1>4. Full(m) = Full(e)
    BY <1>1, <1>2 DEF Full
  <1>5. e.pc \in Nat
    BY Where
  <1>6. \A prog : \A n \in Nat : /\ Beyond(e, prog, n) => Beyond(m, prog, n)
                                 /\ Did(e, prog, n) => Did(m, prog, n)
    BY <1>1, <1>2, <1>5 DEF Beyond, Did, Stays, Moves
  <1>7. RmsFixed(e) => RmsFixed(m)
    BY <1>3, <1>6 DEF RmsFixed
  <1>8. LastSend \in Nat /\ LastRecv \in Nat
    BY DEF LastSend, LastRecv
  <1>9. Frozen(p, e, m)
    BY <1>1, <1>3, <1>4, <1>6, <1>7, <1>8 DEF Frozen, KeysKept
  <1>10. CASE Stays(e, m)
    BY <1>2, <1>9, <1>10 DEF NoCross, Beyond, Stays
  <1>11. CASE Moves(e, m) /\ PlainMessages(p, e)
    <2>1. p = "client" \/ p = "server"
      BY DEF Ends
    <2>2. p # LastSender /\ Beyond(m, Version, LastRecv) => Beyond(e, Version, LastRecv)
      <3>1. Version \in {"13", "12", "12r"} /\ (e.prog \in {"13", "12", "12r"} => e.prog = Version)
        BY Where
      <3> QED BY <3>1, <2>1, <1>1, <1>2, <1>5, <1>11
              DEF Beyond, Moves, PlainMessages, LastSender, LastRecv
    <2>3. p = "client" /\ mode.vers = 13 => /\ Beyond(m, "13", 12) => Beyond(e, "13", 12)
                                            /\ Beyond(m, "13", 8) => Beyond(e, "13", 8)
      BY <1>1, <1>2, <1>5, <1>11 DEF Beyond, Moves, PlainMessages
    <2> QED BY <1>9, <2>2, <2>3 DEF NoCross
  <1> QED BY <1>9, <1>10, <1>11

-----------------------------------------------------------------------------
(* The buffers.                                                              *)

SameRest(e, g) == /\ DOMAIN g = Fields
                  /\ SameControl(e, g) /\ SameEpochs(e, g) /\ SameSecrets(e, g)
                  /\ g.flags = e.flags /\ g.tickets = e.tickets /\ g.err = e.err

\* Handing records to the transport adds none.
LEMMA TakesFields ==
  ASSUME NEW e, DOMAIN e = Fields, IsSeq(e.out), IsSeq(e.wire), NEW n \in 0..Len(e.out)
  PROVE  LET g == Takes(e, n)
         IN  /\ SameRest(e, g) /\ g.q = e.q
             /\ IsSeq(g.out) /\ IsSeq(g.wire) /\ Sent(g) \subseteq Sent(e)
  <1> DEFINE g == Takes(e, n)
             a == SubSeq(e.out, 1, n)
             b == SubSeq(e.out, n + 1, Len(e.out))
             w == e.wire \o a
  <1>1. g = [e EXCEPT !.wire = w, !.out = b]
    BY DEF Takes, Fields
  <1>2. Len(e.out) \in Nat /\ n \in Nat /\ n <= Len(e.out)
    <2>1. e.out \in Seq(Elems(e.out))
      BY DEF IsSeq
    <2>2. Len(e.out) \in Nat
      BY <2>1, LenProperties
    <2> QED BY <2>2
  <1>3. IsSeq(a) /\ Messages(a) \subseteq Messages(e.out)
    BY <1>2, PartSeq
  <1>4. IsSeq(b) /\ Messages(b) \subseteq Messages(e.out)
    <2>1. n + 1 \in Nat \ {0}
      BY <1>2
    <2> QED BY <1>2, <2>1, PartSeq
  <1> HIDE DEF a, b
  <1>5. IsSeq(w) /\ Messages(w) \subseteq Messages(e.wire) \cup Messages(a)
    BY <1>3, ConcatSeq
  <1> HIDE DEF w, g
  <1>6. g.wire = w /\ g.out = b /\ SameRest(e, g) /\ g.q = e.q
    BY <1>1 DEF Fields, SameRest, SameControl, SameEpochs, SameSecrets
  <1>7. Sent(g) \subseteq Sent(e)
    BY <1>3, <1>4, <1>5, <1>6 DEF Sent
  <1> QED BY <1>4, <1>5, <1>6, <1>7 DEF g

\* The messages that waited become records under the keys of their epochs.
LEMMA FlushFields ==
  ASSUME NEW e, DOMAIN e = Fields, IsSeq(e.q), IsSeq(e.out)
  PROVE  LET g == Flush(e)
         IN  /\ SameRest(e, g) /\ g.q = <<>> /\ g.wire = e.wire
             /\ IsSeq(g.out)
             /\ \A y \in Sent(g) : y \in Sent(e) \/ \E x \in Messages(e.q) : y = Sealed(e, x)
  <1> DEFINE g == Flush(e)
             t == [i \in 1..Len(e.q) |-> Sealed(e, e.q[i])]
             o == e.out \o t
             T == {Sealed(e, e.q[i]) : i \in 1..Len(e.q)}
  <1>1. g = [e EXCEPT !.out = o, !.q = <<>>]
    BY DEF Flush, Sealed, Fields
  <1>2. Len(e.q) \in Nat
    <2>1. e.q \in Seq(Elems(e.q))
      BY DEF IsSeq
    <2> QED BY <2>1, LenProperties
  <1>3. \A i \in 1..Len(e.q) : Sealed(e, e.q[i]) \in T
    OBVIOUS
  <1> HIDE DEF T
  <1>4. t \in Seq(T) /\ Len(t) = Len(e.q) /\ \A i \in 1..Len(e.q) : t[i] = Sealed(e, e.q[i])
    BY <1>2, <1>3
  <1>5. IsSeq(t)
    BY <1>4, SeqOf
  <1> HIDE DEF t
  <1>6. \A y \in Messages(t) : \E x \in Messages(e.q) : y = Sealed(e, x)
    <2> SUFFICES ASSUME NEW i \in 1..Len(t), t[i].type = "hs"
                 PROVE  \E x \in Messages(e.q) : t[i] = Sealed(e, x)
      BY DEF Messages
    <2>1. i \in 1..Len(e.q) /\ t[i] = Sealed(e, e.q[i])
      BY <1>4
    <2>2. e.q[i].type = "hs"
      BY <2>1 DEF Sealed, Record
    <2>3. e.q[i] \in Messages(e.q)
      BY <2>1, <2>2 DEF Messages
    <2> QED BY <2>1, <2>3
  <1>7. IsSeq(o) /\ Messages(o) \subseteq Messages(e.out) \cup Messages(t)
    BY <1>5, ConcatSeq
  <1> HIDE DEF o, g
  <1>8. g.out = o /\ g.q = <<>> /\ g.wire = e.wire /\ SameRest(e, g)
    BY <1>1 DEF Fields, SameRest, SameControl, SameEpochs, SameSecrets
  <1>9. \A y \in Sent(g) : y \in Sent(e) \/ \E x \in Messages(e.q) : y = Sealed(e, x)
    BY <1>6, <1>7, <1>8 DEF Sent
  <1> QED BY <1>7, <1>8, <1>9 DEF g

\* Changes of the buffers that bring no new message keep the invariant.
LEMMA QuietStep ==
  ASSUME NEW p \in Ends, NEW e, NEW m, Versions, Core(p, e), DOMAIN m = Fields,
         SameEpochs(e, m), SameSecrets(e, m), SameFlags(e, m), m.flags \subseteq Flags,
         m.tickets = e.tickets,
         \/ Stays(e, m)
         \/ /\ Moves(e, m) /\ e.pc <= Len(Engine(p, e.prog))
            /\ PlainMessages(p, e) /\ PlainEpochs(p, e),
         IsSeq(m.q), IsSeq(m.out), IsSeq(m.wire),
         \A x \in Messages(m.q) : x \in Messages(e.q),
         \A y \in Sent(m) :
            \/ y \in Sent(e)
            \/ \E x \in Messages(e.q) : y.msg = x.msg /\ y.info = x.info /\ y.ctx = x.ctx
  PROVE  Core(p, m) /\ Frozen(p, e, m) /\ NoCross(p, e, m)
  <1>1. Control(p, m)
    BY ControlMoved DEF Core, Stays, Moves
  <1>2. EpochsOK(p, m)
    <2>1. Has(m, "accepted") <=> Has(e, "accepted")
      BY DEF SameFlags
    <2> QED BY <2>1, EpochsKept DEF Core, Stays, Moves, SameSecrets
  <1>3. TranscriptOK(p, m)
    BY TranscriptKept DEF Core
  <1>4. Frozen(p, e, m) /\ NoCross(p, e, m)
    BY FrozenKept DEF Core, SameEpochs, KeysKept
  <1>5. ItemsOK(p, m)
    BY <1>4, ItemsStep DEF Core
  <1> QED BY <1>1, <1>2, <1>3, <1>4, <1>5 DEF Core

-----------------------------------------------------------------------------
(* Steps of an engine that leave keys and transcript alone.                  *)

Good(p, e, g) == Local(p, g) /\ Frozen(p, e, g) /\ NoCross(p, e, g)

\* What has been shown of a session that did its step carries over to the
\* session that goes on.
LEMMA MovedGood ==
  ASSUME NEW p \in Ends, NEW f, NEW e, Versions, DOMAIN f = Fields, f.err = "none",
         f.prog # "none", f.pc \in Nat, f.pc <= Len(Engine(p, f.prog)),
         f.prog = "start" => f.pc < Len(Engine(p, f.prog)),
         Core(p, Moved(f)), Frozen(p, e, Moved(f))
  PROVE  /\ Local(p, Advance(p, f)) /\ Frozen(p, e, Advance(p, f))
         /\ NoCross(p, e, Moved(f)) => Good(p, e, Advance(p, f))
         /\ NoCross(p, Moved(f), Advance(p, f))
  <1> DEFINE m == Moved(f)
             g == Advance(p, f)
  <1>1. Local(p, g) /\ Frozen(p, m, g) /\ NoCross(p, m, g)
    BY Advanced
  <1> HIDE DEF m, g
  <1>2. Frozen(p, e, m)
    BY DEF m
  <1>3. Frozen(p, e, g) /\ (NoCross(p, e, m) => NoCross(p, e, g))
    BY <1>1, <1>2, Chained
  <1> QED BY <1>1, <1>3 DEF Good, m, g

\* The steps that can be due.
LEMMA Due ==
  ASSUME NEW p \in Ends, NEW e, Versions, Local(p, e), e.prog # "none"
  PROVE  /\ Control(p, e) /\ e.pc \in Nat
         /\ p = "client" => /\ e.prog = "start" => e.pc \in 1..3
                            /\ e.prog = "13" => e.pc \in 4..18
                            /\ e.prog = "12" => e.pc \in 4..17
                            /\ e.prog = "12r" => e.pc \in 4..9
                            /\ e.prog = "reauth" => e.pc \in 1..3
         /\ p = "server" => /\ e.prog = "start" => e.pc = 1
                            /\ e.prog = "13" => e.pc \in 2..23
                            /\ e.prog = "12" => e.pc \in 2..15
                            /\ e.prog = "12r" => e.pc \in 2..8
                            /\ e.prog = "reauth" => e.pc \in 1..4
                            /\ e.prog = "ticket" => e.pc = 1
  <1> DEFINE n == Len(Engine(p, e.prog))
  <1>1. Control(p, e) /\ e.pc <= n
    BY DEF Local, Core
  <1>2. p = "client" => /\ e.prog = "start" => n = 3
                        /\ e.prog = "13" => n = 18
                        /\ e.prog = "12" => n = 17
                        /\ e.prog = "12r" => n = 9
                        /\ e.prog = "reauth" => n = 3
    BY Lengths
  <1>3. p = "server" => /\ e.prog = "start" => n = 1
                        /\ e.prog = "13" => n = 23
                        /\ e.prog = "12" => n = 15
                        /\ e.prog = "12r" => n = 8
                        /\ e.prog = "reauth" => n = 4
                        /\ e.prog = "ticket" => n = 1
    BY Lengths
  <1>4. e.pc \in Nat /\ e.pc >= 1
    BY <1>1, Where
  <1>5. /\ e.prog = "13" => IF p = "client" THEN e.pc \in 4..19 ELSE e.pc \in 2..24
        /\ e.prog = "12" => IF p = "client" THEN e.pc \in 4..18 ELSE e.pc \in 2..16
        /\ e.prog = "12r" => IF p = "client" THEN e.pc \in 4..10 ELSE e.pc \in 2..9
    BY <1>1, Where
  <1> HIDE DEF n
  <1> QED BY <1>1, <1>2, <1>3, <1>4, <1>5

\* The positions from which an engine goes on without further ado.
LEMMA PlainSteps ==
  ASSUME NEW p \in Ends, NEW e, Versions, Local(p, e), e.prog # "none",
         LET s == At(p, e)
         IN  \/ Skips(p, e, s) \/ s.op = "ccs" \/ (s.op = "send" /\ e.again)
             \/ s.op = "recv" /\ Optional(s)
             \/ s.op = "do" /\ s.msg = "start"
  PROVE  /\ PlainMessages(p, e) /\ PlainEpochs(p, e)
         /\ e.prog = "start" => e.pc < Len(Engine(p, e.prog))
  <1> DEFINE s == At(p, e)
  <1>1. p = "client" \/ p = "server"
    BY DEF Ends
  <1>2. Control(p, e) /\ e.pc <= Len(Engine(p, e.prog))
    BY DEF Local, Core
  <1>3. CASE e.prog = "start" /\ p = "client"
    <2>1. e.pc \in 1..3
      BY <1>3, Due
    <2>2. e.pc # 3
      BY <1>3, <2>1, StartSteps DEF Skips, Optional, S, Certs
    <2>3. e.pc < Len(Engine(p, e.prog))
      <3>1. Len(Engine(p, e.prog)) = 3
        BY <1>3, Lengths
      <3> QED BY <3>1, <2>1, <2>2
    <2> QED BY <2>3, <1>3 DEF PlainMessages, PlainEpochs
  <1>4. CASE e.prog = "start" /\ p = "server"
    <2>1. e.pc = 1
      BY <1>4, Due
    <2>2. s = S(1, "recv", "ClientHello")
      BY <1>4, <2>1, StartSteps
    <2> QED BY <1>4, <2>2 DEF Skips, Optional, S, Certs
  <1>5. CASE e.prog = "13" /\ p = "client"
    <2>1. e.pc \in 4..18
      BY <1>5, Due
    <2>2. /\ e.pc = 13 => s = S(110, "send", "EndOfEarlyData")
          /\ e.pc = 17 => s = S(113, "send", "Finished")
          /\ e.pc = 7 => s = S(103, "do", "hs_keys")
          /\ e.pc = 8 => s = S(104, "recv", "EncryptedExtensions")
          /\ e.pc = 12 => s = S(109, "recv", "Finished")
          /\ e.pc = 18 => s = S(114, "do", "app_keys")
      BY <1>5, Client13Steps
    <2>3. e.pc \notin {7, 8, 12, 18}
      BY <1>5, <2>1, <2>2 DEF Skips, Optional, S, Certs
    <2>4. e.pc = 13 => e.again \/ ~Has(e, "accepted")
      BY <1>5, <2>1, <2>2 DEF Skips, Optional, S, Certs
    <2>5. e.pc = 17 => e.again
      BY <1>5, <2>1, <2>2 DEF Skips, Optional, S, Certs
    <2> QED BY <2>3, <2>4, <2>5, <1>5 DEF PlainMessages, PlainEpochs
  <1>6. CASE e.prog = "13" /\ p = "server"
    <2>1. e.pc \in 2..23
      BY <1>6, Due
    <2>2. /\ e.pc = 8 => s = S(101, "do", "hs_keys")
          /\ e.pc = 13 => s = S(106, "send", "Finished")
          /\ e.pc = 14 => s = S(107, "recv", "EndOfEarlyData")
          /\ e.pc = 15 => s = S(107, "do", "end_early")
          /\ e.pc = 16 => s = S(108, "do", "app_keys")
          /\ e.pc = 21 => s = S(113, "recv", "Finished")
          /\ e.pc = 22 => s = S(114, "do", "read_keys")
      BY <1>6, Server13Steps
    <2>3. e.pc \notin {8, 15, 16, 21, 22}
      BY <1>6, <2>1, <2>2 DEF Skips, Optional, S, Certs
    <2>4. e.pc = 13 => e.again
      BY <1>6, <2>1, <2>2 DEF Skips, Optional, S, Certs
    <2>5. e.pc = 14 => ~Has(e, "accepted")
      BY <1>6, <2>1, <2>2 DEF Skips, Optional, S, Certs
    <2> QED BY <2>3, <2>4, <2>5, <1>6 DEF PlainMessages, PlainEpochs
  <1>7. CASE e.prog \in {"12", "12r"} /\ p = "client"
    <2>1. /\ e.prog = "12" => /\ e.pc = 12 => s = S(16, "do", "write12")
                              /\ e.pc = 16 => s = S(19, "recvccs", "ccs")
                              /\ e.pc = 17 => s = S(19, "recv", "Finished")
          /\ e.prog = "12r" => /\ e.pc = 5 => s = S(18, "recvccs", "ccs")
                               /\ e.pc = 8 => s = S(19, "do", "write12")
      BY <1>7, Client12Steps
    <2>2. /\ e.prog = "12" => e.pc \notin {12, 16, 17}
          /\ e.prog = "12r" => e.pc \notin {5, 8}
      BY <1>7, <2>1 DEF Skips, Optional, S, Certs
    <2> QED BY <2>2, <1>7 DEF PlainMessages, PlainEpochs, Write12, Read12
  <1>8. CASE e.prog \in {"12", "12r"} /\ p = "server"
    <2>1. /\ e.prog = "12" => /\ e.pc = 14 => s = S(17, "do", "write12")
                              /\ e.pc = 10 => s = S(15, "recvccs", "ccs")
          /\ e.prog = "12r" => /\ e.pc = 7 => s = S(17, "recvccs", "ccs")
                               /\ e.pc = 8 => s = S(17, "recv", "Finished")
                               /\ e.pc = 4 => s = S(15, "do", "write12")
      BY <1>8, Server12Steps
    <2>2. /\ e.prog = "12" => e.pc \notin {10, 14}
          /\ e.prog = "12r" => e.pc \notin {4, 7, 8}
      BY <1>8, <2>1 DEF Skips, Optional, S, Certs
    <2> QED BY <2>2, <1>8 DEF PlainMessages, PlainEpochs, Write12, Read12
  <1>9. CASE e.prog \in {"reauth", "ticket"}
    BY <1>9 DEF PlainMessages, PlainEpochs
  <1> QED BY <1>1, <1>2, <1>3, <1>4, <1>5, <1>6, <1>7, <1>8, <1>9, Where

\* An engine goes on from such a position; its buffers may have changed.
LEMMA QuietAdvance ==
  ASSUME NEW p \in Ends, NEW e, NEW f, Versions, Local(p, e), Running(e),
         DOMAIN f = Fields, f.err = "none", f.prog = e.prog, f.pc = e.pc,
         SameEpochs(e, f), SameSecrets(e, f), f.flags = e.flags, f.tickets = e.tickets,
         PlainMessages(p, e), PlainEpochs(p, e),
         e.prog = "start" => e.pc < Len(Engine(p, e.prog)),
         IsSeq(f.q), IsSeq(f.out), IsSeq(f.wire),
         \A x \in Messages(f.q) : x \in Messages(e.q),
         \A y \in Sent(f) :
            \/ y \in Sent(e)
            \/ \E x \in Messages(e.q) : y.msg = x.msg /\ y.info = x.info /\ y.ctx = x.ctx
  PROVE  Good(p, e, Advance(p, f))
  <1> DEFINE m == Moved(f)
  <1>1. /\ DOMAIN m = Fields
        /\ m.pc = f.pc + 1 /\ m.again = FALSE /\ m.prog = f.prog
        /\ SameEpochs(f, m) /\ SameSecrets(f, m) /\ SameBuffers(f, m)
        /\ m.flags = f.flags /\ m.tickets = f.tickets
    BY MovedFields
  <1>2. e.prog # "none" /\ e.pc \in Nat /\ e.pc <= Len(Engine(p, e.prog)) /\ Core(p, e)
    BY Where DEF Local, Core, Running
  <1> HIDE DEF m
  <1>3. /\ SameEpochs(e, m) /\ SameSecrets(e, m) /\ SameFlags(e, m) /\ m.flags \subseteq Flags
        /\ m.tickets = e.tickets
    BY <1>1, <1>2 DEF SameEpochs, SameSecrets, SameFlags, Has, Core, Control
  <1>4. m.q = f.q /\ Sent(m) = Sent(f) /\ m.out = f.out /\ m.wire = f.wire
    BY <1>1 DEF SameBuffers, Sent
  <1>5. Moves(e, m)
    BY <1>1 DEF Moves
  <1>6. Core(p, m) /\ Frozen(p, e, m) /\ NoCross(p, e, m)
    BY <1>1, <1>2, <1>3, <1>4, <1>5, QuietStep
  <1> QED BY <1>2, <1>6, MovedGood DEF m

\* A step that is skipped, an optional message that does not come, the end of
\* an interrupted call.
LEMMA PlainGood ==
  ASSUME NEW p \in Ends, NEW e, Versions, Local(p, e), Running(e),
         LET s == At(p, e)
         IN  \/ Skips(p, e, s) \/ (s.op = "send" /\ e.again)
             \/ s.op = "recv" /\ Optional(s)
  PROVE  Good(p, e, Advance(p, e))
  <1>1. e.prog # "none" /\ e.err = "none" /\ Core(p, e)
    BY DEF Running, Local
  <1>2. /\ PlainMessages(p, e) /\ PlainEpochs(p, e)
        /\ e.prog = "start" => e.pc < Len(Engine(p, e.prog))
    BY <1>1, PlainSteps
  <1>3. DOMAIN e = Fields /\ IsSeq(e.q) /\ IsSeq(e.out) /\ IsSeq(e.wire)
    BY <1>1 DEF Core, Control, ItemsOK
  <1>4. SameEpochs(e, e) /\ SameSecrets(e, e)
    BY DEF SameEpochs, SameSecrets
  <1> QED BY <1>1, <1>2, <1>3, <1>4, QuietAdvance

\* Changes of the buffers between two steps.
LEMMA StaysGood ==
  ASSUME NEW p \in Ends, NEW e, NEW f, Versions, Local(p, e), DOMAIN f = Fields,
         SameControl(e, f), SameEpochs(e, f), SameSecrets(e, f), SameFlags(e, f),
         f.flags \subseteq Flags, f.tickets = e.tickets, f.q = e.q,
         IsSeq(f.out), IsSeq(f.wire), Sent(f) \subseteq Sent(e)
  PROVE  Good(p, e, f)
  <1>1. Core(p, e) /\ IsSeq(f.q)
    BY DEF Local, Core, ItemsOK
  <1>2. Stays(e, f)
    BY DEF Stays, SameControl
  <1>3. Core(p, f) /\ Frozen(p, e, f) /\ NoCross(p, e, f)
    BY <1>1, <1>2, QuietStep
  <1> QED BY <1>3 DEF Good, Local, SameControl

\* The fields of a session with one more message in handshake_send_buffer.
LEMMA CacheFields ==
  ASSUME NEW e, DOMAIN e = Fields, IsSeq(e.q), NEW type, NEW msg, NEW info, NEW ctx
  PROVE  LET g == Cache(e, type, msg, info, ctx)
             x == [type |-> type, msg |-> msg, info |-> info, ctx |-> ctx, epoch |-> e.we]
         IN  /\ SameRest(e, g) /\ g.out = e.out /\ g.wire = e.wire
             /\ IsSeq(g.q) /\ Messages(g.q) \subseteq Messages(e.q) \cup {x}
             /\ type # "hs" => Messages(g.q) = Messages(e.q)
  <1> DEFINE g == Cache(e, type, msg, info, ctx)
             x == [type |-> type, msg |-> msg, info |-> info, ctx |-> ctx, epoch |-> e.we]
             a == Append(e.q, x)
  <1>1. g = [e EXCEPT !.q = a]
    BY DEF Cache
  <1>2. x.type = type
    OBVIOUS
  <1> HIDE DEF x
  <1>3. IsSeq(a) /\ Messages(a) \subseteq Messages(e.q) \cup {x} /\ (type # "hs" => Messages(a) = Messages(e.q))
    BY <1>2, AppendSeq
  <1> HIDE DEF a, g
  <1>4. g.q = a /\ SameRest(e, g) /\ g.out = e.out /\ g.wire = e.wire
    BY <1>1 DEF Fields, SameRest, SameControl, SameEpochs, SameSecrets
  <1> QED BY <1>3, <1>4 DEF g, x

\* A change cipher spec: cached, or cached, flushed and partly written.
LEMMA CcsGood ==
  ASSUME NEW p \in Ends, NEW e, Versions, Local(p, e), Running(e), At(p, e).op = "ccs"
  PROVE  LET f == Cache(e, "ccs", "ccs", {}, <<>>)
         IN  /\ Good(p, e, Advance(p, f))
             /\ \A n \in 0..Len(Flush(f).out) : Good(p, e, Advance(p, Takes(Flush(f), n)))
  <1> DEFINE f == Cache(e, "ccs", "ccs", {}, <<>>)
             g == Flush(f)
  <1>1. e.prog # "none" /\ e.err = "none" /\ Core(p, e)
    BY DEF Running, Local
  <1>2. /\ PlainMessages(p, e) /\ PlainEpochs(p, e)
        /\ e.prog = "start" => e.pc < Len(Engine(p, e.prog))
    BY <1>1, PlainSteps
  <1>3. DOMAIN e = Fields /\ IsSeq(e.q) /\ IsSeq(e.out) /\ IsSeq(e.wire)
    BY <1>1 DEF Core, Control, ItemsOK
  <1>4. /\ SameRest(e, f) /\ f.out = e.out /\ f.wire = e.wire
        /\ IsSeq(f.q) /\ Messages(f.q) = Messages(e.q)
    BY <1>3, CacheFields
  <1> HIDE DEF f
  <1>5. Good(p, e, Advance(p, f))
    <2>1. Sent(f) = Sent(e)
      BY <1>4 DEF Sent
    <2>2. /\ DOMAIN f = Fields /\ f.err = "none" /\ f.prog = e.prog /\ f.pc = e.pc
          /\ SameEpochs(e, f) /\ SameSecrets(e, f) /\ f.flags = e.flags /\ f.tickets = e.tickets
      BY <1>1, <1>4 DEF SameRest, SameControl
    <2> QED BY <1>2, <1>3, <1>4, <2>1, <2>2, QuietAdvance
  <1>6. /\ SameRest(f, g) /\ g.q = <<>> /\ g.wire = f.wire /\ IsSeq(g.out)
        /\ \A y \in Sent(g) : y \in Sent(f) \/ \E x \in Messages(f.q) : y = Sealed(f, x)
    <2>1. DOMAIN f = Fields /\ IsSeq(f.out)
      BY <1>3, <1>4 DEF SameRest
    <2> QED BY <2>1, <1>4, FlushFields
  <1> HIDE DEF g
  <1>7. ASSUME NEW n \in 0..Len(g.out) PROVE Good(p, e, Advance(p, Takes(g, n)))
    <2> DEFINE h == Takes(g, n)
    <2>1. /\ SameRest(g, h) /\ h.q = g.q
          /\ IsSeq(h.out) /\ IsSeq(h.wire) /\ Sent(h) \subseteq Sent(g)
      <3>1. DOMAIN g = Fields /\ IsSeq(g.wire)
        BY <1>3, <1>4, <1>6 DEF SameRest
      <3> QED BY <3>1, <1>6, TakesFields
    <2> HIDE DEF h
    <2>2. /\ DOMAIN h = Fields /\ h.err = "none" /\ h.prog = e.prog /\ h.pc = e.pc
          /\ SameEpochs(e, h) /\ SameSecrets(e, h) /\ h.flags = e.flags /\ h.tickets = e.tickets
      BY <1>1, <1>4, <1>6, <2>1 DEF SameRest, SameControl, SameEpochs, SameSecrets
    <2>3. IsSeq(h.q) /\ Messages(h.q) = {}
      BY <1>6, <2>1, NoElements
    <2>4. \A y \in Sent(h) :
            \/ y \in Sent(e)
            \/ \E x \in Messages(e.q) : y.msg = x.msg /\ y.info = x.info /\ y.ctx = x.ctx
      <3>1. Sent(f) = Sent(e)
        BY <1>4 DEF Sent
      <3> QED BY <3>1, <1>4, <1>6, <2>1 DEF Sealed, Record
    <2> QED BY <1>2, <2>1, <2>2, <2>3, <2>4, QuietAdvance DEF h
  <1> QED BY <1>5, <1>7 DEF f, g

\* Records leave record_send_buffer.
LEMMA TakesGood ==
  ASSUME NEW p \in Ends, NEW e, Versions, Local(p, e), e.out # <<>>
  PROVE  Good(p, e, Takes(e, 1))
  <1> DEFINE f == Takes(e, 1)
  <1>1. DOMAIN e = Fields /\ IsSeq(e.q) /\ IsSeq(e.out) /\ IsSeq(e.wire) /\ e.flags \subseteq Flags
    BY DEF Local, Core, Control, ItemsOK
  <1>2. 1 \in 0..Len(e.out)
    <2>1. e.out \in Seq(Elems(e.out))
      BY <1>1 DEF IsSeq
    <2>2. Len(e.out) \in Nat \ {0}
      BY <2>1
    <2> QED BY <2>2
  <1>3. /\ SameRest(e, f) /\ f.q = e.q
        /\ IsSeq(f.out) /\ IsSeq(f.wire) /\ Sent(f) \subseteq Sent(e)
    BY <1>1, <1>2, TakesFields
  <1> HIDE DEF f
  <1>4. SameFlags(e, f)
    BY <1>3 DEF SameFlags, SameRest, Has
  <1> QED BY <1>1, <1>3, <1>4, StaysGood DEF SameRest, f

\* Application data is no handshake message.
LEMMA DataGood ==
  ASSUME NEW p \in Ends, NEW e, Versions, Local(p, e), NEW n, NEW k
  PROVE  Good(p, e, [e EXCEPT !.sent = @ + 1, !.wire = Append(@, Record("data", n, {}, <<>>, k))])
  <1> DEFINE r == Record("data", n, {}, <<>>, k)
             w == Append(e.wire, r)
             f == [e EXCEPT !.sent = @ + 1, !.wire = w]
  <1>1. DOMAIN e = Fields /\ IsSeq(e.q) /\ IsSeq(e.out) /\ IsSeq(e.wire) /\ e.flags \subseteq Flags
    BY DEF Local, Core, Control, ItemsOK
  <1>2. r.type = "data"
    BY DEF Record
  <1> HIDE DEF r
  <1>3. IsSeq(w) /\ Messages(w) = Messages(e.wire)
    BY <1>1, <1>2, AppendSeq
  <1> HIDE DEF w
  <1>4. SameRest(e, f) /\ f.q = e.q /\ f.out = e.out /\ f.wire = w
    BY <1>1 DEF Fields, SameRest, SameControl, SameEpochs, SameSecrets
  <1> HIDE DEF f
  <1>5. SameFlags(e, f) /\ Sent(f) = Sent(e)
    BY <1>3, <1>4 DEF SameFlags, SameRest, Has, Sent
  <1>6. Good(p, e, f)
    BY <1>1, <1>3, <1>4, <1>5, StaysGood DEF SameRest
  <1> QED BY <1>6 DEF f, w, r

-----------------------------------------------------------------------------
(* Taking up keys.                                                           *)

SameButKeys(e, g) == /\ DOMAIN g = Fields
                     /\ SameControl(e, g) /\ SameSecrets(e, g) /\ SameBuffers(e, g)
                     /\ g.flags = e.flags /\ g.tickets = e.tickets /\ g.err = e.err
                     /\ g.min = e.min

\* Keys are set in the next epoch, once.
LEMMA SetKeysFields ==
  ASSUME NEW e, DOMAIN e = Fields, e.next \in DOMAIN e.keys, NEW r, NEW w
  PROVE  LET g == SetKeys(e, r, w)
         IN  /\ SameButKeys(e, g) /\ g.next = e.next /\ g.re = e.re /\ g.we = e.we
             /\ DOMAIN g.keys = DOMAIN e.keys
             /\ \A i \in DOMAIN e.keys : i # e.next => g.keys[i] = e.keys[i]
             /\ g.keys[e.next] = IF e.keys[e.next] = Unset THEN [r |-> r, w |-> w]
                                 ELSE e.keys[e.next]
  <1> DEFINE g == SetKeys(e, r, w)
             v == [r |-> r, w |-> w]
             ks == [e.keys EXCEPT ![e.next] = v]
  <1>1. CASE e.keys[e.next] # Unset
    <2>1. g = e
      BY <1>1 DEF SetKeys
    <2> QED BY <1>1, <2>1 DEF SameButKeys, SameControl, SameSecrets, SameBuffers
  <1>2. CASE e.keys[e.next] = Unset
    <2>1. g = [e EXCEPT !.keys = ks]
      BY <1>2 DEF SetKeys, Fields
    <2> HIDE DEF v
    <2>2. DOMAIN ks = DOMAIN e.keys /\ ks[e.next] = v /\ \A i \in DOMAIN e.keys : i # e.next => ks[i] = e.keys[i]
      OBVIOUS
    <2> HIDE DEF ks, g
    <2>3. g.keys = ks /\ SameButKeys(e, g) /\ g.next = e.next /\ g.re = e.re /\ g.we = e.we
      BY <2>1 DEF Fields, SameButKeys, SameControl, SameSecrets, SameBuffers
    <2> QED BY <1>2, <2>2, <2>3 DEF g, v
  <1> QED BY <1>1, <1>2

\* Whatever the keys, nothing else changes.
LEMMA SetKeysFrame ==
  ASSUME NEW e, DOMAIN e = Fields, e.next \in DOMAIN e.keys, NEW r, NEW w
  PROVE  LET g == SetKeys(e, r, w)
         IN  /\ SameButKeys(e, g) /\ g.next = e.next /\ g.re = e.re /\ g.we = e.we
             /\ DOMAIN g.keys = DOMAIN e.keys
  <1> DEFINE g == SetKeys(e, r, w)
             v == [r |-> r, w |-> w]
             ks == [e.keys EXCEPT ![e.next] = v]
  <1>1. CASE e.keys[e.next] # Unset
    <2>1. g = e
      BY <1>1 DEF SetKeys
    <2> QED BY <1>1, <2>1 DEF SameButKeys, SameControl, SameSecrets, SameBuffers
  <1>2. CASE e.keys[e.next] = Unset
    <2>1. g = [e EXCEPT !.keys = ks]
      BY <1>2 DEF SetKeys, Fields
    <2> HIDE DEF v
    <2>2. DOMAIN ks = DOMAIN e.keys
      OBVIOUS
    <2> HIDE DEF ks, g
    <2>3. g.keys = ks /\ SameButKeys(e, g) /\ g.next = e.next /\ g.re = e.re /\ g.we = e.we
      BY <2>1 DEF Fields, SameButKeys, SameControl, SameSecrets, SameBuffers
    <2> QED BY <1>2, <2>2, <2>3 DEF g, v
  <1> QED BY <1>1, <1>2

\* g has the keys of e, and k in the next epoch unless that had keys.
Inited(e, g, k) ==
    /\ SameButKeys(e, g) /\ g.next = e.next
    /\ DOMAIN g.keys = DOMAIN e.keys
    /\ \A i \in DOMAIN e.keys : i # e.next => g.keys[i] = e.keys[i]
    /\ g.keys[e.next] = IF e.keys[e.next] = Unset THEN Both(k) ELSE e.keys[e.next]

\* The next epoch is read, written, or both.
LEMMA InitFields ==
  ASSUME NEW e, DOMAIN e = Fields, e.next \in DOMAIN e.keys, NEW k
  PROVE  /\ LET g == ReadInit(e, k) IN Inited(e, g, k) /\ g.re = e.next /\ g.we = e.we
         /\ LET g == WriteInit(e, k) IN Inited(e, g, k) /\ g.we = e.next /\ g.re = e.re
         /\ LET g == ConnectionInit(e, k) IN Inited(e, g, k) /\ g.we = e.next /\ g.re = e.next
  <1>1. ASSUME NEW d, DOMAIN d = Fields, d.next \in DOMAIN d.keys
        PROVE  /\ LET g == ReadInit(d, k) IN Inited(d, g, k) /\ g.re = d.next /\ g.we = d.we
               /\ LET g == WriteInit(d, k) IN Inited(d, g, k) /\ g.we = d.next /\ g.re = d.re
    <2> DEFINE f == SetKeys(d, k, k)
               g == [f EXCEPT !.re = d.next]
               h == [f EXCEPT !.we = d.next]
    <2>1. /\ SameButKeys(d, f) /\ f.next = d.next /\ f.re = d.re /\ f.we = d.we
          /\ DOMAIN f.keys = DOMAIN d.keys
          /\ \A i \in DOMAIN d.keys : i # d.next => f.keys[i] = d.keys[i]
          /\ f.keys[d.next] = IF d.keys[d.next] = Unset THEN Both(k) ELSE d.keys[d.next]
      BY <1>1, SetKeysFields DEF Both
    <2> HIDE DEF f
    <2>2. /\ SameButKeys(d, g) /\ g.next = d.next /\ g.re = d.next /\ g.we = d.we /\ g.keys = f.keys
      BY <2>1 DEF SameButKeys, SameControl, SameSecrets, SameBuffers, Fields
    <2>3. /\ SameButKeys(d, h) /\ h.next = d.next /\ h.re = d.re /\ h.we = d.next /\ h.keys = f.keys
      BY <2>1 DEF SameButKeys, SameControl, SameSecrets, SameBuffers, Fields
    <2> HIDE DEF g, h
    <2>4. Inited(d, g, k) /\ Inited(d, h, k)
      BY <2>1, <2>2, <2>3 DEF Inited
    <2>5. g = ReadInit(d, k) /\ h = WriteInit(d, k)
      BY DEF ReadInit, WriteInit, f, g, h
    <2> QED BY <2>2, <2>3, <2>4, <2>5
  <1> DEFINE f == ReadInit(e, k)
             g == WriteInit(f, k)
  <1>2. Inited(e, f, k) /\ f.re = e.next /\ f.we = e.we
    BY <1>1
  <1>3. DOMAIN f = Fields /\ f.next \in DOMAIN f.keys
    BY <1>2 DEF Inited, SameButKeys
  <1> HIDE DEF f
  <1>4. Inited(f, g, k) /\ g.we = f.next /\ g.re = f.re
    BY <1>1, <1>3
  <1> HIDE DEF g
  <1>5. Inited(e, g, k) /\ g.we = e.next /\ g.re = e.next
    <2>1. SameButKeys(e, g) /\ g.next = e.next /\ g.we = e.next /\ g.re = e.next
      BY <1>2, <1>4 DEF Inited, SameButKeys, SameControl, SameSecrets, SameBuffers
    <2>2. DOMAIN g.keys = DOMAIN e.keys /\ \A i \in DOMAIN e.keys : i # e.next => g.keys[i] = e.keys[i]
      BY <1>2, <1>4 DEF Inited
    <2>3. g.keys[e.next] = IF e.keys[e.next] = Unset THEN Both(k) ELSE e.keys[e.next]
      BY <1>2, <1>4 DEF Inited
    <2> QED BY <2>1, <2>2, <2>3 DEF Inited
  <1>6. g = ConnectionInit(e, k)
    BY DEF ConnectionInit, f, g
  <1> QED BY <1>1, <1>5, <1>6

\* An epoch without keys follows, while there is a slot for it.
LEMMA BumpFields ==
  ASSUME NEW e, DOMAIN e = Fields, e.min = 0, e.next \in 1..2, DOMAIN e.keys = 0..e.next
  PROVE  LET g == BumpDup(e)
         IN  /\ SameButKeys(e, g) /\ g.next = e.next + 1 /\ g.re = e.re /\ g.we = e.we
             /\ DOMAIN g.keys = 0..(e.next + 1)
             /\ \A i \in 0..e.next : g.keys[i] = e.keys[i]
             /\ g.keys[e.next + 1] = Unset
  <1> DEFINE f == [e EXCEPT !.next = @ + 1]
             g == BumpDup(e)
             ks == [i \in DOMAIN f.keys \cup {f.next} |-> IF i \in DOMAIN f.keys THEN f.keys[i] ELSE Unset]
  <1>1. /\ DOMAIN f = Fields /\ f.next = e.next + 1 /\ f.min = 0 /\ f.keys = e.keys
        /\ SameButKeys(e, f) /\ f.re = e.re /\ f.we = e.we
    BY DEF SameButKeys, SameControl, SameSecrets, SameBuffers, Fields
  <1>2. g = SetupNext(f)
    BY DEF BumpDup
  <1> HIDE DEF f
  <1>3. ~(f.next - f.min >= MAX_EPOCH_INDEX)
    BY <1>1 DEF MAX_EPOCH_INDEX
  <1>4. g = [f EXCEPT !.keys = ks]
    BY <1>2, <1>3 DEF SetupNext
  <1>5. /\ DOMAIN ks = 0..(e.next + 1)
        /\ \A i \in 0..e.next : ks[i] = e.keys[i]
        /\ ks[e.next + 1] = Unset
    BY <1>1
  <1> HIDE DEF ks, g
  <1>6. g.keys = ks /\ SameButKeys(f, g) /\ g.next = f.next /\ g.re = f.re /\ g.we = f.we
    BY <1>1, <1>4 DEF SameButKeys, SameControl, SameSecrets, SameBuffers, Fields
  <1>7. SameButKeys(e, g)
    BY <1>1, <1>6 DEF SameButKeys, SameControl, SameSecrets, SameBuffers
  <1> QED BY <1>1, <1>5, <1>6, <1>7 DEF g

\* A step that only takes up keys.
LEMMA KeysGood ==
  ASSUME NEW p \in Ends, NEW e, NEW f, Versions, Local(p, e), Running(e),
         DOMAIN f = Fields, f.err = "none", f.prog = e.prog, f.pc = e.pc, e.prog # "start",
         SameSecrets(e, f), SameFlags(e, f), f.flags \subseteq Flags, SameBuffers(e, f),
         f.tickets = e.tickets, PlainMessages(p, e), KeysKept(p, e, f), EpochsOK(p, Moved(f))
  PROVE  Good(p, e, Advance(p, f))
  <1> DEFINE m == Moved(f)
  <1>1. /\ DOMAIN m = Fields
        /\ m.pc = f.pc + 1 /\ m.again = FALSE /\ m.prog = f.prog
        /\ SameEpochs(f, m) /\ SameSecrets(f, m) /\ SameBuffers(f, m)
        /\ m.flags = f.flags /\ m.tickets = f.tickets
    BY MovedFields
  <1>2. e.prog # "none" /\ e.pc \in Nat /\ e.pc <= Len(Engine(p, e.prog)) /\ Core(p, e) /\ Control(p, e)
    BY Where DEF Local, Core, Running
  <1> HIDE DEF m
  <1>3. /\ SameSecrets(e, m) /\ SameFlags(e, m) /\ m.flags \subseteq Flags
        /\ m.tickets = e.tickets /\ SameBuffers(e, m) /\ Moves(e, m) /\ KeysKept(p, e, m)
    BY <1>1 DEF SameSecrets, SameFlags, Has, SameBuffers, Moves, KeysKept, SameEpochs
  <1>4. Control(p, m)
    BY <1>1, <1>2, <1>3, ControlMoved
  <1>5. TranscriptOK(p, m)
    BY <1>2, <1>3, TranscriptKept DEF Core
  <1>6. Frozen(p, e, m) /\ NoCross(p, e, m)
    BY <1>2, <1>3, FrozenKept
  <1>7. ItemsOK(p, m)
    <2>1. m.q = e.q /\ m.out = e.out /\ m.wire = e.wire /\ Sent(m) = Sent(e)
      BY <1>3 DEF SameBuffers, Sent
    <2> QED BY <2>1, <1>2, <1>6, ItemsStep DEF Core, ItemsOK
  <1>8. Core(p, m)
    BY <1>4, <1>5, <1>7 DEF Core, m
  <1> QED BY <1>2, <1>6, <1>8, MovedGood DEF m

\* What a session that runs a handshake has for epochs.
LEMMA Table ==
  ASSUME NEW p \in Ends, NEW e, Versions, Local(p, e), e.prog \in {"13", "12", "12r"}
  PROVE  /\ DOMAIN e = Fields /\ e.flags \subseteq Flags
         /\ e.min = 0 /\ e.next \in 1..3 /\ DOMAIN e.keys = 0..e.next
         /\ e.re \in 0..e.next /\ e.we \in 0..e.next /\ e.next \in DOMAIN e.keys
  <1>1. ~Past(e)
    BY DEF Past
  <1>2. /\ DOMAIN e = Fields /\ e.flags \subseteq Flags
        /\ e.min = 0 /\ e.next \in 1..3 /\ DOMAIN e.keys = 0..e.next
        /\ e.re \in 0..e.next /\ e.we \in 0..e.next
    BY <1>1 DEF Local, Core, Control, EpochsOK
  <1> QED BY <1>2

\* The keys of the TLS 1.3 client, but for the application keys.
LEMMA ClientKeysGood ==
  ASSUME NEW e, Versions, Local("client", e), Running(e), e.prog = "13"
  PROVE  /\ e.pc = 5 => Good("client", e, Advance("client", ClientEarlyKeys(e)))
         /\ e.pc = 7 => Good("client", e, Advance("client", ClientHsKeys(e)))
         /\ e.pc = 14 => Good("client", e, Advance("client", ClientEndEarly(e)))
  <1> DEFINE p == "client"
  <1>1. /\ DOMAIN e = Fields /\ e.flags \subseteq Flags
        /\ e.min = 0 /\ e.next \in 1..3 /\ DOMAIN e.keys = 0..e.next
        /\ e.re \in 0..e.next /\ e.we \in 0..e.next /\ e.next \in DOMAIN e.keys
    BY Table DEF Ends
  <1>2. Client13Epochs(e) /\ e.err = "none" /\ mode.vers = 13
    BY Where DEF Local, Core, EpochsOK, Running, Ends
  <1>3. p \in Ends
    BY DEF Ends
  <1>4. e.pc = 5 => Good(p, e, Advance(p, ClientEarlyKeys(e)))
    <2> SUFFICES ASSUME e.pc = 5 PROVE Good(p, e, Advance(p, ClientEarlyKeys(e)))
      OBVIOUS
    <2> DEFINE a == SetKeys(e, NoKey, EarlyKey(e))
               b == [a EXCEPT !.we = e.next]
               f == BumpDup(b)
               m == Moved(f)
    <2>1. e.next = 1 /\ e.keys[1] = Unset
      BY <1>2 DEF Client13Epochs
    <2>2. SameButKeys(e, a) /\ a.next = e.next /\ a.re = e.re /\ DOMAIN a.keys = DOMAIN e.keys
      <3> DEFINE k == EarlyKey(e)
      <3> HIDE DEF k
      <3>1. LET g == SetKeys(e, NoKey, k)
            IN  SameButKeys(e, g) /\ g.next = e.next /\ g.re = e.re /\ DOMAIN g.keys = DOMAIN e.keys
        BY <1>1, SetKeysFrame
      <3> QED BY <3>1 DEF k
    <2> HIDE DEF a
    <2>3. /\ SameButKeys(e, b) /\ b.next = 1 /\ b.re = e.re /\ b.we = 1
          /\ DOMAIN b.keys = 0..1
      <3>1. DOMAIN a = Fields /\ DOMAIN a.keys = 0..1
        BY <2>1, <2>2, <1>1 DEF SameButKeys
      <3>2. /\ SameButKeys(a, b) /\ b.next = a.next /\ b.re = a.re /\ b.we = e.next
            /\ b.keys = a.keys
        BY <3>1 DEF SameButKeys, SameControl, SameSecrets, SameBuffers, Fields
      <3> HIDE DEF b
      <3>3. SameButKeys(e, b)
        BY <3>2, <2>2 DEF SameButKeys, SameControl, SameSecrets, SameBuffers
      <3> QED BY <3>1, <3>2, <3>3, <2>1, <2>2
    <2> HIDE DEF b
    <2>4. DOMAIN b = Fields /\ b.min = 0 /\ b.next \in 1..2 /\ DOMAIN b.keys = 0..b.next
      BY <2>3, <1>1 DEF SameButKeys
    <2>5. /\ SameButKeys(b, f) /\ f.next = b.next + 1 /\ f.re = b.re /\ f.we = b.we
          /\ DOMAIN f.keys = 0..(b.next + 1)
          /\ f.keys[b.next + 1] = Unset
      BY <2>4, BumpFields
    <2> HIDE DEF f
    <2>6. SameButKeys(e, f) /\ f.next = 2 /\ f.re = e.re /\ f.we = 1 /\ DOMAIN f.keys = 0..2 /\ f.keys[2] = Unset
      BY <2>3, <2>5 DEF SameButKeys, SameControl, SameSecrets, SameBuffers
    <2>7. DOMAIN f = Fields
      BY <2>6 DEF SameButKeys
    <2>8. m.pc = 6 /\ m.prog = "13" /\ SameEpochs(f, m)
      <3>1. DOMAIN f = Fields
        BY <2>7
      <3>2. m.pc = f.pc + 1 /\ m.prog = f.prog /\ SameEpochs(f, m) /\ SameSecrets(f, m)
        BY <3>1, MovedFields
      <3> HIDE DEF m
      <3>3. f.pc = e.pc /\ f.prog = e.prog /\ f.psk = e.psk
        BY <2>6 DEF SameButKeys, SameControl, SameSecrets
      <3>4. m.psk = f.psk
        BY <3>2 DEF SameSecrets
      <3> QED BY <3>2, <3>3, <3>4
    <2>9. EpochsOK(p, m)
      <3> HIDE DEF m
      <3>1. m.next = 2 /\ m.re \in 0..1 /\ m.we = 1 /\ DOMAIN m.keys = 0..2 /\ m.keys[2] = Unset /\ m.min = 0
        BY <2>1, <2>6, <2>8, <1>1 DEF SameEpochs, SameButKeys
      <3> QED BY <3>1, <2>8 DEF EpochsOK, Client13Epochs, Past
    <2>10. ClientEarlyKeys(e) = f
      BY DEF ClientEarlyKeys, f, b, a
    <2>11. PlainMessages(p, e) /\ KeysKept(p, e, f) /\ SameFlags(e, f)
      BY <2>6, <1>2 DEF PlainMessages, KeysKept, SameFlags, SameButKeys, Has
    <2> QED BY <2>6, <2>7, <2>9, <2>10, <2>11, <1>1, <1>2, <1>3, KeysGood DEF SameButKeys, SameControl
  <1>5. e.pc = 7 => Good(p, e, Advance(p, ClientHsKeys(e)))
    <2> SUFFICES ASSUME e.pc = 7 PROVE Good(p, e, Advance(p, ClientHsKeys(e)))
      OBVIOUS
    <2> DEFINE k == HsKey(e)
               f == ClientHsKeys(e)
               m == Moved(f)
    <2>1. e.next <= 2 /\ e.keys[e.next] = Unset
      BY <1>2 DEF Client13Epochs
    <2>2. k.stage = "hs" /\ k.psk = e.psk
      BY DEF HsKey, Key
    <2> HIDE DEF k
    <2>3. Inited(e, f, k) /\ f.re = e.next /\ f.we \in 0..e.next
      BY <1>1, InitFields DEF ClientHsKeys, k
    <2> HIDE DEF f
    <2>4. /\ SameButKeys(e, f) /\ f.next = e.next /\ DOMAIN f.keys = 0..e.next
          /\ f.keys[e.next] = Both(k)
      BY <2>1, <2>3, <1>1 DEF Inited
    <2>5. m.pc = 8 /\ m.prog = "13" /\ SameEpochs(f, m) /\ m.psk = e.psk
      <3>1. DOMAIN f = Fields
        BY <2>4 DEF SameButKeys
      <3>2. m.pc = f.pc + 1 /\ m.prog = f.prog /\ SameEpochs(f, m) /\ SameSecrets(f, m)
        BY <3>1, MovedFields
      <3> HIDE DEF m
      <3>3. f.pc = e.pc /\ f.prog = e.prog /\ f.psk = e.psk
        BY <2>4 DEF SameButKeys, SameControl, SameSecrets
      <3>4. m.psk = f.psk
        BY <3>2 DEF SameSecrets
      <3> QED BY <3>2, <3>3, <3>4
    <2>6. EpochsOK(p, m)
      <3> HIDE DEF m
      <3>1. /\ m.next = e.next /\ m.re = e.next /\ m.we \in 0..e.next /\ DOMAIN m.keys = 0..e.next
            /\ m.keys[e.next].r = k /\ m.min = 0
        BY <2>3, <2>4, <2>5, <1>1 DEF SameEpochs, SameButKeys, Both
      <3> QED BY <3>1, <2>1, <2>2, <2>5, <1>1 DEF EpochsOK, Client13Epochs, Past
    <2>7. PlainMessages(p, e) /\ KeysKept(p, e, f) /\ SameFlags(e, f)
      BY <2>4, <1>2 DEF PlainMessages, KeysKept, SameFlags, SameButKeys, Has
    <2> QED BY <2>4, <2>6, <2>7, <1>1, <1>2, <1>3, KeysGood DEF SameButKeys, SameControl, f
  <1>6. e.pc = 14 => Good(p, e, Advance(p, ClientEndEarly(e)))
    <2> SUFFICES ASSUME e.pc = 14 PROVE Good(p, e, Advance(p, ClientEndEarly(e)))
      OBVIOUS
    <2> DEFINE k == HsKey(e)
               d == [e EXCEPT !.flags = @ \ {"in_flight"}]
               f == ClientEndEarly(e)
               m == Moved(f)
    <2>1. e.next <= 2 /\ e.re = e.next /\ e.keys[e.next].r.stage = "hs" /\ e.keys[e.next].r.psk = e.psk
      BY <1>2 DEF Client13Epochs
    <2>2. e.keys[e.next] # Unset
      BY <2>1 DEF Unset, NoKey, Label
    <2>3. /\ DOMAIN d = Fields /\ d.flags = e.flags \ {"in_flight"} /\ SameControl(e, d) /\ SameEpochs(e, d)
          /\ SameSecrets(e, d) /\ SameBuffers(e, d) /\ d.tickets = e.tickets /\ d.err = e.err
      BY <1>1 DEF Fields, SameControl, SameEpochs, SameSecrets, SameBuffers
    <2> HIDE DEF d, k
    <2>4. /\ DOMAIN f = Fields /\ SameFlags(e, f) /\ f.flags \subseteq Flags /\ SameControl(e, f)
          /\ SameSecrets(e, f) /\ SameBuffers(e, f) /\ f.tickets = e.tickets /\ f.err = e.err
          /\ f.min = 0 /\ f.next = e.next /\ f.re = e.next /\ f.we \in 0..e.next
          /\ DOMAIN f.keys = 0..e.next /\ f.keys[e.next] = e.keys[e.next]
      <3>1. CASE Has(e, "in_flight")
        <4>1. f = WriteInit(d, k)
          BY <3>1 DEF ClientEndEarly, d, k
        <4>2. DOMAIN d = Fields /\ d.next \in DOMAIN d.keys
          BY <2>3, <1>1 DEF SameEpochs
        <4> HIDE DEF f
        <4>3. Inited(d, f, k) /\ f.we = d.next /\ f.re = d.re
          BY <4>1, <4>2, InitFields
        <4>4. SameButKeys(d, f) /\ f.next = e.next /\ f.re = e.next /\ f.we = e.next
          BY <4>3, <2>1, <2>3 DEF Inited, SameEpochs
        <4>5. f.keys[e.next] = e.keys[e.next] /\ DOMAIN f.keys = 0..e.next
          BY <4>3, <2>2, <2>3, <1>1 DEF Inited, SameEpochs
        <4>6. SameFlags(e, f) /\ f.flags \subseteq Flags
          BY <4>4, <2>3, <1>1 DEF SameButKeys, SameFlags, Has
        <4> QED BY <4>4, <4>5, <4>6, <2>3, <1>1
             DEF SameButKeys, SameControl, SameEpochs, SameSecrets, SameBuffers
      <3>2. CASE ~Has(e, "in_flight")
        <4>1. f = e
          BY <3>2 DEF ClientEndEarly
        <4> QED BY <4>1, <2>1, <1>1 DEF SameFlags, SameControl, SameSecrets, SameBuffers
      <3> QED BY <3>1, <3>2
    <2> HIDE DEF f
    <2>5. m.pc = 15 /\ m.prog = "13" /\ SameEpochs(f, m) /\ m.psk = e.psk
      <3>1. DOMAIN f = Fields
        BY <2>4
      <3>2. m.pc = f.pc + 1 /\ m.prog = f.prog /\ SameEpochs(f, m) /\ SameSecrets(f, m)
        BY <3>1, MovedFields
      <3> HIDE DEF m
      <3>3. f.pc = e.pc /\ f.prog = e.prog /\ f.psk = e.psk
        BY <2>4 DEF SameControl, SameSecrets
      <3>4. m.psk = f.psk
        BY <3>2 DEF SameSecrets
      <3> QED BY <3>2, <3>3, <3>4
    <2>6. EpochsOK(p, m)
      <3> HIDE DEF m
      <3>1. /\ m.next = e.next /\ m.re = e.next /\ m.we \in 0..e.next /\ DOMAIN m.keys = 0..e.next
            /\ m.keys[e.next].r = e.keys[e.next].r /\ m.min = 0
        BY <2>4, <2>5 DEF SameEpochs
      <3> QED BY <3>1, <2>1, <2>5, <1>1 DEF EpochsOK, Client13Epochs, Past
    <2>7. PlainMessages(p, e) /\ KeysKept(p, e, f)
      BY <1>2 DEF PlainMessages, KeysKept
    <2> QED BY <2>4, <2>6, <2>7, <1>2, <1>3, KeysGood DEF SameControl, f
  <1> QED BY <1>4, <1>5, <1>6

\* The handshake keys of the TLS 1.3 server.
LEMMA ServerKeysGood ==
  ASSUME NEW e, Versions, Local("server", e), Running(e), e.prog = "13"
  PROVE  /\ e.pc = 8 => Good("server", e, Advance("server", ServerHsKeys(e)))
         /\ e.pc = 15 => Good("server", e, Advance("server", ServerEndEarly(e)))
  <1> DEFINE p == "server"
  <1>1. /\ DOMAIN e = Fields /\ e.flags \subseteq Flags
        /\ e.min = 0 /\ e.next \in 1..3 /\ DOMAIN e.keys = 0..e.next
        /\ e.re \in 0..e.next /\ e.we \in 0..e.next /\ e.next \in DOMAIN e.keys
    BY Table DEF Ends
  <1>2. Server13Epochs(e) /\ e.err = "none" /\ mode.vers = 13
    BY Where DEF Local, Core, EpochsOK, Running, Ends
  <1>3. p \in Ends
    BY DEF Ends
  <1>4. e.pc = 8 => Good(p, e, Advance(p, ServerHsKeys(e)))
    <2> SUFFICES ASSUME e.pc = 8 PROVE Good(p, e, Advance(p, ServerHsKeys(e)))
      OBVIOUS
    <2> DEFINE k == HsKey(e)
               f == ServerHsKeys(e)
               m == Moved(f)
               a == SetKeys(e, EarlyKey(e), NoKey)
               b == [a EXCEPT !.re = e.next]
               c == BumpDup(b)
    <2>1. e.next = 1 /\ e.keys[1] = Unset
      BY <1>2 DEF Server13Epochs
    <2>2. k.stage = "hs" /\ k.psk = e.psk
      BY DEF HsKey, Key
    <2> HIDE DEF k
    <2>3. /\ SameButKeys(e, f) /\ f.next \in 1..2 /\ DOMAIN f.keys = 0..f.next /\ f.we = f.next
          /\ f.re \in 0..f.next /\ f.keys[f.next] = Both(k)
          /\ ~Has(e, "accepted") => f.re = f.next
      <3>1. CASE ~Has(e, "accepted")
        <4>1. f = ConnectionInit(e, k)
          BY <3>1 DEF ServerHsKeys, k
        <4> HIDE DEF f
        <4>2. Inited(e, f, k) /\ f.re = e.next /\ f.we = e.next
          BY <1>1, <4>1, InitFields
        <4> QED BY <4>2, <2>1, <1>1 DEF Inited
      <3>2. CASE Has(e, "accepted")
        <4>1. f = WriteInit(c, k)
          BY <3>2 DEF ServerHsKeys, k
        <4> HIDE DEF f
        <4>2. SameButKeys(e, a) /\ a.next = e.next /\ a.we = e.we /\ DOMAIN a.keys = DOMAIN e.keys
          <5> DEFINE k2 == EarlyKey(e)
          <5> HIDE DEF k2
          <5>1. LET g == SetKeys(e, k2, NoKey)
                IN  SameButKeys(e, g) /\ g.next = e.next /\ g.we = e.we /\ DOMAIN g.keys = DOMAIN e.keys
            BY <1>1, SetKeysFrame
          <5> QED BY <5>1 DEF k2
        <4> HIDE DEF a
        <4>3. DOMAIN a = Fields /\ DOMAIN a.keys = 0..1
          BY <2>1, <4>2, <1>1 DEF SameButKeys
        <4>4. /\ SameButKeys(a, b) /\ b.next = a.next /\ b.re = e.next
              /\ b.keys = a.keys
          BY <4>3 DEF SameButKeys, SameControl, SameSecrets, SameBuffers, Fields
        <4> HIDE DEF b
        <4>5. SameButKeys(e, b) /\ b.next = 1 /\ b.re = 1 /\ DOMAIN b.keys = 0..1
          BY <4>2, <4>3, <4>4, <2>1 DEF SameButKeys, SameControl, SameSecrets, SameBuffers
        <4>6. DOMAIN b = Fields /\ b.min = 0 /\ b.next \in 1..2 /\ DOMAIN b.keys = 0..b.next
          BY <4>5, <1>1 DEF SameButKeys
        <4>7. /\ SameButKeys(b, c) /\ c.next = b.next + 1 /\ c.re = b.re
              /\ DOMAIN c.keys = 0..(b.next + 1)
              /\ c.keys[b.next + 1] = Unset
          BY <4>6, BumpFields
        <4> HIDE DEF c
        <4>8. SameButKeys(e, c) /\ c.next = 2 /\ c.re = 1 /\ DOMAIN c.keys = 0..2 /\ c.keys[2] = Unset
          BY <4>5, <4>7 DEF SameButKeys, SameControl, SameSecrets, SameBuffers
        <4>9. DOMAIN c = Fields /\ c.next \in DOMAIN c.keys
          BY <4>8 DEF SameButKeys
        <4>10. Inited(c, f, k) /\ f.we = c.next /\ f.re = c.re
          BY <4>1, <4>9, InitFields
        <4>11. SameButKeys(e, f)
          BY <4>8, <4>10 DEF Inited, SameButKeys, SameControl, SameSecrets, SameBuffers
        <4> QED BY <3>2, <4>8, <4>10, <4>11 DEF Inited
      <3> QED BY <3>1, <3>2
    <2> HIDE DEF f
    <2>5. m.pc = 9 /\ m.prog = "13" /\ SameEpochs(f, m) /\ m.psk = e.psk /\ m.flags = e.flags
      <3>1. DOMAIN f = Fields
        BY <2>3 DEF SameButKeys
      <3>2. m.pc = f.pc + 1 /\ m.prog = f.prog /\ SameEpochs(f, m) /\ SameSecrets(f, m) /\ m.flags = f.flags
        BY <3>1, MovedFields
      <3> HIDE DEF m
      <3>3. f.pc = e.pc /\ f.prog = e.prog /\ f.psk = e.psk /\ f.flags = e.flags
        BY <2>3 DEF SameButKeys, SameControl, SameSecrets
      <3>4. m.psk = f.psk
        BY <3>2 DEF SameSecrets
      <3> QED BY <3>2, <3>3, <3>4
    <2>6. EpochsOK(p, m)
      <3> HIDE DEF m
      <3>1. /\ m.next \in 1..2 /\ m.we = m.next /\ m.re \in 0..m.next /\ DOMAIN m.keys = 0..m.next
            /\ m.keys[m.next].r = k /\ m.keys[m.next].w = k /\ m.min = 0
            /\ ~Has(m, "accepted") => m.re = m.next
        BY <2>3, <2>5, <1>1 DEF SameEpochs, SameButKeys, Both, Has
      <3> QED BY <3>1, <2>2, <2>5 DEF EpochsOK, Server13Epochs, Past
    <2>7. PlainMessages(p, e) /\ KeysKept(p, e, f) /\ SameFlags(e, f)
      BY <2>3, <1>2 DEF PlainMessages, KeysKept, SameFlags, SameButKeys, Has
    <2> QED BY <2>3, <2>6, <2>7, <1>1, <1>2, <1>3, KeysGood DEF SameButKeys, SameControl, f
  <1>5. e.pc = 15 => Good(p, e, Advance(p, ServerEndEarly(e)))
    <2> SUFFICES ASSUME e.pc = 15 PROVE Good(p, e, Advance(p, ServerEndEarly(e)))
      OBVIOUS
    <2> DEFINE k == HsKey(e)
               f == ServerEndEarly(e)
               m == Moved(f)
    <2>1. /\ e.next <= 2 /\ e.we = e.next
          /\ e.keys[e.next].r = e.keys[e.next].w
          /\ e.keys[e.next].w.stage = "hs"
          /\ e.keys[e.next].w.psk = e.psk
          /\ ~Has(e, "accepted") => e.re = e.next
      BY <1>2 DEF Server13Epochs
    <2>2. e.keys[e.next] # Unset
      BY <2>1 DEF Unset, NoKey, Label
    <2> HIDE DEF k
    <2>3. /\ SameButKeys(e, f) /\ f.next = e.next /\ f.re = e.next /\ f.we = e.next
          /\ DOMAIN f.keys = 0..e.next /\ f.keys[e.next] = e.keys[e.next]
      <3>1. CASE Has(e, "accepted")
        <4>1. f = ReadInit(e, k)
          BY <3>1 DEF ServerEndEarly, k
        <4> HIDE DEF f
        <4>2. Inited(e, f, k) /\ f.re = e.next /\ f.we = e.we
          BY <1>1, <4>1, InitFields
        <4> QED BY <4>2, <2>1, <2>2, <1>1 DEF Inited
      <3>2. CASE ~Has(e, "accepted")
        <4>1. f = e
          BY <3>2 DEF ServerEndEarly
        <4> QED BY <4>1, <3>2, <2>1, <1>1 DEF SameButKeys, SameControl, SameSecrets, SameBuffers
      <3> QED BY <3>1, <3>2
    <2> HIDE DEF f
    <2>5. m.pc = 16 /\ m.prog = "13" /\ SameEpochs(f, m) /\ m.psk = e.psk
      <3>1. DOMAIN f = Fields
        BY <2>3 DEF SameButKeys
      <3>2. m.pc = f.pc + 1 /\ m.prog = f.prog /\ SameEpochs(f, m) /\ SameSecrets(f, m)
        BY <3>1, MovedFields
      <3> HIDE DEF m
      <3>3. f.pc = e.pc /\ f.prog = e.prog /\ f.psk = e.psk
        BY <2>3 DEF SameButKeys, SameControl, SameSecrets
      <3>4. m.psk = f.psk
        BY <3>2 DEF SameSecrets
      <3> QED BY <3>2, <3>3, <3>4
    <2>6. EpochsOK(p, m)
      <3> HIDE DEF m
      <3>1. /\ m.next = e.next /\ m.we = e.next /\ m.re = e.next /\ DOMAIN m.keys = 0..e.next
            /\ m.keys[e.next] = e.keys[e.next] /\ m.min = 0
        BY <2>3, <2>5, <1>1 DEF SameEpochs, SameButKeys
      <3> QED BY <3>1, <2>1, <2>5, <1>1 DEF EpochsOK, Server13Epochs, Past
    <2>7. PlainMessages(p, e) /\ KeysKept(p, e, f) /\ SameFlags(e, f)
      BY <2>3, <1>2 DEF PlainMessages, KeysKept, SameFlags, SameButKeys, Has
    <2> QED BY <2>3, <2>6, <2>7, <1>1, <1>2, <1>3, KeysGood DEF SameButKeys, SameControl, f
  <1> QED BY <1>4, <1>5

\* The keys of TLS 1.2, set by the first of both directions.
LEMMA Keys12Good ==
  ASSUME NEW p \in Ends, NEW e, Versions, Local(p, e), Running(e), e.prog \in {"12", "12r"}
  PROVE  /\ e.pc = Write12(p, e.prog) => Good(p, e, Advance(p, WriteInit(e, Key12(e))))
         /\ e.pc = Read12(p, e.prog) => Good(p, e, Advance(p, ReadInit(e, Key12(e))))
  <1>1. /\ DOMAIN e = Fields /\ e.flags \subseteq Flags
        /\ e.min = 0 /\ e.next \in 1..3 /\ DOMAIN e.keys = 0..e.next
        /\ e.re \in 0..e.next /\ e.we \in 0..e.next /\ e.next \in DOMAIN e.keys
    BY Table
  <1>2. Epochs12(p, e) /\ e.err = "none" /\ mode.vers = 12 /\ e.prog = Version /\ e.pc \in Nat
    BY Where DEF Local, Core, EpochsOK, Running, Versions
  <1>3. p = "client" \/ p = "server"
    BY DEF Ends
  <1>4. ASSUME NEW f, NEW k, Inited(e, f, k),
               \/ e.pc = Write12(p, e.prog) /\ f.we = e.next /\ f.re = e.re
               \/ e.pc = Read12(p, e.prog) /\ f.re = e.next /\ f.we = e.we
        PROVE  Good(p, e, Advance(p, f))
    <2> DEFINE m == Moved(f)
    <2>1. e.next = 1 /\ e.keys[1].r = e.keys[1].w
      BY <1>2 DEF Epochs12
    <2>2. /\ SameButKeys(e, f) /\ f.next = 1 /\ DOMAIN f.keys = 0..1 /\ f.keys[1].r = f.keys[1].w
      BY <1>1, <1>4, <2>1 DEF Inited, Both
    <2>5. m.pc = e.pc + 1 /\ m.prog = e.prog /\ SameEpochs(f, m)
      <3>1. DOMAIN f = Fields
        BY <2>2 DEF SameButKeys
      <3>2. m.pc = f.pc + 1 /\ m.prog = f.prog /\ SameEpochs(f, m)
        BY <3>1, MovedFields
      <3> HIDE DEF m
      <3>3. f.pc = e.pc /\ f.prog = e.prog
        BY <2>2 DEF SameButKeys, SameControl
      <3> QED BY <3>2, <3>3
    <2>6. EpochsOK(p, m)
      <3> HIDE DEF m
      <3>1. /\ m.next = 1 /\ DOMAIN m.keys = 0..1 /\ m.keys[1].r = m.keys[1].w /\ m.min = 0
            /\ m.re = f.re /\ m.we = f.we /\ f.re \in 0..1 /\ f.we \in 0..1
        BY <2>1, <2>2, <2>5, <1>1, <1>4 DEF SameEpochs, SameButKeys
      <3>2. Write12(p, e.prog) \in Nat /\ Read12(p, e.prog) \in Nat /\ Write12(p, e.prog) # Read12(p, e.prog)
        BY DEF Write12, Read12
      <3>3. Epochs12(p, m)
        BY <3>1, <3>2, <2>1, <2>5, <1>2, <1>4 DEF Epochs12
      <3> QED BY <3>1, <3>3, <2>5 DEF EpochsOK, Past
    <2>7. PlainMessages(p, e)
      BY <1>3, <1>4 DEF PlainMessages, Write12, Read12
    <2>8. KeysKept(p, e, f)
      <3>1. IF p = LastSender THEN ~Did(e, Version, LastSend) ELSE ~Beyond(e, Version, LastRecv)
        BY <1>2, <1>3, <1>4 DEF LastSender, LastSend, LastRecv, Did, Beyond, Past, Write12, Read12
      <3> QED BY <3>1 DEF KeysKept
    <2>9. SameFlags(e, f)
      BY <2>2 DEF SameFlags, SameButKeys, Has
    <2> QED BY <2>2, <2>6, <2>7, <2>8, <2>9, <1>1, <1>2, KeysGood DEF SameButKeys, SameControl
  <1>5. LET f == WriteInit(e, Key12(e)) IN Inited(e, f, Key12(e)) /\ f.we = e.next /\ f.re = e.re
    BY <1>1, InitFields
  <1>6. LET f == ReadInit(e, Key12(e)) IN Inited(e, f, Key12(e)) /\ f.re = e.next /\ f.we = e.we
    BY <1>1, InitFields
  <1> QED BY <1>4, <1>5, <1>6

-----------------------------------------------------------------------------
(* Steps that change the transcript or what depends on it.                   *)

\* In the TLS 1.3 server's engine.
LEMMA FrozenServer13 ==
  ASSUME NEW e, NEW m, mode.vers = 13, e.prog = "13", m.prog = "13", e.pc \in Nat,
         m.pc = e.pc + 1 \/ (m.pc = e.pc /\ (e.again => m.again)),
         e.pc > 9 => (Has(m, "accepted") <=> Has(e, "accepted")),
         Has(e, "early_start_used") \/ e.pc > 22 => m.rms = e.rms,
         Has(e, "early_start_used") => Has(m, "early_start_used"),
         e.pc > 13 \/ (e.pc = 13 /\ e.again) => m.mark = e.mark /\ m.psk = e.psk,
         e.pc > 21 => m.tr = e.tr
  PROVE  /\ Frozen("server", e, m)
         /\ m.tickets = e.tickets /\ (e.pc # 21 \/ m.pc = 21) => NoCross("server", e, m)
  <1>1. ~Past(e) /\ ~Past(m) /\ Version = "13" /\ LastSender = "client" /\ LastRecv = 21
    BY DEF Past, Version, LastSender, LastRecv
  <1>2. \A n \in Nat : /\ Beyond(e, "13", n) <=> e.pc > n
                       /\ Beyond(m, "13", n) <=> m.pc > n
                       /\ Did(e, "13", n) <=> e.pc > n \/ (e.pc = n /\ e.again)
                       /\ Did(m, "13", n) <=> m.pc > n \/ (m.pc = n /\ m.again)
    BY <1>1 DEF Beyond, Did
  <1>3. \A n \in Nat : /\ Beyond(e, "13", n) => Beyond(m, "13", n)
                       /\ Did(e, "13", n) => Did(m, "13", n)
    BY <1>2
  <1>4. Full(m) = m.tr /\ Full(e) = e.tr
    BY <1>1 DEF Full
  <1>5. RmsFixed(e) <=> Has(e, "early_start_used") \/ e.pc > 22
    BY <1>2 DEF RmsFixed
  <1>6. RmsFixed(e) => RmsFixed(m) /\ m.rms = e.rms
    BY <1>3, <1>5 DEF RmsFixed
  <1>7. Frozen("server", e, m)
    BY <1>1, <1>2, <1>3, <1>4, <1>6 DEF Frozen
  <1>8. e.pc # 21 \/ m.pc = 21 => (Beyond(m, "13", 21) => Beyond(e, "13", 21))
    BY <1>2
  <1> QED BY <1>1, <1>7, <1>8 DEF NoCross

\* In the TLS 1.3 client's engine.
LEMMA FrozenClient13 ==
  ASSUME NEW e, NEW m, mode.vers = 13, e.prog = "13", m.prog = "13", e.pc \in Nat,
         m.pc = e.pc + 1 \/ (m.pc = e.pc /\ (e.again => m.again)),
         e.pc > 8 => (Has(m, "accepted") <=> Has(e, "accepted")),
         e.pc > 12 => m.mark = e.mark /\ m.psk = e.psk,
         e.pc > 17 \/ (e.pc = 17 /\ e.again) => m.tr = e.tr
  PROVE  /\ Frozen("client", e, m)
         /\ m.tickets = e.tickets /\ (e.pc \notin {8, 12} \/ m.pc = e.pc) => NoCross("client", e, m)
  <1>1. ~Past(e) /\ ~Past(m) /\ Version = "13" /\ LastSender = "client" /\ LastSend = 17
    BY DEF Past, Version, LastSender, LastSend
  <1>2. \A n \in Nat : /\ Beyond(e, "13", n) <=> e.pc > n
                       /\ Beyond(m, "13", n) <=> m.pc > n
                       /\ Did(e, "13", n) <=> e.pc > n \/ (e.pc = n /\ e.again)
                       /\ Did(m, "13", n) <=> m.pc > n \/ (m.pc = n /\ m.again)
    BY <1>1 DEF Beyond, Did
  <1>3. \A n \in Nat : /\ Beyond(e, "13", n) => Beyond(m, "13", n)
                       /\ Did(e, "13", n) => Did(m, "13", n)
    BY <1>2
  <1>4. Full(m) = m.tr /\ Full(e) = e.tr
    BY <1>1 DEF Full
  <1>7. Frozen("client", e, m)
    BY <1>1, <1>2, <1>3, <1>4 DEF Frozen
  <1>8. e.pc \notin {8, 12} \/ m.pc = e.pc =>
          /\ Beyond(m, "13", 12) => Beyond(e, "13", 12)
          /\ Beyond(m, "13", 8) => Beyond(e, "13", 8)
    BY <1>2
  <1> QED BY <1>1, <1>7, <1>8 DEF NoCross

\* In an engine of TLS 1.2.
LEMMA Frozen12 ==
  ASSUME NEW p \in Ends, NEW e, NEW m, mode.vers = 12, e.prog = Version, m.prog = Version,
         e.pc \in Nat, m.pc = e.pc + 1 \/ (m.pc = e.pc /\ (e.again => m.again)),
         m.rms = e.rms,
         \/ m.tr = e.tr
         \/ IF p = LastSender THEN e.pc < LastSend \/ (e.pc = LastSend /\ ~e.again)
                              ELSE e.pc <= LastRecv,
         m.keys[1].w = e.keys[1].w
  PROVE  /\ Frozen(p, e, m)
         /\ m.tickets = e.tickets /\ (e.pc # LastRecv \/ m.pc = e.pc) => NoCross(p, e, m)
  <1>1. Version \in {"12", "12r"} /\ ~Past(e) /\ ~Past(m)
    BY DEF Past, Version
  <1>2. LastSend \in Nat /\ LastRecv \in Nat
    BY DEF LastSend, LastRecv
  <1>3. \A n \in Nat : /\ Beyond(e, Version, n) <=> e.pc > n
                       /\ Beyond(m, Version, n) <=> m.pc > n
                       /\ Did(e, Version, n) <=> e.pc > n \/ (e.pc = n /\ e.again)
                       /\ Did(m, Version, n) <=> m.pc > n \/ (m.pc = n /\ m.again)
    BY <1>1 DEF Beyond, Did
  <1>4. \A n \in Nat : ~Beyond(e, "13", n) /\ ~Did(e, "13", n)
    BY <1>1 DEF Beyond, Did
  <1>5. \A n \in Nat : /\ Beyond(e, Version, n) => Beyond(m, Version, n)
                       /\ Did(e, Version, n) => Did(m, Version, n)
    BY <1>3
  <1>6. Full(m) = m.tr /\ Full(e) = e.tr /\ RmsFixed(m)
    BY <1>1 DEF Full, RmsFixed
  <1>7. p = LastSender /\ Did(e, Version, LastSend) => m.tr = e.tr
    BY <1>2, <1>3
  <1>8. p # LastSender /\ Beyond(e, Version, LastRecv) => m.tr = e.tr
    BY <1>2, <1>3
  <1>9. Frozen(p, e, m)
    BY <1>2, <1>4, <1>5, <1>6, <1>7, <1>8 DEF Frozen
  <1>10. e.pc # LastRecv \/ m.pc = e.pc => (Beyond(m, Version, LastRecv) => Beyond(e, Version, LastRecv))
    BY <1>2, <1>3
  <1> QED BY <1>9, <1>10 DEF NoCross

\* After the initial handshake.
LEMMA FrozenPast ==
  ASSUME NEW p, NEW e, NEW m, Past(e), Past(m), m.rms = e.rms, m.mark = e.mark, m.psk = e.psk,
         m.saved = e.saved, Has(m, "accepted") <=> Has(e, "accepted"), m.keys[1].w = e.keys[1].w
  PROVE  /\ Frozen(p, e, m)
         /\ m.tickets = e.tickets => NoCross(p, e, m)
  <1>1. \A prog, n : Beyond(m, prog, n) /\ Did(m, prog, n) /\ Beyond(e, prog, n)
    BY DEF Beyond, Did
  <1>2. Full(m) = Full(e) /\ RmsFixed(m)
    BY <1>1 DEF Full, RmsFixed
  <1> QED BY <1>1, <1>2 DEF Frozen, NoCross

\* Before the hellos are through.
LEMMA FrozenStart ==
  ASSUME NEW p, NEW e, NEW m, e.prog = "start", Versions, TranscriptOK(p, e), m.rms = e.rms
  PROVE  Frozen(p, e, m)
  <1>1. \A prog, n : prog # "start" => ~Beyond(e, prog, n) /\ ~Did(e, prog, n)
    BY DEF Beyond, Did, Past
  <1>2. Version # "start"
    BY DEF Version
  <1>3. p = "server" /\ RmsFixed(e) => mode.vers = 12
    BY <1>1 DEF RmsFixed, TranscriptOK, ServerTr, Versions
  <1> QED BY <1>1, <1>2, <1>3 DEF Frozen, RmsFixed

\* A step of an engine, from what holds after it.
LEMMA StepGood ==
  ASSUME NEW p \in Ends, NEW e, NEW f, Versions, Local(p, e), Running(e),
         DOMAIN f = Fields, f.err = "none", f.prog = e.prog, f.pc = e.pc, f.flags \subseteq Flags,
         e.prog = "start" => e.pc < Len(Engine(p, e.prog)),
         LET m == Moved(f)
         IN  EpochsOK(p, m) /\ TranscriptOK(p, m) /\ Frozen(p, e, m),
         IsSeq(f.q), IsSeq(f.out), IsSeq(f.wire),
         \A x \in Messages(f.q) : \/ x \in Messages(e.q)
                                  \/ Told(p, Moved(f), x) /\ x.msg # "Finished",
         \A y \in Sent(f) :
            \/ y \in Sent(e)
            \/ \E x \in Messages(e.q) : y.msg = x.msg /\ y.info = x.info /\ y.ctx = x.ctx
            \/ Told(p, Moved(f), y) /\ (y.msg = "Finished" => FinishedOK(p, Moved(f), y))
  PROVE  /\ Local(p, Advance(p, f)) /\ Frozen(p, e, Advance(p, f))
         /\ NoCross(p, e, Moved(f)) => Good(p, e, Advance(p, f))
         /\ NoCross(p, Moved(f), Advance(p, f)) /\ Frozen(p, Moved(f), Advance(p, f))
  <1> DEFINE m == Moved(f)
  <1>1. /\ DOMAIN m = Fields
        /\ m.pc = f.pc + 1 /\ m.again = FALSE /\ m.prog = f.prog
        /\ SameBuffers(f, m) /\ m.flags = f.flags /\ m.tickets = f.tickets
    BY MovedFields
  <1>2. e.prog # "none" /\ e.pc \in Nat /\ e.pc <= Len(Engine(p, e.prog)) /\ Core(p, e) /\ Control(p, e)
    BY Where DEF Local, Core, Running
  <1> HIDE DEF m
  <1>3. Control(p, m)
    BY <1>1, <1>2, ControlMoved
  <1>4. m.q = f.q /\ Sent(m) = Sent(f) /\ m.out = f.out /\ m.wire = f.wire
    BY <1>1 DEF SameBuffers, Sent
  <1>5. Frozen(p, e, m)
    BY DEF m
  <1>6. /\ \A x \in Messages(m.q) : \/ x \in Messages(e.q)
                                    \/ Told(p, m, x) /\ x.msg # "Finished"
        /\ \A y \in Sent(m) :
              \/ y \in Sent(e)
              \/ \E x \in Messages(e.q) : y.msg = x.msg /\ y.info = x.info /\ y.ctx = x.ctx
              \/ Told(p, m, y) /\ (y.msg = "Finished" => FinishedOK(p, m, y))
    BY <1>4 DEF m
  <1>7. ItemsOK(p, m)
    BY <1>2, <1>4, <1>5, <1>6, ItemsStep DEF Core
  <1>8. Core(p, m)
    BY <1>3, <1>7 DEF Core, m
  <1>9. Core(p, Moved(f)) /\ Frozen(p, e, Moved(f))
    BY <1>5, <1>8 DEF m
  <1>10. /\ Local(p, Advance(p, f)) /\ Frozen(p, e, Advance(p, f))
         /\ NoCross(p, e, Moved(f)) => Good(p, e, Advance(p, f))
         /\ NoCross(p, Moved(f), Advance(p, f))
    BY <1>2, <1>9, MovedGood
  <1>11. Frozen(p, Moved(f), Advance(p, f))
    BY <1>2, <1>9, Advanced
  <1> QED BY <1>10, <1>11

\* The first ClientHello is replaced by its hash.
LEMMA SynthGood ==
  ASSUME NEW e, Versions, Local("server", e), Running(e), e.prog = "13", e.pc = 2
  PROVE  Good("server", e, Advance("server", [e EXCEPT !.tr = <<Synthetic>>]))
  <1> DEFINE p == "server"
             t == <<Synthetic>>
             f == [e EXCEPT !.tr = t]
             m == Moved(f)
  <1>1. p \in Ends /\ Core(p, e) /\ Control(p, e) /\ EpochsOK(p, e) /\ DOMAIN e = Fields
        /\ e.flags \subseteq Flags /\ e.err = "none" /\ mode.vers = 13
    BY Where DEF Ends, Local, Core, Control, Running
  <1>2. IsSeq(t) /\ Asks \notin Elems(t)
    <2>1. t \in Seq({Synthetic}) /\ Len(t) = 1 /\ t[1] = Synthetic
      OBVIOUS
    <2>2. IsSeq(t)
      BY <2>1, SeqOf
    <2>3. Synthetic # Asks
      BY DEF Synthetic, Asks
    <2> HIDE DEF t
    <2>4. \A i \in 1..Len(t) : t[i] # Asks
      BY <2>1, <2>3
    <2> QED BY <2>2, <2>4 DEF Elems
  <1> HIDE DEF t
  <1>3. /\ DOMAIN f = Fields /\ f.err = "none" /\ f.prog = "13" /\ f.pc = 2 /\ f.flags = e.flags
        /\ SameEpochs(e, f) /\ SameBuffers(e, f) /\ f.tickets = e.tickets
        /\ f.tr = t /\ f.mark = e.mark /\ f.psk = e.psk /\ f.rms = e.rms /\ f.saved = e.saved
    BY <1>1 DEF Fields, SameEpochs, SameBuffers
  <1> HIDE DEF f
  <1>4. /\ m.prog = "13" /\ m.pc = f.pc + 1 /\ m.again = FALSE /\ m.flags = f.flags
        /\ SameEpochs(f, m) /\ SameSecrets(f, m) /\ m.tickets = f.tickets
    BY <1>3, MovedFields
  <1> HIDE DEF m
  <1>5. /\ m.prog = "13" /\ m.pc = 3 /\ m.again = FALSE /\ m.flags = e.flags /\ m.tickets = e.tickets
        /\ m.tr = t /\ m.mark = e.mark /\ m.psk = e.psk /\ m.rms = e.rms /\ SameEpochs(e, m)
    BY <1>3, <1>4 DEF SameEpochs, SameSecrets
  <1>6. ServerTr(e) /\ ~Has(e, "early_start_used")
    BY <1>1 DEF Core, TranscriptOK, ServerTr, Beyond, Past
  <1>7. TranscriptOK(p, m)
    <2>1. ServerTr(m)
      BY <1>2, <1>5, <1>6 DEF ServerTr, Beyond, Past, Has
    <2> QED BY <1>1, <1>2, <1>5, <2>1 DEF TranscriptOK
  <1>8. EpochsOK(p, m)
    BY <1>1, <1>5, EpochsKept DEF PlainEpochs, Past
  <1>9. Frozen(p, e, m) /\ NoCross(p, e, m)
    BY <1>1, <1>5, <1>6, FrozenServer13 DEF Has
  <1>10. /\ IsSeq(f.q) /\ IsSeq(f.out) /\ IsSeq(f.wire) /\ f.q = e.q /\ Sent(f) = Sent(e)
    BY <1>1, <1>3 DEF Core, ItemsOK, SameBuffers, Sent
  <1>11. EpochsOK(p, Moved(f)) /\ TranscriptOK(p, Moved(f)) /\ Frozen(p, e, Moved(f)) /\ NoCross(p, e, Moved(f))
    BY <1>7, <1>8, <1>9 DEF m
  <1>12. Good(p, e, Advance(p, f))
    BY <1>1, <1>3, <1>10, <1>11, StepGood
  <1> QED BY <1>12 DEF f, t

\* Where an engine notes that gnutls_handshake may return.
LEMMA StartGood ==
  ASSUME NEW p \in Ends, NEW e, Versions, Local(p, e), Running(e),
         At(p, e).op = "do", At(p, e).msg = "start"
  PROVE  Good(p, e, Advance(p, Start(p, e)))
  <1> DEFINE b == /\ mode.start
                  /\ IF p = "server" THEN Has(e, "early_start_used")
                                     ELSE ~(Has(e, "crt_asked") /\ mode.cc)
             f == [e EXCEPT !.started = b]
  <1>1. e.prog # "none" /\ e.err = "none" /\ Core(p, e)
    BY DEF Running, Local
  <1>2. /\ PlainMessages(p, e) /\ PlainEpochs(p, e)
        /\ e.prog = "start" => e.pc < Len(Engine(p, e.prog))
    BY <1>1, PlainSteps
  <1>3. DOMAIN e = Fields /\ IsSeq(e.q) /\ IsSeq(e.out) /\ IsSeq(e.wire)
    BY <1>1 DEF Core, Control, ItemsOK
  <1> HIDE DEF b
  <1>4. /\ DOMAIN f = Fields /\ f.err = e.err /\ f.prog = e.prog /\ f.pc = e.pc
        /\ SameEpochs(e, f) /\ SameSecrets(e, f) /\ f.flags = e.flags /\ f.tickets = e.tickets
        /\ f.q = e.q /\ f.out = e.out /\ f.wire = e.wire
    BY <1>3 DEF Fields, SameEpochs, SameSecrets
  <1>5. f = Start(p, e)
    BY DEF Start, b
  <1> HIDE DEF f
  <1>6. Sent(f) = Sent(e)
    BY <1>4 DEF Sent
  <1> QED BY <1>1, <1>2, <1>3, <1>4, <1>5, <1>6, QuietAdvance

\* The application keys of the client, and the secret its tickets depend on.
LEMMA ClientAppGood ==
  ASSUME NEW e, Versions, Local("client", e), Running(e), e.prog = "13", e.pc = 18
  PROVE  Good("client", e, Advance("client", ClientAppKeys(e)))
  <1> DEFINE p == "client"
             k == AppKey(e)
             a == BumpDup(e)
             b == [a EXCEPT !.rms = e.tr]
             f == ConnectionInit(b, k)
             m == Moved(f)
  <1>1. p \in Ends /\ Core(p, e) /\ Control(p, e) /\ EpochsOK(p, e)
        /\ e.err = "none" /\ mode.vers = 13
    BY Where DEF Ends, Local, Core, Control, Running
  <1>2. /\ DOMAIN e = Fields /\ e.flags \subseteq Flags /\ e.min = 0 /\ e.next \in 1..2
        /\ DOMAIN e.keys = 0..e.next
    <2>1. e.next <= 2
      BY <1>1 DEF EpochsOK, Client13Epochs
    <2> QED BY <1>1, <2>1, Table
  <1> HIDE DEF k
  <1>3. /\ SameButKeys(e, a) /\ a.next = e.next + 1 /\ DOMAIN a.keys = 0..(e.next + 1)
        /\ a.keys[e.next + 1] = Unset
    BY <1>2, BumpFields
  <1> HIDE DEF a
  <1>4. /\ DOMAIN b = Fields /\ SameControl(a, b) /\ SameBuffers(a, b) /\ b.flags = a.flags
        /\ b.tickets = a.tickets /\ b.err = a.err /\ b.min = a.min /\ b.next = a.next
        /\ b.keys = a.keys /\ b.tr = a.tr /\ b.mark = a.mark /\ b.psk = a.psk /\ b.rms = e.tr
    BY <1>3 DEF SameButKeys, SameControl, SameBuffers, Fields
  <1> HIDE DEF b
  <1>5. DOMAIN b = Fields /\ b.next \in DOMAIN b.keys /\ b.next = e.next + 1 /\ b.keys[b.next] = Unset
    BY <1>2, <1>3, <1>4
  <1>6. Inited(b, f, k) /\ f.we = b.next /\ f.re = b.next
    BY <1>5, InitFields
  <1>7. f = ClientAppKeys(e)
    BY DEF ClientAppKeys, f, b, a, k
  <1> HIDE DEF f
  <1>8. /\ DOMAIN f = Fields /\ f.err = e.err /\ f.prog = e.prog /\ f.pc = e.pc /\ f.flags = e.flags
        /\ SameBuffers(e, f) /\ f.tickets = e.tickets /\ f.min = 0
        /\ f.tr = e.tr /\ f.mark = e.mark /\ f.psk = e.psk /\ f.rms = e.tr
    BY <1>2, <1>3, <1>4, <1>6 DEF Inited, SameButKeys, SameControl, SameBuffers, SameSecrets
  <1>9. /\ f.next = e.next + 1 /\ f.re = f.next /\ f.we = f.next
        /\ DOMAIN f.keys = 0..f.next /\ f.keys[f.next] = Both(k)
    BY <1>3, <1>4, <1>5, <1>6 DEF Inited
  <1>10. /\ m.prog = f.prog /\ m.pc = f.pc + 1 /\ m.again = FALSE /\ m.flags = f.flags
         /\ SameEpochs(f, m) /\ SameSecrets(f, m) /\ m.tickets = f.tickets
    BY <1>8, MovedFields
  <1> HIDE DEF m
  <1>11. /\ m.prog = "13" /\ m.pc = 19 /\ m.again = FALSE /\ m.flags = e.flags /\ m.tickets = e.tickets
         /\ m.tr = e.tr /\ m.mark = e.mark /\ m.psk = e.psk /\ m.rms = e.tr
         /\ m.min = 0 /\ m.next = e.next + 1 /\ m.re = m.next /\ m.we = m.next
         /\ DOMAIN m.keys = 0..m.next /\ m.keys[m.next] = Both(k)
    BY <1>8, <1>9, <1>10 DEF SameEpochs, SameSecrets
  <1>12. EpochsOK(p, m)
    <2>1. k = AppKey(m)
      BY <1>11 DEF k, AppKey, Key
    <2>2. m.next \in 1..3 /\ m.next \in 0..m.next
      BY <1>2, <1>11
    <2> QED BY <2>1, <2>2, <1>11 DEF EpochsOK, Client13Epochs, Past
  <1>13. TranscriptOK(p, m)
    <2>1. ClientTr(e) /\ IsSeq(e.tr)
      BY <1>1 DEF Core, TranscriptOK, Past
    <2>2. Ext(m) = Ext(e) /\ Answer(m) = Answer(e) /\ Full(m) = m.tr
      BY <1>11 DEF Ext, Answer, Full, Past, Has
    <2>3. /\ Did(e, "13", 13) /\ Did(e, "13", 17)
          /\ Did(m, "13", 13) /\ Did(m, "13", 17) /\ Beyond(m, "13", 8)
      BY <1>11 DEF Did, Beyond
    <2>4. ~Has(e, "crt_asked") => e.tr = Answer(e)
      BY <2>1, <2>3 DEF ClientTr
    <2>5. Has(e, "crt_asked") => Asks \in Elems(e.mark)
      BY <2>1 DEF ClientTr
    <2>6. ClientTr(m)
      BY <1>11, <2>2, <2>3, <2>4, <2>5 DEF ClientTr, Past, Has
    <2> QED BY <1>1, <1>11, <2>1, <2>6 DEF TranscriptOK
  <1>14. Frozen(p, e, m) /\ NoCross(p, e, m)
    BY <1>1, <1>11, FrozenClient13 DEF Has
  <1>15. /\ IsSeq(f.q) /\ IsSeq(f.out) /\ IsSeq(f.wire) /\ f.q = e.q /\ Sent(f) = Sent(e)
    BY <1>1, <1>8 DEF Core, ItemsOK, SameBuffers, Sent
  <1>16. EpochsOK(p, Moved(f)) /\ TranscriptOK(p, Moved(f)) /\ Frozen(p, e, Moved(f)) /\ NoCross(p, e, Moved(f))
    BY <1>12, <1>13, <1>14 DEF m
  <1> QED BY <1>1, <1>2, <1>7, <1>8, <1>15, <1>16, StepGood

\* The application keys of the server; the secret of an early ticket is the one
\* that will follow from the client's Finished.
LEMMA ServerAppGood ==
  ASSUME NEW e, Versions, Local("server", e), Running(e), e.prog = "13", e.pc = 16
  PROVE  Good("server", e, Advance("server", ServerAppKeys(e)))
  <1> DEFINE p == "server"
             a == BumpDup(e)
             rm == Append(e.tr, <<"client", "Finished">>)
             fl == a.flags \cup {"early_start_used"}
             b == IF EarlyStart(e) THEN [a EXCEPT !.rms = rm, !.flags = fl] ELSE a
             k == AppKey(b)
             f == WriteInit(b, k)
             m == Moved(f)
  <1>1. p \in Ends /\ Core(p, e) /\ Control(p, e) /\ EpochsOK(p, e)
        /\ e.err = "none" /\ mode.vers = 13
    BY Where DEF Ends, Local, Core, Control, Running
  <1>2. /\ DOMAIN e = Fields /\ e.flags \subseteq Flags /\ e.min = 0 /\ e.next \in 1..2
        /\ DOMAIN e.keys = 0..e.next /\ e.re = e.next /\ e.keys[e.next].r.stage = "hs"
    <2>1. e.next <= 2 /\ e.re = e.next /\ e.keys[e.next].r.stage = "hs"
      BY <1>1 DEF EpochsOK, Server13Epochs
    <2> QED BY <1>1, <2>1, Table
  <1>3. /\ SameButKeys(e, a) /\ a.next = e.next + 1 /\ DOMAIN a.keys = 0..(e.next + 1)
        /\ a.keys[e.next + 1] = Unset /\ a.re = e.re /\ \A i \in 0..e.next : a.keys[i] = e.keys[i]
    BY <1>2, BumpFields
  <1>0. f = ServerAppKeys(e)
    BY DEF ServerAppKeys
  <1> HIDE DEF a, rm
  <1>31. a.flags = e.flags
    BY <1>3 DEF SameButKeys
  <1> HIDE DEF fl
  <1>4. /\ DOMAIN b = Fields /\ SameControl(a, b) /\ SameBuffers(a, b)
        /\ b.tickets = a.tickets /\ b.err = a.err /\ b.min = a.min /\ b.next = a.next
        /\ b.keys = a.keys /\ b.tr = a.tr /\ b.mark = a.mark /\ b.psk = a.psk /\ b.re = a.re
        /\ b.rms = IF EarlyStart(e) THEN rm ELSE a.rms
        /\ b.flags = IF EarlyStart(e) THEN fl ELSE a.flags
    BY <1>3 DEF SameButKeys, SameControl, SameBuffers, Fields
  <1> HIDE DEF b
  <1>5. DOMAIN b = Fields /\ b.next \in DOMAIN b.keys /\ b.next = e.next + 1 /\ b.keys[b.next] = Unset
    BY <1>2, <1>3, <1>4
  <1> HIDE DEF k
  <1>6. Inited(b, f, k) /\ f.we = b.next /\ f.re = b.re
    BY <1>5, InitFields
  <1> HIDE DEF f
  <1>8. /\ DOMAIN f = Fields /\ f.err = e.err /\ f.prog = e.prog /\ f.pc = e.pc
        /\ SameBuffers(e, f) /\ f.tickets = e.tickets /\ f.min = 0
        /\ f.tr = e.tr /\ f.mark = e.mark /\ f.psk = e.psk
        /\ f.rms = IF EarlyStart(e) THEN rm ELSE e.rms
        /\ f.flags = IF EarlyStart(e) THEN e.flags \cup {"early_start_used"} ELSE e.flags
    <2>1. /\ DOMAIN f = Fields /\ f.err = b.err /\ f.prog = b.prog /\ f.pc = b.pc
          /\ SameBuffers(b, f) /\ f.tickets = b.tickets /\ f.min = b.min
          /\ f.tr = b.tr /\ f.mark = b.mark /\ f.psk = b.psk /\ f.rms = b.rms /\ f.flags = b.flags
      BY <1>6 DEF Inited, SameButKeys, SameControl, SameBuffers, SameSecrets
    <2>2. /\ b.err = e.err /\ b.prog = e.prog /\ b.pc = e.pc
          /\ SameBuffers(e, b) /\ b.tickets = e.tickets /\ b.min = 0
          /\ b.tr = e.tr /\ b.mark = e.mark /\ b.psk = e.psk /\ a.rms = e.rms
      BY <1>2, <1>3, <1>4 DEF SameButKeys, SameControl, SameBuffers, SameSecrets
    <2> QED BY <2>1, <2>2, <1>31, <1>4 DEF SameBuffers, fl
  <1>9. /\ f.next = e.next + 1 /\ f.re = e.next /\ f.we = f.next
        /\ DOMAIN f.keys = 0..f.next /\ f.keys[f.next] = Both(k) /\ f.keys[e.next] = e.keys[e.next]
    <2>1. /\ f.next = e.next + 1 /\ f.re = e.next /\ f.we = f.next
          /\ DOMAIN f.keys = 0..f.next /\ f.keys[f.next] = Both(k)
      BY <1>2, <1>3, <1>4, <1>5, <1>6 DEF Inited
    <2>2. e.next \in DOMAIN b.keys /\ e.next # b.next
      BY <1>2, <1>3, <1>4
    <2>3. f.keys[e.next] = b.keys[e.next]
      BY <2>2, <1>6 DEF Inited
    <2> QED BY <2>1, <2>3, <1>2, <1>3, <1>4
  <1>10. /\ m.prog = f.prog /\ m.pc = f.pc + 1 /\ m.again = FALSE /\ m.flags = f.flags
         /\ SameEpochs(f, m) /\ SameSecrets(f, m) /\ m.tickets = f.tickets
    BY <1>8, MovedFields
  <1> HIDE DEF m
  <1>11. /\ m.prog = "13" /\ m.pc = 17 /\ m.again = FALSE /\ m.flags = f.flags /\ m.tickets = e.tickets
         /\ m.tr = e.tr /\ m.mark = e.mark /\ m.psk = e.psk /\ m.rms = f.rms
         /\ m.min = 0 /\ m.next = e.next + 1 /\ m.re = e.next /\ m.we = m.next
         /\ DOMAIN m.keys = 0..m.next /\ m.keys[m.next] = Both(k) /\ m.keys[m.re] = e.keys[e.next]
    BY <1>8, <1>9, <1>10 DEF SameEpochs, SameSecrets
  <1>12. EpochsOK(p, m)
    <2>1. k = AppKey(m)
      <3>1. b.psk = e.psk /\ b.mark = e.mark
        BY <1>3, <1>4 DEF SameButKeys, SameSecrets
      <3> QED BY <3>1, <1>11 DEF k, AppKey, Key
    <2>2. m.next \in 1..3 /\ m.next \in 0..m.next /\ m.re \in 0..m.next
      BY <1>2, <1>11
    <2> QED BY <2>1, <2>2, <1>2, <1>11 DEF EpochsOK, Server13Epochs, Past
  <1>130. /\ ServerTr(e) /\ IsSeq(e.tr) /\ ~Has(e, "early_start_used")
          /\ e.tr = Ext(e)
    BY <1>1 DEF Core, TranscriptOK, ServerTr, Past, Beyond
  <1>131. /\ Has(m, "accepted") <=> Has(e, "accepted")
          /\ Has(m, "crt_req_sent") <=> Has(e, "crt_req_sent")
          /\ Has(m, "early_start_used") <=> EarlyStart(e)
    BY <1>8, <1>11, <1>130 DEF Has
  <1>13. TranscriptOK(p, m)
    <2>2. Ext(m) = Ext(e) /\ Answer(m) = Append(Ext(e), <<"client", "Finished">>)
      BY <1>11, <1>131 DEF Ext, Answer
    <2>3. EarlyStart(e) => Asks \notin Elems(e.mark)
      BY <1>130 DEF ServerTr, EarlyStart, Past
    <2>4. EarlyStart(e) => m.rms = Answer(m)
      BY <1>130, <1>8, <1>11, <2>2 DEF rm
    <2>6. ServerTr(m)
      BY <1>11, <1>130, <1>131, <2>3, <2>4 DEF ServerTr, Past, Beyond
    <2> QED BY <1>1, <1>11, <1>130, <2>6 DEF TranscriptOK
  <1>14. Frozen(p, e, m) /\ NoCross(p, e, m)
    BY <1>1, <1>11, <1>130, <1>131, FrozenServer13
  <1>15. /\ IsSeq(f.q) /\ IsSeq(f.out) /\ IsSeq(f.wire) /\ f.q = e.q /\ Sent(f) = Sent(e)
    BY <1>1, <1>8 DEF Core, ItemsOK, SameBuffers, Sent
  <1>16. EpochsOK(p, Moved(f)) /\ TranscriptOK(p, Moved(f)) /\ Frozen(p, e, Moved(f)) /\ NoCross(p, e, Moved(f))
    BY <1>12, <1>13, <1>14 DEF m
  <1>17. f.flags \subseteq Flags
    BY <1>2, <1>8 DEF Flags
  <1> QED BY <1>0, <1>1, <1>2, <1>8, <1>15, <1>16, <1>17, StepGood

\* The server reads under the application keys.
LEMMA ServerReadGood ==
  ASSUME NEW e, Versions, Local("server", e), Running(e), e.prog = "13", e.pc = 22
  PROVE  Good("server", e, Advance("server", ServerReadKeys(e)))
  <1> DEFINE p == "server"
             r == IF Has(e, "early_start_used") THEN e.rms ELSE e.tr
             b == [e EXCEPT !.rms = r]
             k == AppKey(e)
             f == ReadInit(b, k)
             m == Moved(f)
  <1>1. p \in Ends /\ Core(p, e) /\ Control(p, e) /\ EpochsOK(p, e)
        /\ e.err = "none" /\ mode.vers = 13
    BY Where DEF Ends, Local, Core, Control, Running
  <1>2. /\ DOMAIN e = Fields /\ e.flags \subseteq Flags /\ e.min = 0 /\ e.next \in 1..3
        /\ DOMAIN e.keys = 0..e.next /\ e.we = e.next /\ e.keys[e.next] = Both(k)
    <2>1. e.we = e.next /\ e.keys[e.next] = Both(k)
      BY <1>1 DEF EpochsOK, Server13Epochs
    <2> QED BY <1>1, <2>1, Table
  <1>0. f = ServerReadKeys(e)
    BY <1>2 DEF ServerReadKeys, Fields
  <1> HIDE DEF r
  <1>4. /\ DOMAIN b = Fields /\ SameControl(e, b) /\ SameBuffers(e, b) /\ b.flags = e.flags
        /\ b.tickets = e.tickets /\ b.err = e.err /\ SameEpochs(e, b)
        /\ b.tr = e.tr /\ b.mark = e.mark /\ b.psk = e.psk /\ b.rms = r
    BY <1>2 DEF SameEpochs, SameControl, SameBuffers, Fields
  <1>41. k = AppKey(b) /\ Both(k) # Unset
    BY <1>4 DEF AppKey, Key, Both, Unset, NoKey, Label
  <1> HIDE DEF b, k
  <1>5. DOMAIN b = Fields /\ b.next \in DOMAIN b.keys /\ b.next = e.next /\ b.keys[b.next] = Both(k)
    BY <1>2, <1>4 DEF SameEpochs
  <1>6. Inited(b, f, k) /\ f.re = b.next /\ f.we = b.we
    BY <1>5, InitFields
  <1> HIDE DEF f
  <1>8. /\ DOMAIN f = Fields /\ f.err = e.err /\ f.prog = e.prog /\ f.pc = e.pc /\ f.flags = e.flags
        /\ SameBuffers(e, f) /\ f.tickets = e.tickets /\ f.min = 0
        /\ f.tr = e.tr /\ f.mark = e.mark /\ f.psk = e.psk /\ f.rms = r
    BY <1>2, <1>4, <1>6 DEF Inited, SameButKeys, SameControl, SameBuffers, SameSecrets, SameEpochs
  <1>9. /\ f.next = e.next /\ f.re = e.next /\ f.we = e.next
        /\ DOMAIN f.keys = 0..e.next /\ f.keys[e.next] = Both(k)
    BY <1>2, <1>4, <1>41, <1>5, <1>6 DEF Inited, SameEpochs
  <1>10. /\ m.prog = f.prog /\ m.pc = f.pc + 1 /\ m.again = FALSE /\ m.flags = f.flags
         /\ SameEpochs(f, m) /\ SameSecrets(f, m) /\ m.tickets = f.tickets
    BY <1>8, MovedFields
  <1> HIDE DEF m
  <1>11. /\ m.prog = "13" /\ m.pc = 23 /\ m.again = FALSE /\ m.flags = e.flags /\ m.tickets = e.tickets
         /\ m.tr = e.tr /\ m.mark = e.mark /\ m.psk = e.psk /\ m.rms = r
         /\ m.min = 0 /\ m.next = e.next /\ m.re = e.next /\ m.we = e.next
         /\ DOMAIN m.keys = 0..e.next /\ m.keys[e.next] = Both(k)
    BY <1>8, <1>9, <1>10 DEF SameEpochs, SameSecrets
  <1>12. EpochsOK(p, m)
    <2>1. k = AppKey(m)
      BY <1>11, <1>41, <1>4 DEF AppKey, Key
    <2>2. m.next \in 1..3 /\ m.next \in 0..m.next
      BY <1>2, <1>11
    <2> QED BY <2>1, <2>2, <1>11 DEF EpochsOK, Server13Epochs, Past
  <1>13. TranscriptOK(p, m)
    <2>1. ServerTr(e) /\ IsSeq(e.tr)
      BY <1>1 DEF Core, TranscriptOK, Past
    <2>2. Ext(m) = Ext(e) /\ Answer(m) = Answer(e) /\ Full(m) = m.tr
      BY <1>11 DEF Ext, Answer, Full, Past, Has
    <2>6. ServerTr(m)
      BY <1>11, <2>1, <2>2 DEF ServerTr, Past, Beyond, Has, r
    <2> QED BY <1>1, <1>11, <2>1, <2>6 DEF TranscriptOK
  <1>14. Frozen(p, e, m) /\ NoCross(p, e, m)
    BY <1>1, <1>11, FrozenServer13 DEF Has, r
  <1>15. /\ IsSeq(f.q) /\ IsSeq(f.out) /\ IsSeq(f.wire) /\ f.q = e.q /\ Sent(f) = Sent(e)
    BY <1>1, <1>8 DEF Core, ItemsOK, SameBuffers, Sent
  <1>16. EpochsOK(p, Moved(f)) /\ TranscriptOK(p, Moved(f)) /\ Frozen(p, e, Moved(f)) /\ NoCross(p, e, Moved(f))
    BY <1>12, <1>13, <1>14 DEF m
  <1> QED BY <1>0, <1>1, <1>2, <1>8, <1>15, <1>16, StepGood

\* The steps of an engine that neither send nor receive.
LEMMA DoGood ==
  ASSUME NEW p \in Ends, NEW e, Versions, Local(p, e), Running(e), At(p, e).op = "do"
  PROVE  Good(p, e, Advance(p, Do(p, e, At(p, e).msg)))
  <1> DEFINE s == At(p, e)
  <1>1. e.prog # "none"
    BY DEF Running
  <1>2. p = "client" \/ p = "server"
    BY DEF Ends
  <1>3. CASE e.prog = "start"
    BY <1>1, <1>2, <1>3, Due, StartSteps DEF S
  <1>4. CASE e.prog = "13" /\ p = "client"
    <2>1. e.pc \in 4..18
      BY <1>4, Due
    <2>2. e.pc \in {5, 7, 14, 18}
      BY <1>4, <2>1, Client13Steps DEF S
    <2>3. /\ e.pc = 5 => s.msg = "early_keys"
          /\ e.pc = 7 => s.msg = "hs_keys"
          /\ e.pc = 14 => s.msg = "end_early"
          /\ e.pc = 18 => s.msg = "app_keys"
      BY <1>4, Client13Steps DEF S
    <2>4. /\ e.pc = 5 => Do(p, e, s.msg) = ClientEarlyKeys(e)
          /\ e.pc = 7 => Do(p, e, s.msg) = ClientHsKeys(e)
          /\ e.pc = 14 => Do(p, e, s.msg) = ClientEndEarly(e)
          /\ e.pc = 18 => Do(p, e, s.msg) = ClientAppKeys(e)
      BY <1>4, <2>3 DEF Do
    <2> QED BY <1>4, <2>2, <2>4, ClientKeysGood, ClientAppGood
  <1>5. CASE e.prog = "13" /\ p = "server"
    <2>1. e.pc \in 2..23
      BY <1>5, Due
    <2>2. e.pc \in {2, 8, 15, 16, 18, 22}
      BY <1>5, <2>1, Server13Steps DEF S
    <2>3. /\ e.pc = 2 => s.msg = "synth"
          /\ e.pc = 8 => s.msg = "hs_keys"
          /\ e.pc = 15 => s.msg = "end_early"
          /\ e.pc = 16 => s.msg = "app_keys"
          /\ e.pc = 18 => s.msg = "start"
          /\ e.pc = 22 => s.msg = "read_keys"
      BY <1>5, Server13Steps DEF S
    <2>4. /\ e.pc = 2 => Do(p, e, s.msg) = [e EXCEPT !.tr = <<Synthetic>>]
          /\ e.pc = 8 => Do(p, e, s.msg) = ServerHsKeys(e)
          /\ e.pc = 15 => Do(p, e, s.msg) = ServerEndEarly(e)
          /\ e.pc = 16 => Do(p, e, s.msg) = ServerAppKeys(e)
          /\ e.pc = 18 => Do(p, e, s.msg) = Start(p, e)
          /\ e.pc = 22 => Do(p, e, s.msg) = ServerReadKeys(e)
      BY <1>5, <2>3 DEF Do
    <2>5. e.pc = 18 => Good(p, e, Advance(p, Start(p, e)))
      BY <2>3, StartGood
    <2> QED BY <1>5, <2>2, <2>4, <2>5, ServerKeysGood, ServerAppGood, ServerReadGood, SynthGood
  <1>6. CASE e.prog \in {"12", "12r"}
    <2>1. /\ p = "client" => /\ e.prog = "12" => e.pc \in 4..17
                             /\ e.prog = "12r" => e.pc \in 4..9
          /\ p = "server" => /\ e.prog = "12" => e.pc \in 2..15
                             /\ e.prog = "12r" => e.pc \in 2..8
      BY <1>1, Due
    <2>2. s.msg = "start" \/ (s.msg = "write12" /\ e.pc = Write12(p, e.prog))
      <3>1. CASE p = "client"
        BY <1>6, <2>1, <3>1, Client12Steps DEF S, Write12
      <3>2. CASE p = "server"
        BY <1>6, <2>1, <3>2, Server12Steps DEF S, Write12
      <3> QED BY <3>1, <3>2, <1>2
    <2>3. CASE s.msg = "start"
      <3>1. Do(p, e, s.msg) = Start(p, e)
        BY <2>3 DEF Do
      <3> QED BY <2>3, <3>1, StartGood
    <2>4. CASE s.msg = "write12" /\ e.pc = Write12(p, e.prog)
      <3>1. Do(p, e, s.msg) = WriteInit(e, Key12(e))
        BY <2>4 DEF Do
      <3> QED BY <1>6, <2>4, <3>1, Keys12Good
    <2> QED BY <2>2, <2>3, <2>4
  <1>7. CASE e.prog \in {"reauth", "ticket"}
    <2>1. /\ p = "client" => /\ e.prog = "reauth" => e.pc \in 1..3
                             /\ e.prog # "ticket"
          /\ p = "server" => /\ e.prog = "reauth" => e.pc \in 1..4
                             /\ e.prog = "ticket" => e.pc = 1
      BY <1>1, Due, Where
    <2> QED BY <1>2, <1>7, <2>1, LaterSteps DEF S
  <1> QED BY <1>1, <1>2, <1>3, <1>4, <1>5, <1>6, <1>7, Where, Due

-----------------------------------------------------------------------------
(* Sending a message.                                                        *)

Context(e, msg) == CASE msg = "Finished" -> e.tr
                     [] msg = "NewSessionTicket" -> e.rms
                     [] OTHER -> <<>>

Entry(p, e, msg) == [type |-> IF msg = "EarlyData" THEN "data" ELSE "hs", msg |-> msg,
                     info |-> Info(p, e, msg), ctx |-> Context(e, msg), epoch |-> e.we]

\* The messages the secrets that follow depend on.
Marks(p, e, msg) == \/ msg \in {"ServerHello", "ClientKeyExchange"}
                    \/ msg = "Finished" /\ p = "server" /\ e.prog = "13"

\* What sending msg does to the secrets and the flags.
Spoke(p, e, m, msg) ==
    /\ m.prog = e.prog /\ SameEpochs(e, m) /\ m.tickets = e.tickets
    /\ m.rms = e.rms /\ m.saved = e.saved
    /\ m.flags = e.flags \cup SentFlags(p, msg)
    /\ m.tr = IF Unhashed(e, msg) THEN e.tr ELSE Append(e.tr, <<p, msg>>)
    /\ m.mark = IF Marks(p, e, msg) THEN m.tr ELSE e.mark
    /\ m.psk = IF msg = "ServerHello" THEN Has(e, "psk_selected") \/ e.prog = "12r" ELSE e.psk

\* The fields of a session that has composed a message.
LEMMA ComposeFields ==
  ASSUME NEW p, NEW e, NEW msg, DOMAIN e = Fields, IsSeq(e.q)
  PROVE  LET f == Compose(p, e, msg)
         IN  /\ DOMAIN f = Fields /\ SameControl(e, f) /\ f.err = e.err
             /\ f.out = e.out /\ f.wire = e.wire
             /\ Spoke(p, e, f, msg)
             /\ IsSeq(f.q) /\ Messages(f.q) \subseteq Messages(e.q) \cup {Entry(p, e, msg)}
             /\ msg = "EarlyData" => Messages(f.q) = Messages(e.q)
  <1> DEFINE type == IF msg = "EarlyData" THEN "data" ELSE "hs"
             fl == e.flags \cup SentFlags(p, msg)
             a == [e EXCEPT !.flags = fl]
             ctx == Context(e, msg)
             info == Info(p, e, msg)
             b == Cache(a, type, msg, info, ctx)
             t == Append(b.tr, <<p, msg>>)
             c == IF Unhashed(e, msg) THEN b ELSE [b EXCEPT !.tr = t]
             k == Has(e, "psk_selected") \/ e.prog = "12r"
             f == Compose(p, e, msg)
  <1>1. f = CASE msg = "ServerHello" -> [c EXCEPT !.psk = k, !.mark = c.tr]
              [] msg = "ClientKeyExchange" \/ (msg = "Finished" /\ p = "server" /\ e.prog = "13")
                               -> [c EXCEPT !.mark = c.tr]
              [] OTHER -> c
    BY DEF Compose, Context
  <1> HIDE DEF fl, ctx, info, k
  <1>2. /\ DOMAIN a = Fields /\ SameControl(e, a) /\ SameEpochs(e, a) /\ SameSecrets(e, a)
        /\ SameBuffers(e, a) /\ a.flags = fl /\ a.tickets = e.tickets /\ a.err = e.err
    BY DEF Fields, SameControl, SameEpochs, SameSecrets, SameBuffers
  <1> HIDE DEF a
  <1>3. LET x == [type |-> type, msg |-> msg, info |-> info, ctx |-> ctx, epoch |-> a.we]
        IN  /\ SameRest(a, b) /\ b.out = a.out /\ b.wire = a.wire
            /\ IsSeq(b.q) /\ Messages(b.q) \subseteq Messages(a.q) \cup {x}
            /\ type # "hs" => Messages(b.q) = Messages(a.q)
    <2>1. IsSeq(a.q)
      BY <1>2 DEF SameBuffers
    <2> HIDE DEF type
    <2> QED BY <1>2, <2>1, CacheFields
  <1>4. /\ IsSeq(b.q) /\ Messages(b.q) \subseteq Messages(e.q) \cup {Entry(p, e, msg)}
        /\ msg = "EarlyData" => Messages(b.q) = Messages(e.q)
    <2>1. a.we = e.we /\ a.q = e.q
      BY <1>2 DEF SameEpochs, SameBuffers
    <2>2. [type |-> type, msg |-> msg, info |-> info, ctx |-> ctx, epoch |-> e.we] = Entry(p, e, msg)
      BY DEF Entry, info, ctx
    <2>3. msg = "EarlyData" => type # "hs"
      OBVIOUS
    <2> HIDE DEF type, b
    <2> QED BY <1>3, <2>1, <2>2, <2>3
  <1>5. /\ DOMAIN b = Fields /\ SameControl(e, b) /\ SameEpochs(e, b) /\ SameSecrets(e, b)
        /\ b.flags = fl /\ b.tickets = e.tickets /\ b.err = e.err /\ b.out = e.out /\ b.wire = e.wire
    BY <1>2, <1>3 DEF SameRest, SameControl, SameEpochs, SameSecrets, SameBuffers
  <1> HIDE DEF b, t
  <1>6. /\ DOMAIN c = Fields /\ SameControl(b, c) /\ SameEpochs(b, c) /\ SameBuffers(b, c)
        /\ c.flags = b.flags /\ c.tickets = b.tickets /\ c.err = b.err
        /\ c.mark = b.mark /\ c.psk = b.psk /\ c.rms = b.rms /\ c.saved = b.saved
        /\ c.tr = IF Unhashed(e, msg) THEN b.tr ELSE t
    BY <1>5 DEF Fields, SameControl, SameEpochs, SameBuffers
  <1> HIDE DEF c, f
  <1>7. /\ DOMAIN f = Fields /\ SameControl(c, f) /\ SameEpochs(c, f) /\ SameBuffers(c, f)
        /\ f.flags = c.flags /\ f.tickets = c.tickets /\ f.err = c.err
        /\ f.rms = c.rms /\ f.saved = c.saved /\ f.tr = c.tr
        /\ f.mark = IF Marks(p, e, msg) THEN c.tr ELSE c.mark
        /\ f.psk = IF msg = "ServerHello" THEN k ELSE c.psk
    BY <1>1, <1>6 DEF Fields, SameControl, SameEpochs, SameBuffers, Marks
  <1>8. SameControl(e, f) /\ SameEpochs(e, f) /\ f.out = e.out /\ f.wire = e.wire /\ f.q = b.q
    BY <1>5, <1>6, <1>7 DEF SameControl, SameEpochs, SameBuffers
  <1>9. Spoke(p, e, f, msg)
    BY <1>5, <1>6, <1>7, <1>8 DEF Spoke, SameControl, SameSecrets, t, fl, k
  <1> QED BY <1>4, <1>5, <1>6, <1>7, <1>8, <1>9 DEF f

\* Where a message is sent.
LEMMA SendPositions ==
  ASSUME NEW p \in Ends, NEW e, Versions, Local(p, e), e.prog # "none", At(p, e).op = "send"
  PROVE  LET msg == At(p, e).msg
         IN  /\ p = "client" /\ e.prog = "start" => e.pc = 1 /\ msg = "ClientHello"
             /\ p = "client" /\ e.prog = "13" =>
                   \/ e.pc = 6 /\ msg = "EarlyData"
                   \/ e.pc = 13 /\ msg = "EndOfEarlyData"
                   \/ e.pc = 15 /\ msg = "Certificate"
                   \/ e.pc = 16 /\ msg = "CertificateVerify"
                   \/ e.pc = 17 /\ msg = "Finished"
             /\ p = "client" /\ e.prog = "12" =>
                   \/ e.pc = 8 /\ msg = "Certificate"
                   \/ e.pc = 9 /\ msg = "ClientKeyExchange"
                   \/ e.pc = 10 /\ msg = "CertificateVerify"
                   \/ e.pc = 13 /\ msg = "Finished"
             /\ p = "client" /\ e.prog = "12r" => e.pc = 9 /\ msg = "Finished"
             /\ p = "client" /\ e.prog = "reauth" =>
                   msg \in {"Certificate", "CertificateVerify", "Finished"}
             /\ p = "server" => e.prog # "start"
             /\ p = "server" /\ e.prog = "13" =>
                   \/ e.pc = 3 /\ msg = "HelloRetryRequest"
                   \/ e.pc = 6 /\ msg = "ServerHello"
                   \/ e.pc = 9 /\ msg = "EncryptedExtensions"
                   \/ e.pc = 10 /\ msg = "CertificateRequest"
                   \/ e.pc = 11 /\ msg = "Certificate"
                   \/ e.pc = 12 /\ msg = "CertificateVerify"
                   \/ e.pc = 13 /\ msg = "Finished"
                   \/ e.pc = 17 /\ msg = "NewSessionTicket" /\ At(p, e).state = 109
                   \/ e.pc = 23 /\ msg = "NewSessionTicket" /\ At(p, e).state = 115
             /\ p = "server" /\ e.prog = "12" =>
                   \/ e.pc = 2 /\ msg = "ServerHello"
                   \/ e.pc = 3 /\ msg = "Certificate"
                   \/ e.pc = 4 /\ msg = "ServerKeyExchange"
                   \/ e.pc = 5 /\ msg = "CertificateRequest"
                   \/ e.pc = 6 /\ msg = "ServerHelloDone"
                   \/ e.pc = 12 /\ msg = "NewSessionTicket"
                   \/ e.pc = 15 /\ msg = "Finished"
             /\ p = "server" /\ e.prog = "12r" =>
                   \/ e.pc = 2 /\ msg = "ServerHello"
                   \/ e.pc = 5 /\ msg = "Finished"
                   \/ e.pc = 6 /\ msg = "NewSessionTicket"
             /\ p = "server" /\ e.prog = "reauth" => msg = "CertificateRequest"
             /\ e.prog = "ticket" => p = "server" /\ msg = "NewSessionTicket"
             /\ At(p, e).state = 115 => p = "server" /\ e.prog = "13" /\ e.pc = 23
  <1>1. p = "client" \/ p = "server"
    BY DEF Ends
  <1>2. /\ p = "client" => /\ e.prog = "start" => e.pc \in 1..3
                           /\ e.prog = "13" => e.pc \in 4..18
                           /\ e.prog = "12" => e.pc \in 4..17
                           /\ e.prog = "12r" => e.pc \in 4..9
                           /\ e.prog = "reauth" => e.pc \in 1..3
        /\ p = "server" => /\ e.prog = "start" => e.pc = 1
                           /\ e.prog = "13" => e.pc \in 2..23
                           /\ e.prog = "12" => e.pc \in 2..15
                           /\ e.prog = "12r" => e.pc \in 2..8
                           /\ e.prog = "reauth" => e.pc \in 1..4
                           /\ e.prog = "ticket" => e.pc = 1
    BY Due
  <1>3. /\ e.prog \in {"start", "13", "12", "12r", "reauth", "ticket"}
        /\ e.prog = "ticket" => p = "server"
    BY Where DEF Local, Core
  <1>4. CASE e.prog = "start"
    BY <1>1, <1>2, <1>4, StartSteps DEF S
  <1>5. CASE e.prog = "13" /\ p = "client"
    BY <1>2, <1>5, Client13Steps DEF S
  <1>6. CASE e.prog = "13" /\ p = "server"
    BY <1>2, <1>6, Server13Steps DEF S
  <1>7. CASE e.prog \in {"12", "12r"} /\ p = "client"
    BY <1>2, <1>7, Client12Steps DEF S
  <1>8. CASE e.prog \in {"12", "12r"} /\ p = "server"
    BY <1>2, <1>8, Server12Steps DEF S
  <1>9. CASE e.prog \in {"reauth", "ticket"}
    BY <1>1, <1>2, <1>3, <1>9, LaterSteps DEF S
  <1> QED BY <1>1, <1>3, <1>4, <1>5, <1>6, <1>7, <1>8, <1>9

\* The step is over, or will be repeated.
Rests(e, m) == Moves(e, m) \/ (m.prog = e.prog /\ m.pc = e.pc /\ m.again = TRUE)

\* The flags that sending a message sets.
LEMMA SpokenFlags ==
  ASSUME NEW p, NEW e, NEW m, NEW msg, Spoke(p, e, m, msg)
  PROVE  /\ Has(m, "accepted") <=> Has(e, "accepted")
         /\ Has(m, "crt_asked") <=> Has(e, "crt_asked")
         /\ Has(m, "early_start_used") <=> Has(e, "early_start_used")
         /\ msg = "CertificateRequest" => Has(m, "crt_req_sent")
         /\ Has(e, "crt_req_sent") => Has(m, "crt_req_sent")
         /\ e.flags \subseteq Flags => m.flags \subseteq Flags
  BY DEF Spoke, SentFlags, Has, Flags

\* The messages of the TLS 1.3 client.
LEMMA SpokenClient13 ==
  ASSUME NEW e, NEW m, Versions, Local("client", e), e.prog = "13", ~e.again,
         LET s == At("client", e)
         IN  s.op = "send" /\ ~Skips("client", e, s) /\ Spoke("client", e, m, s.msg),
         Rests(e, m)
  PROVE  /\ EpochsOK("client", m) /\ TranscriptOK("client", m)
         /\ Frozen("client", e, m) /\ NoCross("client", e, m)
  <1> DEFINE p == "client"
             s == At("client", e)
             msg == s.msg
  <1>1. p \in Ends /\ Core(p, e) /\ Control(p, e) /\ mode.vers = 13 /\ e.pc \in Nat
    BY Where DEF Ends, Local, Core
  <1>2. \/ e.pc = 6 /\ msg = "EarlyData"
        \/ e.pc = 13 /\ msg = "EndOfEarlyData"
        \/ e.pc = 15 /\ msg = "Certificate"
        \/ e.pc = 16 /\ msg = "CertificateVerify"
        \/ e.pc = 17 /\ msg = "Finished"
    BY <1>1, SendPositions
  <1>3. /\ e.pc = 13 => Has(e, "accepted")
        /\ e.pc \in {15, 16} => Has(e, "crt_asked")
    <2>1. s.op = "send" /\ ~Skips(p, e, s)
      OBVIOUS
    <2> HIDE DEF s
    <2> QED BY <1>2, <2>1 DEF Skips
  <1>4. Spoke(p, e, m, msg)
    OBVIOUS
  <1> HIDE DEF s, msg
  <1>5. /\ Has(m, "accepted") <=> Has(e, "accepted")
        /\ Has(m, "crt_asked") <=> Has(e, "crt_asked")
    BY <1>4, SpokenFlags
  <1>6. /\ m.prog = "13" /\ SameEpochs(e, m) /\ m.tickets = e.tickets
        /\ m.rms = e.rms /\ m.mark = e.mark /\ m.psk = e.psk
        /\ m.tr = IF e.pc = 6 THEN e.tr ELSE Append(e.tr, <<p, msg>>)
        /\ (m.pc = e.pc /\ m.again = TRUE) \/ (m.pc = e.pc + 1 /\ m.again = FALSE)
    BY <1>2, <1>4 DEF Spoke, Marks, Unhashed, Rests, Moves
  <1>7. EpochsOK(p, m)
    BY <1>1, <1>2, <1>6, EpochsKept DEF Core, PlainEpochs, Past
  <1>8. IsSeq(m.tr) /\ Elems(e.tr) \subseteq Elems(m.tr)
    BY <1>1, <1>6, AppendSeq DEF Core, TranscriptOK, Past
  <1>9. Ext(m) = Ext(e) /\ Answer(m) = Answer(e)
    BY <1>5, <1>6 DEF Ext, Answer
  <1>10. ClientTr(e)
    BY <1>1 DEF Core, TranscriptOK
  <1>11. ~Past(m) /\ ~Past(e)
    BY <1>6 DEF Past
  <1>12. /\ Did(m, "13", 13) <=> e.pc # 6
         /\ Did(m, "13", 17) <=> e.pc = 17
         /\ Did(e, "13", 13) <=> e.pc \in {15, 16, 17}
         /\ ~Did(e, "13", 17)
         /\ Beyond(m, "13", 8) <=> e.pc # 6
         /\ Beyond(e, "13", 8) <=> e.pc # 6
         /\ ~Beyond(m, "13", 18)
    BY <1>2, <1>6, <1>11 DEF Did, Beyond
  <1>13. ~Has(e, "crt_asked") /\ e.pc # 6 => m.tr = IF e.pc = 17 THEN Answer(m) ELSE Ext(m)
    <2>1. CASE e.pc = 13
      <3>1. e.tr = e.mark
        BY <1>10, <2>1 DEF ClientTr
      <3> QED BY <1>2, <1>3, <1>6, <1>9, <2>1, <3>1 DEF Ext
    <2>2. CASE e.pc = 17
      <3>1. ~Has(e, "crt_asked") => e.tr = Ext(e)
        BY <1>10, <1>12, <2>2 DEF ClientTr
      <3> QED BY <1>2, <1>6, <1>9, <2>2, <3>1 DEF Answer
    <2> QED BY <1>2, <1>3, <2>1, <2>2
  <1>14. /\ ~Beyond(m, "13", 8) => ~Has(m, "accepted")
         /\ Has(m, "crt_asked") =>
              IF m.pc > 12 THEN Asks \in Elems(m.mark) ELSE Asks \in Elems(m.tr)
         /\ ~(m.pc = 13 /\ ~m.again)
    BY <1>1, <1>2, <1>5, <1>6, <1>8, <1>10, <1>12 DEF ClientTr
  <1>15. ClientTr(m)
    BY <1>5, <1>6, <1>11, <1>12, <1>13, <1>14 DEF ClientTr
  <1>16. TranscriptOK(p, m)
    BY <1>1, <1>8, <1>15 DEF TranscriptOK
  <1>17. Frozen(p, e, m) /\ NoCross(p, e, m)
    BY <1>1, <1>2, <1>5, <1>6, FrozenClient13
  <1> QED BY <1>7, <1>16, <1>17

\* The messages of the TLS 1.3 server.
LEMMA SpokenServer13 ==
  ASSUME NEW e, NEW m, Versions, Local("server", e), e.prog = "13", ~e.again,
         At("server", e).op = "send", Spoke("server", e, m, At("server", e).msg),
         Rests(e, m)
  PROVE  /\ EpochsOK("server", m) /\ TranscriptOK("server", m)
         /\ Frozen("server", e, m) /\ NoCross("server", e, m)
  <1> DEFINE p == "server"
             msg == At("server", e).msg
  <1>1. p \in Ends /\ Core(p, e) /\ Control(p, e) /\ mode.vers = 13 /\ e.pc \in Nat
    BY Where DEF Ends, Local, Core
  <1>2. \/ e.pc = 3 /\ msg = "HelloRetryRequest"
        \/ e.pc = 6 /\ msg = "ServerHello"
        \/ e.pc = 9 /\ msg = "EncryptedExtensions"
        \/ e.pc = 10 /\ msg = "CertificateRequest"
        \/ e.pc = 11 /\ msg = "Certificate"
        \/ e.pc = 12 /\ msg = "CertificateVerify"
        \/ e.pc = 13 /\ msg = "Finished"
        \/ e.pc = 17 /\ msg = "NewSessionTicket"
        \/ e.pc = 23 /\ msg = "NewSessionTicket"
    BY <1>1, SendPositions
  <1>4. Spoke(p, e, m, msg)
    OBVIOUS
  <1> HIDE DEF msg
  <1>5. /\ Has(m, "accepted") <=> Has(e, "accepted")
        /\ Has(m, "early_start_used") <=> Has(e, "early_start_used")
        /\ msg = "CertificateRequest" => Has(m, "crt_req_sent")
        /\ Has(e, "crt_req_sent") => Has(m, "crt_req_sent")
    BY <1>4, SpokenFlags
  <1>6. /\ m.prog = "13" /\ SameEpochs(e, m) /\ m.tickets = e.tickets
        /\ m.rms = e.rms /\ m.saved = e.saved
        /\ m.tr = IF e.pc > 13 THEN e.tr ELSE Append(e.tr, <<p, msg>>)
        /\ m.mark = IF e.pc \in {6, 13} THEN m.tr ELSE e.mark
        /\ e.pc # 6 => m.psk = e.psk
        /\ (m.pc = e.pc /\ m.again = TRUE) \/ (m.pc = e.pc + 1 /\ m.again = FALSE)
    BY <1>2, <1>4 DEF Spoke, Marks, Unhashed, Rests, Moves
  <1>7. EpochsOK(p, m)
    BY <1>1, <1>2, <1>5, <1>6, EpochsKept DEF Core, PlainEpochs, Past
  <1>8. /\ IsSeq(m.tr)
        /\ e.pc > 13 => Elems(m.tr) = Elems(e.tr)
        /\ e.pc <= 13 => Elems(m.tr) = Elems(e.tr) \cup {<<p, msg>>}
    <2>1. IsSeq(e.tr)
      BY <1>1 DEF Core, TranscriptOK, Past
    <2>2. /\ IsSeq(Append(e.tr, <<p, msg>>))
          /\ Elems(Append(e.tr, <<p, msg>>)) = Elems(e.tr) \cup {<<p, msg>>}
      BY <2>1, AppendSeq
    <2>3. CASE e.pc > 13
      BY <1>1, <1>6, <2>1, <2>3
    <2>4. CASE ~(e.pc > 13)
      BY <1>1, <1>6, <2>2, <2>4
    <2> QED BY <2>3, <2>4
  <1>9. Ext(m) = (IF Has(e, "accepted") THEN Append(m.mark, <<"client", "EndOfEarlyData">>) ELSE m.mark)
    BY <1>5 DEF Ext
  <1>10. ServerTr(e)
    BY <1>1 DEF Core, TranscriptOK
  <1>11. ~Past(m) /\ ~Past(e) /\ Full(m) = m.tr /\ Full(e) = e.tr
    BY <1>6 DEF Past, Full
  <1>12. Asks \in Elems(m.tr) => Has(m, "crt_req_sent")
    <2>1. <<p, msg>> = Asks => msg = "CertificateRequest"
      BY DEF Asks
    <2>2. Asks \in Elems(e.tr) => Has(e, "crt_req_sent")
      BY <1>10, <1>11 DEF ServerTr
    <2> QED BY <1>2, <1>5, <1>8, <2>1, <2>2
  <1>13. Asks \in Elems(m.mark) => Has(m, "crt_req_sent")
    BY <1>2, <1>5, <1>6, <1>10, <1>11, <1>12 DEF ServerTr
  <1>14. m.pc = 14 \/ (m.pc = 13 /\ m.again) => m.tr = m.mark
    BY <1>2, <1>6
  <1>15. m.pc \notin 15..16
    BY <1>2, <1>6
  <1>16. Has(e, "early_start_used") => /\ e.pc > 16 /\ Asks \notin Elems(m.mark)
                                       /\ m.rms = Answer(m)
    <2> SUFFICES ASSUME Has(e, "early_start_used")
                 PROVE  e.pc > 16 /\ Asks \notin Elems(m.mark) /\ m.rms = Answer(m)
      OBVIOUS
    <2>1. e.pc > 16 /\ Asks \notin Elems(e.mark) /\ e.rms = Answer(e)
      BY <1>10, <1>11 DEF ServerTr, Beyond
    <2>2. m.mark = e.mark
      BY <1>6, <2>1
    <2> QED BY <1>6, <1>9, <2>1, <2>2 DEF Answer, Ext
  <1>17. e.pc > 22 /\ ~Has(e, "early_start_used") => m.rms = m.tr
    BY <1>6, <1>10, <1>11, <1>1 DEF ServerTr, Beyond
  <1>18. ServerTr(m)
    <2>1. Beyond(m, "13", 16) <=> m.pc > 16
      BY <1>6, <1>11 DEF Beyond
    <2>2. Beyond(m, "13", 22) <=> m.pc > 22
      BY <1>6, <1>11 DEF Beyond
    <2>3. m.pc > 22 <=> e.pc > 22
      BY <1>2, <1>6
    <2>4. e.pc > 16 => m.pc > 16
      BY <1>2, <1>6
    <2> QED BY <2>1, <2>2, <2>3, <2>4, <1>5, <1>11, <1>12, <1>13, <1>14, <1>15, <1>16, <1>17 DEF ServerTr
  <1>19. TranscriptOK(p, m)
    BY <1>1, <1>8, <1>18 DEF TranscriptOK
  <1>20. Frozen(p, e, m) /\ NoCross(p, e, m)
    BY <1>1, <1>2, <1>5, <1>6, FrozenServer13
  <1> QED BY <1>7, <1>19, <1>20

\* The messages of TLS 1.2.
LEMMA Spoken12 ==
  ASSUME NEW p \in Ends, NEW e, NEW m, Versions, Local(p, e), e.prog \in {"12", "12r"}, ~e.again,
         At(p, e).op = "send", Spoke(p, e, m, At(p, e).msg), Rests(e, m)
  PROVE  /\ EpochsOK(p, m) /\ TranscriptOK(p, m)
         /\ Frozen(p, e, m) /\ NoCross(p, e, m)
  <1> DEFINE msg == At(p, e).msg
  <1>1. /\ Core(p, e) /\ Control(p, e) /\ mode.vers = 12 /\ e.pc \in Nat /\ e.prog = Version
        /\ p = "client" \/ p = "server"
    BY Where DEF Ends, Local, Core, Versions
  <1>2. /\ p = "client" /\ e.prog = "12" => e.pc \in {8, 9, 10, 13}
        /\ p = "client" /\ e.prog = "12r" => e.pc = 9
        /\ p = "server" /\ e.prog = "12" => e.pc \in {2, 3, 4, 5, 6, 12, 15}
        /\ p = "server" /\ e.prog = "12r" => e.pc \in {2, 5, 6}
        /\ msg # "EarlyData"
    BY <1>1, SendPositions
  <1>4. Spoke(p, e, m, msg)
    OBVIOUS
  <1> HIDE DEF msg
  <1>6. /\ m.prog = e.prog /\ SameEpochs(e, m) /\ m.tickets = e.tickets /\ m.rms = e.rms
        /\ m.tr = Append(e.tr, <<p, msg>>)
        /\ (m.pc = e.pc /\ m.again = TRUE) \/ (m.pc = e.pc + 1 /\ m.again = FALSE)
    BY <1>2, <1>4 DEF Spoke, Unhashed, Rests, Moves
  <1>7. EpochsOK(p, m)
    <2>1. PlainEpochs(p, e)
      BY <1>1, <1>2 DEF PlainEpochs, Write12, Read12
    <2>2. ~Past(e)
      BY DEF Past
    <2> QED BY <1>1, <1>6, <2>1, <2>2, EpochsKept DEF Core
  <1>8. IsSeq(m.tr) /\ e.rms = <<>>
    BY <1>1, <1>6, AppendSeq DEF Core, TranscriptOK, Past
  <1>9. TranscriptOK(p, m)
    BY <1>1, <1>6, <1>8 DEF TranscriptOK
  <1>10. /\ IF p = LastSender THEN e.pc < LastSend \/ (e.pc = LastSend /\ ~e.again)
                              ELSE e.pc <= LastRecv
         /\ p # LastSender => e.pc # LastRecv
    BY <1>1, <1>2 DEF LastSender, LastSend, LastRecv
  <1>11. Frozen(p, e, m) /\ (m.tickets = e.tickets /\ (e.pc # LastRecv \/ m.pc = e.pc) => NoCross(p, e, m))
    BY <1>1, <1>6, <1>8, <1>10, Frozen12 DEF SameEpochs
  <1>12. NoCross(p, e, m)
    <2>1. CASE p # LastSender
      BY <1>6, <1>10, <1>11, <2>1
    <2>2. CASE p = LastSender
      BY <1>1, <1>6, <2>2 DEF NoCross
    <2> QED BY <2>1, <2>2
  <1> QED BY <1>7, <1>9, <1>11, <1>12

\* The first ClientHello, and the one after a HelloRetryRequest.
LEMMA SpokenStart ==
  ASSUME NEW e, NEW m, Versions, Local("client", e), e.prog = "start", ~e.again,
         At("client", e).op = "send", Spoke("client", e, m, At("client", e).msg), Rests(e, m)
  PROVE  /\ EpochsOK("client", m) /\ TranscriptOK("client", m)
         /\ Frozen("client", e, m) /\ NoCross("client", e, m)
  <1> DEFINE p == "client"
             msg == At("client", e).msg
  <1>1. p \in Ends /\ Core(p, e) /\ Control(p, e) /\ e.pc \in Nat /\ Version # "start"
    BY Where DEF Ends, Local, Core
  <1>2. e.pc = 1 /\ msg = "ClientHello"
    BY <1>1, SendPositions
  <1>4. Spoke(p, e, m, msg)
    OBVIOUS
  <1> HIDE DEF msg
  <1>5. /\ Has(m, "accepted") <=> Has(e, "accepted")
        /\ Has(m, "crt_asked") <=> Has(e, "crt_asked")
    BY <1>4, SpokenFlags
  <1>6. /\ m.prog = e.prog /\ SameEpochs(e, m) /\ m.tickets = e.tickets /\ m.rms = e.rms
        /\ m.tr = Append(e.tr, <<p, msg>>)
        /\ (m.pc = e.pc /\ m.again = TRUE) \/ (m.pc = e.pc + 1 /\ m.again = FALSE)
    BY <1>2, <1>4 DEF Spoke, Unhashed, Rests, Moves
  <1>7. EpochsOK(p, m)
    BY <1>1, <1>6, EpochsKept DEF PlainEpochs, Past, Core
  <1>8. IsSeq(m.tr) /\ TranscriptOK(p, e)
    BY <1>1, <1>6, AppendSeq DEF Core, TranscriptOK, Past
  <1>9. TranscriptOK(p, m)
    <2>1. mode.vers = 13 => ClientTr(m)
      BY <1>5, <1>6, <1>8 DEF TranscriptOK, ClientTr, Beyond, Past
    <2>2. mode.vers = 12 => m.rms = <<>>
      BY <1>6, <1>8 DEF TranscriptOK
    <2> QED BY <1>8, <2>1, <2>2 DEF TranscriptOK
  <1>10. Frozen(p, e, m)
    BY <1>6, <1>8, FrozenStart
  <1>11. NoCross(p, e, m)
    BY <1>1, <1>6, Where DEF NoCross, Beyond, Past
  <1> QED BY <1>7, <1>9, <1>10, <1>11

\* The messages after the handshake.
LEMMA SpokenPast ==
  ASSUME NEW p \in Ends, NEW e, NEW m, Versions, Local(p, e), e.prog \in {"reauth", "ticket"}, ~e.again,
         At(p, e).op = "send", Spoke(p, e, m, At(p, e).msg), Rests(e, m)
  PROVE  /\ EpochsOK(p, m) /\ TranscriptOK(p, m)
         /\ Frozen(p, e, m) /\ NoCross(p, e, m)
  <1> DEFINE msg == At(p, e).msg
  <1>1. Core(p, e) /\ Control(p, e) /\ mode.vers = 13 /\ e.pc \in Nat /\ Past(e)
    BY Where DEF Ends, Local, Core, Past
  <1>2. msg \in {"Certificate", "CertificateVerify", "Finished", "CertificateRequest", "NewSessionTicket"}
    BY <1>1, SendPositions DEF Ends
  <1>4. Spoke(p, e, m, msg)
    OBVIOUS
  <1> HIDE DEF msg
  <1>5. /\ Has(m, "accepted") <=> Has(e, "accepted")
        /\ Has(m, "early_start_used") <=> Has(e, "early_start_used")
    BY <1>4, SpokenFlags
  <1>6. /\ m.prog = e.prog /\ SameEpochs(e, m) /\ m.tickets = e.tickets /\ m.rms = e.rms
        /\ m.mark = e.mark /\ m.psk = e.psk /\ m.saved = e.saved
        /\ m.pc = e.pc \/ m.pc = e.pc + 1
    BY <1>2, <1>4 DEF Spoke, Marks, Rests, Moves
  <1>7. EpochsOK(p, m)
    BY <1>1, <1>6, EpochsKept DEF PlainEpochs, Core
  <1>8. Past(m) /\ Full(m) = Full(e) /\ Ext(m) = Ext(e) /\ Answer(m) = Answer(e)
    BY <1>1, <1>5, <1>6 DEF Past, Full, Ext, Answer
  <1>9. TranscriptOK(p, m)
    <2>1. p = "client" => ClientTr(m)
      BY <1>1, <1>5, <1>6, <1>8 DEF Core, TranscriptOK, ClientTr, Beyond
    <2>2. p # "client" => ServerTr(m)
      BY <1>1, <1>5, <1>6, <1>8 DEF Core, TranscriptOK, ServerTr, Beyond
    <2> QED BY <1>1, <1>8, <2>1, <2>2 DEF TranscriptOK
  <1>10. Frozen(p, e, m) /\ NoCross(p, e, m)
    BY <1>1, <1>5, <1>6, <1>8, FrozenPast DEF SameEpochs
  <1> QED BY <1>7, <1>9, <1>10

\* Whatever the engine, a message that is sent disturbs nothing.
LEMMA SpokenGood ==
  ASSUME NEW p \in Ends, NEW e, NEW m, Versions, Local(p, e), Running(e), ~e.again,
         LET s == At(p, e) IN s.op = "send" /\ ~Skips(p, e, s) /\ Spoke(p, e, m, s.msg),
         Rests(e, m)
  PROVE  EpochsOK(p, m) /\ TranscriptOK(p, m) /\ Frozen(p, e, m) /\ NoCross(p, e, m)
  <1>1. /\ e.prog \in {"start", "13", "12", "12r", "reauth", "ticket"}
        /\ p = "client" \/ p = "server"
    BY Where DEF Local, Core, Running, Ends
  <1>2. p = "server" => e.prog # "start"
    BY SendPositions DEF Running
  <1>3. CASE e.prog = "start"
    BY <1>1, <1>2, <1>3, SpokenStart
  <1>4. CASE e.prog = "13" /\ p = "client"
    BY <1>4, SpokenClient13
  <1>5. CASE e.prog = "13" /\ p = "server"
    BY <1>5, SpokenServer13
  <1>6. CASE e.prog \in {"12", "12r"}
    BY <1>6, Spoken12
  <1>7. CASE e.prog \in {"reauth", "ticket"}
    BY <1>7, SpokenPast
  <1> QED BY <1>1, <1>3, <1>4, <1>5, <1>6, <1>7

\* A message tells what is so.
LEMMA SpokenTold ==
  ASSUME NEW p \in Ends, NEW e, NEW m, Versions, Local(p, e), Running(e),
         LET s == At(p, e)
         IN  /\ s.op = "send" /\ ~Skips(p, e, s) /\ Spoke(p, e, m, s.msg)
             /\ s.msg = "EncryptedExtensions" \/ s.state = 115 => Moves(e, m),
         NEW x, x.msg = At(p, e).msg, x.info = Info(p, e, x.msg), x.ctx = Context(e, x.msg)
  PROVE  Told(p, m, x)
  <1> DEFINE s == At(p, e)
             msg == s.msg
  <1>1. /\ e.prog \in {"start", "13", "12", "12r", "reauth", "ticket"}
        /\ p = "client" \/ p = "server"
        /\ e.prog \in {"12", "12r"} => mode.vers = 12
    BY Where DEF Local, Core, Running, Ends, Versions
  <1>2. e.prog # "none"
    BY DEF Running
  <1>3. CASE msg = "ServerHello"
    BY <1>3 DEF Told, Info
  <1>4. CASE msg = "EncryptedExtensions"
    <2>1. p = "server" /\ e.prog = "13" /\ e.pc = 9
      BY <1>1, <1>2, <1>4, SendPositions
    <2>2. m.pc = 10 /\ m.prog = "13"
      BY <1>4, <2>1 DEF Moves
    <2>3. Beyond(m, "13", 9)
      BY <2>2 DEF Beyond
    <2>4. m.flags \cap {"accepted"} = e.flags \cap {"accepted"}
      BY <1>4 DEF Spoke, SentFlags
    <2>5. x.info = e.flags \cap {"accepted"}
      BY <1>4 DEF Info
    <2> QED BY <1>4, <2>1, <2>3, <2>4, <2>5 DEF Told
  <1>5. CASE msg = "NewSessionTicket"
    <2>1. x.ctx = e.rms /\ m.rms = e.rms
      BY <1>5 DEF Context, Spoke
    <2>0. x.msg = "NewSessionTicket"
      BY <1>5
    <2>2. /\ p = "server"
          /\ \/ e.prog \in {"12", "12r", "ticket"}
             \/ e.prog = "13" /\ e.pc = 17 /\ s.state = 109
             \/ e.prog = "13" /\ e.pc = 23 /\ s.state = 115
      BY <1>1, <1>2, <1>5, SendPositions
    <2>3. /\ s.op = "send" /\ ~Skips(p, e, s) /\ Spoke(p, e, m, s.msg)
          /\ s.state = 115 => Moves(e, m)
      OBVIOUS
    <2> HIDE DEF s
    <2>4. m.prog = e.prog /\ (Has(e, "early_start_used") => Has(m, "early_start_used"))
      BY <2>3 DEF Spoke, Has
    <2>5. e.prog = "13" /\ e.pc = 17 => Has(e, "early_start_used")
      BY <2>2, <2>3 DEF Skips
    <2>6. e.prog = "13" /\ e.pc = 23 => m.pc = 24
      BY <2>2, <2>3 DEF Moves
    <2>7. RmsFixed(m)
      BY <1>1, <2>2, <2>4, <2>5, <2>6 DEF RmsFixed, Beyond, Past
    <2> QED BY <2>0, <2>1, <2>2, <2>7 DEF Told
  <1>6. CASE msg \notin {"ServerHello", "EncryptedExtensions", "NewSessionTicket"}
    <2>1. x.msg # "ccs"
      BY <1>1, <1>2, SendPositions
    <2> QED BY <1>6, <2>1 DEF Told
  <1> QED BY <1>3, <1>4, <1>5, <1>6

\* A Finished message is true of its sender.
LEMMA SpokenFinished ==
  ASSUME NEW p \in Ends, NEW e, NEW m, Versions, Local(p, e), Running(e), Rests(e, m),
         At(p, e).op = "send", At(p, e).msg = "Finished", Spoke(p, e, m, "Finished"),
         NEW y, y.ctx = e.tr, y.key = e.keys[e.we].w
  PROVE  FinishedOK(p, m, y)
  <1>1. /\ e.prog \in {"start", "13", "12", "12r", "reauth", "ticket"}
        /\ p = "client" \/ p = "server"
        /\ Version \in {"13", "12", "12r"} /\ (Version = "13" <=> mode.vers = 13)
        /\ e.prog \in {"13", "12", "12r"} => e.prog = Version
        /\ e.prog \in {"reauth", "ticket"} => mode.vers = 13
        /\ EpochsOK(p, e)
    BY Where DEF Local, Core, Running, Ends
  <1>2. e.prog # "none"
    BY DEF Running
  <1>3. /\ p = "client" => \/ e.prog = "13" /\ e.pc = 17
                           \/ e.prog = "12" /\ e.pc = 13
                           \/ e.prog = "12r" /\ e.pc = 9
                           \/ e.prog = "reauth"
        /\ p = "server" => \/ e.prog = "13" /\ e.pc = 13
                           \/ e.prog = "12" /\ e.pc = 15
                           \/ e.prog = "12r" /\ e.pc = 5
    BY <1>1, <1>2, SendPositions
  <1>4. /\ m.prog = e.prog /\ SameEpochs(e, m) /\ m.psk = e.psk
        /\ m.tr = Append(e.tr, <<p, "Finished">>)
        /\ p = "server" /\ e.prog = "13" => m.mark = m.tr
    BY DEF Spoke, Marks, Unhashed
  <1>5. (m.pc = e.pc /\ m.again = TRUE) \/ (m.pc = e.pc + 1 /\ m.again = FALSE)
    BY DEF Rests, Moves
  <1>6. CASE e.prog = "reauth"
    <2>1. y.key.stage = "app" /\ p = "client"
      BY <1>1, <1>3, <1>6 DEF EpochsOK, Past, Both, AppKey, Key
    <2> QED BY <1>1, <1>6, <2>1 DEF FinishedOK
  <1>7. CASE e.prog = "13" /\ p = "server"
    <2>1. y.key.psk = e.psk
      BY <1>1, <1>3, <1>7 DEF EpochsOK, Server13Epochs
    <2>2. Did(m, "13", 13)
      BY <1>3, <1>4, <1>5, <1>7 DEF Did, Beyond
    <2>3. LastSender # "server"
      BY <1>1, <1>7 DEF LastSender
    <2> QED BY <1>4, <1>7, <2>1, <2>2, <2>3 DEF FinishedOK
  <1>8. CASE e.prog = "13" /\ p = "client"
    <2>1. LastSend = 17 /\ Version = "13" /\ mode.vers = 13
      BY <1>1, <1>8 DEF LastSend
    <2>2. Did(m, "13", 17) /\ Full(m) = m.tr
      BY <1>3, <1>4, <1>5, <1>8 DEF Did, Beyond, Full, Past
    <2> QED BY <1>4, <1>8, <2>1, <2>2 DEF FinishedOK
  <1>9. CASE e.prog \in {"12", "12r"}
    <2>1. mode.vers = 12 /\ e.prog = Version
      BY <1>1, <1>9 DEF Versions
    <2>2. CASE p # LastSender
      BY <2>1, <2>2 DEF FinishedOK
    <2>3. CASE p = LastSender
      <3>1. e.pc = LastSend /\ e.pc > Write12(p, e.prog)
        <4>1. CASE e.prog = "12"
          <5>1. p = "server" /\ LastSend = 15 /\ e.pc = 15
            BY <1>1, <1>3, <2>1, <2>3, <4>1 DEF LastSender, LastSend
          <5> QED BY <4>1, <5>1 DEF Write12
        <4>2. CASE e.prog = "12r"
          <5>1. p = "client" /\ LastSend = 9 /\ e.pc = 9
            BY <1>1, <1>3, <2>1, <2>3, <4>2 DEF LastSender, LastSend
          <5> QED BY <4>2, <5>1 DEF Write12
        <4> QED BY <4>1, <4>2, <1>9
      <3>2. Did(m, Version, LastSend)
        <4>1. e.pc \in Nat
          BY <1>1, <1>3, <1>9
        <4>2. m.prog = Version /\ (m.pc > LastSend \/ (m.pc = LastSend /\ m.again))
          BY <1>4, <1>5, <2>1, <3>1, <4>1
        <4> QED BY <4>2 DEF Did, Beyond
      <3>3. Full(m) = m.tr
        BY <1>4, <1>9 DEF Full, Past
      <3>4. e.we = 1
        BY <1>1, <1>9, <3>1 DEF EpochsOK, Epochs12
      <3>5. y.key = m.keys[1].w
        BY <1>4, <3>4 DEF SameEpochs
      <3> QED BY <1>4, <2>1, <2>3, <3>2, <3>3, <3>5 DEF FinishedOK
    <2> QED BY <2>2, <2>3
  <1> QED BY <1>1, <1>3, <1>6, <1>7, <1>8, <1>9

\* The first call of a send step.
LEMMA SendGood ==
  ASSUME NEW p \in Ends, NEW e, Versions, Local(p, e), Running(e), ~e.again,
         LET s == At(p, e) IN s.op = "send" /\ ~Skips(p, e, s)
  PROVE  LET s == At(p, e)
             f == Compose(p, e, s.msg)
         IN  /\ s.state = 115 =>
                   \A n \in 0..Len(Flush(f).out) : Good(p, e, Advance(p, Takes(Flush(f), n)))
             /\ s.state # 115 /\ s.msg \in Cached(e) => Good(p, e, Advance(p, f))
             /\ s.state # 115 /\ s.msg \notin Cached(e) => Good(p, e, [Flush(f) EXCEPT !.again = TRUE])
  <1> DEFINE s == At(p, e)
             msg == s.msg
             x0 == Entry(p, e, msg)
             f == Compose(p, e, msg)
             g == Flush(f)
  <1>1. /\ DOMAIN e = Fields /\ IsSeq(e.q) /\ IsSeq(e.out) /\ IsSeq(e.wire) /\ e.flags \subseteq Flags
        /\ e.err = "none" /\ e.prog # "none" /\ Core(p, e) /\ Control(p, e) /\ ItemsOK(p, e)
    BY DEF Local, Core, Control, ItemsOK, Running
  <1>2. s.op = "send" /\ ~Skips(p, e, s)
    OBVIOUS
  <1>3. /\ DOMAIN f = Fields /\ SameControl(e, f) /\ f.err = e.err
        /\ f.out = e.out /\ f.wire = e.wire
        /\ Spoke(p, e, f, msg)
        /\ IsSeq(f.q) /\ Messages(f.q) \subseteq Messages(e.q) \cup {x0}
    BY <1>1, ComposeFields
  <1>4. e.prog = "start" => e.pc < Len(Engine(p, e.prog))
    <2> SUFFICES ASSUME e.prog = "start" PROVE e.pc < Len(Engine(p, e.prog))
      OBVIOUS
    <2>1. p = "client" /\ e.pc = 1
      BY <1>1, SendPositions DEF Ends
    <2>2. Len(Engine(p, e.prog)) = 3
      BY <2>1, Lengths
    <2>3. e.pc < 3
      BY <2>1
    <2> QED BY <2>2, <2>3
  <1>5. /\ x0.msg = msg /\ x0.info = Info(p, e, msg) /\ x0.ctx = Context(e, msg) /\ x0.epoch = e.we
        /\ x0.type = IF msg = "EarlyData" THEN "data" ELSE "hs"
    BY DEF Entry
  <1>6. f.flags \subseteq Flags
    BY <1>1, <1>3, SpokenFlags
  <1>7. Sent(f) = Sent(e)
    BY <1>3 DEF Sent
  <1> HIDE DEF f, x0
  <1>8. /\ SameRest(f, g) /\ g.q = <<>> /\ g.wire = f.wire /\ IsSeq(g.out)
        /\ \A y \in Sent(g) : y \in Sent(f) \/ \E x \in Messages(f.q) : y = Sealed(f, x)
    BY <1>1, <1>3, FlushFields
  <1> HIDE DEF g
  <1>9. /\ Spoke(p, e, g, msg) /\ SameControl(e, g) /\ g.flags \subseteq Flags /\ DOMAIN g = Fields
        /\ g.err = e.err
    BY <1>3, <1>6, <1>8 DEF Spoke, SameRest, SameControl, SameEpochs, SameSecrets
  <1>10. \A y \in Sent(g) :
            \/ y \in Sent(e)
            \/ \E x \in Messages(e.q) : y.msg = x.msg /\ y.info = x.info /\ y.ctx = x.ctx
            \/ /\ y.msg = msg /\ y.info = Info(p, e, msg) /\ y.ctx = Context(e, msg)
               /\ y.key = e.keys[e.we].w
    <2>1. SUFFICES ASSUME NEW y \in Sent(g), y \notin Sent(e)
                   PROVE  \/ \E x \in Messages(e.q) : y.msg = x.msg /\ y.info = x.info /\ y.ctx = x.ctx
                          \/ /\ y.msg = msg /\ y.info = Info(p, e, msg) /\ y.ctx = Context(e, msg)
                             /\ y.key = e.keys[e.we].w
      OBVIOUS
    <2>2. PICK x \in Messages(f.q) : y = Sealed(f, x)
      BY <1>7, <1>8, <2>1
    <2>3. f.keys = e.keys
      BY <1>3 DEF Spoke, SameEpochs
    <2>4. y.msg = x.msg /\ y.info = x.info /\ y.ctx = x.ctx /\ y.key = e.keys[x.epoch].w
      BY <2>2, <2>3 DEF Sealed, Record
    <2>5. CASE x \in Messages(e.q)
      BY <2>4, <2>5
    <2>6. CASE x = x0
      BY <2>4, <2>6, <1>5
    <2> QED BY <2>5, <2>6, <1>3
  \* What holds of a session m that is g but for its position.
  <1>11. ASSUME NEW m, Spoke(p, e, m, msg), Rests(e, m),
                msg = "EncryptedExtensions" \/ s.state = 115 => Moves(e, m)
         PROVE  /\ EpochsOK(p, m) /\ TranscriptOK(p, m) /\ Frozen(p, e, m) /\ NoCross(p, e, m)
                /\ Told(p, m, x0)
                /\ \A y : /\ y.msg = msg /\ y.info = Info(p, e, msg) /\ y.ctx = Context(e, msg)
                          /\ y.key = e.keys[e.we].w
                          => Told(p, m, y) /\ (y.msg = "Finished" => FinishedOK(p, m, y))
    <2>1. EpochsOK(p, m) /\ TranscriptOK(p, m) /\ Frozen(p, e, m) /\ NoCross(p, e, m)
      BY <1>11, SpokenGood
    <2>2. Told(p, m, x0)
      BY <1>5, <1>11, SpokenTold
    <2>3. ASSUME NEW y, y.msg = msg, y.info = Info(p, e, msg), y.ctx = Context(e, msg),
                 y.key = e.keys[e.we].w
          PROVE  Told(p, m, y) /\ (y.msg = "Finished" => FinishedOK(p, m, y))
      <3>1. Told(p, m, y)
        BY <1>11, <2>3, SpokenTold
      <3>2. ASSUME msg = "Finished" PROVE FinishedOK(p, m, y)
        <4>1. y.ctx = e.tr
          BY <2>3, <3>2 DEF Context
        <4> QED BY <1>11, <2>3, <3>2, <4>1, SpokenFinished
      <3> QED BY <2>3, <3>1, <3>2
    <2> QED BY <2>1, <2>2, <2>3
  <1>12. ASSUME NEW h, DOMAIN h = Fields, SameControl(e, h), Spoke(p, e, h, msg)
         PROVE  /\ Rests(e, Moved(h)) /\ Moves(e, Moved(h)) /\ Spoke(p, e, Moved(h), msg)
    <2> DEFINE m == Moved(h)
    <2>1. /\ m.pc = h.pc + 1 /\ m.again = FALSE /\ m.prog = h.prog
          /\ SameEpochs(h, m) /\ SameSecrets(h, m)
          /\ m.flags = h.flags /\ m.tickets = h.tickets
      BY <1>12, MovedFields
    <2> HIDE DEF m
    <2>2. Moves(e, m) /\ Rests(e, m)
      BY <1>12, <2>1 DEF Moves, Rests, SameControl
    <2>3. Spoke(p, e, m, msg)
      BY <1>12, <2>1 DEF Spoke, SameEpochs, SameSecrets
    <2> QED BY <2>2, <2>3 DEF m
  <1>13. ASSUME NEW n \in 0..Len(g.out)
         PROVE  Good(p, e, Advance(p, Takes(g, n)))
    <2> DEFINE h == Takes(g, n)
    <2>1. /\ SameRest(g, h) /\ h.q = g.q
          /\ IsSeq(h.out) /\ IsSeq(h.wire) /\ Sent(h) \subseteq Sent(g)
      <3>1. IsSeq(g.wire)
        BY <1>1, <1>3, <1>8
      <3> QED BY <1>8, <1>9, <3>1, TakesFields
    <2> HIDE DEF h
    <2>2. /\ DOMAIN h = Fields /\ SameControl(e, h) /\ Spoke(p, e, h, msg) /\ h.flags \subseteq Flags
          /\ h.err = "none" /\ h.prog = e.prog /\ h.pc = e.pc
      BY <1>1, <1>9, <2>1 DEF SameRest, SameControl, Spoke, SameEpochs, SameSecrets
    <2>3. Rests(e, Moved(h)) /\ Moves(e, Moved(h)) /\ Spoke(p, e, Moved(h), msg)
      BY <1>12, <2>2
    <2>4. /\ EpochsOK(p, Moved(h)) /\ TranscriptOK(p, Moved(h)) /\ Frozen(p, e, Moved(h))
          /\ NoCross(p, e, Moved(h))
          /\ \A y : /\ y.msg = msg /\ y.info = Info(p, e, msg) /\ y.ctx = Context(e, msg)
                    /\ y.key = e.keys[e.we].w
                    => Told(p, Moved(h), y) /\ (y.msg = "Finished" => FinishedOK(p, Moved(h), y))
      BY <1>11, <2>3
    <2>5. IsSeq(h.q) /\ Messages(h.q) = {}
      BY <1>8, <2>1, NoElements
    <2>6. \A y \in Sent(h) :
            \/ y \in Sent(e)
            \/ \E x \in Messages(e.q) : y.msg = x.msg /\ y.info = x.info /\ y.ctx = x.ctx
            \/ Told(p, Moved(h), y) /\ (y.msg = "Finished" => FinishedOK(p, Moved(h), y))
      BY <1>10, <2>1, <2>4
    <2> QED BY <1>4, <2>1, <2>2, <2>4, <2>5, <2>6, StepGood DEF h
  <1>14. ASSUME msg \in Cached(e) PROVE Good(p, e, Advance(p, f))
    <2>1. Rests(e, Moved(f)) /\ Moves(e, Moved(f)) /\ Spoke(p, e, Moved(f), msg)
      BY <1>3, <1>12
    <2>2. /\ EpochsOK(p, Moved(f)) /\ TranscriptOK(p, Moved(f)) /\ Frozen(p, e, Moved(f))
          /\ NoCross(p, e, Moved(f)) /\ Told(p, Moved(f), x0)
      BY <1>11, <2>1
    <2>3. msg # "Finished"
      BY <1>14 DEF Cached
    <2>4. \A x \in Messages(f.q) : \/ x \in Messages(e.q)
                                   \/ Told(p, Moved(f), x) /\ x.msg # "Finished"
      BY <1>3, <1>5, <2>2, <2>3
    <2>5. f.prog = e.prog /\ f.pc = e.pc /\ f.err = "none" /\ IsSeq(f.out) /\ IsSeq(f.wire)
      BY <1>1, <1>3 DEF SameControl
    <2> QED BY <1>3, <1>4, <1>6, <1>7, <2>2, <2>4, <2>5, StepGood
  <1>15. ASSUME msg \notin Cached(e), s.state # 115
         PROVE  Good(p, e, [g EXCEPT !.again = TRUE])
    <2> DEFINE m == [g EXCEPT !.again = TRUE]
    <2>1. /\ DOMAIN m = Fields /\ m.prog = g.prog /\ m.pc = g.pc /\ m.again = TRUE
          /\ SameEpochs(g, m) /\ SameSecrets(g, m) /\ SameBuffers(g, m)
          /\ m.flags = g.flags /\ m.tickets = g.tickets
      BY <1>9 DEF Fields, SameEpochs, SameSecrets, SameBuffers
    <2> HIDE DEF m
    <2>2. /\ Spoke(p, e, m, msg) /\ m.prog = e.prog /\ m.pc = e.pc /\ m.flags \subseteq Flags
      BY <1>9, <2>1 DEF Spoke, SameControl, SameEpochs, SameSecrets
    <2>3. Rests(e, m)
      BY <2>1, <2>2 DEF Rests
    <2>4. msg # "EncryptedExtensions"
      <3> SUFFICES ASSUME msg = "EncryptedExtensions" PROVE FALSE
        OBVIOUS
      <3>1. e.prog = "13"
        BY <1>1, <1>2, SendPositions, Where DEF Ends
      <3> QED BY <1>15, <3>1 DEF Cached
    <2>5. /\ EpochsOK(p, m) /\ TranscriptOK(p, m) /\ Frozen(p, e, m) /\ NoCross(p, e, m)
          /\ \A y : /\ y.msg = msg /\ y.info = Info(p, e, msg) /\ y.ctx = Context(e, msg)
                    /\ y.key = e.keys[e.we].w
                    => Told(p, m, y) /\ (y.msg = "Finished" => FinishedOK(p, m, y))
      BY <1>11, <1>15, <2>2, <2>3, <2>4
    <2>6. Control(p, m)
      BY <1>1, <2>1, <2>2, ControlMoved
    <2>7. m.q = <<>> /\ m.out = g.out /\ m.wire = g.wire /\ Sent(m) = Sent(g)
      BY <1>8, <2>1 DEF SameBuffers, Sent
    <2>8. IsSeq(m.q) /\ IsSeq(m.out) /\ IsSeq(m.wire) /\ Messages(m.q) = {}
      BY <1>1, <1>3, <1>8, <2>7, NoElements
    <2>9. ItemsOK(p, m)
      <3>1. \A y \in Sent(m) :
            \/ y \in Sent(e)
            \/ \E x \in Messages(e.q) : y.msg = x.msg /\ y.info = x.info /\ y.ctx = x.ctx
            \/ Told(p, m, y) /\ (y.msg = "Finished" => FinishedOK(p, m, y))
        BY <1>10, <2>5, <2>7
      <3> QED BY <1>1, <2>5, <2>8, <3>1, ItemsStep
    <2>10. Core(p, m)
      BY <2>5, <2>6, <2>9 DEF Core
    <2>11. e.pc <= Len(Engine(p, e.prog))
      BY <1>1 DEF Local
    <2>12. Local(p, m)
      BY <1>1, <1>2, <2>2, <2>10, <2>11 DEF Local, At
    <2> QED BY <2>5, <2>12 DEF Good, m
  <1> QED BY <1>13, <1>14, <1>15 DEF f, g

-----------------------------------------------------------------------------
(* Receiving a message.                                                      *)

\* What p reaches in a step from e to g, the state o of its peer confirms.
Confirmed(p, e, g, o) ==
    /\ p # LastSender /\ Beyond(g, Version, LastRecv) /\ ~Beyond(e, Version, LastRecv) =>
          /\ Did(o, Version, LastSend) /\ Full(o) = Full(g)
          /\ mode.vers = 12 => o.keys[1].w = g.keys[1].w
    /\ p = "client" /\ mode.vers = 13 /\ Beyond(g, "13", 12) /\ ~Beyond(e, "13", 12) =>
          Did(o, "13", 13) /\ g.mark = o.mark /\ g.psk = o.psk
    /\ p = "client" /\ mode.vers = 13 /\ Beyond(g, "13", 8) /\ ~Beyond(e, "13", 8) =>
          Beyond(o, "13", 9) /\ (Has(g, "accepted") <=> Has(o, "accepted"))
    /\ \A t \in g.tickets : t \in e.tickets \/ t[1] = t[2]

\* What is not reached needs no confirmation.
LEMMA NoneConfirmed ==
  ASSUME NEW p, NEW e, NEW g, NEW o, NoCross(p, e, g)
  PROVE  Confirmed(p, e, g, o)
  BY DEF NoCross, Confirmed

\* Moving on needs no further confirmation.
LEMMA ConfirmedOn ==
  ASSUME NEW p, NEW e, NEW m, NEW g, NEW o, Confirmed(p, e, m, o),
         Frozen(p, m, g), NoCross(p, m, g)
  PROVE  Confirmed(p, e, g, o)
  BY DEF Confirmed, Frozen, NoCross

\* The endpoints agree after a step of the client that the server confirms.
LEMMA ClientConfirmed ==
  ASSUME NEW c, NEW s, NEW c2, NEW s2, Pair(c, s),
         Frozen("client", c, c2), Confirmed("client", c, c2, s),
         Frozen("server", s, s2), NoCross("server", s, s2)
  PROVE  Pair(c2, s2)
  BY DEF Pair, Frozen, NoCross, Confirmed, LastSender

\* And after a step of the server that the client confirms.
LEMMA ServerConfirmed ==
  ASSUME NEW c, NEW s, NEW c2, NEW s2, Pair(c, s),
         Frozen("server", s, s2), Confirmed("server", s, s2, c),
         Frozen("client", c, c2), NoCross("client", c, c2)
  PROVE  Pair(c2, s2)
  BY DEF Pair, Frozen, NoCross, Confirmed, LastSender

\* The flags that a message can set.
MayGain(r) ==
    CASE r.msg = "ClientHello" -> {"in_flight", "accepted", "psk_selected", "renew", "hrr_sent"}
      [] r.msg \in {"ServerHello", "EncryptedExtensions"} -> r.info
      [] r.msg = "CertificateRequest" -> {"crt_asked"}
      [] r.msg = "Certificate" -> {"crt_vrfy_expected"}
      [] OTHER -> {}

\* The messages the receiver's secrets depend on.
HeardMarks(p, e, msg) == \/ msg \in {"ServerHello", "ClientKeyExchange"}
                         \/ msg = "Finished" /\ p = "client" /\ e.prog = "13"

\* What a message does to the secrets, the flags and the position.
Heard(p, e, f, r) ==
    /\ DOMAIN f = Fields /\ f.err = e.err /\ SameEpochs(e, f) /\ SameBuffers(e, f)
    /\ f.tickets = e.tickets /\ f.rms = e.rms /\ f.saved = e.saved /\ (f.again <=> e.again)
    /\ f.prog = IF r.msg \in {"ClientHello", "ServerHello"} THEN Version ELSE e.prog
    /\ f.pc = IF r.msg = "HelloRetryRequest" THEN 0 ELSE e.pc
    /\ e.flags \ {"in_flight"} \subseteq f.flags /\ f.flags \subseteq e.flags \cup MayGain(r)
    /\ r.msg = "EncryptedExtensions" => r.info \subseteq f.flags
    /\ r.msg \notin {"HelloRetryRequest", "EarlyData", "NewSessionTicket"} =>
          f.tr = Append(e.tr, <<Peer(p), r.msg>>)
    /\ r.msg = "NewSessionTicket" => f.tr \in {e.tr, Append(e.tr, <<Peer(p), r.msg>>)}
    /\ r.msg = "HelloRetryRequest" => f.tr = <<Synthetic, <<"server", r.msg>>>>
    /\ f.mark = IF HeardMarks(p, e, r.msg) THEN f.tr ELSE e.mark
    /\ r.msg # "ServerHello" => f.psk = e.psk
    /\ r.msg = "Finished" => r.ctx = e.tr

\* Two sessions that differ in HSK_EARLY_DATA_IN_FLIGHT only.
SameButEarly(e, d) ==
    /\ DOMAIN d = Fields /\ SameControl(e, d) /\ SameEpochs(e, d) /\ SameSecrets(e, d)
    /\ SameBuffers(e, d) /\ d.tickets = e.tickets /\ d.err = e.err
    /\ e.flags \ {"in_flight"} \subseteq d.flags /\ d.flags \subseteq e.flags

\* The fields of a session that processed a message, unless that is a Finished
\* that does not match.
LEMMA ProcessFields ==
  ASSUME NEW p, NEW e, NEW d, NEW r, DOMAIN e = Fields, SameButEarly(e, d),
         r.msg = "Finished" => r.ctx = d.tr
  PROVE  Heard(p, e, Process(p, d, r), r)
  <1> DEFINE t == Append(d.tr, <<Peer(p), r.msg>>)
             f == IF Unhashed(d, r.msg) THEN d ELSE [d EXCEPT !.tr = t]
             g == Process(p, d, r)
             hf == HelloFlags(d, r.info)
             cf == CertFlags(r.info)
             sy == <<Synthetic, <<"server", r.msg>>>>
             k == Has(d, "in_flight") \/ "psk_selected" \in r.info \/ Version = "12r"
  <1>0. DOMAIN d = Fields
    BY DEF SameButEarly
  <1>1. g = CASE r.msg = "ClientHello" -> [f EXCEPT !.flags = @ \cup hf, !.prog = Version]
              [] r.msg = "HelloRetryRequest" -> [f EXCEPT !.tr = sy, !.pc = 0]
              [] r.msg = "ServerHello" ->
                   [f EXCEPT !.flags = @ \cup r.info, !.prog = Version, !.mark = f.tr, !.psk = k]
              [] r.msg = "EncryptedExtensions" -> [f EXCEPT !.flags = @ \cup r.info]
              [] r.msg = "CertificateRequest"  -> [f EXCEPT !.flags = @ \cup {"crt_asked"}]
              [] r.msg = "Certificate"         -> [f EXCEPT !.flags = @ \cup cf]
              [] r.msg = "ClientKeyExchange"   -> [f EXCEPT !.mark = f.tr]
              [] r.msg = "EndOfEarlyData"      -> [f EXCEPT !.flags = @ \ {"in_flight"}]
              [] r.msg = "Finished" ->
                   IF r.ctx # d.tr THEN Fail(d, "finished")
                   ELSE IF d.prog = "13" /\ p = "client" THEN [f EXCEPT !.mark = f.tr]
                   ELSE IF d.prog \in {"12", "12r"} THEN [f EXCEPT !.done = TRUE] ELSE f
              [] OTHER -> f
    BY DEF Process
  <1>2. hf \subseteq {"in_flight", "accepted", "psk_selected", "renew", "hrr_sent"}
    BY DEF HelloFlags
  <1>3. cf \subseteq {"crt_vrfy_expected"}
    BY DEF CertFlags
  <1> HIDE DEF t, hf, cf, sy, k
  <1>4. /\ DOMAIN f = Fields /\ SameControl(d, f) /\ SameEpochs(d, f) /\ SameBuffers(d, f)
        /\ f.flags = d.flags /\ f.tickets = d.tickets /\ f.err = d.err
        /\ f.mark = d.mark /\ f.psk = d.psk /\ f.rms = d.rms /\ f.saved = d.saved
        /\ f.tr = IF Unhashed(d, r.msg) THEN d.tr ELSE t
    BY <1>0 DEF Fields, SameControl, SameEpochs, SameBuffers
  <1> HIDE DEF f, g
  <1>5. /\ DOMAIN g = Fields /\ SameEpochs(f, g) /\ SameBuffers(f, g)
        /\ g.tickets = f.tickets /\ g.err = f.err /\ (g.again <=> f.again)
        /\ g.rms = f.rms /\ g.saved = f.saved
        /\ g.prog = IF r.msg \in {"ClientHello", "ServerHello"} THEN Version ELSE f.prog
        /\ g.pc = IF r.msg = "HelloRetryRequest" THEN 0 ELSE f.pc
        /\ g.tr = IF r.msg = "HelloRetryRequest" THEN sy ELSE f.tr
        /\ g.mark = IF HeardMarks(p, d, r.msg) THEN f.tr ELSE f.mark
        /\ r.msg # "ServerHello" => g.psk = f.psk
    BY <1>1, <1>4, ZenonT(40) DEF Fields, SameEpochs, SameBuffers, HeardMarks
  <1>6. f.flags \ {"in_flight"} \subseteq g.flags /\ g.flags \subseteq f.flags \cup MayGain(r)
    BY <1>1, <1>2, <1>3, <1>4 DEF Fields, MayGain
  <1>7. r.msg = "EncryptedExtensions" => r.info \subseteq g.flags
    BY <1>1, <1>4 DEF Fields
  <1>8. d.prog = e.prog /\ d.pc = e.pc /\ d.tr = e.tr /\ d.mark = e.mark /\ d.psk = e.psk
    BY DEF SameButEarly, SameControl, SameSecrets
  <1>9. HeardMarks(p, d, r.msg) => r.msg # "HelloRetryRequest"
    BY DEF HeardMarks
  <1>10. /\ SameEpochs(e, g) /\ SameBuffers(e, g) /\ g.tickets = e.tickets /\ g.err = e.err
         /\ (g.again <=> e.again) /\ g.rms = e.rms /\ g.saved = e.saved
    BY <1>4, <1>5 DEF SameButEarly, SameControl, SameEpochs, SameBuffers, SameSecrets
  <1>11. /\ g.prog = IF r.msg \in {"ClientHello", "ServerHello"} THEN Version ELSE e.prog
         /\ g.pc = IF r.msg = "HelloRetryRequest" THEN 0 ELSE e.pc
    BY <1>4, <1>5, <1>8 DEF SameControl
  <1>12. e.flags \ {"in_flight"} \subseteq g.flags /\ g.flags \subseteq e.flags \cup MayGain(r)
    BY <1>4, <1>6 DEF SameButEarly
  <1>13. /\ r.msg \notin {"HelloRetryRequest", "EarlyData", "NewSessionTicket"} =>
              g.tr = Append(e.tr, <<Peer(p), r.msg>>)
         /\ r.msg = "NewSessionTicket" => g.tr \in {e.tr, Append(e.tr, <<Peer(p), r.msg>>)}
         /\ r.msg = "HelloRetryRequest" => g.tr = <<Synthetic, <<"server", r.msg>>>>
    BY <1>4, <1>5, <1>8 DEF Unhashed, t, sy
  <1>14. g.mark = IF HeardMarks(p, e, r.msg) THEN g.tr ELSE e.mark
    BY <1>4, <1>5, <1>8, <1>9 DEF HeardMarks
  <1>15. r.msg # "ServerHello" => g.psk = e.psk
    BY <1>4, <1>5, <1>8
  <1>16. r.msg = "Finished" => r.ctx = e.tr
    BY <1>8
  <1>17. Heard(p, e, g, r)
    BY <1>5, <1>7, <1>10, <1>11, <1>12, <1>13, <1>14, <1>15, <1>16 DEF Heard
  <1> QED BY <1>17 DEF g

\* Where a message is received.
LEMMA RecvPositions ==
  ASSUME NEW p \in Ends, NEW e, Versions, Local(p, e), e.prog # "none"
  PROVE  LET msg == At(p, e).msg
         IN  /\ At(p, e).op = "recvccs" => e.prog \in {"12", "12r"} /\ e.pc = Read12(p, e.prog)
             /\ At(p, e).op = "recv" =>
                /\ p = "client" /\ e.prog = "start" =>
                      (e.pc = 2 /\ msg = "HelloRetryRequest") \/ (e.pc = 3 /\ msg = "ServerHello")
                /\ p = "client" /\ e.prog = "13" =>
                      \/ e.pc = 8 /\ msg = "EncryptedExtensions"
                      \/ e.pc = 9 /\ msg = "CertificateRequest"
                      \/ e.pc = 10 /\ msg = "Certificate"
                      \/ e.pc = 11 /\ msg = "CertificateVerify"
                      \/ e.pc = 12 /\ msg = "Finished"
                /\ p = "client" /\ e.prog = "12" =>
                      \/ e.pc = 4 /\ msg = "Certificate"
                      \/ e.pc = 5 /\ msg = "ServerKeyExchange"
                      \/ e.pc = 6 /\ msg = "CertificateRequest"
                      \/ e.pc = 7 /\ msg = "ServerHelloDone"
                      \/ e.pc = 15 /\ msg = "NewSessionTicket"
                      \/ e.pc = 17 /\ msg = "Finished"
                /\ p = "client" /\ e.prog = "12r" =>
                      (e.pc = 4 /\ msg = "NewSessionTicket") \/ (e.pc = 6 /\ msg = "Finished")
                /\ p = "client" => e.prog \in {"start", "13", "12", "12r"}
                /\ p = "server" /\ e.prog = "start" => e.pc = 1 /\ msg = "ClientHello"
                /\ p = "server" /\ e.prog = "13" =>
                      \/ e.pc = 5 /\ msg = "ClientHello"
                      \/ e.pc = 14 /\ msg = "EndOfEarlyData"
                      \/ e.pc = 19 /\ msg = "Certificate"
                      \/ e.pc = 20 /\ msg = "CertificateVerify"
                      \/ e.pc = 21 /\ msg = "Finished"
                /\ p = "server" /\ e.prog = "12" =>
                      \/ e.pc = 7 /\ msg = "Certificate"
                      \/ e.pc = 8 /\ msg = "ClientKeyExchange"
                      \/ e.pc = 9 /\ msg = "CertificateVerify"
                      \/ e.pc = 11 /\ msg = "Finished"
                /\ p = "server" /\ e.prog = "12r" => e.pc = 8 /\ msg = "Finished"
                /\ p = "server" /\ e.prog = "reauth" =>
                      msg \in {"Certificate", "CertificateVerify", "Finished"}
                /\ e.prog # "ticket"
  <1>1. p = "client" \/ p = "server"
    BY DEF Ends
  <1>2. /\ p = "client" => /\ e.prog = "start" => e.pc \in 1..3
                           /\ e.prog = "13" => e.pc \in 4..18
                           /\ e.prog = "12" => e.pc \in 4..17
                           /\ e.prog = "12r" => e.pc \in 4..9
                           /\ e.prog = "reauth" => e.pc \in 1..3
        /\ p = "server" => /\ e.prog = "start" => e.pc = 1
                           /\ e.prog = "13" => e.pc \in 2..23
                           /\ e.prog = "12" => e.pc \in 2..15
                           /\ e.prog = "12r" => e.pc \in 2..8
                           /\ e.prog = "reauth" => e.pc \in 1..4
                           /\ e.prog = "ticket" => e.pc = 1
    BY Due
  <1>3. /\ e.prog \in {"start", "13", "12", "12r", "reauth", "ticket"}
        /\ e.prog = "ticket" => p = "server"
    BY Where DEF Local, Core
  <1>4. CASE e.prog = "start"
    BY <1>1, <1>2, <1>4, StartSteps DEF S
  <1>5. CASE e.prog = "13" /\ p = "client"
    BY <1>2, <1>5, Client13Steps DEF S
  <1>6. CASE e.prog = "13" /\ p = "server"
    BY <1>2, <1>6, Server13Steps DEF S
  <1>7. CASE e.prog \in {"12", "12r"} /\ p = "client"
    BY <1>2, <1>7, Client12Steps DEF S, Read12
  <1>8. CASE e.prog \in {"12", "12r"} /\ p = "server"
    BY <1>2, <1>8, Server12Steps DEF S, Read12
  <1>9. CASE e.prog \in {"reauth", "ticket"}
    BY <1>1, <1>2, <1>3, <1>9, LaterSteps DEF S
  <1> QED BY <1>1, <1>3, <1>4, <1>5, <1>6, <1>7, <1>8, <1>9

\* What a message does to the session that moves on.
Hears(p, e, m, r) ==
    /\ m.again = FALSE /\ SameEpochs(e, m)
    /\ m.tickets = e.tickets /\ m.rms = e.rms /\ m.saved = e.saved
    /\ m.prog = IF r.msg \in {"ClientHello", "ServerHello"} THEN Version ELSE e.prog
    /\ m.pc = IF r.msg = "HelloRetryRequest" THEN 1 ELSE e.pc + 1
    /\ e.flags \ {"in_flight"} \subseteq m.flags /\ m.flags \subseteq e.flags \cup MayGain(r)
    /\ r.msg = "EncryptedExtensions" => r.info \subseteq m.flags
    /\ r.msg \notin {"HelloRetryRequest", "EarlyData", "NewSessionTicket"} =>
          m.tr = Append(e.tr, <<Peer(p), r.msg>>)
    /\ r.msg = "NewSessionTicket" => m.tr \in {e.tr, Append(e.tr, <<Peer(p), r.msg>>)}
    /\ r.msg = "HelloRetryRequest" => m.tr = <<Synthetic, <<"server", r.msg>>>>
    /\ m.mark = IF HeardMarks(p, e, r.msg) THEN m.tr ELSE e.mark
    /\ r.msg # "ServerHello" => m.psk = e.psk
    /\ r.msg = "Finished" => r.ctx = e.tr

\* The session that processed a message moves on.
LEMMA HeardMoved ==
  ASSUME NEW p, NEW e, NEW f, NEW r, Heard(p, e, f, r)
  PROVE  LET m == Moved(f)
         IN  DOMAIN m = Fields /\ SameBuffers(e, m) /\ Hears(p, e, m, r)
  <1> DEFINE m == Moved(f)
  <1>1. DOMAIN f = Fields
    BY DEF Heard
  <1>2. /\ DOMAIN m = Fields
        /\ m.pc = f.pc + 1 /\ m.again = FALSE /\ m.prog = f.prog
        /\ SameEpochs(f, m) /\ SameSecrets(f, m) /\ SameBuffers(f, m)
        /\ m.flags = f.flags /\ m.tickets = f.tickets
    BY <1>1, MovedFields
  <1> HIDE DEF m
  <1>3. SameBuffers(e, m) /\ SameEpochs(e, m)
    BY <1>2 DEF Heard, SameBuffers, SameEpochs
  <1>4. m.tr = f.tr /\ m.mark = f.mark /\ m.psk = f.psk /\ m.saved = f.saved /\ m.rms = f.rms
    BY <1>2 DEF SameSecrets
  <1>5. m.pc = IF r.msg = "HelloRetryRequest" THEN 1 ELSE e.pc + 1
    BY <1>2 DEF Heard
  <1>6. Hears(p, e, m, r)
    BY <1>2, <1>3, <1>4, <1>5 DEF Heard, Hears
  <1> QED BY <1>2, <1>3, <1>6 DEF m

\* The flags that a message sets, by its name.
LEMMA HeardFlags ==
  ASSUME NEW p, NEW e, NEW m, NEW r, Hears(p, e, m, r)
  PROVE  /\ r.msg \in {"HelloRetryRequest", "CertificateRequest", "Certificate", "CertificateVerify",
                       "EndOfEarlyData", "Finished"} => (Has(m, "accepted") <=> Has(e, "accepted"))
         /\ r.msg \in {"HelloRetryRequest", "ClientHello", "Certificate", "CertificateVerify",
                       "EndOfEarlyData", "Finished"} => (Has(m, "crt_asked") <=> Has(e, "crt_asked"))
         /\ r.msg \in {"ClientHello", "Certificate", "CertificateVerify", "EndOfEarlyData", "Finished"} =>
                 (Has(m, "early_start_used") <=> Has(e, "early_start_used"))
         /\ Has(e, "crt_req_sent") => Has(m, "crt_req_sent")
         /\ e.flags \subseteq Flags
            /\ (r.msg \in {"ServerHello", "EncryptedExtensions"} => r.info \subseteq Flags)
               => m.flags \subseteq Flags
  <1>1. /\ r.msg \notin {"ClientHello", "ServerHello", "EncryptedExtensions"} =>
              MayGain(r) \subseteq {"crt_asked", "crt_vrfy_expected"}
        /\ r.msg = "ClientHello" =>
              MayGain(r) \subseteq {"in_flight", "accepted", "psk_selected", "renew", "hrr_sent"}
        /\ r.msg \in {"ServerHello", "EncryptedExtensions"} => MayGain(r) = r.info
        /\ r.msg \notin {"CertificateRequest", "ClientHello", "ServerHello", "EncryptedExtensions"} =>
              MayGain(r) \subseteq {"crt_vrfy_expected"}
    BY DEF MayGain
  <1>2. e.flags \ {"in_flight"} \subseteq m.flags /\ m.flags \subseteq e.flags \cup MayGain(r)
    BY DEF Hears
  <1> QED BY <1>1, <1>2 DEF Has, Flags

\* The messages the TLS 1.3 client receives.
LEMMA HeardClient13 ==
  ASSUME NEW e, NEW m, NEW r, NEW o, Versions, Local("client", e), e.prog = "13",
         At("client", e).op = "recv", r.msg = At("client", e).msg, Hears("client", e, m, r),
         r.key = ReadKey(e), Told("server", o, r), r.msg = "Finished" => FinishedOK("server", o, r)
  PROVE  /\ EpochsOK("client", m) /\ TranscriptOK("client", m)
         /\ Frozen("client", e, m) /\ Confirmed("client", e, m, o)
  <1> DEFINE p == "client"
  <1>1. p \in Ends /\ Core(p, e) /\ Control(p, e) /\ mode.vers = 13 /\ e.pc \in Nat
    BY Where DEF Ends, Local, Core
  <1>2. \/ e.pc = 8 /\ r.msg = "EncryptedExtensions"
        \/ e.pc = 9 /\ r.msg = "CertificateRequest"
        \/ e.pc = 10 /\ r.msg = "Certificate"
        \/ e.pc = 11 /\ r.msg = "CertificateVerify"
        \/ e.pc = 12 /\ r.msg = "Finished"
    BY <1>1, RecvPositions
  <1>3. e.pc = 8 => Beyond(o, "13", 9) /\ r.info = o.flags \cap {"accepted"}
    BY <1>2 DEF Told
  <1>4. e.pc # 8 => (Has(m, "accepted") <=> Has(e, "accepted"))
    BY <1>2, HeardFlags
  <1>5. e.pc # 9 => (Has(m, "crt_asked") <=> Has(e, "crt_asked"))
    <2>1. CASE e.pc = 8
      <3>1. e.flags \ {"in_flight"} \subseteq m.flags /\ m.flags \subseteq e.flags \cup r.info
        BY <1>2, <2>1 DEF Hears, MayGain
      <3> QED BY <1>3, <2>1, <3>1 DEF Has
    <2>2. CASE e.pc # 8
      BY <1>2, <2>2, HeardFlags
    <2> QED BY <2>1, <2>2
  <1>6. /\ m.prog = "13" /\ SameEpochs(e, m) /\ m.tickets = e.tickets
        /\ m.rms = e.rms /\ m.psk = e.psk
        /\ m.tr = Append(e.tr, <<"server", r.msg>>)
        /\ m.mark = IF e.pc = 12 THEN m.tr ELSE e.mark
        /\ m.pc = e.pc + 1 /\ m.again = FALSE
    BY <1>2 DEF Hears, HeardMarks, Peer
  <1>7. EpochsOK(p, m)
    BY <1>1, <1>2, <1>6, EpochsKept DEF Core, PlainEpochs, Past
  <1>8. IsSeq(m.tr) /\ Elems(m.tr) = Elems(e.tr) \cup {<<"server", r.msg>>}
    <2> DEFINE x == <<"server", r.msg>>
    <2>1. IsSeq(e.tr)
      BY <1>1 DEF Core, TranscriptOK, Past
    <2>2. m.tr = Append(e.tr, x)
      BY <1>6
    <2> HIDE DEF x
    <2>3. IsSeq(m.tr) /\ Elems(m.tr) = Elems(e.tr) \cup {x}
      BY <2>1, <2>2, AppendSeq
    <2> QED BY <2>3 DEF x
  <1>9. ClientTr(e)
    BY <1>1 DEF Core, TranscriptOK
  <1>10. ~Past(m) /\ ~Past(e)
    BY <1>6 DEF Past
  <1>11. /\ Beyond(m, "13", 8) /\ ~Beyond(m, "13", 18) /\ ~Did(m, "13", 13)
         /\ Beyond(e, "13", 8) <=> e.pc # 8
         /\ ~Beyond(e, "13", 12)
         /\ Beyond(m, "13", 12) <=> e.pc = 12
    BY <1>2, <1>6, <1>10 DEF Did, Beyond
  <1>12. Has(m, "crt_asked") => Asks \in Elems(m.tr)
    <2>1. CASE e.pc = 9
      BY <1>2, <1>8, <2>1 DEF Asks
    <2>2. CASE e.pc # 9
      <3>1. Has(e, "crt_asked") => Asks \in Elems(e.tr)
        BY <1>2, <1>9 DEF ClientTr
      <3> QED BY <1>5, <1>8, <2>2, <3>1
    <2> QED BY <2>1, <2>2
  <1>13. ClientTr(m)
    <2>1. (m.pc > 12 => m.mark = m.tr) /\ (m.pc = 13 => m.mark = m.tr)
      BY <1>2, <1>6
    <2>2. m.prog # "start"
      BY <1>6
    <2> QED BY <2>1, <2>2, <1>10, <1>11, <1>12 DEF ClientTr
  <1>14. TranscriptOK(p, m)
    BY <1>1, <1>8, <1>13 DEF TranscriptOK
  <1>15. Frozen(p, e, m)
    BY <1>1, <1>2, <1>4, <1>6, FrozenClient13
  <1>16. e.pc = 12 => Did(o, "13", 13) /\ m.mark = o.mark /\ m.psk = o.psk
    <2> SUFFICES ASSUME e.pc = 12 PROVE Did(o, "13", 13) /\ m.mark = o.mark /\ m.psk = o.psk
      OBVIOUS
    <2>1. r.msg = "Finished" /\ r.ctx = e.tr
      BY <1>2 DEF Hears
    <2>2. /\ Did(o, "13", 13) /\ Append(r.ctx, <<"server", "Finished">>) = o.mark
          /\ r.key.psk = o.psk
      BY <1>1, <2>1 DEF FinishedOK
    <2>3. e.keys[e.re].r.psk = e.psk
      BY <1>1 DEF Core, EpochsOK, Client13Epochs
    <2> QED BY <1>6, <2>1, <2>2, <2>3 DEF ReadKey
  <1>17. e.pc = 8 => Beyond(o, "13", 9) /\ (Has(m, "accepted") <=> Has(o, "accepted"))
    <2> SUFFICES ASSUME e.pc = 8 PROVE Beyond(o, "13", 9) /\ (Has(m, "accepted") <=> Has(o, "accepted"))
      OBVIOUS
    <2>1. r.info \subseteq m.flags /\ m.flags \subseteq e.flags \cup r.info
      BY <1>2 DEF Hears, MayGain
    <2>2. ~Has(e, "accepted")
      BY <1>9, <1>11 DEF ClientTr
    <2> QED BY <1>3, <2>1, <2>2 DEF Has
  <1>18. LastSender = "client"
    BY <1>1 DEF LastSender, Version
  <1>19. Confirmed(p, e, m, o)
    BY <1>6, <1>11, <1>16, <1>17, <1>18 DEF Confirmed
  <1> QED BY <1>7, <1>14, <1>15, <1>19

\* The messages the TLS 1.3 server receives.
LEMMA HeardServer13 ==
  ASSUME NEW e, NEW m, NEW r, NEW o, Versions, Local("server", e), e.prog = "13",
         LET s == At("server", e)
         IN  s.op = "recv" /\ r.msg = s.msg /\ ~Skips("server", e, s),
         Hears("server", e, m, r),
         r.key = ReadKey(e), r.msg = "Finished" => FinishedOK("client", o, r)
  PROVE  /\ EpochsOK("server", m) /\ TranscriptOK("server", m)
         /\ Frozen("server", e, m) /\ Confirmed("server", e, m, o)
  <1> DEFINE p == "server"
             s == At("server", e)
  <1>1. p \in Ends /\ Core(p, e) /\ Control(p, e) /\ mode.vers = 13 /\ e.pc \in Nat /\ Version = "13"
    BY Where DEF Ends, Local, Core
  <1>2. \/ e.pc = 5 /\ r.msg = "ClientHello"
        \/ e.pc = 14 /\ r.msg = "EndOfEarlyData"
        \/ e.pc = 19 /\ r.msg = "Certificate"
        \/ e.pc = 20 /\ r.msg = "CertificateVerify"
        \/ e.pc = 21 /\ r.msg = "Finished"
    BY <1>1, RecvPositions
  <1>3. e.pc = 14 => Has(e, "accepted")
    <2>1. r.msg = s.msg /\ ~Skips(p, e, s)
      OBVIOUS
    <2> HIDE DEF s
    <2> QED BY <1>2, <2>1 DEF Skips
  <1> HIDE DEF s
  <1>4. e.pc # 5 => (Has(m, "accepted") <=> Has(e, "accepted"))
    BY <1>2, HeardFlags
  <1>5. /\ Has(m, "early_start_used") <=> Has(e, "early_start_used")
        /\ Has(e, "crt_req_sent") => Has(m, "crt_req_sent")
    BY <1>2, HeardFlags
  <1>6. /\ m.prog = "13" /\ SameEpochs(e, m) /\ m.tickets = e.tickets
        /\ m.rms = e.rms /\ m.psk = e.psk
        /\ m.tr = Append(e.tr, <<"client", r.msg>>)
        /\ m.mark = e.mark
        /\ m.pc = e.pc + 1 /\ m.again = FALSE
    BY <1>1, <1>2 DEF Hears, HeardMarks, Peer
  <1>7. EpochsOK(p, m)
    BY <1>1, <1>2, <1>4, <1>6, EpochsKept DEF Core, PlainEpochs, Past
  <1>8. IsSeq(m.tr) /\ Elems(m.tr) = Elems(e.tr) \cup {<<"client", r.msg>>}
    <2> DEFINE x == <<"client", r.msg>>
    <2>1. IsSeq(e.tr)
      BY <1>1 DEF Core, TranscriptOK, Past
    <2>2. m.tr = Append(e.tr, x)
      BY <1>6
    <2> HIDE DEF x
    <2>3. IsSeq(m.tr) /\ Elems(m.tr) = Elems(e.tr) \cup {x}
      BY <2>1, <2>2, AppendSeq
    <2> QED BY <2>3 DEF x
  <1>9. ServerTr(e)
    BY <1>1 DEF Core, TranscriptOK
  <1>10. ~Past(m) /\ ~Past(e) /\ Full(m) = m.tr
    BY <1>6 DEF Past, Full
  <1>11. /\ \A n \in Nat : Beyond(m, "13", n) <=> m.pc > n
         /\ \A n \in Nat : Beyond(e, "13", n) <=> e.pc > n
    BY <1>6, <1>10 DEF Beyond
  <1>12. Asks \in Elems(m.tr) => Has(m, "crt_req_sent")
    <2>1. <<"client", r.msg>> # Asks
      BY DEF Asks
    <2>2. Asks \in Elems(e.tr) => Has(e, "crt_req_sent")
      BY <1>9, <1>10 DEF ServerTr
    <2> QED BY <1>5, <1>8, <2>1, <2>2
  <1>13. Asks \in Elems(m.mark) => Has(m, "crt_req_sent")
    BY <1>5, <1>6, <1>9, <1>10 DEF ServerTr
  <1>14. m.pc \in 15..16 => m.tr = Ext(m)
    <2> SUFFICES ASSUME m.pc \in 15..16 PROVE m.tr = Ext(m)
      OBVIOUS
    <2>1. e.pc = 14 /\ r.msg = "EndOfEarlyData"
      BY <1>2, <1>6
    <2>2. e.tr = e.mark
      BY <1>9, <2>1 DEF ServerTr
    <2> QED BY <1>3, <1>4, <1>6, <2>1, <2>2 DEF Ext
  <1>15. Has(e, "early_start_used") =>
            e.pc > 16 /\ Asks \notin Elems(m.mark) /\ m.rms = Answer(m)
    <2> SUFFICES ASSUME Has(e, "early_start_used")
                 PROVE  e.pc > 16 /\ Asks \notin Elems(m.mark) /\ m.rms = Answer(m)
      OBVIOUS
    <2>1. e.pc > 16 /\ Asks \notin Elems(e.mark) /\ e.rms = Answer(e)
      BY <1>9, <1>11 DEF ServerTr
    <2> QED BY <1>4, <1>6, <2>1 DEF Answer, Ext
  <1>16. ServerTr(m)
    <2>1. ~Beyond(m, "13", 22)
      BY <1>2, <1>6, <1>11
    <2>2. e.pc > 16 => Beyond(m, "13", 16)
      BY <1>1, <1>6, <1>11
    <2>3. m.pc \notin {13, 14}
      BY <1>2, <1>6
    <2> QED BY <2>1, <2>2, <2>3, <1>5, <1>10, <1>12, <1>13, <1>14, <1>15 DEF ServerTr
  <1>17. TranscriptOK(p, m)
    BY <1>1, <1>8, <1>16 DEF TranscriptOK
  <1>18. Frozen(p, e, m) /\ (e.pc # 21 => NoCross(p, e, m))
    BY <1>1, <1>2, <1>4, <1>5, <1>6, FrozenServer13
  <1>19. Confirmed(p, e, m, o)
    <2>1. CASE e.pc # 21
      BY <1>18, <2>1, NoneConfirmed
    <2>2. CASE e.pc = 21
      <3>1. r.msg = "Finished" /\ r.ctx = e.tr
        BY <1>2, <2>2 DEF Hears
      <3>2. LastSender = "client"
        BY <1>1 DEF LastSender
      <3>3. r.key.stage = "hs"
        BY <1>1, <2>2 DEF Core, EpochsOK, Server13Epochs, ReadKey
      <3>4. /\ Did(o, Version, LastSend) /\ Append(r.ctx, <<"client", "Finished">>) = Full(o)
        BY <3>1, <3>2, <3>3 DEF FinishedOK
      <3> QED BY <1>1, <1>6, <1>10, <3>1, <3>4 DEF Confirmed
    <2> QED BY <2>1, <2>2
  <1> QED BY <1>7, <1>17, <1>18, <1>19

\* The messages of TLS 1.2 that are received.
LEMMA Heard12 ==
  ASSUME NEW p \in Ends, NEW e, NEW m, NEW r, NEW o, Versions, Local(p, e), e.prog \in {"12", "12r"},
         At(p, e).op = "recv", r.msg = At(p, e).msg, Hears(p, e, m, r),
         r.key = ReadKey(e), r.msg = "Finished" => FinishedOK(Peer(p), o, r)
  PROVE  /\ EpochsOK(p, m) /\ TranscriptOK(p, m)
         /\ Frozen(p, e, m) /\ Confirmed(p, e, m, o)
  <1>1. /\ Core(p, e) /\ Control(p, e) /\ mode.vers = 12 /\ e.pc \in Nat /\ e.prog = Version
        /\ p = "client" \/ p = "server"
    BY Where DEF Ends, Local, Core, Versions
  <1>2. /\ p = "client" /\ e.prog = "12" => e.pc \in {4, 5, 6, 7, 15, 17}
        /\ p = "client" /\ e.prog = "12r" => e.pc \in {4, 6}
        /\ p = "server" /\ e.prog = "12" => e.pc \in {7, 8, 9, 11}
        /\ p = "server" /\ e.prog = "12r" => e.pc = 8
        /\ p = "client" /\ e.prog = "12" /\ e.pc = 17 => r.msg = "Finished"
        /\ p = "server" /\ e.prog = "12r" => r.msg = "Finished"
        /\ r.msg \notin {"HelloRetryRequest", "EarlyData", "ClientHello", "ServerHello"}
    BY <1>1, RecvPositions
  <1>3. /\ m.prog = e.prog /\ SameEpochs(e, m) /\ m.tickets = e.tickets /\ m.rms = e.rms
        /\ m.tr \in {e.tr, Append(e.tr, <<Peer(p), r.msg>>)}
        /\ r.msg = "Finished" => m.tr = Append(e.tr, <<Peer(p), r.msg>>) /\ r.ctx = e.tr
        /\ m.pc = e.pc + 1 /\ m.again = FALSE
    BY <1>2 DEF Hears
  <1>4. EpochsOK(p, m)
    <2>1. PlainEpochs(p, e)
      BY <1>1, <1>2 DEF PlainEpochs, Write12, Read12
    <2>2. ~Past(e)
      BY DEF Past
    <2> QED BY <1>1, <1>3, <2>1, <2>2, EpochsKept DEF Core
  <1>5. IsSeq(m.tr) /\ e.rms = <<>>
    <2> DEFINE x == <<Peer(p), r.msg>>
    <2>1. IsSeq(e.tr) /\ e.rms = <<>>
      BY <1>1 DEF Core, TranscriptOK, Past
    <2>2. m.tr \in {e.tr, Append(e.tr, x)}
      BY <1>3
    <2> HIDE DEF x
    <2>3. IsSeq(Append(e.tr, x))
      BY <2>1, AppendSeq
    <2> QED BY <2>1, <2>2, <2>3
  <1>6. TranscriptOK(p, m)
    BY <1>1, <1>3, <1>5 DEF TranscriptOK
  <1>7. IF p = LastSender THEN e.pc < LastSend ELSE e.pc <= LastRecv
    <2>1. CASE e.prog = "12"
      BY <1>1, <1>2, <2>1 DEF LastSender, LastSend, LastRecv
    <2>2. CASE e.prog = "12r"
      BY <1>1, <1>2, <2>2 DEF LastSender, LastSend, LastRecv
    <2> QED BY <2>1, <2>2
  <1>8. Frozen(p, e, m) /\ (e.pc # LastRecv => NoCross(p, e, m))
    BY <1>1, <1>3, <1>7, Frozen12 DEF SameEpochs
  <1>9. Confirmed(p, e, m, o)
    <2>1. CASE p = LastSender
      BY <1>1, <1>3, <2>1 DEF Confirmed
    <2>2. CASE p # LastSender /\ e.pc # LastRecv
      BY <1>8, <2>2, NoneConfirmed
    <2>3. CASE p # LastSender /\ e.pc = LastRecv
      <3>1. r.msg = "Finished" /\ Peer(p) = LastSender /\ e.pc > Read12(p, e.prog)
        <4>1. CASE e.prog = "12"
          BY <1>1, <1>2, <2>3, <4>1 DEF LastSender, LastRecv, Peer, Read12
        <4>2. CASE e.prog = "12r"
          BY <1>1, <1>2, <2>3, <4>2 DEF LastSender, LastRecv, Peer, Read12
        <4> QED BY <4>1, <4>2
      <3>2. /\ Did(o, Version, LastSend) /\ Append(r.ctx, <<Peer(p), "Finished">>) = Full(o)
            /\ r.key = o.keys[1].w
        BY <1>1, <3>1 DEF FinishedOK
      <3>3. e.re = 1 /\ e.keys[1].r = e.keys[1].w
        BY <1>1, <3>1 DEF Core, EpochsOK, Epochs12
      <3>4. Full(m) = m.tr
        BY <1>3 DEF Full, Past
      <3>5. m.keys[1].w = e.keys[1].w
        BY <1>3 DEF SameEpochs
      <3>6. Full(o) = Full(m)
        BY <1>3, <3>1, <3>2, <3>4
      <3>7. o.keys[1].w = m.keys[1].w
        BY <3>2, <3>3, <3>5 DEF ReadKey
      <3>8. mode.vers # 13
        BY <1>1
      <3> QED BY <1>3, <3>2, <3>6, <3>7, <3>8 DEF Confirmed
    <2> QED BY <2>1, <2>2, <2>3
  <1> QED BY <1>4, <1>6, <1>8, <1>9

\* The messages of a re-authentication.
LEMMA HeardPast ==
  ASSUME NEW p \in Ends, NEW e, NEW m, NEW r, NEW o, Versions, Local(p, e), e.prog = "reauth",
         At(p, e).op = "recv", r.msg = At(p, e).msg, Hears(p, e, m, r)
  PROVE  /\ EpochsOK(p, m) /\ TranscriptOK(p, m)
         /\ Frozen(p, e, m) /\ Confirmed(p, e, m, o)
  <1>1. Core(p, e) /\ Control(p, e) /\ mode.vers = 13 /\ e.pc \in Nat /\ Past(e)
    BY Where DEF Ends, Local, Core, Past
  <1>2. p = "server" /\ r.msg \in {"Certificate", "CertificateVerify", "Finished"}
    BY <1>1, RecvPositions DEF Ends
  <1>5. /\ Has(m, "accepted") <=> Has(e, "accepted")
        /\ Has(m, "early_start_used") <=> Has(e, "early_start_used")
    BY <1>2, HeardFlags
  <1>6. /\ m.prog = e.prog /\ SameEpochs(e, m) /\ m.tickets = e.tickets /\ m.rms = e.rms
        /\ m.mark = e.mark /\ m.psk = e.psk /\ m.saved = e.saved
        /\ m.pc = e.pc + 1
    BY <1>2 DEF Hears, HeardMarks
  <1>7. EpochsOK(p, m)
    BY <1>1, <1>6, EpochsKept DEF PlainEpochs, Core
  <1>8. Past(m) /\ Full(m) = Full(e) /\ Ext(m) = Ext(e) /\ Answer(m) = Answer(e)
    BY <1>1, <1>5, <1>6 DEF Past, Full, Ext, Answer
  <1>9. TranscriptOK(p, m)
    <2>2. ServerTr(m)
      BY <1>1, <1>2, <1>5, <1>6, <1>8 DEF Core, TranscriptOK, ServerTr, Beyond
    <2> QED BY <1>1, <1>2, <1>8, <2>2 DEF TranscriptOK
  <1>10. Frozen(p, e, m) /\ NoCross(p, e, m)
    BY <1>1, <1>5, <1>6, <1>8, FrozenPast DEF SameEpochs
  <1> QED BY <1>7, <1>9, <1>10, NoneConfirmed

\* The hellos.
LEMMA HeardStart ==
  ASSUME NEW p \in Ends, NEW e, NEW m, NEW r, NEW o, Versions, Local(p, e), e.prog = "start",
         At(p, e).op = "recv", r.msg = At(p, e).msg, Hears(p, e, m, r), DOMAIN m = Fields,
         r.msg = "ServerHello" => r.info \subseteq {"psk_selected", "renew"}
  PROVE  /\ Control(p, m) /\ EpochsOK(p, m) /\ TranscriptOK(p, m)
         /\ Frozen(p, e, m) /\ Confirmed(p, e, m, o)
  <1>1. /\ Core(p, e) /\ Control(p, e) /\ e.pc \in Nat
        /\ p = "client" \/ p = "server"
        /\ Version \in {"13", "12", "12r"} /\ (Version = "13" <=> mode.vers = 13)
        /\ ~Past(e) /\ TranscriptOK(p, e)
    BY Where DEF Ends, Local, Core, Past
  <1>2. /\ p = "client" => (e.pc = 2 /\ r.msg = "HelloRetryRequest") \/ (e.pc = 3 /\ r.msg = "ServerHello")
        /\ p = "server" => e.pc = 1 /\ r.msg = "ClientHello"
    BY <1>1, RecvPositions
  <1>3. /\ m.again = FALSE /\ SameEpochs(e, m) /\ m.tickets = e.tickets /\ m.rms = e.rms
        /\ r.msg = "HelloRetryRequest" => m.prog = "start" /\ m.pc = 1
        /\ r.msg = "ServerHello" => m.prog = Version /\ m.pc = 4
        /\ r.msg = "ClientHello" => m.prog = Version /\ m.pc = 2
    BY <1>1, <1>2 DEF Hears
  <1>4. e.flags \subseteq Flags /\ m.flags \subseteq Flags
    BY <1>1, <1>2, HeardFlags DEF Control, Flags
  <1>5. ~Past(m) /\ Version # "start" /\ Version # "none"
    BY <1>1, <1>2, <1>3 DEF Past
  <1>6. Control(p, m)
    <2>1. CASE r.msg = "HelloRetryRequest"
      <3>1. Len(Engine("client", "start")) = 3
        BY Lengths
      <3> QED BY <1>1, <1>2, <1>3, <1>4, <1>5, <2>1, <3>1 DEF Control
    <2>2. CASE r.msg = "ServerHello"
      <3> DEFINE n == Len(Engine("client", Version))
      <3>1. n \in {18, 17, 9}
        BY <1>1, Lengths
      <3> HIDE DEF n
      <3>0. 4 \in 1..(n + 1)
        BY <3>1
      <3>2. 4 \in 1..(Len(Engine("client", Version)) + 1)
        BY <3>0 DEF n
      <3> QED BY <1>1, <1>2, <1>3, <1>4, <2>2, <3>2 DEF Control
    <2>3. CASE r.msg = "ClientHello"
      <3> DEFINE n == Len(Engine("server", Version))
      <3>1. n \in {23, 15, 8}
        BY <1>1, Lengths
      <3> HIDE DEF n
      <3>0. 2 \in 1..(n + 1)
        BY <3>1
      <3>2. 2 \in 1..(Len(Engine("server", Version)) + 1)
        BY <3>0 DEF n
      <3> QED BY <1>1, <1>2, <1>3, <1>4, <2>3, <3>2 DEF Control
    <2> QED BY <1>1, <1>2, <2>1, <2>2, <2>3
  <1>7. EpochsOK(p, m)
    <2>1. /\ m.min = 0 /\ m.next = 1 /\ DOMAIN m.keys = 0..1 /\ m.keys[1] = Unset
          /\ m.re \in 0..1 /\ m.we \in 0..1
      BY <1>1, <1>3 DEF Core, EpochsOK, SameEpochs
    <2>2. m.keys[1].r = m.keys[1].w
      BY <2>1 DEF Unset
    <2>3. CASE m.prog = "start"
      BY <1>5, <2>1, <2>3 DEF EpochsOK
    <2>4. CASE m.prog = "13"
      BY <1>1, <1>2, <1>3, <1>5, <2>1, <2>4 DEF EpochsOK, Client13Epochs, Server13Epochs
    <2>5. CASE m.prog \in {"12", "12r"}
      <3>1. m.pc <= Write12(p, m.prog) /\ m.pc <= Read12(p, m.prog)
        BY <1>1, <1>2, <1>3, <2>5 DEF Write12, Read12
      <3>2. Epochs12(p, m)
        BY <2>1, <2>2, <3>1, <1>1, <1>2, <1>3 DEF Epochs12, Write12, Read12
      <3> QED BY <1>5, <2>1, <2>5, <3>2 DEF EpochsOK
    <2> QED BY <1>1, <1>2, <1>3, <2>3, <2>4, <2>5
  <1>8. /\ IsSeq(m.tr)
        /\ p = "server" => Elems(m.tr) = Elems(e.tr) \cup {<<"client", "ClientHello">>}
    <2>0. IsSeq(e.tr)
      BY <1>1 DEF TranscriptOK
    <2>1. CASE r.msg = "HelloRetryRequest"
      <3> DEFINE y == <<"server", "HelloRetryRequest">>
                 t == <<Synthetic, y>>
      <3>1. m.tr = t
        BY <2>1 DEF Hears
      <3>2. t \in Seq({Synthetic, y})
        OBVIOUS
      <3> HIDE DEF t
      <3>3. IsSeq(t)
        BY <3>2, SeqOf
      <3> QED BY <1>2, <2>1, <3>1, <3>3
    <2>2. CASE r.msg # "HelloRetryRequest"
      <3> DEFINE x == <<Peer(p), r.msg>>
      <3>1. m.tr = Append(e.tr, x)
        BY <1>1, <1>2, <2>2 DEF Hears
      <3>2. p = "server" => x = <<"client", "ClientHello">>
        BY <1>2 DEF Peer
      <3> HIDE DEF x
      <3>3. IsSeq(m.tr) /\ Elems(m.tr) = Elems(e.tr) \cup {x}
        BY <2>0, <3>1, AppendSeq
      <3> QED BY <3>2, <3>3
    <2> QED BY <2>1, <2>2
  <1>9. TranscriptOK(p, m)
    <2>1. p = "client" /\ mode.vers = 13 => ClientTr(m)
      <3> SUFFICES ASSUME p = "client", mode.vers = 13 PROVE ClientTr(m)
        OBVIOUS
      <3>1. ~Has(e, "accepted") /\ ~Has(e, "crt_asked")
        BY <1>1 DEF TranscriptOK, ClientTr, Beyond
      <3>2. ~Has(m, "accepted") /\ ~Has(m, "crt_asked")
        <4>1. MayGain(r) \subseteq {"psk_selected", "renew"} /\ m.flags \subseteq e.flags \cup MayGain(r)
          BY <1>2 DEF MayGain, Hears
        <4> QED BY <3>1, <4>1 DEF Has
      <3>3. ~Did(m, "13", 13) /\ ~Beyond(m, "13", 18) /\ m.pc # 13
        BY <1>2, <1>3, <1>5 DEF Did, Beyond
      <3> QED BY <1>5, <3>2, <3>3 DEF ClientTr
    <2>2. p = "server" /\ mode.vers = 13 => ServerTr(m)
      <3> SUFFICES ASSUME p = "server", mode.vers = 13 PROVE ServerTr(m)
        OBVIOUS
      <3>1. ServerTr(e) /\ ~Has(e, "early_start_used")
        BY <1>1 DEF TranscriptOK, ServerTr, Beyond
      <3>2. /\ ~Has(m, "early_start_used") /\ (Has(e, "crt_req_sent") => Has(m, "crt_req_sent"))
        BY <1>2, <3>1, HeardFlags
      <3>3. m.pc = 2 /\ ~Beyond(m, "13", 22)
        BY <1>2, <1>3, <1>5 DEF Beyond
      <3>4. m.mark = e.mark
        BY <1>2 DEF Hears, HeardMarks
      <3>5. <<"client", "ClientHello">> # Asks
        BY DEF Asks
      <3> QED BY <1>1, <1>5, <1>8, <3>1, <3>2, <3>3, <3>4, <3>5 DEF ServerTr
    <2>3. mode.vers = 12 => m.rms = <<>>
      BY <1>1, <1>3 DEF TranscriptOK
    <2> QED BY <1>1, <1>8, <2>1, <2>2, <2>3 DEF TranscriptOK
  <1>10. Frozen(p, e, m)
    BY <1>1, <1>3, FrozenStart
  <1>11. NoCross(p, e, m)
    <2>1. p # LastSender => ~Beyond(m, Version, LastRecv)
      <3>1. m.pc <= LastRecv
        BY <1>1, <1>2, <1>3 DEF LastRecv
      <3>2. LastRecv \in Nat /\ m.pc \in Nat
        BY <1>1, <1>2, <1>3 DEF LastRecv
      <3> QED BY <3>1, <3>2, <1>5 DEF Beyond
    <2>2. p = "client" => ~Beyond(m, "13", 12) /\ ~Beyond(m, "13", 8)
      BY <1>2, <1>3, <1>5 DEF Beyond
    <2> QED BY <1>3, <2>1, <2>2 DEF NoCross
  <1> QED BY <1>6, <1>7, <1>9, <1>10, <1>11, NoneConfirmed

\* Whatever the engine, the message it expects keeps the invariant, and what it
\* makes the endpoint reach is so at its sender.
LEMMA HeardGood ==
  ASSUME NEW p \in Ends, NEW e, NEW f, NEW r, NEW o, Versions, Local(p, e), Running(e),
         LET s == At(p, e) IN s.op = "recv" /\ r.msg = s.msg /\ ~Skips(p, e, s),
         Heard(p, e, f, r), r.key = ReadKey(e), Told(Peer(p), o, r),
         r.msg = "Finished" => FinishedOK(Peer(p), o, r)
  PROVE  LET g == Advance(p, f)
         IN  Local(p, g) /\ Frozen(p, e, g) /\ Confirmed(p, e, g, o)
  <1> DEFINE m == Moved(f)
             g == Advance(p, f)
  <1>1. /\ e.prog \in {"start", "13", "12", "12r", "reauth", "ticket"}
        /\ p = "client" \/ p = "server"
        /\ e.err = "none" /\ e.prog # "none" /\ e.pc \in Nat /\ e.pc <= Len(Engine(p, e.prog))
        /\ Core(p, e) /\ Control(p, e) /\ e.flags \subseteq Flags
        /\ Version \in {"13", "12", "12r"}
    BY Where DEF Local, Core, Running, Ends, Control
  <1>2. DOMAIN m = Fields /\ SameBuffers(e, m) /\ Hears(p, e, m, r)
    BY HeardMoved
  <1>3. At(p, e).op = "recv" /\ r.msg = At(p, e).msg
    OBVIOUS
  <1>4. e.prog # "ticket"
    BY <1>1, <1>3, RecvPositions
  <1>5. /\ e.prog = "start" /\ p = "client" =>
              (e.pc = 2 /\ r.msg = "HelloRetryRequest") \/ (e.pc = 3 /\ r.msg = "ServerHello")
        /\ e.prog = "start" /\ p = "server" => e.pc = 1 /\ r.msg = "ClientHello"
        /\ e.prog # "start" /\ p = "client" => r.msg \notin {"HelloRetryRequest", "ServerHello", "ClientHello"}
        /\ e.prog # "start" /\ p = "server" => /\ r.msg \notin {"HelloRetryRequest", "ServerHello"}
                                               /\ r.msg = "ClientHello" => e.prog = "13"
    BY <1>1, <1>3, RecvPositions
  <1>6. /\ DOMAIN f = Fields /\ f.err = "none"
        /\ f.prog = IF r.msg \in {"ClientHello", "ServerHello"} THEN Version ELSE e.prog
        /\ f.pc = IF r.msg = "HelloRetryRequest" THEN 0 ELSE e.pc
    BY <1>1 DEF Heard
  <1>7. /\ r.msg = "ServerHello" => r.info \subseteq {"psk_selected", "renew"}
        /\ r.msg = "EncryptedExtensions" => r.info \subseteq {"accepted"}
    BY DEF Told
  <1>8. m.flags \subseteq Flags
    BY <1>1, <1>2, <1>7, HeardFlags DEF Flags
  <1>9. ASSUME e.prog # "start" PROVE Control(p, m)
    <2>1. m.prog = e.prog /\ m.pc = e.pc + 1
      BY <1>1, <1>2, <1>5, <1>9, Where DEF Hears
    <2> QED BY <1>1, <1>2, <1>8, <2>1, ControlMoved
  <1> HIDE DEF m
  <1>10. Control(p, m) /\ EpochsOK(p, m) /\ TranscriptOK(p, m) /\ Frozen(p, e, m) /\ Confirmed(p, e, m, o)
    <2>1. CASE e.prog = "start"
      BY <1>2, <1>3, <1>7, <2>1, HeardStart
    <2>2. CASE e.prog = "13" /\ p = "client"
      BY <1>2, <1>3, <1>9, <2>2, HeardClient13 DEF Peer
    <2>3. CASE e.prog = "13" /\ p = "server"
      BY <1>2, <1>3, <1>9, <2>3, HeardServer13 DEF Peer
    <2>4. CASE e.prog \in {"12", "12r"}
      BY <1>2, <1>3, <1>9, <2>4, Heard12
    <2>5. CASE e.prog = "reauth"
      BY <1>2, <1>3, <1>9, <2>5, HeardPast
    <2> QED BY <1>1, <1>4, <2>1, <2>2, <2>3, <2>4, <2>5
  <1>11. ItemsOK(p, m)
    <2>1. IsSeq(m.q) /\ IsSeq(m.out) /\ IsSeq(m.wire) /\ m.q = e.q /\ Sent(m) = Sent(e) /\ ItemsOK(p, e)
      BY <1>1, <1>2 DEF Core, ItemsOK, SameBuffers, Sent
    <2> QED BY <2>1, <1>10, ItemsStep
  <1>12. Core(p, m)
    BY <1>10, <1>11 DEF Core
  <1>13. /\ f.prog # "none" /\ f.pc \in Nat /\ f.pc <= Len(Engine(p, f.prog))
         /\ f.prog = "start" => f.pc < Len(Engine(p, f.prog))
    <2>1. CASE e.prog # "start"
      BY <1>1, <1>5, <1>6, <2>1, Where
    <2>2. CASE e.prog = "start" /\ r.msg = "HelloRetryRequest"
      <3> DEFINE n == Len(Engine(p, f.prog))
      <3>1. Len(Engine("client", "start")) = 3
        BY Lengths
      <3>2. p = "client" /\ f.prog = "start" /\ f.pc = 0
        BY <1>1, <1>5, <1>6, <2>2
      <3>3. n = 3
        BY <3>1, <3>2
      <3> HIDE DEF n
      <3>4. 0 <= n /\ 0 < n
        BY <3>3
      <3> QED BY <3>2, <3>4 DEF n
    <2>3. CASE e.prog = "start" /\ r.msg # "HelloRetryRequest"
      <3>1. f.prog = Version /\ f.pc = e.pc /\ f.pc <= 3
        BY <1>1, <1>5, <1>6, <2>3
      <3> DEFINE n == Len(Engine(p, f.prog))
      <3>2. n \in {18, 17, 9, 23, 15, 8}
        BY <1>1, <3>1, Lengths
      <3>3. f.prog # "start" /\ f.prog # "none" /\ f.pc \in Nat
        BY <1>1, <3>1
      <3> HIDE DEF n
      <3>4. f.pc <= n
        BY <3>1, <3>2, <3>3
      <3> QED BY <3>3, <3>4 DEF n
    <2> QED BY <2>1, <2>2, <2>3
  <1>14. Core(p, Moved(f)) /\ Frozen(p, e, Moved(f))
    BY <1>10, <1>12 DEF m
  <1>15. Local(p, g) /\ Frozen(p, e, g)
    BY <1>6, <1>13, <1>14, MovedGood
  <1>16. Frozen(p, Moved(f), g) /\ NoCross(p, Moved(f), g)
    BY <1>6, <1>13, <1>14, Advanced
  <1>17. Frozen(p, m, g) /\ NoCross(p, m, g)
    BY <1>16 DEF m
  <1>18. Confirmed(p, e, g, o)
    <2> HIDE DEF g
    <2> QED BY <1>10, <1>17, ConfirmedOn
  <1> QED BY <1>15, <1>18 DEF g

\* Changes that touch neither the position, the keys, the secrets nor the buffers.
LEMMA AsideGood ==
  ASSUME NEW p \in Ends, NEW e, NEW g, Versions, Local(p, e), DOMAIN g = Fields,
         SameControl(e, g), SameEpochs(e, g), SameSecrets(e, g), SameBuffers(e, g),
         SameFlags(e, g), g.flags \subseteq Flags, g.tickets = e.tickets
  PROVE  Good(p, e, g)
  <1>1. /\ g.q = e.q /\ IsSeq(g.out) /\ IsSeq(g.wire) /\ Sent(g) = Sent(e)
    BY DEF Local, Core, ItemsOK, SameBuffers, Sent
  <1> QED BY <1>1, StaysGood

\* A fatal error, and data that is delivered.
LEMMA NotedGood ==
  ASSUME NEW p \in Ends, NEW e, Versions, Local(p, e), NEW v
  PROVE  Good(p, e, e) /\ Good(p, e, Fail(e, v)) /\ Good(p, e, [e EXCEPT !.got = v])
  <1>1. DOMAIN e = Fields /\ e.flags \subseteq Flags
    BY DEF Local, Core, Control
  <1>2. ASSUME NEW g, g = e \/ g = [e EXCEPT !.err = v] \/ g = [e EXCEPT !.got = v] PROVE Good(p, e, g)
    <2>1. /\ DOMAIN g = Fields /\ SameControl(e, g) /\ SameEpochs(e, g) /\ SameSecrets(e, g)
          /\ SameBuffers(e, g) /\ g.flags = e.flags /\ g.tickets = e.tickets
      BY <1>1, <1>2 DEF Fields, SameControl, SameEpochs, SameSecrets, SameBuffers
    <2>2. SameFlags(e, g)
      BY <2>1 DEF SameFlags, Has
    <2> QED BY <1>1, <2>1, <2>2, AsideGood
  <1> QED BY <1>2 DEF Fail

\* Reading a message may end the server's wait for early data.
LEMMA EarlyOver ==
  ASSUME NEW e, DOMAIN e = Fields, NEW d, d = e \/ d = [e EXCEPT !.flags = @ \ {"in_flight"}]
  PROVE  SameButEarly(e, d)
  BY DEF Fields, SameButEarly, SameControl, SameEpochs, SameSecrets, SameBuffers

\* A Finished that does not match is a fatal error.
LEMMA MismatchGood ==
  ASSUME NEW p \in Ends, NEW e, NEW d, NEW v, Versions, Local(p, e), ~e.again, SameButEarly(e, d),
         v # "none"
  PROVE  Good(p, e, Advance(p, Fail(d, v)))
  <1> DEFINE g == [Fail(d, v) EXCEPT !.again = FALSE]
  <1>1. DOMAIN e = Fields /\ e.flags \subseteq Flags
    BY DEF Local, Core, Control
  <1>2. DOMAIN d = Fields
    BY DEF SameButEarly
  <1>3. /\ DOMAIN g = Fields /\ g.prog = d.prog /\ g.pc = d.pc /\ g.again = FALSE /\ g.err = v
        /\ SameEpochs(d, g) /\ SameSecrets(d, g)
        /\ SameBuffers(d, g) /\ g.flags = d.flags /\ g.tickets = d.tickets
    BY <1>2 DEF Fields, Fail, SameEpochs, SameSecrets, SameBuffers
  <1>4. Advance(p, Fail(d, v)) = g
    BY <1>3 DEF Advance
  <1> HIDE DEF g
  <1>5. /\ SameControl(e, g) /\ SameEpochs(e, g) /\ SameSecrets(e, g) /\ SameBuffers(e, g)
        /\ g.tickets = e.tickets /\ g.flags \subseteq Flags
    BY <1>1, <1>3 DEF SameButEarly, SameControl, SameEpochs, SameSecrets, SameBuffers
  <1>6. SameFlags(e, g)
    BY <1>3 DEF SameButEarly, SameFlags, Has
  <1> QED BY <1>3, <1>4, <1>5, <1>6, AsideGood

\* A good step needs no confirmation.
LEMMA GoodConfirmed ==
  ASSUME NEW p, NEW e, NEW g, NEW o, Good(p, e, g)
  PROVE  Local(p, g) /\ Frozen(p, e, g) /\ Confirmed(p, e, g, o)
  BY NoneConfirmed DEF Good

\* The message of the peer that an engine expects.
LEMMA ExpectedGood ==
  ASSUME NEW p \in Ends, NEW e, NEW d, NEW r, NEW o, Versions, Local(p, e), Running(e),
         LET s == At(p, e)
         IN  s.op \in {"recv", "recvccs"} /\ r.msg = s.msg /\ ~Skips(p, e, s),
         Local(Peer(p), o), r \in Sent(o), r.key = ReadKey(e), SameButEarly(e, d)
  PROVE  LET g == Advance(p, Process(p, d, r))
         IN  Local(p, g) /\ Frozen(p, e, g) /\ Confirmed(p, e, g, o)
  <1> DEFINE s == At(p, e)
             f == Process(p, d, r)
             g == Advance(p, f)
  <1>1. Told(Peer(p), o, r) /\ (r.msg = "Finished" => FinishedOK(Peer(p), o, r))
    BY DEF Local, Core, ItemsOK
  <1>2. s.op = "recv"
    <2>1. s.op = "recvccs" => s.msg = "ccs"
      <3>1. e.prog # "none"
        BY DEF Running
      <3>2. s.op = "recvccs" => e.prog \in {"12", "12r"} /\ e.pc = Read12(p, e.prog)
        BY <3>1, RecvPositions
      <3>3. /\ p = "client" \/ p = "server"
        BY DEF Ends
      <3>4. CASE p = "client"
        BY <3>2, <3>4, Client12Steps DEF Read12, S
      <3>5. CASE p = "server"
        BY <3>2, <3>5, Server12Steps DEF Read12, S
      <3> QED BY <3>3, <3>4, <3>5
    <2> QED BY <1>1, <2>1 DEF Told
  <1>3. ~e.again /\ DOMAIN e = Fields
    BY <1>2 DEF Local, Core, Control, At
  <1>4. CASE r.msg = "Finished" /\ r.ctx # d.tr
    <2>1. f = Fail(d, "finished")
      BY <1>4 DEF Process
    <2>2. Good(p, e, g)
      BY <1>3, <2>1, MismatchGood
    <2> QED BY <2>2, GoodConfirmed
  <1>5. CASE ~(r.msg = "Finished" /\ r.ctx # d.tr)
    <2>1. Heard(p, e, f, r)
      BY <1>3, <1>5, ProcessFields
    <2>2. r.msg = s.msg /\ ~Skips(p, e, s)
      OBVIOUS
    <2> HIDE DEF f
    <2>3. LET h == Advance(p, f) IN Local(p, h) /\ Frozen(p, e, h) /\ Confirmed(p, e, h, o)
      BY <1>1, <1>2, <2>1, <2>2, HeardGood
    <2> QED BY <2>3 DEF f
  <1> QED BY <1>4, <1>5

\* Whatever record is read while an engine waits.
LEMMA RecvGood ==
  ASSUME NEW p \in Ends, NEW e, NEW r, NEW o, Versions, Local(p, e), Running(e),
         LET s == At(p, e) IN s.op \in {"recv", "recvccs"} /\ ~Skips(p, e, s),
         Local(Peer(p), o), r.type = "hs" => r \in Sent(o)
  PROVE  LET g == Outcome(p, e, r, At(p, e))
         IN  Local(p, g) /\ Frozen(p, e, g) /\ Confirmed(p, e, g, o)
  <1> DEFINE s == At(p, e)
             early == p = "server" /\ Has(e, "in_flight")
             d == IF early /\ ~Has(e, "accepted") THEN [e EXCEPT !.flags = @ \ {"in_flight"}] ELSE e
             g == Outcome(p, e, r, s)
  <1>1. DOMAIN e = Fields /\ e.prog # "none"
    BY DEF Local, Core, Control, Running
  <1>2. SameButEarly(e, d)
    BY <1>1, EarlyOver
  <1>3. \A v : Good(p, e, e) /\ Good(p, e, Fail(e, v)) /\ Good(p, e, [e EXCEPT !.got = v])
    BY NotedGood
  <1>4. s.op = "recvccs" => Good(p, e, Advance(p, ReadInit(e, Key12(e))))
    <2>1. s.op = "recvccs" => e.prog \in {"12", "12r"} /\ e.pc = Read12(p, e.prog)
      BY <1>1, RecvPositions
    <2> QED BY <2>1, Keys12Good
  <1>5. r.type = "hs" /\ r.msg = s.msg /\ r.key = ReadKey(e) =>
          LET h == Advance(p, Process(p, d, r))
          IN  Local(p, h) /\ Frozen(p, e, h) /\ Confirmed(p, e, h, o)
    <2>1. s.op \in {"recv", "recvccs"} /\ ~Skips(p, e, s)
      OBVIOUS
    <2> HIDE DEF d
    <2> QED BY <1>2, <2>1, ExpectedGood
  <1>6. \/ g = e
        \/ s.op = "recvccs" /\ g = Advance(p, ReadInit(e, Key12(e)))
        \/ \E v : g = Fail(e, v)
        \/ \E v : g = [e EXCEPT !.got = v]
        \/ r.type = "hs" /\ r.msg = s.msg /\ r.key = ReadKey(e) /\ g = Advance(p, Process(p, d, r))
    <2>1. CASE r.type = "ccs"
      BY <2>1 DEF Outcome
    <2>2. CASE r.type # "ccs" /\ (Discards(p, e, r) \/ r.key # ReadKey(e) \/ (early /\ Has(e, "accepted") /\ ReadKey(e) = Plain))
      <3>1. g = Discard(e) \/ g = Fail(e, "decryption")
        BY <2>2 DEF Outcome
      <3>2. Discard(e) = e \/ Discard(e) = Fail(e, "early_data_size")
        BY DEF Discard
      <3> QED BY <3>1, <3>2
    <2>3. CASE r.type # "ccs" /\ ~Discards(p, e, r) /\ r.key = ReadKey(e) /\ ~(early /\ Has(e, "accepted") /\ ReadKey(e) = Plain)
      <3>1. g = CASE r.type = "data" /\ early -> TakeEarly(e)
                  [] r.type = "data" /\ ~early /\ TakesData(e, s) -> [e EXCEPT !.got = Append(@, r.msg)]
                  [] r.type = "hs" /\ r.msg = s.msg -> Advance(p, Process(p, d, r))
                  [] OTHER -> Fail(e, "unexpected_packet")
        BY <2>3 DEF Outcome
      <3> HIDE DEF g
      <3>2. CASE r.type = "data"
        <4>1. \/ TakeEarly(e) = Fail(e, "early_data_size")
              \/ TakeEarly(e) = [e EXCEPT !.got = Append(@, EarlyData)]
          BY DEF TakeEarly
        <4>2. \/ g = TakeEarly(e)
              \/ g = [e EXCEPT !.got = Append(@, r.msg)]
              \/ g = Fail(e, "unexpected_packet")
          BY <3>1, <3>2
        <4> QED BY <4>1, <4>2
      <3>3. CASE r.type # "data"
        BY <2>3, <3>1, <3>3
      <3> QED BY <3>2, <3>3
    <2> QED BY <2>1, <2>2, <2>3
  <1> HIDE DEF g
  <1>7. CASE \/ g = e
             \/ s.op = "recvccs" /\ g = Advance(p, ReadInit(e, Key12(e)))
             \/ \E v : g = Fail(e, v)
             \/ \E v : g = [e EXCEPT !.got = v]
    <2>1. Good(p, e, g)
      BY <1>3, <1>4, <1>7
    <2> QED BY <2>1, GoodConfirmed DEF g
  <1>8. CASE r.type = "hs" /\ r.msg = s.msg /\ r.key = ReadKey(e) /\ g = Advance(p, Process(p, d, r))
    BY <1>5, <1>8 DEF g
  <1> QED BY <1>6, <1>7, <1>8

\* The record that was read leaves the wire.
LEMMA TakenGood ==
  ASSUME NEW p \in Ends, NEW o, Versions, Local(p, o), o.wire # <<>>
  PROVE  /\ Good(p, o, [o EXCEPT !.wire = Tail(@)])
         /\ Head(o.wire).type = "hs" => Head(o.wire) \in Sent(o)
  <1> DEFINE w == Tail(o.wire)
             f == [o EXCEPT !.wire = w]
  <1>1. /\ DOMAIN o = Fields /\ IsSeq(o.q) /\ IsSeq(o.out) /\ IsSeq(o.wire) /\ o.flags \subseteq Flags
    BY DEF Local, Core, Control, ItemsOK
  <1>2. /\ IsSeq(w) /\ Messages(w) \subseteq Messages(o.wire)
        /\ Head(o.wire).type = "hs" => Head(o.wire) \in Messages(o.wire)
    BY <1>1, HeadTail
  <1> HIDE DEF w
  <1>3. SameRest(o, f) /\ f.q = o.q /\ f.out = o.out /\ f.wire = w
    BY <1>1 DEF Fields, SameRest, SameControl, SameEpochs, SameSecrets
  <1> HIDE DEF f
  <1>4. SameFlags(o, f) /\ Sent(f) \subseteq Sent(o)
    BY <1>2, <1>3 DEF SameFlags, SameRest, Has, Sent
  <1>5. Good(p, o, f)
    BY <1>1, <1>2, <1>3, <1>4, StaysGood DEF SameRest
  <1>6. Head(o.wire).type = "hs" => Head(o.wire) \in Sent(o)
    BY <1>2 DEF Sent
  <1> QED BY <1>5, <1>6 DEF f, w

-----------------------------------------------------------------------------
(* After the handshake.                                                      *)

\* Changes that leave what the initial handshake settled.
LEMMA AfterGood ==
  ASSUME NEW p \in Ends, NEW e, NEW g, Versions, mode.vers = 13, Local(p, e), Past(e), Past(g),
         Control(p, g), g.prog # "none" => g.pc <= Len(Engine(p, g.prog)), ~g.again,
         SameEpochs(e, g), SameBuffers(e, g), g.mark = e.mark, g.psk = e.psk,
         g.saved = e.saved, g.rms = e.rms,
         Has(g, "accepted") <=> Has(e, "accepted"),
         Has(g, "early_start_used") <=> Has(e, "early_start_used")
  PROVE  /\ Local(p, g) /\ Frozen(p, e, g)
         /\ g.tickets = e.tickets => Good(p, e, g)
  <1>1. Core(p, e)
    BY DEF Local
  <1>2. Frozen(p, e, g) /\ (g.tickets = e.tickets => NoCross(p, e, g))
    BY FrozenPast DEF SameEpochs
  <1>3. EpochsOK(p, g)
    <2>1. AppKey(g) = AppKey(e)
      BY DEF AppKey, Key
    <2>2. g.prog \notin {"start", "13", "12", "12r"}
      BY DEF Past
    <2> QED BY <1>1, <2>1, <2>2 DEF Core, EpochsOK, SameEpochs
  <1>4. ItemsOK(p, g)
    <2>1. IsSeq(g.q) /\ IsSeq(g.out) /\ IsSeq(g.wire) /\ g.q = e.q /\ Sent(g) = Sent(e) /\ ItemsOK(p, e)
      BY <1>1 DEF Core, ItemsOK, SameBuffers, Sent
    <2> QED BY <2>1, <1>2, ItemsStep
  <1>5. TranscriptOK(p, g)
    <2>1. Full(g) = Full(e) /\ Ext(g) = Ext(e) /\ Answer(g) = Answer(e)
      BY DEF Full, Ext, Answer
    <2>2. \A n : Beyond(g, "13", n) /\ Beyond(e, "13", n)
      BY DEF Beyond
    <2>3. g.prog \notin {"start", "13"}
      BY DEF Past
    <2>4. p = "client" => ClientTr(g)
      BY <1>1, <2>1, <2>2, <2>3 DEF Core, TranscriptOK, ClientTr
    <2>5. p # "client" => ServerTr(g)
      BY <1>1, <2>1, <2>2, <2>3 DEF Core, TranscriptOK, ServerTr
    <2> QED BY <2>4, <2>5 DEF TranscriptOK
  <1>6. Local(p, g)
    BY <1>3, <1>4, <1>5 DEF Local, Core
  <1> QED BY <1>2, <1>6 DEF Good

\* A session at rest.
LEMMA Resting ==
  ASSUME NEW p \in Ends, NEW e, Versions, Local(p, e), e.prog = "none"
  PROVE  /\ DOMAIN e = Fields /\ e.flags \subseteq Flags /\ e.pc = 1 /\ ~e.again /\ Past(e)
         /\ Core(p, e)
  BY Where DEF Local, Core, Control, Past

\* gnutls_reauth and gnutls_session_ticket_send start their engines.
LEMMA LaterGood ==
  ASSUME NEW e, Versions, mode.vers = 13, Local("server", e), e.prog = "none"
  PROVE  /\ Good("server", e, [e EXCEPT !.tr = e.saved, !.prog = "reauth"])
         /\ Good("server", e, [e EXCEPT !.prog = "ticket", !.extra = TRUE])
  <1> DEFINE p == "server"
  <1>0. p \in Ends
    BY DEF Ends
  <1>1. DOMAIN e = Fields /\ e.flags \subseteq Flags /\ e.pc = 1 /\ ~e.again /\ Past(e)
    BY <1>0, Resting
  <1>2. ASSUME NEW g, \/ g = [e EXCEPT !.tr = e.saved, !.prog = "reauth"]
                      \/ g = [e EXCEPT !.prog = "ticket", !.extra = TRUE]
        PROVE  Good(p, e, g)
    <2>1. /\ DOMAIN g = Fields /\ g.prog \in {"reauth", "ticket"} /\ g.pc = e.pc
          /\ SameEpochs(e, g) /\ SameBuffers(e, g) /\ g.mark = e.mark /\ g.psk = e.psk
          /\ g.saved = e.saved /\ g.rms = e.rms /\ g.flags = e.flags /\ g.tickets = e.tickets
          /\ g.again = e.again
      <3>1. CASE g = [e EXCEPT !.tr = e.saved, !.prog = "reauth"]
        BY <1>1, <3>1 DEF Fields, SameEpochs, SameBuffers
      <3>2. CASE g = [e EXCEPT !.prog = "ticket", !.extra = TRUE]
        BY <1>1, <3>2 DEF Fields, SameEpochs, SameBuffers
      <3> QED BY <1>2, <3>1, <3>2
    <2>2. Past(g) /\ ~g.again /\ g.pc = 1
      BY <1>1, <2>1 DEF Past
    <2> DEFINE n == Len(Engine(p, g.prog))
    <2>3. n \in {4, 1}
      BY <2>1, Lengths
    <2> HIDE DEF n
    <2>4. g.pc \in 1..(n + 1) /\ g.pc <= n
      BY <2>2, <2>3
    <2>5. Control(p, g) /\ g.pc <= Len(Engine(p, g.prog))
      <3>1. g.prog # Version
        BY <2>1 DEF Version
      <3> QED BY <1>1, <2>1, <2>4, <3>1 DEF Control, n
    <2>6. /\ Has(g, "accepted") <=> Has(e, "accepted")
          /\ Has(g, "early_start_used") <=> Has(e, "early_start_used")
      BY <2>1 DEF Has
    <2> QED BY <1>0, <1>1, <2>1, <2>2, <2>5, <2>6, AfterGood
  <1> QED BY <1>2

\* A ticket the client takes is bound to the secret the client has.
LEMMA TicketBound ==
  ASSUME NEW e, NEW r, NEW o, Versions, mode.vers = 13, Local("client", e), Local("server", o),
         Pair(e, o), Past(e), Told("server", o, r), r.msg = "NewSessionTicket"
  PROVE  r.ctx = e.rms
  <1>1. Version = "13" /\ LastSender = "client" /\ LastRecv = 21
    BY DEF Version, LastSender, LastRecv
  <1>2. \A n : Beyond(e, "13", n)
    BY DEF Beyond
  <1>3. ClientTr(e) /\ ServerTr(o)
    BY DEF Local, Core, TranscriptOK
  <1>4. e.rms = e.saved /\ Full(e) = e.saved
    BY <1>2, <1>3 DEF ClientTr, Full
  <1>5. r.ctx = o.rms /\ RmsFixed(o)
    BY DEF Told
  <1>6. CASE Has(o, "early_start_used")
    <2>1. o.rms = Answer(o) /\ Asks \notin Elems(o.mark)
      BY <1>3, <1>6 DEF ServerTr
    <2>2. e.mark = o.mark /\ (Has(e, "accepted") <=> Has(o, "accepted"))
      BY <1>2 DEF Pair
    <2>3. Answer(e) = Answer(o)
      BY <2>2 DEF Answer, Ext
    <2>4. e.saved = Answer(e)
      BY <1>3, <2>1, <2>2 DEF ClientTr
    <2> QED BY <1>4, <1>5, <2>1, <2>3, <2>4
  <1>7. CASE ~Has(o, "early_start_used")
    <2>1. Beyond(o, "13", 22)
      BY <1>5, <1>7 DEF RmsFixed
    <2>2. o.rms = Full(o)
      BY <1>3, <1>7, <2>1 DEF ServerTr
    <2>3. Beyond(o, "13", 21)
      <3>1. o.prog = "13" => o.pc \in Nat
        BY Where DEF Ends, Local, Core
      <3> QED BY <2>1, <3>1 DEF Beyond
    <2>4. Full(e) = Full(o)
      BY <1>1, <2>3 DEF Pair
    <2> QED BY <1>4, <1>5, <2>2, <2>4
  <1> QED BY <1>6, <1>7

\* What the client may be sent after the handshake.
LEMMA AsyncGood ==
  ASSUME NEW p \in Ends, NEW e, NEW r, NEW o, Versions, mode.vers = 13, Local(p, e), e.prog = "none",
         Local(Peer(p), o), r \in Sent(o), p = "client" => Pair(e, o)
  PROVE  LET g == Async(p, e, r)
         IN  Local(p, g) /\ Frozen(p, e, g) /\ Confirmed(p, e, g, o)
  <1> DEFINE g == Async(p, e, r)
  <1>1. /\ DOMAIN e = Fields /\ e.flags \subseteq Flags /\ e.pc = 1 /\ ~e.again /\ Past(e)
        /\ Control(p, e)
    BY Resting DEF Core
  <1>2. CASE p = "client" /\ r.msg = "NewSessionTicket"
    <2> DEFINE t == <<r.ctx, e.rms>>
               T == e.tickets \cup {t}
               h == [e EXCEPT !.tickets = T]
    <2>1. g = h
      BY <1>2 DEF Async
    <2>2. Told("server", o, r) /\ Local("server", o) /\ Local("client", e) /\ Pair(e, o)
      BY <1>2 DEF Local, Core, ItemsOK, Peer
    <2>3. r.ctx = e.rms
      BY <1>1, <1>2, <2>2, TicketBound
    <2>4. t[1] = t[2]
      BY <2>3
    <2>5. \A u \in T : u \in e.tickets \/ u[1] = u[2]
      BY <2>4
    <2> HIDE DEF T
    <2>6. /\ DOMAIN h = Fields /\ h.prog = e.prog /\ h.pc = e.pc /\ h.again = e.again
          /\ SameEpochs(e, h) /\ SameBuffers(e, h) /\ h.mark = e.mark /\ h.psk = e.psk
          /\ h.saved = e.saved /\ h.rms = e.rms /\ h.flags = e.flags /\ h.tickets = T
      BY <1>1 DEF Fields, SameEpochs, SameBuffers
    <2> HIDE DEF h
    <2>7. Control(p, h) /\ Past(h) /\ h.prog = "none"
      BY <1>1, <2>6, ControlMoved DEF Past
    <2>8. Local(p, h) /\ Frozen(p, e, h)
      BY <1>1, <2>6, <2>7, AfterGood DEF Has
    <2>9. Confirmed(p, e, h, o)
      <3>1. \A prog, n : Beyond(e, prog, n)
        BY <1>1 DEF Beyond
      <3> QED BY <3>1, <2>5, <2>6 DEF Confirmed
    <2> QED BY <2>1, <2>8, <2>9
  <1>3. CASE p = "client" /\ r.msg = "CertificateRequest" /\ mode.reauth
    <2> DEFINE t == Append(e.saved, <<"server", r.msg>>)
               F == e.flags \cup {"crt_asked"}
               h == [e EXCEPT !.tr = t, !.prog = "reauth", !.flags = F]
    <2>1. g = h
      BY <1>3 DEF Async
    <2>2. F \subseteq Flags /\ ("accepted" \in F <=> "accepted" \in e.flags)
          /\ ("early_start_used" \in F <=> "early_start_used" \in e.flags)
      BY <1>1 DEF Flags
    <2> HIDE DEF t, F
    <2>6. /\ DOMAIN h = Fields /\ h.prog = "reauth" /\ h.pc = e.pc /\ h.again = e.again
          /\ SameEpochs(e, h) /\ SameBuffers(e, h) /\ h.mark = e.mark /\ h.psk = e.psk
          /\ h.saved = e.saved /\ h.rms = e.rms /\ h.flags = F /\ h.tickets = e.tickets
      BY <1>1 DEF Fields, SameEpochs, SameBuffers
    <2> HIDE DEF h
    <2> DEFINE n == Len(Engine(p, h.prog))
    <2>3. n = 3
      BY <1>3, <2>6, Lengths
    <2> HIDE DEF n
    <2>4. h.pc \in 1..(n + 1) /\ h.pc <= n
      BY <1>1, <2>6, <2>3
    <2>5. Past(h) /\ ~h.again
      BY <1>1, <2>6 DEF Past
    <2>7. Control(p, h) /\ h.pc <= Len(Engine(p, h.prog))
      <3>1. h.prog # Version
        BY <2>6 DEF Version
      <3> QED BY <1>1, <2>2, <2>6, <2>4, <3>1 DEF Control, n
    <2>8. Good(p, e, h)
      BY <1>1, <2>2, <2>5, <2>6, <2>7, AfterGood DEF Has
    <2> QED BY <2>1, <2>8, GoodConfirmed
  <1>4. CASE /\ ~(p = "client" /\ r.msg = "NewSessionTicket")
             /\ ~(p = "client" /\ r.msg = "CertificateRequest" /\ mode.reauth)
    <2>1. g = Fail(e, "unexpected_packet")
      BY <1>4 DEF Async
    <2> QED BY <2>1, NotedGood, GoodConfirmed
  <1> QED BY <1>2, <1>3, <1>4

\* Whatever record the application finds.
LEMMA AppRecvGood ==
  ASSUME NEW p \in Ends, NEW e, NEW r, NEW o, Versions, Local(p, e), e.prog = "none",
         Local(Peer(p), o), r.type = "hs" => r \in Sent(o), p = "client" => Pair(e, o)
  PROVE  LET g == IF r.key # ReadKey(e) THEN Fail(e, "decryption")
                  ELSE CASE r.type = "data" -> [e EXCEPT !.got = Append(@, r.msg)]
                         [] r.type = "hs" /\ mode.vers = 13 -> Async(p, e, r)
                         [] OTHER -> Fail(e, "unexpected_packet")
         IN  Local(p, g) /\ Frozen(p, e, g) /\ Confirmed(p, e, g, o)
  <1> DEFINE g == IF r.key # ReadKey(e) THEN Fail(e, "decryption")
                  ELSE CASE r.type = "data" -> [e EXCEPT !.got = Append(@, r.msg)]
                         [] r.type = "hs" /\ mode.vers = 13 -> Async(p, e, r)
                         [] OTHER -> Fail(e, "unexpected_packet")
  <1>1. \A v : Good(p, e, Fail(e, v)) /\ Good(p, e, [e EXCEPT !.got = v])
    BY NotedGood
  <1>2. \/ \E v : g = Fail(e, v)
        \/ \E v : g = [e EXCEPT !.got = v]
        \/ r.type = "hs" /\ mode.vers = 13 /\ g = Async(p, e, r)
    <2>1. CASE r.key # ReadKey(e)
      BY <2>1
    <2>2. CASE r.key = ReadKey(e) /\ r.type = "data"
      BY <2>2
    <2>3. CASE r.key = ReadKey(e) /\ r.type = "hs" /\ mode.vers = 13
      BY <2>3
    <2>4. CASE r.key = ReadKey(e) /\ r.type # "data" /\ ~(r.type = "hs" /\ mode.vers = 13)
      BY <2>4
    <2> QED BY <2>1, <2>2, <2>3, <2>4
  <1> HIDE DEF g
  <1>3. CASE r.type = "hs" /\ mode.vers = 13 /\ g = Async(p, e, r)
    BY <1>3, AsyncGood DEF g
  <1>4. CASE (\E v : g = Fail(e, v)) \/ (\E v : g = [e EXCEPT !.got = v])
    <2>1. Good(p, e, g)
      BY <1>1, <1>4
    <2> QED BY <2>1, GoodConfirmed DEF g
  <1> QED BY <1>2, <1>3, <1>4

-----------------------------------------------------------------------------
(* The steps of the system.                                                  *)

\* The version does not change with the state.
LEMMA SameVersion ==
  ASSUME mode' = mode
  PROVE  Version' = Version /\ LastSender' = LastSender /\ LastSend' = LastSend /\ LastRecv' = LastRecv
  <1>1. Version' = Version
    BY DEF Version
  <1> QED BY <1>1 DEF LastSender, LastSend, LastRecv

\* The invariant of a session depends on the mode only.
LEMMA SameLocal ==
  ASSUME NEW p, NEW e, mode' = mode
  PROVE  Local(p, e)' <=> Local(p, e)
  <1>1. /\ Version' = Version /\ LastSender' = LastSender /\ LastSend' = LastSend
    BY SameVersion
  <1>2. Control(p, e)' <=> Control(p, e)
    BY <1>1 DEF Control
  <1>3. EpochsOK(p, e)' <=> EpochsOK(p, e)
    BY DEF EpochsOK
  <1>4. RmsFixed(e)' <=> RmsFixed(e)
    BY DEF RmsFixed
  <1>5. \A x : Told(p, e, x)' <=> Told(p, e, x)
    BY <1>4 DEF Told
  <1>6. \A x : FinishedOK(p, e, x)' <=> FinishedOK(p, e, x)
    BY <1>1 DEF FinishedOK
  <1>7. ItemsOK(p, e)' <=> ItemsOK(p, e)
    BY <1>5, <1>6 DEF ItemsOK
  <1>8. TranscriptOK(p, e)' <=> TranscriptOK(p, e)
    BY DEF TranscriptOK
  <1> QED BY <1>2, <1>3, <1>7, <1>8 DEF Local, Core

\* And so does the agreement of two sessions.
LEMMA SamePair ==
  ASSUME NEW c, NEW s, mode' = mode
  PROVE  Pair(c, s)' <=> Pair(c, s)
  BY SameVersion DEF Pair

\* Initially no step has been done and nothing sent.
LEMMA InitIInv == Init => IInv
  <1> SUFFICES ASSUME Init PROVE IInv
    OBVIOUS
  <1> DEFINE e == Session
  <1>1. mode \in Modes /\ DOMAIN ep = Ends /\ \A p \in Ends : ep[p] = e
    BY DEF Init
  <1>2. Versions
    BY <1>1, HandshakeAssumption DEF Versions, Mode
  <1>3. /\ DOMAIN e = Fields /\ e.prog = "start" /\ e.pc = 1 /\ e.again = FALSE
        /\ e.tr = <<>> /\ e.mark = <<>> /\ e.flags = {} /\ e.q = <<>> /\ e.out = <<>> /\ e.wire = <<>>
        /\ e.min = 0 /\ e.next = 1 /\ e.re = 0 /\ e.we = 0 /\ e.rms = <<>> /\ e.tickets = {}
        /\ DOMAIN e.keys = 0..1 /\ e.keys[1] = Unset
    BY DEF Session, Fields
  <1> HIDE DEF e
  <1>4. ~Past(e) /\ Version # "start" /\ Version # "none"
    BY <1>3 DEF Past, Version
  <1>5. \A prog, n : prog # "start" => ~Beyond(e, prog, n) /\ ~Did(e, prog, n)
    BY <1>3, <1>4 DEF Beyond, Did
  <1>6. ASSUME NEW p \in Ends PROVE Local(p, e)
    <2> DEFINE n == Len(Engine(p, "start"))
    <2>1. n \in {1, 3}
      BY Lengths DEF Ends
    <2> HIDE DEF n
    <2>2. 1 \in 1..(n + 1) /\ 1 <= n
      BY <2>1
    <2>3. Control(p, e)
      BY <1>3, <1>4, <2>2 DEF Control, n
    <2>4. EpochsOK(p, e)
      BY <1>3, <1>4 DEF EpochsOK
    <2>5. ItemsOK(p, e)
      BY <1>3, NoElements DEF ItemsOK, Sent
    <2>6. TranscriptOK(p, e)
      BY <1>3, <1>4, <1>5, NoElements DEF TranscriptOK, ServerTr, ClientTr, Has
    <2> QED BY <1>3, <2>2, <2>3, <2>4, <2>5, <2>6 DEF Local, Core, n
  <1>7. Pair(e, e)
    BY <1>3, <1>4, <1>5 DEF Pair
  <1>8. ep["client"] = e /\ ep["server"] = e
    BY <1>1 DEF Ends
  <1> QED BY <1>1, <1>6, <1>7, <1>8 DEF IInv

\* The versions of an instance.
LEMMA ModeVersions == IInv => Versions
  BY HandshakeAssumption DEF IInv, Versions, Mode

\* A step of one endpoint.
LEMMA OneStep ==
  ASSUME IInv, NEW p \in Ends, NEW g, ep' = [ep EXCEPT ![p] = g], mode' = mode, Good(p, ep[p], g)
  PROVE  IInv'
  <1> DEFINE o == ep[Peer(p)]
  <1>1. (p = "client" /\ Peer(p) = "server") \/ (p = "server" /\ Peer(p) = "client")
    BY DEF Ends, Peer
  <1>2. DOMAIN ep' = Ends /\ ep'[p] = g /\ ep'[Peer(p)] = o
    BY <1>1 DEF IInv, Ends
  <1>3. Local(Peer(p), o)
    BY <1>1 DEF IInv, Ends
  <1>4. Good(Peer(p), o, o)
    BY <1>1, <1>3, ModeVersions, NotedGood DEF Ends
  <1>5. Pair(ep'["client"], ep'["server"])
    <2>1. CASE p = "client"
      BY <1>1, <1>2, <1>4, <2>1, PairKept DEF Good, IInv
    <2>2. CASE p = "server"
      BY <1>1, <1>2, <1>4, <2>2, PairKept DEF Good, IInv
    <2> QED BY <1>1, <2>1, <2>2
  <1>6. \A q \in Ends : Local(q, ep'[q])
    BY <1>1, <1>2, <1>3 DEF Good, Ends
  <1>7. \A q \in Ends : Local(q, ep[q])'
    BY <1>6, SameLocal
  <1>8. Pair(ep["client"], ep["server"])'
    BY <1>5, SamePair
  <1> QED BY <1>2, <1>7, <1>8 DEF IInv

\* A step of one endpoint that takes a record of the other.
LEMMA TwoStep ==
  ASSUME IInv, NEW p \in Ends, NEW g, mode' = mode, ep[Peer(p)].wire # <<>>,
         ep' = [ep EXCEPT ![p] = g, ![Peer(p)].wire = Tail(@)],
         Local(p, g), Frozen(p, ep[p], g), Confirmed(p, ep[p], g, ep[Peer(p)])
  PROVE  IInv'
  <1> DEFINE o == ep[Peer(p)]
             w == [o EXCEPT !.wire = Tail(@)]
  <1>1. (p = "client" /\ Peer(p) = "server") \/ (p = "server" /\ Peer(p) = "client")
    BY DEF Ends, Peer
  <1>2. DOMAIN ep' = Ends /\ ep'[p] = g /\ ep'[Peer(p)] = w
    BY <1>1 DEF IInv, Ends
  <1>3. Local(Peer(p), o)
    BY <1>1 DEF IInv, Ends
  <1>4. Good(Peer(p), o, w)
    BY <1>1, <1>3, ModeVersions, TakenGood DEF Ends
  <1> HIDE DEF w
  <1>5. Pair(ep'["client"], ep'["server"])
    <2>0. /\ Pair(ep["client"], ep["server"])
          /\ Frozen(Peer(p), o, w) /\ NoCross(Peer(p), o, w)
      BY <1>4 DEF Good, IInv
    <2>1. CASE p = "client"
      <3>1. /\ Frozen("client", ep["client"], g) /\ Confirmed("client", ep["client"], g, ep["server"])
            /\ Frozen("server", ep["server"], w) /\ NoCross("server", ep["server"], w)
        BY <1>1, <2>0, <2>1
      <3>2. Pair(g, w)
        BY <2>0, <3>1, ClientConfirmed
      <3> QED BY <1>1, <1>2, <2>1, <3>2
    <2>2. CASE p = "server"
      <3>1. /\ Frozen("server", ep["server"], g) /\ Confirmed("server", ep["server"], g, ep["client"])
            /\ Frozen("client", ep["client"], w) /\ NoCross("client", ep["client"], w)
        BY <1>1, <2>0, <2>2
      <3>2. Pair(w, g)
        BY <2>0, <3>1, ServerConfirmed
      <3> QED BY <1>1, <1>2, <2>2, <3>2
    <2> QED BY <1>1, <2>1, <2>2
  <1>6. \A q \in Ends : Local(q, ep'[q])
    BY <1>1, <1>2, <1>4 DEF Good, Ends
  <1>7. \A q \in Ends : Local(q, ep[q])'
    BY <1>6, SameLocal
  <1>8. Pair(ep["client"], ep["server"])'
    BY <1>5, SamePair
  <1> QED BY <1>2, <1>7, <1>8 DEF IInv

\* Every step of the system keeps the invariant.
LEMMA NextIInv == IInv /\ [Next]_vars => IInv'
  <1> SUFFICES ASSUME IInv, [Next]_vars PROVE IInv'
    OBVIOUS
  <1>1. Versions
    BY ModeVersions
  <1>2. \A p \in Ends : Local(p, ep[p]) /\ Step(p) = At(p, ep[p])
    BY DEF IInv, Step, At
  <1>3. ASSUME NEW p \in Ends PROVE Peer(p) \in Ends /\ Local(Peer(p), ep[Peer(p)])
    BY <1>2 DEF Ends, Peer
  <1>4. Pair(ep["client"], ep["server"])
    BY DEF IInv
  <1>5. ASSUME NEW p \in Ends, SkipStep(p) PROVE IInv'
    <2>1. Good(p, ep[p], Advance(p, ep[p]))
      BY <1>1, <1>2, <1>5, PlainGood DEF SkipStep
    <2> QED BY <1>5, <2>1, OneStep DEF SkipStep, Set
  <1>6. ASSUME NEW p \in Ends, DoStep(p) PROVE IInv'
    <2>1. Good(p, ep[p], Advance(p, Do(p, ep[p], Step(p).msg)))
      BY <1>1, <1>2, <1>6, DoGood DEF DoStep, Calls
    <2> QED BY <1>6, <2>1, OneStep DEF DoStep, Set
  <1>7. ASSUME NEW p \in Ends, CcsStep(p) PROVE IInv'
    <2> DEFINE f == Cache(ep[p], "ccs", "ccs", {}, <<>>)
    <2>1. Running(ep[p]) /\ At(p, ep[p]).op = "ccs"
      BY <1>2, <1>7 DEF CcsStep, Calls
    <2>2. /\ Good(p, ep[p], Advance(p, f))
          /\ \A n \in 0..Len(Flush(f).out) : Good(p, ep[p], Advance(p, Takes(Flush(f), n)))
      BY <1>1, <1>2, <2>1, CcsGood
    <2>3. \/ \E n \in 0..Len(Flush(f).out) : Set(p, Advance(p, Takes(Flush(f), n)))
          \/ Set(p, Advance(p, f))
      BY <1>7 DEF CcsStep
    <2> HIDE DEF f
    <2>4. ASSUME NEW g, Good(p, ep[p], g), Set(p, g) PROVE IInv'
      BY <2>4, OneStep DEF Set
    <2> QED BY <2>2, <2>3, <2>4
  <1>8. ASSUME NEW p \in Ends, SendStep(p) PROVE IInv'
    <2> DEFINE s == At(p, ep[p])
               f == Compose(p, ep[p], s.msg)
               h == [Flush(f) EXCEPT !.again = TRUE]
    <2>1. Running(ep[p]) /\ s.op = "send" /\ ~Skips(p, ep[p], s) /\ ~ep[p].again
      BY <1>2, <1>8 DEF SendStep, Calls
    <2>2. /\ s.state = 115 =>
                \A n \in 0..Len(Flush(f).out) : Good(p, ep[p], Advance(p, Takes(Flush(f), n)))
          /\ s.state # 115 /\ s.msg \in Cached(ep[p]) => Good(p, ep[p], Advance(p, f))
          /\ s.state # 115 /\ s.msg \notin Cached(ep[p]) => Good(p, ep[p], h)
      BY <1>1, <1>2, <2>1, SendGood
    <2>3. \/ s.state = 115 /\ \E n \in 0..Len(Flush(f).out) : Set(p, Advance(p, Takes(Flush(f), n)))
          \/ s.state # 115 /\ Set(p, IF s.msg \in Cached(ep[p]) THEN Advance(p, f) ELSE h)
      BY <1>2, <1>8 DEF SendStep
    <2> HIDE DEF s, f, h
    <2>4. ASSUME NEW g, Good(p, ep[p], g), Set(p, g) PROVE IInv'
      BY <2>4, OneStep DEF Set
    <2> QED BY <2>2, <2>3, <2>4
  <1>9. ASSUME NEW p \in Ends, Transmit(p) \/ AppFlush(p) PROVE IInv'
    <2>1. ep[p].out # <<>> /\ Set(p, Takes(ep[p], 1))
      BY <1>9 DEF Transmit, AppFlush
    <2>2. Good(p, ep[p], Takes(ep[p], 1))
      BY <1>1, <1>2, <2>1, TakesGood
    <2> QED BY <2>1, <2>2, OneStep DEF Set
  <1>10. ASSUME NEW p \in Ends, SendDone(p) PROVE IInv'
    <2>1. At(p, ep[p]).op = "send"
      BY <1>2, <1>10 DEF SendDone, Local, At
    <2>2. Good(p, ep[p], Advance(p, ep[p]))
      BY <1>1, <1>2, <1>10, <2>1, PlainGood DEF SendDone
    <2> QED BY <1>10, <2>2, OneStep DEF SendDone, Set
  <1>11. ASSUME NEW p \in Ends, RecvStep(p) PROVE IInv'
    <2> DEFINE e == ep[p]
               o == ep[Peer(p)]
               r == Head(o.wire)
               g == Outcome(p, e, r, At(p, e))
    <2>1. /\ Running(e) /\ At(p, e).op \in {"recv", "recvccs"} /\ ~Skips(p, e, At(p, e))
          /\ o.wire # <<>>
      BY <1>2, <1>11 DEF RecvStep, Calls, Arrived
    <2>2. ep' = [ep EXCEPT ![p] = g, ![Peer(p)].wire = Tail(@)] /\ mode' = mode
      BY <1>2, <1>11 DEF RecvStep, Consume, First
    <2>3. r.type = "hs" => r \in Sent(o)
      BY <1>1, <1>3, <2>1, TakenGood
    <2>4. Local(p, e) /\ Local(Peer(p), o)
      BY <1>2, <1>3
    <2>5. Local(p, g) /\ Frozen(p, e, g) /\ Confirmed(p, e, g, o)
      <3> HIDE DEF e, o, r
      <3> QED BY <1>1, <2>1, <2>3, <2>4, RecvGood
    <2> HIDE DEF g
    <2> QED BY <2>1, <2>2, <2>5, TwoStep
  <1>12. ASSUME NEW p \in Ends, RecvAbsent(p) PROVE IInv'
    <2>1. Running(ep[p]) /\ At(p, ep[p]).op = "recv" /\ Optional(At(p, ep[p]))
      BY <1>2, <1>12 DEF RecvAbsent, Calls, Absent
    <2>2. Good(p, ep[p], Advance(p, ep[p]))
      BY <1>1, <1>2, <2>1, PlainGood
    <2> QED BY <1>12, <2>2, OneStep DEF RecvAbsent, Set
  <1>13. ASSUME NEW p \in Ends, AppRecv(p) PROVE IInv'
    <2> DEFINE e == ep[p]
               o == ep[Peer(p)]
               r == Head(o.wire)
               g == IF r.key # ReadKey(e) THEN Fail(e, "decryption")
                    ELSE CASE r.type = "data" -> [e EXCEPT !.got = Append(@, r.msg)]
                           [] r.type = "hs" /\ mode.vers = 13 -> Async(p, e, r)
                           [] OTHER -> Fail(e, "unexpected_packet")
    <2>1. e.prog = "none" /\ o.wire # <<>>
      BY <1>13 DEF AppRecv, Arrived
    <2>2. ep' = [ep EXCEPT ![p] = g, ![Peer(p)].wire = Tail(@)] /\ mode' = mode
      BY <1>13 DEF AppRecv, Consume, First
    <2>3. r.type = "hs" => r \in Sent(o)
      BY <1>1, <1>3, <2>1, TakenGood
    <2>4. Local(p, e) /\ Local(Peer(p), o)
      BY <1>2, <1>3
    <2>5. p = "client" => Pair(e, o)
      BY <1>4 DEF Peer
    <2>6. Local(p, g) /\ Frozen(p, e, g) /\ Confirmed(p, e, g, o)
      <3> HIDE DEF e, o, r
      <3> QED BY <1>1, <2>1, <2>3, <2>4, <2>5, AppRecvGood
    <2> HIDE DEF g
    <2> QED BY <2>1, <2>2, <2>6, TwoStep
  <1>14. ASSUME NEW p \in Ends, AppSend(p) PROVE IInv'
    <2> DEFINE g == [ep[p] EXCEPT !.sent = @ + 1,
                        !.wire = Append(@, Record("data", ep[p].sent + 1, {}, <<>>, ep[p].keys[ep[p].we].w))]
    <2>1. Good(p, ep[p], g)
      BY <1>1, <1>2, DataGood
    <2>2. Set(p, g)
      BY <1>14 DEF AppSend
    <2> HIDE DEF g
    <2> QED BY <2>1, <2>2, OneStep DEF Set
  <1>15. ASSUME Reauth \/ TicketSend PROVE IInv'
    <2> DEFINE e == ep["server"]
    <2>0. "server" \in Ends
      BY DEF Ends
    <2>1. /\ mode.vers = 13 /\ e.prog = "none"
          /\ \/ Set("server", [e EXCEPT !.tr = e.saved, !.prog = "reauth"])
             \/ Set("server", [e EXCEPT !.prog = "ticket", !.extra = TRUE])
      BY <1>15 DEF Reauth, TicketSend
    <2>2. /\ Good("server", e, [e EXCEPT !.tr = e.saved, !.prog = "reauth"])
          /\ Good("server", e, [e EXCEPT !.prog = "ticket", !.extra = TRUE])
      BY <1>1, <1>2, <2>0, <2>1, LaterGood
    <2>3. ASSUME NEW g, Good("server", e, g), Set("server", g) PROVE IInv'
      BY <2>0, <2>3, OneStep DEF Set
    <2> QED BY <2>1, <2>2, <2>3
  <1>16. CASE UNCHANGED vars
    <2>1. ep' = ep /\ mode' = mode
      BY <1>16 DEF vars
    <2>2. \A p \in Ends : Local(p, ep[p])'
      BY <1>2, <2>1, SameLocal
    <2>3. Pair(ep["client"], ep["server"])'
      BY <1>4, <2>1, SamePair
    <2> QED BY <2>1, <2>2, <2>3 DEF IInv
  <1>17. CASE Next
    BY <1>5, <1>6, <1>7, <1>8, <1>9, <1>10, <1>11, <1>12, <1>13, <1>14, <1>15, <1>17
       DEF Next, Progress
  <1> QED BY <1>16, <1>17

\* The inductive invariant of Handshake.
THEOREM HandshakeInvariant == Spec => []IInv
  BY InitIInv, NextIInv, PTL DEF Spec

\* STATE, the flags and the epochs of both endpoints stay in range: the epochs
\* in use have a slot of the table and no two of them share one, whichever
\* handshake is run, interrupted and followed by others.
THEOREM HandshakeTypeCorrect == Spec => []TypeOK
  <1>1. IInv => TypeOK
    <2> SUFFICES ASSUME IInv, NEW p \in Ends
                 PROVE  LET e == ep[p]
                        IN  /\ e.pc \in 1..(Len(Engine(p, e.prog)) + 1)
                            /\ e.flags \subseteq Flags
                            /\ {e.re, e.we} \subseteq DOMAIN e.keys
                            /\ \A i \in DOMAIN e.keys : i - e.min \in 0..(MAX_EPOCH_INDEX - 1)
      BY DEF TypeOK, IInv
    <2> DEFINE e == ep[p]
    <2>1. Core(p, e)
      BY DEF IInv, Local
    <2> HIDE DEF e
    <2>2. e.pc \in 1..(Len(Engine(p, e.prog)) + 1) /\ e.flags \subseteq Flags
      BY <2>1 DEF Core, Control
    <2>3. CASE Past(e)
      BY <2>1, <2>2, <2>3 DEF Core, EpochsOK, MAX_EPOCH_INDEX, e
    <2>4. CASE ~Past(e)
      <3>1. /\ e.min = 0 /\ e.next \in 1..3 /\ DOMAIN e.keys = 0..e.next
            /\ e.re \in 0..e.next /\ e.we \in 0..e.next
        BY <2>1, <2>4 DEF Core, EpochsOK
      <3>2. \A i \in DOMAIN e.keys : i - e.min \in 0..3
        BY <3>1
      <3> QED BY <2>2, <3>1, <3>2 DEF MAX_EPOCH_INDEX, e
    <2> QED BY <2>3, <2>4
  <1> QED BY <1>1, HandshakeInvariant, PTL

\* When both endpoints are through with a handshake of any form, each writes
\* under the key the other reads under and both hashed the same messages: what
\* the two Finished messages of gnutls_handshake are for.
THEOREM KeysAgreeHolds == Spec => []KeysAgree
  <1>1. IInv => KeysAgree
    <2> SUFFICES ASSUME IInv, \A p \in Ends : Idle(p)
                 PROVE  /\ \A p \in Ends : ep[p].keys[ep[p].we].w = ReadKey(ep[Peer(p)])
                        /\ ep["client"].saved = ep["server"].saved
      BY DEF KeysAgree
    <2> DEFINE c == ep["client"]
               s == ep["server"]
    <2>1. Local("client", c) /\ Local("server", s) /\ Pair(c, s) /\ Versions
      BY ModeVersions DEF IInv, Ends
    <2>2. c.prog = "none" /\ s.prog = "none"
      BY DEF Idle, Ends
    <2>3. Past(c) /\ Past(s) /\ Full(c) = c.saved /\ Full(s) = s.saved
      BY <2>2 DEF Past, Full
    <2>4. \A prog, n : /\ Beyond(c, prog, n) /\ Beyond(s, prog, n)
      BY <2>3 DEF Beyond
    <2>5. c.saved = s.saved /\ (mode.vers = 12 => c.keys[1].w = s.keys[1].w)
      BY <2>1, <2>3, <2>4 DEF Pair
    <2>6. mode.vers = 13 => c.mark = s.mark /\ c.psk = s.psk
      BY <2>1, <2>4 DEF Pair
    <2>7. /\ c.we = c.re /\ s.we = s.re
          /\ mode.vers = 13 => c.keys[c.re] = Both(AppKey(c)) /\ s.keys[s.re] = Both(AppKey(s))
          /\ mode.vers = 12 => /\ c.re = 1 /\ c.keys[1].r = c.keys[1].w
                               /\ s.re = 1 /\ s.keys[1].r = s.keys[1].w
      BY <2>1, <2>3 DEF Local, Core, EpochsOK
    <2>8. mode.vers = 13 => AppKey(c) = AppKey(s)
      BY <2>6 DEF AppKey, Key
    <2>9. c.keys[c.we].w = s.keys[s.re].r /\ s.keys[s.we].w = c.keys[c.re].r
      <3> HIDE DEF c, s
      <3>1. CASE mode.vers = 13
        BY <2>7, <2>8, <3>1 DEF Both
      <3>2. CASE mode.vers = 12
        BY <2>5, <2>7, <3>2
      <3> QED BY <2>1, <3>1, <3>2 DEF Versions
    <2> QED BY <2>5, <2>9 DEF Ends, Peer, ReadKey
  <1> QED BY <1>1, HandshakeInvariant, PTL

\* Every ticket the client stores is bound on both sides to the same resumption
\* secret, one sent by an early start before the client's Finished was read
\* (generate_non_auth_rms_keys) too.
THEOREM ResumptionAgreeHolds == Spec => []ResumptionAgree
  <1>1. IInv => ResumptionAgree
    BY DEF IInv, Pair, ResumptionAgree
  <1> QED BY <1>1, HandshakeInvariant, PTL
=============================================================================
