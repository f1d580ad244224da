----------------------------- MODULE Handshake -----------------------------
(***************************************************************************)
(* A client and a server running gnutls_handshake over a reliable stream:   *)
(* TLS 1.3 with HelloRetryRequest, resumption, early data, client           *)
(* certificates, early start, tickets and post-handshake authentication,    *)
(* and TLS 1.2 in full, resumed and false-start form.                       *)
(*                                                                          *)
(* The engine is a switch over STATE whose cases fall through; a call that  *)
(* returns GNUTLS_E_AGAIN is repeated and continues at the saved STATE.     *)
(* Here the cases of an engine are a sequence of steps, STATE is the        *)
(* position in it, and a step that is not called for is skipped.  Messages  *)
(* are names; a key is the label of its stage with the transcript and the   *)
(* pre-shared key it is derived from, so that two keys are equal exactly    *)
(* when both endpoints derived them from the same handshake.                *)
(***************************************************************************)
EXTENDS Naturals, Sequences, FiniteSets

CONSTANTS Modes,        \* the handshakes to check, see Mode
          MaxData,      \* bound: application data records per endpoint
          MaxEarlyData, \* max_early_data_size, which the ticket gives to both
          Expansion     \* what encryption adds to the early data

\* vers: the version both sides agree on; hrr: the server shares no group with
\* the first ClientHello; offer: what becomes of the session the client asks
\* to resume; early: what the server makes of early data; size: how much of it
\* the client has, which gnutls_record_send_early_data limits; cr: the server
\* asks for a certificate; cc: the client has one; start:
\* GNUTLS_ENABLE_EARLY_START or GNUTLS_ENABLE_FALSE_START; tickets: tickets are
\* enabled; reauth: the server authenticates the client after the handshake.
Mode == [vers : {12, 13}, hrr : BOOLEAN,
         offer : {"none", "accepted", "refused"},
         early : {"none", "accepted", "rejected"}, size : 1..MaxEarlyData,
         cr : BOOLEAN, cc : BOOLEAN, start : BOOLEAN,
         tickets : BOOLEAN, reauth : BOOLEAN]

ASSUME HandshakeAssumption == /\ Modes \subseteq Mode
                              /\ MaxData \in Nat
                              /\ MaxEarlyData \in Nat \ {0}
                              /\ Expansion \in Nat

VARIABLES ep,           \* ep[p]: the session of endpoint p
          mode          \* the handshake of this behaviour

vars == <<ep, mode>>

Ends == {"client", "server"}
Peer(p) == IF p = "client" THEN "server" ELSE "client"

MAX_EPOCH_INDEX == 4

Label(stage) == [stage |-> stage, psk |-> FALSE, ctx |-> <<>>]
Plain == Label("plain")                         \* GNUTLS_CIPHER_NULL of epoch 0
NoKey == Label("none")
Unset == [r |-> NoKey, w |-> NoKey]
EarlyData == 0          \* delivered data; application data is numbered from 1

Session ==
    [prog    |-> "start",       \* the engine that runs
     pc      |-> 1,             \* STATE
     again   |-> FALSE,         \* AGAIN(STATE): the step was interrupted
     tr      |-> <<>>,          \* handshake_hash_buffer
     mark    |-> <<>>,          \* its prefix the application keys depend on
     flags   |-> {},            \* hsk_flags
     psk     |-> FALSE,         \* temp_secret was made from the ticket
     q       |-> <<>>,          \* handshake_send_buffer
     out     |-> <<>>,          \* record_send_buffer
     wire    |-> <<>>,          \* records on their way to the peer
     keys    |-> [i \in 0..1 |-> IF i = 0 THEN [r |-> Plain, w |-> Plain] ELSE Unset],
     min     |-> 0, next |-> 1, re |-> 0, we |-> 0,     \* epoch_...
     started |-> FALSE,         \* recv_state: EARLY_START or FALSE_START
     done    |-> FALSE,         \* initial_negotiation_completed
     saved   |-> <<>>,          \* post_handshake_hash_buffer
     rms     |-> <<>>,          \* ap_rms: the transcript it depends on
     sent    |-> 0,             \* application data records sent
     got     |-> <<>>,          \* application data received
     tickets |-> {},            \* history: server's and client's rms per ticket
     extra   |-> FALSE,         \* bound: a ticket was sent after the handshake
     auths   |-> 0,             \* history: completed re-authentications
     err     |-> "none"]        \* the fatal error returned

Init == /\ ep = [p \in Ends |-> Session]
        /\ mode \in Modes

Has(e, f) == f \in e.flags
Fail(e, why) == [e EXCEPT !.err = why]

-----------------------------------------------------------------------------
(* The cases of the engines, in the order in which they fall through.       *)

S(state, op, msg) == [state |-> state, op |-> op, msg |-> msg]

ClientHellos == <<S(1, "send", "ClientHello"), S(2, "recv", "HelloRetryRequest"),
                  S(3, "recv", "ServerHello")>>

\* _gnutls13_handshake_client.
Client13 == ClientHellos \o
    <<S(100, "ccs", "ccs"), S(101, "do", "early_keys"), S(102, "send", "EarlyData"),
      S(103, "do", "hs_keys"), S(104, "recv", "EncryptedExtensions"),
      S(105, "recv", "CertificateRequest"), S(106, "recv", "Certificate"),
      S(107, "recv", "CertificateVerify"), S(109, "recv", "Finished"),
      S(110, "send", "EndOfEarlyData"), S(110, "do", "end_early"),
      S(111, "send", "Certificate"), S(112, "send", "CertificateVerify"),
      S(113, "send", "Finished"), S(114, "do", "app_keys")>>

\* handshake_server up to the first hello, then _gnutls13_handshake_server.
Server13 ==
    <<S(1, "recv", "ClientHello"), S(90, "do", "synth"), S(91, "send", "HelloRetryRequest"),
      S(92, "ccs", "ccs"), S(93, "recv", "ClientHello"), S(94, "send", "ServerHello"),
      S(100, "ccs", "ccs"), S(101, "do", "hs_keys"), S(102, "send", "EncryptedExtensions"),
      S(103, "send", "CertificateRequest"), S(104, "send", "Certificate"),
      S(105, "send", "CertificateVerify"), S(106, "send", "Finished"),
      S(107, "recv", "EndOfEarlyData"), S(107, "do", "end_early"),
      S(108, "do", "app_keys"), S(109, "send", "NewSessionTicket"),
      S(109, "do", "start"), S(110, "recv", "Certificate"),
      S(111, "recv", "CertificateVerify"), S(113, "recv", "Finished"),
      S(114, "do", "read_keys"), S(115, "send", "NewSessionTicket")>>

\* send_handshake_final and recv_handshake_final.
SendFinal(state) == <<S(state, "ccs", "ccs"), S(state, "do", "write12"), S(state, "send", "Finished")>>
RecvFinal(state) == <<S(state, "recvccs", "ccs"), S(state, "recv", "Finished")>>

\* handshake_client under TLS 1.2, in full and resumed.
Client12 == ClientHellos \o
    <<S(6, "recv", "Certificate"), S(9, "recv", "ServerKeyExchange"),
      S(10, "recv", "CertificateRequest"), S(11, "recv", "ServerHelloDone"),
      S(13, "send", "Certificate"), S(14, "send", "ClientKeyExchange"),
      S(15, "send", "CertificateVerify")>>
    \o SendFinal(16) \o <<S(17, "do", "start"), S(18, "recv", "NewSessionTicket")>>
    \o RecvFinal(19)
Client12Resumed == ClientHellos \o <<S(16, "recv", "NewSessionTicket")>>
                   \o RecvFinal(18) \o SendFinal(19)

\* handshake_server under TLS 1.2, in full and resumed.
Server12 ==
    <<S(1, "recv", "ClientHello"), S(3, "send", "ServerHello"), S(5, "send", "Certificate"),
      S(7, "send", "ServerKeyExchange"), S(8, "send", "CertificateRequest"),
      S(9, "send", "ServerHelloDone"), S(11, "recv", "Certificate"),
      S(13, "recv", "ClientKeyExchange"), S(14, "recv", "CertificateVerify")>>
    \o RecvFinal(15) \o <<S(16, "send", "NewSessionTicket")>> \o SendFinal(17)
Server12Resumed == <<S(1, "recv", "ClientHello"), S(3, "send", "ServerHello")>>
    \o SendFinal(15) \o <<S(16, "send", "NewSessionTicket")>> \o RecvFinal(17)

\* _gnutls13_reauth_client and _gnutls13_reauth_server; REAUTH_STATEn is 200 + n.
ClientReauth == <<S(202, "send", "Certificate"), S(203, "send", "CertificateVerify"),
                  S(204, "send", "Finished")>>
ServerReauth == <<S(201, "send", "CertificateRequest"), S(202, "recv", "Certificate"),
                  S(203, "recv", "CertificateVerify"), S(205, "recv", "Finished")>>

\* gnutls_session_ticket_send.
ServerTicket == <<S(301, "send", "NewSessionTicket")>>

Engine(p, prog) ==
    CASE prog = "start"  -> IF p = "client" THEN ClientHellos ELSE <<S(1, "recv", "ClientHello")>>
      [] prog = "13"     -> IF p = "client" THEN Client13 ELSE Server13
      [] prog = "12"     -> IF p = "client" THEN Client12 ELSE Server12
      [] prog = "12r"    -> IF p = "client" THEN Client12Resumed ELSE Server12Resumed
      [] prog = "reauth" -> IF p = "client" THEN ClientReauth ELSE ServerReauth
      [] prog = "ticket" -> ServerTicket
      [] OTHER           -> <<>>

Running(e) == e.err = "none" /\ e.prog # "none"
Step(p) == Engine(p, ep[p].prog)[ep[p].pc]

Synthetic == <<"client", "message_hash">>       \* stands for the first ClientHello

\* The client will not authenticate, so its Finished can be foreseen (STATE108).
EarlyStart(e) == ~Has(e, "crt_req_sent") /\ ~Has(e, "psk_selected")

Certs == {"CertificateRequest", "Certificate", "CertificateVerify"}

\* The conditions under which a case does nothing.
Skips(p, e, s) ==
    \/ s.msg \in Certs /\ ~e.done /\ Has(e, "psk_selected")
    \/ s.msg \in {"synth", "HelloRetryRequest"} /\ p = "server" /\ ~Has(e, "hrr_sent")
    \/ s.state \in {92, 93} /\ ~Has(e, "hrr_sent")
    \/ s.state = 100 /\ p = "server" /\ Has(e, "hrr_sent")
    \/ s.msg \in {"early_keys", "EarlyData"} /\ ~Has(e, "in_flight")
    \/ s.msg = "EndOfEarlyData" /\ ~Has(e, "accepted")
    \/ s.msg = "CertificateRequest" /\ p = "server" /\ ~(mode.cr \/ e.done)
    \/ s.msg = "Certificate" /\ p = "server" /\ s.op = "recv" /\ ~(mode.cr \/ e.done)
    \/ s.msg = "Certificate" /\ p = "client" /\ s.op = "send" /\ ~Has(e, "crt_asked")
    \/ s.msg = "CertificateVerify" /\ s.op = "recv" /\ ~Has(e, "crt_vrfy_expected")
    \/ s.msg = "CertificateVerify" /\ p = "client" /\ s.op = "send" /\ ~(Has(e, "crt_asked") /\ mode.cc)
    \/ s.msg = "NewSessionTicket" /\ ~mode.tickets
    \/ s.msg = "NewSessionTicket" /\ e.prog \in {"12", "12r"} /\ ~Has(e, "renew")
    \/ s.state = 109 /\ s.op = "send" /\ p = "server" /\ ~Has(e, "early_start_used")
    \/ s.state = 115 /\ (Has(e, "early_start_used") \/ Has(e, "ticket_sent"))

-----------------------------------------------------------------------------
(* Epochs and keys.  The table has MAX_EPOCH_INDEX slots from epoch min on.  *)

\* _gnutls_epoch_setup_next.
SetupNext(e) == IF e.next - e.min >= MAX_EPOCH_INDEX THEN Fail(e, "no_epoch_slot")
                ELSE [e EXCEPT !.keys = [i \in DOMAIN @ \cup {e.next} |->
                                            IF i \in DOMAIN @ THEN @[i] ELSE Unset]]

\* _gnutls_epoch_bump with _gnutls_epoch_dup: on to an epoch without keys.
BumpDup(e) == SetupNext([e EXCEPT !.next = @ + 1])

\* _gnutls_epoch_set_keys: both directions, unless the epoch has its keys.
SetKeys(e, r, w) == IF e.keys[e.next] # Unset THEN e
                    ELSE [e EXCEPT !.keys[e.next] = [r |-> r, w |-> w]]

\* Mutant: the read epoch is taken after epoch_next has moved on.
ReadInitLate(e, k) == [SetKeys(e, k, k) EXCEPT !.re = e.next + 1]

\* _tls13_read_connection_state_init, _tls13_write_connection_state_init.
ReadInit(e, k) == [SetKeys(e, k, k) EXCEPT !.re = e.next]
WriteInit(e, k) == [SetKeys(e, k, k) EXCEPT !.we = e.next]

\* _tls13_connection_state_init.
ConnectionInit(e, k) == WriteInit(ReadInit(e, k), k)

\* _gnutls_epoch_gc and _gnutls_epoch_bump at the end of gnutls_handshake.
GcBump(e) ==
    LET used == {e.re, e.we, e.next} \cup {e.q[i].epoch : i \in 1..Len(e.q)}
        live == DOMAIN e.keys \cap used
    IN  [e EXCEPT !.keys = [i \in live |-> e.keys[i]],
                  !.min = CHOOSE i \in live : \A j \in live : i <= j,
                  !.next = @ + 1]

Key(stage, e, ctx) == [stage |-> stage, psk |-> e.psk, ctx |-> ctx]

\* e_ckey depends on the messages up to the ClientHello, hs_ckey and hs_skey
\* on the hellos, ap_ckey and ap_skey on what precedes the client's answer.
EarlyKey(e) == [stage |-> "early", psk |-> TRUE, ctx |-> SubSeq(e.tr, 1, Len(e.tr) - 1)]
HsKey(e) == Key("hs", e, e.tr)

\* Mutant: the application keys cover the client's answer.
AppKeyLate(e) == Key("app", e, e.tr)

AppKey(e) == Key("app", e, e.mark)

\* The TLS 1.2 key block; the master secret covers the client key exchange.
Key12(e) == Key("tls12", e, e.mark)

-----------------------------------------------------------------------------
(* Sending.                                                                  *)

Record(type, msg, info, ctx, key) ==
    [type |-> type, msg |-> msg, info |-> info, ctx |-> ctx, key |-> key]

\* _gnutls_handshake_io_cache_int: the message waits with its epoch.
Cache(e, type, msg, info, ctx) ==
    [e EXCEPT !.q = Append(@, [type |-> type, msg |-> msg, info |-> info, ctx |-> ctx,
                               epoch |-> e.we])]

\* Mutant: the waiting messages are encrypted under the current write key.
FlushCurrent(e) ==
    [e EXCEPT !.out = @ \o [i \in 1..Len(e.q) |->
                  Record(e.q[i].type, e.q[i].msg, e.q[i].info, e.q[i].ctx, e.keys[e.we].w)],
              !.q = <<>>]

\* _gnutls_handshake_io_write_flush, up to the records it leaves to be written.
Flush(e) ==
    [e EXCEPT !.out = @ \o [i \in 1..Len(e.q) |->
                  Record(e.q[i].type, e.q[i].msg, e.q[i].info, e.q[i].ctx,
                         e.keys[e.q[i].epoch].w)],
              !.q = <<>>]

\* What a message tells the peer besides its name.
Info(p, e, msg) ==
    CASE msg = "ClientHello" -> {x \in {"early"} : mode.early # "none"}
      [] msg = "ServerHello" -> e.flags \cap {"psk_selected", "renew"}
      [] msg = "EncryptedExtensions" -> e.flags \cap {"accepted"}
      [] msg = "Certificate" /\ (p = "server" \/ mode.cc) -> {"cert"}
      [] OTHER -> {}

\* The flags that the sender of a message sets.
SentFlags(p, msg) ==
    CASE msg = "ClientHello" /\ mode.early # "none" -> {"in_flight"}
      [] msg = "CertificateRequest" -> {"crt_req_sent"}
      [] msg = "NewSessionTicket"   -> {"ticket_sent"}
      [] OTHER -> {}

\* Messages that are kept for the flight they start (_gnutls_send_handshake2);
\* a re-authentication keeps none.
Cached(e) == IF e.done /\ e.prog = "reauth" THEN {}
             ELSE {"ServerHello", "EncryptedExtensions", "CertificateRequest", "Certificate",
                   "CertificateVerify"} \cup
                  (IF e.prog \in {"12", "12r"}
                   THEN {"ServerKeyExchange", "ClientKeyExchange", "NewSessionTicket"} ELSE {})

\* IS_ASYNC and early data: not part of the transcript.
Unhashed(e, msg) == msg = "EarlyData" \/ (msg = "NewSessionTicket" /\ e.prog \in {"13", "ticket"})

\* The message of a send step, first call.
Compose(p, e, msg) ==
    LET type == IF msg = "EarlyData" THEN "data" ELSE "hs"
        ctx  == CASE msg = "Finished" -> e.tr
                  [] msg = "NewSessionTicket" -> e.rms
                  [] OTHER -> <<>>
        f    == Cache([e EXCEPT !.flags = @ \cup SentFlags(p, msg)], type, msg,
                      Info(p, e, msg), ctx)
        g    == IF Unhashed(e, msg) THEN f ELSE [f EXCEPT !.tr = Append(@, <<p, msg>>)]
    IN  CASE msg = "ServerHello" -> [g EXCEPT !.psk = Has(e, "psk_selected") \/ e.prog = "12r",
                                              !.mark = g.tr]
          [] msg = "ClientKeyExchange" \/ (msg = "Finished" /\ p = "server" /\ e.prog = "13")
                               -> [g EXCEPT !.mark = g.tr]
          [] OTHER -> g
-----------------------------------------------------------------------------
(* Moving on.                                                               *)

\* The end of gnutls_session_ticket_send, gnutls_reauth and gnutls_handshake.
Complete(e) ==
    IF e.prog = "ticket" THEN [e EXCEPT !.prog = "none", !.pc = 1]
    ELSE IF e.prog = "reauth"
    THEN [e EXCEPT !.prog = "none", !.pc = 1, !.tr = <<>>, !.auths = @ + 1]
    ELSE GcBump([e EXCEPT !.prog = "none", !.pc = 1, !.started = FALSE, !.done = TRUE,
                          !.saved = e.tr, !.tr = <<>>])

Advance(p, e) ==
    LET f == [e EXCEPT !.again = FALSE]
    IN  IF f.err # "none" THEN f
        ELSE IF f.pc = Len(Engine(p, f.prog)) THEN Complete(f)
        ELSE [f EXCEPT !.pc = @ + 1]

\* Mutant: the early ticket is bound to the transcript without the Finished.
ServerAppKeysShort(e) ==
    LET f == BumpDup(e)
        g == IF EarlyStart(e) THEN [f EXCEPT !.rms = e.tr, !.flags = @ \cup {"early_start_used"}]
             ELSE f
    IN  WriteInit(g, AppKey(g))

\* generate_ap_traffic_keys with generate_non_auth_rms_keys, which foresees
\* the Finished of a client that will not authenticate.
ServerAppKeys(e) ==
    LET f == BumpDup(e)
        g == IF EarlyStart(e)
             THEN [f EXCEPT !.rms = Append(e.tr, <<"client", "Finished">>),
                            !.flags = @ \cup {"early_start_used"}]
             ELSE f
    IN  WriteInit(g, AppKey(g))

\* generate_ap_traffic_keys, generate_rms_keys.
ClientAppKeys(e) == ConnectionInit([BumpDup(e) EXCEPT !.rms = e.tr], AppKey(e))

\* The early keys take an epoch of their own, in one direction.
ServerHsKeys(e) ==
    LET early == BumpDup([SetKeys(e, EarlyKey(e), NoKey) EXCEPT !.re = e.next])
    IN  IF Has(e, "accepted") THEN WriteInit(early, HsKey(e)) ELSE ConnectionInit(e, HsKey(e))
ClientEarlyKeys(e) == BumpDup([SetKeys(e, NoKey, EarlyKey(e)) EXCEPT !.we = e.next])
ClientHsKeys(e) == IF Has(e, "in_flight") THEN ReadInit(e, HsKey(e)) ELSE ConnectionInit(e, HsKey(e))

\* After the early data each side takes up the handshake keys.
ClientEndEarly(e) == IF Has(e, "in_flight")
                     THEN WriteInit([e EXCEPT !.flags = @ \ {"in_flight"}], HsKey(e)) ELSE e
ServerEndEarly(e) == IF Has(e, "accepted") THEN ReadInit(e, HsKey(e)) ELSE e

ServerReadKeys(e) ==
    ReadInit([e EXCEPT !.rms = IF Has(e, "early_start_used") THEN @ ELSE e.tr], AppKey(e))

\* gnutls_handshake returns early; gnutls_record_recv completes it (STATE109
\* of the server, STATE17 and can_send_false_start of the client).
Start(p, e) == [e EXCEPT !.started =
                   /\ mode.start
                   /\ IF p = "server" THEN Has(e, "early_start_used")
                                      ELSE ~(Has(e, "crt_asked") /\ mode.cc)]

Do(p, e, what) ==
    CASE what = "synth"      -> [e EXCEPT !.tr = <<Synthetic>>]
      [] what = "early_keys" -> ClientEarlyKeys(e)
      [] what = "hs_keys"    -> IF p = "client" THEN ClientHsKeys(e) ELSE ServerHsKeys(e)
      [] what = "end_early"  -> IF p = "client" THEN ClientEndEarly(e) ELSE ServerEndEarly(e)
      [] what = "app_keys"   -> IF p = "client" THEN ClientAppKeys(e) ELSE ServerAppKeys(e)
      [] what = "read_keys"  -> ServerReadKeys(e)
      [] what = "start"      -> Start(p, e)
      [] what = "write12"    -> WriteInit(e, Key12(e))

-----------------------------------------------------------------------------
(* Receiving.                                                               *)

\* Mutant: early data is accepted although the anti-replay check failed.
HelloFlagsAlways(e, info) ==
    (IF "early" \in info THEN {"in_flight", "accepted"} ELSE {}) \cup
    (IF mode.vers = 13 /\ mode.offer = "accepted" THEN {"psk_selected"} ELSE {}) \cup
    (IF mode.vers = 12 /\ mode.tickets /\ mode.offer # "accepted" THEN {"renew"} ELSE {}) \cup
    (IF mode.hrr THEN {"hrr_sent"} ELSE {})

\* early_data_recv_params and server_recv_params: what the hello's extensions
\* make the server note down; a missing key share makes it ask again.
HelloFlags(e, info) ==
    (IF "early" \in info THEN {"in_flight"} ELSE {}) \cup
    (IF "early" \in info /\ mode.early = "accepted" /\ ~Has(e, "hrr_sent")
     THEN {"accepted"} ELSE {}) \cup
    (IF mode.vers = 13 /\ mode.offer = "accepted" THEN {"psk_selected"} ELSE {}) \cup
    (IF mode.vers = 12 /\ mode.tickets /\ mode.offer # "accepted" THEN {"renew"} ELSE {}) \cup
    (IF mode.hrr THEN {"hrr_sent"} ELSE {})

Version == IF mode.vers = 13 THEN "13" ELSE IF mode.offer = "accepted" THEN "12r" ELSE "12"

\* Mutant: a certificate is never followed by a signature.
CertFlagsNoVerify(info) == {}

\* A certificate that is not empty has to be followed by its proof.
CertFlags(info) == IF "cert" \in info THEN {"crt_vrfy_expected"} ELSE {}

\* The handshake message r, expected by the current step, is processed.
Process(p, e, r) ==
    LET f == IF Unhashed(e, r.msg) THEN e ELSE [e EXCEPT !.tr = Append(@, <<Peer(p), r.msg>>)]
    IN  CASE r.msg = "ClientHello" ->
               [f EXCEPT !.flags = @ \cup HelloFlags(e, r.info), !.prog = Version]
          [] r.msg = "HelloRetryRequest" ->
               [f EXCEPT !.tr = <<Synthetic, <<"server", r.msg>>>>, !.pc = 0]
          [] r.msg = "ServerHello" ->
               [f EXCEPT !.flags = @ \cup r.info, !.prog = Version, !.mark = f.tr,
                         !.psk = Has(e, "in_flight") \/ "psk_selected" \in r.info
                                 \/ Version = "12r"]
          [] r.msg = "EncryptedExtensions" -> [f EXCEPT !.flags = @ \cup r.info]
          [] r.msg = "CertificateRequest"  -> [f EXCEPT !.flags = @ \cup {"crt_asked"}]
          [] r.msg = "Certificate"         -> [f EXCEPT !.flags = @ \cup CertFlags(r.info)]
          [] r.msg = "ClientKeyExchange"   -> [f EXCEPT !.mark = f.tr]
          [] r.msg = "EndOfEarlyData"      -> [f EXCEPT !.flags = @ \ {"in_flight"}]
          [] r.msg = "Finished" ->
               IF r.ctx # e.tr THEN Fail(e, "finished")
               ELSE IF e.prog = "13" /\ p = "client" THEN [f EXCEPT !.mark = f.tr]
               ELSE IF e.prog \in {"12", "12r"} THEN [f EXCEPT !.done = TRUE] ELSE f
          [] OTHER -> f

ReadKey(e) == e.keys[e.re].r

\* Early data the server did not accept fails to decrypt.
Discards(p, e, r) == /\ p = "server" /\ Has(e, "in_flight") /\ ~Has(e, "accepted")
                     /\ r.key # Plain /\ r.key # ReadKey(e)

\* The whole of the early data is one record here, so that early_data_received
\* is zero before it.  What is refused counts as it came, encrypted.
Discard(e) == IF mode.size + Expansion > MaxEarlyData THEN Fail(e, "early_data_size") ELSE e

\* What is accepted counts as it was sent; a client that keeps the limit never
\* exceeds it.
TakeEarly(e) == IF mode.size > MaxEarlyData THEN Fail(e, "early_data_size")
                ELSE [e EXCEPT !.got = Append(@, EarlyData)]

\* Mutant: data that crosses a re-authentication is unexpected.
TakesDataNever(e, s) == FALSE

\* A server waiting for the client's Certificate delivers data it finds.
TakesData(e, s) == e.done /\ s.msg = "Certificate"

\* Record r is read while the engine expects step s.
Outcome(p, e, r, s) ==
    LET early == p = "server" /\ Has(e, "in_flight")
        f == IF early /\ ~Has(e, "accepted") THEN [e EXCEPT !.flags = @ \ {"in_flight"}] ELSE e
    IN  IF r.type = "ccs"
        THEN IF s.op = "recvccs" THEN Advance(p, ReadInit(e, Key12(e)))
             ELSE IF e.prog \in {"start", "13"} THEN e ELSE Fail(e, "unexpected_ccs")
        ELSE IF Discards(p, e, r) THEN Discard(e)
        ELSE IF r.key # ReadKey(e) \/ (early /\ Has(e, "accepted") /\ ReadKey(e) = Plain)
             THEN Fail(e, "decryption")
        ELSE CASE r.type = "data" /\ early -> TakeEarly(e)
               [] r.type = "data" /\ ~early /\ TakesData(e, s) -> [e EXCEPT !.got = Append(@, r.msg)]
               [] r.type = "hs" /\ r.msg = s.msg -> Advance(p, Process(p, f, r))
               [] OTHER -> Fail(e, "unexpected_packet")

\* Messages the engine can do without.
Optional(s) == s.msg \in {"HelloRetryRequest", "CertificateRequest"}

Absent(p, e, r, s) == Optional(s) /\ r.type = "hs" /\ r.key = ReadKey(e) /\ r.msg # s.msg

-----------------------------------------------------------------------------
(* The steps of an engine.  A call that would block may be repeated at any   *)
(* time, so that the engine may rest between any two of them.                *)

Set(p, e) == ep' = [ep EXCEPT ![p] = e] /\ UNCHANGED mode

Calls(p, op) == /\ Running(ep[p])
                /\ Step(p).op = op
                /\ ~Skips(p, ep[p], Step(p))

SkipStep(p) == /\ Running(ep[p])
               /\ ~ep[p].again
               /\ Skips(p, ep[p], Step(p))
               /\ Set(p, Advance(p, ep[p]))

DoStep(p) == Calls(p, "do") /\ Set(p, Advance(p, Do(p, ep[p], Step(p).msg)))

\* Mutant: a write that was interrupted starts again at the last record taken.
TakesAgain(e, n) == [e EXCEPT !.wire = @ \o SubSeq(e.out, 1, n),
                              !.out = SubSeq(@, IF n \in 1..(Len(@) - 1) THEN n ELSE n + 1, Len(@))]

\* The records are handed to the transport, which takes n of them.
Takes(e, n) == [e EXCEPT !.wire = @ \o SubSeq(e.out, 1, n), !.out = SubSeq(@, n + 1, Len(@))]

\* _gnutls_send_change_cipher_spec; it is not repeated after GNUTLS_E_AGAIN,
\* what is left in record_send_buffer goes out with the next message.
CcsStep(p) ==
    LET f == Cache(ep[p], "ccs", "ccs", {}, <<>>)
    IN  /\ Calls(p, "ccs")
        /\ \/ /\ mode.vers = 13
              /\ \E n \in 0..Len(Flush(f).out) : Set(p, Advance(p, Takes(Flush(f), n)))
           \/ mode.vers = 12 /\ Set(p, Advance(p, f))

\* The first call of a send step: the message is cached, or sent with all
\* that is cached.  A repeated call finds HSK_TLS13_TICKET_SENT in STATE115 and
\* goes on, with the ticket still in record_send_buffer.
SendStep(p) ==
    LET f == Compose(p, ep[p], Step(p).msg)
    IN  /\ Calls(p, "send")
        /\ ~ep[p].again
        /\ \/ /\ Step(p).state = 115
              /\ \E n \in 0..Len(Flush(f).out) : Set(p, Advance(p, Takes(Flush(f), n)))
           \/ /\ Step(p).state # 115
              /\ Set(p, IF Step(p).msg \in Cached(ep[p]) THEN Advance(p, f)
                        ELSE [Flush(f) EXCEPT !.again = TRUE])

\* Repeated calls write until the buffer is empty.
Transmit(p) == /\ Running(ep[p])
               /\ ep[p].again
               /\ ep[p].out # <<>>
               /\ Set(p, Takes(ep[p], 1))

SendDone(p) == /\ Running(ep[p])
               /\ ep[p].again
               /\ ep[p].out = <<>>
               /\ Set(p, Advance(p, ep[p]))

Arrived(p) == ep[Peer(p)].wire # <<>>
First(p)   == Head(ep[Peer(p)].wire)
Consume(p, e) == /\ ep' = [ep EXCEPT ![p] = e, ![Peer(p)].wire = Tail(@)]
                 /\ UNCHANGED mode

RecvStep(p) ==
    /\ Calls(p, "recv") \/ Calls(p, "recvccs")
    /\ Arrived(p)
    /\ ~Absent(p, ep[p], First(p), Step(p))
    /\ Consume(p, Outcome(p, ep[p], First(p), Step(p)))

\* An optional message does not come; the one that did is kept.
RecvAbsent(p) ==
    /\ Calls(p, "recv")
    /\ Arrived(p)
    /\ Absent(p, ep[p], First(p), Step(p))
    /\ Set(p, Advance(p, ep[p]))

-----------------------------------------------------------------------------
(* The application.                                                         *)

\* Between two handshakes, or while one is completed by gnutls_record_recv.
Open(e) == e.err = "none" /\ ((e.done /\ e.prog = "none") \/ e.started)

\* gnutls_record_send; blocking calls are repeated by the application.
AppSend(p) ==
    LET e == ep[p]
        r == Record("data", e.sent + 1, {}, <<>>, e.keys[e.we].w)
    IN  /\ Open(e)
        /\ e.out = <<>>
        /\ e.sent < MaxData
        /\ Set(p, [e EXCEPT !.sent = @ + 1, !.wire = Append(@, r)])

\* With records left in record_send_buffer it writes those and returns 0.
AppFlush(p) == /\ Open(ep[p])
               /\ ep[p].out # <<>>
               /\ Set(p, Takes(ep[p], 1))

\* _gnutls13_recv_async_handshake: what may come after a handshake.
Async(p, e, r) ==
    CASE r.msg = "NewSessionTicket" /\ p = "client" ->
           [e EXCEPT !.tickets = @ \cup {<<r.ctx, e.rms>>}]
      [] r.msg = "CertificateRequest" /\ p = "client" /\ mode.reauth ->
           [e EXCEPT !.tr = Append(e.saved, <<"server", r.msg>>), !.prog = "reauth",
                     !.flags = @ \cup {"crt_asked"}]
      [] OTHER -> Fail(e, "unexpected_packet")

\* gnutls_record_recv on a finished handshake.
AppRecv(p) ==
    LET e == ep[p]
        r == First(p)
    IN  /\ e.err = "none" /\ e.done /\ e.prog = "none"
        /\ Arrived(p)
        /\ Consume(p, IF r.key # ReadKey(e) THEN Fail(e, "decryption")
                      ELSE CASE r.type = "data" -> [e EXCEPT !.got = Append(@, r.msg)]
                             [] r.type = "hs" /\ mode.vers = 13 -> Async(p, e, r)
                             [] OTHER -> Fail(e, "unexpected_packet"))

\* gnutls_reauth on the server starts from the saved transcript.
Reauth ==
    LET e == ep["server"]
    IN  /\ mode.vers = 13 /\ mode.reauth
        /\ e.err = "none" /\ e.done /\ e.prog = "none" /\ e.auths = 0
        /\ Set("server", [e EXCEPT !.tr = e.saved, !.prog = "reauth"])

\* gnutls_session_ticket_send.
TicketSend ==
    LET e == ep["server"]
    IN  /\ mode.vers = 13 /\ mode.tickets
        /\ e.err = "none" /\ e.done /\ e.prog = "none" /\ ~e.extra
        /\ Set("server", [e EXCEPT !.prog = "ticket", !.extra = TRUE])

Progress(p) == \/ SkipStep(p) \/ DoStep(p) \/ CcsStep(p)
               \/ SendStep(p) \/ Transmit(p) \/ SendDone(p)
               \/ RecvStep(p) \/ RecvAbsent(p) \/ AppRecv(p)

Next == \/ \E p \in Ends : Progress(p) \/ AppSend(p) \/ AppFlush(p)
        \/ Reauth
        \/ TicketSend

Spec == Init /\ [][Next]_vars

\* Both applications repeat their calls until the handshake is over and then
\* read; nothing obliges them to write, to re-authenticate or to send tickets.
FairSpec == Spec /\ \A p \in Ends : WF_vars(Progress(p))

-----------------------------------------------------------------------------
Flags == {"in_flight", "accepted", "psk_selected", "renew", "hrr_sent", "crt_req_sent",
          "crt_asked", "crt_vrfy_expected", "ticket_sent", "early_start_used"}

\* STATE and the epochs stay in range, the epochs in use have a slot of the
\* table, and two of them never share one.
TypeOK ==
    /\ mode \in Modes
    /\ \A p \in Ends :
        LET e == ep[p]
        IN  /\ e.pc \in 1..(Len(Engine(p, e.prog)) + 1)
            /\ e.flags \subseteq Flags
            /\ {e.re, e.we} \subseteq DOMAIN e.keys
            /\ \A i \in DOMAIN e.keys : i - e.min \in 0..(MAX_EPOCH_INDEX - 1)

\* Early data within the client's limit that is refused and, with what its
\* encryption adds, exceeds the same limit on the server.
Overrun(m) == m.early = "rejected" /\ m.size + Expansion > MaxEarlyData

\* Two endpoints that follow the same mode end a handshake with an error in
\* one case only, refused early data that overruns the limit: every other
\* record decrypts where it is read, every message is expected where it
\* arrives and every Finished matches, whatever was interrupted.
NoFatal == \A p \in Ends :
              ep[p].err # "none" =>
                  p = "server" /\ Overrun(mode) /\ ep[p].err = "early_data_size"

Idle(p) == ep[p].done /\ ep[p].prog = "none"

\* When both are through, each reads under the key the other writes under,
\* and both saw the same messages in the same order.
KeysAgree ==
    (\A p \in Ends : Idle(p)) =>
        /\ \A p \in Ends : ep[p].keys[ep[p].we].w = ReadKey(ep[Peer(p)])
        /\ ep["client"].saved = ep["server"].saved

\* A ticket sent before the client's Finished was read (early start) is bound
\* to the same resumption secret as the one the client derives.
ResumptionAgree == \A t \in ep["client"].tickets : t[1] = t[2]

Upto(n) == [i \in 1..n |-> i]
EarlyPart == IF mode.early = "accepted" THEN <<EarlyData>> ELSE <<>>

\* Early data is delivered once, before everything else, if the server
\* accepted it, and is left out if not; application data follows in order,
\* that of an early or false start too.
StreamIntegrity ==
    /\ \E n \in 0..ep["server"].sent : ep["client"].got = Upto(n)
    /\ \/ ep["server"].got = <<>> /\ ~(ep["server"].done /\ mode.early = "accepted")
       \/ \E n \in 0..ep["client"].sent : ep["server"].got = EarlyPart \o Upto(n)

\* A server that asked for another ClientHello refuses the early data this one
\* announces again (early_data_recv_params) and goes on with the handshake.
RetryRefusesEarlyData == Has(ep["server"], "hrr_sent") => ep["server"].err = "none"

\* Every handshake comes to its end on both sides, HelloRetryRequest, early
\* data and interruptions included, and what was sent is received; one whose
\* refused early data overruns the limit ends with the error of the server.
Completes ==
    /\ ~Overrun(mode) => <>[](\A p \in Ends : Idle(p) /\ ep[p].wire = <<>>)
    /\ Overrun(mode) => <>(ep["server"].err = "early_data_size")

\* A re-authentication that was started completes on both sides, although
\* application data crosses it.
ReauthCompletes == (ep["server"].prog = "reauth") ~> (\A p \in Ends : ep[p].auths = 1)
=============================================================================
