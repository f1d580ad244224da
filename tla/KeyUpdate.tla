----------------------------- MODULE KeyUpdate -----------------------------
(***************************************************************************)
(* Two TLS 1.3 endpoints after the handshake: gnutls_record_send with its   *)
(* rsend_state machine, cork and uncork, gnutls_session_key_update, the     *)
(* automatic re-key, gnutls_record_recv with key update messages, and       *)
(* gnutls_bye, over a transport that may end at any time.                   *)
(*                                                                          *)
(* An endpoint is single threaded, so one API call is one step, but its     *)
(* calls interleave with those of the peer and, on a non-blocking           *)
(* transport, a call may return GNUTLS_E_AGAIN with part of its records     *)
(* still in record_send_buffer and has to be repeated.  Application data is *)
(* a sequence of numbered chunks of the maximum record size.  Traffic keys  *)
(* are generations: update_keys derives generation g + 1 from g.            *)
(***************************************************************************)
EXTENDS Naturals, Sequences

CONSTANTS Nodes,        \* the two endpoints
          Senders,      \* the endpoints that send application data
          MaxUpdates,   \* bound on the generation of a key
          Profiles      \* the ways applications use the library, see Profile

\* nonblock: the transport may return EAGAIN; requests: the application uses
\* GNUTLS_KU_PEER; cork: it uses gnutls_record_cork; rekey: records per key
\* before the automatic key update, 0 with GNUTLS_NO_AUTO_REKEY; bye: it closes
\* the connection, and the transport may end before that; chunks: bound on the
\* chunks it submits.
Profile == [nonblock : BOOLEAN, requests : BOOLEAN, cork : BOOLEAN, rekey : Nat,
            bye : BOOLEAN, chunks : Nat]

ASSUME KeyUpdateAssumption == /\ \E a, b \in Nodes : a # b /\ Nodes = {a, b}
                              /\ Senders \subseteq Nodes
                              /\ MaxUpdates \in Nat
                              /\ Profiles \subseteq Profile

VARIABLES ep,           \* ep[p]: the session of endpoint p
          prof          \* the profile of this behaviour

vars == <<ep, prof>>

Peer(p) == CHOOSE q \in Nodes : q # p

RecordTypes == {"data", "key_update", "alert"}

Session ==
    [st       |-> "NORMAL",     \* rsend_state
     state150 |-> FALSE,        \* STATE = STATE150: an interrupted key update
     asked    |-> FALSE,        \* HSK_KEY_UPDATE_ASKED
     presend  |-> <<>>,         \* record_presend_buffer
     kubuf    |-> 0,            \* record_key_update_buffer
     sendbuf  |-> <<>>,         \* record_send_buffer: encrypted records
     wire     |-> <<>>,         \* records on their way to the peer
     wgen     |-> 0,            \* generation of the write key
     wseq     |-> 0,            \* write.sequence_number
     rgen     |-> 0,            \* generation of the read key
     recent   |-> FALSE,        \* last_key_update is less than a second ago
     orig     |-> "NORMAL",     \* orig_state of gnutls_record_uncork
     call     |-> "none",       \* the call the application has to repeat
     next     |-> 0,            \* chunks submitted so far
     got      |-> <<>>,         \* chunks received
     rbuf     |-> <<>>,         \* record_buffer: chunks that were not asked for
     bye      |-> 0,            \* BYE_STATE
     eof      |-> FALSE,        \* read_eof
     closed   |-> FALSE,        \* may_not_write
     noread   |-> FALSE,        \* may_not_read
     ended    |-> FALSE,        \* the transport to the peer came to its end
     error    |-> "none",       \* the fatal error returned
     due      |-> FALSE,        \* history: a requested update is outstanding
     skipped  |-> FALSE]        \* history: data was encrypted while it was

Init == /\ ep = [p \in Nodes |-> Session]
        /\ prof \in Profiles

-----------------------------------------------------------------------------
(* Sending.  The operators map a session to the session after the call.     *)

\* After the marked record the session is put in need of a key update.
MarkRekey(e) == IF prof.rekey # 0 /\ e.wseq = prof.rekey
                THEN [e EXCEPT !.st = "KEY_UPDATE_1"] ELSE e

Encrypt(e, type, body) ==
    [e EXCEPT !.sendbuf = Append(@, [type |-> type, gen |-> e.wgen, body |-> body]),
              !.wseq = @ + 1,
              !.due = @ /\ type # "key_update",
              !.skipped = @ \/ (e.due /\ type = "data")]

\* Mutant: what the transport did not take is forgotten.
FlushDiscard(e, n) == [e EXCEPT !.wire = @ \o SubSeq(e.sendbuf, 1, n),
                                !.sendbuf = <<>>]

\* _gnutls_io_write_flush: the transport takes n records and then would block.
Flush(e, n) == [e EXCEPT !.wire = @ \o SubSeq(e.sendbuf, 1, n),
                         !.sendbuf = SubSeq(@, n + 1, Len(@))]

Blocked(e) == e.sendbuf # <<>>

\* How many of the queued records the transport may take.
Takes(n) == IF prof.nonblock THEN 0..n ELSE {n}

\* Mutant: an interrupted record is encrypted again when the call is repeated.
SendTlenReencrypt(e, type, body, n) ==
    LET f == Flush(Encrypt(e, type, body), n)
    IN  IF Blocked(f) THEN f ELSE MarkRekey(f)

\* _gnutls_send_tlen_int for data and alerts: a record left over from an
\* interrupted call is flushed instead of encrypting the data again.  The call
\* then returns record_send_buffer_user_size, which is the size of body; it is
\* not if a KeyUpdate message was left over, which takes corking and an automatic
\* re-key over a transport that blocks (see NoCorkedRekey in KeyUpdate_proofs).
SendTlen(e, type, body, n) ==
    LET f == Flush(IF Blocked(e) THEN e ELSE Encrypt(e, type, body), n)
    IN  IF Blocked(f) THEN f ELSE MarkRekey(f)

\* The byte of the message that asks for an update in return.
RequestByte(ask) == IF ask THEN 1 ELSE 0

\* Mutant: the write key is updated although the message was not yet sent.
SessionKeyUpdateEager(e, ask, n) ==
    LET f == Flush(Encrypt([e EXCEPT !.asked = @ \/ ask, !.wgen = @ + 1, !.wseq = 0],
                           "key_update", RequestByte(ask)), n)
    IN  [f EXCEPT !.state150 = Blocked(f)]

\* gnutls_session_key_update: the message goes out under the old write key,
\* which is replaced once all of it was sent.
SessionKeyUpdate(e, ask, n) ==
    LET q == IF e.state150 THEN e
             ELSE MarkRekey(Encrypt([e EXCEPT !.asked = @ \/ ask], "key_update", RequestByte(ask)))
        f == Flush(q, n)
    IN  IF Blocked(f) THEN [f EXCEPT !.state150 = TRUE]
        ELSE [f EXCEPT !.state150 = FALSE, !.wgen = @ + 1, !.wseq = 0]

\* How many records a key update has to get out.
UpdateRecords(e) == Len(e.sendbuf) + (IF e.state150 THEN 0 ELSE 1)

\* gnutls_record_send2, RECORD_SEND_KEY_UPDATE_1 and 2, up to the key update ...
RecordSendUpdate(e, chunk, n) ==
    LET q == IF e.st = "KEY_UPDATE_1"
             THEN [e EXCEPT !.kubuf = chunk, !.st = "KEY_UPDATE_2"] ELSE e
        f == SessionKeyUpdate(q, FALSE, n)
    IN  IF Blocked(f) THEN f ELSE [f EXCEPT !.st = "KEY_UPDATE_3"]

\* Mutant: the state is reset only when the data was sent at once.
RecordSendBufferedLate(e, n) ==
    LET f == SendTlen(e, "data", e.kubuf, n)
    IN  IF Blocked(f) THEN f ELSE [f EXCEPT !.kubuf = 0, !.st = "NORMAL"]

\* ... and RECORD_SEND_KEY_UPDATE_3: the buffered data goes out and, sent or
\* interrupted, the state is normal again.
RecordSendBuffered(e, n) ==
    [SendTlen(e, "data", e.kubuf, n) EXCEPT !.kubuf = 0, !.st = "NORMAL"]

\* Every result gnutls_record_send2 may have for chunk.
RecordSend(e, chunk) ==
    LET queued == IF Blocked(e) THEN Len(e.sendbuf) ELSE 1
        cases  == {RecordSendUpdate(e, chunk, n) : n \in Takes(UpdateRecords(e))}
    IN  IF e.st \in {"KEY_UPDATE_1", "KEY_UPDATE_2"}
        THEN {f \in cases : Blocked(f)} \cup
             UNION {{RecordSendBuffered(f, m) : m \in Takes(1)} : f \in {c \in cases : ~Blocked(c)}}
        ELSE {SendTlen(e, "data", chunk, n) : n \in Takes(queued)}

Corked(e) == e.st \in {"CORKED", "CORKED_TO_KU"}

-----------------------------------------------------------------------------
(* The calls of the application of p.  After GNUTLS_E_AGAIN it repeats the  *)
(* call with the same parameters, as the documentation asks; it may receive *)
(* in between.                                                              *)

Set(p, e) == ep' = [ep EXCEPT ![p] = e] /\ UNCHANGED prof

Running(p) == ep[p].error = "none" /\ ~ep[p].ended

\* The application may write: it has not begun to say goodbye.
MayWrite(p) == Running(p) /\ ~ep[p].closed /\ ep[p].call # "bye"

\* gnutls_record_send of a new chunk, or again of the interrupted one.
Send(p) ==
    LET e == IF ep[p].call = "send" THEN ep[p] ELSE [ep[p] EXCEPT !.next = @ + 1]
    IN  /\ MayWrite(p)
        /\ p \in Senders
        /\ ~Corked(ep[p])
        /\ \/ ep[p].call = "send"
           \/ ep[p].call = "none" /\ ep[p].next < prof.chunks
        /\ e.st \in {"KEY_UPDATE_1", "KEY_UPDATE_2"} => e.wgen < MaxUpdates
        /\ \E f \in RecordSend(e, e.next) :
              Set(p, [f EXCEPT !.call = IF Blocked(f) THEN "send" ELSE "none"])

\* gnutls_record_send while corked: append_data_to_corked.
SendCorked(p) ==
    /\ MayWrite(p)
    /\ p \in Senders
    /\ Corked(ep[p])
    /\ ep[p].call \in {"none", "uncork"}
    /\ ep[p].next < prof.chunks
    /\ Set(p, [ep[p] EXCEPT !.next = @ + 1, !.presend = Append(@, ep[p].next + 1)])

\* gnutls_record_cork.
Cork(p) ==
    /\ MayWrite(p)
    /\ prof.cork
    /\ p \in Senders
    /\ ep[p].call = "none"
    /\ Set(p, [ep[p] EXCEPT !.st = "CORKED"])

\* gnutls_record_uncork without GNUTLS_RECORD_WAIT: entering the loop ...
Uncork(p) ==
    /\ MayWrite(p)
    /\ Corked(ep[p])
    /\ ep[p].call \in {"none", "uncork"}
    /\ Set(p, [ep[p] EXCEPT !.orig = ep[p].st,
                            !.st = IF @ = "CORKED" THEN "NORMAL" ELSE "KEY_UPDATE_1",
                            !.call = "loop"])

\* ... one gnutls_record_send of what is left, restoring the state on EAGAIN ...
UncorkSend(p) ==
    /\ Running(p)
    /\ ep[p].call = "loop"
    /\ ep[p].presend # <<>>
    /\ ep[p].st \in {"KEY_UPDATE_1", "KEY_UPDATE_2"} => ep[p].wgen < MaxUpdates
    /\ \E f \in RecordSend(ep[p], Head(ep[p].presend)) :
          Set(p, IF Blocked(f) THEN [f EXCEPT !.st = ep[p].orig, !.call = "uncork"]
                 ELSE [f EXCEPT !.presend = Tail(@)])

\* ... and returning when nothing is left.
UncorkDone(p) ==
    /\ Running(p)
    /\ ep[p].call = "loop"
    /\ ep[p].presend = <<>>
    /\ Set(p, [ep[p] EXCEPT !.call = "none"])

\* gnutls_session_key_update, with or without GNUTLS_KU_PEER, or again.
Update(p, ask) ==
    /\ MayWrite(p)
    /\ ask => prof.requests
    /\ ep[p].call = "update" \/ (ep[p].call = "none" /\ ep[p].wgen < MaxUpdates)
    /\ \E n \in Takes(UpdateRecords(ep[p])) :
          LET f == SessionKeyUpdate(ep[p], ask, n)
          IN  Set(p, [f EXCEPT !.call = IF Blocked(f) THEN "update" ELSE "none"])

-----------------------------------------------------------------------------
(* Receiving.                                                               *)

Fail(e, why) == [e EXCEPT !.error = why]

\* Mutant: the request of the peer schedules nothing.
RecvKeyUpdateNoReply(e, request) ==
    IF e.recent THEN Fail(e, "too_many_updates")
    ELSE [e EXCEPT !.recent = TRUE, !.rgen = @ + 1, !.asked = FALSE, !.due = request]

\* _gnutls13_recv_key_update; the read key moves on before the state of the
\* sending side is looked at.
RecvKeyUpdate(e, request) ==
    LET upd == [e EXCEPT !.recent = TRUE, !.rgen = @ + 1]
    IN  IF e.recent THEN Fail(e, "too_many_updates")
        ELSE IF ~request THEN [upd EXCEPT !.asked = FALSE]
        ELSE IF e.asked THEN Fail([e EXCEPT !.recent = TRUE], "crossed_request")
        ELSE IF e.st = "NORMAL"
             THEN [upd EXCEPT !.asked = FALSE, !.st = "KEY_UPDATE_1", !.due = TRUE]
        ELSE IF e.st = "CORKED"
             THEN [upd EXCEPT !.asked = FALSE, !.st = "CORKED_TO_KU", !.due = TRUE]
        ELSE Fail(upd, "repeated_request")

\* The next record is read by a call that wants data or, in gnutls_bye, an
\* alert; data the call did not want is kept in the record buffer.
Take(e, r, wanted) ==
    IF r.gen # e.rgen THEN Fail(e, "decryption_failed")
    ELSE CASE r.type = "data" /\ wanted = "data" -> [e EXCEPT !.got = Append(@, r.body)]
           [] r.type = "data" /\ wanted # "data" -> [e EXCEPT !.rbuf = Append(@, r.body)]
           [] r.type = "key_update" -> RecvKeyUpdate(e, r.body = 1)
           [] r.type = "alert"      -> [e EXCEPT !.eof = TRUE]

Readable(p) == Running(p) /\ ~ep[p].eof /\ ~ep[p].noread

\* gnutls_record_recv takes the next record from the wire ...
Recv(p) ==
    LET q == Peer(p)
    IN  /\ Readable(p)
        /\ ep[p].rbuf = <<>>
        /\ ep[p].call # "loop"
        /\ ep[p].call = "bye" => prof.nonblock
        /\ ep[q].wire # <<>>
        /\ ep' = [ep EXCEPT ![p] = Take(ep[p], Head(ep[q].wire), "data"), ![q].wire = Tail(@)]
        /\ UNCHANGED prof

\* ... or returns what is in the record buffer.
RecvBuffered(p) ==
    /\ Readable(p)
    /\ ep[p].rbuf # <<>>
    /\ ep[p].call = "bye" => prof.nonblock
    /\ Set(p, [ep[p] EXCEPT !.got = Append(@, Head(ep[p].rbuf)), !.rbuf = Tail(@)])

\* Mutant: the end of the transport is taken for the end of the stream.
AtEndEof(e) == [e EXCEPT !.eof = TRUE]

\* recv_error: the session becomes invalid; gnutls_bye reports success.
AtEnd(e) == Fail(e, "premature_termination")

RecvEnd(p) ==
    /\ Readable(p)
    /\ ep[p].rbuf = <<>>
    /\ ep[p].call \notin {"loop", "bye"}
    /\ ep[Peer(p)].ended /\ ep[Peer(p)].wire = <<>>
    /\ Set(p, AtEnd(ep[p]))

-----------------------------------------------------------------------------
(* Closing.                                                                 *)

\* Mutant: what an interrupted call left behind is not sent first.
ByeFlushNone(e, n) == [e EXCEPT !.bye = 1]

\* BYE_STATE0.
ByeFlush(e, n) == LET f == Flush(e, n) IN IF Blocked(f) THEN f ELSE [f EXCEPT !.bye = 1]

\* gnutls_bye up to the wait for the peer's alert.  The application has nothing
\* corked; it may give up an interrupted gnutls_record_send, but no key update.
Bye(p) ==
    LET e == ep[p]
    IN  /\ Running(p)
        /\ prof.bye
        /\ e.presend = <<>> /\ ~e.state150 /\ ~e.closed
        /\ e.call \in {"none", "send", "bye"} /\ e.bye \in {0, 1}
        /\ \E n \in Takes(Len(e.sendbuf)), m \in Takes(1) :
              LET f == IF e.bye = 0 THEN ByeFlush(e, n) ELSE e
                  g == SendTlen(f, "alert", 0, IF Blocked(f) THEN n ELSE m)
              IN  Set(p, IF f.bye = 0 THEN [f EXCEPT !.call = "bye"]
                         ELSE [g EXCEPT !.call = "bye", !.bye = IF Blocked(g) THEN @ ELSE 2])

ByeDone(e) == [e EXCEPT !.bye = 0, !.closed = TRUE, !.call = "none"]

\* BYE_STATE2 with GNUTLS_SHUT_WR ...
ByeWrite(p) == Running(p) /\ ep[p].bye = 2 /\ Set(p, ByeDone(ep[p]))

\* ... and with GNUTLS_SHUT_RDWR: records are read until the alert comes or the
\* transport ends, which gnutls_bye does not report.
ByeWait(p) ==
    LET e == ep[p]
        q == Peer(p)
        f == Take(e, Head(ep[q].wire), "alert")
        closing == [ByeDone(e) EXCEPT !.noread = TRUE]
    IN  /\ Running(p)
        /\ e.bye = 2
        /\ \/ e.eof /\ Set(p, closing)
           \/ /\ ~e.eof /\ ep[q].wire # <<>>
              /\ ep' = [ep EXCEPT ![p] = IF f.eof THEN [closing EXCEPT !.eof = TRUE] ELSE f,
                                  ![q].wire = Tail(@)]
              /\ UNCHANGED prof
           \/ ~e.eof /\ ep[q].wire = <<>> /\ ep[q].ended /\ Set(p, AtEnd(closing))

\* The transport, or the process of p, ends; what was on its way may be lost.
End(p) == /\ prof.bye
          /\ ~ep[p].ended
          /\ \E n \in 0..Len(ep[p].wire) :
                Set(p, [ep[p] EXCEPT !.ended = TRUE, !.wire = SubSeq(@, 1, n)])

\* A second passes since the last key update was received.
Tick(p) == ep[p].recent /\ Set(p, [ep[p] EXCEPT !.recent = FALSE])

Next == \E p \in Nodes :
            \/ Send(p) \/ SendCorked(p)
            \/ Cork(p) \/ Uncork(p) \/ UncorkSend(p) \/ UncorkDone(p)
            \/ \E ask \in BOOLEAN : Update(p, ask)
            \/ Recv(p) \/ RecvBuffered(p) \/ RecvEnd(p)
            \/ Bye(p) \/ ByeWrite(p) \/ ByeWait(p) \/ End(p)
            \/ Tick(p)

Spec == Init /\ [][Next]_vars

-----------------------------------------------------------------------------
SendStates == {"NORMAL", "CORKED", "CORKED_TO_KU", "KEY_UPDATE_1", "KEY_UPDATE_2"}

\* Chunks, keys and states stay in range; RECORD_SEND_KEY_UPDATE_3 never
\* outlives the call that enters it.
TypeOK ==
    \A p \in Nodes :
        /\ ep[p].st \in SendStates
        /\ ep[p].next \in 0..prof.chunks
        /\ ep[p].wgen \in 0..MaxUpdates /\ ep[p].rgen \in 0..MaxUpdates
        /\ ep[p].call \in {"none", "send", "update", "uncork", "loop", "bye"}
        /\ ep[p].bye \in 0..2
        /\ \A i \in 1..Len(ep[p].wire) : ep[p].wire[i].type \in RecordTypes

\* No record ever fails to decrypt: the reader switches keys exactly where
\* the writer did, whatever calls were interrupted and whichever updates
\* crossed on the wire.
KeysInStep == \A p \in Nodes : ep[p].error # "decryption_failed"

Upto(n) == [i \in 1..n |-> i]

\* What an endpoint received is a prefix of what its peer submitted: no chunk
\* is lost, repeated or reordered by an interrupted and repeated call.
StreamIntegrity ==
    \A p \in Nodes : LET n == Len(ep[p].got)
                     IN  n <= ep[Peer(p)].next /\ ep[p].got = Upto(n)

\* Between calls every submitted chunk is received, on the wire or waiting in
\* the corked buffer, exactly once: nothing is dropped on the way.
NothingDropped ==
    \A p \in Nodes :
        (ep[p].call = "none" /\ ~ep[p].ended /\ ep[Peer(p)].error = "none") =>
            LET e        == ep[p]
                data     == {i \in 1..Len(e.wire) : e.wire[i].type = "data"}
                received == Len(ep[Peer(p)].got) + Len(ep[Peer(p)].rbuf)
                sent     == e.next - Len(e.presend)
            IN  /\ {e.wire[i].body : i \in data} = (received + 1)..sent
                /\ \A i, j \in data : e.wire[i].body = e.wire[j].body => i = j
                /\ received <= sent
                /\ e.presend = [i \in 1..Len(e.presend) |-> sent + i]

\* An endpoint that reads the end of the stream has got all that the peer sent,
\* also what an interrupted call had left behind: a transport that ends early
\* is not mistaken for that.
EofComplete == \A p \in Nodes : ep[p].eof => ep[p].got \o ep[p].rbuf = Upto(ep[Peer(p)].next)

\* A closed endpoint has sent its close_notify, which the peer reads unless the
\* transport or its session came to an end.
ByeAnnounced ==
    \A p \in Nodes :
        ep[p].closed => \/ \E i \in 1..Len(ep[p].wire) : ep[p].wire[i].type = "alert"
                        \/ ep[Peer(p)].eof \/ ep[Peer(p)].error # "none"
                        \/ ep[p].ended

\* A key update the peer asked for is performed before the next application
\* record is encrypted.
UpdateBeforeData == \A p \in Nodes : ~ep[p].skipped
=============================================================================
