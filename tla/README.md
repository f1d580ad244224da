# A TLA+ model of the GnuTLS session layer

GnuTLS implements TLS and DTLS. This project models the part of `lib/` where
the order of events matters: what a session keeps between two calls of its
application, between two datagrams, and between two endpoints. Cryptography is
abstract (a record carries the generation or epoch of its key), and so are
certificates, extensions and the contents of messages.

## Inventory

| Component | State it keeps | Operations | Hard because | Correct when |
|---|---|---|---|---|
| Anti-replay window (`dtls-sw.c`, DTLS tail of `_gnutls_recv_in_buffers`) | next expected number, 64-bit bitmap, per epoch | check a record, reset | records are repeated and reordered; shifts at the width of the word | no record passes twice, none is refused without reason |
| Epoch table (`constate.c`, `constate.h`) | 4 slots, `epoch_min/read/write/next`, usage counts | setup, cipher suite, dup, set keys, bump, gc, refcounts | 16-bit wrap-around; collection at any time; queued messages refer to epochs by number | a number always means the same keys, and keys in use stay |
| Sending, key update and closing (`record.c`, `tls13/key_update.c`) | `rsend_state`, `record_send_buffer`, `record_presend_buffer`, `record_key_update_buffer`, `STATE150`, `BYE_STATE`, `read_eof`, `may_not_read/write` | send, cork, uncork, key update, receive, bye | calls interrupted by EAGAIN are repeated; requests of the peer come in between; the transport ends | keys of both sides stay in step; data arrives once and in order; requested updates happen; the end of the stream is not mistaken |
| DTLS flights (`dtls.c`, `dtls.h`, waits in `handshake.c`, `ext/session_ticket.c`) | `handshake_send_buffer`, `flight_init`, `last_flight`, timers, `async_term` | transmit, wait, retransmit, asynchronous last flight | loss, reordering, timeouts, datagrams between two checks | the handshake completes; the last flight is kept while needed |
| Reassembly (`buffers.c`, `transmit_message`) | `handshake_recv_buffer` (6 entries), `hsk_read_seq` | parse, merge, sort, discard replays, deliver | overlapping fragments in any order | messages are delivered whole, once, in order |
| Record layer, reading (`record.c`, `alert.c`) | `recv_state`, `record_buffer`, `early_data_recv_buffer` | recv, alerts | recv may run a handshake, a re-authentication or a retransmission; rejected early data is skipped | nothing is delivered in the wrong state, nothing but rejected early data is skipped |
| TLS 1.2 handshake (`handshake.c`) | `STATE`, `FINAL_STATE`, `recv_state`, `handshake_hash_buffer`, `hsk_flags` | `handshake_client`, `handshake_server`, resumption, tickets, false start | every step may be interrupted and is resumed by `AGAIN(STATE)` | each message is sent and hashed once; both sides end with the same keys |
| TLS 1.3 handshake (`handshake-tls13.c`, `tls13/`) | the same, four kinds of keys in the epoch table, `ap_rms`, `post_handshake_hash_buffer` | the two state machines, hello retry, early data, early start, `_gnutls13_recv_async_handshake`, `gnutls_reauth`, `gnutls_session_ticket_send` | the two directions change keys at different messages; messages wait in a queue over a change; data is sent before the handshake ends | keys change at the right message; every handshake completes; tickets are bound to the right secret |
| Tickets (`ext/session_ticket.c`, `tls13/session_ticket.c`, `ext/pre_shared_key.c`, `db.c`) | creation time, lifetime, arrival time, time of the first handshake | issue, receive, offer, accept, refuse | resumed sessions issue tickets again; delays | a session ends with its lifetime, and not earlier |
| Ticket keys and anti-replay (`stek.c`, `tls13/anti_replay.c`) | key with a time step, start of the recording; the database is the application's | rotate, encrypt, decrypt, check | rotation between issue and use, and in one session but not yet in another; repeated hellos across recordings; two units of time | a ticket is refused for a known reason only; early data in time, and again only when the recording has forgotten it |
| The rest | | parsing, crypto backends, X.509, PKCS #11, priority strings, tools, bindings | data rather than control | unit and interoperability tests |

The components call each other as follows. The application calls
`gnutls_handshake`, `gnutls_record_send` and `gnutls_record_recv`. The handshake
queues messages (`_gnutls_handshake_io_cache_int`), which holds the epoch they
will be encrypted in; a flush encrypts them with the record layer (TLS) or hands
the flight to `_dtls_transmit` (DTLS), which keeps it until the peer answers.
Received records pass the window, are decrypted with the parameters of the read
epoch, and go to the record buffer or to the handshake buffer; a record that
nobody expected can trigger a retransmission, a key update or a rehandshake. A
session is used by one thread at a time, so one API call is atomic with respect
to its own session. The concurrency is that of two endpoints, of the network
between them, and of an application that makes other calls before it repeats an
interrupted one.

## Modules

| Module | Models | State and actions |
|---|---|---|
| `ReplayFilter` | what anti-replay promises | the set of accepted records; `Accept`, `Reject`, `NextEpoch` |
| `DtlsWindow` | `_dtls_record_check`, `_dtls_reset_window` and the code around them in `_gnutls_recv_in_buffers` | the bitmap as the set of its one bits; one operator per branch of the check, `RecvAccepted`, `RecvDropped`, `NewReadEpoch` |
| `Epochs` | `constate.c` | the slots as a function, an epoch's life as a stage; one action per function |
| `KeyUpdate` | two TLS 1.3 endpoints after the handshake, up to `gnutls_bye` or the end of the transport | a session record per endpoint; one action per API call, with every number of queued records the transport may take |
| `Handshake` | a client and a server in `gnutls_handshake`, `gnutls_reauth` and `gnutls_session_ticket_send`, with data before and after | the cases of each engine as a sequence of steps, `STATE` as the position in it; an action per kind of step (skip, compute, change cipher spec, send, transmit, receive) and per call of the application |
| `Tickets` | server sessions that share a ticket key and an anti-replay context, clients, a clock and a network that repeats hellos | a record per session, sets of tickets and hellos; an action per handler |
| `DtlsFlight` | two DTLS 1.2 endpoints during the handshake | position in the handshake, send buffer, record and handshake buffers, the network; one action per loop body of `_dtls_transmit` and per way of receiving |
| `DtlsReassembly` | the DTLS branch of the handshake buffers | entries with the interval they claim and the bytes they hold; `Parse` per fragment, `GetLastPacket` |
| `HandshakeScript` | no code of its own: the inductive invariants of the proofs about `Handshake`, in a module that TLC can check too | definitions only |
| `MC*` | instances for TLC | constants only; `MCRecordLayer` puts `DtlsWindow` and `Epochs` side by side |
| `RecordLayer_proofs` (of `DtlsWindow` and `Epochs`), `DtlsReassembly_proofs`, `Tickets_proofs`, `KeyUpdate_proofs`, `DtlsFlight_proofs`, `Handshake_proofs`, `HandshakeScript_proofs`, `HandshakeStream_proofs` | proofs checked by TLAPS | see below |

`PROJECT.json` maps each definition to the lines it translates. Definitions whose
comment starts with "Mutant" are deliberate faults: they show that a property
would notice such a fault in the code, and are part of no specification.

Points of the translation that are easy to miss:

* `DtlsWindow`: position *i* of the bitmap stands for record `sw_next - 2 - i`.
  The window of a new epoch is empty: `_dtls_reset_window` clears only
  `dtls_sw_have_recv`, but every epoch has parameters of its own, allocated with zeros.
  `_gnutls_uint48pp` carries through five bytes, so it fails at 2^40 (`Wrap`) and
  the session becomes invalid there.
* `Epochs`: operations may come in any order in which they succeed, a superset of
  the orders the handshakes use. `gnutls_handshake` also clears the send buffer of
  a finished TLS handshake without dropping usage counts; the buffer was flushed
  before, so that step is not an action.
* `KeyUpdate`: a chunk of application data is one record. `update_keys` replaces
  both directions' parameters but derives only one new key; the model keeps the
  generation of each key. An error of the library is fatal and stops the endpoint.
  `gnutls_bye` may follow an interrupted `gnutls_record_send` that the application
  gave up, but not an interrupted key update, which the documentation obliges it to
  repeat. What a repeated send returns is `record_send_buffer_user_size`
  (`record.c:490`), the size of its data unless a KeyUpdate was left over, which only
  the use excluded by `NoCorkedRekey` leads to. An endpoint whose transport ended makes no further calls; its peer reads
  what was not lost and then sees the end.
* `Handshake`: a message is its name, and a key is its stage together with the
  transcript and the pre-shared key it is derived from, so equal keys mean equal
  handshakes. Messages wait in `handshake_send_buffer` with their epoch and are
  encrypted when they are flushed; encrypted records wait in `record_send_buffer`
  until the transport takes them. `_gnutls_send_change_cipher_spec` of TLS 1.3 and
  the ticket of `STATE115` are not repeated after `GNUTLS_E_AGAIN`: what is left of
  them goes out with the next write. The read of a message that is optional
  (HelloRetryRequest, CertificateRequest) keeps the one that came instead. A mode
  fixes what the parsing of extensions would decide: version, groups, tickets,
  early data, certificates. The outcome of checking certificates and key exchanges
  is success. Early data is one record of `size` bytes, at most `max_early_data_size`
  as `gnutls_record_send_early_data` makes sure (`record.c:2072`). The server counts
  accepted early data as it was sent, but refused early data as it came, with the
  `Expansion` of its encryption (`record.c:1441`); both count from zero, so that
  `early_data_received` need not be kept. Refused early data that exceeds the limit
  this way (`Overrun`) is the one case in which a handshake of two endpoints in a mode of
  the run `handshake` fails, with `GNUTLS_E_UNEXPECTED_PACKET`, here `early_data_size`:
  `NoFatal` and `Completes` say that it is the only one. With the default limit of 16384
  bytes a client that sends them all meets it whenever its early data is refused.
* `Tickets`: time is in ticks, several to a second, because the ages of hellos are
  in milliseconds and everything else in seconds. A key is the number of the period
  it is derived from, or `Underived` before the first rotation of its session
  (`_gnutls_initialize_session_ticket_key_rotation` does not derive one). The
  obfuscated age is the age itself. Hellos stay in the network for ever. The
  database is the application's; it does what that of `gnutls-serv` does
  (`anti_replay_db_add` in `src/serv.c`, an entry counts while `now < expire`), but is
  never too small. Tickets fit the extended master secret and the server name of the
  session they are offered to (`db.c:310-320` is left out).
* `DtlsFlight`: time is one bit per endpoint (a retransmission is due or not). A
  ChangeCipherSpec moves the read epoch, and records of another epoch are dropped,
  so a Finished that overtakes it is lost. The total timeout
  (`handshake_timeout_ms`), which ends any handshake that does not complete, is
  left out: the question is whether the handshake needs it.
* `DtlsReassembly`: entries are found by handshake type, as in
  `merge_handshake_packet`. A fragment that extends the interval to the left may
  shorten it on the right (the `MIN` of `buffers.c:1050`). A flight has at most
  `MAX_HANDSHAKE_MSGS` messages, as the comment on that constant has it
  (`gnutls_int.h:397`); SupplementalData, which would be a seventh, is left out. A
  replayed message needs an entry before it is recognised, so one that arrives while
  a flight of exactly `MAX_HANDSHAKE_MSGS` messages fills the buffer is refused with
  `GNUTLS_E_TOO_MANY_HANDSHAKE_PACKETS`, which is fatal: `RoomForFlight` says that
  nothing else is. A record holds one fragment, and the message that is returned is
  the one the handshake expects; the limit on the records of one datagram that are
  read in a row (`GNUTLS_E_INT_CHECK_AGAIN`) is left out: the others are read by the
  next call.

## Runs

| Run | Instance and bounds | Checks |
|---|---|---|
| `record_layer` | 3-bit window, sequence numbers 0..7, 2 epochs, `Wrap` 7; 4 slots, 6 epoch numbers, one queued message per epoch; the two share no state and one moves at a time | no replay; bitmap exact; implements `ReplayFilter`; slots aligned; read and write epochs ready; queued epochs held; collection harmless |
| `key_update` | 4 chunks, 2 updates per key, three application profiles; 2 chunks for two of them with closing and an ending transport | keys in step; stream intact; nothing dropped; updates before data; end of stream complete; closing announced |
| `key_update_retry`, `key_update_cork` | 4 chunks, the profile in question | two documented promises that the code breaks |
| `flight` | full, ticket and resumed handshakes, blocking and non-blocking, with and without expiry of the last flight, at most 2 spare ChangeCipherSpecs | flights not mixed; last flight kept; own flight held; handshake completes or is abandoned in one of two ways |
| `flight_race`, `flight_ticket` | one mode each | the two ways to be abandoned are reached |
| `handshake` | every mode that completes (TLS 1.2 and 1.3, hello retry, resumption, early data, certificates, early and false start, tickets, re-authentication) or whose refused early data overruns the limit, 2 data records per endpoint, one re-authentication and one late ticket, a limit of 2 for early data and an expansion of 1 | types and epoch slots; no fatal error but for the overrun; same keys and transcripts; tickets bound to one secret; data intact; messages under way in sequence; handshakes and re-authentications complete |
| `handshake_hrr_early` | early data with a HelloRetryRequest | a documented refusal that the code does not reach |
| `tickets` | one session object opened again and again, 4 ticks of half a second across the end of a rotation period, lifetime 1 s, window 1.5 s, one ticket at a time, 2 hellos | lifetimes; exactly when tickets are refused; when early data is accepted again |
| `tickets_shared_key` | the same | a documented promise about shared keys that the code breaks |
| `reassembly` | six messages in three flights, the second as large as the buffer, three MTUs, 3 entries | intervals held; messages whole; room for the flight being read; all delivered |

Why the bounds suffice. The window is wider than one bit and the sequence
numbers exceed it on both sides, so jumps below, at and above the width and
records at both ends of the window occur; two epochs give one reset. The epoch
numbers wrap around after six while the table holds four. Two key updates in
each direction cross on the wire; four chunks cover a send before, during and
after an update, and a corked one. Two spare ChangeCipherSpecs are enough to keep
one when the first is consumed, and more act alike. Closing profiles re-key after
one record, so that two chunks cover an update before and after the interrupted
one. In `handshake` the data of a mode is finite by itself; two data records suffice
for one before and one after a change of keys. The modes left out of `Possible` have
no counterpart in the code (early data without a ticket) or repeat what another mode
shows (a re-authentication after a resumed handshake). `tickets` starts one tick
before the first rotation after `Boot`, in a period that has a predecessor with a
derived key, and lets sessions be opened before it (`Earlier`), so that tickets of
keys underived, derived and previous meet sessions of each kind; a lifetime is two
ticks, so that tickets expire within the bound. The window is not a whole number of
seconds, so that entries expire before it is over, and shorter than the bound, so that
recordings end. The messages for reassembly have up to five fragments, and the MTUs are such that fragments overlap, touch
and contain each other; a flight that fills the buffer follows one whose message may
be replayed, so that the fatal refusal of a replay is reached. Early data of one byte
stays within its limit and early data of two does not.

`CHECK_DEADLOCK FALSE` is set where the system really stops: a session whose
sequence numbers ran out, applications that have sent all their data, a finished
handshake, a fatal error, the end of the bounded clock.

### Fairness

`DtlsFlight` assumes that an application repeats a call that returned
`GNUTLS_E_AGAIN`, that time passes, and that the network does not lose for ever a
record that is sent again and again (strong fairness of receiving the records
that bring an endpoint forward). The first is what the documentation asks of the
application; the others are the assumptions under which retransmission is meant
to work. `DtlsReassembly` assumes that each fragment of a flight keeps arriving,
which is what retransmission provides. `Handshake` assumes that each application
repeats its call until the handshake is over and then reads (weak fairness of
`Progress`), as the documentation asks; nothing obliges it to write, to
re-authenticate or to send tickets. The stream loses nothing. The other modules
state no liveness.

### Findings

1. `key_update_retry`: `gnutls_record_send` returns `GNUTLS_E_AGAIN` with the
   encrypted record in `record_send_buffer`; the application receives, and finds
   a key update request; it repeats the send. The state is now
   `RECORD_SEND_KEY_UPDATE_1`, so the data is copied and sent again after the
   update: the peer receives it twice.
2. `key_update_cork`: a request sets `RECORD_SEND_KEY_UPDATE_1`;
   `gnutls_record_cork` overwrites it. The corked data is sent under the old key,
   and the update the peer asked for does not happen.
3. `flight_race`: in non-blocking mode the client looks for a datagram in
   `_dtls_wait_and_retransmit` and again in `_dtls_transmit`. One that arrives in
   between is parsed there, and `end_flight` clears the client's own flight. The
   message is in `handshake_recv_buffer`, but the client reads it only after
   another datagram has arrived, and has nothing left to provoke one with.
4. `flight_ticket`: a client waiting for NewSessionTicket buffers a
   ChangeCipherSpec per transmission of the last flight. The one left over makes
   `gnutls_record_check_pending` non-zero, so `recv_handshake_final` does not wait
   with retransmission for the Finished; if that was lost, nobody retransmits.

5. `handshake_hrr_early`: the first ClientHello announces early data and the
   server, which allows it, sets `HSK_EARLY_DATA_ACCEPTED`; its groups do not fit
   and HelloRetryRequest follows. `early_data.c` means to refuse the early data of
   the second ClientHello, but only avoids to set the flag again. That hello is a
   plaintext record while accepted early data is expected, and the server fails with
   `GNUTLS_E_DECRYPTION_FAILED`.
6. `tickets_shared_key`: the manual (`doc/cha-gtls-app.texi:1899`) says that processes
   with the same master key and time have the same ticket keys. A session uses the
   initial key in the period in which it is opened and a derived one after its first
   rotation (`stek.c:321`), so the sessions opened in a period and those opened before
   it refuse each other's tickets, young as they are.

Two more places where code and manual part are described by properties that hold:
`AcceptedAgain` says when the early data of a repeated hello is accepted again, by the
check that starts a new recording or after its entry expired early (the manual,
`doc/cha-gtls-app.texi:994-997`, says that a duplicate is rejected, with a recording
limited to a time window), and `Completes` that early data within the advertised limit
may end the handshake when it is refused.

In 3 and 4 the handshake ends with the total timeout, although both endpoints
and the network work. `Abandoned` in `DtlsFlight` describes these two situations,
and `CompletesOrAbandoned` shows that there is no third one.

## Proofs

`RecordLayer_proofs`, the window (every window size of at least 2, every number of epochs
and sequence numbers). The inductive invariant `WindowInv` is `WindowTypeOK /\ NoReplay
/\ WindowExact /\ FreshEpochs`. `NoReplay` alone is not inductive: an accepted record
was not accepted before because the bitmap says so, which needs `WindowExact`;
that in turn must hold when an epoch starts, which needs `FreshEpochs`. From
`WindowInv` follow `NoReplay`, `WindowExact`, `WindowTypeOK`, and step by step the
refinement `WindowSpec => ImplementsFilter` with `seen` mapped to the records accepted
and `top` to `sw_next`.

`RecordLayer_proofs`, the epoch table (every number of slots, every modulus greater than
it). The invariant is the conjunction of `TypeOK`, `SlotsAligned`, `ActiveReady` and
`QueuedHeld`. Six of the actions rewrite one slot, which lemma `PutIInv` treats
once; `Gc` is lemma `GcIInv`, which rests on the first slot kept existing (the read
epoch is ready, so it is kept) and on the arithmetic of the shifted index.
`GcKeepsLive` follows from the same facts.

`DtlsReassembly_proofs` (all messages, flights, MTUs of at least two bytes and
sizes of the buffer). `IInv` adds two facts to the properties. `EntrySound`: an
entry claims a proper interval and holds bytes of its own message only; with
`IntervalHeld` it makes a complete entry equal to the message, so `DeliveredWhole`
follows. `EntryFlight`: an entry belongs to the flight being read; with one entry
per message it gives an injection from the buffer into the messages of that
flight. A message of the flight that has no entry therefore finds one free, and a buffer
that is full holds exactly that flight, which is `RoomForFlight`. It stays
true because replayed messages are discarded in the same call that buffered them.
`MergedFacts` has the case analysis on how a fragment and an interval overlap.

`Tickets_proofs` (any number of sessions, any lifetime, period and number of hellos,
any window, no bound on time). The properties speak of `seen`, what
the last step did, so each is proved for a step that receives a hello from `IInv` in
the state before (lemmas `SeenStep` and `SeenFields`). `IInv` is `TypeOK` and three
facts. `Tracked`: the time in a ticket is that of the full handshake it goes back to,
its key is that of the period in which it was made or underived, and a hello's age is
at most what has passed since the ticket was made; with it `NoLateResumption` is the
check of `db.c`, and `RefusedExactly` follows from a period being three lifetimes, so
that a ticket young enough is of this period or the one before. `Distinct`: hellos
have different identifiers. `Recording`: an entry lasts for the window in whole seconds
from the time it was made, belongs to the current recording or an earlier one, and the
tickets of hellos recorded earlier are older than the current one. `AcceptedAgain` needs
both halves: within a recording the entry must have expired, which lemma `WindowPassed`
turns into ticks, and a hello of an earlier recording only passes the check on its
ticket's time if the check finds the recording over and starts a new one itself.
`DivShift`, `DivDef` and `TStep` are the arithmetic.

`KeyUpdate_proofs` (any number of chunks and updates, every set of profiles). `TypeOK`
and `ByeAnnounced` hold in every profile. The second needs `ByeInv`: from the moment
the alert is encrypted it is on the wire or in `record_send_buffer`, and `BYE_STATE`
tells which: `BYE_STATE1` finds the buffer in use, `BYE_STATE2` and a closed session
find it empty. `UpdateBeforeData` needs `UpdInv`: as long as a request is outstanding
`rsend_state` is `RECORD_SEND_KEY_UPDATE_1`, and an update that is already half sent
is one the application itself asked for. Only `gnutls_record_cork` overwrites that
state, so the theorem has the hypothesis `NoCorkedRequests`, the complement of finding 2.

The second half of the module is about the stream. `KeyInv` says how the generations of the keys
run along the path from writer to reader: the records on the wire and then those in
`record_send_buffer` form a chain that starts at the reader's generation, goes up by
one at each key update message and ends at the writer's (`Chain`), and a message that
was interrupted is completed by the call that started it (`Resumable`). `KeysInStep`
is the head of that chain. `StreamInv` does the same for the data: the chunks
received, buffered by the reader, on the wire, in `record_send_buffer`, held back by
an update (`record_key_update_buffer`) and corked are, in this order, 1, 2, 3, ... up
to the last one submitted (`Ordered`, `Complete`), and what is left over from an
interrupted call is known from the call (`Leftover`). `StreamIntegrity`,
`NothingDropped` and `EofComplete` follow. The hypotheses are about how a session is
used, and TLC shows that they cannot be dropped: `NoCorkedRekey` excludes an automatic
re-key in a corked session over a transport that blocks: `gnutls_record_uncork`, when
interrupted in the key update, restores the corked state, its repetition sends the rest
of the message as if it were the data, and the write key is never replaced. `SafeUse`
excludes an automatic re-key in a corked session altogether (the re-key takes the session
out of the corked state, and the next chunk overtakes the corked ones) and requests of
the peer over a transport that blocks, which is finding 1.

`DtlsFlight_proofs` (every set of modes, any number of spare ChangeCipherSpecs). None
of the four invariants is inductive: whether a flight may be released depends on how
far the peer is, which an endpoint knows only from the records it got. `Inv` has a part
per endpoint and a part for the pair. `Local` lists the four places an endpoint can be
in (done, sending, receiving, receiving the last flight) with what is then in
`handshake_send_buffer` and in `flight_init`, `last_flight` and `inside`. `Knows` says
what follows from a record: whoever holds or has processed part of one of the two
flights with a Finished knows that its sender has left that flight behind, since
`_dtls_transmit` does not wait after such a flight. So application data means that the
peer is done, which makes the release in `gnutls_record_recv` safe
(`LastFlightKept`), and a ChangeCipherSpec can only reach the receiver of the last
flight after its own last one, where the read epoch makes it drop a second one
(`FlightHeldWhileWaiting`). `Step` states what one step of an endpoint has to keep,
`StepKeeps` that this suffices, and there is a lemma per action. The invariant was
first checked with TLC over all twelve modes.

`Handshake_proofs` (every set of modes and any number of data records, the modes in
which the handshake fails included). `KeysAgree` speaks of two endpoints that are
through; what makes it true happens when the Finished messages are read, so the
invariant `IInv` (in `HandshakeScript`) follows the messages. `Local` is about one endpoint: where it is in its
engine (`Control`), which epochs then exist, are read and written and under what kind
of key (`EpochsOK`), how the transcript is related to the prefix the application keys
depend on and to the resumption secret (`TranscriptOK`), and that each message it has
queued or sent is still true of it (`ItemsOK`): a Finished carries the transcript its
sender has behind it (`FinishedOK`), EncryptedExtensions say whether early data is
accepted, a ticket is bound to the server's secret (`Told`). The last only holds because
some things do not change any more once a message has told them: `Frozen` lists them,
and `NoCross` what an endpoint cannot reach without a word from the peer. `Pair` relates
the two endpoints: whoever has read the last Finished has the transcript of its sender,
a TLS 1.3 client beyond the server's Finished has the server's prefix, and both agree
on early data. For `ResumptionAgree` an early start is the hard case: the server binds a
ticket to a Finished it has not read; the client's transcript is then the foreseen one
because a client that was not asked for a certificate adds nothing but EndOfEarlyData
and its Finished (`Answer`), and the request, had there been one, would be in the prefix
both share.

There is a lemma per kind of step (`PlainGood`, `DoGood`, `CcsGood`, `SendGood`,
`RecvGood`, `AppRecvGood`, ...), each saying that the endpoint that acts keeps `Local`,
undoes nothing that is frozen, and reaches only what its peer confirms (`Confirmed`);
`OneStep` and `TwoStep` put the endpoints together. Moving on, at the end of an engine
too, where `_gnutls_epoch_gc` and `_gnutls_epoch_bump` run, is treated once (`Advanced`).
TLC checked `IInv` over all modes of `Mode` with one data record per endpoint (375784
states) before it was proved.

`HandshakeScript_proofs` and `HandshakeStream_proofs` (any number of data records, every set
of modes; one argument in two files). `NoFatal` and `StreamIntegrity` need more than what each
message says: a reader fails unless the next record is exactly the one its step
expects, under the key it reads with, and whether it is depends on all records between
the two endpoints: on the wire, in `record_send_buffer` and in `handshake_send_buffer`.
The invariant `FollowsScript` therefore writes the handshake down as a script. The
messages of both endpoints are numbered in the order of the transcript, 1 to 17 for the
initial handshake and 101 to 104 for a re-authentication; which numbers occur (`Sends`)
depends on the mode alone. 100 stands for what has no place of its own, data and the
tickets of TLS 1.3. The position of an endpoint in its engine is its place (`Place`), which
says up to which number it has sent and read (`SaidAt`, `HeardAt`). Then

* `HereOK`: an endpoint has not failed and has the keys, flags, secrets, transcript and
  queue of its place (`Stands`), or those after the handshake (`Rested`);
* `Flow`: the records one endpoint has sent or queued and the other has not read are,
  each under the key and with the contents its number says (`Items`), the numbers
  between the two places: in order, none missing and none twice (`Line`). The records
  the reader may pass over, change cipher specs of TLS 1.3 and early data, are under way
  at most until the reader is beyond the point where it would accept them (`Pending`);
* `DataOK`: what an application has read and what is under way to it are, in this order,
  all that the other has written, the early data first if it was accepted.

The key of the next record is then the key of the reader's place, which is `NoFatal`, and
`StreamIntegrity` is a part of `DataOK`. A table says for each place what the engine does
there (`SkipAt`, `SpeakAt`, `HearAt`, `CcsAt`, ...), and lemmas show that the steps of
`Handshake` are those of the table. A step forward then is one of few kinds: it adds
nothing, adds the next number at the writer's end, encrypts or transmits what was queued
(which changes nothing in `Unread`), or takes a number off at the reader's end. Each kind
has its lemma, and one more for each call of the application.

`Sound(mode)` is the hypothesis of the four theorems. It leaves out early data that is
accepted and then met by a HelloRetryRequest (finding 5) and early data without an
accepted ticket (`handshake.c:1995`), and early data that is refused and overruns its
limit (`Overrun`): in all three the handshake does fail. It also leaves out TLS
1.2 with a HelloRetryRequest or early data, which do not exist. Otherwise every mode of
`Mode` is sound, those that the run `handshake` leaves out as repetitions included. TLC
checked `FollowsScript` on all 384 sound modes (of one size of early data) with one data record (255348
states) before it was proved. The run `handshake` keeps checking `InSequence`, the part
about the order of the messages under way (`Line`), with two; the transcripts in the
rest make the whole formula too large for TLC to collect coverage with.

The assumptions are those of the ASSUMEs in the modules; TLC evaluates them on each
instance.

Every safety property that a passing run checks is also proved, `NoFatal`,
`StreamIntegrity` and `InSequence` for sound modes; that the server's error is the only
one in the modes of `Overrun` is model-checked. `EarlyFresh` is only proved: within the
bounds of the run a ticket ends before the window does. Only model-checked are also
the liveness properties (liveness under fairness is out of the prover's reach):
`CompletesOrAbandoned`, `AllDelivered`, `Completes` and `ReauthCompletes`.

## Plan

Done: the anti-replay window, the epoch table, key update and closing, DTLS flights,
reassembly, both handshakes, tickets with their keys and the filter for early data,
with the proofs above. Left, in this order:

1. That each endpoint of `Handshake` drives the epoch table as `Epochs` allows, as a
   refinement.
2. A session that updates its keys during an early start, and a second
   re-authentication (two hazards without a property).
3. The retransmission timer (`UPDATE_TIMER`) as a small arithmetic module;
   HelloVerifyRequest and rehandshakes in the DTLS modules.

## Not modelled

X.509, ASN.1, OCSP and PKCS parsing, cryptographic backends and accelerated code,
PKCS #11 and TPM, priority strings and algorithm tables, the parsing and formatting
of hello extensions, session packing, heartbeat, the command line tools and the
bindings: their behaviour lies in data that small instances do not reach, or in
single messages without interleaving. They are the bulk of the repository, several
hundred thousand lines against some ten thousand of the session layer, and a model of
them would repeat their text. `GNUTLS_NO_REPLAY_PROTECTION`, SSL 2 hellos and DTLS 0.9
are left out of the parts that are modelled; memory allocation is assumed to succeed.
Early data on a ticket that the server refuses is excluded from the run `handshake`:
the client of this version goes on with the secret of the refused ticket
(`handshake.c:1995`), and the handshake fails.
