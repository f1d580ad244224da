------------------------------ MODULE Tickets ------------------------------
(***************************************************************************)
(* Session tickets over time: the rotation of the key that encrypts them    *)
(* (stek.c), their lifetime (tls13/session_ticket.c, ext/session_ticket.c,  *)
(* db.c, ext/pre_shared_key.c), and the filter for repeated early data      *)
(* (tls13/anti_replay.c).                                                   *)
(*                                                                          *)
(* A server runs sessions that share the master key and the anti-replay     *)
(* context.  Clients keep the tickets they receive and offer them in        *)
(* hellos, which the network may deliver late and more than once.  Time is  *)
(* counted in ticks, gnutls_gettime, of which TPS make a second,            *)
(* gnutls_time.                                                             *)
(***************************************************************************)
EXTENDS Naturals, Sequences, FiniteSets

CONSTANTS Sessions,     \* the server's session objects
          TPS,          \* ticks per second
          Expire,       \* expire_time, in seconds
          Window,       \* the anti-replay window, in ticks
          Boot,         \* the time at which the server starts, in ticks
          MaxTime, MaxTickets, MaxHellos        \* bounds

ASSUME TicketsAssumption ==
    /\ TPS \in Nat \ {0} /\ Expire \in Nat \ {0} /\ Window \in Nat /\ Boot \in Nat
    /\ MaxTime \in Nat /\ MaxTickets \in Nat /\ MaxHellos \in Nat

VARIABLES now,          \* the time
          srv,          \* srv[s]: the state of session s
          mail,         \* tickets on their way
          held,         \* tickets that clients hold
          hellos,       \* the hellos that were sent; any may arrive, any number of times
          start,        \* start_time: the beginning of the recording
          db,           \* entries of the recorded hellos, expired ones too
          seen          \* history: how the hello of this step fared

vars == <<now, srv, mail, held, hellos, start, db, seen>>

STEK_ROTATION_PERIOD_PRODUCT == 3

Seconds(t) == t \div TPS

\* T: the number of the rotation period, the same for all sessions.
T(t) == Seconds(t) \div (Expire * STEK_ROTATION_PERIOD_PRODUCT)

\* The clock is past the first period, in which no key is derived.
ASSUME BootAssumption == T(Boot) > 0

Underived == 0          \* session_ticket_key before the first rotation

\* A session after gnutls_init; key is the period its key is derived from.
Fresh == [st |-> "new", last |-> 0, rotated |-> FALSE, key |-> Underived,
          vers |-> 13, resumed |-> FALSE, ts |-> 0, rts |-> 0, origin |-> 0]

\* outcome: what became of the ticket; mixed: of its key and that of the session
\* one is derived and the other not; age: seconds since the full handshake;
\* early: early data was accepted; delay: ticks since the hello was sent;
\* before: when and in which recordings it was accepted before; rec: the current
\* recording.
Nothing == [outcome |-> "none", mixed |-> FALSE, age |-> 0, early |-> FALSE, delay |-> 0,
            before |-> {}, rec |-> 0]

\* Sessions may have been opened in an earlier period of the key.
Earlier == [Fresh EXCEPT !.st = "enabled", !.last = T(Boot) - 1]

Init == /\ now = Boot
        /\ srv \in [Sessions -> {Fresh, Earlier}]
        /\ mail = {} /\ held = {} /\ hellos = {}
        /\ start = Boot /\ db = {}
        /\ seen = Nothing

-----------------------------------------------------------------------------
(* The ticket encryption key.                                               *)

\* Mutant: the key that is replaced is not remembered as the previous one.
RotateForgets(e) ==
    IF T(now) \in {0, e.last} THEN e
    ELSE [e EXCEPT !.last = T(now), !.key = T(now), !.rotated = FALSE]

\* rotate with totp_next: a new period brings a new key.
Rotate(e) ==
    IF T(now) \in {0, e.last} THEN e
    ELSE [e EXCEPT !.last = T(now), !.key = T(now), !.rotated = TRUE]

\* _gnutls_get_session_ticket_decryption_key after rotate: the current key, or
\* that of the period before (rotate_back_and_peek, totp_previous).
Opens(e, key) == \/ key = e.key
                 \/ e.rotated /\ e.last > 1 /\ key = e.last - 1

-----------------------------------------------------------------------------
(* Early data.                                                              *)

\* db_add_func, as gnutls-serv has it (anti_replay_db_add): an entry that exists
\* and has not expired is refused.
Recorded(key) == \E x \in db : x.key = key /\ Seconds(now) < x.exp

\* The recording that a check at this time belongs to.
Rollover == IF now - start > Window THEN now ELSE start

\* The hello arrived no later than expected (server_ticket_age is compared
\* with the age the client states).
InWindow(h) == (now - h.t.created) - h.age <= Window

\* The checks of _gnutls_anti_replay_check, in their order: those that end it
\* before the recording may be renewed, and those after.
Timely(h) == now - h.t.created >= h.age /\ h.t.created >= start

\* Mutant: the entry expires a second too early.
EntryShort(h) == [key |-> <<Rollover, h.id>>, exp |-> Seconds(now) + Window \div TPS - 1,
                  at |-> now]

\* The entry is kept for the window, both in whole seconds rounded down; at is
\* history.
Entry(h) == [key |-> <<Rollover, h.id>>, exp |-> Seconds(now) + Window \div TPS, at |-> now]

Replayed(h) == Recorded(Entry(h).key)

AcceptsEarly(h) == Timely(h) /\ InWindow(h) /\ ~Replayed(h)

\* _gnutls_anti_replay_check for hello h, called only for accepted tickets.
AntiReplay(h, called) ==
    /\ start' = IF called /\ Timely(h) THEN Rollover ELSE start
    /\ db' = IF called /\ AcceptsEarly(h) THEN db \cup {Entry(h)} ELSE db

-----------------------------------------------------------------------------
(* The server.                                                              *)

Put(s, e) == srv' = [srv EXCEPT ![s] = e]

\* gnutls_session_ticket_enable_server: the master key is stored, and last
\* tells that nothing has to be rotated in this period.
EnableServer(s) ==
    /\ srv[s].st = "new"
    /\ Put(s, [srv[s] EXCEPT !.st = "enabled", !.last = T(now), !.rotated = FALSE])
    /\ seen' = Nothing
    /\ UNCHANGED <<now, mail, held, hellos, start, db>>

\* read_client_hello takes the time of the session.
Hello(e, vers) == [e EXCEPT !.st = "hello", !.vers = vers, !.ts = Seconds(now),
                            !.origin = Seconds(now)]

\* A hello without a ticket.
FullHello(s, vers) ==
    /\ srv[s].st = "enabled"
    /\ Put(s, Hello(srv[s], vers))
    /\ seen' = Nothing
    /\ UNCHANGED <<now, mail, held, hellos, start, db>>

\* _gnutls_check_resumed_params, for a ticket that fits the extended master
\* secret and the server name of the session.
Expired(t) == Seconds(now) > t.ts + Expire \/ t.ts > Seconds(now)

\* server_recv_params: the age the client states is checked as well.
Stale(h) == h.t.vers = 13 /\ h.age \div TPS > h.t.life

\* session_ticket_recv_params and server_recv_params (pre_shared_key): the
\* ticket of hello h is opened, and checked if that was possible.
RecvHello(s, h) ==
    LET e == Rotate(Hello(srv[s], h.t.vers))
        ok == Opens(e, h.t.key) /\ ~Expired(h.t) /\ ~Stale(h)
    IN  /\ srv[s].st = "enabled"
        /\ Put(s, IF ok THEN [e EXCEPT !.resumed = TRUE, !.rts = h.t.ts, !.origin = h.t.origin]
                  ELSE e)
        /\ AntiReplay(h, ok /\ h.early)
        /\ seen' = [outcome |-> IF ok THEN "resumed" ELSE "refused",
                    mixed |-> (h.t.key = Underived) # (e.key = Underived),
                    age |-> Seconds(now) - h.t.origin,
                    early |-> ok /\ h.early /\ AcceptsEarly(h),
                    delay |-> now - h.sent,
                    before |-> {[rec |-> x.key[1], at |-> x.at] :
                                  x \in {y \in db : y.key[2] = h.id}},
                    rec |-> start']
        /\ UNCHANGED <<now, mail, held, hellos>>

\* Mutant: a resumed session takes its own time.
SessionTimeOwn(e) == e.ts

\* _gnutls_set_resumed_parameters.
SessionTime(e) == IF e.resumed THEN e.rts ELSE e.ts

\* generate_session_ticket and _gnutls_send_new_session_ticket: a TLS 1.3
\* ticket of a resumed session lasts as long as the first one.
Lifetime(e) == IF e.vers = 13 /\ e.resumed THEN SessionTime(e) + Expire - Seconds(now) ELSE Expire

Ticket(e) == [vers |-> e.vers, key |-> e.key, created |-> now, life |-> Lifetime(e),
              ts |-> SessionTime(e), origin |-> e.origin]

\* Mutant: a resumed session gives out tickets for ever.
DueAlways(e) == e.vers = 12 => e.st = "hello" /\ ~e.resumed

\* A ticket is due: in TLS 1.2 if none was accepted, in TLS 1.3 unless the
\* resumed session has come to its end.
Due(e) == IF e.vers = 12 THEN e.st = "hello" /\ ~e.resumed
          ELSE e.resumed => Seconds(now) < SessionTime(e) + Expire

\* The ticket at the end of the handshake, and gnutls_session_ticket_send.
SendTicket(s) ==
    LET e == Rotate(srv[s])
    IN  /\ srv[s].st \in {"hello", "done"}
        /\ Cardinality(mail) + Cardinality(held) < MaxTickets
        /\ Due(srv[s])
        /\ Put(s, [e EXCEPT !.st = "done", !.ts = SessionTime(e)])
        /\ mail' = mail \cup {Ticket(e)}
        /\ seen' = Nothing
        /\ UNCHANGED <<now, held, hellos, start, db>>

\* gnutls_deinit.
Close(s) ==
    /\ srv[s].st \in {"hello", "done"}
    /\ Put(s, Fresh)
    /\ seen' = Nothing
    /\ UNCHANGED <<now, mail, held, hellos, start, db>>

-----------------------------------------------------------------------------
(* Clients, the network and time.                                           *)

\* _gnutls13_recv_session_ticket notes the time of arrival.
RecvTicket(t) ==
    /\ t \in mail
    /\ mail' = mail \ {t}
    /\ held' = held \cup {[t |-> t, arrival |-> now]}
    /\ seen' = Nothing
    /\ UNCHANGED <<now, srv, hellos, start, db>>

\* A ticket is given up: for its age (client_send_params of pre_shared_key), or
\* by the application.
Drop(c) ==
    /\ c \in held
    /\ held' = held \ {c}
    /\ seen' = Nothing
    /\ UNCHANGED <<now, srv, mail, hellos, start, db>>

\* client_send_params: a ticket that is not too old is sent with its age; TLS 1.2
\* states and checks none.
ClientHello(c, early) ==
    /\ c \in held
    /\ Cardinality(hellos) < MaxHellos
    /\ c.t.vers = 13 => (now - c.arrival) \div TPS <= c.t.life
    /\ early => c.t.vers = 13
    /\ hellos' = hellos \cup {[t |-> c.t, age |-> now - c.arrival, sent |-> now,
                               id |-> Cardinality(hellos) + 1, early |-> early]}
    /\ seen' = Nothing
    /\ UNCHANGED <<now, srv, mail, held, start, db>>

Tick == /\ now < MaxTime
        /\ now' = now + 1
        /\ seen' = Nothing
        /\ UNCHANGED <<srv, mail, held, hellos, start, db>>

Next == \/ Tick
        \/ \E s \in Sessions :
              \/ EnableServer(s) \/ SendTicket(s) \/ Close(s)
              \/ \E vers \in {12, 13} : FullHello(s, vers)
              \/ \E h \in hellos : RecvHello(s, h)
        \/ \E t \in mail : RecvTicket(t)
        \/ \E c \in held : Drop(c) \/ \E early \in BOOLEAN : ClientHello(c, early)

Spec == Init /\ [][Next]_vars

-----------------------------------------------------------------------------
TicketType == [vers : {12, 13}, key : Nat, created : Nat, life : Nat, ts : Nat, origin : Nat]
HelloType == [t : TicketType, age : Nat, sent : Nat, id : Nat, early : BOOLEAN]
SessionType == [st : {"new", "enabled", "hello", "done"}, last : Nat, rotated : BOOLEAN,
                key : Nat, vers : {12, 13}, resumed : BOOLEAN, ts : Nat, rts : Nat,
                origin : Nat]

\* The state is well typed; a ticket's lifetime never becomes negative.
TypeOK ==
    /\ now \in Nat /\ start \in Nat
    /\ srv \in [Sessions -> SessionType]
    /\ mail \subseteq TicketType
    /\ held \subseteq [t : TicketType, arrival : Nat]
    /\ hellos \subseteq HelloType
    /\ db \subseteq [key : Nat \X Nat, exp : Nat, at : Nat]

\* However often a session is resumed and given a new ticket, no resumption
\* happens later than expire_time after the full handshake it goes back to.
NoLateResumption == seen.outcome = "resumed" => seen.age <= Expire

\* An honest client's ticket is refused for its age, or because one of the two
\* sessions, the one that issued it and the one that gets it, had its key
\* derived and the other had not; and then always.  Rotation from one period to
\* the next by itself makes no ticket unusable early, but the first rotation of
\* a session does: it starts with no key of the period it is opened in.
RefusedExactly ==
    seen.outcome # "none" => (seen.outcome = "refused" <=> seen.age > Expire \/ seen.mixed)

\* What doc/cha-gtls-app.texi:1899-1900 says: processes that share the master
\* key and the time have the same keys, so a ticket is refused for its age only.
SharedKeys == seen.outcome = "refused" => seen.age > Expire

\* Early data is accepted only within the window after the client sent it,
\* whatever the ticket's way to the client took.
EarlyFresh == seen.early => seen.delay <= Window

\* A hello that is delivered again has its early data accepted again in only two
\* ways: in the same recording after its entry expired, which is less than a
\* second before the window in whole seconds has passed; or by the check that
\* starts the next recording, never afterwards, when more than the window has
\* passed since the beginning of the recording that holds it.  Of a duplicate
\* doc/cha-gtls-app.texi:994-997 says "the server rejects early data"; these two
\* are what limiting the recording to a time window leaves open.
AcceptedAgain ==
    seen.early => \A x \in seen.before :
        IF x.rec = seen.rec THEN now - x.at > Window - (Window % TPS) - TPS
                            ELSE seen.rec = now /\ now > x.rec + Window
=============================================================================
