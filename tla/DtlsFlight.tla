----------------------------- MODULE DtlsFlight -----------------------------
(***************************************************************************)
(* The flights of a DTLS 1.2 handshake over a network that loses, delays    *)
(* and reorders records: _dtls_transmit, _dtls_wait_and_retransmit and the  *)
(* asynchronous last flight (lib/dtls.c, lib/dtls.h), driven by the order   *)
(* of messages of handshake_client and handshake_server and by what the     *)
(* record layer does with a handshake record that it did not expect.        *)
(*                                                                          *)
(* A handshake is a sequence of flights, the odd ones sent by the client.   *)
(* The position of an endpoint is <<f, i>>: it receives message i of flight *)
(* f, or, in a flight of its own, has queued the flight (i = 1) or not (0). *)
(***************************************************************************)
EXTENDS Naturals, Sequences, FiniteSets

CONSTANTS Modes,        \* the handshakes and applications, see Mode
          MaxCcs        \* bound on the ChangeCipherSpec records buffered

Kinds == {"full", "ticket", "resumed"}

\* nonblock: GNUTLS_NONBLOCK; expires: async_term may pass while the peer
\* still needs the last flight.
Mode == [kind : Kinds, nonblock : BOOLEAN, expires : BOOLEAN]

ASSUME FlightAssumption == Modes \subseteq Mode /\ MaxCcs \in Nat

VARIABLES mode,         \* how this behaviour runs
          pos,          \* position of each endpoint in the handshake
          sendbuf,      \* flights in handshake_send_buffer
          flight_init, last_flight,
          elapsed,      \* TIMER_WINDOW has passed since last_retransmit
          inside,       \* inside _dtls_transmit called to retransmit
          ccs,          \* ChangeCipherSpec records in record_buffer
          hbuf,         \* handshake_recv_buffer
          net           \* records on their way, by receiver

vars == <<mode, pos, sendbuf, flight_init, last_flight, elapsed, inside, ccs, hbuf, net>>

Ends == {"client", "server"}
Peer(p) == IF p = "client" THEN "server" ELSE "client"

Handshake ==
    [full    |-> << <<"CH">>, <<"SH", "SHD">>, <<"CKE", "CCS", "FIN">>, <<"CCS", "FIN">> >>,
     ticket  |-> << <<"CH">>, <<"SH", "SHD">>, <<"CKE", "CCS", "FIN">>, <<"NST", "CCS", "FIN">> >>,
     resumed |-> << <<"CH">>, <<"SH", "CCS", "FIN">>, <<"CCS", "FIN">> >>]

Flights == Handshake[mode.kind]
Last    == Len(Flights)

Sender(f) == IF f % 2 = 1 THEN "client" ELSE "server"

\* _dtls_is_async: the sender of the last flight never gets an answer to it.
IsAsync(p) == p = Sender(Last)

Type(m)  == IF m = <<0, 0>> THEN "DATA" ELSE Flights[m[1]][m[2]]
Epoch(m) == IF Type(m) \in {"FIN", "DATA"} THEN 1 ELSE 0

Messages(fs) == UNION {{<<f, i>> : i \in 1..Len(Flights[f])} : f \in fs}

Done(p)     == pos[p][1] > Last
Sending(p)  == ~Done(p) /\ Sender(pos[p][1]) = p
Awaiting(p) == ~Done(p) /\ Sender(pos[p][1]) # p

\* The read epoch moves with the ChangeCipherSpec that was processed.
ReadEpoch(p) == IF Done(p) \/ (Awaiting(p) /\ Type(pos[p]) = "FIN") THEN 1 ELSE 0

\* The first position of flight f for p.
Enter(p, f) == IF f <= Last /\ Sender(f) = p THEN <<f, 0>> ELSE <<f, 1>>

Advance(p) == LET f == pos[p][1]
                  i == pos[p][2]
              IN  IF i < Len(Flights[f]) THEN <<f, i + 1>> ELSE Enter(p, f + 1)

Init == /\ mode \in Modes
        /\ pos = [p \in Ends |-> IF p = "client" THEN <<1, 0>> ELSE <<1, 1>>]
        /\ sendbuf = [p \in Ends |-> {}]
        /\ flight_init = [p \in Ends |-> FALSE]
        /\ last_flight = [p \in Ends |-> FALSE]
        /\ elapsed = [p \in Ends |-> FALSE]
        /\ inside = [p \in Ends |-> FALSE]
        /\ ccs = [p \in Ends |-> 0]
        /\ hbuf = [p \in Ends |-> {}]
        /\ net = [p \in Ends |-> {}]

-----------------------------------------------------------------------------
(* The body of the loop of _dtls_transmit.                                  *)

Due(p) == ~flight_init[p] \/ elapsed[p]

\* Everything in the send buffer goes out if it is time for it.  Whether this
\* is the last flight is decided when it is sent first.
Transmit(p) ==
    IF Due(p)
    THEN /\ net' = [net EXCEPT ![Peer(p)] = @ \cup Messages(sendbuf[p])]
         /\ elapsed' = [elapsed EXCEPT ![p] = FALSE]
         /\ flight_init' = [flight_init EXCEPT ![p] = TRUE]
         /\ last_flight' = IF flight_init[p] THEN last_flight
                           ELSE [last_flight EXCEPT ![p] = \E m \in Messages(sendbuf[p]) : Type(m) = "FIN"]
    ELSE UNCHANGED <<net, elapsed, flight_init, last_flight>>

\* Mutant: the messages of the flight stay in the buffer.
ResetKeepsBuffer(p) == /\ flight_init' = [flight_init EXCEPT ![p] = FALSE]
                       /\ UNCHANGED sendbuf

\* _dtls_reset_hsk_state.
Reset(p) == /\ flight_init' = [flight_init EXCEPT ![p] = FALSE]
            /\ sendbuf' = [sendbuf EXCEPT ![p] = {}]

\* _gnutls_recv_in_buffers and _gnutls_parse_record_buffered_msgs of record m
\* when a handshake record is expected.
Dropped(p, m) == Epoch(m) # ReadEpoch(p)

Fresh(p, m) == m[1] > pos[p][1] \/ (m[1] = pos[p][1] /\ m[2] >= pos[p][2])

CcsAfter(p, m)  == IF ~Dropped(p, m) /\ Type(m) = "CCS" THEN ccs[p] + 1 ELSE ccs[p]

\* Mutant: records that are no handshake messages are parsed as such.
HbufAfterAny(p, m) == IF ~Dropped(p, m) /\ Fresh(p, m) THEN hbuf[p] \cup {m} ELSE hbuf[p]

HbufAfter(p, m) == IF ~Dropped(p, m) /\ Type(m) \notin {"CCS", "DATA"} /\ Fresh(p, m)
                   THEN hbuf[p] \cup {m} ELSE hbuf[p]

Buffer(p, m) == /\ ccs' = [ccs EXCEPT ![p] = CcsAfter(p, m)]
                /\ hbuf' = [hbuf EXCEPT ![p] = HbufAfter(p, m)]

Arrives(p, m) == /\ m \in net[p]
                 /\ Type(m) = "CCS" => ccs[p] < MaxCcs

Take(p, m) == net' = [net EXCEPT ![p] = @ \ {m}]

-----------------------------------------------------------------------------
(* Sending a flight and waiting for the answer to it.                       *)

\* The messages of the flight are cached by _gnutls_handshake_io_cache_int.
StartFlight(p) ==
    /\ Sending(p) /\ pos[p][2] = 0
    /\ sendbuf' = [sendbuf EXCEPT ![p] = @ \cup {pos[p][1]}]
    /\ pos' = [pos EXCEPT ![p] = <<pos[p][1], 1>>]
    /\ UNCHANGED <<mode, flight_init, last_flight, elapsed, inside, ccs, hbuf, net>>

\* _gnutls_handshake_io_write_flush: after the last flight _dtls_transmit
\* returns at once.
SendFlight(p) ==
    /\ Sending(p) /\ pos[p][2] = 1
    /\ Due(p)
    /\ Transmit(p)
    /\ pos' = IF last_flight'[p] THEN [pos EXCEPT ![p] = Enter(p, pos[p][1] + 1)] ELSE pos
    /\ UNCHANGED <<mode, sendbuf, inside, ccs, hbuf>>

\* A record of the answer ends the flight; other records are dropped or kept.
RecvAck(p, m) ==
    /\ Sending(p) /\ pos[p][2] = 1
    /\ flight_init[p]
    /\ Arrives(p, m) /\ Take(p, m) /\ Buffer(p, m)
    /\ IF hbuf'[p] # {} /\ ~Dropped(p, m)
       THEN Reset(p) /\ pos' = [pos EXCEPT ![p] = Enter(p, pos[p][1] + 1)]
       ELSE UNCHANGED <<flight_init, sendbuf, pos>>
    /\ UNCHANGED <<mode, last_flight, elapsed, inside>>

-----------------------------------------------------------------------------
(* Receiving.                                                               *)

\* The messages of the last flight are received with
\* _dtls_wait_and_retransmit, unless the record buffer holds something.
Waits(p) == /\ pos[p][1] = Last
            /\ Type(pos[p]) = "NST" \/ ccs[p] = 0

InBuffers(p) == IF Type(pos[p]) = "CCS" THEN ccs[p] > 0 ELSE pos[p] \in hbuf[p]

\* Moving on.  _dtls_async_timer_init: whoever receives the last flight is
\* done with it and releases its own; the sender keeps it.
MoveOn(p) == /\ pos' = [pos EXCEPT ![p] = Advance(p)]
             /\ IF pos'[p][1] > Last THEN Reset(p) ELSE UNCHANGED <<flight_init, sendbuf>>

\* The expected message is taken from the buffers; whoever waits does so only
\* after some datagram has arrived.
Consume(p) ==
    /\ Awaiting(p) /\ ~inside[p]
    /\ InBuffers(p)
    /\ Waits(p) => net[p] # {}
    /\ MoveOn(p)
    /\ ccs' = IF Type(pos[p]) = "CCS" THEN [ccs EXCEPT ![p] = @ - 1] ELSE ccs
    /\ hbuf' = [hbuf EXCEPT ![p] = @ \ {pos[p]}]
    /\ UNCHANGED <<mode, last_flight, elapsed, inside, net>>

\* It is received: a handshake record that comes instead of the
\* ChangeCipherSpec is lost, other records are kept.
RecvExpected(p, m) ==
    /\ Awaiting(p) /\ ~inside[p]
    /\ ~InBuffers(p)
    /\ Arrives(p, m) /\ Take(p, m)
    /\ IF m = pos[p]
       THEN MoveOn(p) /\ UNCHANGED <<ccs, hbuf>>
       ELSE /\ UNCHANGED <<pos, flight_init, sendbuf>>
            /\ IF Type(pos[p]) = "CCS" THEN UNCHANGED <<ccs, hbuf>> ELSE Buffer(p, m)
    /\ UNCHANGED <<mode, last_flight, elapsed, inside>>

\* Mutant: the retransmission ends the flight.
WaitRetransmitEnds(p) ==
    /\ Awaiting(p) /\ Waits(p)
    /\ ~mode.nonblock
    /\ Due(p)
    /\ net' = [net EXCEPT ![Peer(p)] = @ \cup Messages(sendbuf[p])]
    /\ Reset(p)
    /\ UNCHANGED <<mode, pos, inside, ccs, hbuf, elapsed, last_flight>>

\* _dtls_wait_and_retransmit sees no datagram.  With a blocking transport the
\* flight is sent again ...
WaitRetransmit(p) ==
    /\ Awaiting(p) /\ Waits(p)
    /\ ~mode.nonblock
    /\ Due(p)
    /\ Transmit(p)
    /\ UNCHANGED <<mode, pos, sendbuf, inside, ccs, hbuf>>

\* ... with a non-blocking one _dtls_transmit looks for a datagram again.
WaitEnter(p) ==
    /\ Awaiting(p) /\ Waits(p)
    /\ mode.nonblock
    /\ ~inside[p]
    /\ inside' = [inside EXCEPT ![p] = TRUE]
    /\ UNCHANGED <<mode, pos, sendbuf, flight_init, last_flight, elapsed, ccs, hbuf, net>>

\* It finds none and retransmits if it is time to.  Without last_flight it
\* then looks once more.
WaitNone(p) ==
    /\ inside[p]
    /\ Transmit(p)
    /\ \/ inside' = [inside EXCEPT ![p] = FALSE]
       \/ Due(p) /\ ~last_flight'[p] /\ UNCHANGED inside
    /\ UNCHANGED <<mode, pos, sendbuf, ccs, hbuf>>

\* It finds one: an expected handshake message ends the flight.
WaitSees(p, m) ==
    /\ inside[p] /\ flight_init[p]
    /\ Arrives(p, m) /\ Buffer(p, m) /\ Take(p, m)
    /\ IF hbuf'[p] # {} /\ ~Dropped(p, m)
       THEN Reset(p)
       ELSE UNCHANGED <<flight_init, sendbuf>>
    /\ inside' = [inside EXCEPT ![p] = ~Dropped(p, m) /\ hbuf'[p] = {}]
    /\ UNCHANGED <<mode, pos, last_flight, elapsed>>

-----------------------------------------------------------------------------
(* After the handshake.                                                     *)

\* Mutant: any record of the new epoch is taken for the answer.
RecvDoneReleases(p, m) ==
    /\ Done(p)
    /\ m \in net[p] /\ Take(p, m)
    /\ IF Epoch(m) = 1 THEN Reset(p) ELSE UNCHANGED <<flight_init, sendbuf>>
    /\ UNCHANGED <<mode, pos, last_flight, elapsed, inside, ccs, hbuf>>

\* Mutant: a repeated Finished is ignored.
RecvDoneIgnores(p, m) ==
    /\ Done(p)
    /\ m \in net[p] /\ Take(p, m)
    /\ IF Type(m) = "DATA" THEN Reset(p) ELSE UNCHANGED <<flight_init, sendbuf>>
    /\ UNCHANGED <<mode, pos, last_flight, elapsed, inside, ccs, hbuf>>

\* gnutls_record_recv: a repeated Finished asks for the last flight again,
\* application data shows that the peer has it.
RecvDone(p, m) ==
    /\ Done(p)
    /\ m \in net[p]
    /\ IF IsAsync(p) /\ sendbuf[p] # {} /\ Type(m) = "FIN" /\ Due(p)
       THEN /\ net' = [net EXCEPT ![p] = @ \ {m}, ![Peer(p)] = @ \cup Messages(sendbuf[p])]
            /\ elapsed' = [elapsed EXCEPT ![p] = FALSE]
            /\ UNCHANGED <<flight_init, sendbuf>>
       ELSE /\ Take(p, m)
            /\ IF Type(m) = "DATA" THEN Reset(p) ELSE UNCHANGED <<flight_init, sendbuf>>
            /\ UNCHANGED elapsed
    /\ UNCHANGED <<mode, pos, last_flight, inside, ccs, hbuf>>

\* The endpoint that received the last flight sends application data.
SendData(p) ==
    /\ Done(p) /\ ~IsAsync(p)
    /\ net' = [net EXCEPT ![Peer(p)] = @ \cup {<<0, 0>>}]
    /\ UNCHANGED <<mode, pos, sendbuf, flight_init, last_flight, elapsed, inside, ccs, hbuf>>

\* _dtls_async_timer_check: a minute later the last flight is dropped.
AsyncExpire(p) ==
    /\ mode.expires
    /\ Done(p) /\ IsAsync(p) /\ sendbuf[p] # {}
    /\ Reset(p)
    /\ UNCHANGED <<mode, pos, last_flight, elapsed, inside, ccs, hbuf, net>>

\* Time and the network.
Elapse(p) == /\ ~elapsed[p]
             /\ elapsed' = [elapsed EXCEPT ![p] = TRUE]
             /\ UNCHANGED <<mode, pos, sendbuf, flight_init, last_flight, inside, ccs, hbuf, net>>

Lose(p, m) == /\ m \in net[p]
              /\ Take(p, m)
              /\ UNCHANGED <<mode, pos, sendbuf, flight_init, last_flight, elapsed, inside, ccs, hbuf>>

Recv(p, m) == RecvAck(p, m) \/ RecvExpected(p, m) \/ WaitSees(p, m) \/ RecvDone(p, m)

Call(p) == \/ StartFlight(p) \/ SendFlight(p)
           \/ WaitRetransmit(p) \/ WaitEnter(p) \/ WaitNone(p)

Next == \E p \in Ends :
            \/ Call(p) \/ Consume(p)
            \/ SendData(p) \/ AsyncExpire(p) \/ Elapse(p)
            \/ \E m \in net[p] : Recv(p, m) \/ Lose(p, m)

\* The records that bring p forward.
Useful(p, m) == \/ Sending(p) /\ Type(m) # "CCS" /\ Fresh(p, m) /\ ~Dropped(p, m)
                \/ Awaiting(p) /\ m = pos[p]
                \/ Done(p) /\ Type(m) = "FIN"

\* Applications repeat a call that returned GNUTLS_E_AGAIN, timers expire, and
\* the network does not lose a record for ever that is sent for ever.
Fairness == \A p \in Ends :
                /\ WF_vars(Call(p)) /\ WF_vars(Elapse(p))
                /\ SF_vars(Consume(p) \/ \E m \in net[p] : Useful(p, m) /\ Recv(p, m))

Spec == Init /\ [][Next]_vars /\ Fairness

-----------------------------------------------------------------------------
\* Positions, buffers and the network stay in range.
TypeOK == /\ mode \in Modes
          /\ \A p \in Ends :
                /\ pos[p] \in (1..(Last + 1)) \X (0..3)
                /\ sendbuf[p] \subseteq {f \in 1..Last : Sender(f) = p}
                /\ ccs[p] \in 0..MaxCcs
                /\ hbuf[p] \subseteq {m \in Messages(1..Last) : Type(m) # "CCS"}
                /\ net[p] \subseteq Messages(1..Last) \cup {<<0, 0>>}

\* A flight is queued only after the previous one was released: old messages
\* never go out again together with new ones.
FlightsNotMixed == \A p \in Ends : Cardinality(sendbuf[p]) <= 1

\* The sender of the last flight keeps it until the peer has completed the
\* handshake, unless a minute passes.
LastFlightKept ==
    ~mode.expires => \A p \in Ends : Done(p) /\ sendbuf[p] = {} => Done(Peer(p))

\* An endpoint waits for the last flight although it can no longer bring the
\* peer to repeat it: its own flight is gone, or a spare ChangeCipherSpec in
\* the record buffer keeps it from waiting with _dtls_wait_and_retransmit.
Abandoned(p) == /\ Awaiting(p) /\ pos[p][1] = Last
                /\ sendbuf[p] = {} \/ (Type(pos[p]) = "FIN" /\ ccs[p] > 0)

\* A blocking endpoint keeps its flight, and its timer, until it has all of
\* the last one.
FlightHeldWhileWaiting ==
    ~mode.nonblock /\ mode.kind # "ticket" => \A p \in Ends : ~Abandoned(p)

\* Both endpoints complete the handshake, whatever records are lost ...
Completes == ~mode.expires => <>(\A p \in Ends : Done(p))

\* ... or one ends up abandoned: there is no other way to stall.
CompletesOrAbandoned ==
    ~mode.expires => <>((\A p \in Ends : Done(p)) \/ \E p \in Ends : Abandoned(p))
=============================================================================
