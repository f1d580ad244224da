------------------------- MODULE DtlsFlight_proofs -------------------------
(* Proofs about DtlsFlight, for every set of modes and every bound on the      *)
(* ChangeCipherSpec records: flights are not mixed, the last one is kept until *)
(* the peer has it, and a blocking endpoint keeps its own while it waits.      *)
EXTENDS DtlsFlight, FiniteSetTheorems, TLAPS

\* The two flights that end with a Finished; their senders do not wait for an
\* answer before they move on.
Final(f) == f >= Last - 1

\* Where an endpoint p may be, x, what it then has in handshake_send_buffer, s,
\* and its flags flight_init, last_flight and inside.  It is done,
AtEnd(p, x, s, init, last, in) ==
    /\ x = <<Last + 1, 1>> /\ ~in
    /\ s \subseteq (IF IsAsync(p) THEN {Last} ELSE {})

\* or sends a flight, and has to wait for the answer to one that is not final,
AtSend(p, x, s, init, last, in) ==
    /\ x[1] \in 1..Last /\ Sender(x[1]) = p /\ x[2] \in {0, 1} /\ ~in
    /\ s = IF x[2] = 0 THEN {} ELSE {x[1]}
    /\ init => x[2] = 1 /\ ~Final(x[1]) /\ ~last

\* or receives one, after its own was answered,
AtRecv(p, x, s, init, last, in) ==
    /\ x[1] \in 1..(Last - 1) /\ Sender(x[1]) # p /\ x[2] \in 1..Len(Flights[x[1]])
    /\ ~in /\ s = {} /\ ~init

\* or the last one, with its own still in the buffer.
AtLast(p, x, s, init, last, in) ==
    /\ x[1] = Last /\ Sender(Last) # p /\ x[2] \in 1..Len(Flights[Last])
    /\ s \subseteq {Last - 1}
    /\ ~mode.nonblock => s # {} /\ ~in

At(p, x, s, init, last, in) ==
    \/ AtEnd(p, x, s, init, last, in) \/ AtSend(p, x, s, init, last, in)
    \/ AtRecv(p, x, s, init, last, in) \/ AtLast(p, x, s, init, last, in)

Local(p) == At(p, pos[p], sendbuf[p], flight_init[p], last_flight[p], inside[p])

\* What it can know of its peer: whoever has, or had, part of a final flight
\* of the peer knows that the peer has left it behind.
Knows(p) ==
    /\ hbuf[p] \subseteq {m \in Messages(1..Last) : Type(m) # "CCS"}
    /\ net[p] \subseteq {m \in Messages(1..Last) : Sender(m[1]) = Peer(p)} \cup {<<0, 0>>}
    /\ <<0, 0>> \in net[p] => Done(Peer(p))
    /\ \A m \in hbuf[p] \cup net[p] : m # <<0, 0>> /\ Final(m[1]) => pos[Peer(p)][1] > m[1]
    /\ \A f \in {Last - 1, Last} :
          Sender(f) = Peer(p) /\ pos[p][1] > f => pos[Peer(p)][1] > f
    /\ ~mode.nonblock /\ mode.kind # "ticket" /\ ~IsAsync(p) => ccs[p] = 0

Pairs == Nat \X Nat

Typed == /\ mode \in Modes
         /\ pos \in [Ends -> Pairs] /\ sendbuf \in [Ends -> SUBSET Nat]
         /\ flight_init \in [Ends -> BOOLEAN] /\ last_flight \in [Ends -> BOOLEAN]
         /\ elapsed \in [Ends -> BOOLEAN] /\ inside \in [Ends -> BOOLEAN]
         /\ ccs \in [Ends -> 0..MaxCcs]
         /\ hbuf \in [Ends -> SUBSET Pairs] /\ net \in [Ends -> SUBSET Pairs]

Inv == /\ Typed
       /\ \A p \in Ends : Local(p) /\ Knows(p)
       /\ LastFlightKept

-----------------------------------------------------------------------------
(* The handshakes.                                                             *)

\* The flights alternate.
LEMMA Senders ==
    /\ Sender(1) = "client" /\ Sender(2) = "server" /\ Sender(3) = "client"
    /\ Sender(4) = "server"
BY DEF Sender

\* Only the last two flights have a ChangeCipherSpec and a Finished, and they
\* end with the Finished.
LEMMA FlightFacts ==
    ASSUME mode \in Modes
    PROVE  /\ Last \in {3, 4}
           /\ \A f \in 1..Last : Len(Flights[f]) \in 1..3
           /\ \A f \in 1..Last : \A i \in 1..Len(Flights[f]) :
                 /\ Flights[f][i] # "DATA"
                 /\ Flights[f][i] \in {"CCS", "FIN"} => Final(f)
                 /\ i = Len(Flights[f]) => Flights[f][i] # "CCS"
           /\ \A f \in {Last - 1, Last} : Flights[f][Len(Flights[f])] = "FIN"
           /\ mode.kind # "ticket" => /\ Len(Flights[Last]) = 2 /\ Flights[Last][1] = "CCS"
                                      /\ Flights[Last][2] = "FIN"
<1>1. mode.kind \in Kinds
  BY FlightAssumption DEF Mode
<1>2. CASE mode.kind = "full"
  <2>1. Flights = << <<"CH">>, <<"SH", "SHD">>, <<"CKE", "CCS", "FIN">>, <<"CCS", "FIN">> >>
    BY <1>2 DEF Flights, Handshake
  <2>2. Last = 4
    BY <2>1 DEF Last
  <2>3. Len(Flights[1]) = 1 /\ Flights[1][1] = "CH"
    BY <2>1
  <2>4. Len(Flights[2]) = 2 /\ Flights[2][1] = "SH" /\ Flights[2][2] = "SHD"
    BY <2>1
  <2>5. /\ Len(Flights[3]) = 3 /\ Flights[3][1] = "CKE"
        /\ Flights[3][2] = "CCS" /\ Flights[3][3] = "FIN"
    BY <2>1
  <2>6. Len(Flights[4]) = 2 /\ Flights[4][1] = "CCS" /\ Flights[4][2] = "FIN"
    BY <2>1
  <2>7. \A f \in 1..4 : f \in {1, 2, 3, 4} /\ Len(Flights[f]) \in 1..3
    BY <2>3, <2>4, <2>5, <2>6
  <2>9. ASSUME NEW f \in 1..4, NEW i \in 1..Len(Flights[f])
        PROVE  /\ Flights[f][i] # "DATA"
               /\ Flights[f][i] \in {"CCS", "FIN"} => f >= 3
               /\ i = Len(Flights[f]) => Flights[f][i] # "CCS"
    <3>1. i \in {1, 2, 3} /\ i <= Len(Flights[f])
      <4> DEFINE l == Len(Flights[f])
      <4>1. l \in 1..3 /\ i \in 1..l
        BY <2>7
      <4> HIDE DEF l
      <4>2. i \in {1, 2, 3} /\ i <= l
        BY <4>1
      <4> QED
        BY <4>2 DEF l
    <3>2. CASE f = 1
      BY <2>3, <3>1, <3>2
    <3>3. CASE f = 2
      BY <2>4, <3>1, <3>3
    <3>4. CASE f = 3
      BY <2>5, <3>1, <3>4
    <3>5. CASE f = 4
      BY <2>6, <3>1, <3>5
    <3> QED
      BY <2>7, <3>2, <3>3, <3>4, <3>5
  <2>10. \A f : Final(f) <=> f >= 3
    BY <2>2 DEF Final
  <2>11. \A f \in {3, 4} : Flights[f][Len(Flights[f])] = "FIN"
    BY <2>5, <2>6
  <2> QED
    BY <2>2, <2>6, <2>7, <2>9, <2>10, <2>11
<1>3. CASE mode.kind = "ticket"
  <2>1. Flights = << <<"CH">>, <<"SH", "SHD">>, <<"CKE", "CCS", "FIN">>, <<"NST", "CCS", "FIN">> >>
    BY <1>3 DEF Flights, Handshake
  <2>2. Last = 4
    BY <2>1 DEF Last
  <2>3. Len(Flights[1]) = 1 /\ Flights[1][1] = "CH"
    BY <2>1
  <2>4. Len(Flights[2]) = 2 /\ Flights[2][1] = "SH" /\ Flights[2][2] = "SHD"
    BY <2>1
  <2>5. /\ Len(Flights[3]) = 3 /\ Flights[3][1] = "CKE"
        /\ Flights[3][2] = "CCS" /\ Flights[3][3] = "FIN"
    BY <2>1
  <2>6. /\ Len(Flights[4]) = 3 /\ Flights[4][1] = "NST"
        /\ Flights[4][2] = "CCS" /\ Flights[4][3] = "FIN"
    BY <2>1
  <2>7. \A f \in 1..4 : f \in {1, 2, 3, 4} /\ Len(Flights[f]) \in 1..3
    BY <2>3, <2>4, <2>5, <2>6
  <2>9. ASSUME NEW f \in 1..4, NEW i \in 1..Len(Flights[f])
        PROVE  /\ Flights[f][i] # "DATA"
               /\ Flights[f][i] \in {"CCS", "FIN"} => f >= 3
               /\ i = Len(Flights[f]) => Flights[f][i] # "CCS"
    <3>1. i \in {1, 2, 3} /\ i <= Len(Flights[f])
      <4> DEFINE l == Len(Flights[f])
      <4>1. l \in 1..3 /\ i \in 1..l
        BY <2>7
      <4> HIDE DEF l
      <4>2. i \in {1, 2, 3} /\ i <= l
        BY <4>1
      <4> QED
        BY <4>2 DEF l
    <3>2. CASE f = 1
      BY <2>3, <3>1, <3>2
    <3>3. CASE f = 2
      BY <2>4, <3>1, <3>3
    <3>4. CASE f = 3
      BY <2>5, <3>1, <3>4
    <3>5. CASE f = 4
      BY <2>6, <3>1, <3>5
    <3> QED
      BY <2>7, <3>2, <3>3, <3>4, <3>5
  <2>10. \A f : Final(f) <=> f >= 3
    BY <2>2 DEF Final
  <2>11. \A f \in {3, 4} : Flights[f][Len(Flights[f])] = "FIN"
    BY <2>5, <2>6
  <2> QED
    BY <1>3, <2>2, <2>6, <2>7, <2>9, <2>10, <2>11
<1>4. CASE mode.kind = "resumed"
  <2>1. Flights = << <<"CH">>, <<"SH", "CCS", "FIN">>, <<"CCS", "FIN">> >>
    BY <1>4 DEF Flights, Handshake
  <2>2. Last = 3
    BY <2>1 DEF Last
  <2>3. Len(Flights[1]) = 1 /\ Flights[1][1] = "CH"
    BY <2>1
  <2>4. /\ Len(Flights[2]) = 3 /\ Flights[2][1] = "SH"
        /\ Flights[2][2] = "CCS" /\ Flights[2][3] = "FIN"
    BY <2>1
  <2>5. Len(Flights[3]) = 2 /\ Flights[3][1] = "CCS" /\ Flights[3][2] = "FIN"
    BY <2>1
  <2>6. \A f \in 1..3 : f \in {1, 2, 3} /\ Len(Flights[f]) \in 1..3
    BY <2>3, <2>4, <2>5
  <2>8. ASSUME NEW f \in 1..3, NEW i \in 1..Len(Flights[f])
        PROVE  /\ Flights[f][i] # "DATA"
               /\ Flights[f][i] \in {"CCS", "FIN"} => f >= 2
               /\ i = Len(Flights[f]) => Flights[f][i] # "CCS"
    <3>1. i \in {1, 2, 3} /\ i <= Len(Flights[f])
      <4> DEFINE l == Len(Flights[f])
      <4>1. l \in 1..3 /\ i \in 1..l
        BY <2>6
      <4> HIDE DEF l
      <4>2. i \in {1, 2, 3} /\ i <= l
        BY <4>1
      <4> QED
        BY <4>2 DEF l
    <3>2. CASE f = 1
      BY <2>3, <3>1, <3>2
    <3>3. CASE f = 2
      BY <2>4, <3>1, <3>3
    <3>4. CASE f = 3
      BY <2>5, <3>1, <3>4
    <3> QED
      BY <2>6, <3>2, <3>3, <3>4
  <2>9. \A f : Final(f) <=> f >= 2
    BY <2>2 DEF Final
  <2>10. \A f \in {2, 3} : Flights[f][Len(Flights[f])] = "FIN"
    BY <2>4, <2>5
  <2> QED
    BY <2>2, <2>5, <2>6, <2>8, <2>9, <2>10
<1> QED
  BY <1>1, <1>2, <1>3, <1>4 DEF Kinds

\* The messages of flights.
LEMMA MessagesFacts ==
    ASSUME NEW fs, NEW m
    PROVE  m \in Messages(fs) <=> \E f \in fs : \E i \in 1..Len(Flights[f]) : m = <<f, i>>
BY DEF Messages

\* The two endpoints.
LEMMA PeerFacts ==
    ASSUME NEW p \in Ends
    PROVE  /\ Peer(p) \in Ends /\ Peer(p) # p /\ Peer(Peer(p)) = p
           /\ \A q \in Ends : q = p \/ q = Peer(p)
BY DEF Ends, Peer

\* A flight is sent by the one or the other, the next one by the other.
LEMMA SenderFacts ==
    ASSUME mode \in Modes, NEW f \in 1..Last
    PROVE  /\ Sender(f) \in Ends
           /\ f + 1 \in 1..Last => Sender(f + 1) = Peer(Sender(f))
<1>1. Last \in {3, 4}
  BY FlightFacts
<1>2. f \in {1, 2, 3, 4}
  BY <1>1
<1>3. f + 1 \in 1..Last => f # 4
  BY <1>1
<1> QED
  BY <1>2, <1>3, Senders DEF Ends, Peer

\* What depends on the kind of the handshake only.
LEMMA ModeSame ==
    ASSUME mode' = mode
    PROVE  /\ Flights' = Flights /\ Last' = Last
           /\ \A m : Type(m)' = Type(m)
           /\ \A fs : Messages(fs)' = Messages(fs)
           /\ \A f : Final(f)' <=> Final(f)
           /\ \A p : IsAsync(p)' <=> IsAsync(p)
<1>1. Flights' = Flights
  BY DEF Flights
<1>2. Last' = Last
  BY <1>1 DEF Last
<1> QED
  BY <1>1, <1>2 DEF Type, Messages, Final, IsAsync

-----------------------------------------------------------------------------
(* A step of p.                                                                *)

\* What a step of p leaves alone, and what it has to keep.
Step(p) ==
    LET q == Peer(p)
    IN  /\ mode' = mode /\ Typed'
        /\ pos'[q] = pos[q] /\ sendbuf'[q] = sendbuf[q] /\ flight_init'[q] = flight_init[q]
        /\ last_flight'[q] = last_flight[q] /\ inside'[q] = inside[q]
        /\ ccs'[q] = ccs[q] /\ hbuf'[q] = hbuf[q]
        /\ At(p, pos'[p], sendbuf'[p], flight_init'[p], last_flight'[p], inside'[p])
        /\ pos[p][1] <= pos'[p][1]
        /\ hbuf'[p] \subseteq hbuf[p] \cup {m \in net[p] : Type(m) \notin {"CCS", "DATA"}}
        /\ net'[p] \subseteq net[p]
        /\ \A m \in net'[q] : \/ m \in net[q]
                              \/ m = <<0, 0>> /\ Done(p)
                              \/ m \in Messages(sendbuf[p]) /\ (Final(m[1]) => pos'[p][1] > m[1])
        /\ \A f \in {Last - 1, Last} : Sender(f) = q /\ pos'[p][1] > f => pos[q][1] > f
        /\ ~mode.nonblock /\ mode.kind # "ticket" /\ ~IsAsync(p) => ccs'[p] = 0
        /\ ~mode.expires /\ pos'[p][1] > Last /\ sendbuf'[p] = {} => pos[q][1] > Last

\* An endpoint queues only flights of its own.
LEMMA OwnFlights ==
    ASSUME Inv, NEW p \in Ends
    PROVE  \A f \in sendbuf[p] : f \in 1..Last /\ Sender(f) = p
<1>1. Last \in {3, 4} /\ mode \in Modes
  BY FlightFacts DEF Inv, Typed
<1>2. Sender(Last) \in Ends /\ (Sender(Last) # p => Sender(Last - 1) = p)
  BY <1>1, PeerFacts, Senders DEF Ends
<1>3. Local(p)
  BY DEF Inv
<1> QED
  BY <1>1, <1>2, <1>3 DEF Local, At, AtEnd, AtSend, AtRecv, AtLast, IsAsync

\* The invariant is kept by any such step.
LEMMA StepKeeps ==
    ASSUME Inv, NEW p \in Ends, Step(p)
    PROVE  Inv'
<1> DEFINE q == Peer(p)
<1>1. q \in Ends /\ q # p /\ Peer(q) = p /\ \A r \in Ends : r = p \/ r = q
  BY PeerFacts
<1>2. mode' = mode /\ Typed'
  BY DEF Step
<1>3. /\ Flights' = Flights /\ Last' = Last /\ (\A m : Type(m)' = Type(m))
      /\ (\A fs : Messages(fs)' = Messages(fs)) /\ (\A f : Final(f)' <=> Final(f))
      /\ (\A r : IsAsync(r)' <=> IsAsync(r))
  BY <1>2, ModeSame
<1>4. Last \in {3, 4} /\ pos[p][1] \in Nat /\ pos'[p][1] \in Nat /\ pos[q][1] \in Nat
  BY <1>1, <1>2, FlightFacts DEF Inv, Typed, Pairs
<1>5. Local(p)'
  <2>1. At(p, pos'[p], sendbuf'[p], flight_init'[p], last_flight'[p], inside'[p])
    BY DEF Step
  <2> QED
    BY <1>2, <1>3, <2>1 DEF Local, At, AtEnd, AtSend, AtRecv, AtLast
<1>6. Local(q)'
  <2>1. At(q, pos'[q], sendbuf'[q], flight_init'[q], last_flight'[q], inside'[q])
    BY <1>1 DEF Step, Inv, Local
  <2> QED
    BY <1>2, <1>3, <2>1 DEF Local, At, AtEnd, AtSend, AtRecv, AtLast
<1>7. Knows(p)'
  <2>1. Knows(p)
    BY DEF Inv
  <2>2. hbuf'[p] \subseteq {m \in Messages(1..Last) : Type(m) # "CCS"}
    <3>1. \A m \in net[p] : Type(m) # "DATA" => m \in Messages(1..Last)
      BY <2>1 DEF Knows, Type
    <3> QED
      BY <2>1, <3>1 DEF Knows, Step
  <2>3. /\ net'[p] \subseteq {m \in Messages(1..Last) : Sender(m[1]) = q} \cup {<<0, 0>>}
        /\ <<0, 0>> \in net'[p] => pos'[q][1] > Last
    BY <2>1 DEF Knows, Step, Done
  <2>4. \A m \in hbuf'[p] \cup net'[p] : m # <<0, 0>> /\ Final(m[1]) => pos'[q][1] > m[1]
    BY <2>1 DEF Knows, Step
  <2>5. \A f \in {Last - 1, Last} : Sender(f) = q /\ pos'[p][1] > f => pos'[q][1] > f
    BY DEF Step
  <2>6. ~mode.nonblock /\ mode.kind # "ticket" /\ ~IsAsync(p) => ccs'[p] = 0
    BY DEF Step
  <2> QED
    BY <1>2, <1>3, <2>2, <2>3, <2>4, <2>5, <2>6 DEF Knows, Done
<1>8. Knows(q)'
  <2>1. Knows(q)
    BY <1>1 DEF Inv
  <2>2. hbuf'[q] \subseteq {m \in Messages(1..Last) : Type(m) # "CCS"}
    BY <2>1 DEF Knows, Step
  <2>3. ASSUME NEW m \in Messages(sendbuf[p])
        PROVE  m \in Messages(1..Last) /\ Sender(m[1]) = p /\ m # <<0, 0>>
    <3>1. PICK f \in sendbuf[p] : \E i \in 1..Len(Flights[f]) : m = <<f, i>>
      BY <2>3, MessagesFacts
    <3>2. f \in 1..Last /\ Sender(f) = p
      BY <3>1, OwnFlights
    <3>3. m[1] = f
      BY <3>1
    <3>4. m \in Messages(1..Last)
      BY <3>1, <3>2, MessagesFacts
    <3>5. f # 0
      BY <1>4, <3>2
    <3> QED
      BY <3>2, <3>3, <3>4, <3>5
  <2>4. \A m \in net'[q] : \/ m \in net[q]
                           \/ m = <<0, 0>> /\ Done(p)
                           \/ m \in Messages(sendbuf[p]) /\ (Final(m[1]) => pos'[p][1] > m[1])
    BY DEF Step
  <2>5. pos[p][1] <= pos'[p][1] /\ pos'[q] = pos[q] /\ ccs'[q] = ccs[q] /\ hbuf'[q] = hbuf[q]
    BY DEF Step
  <2>6. /\ net'[q] \subseteq {m \in Messages(1..Last) : Sender(m[1]) = p} \cup {<<0, 0>>}
        /\ <<0, 0>> \in net'[q] => pos'[p][1] > Last
    <3>1. <<0, 0>> \in net[q] \/ Done(p) => pos'[p][1] > Last
      BY <1>1, <1>4, <2>1, <2>5 DEF Knows, Done
    <3> QED
      BY <1>1, <2>1, <2>3, <2>4, <3>1 DEF Knows
  <2>7. ASSUME NEW m \in hbuf'[q] \cup net'[q], m # <<0, 0>>, Final(m[1])
        PROVE  pos'[p][1] > m[1]
    <3>1. CASE m \in hbuf[q] \cup net[q]
      <4>1. pos[p][1] > m[1] /\ m[1] \in Nat
        BY <1>1, <2>1, <2>7, <3>1 DEF Knows, Inv, Typed, Pairs
      <4> QED
        BY <1>4, <2>5, <4>1
    <3> QED
      BY <2>4, <2>5, <2>7, <3>1
  <2>8. \A f \in {Last - 1, Last} : Sender(f) = p /\ pos'[q][1] > f => pos'[p][1] > f
    BY <1>1, <1>4, <2>1, <2>5 DEF Knows
  <2>9. ~mode.nonblock /\ mode.kind # "ticket" /\ ~IsAsync(q) => ccs'[q] = 0
    BY <2>1, <2>5 DEF Knows
  <2> QED
    BY <1>1, <1>2, <1>3, <2>2, <2>6, <2>7, <2>8, <2>9 DEF Knows, Done
<1>9. LastFlightKept'
  <2>1. SUFFICES ASSUME ~mode.expires, NEW r \in Ends, pos'[r][1] > Last, sendbuf'[r] = {}
                 PROVE  pos'[Peer(r)][1] > Last
    BY <1>2, <1>3 DEF LastFlightKept, Done
  <2>2. CASE r = p
    BY <2>1, <2>2 DEF Step
  <2>3. CASE r = q
    <3>1. Done(q) /\ sendbuf[q] = {} /\ pos[p][1] <= pos'[p][1]
      BY <2>1, <2>3 DEF Step, Done
    <3>2. pos[p][1] > Last
      BY <1>1, <2>1, <3>1 DEF Inv, LastFlightKept, Done
    <3> QED
      BY <1>1, <1>4, <2>3, <3>1, <3>2
  <2> QED
    BY <1>1, <2>2, <2>3
<1> QED
  BY <1>1, <1>2, <1>5, <1>6, <1>7, <1>8, <1>9 DEF Inv

-----------------------------------------------------------------------------
(* The actions.                                                                *)

\* The types of what belongs to p.
LEMMA TypeFacts ==
    ASSUME Inv, NEW p \in Ends
    PROVE  /\ mode \in Modes /\ Last \in {3, 4} /\ MaxCcs \in Nat
           /\ pos[p] \in Pairs /\ pos[p][1] \in Nat /\ pos[p][2] \in Nat
           /\ pos[p] = <<pos[p][1], pos[p][2]>>
           /\ sendbuf[p] \subseteq Nat /\ ccs[p] \in 0..MaxCcs
           /\ hbuf[p] \subseteq Pairs /\ net[p] \subseteq Pairs
           /\ flight_init[p] \in BOOLEAN /\ last_flight[p] \in BOOLEAN /\ inside[p] \in BOOLEAN
<1>1. mode \in Modes /\ Last \in {3, 4} /\ MaxCcs \in Nat
  BY FlightFacts, FlightAssumption DEF Inv, Typed
<1>2. pos[p] \in Pairs
  BY DEF Inv, Typed
<1>3. pos[p][1] \in Nat /\ pos[p][2] \in Nat /\ pos[p] = <<pos[p][1], pos[p][2]>>
  BY <1>2 DEF Pairs
<1> QED
  BY <1>1, <1>2, <1>3 DEF Inv, Typed

\* The last two flights have different senders.
LEMMA LastSenders ==
    ASSUME Inv, NEW p \in Ends
    PROVE  /\ Sender(Last) \in Ends /\ Sender(Last - 1) \in Ends
           /\ Sender(Last) = p <=> Sender(Last - 1) # p
           /\ Sender(Last) # p <=> Sender(Last) = Peer(p)
<1>1. Last \in {3, 4}
  BY TypeFacts
<1> QED
  BY <1>1, Senders DEF Ends, Peer

\* The four places of an endpoint, by what the actions ask.
LEMMA Places ==
    ASSUME Inv, NEW p \in Ends
    PROVE  LET A(B(_, _, _, _, _, _)) ==
                   B(p, pos[p], sendbuf[p], flight_init[p], last_flight[p], inside[p])
           IN  /\ Done(p) => A(AtEnd)
               /\ Sending(p) => A(AtSend)
               /\ Awaiting(p) => A(AtRecv) \/ A(AtLast)
               /\ inside[p] => A(AtLast) /\ mode.nonblock
               /\ Done(p) => ~Sending(p) /\ ~Awaiting(p)
<1>1. Local(p) /\ Last \in {3, 4}
  BY TypeFacts DEF Inv
<1>2. AtEnd(p, pos[p], sendbuf[p], flight_init[p], last_flight[p], inside[p]) => Done(p)
  BY <1>1 DEF AtEnd, Done
<1>3. AtSend(p, pos[p], sendbuf[p], flight_init[p], last_flight[p], inside[p]) => Sending(p)
  BY <1>1 DEF AtSend, Done, Sending
<1>4. AtRecv(p, pos[p], sendbuf[p], flight_init[p], last_flight[p], inside[p])
      \/ AtLast(p, pos[p], sendbuf[p], flight_init[p], last_flight[p], inside[p]) => Awaiting(p)
  BY <1>1 DEF AtRecv, AtLast, Done, Awaiting
<1>5. Done(p) => ~Sending(p) /\ ~Awaiting(p)
  BY DEF Sending, Awaiting
<1>6. ~(Sending(p) /\ Awaiting(p))
  BY DEF Sending, Awaiting
<1>7. inside[p] => AtLast(p, pos[p], sendbuf[p], flight_init[p], last_flight[p], inside[p])
                   /\ mode.nonblock
  BY <1>1 DEF Local, At, AtEnd, AtSend, AtRecv, AtLast
<1> QED
  BY <1>1, <1>2, <1>3, <1>4, <1>5, <1>6, <1>7 DEF Local, At

\* Where an endpoint starts with the flight after f.
LEMMA EnterFacts ==
    ASSUME Inv, NEW p \in Ends, NEW f \in 1..Last
    PROVE  /\ f < Last /\ Sender(f) # p => Enter(p, f + 1) = <<f + 1, 0>>
           /\ f = Last \/ Sender(f) = p => Enter(p, f + 1) = <<f + 1, 1>>
<1>1. Last \in {3, 4} /\ mode \in Modes
  BY TypeFacts
<1>2. CASE f = Last
  BY <1>1, <1>2 DEF Enter
<1>3. CASE f < Last
  <2>1. f + 1 \in 1..Last /\ f + 1 <= Last
    BY <1>1, <1>3
  <2>2. Sender(f) \in Ends /\ Sender(f + 1) = Peer(Sender(f))
    BY <1>1, <2>1, SenderFacts
  <2>3. Sender(f + 1) = p <=> Sender(f) # p
    BY <2>2, PeerFacts
  <2> QED
    BY <1>1, <1>3, <2>1, <2>3 DEF Enter
<1> QED
  BY <1>1, <1>2, <1>3

\* A ChangeCipherSpec, or a Finished, belongs to a final flight of the peer.
LEMMA NetFacts ==
    ASSUME Inv, NEW p \in Ends, NEW m \in net[p], m # <<0, 0>>
    PROVE  /\ m[1] \in 1..Last /\ Sender(m[1]) = Peer(p)
           /\ m[2] \in 1..Len(Flights[m[1]]) /\ Type(m) = Flights[m[1]][m[2]]
           /\ Type(m) \in {"CCS", "FIN"} => Final(m[1])
           /\ Type(m) # "DATA"
<1>1. m \in Messages(1..Last) /\ Sender(m[1]) = Peer(p)
  BY DEF Inv, Knows
<1>2. PICK f \in 1..Last : \E i \in 1..Len(Flights[f]) : m = <<f, i>>
  BY <1>1 DEF Messages
<1>3. PICK i \in 1..Len(Flights[f]) : m = <<f, i>>
  BY <1>2
<1>4. m[1] = f /\ m[2] = i /\ Type(m) = Flights[f][i]
  BY <1>3 DEF Type
<1>5. Flights[f][i] # "DATA" /\ (Flights[f][i] \in {"CCS", "FIN"} => Final(f))
  BY FlightFacts, TypeFacts
<1> QED
  BY <1>1, <1>4, <1>5

\* Whoever does not send the last flight meets a ChangeCipherSpec of the peer
\* only after its own last flight.
LEMMA CcsLate ==
    ASSUME Inv, NEW p \in Ends, NEW m \in net[p], Type(m) = "CCS", ~IsAsync(p)
    PROVE  m[1] = Last /\ pos[p][1] >= Last
<1> DEFINE q == Peer(p)
<1>1. Last \in {3, 4} /\ pos[p][1] \in Nat /\ q \in Ends /\ Peer(q) = p /\ pos[q][1] \in Nat
  BY TypeFacts, PeerFacts
<1>2. m # <<0, 0>>
  BY DEF Type
<1>3. m[1] \in 1..Last /\ Sender(m[1]) = q /\ Final(m[1])
  BY <1>2, NetFacts
<1>4. Sender(Last - 1) = p /\ p # q
  BY LastSenders, PeerFacts DEF IsAsync
<1>5. m[1] = Last
  BY <1>1, <1>3, <1>4 DEF Final
<1>6. pos[q][1] > Last
  BY <1>2, <1>3, <1>5 DEF Inv, Knows
<1>7. pos[q][1] > Last - 1
  BY <1>1, <1>6
<1>8. pos[p][1] > Last - 1
  BY <1>1, <1>4, <1>7 DEF Inv, Knows
<1> QED
  BY <1>1, <1>5, <1>8

\* What the invariant says of p before the step.
LEMMA Known ==
    ASSUME Inv, NEW p \in Ends
    PROVE  LET q == Peer(p)
           IN  /\ \A f \in {Last - 1, Last} : Sender(f) = q /\ pos[p][1] > f => pos[q][1] > f
               /\ ~mode.nonblock /\ mode.kind # "ticket" /\ ~IsAsync(p) => ccs[p] = 0
               /\ ~mode.expires /\ pos[p][1] > Last /\ sendbuf[p] = {} => pos[q][1] > Last
BY DEF Inv, Knows, LastFlightKept, Done

\* The messages of a flight in the buffer.
LEMMA Sent ==
    ASSUME Inv, NEW p \in Ends, NEW m \in Messages(sendbuf[p])
    PROVE  m \in Pairs /\ m[1] \in sendbuf[p]
<1>1. PICK f \in sendbuf[p] : \E i \in 1..Len(Flights[f]) : m = <<f, i>>
  BY DEF Messages
<1>2. PICK i \in 1..Len(Flights[f]) : m = <<f, i>>
  BY <1>1
<1>3. f \in 1..Last
  BY OwnFlights
<1>4. Len(Flights[f]) \in 1..3
  BY <1>3, FlightFacts, TypeFacts
<1>5. f \in Nat /\ i \in Nat
  BY <1>4, TypeFacts
<1> QED
  BY <1>2, <1>5 DEF Pairs

\* The body of the loop of _dtls_transmit sends at most what is queued.
LEMMA TransmitFacts ==
    ASSUME Inv, NEW p \in Ends, Transmit(p)
    PROVE  LET q == Peer(p)
           IN  /\ flight_init' \in [Ends -> BOOLEAN] /\ last_flight' \in [Ends -> BOOLEAN]
               /\ elapsed' \in [Ends -> BOOLEAN] /\ net' \in [Ends -> SUBSET Pairs]
               /\ flight_init'[q] = flight_init[q] /\ last_flight'[q] = last_flight[q]
               /\ net'[p] = net[p] /\ net'[q] \subseteq net[q] \cup Messages(sendbuf[p])
<1> DEFINE q == Peer(p)
<1>1. q \in Ends /\ q # p
  BY PeerFacts
<1>2. Typed
  BY DEF Inv
<1>3. CASE ~Due(p)
  BY <1>1, <1>2, <1>3 DEF Typed, Transmit
<1>4. CASE Due(p)
  <2> DEFINE M == Messages(sendbuf[p])
             b == \E m \in Messages(sendbuf[p]) : Type(m) = "FIN"
  <2>1. M \subseteq Pairs
    BY Sent
  <2>2. /\ net' = [net EXCEPT ![q] = @ \cup M]
        /\ elapsed' = [elapsed EXCEPT ![p] = FALSE]
        /\ flight_init' = [flight_init EXCEPT ![p] = TRUE]
        /\ last_flight' = last_flight \/ last_flight' = [last_flight EXCEPT ![p] = b]
    BY <1>4 DEF Transmit
  <2>3. b \in BOOLEAN
    OBVIOUS
  <2> HIDE DEF M, b
  <2>4. /\ net' \in [Ends -> SUBSET Pairs] /\ net'[p] = net[p] /\ net'[q] = net[q] \cup M
    BY <1>1, <1>2, <2>1, <2>2 DEF Typed
  <2>5. last_flight' \in [Ends -> BOOLEAN] /\ last_flight'[q] = last_flight[q]
    BY <1>1, <1>2, <2>2, <2>3 DEF Typed
  <2>6. /\ elapsed' \in [Ends -> BOOLEAN] /\ flight_init' \in [Ends -> BOOLEAN]
        /\ flight_init'[q] = flight_init[q]
    BY <1>1, <1>2, <2>2 DEF Typed
  <2> QED
    BY <2>4, <2>5, <2>6 DEF M
<1> QED
  BY <1>3, <1>4

\* Releasing the flight.
LEMMA ResetFacts ==
    ASSUME Inv, NEW p \in Ends, Reset(p)
    PROVE  LET q == Peer(p)
           IN  /\ flight_init' \in [Ends -> BOOLEAN] /\ sendbuf' \in [Ends -> SUBSET Nat]
               /\ flight_init'[q] = flight_init[q] /\ sendbuf'[q] = sendbuf[q]
               /\ ~flight_init'[p] /\ sendbuf'[p] = {}
<1>1. Peer(p) \in Ends /\ Peer(p) # p
  BY PeerFacts
<1> QED
  BY <1>1 DEF Inv, Typed, Reset

\* Taking a record.
LEMMA TakeFacts ==
    ASSUME Inv, NEW p \in Ends, NEW m, Take(p, m)
    PROVE  /\ net' \in [Ends -> SUBSET Pairs]
           /\ net'[p] \subseteq net[p] /\ net'[Peer(p)] = net[Peer(p)]
<1>1. Peer(p) \in Ends /\ Peer(p) # p
  BY PeerFacts
<1> QED
  BY <1>1 DEF Inv, Typed, Take

\* Keeping one: only handshake messages enter handshake_recv_buffer, only a
\* ChangeCipherSpec of the read epoch the record buffer.
LEMMA BufferFacts ==
    ASSUME Inv, NEW p \in Ends, NEW m \in net[p], Arrives(p, m), Buffer(p, m)
    PROVE  LET q == Peer(p)
           IN  /\ ccs' \in [Ends -> 0..MaxCcs] /\ hbuf' \in [Ends -> SUBSET Pairs]
               /\ ccs'[q] = ccs[q] /\ hbuf'[q] = hbuf[q]
               /\ hbuf'[p] \subseteq hbuf[p] \cup {n \in net[p] : Type(n) \notin {"CCS", "DATA"}}
               /\ ccs'[p] = ccs[p] \/ (Type(m) = "CCS" /\ ~Dropped(p, m))
<1> DEFINE q == Peer(p)
           c == CcsAfter(p, m)
           h == HbufAfter(p, m)
<1>1. q \in Ends /\ q # p /\ m \in Pairs
  BY PeerFacts, TypeFacts
<1>2. /\ c \in 0..MaxCcs
      /\ c = ccs[p] \/ (Type(m) = "CCS" /\ ~Dropped(p, m))
  BY TypeFacts DEF CcsAfter, Arrives
<1>3. h \subseteq hbuf[p] \cup {n \in net[p] : Type(n) \notin {"CCS", "DATA"}} /\ h \subseteq Pairs
  BY <1>1, TypeFacts DEF HbufAfter
<1>4. ccs' = [ccs EXCEPT ![p] = c] /\ hbuf' = [hbuf EXCEPT ![p] = h]
  BY DEF Buffer
<1> HIDE DEF c, h
<1>5. ccs' \in [Ends -> 0..MaxCcs] /\ ccs'[p] = c /\ ccs'[q] = ccs[q]
  BY <1>1, <1>2, <1>4 DEF Inv, Typed
<1>6. hbuf' \in [Ends -> SUBSET Pairs] /\ hbuf'[p] = h /\ hbuf'[q] = hbuf[q]
  BY <1>1, <1>3, <1>4 DEF Inv, Typed
<1> QED
  BY <1>2, <1>3, <1>5, <1>6

\* Queueing a flight.
LEMMA StartFlightStep ==
    ASSUME Inv, NEW p \in Ends, StartFlight(p)
    PROVE  Step(p)
<1> DEFINE q == Peer(p)
           x == <<pos[p][1], 1>>
<1>1. q \in Ends /\ q # p
  BY PeerFacts
<1>2. AtSend(p, pos[p], sendbuf[p], flight_init[p], last_flight[p], inside[p]) /\ pos[p][2] = 0
  BY Places DEF StartFlight
<1>3. x \in Pairs /\ x[1] = pos[p][1] /\ x[2] = 1 /\ pos[p][1] \in Nat /\ Last \in {3, 4}
  BY TypeFacts DEF Pairs
<1>4. sendbuf[p] = {} /\ ~flight_init[p]
  BY <1>2 DEF AtSend
<1>5. pos' = [pos EXCEPT ![p] = x] /\ sendbuf' = [sendbuf EXCEPT ![p] = {pos[p][1]}]
  BY <1>4 DEF StartFlight
<1> HIDE DEF x
<1>6. Typed'
  BY <1>3, <1>5 DEF Inv, Typed, StartFlight
<1>7. pos'[p] = x /\ pos'[q] = pos[q] /\ sendbuf'[q] = sendbuf[q] /\ sendbuf'[p] = {pos[p][1]}
  BY <1>1, <1>5 DEF Inv, Typed
<1>8. AtSend(p, x, {pos[p][1]}, flight_init[p], last_flight[p], inside[p])
  BY <1>2, <1>3, <1>4 DEF AtSend
<1>9. UNCHANGED <<mode, flight_init, last_flight, inside, ccs, hbuf, net>>
  BY DEF StartFlight
<1> QED
  BY <1>3, <1>6, <1>7, <1>8, <1>9, Known DEF Step, At

\* Sending one: a flight with a Finished is left behind at once.
LEMMA SendFlightStep ==
    ASSUME Inv, NEW p \in Ends, SendFlight(p)
    PROVE  Step(p)
<1> DEFINE q == Peer(p)
           f == pos[p][1]
           e == Enter(p, f + 1)
<1>1. q \in Ends /\ q # p
  BY PeerFacts
<1>2. AtSend(p, pos[p], sendbuf[p], flight_init[p], last_flight[p], inside[p]) /\ pos[p][2] = 1
  BY Places DEF SendFlight
<1>3. f \in 1..Last /\ Sender(f) = p /\ sendbuf[p] = {f} /\ ~inside[p] /\ f \in Nat /\ Last \in {3, 4}
  BY <1>2, TypeFacts DEF AtSend
<1>4. e = <<f + 1, 1>> /\ e[1] = f + 1 /\ e[2] = 1 /\ e \in Pairs
  BY <1>3, EnterFacts DEF Pairs
<1>5. /\ flight_init' \in [Ends -> BOOLEAN] /\ last_flight' \in [Ends -> BOOLEAN]
      /\ elapsed' \in [Ends -> BOOLEAN] /\ net' \in [Ends -> SUBSET Pairs]
      /\ flight_init'[q] = flight_init[q] /\ last_flight'[q] = last_flight[q]
      /\ net'[p] = net[p] /\ net'[q] \subseteq net[q] \cup Messages(sendbuf[p])
  BY TransmitFacts DEF SendFlight
<1>6. UNCHANGED <<mode, sendbuf, inside, ccs, hbuf>>
  BY DEF SendFlight
<1>7. last_flight'[p] <=> Final(f)
  <2>1. CASE flight_init[p]
    <3>1. ~Final(f) /\ ~last_flight[p]
      BY <1>2, <2>1 DEF AtSend
    <3>2. last_flight' = last_flight
      BY <2>1 DEF SendFlight, Transmit
    <3> QED
      BY <3>1, <3>2
  <2>2. CASE ~flight_init[p]
    <3> DEFINE b == \E m \in Messages(sendbuf[p]) : Type(m) = "FIN"
    <3>1. last_flight' = [last_flight EXCEPT ![p] = b]
      BY <2>2 DEF SendFlight, Transmit
    <3>2. b => Final(f)
      <4>1. SUFFICES ASSUME NEW m \in Messages(sendbuf[p]), Type(m) = "FIN"
                     PROVE  Final(f)
        OBVIOUS
      <4>2. \E i \in 1..Len(Flights[f]) : m = <<f, i>>
        BY <1>3 DEF Messages
      <4>3. PICK i \in 1..Len(Flights[f]) : m = <<f, i>>
        BY <4>2
      <4>4. Flights[f][i] = "FIN"
        BY <1>3, <4>1, <4>3 DEF Type
      <4> QED
        BY <1>3, <4>4, FlightFacts, TypeFacts
    <3>3. Final(f) => b
      <4>1. SUFFICES ASSUME Final(f) PROVE b
        OBVIOUS
      <4>2. f \in {Last - 1, Last}
        BY <1>3, <4>1 DEF Final
      <4> DEFINE l == Len(Flights[f])
      <4>3. l \in 1..3 /\ Flights[f][l] = "FIN"
        BY <1>3, <4>2, FlightFacts, TypeFacts
      <4> HIDE DEF l
      <4>4. l \in 1..l
        BY <4>3
      <4>5. <<f, l>> \in Messages(sendbuf[p])
        BY <1>3, <4>4 DEF Messages, l
      <4>6. Type(<<f, l>>) = "FIN"
        BY <1>3, <4>3 DEF Type
      <4> QED
        BY <4>5, <4>6
    <3> HIDE DEF b
    <3>4. last_flight'[p] = b
      BY <3>1 DEF Inv, Typed
    <3> QED
      BY <3>2, <3>3, <3>4
  <2> QED
    BY <2>1, <2>2
<1>8. \A m \in net'[q] : m \in net[q] \/ (m \in Messages(sendbuf[p]) /\ m[1] = f)
  BY <1>3, <1>5, Sent
<1>9. CASE ~Final(f)
  <2>1. pos' = pos
    BY <1>7, <1>9 DEF SendFlight
  <2>2. Typed'
    BY <1>5, <1>6, <2>1 DEF Inv, Typed
  <2>3. AtSend(p, pos[p], sendbuf[p], flight_init'[p], last_flight'[p], inside[p])
    BY <1>2, <1>7, <1>9 DEF AtSend
  <2>4. \A m \in net'[q] : m \in net[q] \/ (m \in Messages(sendbuf[p]) /\ ~Final(m[1]))
    BY <1>8, <1>9
  <2>5. pos[p][1] <= pos'[p][1] /\ ~(pos'[p][1] > Last)
    BY <1>3, <2>1
  <2>6. At(p, pos'[p], sendbuf'[p], flight_init'[p], last_flight'[p], inside'[p])
    BY <1>6, <2>1, <2>3 DEF At
  <2> HIDE DEF f
  <2> QED
    BY <1>5, <1>6, <2>1, <2>2, <2>4, <2>5, <2>6, Known DEF Step
<1>10. CASE Final(f)
  <2>1. pos' = [pos EXCEPT ![p] = e]
    BY <1>7, <1>10 DEF SendFlight
  <2> HIDE DEF e
  <2>2. pos' \in [Ends -> Pairs] /\ pos'[p] = e /\ pos'[q] = pos[q]
    BY <1>1, <1>4, <2>1 DEF Inv, Typed
  <2>3. Typed'
    BY <1>5, <1>6, <2>2 DEF Inv, Typed
  <2>4. At(p, e, sendbuf[p], flight_init'[p], last_flight'[p], inside[p])
    <3>1. CASE f = Last
      BY <1>3, <1>4, <3>1 DEF At, AtEnd, IsAsync
    <3>2. CASE f = Last - 1
      <4>1. Sender(Last) # p
        BY <1>3, <3>2, LastSenders
      <4> DEFINE l == Len(Flights[Last])
      <4>2. l \in 1..3
        BY <1>3, FlightFacts, TypeFacts
      <4> HIDE DEF l
      <4>3. e[1] = Last /\ e[2] \in 1..l
        BY <1>3, <1>4, <3>2, <4>2
      <4> QED
        BY <1>3, <3>2, <4>1, <4>3 DEF At, AtLast, l
    <3> QED
      BY <1>3, <1>10, <3>1, <3>2 DEF Final
  <2>5. \A g \in {Last - 1, Last} : Sender(g) = q /\ e[1] > g => pos[q][1] > g
    <3>1. SUFFICES ASSUME NEW g \in {Last - 1, Last}, Sender(g) = q, e[1] > g
                   PROVE  pos[q][1] > g
      OBVIOUS
    <3>2. g # f
      BY <1>1, <1>3, <3>1
    <3>3. pos[p][1] > g
      BY <1>3, <1>4, <3>1, <3>2
    <3> QED
      BY <3>1, <3>3, Known
  <2>6. f <= e[1] /\ e[1] > f /\ sendbuf[p] # {}
    BY <1>3, <1>4
  <2> QED
    BY <1>5, <1>6, <1>8, <2>2, <2>3, <2>4, <2>5, <2>6, Known DEF Step
<1> QED
  BY <1>9, <1>10

\* An answer to a flight that is not final releases it.
LEMMA RecvAckStep ==
    ASSUME Inv, NEW p \in Ends, NEW m \in net[p], RecvAck(p, m)
    PROVE  Step(p)
<1> DEFINE q == Peer(p)
           f == pos[p][1]
           e == Enter(p, f + 1)
<1>1. q \in Ends /\ q # p
  BY PeerFacts
<1>2. /\ AtSend(p, pos[p], sendbuf[p], flight_init[p], last_flight[p], inside[p])
      /\ pos[p][2] = 1 /\ flight_init[p]
  BY Places DEF RecvAck
<1>3. /\ f \in 1..Last /\ Sender(f) = p /\ ~Final(f) /\ ~inside[p]
      /\ f \in Nat /\ Last \in {3, 4}
  BY <1>2, TypeFacts DEF AtSend
<1>4. f + 1 \in 1..(Last - 1) /\ f < Last
  BY <1>3 DEF Final
<1>5. e = <<f + 1, 1>> /\ e[1] = f + 1 /\ e[2] = 1 /\ e \in Pairs
  BY <1>3, EnterFacts DEF Pairs
<1>6. net' \in [Ends -> SUBSET Pairs] /\ net'[p] \subseteq net[p] /\ net'[q] = net[q]
  BY TakeFacts DEF RecvAck
<1>7. /\ ccs' \in [Ends -> 0..MaxCcs] /\ hbuf' \in [Ends -> SUBSET Pairs]
      /\ ccs'[q] = ccs[q] /\ hbuf'[q] = hbuf[q]
      /\ hbuf'[p] \subseteq hbuf[p] \cup {n \in net[p] : Type(n) \notin {"CCS", "DATA"}}
      /\ ccs'[p] = ccs[p] \/ (Type(m) = "CCS" /\ ~Dropped(p, m))
  BY BufferFacts DEF RecvAck
<1>8. ~mode.nonblock /\ mode.kind # "ticket" /\ ~IsAsync(p) => ccs'[p] = 0
  <2>1. Type(m) = "CCS" => IsAsync(p)
    BY <1>4, CcsLate, <1>3
  <2> QED
    BY <1>7, <2>1, Known
<1>9. UNCHANGED <<mode, last_flight, elapsed, inside>>
  BY DEF RecvAck
<1>10. CASE UNCHANGED <<flight_init, sendbuf, pos>>
  <2>1. Typed'
    BY <1>6, <1>7, <1>9, <1>10 DEF Inv, Typed
  <2>2. At(p, pos'[p], sendbuf'[p], flight_init'[p], last_flight'[p], inside'[p])
    BY <1>2, <1>9, <1>10 DEF At
  <2>3. pos[p][1] <= pos'[p][1]
    BY <1>3, <1>10
  <2> HIDE DEF f
  <2> QED
    BY <1>6, <1>7, <1>8, <1>9, <1>10, <2>1, <2>2, <2>3, Known DEF Step
<1>11. CASE Reset(p) /\ pos' = [pos EXCEPT ![p] = e]
  <2> HIDE DEF e
  <2>1. pos' \in [Ends -> Pairs] /\ pos'[p] = e /\ pos'[q] = pos[q]
    BY <1>1, <1>5, <1>11 DEF Inv, Typed
  <2>2. /\ flight_init' \in [Ends -> BOOLEAN] /\ sendbuf' \in [Ends -> SUBSET Nat]
        /\ flight_init'[q] = flight_init[q] /\ sendbuf'[q] = sendbuf[q]
        /\ ~flight_init'[p] /\ sendbuf'[p] = {}
    BY <1>11, ResetFacts
  <2>3. Typed'
    BY <1>6, <1>7, <1>9, <2>1, <2>2 DEF Inv, Typed
  <2>4. AtRecv(p, e, {}, flight_init'[p], last_flight'[p], inside'[p])
    <3>1. f + 1 \in 1..Last
      BY <1>3, <1>4
    <3>2. Sender(f + 1) # p
      BY <1>1, <1>3, <3>1, SenderFacts, TypeFacts
    <3> DEFINE l == Len(Flights[f + 1])
    <3>3. l \in 1..3
      BY <3>1, FlightFacts, TypeFacts
    <3> HIDE DEF l
    <3>4. 1 \in 1..l
      BY <3>3
    <3> QED
      BY <1>3, <1>4, <1>5, <1>9, <2>2, <3>2, <3>4 DEF AtRecv, l
  <2>5. pos[p][1] <= e[1] /\ ~(e[1] > Last) /\ \A g \in {Last - 1, Last} : ~(e[1] > g)
    BY <1>3, <1>4, <1>5
  <2> HIDE DEF f
  <2> QED
    BY <1>6, <1>7, <1>8, <1>9, <2>1, <2>2, <2>3, <2>4, <2>5 DEF Step, At
<1> QED
  BY <1>10, <1>11 DEF RecvAck

-----------------------------------------------------------------------------
(* Receiving.                                                                  *)

\* Moving on from a message that was there, in a buffer or on the network.
LEMMA MoveOnFacts ==
    ASSUME Inv, NEW p \in Ends, Awaiting(p), ~inside[p], MoveOn(p),
           Type(pos[p]) = "CCS" \/ pos[p] \in hbuf[p] \cup net[p]
    PROVE  LET q == Peer(p)
           IN  /\ pos' \in [Ends -> Pairs] /\ sendbuf' \in [Ends -> SUBSET Nat]
               /\ flight_init' \in [Ends -> BOOLEAN]
               /\ pos'[q] = pos[q] /\ sendbuf'[q] = sendbuf[q] /\ flight_init'[q] = flight_init[q]
               /\ At(p, pos'[p], sendbuf'[p], flight_init'[p], last_flight[p], inside[p])
               /\ pos[p][1] <= pos'[p][1]
               /\ \A f \in {Last - 1, Last} : Sender(f) = q /\ pos'[p][1] > f => pos[q][1] > f
               /\ ~mode.expires /\ pos'[p][1] > Last /\ sendbuf'[p] = {} => pos[q][1] > Last
<1> DEFINE q == Peer(p)
           f == pos[p][1]
           i == pos[p][2]
           l == Len(Flights[f])
           x == Advance(p)
<1>1. q \in Ends /\ q # p /\ Peer(q) = p
  BY PeerFacts
<1>2. \/ AtRecv(p, pos[p], sendbuf[p], flight_init[p], last_flight[p], inside[p])
      \/ AtLast(p, pos[p], sendbuf[p], flight_init[p], last_flight[p], inside[p])
  BY Places
<1>3. /\ Last \in {3, 4} /\ f \in Nat /\ i \in Nat /\ pos[p] = <<f, i>> /\ pos[q][1] \in Nat
  BY <1>1, TypeFacts
<1>4. f \in 1..Last /\ i \in 1..l /\ Sender(f) # p
  BY <1>2, <1>3 DEF AtRecv, AtLast
<1>5. l \in 1..3
  BY <1>4, FlightFacts, TypeFacts
<1>6. pos' = [pos EXCEPT ![p] = x] /\ (pos'[p][1] > Last => Reset(p))
      /\ (~(pos'[p][1] > Last) => UNCHANGED <<flight_init, sendbuf>>)
  BY DEF MoveOn
<1>7. CASE i < l
  <2>1. x = <<f, i + 1>>
    BY <1>7 DEF Advance
  <2>2. x \in Pairs /\ x[1] = f /\ x[2] = i + 1
    BY <1>3, <2>1 DEF Pairs
  <2> HIDE DEF x
  <2>3. pos' \in [Ends -> Pairs] /\ pos'[p] = x /\ pos'[q] = pos[q]
    BY <1>1, <1>6, <2>2 DEF Inv, Typed
  <2>4. UNCHANGED <<flight_init, sendbuf>> /\ ~(pos'[p][1] > Last) /\ pos[p][1] <= pos'[p][1]
    BY <1>3, <1>4, <1>6, <2>2, <2>3
  <2>5. At(p, x, sendbuf[p], flight_init[p], last_flight[p], inside[p])
    <3>1. x[1] = pos[p][1] /\ x[2] \in 1..l
      <4> HIDE DEF l, f, i
      <4>1. i + 1 \in 1..l
        BY <1>3, <1>4, <1>5, <1>7
      <4> QED
        BY <2>2, <4>1 DEF f
    <3>2. CASE AtRecv(p, pos[p], sendbuf[p], flight_init[p], last_flight[p], inside[p])
      BY <3>1, <3>2 DEF AtRecv, At
    <3>3. CASE AtLast(p, pos[p], sendbuf[p], flight_init[p], last_flight[p], inside[p])
      BY <3>1, <3>3 DEF AtLast, At
    <3> QED
      BY <1>2, <3>2, <3>3
  <2>6. sendbuf' \in [Ends -> SUBSET Nat] /\ flight_init' \in [Ends -> BOOLEAN]
    BY <2>4 DEF Inv, Typed
  <2>7. pos'[p][1] = pos[p][1]
    BY <2>2, <2>3
  <2> HIDE DEF f, i, l
  <2> QED
    BY <2>3, <2>4, <2>5, <2>6, <2>7, Known
<1>8. CASE i = l
  <2>1. x = Enter(p, f + 1)
    <3> HIDE DEF l, i
    <3>1. ~(i < l)
      BY <1>3, <1>5, <1>8
    <3> QED
      BY <3>1 DEF Advance, l, i
  <2>2. Final(f) => pos[q][1] > f
    <3>1. pos[p] # <<0, 0>>
      BY <1>3, <1>4
    <3>2. Type(pos[p]) # "CCS"
      BY <1>4, <1>8, <3>1, FlightFacts, TypeFacts DEF Type
    <3>3. pos[p] \in hbuf[p] \cup net[p]
      BY <3>2
    <3> QED
      BY <3>1, <3>3 DEF Inv, Knows
  <2>3. CASE f < Last
    <3>1. x = <<f + 1, 0>>
      BY <1>4, <2>1, <2>3, EnterFacts
    <3>2. x \in Pairs /\ x[1] = f + 1 /\ x[2] = 0
      BY <1>3, <3>1 DEF Pairs
    <3> HIDE DEF x
    <3>3. pos' \in [Ends -> Pairs] /\ pos'[p] = x /\ pos'[q] = pos[q]
      BY <1>1, <1>6, <3>2 DEF Inv, Typed
    <3>4. UNCHANGED <<flight_init, sendbuf>> /\ ~(pos'[p][1] > Last) /\ pos[p][1] <= pos'[p][1]
      BY <1>3, <1>4, <1>6, <2>3, <3>2, <3>3
    <3>5. sendbuf[p] = {} /\ ~flight_init[p] /\ ~inside[p]
      BY <1>2, <1>3, <2>3 DEF AtRecv, AtLast
    <3>6. f + 1 \in 1..Last
      BY <1>3, <1>4, <2>3
    <3>7. Sender(f + 1) = p
      BY <1>1, <1>4, <3>6, SenderFacts, TypeFacts, PeerFacts
    <3>8. AtSend(p, x, sendbuf[p], flight_init[p], last_flight[p], inside[p])
      BY <3>2, <3>5, <3>6, <3>7 DEF AtSend
    <3>9. ASSUME NEW g \in {Last - 1, Last}, Sender(g) = q, x[1] > g
          PROVE  pos[q][1] > g
      <4>1. CASE g = f
        BY <1>3, <2>2, <4>1, <3>9 DEF Final
      <4>2. CASE g # f
        <5>1. pos[p][1] > g
          BY <1>3, <3>2, <3>9, <4>2
        <5> QED
          BY <3>9, <5>1, Known
      <4> QED
        BY <4>1, <4>2
    <3>10. sendbuf' \in [Ends -> SUBSET Nat] /\ flight_init' \in [Ends -> BOOLEAN]
      BY <3>4 DEF Inv, Typed
    <3> HIDE DEF f, i, l
    <3> QED
      BY <3>3, <3>4, <3>8, <3>9, <3>10 DEF At
  <2>4. CASE f = Last
    <3>1. x = <<Last + 1, 1>>
      BY <1>4, <2>1, <2>4, EnterFacts
    <3>2. x \in Pairs /\ x[1] = Last + 1
      BY <1>3, <3>1 DEF Pairs
    <3> HIDE DEF x
    <3>3. pos' \in [Ends -> Pairs] /\ pos'[p] = x /\ pos'[q] = pos[q]
      BY <1>1, <1>6, <3>2 DEF Inv, Typed
    <3>4. Reset(p) /\ pos[p][1] <= pos'[p][1]
      BY <1>3, <1>6, <2>4, <3>2, <3>3
    <3>5. /\ flight_init' \in [Ends -> BOOLEAN] /\ sendbuf' \in [Ends -> SUBSET Nat]
          /\ flight_init'[q] = flight_init[q] /\ sendbuf'[q] = sendbuf[q]
          /\ sendbuf'[p] = {}
      BY <3>4, ResetFacts
    <3>6. AtEnd(p, x, {}, flight_init'[p], last_flight[p], inside[p])
      BY <3>1 DEF AtEnd
    <3>7. pos[q][1] > Last /\ pos[q][1] > Last - 1
      BY <1>3, <2>2, <2>4 DEF Final
    <3> HIDE DEF f, i, l
    <3> QED
      BY <3>3, <3>4, <3>5, <3>6, <3>7 DEF At
  <2> QED
    BY <1>3, <1>4, <2>3, <2>4
<1> QED
  <2> HIDE DEF l, i
  <2>1. i < l \/ i = l
    BY <1>4, <1>5
  <2> QED
    BY <1>7, <1>8, <2>1

\* The expected message is in a buffer.
LEMMA ConsumeStep ==
    ASSUME Inv, NEW p \in Ends, Consume(p)
    PROVE  Step(p)
<1> DEFINE q == Peer(p)
           c == ccs[p] - 1
           h == hbuf[p] \ {pos[p]}
<1>1. q \in Ends /\ q # p
  BY PeerFacts
<1>2. Awaiting(p) /\ ~inside[p] /\ MoveOn(p) /\ InBuffers(p)
  BY DEF Consume
<1>3. Type(pos[p]) = "CCS" \/ pos[p] \in hbuf[p] \cup net[p]
  BY <1>2 DEF InBuffers
<1>4. /\ pos' \in [Ends -> Pairs] /\ sendbuf' \in [Ends -> SUBSET Nat]
      /\ flight_init' \in [Ends -> BOOLEAN]
      /\ pos'[q] = pos[q] /\ sendbuf'[q] = sendbuf[q] /\ flight_init'[q] = flight_init[q]
      /\ At(p, pos'[p], sendbuf'[p], flight_init'[p], last_flight[p], inside[p])
      /\ pos[p][1] <= pos'[p][1]
      /\ \A f \in {Last - 1, Last} : Sender(f) = q /\ pos'[p][1] > f => pos[q][1] > f
      /\ ~mode.expires /\ pos'[p][1] > Last /\ sendbuf'[p] = {} => pos[q][1] > Last
  BY <1>2, <1>3, MoveOnFacts
<1>5. UNCHANGED <<mode, last_flight, elapsed, inside, net>>
  BY DEF Consume
<1>6. /\ hbuf' \in [Ends -> SUBSET Pairs] /\ hbuf'[q] = hbuf[q] /\ hbuf'[p] \subseteq hbuf[p]
  <2>1. hbuf' = [hbuf EXCEPT ![p] = h] /\ h \subseteq hbuf[p]
    BY DEF Consume
  <2> HIDE DEF h
  <2> QED
    BY <1>1, <2>1 DEF Inv, Typed
<1>7. /\ ccs' \in [Ends -> 0..MaxCcs] /\ ccs'[q] = ccs[q]
      /\ ~mode.nonblock /\ mode.kind # "ticket" /\ ~IsAsync(p) => ccs'[p] = 0
  <2>1. CASE Type(pos[p]) = "CCS"
    <3>1. ccs[p] > 0 /\ ccs[p] \in 0..MaxCcs
      BY <1>2, <2>1, TypeFacts DEF InBuffers
    <3>2. c \in 0..MaxCcs
      BY <3>1, TypeFacts
    <3>3. ccs' = [ccs EXCEPT ![p] = c]
      BY <2>1 DEF Consume
    <3>4. ~(~mode.nonblock /\ mode.kind # "ticket" /\ ~IsAsync(p))
      BY <3>1, Known
    <3> HIDE DEF c
    <3> QED
      BY <1>1, <3>2, <3>3, <3>4 DEF Inv, Typed
  <2>2. CASE Type(pos[p]) # "CCS"
    <3>1. ccs' = ccs
      BY <2>2 DEF Consume
    <3> QED
      BY <3>1, Known DEF Inv, Typed
  <2> QED
    BY <2>1, <2>2
<1>8. Typed'
  BY <1>4, <1>5, <1>6, <1>7 DEF Inv, Typed
<1> QED
  BY <1>4, <1>5, <1>6, <1>7, <1>8 DEF Step

\* It arrives, or something else does: the last flight of a full or a resumed
\* handshake leaves no spare ChangeCipherSpec, since the second one is of an
\* epoch that is no longer read.
LEMMA RecvExpectedStep ==
    ASSUME Inv, NEW p \in Ends, NEW m \in net[p], RecvExpected(p, m)
    PROVE  Step(p)
<1> DEFINE q == Peer(p)
<1>1. q \in Ends /\ q # p
  BY PeerFacts
<1>2. Awaiting(p) /\ ~inside[p] /\ Arrives(p, m)
  BY DEF RecvExpected
<1>3. net' \in [Ends -> SUBSET Pairs] /\ net'[p] \subseteq net[p] /\ net'[q] = net[q]
  BY TakeFacts DEF RecvExpected
<1>4. UNCHANGED <<mode, last_flight, elapsed, inside>>
  BY DEF RecvExpected
<1>5. CASE m = pos[p]
  <2>1. MoveOn(p) /\ UNCHANGED <<ccs, hbuf>>
    BY <1>5 DEF RecvExpected
  <2>2. /\ pos' \in [Ends -> Pairs] /\ sendbuf' \in [Ends -> SUBSET Nat]
        /\ flight_init' \in [Ends -> BOOLEAN]
        /\ pos'[q] = pos[q] /\ sendbuf'[q] = sendbuf[q] /\ flight_init'[q] = flight_init[q]
        /\ At(p, pos'[p], sendbuf'[p], flight_init'[p], last_flight[p], inside[p])
        /\ pos[p][1] <= pos'[p][1]
        /\ \A f \in {Last - 1, Last} : Sender(f) = q /\ pos'[p][1] > f => pos[q][1] > f
        /\ ~mode.expires /\ pos'[p][1] > Last /\ sendbuf'[p] = {} => pos[q][1] > Last
    BY <1>2, <1>5, <2>1, MoveOnFacts
  <2>3. Typed'
    BY <1>3, <1>4, <2>1, <2>2 DEF Inv, Typed
  <2> QED
    BY <1>3, <1>4, <2>1, <2>2, <2>3, Known DEF Step
<1>6. CASE m # pos[p]
  <2>1. UNCHANGED <<pos, flight_init, sendbuf>>
    BY <1>6 DEF RecvExpected
  <2>2. /\ ccs' \in [Ends -> 0..MaxCcs] /\ hbuf' \in [Ends -> SUBSET Pairs]
        /\ ccs'[q] = ccs[q] /\ hbuf'[q] = hbuf[q]
        /\ hbuf'[p] \subseteq hbuf[p] \cup {n \in net[p] : Type(n) \notin {"CCS", "DATA"}}
        /\ \/ ccs'[p] = ccs[p]
           \/ Type(m) = "CCS" /\ ~Dropped(p, m) /\ Type(pos[p]) # "CCS"
    <3>1. CASE Type(pos[p]) = "CCS"
      <4>1. UNCHANGED <<ccs, hbuf>>
        BY <1>6, <3>1 DEF RecvExpected
      <4> QED
        BY <4>1 DEF Inv, Typed
    <3>2. CASE Type(pos[p]) # "CCS"
      <4>1. Buffer(p, m)
        BY <1>6, <3>2 DEF RecvExpected
      <4> QED
        BY <1>2, <3>2, <4>1, BufferFacts
    <3> QED
      BY <3>1, <3>2
  <2>3. ASSUME ~mode.nonblock, mode.kind # "ticket", ~IsAsync(p) PROVE ccs'[p] = 0
    <3>1. SUFFICES ASSUME Type(m) = "CCS", ~Dropped(p, m), Type(pos[p]) # "CCS" PROVE FALSE
      BY <2>2, <2>3, Known
    <3>2. Last \in {3, 4} /\ pos[p][1] \in Nat /\ mode \in Modes
          /\ pos[p] = <<pos[p][1], pos[p][2]>>
      BY TypeFacts
    <3>3. pos[p][1] = Last /\ ~Done(p)
      BY <1>2, <2>3, <3>1, <3>2, CcsLate DEF Awaiting, Done
    <3>4. AtLast(p, pos[p], sendbuf[p], flight_init[p], last_flight[p], inside[p])
      BY <1>2, <3>2, <3>3, Places DEF AtRecv
    <3>5. /\ Len(Flights[Last]) = 2 /\ Flights[Last][1] = "CCS" /\ Flights[Last][2] = "FIN"
      BY <2>3, <3>2, FlightFacts
    <3>6. pos[p][2] \in {1, 2}
      BY <3>4, <3>5 DEF AtLast
    <3>7. Type(pos[p]) = Flights[Last][pos[p][2]]
      BY <3>2, <3>3 DEF Type
    <3>8. Type(pos[p]) = "FIN"
      BY <3>1, <3>5, <3>6, <3>7
    <3>9. ReadEpoch(p) = 1 /\ Epoch(m) = 0
      BY <1>2, <3>1, <3>8 DEF ReadEpoch, Epoch
    <3> QED
      BY <3>1, <3>9 DEF Dropped
  <2>4. Typed'
    BY <1>3, <1>4, <2>1, <2>2 DEF Inv, Typed
  <2>5. At(p, pos'[p], sendbuf'[p], flight_init'[p], last_flight'[p], inside'[p])
    BY <1>4, <2>1 DEF Inv, Local
  <2>6. pos[p][1] <= pos'[p][1]
    BY <2>1, TypeFacts
  <2> QED
    BY <1>3, <1>4, <2>1, <2>2, <2>3, <2>4, <2>5, <2>6, Known DEF Step
<1> QED
  BY <1>5, <1>6

\* A retransmission while p waits for the last flight changes neither where p
\* is nor what it has queued.
LEMMA RetransmitStep ==
    ASSUME Inv, NEW p \in Ends, Transmit(p),
           AtLast(p, pos[p], sendbuf[p], flight_init[p], last_flight[p], inside[p]),
           inside' = inside \/ (mode.nonblock /\ inside' = [inside EXCEPT ![p] = FALSE]),
           UNCHANGED <<mode, pos, sendbuf, ccs, hbuf>>
    PROVE  Step(p)
<1> DEFINE q == Peer(p)
<1>1. q \in Ends /\ q # p
  BY PeerFacts
<1>2. /\ flight_init' \in [Ends -> BOOLEAN] /\ last_flight' \in [Ends -> BOOLEAN]
      /\ elapsed' \in [Ends -> BOOLEAN] /\ net' \in [Ends -> SUBSET Pairs]
      /\ flight_init'[q] = flight_init[q] /\ last_flight'[q] = last_flight[q]
      /\ net'[p] = net[p] /\ net'[q] \subseteq net[q] \cup Messages(sendbuf[p])
  BY TransmitFacts
<1>3. /\ inside' \in [Ends -> BOOLEAN] /\ inside'[q] = inside[q]
      /\ ~mode.nonblock => inside'[p] = inside[p]
  BY <1>1 DEF Inv, Typed
<1>4. Typed'
  BY <1>2, <1>3 DEF Inv, Typed
<1>5. AtLast(p, pos'[p], sendbuf'[p], flight_init'[p], last_flight'[p], inside'[p])
  BY <1>3 DEF AtLast
<1>6. pos[p][1] = Last /\ Last \in {3, 4} /\ sendbuf[p] \subseteq {Last - 1}
  BY TypeFacts DEF AtLast
<1>7. pos[p][1] <= pos'[p][1] /\ ~(pos'[p][1] > Last)
  BY <1>6
<1>8. \A m \in net'[q] : m \in net[q] \/ (m \in Messages(sendbuf[p]) /\ pos'[p][1] > m[1])
  <2>1. ASSUME NEW m \in Messages(sendbuf[p]) PROVE pos'[p][1] > m[1]
    <3>1. m[1] = Last - 1
      BY <1>6, Sent
    <3> QED
      BY <1>6, <3>1
  <2> QED
    BY <1>2, <2>1
<1> QED
  BY <1>2, <1>3, <1>4, <1>5, <1>7, <1>8, Known DEF Step, At

\* Whoever waits is in the last flight.
LEMMA WaitFacts ==
    ASSUME Inv, NEW p \in Ends, (Awaiting(p) /\ Waits(p)) \/ inside[p]
    PROVE  /\ AtLast(p, pos[p], sendbuf[p], flight_init[p], last_flight[p], inside[p])
           /\ inside[p] => mode.nonblock
<1>1. Last \in {3, 4} /\ pos[p][1] \in Nat
  BY TypeFacts
<1> QED
  BY <1>1, Places DEF Waits, AtRecv

\* The steps of _dtls_wait_and_retransmit that see no datagram.
LEMMA WaitStep ==
    ASSUME Inv, NEW p \in Ends, WaitRetransmit(p) \/ WaitEnter(p) \/ WaitNone(p)
    PROVE  Step(p)
<1>1. CASE WaitRetransmit(p)
  <2>1. Awaiting(p) /\ Waits(p) /\ Transmit(p) /\ UNCHANGED <<mode, pos, sendbuf, inside, ccs, hbuf>>
    BY <1>1 DEF WaitRetransmit
  <2> QED
    BY <2>1, WaitFacts, RetransmitStep
<1>2. CASE WaitNone(p)
  <2>1. /\ inside[p] /\ Transmit(p) /\ UNCHANGED <<mode, pos, sendbuf, ccs, hbuf>>
        /\ inside' = inside \/ inside' = [inside EXCEPT ![p] = FALSE]
    BY <1>2 DEF WaitNone
  <2>2. /\ AtLast(p, pos[p], sendbuf[p], flight_init[p], last_flight[p], inside[p])
        /\ mode.nonblock
    BY <2>1, WaitFacts
  <2> QED
    BY <2>1, <2>2, RetransmitStep
<1>3. CASE WaitEnter(p)
  <2>1. Peer(p) \in Ends /\ Peer(p) # p
    BY PeerFacts
  <2>2. /\ AtLast(p, pos[p], sendbuf[p], flight_init[p], last_flight[p], inside[p])
        /\ mode.nonblock
    BY <1>3, WaitFacts DEF WaitEnter
  <2>3. /\ inside' = [inside EXCEPT ![p] = TRUE]
        /\ UNCHANGED <<mode, pos, sendbuf, flight_init, last_flight, elapsed, ccs, hbuf, net>>
    BY <1>3 DEF WaitEnter
  <2>4. Typed' /\ inside'[Peer(p)] = inside[Peer(p)]
    BY <2>1, <2>3 DEF Inv, Typed
  <2>5. AtLast(p, pos[p], sendbuf[p], flight_init[p], last_flight[p], inside'[p])
    BY <2>2 DEF AtLast
  <2>6. pos[p][1] <= pos'[p][1]
    BY <2>3, TypeFacts
  <2> QED
    BY <2>3, <2>4, <2>5, <2>6, Known DEF Step, At
<1> QED
  BY <1>1, <1>2, <1>3

\* The one that sees a datagram.
LEMMA WaitSeesStep ==
    ASSUME Inv, NEW p \in Ends, NEW m \in net[p], WaitSees(p, m)
    PROVE  Step(p)
<1> DEFINE q == Peer(p)
           b == ~Dropped(p, m) /\ hbuf'[p] = {}
<1>1. q \in Ends /\ q # p
  BY PeerFacts
<1>2. /\ AtLast(p, pos[p], sendbuf[p], flight_init[p], last_flight[p], inside[p])
      /\ mode.nonblock
  BY WaitFacts DEF WaitSees
<1>3. net' \in [Ends -> SUBSET Pairs] /\ net'[p] \subseteq net[p] /\ net'[q] = net[q]
  BY TakeFacts DEF WaitSees
<1>4. /\ ccs' \in [Ends -> 0..MaxCcs] /\ hbuf' \in [Ends -> SUBSET Pairs]
      /\ ccs'[q] = ccs[q] /\ hbuf'[q] = hbuf[q]
      /\ hbuf'[p] \subseteq hbuf[p] \cup {n \in net[p] : Type(n) \notin {"CCS", "DATA"}}
  BY BufferFacts DEF WaitSees
<1>5. UNCHANGED <<mode, pos, last_flight, elapsed>>
  BY DEF WaitSees
<1>6. inside' \in [Ends -> BOOLEAN] /\ inside'[q] = inside[q]
  <2>1. b \in BOOLEAN
    OBVIOUS
  <2>2. inside' = [inside EXCEPT ![p] = b]
    BY DEF WaitSees
  <2> HIDE DEF b
  <2> QED
    BY <1>1, <2>1, <2>2 DEF Inv, Typed
<1>7. /\ flight_init' \in [Ends -> BOOLEAN] /\ sendbuf' \in [Ends -> SUBSET Nat]
      /\ flight_init'[q] = flight_init[q] /\ sendbuf'[q] = sendbuf[q]
      /\ sendbuf'[p] \subseteq sendbuf[p]
  <2>1. CASE Reset(p)
    BY <2>1, ResetFacts
  <2>2. CASE UNCHANGED <<flight_init, sendbuf>>
    BY <2>2 DEF Inv, Typed
  <2> QED
    BY <2>1, <2>2 DEF WaitSees
<1>8. Typed'
  BY <1>3, <1>4, <1>5, <1>6, <1>7 DEF Inv, Typed
<1>9. AtLast(p, pos[p], sendbuf'[p], flight_init'[p], last_flight'[p], inside'[p])
  BY <1>2, <1>7 DEF AtLast
<1>10. pos[p][1] <= pos'[p][1] /\ ~(pos'[p][1] > Last)
  BY <1>2, <1>5, TypeFacts DEF AtLast
<1> QED
  BY <1>2, <1>3, <1>4, <1>5, <1>6, <1>7, <1>8, <1>9, <1>10, Known DEF Step, At

-----------------------------------------------------------------------------
(* After the handshake, time and the network.                                  *)

\* A record that comes when p is done: a repeated Finished brings the last
\* flight again, and application data shows that the peer is done too.
LEMMA RecvDoneStep ==
    ASSUME Inv, NEW p \in Ends, NEW m \in net[p], RecvDone(p, m)
    PROVE  Step(p)
<1> DEFINE q == Peer(p)
           M == Messages(sendbuf[p])
<1>1. q \in Ends /\ q # p
  BY PeerFacts
<1>2. Done(p) /\ AtEnd(p, pos[p], sendbuf[p], flight_init[p], last_flight[p], inside[p])
  BY Places DEF RecvDone
<1>3. UNCHANGED <<mode, pos, last_flight, inside, ccs, hbuf>>
  BY DEF RecvDone
<1>4. pos[p][1] = Last + 1 /\ pos[p][1] > Last /\ Last \in {3, 4} /\ pos[p][1] <= pos'[p][1]
  BY <1>2, <1>3, TypeFacts DEF AtEnd
<1>5. CASE IsAsync(p) /\ sendbuf[p] # {} /\ Type(m) = "FIN" /\ Due(p)
  <2>1. /\ net' = [net EXCEPT ![p] = @ \ {m}, ![q] = @ \cup M]
        /\ elapsed' = [elapsed EXCEPT ![p] = FALSE]
        /\ UNCHANGED <<flight_init, sendbuf>>
    BY <1>5 DEF RecvDone
  <2>2. \A n \in M : n \in Pairs /\ n[1] \in sendbuf[p]
    BY Sent
  <2>3. \A n \in M : n \in Pairs /\ pos[p][1] > n[1]
    BY <1>2, <1>4, <1>5, <2>2 DEF AtEnd
  <2> HIDE DEF M
  <2>4. net' \in [Ends -> SUBSET Pairs] /\ net'[p] = net[p] \ {m} /\ net'[q] = net[q] \cup M
    BY <1>1, <2>1, <2>3 DEF Inv, Typed
  <2>5. Typed'
    BY <1>3, <2>1, <2>4 DEF Inv, Typed
  <2>6. \A n \in net'[q] : n \in net[q] \/ (n \in Messages(sendbuf[p]) /\ pos'[p][1] > n[1])
    BY <1>3, <2>3, <2>4 DEF M
  <2> QED
    BY <1>2, <1>3, <1>4, <2>1, <2>4, <2>5, <2>6, Known DEF Step, At
<1>6. CASE ~(IsAsync(p) /\ sendbuf[p] # {} /\ Type(m) = "FIN" /\ Due(p))
  <2>1. Take(p, m) /\ UNCHANGED elapsed
    BY <1>6 DEF RecvDone
  <2>2. net' \in [Ends -> SUBSET Pairs] /\ net'[p] \subseteq net[p] /\ net'[q] = net[q]
    BY <2>1, TakeFacts
  <2>3. CASE Type(m) = "DATA"
    <3>1. m = <<0, 0>>
      BY <2>3, NetFacts
    <3>2. pos[q][1] > Last
      BY <3>1 DEF Inv, Knows, Done
    <3>3. Reset(p)
      BY <1>6, <2>3 DEF RecvDone
    <3>4. /\ flight_init' \in [Ends -> BOOLEAN] /\ sendbuf' \in [Ends -> SUBSET Nat]
          /\ flight_init'[q] = flight_init[q] /\ sendbuf'[q] = sendbuf[q]
          /\ sendbuf'[p] = {}
      BY <3>3, ResetFacts
    <3>5. Typed'
      BY <1>3, <2>1, <2>2, <3>4 DEF Inv, Typed
    <3>6. AtEnd(p, pos'[p], sendbuf'[p], flight_init'[p], last_flight'[p], inside'[p])
      BY <1>2, <1>3, <3>4 DEF AtEnd
    <3> QED
      BY <1>3, <1>4, <2>2, <3>2, <3>4, <3>5, <3>6, Known DEF Step, At
  <2>4. CASE Type(m) # "DATA"
    <3>1. UNCHANGED <<flight_init, sendbuf>>
      BY <1>6, <2>4 DEF RecvDone
    <3>2. Typed'
      BY <1>3, <2>1, <2>2, <3>1 DEF Inv, Typed
    <3> QED
      BY <1>2, <1>3, <1>4, <2>2, <3>1, <3>2, Known DEF Step, At
  <2> QED
    BY <2>3, <2>4
<1> QED
  BY <1>5, <1>6

\* The steps that only add application data, let time pass or lose a record.
LEMMA QuietStep ==
    ASSUME Inv, NEW p \in Ends, SendData(p) \/ Elapse(p) \/ \E m \in net[p] : Lose(p, m)
    PROVE  Step(p)
<1> DEFINE q == Peer(p)
<1>1. q \in Ends /\ q # p
  BY PeerFacts
<1>2. UNCHANGED <<mode, pos, sendbuf, flight_init, last_flight, inside, ccs, hbuf>>
  BY DEF SendData, Elapse, Lose
<1>3. /\ net' \in [Ends -> SUBSET Pairs] /\ net'[p] \subseteq net[p]
      /\ elapsed' \in [Ends -> BOOLEAN]
      /\ \A m \in net'[q] : m \in net[q] \/ (m = <<0, 0>> /\ Done(p))
  <2>1. CASE SendData(p)
    <3>1. net' = [net EXCEPT ![q] = @ \cup {<<0, 0>>}] /\ elapsed' = elapsed /\ Done(p)
      BY <2>1 DEF SendData
    <3>2. <<0, 0>> \in Pairs
      BY DEF Pairs
    <3> QED
      BY <1>1, <3>1, <3>2 DEF Inv, Typed
  <2>2. CASE Elapse(p)
    BY <2>2 DEF Inv, Typed, Elapse
  <2>3. CASE \E m \in net[p] : Lose(p, m)
    <3>1. PICK m \in net[p] : Take(p, m) /\ elapsed' = elapsed
      BY <2>3 DEF Lose
    <3> QED
      BY <3>1, TakeFacts DEF Inv, Typed
  <2> QED
    BY <2>1, <2>2, <2>3
<1>4. Typed'
  BY <1>2, <1>3 DEF Inv, Typed
<1>5. pos[p][1] <= pos'[p][1]
  BY <1>2, TypeFacts
<1>6. At(p, pos'[p], sendbuf'[p], flight_init'[p], last_flight'[p], inside'[p])
  BY <1>2 DEF Inv, Local
<1> QED
  BY <1>2, <1>3, <1>4, <1>5, <1>6, Known DEF Step

\* The timer of the last flight.
LEMMA AsyncExpireStep ==
    ASSUME Inv, NEW p \in Ends, AsyncExpire(p)
    PROVE  Step(p)
<1>1. AtEnd(p, pos[p], sendbuf[p], flight_init[p], last_flight[p], inside[p]) /\ mode.expires
  BY Places DEF AsyncExpire
<1>2. UNCHANGED <<mode, pos, last_flight, elapsed, inside, ccs, hbuf, net>>
  BY DEF AsyncExpire
<1>3. LET q == Peer(p)
      IN  /\ flight_init' \in [Ends -> BOOLEAN] /\ sendbuf' \in [Ends -> SUBSET Nat]
          /\ flight_init'[q] = flight_init[q] /\ sendbuf'[q] = sendbuf[q]
          /\ sendbuf'[p] = {}
  BY ResetFacts DEF AsyncExpire
<1>4. Typed'
  BY <1>2, <1>3 DEF Inv, Typed
<1>5. AtEnd(p, pos'[p], sendbuf'[p], flight_init'[p], last_flight'[p], inside'[p])
  BY <1>1, <1>2, <1>3 DEF AtEnd
<1>6. pos[p][1] <= pos'[p][1]
  BY <1>2, TypeFacts
<1> QED
  BY <1>1, <1>2, <1>3, <1>4, <1>5, <1>6, Known DEF Step, At

-----------------------------------------------------------------------------
(* The theorems.                                                               *)

\* The handshake starts with the flight of the client.
LEMMA InvInit == Init => Inv
<1>1. SUFFICES ASSUME Init PROVE Inv
  OBVIOUS
<1>2. mode \in Modes
  BY <1>1 DEF Init
<1>3. Last \in {3, 4} /\ \A f \in 1..Last : Len(Flights[f]) \in 1..3
  BY <1>2, FlightFacts
<1>4. /\ pos = [p \in Ends |-> IF p = "client" THEN <<1, 0>> ELSE <<1, 1>>]
      /\ "client" \in Ends /\ "server" \in Ends
  BY <1>1 DEF Init, Ends
<1>5. pos["client"] = <<1, 0>> /\ pos["server"] = <<1, 1>> /\ \A p \in Ends : pos[p][1] = 1
  BY <1>4
<1>6. Typed
  <2>1. <<1, 0>> \in Pairs /\ <<1, 1>> \in Pairs
    BY DEF Pairs
  <2>2. pos \in [Ends -> Pairs]
    BY <1>4, <2>1
  <2>3. 0 \in 0..MaxCcs
    BY FlightAssumption
  <2> QED
    BY <1>1, <2>2, <2>3 DEF Init, Typed
<1>7. ASSUME NEW p \in Ends PROVE Local(p)
  <2>1. sendbuf[p] = {} /\ ~flight_init[p] /\ ~inside[p]
    BY <1>1 DEF Init
  <2>2. CASE p = "client"
    <3>1. AtSend(p, pos[p], sendbuf[p], flight_init[p], last_flight[p], inside[p])
      BY <1>3, <1>5, <2>1, <2>2, Senders DEF AtSend
    <3> QED
      BY <3>1 DEF Local, At
  <2>3. CASE p = "server"
    <3> DEFINE l == Len(Flights[1])
    <3>1. l \in 1..3
      BY <1>3
    <3> HIDE DEF l
    <3>2. 1 \in 1..l
      BY <3>1
    <3>3. AtRecv(p, pos[p], sendbuf[p], flight_init[p], last_flight[p], inside[p])
      BY <1>3, <1>5, <2>1, <2>3, <3>2, Senders DEF AtRecv, l
    <3> QED
      BY <3>3 DEF Local, At
  <2> QED
    BY <2>2, <2>3 DEF Ends
<1>8. ASSUME NEW p \in Ends PROVE Knows(p)
  <2>1. hbuf[p] = {} /\ net[p] = {} /\ ccs[p] = 0
    BY <1>1 DEF Init
  <2>2. \A f \in {Last - 1, Last} : ~(pos[p][1] > f)
    BY <1>3, <1>5
  <2> QED
    BY <2>1, <2>2 DEF Knows
<1>9. LastFlightKept
  BY <1>3, <1>5 DEF LastFlightKept, Done
<1> QED
  BY <1>6, <1>7, <1>8, <1>9 DEF Inv

\* Every step keeps the invariant.
LEMMA InvNext == Inv /\ [Next]_vars => Inv'
<1>1. SUFFICES ASSUME Inv, [Next]_vars PROVE Inv'
  OBVIOUS
<1>2. CASE UNCHANGED vars
  <2>1. Typed'
    BY <1>1, <1>2 DEF Inv, Typed, vars
  <2>2. \A p \in Ends : Step(p)
    BY <1>1, <1>2, <2>1, Known, TypeFacts DEF Step, vars, Inv, Local
  <2> QED
    BY <1>1, <2>2, StepKeeps DEF Ends
<1>3. CASE Next
  <2>1. PICK p \in Ends : \/ Call(p) \/ Consume(p)
                          \/ SendData(p) \/ AsyncExpire(p) \/ Elapse(p)
                          \/ \E m \in net[p] : Recv(p, m) \/ Lose(p, m)
    BY <1>3 DEF Next
  <2>2. Call(p) => Step(p)
    BY <1>1, StartFlightStep, SendFlightStep, WaitStep DEF Call
  <2>3. Consume(p) \/ SendData(p) \/ AsyncExpire(p) \/ Elapse(p) => Step(p)
    BY <1>1, ConsumeStep, QuietStep, AsyncExpireStep
  <2>4. ASSUME NEW m \in net[p], Recv(p, m) \/ Lose(p, m)
        PROVE  Step(p)
    BY <1>1, <2>4, RecvAckStep, RecvExpectedStep, WaitSeesStep, RecvDoneStep, QuietStep DEF Recv
  <2>5. Step(p)
    BY <2>1, <2>2, <2>3, <2>4
  <2> QED
    BY <1>1, <2>5, StepKeeps
<1> QED
  BY <1>1, <1>2, <1>3

\* The invariant holds throughout.
LEMMA InvSpec == Spec => []Inv
BY InvInit, InvNext, PTL DEF Spec

\* Positions, buffers and the network stay in range, for any bound on the
\* ChangeCipherSpec records that _gnutls_recv_in_buffers keeps.
THEOREM FlightTypeCorrect == Spec => []TypeOK
<1>1. Inv => TypeOK
  <2>1. SUFFICES ASSUME Inv, NEW p \in Ends
                 PROVE  /\ pos[p] \in (1..(Last + 1)) \X (0..3)
                        /\ sendbuf[p] \subseteq {f \in 1..Last : Sender(f) = p}
                        /\ ccs[p] \in 0..MaxCcs
                        /\ hbuf[p] \subseteq {m \in Messages(1..Last) : Type(m) # "CCS"}
                        /\ net[p] \subseteq Messages(1..Last) \cup {<<0, 0>>}
    BY DEF TypeOK, Inv, Typed
  <2>2. Last \in {3, 4} /\ pos[p] = <<pos[p][1], pos[p][2]>> /\ ccs[p] \in 0..MaxCcs
    BY <2>1, TypeFacts
  <2>3. \A f \in 1..Last : Len(Flights[f]) \in 1..3
    BY <2>1, FlightFacts, TypeFacts
  <2>4. Local(p) /\ Knows(p)
    BY <2>1 DEF Inv
  <2>5. pos[p][1] \in 1..(Last + 1) /\ pos[p][2] \in 0..3
    <3>1. CASE pos[p] = <<Last + 1, 1>>
      BY <2>2, <3>1
    <3>2. CASE pos[p][1] \in 1..Last /\ pos[p][2] \in {0, 1}
      BY <2>2, <3>2
    <3>3. CASE pos[p][1] \in 1..Last /\ pos[p][2] \in 1..Len(Flights[pos[p][1]])
      <4> DEFINE l == Len(Flights[pos[p][1]])
      <4>1. l \in 1..3 /\ pos[p][2] \in 1..l
        BY <2>3, <3>3
      <4> HIDE DEF l
      <4> QED
        BY <2>2, <3>3, <4>1
    <3>4. Last \in 1..Last /\ \A f \in 1..(Last - 1) : f \in 1..Last
      BY <2>2
    <3> QED
      BY <2>4, <3>1, <3>2, <3>3, <3>4 DEF Local, At, AtEnd, AtSend, AtRecv, AtLast
  <2>6. pos[p] \in (1..(Last + 1)) \X (0..3)
    BY <2>2, <2>5
  <2>7. sendbuf[p] \subseteq {f \in 1..Last : Sender(f) = p}
    BY <2>1, OwnFlights
  <2> QED
    BY <2>2, <2>4, <2>6, <2>7 DEF Knows
<1> QED
  BY <1>1, InvSpec, PTL

\* A flight is queued by _gnutls_handshake_io_cache_int only when the previous
\* one has left handshake_send_buffer: _dtls_transmit never sends messages of
\* two flights together.
THEOREM FlightsNotMixedHolds == Spec => []FlightsNotMixed
<1>1. Inv => FlightsNotMixed
  <2>1. SUFFICES ASSUME Inv, NEW p \in Ends PROVE Cardinality(sendbuf[p]) <= 1
    BY DEF FlightsNotMixed
  <2>2. sendbuf[p] = {} \/ \E f : sendbuf[p] = {f}
    BY <2>1, ZenonT(40) DEF Inv, Local, At, AtEnd, AtSend, AtRecv, AtLast
  <2>3. CASE sendbuf[p] = {}
    BY <2>3, FS_EmptySet
  <2>4. CASE \E f : sendbuf[p] = {f}
    <3>1. PICK f : sendbuf[p] = {f}
      BY <2>4
    <3>2. Cardinality({f}) = 1
      BY FS_Singleton
    <3> QED
      BY <3>1, <3>2
  <2> QED
    BY <2>2, <2>3, <2>4
<1> QED
  BY <1>1, InvSpec, PTL

\* The sender of the last flight keeps it, for _dtls_retransmit, until its peer
\* has completed the handshake, unless _dtls_async_timer_check drops it.
THEOREM LastFlightKeptHolds == Spec => []LastFlightKept
<1>1. Inv => LastFlightKept
  BY DEF Inv
<1> QED
  BY <1>1, InvSpec, PTL

\* A blocking endpoint has its flight, and no spare ChangeCipherSpec that would
\* keep it from _dtls_wait_and_retransmit, as long as it waits for the last
\* flight of a full or a resumed handshake.
THEOREM FlightHeldHolds == Spec => []FlightHeldWhileWaiting
<1>1. Inv => FlightHeldWhileWaiting
  <2>1. SUFFICES ASSUME Inv, ~mode.nonblock, mode.kind # "ticket", NEW p \in Ends,
                        Awaiting(p), pos[p][1] = Last
                 PROVE  sendbuf[p] # {} /\ ~(ccs[p] > 0)
    BY DEF FlightHeldWhileWaiting, Abandoned
  <2>2. Last \in {3, 4}
    BY <2>1, TypeFacts
  <2>3. AtLast(p, pos[p], sendbuf[p], flight_init[p], last_flight[p], inside[p])
    BY <2>1, <2>2, Places DEF AtRecv
  <2>4. ccs[p] = 0
    BY <2>1, <2>3, Known DEF AtLast, IsAsync
  <2> QED
    BY <2>1, <2>3, <2>4 DEF AtLast
<1> QED
  BY <1>1, InvSpec, PTL
============================================================================
