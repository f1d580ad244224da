--------------------------- MODULE DtlsReassembly ---------------------------
(***************************************************************************)
(* Reassembly of fragmented DTLS handshake messages: transmit_message       *)
(* (lib/dtls.c) cuts the messages of a flight into fragments, and           *)
(* parse_handshake_header, merge_handshake_packet,                          *)
(* _gnutls_parse_record_buffered_msgs and get_last_packet (lib/buffers.c)   *)
(* put them together again.                                                 *)
(*                                                                          *)
(* Flights are retransmitted and the network loses, repeats and reorders    *)
(* records, so any fragment of the flights sent so far may arrive at any     *)
(* time, cut for any of the MTUs in use.                                    *)
(***************************************************************************)
EXTENDS Integers, Sequences, FiniteSets

CONSTANTS Messages,             \* the peer's messages, each with its handshake
                                \* type, its length and the flight it is part of
          MTUs,                 \* payload sizes transmit_message cuts to
          MAX_HANDSHAKE_MSGS    \* size of handshake_recv_buffer (6)

N    == Len(Messages)
Seqs == 0..(N - 1)              \* handshake sequence numbers

HType(seq)  == Messages[seq + 1].htype
Size(seq)   == Messages[seq + 1].length
Flight(seq) == Messages[seq + 1].flight
Bytes(seq)  == 0..(Size(seq) - 1)

FlightMessages(seq) == {t \in Seqs : Flight(t) = Flight(seq)}

\* A handshake uses a type once in each direction, flights are numbered in
\* order, no flight has more messages than the buffer has entries (the comment
\* on MAX_HANDSHAKE_MSGS), and a fragment has room for two bytes.
ASSUME ReassemblyAssumption ==
    /\ Messages \in Seq([htype : Nat, length : Nat, flight : Nat])
    /\ \A s, t \in Seqs : HType(s) = HType(t) => s = t
    /\ \A s, t \in Seqs : s <= t => Flight(s) <= Flight(t)
    /\ MAX_HANDSHAKE_MSGS \in Nat
    /\ \A s \in Seqs : Cardinality(FlightMessages(s)) <= MAX_HANDSHAKE_MSGS
    /\ MTUs \subseteq (Nat \ {0, 1})

VARIABLES recv_buffer,          \* handshake_recv_buffer, as a set
          read_seq,             \* hsk_read_seq
          out,                  \* messages handed to the handshake layer
          error                 \* the message that was refused with
                                \* GNUTLS_E_TOO_MANY_HANDSHAKE_PACKETS, or None

vars == <<recv_buffer, read_seq, out, error>>

None == -1                      \* not a sequence number

\* The offsets transmit_message sends fragments at; an empty message has one
\* empty fragment.
Offsets(seq, mtu) == {o \in 0..Size(seq) : o % mtu = 0 /\ (o < Size(seq) \/ o = 0)}

\* A fragment as parse_handshake_header sees it: an empty one ends at 0.
Fragment(seq, o, mtu) ==
    [seq |-> seq, start |-> o,
     end |-> IF Size(seq) = 0 THEN 0
             ELSE IF o + mtu > Size(seq) THEN Size(seq) - 1 ELSE o + mtu - 1]

Fragments(seq) == UNION {{Fragment(seq, o, mtu) : o \in Offsets(seq, mtu)} : mtu \in MTUs}

AllFragments == UNION {Fragments(seq) : seq \in Seqs}

\* The bytes of a fragment, and of a whole message.
Payload(frag) == {<<frag.seq, b>> : b \in (frag.start..frag.end) \cap Bytes(frag.seq)}
Whole(seq)    == {<<seq, b>> : b \in Bytes(seq)}

Init == /\ recv_buffer = {}
        /\ read_seq = 0
        /\ out = <<>>
        /\ error = None

-----------------------------------------------------------------------------
(* merge_handshake_packet: what the entry of the message becomes.  data is  *)
(* the set of bytes that have been copied into its buffer.                  *)

\* Mutant: the fragments need not touch.
MergedGap(entry, frag) ==
    IF frag.start < entry.start
    THEN [entry EXCEPT !.start = frag.start, !.data = @ \cup Payload(frag)]
    ELSE IF frag.end > entry.end
    THEN [entry EXCEPT !.end = frag.end, !.data = @ \cup Payload(frag)]
    ELSE entry

\* Mutant: a fragment before the others is not merged.
MergedForward(entry, frag) ==
    IF frag.end > entry.end /\ frag.start <= entry.end + 1
    THEN [entry EXCEPT !.end = frag.end, !.data = @ \cup Payload(frag)]
    ELSE entry

\* A fragment that extends the interval to the left makes it end with the
\* fragment if that ends earlier; one that touches nothing is dropped.
Merged(entry, frag) ==
    IF frag.start < entry.start /\ frag.end + 1 >= entry.start
    THEN [entry EXCEPT !.start = frag.start,
                       !.end = IF frag.end < @ THEN frag.end ELSE @,
                       !.data = @ \cup Payload(frag)]
    ELSE IF frag.end > entry.end /\ frag.start <= entry.end + 1
    THEN [entry EXCEPT !.start = IF frag.start < @ THEN frag.start ELSE @,
                       !.end = frag.end,
                       !.data = @ \cup Payload(frag)]
    ELSE entry

Entry(frag) == [seq |-> frag.seq, start |-> frag.start, end |-> frag.end, data |-> Payload(frag)]

\* Entries are looked up by handshake type.
SameType(entry, frag) == HType(entry.seq) = HType(frag.seq)
Exists(frag) == \E entry \in recv_buffer : SameType(entry, frag)

Merge(frag) ==
    IF Exists(frag)
    THEN {IF SameType(entry, frag) THEN Merged(entry, frag) ELSE entry : entry \in recv_buffer}
    ELSE recv_buffer \cup {Entry(frag)}

\* Mutant: replayed messages stay in the buffer.
NotReplayedAny(entries) == entries

\* Messages that were handed over before are discarded again.
NotReplayed(entries) == {entry \in entries : entry.seq >= read_seq}

\* Mutant: a message counts as complete when its last byte is there.
CompleteEnd(entry) == Size(entry.seq) = 0 \/ entry.end = Size(entry.seq) - 1

Complete(entry) == \/ entry.start = 0 /\ entry.end + 1 = Size(entry.seq)
                   \/ Size(entry.seq) = 0

\* get_last_packet finds the message with the lowest sequence number, if it is
\* the next one and complete.
Deliverable(entry) == /\ \A other \in recv_buffer : entry.seq <= other.seq
                      /\ entry.seq = read_seq
                      /\ Complete(entry)

\* _gnutls_parse_record_buffered_msgs of a record with one fragment, when
\* _gnutls_handshake_io_recv_int found no message to return.  The peer has sent
\* the flights up to the one being read: it starts the next one after the
\* answer to this one.  A full buffer is found before the fragment is compared
\* with hsk_read_seq, and the error is fatal.
Parse(frag) ==
    /\ error = None
    /\ ~ \E entry \in recv_buffer : Deliverable(entry)
    /\ read_seq < N => Flight(frag.seq) <= Flight(read_seq)
    /\ IF ~Exists(frag) /\ Cardinality(recv_buffer) >= MAX_HANDSHAKE_MSGS
       THEN error' = frag.seq /\ UNCHANGED recv_buffer
       ELSE recv_buffer' = NotReplayed(Merge(frag)) /\ UNCHANGED error
    /\ UNCHANGED <<read_seq, out>>

\* get_last_packet.
GetLastPacket ==
    /\ error = None
    /\ \E entry \in recv_buffer :
          /\ Deliverable(entry)
          /\ recv_buffer' = recv_buffer \ {entry}
          /\ out' = Append(out, [seq |-> entry.seq, data |-> entry.data])
    /\ read_seq' = read_seq + 1
    /\ UNCHANGED error

Next == (\E frag \in AllFragments : Parse(frag)) \/ GetLastPacket

\* Retransmissions and the network let every fragment arrive again and again.
Fairness == /\ WF_vars(GetLastPacket)
            /\ \A frag \in AllFragments : WF_vars(Parse(frag))

Spec == Init /\ [][Next]_vars /\ Fairness

-----------------------------------------------------------------------------
Entries == [seq : Seqs, start : Nat, end : Nat, data : SUBSET (Seqs \X Nat)]

\* The state is well formed: handshake_recv_buffer has at most one entry per
\* message and none of a message that get_last_packet returned before.
TypeOK == /\ recv_buffer \subseteq Entries
          /\ read_seq \in 0..N
          /\ out \in Seq([seq : Seqs, data : SUBSET (Seqs \X Nat)])
          /\ error \in Seqs \cup {None}
          /\ \A entry \in recv_buffer : entry.seq >= read_seq
          /\ \A e1, e2 \in recv_buffer : e1.seq = e2.seq => e1 = e2

\* The interval [start_offset, end_offset] that an entry claims to hold was
\* really copied into its buffer by merge_handshake_packet, however fragments
\* cut for different MTUs overlap.
IntervalHeld == \A entry \in recv_buffer : \A b \in Bytes(entry.seq) :
                    entry.start <= b /\ b <= entry.end => <<entry.seq, b>> \in entry.data

\* get_last_packet hands every message to the handshake layer once, in order
\* and with every byte, whatever the network repeated or reordered.
DeliveredWhole == /\ Len(out) = read_seq
                  /\ \A i \in 1..Len(out) : out[i] = [seq |-> i - 1, data |-> Whole(i - 1)]

\* merge_handshake_packet has room for the flight being read, whatever was
\* replayed before: GNUTLS_E_TOO_MANY_HANDSHAKE_PACKETS is never the answer to
\* a message of that flight.  It does end a handshake between honest peers: a
\* late fragment of a message that was returned before is refused while all
\* MAX_HANDSHAKE_MSGS messages of a flight are in the buffer and the first of
\* them still lacks bytes.
RoomForFlight == error # None =>
    /\ error < read_seq
    /\ {entry.seq : entry \in recv_buffer} = FlightMessages(read_seq)
    /\ Cardinality(FlightMessages(read_seq)) = MAX_HANDSHAKE_MSGS
    /\ ~ \E entry \in recv_buffer : Deliverable(entry)

\* What the proofs of these properties rest on besides them: an entry claims a
\* proper interval and holds bytes of its own message only, and it belongs to
\* the flight being read.
EntrySound == \A entry \in recv_buffer : entry.start <= entry.end /\ entry.data \subseteq Whole(entry.seq)
EntryFlight == \A entry \in recv_buffer : Flight(entry.seq) = Flight(read_seq)

IInv == /\ TypeOK /\ IntervalHeld /\ EntrySound /\ EntryFlight
        /\ DeliveredWhole /\ RoomForFlight

\* Every message of the peer is delivered in the end, unless a replay met a
\* full buffer: no order of fragments leaves merge_handshake_packet with an
\* entry that can no longer grow.
AllDelivered == <>(read_seq = N \/ error # None)
=============================================================================
