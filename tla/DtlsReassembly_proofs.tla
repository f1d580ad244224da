------------------------ MODULE DtlsReassembly_proofs ------------------------
(* Proofs about DtlsReassembly for all messages, flights, MTUs and sizes of  *)
(* the buffer.                                                               *)
EXTENDS DtlsReassembly, FiniteSetTheorems, TLAPS

USE ReassemblyAssumption

-----------------------------------------------------------------------------
(* Messages and fragments.                                                   *)

\* The attributes of a message are numbers.
LEMMA MessageType ==
  /\ N \in Nat
  /\ \A s \in Seqs : Size(s) \in Nat /\ Flight(s) \in Nat
<1>1. Len(Messages) \in Nat
  OBVIOUS
<1>2. ASSUME NEW s \in Seqs
      PROVE  Size(s) \in Nat /\ Flight(s) \in Nat
  <2>1. s + 1 \in 1..Len(Messages)
    BY <1>1 DEF Seqs, N
  <2> DEFINE R == [htype : Nat, length : Nat, flight : Nat]
  <2>2. Messages \in Seq(R)
    BY ReassemblyAssumption
  <2>3. ASSUME NEW x \in R PROVE x.length \in Nat /\ x.flight \in Nat
    OBVIOUS
  <2> HIDE DEF R
  <2>4. Messages[s + 1] \in R
    BY <2>1, <2>2
  <2> QED BY <2>3, <2>4 DEF Size, Flight
<1> QED BY <1>1, <1>2 DEF N

\* Fragments are proper intervals of a message.
LEMMA FragmentType ==
  ASSUME NEW frag \in AllFragments
  PROVE  /\ frag.seq \in Seqs /\ frag.start \in Nat /\ frag.end \in Nat
         /\ frag.start <= frag.end
<1>0. PICK seq \in Seqs, mtu \in MTUs : frag \in {Fragment(seq, o, mtu) : o \in Offsets(seq, mtu)}
  BY DEF AllFragments, Fragments
<1>1. PICK o \in Offsets(seq, mtu) : frag = Fragment(seq, o, mtu)
  BY <1>0
<1>2. mtu \in Nat /\ mtu >= 2 /\ Size(seq) \in Nat
  BY MessageType
<1>3. o \in Nat /\ (o < Size(seq) \/ o = 0)
  BY <1>2 DEF Offsets
<1>4. frag.seq = seq /\ frag.start = o
  BY <1>1 DEF Fragment
<1>5. frag.end = IF Size(seq) = 0 THEN 0
                 ELSE IF o + mtu > Size(seq) THEN Size(seq) - 1 ELSE o + mtu - 1
  BY <1>1 DEF Fragment
<1>6. frag.end \in Nat /\ o <= frag.end
  BY <1>2, <1>3, <1>5
<1> QED BY <1>3, <1>4, <1>6

\* A fragment carries the bytes of its interval, and only those.
LEMMA PayloadFacts ==
  ASSUME NEW frag \in AllFragments
  PROVE  /\ Payload(frag) \subseteq Whole(frag.seq)
         /\ Payload(frag) \in SUBSET (Seqs \X Nat)
         /\ \A b \in Bytes(frag.seq) :
               frag.start <= b /\ b <= frag.end => <<frag.seq, b>> \in Payload(frag)
<1>1. Payload(frag) \subseteq Whole(frag.seq)
  BY DEF Payload, Whole
<1>2. Bytes(frag.seq) \subseteq Nat
  BY FragmentType, MessageType DEF Bytes
<1>3. Whole(frag.seq) \subseteq Seqs \X Nat
  BY <1>2, FragmentType DEF Whole
<1>4. ASSUME NEW b \in Bytes(frag.seq), frag.start <= b, b <= frag.end
      PROVE  <<frag.seq, b>> \in Payload(frag)
  <2>1. b \in frag.start..frag.end
    BY <1>2, <1>4, FragmentType
  <2> QED BY <2>1, <1>4 DEF Payload
<1> QED BY <1>1, <1>3, <1>4

\* What IInv says of one entry.
Sound(entry) == /\ entry.start <= entry.end
                /\ entry.data \subseteq Whole(entry.seq)
                /\ \A b \in Bytes(entry.seq) :
                      entry.start <= b /\ b <= entry.end => <<entry.seq, b>> \in entry.data

\* A new entry is sound.
LEMMA EntryFacts ==
  ASSUME NEW frag \in AllFragments
  PROVE  Entry(frag) \in Entries /\ Entry(frag).seq = frag.seq /\ Sound(Entry(frag))
BY FragmentType, PayloadFacts DEF Entry, Entries, Sound

\* Merging a fragment of the same message keeps an entry sound: the interval
\* grows only by what touches it, or becomes a part of the fragment.
LEMMA MergedFacts ==
  ASSUME NEW entry \in Entries, Sound(entry),
         NEW frag \in AllFragments, frag.seq = entry.seq
  PROVE  /\ Merged(entry, frag) \in Entries
         /\ Merged(entry, frag).seq = entry.seq
         /\ Sound(Merged(entry, frag))
<1> DEFINE left  == frag.start < entry.start /\ frag.end + 1 >= entry.start
           right == frag.end > entry.end /\ frag.start <= entry.end + 1
           all   == entry.data \cup Payload(frag)
<1>1. /\ entry.seq \in Seqs /\ entry.start \in Nat /\ entry.end \in Nat
      /\ entry.data \in SUBSET (Seqs \X Nat)
      /\ entry = [seq |-> entry.seq, start |-> entry.start, end |-> entry.end, data |-> entry.data]
  BY DEF Entries
<1>2. Bytes(entry.seq) \subseteq Nat
  BY <1>1, MessageType DEF Bytes
<1>3. all \subseteq Whole(entry.seq) /\ all \in SUBSET (Seqs \X Nat)
  BY <1>1, PayloadFacts DEF Sound
<1>4. CASE left
  <2> DEFINE last == IF frag.end < entry.end THEN frag.end ELSE entry.end
  <2>1. Merged(entry, frag) = [seq |-> entry.seq, start |-> frag.start, end |-> last, data |-> all]
    BY <1>1, <1>4 DEF Merged
  <2>2. last \in Nat /\ frag.start <= last /\ last <= frag.end
    BY <1>1, <1>4, FragmentType DEF Sound
  <2>3. \A b \in Bytes(entry.seq) : frag.start <= b /\ b <= last => <<entry.seq, b>> \in all
    BY <1>2, <2>2, PayloadFacts, FragmentType
  <2> HIDE DEF last
  <2> QED BY <1>1, <1>3, <2>1, <2>2, <2>3, FragmentType DEF Entries, Sound
<1>5. CASE ~left /\ right
  <2>1. ~(frag.start < entry.start)
    BY <1>1, <1>5, FragmentType DEF Sound
  <2>2. Merged(entry, frag) = [seq |-> entry.seq, start |-> entry.start, end |-> frag.end, data |-> all]
    BY <1>1, <1>5, <2>1 DEF Merged
  <2>3. entry.start <= frag.end
    BY <1>1, <1>5, FragmentType DEF Sound
  <2>4. ASSUME NEW b \in Bytes(entry.seq), entry.start <= b, b <= frag.end
        PROVE  <<entry.seq, b>> \in all
    <3>1. CASE b <= entry.end
      BY <2>4, <3>1 DEF Sound
    <3>2. CASE ~(b <= entry.end)
      <4>1. frag.start <= b
        BY <1>1, <1>2, <1>5, <3>2, FragmentType
      <4> QED BY <2>4, <4>1, PayloadFacts
    <3> QED BY <3>1, <3>2
  <2> QED BY <1>1, <1>3, <2>2, <2>3, <2>4, FragmentType DEF Entries, Sound
<1>6. CASE ~left /\ ~right
  BY <1>6 DEF Merged
<1> QED BY <1>4, <1>5, <1>6

-----------------------------------------------------------------------------
(* The invariant.                                                            *)

LEMMA InitIInv == Init => IInv
<1> SUFFICES ASSUME Init PROVE IInv
  OBVIOUS
<1> USE DEF Init
<1>1. TypeOK
  <2>1. 0 \in 0..N
    BY MessageType
  <2>2. error \in Seqs \cup {None}
    OBVIOUS
  <2>3. out \in Seq([seq : Seqs, data : SUBSET (Seqs \X Nat)])
    OBVIOUS
  <2>4. /\ recv_buffer \subseteq Entries
        /\ \A entry \in recv_buffer : entry.seq >= read_seq
        /\ \A e1, e2 \in recv_buffer : e1.seq = e2.seq => e1 = e2
    OBVIOUS
  <2> QED BY <2>1, <2>2, <2>3, <2>4 DEF TypeOK
<1>2. IntervalHeld /\ EntrySound /\ EntryFlight /\ RoomForFlight
  BY DEF IntervalHeld, EntrySound, EntryFlight, RoomForFlight
<1>3. DeliveredWhole
  BY DEF DeliveredWhole
<1> QED BY <1>1, <1>2, <1>3 DEF IInv

\* Entries of the same type as a fragment are of the same message.
LEMMA SameTypeSameSeq ==
  ASSUME NEW entry \in Entries, NEW frag \in AllFragments
  PROVE  SameType(entry, frag) <=> entry.seq = frag.seq
<1>1. entry.seq \in Seqs /\ frag.seq \in Seqs
  BY FragmentType DEF Entries
<1> QED BY <1>1 DEF SameType

\* Merging keeps the entries sound, and one per message.
LEMMA MergeFacts ==
  ASSUME IInv, NEW frag \in AllFragments
  PROVE  /\ Merge(frag) \subseteq Entries
         /\ \A e \in Merge(frag) : Sound(e)
         /\ \A e1, e2 \in Merge(frag) : e1.seq = e2.seq => e1 = e2
         /\ \A e \in Merge(frag) : e.seq = frag.seq \/ \E d \in recv_buffer : d.seq = e.seq
<1>1. /\ recv_buffer \subseteq Entries
      /\ \A e1, e2 \in recv_buffer : e1.seq = e2.seq => e1 = e2
  BY DEF IInv, TypeOK
<1>2. \A e \in recv_buffer : Sound(e)
  BY DEF IInv, IntervalHeld, EntrySound, Sound
<1>3. CASE Exists(frag)
  <2> DEFINE New(e) == IF SameType(e, frag) THEN Merged(e, frag) ELSE e
  <2>1. Merge(frag) = {New(e) : e \in recv_buffer}
    BY <1>3 DEF Merge
  <2>2. ASSUME NEW e \in recv_buffer
        PROVE  New(e) \in Entries /\ New(e).seq = e.seq /\ Sound(New(e))
    <3>1. e \in Entries /\ Sound(e)
      BY <1>1, <1>2
    <3>2. CASE SameType(e, frag)
      BY <3>1, <3>2, SameTypeSameSeq, MergedFacts
    <3> QED BY <3>1, <3>2
  <2> HIDE DEF New
  <2> QED BY <1>1, <2>1, <2>2
<1>4. CASE ~Exists(frag)
  <2>1. Merge(frag) = recv_buffer \cup {Entry(frag)}
    BY <1>4 DEF Merge
  <2>2. \A e \in recv_buffer : e.seq # frag.seq
    BY <1>1, <1>4, SameTypeSameSeq DEF Exists
  <2> QED BY <1>1, <1>2, <2>1, <2>2, EntryFacts
<1> QED BY <1>3, <1>4

\* The buffer holds messages of one flight, so it is full only with all of a
\* flight that has as many messages as the buffer has entries.
LEMMA OneFlight ==
  ASSUME IInv, recv_buffer # {}
  PROVE  /\ read_seq \in Seqs
         /\ Cardinality(recv_buffer) \in Nat
         /\ Cardinality(recv_buffer) <= MAX_HANDSHAKE_MSGS
         /\ Cardinality(recv_buffer) = MAX_HANDSHAKE_MSGS =>
               /\ {entry.seq : entry \in recv_buffer} = FlightMessages(read_seq)
               /\ Cardinality(FlightMessages(read_seq)) = MAX_HANDSHAKE_MSGS
<1>1. /\ recv_buffer \subseteq Entries
      /\ read_seq \in 0..N
      /\ \A e \in recv_buffer : e.seq >= read_seq
      /\ \A e1, e2 \in recv_buffer : e1.seq = e2.seq => e1 = e2
      /\ \A e \in recv_buffer : Flight(e.seq) = Flight(read_seq)
  BY DEF IInv, TypeOK, EntryFlight
<1>2. PICK d \in recv_buffer : TRUE
  OBVIOUS
<1>3. d.seq \in Seqs /\ Flight(read_seq) = Flight(d.seq) /\ d.seq >= read_seq
  BY <1>1 DEF Entries
<1>4. read_seq \in Seqs
  BY <1>1, <1>3, MessageType DEF Seqs
<1> DEFINE T == FlightMessages(read_seq)
           f == [e \in recv_buffer |-> e.seq]
<1>5. Cardinality(T) <= MAX_HANDSHAKE_MSGS
  BY <1>4
<1>6. IsFiniteSet(T)
  <2>1. N - 1 \in Int
    BY MessageType
  <2>2. IsFiniteSet(Seqs)
    BY <2>1, FS_Interval DEF Seqs
  <2>3. T \in SUBSET Seqs
    BY DEF FlightMessages
  <2> QED BY <2>2, <2>3, FS_Subset
<1>7. f \in Injection(recv_buffer, T)
  <2>1. f \in [recv_buffer -> T]
    BY <1>1 DEF Entries, FlightMessages
  <2>2. \A a, b \in recv_buffer : f[a] = f[b] => a = b
    BY <1>1
  <2> QED BY <2>1, <2>2 DEF Injection, IsInjective
<1>8. f \in Surjection(recv_buffer, T) => {e.seq : e \in recv_buffer} = T
  <2>1. \A e \in recv_buffer : e.seq \in T
    BY <1>1 DEF Entries, FlightMessages
  <2>2. SUFFICES ASSUME f \in Surjection(recv_buffer, T), NEW t \in T
                 PROVE  \E e \in recv_buffer : e.seq = t
    BY <2>1
  <2>3. PICK e \in recv_buffer : f[e] = t
    BY <2>2 DEF Surjection
  <2> QED BY <2>3
<1> HIDE DEF T, f
<1>9. /\ IsFiniteSet(recv_buffer) /\ Cardinality(recv_buffer) <= Cardinality(T)
      /\ Cardinality(recv_buffer) = Cardinality(T) <=> f \in Surjection(recv_buffer, T)
  BY <1>6, <1>7, FS_Injection
<1>10. Cardinality(recv_buffer) \in Nat /\ Cardinality(T) \in Nat
  BY <1>6, <1>9, FS_CardinalityType
<1>11. MAX_HANDSHAKE_MSGS \in Nat
  OBVIOUS
<1>12. Cardinality(recv_buffer) = MAX_HANDSHAKE_MSGS =>
          {e.seq : e \in recv_buffer} = T /\ Cardinality(T) = MAX_HANDSHAKE_MSGS
  BY <1>5, <1>8, <1>9, <1>10, <1>11
<1> QED BY <1>4, <1>5, <1>9, <1>10, <1>11, <1>12 DEF T

\* A flight has a message, so the buffer has an entry.
LEMMA SomeEntry == ASSUME NEW s \in Seqs PROVE MAX_HANDSHAKE_MSGS > 0
<1> DEFINE T == FlightMessages(s)
<1>1. IsFiniteSet(Seqs)
  <2>1. N - 1 \in Int
    BY MessageType
  <2> QED BY <2>1, FS_Interval DEF Seqs
<1>2. T \in SUBSET Seqs /\ s \in T
  BY DEF FlightMessages
<1>3. IsFiniteSet(T)
  BY <1>1, <1>2, FS_Subset
<1>4. Cardinality(T) \in Nat /\ Cardinality(T) # 0
  BY <1>2, <1>3, FS_CardinalityType, FS_EmptySet
<1>5. Cardinality(T) <= MAX_HANDSHAKE_MSGS /\ MAX_HANDSHAKE_MSGS \in Nat
  OBVIOUS
<1> HIDE DEF T
<1> QED BY <1>4, <1>5

-----------------------------------------------------------------------------
(* The steps.                                                                *)

\* A fragment is refused only when it is a replay that meets a full buffer.
LEMMA RefusedStep ==
  ASSUME IInv, NEW frag \in AllFragments, Parse(frag),
         ~Exists(frag), Cardinality(recv_buffer) >= MAX_HANDSHAKE_MSGS
  PROVE  IInv'
<1>1. /\ error' = frag.seq
      /\ UNCHANGED <<recv_buffer, read_seq, out>>
      /\ ~ \E entry \in recv_buffer : Deliverable(entry)
      /\ read_seq < N => Flight(frag.seq) <= Flight(read_seq)
  BY DEF Parse
<1>2. frag.seq \in Seqs
  BY FragmentType
<1>3. recv_buffer # {}
  <2>1. MAX_HANDSHAKE_MSGS \in Nat /\ MAX_HANDSHAKE_MSGS > 0
    BY <1>2, SomeEntry
  <2>2. recv_buffer = {} => Cardinality(recv_buffer) = 0
    BY FS_EmptySet
  <2> QED BY <2>1, <2>2
<1>4. /\ read_seq \in Seqs
      /\ {entry.seq : entry \in recv_buffer} = FlightMessages(read_seq)
      /\ Cardinality(FlightMessages(read_seq)) = MAX_HANDSHAKE_MSGS
  <2>1. MAX_HANDSHAKE_MSGS \in Nat
    OBVIOUS
  <2> QED BY <1>3, <2>1, OneFlight
<1>5. frag.seq < read_seq
  <2>1. \A e \in recv_buffer : e.seq # frag.seq
    <3>1. recv_buffer \subseteq Entries
      BY DEF IInv, TypeOK
    <3> QED BY <3>1, SameTypeSameSeq DEF Exists
  <2>2. Flight(frag.seq) # Flight(read_seq)
    BY <1>2, <1>4, <2>1 DEF FlightMessages
  <2>3. Flight(frag.seq) <= Flight(read_seq)
    BY <1>1, <1>4, MessageType DEF Seqs
  <2>4. read_seq <= frag.seq => Flight(read_seq) <= Flight(frag.seq)
    BY <1>2, <1>4
  <2>5. Flight(frag.seq) \in Nat /\ Flight(read_seq) \in Nat
    BY <1>2, <1>4, MessageType
  <2> QED BY <1>2, <1>4, <2>2, <2>3, <2>4, <2>5, MessageType DEF Seqs
<1>6. TypeOK'
  BY <1>1, <1>2 DEF IInv, TypeOK
<1>7. IntervalHeld' /\ EntrySound' /\ EntryFlight' /\ DeliveredWhole'
  BY <1>1 DEF IInv, IntervalHeld, EntrySound, EntryFlight, DeliveredWhole
<1>8. RoomForFlight'
  BY <1>1, <1>4, <1>5 DEF RoomForFlight, Deliverable
<1> QED BY <1>6, <1>7, <1>8 DEF IInv

\* A fragment of a flight sent so far is merged, or its message discarded.
LEMMA ParseStep ==
  ASSUME IInv, NEW frag \in AllFragments, Parse(frag)
  PROVE  IInv'
<1>1. /\ read_seq \in 0..N /\ N \in Nat
      /\ recv_buffer \subseteq Entries
  BY MessageType DEF IInv, TypeOK
<1>2. frag.seq \in Seqs
  BY FragmentType
<1>3. CASE ~Exists(frag) /\ Cardinality(recv_buffer) >= MAX_HANDSHAKE_MSGS
  BY <1>3, RefusedStep
<1>4. SUFFICES ASSUME ~(~Exists(frag) /\ Cardinality(recv_buffer) >= MAX_HANDSHAKE_MSGS)
               PROVE  IInv'
  BY <1>3
<1>5. /\ recv_buffer' = NotReplayed(Merge(frag))
      /\ UNCHANGED <<read_seq, out, error>>
      /\ error = None
  BY <1>4 DEF Parse
<1>6. \A e \in recv_buffer' : e \in Merge(frag) /\ e.seq >= read_seq
  BY <1>5 DEF NotReplayed
<1>7. TypeOK'
  <2>1. recv_buffer' \subseteq Entries
    BY <1>6, MergeFacts
  <2>2. \A e1, e2 \in recv_buffer' : e1.seq = e2.seq => e1 = e2
    BY <1>6, MergeFacts
  <2>3. \A e \in recv_buffer' : e.seq >= read_seq'
    BY <1>5, <1>6
  <2>4. read_seq' \in 0..N
    BY <1>1, <1>5
  <2>5. error \in Seqs \cup {None} /\ out \in Seq([seq : Seqs, data : SUBSET (Seqs \X Nat)])
    BY DEF IInv, TypeOK
  <2>6. (error \in Seqs \cup {None})' /\ (out \in Seq([seq : Seqs, data : SUBSET (Seqs \X Nat)]))'
    BY <1>5, <2>5
  <2> QED BY <2>1, <2>2, <2>3, <2>4, <2>6 DEF TypeOK
<1>8. IntervalHeld' /\ EntrySound'
  <2>1. \A e \in recv_buffer' : Sound(e)
    BY <1>6, MergeFacts
  <2> QED BY <2>1 DEF Sound, IntervalHeld, EntrySound
<1>9. EntryFlight'
  <2> SUFFICES ASSUME NEW e \in recv_buffer'
               PROVE  Flight(e.seq) = Flight(read_seq)
    BY <1>5 DEF EntryFlight
  <2>1. e.seq \in Seqs /\ e.seq >= read_seq
    BY <1>6, MergeFacts DEF Entries
  <2>2. read_seq \in Seqs /\ read_seq < N
    BY <1>1, <2>1 DEF Seqs
  <2>3. CASE e.seq = frag.seq
    <3>1. Flight(frag.seq) <= Flight(read_seq)
      BY <2>2 DEF Parse
    <3>2. Flight(read_seq) <= Flight(e.seq)
      BY <2>1, <2>2 DEF Seqs
    <3>3. Flight(e.seq) \in Nat /\ Flight(read_seq) \in Nat
      BY <2>1, <2>2, MessageType
    <3> QED BY <2>3, <3>1, <3>2, <3>3
  <2>4. CASE e.seq # frag.seq
    <3>1. PICK d \in recv_buffer : d.seq = e.seq
      BY <1>6, <2>4, MergeFacts
    <3> QED BY <3>1 DEF IInv, EntryFlight
  <2> QED BY <2>3, <2>4
<1>10. DeliveredWhole' /\ RoomForFlight'
  BY <1>5 DEF IInv, DeliveredWhole, RoomForFlight
<1> QED BY <1>7, <1>8, <1>9, <1>10 DEF IInv

\* The next message is taken out when it is complete.
LEMMA GetLastPacketStep ==
  ASSUME IInv, GetLastPacket
  PROVE  IInv'
<1>1. /\ read_seq \in 0..N /\ N \in Nat
      /\ recv_buffer \subseteq Entries
      /\ \A e1, e2 \in recv_buffer : e1.seq = e2.seq => e1 = e2
      /\ \A e \in recv_buffer : e.seq >= read_seq
  BY MessageType DEF IInv, TypeOK
<1>2. PICK entry \in recv_buffer :
         /\ entry.seq = read_seq
         /\ Complete(entry)
         /\ recv_buffer' = recv_buffer \ {entry}
         /\ out' = Append(out, [seq |-> entry.seq, data |-> entry.data])
  BY DEF GetLastPacket, Deliverable
<1>3. read_seq' = read_seq + 1 /\ error' = error /\ error = None
  BY DEF GetLastPacket
<1>4. /\ entry.seq \in Seqs /\ entry.start \in Nat /\ entry.end \in Nat
      /\ entry.data \in SUBSET (Seqs \X Nat)
  BY <1>1 DEF Entries
<1>5. read_seq \in Seqs /\ read_seq \in Nat
  BY <1>2, <1>4 DEF Seqs
<1> DEFINE M == [seq : Seqs, data : SUBSET (Seqs \X Nat)]
           m == [seq |-> entry.seq, data |-> entry.data]
<1>6. m \in M /\ out \in Seq(M)
  BY <1>4 DEF IInv, TypeOK
<1>7. entry.data = Whole(entry.seq)
  <2>1. entry.data \subseteq Whole(entry.seq)
    BY DEF IInv, EntrySound
  <2>2. Size(entry.seq) \in Nat
    BY <1>4, MessageType
  <2>3. ASSUME NEW b \in Bytes(entry.seq)
        PROVE  <<entry.seq, b>> \in entry.data
    <3>1. entry.start <= b /\ b <= entry.end
      BY <1>2, <1>4, <2>2 DEF Complete, Bytes
    <3> QED BY <3>1 DEF IInv, IntervalHeld
  <2> QED BY <2>1, <2>3 DEF Whole
<1>8. \A e \in recv_buffer' : e \in recv_buffer /\ e.seq \in Seqs /\ e.seq >= read_seq + 1
  <2> SUFFICES ASSUME NEW e \in recv_buffer'
               PROVE  e \in recv_buffer /\ e.seq \in Seqs /\ e.seq >= read_seq + 1
    OBVIOUS
  <2>1. e \in recv_buffer /\ e # entry
    BY <1>2
  <2>2. e.seq \in Seqs /\ e.seq # read_seq /\ e.seq >= read_seq
    BY <1>1, <1>2, <2>1 DEF Entries
  <2> QED BY <1>5, <2>1, <2>2 DEF Seqs
<1>9. TypeOK'
  <2>1. recv_buffer' \subseteq Entries
    BY <1>1, <1>8
  <2>2. \A e1, e2 \in recv_buffer' : e1.seq = e2.seq => e1 = e2
    BY <1>1, <1>8
  <2>3. \A e \in recv_buffer' : e.seq >= read_seq'
    BY <1>3, <1>8
  <2>4. read_seq' \in 0..N
    BY <1>1, <1>3, <1>5 DEF Seqs
  <2>5. out' \in Seq(M)
    <3> HIDE DEF M, m
    <3>1. out' = Append(out, m)
      BY <1>2 DEF m
    <3> QED BY <1>6, <3>1
  <2>6. error \in Seqs \cup {None}
    BY DEF IInv, TypeOK
  <2>7. error' \in Seqs \cup {None}
    BY <1>3, <2>6
  <2> QED BY <2>1, <2>2, <2>3, <2>4, <2>5, <2>7 DEF TypeOK
<1>10. IntervalHeld' /\ EntrySound'
  BY <1>8 DEF IInv, IntervalHeld, EntrySound
<1>11. EntryFlight'
  <2> SUFFICES ASSUME NEW e \in recv_buffer'
               PROVE  Flight(e.seq) = Flight(read_seq + 1)
    BY <1>3 DEF EntryFlight
  <2>1. e \in recv_buffer /\ e.seq \in Seqs /\ e.seq >= read_seq + 1
    BY <1>8
  <2>2. read_seq + 1 \in Seqs
    BY <1>1, <1>5, <2>1 DEF Seqs
  <2>3. Flight(e.seq) = Flight(read_seq)
    BY <2>1 DEF IInv, EntryFlight
  <2>4. Flight(read_seq) <= Flight(read_seq + 1) /\ Flight(read_seq + 1) <= Flight(e.seq)
    BY <1>5, <2>1, <2>2 DEF Seqs
  <2>5. Flight(read_seq) \in Nat /\ Flight(read_seq + 1) \in Nat
    BY <1>5, <2>2, MessageType
  <2> QED BY <2>3, <2>4, <2>5
<1>12. DeliveredWhole'
  <2> HIDE DEF M, m
  <2>1. out' = Append(out, m)
    BY <1>2 DEF m
  <2>2. Len(out) = read_seq /\ Len(out) \in Nat
    BY <1>6 DEF IInv, DeliveredWhole
  <2>3. Len(out') = Len(out) + 1
    BY <1>6, <2>1
  <2>4. ASSUME NEW i \in 1..Len(out')
        PROVE  out'[i] = [seq |-> i - 1, data |-> Whole(i - 1)]
    <3>1. CASE i <= Len(out)
      <4>1. i \in 1..Len(out)
        BY <2>2, <2>3, <3>1
      <4>2. out'[i] = out[i]
        BY <1>6, <2>1, <4>1
      <4> QED BY <4>1, <4>2 DEF IInv, DeliveredWhole
    <3>2. CASE ~(i <= Len(out))
      <4>1. i = Len(out) + 1
        BY <2>2, <2>3, <3>2
      <4>2. out'[i] = m
        BY <1>6, <2>1, <4>1
      <4>3. entry.seq = i - 1
        BY <1>2, <2>2, <4>1
      <4> QED BY <1>7, <4>2, <4>3 DEF m
    <3> QED BY <3>1, <3>2
  <2>5. Len(out') = read_seq'
    BY <1>3, <2>2, <2>3
  <2> QED BY <2>4, <2>5 DEF DeliveredWhole, Whole, Bytes, Size
<1>13. RoomForFlight'
  BY <1>3 DEF RoomForFlight
<1> QED BY <1>9, <1>10, <1>11, <1>12, <1>13 DEF IInv

LEMMA NextIInv == IInv /\ [Next]_vars => IInv'
<1> SUFFICES ASSUME IInv, [Next]_vars PROVE IInv'
  OBVIOUS
<1>1. CASE \E frag \in AllFragments : Parse(frag)
  BY <1>1, ParseStep
<1>2. CASE GetLastPacket
  BY <1>2, GetLastPacketStep
<1>3. CASE UNCHANGED vars
  <2>1. TypeOK'
    BY <1>3 DEF vars, IInv, TypeOK
  <2>2. IntervalHeld' /\ EntrySound' /\ EntryFlight'
    BY <1>3 DEF vars, IInv, IntervalHeld, EntrySound, EntryFlight
  <2>3. DeliveredWhole' /\ RoomForFlight'
    BY <1>3 DEF vars, IInv, DeliveredWhole, RoomForFlight, Deliverable
  <2> QED BY <2>1, <2>2, <2>3 DEF IInv
<1> QED BY <1>1, <1>2, <1>3 DEF Next

-----------------------------------------------------------------------------
\* The reassembly buffer of buffers.c keeps to IInv in every behaviour.
THEOREM Invariance == Spec => []IInv
<1>1. Spec => Init /\ [][Next]_vars
  BY DEF Spec
<1> QED BY <1>1, InitIInv, NextIInv, PTL

\* handshake_recv_buffer has one entry per message and none of a message that
\* get_last_packet returned before.
THEOREM TypeCorrect == Spec => []TypeOK
<1>1. IInv => TypeOK
  BY DEF IInv
<1> QED BY <1>1, Invariance, PTL

\* The interval an entry claims was copied by merge_handshake_packet, for every
\* set of MTUs and every order of the fragments.
THEOREM IntervalHeldTheorem == Spec => []IntervalHeld
<1>1. IInv => IntervalHeld
  BY DEF IInv
<1> QED BY <1>1, Invariance, PTL

\* get_last_packet returns the messages of the peer once, in order and whole,
\* for every handshake and every loss, repetition and order of its fragments.
THEOREM DeliveredWholeTheorem == Spec => []DeliveredWhole
<1>1. IInv => DeliveredWhole
  BY DEF IInv
<1> QED BY <1>1, Invariance, PTL

\* For all flights of at most MAX_HANDSHAKE_MSGS messages, merge_handshake_packet
\* refuses no message of the flight being read: only a late copy of an earlier
\* message can be refused, while the buffer holds all of a flight of the
\* largest size and the first message of it is incomplete.
THEOREM RoomForFlightTheorem == Spec => []RoomForFlight
<1>1. IInv => RoomForFlight
  BY DEF IInv
<1> QED BY <1>1, Invariance, PTL
=============================================================================
