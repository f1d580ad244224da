------------------------- MODULE RecordLayer_proofs -------------------------
(***************************************************************************)
(* Proofs about the two parts of the record layer.  DtlsWindow, for every   *)
(* window width, sequence range and number of epochs: no record is accepted *)
(* twice, and the bitmap implements the abstract replay filter.  Epochs,    *)
(* for every table size, epoch width and number of queued messages: the     *)
(* slots stay aligned and no epoch in use is collected.                     *)
(***************************************************************************)
EXTENDS DtlsWindow, Epochs, WellFoundedInduction, TLAPS

USE WindowAssumption, RangeAssumption

\* The initial state satisfies the inductive invariant.
LEMMA InitWindowInv == WindowInit => WindowInv
<1> SUFFICES ASSUME WindowInit PROVE WindowInv
  OBVIOUS
<1>1. accepted \in [Records -> Nat] /\ \A r \in Records : accepted[r] = 0
  BY DEF WindowInit
<1>b. have_recv \in BOOLEAN /\ valid \in BOOLEAN
  BY DEF WindowInit
<1>s. epoch \in Epochs /\ sw_next \in 0..(MaxSeq + 1)
  BY DEF WindowInit, Epochs
<1>2. WindowTypeOK
  BY <1>1, <1>b, <1>s DEF WindowInit, WindowTypeOK
<1>3. NoReplay /\ FreshEpochs
  BY <1>1 DEF NoReplay, FreshEpochs
<1>4. WindowExact
  BY DEF WindowInit, WindowExact
<1> QED BY <1>2, <1>3, <1>4 DEF WindowInv

\* An accepted record was never accepted before, and accepting it counts it.
LEMMA AcceptCounts ==
  ASSUME WindowInv, NEW r \in Records, RecvAccepted(r)
  PROVE  /\ accepted[r] = 0
         /\ accepted' \in [Records -> Nat]
         /\ accepted'[r] = 1
         /\ \A q \in Records : q # r => accepted'[q] = accepted[q]
         /\ r[1] = epoch /\ r[2] \in Seqs /\ r = <<epoch, r[2]>>
         /\ epoch' = epoch
<1>1. r[1] = epoch /\ r[2] \in Seqs /\ r = <<epoch, r[2]>> /\ epoch' = epoch
  BY DEF RecvAccepted, Records
<1>2. accepted[r] = 0
  <2>1. CASE First(r[2])
    BY <1>1, <2>1 DEF First, WindowInv, FreshEpochs
  <2>2. CASE Expected(r[2]) \/ Newer(r[2])
    BY <1>1, <2>2 DEF Expected, Newer, WindowInv, WindowTypeOK, WindowExact, Seqs
  <2>3. CASE Older(r[2])
    BY <1>1, <2>3 DEF Older, WindowInv, WindowTypeOK, WindowExact, Seqs
  <2> QED BY <2>1, <2>2, <2>3 DEF RecvAccepted
<1>3. accepted' = [accepted EXCEPT ![r] = accepted[r] + 1] /\ accepted \in [Records -> Nat]
  BY DEF RecvAccepted, WindowInv, WindowTypeOK
<1> QED BY <1>1, <1>2, <1>3

\* Accepting a record keeps the bitmap exact.
LEMMA AcceptWindowExact ==
  ASSUME WindowInv, NEW r \in Records, RecvAccepted(r)
  PROVE  WindowExact' /\ sw_bits' \in SUBSET Bits /\ sw_next' \in 0..(MaxSeq + 1)
         /\ have_recv' = TRUE
<1> DEFINE n == r[2]
<1>1. /\ accepted[r] = 0 /\ accepted'[r] = 1
      /\ \A q \in Records : q # r => accepted'[q] = accepted[q]
      /\ r[1] = epoch /\ n \in Seqs /\ r = <<epoch, n>> /\ epoch' = epoch
  BY AcceptCounts
<1>2. /\ accepted'[<<epoch, n>>] = 1
      /\ \A s \in Seqs : s # n => accepted'[<<epoch, s>>] = accepted[<<epoch, s>>]
  <2>1. \A s \in Seqs : <<epoch, s>> \in Records /\ (s # n => <<epoch, s>> # r)
    BY <1>1 DEF WindowInv, WindowTypeOK, Records
  <2> QED BY <1>1, <2>1
<1>3. WindowTypeOK /\ WindowExact /\ FreshEpochs
  BY DEF WindowInv
<1>4. n \in Nat /\ n <= MaxSeq /\ sw_next \in Nat /\ sw_next <= MaxSeq + 1
  BY <1>1, <1>3 DEF Seqs, WindowTypeOK
<1>5. \A s \in Seqs : s \in Nat
  BY DEF Seqs
<1> HIDE DEF n
<1>6. CASE First(n)
  <2>1. /\ have_recv' = TRUE /\ sw_next' = n + 1 /\ sw_bits' = Bits
    BY <1>6 DEF First, EmptyBitmap
  <2>2. \A s \in Seqs : accepted[<<epoch, s>>] = 0
    BY <1>3, <1>6 DEF First, FreshEpochs, WindowTypeOK, Records
  <2> QED BY <1>1, <1>2, <1>4, <1>5, <2>1, <2>2 DEF WindowExact, Bits
<1>7. CASE Expected(n)
  <2>1. /\ have_recv /\ have_recv' = TRUE /\ n = sw_next /\ sw_next' = sw_next + 1
        /\ sw_bits' = ShiftLeft(sw_bits, 1)
    BY <1>3, <1>7 DEF Expected, WindowTypeOK
  <2> QED BY <1>1, <1>2, <1>3, <1>4, <1>5, <2>1 DEF WindowExact, ShiftLeft, Bits
<1>8. CASE Newer(n)
  <2>1. /\ have_recv /\ have_recv' = TRUE /\ n > sw_next /\ sw_next' = n + 1
        /\ sw_bits' = Advance(n - sw_next)
    BY <1>3, <1>8 DEF Newer, WindowTypeOK
  <2>2. CASE n - sw_next >= WINDOW
    BY <1>1, <1>2, <1>3, <1>4, <1>5, <2>1, <2>2 DEF WindowExact, Advance, EmptyBitmap, Bits
  <2>3. CASE n - sw_next = WINDOW - 1
    BY <1>1, <1>2, <1>3, <1>4, <1>5, <2>1, <2>3 DEF WindowExact, Advance, EmptyBitmap, Bits
  <2>4. CASE n - sw_next < WINDOW - 1
    BY <1>1, <1>2, <1>3, <1>4, <1>5, <2>1, <2>4 DEF WindowExact, Advance, ShiftLeft, Bits
  <2> QED BY <1>4, <2>1, <2>2, <2>3, <2>4
<1>9. CASE Older(n)
  <2>1. /\ have_recv /\ have_recv' = TRUE /\ n < sw_next /\ sw_next' = sw_next
        /\ sw_next - n <= WINDOW + 1 /\ sw_next - n # 1
        /\ sw_bits' = sw_bits \ {sw_next - n - 2}
    BY <1>3, <1>9 DEF Older, WindowTypeOK
  <2>2. sw_bits' \in SUBSET Bits /\ sw_next' \in 0..(MaxSeq + 1)
    BY <1>3, <2>1 DEF WindowTypeOK
  <2>3. WindowExact'
    BY <1>1, <1>2, <1>3, <1>4, <1>5, <2>1 DEF WindowExact
  <2> QED BY <2>1, <2>2, <2>3
<1> QED BY <1>6, <1>7, <1>8, <1>9 DEF RecvAccepted, n

\* Every step preserves the inductive invariant.
LEMMA NextWindowInv == WindowInv /\ [WindowNext]_wvars => WindowInv'
<1> SUFFICES ASSUME WindowInv, [WindowNext]_wvars PROVE WindowInv'
  OBVIOUS
<1>1. ASSUME NEW r \in Records, RecvAccepted(r) PROVE WindowInv'
  <2>v. valid' \in BOOLEAN /\ verdict' = "ok"
    BY <1>1 DEF RecvAccepted
  <2>b. have_recv' \in BOOLEAN
    BY <1>1, AcceptWindowExact
  <2>1. WindowTypeOK'
    BY <1>1, <2>b, <2>v, AcceptCounts, AcceptWindowExact DEF WindowInv, WindowTypeOK
  <2>2. NoReplay'
    BY <1>1, AcceptCounts DEF WindowInv, NoReplay
  <2>3. FreshEpochs'
    <3>0. epoch \in Nat
      BY DEF WindowInv, WindowTypeOK, Epochs
    <3>1. epoch' = epoch /\ have_recv' = TRUE /\ r[1] = epoch
      BY <1>1, AcceptCounts, AcceptWindowExact
    <3>2. \A q \in Records : q # r => accepted'[q] = accepted[q]
      BY <1>1, AcceptCounts
    <3> QED BY <3>0, <3>1, <3>2 DEF WindowInv, FreshEpochs
  <2> QED BY <1>1, <2>1, <2>2, <2>3, AcceptWindowExact DEF WindowInv
<1>2. ASSUME NEW r \in Records, RecvDropped(r) PROVE WindowInv'
  <2>1. UNCHANGED <<epoch, have_recv, sw_next, sw_bits, valid, accepted>>
    BY <1>2 DEF RecvDropped
  <2>2. WindowTypeOK'
    BY <1>2, <2>1 DEF WindowInv, WindowTypeOK, RecvDropped
  <2> QED BY <2>1, <2>2 DEF WindowInv, NoReplay, WindowExact, FreshEpochs
<1>3. CASE NewReadEpoch
  <2>1. /\ epoch \in Nat /\ epoch' = epoch + 1 /\ epoch' \in Epochs
        /\ have_recv' = FALSE /\ sw_next' = 0 /\ sw_bits' = {}
        /\ UNCHANGED <<valid, verdict, accepted>>
    BY <1>3 DEF NewReadEpoch, WindowInv, WindowTypeOK, Epochs
  <2>b. have_recv' \in BOOLEAN
    BY <2>1
  <2>2. WindowTypeOK'
    BY <2>1, <2>b DEF WindowInv, WindowTypeOK
  <2>3. NoReplay' /\ WindowExact'
    BY <2>1 DEF WindowInv, NoReplay, WindowExact
  <2>4. FreshEpochs'
    <3>1. \A r \in Records : r[1] \in Nat
      BY DEF Records, Epochs
    <3> QED BY <2>1, <3>1 DEF WindowInv, FreshEpochs
  <2> QED BY <2>2, <2>3, <2>4 DEF WindowInv
<1>4. CASE UNCHANGED wvars
  BY <1>4 DEF WindowInv, WindowTypeOK, NoReplay, WindowExact, FreshEpochs, wvars
<1> QED BY <1>1, <1>2, <1>3, <1>4 DEF WindowNext

\* The inductive invariant holds in every behaviour.
THEOREM WindowInvariance == WindowSpec => []WindowInv
  BY InitWindowInv, NextWindowInv, PTL DEF WindowSpec

\* The window variables and the history stay in their ranges.
THEOREM WindowTypeCorrect == WindowSpec => []WindowTypeOK
<1>1. WindowInv => WindowTypeOK BY DEF WindowInv
<1> QED BY <1>1, WindowInvariance, PTL

\* _dtls_record_check accepts no record of any epoch twice, for every width.
THEOREM NoReplayTheorem == WindowSpec => []NoReplay
<1>1. WindowInv => NoReplay BY DEF WindowInv
<1> QED BY <1>1, WindowInvariance, PTL

\* A bit of the window is one exactly when its record is still missing.
THEOREM WindowExactTheorem == WindowSpec => []WindowExact
<1>1. WindowInv => WindowExact BY DEF WindowInv
<1> QED BY <1>1, WindowInvariance, PTL

\* Every step of the window is a step of the replay filter.
LEMMA FilterStep == WindowInv /\ [WindowNext]_wvars => [Filter!Next]_(Filter!vars)
<1> SUFFICES ASSUME WindowInv, [WindowNext]_wvars PROVE [Filter!Next]_(Filter!vars)
  OBVIOUS
<1> DEFINE seen == {r \in Records : accepted[r] > 0}
           top == IF have_recv THEN sw_next ELSE 0
<1>r. Filter!Records = Records
  BY DEF Filter!Records, Records, Epochs, Seqs
<1>1. ASSUME NEW r \in Records, RecvAccepted(r) PROVE Filter!Accept(r)
  <2>1. /\ accepted[r] = 0 /\ accepted'[r] = 1 /\ accepted' \in [Records -> Nat]
        /\ \A q \in Records : q # r => accepted'[q] = accepted[q]
        /\ r[1] = epoch /\ r[2] \in Seqs
    BY <1>1, AcceptCounts
  <2>2. seen' = seen \cup {r} /\ r \notin seen
    BY <2>1
  <2>3. have_recv' = TRUE /\ WindowTypeOK
    BY <1>1, AcceptWindowExact DEF WindowInv
  <2>n. r[2] \in Nat /\ sw_next \in Nat
    BY <2>1, <2>3 DEF WindowTypeOK, Seqs
  <2>c. \/ ~have_recv /\ sw_next' = r[2] + 1
        \/ have_recv /\ r[2] >= sw_next /\ sw_next' = r[2] + 1
        \/ have_recv /\ r[2] < sw_next /\ sw_next' = sw_next /\ sw_next - r[2] <= WINDOW + 1
    BY <1>1, <2>n DEF RecvAccepted, First, Expected, Newer, Older
  <2>4. top' = IF r[2] >= top THEN r[2] + 1 ELSE top
    BY <2>3, <2>n, <2>c
  <2>5. ~Filter!TooOld(r[2])
    BY <2>n, <2>c DEF Filter!TooOld
  <2>6. verdict' = "ok" /\ UNCHANGED epoch
    BY <1>1 DEF RecvAccepted
  <2> QED BY <2>1, <2>2, <2>4, <2>5, <2>6 DEF Filter!Accept
<1>2. ASSUME NEW r \in Records, RecvDropped(r) PROVE Filter!Reject(r)
  <2>1. UNCHANGED <<epoch, seen, top>>
    BY <1>2 DEF RecvDropped
  <2>2. WindowTypeOK /\ WindowExact /\ r[2] \in Seqs /\ (r[1] = epoch => r = <<epoch, r[2]>>)
    BY DEF WindowInv, Records
  <2>3. CASE r[1] # epoch /\ verdict' = "epoch"
    BY <2>1, <2>3 DEF Filter!Reject
  <2>4. CASE r[1] = epoch /\ TooOld(r[2]) /\ verdict' = "old"
    <3>1. Filter!TooOld(r[2])
      BY <2>2, <2>4 DEF TooOld, Filter!TooOld, WindowTypeOK, Seqs
    <3> QED BY <2>1, <2>4, <3>1 DEF Filter!Reject
  <2>5. CASE r[1] = epoch /\ Replayed(r[2]) /\ verdict' = "replay"
    <3>1. ~Filter!TooOld(r[2])
      BY <2>2, <2>5 DEF Replayed, Filter!TooOld, WindowTypeOK, Seqs
    <3>2. accepted[<<epoch, r[2]>>] > 0
      BY <2>2, <2>5 DEF Replayed, WindowExact, WindowTypeOK, Seqs, Records
    <3>3. r \in seen
      BY <2>2, <2>5, <3>2
    <3> QED BY <2>1, <2>5, <3>1, <3>3 DEF Filter!Reject
  <2> QED BY <1>2, <2>3, <2>4, <2>5 DEF RecvDropped
<1>3. CASE NewReadEpoch
  BY <1>3 DEF NewReadEpoch, Filter!NextEpoch, Filter!Next
<1>4. CASE UNCHANGED wvars
  BY <1>4 DEF wvars, Filter!vars
<1> QED BY <1>r, <1>1, <1>2, <1>3, <1>4 DEF WindowNext, Filter!Next

\* The bitmap of dtls-sw.c implements the abstract replay filter.
THEOREM Refinement == WindowSpec => ImplementsFilter
<1>1. WindowInit => Filter!Init
  BY DEF WindowInit, Filter!Init
<1> QED BY <1>1, FilterStep, WindowInvariance, PTL DEF WindowSpec, Filter!Spec, ImplementsFilter

-----------------------------------------------------------------------------
(* The epoch table.                                                          *)

USE TableAssumption

-----------------------------------------------------------------------------
(* Facts about the table.                                                    *)

\* Every non-empty set of slots has a least element.
LEMMA LeastNat ==
  ASSUME NEW T, T \subseteq Nat, T # {}
  PROVE  \E x \in T : \A y \in T : x <= y
<1> DEFINE R == {ss \in Nat \X Nat : ss[1] < ss[2]}
<1>1. IsWellFoundedOn(R, Nat)
  BY NatLessThanWellFounded DEF OpToRel
<1> HIDE DEF R
<1>2. PICK x \in T : \A y \in T : ~(<<y, x>> \in R)
  BY <1>1, WFMin
<1>3. \A y \in T : ~(y < x)
  BY <1>2 DEF R
<1> QED BY <1>3

\* Distinct epochs have distinct indices, also around the wrap of the counter.
LEMMA IndexInjective ==
  ASSUME epoch_min \in EpochIds, NEW e \in EpochIds, NEW f \in EpochIds
  PROVE  /\ Index(e) \in 0..(EpochMod - 1)
         /\ Index(e) = Index(f) => e = f
BY DEF Index, EpochIds

\* A present epoch is found under its own number.
LEMMA PresentOwn ==
  ASSUME TypeOK, SlotsAligned, NEW e \in EpochIds, Present(e)
  PROVE  Get(e).epoch = e /\ Get(e) \in Params /\ Index(e) \in Slots
<1>1. Index(e) \in Slots /\ record_parameters[Index(e)].stage # "null"
  BY DEF Present
<1>2. Get(e) \in Params /\ Get(e).epoch \in EpochIds
  BY <1>1 DEF TypeOK, Get, Params
<1>3. Index(Get(e).epoch) = Index(e)
  BY <1>1 DEF SlotsAligned, Get
<1> QED BY <1>1, <1>2, <1>3, IndexInjective DEF TypeOK

\* Writing a slot that belongs to epoch n, and nothing else, keeps the table
\* aligned and the other epochs as they were.
LEMMA PutFacts ==
  ASSUME TypeOK, SlotsAligned, NEW n \in EpochIds, Index(n) \in Slots,
         NEW params \in Params, params.epoch = n, params.stage # "null",
         Put(n, params), UNCHANGED epoch_min
  PROVE  /\ record_parameters' \in [Slots -> Params]
         /\ SlotsAligned'
         /\ \A e \in EpochIds : Index(e)' = Index(e)
         /\ Present(n)' /\ Get(n)' = params
         /\ \A e \in EpochIds \ {n} : (Present(e)' <=> Present(e)) /\ (Present(e) => Get(e)' = Get(e))
         /\ \A i \in Slots : i # Index(n) => record_parameters'[i] = record_parameters[i]
         /\ record_parameters'[Index(n)] = params
<1>1. record_parameters' = [record_parameters EXCEPT ![Index(n)] = params]
  BY DEF Put
<1>2. /\ record_parameters' \in [Slots -> Params]
      /\ \A i \in Slots : i # Index(n) => record_parameters'[i] = record_parameters[i]
      /\ record_parameters'[Index(n)] = params
  BY <1>1 DEF TypeOK
<1>3. \A e \in EpochIds : Index(e)' = Index(e)
  BY DEF Index
<1>4. SlotsAligned'
  BY <1>2, <1>3 DEF SlotsAligned, TypeOK, Params
<1>5. Present(n)' /\ Get(n)' = params
  BY <1>2, <1>3 DEF Present, Get
<1>6. ASSUME NEW e \in EpochIds \ {n}
      PROVE  (Present(e)' <=> Present(e)) /\ (Present(e) => Get(e)' = Get(e))
  <2>1. Index(e) # Index(n) /\ Index(e)' = Index(e)
    BY <1>3, IndexInjective DEF TypeOK
  <2>2. Index(e) \in Slots => record_parameters'[Index(e)] = record_parameters[Index(e)]
    BY <1>2, <2>1
  <2> QED BY <2>1, <2>2 DEF Present, Get
<1> QED BY <1>2, <1>3, <1>4, <1>5, <1>6

\* An operation that writes one slot preserves the invariant if the slot
\* carries the right usage count, and a switched direction finds keys in it.
LEMMA PutIInv ==
  ASSUME IInv, NEW n \in EpochIds, Index(n) \in Slots,
         NEW params \in Params, params.epoch = n, params.stage # "null",
         Put(n, params), UNCHANGED <<epoch_min, epoch_next>>,
         queued' \in [EpochIds -> Nat],
         \A e \in EpochIds \ {n} : queued'[e] = queued[e],
         params.usage_cnt = queued'[n],
         \A e \in {epoch_read', epoch_write'} :
            \/ e = n /\ params.stage = "ready"
            \/ e # n /\ e \in {epoch_read, epoch_write}
  PROVE  IInv'
<1>1. TypeOK /\ SlotsAligned /\ ActiveReady /\ QueuedHeld /\ UNCHANGED epoch_min
  BY DEF IInv
<1>2. /\ record_parameters' \in [Slots -> Params]
      /\ SlotsAligned'
      /\ \A e \in EpochIds : Index(e)' = Index(e)
      /\ Present(n)' /\ Get(n)' = params
      /\ \A e \in EpochIds \ {n} : (Present(e)' <=> Present(e)) /\ (Present(e) => Get(e)' = Get(e))
      /\ \A i \in Slots : i # Index(n) => record_parameters'[i] = record_parameters[i]
      /\ record_parameters'[Index(n)] = params
  BY <1>1, PutFacts
<1>3. TypeOK'
  BY <1>1, <1>2 DEF TypeOK
<1>4. ActiveReady'
  BY <1>1, <1>2 DEF ActiveReady, TypeOK
<1>5. QueuedHeld'
  <2>1. ASSUME NEW e \in EpochIds, queued'[e] > 0 PROVE Present(e)'
    BY <1>1, <1>2, <2>1 DEF QueuedHeld
  <2>2. ASSUME NEW i \in Slots, record_parameters'[i].stage # "null"
        PROVE  record_parameters'[i].usage_cnt = queued'[record_parameters'[i].epoch]
    <3>1. CASE i = Index(n)
      BY <3>1, <1>2
    <3>2. CASE i # Index(n)
      <4>1. record_parameters'[i] = record_parameters[i]
        BY <3>2, <1>2
      <4>2. record_parameters[i].epoch \in EpochIds /\ Index(record_parameters[i].epoch) = i
        BY <1>1, <2>2, <4>1 DEF TypeOK, SlotsAligned, Params
      <4> QED BY <1>1, <2>2, <3>2, <4>1, <4>2 DEF QueuedHeld
    <3> QED BY <3>1, <3>2
  <2> QED BY <2>1, <2>2 DEF QueuedHeld
<1> QED BY <1>2, <1>3, <1>4, <1>5 DEF IInv

\* The garbage collector finds the epoch being read, so it always has a first
\* slot to keep.
LEMMA FirstKeptFacts ==
  ASSUME IInv
  PROVE  /\ FirstKept \in Slots
         /\ Kept(FirstKept).stage # "null"
         /\ \A i \in Slots : i < FirstKept => Kept(i).stage = "null"
<1> DEFINE T == {i \in Slots : Kept(i).stage # "null"}
<1>1. Present(epoch_read) /\ Get(epoch_read).epoch = epoch_read /\ Index(epoch_read) \in Slots
  BY PresentOwn DEF IInv, ActiveReady, TypeOK
<1>2. Alive(Get(epoch_read))
  BY <1>1 DEF Present, Get, Alive, Active
<1>3. Index(epoch_read) \in T
  BY <1>1, <1>2 DEF Kept, Get, Present
<1>4. T \subseteq Nat /\ T # {}
  BY <1>3 DEF Slots
<1>5. PICK k \in T : \A y \in T : k <= y
  BY <1>4, LeastNat
<1>6. /\ k \in Slots /\ Kept(k).stage # "null"
      /\ \A i \in Slots : i < k => Kept(i).stage = "null"
  BY <1>5 DEF Slots
<1> QED BY <1>6 DEF FirstKept

\* After the garbage collection an epoch is found exactly if it was kept, and
\* with unchanged parameters.
LEMMA GcFacts ==
  ASSUME IInv, Gc
  PROVE  /\ record_parameters' \in [Slots -> Params]
         /\ epoch_min' \in EpochIds
         /\ SlotsAligned'
         /\ \A e \in EpochIds :
               /\ Present(e)' <=> Index(e) \in Slots /\ Kept(Index(e)).stage # "null"
               /\ Present(e)' => Get(e)' = Get(e)
         /\ \A i \in Slots : record_parameters'[i].stage # "null" =>
               \E j \in Slots : record_parameters'[i] = record_parameters[j]
<1> DEFINE k == FirstKept
           m == Kept(k).epoch
           Idx(e) == IF e >= m THEN e - m ELSE e - m + EpochMod
<1>1. /\ k \in Slots /\ Kept(k).stage # "null"
      /\ \A i \in Slots : i < k => Kept(i).stage = "null"
  BY FirstKeptFacts
<1>t. TypeOK /\ SlotsAligned /\ epoch_min \in EpochIds
  BY DEF IInv, TypeOK
<1>n. NULL \in Params /\ NULL.stage = "null"
  BY DEF NULL, Params, Stages, EpochIds
<1>2. \A i \in Slots : Kept(i) \in Params /\ (Kept(i).stage # "null" => Kept(i) = record_parameters[i])
  BY <1>t, <1>n DEF Kept, TypeOK
<1>3. m \in EpochIds /\ Index(m) = k
  BY <1>1, <1>2, <1>t DEF SlotsAligned, Params
<1> HIDE DEF k, m
<1>4. /\ record_parameters' = [i \in Slots |-> IF i + k \in Slots THEN Kept(i + k) ELSE NULL]
      /\ epoch_min' = m
  BY DEF Gc, k, m
<1>5. record_parameters' \in [Slots -> Params]
  BY <1>2, <1>4, <1>n
<1>6. ASSUME NEW e \in EpochIds
      PROVE  /\ Index(e) \in 0..(EpochMod - 1)
             /\ Index(e) >= k => Index(e)' = Index(e) - k
             /\ Index(e) < k => Index(e)' = Index(e) - k + EpochMod
  BY <1>1, <1>3, <1>4, <1>t DEF Index, EpochIds, Slots
<1>7. ASSUME NEW e \in EpochIds
      PROVE  /\ Present(e)' <=> Index(e) \in Slots /\ Kept(Index(e)).stage # "null"
             /\ Present(e)' => Get(e)' = Get(e)
  <2>1. CASE Index(e) >= k /\ Index(e) \in Slots
    <3>1. Index(e)' = Index(e) - k /\ Index(e)' \in Slots /\ Index(e)' + k = Index(e)
      BY <1>1, <1>6, <2>1 DEF Slots
    <3>2. record_parameters'[Index(e)'] = Kept(Index(e))
      BY <1>4, <2>1, <3>1
    <3> QED BY <1>2, <2>1, <3>1, <3>2 DEF Present, Get
  <2>2. CASE Index(e) >= k /\ Index(e) \notin Slots
    <3>1. Index(e)' = Index(e) - k /\ Index(e)' + k = Index(e) /\ Index(e)' \in Nat
      BY <1>1, <1>6, <2>2 DEF Slots
    <3>2. Index(e)' \in Slots => record_parameters'[Index(e)'] = NULL
      BY <1>4, <2>2, <3>1
    <3> QED BY <2>2, <3>2, <1>n DEF Present
  <2>3. CASE Index(e) < k
    <3>1. Index(e)' + k \notin Slots /\ Index(e) \in Slots
      BY <1>1, <1>6, <2>3 DEF Slots
    <3>2. Index(e)' \in Slots => record_parameters'[Index(e)'] = NULL
      BY <1>4, <3>1
    <3> QED BY <1>1, <2>3, <3>1, <3>2, <1>n DEF Present
  <2> QED BY <1>1, <1>6, <2>1, <2>2, <2>3 DEF Slots
<1>8. ASSUME NEW i \in Slots, record_parameters'[i].stage # "null"
      PROVE  /\ i + k \in Slots /\ record_parameters'[i] = record_parameters[i + k]
             /\ Idx(record_parameters'[i].epoch) = i
  <2>1. i + k \in Slots /\ record_parameters'[i] = Kept(i + k)
    BY <1>4, <1>8, <1>n
  <2>2. record_parameters'[i] = record_parameters[i + k] /\ record_parameters[i + k].stage # "null"
    BY <1>2, <1>8, <2>1
  <2> DEFINE e == record_parameters[i + k].epoch
  <2>3. e \in EpochIds /\ Index(e) = i + k
    BY <1>t, <2>1, <2>2 DEF TypeOK, SlotsAligned, Params
  <2> HIDE DEF e
  <2>4. Idx(e) = i
    BY <1>1, <1>3, <1>t, <2>3 DEF Slots, Index, EpochIds
  <2>5. record_parameters'[i].epoch = e
    BY <2>2 DEF e
  <2> QED BY <2>1, <2>2, <2>4, <2>5
<1>9. SlotsAligned'
  BY <1>4, <1>8 DEF SlotsAligned, Index
<1> QED BY <1>3, <1>4, <1>5, <1>7, <1>8, <1>9

-----------------------------------------------------------------------------
(* The invariant.                                                            *)

\* A fresh session has the null epoch and nothing else.
LEMMA InitIInv == Init => IInv
<1> SUFFICES ASSUME Init PROVE IInv
  OBVIOUS
<1>1. NULL \in Params /\ [NULL EXCEPT !.stage = "ready"] \in Params
  BY DEF NULL, Params, Stages, EpochIds
<1>2. TypeOK
  BY <1>1 DEF Init, TypeOK, EpochIds, Slots
<1>3. \A i \in Slots : i # 0 => record_parameters[i].stage = "null"
  BY DEF Init, NULL
<1>4. 0 \in Slots /\ record_parameters[0] = [stage |-> "ready", epoch |-> 0, usage_cnt |-> 0]
  BY DEF Init, Slots, NULL
<1>5. Index(0) = 0 /\ 0 \in EpochIds
  BY DEF Init, Index, EpochIds
<1>6. SlotsAligned
  BY <1>3, <1>4, <1>5 DEF SlotsAligned
<1>7. ActiveReady
  BY <1>4, <1>5 DEF Init, ActiveReady, Present, Get
<1>8. QueuedHeld
  BY <1>3, <1>4, <1>5 DEF Init, QueuedHeld
<1> QED BY <1>2, <1>6, <1>7, <1>8 DEF IInv

\* Garbage collection preserves the invariant.
LEMMA GcIInv ==
  ASSUME IInv, Gc
  PROVE  IInv'
<1>1. TypeOK /\ SlotsAligned /\ ActiveReady /\ QueuedHeld
  BY DEF IInv
<1>2. UNCHANGED <<epoch_read, epoch_write, epoch_next, queued>>
  BY DEF Gc
<1>3. TypeOK'
  BY <1>1, <1>2, GcFacts DEF TypeOK
<1>4. ASSUME NEW e \in EpochIds, Present(e), Alive(Get(e))
      PROVE  Present(e)' /\ Get(e)' = Get(e)
  BY <1>4, GcFacts DEF Present, Get, Kept
<1>5. ActiveReady'
  <2>1. ASSUME NEW e \in EpochIds, e \in {epoch_read, epoch_write}
        PROVE  Present(e)' /\ Get(e)'.stage = "ready"
    <3>1. Present(e) /\ Get(e).stage = "ready" /\ Get(e).epoch = e
      BY <1>1, <2>1, PresentOwn DEF ActiveReady
    <3>2. Alive(Get(e))
      BY <2>1, <3>1 DEF Alive, Active
    <3> QED BY <1>4, <3>1, <3>2
  <2> QED BY <1>1, <1>2, <2>1 DEF ActiveReady, TypeOK
<1>6. QueuedHeld'
  <2>1. ASSUME NEW e \in EpochIds, queued[e] > 0
        PROVE  Present(e)'
    <3>1. Present(e) /\ Get(e).epoch = e /\ Index(e) \in Slots
      BY <1>1, <2>1, PresentOwn DEF QueuedHeld
    <3>2. Get(e).usage_cnt = queued[e] /\ Get(e).stage # "null"
      BY <1>1, <3>1 DEF QueuedHeld, Get, Present
    <3> QED BY <1>4, <2>1, <3>1, <3>2 DEF Alive
  <2>2. ASSUME NEW i \in Slots, record_parameters'[i].stage # "null"
        PROVE  record_parameters'[i].usage_cnt = queued[record_parameters'[i].epoch]
    BY <1>1, <2>2, GcFacts DEF QueuedHeld
  <2> QED BY <1>2, <2>1, <2>2 DEF QueuedHeld
<1> QED BY <1>3, <1>5, <1>6, GcFacts DEF IInv

\* Every operation on the table preserves the invariant.
LEMMA NextIInv == IInv /\ [Next]_vars => IInv'
<1> SUFFICES ASSUME IInv, [Next]_vars PROVE IInv'
  OBVIOUS
<1>0. TypeOK /\ SlotsAligned /\ ActiveReady /\ QueuedHeld
  BY DEF IInv
<1>r. /\ epoch_read \in EpochIds /\ epoch_write \in EpochIds /\ epoch_next \in EpochIds
      /\ Present(epoch_read) /\ Get(epoch_read).stage = "ready"
      /\ Present(epoch_write) /\ Get(epoch_write).stage = "ready"
  BY <1>0 DEF TypeOK, ActiveReady
<1>p. ASSUME NEW e \in EpochIds, Present(e)
      PROVE  /\ Index(e) \in Slots /\ Get(e).epoch = e /\ Get(e).stage # "null"
             /\ Get(e).usage_cnt = queued[e] /\ Get(e) \in Params
  <2>1. Get(e).epoch = e /\ Get(e) \in Params /\ Index(e) \in Slots
    BY <1>0, <1>p, PresentOwn
  <2> QED BY <1>0, <1>p, <2>1 DEF Present, Get, QueuedHeld
<1>q. ASSUME NEW e \in EpochIds, ~Present(e) PROVE queued[e] = 0
  BY <1>0, <1>q DEF QueuedHeld, TypeOK
<1>u. queued \in [EpochIds -> Nat]
  BY <1>0 DEF TypeOK
<1>1. CASE SetupNext
  <2> DEFINE params == [stage |-> "new", epoch |-> epoch_next, usage_cnt |-> 0]
  <2>1. params \in Params /\ params.epoch = epoch_next /\ params.stage # "null" /\ params.usage_cnt = 0
    BY <1>r DEF Params, Stages
  <2>2. /\ Index(epoch_next) \in Slots /\ ~Present(epoch_next) /\ Put(epoch_next, params)
        /\ UNCHANGED <<epoch_min, epoch_next>> /\ queued' = queued
        /\ epoch_read' = epoch_read /\ epoch_write' = epoch_write
    BY <1>1 DEF SetupNext
  <2>3. epoch_next # epoch_read /\ epoch_next # epoch_write
    BY <1>r, <2>2
  <2>4. params.usage_cnt = queued'[epoch_next]
    BY <1>q, <1>r, <2>1, <2>2
  <2> HIDE DEF params
  <2> QED BY <1>r, <1>u, <2>1, <2>2, <2>3, <2>4, PutIInv
<1>2. CASE SetCipherSuite
  <2> DEFINE params == [Get(epoch_next) EXCEPT !.stage = "suite"]
  <2>1. /\ Present(epoch_next) /\ Get(epoch_next).stage = "new" /\ Put(epoch_next, params)
        /\ UNCHANGED <<epoch_min, epoch_next>> /\ queued' = queued
        /\ epoch_read' = epoch_read /\ epoch_write' = epoch_write
    BY <1>2 DEF SetCipherSuite
  <2>2. /\ params \in Params /\ params.epoch = epoch_next /\ params.stage # "null"
        /\ params.usage_cnt = queued'[epoch_next] /\ Index(epoch_next) \in Slots
    BY <1>p, <1>r, <2>1 DEF Params, Stages
  <2>3. epoch_next # epoch_read /\ epoch_next # epoch_write
    BY <1>r, <2>1
  <2> HIDE DEF params
  <2> QED BY <1>r, <1>u, <2>1, <2>2, <2>3, PutIInv
<1>3. ASSUME NEW e \in {epoch_read, epoch_write}, EpochDup(e) PROVE IInv'
  <2> DEFINE cnt == IF Present(epoch_next) THEN Get(epoch_next).usage_cnt ELSE 0
             params == [stage |-> "suite", epoch |-> epoch_next, usage_cnt |-> cnt]
  <2>1. /\ Index(epoch_next) \in Slots /\ Put(epoch_next, params)
        /\ Present(epoch_next) => Get(epoch_next).stage = "new"
        /\ UNCHANGED <<epoch_min, epoch_next>> /\ queued' = queued
        /\ epoch_read' = epoch_read /\ epoch_write' = epoch_write
    BY <1>3 DEF EpochDup
  <2>2. cnt = queued[epoch_next] /\ cnt \in Nat
    BY <1>p, <1>q, <1>r, <1>u
  <2>3. /\ params \in Params /\ params.epoch = epoch_next /\ params.stage # "null"
        /\ params.usage_cnt = queued'[epoch_next]
    BY <1>r, <2>1, <2>2 DEF Params, Stages
  <2>4. epoch_next # epoch_read /\ epoch_next # epoch_write
    BY <1>r, <2>1
  <2> HIDE DEF params
  <2> QED BY <1>r, <1>u, <2>1, <2>3, <2>4, PutIInv
<1>4. CASE ReadStateInit \/ WriteStateInit \/ ConnectionStateInit
  <2> DEFINE params == [Get(epoch_next) EXCEPT !.stage = "ready"]
  <2>1. /\ Present(epoch_next) /\ Put(epoch_next, params)
        /\ UNCHANGED <<epoch_min, epoch_next>> /\ queued' = queued
        /\ epoch_read' \in {epoch_read, epoch_next} /\ epoch_write' \in {epoch_write, epoch_next}
    BY <1>4 DEF ReadStateInit, WriteStateInit, ConnectionStateInit, SetKeys
  <2>2. /\ params \in Params /\ params.epoch = epoch_next /\ params.stage = "ready"
        /\ params.usage_cnt = queued'[epoch_next] /\ Index(epoch_next) \in Slots
    BY <1>p, <1>r, <2>1 DEF Params, Stages
  <2> HIDE DEF params
  <2> QED BY <1>r, <1>u, <2>1, <2>2, PutIInv
<1>5. CASE Bump
  <2>1. epoch_next' \in EpochIds
    BY <1>5, <1>r DEF Bump, EpochIds
  <2>2. UNCHANGED <<record_parameters, epoch_min, epoch_read, epoch_write, queued>>
    BY <1>5 DEF Bump
  <2> QED BY <1>0, <2>1, <2>2
          DEF IInv, TypeOK, SlotsAligned, ActiveReady, QueuedHeld, Present, Get, Index
<1>6. CASE Gc
  BY <1>6, GcIInv
<1>7. CASE Queue
  <2> DEFINE params == [Get(epoch_write) EXCEPT !.usage_cnt = @ + 1]
  <2>1. /\ Put(epoch_write, params) /\ UNCHANGED <<epoch_min, epoch_next>>
        /\ queued' = [queued EXCEPT ![epoch_write] = @ + 1]
        /\ epoch_read' = epoch_read /\ epoch_write' = epoch_write
    BY <1>7 DEF Queue
  <2>2. /\ queued' \in [EpochIds -> Nat] /\ queued'[epoch_write] = queued[epoch_write] + 1
        /\ \A e \in EpochIds \ {epoch_write} : queued'[e] = queued[e]
    BY <1>r, <1>u, <2>1
  <2>3. /\ params \in Params /\ params.epoch = epoch_write /\ params.stage = "ready"
        /\ params.usage_cnt = queued'[epoch_write] /\ Index(epoch_write) \in Slots
    BY <1>p, <1>r, <2>2 DEF Params
  <2> HIDE DEF params
  <2> QED BY <1>r, <2>1, <2>2, <2>3, PutIInv
<1>8. ASSUME NEW e \in EpochIds, Release(e) PROVE IInv'
  <2> DEFINE params == [Get(e) EXCEPT !.usage_cnt = @ - 1]
  <2>1. /\ Put(e, params) /\ UNCHANGED <<epoch_min, epoch_next>> /\ Present(e)
        /\ queued' = [queued EXCEPT ![e] = @ - 1] /\ queued[e] > 0
        /\ epoch_read' = epoch_read /\ epoch_write' = epoch_write
    BY <1>8 DEF Release
  <2>2. /\ queued' \in [EpochIds -> Nat] /\ queued'[e] = queued[e] - 1
        /\ \A f \in EpochIds \ {e} : queued'[f] = queued[f]
    BY <1>u, <2>1
  <2>3. /\ params \in Params /\ params.epoch = e /\ params.stage = Get(e).stage
        /\ params.usage_cnt = queued'[e] /\ Index(e) \in Slots /\ params.stage # "null"
    BY <1>p, <1>u, <2>1, <2>2 DEF Params
  <2> HIDE DEF params
  <2> QED BY <1>r, <2>1, <2>2, <2>3, PutIInv
<1>9. CASE UNCHANGED vars
  BY <1>0, <1>9 DEF vars, IInv, TypeOK, SlotsAligned, ActiveReady, QueuedHeld, Present, Get, Index
<1> QED BY <1>1, <1>2, <1>3, <1>4, <1>5, <1>6, <1>7, <1>8, <1>9 DEF Next

\* The invariant holds in every state of every behaviour.
THEOREM Invariance == Spec => []IInv
BY InitIInv, NextIInv, PTL DEF Spec

\* The table and the epoch numbers stay in their types: numbers never leave the
\* 16 bits of _gnutls_epoch_bump, usage counts never become negative.
THEOREM TypeCorrect == Spec => []TypeOK
<1>1. IInv => TypeOK
  BY DEF IInv
<1> QED BY <1>1, Invariance, PTL

\* Looking up an epoch never yields the parameters of another one, however
\* the 16-bit counter wraps and the table is shifted.
THEOREM SlotsAlignedTheorem == Spec => []SlotsAligned
<1>1. IInv => SlotsAligned
  BY DEF IInv
<1> QED BY <1>1, Invariance, PTL

\* The epochs being read and written always have keys.
THEOREM ActiveReadyTheorem == Spec => []ActiveReady
<1>1. IInv => ActiveReady
  BY DEF IInv
<1> QED BY <1>1, Invariance, PTL

\* The epoch of a queued message is never freed, and its usage count is the
\* number of messages queued under it.
THEOREM QueuedHeldTheorem == Spec => []QueuedHeld
<1>1. IInv => QueuedHeld
  BY DEF IInv
<1> QED BY <1>1, Invariance, PTL

\* No garbage collection changes what a live epoch number refers to.
THEOREM GcKeepsLiveTheorem == Spec => GcKeepsLive
<1> DEFINE A == Gc => \A e \in EpochIds :
                  Present(e) /\ (queued[e] > 0 \/ e \in {epoch_read, epoch_write, epoch_next})
                     => Present(e)' /\ Get(e)' = Get(e)
<1>1. IInv => A
  <2> SUFFICES ASSUME IInv, Gc, NEW e \in EpochIds, Present(e),
                      queued[e] > 0 \/ e \in {epoch_read, epoch_write, epoch_next}
               PROVE  Present(e)' /\ Get(e)' = Get(e)
    OBVIOUS
  <2>1. Get(e).epoch = e /\ Index(e) \in Slots
    BY PresentOwn DEF IInv
  <2>2. Get(e).stage # "null" /\ Get(e).usage_cnt = queued[e]
    BY <2>1 DEF IInv, QueuedHeld, Get, Present
  <2>3. Alive(Get(e))
    BY <2>1, <2>2 DEF Alive, Active
  <2> QED BY <2>1, <2>2, <2>3, GcFacts DEF Kept, Get, Present
<1>2. Spec => [][A]_vars
  BY <1>1, Invariance, PTL
<1> QED BY <1>2 DEF GcKeepsLive
=============================================================================
