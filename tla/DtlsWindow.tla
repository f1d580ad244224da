----------------------------- MODULE DtlsWindow -----------------------------
(***************************************************************************)
(* The receive side of the DTLS record layer: the sliding window of         *)
(* lib/dtls-sw.c and the part of _gnutls_recv_in_buffers (lib/record.c)     *)
(* that runs once a record has been decrypted.  The record arrives from a   *)
(* datagram network, so any record of any epoch may arrive at any time, any *)
(* number of times and in any order.                                        *)
(*                                                                          *)
(* The 64-bit bitmap is the set of the positions whose bit is one, that is  *)
(* of the records that are still missing: position i stands for record      *)
(* sw_next - 2 - i.                                                         *)
(***************************************************************************)
EXTENDS Naturals

CONSTANTS WINDOW,       \* bits of dtls_sw_bits (64)
          MaxEpoch,     \* bound: epochs read in a behaviour
          MaxSeq,       \* DTLS_SEQ_NUM_MASK (2^48 - 1)
          Wrap          \* where _gnutls_uint48pp reports an overflow (2^40)

ASSUME WindowAssumption == WINDOW \in Nat /\ WINDOW >= 2
ASSUME RangeAssumption == MaxEpoch \in Nat /\ MaxSeq \in Nat /\ Wrap \in Nat \ {0}

VARIABLES epoch,        \* rp->epoch of the READ_CURRENT record parameters
          have_recv,    \* rp->dtls_sw_have_recv
          sw_next,      \* rp->dtls_sw_next
          sw_bits,      \* rp->dtls_sw_bits, as the set of its one bits
          valid,        \* ~session->internals.invalid_connection
          verdict,      \* what _dtls_record_check returned last
          accepted      \* history: how often each record passed the check

wvars == <<epoch, have_recv, sw_next, sw_bits, valid, verdict, accepted>>

Epochs  == 0..MaxEpoch
Seqs    == 0..MaxSeq
Records == Epochs \X Seqs
Bits    == 0..(WINDOW - 1)

\* DTLS_EMPTY_BITMAP: every earlier record is missing.
EmptyBitmap == Bits

\* Mutant: the shifted-out bits are kept.
ShiftLeftUnmasked(b, k) == {i + k : i \in b}

ShiftLeft(b, k) == {i \in Bits : i >= k /\ i - k \in b}

WindowInit == /\ epoch = 0
              /\ have_recv = FALSE
              /\ sw_next = 0
              /\ sw_bits = {}
              /\ valid = TRUE
              /\ verdict = "none"
              /\ accepted = [r \in Records |-> 0]

-----------------------------------------------------------------------------
(* The branches of _dtls_record_check that let record s pass.               *)

First(s) == /\ ~have_recv
            /\ have_recv' = TRUE
            /\ sw_next' = s + 1
            /\ sw_bits' = EmptyBitmap

Expected(s) == /\ have_recv
               /\ s = sw_next
               /\ sw_bits' = ShiftLeft(sw_bits, 1)
               /\ sw_next' = sw_next + 1
               /\ UNCHANGED have_recv

\* Mutant: the newest record of the old window is not marked at the boundary.
AdvanceBoundary(delta) ==
    IF delta >= WINDOW - 1 THEN EmptyBitmap
    ELSE ShiftLeft(sw_bits, delta + 1) \cup {i \in Bits : i < delta}

\* The bitmap after jumping over delta missing records; a shift by the whole
\* width is undefined in C, hence the case of its own.
Advance(delta) ==
    IF delta >= WINDOW THEN EmptyBitmap
    ELSE IF delta = WINDOW - 1 THEN EmptyBitmap \ {WINDOW - 1}
    ELSE ShiftLeft(sw_bits, delta + 1) \cup {i \in Bits : i < delta}

Newer(s) == /\ have_recv
            /\ s > sw_next
            /\ sw_bits' = Advance(s - sw_next)
            /\ sw_next' = s + 1
            /\ UNCHANGED have_recv

\* Mutant: the bit of the late record is not cleared.
OlderKeepsBit(s) == /\ have_recv
                    /\ s < sw_next
                    /\ sw_next - s \in 2..(WINDOW + 1)
                    /\ sw_next - s - 2 \in sw_bits
                    /\ UNCHANGED <<have_recv, sw_next, sw_bits>>

Older(s) == /\ have_recv
            /\ s < sw_next
            /\ LET delta == sw_next - s
               IN /\ delta <= WINDOW + 1
                  /\ delta # 1
                  /\ delta - 2 \in sw_bits
                  /\ sw_bits' = sw_bits \ {delta - 2}
            /\ UNCHANGED <<have_recv, sw_next>>

(* ... and the ones that reject it, leaving the window alone.               *)

\* Mutant: the oldest record of the window counts as too old.
TooOldOffByOne(s) == have_recv /\ s < sw_next /\ sw_next - s > WINDOW

TooOld(s) == have_recv /\ s < sw_next /\ sw_next - s > WINDOW + 1

Replayed(s) == /\ have_recv
               /\ s < sw_next
               /\ LET delta == sw_next - s
                  IN delta = 1 \/ (delta \in 2..(WINDOW + 1) /\ delta - 2 \notin sw_bits)

-----------------------------------------------------------------------------
(* _gnutls_uint48pp counts five bytes of the six: it fails at 2^40 - 1.     *)
SequenceIncrementFails(s) == (s + 1) % Wrap = 0

\* The record passed: the sequence number is stored and incremented, and a
\* failing increment invalidates the session.
RecvAccepted(r) ==
    /\ valid
    /\ r[1] = epoch
    /\ First(r[2]) \/ Expected(r[2]) \/ Newer(r[2]) \/ Older(r[2])
    /\ accepted' = [accepted EXCEPT ![r] = @ + 1]
    /\ valid' = ~SequenceIncrementFails(r[2])
    /\ verdict' = "ok"
    /\ UNCHANGED epoch

\* sanity_check_error: the datagram is dropped and nothing else changes.
RecvDropped(r) ==
    /\ valid
    /\ \/ r[1] # epoch /\ verdict' = "epoch"
       \/ r[1] = epoch /\ TooOld(r[2]) /\ verdict' = "old"
       \/ r[1] = epoch /\ Replayed(r[2]) /\ verdict' = "replay"
    /\ UNCHANGED <<epoch, have_recv, sw_next, sw_bits, valid, accepted>>

\* The read side moves to the next epoch.  _dtls_reset_window only clears
\* dtls_sw_have_recv, but the parameters of an epoch are its own and allocated
\* with zeros (_gnutls_epoch_setup_next), so no older window is in them.
NewReadEpoch ==
    /\ valid
    /\ epoch < MaxEpoch
    /\ epoch' = epoch + 1
    /\ have_recv' = FALSE
    /\ sw_next' = 0
    /\ sw_bits' = {}
    /\ UNCHANGED <<valid, verdict, accepted>>

WindowNext == \/ \E r \in Records : RecvAccepted(r) \/ RecvDropped(r)
              \/ NewReadEpoch

WindowSpec == WindowInit /\ [][WindowNext]_wvars

-----------------------------------------------------------------------------
\* Every variable stays in its range.
WindowTypeOK == /\ epoch \in Epochs
                /\ have_recv \in BOOLEAN
                /\ sw_next \in 0..(MaxSeq + 1)
                /\ sw_bits \in SUBSET Bits
                /\ valid \in BOOLEAN
                /\ verdict \in {"none", "ok", "epoch", "old", "replay"}
                /\ accepted \in [Records -> Nat]

\* No record passes _dtls_record_check twice, however the network reorders
\* and duplicates records and whenever the read epoch changes.
NoReplay == \A r \in Records : accepted[r] <= 1

\* The bitmap says of every position in the window exactly whether that
\* record was accepted: neither a lost replay nor a wrongly dropped record.
WindowExact ==
    have_recv =>
        /\ sw_next > 0
        /\ \A s \in Seqs :
              /\ s >= sw_next => accepted[<<epoch, s>>] = 0
              /\ s + 1 = sw_next => accepted[<<epoch, s>>] = 1
              /\ s + 2 <= sw_next /\ sw_next <= s + WINDOW + 1 =>
                    (sw_next - s - 2 \in sw_bits <=> accepted[<<epoch, s>>] = 0)

\* Nothing of a later epoch, or of an epoch whose window is still empty, was
\* accepted.
FreshEpochs ==
    \A r \in Records : r[1] > epoch \/ (r[1] = epoch /\ ~have_recv) => accepted[r] = 0

WindowInv == WindowTypeOK /\ NoReplay /\ WindowExact /\ FreshEpochs

\* The window implements the abstract replay filter: each verdict is the one
\* the whole history of accepted records calls for.
Filter == INSTANCE ReplayFilter
            WITH seen <- {r \in Records : accepted[r] > 0},
                 top  <- IF have_recv THEN sw_next ELSE 0

ImplementsFilter == Filter!Spec
=============================================================================
