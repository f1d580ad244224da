---------------------------- MODULE ReplayFilter ----------------------------
(***************************************************************************)
(* What DTLS anti-replay promises its user, without any bitmap: a record of *)
(* the current read epoch is accepted exactly when it was not accepted      *)
(* before and is not older than the newest accepted record by more than     *)
(* WINDOW.  DtlsWindow, the model of lib/dtls-sw.c, implements this.        *)
(***************************************************************************)
EXTENDS Naturals

CONSTANTS WINDOW,       \* how far behind the newest record one may still be
          MaxEpoch,     \* bound: last epoch number
          MaxSeq        \* last record sequence number of an epoch

VARIABLES epoch,        \* the epoch being read
          seen,         \* every record accepted so far, of any epoch
          top,          \* 1 + newest sequence number accepted in epoch, or 0
          verdict       \* what became of the last record

vars == <<epoch, seen, top, verdict>>

Records == (0..MaxEpoch) \X (0..MaxSeq)

Init == /\ epoch = 0
        /\ seen = {}
        /\ top = 0
        /\ verdict = "none"

TooOld(s) == s + WINDOW + 1 < top

Accept(r) == /\ r[1] = epoch
             /\ ~TooOld(r[2])
             /\ r \notin seen
             /\ seen' = seen \cup {r}
             /\ top' = IF r[2] >= top THEN r[2] + 1 ELSE top
             /\ verdict' = "ok"
             /\ UNCHANGED epoch

Reject(r) == /\ \/ r[1] # epoch /\ verdict' = "epoch"
                \/ r[1] = epoch /\ TooOld(r[2]) /\ verdict' = "old"
                \/ r[1] = epoch /\ ~TooOld(r[2]) /\ r \in seen /\ verdict' = "replay"
             /\ UNCHANGED <<epoch, seen, top>>

NextEpoch == /\ epoch < MaxEpoch
             /\ epoch' = epoch + 1
             /\ top' = 0
             /\ UNCHANGED <<seen, verdict>>

Next == \/ \E r \in Records : Accept(r) \/ Reject(r)
        \/ NextEpoch

Spec == Init /\ [][Next]_vars
=============================================================================
