------------------------------- MODULE Epochs -------------------------------
(***************************************************************************)
(* The table of cipher states of a session (lib/constate.c): the sliding    *)
(* array record_parameters[MAX_EPOCH_INDEX] of epochs, addressed by         *)
(* epoch - epoch_min, the current read and write epochs, the next one, and  *)
(* the usage counts that queued handshake messages hold.                    *)
(*                                                                          *)
(* The handshakes, key updates and DTLS flights that drive the table call   *)
(* its operations in many orders.  Here they may come in any order in which *)
(* they succeed: an operation that fails leaves the table alone.            *)
(***************************************************************************)
EXTENDS Integers

CONSTANTS MAX_EPOCH_INDEX,      \* slots of the table (4)
          EpochMod,             \* epochs are counted modulo 2^16
          MaxUsage              \* bound: messages queued in one epoch

ASSUME TableAssumption == /\ MAX_EPOCH_INDEX \in Nat /\ MAX_EPOCH_INDEX > 0
                          /\ EpochMod \in Nat /\ EpochMod > MAX_EPOCH_INDEX
                          /\ MaxUsage \in Nat

VARIABLES record_parameters,    \* slot index -> parameters
          epoch_min, epoch_read, epoch_write, epoch_next,
          queued                \* handshake_send_buffer: messages per epoch

vars == <<record_parameters, epoch_min, epoch_read, epoch_write, epoch_next, queued>>

EpochIds == 0..(EpochMod - 1)
Slots    == 0..(MAX_EPOCH_INDEX - 1)

\* The life of record_parameters_st: no such parameters (NULL), allocated,
\* with cipher and MAC, with keys (initialized).
Stages == {"null", "new", "suite", "ready"}
Params == [stage : Stages, epoch : EpochIds, usage_cnt : Nat]

NULL == [stage |-> "null", epoch |-> 0, usage_cnt |-> 0]

\* epoch_get_slot: a 16-bit difference, so it wraps around.
Index(e) == IF e >= epoch_min THEN e - epoch_min ELSE e - epoch_min + EpochMod

\* _gnutls_epoch_get succeeds for epoch e.
Present(e) == Index(e) \in Slots /\ record_parameters[Index(e)].stage # "null"

Get(e) == record_parameters[Index(e)]

Init == /\ record_parameters =
              [i \in Slots |-> IF i = 0 THEN [NULL EXCEPT !.stage = "ready"] ELSE NULL]
        /\ epoch_min = 0 /\ epoch_read = 0 /\ epoch_write = 0
        /\ epoch_next = 1
        /\ queued = [e \in EpochIds |-> 0]

-----------------------------------------------------------------------------
Put(e, params) == record_parameters' = [record_parameters EXCEPT ![Index(e)] = params]

\* _gnutls_epoch_setup_next finding the slot empty.
SetupNext ==
    /\ Index(epoch_next) \in Slots
    /\ ~Present(epoch_next)
    /\ Put(epoch_next, [stage |-> "new", epoch |-> epoch_next, usage_cnt |-> 0])
    /\ UNCHANGED <<epoch_min, epoch_read, epoch_write, epoch_next, queued>>

\* _gnutls_set_cipher_suite2 on the next epoch.
SetCipherSuite ==
    /\ Present(epoch_next)
    /\ Get(epoch_next).stage = "new"
    /\ Put(epoch_next, [Get(epoch_next) EXCEPT !.stage = "suite"])
    /\ UNCHANGED <<epoch_min, epoch_read, epoch_write, epoch_next, queued>>

\* _gnutls_epoch_dup: the next epoch, set up if need be, takes over the
\* cipher and MAC of epoch e.
EpochDup(e) ==
    /\ Present(e)
    /\ Get(e).stage \in {"suite", "ready"}
    /\ Index(epoch_next) \in Slots
    /\ Present(epoch_next) => Get(epoch_next).stage = "new"
    /\ Put(epoch_next, [stage |-> "suite", epoch |-> epoch_next,
                        usage_cnt |-> IF Present(epoch_next)
                                      THEN Get(epoch_next).usage_cnt ELSE 0])
    /\ UNCHANGED <<epoch_min, epoch_read, epoch_write, epoch_next, queued>>

\* Mutant: the direction is switched although no keys could be set.
SetKeysUnchecked == IF Present(epoch_next)
                    THEN Put(epoch_next, [Get(epoch_next) EXCEPT !.stage = "ready"])
                    ELSE UNCHANGED record_parameters

\* _gnutls_epoch_set_keys of the next epoch, which keeps keys already set.
SetKeys == /\ Present(epoch_next)
           /\ Get(epoch_next).stage \in {"suite", "ready"}
           /\ Put(epoch_next, [Get(epoch_next) EXCEPT !.stage = "ready"])

\* _gnutls_read_connection_state_init, _tls13_read_connection_state_init.
ReadStateInit ==
    /\ SetKeys
    /\ epoch_read' = epoch_next
    /\ UNCHANGED <<epoch_min, epoch_write, epoch_next, queued>>

\* _gnutls_write_connection_state_init, _tls13_write_connection_state_init.
WriteStateInit ==
    /\ SetKeys
    /\ epoch_write' = epoch_next
    /\ UNCHANGED <<epoch_min, epoch_read, epoch_next, queued>>

\* _tls13_connection_state_init.
ConnectionStateInit ==
    /\ SetKeys
    /\ epoch_read' = epoch_next
    /\ epoch_write' = epoch_next
    /\ UNCHANGED <<epoch_min, epoch_next, queued>>

\* Mutant: the counter is wider than the 16 bits of an epoch.
BumpUnwrapped ==
    /\ epoch_next' = epoch_next + 1
    /\ UNCHANGED <<record_parameters, epoch_min, epoch_read, epoch_write, queued>>

\* _gnutls_epoch_bump.
Bump ==
    /\ epoch_next' = IF epoch_next = EpochMod - 1 THEN 0 ELSE epoch_next + 1
    /\ UNCHANGED <<record_parameters, epoch_min, epoch_read, epoch_write, queued>>

-----------------------------------------------------------------------------
(* Garbage collection.                                                      *)

Active(params) == params.epoch \in {epoch_read, epoch_write, epoch_next}

\* Mutant: parameters that queued messages still use count as dead.
AliveUnused(params) == params.stage # "null" /\ Active(params)

\* epoch_alive, of parameters that exist.
Alive(params) == params.stage # "null" /\ (params.usage_cnt > 0 \/ Active(params))

Kept(i) == IF Alive(record_parameters[i]) THEN record_parameters[i] ELSE NULL

\* The first slot that stays in use after the dead ones are freed.
FirstKept == CHOOSE k \in Slots : /\ Kept(k).stage # "null"
                                  /\ \A i \in Slots : i < k => Kept(i).stage = "null"

\* Mutant: the table is shifted, but its first epoch is not updated.
GcKeepsMin ==
    /\ record_parameters' = [i \in Slots |-> IF i + FirstKept \in Slots
                                             THEN Kept(i + FirstKept) ELSE NULL]
    /\ UNCHANGED <<epoch_min, epoch_read, epoch_write, epoch_next, queued>>

\* Mutant: the dead parameters are freed, but the table is not shifted.
GcNoShift ==
    /\ record_parameters' = [i \in Slots |-> Kept(i)]
    /\ epoch_min' = Kept(FirstKept).epoch
    /\ UNCHANGED <<epoch_read, epoch_write, epoch_next, queued>>

\* _gnutls_epoch_gc: the table is shifted so that it starts with an epoch in
\* use.  Some epoch always is, the read one for instance.
Gc ==
    /\ record_parameters' = [i \in Slots |-> IF i + FirstKept \in Slots
                                             THEN Kept(i + FirstKept) ELSE NULL]
    /\ epoch_min' = Kept(FirstKept).epoch
    /\ UNCHANGED <<epoch_read, epoch_write, epoch_next, queued>>

-----------------------------------------------------------------------------
(* Messages hold their epoch from _gnutls_handshake_io_cache_int until they *)
(* are sent, or in DTLS until the peer has answered the flight.             *)

Queue ==
    /\ Present(epoch_write)
    /\ queued[epoch_write] < MaxUsage
    /\ Put(epoch_write, [Get(epoch_write) EXCEPT !.usage_cnt = @ + 1])
    /\ queued' = [queued EXCEPT ![epoch_write] = @ + 1]
    /\ UNCHANGED <<epoch_min, epoch_read, epoch_write, epoch_next>>

Release(e) ==
    /\ queued[e] > 0
    /\ Present(e)
    /\ Put(e, [Get(e) EXCEPT !.usage_cnt = @ - 1])
    /\ queued' = [queued EXCEPT ![e] = @ - 1]
    /\ UNCHANGED <<epoch_min, epoch_read, epoch_write, epoch_next>>

Next == \/ SetupNext \/ SetCipherSuite
        \/ \E e \in {epoch_read, epoch_write} : EpochDup(e)
        \/ ReadStateInit \/ WriteStateInit \/ ConnectionStateInit
        \/ Bump \/ Gc
        \/ Queue \/ \E e \in EpochIds : Release(e)

Spec == Init /\ [][Next]_vars

-----------------------------------------------------------------------------
\* Table and epoch numbers stay in range.
TypeOK == /\ record_parameters \in [Slots -> Params]
          /\ epoch_min \in EpochIds /\ epoch_next \in EpochIds
          /\ epoch_read \in EpochIds /\ epoch_write \in EpochIds
          /\ queued \in [EpochIds -> Nat]

\* Slot i holds epoch epoch_min + i, modulo 2^16: looking an epoch up never
\* yields the keys of another one, also after the counter wrapped around.
SlotsAligned == \A i \in Slots : record_parameters[i].stage # "null" =>
                                    Index(record_parameters[i].epoch) = i

\* The epochs being read and written always have parameters with keys: the
\* record layer never meets an incomplete cipher state.
ActiveReady == \A e \in {epoch_read, epoch_write} : Present(e) /\ Get(e).stage = "ready"

\* The parameters a queued message was cached under survive until it is
\* released, with a usage count of exactly the messages queued.
QueuedHeld ==
    /\ \A e \in EpochIds : queued[e] > 0 => Present(e)
    /\ \A i \in Slots : LET params == record_parameters[i]
                        IN  params.stage # "null" => params.usage_cnt = queued[params.epoch]

IInv == TypeOK /\ SlotsAligned /\ ActiveReady /\ QueuedHeld

\* Collecting garbage changes what no live epoch number means.
GcKeepsLive == [][Gc => \A e \in EpochIds :
                          Present(e) /\ (queued[e] > 0 \/ e \in {epoch_read, epoch_write, epoch_next})
                            => Present(e)' /\ Get(e)' = Get(e)]_vars
=============================================================================
