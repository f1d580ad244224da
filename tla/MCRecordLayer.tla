--------------------------- MODULE MCRecordLayer ----------------------------
(* Model-checking instance of DtlsWindow and Epochs.  The two share no      *)
(* state: a behaviour moves one of them while the other rests in its        *)
(* initial state, so that the states of the two add up.                     *)
(*                                                                          *)
(* A window of three bits and eight sequence numbers reach every branch of  *)
(* _dtls_record_check: jumps by less than, exactly and more than the        *)
(* window, and records at, inside and behind its far end; two epochs reach  *)
(* the reset.  Six epoch numbers wrap around over a table of four slots.    *)
EXTENDS DtlsWindow, Epochs

LayerInit == WindowInit /\ Init

LayerNext == \/ WindowNext /\ Init /\ UNCHANGED vars
             \/ Next /\ WindowInit /\ UNCHANGED wvars

LayerSpec == LayerInit /\ [][LayerNext]_<<wvars, vars>>
=============================================================================
