----------------------------- MODULE MCTickets -----------------------------
(* Model-checking instance of Tickets: one session object, which is opened    *)
(* and closed again and again; sessions share no state but the recording.     *)
EXTENDS Tickets
=============================================================================
