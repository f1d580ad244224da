-------------------------- MODULE MCDtlsReassembly --------------------------
(* Model-checking instance of DtlsReassembly. *)
EXTENDS DtlsReassembly

\* Three flights: a single message that may be replayed late, then as many
\* messages as the buffer has entries (one of several fragments, one that the
\* MTUs cut differently and an empty one), then two with a short last fragment.
Message(htype, length, flight) == [htype |-> htype, length |-> length, flight |-> flight]
ThreeFlights == <<Message(3, 3, 0),
                  Message(2, 9, 1), Message(11, 7, 1), Message(14, 0, 1),
                  Message(4, 8, 2), Message(20, 5, 2)>>
=============================================================================
