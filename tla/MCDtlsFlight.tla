---------------------------- MODULE MCDtlsFlight ----------------------------
(* Model-checking instances of DtlsFlight. *)
EXTENDS DtlsFlight

M(k, n, e) == [kind |-> k, nonblock |-> n, expires |-> e]

AllModes == {M("full", FALSE, FALSE), M("resumed", FALSE, FALSE), M("full", FALSE, TRUE),
             M("full", TRUE, FALSE), M("resumed", TRUE, FALSE), M("ticket", FALSE, FALSE)}

\* A non-blocking full handshake.
NonblockingFull == {M("full", TRUE, FALSE)}

\* A blocking full handshake in which the server sends a session ticket.
BlockingTicket == {M("ticket", FALSE, FALSE)}
=============================================================================
