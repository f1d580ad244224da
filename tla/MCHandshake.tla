---------------------------- MODULE MCHandshake ----------------------------
(* Model-checking instances of Handshake. *)
EXTENDS HandshakeScript

\* HelloRetryRequest, early data and re-authentication are TLS 1.3; early data
\* needs a session to resume.  A client certificate matters only where one is
\* asked for, which a resumed handshake does not, and what precedes a
\* re-authentication does not change it.  The size of early data matters where
\* it is refused: one byte fits the limit of two with what encryption adds, two
\* do not.
Possible == {m \in Mode : /\ m.vers = 12 => ~m.hrr /\ m.early = "none" /\ ~m.reauth
                          /\ m.early # "none" => m.offer # "none"
                          /\ m.early # "rejected" => m.size = 1
                          /\ m.cc => m.cr \/ m.reauth
                          /\ m.offer = "accepted" => ~m.cr
                          /\ m.reauth => m.offer = "none" /\ ~m.hrr /\ ~m.start}

\* Early data the server would take, and a HelloRetryRequest.
EarlyRetry == {m \in Possible : m.early = "accepted" /\ m.hrr}

\* Early data on a ticket that the server then refuses.
EarlyRefused == {m \in Possible : m.early # "none" /\ m.offer = "refused"}

\* The handshakes that complete, or overrun the limit of early data.
AllModes == Possible \ (EarlyRetry \cup EarlyRefused)
=============================================================================
