---------------------------- MODULE MCKeyUpdate ----------------------------
(* Model-checking instances of KeyUpdate. *)
EXTENDS KeyUpdate

Prof(n, r, c, k) == [nonblock |-> n, requests |-> r, cork |-> c, rekey |-> k,
                     bye |-> FALSE, chunks |-> 4]

Closing(ps) == {[x EXCEPT !.bye = TRUE, !.chunks = 2, !.rekey = IF @ = 0 THEN 0 ELSE 1] : x \in ps}

\* The three uses in which the stream and the promise to the peer hold.
OpenProfiles == {Prof(FALSE, TRUE, FALSE, 2),   \* blocking, with requests
                 Prof(TRUE, FALSE, TRUE, 0),    \* non-blocking, with corking
                 Prof(TRUE, FALSE, FALSE, 2)}   \* non-blocking, automatic re-key

\* The same, and without corking also with connections that are closed after
\* fewer chunks.
SafeProfiles == OpenProfiles \cup Closing({x \in OpenProfiles : ~x.cork})

\* A non-blocking endpoint whose peer asks for key updates.
NonblockingRequests == {Prof(TRUE, TRUE, FALSE, 0)}

\* A blocking endpoint that corks, with a peer that asks for key updates.
CorkedRequests == {Prof(FALSE, TRUE, TRUE, 0)}
=============================================================================
