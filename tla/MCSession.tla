----------------------------- MODULE MCSession -----------------------------
(***************************************************************************)
(* The two sockets of Session: a has the lower public key.  Three bounds   *)
(* that put the weight on crossed and repeated attempts with a removal, on *)
(* a restart, and on grants within one session.                            *)
(***************************************************************************)
EXTENDS Session

Ranks == [a |-> 2, b |-> 3]

Weights == {
    [ephs |-> 4, packets |-> 1, grants |-> 0, retries |-> 2, removals |-> 1, restarts |-> 0],
    [ephs |-> 3, packets |-> 1, grants |-> 0, retries |-> 2, removals |-> 0, restarts |-> 1],
    [ephs |-> 2, packets |-> 3, grants |-> 1, retries |-> 1, removals |-> 0, restarts |-> 0]}

\* One attempt each, and nothing but the handshake.
CrossedOnly == {[ephs |-> 4, packets |-> 0, grants |-> 0, retries |-> 0, removals |-> 0,
                 restarts |-> 0]}
=============================================================================
