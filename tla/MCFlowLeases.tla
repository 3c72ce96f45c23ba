---------------------------- MODULE MCFlowLeases ----------------------------
(* The embeddings of the socket that FlowLeases is checked for.            *)
EXTENDS FlowLeases, TLC
CONSTANTS app, net

Left(n) == [c \in Calls |-> IF c \in DOMAIN n THEN n[c] ELSE 0]

\* The application opens, sends and closes; the network thread reports and polls.
Closing == [calls |-> (app :> {"register", "open", "send", "close"}) @@ (net :> {"refuse", "arrive", "peerEvent", "poll"}),
            left |-> Left([register |-> 2, open |-> 2, send |-> 3, close |-> 2, refuse |-> 1, arrive |-> 1,
                           peerEvent |-> 1, poll |-> 2])]

\* The application opens, sends and removes peers; the network thread reports
\* of flows and polls.
Removing == [calls |-> (app :> {"register", "open", "send", "remove"}) @@ (net :> {"refuse", "poll"}),
             left |-> Left([register |-> 3, open |-> 1, send |-> 3, remove |-> 2, refuse |-> 2, poll |-> 3])]

\* One thread drives every call but the removal of the peer.
Crossed == [calls |-> (app :> {"register", "open", "send"}) @@ (net :> {"remove", "poll"}),
            left |-> Left([register |-> 2, open |-> 1, send |-> 1, remove |-> 1, poll |-> 1])]

\* Peers are reported and removed on one thread, events read on another.
Reading == [calls |-> (app :> {"register", "remove", "peerEvent"}) @@ (net :> {"poll"}),
            left |-> Left([register |-> 2, remove |-> 1, peerEvent |-> 1, poll |-> 2])]

Apart == {Closing, Removing}

OnlyCrossed == {Crossed}
OnlyReading == {Reading}

\* Slots and addresses are only compared for equality.
Renamings == Permutations(PeerSlots) \cup Permutations(FlowSlots) \cup Permutations(OutSlots) \cup Permutations(Addrs)
=============================================================================
