---------------------------- MODULE MCReadyPath ----------------------------
\* Two application threads and a second socket on one pool of two slots, each
\* in a ring of its own.  Cursors start two short of the wrap.
EXTENDS ReadyPath, TLC

CONSTANTS app, worker, tenant, near, far

\* A peer in each lane, and a peer in the lane only one thread comes back to.
OneEach == (near :> 0) @@ (far :> 1)
Second == near :> 1
Worn == {14}
Alike == Permutations({app, worker})
=============================================================================
