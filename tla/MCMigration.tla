---------------------------- MODULE MCMigration ----------------------------
(* Instances of Migration. Each behaviour has one of the scenarios below.  *)
EXTENDS Migration

CONSTANTS m1, m2, home1, home2

\* The first address of each mover.
Homes == [m \in Movers |-> IF m = m1 THEN home1 ELSE home2]

Of(x, y) == [m \in Movers |-> IF m = m1 THEN x ELSE y]

\* One mover with packets from several places under way, and one that rotates
\* as far as the window reaches.
Wandering == [moves |-> Of(2, 0), rotations |-> Of(1, 0), sessions |-> Of(1, 0), inFlight |-> 2]
Rotating == [moves |-> Of(2, 0), rotations |-> Of(2, 0), sessions |-> Of(1, 0), inFlight |-> 1]

\* One mover whose peer is removed and comes back.
Returning == [moves |-> Of(1, 0), rotations |-> Of(1, 0), sessions |-> Of(2, 0), inFlight |-> 2]

\* Two movers that may have one address after the other.
Crossing == [moves |-> Of(2, 1), rotations |-> Of(0, 0), sessions |-> Of(1, 1), inFlight |-> 1]

Scenarios == {Wandering, Rotating, Returning, Crossing}

\* One mover that stays and rotates three times.
Staying == {[moves |-> Of(0, 0), rotations |-> Of(3, 0), sessions |-> Of(1, 0), inFlight |-> 1]}

\* A slot that changes hands.
Recycling == {[moves |-> Of(1, 0), rotations |-> Of(0, 0), sessions |-> Of(2, 1), inFlight |-> 1]}

\* Two movers that change places.
Swapping == {[moves |-> Of(2, 1), rotations |-> Of(0, 0), sessions |-> Of(1, 1), inFlight |-> 1]}
=============================================================================
