--------------------------- MODULE ReadyPathProofs ---------------------------
(***************************************************************************)
(* Every slot has one owner and a push never fails, for any pool, lanes    *)
(* and threads, and wherever the cursors wrap, as long as no thread sleeps *)
(* through a whole turn of a cursor (NoLap).                               *)
(***************************************************************************)
EXTENDS ReadyPathLemmas, FiniteSetTheorems

USE SMTT(15), ZenonT(20)

-----------------------------------------------------------------------------
(* Which positions are filled, and with what. *)

LEMMA QuietFilled ==
  ASSUME NEW t \in Actors, Quiet(t), NEW w, NEW m
  PROVE  (FilledAt(w, m)' <=> FilledAt(w, m)) /\ At(w, m)' = At(w, m)
  BY QuietPending DEF FilledAt, At, Quiet

LEMMA ClaimPutFilled ==
  ASSUME TypeOK, RingsInv, LoadedInv, NoLap, NEW t \in Actors, ClaimsPut(t), NEW w \in Rings, NEW m
  PROVE  (FilledAt(w, m)' <=> FilledAt(w, m)) /\ At(w, m)' = At(w, m)
  <1>1. Claiming(t) /\ ~Takes(th[t].op)
    BY DEF ClaimsPut
  <1>2. PutPending(w, m)' <=> PutPending(w, m) \/ (w = th[t].q /\ m = th[t].at)
    BY <1>1, ClaimPending, Zenon
  <1>3. At(w, m)' = At(w, m)
    BY <1>1 DEF At, Claiming, Untouched
  <1>4. CASE w = th[t].q
    <2>1. th[t].at = ring[w].puts
      BY <1>1, <1>4, ClaimsItsTurn DEF Turn
    <2>2. ring'[w].puts = ring[w].puts + 1 /\ ring'[w].takes = ring[w].takes
      BY <1>4 DEF ClaimsPut
    <2>3. ring[w].puts \in Int /\ ring[w].takes \in Int
      BY RingFacts
    <2> QED
      BY <1>2, <1>3, <1>4, <2>1, <2>2, <2>3 DEF FilledAt
  <1>5. CASE w # th[t].q
    <2>1. ring'[w] = ring[w]
      BY <1>1, <1>5 DEF Claiming, Untouched
    <2> QED
      BY <1>2, <1>3, <1>5, <2>1 DEF FilledAt
  <1> QED
    BY <1>4, <1>5

LEMMA ClaimTakeFilled ==
  ASSUME TypeOK, RingsInv, LoadedInv, NoLap, NEW t \in Actors, ClaimsTake(t), NEW w \in Rings, NEW m
  PROVE  /\ FilledAt(w, m)' <=> FilledAt(w, m) /\ ~(w = th[t].q /\ m = th[t].at)
         /\ At(w, m)' = At(w, m)
         /\ w = th[t].q /\ m = th[t].at => FilledAt(w, m)
  <1>1. Claiming(t) /\ Takes(th[t].op)
    BY DEF ClaimsTake
  <1>2. PutPending(w, m)' <=> PutPending(w, m)
    BY <1>1, ClaimPending, Zenon
  <1>3. At(w, m)' = At(w, m)
    BY <1>1 DEF At, Claiming, Untouched
  <1>4. CASE w = th[t].q
    <2>1. th[t].at = ring[w].takes /\ FullNext(w)
      BY <1>1, <1>4, ClaimsItsTurn DEF Turn
    <2>2. ring'[w].puts = ring[w].puts /\ ring'[w].takes = ring[w].takes + 1
      BY <1>4 DEF ClaimsTake
    <2>3. ring[w].puts \in Int /\ ring[w].takes \in Int
      BY RingFacts
    <2>4. ring[w].takes \in ring[w].takes .. ring[w].puts - 1 /\ ~PutPending(w, ring[w].takes)
      BY <2>1, <2>3 DEF FullNext
    <2>5. FilledAt(w, ring[w].takes)
      BY <2>4 DEF FilledAt
    <2>6. m \in ring[w].takes + 1 .. ring[w].puts - 1 <=> m \in ring[w].takes .. ring[w].puts - 1 /\ m # ring[w].takes
      BY <2>3
    <2>7. FilledAt(w, m)' <=> FilledAt(w, m) /\ m # ring[w].takes
      BY <1>2, <2>2, <2>6 DEF FilledAt
    <2> QED
      BY <1>3, <1>4, <2>1, <2>5, <2>7
  <1>5. CASE w # th[t].q
    <2>1. ring'[w] = ring[w]
      BY <1>1, <1>5 DEF Claiming, Untouched
    <2> QED
      BY <1>2, <1>3, <1>5, <2>1 DEF FilledAt
  <1> QED
    BY <1>4, <1>5

LEMMA PublishTakeFilled ==
  ASSUME TypeOK, ClaimsInv, NEW t \in Actors, PublishesTake(t), NEW w \in Rings, NEW m
  PROVE  (FilledAt(w, m)' <=> FilledAt(w, m)) /\ At(w, m)' = At(w, m)
  <1>1. Publishing(t) /\ Takes(th[t].op)
    BY DEF PublishesTake
  <1>2. PutPending(w, m)' <=> PutPending(w, m)
    BY <1>1, PublishPending, Zenon
  <1>3. ring'[w].puts = ring[w].puts /\ ring'[w].takes = ring[w].takes /\ ring'[w].val = ring[w].val
    BY <1>1, Zenon DEF PublishesTake, Publishing, Untouched
  <1> QED
    BY <1>2, <1>3 DEF FilledAt, At

LEMMA PublishPutFilled ==
  ASSUME TypeOK, RingsInv, LoadedInv, ClaimsInv, NEW t \in Actors, PublishesPut(t), NEW w \in Rings, NEW m
  PROVE  LET it == w = th[t].q /\ m = th[t].at
         IN /\ FilledAt(w, m)' <=> FilledAt(w, m) \/ it
            /\ it => ~FilledAt(w, m) /\ At(w, m)' = th[t].val
            /\ ~it /\ m \in ring[w].puts - Cap(w) .. ring[w].puts - 1 => At(w, m)' = At(w, m)
  <1> DEFINE it == w = th[t].q /\ m = th[t].at
  <1>1. Publishing(t) /\ ~Takes(th[t].op) /\ th[t].pc = "publish"
    BY DEF PublishesPut, Publishing
  <1>2. /\ PutPending(w, m)' <=> PutPending(w, m) /\ ~it
        /\ it => PutPending(w, m)
    BY <1>1, PublishPending, Zenon
  <1>3. ring'[w].puts = ring[w].puts /\ ring'[w].takes = ring[w].takes
    BY <1>1 DEF Publishing, Untouched
  <1>4. ring[w].puts \in Int /\ ring[w].takes \in Int /\ Cap(w) \in Nat \ {0} /\ th[t].at \in Int
        /\ ring[w].val \in [0 .. Cap(w) - 1 -> Indices]
    BY RingFacts, ThreadFacts
  <1>5. w = th[t].q => /\ th[t].at \in ring[w].puts - Cap(w) .. ring[w].puts - 1
                       /\ Cell(t) = th[t].at % Cap(w) /\ th[t].at >= ring[w].takes
    BY <1>1, ClaimedCell
  <1>6. FilledAt(w, m)' <=> FilledAt(w, m) \/ it
    <2>1. it => m \in ring[w].takes .. ring[w].puts - 1
      BY <1>4, <1>5
    <2> HIDE DEF it
    <2> QED
      BY <1>2, <1>3, <2>1 DEF FilledAt
  <1>7. it => ~FilledAt(w, m)
    <2> HIDE DEF it
    <2> QED
      BY <1>2 DEF FilledAt
  <1>8. w = th[t].q => ring'[w].val = [ring[w].val EXCEPT ![Cell(t)] = th[t].val] /\ Cell(t) \in 0 .. Cap(w) - 1
    BY DEF PublishesPut, Publishing
  <1>9. w # th[t].q => ring'[w] = ring[w]
    BY <1>1 DEF Publishing, Untouched
  <1>10. it => At(w, m)' = th[t].val
    BY <1>4, <1>5, <1>8 DEF At
  <1>11. ~it /\ m \in ring[w].puts - Cap(w) .. ring[w].puts - 1 => At(w, m)' = At(w, m)
    <2>1. CASE w # th[t].q
      BY <1>9, <2>1 DEF At
    <2>2. CASE w = th[t].q /\ m # th[t].at /\ m \in ring[w].puts - Cap(w) .. ring[w].puts - 1
      <3>1. PICK n \in Nat \ {0} : n = Cap(w)
        BY <1>4
      <3>2. PICK a \in Int : a = th[t].at
        BY <1>4
      <3>3. m \in Int /\ m # a /\ -n < m - a /\ m - a < n
        BY <1>4, <1>5, <2>2, <3>1, <3>2
      <3>4. m % n # a % n /\ m % n \in 0 .. n - 1
        BY <3>3, Apart, Divided, Zenon
      <3>5. m % Cap(w) # Cell(t) /\ m % Cap(w) \in 0 .. Cap(w) - 1
        BY <1>5, <2>2, <3>1, <3>2, <3>4
      <3>6. ring'[w].val[m % Cap(w)] = ring[w].val[m % Cap(w)]
        BY <1>4, <1>8, <2>2, <3>5
      <3> QED
        BY <3>6 DEF At
    <2> QED
      BY <2>1, <2>2
  <1> QED
    BY <1>6, <1>7, <1>10, <1>11, Zenon

-----------------------------------------------------------------------------
(* The indices of a pool ring stay in it. *)

LEMMA HomeKept ==
  ASSUME HomeInv, NEW q \in PoolRings, NEW m,
         m \in ring[q].puts - Cap(q) .. ring[q].puts - 1, FilledAt(q, m) \/ TakePending(q, m), At(q, m)' = At(q, m)
  PROVE  Home(At(q, m))' = q
  BY DEF HomeInv, Home

LEMMA HomeStep ==
  ASSUME TypeOK, CallInv, HandInv, RingsInv, LoadedInv, ClaimsInv, NoLap, HomeInv, NEW t \in Actors, Shaped(t)
  PROVE  HomeInv'
  <1> SUFFICES ASSUME NEW q \in PoolRings, NEW m \in ring'[q].puts - Cap(q) .. ring'[q].puts - 1,
                      FilledAt(q, m)' \/ TakePending(q, m)'
               PROVE  Home(At(q, m))' = q
    BY DEF HomeInv, Cap
  <1>1. q \in Rings
    BY DEF Rings
  <1> DEFINE P == ring[q].puts
             T == ring[q].takes
             N == Cap(q)
  <1>2. P \in Int /\ T \in Int /\ N \in Nat \ {0} /\ T <= P /\ P <= T + N
    BY <1>1, RingFacts DEF RingsInv, RingInv
  <1>3. CASE Looks(t) \/ Finds(t) \/ Elsewhere(t)
    <2>1. Quiet(t) /\ ring' = ring
      BY <1>3 DEF Looks, Finds, Elsewhere, Quiet
    <2>2. FilledAt(q, m) \/ TakePending(q, m)
      BY <2>1, QuietFilled, QuietPending
    <2>3. At(q, m)' = At(q, m)
      BY <2>1, QuietFilled
    <2> QED
      BY <2>1, <2>2, <2>3, HomeKept
  <1>4. CASE ClaimsPut(t)
    <2>1. At(q, m)' = At(q, m)
      BY <1>1, <1>4, ClaimPutFilled
    <2>2. Claiming(t) /\ ~Takes(th[t].op)
      BY <1>4 DEF ClaimsPut
    <2>3. FilledAt(q, m) \/ TakePending(q, m)
      <3>1. FilledAt(q, m)' <=> FilledAt(q, m)
        BY <1>1, <1>4, ClaimPutFilled
      <3>2. TakePending(q, m)' <=> TakePending(q, m)
        BY <2>2, ClaimPending, Zenon
      <3> QED
        BY <3>1, <3>2
    <2>4. m \in Int /\ P - N <= m
      <3>1. ring'[q].puts = P \/ ring'[q].puts = P + 1
        BY <1>1, <1>4 DEF ClaimsPut, Claiming, Untouched
      <3> QED
        BY <1>2, <3>1
    <2>5. m < P
      <3>1. FilledAt(q, m) => m < P
        BY <1>2 DEF FilledAt
      <3>2. TakePending(q, m) => m < T
        BY <1>2, <2>4 DEF TakePending, Grabs, ClaimsInv
      <3> QED
        BY <1>2, <2>3, <2>4, <3>1, <3>2
    <2>6. m \in P - N .. P - 1
      BY <1>2, <2>4, <2>5
    <2> QED
      BY <2>1, <2>3, <2>6, HomeKept
  <1>5. CASE ClaimsTake(t)
    <2>1. At(q, m)' = At(q, m) /\ (FilledAt(q, m)' => FilledAt(q, m)) /\ (q = th[t].q /\ m = th[t].at => FilledAt(q, m))
      BY <1>1, <1>5, ClaimTakeFilled
    <2>2. TakePending(q, m)' => TakePending(q, m) \/ (q = th[t].q /\ m = th[t].at)
      BY <1>5, ClaimPending, Zenon DEF ClaimsTake
    <2>3. ring'[q].puts = ring[q].puts
      BY <1>1, <1>5 DEF ClaimsTake, Claiming, Untouched
    <2>4. FilledAt(q, m) \/ TakePending(q, m)
      BY <2>1, <2>2
    <2> QED
      BY <2>1, <2>3, <2>4, HomeKept
  <1>6. CASE PublishesTake(t)
    <2>1. At(q, m)' = At(q, m) /\ (FilledAt(q, m)' => FilledAt(q, m))
      BY <1>1, <1>6, PublishTakeFilled
    <2>2. TakePending(q, m)' => TakePending(q, m)
      BY <1>6, PublishPending, Zenon DEF PublishesTake
    <2>3. ring'[q].puts = ring[q].puts
      BY <1>1, <1>6, Zenon DEF PublishesTake, Publishing, Untouched
    <2>4. FilledAt(q, m) \/ TakePending(q, m)
      BY <2>1, <2>2
    <2> QED
      BY <2>1, <2>3, <2>4, HomeKept
  <1>7. CASE PublishesPut(t)
    <2>1. ring'[q].puts = ring[q].puts
      BY <1>1, <1>7, Zenon DEF PublishesPut, Publishing, Untouched
    <2>2. CASE q = th[t].q /\ m = th[t].at
      <3>1. At(q, m)' = th[t].val
        BY <1>1, <1>7, <2>2, PublishPutFilled
      <3>2. th[t].pc \in RingPcs /\ ~Takes(th[t].op)
        BY <1>7, Zenon DEF PublishesPut, Publishing, RingPcs
      <3>3. th[t].q \notin LaneRings
        BY <2>2 DEF PoolRings, LaneRings
      <3>4. q = Home(th[t].val)
        BY <2>2, <3>2, <3>3, PutInHand
      <3> QED
        BY <3>1, <3>4 DEF Home
    <2>3. CASE ~(q = th[t].q /\ m = th[t].at)
      <3>1. m \in ring[q].puts - Cap(q) .. ring[q].puts - 1
        BY <2>1
      <3>2. At(q, m)' = At(q, m) /\ (FilledAt(q, m)' => FilledAt(q, m))
        BY <1>1, <1>7, <2>3, <3>1, PublishPutFilled
      <3>3. TakePending(q, m)' => TakePending(q, m)
        BY <1>7, PublishPending, Zenon DEF PublishesPut
      <3>4. FilledAt(q, m) \/ TakePending(q, m)
        BY <3>2, <3>3
      <3> QED
        BY <3>1, <3>2, <3>4, HomeKept
    <2> QED
      BY <2>2, <2>3
  <1> QED
    BY <1>3, <1>4, <1>5, <1>6, <1>7 DEF Shaped

-----------------------------------------------------------------------------
(* A slot is in one place, and a step moves at most one slot. *)

\* The step takes slot j from place (a, b) to place (c, d).
Moves(j, a, b, c, d) ==
  /\ Occupies(j, a, b)
  /\ \A i, x, y : Occupies(i, x, y)' <=> \/ Occupies(i, x, y) /\ ~(i = j /\ x = a /\ y = b)
                                         \/ i = j /\ x = c /\ y = d

LEMMA MovesOwned ==
  ASSUME OwnedInv, NEW j, NEW a, NEW b, NEW c, NEW d, Moves(j, a, b, c, d)
  PROVE  OwnedInv'
  <1> SUFFICES ASSUME NEW i \in Indices
               PROVE  /\ \E x, y : Occupies(i, x, y)'
                      /\ \A x, y, z, w : Occupies(i, x, y)' /\ Occupies(i, z, w)' => x = z /\ y = w
    BY Zenon DEF OwnedInv, Indices
  <1>1. /\ \E x, y : Occupies(i, x, y)
        /\ \A x, y, z, w : Occupies(i, x, y) /\ Occupies(i, z, w) => x = z /\ y = w
    BY Zenon DEF OwnedInv
  <1>2. /\ Occupies(j, a, b)
        /\ \A x, y : Occupies(i, x, y)' <=> \/ Occupies(i, x, y) /\ ~(i = j /\ x = a /\ y = b)
                                            \/ i = j /\ x = c /\ y = d
    BY Zenon DEF Moves
  <1>3. CASE i # j
    BY <1>1, <1>2, <1>3, Zenon
  <1>4. CASE i = j
    <2>1. Occupies(i, a, b)
      BY <1>2, <1>4
    <2>2. ASSUME NEW x, NEW y PROVE Occupies(i, x, y)' <=> x = c /\ y = d
      <3>1. Occupies(i, x, y) => x = a /\ y = b
        BY <1>1, <2>1, Zenon
      <3>2. Occupies(i, x, y)' <=> \/ Occupies(i, x, y) /\ ~(i = j /\ x = a /\ y = b)
                                   \/ i = j /\ x = c /\ y = d
        BY <1>2, Zenon
      <3> QED
        BY <1>4, <3>1, <3>2
    <2>3. Occupies(i, c, d)'
      BY <2>2, Zenon
    <2>4. \E x, y : Occupies(i, x, y)'
      BY <2>3, Zenon
    <2>5. \A x, y, z, w : Occupies(i, x, y)' /\ Occupies(i, z, w)' => x = z /\ y = w
      BY <2>2
    <2> QED
      BY <2>4, <2>5
  <1> QED
    BY <1>3, <1>4

LEMMA StaysOwned ==
  ASSUME OwnedInv, \A i, x, y : Occupies(i, x, y)' <=> Occupies(i, x, y)
  PROVE  OwnedInv'
  BY Zenon DEF OwnedInv, Indices

\* A slot in a ring, in hand, or being taken.
LEMMA OccupiesIn ==
  ASSUME NEW i, NEW x, NEW y
  PROVE  /\ x \in Rings => (Occupies(i, x, y) <=> FilledAt(x, y) /\ At(x, y) = i)
         /\ x = Hands => (Occupies(i, x, y) <=> y \in Actors /\ i \in th[y].mine)
         /\ x = Grasp => (Occupies(i, x, y) <=> y \in Actors /\ Taking(y) /\ At(th[y].q, th[y].at) = i)
         /\ x \notin Rings /\ x # Hands /\ x # Grasp => ~Occupies(i, x, y)
  BY PlacesApart, Zenon DEF Occupies, Rings, PoolRings, LaneRings, Hands, Grasp, Actors

LEMMA OccupiesInNext ==
  ASSUME NEW i, NEW x, NEW y
  PROVE  /\ x \in Rings => (Occupies(i, x, y)' <=> FilledAt(x, y)' /\ At(x, y)' = i)
         /\ x = Hands => (Occupies(i, x, y)' <=> y \in Actors /\ i \in th'[y].mine)
         /\ x = Grasp => (Occupies(i, x, y)' <=> y \in Actors /\ Taking(y)' /\ At(th[y].q, th[y].at)' = i)
         /\ x \notin Rings /\ x # Hands /\ x # Grasp => ~Occupies(i, x, y)'
  BY PlacesApart, Zenon DEF Occupies, Rings, PoolRings, LaneRings, Hands, Grasp, Actors


LEMMA QuietOwned ==
  ASSUME OwnedInv, NEW t \in Actors, Quiet(t)
  PROVE  OwnedInv'
  <1>1. \A u \in Actors : th'[u].mine = th[u].mine
    BY DEF Quiet, Alone
  <1>2. ASSUME NEW u \in Actors
        PROVE  /\ Taking(u)' <=> Taking(u)
               /\ Taking(u) => At(th[u].q, th[u].at)' = At(th[u].q, th[u].at)
    BY DEF Quiet, Alone, Taking, At
  <1>3. ASSUME NEW i, NEW x, NEW y PROVE Occupies(i, x, y)' <=> Occupies(i, x, y)
    <2>1. CASE x \in Rings
      BY <2>1, QuietFilled, OccupiesIn, OccupiesInNext
    <2>2. CASE x = Hands
      BY <1>1, <2>2, OccupiesIn, OccupiesInNext
    <2>3. CASE x = Grasp
      <3>1. /\ Occupies(i, x, y)' <=> y \in Actors /\ Taking(y)' /\ At(th[y].q, th[y].at)' = i
            /\ Occupies(i, x, y) <=> y \in Actors /\ Taking(y) /\ At(th[y].q, th[y].at) = i
        BY <2>3, OccupiesIn, OccupiesInNext, Zenon
      <3> QED
        BY <1>2, <3>1, Zenon
    <2>4. CASE x \notin Rings /\ x # Hands /\ x # Grasp
      BY <2>4, OccupiesIn, OccupiesInNext, Zenon
    <2> QED
      BY <2>1, <2>2, <2>3, <2>4
  <1> QED
    BY <1>3, StaysOwned

\* A thread that is taking is in a ring, at a position of it.
LEMMA TakingRing ==
  ASSUME TypeOK, CallInv, NEW u \in Actors, Taking(u)
  PROVE  th[u].q \in Rings
  BY InRings DEF Taking, RingPcs

LEMMA ClaimPutOwned ==
  ASSUME TypeOK, CallInv, RingsInv, LoadedInv, NoLap, OwnedInv, NEW t \in Actors, ClaimsPut(t)
  PROVE  OwnedInv'
  <1>1. \A u \in Actors : th'[u].mine = th[u].mine
    BY Zenon DEF ClaimsPut, Claiming, Alone
  <1>2. ASSUME NEW u \in Actors
        PROVE  /\ Taking(u)' <=> Taking(u)
               /\ Taking(u) => At(th[u].q, th[u].at)' = At(th[u].q, th[u].at)
    <2>1. u # t => th'[u] = th[u]
      BY DEF ClaimsPut, Claiming, Alone
    <2>2. ~Taking(t) /\ ~Taking(t)'
      BY DEF ClaimsPut, Claiming, Taking
    <2>3. Taking(u)' <=> Taking(u)
      BY <2>1, <2>2 DEF Taking
    <2>4. ASSUME Taking(u) PROVE At(th[u].q, th[u].at)' = At(th[u].q, th[u].at)
      <3>1. PICK w \in Rings : w = th[u].q
        BY <2>4, TakingRing
      <3>2. PICK m : m = th[u].at
        OBVIOUS
      <3>3. th'[u] = th[u]
        BY <2>1, <2>2, <2>4
      <3>4. At(w, m)' = At(w, m)
        BY ClaimPutFilled
      <3> QED
        BY <3>1, <3>2, <3>3, <3>4 DEF At
    <2> QED
      BY <2>3, <2>4
  <1>3. ASSUME NEW i, NEW x, NEW y PROVE Occupies(i, x, y)' <=> Occupies(i, x, y)
    <2>1. CASE x \in Rings
      BY <2>1, ClaimPutFilled, OccupiesIn, OccupiesInNext, Zenon
    <2>2. CASE x = Hands
      BY <1>1, <2>2, OccupiesIn, OccupiesInNext, Zenon
    <2>3. CASE x = Grasp
      <3>1. /\ Occupies(i, x, y)' <=> y \in Actors /\ Taking(y)' /\ At(th[y].q, th[y].at)' = i
            /\ Occupies(i, x, y) <=> y \in Actors /\ Taking(y) /\ At(th[y].q, th[y].at) = i
        BY <2>3, OccupiesIn, OccupiesInNext, Zenon
      <3> QED
        BY <1>2, <3>1, Zenon
    <2>4. CASE x \notin Rings /\ x # Hands /\ x # Grasp
      BY <2>4, OccupiesIn, OccupiesInNext, Zenon
    <2> QED
      BY <2>1, <2>2, <2>3, <2>4
  <1> QED
    BY <1>3, StaysOwned

LEMMA ClaimTakeOwned ==
  ASSUME TypeOK, CallInv, RingsInv, LoadedInv, NoLap, OwnedInv, NEW t \in Actors, ClaimsTake(t)
  PROVE  OwnedInv'
  <1>1. PICK q \in Rings : q = th[t].q
    BY Zenon DEF ClaimsTake, Claiming
  <1>2. PICK a : a = th[t].at
    OBVIOUS
  <1>3. PICK j : j = At(q, a)
    OBVIOUS
  <1>4. \A u \in Actors : th'[u].mine = th[u].mine
    BY DEF ClaimsTake, Claiming, Alone
  <1>5. ~Taking(t) /\ Taking(t)' /\ At(th[t].q, th[t].at)' = j
    <2>1. ~Taking(t) /\ Taking(t)' /\ th'[t].q = q /\ th'[t].at = a
      BY <1>1, <1>2, Zenon DEF ClaimsTake, Claiming, Taking
    <2>2. At(q, a)' = j
      BY <1>3, ClaimTakeFilled
    <2> QED
      BY <2>1, <2>2 DEF At
  <1>6. ASSUME NEW u \in Actors, u # t
        PROVE  /\ Taking(u)' <=> Taking(u)
               /\ Taking(u) => At(th[u].q, th[u].at)' = At(th[u].q, th[u].at)
    <2>1. th'[u] = th[u]
      BY <1>6 DEF ClaimsTake, Claiming, Alone
    <2>2. ASSUME Taking(u) PROVE At(th[u].q, th[u].at)' = At(th[u].q, th[u].at)
      <3>1. PICK w \in Rings : w = th[u].q
        BY <2>2, TakingRing
      <3>2. PICK m : m = th[u].at
        OBVIOUS
      <3>3. At(w, m)' = At(w, m)
        BY ClaimTakeFilled
      <3> QED
        BY <2>1, <3>1, <3>2, <3>3 DEF At
    <2> QED
      BY <2>1, <2>2 DEF Taking
  <1>7. Occupies(j, q, a)
    BY <1>1, <1>2, <1>3, ClaimTakeFilled, OccupiesIn
  <1>8. ASSUME NEW i, NEW x, NEW y
        PROVE  Occupies(i, x, y)' <=> \/ Occupies(i, x, y) /\ ~(i = j /\ x = q /\ y = a)
                                      \/ i = j /\ x = Grasp /\ y = t
    <2>1. CASE x \in Rings
      <3>1. (FilledAt(x, y)' <=> FilledAt(x, y) /\ ~(x = q /\ y = a)) /\ At(x, y)' = At(x, y)
        BY <1>1, <1>2, <2>1, ClaimTakeFilled
      <3>2. x # Grasp
        BY <2>1, PlacesApart
      <3>3. (Occupies(i, x, y)' <=> FilledAt(x, y)' /\ At(x, y)' = i) /\ (Occupies(i, x, y) <=> FilledAt(x, y) /\ At(x, y) = i)
        BY <2>1, OccupiesIn, OccupiesInNext, Zenon
      <3> QED
        BY <1>3, <3>1, <3>2, <3>3
    <2>2. CASE x = Hands
      BY <1>1, <1>4, <2>2, OccupiesIn, OccupiesInNext, PlacesApart, Zenon
    <2>3. CASE x = Grasp
      <3>1. /\ Occupies(i, x, y)' <=> y \in Actors /\ Taking(y)' /\ At(th[y].q, th[y].at)' = i
            /\ Occupies(i, x, y) <=> y \in Actors /\ Taking(y) /\ At(th[y].q, th[y].at) = i
        BY <2>3, OccupiesIn, OccupiesInNext, Zenon
      <3>2. q # Grasp /\ Hands # Grasp
        BY <1>1, PlacesApart, Zenon
      <3>3. CASE y = t
        BY <1>5, <1>6, <2>3, <3>1, <3>2, <3>3
      <3>4. CASE y # t
        BY <1>5, <1>6, <2>3, <3>1, <3>2, <3>4, Zenon
      <3> QED
        BY <3>3, <3>4
    <2>4. CASE x \notin Rings /\ x # Hands /\ x # Grasp
      BY <1>1, <2>4, OccupiesIn, OccupiesInNext, Zenon
    <2> QED
      BY <2>1, <2>2, <2>3, <2>4
  <1>9. Moves(j, q, a, Grasp, t)
    BY <1>7, <1>8, Zenon DEF Moves
  <1> QED
    BY <1>9, MovesOwned

LEMMA PublishTakeOwned ==
  ASSUME TypeOK, CallInv, RingsInv, LoadedInv, ClaimsInv, OwnedInv, NEW t \in Actors, PublishesTake(t)
  PROVE  OwnedInv'
  <1>1. PICK q \in Rings : q = th[t].q
    BY Zenon DEF PublishesTake, Publishing
  <1>2. PICK j : j = At(th[t].q, th[t].at)
    OBVIOUS
  <1>3. Alone(t) /\ Taking(t) /\ ~Taking(t)' /\ th[t].pc = "publish"
    BY Zenon DEF PublishesTake, Publishing, Taking, RingPcs
  <1>4. Cell(t) = th[t].at % Cap(q)
    BY <1>1, <1>3, ClaimedCell
  <1>5. th'[t].mine = th[t].mine \cup {j}
    BY <1>1, <1>2, <1>4, Zenon DEF PublishesTake, At
  <1>6. ASSUME NEW u \in Actors, u # t
        PROVE  /\ th'[u].mine = th[u].mine
               /\ Taking(u)' <=> Taking(u)
               /\ Taking(u) => At(th[u].q, th[u].at)' = At(th[u].q, th[u].at)
    <2>1. th'[u] = th[u]
      BY <1>3, <1>6 DEF Alone
    <2>2. ASSUME Taking(u) PROVE At(th[u].q, th[u].at)' = At(th[u].q, th[u].at)
      <3>1. PICK w \in Rings : w = th[u].q
        BY <2>2, TakingRing
      <3>2. PICK m : m = th[u].at
        OBVIOUS
      <3>3. At(w, m)' = At(w, m)
        BY PublishTakeFilled
      <3> QED
        BY <2>1, <3>1, <3>2, <3>3 DEF At
    <2> QED
      BY <2>1, <2>2 DEF Taking
  <1>7. Occupies(j, Grasp, t)
    BY <1>2, <1>3, OccupiesIn
  <1>8. ASSUME NEW i, NEW x, NEW y
        PROVE  Occupies(i, x, y)' <=> \/ Occupies(i, x, y) /\ ~(i = j /\ x = Grasp /\ y = t)
                                      \/ i = j /\ x = Hands /\ y = t
    <2>1. CASE x \in Rings
      <3>1. (FilledAt(x, y)' <=> FilledAt(x, y)) /\ At(x, y)' = At(x, y)
        BY <2>1, PublishTakeFilled, Zenon
      <3>2. x # Grasp /\ x # Hands
        BY <2>1, PlacesApart, Zenon
      <3>3. /\ Occupies(i, x, y)' <=> FilledAt(x, y)' /\ At(x, y)' = i
            /\ Occupies(i, x, y) <=> FilledAt(x, y) /\ At(x, y) = i
        BY <2>1, OccupiesIn, OccupiesInNext, Zenon
      <3> QED
        BY <3>1, <3>2, <3>3, Zenon
    <2>2. CASE x = Hands
      <3>1. (Occupies(i, x, y)' <=> y \in Actors /\ i \in th'[y].mine) /\ (Occupies(i, x, y) <=> y \in Actors /\ i \in th[y].mine)
        BY <2>2, OccupiesIn, OccupiesInNext, Zenon
      <3>2. CASE y = t
        BY <1>5, <2>2, <3>1, <3>2, PlacesApart
      <3>3. CASE y # t
        BY <1>6, <2>2, <3>1, <3>3, PlacesApart, Zenon
      <3> QED
        BY <3>2, <3>3
    <2>3. CASE x = Grasp
      <3>1. /\ Occupies(i, x, y)' <=> y \in Actors /\ Taking(y)' /\ At(th[y].q, th[y].at)' = i
            /\ Occupies(i, x, y) <=> y \in Actors /\ Taking(y) /\ At(th[y].q, th[y].at) = i
        BY <2>3, OccupiesIn, OccupiesInNext, Zenon
      <3>2. CASE y = t
        BY <1>2, <1>3, <2>3, <3>1, <3>2, PlacesApart, Zenon
      <3>3. CASE y # t
        BY <1>6, <2>3, <3>1, <3>3, PlacesApart, Zenon
      <3> QED
        BY <3>2, <3>3
    <2>4. CASE x \notin Rings /\ x # Hands /\ x # Grasp
      BY <2>4, OccupiesIn, OccupiesInNext, Zenon
    <2> QED
      BY <2>1, <2>2, <2>3, <2>4
  <1>9. Moves(j, Grasp, t, Hands, t)
    BY <1>7, <1>8, Zenon DEF Moves
  <1> QED
    BY <1>9, MovesOwned

\* A position that is filled or being taken from is inside the window of its ring.
LEMMA InWindow ==
  ASSUME TypeOK, RingsInv, ClaimsInv, NEW w \in Rings, NEW m, FilledAt(w, m) \/ TakePending(w, m)
  PROVE  m \in ring[w].puts - Cap(w) .. ring[w].puts - 1
  <1>1. /\ ring[w].puts \in Int /\ ring[w].takes \in Int /\ Cap(w) \in Nat \ {0}
        /\ ring[w].takes <= ring[w].puts /\ ring[w].puts <= ring[w].takes + Cap(w)
    BY RingFacts DEF RingsInv, RingInv
  <1>2. CASE FilledAt(w, m)
    BY <1>1, <1>2 DEF FilledAt
  <1>3. CASE TakePending(w, m)
    <2>1. m \in ring[w].puts - Cap(w) .. ring[w].takes - 1
      BY <1>3 DEF TakePending, Grabs, ClaimsInv
    <2> QED
      BY <1>1, <2>1
  <1> QED
    BY <1>2, <1>3

LEMMA PublishPutOwned ==
  ASSUME TypeOK, CallInv, HandInv, RingsInv, LoadedInv, ClaimsInv, OwnedInv, NEW t \in Actors, PublishesPut(t)
  PROVE  OwnedInv'
  <1>1. PICK q \in Rings : q = th[t].q
    BY Zenon DEF PublishesPut, Publishing
  <1>2. PICK a : a = th[t].at
    OBVIOUS
  <1>3. PICK j : j = th[t].val
    OBVIOUS
  <1>4. Alone(t) /\ ~Taking(t) /\ ~Taking(t)' /\ th[t].pc = "publish" /\ ~Takes(th[t].op)
    BY Zenon DEF PublishesPut, Publishing, Taking, RingPcs
  <1>5. th'[t].mine = th[t].mine \ {j}
    BY <1>3 DEF PublishesPut
  <1>6. Occupies(j, Hands, t)
    BY <1>3, <1>4, PutInHand DEF RingPcs
  <1>7. ASSUME NEW u \in Actors, u # t
        PROVE  /\ th'[u].mine = th[u].mine
               /\ Taking(u)' <=> Taking(u)
               /\ Taking(u) => At(th[u].q, th[u].at)' = At(th[u].q, th[u].at)
    <2>1. th'[u] = th[u]
      BY <1>4, <1>7 DEF Alone
    <2>2. ASSUME Taking(u) PROVE At(th[u].q, th[u].at)' = At(th[u].q, th[u].at)
      <3>1. PICK w \in Rings : w = th[u].q
        BY <2>2, TakingRing
      <3>2. PICK m : m = th[u].at
        OBVIOUS
      <3>3. TakePending(w, m)
        BY <2>2, <3>1, <3>2 DEF TakePending, Grabs, Taking
      <3>4. m \in ring[w].puts - Cap(w) .. ring[w].puts - 1
        BY <3>3, InWindow
      <3>5. ~(w = th[t].q /\ m = th[t].at)
        BY <1>4, <1>7, <2>2, <3>1, <3>2 DEF ClaimsInv, Taking
      <3>6. At(w, m)' = At(w, m)
        BY <3>4, <3>5, PublishPutFilled
      <3> QED
        BY <2>1, <3>1, <3>2, <3>6 DEF At
    <2> QED
      BY <2>1, <2>2 DEF Taking
  <1>8. ASSUME NEW i, NEW x, NEW y
        PROVE  Occupies(i, x, y)' <=> \/ Occupies(i, x, y) /\ ~(i = j /\ x = Hands /\ y = t)
                                      \/ i = j /\ x = q /\ y = a
    <2>1. CASE x \in Rings
      <3>1. (Occupies(i, x, y)' <=> FilledAt(x, y)' /\ At(x, y)' = i) /\ (Occupies(i, x, y) <=> FilledAt(x, y) /\ At(x, y) = i)
        BY <2>1, OccupiesIn, OccupiesInNext, Zenon
      <3>2. CASE x = q /\ y = a
        <4>1. FilledAt(x, y)' /\ ~FilledAt(x, y) /\ At(x, y)' = j
          BY <1>1, <1>2, <1>3, <3>2, PublishPutFilled
        <4> QED
          BY <3>1, <3>2, <4>1
      <3>3. CASE ~(x = q /\ y = a)
        <4>1. FilledAt(x, y)' <=> FilledAt(x, y)
          BY <1>1, <1>2, <2>1, <3>3, PublishPutFilled
        <4>2. FilledAt(x, y) => At(x, y)' = At(x, y)
          BY <1>1, <1>2, <2>1, <3>3, PublishPutFilled, InWindow
        <4>3. x # Hands
          BY <2>1, PlacesApart
        <4> QED
          BY <3>1, <3>3, <4>1, <4>2, <4>3
      <3> QED
        BY <3>2, <3>3
    <2>2. CASE x = Hands
      <3>1. (Occupies(i, x, y)' <=> y \in Actors /\ i \in th'[y].mine) /\ (Occupies(i, x, y) <=> y \in Actors /\ i \in th[y].mine)
        BY <2>2, OccupiesIn, OccupiesInNext, Zenon
      <3>2. CASE y = t
        BY <1>1, <1>5, <2>2, <3>1, <3>2, PlacesApart
      <3>3. CASE y # t
        BY <1>1, <1>7, <2>2, <3>1, <3>3, PlacesApart
      <3> QED
        BY <3>2, <3>3
    <2>3. CASE x = Grasp
      <3>1. /\ Occupies(i, x, y)' <=> y \in Actors /\ Taking(y)' /\ At(th[y].q, th[y].at)' = i
            /\ Occupies(i, x, y) <=> y \in Actors /\ Taking(y) /\ At(th[y].q, th[y].at) = i
        BY <2>3, OccupiesIn, OccupiesInNext, Zenon
      <3>2. CASE y = t
        BY <1>1, <1>4, <2>3, <3>1, <3>2, PlacesApart, Zenon
      <3>3. CASE y # t
        BY <1>1, <1>7, <2>3, <3>1, <3>3, PlacesApart
      <3> QED
        BY <3>2, <3>3
    <2>4. CASE x \notin Rings /\ x # Hands /\ x # Grasp
      BY <1>1, <2>4, OccupiesIn, OccupiesInNext, Zenon
    <2> QED
      BY <2>1, <2>2, <2>3, <2>4
  <1>9. Moves(j, Hands, t, q, a)
    BY <1>6, <1>8, Zenon DEF Moves
  <1> QED
    BY <1>9, MovesOwned

\* What a thread is taking it does not have in hand yet.
LEMMA TakesAnother ==
  ASSUME TypeOK, CallInv, RingsInv, LoadedInv, ClaimsInv, OwnedInv, NEW t \in Actors, Taking(t)
  PROVE  ring[th[t].q].val[Cell(t)] \notin th[t].mine
  <1>1. PICK q \in Rings : q = th[t].q
    BY TakingRing
  <1>2. Cell(t) = th[t].at % Cap(q) /\ Cell(t) \in 0 .. Cap(q) - 1
    BY <1>1, ClaimedCell, InRings DEF Taking, RingPcs
  <1>3. PICK j : j = At(th[t].q, th[t].at)
    OBVIOUS
  <1>4. j = ring[th[t].q].val[Cell(t)] /\ j \in Indices
    BY <1>1, <1>2, <1>3, RingFacts DEF At
  <1>5. Occupies(j, Grasp, t)
    BY <1>3, OccupiesIn
  <1>6. ~Occupies(j, Hands, t)
    BY <1>4, <1>5, PlacesApart DEF OwnedInv
  <1> QED
    BY <1>4, <1>6, OccupiesIn, Zenon

-----------------------------------------------------------------------------
(* The inductive invariant. *)

PathInv ==
  /\ TypeOK /\ CallInv /\ HandInv /\ RingsInv /\ ClaimsInv /\ LoadedInv /\ LoneInv /\ HomeInv /\ OwnedInv

LEMMA RingsStep ==
  ASSUME PathInv, NoLap, NEW t \in Actors, Shaped(t)
  PROVE  RingsInv' /\ ClaimsInv' /\ LoadedInv' /\ OwnedInv'
  <1> USE DEF PathInv
  <1>1. CASE Looks(t) \/ Finds(t) \/ Elsewhere(t)
    <2>1. Quiet(t)
      BY <1>1 DEF Looks, Finds, Elsewhere
    <2> QED
      BY <1>1, <2>1, QuietRing, QuietClaims, QuietLoaded, QuietOwned
  <1>2. CASE ClaimsPut(t)
    BY <1>2, ClaimPutRing, ClaimClaims, ClaimLoaded, ClaimPutOwned
  <1>3. CASE ClaimsTake(t)
    BY <1>3, ClaimTakeRing, ClaimClaims, ClaimLoaded, ClaimTakeOwned
  <1>4. CASE PublishesTake(t)
    <2>1. Publishing(t)
      BY <1>4 DEF PublishesTake
    <2> QED
      BY <1>4, <2>1, PublishRing, PublishClaims, PublishLoaded, PublishTakeOwned
  <1>5. CASE PublishesPut(t)
    <2>1. Publishing(t)
      BY <1>5 DEF PublishesPut
    <2> QED
      BY <1>5, <2>1, PublishRing, PublishClaims, PublishLoaded, PublishPutOwned
  <1> QED
    BY <1>1, <1>2, <1>3, <1>4, <1>5 DEF Shaped

LEMMA PathStep ==
  ASSUME PathInv, NoLap, [Next]_vars
  PROVE  PathInv'
  <1>1. TypeOK' /\ CallInv' /\ HandInv'
    <2>1. \A t \in Actors : Taking(t) => ring[th[t].q].val[Cell(t)] \notin th[t].mine
      BY TakesAnother DEF PathInv
    <2> QED
      BY <2>1, TypeStep, CallStep, HandStep DEF PathInv
  <1>2. CASE \E t \in Actors : Shaped(t)
    <2>1. PICK t \in Actors : Shaped(t)
      BY <1>2
    <2>2. RingsInv' /\ ClaimsInv' /\ LoadedInv' /\ OwnedInv'
      BY <2>1, RingsStep
    <2>3. LoneInv' /\ HomeInv'
      BY <2>1, LoneStep, HomeStep DEF PathInv
    <2> QED
      BY <1>1, <2>2, <2>3 DEF PathInv
  <1>3. CASE UNCHANGED vars
    <2>1. ring' = ring /\ th' = th
      BY <1>3 DEF vars
    <2>2. RingsInv' /\ ClaimsInv' /\ LoadedInv' /\ LoneInv' /\ HomeInv' /\ OwnedInv'
      <3>1. RingsInv' /\ HomeInv'
        BY <2>1 DEF PathInv, RingsInv, RingInv, Stamp, PutPending, TakePending, Puts, Grabs, HomeInv, FilledAt, At
      <3>2. ClaimsInv' /\ LoneInv' /\ LoadedInv'
        BY <2>1, Zenon DEF PathInv, ClaimsInv, LoneInv, LoneOf, LoadedInv, LoadedOf, Turn, FullNext, FreeNext, PutPending,
                    TakePending, Puts, Grabs
      <3>3. OwnedInv'
        <4>1. ASSUME NEW i, NEW x, NEW y PROVE Occupies(i, x, y)' <=> Occupies(i, x, y)
          BY <2>1 DEF Occupies, FilledAt, At, PutPending, Puts, Taking
        <4> QED
          BY <4>1, StaysOwned DEF PathInv
      <3> QED
        BY <3>1, <3>2, <3>3
    <2> QED
      BY <1>1, <2>2 DEF PathInv
  <1> QED
    BY <1>2, <1>3, Shapes DEF PathInv

-----------------------------------------------------------------------------
(* A lane has a cell for every slot there is. *)

\* A lane that has no free cell for the thread that pushes holds as many slots
\* as there are, beside the one in the thread's hand.
LEMMA NeverFull ==
  ASSUME PathInv, NEW t \in Actors, th[t].pc = "seq", th[t].op = "push"
  PROVE  FreeNext(th[t].q)
  <1> SUFFICES ASSUME ~FreeNext(th[t].q) PROVE FALSE
    OBVIOUS
  <1>1. /\ TypeOK /\ CallInv /\ HandInv /\ RingsInv /\ ClaimsInv /\ LoadedInv /\ LoneInv /\ HomeInv /\ OwnedInv
        /\ th[t].pc \in RingPcs /\ ~Takes(th[t].op)
    BY DEF PathInv, RingPcs, Takes
  <1>2. PICK q \in Rings : q = th[t].q
    BY <1>1, InRings
  <1>3. q \in LaneRings /\ gate = t
    BY <1>1, <1>2 DEF CallInv, CallOf
  <1> DEFINE P == ring[q].puts
             T == ring[q].takes
             N == LaneCap
  <1>4. Cap(q) = N
    BY <1>3 DEF Cap, LaneRings
  <1>5. P \in Int /\ T \in Int /\ N \in Nat \ {0} /\ T <= P /\ P <= T + N
    BY <1>1, <1>4, RingFacts DEF RingsInv, RingInv
  <1>6. \A m : ~PutPending(q, m)
    <2>1. ASSUME NEW m, PutPending(q, m) PROVE FALSE
      <3>1. PICK u \in Actors : Puts(u, q, m)
        BY <2>1 DEF PutPending
      <3>2. th[u].pc = "publish" /\ ~Takes(th[u].op) /\ th[u].q = q /\ u # t
        BY <3>1 DEF Puts
      <3>3. th[u].op = "push" \/ th[u].q \in PoolRings
        BY <1>1, <3>2, PutInHand DEF RingPcs
      <3>4. th[u].op = "push"
        BY <1>3, <3>2, <3>3 DEF PoolRings, LaneRings
      <3> QED
        BY <1>1, <1>3, <3>2, <3>4, Zenon DEF CallInv, CallOf, RingPcs
    <2> QED
      BY <2>1
  <1>7. ASSUME NEW m, TakePending(q, m) PROVE m = T - 1
    <2>1. PICK u \in Actors : Grabs(u, q, m)
      BY <1>7 DEF TakePending
    <2>2. th[u].pc = "publish" /\ Takes(th[u].op) /\ th[u].q = q /\ th[u].at = m
      BY <2>1 DEF Grabs
    <2>3. th[u].op = "pop"
      BY <1>1, <1>3, <2>2 DEF CallInv, CallOf, RingPcs, Takes, PoolRings, LaneRings
    <2> QED
      BY <1>1, <2>2, <2>3 DEF LoneInv, LoneOf
  <1>8. (T = P - N) \/ (TakePending(q, P - N) /\ T = P - N + 1)
    <2>1. P - N >= T \/ TakePending(q, P - N)
      BY <1>2, <1>4, <1>5 DEF FreeNext
    <2>2. CASE P - N >= T
      BY <1>5, <2>2
    <2>3. CASE TakePending(q, P - N)
      <3>1. P - N = T - 1
        BY <1>7, <2>3
      <3> QED
        BY <1>5, <2>3, <3>1
    <2> QED
      BY <2>1, <2>2, <2>3
  <1> HIDE DEF P, T, N
  <1>9. ASSUME NEW m \in P - N .. P - 1
        PROVE  m \in Int /\ (FilledAt(q, m) \/ (m = P - N /\ TakePending(q, m)))
    <2>1. m \in Int /\ (m \in T .. P - 1 \/ (m = P - N /\ TakePending(q, P - N)))
      BY <1>5, <1>8
    <2> QED
      BY <1>6, <2>1 DEF FilledAt, P, T
  <1>10. ASSUME NEW m \in P - N .. P - 1
         PROVE  At(q, m) \in Indices
    BY <1>1, <1>9, CellHas
  <1>11. PICK j \in Indices : j = th[t].val /\ Occupies(j, Hands, t)
    BY <1>1, PutInHand
  <1>12. ASSUME NEW m \in P - N .. P - 1 PROVE At(q, m) # j
    <2>1. PICK x, y : Occupies(At(q, m), x, y) /\ x # Hands
      BY <1>1, <1>9, CellHas
    <2> QED
      BY <1>1, <1>11, <2>1 DEF OwnedInv
  <1>13. ASSUME NEW m \in P - N .. P - 1, NEW n \in P - N .. P - 1, FilledAt(q, m), m # n PROVE At(q, m) # At(q, n)
    <2>1. Occupies(At(q, m), q, m)
      BY <1>13, OccupiesIn
    <2>2. CASE FilledAt(q, n)
      <3>1. Occupies(At(q, n), q, n)
        BY <2>2, OccupiesIn
      <3> QED
        BY <1>1, <1>10, <1>13, <2>1, <3>1 DEF OwnedInv
    <2>3. CASE TakePending(q, n)
      <3>1. PICK u \in Actors : Grabs(u, q, n)
        BY <2>3 DEF TakePending
      <3>2. Occupies(At(q, n), Grasp, u)
        BY <3>1, OccupiesIn DEF Grabs, Taking
      <3>3. q # Grasp
        BY PlacesApart
      <3> QED
        BY <1>1, <1>10, <2>1, <3>2, <3>3 DEF OwnedInv
    <2> QED
      BY <1>9, <2>2, <2>3
  <1>14. ASSUME NEW m \in P - N .. P - 1, NEW n \in P - N .. P - 1, m # n PROVE At(q, m) # At(q, n)
    <2>1. FilledAt(q, m) \/ FilledAt(q, n)
      BY <1>9, <1>14
    <2> QED
      BY <1>13, <1>14, <2>1
  <1> DEFINE S == P - N .. P
             f == [m \in S |-> IF m = P THEN j ELSE At(q, m)]
  <1>15. \A m \in S : m = P \/ m \in P - N .. P - 1
    BY <1>5
  <1>16. f \in [S -> Indices]
    BY <1>10, <1>15
  <1>17. \A m, n \in S : m # n => f[m] # f[n]
    <2> SUFFICES ASSUME NEW m \in S, NEW n \in S, m # n PROVE f[m] # f[n]
      OBVIOUS
    <2>1. CASE m = P
      BY <1>12, <1>15, <2>1
    <2>2. CASE n = P
      BY <1>12, <1>15, <2>2
    <2>3. CASE m # P /\ n # P
      BY <1>14, <1>15, <2>3
    <2> QED
      BY <2>1, <2>2, <2>3
  <1>18. IsFiniteSet(S) /\ Cardinality(S) = N + 1
    <2>1. P - N \in Int /\ P - N <= P /\ P - (P - N) + 1 = N + 1
      BY <1>5
    <2> QED
      BY <1>5, <2>1, FS_Interval
  <1>19. IsFiniteSet(Indices) /\ Cardinality(Indices) = N
    <2>1. Indices = 0 .. N - 1 /\ 0 \in Int /\ N - 1 \in Int /\ N - 1 >= 0 /\ N - 1 - 0 + 1 = N
      BY <1>5 DEF Indices, N, LaneCap
    <2>2. IsFiniteSet(0 .. N - 1) /\ Cardinality(0 .. N - 1) = IF 0 > N - 1 THEN 0 ELSE N - 1 - 0 + 1
      BY <2>1, FS_Interval, Zenon
    <2>3. ~(0 > N - 1)
      BY <2>1
    <2> QED
      BY <2>1, <2>2, <2>3
  <1> HIDE DEF S, f
  <1>20. \E m, n \in S : m # n /\ f[m] = f[n]
    BY <1>5, <1>16, <1>18, <1>19, FS_PigeonHole
  <1> QED
    BY <1>17, <1>20

\* A free cell looks free to the thread that loads its sequence.
LEMMA FreeLooksFree ==
  ASSUME PathInv, NEW t \in Actors, th[t].pc = "seq", th[t].op = "push"
  PROVE  Diff(ring[th[t].q].seq[Cell(t)], Expected(th[t].op, th[t].cur)) = 0
  <1>1. TypeOK /\ CallInv /\ RingsInv /\ LoadedInv /\ LoneInv /\ th[t].pc \in RingPcs
    BY DEF PathInv, RingPcs
  <1>2. PICK q \in Rings : q = th[t].q
    BY <1>1, InRings
  <1> DEFINE P == ring[q].puts
             T == ring[q].takes
             N == Cap(q)
  <1>3. P \in Int /\ T \in Int /\ N \in Nat \ {0} /\ P - N \in Int /\ T <= P /\ P <= T + N
    BY <1>1, RingFacts DEF RingsInv, RingInv
  <1>4. th[t].at = P /\ th[t].cur = Wrap(P) /\ th[t].cur \in Word
    BY <1>1, <1>2, ThreadFacts DEF LoneInv, LoneOf, LoadedInv, LoadedOf
  <1>5. P - N < T /\ ~TakePending(q, P - N)
    BY <1>2, NeverFull DEF FreeNext
  <1>6. Cell(t) = (P - N) % N
    <2>1. Wrap(P) % N = P % N
      BY <1>3, Wrapped, Zenon
    <2>2. (P - N) % N = P % N
      BY <1>3, Cells, Zenon
    <2> QED
      BY <1>2, <1>4, <2>1, <2>2 DEF Cell
  <1>7. ring[q].seq[Cell(t)] = Stamp(q, P - N)
    <2>1. P - N \in P - N .. P - 1
      BY <1>3
    <2> QED
      BY <1>1, <1>6, <2>1 DEF RingsInv, RingInv
  <1>8. Stamp(q, P - N) = Wrap(P)
    <2>1. ~(P - N >= T) /\ P - N + N = P
      BY <1>3, <1>5
    <2> QED
      BY <1>5, <2>1 DEF Stamp
  <1>9. ring[q].seq[Cell(t)] = th[t].cur /\ Expected(th[t].op, th[t].cur) = th[t].cur
    BY <1>4, <1>7, <1>8 DEF Expected, Takes
  <1>10. Diff(th[t].cur, th[t].cur) = 0
    <2>1. th[t].cur \in Int /\ th[t].cur - th[t].cur = 0 /\ Modulus \in Nat \ {0}
      BY <1>1, ThreadFacts, Sizes
    <2>2. 0 % Modulus = 0
      <3>1. 0 = Modulus * 0 + 0 /\ 0 \in 0 .. Modulus - 1
        BY <2>1
      <3> QED
        BY <2>1, <3>1, RemainderIs
    <2>3. 0 < Modulus \div 2
      BY <1>3, Sizes
    <2> QED
      BY <2>1, <2>2, <2>3 DEF Diff
  <1> QED
    BY <1>2, <1>9, <1>10

-----------------------------------------------------------------------------
(* The cells the code sees are the positions of the proof. *)

LEMMA FilledCount ==
  ASSUME TypeOK, RingsInv, NEW q \in Rings
  PROVE  Diff(ring[q].in, ring[q].out) = ring[q].puts - ring[q].takes
  <1> DEFINE P == ring[q].puts
             T == ring[q].takes
             d == P - T
  <1>1. /\ P \in Int /\ T \in Int /\ Cap(q) \in Nat \ {0} /\ T <= P /\ P <= T + Cap(q)
        /\ ring[q].in = Wrap(P) /\ ring[q].out = Wrap(T) /\ Modulus \in Nat \ {0} /\ Cap(q) < Modulus \div 2
        /\ 2 * Cap(q) < Modulus
    BY RingFacts, Sizes DEF RingsInv, RingInv
  <1>2. d \in 0 .. Modulus - 1 /\ d < Modulus \div 2 /\ d \in Int /\ T + d = P
    BY <1>1
  <1> HIDE DEF P, T, d
  <1>3. Wrap(T) \in Int /\ Wrap(P) \in Int /\ Wrap(P) - Wrap(T) \in Int
    BY <1>1, Divided DEF Wrap
  <1>4. (Wrap(P) - Wrap(T)) % Modulus = d
    <2>1. PICK x \in Int : P = Modulus * x + Wrap(P)
      BY <1>1, Divided, Zenon DEF Wrap
    <2>2. PICK y \in Int : T = Modulus * y + Wrap(T)
      BY <1>1, Divided, Zenon DEF Wrap
    <2>3. Modulus * (y - x) = Modulus * y - Modulus * x /\ Modulus * y \in Int /\ Modulus * x \in Int /\ y - x \in Int
      BY <1>1, <2>1, <2>2
    <2>4. Wrap(P) - Wrap(T) = Modulus * (y - x) + d
      BY <1>1, <1>2, <1>3, <2>1, <2>2, <2>3
    <2> QED
      BY <1>1, <1>2, <1>3, <2>3, <2>4, RemainderIs, Zenon
  <1>5. ~(d >= Modulus \div 2)
    BY <1>1, <1>2
  <1> QED
    BY <1>1, <1>4, <1>5 DEF Diff, d, P, T

LEMMA FilledCells ==
  ASSUME TypeOK, RingsInv, NEW q \in Rings, NEW k
  PROVE  k \in Filled(q) <=> \E m : FilledAt(q, m) /\ m % Cap(q) = k
  <1> DEFINE P == ring[q].puts
             T == ring[q].takes
             N == Cap(q)
  <1>1. /\ P \in Int /\ T \in Int /\ N \in Nat \ {0} /\ T <= P /\ P <= T + N /\ ring[q].out = Wrap(T)
        /\ Modulus \in Nat \ {0} /\ 2 * N < Modulus
    BY RingFacts DEF RingsInv, RingInv
  <1>2. ASSUME NEW j \in 0 .. P - T - 1
        PROVE  LET pos == Wrap(ring[q].out + j)
               IN /\ pos % N = (T + j) % N /\ (T + j) % N \in 0 .. N - 1
                  /\ ring[q].seq[(T + j) % N] = Wrap(pos + 1) <=> FilledAt(q, T + j)
    <2>1. PICK m \in Int : m = T + j
      BY <1>1
    <2>2. m \in T .. P - 1 /\ m \in P - N .. P - 1 /\ m >= T /\ j \in Int
      BY <1>1, <2>1
    <2>3. Wrap(ring[q].out + j) = Wrap(m)
      BY <1>1, <2>1, <2>2, Wrapped, Zenon
    <2>4. Wrap(m) % N = m % N /\ m % N \in 0 .. N - 1
      BY <1>1, Wrapped, Divided, Zenon
    <2>5. Wrap(Wrap(m) + 1) = Wrap(m + 1)
      <3>1. 1 \in Int
        OBVIOUS
      <3> QED
        BY <3>1, Wrapped, Zenon
    <2>6. Wrap(m + 1) # Wrap(m)
      <3>1. 1 \in Int /\ 1 # 0 /\ -Modulus < 1 /\ 1 < Modulus
        BY <1>1
      <3> QED
        BY <3>1, WrapsApart, Zenon
    <2>7. ring[q].seq[m % N] = IF PutPending(q, m) THEN Wrap(m) ELSE Wrap(m + 1)
      <3>1. ring[q].seq[m % N] = Stamp(q, m)
        BY <2>2 DEF RingsInv, RingInv
      <3> QED
        BY <2>2, <3>1 DEF Stamp
    <2>8. FilledAt(q, m) <=> ~PutPending(q, m)
      BY <2>2 DEF FilledAt
    <2>9. ring[q].seq[m % N] = Wrap(m + 1) <=> FilledAt(q, m)
      BY <2>6, <2>7, <2>8
    <2> QED
      BY <2>1, <2>3, <2>4, <2>5, <2>9
  <1>3. ASSUME k \in Filled(q) PROVE \E m : FilledAt(q, m) /\ m % N = k
    <2>1. PICK j \in 0 .. P - T - 1 : LET pos == Wrap(ring[q].out + j)
                                      IN pos % N = k /\ ring[q].seq[k] = Wrap(pos + 1)
      BY <1>3, FilledCount DEF Filled
    <2> QED
      BY <1>2, <2>1
  <1>4. ASSUME NEW m, FilledAt(q, m), m % N = k PROVE k \in Filled(q)
    <2>1. m \in Int /\ m - T \in 0 .. P - T - 1 /\ T + (m - T) = m
      BY <1>1, <1>4 DEF FilledAt
    <2>2. PICK j \in 0 .. P - T - 1 : T + j = m
      BY <2>1
    <2>3. LET pos == Wrap(ring[q].out + j) IN pos % N = k /\ k \in 0 .. N - 1 /\ ring[q].seq[k] = Wrap(pos + 1)
      BY <1>2, <1>4, <2>2
    <2> QED
      BY <2>3, FilledCount DEF Filled
  <1> QED
    BY <1>3, <1>4

LEMMA PlacesAre ==
  ASSUME NEW i, NEW p
  PROVE  p \in Places(i) <=>
           \/ \E q \in Rings : \E k \in Filled(q) : ring[q].val[k] = i /\ p = <<q, k>>
           \/ \E t \in Actors : i \in th[t].mine /\ p = <<Hands, t>>
           \/ \E t \in Actors : Taking(t) /\ ring[th[t].q].val[Cell(t)] = i /\ p = <<Grasp, t>>
  <1> DEFINE D(q) == {<<q, k>> : k \in {c \in Filled(q) : ring[q].val[c] = i}}
             A == UNION {D(q) : q \in Rings}
             B == {<<Hands, t>> : t \in {a \in Actors : i \in th[a].mine}}
             C == {<<Grasp, t>> : t \in {a \in Actors : Taking(a) /\ ring[th[a].q].val[Cell(a)] = i}}
  <1>1. p \in A <=> \E q \in Rings : \E k \in Filled(q) : ring[q].val[k] = i /\ p = <<q, k>>
    <2>1. \A q : p \in D(q) <=> \E k \in Filled(q) : ring[q].val[k] = i /\ p = <<q, k>>
      BY Zenon
    <2> HIDE DEF D
    <2>2. p \in A <=> \E q \in Rings : p \in D(q)
      BY Zenon
    <2> QED
      BY <2>1, <2>2
  <1>2. p \in B <=> \E t \in Actors : i \in th[t].mine /\ p = <<Hands, t>>
    BY Zenon
  <1>3. p \in C <=> \E t \in Actors : Taking(t) /\ ring[th[t].q].val[Cell(t)] = i /\ p = <<Grasp, t>>
    BY Zenon
  <1>4. Places(i) = A \cup B \cup C
    BY DEF Places
  <1> HIDE DEF A, B, C
  <1> QED
    BY <1>1, <1>2, <1>3, <1>4

\* A slot with one place has one place among the cells and the threads.
LEMMA OwnedOnce ==
  ASSUME PathInv
  PROVE  OneOwner
  <1> SUFFICES ASSUME NEW i \in Indices PROVE Cardinality(Places(i)) = 1
    BY DEF OneOwner
  <1>1. TypeOK /\ CallInv /\ RingsInv /\ ClaimsInv /\ LoadedInv /\ OwnedInv
    BY DEF PathInv
  <1>2. PICK x, y : Occupies(i, x, y)
    BY <1>1 DEF OwnedInv
  <1>3. \A z, w : Occupies(i, z, w) => z = x /\ w = y
    BY <1>1, <1>2 DEF OwnedInv
  <1> DEFINE Seen(z, w) == <<z, IF z \in Rings THEN w % Cap(z) ELSE w>>
  <1>4. ASSUME NEW p \in Places(i) PROVE p = Seen(x, y)
    <2>1. CASE \E q \in Rings : \E k \in Filled(q) : ring[q].val[k] = i /\ p = <<q, k>>
      <3>0. PICK q \in Rings : \E k \in Filled(q) : ring[q].val[k] = i /\ p = <<q, k>>
        BY <2>1
      <3>1. PICK k \in Filled(q) : ring[q].val[k] = i /\ p = <<q, k>>
        BY <3>0
      <3>2. PICK m : FilledAt(q, m) /\ m % Cap(q) = k
        BY <1>1, <3>1, FilledCells
      <3>3. Occupies(i, q, m)
        BY <3>1, <3>2, OccupiesIn DEF At
      <3>4. q = x /\ m = y
        BY <1>3, <3>3
      <3> QED
        BY <3>1, <3>2, <3>4
    <2>2. CASE \E t \in Actors : i \in th[t].mine /\ p = <<Hands, t>>
      <3>1. PICK t \in Actors : i \in th[t].mine /\ p = <<Hands, t>>
        BY <2>2
      <3>2. Occupies(i, Hands, t)
        BY <3>1, OccupiesIn
      <3>3. Hands = x /\ t = y
        BY <1>3, <3>2
      <3> QED
        BY <3>1, <3>3, PlacesApart
    <2>3. CASE \E t \in Actors : Taking(t) /\ ring[th[t].q].val[Cell(t)] = i /\ p = <<Grasp, t>>
      <3>1. PICK t \in Actors : Taking(t) /\ ring[th[t].q].val[Cell(t)] = i /\ p = <<Grasp, t>>
        BY <2>3
      <3>2. PICK q \in Rings : q = th[t].q
        BY <1>1, <3>1, TakingRing
      <3>3. Cell(t) = th[t].at % Cap(q)
        BY <1>1, <3>1, <3>2, ClaimedCell DEF Taking
      <3>4. Occupies(i, Grasp, t)
        BY <3>1, <3>2, <3>3, OccupiesIn, Zenon DEF At
      <3>5. Grasp = x /\ t = y
        BY <1>3, <3>4
      <3> QED
        BY <3>1, <3>5, PlacesApart
    <2> QED
      BY <2>1, <2>2, <2>3, PlacesAre
  <1>5. Seen(x, y) \in Places(i)
    <2>1. CASE x \in Rings
      <3>1. FilledAt(x, y) /\ At(x, y) = i
        BY <1>2, <2>1, OccupiesIn
      <3>2. y % Cap(x) \in Filled(x) /\ ring[x].val[y % Cap(x)] = i
        BY <1>1, <2>1, <3>1, FilledCells DEF At
      <3> QED
        BY <2>1, <3>2, PlacesAre, Zenon
    <2>2. CASE x = Hands
      <3>1. y \in Actors /\ i \in th[y].mine /\ x \notin Rings
        BY <1>2, <2>2, OccupiesIn, PlacesApart
      <3> QED
        BY <2>2, <3>1, PlacesAre, Zenon
    <2>3. CASE x = Grasp
      <3>1. y \in Actors /\ Taking(y) /\ At(th[y].q, th[y].at) = i /\ x \notin Rings
        BY <1>2, <2>3, OccupiesIn, PlacesApart
      <3>2. PICK q \in Rings : q = th[y].q
        BY <1>1, <3>1, TakingRing
      <3>3. Cell(y) = th[y].at % Cap(q)
        BY <1>1, <3>1, <3>2, ClaimedCell DEF Taking
      <3>4. ring[th[y].q].val[Cell(y)] = i
        BY <3>1, <3>2, <3>3 DEF At
      <3> QED
        BY <2>3, <3>1, <3>4, PlacesAre, Zenon
    <2> QED
      BY <1>2, <2>1, <2>2, <2>3, OccupiesIn
  <1> HIDE DEF Seen
  <1>6. Places(i) = {Seen(x, y)}
    BY <1>4, <1>5
  <1> QED
    BY <1>6, FS_Singleton, Zenon

-----------------------------------------------------------------------------
(* The initial state. *)

\* The rings as SlotPool::Init and FifoQueue::Init leave them, cursors at s.
PoolStart(q, s) ==
  [in |-> Wrap(s + PerCap), out |-> s, puts |-> s + PerCap, takes |-> s,
   seq |-> [k \in 0 .. PerCap - 1 |-> Wrap(s + k + 1)], val |-> [k \in 0 .. PerCap - 1 |-> q[2] + k * Shards]]
LaneStart(s) ==
  [in |-> s, out |-> s, puts |-> s, takes |-> s,
   seq |-> [k \in 0 .. LaneCap - 1 |-> Wrap(s + k)], val |-> [k \in 0 .. LaneCap - 1 |-> 0]]

Started(s) ==
  /\ DOMAIN ring = Rings
  /\ \A q \in PoolRings : ring[q] = PoolStart(q, s) /\ Cap(q) = PerCap
  /\ \A q \in LaneRings : ring[q] = LaneStart(s) /\ Cap(q) = LaneCap
  /\ \A t \in Actors : th[t] = Rest
  /\ \A q, m : ~PutPending(q, m) /\ ~TakePending(q, m)

LEMMA StartsFacts ==
  ASSUME NEW s \in Starts
  PROVE  /\ s \in Int /\ s \in Word /\ Wrap(s) = s
         /\ \A q \in Rings : \E c \in Nat : s = Cap(q) * c
  <1>1. s \in 0 .. Modulus - 1 /\ Modulus \in Nat \ {0}
    BY SizesAssumption, Sizes
  <1>2. s = Modulus * 0 + s /\ s \in Int /\ 0 \in Int
    BY <1>1
  <1>3. s % Modulus = s
    BY <1>1, <1>2, RemainderIs
  <1> QED
    BY <1>1, <1>2, <1>3, Sizes DEF Word, Wrap

LEMMA InitStarted ==
  ASSUME Init
  PROVE  \E s \in Starts : Started(s)
  <1>1. PICK s \in Starts : ring = [q \in Rings |-> IF q[1] = "pool" THEN PoolStart(q, s) ELSE LaneStart(s)]
    BY Zenon DEF Init, PoolStart, LaneStart
  <1>2. th = [t \in Actors |-> Rest]
    BY Zenon DEF Init
  <1>3. \A t \in Actors : th[t] = Rest /\ th[t].pc # "publish"
    BY <1>2 DEF Rest
  <1>4. \A q, m : ~PutPending(q, m) /\ ~TakePending(q, m)
    BY <1>3 DEF PutPending, TakePending, Puts, Grabs
  <1>5. \A q \in PoolRings : q[1] = "pool" /\ q \in Rings
    BY DEF PoolRings, Rings
  <1>6. \A q \in LaneRings : q[1] # "pool" /\ q \in Rings
    BY DEF LaneRings, Rings
  <1>7. \A q \in PoolRings : ring[q] = PoolStart(q, s) /\ Cap(q) = PerCap
    BY <1>1, <1>5, Zenon DEF Cap
  <1>8. \A q \in LaneRings : ring[q] = LaneStart(s) /\ Cap(q) = LaneCap
    BY <1>1, <1>6, Zenon DEF Cap
  <1>9. DOMAIN ring = Rings
    BY <1>1, Zenon
  <1> QED
    BY <1>3, <1>4, <1>7, <1>8, <1>9 DEF Started

\* What a pool ring has at the k-th position.
LEMMA PoolHas ==
  ASSUME NEW s \in Starts, Started(s), NEW q \in PoolRings, NEW k \in 0 .. PerCap - 1
  PROVE  /\ (s + k) % PerCap = k
         /\ At(q, s + k) = q[2] + k * Shards
         /\ At(q, s + k) % Shards = q[2] /\ Home(At(q, s + k)) = q
         /\ q[2] \in 0 .. Shards - 1 /\ q[2] + k * Shards \in Indices
         /\ ring[q].seq[k] = Wrap(s + k + 1)
  <1>1. /\ PerCap \in Nat \ {0} /\ Shards \in Nat \ {0} /\ k \in Int /\ s \in Int
        /\ q[2] \in 0 .. Shards - 1 /\ q = <<"pool", q[2]>> /\ q \in Rings
    BY SizesAssumption, StartsFacts DEF PoolRings, Rings
  <1>2. ring[q] = PoolStart(q, s) /\ Cap(q) = PerCap
    BY DEF Started
  <1>3. PICK c \in Nat : s = PerCap * c
    BY <1>1, <1>2, StartsFacts
  <1>4. (s + k) % PerCap = k
    <2>1. s + k = PerCap * c + k /\ s + k \in Int /\ c \in Int
      BY <1>1, <1>3
    <2> QED
      BY <1>1, <2>1, RemainderIs, Zenon
  <1>5. ring[q].val[k] = q[2] + k * Shards /\ ring[q].seq[k] = Wrap(s + k + 1)
    BY <1>2 DEF PoolStart
  <1>6. At(q, s + k) = q[2] + k * Shards
    BY <1>2, <1>4, <1>5 DEF At
  <1>7. k * Shards = Shards * k /\ Shards * k \in Nat /\ Shards * k <= Shards * PerCap - Shards
    <2>1. PerCap - 1 - k \in Nat
      BY <1>1
    <2>2. Shards * (PerCap - 1 - k) = Shards * PerCap - Shards - Shards * k /\ Shards * (PerCap - 1 - k) >= 0
          /\ Shards * PerCap \in Int /\ Shards * k \in Nat /\ k * Shards = Shards * k
      BY <1>1, <2>1
    <2> QED
      BY <1>1, <2>2
  <1>8. PICK w \in Int : w = q[2] + k * Shards /\ w = Shards * k + q[2]
    BY <1>1, <1>7
  <1>9. w % Shards = q[2]
    BY <1>1, <1>8, RemainderIs, Zenon
  <1>10. w \in Indices
    <2>1. Shards * PerCap \in Int
      BY <1>1
    <2> QED
      BY <1>1, <1>7, <1>8, <2>1 DEF Indices
  <1> QED
    BY <1>1, <1>4, <1>5, <1>6, <1>8, <1>9, <1>10 DEF Home

LEMMA StartedType ==
  ASSUME NEW s \in Starts, Started(s), NEW q \in Rings
  PROVE  ring[q] \in [in : Word, out : Word, puts : Int, takes : Int,
                      seq : [0 .. Cap(q) - 1 -> Word], val : [0 .. Cap(q) - 1 -> Indices]]
  <1>1. s \in Int /\ s \in Word /\ PerCap \in Nat \ {0} /\ s + PerCap \in Int /\ LaneCap \in Nat \ {0} /\ 0 \in Indices
    BY SizesAssumption, StartsFacts, Sizes
  <1>2. \A a \in Int : Wrap(a) \in Word
    BY Wrapped
  <1>3. CASE q \in PoolRings
    <2>1. ring[q] = PoolStart(q, s) /\ Cap(q) = PerCap
      BY <1>3 DEF Started
    <2>2. [k \in 0 .. PerCap - 1 |-> Wrap(s + k + 1)] \in [0 .. PerCap - 1 -> Word]
      BY <1>1, <1>2
    <2>3. [k \in 0 .. PerCap - 1 |-> q[2] + k * Shards] \in [0 .. PerCap - 1 -> Indices]
      <3>1. \A k \in 0 .. PerCap - 1 : q[2] + k * Shards \in Indices
        BY <1>3, PoolHas
      <3> QED
        BY <3>1, Zenon
    <2>4. Wrap(s + PerCap) \in Word
      BY <1>1, <1>2
    <2>5. PoolStart(q, s) \in [in : Word, out : Word, puts : Int, takes : Int,
                               seq : [0 .. PerCap - 1 -> Word], val : [0 .. PerCap - 1 -> Indices]]
      BY <1>1, <2>2, <2>3, <2>4, Zenon DEF PoolStart
    <2> QED
      BY <2>1, <2>5
  <1>4. CASE q \in LaneRings
    <2>1. ring[q] = LaneStart(s) /\ Cap(q) = LaneCap
      BY <1>4 DEF Started
    <2>2. [k \in 0 .. LaneCap - 1 |-> Wrap(s + k)] \in [0 .. LaneCap - 1 -> Word]
      BY <1>1, <1>2
    <2>3. [k \in 0 .. LaneCap - 1 |-> 0] \in [0 .. LaneCap - 1 -> Indices]
      BY <1>1
    <2>4. LaneStart(s) \in [in : Word, out : Word, puts : Int, takes : Int,
                            seq : [0 .. LaneCap - 1 -> Word], val : [0 .. LaneCap - 1 -> Indices]]
      BY <1>1, <2>2, <2>3, Zenon DEF LaneStart
    <2> QED
      BY <2>1, <2>4
  <1> QED
    BY <1>3, <1>4 DEF Rings

LEMMA InitType ==
  ASSUME Init
  PROVE  TypeOK /\ CallInv /\ HandInv /\ ClaimsInv /\ LoadedInv /\ LoneInv /\ PushNeverFails
  <1>1. PICK s \in Starts : Started(s)
    BY InitStarted
  <1>2. th = [t \in Actors |-> Rest] /\ \A t \in Actors : th[t] = Rest
    BY DEF Init
  <1>3. Rest \in ThreadState
    BY Rested
  <1>4. TypeOK
    <2>1. DOMAIN ring = Rings
      BY <1>1 DEF Started
    <2>2. busy \in [0 .. Lanes - 1 -> Threads \cup {Nobody}] /\ gate \in Threads \cup {Nobody}
      BY DEF Init
    <2>3. packet \in [Indices -> [peer : Peers \cup {Nobody}, num : Nat]]
      <3>1. packet = [i \in Indices |-> [peer |-> Nobody, num |-> 0]]
        BY Zenon DEF Init
      <3>2. [peer |-> Nobody, num |-> 0] \in [peer : Peers \cup {Nobody}, num : Nat]
        OBVIOUS
      <3> QED
        BY <3>1, <3>2, Zenon
    <2>4. occupancy \in [Peers -> Nat] /\ read \in [Peers -> Nat] /\ sent \in [Peers -> Nat]
      BY DEF Init
    <2>5. left \in [packets : Int, borrows : Int]
      BY ActorsAssumption DEF Init
    <2>6. th \in [Actors -> ThreadState]
      BY <1>2, <1>3, Zenon
    <2>7. \A q \in Rings :
            ring[q] \in [in : Word, out : Word, puts : Int, takes : Int,
                         seq : [0 .. Cap(q) - 1 -> Word], val : [0 .. Cap(q) - 1 -> Indices]]
      BY <1>1, StartedType
    <2> QED
      BY <2>1, <2>2, <2>3, <2>4, <2>5, <2>6, <2>7 DEF TypeOK
  <1>5. Rest.pc = "rest" /\ Rest.got = <<>> /\ Rest.mine = {}
    BY DEF Rest
  <1>6. CallInv
    BY <1>2, <1>5, Zenon DEF CallInv, CallOf, RingPcs
  <1>7. HandInv
    <2>1. Items(<<>>) = {}
      BY DEF Items
    <2>2. ~Loaded(Rest)
      BY <1>5 DEF Loaded, RingPcs
    <2>3. Hand(Rest) = {}
      BY <1>5, <2>1, <2>2 DEF Hand
    <2>4. HandOf(Rest)
      <3>1. \A j, k \in 1 .. Len(Rest.got) : Rest.got[j] = Rest.got[k] => j = k
        BY <1>5
      <3> QED
        BY <1>5, <2>2, <2>3, <3>1, Zenon DEF HandOf
    <2> QED
      BY <1>2, <2>4 DEF HandInv
  <1>8. ClaimsInv /\ LoadedInv /\ LoneInv /\ PushNeverFails
    BY <1>2, <1>5, Zenon DEF ClaimsInv, LoadedInv, LoadedOf, LoneInv, LoneOf, PushNeverFails
  <1> QED
    BY <1>4, <1>6, <1>7, <1>8


LEMMA InitRings ==
  ASSUME Init
  PROVE  RingsInv
  <1>1. PICK s \in Starts : Started(s)
    BY InitStarted
  <1>2. s \in Int /\ Wrap(s) = s /\ PerCap \in Nat \ {0} /\ LaneCap \in Nat \ {0}
    BY <1>1, SizesAssumption, StartsFacts, Sizes
  <1>3. ASSUME NEW q \in PoolRings PROVE RingInv(q)
    <2>0. ring[q] = PoolStart(q, s) /\ Cap(q) = PerCap
      BY <1>1, <1>3 DEF Started
    <2>1. /\ Cap(q) = PerCap /\ ring[q].puts = s + PerCap /\ ring[q].takes = s
          /\ ring[q].in = Wrap(s + PerCap) /\ ring[q].out = s
      BY <2>0 DEF PoolStart
    <2>2. ASSUME NEW m \in ring[q].puts - Cap(q) .. ring[q].puts - 1 PROVE ring[q].seq[m % Cap(q)] = Stamp(q, m)
      <3>1. m \in Int /\ m >= s /\ m - s \in 0 .. PerCap - 1 /\ s + (m - s) = m
        BY <1>2, <2>1
      <3>2. PICK k \in 0 .. PerCap - 1 : s + k = m
        BY <3>1
      <3>3. m % PerCap = k /\ ring[q].seq[k] = Wrap(s + k + 1)
        BY <1>1, <3>2, PoolHas
      <3>4. Stamp(q, m) = Wrap(m + 1)
        BY <1>1, <2>1, <3>1, Zenon DEF Stamp, Started
      <3> QED
        BY <2>1, <3>2, <3>3, <3>4
    <2>3. ring[q].takes <= ring[q].puts /\ ring[q].puts <= ring[q].takes + Cap(q)
      BY <1>2, <2>1
    <2> QED
      BY <1>2, <2>1, <2>2, <2>3 DEF RingInv
  <1>4. ASSUME NEW q \in LaneRings PROVE RingInv(q)
    <2>0. ring[q] = LaneStart(s) /\ Cap(q) = LaneCap
      BY <1>1, <1>4 DEF Started
    <2>1. /\ Cap(q) = LaneCap /\ ring[q].puts = s /\ ring[q].takes = s /\ ring[q].in = s /\ ring[q].out = s
          /\ ring[q].seq = [k \in 0 .. LaneCap - 1 |-> Wrap(s + k)]
      <3>1. /\ LaneStart(s).puts = s /\ LaneStart(s).takes = s /\ LaneStart(s).in = s /\ LaneStart(s).out = s
            /\ LaneStart(s).seq = [k \in 0 .. LaneCap - 1 |-> Wrap(s + k)]
        BY DEF LaneStart
      <3> QED
        BY <2>0, <3>1, Zenon
    <2>2. ASSUME NEW m \in ring[q].puts - Cap(q) .. ring[q].puts - 1 PROVE ring[q].seq[m % Cap(q)] = Stamp(q, m)
      <3>1. PICK c \in Nat : s = LaneCap * c
        BY <1>4, <2>1, StartsFacts DEF Rings
      <3>2. PICK k \in 0 .. LaneCap - 1 : k = m - s + LaneCap
        BY <1>2, <2>1
      <3>3. m \in Int /\ k \in Int /\ m = s - LaneCap + k /\ s + k = m + LaneCap /\ ~(m >= s)
        BY <1>2, <2>1, <3>2
      <3>4. PICK b \in Int : LaneCap * b = LaneCap * c - LaneCap /\ LaneCap * c \in Int
        <4>1. LaneCap * (c - 1) = LaneCap * c - LaneCap /\ LaneCap * c \in Int /\ c - 1 \in Int
          BY <1>2
        <4> QED
          BY <4>1
      <3>5. m = LaneCap * b + k
        BY <1>2, <3>1, <3>3, <3>4
      <3>6. m % LaneCap = k
        BY <1>2, <3>3, <3>4, <3>5, RemainderIs
      <3>7. Stamp(q, m) = Wrap(m + LaneCap)
        BY <1>1, <2>1, <3>3 DEF Stamp, Started
      <3> QED
        BY <2>1, <3>3, <3>6, <3>7
    <2>3. ring[q].takes <= ring[q].puts /\ ring[q].puts <= ring[q].takes + Cap(q)
      BY <1>2, <2>1
    <2> QED
      BY <1>2, <2>1, <2>2, <2>3, Zenon DEF RingInv
  <1> QED
    BY <1>3, <1>4 DEF RingsInv, Rings

\* Every filled position of the initial state is of a pool ring.
LEMMA InitFilled ==
  ASSUME NEW s \in Starts, Started(s), NEW q \in Rings, NEW m
  PROVE  FilledAt(q, m) <=> q \in PoolRings /\ \E k \in 0 .. PerCap - 1 : m = s + k
  <1>1. s \in Int /\ PerCap \in Nat \ {0}
    BY SizesAssumption, StartsFacts
  <1>2. ~PutPending(q, m)
    BY DEF Started
  <1>3. CASE q \in PoolRings
    <2>0. ring[q] = PoolStart(q, s)
      BY <1>3 DEF Started
    <2>1. ring[q].puts = s + PerCap /\ ring[q].takes = s
      BY <2>0 DEF PoolStart
    <2>2. ASSUME m \in s .. s + PerCap - 1 PROVE \E k \in 0 .. PerCap - 1 : m = s + k
      <3>1. m - s \in 0 .. PerCap - 1 /\ m = s + (m - s)
        BY <1>1, <2>2
      <3> QED
        BY <3>1
    <2>3. ASSUME NEW k \in 0 .. PerCap - 1, m = s + k PROVE m \in s .. s + PerCap - 1
      BY <1>1, <2>3
    <2>4. FilledAt(q, m) <=> m \in s .. s + PerCap - 1
      BY <1>1, <1>2, <2>1 DEF FilledAt
    <2>5. m \in s .. s + PerCap - 1 <=> \E k \in 0 .. PerCap - 1 : m = s + k
      BY <2>2, <2>3
    <2> QED
      BY <1>3, <2>4, <2>5
  <1>4. CASE q \in LaneRings
    <2>0. ring[q] = LaneStart(s) /\ q \notin PoolRings
      BY <1>4 DEF Started, PoolRings, LaneRings
    <2>1. ring[q].puts = s /\ ring[q].takes = s /\ q \notin PoolRings
      BY <2>0 DEF LaneStart
    <2> QED
      BY <1>1, <2>1 DEF FilledAt
  <1> QED
    BY <1>3, <1>4 DEF Rings

LEMMA InitOwned ==
  ASSUME Init
  PROVE  HomeInv /\ OwnedInv
  <1>1. PICK s \in Starts : Started(s)
    BY InitStarted
  <1>2. /\ s \in Int /\ PerCap \in Nat \ {0} /\ Shards \in Nat \ {0}
    BY <1>1, SizesAssumption, StartsFacts
  <1>3. HomeInv
    <2> SUFFICES ASSUME NEW q \in PoolRings, NEW m, FilledAt(q, m) \/ TakePending(q, m) PROVE Home(At(q, m)) = q
      BY DEF HomeInv
    <2>1. FilledAt(q, m) /\ q \in Rings
      BY <1>1 DEF Started, Rings
    <2>2. PICK k \in 0 .. PerCap - 1 : m = s + k
      BY <1>1, <2>1, InitFilled
    <2> QED
      BY <1>1, <2>2, PoolHas
  <1>4. ASSUME NEW i, NEW x, NEW y, Occupies(i, x, y)
        PROVE  x \in PoolRings /\ \E k \in 0 .. PerCap - 1 : y = s + k /\ i = x[2] + k * Shards
    <2>1. \A t \in Actors : th[t].mine = {} /\ ~Taking(t)
      <3>1. Rest.mine = {} /\ Rest.pc = "rest"
        BY DEF Rest
      <3>2. \A t \in Actors : th[t] = Rest
        BY <1>1 DEF Started
      <3> QED
        BY <3>1, <3>2, Zenon DEF Taking
    <2>2. x \in Rings /\ FilledAt(x, y) /\ At(x, y) = i
      BY <1>4, <2>1, OccupiesIn
    <2>3. PICK k \in 0 .. PerCap - 1 : y = s + k /\ x \in PoolRings
      BY <1>1, <2>2, InitFilled
    <2>4. i = x[2] + k * Shards
      BY <1>1, <2>2, <2>3, PoolHas
    <2> QED
      BY <2>3, <2>4
  <1>5. ASSUME NEW i \in Indices PROVE \E x, y : Occupies(i, x, y)
    <2> DEFINE c == i \div Shards
               v == i % Shards
    <2>1. i \in Int /\ 0 <= i /\ i < Shards * PerCap
      BY <1>2 DEF Indices
    <2>2. v \in 0 .. Shards - 1 /\ c \in Int /\ i = Shards * c + v
      BY <1>2, <2>1, Divided
    <2> HIDE DEF c, v
    <2>3. c \in 0 .. PerCap - 1
      <3>1. c <= -1 => Shards * c <= -Shards
        BY <1>2, <2>2
      <3>2. c >= PerCap => Shards * c >= Shards * PerCap
        BY <1>2, <2>2
      <3>3. Shards * c \in Int /\ Shards * PerCap \in Int
        BY <1>2, <2>2
      <3> QED
        BY <1>2, <2>1, <2>2, <3>1, <3>2, <3>3
    <2>4. PICK q \in PoolRings : q = <<"pool", v>>
      BY <2>2, Zenon DEF PoolRings
    <2>5. At(q, s + c) = v + c * Shards
      BY <1>1, <2>3, <2>4, PoolHas
    <2>6. v + c * Shards = i
      BY <1>2, <2>2
    <2>7. FilledAt(q, s + c) /\ q \in Rings
      BY <1>1, <2>3, InitFilled DEF Rings
    <2>8. Occupies(i, q, s + c)
      BY <2>5, <2>6, <2>7, OccupiesIn
    <2> QED
      BY <2>8
  <1>6. ASSUME NEW i \in Indices, NEW x, NEW y, NEW z, NEW w, Occupies(i, x, y), Occupies(i, z, w)
        PROVE  x = z /\ y = w
    <2>1. PICK k \in 0 .. PerCap - 1 : x \in PoolRings /\ y = s + k /\ i = x[2] + k * Shards
      BY <1>4, <1>6
    <2>2. PICK h \in 0 .. PerCap - 1 : z \in PoolRings /\ w = s + h /\ i = z[2] + h * Shards
      BY <1>4, <1>6
    <2>3. Home(i) = x /\ Home(i) = z
      BY <1>1, <2>1, <2>2, PoolHas
    <2>4. x[2] \in Int /\ k \in Int /\ h \in Int /\ k * Shards = h * Shards
      <3>1. x[2] \in Int /\ k \in Int /\ h \in Int /\ k * Shards \in Int /\ h * Shards \in Int
        BY <1>2, <2>1 DEF PoolRings
      <3>2. x[2] = z[2]
        BY <2>3
      <3>3. x[2] + k * Shards = x[2] + h * Shards
        BY <2>1, <2>2, <3>2
      <3>4. ASSUME NEW a \in Int, NEW b \in Int, NEW c \in Int, a + b = a + c PROVE b = c
        BY <3>4
      <3> QED
        BY <3>1, <3>3, <3>4, Zenon
    <2>5. Shards * (k - h) = k * Shards - h * Shards /\ k - h \in Int
      BY <1>2, <2>4
    <2>6. Shards * (k - h) = 0
      BY <1>2, <2>4, <2>5
    <2>7. k - h = 0
      BY <1>2, <2>5, <2>6, SmallMultiple
    <2> QED
      BY <2>1, <2>2, <2>3, <2>4, <2>7
  <1>7. OwnedInv
    BY <1>5, <1>6, Zenon DEF OwnedInv
  <1> QED
    BY <1>3, <1>7

LEMMA InitPath == ASSUME Init PROVE PathInv
  BY InitType, InitRings, InitOwned DEF PathInv

-----------------------------------------------------------------------------
(* A push never fails. *)

LEMMA PushFrame ==
  ASSUME PushNeverFails, NEW t \in Actors, NEW r, Turns(t, r), r.pc # "drop" \/ r.op # "push"
  PROVE  PushNeverFails'
  BY DEF PushNeverFails, Turns

LEMMA PushStep ==
  ASSUME PathInv, PushNeverFails, [Next]_vars
  PROVE  PushNeverFails'
  <1>1. TypeOK /\ CallInv
    BY DEF PathInv
  <1>2. ASSUME NEW t \in Actors PROVE th[t] \in ThreadState /\ CallOf(t)
    BY <1>1 DEF TypeOK, CallInv
  <1>3. ASSUME NEW t \in Actors, NEW l, Turns(t, [Rest EXCEPT !.lane = l]) PROVE PushNeverFails'
    BY <1>3, PushFrame DEF Rest
  <1>4. ASSUME NEW t \in Actors, Load(t) PROVE PushNeverFails'
    <2>1. [th[t] EXCEPT !.cur = Cursor(t), !.at = Turn(t), !.pc = "seq"].pc = "seq"
      BY <1>2 DEF ThreadState
    <2> QED
      BY <1>1, <1>4, <2>1, LoadIs, PushFrame, Zenon
  <1>5. ASSUME NEW t \in Actors, LoadSequence(t) PROVE PushNeverFails'
    <2> DEFINE d == Diff(ring[th[t].q].seq[Cell(t)], Expected(th[t].op, th[t].cur))
               pc == IF d = 0 THEN "cas" ELSE IF d < 0 /\ th[t].op # "release" THEN th[t].no ELSE "load"
               r == [th[t] EXCEPT !.pc = pc]
    <2>1. th[t].pc = "seq" /\ Turns(t, r)
      BY <1>1, <1>5, LoadSequenceIs, Zenon
    <2>2. th[t].op = "push" => pc = "cas"
      BY <2>1, FreeLooksFree
    <2>3. r.op = th[t].op /\ r.pc = pc
      <3> HIDE DEF pc
      <3> QED
        BY <1>2 DEF ThreadState
    <2> HIDE DEF r, pc
    <2> QED
      BY <2>1, <2>2, <2>3, PushFrame
  <1>6. ASSUME NEW t \in Actors, Advance(t) PROVE PushNeverFails'
    <2>1. /\ [th[t] EXCEPT !.cur = Cursor(t), !.at = Turn(t), !.pc = "seq"].pc = "seq"
          /\ [th[t] EXCEPT !.pc = "publish"].pc = "publish"
      BY <1>2 DEF ThreadState
    <2> QED
      BY <1>1, <1>6, <2>1, AdvanceIs, PushFrame, Zenon
  <1>7. ASSUME NEW t \in Actors, Publish(t) PROVE PushNeverFails'
    <2>1. PICK r : /\ th[t].pc = "publish" /\ Turns(t, r)
                   /\ \/ r = [th[t] EXCEPT !.pc = th[t].ok, !.cur = 0, !.at = 0, !.val = ring[th[t].q].val[Cell(t)],
                                           !.mine = th[t].mine \cup {ring[th[t].q].val[Cell(t)]}]
                      \/ r = [th[t] EXCEPT !.pc = th[t].ok, !.cur = 0, !.at = 0, !.val = 0,
                                           !.mine = th[t].mine \ {th[t].val}]
      BY <1>1, <1>7, PublishIs, Zenon
    <2>2. r.pc = th[t].ok
      BY <1>2, <2>1, Zenon DEF ThreadState
    <2>3. th[t].ok # "drop"
      BY <1>2, <2>1 DEF CallOf, RingPcs
    <2> QED
      BY <2>1, <2>2, <2>3, PushFrame
  <1>8. ASSUME NEW t \in Actors, Hop(t) PROVE PushNeverFails'
    <2>1. \A q, h : [th[t] EXCEPT !.pc = "load", !.hops = h, !.q = q].pc = "load"
      BY <1>2 DEF ThreadState
    <2> QED
      BY <1>1, <1>3, <1>8, <2>1, HopIs, PushFrame, Zenon
  <1>9. ASSUME NEW t \in Actors, Arrive(t) PROVE PushNeverFails'
    <2>1. /\ [th[t] EXCEPT !.pc = "drop"].op = th[t].op
          /\ \A p, q : [th[t] EXCEPT !.pc = "load", !.op = "push", !.q = q, !.peer = p, !.ok = "pin", !.no = "drop"].pc
                         = "load"
      BY <1>2 DEF ThreadState
    <2>2. th[t].op = "acquire"
      BY <1>2, <1>9 DEF Arrive, CallOf
    <2> QED
      BY <1>1, <1>9, <2>1, <2>2, ArriveIs, PushFrame, Zenon
  <1>10. ASSUME NEW t \in Actors, Drop(t) \/ Return(t) \/ Give(t) PROVE PushNeverFails'
    <2>1. \A q, i, got, ok :
            [th[t] EXCEPT !.pc = "load", !.op = "release", !.q = q, !.val = i, !.got = got, !.ok = ok, !.no = "load"].pc
              = "load"
      BY <1>2 DEF ThreadState
    <2> QED
      BY <1>1, <1>3, <1>10, <2>1, DropIs, ReturnIs, GiveIs, PushFrame, Zenon
  <1>11. ASSUME NEW t \in Actors, PinOne(t) \/ EndCursor(t) \/ ReadNext(t) \/ Poll(t) PROVE PushNeverFails'
    <2>1. /\ [th[t] EXCEPT !.pc = "pass"].pc = "pass" /\ [th[t] EXCEPT !.pc = "give"].pc = "give"
          /\ \A n : [th[t] EXCEPT !.pc = "claim", !.tries = n].pc = "claim"
          /\ \A n : [th[t] EXCEPT !.seen = n].pc = th[t].pc
      BY <1>2 DEF ThreadState
    <2> QED
      BY <1>1, <1>11, <2>1, PinOneIs, EndCursorIs, ReadNextIs, PollIs, PushFrame, Zenon
  <1>12. ASSUME NEW t \in Actors, Update(t) \/ Borrow(t) \/ Pass(t) PROVE PushNeverFails'
    <2>1. \A q, h, ok :
            [th[t] EXCEPT !.pc = "load", !.op = "acquire", !.q = q, !.hops = h, !.ok = ok, !.no = "hop"].pc = "load"
      BY <1>2 DEF ThreadState
    <2> QED
      BY <1>1, <1>3, <1>12, <2>1, UpdateIs, BorrowIs, PassIs, PushFrame, Zenon
  <1>13. ASSUME NEW t \in Actors, ClaimLane(t) PROVE PushNeverFails'
    <2>1. th[t].pc = "claim"
      BY <1>13 DEF ClaimLane
    <2>2. ASSUME NEW r, Turns(t, r), r.pc \in {"load", "claim", "rest"} PROVE PushNeverFails'
      BY <2>2, PushFrame
    <2>3. PICK r : /\ Turns(t, r)
                   /\ \/ r = [th[t] EXCEPT !.pc = "load", !.op = "pop", !.q = <<"lane", th[t].lane>>, !.tries = 0,
                                           !.ok = "popped", !.no = "cursor"]
                      \/ \E n \in Nat, l \in 0 .. Lanes - 1 : r = [th[t] EXCEPT !.tries = n, !.lane = l]
                      \/ r = Rest
      BY <1>1, <1>13, ClaimLaneIs, Zenon
    <2>4. r.pc \in {"load", "claim", "rest"}
      <3>1. CASE r = [th[t] EXCEPT !.pc = "load", !.op = "pop", !.q = <<"lane", th[t].lane>>, !.tries = 0,
                                   !.ok = "popped", !.no = "cursor"]
        BY <1>2, <3>1 DEF ThreadState
      <3>2. ASSUME NEW n, NEW l, r = [th[t] EXCEPT !.tries = n, !.lane = l] PROVE r.pc = "claim"
        BY <1>2, <2>1, <3>2 DEF ThreadState
      <3>3. CASE r = Rest
        BY <3>3 DEF Rest
      <3> QED
        BY <2>3, <3>1, <3>2, <3>3, Zenon
    <2> QED
      BY <2>2, <2>3, <2>4, Zenon
  <1>14. ASSUME NEW t \in Actors, Popped(t) PROVE PushNeverFails'
    <2>1. /\ \A got : [th[t] EXCEPT !.pc = "load", !.op = "pop", !.got = got, !.ok = "popped", !.no = "cursor"].pc = "load"
          /\ \A got : [th[t] EXCEPT !.pc = "cursor", !.got = got].pc = "cursor"
      BY <1>2 DEF ThreadState
    <2> QED
      BY <1>1, <1>14, <2>1, PoppedIs, PushFrame, Zenon
  <1>15. CASE UNCHANGED vars
    BY <1>15 DEF vars, PushNeverFails
  <1> QED
    BY <1>4, <1>5, <1>6, <1>7, <1>8, <1>9, <1>10, <1>11, <1>12, <1>13, <1>14, <1>15 DEF Next, Step

-----------------------------------------------------------------------------
(* The theorems. *)

\* The invariant holds as long as no thread sleeps through a turn of a cursor.
LEMMA PathInvariant == Spec /\ []NoLap => [](PathInv /\ PushNeverFails)
  <1>1. Init => PathInv /\ PushNeverFails
    BY InitPath, InitType
  <1>2. (PathInv /\ PushNeverFails) /\ NoLap /\ [Next]_vars => (PathInv /\ PushNeverFails)'
    BY PathStep, PushStep
  <1> QED
    BY <1>1, <1>2, PTL DEF Spec

\* Every slot of the pool is in exactly one place at any moment, for any number of
\* threads and neighbours, any pool and any lanes, and wherever the 32-bit cursors
\* wrap: SlotPool and FifoQueue neither lease a slot twice nor lose one.  A thread
\* must not sleep between its load and its compare-exchange while the cursor goes
\* through all its values (NoLap): the compare could not tell.
THEOREM SlotsAreAccounted == Spec /\ []NoLap => []SlotsAccounted
  <1>1. PathInv => SlotsAccounted
    BY OwnedOnce DEF PathInv, SlotsAccounted
  <1> QED
    BY <1>1, PathInvariant, PTL

\* A packet that has been accepted always fits its lane: when QueueReady pushes,
\* the cell it finds at the cursor is free, because a full lane would hold every
\* slot of the pool and the packet being pushed holds one more.
THEOREM PushesFit == Spec /\ []NoLap => []PushNeverFails
  BY PathInvariant, PTL
=============================================================================
