------------------------------ MODULE ReadyPath ------------------------------
(***************************************************************************)
(* The way of a received packet to the application: a slot is leased from  *)
(* the receive pool (SlotPool), filled by the one thread that runs Update, *)
(* pushed into the lane of its peer (ReadyLanes, FifoQueue), popped by a   *)
(* thread that has claimed the lane (Poll), read, and given back.          *)
(*                                                                         *)
(* Pool and lanes are the same lock-free ring: a cell carries a sequence   *)
(* that says whose turn it is, a cursor is advanced by compare-exchange,   *)
(* and the cell is published by storing its sequence.  A step is one load, *)
(* one compare-exchange, or the store that ends the operation.  Sequences  *)
(* and cursors are taken modulo 2^32 in the code, modulo Modulus here.     *)
(*                                                                         *)
(* Threads drive one socket, each calling Update and Poll; Neighbours use  *)
(* the same pool for another socket of the kernel.                         *)
(***************************************************************************)
EXTENDS Integers, FiniteSets, Sequences

CONSTANTS
  Threads, Neighbours,
  Shards,        \* rings of the pool (SHARD_COUNT)
  PerCap,        \* indices a ring owns
  Lanes,
  PeerLane,      \* [sender -> lane]: LaneOf, of the peer slot or of the address
  Attributed,    \* senders whose packets ride a flow and count for a peer slot
  PollMax,       \* packets one Poll takes
  Modulus,       \* stands for 2^32
  Starts,        \* multiples of the lane capacity at which the cursors may stand
  MaxPackets, MaxBorrows,
  Nobody

Peers == DOMAIN PeerLane
PoolRings == {"pool"} \X (0 .. Shards - 1)
LaneRings == {"lane"} \X (0 .. Lanes - 1)
Rings == PoolRings \cup LaneRings

\* A lane is sized for the whole receive pool.
LaneCap == Shards * PerCap

Cap(q) == IF q[1] = "pool" THEN PerCap ELSE LaneCap
Indices == 0 .. Shards * PerCap - 1
Home(i) == <<"pool", i % Shards>>

\* Capacities are powers of two, so the cells follow each other across the wrap;
\* a pool has fewer slots than a cursor has values on either side of zero.
ASSUME SizesAssumption ==
  /\ Shards \in Nat \ {0} /\ PerCap \in Nat \ {0} /\ Lanes \in Nat \ {0}
  /\ Modulus \in Nat /\ LaneCap < Modulus \div 2
  /\ \E k \in 1 .. Modulus : Modulus = LaneCap * k
  /\ \A s \in Starts : s \in 0 .. Modulus - 1 /\ \E k \in 0 .. Modulus : s = LaneCap * k
ASSUME ActorsAssumption ==
  /\ PeerLane \in [Peers -> 0 .. Lanes - 1] /\ Attributed \subseteq Peers
  /\ Nobody \notin Threads /\ Nobody \notin Peers
  /\ PollMax \in Nat /\ MaxPackets \in Nat /\ MaxBorrows \in Nat

\* Two's complement difference of two 32-bit values.
Diff(a, b) == LET d == (a - b) % Modulus IN IF d >= Modulus \div 2 THEN d - Modulus ELSE d
Wrap(n) == n % Modulus

VARIABLES
  ring,        \* cells and cursors of the pool's rings and of the lanes, and
               \* ghosts: the cursors as they would be had they no width
  busy,        \* the claim of each lane
  gate,        \* updateGate_
  packet,      \* what a slot carries: [peer, num]
  occupancy,   \* PeerRecvState::occupancy
  read,        \* ghost: the last packet of each peer the application has read
  sent,        \* ghost: packets of each peer given to a lane
  left,        \* packets and borrowings still to come
  th
vars == <<ring, busy, gate, packet, occupancy, read, sent, left, th>>

Actors == Threads \cup Neighbours
Rest == [pc |-> "rest", op |-> "none", q |-> <<"none", 0>>, cur |-> 0, at |-> 0, val |-> 0, peer |-> Nobody, hops |-> 0,
         lane |-> 0, tries |-> 0, got |-> <<>>, seen |-> 0, ok |-> "rest", no |-> "rest", mine |-> {}]

\* SlotPool::Init fills each ring with its residue class, FifoQueue::Init
\* leaves a lane empty.
Init ==
  \E s \in Starts :
    /\ ring = [q \in Rings |->
         IF q[1] = "pool"
         THEN [in |-> Wrap(s + PerCap), out |-> s, puts |-> s + PerCap, takes |-> s,
               seq |-> [k \in 0 .. PerCap - 1 |-> Wrap(s + k + 1)], val |-> [k \in 0 .. PerCap - 1 |-> q[2] + k * Shards]]
         ELSE [in |-> s, out |-> s, puts |-> s, takes |-> s,
               seq |-> [k \in 0 .. LaneCap - 1 |-> Wrap(s + k)], val |-> [k \in 0 .. LaneCap - 1 |-> 0]]]
    /\ busy = [l \in 0 .. Lanes - 1 |-> Nobody]
    /\ gate = Nobody
    /\ packet = [i \in Indices |-> [peer |-> Nobody, num |-> 0]]
    /\ occupancy = [p \in Peers |-> 0]
    /\ read = [p \in Peers |-> 0]
    /\ sent = [p \in Peers |-> 0]
    /\ left = [packets |-> MaxPackets, borrows |-> MaxBorrows]
    /\ th = [t \in Actors |-> Rest]

-----------------------------------------------------------------------------
\* The ring operations.  Acquire and Pop take from the out cursor, Release and
\* Push put at the in cursor.

Takes(op) == op \in {"acquire", "pop"}
Cursor(t) == IF Takes(th[t].op) THEN ring[th[t].q].out ELSE ring[th[t].q].in
Turn(t) == IF Takes(th[t].op) THEN ring[th[t].q].takes ELSE ring[th[t].q].puts
Cell(t) == th[t].cur % Cap(th[t].q)

\* A fault: every operation waits for a filled cell.
ExpectedFilled(op, cur) == Wrap(cur + 1)

\* What the cell's sequence is when it is the cursor's turn.
Expected(op, cur) == IF Takes(op) THEN Wrap(cur + 1) ELSE cur

\* What it becomes: a taken cell is ready for the put one round later.
Published(op, cur, cap) == IF Takes(op) THEN Wrap(cur + cap) ELSE Wrap(cur + 1)

Call(r, op, q, ok, no) == [r EXCEPT !.pc = "load", !.op = op, !.q = q, !.ok = ok, !.no = no]

Load(t) ==
  /\ th[t].pc = "load"
  /\ th' = [th EXCEPT ![t] = [@ EXCEPT !.cur = Cursor(t), !.at = Turn(t), !.pc = "seq"]]
  /\ UNCHANGED <<ring, busy, gate, packet, occupancy, read, sent, left>>

\* A cell that is behind means empty (full for Push) and ends the call; one
\* that is ahead means the cursor is stale.  Release waits in both cases.
LoadSequence(t) ==
  /\ th[t].pc = "seq"
  /\ LET d == Diff(ring[th[t].q].seq[Cell(t)], Expected(th[t].op, th[t].cur))
     IN th' = [th EXCEPT ![t] = [@ EXCEPT !.pc = IF d = 0 THEN "cas"
                                                 ELSE IF d < 0 /\ th[t].op # "release" THEN th[t].no ELSE "load"]]
  /\ UNCHANGED <<ring, busy, gate, packet, occupancy, read, sent, left>>

\* A fault: the cursor is stored without a compare.
ClaimsAnyway(t) == TRUE

\* The compare-exchange that claims the cell; one that fails has loaded the
\* cursor anew.
Claims(t) == Cursor(t) = th[t].cur

Advance(t) ==
  /\ th[t].pc = "cas"
  /\ IF Claims(t)
     THEN /\ ring' = IF Takes(th[t].op)
                     THEN [ring EXCEPT ![th[t].q] = [@ EXCEPT !.out = Wrap(Cursor(t) + 1), !.takes = Turn(t) + 1]]
                     ELSE [ring EXCEPT ![th[t].q] = [@ EXCEPT !.in = Wrap(Cursor(t) + 1), !.puts = Turn(t) + 1]]
          /\ th' = [th EXCEPT ![t] = [@ EXCEPT !.pc = "publish"]]
     ELSE /\ th' = [th EXCEPT ![t] = [@ EXCEPT !.cur = Cursor(t), !.at = Turn(t), !.pc = "seq"]]
          /\ UNCHANGED ring
  /\ UNCHANGED <<busy, gate, packet, occupancy, read, sent, left>>

\* The index is read from or written to the cell and the sequence stored.
Publish(t) ==
  /\ th[t].pc = "publish"
  /\ LET q == th[t].q
         k == Cell(t)
         seq == Published(th[t].op, th[t].cur, Cap(q))
     IN IF Takes(th[t].op)
        THEN /\ ring' = [ring EXCEPT ![q] = [@ EXCEPT !.seq[k] = seq]]
             /\ th' = [th EXCEPT ![t] = [@ EXCEPT !.pc = th[t].ok, !.cur = 0, !.at = 0, !.val = ring[q].val[k],
                                                  !.mine = th[t].mine \cup {ring[q].val[k]}]]
        ELSE /\ ring' = [ring EXCEPT ![q] = [@ EXCEPT !.seq[k] = seq, !.val[k] = th[t].val]]
             /\ th' = [th EXCEPT ![t] = [@ EXCEPT !.pc = th[t].ok, !.cur = 0, !.at = 0, !.val = 0,
                                                  !.mine = th[t].mine \ {th[t].val}]]
  /\ UNCHANGED <<busy, gate, packet, occupancy, read, sent, left>>

\* Acquire tries the rings one after the other, from one the thread's stack
\* address picks.
Hop(t) ==
  /\ th[t].pc = "hop"
  /\ IF th[t].hops > 0
     THEN /\ th' = [th EXCEPT ![t] = [@ EXCEPT !.pc = "load", !.hops = th[t].hops - 1,
                                               !.q = <<"pool", (th[t].q[2] + 1) % Shards>>]]
          /\ UNCHANGED gate
     ELSE /\ th' = [th EXCEPT ![t] = [Rest EXCEPT !.lane = th[t].lane]]
          /\ gate' = IF gate = t THEN Nobody ELSE gate
  /\ UNCHANGED <<ring, busy, packet, occupancy, read, sent, left>>

Acquiring(r, hint, ok) == Call([r EXCEPT !.hops = Shards - 1], "acquire", <<"pool", hint>>, ok, "hop")
Releasing(r, i, ok) == Call([r EXCEPT !.val = i], "release", Home(i), ok, "load")

-----------------------------------------------------------------------------
\* Update: one pass at a time, a caller who finds one running returns.
Update(t) ==
  /\ t \in Threads
  /\ th[t].pc = "rest"
  /\ gate = Nobody
  /\ left.packets > 0
  /\ gate' = t
  /\ \E hint \in 0 .. Shards - 1 : th' = [th EXCEPT ![t] = Acquiring(@, hint, "arrived")]
  /\ UNCHANGED <<ring, busy, packet, occupancy, read, sent, left>>

\* A datagram lands in the leased slot.  It is consumed or refused, which drops
\* its handle, or it is queued in the lane of its sender.
Arrive(t) ==
  /\ th[t].pc = "arrived"
  /\ left' = [left EXCEPT !.packets = @ - 1]
  /\ \/ /\ th' = [th EXCEPT ![t] = [@ EXCEPT !.pc = "drop"]]
        /\ UNCHANGED <<packet, sent>>
     \/ \E p \in Peers :
          /\ sent' = [sent EXCEPT ![p] = @ + 1]
          /\ packet' = [packet EXCEPT ![th[t].val] = [peer |-> p, num |-> sent[p] + 1]]
          /\ th' = [th EXCEPT ![t] = Call([@ EXCEPT !.peer = p], "push", <<"lane", PeerLane[p]>>, "pin", "drop")]
  /\ UNCHANGED <<ring, busy, gate, occupancy, read>>

Drop(t) ==
  /\ th[t].pc = "drop"
  /\ th' = [th EXCEPT ![t] = Releasing(@, th[t].val, "pass")]
  /\ UNCHANGED <<ring, busy, gate, packet, occupancy, read, sent, left>>

\* QueueReady counts a flow's packet after the push has made it visible.
PinOne(t) ==
  /\ th[t].pc = "pin"
  /\ occupancy' = [p \in Peers |-> IF p = th[t].peer /\ p \in Attributed THEN occupancy[p] + 1 ELSE occupancy[p]]
  /\ th' = [th EXCEPT ![t] = [@ EXCEPT !.pc = "pass"]]
  /\ UNCHANGED <<ring, busy, gate, packet, read, sent, left>>

\* The pass takes another datagram, or finds the operating system's buffer
\* empty and ends.
Pass(t) ==
  /\ th[t].pc = "pass"
  /\ \/ /\ left.packets > 0
        /\ \E hint \in 0 .. Shards - 1 : th' = [th EXCEPT ![t] = Acquiring(@, hint, "arrived")]
        /\ UNCHANGED gate
     \/ /\ th' = [th EXCEPT ![t] = [Rest EXCEPT !.lane = th[t].lane]]
        /\ gate' = Nobody
  /\ UNCHANGED <<ring, busy, packet, occupancy, read, sent, left>>

-----------------------------------------------------------------------------
\* Poll prefers the lane the thread held last.
Poll(t) ==
  /\ t \in Threads
  /\ th[t].pc = "rest"
  /\ th' = [th EXCEPT ![t] = [@ EXCEPT !.pc = "claim", !.tries = Lanes]]
  /\ UNCHANGED <<ring, busy, gate, packet, occupancy, read, sent, left>>

\* A fault: a lane is taken from under its reader.
LaneFreeAlways(l) == l \in 0 .. Lanes - 1

LaneFree(l) == busy[l] = Nobody

\* One test_and_set of ClaimLane.  With every lane taken the caller keeps
\* NO_LANE, which the next call reads as lane 0.
ClaimLane(t) ==
  /\ th[t].pc = "claim"
  /\ LET l == th[t].lane
     IN \/ /\ th[t].tries > 0 /\ LaneFree(l)
           /\ busy' = [busy EXCEPT ![l] = t]
           /\ th' = [th EXCEPT ![t] = Call([@ EXCEPT !.tries = 0], "pop", <<"lane", l>>, "popped", "cursor")]
        \/ /\ th[t].tries > 0 /\ ~LaneFree(l)
           /\ th' = [th EXCEPT ![t] = [@ EXCEPT !.tries = th[t].tries - 1, !.lane = (l + 1) % Lanes]]
           /\ UNCHANGED busy
        \/ /\ th[t].tries = 0
           /\ th' = [th EXCEPT ![t] = Rest]
           /\ UNCHANGED busy
  /\ UNCHANGED <<ring, gate, packet, occupancy, read, sent, left>>

\* PeerRecvState::ReleaseOne saturates at zero.
ReleaseOne(n) == IF n > 0 THEN n - 1 ELSE 0

Popped(t) ==
  /\ th[t].pc = "popped"
  /\ LET p == packet[th[t].val].peer
         r == [th[t] EXCEPT !.got = Append(@, th[t].val)]
     IN /\ occupancy' = IF p \in Attributed THEN [occupancy EXCEPT ![p] = ReleaseOne(@)] ELSE occupancy
        /\ th' = [th EXCEPT ![t] = IF Len(r.got) < PollMax THEN Call(r, "pop", th[t].q, "popped", "cursor")
                                                           ELSE [r EXCEPT !.pc = "cursor"]]
  /\ UNCHANGED <<ring, busy, gate, packet, read, sent, left>>

\* PollCursor::Next: the application reads a packet under the claim.
ReadNext(t) ==
  /\ th[t].pc = "cursor"
  /\ th[t].seen < Len(th[t].got)
  /\ LET m == packet[th[t].got[th[t].seen + 1]]
     IN read' = [read EXCEPT ![m.peer] = m.num]
  /\ th' = [th EXCEPT ![t] = [@ EXCEPT !.seen = th[t].seen + 1]]
  /\ UNCHANGED <<ring, busy, gate, packet, occupancy, sent, left>>

\* The cursor dies and gives up the lane; the handles outlive it.
EndCursor(t) ==
  /\ th[t].pc = "cursor"
  /\ th[t].seen = Len(th[t].got)
  /\ busy' = [busy EXCEPT ![th[t].lane] = Nobody]
  /\ th' = [th EXCEPT ![t] = [@ EXCEPT !.pc = "give"]]
  /\ UNCHANGED <<ring, gate, packet, occupancy, read, sent, left>>

\* PacketSlotHandle::Release, handle by handle.
Give(t) ==
  /\ th[t].pc = "give"
  /\ IF th[t].got = <<>>
     THEN th' = [th EXCEPT ![t] = [Rest EXCEPT !.lane = th[t].lane]]
     ELSE th' = [th EXCEPT ![t] = [Releasing(@, Head(th[t].got), "give") EXCEPT !.got = Tail(th[t].got)]]
  /\ UNCHANGED <<ring, busy, gate, packet, occupancy, read, sent, left>>

\* Another socket of the kernel leases a slot and gives it back.
Borrow(t) ==
  /\ t \in Neighbours
  /\ th[t].pc = "rest"
  /\ left.borrows > 0
  /\ left' = [left EXCEPT !.borrows = @ - 1]
  /\ \E hint \in 0 .. Shards - 1 : th' = [th EXCEPT ![t] = Acquiring(@, hint, "borrowed")]
  /\ UNCHANGED <<ring, busy, gate, packet, occupancy, read, sent>>

Return(t) ==
  /\ th[t].pc = "borrowed"
  /\ th' = [th EXCEPT ![t] = Releasing(@, th[t].val, "give")]
  /\ UNCHANGED <<ring, busy, gate, packet, occupancy, read, sent, left>>

Step(t) ==
  \/ Load(t) \/ LoadSequence(t) \/ Advance(t) \/ Publish(t) \/ Hop(t)
  \/ Arrive(t) \/ Drop(t) \/ PinOne(t) \/ Pass(t)
  \/ ClaimLane(t) \/ Popped(t) \/ ReadNext(t) \/ EndCursor(t) \/ Give(t) \/ Return(t)

Next == \E t \in Actors : Step(t) \/ Update(t) \/ Poll(t) \/ Borrow(t)

Spec == Init /\ [][Next]_vars

\* Threads named by the fairness keep polling; a call that is begun ends.
CONSTANT Polling
FairSpec ==
  /\ Spec
  /\ \A t \in Actors : WF_vars(Step(t))
  /\ \A t \in Polling : WF_vars(Poll(t))

-----------------------------------------------------------------------------
RingPcs == {"load", "seq", "cas", "publish"}
Pcs == RingPcs \cup {"rest", "hop", "arrived", "drop", "pin", "pass", "claim", "popped",
                     "cursor", "give", "borrowed"}
Word == 0 .. Modulus - 1

ThreadState ==
  [pc : Pcs, op : {"none", "acquire", "release", "push", "pop"}, q : Rings \cup {<<"none", 0>>},
   cur : Word, at : Int, val : Indices, peer : Peers \cup {Nobody}, hops : Nat,
   lane : 0 .. Lanes - 1, tries : Nat, got : Seq(Indices), seen : Nat, ok : Pcs, no : Pcs,
   mine : SUBSET Indices]

\* Every piece of state has its type; the occupancy of a peer never goes below
\* zero, where the code's counter would read four billion.
TypeOK ==
  /\ DOMAIN ring = Rings
  /\ \A q \in Rings :
       ring[q] \in [in : Word, out : Word, puts : Int, takes : Int,
                    seq : [0 .. Cap(q) - 1 -> Word], val : [0 .. Cap(q) - 1 -> Indices]]
  /\ busy \in [0 .. Lanes - 1 -> Threads \cup {Nobody}]
  /\ gate \in Threads \cup {Nobody}
  /\ packet \in [Indices -> [peer : Peers \cup {Nobody}, num : Nat]]
  /\ occupancy \in [Peers -> Nat]
  /\ read \in [Peers -> Nat] /\ sent \in [Peers -> Nat]
  /\ left \in [packets : Int, borrows : Int]
  /\ th \in [Actors -> ThreadState]

\* The filled cells of a ring.
Filled(q) ==
  {k \in 0 .. Cap(q) - 1 :
     \E j \in 0 .. Diff(ring[q].in, ring[q].out) - 1 :
        LET pos == Wrap(ring[q].out + j) IN pos % Cap(q) = k /\ ring[q].seq[k] = Wrap(pos + 1)}

\* The thread has claimed a cell to take what is in it.
Taking(t) == th[t].pc = "publish" /\ Takes(th[t].op)

Hands == <<"hands", 0>>
Grasp == <<"grasp", 0>>

\* The places where a slot is: a filled cell, the hands of a thread, or a cell a
\* thread is taking it from.
Places(i) ==
  (UNION {{<<q, k>> : k \in {c \in Filled(q) : ring[q].val[c] = i}} : q \in Rings})
  \cup {<<Hands, t>> : t \in {a \in Actors : i \in th[a].mine}}
  \cup {<<Grasp, t>> : t \in {a \in Actors : Taking(a) /\ ring[th[a].q].val[Cell(a)] = i}}

\* Every slot of the pool is in exactly one place at any moment: free in its
\* ring, waiting in one lane, or in the hands of one thread.  None is leased
\* twice and none is lost, whatever the interleaving of the ring operations and
\* wherever the 32-bit sequences wrap.
OneOwner == \A i \in Indices : Cardinality(Places(i)) = 1

\* A packet accepted for delivery always fits its lane: "a push that fails is a
\* packet dropped after its sender was told it arrived".
PushNeverFails == \A t \in Actors : ~(th[t].pc = "drop" /\ th[t].op = "push")

\* The application reads the packets of a peer one by one in the order they
\* were queued, although any thread may poll any lane.
InOrder == [][\A p \in Attributed : read'[p] \in {read[p], read[p] + 1}]_vars

Waiting(p) == {i \in Indices : packet[i].peer = p /\ \E q \in LaneRings : \E k \in Filled(q) : ring[q].val[k] = i}

\* With no call in progress the occupancy of a peer is the number of its
\* packets that wait in a lane.
OccupancyExact ==
  (\A t \in Threads : th[t].pc = "rest") => \A p \in Attributed : occupancy[p] = Cardinality(Waiting(p))

\* A packet queued in a lane is read while threads keep polling.
EveryPacketRead == \A p \in Attributed : \A n \in 1 .. MaxPackets : (sent[p] = n) ~> (read[p] >= n)

\* OneOwner, with cursors and sequences inside their width and no occupancy
\* below zero (SlotPool::Acquire, Release).
SlotsAccounted == TypeOK /\ OneOwner

-----------------------------------------------------------------------------
\* Why the slots are accounted for: the parts of the inductive invariant.  They
\* speak of positions, the values the cursors would have had they no width.

\* No thread sleeps between its load of a cursor and its compare-exchange while
\* the cursor goes once around its 32 bits, and looks the same again.
NoLap == \A t \in Actors : th[t].pc = "cas" => Turn(t) - th[t].at < Modulus

\* Thread t has claimed position m of ring q, and not published it yet.
Puts(t, q, m) == th[t].pc = "publish" /\ ~Takes(th[t].op) /\ th[t].q = q /\ th[t].at = m
Grabs(t, q, m) == th[t].pc = "publish" /\ Takes(th[t].op) /\ th[t].q = q /\ th[t].at = m

PutPending(q, m) == \E t \in Actors : Puts(t, q, m)
TakePending(q, m) == \E t \in Actors : Grabs(t, q, m)

\* The sequence that stands in the cell of position m, the last that was put there.
Stamp(q, m) ==
  IF m >= ring[q].takes
  THEN IF PutPending(q, m) THEN Wrap(m) ELSE Wrap(m + 1)
  ELSE IF TakePending(q, m) THEN Wrap(m + 1) ELSE Wrap(m + Cap(q))

RingInv(q) ==
  /\ ring[q].takes <= ring[q].puts /\ ring[q].puts <= ring[q].takes + Cap(q)
  /\ ring[q].in = Wrap(ring[q].puts) /\ ring[q].out = Wrap(ring[q].takes)
  /\ \A m \in ring[q].puts - Cap(q) .. ring[q].puts - 1 : ring[q].seq[m % Cap(q)] = Stamp(q, m)

\* A position is claimed by one thread, and only inside the window of the ring.
ClaimsInv ==
  /\ \A t \in Actors : th[t].pc = "publish" =>
       LET q == th[t].q
       IN IF Takes(th[t].op) THEN th[t].at \in ring[q].puts - Cap(q) .. ring[q].takes - 1
                             ELSE th[t].at \in ring[q].takes .. ring[q].puts - 1
  /\ \A t, u \in Actors :
       th[t].pc = "publish" /\ th[u].pc = "publish" /\ th[t].q = th[u].q /\ th[t].at = th[u].at
         => t = u

\* The next cell to put into is free, the next to take from is filled.
FreeNext(q) == ring[q].puts - Cap(q) < ring[q].takes /\ ~TakePending(q, ring[q].puts - Cap(q))
FullNext(q) == ring[q].takes < ring[q].puts /\ ~PutPending(q, ring[q].takes)

\* A thread knows a position the cursor had, and one that is about to claim the
\* position the cursor still has found its cell ready.
LoadedOf(t) ==
  /\ th[t].pc \in {"seq", "cas", "publish"} => th[t].cur = Wrap(th[t].at)
  /\ th[t].pc \in {"seq", "cas"} => th[t].at <= Turn(t)
  /\ th[t].pc = "cas" /\ th[t].at = Turn(t) =>
       IF Takes(th[t].op) THEN FullNext(th[t].q) ELSE FreeNext(th[t].q)

LoadedInv == \A t \in Actors : LoadedOf(t)

\* Position m of ring q has been filled and not claimed.
FilledAt(q, m) == m \in ring[q].takes .. ring[q].puts - 1 /\ ~PutPending(q, m)
At(q, m) == ring[q].val[m % Cap(q)]

\* Slot i is at position y of ring x, in the hands of thread y, or being taken by it.
Occupies(i, x, y) ==
  \/ x \in Rings /\ FilledAt(x, y) /\ At(x, y) = i
  \/ x = Hands /\ y \in Actors /\ i \in th[y].mine
  \/ x = Grasp /\ y \in Actors /\ Taking(y) /\ At(th[y].q, th[y].at) = i

\* A pool ring has only indices of its residue class.
HomeInv ==
  \A q \in PoolRings : \A m \in ring[q].puts - Cap(q) .. ring[q].puts - 1 :
    FilledAt(q, m) \/ TakePending(q, m) => Home(At(q, m)) = q

\* What a thread has in hand at each point of its calls.
Items(s) == {s[j] : j \in 1 .. Len(s)}
Loaded(r) ==
  \/ r.pc \in {"arrived", "drop", "popped", "borrowed"}
  \/ r.pc \in RingPcs /\ r.op \in {"push", "release"}
Hand(r) == Items(r.got) \cup (IF Loaded(r) THEN {r.val} ELSE {})

HandOf(r) ==
  /\ r.mine = Hand(r)
  /\ Loaded(r) => r.val \notin Items(r.got)
  /\ \A j, k \in 1 .. Len(r.got) : r.got[j] = r.got[k] => j = k
  /\ r.got # <<>> => \/ r.pc \in {"popped", "cursor", "give"}
                     \/ r.pc \in RingPcs /\ r.op = "pop"
                     \/ r.pc \in RingPcs /\ r.op = "release" /\ r.ok = "give"

HandInv == \A t \in Actors : HandOf(th[t])

\* Which call a thread is in, and what it must have claimed for it.
CallOf(t) ==
  LET r == th[t]
  IN /\ r.pc \in {"claim", "popped", "cursor"} => t \in Threads
     /\ r.pc \in {"popped", "cursor"} => busy[r.lane] = t /\ r.q = <<"lane", r.lane>>
     /\ r.pc \in {"arrived", "drop", "pin", "pass"} => gate = t /\ t \in Threads
     /\ r.pc \in {"arrived", "hop", "borrowed"} => r.op = "acquire"
     /\ r.pc \in RingPcs \/ r.pc = "hop" =>
          \/ /\ r.op = "acquire" /\ r.no = "hop" /\ r.q \in PoolRings
             /\ r.ok = "borrowed" \/ (r.ok = "arrived" /\ gate = t /\ t \in Threads)
          \/ /\ r.op = "push" /\ r.no = "drop" /\ r.ok = "pin" /\ r.q \in LaneRings
             /\ gate = t /\ t \in Threads
          \/ /\ r.op = "pop" /\ r.no = "cursor" /\ r.ok = "popped"
             /\ r.q = <<"lane", r.lane>> /\ busy[r.lane] = t /\ t \in Threads
          \/ /\ r.op = "release" /\ r.no = "load" /\ r.q = Home(r.val)
             /\ r.ok = "give" \/ (r.ok = "pass" /\ gate = t /\ t \in Threads)

CallInv == \A t \in Actors : CallOf(t)

\* Only one thread pushes, and only one pops a lane: the cursors of a lane do not
\* move under them.
LoneOf(t) ==
  /\ th[t].op = "push" /\ th[t].pc \in {"seq", "cas"} => th[t].at = ring[th[t].q].puts
  /\ th[t].op = "pop" /\ th[t].pc = "publish" => th[t].at = ring[th[t].q].takes - 1

LoneInv == \A t \in Actors : LoneOf(t)
=============================================================================
