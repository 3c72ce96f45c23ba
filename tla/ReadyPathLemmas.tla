--------------------------- MODULE ReadyPathLemmas ---------------------------
(***************************************************************************)
(* What the proofs about ReadyPath rest on: remainders and wrapped         *)
(* positions, the types, the calls the threads are in and what they have   *)
(* in hand, the few shapes a step has as the rings see it, and what a step *)
(* of each shape keeps true of the rings and of what the threads know.     *)
(***************************************************************************)
EXTENDS ReadyPath, TLAPS

USE SMTT(15), ZenonT(20)

-----------------------------------------------------------------------------
(* Remainders, of any divisor. *)

\* Division with remainder.
LEMMA Divided ==
  ASSUME NEW N \in Nat \ {0}, NEW a \in Int
  PROVE  a % N \in 0 .. N - 1 /\ a \div N \in Int /\ a = N * (a \div N) + (a % N)
  OBVIOUS

\* A multiple of N that is less than N away from zero is zero.
LEMMA SmallMultiple ==
  ASSUME NEW N \in Nat \ {0}, NEW k \in Int, -N < N * k, N * k < N
  PROVE  k = 0
  <1>1. k >= 1 => N * k >= N
    OBVIOUS
  <1>2. k <= -1 => N * k <= -N
    OBVIOUS
  <1> QED
    BY <1>1, <1>2

\* The remainder is unique.
LEMMA RemainderIs ==
  ASSUME NEW N \in Nat \ {0}, NEW a \in Int, NEW k \in Int, NEW r \in 0 .. N - 1, a = N * k + r
  PROVE  a % N = r
  <1> DEFINE d == a \div N
             v == a % N
  <1>1. v \in 0 .. N - 1 /\ d \in Int /\ a = N * d + v
    BY Divided
  <1> HIDE DEF d, v
  <1>2. N * (k - d) = N * k - N * d
    BY <1>1
  <1>3. N * (k - d) = v - r
    <2>1. N * k \in Int /\ N * d \in Int
      BY <1>1
    <2> QED
      BY <1>1, <1>2, <2>1
  <1>4. k - d = 0
    BY <1>1, <1>3, SmallMultiple
  <1>5. v = r
    BY <1>1, <1>2, <1>3, <1>4
  <1> QED
    BY <1>5 DEF v

\* Numbers less than N apart have different remainders.
LEMMA Apart ==
  ASSUME NEW N \in Nat \ {0}, NEW a \in Int, NEW b \in Int, -N < a - b, a - b < N, a % N = b % N
  PROVE  a = b
  <1> DEFINE d == a \div N
             e == b \div N
             v == a % N
  <1>1. v \in 0 .. N - 1 /\ d \in Int /\ a = N * d + v
    BY Divided
  <1>2. e \in Int /\ b = N * e + v
    BY Divided
  <1> HIDE DEF d, e, v
  <1>3. N * d \in Int /\ N * e \in Int /\ N * (d - e) = N * d - N * e
    BY <1>1, <1>2
  <1>4. N * (d - e) = a - b
    BY <1>1, <1>2, <1>3
  <1>5. d - e = 0
    BY <1>1, <1>2, <1>4, SmallMultiple
  <1> QED
    BY <1>1, <1>2, <1>5

\* One divisor further, the remainder is the same.
LEMMA Around ==
  ASSUME NEW N \in Nat \ {0}, NEW a \in Int
  PROVE  (a - N) % N = a % N
  <1> DEFINE d == a \div N
             v == a % N
  <1>1. v \in 0 .. N - 1 /\ d \in Int /\ a = N * d + v
    BY Divided
  <1> HIDE DEF d, v
  <1>2. N * (d - 1) = N * d - N /\ N * d \in Int /\ d - 1 \in Int
    BY <1>1
  <1>3. a - N = N * (d - 1) + v /\ a - N \in Int
    BY <1>1, <1>2
  <1>4. (a - N) % N = v
    BY <1>1, <1>2, <1>3, RemainderIs
  <1> QED
    BY <1>4 DEF v

\* A remainder may be taken before or after an addition.
LEMMA Added ==
  ASSUME NEW N \in Nat \ {0}, NEW a \in Int, NEW b \in Int
  PROVE  ((a % N) + b) % N = (a + b) % N
  <1> DEFINE d == a \div N
             v == a % N
             e == (v + b) \div N
             w == (v + b) % N
  <1>1. v \in 0 .. N - 1 /\ d \in Int /\ a = N * d + v
    BY Divided
  <1>2. v + b \in Int
    BY <1>1
  <1>3. w \in 0 .. N - 1 /\ e \in Int /\ v + b = N * e + w
    BY <1>2, Divided
  <1> HIDE DEF d, v, e, w
  <1>4. N * (d + e) = N * d + N * e /\ N * d \in Int /\ N * e \in Int /\ d + e \in Int
    BY <1>1, <1>3
  <1>5. a + b = N * (d + e) + w /\ a + b \in Int
    BY <1>1, <1>3, <1>4
  <1>6. (a + b) % N = w
    BY <1>3, <1>4, <1>5, RemainderIs, Zenon
  <1> QED
    BY <1>6 DEF w, v

\* The remainder by a multiple keeps the remainder.
LEMMA Nested ==
  ASSUME NEW N \in Nat \ {0}, NEW k \in Nat \ {0}, NEW M \in Nat \ {0}, M = N * k, NEW a \in Int
  PROVE  (a % M) % N = a % N
  <1> DEFINE d == a \div M
             v == a % M
             e == v \div N
             w == v % N
  <1>0. v \in 0 .. M - 1 /\ d \in Int /\ a = M * d + v
    BY Divided, Zenon
  <1>1. v \in Int /\ d \in Int /\ a = M * d + v
    BY <1>0
  <1>2. w \in 0 .. N - 1 /\ e \in Int /\ v = N * e + w
    BY <1>1, Divided
  <1> HIDE DEF d, v, e, w
  <1>3. k * d \in Int
    BY <1>1
  <1>4. (N * k) * d = N * (k * d)
    BY <1>1
  <1> DEFINE c == k * d
  <1> HIDE DEF c
  <1>5. c \in Int /\ M * d = N * c
    BY <1>3, <1>4 DEF c
  <1>6. N * (c + e) = N * c + N * e /\ N * c \in Int /\ N * e \in Int /\ c + e \in Int
    BY <1>2, <1>5
  <1>7. a = N * (c + e) + w
    BY <1>1, <1>2, <1>5, <1>6
  <1>8. a % N = w
    BY <1>2, <1>6, <1>7, RemainderIs, Zenon
  <1> QED
    BY <1>8 DEF w, v


-----------------------------------------------------------------------------
(* Cursors and cells. *)

\* The capacities divide the modulus, and are less than half of it.
LEMMA Sizes ==
  /\ LaneCap \in Nat \ {0} /\ PerCap <= LaneCap /\ Modulus \in Nat \ {0}
  /\ 0 \in Indices /\ 0 \in Word
  /\ \A q \in Rings : /\ Cap(q) \in Nat \ {0} /\ 2 * Cap(q) < Modulus /\ Cap(q) < Modulus \div 2
                      /\ \E k \in Nat \ {0} : Modulus = Cap(q) * k
                      /\ \A s \in Starts : \E k \in Nat : s = Cap(q) * k
  <1>1. Shards \in Nat \ {0} /\ PerCap \in Nat \ {0} /\ Modulus \in Nat
    BY SizesAssumption
  <1>2. LaneCap \in Nat \ {0} /\ PerCap <= LaneCap
    BY <1>1 DEF LaneCap
  <1>3. 2 * LaneCap < Modulus /\ LaneCap < Modulus \div 2 /\ Modulus \div 2 \in Int
    <2>1. 2 \in Nat \ {0} /\ Modulus \in Int
      BY <1>1
    <2>2. /\ Modulus % 2 \in 0 .. 2 - 1 /\ Modulus \div 2 \in Int
          /\ Modulus = 2 * (Modulus \div 2) + (Modulus % 2)
      BY <2>1, Divided
    <2>3. LaneCap < Modulus \div 2
      BY SizesAssumption
    <2> QED
      BY <1>2, <2>2, <2>3
  <1>4. Modulus \in Nat \ {0} /\ 0 \in Indices /\ 0 \in Word
    <2>1. 0 <= Shards * PerCap - 1
      BY <1>2 DEF LaneCap
    <2> QED
      BY <1>1, <1>2, <1>3, <2>1 DEF Indices, Word, LaneCap
  <1>5. \E k \in Nat \ {0} : Modulus = LaneCap * k
    BY <1>1, SizesAssumption
  <1>6. \A s \in Starts : \E k \in Nat : s = LaneCap * k
    BY <1>1, SizesAssumption
  <1>7. \E k \in Nat \ {0} : Modulus = PerCap * k
    <2>1. PICK k \in Nat \ {0} : Modulus = (Shards * PerCap) * k
      BY <1>5 DEF LaneCap
    <2>2. (Shards * PerCap) * k = PerCap * (Shards * k) /\ Shards * k \in Nat \ {0}
      BY <1>1
    <2> QED
      BY <2>1, <2>2
  <1>8. \A s \in Starts : \E k \in Nat : s = PerCap * k
    <2> TAKE s \in Starts
    <2>1. PICK k \in Nat : s = (Shards * PerCap) * k
      BY <1>6 DEF LaneCap
    <2>2. (Shards * PerCap) * k = PerCap * (Shards * k) /\ Shards * k \in Nat
      BY <1>1
    <2> QED
      BY <2>1, <2>2
  <1>9. 2 * PerCap < Modulus /\ PerCap < Modulus \div 2
    BY <1>1, <1>2, <1>3
  <1> QED
    BY <1>1, <1>2, <1>3, <1>4, <1>5, <1>6, <1>7, <1>8, <1>9, Zenon DEF Cap

\* What wrapping does to a position: its cell stays, and sums may be wrapped late.
LEMMA Wrapped ==
  /\ \A a \in Int : Wrap(a) \in Word
  /\ \A a, b \in Int : Wrap(Wrap(a) + b) = Wrap(a + b)
  /\ \A a, b \in Int : -Modulus < a - b /\ a - b < Modulus /\ Wrap(a) = Wrap(b) => a = b
  /\ \A q \in Rings : \A a \in Int : Wrap(a) % Cap(q) = a % Cap(q)
  <1>1. Modulus \in Nat \ {0}
    BY Sizes
  <1>2. \A a \in Int : Wrap(a) \in Word
    BY <1>1, Divided DEF Wrap, Word
  <1>3. \A a, b \in Int : Wrap(Wrap(a) + b) = Wrap(a + b)
    BY <1>1, Added, Zenon DEF Wrap
  <1>4. \A a, b \in Int : -Modulus < a - b /\ a - b < Modulus /\ Wrap(a) = Wrap(b) => a = b
    BY <1>1, Apart, Zenon DEF Wrap
  <1>5. ASSUME NEW q \in Rings, NEW a \in Int PROVE Wrap(a) % Cap(q) = a % Cap(q)
    <2>1. Cap(q) \in Nat \ {0} /\ \E k \in Nat \ {0} : Modulus = Cap(q) * k
      BY Sizes
    <2>2. PICK N \in Nat \ {0} : N = Cap(q)
      BY <2>1
    <2>3. PICK k \in Nat \ {0} : Modulus = N * k
      BY <2>1, <2>2
    <2>4. (a % Modulus) % N = a % N
      BY <1>1, <2>3, Nested, Zenon
    <2> QED
      BY <2>2, <2>4 DEF Wrap
  <1> QED
    BY <1>2, <1>3, <1>4, <1>5

\* Every position has a cell; positions less than a turn apart have different
\* cells, and one turn apart the same.
LEMMA Cells ==
  ASSUME NEW q \in Rings
  PROVE  /\ \A a \in Int : a % Cap(q) \in 0 .. Cap(q) - 1
         /\ \A a, b \in Int : -Cap(q) < a - b /\ a - b < Cap(q) /\ a % Cap(q) = b % Cap(q) => a = b
         /\ \A a \in Int : (a - Cap(q)) % Cap(q) = a % Cap(q)
  <1>1. PICK N \in Nat \ {0} : N = Cap(q)
    BY Sizes
  <1>2. \A a \in Int : a % N \in 0 .. N - 1
    BY Divided
  <1>3. \A a, b \in Int : -N < a - b /\ a - b < N /\ a % N = b % N => a = b
    BY Apart, Zenon
  <1>4. \A a \in Int : (a - N) % N = a % N
    BY Around, Zenon
  <1> QED
    BY <1>1, <1>2, <1>3, <1>4


-----------------------------------------------------------------------------
(* The types. *)

\* The ring an index is released to.
LEMMA HomeInRings == \A i \in Indices : Home(i) \in PoolRings /\ Home(i) \in Rings
  <1> TAKE i \in Indices
  <1>1. i \in Int
    BY SizesAssumption DEF Indices
  <1>2. i % Shards \in 0 .. Shards - 1
    BY <1>1, Divided, SizesAssumption
  <1> QED
    BY <1>2 DEF Home, PoolRings, Rings

\* A ring operation works on one of the rings, and on one of its cells.
LEMMA InRings ==
  ASSUME TypeOK, CallInv, NEW t \in Actors, th[t].pc \in RingPcs
  PROVE  /\ th[t].q \in Rings /\ Cell(t) \in 0 .. Cap(th[t].q) - 1
         /\ th[t].q \in PoolRings \/ th[t].q \in LaneRings
  <1>1. Home(th[t].val) \in PoolRings
    BY HomeInRings DEF TypeOK, ThreadState
  <1>2. th[t].lane \in 0 .. Lanes - 1
    BY DEF TypeOK, ThreadState
  <1>3. <<"lane", th[t].lane>> \in LaneRings
    BY <1>2 DEF LaneRings
  <1>4. th[t].q \in PoolRings \/ th[t].q \in LaneRings
    BY <1>1, <1>3 DEF CallInv, CallOf
  <1>5. th[t].q \in Rings
    BY <1>4 DEF Rings
  <1>6. th[t].cur \in Int
    BY Sizes DEF TypeOK, ThreadState, Word
  <1> QED
    BY <1>4, <1>5, <1>6, Cells DEF Cell

\* Only the record of thread t changes: it becomes r.
Turns(t, r) ==
  /\ r \in ThreadState /\ th'[t] = r
  /\ th' \in [Actors -> ThreadState]
  /\ \A u \in Actors : u # t => th'[u] = th[u]

LEMMA Became ==
  ASSUME TypeOK, NEW t \in Actors, NEW r \in ThreadState, th' = [th EXCEPT ![t] = r]
  PROVE  Turns(t, r)
  BY DEF TypeOK, Turns

\* A thread at rest has its type, whatever lane it prefers.
LEMMA Rested ==
  /\ Rest \in ThreadState
  /\ \A l \in 0 .. Lanes - 1 : [Rest EXCEPT !.lane = l] \in ThreadState
  <1>1. /\ 0 \in Word /\ 0 \in Int /\ 0 \in Indices /\ 0 \in Nat /\ 0 \in 0 .. Lanes - 1
        /\ "rest" \in Pcs /\ <<>> \in Seq(Indices) /\ {} \subseteq Indices
    BY Sizes, SizesAssumption DEF Pcs, Word, Indices
  <1>2. Rest \in ThreadState
    BY <1>1, Zenon DEF Rest, ThreadState
  <1>3. ASSUME NEW l \in 0 .. Lanes - 1 PROVE [Rest EXCEPT !.lane = l] \in ThreadState
    BY <1>2, Zenon DEF ThreadState
  <1> QED
    BY <1>2, <1>3

\* What each action makes of the record of its thread.
LEMMA LoadIs ==
  ASSUME TypeOK, CallInv, NEW t \in Actors, Load(t)
  PROVE  /\ th[t].pc = "load" /\ th[t].q \in Rings
         /\ Turns(t, [th[t] EXCEPT !.cur = Cursor(t), !.at = Turn(t), !.pc = "seq"])
  <1>1. th[t].q \in Rings /\ th[t].pc = "load"
    BY InRings DEF Load, RingPcs
  <1>2. Cursor(t) \in Word /\ Turn(t) \in Int /\ th[t] \in ThreadState
    BY <1>1 DEF TypeOK, Cursor, Turn
  <1>3. "seq" \in Pcs
    BY DEF Pcs, RingPcs
  <1>4. [th[t] EXCEPT !.cur = Cursor(t), !.at = Turn(t), !.pc = "seq"] \in ThreadState
    BY <1>2, <1>3, Zenon DEF ThreadState
  <1> QED
    BY <1>1, <1>4, Became, Zenon DEF Load

LEMMA LoadSequenceIs ==
  ASSUME TypeOK, CallInv, NEW t \in Actors, LoadSequence(t)
  PROVE  /\ th[t].pc = "seq" /\ th[t].q \in Rings /\ Cell(t) \in 0 .. Cap(th[t].q) - 1
         /\ LET d == Diff(ring[th[t].q].seq[Cell(t)], Expected(th[t].op, th[t].cur))
            IN Turns(t, [th[t] EXCEPT !.pc = IF d = 0 THEN "cas"
                                             ELSE IF d < 0 /\ th[t].op # "release" THEN th[t].no ELSE "load"])
  <1> DEFINE d == Diff(ring[th[t].q].seq[Cell(t)], Expected(th[t].op, th[t].cur))
             pc == IF d = 0 THEN "cas" ELSE IF d < 0 /\ th[t].op # "release" THEN th[t].no ELSE "load"
  <1>1. th[t].q \in Rings /\ th[t].pc = "seq" /\ Cell(t) \in 0 .. Cap(th[t].q) - 1
    BY InRings DEF LoadSequence, RingPcs
  <1>2. th[t] \in ThreadState /\ th[t].no \in Pcs
    BY DEF TypeOK, ThreadState
  <1>3. pc \in Pcs
    BY <1>2 DEF Pcs, RingPcs
  <1>4. th' = [th EXCEPT ![t] = [th[t] EXCEPT !.pc = pc]]
    BY DEF LoadSequence
  <1> HIDE DEF pc
  <1>5. [th[t] EXCEPT !.pc = pc] \in ThreadState
    BY <1>2, <1>3, Zenon DEF ThreadState
  <1>6. Turns(t, [th[t] EXCEPT !.pc = pc])
    BY <1>4, <1>5, Became, Zenon
  <1> QED
    BY <1>1, <1>6, Zenon DEF pc

LEMMA AdvanceIs ==
  ASSUME TypeOK, CallInv, NEW t \in Actors, Advance(t)
  PROVE  /\ th[t].pc = "cas" /\ th[t].q \in Rings
         /\ Claims(t) => Turns(t, [th[t] EXCEPT !.pc = "publish"])
         /\ ~Claims(t) => Turns(t, [th[t] EXCEPT !.cur = Cursor(t), !.at = Turn(t), !.pc = "seq"])
  <1>1. th[t].q \in Rings /\ th[t].pc = "cas"
    BY InRings DEF Advance, RingPcs
  <1>2. Cursor(t) \in Word /\ Turn(t) \in Int /\ th[t] \in ThreadState
    BY <1>1 DEF TypeOK, Cursor, Turn
  <1>3. "seq" \in Pcs /\ "publish" \in Pcs
    BY DEF Pcs, RingPcs
  <1>4. [th[t] EXCEPT !.cur = Cursor(t), !.at = Turn(t), !.pc = "seq"] \in ThreadState
    BY <1>2, <1>3, Zenon DEF ThreadState
  <1>5. [th[t] EXCEPT !.pc = "publish"] \in ThreadState
    BY <1>2, <1>3, Zenon DEF ThreadState
  <1>6. CASE Claims(t)
    BY <1>1, <1>5, <1>6, Became, Zenon DEF Advance
  <1>7. CASE ~Claims(t)
    BY <1>1, <1>4, <1>7, Became, Zenon DEF Advance
  <1> QED
    BY <1>6, <1>7

LEMMA PublishIs ==
  ASSUME TypeOK, CallInv, NEW t \in Actors, Publish(t)
  PROVE  /\ th[t].pc = "publish" /\ th[t].q \in Rings /\ Cell(t) \in 0 .. Cap(th[t].q) - 1
         /\ ring[th[t].q].val[Cell(t)] \in Indices
         /\ Takes(th[t].op) =>
              Turns(t, [th[t] EXCEPT !.pc = th[t].ok, !.cur = 0, !.at = 0, !.val = ring[th[t].q].val[Cell(t)],
                                     !.mine = th[t].mine \cup {ring[th[t].q].val[Cell(t)]}])
         /\ ~Takes(th[t].op) =>
              Turns(t, [th[t] EXCEPT !.pc = th[t].ok, !.cur = 0, !.at = 0, !.val = 0, !.mine = th[t].mine \ {th[t].val}])
  <1>1. th[t].q \in Rings /\ Cell(t) \in 0 .. Cap(th[t].q) - 1 /\ th[t].pc = "publish"
    BY InRings DEF Publish, RingPcs
  <1>2. th[t] \in ThreadState /\ th[t].ok \in Pcs /\ th[t].mine \subseteq Indices
    BY DEF TypeOK, ThreadState
  <1>3. PICK v \in Indices : v = ring[th[t].q].val[Cell(t)]
    BY <1>1, Zenon DEF TypeOK
  <1>4. th[t].mine \cup {v} \subseteq Indices /\ th[t].mine \ {th[t].val} \subseteq Indices
    BY <1>2
  <1>5. 0 \in Word /\ 0 \in Int /\ 0 \in Indices
    BY Sizes DEF Word
  <1>6. [th[t] EXCEPT !.pc = th[t].ok, !.cur = 0, !.at = 0, !.val = v, !.mine = th[t].mine \cup {v}] \in ThreadState
    BY <1>2, <1>4, <1>5, Zenon DEF ThreadState
  <1>7. [th[t] EXCEPT !.pc = th[t].ok, !.cur = 0, !.at = 0, !.val = 0, !.mine = th[t].mine \ {th[t].val}] \in ThreadState
    BY <1>2, <1>4, <1>5, Zenon DEF ThreadState
  <1>8. CASE Takes(th[t].op)
    <2>1. th' = [th EXCEPT ![t] = [th[t] EXCEPT !.pc = th[t].ok, !.cur = 0, !.at = 0, !.val = v,
                                                !.mine = th[t].mine \cup {v}]]
      BY <1>3, <1>8, Zenon DEF Publish
    <2>2. Turns(t, [th[t] EXCEPT !.pc = th[t].ok, !.cur = 0, !.at = 0, !.val = v, !.mine = th[t].mine \cup {v}])
      BY <1>6, <2>1, Became, Zenon
    <2> QED
      BY <1>1, <1>3, <1>8, <2>2, Zenon
  <1>9. CASE ~Takes(th[t].op)
    <2>1. th' = [th EXCEPT ![t] = [th[t] EXCEPT !.pc = th[t].ok, !.cur = 0, !.at = 0, !.val = 0,
                                                !.mine = th[t].mine \ {th[t].val}]]
      BY <1>9, Zenon DEF Publish
    <2> QED
      BY <1>1, <1>3, <1>7, <1>9, <2>1, Became, Zenon
  <1> QED
    BY <1>8, <1>9


LEMMA HopIs ==
  ASSUME TypeOK, CallInv, NEW t \in Actors, Hop(t)
  PROVE  /\ th[t].pc = "hop"
         /\ \/ \E q \in PoolRings, h \in Nat :
                 Turns(t, [th[t] EXCEPT !.pc = "load", !.hops = h, !.q = q]) /\ gate' = gate
            \/ /\ Turns(t, [Rest EXCEPT !.lane = th[t].lane])
               /\ gate' = IF gate = t THEN Nobody ELSE gate
  <1>1. th[t].pc = "hop" /\ th[t] \in ThreadState /\ th[t].hops \in Nat /\ th[t].lane \in 0 .. Lanes - 1
    BY DEF Hop, TypeOK, ThreadState
  <1>2. th[t].q \in PoolRings
    BY <1>1 DEF CallInv, CallOf, RingPcs
  <1>3. PICK q \in PoolRings : q = <<"pool", (th[t].q[2] + 1) % Shards>>
    <2>1. th[t].q[2] + 1 \in Int
      BY <1>2, SizesAssumption DEF PoolRings
    <2>2. (th[t].q[2] + 1) % Shards \in 0 .. Shards - 1
      BY <2>1, Divided, SizesAssumption, Zenon
    <2> QED
      BY <2>2, Zenon DEF PoolRings
  <1>4. CASE th[t].hops > 0
    <2>1. th[t].hops - 1 \in Nat
      BY <1>1, <1>4
    <2>2. q \in Rings /\ "load" \in Pcs
      BY DEF Rings, Pcs, RingPcs
    <2>3. [th[t] EXCEPT !.pc = "load", !.hops = th[t].hops - 1, !.q = q] \in ThreadState
      BY <1>1, <2>1, <2>2, Zenon DEF ThreadState
    <2>4. th' = [th EXCEPT ![t] = [th[t] EXCEPT !.pc = "load", !.hops = th[t].hops - 1, !.q = q]] /\ gate' = gate
      BY <1>3, <1>4, Zenon DEF Hop
    <2>5. Turns(t, [th[t] EXCEPT !.pc = "load", !.hops = th[t].hops - 1, !.q = q])
      BY <2>3, <2>4, Became, Zenon
    <2> QED
      BY <1>1, <2>1, <2>4, <2>5, Zenon
  <1>5. CASE ~(th[t].hops > 0)
    BY <1>1, <1>5, Rested, Became, Zenon DEF Hop
  <1> QED
    BY <1>4, <1>5, Zenon

\* A thread begins to acquire an index.
LEMMA AcquiringIs ==
  ASSUME TypeOK, NEW t \in Actors, NEW hint \in 0 .. Shards - 1, NEW ok \in Pcs,
         th' = [th EXCEPT ![t] = Acquiring(@, hint, ok)]
  PROVE  \E q \in PoolRings, h \in Nat :
           Turns(t, [th[t] EXCEPT !.pc = "load", !.op = "acquire", !.q = q, !.hops = h, !.ok = ok, !.no = "hop"])
  <1>1. PICK q \in PoolRings : q = <<"pool", hint>>
    BY Zenon DEF PoolRings
  <1>2. Shards - 1 \in Nat /\ q \in Rings /\ "load" \in Pcs /\ "hop" \in Pcs /\ th[t] \in ThreadState
    BY SizesAssumption DEF Rings, Pcs, RingPcs, TypeOK
  <1> DEFINE r == [th[t] EXCEPT !.pc = "load", !.op = "acquire", !.q = q, !.hops = Shards - 1, !.ok = ok, !.no = "hop"]
  <1>3. r \in ThreadState
    BY <1>2, Zenon DEF ThreadState
  <1>4. Acquiring(th[t], hint, ok) = r
    BY <1>1, <1>2, Zenon DEF Acquiring, Call, ThreadState
  <1>5. th' = [th EXCEPT ![t] = r]
    BY <1>4, Zenon
  <1>6. Turns(t, r)
    BY <1>3, <1>5, Became, Zenon
  <1> QED
    BY <1>2, <1>6, Zenon

\* A thread begins to release the index i, of those it has.
LEMMA ReleasingIs ==
  ASSUME TypeOK, NEW t \in Actors, NEW i \in Indices, NEW ok \in Pcs, NEW got \in Seq(Indices)
  PROVE  LET r == [th[t] EXCEPT !.pc = "load", !.op = "release", !.q = Home(i), !.val = i, !.got = got,
                                !.ok = ok, !.no = "load"]
         IN /\ th[t].got = got => Releasing(th[t], i, ok) = r
            /\ th' = [th EXCEPT ![t] = r] => Turns(t, r)
  <1> DEFINE r == [th[t] EXCEPT !.pc = "load", !.op = "release", !.q = Home(i), !.val = i, !.got = got,
                                !.ok = ok, !.no = "load"]
  <1>1. Home(i) \in Rings /\ "load" \in Pcs /\ th[t] \in ThreadState
    BY HomeInRings DEF Pcs, RingPcs, TypeOK
  <1>2. r \in ThreadState
    BY <1>1, Zenon DEF ThreadState
  <1>3. th[t].got = got => Releasing(th[t], i, ok) = r
    BY <1>1, Zenon DEF Releasing, Call, ThreadState
  <1> QED
    BY <1>2, <1>3, Became, Zenon


LEMMA ArriveIs ==
  ASSUME TypeOK, NEW t \in Actors, Arrive(t)
  PROVE  /\ th[t].pc = "arrived"
         /\ \/ Turns(t, [th[t] EXCEPT !.pc = "drop"]) /\ UNCHANGED <<packet, sent>>
            \/ \E p \in Peers :
                 /\ Turns(t, [th[t] EXCEPT !.pc = "load", !.op = "push", !.q = <<"lane", PeerLane[p]>>, !.peer = p,
                                           !.ok = "pin", !.no = "drop"])
                 /\ <<"lane", PeerLane[p]>> \in LaneRings
                 /\ sent' = [sent EXCEPT ![p] = @ + 1]
                 /\ packet' = [packet EXCEPT ![th[t].val] = [peer |-> p, num |-> sent[p] + 1]]
  <1>1. th[t].pc = "arrived" /\ th[t] \in ThreadState /\ "load" \in Pcs /\ "drop" \in Pcs /\ "pin" \in Pcs
    BY DEF Arrive, TypeOK, Pcs, RingPcs
  <1>2. CASE th' = [th EXCEPT ![t] = [th[t] EXCEPT !.pc = "drop"]] /\ UNCHANGED <<packet, sent>>
    <2>1. [th[t] EXCEPT !.pc = "drop"] \in ThreadState
      BY <1>1, Zenon DEF ThreadState
    <2>2. Turns(t, [th[t] EXCEPT !.pc = "drop"])
      BY <1>2, <2>1, Became, Zenon
    <2> QED
      BY <1>1, <1>2, <2>2, Zenon
  <1>3. ASSUME NEW p \in Peers, sent' = [sent EXCEPT ![p] = @ + 1],
               packet' = [packet EXCEPT ![th[t].val] = [peer |-> p, num |-> sent[p] + 1]],
               th' = [th EXCEPT ![t] = Call([th[t] EXCEPT !.peer = p], "push", <<"lane", PeerLane[p]>>, "pin", "drop")]
        PROVE  LET q == <<"lane", PeerLane[p]>>
               IN /\ q \in LaneRings
                  /\ Turns(t, [th[t] EXCEPT !.pc = "load", !.op = "push", !.q = q, !.peer = p, !.ok = "pin", !.no = "drop"])
    <2>1. PICK q \in LaneRings : q = <<"lane", PeerLane[p]>>
      BY ActorsAssumption, Zenon DEF LaneRings
    <2> DEFINE r == [th[t] EXCEPT !.pc = "load", !.op = "push", !.q = q, !.peer = p, !.ok = "pin", !.no = "drop"]
    <2>2. q \in Rings /\ p \in Peers \cup {Nobody}
      BY DEF Rings
    <2>3. r \in ThreadState
      BY <1>1, <2>2, Zenon DEF ThreadState
    <2>4. Call([th[t] EXCEPT !.peer = p], "push", q, "pin", "drop") = r
      BY <1>1, Zenon DEF Call, ThreadState
    <2>5. Turns(t, r)
      BY <1>3, <2>1, <2>3, <2>4, Became, Zenon
    <2> QED
      BY <2>1, <2>5, Zenon
  <1> QED
    BY <1>1, <1>2, <1>3, Zenon DEF Arrive

LEMMA DropIs ==
  ASSUME TypeOK, NEW t \in Actors, Drop(t)
  PROVE  /\ th[t].pc = "drop"
         /\ Turns(t, [th[t] EXCEPT !.pc = "load", !.op = "release", !.q = Home(th[t].val), !.val = th[t].val,
                                   !.got = th[t].got, !.ok = "pass", !.no = "load"])
  <1>1. th[t].pc = "drop" /\ th[t].val \in Indices /\ th[t].got \in Seq(Indices) /\ "pass" \in Pcs
    BY DEF Drop, TypeOK, ThreadState, Pcs
  <1> QED
    BY <1>1, ReleasingIs, Zenon DEF Drop

LEMMA ReturnIs ==
  ASSUME TypeOK, NEW t \in Actors, Return(t)
  PROVE  /\ th[t].pc = "borrowed"
         /\ Turns(t, [th[t] EXCEPT !.pc = "load", !.op = "release", !.q = Home(th[t].val), !.val = th[t].val,
                                   !.got = th[t].got, !.ok = "give", !.no = "load"])
  <1>1. th[t].pc = "borrowed" /\ th[t].val \in Indices /\ th[t].got \in Seq(Indices) /\ "give" \in Pcs
    BY DEF Return, TypeOK, ThreadState, Pcs
  <1> QED
    BY <1>1, ReleasingIs, Zenon DEF Return

LEMMA GiveIs ==
  ASSUME TypeOK, NEW t \in Actors, Give(t)
  PROVE  /\ th[t].pc = "give"
         /\ \/ th[t].got = <<>> /\ Turns(t, [Rest EXCEPT !.lane = th[t].lane])
            \/ /\ th[t].got # <<>>
               /\ Head(th[t].got) \in Indices
               /\ Turns(t, [th[t] EXCEPT !.pc = "load", !.op = "release", !.q = Home(Head(th[t].got)),
                                         !.val = Head(th[t].got), !.got = Tail(th[t].got), !.ok = "give", !.no = "load"])
  <1>1. th[t].pc = "give" /\ th[t].got \in Seq(Indices) /\ th[t].lane \in 0 .. Lanes - 1 /\ "give" \in Pcs
    BY DEF Give, TypeOK, ThreadState, Pcs
  <1>2. CASE th[t].got = <<>>
    BY <1>1, <1>2, Rested, Became, Zenon DEF Give
  <1>3. CASE th[t].got # <<>>
    <2>1. Head(th[t].got) \in Indices /\ Tail(th[t].got) \in Seq(Indices)
      BY <1>1, <1>3
    <2>2. PICK i \in Indices, g \in Seq(Indices) : i = Head(th[t].got) /\ g = Tail(th[t].got)
      BY <2>1, Zenon
    <2> DEFINE r == [th[t] EXCEPT !.pc = "load", !.op = "release", !.q = Home(i), !.val = i, !.got = g, !.ok = "give",
                                  !.no = "load"]
    <2>3. th' = [th EXCEPT ![t] = [Releasing(th[t], i, "give") EXCEPT !.got = g]]
      BY <1>3, <2>2, Zenon DEF Give
    <2>4. [Releasing(th[t], i, "give") EXCEPT !.got = g] = r
      <3>1. th[t] \in ThreadState
        BY DEF TypeOK
      <3> QED
        BY <3>1, Zenon DEF Releasing, Call, ThreadState
    <2>5. th' = [th EXCEPT ![t] = r] => Turns(t, r)
      BY <1>1, ReleasingIs, Zenon
    <2> HIDE DEF r
    <2>6. Turns(t, r)
      BY <2>3, <2>4, <2>5, Zenon
    <2> QED
      BY <1>1, <1>3, <2>2, <2>6, Zenon DEF r
  <1> QED
    BY <1>2, <1>3

LEMMA PinOneIs ==
  ASSUME TypeOK, NEW t \in Actors, PinOne(t)
  PROVE  th[t].pc = "pin" /\ Turns(t, [th[t] EXCEPT !.pc = "pass"])
  <1>1. th[t].pc = "pin" /\ th[t] \in ThreadState /\ "pass" \in Pcs
    BY DEF PinOne, TypeOK, Pcs
  <1>2. [th[t] EXCEPT !.pc = "pass"] \in ThreadState
    BY <1>1, Zenon DEF ThreadState
  <1> QED
    BY <1>1, <1>2, Became, Zenon DEF PinOne

LEMMA UpdateIs ==
  ASSUME TypeOK, NEW t \in Actors, Update(t)
  PROVE  /\ th[t].pc = "rest" /\ gate = Nobody /\ gate' = t /\ t \in Threads
         /\ \E q \in PoolRings, h \in Nat :
              Turns(t, [th[t] EXCEPT !.pc = "load", !.op = "acquire", !.q = q, !.hops = h, !.ok = "arrived", !.no = "hop"])
  <1>1. "arrived" \in Pcs
    BY DEF Pcs
  <1> QED
    BY <1>1, AcquiringIs, Zenon DEF Update

LEMMA BorrowIs ==
  ASSUME TypeOK, NEW t \in Actors, Borrow(t)
  PROVE  /\ th[t].pc = "rest"
         /\ \E q \in PoolRings, h \in Nat :
              Turns(t, [th[t] EXCEPT !.pc = "load", !.op = "acquire", !.q = q, !.hops = h, !.ok = "borrowed", !.no = "hop"])
  <1>1. "borrowed" \in Pcs
    BY DEF Pcs
  <1> QED
    BY <1>1, AcquiringIs, Zenon DEF Borrow


LEMMA PassIs ==
  ASSUME TypeOK, NEW t \in Actors, Pass(t)
  PROVE  /\ th[t].pc = "pass"
         /\ \/ /\ gate' = gate
               /\ \E q \in PoolRings, h \in Nat :
                    Turns(t, [th[t] EXCEPT !.pc = "load", !.op = "acquire", !.q = q, !.hops = h, !.ok = "arrived",
                                           !.no = "hop"])
            \/ gate' = Nobody /\ Turns(t, [Rest EXCEPT !.lane = th[t].lane])
  <1>1. "arrived" \in Pcs /\ th[t].pc = "pass" /\ th[t].lane \in 0 .. Lanes - 1
    BY DEF Pcs, Pass, TypeOK, ThreadState
  <1>2. CASE \E hint \in 0 .. Shards - 1 : th' = [th EXCEPT ![t] = Acquiring(@, hint, "arrived")] /\ UNCHANGED gate
    BY <1>1, <1>2, AcquiringIs, Zenon
  <1>3. CASE th' = [th EXCEPT ![t] = [Rest EXCEPT !.lane = th[t].lane]] /\ gate' = Nobody
    BY <1>1, <1>3, Rested, Became, Zenon
  <1> QED
    BY <1>2, <1>3, Zenon DEF Pass

LEMMA PollIs ==
  ASSUME TypeOK, NEW t \in Actors, Poll(t)
  PROVE  /\ th[t].pc = "rest" /\ t \in Threads
         /\ Turns(t, [th[t] EXCEPT !.pc = "claim", !.tries = Lanes])
  <1>1. th[t].pc = "rest" /\ th[t] \in ThreadState /\ "claim" \in Pcs /\ Lanes \in Nat
    BY SizesAssumption DEF Poll, TypeOK, Pcs
  <1>2. [th[t] EXCEPT !.pc = "claim", !.tries = Lanes] \in ThreadState
    BY <1>1, Zenon DEF ThreadState
  <1> QED
    BY <1>1, <1>2, Became, Zenon DEF Poll

LEMMA ClaimLaneIs ==
  ASSUME TypeOK, NEW t \in Actors, ClaimLane(t)
  PROVE  /\ th[t].pc = "claim" /\ th[t].lane \in 0 .. Lanes - 1
         /\ \/ /\ busy[th[t].lane] = Nobody /\ busy' = [busy EXCEPT ![th[t].lane] = t]
               /\ <<"lane", th[t].lane>> \in LaneRings
               /\ Turns(t, [th[t] EXCEPT !.pc = "load", !.op = "pop", !.q = <<"lane", th[t].lane>>, !.tries = 0,
                                         !.ok = "popped", !.no = "cursor"])
            \/ /\ busy' = busy
               /\ \E n \in Nat, l \in 0 .. Lanes - 1 : Turns(t, [th[t] EXCEPT !.tries = n, !.lane = l])
            \/ busy' = busy /\ Turns(t, Rest)
  <1>1. /\ th[t].pc = "claim" /\ th[t].lane \in 0 .. Lanes - 1 /\ th[t] \in ThreadState /\ th[t].tries \in Nat
        /\ "load" \in Pcs /\ "popped" \in Pcs /\ "cursor" \in Pcs /\ 0 \in Nat
    BY DEF ClaimLane, TypeOK, ThreadState, Pcs, RingPcs
  <1>2. PICK q \in LaneRings : q = <<"lane", th[t].lane>>
    BY <1>1, Zenon DEF LaneRings
  <1>3. CASE /\ LaneFree(th[t].lane) /\ busy' = [busy EXCEPT ![th[t].lane] = t]
             /\ th' = [th EXCEPT ![t] = Call([th[t] EXCEPT !.tries = 0], "pop", <<"lane", th[t].lane>>, "popped", "cursor")]
    <2> DEFINE r == [th[t] EXCEPT !.pc = "load", !.op = "pop", !.q = q, !.tries = 0, !.ok = "popped", !.no = "cursor"]
    <2>1. q \in Rings
      BY DEF Rings
    <2>2. r \in ThreadState
      BY <1>1, <2>1, Zenon DEF ThreadState
    <2>3. Call([th[t] EXCEPT !.tries = 0], "pop", q, "popped", "cursor") = r
      BY <1>1, Zenon DEF Call, ThreadState
    <2>4. Turns(t, r)
      BY <1>2, <1>3, <2>2, <2>3, Became, Zenon
    <2> QED
      BY <1>1, <1>2, <1>3, <2>4, Zenon DEF LaneFree
  <1>4. CASE /\ th[t].tries > 0 /\ busy' = busy
             /\ th' = [th EXCEPT ![t] = [th[t] EXCEPT !.tries = th[t].tries - 1, !.lane = (th[t].lane + 1) % Lanes]]
    <2>1. th[t].tries - 1 \in Nat
      BY <1>1, <1>4
    <2>2. (th[t].lane + 1) % Lanes \in 0 .. Lanes - 1
      <3>1. th[t].lane + 1 \in Int
        BY <1>1
      <3> QED
        BY <3>1, SizesAssumption, Divided, Zenon
    <2>3. [th[t] EXCEPT !.tries = th[t].tries - 1, !.lane = (th[t].lane + 1) % Lanes] \in ThreadState
      BY <1>1, <2>1, <2>2, Zenon DEF ThreadState
    <2>4. Turns(t, [th[t] EXCEPT !.tries = th[t].tries - 1, !.lane = (th[t].lane + 1) % Lanes])
      BY <1>4, <2>3, Became, Zenon
    <2> QED
      BY <1>1, <1>4, <2>1, <2>2, <2>4, Zenon
  <1>5. CASE th' = [th EXCEPT ![t] = Rest] /\ busy' = busy
    BY <1>1, <1>5, Rested, Became, Zenon
  <1> QED
    BY <1>3, <1>4, <1>5, Zenon DEF ClaimLane

LEMMA PoppedIs ==
  ASSUME TypeOK, CallInv, NEW t \in Actors, Popped(t)
  PROVE  /\ th[t].pc = "popped" /\ th[t].q \in LaneRings
         /\ \/ Turns(t, [th[t] EXCEPT !.pc = "load", !.op = "pop", !.got = Append(th[t].got, th[t].val), !.ok = "popped",
                                      !.no = "cursor"])
            \/ Turns(t, [th[t] EXCEPT !.pc = "cursor", !.got = Append(th[t].got, th[t].val)])
  <1>1. /\ th[t].pc = "popped" /\ th[t] \in ThreadState /\ th[t].lane \in 0 .. Lanes - 1
        /\ th[t].got \in Seq(Indices) /\ th[t].val \in Indices
        /\ "load" \in Pcs /\ "popped" \in Pcs /\ "cursor" \in Pcs
    BY DEF Popped, TypeOK, ThreadState, Pcs, RingPcs
  <1>2. th[t].q \in LaneRings /\ th[t].q \in Rings
    <2>1. th[t].q = <<"lane", th[t].lane>>
      BY <1>1 DEF CallInv, CallOf
    <2> QED
      BY <1>1, <2>1 DEF Rings, LaneRings
  <1>3. Append(th[t].got, th[t].val) \in Seq(Indices)
    BY <1>1
  <1> DEFINE r == [th[t] EXCEPT !.got = Append(th[t].got, th[t].val)]
             a == [th[t] EXCEPT !.pc = "load", !.op = "pop", !.got = Append(th[t].got, th[t].val), !.ok = "popped",
                                !.no = "cursor"]
             b == [th[t] EXCEPT !.pc = "cursor", !.got = Append(th[t].got, th[t].val)]
  <1>4. a \in ThreadState
    BY <1>1, <1>3, Zenon DEF ThreadState
  <1>5. b \in ThreadState
    BY <1>1, <1>3, Zenon DEF ThreadState
  <1>6. Call(r, "pop", th[t].q, "popped", "cursor") = a
    BY <1>1, Zenon DEF Call, ThreadState
  <1>7. [r EXCEPT !.pc = "cursor"] = b
    BY <1>1, Zenon DEF ThreadState
  <1>8. th' = [th EXCEPT ![t] = IF Len(r.got) < PollMax THEN Call(r, "pop", th[t].q, "popped", "cursor")
                                                        ELSE [r EXCEPT !.pc = "cursor"]]
    BY Zenon DEF Popped
  <1> HIDE DEF a, b, r
  <1>9. CASE Len(r.got) < PollMax
    <2>1. Turns(t, a)
      BY <1>4, <1>6, <1>8, <1>9, Became, Zenon
    <2> QED
      BY <1>1, <1>2, <2>1, Zenon DEF a
  <1>10. CASE ~(Len(r.got) < PollMax)
    <2>1. Turns(t, b)
      BY <1>5, <1>7, <1>8, <1>10, Became, Zenon
    <2> QED
      BY <1>1, <1>2, <2>1, Zenon DEF b
  <1> QED
    BY <1>9, <1>10

LEMMA ReadNextIs ==
  ASSUME TypeOK, NEW t \in Actors, ReadNext(t)
  PROVE  /\ th[t].pc = "cursor" /\ th[t].seen + 1 \in 1 .. Len(th[t].got)
         /\ th[t].got[th[t].seen + 1] \in Indices
         /\ Turns(t, [th[t] EXCEPT !.seen = th[t].seen + 1])
  <1>1. /\ th[t].pc = "cursor" /\ th[t] \in ThreadState /\ th[t].seen \in Nat /\ th[t].seen < Len(th[t].got)
        /\ th[t].got \in Seq(Indices)
    BY DEF ReadNext, TypeOK, ThreadState
  <1>2. th[t].seen + 1 \in 1 .. Len(th[t].got) /\ th[t].seen + 1 \in Nat
    BY <1>1
  <1>3. th[t].got[th[t].seen + 1] \in Indices
    BY <1>1, <1>2
  <1>4. [th[t] EXCEPT !.seen = th[t].seen + 1] \in ThreadState
    BY <1>1, <1>2, Zenon DEF ThreadState
  <1> QED
    BY <1>1, <1>2, <1>3, <1>4, Became, Zenon DEF ReadNext

LEMMA EndCursorIs ==
  ASSUME TypeOK, NEW t \in Actors, EndCursor(t)
  PROVE  /\ th[t].pc = "cursor" /\ th[t].lane \in 0 .. Lanes - 1
         /\ Turns(t, [th[t] EXCEPT !.pc = "give"])
  <1>1. th[t].pc = "cursor" /\ th[t] \in ThreadState /\ "give" \in Pcs /\ th[t].lane \in 0 .. Lanes - 1
    BY DEF EndCursor, TypeOK, ThreadState, Pcs
  <1>2. [th[t] EXCEPT !.pc = "give"] \in ThreadState
    BY <1>1, Zenon DEF ThreadState
  <1> QED
    BY <1>1, <1>2, Became, Zenon DEF EndCursor


\* Types of the rings and of the threads, the parts that are not plain.
RingType == [q \in Rings |-> [in : Word, out : Word, puts : Int, takes : Int,
                              seq : [0 .. Cap(q) - 1 -> Word], val : [0 .. Cap(q) - 1 -> Indices]]]

\* Only ring q changes: it becomes x.
Holds(q, x) ==
  /\ x \in RingType[q] /\ ring'[q] = x
  /\ DOMAIN ring' = Rings
  /\ \A w \in Rings : w # q => ring'[w] = ring[w]
  /\ \A w \in Rings : ring'[w] \in RingType[w]

LEMMA HeldRing ==
  ASSUME TypeOK, NEW q \in Rings, NEW x \in RingType[q], ring' = [ring EXCEPT ![q] = x]
  PROVE  Holds(q, x)
  BY DEF TypeOK, Holds, RingType

\* What a compare-exchange makes of a ring.
LEMMA AdvanceMakes ==
  ASSUME TypeOK, CallInv, NEW t \in Actors, Advance(t)
  PROVE  LET q == th[t].q
         IN /\ Claims(t) /\ Takes(th[t].op) =>
                 Holds(q, [ring[q] EXCEPT !.out = Wrap(ring[q].out + 1), !.takes = ring[q].takes + 1])
            /\ Claims(t) /\ ~Takes(th[t].op) =>
                 Holds(q, [ring[q] EXCEPT !.in = Wrap(ring[q].in + 1), !.puts = ring[q].puts + 1])
            /\ ~Claims(t) => ring' = ring
  <1> DEFINE q == th[t].q
             x == [ring[q] EXCEPT !.out = Wrap(ring[q].out + 1), !.takes = ring[q].takes + 1]
             y == [ring[q] EXCEPT !.in = Wrap(ring[q].in + 1), !.puts = ring[q].puts + 1]
  <1>1. q \in Rings
    BY AdvanceIs, Zenon
  <1>2. /\ ring[q] \in RingType[q] /\ ring[q].in \in Word /\ ring[q].out \in Word
        /\ ring[q].puts \in Int /\ ring[q].takes \in Int
    BY <1>1, Zenon DEF TypeOK, RingType
  <1>3. Wrap(ring[q].out + 1) \in Word /\ Wrap(ring[q].in + 1) \in Word
    <2>1. ring[q].out + 1 \in Int /\ ring[q].in + 1 \in Int
      BY <1>2, Sizes DEF Word
    <2> QED
      BY <2>1, Wrapped, Zenon
  <1>4. ring[q].puts + 1 \in Int /\ ring[q].takes + 1 \in Int
    BY <1>2
  <1>5. x \in RingType[q] /\ y \in RingType[q]
    BY <1>1, <1>2, <1>3, <1>4, Zenon DEF RingType
  <1>6. CASE Claims(t) /\ Takes(th[t].op)
    <2>1. ring' = [ring EXCEPT ![q] = x]
      BY <1>6, Zenon DEF Advance, Cursor, Turn
    <2> QED
      BY <1>1, <1>5, <1>6, <2>1, HeldRing, Zenon
  <1>7. CASE Claims(t) /\ ~Takes(th[t].op)
    <2>1. ring' = [ring EXCEPT ![q] = y]
      BY <1>7, Zenon DEF Advance, Cursor, Turn
    <2> QED
      BY <1>1, <1>5, <1>7, <2>1, HeldRing, Zenon
  <1>8. CASE ~Claims(t)
    BY <1>8, Zenon DEF Advance
  <1> QED
    BY <1>6, <1>7, <1>8, Zenon

\* What the store of a sequence makes of a ring.
LEMMA PublishMakes ==
  ASSUME TypeOK, CallInv, NEW t \in Actors, Publish(t)
  PROVE  LET q == th[t].q
             s == Published(th[t].op, th[t].cur, Cap(q))
         IN /\ s \in Word
            /\ Takes(th[t].op) => Holds(q, [ring[q] EXCEPT !.seq = [ring[q].seq EXCEPT ![Cell(t)] = s]])
            /\ ~Takes(th[t].op) => Holds(q, [ring[q] EXCEPT !.seq = [ring[q].seq EXCEPT ![Cell(t)] = s],
                                                            !.val = [ring[q].val EXCEPT ![Cell(t)] = th[t].val]])
  <1> DEFINE q == th[t].q
             s == Published(th[t].op, th[t].cur, Cap(q))
             x == [ring[q] EXCEPT !.seq = [ring[q].seq EXCEPT ![Cell(t)] = s]]
             y == [ring[q] EXCEPT !.seq = [ring[q].seq EXCEPT ![Cell(t)] = s],
                                  !.val = [ring[q].val EXCEPT ![Cell(t)] = th[t].val]]
  <1>1. q \in Rings /\ Cell(t) \in 0 .. Cap(q) - 1
    BY PublishIs, Zenon
  <1>2. th[t].cur \in Int /\ th[t].val \in Indices
    BY Sizes DEF TypeOK, ThreadState, Word
  <1>3. s \in Word
    <2>1. Cap(q) \in Int
      BY <1>1, Sizes
    <2>2. th[t].cur + Cap(q) \in Int /\ th[t].cur + 1 \in Int
      BY <1>2, <2>1
    <2> QED
      BY <2>2, Wrapped, Zenon DEF Published
  <1>4. /\ ring[q] \in RingType[q] /\ ring[q].seq \in [0 .. Cap(q) - 1 -> Word]
        /\ ring[q].val \in [0 .. Cap(q) - 1 -> Indices]
    BY <1>1, Zenon DEF TypeOK, RingType
  <1> HIDE DEF s
  <1>5. [ring[q].seq EXCEPT ![Cell(t)] = s] \in [0 .. Cap(q) - 1 -> Word]
    BY <1>1, <1>3, <1>4
  <1>6. [ring[q].val EXCEPT ![Cell(t)] = th[t].val] \in [0 .. Cap(q) - 1 -> Indices]
    BY <1>1, <1>2, <1>4
  <1>7. x \in RingType[q] /\ y \in RingType[q]
    BY <1>1, <1>4, <1>5, <1>6, Zenon DEF RingType
  <1>8. CASE Takes(th[t].op)
    <2>1. ring' = [ring EXCEPT ![q] = x]
      BY <1>8, Zenon DEF Publish, s
    <2> QED
      BY <1>1, <1>3, <1>7, <1>8, <2>1, HeldRing, Zenon DEF s
  <1>9. CASE ~Takes(th[t].op)
    <2>0. x.val = ring[q].val
      BY <1>1, <1>4 DEF RingType
    <2>1. ring' = [ring EXCEPT ![q] = y]
      BY <1>9, <2>0, Zenon DEF Publish, s
    <2> QED
      BY <1>1, <1>3, <1>7, <1>9, <2>1, HeldRing, Zenon DEF s
  <1> QED
    BY <1>8, <1>9, Zenon


\* The types are kept.
LEMMA TypeStep ==
  ASSUME TypeOK, CallInv, [Next]_vars
  PROVE  TypeOK'
  <1>1. \A w \in Rings : ring[w] \in RingType[w]
    BY DEF TypeOK, RingType
  <1> DEFINE RingsTyped == DOMAIN ring' = Rings /\ \A w \in Rings : ring'[w] \in RingType[w]
             ThTyped == th' \in [Actors -> ThreadState]
             LeftTyped == left' \in [packets : Int, borrows : Int]
  <1>2. ASSUME RingsTyped, ThTyped, LeftTyped,
               busy' \in [0 .. Lanes - 1 -> Threads \cup {Nobody}], gate' \in Threads \cup {Nobody},
               packet' \in [Indices -> [peer : Peers \cup {Nobody}, num : Nat]],
               occupancy' \in [Peers -> Nat], read' \in [Peers -> Nat], sent' \in [Peers -> Nat]
        PROVE  TypeOK'
    BY <1>2 DEF TypeOK, RingType
  <1>3. ASSUME NEW t \in Actors, Load(t) PROVE TypeOK'
    BY <1>1, <1>2, <1>3, LoadIs, Zenon DEF Load, Turns, TypeOK
  <1>4. ASSUME NEW t \in Actors, LoadSequence(t) PROVE TypeOK'
    BY <1>1, <1>2, <1>4, LoadSequenceIs, Zenon DEF LoadSequence, Turns, TypeOK
  <1>5. ASSUME NEW t \in Actors, Advance(t) PROVE TypeOK'
    <2>1. ThTyped
      BY <1>5, AdvanceIs, Zenon DEF Turns
    <2>2. RingsTyped
      BY <1>1, <1>5, AdvanceMakes, Zenon DEF Holds, TypeOK
    <2> QED
      BY <1>2, <1>5, <2>1, <2>2, Zenon DEF Advance, TypeOK
  <1>6. ASSUME NEW t \in Actors, Publish(t) PROVE TypeOK'
    <2>1. ThTyped
      BY <1>6, PublishIs, Zenon DEF Turns
    <2>2. RingsTyped
      BY <1>1, <1>6, PublishMakes, Zenon DEF Holds, TypeOK
    <2> QED
      BY <1>2, <1>6, <2>1, <2>2, Zenon DEF Publish, TypeOK
  <1>7. ASSUME NEW t \in Actors, Hop(t) PROVE TypeOK'
    <2>1. ThTyped
      BY <1>7, HopIs, Zenon DEF Turns
    <2>2. gate' \in Threads \cup {Nobody}
      BY <1>7, Zenon DEF Hop, TypeOK
    <2> QED
      BY <1>1, <1>2, <1>7, <2>1, <2>2, Zenon DEF Hop, TypeOK
  <1>8. ASSUME NEW t \in Actors, Arrive(t) PROVE TypeOK'
    <2>1. ThTyped
      BY <1>8, ArriveIs, Zenon DEF Turns
    <2>2. th[t].val \in Indices /\ \A p \in Peers : sent[p] + 1 \in Nat
      BY DEF ThreadState, TypeOK
    <2>3. /\ packet' \in [Indices -> [peer : Peers \cup {Nobody}, num : Nat]]
          /\ sent' \in [Peers -> Nat]
      <3>1. CASE UNCHANGED <<packet, sent>>
        BY <3>1 DEF TypeOK
      <3>2. ASSUME NEW p \in Peers, sent' = [sent EXCEPT ![p] = @ + 1],
                   packet' = [packet EXCEPT ![th[t].val] = [peer |-> p, num |-> sent[p] + 1]]
            PROVE  /\ packet' \in [Indices -> [peer : Peers \cup {Nobody}, num : Nat]]
                   /\ sent' \in [Peers -> Nat]
        BY <2>2, <3>2 DEF TypeOK
      <3> QED
        BY <1>8, <3>1, <3>2, ArriveIs, Zenon
    <2>4. LeftTyped
      <3>1. left.packets - 1 \in Int
        BY <1>8 DEF Arrive, TypeOK
      <3> QED
        BY <1>8, <3>1 DEF Arrive, TypeOK
    <2> QED
      BY <1>1, <1>2, <1>8, <2>1, <2>3, <2>4, Zenon DEF Arrive, TypeOK
  <1>9. ASSUME NEW t \in Actors, Drop(t) \/ Return(t) \/ Give(t) PROVE TypeOK'
    <2>1. ThTyped
      BY <1>9, DropIs, ReturnIs, GiveIs, Zenon DEF Turns
    <2> QED
      BY <1>1, <1>2, <1>9, <2>1, Zenon DEF Drop, Return, Give, TypeOK
  <1>10. ASSUME NEW t \in Actors, PinOne(t) PROVE TypeOK'
    <2>1. occupancy' \in [Peers -> Nat]
      BY <1>10 DEF PinOne, TypeOK
    <2> QED
      BY <1>1, <1>2, <1>10, <2>1, PinOneIs, Zenon DEF PinOne, TypeOK, Turns
  <1>11. ASSUME NEW t \in Actors, Pass(t) \/ Update(t) PROVE TypeOK'
    <2>1. ThTyped
      BY <1>11, PassIs, UpdateIs, Zenon DEF Turns
    <2>2. gate' \in Threads \cup {Nobody}
      BY <1>11, Zenon DEF Pass, Update, TypeOK
    <2> QED
      BY <1>1, <1>2, <1>11, <2>1, <2>2, Zenon DEF Pass, Update, TypeOK
  <1>12. ASSUME NEW t \in Actors, Borrow(t) PROVE TypeOK'
    <2>1. ThTyped
      BY <1>12, BorrowIs, Zenon DEF Turns
    <2>2. LeftTyped
      <3>1. left.borrows - 1 \in Int
        BY <1>12 DEF Borrow, TypeOK
      <3> QED
        BY <1>12, <3>1 DEF Borrow, TypeOK
    <2> QED
      BY <1>1, <1>2, <1>12, <2>1, <2>2, Zenon DEF Borrow, TypeOK
  <1>13. ASSUME NEW t \in Actors, Poll(t) PROVE TypeOK'
    BY <1>1, <1>2, <1>13, PollIs, Zenon DEF Poll, TypeOK, Turns
  <1>14. ASSUME NEW t \in Actors, ClaimLane(t) PROVE TypeOK'
    <2>1. ThTyped
      BY <1>14, ClaimLaneIs, Zenon DEF Turns
    <2>2. t \in Threads
      BY <1>14 DEF ClaimLane, CallInv, CallOf
    <2>3. busy' \in [0 .. Lanes - 1 -> Threads \cup {Nobody}]
      <3>1. \/ th[t].lane \in 0 .. Lanes - 1 /\ busy' = [busy EXCEPT ![th[t].lane] = t]
            \/ busy' = busy
        BY <1>14, ClaimLaneIs, Zenon
      <3> QED
        BY <2>2, <3>1 DEF TypeOK
    <2> QED
      BY <1>1, <1>2, <1>14, <2>1, <2>3, Zenon DEF ClaimLane, TypeOK
  <1>15. ASSUME NEW t \in Actors, Popped(t) PROVE TypeOK'
    <2>1. ThTyped
      BY <1>15, PoppedIs, Zenon DEF Turns
    <2>2. \A n \in Nat : ReleaseOne(n) \in Nat
      BY DEF ReleaseOne
    <2>3. occupancy' \in [Peers -> Nat]
      BY <1>15, <2>2, Zenon DEF Popped, TypeOK
    <2> QED
      BY <1>1, <1>2, <1>15, <2>1, <2>3, Zenon DEF Popped, TypeOK
  <1>16. ASSUME NEW t \in Actors, ReadNext(t) PROVE TypeOK'
    <2>1. ThTyped /\ th[t].got[th[t].seen + 1] \in Indices
      BY <1>16, ReadNextIs, Zenon DEF Turns
    <2>2. packet[th[t].got[th[t].seen + 1]].num \in Nat
      BY <2>1 DEF TypeOK
    <2>3. read' \in [Peers -> Nat]
      BY <1>16, <2>2, Zenon DEF ReadNext, TypeOK
    <2> QED
      BY <1>1, <1>2, <1>16, <2>1, <2>3, Zenon DEF ReadNext, TypeOK
  <1>17. ASSUME NEW t \in Actors, EndCursor(t) PROVE TypeOK'
    <2>1. busy' \in [0 .. Lanes - 1 -> Threads \cup {Nobody}]
      BY <1>17, EndCursorIs, Zenon DEF EndCursor, TypeOK
    <2> QED
      BY <1>1, <1>2, <1>17, <2>1, EndCursorIs, Zenon DEF EndCursor, TypeOK, Turns
  <1>18. CASE UNCHANGED vars
    BY <1>18 DEF vars, TypeOK
  <1> QED
    BY <1>3, <1>4, <1>5, <1>6, <1>7, <1>8, <1>9, <1>10, <1>11, <1>12, <1>13, <1>14,
       <1>15, <1>16, <1>17, <1>18, Zenon DEF Next, Step

\* A step of thread t leaves what the other threads have claimed.
Spares(t) ==
  /\ \A u \in Threads : u # t /\ gate = u => gate' = u
  /\ \A u \in Threads, l \in 0 .. Lanes - 1 : u # t /\ busy[l] = u => busy'[l] = u

LEMMA CallFrame ==
  ASSUME TypeOK, CallInv, NEW t \in Actors, NEW r, Turns(t, r), Spares(t), CallOf(t)'
  PROVE  CallInv'
  <1> SUFFICES ASSUME NEW u \in Actors, u # t PROVE CallOf(u)'
    BY DEF CallInv
  <1>1. th'[u] = th[u] /\ CallOf(u) /\ th[u].lane \in 0 .. Lanes - 1
    BY Zenon DEF Turns, CallInv, TypeOK, ThreadState
  <1>2. (u \in Threads /\ gate = u => gate' = u) /\ (u \in Threads /\ busy[th[u].lane] = u => busy'[th[u].lane] = u)
    BY <1>1 DEF Spares
  <1> QED
    BY <1>1, <1>2 DEF CallOf

LEMMA CallStep ==
  ASSUME TypeOK, CallInv, [Next]_vars
  PROVE  CallInv'
  <1>1. ASSUME NEW t \in Actors, gate' = gate, busy' = busy PROVE Spares(t)
    BY <1>1 DEF Spares
  <1>2. ASSUME NEW t \in Actors PROVE th[t] \in ThreadState /\ CallOf(t)
    BY DEF TypeOK, CallInv
  <1>3. ASSUME NEW t \in Actors, Load(t) PROVE CallInv'
    <2>1. gate' = gate /\ busy' = busy
      BY <1>3 DEF Load
    <2>2. PICK r : r = [th[t] EXCEPT !.cur = Cursor(t), !.at = Turn(t), !.pc = "seq"] /\ Turns(t, r) /\ th[t].pc = "load"
      BY <1>3, LoadIs, Zenon
    <2>3. /\ th'[t].pc = "seq" /\ th'[t].op = th[t].op /\ th'[t].no = th[t].no /\ th'[t].ok = th[t].ok
          /\ th'[t].q = th[t].q /\ th'[t].lane = th[t].lane /\ th'[t].val = th[t].val
      BY <1>2, <2>2 DEF Turns, ThreadState
    <2>4. CallOf(t)'
      BY <1>2, <2>1, <2>2, <2>3 DEF CallOf, RingPcs
    <2> QED
      BY <1>1, <2>1, <2>2, <2>4, CallFrame
  <1>4. ASSUME NEW t \in Actors, LoadSequence(t) PROVE CallInv'
    <2>1. gate' = gate /\ busy' = busy
      BY <1>4 DEF LoadSequence
    <2>2. PICK pc : /\ th[t].pc = "seq" /\ Turns(t, [th[t] EXCEPT !.pc = pc])
                    /\ pc \in {"cas", "load"} \/ (pc = th[t].no /\ th[t].op # "release")
      BY <1>4, LoadSequenceIs, Zenon
    <2>3. /\ th'[t].pc = pc /\ th'[t].op = th[t].op /\ th'[t].no = th[t].no /\ th'[t].ok = th[t].ok
          /\ th'[t].q = th[t].q /\ th'[t].lane = th[t].lane /\ th'[t].val = th[t].val
      BY <1>2, <2>2 DEF Turns, ThreadState
    <2>4. CallOf(t)'
      BY <1>2, <2>1, <2>2, <2>3 DEF CallOf, RingPcs
    <2> QED
      BY <1>1, <2>1, <2>2, <2>4, CallFrame
  <1>5. ASSUME NEW t \in Actors, Advance(t) PROVE CallInv'
    <2>1. gate' = gate /\ busy' = busy
      BY <1>5 DEF Advance
    <2>2. PICK r : /\ th[t].pc = "cas" /\ Turns(t, r)
                   /\ \/ r = [th[t] EXCEPT !.pc = "publish"]
                      \/ r = [th[t] EXCEPT !.cur = Cursor(t), !.at = Turn(t), !.pc = "seq"]
      BY <1>5, AdvanceIs, Zenon
    <2>3. /\ th'[t].pc \in {"publish", "seq"} /\ th'[t].op = th[t].op /\ th'[t].no = th[t].no /\ th'[t].ok = th[t].ok
          /\ th'[t].q = th[t].q /\ th'[t].lane = th[t].lane /\ th'[t].val = th[t].val
      BY <1>2, <2>2, Zenon DEF Turns, ThreadState
    <2>4. CallOf(t)'
      BY <1>2, <2>1, <2>2, <2>3 DEF CallOf, RingPcs
    <2> QED
      BY <1>1, <2>1, <2>2, <2>4, CallFrame
  <1>6. ASSUME NEW t \in Actors, Publish(t) PROVE CallInv'
    <2>1. gate' = gate /\ busy' = busy
      BY <1>6 DEF Publish
    <2>2. PICK r : /\ th[t].pc = "publish" /\ Turns(t, r)
                   /\ \/ r = [th[t] EXCEPT !.pc = th[t].ok, !.cur = 0, !.at = 0, !.val = ring[th[t].q].val[Cell(t)],
                                           !.mine = th[t].mine \cup {ring[th[t].q].val[Cell(t)]}]
                      \/ r = [th[t] EXCEPT !.pc = th[t].ok, !.cur = 0, !.at = 0, !.val = 0,
                                           !.mine = th[t].mine \ {th[t].val}]
      BY <1>6, PublishIs, Zenon
    <2>3. /\ th'[t].pc = th[t].ok /\ th'[t].op = th[t].op /\ th'[t].q = th[t].q /\ th'[t].lane = th[t].lane
      BY <1>2, <2>2, Zenon DEF Turns, ThreadState
    <2>4. CallOf(t)'
      BY <1>2, <2>1, <2>2, <2>3 DEF CallOf, RingPcs
    <2> QED
      BY <1>1, <2>1, <2>2, <2>4, CallFrame
  <1>7. ASSUME NEW t \in Actors, Hop(t) PROVE CallInv'
    <2>1. busy' = busy
      BY <1>7 DEF Hop
    <2>2. ASSUME NEW q \in PoolRings, NEW h \in Nat, gate' = gate, th[t].pc = "hop",
                 Turns(t, [th[t] EXCEPT !.pc = "load", !.hops = h, !.q = q])
          PROVE  CallInv'
      <3>1. /\ th'[t].pc = "load" /\ th'[t].op = th[t].op /\ th'[t].no = th[t].no /\ th'[t].ok = th[t].ok
            /\ th'[t].q = q /\ th[t].op = "acquire"
        BY <1>2, <2>2 DEF Turns, ThreadState, CallOf
      <3>2. CallOf(t)'
        BY <1>2, <2>1, <2>2, <3>1 DEF CallOf, RingPcs
      <3> QED
        BY <1>1, <2>1, <2>2, <3>2, CallFrame
    <2>3. ASSUME gate' = IF gate = t THEN Nobody ELSE gate, Turns(t, [Rest EXCEPT !.lane = th[t].lane])
          PROVE  CallInv'
      <3>1. th'[t].pc = "rest"
        BY <2>3 DEF Turns, Rest
      <3>2. CallOf(t)'
        BY <3>1 DEF CallOf, RingPcs
      <3>3. Spares(t)
        BY <2>1, <2>3 DEF Spares
      <3> QED
        BY <2>3, <3>2, <3>3, CallFrame
    <2> QED
      BY <1>7, <2>2, <2>3, HopIs, Zenon
  <1>8. ASSUME NEW t \in Actors, Arrive(t) PROVE CallInv'
    <2>1. gate' = gate /\ busy' = busy /\ th[t].pc = "arrived"
      BY <1>8 DEF Arrive
    <2>2. CASE Turns(t, [th[t] EXCEPT !.pc = "drop"])
      <3>1. th'[t].pc = "drop"
        BY <1>2, <2>2 DEF Turns, ThreadState
      <3>2. CallOf(t)'
        BY <1>2, <2>1, <3>1 DEF CallOf, RingPcs
      <3> QED
        BY <1>1, <2>1, <2>2, <3>2, CallFrame
    <2>3. ASSUME NEW p \in Peers, NEW q \in LaneRings,
                 Turns(t, [th[t] EXCEPT !.pc = "load", !.op = "push", !.q = q, !.peer = p, !.ok = "pin", !.no = "drop"])
          PROVE  CallInv'
      <3>1. th'[t].pc = "load" /\ th'[t].op = "push" /\ th'[t].no = "drop" /\ th'[t].ok = "pin" /\ th'[t].q = q
        BY <1>2, <2>3 DEF Turns, ThreadState
      <3>2. CallOf(t)'
        BY <1>2, <2>1, <3>1 DEF CallOf, RingPcs
      <3> QED
        BY <1>1, <2>1, <2>3, <3>2, CallFrame
    <2> QED
      BY <1>8, <2>2, <2>3, ArriveIs, Zenon
  <1>9. ASSUME NEW t \in Actors, NEW i \in Indices, NEW got, NEW ok, gate' = gate, busy' = busy,
               ok = "give" \/ (ok = "pass" /\ th[t].pc = "drop"),
               Turns(t, [th[t] EXCEPT !.pc = "load", !.op = "release", !.q = Home(i), !.val = i, !.got = got,
                                      !.ok = ok, !.no = "load"])
        PROVE  CallInv'
    <2>1. /\ th'[t].pc = "load" /\ th'[t].op = "release" /\ th'[t].no = "load" /\ th'[t].ok = ok
          /\ th'[t].q = Home(i) /\ th'[t].val = i
      BY <1>2, <1>9 DEF Turns, ThreadState
    <2>2. CallOf(t)'
      BY <1>2, <1>9, <2>1 DEF CallOf, RingPcs
    <2> QED
      BY <1>1, <1>9, <2>2, CallFrame
  <1>10. ASSUME NEW t \in Actors, Drop(t) PROVE CallInv'
    <2>1. gate' = gate /\ busy' = busy /\ th[t].val \in Indices
      BY <1>2, <1>10 DEF Drop, ThreadState
    <2> QED
      BY <1>9, <1>10, <2>1, DropIs, Zenon
  <1>11. ASSUME NEW t \in Actors, Return(t) PROVE CallInv'
    <2>1. gate' = gate /\ busy' = busy /\ th[t].val \in Indices
      BY <1>2, <1>11 DEF Return, ThreadState
    <2> QED
      BY <1>9, <1>11, <2>1, ReturnIs, Zenon
  <1>12. ASSUME NEW t \in Actors, Give(t) PROVE CallInv'
    <2>1. gate' = gate /\ busy' = busy
      BY <1>12 DEF Give
    <2>2. CASE Turns(t, [Rest EXCEPT !.lane = th[t].lane])
      <3>1. th'[t].pc = "rest"
        BY <2>2 DEF Turns, Rest
      <3>2. CallOf(t)'
        BY <3>1 DEF CallOf, RingPcs
      <3> QED
        BY <1>1, <2>1, <2>2, <3>2, CallFrame
    <2> QED
      BY <1>9, <1>12, <2>1, <2>2, GiveIs, Zenon
  <1>13. ASSUME NEW t \in Actors, PinOne(t) PROVE CallInv'
    <2>1. gate' = gate /\ busy' = busy /\ th[t].pc = "pin" /\ Turns(t, [th[t] EXCEPT !.pc = "pass"])
      BY <1>13, PinOneIs, Zenon DEF PinOne
    <2>2. th'[t].pc = "pass"
      BY <1>2, <2>1 DEF Turns, ThreadState
    <2>3. CallOf(t)'
      BY <1>2, <2>1, <2>2 DEF CallOf, RingPcs
    <2> QED
      BY <1>1, <2>1, <2>3, CallFrame
  <1>14. ASSUME NEW t \in Actors, NEW q \in PoolRings, NEW h \in Nat, NEW ok, busy' = busy, Spares(t),
                ok = "borrowed" \/ (ok = "arrived" /\ gate' = t /\ t \in Threads),
                Turns(t, [th[t] EXCEPT !.pc = "load", !.op = "acquire", !.q = q, !.hops = h, !.ok = ok, !.no = "hop"])
         PROVE  CallInv'
    <2>1. th'[t].pc = "load" /\ th'[t].op = "acquire" /\ th'[t].no = "hop" /\ th'[t].ok = ok /\ th'[t].q = q
      BY <1>2, <1>14 DEF Turns, ThreadState
    <2>2. CallOf(t)'
      BY <1>14, <2>1 DEF CallOf, RingPcs
    <2> QED
      BY <1>14, <2>2, CallFrame
  <1>15. ASSUME NEW t \in Actors, Update(t) PROVE CallInv'
    <2>1. busy' = busy /\ gate = Nobody /\ gate' = t /\ t \in Threads
      BY <1>15 DEF Update
    <2>2. Spares(t)
      BY <2>1, ActorsAssumption DEF Spares
    <2> QED
      BY <1>14, <1>15, <2>1, <2>2, UpdateIs, Zenon
  <1>16. ASSUME NEW t \in Actors, Borrow(t) PROVE CallInv'
    <2>1. busy' = busy /\ gate' = gate
      BY <1>16 DEF Borrow
    <2>2. Spares(t)
      BY <1>1, <2>1
    <2> QED
      BY <1>14, <1>16, <2>1, <2>2, BorrowIs, Zenon
  <1>17. ASSUME NEW t \in Actors, Pass(t) PROVE CallInv'
    <2>1. busy' = busy /\ th[t].pc = "pass" /\ gate = t /\ t \in Threads
      BY <1>2, <1>17 DEF Pass, CallOf
    <2>2. CASE gate' = Nobody /\ Turns(t, [Rest EXCEPT !.lane = th[t].lane])
      <3>1. th'[t].pc = "rest"
        BY <2>2 DEF Turns, Rest
      <3>2. CallOf(t)'
        BY <3>1 DEF CallOf, RingPcs
      <3>3. Spares(t)
        BY <2>1, <2>2 DEF Spares
      <3> QED
        BY <2>2, <3>2, <3>3, CallFrame
    <2>3. gate' = gate => Spares(t) /\ gate' = t
      BY <1>1, <2>1
    <2> QED
      BY <1>14, <1>17, <2>1, <2>2, <2>3, PassIs, Zenon
  <1>18. ASSUME NEW t \in Actors, Poll(t) PROVE CallInv'
    <2>1. gate' = gate /\ busy' = busy /\ t \in Threads /\ Turns(t, [th[t] EXCEPT !.pc = "claim", !.tries = Lanes])
      BY <1>18, PollIs, Zenon DEF Poll
    <2>2. th'[t].pc = "claim"
      BY <1>2, <2>1 DEF Turns, ThreadState
    <2>3. CallOf(t)'
      BY <2>1, <2>2 DEF CallOf, RingPcs
    <2> QED
      BY <1>1, <2>1, <2>3, CallFrame
  <1>19. ASSUME NEW t \in Actors, ClaimLane(t) PROVE CallInv'
    <2>1. gate' = gate /\ th[t].pc = "claim" /\ t \in Threads /\ th[t].lane \in 0 .. Lanes - 1
      BY <1>2, <1>19, ClaimLaneIs, Zenon DEF ClaimLane, CallOf
    <2>2. CASE /\ busy[th[t].lane] = Nobody /\ busy' = [busy EXCEPT ![th[t].lane] = t]
               /\ Turns(t, [th[t] EXCEPT !.pc = "load", !.op = "pop", !.q = <<"lane", th[t].lane>>, !.tries = 0,
                                         !.ok = "popped", !.no = "cursor"])
      <3>1. /\ th'[t].pc = "load" /\ th'[t].op = "pop" /\ th'[t].no = "cursor" /\ th'[t].ok = "popped"
            /\ th'[t].q = <<"lane", th[t].lane>> /\ th'[t].lane = th[t].lane
        BY <1>2, <2>2 DEF Turns, ThreadState
      <3>2. busy'[th[t].lane] = t /\ \A l \in 0 .. Lanes - 1 : l # th[t].lane => busy'[l] = busy[l]
        BY <2>1, <2>2 DEF TypeOK
      <3>3. CallOf(t)'
        BY <2>1, <3>1, <3>2 DEF CallOf, RingPcs
      <3>4. Spares(t)
        BY <2>1, <2>2, <3>2, ActorsAssumption DEF Spares
      <3> QED
        BY <2>2, <3>3, <3>4, CallFrame
    <2>3. ASSUME NEW r, busy' = busy, Turns(t, r), r.pc \in {"claim", "rest"}
          PROVE  CallInv'
      <3>1. CallOf(t)'
        BY <2>1, <2>3 DEF CallOf, RingPcs, Turns
      <3> QED
        BY <1>1, <2>1, <2>3, <3>1, CallFrame
    <2>4. Rest.pc = "rest" /\ \A n, l : [th[t] EXCEPT !.tries = n, !.lane = l].pc = "claim"
      BY <1>2, <2>1 DEF Rest, ThreadState
    <2> QED
      BY <1>19, <2>2, <2>3, <2>4, ClaimLaneIs, Zenon
  <1>20. ASSUME NEW t \in Actors, Popped(t) PROVE CallInv'
    <2>1. gate' = gate /\ busy' = busy /\ th[t].pc = "popped"
      BY <1>20 DEF Popped
    <2>2. PICK r : /\ Turns(t, r)
                   /\ \/ r = [th[t] EXCEPT !.pc = "load", !.op = "pop", !.got = Append(th[t].got, th[t].val),
                                           !.ok = "popped", !.no = "cursor"]
                      \/ r = [th[t] EXCEPT !.pc = "cursor", !.got = Append(th[t].got, th[t].val)]
      BY <1>20, PoppedIs, Zenon
    <2>3. /\ th'[t].q = th[t].q /\ th'[t].lane = th[t].lane
          /\ \/ th'[t].pc = "load" /\ th'[t].op = "pop" /\ th'[t].ok = "popped" /\ th'[t].no = "cursor"
             \/ th'[t].pc = "cursor"
      BY <1>2, <2>2, Zenon DEF Turns, ThreadState
    <2>4. CallOf(t)'
      BY <1>2, <2>1, <2>3 DEF CallOf, RingPcs
    <2> QED
      BY <1>1, <2>1, <2>2, <2>4, CallFrame
  <1>21. ASSUME NEW t \in Actors, ReadNext(t) PROVE CallInv'
    <2>1. gate' = gate /\ busy' = busy /\ th[t].pc = "cursor" /\ Turns(t, [th[t] EXCEPT !.seen = th[t].seen + 1])
      BY <1>21, ReadNextIs, Zenon DEF ReadNext
    <2>2. th'[t].pc = "cursor" /\ th'[t].q = th[t].q /\ th'[t].lane = th[t].lane
      BY <1>2, <2>1 DEF Turns, ThreadState
    <2>3. CallOf(t)'
      BY <1>2, <2>1, <2>2 DEF CallOf, RingPcs
    <2> QED
      BY <1>1, <2>1, <2>3, CallFrame
  <1>22. ASSUME NEW t \in Actors, EndCursor(t) PROVE CallInv'
    <2>1. /\ gate' = gate /\ busy' = [busy EXCEPT ![th[t].lane] = Nobody] /\ th[t].pc = "cursor"
          /\ Turns(t, [th[t] EXCEPT !.pc = "give"]) /\ th[t].lane \in 0 .. Lanes - 1
      BY <1>22, EndCursorIs, Zenon DEF EndCursor
    <2>2. th'[t].pc = "give" /\ busy[th[t].lane] = t
      BY <1>2, <2>1 DEF Turns, ThreadState, CallOf
    <2>3. CallOf(t)'
      BY <2>2 DEF CallOf, RingPcs
    <2>4. Spares(t)
      BY <2>1, <2>2 DEF Spares, TypeOK
    <2> QED
      BY <2>1, <2>3, <2>4, CallFrame
  <1>23. CASE UNCHANGED vars
    BY <1>23 DEF vars, CallInv, CallOf
  <1> QED
    BY <1>3, <1>4, <1>5, <1>6, <1>7, <1>8, <1>10, <1>11, <1>12, <1>13, <1>15, <1>16, <1>17, <1>18, <1>19, <1>20,
       <1>21, <1>22, <1>23, Zenon DEF Next, Step

-----------------------------------------------------------------------------
(* What the threads have in hand. *)

\* A thread that goes on with the same indices.
LEMMA HandKept ==
  ASSUME NEW r \in ThreadState, NEW s \in ThreadState, HandOf(r),
         s.got = r.got, s.mine = r.mine, Loaded(s) <=> Loaded(r), Loaded(r) => s.val = r.val,
         s.got # <<>> => \/ s.pc \in {"popped", "cursor", "give"}
                         \/ s.pc \in RingPcs /\ s.op = "pop"
                         \/ s.pc \in RingPcs /\ s.op = "release" /\ s.ok = "give"
  PROVE  HandOf(s)
  BY DEF HandOf, Hand

\* One that comes to rest has none left.
LEMMA HandRested ==
  ASSUME NEW r \in ThreadState, HandOf(r), r.got = <<>>, ~Loaded(r)
  PROVE  HandOf(Rest) /\ \A l : HandOf([Rest EXCEPT !.lane = l]) /\ r.mine = {}
  <1>1. Items(<<>>) = {} /\ Len(<<>>) = 0
    BY DEF Items
  <1>2. ASSUME NEW x, x = Rest \/ \E l : x = [Rest EXCEPT !.lane = l] PROVE HandOf(x)
    <2>1. x.pc = "rest" /\ x.got = <<>> /\ x.mine = {} /\ x.op = "none"
      BY <1>2 DEF Rest
    <2>2. ~Loaded(x)
      BY <2>1 DEF Loaded, RingPcs
    <2> QED
      BY <1>1, <2>1, <2>2 DEF HandOf, Hand
  <1>3. r.mine = {}
    BY <1>1 DEF HandOf, Hand
  <1> QED
    BY <1>2, <1>3, Zenon

\* The popped index joins those the cursor has.
LEMMA HandAppended ==
  ASSUME NEW r \in ThreadState, NEW s \in ThreadState, HandOf(r), Loaded(r), ~Loaded(s),
         s.got = Append(r.got, r.val), s.mine = r.mine,
         s.pc = "cursor" \/ (s.pc \in RingPcs /\ s.op = "pop")
  PROVE  HandOf(s)
  <1>1. r.got \in Seq(Indices) /\ r.val \in Indices
    BY DEF ThreadState
  <1>2. PICK n \in Nat : n = Len(r.got)
    BY <1>1
  <1>3. /\ Len(s.got) = n + 1 /\ s.got[n + 1] = r.val
        /\ \A j \in 1 .. n : s.got[j] = r.got[j]
    BY <1>1, <1>2
  <1>4. Items(s.got) = Items(r.got) \cup {r.val}
    BY <1>2, <1>3 DEF Items
  <1>5. \A j \in 1 .. n : r.got[j] # r.val
    BY <1>2 DEF HandOf, Items
  <1>6. ASSUME NEW j \in 1 .. Len(s.got), NEW k \in 1 .. Len(s.got), s.got[j] = s.got[k] PROVE j = k
    <2>1. (j \in 1 .. n \/ j = n + 1) /\ (k \in 1 .. n \/ k = n + 1)
      BY <1>3
    <2>2. CASE j \in 1 .. n /\ k \in 1 .. n
      BY <1>2, <1>3, <1>6, <2>2 DEF HandOf
    <2>3. CASE j = n + 1 \/ k = n + 1
      BY <1>3, <1>5, <1>6, <2>1, <2>3
    <2> QED
      BY <2>1, <2>2, <2>3
  <1> QED
    BY <1>4, <1>6 DEF HandOf, Hand

\* The first of them is released.
LEMMA HandGiven ==
  ASSUME NEW r \in ThreadState, NEW s \in ThreadState, HandOf(r), ~Loaded(r), Loaded(s), r.got # <<>>,
         s.got = Tail(r.got), s.val = Head(r.got), s.mine = r.mine,
         s.pc \in RingPcs /\ s.op = "release" /\ s.ok = "give"
  PROVE  HandOf(s)
  <1>1. r.got \in Seq(Indices)
    BY DEF ThreadState
  <1>2. PICK n \in Nat : n + 1 = Len(r.got)
    <2>1. Len(r.got) \in Nat \ {0}
      BY <1>1
    <2>2. Len(r.got) - 1 \in Nat /\ (Len(r.got) - 1) + 1 = Len(r.got)
      BY <2>1
    <2> QED
      BY <2>2, Zenon
  <1>3. Len(s.got) = n /\ s.val = r.got[1] /\ \A j \in 1 .. n : s.got[j] = r.got[j + 1]
    BY <1>1, <1>2
  <1>4. Items(r.got) = Items(s.got) \cup {s.val}
    <2>1. ASSUME NEW x \in Items(r.got) PROVE x \in Items(s.got) \cup {s.val}
      <3>1. PICK j \in 1 .. n + 1 : x = r.got[j]
        BY <1>2 DEF Items
      <3>2. CASE j = 1
        BY <1>3, <3>1, <3>2
      <3>3. CASE j # 1
        <4>1. j - 1 \in 1 .. n /\ (j - 1) + 1 = j
          BY <3>3
        <4>2. s.got[j - 1] = x
          BY <1>3, <3>1, <4>1
        <4> QED
          BY <1>3, <4>1, <4>2, Zenon DEF Items
      <3> QED
        BY <3>2, <3>3
    <2>2. ASSUME NEW x \in Items(s.got) PROVE x \in Items(r.got)
      <3>1. PICK j \in 1 .. n : x = s.got[j]
        BY <1>3, <2>2 DEF Items
      <3>2. j + 1 \in 1 .. n + 1
        OBVIOUS
      <3> QED
        BY <1>2, <1>3, <3>1, <3>2 DEF Items
    <2>3. s.val \in Items(r.got)
      <3>1. 1 \in 1 .. n + 1
        OBVIOUS
      <3> QED
        BY <1>2, <1>3, <3>1 DEF Items
    <2> QED
      BY <2>1, <2>2, <2>3
  <1>5. s.val \notin Items(s.got)
    <2> SUFFICES ASSUME s.val \in Items(s.got) PROVE FALSE
      OBVIOUS
    <2>1. PICK j \in 1 .. n : s.got[j] = s.val
      BY <1>3, Zenon DEF Items
    <2>2. j + 1 \in 1 .. n + 1 /\ 1 \in 1 .. n + 1 /\ j + 1 # 1 /\ r.got[j + 1] = r.got[1]
      BY <1>3, <2>1
    <2> QED
      BY <1>2, <2>2 DEF HandOf
  <1>6. ASSUME NEW j \in 1 .. Len(s.got), NEW k \in 1 .. Len(s.got), s.got[j] = s.got[k] PROVE j = k
    <2>1. j + 1 \in 1 .. n + 1 /\ k + 1 \in 1 .. n + 1 /\ r.got[j + 1] = r.got[k + 1]
      BY <1>3, <1>6
    <2>2. j + 1 = k + 1
      BY <1>2, <2>1 DEF HandOf
    <2>3. j \in Int /\ k \in Int
      BY <1>3
    <2> QED
      BY <2>2, <2>3
  <1> QED
    BY <1>4, <1>5, <1>6 DEF HandOf, Hand

\* An index is taken from a ring.
LEMMA HandTaken ==
  ASSUME NEW r \in ThreadState, NEW s \in ThreadState, HandOf(r), ~Loaded(r), Loaded(s), s.got = r.got,
         s.val \notin r.mine, s.mine = r.mine \cup {s.val},
         s.got # <<>> => s.pc = "popped"
  PROVE  HandOf(s)
  BY DEF HandOf, Hand

\* An index is put into a ring.
LEMMA HandPut ==
  ASSUME NEW r \in ThreadState, NEW s \in ThreadState, HandOf(r), Loaded(r), ~Loaded(s), s.got = r.got,
         s.mine = r.mine \ {r.val},
         s.got # <<>> => s.pc = "give"
  PROVE  HandOf(s)
  BY DEF HandOf, Hand


LEMMA HandFrame ==
  ASSUME HandInv, NEW t \in Actors, NEW r, Turns(t, r), HandOf(r)
  PROVE  HandInv'
  <1> SUFFICES ASSUME NEW u \in Actors PROVE HandOf(th'[u])
    BY DEF HandInv
  <1> QED
    BY DEF Turns, HandInv

LEMMA HandStep ==
  ASSUME TypeOK, CallInv, HandInv, [Next]_vars,
         \A t \in Actors : Taking(t) => ring[th[t].q].val[Cell(t)] \notin th[t].mine
  PROVE  HandInv'
  <1>1. ASSUME NEW t \in Actors PROVE th[t] \in ThreadState /\ CallOf(t) /\ HandOf(th[t])
    BY DEF TypeOK, CallInv, HandInv
  <1>2. ASSUME NEW t \in Actors, NEW s, Turns(t, s), s.got = th[t].got, s.mine = th[t].mine,
               Loaded(s) <=> Loaded(th[t]), Loaded(s) => s.val = th[t].val,
               s.got # <<>> => \/ s.pc \in {"popped", "cursor", "give"}
                               \/ s.pc \in RingPcs /\ s.op = "pop"
                               \/ s.pc \in RingPcs /\ s.op = "release" /\ s.ok = "give"
        PROVE  HandInv'
    <2>1. s \in ThreadState
      BY <1>2 DEF Turns
    <2>2. HandOf(s)
      BY <1>1, <1>2, <2>1, HandKept
    <2> QED
      BY <1>2, <2>2, HandFrame
  <1>3. ASSUME NEW t \in Actors, th[t].got = <<>>, ~Loaded(th[t]),
               Turns(t, Rest) \/ Turns(t, [Rest EXCEPT !.lane = th[t].lane])
        PROVE  HandInv'
    BY <1>1, <1>3, HandRested, HandFrame, Zenon
  <1>4. ASSUME NEW t \in Actors, Load(t) PROVE HandInv'
    <2>1. PICK r : r = [th[t] EXCEPT !.cur = Cursor(t), !.at = Turn(t), !.pc = "seq"] /\ Turns(t, r) /\ th[t].pc = "load"
      BY <1>4, LoadIs, Zenon
    <2>2. /\ r.pc = "seq" /\ r.op = th[t].op /\ r.ok = th[t].ok /\ r.val = th[t].val /\ r.got = th[t].got
          /\ r.mine = th[t].mine
      BY <1>1, <2>1 DEF ThreadState
    <2>3. Loaded(r) <=> Loaded(th[t])
      BY <2>1, <2>2 DEF Loaded, RingPcs
    <2> QED
      BY <1>1, <1>2, <2>1, <2>2, <2>3, Zenon DEF HandOf, RingPcs
  <1>5. ASSUME NEW t \in Actors, LoadSequence(t) PROVE HandInv'
    <2>1. PICK pc, r : /\ th[t].pc = "seq" /\ r = [th[t] EXCEPT !.pc = pc] /\ Turns(t, r)
                       /\ pc \in {"cas", "load"} \/ (pc = th[t].no /\ th[t].op # "release")
      BY <1>5, LoadSequenceIs, Zenon
    <2>2. /\ r.pc = pc /\ r.op = th[t].op /\ r.ok = th[t].ok /\ r.val = th[t].val /\ r.got = th[t].got
          /\ r.mine = th[t].mine
      BY <1>1, <2>1 DEF ThreadState
    <2>3. \/ pc \in {"cas", "load"}
          \/ pc = "hop" /\ th[t].op = "acquire"
          \/ pc = "drop" /\ th[t].op = "push"
          \/ pc = "cursor" /\ th[t].op = "pop"
      BY <1>1, <2>1 DEF CallOf, RingPcs
    <2>4. Loaded(r) <=> Loaded(th[t])
      BY <2>1, <2>2, <2>3 DEF Loaded, RingPcs
    <2> QED
      BY <1>1, <1>2, <2>1, <2>2, <2>3, <2>4, Zenon DEF HandOf, RingPcs
  <1>6. ASSUME NEW t \in Actors, Advance(t) PROVE HandInv'
    <2>1. PICK r : /\ th[t].pc = "cas" /\ Turns(t, r)
                   /\ \/ r = [th[t] EXCEPT !.pc = "publish"]
                      \/ r = [th[t] EXCEPT !.cur = Cursor(t), !.at = Turn(t), !.pc = "seq"]
      BY <1>6, AdvanceIs, Zenon
    <2>2. /\ r.pc \in {"publish", "seq"} /\ r.op = th[t].op /\ r.ok = th[t].ok /\ r.val = th[t].val
          /\ r.got = th[t].got /\ r.mine = th[t].mine
      BY <1>1, <2>1, Zenon DEF ThreadState
    <2>3. Loaded(r) <=> Loaded(th[t])
      BY <2>1, <2>2 DEF Loaded, RingPcs
    <2> QED
      BY <1>1, <1>2, <2>1, <2>2, <2>3 DEF HandOf, RingPcs
  <1>7. ASSUME NEW t \in Actors, Publish(t) PROVE HandInv'
    <2>1. CASE Takes(th[t].op)
      <3>1. PICK v, r : /\ th[t].pc = "publish" /\ Turns(t, r) /\ v = ring[th[t].q].val[Cell(t)]
                        /\ r = [th[t] EXCEPT !.pc = th[t].ok, !.cur = 0, !.at = 0, !.val = v,
                                             !.mine = th[t].mine \cup {v}]
        BY <1>7, <2>1, PublishIs, Zenon
      <3>2. r.pc = th[t].ok /\ r.val = v /\ r.got = th[t].got /\ r.mine = th[t].mine \cup {v} /\ r \in ThreadState
        BY <1>1, <3>1, Zenon DEF ThreadState, Turns
      <3>3. /\ th[t].ok \in {"arrived", "borrowed", "popped"} /\ ~Loaded(th[t])
            /\ th[t].ok # "popped" => th[t].op = "acquire"
        BY <1>1, <2>1, <3>1 DEF CallOf, RingPcs, Takes, Loaded
      <3>4. Loaded(r) /\ v \notin th[t].mine
        BY <2>1, <3>1, <3>2, <3>3 DEF Loaded, Taking
      <3>5. r.got # <<>> => r.pc = "popped"
        BY <1>1, <3>1, <3>2, <3>3 DEF HandOf
      <3>6. HandOf(r)
        BY <1>1, <3>2, <3>3, <3>4, <3>5, HandTaken
      <3> QED
        BY <3>1, <3>6, HandFrame
    <2>2. CASE ~Takes(th[t].op)
      <3>1. PICK r : /\ th[t].pc = "publish" /\ Turns(t, r)
                     /\ r = [th[t] EXCEPT !.pc = th[t].ok, !.cur = 0, !.at = 0, !.val = 0,
                                          !.mine = th[t].mine \ {th[t].val}]
        BY <1>7, <2>2, PublishIs, Zenon
      <3>2. r.pc = th[t].ok /\ r.got = th[t].got /\ r.mine = th[t].mine \ {th[t].val} /\ r \in ThreadState
        BY <1>1, <3>1 DEF ThreadState, Turns
      <3>3. /\ th[t].ok \in {"pin", "give", "pass"} /\ Loaded(th[t])
            /\ th[t].ok # "give" => th[t].op = "push" \/ th[t].ok = "pass"
        BY <1>1, <2>2, <3>1 DEF CallOf, RingPcs, Takes, Loaded
      <3>4. ~Loaded(r)
        BY <3>2, <3>3 DEF Loaded, RingPcs
      <3>5. r.got # <<>> => r.pc = "give"
        BY <1>1, <2>2, <3>1, <3>2, <3>3 DEF HandOf, Takes
      <3>6. HandOf(r)
        BY <1>1, <3>2, <3>3, <3>4, <3>5, HandPut
      <3> QED
        BY <3>1, <3>6, HandFrame
    <2> QED
      BY <2>1, <2>2
  <1>8. ASSUME NEW t \in Actors, Hop(t) PROVE HandInv'
    <2>1. th[t].pc = "hop" /\ th[t].op = "acquire" /\ ~Loaded(th[t]) /\ th[t].got = <<>>
      BY <1>1, <1>8 DEF Hop, CallOf, Loaded, HandOf, RingPcs
    <2>2. ASSUME NEW q, NEW h, Turns(t, [th[t] EXCEPT !.pc = "load", !.hops = h, !.q = q])
          PROVE  HandInv'
      <3>1. PICK r : r = [th[t] EXCEPT !.pc = "load", !.hops = h, !.q = q] /\ Turns(t, r)
        BY <2>2
      <3>2. r.pc = "load" /\ r.op = "acquire" /\ r.got = <<>> /\ r.mine = th[t].mine
        BY <1>1, <2>1, <3>1 DEF ThreadState
      <3>3. ~Loaded(r)
        BY <3>2 DEF Loaded
      <3> QED
        BY <1>2, <2>1, <3>1, <3>2, <3>3, Zenon
    <2> QED
      BY <1>3, <1>8, <2>1, <2>2, HopIs, Zenon
  <1>9. ASSUME NEW t \in Actors, Arrive(t) PROVE HandInv'
    <2>1. th[t].pc = "arrived" /\ Loaded(th[t]) /\ th[t].got = <<>>
      BY <1>1, <1>9 DEF Arrive, Loaded, HandOf, RingPcs
    <2>2. PICK r : /\ Turns(t, r)
                   /\ \/ r = [th[t] EXCEPT !.pc = "drop"]
                      \/ \E p, q : r = [th[t] EXCEPT !.pc = "load", !.op = "push", !.q = q, !.peer = p,
                                                     !.ok = "pin", !.no = "drop"]
      BY <1>9, ArriveIs, Zenon
    <2>3. /\ r.val = th[t].val /\ r.got = <<>> /\ r.mine = th[t].mine
          /\ r.pc = "drop" \/ (r.pc = "load" /\ r.op = "push")
      BY <1>1, <2>1, <2>2, Zenon DEF ThreadState
    <2>4. Loaded(r)
      BY <2>3 DEF Loaded, RingPcs
    <2> QED
      BY <1>2, <2>1, <2>2, <2>3, <2>4, Zenon
  <1>10. ASSUME NEW t \in Actors, Drop(t) \/ Return(t) PROVE HandInv'
    <2>1. th[t].pc \in {"drop", "borrowed"} /\ Loaded(th[t]) /\ th[t].got = <<>>
      BY <1>1, <1>10 DEF Drop, Return, Loaded, HandOf, RingPcs
    <2>2. PICK r, ok : /\ Turns(t, r)
                       /\ r = [th[t] EXCEPT !.pc = "load", !.op = "release", !.q = Home(th[t].val), !.val = th[t].val,
                                            !.got = th[t].got, !.ok = ok, !.no = "load"]
      BY <1>10, DropIs, ReturnIs, Zenon
    <2>3. r.val = th[t].val /\ r.got = <<>> /\ r.mine = th[t].mine /\ r.pc = "load" /\ r.op = "release"
      BY <1>1, <2>1, <2>2 DEF ThreadState
    <2>4. Loaded(r)
      BY <2>3 DEF Loaded, RingPcs
    <2> QED
      BY <1>2, <2>1, <2>2, <2>3, <2>4, Zenon
  <1>11. ASSUME NEW t \in Actors, Give(t) PROVE HandInv'
    <2>1. th[t].pc = "give" /\ ~Loaded(th[t])
      BY <1>11 DEF Give, Loaded, RingPcs
    <2>2. ASSUME NEW r, Turns(t, r), th[t].got # <<>>,
                 r = [th[t] EXCEPT !.pc = "load", !.op = "release", !.q = Home(Head(th[t].got)),
                                   !.val = Head(th[t].got), !.got = Tail(th[t].got), !.ok = "give", !.no = "load"]
          PROVE  HandInv'
      <3>1. /\ r.val = Head(th[t].got) /\ r.got = Tail(th[t].got) /\ r.mine = th[t].mine /\ r.pc = "load"
            /\ r.op = "release" /\ r.ok = "give" /\ r \in ThreadState
        BY <1>1, <2>2, Zenon DEF ThreadState, Turns
      <3>2. Loaded(r) /\ r.pc \in RingPcs
        BY <3>1 DEF Loaded, RingPcs
      <3>3. HandOf(r)
        BY <1>1, <2>1, <2>2, <3>1, <3>2, HandGiven, Zenon
      <3> QED
        BY <2>2, <3>3, HandFrame
    <2> QED
      BY <1>3, <1>11, <2>1, <2>2, GiveIs, Zenon
  <1>12. ASSUME NEW t \in Actors, PinOne(t) PROVE HandInv'
    <2>1. PICK r : th[t].pc = "pin" /\ r = [th[t] EXCEPT !.pc = "pass"] /\ Turns(t, r)
      BY <1>12, PinOneIs, Zenon
    <2>2. r.pc = "pass" /\ r.got = th[t].got /\ r.mine = th[t].mine /\ th[t].got = <<>>
      BY <1>1, <2>1 DEF ThreadState, HandOf, RingPcs
    <2>3. ~Loaded(r) /\ ~Loaded(th[t])
      BY <2>1, <2>2 DEF Loaded, RingPcs
    <2> QED
      BY <1>2, <2>1, <2>2, <2>3, Zenon
  <1>13. ASSUME NEW t \in Actors, Update(t) \/ Borrow(t) \/ Pass(t) PROVE HandInv'
    <2>1. th[t].pc \in {"rest", "pass"} /\ ~Loaded(th[t]) /\ th[t].got = <<>>
      BY <1>1, <1>13 DEF Update, Borrow, Pass, Loaded, HandOf, RingPcs
    <2>2. ASSUME NEW q, NEW h, NEW ok,
                 Turns(t, [th[t] EXCEPT !.pc = "load", !.op = "acquire", !.q = q, !.hops = h, !.ok = ok, !.no = "hop"])
          PROVE  HandInv'
      <3>1. PICK r : /\ r = [th[t] EXCEPT !.pc = "load", !.op = "acquire", !.q = q, !.hops = h, !.ok = ok, !.no = "hop"]
                     /\ Turns(t, r)
        BY <2>2
      <3>2. r.pc = "load" /\ r.op = "acquire" /\ r.got = <<>> /\ r.mine = th[t].mine
        BY <1>1, <2>1, <3>1 DEF ThreadState
      <3>3. ~Loaded(r)
        BY <3>2 DEF Loaded
      <3> QED
        BY <1>2, <2>1, <3>1, <3>2, <3>3, Zenon
    <2>3. CASE Update(t)
      BY <2>2, <2>3, UpdateIs, Zenon
    <2>4. CASE Borrow(t)
      BY <2>2, <2>4, BorrowIs, Zenon
    <2>5. CASE Pass(t)
      BY <1>3, <2>1, <2>2, <2>5, PassIs, Zenon
    <2> QED
      BY <1>13, <2>3, <2>4, <2>5
  <1>14. ASSUME NEW t \in Actors, Poll(t) PROVE HandInv'
    <2>1. PICK r : th[t].pc = "rest" /\ r = [th[t] EXCEPT !.pc = "claim", !.tries = Lanes] /\ Turns(t, r)
      BY <1>14, PollIs, Zenon
    <2>2. r.pc = "claim" /\ r.got = th[t].got /\ r.mine = th[t].mine /\ th[t].got = <<>>
      BY <1>1, <2>1 DEF ThreadState, HandOf, RingPcs
    <2>3. ~Loaded(r) /\ ~Loaded(th[t])
      BY <2>1, <2>2 DEF Loaded, RingPcs
    <2> QED
      BY <1>2, <2>1, <2>2, <2>3, Zenon
  <1>15. ASSUME NEW t \in Actors, ClaimLane(t) PROVE HandInv'
    <2>1. th[t].pc = "claim" /\ ~Loaded(th[t]) /\ th[t].got = <<>>
      BY <1>1, <1>15 DEF ClaimLane, Loaded, HandOf, RingPcs
    <2>2. ASSUME NEW r, Turns(t, r),
                 \/ r = [th[t] EXCEPT !.pc = "load", !.op = "pop", !.q = <<"lane", th[t].lane>>, !.tries = 0,
                                      !.ok = "popped", !.no = "cursor"]
                 \/ \E n, l : r = [th[t] EXCEPT !.tries = n, !.lane = l]
          PROVE  HandInv'
      <3>1. r.pc = "claim" \/ (r.pc = "load" /\ r.op = "pop")
        BY <1>1, <2>1, <2>2, Zenon DEF ThreadState
      <3>2. r.got = <<>> /\ r.mine = th[t].mine
        BY <1>1, <2>1, <2>2, Zenon DEF ThreadState
      <3>3. ~Loaded(r)
        BY <3>1 DEF Loaded, RingPcs
      <3> QED
        BY <1>2, <2>1, <2>2, <3>2, <3>3, Zenon
    <2> QED
      BY <1>3, <1>15, <2>1, <2>2, ClaimLaneIs, Zenon
  <1>16. ASSUME NEW t \in Actors, Popped(t) PROVE HandInv'
    <2>1. th[t].pc = "popped" /\ Loaded(th[t])
      BY <1>16 DEF Popped, Loaded
    <2>2. PICK r : /\ Turns(t, r)
                   /\ \/ r = [th[t] EXCEPT !.pc = "load", !.op = "pop", !.got = Append(th[t].got, th[t].val),
                                           !.ok = "popped", !.no = "cursor"]
                      \/ r = [th[t] EXCEPT !.pc = "cursor", !.got = Append(th[t].got, th[t].val)]
      BY <1>16, PoppedIs, Zenon
    <2>3. /\ r.got = Append(th[t].got, th[t].val) /\ r.mine = th[t].mine /\ r \in ThreadState
          /\ r.pc = "cursor" \/ (r.pc = "load" /\ r.op = "pop")
      BY <1>1, <2>2, Zenon DEF Turns, ThreadState
    <2>4. ~Loaded(r) /\ (r.pc = "cursor" \/ (r.pc \in RingPcs /\ r.op = "pop"))
      BY <2>3 DEF Loaded, RingPcs
    <2>5. HandOf(r)
      BY <1>1, <2>1, <2>3, <2>4, HandAppended
    <2> QED
      BY <2>2, <2>5, HandFrame
  <1>17. ASSUME NEW t \in Actors, ReadNext(t) \/ EndCursor(t) PROVE HandInv'
    <2>1. PICK r : /\ th[t].pc = "cursor" /\ Turns(t, r)
                   /\ r = [th[t] EXCEPT !.seen = th[t].seen + 1] \/ r = [th[t] EXCEPT !.pc = "give"]
      BY <1>17, ReadNextIs, EndCursorIs, Zenon
    <2>2. r.pc \in {"cursor", "give"} /\ r.got = th[t].got /\ r.mine = th[t].mine
      BY <1>1, <2>1 DEF ThreadState
    <2>3. ~Loaded(r) /\ ~Loaded(th[t])
      BY <2>1, <2>2 DEF Loaded, RingPcs
    <2> QED
      BY <1>2, <2>1, <2>2, <2>3
  <1>18. CASE UNCHANGED vars
    BY <1>18 DEF vars, HandInv
  <1> QED
    BY <1>4, <1>5, <1>6, <1>7, <1>8, <1>9, <1>10, <1>11, <1>12, <1>13, <1>14, <1>15, <1>16, <1>17, <1>18, Zenon
       DEF Next, Step

-----------------------------------------------------------------------------
(* The shapes of a step, as the rings see it. *)

\* Every other thread and every other ring is left alone.
Alone(t) == \A u \in Actors : u # t => th'[u] = th[u]
Untouched(q) == \A w \in Rings : w # q => ring'[w] = ring[w]

\* A step that touches no ring and claims nothing.
Quiet(t) ==
  /\ ring' = ring /\ Alone(t)
  /\ th[t].pc # "publish" /\ th'[t].pc # "publish" /\ th'[t].mine = th[t].mine

\* The thread loads a cursor; it finds the cell of its position ready; it does
\* something else.
Looks(t) ==
  /\ Quiet(t) /\ th[t].pc \in RingPcs /\ th'[t].pc = "seq"
  /\ th'[t].op = th[t].op /\ th'[t].q = th[t].q
  /\ th'[t].cur = Cursor(t) /\ th'[t].at = Turn(t)
Finds(t) ==
  /\ Quiet(t) /\ th[t].pc = "seq" /\ th'[t].pc = "cas"
  /\ th'[t].op = th[t].op /\ th'[t].q = th[t].q /\ th'[t].cur = th[t].cur /\ th'[t].at = th[t].at
  /\ Diff(ring[th[t].q].seq[Cell(t)], Expected(th[t].op, th[t].cur)) = 0
Elsewhere(t) ==
  Quiet(t) /\ th'[t].pc \notin {"seq", "cas"}

\* The thread claims the position of a cursor.
Claiming(t) ==
  /\ Alone(t) /\ th[t].pc = "cas" /\ th'[t].pc = "publish" /\ Claims(t) /\ th[t].q \in Rings
  /\ th'[t].op = th[t].op /\ th'[t].q = th[t].q /\ th'[t].cur = th[t].cur /\ th'[t].at = th[t].at
  /\ th'[t].mine = th[t].mine /\ th'[t].val = th[t].val
  /\ Untouched(th[t].q)
  /\ ring'[th[t].q].seq = ring[th[t].q].seq /\ ring'[th[t].q].val = ring[th[t].q].val
ClaimsTake(t) ==
  LET q == th[t].q
  IN /\ Claiming(t) /\ Takes(th[t].op)
     /\ ring'[q].puts = ring[q].puts /\ ring'[q].in = ring[q].in
     /\ ring'[q].takes = ring[q].takes + 1 /\ ring'[q].out = Wrap(ring[q].out + 1)
ClaimsPut(t) ==
  LET q == th[t].q
  IN /\ Claiming(t) /\ ~Takes(th[t].op)
     /\ ring'[q].puts = ring[q].puts + 1 /\ ring'[q].in = Wrap(ring[q].in + 1)
     /\ ring'[q].takes = ring[q].takes /\ ring'[q].out = ring[q].out

\* It publishes the cell it has claimed.
Publishing(t) ==
  LET q == th[t].q
  IN /\ Alone(t) /\ th[t].pc = "publish" /\ th'[t].pc \notin RingPcs
     /\ q \in Rings /\ Cell(t) \in 0 .. Cap(q) - 1 /\ Untouched(q)
     /\ ring'[q].puts = ring[q].puts /\ ring'[q].in = ring[q].in
     /\ ring'[q].takes = ring[q].takes /\ ring'[q].out = ring[q].out
     /\ ring'[q].seq = [ring[q].seq EXCEPT ![Cell(t)] = Published(th[t].op, th[t].cur, Cap(q))]
PublishesTake(t) ==
  LET q == th[t].q
  IN /\ Publishing(t) /\ Takes(th[t].op) /\ ring'[q].val = ring[q].val
     /\ th'[t].mine = th[t].mine \cup {ring[q].val[Cell(t)]}
PublishesPut(t) ==
  LET q == th[t].q
  IN /\ Publishing(t) /\ ~Takes(th[t].op) /\ ring'[q].val = [ring[q].val EXCEPT ![Cell(t)] = th[t].val]
     /\ th'[t].mine = th[t].mine \ {th[t].val}

Shaped(t) ==
  \/ Looks(t) \/ Finds(t) \/ Elsewhere(t)
  \/ ClaimsTake(t) \/ ClaimsPut(t) \/ PublishesTake(t) \/ PublishesPut(t)

LEMMA ElsewhereShape ==
  ASSUME NEW t \in Actors, NEW r, Turns(t, r), ring' = ring, th[t].pc # "publish", r.mine = th[t].mine,
         r.pc \notin {"seq", "cas", "publish"}
  PROVE  Shaped(t)
  BY DEF Turns, Shaped, Elsewhere, Quiet, Alone

LEMMA RingShape ==
  ASSUME TypeOK, CallInv, NEW t \in Actors, Load(t) \/ LoadSequence(t) \/ Advance(t) \/ Publish(t)
  PROVE  Shaped(t)
  <1>1. th[t] \in ThreadState
    BY DEF TypeOK
  <1>2. \A r : Turns(t, r) => Alone(t) /\ th'[t] = r
    BY DEF Turns, Alone
  <1>3. ASSUME ring' = ring, th[t].pc \in {"load", "cas"},
               Turns(t, [th[t] EXCEPT !.cur = Cursor(t), !.at = Turn(t), !.pc = "seq"])
        PROVE  Looks(t)
    <2>1. th'[t] = [th[t] EXCEPT !.cur = Cursor(t), !.at = Turn(t), !.pc = "seq"] /\ Alone(t)
      BY <1>2, <1>3, Zenon
    <2>2. /\ th'[t].cur = Cursor(t) /\ th'[t].at = Turn(t) /\ th'[t].pc = "seq" /\ th'[t].mine = th[t].mine
          /\ th'[t].op = th[t].op /\ th'[t].q = th[t].q
      BY <1>1, <2>1 DEF ThreadState
    <2> QED
      BY <1>3, <2>1, <2>2 DEF Looks, Quiet, RingPcs
  <1>4. CASE Load(t)
    <2>1. ring' = ring
      BY <1>4 DEF Load
    <2> QED
      BY <1>3, <1>4, <2>1, LoadIs, Zenon DEF Shaped
  <1>5. CASE LoadSequence(t)
    <2> DEFINE d == Diff(ring[th[t].q].seq[Cell(t)], Expected(th[t].op, th[t].cur))
               pc == IF d = 0 THEN "cas" ELSE IF d < 0 /\ th[t].op # "release" THEN th[t].no ELSE "load"
    <2>1. ring' = ring
      BY <1>5 DEF LoadSequence
    <2>2. th[t].pc = "seq" /\ Turns(t, [th[t] EXCEPT !.pc = pc])
      BY <1>5, LoadSequenceIs, Zenon
    <2>3. /\ th'[t].cur = th[t].cur /\ th'[t].at = th[t].at /\ th'[t].pc = pc /\ th'[t].mine = th[t].mine
          /\ th'[t].op = th[t].op /\ th'[t].q = th[t].q /\ Alone(t)
      <3> HIDE DEF pc
      <3> QED
        BY <1>1, <1>2, <2>2 DEF ThreadState
    <2>4. th[t].no \in {"hop", "drop", "cursor", "load"}
      BY <2>2 DEF CallInv, CallOf, RingPcs
    <2>5. CASE d = 0
      BY <2>1, <2>2, <2>3, <2>5 DEF Shaped, Finds, Quiet
    <2>6. CASE d # 0
      <3>1. pc \in {"hop", "drop", "cursor", "load"}
        BY <2>4, <2>6
      <3> HIDE DEF d, pc
      <3> QED
        BY <2>1, <2>2, <2>3, <3>1 DEF Shaped, Elsewhere, Quiet
    <2> QED
      BY <2>5, <2>6
  <1>6. CASE Advance(t)
    <2>1. th[t].pc = "cas" /\ th[t].q \in Rings
      BY <1>6, AdvanceIs, Zenon
    <2>2. CASE ~Claims(t)
      BY <1>3, <1>6, <2>1, <2>2, AdvanceIs, AdvanceMakes, Zenon DEF Shaped
    <2>3. CASE Claims(t)
      <3>1. Turns(t, [th[t] EXCEPT !.pc = "publish"])
        BY <1>6, <2>3, AdvanceIs, Zenon
      <3>2. /\ th'[t].cur = th[t].cur /\ th'[t].at = th[t].at /\ th'[t].pc = "publish" /\ th'[t].mine = th[t].mine
            /\ th'[t].op = th[t].op /\ th'[t].q = th[t].q /\ th'[t].val = th[t].val /\ Alone(t)
        BY <1>1, <1>2, <3>1 DEF ThreadState
      <3>3. PICK q \in Rings : q = th[t].q
        BY <2>1
      <3>4. ring[q] \in RingType[q]
        BY DEF TypeOK, RingType
      <3>5. CASE Takes(th[t].op)
        <4>1. Holds(q, [ring[q] EXCEPT !.out = Wrap(ring[q].out + 1), !.takes = ring[q].takes + 1])
          BY <1>6, <2>3, <3>3, <3>5, AdvanceMakes, Zenon
        <4>2. /\ ring'[q].puts = ring[q].puts /\ ring'[q].in = ring[q].in
              /\ ring'[q].takes = ring[q].takes + 1 /\ ring'[q].out = Wrap(ring[q].out + 1)
              /\ ring'[q].seq = ring[q].seq /\ ring'[q].val = ring[q].val
          BY <3>4, <4>1 DEF Holds, RingType
        <4>3. Untouched(q)
          BY <4>1 DEF Holds, Untouched
        <4> QED
          BY <2>1, <2>3, <3>2, <3>3, <3>5, <4>2, <4>3, Zenon DEF Shaped, ClaimsTake, Claiming
      <3>6. CASE ~Takes(th[t].op)
        <4>1. Holds(q, [ring[q] EXCEPT !.in = Wrap(ring[q].in + 1), !.puts = ring[q].puts + 1])
          BY <1>6, <2>3, <3>3, <3>6, AdvanceMakes, Zenon
        <4>2. /\ ring'[q].puts = ring[q].puts + 1 /\ ring'[q].in = Wrap(ring[q].in + 1)
              /\ ring'[q].takes = ring[q].takes /\ ring'[q].out = ring[q].out
              /\ ring'[q].seq = ring[q].seq /\ ring'[q].val = ring[q].val
          BY <3>4, <4>1 DEF Holds, RingType
        <4>3. Untouched(q)
          BY <4>1 DEF Holds, Untouched
        <4> QED
          BY <2>1, <2>3, <3>2, <3>3, <3>6, <4>2, <4>3, Zenon DEF Shaped, ClaimsPut, Claiming
      <3> QED
        BY <3>5, <3>6
    <2> QED
      BY <2>2, <2>3
  <1>7. CASE Publish(t)
    <2>1. th[t].pc = "publish" /\ th[t].q \in Rings /\ Cell(t) \in 0 .. Cap(th[t].q) - 1
      BY <1>7, PublishIs, Zenon
    <2>2. PICK q \in Rings : q = th[t].q
      BY <2>1
    <2>3. ring[q] \in RingType[q]
      BY DEF TypeOK, RingType
    <2>4. th[t].ok \notin RingPcs
      BY <2>1 DEF CallInv, CallOf, RingPcs
    <2> DEFINE s == [ring[q].seq EXCEPT ![Cell(t)] = Published(th[t].op, th[t].cur, Cap(q))]
    <2>5. CASE Takes(th[t].op)
      <3>1. PICK v : v = ring[q].val[Cell(t)]
        OBVIOUS
      <3>2. Turns(t, [th[t] EXCEPT !.pc = th[t].ok, !.cur = 0, !.at = 0, !.val = v, !.mine = th[t].mine \cup {v}])
        BY <1>7, <2>2, <2>5, <3>1, PublishIs, Zenon
      <3>3. Holds(q, [ring[q] EXCEPT !.seq = s])
        BY <1>7, <2>2, <2>5, PublishMakes, Zenon
      <3> HIDE DEF s
      <3>0. /\ th'[t] = [th[t] EXCEPT !.pc = th[t].ok, !.cur = 0, !.at = 0, !.val = v, !.mine = th[t].mine \cup {v}]
            /\ Alone(t)
        BY <1>2, <3>2, Zenon
      <3>4. th'[t].pc = th[t].ok /\ th'[t].mine = th[t].mine \cup {v} /\ Alone(t)
        BY <1>1, <3>0 DEF ThreadState
      <3>5. /\ ring'[q].puts = ring[q].puts /\ ring'[q].in = ring[q].in
            /\ ring'[q].takes = ring[q].takes /\ ring'[q].out = ring[q].out
            /\ ring'[q].seq = s /\ ring'[q].val = ring[q].val
        BY <2>3, <3>3 DEF Holds, RingType
      <3>6. Untouched(q)
        BY <3>3 DEF Holds, Untouched
      <3>7. Publishing(t)
        BY <2>1, <2>2, <2>4, <3>4, <3>5, <3>6, Zenon DEF Publishing, s
      <3> QED
        BY <2>2, <2>5, <3>1, <3>4, <3>5, <3>7, Zenon DEF Shaped, PublishesTake
    <2>6. CASE ~Takes(th[t].op)
      <3> DEFINE w == [ring[q].val EXCEPT ![Cell(t)] = th[t].val]
      <3>2. Turns(t, [th[t] EXCEPT !.pc = th[t].ok, !.cur = 0, !.at = 0, !.val = 0, !.mine = th[t].mine \ {th[t].val}])
        BY <1>7, <2>6, PublishIs, Zenon
      <3>3. Holds(q, [ring[q] EXCEPT !.seq = s, !.val = w])
        BY <1>7, <2>2, <2>6, PublishMakes, Zenon
      <3> HIDE DEF s, w
      <3>0. /\ th'[t] = [th[t] EXCEPT !.pc = th[t].ok, !.cur = 0, !.at = 0, !.val = 0,
                                      !.mine = th[t].mine \ {th[t].val}]
            /\ Alone(t)
        BY <1>2, <3>2, Zenon
      <3>4. th'[t].pc = th[t].ok /\ th'[t].mine = th[t].mine \ {th[t].val} /\ Alone(t)
        BY <1>1, <3>0 DEF ThreadState
      <3>5. /\ ring'[q].puts = ring[q].puts /\ ring'[q].in = ring[q].in
            /\ ring'[q].takes = ring[q].takes /\ ring'[q].out = ring[q].out
            /\ ring'[q].seq = s /\ ring'[q].val = w
        BY <2>3, <3>3 DEF Holds, RingType
      <3>6. Untouched(q)
        BY <3>3 DEF Holds, Untouched
      <3>7. Publishing(t)
        BY <2>1, <2>2, <2>4, <3>4, <3>5, <3>6, Zenon DEF Publishing, s
      <3> QED
        BY <2>2, <2>6, <3>4, <3>5, <3>7, Zenon DEF Shaped, PublishesPut, w
    <2> QED
      BY <2>5, <2>6
  <1> QED
    BY <1>4, <1>5, <1>6, <1>7


LEMMA Shapes ==
  ASSUME TypeOK, CallInv, HandInv, [Next]_vars
  PROVE  UNCHANGED vars \/ \E t \in Actors : Shaped(t)
  <1>1. ASSUME NEW t \in Actors PROVE th[t] \in ThreadState /\ CallOf(t) /\ HandOf(th[t])
    BY DEF TypeOK, CallInv, HandInv
  <1>2. ASSUME NEW t \in Actors, NEW r, ring' = ring, th[t].got = <<>>, ~Loaded(th[t]), th[t].pc # "publish",
               Turns(t, r), r = Rest \/ r = [Rest EXCEPT !.lane = th[t].lane]
        PROVE  Shaped(t)
    <2>1. r.pc = "rest" /\ r.mine = {}
      BY <1>2 DEF Rest
    <2>2. th[t].mine = {}
      BY <1>1, <1>2, HandRested, Zenon
    <2> QED
      BY <1>2, <2>1, <2>2, ElsewhereShape, Zenon
  <1>3. ASSUME NEW t \in Actors, Hop(t) PROVE Shaped(t)
    <2>1. ring' = ring /\ th[t].pc = "hop" /\ ~Loaded(th[t]) /\ th[t].got = <<>>
      BY <1>1, <1>3 DEF Hop, CallOf, Loaded, HandOf, RingPcs
    <2>2. ASSUME NEW q, NEW h, Turns(t, [th[t] EXCEPT !.pc = "load", !.hops = h, !.q = q])
          PROVE  Shaped(t)
      <3>1. PICK r : r = [th[t] EXCEPT !.pc = "load", !.hops = h, !.q = q] /\ Turns(t, r)
        BY <2>2
      <3>2. r.pc = "load" /\ r.mine = th[t].mine
        BY <1>1, <3>1 DEF ThreadState
      <3> QED
        BY <2>1, <3>1, <3>2, ElsewhereShape, Zenon
    <2> QED
      BY <1>2, <1>3, <2>1, <2>2, HopIs, Zenon
  <1>4. ASSUME NEW t \in Actors, Arrive(t) PROVE Shaped(t)
    <2>1. ring' = ring /\ th[t].pc = "arrived"
      BY <1>4 DEF Arrive
    <2>2. PICK r : /\ Turns(t, r)
                   /\ \/ r = [th[t] EXCEPT !.pc = "drop"]
                      \/ \E p, q : r = [th[t] EXCEPT !.pc = "load", !.op = "push", !.q = q, !.peer = p,
                                                     !.ok = "pin", !.no = "drop"]
      BY <1>4, ArriveIs, Zenon
    <2>3. r.mine = th[t].mine /\ r.pc \in {"drop", "load"}
      BY <1>1, <2>1, <2>2, Zenon DEF ThreadState
    <2> QED
      BY <2>1, <2>2, <2>3, ElsewhereShape, Zenon
  <1>5. ASSUME NEW t \in Actors, Drop(t) \/ Return(t) \/ Give(t) PROVE Shaped(t)
    <2>1. ring' = ring /\ th[t].pc \in {"drop", "borrowed", "give"}
      BY <1>5 DEF Drop, Return, Give
    <2>2. ASSUME NEW i, NEW got, NEW ok,
                 Turns(t, [th[t] EXCEPT !.pc = "load", !.op = "release", !.q = Home(i), !.val = i, !.got = got,
                                        !.ok = ok, !.no = "load"])
          PROVE  Shaped(t)
      <3>1. PICK r : /\ r = [th[t] EXCEPT !.pc = "load", !.op = "release", !.q = Home(i), !.val = i, !.got = got,
                                          !.ok = ok, !.no = "load"]
                     /\ Turns(t, r)
        BY <2>2
      <3>2. r.mine = th[t].mine /\ r.pc = "load"
        BY <1>1, <3>1 DEF ThreadState
      <3> QED
        BY <2>1, <3>1, <3>2, ElsewhereShape, Zenon
    <2>3. CASE Drop(t)
      BY <2>2, <2>3, DropIs, Zenon
    <2>4. CASE Return(t)
      BY <2>2, <2>4, ReturnIs, Zenon
    <2>5. CASE Give(t)
      <3>1. th[t].pc = "give" /\ ~Loaded(th[t])
        BY <2>5 DEF Give, Loaded, RingPcs
      <3> QED
        BY <1>2, <2>1, <2>2, <2>5, <3>1, GiveIs, Zenon
    <2> QED
      BY <1>5, <2>3, <2>4, <2>5
  <1>6. ASSUME NEW t \in Actors, Update(t) \/ Borrow(t) \/ Pass(t) PROVE Shaped(t)
    <2>1. ring' = ring /\ th[t].pc \in {"rest", "pass"} /\ ~Loaded(th[t]) /\ th[t].got = <<>>
      BY <1>1, <1>6 DEF Update, Borrow, Pass, Loaded, HandOf, RingPcs
    <2>2. ASSUME NEW q, NEW h, NEW ok,
                 Turns(t, [th[t] EXCEPT !.pc = "load", !.op = "acquire", !.q = q, !.hops = h, !.ok = ok, !.no = "hop"])
          PROVE  Shaped(t)
      <3>1. PICK r : /\ r = [th[t] EXCEPT !.pc = "load", !.op = "acquire", !.q = q, !.hops = h, !.ok = ok, !.no = "hop"]
                     /\ Turns(t, r)
        BY <2>2
      <3>2. r.pc = "load" /\ r.mine = th[t].mine
        BY <1>1, <3>1 DEF ThreadState
      <3> QED
        BY <2>1, <3>1, <3>2, ElsewhereShape, Zenon
    <2>3. CASE Update(t)
      BY <2>2, <2>3, UpdateIs, Zenon
    <2>4. CASE Borrow(t)
      BY <2>2, <2>4, BorrowIs, Zenon
    <2>5. CASE Pass(t)
      <3>1. th[t].pc = "pass"
        BY <2>5 DEF Pass
      <3> QED
        BY <1>2, <2>1, <2>2, <2>5, <3>1, PassIs, Zenon
    <2> QED
      BY <1>6, <2>3, <2>4, <2>5
  <1>7. ASSUME NEW t \in Actors, ClaimLane(t) PROVE Shaped(t)
    <2>1. ring' = ring /\ th[t].pc = "claim" /\ ~Loaded(th[t]) /\ th[t].got = <<>>
      BY <1>1, <1>7 DEF ClaimLane, Loaded, HandOf, RingPcs
    <2>2. ASSUME NEW r, Turns(t, r),
                 \/ r = [th[t] EXCEPT !.pc = "load", !.op = "pop", !.q = <<"lane", th[t].lane>>, !.tries = 0,
                                      !.ok = "popped", !.no = "cursor"]
                 \/ \E n, l : r = [th[t] EXCEPT !.tries = n, !.lane = l]
          PROVE  Shaped(t)
      <3>1. r.pc \in {"claim", "load"} /\ r.mine = th[t].mine
        BY <1>1, <2>1, <2>2, Zenon DEF ThreadState
      <3> QED
        BY <2>1, <2>2, <3>1, ElsewhereShape, Zenon
    <2> QED
      BY <1>2, <1>7, <2>1, <2>2, ClaimLaneIs, Zenon
  <1>8. ASSUME NEW t \in Actors, Popped(t) PROVE Shaped(t)
    <2>1. ring' = ring /\ th[t].pc = "popped"
      BY <1>8 DEF Popped
    <2>2. PICK r : /\ Turns(t, r)
                   /\ \/ r = [th[t] EXCEPT !.pc = "load", !.op = "pop", !.got = Append(th[t].got, th[t].val),
                                           !.ok = "popped", !.no = "cursor"]
                      \/ r = [th[t] EXCEPT !.pc = "cursor", !.got = Append(th[t].got, th[t].val)]
      BY <1>8, PoppedIs, Zenon
    <2>3. r.mine = th[t].mine /\ r.pc \in {"cursor", "load"}
      BY <1>1, <2>2, Zenon DEF ThreadState
    <2> QED
      BY <2>1, <2>2, <2>3, ElsewhereShape
  <1>9. ASSUME NEW t \in Actors, ReadNext(t) \/ EndCursor(t) \/ PinOne(t) \/ Poll(t) PROVE Shaped(t)
    <2>1. ring' = ring /\ th[t].pc \in {"cursor", "pin", "rest"}
      BY <1>9, Zenon DEF ReadNext, EndCursor, PinOne, Poll
    <2>2. PICK r : /\ Turns(t, r)
                   /\ \/ r = [th[t] EXCEPT !.seen = th[t].seen + 1] \/ r = [th[t] EXCEPT !.pc = "give"]
                      \/ r = [th[t] EXCEPT !.pc = "pass"] \/ r = [th[t] EXCEPT !.pc = "claim", !.tries = Lanes]
      BY <1>9, ReadNextIs, EndCursorIs, PinOneIs, PollIs, Zenon
    <2>3. r.pc \in {"cursor", "pin", "rest", "give", "pass", "claim"} /\ r.mine = th[t].mine
      BY <1>1, <2>1, <2>2, Zenon DEF ThreadState
    <2> QED
      BY <2>1, <2>2, <2>3, ElsewhereShape
  <1> QED
    BY <1>3, <1>4, <1>5, <1>6, <1>7, <1>8, <1>9, RingShape, Zenon DEF Next, Step

-----------------------------------------------------------------------------
(* The rings. *)

RingsInv == \A q \in Rings : RingInv(q)

LEMMA RingFacts ==
  ASSUME TypeOK, NEW q \in Rings
  PROVE  /\ ring[q].puts \in Int /\ ring[q].takes \in Int /\ ring[q].in \in Word /\ ring[q].out \in Word
         /\ ring[q].seq \in [0 .. Cap(q) - 1 -> Word] /\ ring[q].val \in [0 .. Cap(q) - 1 -> Indices]
         /\ Cap(q) \in Nat \ {0} /\ 2 * Cap(q) < Modulus /\ Modulus \in Nat \ {0}
  BY Sizes DEF TypeOK

LEMMA ThreadFacts ==
  ASSUME TypeOK, NEW t \in Actors
  PROVE  /\ th[t].at \in Int /\ th[t].cur \in Word /\ th[t].cur \in Int /\ th[t].val \in Indices
         /\ th[t].mine \subseteq Indices /\ th[t].lane \in 0 .. Lanes - 1
  BY Sizes DEF TypeOK, ThreadState, Word

\* What is claimed and not published, before and after a step.
LEMMA QuietPending ==
  ASSUME NEW t \in Actors, Quiet(t), NEW q, NEW m
  PROVE  (PutPending(q, m)' <=> PutPending(q, m)) /\ (TakePending(q, m)' <=> TakePending(q, m))
  <1>1. ASSUME NEW u \in Actors PROVE (Puts(u, q, m)' <=> Puts(u, q, m)) /\ (Grabs(u, q, m)' <=> Grabs(u, q, m))
    <2>1. CASE u = t
      BY <2>1 DEF Quiet, Puts, Grabs
    <2>2. CASE u # t
      BY <2>2 DEF Quiet, Alone, Puts, Grabs
    <2> QED
      BY <2>1, <2>2
  <1> QED
    BY <1>1, Zenon DEF PutPending, TakePending

LEMMA ClaimPending ==
  ASSUME NEW t \in Actors, Claiming(t), NEW q, NEW m
  PROVE  LET it == q = th[t].q /\ m = th[t].at
         IN /\ PutPending(q, m)' <=> PutPending(q, m) \/ (it /\ ~Takes(th[t].op))
            /\ TakePending(q, m)' <=> TakePending(q, m) \/ (it /\ Takes(th[t].op))
  <1> DEFINE it == q = th[t].q /\ m = th[t].at
  <1>1. ASSUME NEW u \in Actors, u # t
        PROVE  (Puts(u, q, m)' <=> Puts(u, q, m)) /\ (Grabs(u, q, m)' <=> Grabs(u, q, m))
    BY <1>1 DEF Claiming, Alone, Puts, Grabs
  <1>2. ~Puts(t, q, m) /\ ~Grabs(t, q, m)
    BY DEF Claiming, Puts, Grabs
  <1>3. (Puts(t, q, m)' <=> it /\ ~Takes(th[t].op)) /\ (Grabs(t, q, m)' <=> it /\ Takes(th[t].op))
    BY DEF Claiming, Puts, Grabs
  <1> HIDE DEF it
  <1>4. PutPending(q, m)' <=> PutPending(q, m) \/ (it /\ ~Takes(th[t].op))
    BY <1>1, <1>2, <1>3, Zenon DEF PutPending
  <1>5. TakePending(q, m)' <=> TakePending(q, m) \/ (it /\ Takes(th[t].op))
    BY <1>1, <1>2, <1>3, Zenon DEF TakePending
  <1> QED
    BY <1>4, <1>5, Zenon DEF it

LEMMA PublishPending ==
  ASSUME NEW t \in Actors, Publishing(t), ClaimsInv, NEW q, NEW m
  PROVE  LET it == q = th[t].q /\ m = th[t].at
         IN /\ PutPending(q, m)' <=> PutPending(q, m) /\ ~it
            /\ TakePending(q, m)' <=> TakePending(q, m) /\ ~it
            /\ it => (PutPending(q, m) <=> ~Takes(th[t].op)) /\ (TakePending(q, m) <=> Takes(th[t].op))
  <1> DEFINE it == q = th[t].q /\ m = th[t].at
  <1>1. ASSUME NEW u \in Actors, u # t
        PROVE  /\ (Puts(u, q, m)' <=> Puts(u, q, m)) /\ (Grabs(u, q, m)' <=> Grabs(u, q, m))
               /\ it => ~Puts(u, q, m) /\ ~Grabs(u, q, m)
    BY <1>1, Zenon DEF Publishing, Alone, Puts, Grabs, ClaimsInv
  <1>2. (Puts(t, q, m) <=> it /\ ~Takes(th[t].op)) /\ (Grabs(t, q, m) <=> it /\ Takes(th[t].op))
    BY DEF Publishing, Puts, Grabs
  <1>3. ~Puts(t, q, m)' /\ ~Grabs(t, q, m)'
    BY DEF Publishing, Puts, Grabs, RingPcs
  <1> HIDE DEF it
  <1>4. PutPending(q, m)' <=> PutPending(q, m) /\ ~it
    BY <1>1, <1>2, <1>3, Zenon DEF PutPending
  <1>5. TakePending(q, m)' <=> TakePending(q, m) /\ ~it
    BY <1>1, <1>2, <1>3, Zenon DEF TakePending
  <1>6. it => (PutPending(q, m) <=> ~Takes(th[t].op))
    BY <1>1, <1>2, Zenon DEF PutPending
  <1>7. it => (TakePending(q, m) <=> Takes(th[t].op))
    BY <1>1, <1>2, Zenon DEF TakePending
  <1> QED
    BY <1>4, <1>5, <1>6, <1>7, Zenon DEF it

\* A compare-exchange that succeeds finds the position it has loaded: the cursor has not
\* gone around.  The cell of that position is ready.
LEMMA ClaimsItsTurn ==
  ASSUME TypeOK, RingsInv, LoadedInv, NoLap, NEW t \in Actors, Claiming(t)
  PROVE  /\ th[t].at = Turn(t)
         /\ IF Takes(th[t].op) THEN FullNext(th[t].q) ELSE FreeNext(th[t].q)
  <1>1. PICK q \in Rings : q = th[t].q
    BY DEF Claiming
  <1>2. ring[q].in = Wrap(ring[q].puts) /\ ring[q].out = Wrap(ring[q].takes)
    BY DEF RingsInv, RingInv
  <1>3. Cursor(t) = Wrap(Turn(t)) /\ Turn(t) \in Int
    BY <1>1, <1>2, RingFacts DEF Cursor, Turn
  <1>4. th[t].pc = "cas" /\ Cursor(t) = th[t].cur
    BY DEF Claiming, Claims
  <1>5. th[t].cur = Wrap(th[t].at) /\ th[t].at <= Turn(t) /\ Turn(t) - th[t].at < Modulus
    BY <1>4 DEF LoadedInv, LoadedOf, NoLap
  <1>6. th[t].at \in Int /\ Modulus \in Nat \ {0}
    BY ThreadFacts, Sizes
  <1>7. -Modulus < Turn(t) - th[t].at
    BY <1>3, <1>5, <1>6
  <1>8. th[t].at = Turn(t)
    BY <1>3, <1>4, <1>5, <1>6, <1>7, Wrapped, Zenon
  <1> QED
    BY <1>4, <1>8 DEF LoadedInv, LoadedOf


\* A ring that no step touches, with the same claims on it.
LEMMA RingKept ==
  ASSUME NEW w \in Rings, RingInv(w), ring'[w] = ring[w],
         \A m : (PutPending(w, m)' <=> PutPending(w, m)) /\ (TakePending(w, m)' <=> TakePending(w, m))
  PROVE  RingInv(w)'
  <1>1. ASSUME NEW m PROVE Stamp(w, m)' = Stamp(w, m)
    BY DEF Stamp
  <1> QED
    BY <1>1 DEF RingInv

LEMMA ClaimPutRing ==
  ASSUME TypeOK, RingsInv, LoadedInv, NoLap, NEW t \in Actors, ClaimsPut(t)
  PROVE  RingsInv'
  <1>1. PICK q \in Rings : q = th[t].q
    BY DEF ClaimsPut, Claiming
  <1> DEFINE P == ring[q].puts
             T == ring[q].takes
             N == Cap(q)
  <1>2. P \in Int /\ T \in Int /\ N \in Nat \ {0} /\ th[t].at = P
    BY <1>1, RingFacts, ClaimsItsTurn, Zenon DEF ClaimsPut, Turn
  <1>3. P - N < T /\ ~TakePending(q, P - N)
    BY <1>1, ClaimsItsTurn, Zenon DEF ClaimsPut, FreeNext
  <1>4. T <= P /\ P <= T + N /\ ring[q].in = Wrap(P) /\ ring[q].out = Wrap(T)
    BY DEF RingsInv, RingInv
  <1>5. \A m \in P - N .. P - 1 : ring[q].seq[m % N] = Stamp(q, m)
    BY DEF RingsInv, RingInv
  <1>6. /\ ring'[q].puts = P + 1 /\ ring'[q].in = Wrap(ring[q].in + 1) /\ ring'[q].takes = T
        /\ ring'[q].out = ring[q].out /\ ring'[q].seq = ring[q].seq
    BY <1>1 DEF ClaimsPut, Claiming
  <1>7. \A w, m : /\ PutPending(w, m)' <=> PutPending(w, m) \/ (w = q /\ m = P)
                  /\ TakePending(w, m)' <=> TakePending(w, m)
    BY <1>1, <1>2, ClaimPending, Zenon DEF ClaimsPut
  <1>8. RingInv(q)'
    <2>1. T <= P + 1 /\ P + 1 <= T + N
      BY <1>2, <1>3, <1>4
    <2>2. Wrap(ring[q].in + 1) = Wrap(P + 1)
      <3>1. P \in Int /\ 1 \in Int
        BY <1>2
      <3>2. Wrap(Wrap(P) + 1) = Wrap(P + 1)
        BY <3>1, Wrapped, Zenon
      <3> QED
        BY <1>4, <3>2
    <2>3. ASSUME NEW m \in (P + 1) - N .. (P + 1) - 1 PROVE ring[q].seq[m % N] = Stamp(q, m)'
      <3>1. CASE m = P
        <4>1. m >= T /\ PutPending(q, m)'
          BY <1>2, <1>4, <1>7, <3>1
        <4>2. Stamp(q, m)' = Wrap(P)
          BY <1>6, <3>1, <4>1 DEF Stamp
        <4>3. P - N \in P - N .. P - 1 /\ ~(P - N >= T) /\ P - N + N = P
          BY <1>2, <1>3
        <4>4. Stamp(q, P - N) = Wrap(P)
          BY <1>3, <4>3 DEF Stamp
        <4>5. (P - N) % N = P % N
          BY <1>2, Cells, Zenon
        <4>6. ring[q].seq[(P - N) % N] = Wrap(P)
          BY <1>5, <4>3, <4>4
        <4> QED
          BY <3>1, <4>2, <4>5, <4>6
      <3>2. CASE m # P
        <4>1. m \in P - N .. P - 1
          BY <1>2, <3>2
        <4>2. Stamp(q, m)' = Stamp(q, m)
          BY <1>6, <1>7, <3>2 DEF Stamp
        <4> QED
          BY <1>5, <4>1, <4>2
      <3> QED
        BY <3>1, <3>2
    <2> QED
      BY <1>4, <1>6, <2>1, <2>2, <2>3 DEF RingInv
  <1>9. ASSUME NEW w \in Rings, w # q PROVE RingInv(w)'
    <2>1. ring'[w] = ring[w]
      BY <1>1, <1>9 DEF ClaimsPut, Claiming, Untouched
    <2>2. RingInv(w)
      BY DEF RingsInv
    <2> QED
      BY <1>7, <1>9, <2>1, <2>2, RingKept
  <1> QED
    BY <1>8, <1>9 DEF RingsInv

LEMMA ClaimTakeRing ==
  ASSUME TypeOK, RingsInv, LoadedInv, NoLap, NEW t \in Actors, ClaimsTake(t)
  PROVE  RingsInv'
  <1>1. PICK q \in Rings : q = th[t].q
    BY Zenon DEF ClaimsTake, Claiming
  <1> DEFINE P == ring[q].puts
             T == ring[q].takes
             N == Cap(q)
  <1>2. P \in Int /\ T \in Int /\ N \in Nat \ {0} /\ th[t].at = T
    BY <1>1, RingFacts, ClaimsItsTurn, Zenon DEF ClaimsTake, Turn
  <1>3. T < P /\ ~PutPending(q, T)
    BY <1>1, ClaimsItsTurn, Zenon DEF ClaimsTake, FullNext
  <1>4. T <= P /\ P <= T + N /\ ring[q].in = Wrap(P) /\ ring[q].out = Wrap(T)
    BY DEF RingsInv, RingInv
  <1>5. \A m \in P - N .. P - 1 : ring[q].seq[m % N] = Stamp(q, m)
    BY DEF RingsInv, RingInv
  <1>6. /\ ring'[q].takes = T + 1 /\ ring'[q].out = Wrap(ring[q].out + 1) /\ ring'[q].puts = P
        /\ ring'[q].in = ring[q].in /\ ring'[q].seq = ring[q].seq
    BY <1>1 DEF ClaimsTake, Claiming
  <1>7. \A w, m : /\ PutPending(w, m)' <=> PutPending(w, m)
                  /\ TakePending(w, m)' <=> TakePending(w, m) \/ (w = q /\ m = T)
    BY <1>1, <1>2, ClaimPending, Zenon DEF ClaimsTake
  <1>8. RingInv(q)'
    <2>1. T + 1 <= P /\ P <= T + 1 + N
      BY <1>2, <1>3, <1>4
    <2>2. Wrap(ring[q].out + 1) = Wrap(T + 1)
      <3>1. T \in Int /\ 1 \in Int
        BY <1>2
      <3>2. Wrap(Wrap(T) + 1) = Wrap(T + 1)
        BY <3>1, Wrapped, Zenon
      <3> QED
        BY <1>4, <3>2
    <2>3. ASSUME NEW m \in P - N .. P - 1 PROVE ring[q].seq[m % N] = Stamp(q, m)'
      <3>1. CASE m = T
        <4>1. ~(m >= T + 1) /\ TakePending(q, m)'
          BY <1>2, <1>7, <3>1
        <4>2. Stamp(q, m)' = Wrap(T + 1)
          BY <1>6, <3>1, <4>1 DEF Stamp
        <4>3. Stamp(q, m) = Wrap(T + 1)
          BY <1>2, <1>3, <3>1 DEF Stamp
        <4> QED
          BY <1>5, <4>2, <4>3
      <3>2. CASE m # T
        <4>1. m >= T <=> m >= T + 1
          BY <1>2, <3>2
        <4>2. Stamp(q, m)' = Stamp(q, m)
          BY <1>6, <1>7, <3>2, <4>1 DEF Stamp
        <4> QED
          BY <1>5, <4>2
      <3> QED
        BY <3>1, <3>2
    <2> QED
      BY <1>4, <1>6, <2>1, <2>2, <2>3 DEF RingInv
  <1>9. ASSUME NEW w \in Rings, w # q PROVE RingInv(w)'
    <2>1. ring'[w] = ring[w]
      BY <1>1, <1>9 DEF ClaimsTake, Claiming, Untouched
    <2>2. RingInv(w)
      BY DEF RingsInv
    <2> QED
      BY <1>7, <1>9, <2>1, <2>2, RingKept, Zenon
  <1> QED
    BY <1>8, <1>9 DEF RingsInv

\* The cell a thread has claimed is that of its position, inside the window.
LEMMA ClaimedCell ==
  ASSUME TypeOK, RingsInv, LoadedInv, ClaimsInv, NEW t \in Actors, th[t].pc = "publish", NEW q \in Rings, q = th[t].q
  PROVE  /\ th[t].at \in ring[q].puts - Cap(q) .. ring[q].puts - 1
         /\ Cell(t) = th[t].at % Cap(q) /\ th[t].cur = Wrap(th[t].at)
         /\ Takes(th[t].op) => ~(th[t].at >= ring[q].takes)
         /\ ~Takes(th[t].op) => th[t].at >= ring[q].takes
  <1>1. /\ ring[q].puts \in Int /\ ring[q].takes \in Int /\ Cap(q) \in Nat \ {0} /\ th[t].at \in Int
    BY RingFacts, ThreadFacts
  <1>2. th[t].cur = Wrap(th[t].at)
    BY DEF LoadedInv, LoadedOf
  <1>3. IF Takes(th[t].op) THEN th[t].at \in ring[q].puts - Cap(q) .. ring[q].takes - 1
                           ELSE th[t].at \in ring[q].takes .. ring[q].puts - 1
    BY DEF ClaimsInv
  <1>4. ring[q].takes <= ring[q].puts /\ ring[q].puts <= ring[q].takes + Cap(q)
    BY DEF RingsInv, RingInv
  <1>5. Cell(t) = th[t].at % Cap(q)
    BY <1>1, <1>2, Wrapped, Zenon DEF Cell
  <1> QED
    BY <1>1, <1>2, <1>3, <1>4, <1>5

LEMMA PublishRing ==
  ASSUME TypeOK, RingsInv, LoadedInv, ClaimsInv, NEW t \in Actors, Publishing(t)
  PROVE  RingsInv'
  <1>1. PICK q \in Rings : q = th[t].q
    BY DEF Publishing
  <1> DEFINE P == ring[q].puts
             T == ring[q].takes
             N == Cap(q)
             a == th[t].at
  <1>2. /\ P \in Int /\ T \in Int /\ N \in Nat \ {0} /\ a \in Int
        /\ ring[q].seq \in [0 .. N - 1 -> Word]
    BY RingFacts, ThreadFacts
  <1>3. th[t].pc = "publish"
    BY DEF Publishing
  <1>4. /\ a \in P - N .. P - 1 /\ Cell(t) = a % N /\ th[t].cur = Wrap(a)
        /\ Takes(th[t].op) => ~(a >= T)
        /\ ~Takes(th[t].op) => a >= T
    BY <1>1, <1>3, ClaimedCell
  <1>5. /\ ring'[q].puts = P /\ ring'[q].in = ring[q].in /\ ring'[q].takes = T /\ ring'[q].out = ring[q].out
        /\ ring'[q].seq = [ring[q].seq EXCEPT ![Cell(t)] = Published(th[t].op, th[t].cur, N)]
    BY <1>1 DEF Publishing
  <1>6. \A w, m : /\ PutPending(w, m)' <=> PutPending(w, m) /\ ~(w = q /\ m = a)
                  /\ TakePending(w, m)' <=> TakePending(w, m) /\ ~(w = q /\ m = a)
    BY <1>1, PublishPending, Zenon
  <1>7. Published(th[t].op, th[t].cur, N) = IF Takes(th[t].op) THEN Wrap(a + N) ELSE Wrap(a + 1)
    <2>1. Wrap(Wrap(a) + N) = Wrap(a + N) /\ Wrap(Wrap(a) + 1) = Wrap(a + 1)
      <3>1. a \in Int /\ N \in Int /\ 1 \in Int
        BY <1>2
      <3> QED
        BY <3>1, Wrapped, Zenon
    <2> QED
      BY <1>4, <2>1 DEF Published
  <1>8. ASSUME NEW m \in P - N .. P - 1 PROVE ring'[q].seq[m % N] = Stamp(q, m)'
    <2>0. m \in Int
      BY <1>2
    <2>1. m % N \in 0 .. N - 1 /\ a % N \in 0 .. N - 1
      BY <1>2, <2>0, Cells, Zenon
    <2>2. CASE m = a
      <3>1. ring'[q].seq[m % N] = Published(th[t].op, th[t].cur, N)
        BY <1>2, <1>4, <1>5, <2>1, <2>2
      <3>2. ~PutPending(q, m)' /\ ~TakePending(q, m)'
        BY <1>6, <2>2
      <3>3. Stamp(q, m)' = IF Takes(th[t].op) THEN Wrap(a + N) ELSE Wrap(a + 1)
        BY <1>4, <1>5, <2>2, <3>2, Zenon DEF Stamp
      <3> QED
        BY <1>7, <3>1, <3>3
    <2>3. CASE m # a
      <3>1. m % N # a % N
        <4>1. -N < m - a /\ m - a < N
          BY <1>2, <1>4
        <4> QED
          BY <1>2, <2>0, <2>3, <4>1, Cells, Zenon
      <3>2. ring'[q].seq[m % N] = ring[q].seq[m % N]
        BY <1>2, <1>4, <1>5, <2>1, <3>1, Zenon
      <3>3. Stamp(q, m)' = Stamp(q, m)
        BY <1>5, <1>6, <2>3, Zenon DEF Stamp
      <3>4. ring[q].seq[m % N] = Stamp(q, m)
        BY DEF RingsInv, RingInv
      <3> QED
        BY <3>2, <3>3, <3>4
    <2> QED
      BY <2>2, <2>3
  <1>9. RingInv(q)'
    <2>1. T <= P /\ P <= T + N /\ ring[q].in = Wrap(P) /\ ring[q].out = Wrap(T)
      BY DEF RingsInv, RingInv
    <2> QED
      BY <1>5, <1>8, <2>1 DEF RingInv
  <1>10. ASSUME NEW w \in Rings, w # q PROVE RingInv(w)'
    <2>1. ring'[w] = ring[w]
      BY <1>1, <1>10 DEF Publishing, Untouched
    <2>2. RingInv(w)
      BY DEF RingsInv
    <2> QED
      BY <1>6, <1>10, <2>1, <2>2, RingKept
  <1> QED
    BY <1>9, <1>10 DEF RingsInv

LEMMA QuietRing ==
  ASSUME RingsInv, NEW t \in Actors, Quiet(t)
  PROVE  RingsInv'
  <1> SUFFICES ASSUME NEW w \in Rings PROVE RingInv(w)'
    BY DEF RingsInv
  <1>1. RingInv(w) /\ ring'[w] = ring[w]
    BY DEF RingsInv, Quiet
  <1> QED
    BY <1>1, QuietPending, RingKept, Zenon

LEMMA QuietClaims ==
  ASSUME ClaimsInv, NEW t \in Actors, Quiet(t)
  PROVE  ClaimsInv'
  <1>1. ASSUME NEW u \in Actors, th'[u].pc = "publish" PROVE th'[u] = th[u]
    BY <1>1 DEF Quiet, Alone
  <1>2. ring' = ring
    BY DEF Quiet
  <1>3. \A u \in Actors : th'[u].pc = "publish" =>
          LET q == th'[u].q
          IN IF Takes(th'[u].op) THEN th'[u].at \in ring'[q].puts - Cap(q) .. ring'[q].takes - 1
                                 ELSE th'[u].at \in ring'[q].takes .. ring'[q].puts - 1
    BY <1>1, <1>2 DEF ClaimsInv
  <1>4. \A u, v \in Actors :
          th'[u].pc = "publish" /\ th'[v].pc = "publish" /\ th'[u].q = th'[v].q /\ th'[u].at = th'[v].at => u = v
    BY <1>1 DEF ClaimsInv
  <1> QED
    BY <1>3, <1>4 DEF ClaimsInv

\* Claims on other rings, and claims of other threads.
LEMMA ClaimClaims ==
  ASSUME TypeOK, CallInv, RingsInv, ClaimsInv, LoadedInv, NoLap, NEW t \in Actors, ClaimsPut(t) \/ ClaimsTake(t)
  PROVE  ClaimsInv'
  <1>1. PICK q \in Rings : q = th[t].q
    BY Zenon DEF ClaimsPut, ClaimsTake, Claiming
  <1> DEFINE P == ring[q].puts
             T == ring[q].takes
             N == Cap(q)
             a == th[t].at
  <1>2. P \in Int /\ T \in Int /\ N \in Nat \ {0} /\ T <= P /\ P <= T + N
    BY RingFacts DEF RingsInv, RingInv
  <1>3. Claiming(t) /\ th'[t].pc = "publish" /\ th'[t].q = q /\ th'[t].at = a /\ th'[t].op = th[t].op
    BY <1>1, Zenon DEF ClaimsPut, ClaimsTake, Claiming
  <1>4. ASSUME NEW u \in Actors, u # t PROVE th'[u] = th[u]
    BY <1>3, <1>4, Zenon DEF Claiming, Alone
  <1>5. ASSUME NEW w \in Rings, w # q PROVE ring'[w] = ring[w]
    BY <1>1, <1>3, <1>5, Zenon DEF Claiming, Untouched
  <1>6. /\ ~Takes(th[t].op) => a = P /\ P - N < T /\ ~TakePending(q, P - N)
                               /\ ring'[q].puts = P + 1 /\ ring'[q].takes = T
        /\ Takes(th[t].op) => a = T /\ T < P /\ ~PutPending(q, T)
                              /\ ring'[q].puts = P /\ ring'[q].takes = T + 1
    BY <1>1, <1>3, ClaimsItsTurn, Zenon DEF Turn, FullNext, FreeNext, ClaimsPut, ClaimsTake
  <1>7. ASSUME NEW u \in Actors, u # t, th[u].pc = "publish", th[u].q = q
        PROVE  /\ Takes(th[u].op) => th[u].at \in P - N .. T - 1 /\ TakePending(q, th[u].at)
               /\ ~Takes(th[u].op) => th[u].at \in T .. P - 1 /\ PutPending(q, th[u].at)
    BY <1>7 DEF ClaimsInv, TakePending, PutPending, Grabs, Puts
  <1>8. ASSUME NEW u \in Actors, th'[u].pc = "publish"
        PROVE  LET w == th'[u].q
               IN IF Takes(th'[u].op) THEN th'[u].at \in ring'[w].puts - Cap(w) .. ring'[w].takes - 1
                                      ELSE th'[u].at \in ring'[w].takes .. ring'[w].puts - 1
    <2>1. CASE u = t
      <3>1. CASE Takes(th[t].op)
        <4>0. a = T
          BY <1>6, <3>1, Zenon
        <4>1. a \in P - N .. (T + 1) - 1
          BY <1>2, <4>0
        <4> QED
          BY <1>3, <1>6, <2>1, <3>1, <4>1
      <3>2. CASE ~Takes(th[t].op)
        <4>0. a = P
          BY <1>6, <3>2, Zenon
        <4>1. a \in T .. (P + 1) - 1
          BY <1>2, <4>0
        <4> QED
          BY <1>3, <1>6, <2>1, <3>2, <4>1
      <3> QED
        BY <3>1, <3>2, Zenon
    <2>2. CASE u # t /\ th[u].q = q
      <3>1. th'[u] = th[u] /\ th[u].at \in Int
        BY <1>4, <2>2, ThreadFacts
      <3>2. CASE Takes(th[u].op)
        <4>1. th[u].at \in P - N .. T - 1 /\ TakePending(q, th[u].at)
          BY <1>7, <1>8, <2>2, <3>1, <3>2
        <4>2. th[u].at \in ring'[q].puts - N .. ring'[q].takes - 1
          BY <1>2, <1>6, <4>1
        <4> QED
          BY <2>2, <3>1, <3>2, <4>2
      <3>3. CASE ~Takes(th[u].op)
        <4>1. th[u].at \in T .. P - 1 /\ PutPending(q, th[u].at)
          BY <1>7, <1>8, <2>2, <3>1, <3>3
        <4>2. th[u].at \in ring'[q].takes .. ring'[q].puts - 1
          BY <1>2, <1>6, <4>1
        <4> QED
          BY <2>2, <3>1, <3>3, <4>2
      <3> QED
        BY <3>2, <3>3
    <2>3. CASE u # t /\ th[u].q # q
      <3>1. th'[u] = th[u]
        BY <1>4, <2>3
      <3>2. th[u].q \in Rings
        BY <1>8, <3>1, InRings DEF RingPcs
      <3>3. ring'[th[u].q] = ring[th[u].q]
        BY <1>5, <2>3, <3>2
      <3> QED
        BY <1>8, <3>1, <3>3 DEF ClaimsInv
    <2> QED
      BY <2>1, <2>2, <2>3, Zenon
  <1>9. ASSUME NEW u \in Actors, NEW v \in Actors, th'[u].pc = "publish", th'[v].pc = "publish", th'[u].q = th'[v].q,
               th'[u].at = th'[v].at
        PROVE  u = v
    <2>1. ASSUME NEW x \in Actors, x # t, th'[x].pc = "publish", th'[x].q = q PROVE th'[x].at # a
      <3>1. th'[x] = th[x]
        BY <1>4, <2>1
      <3>2. /\ Takes(th[x].op) => th[x].at \in P - N .. T - 1
            /\ ~Takes(th[x].op) => th[x].at \in T .. P - 1 /\ PutPending(q, th[x].at)
        BY <1>7, <2>1, <3>1
      <3> QED
        BY <1>2, <1>6, <3>1, <3>2
    <2>2. CASE u = t \/ v = t
      BY <1>3, <1>9, <2>1, <2>2
    <2>3. CASE u # t /\ v # t
      BY <1>4, <1>9, <2>3 DEF ClaimsInv
    <2> QED
      BY <2>2, <2>3
  <1> QED
    BY <1>8, <1>9, Zenon DEF ClaimsInv

LEMMA PublishClaims ==
  ASSUME TypeOK, CallInv, ClaimsInv, NEW t \in Actors, Publishing(t)
  PROVE  ClaimsInv'
  <1>1. ASSUME NEW u \in Actors, th'[u].pc = "publish" PROVE th'[u] = th[u] /\ th[u].q \in Rings
    <2>1. u # t
      BY <1>1 DEF Publishing, RingPcs
    <2>2. th'[u] = th[u]
      BY <2>1 DEF Publishing, Alone
    <2> QED
      BY <1>1, <2>2, InRings DEF RingPcs
  <1>2. ASSUME NEW w \in Rings PROVE ring'[w].puts = ring[w].puts /\ ring'[w].takes = ring[w].takes
    BY DEF Publishing, Untouched
  <1>3. \A u \in Actors : th'[u].pc = "publish" =>
          LET q == th'[u].q
          IN IF Takes(th'[u].op) THEN th'[u].at \in ring'[q].puts - Cap(q) .. ring'[q].takes - 1
                                 ELSE th'[u].at \in ring'[q].takes .. ring'[q].puts - 1
    BY <1>1, <1>2 DEF ClaimsInv
  <1>4. \A u, v \in Actors :
          th'[u].pc = "publish" /\ th'[v].pc = "publish" /\ th'[u].q = th'[v].q /\ th'[u].at = th'[v].at => u = v
    BY <1>1 DEF ClaimsInv
  <1> QED
    BY <1>3, <1>4, Zenon DEF ClaimsInv

\* Equal sequences are at difference zero only when they are the same.
LEMMA DiffZero ==
  ASSUME NEW a \in Word, NEW b \in Word, Diff(a, b) = 0
  PROVE  a = b
  <1>1. Modulus \in Nat \ {0} /\ a \in Int /\ b \in Int /\ a - b \in Int /\ -Modulus < a - b /\ a - b < Modulus
    BY Sizes DEF Word
  <1>2. (a - b) % Modulus \in 0 .. Modulus - 1
    BY <1>1, Divided
  <1>3. (a - b) % Modulus = 0
    BY <1>1, <1>2 DEF Diff
  <1>4. 0 % Modulus = 0
    BY <1>1, RemainderIs
  <1>5. a - b = 0
    <2>1. PICK d \in Int : d = a - b
      BY <1>1
    <2>2. -Modulus < d - 0 /\ d - 0 < Modulus /\ 0 \in Int /\ d % Modulus = 0 % Modulus
      BY <1>1, <1>3, <1>4, <2>1
    <2>3. d = 0
      BY <1>1, <2>2, Apart, Zenon
    <2> QED
      BY <2>1, <2>3
  <1> QED
    BY <1>1, <1>5

\* Positions less than a turn of the 32 bits apart do not wrap to the same value.
LEMMA WrapsApart ==
  ASSUME NEW a \in Int, NEW d \in Int, d # 0, -Modulus < d, d < Modulus
  PROVE  Wrap(a + d) # Wrap(a)
  <1>1. a + d \in Int /\ (a + d) - a = d /\ a + d # a
    OBVIOUS
  <1> QED
    BY <1>1, Wrapped

\* The cell the cursor stands at: what its sequence says of its position.
LEMMA TakeReady ==
  ASSUME TypeOK, RingsInv, NEW q \in Rings, ring[q].seq[ring[q].takes % Cap(q)] = Wrap(ring[q].takes + 1)
  PROVE  FullNext(q)
  <1> DEFINE P == ring[q].puts
             T == ring[q].takes
             N == Cap(q)
  <1>1. P \in Int /\ T \in Int /\ N \in Nat \ {0} /\ 2 * N < Modulus /\ Modulus \in Nat \ {0} /\ T <= P /\ P <= T + N
    BY RingFacts DEF RingsInv, RingInv
  <1>2. \A m \in P - N .. P - 1 : ring[q].seq[m % N] = Stamp(q, m)
    BY DEF RingsInv, RingInv
  <1> HIDE DEF P, T, N
  <1>3. T < P
    <2> SUFFICES ASSUME T = P PROVE FALSE
      BY <1>1
    <2>1. T - N \in P - N .. P - 1 /\ ~(T - N >= T) /\ T - N + N = T /\ T - N \in Int
      BY <1>1
    <2>2. ring[q].seq[(T - N) % N] = Stamp(q, T - N)
      BY <1>2, <2>1
    <2>3. (T - N) % N = T % N
      BY <1>1, Cells DEF N
    <2>4. Stamp(q, T - N) = Wrap(T + 1)
      BY <2>2, <2>3 DEF T, N
    <2>5. Stamp(q, T - N) \in {Wrap(T - N + 1), Wrap(T)}
      BY <2>1 DEF Stamp, T, N
    <2>6. Wrap(T + 1) # Wrap(T)
      BY <1>1, WrapsApart
    <2>7. Wrap(T - N + 1) # Wrap(T + 1)
      <3>1. T + 1 \in Int /\ -N \in Int /\ -N # 0 /\ -Modulus < -N /\ -N < Modulus /\ (T + 1) + (-N) = T - N + 1
        BY <1>1
      <3>2. Wrap((T + 1) + (-N)) # Wrap(T + 1)
        BY <3>1, WrapsApart, Zenon
      <3> QED
        BY <3>1, <3>2
    <2> QED
      BY <2>4, <2>5, <2>6, <2>7
  <1>4. ~PutPending(q, T)
    <2> SUFFICES ASSUME PutPending(q, T) PROVE FALSE
      OBVIOUS
    <2>1. T \in P - N .. P - 1
      BY <1>1, <1>3
    <2>2. Stamp(q, T) = Wrap(T)
      BY <1>1 DEF Stamp, T
    <2>3. Wrap(T + 1) = Wrap(T)
      BY <1>2, <2>1, <2>2 DEF T, N
    <2>4. Wrap(T + 1) # Wrap(T)
      BY <1>1, WrapsApart
    <2> QED
      BY <2>3, <2>4
  <1> QED
    BY <1>3, <1>4 DEF FullNext, P, T

\* A cell that may be put into is free, unless the ring has one cell and an index is in it.
LEMMA PutReady ==
  ASSUME TypeOK, RingsInv, NEW q \in Rings, ring[q].seq[ring[q].puts % Cap(q)] = Wrap(ring[q].puts),
         ~FreeNext(q)
  PROVE  /\ Cap(q) = 1
         /\ FilledAt(q, ring[q].puts - 1) \/ TakePending(q, ring[q].puts - 1)
  <1> DEFINE P == ring[q].puts
             T == ring[q].takes
             N == Cap(q)
             m == P - N
  <1>1. P \in Int /\ T \in Int /\ N \in Nat \ {0} /\ 2 * N < Modulus /\ Modulus \in Nat \ {0} /\ T <= P /\ P <= T + N
    BY RingFacts DEF RingsInv, RingInv
  <1>2. \A k \in P - N .. P - 1 : ring[q].seq[k % N] = Stamp(q, k)
    BY DEF RingsInv, RingInv
  <1>3. m < T => TakePending(q, m)
    BY DEF FreeNext
  <1> HIDE DEF P, T, N
  <1>4. m \in P - N .. P - 1 /\ m \in Int /\ m + N = P
    BY <1>1
  <1>5. m % N = P % N
    BY <1>1, Cells DEF N
  <1>6. Stamp(q, m) = Wrap(P)
    BY <1>2, <1>4, <1>5 DEF P, N
  <1>7. Wrap(m) # Wrap(P)
    <2>1. N \in Int /\ N # 0 /\ -Modulus < N /\ N < Modulus
      BY <1>1
    <2>2. Wrap(m + N) # Wrap(m)
      BY <1>4, <2>1, WrapsApart, Zenon
    <2> QED
      BY <1>4, <2>2
  <1>8. Stamp(q, m) = Wrap(m + 1) /\ (FilledAt(q, m) \/ TakePending(q, m))
    <2>1. CASE m >= T
      <3>1. Stamp(q, m) = IF PutPending(q, m) THEN Wrap(m) ELSE Wrap(m + 1)
        BY <2>1 DEF Stamp, T
      <3>2. ~PutPending(q, m) /\ Stamp(q, m) = Wrap(m + 1)
        BY <1>6, <1>7, <3>1
      <3>3. m \in T .. P - 1
        BY <1>1, <1>4, <2>1
      <3> QED
        BY <3>2, <3>3 DEF FilledAt, P, T
    <2>2. CASE ~(m >= T)
      <3>1. TakePending(q, m)
        BY <1>1, <1>3, <1>4, <2>2
      <3> QED
        BY <2>2, <3>1 DEF Stamp, T
    <2> QED
      BY <2>1, <2>2
  <1>9. N = 1
    <2> SUFFICES ASSUME N # 1 PROVE FALSE
      OBVIOUS
    <2>1. N - 1 \in Int /\ N - 1 # 0 /\ -Modulus < N - 1 /\ N - 1 < Modulus /\ m + 1 \in Int /\ (m + 1) + (N - 1) = P
      BY <1>1, <1>4
    <2>2. Wrap((m + 1) + (N - 1)) # Wrap(m + 1)
      BY <2>1, WrapsApart, Zenon
    <2> QED
      BY <1>6, <1>8, <2>1, <2>2
  <1> QED
    BY <1>8, <1>9 DEF P, N


-----------------------------------------------------------------------------
(* Where the slots are. *)

\* Every slot is in one place and in no other.
OwnedInv ==
  \A i \in Indices :
    /\ \E x, y : Occupies(i, x, y)
    /\ \A x, y, z, w : Occupies(i, x, y) /\ Occupies(i, z, w) => x = z /\ y = w

LEMMA PlacesApart ==
  /\ Hands \notin Rings /\ Grasp \notin Rings /\ Hands # Grasp
  BY DEF Hands, Grasp, Rings, PoolRings, LaneRings

\* A thread that puts has its index in hand.
LEMMA PutInHand ==
  ASSUME TypeOK, CallInv, HandInv, NEW t \in Actors, th[t].pc \in RingPcs, ~Takes(th[t].op)
  PROVE  /\ th[t].val \in th[t].mine /\ th[t].val \in Indices /\ Occupies(th[t].val, Hands, t)
         /\ \/ th[t].op = "push" /\ th[t].q \in LaneRings
            \/ th[t].op = "release" /\ th[t].q \in PoolRings /\ th[t].q = Home(th[t].val)
  <1>1. \/ th[t].op = "push" /\ th[t].q \in LaneRings
        \/ th[t].op = "release" /\ th[t].q = Home(th[t].val)
    BY DEF CallInv, CallOf, Takes
  <1>2. Loaded(th[t])
    BY <1>1 DEF Loaded
  <1>3. th[t].val \in th[t].mine
    BY <1>2 DEF HandInv, HandOf, Hand
  <1>4. th[t].val \in Indices
    BY ThreadFacts
  <1> QED
    BY <1>1, <1>3, <1>4, HomeInRings DEF Occupies

\* An index that fills a cell, or is being taken from it, is there.
LEMMA CellHas ==
  ASSUME TypeOK, RingsInv, NEW q \in Rings, NEW m \in Int, FilledAt(q, m) \/ TakePending(q, m)
  PROVE  /\ At(q, m) \in Indices
         /\ \E x, y : Occupies(At(q, m), x, y) /\ x # Hands
  <1>1. At(q, m) \in Indices
    BY RingFacts, Cells, Zenon DEF At
  <1>2. CASE FilledAt(q, m)
    BY <1>1, <1>2, PlacesApart DEF Occupies
  <1>3. CASE TakePending(q, m)
    <2>1. PICK u \in Actors : Grabs(u, q, m)
      BY <1>3 DEF TakePending
    <2>2. Taking(u) /\ th[u].q = q /\ th[u].at = m
      BY <2>1 DEF Grabs, Taking
    <2>3. Occupies(At(q, m), Grasp, u)
      BY <2>2 DEF Occupies
    <2> QED
      BY <1>1, <2>3, PlacesApart, Zenon
  <1> QED
    BY <1>2, <1>3

\* In a ring of one cell, the index in the cell is the one that would be put there.
LEMMA OneCell ==
  ASSUME TypeOK, CallInv, HandInv, RingsInv, HomeInv, OwnedInv, NEW t \in Actors, th[t].pc \in RingPcs,
         ~Takes(th[t].op), NEW q \in Rings, q = th[t].q, Cap(q) = 1,
         FilledAt(q, ring[q].puts - 1) \/ TakePending(q, ring[q].puts - 1)
  PROVE  FALSE
  <1>1. PICK m \in Int : m = ring[q].puts - 1
    BY RingFacts
  <1>2. PICK v \in Indices : v = At(q, m)
    BY <1>1, CellHas
  <1>3. PICK i \in Indices : i = th[t].val
    BY PutInHand
  <1>4. i = v
    <2>1. CASE q \in LaneRings
      <3>1. Shards * PerCap = 1
        BY <2>1 DEF Cap, LaneRings, LaneCap
      <3>2. Indices = {0}
        BY <3>1 DEF Indices
      <3> QED
        BY <3>2
    <2>2. CASE q \in PoolRings /\ q = Home(i)
      <3>1. PerCap = 1 /\ Shards \in Nat \ {0}
        BY <2>2, SizesAssumption DEF Cap, PoolRings
      <3>2. Indices = 0 .. Shards - 1
        BY <3>1 DEF Indices
      <3>3. ring[q].puts - Cap(q) = m /\ m \in ring[q].puts - Cap(q) .. ring[q].puts - 1
        BY <1>1, RingFacts
      <3>4. FilledAt(q, m) \/ TakePending(q, m)
        BY <1>1
      <3>5. Home(v) = q
        BY <1>2, <2>2, <3>3, <3>4, Zenon DEF HomeInv
      <3>6. i % Shards = v % Shards
        BY <2>2, <3>5 DEF Home
      <3>7. i \in Int /\ v \in Int /\ -Shards < i - v /\ i - v < Shards
        BY <3>1, <3>2
      <3> QED
        BY <3>1, <3>6, <3>7, Apart, Zenon
    <2> QED
      BY <1>3, <2>1, <2>2, PutInHand
  <1>5. Occupies(i, Hands, t)
    BY <1>3, PutInHand
  <1>6. PICK x, y : Occupies(v, x, y) /\ x # Hands
    BY <1>1, <1>2, CellHas, Zenon
  <1> QED
    BY <1>4, <1>5, <1>6, Zenon DEF OwnedInv

\* A thread that finds the cell of the cursor's position ready.
LEMMA FindsReady ==
  ASSUME TypeOK, CallInv, HandInv, RingsInv, LoadedInv, HomeInv, OwnedInv, NEW t \in Actors, Finds(t),
         th[t].at = Turn(t)
  PROVE  IF Takes(th[t].op) THEN FullNext(th[t].q) ELSE FreeNext(th[t].q)
  <1>1. th[t].pc = "seq" /\ th[t].pc \in RingPcs
    BY DEF Finds, RingPcs
  <1>2. PICK q \in Rings : q = th[t].q
    BY <1>1, InRings
  <1>3. Cell(t) \in 0 .. Cap(q) - 1 /\ ring[q].seq[Cell(t)] \in Word
    BY <1>1, <1>2, InRings, RingFacts
  <1>4. th[t].cur = Wrap(th[t].at) /\ th[t].cur \in Word /\ th[t].at \in Int
    BY <1>1, ThreadFacts DEF LoadedInv, LoadedOf
  <1>5. Cell(t) = th[t].at % Cap(q)
    BY <1>2, <1>4, Wrapped DEF Cell
  <1>6. Wrap(th[t].cur + 1) = Wrap(th[t].at + 1)
    <2>1. th[t].at \in Int /\ 1 \in Int
      BY <1>4
    <2> QED
      BY <1>4, <2>1, Wrapped, Zenon
  <1>7. Expected(th[t].op, th[t].cur) \in Word
    <2>1. th[t].at + 1 \in Int
      BY <1>4
    <2> QED
      BY <1>4, <1>6, <2>1, Wrapped DEF Expected
  <1>8. ring[q].seq[Cell(t)] = Expected(th[t].op, th[t].cur)
    BY <1>2, <1>3, <1>7, DiffZero DEF Finds
  <1>9. CASE Takes(th[t].op)
    <2>1. th[t].at = ring[q].takes
      BY <1>2, <1>9 DEF Turn
    <2>2. ring[q].seq[ring[q].takes % Cap(q)] = Wrap(ring[q].takes + 1)
      BY <1>5, <1>6, <1>8, <1>9, <2>1 DEF Expected
    <2> QED
      BY <1>2, <1>9, <2>2, TakeReady, Zenon
  <1>10. CASE ~Takes(th[t].op)
    <2>1. th[t].at = ring[q].puts
      BY <1>2, <1>10 DEF Turn
    <2>2. ring[q].seq[ring[q].puts % Cap(q)] = Wrap(ring[q].puts)
      BY <1>4, <1>5, <1>8, <1>10, <2>1 DEF Expected
    <2>3. FreeNext(q)
      BY <1>1, <1>2, <1>10, <2>2, PutReady, OneCell, Zenon
    <2> QED
      BY <1>2, <1>10, <2>3
  <1> QED
    BY <1>9, <1>10

-----------------------------------------------------------------------------
(* What the threads know of the cursors. *)

\* A thread whose record and ring a step leaves alone, with the same claims on the ring.
LEMMA LoadedKept ==
  ASSUME NEW u \in Actors, LoadedOf(u), th'[u] = th[u], NEW q, q = th[u].q,
         ring'[q].puts = ring[q].puts, ring'[q].takes = ring[q].takes,
         \A m : (PutPending(q, m)' => PutPending(q, m)) /\ (TakePending(q, m)' => TakePending(q, m))
  PROVE  LoadedOf(u)'
  <1>1. Turn(u)' = Turn(u)
    BY Zenon DEF Turn
  <1>2. (FullNext(q) => FullNext(q)') /\ (FreeNext(q) => FreeNext(q)')
    BY Zenon DEF FullNext, FreeNext
  <1> QED
    BY <1>1, <1>2, Zenon DEF LoadedOf

LEMMA QuietLoaded ==
  ASSUME TypeOK, CallInv, HandInv, RingsInv, LoadedInv, HomeInv, OwnedInv, NEW t \in Actors,
         Looks(t) \/ Finds(t) \/ Elsewhere(t)
  PROVE  LoadedInv'
  <1>1. Quiet(t) /\ ring' = ring /\ th'[t].pc # "publish"
    BY Zenon DEF Looks, Finds, Elsewhere, Quiet
  <1>2. ASSUME NEW u \in Actors, u # t PROVE LoadedOf(u)'
    <2>1. th'[u] = th[u] /\ LoadedOf(u)
      BY <1>1, <1>2, Zenon DEF Quiet, Alone, LoadedInv
    <2>2. PICK q : q = th[u].q
      OBVIOUS
    <2>3. ring'[q].puts = ring[q].puts /\ ring'[q].takes = ring[q].takes
      BY <1>1
    <2> QED
      BY <1>1, <2>1, <2>2, <2>3, QuietPending, LoadedKept, Zenon
  <1>3. CASE Looks(t)
    <2>1. th[t].q \in Rings
      BY <1>3, InRings DEF Looks
    <2>2. PICK q \in Rings : q = th[t].q
      BY <2>1
    <2>3. ring[q].in = Wrap(ring[q].puts) /\ ring[q].out = Wrap(ring[q].takes)
      BY DEF RingsInv, RingInv
    <2>4. Cursor(t) = Wrap(Turn(t)) /\ Turn(t) \in Int
      BY <2>2, <2>3, RingFacts, Zenon DEF Cursor, Turn
    <2>5. Turn(t)' = Turn(t)
      BY <1>1, <1>3, Zenon DEF Looks, Turn
    <2>6. th'[t].pc = "seq" /\ th'[t].cur = Cursor(t) /\ th'[t].at = Turn(t)
      BY <1>3 DEF Looks
    <2> QED
      <3>1. th'[t].cur = Wrap(th'[t].at) /\ th'[t].at <= Turn(t)'
        BY <2>4, <2>5, <2>6
      <3> QED
        BY <1>2, <2>6, <3>1, Zenon DEF LoadedInv, LoadedOf
  <1>4. CASE Finds(t)
    <2>1. /\ th[t].pc = "seq" /\ th'[t].pc = "cas" /\ th'[t].op = th[t].op /\ th'[t].q = th[t].q
          /\ th'[t].cur = th[t].cur /\ th'[t].at = th[t].at
      BY <1>4, Zenon DEF Finds
    <2>2. Turn(t)' = Turn(t)
      BY <1>1, <2>1, Zenon DEF Turn
    <2>3. th[t].cur = Wrap(th[t].at) /\ th[t].at <= Turn(t)
      BY <2>1, Zenon DEF LoadedInv, LoadedOf
    <2>4. ASSUME NEW q PROVE (FullNext(q)' <=> FullNext(q)) /\ (FreeNext(q)' <=> FreeNext(q))
      BY <1>1, QuietPending DEF FullNext, FreeNext
    <2>5. PICK q : q = th[t].q
      OBVIOUS
    <2>6. th[t].at = Turn(t) => IF Takes(th[t].op) THEN FullNext(q) ELSE FreeNext(q)
      BY <1>4, <2>5, FindsReady
    <2>7. th[t].at = Turn(t) => IF Takes(th[t].op) THEN FullNext(q)' ELSE FreeNext(q)'
      BY <2>4, <2>6
    <2>8. LoadedOf(t)'
      BY <2>1, <2>2, <2>3, <2>5, <2>7 DEF LoadedOf
    <2> QED
      BY <1>2, <2>8 DEF LoadedInv
  <1>5. CASE Elsewhere(t)
    <2>1. LoadedOf(t)'
      BY <1>1, <1>5 DEF Elsewhere, LoadedOf
    <2> QED
      BY <1>2, <2>1 DEF LoadedInv
  <1> QED
    BY <1>3, <1>4, <1>5

LEMMA PublishLoaded ==
  ASSUME TypeOK, CallInv, ClaimsInv, LoadedInv, NEW t \in Actors, Publishing(t)
  PROVE  LoadedInv'
  <1>1. LoadedOf(t)'
    BY Zenon DEF Publishing, RingPcs, LoadedOf
  <1>2. ASSUME NEW u \in Actors, u # t PROVE LoadedOf(u)'
    <2>1. th'[u] = th[u] /\ LoadedOf(u)
      BY <1>2 DEF Publishing, Alone, LoadedInv
    <2>2. CASE th[u].pc \in RingPcs
      <3>1. PICK q \in Rings : q = th[u].q
        BY <2>2, InRings
      <3>2. ring'[q].puts = ring[q].puts /\ ring'[q].takes = ring[q].takes
        BY DEF Publishing, Untouched
      <3>3. \A m : (PutPending(q, m)' => PutPending(q, m)) /\ (TakePending(q, m)' => TakePending(q, m))
        BY PublishPending, Zenon
      <3> QED
        BY <2>1, <3>1, <3>2, <3>3, LoadedKept, Zenon
    <2>3. CASE th[u].pc \notin RingPcs
      BY <2>1, <2>3 DEF LoadedOf, RingPcs
    <2> QED
      BY <2>2, <2>3
  <1> QED
    BY <1>1, <1>2 DEF LoadedInv

LEMMA ClaimLoaded ==
  ASSUME TypeOK, CallInv, RingsInv, ClaimsInv, LoadedInv, NoLap, NEW t \in Actors, ClaimsPut(t) \/ ClaimsTake(t)
  PROVE  LoadedInv'
  <1>1. PICK q \in Rings : q = th[t].q
    BY Zenon DEF ClaimsPut, ClaimsTake, Claiming
  <1> DEFINE P == ring[q].puts
             T == ring[q].takes
             N == Cap(q)
             a == th[t].at
  <1>2. P \in Int /\ T \in Int /\ N \in Nat \ {0} /\ T <= P /\ P <= T + N
    BY RingFacts DEF RingsInv, RingInv
  <1>3. /\ Claiming(t) /\ th[t].pc = "cas" /\ th'[t].pc = "publish" /\ th'[t].cur = th[t].cur /\ th'[t].at = a
    BY <1>1, Zenon DEF ClaimsPut, ClaimsTake, Claiming
  <1>4. LoadedOf(t)'
    BY <1>3, Zenon DEF LoadedInv, LoadedOf
  <1>5. /\ ~Takes(th[t].op) => a = P /\ P - N < T /\ ~TakePending(q, P - N)
                               /\ ring'[q].puts = P + 1 /\ ring'[q].takes = T
        /\ Takes(th[t].op) => a = T /\ T < P /\ ~PutPending(q, T)
                              /\ ring'[q].puts = P /\ ring'[q].takes = T + 1
    BY <1>1, <1>3, ClaimsItsTurn, Zenon DEF Turn, FullNext, FreeNext, ClaimsPut, ClaimsTake
  <1>6. ASSUME NEW w, NEW m
        PROVE  /\ PutPending(w, m)' <=> PutPending(w, m) \/ (w = q /\ m = a /\ ~Takes(th[t].op))
               /\ TakePending(w, m)' <=> TakePending(w, m) \/ (w = q /\ m = a /\ Takes(th[t].op))
    BY <1>1, <1>3, ClaimPending, Zenon
  <1>7. ASSUME NEW u \in Actors, u # t PROVE LoadedOf(u)'
    <2>1. th'[u] = th[u] /\ LoadedOf(u) /\ th[u].at \in Int
      BY <1>3, <1>7, ThreadFacts DEF Claiming, Alone, LoadedInv
    <2>2. CASE th[u].pc \notin RingPcs
      BY <2>1, <2>2, Zenon DEF LoadedOf, RingPcs
    <2>3. CASE th[u].pc \in RingPcs /\ th[u].q # q
      <3>1. PICK w \in Rings : w = th[u].q
        BY <2>3, InRings
      <3>2. ring'[w].puts = ring[w].puts /\ ring'[w].takes = ring[w].takes
        BY <1>1, <1>3, <2>3, <3>1 DEF Claiming, Untouched
      <3>3. \A m : (PutPending(w, m)' => PutPending(w, m)) /\ (TakePending(w, m)' => TakePending(w, m))
        BY <1>6, <2>3, <3>1
      <3> QED
        BY <2>1, <3>1, <3>2, <3>3, LoadedKept, Zenon
    <2>4. CASE th[u].pc \in RingPcs /\ th[u].q = q
      <3>1. CASE Takes(th[u].op)
        <4>1. Turn(u) = T /\ Turn(u)' = ring'[q].takes
          BY <2>1, <2>4, <3>1 DEF Turn
        <4>2. FullNext(q) /\ ring'[q].takes = T => FullNext(q)'
          <5> SUFFICES ASSUME FullNext(q), ring'[q].takes = T PROVE FullNext(q)'
            OBVIOUS
          <5>0. Takes(th[t].op) => ring'[q].takes = T + 1
            BY <1>5, Zenon
          <5>1. ~Takes(th[t].op)
            BY <1>2, <5>0
          <5>2. T < P /\ ~PutPending(q, T) /\ ring'[q].puts = P + 1 /\ a = P
            BY <1>5, <5>1 DEF FullNext
          <5>3. ~PutPending(q, T)' /\ T < P + 1
            <6>1. T # P /\ T < P + 1
              BY <1>2, <5>2
            <6> QED
              BY <1>6, <5>2, <6>1, Zenon
          <5> QED
            BY <5>2, <5>3, Zenon DEF FullNext
        <4>3. T <= ring'[q].takes /\ ring'[q].takes \in Int
          <5>1. ring'[q].takes = T \/ ring'[q].takes = T + 1
            BY <1>5, Zenon
          <5> QED
            BY <1>2, <5>1
        <4>4. th[u].pc = "cas" /\ th[u].at = ring'[q].takes => FullNext(q)'
          <5> SUFFICES ASSUME th[u].pc = "cas", th[u].at = ring'[q].takes PROVE FullNext(q)'
            OBVIOUS
          <5>1. th[u].at <= T
            BY <2>1, <4>1, Zenon DEF LoadedOf
          <5>2. th[u].at = T /\ ring'[q].takes = T
            BY <1>2, <2>1, <4>3, <5>1
          <5>3. FullNext(q)
            BY <2>1, <2>4, <3>1, <4>1, <5>2, Zenon DEF LoadedOf
          <5> QED
            BY <4>2, <5>2, <5>3
        <4>5. th[u].pc \in {"seq", "cas"} => th[u].at <= ring'[q].takes
          <5>1. th[u].pc \in {"seq", "cas"} => th[u].at <= T
            BY <2>1, <4>1, Zenon DEF LoadedOf
          <5> QED
            BY <1>2, <2>1, <4>3, <5>1
        <4> QED
          BY <2>1, <2>4, <3>1, <4>1, <4>4, <4>5, Zenon DEF LoadedOf
      <3>2. CASE ~Takes(th[u].op)
        <4>1. Turn(u) = P /\ Turn(u)' = ring'[q].puts
          BY <2>1, <2>4, <3>2 DEF Turn
        <4>2. FreeNext(q) /\ ring'[q].puts = P => FreeNext(q)'
          <5> SUFFICES ASSUME FreeNext(q), ring'[q].puts = P PROVE FreeNext(q)'
            OBVIOUS
          <5>0. ~Takes(th[t].op) => ring'[q].puts = P + 1
            BY <1>5, Zenon
          <5>1. Takes(th[t].op)
            BY <1>2, <5>0
          <5>2. P - N < T /\ ~TakePending(q, P - N) /\ ring'[q].takes = T + 1 /\ a = T
            BY <1>5, <5>1, Zenon DEF FreeNext
          <5>3. ~TakePending(q, P - N)' /\ P - N < T + 1
            <6>1. P - N # T /\ P - N < T + 1
              BY <1>2, <5>2
            <6> QED
              BY <1>6, <5>2, <6>1, Zenon
          <5> QED
            BY <5>2, <5>3 DEF FreeNext
        <4>3. P <= ring'[q].puts /\ ring'[q].puts \in Int
          <5>1. ring'[q].puts = P \/ ring'[q].puts = P + 1
            BY <1>5, Zenon
          <5> QED
            BY <1>2, <5>1
        <4>4. th[u].pc = "cas" /\ th[u].at = ring'[q].puts => FreeNext(q)'
          <5> SUFFICES ASSUME th[u].pc = "cas", th[u].at = ring'[q].puts PROVE FreeNext(q)'
            OBVIOUS
          <5>1. th[u].at <= P
            BY <2>1, <4>1, Zenon DEF LoadedOf
          <5>2. th[u].at = P /\ ring'[q].puts = P
            BY <1>2, <2>1, <4>3, <5>1
          <5>3. FreeNext(q)
            BY <2>1, <2>4, <3>2, <4>1, <5>2, Zenon DEF LoadedOf
          <5> QED
            BY <4>2, <5>2, <5>3
        <4>5. th[u].pc \in {"seq", "cas"} => th[u].at <= ring'[q].puts
          <5>1. th[u].pc \in {"seq", "cas"} => th[u].at <= P
            BY <2>1, <4>1, Zenon DEF LoadedOf
          <5> QED
            BY <1>2, <2>1, <4>3, <5>1
        <4> QED
          BY <2>1, <2>4, <3>2, <4>1, <4>4, <4>5, Zenon DEF LoadedOf
      <3> QED
        BY <3>1, <3>2
    <2> QED
      BY <2>2, <2>3, <2>4
  <1> QED
    BY <1>4, <1>7 DEF LoadedInv

-----------------------------------------------------------------------------
(* One thread pushes, one pops a lane. *)

LEMMA LonePush ==
  ASSUME TypeOK, CallInv, LoneInv, NEW t \in Actors, Shaped(t), NEW u \in Actors, u # t,
         th[u].op = "push", th[u].pc \in {"seq", "cas"}
  PROVE  th[u].at = ring'[th[u].q].puts
  <1>1. PICK q \in Rings : q = th[u].q
    BY InRings DEF RingPcs
  <1>2. q \in LaneRings /\ gate = u
    BY <1>1, Zenon DEF CallInv, CallOf, RingPcs
  <1>3. th[u].at = ring[q].puts
    BY <1>1 DEF LoneInv, LoneOf
  <1>4. CASE ClaimsPut(t) /\ th[t].q = q
    <2>1. th[t].op = "push" \/ (th[t].op = "release" /\ th[t].q = Home(th[t].val))
      BY <1>4, Zenon DEF ClaimsPut, Claiming, CallInv, CallOf, RingPcs, Takes
    <2>2. th[t].op # "push"
      BY <1>2, <1>4, Zenon DEF ClaimsPut, Claiming, CallInv, CallOf, RingPcs
    <2>3. q \in PoolRings
      BY <1>4, <2>1, <2>2, HomeInRings, ThreadFacts
    <2> QED
      BY <1>2, <2>3 DEF PoolRings, LaneRings
  <1>5. CASE ~(ClaimsPut(t) /\ th[t].q = q)
    <2>1. ring'[q].puts = ring[q].puts
      BY <1>5, Zenon DEF Shaped, Looks, Finds, Elsewhere, Quiet, ClaimsTake, ClaimsPut, Claiming, Untouched,
                  PublishesTake, PublishesPut, Publishing
    <2> QED
      BY <1>1, <1>3, <2>1
  <1> QED
    BY <1>4, <1>5

LEMMA LonePop ==
  ASSUME TypeOK, CallInv, LoneInv, NEW t \in Actors, Shaped(t), NEW u \in Actors, u # t,
         th[u].op = "pop", th[u].pc = "publish"
  PROVE  th[u].at = ring'[th[u].q].takes - 1
  <1>1. PICK q \in Rings : q = th[u].q
    BY InRings DEF RingPcs
  <1>2. q = <<"lane", th[u].lane>> /\ busy[th[u].lane] = u
    BY <1>1, Zenon DEF CallInv, CallOf, RingPcs
  <1>3. th[u].at = ring[q].takes - 1
    BY <1>1 DEF LoneInv, LoneOf
  <1>4. CASE ClaimsTake(t) /\ th[t].q = q
    <2>1. \/ th[t].op = "acquire" /\ th[t].q \in PoolRings
          \/ th[t].op = "pop" /\ th[t].q = <<"lane", th[t].lane>> /\ busy[th[t].lane] = t
      BY <1>4, Zenon DEF ClaimsTake, Claiming, CallInv, CallOf, RingPcs, Takes
    <2>2. q \notin PoolRings
      BY <1>2 DEF PoolRings
    <2>3. th[t].lane = th[u].lane
      BY <1>2, <1>4, <2>1, <2>2
    <2> QED
      BY <1>2, <1>4, <2>1, <2>2, <2>3
  <1>5. CASE ~(ClaimsTake(t) /\ th[t].q = q)
    <2>1. ring'[q].takes = ring[q].takes
      BY <1>5, Zenon DEF Shaped, Looks, Finds, Elsewhere, Quiet, ClaimsTake, ClaimsPut, Claiming, Untouched,
                  PublishesTake, PublishesPut, Publishing
    <2> QED
      BY <1>1, <1>3, <2>1
  <1> QED
    BY <1>4, <1>5

LEMMA LoneStep ==
  ASSUME TypeOK, CallInv, RingsInv, LoadedInv, NoLap, LoneInv, NEW t \in Actors, Shaped(t)
  PROVE  LoneInv'
  <1>1. ASSUME NEW u \in Actors, u # t PROVE LoneOf(u)'
    <2>1. th'[u] = th[u]
      BY <1>1, Zenon DEF Shaped, Looks, Finds, Elsewhere, Quiet, ClaimsTake, ClaimsPut, Claiming, Alone,
                  PublishesTake, PublishesPut, Publishing
    <2> QED
      BY <1>1, <2>1, LonePush, LonePop, Zenon DEF LoneOf
  <1>2. LoneOf(t)'
    <2>1. CASE Looks(t)
      <3>1. ring' = ring /\ th'[t].pc = "seq" /\ th'[t].op = th[t].op /\ th'[t].q = th[t].q /\ th'[t].at = Turn(t)
        BY <2>1 DEF Looks, Quiet
      <3>2. th[t].op = "push" => Turn(t) = ring[th[t].q].puts
        BY DEF Turn, Takes
      <3> QED
        BY <3>1, <3>2 DEF LoneOf
    <2>2. CASE Finds(t)
      <3>1. /\ ring' = ring /\ th'[t].pc = "cas" /\ th[t].pc = "seq" /\ th'[t].op = th[t].op /\ th'[t].q = th[t].q
            /\ th'[t].at = th[t].at
        BY <2>2, Zenon DEF Finds, Quiet
      <3> QED
        BY <3>1 DEF LoneOf, LoneInv
    <2>3. CASE Elsewhere(t)
      BY <2>3 DEF Elsewhere, Quiet, LoneOf
    <2>4. CASE ClaimsPut(t)
      BY <2>4, Zenon DEF ClaimsPut, Claiming, LoneOf, Takes
    <2>5. CASE ClaimsTake(t)
      <3>1. PICK q \in Rings : q = th[t].q
        BY <2>5, Zenon DEF ClaimsTake, Claiming
      <3>2. Claiming(t) /\ Takes(th[t].op) /\ th'[t].q = q /\ th'[t].pc = "publish" /\ th'[t].at = th[t].at
        BY <2>5, <3>1, Zenon DEF ClaimsTake, Claiming
      <3>3. th[t].at = ring[q].takes
        BY <3>1, <3>2, ClaimsItsTurn, Zenon DEF Turn
      <3>4. ring'[q].takes = ring[q].takes + 1 /\ ring[q].takes \in Int
        BY <2>5, <3>1, RingFacts DEF ClaimsTake
      <3>5. th'[t].at = ring'[q].takes - 1
        BY <3>2, <3>3, <3>4
      <3> QED
        BY <3>2, <3>5, Zenon DEF LoneOf
    <2>6. CASE PublishesTake(t) \/ PublishesPut(t)
      BY <2>6, Zenon DEF PublishesTake, PublishesPut, Publishing, RingPcs, LoneOf
    <2> QED
      BY <2>1, <2>2, <2>3, <2>4, <2>5, <2>6 DEF Shaped
  <1> QED
    BY <1>1, <1>2 DEF LoneInv
=============================================================================
