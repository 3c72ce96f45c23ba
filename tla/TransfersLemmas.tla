-------------------------- MODULE TransfersLemmas ---------------------------
(***************************************************************************)
(* The rings and their cursors under the operations of the two tables      *)
(* (Transfers), for any Count and Window, and the inductive invariant      *)
(* under the sender's actions.  Prompt is what TransfersReported.cfg and   *)
(* TransfersLate.cfg show to be needed: a finished entry is polled before  *)
(* its slot is touched again, and no announcement arrives after the        *)
(* transfer was let go.                                                    *)
(***************************************************************************)
EXTENDS Transfers, FiniteSetTheorems, WellFoundedInduction, SequenceTheorems, TLAPS

USE SMTT(15), ZenonT(20)

(* The order of the naturals, as the cursors are compared. *)
LEMMA Chain ==
  /\ \A x, y, z \in Nat : x < y /\ y <= z => x < z
  /\ \A x, y, z \in Nat : x <= y /\ y <= z => x <= z
  /\ \A x, y, z, w \in Nat : x < y + w /\ y <= z => x < z + w
  /\ \A x \in Nat : x <= x /\ ~(x + 1 <= x)
OBVIOUS

(* A non-empty set of naturals has a least element. *)
LEMMA Least ==
  ASSUME NEW S \in SUBSET Nat, S # {}
  PROVE  \E x \in S : \A y \in S : x <= y
<1>1. IsWellFoundedOn(OpToRel(<, Nat), Nat)
  BY Zenon, NatLessThanWellFounded
<1>2. PICK x \in S : \A y \in S : ~(<<y, x>> \in OpToRel(<, Nat))
  BY <1>1, WFMin, Zenon
<1>3. \A y \in S : ~(y < x)
  BY Zenon, <1>2 DEF OpToRel
<1> QED BY <1>3

(* Max of a bounded non-empty set of naturals is one of its elements. *)
LEMMA Greatest ==
  ASSUME NEW B \in Nat, NEW S \in SUBSET (0..B), S # {}
  PROVE  Max(S) \in S /\ \A y \in S : y <= Max(S)
<1> DEFINE T == {t \in 0..B : B - t \in S}
<1>1. T \in SUBSET Nat /\ T # {}
  <2>1. PICK s \in S : TRUE
    BY Zenon
  <2>2. B - s \in T
    BY SMT
  <2> QED BY <2>2
<1>2. PICK t \in T : \A u \in T : t <= u
  BY Zenon, <1>1, Least
<1>3. B - t \in S /\ \A y \in S : B - t >= y
  <2>1. B - t \in S
    OBVIOUS
  <2>2. ASSUME NEW y \in S PROVE B - t >= y
    <3>1. B - y \in T
      OBVIOUS
    <3>2. t <= B - y
      BY Zenon, <3>1, <1>2
    <3> QED BY <3>2
  <2> QED BY <2>1, <2>2
<1> HIDE DEF T
<1>4. \E x \in S : \A y \in S : x >= y
  BY Zenon, <1>3
<1>5. Max(S) \in S /\ \A y \in S : Max(S) >= y
  BY <1>4, Zenon DEF Max
<1> QED BY <1>5

(* The larger of two, as OnAck advances the progress cursor. *)
LEMMA MaxOfTwo ==
  ASSUME NEW x \in 0..Count, NEW y \in 0..Count
  PROVE  Max({x, y}) = IF x <= y THEN y ELSE x
<1>1. Max({x, y}) \in {x, y} /\ \A z \in {x, y} : z <= Max({x, y})
  <2>1. Count \in Nat /\ {x, y} \in SUBSET (0..Count) /\ {x, y} # {}
    BY SizesAssumption
  <2> QED BY <2>1, Greatest, Zenon
<1> QED BY <1>1, SizesAssumption

-----------------------------------------------------------------------------
(* A ring index stands for one sequence of any window. *)

LEMMA RingRange ==
  ASSUME NEW x \in Nat
  PROVE  Ring(x) \in Rings
BY SizesAssumption DEF Ring, Rings

LEMMA RingWindow ==
  ASSUME NEW x \in Nat, NEW y \in Nat, x - y < Window, y - x < Window,
         Ring(x) = Ring(y)
  PROVE  x = y
<1> DEFINE p == x \div Window
           q == y \div Window
<1>1. /\ p \in Int /\ q \in Int
      /\ x = Window * p + Ring(x) /\ y = Window * q + Ring(y)
      /\ Ring(x) \in 0..(Window - 1) /\ Ring(y) \in 0..(Window - 1)
  BY SizesAssumption DEF Ring
<1> HIDE DEF p, q
<1>2. x - y = Window * (p - q)
  BY <1>1, SizesAssumption
<1>3. p = q
  <2>1. p - q < 1
    BY <1>1, <1>2, SizesAssumption
  <2>2. q - p < 1
    BY <1>1, <1>2, SizesAssumption
  <2> QED BY <2>1, <2>2, <1>1
<1> QED BY <1>1, <1>3


LEMMA RingShift ==
  ASSUME NEW x \in Nat, x >= Window
  PROVE  Ring(x - Window) = Ring(x)
<1> DEFINE y == x - Window
           p == x \div Window
           q == y \div Window
<1>1. y \in Nat /\ Window \in Nat
  BY SizesAssumption
<1>2. /\ p \in Int /\ q \in Int
      /\ x = Window * p + Ring(x) /\ y = Window * q + Ring(y)
      /\ Ring(x) \in 0..(Window - 1) /\ Ring(y) \in 0..(Window - 1)
  BY <1>1, SizesAssumption DEF Ring
<1>3. x = y + Window
  BY <1>1
<1> HIDE DEF y, p, q
<1>4. Ring(y) - Ring(x) = Window * (p - q - 1)
  <2> DEFINE wp == Window * p
             wq == Window * q
  <2>1. Window * (p - q - 1) = wp - wq - Window
    BY <1>1, <1>2
  <2>2. wp \in Int /\ wq \in Int /\ x = wp + Ring(x) /\ y = wq + Ring(y)
    BY <1>1, <1>2
  <2> HIDE DEF wp, wq
  <2>3. Ring(x) \in Int /\ Ring(y) \in Int
    BY <1>1, <1>2
  <2>4. Ring(y) - Ring(x) = wp - wq - Window
    BY <2>2, <2>3, <1>1, <1>3
  <2> QED BY <2>1, <2>4
<1>5. p - q - 1 = 0
  <2>1. p - q - 1 < 1
    BY <1>2, <1>4, SizesAssumption
  <2>2. p - q - 1 > -1
    BY <1>2, <1>4, SizesAssumption
  <2> QED BY <2>1, <2>2, <1>2
<1>6. Ring(y) = Ring(x)
  BY <1>1, <1>2, <1>4, <1>5
<1> QED BY <1>6 DEF y

-----------------------------------------------------------------------------
(* The receiver's entry. *)

(* The cursor stops inside the window, on packets it found placed. *)
LEMMA CursorSpan ==
  ASSUME NEW n \in 0..Count, NEW placed
  PROVE  /\ CursorAfter(n, placed) \in n..Count
         /\ \A seq \in n..(CursorAfter(n, placed) - 1) :
               Ring(seq) \in placed /\ seq < n + Window
<1> DEFINE S == {m \in n..Count : \A seq \in n..(m - 1) :
                                     Ring(seq) \in placed /\ seq < n + Window}
<1>1. Count \in Nat /\ S \in SUBSET (0..Count)
  BY SizesAssumption
<1>2. n \in S
  BY SizesAssumption
<1>3. Max(S) \in S
  BY Zenon, <1>1, <1>2, Greatest
<1> QED BY <1>3 DEF CursorAfter

(* The entry OnData works on: the arrival is counted already. *)
Arrived == [id : Ids, allowed : BOOLEAN, complete : BOOLEAN, recvNext : 0..Count,
            placed : SUBSET Rings, sinceAck : 0..(AckEvery + 1), buffer : SUBSET Seqs]

LEMMA NewInFits ==
  ASSUME NEW b \in Ids
  PROVE  NewIn(b) \in InEntry /\ ReceiverRing(NewIn(b))
<1>1. NewIn(b) \in InEntry
  BY SizesAssumption DEF NewIn, InEntry
<1>2. ReceiverRing(NewIn(b))
  BY SizesAssumption DEF NewIn, ReceiverRing
<1> QED BY <1>1, <1>2

(* A packet less than a window ahead of the cursor is placed for what it is: *)
(* the ring keeps telling exactly what the buffer holds.                     *)
LEMMA PlaceKeeps ==
  ASSUME NEW r \in Arrived, ReceiverRing(r), ~r.complete,
         NEW seq \in Seqs, seq < r.recvNext + Window
  PROVE  LET after == Place(r, seq).r
         IN /\ after \in Arrived /\ ReceiverRing(after)
            /\ after.id = r.id /\ after.allowed = r.allowed
            /\ after.sinceAck = r.sinceAck
            /\ r.recvNext <= after.recvNext
            /\ r.buffer \subseteq after.buffer
            /\ after.buffer \subseteq r.buffer \cup {seq}
            /\ Place(r, seq).owed \in BOOLEAN
<1> DEFINE placed == r.placed \cup {Ring(seq)}
           n == CursorAfter(r.recvNext, placed)
           after == [r EXCEPT !.buffer = @ \cup {seq}, !.recvNext = n,
                              !.placed = placed \ {Ring(q) : q \in r.recvNext..(n - 1)},
                              !.complete = n >= Count]
<1>1. CASE seq < r.recvNext \/ Ring(seq) \in r.placed
  <2>1. Place(r, seq) = [r |-> r, owed |-> TRUE]
    BY <1>1 DEF Place
  <2>2. r.recvNext <= r.recvNext
    BY SizesAssumption DEF Arrived
  <2> QED BY <2>1, <2>2
<1>2. CASE ~(seq < r.recvNext \/ Ring(seq) \in r.placed)
  <2>1. Place(r, seq).r = after /\ Place(r, seq).owed \in BOOLEAN
    BY <1>2 DEF Place, Advance, Arrived
  <2>2. /\ n \in r.recvNext..Count
        /\ \A q \in r.recvNext..(n - 1) : Ring(q) \in placed /\ q < r.recvNext + Window
    <3>1. r.recvNext \in 0..Count
      BY DEF Arrived
    <3> QED BY <3>1, CursorSpan
  <2> HIDE DEF n
  <2>3. /\ seq \in Nat /\ r.recvNext \in Nat /\ n \in Nat /\ Count \in Nat /\ Window \in Nat
        /\ r.recvNext <= seq /\ r.recvNext <= n /\ n <= Count
    BY <1>2, <2>2, SizesAssumption DEF Seqs, Arrived
  <2>4. after \in Arrived
    <3>1. Ring(seq) \in Rings
      BY <2>3, RingRange
    <3>2. n \in 0..Count /\ placed \in SUBSET Rings /\ r.buffer \cup {seq} \in SUBSET Seqs
      BY <2>3, <3>1, SMT DEF Arrived
    <3>3. (n >= Count) \in BOOLEAN /\ placed \ {Ring(q) : q \in r.recvNext..(n - 1)} \in SUBSET Rings
      BY <3>2
    <3> QED BY <3>2, <3>3, Zenon DEF Arrived
  <2>5. /\ after.buffer = r.buffer \cup {seq} /\ after.recvNext = n
        /\ after.placed = placed \ {Ring(q) : q \in r.recvNext..(n - 1)}
        /\ after.complete = (n >= Count)
        /\ after.id = r.id /\ after.allowed = r.allowed /\ after.sinceAck = r.sinceAck
    BY DEF Arrived
  <2> HIDE DEF after
  \* Over the old window, the ring with the new bit tells what the new buffer holds.
  <2>6. ASSUME NEW q \in Nat, r.recvNext <= q, q < r.recvNext + Window
        PROVE  Ring(q) \in placed <=> q \in r.buffer \cup {seq}
    <3>1. Ring(q) \in r.placed <=> q \in r.buffer
      BY <2>3, <2>6 DEF ReceiverRing
    <3>2. Ring(q) = Ring(seq) => q = seq
      BY <2>3, <2>6, RingWindow
    <3> QED BY <3>1, <3>2
  <2>7. ReceiverRing(after)
    <3>1. 0..(n - 1) \subseteq after.buffer
      <4>1. ASSUME NEW q \in 0..(n - 1) PROVE q \in r.buffer \cup {seq}
        <5>1. CASE q < r.recvNext
          BY <5>1, <2>3 DEF ReceiverRing
        <5>2. CASE q >= r.recvNext
          <6>1. q \in r.recvNext..(n - 1) /\ q \in Nat
            BY <5>2, <2>3
          <6> QED BY <6>1, <2>2, <2>6, <5>2
        <5> QED BY <5>1, <5>2, <2>3
      <4> QED BY <4>1, <2>5
    <3>2. \A q \in after.buffer : q < n + Window
      BY <2>5, <2>3 DEF ReceiverRing, Arrived, Seqs
    <3>3. ASSUME NEW q \in n..(n + Window - 1)
          PROVE  Ring(q) \in after.placed <=> q \in after.buffer
      <4>1. q \in Nat /\ q >= r.recvNext /\ q >= n /\ q < n + Window
        BY <2>3
      <4>2. CASE q < r.recvNext + Window
        <5>1. ASSUME NEW p \in r.recvNext..(n - 1), Ring(p) = Ring(q)
              PROVE  FALSE
          <6>1. p \in Nat /\ p < n /\ r.recvNext <= p
            BY <2>3
          <6>2. p = q
            BY <6>1, <4>1, <4>2, <2>3, <5>1, RingWindow
          <6> QED BY <6>1, <6>2, <4>1, <2>3
        <5> QED BY <5>1, <4>1, <4>2, <2>5, <2>6
      <4>3. CASE q >= r.recvNext + Window
        <5>1. q - Window \in r.recvNext..(n - 1) /\ Ring(q - Window) = Ring(q)
          BY <4>1, <4>3, <2>3, RingShift
        <5>2. Ring(q) \notin after.placed
          BY <5>1, <2>5
        <5>3. q \notin after.buffer
          BY <2>3, <2>5, <4>1, <4>3 DEF ReceiverRing
        <5> QED BY <5>2, <5>3
      <4> QED BY <4>1, <4>2, <4>3, <2>3
    <3>4. after.complete <=> n = Count
      <4>1. (n >= Count) <=> n = Count
        BY <2>3
      <4> QED BY <4>1, <2>5, Zenon
    <3> QED BY <3>1, <3>2, <3>3, <3>4, <2>5 DEF ReceiverRing
  <2> QED BY <2>1, <2>3, <2>4, <2>5, <2>7
<1> QED BY <1>1, <1>2


(* What an acknowledgement says of the buffer is true (ReceiveState). *)
LEMMA AckTells ==
  ASSUME NEW r \in Arrived, ReceiverRing(r)
  PROVE  /\ AckOf(r) \in Acknowledgements
         /\ AckOf(r).id = r.id /\ AckOf(r).recvNext = r.recvNext
         /\ \A i \in AckOf(r).bits : r.recvNext + i \in r.buffer
<1>1. AckOf(r) \in Acknowledgements
  BY DEF AckOf, Acknowledgements, Arrived
<1>2. ASSUME NEW i \in AckOf(r).bits PROVE r.recvNext + i \in r.buffer
  <2>1. i \in 0..(Window - 1) /\ Ring(r.recvNext + i) \in r.placed
    BY <1>2 DEF AckOf, Rings
  <2>2. r.recvNext + i \in r.recvNext..(r.recvNext + Window - 1)
    BY <2>1, SizesAssumption DEF Arrived
  <2> QED BY <2>1, <2>2 DEF ReceiverRing
<1> QED BY <1>1, <1>2 DEF AckOf

(* The prefix below the cursor bounds the cursor by what was sent. *)
LEMMA CursorBelow ==
  ASSUME NEW r \in Arrived, ReceiverRing(r), NEW n \in Nat,
         \A seq \in r.buffer : seq < n
  PROVE  r.recvNext <= n
<1>1. r.recvNext \in Nat
  BY SizesAssumption DEF Arrived
<1>2. CASE r.recvNext = 0
  BY <1>2
<1>3. CASE r.recvNext # 0
  <2>1. r.recvNext - 1 \in 0..(r.recvNext - 1)
    BY <1>1, <1>3
  <2>2. r.recvNext - 1 < n
    BY <2>1 DEF ReceiverRing
  <2> QED BY <2>2, <1>1
<1> QED BY <1>2, <1>3

-----------------------------------------------------------------------------
(* The sender's entry. *)

LEMMA NewOutFits ==
  ASSUME NEW b \in Ids
  PROVE  NewOut(b) \in OutEntry /\ SenderRing(NewOut(b))
<1>1. NewOut(b) \in OutEntry
  BY SizesAssumption DEF NewOut, OutEntry
<1>2. SenderRing(NewOut(b))
  BY SizesAssumption DEF NewOut, SenderRing
<1> QED BY <1>1, <1>2

(* A new packet takes a ring entry that nothing unresolved holds. *)
LEMMA SendNewKeeps ==
  ASSUME NEW o \in OutEntry, SenderRing(o), ~o.refused, o.announceAcked, WindowAllows(o)
  PROVE  LET o2 == [MarkSent(o, o.nextSeq) EXCEPT !.nextSeq = o.nextSeq + 1]
         IN /\ o2 \in OutEntry /\ SenderRing(o2)
            /\ o2.id = o.id /\ o2.announceAcked /\ o2.refused = o.refused
            /\ o2.contiguousAcked = o.contiguousAcked /\ o2.nextSeq = o.nextSeq + 1
            /\ o2.stamped = o.stamped \cup {Ring(o.nextSeq)}
            /\ Ring(o.nextSeq) \notin o.stamped
            /\ \A r : StruckIsHeld(o, r) => StruckIsHeld(o2, r)
<1> DEFINE o2 == [MarkSent(o, o.nextSeq) EXCEPT !.nextSeq = o.nextSeq + 1]
<1>1. /\ o.nextSeq \in Nat /\ o.contiguousAcked \in Nat /\ Count \in Nat /\ Window \in Nat
      /\ o.nextSeq < Count /\ o.nextSeq < o.contiguousAcked + Window
      /\ o.contiguousAcked <= o.nextSeq
  BY SizesAssumption DEF OutEntry, WindowAllows, SenderRing
<1>2. Ring(o.nextSeq) \in Rings
  BY <1>1, RingRange
<1>3. o2 \in OutEntry
  <2>1. o.nextSeq + 1 \in 0..Count
    BY <1>1
  <2> QED BY <2>1, <1>2, Zenon DEF OutEntry, MarkSent
<1>4. /\ o2.id = o.id /\ o2.announceAcked = o.announceAcked /\ o2.refused = o.refused
      /\ o2.contiguousAcked = o.contiguousAcked /\ o2.nextSeq = o.nextSeq + 1
      /\ o2.stamped = o.stamped \cup {Ring(o.nextSeq)}
      /\ o2.acked = o.acked \ {Ring(o.nextSeq)}
  BY Zenon DEF OutEntry, MarkSent
<1> HIDE DEF o2
\* Below the new sequence, no sequence of the span shares its ring entry.
<1>5. ASSUME NEW seq \in Nat, o.contiguousAcked <= seq, seq < o.nextSeq
      PROVE  Ring(seq) # Ring(o.nextSeq)
  BY <1>1, <1>5, RingWindow
<1>6. Ring(o.nextSeq) \notin o.stamped
  <2>1. ASSUME Ring(o.nextSeq) \in o.stamped PROVE FALSE
    <3>1. PICK seq \in o.contiguousAcked..(o.nextSeq - 1) : Ring(o.nextSeq) = Ring(seq)
      BY <2>1 DEF SenderRing
    <3> QED BY <3>1, <1>1, <1>5
  <2> QED BY <2>1
<1>7. SenderRing(o2)
  <2>1. ASSUME NEW x \in o2.stamped
        PROVE  \E seq \in o2.contiguousAcked..(o2.nextSeq - 1) : x = Ring(seq)
    <3>1. CASE x = Ring(o.nextSeq)
      BY <3>1, <1>1, <1>4
    <3>2. CASE x \in o.stamped
      <4>1. PICK seq \in o.contiguousAcked..(o.nextSeq - 1) : x = Ring(seq)
        BY <3>2 DEF SenderRing
      <4>2. seq \in o2.contiguousAcked..(o2.nextSeq - 1)
        BY <4>1, <1>1, <1>4
      <4> QED BY <4>1, <4>2
    <3> QED BY <2>1, <3>1, <3>2, <1>4
  <2>2. o2.contiguousAcked <= o2.nextSeq /\ o2.nextSeq <= o2.contiguousAcked + Window
    BY <1>1, <1>4
  <2>3. o2.announceAcked /\ ~o2.refused
    BY <1>4
  <2> QED BY <2>1, <2>2, <2>3 DEF SenderRing
<1>8. ASSUME NEW r, StruckIsHeld(o, r) PROVE StruckIsHeld(o2, r)
  <2>1. ASSUME NEW seq \in o2.contiguousAcked..(o2.nextSeq - 1), seq \notin Overdue(o2)
        PROVE  seq \in r.buffer
    <3>1. seq \in Nat /\ o.contiguousAcked <= seq /\ seq <= o.nextSeq
      BY <1>1, <1>4
    <3>2. seq # o.nextSeq
      BY <2>1, <1>4 DEF Overdue
    <3>3. seq \in o.contiguousAcked..(o.nextSeq - 1) /\ Ring(seq) # Ring(o.nextSeq)
      BY <3>1, <3>2, <1>1, <1>5
    <3>4. seq \notin Overdue(o)
      BY <2>1, <3>3, <1>4 DEF Overdue
    <3> QED BY <3>3, <3>4, <1>8 DEF StruckIsHeld
  <2> QED BY <2>1 DEF StruckIsHeld
<1> QED BY <1>3, <1>4, <1>6, <1>7, <1>8, Zenon DEF o2

(* A resend changes no mark but the acknowledged one, which was clear. *)
LEMMA ResendKeeps ==
  ASSUME NEW o \in OutEntry, NEW seq \in Overdue(o)
  PROVE  MarkSent(o, seq) = o
<1>1. Ring(seq) \notin o.acked /\ Ring(seq) \in o.stamped
  BY DEF Overdue
<1>2. o.stamped \cup {Ring(seq)} = o.stamped /\ o.acked \ {Ring(seq)} = o.acked
  BY <1>1
<1> QED BY Zenon, <1>2 DEF MarkSent, OutEntry


(* An acknowledgement of packets that were sent advances the progress cursor *)
(* and leaves stamped only what lies at or above it (OnAck).                 *)
LEMMA OnAckKeeps ==
  ASSUME NEW o \in OutEntry, SenderRing(o), NEW a \in Acknowledgements,
         a.recvNext <= o.nextSeq
  PROVE  LET o2 == OnAck(o, a)
         IN /\ o2 \in OutEntry /\ SenderRing(o2)
            /\ o2.id = o.id /\ o2.announceAcked /\ o2.refused = o.refused
            /\ o2.announced = o.announced
            /\ o2.nextSeq = o.nextSeq
            /\ o2.contiguousAcked =
                  IF o.contiguousAcked <= a.recvNext THEN a.recvNext ELSE o.contiguousAcked
            /\ o2.stamped = o.stamped \ Resolved(o, a)
            /\ o2.acked = o.acked \cup Resolved(o, a)
<1> DEFINE o2 == OnAck(o, a)
           n == IF o.contiguousAcked <= a.recvNext THEN a.recvNext ELSE o.contiguousAcked
<1>1. /\ o.nextSeq \in Nat /\ o.contiguousAcked \in Nat /\ Count \in Nat /\ Window \in Nat
      /\ a.recvNext \in Nat /\ o.contiguousAcked <= Count /\ a.recvNext <= Count
      /\ o.contiguousAcked <= o.nextSeq /\ o.nextSeq <= o.contiguousAcked + Window
  BY SizesAssumption DEF OutEntry, Acknowledgements, SenderRing
<1>2. Resolved(o, a) \in SUBSET Rings
  <2>1. ASSUME NEW x \in Resolved(o, a) PROVE x \in Rings
    <3>1. PICK seq \in Nat : x = Ring(seq)
      <4>1. CASE x \in {Ring(seq) : seq \in o.contiguousAcked..(a.recvNext - 1)}
        BY <4>1, <1>1
      <4>2. CASE x \in {Ring(a.recvNext + i) : i \in a.bits}
        <5>1. PICK i \in a.bits : x = Ring(a.recvNext + i)
          BY <4>2
        <5>2. a.recvNext + i \in Nat
          BY <1>1, SizesAssumption DEF Acknowledgements, Rings
        <5> QED BY <5>1, <5>2
      <4> QED BY <2>1, <4>1, <4>2 DEF Resolved
    <3> QED BY <3>1, RingRange
  <2> QED BY <2>1
<1>3. Max({o.contiguousAcked, a.recvNext}) = n
  BY MaxOfTwo DEF OutEntry, Acknowledgements
<1>4. o2 = [o EXCEPT !.announceAcked = TRUE, !.stamped = @ \ Resolved(o, a),
                     !.acked = @ \cup Resolved(o, a), !.contiguousAcked = n]
  BY Zenon, <1>3 DEF OnAck
<1>5. n \in 0..Count /\ o.contiguousAcked <= n /\ n <= o.nextSeq /\ n \in Nat
  BY <1>1
<1> HIDE DEF n
<1>6. o2 \in OutEntry
  <2>1. o.stamped \ Resolved(o, a) \in SUBSET Rings /\ o.acked \cup Resolved(o, a) \in SUBSET Rings
    BY <1>2 DEF OutEntry
  <2> QED BY <2>1, <1>4, <1>5, Zenon DEF OutEntry
<1>7. /\ o2.id = o.id /\ o2.announceAcked = TRUE /\ o2.refused = o.refused
      /\ o2.announced = o.announced
      /\ o2.nextSeq = o.nextSeq /\ o2.contiguousAcked = n
      /\ o2.stamped = o.stamped \ Resolved(o, a) /\ o2.acked = o.acked \cup Resolved(o, a)
  BY <1>4 DEF OutEntry
<1> HIDE DEF o2
<1>8. SenderRing(o2)
  <2>1. ASSUME NEW x \in o2.stamped
        PROVE  \E seq \in n..(o.nextSeq - 1) : x = Ring(seq)
    <3>1. PICK seq \in o.contiguousAcked..(o.nextSeq - 1) : x = Ring(seq)
      BY <2>1, <1>7 DEF SenderRing
    <3>2. ~(seq < a.recvNext)
      <4>1. ASSUME seq < a.recvNext PROVE x \in Resolved(o, a)
        <5>1. seq \in o.contiguousAcked..(a.recvNext - 1)
          BY <4>1, <3>1, <1>1
        <5> QED BY <5>1, <3>1 DEF Resolved
      <4> QED BY <4>1, <2>1, <1>7
    <3>3. seq \in n..(o.nextSeq - 1)
      BY <3>1, <3>2, <1>1 DEF n
    <3> QED BY <3>1, <3>3
  <2>2. n <= o.nextSeq /\ o.nextSeq <= n + Window
    BY <1>1, <1>5
  <2>3. o2.refused => o2.stamped = {}
    BY <1>7 DEF SenderRing
  <2> QED BY <2>1, <2>2, <2>3, <1>7 DEF SenderRing
<1> QED BY <1>6, <1>7, <1>8, Zenon DEF o2, n

(* An acknowledgement at or ahead of the progress cursor strikes off only    *)
(* what it says the buffer holds: its bits stand for no sequence but their   *)
(* own, because the span they fall in is a window.                           *)
LEMMA OnAckStruck ==
  ASSUME NEW o \in OutEntry, SenderRing(o), NEW a \in Acknowledgements,
         a.recvNext <= o.nextSeq, o.contiguousAcked <= a.recvNext,
         NEW r, StruckIsHeld(o, r), \A i \in a.bits : a.recvNext + i \in r.buffer
  PROVE  StruckIsHeld(OnAck(o, a), r)
<1> DEFINE o2 == OnAck(o, a)
<1>1. /\ o2.refused = o.refused /\ o2.nextSeq = o.nextSeq /\ o2.contiguousAcked = a.recvNext
      /\ o2.stamped = o.stamped \ Resolved(o, a) /\ o2.acked = o.acked \cup Resolved(o, a)
  BY OnAckKeeps
<1> HIDE DEF o2
<1>2. /\ o.nextSeq \in Nat /\ o.contiguousAcked \in Nat /\ Window \in Nat /\ a.recvNext \in Nat
      /\ o.nextSeq <= o.contiguousAcked + Window
  BY SizesAssumption DEF OutEntry, Acknowledgements, SenderRing
<1>3. ASSUME NEW seq \in a.recvNext..(o.nextSeq - 1), ~o.refused, seq \notin Overdue(o2)
      PROVE  seq \in r.buffer
  <2>1. seq \in Nat /\ seq \in o.contiguousAcked..(o.nextSeq - 1)
    BY <1>2
  <2>2. CASE Ring(seq) \notin Resolved(o, a)
    <3>1. seq \notin Overdue(o)
      BY <1>1, <1>3, <2>1, <2>2 DEF Overdue
    <3> QED BY <3>1, <2>1, <1>3 DEF StruckIsHeld
  <2>3. CASE Ring(seq) \in {Ring(q) : q \in o.contiguousAcked..(a.recvNext - 1)}
    <3>1. PICK q \in o.contiguousAcked..(a.recvNext - 1) : Ring(seq) = Ring(q)
      BY <2>3
    <3>2. q \in Nat /\ q < a.recvNext /\ seq - q < Window /\ q - seq < Window
      BY <3>1, <2>1, <1>2
    <3>3. q = seq
      BY <3>1, <3>2, <2>1, RingWindow
    <3> QED BY <3>2, <3>3, <1>2
  <2>4. CASE Ring(seq) \in {Ring(a.recvNext + i) : i \in a.bits}
    <3>1. PICK i \in a.bits : Ring(seq) = Ring(a.recvNext + i)
      BY <2>4
    <3>2. i \in 0..(Window - 1)
      BY DEF Acknowledgements, Rings
    <3>3. /\ a.recvNext + i \in Nat
          /\ seq - (a.recvNext + i) < Window /\ (a.recvNext + i) - seq < Window
      BY <3>2, <2>1, <1>2
    <3>4. seq = a.recvNext + i
      BY <3>1, <3>3, <2>1, RingWindow
    <3> QED BY <3>4
  <2> QED BY <2>2, <2>3, <2>4 DEF Resolved
<1>4. StruckIsHeld(o2, r)
  BY <1>1, <1>3 DEF StruckIsHeld
<1> QED BY <1>4 DEF o2

(* A refusal clears every stamp and moves no cursor. *)
LEMMA OnRefusedKeeps ==
  ASSUME NEW o \in OutEntry, SenderRing(o)
  PROVE  LET o2 == OnRefused(o)
         IN /\ o2 \in OutEntry /\ SenderRing(o2)
            /\ o2.id = o.id /\ o2.announceAcked = o.announceAcked /\ o2.refused
            /\ o2.nextSeq = o.nextSeq /\ o2.contiguousAcked = o.contiguousAcked
            /\ o2.stamped = {}
<1> DEFINE o2 == OnRefused(o)
<1>1. /\ o2.id = o.id /\ o2.announceAcked = o.announceAcked /\ o2.refused = TRUE
      /\ o2.nextSeq = o.nextSeq /\ o2.contiguousAcked = o.contiguousAcked
      /\ o2.stamped = {}
  BY DEF OnRefused, OutEntry
<1>2. o2 \in OutEntry
  BY Zenon DEF OnRefused, OutEntry
<1> HIDE DEF o2
<1>3. SenderRing(o2)
  BY <1>1 DEF SenderRing
<1> QED BY <1>1, <1>2, <1>3, Zenon DEF o2


-----------------------------------------------------------------------------
(* How a step moves one transfer.  Linked is kept by every such move.        *)

(* The acknowledgements of c under way are some of the earlier ones, in the  *)
(* same order.                                                               *)
AcksKept(c) ==
    \E f \in [AcksOf(c)' -> AcksOf(c)] :
        /\ \A k \in AcksOf(c)' : acks'[k] = acks[f[k]]
        /\ \A j, k \in AcksOf(c)' : j < k => f[j] < f[k]

Grows(c) ==
    /\ c \in whole => c \in whole'
    /\ c \in letGo => c \in letGo'
    /\ c \in stranded => c \in stranded'
    /\ c \in begun => c \in begun'
    /\ c \notin begun => \A m \in net' : m.id = c => m \in net

OutCalm(c) ==
    \/ Outgoing(c)' = NoOut
    \/ /\ Outgoing(c) # NoOut
       /\ Outgoing(c)'.announceAcked = Outgoing(c).announceAcked
       /\ Outgoing(c)'.nextSeq = Outgoing(c).nextSeq
       /\ Outgoing(c)'.contiguousAcked = Outgoing(c).contiguousAcked
       /\ \/ /\ Outgoing(c)'.refused = Outgoing(c).refused
             /\ Outgoing(c)'.stamped = Outgoing(c).stamped
             /\ Outgoing(c)'.acked = Outgoing(c).acked
          \/ Outgoing(c)'.refused /\ Outgoing(c)'.stamped = {}

InCalm(c) ==
    \/ Incoming(c)' = Incoming(c)
    \/ /\ Incoming(c) # NoIn /\ Incoming(c)' # NoIn
       /\ Incoming(c)'.recvNext = Incoming(c).recvNext
       /\ Incoming(c)'.placed = Incoming(c).placed
       /\ Incoming(c)'.buffer = Incoming(c).buffer
       /\ Incoming(c)'.complete = Incoming(c).complete
    \/ Incoming(c)' = NoIn /\ (c \in letGo' \/ ~up'.receiver)

(* A step that sends nothing new of c, answers nothing and acknowledges      *)
(* nothing: entries keep their cursors or go, messages only disappear.       *)
Calm(c) ==
    /\ Grows(c) /\ OutCalm(c) /\ InCalm(c) /\ AcksKept(c)
    /\ DataOf(c)' \subseteq DataOf(c)
    /\ up'.receiver => \/ up.receiver
                       \/ Outgoing(c)' = NoOut /\ DataOf(c)' = {} /\ AcksOf(c)' = {}

LEMMA CalmKeeps ==
  ASSUME NEW c \in Ids, Linked(c), Calm(c)
  PROVE  Linked(c)'
<1>1. PICK f \in [AcksOf(c)' -> AcksOf(c)] :
         /\ \A k \in AcksOf(c)' : acks'[k] = acks[f[k]]
         /\ \A j, k \in AcksOf(c)' : j < k => f[j] < f[k]
  BY DEF Calm, AcksKept
<1>2. \A k \in AcksOf(c)' : f[k] \in AcksOf(c)
  BY <1>1
<1>3. RingsExact(c)'
  BY Zenon DEF Linked, RingsExact, Calm, OutCalm, InCalm, SenderRing, ReceiverRing
<1>4. WholeIsTrue(c)'
  BY <1>1, <1>2 DEF Linked, WholeIsTrue, Calm, OutCalm, InCalm, Grows
<1>5. Unmet(c)'
  <2>1. c \notin begun' => /\ Outgoing(c)' = NoOut /\ Incoming(c)' = NoIn
                           /\ \A m \in net' : m.id # c
                           /\ AcksOf(c)' = {}
    BY <1>1, <1>2 DEF Linked, Unmet, Calm, OutCalm, InCalm, Grows
  <2>2. up'.receiver /\ Incoming(c)' = NoIn /\ c \notin letGo' =>
           /\ DataOf(c)' = {} /\ AcksOf(c)' = {}
           /\ Outgoing(c)' # NoOut => ~Outgoing(c)'.announceAcked
    BY <1>2 DEF Linked, Unmet, Calm, OutCalm, InCalm, Grows
  <2> QED BY <2>1, <2>2 DEF Unmet
<1>6. BelowNext(c)'
  BY <1>1, <1>2, Zenon DEF Linked, BelowNext, Calm, OutCalm, InCalm
<1>7. NotBehind(c)'
  BY <1>1, <1>2, Zenon DEF Linked, NotBehind, Calm, OutCalm, InCalm
<1>8. InOrder(c)'
  BY <1>1, <1>2, Zenon DEF Linked, InOrder, StruckIsHeld, Overdue, Calm, OutCalm, InCalm, Grows
<1> QED BY <1>3, <1>4, <1>5, <1>6, <1>7, <1>8 DEF Linked


(* What TypeOK says of one transfer. *)
LEMMA EntryTypes ==
  ASSUME TypeOK, NEW b \in Ids
  PROVE  /\ Outgoing(b) # NoOut => Outgoing(b) \in OutEntry
         /\ Incoming(b) # NoIn => Incoming(b) \in InEntry /\ Incoming(b) \in Arrived
         /\ \A k \in AcksOf(b) : acks[k] \in Acknowledgements
         /\ \A m \in DataOf(b) : m.seq \in Seqs
<1>1. Outgoing(b) # NoOut => Outgoing(b) \in OutEntry
  BY DEF TypeOK, Outgoing, NoSlot
<1>2. Incoming(b) # NoIn => Incoming(b) \in InEntry
  BY DEF TypeOK, Incoming, NoSlot
<1>3. InEntry \subseteq Arrived
  <2>1. 0..AckEvery \subseteq 0..(AckEvery + 1)
    BY SizesAssumption
  <2> QED BY <2>1, Zenon DEF InEntry, Arrived
<1>4. \A k \in AcksOf(b) : acks[k] \in Acknowledgements
  BY DEF TypeOK, AcksOf
<1>5. \A m \in DataOf(b) : m.seq \in Seqs
  BY DEF TypeOK, DataOf, Messages
<1> QED BY <1>1, <1>2, <1>3, <1>4, <1>5

Begins(b) ==
    /\ b \notin begun /\ b \in begun'
    /\ Outgoing(b)' = NewOut(b) /\ Incoming(b)' = Incoming(b)
    /\ UNCHANGED <<up, net, acks, whole, letGo, stranded>>

LEMMA BeginsKeeps ==
  ASSUME NEW b \in Ids, Linked(b), Begins(b)
  PROVE  Linked(b)'
<1>1. Incoming(b) = NoIn /\ DataOf(b) = {} /\ AcksOf(b) = {}
  BY DEF Linked, Unmet, Begins, DataOf
<1>2. Incoming(b)' = NoIn /\ DataOf(b)' = {} /\ AcksOf(b)' = {}
  BY <1>1 DEF Begins, DataOf, AcksOf
<1>3. /\ Outgoing(b)'.contiguousAcked = 0 /\ ~Outgoing(b)'.announceAcked
      /\ SenderRing(Outgoing(b)')
  <2>1. SenderRing(Outgoing(b)')
    BY NewOutFits, Zenon DEF Begins
  <2>2. Outgoing(b)'.contiguousAcked = 0 /\ Outgoing(b)'.announceAcked = FALSE
    BY DEF Begins, NewOut
  <2> QED BY <2>1, <2>2
<1>4. 0 # Count
  BY SizesAssumption
<1>5. RingsExact(b)'
  BY <1>2, <1>3 DEF RingsExact
<1>6. WholeIsTrue(b)'
  BY <1>2, <1>3, <1>4 DEF WholeIsTrue
<1>7. Unmet(b)' /\ BelowNext(b)' /\ NotBehind(b)' /\ InOrder(b)'
  BY <1>2, <1>3 DEF Unmet, BelowNext, NotBehind, InOrder, Begins
<1> QED BY <1>5, <1>6, <1>7 DEF Linked

Sends(b) ==
    /\ Outgoing(b) # NoOut /\ Outgoing(b)' \in OutEntry /\ SenderRing(Outgoing(b)')
    /\ Outgoing(b).announceAcked
    /\ Outgoing(b)'.contiguousAcked = Outgoing(b).contiguousAcked
    /\ Outgoing(b).nextSeq <= Outgoing(b)'.nextSeq
    /\ \A r : StruckIsHeld(Outgoing(b), r) => StruckIsHeld(Outgoing(b)', r)
    /\ \A m \in DataOf(b)' :
          \/ m \in DataOf(b)
          \/ /\ m.seq \in Seqs /\ m.seq < Outgoing(b)'.nextSeq
             /\ m.seq < Outgoing(b).contiguousAcked + Window
    /\ Incoming(b)' = Incoming(b)
    /\ UNCHANGED <<up, acks, whole, letGo, stranded, begun>>

LEMMA SendsKeeps ==
  ASSUME NEW b \in Ids, TypeOK, Linked(b), Sends(b)
  PROVE  Linked(b)'
<1> DEFINE o == Outgoing(b)
           o2 == Outgoing(b)'
           r == Incoming(b)
<1>1. /\ o # NoOut /\ o \in OutEntry /\ o2 \in OutEntry /\ Incoming(b)' = r
      /\ r # NoIn => r \in InEntry
      /\ o2.contiguousAcked = o.contiguousAcked /\ o.nextSeq <= o2.nextSeq
      /\ AcksOf(b)' = AcksOf(b) /\ acks' = acks
  BY EntryTypes DEF Sends, AcksOf
<1>2. /\ o.nextSeq \in Nat /\ o2.nextSeq \in Nat /\ o.contiguousAcked \in Nat /\ Window \in Nat
      /\ r # NoIn => r.recvNext \in Nat /\ r.buffer \subseteq Nat
      /\ \A k \in AcksOf(b) : acks[k].recvNext \in Nat
      /\ \A m \in DataOf(b) : m.seq \in Nat
  BY <1>1, EntryTypes, SizesAssumption DEF OutEntry, InEntry, Acknowledgements, Seqs
<1>3. \A m \in DataOf(b)' : m \in DataOf(b) \/ (/\ m.seq \in Nat /\ m.seq < o2.nextSeq
                                                /\ m.seq < o.contiguousAcked + Window)
  BY SizesAssumption DEF Sends, Seqs
<1>4. b \in begun' /\ ~(up'.receiver /\ Incoming(b)' = NoIn /\ b \notin letGo')
  BY DEF Linked, Unmet, Sends
<1>5. /\ RingsExact(b) /\ WholeIsTrue(b) /\ BelowNext(b) /\ NotBehind(b) /\ InOrder(b)
      /\ SenderRing(o2) /\ (StruckIsHeld(o, r) => StruckIsHeld(o2, r))
      /\ whole' = whole /\ stranded' = stranded
  BY DEF Linked, Sends
<1>6. RingsExact(b)' /\ WholeIsTrue(b)' /\ Unmet(b)'
  BY <1>1, <1>4, <1>5, Zenon DEF RingsExact, WholeIsTrue, Unmet
<1>7. BelowNext(b)'
  <2>1. \A m \in DataOf(b)' : m.seq < o2.nextSeq
    <3>1. \A m \in DataOf(b) : m.seq < o.nextSeq
      BY Zenon, <1>1, <1>5 DEF BelowNext
    <3> QED BY Zenon, <3>1, <1>1, <1>2, <1>3, Chain
  <2>2. \A k \in AcksOf(b) : acks[k].recvNext <= o2.nextSeq
    <3>1. \A k \in AcksOf(b) : acks[k].recvNext <= o.nextSeq
      BY Zenon, <1>1, <1>5 DEF BelowNext
    <3> QED BY Zenon, <3>1, <1>1, <1>2, Chain
  <2>3. r # NoIn => \A seq \in r.buffer : seq < o2.nextSeq
    <3>1. r # NoIn => \A seq \in r.buffer : seq < o.nextSeq
      BY Zenon, <1>1, <1>5 DEF BelowNext
    <3> QED BY Zenon, <3>1, <1>1, <1>2, Chain
  <2> QED BY Zenon, <2>1, <2>2, <2>3, <1>1 DEF BelowNext
<1>8. NotBehind(b)'
  <2>1. r # NoIn => \A m \in DataOf(b)' : m.seq < r.recvNext + Window
    <3>1. r # NoIn => /\ \A m \in DataOf(b) : m.seq < r.recvNext + Window
                      /\ o.contiguousAcked <= r.recvNext
      BY Zenon, <1>1, <1>5 DEF NotBehind
    <3> QED BY Zenon, <3>1, <1>2, <1>3, Chain
  <2> QED BY Zenon, <2>1, <1>1, <1>5 DEF NotBehind
<1>9. InOrder(b)'
  BY <1>1, <1>5, Zenon DEF InOrder
<1> QED BY <1>6, <1>7, <1>8, <1>9 DEF Linked


(* The receiver's side of an announcement or of data that was answered or    *)
(* placed.                                                                   *)
Answers(b) ==
    \/ acks' = acks
    \/ \E a \in Acknowledgements :
          /\ acks' = Append(acks, a)
          /\ a.id = b /\ a.recvNext = Incoming(b)'.recvNext
          /\ \A i \in a.bits : a.recvNext + i \in Incoming(b)'.buffer

Hears(b) ==
    /\ Incoming(b)' # NoIn /\ Incoming(b)' \in InEntry /\ ReceiverRing(Incoming(b)')
    /\ Incoming(b)'.complete => b \in whole'
    /\ IF Incoming(b) = NoIn
       THEN b \notin letGo /\ Incoming(b)'.buffer = {}
       ELSE /\ Incoming(b).recvNext <= Incoming(b)'.recvNext
            /\ Incoming(b).buffer \subseteq Incoming(b)'.buffer
            /\ \A seq \in Incoming(b)'.buffer :
                  seq \in Incoming(b).buffer \/ \E m \in DataOf(b) : m.seq = seq
    /\ Answers(b)
    /\ b \in begun /\ begun' = begun
    /\ DataOf(b)' \subseteq DataOf(b)
    /\ whole \subseteq whole'
    /\ up.receiver
    /\ Outgoing(b)' = Outgoing(b)
    /\ UNCHANGED <<up, letGo, stranded>>

\* The acknowledgements under way after an answer: the old ones, and its own.
LEMMA AnswerAcks ==
  ASSUME NEW b \in Ids, TypeOK, Answers(b)
  PROVE  \A k \in AcksOf(b)' :
            \/ k \in AcksOf(b) /\ acks'[k] = acks[k] /\ k <= Len(acks)
            \/ /\ k = Len(acks) + 1
               /\ acks'[k] \in Acknowledgements
               /\ acks'[k].recvNext = Incoming(b)'.recvNext
               /\ \A i \in acks'[k].bits : acks'[k].recvNext + i \in Incoming(b)'.buffer
<1>1. CASE acks' = acks
  BY <1>1 DEF AcksOf, TypeOK
<1>2. CASE \E a \in Acknowledgements :
             /\ acks' = Append(acks, a)
             /\ a.id = b /\ a.recvNext = Incoming(b)'.recvNext
             /\ \A i \in a.bits : a.recvNext + i \in Incoming(b)'.buffer
  <2>1. PICK a \in Acknowledgements :
             /\ acks' = Append(acks, a)
             /\ a.id = b /\ a.recvNext = Incoming(b)'.recvNext
             /\ \A i \in a.bits : a.recvNext + i \in Incoming(b)'.buffer
    BY <1>2
  <2>2. /\ Len(acks) \in Nat /\ Len(acks') = Len(acks) + 1
        /\ acks'[Len(acks) + 1] = a
        /\ \A k \in 1..Len(acks) : acks'[k] = acks[k]
    BY <2>1 DEF TypeOK
  <2>3. ASSUME NEW k \in AcksOf(b)'
        PROVE  \/ k \in AcksOf(b) /\ acks'[k] = acks[k] /\ k <= Len(acks)
               \/ k = Len(acks) + 1 /\ acks'[k] = a
    <3>1. k \in 1..(Len(acks) + 1) /\ acks'[k].id = b
      BY <2>2 DEF AcksOf
    <3>2. CASE k \in 1..Len(acks)
      BY <3>1, <3>2, <2>2 DEF AcksOf
    <3>3. CASE k = Len(acks) + 1
      BY <3>3, <2>2
    <3> QED BY <3>1, <3>2, <3>3, <2>2
  <2> QED BY Zenon, <2>1, <2>3
<1> QED BY <1>1, <1>2 DEF Answers

LEMMA HearsKeeps ==
  ASSUME NEW b \in Ids, TypeOK, Linked(b), Hears(b)
  PROVE  Linked(b)'
<1> DEFINE o == Outgoing(b)
           r == Incoming(b)
           r2 == Incoming(b)'
           old(k) == k \in AcksOf(b) /\ acks'[k] = acks[k] /\ k <= Len(acks)
           new(k) == /\ k = Len(acks) + 1 /\ acks'[k].recvNext = r2.recvNext
                     /\ \A i \in acks'[k].bits : acks'[k].recvNext + i \in r2.buffer
<1>1. /\ r2 # NoIn /\ r2 \in InEntry /\ r2 \in Arrived /\ ReceiverRing(r2)
      /\ r2.complete => b \in whole'
      /\ Outgoing(b)' = o /\ (o # NoOut => o \in OutEntry)
      /\ r # NoIn => r \in InEntry
      /\ b \in begun' /\ whole \subseteq whole' /\ stranded' = stranded
  <2>1. InEntry \subseteq Arrived
    <3>1. 0..AckEvery \subseteq 0..(AckEvery + 1)
      BY SizesAssumption
    <3> QED BY <3>1, Zenon DEF InEntry, Arrived
  <2> QED BY <2>1, EntryTypes DEF Hears
<1>2. \A k \in AcksOf(b)' : old(k) \/ new(k)
  BY AnswerAcks, Zenon DEF Hears
<1>3. /\ RingsExact(b) /\ WholeIsTrue(b) /\ Unmet(b) /\ BelowNext(b) /\ NotBehind(b)
      /\ InOrder(b)
  BY DEF Linked
<1>4. r = NoIn => /\ DataOf(b) = {} /\ AcksOf(b) = {}
                  /\ o # NoOut => o.nextSeq = 0 /\ o.contiguousAcked = 0
  <2>1. r = NoIn => /\ DataOf(b) = {} /\ AcksOf(b) = {}
                    /\ o # NoOut => ~o.announceAcked
    BY <1>3 DEF Unmet, Hears
  <2>2. o # NoOut /\ ~o.announceAcked => o.nextSeq = 0 /\ o.contiguousAcked <= 0
    BY <1>3, Zenon DEF RingsExact, SenderRing
  <2> QED BY <2>1, <2>2, <1>1, SizesAssumption DEF OutEntry
<1>5. /\ Window \in Nat /\ r2.recvNext \in Nat /\ r2.buffer \subseteq Nat
      /\ o # NoOut => o.nextSeq \in Nat /\ o.contiguousAcked \in Nat
      /\ r # NoIn => r.recvNext \in Nat /\ r.recvNext <= r2.recvNext /\ r.buffer \subseteq r2.buffer
      /\ \A k \in AcksOf(b) : acks[k].recvNext \in Nat
      /\ \A m \in DataOf(b) : m.seq \in Nat
      /\ DataOf(b)' \subseteq DataOf(b)
      /\ Len(acks) \in Nat
  <2>1. /\ Window \in Nat /\ 0..Count \subseteq Nat /\ Seqs \subseteq Nat
    BY SizesAssumption DEF Seqs
  <2>2. /\ r2.recvNext \in Nat /\ r2.buffer \subseteq Nat
        /\ o # NoOut => o.nextSeq \in Nat /\ o.contiguousAcked \in Nat
        /\ r # NoIn => r.recvNext \in Nat
    BY <1>1, <2>1, Zenon DEF InEntry, OutEntry
  <2>3. /\ r # NoIn => r.recvNext <= r2.recvNext /\ r.buffer \subseteq r2.buffer
        /\ DataOf(b)' \subseteq DataOf(b)
    BY Zenon DEF Hears
  <2>4. /\ \A k \in AcksOf(b) : acks[k].recvNext \in Nat
        /\ \A m \in DataOf(b) : m.seq \in Nat
    BY <2>1, EntryTypes, Zenon DEF Acknowledgements
  <2>5. Len(acks) \in Nat
    BY DEF TypeOK
  <2> QED BY Zenon, <2>1, <2>2, <2>3, <2>4, <2>5
<1>6. o # NoOut => \A seq \in r2.buffer : seq < o.nextSeq
  BY Zenon, <1>3, <1>1 DEF BelowNext, Hears
<1>7. o # NoOut => r2.recvNext <= o.nextSeq
  BY <1>1, <1>5, <1>6, CursorBelow
<1>8. AcksOf(b) # {} => r # NoIn
  BY <1>4
<1>9. o # NoOut => o.contiguousAcked <= r2.recvNext
  <2>1. CASE r = NoIn
    BY <2>1, <1>4, <1>5
  <2>2. CASE r # NoIn
    <3>1. o # NoOut => o.contiguousAcked <= r.recvNext
      BY <1>3, <2>2, Zenon DEF NotBehind
    <3> QED BY <3>1, <2>2, <1>5
  <2> QED BY <2>1, <2>2
<1>10. \A k \in AcksOf(b) : /\ acks[k].recvNext <= r2.recvNext
                            /\ \A i \in acks[k].bits : acks[k].recvNext + i \in r2.buffer
  <2> SUFFICES ASSUME NEW k \in AcksOf(b)
               PROVE  /\ acks[k].recvNext <= r2.recvNext
                      /\ \A i \in acks[k].bits : acks[k].recvNext + i \in r2.buffer
    OBVIOUS
  <2>1. r # NoIn
    BY <1>8
  <2>2. /\ acks[k].recvNext <= r.recvNext
        /\ \A i \in acks[k].bits : acks[k].recvNext + i \in r.buffer
    BY <1>3, <2>1, Zenon DEF NotBehind
  <2>3. /\ r.recvNext \in Nat /\ r.recvNext <= r2.recvNext /\ r.buffer \subseteq r2.buffer
        /\ r2.recvNext \in Nat /\ acks[k].recvNext \in Nat
    BY <1>5, <2>1, Zenon
  <2> QED BY <2>2, <2>3
<1>11. RingsExact(b)'
  BY <1>1, <1>3 DEF RingsExact
<1>12. WholeIsTrue(b)'
  <2>1. r2.recvNext = Count => b \in whole'
    BY <1>1 DEF ReceiverRing
  <2> QED BY Zenon, <2>1, <1>1, <1>2, <1>3 DEF WholeIsTrue
<1>13. Unmet(b)'
  BY <1>1 DEF Unmet
<1>14. BelowNext(b)'
  BY Zenon, <1>1, <1>2, <1>3, <1>5, <1>6, <1>7 DEF BelowNext
<1>15. NotBehind(b)'
  <2>1. \A m \in DataOf(b)' : m.seq < r2.recvNext + Window
    <3>1. r # NoIn => \A m \in DataOf(b) : m.seq < r.recvNext + Window
      BY Zenon, <1>3 DEF NotBehind
    <3>2. DataOf(b) # {} => r # NoIn
      BY Zenon, <1>4
    <3> QED BY Zenon, <3>1, <3>2, <1>5, Chain
  <2>2. \A k \in AcksOf(b)' : /\ acks'[k].recvNext <= r2.recvNext
                              /\ \A i \in acks'[k].bits : acks'[k].recvNext + i \in r2.buffer
    BY Zenon, <1>2, <1>5, <1>10, Chain
  <2> QED BY <2>1, <2>2, <1>1, <1>9 DEF NotBehind
<1>16. InOrder(b)'
  <2> SUFFICES ASSUME b \notin stranded
               PROVE  InOrder(b)'
    BY <1>1 DEF InOrder
  <2>1. ASSUME NEW j \in AcksOf(b)', NEW k \in AcksOf(b)', j < k
        PROVE  acks'[j].recvNext <= acks'[k].recvNext
    <3>1. CASE new(k)
      <4>1. old(j)
        <5>1. j # Len(acks) + 1
          BY <2>1, <3>1, <1>5
        <5> QED BY Zenon, <5>1, <1>2
      <4> QED BY Zenon, <4>1, <3>1, <1>10
    <3>2. CASE old(k)
      <4>1. old(j)
        <5>1. CASE new(j)
          BY <5>1, <3>2, <2>1, <1>5 DEF AcksOf
        <5> QED BY <5>1, <1>2
      <4> QED BY <4>1, <3>2, <2>1, <1>3, Zenon DEF InOrder
    <3> QED BY <3>1, <3>2, <1>2
  <2>2. o # NoOut => \A k \in AcksOf(b)' : o.contiguousAcked <= acks'[k].recvNext
    BY <1>2, <1>3, <1>9 DEF InOrder
  <2>3. o # NoOut => StruckIsHeld(o, r2)
    <3>1. CASE r # NoIn
      BY <3>1, <1>3, <1>5, Zenon DEF InOrder, StruckIsHeld
    <3>2. CASE r = NoIn
      BY <3>2, <1>4 DEF StruckIsHeld
    <3> QED BY <3>1, <3>2
  <2> QED BY <2>1, <2>2, <2>3, <1>1 DEF InOrder
<1> QED BY <1>11, <1>12, <1>13, <1>14, <1>15, <1>16 DEF Linked


(* Taking one acknowledgement out of the queue. *)
Without(c, k) ==
    \E f \in [AcksOf(c)' -> AcksOf(c)] :
        /\ \A j \in AcksOf(c)' : acks'[j] = acks[f[j]] /\ f[j] # k
        /\ \A i, j \in AcksOf(c)' : i < j => f[i] < f[j]

LEMMA WithoutOne ==
  ASSUME NEW S, NEW s \in Seq(S), NEW k \in 1..Len(s)
  PROVE  LET t == SubSeq(s, 1, k - 1) \o SubSeq(s, k + 1, Len(s))
         IN /\ t \in Seq(S) /\ Len(t) = Len(s) - 1
            /\ \A j \in 1..(k - 1) : t[j] = s[j]
            /\ \A j \in k..(Len(s) - 1) : t[j] = s[j + 1]
<1> DEFINE u == SubSeq(s, 1, k - 1)
           v == SubSeq(s, k + 1, Len(s))
<1>1. Len(s) \in Nat /\ k \in Nat /\ k >= 1 /\ k <= Len(s)
  OBVIOUS
<1>2. /\ u \in Seq(S) /\ Len(u) = k - 1
      /\ \A j \in 1..(k - 1) : u[j] = s[j]
  BY <1>1
<1>3. /\ v \in Seq(S) /\ Len(v) = Len(s) - k
      /\ \A j \in 1..(Len(s) - k) : v[j] = s[k + j]
  BY <1>1
<1> HIDE DEF u, v
<1>4. /\ u \o v \in Seq(S) /\ Len(u \o v) = Len(u) + Len(v)
      /\ \A i \in 1..(Len(u) + Len(v)) :
            (u \o v)[i] = IF i <= Len(u) THEN u[i] ELSE v[i - Len(u)]
  BY Zenon, <1>2, <1>3, ConcatProperties
<1> DEFINE t == u \o v
<1> HIDE DEF t
<1>5. t \in Seq(S) /\ Len(t) = Len(s) - 1
  BY <1>1, <1>2, <1>3, <1>4 DEF t
<1>6. ASSUME NEW j \in 1..(k - 1) PROVE t[j] = s[j]
  BY <1>1, <1>2, <1>3, <1>4 DEF t
<1>7. ASSUME NEW j \in k..(Len(s) - 1) PROVE t[j] = s[j + 1]
  <2>1. /\ j \in 1..(Len(u) + Len(v)) /\ ~(j <= Len(u)) /\ j - Len(u) = j - k + 1
        /\ j - k + 1 \in 1..(Len(s) - k) /\ k + (j - k + 1) = j + 1
    BY <1>1, <1>2, <1>3
  <2>2. t[j] = v[j - Len(u)]
    BY <2>1, <1>4 DEF t
  <2> QED BY Zenon, <2>1, <2>2, <1>3
<1> QED BY Zenon, <1>5, <1>6, <1>7 DEF t, u, v

LEMMA RemoveAck ==
  ASSUME TypeOK, NEW k \in 1..Len(acks),
         acks' = SubSeq(acks, 1, k - 1) \o SubSeq(acks, k + 1, Len(acks))
  PROVE  /\ acks' \in Seq(Acknowledgements)
         /\ \A c \in Ids : Without(c, k) /\ AcksKept(c)
<1>1. Len(acks) \in Nat /\ k \in Nat /\ acks \in Seq(Acknowledgements)
  BY DEF TypeOK
<1>2. /\ acks' \in Seq(Acknowledgements) /\ Len(acks') = Len(acks) - 1
      /\ \A j \in 1..(k - 1) : acks'[j] = acks[j]
      /\ \A j \in k..(Len(acks) - 1) : acks'[j] = acks[j + 1]
  BY Zenon, <1>1, WithoutOne
<1>3. ASSUME NEW c \in Ids
      PROVE  Without(c, k) /\ AcksKept(c)
  <2> DEFINE g(j) == IF j < k THEN j ELSE j + 1
             f == [j \in AcksOf(c)' |-> g(j)]
  <2>1. ASSUME NEW j \in AcksOf(c)'
        PROVE  g(j) \in AcksOf(c) /\ acks'[j] = acks[g(j)] /\ g(j) # k /\ j \in Nat
    <3>1. j \in 1..(Len(acks) - 1) /\ acks'[j].id = c
      BY Zenon, <1>2 DEF AcksOf
    <3>2. CASE j < k
      <4>1. g(j) = j /\ j \in 1..Len(acks) /\ j \in 1..(k - 1) /\ j # k /\ j \in Nat
        BY <3>1, <3>2, <1>1
      <4> QED BY Zenon, <4>1, <3>1, <1>2 DEF AcksOf
    <3>3. CASE ~(j < k)
      <4>1. j \in k..(Len(acks) - 1) /\ g(j) = j + 1 /\ j + 1 \in 1..Len(acks) /\ j + 1 # k
        BY <3>1, <3>3, <1>1
      <4>2. acks'[j] = acks[j + 1]
        BY <4>1, <1>2, Zenon
      <4>3. acks[j + 1].id = c
        BY <4>2, <3>1, Zenon
      <4>4. j \in Nat
        BY <3>1
      <4> QED BY <4>1, <4>2, <4>3, <4>4, Zenon DEF AcksOf
    <3> QED BY Zenon, <3>2, <3>3
  <2>2. \A i, j \in AcksOf(c)' : i < j => g(i) < g(j)
    <3>1. AcksOf(c)' \subseteq Nat
      BY Zenon, <2>1
    <3> QED BY <3>1, <1>1
  <2>3. f \in [AcksOf(c)' -> AcksOf(c)]
    BY Zenon, <2>1
  <2>4. \A j \in AcksOf(c)' : f[j] = g(j)
    OBVIOUS
  <2> HIDE DEF f, g
  <2>5. \A j \in AcksOf(c)' : acks'[j] = acks[f[j]] /\ f[j] # k
    BY Zenon, <2>1, <2>4
  <2>6. \A i, j \in AcksOf(c)' : i < j => f[i] < f[j]
    BY <2>2, <2>4
  <2> QED BY Zenon, <2>3, <2>5, <2>6 DEF Without, AcksKept
<1> QED BY Zenon, <1>2, <1>3

Acknowledges(b, k) ==
    /\ k \in AcksOf(b) /\ Outgoing(b) # NoOut
    /\ Outgoing(b)' = OnAck(Outgoing(b), acks[k])
    /\ Without(b, k)
    /\ b \notin stranded' => b \notin stranded /\ \A j \in AcksOf(b) : ~(j < k)
    /\ Incoming(b)' = Incoming(b)
    /\ UNCHANGED <<up, net, whole, letGo, begun>>

LEMMA AcknowledgesKeeps ==
  ASSUME NEW b \in Ids, NEW k, TypeOK, Linked(b), Acknowledges(b, k)
  PROVE  Linked(b)'
<1> DEFINE o == Outgoing(b)
           o2 == Outgoing(b)'
           r == Incoming(b)
           a == acks[k]
<1>1. PICK f \in [AcksOf(b)' -> AcksOf(b)] :
        /\ \A j \in AcksOf(b)' : acks'[j] = acks[f[j]] /\ f[j] # k
        /\ \A i, j \in AcksOf(b)' : i < j => f[i] < f[j]
  BY DEF Acknowledges, Without
<1>2. \A j \in AcksOf(b)' : f[j] \in AcksOf(b)
  BY <1>1
<1>3. /\ RingsExact(b) /\ WholeIsTrue(b) /\ Unmet(b) /\ BelowNext(b) /\ NotBehind(b)
      /\ InOrder(b)
  BY DEF Linked
<1>4. /\ o # NoOut /\ o \in OutEntry /\ SenderRing(o) /\ a \in Acknowledgements
      /\ a.recvNext <= o.nextSeq /\ k \in AcksOf(b)
      /\ r # NoIn => r \in InEntry
  BY Zenon, <1>3, EntryTypes DEF Acknowledges, RingsExact, BelowNext
<1>5. /\ o2 = OnAck(o, a) /\ Incoming(b)' = r /\ DataOf(b)' = DataOf(b)
      /\ whole' = whole /\ letGo' = letGo /\ begun' = begun /\ up' = up /\ net' = net
  BY DEF Acknowledges, DataOf
<1>6. /\ o2 \in OutEntry /\ SenderRing(o2) /\ o2.announceAcked
      /\ o2.nextSeq = o.nextSeq
      /\ o2.contiguousAcked = IF o.contiguousAcked <= a.recvNext THEN a.recvNext
                                                                 ELSE o.contiguousAcked
  <2>1. PICK p \in OutEntry, q \in Acknowledgements : p = o /\ q = a
    BY <1>4, Zenon
  <2>2. PICK p2 : p2 = OnAck(p, q)
    OBVIOUS
  <2>3. /\ p2 \in OutEntry /\ SenderRing(p2) /\ p2.announceAcked
        /\ p2.nextSeq = p.nextSeq
        /\ p2.contiguousAcked = IF p.contiguousAcked <= q.recvNext THEN q.recvNext
                                                                  ELSE p.contiguousAcked
    <3>1. SenderRing(p) /\ q.recvNext <= p.nextSeq
      BY <1>4, <2>1, Zenon
    <3> QED BY <2>2, <3>1, OnAckKeeps
  <2> QED BY <1>5, <2>1, <2>2, <2>3, Zenon
<1>7. b \in begun /\ ~(up.receiver /\ r = NoIn /\ b \notin letGo)
  BY <1>3, <1>4, Zenon DEF Unmet
<1>8. /\ o.nextSeq \in Nat /\ o.contiguousAcked \in Nat /\ a.recvNext \in Nat
      /\ r # NoIn => r.recvNext \in Nat
      /\ \A j \in AcksOf(b) : acks[j].recvNext \in Nat /\ j \in Nat
  <2>1. Count \in Nat /\ 0..Count \subseteq Nat /\ AcksOf(b) \subseteq Nat
    BY SizesAssumption DEF AcksOf
  <2>2. o.nextSeq \in 0..Count /\ o.contiguousAcked \in 0..Count /\ a.recvNext \in 0..Count
    BY Zenon, <1>4 DEF OutEntry, Acknowledgements
  <2>3. /\ r # NoIn => r.recvNext \in 0..Count
        /\ \A j \in AcksOf(b) : acks[j].recvNext \in 0..Count
    BY Zenon, <1>4, EntryTypes DEF InEntry, Acknowledgements
  <2> QED BY Zenon, <2>1, <2>2, <2>3
<1>9. RingsExact(b)'
  BY Zenon, <1>3, <1>5, <1>6 DEF RingsExact
<1>10. WholeIsTrue(b)'
  BY Zenon, <1>1, <1>2, <1>3, <1>4, <1>5, <1>6 DEF WholeIsTrue
<1>11. Unmet(b)'
  BY <1>5, <1>7 DEF Unmet
<1>12. BelowNext(b)'
  BY Zenon, <1>1, <1>2, <1>3, <1>4, <1>5, <1>6 DEF BelowNext
<1>13. NotBehind(b)'
  <2>1. r # NoIn => o2.contiguousAcked <= r.recvNext
    BY Zenon, <1>3, <1>4, <1>6 DEF NotBehind
  <2> QED BY Zenon, <2>1, <1>1, <1>2, <1>3, <1>5 DEF NotBehind
<1>14. InOrder(b)'
  <2> SUFFICES ASSUME b \notin stranded'
               PROVE  InOrder(b)'
    BY DEF InOrder
  <2>1. b \notin stranded /\ \A j \in AcksOf(b) : ~(j < k)
    BY DEF Acknowledges
  <2>2. o.contiguousAcked <= a.recvNext /\ o2.contiguousAcked = a.recvNext
    BY Zenon, <2>1, <1>3, <1>4, <1>6 DEF InOrder
  <2>3. \A j \in AcksOf(b)' : a.recvNext <= acks'[j].recvNext
    <3>1. ASSUME NEW j \in AcksOf(b)' PROVE k < f[j]
      BY <2>1, <1>1, <1>2, <1>4, <1>8
    <3> QED BY Zenon, <3>1, <2>1, <1>1, <1>2, <1>3, <1>4 DEF InOrder
  <2>4. \A i, j \in AcksOf(b)' : i < j => acks'[i].recvNext <= acks'[j].recvNext
    BY <2>1, <1>1, <1>2, <1>3, Zenon DEF InOrder
  <2>5. r # NoIn => StruckIsHeld(o2, r)
    <3> SUFFICES ASSUME r # NoIn PROVE StruckIsHeld(o2, r)
      OBVIOUS
    <3>1. StruckIsHeld(o, r) /\ \A i \in a.bits : a.recvNext + i \in r.buffer
      BY Zenon, <2>1, <1>3, <1>4 DEF InOrder, NotBehind
    <3> QED BY <3>1, <2>2, <1>4, <1>5, OnAckStruck, Zenon
  <2> QED BY Zenon, <2>2, <2>3, <2>4, <2>5, <1>5 DEF InOrder
<1> QED BY <1>9, <1>10, <1>11, <1>12, <1>13, <1>14 DEF Linked

-----------------------------------------------------------------------------
Prompt == "slowpoll" \notin Faults /\ "late" \notin Faults

(* The empty entries are no entries. *)
LEMMA NoEntry == NoOut \notin OutEntry /\ NoIn \notin InEntry
BY SizesAssumption DEF NoOut, NoIn, OutEntry, InEntry

LEMMA SlotsApart == NoSlot \notin OutSlots /\ NoSlot \notin InSlots
BY SizesAssumption DEF NoSlot, OutSlots, InSlots

-----------------------------------------------------------------------------
(* What a step does to the tables. *)

LEMMA SenderStill ==
  ASSUME TransferInv, UNCHANGED <<out, outDir, outFree, outFinished>>, up'.sender = up.sender
  PROVE  /\ OutTable' /\ FinishedOnce'
         /\ \A c \in Ids : Outgoing(c)' = Outgoing(c)
<1>1. OutTable'
  BY DEF TransferInv, OutTable
<1>2. FinishedOnce'
  BY DEF TransferInv, FinishedOnce
<1> QED BY <1>1, <1>2 DEF Outgoing

LEMMA ReceiverStill ==
  ASSUME TransferInv, UNCHANGED <<inn, inDir, inFree, letGo, up>>
  PROVE  /\ InTable'
         /\ \A c \in Ids : Incoming(c)' = Incoming(c)
<1>1. InTable'
  BY DEF TransferInv, InTable
<1> QED BY <1>1 DEF Incoming

(* An entry rewritten in place. *)
LEMMA OutWrite ==
  ASSUME TransferInv, NEW b \in Ids, outDir[b] # NoSlot,
         NEW o2 \in OutEntry, o2.id = b,
         out' = [out EXCEPT ![outDir[b]] = o2],
         UNCHANGED <<outDir, outFree, up>>
  PROVE  /\ OutTable'
         /\ out' \in [OutSlots -> OutEntry \cup {NoOut}]
         /\ Outgoing(b) # NoOut /\ Outgoing(b) = out[outDir[b]] /\ Outgoing(b) \in OutEntry
         /\ Outgoing(b)' = o2 /\ o2 # NoOut
         /\ \A c \in Ids \ {b} : Outgoing(c)' = Outgoing(c)
<1> DEFINE s == outDir[b]
<1>1. /\ s \in OutSlots /\ out \in [OutSlots -> OutEntry \cup {NoOut}]
      /\ outDir \in [Ids -> OutSlots \cup {NoSlot}]
      /\ out[s] # NoOut /\ out[s].id = b
      /\ o2 # NoOut
  BY NoEntry DEF TransferInv, TypeOK, OutTable
<1>2. out' \in [OutSlots -> OutEntry \cup {NoOut}]
  BY <1>1
<1>3. out'[s] = o2 /\ \A t \in OutSlots \ {s} : out'[t] = out[t]
  BY <1>1
<1>4. \A c \in Ids \ {b} : outDir[c] # s
  BY <1>1 DEF TransferInv, OutTable
<1>5. OutTable'
  <2>1. \A c \in Ids : outDir[c] # NoSlot => out'[outDir[c]] # NoOut /\ out'[outDir[c]].id = c
    BY <1>1, <1>3, <1>4 DEF TransferInv, OutTable
  <2>2. \A t \in OutSlots : out'[t] # NoOut => outDir[out'[t].id] = t
    BY <1>1, <1>3 DEF TransferInv, OutTable
  <2>3. \A t \in outFree : out'[t] = NoOut
    BY <1>1, <1>3 DEF TransferInv, TypeOK, OutTable
  <2> QED BY <2>1, <2>2, <2>3 DEF TransferInv, OutTable
<1>6. Outgoing(b) = out[s] /\ Outgoing(b)' = o2
  BY <1>3 DEF Outgoing
<1>7. \A c \in Ids \ {b} : Outgoing(c)' = Outgoing(c)
  BY <1>1, <1>3, <1>4 DEF Outgoing
<1> QED BY <1>1, <1>2, <1>5, <1>6, <1>7

LEMMA InWrite ==
  ASSUME TransferInv, NEW b \in Ids, inDir[b] # NoSlot,
         NEW r2 \in InEntry, r2.id = b,
         inn' = [inn EXCEPT ![inDir[b]] = r2],
         UNCHANGED <<inDir, inFree, letGo, up>>
  PROVE  /\ InTable'
         /\ inn' \in [InSlots -> InEntry \cup {NoIn}]
         /\ Incoming(b) # NoIn /\ Incoming(b) = inn[inDir[b]] /\ Incoming(b) \in InEntry
         /\ Incoming(b)' = r2 /\ r2 # NoIn
         /\ \A c \in Ids \ {b} : Incoming(c)' = Incoming(c)
<1> DEFINE s == inDir[b]
<1>1. /\ s \in InSlots /\ inn \in [InSlots -> InEntry \cup {NoIn}]
      /\ inDir \in [Ids -> InSlots \cup {NoSlot}]
      /\ inn[s] # NoIn /\ inn[s].id = b
      /\ r2 # NoIn
  BY NoEntry DEF TransferInv, TypeOK, InTable
<1>2. inn' \in [InSlots -> InEntry \cup {NoIn}]
  BY <1>1
<1>3. inn'[s] = r2 /\ \A t \in InSlots \ {s} : inn'[t] = inn[t]
  BY <1>1
<1>4. \A c \in Ids \ {b} : inDir[c] # s
  BY <1>1 DEF TransferInv, InTable
<1>5. InTable'
  <2>1. \A c \in Ids : inDir[c] # NoSlot => inn'[inDir[c]] # NoIn /\ inn'[inDir[c]].id = c
    BY <1>1, <1>3, <1>4 DEF TransferInv, InTable
  <2>2. \A t \in InSlots : inn'[t] # NoIn => inDir[inn'[t].id] = t
    BY <1>1, <1>3 DEF TransferInv, InTable
  <2>3. \A t \in inFree : inn'[t] = NoIn
    BY <1>1, <1>3 DEF TransferInv, TypeOK, InTable
  <2> QED BY <2>1, <2>2, <2>3 DEF TransferInv, InTable
<1>6. Incoming(b) = inn[s] /\ Incoming(b)' = r2
  BY <1>3 DEF Incoming
<1>7. \A c \in Ids \ {b} : Incoming(c)' = Incoming(c)
  BY <1>1, <1>3, <1>4 DEF Incoming
<1> QED BY <1>1, <1>2, <1>5, <1>6, <1>7

(* A finished entry's slot is rewritten only in what it does not speak of. *)
LEMMA FinishedWrite ==
  ASSUME TransferInv, NEW s \in OutSlots, NEW o2 \in OutEntry,
         out' = [out EXCEPT ![s] = o2], outFinished' = outFinished,
         FinishedOut(s) => /\ o2.stamped = out[s].stamped /\ o2.refused = out[s].refused
                           /\ o2.contiguousAcked = out[s].contiguousAcked
  PROVE  FinishedOnce'
<1>1. out \in [OutSlots -> OutEntry \cup {NoOut}] /\ o2 # NoOut
  BY NoEntry DEF TransferInv, TypeOK
<1>2. ASSUME NEW k \in 1..Len(outFinished)
      PROVE  LET o == out'[outFinished[k].slot]
             IN /\ o # NoOut /\ o.stamped = {}
                /\ IF outFinished[k].outcome = "ok" THEN o.contiguousAcked = Count ELSE o.refused
  <2>1. outFinished[k].slot \in OutSlots
    <3>1. outFinished[k] \in FinishedEntry
      BY ElementOfSeq DEF TransferInv, TypeOK
    <3> QED BY <3>1 DEF FinishedEntry
  <2>2. CASE outFinished[k].slot = s
    <3>1. FinishedOut(s)
      BY <2>2 DEF FinishedOut
    <3> QED BY <3>1, <2>2, <1>1 DEF TransferInv, FinishedOnce
  <2>3. CASE outFinished[k].slot # s
    BY <2>1, <2>3, <1>1 DEF TransferInv, FinishedOnce
  <2> QED BY <2>2, <2>3
<1> QED BY <1>2 DEF TransferInv, FinishedOnce

(* The acknowledgements of a transfer the step does not answer. *)
LEMMA AcksStill ==
  ASSUME NEW c \in Ids, acks' = acks
  PROVE  AcksKept(c)
<1>1. AcksOf(c)' = AcksOf(c)
  BY DEF AcksOf
<1> DEFINE f == [k \in AcksOf(c) |-> k]
<1>2. /\ f \in [AcksOf(c)' -> AcksOf(c)]
      /\ \A k \in AcksOf(c)' : acks'[k] = acks[f[k]]
      /\ \A j, k \in AcksOf(c)' : j < k => f[j] < f[k]
  BY <1>1
<1> HIDE DEF f
<1> QED BY <1>2 DEF AcksKept

LEMMA AcksOthers ==
  ASSUME TypeOK, NEW b \in Ids, Answers(b), NEW c \in Ids \ {b}
  PROVE  AcksKept(c)
<1>1. CASE acks' = acks
  BY <1>1, AcksStill
<1>2. CASE acks' # acks
  <2>1. PICK a \in Acknowledgements : acks' = Append(acks, a) /\ a.id = b
    BY <1>2 DEF Answers
  <2>2. /\ Len(acks) \in Nat /\ Len(acks') = Len(acks) + 1
        /\ acks'[Len(acks) + 1] = a
        /\ \A k \in 1..Len(acks) : acks'[k] = acks[k]
    BY <2>1 DEF TypeOK
  <2>3. ASSUME NEW k \in AcksOf(c)'
        PROVE  k \in AcksOf(c) /\ acks'[k] = acks[k]
    <3>1. k \in 1..(Len(acks) + 1) /\ acks'[k].id = c
      BY <2>2 DEF AcksOf
    <3>2. k # Len(acks) + 1
      BY <3>1, <2>1, <2>2
    <3>3. k \in 1..Len(acks)
      BY <3>1, <3>2, <2>2
    <3> QED BY <3>1, <3>3, <2>2 DEF AcksOf
  <2> DEFINE f == [k \in AcksOf(c)' |-> k]
  <2>4. /\ f \in [AcksOf(c)' -> AcksOf(c)]
        /\ \A k \in AcksOf(c)' : acks'[k] = acks[f[k]]
        /\ \A j, k \in AcksOf(c)' : j < k => f[j] < f[k]
    BY <2>3
  <2> HIDE DEF f
  <2> QED BY <2>4 DEF AcksKept
<1> QED BY <1>1, <1>2

(* A transfer neither end touches. *)
LEMMA Untouched ==
  ASSUME NEW c \in Ids, Linked(c), Grows(c), AcksKept(c),
         Outgoing(c)' = Outgoing(c), Incoming(c)' = Incoming(c),
         DataOf(c)' \subseteq DataOf(c), up' = up
  PROVE  Linked(c)'
<1>1. OutCalm(c) /\ InCalm(c)
  BY Zenon DEF OutCalm, InCalm
<1> QED BY <1>1, CalmKeeps DEF Calm

\* The counters and sets a step may only add to.
Only(c) ==
    /\ UNCHANGED <<whole, letGo, stranded>>
    /\ c \in begun => c \in begun'
    /\ \A m \in net' : m \in net \/ m.id # c \/ (m.type # "data" /\ c \in begun)

LEMMA OnlyGrows ==
  ASSUME NEW c \in Ids, Only(c)
  PROVE  Grows(c) /\ DataOf(c)' \subseteq DataOf(c)
BY DEF Only, Grows, DataOf

-----------------------------------------------------------------------------
(* The sender's actions. *)

LEMMA InvFacts ==
  ASSUME TransferInv
  PROVE  /\ TypeOK /\ OutTable /\ InTable /\ FinishedOnce
         /\ \A b \in Ids : Linked(b)
BY DEF TransferInv

LEMMA SendTransferKeeps ==
  ASSUME TransferInv, NEW b \in Ids, SendTransfer(b)
  PROVE  TransferInv'
<1>1. PICK s \in outFree \ outJam :
         /\ outFree' = outFree \ {s}
         /\ out' = [out EXCEPT ![s] = NewOut(b)]
         /\ outDir' = [outDir EXCEPT ![b] = s]
  BY Zenon DEF SendTransfer
<1>2. /\ s \in OutSlots /\ s # NoSlot /\ out[s] = NoOut /\ outDir[b] = NoSlot
      /\ out \in [OutSlots -> OutEntry \cup {NoOut}]
      /\ outDir \in [Ids -> OutSlots \cup {NoSlot}]
      /\ NewOut(b) \in OutEntry /\ NewOut(b) # NoOut /\ NewOut(b).id = b
  <2>1. NewOut(b) \in OutEntry /\ NewOut(b) # NoOut
    BY NoEntry, NewOutFits
  <2>2. NewOut(b).id = b
    BY DEF NewOut
  <2> QED BY <2>1, <2>2, <1>1, SlotsApart DEF TransferInv, TypeOK, OutTable, SendTransfer
<1>3. /\ out' \in [OutSlots -> OutEntry \cup {NoOut}]
      /\ outDir' \in [Ids -> OutSlots \cup {NoSlot}]
      /\ out'[s] = NewOut(b) /\ \A t \in OutSlots \ {s} : out'[t] = out[t]
      /\ outDir'[b] = s /\ \A c \in Ids \ {b} : outDir'[c] = outDir[c]
  BY <1>1, <1>2
<1>4. UNCHANGED <<up, outJam, outFinished, outstanding, reported, inn, inDir, inFree,
                  inFinished, whole, letGo, net, acks, stranded, announces, lost, sweeps>>
  BY DEF SendTransfer, recvVars, netVars
<1>5. TypeOK'
  <2>1. outFree' \subseteq OutSlots
    BY <1>1 DEF TransferInv, TypeOK
  <2> QED BY <2>1, <1>3, <1>4, Zenon DEF TransferInv, TypeOK
<1>6. \A c \in Ids \ {b} : outDir[c] # s
  BY <1>2 DEF TransferInv, OutTable
<1>7. OutTable'
  <2>1. \A c \in Ids : outDir'[c] # NoSlot => out'[outDir'[c]] # NoOut /\ out'[outDir'[c]].id = c
    BY <1>2, <1>3, <1>6 DEF TransferInv, OutTable
  <2>2. \A t \in OutSlots : out'[t] # NoOut => outDir'[out'[t].id] = t
    <3>1. ASSUME NEW t \in OutSlots \ {s}, out[t] # NoOut
          PROVE  out[t].id \in Ids \ {b} /\ outDir[out[t].id] = t
      <4>1. out[t] \in OutEntry /\ outDir[out[t].id] = t
        BY <3>1, <1>2 DEF TransferInv, OutTable
      <4>2. t # NoSlot
        BY SlotsApart
      <4> QED BY <4>1, <4>2, <1>2 DEF OutEntry
    <3> QED BY <3>1, <1>2, <1>3
  <2>3. \A t \in outFree' : out'[t] = NoOut
    BY <1>1, <1>3 DEF TransferInv, TypeOK, OutTable
  <2> QED BY <2>1, <2>2, <2>3, <1>4, Zenon DEF SendTransfer, OutTable
<1>8. InTable' /\ \A c \in Ids : Incoming(c)' = Incoming(c)
  BY <1>4, ReceiverStill
<1>9. FinishedOnce'
  <2>1. ~FinishedOut(s)
    BY <1>2, Zenon DEF TransferInv, FinishedOnce, FinishedOut
  <2> QED BY Zenon, <2>1, <1>1, <1>2, <1>4, FinishedWrite
<1>10. ASSUME NEW c \in Ids PROVE Linked(c)'
  <2>1. CASE c = b
    <3>1. Outgoing(b)' = NewOut(b)
      BY <1>2, <1>3 DEF Outgoing
    <3>2. Begins(b)
      BY <3>1, <1>4, <1>8 DEF Begins, SendTransfer
    <3> QED BY <3>2, <2>1, BeginsKeeps, InvFacts
  <2>2. CASE c # b
    <3>1. Outgoing(c)' = Outgoing(c)
      BY <2>2, <1>2, <1>3, <1>6 DEF Outgoing
    <3>2. Only(c)
      BY <1>4 DEF Only, SendTransfer
    <3> QED BY <3>1, <3>2, <1>4, <1>8, AcksStill, OnlyGrows, Untouched, InvFacts
  <2> QED BY <2>1, <2>2
<1> QED BY <1>5, <1>7, <1>8, <1>9, <1>10 DEF TransferInv

(* A step of the send pass that rewrites the entry of b and sends. *)
LEMMA PassKeeps ==
  ASSUME TransferInv, NEW b \in Ids, outDir[b] # NoSlot,
         NEW o2 \in OutEntry, o2.id = b,
         out' = [out EXCEPT ![outDir[b]] = o2],
         FinishedOut(outDir[b]) =>
            /\ o2.stamped = out[outDir[b]].stamped /\ o2.refused = out[outDir[b]].refused
            /\ o2.contiguousAcked = out[outDir[b]].contiguousAcked,
         outstanding' \in 0..Budget, announces' \in Nat, net' \subseteq Messages,
         \A m \in net' : m \in net \/ m.id = b,
         UNCHANGED <<up, outDir, outFree, outFinished, reported, inn, inDir, inFree,
                     whole, letGo, acks, stranded, begun, sweeps>>,
         Outgoing(b)' = o2 /\ Incoming(b)' = Incoming(b) => Linked(b)'
  PROVE  TransferInv'
<1>1. /\ OutTable' /\ out' \in [OutSlots -> OutEntry \cup {NoOut}]
      /\ Outgoing(b)' = o2
      /\ \A c \in Ids \ {b} : Outgoing(c)' = Outgoing(c)
  BY Zenon, OutWrite
<1>2. InTable' /\ \A c \in Ids : Incoming(c)' = Incoming(c)
  BY ReceiverStill, Zenon
<1>3. FinishedOnce'
  <2>1. outDir[b] \in OutSlots
    BY Zenon DEF TransferInv, TypeOK
  <2> QED BY Zenon, <2>1, FinishedWrite
<1>4. TypeOK'
  BY <1>1, Zenon DEF TransferInv, TypeOK
<1>5. ASSUME NEW c \in Ids PROVE Linked(c)'
  <2>1. CASE c = b
    BY <2>1, <1>1, <1>2, Zenon
  <2>2. CASE c # b
    <3>1. Only(c)
      BY <2>2, Zenon DEF Only
    <3> QED BY <3>1, <2>2, <1>1, <1>2, AcksStill, OnlyGrows, Untouched, InvFacts, Zenon
  <2> QED BY <2>1, <2>2
<1> QED BY <1>1, <1>2, <1>3, <1>4, <1>5, Zenon DEF TransferInv

\* The entry the pass looks at, and what is known of it.
LEMMA PassEntry ==
  ASSUME TransferInv, NEW b \in Ids, outDir[b] # NoSlot
  PROVE  /\ Outgoing(b) = out[outDir[b]] /\ Outgoing(b) # NoOut
         /\ Outgoing(b) \in OutEntry /\ Outgoing(b).id = b
         /\ SenderRing(Outgoing(b)) /\ b \in begun
<1>1. Outgoing(b) = out[outDir[b]] /\ Outgoing(b) # NoOut /\ Outgoing(b).id = b
  BY DEF TransferInv, OutTable, Outgoing
<1>2. Linked(b) /\ TypeOK
  BY DEF TransferInv
<1> QED BY <1>1, <1>2, EntryTypes, Zenon DEF Linked, RingsExact, Unmet

LEMMA AnnounceKeeps ==
  ASSUME TransferInv, NEW b \in Ids, SendAnnounce(b) \/ AnnounceOverdue(b)
  PROVE  TransferInv'
<1>1. outDir[b] # NoSlot
  BY DEF SendAnnounce, AnnounceOverdue, Sending
<1> DEFINE o == Outgoing(b)
<1>2. o = out[outDir[b]] /\ o # NoOut /\ o \in OutEntry /\ o.id = b /\ b \in begun
  BY <1>1, PassEntry, Zenon
<1>3. PICK v \in BOOLEAN : out' = [out EXCEPT ![outDir[b]] = [o EXCEPT !.announced = v]]
  BY Zenon, <1>1, <1>2 DEF SendAnnounce, AnnounceOverdue
<1> DEFINE o2 == [o EXCEPT !.announced = v]
<1>4. /\ o2 \in OutEntry /\ o2.id = o.id /\ o2.announceAcked = o.announceAcked
      /\ o2.nextSeq = o.nextSeq /\ o2.contiguousAcked = o.contiguousAcked
      /\ o2.refused = o.refused /\ o2.stamped = o.stamped /\ o2.acked = o.acked
  <2>1. o2 \in OutEntry
    BY <1>2, Zenon DEF OutEntry
  <2> QED BY <2>1, <1>2 DEF OutEntry
<1>5. UNCHANGED <<up, outDir, outFree, outFinished, reported, inn, inDir, inFree,
                  whole, letGo, acks, stranded, begun, sweeps>>
  BY DEF SendAnnounce, AnnounceOverdue, recvVars, netVars
<1>6. outstanding' \in 0..Budget /\ announces' \in Nat
  BY SizesAssumption
     DEF TransferInv, TypeOK, SendAnnounce, AnnounceOverdue, TransferBudgetAllows
<1>7. net' \subseteq net \cup {[type |-> "announce", id |-> b]}
  BY DEF SendAnnounce, AnnounceOverdue, netVars
<1>8. net' \subseteq Messages /\ \A m \in net' : m \in net \/ (m.id = b /\ m.type # "data")
  <2> DEFINE msg == [type |-> "announce", id |-> b]
  <2>1. net \subseteq Messages
    BY Zenon DEF TransferInv, TypeOK
  <2>2. msg \in Messages /\ msg.id = b /\ msg.type # "data"
    BY DEF Messages
  <2> HIDE DEF msg
  <2>3. net' \subseteq net \cup {msg}
    BY <1>7, Zenon DEF msg
  <2> QED BY Zenon, <2>1, <2>2, <2>3
<1>9. ASSUME Outgoing(b)' = o2, Incoming(b)' = Incoming(b)
      PROVE  Linked(b)'
  <2>1. OutCalm(b) /\ InCalm(b)
    BY <1>2, <1>4, <1>9 DEF OutCalm, InCalm
  <2>2. Only(b)
    BY <1>2, <1>5, <1>8 DEF Only
  <2>3. Calm(b)
    BY <2>1, <2>2, <1>5, OnlyGrows, AcksStill DEF Calm
  <2> QED BY <2>3, CalmKeeps, InvFacts
<1> HIDE DEF o2
<1>10. out' = [out EXCEPT ![outDir[b]] = o2]
  BY <1>3 DEF o2
<1> QED BY Zenon, <1>1, <1>2, <1>4, <1>5, <1>6, <1>8, <1>9, <1>10, PassKeeps

LEMMA SendNewStep ==
  ASSUME TransferInv, NEW b \in Ids, SendNew(b)
  PROVE  TransferInv'
<1> DEFINE o == Outgoing(b)
           o2 == [MarkSent(o, o.nextSeq) EXCEPT !.nextSeq = o.nextSeq + 1]
           msg == [type |-> "data", id |-> b, seq |-> o.nextSeq]
<1>1. outDir[b] # NoSlot /\ ~out[outDir[b]].refused
  BY DEF SendNew, Sending
<1>2. /\ o = out[outDir[b]] /\ o # NoOut /\ o \in OutEntry /\ o.id = b /\ b \in begun
      /\ SenderRing(o)
  BY <1>1, PassEntry
<1>3. /\ o.announceAcked /\ WindowAllows(o) /\ outstanding < Budget /\ ~o.refused
      /\ out' = [out EXCEPT ![outDir[b]] = o2]
      /\ net' = net \cup {msg} /\ outstanding' = outstanding + 1
  BY <1>1, <1>2 DEF SendNew, TransferBudgetAllows
<1>4. /\ o2 \in OutEntry /\ SenderRing(o2) /\ o2.id = o.id
      /\ o2.contiguousAcked = o.contiguousAcked /\ o2.nextSeq = o.nextSeq + 1
      /\ \A r : StruckIsHeld(o, r) => StruckIsHeld(o2, r)
  BY <1>2, <1>3, SendNewKeeps
<1> HIDE DEF o2
<1>5. UNCHANGED <<up, outDir, outFree, outFinished, reported, inn, inDir, inFree,
                  whole, letGo, acks, stranded, begun, sweeps, announces>>
  BY DEF SendNew, recvVars
<1>6. /\ o.nextSeq \in Nat /\ o.contiguousAcked \in Nat /\ o.contiguousAcked <= o.nextSeq
      /\ o.nextSeq < Count /\ o.nextSeq < o.contiguousAcked + Window
      /\ o.nextSeq \in Seqs
  BY <1>2, <1>3, SizesAssumption DEF OutEntry, SenderRing, WindowAllows, Seqs
<1>7. outstanding' \in 0..Budget /\ announces' \in Nat
  BY <1>3, <1>5, SizesAssumption DEF TransferInv, TypeOK
<1>8. /\ msg \in Messages /\ msg.id = b /\ msg.seq = o.nextSeq
      /\ net' \subseteq Messages /\ \A m \in net' : m \in net \/ m = msg
  <2>1. net \subseteq Messages
    BY Zenon DEF TransferInv, TypeOK
  <2>2. msg \in Messages /\ msg.id = b /\ msg.seq = o.nextSeq
    BY <1>6 DEF Messages
  <2> HIDE DEF msg
  <2> QED BY Zenon, <1>3, <2>1, <2>2
<1> HIDE DEF msg
<1>9. ASSUME Outgoing(b)' = o2, Incoming(b)' = Incoming(b)
      PROVE  Linked(b)'
  <2>1. \A m \in DataOf(b)' : m \in DataOf(b) \/ m = msg
    BY <1>8 DEF DataOf
  <2>2. o.nextSeq <= o2.nextSeq /\ o.nextSeq < o2.nextSeq
    BY <1>4, <1>6
  <2>3. Sends(b)
    BY <2>1, <2>2, <1>2, <1>3, <1>4, <1>5, <1>6, <1>8, <1>9, Zenon DEF Sends
  <2> QED BY <2>3, SendsKeeps, InvFacts
<1>10. ~FinishedOut(outDir[b])
  <2>1. o.contiguousAcked # Count /\ ~o.refused
    BY <1>3, <1>6, SizesAssumption
  <2> QED BY Zenon, <2>1, <1>2 DEF TransferInv, FinishedOnce, FinishedOut
<1> QED BY Zenon, <1>1, <1>2, <1>3, <1>4, <1>5, <1>7, <1>8, <1>9, <1>10, PassKeeps

LEMMA ResendStep ==
  ASSUME TransferInv, NEW b \in Ids, Resend(b)
  PROVE  TransferInv'
<1> DEFINE o == Outgoing(b)
<1>1. outDir[b] # NoSlot
  BY DEF Resend, Sending
<1>2. /\ o = out[outDir[b]] /\ o # NoOut /\ o \in OutEntry /\ o.id = b /\ b \in begun
      /\ SenderRing(o)
  BY <1>1, PassEntry
<1>3. PICK seq \in Overdue(o) :
        /\ out' = [out EXCEPT ![outDir[b]] = MarkSent(o, seq)]
        /\ net' = net \cup {[type |-> "data", id |-> b, seq |-> seq]}
  BY Zenon, <1>1, <1>2 DEF Resend
<1>4. o.announceAcked /\ out' = [out EXCEPT ![outDir[b]] = o]
  <2>1. MarkSent(o, seq) = o
    BY <1>2, ResendKeeps
  <2> QED BY Zenon, <2>1, <1>2, <1>3 DEF Resend
<1>5. /\ UNCHANGED <<up, outDir, outFree, outFinished, reported, inn, inDir, inFree,
                     whole, letGo, acks, stranded, begun, sweeps, announces>>
      /\ outstanding' = outstanding
  BY DEF Resend, recvVars, SpendResend
<1>6. /\ o.nextSeq \in Nat /\ o.contiguousAcked \in Nat /\ seq \in Seqs
      /\ seq < o.nextSeq /\ seq < o.contiguousAcked + Window
  <2>1. o.nextSeq \in 0..Count /\ o.contiguousAcked \in 0..Count /\ Count \in Nat
    BY <1>2, SizesAssumption DEF OutEntry
  <2>2. seq \in o.contiguousAcked..(o.nextSeq - 1)
    BY DEF Overdue
  <2>3. o.nextSeq <= o.contiguousAcked + Window /\ Window \in Nat
    BY <1>2, SizesAssumption DEF SenderRing
  <2> HIDE DEF o
  <2> QED BY <2>1, <2>2, <2>3 DEF Seqs
<1> DEFINE msg == [type |-> "data", id |-> b, seq |-> seq]
<1>7. /\ msg \in Messages /\ msg.id = b /\ msg.seq = seq
      /\ net' \subseteq Messages /\ \A m \in net' : m \in net \/ m = msg
  <2>1. net \subseteq Messages
    BY Zenon DEF TransferInv, TypeOK
  <2>2. msg \in Messages /\ msg.id = b /\ msg.seq = seq
    BY <1>6 DEF Messages
  <2>3. net' = net \cup {msg}
    BY <1>3
  <2> HIDE DEF msg
  <2> QED BY Zenon, <2>1, <2>2, <2>3
<1> HIDE DEF msg
<1>8. outstanding' \in 0..Budget /\ announces' \in Nat
  BY <1>5 DEF TransferInv, TypeOK
<1>9. ASSUME Outgoing(b)' = o, Incoming(b)' = Incoming(b)
      PROVE  Linked(b)'
  <2>1. \A m \in DataOf(b)' : m \in DataOf(b) \/ m = msg
    BY <1>7 DEF DataOf
  <2>2. o.nextSeq <= o.nextSeq
    BY <1>6
  <2>3. Sends(b)
    BY <2>1, <2>2, <1>2, <1>4, <1>5, <1>6, <1>7, <1>9, Zenon DEF Sends
  <2> QED BY <2>3, SendsKeeps, InvFacts
<1> QED BY Zenon, <1>1, <1>2, <1>4, <1>5, <1>7, <1>8, <1>9, PassKeeps

-----------------------------------------------------------------------------
(* The end of a transfer at the sender. *)

LEMMA FinishedPush ==
  ASSUME TransferInv, NEW s \in OutSlots, NEW o2 \in OutEntry,
         out' = [out EXCEPT ![s] = o2], ~FinishedOut(s),
         NEW outcome \in {"ok", "refused"}, outFinished' = PushFinished(s, outcome),
         o2.stamped = {},
         IF outcome = "ok" THEN o2.contiguousAcked = Count ELSE o2.refused
  PROVE  FinishedOnce' /\ outFinished' \in Seq(FinishedEntry)
<1>1. outFinished \in Seq(FinishedEntry) /\ FinishedOnce
  BY Zenon DEF TransferInv, TypeOK
<1>2. CASE outFinished' = outFinished
  <2>1. FinishedOnce'
    BY Zenon, <1>2, FinishedWrite
  <2> QED BY <2>1, <1>1, <1>2, Zenon
<1>3. CASE outFinished' # outFinished
  <2> DEFINE e == [slot |-> s, outcome |-> outcome]
  <2>1. outFinished' = Append(outFinished, e) /\ e \in FinishedEntry
    BY <1>3 DEF PushFinished, FinishedEntry
  <2>2. e.slot = s /\ e.outcome = outcome
    OBVIOUS
  <2> HIDE DEF e
  <2> DEFINE n == Len(outFinished)
  <2>3. /\ n \in Nat /\ Len(outFinished') = n + 1 /\ outFinished' \in Seq(FinishedEntry)
        /\ outFinished'[n + 1] = e
        /\ \A k \in 1..n : outFinished'[k] = outFinished[k]
    BY <1>1, <2>1, AppendProperties
  <2>4. /\ out \in [OutSlots -> OutEntry \cup {NoOut}] /\ o2 # NoOut
        /\ out'[s] = o2 /\ \A t \in OutSlots \ {s} : out'[t] = out[t]
    BY NoEntry, Zenon DEF TransferInv, TypeOK
  <2>5. \A k \in 1..n : outFinished[k].slot \in OutSlots \ {s}
    <3>1. \A k \in 1..n : outFinished[k] \in FinishedEntry
      BY <1>1, ElementOfSeq
    <3> QED BY <3>1 DEF FinishedEntry, FinishedOut
  <2>6. ASSUME NEW k \in 1..(n + 1)
        PROVE  LET o == out'[outFinished'[k].slot]
               IN /\ o # NoOut /\ o.stamped = {}
                  /\ IF outFinished'[k].outcome = "ok" THEN o.contiguousAcked = Count
                                                       ELSE o.refused
    <3>1. CASE k \in 1..n
      <4>1. outFinished'[k] = outFinished[k] /\ out'[outFinished[k].slot] = out[outFinished[k].slot]
        BY <3>1, <2>3, <2>4, <2>5, Zenon
      <4> QED BY Zenon, <4>1, <3>1, <1>1 DEF FinishedOnce
    <3>2. CASE k = n + 1
      BY <3>2, <2>2, <2>3, <2>4
    <3>3. n \in Nat
      BY <2>3, Zenon
    <3> HIDE DEF n
    <3>4. k \in 1..n \/ k = n + 1
      BY <3>3
    <3> QED BY <3>1, <3>2, <3>4, Zenon
  <2>7. ASSUME NEW j \in 1..(n + 1), NEW k \in 1..(n + 1),
               outFinished'[j].slot = outFinished'[k].slot
        PROVE  j = k
    <3>1. CASE j \in 1..n /\ k \in 1..n
      BY <3>1, <2>7, <2>3, <1>1 DEF FinishedOnce
    <3>2. CASE j = n + 1 /\ k \in 1..n
      BY <3>2, <2>2, <2>7, <2>3, <2>5, Zenon
    <3>3. CASE j \in 1..n /\ k = n + 1
      BY <3>3, <2>2, <2>7, <2>3, <2>5
    <3>4. n \in Nat
      BY <2>3, Zenon
    <3> HIDE DEF n
    <3>5. (j \in 1..n \/ j = n + 1) /\ (k \in 1..n \/ k = n + 1)
      BY <3>4
    <3> QED BY <3>1, <3>2, <3>3, <3>5, Zenon
  <2>8. FinishedOnce'
    BY <2>3, <2>6, <2>7, Zenon DEF FinishedOnce
  <2> QED BY <2>3, <2>8
<1> QED BY <1>2, <1>3, Zenon

LEMMA PollSentStep ==
  ASSUME TransferInv, PollSent
  PROVE  TransferInv'
<1> DEFINE e == Head(outFinished)
           s == e.slot
           b == out[s].id
<1>1. /\ outFinished \in Seq(FinishedEntry) /\ outFinished # <<>> /\ FinishedOnce
      /\ outFinished' = Tail(outFinished)
  BY DEF TransferInv, TypeOK, PollSent
<1>2. /\ Len(outFinished) \in Nat /\ Len(outFinished) >= 1
      /\ e = outFinished[1] /\ e \in FinishedEntry
      /\ outFinished' \in Seq(FinishedEntry) /\ Len(outFinished') = Len(outFinished) - 1
      /\ \A k \in 1..(Len(outFinished) - 1) : outFinished'[k] = outFinished[k + 1]
  BY <1>1, HeadTailProperties, EmptySeq
<1>3. s \in OutSlots /\ out[s] # NoOut /\ e.outcome \in {"ok", "refused"}
  BY <1>1, <1>2 DEF FinishedOnce, FinishedEntry
<1> HIDE DEF e
<1>4. /\ out[s] \in OutEntry /\ b \in Ids /\ outDir[b] = s
      /\ out \in [OutSlots -> OutEntry \cup {NoOut}]
      /\ outDir \in [Ids -> OutSlots \cup {NoSlot}]
  BY <1>3 DEF TransferInv, TypeOK, OutTable, OutEntry
<1>5. /\ out' = [out EXCEPT ![s] = NoOut]
      /\ outDir' = [c \in Ids |-> IF outDir[c] = s THEN NoSlot ELSE outDir[c]]
      /\ reported' = [reported EXCEPT ![b] = e.outcome]
      /\ outFree' = outFree \cup {s}
  BY Zenon, <1>3 DEF PollSent, ReleaseOut, e
<1>6. UNCHANGED <<up, outstanding, inn, inDir, inFree, inFinished, whole, letGo, net, acks,
                  stranded, begun, announces, lost, sweeps>>
  BY Zenon DEF PollSent, recvVars, netVars
<1>7. \A c \in Ids : outDir[c] = s <=> c = b
  <2>1. s # NoSlot
    BY <1>3, SlotsApart, Zenon
  <2>2. ASSUME NEW c \in Ids, outDir[c] = s PROVE c = b
    BY <2>1, <2>2, Zenon DEF TransferInv, OutTable
  <2> QED BY <1>4, <2>2, Zenon
<1>8. /\ out' \in [OutSlots -> OutEntry \cup {NoOut}]
      /\ outDir' \in [Ids -> OutSlots \cup {NoSlot}]
      /\ out'[s] = NoOut /\ \A t \in OutSlots \ {s} : out'[t] = out[t]
      /\ outDir'[b] = NoSlot /\ \A c \in Ids \ {b} : outDir'[c] = outDir[c] /\ outDir[c] # s
  BY <1>3, <1>4, <1>5, <1>7
<1>9. TypeOK'
  <2>1. outFree' \subseteq OutSlots /\ reported' \in [Ids -> {"none", "ok", "refused"}]
    BY <1>3, <1>4, <1>5, Zenon DEF TransferInv, TypeOK
  <2> QED BY <2>1, <1>2, <1>6, <1>8, Zenon DEF TransferInv, TypeOK
<1>10. OutTable'
  <2>1. \A c \in Ids : outDir'[c] # NoSlot => out'[outDir'[c]] # NoOut /\ out'[outDir'[c]].id = c
    BY <1>4, <1>8 DEF TransferInv, OutTable
  <2>2. \A t \in OutSlots : out'[t] # NoOut => outDir'[out'[t].id] = t
    <3>1. ASSUME NEW t \in OutSlots, out'[t] # NoOut
          PROVE  outDir'[out'[t].id] = t
      <4>1. t # s /\ out'[t] = out[t] /\ out[t] \in OutEntry /\ outDir[out[t].id] = t
        BY <3>1, <1>4, <1>8 DEF TransferInv, OutTable
      <4>2. out[t].id \in Ids \ {b}
        BY <4>1, <1>4, Zenon DEF OutEntry
      <4> QED BY <4>1, <4>2, <1>8, Zenon
    <3> QED BY <3>1
  <2>3. \A t \in outFree' : out'[t] = NoOut
    BY <1>5, <1>8 DEF TransferInv, TypeOK, OutTable
  <2>4. ~up'.sender => \A c \in Ids : outDir'[c] = NoSlot
    BY Zenon, <1>6, <1>8 DEF TransferInv, OutTable
  <2> QED BY <2>1, <2>2, <2>3, <2>4, Zenon DEF OutTable
<1>11. InTable' /\ \A c \in Ids : Incoming(c)' = Incoming(c)
  BY <1>6, ReceiverStill
<1>12. FinishedOnce'
  <2>1. \A k \in 1..Len(outFinished') :
           /\ k + 1 \in 1..Len(outFinished) /\ outFinished'[k] = outFinished[k + 1] /\ k + 1 # 1
    BY <1>2
  <2>2. \A k \in 1..Len(outFinished') :
           /\ outFinished'[k].slot \in OutSlots \ {s}
           /\ out'[outFinished'[k].slot] = out[outFinished[k + 1].slot]
    <3>1. \A k \in 1..Len(outFinished) : outFinished[k] \in FinishedEntry
      BY <1>1, ElementOfSeq
    <3>2. 1 \in 1..Len(outFinished)
      BY <1>2
    <3> QED BY <3>1, <3>2, <2>1, <1>1, <1>2, <1>8 DEF FinishedOnce, FinishedEntry
  <2>3. \A j, k \in 1..Len(outFinished') :
           outFinished'[j].slot = outFinished'[k].slot => j = k
    <3>1. ASSUME NEW j \in 1..Len(outFinished'), NEW k \in 1..Len(outFinished'),
                 outFinished'[j].slot = outFinished'[k].slot
          PROVE  j = k
      <4>1. j + 1 = k + 1
        BY <3>1, <2>1, <1>1 DEF FinishedOnce
      <4> QED BY <4>1
    <3> QED BY <3>1
  <2>4. ASSUME NEW k \in 1..Len(outFinished')
        PROVE  LET o == out'[outFinished'[k].slot]
               IN /\ o # NoOut /\ o.stamped = {}
                  /\ IF outFinished'[k].outcome = "ok" THEN o.contiguousAcked = Count
                                                       ELSE o.refused
    <3>1. PICK j \in 1..Len(outFinished) : j = k + 1 /\ outFinished'[k] = outFinished[j]
      BY <2>1
    <3>2. out'[outFinished'[k].slot] = out[outFinished[j].slot]
      BY <2>2, <3>1
    <3>3. LET o == out[outFinished[j].slot]
          IN /\ o # NoOut /\ o.stamped = {}
             /\ IF outFinished[j].outcome = "ok" THEN o.contiguousAcked = Count
                                                 ELSE o.refused
      BY Zenon, <1>1 DEF FinishedOnce
    <3> QED BY <3>1, <3>2, <3>3
  <2> QED BY <2>3, <2>4 DEF FinishedOnce
<1>13. ASSUME NEW c \in Ids PROVE Linked(c)'
  <2>1. OutCalm(c)
    <3>1. CASE c = b
      <4>1. Outgoing(c)' = NoOut
        BY <3>1, <1>8 DEF Outgoing
      <4> QED BY <4>1 DEF OutCalm
    <3>2. CASE c # b
      <4>1. Outgoing(c)' = Outgoing(c)
        BY <3>2, <1>4, <1>8 DEF Outgoing
      <4> QED BY <4>1 DEF OutCalm
    <3> QED BY <3>1, <3>2
  <2>2. Only(c) /\ InCalm(c)
    BY <1>6, <1>11 DEF Only, InCalm
  <2>3. Calm(c)
    BY <2>1, <2>2, <1>6, OnlyGrows, AcksStill DEF Calm
  <2> QED BY <2>3, CalmKeeps, InvFacts
<1> QED BY <1>9, <1>10, <1>11, <1>12, <1>13 DEF TransferInv

(* An answer about b moves the entry of b and takes a message off the path. *)
LEMMA AckedKeeps ==
  ASSUME TransferInv, NEW b \in Ids, outDir[b] # NoSlot,
         NEW o2 \in OutEntry, o2.id = b,
         out' = [out EXCEPT ![outDir[b]] = o2],
         FinishedOnce' /\ outFinished' \in Seq(FinishedEntry),
         outstanding' \in 0..Budget, net' \subseteq net,
         acks' \in Seq(Acknowledgements) /\ \A c \in Ids : AcksKept(c),
         stranded \subseteq stranded',
         UNCHANGED <<up, outDir, outFree, reported, inn, inDir, inFree, whole, letGo,
                     begun, announces, sweeps>>,
         Outgoing(b)' = o2 /\ Incoming(b)' = Incoming(b) => Linked(b)'
  PROVE  TransferInv'
<1>1. /\ OutTable' /\ out' \in [OutSlots -> OutEntry \cup {NoOut}]
      /\ Outgoing(b)' = o2
      /\ \A c \in Ids \ {b} : Outgoing(c)' = Outgoing(c)
  BY Zenon, OutWrite
<1>2. InTable' /\ \A c \in Ids : Incoming(c)' = Incoming(c)
  BY Zenon, ReceiverStill
<1>3. TypeOK'
  <2>1. net' \subseteq Messages
    BY DEF TransferInv, TypeOK
  <2> QED BY <2>1, <1>1, Zenon DEF TransferInv, TypeOK
<1>4. ASSUME NEW c \in Ids PROVE Linked(c)'
  <2>1. CASE c = b
    BY Zenon, <2>1, <1>1, <1>2
  <2>2. CASE c # b
    <3>1. Grows(c) /\ DataOf(c)' \subseteq DataOf(c)
      BY Zenon DEF Grows, DataOf
    <3> QED BY Zenon, <3>1, <2>2, <1>1, <1>2, Untouched, InvFacts
  <2> QED BY Zenon, <2>1, <2>2
<1> QED BY Zenon, <1>1, <1>2, <1>3, <1>4 DEF TransferInv

(* A step that touches neither table: messages disappear, nothing else. *)
LEMMA PathKeeps ==
  ASSUME TransferInv, net' \subseteq net,
         acks' \in Seq(Acknowledgements) /\ \A c \in Ids : AcksKept(c),
         stranded \subseteq stranded',
         UNCHANGED <<up, out, outDir, outFree, outFinished, outstanding, reported,
                     inn, inDir, inFree, whole, letGo, begun, announces, sweeps>>
  PROVE  TransferInv'
<1>1. OutTable' /\ FinishedOnce' /\ \A c \in Ids : Outgoing(c)' = Outgoing(c)
  BY SenderStill
<1>2. InTable' /\ \A c \in Ids : Incoming(c)' = Incoming(c)
  BY ReceiverStill
<1>3. TypeOK'
  <2>1. net' \subseteq Messages
    BY DEF TransferInv, TypeOK
  <2> QED BY <2>1, Zenon DEF TransferInv, TypeOK
<1>4. ASSUME NEW c \in Ids PROVE Linked(c)'
  <2>1. Grows(c) /\ DataOf(c)' \subseteq DataOf(c)
    BY DEF Grows, DataOf
  <2> QED BY <2>1, <1>1, <1>2, Untouched, InvFacts
<1> QED BY <1>1, <1>2, <1>3, <1>4 DEF TransferInv

LEMMA DeliverableRange == TypeOK => Deliverable \subseteq 1..Len(acks)
<1> SUFFICES ASSUME TypeOK PROVE Deliverable \subseteq 1..Len(acks)
  OBVIOUS
<1>1. Len(acks) \in Nat
  BY DEF TypeOK
<1>2. Min({1, Len(acks)}) \in {1, Len(acks)} /\ Min({1, Len(acks)}) <= Len(acks)
  <2>1. \E x \in {1, Len(acks)} : \A y \in {1, Len(acks)} : x <= y
    BY <1>1
  <2>2. /\ Min({1, Len(acks)}) \in {1, Len(acks)}
        /\ \A y \in {1, Len(acks)} : Min({1, Len(acks)}) <= y
    BY <2>1, Zenon DEF Min
  <2> QED BY <2>2
<1> QED BY <1>1, <1>2 DEF Deliverable

\* What comes back never takes the count below zero or above its bound.
LEMMA RefundRange ==
  ASSUME outstanding \in 0..Budget, NEW n \in Nat
  PROVE  Refund(n) \in 0..Budget
BY SizesAssumption DEF Refund

LEMMA RingsFinite ==
  ASSUME NEW X \in SUBSET Rings
  PROVE  IsFiniteSet(X) /\ Cardinality(X) \in Nat
<1>1. IsFiniteSet(Rings)
  BY FS_Interval, SizesAssumption DEF Rings
<1> QED BY <1>1, FS_Subset, FS_CardinalityType

LEMMA ReceiveAckStep ==
  ASSUME Prompt, TransferInv, NEW k \in Deliverable, ReceiveAck(k)
  PROVE  TransferInv'
<1> DEFINE a == acks[k]
<1>1. k \in 1..Len(acks) /\ TypeOK /\ a \in Acknowledgements
  <2>1. k \in 1..Len(acks) /\ TypeOK
    BY DeliverableRange, InvFacts
  <2> QED BY <2>1, ElementOfSeq DEF TypeOK
<1>2. PICK b \in Ids : b = a.id
  BY <1>1 DEF Acknowledgements
<1> DEFINE s == outDir[b]
<1>3. /\ k \in AcksOf(b)
      /\ acks' = SubSeq(acks, 1, k - 1) \o SubSeq(acks, k + 1, Len(acks))
      /\ stranded' = IF \E j \in 1..(k - 1) : acks[j].id = b THEN stranded \cup {b} ELSE stranded
  BY Zenon, <1>1, <1>2 DEF ReceiveAck, AcksOf
<1>4. /\ acks' \in Seq(Acknowledgements)
      /\ \A c \in Ids : Without(c, k) /\ AcksKept(c)
  BY Zenon, <1>1, <1>3, RemoveAck
<1>5. UNCHANGED <<up, outDir, outFree, outJam, reported, inn, inDir, inFree, inFinished,
                  whole, letGo, net, begun, announces, lost, sweeps>>
  BY Zenon DEF ReceiveAck, recvVars
<1>6. CASE s = NoSlot
  <2>1. UNCHANGED <<out, outFinished, outstanding>>
    BY <1>2, <1>6, Zenon DEF ReceiveAck
  <2>2. stranded \subseteq stranded' /\ net' \subseteq net
    BY <1>3, <1>5
  <2> QED BY <2>1, <2>2, <1>4, <1>5, PathKeeps
<1>7. CASE s # NoSlot
  <2> DEFINE o == Outgoing(b)
             o2 == OnAck(o, a)
  <2>1. /\ o = out[s] /\ o # NoOut /\ o \in OutEntry /\ o.id = b /\ SenderRing(o)
        /\ s \in OutSlots /\ out \in [OutSlots -> OutEntry \cup {NoOut}]
    BY <1>7, PassEntry DEF TransferInv, TypeOK
  <2>2. a.recvNext <= o.nextSeq /\ Linked(b)
    BY Zenon, <2>1, <1>3, InvFacts DEF Linked, BelowNext
  <2>3. /\ out' = [out EXCEPT ![s] = o2] /\ ~FinishedOut(s)
        /\ outstanding' = Refund(Cardinality(o.stamped \cap Resolved(o, a)))
        /\ outFinished' = IF out'[s].contiguousAcked >= Count THEN PushFinished(s, "ok")
                                                              ELSE outFinished
    BY Zenon, <1>2, <1>7, <2>1 DEF ReceiveAck, Prompt
  <2>4. /\ o2 \in OutEntry /\ SenderRing(o2) /\ o2.id = o.id
    BY Zenon, <2>1, <2>2, <1>1, OnAckKeeps
  <2>5. outstanding' \in 0..Budget
    <3>1. o.stamped \cap Resolved(o, a) \in SUBSET Rings
      BY <2>1 DEF OutEntry
    <3> QED BY Zenon, <3>1, <2>3, RingsFinite, RefundRange DEF TransferInv, TypeOK
  <2>6. FinishedOnce' /\ outFinished' \in Seq(FinishedEntry)
    <3>1. out'[s] = o2
      BY Zenon, <2>1, <2>3
    <3>2. CASE o2.contiguousAcked >= Count
      <4>1. o2.contiguousAcked = Count /\ o2.stamped = {}
        BY <3>2, <2>4, SizesAssumption DEF OutEntry, SenderRing
      <4>2. outFinished' = PushFinished(s, "ok")
        BY Zenon, <3>1, <3>2, <2>3
      <4> HIDE DEF o2
      <4> QED BY Zenon, <4>1, <4>2, <2>1, <2>3, <2>4, FinishedPush
    <3>3. CASE ~(o2.contiguousAcked >= Count)
      <4>1. outFinished' = outFinished
        BY Zenon, <3>1, <3>3, <2>3
      <4> HIDE DEF o2
      <4>2. FinishedOnce'
        BY Zenon, <4>1, <2>1, <2>3, <2>4, FinishedWrite
      <4> QED BY <4>1, <4>2 DEF TransferInv, TypeOK
    <3> QED BY <3>2, <3>3
  <2>7. ASSUME Outgoing(b)' = o2, Incoming(b)' = Incoming(b)
        PROVE  Linked(b)'
    <3>1. b \notin stranded' => b \notin stranded /\ \A j \in AcksOf(b) : ~(j < k)
      BY <1>3 DEF AcksOf
    <3>2. Acknowledges(b, k)
      BY <3>1, <2>1, <2>7, <1>3, <1>4, <1>5, Zenon DEF Acknowledges
    <3> QED BY <3>2, <2>2, <1>1, AcknowledgesKeeps
  <2> HIDE DEF o2
  <2>8. stranded \subseteq stranded' /\ net' \subseteq net /\ o2.id = b
    BY <1>3, <1>5, <2>1, <2>4, Zenon
  <2> QED BY Zenon, <2>3, <2>4, <2>5, <2>6, <2>7, <2>8, <1>4, <1>5, <1>7, AckedKeeps
<1> QED BY <1>6, <1>7


-----------------------------------------------------------------------------
(* What is charged: one pair for every ring entry of every live slot.       *)

Stamped(s) == IF out[s] = NoOut THEN {} ELSE out[s].stamped

LEMMA PairsFinite ==
  ASSUME NEW C \in SUBSET (OutSlots \X Rings)
  PROVE  IsFiniteSet(C) /\ Cardinality(C) \in Nat
<1>1. IsFiniteSet(Rings) /\ IsFiniteSet(OutSlots)
  BY FS_Interval, SizesAssumption DEF Rings, OutSlots
<1>2. IsFiniteSet(OutSlots \X Rings)
  BY <1>1, FS_Product
<1> QED BY <1>2, FS_Subset, FS_CardinalityType

LEMMA ChargedPairs ==
  /\ Charged \subseteq OutSlots \X Rings /\ Charged' \subseteq OutSlots \X Rings
  /\ \A s \in OutSlots, x \in Rings : /\ <<s, x>> \in Charged <=> x \in Stamped(s)
                                      /\ <<s, x>> \in Charged' <=> x \in Stamped(s)'
BY DEF Charged, Stamped

LEMMA SlotStamped ==
  ASSUME TypeOK, NEW s \in OutSlots, NEW v, out' = [out EXCEPT ![s] = v]
  PROVE  /\ Stamped(s)' = IF v = NoOut THEN {} ELSE v.stamped
         /\ \A t \in OutSlots \ {s} : Stamped(t)' = Stamped(t)
BY DEF TypeOK, Stamped

LEMMA ChargedStill ==
  ASSUME \A s \in OutSlots : Stamped(s)' = Stamped(s)
  PROVE  Charged' = Charged
<1>1. ASSUME NEW c \in OutSlots \X Rings PROVE c \in Charged' <=> c \in Charged
  <2>1. PICK s \in OutSlots, x \in Rings : c = <<s, x>>
    OBVIOUS
  <2> QED BY <2>1, ChargedPairs
<1> QED BY <1>1, ChargedPairs

LEMMA ChargedMore ==
  ASSUME NEW s \in OutSlots, NEW x \in Rings, x \notin Stamped(s),
         Stamped(s)' = Stamped(s) \cup {x},
         \A t \in OutSlots \ {s} : Stamped(t)' = Stamped(t)
  PROVE  Cardinality(Charged') = Cardinality(Charged) + 1
<1>1. ASSUME NEW c \in OutSlots \X Rings PROVE c \in Charged' <=> c \in Charged \/ c = <<s, x>>
  <2>1. PICK t \in OutSlots, y \in Rings : c = <<t, y>>
    OBVIOUS
  <2>2. CASE t = s
    BY <2>1, <2>2, ChargedPairs
  <2>3. CASE t # s
    BY <2>1, <2>3, ChargedPairs
  <2> QED BY <2>2, <2>3
<1>2. Charged' = Charged \cup {<<s, x>>} /\ <<s, x>> \notin Charged
  BY <1>1, ChargedPairs
<1>3. IsFiniteSet(Charged)
  BY ChargedPairs, PairsFinite
<1> QED BY Zenon, <1>2, <1>3, FS_AddElement

LEMMA ChargedLess ==
  ASSUME NEW s \in OutSlots, NEW T \in SUBSET Rings, T \subseteq Stamped(s),
         Stamped(s)' = Stamped(s) \ T,
         \A t \in OutSlots \ {s} : Stamped(t)' = Stamped(t)
  PROVE  /\ Cardinality(T) \in Nat /\ Cardinality(T) <= Cardinality(Charged)
         /\ Cardinality(Charged') = Cardinality(Charged) - Cardinality(T)
<1> DEFINE D == {s} \X T
<1>1. ASSUME NEW c \in OutSlots \X Rings
      PROVE  (c \in Charged <=> c \in Charged' \/ c \in D) /\ ~(c \in Charged' /\ c \in D)
  <2>1. PICK t \in OutSlots, y \in Rings : c = <<t, y>>
    OBVIOUS
  <2>2. c \in D <=> t = s /\ y \in T
    BY <2>1
  <2>3. CASE t = s
    BY <2>1, <2>2, <2>3, ChargedPairs
  <2>4. CASE t # s
    BY <2>1, <2>2, <2>4, ChargedPairs
  <2> QED BY <2>3, <2>4
<1>2. D \subseteq OutSlots \X Rings
  OBVIOUS
<1>3. IsFiniteSet(D) /\ Cardinality(D) = Cardinality(T) /\ Cardinality(T) \in Nat
  <2>1. IsFiniteSet(T) /\ Cardinality(T) \in Nat /\ IsFiniteSet({s}) /\ Cardinality({s}) = 1
    BY RingsFinite, FS_Singleton
  <2>2. IsFiniteSet(D) /\ Cardinality(D) = Cardinality({s}) * Cardinality(T)
    BY <2>1, FS_Product
  <2> QED BY <2>1, <2>2
<1> HIDE DEF D
<1>4. Charged = Charged' \cup D /\ Charged' \cap D = {}
  BY <1>1, <1>2, ChargedPairs
<1>5. IsFiniteSet(Charged') /\ Cardinality(Charged') \in Nat
  BY ChargedPairs, PairsFinite
<1>6. Cardinality(Charged) = Cardinality(Charged') + Cardinality(D) - 0
  BY <1>3, <1>4, <1>5, FS_Union, FS_EmptySet
<1> QED BY <1>3, <1>5, <1>6
=============================================================================
