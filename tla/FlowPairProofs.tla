--------------------------- MODULE FlowPairProofs ---------------------------
(***************************************************************************)
(* The types; what an ordered, an unordered and an unreliable flow each    *)
(* keep; the counters, that nothing accepted is forgotten, and that the    *)
(* flow implements the channel its mode promises: in every mode, and for   *)
(* every window, limit and bound.                                          *)
(***************************************************************************)
EXTENDS FlowPair, FiniteSetTheorems, TLAPS

USE SMTT(15), ZenonT(20)

-----------------------------------------------------------------------------
(* Sequences, of any elements. *)

LEMMA SeqOf == \A S : Seq(S) = UNION {[1 .. n -> S] : n \in Nat}
  OBVIOUS

LEMMA LenOf ==
  ASSUME NEW S, NEW s \in Seq(S)
  PROVE  Len(s) \in Nat /\ s \in [1 .. Len(s) -> S] /\ DOMAIN s = 1 .. Len(s)
  OBVIOUS

LEMMA EmptyOf ==
  ASSUME NEW S
  PROVE  <<>> \in Seq(S) /\ Len(<<>>) = 0 /\ \A s \in Seq(S) : s # <<>> => Len(s) \in Nat \ {0}
  OBVIOUS

LEMMA Appending ==
  ASSUME NEW S, NEW s \in Seq(S), NEW e \in S
  PROVE  /\ Append(s, e) \in Seq(S) /\ Len(Append(s, e)) = Len(s) + 1 /\ Append(s, e) # <<>>
         /\ Append(s, e)[Len(s) + 1] = e
         /\ \A i \in 1 .. Len(s) : Append(s, e)[i] = s[i]
  OBVIOUS

LEMMA Beheading ==
  ASSUME NEW S, NEW s \in Seq(S), s # <<>>
  PROVE  /\ Head(s) \in S /\ Tail(s) \in Seq(S) /\ Len(Tail(s)) = Len(s) - 1
         /\ \A i \in 1 .. Len(Tail(s)) : Tail(s)[i] = s[i + 1]
  OBVIOUS

LEMMA Joining ==
  ASSUME NEW S, NEW s \in Seq(S), NEW u \in Seq(S)
  PROVE  /\ s \o u \in Seq(S) /\ Len(s \o u) = Len(s) + Len(u)
         /\ \A i \in 1 .. Len(s) + Len(u) :
               (s \o u)[i] = IF i <= Len(s) THEN s[i] ELSE u[i - Len(s)]
  OBVIOUS

-----------------------------------------------------------------------------
(* The types, in every mode. *)

\* Every sequence has a slot in the ring, the bitmap and the hold-back.
LEMMA SlotOfType == \A s \in Nat : SlotOf(s) \in Slots
  BY WindowAssumption DEF SlotOf, Slots

\* A set of slots has a number of elements.
LEMMA SlotCount == \A S \in SUBSET Slots : Cardinality(S) \in Nat
  <1> TAKE S \in SUBSET Slots
  <1>1. IsFiniteSet(Slots)
    BY FS_Interval, WindowAssumption DEF Slots
  <1> QED
    BY <1>1, FS_Subset, FS_CardinalityType

\* What StampFlowPacket leaves is still of the right type.
LEMMA StampType ==
  ASSUME TypeOK, NEW m \in Nat, NEW flying \in BOOLEAN, StampFlowPacket(m, flying)
  PROVE  /\ ring' \in [Slots -> InFlightEntry]
         /\ unresolved' \in Int /\ outstanding' \in Int
         /\ nextSeq' = nextSeq + 1
         /\ data' \subseteq Packet
  <1>1. SlotOf(nextSeq) \in Slots
    BY SlotOfType DEF TypeOK
  <1>2. ring' \in [Slots -> InFlightEntry]
    BY <1>1 DEF TypeOK, StampFlowPacket, InFlightEntry
  <1>3. data' \subseteq Packet
    BY DEF TypeOK, StampFlowPacket, Packet
  <1> QED
    BY <1>2, <1>3 DEF TypeOK, StampFlowPacket

\* Restamping an entry changes only its stamp.
LEMMA RestampedType ==
  ASSUME NEW e \in InFlightEntry, NEW stamp \in BOOLEAN
  PROVE  /\ Restamped(e, stamp) \in InFlightEntry
         /\ Restamped(e, stamp).seq = e.seq /\ Restamped(e, stamp).msg = e.msg
         /\ Restamped(e, stamp).acked = e.acked
  BY DEF Restamped, InFlightEntry

\* Resolving an entry, or declaring it lost, leaves an entry.
LEMMA ResolveType ==
  ASSUME NEW e \in InFlightEntry
  PROVE  ResolveOutEntry(e) \in InFlightEntry /\ DeclareLost(e) \in InFlightEntry
  BY ZenonT(30) DEF ResolveOutEntry, DeclareLost, InFlightEntry, FreeEntry

\* Applying an ack leaves a ring.
LEMMA JudgedType ==
  ASSUME TypeOK, NEW a, NEW overdue
  PROVE  Judged(a, overdue) \in [Slots -> InFlightEntry]
  BY ResolveType DEF TypeOK, Judged

\* CommitSeen keeps the bitmap a bitmap.
LEMMA CommitSeenType ==
  ASSUME TypeOK, NEW s \in Nat, CommitSeen(s)
  PROVE  recvHighest' \in Nat /\ seen' \in [Slots -> BOOLEAN]
  BY Zenon DEF TypeOK, CommitSeen

\* The run DrainHoldbackRun pushes is a sequence of messages.
LEMMA RunType ==
  ASSUME TypeOK, NEW p \in Packet, NEW last \in Nat, last >= p.seq
  PROVE  Run(p, last) \in Seq(Nat) /\ Len(Run(p, last)) = last - p.seq + 1
  <1>1. p.seq \in Nat /\ p.msg \in Nat
    BY DEF Packet
  <1>2. \A i \in 1 .. last - p.seq + 1 : p.seq + i - 1 \in Nat
    BY <1>1
  <1>3. \A i \in 1 .. last - p.seq + 1 : holdback[SlotOf(p.seq + i - 1)].msg \in Nat
    BY ZenonT(30), <1>2, SlotOfType DEF TypeOK, Packet
  <1>4. last - p.seq + 1 \in Nat
    BY <1>1
  <1>5. Run(p, last) \in [1 .. last - p.seq + 1 -> Nat]
    BY <1>1, <1>3 DEF Run
  <1>6. Run(p, last) \in Seq(Nat)
    BY <1>4, <1>5, SeqOf, Zenon
  <1>7. Len(Run(p, last)) \in Nat /\ 1 .. Len(Run(p, last)) = 1 .. last - p.seq + 1
    BY <1>5, <1>6, LenOf
  <1> QED
    BY <1>4, <1>6, <1>7

\* What FlushPeerAcks sends is an ack.
LEMMA FreshAckType == TypeOK => FreshAck \in Ack
  <1> SUFFICES ASSUME TypeOK PROVE FreshAck \in Ack
    OBVIOUS
  <1>1. Floor(recvHighest) \in Nat
    BY WindowAssumption DEF TypeOK, Floor
  <1>2. AckRanges \in SUBSET Nat
    BY <1>1 DEF TypeOK, AckRanges
  <1> QED
    BY <1>2 DEF TypeOK, FreshAck, Ack

\* The state keeps its types: each counter, ring and set stays what the code
\* declares, the release base never passes the next sequence, and the
\* application never takes more than was queued (ReleaseAckedRun, Poll).
THEOREM TypeCorrect == Spec => []TypeOK
  <1>1. Init => TypeOK
    <2> SUFFICES ASSUME Init PROVE TypeOK
      OBVIOUS
    <2>1. ring \in [Slots -> InFlightEntry] /\ holdback \in [Slots -> Packet]
      BY DEF Init, InFlightEntry, FreeEntry, NotHeld, Packet
    <2>2. waiting \in Seq(Nat) /\ handed \in Seq(Nat) /\ polled \in 0 .. Len(handed)
      BY DEF Init
    <2>3. /\ sessionUp \in BOOLEAN /\ life \in {"OPEN", "FAILED"}
          /\ ackOwed \in BOOLEAN /\ seen \in [Slots -> BOOLEAN]
          /\ data \subseteq Packet /\ acks \subseteq Ack
      BY Zenon DEF Init
    <2>4. /\ accepted \in Nat /\ nextSeq \in Nat \ {0} /\ ackBase \in 1 .. nextSeq
          /\ unresolved \in Int /\ outstanding \in Int /\ heldCount \in Int
          /\ occupancy \in Int /\ recvNext \in Nat \ {0} /\ recvHighest \in Nat
      BY DEF Init
    <2> QED
      BY <2>1, <2>2, <2>3, <2>4, Zenon DEF TypeOK
  <1>2. TypeOK /\ [Next]_vars => TypeOK'
    <2> SUFFICES ASSUME TypeOK, [Next]_vars PROVE TypeOK'
      OBVIOUS
    <2>1. CASE AdmitSent
      BY <2>1, StampType DEF TypeOK, AdmitSent, inVars
    <2>2. CASE AdmitQueued
      <3>1. waiting' \in Seq(Nat)
        <4>1. CASE waiting' = Append(waiting, accepted + 1)
          BY <4>1 DEF TypeOK
        <4>2. CASE Len(waiting) > 0 /\ waiting' = Append(Tail(waiting), accepted + 1)
          BY <4>2 DEF TypeOK
        <4> QED
          BY <2>2, <4>1, <4>2, LimitsAssumption DEF AdmitQueued
      <3> QED
        BY <2>2, <3>1 DEF TypeOK, AdmitQueued, inVars
    <2>3. CASE CommitSession
      BY <2>3 DEF TypeOK, CommitSession, inVars
    <2>4. CASE ClaimWaiting
      <3>1. waiting' \in Seq(Nat) /\ Head(waiting) \in Nat
        BY <2>4 DEF TypeOK, ClaimWaiting
      <3>2. StampFlowPacket(Head(waiting), TRUE)
        BY ZenonT(30), <2>4 DEF ClaimWaiting
      <3>3. UNCHANGED <<sessionUp, life, accepted, ackBase, acks, inVars>>
        BY <2>4 DEF ClaimWaiting
      <3>4. /\ ring' \in [Slots -> InFlightEntry]
            /\ unresolved' \in Int /\ outstanding' \in Int
            /\ nextSeq' = nextSeq + 1
            /\ data' \subseteq Packet
        BY <3>1, <3>2, StampType, Zenon
      <3> QED
        BY <3>1, <3>3, <3>4 DEF TypeOK, inVars
    <2>5. ASSUME NEW due \in SUBSET InFlight, ExpireInflight(due) PROVE TypeOK'
      BY <2>5, SlotCount DEF TypeOK, ExpireInflight, InFlight, inVars, FreeEntry, InFlightEntry
    <2>6. ASSUME NEW due \in SUBSET InFlight, NEW sent \in SUBSET due,
                 RetransmitInflight(due, sent)
          PROVE TypeOK'
      <3>1. ring' \in [Slots -> InFlightEntry]
        BY ZenonT(30), <2>6, RestampedType DEF TypeOK, RetransmitInflight
      <3>2. data' \subseteq Packet
        BY <2>6 DEF TypeOK, RetransmitInflight, InFlight, InFlightEntry, Packet
      <3> QED
        BY ZenonT(30), <2>6, <3>1, <3>2 DEF TypeOK, RetransmitInflight, inVars
    <2>7. CASE FailAssoc
      BY <2>7, SlotCount DEF TypeOK, FailAssoc, Unacked, InFlight, inVars, FreeEntry, InFlightEntry
    <2>8. ASSUME NEW a \in acks, NEW overdue \in SUBSET Unacked,
                 ApplyAckRanges(a, overdue)
          PROVE TypeOK'
      <3>1. ring' \in [Slots -> InFlightEntry]
        BY <2>8, JudgedType DEF ApplyAckRanges, FreeEntry, InFlightEntry
      <3>2. ackBase' \in 1 .. nextSeq
        BY <2>8 DEF TypeOK, ApplyAckRanges
      <3>3. unresolved' \in Int /\ outstanding' \in Int
        BY <2>8, SlotCount DEF TypeOK, ApplyAckRanges, Unacked, InFlight
      <3>4. UNCHANGED <<sessionUp, life, accepted, waiting, nextSeq, data, acks, inVars>>
        BY <2>8 DEF ApplyAckRanges
      <3> QED
        BY <3>1, <3>2, <3>3, <3>4 DEF TypeOK, inVars
    <2>9. ASSUME NEW p \in data, DeliverIn(p) PROVE TypeOK'
      <3> p \in Packet /\ p.seq \in Nat /\ p.msg \in Nat
        BY DEF TypeOK, Packet
      <3>0. UNCHANGED <<outVars, data, acks>>
        BY <2>9 DEF DeliverIn
      <3>1. CASE AckOnly
        BY <3>0, <3>1 DEF TypeOK, AckOnly, outVars
      <3>2. CASE DeliverAtCursor(p)
        <4>1. recvHighest' \in Nat /\ seen' \in [Slots -> BOOLEAN]
          BY <3>2, CommitSeenType DEF DeliverAtCursor
        <4>2. PICK last \in p.seq .. p.seq + Window :
                /\ recvNext' = last + 1
                /\ handed' = handed \o Run(p, last)
                /\ holdback' = [k \in Slots |->
                                  IF holdback[k].seq \in p.seq + 1 .. last
                                  THEN NotHeld ELSE holdback[k]]
                /\ heldCount' = heldCount - (last - p.seq)
          BY <3>2 DEF DeliverAtCursor
        <4>3. last \in Nat
          BY WindowAssumption
        <4>4. Run(p, last) \in Seq(Nat)
          BY <4>3, RunType
        <4>5. handed' \in Seq(Nat) /\ Len(handed') >= Len(handed)
          BY <4>2, <4>4 DEF TypeOK
        <4>6. holdback' \in [Slots -> Packet]
          BY <4>2 DEF TypeOK, NotHeld, Packet
        <4>7. occupancy' = occupancy + 1 /\ polled' = polled /\ ackOwed' = TRUE
          BY <3>2 DEF DeliverAtCursor
        <4> QED
          <5>1. /\ recvNext' \in Nat \ {0} /\ heldCount' \in Int /\ occupancy' \in Int
                /\ polled' \in 0 .. Len(handed')
            <6>1. /\ last \in Int /\ p.seq \in Int /\ heldCount \in Int /\ occupancy \in Int
                  /\ polled \in 0 .. Len(handed) /\ Len(handed) \in Nat /\ Len(handed') \in Nat
              BY <4>3, <4>5 DEF TypeOK
            <6>2. recvNext' \in Nat \ {0}
              BY <4>2, <4>3
            <6>3. heldCount' \in Int
              BY <6>1, <4>2
            <6>4. occupancy' \in Int
              BY <6>1, <4>7
            <6>5. polled' \in 0 .. Len(handed')
              BY <6>1, <4>5, <4>7
            <6> QED BY Zenon, <6>2, <6>3, <6>4, <6>5
          <5> QED BY Zenon, <5>1, <3>0, <4>1, <4>5, <4>6, <4>7 DEF TypeOK, outVars
      <3>3. CASE HoldAhead(p)
        <4>1. recvHighest' \in Nat /\ seen' \in [Slots -> BOOLEAN]
          BY <3>3, CommitSeenType DEF HoldAhead
        <4>2. holdback' \in [Slots -> Packet]
          BY ZenonT(30), <3>3 DEF HoldAhead, TypeOK
        <4> QED
          BY <3>0, <3>3, <4>1, <4>2 DEF HoldAhead, TypeOK, outVars
      <3>4. CASE DeliverUnordered(p) /\ ~AckOnly
        <4>1. CommitSeen(p.seq) /\ UNCHANGED <<recvNext, holdback, heldCount, polled>>
          BY <3>4 DEF DeliverUnordered
        <4>2. recvHighest' \in Nat /\ seen' \in [Slots -> BOOLEAN]
          BY <4>1, CommitSeenType
        <4>3. \/ UNCHANGED <<handed, occupancy>>
              \/ handed' = Append(handed, p.msg) /\ occupancy' = occupancy + 1
          BY <3>4 DEF DeliverUnordered
        <4>4. handed' \in Seq(Nat) /\ Len(handed') >= Len(handed) /\ occupancy' \in Int
          <5> handed \in Seq(Nat) /\ occupancy \in Int /\ Len(handed) \in Nat
            BY LenOf DEF TypeOK
          <5>1. CASE UNCHANGED <<handed, occupancy>>
            BY <5>1
          <5>2. CASE handed' = Append(handed, p.msg) /\ occupancy' = occupancy + 1
            BY <5>2, Appending
          <5> QED
            BY <4>3, <5>1, <5>2
        <4>5. ackOwed' = TRUE
          BY <3>4 DEF DeliverUnordered
        <4> QED
          BY <3>0, <4>1, <4>2, <4>4, <4>5 DEF TypeOK, outVars
      <3> QED
        BY <2>9, <3>1, <3>2, <3>3, <3>4 DEF DeliverIn, DeliverOrdered
    <2>11. CASE FlushPeerAcks
      BY ZenonT(30), <2>11, FreshAckType DEF TypeOK, FlushPeerAcks, FreshAck, outVars
    <2>12. CASE ReclaimJammedInFlows
      BY <2>12 DEF TypeOK, ReclaimJammedInFlows, outVars, NotHeld, Packet
    <2>13. CASE Poll
      BY <2>13 DEF TypeOK, Poll, outVars
    <2>14. ASSUME NEW p \in data, LosePacket(p) PROVE TypeOK'
      BY <2>14 DEF TypeOK, LosePacket, outVars, inVars
    <2>15. ASSUME NEW a \in acks, LoseAck(a) PROVE TypeOK'
      BY <2>15 DEF TypeOK, LoseAck, outVars, inVars
    <2>16. CASE UNCHANGED vars
      BY <2>16 DEF TypeOK, vars, outVars, inVars
    <2> QED
      BY <2>1, <2>2, <2>3, <2>4, <2>5, <2>6, <2>7, <2>8, <2>9, <2>11, <2>12,
         <2>13, <2>14, <2>15, <2>16 DEF Next
  <1> QED
    BY <1>1, <1>2, PTL DEF Spec

-----------------------------------------------------------------------------
(* The invariant of an ordered flow. *)

\* Division with remainder by the window.
LEMMA WindowDivision ==
  ASSUME NEW s \in Nat
  PROVE  /\ s % Window \in Slots /\ s \div Window \in Nat
         /\ s = (Window * (s \div Window)) + (s % Window)
  BY WindowAssumption DEF Slots

\* A positive multiple of the window is at least one window.
LEMMA WindowMultiple ==
  ASSUME NEW n \in Int, n # 0
  PROVE  Window * n >= Window \/ Window * n <= -Window
  BY WindowAssumption

\* Sequences one window apart share a slot.
LEMMA SlotShift ==
  ASSUME NEW s \in Nat
  PROVE  SlotOf(s + Window) = SlotOf(s)
  <1> DEFINE t == s + Window
             q == s \div Window
             r == s % Window
             u == t \div Window
             v == t % Window
  <1>1. t \in Nat /\ t = s + Window
    BY WindowAssumption
  <1> HIDE DEF t
  <1>2. /\ r \in Slots /\ q \in Nat /\ s = (Window * q) + r
        /\ v \in Slots /\ u \in Nat /\ t = (Window * u) + v
    BY <1>1, WindowDivision
  <1> HIDE DEF q, r, u, v
  <1>3. Window * u - Window * q - Window = Window * (u - q - 1)
    BY <1>2, WindowAssumption
  <1>4. Window * u - Window * q - Window = r - v
    BY <1>1, <1>2, WindowAssumption DEF Slots
  <1>5. u - q - 1 = 0
    BY <1>2, <1>3, <1>4, WindowMultiple, WindowAssumption DEF Slots
  <1>6. r = v
    BY <1>2, <1>3, <1>4, <1>5, WindowAssumption DEF Slots
  <1> QED
    BY <1>1, <1>6 DEF r, v, t, SlotOf

\* The parts of OrderedInv that stamping a packet could disturb.
RestOfOrderedInv ==
    /\ RingCarries /\ PacketsCarry /\ HoldbackCarries
    /\ CursorCounts /\ AcksBehindCursor /\ Retained

\* Stamping the message that follows the last stamped one keeps them: the slot
\* it takes was free, so it evicts nothing the receiver still needs, and a slot
\* one window above the cursor is never free (CanSend, StampFlowPacket).
LEMMA StampKeeps ==
  ASSUME TypeOK, TypeOK', IsOrdered, RestOfOrderedInv, CanSend,
         NEW flying \in BOOLEAN, StampFlowPacket(nextSeq, flying),
         UNCHANGED <<life, acks, inVars>>
  PROVE  RestOfOrderedInv'
  <1>0. /\ nextSeq \in Nat \ {0} /\ recvNext \in Nat \ {0}
        /\ \A k \in Slots : ring[k].seq \in Nat /\ ring[k].msg \in Nat
        /\ \A p \in data : p.seq \in Nat /\ p.msg \in Nat
        /\ \A k \in Slots : holdback[k].seq \in Nat /\ holdback[k].msg \in Nat
    BY ZenonT(30) DEF TypeOK, InFlightEntry, Packet
  <1>1. /\ nextSeq' = nextSeq + 1
        /\ \A k \in Slots : k # SlotOf(nextSeq) => ring'[k] = ring[k]
        /\ ring'[SlotOf(nextSeq)].seq = nextSeq
        /\ ring'[SlotOf(nextSeq)].msg = nextSeq
        /\ SlotOf(nextSeq) \in Slots
        /\ ring[SlotOf(nextSeq)].seq = 0
    BY SlotOfType DEF TypeOK, StampFlowPacket, CanSend, InFlightEntry
  <1>2. \A p \in data' : p \in data \/ (p.seq = nextSeq /\ p.msg = nextSeq)
    BY DEF StampFlowPacket
  <1>3. UNCHANGED <<recvNext, holdback, handed, acks, life>>
    BY DEF inVars
  <1>4. RingCarries'
    BY <1>0, <1>1 DEF RestOfOrderedInv, RingCarries, InFlight, CarriesItsMessage
  <1>5. PacketsCarry'
    BY <1>0, <1>1, <1>2 DEF RestOfOrderedInv, PacketsCarry, CarriesItsMessage
  <1>6. HoldbackCarries'
    BY <1>0, <1>1, <1>3 DEF RestOfOrderedInv, HoldbackCarries, CarriesItsMessage
  <1>7. CursorCounts'
    BY <1>0, <1>1, <1>3 DEF RestOfOrderedInv, CursorCounts
  <1>8. AcksBehindCursor'
    BY <1>3 DEF RestOfOrderedInv, AcksBehindCursor
  <1>9. Retained'
    <2> SUFFICES ASSUME life = "OPEN"
                 PROVE  /\ \A s \in recvNext .. nextSeq : ring'[SlotOf(s)].seq = s
                        /\ nextSeq + 1 <= recvNext + Window
      BY <1>0, <1>1, <1>3 DEF Retained
    <2>1. /\ \A s \in recvNext .. nextSeq - 1 : ring[SlotOf(s)].seq = s
          /\ nextSeq <= recvNext + Window
      BY DEF RestOfOrderedInv, Retained
    <2>2. ASSUME NEW s \in recvNext .. nextSeq PROVE ring'[SlotOf(s)].seq = s
      <3>1. CASE s = nextSeq
        BY <3>1, <1>1
      <3>2. CASE s # nextSeq
        <4>1. ring[SlotOf(s)].seq = s /\ s # 0 /\ s \in Nat
          BY <1>0, <2>1, <3>2
        <4>2. SlotOf(s) \in Slots
          BY <4>1, SlotOfType
        <4>3. SlotOf(s) # SlotOf(nextSeq)
          BY <4>1, <1>1
        <4> QED
          BY <4>1, <4>2, <4>3, <1>1
      <3> QED
        BY <3>1, <3>2
    <2>3. nextSeq # recvNext + Window
      <3> SUFFICES ASSUME nextSeq = recvNext + Window PROVE FALSE
        OBVIOUS
      <3>1. ring[SlotOf(recvNext)].seq = recvNext
        BY <1>0, <2>1, WindowAssumption
      <3>2. SlotOf(nextSeq) = SlotOf(recvNext)
        BY <1>0, SlotShift
      <3> QED
        BY <3>1, <3>2, <1>0, <1>1
    <2> QED
      BY <1>0, <2>1, <2>2, <2>3, WindowAssumption
  <1> QED
    BY <1>4, <1>5, <1>6, <1>7, <1>8, <1>9 DEF RestOfOrderedInv

\* The sequences and messages that the parts of OrderedInv speak of are numbers.
Numbers ==
    /\ nextSeq \in Nat \ {0} /\ recvNext \in Nat \ {0} /\ accepted \in Nat
    /\ \A k \in Slots : ring[k].seq \in Nat /\ ring[k].msg \in Nat
    /\ \A p \in data : p.seq \in Nat /\ p.msg \in Nat
    /\ \A k \in Slots : holdback[k].seq \in Nat /\ holdback[k].msg \in Nat
    /\ \A a \in acks : a.recvNext \in Nat

\* The type invariant makes them numbers.
LEMMA TypesAreNumbers == TypeOK => Numbers
  BY DEF TypeOK, Numbers, InFlightEntry, Packet, Ack

\* A step that only rewrites or frees entries the receiver has passed keeps what
\* the in-flight ring owes (RetransmitInflight, ApplyAckRanges).
LEMMA RingKept ==
  ASSUME Numbers, RingCarries, Retained, AcksBehindCursor,
         UNCHANGED <<nextSeq, recvNext, life>>,
         \A k \in Slots : \/ ring'[k].seq = ring[k].seq /\ ring'[k].msg = ring[k].msg
                          \/ ring'[k].seq = 0 /\ ring[k].seq < recvNext
  PROVE  RingCarries' /\ Retained'
  <1>1. RingCarries'
    BY DEF RingCarries, InFlight, CarriesItsMessage, Numbers
  <1>2. Retained'
    <2> SUFFICES ASSUME life = "OPEN", NEW s \in recvNext .. nextSeq - 1
                 PROVE  ring'[SlotOf(s)].seq = s
      BY DEF Retained
    <2>1. ring[SlotOf(s)].seq = s /\ s \in Nat /\ s >= recvNext
      BY DEF Retained, Numbers
    <2>2. SlotOf(s) \in Slots
      BY <2>1, SlotOfType
    <2> QED
      BY <2>1, <2>2 DEF Numbers
  <1> QED
    BY <1>1, <1>2

\* Applying an ack only rewrites entries, and frees those below its cursor.
LEMMA AckKeepsRing ==
  ASSUME TypeOK, IsOrdered, AcksBehindCursor, RingCarries,
         NEW a \in acks, NEW overdue, ApplyAckRanges(a, overdue)
  PROVE  \A k \in Slots : \/ ring'[k].seq = ring[k].seq /\ ring'[k].msg = ring[k].msg
                          \/ ring'[k].seq = 0 /\ ring[k].seq < recvNext
  <1> DEFINE J == Judged(a, overdue)
  <1> SUFFICES ASSUME NEW k \in Slots
               PROVE  \/ ring'[k].seq = ring[k].seq /\ ring'[k].msg = ring[k].msg
                      \/ ring'[k].seq = 0 /\ ring[k].seq < recvNext
    OBVIOUS
  <1>1. J[k].seq = ring[k].seq /\ J[k].msg = ring[k].msg
    <2>1. ring[k] \in InFlightEntry
      BY DEF TypeOK
    <2>2. /\ ResolveOutEntry(ring[k]).seq = ring[k].seq
          /\ ResolveOutEntry(ring[k]).msg = ring[k].msg
          /\ DeclareLost(ring[k]).seq = ring[k].seq
          /\ DeclareLost(ring[k]).msg = ring[k].msg
      BY <2>1 DEF ResolveOutEntry, DeclareLost, InFlightEntry
    <2> QED
      BY <2>2 DEF Judged
  <1> HIDE DEF J
  <1>2. PICK base \in ackBase .. nextSeq :
          /\ \A s \in ackBase .. base - 1 : s < a.recvNext
          /\ ring'[k] = IF J[k].seq \in ackBase .. base - 1 THEN FreeEntry ELSE J[k]
    BY DEF ApplyAckRanges, RunReleased, J
  <1>3. a.recvNext <= recvNext /\ a.recvNext \in Nat /\ recvNext \in Nat
    BY TypesAreNumbers DEF AcksBehindCursor, Numbers
  <1>4. ring[k].seq \in Nat
    BY TypesAreNumbers DEF Numbers
  <1>5. CASE J[k].seq \in ackBase .. base - 1
    BY <1>1, <1>2, <1>3, <1>4, <1>5 DEF FreeEntry
  <1>6. CASE J[k].seq \notin ackBase .. base - 1
    BY <1>1, <1>2, <1>6
  <1> QED
    BY <1>5, <1>6

\* Moving the cursor up to what was sent keeps what the sender retains.
LEMMA CursorMoves ==
  ASSUME Numbers, RingCarries, PacketsCarry, AcksBehindCursor, Retained,
         UNCHANGED <<nextSeq, life, ring, data, acks>>,
         recvNext' \in Nat, recvNext <= recvNext'
  PROVE  RingCarries' /\ PacketsCarry' /\ AcksBehindCursor' /\ Retained'
  <1>0. nextSeq' = nextSeq /\ life' = life /\ ring' = ring /\ data' = data /\ acks' = acks
    OBVIOUS
  <1>1. RingCarries' /\ PacketsCarry'
    BY <1>0 DEF RingCarries, PacketsCarry, InFlight, CarriesItsMessage
  <1>2. AcksBehindCursor'
    BY DEF AcksBehindCursor, Numbers
  <1>3. Retained'
    <2> SUFFICES ASSUME life = "OPEN"
                 PROVE  /\ \A s \in recvNext' .. nextSeq - 1 : ring[SlotOf(s)].seq = s
                        /\ nextSeq <= recvNext' + Window
      BY <1>0 DEF Retained
    <2>1. /\ \A s \in recvNext .. nextSeq - 1 : ring[SlotOf(s)].seq = s
          /\ nextSeq <= recvNext + Window
          /\ nextSeq \in Nat /\ recvNext \in Nat
      BY DEF Retained, Numbers
    <2>2. nextSeq <= recvNext' + Window
      <3>1. /\ nextSeq \in Nat /\ recvNext \in Nat /\ recvNext' \in Nat
            /\ nextSeq <= recvNext + Window /\ recvNext <= recvNext'
        BY <2>1
      <3>2. \A x, y, z \in Nat : x <= y + Window /\ y <= z => x <= z + Window
        BY WindowAssumption
      <3> QED
        BY <3>1, <3>2, Zenon
    <2>3. \A s \in recvNext' .. nextSeq - 1 : s \in recvNext .. nextSeq - 1
      BY <2>1
    <2> QED
      BY <2>1, <2>2, <2>3
  <1> QED
    BY <1>1, <1>2, <1>3

\* The run delivered at the cursor continues the numbering: the arrival carries
\* the cursor's message and each held packet its own (DrainHoldbackRun).
LEMMA CursorRun ==
  ASSUME TypeOK, PacketsCarry, HoldbackCarries, CursorCounts,
         NEW p \in data, DeliverAtCursor(p)
  PROVE  /\ recvNext' \in Nat /\ recvNext < recvNext' /\ recvNext' <= nextSeq
         /\ Len(handed') = recvNext' - 1
         /\ \A i \in 1 .. Len(handed') : handed'[i] = i
         /\ \A k \in Slots : holdback'[k] = holdback[k] \/ holdback'[k].seq = 0
  <1> DEFINE n == recvNext
  <1>0. Numbers /\ p \in Packet /\ p.seq = n /\ p.msg = n /\ n \in Nat \ {0}
        /\ handed \in Seq(Nat)
    BY TypesAreNumbers DEF DeliverAtCursor, PacketsCarry, CarriesItsMessage, Numbers, TypeOK
  <1>1. PICK last \in n .. n + Window :
          /\ \A s \in n + 1 .. last : holdback[SlotOf(s)].seq = s
          /\ recvNext' = last + 1
          /\ handed' = handed \o Run(p, last)
          /\ holdback' = [k \in Slots |->
                            IF holdback[k].seq \in n + 1 .. last
                            THEN NotHeld ELSE holdback[k]]
    BY ZenonT(30), <1>0 DEF DeliverAtCursor, RunDrained
  <1>2. last \in Nat /\ last >= n
    BY <1>0, <1>1, WindowAssumption
  <1> HIDE DEF n
  <1>3. ASSUME NEW s \in n + 1 .. last
        PROVE  holdback[SlotOf(s)].msg = s /\ s < nextSeq
    <2>1. s \in Nat \ {0}
      BY <1>0, <1>2
    <2>2. SlotOf(s) \in Slots
      BY <2>1, SlotOfType
    <2>3. holdback[SlotOf(s)].seq = s
      BY <1>1
    <2> QED
      BY <2>1, <2>2, <2>3 DEF HoldbackCarries, CarriesItsMessage
  <1>4. n < nextSeq
    BY <1>0 DEF PacketsCarry, CarriesItsMessage
  <1>5. last < nextSeq
    <2>1. CASE last = n
      BY <1>4, <2>1
    <2>2. CASE last # n
      BY <1>0, <1>2, <1>3, <2>2
    <2> QED
      BY <2>1, <2>2
  <1>6. Run(p, last) \in Seq(Nat) /\ Len(Run(p, last)) = last - n + 1
    BY ZenonT(30), <1>0, <1>2, RunType
  <1>7. \A i \in 1 .. last - n + 1 : Run(p, last)[i] = n + i - 1
    <2> TAKE i \in 1 .. last - n + 1
    <2>1. Run(p, last)[i] = IF i = 1 THEN p.msg ELSE holdback[SlotOf(p.seq + i - 1)].msg
      BY <1>0, <1>2 DEF Run
    <2>2. CASE i = 1
      BY <1>0, <2>1, <2>2
    <2>3. CASE i # 1
      <3>1. n + i - 1 \in n + 1 .. last
        BY <1>0, <1>2, <2>3
      <3> QED
        BY <1>0, <1>3, <2>1, <2>3, <3>1
    <2> QED
      BY <2>2, <2>3
  <1>8. Len(handed) = n - 1 /\ \A i \in 1 .. n - 1 : handed[i] = i
    BY DEF CursorCounts, n
  <1>9. /\ Len(handed') = last
        /\ \A i \in 1 .. last : handed'[i] =
              IF i <= n - 1 THEN handed[i] ELSE Run(p, last)[i - (n - 1)]
    <2>1. /\ Len(handed') = Len(handed) + Len(Run(p, last))
          /\ \A i \in 1 .. Len(handed) + Len(Run(p, last)) : handed'[i] =
                IF i <= Len(handed) THEN handed[i] ELSE Run(p, last)[i - Len(handed)]
      BY <1>0, <1>1, <1>6, Joining, Zenon
    <2>2. Len(handed) = n - 1 /\ Len(handed) + Len(Run(p, last)) = last
      BY <1>0, <1>2, <1>6, <1>8
    <2> QED
      BY <2>1, <2>2
  <1>10. \A i \in 1 .. last : handed'[i] = i
    <2> TAKE i \in 1 .. last
    <2>1. CASE i <= n - 1
      BY <1>0, <1>8, <1>9, <2>1
    <2>2. CASE ~(i <= n - 1)
      <3>1. i - (n - 1) \in 1 .. last - n + 1
        BY <1>0, <1>2, <2>2
      <3>2. handed'[i] = n + (i - (n - 1)) - 1
        BY <1>7, <1>9, <2>2, <3>1
      <3> QED
        BY <1>0, <1>2, <3>2
    <2> QED
      BY <2>1, <2>2
  <1>11. \A k \in Slots : holdback'[k] = holdback[k] \/ holdback'[k].seq = 0
    BY <1>1 DEF NotHeld
  <1> QED
    BY <1>0, <1>1, <1>2, <1>5, <1>9, <1>10, <1>11 DEF Numbers, n

\* OrderedInv is inductive.
LEMMA OrderedStep ==
  ASSUME TypeOK, TypeOK', IsOrdered, OrderedInv, [Next]_vars
  PROVE  OrderedInv'
  <1>0. IsReliable
    BY DEF IsOrdered, IsReliable
  <1>1. Numbers
    BY TypesAreNumbers
  <1>2. Numbers'
    BY ZenonT(30) DEF TypeOK, Numbers, InFlightEntry, Packet, Ack
  <1>3. /\ WaitingFollows /\ RingCarries /\ PacketsCarry /\ HoldbackCarries
        /\ CursorCounts /\ AcksBehindCursor /\ Retained /\ RestOfOrderedInv
    BY DEF OrderedInv, RestOfOrderedInv
  <1> SUFFICES WaitingFollows' /\ RestOfOrderedInv'
    BY DEF OrderedInv, RestOfOrderedInv
  <1>4. CASE AdmitSent
    <2>1. waiting = <<>> /\ Len(waiting) = 0 /\ accepted + 1 = nextSeq
      BY <1>1, <1>3, <1>4 DEF AdmitSent, WaitingFollows, Numbers
    <2>2. RestOfOrderedInv'
      BY <1>3, <1>4, <2>1, StampKeeps, Zenon DEF AdmitSent, TypeOK
    <2>3. nextSeq' = nextSeq + 1 /\ accepted' = accepted + 1 /\ waiting' = waiting
          /\ life = "OPEN" /\ life' = "OPEN"
      BY <1>4 DEF AdmitSent, StampFlowPacket
    <2>4. WaitingFollows'
      BY <1>1, <2>1, <2>3 DEF WaitingFollows, Numbers
    <2> QED
      BY <2>2, <2>4
  <1>5. CASE AdmitQueued
    <2>1. /\ waiting' = Append(waiting, accepted + 1) /\ accepted' = accepted + 1
          /\ life = "OPEN" /\ life' = "OPEN"
          /\ UNCHANGED <<nextSeq, ring, data, acks, inVars>>
      BY <1>0, <1>5 DEF AdmitQueued
    <2>2. waiting \in Seq(Nat) /\ accepted + 1 \in Nat /\ Len(waiting) \in Nat
      BY LenOf DEF TypeOK
    <2>3. /\ Len(waiting') = Len(waiting) + 1
          /\ \A i \in 1 .. Len(waiting) : waiting'[i] = waiting[i]
          /\ waiting'[Len(waiting) + 1] = accepted + 1
      BY <2>1, <2>2, Appending
    <2>4. WaitingFollows'
      BY SMTT(30), <1>1, <1>3, <2>1, <2>2, <2>3 DEF WaitingFollows, Numbers
    <2>5. RestOfOrderedInv'
      BY <1>3, <2>1 DEF RestOfOrderedInv, RingCarries, InFlight, PacketsCarry, HoldbackCarries,
         CarriesItsMessage, CursorCounts, AcksBehindCursor, Retained, inVars
    <2> QED
      BY <2>4, <2>5
  <1>6. CASE ClaimWaiting
    <2>1. waiting \in Seq(Nat) /\ waiting # <<>> /\ Len(waiting) \in Nat \ {0}
      BY <1>6, EmptyOf DEF ClaimWaiting, TypeOK
    <2>2. Head(waiting) = nextSeq
      BY <1>1, <1>3, <2>1 DEF WaitingFollows, Numbers
    <2>3. RestOfOrderedInv'
      <3>1. StampFlowPacket(nextSeq, TRUE) /\ CanSend /\ UNCHANGED <<life, acks, inVars>>
        BY ZenonT(30), <1>6, <2>2 DEF ClaimWaiting
      <3> QED
        BY <1>3, <3>1, StampKeeps, Zenon
    <2>4. nextSeq' = nextSeq + 1 /\ accepted' = accepted /\ waiting' = Tail(waiting)
          /\ life = "OPEN" /\ life' = "OPEN"
      BY <1>6 DEF ClaimWaiting, StampFlowPacket
    <2>5. /\ Len(waiting') = Len(waiting) - 1
          /\ \A i \in 1 .. Len(waiting) - 1 : waiting'[i] = waiting[i + 1]
      BY <2>1, <2>4, Beheading
    <2>6. WaitingFollows'
      BY <1>1, <1>3, <2>1, <2>4, <2>5 DEF WaitingFollows, Numbers
    <2> QED
      BY <2>3, <2>6
  <1>7. ASSUME NEW due \in SUBSET InFlight, NEW sent \in SUBSET due,
               RetransmitInflight(due, sent)
        PROVE  WaitingFollows' /\ RestOfOrderedInv'
    <2>1. UNCHANGED <<life, accepted, waiting, nextSeq, acks, recvNext, holdback, handed>>
      BY <1>7 DEF RetransmitInflight, inVars
    <2>2. \A k \in Slots : ring'[k].seq = ring[k].seq /\ ring'[k].msg = ring[k].msg
      BY ZenonT(30), <1>7, RestampedType DEF RetransmitInflight, TypeOK
    <2>3. RingCarries' /\ Retained'
      BY <1>1, <1>3, <2>1, <2>2, RingKept
    <2>4. PacketsCarry'
      <3>1. \A q \in data' : q \in data \/ \E k \in InFlight : q.seq = ring[k].seq /\ q.msg = ring[k].msg
        BY <1>7 DEF RetransmitInflight
      <3> QED
        BY <1>3, <2>1, <3>1 DEF PacketsCarry, RingCarries, CarriesItsMessage, InFlight
    <2>5. HoldbackCarries' /\ CursorCounts' /\ AcksBehindCursor' /\ WaitingFollows'
      BY <1>3, <2>1 DEF HoldbackCarries, CarriesItsMessage, CursorCounts, AcksBehindCursor,
         WaitingFollows
    <2> QED
      BY <2>3, <2>4, <2>5 DEF RestOfOrderedInv
  <1>8. CASE FailAssoc
    <2>1. /\ life' = "FAILED" /\ waiting' = <<>> /\ ring' = [k \in Slots |-> FreeEntry]
          /\ UNCHANGED <<accepted, nextSeq, data, acks, recvNext, holdback, handed>>
      BY <1>8 DEF FailAssoc, inVars
    <2>2. RingCarries' /\ Retained'
      BY <2>1 DEF RingCarries, InFlight, FreeEntry, Retained
    <2>3. WaitingFollows'
      BY <1>3, <2>1 DEF WaitingFollows
    <2>4. PacketsCarry' /\ HoldbackCarries' /\ CursorCounts' /\ AcksBehindCursor'
      BY <1>3, <2>1 DEF PacketsCarry, HoldbackCarries, CarriesItsMessage, CursorCounts,
         AcksBehindCursor
    <2> QED
      BY <2>2, <2>3, <2>4 DEF RestOfOrderedInv
  <1>9. ASSUME NEW a \in acks, NEW overdue \in SUBSET Unacked, ApplyAckRanges(a, overdue)
        PROVE  WaitingFollows' /\ RestOfOrderedInv'
    <2>1. UNCHANGED <<life, accepted, waiting, nextSeq, data, acks, recvNext, holdback, handed>>
      BY <1>9 DEF ApplyAckRanges, inVars
    <2>2. RingCarries' /\ Retained'
      BY SMTT(30), <1>1, <1>3, <1>9, <2>1, AckKeepsRing, RingKept
    <2>3. /\ PacketsCarry' /\ HoldbackCarries' /\ CursorCounts' /\ AcksBehindCursor'
          /\ WaitingFollows'
      BY <1>3, <2>1 DEF PacketsCarry, HoldbackCarries, CarriesItsMessage, CursorCounts,
         AcksBehindCursor, WaitingFollows
    <2> QED
      BY SMTT(30), <2>2, <2>3 DEF RestOfOrderedInv
  <1>10. ASSUME NEW p \in data, DeliverIn(p)
         PROVE  WaitingFollows' /\ RestOfOrderedInv'
    <2>1. UNCHANGED <<life, accepted, waiting, nextSeq, ring, data, acks>>
      BY <1>10 DEF DeliverIn, outVars
    <2>2. WaitingFollows'
      BY SMTT(30), <1>3, <2>1 DEF WaitingFollows
    <2>3. CASE AckOnly
      BY <1>3, <2>1, <2>2, <2>3 DEF AckOnly, RestOfOrderedInv, RingCarries, InFlight,
         PacketsCarry, HoldbackCarries, CarriesItsMessage, CursorCounts,
         AcksBehindCursor, Retained
    <2>4. CASE DeliverAtCursor(p)
      <3>1. /\ recvNext' \in Nat /\ recvNext < recvNext' /\ recvNext' <= nextSeq
            /\ Len(handed') = recvNext' - 1
            /\ \A i \in 1 .. Len(handed') : handed'[i] = i
            /\ \A k \in Slots : holdback'[k] = holdback[k] \/ holdback'[k].seq = 0
        BY <1>3, <2>4, CursorRun
      <3>2. recvNext <= recvNext'
        BY <1>1, <3>1 DEF Numbers
      <3>3. RingCarries' /\ PacketsCarry' /\ AcksBehindCursor' /\ Retained'
        BY <1>1, <1>3, <2>1, <3>1, <3>2, CursorMoves
      <3>4. HoldbackCarries'
        BY SMTT(30), <1>3, <2>1, <3>1 DEF HoldbackCarries, CarriesItsMessage
      <3>5. CursorCounts'
        BY ZenonT(30), <2>1, <3>1 DEF CursorCounts
      <3> QED
        BY <2>2, <3>3, <3>4, <3>5 DEF RestOfOrderedInv
    <2>5. CASE HoldAhead(p)
      <3>1. /\ holdback' = [holdback EXCEPT ![SlotOf(p.seq)] = p]
            /\ UNCHANGED <<recvNext, handed>>
        BY <2>5 DEF HoldAhead
      <3>2. HoldbackCarries'
        BY <1>3, <2>1, <3>1 DEF HoldbackCarries, PacketsCarry, CarriesItsMessage, TypeOK
      <3> QED
        BY <1>3, <2>1, <2>2, <3>1, <3>2 DEF RestOfOrderedInv, RingCarries, InFlight,
           PacketsCarry, CarriesItsMessage, CursorCounts, AcksBehindCursor, Retained
    <2> QED
      BY <1>10, <2>3, <2>4, <2>5 DEF DeliverIn, DeliverOrdered
  <1>11. CASE FlushPeerAcks
    <2>1. UNCHANGED <<life, accepted, waiting, nextSeq, ring, data, recvNext, holdback, handed>>
      BY <1>11 DEF FlushPeerAcks, outVars
    <2>2. AcksBehindCursor'
      <3>1. \A a \in acks' : a \in acks \/ a.recvNext = recvNext
        BY <1>11 DEF FlushPeerAcks, FreshAck
      <3>2. recvNext \in Nat /\ recvNext' = recvNext
        BY ZenonT(30), <1>1, <2>1 DEF Numbers
      <3>3. \A a \in acks : a.recvNext <= recvNext
        BY <1>3 DEF RestOfOrderedInv, AcksBehindCursor
      <3>4. recvNext <= recvNext
        BY <3>2
      <3>5. \A a \in acks' : a.recvNext <= recvNext
        BY SMTT(30), <3>1, <3>3, <3>4
      <3> QED
        BY <3>2, <3>5 DEF AcksBehindCursor
    <2> QED
      BY ZenonT(30), <1>3, <2>1, <2>2 DEF WaitingFollows, RestOfOrderedInv, RingCarries,
         InFlight, PacketsCarry, HoldbackCarries, CarriesItsMessage, CursorCounts, Retained
  <1>12. CASE ReclaimJammedInFlows
    <2>1. /\ UNCHANGED <<life, accepted, waiting, nextSeq, ring, data, acks, recvNext, handed>>
          /\ holdback' = [k \in Slots |-> NotHeld]
      BY ZenonT(30), <1>12 DEF ReclaimJammedInFlows, outVars
    <2>2. HoldbackCarries'
      BY SMTT(30), <2>1 DEF HoldbackCarries, NotHeld
    <2> QED
      BY <1>3, <2>1, <2>2 DEF WaitingFollows, RestOfOrderedInv, RingCarries, InFlight,
         PacketsCarry, CarriesItsMessage, CursorCounts, AcksBehindCursor, Retained
  <1>13. CASE /\ UNCHANGED <<life, accepted, waiting, nextSeq, ring, recvNext, holdback, handed>>
              /\ data' \subseteq data /\ acks' \subseteq acks
    BY ZenonT(30), <1>3, <1>13 DEF WaitingFollows, RestOfOrderedInv, RingCarries, InFlight,
       PacketsCarry, HoldbackCarries, CarriesItsMessage, CursorCounts, AcksBehindCursor,
       Retained
  <1>14. ASSUME NEW p \in data, LosePacket(p)
         PROVE  WaitingFollows' /\ RestOfOrderedInv'
    BY <1>13, <1>14 DEF LosePacket, outVars, inVars
  <1>15. ASSUME NEW a \in acks, LoseAck(a)
         PROVE  WaitingFollows' /\ RestOfOrderedInv'
    BY <1>13, <1>15 DEF LoseAck, outVars, inVars
  <1>16. CASE CommitSession \/ Poll \/ UNCHANGED vars
    BY <1>13, <1>16 DEF CommitSession, Poll, vars, outVars, inVars
  <1>17. \A due \in SUBSET InFlight : ~ExpireInflight(due)
    BY <1>0 DEF ExpireInflight
  <1> QED
    BY <1>4, <1>5, <1>6, <1>7, <1>8, <1>9, <1>10, <1>11, <1>12, <1>14, <1>15, <1>16,
       <1>17 DEF Next

\* For every window and every limit, the numbering, the cursor and the retained
\* copies of an ordered flow agree at all times (AdmitOut, ClaimWaiting,
\* ReleaseAckedRun, DeliverOrdered): the inductive invariant holds.
THEOREM OrderedInvariant == Spec => []OrderedInv
  <1>1. Init => OrderedInv
    <2> SUFFICES ASSUME IsOrdered, Init PROVE OrderedInv
      BY DEF OrderedInv
    <2>1. WaitingFollows /\ CursorCounts
      BY SMTT(30) DEF Init, WaitingFollows, CursorCounts
    <2>2. RingCarries /\ PacketsCarry /\ HoldbackCarries /\ AcksBehindCursor /\ Retained
      BY WindowAssumption DEF Init, RingCarries, InFlight, FreeEntry, PacketsCarry,
         HoldbackCarries, NotHeld, AcksBehindCursor, Retained
    <2> QED
      BY <2>1, <2>2 DEF OrderedInv
  <1>2. TypeOK /\ TypeOK' /\ OrderedInv /\ [Next]_vars => OrderedInv'
    <2>1. CASE IsOrdered
      BY <2>1, OrderedStep
    <2>2. CASE ~IsOrdered
      BY <2>2 DEF OrderedInv, IsOrdered
    <2> QED
      BY <2>1, <2>2
  <1> QED
    BY <1>1, <1>2, TypeCorrect, PTL DEF Spec

\* An ordered flow hands the application exactly what was accepted, once each
\* and in order, for every window, budget, grant and pool, and whatever the
\* network does (DeliverOrdered).
THEOREM OrderedExactlyOnce == Spec => []InOrderExactlyOnce
  <1>1. TypeOK /\ OrderedInv => InOrderExactlyOnce
    <2> SUFFICES ASSUME TypeOK, OrderedInv, IsOrdered,
                        NEW i \in 1 .. Len(handed)
                 PROVE  handed[i] = i /\ i <= accepted
      BY DEF InOrderExactlyOnce
    <2>1. Numbers
      BY TypesAreNumbers
    <2>2. /\ Len(handed) = recvNext - 1 /\ recvNext <= nextSeq
          /\ handed[i] = i /\ accepted >= nextSeq - 1
      BY DEF OrderedInv, CursorCounts, WaitingFollows
    <2> QED
      BY <2>1, <2>2 DEF Numbers
  <1> QED
    BY <1>1, TypeCorrect, OrderedInvariant, PTL

-----------------------------------------------------------------------------
(* The counters and the share of the pool, in every mode. *)

\* A set of slots is finite.
LEMMA SlotsFinite == \A S \in SUBSET Slots : IsFiniteSet(S)
  <1>1. IsFiniteSet(Slots)
    BY FS_Interval, WindowAssumption DEF Slots
  <1> QED
    BY <1>1, FS_Subset

\* What the ring's counters see of an entry of a step: still owed or not.
Owed(e) == e.seq # 0 /\ ~e.acked

\* Stamping takes a free slot, and owes one entry more.
LEMMA StampCounts ==
  ASSUME TypeOK, SendAccounting, RingInPlace, CanSend,
         NEW m, NEW flying \in BOOLEAN, StampFlowPacket(m, flying)
  PROVE  SendAccounting' /\ RingInPlace'
  <1> DEFINE k0 == SlotOf(nextSeq)
             e == [seq |-> nextSeq, msg |-> m, stamped |-> flying,
                   acked |-> FALSE, lostByAck |-> FALSE]
  <1>1. k0 \in Slots /\ nextSeq # 0
    BY SlotOfType DEF TypeOK
  <1>2. ring' = [ring EXCEPT ![k0] = e] /\ ring[k0].seq = 0
    BY DEF StampFlowPacket, CanSend
  <1>3. e.seq = nextSeq /\ e.acked = FALSE
    OBVIOUS
  <1> HIDE DEF e
  <1>4. ring'[k0] = e /\ \A k \in Slots : k # k0 => ring'[k] = ring[k]
    BY <1>1, <1>2 DEF TypeOK
  <1>5. Unacked' = Unacked \cup {k0} /\ k0 \notin Unacked
    BY <1>1, <1>2, <1>3, <1>4, Zenon DEF Unacked, InFlight
  <1>6. IsFiniteSet(Unacked)
    BY SlotsFinite DEF Unacked, InFlight
  <1>7. Cardinality(Unacked') = Cardinality(Unacked) + 1
    BY <1>5, <1>6, FS_AddElement
  <1>8. SendAccounting'
    BY <1>7 DEF SendAccounting, StampFlowPacket
  <1>9. RingInPlace'
    BY <1>1, <1>3, <1>4, Zenon DEF RingInPlace, InFlight, IsOrdered
  <1> QED
    BY <1>8, <1>9

\* Taking a set of owed entries off the ring takes as many off the counters.
LEMMA OwedLess ==
  ASSUME TypeOK, SendAccounting, NEW S, Unacked' = Unacked \ S,
         NEW n, n = Cardinality(S \cap Unacked),
         unresolved' = unresolved - n, outstanding' = outstanding - n
  PROVE  SendAccounting'
  <1>1. IsFiniteSet(Unacked)
    BY SlotsFinite DEF Unacked, InFlight
  <1>2. Cardinality(Unacked \ S) = Cardinality(Unacked) - Cardinality(Unacked \cap S)
    BY <1>1, FS_Difference, Zenon
  <1>3. S \cap Unacked = Unacked \cap S
    OBVIOUS
  <1> QED
    BY <1>2, <1>3 DEF SendAccounting

\* What an ack names is owed no longer, and what it releases was owed no more:
\* the walk stops at the first entry that is not acknowledged (ReleaseAckedRun).
LEMMA AckCounts ==
  ASSUME TypeOK, SendAccounting, RingInPlace,
         NEW a \in acks, NEW overdue, ApplyAckRanges(a, overdue)
  PROVE  SendAccounting' /\ RingInPlace'
  <1> DEFINE J == Judged(a, overdue)
  <1>1. \A k \in Slots :
           /\ ring[k] \in InFlightEntry
           /\ ResolveOutEntry(ring[k]) = IF IsOrdered THEN [ring[k] EXCEPT !.acked = TRUE] ELSE FreeEntry
           /\ DeclareLost(ring[k]).seq = ring[k].seq
           /\ DeclareLost(ring[k]).acked = ring[k].acked
    BY DEF TypeOK, InFlightEntry, DeclareLost, ResolveOutEntry
  <1>2. \A k \in Slots : k \in Named(a) =>
           /\ J[k] = ResolveOutEntry(ring[k])
           /\ IsOrdered => J[k].seq = ring[k].seq /\ J[k].acked
           /\ ~IsOrdered => J[k] = FreeEntry
    <2>1. \A k \in Slots : [ring[k] EXCEPT !.acked = TRUE].seq = ring[k].seq
                          /\ [ring[k] EXCEPT !.acked = TRUE].acked
      BY <1>1 DEF InFlightEntry
    <2> QED
      BY <1>1, <2>1, Zenon DEF Judged
  <1>3. \A k \in Slots : k \notin Named(a) =>
           J[k].seq = ring[k].seq /\ J[k].acked = ring[k].acked
    BY <1>1, Zenon DEF Judged
  <1> HIDE DEF J
  <1>4. PICK base \in ackBase .. nextSeq :
          /\ \A s \in ackBase .. base - 1 : J[SlotOf(s)].seq = s => J[SlotOf(s)].acked
          /\ \A k \in Slots : ring'[k] = IF J[k].seq \in ackBase .. base - 1
                                        THEN FreeEntry ELSE J[k]
    BY Zenon DEF ApplyAckRanges, RunReleased, J
  <1>5. FreeEntry.seq = 0 /\ ~FreeEntry.acked
    BY DEF FreeEntry
  <1>6. \A k \in Slots : J[k].seq # 0 => J[k].seq = ring[k].seq /\ SlotOf(J[k].seq) = k
    BY <1>2, <1>3, <1>5, Zenon DEF RingInPlace, InFlight
  <1>7. 0 \notin ackBase .. base - 1
    BY DEF TypeOK
  <1>8. \A k \in Slots : ring'[k] = FreeEntry /\ J[k].seq # 0 => J[k].acked
    <2> SUFFICES ASSUME NEW k \in Slots, ring'[k] = FreeEntry, J[k].seq # 0 PROVE J[k].acked
      OBVIOUS
    <2>1. J[k].seq \in ackBase .. base - 1
      BY <1>4, <1>5, Zenon
    <2>2. SlotOf(J[k].seq) = k
      BY <1>6
    <2> QED
      BY <1>4, <2>1, <2>2, Zenon
  <1>9. \A k \in Slots : Owed(ring'[k]) <=> Owed(J[k])
    BY <1>4, <1>5, <1>8, Zenon DEF Owed
  <1>10. \A k \in Slots : Owed(J[k]) <=> Owed(ring[k]) /\ k \notin Named(a)
    BY <1>2, <1>3, <1>5, Zenon DEF Owed
  <1>11. Unacked' = Unacked \ Named(a)
    BY <1>9, <1>10, Zenon DEF Unacked, InFlight, Owed
  <1>12. SendAccounting'
    BY <1>11, OwedLess DEF ApplyAckRanges
  <1>13. \A k \in Slots : ring'[k].seq # 0 => ring'[k].seq = ring[k].seq
    BY <1>4, <1>5, <1>6, Zenon
  <1>14. ~IsOrdered => \A k \in Slots : ~ring'[k].acked
    BY <1>2, <1>3, <1>4, <1>5, Zenon DEF RingInPlace
  <1> QED
    BY <1>12, <1>13, <1>14, Zenon DEF RingInPlace, InFlight, IsOrdered

\* Every step keeps the sender's counters exact, in every mode.
LEMMA SendStep ==
  ASSUME TypeOK, SendAccounting, RingInPlace, [Next]_vars
  PROVE  SendAccounting' /\ RingInPlace'
  <1>1. CASE AdmitSent
    <2>1. accepted + 1 = accepted + 1 /\ sessionUp \in BOOLEAN
      BY DEF TypeOK
    <2> QED
      BY <1>1, <2>1, StampCounts DEF AdmitSent
  <1>2. CASE ClaimWaiting
    BY <1>2, StampCounts, Zenon DEF ClaimWaiting
  <1>3. ASSUME NEW due \in SUBSET InFlight, ExpireInflight(due)
        PROVE  SendAccounting' /\ RingInPlace'
    <2>1. ~IsOrdered
      BY <1>3 DEF ExpireInflight, IsOrdered, IsReliable
    <2>2. \A k \in Slots : ring'[k] = IF k \in due THEN FreeEntry ELSE ring[k]
      BY <1>3 DEF ExpireInflight
    <2>3. FreeEntry.seq = 0 /\ ~FreeEntry.acked
      BY DEF FreeEntry
    <2>4. \A k \in Slots : ~ring[k].acked
      BY <2>1 DEF RingInPlace
    <2>5. due \cap Unacked = due /\ Unacked' = Unacked \ due
      BY <2>2, <2>3, <2>4, Zenon DEF Unacked, InFlight
    <2>6. SendAccounting'
      BY <1>3, <2>5, OwedLess DEF ExpireInflight
    <2> QED
      BY <2>2, <2>3, <2>6, Zenon DEF RingInPlace, InFlight, IsOrdered
  <1>4. ASSUME NEW due \in SUBSET InFlight, NEW sent \in SUBSET due,
               RetransmitInflight(due, sent)
        PROVE  SendAccounting' /\ RingInPlace'
    <2>1. \A k \in Slots : ring'[k].seq = ring[k].seq /\ ring'[k].acked = ring[k].acked
      BY <1>4, RestampedType, Zenon DEF RetransmitInflight, TypeOK
    <2>2. Unacked' = Unacked /\ RingInPlace'
      BY <2>1, Zenon DEF Unacked, InFlight, RingInPlace, IsOrdered
    <2> QED
      BY <1>4, <2>2, Zenon DEF RetransmitInflight, SendAccounting
  <1>5. CASE FailAssoc
    <2>1. \A k \in Slots : ring'[k].seq = 0 /\ ~ring'[k].acked
      BY <1>5 DEF FailAssoc, FreeEntry
    <2>2. Unacked' = {} /\ RingInPlace'
      BY <2>1, Zenon DEF Unacked, InFlight, RingInPlace
    <2>3. Cardinality(Unacked) \in Nat
      BY SlotCount DEF Unacked, InFlight
    <2> QED
      BY <1>5, <2>2, <2>3, FS_EmptySet DEF FailAssoc, SendAccounting
  <1>6. ASSUME NEW a \in acks, NEW overdue \in SUBSET Unacked, ApplyAckRanges(a, overdue)
        PROVE  SendAccounting' /\ RingInPlace'
    BY <1>6, AckCounts
  <1>7. CASE UNCHANGED <<ring, unresolved, outstanding>>
    <2>1. ring' = ring /\ unresolved' = unresolved /\ outstanding' = outstanding
      BY <1>7
    <2> QED
      BY <2>1, Zenon DEF SendAccounting, RingInPlace, Unacked, InFlight, IsOrdered
  <1>8. AdmitQueued \/ CommitSession \/ FlushPeerAcks \/ ReclaimJammedInFlows \/ Poll
          \/ UNCHANGED vars => UNCHANGED <<ring, unresolved, outstanding>>
    BY Zenon DEF AdmitQueued, CommitSession, FlushPeerAcks, ReclaimJammedInFlows, Poll, vars, outVars
  <1>9. \A q : DeliverIn(q) \/ LosePacket(q) \/ LoseAck(q) => UNCHANGED <<ring, unresolved, outstanding>>
    BY Zenon DEF DeliverIn, LosePacket, LoseAck, outVars
  <1> QED
    BY <1>1, <1>2, <1>3, <1>4, <1>5, <1>6, <1>7, <1>8, <1>9, Zenon DEF Next

\* Different sequences of one window have different slots.
LEMMA SlotsApart ==
  \A s, t \in Nat : s < t /\ t < s + Window => SlotOf(s) # SlotOf(t)
  <1> SUFFICES ASSUME NEW s \in Nat, NEW t \in Nat, s < t, t < s + Window,
                      SlotOf(s) = SlotOf(t)
               PROVE  FALSE
    OBVIOUS
  <1> DEFINE q == s \div Window
             u == t \div Window
             r == s % Window
  <1>1. /\ q \in Nat /\ u \in Nat /\ r \in Slots
        /\ s = (Window * q) + r /\ t = (Window * u) + r
    BY WindowDivision DEF SlotOf
  <1> HIDE DEF q, u, r
  <1>2. Window * u - Window * q = Window * (u - q)
    BY <1>1, WindowAssumption
  <1>3. t - s = Window * (u - q)
    BY <1>1, <1>2, WindowAssumption DEF Slots
  <1>4. u - q # 0
    BY <1>3, <1>1, WindowAssumption
  <1> QED
    BY <1>1, <1>3, <1>4, WindowMultiple, WindowAssumption

\* The size of an interval of sequences.
LEMMA IntervalCount ==
  ASSUME NEW lo \in Nat, NEW hi \in Nat, hi >= lo - 1
  PROVE  IsFiniteSet(lo .. hi) /\ Cardinality(lo .. hi) = hi - lo + 1
  <1>1. IsFiniteSet(lo .. hi) /\ Cardinality(lo .. hi) = IF lo > hi THEN 0 ELSE hi - lo + 1
    BY FS_Interval
  <1> QED
    BY <1>1

\* The sequences of an interval that are all held are as many slots.
LEMMA HeldInterval ==
  ASSUME TypeOK, HeldInPlace, NEW lo \in Nat, NEW hi \in Nat, lo # 0, hi >= lo - 1,
         \A s \in lo .. hi : holdback[SlotOf(s)].seq = s
  PROVE  /\ {k \in Held : holdback[k].seq \in lo .. hi} \in SUBSET Slots
         /\ Cardinality({k \in Held : holdback[k].seq \in lo .. hi}) = hi - lo + 1
  <1> DEFINE T == {k \in Held : holdback[k].seq \in lo .. hi}
             f == [s \in lo .. hi |-> SlotOf(s)]
  <1>1. \A s \in lo .. hi : s \in Nat /\ s # 0 /\ SlotOf(s) \in Slots
    BY SlotOfType
  <1>2. \A s \in lo .. hi : f[s] \in T
    BY <1>1, Zenon DEF Held
  <1>3. \A s, t \in lo .. hi : f[s] = f[t] => s = t
    BY <1>1, Zenon
  <1>4. \A k \in T : \E s \in lo .. hi : f[s] = k
    BY Zenon DEF HeldInPlace
  <1>5. f \in Bijection(lo .. hi, T)
    BY <1>2, <1>3, <1>4, Zenon DEF Bijection, Injection, Surjection, IsInjective
  <1>6. ExistsBijection(lo .. hi, T)
    BY <1>5 DEF ExistsBijection
  <1>7. IsFiniteSet(lo .. hi) /\ Cardinality(lo .. hi) = hi - lo + 1
    BY IntervalCount
  <1>8. Cardinality(T) = hi - lo + 1
    BY <1>6, <1>7, FS_Bijection
  <1> QED
    BY <1>8 DEF Held

\* A hold-back ring with everything in its own slot, past a cursor n and up to
\* top, holds no more than the sequences between them.
LEMMA HeldBelow ==
  ASSUME NEW hb \in [Slots -> Packet], NEW n \in Nat, NEW top \in Nat, n <= top,
         \A k \in Slots : hb[k].seq # 0 =>
            SlotOf(hb[k].seq) = k /\ n < hb[k].seq /\ hb[k].seq <= top
  PROVE  Cardinality({k \in Slots : hb[k].seq # 0}) <= top - n
  <1> DEFINE H == {k \in Slots : hb[k].seq # 0}
             R == n + 1 .. top
             f == [k \in H |-> hb[k].seq]
  <1>1. \A k \in H : hb[k].seq \in Nat
    BY DEF Packet
  <1>2. \A k \in H : hb[k].seq \in R
    BY <1>1
  <1>3. \A j, k \in H : f[j] = f[k] => j = k
    BY Zenon
  <1>4. f \in Injection(H, R)
    BY <1>2, <1>3, Zenon DEF Injection, IsInjective
  <1>5. IsFiniteSet(R) /\ Cardinality(R) = top - n
    BY IntervalCount
  <1> HIDE DEF H, R, f
  <1>6. Cardinality(H) <= Cardinality(R)
    BY <1>4, <1>5, FS_Injection
  <1> QED
    BY <1>5, <1>6 DEF H

\* A packet that is held takes a free slot of the reorder window, and room that
\* the grant still had.
LEMMA HoldCounts ==
  ASSUME TypeOK, IsOrdered, RecvInv, NEW p \in data, occupancy < RecvSlots, HoldAhead(p)
  PROVE  RecvInv'
  <1> DEFINE k0 == SlotOf(p.seq)
             n == recvNext
  <1>1. p \in Packet /\ p.seq \in Nat /\ n \in Nat /\ p.seq > n /\ p.seq < n + Window /\ p.seq # 0
        /\ occupancy \in Int /\ heldCount \in Int
    BY DEF TypeOK, Packet, HoldAhead, CanHold
  <1>2. k0 \in Slots /\ holdback[k0].seq = 0
    BY <1>1, SlotOfType DEF HoldAhead
  <1>3. holdback'[k0] = p /\ \A k \in Slots : k # k0 => holdback'[k] = holdback[k]
    BY <1>2 DEF HoldAhead, TypeOK
  <1>4. /\ heldCount' = heldCount + 1 /\ occupancy' = occupancy + 1
        /\ recvNext' = n /\ handed' = handed /\ polled' = polled
    BY DEF HoldAhead
  <1>5. Held' = Held \cup {k0} /\ k0 \notin Held
    BY <1>1, <1>2, <1>3 DEF Held
  <1>6. heldCount = Cardinality(Held) /\ Cardinality(Held) \in Nat /\ IsFiniteSet(Held)
    BY SlotCount, SlotsFinite DEF RecvInv, RecvAccounting, Held
  <1>7. heldCount' = Cardinality(Held')
    BY <1>4, <1>5, <1>6, FS_AddElement
  <1>8. RecvAccounting'
    <2>1. occupancy = (Len(handed) - polled) + heldCount
      BY DEF RecvInv, RecvAccounting
    <2>2. occupancy' = (Len(handed') - polled') + heldCount'
      BY <1>1, <1>4, <2>1, LenOf DEF TypeOK
    <2>3. occupancy' <= RecvSlots
      BY <1>1, <1>4, LimitsAssumption
    <2> QED
      BY <1>7, <2>2, <2>3 DEF RecvAccounting, Held
  <1>9. HeldInPlace'
    BY <1>1, <1>3, <1>4, <1>5, Zenon DEF RecvInv, HeldInPlace, IsOrdered, Held
  <1>10. HolesCounted'
    <2> SUFFICES ASSUME Grant # 0
                 PROVE  /\ occupancy' <= Grant + Window - 1
                        /\ \E top \in 0 .. recvNext' + Window :
                             /\ \A k \in Held' : holdback'[k].seq <= top
                             /\ occupancy' + (top - recvNext') + 1 - heldCount' <= Grant + Window - 1
      BY DEF HolesCounted
    <2>1. occupancy < Grant /\ Grant \in Nat /\ Window \in Nat \ {0} /\ heldCount \in Nat
      BY <1>6, LimitsAssumption, WindowAssumption DEF HoldAhead, CanHold, HasRoomFor
    <2>2. occupancy' <= Grant + Window - 1
      BY <1>1, <1>4, <2>1
    <2> DEFINE top == n + Window - 1
    <2>3. top \in 0 .. recvNext' + Window /\ occupancy' + (top - recvNext') + 1 - heldCount' <= Grant + Window - 1
      BY <1>1, <1>4, <2>1
    <2>4. \A k \in Held' : holdback'[k].seq \in Nat /\ holdback'[k].seq < n + Window
      <3>1. \A k \in Held : holdback[k].seq \in Nat /\ holdback[k].seq < n + Window
        BY DEF RecvInv, HeldInPlace, Held, TypeOK, Packet
      <3> QED
        BY <1>1, <1>3, <1>5, <3>1 DEF Held
    <2>5. \A k \in Held' : holdback'[k].seq <= top
      BY <1>1, <2>1, <2>4
    <2> QED
      BY <2>2, <2>3, <2>5, Zenon
  <1> QED
    BY <1>8, <1>9, <1>10 DEF RecvInv

\* The packet at the cursor takes one slot of the pool and the run behind it
\* moves to the lane: the lane has room for the whole run, since every held
\* packet already counts in the pool, and a packet let in past the grant fills
\* one of the holes that were counted (DrainHoldbackRun, HasRoomFor).
LEMMA DrainCounts ==
  ASSUME TypeOK, TypeOK', IsOrdered, RecvInv, NEW p \in data, occupancy < RecvSlots,
         DeliverAtCursor(p)
  PROVE  RecvInv'
  <1> DEFINE n == recvNext
             lane == Len(handed) - polled
  <1>1. /\ p \in Packet /\ p.seq = n /\ n \in Nat \ {0} /\ handed \in Seq(Nat)
        /\ occupancy \in Int /\ heldCount \in Int /\ lane \in Nat /\ RecvSlots \in Nat
    BY LimitsAssumption, LenOf DEF TypeOK, DeliverAtCursor
  <1>2. PICK last \in n .. n + Window :
          /\ RunDrained(n, last)
          /\ recvNext' = last + 1
          /\ handed' = handed \o Run(p, last)
          /\ holdback' = [k \in Slots |->
                            IF holdback[k].seq \in n + 1 .. last
                            THEN NotHeld ELSE holdback[k]]
          /\ heldCount' = heldCount - (last - n)
    BY <1>1, Zenon DEF DeliverAtCursor
  <1>3. last \in Nat /\ last >= n /\ occupancy' = occupancy + 1 /\ polled' = polled
    <2>0. n \in Nat /\ Window \in Nat
      BY <1>1, WindowAssumption
    <2>1. last \in Nat /\ last >= n
      BY <2>0
    <2> QED
      BY <2>1, Zenon DEF DeliverAtCursor
  <1>4. /\ \A s \in n + 1 .. last : holdback[SlotOf(s)].seq = s
        /\ \/ holdback[SlotOf(last + 1)].seq # last + 1
           \/ last - n + 1 = RecvSlots - lane
    BY <1>2 DEF RunDrained, LaneRoom
  <1>5. /\ occupancy = lane + heldCount /\ heldCount = Cardinality(Held)
        /\ HeldInPlace /\ HolesCounted
        /\ \A k \in Held : /\ SlotOf(holdback[k].seq) = k
                           /\ n < holdback[k].seq /\ holdback[k].seq < n + Window
        /\ \A k \in Slots : holdback[k].seq \in Nat
    <2>1. \A k \in Slots : holdback[k].seq \in Nat
      BY Zenon DEF TypeOK, Packet
    <2> QED
      BY <2>1, Zenon DEF RecvInv, RecvAccounting, Held, HeldInPlace
  <1>6. Len(handed') - polled' = lane + (last - n) + 1
    <2>1. Run(p, last) \in Seq(Nat) /\ Len(Run(p, last)) = last - n + 1
      BY <1>1, <1>3, RunType, Zenon
    <2>2. Len(handed') = Len(handed) + Len(Run(p, last))
      BY <1>1, <1>2, <2>1, Joining, Zenon
    <2> QED
      BY <1>1, <1>3, <2>1, <2>2, LenOf DEF TypeOK
  <1> HIDE DEF n, lane
  <1> DEFINE R == {k \in Held : holdback[k].seq \in n + 1 .. last}
  <1>7. IsFiniteSet(Held) /\ Cardinality(Held) \in Nat /\ Cardinality(R) = last - n
    <2>1. n + 1 \in Nat /\ n + 1 # 0 /\ last >= (n + 1) - 1 /\ last - (n + 1) + 1 = last - n
      BY <1>1, <1>3
    <2>2. Cardinality(R) = last - (n + 1) + 1
      BY <1>3, <1>4, <1>5, <2>1, HeldInterval, Zenon
    <2>3. IsFiniteSet(Held) /\ Cardinality(Held) \in Nat
      BY SlotCount, SlotsFinite DEF Held
    <2> QED
      BY <2>1, <2>2, <2>3
  <1>8. Held' = Held \ R /\ R \subseteq Held
    BY <1>2, Zenon DEF Held, NotHeld
  <1>9. heldCount' = Cardinality(Held')
    <2>1. Cardinality(Held \ R) = Cardinality(Held) - Cardinality(Held \cap R)
      BY <1>7, FS_Difference, Zenon
    <2>2. Held \cap R = R
      BY <1>8
    <2> QED
      BY <1>1, <1>2, <1>3, <1>5, <1>7, <1>8, <2>1, <2>2, Zenon
  <1>10. RecvAccounting'
    <2>1. occupancy' = (Len(handed') - polled') + heldCount'
      BY <1>1, <1>2, <1>3, <1>5, <1>6
    <2>2. occupancy' <= RecvSlots
      BY <1>1, <1>3
    <2> QED
      BY <1>9, <2>1, <2>2 DEF RecvAccounting, Held
  <1>11. holdback[SlotOf(last + 1)].seq # last + 1
    <2> SUFFICES ASSUME holdback[SlotOf(last + 1)].seq = last + 1 PROVE FALSE
      OBVIOUS
    <2> DEFINE T == {k \in Held : holdback[k].seq \in n + 1 .. last + 1}
    <2>1. \A s \in n + 1 .. last + 1 : holdback[SlotOf(s)].seq = s
      <3>1. \A s \in n + 1 .. last + 1 : s = last + 1 \/ s \in n + 1 .. last
        BY <1>1, <1>3
      <3> QED
        BY <1>4, <3>1
    <2>2. /\ n + 1 \in Nat /\ last + 1 \in Nat /\ n + 1 # 0 /\ last + 1 >= (n + 1) - 1
          /\ (last + 1) - (n + 1) + 1 = last - n + 1
      BY <1>1, <1>3
    <2>3. Cardinality(T) = (last + 1) - (n + 1) + 1
      BY <1>5, <2>1, <2>2, HeldInterval
    <2>4. Cardinality(T) <= Cardinality(Held)
      BY <1>7, FS_Subset
    <2> QED
      BY <1>1, <1>3, <1>4, <1>5, <1>7, <2>2, <2>3, <2>4
  <1>12. \A k \in Held' : /\ holdback'[k] = holdback[k] /\ k \in Held
                          /\ holdback[k].seq > last + 1
    <2> SUFFICES ASSUME NEW k \in Held'
                 PROVE  holdback'[k] = holdback[k] /\ k \in Held /\ holdback[k].seq > last + 1
      OBVIOUS
    <2>1. k \in Held /\ k \in Slots /\ holdback[k].seq \notin n + 1 .. last
      BY <1>8 DEF Held
    <2>2. holdback'[k] = holdback[k]
      BY <1>2, <2>1
    <2>3. holdback[k].seq \in Nat /\ n < holdback[k].seq /\ SlotOf(holdback[k].seq) = k
      BY <1>5, <2>1
    <2>4. holdback[k].seq # last + 1
      BY <1>11, <2>3
    <2> QED
      BY <1>1, <1>3, <2>1, <2>2, <2>3, <2>4
  <1>13. HeldInPlace'
    <2>1. \A k \in Held' : holdback'[k].seq \in Nat /\ SlotOf(holdback'[k].seq) = k
                           /\ holdback'[k].seq < n + Window /\ holdback'[k].seq > last + 1
      BY <1>5, <1>12 DEF Held
    <2>2. \A k \in Held' : holdback'[k].seq < (last + 1) + Window
      <3> TAKE k \in Held'
      <3>1. holdback'[k].seq \in Nat /\ holdback'[k].seq < n + Window
        BY <2>1
      <3> HIDE DEF n
      <3> QED
        BY <1>1, <1>3, <3>1, WindowAssumption
    <2>3. \A k \in Held' : last + 1 < holdback'[k].seq
      BY <1>3, <2>1
    <2> QED
      BY <1>2, <2>1, <2>2, <2>3 DEF HeldInPlace, IsOrdered
  <1>14. HolesCounted'
    <2> SUFFICES ASSUME Grant # 0
                 PROVE  /\ occupancy' <= Grant + Window - 1
                        /\ Held' # {} =>
                             \E top \in 0 .. recvNext' + Window :
                               /\ \A k \in Held' : holdback'[k].seq <= top
                               /\ occupancy' + (top - recvNext') + 1 - heldCount' <= Grant + Window - 1
      BY DEF HolesCounted
    <2>0. Grant \in Nat /\ Window \in Nat \ {0} /\ heldCount \in Nat /\ n \in Nat
      BY <1>1, <1>5, <1>7, LimitsAssumption, WindowAssumption
    <2>1. CASE Held = {}
      <3>1. heldCount = 0
        BY <1>5, <2>1, FS_EmptySet
      <3>2. occupancy < Grant
        BY <3>1 DEF DeliverAtCursor, HasRoomFor
      <3> QED
        BY <1>1, <1>3, <1>8, <2>0, <2>1, <3>2
    <2>2. CASE Held # {}
      <3>0. PICK top \in 0 .. recvNext + Window :
              /\ \A k \in Held : holdback[k].seq <= top
              /\ occupancy + (top - recvNext) + 1 - heldCount <= Grant + Window - 1
        BY <2>2, Zenon DEF RecvInv, HolesCounted
      <3>1. /\ top \in Nat /\ top \in 0 .. recvNext' + Window
            /\ \A k \in Held : holdback[k].seq <= top
            /\ occupancy + (top - n) + 1 - heldCount <= Grant + Window - 1
        <4>1. recvNext' = last + 1 /\ last \in Nat /\ last >= recvNext /\ recvNext \in Nat
          BY <1>1, <1>2, <1>3 DEF n
        <4>2. top \in Nat /\ top <= recvNext + Window
          BY <2>0, <3>0, <4>1
        <4>3. top \in 0 .. recvNext' + Window
          BY <2>0, <4>1, <4>2
        <4> QED
          BY <3>0, <4>2, <4>3 DEF n
      <3>2. occupancy' + (top - recvNext') + 1 - heldCount' <= Grant + Window - 1
        BY <1>1, <1>2, <1>3, <2>0, <3>1
      <3>3. \A k \in Held' : holdback'[k].seq <= top
        BY <1>12, <3>1
      <3>4. CASE Held' = {}
        <4>1. heldCount' = 0
          BY <1>9, <3>4, FS_EmptySet
        <4>2. heldCount # 0
          BY <1>5, <1>7, <2>2, FS_EmptySet
        <4>3. last > n
          BY <1>1, <1>2, <1>3, <4>1, <4>2
        <4>4. last \in n + 1 .. last /\ last # 0 /\ SlotOf(last) \in Slots
          BY <1>1, <1>3, <4>3, SlotOfType
        <4>5. SlotOf(last) \in Held /\ holdback[SlotOf(last)].seq = last
          BY <1>4, <4>4 DEF Held
        <4>6. last <= top
          BY <3>1, <4>5
        <4> QED
          <5>0. heldCount' = heldCount - (last - n)
            BY <1>2
          <5>1. heldCount = last - n /\ occupancy' = occupancy + 1 /\ occupancy \in Int
            BY <1>1, <1>3, <4>1, <5>0
          <5>2. occupancy + 1 <= Grant + Window - 1
            <6>1. occupancy + (top - n) + 1 - (last - n) <= Grant + Window - 1 /\ top \in Nat
              BY <3>1, <5>1
            <6> QED
              BY <1>3, <2>0, <4>6, <5>1, <6>1
          <5> QED
            BY <3>4, <5>1, <5>2
      <3>5. CASE Held' # {}
        <4>1. PICK k \in Held' : TRUE
          BY <3>5
        <4>2. holdback[k].seq > last + 1 /\ holdback[k].seq <= top /\ holdback[k].seq \in Nat
          BY <1>5, <1>12, <3>1, <4>1 DEF Held
        <4>3. last + 1 <= top /\ last + 1 \in Nat
          BY <1>3, <4>2
        <4>4. \A j \in Slots : holdback'[j].seq # 0 =>
                 SlotOf(holdback'[j].seq) = j /\ last + 1 < holdback'[j].seq
                 /\ holdback'[j].seq <= top
          BY <1>2, <1>13, <3>3 DEF HeldInPlace, Held
        <4>5. holdback' \in [Slots -> Packet]
          BY DEF TypeOK
        <4>6. heldCount' <= top - (last + 1)
          BY <1>9, <4>3, <4>4, <4>5, HeldBelow DEF Held
        <4>7. occupancy' \in Int /\ heldCount' \in Int
          BY DEF TypeOK
        <4>8. occupancy' <= Grant + Window - 1
          BY <1>2, <1>3, <2>0, <3>2, <4>6, <4>7
        <4> QED
          BY <3>1, <3>2, <3>3, <4>8, Zenon
      <3> QED
        BY <3>4, <3>5
    <2> QED
      BY <2>1, <2>2
  <1> QED
    BY <1>10, <1>13, <1>14 DEF RecvInv

\* Every step keeps the receiver's counters exact and its share bounded.
LEMMA RecvStep ==
  ASSUME TypeOK, TypeOK', RecvInv, [Next]_vars
  PROVE  RecvInv'
  <1>1. CASE UNCHANGED <<recvNext, holdback, heldCount, occupancy, handed, polled>>
    <2>1. /\ recvNext' = recvNext /\ holdback' = holdback /\ heldCount' = heldCount
          /\ occupancy' = occupancy /\ handed' = handed /\ polled' = polled
      BY <1>1
    <2> QED
      BY <2>1, Zenon DEF RecvInv, RecvAccounting, HeldInPlace, HolesCounted, Held, IsOrdered
  <1>2. ASSUME NEW p \in data, DeliverIn(p) PROVE RecvInv'
    <2>0. occupancy < RecvSlots
      BY <1>2 DEF DeliverIn
    <2>1. CASE AckOnly
      BY <1>1, <2>1 DEF AckOnly
    <2>2. CASE IsOrdered /\ DeliverAtCursor(p)
      BY <2>0, <2>2, DrainCounts
    <2>3. CASE IsOrdered /\ HoldAhead(p)
      BY <2>0, <2>3, HoldCounts
    <2>4. CASE ~IsOrdered /\ DeliverUnordered(p) /\ handed' # handed
      <3>1. /\ HasRoomFor /\ handed' = Append(handed, p.msg) /\ occupancy' = occupancy + 1
            /\ recvNext' = recvNext /\ holdback' = holdback /\ heldCount' = heldCount
            /\ polled' = polled
        BY <2>4 DEF DeliverUnordered, AckOnly
      <3>2. p.msg \in Nat /\ handed \in Seq(Nat) /\ occupancy \in Int /\ heldCount \in Int
            /\ Len(handed) \in Nat /\ polled \in Nat
        <4>1. p.msg \in Nat
          BY Zenon DEF TypeOK, Packet
        <4>2. handed \in Seq(Nat) /\ occupancy \in Int /\ heldCount \in Int
              /\ polled \in 0 .. Len(handed)
          BY DEF TypeOK
        <4>3. Len(handed) \in Nat
          BY <4>2, LenOf
        <4> QED
          BY <4>1, <4>2, <4>3
      <3>3. Len(handed') = Len(handed) + 1
        BY <3>1, <3>2, Appending
      <3>4. occupancy = (Len(handed) - polled) + heldCount
        BY DEF RecvInv, RecvAccounting
      <3>5. occupancy' = (Len(handed') - polled') + heldCount' /\ occupancy' <= RecvSlots
        BY <2>0, <3>1, <3>2, <3>3, <3>4, LimitsAssumption
      <3>6. RecvAccounting'
        BY <3>1, <3>5, Zenon DEF RecvInv, RecvAccounting
      <3>7. Held' = Held /\ Held = {} /\ HeldInPlace'
        BY <2>4, <3>1, Zenon DEF RecvInv, HeldInPlace, Held, IsOrdered
      <3>8. Grant # 0 => occupancy' <= Grant + Window - 1
        BY <3>1, <3>2, LimitsAssumption, WindowAssumption DEF HasRoomFor
      <3> QED
        BY <3>6, <3>7, <3>8, Zenon DEF RecvInv, HolesCounted
    <2>5. CASE ~IsOrdered /\ DeliverUnordered(p) /\ handed' = handed
      <3>1. UNCHANGED <<recvNext, holdback, heldCount, occupancy, handed, polled>>
        <4>1. p.msg \in Nat /\ handed \in Seq(Nat)
          BY Zenon DEF TypeOK, Packet
        <4>2. Append(handed, p.msg) # handed
          BY <4>1, Appending, LenOf
        <4> QED
          BY <2>5, <4>2, Zenon DEF DeliverUnordered, AckOnly
      <3> QED
        BY <1>1, <3>1
    <2> QED
      BY <1>2, <2>1, <2>2, <2>3, <2>4, <2>5, Zenon DEF DeliverIn, DeliverOrdered
  <1>3. CASE ReclaimJammedInFlows
    <2>1. /\ \A k \in Slots : holdback'[k].seq = 0
          /\ occupancy' = occupancy - heldCount /\ heldCount' = 0
          /\ handed' = handed /\ polled' = polled
      BY <1>3 DEF ReclaimJammedInFlows, NotHeld
    <2>2. Held' = {}
      BY <2>1, Zenon DEF Held
    <2>3. heldCount \in Nat /\ occupancy = (Len(handed) - polled) + heldCount
          /\ occupancy <= RecvSlots /\ occupancy \in Int
      BY SlotCount, Zenon DEF RecvInv, RecvAccounting, TypeOK
    <2>4. RecvAccounting'
      <3>1. heldCount' = Cardinality(Held')
        BY <2>1, <2>2, FS_EmptySet
      <3>2. occupancy' = (Len(handed') - polled') + heldCount' /\ occupancy' <= RecvSlots
        BY <2>1, <2>3, LimitsAssumption, LenOf DEF TypeOK
      <3> QED
        BY <3>1, <3>2 DEF RecvAccounting, Held
    <2>5. HeldInPlace'
      BY <2>2, Zenon DEF HeldInPlace
    <2>6. HolesCounted'
      BY <2>1, <2>2, <2>3, LimitsAssumption, WindowAssumption DEF RecvInv, HolesCounted
    <2> QED
      BY <2>4, <2>5, <2>6 DEF RecvInv
  <1>4. CASE Poll
    <2>1. /\ polled' = polled + 1 /\ occupancy' = occupancy - 1
          /\ recvNext' = recvNext /\ holdback' = holdback /\ heldCount' = heldCount
          /\ handed' = handed
      BY <1>4 DEF Poll
    <2>2. /\ occupancy = (Len(handed) - polled) + heldCount /\ occupancy <= RecvSlots
          /\ occupancy \in Int /\ polled \in Nat /\ Len(handed) \in Nat /\ heldCount \in Int
      BY LenOf DEF RecvInv, RecvAccounting, TypeOK
    <2>3. RecvAccounting'
      <3>1. occupancy' = (Len(handed') - polled') + heldCount' /\ occupancy' <= RecvSlots
        BY <2>1, <2>2, LimitsAssumption
      <3> QED
        BY <2>1, <3>1, Zenon DEF RecvInv, RecvAccounting
    <2>4. HeldInPlace' /\ Held' = Held
      BY <2>1, Zenon DEF RecvInv, HeldInPlace, Held, IsOrdered
    <2>5. HolesCounted'
      <3> SUFFICES ASSUME Grant # 0
                   PROVE  /\ occupancy' <= Grant + Window - 1
                          /\ Held # {} =>
                               \E top \in 0 .. recvNext + Window :
                                 /\ \A k \in Held : holdback[k].seq <= top
                                 /\ occupancy' + (top - recvNext) + 1 - heldCount <= Grant + Window - 1
        BY <2>1, <2>4, Zenon DEF HolesCounted
      <3>1. occupancy' <= Grant + Window - 1
        BY <2>1, <2>2, LimitsAssumption, WindowAssumption DEF RecvInv, HolesCounted
      <3>2. ASSUME NEW top \in 0 .. recvNext + Window,
                   occupancy + (top - recvNext) + 1 - heldCount <= Grant + Window - 1
            PROVE  occupancy' + (top - recvNext) + 1 - heldCount <= Grant + Window - 1
        BY <2>1, <2>2, <3>2, LimitsAssumption, WindowAssumption DEF TypeOK
      <3> QED
        BY <3>1, <3>2, Zenon DEF RecvInv, HolesCounted
    <2> QED
      BY <2>3, <2>4, <2>5 DEF RecvInv
  <1>5. AdmitSent \/ AdmitQueued \/ CommitSession \/ ClaimWaiting \/ FailAssoc \/ FlushPeerAcks
          \/ UNCHANGED vars
          => UNCHANGED <<recvNext, holdback, heldCount, occupancy, handed, polled>>
    BY Zenon DEF AdmitSent, AdmitQueued, CommitSession, ClaimWaiting, FailAssoc, FlushPeerAcks,
       vars, inVars
  <1>6. \A q, r : ExpireInflight(q) \/ RetransmitInflight(q, r) \/ ApplyAckRanges(q, r)
                   \/ LosePacket(q) \/ LoseAck(q)
          => UNCHANGED <<recvNext, holdback, heldCount, occupancy, handed, polled>>
    BY Zenon DEF ExpireInflight, RetransmitInflight, ApplyAckRanges, LosePacket, LoseAck, inVars
  <1> QED
    BY <1>1, <1>2, <1>3, <1>4, <1>5, <1>6, Zenon DEF Next

\* The counters are exact in every mode.
LEMMA CountsInvariant == Spec => []CountsInv
  <1>1. Init => CountsInv
    <2> SUFFICES ASSUME Init PROVE CountsInv
      OBVIOUS
    <2>1. /\ \A k \in Slots : ring[k].seq = 0 /\ ring[k].acked = FALSE /\ holdback[k].seq = 0
          /\ Len(handed) = 0 /\ polled = 0 /\ heldCount = 0 /\ occupancy = 0
          /\ unresolved = 0 /\ outstanding = 0
      BY DEF Init, FreeEntry, NotHeld
    <2>2. InFlight = {} /\ Unacked = {} /\ Held = {}
      BY <2>1, Zenon DEF InFlight, Unacked, Held
    <2>3. Cardinality({}) = 0
      BY FS_EmptySet
    <2>4. SendAccounting /\ RingInPlace
      BY <2>1, <2>2, <2>3 DEF SendAccounting, RingInPlace
    <2>5. {k \in Slots : holdback[k].seq # 0} = {}
      BY <2>2 DEF Held
    <2>6. RecvAccounting
      BY <2>1, <2>3, <2>5, LimitsAssumption DEF RecvAccounting
    <2>7. HeldInPlace /\ HolesCounted
      BY <2>1, <2>2, LimitsAssumption, WindowAssumption DEF HeldInPlace, HolesCounted
    <2> QED
      BY <2>4, <2>6, <2>7 DEF CountsInv, RecvInv
  <1>2. TypeOK /\ TypeOK' /\ CountsInv /\ [Next]_vars => CountsInv'
    BY SendStep, RecvStep DEF CountsInv
  <1> QED
    BY <1>1, <1>2, TypeCorrect, PTL DEF Spec

-----------------------------------------------------------------------------
(* The invariant of a reliable unordered flow. *)

\* The window of the seen bitmap: where it starts, and that it only moves up.
LEMMA FloorFacts ==
  /\ \A h \in Nat : Floor(h) \in Nat \ {0} /\ Floor(h) + Window >= h + 1 /\ Floor(h) <= h + 1
  /\ \A h \in Nat : h >= Window => Floor(h) = h - Window + 1
  /\ \A h \in Nat : h < Window => Floor(h) = 1
  /\ \A h \in Nat \ {0} : Floor(h) <= h
  /\ \A g, h \in Nat : g <= h => Floor(g) <= Floor(h)
  BY WindowAssumption DEF Floor

\* Committing a sequence that was not seen adds it and forgets no other: a bit
\* is only cleared for a sequence that falls below the window (CommitSeen).
LEMMA CommitKeeps ==
  ASSUME TypeOK, NEW D \in SUBSET Nat, NEW q \in Nat \ {0}, BitmapOf(D),
         ~AlreadySeen(q), CommitSeen(q)
  PROVE  BitmapOf(D \cup {q})'
  <1> DEFINE h == recvHighest
             g == recvHighest'
             f == Floor(recvHighest)
             e == Floor(recvHighest')
  <1>1. h \in Nat /\ g \in Nat /\ g = (IF q > h THEN q ELSE h)
    BY DEF TypeOK, CommitSeen
  <1>2. h <= g /\ q <= g /\ (q > h => g = q) /\ (~(q > h) => g = h)
    BY <1>1
  <1>3. f \in Nat \ {0} /\ e \in Nat \ {0} /\ f <= e /\ f + Window >= h + 1 /\ e <= g + 1
    BY <1>1, <1>2, FloorFacts
  <1>4. \A k \in Slots : seen'[k] <=>
           k = SlotOf(q) \/ (seen[k] /\ ~(q > h /\ (q - h >= Window
                                            \/ \E s \in f .. Floor(q) - 1 : SlotOf(s) = k)))
    BY Zenon DEF CommitSeen
  <1>5. SlotOf(q) \in Slots
    BY SlotOfType
  <1>6. \A s \in D : s \in Nat /\ SlotOf(s) \in Slots
    BY SlotOfType
  <1>7. q >= e
    <2>1. CASE q > h
      <3>1. e = Floor(q) /\ Floor(q) <= q
        BY <1>2, <2>1, FloorFacts
      <3> QED
        BY <3>1
    <2>2. CASE ~(q > h)
      <3>1. q <= h /\ ~(q < f) /\ e = f
        BY <1>1, <1>2, <2>2 DEF AlreadySeen
      <3> QED
        BY <1>3, <3>1
    <2> QED
      BY <2>1, <2>2
  <1> HIDE DEF h, g, f, e
  <1>8. ASSUME NEW s \in D \cup {q} PROVE s <= g /\ (s < e \/ seen'[SlotOf(s)])
    <2>1. CASE s = q
      BY <1>2, <1>4, <1>5, <2>1
    <2>2. CASE s \in D
      <3>1. s \in Nat /\ s <= h /\ (s < f \/ seen[SlotOf(s)])
        BY <1>6, <2>2 DEF BitmapOf, AlreadySeen, h, f
      <3>2. s <= g
        BY <1>1, <1>2, <3>1
      <3>3. CASE s < e
        BY <3>2, <3>3
      <3>4. CASE s >= e
        <4>1. s >= f /\ seen[SlotOf(s)]
          BY <1>3, <3>1, <3>4
        <4>2. ASSUME q > h PROVE ~(q - h >= Window) /\ \A t \in f .. Floor(q) - 1 : SlotOf(t) # SlotOf(s)
          <5>1. e = Floor(q) /\ g = q
            BY <1>2, <4>2 DEF e, g
          <5>2. ~(q - h >= Window)
            <6>1. CASE q >= Window
              <7>1. e = q - Window + 1
                BY <5>1, <6>1, FloorFacts
              <7> QED
                BY <7>1, <1>1, <3>1, <3>4, WindowAssumption
            <6>2. CASE q < Window
              BY <6>2, <1>1, WindowAssumption
            <6> QED
              BY <6>1, <6>2, WindowAssumption
          <5>3. ASSUME NEW t \in f .. e - 1 PROVE SlotOf(t) # SlotOf(s)
            <6>1. t \in Nat /\ t < s /\ s < t + Window
              BY <1>1, <1>3, <3>1, <3>4, WindowAssumption
            <6> QED
              BY <3>1, <6>1, SlotsApart
          <5> QED
            BY <5>1, <5>2, <5>3
        <4>3. seen'[SlotOf(s)]
          BY <1>4, <1>6, <2>2, <4>1, <4>2
        <4> QED
          BY <3>2, <4>3
      <3> QED
        BY <1>3, <3>1, <3>3, <3>4
    <2> QED
      BY <2>1, <2>2
  <1>9. ASSUME NEW k \in Slots, seen'[k]
        PROVE  \E s \in e .. g : SlotOf(s) = k /\ s \in D \cup {q}
    <2>1. CASE k = SlotOf(q)
      BY <1>1, <1>2, <1>3, <1>7, <2>1
    <2>2. CASE k # SlotOf(q)
      <3>1. seen[k] /\ ~(q > h /\ (q - h >= Window \/ \E s \in f .. Floor(q) - 1 : SlotOf(s) = k))
        BY <1>4, <1>9, <2>2
      <3>2. PICK s \in f .. h : SlotOf(s) = k /\ s \in D
        BY <3>1 DEF BitmapOf, f, h
      <3>3. s \in Nat /\ s <= g /\ s >= f
        BY <1>1, <1>2, <1>3, <3>2
      <3>4. s >= e
        <4>1. CASE q > h
          <5>1. e = Floor(q)
            BY <1>2, <4>1 DEF e, g
          <5> QED
            BY <1>3, <3>1, <3>2, <3>3, <4>1, <5>1
        <4>2. CASE ~(q > h)
          <5>1. e = f
            BY <1>2, <4>2 DEF e, f, g, h
          <5> QED
            BY <3>3, <5>1
        <4> QED
          BY <4>1, <4>2
      <3> QED
        BY <1>1, <1>3, <3>2, <3>3, <3>4
    <2> QED
      BY <2>1, <2>2
  <1> QED
    BY <1>8, <1>9 DEF BitmapOf, AlreadySeen, e, g

\* A sequence of the window whose bit is set is in D: no other sequence of the
\* window has its slot.
LEMMA SetBitIsIn ==
  ASSUME TypeOK, NEW D, BitmapOf(D), NEW s \in Floor(recvHighest) .. recvHighest,
         seen[SlotOf(s)]
  PROVE  s \in D
  <1>1. /\ recvHighest \in Nat /\ Floor(recvHighest) \in Nat
        /\ Floor(recvHighest) + Window >= recvHighest + 1 /\ Window \in Nat
    BY FloorFacts, WindowAssumption DEF TypeOK
  <1>2. s \in Nat /\ SlotOf(s) \in Slots
    BY <1>1, SlotOfType
  <1>3. PICK t \in Floor(recvHighest) .. recvHighest : SlotOf(t) = SlotOf(s) /\ t \in D
    BY <1>2 DEF BitmapOf
  <1>4. t \in Nat /\ s < t + Window /\ t < s + Window
    BY <1>1, <1>2
  <1>5. ~(s < t) /\ ~(t < s)
    BY <1>2, <1>3, <1>4, SlotsApart
  <1> QED
    BY <1>2, <1>3, <1>4, <1>5

\* A step that leaves the receiving side alone leaves what it delivered alone.
LEMMA ReceiverStill ==
  ASSUME UNCHANGED inVars
  PROVE  /\ Delivered' = Delivered /\ handed' = handed /\ recvNext' = recvNext
         /\ recvHighest' = recvHighest /\ seen' = seen
         /\ (BitmapOf(Delivered) => BitmapOf(Delivered)')
  <1>1. handed' = handed /\ recvNext' = recvNext /\ recvHighest' = recvHighest /\ seen' = seen
    BY DEF inVars
  <1> QED
    BY <1>1 DEF Delivered, BitmapOf, AlreadySeen

\* Handing one more message over delivers it.
LEMMA OneMoreDelivered ==
  ASSUME TypeOK, NEW m \in Nat, handed' = Append(handed, m)
  PROVE  Delivered' = Delivered \cup {m}
  <1>1. /\ Len(handed') = Len(handed) + 1 /\ Len(handed) \in Nat
        /\ \A i \in 1 .. Len(handed) : handed'[i] = handed[i]
        /\ handed'[Len(handed) + 1] = m
    BY Appending, LenOf DEF TypeOK
  <1>2. \A i \in 1 .. Len(handed) + 1 : i \in 1 .. Len(handed) \/ i = Len(handed) + 1
    BY <1>1
  <1>3. Len(handed) + 1 \in 1 .. Len(handed) + 1 /\ 1 .. Len(handed) \subseteq 1 .. Len(handed) + 1
    BY <1>1
  <1> QED
    BY <1>1, <1>2, <1>3, Zenon DEF Delivered

\* A reliable flow stamps its messages in the order they were accepted: the next
\* sequence always goes to the next message (AdmitOut, ClaimWaiting).
LEMMA StampedInTurn ==
  ASSUME TypeOK, IsReliable, WaitingFollows, AdmitSent \/ ClaimWaiting
  PROVE  /\ WaitingFollows' /\ CanSend /\ UNCHANGED <<life, acks, inVars>> /\ life = "OPEN"
         /\ \E flying \in BOOLEAN : StampFlowPacket(nextSeq, flying)
  <1>0. nextSeq \in Nat \ {0} /\ accepted \in Nat /\ waiting \in Seq(Nat) /\ Len(waiting) \in Nat
        /\ sessionUp \in BOOLEAN
    BY LenOf DEF TypeOK
  <1>1. CASE AdmitSent
    <2>1. Len(waiting) = 0 /\ life = "OPEN" /\ CanSend
          /\ StampFlowPacket(accepted + 1, sessionUp) /\ accepted' = accepted + 1
          /\ nextSeq' = nextSeq + 1
          /\ waiting' = waiting /\ UNCHANGED <<life, acks, inVars>>
      BY <1>1 DEF AdmitSent, StampFlowPacket
    <2>2. accepted + 1 = nextSeq
      BY <1>0, <2>1 DEF WaitingFollows
    <2>3. WaitingFollows'
      BY <1>0, <2>1, <2>2 DEF WaitingFollows
    <2> QED
      BY <1>0, <2>1, <2>2, <2>3
  <1>2. CASE ClaimWaiting
    <2>1. /\ waiting # <<>> /\ life = "OPEN" /\ CanSend
          /\ StampFlowPacket(Head(waiting), TRUE) /\ waiting' = Tail(waiting)
          /\ nextSeq' = nextSeq + 1
          /\ accepted' = accepted /\ UNCHANGED <<life, acks, inVars>>
      BY <1>2, Zenon DEF ClaimWaiting, StampFlowPacket
    <2>2. Len(waiting) \in Nat \ {0}
      BY <1>0, <2>1, EmptyOf
    <2>3. Head(waiting) = nextSeq
      BY <1>0, <2>2 DEF WaitingFollows
    <2>4. /\ Len(waiting') = Len(waiting) - 1
          /\ \A i \in 1 .. Len(waiting) - 1 : waiting'[i] = waiting[i + 1]
      BY <1>0, <2>1, Beheading
    <2>5. WaitingFollows'
      BY <1>0, <2>1, <2>2, <2>4 DEF WaitingFollows
    <2> QED
      BY <2>1, <2>3, <2>5, Zenon
  <1> QED
    BY <1>1, <1>2

\* A message that has to wait queues behind the others (AdmitOut).
LEMMA QueuedInTurn ==
  ASSUME TypeOK, WaitingFollows, life = "OPEN", life' = "OPEN", nextSeq' = nextSeq,
         waiting' = Append(waiting, accepted + 1), accepted' = accepted + 1
  PROVE  WaitingFollows'
  <1>1. waiting \in Seq(Nat) /\ accepted \in Nat /\ Len(waiting) \in Nat /\ nextSeq \in Nat
    BY LenOf DEF TypeOK
  <1>2. /\ Len(waiting') = Len(waiting) + 1
        /\ \A i \in 1 .. Len(waiting) : waiting'[i] = waiting[i]
        /\ waiting'[Len(waiting) + 1] = accepted + 1
    BY <1>1, Appending
  <1>3. /\ accepted = nextSeq - 1 + Len(waiting)
        /\ \A i \in 1 .. Len(waiting) : waiting[i] = nextSeq - 1 + i
    BY DEF WaitingFollows
  <1>4. accepted + 1 >= nextSeq - 1 /\ accepted + 1 = nextSeq - 1 + (Len(waiting) + 1)
    BY <1>1, <1>3
  <1>5. \A i \in 1 .. Len(waiting) + 1 : i \in 1 .. Len(waiting) \/ i = Len(waiting) + 1
    BY <1>1
  <1>6. \A i \in 1 .. Len(waiting) + 1 : waiting'[i] = nextSeq - 1 + i
    BY <1>2, <1>3, <1>4, <1>5
  <1> QED
    BY <1>2, <1>4, <1>6 DEF WaitingFollows

\* Stamping evicts no copy the receiver still needs: a slot one window above an
\* undelivered sequence is not free (CanSend).
LEMMA StampKeepsUnordered ==
  ASSUME TypeOK, UnorderedInv, CanSend, life = "OPEN",
         NEW flying \in BOOLEAN, StampFlowPacket(nextSeq, flying),
         UNCHANGED <<life, acks, inVars>>
  PROVE  RingCarries' /\ PacketsCarry' /\ KeptOrDelivered' /\ AcksDelivered' /\ DeliveredOnce'
  <1>0. Numbers /\ nextSeq \in Nat \ {0} /\ recvHighest \in Nat
    BY TypesAreNumbers DEF Numbers, TypeOK
  <1>1. /\ nextSeq' = nextSeq + 1
        /\ \A k \in Slots : k # SlotOf(nextSeq) => ring'[k] = ring[k]
        /\ ring'[SlotOf(nextSeq)].seq = nextSeq
        /\ ring'[SlotOf(nextSeq)].msg = nextSeq
        /\ SlotOf(nextSeq) \in Slots
        /\ ring[SlotOf(nextSeq)].seq = 0
    BY <1>0, SlotOfType DEF TypeOK, StampFlowPacket, CanSend, InFlightEntry
  <1>2. \A p \in data' : p \in data \/ (p.seq = nextSeq /\ p.msg = nextSeq)
    BY DEF StampFlowPacket
  <1>3. RingCarries'
    BY <1>0, <1>1 DEF UnorderedInv, RingCarries, InFlight, CarriesItsMessage, Numbers
  <1>4. PacketsCarry'
    BY <1>0, <1>1, <1>2 DEF UnorderedInv, PacketsCarry, CarriesItsMessage, Numbers
  <1>5. /\ Delivered' = Delivered /\ handed' = handed /\ recvNext' = recvNext
        /\ recvHighest' = recvHighest /\ acks' = acks /\ life' = life
        /\ BitmapOf(Delivered)'
    BY ReceiverStill, Zenon DEF UnorderedInv, DeliveredOnce
  <1>6. KeptOrDelivered'
    <2> SUFFICES ASSUME NEW s \in 1 .. nextSeq
                 PROVE  s \in Delivered
                        \/ (ring'[SlotOf(s)].seq = s /\ nextSeq + 1 <= s + Window)
      BY <1>0, <1>1, <1>5 DEF KeptOrDelivered
    <2>1. CASE s = nextSeq
      BY <1>0, <1>1, <2>1, WindowAssumption
    <2>2. CASE s # nextSeq /\ s \notin Delivered
      <3>1. s \in 1 .. nextSeq - 1 /\ s \in Nat /\ s # 0
        BY <1>0, <2>2
      <3>2. ring[SlotOf(s)].seq = s /\ nextSeq <= s + Window
        BY <2>2, <3>1 DEF UnorderedInv, KeptOrDelivered
      <3>3. SlotOf(s) \in Slots /\ SlotOf(s) # SlotOf(nextSeq)
        BY <1>1, <3>1, <3>2, SlotOfType
      <3>4. nextSeq # s + Window
        BY <3>1, <3>3, SlotShift
      <3> QED
        BY <1>0, <1>1, <3>1, <3>2, <3>3, <3>4, WindowAssumption
    <2> QED
      BY <2>1, <2>2
  <1>7. AcksDelivered'
    BY <1>5 DEF UnorderedInv, AcksDelivered
  <1>8. DeliveredOnce'
    <2>1. recvHighest < nextSeq + 1 /\ \A s \in Delivered : s \in 1 .. (nextSeq + 1) - 1
      BY <1>0 DEF UnorderedInv, DeliveredOnce
    <2> QED
      BY <1>1, <1>5, <2>1, Zenon DEF UnorderedInv, DeliveredOnce
  <1> QED
    BY <1>3, <1>4, <1>6, <1>7, <1>8

\* Delivering an arrival that was not seen delivers a message that was not
\* delivered, and marks it (DeliverUnordered).
LEMMA UnorderedDelivery ==
  ASSUME TypeOK, TypeOK', UnorderedInv, NEW p \in data, ~AlreadySeen(p.seq),
         CommitSeen(p.seq), handed' = Append(handed, p.msg), UNCHANGED nextSeq
  PROVE  DeliveredOnce' /\ Delivered \subseteq Delivered' /\ p.msg \notin Delivered
  <1>1. Numbers /\ p.msg = p.seq /\ p.seq < nextSeq /\ p.seq \in Nat \ {0} /\ recvHighest \in Nat
    BY TypesAreNumbers, Zenon DEF UnorderedInv, PacketsCarry, CarriesItsMessage, Numbers, TypeOK
  <1>2. Delivered' = Delivered \cup {p.seq}
    BY <1>1, OneMoreDelivered
  <1>3. Delivered \in SUBSET Nat /\ BitmapOf(Delivered) /\ recvHighest < nextSeq
        /\ \A s \in Delivered : s \in 1 .. nextSeq - 1
    BY DEF UnorderedInv, DeliveredOnce
  <1>4. BitmapOf(Delivered)'
    <2>1. PICK D \in SUBSET Nat : D = Delivered
      BY <1>3
    <2>2. BitmapOf(D)
      BY <1>3, <2>1
    <2>3. BitmapOf(D \cup {p.seq})'
      BY <1>1, <2>2, CommitKeeps
    <2>4. Delivered' = D \cup {p.seq}
      BY <1>2, <2>1
    <2> QED
      BY <2>3, <2>4 DEF BitmapOf
  <1>5. p.seq \notin Delivered
    BY <1>3, Zenon DEF BitmapOf
  <1>6. recvHighest' < nextSeq
    BY <1>1, <1>3 DEF CommitSeen
  <1>7. \A s \in Delivered' : s \in 1 .. nextSeq - 1
    <2>1. nextSeq \in Nat
      BY <1>1 DEF Numbers
    <2>2. p.seq \in 1 .. nextSeq - 1
      BY <1>1, <2>1
    <2> QED
      BY <1>2, <1>3, <2>2, Zenon
  <1>8. /\ Len(handed') = Len(handed) + 1 /\ Len(handed) \in Nat
        /\ \A i \in 1 .. Len(handed) : handed'[i] = handed[i] /\ handed[i] \in Delivered
        /\ handed'[Len(handed) + 1] = p.seq
    <2>1. handed \in Seq(Nat) /\ Len(handed) \in Nat /\ handed' = Append(handed, p.seq)
      BY <1>1, LenOf DEF TypeOK
    <2>2. /\ Len(handed') = Len(handed) + 1
          /\ \A i \in 1 .. Len(handed) : handed'[i] = handed[i]
          /\ handed'[Len(handed) + 1] = p.seq
      <3>1. p.seq \in Nat
        BY <1>1
      <3>2. /\ Len(Append(handed, p.seq)) = Len(handed) + 1
            /\ \A i \in 1 .. Len(handed) : Append(handed, p.seq)[i] = handed[i]
            /\ Append(handed, p.seq)[Len(handed) + 1] = p.seq
        BY <2>1, <3>1, Appending, Zenon
      <3> QED
        BY <2>1, <3>2, Zenon
    <2> QED
      BY <2>1, <2>2, Zenon DEF Delivered
  <1>9. \A i, j \in 1 .. Len(handed') : handed'[i] = handed'[j] => i = j
    <2>1. \A i \in 1 .. Len(handed') : i \in 1 .. Len(handed) \/ i = Len(handed) + 1
      BY <1>8
    <2>2. \A i, j \in 1 .. Len(handed) : handed[i] = handed[j] => i = j
      BY DEF UnorderedInv, DeliveredOnce
    <2>3. ASSUME NEW i \in 1 .. Len(handed) PROVE handed'[i] = handed[i] /\ handed[i] # handed'[Len(handed) + 1]
      BY <1>5, <1>8, Zenon
    <2> SUFFICES ASSUME NEW i \in 1 .. Len(handed'), NEW j \in 1 .. Len(handed'), handed'[i] = handed'[j]
                 PROVE  i = j
      OBVIOUS
    <2>4. CASE i \in 1 .. Len(handed) /\ j \in 1 .. Len(handed)
      BY <2>2, <2>3, <2>4, Zenon
    <2>5. CASE i = Len(handed) + 1 \/ j = Len(handed) + 1
      BY <2>1, <2>3, <2>5
    <2> QED
      BY <2>1, <2>4, <2>5, Zenon
  <1> QED
    BY <1>1, <1>2, <1>4, <1>5, <1>6, <1>7, <1>9, Zenon DEF DeliveredOnce

\* UnorderedInv is inductive.
LEMMA UnorderedStep ==
  ASSUME TypeOK, TypeOK', IsReliable, ~IsOrdered, UnorderedInv, [Next]_vars
  PROVE  UnorderedInv'
  <1>1. Numbers /\ ackBase \in Nat \ {0}
    <2>1. nextSeq \in Nat /\ ackBase \in 1 .. nextSeq
      BY DEF TypeOK
    <2> QED
      BY <2>1, TypesAreNumbers
  <1>2. /\ WaitingFollows /\ RingCarries /\ PacketsCarry
        /\ KeptOrDelivered /\ AcksDelivered /\ DeliveredOnce
    BY DEF UnorderedInv
  <1>3. CASE AdmitSent \/ ClaimWaiting
    <2>1. /\ WaitingFollows' /\ CanSend /\ UNCHANGED <<life, acks, inVars>> /\ life = "OPEN"
          /\ \E flying \in BOOLEAN : StampFlowPacket(nextSeq, flying)
      BY <1>2, <1>3, StampedInTurn
    <2>2. PICK flying \in BOOLEAN : StampFlowPacket(nextSeq, flying)
      BY <2>1
    <2>3. RingCarries' /\ PacketsCarry' /\ KeptOrDelivered' /\ AcksDelivered' /\ DeliveredOnce'
      BY <2>1, <2>2, StampKeepsUnordered
    <2> QED
      BY <2>1, <2>3 DEF UnorderedInv
  <1>4. CASE UNCHANGED inVars /\ UNCHANGED <<life, nextSeq, acks>>
             /\ WaitingFollows' /\ RingCarries' /\ PacketsCarry'
             /\ \A k \in Slots : \/ ring'[k].seq = ring[k].seq
                                 \/ ring[k].seq \in Delivered
    <2>1. /\ Delivered' = Delivered /\ handed' = handed /\ recvNext' = recvNext
          /\ recvHighest' = recvHighest /\ acks' = acks /\ life' = life /\ nextSeq' = nextSeq
          /\ BitmapOf(Delivered)'
      BY <1>2, <1>4, ReceiverStill, Zenon DEF DeliveredOnce
    <2>2. KeptOrDelivered'
      <3>1. \A s \in 1 .. nextSeq - 1 : SlotOf(s) \in Slots
        BY <1>1, SlotOfType DEF Numbers
      <3> QED
        BY <1>2, <1>4, <2>1, <3>1, Zenon DEF KeptOrDelivered
    <2>3. AcksDelivered' /\ DeliveredOnce'
      BY <1>2, <2>1, Zenon DEF AcksDelivered, DeliveredOnce
    <2> QED
      BY <1>4, <2>2, <2>3 DEF UnorderedInv
  <1>5. CASE AdmitQueued
    <2>1. /\ waiting' = Append(waiting, accepted + 1) /\ accepted' = accepted + 1
          /\ life = "OPEN" /\ life' = "OPEN" /\ ring' = ring /\ data' = data
          /\ UNCHANGED <<life, nextSeq, acks>> /\ UNCHANGED inVars
      BY <1>5 DEF AdmitQueued, IsReliable
    <2>4. WaitingFollows'
      BY <1>2, <2>1, QueuedInTurn DEF WaitingFollows
    <2>5. RingCarries' /\ PacketsCarry'
      BY <1>2, <2>1, Zenon DEF RingCarries, InFlight, PacketsCarry, CarriesItsMessage
    <2> QED
      BY <1>4, <2>1, <2>4, <2>5
  <1>6. ASSUME NEW due \in SUBSET InFlight, NEW sent \in SUBSET due,
               RetransmitInflight(due, sent)
        PROVE  UnorderedInv'
    <2>1. UNCHANGED <<life, accepted, waiting, nextSeq, acks>> /\ UNCHANGED inVars
      BY <1>6, Zenon DEF RetransmitInflight
    <2>2. \A k \in Slots : ring'[k].seq = ring[k].seq /\ ring'[k].msg = ring[k].msg
      BY <1>6, RestampedType, Zenon DEF RetransmitInflight, TypeOK
    <2>3. \A q \in data' : q \in data \/ \E k \in InFlight : q.seq = ring[k].seq /\ q.msg = ring[k].msg
      <3>1. data' = data \cup {[seq |-> ring[k].seq, msg |-> ring[k].msg] : k \in sent} /\ sent \subseteq InFlight
        BY <1>6, Zenon DEF RetransmitInflight
      <3> QED
        BY <3>1
    <2>4. PacketsCarry'
      BY <1>2, <2>1, <2>3, Zenon DEF PacketsCarry, RingCarries, CarriesItsMessage, InFlight
    <2>5. RingCarries'
      BY <1>2, <2>1, <2>2 DEF RingCarries, CarriesItsMessage, InFlight
    <2>6. WaitingFollows'
      BY <1>2, <2>1 DEF WaitingFollows
    <2> QED
      BY <1>4, <2>1, <2>2, <2>4, <2>5, <2>6, Zenon
  <1>7. CASE FailAssoc
    <2>1. /\ life' = "FAILED" /\ waiting' = <<>> /\ ring' = [k \in Slots |-> FreeEntry]
          /\ UNCHANGED <<accepted, nextSeq, data, acks>> /\ UNCHANGED inVars
      BY <1>7 DEF FailAssoc
    <2>2. RingCarries' /\ KeptOrDelivered'
      BY <2>1 DEF RingCarries, InFlight, FreeEntry, KeptOrDelivered
    <2>3. WaitingFollows'
      BY <1>2, <2>1 DEF WaitingFollows
    <2>4. PacketsCarry'
      BY <1>2, <2>1 DEF PacketsCarry, CarriesItsMessage
    <2>5. /\ Delivered' = Delivered /\ handed' = handed /\ recvNext' = recvNext
          /\ recvHighest' = recvHighest /\ BitmapOf(Delivered)'
      BY <1>2, <2>1, ReceiverStill, Zenon DEF DeliveredOnce
    <2>6. AcksDelivered' /\ DeliveredOnce'
      BY <1>2, <2>1, <2>5, Zenon DEF AcksDelivered, DeliveredOnce
    <2> QED
      BY <2>2, <2>3, <2>4, <2>6 DEF UnorderedInv
  <1>8. ASSUME NEW a \in acks, NEW overdue \in SUBSET Unacked, ApplyAckRanges(a, overdue)
        PROVE  UnorderedInv'
    <2> DEFINE J == Judged(a, overdue)
    <2>1. /\ UNCHANGED <<life, accepted, waiting, nextSeq, data, acks>> /\ UNCHANGED inVars
      BY <1>8, Zenon DEF ApplyAckRanges
    <2>2. \A k \in Slots : \/ k \in Named(a) /\ J[k] = FreeEntry
                           \/ k \notin Named(a) /\ J[k].seq = ring[k].seq /\ J[k].msg = ring[k].msg
      <3>1. \A k \in Slots : /\ ResolveOutEntry(ring[k]) = FreeEntry
                             /\ DeclareLost(ring[k]).seq = ring[k].seq
                             /\ DeclareLost(ring[k]).msg = ring[k].msg
        BY DEF TypeOK, InFlightEntry, DeclareLost, ResolveOutEntry
      <3> TAKE k \in Slots
      <3>2. CASE k \in Named(a)
        <4>1. J[k] = ResolveOutEntry(ring[k])
          BY <3>2 DEF Judged
        <4> QED
          BY <3>1, <3>2, <4>1, Zenon
      <3>3. CASE k \notin Named(a)
        BY <3>1, <3>3 DEF Judged
      <3> QED
        BY <3>2, <3>3, Zenon
    <2> HIDE DEF J
    <2>3. PICK base \in ackBase .. nextSeq :
            /\ \A s \in ackBase .. base - 1 : s < a.recvNext
            /\ \A k \in Slots : ring'[k] = IF J[k].seq \in ackBase .. base - 1
                                          THEN FreeEntry ELSE J[k]
      BY <1>8, Zenon DEF ApplyAckRanges, RunReleased, J
    <2>4. a.recvNext = 1 /\ a.ranges \subseteq Delivered
      BY <1>2 DEF AcksDelivered
    <2>5. ackBase .. base - 1 = {}
      <3>1. ackBase \in Nat \ {0} /\ base \in Int
        BY <1>1, <2>3
      <3>2. ASSUME NEW s \in ackBase .. base - 1 PROVE FALSE
        <4>1. s < 1
          BY <2>3, <2>4, <3>2
        <4> QED
          BY <3>1, <4>1
      <3> QED
        BY <3>2, Zenon
    <2>6. \A k \in Slots : ring'[k] = J[k]
      BY <2>3, <2>5, Zenon
    <2>7. FreeEntry.seq = 0
      BY DEF FreeEntry
    <2>8. \A k \in Slots : k \in Named(a) => ring[k].seq \in Delivered
      BY <1>1, <2>4 DEF Named, InFlight, Numbers
    <2>9. \A k \in Slots : \/ ring'[k].seq = ring[k].seq /\ ring'[k].msg = ring[k].msg
                           \/ ring'[k].seq = 0 /\ ring[k].seq \in Delivered
      <3> TAKE k \in Slots
      <3>1. ring'[k] = J[k]
        BY <2>6
      <3>2. CASE k \in Named(a) /\ J[k] = FreeEntry
        BY <2>7, <2>8, <3>1, <3>2, Zenon
      <3>3. CASE J[k].seq = ring[k].seq /\ J[k].msg = ring[k].msg
        BY <3>1, <3>3
      <3> QED
        BY <2>2, <3>2, <3>3, Zenon
    <2>10. RingCarries'
      BY <1>2, <2>1, <2>9, Zenon DEF RingCarries, CarriesItsMessage, InFlight
    <2>11. PacketsCarry' /\ WaitingFollows'
      BY <1>2, <2>1 DEF PacketsCarry, CarriesItsMessage, WaitingFollows
    <2> QED
      BY <1>4, <2>1, <2>9, <2>10, <2>11
  <1>12. CASE /\ UNCHANGED <<life, accepted, waiting, nextSeq, ring, recvNext, recvHighest, seen, handed>>
              /\ data' \subseteq data /\ acks' \subseteq acks
    <2>1. Delivered' = Delivered /\ BitmapOf(Delivered)'
      BY <1>2, <1>12 DEF Delivered, DeliveredOnce, BitmapOf, AlreadySeen
    <2>2. RingCarries' /\ PacketsCarry' /\ WaitingFollows'
      BY <1>2, <1>12 DEF RingCarries, PacketsCarry, CarriesItsMessage, InFlight, WaitingFollows
    <2>3. KeptOrDelivered' /\ AcksDelivered' /\ DeliveredOnce'
      BY <1>2, <1>12, <2>1, Zenon DEF KeptOrDelivered, AcksDelivered, DeliveredOnce
    <2> QED
      BY <2>2, <2>3 DEF UnorderedInv
  <1>9. ASSUME NEW p \in data, DeliverIn(p) PROVE UnorderedInv'
    <2>1. UNCHANGED <<life, accepted, waiting, nextSeq, ring, data, acks>> /\ DeliverUnordered(p)
      BY <1>9 DEF DeliverIn, outVars
    <2>2. RingCarries' /\ PacketsCarry' /\ WaitingFollows'
      BY <1>2, <2>1, Zenon DEF RingCarries, PacketsCarry, CarriesItsMessage, InFlight, WaitingFollows
    <2>3. CASE AckOnly
      BY <1>12, <2>1, <2>3 DEF AckOnly
    <2>4. CASE ~AckOnly
      <3>1. /\ ~AlreadySeen(p.seq) /\ CommitSeen(p.seq) /\ handed' = Append(handed, p.msg)
            /\ recvNext' = recvNext
        BY <2>1, <2>4 DEF DeliverUnordered, Stale
      <3>2. DeliveredOnce' /\ Delivered \subseteq Delivered'
        BY <2>1, <3>1, UnorderedDelivery
      <3>3. KeptOrDelivered' /\ AcksDelivered'
        BY <1>2, <2>1, <3>1, <3>2, Zenon DEF KeptOrDelivered, AcksDelivered
      <3> QED
        BY <2>2, <3>2, <3>3 DEF UnorderedInv
    <2> QED
      BY <2>3, <2>4
  <1>10. CASE FlushPeerAcks
    <2>1. /\ UNCHANGED <<life, accepted, waiting, nextSeq, ring, data, recvNext, recvHighest, seen, handed>>
          /\ \A a \in acks' : a \in acks \/ a = FreshAck
      BY <1>10, Zenon DEF FlushPeerAcks, outVars
    <2>2. Delivered' = Delivered /\ BitmapOf(Delivered)'
      BY <1>2, <2>1 DEF Delivered, DeliveredOnce, BitmapOf, AlreadySeen
    <2>3. AckRanges \subseteq Delivered
      <3>1. BitmapOf(Delivered)
        BY <1>2 DEF DeliveredOnce
      <3>2. \A s \in AckRanges : s \in Floor(recvHighest) .. recvHighest /\ seen[SlotOf(s)]
        BY Zenon DEF AckRanges
      <3> QED
        BY <3>1, <3>2, SetBitIsIn
    <2>4. FreshAck.recvNext = 1 /\ FreshAck.ranges \subseteq Delivered
      BY <1>2, <2>3 DEF FreshAck, AcksDelivered
    <2>5. AcksDelivered'
      BY <1>2, <2>1, <2>2, <2>4 DEF AcksDelivered
    <2>6. RingCarries' /\ PacketsCarry' /\ WaitingFollows'
      BY <1>2, <2>1 DEF RingCarries, PacketsCarry, CarriesItsMessage, InFlight, WaitingFollows
    <2>7. KeptOrDelivered' /\ DeliveredOnce'
      BY <1>2, <2>1, <2>2, Zenon DEF KeptOrDelivered, DeliveredOnce
    <2> QED
      BY <2>5, <2>6, <2>7 DEF UnorderedInv
  <1>11. ~ReclaimJammedInFlows
    BY Zenon DEF ReclaimJammedInFlows
  <1>13. ASSUME NEW p \in data, LosePacket(p) PROVE UnorderedInv'
    BY <1>12, <1>13 DEF LosePacket, outVars, inVars
  <1>14. ASSUME NEW a \in acks, LoseAck(a) PROVE UnorderedInv'
    BY <1>12, <1>14 DEF LoseAck, outVars, inVars
  <1>15. CASE CommitSession \/ Poll \/ UNCHANGED vars
    BY <1>12, <1>15 DEF CommitSession, Poll, vars, outVars, inVars
  <1>16. \A due : ~ExpireInflight(due)
    BY DEF ExpireInflight
  <1> QED
    BY <1>3, <1>5, <1>6, <1>7, <1>8, <1>9, <1>10, <1>11, <1>13, <1>14, <1>15, <1>16, Zenon
       DEF Next

-----------------------------------------------------------------------------
(* The invariant of an unreliable flow. *)

\* Stamping a message later than everything stamped or delivered, and earlier
\* than what still waits.
LEMMA StampNewest ==
  ASSUME TypeOK, NewestInv, NEW m \in Nat, NEW flying \in BOOLEAN, StampFlowPacket(m, flying),
         UNCHANGED inVars, m \in 1 .. accepted', accepted <= accepted', accepted' \in Nat,
         \A p \in data : p.msg < m, \A d \in Delivered : d < m,
         Queued' \subseteq Queued, \A w \in Queued' : m < w,
         \A i, j \in 1 .. Len(waiting') : i < j => waiting'[i] < waiting'[j]
  PROVE  NewestInv'
  <1>1. /\ nextSeq' = nextSeq + 1 /\ nextSeq \in Nat /\ accepted \in Nat
        /\ \A p \in data' : p \in data \/ (p.seq = nextSeq /\ p.msg = m)
    BY DEF StampFlowPacket, TypeOK
  <1>2. Delivered' = Delivered /\ handed' = handed /\ recvHighest' = recvHighest
    BY ReceiverStill
  <1>3. Numbers /\ \A d \in Delivered : d \in Nat
    BY TypesAreNumbers DEF NewestInv
  <1>4. \A p \in data' : p.seq < nextSeq' /\ p.msg \in 1 .. accepted'
    BY <1>1, <1>3 DEF NewestInv, Numbers
  <1>5. \A p, q \in data' : p.seq < q.seq => p.msg < q.msg
    BY <1>1, <1>3 DEF NewestInv, Numbers
  <1>6. \A w \in Queued' : w \in 1 .. accepted'
    BY <1>1 DEF NewestInv
  <1>7. \A p \in data', w \in Queued' : p.msg < w
    BY <1>1 DEF NewestInv
  <1>8. \A d \in Delivered' : d \in 1 .. accepted'
    BY <1>1, <1>2 DEF NewestInv
  <1>9. \A d \in Delivered', w \in Queued' : d < w
    BY <1>2 DEF NewestInv
  <1>10. \A d \in Delivered', p \in data' : p.seq > recvHighest' => d < p.msg
    BY <1>1, <1>2 DEF NewestInv
  <1>11. \A i, j \in 1 .. Len(handed') : i < j => handed'[i] < handed'[j]
    BY <1>2, Zenon DEF NewestInv
  <1> QED
    BY <1>4, <1>5, <1>6, <1>7, <1>8, <1>9, <1>10, <1>11, Zenon DEF NewestInv

\* Handing over a packet the receiver had not passed: it is newer than all before
\* it, and every packet past it is newer still (DeliverUnordered).
LEMMA NewestDelivery ==
  ASSUME TypeOK, NewestInv, NEW p \in data, p.seq > recvHighest, CommitSeen(p.seq),
         handed' = Append(handed, p.msg), UNCHANGED <<data, waiting, accepted, nextSeq>>
  PROVE  NewestInv'
  <1>1. Numbers /\ recvHighest \in Nat /\ p.seq \in Nat /\ p.msg \in Nat /\ recvHighest' = p.seq
    BY TypesAreNumbers DEF Numbers, TypeOK, CommitSeen
  <1>2. Delivered' = Delivered \cup {p.msg}
    BY <1>1, OneMoreDelivered
  <1>3. Queued' = Queued /\ data' = data /\ waiting' = waiting /\ accepted' = accepted
        /\ nextSeq' = nextSeq
    BY DEF Queued
  <1>4. p.msg \in 1 .. accepted /\ \A m \in Queued : p.msg < m
    BY DEF NewestInv
  <1>5. \A d \in Delivered : d < p.msg
    BY DEF NewestInv
  <1>6. \A d \in Delivered' : d \in 1 .. accepted /\ \A m \in Queued : d < m
    BY <1>2, <1>4 DEF NewestInv
  <1>7. \A d \in Delivered', q \in data : q.seq > p.seq => d < q.msg
    <2> TAKE d \in Delivered', q \in data
    <2>1. q.seq \in Nat
      BY <1>1 DEF Numbers
    <2>2. q.seq > p.seq => q.seq > recvHighest /\ p.seq < q.seq
      BY <1>1, <2>1
    <2> QED
      BY <1>2, <2>2 DEF NewestInv
  <1>8. handed \in Seq(Nat) /\ Len(handed) \in Nat
    BY LenOf DEF TypeOK
  <1>9. /\ Len(handed') = Len(handed) + 1
        /\ \A i \in 1 .. Len(handed) : handed'[i] = handed[i] /\ handed[i] \in Delivered
        /\ handed'[Len(handed) + 1] = p.msg
    BY <1>1, <1>8, Appending DEF Delivered
  <1>10. \A i, j \in 1 .. Len(handed') : i < j => handed'[i] < handed'[j]
    <2>1. \A i, j \in 1 .. Len(handed') : i < j =>
             i \in 1 .. Len(handed) /\ (j \in 1 .. Len(handed) \/ j = Len(handed) + 1)
      BY <1>8, <1>9
    <2>2. \A i, j \in 1 .. Len(handed) : i < j => handed[i] < handed[j]
      BY DEF NewestInv
    <2> QED
      BY <1>5, <1>9, <2>1, <2>2
  <1> QED
    BY <1>1, <1>3, <1>6, <1>7, <1>10, Zenon DEF NewestInv

\* NewestInv is inductive.
LEMMA NewestStep ==
  ASSUME TypeOK, TypeOK', ~IsReliable, NewestInv, [Next]_vars
  PROVE  NewestInv'
  <1>0. ~IsOrdered /\ Numbers /\ accepted \in Nat /\ waiting \in Seq(Nat) /\ Len(waiting) \in Nat
        /\ recvHighest \in Nat
    <2>1. ~IsOrdered
      BY DEF IsOrdered, IsReliable
    <2> QED
      BY <2>1, TypesAreNumbers, LenOf, Zenon DEF TypeOK
  <1>1. /\ \A p \in data : p.seq < nextSeq /\ p.msg \in 1 .. accepted
        /\ \A p, q \in data : p.seq < q.seq => p.msg < q.msg
        /\ \A m \in Queued : m \in 1 .. accepted
        /\ \A i, j \in 1 .. Len(waiting) : i < j => waiting[i] < waiting[j]
        /\ \A p \in data, m \in Queued : p.msg < m
        /\ \A d \in Delivered : d \in 1 .. accepted
        /\ \A d \in Delivered, m \in Queued : d < m
    BY DEF NewestInv
  <1>2. CASE AdmitSent
    <2>1. /\ waiting = <<>> /\ StampFlowPacket(accepted + 1, sessionUp) /\ accepted' = accepted + 1
          /\ waiting' = <<>> /\ UNCHANGED inVars /\ sessionUp \in BOOLEAN
      BY <1>2 DEF AdmitSent, TypeOK
    <2>2. Queued' = {} /\ \A i, j \in 1 .. Len(waiting') : i < j => waiting'[i] < waiting'[j]
      BY <2>1 DEF Queued
    <2>3. /\ accepted + 1 \in Nat /\ accepted + 1 \in 1 .. accepted' /\ accepted <= accepted'
          /\ accepted' \in Nat
      BY <1>0, <2>1
    <2>4. (\A p \in data : p.msg < accepted + 1) /\ \A d \in Delivered : d < accepted + 1
      BY <1>0, <1>1
    <2> QED
      BY <2>1, <2>2, <2>3, <2>4, StampNewest
  <1>3. CASE ClaimWaiting
    <2>1. /\ waiting # <<>> /\ StampFlowPacket(Head(waiting), TRUE) /\ waiting' = Tail(waiting)
          /\ accepted' = accepted /\ UNCHANGED inVars
      BY <1>3, Zenon DEF ClaimWaiting
    <2>2. Len(waiting) \in Nat \ {0}
      BY <1>0, <2>1, EmptyOf
    <2>3. /\ Head(waiting) = waiting[1] /\ Len(waiting') = Len(waiting) - 1
          /\ \A i \in 1 .. Len(waiting) - 1 : waiting'[i] = waiting[i + 1]
      BY <1>0, <2>1, <2>2, Beheading
    <2>4. /\ 1 \in 1 .. Len(waiting)
          /\ \A i \in 1 .. Len(waiting') : i + 1 \in 1 .. Len(waiting) /\ 1 < i + 1
          /\ \A i, j \in 1 .. Len(waiting') : i < j => i + 1 < j + 1
      BY <2>2, <2>3
    <2>5. /\ Queued' \subseteq Queued /\ waiting[1] \in Queued
          /\ \A w \in Queued' : waiting[1] < w
          /\ \A i, j \in 1 .. Len(waiting') : i < j => waiting'[i] < waiting'[j]
      <3>1. \A i \in 1 .. Len(waiting') : waiting'[i] = waiting[i + 1]
        BY <2>3
      <3>2. \A i \in 1 .. Len(waiting') : waiting[1] < waiting'[i]
        BY <1>1, <2>4, <3>1
      <3>3. \A i, j \in 1 .. Len(waiting') : i < j => waiting'[i] < waiting'[j]
        BY <1>1, <2>4, <3>1
      <3> QED
        BY <2>4, <3>1, <3>2, <3>3, Zenon DEF Queued
    <2>6. waiting[1] \in 1 .. accepted /\ waiting[1] \in Nat
      BY <1>0, <1>1, <2>5
    <2>7. (\A p \in data : p.msg < waiting[1]) /\ \A d \in Delivered : d < waiting[1]
      BY <1>1, <2>5
    <2>8. accepted <= accepted' /\ accepted' \in Nat
      BY <1>0, <2>1
    <2>9. PICK m \in Nat : m = waiting[1]
      BY <2>6
    <2>10. StampFlowPacket(m, TRUE) /\ m \in 1 .. accepted'
           /\ (\A p \in data : p.msg < m) /\ (\A d \in Delivered : d < m)
           /\ \A w \in Queued' : m < w
      BY <2>1, <2>3, <2>5, <2>6, <2>7, <2>9, Zenon
    <2> QED
      BY <2>1, <2>5, <2>8, <2>10, StampNewest, Zenon
  <1>4. CASE AdmitQueued
    <2>1. /\ UNCHANGED <<nextSeq, data>> /\ UNCHANGED inVars /\ accepted' = accepted + 1
          /\ \/ waiting' = Append(waiting, accepted + 1)
             \/ Len(waiting) > 0 /\ waiting' = Append(Tail(waiting), accepted + 1)
      BY <1>4, LimitsAssumption DEF AdmitQueued
    <2>2. PICK w \in Seq(Nat) :
            /\ waiting' = Append(w, accepted + 1)
            /\ \A i \in 1 .. Len(w) : w[i] \in Queued
            /\ \A i, j \in 1 .. Len(w) : i < j => w[i] < w[j]
      <3>1. CASE waiting' = Append(waiting, accepted + 1)
        BY <1>0, <1>1, <3>1, Zenon DEF Queued
      <3>2. CASE Len(waiting) > 0 /\ waiting' = Append(Tail(waiting), accepted + 1)
        <4>1. /\ Tail(waiting) \in Seq(Nat) /\ Len(Tail(waiting)) = Len(waiting) - 1
              /\ \A i \in 1 .. Len(waiting) - 1 : Tail(waiting)[i] = waiting[i + 1]
          <5>1. waiting # <<>>
            BY <1>0, <3>2, EmptyOf
          <5> QED
            BY <1>0, <5>1, Beheading
        <4>2. /\ \A i \in 1 .. Len(waiting) - 1 : i + 1 \in 1 .. Len(waiting)
              /\ \A i, j \in 1 .. Len(waiting) - 1 : i < j => i + 1 < j + 1
          BY <1>0
        <4>3. \A i, j \in 1 .. Len(Tail(waiting)) : i < j => Tail(waiting)[i] < Tail(waiting)[j]
          BY <1>1, <4>1, <4>2
        <4> QED
          BY <3>2, <4>1, <4>2, <4>3, Zenon DEF Queued
      <3> QED
        BY <2>1, <3>1, <3>2
    <2>3. /\ Len(w) \in Nat /\ Len(waiting') = Len(w) + 1
          /\ \A i \in 1 .. Len(w) : waiting'[i] = w[i]
          /\ waiting'[Len(w) + 1] = accepted + 1
      BY <1>0, <2>2, Appending, LenOf
    <2>4. \A i \in 1 .. Len(waiting') : i \in 1 .. Len(w) \/ i = Len(w) + 1
      BY <2>3
    <2>5. \A m \in Queued' : m \in Queued \/ m = accepted + 1
      BY <2>2, <2>3, <2>4, Zenon DEF Queued
    <2>6. \A i, j \in 1 .. Len(waiting') : i < j => waiting'[i] < waiting'[j]
      <3>1. \A i, j \in 1 .. Len(waiting') : i < j =>
               i \in 1 .. Len(w) /\ (j \in 1 .. Len(w) \/ j = Len(w) + 1)
        BY <2>3
      <3>2. \A i \in 1 .. Len(w) : w[i] < accepted + 1
        BY <1>0, <1>1, <2>2
      <3> QED
        BY <2>2, <2>3, <3>1, <3>2
    <2>7. Delivered' = Delivered /\ handed' = handed /\ recvHighest' = recvHighest
          /\ data' = data /\ nextSeq' = nextSeq
      BY <2>1, ReceiverStill
    <2>8. /\ \A p \in data : p.msg < accepted + 1 /\ p.msg \in 1 .. accepted + 1
          /\ \A d \in Delivered : d < accepted + 1 /\ d \in 1 .. accepted + 1
          /\ \A m \in Queued : m \in 1 .. accepted + 1
          /\ accepted + 1 \in 1 .. accepted + 1
      BY <1>0, <1>1
    <2>9. /\ \A m \in Queued' : m \in 1 .. accepted + 1
          /\ \A p \in data, m \in Queued' : p.msg < m
          /\ \A d \in Delivered, m \in Queued' : d < m
      BY <1>1, <2>5, <2>8
    <2> QED
      BY <2>1, <2>6, <2>7, <2>8, <2>9, Zenon DEF NewestInv
  <1>5. CASE /\ data' \subseteq data /\ Queued' \subseteq Queued
             /\ \A i, j \in 1 .. Len(waiting') : i < j => waiting'[i] < waiting'[j]
             /\ UNCHANGED <<accepted, nextSeq, recvHighest, handed>>
    <2>1. Delivered' = Delivered /\ accepted' = accepted /\ nextSeq' = nextSeq
          /\ recvHighest' = recvHighest /\ handed' = handed
      BY <1>5 DEF Delivered
    <2> QED
      BY <1>5, <2>1, Zenon DEF NewestInv
  <1>6. CASE /\ data' \subseteq data /\ UNCHANGED <<waiting, accepted, nextSeq, recvHighest, handed>>
    <2>1. Queued' = Queued /\ \A i, j \in 1 .. Len(waiting') : i < j => waiting'[i] < waiting'[j]
      BY <1>1, <1>6, Zenon DEF Queued
    <2> QED
      BY <1>5, <1>6, <2>1
  <1>7. CASE FailAssoc
    <2>1. Queued' = {} /\ Len(waiting') = 0
      BY <1>7 DEF FailAssoc, Queued
    <2>2. \A i, j \in 1 .. Len(waiting') : i < j => waiting'[i] < waiting'[j]
      BY <2>1
    <2> QED
      BY <1>5, <1>7, <2>1, <2>2 DEF FailAssoc, inVars
  <1>8. ASSUME NEW p \in data, DeliverIn(p) PROVE NewestInv'
    <2>1. UNCHANGED <<data, waiting, accepted, nextSeq>> /\ DeliverUnordered(p)
      BY <1>0, <1>8 DEF DeliverIn, outVars
    <2>2. p.seq \in Nat
      BY <1>0 DEF Numbers
    <2>3. CASE AckOnly
      BY <1>6, <2>1, <2>3 DEF AckOnly
    <2>4. CASE Stale(p) /\ CommitSeen(p.seq) /\ UNCHANGED handed
      <3>1. recvHighest' = recvHighest
        BY <1>0, <2>2, <2>4 DEF Stale, CommitSeen
      <3> QED
        BY <1>6, <2>1, <2>4, <3>1
    <2>5. CASE ~Stale(p) /\ CommitSeen(p.seq) /\ handed' = Append(handed, p.msg)
      <3>1. p.seq > recvHighest
        BY <1>0, <2>2, <2>5 DEF Stale
      <3> QED
        BY <2>1, <2>5, <3>1, NewestDelivery
    <2> QED
      BY <2>1, <2>3, <2>4, <2>5, Zenon DEF DeliverUnordered
  <1>9. CommitSession \/ FlushPeerAcks \/ Poll \/ UNCHANGED vars
          => data' \subseteq data /\ UNCHANGED <<waiting, accepted, nextSeq, recvHighest, handed>>
    BY DEF CommitSession, FlushPeerAcks, Poll, vars, outVars, inVars
  <1>10. \A q, r : ExpireInflight(q) \/ ApplyAckRanges(q, r) \/ LosePacket(q) \/ LoseAck(q)
          => data' \subseteq data /\ UNCHANGED <<waiting, accepted, nextSeq, recvHighest, handed>>
    BY Zenon DEF ExpireInflight, ApplyAckRanges, LosePacket, LoseAck, outVars, inVars
  <1>11. ~ReclaimJammedInFlows /\ \A q, r : ~RetransmitInflight(q, r)
    BY <1>0, Zenon DEF ReclaimJammedInFlows, RetransmitInflight
  <1> QED
    BY <1>2, <1>3, <1>4, <1>6, <1>7, <1>8, <1>9, <1>10, <1>11, Zenon DEF Next


-----------------------------------------------------------------------------
(* What every flow keeps. *)

LEMMA ModeInvariant == Spec => []ModeInv
  <1>1. Init => ModeInv
    <2> SUFFICES ASSUME Init PROVE UnorderedInv /\ NewestInv
      BY DEF ModeInv
    <2>1. /\ \A k \in Slots : ring[k].seq = 0 /\ ~seen[k]
          /\ handed = <<>> /\ waiting = <<>> /\ data = {} /\ acks = {}
          /\ nextSeq = 1 /\ recvNext = 1 /\ recvHighest = 0 /\ accepted = 0 /\ life = "OPEN"
      BY DEF Init, FreeEntry
    <2>2. Delivered = {} /\ Queued = {} /\ InFlight = {} /\ 1 .. nextSeq - 1 = {}
      <3>1. Len(handed) = 0 /\ Len(waiting) = 0
        BY <2>1
      <3>2. 1 .. Len(handed) = {} /\ 1 .. Len(waiting) = {} /\ 1 .. nextSeq - 1 = {}
        BY <2>1, <3>1
      <3>3. Delivered = {}
        BY <3>2, Zenon DEF Delivered
      <3>4. Queued = {}
        BY <3>2, Zenon DEF Queued
      <3>5. InFlight = {}
        BY <2>1, Zenon DEF InFlight
      <3> QED
        BY <3>2, <3>3, <3>4, <3>5, Zenon
    <2>3. WaitingFollows
      BY <2>1 DEF WaitingFollows
    <2>4. RingCarries /\ PacketsCarry /\ KeptOrDelivered /\ AcksDelivered
      BY <2>1, <2>2, Zenon DEF RingCarries, PacketsCarry, KeptOrDelivered, AcksDelivered
    <2>5. DeliveredOnce
      <3>1. recvHighest < nextSeq /\ 1 .. Len(handed) = {}
        BY <2>1
      <3>2. BitmapOf(Delivered)
        BY <2>1, <2>2, Zenon DEF BitmapOf
      <3> QED
        BY <2>2, <3>1, <3>2, Zenon DEF DeliveredOnce
    <2>6. NewestInv
      <3>1. 1 .. Len(handed) = {} /\ 1 .. Len(waiting) = {}
        BY <2>1
      <3> QED
        BY <2>1, <2>2, <3>1, Zenon DEF NewestInv
    <2> QED
      BY <2>3, <2>4, <2>5, <2>6 DEF UnorderedInv
  <1>2. TypeOK /\ TypeOK' /\ ModeInv /\ [Next]_vars => ModeInv'
    <2> SUFFICES ASSUME TypeOK, TypeOK', ModeInv, [Next]_vars PROVE ModeInv'
      OBVIOUS
    <2>1. IsReliable /\ ~IsOrdered => UnorderedInv'
      BY UnorderedStep DEF ModeInv
    <2>2. ~IsReliable => NewestInv'
      BY NewestStep DEF ModeInv
    <2> QED
      BY <2>1, <2>2 DEF ModeInv, IsReliable, IsOrdered
  <1> QED
    BY <1>1, <1>2, TypeCorrect, PTL DEF Spec

\* In every mode, and for every window, budget, grant and pool: the counters that
\* gate sending and receiving are exactly what they count, what is in flight fits
\* the receiver's window, no peer takes more than its share of the pool, and no
\* cursor waits for what is held (StampFlowPacket, ResolveOutEntry, FailAssoc,
\* DeliverOrdered, DropInHoldback).
THEOREM FlowAccounted == Spec => []Accounting
  <1>1. TypeOK /\ CountsInv => GrantBoundsShare /\ CursorNeverHeld
    <2> SUFFICES ASSUME TypeOK, CountsInv PROVE GrantBoundsShare /\ CursorNeverHeld
      OBVIOUS
    <2>1. GrantBoundsShare
      BY DEF CountsInv, RecvInv, HolesCounted, GrantBoundsShare
    <2>2. recvNext \in Nat /\ recvNext # 0 /\ SlotOf(recvNext) \in Slots
      BY SlotOfType DEF TypeOK
    <2>3. ASSUME holdback[SlotOf(recvNext)].seq = recvNext PROVE FALSE
      <3>1. SlotOf(recvNext) \in Held
        BY <2>2, <2>3 DEF Held
      <3>2. recvNext < recvNext
        BY <2>3, <3>1 DEF CountsInv, RecvInv, HeldInPlace
      <3> QED
        BY <2>2, <3>2
    <2> QED
      BY <2>1, <2>3 DEF CursorNeverHeld
  <1>2. TypeOK /\ OrderedInv /\ ModeInv => InFlightInsideWindow
    <2> SUFFICES ASSUME TypeOK, OrderedInv, ModeInv, life = "OPEN" PROVE InFlightInsideWindow
      BY DEF InFlightInsideWindow
    <2>1. IsOrdered => nextSeq <= recvNext + Window
      BY DEF OrderedInv, Retained
    <2>2. ASSUME IsReliable, ~IsOrdered, NEW k \in Slots, ring[k].seq # 0,
                 ring[k].msg \notin Delivered, AlreadySeen(ring[k].seq)
          PROVE  FALSE
      <3> DEFINE s == ring[k].seq
      <3>1. UnorderedInv /\ Numbers
        BY <2>2, TypesAreNumbers DEF ModeInv
      <3>2. s \in Nat \ {0} /\ s < nextSeq /\ s \notin Delivered
        BY <2>2, <3>1, Zenon DEF UnorderedInv, RingCarries, InFlight, CarriesItsMessage, Numbers
      <3>3. s \in 1 .. nextSeq - 1 /\ nextSeq \in Nat
        BY <3>1, <3>2 DEF Numbers
      <3>4. nextSeq <= s + Window
        BY <3>1, <3>2, <3>3 DEF UnorderedInv, KeptOrDelivered
      <3>5. recvHighest \in Nat /\ recvHighest < nextSeq
        BY <3>1 DEF UnorderedInv, DeliveredOnce, TypeOK
      <3>6. s >= Floor(recvHighest)
        <4>1. CASE recvHighest >= Window
          BY <3>2, <3>3, <3>4, <3>5, <4>1, FloorFacts, WindowAssumption
        <4>2. CASE recvHighest < Window
          BY <3>2, <3>5, <4>2, FloorFacts, WindowAssumption
        <4> QED
          BY <3>5, <4>1, <4>2, WindowAssumption
      <3>7. Floor(recvHighest) \in Nat
        BY <3>5, FloorFacts
      <3>8. s \in Floor(recvHighest) .. recvHighest /\ seen[SlotOf(s)]
        BY <2>2, <3>2, <3>5, <3>6, <3>7 DEF AlreadySeen
      <3>9. BitmapOf(Delivered)
        BY <3>1 DEF UnorderedInv, DeliveredOnce
      <3> QED
        BY <3>2, <3>8, <3>9, SetBitIsIn
    <2> QED
      BY <2>1, <2>2 DEF InFlightInsideWindow
  <1>3. TypeOK /\ CountsInv /\ OrderedInv /\ ModeInv => Accounting
    BY <1>1, <1>2 DEF Accounting, CountsInv, RecvInv
  <1> QED
    BY <1>3, TypeCorrect, CountsInvariant, OrderedInvariant, ModeInvariant, PTL


\* A live reliable flow, ordered or not, still has every accepted message its
\* receiver has not handed over, for every window and limit: no acknowledgement,
\* repeated, late or taken back, costs the sender the only copy (ResolveOutEntry,
\* ReleaseAckedRun, DropInHoldback).
THEOREM FlowForgetsNothing == Spec => []NothingForgotten
  <1>1. TypeOK /\ OrderedInv /\ ModeInv => NothingForgotten
    <2> SUFFICES ASSUME TypeOK, OrderedInv, ModeInv, IsReliable, life = "OPEN",
                        NEW m \in 1 .. accepted
                 PROVE  \/ m \in Delivered
                        \/ \E i \in 1 .. Len(waiting) : waiting[i] = m
                        \/ \E k \in Slots : ring[k].seq # 0 /\ ring[k].msg = m
      BY DEF NothingForgotten
    <2>1. Numbers /\ m \in Nat \ {0} /\ Len(waiting) \in Nat /\ nextSeq \in Nat
      BY TypesAreNumbers, LenOf DEF TypeOK
    <2>2. WaitingFollows /\ RingCarries
      BY DEF OrderedInv, ModeInv, UnorderedInv
    <2>3. CASE m < nextSeq
      <3>1. m \in 1 .. nextSeq - 1 /\ SlotOf(m) \in Slots
        BY <2>1, <2>3, SlotOfType
      <3>2. m \in Delivered \/ ring[SlotOf(m)].seq = m
        <4>1. CASE IsOrdered /\ m < recvNext
          <5>1. CursorCounts
            BY <4>1 DEF OrderedInv
          <5>2. m \in 1 .. Len(handed)
            BY <2>1, <4>1, <5>1 DEF CursorCounts, Numbers
          <5> QED
            BY <5>1, <5>2, Zenon DEF CursorCounts, Delivered
        <4>2. CASE IsOrdered /\ m >= recvNext
          <5>1. m \in recvNext .. nextSeq - 1
            BY <2>1, <3>1, <4>2 DEF Numbers
          <5> QED
            BY <4>2, <5>1 DEF OrderedInv, Retained
        <4>3. CASE ~IsOrdered
          BY <3>1, <4>3 DEF ModeInv, UnorderedInv, KeptOrDelivered
        <4> QED
          BY <2>1, <4>1, <4>2, <4>3 DEF Numbers
      <3>3. ring[SlotOf(m)].seq = m => ring[SlotOf(m)].msg = m
        BY <2>1, <2>2, <3>1 DEF RingCarries, InFlight, CarriesItsMessage
      <3> QED
        BY <2>1, <3>1, <3>2, <3>3
    <2>4. CASE m >= nextSeq
      <3> DEFINE i == m - (nextSeq - 1)
      <3>1. i \in 1 .. Len(waiting) /\ nextSeq - 1 + i = m
        BY <2>1, <2>2, <2>4 DEF WaitingFollows
      <3> HIDE DEF i
      <3>2. waiting[i] = m
        BY <2>2, <3>1 DEF WaitingFollows
      <3> QED
        BY <3>1, <3>2
    <2> QED
      BY <2>1, <2>3, <2>4
  <1> QED
    BY <1>1, TypeCorrect, OrderedInvariant, ModeInvariant, PTL

-----------------------------------------------------------------------------
(* The channel. *)

\* A delivery of an ordered flow is one of a first-in first-out channel.
LEMMA OrderedStepIsChannelStep ==
  ASSUME TypeOK, TypeOK', IsOrdered, OrderedInv, NEW p \in data, DeliverIn(p)
  PROVE  [Channel!ChannelNext]_(Channel!channelVars)
  <1>1. UNCHANGED <<accepted, life>> /\ DeliverOrdered(p)
    BY DEF DeliverIn, outVars
  <1>2. CASE AckOnly \/ HoldAhead(p)
    <2>1. UNCHANGED handed
      BY <1>2 DEF AckOnly, HoldAhead
    <2> QED
      BY <1>1, <2>1 DEF Channel!channelVars
  <1>3. CASE DeliverAtCursor(p)
    <2>1. /\ PacketsCarry /\ HoldbackCarries /\ CursorCounts
          /\ accepted >= nextSeq - 1 /\ Numbers
      BY TypesAreNumbers DEF OrderedInv, WaitingFollows
    <2>2. /\ recvNext' \in Nat /\ recvNext < recvNext' /\ recvNext' <= nextSeq
          /\ Len(handed') = recvNext' - 1
          /\ \A i \in 1 .. Len(handed') : handed'[i] = i
      BY <1>3, <2>1, CursorRun
    <2>3. Len(handed) = recvNext - 1 /\ \A i \in 1 .. Len(handed) : handed[i] = i
      BY <2>1 DEF CursorCounts
    <2>4. \A m, n, last, all \in Nat : m < n /\ n <= last /\ all >= last - 1 /\ m # 0 =>
            /\ n - 1 > m - 1
            /\ \A i \in 1 .. m - 1 : i \in 1 .. n - 1
            /\ \A i \in (m - 1) + 1 .. n - 1 : i \in 1 .. n - 1 /\ i \in 1 .. all
      OBVIOUS
    <2>5. recvNext \in Nat /\ recvNext # 0 /\ nextSeq \in Nat /\ accepted \in Nat
      BY <2>1 DEF Numbers
    <2> DEFINE m == recvNext
               n == recvNext'
    <2>6. /\ n - 1 > m - 1
          /\ \A i \in 1 .. m - 1 : i \in 1 .. n - 1
          /\ \A i \in (m - 1) + 1 .. n - 1 : i \in 1 .. n - 1 /\ i \in 1 .. accepted
      BY <2>1, <2>2, <2>4, <2>5, Zenon
    <2>7. Len(handed) = m - 1 /\ Len(handed') = n - 1
      BY <2>2, <2>3
    <2> HIDE DEF m, n
    <2>8. /\ Len(handed') > Len(handed)
          /\ \A i \in 1 .. Len(handed) : handed'[i] = handed[i]
          /\ \A i \in Len(handed) + 1 .. Len(handed') : handed'[i] = i /\ i \in 1 .. accepted
      BY <2>2, <2>3, <2>6, <2>7, Zenon
    <2>9. Channel!Allowed(handed', Len(handed))
      BY <2>8 DEF Channel!Allowed
    <2> QED
      BY <1>1, <2>8, <2>9 DEF Channel!ChannelNext, Channel!Deliver
  <1> QED
    BY <1>1, <1>2, <1>3 DEF DeliverOrdered

\* A delivery of a flow that is not ordered is one of its channel.
LEMMA UnorderedStepIsChannelStep ==
  ASSUME TypeOK, TypeOK', ~IsOrdered, ModeInv, ModeInv', NEW p \in data, DeliverIn(p)
  PROVE  [Channel!ChannelNext]_(Channel!channelVars)
  <1>0. UNCHANGED <<accepted, life, nextSeq>> /\ DeliverUnordered(p)
    BY DEF DeliverIn, outVars
  <1>1. Numbers /\ accepted \in Nat /\ handed \in Seq(Nat) /\ Len(handed) \in Nat
        /\ p.msg \in Nat /\ p.seq \in Nat /\ nextSeq \in Nat
    BY TypesAreNumbers, LenOf, Zenon DEF TypeOK, Numbers
  <1>2. CASE UNCHANGED handed
    BY <1>0, <1>2 DEF Channel!channelVars
  <1>3. CASE /\ ~AlreadySeen(p.seq) /\ ~Stale(p)
             /\ CommitSeen(p.seq) /\ handed' = Append(handed, p.msg)
    <2>1. /\ Len(handed') = Len(handed) + 1
          /\ \A i \in 1 .. Len(handed) : handed'[i] = handed[i] /\ handed[i] \in Delivered
          /\ handed'[Len(handed) + 1] = p.msg
      <3>1. /\ Len(handed') = Len(handed) + 1
            /\ \A i \in 1 .. Len(handed) : handed'[i] = handed[i]
            /\ handed'[Len(handed) + 1] = p.msg
        <4>1. handed' = Append(handed, p.msg)
          BY <1>3
        <4> QED
          BY <1>1, <4>1, Appending
      <3> QED
        BY <3>1, Zenon DEF Delivered
    <2>2. \A i \in Len(handed) + 1 .. Len(handed') : i = Len(handed) + 1
      BY <1>1, <2>1
    <2>3. \A j \in 1 .. (Len(handed) + 1) - 1 : j \in 1 .. Len(handed)
      BY <1>1
    <2>4. CASE IsReliable
      <3>1. UnorderedInv
        BY <2>4 DEF ModeInv
      <3>3. p.msg \notin Delivered
        BY <1>0, <1>3, <3>1, UnorderedDelivery
      <3>4. p.msg \in 1 .. accepted
        BY <1>1, <3>1 DEF UnorderedInv, PacketsCarry, CarriesItsMessage, WaitingFollows
      <3>5. Channel!Allowed(handed', Len(handed))
        <4> SUFFICES ASSUME NEW i \in Len(handed) + 1 .. Len(handed')
                     PROVE  /\ handed'[i] \in 1 .. accepted
                            /\ \A j \in 1 .. i - 1 : handed'[j] # handed'[i]
          BY <2>4 DEF Channel!Allowed
        <4>1. i = Len(handed) + 1
          BY <2>2
        <4> QED
          BY <2>1, <2>3, <3>3, <3>4, <4>1, Zenon
      <3> QED
        BY <1>0, <1>1, <2>1, <3>5 DEF Channel!ChannelNext, Channel!Deliver
    <2>5. CASE ~IsReliable
      <3>1. NewestInv /\ NewestInv'
        BY <2>5 DEF ModeInv, IsReliable
      <3>2. p.msg \in 1 .. accepted
        BY <3>1 DEF NewestInv
      <3>3. \A i, j \in 1 .. Len(handed') : i < j => handed'[i] < handed'[j]
        BY <3>1 DEF NewestInv
      <3>4. Channel!Allowed(handed', Len(handed))
        <4> SUFFICES ASSUME NEW i \in Len(handed) + 1 .. Len(handed')
                     PROVE  /\ handed'[i] \in 1 .. accepted
                            /\ \A j \in 1 .. i - 1 : handed'[j] < handed'[i]
          BY <2>5 DEF Channel!Allowed
        <4>1. i = Len(handed) + 1
          BY <2>2
        <4>2. i \in 1 .. Len(handed') /\ \A j \in 1 .. i - 1 : j \in 1 .. Len(handed') /\ j < i
          BY <1>1, <2>1, <4>1
        <4> QED
          BY <2>1, <3>2, <3>3, <4>1, <4>2
      <3> QED
        BY <1>0, <1>1, <2>1, <3>4 DEF Channel!ChannelNext, Channel!Deliver
    <2> QED
      BY <2>4, <2>5
  <1> QED
    BY <1>0, <1>2, <1>3, Zenon DEF DeliverUnordered, AckOnly


\* The steps of a flow that the applications can see are those of the channel its
\* mode promises.
LEMMA StepIsChannelStep ==
  ASSUME TypeOK, TypeOK', OrderedInv, ModeInv, ModeInv', [Next]_vars
  PROVE  [Channel!ChannelNext]_(Channel!channelVars)
  <1> DEFINE Seen == <<accepted, handed, life>>
  <1>1. CASE UNCHANGED Seen
    BY <1>1 DEF Channel!channelVars
  <1>2. CASE AdmitSent \/ AdmitQueued
    <2>1. life = "OPEN" /\ accepted' = accepted + 1 /\ UNCHANGED <<life, handed>>
      BY <1>2 DEF AdmitSent, AdmitQueued, inVars
    <2> QED
      BY <2>1 DEF Channel!ChannelNext, Channel!Submit
  <1>3. CASE FailAssoc
    <2>1. life = "OPEN" /\ life' = "FAILED" /\ UNCHANGED <<accepted, handed>>
      BY <1>3 DEF FailAssoc, inVars
    <2> QED
      BY <2>1 DEF Channel!ChannelNext, Channel!Break
  <1>4. ASSUME NEW p \in data, DeliverIn(p)
        PROVE  [Channel!ChannelNext]_(Channel!channelVars)
    <2>1. CASE IsOrdered
      BY <1>4, <2>1, OrderedStepIsChannelStep
    <2>2. CASE ~IsOrdered
      BY <1>4, <2>2, UnorderedStepIsChannelStep
    <2> QED
      BY <2>1, <2>2
  <1>5. CommitSession \/ ClaimWaiting \/ FlushPeerAcks \/ ReclaimJammedInFlows \/ Poll
          \/ UNCHANGED vars => UNCHANGED Seen
    BY ZenonT(30) DEF CommitSession, ClaimWaiting, FlushPeerAcks, ReclaimJammedInFlows,
       Poll, vars, outVars, inVars
  <1>6. \A due, sent : RetransmitInflight(due, sent) => UNCHANGED Seen
    BY ZenonT(30) DEF RetransmitInflight, inVars
  <1>7. \A a, overdue : ApplyAckRanges(a, overdue) => UNCHANGED Seen
    BY ZenonT(30) DEF ApplyAckRanges, inVars
  <1>8. \A q : LosePacket(q) \/ LoseAck(q) \/ ExpireInflight(q) => UNCHANGED Seen
    BY ZenonT(30) DEF LosePacket, LoseAck, ExpireInflight, outVars, inVars
  <1> HIDE DEF Seen
  <1> QED
    BY <1>1, <1>2, <1>3, <1>4, <1>5, <1>6, <1>7, <1>8, Zenon DEF Next

\* A flow implements the channel its mode promises, for every window, budget,
\* grant and pool, and whatever the network loses, repeats or reorders: first in
\* first out when ordered, each message at most once when reliable, never an older
\* message after a newer one when unreliable (FlowMode).
THEOREM FlowIsChannel == Spec => ImplementsChannel
  <1>1. Init => Channel!ChannelInit
    BY DEF Init, Channel!ChannelInit
  <1>2. TypeOK /\ TypeOK' /\ OrderedInv /\ ModeInv /\ ModeInv' /\ [Next]_vars
          => [Channel!ChannelNext]_(Channel!channelVars)
    BY StepIsChannelStep
  <1> QED
    BY <1>1, <1>2, TypeCorrect, OrderedInvariant, ModeInvariant, PTL
       DEF Spec, ImplementsChannel, Channel!ChannelSpec
=============================================================================
