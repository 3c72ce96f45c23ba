------------------------------ MODULE FlowPair ------------------------------
(***************************************************************************)
(* One flow between two peers: the sending side's OutAssociation, the      *)
(* receiving side's InAssociation, the budget and grant that gate them,    *)
(* the ready lane the application polls, and the network between.          *)
(*                                                                         *)
(* A packet carries its sequence and the number of the application message *)
(* in it.  Time is abstract: a timer the code compares with the clock may  *)
(* fire in any state in which it is armed, and the pacing clock may refuse *)
(* any send.  Of a send time only the marker value 0 matters ("unsent, go  *)
(* again"), so an entry records `stamped`, which is FALSE for 0.           *)
(***************************************************************************)
EXTENDS Integers, Sequences, FiniteSets

CONSTANTS
    Mode,           \* FlowMode of the flow
    Window,         \* in-flight ring, seen bitmap and hold-back ring sizes
    WaitingCap,     \* entries of the waiting ring
    Budget,         \* congestion budget of the peer, in packets
    TheirGrant,     \* grant the receiver announced (0: none yet)
    Grant,          \* grant the receiver enforces (0: no limit)
    HoldCeiling,    \* pool-wide bound on pinned receive slots
    RecvSlots,      \* receive pool, and the capacity of a ready lane
    LossThreshold,  \* LOSS_PACKET_THRESHOLD
    RangeCount,     \* FLOW_ACK_RANGE_COUNT
    StallTimer,     \* may a gap outlive the flow stall timeout?
    MaxMsgs,        \* bound: messages the application sends
    MaxAcks         \* bound: acks in flight at once

Modes == {"RELIABLE_ORDERED", "RELIABLE_UNORDERED", "UNRELIABLE",
          "RELIABLE_ORDERED_BULK"}
IsOrdered == Mode \in {"RELIABLE_ORDERED", "RELIABLE_ORDERED_BULK"}
IsReliable == Mode # "UNRELIABLE"

ASSUME ModeAssumption == Mode \in Modes
ASSUME WindowAssumption == Window \in Nat \ {0}
ASSUME LimitsAssumption ==
    /\ WaitingCap \in Nat /\ Budget \in Nat
    /\ TheirGrant \in Nat /\ Grant \in Nat
    /\ HoldCeiling \in Nat /\ RecvSlots \in Nat
    /\ LossThreshold \in Nat \ {0} /\ RangeCount \in Nat \ {0}
    /\ StallTimer \in BOOLEAN
    /\ MaxMsgs \in Nat /\ MaxAcks \in Nat \ {0}

VARIABLES
    \* the sending side
    sessionUp, life, accepted, waiting, nextSeq, ackBase, ring, unresolved,
    outstanding,
    \* the network
    data, acks,
    \* the receiving side
    recvNext, recvHighest, seen, holdback, heldCount, ackOwed, occupancy,
    handed, polled

outVars == <<sessionUp, life, accepted, waiting, nextSeq, ackBase, ring,
             unresolved, outstanding>>
inVars == <<recvNext, recvHighest, seen, holdback, heldCount, ackOwed,
            occupancy, handed, polled>>
vars == <<outVars, data, acks, inVars>>

Slots == 0 .. Window - 1
SlotOf(seq) == seq % Window

FreeEntry ==
    [seq |-> 0, msg |-> 0, stamped |-> FALSE, acked |-> FALSE, lostByAck |-> FALSE]
NotHeld == [seq |-> 0, msg |-> 0]

InFlightEntry ==
    [seq : Nat, msg : Nat, stamped : BOOLEAN, acked : BOOLEAN, lostByAck : BOOLEAN]
Packet == [seq : Nat, msg : Nat]
Ack == [recvNext : Nat, ranges : SUBSET Nat]

\* ResetOutAssoc on one side, ResetInAssoc on the other: a fresh generation.
\* The handshake may still be running when the application starts to send.
Init ==
    /\ sessionUp \in BOOLEAN
    /\ life = "OPEN"
    /\ accepted = 0
    /\ waiting = <<>>
    /\ nextSeq = 1
    /\ ackBase = 1
    /\ ring = [k \in Slots |-> FreeEntry]
    /\ unresolved = 0
    /\ outstanding = 0
    /\ data = {}
    /\ acks = {}
    /\ recvNext = 1
    /\ recvHighest = 0
    /\ seen = [k \in Slots |-> FALSE]
    /\ holdback = [k \in Slots |-> NotHeld]
    /\ heldCount = 0
    /\ ackOwed = FALSE
    /\ occupancy = 0
    /\ handed = <<>>
    /\ polled = 0

(***************************************************************************)
(* The sending side.                                                       *)
(***************************************************************************)

Restamped(entry, stamp) == [entry EXCEPT !.stamped = stamp]

InFlight == {k \in Slots : ring[k].seq # 0}
Unacked == {k \in InFlight : ~ring[k].acked}

\* Room for one more packet: the window, the peer's congestion budget, the
\* grant the peer announced, and a free slot of the in-flight ring.
CanSend ==
    /\ IsReliable => unresolved < Window
    /\ outstanding + 1 <= Budget
    /\ TheirGrant # 0 => outstanding < TheirGrant
    /\ ring[SlotOf(nextSeq)].seq = 0

\* Give message m the next sequence, retain it, and charge it.
StampFlowPacket(m, flying) ==
    /\ ring' = [ring EXCEPT ![SlotOf(nextSeq)] =
                   [seq |-> nextSeq, msg |-> m, stamped |-> flying,
                    acked |-> FALSE, lostByAck |-> FALSE]]
    /\ unresolved' = unresolved + 1
    /\ outstanding' = outstanding + 1
    /\ nextSeq' = nextSeq + 1
    /\ data' = IF flying THEN data \cup {[seq |-> nextSeq, msg |-> m]} ELSE data

\* Mutant: a send overtakes the packets that wait.
AdmitSentOvertaking ==
    /\ accepted < MaxMsgs
    /\ life = "OPEN"
    /\ sessionUp \/ IsReliable
    /\ CanSend
    /\ StampFlowPacket(accepted + 1, sessionUp)
    /\ accepted' = accepted + 1
    /\ UNCHANGED <<sessionUp, life, waiting, ackBase, acks, inVars>>

\* AdmitOut, answer Sent.  The pacing clock may instead refuse: AdmitQueued.
AdmitSent ==
    /\ accepted < MaxMsgs
    /\ life = "OPEN"
    /\ sessionUp \/ IsReliable
    /\ waiting = <<>> /\ CanSend
    /\ StampFlowPacket(accepted + 1, sessionUp)
    /\ accepted' = accepted + 1
    /\ UNCHANGED <<sessionUp, life, waiting, ackBase, acks, inVars>>

\* AdmitOut, answer Queued.  A full ring refuses a reliable send outright and
\* gives an unreliable one the place of the oldest waiter.
AdmitQueued ==
    /\ accepted < MaxMsgs
    /\ life = "OPEN"
    /\ sessionUp \/ IsReliable
    /\ \/ /\ Len(waiting) < WaitingCap
          /\ waiting' = Append(waiting, accepted + 1)
       \/ /\ Len(waiting) = WaitingCap /\ WaitingCap > 0
          /\ ~IsReliable
          /\ waiting' = Append(Tail(waiting), accepted + 1)
    /\ accepted' = accepted + 1
    /\ UNCHANGED <<sessionUp, life, nextSeq, ackBase, ring, unresolved,
                   outstanding, data, acks, inVars>>

\* CommitSession: the handshake is done and packets may fly.
CommitSession ==
    /\ ~sessionUp
    /\ sessionUp' = TRUE
    /\ UNCHANGED <<life, accepted, waiting, nextSeq, ackBase, ring, unresolved,
                   outstanding, data, acks, inVars>>

\* DrainWaitingSends: PeekWaiting and ClaimWaiting stamp the oldest waiter.
ClaimWaiting ==
    /\ sessionUp
    /\ life = "OPEN"
    /\ waiting # <<>> /\ CanSend
    /\ StampFlowPacket(Head(waiting), TRUE)
    /\ waiting' = Tail(waiting)
    /\ UNCHANGED <<sessionUp, life, accepted, ackBase, acks, inVars>>

\* UpdateOutFlow on a reliable flow: the entries in `due` have reached their
\* deadline and are resent, those in `sent` reach the wire, and the others were
\* refused by the kernel and are refunded (RefundResendAttempts).  A retained
\* acknowledged entry is re-offered after the stall timeout, unless it carries
\* the marker.
RetransmitInflight(due, sent) ==
    /\ sessionUp
    /\ life = "OPEN"
    /\ IsReliable
    /\ \A k \in due : ring[k].acked => StallTimer /\ ring[k].stamped
    /\ ring' = [k \in Slots |->
                  IF k \in due \ sent /\ ~ring[k].acked
                  THEN Restamped(ring[k], FALSE)
                  ELSE IF k \in due THEN Restamped(ring[k], TRUE) ELSE ring[k]]
    /\ data' = data \cup {[seq |-> ring[k].seq, msg |-> ring[k].msg] : k \in sent}
    /\ UNCHANGED <<sessionUp, life, accepted, waiting, nextSeq, ackBase,
                   unresolved, outstanding, acks, inVars>>

\* UpdateOutFlow on an unreliable flow: the entries in `due` are given up.
ExpireInflight(due) ==
    /\ sessionUp
    /\ life = "OPEN"
    /\ ~IsReliable
    /\ ring' = [k \in Slots |-> IF k \in due THEN FreeEntry ELSE ring[k]]
    /\ unresolved' = unresolved - Cardinality(due)
    /\ outstanding' = outstanding - Cardinality(due)
    /\ UNCHANGED <<sessionUp, life, accepted, waiting, nextSeq, ackBase, data,
                   acks, inVars>>

\* Mutant: no retained entry is refunded.
FailAssocUnrefunded ==
    /\ sessionUp /\ life = "OPEN" /\ unresolved > 0
    /\ life' = "FAILED"
    /\ ring' = [k \in Slots |-> FreeEntry]
    /\ waiting' = <<>>
    /\ unresolved' = 0
    /\ UNCHANGED <<sessionUp, accepted, nextSeq, ackBase, outstanding, data, acks, inVars>>

\* UpdateOutFlow when packets are owed and nothing was resolved for the whole
\* death bound: FailAssoc drains both rings and refunds the peer.
FailAssoc ==
    /\ sessionUp
    /\ life = "OPEN"
    /\ unresolved > 0
    /\ life' = "FAILED"
    /\ ring' = [k \in Slots |-> FreeEntry]
    /\ waiting' = <<>>
    /\ unresolved' = 0
    /\ outstanding' = outstanding - Cardinality(Unacked)
    /\ UNCHANGED <<sessionUp, accepted, nextSeq, ackBase, data, acks, inVars>>

\* The entries an ack names: below the peer's cursor, or in its ranges.
Named(a) ==
    {k \in InFlight : ring[k].seq < a.recvNext \/ ring[k].seq \in a.ranges}

\* Mutant: the copy goes with the first acknowledgement.
ResolveOutEntryFreeing(entry) == FreeEntry

\* ResolveOutEntry for an acknowledged entry: an ordered flow keeps the copy.
ResolveOutEntry(entry) ==
    IF IsOrdered THEN [entry EXCEPT !.acked = TRUE] ELSE FreeEntry

\* DeclareLostBelow: a later sequence arrived, and the entry is either far
\* behind the newest or, for those in `overdue`, older than the loss delay.
DeclaredLost(a, overdue) ==
    {k \in Unacked \ Named(a) :
        /\ IsReliable
        /\ ~ring[k].lostByAck
        /\ \E j \in Named(a) :
              /\ ring[j].seq > ring[k].seq
              /\ \/ ring[j].seq - ring[k].seq >= LossThreshold
                 \/ ring[k].stamped /\ k \in overdue}

DeclareLost(entry) == [entry EXCEPT !.lostByAck = TRUE, !.stamped = FALSE]

\* The ring once the ack is applied, before copies are released.
Judged(a, overdue) ==
    [k \in Slots |-> IF k \in Named(a) THEN ResolveOutEntry(ring[k])
                     ELSE IF k \in DeclaredLost(a, overdue) THEN DeclareLost(ring[k])
                     ELSE ring[k]]

\* Mutant: the walk follows acknowledgements and forgets the peer's cursor.
RunReleasedPastCursor(r, remoteRecvNext, base) ==
    /\ base <= ackBase + Window
    /\ \A s \in ackBase .. base - 1 : r[SlotOf(s)].seq = s => r[SlotOf(s)].acked
    /\ \/ base = nextSeq
       \/ base = ackBase + Window
       \/ r[SlotOf(base)].seq = base /\ ~r[SlotOf(base)].acked

\* ReleaseAckedRun: where the walk from ackBase towards the peer's cursor ends.
RunReleased(r, remoteRecvNext, base) ==
    /\ base <= ackBase + Window
    /\ \A s \in ackBase .. base - 1 :
          s < remoteRecvNext /\ (r[SlotOf(s)].seq = s => r[SlotOf(s)].acked)
    /\ \/ base = nextSeq
       \/ base = ackBase + Window
       \/ base >= remoteRecvNext
       \/ r[SlotOf(base)].seq = base /\ ~r[SlotOf(base)].acked

\* Flow_Ack: ApplyAckRanges resolves what the ack names, declares losses below
\* the newest of it, and releases the copies the peer's cursor has passed.
ApplyAckRanges(a, overdue) ==
    /\ a \in acks
    /\ \E base \in ackBase .. nextSeq :
          /\ RunReleased(Judged(a, overdue), a.recvNext, base)
          /\ ackBase' = base
          /\ ring' = [k \in Slots |->
                        IF Judged(a, overdue)[k].seq \in ackBase .. base - 1
                        THEN FreeEntry ELSE Judged(a, overdue)[k]]
    /\ unresolved' = unresolved - Cardinality(Named(a) \cap Unacked)
    /\ outstanding' = outstanding - Cardinality(Named(a) \cap Unacked)
    /\ UNCHANGED <<sessionUp, life, accepted, waiting, nextSeq, data, acks, inVars>>

(***************************************************************************)
(* The receiving side.                                                     *)
(***************************************************************************)

\* The oldest sequence the seen bitmap still describes.
Floor(highest) == IF highest >= Window THEN highest - Window + 1 ELSE 1

AlreadySeen(seq) ==
    /\ seq <= recvHighest
    /\ seq < Floor(recvHighest) \/ seen[SlotOf(seq)]

\* Mutant: a jump of one window less one already wipes the bitmap.
CommitSeenWiping(seq) ==
    /\ recvHighest' = IF seq > recvHighest THEN seq ELSE recvHighest
    /\ seen' = [k \in Slots |->
                  k = SlotOf(seq) \/ (seen[k] /\ ~(seq >= recvHighest + Window - 1))]

\* CommitSeen: slide the window up to seq, retiring what falls out, and mark it.
CommitSeen(seq) ==
    LET retired(k) ==
            /\ seq > recvHighest
            /\ \/ seq - recvHighest >= Window
               \/ \E s \in Floor(recvHighest) .. Floor(seq) - 1 : SlotOf(s) = k
    IN  /\ recvHighest' = IF seq > recvHighest THEN seq ELSE recvHighest
        /\ seen' = [k \in Slots |-> k = SlotOf(seq) \/ (seen[k] /\ ~retired(k))]

\* Mutant: only the pool is asked, not the peer's grant.
HasRoomForUngranted == occupancy < HoldCeiling

\* The peer is below its grant and the pool below its ceiling.
HasRoomFor ==
    /\ Grant # 0 => occupancy < Grant
    /\ occupancy < HoldCeiling

LaneRoom == RecvSlots - (Len(handed) - polled)

\* DrainHoldbackRun: `last` is the end of the run held behind the cursor
\* packet seq, cut short only by a full lane.
RunDrained(seq, last) ==
    /\ \A s \in seq + 1 .. last : holdback[SlotOf(s)].seq = s
    /\ last - seq + 1 <= LaneRoom
    /\ \/ holdback[SlotOf(last + 1)].seq # last + 1
       \/ last - seq + 1 = LaneRoom

Run(p, last) ==
    [i \in 1 .. last - p.seq + 1 |->
        IF i = 1 THEN p.msg ELSE holdback[SlotOf(p.seq + i - 1)].msg]

\* Mutant: a packet that was seen before is not acknowledged again.
AckOnlySilent == UNCHANGED inVars

\* Nothing of the arrival enters the flow, but an ack is owed.
AckOnly ==
    /\ ackOwed' = TRUE
    /\ UNCHANGED <<recvNext, recvHighest, seen, holdback, heldCount, occupancy,
                   handed, polled>>

\* The packet at the cursor goes to the lane with the run held behind it.
DeliverAtCursor(p) ==
    /\ p.seq = recvNext
    /\ heldCount > 0 \/ HasRoomFor
    /\ LaneRoom > 0
    /\ CommitSeen(p.seq)
    /\ \E last \in p.seq .. p.seq + Window :
          /\ RunDrained(p.seq, last)
          /\ recvNext' = last + 1
          /\ handed' = handed \o Run(p, last)
          /\ holdback' = [k \in Slots |->
                            IF holdback[k].seq \in p.seq + 1 .. last
                            THEN NotHeld ELSE holdback[k]]
          /\ heldCount' = heldCount - (last - p.seq)
    /\ occupancy' = occupancy + 1
    /\ ackOwed' = TRUE
    /\ UNCHANGED polled

CanHold(p) == HasRoomFor /\ p.seq < recvNext + Window

HoldAhead(p) ==
    /\ p.seq > recvNext
    /\ CanHold(p)
    /\ holdback[SlotOf(p.seq)].seq = 0
    /\ holdback' = [holdback EXCEPT ![SlotOf(p.seq)] = p]
    /\ heldCount' = heldCount + 1
    /\ occupancy' = occupancy + 1
    /\ CommitSeen(p.seq)
    /\ ackOwed' = TRUE
    /\ UNCHANGED <<recvNext, handed, polled>>

\* Delivered before, no room at the cursor with nothing held, or ejected ahead
\* of it: AckOnly.
DeliverOrdered(p) ==
    \/ /\ \/ p.seq < recvNext
          \/ p.seq = recvNext /\ heldCount = 0 /\ ~HasRoomFor
          \/ p.seq > recvNext /\ ~CanHold(p)
       /\ AckOnly
    \/ DeliverAtCursor(p)
    \/ HoldAhead(p)

\* Mutant: a late packet is as good as a new one.
StaleNever(p) == FALSE

\* An unreliable packet that a newer one has overtaken.
Stale(p) == ~IsReliable /\ p.seq <= recvHighest

\* A duplicate is only acked, an unreliable packet older than the newest is
\* committed and dropped, and one there is no room for is left to be resent.
DeliverUnordered(p) ==
    \/ /\ AlreadySeen(p.seq) \/ (~Stale(p) /\ ~HasRoomFor)
       /\ AckOnly
    \/ /\ ~AlreadySeen(p.seq) /\ Stale(p)
       /\ CommitSeen(p.seq)
       /\ ackOwed' = TRUE
       /\ UNCHANGED <<recvNext, holdback, heldCount, occupancy, handed, polled>>
    \/ /\ ~AlreadySeen(p.seq) /\ ~Stale(p) /\ HasRoomFor
       /\ LaneRoom > 0
       /\ CommitSeen(p.seq)
       /\ handed' = Append(handed, p.msg)
       /\ occupancy' = occupancy + 1
       /\ ackOwed' = TRUE
       /\ UNCHANGED <<recvNext, holdback, heldCount, polled>>

\* ProcessFlowIn, DeliverIn: a packet arrives in a free receive slot.  It stays
\* in `data`: a copy of it, from a resend, may still be under way.  An arrival
\* that is already held, or that finds the lane full, changes nothing.
DeliverIn(p) ==
    /\ p \in data
    /\ occupancy < RecvSlots
    /\ IF IsOrdered THEN DeliverOrdered(p) ELSE DeliverUnordered(p)
    /\ UNCHANGED <<outVars, data, acks>>

\* BuildAckRanges: the runs of set bits, newest first, at most RangeCount.
AckRanges ==
    LET isSet(s) == seen[SlotOf(s)]
        reported == Floor(recvHighest) .. recvHighest
        runEnd(s) == isSet(s) /\ (s = recvHighest \/ ~isSet(s + 1))
    IN  {s \in reported :
            isSet(s) /\ Cardinality({t \in s .. recvHighest : runEnd(t)}) <= RangeCount}

FreshAck == [recvNext |-> recvNext, ranges |-> AckRanges]

\* FlushPeerAcks: an owed ack goes out.  The network keeps at most MaxAcks acks
\* under way and loses others for it.
FlushPeerAcks ==
    /\ ackOwed
    /\ \E kept \in SUBSET acks :
          /\ Cardinality(kept) < MaxAcks
          /\ acks' = kept \cup {FreshAck}
    /\ ackOwed' = FALSE
    /\ UNCHANGED <<outVars, data, recvNext, recvHighest, seen, holdback,
                   heldCount, occupancy, handed, polled>>

\* ReclaimJammedInFlows: the cursor has not moved for the stall timeout, so what
\* is held ahead of it is dropped and un-acknowledged, and an ack is owed.
ReclaimJammedInFlows ==
    /\ StallTimer
    /\ IsOrdered
    /\ recvHighest >= recvNext
    /\ holdback' = [k \in Slots |-> NotHeld]
    /\ seen' = [k \in Slots |->
                  seen[k] /\ ~\E j \in Slots : /\ holdback[j].seq # 0
                                               /\ SlotOf(holdback[j].seq) = k]
    /\ occupancy' = occupancy - heldCount
    /\ heldCount' = 0
    /\ ackOwed' = TRUE
    /\ UNCHANGED <<outVars, data, acks, recvNext, recvHighest, handed, polled>>

\* Poll: the application takes the oldest packet of the lane.
Poll ==
    /\ polled < Len(handed)
    /\ polled' = polled + 1
    /\ occupancy' = occupancy - 1
    /\ UNCHANGED <<outVars, data, acks, recvNext, recvHighest, seen, holdback,
                   heldCount, ackOwed, handed>>

\* The network loses every copy of a packet, or an ack.
LosePacket(p) ==
    /\ p \in data
    /\ data' = data \ {p}
    /\ UNCHANGED <<outVars, acks, inVars>>

LoseAck(a) ==
    /\ a \in acks
    /\ acks' = acks \ {a}
    /\ UNCHANGED <<outVars, data, inVars>>

Next ==
    \/ AdmitSent \/ AdmitQueued \/ CommitSession \/ ClaimWaiting
    \/ \E due \in SUBSET InFlight : ExpireInflight(due)
    \/ \E due \in SUBSET InFlight : \E sent \in SUBSET due : RetransmitInflight(due, sent)
    \/ FailAssoc
    \/ \E a \in acks : \E overdue \in SUBSET Unacked : ApplyAckRanges(a, overdue)
    \/ \E p \in data : DeliverIn(p)
    \/ FlushPeerAcks \/ ReclaimJammedInFlows \/ Poll
    \/ \E p \in data : LosePacket(p)
    \/ \E a \in acks : LoseAck(a)

Spec == Init /\ [][Next]_vars

\* The update loop keeps running, the application keeps polling, the kernel and
\* the pacing clock do not refuse for ever, and the network does not lose every
\* copy of a packet, or every ack that states the receiver's present cursor.
Fairness ==
    /\ WF_vars(CommitSession) /\ WF_vars(ClaimWaiting)
    /\ \A k \in Slots : WF_vars(k \in InFlight /\ RetransmitInflight({k}, {k}))
    /\ \A s \in 1 .. MaxMsgs : SF_vars(\E p \in data : p.seq = s /\ DeliverIn(p))
    /\ WF_vars(FlushPeerAcks) /\ WF_vars(Poll)
    /\ SF_vars(\E overdue \in SUBSET Unacked : ApplyAckRanges(FreshAck, overdue))

FairSpec == Spec /\ Fairness

TypeOK ==
    /\ sessionUp \in BOOLEAN /\ life \in {"OPEN", "FAILED"}
    /\ accepted \in Nat /\ waiting \in Seq(Nat)
    /\ nextSeq \in Nat \ {0} /\ ackBase \in 1 .. nextSeq
    /\ ring \in [Slots -> InFlightEntry]
    /\ unresolved \in Int /\ outstanding \in Int
    /\ data \subseteq Packet /\ acks \subseteq Ack
    /\ recvNext \in Nat \ {0} /\ recvHighest \in Nat
    /\ seen \in [Slots -> BOOLEAN] /\ holdback \in [Slots -> Packet]
    /\ heldCount \in Int /\ ackOwed \in BOOLEAN /\ occupancy \in Int
    /\ handed \in Seq(Nat) /\ polled \in 0 .. Len(handed)

(***************************************************************************)
(* Properties.                                                             *)
(***************************************************************************)

Delivered == {handed[i] : i \in 1 .. Len(handed)}

\* An ordered flow hands the application exactly the messages it accepted, once
\* each and in order, whatever the network loses, repeats or reorders and
\* whenever the receiver drops its hold-back (DeliverOrdered).
InOrderExactlyOnce ==
    IsOrdered => \A i \in 1 .. Len(handed) : handed[i] = i /\ i <= accepted

\* The flow implements the channel its mode promises: in order for an ordered
\* flow, once each for an unordered one, and never an older message after a
\* newer one for an unreliable one, with no delivery undone (FlowMode).
Channel == INSTANCE MessageChannel WITH
    sent <- accepted,
    received <- handed,
    broken <- (life = "FAILED"),
    Promise <- IF IsOrdered THEN "fifo" ELSE IF IsReliable THEN "once" ELSE "newest"

ImplementsChannel == Channel!ChannelSpec

\* A live reliable flow never forgets an accepted message before the receiving
\* application has it: it waits, or the in-flight ring still has its copy, even
\* after the receiver acknowledged it and took the acknowledgement back
\* (ResolveOutEntry, ReleaseAckedRun, DropInHoldback).
NothingForgotten ==
    IsReliable /\ life = "OPEN" =>
        \A m \in 1 .. accepted :
            \/ m \in Delivered
            \/ \E i \in 1 .. Len(waiting) : waiting[i] = m
            \/ \E k \in Slots : ring[k].seq # 0 /\ ring[k].msg = m

\* What the sender may have in flight, the receiver can still place: no
\* undelivered sequence lies beyond the reorder window of an ordered flow, or
\* below the seen window of an unordered one, where it would be taken for a
\* duplicate (CanSend against DeliverOrdered and AlreadySeen).
InFlightInsideWindow ==
    life = "OPEN" =>
        /\ IsOrdered => nextSeq <= recvNext + Window
        /\ IsReliable /\ ~IsOrdered =>
              \A k \in Slots :
                  ring[k].seq # 0 /\ ring[k].msg \notin Delivered =>
                      ~AlreadySeen(ring[k].seq)

\* The counters that gate sending are exactly the unresolved entries of the
\* ring: a drifting counter would starve the flow or overrun the peer
\* (StampFlowPacket, ResolveOutEntry, FailAssoc).
SendAccounting ==
    unresolved = Cardinality(Unacked) /\ outstanding = Cardinality(Unacked)

\* Every pinned receive slot is in the lane or in the hold-back, and is counted
\* once; the counters fit the pool (PinOne, ReleaseOne, DropInHoldback).
RecvAccounting ==
    /\ heldCount = Cardinality({k \in Slots : holdback[k].seq # 0})
    /\ occupancy = (Len(handed) - polled) + heldCount
    /\ occupancy <= RecvSlots

\* One peer's share of the receive pool is bounded by its grant and the holes of
\* one reorder window: cursor packets enter past the grant only while something
\* is held behind them (DeliverOrdered, HasRoomFor).
GrantBoundsShare ==
    Grant # 0 => occupancy <= Grant + Window - 1

\* The packet at the cursor is never one that is held: a run always drains to
\* its end, since the lane has room for the whole pool (DrainHoldbackRun).
CursorNeverHeld ==
    holdback[SlotOf(recvNext)].seq # recvNext

\* The counters of the sending gate and of the receiver's pool are exactly what
\* they count, what is in flight fits the receiver's window, no peer takes more
\* than its share, and no cursor waits for what is held (StampFlowPacket,
\* ResolveOutEntry, FailAssoc, DeliverOrdered, ReclaimJammedInFlows).
Accounting ==
    /\ TypeOK /\ SendAccounting /\ RecvAccounting
    /\ InFlightInsideWindow /\ GrantBoundsShare /\ CursorNeverHeld

\* Every accepted message is delivered, unless the flow is declared failed.
EveryMessageDelivered ==
    \A m \in 1 .. MaxMsgs : (accepted >= m) ~> (m \in Delivered \/ life = "FAILED")

(***************************************************************************)
(* Why a flow is right: the parts of its inductive invariant.              *)
(***************************************************************************)

\* The waiting ring continues the numbering where the in-flight ring stops.
WaitingFollows ==
    /\ accepted >= nextSeq - 1
    /\ life = "OPEN" => accepted = nextSeq - 1 + Len(waiting)
    /\ life = "FAILED" => waiting = <<>>
    /\ \A i \in 1 .. Len(waiting) : waiting[i] = nextSeq - 1 + i

\* A sequence always carries the message of the same number, wherever it is.
CarriesItsMessage(q) == q.msg = q.seq /\ q.seq < nextSeq

RingCarries ==
    \A k \in InFlight : CarriesItsMessage(ring[k]) /\ SlotOf(ring[k].seq) = k

PacketsCarry ==
    \A p \in data : CarriesItsMessage(p) /\ p.seq # 0

HoldbackCarries ==
    \A k \in Slots : holdback[k].seq # 0 => CarriesItsMessage(holdback[k])

\* The cursor counts what was handed over, and never passes what was sent.
CursorCounts ==
    /\ Len(handed) = recvNext - 1
    /\ recvNext <= nextSeq
    /\ \A i \in 1 .. Len(handed) : handed[i] = i

\* No ack claims a cursor the receiver has not reached.
AcksBehindCursor ==
    \A a \in acks : a.recvNext <= recvNext

\* Everything stamped and not yet past the receiver's cursor is still retained,
\* and fits one window.
Retained ==
    life = "OPEN" =>
        /\ \A s \in recvNext .. nextSeq - 1 : ring[SlotOf(s)].seq = s
        /\ nextSeq <= recvNext + Window

\* Together: what makes InOrderExactlyOnce and NothingForgotten inductive.
OrderedInv ==
    IsOrdered =>
        /\ WaitingFollows /\ RingCarries /\ PacketsCarry /\ HoldbackCarries
        /\ CursorCounts /\ AcksBehindCursor /\ Retained

\* An entry of the in-flight ring lies in the slot of its sequence, and only an
\* ordered flow keeps the entries that were acknowledged (ResolveOutEntry).
RingInPlace ==
    /\ \A k \in InFlight : SlotOf(ring[k].seq) = k
    /\ ~IsOrdered => \A k \in Slots : ~ring[k].acked

Held == {k \in Slots : holdback[k].seq # 0}

\* What is held lies in the slot of its sequence, ahead of the cursor and inside
\* the reorder window, and nothing is held on an unordered flow.
HeldInPlace ==
    /\ \A k \in Held : /\ SlotOf(holdback[k].seq) = k
                       /\ recvNext < holdback[k].seq
                       /\ holdback[k].seq < recvNext + Window
    /\ ~IsOrdered => Held = {}

\* While something is held, every sequence up to the newest of it that is not
\* held may still be let in past the grant: the share leaves room for them all.
HolesCounted ==
    Grant # 0 =>
        /\ occupancy <= Grant + Window - 1
        /\ Held # {} =>
              \E top \in 0 .. recvNext + Window :
                  /\ \A k \in Held : holdback[k].seq <= top
                  /\ occupancy + (top - recvNext) + 1 - heldCount <= Grant + Window - 1

RecvInv == RecvAccounting /\ HeldInPlace /\ HolesCounted

\* The bitmap speaks for the sequences in D: each is seen, and each bit that is
\* set is that of one of them inside the window.
BitmapOf(D) ==
    /\ \A s \in D : AlreadySeen(s)
    /\ \A k \in Slots : seen[k] =>
          \E s \in Floor(recvHighest) .. recvHighest : SlotOf(s) = k /\ s \in D

\* Of everything stamped, the receiver has it or the sender still has the copy,
\* and the sender is less than a window ahead of it.
KeptOrDelivered ==
    life = "OPEN" =>
        \A s \in 1 .. nextSeq - 1 :
            s \in Delivered \/ (ring[SlotOf(s)].seq = s /\ nextSeq <= s + Window)

\* No ack names what was not delivered, and none carries a cursor.
AcksDelivered ==
    recvNext = 1 /\ \A a \in acks : a.recvNext = 1 /\ a.ranges \subseteq Delivered

\* What was delivered was stamped and is marked, and nothing was delivered twice.
DeliveredOnce ==
    /\ recvHighest < nextSeq
    /\ \A s \in Delivered : s \in 1 .. nextSeq - 1
    /\ BitmapOf(Delivered)
    /\ \A i, j \in 1 .. Len(handed) : handed[i] = handed[j] => i = j

\* Together: the invariant of a reliable flow that is not ordered.
UnorderedInv ==
    /\ WaitingFollows /\ RingCarries /\ PacketsCarry
    /\ KeptOrDelivered /\ AcksDelivered /\ DeliveredOnce

Queued == {waiting[i] : i \in 1 .. Len(waiting)}

\* Sequences and messages grow together: a later packet carries a later message,
\* what waits is later than what was stamped, and a packet the receiver has not
\* passed carries a later message than any it handed over.
NewestInv ==
    /\ \A p \in data : p.seq < nextSeq /\ p.msg \in 1 .. accepted
    /\ \A p, q \in data : p.seq < q.seq => p.msg < q.msg
    /\ \A m \in Queued : m \in 1 .. accepted
    /\ \A i, j \in 1 .. Len(waiting) : i < j => waiting[i] < waiting[j]
    /\ \A p \in data, m \in Queued : p.msg < m
    /\ \A d \in Delivered : d \in 1 .. accepted
    /\ \A d \in Delivered, m \in Queued : d < m
    /\ \A d \in Delivered, p \in data : p.seq > recvHighest => d < p.msg
    /\ \A i, j \in 1 .. Len(handed) : i < j => handed[i] < handed[j]

\* The counters are exact, and what is in the rings lies where its sequence says.
CountsInv == SendAccounting /\ RingInPlace /\ RecvInv

\* The invariant of the flow's mode, when it is not ordered.
ModeInv ==
    /\ IsReliable /\ ~IsOrdered => UnorderedInv
    /\ ~IsReliable => NewestInv
=============================================================================
