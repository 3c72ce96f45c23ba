----------------------------- MODULE Transfers -----------------------------
(***************************************************************************)
(* Transfers of one peer to another: the sender's and the receiver's       *)
(* TransferTable, the send pass of the tick, the three handlers            *)
(* Transfer_Data, Transfer_Ack and Transfer_Reject, the application's      *)
(* calls, and the removal of the peer at either end.                       *)
(*                                                                         *)
(* Abstractions.  The application never reuses an id, so a transfer is its *)
(* id; every transfer is Count packets long.  Time is abstracted: a        *)
(* retransmit or an announcement may be overdue at any moment, and pacing  *)
(* may end a pass after any packet, so a pass of several packets is several*)
(* steps.  The congestion budget and the peer's grant are one count of     *)
(* packets, Budget.  ackOwed is set and consumed by the same handler, so   *)
(* it is a local value here.                                               *)
(***************************************************************************)
EXTENDS Integers, FiniteSets, Sequences, FiniteSetsExt

CONSTANTS
    Ids,           \* transfer ids the sending application uses, once each
    OutCount,      \* slots of the sender's pool of outgoing transfers
    InCount,       \* slots of the receiver's pool of incoming transfers
    MaxPerPeer,    \* MAX_PER_PEER, the entries of one directory row
    Count,         \* packetCount of a transfer
    Window,        \* TRANSFER_WINDOW, the length of the per-packet rings
    AckEvery,      \* ACK_EVERY_PACKETS
    Budget,        \* packets the peer's budget and grant leave outstanding
    Faults,        \* schedules the instance allows, of the three below
    MaxLoss, MaxAnnounces, MaxAcks, MaxSweeps   \* bounds of the instance

(* "reorder": acknowledgements may overtake one another.  "slowpoll": a     *)
(* finished entry may wait in the queue while its slot is acknowledged again*)
(* or swept.  "late": an announcement may arrive after the receiver's       *)
(* application has completed or refused the transfer.                       *)
ASSUME FaultsAssumption == Faults \subseteq {"reorder", "slowpoll", "late"}

(* A run of no packets is refused (PacketsFor, BeginSend), and the rings     *)
(* have at least one entry.                                                  *)
ASSUME SizesAssumption ==
    /\ 0 \notin Ids
    /\ OutCount \in Nat /\ InCount \in Nat /\ Budget \in Nat
    /\ Count \in Nat \ {0} /\ Window \in Nat \ {0} /\ AckEvery \in Nat \ {0}

NoSlot == 0
OutSlots == 1..OutCount
InSlots == 1..InCount
Seqs == 0..(Count - 1)
Rings == 0..(Window - 1)
NoOut == [id |-> 0]
NoIn == [id |-> 0]

VARIABLES
    up,          \* which side still knows the other as a peer
    out, outDir, outFree, outJam,   \* the sender's slots, directory and pool
    outFinished,                    \* and its queue of finished transfers
    outstanding,                    \* outstandingToPeer / bytesInFlight
    inn, inDir, inFree, inFinished, \* the receiver's
    net,         \* announcements, data and refusals under way
    acks,        \* acknowledgements under way, oldest first
    reported,    \* what PollTransfers told the sending application
    whole,       \* transfers whose bytes all reached the receiver's buffer
    stranded,    \* transfers that met one of the schedules of Strand below
    letGo,       \* transfers the receiver's application completed or refused
    begun, announces, lost, sweeps  \* counters for the bounds

sendVars == <<out, outDir, outFree, outJam, outFinished, outstanding, reported>>
recvVars == <<inn, inDir, inFree, inFinished, whole, letGo>>
netVars == <<net, acks>>
vars == <<up, sendVars, recvVars, netVars, stranded, begun, announces, lost, sweeps>>

NewOut(b) == [id |-> b, announced |-> FALSE, announceAcked |-> FALSE,
              refused |-> FALSE, nextSeq |-> 0, contiguousAcked |-> 0,
              stamped |-> {}, acked |-> {}]

NewIn(b) == [id |-> b, allowed |-> FALSE, complete |-> FALSE, recvNext |-> 0,
             placed |-> {}, sinceAck |-> 0, buffer |-> {}]

Init ==
    /\ up = [sender |-> TRUE, receiver |-> TRUE]
    /\ out = [s \in OutSlots |-> NoOut] /\ outDir = [b \in Ids |-> NoSlot]
    /\ outFree = OutSlots /\ outJam = {} /\ outFinished = <<>>
    /\ outstanding = 0
    /\ inn = [s \in InSlots |-> NoIn] /\ inDir = [b \in Ids |-> NoSlot]
    /\ inFree = InSlots /\ inFinished = <<>>
    /\ net = {} /\ acks = <<>>
    /\ reported = [b \in Ids |-> "none"]
    /\ whole = {} /\ letGo = {} /\ stranded = {} /\ begun = {}
    /\ announces = 0 /\ lost = 0 /\ sweeps = 0

-----------------------------------------------------------------------------
(* The sending application and the sender's table. *)

Ring(seq) == seq % Window

\* Entries of a peer's row of a directory.
Held(dir) == {b \in Ids : dir[b] # NoSlot}

\* The cells PollTransfers drains hold one entry per slot of either pool.
FinishedRoom == Len(outFinished) < OutCount + InCount

PushFinished(s, outcome) ==
    IF FinishedRoom THEN Append(outFinished, [slot |-> s, outcome |-> outcome])
                    ELSE outFinished

FinishedOut(s) == \E k \in 1..Len(outFinished) : outFinished[k].slot = s

(* SlotPool::Release.  A pool of at most sixteen slots gives every slot a   *)
(* ring of its own: releasing a slot that is already free advances that     *)
(* ring's sequence past what Acquire waits for, and the ring is jammed.     *)
ReleaseOut(slots) ==
    /\ outFree' = outFree \cup slots
    /\ outJam' = outJam \cup (slots \cap outFree)

(* SendTransfer: refused while the id is running, when the peer's row is    *)
(* full and when the pool is empty.                                         *)
SendTransfer(b) ==
    /\ up.sender
    /\ b \notin begun
    /\ outDir[b] = NoSlot
    /\ Cardinality(Held(outDir)) < MaxPerPeer
    /\ \E s \in outFree \ outJam :
         /\ outFree' = outFree \ {s}
         /\ out' = [out EXCEPT ![s] = NewOut(b)]
         /\ outDir' = [outDir EXCEPT ![b] = s]
    /\ begun' = begun \cup {b}
    /\ UNCHANGED <<up, outJam, outFinished, outstanding, reported, recvVars,
                   netVars, stranded, announces, lost, sweeps>>

(* PollTransfers, one entry.  An outgoing entry resets whatever the slot    *)
(* now holds, clears the directory entries naming the slot and releases it. *)
PollSent ==
    /\ outFinished # <<>>
    /\ LET e == Head(outFinished)
           o == out[e.slot]
       IN /\ out' = [out EXCEPT ![e.slot] = NoOut]
          /\ outDir' = [b \in Ids |-> IF outDir[b] = e.slot THEN NoSlot ELSE outDir[b]]
          /\ reported' = IF o = NoOut THEN reported
                         ELSE [reported EXCEPT ![o.id] = e.outcome]
          /\ ReleaseOut({e.slot})
    /\ outFinished' = Tail(outFinished)
    /\ UNCHANGED <<up, outstanding, recvVars, netVars, stranded, begun,
                   announces, lost, sweeps>>

-----------------------------------------------------------------------------
(* TransferPass: what the tick may do for one transfer of an established    *)
(* peer.  A refused transfer is passed over.                                *)

Sending(b) == up.sender /\ outDir[b] # NoSlot /\ ~out[outDir[b]].refused

TransferBudgetAllows == outstanding < Budget

SendAnnounce(b) ==
    /\ Sending(b)
    /\ ~out[outDir[b]].announced
    /\ TransferBudgetAllows
    /\ out' = [out EXCEPT ![outDir[b]].announced = TRUE]
    /\ outstanding' = outstanding + 1
    /\ net' = net \cup {[type |-> "announce", id |-> b]}
    /\ announces' = announces + 1
    /\ UNCHANGED <<up, outDir, outFree, outJam, outFinished, reported, recvVars,
                   acks, stranded, begun, lost, sweeps>>

AnnounceOverdue(b) ==
    /\ Sending(b)
    /\ out[outDir[b]].announced /\ ~out[outDir[b]].announceAcked
    /\ announces < MaxAnnounces
    /\ [type |-> "announce", id |-> b] \notin net
    /\ out' = [out EXCEPT ![outDir[b]].announced = FALSE]
    /\ UNCHANGED <<up, outDir, outFree, outJam, outFinished, outstanding, reported,
                   recvVars, netVars, stranded, begun, announces, lost, sweeps>>

\* mutant of MarkSent: the acknowledged mark of the ring's last user stays.
MarkSentKeepAcked(o, seq) == [o EXCEPT !.stamped = @ \cup {Ring(seq)}]

\* MarkSent.
MarkSent(o, seq) ==
    [o EXCEPT !.stamped = @ \cup {Ring(seq)}, !.acked = @ \ {Ring(seq)}]

(* The window bounds the span above the progress cursor, not the count in   *)
(* flight.                                                                  *)
WindowAllows(o) == o.nextSeq < Count /\ o.nextSeq < o.contiguousAcked + Window

SendNew(b) ==
    /\ Sending(b)
    /\ LET o == out[outDir[b]]
       IN /\ o.announceAcked
          /\ WindowAllows(o)
          /\ TransferBudgetAllows
          /\ out' = [out EXCEPT ![outDir[b]] =
                        [MarkSent(o, o.nextSeq) EXCEPT !.nextSeq = o.nextSeq + 1]]
          /\ net' = net \cup {[type |-> "data", id |-> b, seq |-> o.nextSeq]}
    /\ outstanding' = outstanding + 1
    /\ UNCHANGED <<up, outDir, outFree, outJam, outFinished, reported, recvVars,
                   acks, stranded, begun, announces, lost, sweeps>>

\* mutant of Overdue: the walk starts past the progress cursor.
OverduePastCursor(o) == {seq \in (o.contiguousAcked + 1)..(o.nextSeq - 1) :
                            Ring(seq) \notin o.acked /\ Ring(seq) \in o.stamped}

\* OldestOverdue: a sequence that is neither acknowledged nor unsent.
Overdue(o) == {seq \in o.contiguousAcked..(o.nextSeq - 1) :
                  Ring(seq) \notin o.acked /\ Ring(seq) \in o.stamped}

\* mutant of SpendResend: a retransmission is charged again.
SpendResendTwice(n) == n + 1

\* A retransmission takes only the clock.
SpendResend(n) == n

Resend(b) ==
    /\ Sending(b)
    /\ LET o == out[outDir[b]]
       IN /\ o.announceAcked
          /\ \E seq \in Overdue(o) :
               /\ [type |-> "data", id |-> b, seq |-> seq] \notin net
               /\ out' = [out EXCEPT ![outDir[b]] = MarkSent(o, seq)]
               /\ net' = net \cup {[type |-> "data", id |-> b, seq |-> seq]}
    /\ outstanding' = SpendResend(outstanding)
    /\ UNCHANGED <<up, outDir, outFree, outJam, outFinished, reported, recvVars,
                   acks, stranded, begun, announces, lost, sweeps>>

-----------------------------------------------------------------------------
(* The receiver: Transfer_Data, and the application's answers. *)

(* OnAnnounce.  A repeated announcement finds the transfer and changes      *)
(* nothing; a full row or an empty pool refuses it.                         *)
Announceable(b) ==
    inDir[b] = NoSlot /\ Cardinality(Held(inDir)) < MaxPerPeer /\ inFree # {}

\* TakeAckDebt: an answer is owed at once, or for every AckEvery arrivals.
AckDue(r, owed) == owed \/ r.sinceAck >= AckEvery

\* ReceiveState: the cursor, and the packets placed above it.
AckOf(r) == [id |-> r.id, recvNext |-> r.recvNext,
             bits |-> {i \in Rings : /\ r.recvNext + i < Count
                                     /\ Ring(r.recvNext + i) \in r.placed}]

Answer(s, r, owed) ==
    /\ inn' = [inn EXCEPT ![s] = IF AckDue(r, owed) THEN [r EXCEPT !.sinceAck = 0] ELSE r]
    /\ acks' = IF AckDue(r, owed) THEN Append(acks, AckOf(r)) ELSE acks

ReceiveAnnounce(m) ==
    /\ m.type = "announce" /\ up.receiver /\ Len(acks) < MaxAcks
    /\ "late" \notin Faults => m.id \notin letGo
    /\ net' = net \ {m}
    /\ \/ /\ inDir[m.id] # NoSlot
          /\ Answer(inDir[m.id], inn[inDir[m.id]], FALSE)
          /\ UNCHANGED <<inDir, inFree>>
       \/ /\ Announceable(m.id)
          /\ \E s \in inFree :
               /\ inFree' = inFree \ {s}
               /\ inDir' = [inDir EXCEPT ![m.id] = s]
               /\ Answer(s, NewIn(m.id), TRUE)
       \/ /\ inDir[m.id] = NoSlot /\ ~Announceable(m.id)
          /\ UNCHANGED <<inn, acks, inDir, inFree>>
    /\ UNCHANGED <<up, sendVars, inFinished, whole, letGo, stranded, begun, announces,
                   lost, sweeps>>

(* The cursor walks over everything now contiguous, clearing each bit as it *)
(* passes, because the ring is reused by the sequence a window later.       *)
CursorAfter(recvNext, placed) ==
    Max({n \in recvNext..Count :
            \A seq \in recvNext..(n - 1) :
                Ring(seq) \in placed /\ seq < recvNext + Window})

\* mutant of Advance: the bits stay set as the cursor passes.
AdvanceKeepBits(r, placed) ==
    LET n == CursorAfter(r.recvNext, placed)
    IN [r EXCEPT !.recvNext = n, !.placed = placed, !.complete = n >= Count]

Advance(r, placed) ==
    LET n == CursorAfter(r.recvNext, placed)
    IN [r EXCEPT !.recvNext = n,
                 !.placed = placed \ {Ring(seq) : seq \in r.recvNext..(n - 1)},
                 !.complete = n >= Count]

\* OnData for a transfer with a buffer, and whether the answer is owed at once.
Place(r, seq) ==
    IF seq < r.recvNext \/ Ring(seq) \in r.placed
    THEN [r |-> r, owed |-> TRUE]
    ELSE LET after == Advance([r EXCEPT !.buffer = @ \cup {seq}],
                              r.placed \cup {Ring(seq)})
         IN [r |-> after,
             owed |-> seq # r.recvNext \/ after.recvNext # r.recvNext]

ReceiveData(m) ==
    /\ m.type = "data" /\ up.receiver /\ Len(acks) < MaxAcks
    /\ net' = net \ {m}
    /\ LET s == inDir[m.id]
       IN \/ /\ s = NoSlot
             /\ UNCHANGED <<inn, acks, inFinished, whole>>
          \/ /\ s # NoSlot
             /\ LET r == [inn[s] EXCEPT !.sinceAck = @ + 1]
                    done == CASE ~r.allowed -> [r |-> r, owed |-> TRUE]
                              [] r.allowed /\ r.complete -> [r |-> r, owed |-> FALSE]
                              [] OTHER -> Place(r, m.seq)
                IN /\ Answer(s, done.r, done.owed)
                   /\ inFinished' = IF done.r.complete /\ ~r.complete
                                    THEN Append(inFinished, s) ELSE inFinished
                   /\ whole' = IF done.r.complete /\ done.r.buffer = Seqs
                               THEN whole \cup {m.id} ELSE whole
    /\ UNCHANGED <<up, sendVars, inDir, inFree, letGo, stranded, begun, announces,
                   lost, sweeps>>

\* PendingTransfer finds a request: announced and not yet answered.
Pending(b) == up.receiver /\ inDir[b] # NoSlot /\ ~inn[inDir[b]].allowed

(* AllowTransfer attaches the buffer. *)
AllowTransfer(b) ==
    /\ Pending(b)
    /\ inn' = [inn EXCEPT ![inDir[b]].allowed = TRUE]
    /\ UNCHANGED <<up, sendVars, inDir, inFree, inFinished, whole, letGo, netVars,
                   stranded, begun, announces, lost, sweeps>>

DropIn(b) ==
    /\ inn' = [inn EXCEPT ![inDir[b]] = NoIn]
    /\ inFree' = inFree \cup {inDir[b]}
    /\ inDir' = [inDir EXCEPT ![b] = NoSlot]
    /\ letGo' = letGo \cup {b}

(* RejectTransfer, of a request not yet allowed: the transfer is dropped    *)
(* and the peer told, once.                                                 *)
RejectTransfer(b) ==
    /\ Pending(b)
    /\ DropIn(b)
    /\ net' = net \cup {[type |-> "reject", id |-> b]}
    /\ UNCHANGED <<up, sendVars, inFinished, whole, acks, stranded, begun,
                   announces, lost, sweeps>>

\* TransferProgress of an incoming transfer.
Progress(b) == inn[inDir[b]].recvNext

\* PollTransfers on the receiver: the view is handed out and the slot stays.
PollArrived ==
    /\ inFinished # <<>>
    /\ inFinished' = Tail(inFinished)
    /\ UNCHANGED <<up, sendVars, inn, inDir, inFree, whole, letGo, netVars, stranded,
                   begun, announces, lost, sweeps>>

FinalAckUnderWay(b) ==
    \E k \in 1..Len(acks) : acks[k].id = b /\ acks[k].recvNext = Count

FullyAcked(b) == outDir[b] # NoSlot /\ out[outDir[b]].contiguousAcked = Count

(* CompleteTransfer, called once the transfer was polled.  From here on the *)
(* receiver answers nothing about it.                                       *)
CompleteTransfer(b) ==
    /\ up.receiver /\ inDir[b] # NoSlot
    /\ inn[inDir[b]].complete
    /\ \A k \in 1..Len(inFinished) : inFinished[k] # inDir[b]
    /\ DropIn(b)
    /\ stranded' = IF FullyAcked(b) \/ FinalAckUnderWay(b) THEN stranded
                   ELSE stranded \cup {b}
    /\ UNCHANGED <<up, sendVars, inFinished, whole, netVars, begun, announces,
                   lost, sweeps>>

-----------------------------------------------------------------------------
(* The sender's two handlers. *)

\* TransferResolve / ApplyCongestion: what resolved goes back, never below zero.
Refund(freed) == IF freed <= outstanding THEN outstanding - freed ELSE 0

(* OnAck: everything below the cursor, and every bit above the cursor the   *)
(* acknowledgement itself carries, resolves its ring entry.                 *)
Resolved(o, a) ==
    {Ring(seq) : seq \in o.contiguousAcked..(a.recvNext - 1)}
        \cup {Ring(a.recvNext + i) : i \in a.bits}

\* mutant of OnAck: the progress cursor jumps to the highest bit.
OnAckHighest(o, a) ==
    [o EXCEPT !.announceAcked = TRUE,
              !.stamped = @ \ Resolved(o, a),
              !.acked = @ \cup Resolved(o, a),
              !.contiguousAcked = Max({@, a.recvNext} \cup {a.recvNext + i + 1 : i \in a.bits})]

OnAck(o, a) ==
    [o EXCEPT !.announceAcked = TRUE,
              !.stamped = @ \ Resolved(o, a),
              !.acked = @ \cup Resolved(o, a),
              !.contiguousAcked = Max({@, a.recvNext})]

ReceiveAck(k) ==
    /\ up.sender
    /\ LET a == acks[k]
           s == outDir[a.id]
       IN /\ acks' = SubSeq(acks, 1, k - 1) \o SubSeq(acks, k + 1, Len(acks))
          /\ stranded' = IF \E j \in 1..(k - 1) : acks[j].id = a.id
                         THEN stranded \cup {a.id} ELSE stranded
          /\ \/ /\ s = NoSlot
                /\ UNCHANGED <<out, outFinished, outstanding>>
             \/ /\ s # NoSlot
                /\ "slowpoll" \notin Faults => ~FinishedOut(s)
                /\ out' = [out EXCEPT ![s] = OnAck(@, a)]
                /\ outstanding' = Refund(Cardinality(out[s].stamped \cap Resolved(out[s], a)))
                /\ outFinished' = IF out'[s].contiguousAcked >= Count
                                  THEN PushFinished(s, "ok") ELSE outFinished
    /\ UNCHANGED <<up, outDir, outFree, outJam, reported, recvVars, net, begun,
                   announces, lost, sweeps>>

\* OnRefused, once per transfer.
OnRefused(o) == [o EXCEPT !.stamped = {}, !.refused = TRUE]

ReceiveReject(m) ==
    /\ m.type = "reject" /\ up.sender
    /\ net' = net \ {m}
    /\ LET s == outDir[m.id]
       IN \/ /\ s # NoSlot /\ ~out[s].refused
             /\ "slowpoll" \notin Faults => ~FinishedOut(s)
             /\ outstanding' = Refund(Cardinality(out[s].stamped))
             /\ out' = [out EXCEPT ![s] = OnRefused(@)]
             /\ outFinished' = PushFinished(s, "refused")
          \/ /\ s = NoSlot \/ (s # NoSlot /\ out[s].refused)
             /\ UNCHANGED <<out, outFinished, outstanding>>
    /\ UNCHANGED <<up, outDir, outFree, outJam, reported, recvVars, acks,
                   stranded, begun, announces, lost, sweeps>>

-----------------------------------------------------------------------------
(* The path, and the removal of the peer. *)

LoseMessage(m) ==
    /\ lost < MaxLoss
    /\ m.type = "announce" => announces < MaxAnnounces
    /\ net' = net \ {m}
    /\ lost' = lost + 1
    /\ stranded' = IF m.type = "reject" THEN stranded \cup {m.id} ELSE stranded
    /\ UNCHANGED <<up, sendVars, recvVars, acks, begun, announces, sweeps>>

(* The loss of an answer nobody repeats: the answer to an announcement, and *)
(* the last acknowledgement of a transfer the receiver has let go.          *)
Strand(a) ==
    \/ outDir[a.id] # NoSlot /\ ~out[outDir[a.id]].announceAcked
    \/ inDir[a.id] = NoSlot

LoseAck(k) ==
    /\ lost < MaxLoss
    /\ acks' = SubSeq(acks, 1, k - 1) \o SubSeq(acks, k + 1, Len(acks))
    /\ lost' = lost + 1
    /\ stranded' = IF Strand(acks[k]) THEN stranded \cup {acks[k].id} ELSE stranded
    /\ UNCHANGED <<up, sendVars, recvVars, net, begun, announces, sweeps>>

(* SweepPeer at the sender, and the peer's counters with it: every transfer *)
(* in the row is dropped and its slot released.  The finished queue is not  *)
(* searched.                                                                *)
SweepSender ==
    /\ up.sender /\ sweeps < MaxSweeps
    /\ "slowpoll" \notin Faults => outFinished = <<>>
    /\ up' = [up EXCEPT !.sender = FALSE]
    /\ LET slots == {outDir[b] : b \in Held(outDir)}
       IN /\ out' = [s \in OutSlots |-> IF s \in slots THEN NoOut ELSE out[s]]
          /\ ReleaseOut(slots)
    /\ outDir' = [b \in Ids |-> NoSlot]
    /\ outstanding' = 0
    /\ sweeps' = sweeps + 1
    /\ UNCHANGED <<outFinished, reported, recvVars, netVars, stranded, begun,
                   announces, lost>>

SweepReceiver ==
    /\ up.receiver /\ ~up.sender
    /\ "slowpoll" \notin Faults => inFinished = <<>>
    /\ up' = [up EXCEPT !.receiver = FALSE]
    /\ inn' = [s \in InSlots |-> NoIn]
    /\ inFree' = inFree \cup {inDir[b] : b \in Held(inDir)}
    /\ inDir' = [b \in Ids |-> NoSlot]
    /\ UNCHANGED <<sendVars, inFinished, whole, letGo, netVars, stranded, begun,
                   announces, lost, sweeps>>

(* A new session: packets of the old one no longer open. *)
Reconnect ==
    /\ ~up.sender /\ ~up.receiver
    /\ up' = [sender |-> TRUE, receiver |-> TRUE]
    /\ net' = {} /\ acks' = <<>>
    /\ UNCHANGED <<sendVars, recvVars, stranded, begun, announces, lost, sweeps>>

Deliverable == IF "reorder" \in Faults THEN 1..Len(acks) ELSE 1..Min({1, Len(acks)})

Next ==
    \/ \E b \in Ids : SendTransfer(b)
    \/ \E b \in Ids : SendAnnounce(b)
    \/ \E b \in Ids : AnnounceOverdue(b)
    \/ \E b \in Ids : SendNew(b)
    \/ \E b \in Ids : Resend(b)
    \/ \E b \in Ids : AllowTransfer(b)
    \/ \E b \in Ids : RejectTransfer(b)
    \/ \E b \in Ids : CompleteTransfer(b)
    \/ PollSent \/ PollArrived
    \/ \E m \in net : ReceiveAnnounce(m)
    \/ \E m \in net : ReceiveData(m)
    \/ \E m \in net : ReceiveReject(m)
    \/ \E m \in net : LoseMessage(m)
    \/ \E k \in Deliverable : ReceiveAck(k)
    \/ \E k \in 1..Len(acks) : LoseAck(k)
    \/ SweepSender \/ SweepReceiver \/ Reconnect

Spec == Init /\ [][Next]_vars

Messages ==
    [type : {"announce", "reject"}, id : Ids]
        \cup [type : {"data"}, id : Ids, seq : Seqs]

Receive(m) ==
    m \in net /\ (ReceiveAnnounce(m) \/ ReceiveData(m) \/ ReceiveReject(m))

(* The tick runs again and again and passes over every transfer, both       *)
(* applications poll, the receiver's answers every request, and what is     *)
(* not lost arrives.  Nothing is assumed of CompleteTransfer.               *)
Fairness ==
    /\ \A b \in Ids : /\ WF_vars(SendAnnounce(b)) /\ WF_vars(AnnounceOverdue(b))
                       /\ SF_vars(SendNew(b)) /\ SF_vars(Resend(b))
                       /\ WF_vars(AllowTransfer(b) \/ RejectTransfer(b))
    /\ WF_vars(PollSent) /\ WF_vars(PollArrived)
    /\ \A m \in Messages : SF_vars(Receive(m))
    /\ WF_vars(acks # <<>> /\ ReceiveAck(1))

FairSpec == Spec /\ Fairness

-----------------------------------------------------------------------------
(* Properties. *)

OutEntry == [id : Ids, announced : BOOLEAN, announceAcked : BOOLEAN,
             refused : BOOLEAN, nextSeq : 0..Count, contiguousAcked : 0..Count,
             stamped : SUBSET Rings, acked : SUBSET Rings]

InEntry == [id : Ids, allowed : BOOLEAN, complete : BOOLEAN, recvNext : 0..Count,
            placed : SUBSET Rings, sinceAck : 0..AckEvery, buffer : SUBSET Seqs]

FinishedEntry == [slot : OutSlots, outcome : {"ok", "refused"}]

Acknowledgements == [id : Ids, recvNext : 0..Count, bits : SUBSET Rings]

TypeOK ==
    /\ up \in [sender : BOOLEAN, receiver : BOOLEAN]
    /\ out \in [OutSlots -> OutEntry \cup {NoOut}]
    /\ inn \in [InSlots -> InEntry \cup {NoIn}]
    /\ outDir \in [Ids -> OutSlots \cup {NoSlot}] /\ inDir \in [Ids -> InSlots \cup {NoSlot}]
    /\ outFree \subseteq OutSlots /\ inFree \subseteq InSlots
    /\ outFinished \in Seq(FinishedEntry)
    /\ outstanding \in 0..Budget
    /\ net \subseteq Messages /\ acks \in Seq(Acknowledgements)
    /\ reported \in [Ids -> {"none", "ok", "refused"}]
    /\ announces \in Nat /\ sweeps \in Nat

(* A transfer the receiver calls complete has every one of its packets in   *)
(* the application's buffer: no packet a window ahead ever passed for one   *)
(* the ring was still waiting for (OnData tests a ring bit, not a bound).   *)
CompleteIsWhole ==
    \A s \in InSlots : inn[s] # NoIn /\ inn[s].complete => inn[s].buffer = Seqs

(* TransferProgress never reports bytes ready while a hole sits behind them. *)
ProgressIsContiguous ==
    \A b \in Ids : inDir[b] # NoSlot => 0..(Progress(b) - 1) \subseteq inn[inDir[b]].buffer

(* The receiver's cursor is never behind what the sender believes of it and *)
(* every packet it can still be handed lies within one window of it, which  *)
(* is what lets both rings be indexed by the low bits of the sequence.      *)
RingsNeverAlias ==
    \A b \in Ids : outDir[b] # NoSlot /\ inDir[b] # NoSlot =>
        LET o == out[outDir[b]]
            r == inn[inDir[b]]
        IN b \notin whole \/ r.complete =>
             /\ o.contiguousAcked <= r.recvNext
             /\ o.nextSeq <= r.recvNext + Window
             /\ \A m \in net : m.type = "data" /\ m.id = b => m.seq < r.recvNext + Window

(* The sender's application is told Ok only of a run whose bytes all        *)
(* reached the receiver's buffer (TransferView::Outcome).                   *)
OkMeansWhole == \A b \in Ids : reported[b] = "ok" => b \in whole

Charged ==
    {c \in OutSlots \X Rings : out[c[1]] # NoOut /\ c[2] \in out[c[1]].stamped}

(* What the peer's budget counts is what is really unresolved: one per      *)
(* stamped ring entry, and one per announcement ever sent to this peer      *)
(* (which nothing gives back).  A resend charges nothing, an               *)
(* acknowledgement and a refusal return each entry exactly once.            *)
SpendBalance ==
    up.sender /\ sweeps = 0 => outstanding = announces + Cardinality(Charged)

(* While acknowledgements arrive in order, a packet the sender has struck   *)
(* off is one the receiver holds: nothing is both missing and never sent    *)
(* again (OldestOverdue skips what is marked acknowledged).                 *)
StruckOffIsHeld ==
    \A b \in Ids \ stranded : outDir[b] # NoSlot /\ inDir[b] # NoSlot =>
        LET o == out[outDir[b]]
            r == inn[inDir[b]]
        IN \A seq \in o.contiguousAcked..(o.nextSeq - 1) :
             ~o.refused /\ seq \notin Overdue(o) => b \in whole \/ seq \in r.buffer

(* Every transfer comes to an end at the sender: it is reported, or its     *)
(* peer removed, unless the path took one of the answers nobody repeats.    *)
EveryTransferEnds ==
    \A b \in Ids : (outDir[b] # NoSlot) ~> (outDir[b] = NoSlot \/ b \in stranded)

(* A repeated announcement is answered (Transfer_Data: "Falls through to    *)
(* the acknowledgement below"), so that one lost answer does not hold the   *)
(* transfer for ever.                                                       *)
AnnouncementAnswered ==
    \A b \in Ids : (outDir[b] # NoSlot)
        ~> (outDir[b] = NoSlot \/ out[outDir[b]].announceAcked)

-----------------------------------------------------------------------------
(* The inductive invariant, for instances without "late" and "slowpoll". *)

\* The transfer an id names at either end, if it names one.
Outgoing(b) == IF outDir[b] = NoSlot THEN NoOut ELSE out[outDir[b]]
Incoming(b) == IF inDir[b] = NoSlot THEN NoIn ELSE inn[inDir[b]]

DataOf(b) == {m \in net : m.type = "data" /\ m.id = b}
AcksOf(b) == {k \in 1..Len(acks) : acks[k].id = b}

(* Each directory names exactly the live slots of its pool. *)
OutTable ==
    /\ \A b \in Ids : outDir[b] # NoSlot => out[outDir[b]] # NoOut /\ out[outDir[b]].id = b
    /\ \A s \in OutSlots : out[s] # NoOut => outDir[out[s].id] = s
    /\ \A s \in outFree : out[s] = NoOut
    /\ ~up.sender => \A b \in Ids : outDir[b] = NoSlot

InTable ==
    /\ \A b \in Ids : inDir[b] # NoSlot => inn[inDir[b]] # NoIn /\ inn[inDir[b]].id = b
    /\ \A s \in InSlots : inn[s] # NoIn => inDir[inn[s].id] = s
    /\ \A s \in inFree : inn[s] = NoIn
    /\ \A b \in letGo \cap Ids : inDir[b] = NoSlot
    /\ ~up.receiver => ~up.sender /\ \A b \in Ids : inDir[b] = NoSlot

(* The sender's ring: what is stamped lies between the two cursors, which    *)
(* are at most a window apart.                                               *)
SenderRing(o) ==
    /\ ~o.announceAcked => o.nextSeq = 0
    /\ o.contiguousAcked <= o.nextSeq /\ o.nextSeq <= o.contiguousAcked + Window
    /\ \A x \in o.stamped : \E seq \in o.contiguousAcked..(o.nextSeq - 1) : x = Ring(seq)
    /\ o.refused => o.stamped = {}

(* The receiver's ring: over the window at the cursor it tells exactly which *)
(* packets the buffer holds, and below the cursor the buffer holds them all. *)
ReceiverRing(r) ==
    /\ 0..(r.recvNext - 1) \subseteq r.buffer
    /\ \A seq \in r.buffer : seq < r.recvNext + Window
    /\ \A seq \in r.recvNext..(r.recvNext + Window - 1) :
          Ring(seq) \in r.placed <=> seq \in r.buffer
    /\ r.complete <=> r.recvNext = Count

RingsExact(b) ==
    /\ Outgoing(b) # NoOut => SenderRing(Outgoing(b))
    /\ Incoming(b) # NoIn => ReceiverRing(Incoming(b))

(* Every claim that a transfer is whole is true: of the sender's cursor, of  *)
(* the receiver's entry, of an acknowledgement under way.                    *)
WholeIsTrue(b) ==
    /\ Outgoing(b) # NoOut /\ Outgoing(b).contiguousAcked = Count => b \in whole
    /\ Incoming(b) # NoIn /\ Incoming(b).complete => b \in whole
    /\ \A k \in AcksOf(b) : acks[k].recvNext = Count => b \in whole

(* A finished entry names a live slot with nothing left to resolve, and no   *)
(* slot is named twice.                                                      *)
FinishedOnce ==
    /\ \A k \in 1..Len(outFinished) :
          LET o == out[outFinished[k].slot]
          IN /\ o # NoOut /\ o.stamped = {}
             /\ IF outFinished[k].outcome = "ok" THEN o.contiguousAcked = Count ELSE o.refused
    /\ \A j, k \in 1..Len(outFinished) : outFinished[j].slot = outFinished[k].slot => j = k

(* Nothing is under way or held of a transfer that was not begun, and no     *)
(* data or acknowledgement of one the receiver has not met.                  *)
Unmet(b) ==
    /\ b \notin begun => /\ Outgoing(b) = NoOut /\ Incoming(b) = NoIn
                         /\ \A m \in net : m.id # b
                         /\ AcksOf(b) = {}
    /\ up.receiver /\ Incoming(b) = NoIn /\ b \notin letGo =>
          /\ DataOf(b) = {} /\ AcksOf(b) = {}
          /\ Outgoing(b) # NoOut => ~Outgoing(b).announceAcked

(* What is under way and what the receiver holds lies below nextSeq. *)
BelowNext(b) ==
    Outgoing(b) # NoOut =>
        /\ \A m \in DataOf(b) : m.seq < Outgoing(b).nextSeq
        /\ \A k \in AcksOf(b) : acks[k].recvNext <= Outgoing(b).nextSeq
        /\ Incoming(b) # NoIn => \A seq \in Incoming(b).buffer : seq < Outgoing(b).nextSeq

(* The receiver is never behind what the sender believes, what an            *)
(* acknowledgement says of the buffer is true, and no packet under way is a  *)
(* window ahead of the cursor.                                               *)
NotBehind(b) ==
    Incoming(b) # NoIn =>
        /\ \A m \in DataOf(b) : m.seq < Incoming(b).recvNext + Window
        /\ \A k \in AcksOf(b) :
              /\ acks[k].recvNext <= Incoming(b).recvNext
              /\ \A i \in acks[k].bits : acks[k].recvNext + i \in Incoming(b).buffer
        /\ Outgoing(b) # NoOut => Outgoing(b).contiguousAcked <= Incoming(b).recvNext

\* Every sequence between the cursors that the sender no longer sends is held.
StruckIsHeld(o, r) ==
    \A seq \in o.contiguousAcked..(o.nextSeq - 1) :
        ~o.refused /\ seq \notin Overdue(o) => seq \in r.buffer

(* Of a transfer whose acknowledgements arrived in order, those under way    *)
(* are in order and ahead of the sender's cursor, and every sequence the     *)
(* sender has struck off is in the buffer.                                   *)
InOrder(b) ==
    b \notin stranded =>
        /\ \A j, k \in AcksOf(b) : j < k => acks[j].recvNext <= acks[k].recvNext
        /\ Outgoing(b) # NoOut =>
              \A k \in AcksOf(b) : Outgoing(b).contiguousAcked <= acks[k].recvNext
        /\ Outgoing(b) # NoOut /\ Incoming(b) # NoIn =>
              StruckIsHeld(Outgoing(b), Incoming(b))

Linked(b) ==
    RingsExact(b) /\ WholeIsTrue(b) /\ Unmet(b) /\ BelowNext(b) /\ NotBehind(b) /\ InOrder(b)

TransferInv ==
    /\ TypeOK /\ OutTable /\ InTable /\ FinishedOnce
    /\ \A b \in Ids : Linked(b)

(* The receiver's buffer: a completed one is whole, a reported prefix has no *)
(* hole, and no ring index stands for two packets (OnData, Complete).        *)
BufferInv == TransferInv /\ CompleteIsWhole /\ ProgressIsContiguous /\ RingsNeverAlias
=============================================================================
