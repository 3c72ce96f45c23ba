-------------------------- MODULE TransfersProofs --------------------------
(***************************************************************************)
(* The inductive invariant of Transfers under the remaining actions, and   *)
(* what follows from it for every number and length of transfers, every    *)
(* window and every budget.                                                *)
(***************************************************************************)
EXTENDS TransfersLemmas

USE SMTT(15), ZenonT(20)

LEMMA ReceiveRejectStep ==
  ASSUME Prompt, TransferInv, NEW m \in net, ReceiveReject(m)
  PROVE  TransferInv'
<1>1. PICK b \in Ids : b = m.id
  BY DEF TransferInv, TypeOK, Messages
<1> DEFINE s == outDir[b]
<1>2. /\ UNCHANGED <<up, outDir, outFree, outJam, reported, inn, inDir, inFree, inFinished,
                     whole, letGo, acks, stranded, begun, announces, lost, sweeps>>
      /\ net' \subseteq net
  BY DEF ReceiveReject, recvVars
<1>3. /\ acks' \in Seq(Acknowledgements) /\ stranded \subseteq stranded'
      /\ \A c \in Ids : AcksKept(c)
  BY <1>2, AcksStill DEF TransferInv, TypeOK
<1>4. CASE UNCHANGED <<out, outFinished, outstanding>>
  BY <1>2, <1>3, <1>4, PathKeeps
<1>5. CASE /\ s # NoSlot /\ ~out[s].refused /\ ~FinishedOut(s)
           /\ outstanding' = Refund(Cardinality(out[s].stamped))
           /\ out' = [out EXCEPT ![s] = OnRefused(out[s])]
           /\ outFinished' = PushFinished(s, "refused")
  <2> DEFINE o == Outgoing(b)
             o2 == OnRefused(o)
  <2>1. o = out[s] /\ o # NoOut /\ o \in OutEntry /\ o.id = b /\ SenderRing(o) /\ s \in OutSlots
    BY <1>5, PassEntry DEF TransferInv, TypeOK
  <2>2. /\ o2 \in OutEntry /\ o2.id = b /\ o2.announceAcked = o.announceAcked
        /\ o2.refused /\ o2.stamped = {}
        /\ o2.nextSeq = o.nextSeq /\ o2.contiguousAcked = o.contiguousAcked
    BY <2>1, OnRefusedKeeps
  <2> HIDE DEF o2
  <2>3. out' = [out EXCEPT ![s] = o2]
    BY <1>5, <2>1 DEF o2
  <2>4. outstanding' \in 0..Budget
    <3>1. o.stamped \in SUBSET Rings
      BY <2>1 DEF OutEntry
    <3> QED BY Zenon, <3>1, <2>1, <1>5, RingsFinite, RefundRange DEF TransferInv, TypeOK
  <2>5. FinishedOnce' /\ outFinished' \in Seq(FinishedEntry)
    BY Zenon, <1>5, <2>1, <2>2, <2>3, FinishedPush
  <2>6. ASSUME Outgoing(b)' = o2, Incoming(b)' = Incoming(b)
        PROVE  Linked(b)'
    <3>1. OutCalm(b) /\ InCalm(b)
      BY <2>1, <2>2, <2>6 DEF OutCalm, InCalm
    <3>2. Grows(b) /\ DataOf(b)' \subseteq DataOf(b)
      BY <1>2 DEF Grows, DataOf
    <3>3. Calm(b)
      BY <3>1, <3>2, <1>2, <1>3 DEF Calm
    <3> QED BY <3>3, CalmKeeps, InvFacts
  <2> QED BY Zenon, <1>2, <1>3, <1>5, <2>2, <2>3, <2>4, <2>5, <2>6, AckedKeeps
<1> QED BY <1>1, <1>4, <1>5 DEF ReceiveReject, Prompt

LEMMA LoseStep ==
  ASSUME TransferInv,
         \/ \E m \in net : LoseMessage(m)
         \/ \E k \in 1..Len(acks) : LoseAck(k)
  PROVE  TransferInv'
<1>1. CASE \E m \in net : LoseMessage(m)
  <2>1. /\ net' \subseteq net /\ stranded \subseteq stranded' /\ acks' = acks
        /\ UNCHANGED <<up, out, outDir, outFree, outFinished, outstanding, reported,
                       inn, inDir, inFree, whole, letGo, begun, announces, sweeps>>
    BY <1>1 DEF LoseMessage, sendVars, recvVars
  <2>2. acks' \in Seq(Acknowledgements) /\ \A c \in Ids : AcksKept(c)
    BY <2>1, AcksStill DEF TransferInv, TypeOK
  <2> QED BY <2>1, <2>2, PathKeeps
<1>2. CASE \E k \in 1..Len(acks) : LoseAck(k)
  <2>1. PICK k \in 1..Len(acks) : LoseAck(k)
    BY <1>2
  <2>2. /\ net' \subseteq net /\ stranded \subseteq stranded'
        /\ UNCHANGED <<up, out, outDir, outFree, outFinished, outstanding, reported,
                       inn, inDir, inFree, whole, letGo, begun, announces, sweeps>>
        /\ acks' = SubSeq(acks, 1, k - 1) \o SubSeq(acks, k + 1, Len(acks))
    BY <2>1 DEF LoseAck, sendVars, recvVars
  <2>3. acks' \in Seq(Acknowledgements) /\ \A c \in Ids : AcksKept(c)
    BY Zenon, <2>2, RemoveAck, InvFacts
  <2> QED BY <2>2, <2>3, PathKeeps
<1> QED BY <1>1, <1>2

-----------------------------------------------------------------------------
(* The removal of the peer, at either end, and a new session. *)

LEMMA SweepSenderStep ==
  ASSUME Prompt, TransferInv, SweepSender
  PROVE  TransferInv'
<1>1. /\ outFinished = <<>> /\ up.sender
      /\ up' = [up EXCEPT !.sender = FALSE]
      /\ outDir' = [c \in Ids |-> NoSlot] /\ outstanding' = 0 /\ sweeps' = sweeps + 1
      /\ UNCHANGED <<outFinished, reported, inn, inDir, inFree, inFinished, whole, letGo,
                     net, acks, stranded, begun, announces, lost>>
  BY DEF SweepSender, Prompt, recvVars, netVars
<1>2. /\ out' \in [OutSlots -> {NoOut}] /\ outFree' \subseteq OutSlots
  <2> DEFINE slots == {outDir[c] : c \in Held(outDir)}
  <2>1. /\ out' = [t \in OutSlots |-> IF t \in slots THEN NoOut ELSE out[t]]
        /\ outFree' = outFree \cup slots
    BY DEF SweepSender, ReleaseOut
  <2>2. ASSUME NEW t \in OutSlots, out[t] # NoOut PROVE t \in slots
    <3>1. out[t].id \in Ids /\ outDir[out[t].id] = t
      BY <2>2 DEF TransferInv, TypeOK, OutTable, OutEntry
    <3> QED BY <3>1, SlotsApart DEF Held
  <2>3. slots \subseteq OutSlots
    BY DEF Held, TransferInv, TypeOK
  <2> HIDE DEF slots
  <2> QED BY <2>1, <2>2, <2>3 DEF TransferInv, TypeOK
<1>3. /\ up' \in [sender : BOOLEAN, receiver : BOOLEAN]
      /\ up'.receiver = up.receiver /\ up'.sender = FALSE
  BY Zenon, <1>1 DEF TransferInv, TypeOK
<1>4. TypeOK'
  <2>1. out' \in [OutSlots -> OutEntry \cup {NoOut}]
    BY <1>2
  <2>2. outstanding' \in 0..Budget /\ sweeps' \in Nat
    BY <1>1, SizesAssumption DEF TransferInv, TypeOK
  <2>3. outDir' \in [Ids -> OutSlots \cup {NoSlot}]
    BY <1>1
  <2> QED BY <2>1, <2>2, <2>3, <1>1, <1>2, <1>3, Zenon DEF TransferInv, TypeOK
<1>5. OutTable'
  BY <1>1, <1>2 DEF OutTable
<1>6. InTable'
  BY <1>1, <1>3 DEF TransferInv, InTable
<1>7. FinishedOnce'
  BY <1>1 DEF FinishedOnce
<1>8. ASSUME NEW c \in Ids PROVE Linked(c)'
  <2>1. Outgoing(c)' = NoOut /\ Incoming(c)' = Incoming(c)
    BY <1>1 DEF Outgoing, Incoming
  <2>2. OutCalm(c) /\ InCalm(c)
    BY <2>1 DEF OutCalm, InCalm
  <2>3. Only(c)
    BY <1>1 DEF Only
  <2>4. Calm(c)
    BY <2>2, <2>3, <1>1, <1>3, OnlyGrows, AcksStill DEF Calm
  <2> QED BY <2>4, CalmKeeps, InvFacts
<1> QED BY <1>4, <1>5, <1>6, <1>7, <1>8 DEF TransferInv

LEMMA SweepReceiverStep ==
  ASSUME TransferInv, SweepReceiver
  PROVE  TransferInv'
<1>1. /\ ~up.sender /\ up' = [up EXCEPT !.receiver = FALSE]
      /\ inn' = [t \in InSlots |-> NoIn] /\ inDir' = [c \in Ids |-> NoSlot]
      /\ inFree' = inFree \cup {inDir[c] : c \in Held(inDir)}
      /\ UNCHANGED <<out, outDir, outFree, outJam, outFinished, outstanding, reported,
                     whole, letGo, net, acks, stranded, begun, announces, lost, sweeps>>
  BY DEF SweepReceiver, sendVars, netVars
<1>2. /\ up' \in [sender : BOOLEAN, receiver : BOOLEAN]
      /\ up'.receiver = FALSE /\ up'.sender = up.sender
  BY Zenon, <1>1 DEF TransferInv, TypeOK
<1>3. inFree' \subseteq InSlots
  BY <1>1 DEF Held, TransferInv, TypeOK
<1>4. TypeOK'
  <2>1. /\ inn' \in [InSlots -> InEntry \cup {NoIn}]
        /\ inDir' \in [Ids -> InSlots \cup {NoSlot}]
    BY <1>1
  <2> QED BY <2>1, <1>1, <1>2, <1>3, Zenon DEF TransferInv, TypeOK
<1>5. OutTable' /\ FinishedOnce' /\ \A c \in Ids : Outgoing(c)' = Outgoing(c)
  BY <1>1, <1>2, SenderStill
<1>6. InTable'
  BY <1>1, <1>2, <1>3 DEF InTable
<1>7. ASSUME NEW c \in Ids PROVE Linked(c)'
  <2>1. Incoming(c)' = NoIn
    BY <1>1 DEF Incoming
  <2>2. OutCalm(c) /\ InCalm(c)
    BY <2>1, <1>2, <1>5 DEF OutCalm, InCalm
  <2>3. Only(c)
    BY <1>1 DEF Only
  <2>4. Calm(c)
    BY <2>2, <2>3, <1>1, <1>2, OnlyGrows, AcksStill DEF Calm
  <2> QED BY <2>4, CalmKeeps, InvFacts
<1> QED BY <1>4, <1>5, <1>6, <1>7 DEF TransferInv

LEMMA ReconnectStep ==
  ASSUME TransferInv, Reconnect
  PROVE  TransferInv'
<1>1. /\ ~up.sender /\ ~up.receiver /\ up' = [sender |-> TRUE, receiver |-> TRUE]
      /\ net' = {} /\ acks' = <<>>
      /\ UNCHANGED <<out, outDir, outFree, outJam, outFinished, outstanding, reported,
                     inn, inDir, inFree, inFinished, whole, letGo,
                     stranded, begun, announces, lost, sweeps>>
  BY DEF Reconnect, sendVars, recvVars
<1>2. \A c \in Ids : outDir[c] = NoSlot /\ inDir[c] = NoSlot
  BY <1>1 DEF TransferInv, OutTable, InTable
<1>3. TypeOK'
  <2>1. up' \in [sender : BOOLEAN, receiver : BOOLEAN]
    BY <1>1
  <2>2. net' \subseteq Messages /\ acks' \in Seq(Acknowledgements)
    BY <1>1
  <2> QED BY <2>1, <2>2, <1>1, Zenon DEF TransferInv, TypeOK
<1>4. OutTable' /\ InTable' /\ FinishedOnce'
  BY <1>1 DEF TransferInv, OutTable, InTable, FinishedOnce
<1>5. ASSUME NEW c \in Ids PROVE Linked(c)'
  <2>1. Outgoing(c)' = NoOut /\ Incoming(c)' = NoIn /\ Incoming(c) = NoIn
    BY <1>1, <1>2 DEF Outgoing, Incoming
  <2>2. DataOf(c)' = {} /\ AcksOf(c)' = {}
    BY <1>1 DEF DataOf, AcksOf
  <2>3. AcksKept(c)
    <3> DEFINE f == [k \in {} |-> k]
    <3>1. f \in [AcksOf(c)' -> AcksOf(c)]
      BY <2>2
    <3> HIDE DEF f
    <3> QED BY Zenon, <3>1, <2>2 DEF AcksKept
  <2>4. Grows(c)
    BY <1>1 DEF Grows
  <2>5. OutCalm(c) /\ InCalm(c)
    BY <2>1 DEF OutCalm, InCalm
  <2>6. Calm(c)
    BY <2>1, <2>2, <2>3, <2>4, <2>5 DEF Calm
  <2> QED BY <2>6, CalmKeeps, InvFacts
<1> QED BY <1>3, <1>4, <1>5 DEF TransferInv

-----------------------------------------------------------------------------
(* The receiver's actions. *)

LEMMA ReceiverMoves ==
  ASSUME TransferInv, NEW b \in Ids,
         inn' \in [InSlots -> InEntry \cup {NoIn}], inDir' \in [Ids -> InSlots \cup {NoSlot}],
         inFree' \subseteq InSlots, InTable',
         \A c \in Ids \ {b} : Incoming(c)' = Incoming(c),
         net' \subseteq Messages, \A m \in net' : m \in net \/ m.id = b,
         acks' \in Seq(Acknowledgements), \A c \in Ids \ {b} : AcksKept(c),
         whole \subseteq whole', letGo \subseteq letGo', stranded \subseteq stranded',
         UNCHANGED <<up, out, outDir, outFree, outFinished, outstanding, reported,
                     begun, announces, sweeps>>,
         Outgoing(b)' = Outgoing(b) => Linked(b)'
  PROVE  TransferInv'
<1>1. OutTable' /\ FinishedOnce' /\ \A c \in Ids : Outgoing(c)' = Outgoing(c)
  BY SenderStill
<1>2. TypeOK'
  BY Zenon DEF TransferInv, TypeOK
<1>3. ASSUME NEW c \in Ids PROVE Linked(c)'
  <2>1. CASE c = b
    BY <2>1, <1>1
  <2>2. CASE c # b
    <3>1. Grows(c) /\ DataOf(c)' \subseteq DataOf(c)
      BY <2>2 DEF Grows, DataOf
    <3> QED BY <3>1, <2>2, <1>1, Untouched, InvFacts
  <2> QED BY <2>1, <2>2
<1> QED BY <1>1, <1>2, <1>3 DEF TransferInv

\* The entry of a transfer the receiver knows.
LEMMA KnownEntry ==
  ASSUME TransferInv, NEW b \in Ids, inDir[b] # NoSlot
  PROVE  /\ Incoming(b) = inn[inDir[b]] /\ Incoming(b) # NoIn
         /\ Incoming(b) \in InEntry /\ Incoming(b).id = b
         /\ ReceiverRing(Incoming(b)) /\ b \in begun /\ b \notin letGo
         /\ inDir[b] \in InSlots
<1>1. /\ Incoming(b) = inn[inDir[b]] /\ Incoming(b) # NoIn /\ Incoming(b).id = b
      /\ b \notin letGo
  BY DEF TransferInv, InTable, Incoming
<1>2. Linked(b) /\ TypeOK
  BY DEF TransferInv
<1>3. inDir[b] \in InSlots
  BY <1>2 DEF TypeOK
<1> QED BY <1>1, <1>2, <1>3, EntryTypes DEF Linked, RingsExact, Unmet

LEMMA AllowTransferStep ==
  ASSUME TransferInv, NEW b \in Ids, AllowTransfer(b)
  PROVE  TransferInv'
<1> DEFINE r == Incoming(b)
           r2 == [r EXCEPT !.allowed = TRUE]
<1>1. inDir[b] # NoSlot
  BY DEF AllowTransfer, Pending
<1>2. r = inn[inDir[b]] /\ r # NoIn /\ r \in InEntry /\ r.id = b
  BY <1>1, KnownEntry
<1>3. /\ inn' = [inn EXCEPT ![inDir[b]] = r2]
      /\ UNCHANGED <<up, out, outDir, outFree, outJam, outFinished, outstanding, reported,
                     inDir, inFree, inFinished, whole, letGo, net, acks, stranded, begun,
                     announces, lost, sweeps>>
  BY <1>1, <1>2 DEF AllowTransfer, sendVars, netVars
<1>4. /\ r2 \in InEntry /\ r2.id = b /\ r2.recvNext = r.recvNext /\ r2.placed = r.placed
      /\ r2.buffer = r.buffer /\ r2.complete = r.complete
  <2>1. r2 \in InEntry
    BY <1>2, Zenon DEF InEntry
  <2> QED BY <2>1, <1>2 DEF InEntry
<1> HIDE DEF r2
<1>5. /\ InTable' /\ inn' \in [InSlots -> InEntry \cup {NoIn}]
      /\ Incoming(b)' = r2 /\ r2 # NoIn
      /\ \A c \in Ids \ {b} : Incoming(c)' = Incoming(c)
  BY Zenon, <1>1, <1>3, <1>4, InWrite
<1>6. ASSUME Outgoing(b)' = Outgoing(b) PROVE Linked(b)'
  <2>1. OutCalm(b) /\ InCalm(b)
    BY <1>2, <1>4, <1>5, <1>6 DEF OutCalm, InCalm
  <2>2. Only(b)
    BY <1>3 DEF Only
  <2>3. Calm(b)
    BY <2>1, <2>2, <1>3, OnlyGrows, AcksStill DEF Calm
  <2> QED BY <2>3, CalmKeeps, InvFacts
<1>7. /\ inDir' \in [Ids -> InSlots \cup {NoSlot}] /\ inFree' \subseteq InSlots
      /\ net' \subseteq Messages /\ acks' \in Seq(Acknowledgements)
      /\ whole \subseteq whole' /\ letGo \subseteq letGo' /\ stranded \subseteq stranded'
      /\ \A m \in net' : m \in net \/ m.id = b
  BY <1>3 DEF TransferInv, TypeOK
<1>8. \A c \in Ids \ {b} : AcksKept(c)
  BY <1>3, AcksStill
<1> QED BY <1>3, <1>5, <1>6, <1>7, <1>8, ReceiverMoves

(* RejectTransfer and CompleteTransfer: the entry goes and the id is let go. *)
LEMMA LetGoStep ==
  ASSUME TransferInv, NEW b \in Ids, RejectTransfer(b) \/ CompleteTransfer(b)
  PROVE  TransferInv'
<1> DEFINE s == inDir[b]
<1>1. /\ s # NoSlot /\ up.receiver
      /\ inn' = [inn EXCEPT ![s] = NoIn] /\ inFree' = inFree \cup {s}
      /\ inDir' = [inDir EXCEPT ![b] = NoSlot] /\ letGo' = letGo \cup {b}
      /\ UNCHANGED <<up, out, outDir, outFree, outJam, outFinished, outstanding, reported,
                     whole, acks, begun, announces, sweeps>>
      /\ stranded \subseteq stranded'
      /\ net' \subseteq net \cup {[type |-> "reject", id |-> b]}
  BY DEF RejectTransfer, CompleteTransfer, Pending, DropIn, sendVars, netVars
<1>2. /\ s \in InSlots /\ b \in begun
      /\ inn \in [InSlots -> InEntry \cup {NoIn}] /\ inDir \in [Ids -> InSlots \cup {NoSlot}]
      /\ inn[s] # NoIn /\ inn[s].id = b
  BY <1>1, KnownEntry DEF TransferInv, TypeOK, InTable
<1>3. \A c \in Ids \ {b} : inDir[c] # s
  BY <1>1, <1>2 DEF TransferInv, InTable
<1>4. /\ inn' \in [InSlots -> InEntry \cup {NoIn}] /\ inDir' \in [Ids -> InSlots \cup {NoSlot}]
      /\ inn'[s] = NoIn /\ \A t \in InSlots \ {s} : inn'[t] = inn[t]
      /\ inDir'[b] = NoSlot /\ \A c \in Ids \ {b} : inDir'[c] = inDir[c]
      /\ inFree' \subseteq InSlots
  BY <1>1, <1>2 DEF TransferInv, TypeOK
<1>5. InTable'
  <2>1. \A c \in Ids : inDir'[c] # NoSlot => inn'[inDir'[c]] # NoIn /\ inn'[inDir'[c]].id = c
    BY <1>2, <1>3, <1>4 DEF TransferInv, InTable
  <2>2. ASSUME NEW t \in InSlots, inn'[t] # NoIn PROVE inDir'[inn'[t].id] = t
    <3>1. t # s /\ inn'[t] = inn[t] /\ inn[t] \in InEntry /\ inDir[inn[t].id] = t
      BY <2>2, <1>2, <1>4 DEF TransferInv, InTable
    <3>2. inn[t].id \in Ids \ {b}
      BY <3>1, <1>2 DEF InEntry
    <3> QED BY <3>1, <3>2, <1>4
  <2>3. \A t \in inFree' : inn'[t] = NoIn
    BY <1>1, <1>4 DEF TransferInv, TypeOK, InTable
  <2>4. \A c \in letGo' \cap Ids : inDir'[c] = NoSlot
    BY <1>1, <1>4 DEF TransferInv, InTable
  <2> QED BY <2>1, <2>2, <2>3, <2>4, <1>1 DEF InTable
<1>6. Incoming(b)' = NoIn /\ \A c \in Ids \ {b} : Incoming(c)' = Incoming(c)
  BY <1>2, <1>3, <1>4 DEF Incoming
<1>7. net' \subseteq Messages /\ \A m \in net' : m \in net \/ (m.id = b /\ m.type # "data")
  <2>1. PICK reject \in Messages : reject = [type |-> "reject", id |-> b]
    BY Zenon DEF Messages
  <2>2. reject.id = b /\ reject.type # "data"
    BY <2>1
  <2>3. net' \subseteq net \cup {reject} /\ net \subseteq Messages
    BY Zenon, <1>1, <2>1 DEF TransferInv, TypeOK
  <2> QED BY Zenon, <2>2, <2>3
<1>8. ASSUME Outgoing(b)' = Outgoing(b) PROVE Linked(b)'
  <2>1. OutCalm(b) /\ InCalm(b)
    BY <1>1, <1>6, <1>8 DEF OutCalm, InCalm
  <2>2. Grows(b) /\ DataOf(b)' \subseteq DataOf(b)
    BY <1>1, <1>2, <1>7 DEF Grows, DataOf
  <2>3. Calm(b)
    BY <2>1, <2>2, <1>1, AcksStill DEF Calm
  <2> QED BY <2>3, CalmKeeps, InvFacts
<1>9. /\ acks' \in Seq(Acknowledgements) /\ \A c \in Ids \ {b} : AcksKept(c)
      /\ whole \subseteq whole' /\ letGo \subseteq letGo'
  BY <1>1, AcksStill DEF TransferInv, TypeOK
<1> QED BY <1>1, <1>4, <1>5, <1>6, <1>7, <1>8, <1>9, ReceiverMoves

LEMMA PollArrivedStep ==
  ASSUME TransferInv, PollArrived
  PROVE  TransferInv'
<1>1. UNCHANGED <<up, out, outDir, outFree, outJam, outFinished, outstanding, reported, inn,
                  inDir, inFree, whole, letGo, net, acks, stranded, begun, announces, sweeps>>
  BY DEF PollArrived, sendVars, netVars
<1>2. acks' \in Seq(Acknowledgements) /\ \A c \in Ids : AcksKept(c)
  BY <1>1, AcksStill DEF TransferInv, TypeOK
<1> QED BY <1>1, <1>2, PathKeeps

(* TakeAckDebt and SendTransferAck: an answer went out and cleared the debt, *)
(* or the debt was still under AckEvery and nothing did.                     *)
Answered(s, r) ==
    \/ /\ inn' = [inn EXCEPT ![s] = [r EXCEPT !.sinceAck = 0]]
       /\ acks' = Append(acks, AckOf(r))
    \/ /\ inn' = [inn EXCEPT ![s] = r] /\ ~(r.sinceAck >= AckEvery)
       /\ acks' = acks

LEMMA AnswerAnswers ==
  ASSUME NEW s, NEW r, NEW owed, Answer(s, r, owed)
  PROVE  Answered(s, r)
BY Zenon DEF Answer, AckDue, Answered

(* Either way the entry keeps its cursor, ring and buffer, and what went out *)
(* is true of them.                                                          *)
LEMMA AnswerShape ==
  ASSUME TransferInv, NEW b \in Ids, NEW s \in InSlots,
         NEW r \in Arrived, r.id = b, ReceiverRing(r), Answered(s, r)
  PROVE  \E r2 \in InEntry :
            /\ inn' = [inn EXCEPT ![s] = r2]
            /\ r2.id = b /\ ReceiverRing(r2)
            /\ r2.recvNext = r.recvNext /\ r2.buffer = r.buffer /\ r2.complete = r.complete
            /\ acks' \in Seq(Acknowledgements)
            /\ Incoming(b)' = r2 => Answers(b)
<1>1. PICK r2 \in InEntry :
          /\ inn' = [inn EXCEPT ![s] = r2]
          /\ acks' = acks \/ acks' = Append(acks, AckOf(r))
          /\ r2.id = r.id /\ r2.recvNext = r.recvNext /\ r2.buffer = r.buffer
          /\ r2.complete = r.complete /\ r2.placed = r.placed
  <2>1. CASE /\ inn' = [inn EXCEPT ![s] = [r EXCEPT !.sinceAck = 0]]
             /\ acks' = Append(acks, AckOf(r))
    <3> DEFINE r2 == [r EXCEPT !.sinceAck = 0]
    <3>1. 0 \in 0..AckEvery
      BY SizesAssumption
    <3>2. r2 \in InEntry
      BY <3>1, Zenon DEF Arrived, InEntry
    <3>3. /\ r2.id = r.id /\ r2.recvNext = r.recvNext /\ r2.buffer = r.buffer
          /\ r2.complete = r.complete /\ r2.placed = r.placed
      BY DEF Arrived
    <3> QED BY Zenon, <2>1, <3>2, <3>3
  <2>2. CASE inn' = [inn EXCEPT ![s] = r] /\ ~(r.sinceAck >= AckEvery) /\ acks' = acks
    <3>1. r.sinceAck \in 0..AckEvery
      BY <2>2, SizesAssumption DEF Arrived
    <3>2. r = [id |-> r.id, allowed |-> r.allowed, complete |-> r.complete,
               recvNext |-> r.recvNext, placed |-> r.placed, sinceAck |-> r.sinceAck,
               buffer |-> r.buffer]
      BY DEF Arrived
    <3>3. /\ r.id \in Ids /\ r.allowed \in BOOLEAN /\ r.complete \in BOOLEAN
          /\ r.recvNext \in 0..Count /\ r.placed \in SUBSET Rings /\ r.buffer \in SUBSET Seqs
      BY Zenon DEF Arrived
    <3>4. r \in InEntry
      BY <3>1, <3>2, <3>3, Zenon DEF InEntry
    <3> QED BY Zenon, <2>2, <3>4
  <2> QED BY <2>1, <2>2 DEF Answered
<1>4. ReceiverRing(r2)
  BY <1>1 DEF ReceiverRing
<1>5. /\ AckOf(r) \in Acknowledgements /\ AckOf(r).id = b /\ AckOf(r).recvNext = r.recvNext
      /\ \A i \in AckOf(r).bits : r.recvNext + i \in r.buffer
  BY AckTells
<1>6. acks' \in Seq(Acknowledgements)
  <2>1. acks \in Seq(Acknowledgements)
    BY DEF TransferInv, TypeOK
  <2>2. Append(acks, AckOf(r)) \in Seq(Acknowledgements)
    BY <2>1, <1>5, AppendProperties, Zenon
  <2> QED BY <1>1, <2>1, <2>2
<1>7. Incoming(b)' = r2 => Answers(b)
  BY <1>1, <1>5 DEF Answers
<1> QED BY Zenon, <1>1, <1>4, <1>6, <1>7

\* An entry of the receiver is one OnData may count an arrival on.
LEMMA Counted ==
  ASSUME NEW r \in InEntry
  PROVE  /\ r \in Arrived
         /\ LET r1 == [r EXCEPT !.sinceAck = @ + 1]
            IN /\ r1 \in Arrived /\ r1.id = r.id /\ r1.recvNext = r.recvNext
               /\ r1.buffer = r.buffer /\ r1.placed = r.placed
               /\ r1.complete = r.complete /\ r1.allowed = r.allowed
<1>1. 0..AckEvery \subseteq 0..(AckEvery + 1)
  BY SizesAssumption
<1>2. r \in Arrived
  BY <1>1, Zenon DEF InEntry, Arrived
<1> DEFINE r1 == [r EXCEPT !.sinceAck = @ + 1]
<1>3. r.sinceAck + 1 \in 0..(AckEvery + 1)
  BY SizesAssumption DEF InEntry
<1>4. r1 \in Arrived
  BY <1>2, <1>3, Zenon DEF Arrived
<1>5. /\ r1.id = r.id /\ r1.recvNext = r.recvNext
      /\ r1.buffer = r.buffer /\ r1.placed = r.placed
      /\ r1.complete = r.complete /\ r1.allowed = r.allowed
  BY DEF InEntry
<1> QED BY <1>2, <1>4, <1>5

LEMMA ReceiveAnnounceStep ==
  ASSUME Prompt, TransferInv, NEW m \in net, ReceiveAnnounce(m)
  PROVE  TransferInv'
<1>1. PICK b \in Ids : b = m.id
  BY DEF TransferInv, TypeOK, Messages
<1>2. /\ UNCHANGED <<up, out, outDir, outFree, outJam, outFinished, outstanding, reported,
                     inFinished, whole, letGo, stranded, begun, announces, lost, sweeps>>
      /\ net' \subseteq net /\ up.receiver /\ b \notin letGo
  BY <1>1 DEF ReceiveAnnounce, sendVars, Prompt
<1>3. b \in begun /\ Linked(b) /\ TypeOK
  BY <1>1, InvFacts DEF Linked, Unmet
<1>4. /\ net' \subseteq Messages /\ \A n \in net' : n \in net \/ n.id = b
      /\ DataOf(b)' \subseteq DataOf(b)
      /\ whole \subseteq whole' /\ letGo \subseteq letGo' /\ stranded \subseteq stranded'
  BY <1>2, <1>3 DEF TypeOK, DataOf
<1>5. CASE /\ inDir[b] # NoSlot
           /\ Answer(inDir[b], inn[inDir[b]], FALSE)
           /\ UNCHANGED <<inDir, inFree>>
  <2>1. PICK r \in InEntry, s \in InSlots :
            /\ r = Incoming(b) /\ r = inn[s] /\ s = inDir[b] /\ r # NoIn
            /\ r.id = b /\ ReceiverRing(r)
    BY <1>5, KnownEntry
  <2>2. r \in Arrived /\ r.recvNext \in Nat
    <3>1. r \in Arrived
      BY Zenon, Counted
    <3> QED BY <3>1, SizesAssumption DEF InEntry
  <2>3. PICK r2 \in InEntry :
            /\ inn' = [inn EXCEPT ![s] = r2]
            /\ r2.id = b /\ ReceiverRing(r2)
            /\ r2.recvNext = r.recvNext /\ r2.buffer = r.buffer /\ r2.complete = r.complete
            /\ acks' \in Seq(Acknowledgements)
            /\ Incoming(b)' = r2 => Answers(b)
    <3>1. Answered(s, r)
      BY Zenon, <1>5, <2>1, AnswerAnswers
    <3> QED BY <3>1, <2>1, <2>2, AnswerShape
  <2>4. /\ InTable' /\ inn' \in [InSlots -> InEntry \cup {NoIn}]
        /\ Incoming(b)' = r2 /\ r2 # NoIn
        /\ \A c \in Ids \ {b} : Incoming(c)' = Incoming(c)
    BY Zenon, <1>2, <1>5, <2>1, <2>3, InWrite
  <2>5. ASSUME Outgoing(b)' = Outgoing(b) PROVE Linked(b)'
    <3>1. r2.complete => b \in whole
      BY <2>1, <2>3, <1>3 DEF Linked, WholeIsTrue
    <3>2. Hears(b)
      BY <3>1, <2>1, <2>2, <2>3, <2>4, <2>5, <1>2, <1>3, <1>4 DEF Hears
    <3> QED BY <3>2, <1>3, HearsKeeps
  <2>6. \A c \in Ids \ {b} : AcksKept(c)
    BY <2>3, <2>4, <1>3, AcksOthers
  <2>7. inDir' \in [Ids -> InSlots \cup {NoSlot}] /\ inFree' \subseteq InSlots
    BY <1>3, <1>5 DEF TypeOK
  <2> QED BY <2>3, <2>4, <2>5, <2>6, <2>7, <1>2, <1>4, ReceiverMoves
<1>6. CASE /\ Announceable(b)
           /\ \E s \in inFree : /\ inFree' = inFree \ {s}
                                /\ inDir' = [inDir EXCEPT ![b] = s]
                                /\ Answer(s, NewIn(b), TRUE)
  <2>1. PICK s \in inFree : /\ inFree' = inFree \ {s}
                            /\ inDir' = [inDir EXCEPT ![b] = s]
                            /\ Answer(s, NewIn(b), TRUE)
    BY Zenon, <1>6
  <2>2. /\ s \in InSlots /\ s # NoSlot /\ inn[s] = NoIn /\ inDir[b] = NoSlot
        /\ inn \in [InSlots -> InEntry \cup {NoIn}]
        /\ inDir \in [Ids -> InSlots \cup {NoSlot}]
    BY <1>6, SlotsApart DEF TransferInv, TypeOK, InTable, Announceable
  <2>3. /\ NewIn(b) \in Arrived /\ ReceiverRing(NewIn(b)) /\ NewIn(b).id = b
        /\ NewIn(b).buffer = {} /\ NewIn(b).complete = FALSE
    BY Zenon, NewInFits, Counted DEF NewIn
  <2>4. PICK r2 \in InEntry :
            /\ inn' = [inn EXCEPT ![s] = r2]
            /\ r2.id = b /\ ReceiverRing(r2)
            /\ r2.buffer = {} /\ r2.complete = FALSE
            /\ acks' \in Seq(Acknowledgements)
            /\ Incoming(b)' = r2 => Answers(b)
    <3>1. PICK n \in Arrived : n = NewIn(b)
      BY <2>3
    <3>2. Answered(s, n)
      BY Zenon, <2>1, <3>1, AnswerAnswers
    <3>3. ReceiverRing(n) /\ n.id = b /\ n.buffer = {} /\ n.complete = FALSE
      BY <2>3, <3>1
    <3>4. \E r2 \in InEntry :
            /\ inn' = [inn EXCEPT ![s] = r2]
            /\ r2.id = b /\ ReceiverRing(r2)
            /\ r2.recvNext = n.recvNext /\ r2.buffer = n.buffer /\ r2.complete = n.complete
            /\ acks' \in Seq(Acknowledgements)
            /\ Incoming(b)' = r2 => Answers(b)
      BY <2>2, <3>2, <3>3, AnswerShape
    <3> QED BY <3>3, <3>4, Zenon
  <2>5. /\ inn' \in [InSlots -> InEntry \cup {NoIn}] /\ r2 # NoIn
        /\ inDir' \in [Ids -> InSlots \cup {NoSlot}] /\ inFree' \subseteq InSlots
        /\ inn'[s] = r2 /\ \A t \in InSlots \ {s} : inn'[t] = inn[t]
        /\ inDir'[b] = s /\ \A c \in Ids \ {b} : inDir'[c] = inDir[c]
    BY <2>1, <2>2, <2>4, NoEntry, <1>3 DEF TypeOK
  <2>6. \A c \in Ids \ {b} : inDir[c] # s
    BY <2>2 DEF TransferInv, InTable
  <2>7. InTable'
    <3>1. \A c \in Ids : inDir'[c] # NoSlot => inn'[inDir'[c]] # NoIn /\ inn'[inDir'[c]].id = c
      <4>1. inn'[inDir'[b]] # NoIn /\ inn'[inDir'[b]].id = b
        BY Zenon, <2>4, <2>5
      <4>2. ASSUME NEW c \in Ids \ {b}, inDir'[c] # NoSlot
            PROVE  inn'[inDir'[c]] # NoIn /\ inn'[inDir'[c]].id = c
        <5>1. inDir'[c] = inDir[c] /\ inDir[c] \in InSlots \ {s}
          BY Zenon, <4>2, <2>2, <2>5, <2>6
        <5>2. inn'[inDir[c]] = inn[inDir[c]]
          BY Zenon, <5>1, <2>5
        <5>3. inDir[c] # NoSlot
          BY Zenon, <5>1, <4>2
        <5>4. inn[inDir[c]] # NoIn /\ inn[inDir[c]].id = c
          BY Zenon, <5>3 DEF TransferInv, InTable
        <5> QED BY Zenon, <5>1, <5>2, <5>4
      <4> QED BY Zenon, <4>1, <4>2
    <3>2. ASSUME NEW t \in InSlots, inn'[t] # NoIn PROVE inDir'[inn'[t].id] = t
      <4>1. CASE t = s
        BY <4>1, <2>4, <2>5
      <4>2. CASE t # s
        <5>1. inn'[t] = inn[t] /\ inn[t] \in InEntry /\ inDir[inn[t].id] = t /\ t # NoSlot
          BY <3>2, <4>2, <2>2, <2>5, SlotsApart DEF TransferInv, InTable
        <5>2. inn[t].id \in Ids \ {b}
          BY <5>1, <2>2 DEF InEntry
        <5> QED BY <5>1, <5>2, <2>5
      <4> QED BY <4>1, <4>2
    <3>3. \A t \in inFree' : inn'[t] = NoIn
      BY <2>1, <2>5 DEF TransferInv, TypeOK, InTable
    <3>4. \A c \in letGo' \cap Ids : inDir'[c] = NoSlot
      BY Zenon, <1>2, <2>5 DEF TransferInv, InTable
    <3> QED BY Zenon, <3>1, <3>2, <3>3, <3>4, <1>2 DEF InTable
  <2>8. /\ Incoming(b)' = r2 /\ Incoming(b) = NoIn
        /\ \A c \in Ids \ {b} : Incoming(c)' = Incoming(c)
    BY <2>2, <2>5, <2>6 DEF Incoming
  <2>9. ASSUME Outgoing(b)' = Outgoing(b) PROVE Linked(b)'
    <3>1. Hears(b)
      BY Zenon, <2>4, <2>5, <2>8, <2>9, <1>2, <1>3, <1>4 DEF Hears
    <3> QED BY <3>1, <1>3, HearsKeeps
  <2>10. \A c \in Ids \ {b} : AcksKept(c)
    BY Zenon, <2>4, <2>8, <1>3, AcksOthers
  <2> QED BY Zenon, <2>4, <2>5, <2>7, <2>8, <2>9, <2>10, <1>2, <1>4, ReceiverMoves
<1>7. CASE UNCHANGED <<inn, acks, inDir, inFree>>
  <2>1. acks' \in Seq(Acknowledgements) /\ \A c \in Ids : AcksKept(c)
    BY <1>3, <1>7, AcksStill DEF TypeOK
  <2> QED BY <2>1, <1>2, <1>4, <1>7, PathKeeps
<1> QED BY Zenon, <1>1, <1>5, <1>6, <1>7 DEF ReceiveAnnounce


(* OnData on a transfer that has a slot: counted, placed if it is allowed    *)
(* and unfinished, and the cursor run up to what is now contiguous.          *)
Handled(r, seq) == CASE ~r.allowed -> [r |-> r, owed |-> TRUE]
                     [] r.allowed /\ r.complete -> [r |-> r, owed |-> FALSE]
                     [] OTHER -> Place(r, seq)

LEMMA DataPlaced ==
  ASSUME NEW r \in Arrived, ReceiverRing(r), NEW seq \in Seqs, seq < r.recvNext + Window
  PROVE  \E n \in Arrived :
            /\ n = Handled(r, seq).r /\ ReceiverRing(n) /\ n.id = r.id
            /\ r.recvNext <= n.recvNext
            /\ r.buffer \subseteq n.buffer /\ n.buffer \subseteq r.buffer \cup {seq}
            /\ ~r.complete /\ n.complete => n.buffer = Seqs
<1>1. r.recvNext \in 0..Count /\ r.recvNext <= r.recvNext
  BY SizesAssumption DEF Arrived
<1>2. CASE Handled(r, seq).r = r
  BY <1>1, <1>2
<1>3. CASE Handled(r, seq) = Place(r, seq) /\ ~r.complete
  <2>1. PICK n : n = Place(r, seq).r
    OBVIOUS
  <2>2. /\ n \in Arrived /\ ReceiverRing(n) /\ n.id = r.id
        /\ r.recvNext <= n.recvNext
        /\ r.buffer \subseteq n.buffer /\ n.buffer \subseteq r.buffer \cup {seq}
    BY <1>3, <2>1, PlaceKeeps
  <2>3. ASSUME n.complete PROVE n.buffer = Seqs
    <3>1. n.recvNext = Count /\ \A q \in 0..(n.recvNext - 1) : q \in n.buffer
      BY <2>2, <2>3 DEF ReceiverRing
    <3>2. n.buffer \subseteq Seqs
      BY <2>2 DEF Arrived
    <3> QED BY Zenon, <3>1, <3>2 DEF Seqs
  <2> QED BY <1>3, <2>1, <2>2, <2>3
<1>4. Handled(r, seq).r = r \/ (Handled(r, seq) = Place(r, seq) /\ ~r.complete)
  <2>1. CASE ~r.allowed
    BY <2>1 DEF Handled
  <2>2. CASE r.allowed /\ r.complete
    BY <2>2 DEF Handled
  <2>3. CASE r.allowed /\ ~r.complete
    BY <2>3 DEF Handled
  <2> QED BY <2>1, <2>2, <2>3
<1> QED BY Zenon, <1>2, <1>3, <1>4

LEMMA ReceiveDataStep ==
  ASSUME Prompt, TransferInv, NEW m \in net, ReceiveData(m)
  PROVE  TransferInv'
<1>1. PICK b \in Ids : b = m.id
  BY DEF TransferInv, TypeOK, Messages
<1>2. /\ UNCHANGED <<up, out, outDir, outFree, outJam, outFinished, outstanding, reported,
                     inDir, inFree, letGo, stranded, begun, announces, lost, sweeps>>
      /\ net' \subseteq net /\ up.receiver /\ m \in DataOf(b)
  BY <1>1, Zenon DEF ReceiveData, sendVars, DataOf
<1>3. Linked(b) /\ TypeOK
  BY InvFacts
<1>4. /\ net' \subseteq Messages /\ \A n \in net' : n \in net \/ n.id = b
      /\ DataOf(b)' \subseteq DataOf(b)
      /\ letGo \subseteq letGo' /\ stranded \subseteq stranded'
  BY <1>2, <1>3 DEF TypeOK, DataOf
<1>5. CASE inDir[b] = NoSlot
  <2>1. acks' = acks /\ inn' = inn /\ whole' = whole
    BY <1>1, <1>5 DEF ReceiveData
  <2>2. acks' \in Seq(Acknowledgements) /\ \A c \in Ids : AcksKept(c)
    BY <1>3, <2>1, AcksStill DEF TypeOK
  <2> QED BY <2>1, <2>2, <1>2, <1>4, PathKeeps
<1>6. CASE inDir[b] # NoSlot
  <2>1. PICK r \in InEntry, s \in InSlots :
            /\ r = Incoming(b) /\ r = inn[s] /\ s = inDir[b] /\ r # NoIn
            /\ r.id = b /\ b \in begun
    BY <1>6, KnownEntry
  <2>2. PICK r1 \in Arrived :
            /\ r1 = [r EXCEPT !.sinceAck = @ + 1] /\ r1.id = b /\ r1.recvNext = r.recvNext
            /\ r1.buffer = r.buffer /\ r1.placed = r.placed /\ r1.complete = r.complete
    BY Zenon, <2>1, Counted
  <2>3. PICK seq \in Seqs : seq = m.seq /\ seq < r1.recvNext + Window
    BY <1>2, <1>3, <2>1, <2>2 DEF Linked, NotBehind, DataOf, TypeOK, Messages
  <2>4. ReceiverRing(r1)
    BY <1>3, <2>1, <2>2 DEF Linked, RingsExact, ReceiverRing
  <2>5. PICK n \in Arrived :
            /\ n = Handled(r1, seq).r /\ ReceiverRing(n) /\ n.id = b
            /\ r.recvNext <= n.recvNext
            /\ r.buffer \subseteq n.buffer /\ n.buffer \subseteq r.buffer \cup {seq}
            /\ ~r.complete /\ n.complete => n.buffer = Seqs
    <3>1. \E n \in Arrived :
            /\ n = Handled(r1, seq).r /\ ReceiverRing(n) /\ n.id = r1.id
            /\ r1.recvNext <= n.recvNext
            /\ r1.buffer \subseteq n.buffer /\ n.buffer \subseteq r1.buffer \cup {seq}
            /\ ~r1.complete /\ n.complete => n.buffer = Seqs
      BY <2>3, <2>4, DataPlaced
    <3> QED BY <3>1, <2>2
  <2>6. /\ Answer(s, n, Handled(r1, seq).owed)
        /\ whole' = IF n.complete /\ n.buffer = Seqs THEN whole \cup {b} ELSE whole
    BY <1>1, <1>6, <2>1, <2>2, <2>3, <2>5, Zenon DEF ReceiveData, Handled
  <2>7. PICK r2 \in InEntry :
            /\ inn' = [inn EXCEPT ![s] = r2]
            /\ r2.id = b /\ ReceiverRing(r2)
            /\ r2.recvNext = n.recvNext /\ r2.buffer = n.buffer /\ r2.complete = n.complete
            /\ acks' \in Seq(Acknowledgements)
            /\ Incoming(b)' = r2 => Answers(b)
    <3>1. Answered(s, n) /\ ReceiverRing(n) /\ n.id = b
      BY <2>5, <2>6, AnswerAnswers
    <3> QED BY <3>1, AnswerShape
  <2>8. /\ InTable' /\ inn' \in [InSlots -> InEntry \cup {NoIn}]
        /\ Incoming(b)' = r2 /\ r2 # NoIn
        /\ \A c \in Ids \ {b} : Incoming(c)' = Incoming(c)
    BY Zenon, <1>2, <1>6, <2>1, <2>7, InWrite
  <2>9. whole \subseteq whole' /\ (r2.complete => b \in whole')
    <3>1. r.complete => b \in whole
      BY <2>1, <1>3 DEF Linked, WholeIsTrue
    <3>2. r2.complete /\ ~r.complete => n.complete /\ n.buffer = Seqs
      BY <2>5, <2>7
    <3> QED BY <3>1, <3>2, <2>6, <2>7
  <2>10. ASSUME Outgoing(b)' = Outgoing(b) PROVE Linked(b)'
    <3>1. /\ r.recvNext <= r2.recvNext /\ r.buffer \subseteq r2.buffer
          /\ \A q \in r2.buffer : q \in r.buffer \/ \E k \in DataOf(b) : k.seq = q
      BY <2>3, <2>5, <2>7, <1>2, Zenon
    <3>2. Hears(b)
      BY <3>1, <2>1, <2>7, <2>8, <2>9, <2>10, <1>2, <1>4 DEF Hears
    <3> QED BY <3>2, <1>3, HearsKeeps
  <2>11. \A c \in Ids \ {b} : AcksKept(c)
    BY <2>7, <2>8, <1>3, AcksOthers, Zenon
  <2>12. inDir' \in [Ids -> InSlots \cup {NoSlot}] /\ inFree' \subseteq InSlots
    BY <1>2, <1>3 DEF TypeOK
  <2> QED BY Zenon, <2>7, <2>8, <2>9, <2>10, <2>11, <2>12, <1>2, <1>4, ReceiverMoves
<1> QED BY <1>5, <1>6


-----------------------------------------------------------------------------
(* Every reachable state. *)

LEMMA TransferInit == ASSUME Init PROVE TransferInv
<1>1. \A b \in Ids : Outgoing(b) = NoOut /\ Incoming(b) = NoIn /\ DataOf(b) = {} /\ AcksOf(b) = {}
  <2>1. 1..Len(acks) = {}
    BY DEF Init
  <2> QED BY Zenon, <2>1 DEF Init, Outgoing, Incoming, DataOf, AcksOf
<1>2. TypeOK
  <2>1. 0 \in 0..Budget /\ 0 \in Nat
    BY SizesAssumption
  <2>2. outFinished \in Seq(FinishedEntry) /\ acks \in Seq(Acknowledgements)
    BY DEF Init
  <2> QED BY <2>1, <2>2, Zenon DEF Init, TypeOK
<1>3. OutTable /\ InTable
  BY SizesAssumption DEF Init, OutTable, InTable
<1>4. FinishedOnce
  <2>1. 1..Len(outFinished) = {}
    BY DEF Init
  <2> QED BY <2>1 DEF FinishedOnce
<1>5. \A b \in Ids : Linked(b)
  <2>1. net = {} /\ up.sender /\ up.receiver
    BY DEF Init
  <2> QED BY Zenon, <1>1, <2>1
      DEF Linked, RingsExact, WholeIsTrue, Unmet, BelowNext, NotBehind, InOrder
<1> QED BY <1>2, <1>3, <1>4, <1>5 DEF TransferInv

LEMMA TransferNext ==
  ASSUME Prompt, TransferInv, [Next]_vars
  PROVE  TransferInv'
<1>1. CASE \E b \in Ids : SendTransfer(b)
  BY <1>1, SendTransferKeeps
<1>2. CASE \E b \in Ids : SendAnnounce(b) \/ AnnounceOverdue(b)
  BY <1>2, AnnounceKeeps
<1>3. CASE \E b \in Ids : SendNew(b)
  BY <1>3, SendNewStep
<1>4. CASE \E b \in Ids : Resend(b)
  BY <1>4, ResendStep
<1>5. CASE \E b \in Ids : AllowTransfer(b)
  BY <1>5, AllowTransferStep
<1>6. CASE \E b \in Ids : RejectTransfer(b) \/ CompleteTransfer(b)
  BY <1>6, LetGoStep
<1>7. CASE PollSent
  BY <1>7, PollSentStep
<1>8. CASE PollArrived
  BY <1>8, PollArrivedStep
<1>9. CASE \E m \in net : ReceiveAnnounce(m)
  BY <1>9, ReceiveAnnounceStep
<1>10. CASE \E m \in net : ReceiveData(m)
  BY <1>10, ReceiveDataStep
<1>11. CASE \E m \in net : ReceiveReject(m)
  BY <1>11, ReceiveRejectStep
<1>12. CASE (\E m \in net : LoseMessage(m)) \/ \E k \in 1..Len(acks) : LoseAck(k)
  BY <1>12, LoseStep
<1>13. CASE \E k \in Deliverable : ReceiveAck(k)
  BY <1>13, ReceiveAckStep
<1>14. CASE SweepSender
  BY <1>14, SweepSenderStep
<1>15. CASE SweepReceiver
  BY <1>15, SweepReceiverStep
<1>16. CASE Reconnect
  BY <1>16, ReconnectStep
<1>17. CASE UNCHANGED vars
  <2>1. acks' \in Seq(Acknowledgements) /\ \A c \in Ids : AcksKept(c)
    BY <1>17, AcksStill DEF vars, netVars, TransferInv, TypeOK
  <2>2. /\ UNCHANGED <<up, out, outDir, outFree, outFinished, outstanding, reported,
                       inn, inDir, inFree, whole, letGo, begun, announces, sweeps>>
        /\ net' \subseteq net /\ stranded \subseteq stranded'
    BY <1>17 DEF vars, sendVars, recvVars, netVars
  <2> QED BY <2>1, <2>2, PathKeeps
<1> QED BY <1>1, <1>2, <1>3, <1>4, <1>5, <1>6, <1>7, <1>8, <1>9, <1>10, <1>11, <1>12,
           <1>13, <1>14, <1>15, <1>16, <1>17 DEF Next

LEMMA TransferAlways == ASSUME Prompt PROVE Spec => []TransferInv
BY TransferInit, TransferNext, PTL DEF Spec

LEMMA BufferFollows == ASSUME TransferInv PROVE BufferInv
<1>1. CompleteIsWhole
  <2> SUFFICES ASSUME NEW s \in InSlots, inn[s] # NoIn, inn[s].complete
               PROVE  inn[s].buffer = Seqs
    BY DEF CompleteIsWhole
  <2>1. PICK r \in InEntry : r = inn[s] /\ inDir[r.id] = s /\ r.id \in Ids
    BY DEF TransferInv, TypeOK, InTable, InEntry
  <2>2. Linked(r.id) /\ Incoming(r.id) = r /\ r # NoIn
    BY <2>1, SlotsApart DEF TransferInv, Incoming
  <2>3. r.recvNext = Count /\ 0..(r.recvNext - 1) \subseteq r.buffer
    BY <2>1, <2>2, Zenon DEF Linked, RingsExact, ReceiverRing
  <2>4. r.buffer \subseteq Seqs
    BY DEF InEntry
  <2> QED BY Zenon, <2>1, <2>3, <2>4 DEF Seqs
<1>2. ProgressIsContiguous
  BY KnownEntry DEF ProgressIsContiguous, Progress, ReceiverRing
<1>3. RingsNeverAlias
  <2> SUFFICES ASSUME NEW b \in Ids, outDir[b] # NoSlot, inDir[b] # NoSlot
               PROVE  LET o == out[outDir[b]]
                          r == inn[inDir[b]]
                      IN /\ o.contiguousAcked <= r.recvNext
                         /\ o.nextSeq <= r.recvNext + Window
                         /\ \A m \in net : m.type = "data" /\ m.id = b => m.seq < r.recvNext + Window
    BY DEF RingsNeverAlias
  <2>1. PICK o \in OutEntry : o = out[outDir[b]] /\ Outgoing(b) = o /\ o # NoOut /\ SenderRing(o)
    BY PassEntry
  <2>2. PICK r \in InEntry : r = inn[inDir[b]] /\ Incoming(b) = r /\ r # NoIn
    BY KnownEntry
  <2>3. /\ o.contiguousAcked <= r.recvNext
        /\ \A m \in DataOf(b) : m.seq < r.recvNext + Window
    BY <2>1, <2>2, InvFacts, Zenon DEF Linked, NotBehind
  <2>4. o.nextSeq <= r.recvNext + Window
    <3>1. o.nextSeq \in Nat /\ o.contiguousAcked \in Nat /\ r.recvNext \in Nat /\ Window \in Nat
      BY SizesAssumption DEF OutEntry, InEntry
    <3>2. o.nextSeq <= o.contiguousAcked + Window
      BY Zenon, <2>1 DEF SenderRing
    <3>3. o.contiguousAcked <= r.recvNext
      BY Zenon, <2>3
    <3> QED BY <3>1, <3>2, <3>3
  <2> QED BY <2>1, <2>2, <2>3, <2>4 DEF DataOf
<1> QED BY <1>1, <1>2, <1>3 DEF BufferInv

LEMMA StruckFollows == ASSUME TransferInv PROVE StruckOffIsHeld
<1> SUFFICES ASSUME NEW b \in Ids \ stranded, outDir[b] # NoSlot, inDir[b] # NoSlot
             PROVE  StruckIsHeld(out[outDir[b]], inn[inDir[b]])
  BY DEF StruckOffIsHeld, StruckIsHeld
<1>1. out[outDir[b]] = Outgoing(b) /\ Outgoing(b) # NoOut
  BY PassEntry
<1>2. inn[inDir[b]] = Incoming(b) /\ Incoming(b) # NoIn
  BY KnownEntry
<1> QED BY <1>1, <1>2, InvFacts, Zenon DEF Linked, InOrder

(* With an application that polls before its slots are acknowledged again    *)
(* and no announcement arriving late, whatever the path loses or reorders   *)
(* and whichever side is swept: a transfer the receiver calls                *)
(* complete is whole in the application's buffer, the progress reported has  *)
(* no hole behind it, and no ring index stands for two packets (Inbox        *)
(* OnData, Complete, TransferProgress).                                      *)
THEOREM BufferSound == ASSUME Prompt PROVE Spec => []BufferInv
BY TransferAlways, BufferFollows, PTL

(* Of a transfer whose acknowledgements arrived in order, what OldestOverdue *)
(* passes over for good is in the receiver's buffer: nothing is both missing *)
(* and never sent again.                                                     *)
THEOREM StruckOffSound == ASSUME Prompt PROVE Spec => []StruckOffIsHeld
BY TransferAlways, StruckFollows, PTL


-----------------------------------------------------------------------------
(* What the sender's application is told. *)

\* Ok is queued only behind a cursor at the end, which only whole runs reach.
LEMMA OkPolled ==
  ASSUME TransferInv, OkMeansWhole, PollSent
  PROVE  OkMeansWhole'
<1>1. /\ outFinished \in Seq(FinishedEntry) /\ outFinished # <<>> /\ Len(outFinished) \in Nat
      /\ whole' = whole
  BY DEF PollSent, TransferInv, TypeOK, recvVars
<1>2. PICK e \in FinishedEntry : e = outFinished[1] /\ e = Head(outFinished)
                                 /\ 1 \in 1..Len(outFinished)
  BY <1>1, HeadTailProperties, ElementOfSeq, EmptySeq
<1>3. PICK o \in OutEntry : /\ o = out[e.slot] /\ o # NoOut /\ outDir[o.id] = e.slot
                            /\ e.outcome = "ok" => o.contiguousAcked = Count
  <2>1. e.slot \in OutSlots /\ out \in [OutSlots -> OutEntry \cup {NoOut}]
    BY Zenon, <1>2 DEF TransferInv, TypeOK, FinishedEntry
  <2>2. out[e.slot] # NoOut /\ (e.outcome = "ok" => out[e.slot].contiguousAcked = Count)
    BY Zenon, <1>2 DEF TransferInv, FinishedOnce
  <2>3. out[e.slot] \in OutEntry /\ outDir[out[e.slot].id] = e.slot
    BY Zenon, <2>1, <2>2 DEF TransferInv, OutTable
  <2> QED BY Zenon, <2>2, <2>3
<1>4. PICK b \in Ids : b = o.id
  BY DEF OutEntry
<1>5. e.outcome = "ok" => b \in whole
  <2>1. Outgoing(b) = o
    BY <1>2, <1>3, <1>4, SlotsApart DEF Outgoing, FinishedEntry
  <2> QED BY <2>1, <1>3, InvFacts, Zenon DEF Linked, WholeIsTrue
<1>6. reported' = [reported EXCEPT ![b] = e.outcome]
  BY <1>2, <1>3, <1>4 DEF PollSent
<1> QED BY <1>1, <1>5, <1>6 DEF OkMeansWhole, TransferInv, TypeOK

\* What has arrived whole stays so, and only PollTransfers reports.
LEMMA WholeStays ==
  ASSUME [Next]_vars
  PROVE  whole \subseteq whole' /\ (reported' = reported \/ PollSent)
<1>1. CASE \E b \in Ids : SendTransfer(b) \/ SendAnnounce(b) \/ AnnounceOverdue(b)
                          \/ SendNew(b) \/ Resend(b)
  BY <1>1 DEF SendTransfer, SendAnnounce, AnnounceOverdue, SendNew, Resend, recvVars
<1>2. CASE \E b \in Ids : AllowTransfer(b) \/ RejectTransfer(b) \/ CompleteTransfer(b)
  BY <1>2 DEF AllowTransfer, RejectTransfer, CompleteTransfer, sendVars
<1>3. CASE \E m \in net : ReceiveAnnounce(m) \/ ReceiveReject(m) \/ LoseMessage(m)
  BY Zenon, <1>3 DEF ReceiveAnnounce, ReceiveReject, LoseMessage, sendVars, recvVars
<1>4. CASE \E m \in net : ReceiveData(m)
  BY Zenon, <1>4 DEF ReceiveData, sendVars
<1>5. CASE (\E k \in Deliverable : ReceiveAck(k)) \/ \E k \in 1..Len(acks) : LoseAck(k)
  BY Zenon, <1>5 DEF ReceiveAck, LoseAck, sendVars, recvVars
<1>6. CASE PollSent \/ PollArrived \/ SweepSender \/ SweepReceiver \/ Reconnect
  BY <1>6 DEF PollSent, PollArrived, SweepSender, SweepReceiver, Reconnect, sendVars, recvVars
<1>7. CASE UNCHANGED vars
  BY <1>7 DEF vars, sendVars, recvVars
<1> QED BY <1>1, <1>2, <1>3, <1>4, <1>5, <1>6, <1>7 DEF Next

LEMMA OkNext ==
  ASSUME TransferInv, OkMeansWhole, [Next]_vars
  PROVE  OkMeansWhole'
<1>1. CASE PollSent
  BY <1>1, OkPolled
<1>2. CASE ~PollSent
  BY <1>2, WholeStays DEF OkMeansWhole
<1> QED BY <1>1, <1>2

(* The sender's application is told Ok only of a run whose bytes all reached *)
(* the receiver's buffer: every acknowledgement under way was true when it   *)
(* was written, the cursor follows acknowledgements alone, and the finished  *)
(* entry names the slot the cursor is in (OnAck, PollTransfers).             *)
THEOREM OkSound == ASSUME Prompt PROVE Spec => []OkMeansWhole
<1>1. ASSUME Init PROVE OkMeansWhole
  BY <1>1 DEF Init, OkMeansWhole
<1> QED BY <1>1, TransferAlways, OkNext, PTL DEF Spec


-----------------------------------------------------------------------------
(* The budget. *)

\* Inductive where SpendBalance is not: a peer never swept was never removed.
SpendInv == sweeps = 0 => up.sender /\ outstanding = announces + Cardinality(Charged)

\* Nothing stamped or resolved, and as much charged as announced.
LEMMA SpendStill ==
  ASSUME SpendInv, \A s \in OutSlots : Stamped(s)' = Stamped(s),
         sweeps' = sweeps, up.sender => up'.sender,
         \/ outstanding' = outstanding /\ announces' = announces
         \/ /\ outstanding' = outstanding + 1 /\ announces' = announces + 1
            /\ TypeOK
  PROVE  SpendInv'
<1>1. Charged' = Charged /\ Cardinality(Charged) \in Nat
  BY ChargedStill, ChargedPairs, PairsFinite
<1> QED BY <1>1 DEF SpendInv, TypeOK

\* A slot written with an entry of the same stamps.
LEMMA SpendSame ==
  ASSUME TypeOK, SpendInv, NEW s \in OutSlots, NEW v, out' = [out EXCEPT ![s] = v],
         Stamped(s) = IF v = NoOut THEN {} ELSE v.stamped,
         sweeps' = sweeps, up' = up,
         \/ outstanding' = outstanding /\ announces' = announces
         \/ outstanding' = outstanding + 1 /\ announces' = announces + 1
  PROVE  SpendInv'
<1>1. \A t \in OutSlots : Stamped(t)' = Stamped(t)
  BY Zenon, SlotStamped
<1> QED BY <1>1, SpendStill

\* A slot some of whose stamps are resolved, each given back once.
LEMMA SpendLess ==
  ASSUME TypeOK, SpendInv, NEW s \in OutSlots, NEW v \in OutEntry,
         out' = [out EXCEPT ![s] = v], NEW T \in SUBSET Rings, T \subseteq Stamped(s),
         v.stamped = Stamped(s) \ T, outstanding' = Refund(Cardinality(T)),
         UNCHANGED <<announces, sweeps, up>>
  PROVE  SpendInv'
<1>1. /\ Stamped(s)' = Stamped(s) \ T
      /\ \A t \in OutSlots \ {s} : Stamped(t)' = Stamped(t)
  BY Zenon, SlotStamped, NoEntry
<1>2. /\ Cardinality(T) \in Nat /\ Cardinality(T) <= Cardinality(Charged)
      /\ Cardinality(Charged') = Cardinality(Charged) - Cardinality(T)
  BY <1>1, ChargedLess
<1>3. Cardinality(Charged) \in Nat /\ announces \in Nat
  BY ChargedPairs, PairsFinite DEF TypeOK
<1>4. SUFFICES ASSUME sweeps = 0
               PROVE  outstanding' = announces + Cardinality(Charged')
  BY DEF SpendInv
<1>5. outstanding = announces + Cardinality(Charged)
  BY <1>4 DEF SpendInv
<1>6. outstanding' = outstanding - Cardinality(T)
  BY <1>2, <1>3, <1>5 DEF Refund
<1> QED BY <1>2, <1>3, <1>5, <1>6

\* SendTransfer, the announcements and PollTransfers: no stamp is set or cleared.
LEMMA SpendQuiet ==
  ASSUME TransferInv, SpendInv,
         \/ \E b \in Ids : SendTransfer(b) \/ SendAnnounce(b) \/ AnnounceOverdue(b)
         \/ PollSent
  PROVE  SpendInv'
<1>1. TypeOK
  BY InvFacts
<1>2. CASE \E b \in Ids : SendTransfer(b)
  <2>1. PICK b \in Ids, s \in outFree : out' = [out EXCEPT ![s] = NewOut(b)]
                                        /\ UNCHANGED <<up, outstanding, announces, sweeps>>
    BY Zenon, <1>2 DEF SendTransfer
  <2>2. s \in OutSlots /\ Stamped(s) = {} /\ NewOut(b).stamped = {}
    BY Zenon, <1>1 DEF TransferInv, OutTable, TypeOK, Stamped, NewOut
  <2> QED BY Zenon, <1>1, <2>1, <2>2, SpendSame
<1>3. CASE \E b \in Ids : SendAnnounce(b) \/ AnnounceOverdue(b)
  <2>1. PICK b \in Ids, x \in BOOLEAN :
            /\ outDir[b] # NoSlot /\ out' = [out EXCEPT ![outDir[b]].announced = x]
            /\ UNCHANGED <<up, sweeps>>
            /\ \/ outstanding' = outstanding /\ announces' = announces
               \/ outstanding' = outstanding + 1 /\ announces' = announces + 1
    BY Zenon, <1>3 DEF SendAnnounce, AnnounceOverdue, Sending
  <2>2. PICK o \in OutEntry : o = out[outDir[b]] /\ o # NoOut
    BY <2>1, PassEntry
  <2>3. PICK s \in OutSlots : s = outDir[b]
    BY <1>1, <2>1 DEF TypeOK
  <2>4. PICK v : v = [o EXCEPT !.announced = x]
    BY Zenon
  <2>5. out' = [out EXCEPT ![s] = v] /\ v.stamped = o.stamped /\ v.id = o.id
    BY <2>1, <2>2, <2>3, <2>4 DEF OutEntry
  <2>6. v # NoOut /\ Stamped(s) = v.stamped
    BY SMTT(20), <2>2, <2>3, <2>5, SizesAssumption DEF OutEntry, NoOut, Stamped
  <2> QED BY Zenon, <1>1, <2>1, <2>5, <2>6, SpendSame
<1>4. CASE PollSent
  <2>1. /\ outFinished \in Seq(FinishedEntry) /\ outFinished # <<>>
        /\ out' = [out EXCEPT ![Head(outFinished).slot] = NoOut]
        /\ UNCHANGED <<up, outstanding, announces, sweeps>>
    BY Zenon, <1>1, <1>4 DEF PollSent, TypeOK
  <2>2. PICK e \in FinishedEntry : e = outFinished[1] /\ e = Head(outFinished)
                                   /\ 1 \in 1..Len(outFinished)
    BY <2>1, HeadTailProperties, ElementOfSeq, EmptySeq
  <2>3. PICK s \in OutSlots : s = e.slot
    BY DEF FinishedEntry
  <2>4. Stamped(s) = {}
    BY <2>2, <2>3 DEF TransferInv, FinishedOnce, Stamped
  <2> QED BY Zenon, <1>1, <2>1, <2>2, <2>3, <2>4, SpendSame
<1> QED BY <1>2, <1>3, <1>4

\* A new packet is charged once, a resend not at all.
LEMMA SpendSends ==
  ASSUME TransferInv, SpendInv, NEW b \in Ids, SendNew(b) \/ Resend(b)
  PROVE  SpendInv'
<1>1. TypeOK /\ outDir[b] # NoSlot /\ UNCHANGED <<up, announces, sweeps>>
  BY InvFacts DEF SendNew, Resend, Sending
<1>2. PICK o \in OutEntry : o = out[outDir[b]] /\ o # NoOut /\ SenderRing(o)
  BY <1>1, PassEntry
<1>3. PICK s \in OutSlots : s = outDir[b]
  BY <1>1 DEF TypeOK
<1>4. Stamped(s) = o.stamped
  BY <1>2, <1>3 DEF Stamped
<1>5. CASE Resend(b)
  <2>1. PICK seq \in Overdue(o) : out' = [out EXCEPT ![s] = MarkSent(o, seq)]
                                  /\ outstanding' = outstanding
    BY Zenon, <1>2, <1>3, <1>5 DEF Resend, SpendResend
  <2>2. MarkSent(o, seq) = o
    BY ResendKeeps
  <2> QED BY Zenon, <1>1, <1>2, <1>4, <2>1, <2>2, SpendSame
<1>6. CASE SendNew(b)
  <2>1. PICK v : v = [MarkSent(o, o.nextSeq) EXCEPT !.nextSeq = o.nextSeq + 1]
    BY Zenon
  <2>2. out' = [out EXCEPT ![s] = v] /\ WindowAllows(o) /\ outstanding' = outstanding + 1
    BY <1>2, <1>3, <1>6, <2>1 DEF SendNew
  <2>3. PICK x : x = Ring(o.nextSeq)
    OBVIOUS
  <2>4. v # NoOut /\ v.stamped = o.stamped \cup {x}
    BY Zenon, <2>1, <2>3, SizesAssumption DEF MarkSent, OutEntry, NoOut
  <2>5. /\ o.nextSeq \in Nat /\ o.contiguousAcked \in Nat /\ o.contiguousAcked <= o.nextSeq
        /\ o.nextSeq < o.contiguousAcked + Window
    BY <1>2, <2>2, SizesAssumption DEF OutEntry, SenderRing, WindowAllows
  <2>6. x \in Rings
    BY <2>3, <2>5, RingRange
  <2>7. x \notin o.stamped
    <3> SUFFICES ASSUME x \in o.stamped PROVE FALSE
      OBVIOUS
    <3>1. PICK q \in o.contiguousAcked..(o.nextSeq - 1) : x = Ring(q)
      BY <1>2 DEF SenderRing
    <3>2. PICK n \in Nat : n = o.nextSeq
      BY <2>5
    <3>3. q \in Nat /\ q < n /\ n - q < Window /\ q - n < Window
      BY <2>5, <3>2, SizesAssumption
    <3>4. Ring(q) = Ring(n)
      BY Zenon, <2>3, <3>1, <3>2
    <3>5. q = n
      BY <3>3, <3>4, RingWindow
    <3> QED BY <3>3, <3>5
  <2>8. Cardinality(Charged') = Cardinality(Charged) + 1
    <3>1. Stamped(s)' = Stamped(s) \cup {x} /\ \A t \in OutSlots \ {s} : Stamped(t)' = Stamped(t)
      BY Zenon, <1>1, <1>4, <2>2, <2>4, SlotStamped
    <3> QED BY <1>4, <2>6, <2>7, <3>1, ChargedMore
  <2>9. Cardinality(Charged) \in Nat
    BY ChargedPairs, PairsFinite
  <2> QED BY <1>1, <2>2, <2>8, <2>9 DEF SpendInv, TypeOK
<1> QED BY <1>5, <1>6


\* An acknowledgement and a refusal give back each stamp they clear.
LEMMA SpendResolves ==
  ASSUME Prompt, TransferInv, SpendInv,
         \/ \E k \in Deliverable : ReceiveAck(k)
         \/ \E m \in net : ReceiveReject(m)
  PROVE  SpendInv'
<1>1. TypeOK /\ UNCHANGED <<up, announces, sweeps>>
  BY Zenon, InvFacts DEF ReceiveAck, ReceiveReject
<1>2. CASE out' = out /\ outstanding' = outstanding
  BY <1>1, <1>2, SpendStill DEF Stamped
<1>3. ASSUME NEW b \in Ids, outDir[b] # NoSlot, NEW T \in SUBSET Rings,
             T \subseteq out[outDir[b]].stamped, NEW v \in OutEntry,
             v.stamped = out[outDir[b]].stamped \ T,
             out' = [out EXCEPT ![outDir[b]] = v], outstanding' = Refund(Cardinality(T))
      PROVE  SpendInv'
  <2>1. PICK s \in OutSlots : s = outDir[b]
    BY <1>1, <1>3 DEF TypeOK
  <2>2. Stamped(s) = out[s].stamped
    BY <1>3, <2>1, PassEntry, Zenon DEF Stamped
  <2> QED BY Zenon, <1>1, <1>3, <2>1, <2>2, SpendLess
<1>4. ASSUME NEW k \in Deliverable, ReceiveAck(k), ~(out' = out /\ outstanding' = outstanding)
      PROVE  SpendInv'
  <2>1. k \in 1..Len(acks) /\ acks \in Seq(Acknowledgements)
    BY <1>1, DeliverableRange DEF TypeOK
  <2>2. PICK a \in Acknowledgements, b \in Ids : a = acks[k] /\ b = a.id
    <3>1. acks[k] \in Acknowledgements
      BY <2>1, ElementOfSeq
    <3> QED BY <3>1 DEF Acknowledgements
  <2>3. /\ outDir[b] # NoSlot /\ out' = [out EXCEPT ![outDir[b]] = OnAck(out[outDir[b]], a)]
        /\ outstanding' = Refund(Cardinality(out[outDir[b]].stamped
                                             \cap Resolved(out[outDir[b]], a)))
    BY Zenon, <1>4, <2>2 DEF ReceiveAck
  <2>4. PICK o \in OutEntry : o = out[outDir[b]] /\ o = Outgoing(b) /\ o # NoOut /\ SenderRing(o)
    BY Zenon, <2>3, PassEntry
  <2>5. PICK T \in SUBSET Rings : T = o.stamped \cap Resolved(o, a)
    BY Zenon DEF OutEntry
  <2>6. a.recvNext <= o.nextSeq
    BY <2>1, <2>2, <2>4, InvFacts, Zenon DEF Linked, BelowNext, AcksOf
  <2>7. PICK v \in OutEntry : v = OnAck(o, a)
    BY <2>4, <2>6, OnAckKeeps, Zenon
  <2>8. v.stamped = o.stamped \ T
    BY <2>5, <2>7 DEF OnAck, OutEntry
  <2> QED BY Zenon, <1>3, <2>3, <2>4, <2>5, <2>7, <2>8
<1>5. ASSUME NEW m \in net, ReceiveReject(m), ~(out' = out /\ outstanding' = outstanding)
      PROVE  SpendInv'
  <2>1. PICK b \in Ids : b = m.id
    BY <1>1 DEF TypeOK, Messages
  <2>2. /\ outDir[b] # NoSlot /\ out' = [out EXCEPT ![outDir[b]] = OnRefused(out[outDir[b]])]
        /\ outstanding' = Refund(Cardinality(out[outDir[b]].stamped))
    BY Zenon, <1>5, <2>1 DEF ReceiveReject
  <2>3. PICK o \in OutEntry : o = out[outDir[b]] /\ SenderRing(o)
    BY <2>2, PassEntry
  <2>4. PICK T \in SUBSET Rings : T = o.stamped
    BY DEF OutEntry
  <2>5. PICK v \in OutEntry : v = OnRefused(o) /\ v.stamped = o.stamped \ T
    BY <2>3, <2>4, OnRefusedKeeps
  <2> QED BY Zenon, <1>3, <2>2, <2>3, <2>4, <2>5
<1> QED BY <1>2, <1>4, <1>5

LEMMA SpendNext ==
  ASSUME Prompt, TransferInv, SpendInv, [Next]_vars
  PROVE  SpendInv'
<1>1. CASE \/ \E b \in Ids : SendTransfer(b) \/ SendAnnounce(b) \/ AnnounceOverdue(b)
           \/ PollSent
  BY <1>1, SpendQuiet
<1>2. CASE \E b \in Ids : SendNew(b) \/ Resend(b)
  BY <1>2, SpendSends
<1>3. CASE (\E k \in Deliverable : ReceiveAck(k)) \/ \E m \in net : ReceiveReject(m)
  BY <1>3, SpendResolves
<1>4. CASE SweepSender \/ Reconnect
  BY <1>4, InvFacts DEF SweepSender, Reconnect, SpendInv, TypeOK
<1>5. CASE \/ \E b \in Ids : AllowTransfer(b) \/ RejectTransfer(b) \/ CompleteTransfer(b)
           \/ \E m \in net : ReceiveAnnounce(m) \/ ReceiveData(m) \/ LoseMessage(m)
           \/ \E k \in 1..Len(acks) : LoseAck(k)
           \/ PollArrived \/ SweepReceiver \/ UNCHANGED vars
  <2>1. UNCHANGED <<out, outstanding, announces, sweeps>> /\ up'.sender = up.sender
    BY Zenon, <1>5, InvFacts
       DEF AllowTransfer, RejectTransfer, CompleteTransfer, ReceiveAnnounce, ReceiveData,
           LoseMessage, LoseAck, PollArrived, SweepReceiver, vars, sendVars, TypeOK
  <2> QED BY <2>1, SpendStill DEF Stamped
<1> QED BY <1>1, <1>2, <1>3, <1>4, <1>5 DEF Next

(* What the peer's budget counts outstanding is exactly the announcements    *)
(* sent and the ring entries still stamped, in whatever slots they are: no   *)
(* packet is charged twice, none is given back twice, and Refund's floor at  *)
(* zero is never what makes it fit (TransferSpend, TransferResolve).         *)
THEOREM SpendSound == ASSUME Prompt PROVE Spec => []SpendBalance
<1>1. ASSUME Init PROVE SpendInv
  <2>1. Charged = {}
    BY <1>1 DEF Init, Charged
  <2> QED BY <1>1, <2>1, FS_EmptySet DEF Init, SpendInv
<1>2. SpendInv => SpendBalance
  BY DEF SpendInv, SpendBalance
<1> QED BY <1>1, <1>2, TransferAlways, SpendNext, PTL DEF Spec
=============================================================================
