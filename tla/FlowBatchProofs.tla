--------------------------- MODULE FlowBatchProofs ---------------------------
(***************************************************************************)
(* What an open batch keeps, for any number of threads, messages, tenants  *)
(* and refusals, as long as no flow is closed under a thread that uses it. *)
(***************************************************************************)
EXTENDS FlowBatch, TLAPS, FiniteSetTheorems

-----------------------------------------------------------------------------
(* What accepting, numbering, appending to and taking a batch change, and that *)
(* the steps which take no sequence keep the invariant.                        *)

\* A batch that was taken is never the record of no batch.
LEMMA TakenIsACopy ==
  ASSUME batch # <<>> PROVE [flow |-> header, msgs |-> batch] # NoCopy
  BY DEF NoCopy

\* The empty batch is one.
LEMMA EmptyBatchFits == <<>> \in Seq(Message) /\ Len(<<>>) <= BatchCap
  <1>1. <<>> \in Seq(Message) OBVIOUS
  <1>2. Len(<<>>) = 0 OBVIOUS
  <1> QED BY <1>1, <1>2, BatchAssumption

\* The message in a thread's hand is a message, numbered next.
LEMMA MsgInHand ==
  ASSUME TypeOK, NumbersGrow, NEW t \in Threads, Cardinality(SentBy(t)) < MaxSends
  PROVE  /\ Msg(t) \in Message /\ Msg(t).by = t /\ Msg(t).flow = flow[t]
         /\ Cardinality(SentBy(t)) \in Nat /\ Msg(t).n = Cardinality(SentBy(t)) + 1
         /\ Msg(t) \notin accepted
  <1>1. IsFiniteSet(SentBy(t))
    <2>1. SentBy(t) \subseteq accepted /\ IsFiniteSet(accepted)
      BY DEF SentBy, NumbersGrow
    <2> QED BY <2>1, FS_Subset
  <1>2. Cardinality(SentBy(t)) \in Nat
    BY <1>1, FS_CardinalityType
  <1>3. Msg(t) \in Message /\ Msg(t).by = t /\ Msg(t).flow = flow[t] /\ Msg(t).n = Cardinality(SentBy(t)) + 1
    BY <1>2, BatchAssumption DEF Msg, Message, TypeOK
  <1>4. Msg(t) \notin accepted
    BY <1>2, <1>3 DEF NumbersGrow
  <1> QED BY <1>2, <1>3, <1>4

\* Accepting it counts it, for its sender alone.
LEMMA Accepting ==
  ASSUME TypeOK, NumbersGrow, NEW t \in Threads, Cardinality(SentBy(t)) < MaxSends,
         accepted' = accepted \cup {Msg(t)}
  PROVE  /\ IsFiniteSet(accepted') /\ accepted' \subseteq Message
         /\ Cardinality(SentBy(t)') = Cardinality(SentBy(t)) + 1
         /\ \A u \in Threads \ {t} : SentBy(u)' = SentBy(u)
         /\ \A m \in accepted' : m.n <= Cardinality(SentBy(m.by)')
  <1> USE MsgInHand
  <1>1. IsFiniteSet(accepted') /\ accepted' \subseteq Message
    <2>1. IsFiniteSet(accepted) BY DEF NumbersGrow
    <2>2. IsFiniteSet(accepted \cup {Msg(t)}) BY <2>1, FS_AddElement
    <2> QED BY <2>2 DEF TypeOK
  <1>2. \A u \in Threads \ {t} : SentBy(u)' = SentBy(u)
    BY DEF SentBy
  <1>3. SentBy(t)' = SentBy(t) \cup {Msg(t)} /\ Msg(t) \notin SentBy(t)
    BY DEF SentBy
  <1>4. Cardinality(SentBy(t)') = Cardinality(SentBy(t)) + 1
    <2>1. IsFiniteSet(SentBy(t))
      <3>1. SentBy(t) \subseteq accepted /\ IsFiniteSet(accepted)
        BY DEF SentBy, NumbersGrow
      <3> QED BY <3>1, FS_Subset
    <2>2. Cardinality(SentBy(t) \cup {Msg(t)}) = Cardinality(SentBy(t)) + 1
      BY Zenon, <2>1, <1>3, FS_AddElement
    <2> QED BY <2>2, <1>3
  <1>5. \A m \in accepted' : m.n <= Cardinality(SentBy(m.by)')
    <2> SUFFICES ASSUME NEW m \in accepted' PROVE m.n <= Cardinality(SentBy(m.by)')
      OBVIOUS
    <2>1. CASE m = Msg(t)
      BY <2>1, <1>4
    <2>2. CASE m \in accepted /\ m.by = t
      <3>1. m.n <= Cardinality(SentBy(t)) /\ m.n \in Nat
        BY <2>2 DEF NumbersGrow, TypeOK, Message
      <3> QED BY <3>1, <2>2, <1>4
    <2>3. CASE m \in accepted /\ m.by # t
      <3>1. m.by \in Threads \ {t} BY <2>3 DEF TypeOK, Message
      <3> QED BY <3>1, <2>3, <1>2 DEF NumbersGrow
    <2> QED BY <2>1, <2>2, <2>3
  <1> QED BY <1>1, <1>2, <1>4, <1>5

\* One more packet of the flow: where its messages are, and what was there.
LEMMA Admitting ==
  ASSUME TypeOK, NumbersGrow, NEW p \in [to : 1 .. MaxTenants, flow : 1 .. MaxTenants, msgs : Seq(Message)],
         Len(p.msgs) <= BatchCap, admitted' = Append(admitted, p)
  PROVE  /\ \A q \in Places : q \in Places' /\ At(q)' = At(q)
         /\ \A q \in Places' : \/ q \in Places
                               \/ /\ q[1] = Len(admitted) + 1 /\ q[2] \in 1 .. Len(p.msgs)
                                  /\ At(q)' = p.msgs[q[2]]
         /\ Admitted' = Admitted \cup {p.msgs[j] : j \in 1 .. Len(p.msgs)}
         /\ admitted' \in Seq([to : 1 .. MaxTenants, flow : 1 .. MaxTenants, msgs : Seq(Message)])
         /\ \A i \in 1 .. Len(admitted') : Len(admitted'[i].msgs) <= BatchCap
  <1> PICK n \in Nat : n = Len(admitted)
    BY DEF TypeOK
  <1>0. Len(p.msgs) \in Nat /\ BatchCap \in Nat
    BY BatchAssumption
  <1>1. /\ Len(admitted') = n + 1 /\ admitted'[n + 1] = p
        /\ \A i \in 1 .. n : admitted'[i] = admitted[i]
    BY DEF TypeOK
  <1>2. \A q \in Places : q \in Places' /\ At(q)' = At(q)
    BY <1>0, <1>1 DEF Places, At
  <1>3. \A q \in Places' : \/ q \in Places
                           \/ /\ q[1] = n + 1 /\ q[2] \in 1 .. Len(p.msgs)
                              /\ At(q)' = p.msgs[q[2]]
    BY <1>0, <1>1 DEF Places, At
  <1>4. Admitted' = Admitted \cup {p.msgs[j] : j \in 1 .. Len(p.msgs)}
    <2>1. Admitted' \subseteq Admitted \cup {p.msgs[j] : j \in 1 .. Len(p.msgs)}
      BY <1>2, <1>3 DEF Admitted
    <2>2. Admitted \subseteq Admitted'
      BY <1>2 DEF Admitted
    <2>3. \A j \in 1 .. Len(p.msgs) : <<n + 1, j>> \in Places' /\ At(<<n + 1, j>>)' = p.msgs[j]
      BY <1>0, <1>1 DEF Places, At
    <2>4. \A j \in 1 .. Len(p.msgs) : p.msgs[j] \in Admitted'
      BY Zenon, <2>3 DEF Admitted
    <2> QED BY <2>1, <2>2, <2>4
  <1>5. admitted' \in Seq([to : 1 .. MaxTenants, flow : 1 .. MaxTenants, msgs : Seq(Message)])
    BY DEF TypeOK
  <1>6. \A i \in 1 .. Len(admitted') : Len(admitted'[i].msgs) <= BatchCap
    BY <1>0, <1>1 DEF NumbersGrow
  <1> QED BY <1>2, <1>3, <1>4, <1>5, <1>6

\* A packet in order that follows all that was admitted keeps the order.
LEMMA AdmittingInOrder ==
  ASSUME TypeOK, NumbersGrow, NEW p \in [to : 1 .. MaxTenants, flow : 1 .. MaxTenants, msgs : Seq(Message)],
         Len(p.msgs) <= BatchCap, admitted' = Append(admitted, p), EachOnceInOrder,
         \A i, j \in 1 .. Len(p.msgs) : i < j /\ p.msgs[i].by = p.msgs[j].by => p.msgs[i].n < p.msgs[j].n,
         \A m \in Admitted, j \in 1 .. Len(p.msgs) : m.by = p.msgs[j].by => m.n < p.msgs[j].n
  PROVE  EachOnceInOrder'
  <1> SUFFICES ASSUME NEW a \in Places', NEW b \in Places', Before(a, b)', At(a)'.by = At(b)'.by
               PROVE  At(a)'.n < At(b)'.n
    BY DEF EachOnceInOrder
  <1>0. Len(admitted) \in Nat /\ Before(a, b) BY DEF TypeOK, Before
  <1>1. /\ a \in Places => At(a)' = At(a) /\ a[1] \in 1 .. Len(admitted)
        /\ b \in Places => At(b)' = At(b) /\ b[1] \in 1 .. Len(admitted)
    BY Zenon, Admitting DEF Places
  <1>2. /\ a \notin Places => /\ a[1] = Len(admitted) + 1 /\ a[2] \in 1 .. Len(p.msgs)
                              /\ At(a)' = p.msgs[a[2]]
        /\ b \notin Places => /\ b[1] = Len(admitted) + 1 /\ b[2] \in 1 .. Len(p.msgs)
                              /\ At(b)' = p.msgs[b[2]]
    BY Admitting
  <1>3. CASE a \in Places /\ b \in Places
    BY <1>0, <1>1, <1>3 DEF EachOnceInOrder
  <1>4. CASE a \in Places /\ b \notin Places
    <2>1. At(a) \in Admitted BY <1>4 DEF Admitted
    <2> QED BY Zenon, <2>1, <1>1, <1>2, <1>4
  <1>5. CASE a \notin Places /\ b \in Places
    BY <1>0, <1>1, <1>2, <1>5 DEF Before
  <1>6. CASE a \notin Places /\ b \notin Places
    <2>1. a[2] < b[2] BY <1>0, <1>2, <1>6 DEF Before
    <2> QED BY <2>1, <1>2, <1>6
  <1> QED BY <1>3, <1>4, <1>5, <1>6

\* What a step leaves alone that carries no message.
LEMMA NothingCarried ==
  ASSUME BatchInv, UNCHANGED <<tenant, batch, header, admitted, accepted>>
  PROVE  /\ Open' = Open /\ Admitted' = Admitted /\ EachOnceInOrder' = EachOnceInOrder
         /\ \A t : SentBy(t)' = SentBy(t)
         /\ AcceptedKept' /\ BatchIsTenants' /\ NumbersGrow'
  <1>1. Places' = Places /\ \A p : At(p)' = At(p)
    BY DEF Places, At
  <1>2. Open' = Open /\ Admitted' = Admitted
    BY <1>1 DEF Open, Admitted
  <1>3. EachOnceInOrder' = EachOnceInOrder
    BY <1>1 DEF EachOnceInOrder, Before
  <1>4. \A t : SentBy(t)' = SentBy(t)
    BY DEF SentBy
  <1>5. AcceptedKept' /\ BatchIsTenants'
    BY <1>2 DEF BatchInv, AcceptedKept, BatchIsTenants
  <1>6. NumbersGrow'
    BY <1>2, <1>4 DEF BatchInv, NumbersGrow
  <1> QED BY <1>2, <1>3, <1>4, <1>5, <1>6

\* OfferToBatch, Flush, PeekBatch: the thread goes on and nothing else changes.
LEMMA ThreadGoesOn ==
  ASSUME BatchInv, OnceUnlessRefused, NEW t \in Threads,
         OfferToBatch(t) \/ Flush(t) \/ PeekBatch(t)
  PROVE  BatchInv' /\ OnceUnlessRefused'
  <1> USE DEF Goto
  <1>1. UNCHANGED <<tenant, batch, header, inFlight, admitted, copy, ok, accepted, refusals>>
    BY DEF OfferToBatch, Flush, PeekBatch, slotVars, history
  <1>2. /\ \A u \in Threads \ {t} : pc'[u] = pc[u] /\ why'[u] = why[u] /\ flow'[u] = flow[u]
        /\ ~Holding(t) /\ ~Holding(t)'
    BY DEF OfferToBatch, Flush, PeekBatch, Holding, BatchInv, TypeOK
  <1>3. TypeOK'
    <2>1. TypeOK BY DEF BatchInv
    <2>2. tenant \in 1 .. MaxTenants BY <2>1 DEF TypeOK
    <2>3. \/ pc' = [pc EXCEPT ![t] = "append"] \/ pc' = [pc EXCEPT ![t] = "take"]
          \/ pc' = [pc EXCEPT ![t] = "direct"] \/ pc' = [pc EXCEPT ![t] = "idle"]
      BY DEF OfferToBatch, Flush, PeekBatch
    <2>4. why' = why \/ why' = [why EXCEPT ![t] = "clear"] \/ why' = [why EXCEPT ![t] = "flush"]
      BY DEF OfferToBatch, Flush, PeekBatch
    <2>5. flow' = flow \/ flow' = [flow EXCEPT ![t] = tenant]
      BY DEF OfferToBatch, Flush, PeekBatch
    <2>6. pc' \in [Threads -> {"idle", "append", "reappend", "peek", "direct", "take", "seal", "wire", "finish"}]
      BY Zenon, <2>1, <2>3 DEF TypeOK
    <2>7. why' \in [Threads -> {"flush", "full", "clear"}] /\ flow' \in [Threads -> 1 .. MaxTenants]
      BY Zenon, <2>1, <2>2, <2>4, <2>5 DEF TypeOK
    <2> QED BY <2>1, <2>6, <2>7, <1>1, Zenon DEF TypeOK
  <1>4. HolderHasBatch'
    BY <1>1 DEF HolderHasBatch, BatchInv
  <1>5. CallsInHand'
    <2> SUFFICES ASSUME NEW u \in Threads
                 PROVE  /\ Holding(u)' => copy'[u] # NoCopy /\ batch' # <<>>
                        /\ ~Holding(u)' => copy'[u] = NoCopy
                        /\ pc'[u] # "idle" => flow'[u] = tenant'
                        /\ Sending(u)' => Cardinality(SentBy(u)') < MaxSends
                        /\ Numbered(u)' => Open' \subseteq Admitted'
                        /\ pc'[u] = "direct" => \A m \in Open' : m.by # u
      BY DEF CallsInHand
    <2>1. CASE u # t
      BY <2>1, <1>1, <1>2, NothingCarried DEF CallsInHand, BatchInv, Holding, Sending, Numbered
    <2>2. CASE u = t
      <3>1. pc'[t] # "idle" => flow'[t] = tenant'
        BY <1>1 DEF OfferToBatch, Flush, PeekBatch, CallsInHand, BatchInv, TypeOK
      <3>2. Sending(t)' => Cardinality(SentBy(t)') < MaxSends
        BY SMTT(20), <1>1, NothingCarried DEF OfferToBatch, Flush, PeekBatch, CallsInHand, BatchInv, TypeOK, Sending, Holding
      <3>3. pc'[t] = "direct" => Open' = {}
        BY <1>1 DEF OfferToBatch, Flush, PeekBatch, BatchInv, TypeOK, Open
      <3> QED BY <2>2, <1>1, <1>2, <3>1, <3>2, <3>3 DEF CallsInHand, BatchInv, Numbered, Holding
    <2> QED BY <2>1, <2>2
  <1>6. \A u \in Threads : Numbered(u)' = Numbered(u)
    BY <1>1, <1>2 DEF Numbered, Holding
  <1>7. BatchBehind'
    BY <1>1, <1>6, NothingCarried DEF BatchBehind, BatchInv
  <1>8. OnceUnlessRefused'
    BY <1>1, NothingCarried DEF OnceUnlessRefused
  <1> QED BY <1>1, <1>3, <1>4, <1>5, <1>7, <1>8, NothingCarried DEF BatchInv

\* Nobody has a batch that is not marked, and one thread only a marked one.
LEMMA Holders ==
  ASSUME BatchInv
  PROVE  /\ ~inFlight => \A u \in Threads : copy[u] = NoCopy /\ ~Holding(u) /\ ~Numbered(u)
         /\ \A t \in Threads : Holding(t) =>
              /\ inFlight /\ copy[t] = [flow |-> header, msgs |-> batch] /\ batch # <<>>
              /\ header = tenant
              /\ \A u \in Threads \ {t} : copy[u] = NoCopy /\ ~Holding(u) /\ ~Numbered(u)
  <1>1. \A u \in Threads : copy[u] = NoCopy <=> ~Holding(u)
    BY DEF BatchInv, CallsInHand
  <1>2. \A u \in Threads : Numbered(u) => Holding(u)
    BY DEF Numbered, Holding
  <1>3. \A t \in Threads : Holding(t) => batch # <<>> /\ header = tenant
    BY DEF BatchInv, CallsInHand, BatchIsTenants
  <1> QED BY <1>1, <1>2, <1>3 DEF BatchInv, HolderHasBatch

\* AppendToBatch, where the message is packed.
LEMMA MessagePacked ==
  ASSUME BatchInv, OnceUnlessRefused, NEW t \in Threads, AppendToBatch(t), accepted' # accepted
  PROVE  BatchInv' /\ OnceUnlessRefused'
  <1> USE DEF Goto
  <1>1. /\ pc[t] \in {"append", "reappend"} /\ ~inFlight /\ Len(batch) < BatchCap
        /\ batch' = Append(batch, Msg(t)) /\ header' = IF batch = <<>> THEN flow[t] ELSE header
        /\ accepted' = accepted \cup {Msg(t)}
        /\ pc' = [pc EXCEPT ![t] = "idle"]
        /\ UNCHANGED <<tenant, inFlight, admitted, why, flow, copy, ok, refusals>>
    BY DEF AppendToBatch
  <1>2. Cardinality(SentBy(t)) < MaxSends /\ flow[t] = tenant
    BY <1>1 DEF BatchInv, CallsInHand, Sending, Holding
  <1>3. TypeOK /\ NumbersGrow
    BY DEF BatchInv
  <1> HIDE DEF Goto
  <1>4. /\ Msg(t) \in Message /\ Msg(t).by = t /\ Msg(t).flow = tenant
        /\ Cardinality(SentBy(t)) \in Nat /\ Msg(t).n = Cardinality(SentBy(t)) + 1
    BY <1>2, <1>3, MsgInHand
  <1>5. /\ IsFiniteSet(accepted') /\ accepted' \subseteq Message
        /\ Cardinality(SentBy(t)') = Cardinality(SentBy(t)) + 1
        /\ \A u \in Threads \ {t} : SentBy(u)' = SentBy(u)
        /\ \A m \in accepted' : m.n <= Cardinality(SentBy(m.by)')
    BY Zenon, <1>1, <1>2, <1>3, Accepting
  <1>6. /\ Len(batch) \in Nat /\ Len(batch') = Len(batch) + 1 /\ batch' \in Seq(Message)
        /\ batch'[Len(batch) + 1] = Msg(t) /\ \A i \in 1 .. Len(batch) : batch'[i] = batch[i]
    BY <1>1, <1>3, <1>4 DEF TypeOK
  <1>7. Open' = Open \cup {Msg(t)}
    BY <1>6 DEF Open
  <1>8. Admitted' = Admitted /\ EachOnceInOrder' = EachOnceInOrder
    <2>1. Places' = Places /\ \A p : At(p)' = At(p)
      BY <1>1 DEF Places, At
    <2> QED BY <2>1 DEF Admitted, EachOnceInOrder, Before
  <1>9. TypeOK'
    BY <1>1, <1>3, <1>5, <1>6, BatchAssumption DEF TypeOK
  <1>10. \A u \in Threads : copy[u] = NoCopy /\ ~Holding(u) /\ ~Numbered(u)
    BY <1>1, Holders
  <1>11. \A u \in Threads : copy'[u] = NoCopy /\ ~Holding(u)' /\ ~Numbered(u)'
    BY <1>1, <1>3, <1>10 DEF Holding, Numbered, TypeOK
  <1>12. AcceptedKept'
    BY <1>1, <1>7, <1>8 DEF AcceptedKept, BatchInv
  <1>13. HolderHasBatch'
    BY <1>11 DEF HolderHasBatch
  <1>14. BatchIsTenants'
    BY <1>1, <1>2, <1>4, <1>7 DEF BatchIsTenants, BatchInv, Open
  <1>15. NumbersGrow'
    BY <1>1, <1>3, <1>4, <1>5, <1>7, <1>8 DEF NumbersGrow, TypeOK
  <1>16. CallsInHand'
    <2> SUFFICES ASSUME NEW u \in Threads
                 PROVE  /\ pc'[u] # "idle" => flow'[u] = tenant'
                        /\ Sending(u)' => Cardinality(SentBy(u)') < MaxSends
                        /\ pc'[u] = "direct" => \A m \in Open' : m.by # u
      BY <1>11 DEF CallsInHand
    <2>1. CASE u = t
      BY <2>1, <1>1, <1>3 DEF Sending, TypeOK
    <2>2. CASE u # t
      BY SMTT(20), <2>2, <1>1, <1>3, <1>4, <1>5, <1>7 DEF Sending, Holding, TypeOK, CallsInHand, BatchInv
    <2> QED BY <2>1, <2>2
  <1>17. BatchBehind'
    <2> SUFFICES ASSUME refusals = 0
                 PROVE  /\ \A i, j \in 1 .. Len(batch') :
                             i < j /\ batch'[i].by = batch'[j].by => batch'[i].n < batch'[j].n
                        /\ \A m \in Admitted', o \in Open' : m.by = o.by => m.n < o.n
      BY <1>1 DEF BatchBehind
    <2>1. \A m \in Admitted \cup Open : m.by = t => m.n < Msg(t).n
      <3>1. \A m \in Admitted \cup Open : m \in accepted /\ m.n \in Nat /\ m.n <= Cardinality(SentBy(m.by))
        BY <1>3 DEF NumbersGrow, TypeOK, Message
      <3> QED BY <3>1, <1>4
    <2>2. \A i, j \in 1 .. Len(batch') :
             i < j /\ batch'[i].by = batch'[j].by => batch'[i].n < batch'[j].n
      <3>1. \A i \in 1 .. Len(batch) : batch[i] \in Open BY DEF Open
      <3>2. \A i, j \in 1 .. Len(batch) : i < j /\ batch[i].by = batch[j].by => batch[i].n < batch[j].n
        BY DEF BatchBehind, BatchInv
      <3> TAKE i, j \in 1 .. Len(batch')
      <3> HAVE i < j /\ batch'[i].by = batch'[j].by
      <3>3. i \in 1 .. Len(batch) /\ batch'[i] = batch[i] BY <1>6
      <3>4. CASE j \in 1 .. Len(batch)
        BY <3>2, <3>3, <3>4, <1>6
      <3>5. CASE j = Len(batch) + 1
        BY <3>1, <3>3, <3>5, <2>1, <1>4, <1>6
      <3> QED BY <3>4, <3>5, <1>6
    <2>3. \A m \in Admitted', o \in Open' : m.by = o.by => m.n < o.n
      BY <2>1, <1>4, <1>7, <1>8, <1>10 DEF BatchBehind, BatchInv
    <2> QED BY <2>2, <2>3
  <1>18. OnceUnlessRefused'
    BY <1>1, <1>8 DEF OnceUnlessRefused
  <1> QED BY <1>9, <1>12, <1>13, <1>14, <1>15, <1>16, <1>17, <1>18 DEF BatchInv

\* AppendToBatch, where it is not: the thread goes to flush, or gives up.
LEMMA MessageTurnedAway ==
  ASSUME BatchInv, OnceUnlessRefused, NEW t \in Threads, AppendToBatch(t), accepted' = accepted
  PROVE  BatchInv' /\ OnceUnlessRefused'
  <1>1. /\ pc[t] \in {"append", "reappend"}
        /\ \/ pc' = [pc EXCEPT ![t] = "take"] /\ why' = [why EXCEPT ![t] = "full"]
           \/ pc' = [pc EXCEPT ![t] = "idle"] /\ UNCHANGED why
        /\ UNCHANGED <<tenant, batch, header, inFlight, admitted, flow, copy, ok, accepted, refusals>>
    <2>1. Cardinality(SentBy(t)) < MaxSends /\ TypeOK /\ NumbersGrow
      BY DEF AppendToBatch, BatchInv, CallsInHand, Sending, Holding
    <2>2. Msg(t) \notin accepted
      BY <2>1, MsgInHand
    <2> QED BY <2>2 DEF AppendToBatch, Goto
  <1>2. ~Holding(t) /\ ~Holding(t)' /\ \A u \in Threads \ {t} : pc'[u] = pc[u] /\ why'[u] = why[u]
    BY <1>1 DEF Holding, BatchInv, TypeOK
  <1>3. TypeOK'
    BY Zenon, <1>1 DEF BatchInv, TypeOK
  <1>4. HolderHasBatch'
    BY <1>1 DEF HolderHasBatch, BatchInv
  <1>5. CallsInHand'
    <2> SUFFICES ASSUME NEW u \in Threads
                 PROVE  /\ Holding(u)' => copy'[u] # NoCopy /\ batch' # <<>>
                        /\ ~Holding(u)' => copy'[u] = NoCopy
                        /\ pc'[u] # "idle" => flow'[u] = tenant'
                        /\ Sending(u)' => Cardinality(SentBy(u)') < MaxSends
                        /\ Numbered(u)' => Open' \subseteq Admitted'
                        /\ pc'[u] = "direct" => \A m \in Open' : m.by # u
      BY DEF CallsInHand
    <2>1. CASE u # t
      BY <2>1, <1>1, <1>2, NothingCarried DEF CallsInHand, BatchInv, Holding, Sending, Numbered
    <2>2. CASE u = t
      BY <2>2, <1>1, <1>2, NothingCarried DEF CallsInHand, BatchInv, Holding, Sending, Numbered, TypeOK
    <2> QED BY <2>1, <2>2
  <1>6. \A u \in Threads : Numbered(u)' = Numbered(u)
    BY <1>1, <1>2 DEF Numbered, Holding
  <1>7. BatchBehind' /\ OnceUnlessRefused'
    BY <1>1, <1>6, NothingCarried DEF BatchBehind, BatchInv, OnceUnlessRefused
  <1> QED BY <1>1, <1>3, <1>4, <1>5, <1>7, NothingCarried DEF BatchInv

\* TakeBatch: the batch is copied and marked, or the thread goes on without.
LEMMA BatchTaken ==
  ASSUME BatchInv, OnceUnlessRefused, NEW t \in Threads, TakeBatch(t)
  PROVE  BatchInv' /\ OnceUnlessRefused'
  <1>0. TypeOK /\ pc[t] = "take" BY DEF BatchInv, TakeBatch
  <1>1. UNCHANGED <<tenant, batch, header, admitted, why, flow, ok, accepted, refusals>>
    BY DEF TakeBatch, history
  <1>2. \/ /\ batch # <<>> /\ ~inFlight /\ inFlight' = TRUE
           /\ copy' = [copy EXCEPT ![t] = [flow |-> header, msgs |-> batch]]
           /\ pc' = [pc EXCEPT ![t] = "seal"]
        \/ /\ UNCHANGED <<copy, inFlight>>
           /\ \E status \in BOOLEAN : pc' = [pc EXCEPT ![t] = AfterFlush(t, status)]
    BY Zenon DEF TakeBatch, Goto
  <1>3. \A status \in BOOLEAN : /\ AfterFlush(t, status) \in {"idle", "reappend", "peek"}
                                /\ AfterFlush(t, status) # "idle" => why[t] # "flush"
    BY <1>0 DEF AfterFlush, TypeOK
  <1>4. \A u \in Threads \ {t} : pc'[u] = pc[u] /\ copy'[u] = copy[u]
    BY <1>0, <1>2 DEF TypeOK
  <1>5. TypeOK'
    <2>1. pc' \in [Threads -> {"idle", "append", "reappend", "peek", "direct", "take", "seal", "wire", "finish"}]
      BY Zenon, <1>0, <1>2, <1>3 DEF TypeOK
    <2>2. [flow |-> header, msgs |-> batch] \in [flow : 0 .. MaxTenants, msgs : Seq(Message)]
      BY <1>0 DEF TypeOK
    <2>3. copy' \in [Threads -> [flow : 0 .. MaxTenants, msgs : Seq(Message)]]
      <3> HIDE DEF Message
      <3> QED BY Zenon, <1>0, <1>2, <2>2 DEF TypeOK
    <2>4. inFlight' \in BOOLEAN
      BY <1>0, <1>2, Zenon DEF TypeOK
    <2> QED BY <1>0, <1>1, <2>1, <2>3, <2>4 DEF TypeOK
  <1>6. ~Holding(t) /\ copy[t] = NoCopy /\ flow[t] = tenant
        /\ (why[t] # "flush" => Cardinality(SentBy(t)) < MaxSends)
    BY <1>0 DEF Holding, Sending, BatchInv, CallsInHand
  <1>7. HolderHasBatch'
    <2>1. CASE UNCHANGED <<copy, inFlight>>
      BY <2>1, <1>1 DEF HolderHasBatch, BatchInv
    <2>2. CASE ~inFlight /\ inFlight' = TRUE /\ copy' = [copy EXCEPT ![t] = [flow |-> header, msgs |-> batch]]
      <3>1. \A u \in Threads : copy[u] = NoCopy BY <2>2, Holders
      <3> QED BY <3>1, <2>2, <1>0, <1>1, <1>4 DEF HolderHasBatch, TypeOK
    <2> QED BY Zenon, <2>1, <2>2, <1>2
  <1>8. CallsInHand'
    <2> SUFFICES ASSUME NEW u \in Threads
                 PROVE  /\ Holding(u)' => copy'[u] # NoCopy /\ batch' # <<>>
                        /\ ~Holding(u)' => copy'[u] = NoCopy
                        /\ pc'[u] # "idle" => flow'[u] = tenant'
                        /\ Sending(u)' => Cardinality(SentBy(u)') < MaxSends
                        /\ Numbered(u)' => Open' \subseteq Admitted'
                        /\ pc'[u] = "direct" => \A m \in Open' : m.by # u
      BY DEF CallsInHand
    <2>1. CASE u # t
      BY <2>1, <1>1, <1>4, NothingCarried DEF CallsInHand, BatchInv, Holding, Sending, Numbered
    <2>2. CASE u = t /\ pc' = [pc EXCEPT ![t] = "seal"] /\ batch # <<>>
               /\ copy' = [copy EXCEPT ![t] = [flow |-> header, msgs |-> batch]]
      <3>1. copy'[t] # NoCopy BY <2>2, <1>0, TakenIsACopy DEF TypeOK
      <3>2. pc'[t] = "seal" BY <2>2, <1>0 DEF TypeOK
      <3> QED BY <2>2, <3>1, <3>2, <1>1, <1>6, NothingCarried DEF Holding, Sending, Numbered
    <2>3. CASE u = t /\ UNCHANGED copy /\ \E status \in BOOLEAN : pc' = [pc EXCEPT ![t] = AfterFlush(t, status)]
      <3>1. pc'[t] \in {"idle", "reappend", "peek"} /\ (pc'[t] # "idle" => why[t] # "flush")
        BY <2>3, <1>0, <1>3 DEF TypeOK
      <3> QED BY <2>3, <3>1, <1>1, <1>6, NothingCarried DEF Holding, Sending, Numbered
    <2> QED BY <2>1, <2>2, <2>3, <1>2
  <1>9. \A u \in Threads : Numbered(u)' = Numbered(u)
    <2>1. ~Numbered(t) /\ ~Numbered(t)'
      BY Zenon, <1>0, <1>2, <1>3 DEF Numbered, TypeOK
    <2> QED BY <2>1, <1>1, <1>4 DEF Numbered
  <1>10. BatchBehind' /\ OnceUnlessRefused'
    BY <1>1, <1>9, NothingCarried DEF BatchBehind, BatchInv, OnceUnlessRefused
  <1> QED BY <1>1, <1>5, <1>7, <1>8, <1>10, NothingCarried DEF BatchInv

-----------------------------------------------------------------------------
(* The steps that accept, append and take. *)

\* SendNow: the message is a packet of its own.
LEMMA MessageSentNow ==
  ASSUME BatchInv, OnceUnlessRefused, NEW t \in Threads, SendNow(t), accepted' # accepted
  PROVE  BatchInv' /\ OnceUnlessRefused'
  <1> DEFINE p == [to |-> flow[t], flow |-> flow[t], msgs |-> <<Msg(t)>>]
  <1>1. /\ pc[t] = "direct" /\ pc' = [pc EXCEPT ![t] = "idle"]
        /\ admitted' = Append(admitted, p) /\ accepted' = accepted \cup {Msg(t)}
        /\ UNCHANGED <<tenant, batch, header, inFlight, why, flow, copy, ok, refusals>>
    BY DEF SendNow, Goto, slotVars
  <1>2. Cardinality(SentBy(t)) < MaxSends /\ flow[t] = tenant /\ \A m \in Open : m.by # t
    BY <1>1 DEF BatchInv, CallsInHand, Sending, Holding
  <1>3. TypeOK /\ NumbersGrow
    BY DEF BatchInv
  <1>4. /\ Msg(t) \in Message /\ Msg(t).by = t /\ Msg(t).flow = tenant
        /\ Cardinality(SentBy(t)) \in Nat /\ Msg(t).n = Cardinality(SentBy(t)) + 1
    BY <1>2, <1>3, MsgInHand
  <1>5. /\ IsFiniteSet(accepted') /\ accepted' \subseteq Message
        /\ Cardinality(SentBy(t)') = Cardinality(SentBy(t)) + 1
        /\ \A u \in Threads \ {t} : SentBy(u)' = SentBy(u)
        /\ \A m \in accepted' : m.n <= Cardinality(SentBy(m.by)')
    BY Zenon, <1>1, <1>2, <1>3, Accepting
  <1>6. /\ p \in [to : 1 .. MaxTenants, flow : 1 .. MaxTenants, msgs : Seq(Message)]
        /\ Len(p.msgs) = 1 /\ p.msgs[1] = Msg(t) /\ 1 <= BatchCap
    BY <1>3, <1>4, BatchAssumption DEF TypeOK
  <1> HIDE DEF p
  <1>7. /\ Admitted' = Admitted \cup {Msg(t)}
        /\ admitted' \in Seq([to : 1 .. MaxTenants, flow : 1 .. MaxTenants, msgs : Seq(Message)])
        /\ \A i \in 1 .. Len(admitted') : Len(admitted'[i].msgs) <= BatchCap
    <2>1. /\ Admitted' = Admitted \cup {p.msgs[j] : j \in 1 .. Len(p.msgs)}
          /\ admitted' \in Seq([to : 1 .. MaxTenants, flow : 1 .. MaxTenants, msgs : Seq(Message)])
          /\ \A i \in 1 .. Len(admitted') : Len(admitted'[i].msgs) <= BatchCap
      BY Zenon, <1>1, <1>3, <1>6, Admitting
    <2>2. {p.msgs[j] : j \in 1 .. Len(p.msgs)} = {Msg(t)}
      BY <1>6
    <2> QED BY Zenon, <2>1, <2>2
  <1>8. Open' = Open
    BY <1>1 DEF Open
  <1>9. \A m \in Admitted \cup Open : m.by = t => m.n < Msg(t).n
    <2>1. \A m \in Admitted \cup Open : m \in accepted /\ m.n \in Nat /\ m.n <= Cardinality(SentBy(m.by))
      BY <1>3 DEF NumbersGrow, TypeOK, Message
    <2> QED BY <2>1, <1>4
  <1>10. TypeOK'
    BY <1>1, <1>3, <1>5, <1>7 DEF TypeOK
  <1>11. AcceptedKept' /\ BatchIsTenants' /\ HolderHasBatch'
    BY <1>1, <1>7, <1>8 DEF AcceptedKept, BatchIsTenants, HolderHasBatch, BatchInv
  <1>12. NumbersGrow'
    <2>1. Admitted' \cup Open' \subseteq accepted'
      BY <1>1, <1>3, <1>7, <1>8 DEF NumbersGrow
    <2>2. \A m \in accepted' : m.flow <= tenant'
      BY <1>1, <1>3, <1>4 DEF NumbersGrow, TypeOK
    <2> QED BY <2>1, <2>2, <1>5, <1>7 DEF NumbersGrow
  <1>13. CallsInHand'
    <2> SUFFICES ASSUME NEW u \in Threads
                 PROVE  /\ Holding(u)' => copy'[u] # NoCopy /\ batch' # <<>>
                        /\ ~Holding(u)' => copy'[u] = NoCopy
                        /\ pc'[u] # "idle" => flow'[u] = tenant'
                        /\ Sending(u)' => Cardinality(SentBy(u)') < MaxSends
                        /\ Numbered(u)' => Open' \subseteq Admitted'
                        /\ pc'[u] = "direct" => \A m \in Open' : m.by # u
      BY DEF CallsInHand
    <2>1. CASE u # t
      BY <2>1, <1>1, <1>3, <1>5, <1>7, <1>8 DEF CallsInHand, BatchInv, Holding, Sending, Numbered, TypeOK
    <2>2. CASE u = t
      <3>1. pc'[t] = "idle" /\ copy'[t] = NoCopy
        BY Zenon, <1>1, <1>3 DEF TypeOK, CallsInHand, BatchInv, Holding
      <3> QED BY <2>2, <3>1 DEF Holding, Sending, Numbered
    <2> QED BY <2>1, <2>2
  <1>14. \A u \in Threads : Numbered(u)' = Numbered(u)
    BY <1>1, <1>3 DEF Numbered, TypeOK
  <1>15. BatchBehind'
    <2>1. \A m \in Admitted', o \in Open : m.by = o.by => m \in Admitted
      BY <1>2, <1>4, <1>7
    <2> QED BY <2>1, <1>1, <1>8, <1>14 DEF BatchBehind, BatchInv
  <1>16. OnceUnlessRefused'
    <2> SUFFICES ASSUME refusals = 0 PROVE EachOnceInOrder'
      BY <1>1 DEF OnceUnlessRefused
    <2>1. \A i, j \in 1 .. Len(p.msgs) : i < j /\ p.msgs[i].by = p.msgs[j].by => p.msgs[i].n < p.msgs[j].n
      BY <1>6
    <2>2. \A m \in Admitted, j \in 1 .. Len(p.msgs) : m.by = p.msgs[j].by => m.n < p.msgs[j].n
      BY <1>4, <1>6, <1>9
    <2>3. EachOnceInOrder BY DEF OnceUnlessRefused
    <2> QED BY Zenon, <2>1, <2>2, <2>3, <1>1, <1>3, <1>6, AdmittingInOrder
  <1> QED BY <1>10, <1>11, <1>12, <1>13, <1>15, <1>16 DEF BatchInv

\* SendNow, where the flow refuses it.
LEMMA MessageRefused ==
  ASSUME BatchInv, OnceUnlessRefused, NEW t \in Threads, SendNow(t), accepted' = accepted
  PROVE  BatchInv' /\ OnceUnlessRefused'
  <1>1. /\ pc[t] = "direct" /\ pc' = [pc EXCEPT ![t] = "idle"]
        /\ UNCHANGED <<tenant, batch, header, inFlight, admitted, why, flow, copy, ok, accepted, refusals>>
    <2>1. Cardinality(SentBy(t)) < MaxSends /\ TypeOK /\ NumbersGrow
      BY DEF SendNow, BatchInv, CallsInHand, Sending, Holding
    <2>2. Msg(t) \notin accepted
      BY <2>1, MsgInHand
    <2> QED BY <2>2 DEF SendNow, Goto, slotVars
  <1>2. TypeOK' /\ HolderHasBatch'
    BY <1>1 DEF BatchInv, TypeOK, HolderHasBatch
  <1>3. CallsInHand'
    BY <1>1, NothingCarried DEF CallsInHand, BatchInv, Holding, Sending, Numbered, TypeOK
  <1>4. \A u \in Threads : Numbered(u)' = Numbered(u)
    BY <1>1 DEF Numbered, BatchInv, TypeOK
  <1>5. BatchBehind' /\ OnceUnlessRefused'
    BY <1>1, <1>4, NothingCarried DEF BatchBehind, BatchInv, OnceUnlessRefused
  <1> QED BY <1>1, <1>2, <1>3, <1>5, NothingCarried DEF BatchInv

\* SealForSend: the flow takes the batch, and gives it a sequence.
LEMMA BatchNumbered ==
  ASSUME BatchInv, OnceUnlessRefused, NEW t \in Threads, SealForSend(t), admitted' # admitted
  PROVE  BatchInv' /\ OnceUnlessRefused'
  <1> DEFINE p == [to |-> flow[t], flow |-> copy[t].flow, msgs |-> copy[t].msgs]
  <1>1. /\ pc[t] = "seal" /\ admitted' = Append(admitted, p)
        /\ ok' = [ok EXCEPT ![t] = TRUE]
        /\ pc' = [pc EXCEPT ![t] = "wire"] \/ pc' = [pc EXCEPT ![t] = "finish"]
        /\ UNCHANGED <<tenant, batch, header, inFlight, why, flow, copy, accepted, refusals>>
    BY DEF SealForSend, Goto, slotVars, history
  <1>2. TypeOK /\ NumbersGrow
    BY DEF BatchInv
  <1>3. /\ copy[t] = [flow |-> header, msgs |-> batch] /\ batch # <<>> /\ header = tenant
        /\ \A u \in Threads \ {t} : copy[u] = NoCopy /\ ~Holding(u) /\ ~Numbered(u)
    BY <1>1, Holders DEF Holding
  <1>4. /\ p \in [to : 1 .. MaxTenants, flow : 1 .. MaxTenants, msgs : Seq(Message)]
        /\ p.msgs = batch /\ Len(p.msgs) <= BatchCap
    BY <1>2, <1>3 DEF TypeOK
  <1> HIDE DEF p
  <1>5. /\ Admitted' = Admitted \cup Open
        /\ admitted' \in Seq([to : 1 .. MaxTenants, flow : 1 .. MaxTenants, msgs : Seq(Message)])
        /\ \A i \in 1 .. Len(admitted') : Len(admitted'[i].msgs) <= BatchCap
    <2>1. /\ Admitted' = Admitted \cup {p.msgs[j] : j \in 1 .. Len(p.msgs)}
          /\ admitted' \in Seq([to : 1 .. MaxTenants, flow : 1 .. MaxTenants, msgs : Seq(Message)])
          /\ \A i \in 1 .. Len(admitted') : Len(admitted'[i].msgs) <= BatchCap
      BY Zenon, <1>1, <1>2, <1>4, Admitting
    <2>2. {p.msgs[j] : j \in 1 .. Len(p.msgs)} = Open
      BY <1>4 DEF Open
    <2> QED BY <2>1, <2>2
  <1>6. Open' = Open /\ \A u : SentBy(u)' = SentBy(u)
    BY <1>1 DEF Open, SentBy
  <1>7. /\ pc'[t] \in {"wire", "finish"} /\ ok'[t] = TRUE
        /\ \A u \in Threads \ {t} : pc'[u] = pc[u] /\ ok'[u] = ok[u]
    BY <1>1, <1>2 DEF TypeOK
  <1>8. TypeOK'
    <2>1. pc' \in [Threads -> {"idle", "append", "reappend", "peek", "direct", "take", "seal", "wire", "finish"}]
          /\ ok' \in [Threads -> BOOLEAN]
      BY Zenon, <1>1, <1>2 DEF TypeOK
    <2> QED BY <2>1, <1>1, <1>2, <1>5 DEF TypeOK
  <1>9. AcceptedKept' /\ BatchIsTenants' /\ HolderHasBatch'
    BY <1>1, <1>5, <1>6 DEF AcceptedKept, BatchIsTenants, HolderHasBatch, BatchInv
  <1>10. NumbersGrow'
    BY <1>1, <1>2, <1>5, <1>6 DEF NumbersGrow
  <1>11. CallsInHand'
    <2> SUFFICES ASSUME NEW u \in Threads
                 PROVE  /\ Holding(u)' => copy'[u] # NoCopy /\ batch' # <<>>
                        /\ ~Holding(u)' => copy'[u] = NoCopy
                        /\ pc'[u] # "idle" => flow'[u] = tenant'
                        /\ Sending(u)' => Cardinality(SentBy(u)') < MaxSends
                        /\ Numbered(u)' => Open' \subseteq Admitted'
                        /\ pc'[u] = "direct" => \A m \in Open' : m.by # u
      BY DEF CallsInHand
    <2>1. CASE u # t
      <3>1. ~Numbered(u)' BY <2>1, <1>3, <1>7 DEF Numbered
      <3> QED BY <2>1, <3>1, <1>1, <1>6, <1>7 DEF CallsInHand, BatchInv, Holding, Sending
    <2>2. CASE u = t
      <3>1. copy'[t] # NoCopy /\ batch' # <<>> /\ flow'[t] = tenant'
        BY <1>1, <1>3 DEF CallsInHand, BatchInv, Holding
      <3>2. Sending(t)' => Sending(t)
        BY <1>1, <1>7 DEF Sending, Holding
      <3>3. Sending(t) => Cardinality(SentBy(t)) < MaxSends
        BY DEF CallsInHand, BatchInv
      <3> QED BY <2>2, <3>1, <3>2, <3>3, <1>5, <1>6, <1>7 DEF Holding
    <2> QED BY <2>1, <2>2
  <1>12. BatchBehind'
    <2>1. Numbered(t)' BY <1>7 DEF Numbered
    <2> QED BY <2>1, <1>1 DEF BatchBehind, BatchInv
  <1>13. OnceUnlessRefused'
    <2> SUFFICES ASSUME refusals = 0 PROVE EachOnceInOrder'
      BY <1>1 DEF OnceUnlessRefused
    <2>1. \A i, j \in 1 .. Len(p.msgs) : i < j /\ p.msgs[i].by = p.msgs[j].by => p.msgs[i].n < p.msgs[j].n
      BY <1>4 DEF BatchBehind, BatchInv
    <2>2. \A u \in Threads : ~Numbered(u)
      BY <1>1, <1>3 DEF Numbered
    <2>3. \A m \in Admitted, o \in Open : m.by = o.by => m.n < o.n
      BY <2>2 DEF BatchBehind, BatchInv
    <2>4. \A m \in Admitted, j \in 1 .. Len(p.msgs) : m.by = p.msgs[j].by => m.n < p.msgs[j].n
      BY <2>3, <1>4 DEF Open
    <2>5. EachOnceInOrder BY DEF OnceUnlessRefused
    <2> QED BY Zenon, <2>1, <2>4, <2>5, <1>1, <1>2, <1>4, AdmittingInOrder
  <1> QED BY <1>8, <1>9, <1>10, <1>11, <1>12, <1>13 DEF BatchInv

\* A thread that has the batch learns what became of it: the flow refused it, or
\* the kernel answered.
LEMMA AnswerHeard ==
  ASSUME BatchInv, OnceUnlessRefused, NEW t \in Threads, Holding(t),
         pc' = [pc EXCEPT ![t] = "finish"], refusals' \in 0 .. MaxRefusals,
         \/ ok' = [ok EXCEPT ![t] = FALSE] /\ (refusals' > 0 \/ (refusals' = refusals /\ ~Numbered(t)))
         \/ ok' = ok /\ refusals' = refusals /\ pc[t] = "wire",
         UNCHANGED <<tenant, batch, header, inFlight, admitted, why, flow, copy, accepted>>
  PROVE  BatchInv' /\ OnceUnlessRefused'
  <1>1. TypeOK
    BY DEF BatchInv
  <1>2. /\ pc'[t] = "finish" /\ ok'[t] \in BOOLEAN
        /\ \A u \in Threads \ {t} : pc'[u] = pc[u] /\ ok'[u] = ok[u]
    BY Zenon, <1>1 DEF TypeOK
  <1>3. \A u \in Threads : Numbered(u)' => Numbered(u)
    <2>1. ok'[t] => ok[t] /\ pc[t] = "wire"
      BY <1>1 DEF TypeOK
    <2> QED BY <2>1, <1>2 DEF Numbered
  <1>4. refusals' = 0 => refusals = 0 /\ \A u \in Threads : Numbered(u)' = Numbered(u)
    <2> SUFFICES ASSUME refusals' = 0 PROVE refusals = 0 /\ \A u \in Threads : Numbered(u)' = Numbered(u)
      OBVIOUS
    <2>1. CASE ok' = [ok EXCEPT ![t] = FALSE] /\ refusals' = refusals /\ ~Numbered(t)
      <3>1. \A u \in Threads : Numbered(u) => Numbered(u)'
        BY <2>1, <1>2 DEF Numbered
      <3> QED BY <3>1, <2>1, <1>3 DEF Numbered
    <2>2. CASE ok' = ok /\ refusals' = refusals /\ pc[t] = "wire"
      BY <2>2, <1>2 DEF Numbered
    <2> QED BY <2>1, <2>2
  <1>5. TypeOK'
    <2>1. pc' \in [Threads -> {"idle", "append", "reappend", "peek", "direct", "take", "seal", "wire", "finish"}]
          /\ ok' \in [Threads -> BOOLEAN]
      BY Zenon, <1>1 DEF TypeOK
    <2> QED BY <2>1, <1>1 DEF TypeOK
  <1>6. HolderHasBatch'
    BY DEF HolderHasBatch, BatchInv
  <1>7. CallsInHand'
    <2> SUFFICES ASSUME NEW u \in Threads
                 PROVE  /\ Holding(u)' => copy'[u] # NoCopy /\ batch' # <<>>
                        /\ ~Holding(u)' => copy'[u] = NoCopy
                        /\ pc'[u] # "idle" => flow'[u] = tenant'
                        /\ Sending(u)' => Cardinality(SentBy(u)') < MaxSends
                        /\ Numbered(u)' => Open' \subseteq Admitted'
                        /\ pc'[u] = "direct" => \A m \in Open' : m.by # u
      BY DEF CallsInHand
    <2>1. CASE u # t
      BY <2>1, <1>2, <1>3, NothingCarried DEF CallsInHand, BatchInv, Holding, Sending
    <2>2. CASE u = t
      <3>1. pc[t] \in {"seal", "wire", "finish"} BY DEF Holding
      <3>2. Sending(t)' => Sending(t)
        BY SMTT(20), <1>2, <3>1 DEF Sending, Holding
      <3> QED BY <2>2, <3>1, <3>2, <1>2, <1>3, NothingCarried DEF CallsInHand, BatchInv, Holding
    <2> QED BY <2>1, <2>2
  <1>8. BatchBehind' /\ OnceUnlessRefused'
    BY Zenon, <1>4, NothingCarried DEF BatchBehind, BatchInv, OnceUnlessRefused
  <1> QED BY <1>5, <1>6, <1>7, <1>8, NothingCarried DEF BatchInv

\* SealForSend, where the flow refuses, and SendBatch.
LEMMA BatchAnswered ==
  ASSUME BatchInv, OnceUnlessRefused, NEW t \in Threads,
         (SealForSend(t) /\ admitted' = admitted) \/ SendBatch(t)
  PROVE  BatchInv' /\ OnceUnlessRefused'
  <1>0. TypeOK BY DEF BatchInv
  <1>1. TypeOK /\ refusals \in Nat /\ MaxRefusals \in Nat
    BY <1>0, BatchAssumption DEF TypeOK
  <1>2. CASE SealForSend(t) /\ admitted' = admitted
    <2>1. pc[t] = "seal" /\ ok' = [ok EXCEPT ![t] = FALSE] /\ pc' = [pc EXCEPT ![t] = "finish"]
          /\ UNCHANGED <<tenant, batch, header, inFlight, admitted, why, flow, copy, accepted, refusals>>
      <3>1. \A p : Append(admitted, p) # admitted
        BY <1>1 DEF TypeOK
      <3> QED BY <1>2, <3>1 DEF SealForSend, Goto, slotVars, history
    <2> QED BY Zenon, <2>1, <1>1, AnswerHeard DEF Holding, Numbered, TypeOK
  <1>3. CASE SendBatch(t)
    <2>1. /\ pc[t] = "wire" /\ pc' = [pc EXCEPT ![t] = "finish"]
          /\ \/ UNCHANGED <<ok, refusals>>
             \/ refusals < MaxRefusals /\ ok' = [ok EXCEPT ![t] = FALSE] /\ refusals' = refusals + 1
          /\ UNCHANGED <<tenant, batch, header, inFlight, admitted, why, flow, copy, accepted>>
      BY <1>3 DEF SendBatch, Goto, slotVars
    <2>2. refusals' \in 0 .. MaxRefusals
          /\ \/ ok' = ok /\ refusals' = refusals /\ pc[t] = "wire"
             \/ ok' = [ok EXCEPT ![t] = FALSE] /\ refusals' > 0
      BY <2>1, <1>1 DEF TypeOK
    <2>3. Holding(t) BY <2>1 DEF Holding
    <2> QED BY Zenon, <2>1, <2>2, <2>3, AnswerHeard
  <1> QED BY <1>2, <1>3

\* FinishBatch: the batch that was taken is the one that is emptied or kept.
LEMMA BatchFinished ==
  ASSUME BatchInv, OnceUnlessRefused, NEW t \in Threads, FinishBatch(t)
  PROVE  BatchInv' /\ OnceUnlessRefused'
  <1>1. TypeOK /\ pc[t] = "finish" /\ Holding(t)
    BY DEF BatchInv, FinishBatch, Holding
  <1>2. /\ copy[t] = [flow |-> header, msgs |-> batch] /\ batch # <<>>
        /\ \A u \in Threads \ {t} : copy[u] = NoCopy /\ ~Holding(u) /\ ~Numbered(u)
    BY <1>1, Holders
  <1>3. /\ batch' = IF ok[t] THEN <<>> ELSE batch
        /\ inFlight' = FALSE /\ copy' = [copy EXCEPT ![t] = NoCopy]
        /\ pc' = [pc EXCEPT ![t] = AfterFlush(t, ok[t])]
        /\ UNCHANGED <<tenant, header, admitted, why, flow, ok, accepted, refusals>>
    BY <1>2 DEF FinishBatch, Goto, history
  <1>4. /\ AfterFlush(t, ok[t]) \in {"idle", "reappend", "peek"}
        /\ AfterFlush(t, ok[t]) # "idle" => why[t] # "flush"
    BY <1>1 DEF AfterFlush, TypeOK
  <1>5. /\ pc'[t] = AfterFlush(t, ok[t]) /\ copy'[t] = NoCopy
        /\ \A u \in Threads \ {t} : pc'[u] = pc[u] /\ copy'[u] = copy[u]
    BY <1>1, <1>3 DEF TypeOK
  <1>6. \A u \in Threads : copy'[u] = NoCopy /\ ~Holding(u)' /\ ~Numbered(u)'
    BY <1>2, <1>3, <1>4, <1>5 DEF Holding, Numbered
  <1>7. /\ Admitted' = Admitted /\ EachOnceInOrder' = EachOnceInOrder
        /\ \A u : SentBy(u)' = SentBy(u)
    <2>1. Places' = Places /\ \A q : At(q)' = At(q)
      BY <1>3 DEF Places, At
    <2> QED BY <2>1, <1>3 DEF Admitted, EachOnceInOrder, Before, SentBy
  <1>8. \/ ok[t] = TRUE /\ batch' = <<>> /\ Open' = {} /\ Open \subseteq Admitted
        \/ ok[t] = FALSE /\ batch' = batch /\ Open' = Open
    <2>1. CASE ok[t] = TRUE
      <3>1. Numbered(t) BY <2>1, <1>1 DEF Numbered
      <3>2. Open \subseteq Admitted BY <3>1 DEF CallsInHand, BatchInv
      <3> QED BY <2>1, <3>2, <1>3 DEF Open
    <2>2. CASE ok[t] = FALSE
      BY <2>2, <1>3 DEF Open
    <2> QED BY Zenon, <2>1, <2>2, <1>1 DEF TypeOK
  <1>9. TypeOK'
    <2>1. pc' \in [Threads -> {"idle", "append", "reappend", "peek", "direct", "take", "seal", "wire", "finish"}]
      BY <1>1, <1>3, <1>4 DEF TypeOK
    <2>2. NoCopy \in [flow : 0 .. MaxTenants, msgs : Seq(Message)]
      BY BatchAssumption DEF NoCopy
    <2>3. copy' \in [Threads -> [flow : 0 .. MaxTenants, msgs : Seq(Message)]]
      BY <2>2, <1>1, <1>3 DEF TypeOK
    <2>4. batch' \in Seq(Message) /\ Len(batch') <= BatchCap
      BY Zenon, <1>1, <1>8, EmptyBatchFits DEF TypeOK
    <2> QED BY Zenon, <2>1, <2>3, <2>4, <1>1, <1>3 DEF TypeOK
  <1>10. AcceptedKept'
    BY <1>3, <1>7, <1>8 DEF AcceptedKept, BatchInv
  <1>11. HolderHasBatch'
    BY <1>6 DEF HolderHasBatch
  <1>12. BatchIsTenants'
    BY <1>3, <1>8 DEF BatchIsTenants, BatchInv
  <1>13. NumbersGrow'
    BY <1>3, <1>7, <1>8 DEF NumbersGrow, BatchInv
  <1>14. CallsInHand'
    <2> SUFFICES ASSUME NEW u \in Threads
                 PROVE  /\ Holding(u)' => copy'[u] # NoCopy /\ batch' # <<>>
                        /\ ~Holding(u)' => copy'[u] = NoCopy
                        /\ pc'[u] # "idle" => flow'[u] = tenant'
                        /\ Sending(u)' => Cardinality(SentBy(u)') < MaxSends
                        /\ Numbered(u)' => Open' \subseteq Admitted'
                        /\ pc'[u] = "direct" => \A m \in Open' : m.by # u
      BY DEF CallsInHand
    <2>1. Open' \subseteq Open BY <1>8
    <2>2. CASE u # t
      BY SMTT(20), <2>1, <2>2, <1>3, <1>5, <1>6, <1>7 DEF CallsInHand, BatchInv, Holding, Sending
    <2>3. CASE u = t
      <3>1. flow[t] = tenant /\ (why[t] # "flush" => Cardinality(SentBy(t)) < MaxSends)
        BY <1>1 DEF CallsInHand, BatchInv, Holding, Sending
      <3>2. pc'[t] # "direct" /\ (pc'[t] # "idle" => why[t] # "flush")
        BY <1>4, <1>5
      <3> QED BY <2>3, <3>1, <3>2, <1>3, <1>6, <1>7 DEF Sending
    <2> QED BY <2>2, <2>3
  <1>15. BatchBehind'
    <2> SUFFICES ASSUME refusals = 0
                 PROVE  /\ \A i, j \in 1 .. Len(batch') :
                             i < j /\ batch'[i].by = batch'[j].by => batch'[i].n < batch'[j].n
                        /\ \A m \in Admitted', o \in Open' : m.by = o.by => m.n < o.n
      BY <1>3 DEF BatchBehind
    <2>1. CASE ok[t] = TRUE /\ batch' = <<>> /\ Open' = {}
      BY <2>1
    <2>2. CASE ok[t] = FALSE /\ batch' = batch /\ Open' = Open
      <3>1. \A u \in Threads : ~Numbered(u)
        BY <2>2, <1>2 DEF Numbered
      <3> QED BY <2>2, <3>1, <1>7 DEF BatchBehind, BatchInv
    <2> QED BY Zenon, <2>1, <2>2, <1>8
  <1>16. OnceUnlessRefused'
    BY <1>3, <1>7 DEF OnceUnlessRefused
  <1> QED BY <1>9, <1>10, <1>11, <1>12, <1>13, <1>14, <1>15, <1>16 DEF BatchInv

\* Recycle, when no thread is in the middle of a call.
LEMMA SlotLeasedAgain ==
  ASSUME BatchInv, OnceUnlessRefused, Recycle, ~CloseRaces
  PROVE  BatchInv' /\ OnceUnlessRefused'
  <1>1. /\ \A u \in Threads : pc[u] = "idle"
        /\ tenant < MaxTenants /\ tenant' = tenant + 1
        /\ batch' = <<>> /\ header' = 0 /\ inFlight' = FALSE
        /\ UNCHANGED <<admitted, pc, why, flow, copy, ok, accepted, refusals>>
    BY DEF Recycle, threadVars, history
  <1>2. TypeOK /\ NumbersGrow
    BY DEF BatchInv
  <1>3. /\ Admitted' = Admitted /\ EachOnceInOrder' = EachOnceInOrder /\ Open' = {}
        /\ \A u : SentBy(u)' = SentBy(u)
    <2>1. Places' = Places /\ \A q : At(q)' = At(q)
      BY <1>1 DEF Places, At
    <2> QED BY <2>1, <1>1 DEF Admitted, EachOnceInOrder, Before, SentBy, Open
  <1>4. \A u \in Threads : copy[u] = NoCopy /\ ~Holding(u) /\ ~Sending(u) /\ ~Numbered(u)
    BY <1>1 DEF CallsInHand, BatchInv, Holding, Sending, Numbered
  <1>5. TypeOK'
    <2>1. tenant' \in 1 .. MaxTenants /\ header' \in 0 .. MaxTenants
      BY <1>1, <1>2, BatchAssumption DEF TypeOK
    <2>2. batch' \in Seq(Message) /\ Len(batch') <= BatchCap
      BY <1>1, EmptyBatchFits
    <2> QED BY Zenon, <2>1, <2>2, <1>1, <1>2 DEF TypeOK
  <1>6. \A m \in accepted' : m.flow <= tenant' /\ m.flow # tenant'
    BY <1>1, <1>2 DEF NumbersGrow, TypeOK, Message
  <1>7. AcceptedKept' /\ BatchIsTenants' /\ HolderHasBatch' /\ BatchBehind' /\ OnceUnlessRefused'
    BY <1>1, <1>3, <1>4, <1>6
    DEF AcceptedKept, BatchIsTenants, HolderHasBatch, BatchBehind, OnceUnlessRefused
  <1>8. NumbersGrow'
    BY <1>1, <1>2, <1>3, <1>6 DEF NumbersGrow
  <1>9. CallsInHand'
    BY <1>1, <1>4 DEF CallsInHand, Holding, Sending, Numbered
  <1> QED BY <1>5, <1>7, <1>8, <1>9 DEF BatchInv

\* A new association has an empty batch that nobody holds.
LEMMA BatchStart == Init => BatchInv /\ OnceUnlessRefused
  <1> SUFFICES ASSUME Init PROVE BatchInv /\ OnceUnlessRefused
    OBVIOUS
  <1>1. Places = {} /\ Admitted = {} /\ Open = {}
    <2>1. Places = {} BY DEF Init, Places
    <2> QED BY <2>1 DEF Init, Admitted, Open
  <1>2. TypeOK
    <2>1. NoCopy \in [flow : 0 .. MaxTenants, msgs : Seq(Message)]
      BY BatchAssumption DEF NoCopy
    <2>2. 1 \in 1 .. MaxTenants /\ 0 \in 0 .. MaxTenants /\ 0 \in 0 .. MaxRefusals
      BY BatchAssumption
    <2>3. batch \in Seq(Message) /\ Len(batch) <= BatchCap
      BY EmptyBatchFits DEF Init
    <2>4. admitted \in Seq([to : 1 .. MaxTenants, flow : 1 .. MaxTenants, msgs : Seq(Message)])
      BY DEF Init
    <2>5. copy \in [Threads -> [flow : 0 .. MaxTenants, msgs : Seq(Message)]]
      BY <2>1 DEF Init
    <2> QED BY Zenon, <2>2, <2>3, <2>4, <2>5 DEF Init, TypeOK
  <1>3. AcceptedKept /\ HolderHasBatch /\ BatchIsTenants
    BY DEF Init, AcceptedKept, HolderHasBatch, BatchIsTenants
  <1>4. CallsInHand
    BY DEF Init, CallsInHand, Holding, Sending, Numbered
  <1>5. NumbersGrow
    BY <1>1, FS_EmptySet DEF Init, NumbersGrow
  <1>6. BatchBehind /\ OnceUnlessRefused
    BY <1>1 DEF Init, BatchBehind, OnceUnlessRefused, EachOnceInOrder
  <1> QED BY <1>2, <1>3, <1>4, <1>5, <1>6 DEF BatchInv

\* Every step of the threads, and a new lease of the slot, keeps both.
LEMMA BatchStep ==
  ASSUME BatchInv, OnceUnlessRefused, [Next]_vars, ~CloseRaces
  PROVE  BatchInv' /\ OnceUnlessRefused'
  <1>1. CASE UNCHANGED vars
    <2>1. UNCHANGED <<tenant, batch, header, inFlight, admitted, pc, why, flow, copy, ok, accepted, refusals>>
      BY <1>1 DEF vars, slotVars, threadVars, history
    <2>2. TypeOK' /\ HolderHasBatch'
      BY <2>1 DEF TypeOK, HolderHasBatch, BatchInv
    <2>3. \A u : /\ Holding(u)' = Holding(u) /\ Numbered(u)' = Numbered(u)
                 /\ Sending(u)' = Sending(u)
      BY <2>1 DEF Holding, Numbered, Sending
    <2>4. CallsInHand' /\ BatchBehind' /\ OnceUnlessRefused'
      BY <2>1, <2>3, NothingCarried DEF CallsInHand, BatchBehind, OnceUnlessRefused, BatchInv
    <2> QED BY <2>1, <2>2, <2>4, NothingCarried DEF BatchInv
  <1>2. CASE Recycle
    BY <1>2, SlotLeasedAgain
  <1>3. ASSUME NEW t \in Threads, OfferToBatch(t) \/ Flush(t) \/ Step(t)
        PROVE  BatchInv' /\ OnceUnlessRefused'
    <2>1. CASE OfferToBatch(t) \/ Flush(t) \/ PeekBatch(t)
      BY <2>1, ThreadGoesOn
    <2>2. CASE AppendToBatch(t)
      BY <2>2, MessagePacked, MessageTurnedAway
    <2>3. CASE SendNow(t)
      BY <2>3, MessageSentNow, MessageRefused
    <2>4. CASE TakeBatch(t)
      BY <2>4, BatchTaken
    <2>5. CASE SealForSend(t) \/ SendBatch(t)
      BY <2>5, BatchNumbered, BatchAnswered
    <2>6. CASE FinishBatch(t)
      BY <2>6, BatchFinished
    <2> QED BY <1>3, <2>1, <2>2, <2>3, <2>4, <2>5, <2>6 DEF Step
  <1> QED BY <1>1, <1>2, <1>3 DEF Next

\* Whoever was told Ok is in the batch or in the flow, one thread at a time has
\* the batch in hand, and only its tenant's messages are in it (TakeBatch,
\* FinishBatch, ResetOutAssoc), as long as no flow is closed under a thread that
\* uses it.
THEOREM BatchKept == ASSUME ~CloseRaces PROVE Spec => []BatchInv
  <1>1. Init => BatchInv /\ OnceUnlessRefused
    BY BatchStart
  <1>2. (BatchInv /\ OnceUnlessRefused) /\ [Next]_vars => (BatchInv /\ OnceUnlessRefused)'
    BY BatchStep
  <1> QED BY <1>1, <1>2, PTL DEF Spec

\* Under the same assumption, a thread's messages enter the flow's numbering once
\* each and in its order, whichever thread flushes them (OfferToBatch,
\* FlushFlowOf, FinishBatch), until the kernel refuses a batch that has its
\* sequence (SendSealed).
THEOREM BatchOnceInOrder == ASSUME ~CloseRaces PROVE Spec => []OnceUnlessRefused
  <1>1. Init => BatchInv /\ OnceUnlessRefused
    BY BatchStart
  <1>2. (BatchInv /\ OnceUnlessRefused) /\ [Next]_vars => (BatchInv /\ OnceUnlessRefused)'
    BY BatchStep
  <1> QED BY <1>1, <1>2, PTL DEF Spec
=============================================================================
