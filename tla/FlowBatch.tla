------------------------------ MODULE FlowBatch ------------------------------
(***************************************************************************)
(* The open batch of one association slot, and the application threads     *)
(* that fill and flush it.  A batched send is answered when it is packed;  *)
(* the batch is sent by a flush, by the message that finds it full, or by  *)
(* one that must not overtake it.  Every step between two locks of the     *)
(* association is a step of its own.                                       *)
(*                                                                         *)
(* What the flow does with a packet it admitted is FlowPair's: here a      *)
(* packet joins `admitted`, the order in which sequences are given, and    *)
(* an ordered flow delivers exactly that (FlowPairProofs).  All messages   *)
(* are of one size, so a batch's size is its length.                       *)
(***************************************************************************)
EXTENDS Integers, Sequences, FiniteSets

CONSTANTS
    Threads,
    BatchCap,       \* messages that fit one packet
    CloseRaces,     \* may a flow be closed while another thread is using it?
    MaxSends,       \* bound: messages of one thread that are accepted
    MaxTenants,     \* bound: flows the association slot is leased to in turn
    MaxRefusals     \* bound: datagrams the kernel refuses

ASSUME BatchAssumption ==
    /\ BatchCap \in Nat \ {0} /\ MaxSends \in Nat /\ MaxTenants \in Nat \ {0}
    /\ MaxRefusals \in Nat /\ CloseRaces \in BOOLEAN

VARIABLES
    \* the association slot: the flow it is leased to and its open batch, whose
    \* framing is that of the first message
    tenant, batch, header, inFlight,
    \* packets given to flows, in sequence order
    admitted,
    \* each thread: where it is, what it flushes for, the flow it looked up, the
    \* batch it took, and whether that went
    pc, why, flow, copy, ok,
    \* messages whose sender was told Ok, and the datagrams refused so far
    accepted, refusals

slotVars == <<tenant, batch, header, inFlight>>
threadVars == <<pc, why, flow, copy, ok>>
history == <<accepted, refusals>>
vars == <<slotVars, admitted, threadVars, history>>

NoCopy == [flow |-> 0, msgs |-> <<>>]

Init ==
    /\ tenant = 1 /\ batch = <<>> /\ header = 0 /\ inFlight = FALSE
    /\ admitted = <<>>
    /\ pc = [t \in Threads |-> "idle"]
    /\ why = [t \in Threads |-> "flush"]
    /\ flow = [t \in Threads |-> 1]
    /\ copy = [t \in Threads |-> NoCopy]
    /\ ok = [t \in Threads |-> FALSE]
    /\ accepted = {} /\ refusals = 0

SentBy(t) == {m \in accepted : m.by = t}

\* The message thread t is sending.
Msg(t) == [by |-> t, n |-> Cardinality(SentBy(t)) + 1, flow |-> flow[t]]

Goto(t, place) == pc' = [pc EXCEPT ![t] = place]

(***************************************************************************)
(* Sending.                                                                *)
(***************************************************************************)

\* OfferToBatch finds the association.  A message framed by hand, or one the
\* gate would refuse, first has the batch emptied.
OfferToBatch(t) ==
    /\ pc[t] = "idle" /\ Cardinality(SentBy(t)) < MaxSends
    /\ flow' = [flow EXCEPT ![t] = tenant]
    /\ \/ Goto(t, "append") /\ UNCHANGED why
       \/ Goto(t, "take") /\ why' = [why EXCEPT ![t] = "clear"]
    /\ UNCHANGED <<slotVars, admitted, copy, ok, history>>

\* Mutant: a batch that is being sent can be joined.
AppendToBatchJoining(t) ==
    /\ pc[t] \in {"append", "reappend"} /\ Len(batch) < BatchCap
    /\ batch' = Append(batch, Msg(t))
    /\ header' = IF batch = <<>> THEN flow[t] ELSE header
    /\ accepted' = accepted \cup {Msg(t)}
    /\ Goto(t, "idle")
    /\ UNCHANGED <<tenant, inFlight, admitted, why, flow, copy, ok, refusals>>

\* AppendToBatch: packed and accepted; or full, and sent first; or refused,
\* because a flush has the batch or it filled up again.
AppendToBatch(t) ==
    /\ pc[t] \in {"append", "reappend"}
    /\ \/ /\ ~inFlight /\ Len(batch) < BatchCap
          /\ batch' = Append(batch, Msg(t))
          /\ header' = IF batch = <<>> THEN flow[t] ELSE header
          /\ accepted' = accepted \cup {Msg(t)}
          /\ Goto(t, "idle")
          /\ UNCHANGED why
       \/ /\ ~inFlight /\ Len(batch) = BatchCap /\ pc[t] = "append"
          /\ Goto(t, "take")
          /\ why' = [why EXCEPT ![t] = "full"]
          /\ UNCHANGED <<batch, header, accepted>>
       \/ /\ inFlight \/ (Len(batch) = BatchCap /\ pc[t] = "reappend")
          /\ Goto(t, "idle")
          /\ UNCHANGED <<batch, header, accepted, why>>
    /\ UNCHANGED <<tenant, inFlight, admitted, flow, copy, ok, refusals>>

\* FlushFlowOf, after its flush: only an empty batch lets the message go round.
PeekBatch(t) ==
    /\ pc[t] = "peek"
    /\ Goto(t, IF batch = <<>> THEN "direct" ELSE "idle")
    /\ UNCHANGED <<slotVars, admitted, why, flow, copy, ok, history>>

\* SendNow: the message is a packet of its own, which its flow takes, whatever
\* the kernel answers, or refuses.
SendNow(t) ==
    /\ pc[t] = "direct"
    /\ Goto(t, "idle")
    /\ \/ /\ flow[t] = tenant
          /\ admitted' = Append(admitted, [to |-> flow[t], flow |-> flow[t],
                                           msgs |-> <<Msg(t)>>])
          /\ accepted' = accepted \cup {Msg(t)}
       \/ UNCHANGED <<admitted, accepted>>
    /\ UNCHANGED <<slotVars, why, flow, copy, ok, refusals>>

(***************************************************************************)
(* Flushing.                                                               *)
(***************************************************************************)

\* Where a thread goes on after FlushOneBatch.
AfterFlush(t, status) ==
    CASE why[t] = "flush" -> "idle"
      [] why[t] = "full" -> IF status THEN "reappend" ELSE "idle"
      [] why[t] = "clear" -> "peek"

\* Flush looks for associations that hold a batch.
Flush(t) ==
    /\ pc[t] = "idle" /\ batch # <<>>
    /\ why' = [why EXCEPT ![t] = "flush"]
    /\ flow' = [flow EXCEPT ![t] = tenant]
    /\ Goto(t, "take")
    /\ UNCHANGED <<slotVars, admitted, copy, ok, history>>

\* SealOneBatch up to TakeBatch: the batch is copied and marked.  There may be
\* nothing to take, or no slot to take it into.
TakeBatch(t) ==
    /\ pc[t] = "take"
    /\ \/ /\ batch # <<>> /\ ~inFlight
          /\ copy' = [copy EXCEPT ![t] = [flow |-> header, msgs |-> batch]]
          /\ inFlight' = TRUE
          /\ Goto(t, "seal")
       \/ /\ batch = <<>> \/ inFlight
          /\ Goto(t, AfterFlush(t, TRUE))
          /\ UNCHANGED <<copy, inFlight>>
       \/ /\ batch # <<>>
          /\ Goto(t, AfterFlush(t, FALSE))
          /\ UNCHANGED <<copy, inFlight>>
    /\ UNCHANGED <<tenant, batch, header, admitted, why, flow, ok, history>>

\* SealForSend admits the packet to the flow its framing names, at the address
\* the thread looked up: stamped, and the kernel is next; queued behind others;
\* or refused.
SealForSend(t) ==
    /\ pc[t] = "seal"
    /\ \/ /\ copy[t].flow = tenant
          /\ admitted' = Append(admitted, [to |-> flow[t], flow |-> copy[t].flow,
                                           msgs |-> copy[t].msgs])
          /\ ok' = [ok EXCEPT ![t] = TRUE]
          /\ Goto(t, "wire") \/ Goto(t, "finish")
       \/ /\ ok' = [ok EXCEPT ![t] = FALSE]
          /\ Goto(t, "finish")
          /\ UNCHANGED admitted
    /\ UNCHANGED <<slotVars, why, flow, copy, history>>

\* SendSealed: the kernel takes the datagram or not.
SendBatch(t) ==
    /\ pc[t] = "wire"
    /\ \/ UNCHANGED <<ok, refusals>>
       \/ /\ refusals < MaxRefusals
          /\ ok' = [ok EXCEPT ![t] = FALSE]
          /\ refusals' = refusals + 1
    /\ Goto(t, "finish")
    /\ UNCHANGED <<slotVars, admitted, why, flow, copy, accepted>>

\* Mutants: a refused batch is spent too; the mark stays.
FinishBatchSpending(t) ==
    /\ pc[t] = "finish"
    /\ batch' = IF Len(batch) = Len(copy[t].msgs) THEN <<>> ELSE batch
    /\ inFlight' = FALSE
    /\ copy' = [copy EXCEPT ![t] = NoCopy]
    /\ Goto(t, AfterFlush(t, ok[t]))
    /\ UNCHANGED <<tenant, header, admitted, why, flow, ok, history>>
FinishBatchWedging(t) ==
    /\ pc[t] = "finish"
    /\ batch' = IF ok[t] /\ Len(batch) = Len(copy[t].msgs) THEN <<>> ELSE batch
    /\ inFlight' = ~ok[t]
    /\ copy' = [copy EXCEPT ![t] = NoCopy]
    /\ Goto(t, AfterFlush(t, ok[t]))
    /\ UNCHANGED <<tenant, header, admitted, why, flow, ok, history>>

\* FinishBatch: a batch that went is emptied, if its size is what was taken.
FinishBatch(t) ==
    /\ pc[t] = "finish"
    /\ batch' = IF ok[t] /\ Len(batch) = Len(copy[t].msgs) THEN <<>> ELSE batch
    /\ inFlight' = FALSE
    /\ copy' = [copy EXCEPT ![t] = NoCopy]
    /\ Goto(t, AfterFlush(t, ok[t]))
    /\ UNCHANGED <<tenant, header, admitted, why, flow, ok, history>>

\* FreeAssoc, then ResetOutAssoc for another flow that leases the slot.
Recycle ==
    /\ tenant < MaxTenants
    /\ CloseRaces \/ \A t \in Threads : pc[t] = "idle"
    /\ tenant' = tenant + 1
    /\ batch' = <<>> /\ header' = 0 /\ inFlight' = FALSE
    /\ UNCHANGED <<admitted, threadVars, history>>

Step(t) ==
    \/ AppendToBatch(t) \/ PeekBatch(t) \/ SendNow(t)
    \/ TakeBatch(t) \/ SealForSend(t) \/ SendBatch(t) \/ FinishBatch(t)

Next ==
    \/ \E t \in Threads : OfferToBatch(t) \/ Flush(t) \/ Step(t)
    \/ Recycle

Spec == Init /\ [][Next]_vars

\* Threads go on with what they began and call Flush again and again; neither
\* the pools nor the gate refuse for ever.
Fairness ==
    \A t \in Threads :
        /\ WF_vars(Step(t)) /\ SF_vars(Flush(t))
        /\ SF_vars(TakeBatch(t) /\ copy' # copy)
        /\ SF_vars(SealForSend(t) /\ admitted' # admitted)

FairSpec == Spec /\ Fairness

Message == [by : Threads, n : 1 .. MaxSends, flow : 1 .. MaxTenants]

TypeOK ==
    /\ tenant \in 1 .. MaxTenants /\ header \in 0 .. MaxTenants
    /\ batch \in Seq(Message) /\ Len(batch) <= BatchCap
    /\ inFlight \in BOOLEAN
    /\ admitted \in Seq([to : 1 .. MaxTenants, flow : 1 .. MaxTenants, msgs : Seq(Message)])
    /\ pc \in [Threads -> {"idle", "append", "reappend", "peek", "direct", "take",
                           "seal", "wire", "finish"}]
    /\ why \in [Threads -> {"flush", "full", "clear"}]
    /\ flow \in [Threads -> 1 .. MaxTenants]
    /\ copy \in [Threads -> [flow : 0 .. MaxTenants, msgs : Seq(Message)]]
    /\ ok \in [Threads -> BOOLEAN]
    /\ accepted \subseteq Message /\ refusals \in 0 .. MaxRefusals

(***************************************************************************)
(* Properties.                                                             *)
(***************************************************************************)

\* The messages of all admitted packets, one after the other.
Places == {p \in (1 .. Len(admitted)) \X (1 .. BatchCap) : p[2] <= Len(admitted[p[1]].msgs)}
At(p) == admitted[p[1]].msgs[p[2]]
Before(p, q) == p[1] < q[1] \/ (p[1] = q[1] /\ p[2] < q[2])

Admitted == {At(p) : p \in Places}
Open == {batch[i] : i \in 1 .. Len(batch)}

\* A thread's messages enter the flow's numbering once each and in the order it
\* sent them, batched, sent round the batch or flushed by another thread
\* (OfferToBatch, FlushFlowOf, FinishBatch).
EachOnceInOrder ==
    \A p, q \in Places : Before(p, q) /\ At(p).by = At(q).by => At(p).n < At(q).n

\* The same, as long as the kernel has refused no batch that was already numbered
\* (SendSealed).
OnceUnlessRefused == refusals = 0 => EachOnceInOrder

\* A message whose sender was told Ok is in the batch or in the flow for as long
\* as the flow has the association: no refused flush throws it away
\* (TakeBatch, FinishBatch).
AcceptedKept ==
    \A m \in accepted : m.flow = tenant => m \in Open \cup Admitted

\* At most one thread is sending the batch, which stays what it took until it
\* has finished (openBatchInFlight).
HolderHasBatch ==
    \A t \in Threads : copy[t] # NoCopy =>
        /\ inFlight /\ copy[t] = [flow |-> header, msgs |-> batch]
        /\ \A u \in Threads \ {t} : copy[u] = NoCopy

\* The open batch is framed for the flow that has the slot and holds its messages
\* only: a message never joins a stranger's packet (ResetOutAssoc).
BatchIsTenants ==
    batch # <<>> => header = tenant /\ \A m \in Open : m.flow = tenant

\* A packet carries messages of its own flow only, to that flow's peer: a batch
\* never belongs to a stranger (AppendToBatch, TakeBatch).
StaysOnItsFlow ==
    \A i \in 1 .. Len(admitted) :
        /\ admitted[i].to = admitted[i].flow
        /\ \A j \in 1 .. Len(admitted[i].msgs) :
              admitted[i].msgs[j].flow = admitted[i].flow

\* Once the threads have no more to send, every accepted message has left its
\* batch for the flow, unless the flow was closed first: a refused flush does not
\* wedge the batch (FinishBatch).  Sends are bounded, so they do stop.
AcceptedLeaves ==
    <>[](\A m \in accepted : m.flow = tenant => m \in Admitted)

\* The threads that have taken the batch, and those whose copy has its sequence.
Holding(t) == pc[t] \in {"seal", "wire", "finish"}
Numbered(t) == pc[t] \in {"wire", "finish"} /\ ok[t]

\* The threads that have a message in hand.
Sending(t) == pc[t] # "idle" /\ (Holding(t) \/ pc[t] = "take" => why[t] # "flush")

\* What a thread knows between two locks is still so: it holds a copy just while
\* it flushes, the flow it looked up has the slot, and its message is new.
CallsInHand ==
    \A t \in Threads :
        /\ Holding(t) => copy[t] # NoCopy /\ batch # <<>>
        /\ ~Holding(t) => copy[t] = NoCopy
        /\ pc[t] # "idle" => flow[t] = tenant
        /\ Sending(t) => Cardinality(SentBy(t)) < MaxSends
        /\ Numbered(t) => Open \subseteq Admitted
        /\ pc[t] = "direct" => \A m \in Open : m.by # t

\* The numbers of the messages: nothing is carried that was not accepted, and a
\* thread's next message has a number above all it sent.
NumbersGrow ==
    /\ IsFiniteSet(accepted) /\ Admitted \cup Open \subseteq accepted
    /\ \A m \in accepted : m.flow <= tenant /\ m.n <= Cardinality(SentBy(m.by))
    /\ \A i \in 1 .. Len(admitted) : Len(admitted[i].msgs) <= BatchCap

\* Until a numbered batch is refused, the open batch is in order and behind all
\* that was admitted, unless it is the batch just admitted.
BatchBehind ==
    refusals = 0 =>
        /\ \A i, j \in 1 .. Len(batch) :
              i < j /\ batch[i].by = batch[j].by => batch[i].n < batch[j].n
        /\ (\A t \in Threads : ~Numbered(t)) =>
              \A m \in Admitted, o \in Open : m.by = o.by => m.n < o.n

\* The open batch between the locks: whoever was told Ok is still served, one
\* thread at a time has it in hand, and only its tenant's messages are in it
\* (TakeBatch, FinishBatch, ResetOutAssoc).  The rest is what makes it inductive.
BatchInv ==
    /\ TypeOK /\ AcceptedKept /\ HolderHasBatch /\ BatchIsTenants
    /\ CallsInHand /\ NumbersGrow /\ BatchBehind
=============================================================================
