----------------------------- MODULE MCFlowModes -----------------------------
(***************************************************************************)
(* FlowPair beyond the ordered flow of MCFlowOrdered: an unordered and an  *)
(* unreliable flow, an ordered one whose receiver grants a single slot, and*)
(* a small unordered one, under an announced grant of one, to ask for      *)
(* progress.  A behaviour is one of them from its first state.             *)
(***************************************************************************)
EXTENDS Integers, Sequences

VARIABLES
    kind,
    sessionUp, life, accepted, waiting, nextSeq, ackBase, ring, unresolved,
    outstanding, data, acks, recvNext, recvHighest, seen, holdback, heldCount,
    ackOwed, occupancy, handed, polled

vars == <<kind, sessionUp, life, accepted, waiting, nextSeq, ackBase, ring,
          unresolved, outstanding, data, acks, recvNext, recvHighest, seen,
          holdback, heldCount, ackOwed, occupancy, handed, polled>>

Unordered == INSTANCE FlowPair WITH
    Mode <- "RELIABLE_UNORDERED", Window <- 3, WaitingCap <- 1, Budget <- 3,
    TheirGrant <- 0, Grant <- 2, HoldCeiling <- 3, RecvSlots <- 3,
    LossThreshold <- 2, RangeCount <- 1, StallTimer <- FALSE, MaxMsgs <- 4, MaxAcks <- 1

Granted == INSTANCE FlowPair WITH
    Mode <- "RELIABLE_ORDERED", Window <- 3, WaitingCap <- 1, Budget <- 3,
    TheirGrant <- 0, Grant <- 1, HoldCeiling <- 3, RecvSlots <- 4,
    LossThreshold <- 2, RangeCount <- 1, StallTimer <- FALSE, MaxMsgs <- 4, MaxAcks <- 1

Unreliable == INSTANCE FlowPair WITH
    Mode <- "UNRELIABLE", Window <- 2, WaitingCap <- 1, Budget <- 2,
    TheirGrant <- 0, Grant <- 2, HoldCeiling <- 3, RecvSlots <- 3,
    LossThreshold <- 2, RangeCount <- 1, StallTimer <- FALSE, MaxMsgs <- 4, MaxAcks <- 2

Loose == INSTANCE FlowPair WITH
    Mode <- "RELIABLE_UNORDERED", Window <- 2, WaitingCap <- 1, Budget <- 2,
    TheirGrant <- 1, Grant <- 2, HoldCeiling <- 3, RecvSlots <- 3,
    LossThreshold <- 2, RangeCount <- 1, StallTimer <- FALSE, MaxMsgs <- 3, MaxAcks <- 1

Init ==
    \/ kind = "unordered" /\ Unordered!Init
    \/ kind = "granted" /\ Granted!Init
    \/ kind = "unreliable" /\ Unreliable!Init
    \/ kind = "loose" /\ Loose!Init

Next ==
    /\ UNCHANGED kind
    /\ \/ kind = "unordered" /\ Unordered!Next
       \/ kind = "granted" /\ Granted!Next
       \/ kind = "unreliable" /\ Unreliable!Next
       \/ kind = "loose" /\ Loose!Next

\* FlowPair's fairness, for the flow that is asked for progress.
LooseDo(A) == kind = "loose" /\ A /\ UNCHANGED kind

Fairness ==
    /\ WF_vars(LooseDo(Loose!CommitSession)) /\ WF_vars(LooseDo(Loose!ClaimWaiting))
    /\ \A k \in Loose!Slots : WF_vars(LooseDo(k \in Loose!InFlight /\ Loose!RetransmitInflight({k}, {k})))
    /\ \A s \in 1 .. 3 : SF_vars(LooseDo(\E p \in data : p.seq = s /\ Loose!DeliverIn(p)))
    /\ WF_vars(LooseDo(Loose!FlushPeerAcks)) /\ WF_vars(LooseDo(Loose!Poll))
    /\ SF_vars(LooseDo(\E overdue \in SUBSET Loose!Unacked : Loose!ApplyAckRanges(Loose!FreshAck, overdue)))

Spec == Init /\ [][Next]_vars /\ Fairness

Idle == UNCHANGED <<accepted, handed, life>>

\* An unordered flow implements MessageChannel: it delivers each accepted message
\* at most once (AlreadySeen, CommitSeen).
EachOnce == [][kind = "unordered" => Idle \/ Unordered!Channel!ChannelNext]_vars

\* An unreliable flow implements MessageChannel: it never delivers an older
\* message after a newer one (DeliverUnordered, Stale).
NeverBackwards == [][kind = "unreliable" => Idle \/ Unreliable!Channel!ChannelNext]_vars

\* Every kind of flow counts exactly what it owes and holds, keeps it inside the
\* window and its share of the pool, for a grant of one too, and forgets nothing
\* it promised to deliver: the invariants of its mode (ResolveOutEntry,
\* ExpireInflight, AlreadySeen, DeliverOrdered, HasRoomFor).
FlowsAccounted ==
    /\ kind = "granted" => Granted!Accounting /\ Granted!CountsInv /\ Granted!OrderedInv
    /\ kind = "unordered" =>
          Unordered!Accounting /\ Unordered!CountsInv /\ Unordered!ModeInv
          /\ Unordered!NothingForgotten
    /\ kind = "unreliable" => Unreliable!Accounting /\ Unreliable!CountsInv /\ Unreliable!ModeInv

\* An unordered flow that does not fail comes to have delivered every message it
\* accepted, under a grant of one too (RetransmitInflight, ApplyAckRanges).
UnorderedDelivered ==
    kind = "loose" =>
        <>[](life = "FAILED" \/ \A m \in 1 .. accepted : \E i \in 1 .. Len(handed) : handed[i] = m)
=============================================================================
