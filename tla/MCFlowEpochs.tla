---------------------------- MODULE MCFlowEpochs ----------------------------
(***************************************************************************)
(* FlowEpochs on three instances: an id that is closed and opened again    *)
(* with the old generation's packets still under way ("reopen"), one whose *)
(* receiver falls behind by half the epochs ("behind"), and one that stays *)
(* open while its peers are dropped and come back ("evict").               *)
(***************************************************************************)
EXTENDS Integers, Sequences

CONSTANT Peers

VARIABLES
    kind,
    lastEpoch, flowLife, flowEpoch, out, outPeer, inPeer, linked, in, delivered,
    net, acks, rejects, minted, refused, opens, denials, removals

vars == <<kind, lastEpoch, flowLife, flowEpoch, out, outPeer, inPeer, linked, in,
          delivered, net, acks, rejects, minted, refused, opens, denials, removals>>

Reopen == INSTANCE FlowEpochs WITH
    EpochCount <- 8, StallTimer <- FALSE, MaxOpens <- 2, MaxSends <- 2,
    MaxCopies <- 1, MaxRefused <- 0, MaxRemovals <- 0

Behind == INSTANCE FlowEpochs WITH
    EpochCount <- 4, StallTimer <- TRUE, MaxOpens <- 3, MaxSends <- 1,
    MaxCopies <- 1, MaxRefused <- 0, MaxRemovals <- 0

Evict == INSTANCE FlowEpochs WITH
    EpochCount <- 8, StallTimer <- FALSE, MaxOpens <- 1, MaxSends <- 2,
    MaxCopies <- 2, MaxRefused <- 1, MaxRemovals <- 3

Init ==
    \/ kind = "reopen" /\ Reopen!Init
    \/ kind = "behind" /\ Behind!Init
    \/ kind = "evict" /\ Evict!Init

Next ==
    /\ UNCHANGED kind
    /\ \/ kind = "reopen" /\ Reopen!Next
       \/ kind = "behind" /\ Behind!Next
       \/ kind = "evict" /\ Evict!Next

\* A step of the instance that is about progress.
BehindDo(A) == kind = "behind" /\ A /\ UNCHANGED kind

\* The update loop resends and completes handshakes, the receiver finds room,
\* and a packet resent for ever gets through after the stall timeout has passed.
Fairness ==
    \A p \in Peers :
        /\ WF_vars(BehindDo(Behind!Handshake(p))) /\ WF_vars(BehindDo(Behind!Resend(p)))
        /\ \A g \in 1 .. 3 :
              SF_vars(BehindDo(\E q \in net : /\ q.peer = p /\ q.gen = g
                                             /\ Behind!ProcessFlowIn(q) /\ in' # in))

FairSpec == Init /\ [][Next]_vars /\ Fairness

\* Epochs keep generations apart: two associations that talk under one epoch are
\* of one generation, and an association fails only on a refusal of its own
\* (Open, CreateAssociation, CompareFlowEpoch, Flow_Reject).
EpochsApart ==
    /\ kind = "behind" => Behind!TypeOK
    /\ kind = "reopen" => Reopen!EpochNamesGeneration /\ Reopen!FailsOnlyIfRefused

\* What the sender counts as acknowledged was handed to the receiving application
\* in that very generation (BuildPeerAckBody, ApplyAckRanges).
ResolvedMeansDelivered ==
    /\ kind = "reopen" => Reopen!ResolvedMeansDelivered
    /\ kind = "evict" => Evict!ResolvedMeansDelivered

\* A receiving application sees each generation once, from its first sequence and
\* without a gap, and never an older one after a newer (AdmitInFlow).
GenerationsInOrder ==
    /\ kind = "reopen" => Reopen!GenerationsInOrder
    /\ kind = "evict" => Evict!GenerationsInOrder

\* The receiver's cursor is above all that the sender of the same generation has
\* freed (AdmitInFlow's reset, ReleaseAckedRun).
CursorCoversReleased ==
    /\ kind = "reopen" => Reopen!CursorCoversReleased
    /\ kind = "evict" => Evict!CursorCoversReleased

\* The first message of a generation that stays open reaches a receiver that
\* missed half the epochs (AdmitInFlow's stall timeout).
GenerationReachesPeer == kind = "behind" => Behind!GenerationReachesPeer
=============================================================================
