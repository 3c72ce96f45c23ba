---------------------------- MODULE MCFlowOrdered ----------------------------
(***************************************************************************)
(* An ordered flow.  A behaviour is either one with a stalling receiver,    *)
(* with the constants of the configuration, or a smaller one that does not *)
(* stall and is asked for progress.                                        *)
(***************************************************************************)
EXTENDS FlowPair

VARIABLE kind

orderedVars == <<kind, vars>>

Steady == INSTANCE FlowPair WITH StallTimer <- FALSE, MaxMsgs <- 3, MaxAcks <- 1

OrderedInit ==
    \/ kind = "stalling" /\ Init
    \/ kind = "steady" /\ Steady!Init

OrderedNext ==
    /\ UNCHANGED kind
    /\ \/ kind = "stalling" /\ Next
       \/ kind = "steady" /\ Steady!Next

\* FlowPair's fairness, for the flow that is asked for progress.
SteadyDo(A) == kind = "steady" /\ A /\ UNCHANGED kind

SteadyFairness ==
    /\ WF_orderedVars(SteadyDo(Steady!CommitSession)) /\ WF_orderedVars(SteadyDo(Steady!ClaimWaiting))
    /\ \A k \in Slots : WF_orderedVars(SteadyDo(k \in InFlight /\ Steady!RetransmitInflight({k}, {k})))
    /\ \A s \in 1 .. 3 : SF_orderedVars(SteadyDo(\E p \in data : p.seq = s /\ Steady!DeliverIn(p)))
    /\ WF_orderedVars(SteadyDo(Steady!FlushPeerAcks)) /\ WF_orderedVars(SteadyDo(Steady!Poll))
    /\ SF_orderedVars(SteadyDo(\E overdue \in SUBSET Unacked : Steady!ApplyAckRanges(FreshAck, overdue)))

OrderedSpec == OrderedInit /\ [][OrderedNext]_orderedVars /\ SteadyFairness

\* Without a stall, a flow that does not fail comes to have delivered every
\* message it accepted (RetransmitInflight, ApplyAckRanges, FlushPeerAcks).
OrderedDelivered ==
    kind = "steady" => <>[](life = "FAILED" \/ \A m \in 1 .. accepted : m \in Delivered)
=============================================================================
