----------------------------- MODULE FlowEpochs -----------------------------
(***************************************************************************)
(* The generations of one flow id.  A flow that is closed and opened again *)
(* numbers its packets from one, so every packet, ack and refusal carries  *)
(* the epoch of its generation, a field of EpochCount values.  The sender  *)
(* is one socket with an association per peer; each peer has its receiving *)
(* association.                                                            *)
(*                                                                         *)
(* `gen` is a history variable: the true number of a generation, which the *)
(* code never has.  Sequences are those of an ordered flow whose window is *)
(* never full; FlowPair models the window, the losses and the hold-back.   *)
(***************************************************************************)
EXTENDS Integers, Sequences

CONSTANTS
    Peers,
    EpochCount,     \* FLOW_EPOCH_COUNT
    StallTimer,     \* may an incoming association outlive the stall timeout?
    MaxOpens,       \* bound: times the id is opened
    MaxSends,       \* bound: messages of one generation
    MaxCopies,      \* bound: copies of one packet under way at once
    MaxRefused,     \* bound: associations refused by the pool or the directory
    MaxRemovals     \* bound: peers removed, on either side

VARIABLES
    \* the flow
    lastEpoch, flowLife, flowEpoch, out,
    \* the session with each peer: what either side knows, and whether both
    \* hold the same key
    outPeer, inPeer, linked,
    \* the receiving associations, and what their applications were handed since
    \* they last lost the peer
    in, delivered,
    \* the network: what is never read is lost, and the replay window lets no
    \* copy of a packet in twice
    net, acks, rejects,
    \* history: generations minted, generations refused, and the bounds' counters
    minted, refused, opens, denials, removals

flowVars == <<lastEpoch, flowLife, flowEpoch>>
peerVars == <<outPeer, inPeer, linked>>
wireVars == <<net, acks, rejects>>
history == <<minted, refused, opens, denials, removals>>
vars == <<flowVars, out, peerVars, in, delivered, wireVars, history>>

Epochs == 0 .. EpochCount - 1

\* The epoch after e: (e + 1) & FLOW_EPOCH_MASK.
NextEpoch(e) == (e + 1) % EpochCount

NoOut == [gen |-> 0, epoch |-> 0, life |-> "CLOSED", nextSeq |-> 1, acked |-> 0]
NoIn == [gen |-> 0, epoch |-> 0, recvNext |-> 1, owed |-> FALSE]

Init ==
    /\ lastEpoch = 0 /\ flowLife = "CLOSED" /\ flowEpoch = 0
    /\ out = [p \in Peers |-> NoOut]
    /\ outPeer = [p \in Peers |-> "gone"]
    /\ inPeer = [p \in Peers |-> "gone"]
    /\ linked = [p \in Peers |-> FALSE]
    /\ in = [p \in Peers |-> NoIn]
    /\ delivered = [p \in Peers |-> <<>>]
    /\ net = {} /\ acks = {} /\ rejects = {}
    /\ minted = 0 /\ refused = {} /\ opens = 0 /\ denials = 0 /\ removals = 0

(***************************************************************************)
(* The flow and its associations.                                          *)
(***************************************************************************)

\* OpenFlow: the id's next epoch.
Open ==
    /\ flowLife = "CLOSED" /\ opens < MaxOpens
    /\ flowLife' = "OPEN"
    /\ flowEpoch' = NextEpoch(lastEpoch)
    /\ lastEpoch' = NextEpoch(lastEpoch)
    /\ opens' = opens + 1
    /\ UNCHANGED <<out, peerVars, in, delivered, wireVars, minted, refused,
                   denials, removals>>

\* CloseFlow closes the flow first, then frees its associations one by one.
BeginClose ==
    /\ flowLife = "OPEN"
    /\ flowLife' = "CLOSING"
    /\ UNCHANGED <<lastEpoch, flowEpoch, out, peerVars, in, delivered, wireVars,
                   history>>

CloseAssoc(p) ==
    /\ flowLife = "CLOSING" /\ out[p] # NoOut
    /\ out' = [out EXCEPT ![p] = NoOut]
    /\ UNCHANGED <<flowVars, peerVars, in, delivered, wireVars, history>>

FinishClose ==
    /\ flowLife = "CLOSING" /\ \A p \in Peers : out[p] = NoOut
    /\ flowLife' = "CLOSED"
    /\ UNCHANGED <<lastEpoch, flowEpoch, out, peerVars, in, delivered, wireVars,
                   history>>

\* CreateAssociation mints an epoch of its own for the association it builds.
CreateAssociation(p) ==
    /\ flowLife = "OPEN" /\ out[p] = NoOut
    /\ flowEpoch' = NextEpoch(flowEpoch)
    /\ minted' = minted + 1

\* What reaches the wire: nothing until the handshake is done.
Flying(p, q) == IF linked[p] THEN {q} ELSE {}

PacketOf(p, assoc, s, c) ==
    [peer |-> p, epoch |-> assoc.epoch, gen |-> assoc.gen, seq |-> s, copy |-> c]

\* The first send to a peer: AdmitOut creates the association and stamps 1.
SendFirst(p) ==
    /\ CreateAssociation(p)
    /\ out' = [out EXCEPT ![p] = [gen |-> minted + 1, epoch |-> NextEpoch(flowEpoch),
                                  life |-> "OPEN", nextSeq |-> 2, acked |-> 0]]
    /\ net' = net \cup Flying(p, PacketOf(p, out'[p], 1, 1))
    /\ UNCHANGED <<lastEpoch, flowLife, peerVars, in, delivered, acks, rejects,
                   refused, opens, denials, removals>>

\* CreateAssociation after the pool or the directory refused the slot: the
\* epoch is spent all the same.
SendDenied(p) ==
    /\ denials < MaxRefused
    /\ flowLife = "OPEN" /\ out[p] = NoOut
    /\ flowEpoch' = NextEpoch(flowEpoch)
    /\ denials' = denials + 1
    /\ UNCHANGED <<lastEpoch, flowLife, out, peerVars, in, delivered, wireVars,
                   minted, refused, opens, removals>>

\* A later send, on the association that is there.
SendNext(p) ==
    /\ out[p].life = "OPEN" /\ out[p].nextSeq <= MaxSends
    /\ out' = [out EXCEPT ![p].nextSeq = @ + 1]
    /\ net' = net \cup Flying(p, PacketOf(p, out[p], out[p].nextSeq, 1))
    /\ UNCHANGED <<flowVars, peerVars, in, delivered, acks, rejects, history>>

\* RetransmitInflight, or a packet that waited for the handshake.
Resend(p) ==
    /\ linked[p] /\ out[p].life = "OPEN"
    /\ \E s \in out[p].acked + 1 .. out[p].nextSeq - 1, c \in 1 .. MaxCopies :
          net' = net \cup {PacketOf(p, out[p], s, c)}
    /\ UNCHANGED <<flowVars, out, peerVars, in, delivered, acks, rejects, history>>

\* Mutant: an ack of any generation will do.
ApplyAckAnyEpoch(p, a) ==
    /\ a \in acks /\ a.peer = p /\ linked[p]
    /\ outPeer' = [outPeer EXCEPT ![p] = "confirmed"]
    /\ out' = [out EXCEPT ![p].acked =
                  IF a.recvNext <= out[p].nextSeq /\ a.recvNext - 1 > out[p].acked
                  THEN a.recvNext - 1 ELSE @]
    /\ UNCHANGED <<flowVars, inPeer, linked, in, delivered, wireVars, history>>

\* Flow_Ack: an ack of this association's own epoch resolves what lies below
\* the cursor it states.  Any ack that opens confirms the session.
ApplyAck(p, a) ==
    LET upTo == IF a.recvNext > out[p].nextSeq THEN out[p].nextSeq ELSE a.recvNext
    IN  /\ a \in acks /\ a.peer = p /\ linked[p]
        /\ outPeer' = [outPeer EXCEPT ![p] = "confirmed"]
        /\ out' = IF out[p] # NoOut /\ a.epoch = out[p].epoch /\ upTo - 1 > out[p].acked
                  THEN [out EXCEPT ![p].acked = upTo - 1]
                  ELSE out
        /\ UNCHANGED <<flowVars, inPeer, linked, in, delivered, wireVars, history>>

\* Mutant: a refusal of any generation will do.
FlowRejectAnyEpoch(p, r) ==
    /\ r \in rejects /\ r.peer = p /\ linked[p]
    /\ outPeer' = [outPeer EXCEPT ![p] = "confirmed"]
    /\ out' = IF out[p] # NoOut THEN [out EXCEPT ![p].life = "FAILED"] ELSE out
    /\ UNCHANGED <<flowVars, inPeer, linked, in, delivered, wireVars, history>>

\* Flow_Reject: the remote refused to register this epoch of the flow.
FlowReject(p, r) ==
    /\ r \in rejects /\ r.peer = p /\ linked[p]
    /\ outPeer' = [outPeer EXCEPT ![p] = "confirmed"]
    /\ out' = IF out[p] # NoOut /\ r.epoch = out[p].epoch
              THEN [out EXCEPT ![p].life = "FAILED"]
              ELSE out
    /\ UNCHANGED <<flowVars, inPeer, linked, in, delivered, wireVars, history>>

(***************************************************************************)
(* The receiving association.                                              *)
(***************************************************************************)

\* Mutants: a walk of any length is a newer generation; a straggler is never
\* believed, however silent the association.
CompareFlowEpochAlwaysNewer(have, seen) == IF seen = have THEN "Current" ELSE "Newer"
BelievedNever == FALSE

\* A short walk forward is a newer generation, a long one is a straggler.
CompareFlowEpoch(have, seen) ==
    LET forward == (seen - have) % EpochCount
    IN  IF forward = 0 THEN "Current"
        ELSE IF forward < EpochCount \div 2 THEN "Newer" ELSE "Stale"

\* An association that delivered nothing for the whole stall timeout believes
\* whatever generation arrives.
Believed == StallTimer

\* ResetInAssoc for the generation of packet q.
ResetInAssoc(q) == [gen |-> q.gen, epoch |-> q.epoch, recvNext |-> 1, owed |-> FALSE]

\* DeliverIn: the packet at the cursor is handed over, any other is acked.
DeliverIn(q, assoc) ==
    /\ in' = [in EXCEPT ![q.peer] =
                 [assoc EXCEPT !.owed = TRUE,
                               !.recvNext = IF q.seq = @ THEN @ + 1 ELSE @]]
    /\ delivered' = IF q.seq = assoc.recvNext
                    THEN [delivered EXCEPT ![q.peer] =
                             Append(@, [gen |-> q.gen, seq |-> q.seq])]
                    ELSE delivered
    /\ UNCHANGED <<rejects, refused>>

\* AdmitInFlow: register the flow, refuse it for want of room, go on, start
\* again for a newer generation, or drop a straggler.
AdmitInFlow(q) ==
    LET have == in[q.peer]
        order == CompareFlowEpoch(have.epoch, q.epoch)
    IN  \/ /\ have = NoIn
           /\ DeliverIn(q, ResetInAssoc(q))
        \/ /\ have = NoIn
           /\ rejects' = rejects \cup {[peer |-> q.peer, epoch |-> q.epoch]}
           /\ refused' = refused \cup {q.gen}
           /\ UNCHANGED <<in, delivered>>
        \/ /\ have # NoIn /\ order = "Current"
           /\ DeliverIn(q, have)
        \/ /\ have # NoIn /\ order = "Newer"
           /\ DeliverIn(q, ResetInAssoc(q))
        \/ /\ have # NoIn /\ order = "Stale"
           /\ \/ Believed /\ DeliverIn(q, ResetInAssoc(q))
              \/ UNCHANGED <<in, delivered, rejects, refused>>

\* ProcessFlowIn, after a packet opened under the session's key.
ProcessFlowIn(q) ==
    /\ q \in net /\ linked[q.peer]
    /\ AdmitInFlow(q)
    /\ inPeer' = [inPeer EXCEPT ![q.peer] = "confirmed"]
    /\ net' = net \ {q}
    /\ UNCHANGED <<flowVars, out, outPeer, linked, acks, minted, opens,
                   denials, removals>>

\* FlushPeerAcks: the owed ack goes out, with the association's epoch.
FlushPeerAcks(p) ==
    /\ in[p].owed /\ linked[p]
    /\ acks' = acks \cup {[peer |-> p, epoch |-> in[p].epoch, recvNext |-> in[p].recvNext]}
    /\ in' = [in EXCEPT ![p].owed = FALSE]
    /\ UNCHANGED <<flowVars, out, peerVars, delivered, net, rejects, history>>

(***************************************************************************)
(* The peers.  Each side drops the other on its own, and a side that has   *)
(* opened a packet of the session refuses a new handshake until it does.   *)
(***************************************************************************)

\* RemovePeer at the sender sweeps its association, at the receiver the other.
RemoveOutPeer(p) ==
    /\ removals < MaxRemovals
    /\ outPeer[p] # "gone" \/ out[p] # NoOut
    /\ outPeer' = [outPeer EXCEPT ![p] = "gone"]
    /\ linked' = [linked EXCEPT ![p] = FALSE]
    /\ out' = [out EXCEPT ![p] = NoOut]
    /\ removals' = removals + 1
    /\ UNCHANGED <<flowVars, inPeer, in, delivered, wireVars, minted, refused,
                   opens, denials>>

RemoveInPeer(p) ==
    /\ removals < MaxRemovals
    /\ inPeer[p] # "gone"
    /\ inPeer' = [inPeer EXCEPT ![p] = "gone"]
    /\ linked' = [linked EXCEPT ![p] = FALSE]
    /\ in' = [in EXCEPT ![p] = NoIn]
    /\ delivered' = [delivered EXCEPT ![p] = <<>>]
    /\ removals' = removals + 1
    /\ UNCHANGED <<flowVars, out, outPeer, wireVars, minted, refused,
                   opens, denials>>

\* Handshake_Validate and Handshake_Complete: a new key on both sides, under
\* which nothing sent before opens.
Handshake(p) ==
    LET others(S) == {x \in S : x.peer # p}
    IN  /\ ~linked[p] /\ outPeer[p] # "confirmed" /\ inPeer[p] # "confirmed"
        /\ outPeer' = [outPeer EXCEPT ![p] = "unconfirmed"]
        /\ inPeer' = [inPeer EXCEPT ![p] = "unconfirmed"]
        /\ linked' = [linked EXCEPT ![p] = TRUE]
        /\ net' = others(net) /\ acks' = others(acks) /\ rejects' = others(rejects)
        /\ UNCHANGED <<flowVars, out, in, delivered, history>>

Next ==
    \/ Open \/ BeginClose \/ FinishClose
    \/ \E p \in Peers :
          \/ CloseAssoc(p) \/ SendFirst(p) \/ SendDenied(p) \/ SendNext(p) \/ Resend(p)
          \/ FlushPeerAcks(p) \/ RemoveOutPeer(p) \/ RemoveInPeer(p) \/ Handshake(p)
          \/ \E a \in acks : ApplyAck(p, a)
          \/ \E r \in rejects : FlowReject(p, r)
    \/ \E q \in net : ProcessFlowIn(q)

Spec == Init /\ [][Next]_vars

TypeOK ==
    /\ lastEpoch \in Epochs /\ flowEpoch \in Epochs
    /\ flowLife \in {"CLOSED", "OPEN", "CLOSING"}
    /\ out \in [Peers -> [gen : Nat, epoch : Epochs, life : {"CLOSED", "OPEN", "FAILED"},
                          nextSeq : Nat, acked : Nat]]
    /\ outPeer \in [Peers -> {"gone", "unconfirmed", "confirmed"}]
    /\ inPeer \in [Peers -> {"gone", "unconfirmed", "confirmed"}]
    /\ linked \in [Peers -> BOOLEAN]
    /\ in \in [Peers -> [gen : Nat, epoch : Epochs, recvNext : Nat, owed : BOOLEAN]]
    /\ delivered \in [Peers -> Seq([gen : Nat, seq : Nat])]
    /\ net \subseteq [peer : Peers, epoch : Epochs, gen : Nat, seq : Nat,
                       copy : 1 .. MaxCopies]
    /\ acks \subseteq [peer : Peers, epoch : Epochs, recvNext : Nat]
    /\ rejects \subseteq [peer : Peers, epoch : Epochs]
    /\ minted \in Nat /\ refused \subseteq Nat
    /\ opens \in 0 .. MaxOpens /\ denials \in 0 .. MaxRefused
    /\ removals \in 0 .. MaxRemovals

(***************************************************************************)
(* Properties.                                                             *)
(***************************************************************************)

Joined(p) == linked[p] /\ out[p] # NoOut /\ in[p] # NoIn

\* Two associations that talk under the same epoch are of the same generation:
\* otherwise the restarted sequences are read as duplicates of the old ones
\* (Open, CreateAssociation, CompareFlowEpoch).
EpochNamesGeneration ==
    \A p \in Peers : Joined(p) /\ out[p].epoch = in[p].epoch => out[p].gen = in[p].gen

\* A sequence the sender counts as acknowledged, and whose copy it has freed,
\* was handed to the receiving application in that very generation: an ack
\* never outlives the generation it describes (BuildPeerAckBody, ApplyAckRanges).
ResolvedMeansDelivered ==
    \A p \in Peers : linked[p] =>
        \A s \in 1 .. out[p].acked :
            \E i \in 1 .. Len(delivered[p]) :
                delivered[p][i] = [gen |-> out[p].gen, seq |-> s]

\* A receiving application sees each generation once, from its first sequence
\* and without a gap, and never an older generation after a newer one: no
\* straggler pulls the association back (AdmitInFlow).
GenerationsInOrder ==
    \A p \in Peers : \A i \in 1 .. Len(delivered[p]) :
        LET d == delivered[p][i]
        IN  \/ d.seq = 1 /\ (i > 1 => delivered[p][i - 1].gen < d.gen)
            \/ /\ i > 1
               /\ delivered[p][i - 1] = [gen |-> d.gen, seq |-> d.seq - 1]

\* The receiver of the sender's own generation still has its cursor above all
\* that the sender has freed: a cursor set back below it waits for ever for
\* sequences nobody can send again (AdmitInFlow's reset, ReleaseAckedRun).
CursorCoversReleased ==
    \A p \in Peers : Joined(p) /\ out[p].gen = in[p].gen => in[p].recvNext > out[p].acked

\* An association fails only on a refusal of its own generation, not on one
\* aimed at a generation already closed (Flow_Reject, OutAssocEpochIs).
FailsOnlyIfRefused ==
    \A p \in Peers : out[p].life = "FAILED" => out[p].gen \in refused

\* However many generations a receiver missed, the first message of one that
\* stays open reaches it: falling behind by half the epochs has a way out
\* (AdmitInFlow's stall timeout).
GenerationReachesPeer ==
    \A p \in Peers : \A g \in 1 .. MaxOpens :
        (out[p].gen = g) ~>
            \/ out[p].gen # g
            \/ out[p].life = "FAILED"
            \/ \E i \in 1 .. Len(delivered[p]) : delivered[p][i] = [gen |-> g, seq |-> 1]
=============================================================================
