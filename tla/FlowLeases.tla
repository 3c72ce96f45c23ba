----------------------------- MODULE FlowLeases -----------------------------
(***************************************************************************)
(* Who owns the slots of peers, flows and associations, and for how long:  *)
(* opening and closing flows, the association a first send or a first      *)
(* arrival builds, the removal of a peer, and the events that keep a slot  *)
(* leased until somebody has read them.                                    *)
(*                                                                         *)
(* One step is what the code does between two lock operations.  A thread   *)
(* that names a peer holds that peer's write lock over the steps the code  *)
(* holds it; finding the peer and locking it is one step here (the gap     *)
(* between the two is the subject of PeerTable).  What travels on a flow   *)
(* is left to FlowPair and FlowEpochs, batching to FlowBatch.              *)
(*                                                                         *)
(* Which calls a thread makes, and how many of each are made, is a         *)
(* Scenario: the initial state picks one, so one run covers several ways   *)
(* of embedding the socket.                                                *)
(***************************************************************************)
EXTENDS Integers, FiniteSets, Sequences, FiniteSetsExt

CONSTANTS
  Threads, Addrs, FlowIds,
  PeerSlots, FlowSlots, OutSlots, InSlots,
  DirWidth,      \* entries of a peer's directory, per direction
  Scenarios,     \* records [calls : [Threads -> SUBSET Calls], left : [Calls -> Nat]]
  NoSlot, Nobody

Calls == {"open", "close", "send", "arrive", "refuse", "register", "remove", "peerEvent", "poll"}
Rows == ({"out"} \X OutSlots) \cup ({"in"} \X InSlots) \cup ({"peer"} \X PeerSlots)

VARIABLES
  flow,     \* flow slots: lease, id, life, head of the association list
  assoc,    \* association slots of both directions, by row
  peer,     \* peer slots: lease, address, listed in the index, marks, lock
  dir,      \* the directories of a peer slot: entries [id, slot], by direction
  event,    \* the event table: unread bits and the tenancy they were written for
  th,       \* threads
  plan      \* the scenario, with the calls that are left
vars == <<flow, assoc, peer, dir, event, th, plan>>

AssocRows == {r \in Rows : r[1] # "peer"}
Idle == [pc |-> "idle", call |-> "none", addr |-> Nobody, id |-> 0, ps |-> NoSlot,
         row |-> <<"none", NoSlot>>, gen |-> 0, flow |-> NoSlot, owner |-> NoSlot,
         hold |-> FALSE, what |-> "none"]

\* A slot that was never leased: the pools construct nothing, and gen, the
\* number of the lease, survives in the slot.
Init ==
  /\ flow = [f \in FlowSlots |-> [leased |-> FALSE, id |-> 0, life |-> "CLOSED", first |-> NoSlot]]
  /\ assoc = [r \in AssocRows |-> [leased |-> FALSE, gen |-> 0, life |-> "CLOSED", who |-> Nobody,
                                   id |-> 0, flow |-> NoSlot, next |-> NoSlot, emitting |-> FALSE]]
  /\ peer = [p \in PeerSlots |-> [leased |-> FALSE, gen |-> 0, who |-> Nobody, listed |-> FALSE,
                                  emitting |-> FALSE, freeWhenRead |-> FALSE, lock |-> Nobody]]
  /\ dir = [p \in PeerSlots |-> [out |-> {}, in |-> {}]]
  /\ event = [r \in Rows |-> [bits |-> {}, gen |-> 0]]
  /\ th = [t \in Threads |-> Idle]
  /\ plan \in Scenarios

-----------------------------------------------------------------------------
\* What the steps are made of.

\* Socket::GetPeer: the peer slot listed under an address.
SlotOf(a) == {p \in PeerSlots : peer[p].listed /\ peer[p].who = a}

\* FindFlowSlot over one directory.
Find(d, id) == {e.slot : e \in {x \in d : x.id = id}}

\* The tenancy of a row: the lease its slot is under now.
TenancyOf(r) == IF r[1] = "peer" THEN peer[r[2]].gen ELSE assoc[r].gen
LeasedNow(r) == IF r[1] = "peer" THEN peer[r[2]].leased ELSE assoc[r].leased

\* EventTable::Record: bits are folded into an unread entry, whose identity
\* stays; an empty entry is written for the present tenant.
Recorded(r, what) ==
  IF event[r].bits # {} THEN [event EXCEPT ![r].bits = @ \cup {what}]
                        ELSE [event EXCEPT ![r] = [bits |-> {what}, gen |-> TenancyOf(r)]]

\* The list of a flow, followed from its head as CloseFlow does: the slots met
\* in at most n steps.
Walk[n \in Nat, s \in OutSlots \cup {NoSlot}] ==
  IF s = NoSlot THEN {}
  ELSE IF n = 0 THEN {s} ELSE {s} \cup Walk[n - 1, assoc[<<"out", s>>].next]
ListOf(f) == Walk[Cardinality(OutSlots), flow[f].first]

May(t, call) == th[t].pc = "idle" /\ call \in plan.calls[t] /\ plan.left[call] > 0
Spend(call) == plan' = [plan EXCEPT !.left[call] = @ - 1]
Locked(p, t) == peer' = [peer EXCEPT ![p].lock = t]
Unlocked(p) == peer' = [peer EXCEPT ![p].lock = Nobody]
Goto(t, pc) == th' = [th EXCEPT ![t].pc = pc]
Done(t) == th' = [th EXCEPT ![t] = Idle]

-----------------------------------------------------------------------------
\* Opening a flow.

\* OpenFlow: the id is looked for before a slot is leased, under no common lock.
OpenFlow(t) ==
  /\ May(t, "open")
  /\ Spend("open")
  /\ \E id \in FlowIds :
       /\ \A f \in FlowSlots : flow[f].id # id
       /\ th' = [th EXCEPT ![t] = [Idle EXCEPT !.pc = "lease", !.call = "open", !.id = id]]
  /\ UNCHANGED <<flow, assoc, peer, dir, event>>

LeaseFlow(t) ==
  /\ th[t].pc = "lease"
  /\ \/ \E f \in FlowSlots :
          /\ ~flow[f].leased
          /\ flow' = [flow EXCEPT ![f] = [leased |-> TRUE, id |-> th[t].id, life |-> "OPEN", first |-> NoSlot]]
     \/ (\A f \in FlowSlots : flow[f].leased) /\ UNCHANGED flow
  /\ Done(t)
  /\ UNCHANGED <<assoc, peer, dir, event, plan>>

-----------------------------------------------------------------------------
\* A first send to a peer builds its association (CreateAssociation), all of
\* it under the peer's write lock, with the flow locked twice in between.

Send(t) ==
  /\ May(t, "send")
  /\ Spend("send")
  /\ \E a \in Addrs, id \in FlowIds : \E p \in SlotOf(a) :
       /\ peer[p].lock = Nobody
       /\ Find(dir[p].out, id) = {}
       /\ Locked(p, t)
       /\ th' = [th EXCEPT ![t] = [Idle EXCEPT !.pc = "find", !.call = "send", !.addr = a, !.id = id, !.ps = p]]
  /\ UNCHANGED <<flow, assoc, dir, event>>

\* FindFlowById.
FindFlow(t) ==
  /\ th[t].pc = "find"
  /\ \/ \E f \in FlowSlots :
          /\ flow[f].id = th[t].id
          /\ th' = [th EXCEPT ![t].pc = "mint", ![t].flow = f]
          /\ UNCHANGED peer
     \/ /\ \A f \in FlowSlots : flow[f].id # th[t].id
        /\ Unlocked(th[t].ps) /\ Done(t)
  /\ UNCHANGED <<flow, assoc, dir, event, plan>>

\* The flow is locked to mint a generation: it must be open at that moment.
Mint(t) ==
  /\ th[t].pc = "mint"
  /\ \/ flow[th[t].flow].life = "OPEN" /\ Goto(t, "build") /\ UNCHANGED peer
     \/ flow[th[t].flow].life # "OPEN" /\ Unlocked(th[t].ps) /\ Done(t)
  /\ UNCHANGED <<flow, assoc, dir, event, plan>>

\* ResetOutAssoc / ResetInAssoc: every field of the slot but the lease number,
\* which advances.
NewTenant(r, a, id) ==
  [assoc EXCEPT ![r] = [leased |-> TRUE, gen |-> @.gen + 1, life |-> "OPEN", who |-> a, id |-> id,
                        flow |-> NoSlot, next |-> NoSlot, emitting |-> FALSE]]

FreeRow(scope) == {r \in AssocRows : r[1] = scope /\ ~assoc[r].leased}

\* A slot is leased, reset and published; a dry pool or a full directory ends
\* the call with nothing held.
Build(t) ==
  /\ th[t].pc = "build"
  /\ LET p == th[t].ps
         room == Cardinality(dir[p].out) < DirWidth
     IN \/ \E r \in FreeRow("out") :
             /\ room
             /\ assoc' = NewTenant(r, th[t].addr, th[t].id)
             /\ dir' = [dir EXCEPT ![p].out = @ \cup {[id |-> th[t].id, slot |-> r[2]]}]
             /\ th' = [th EXCEPT ![t].pc = "link", ![t].row = r]
             /\ UNCHANGED peer
        \/ /\ FreeRow("out") = {} \/ ~room
           /\ Unlocked(p) /\ Done(t)
           /\ UNCHANGED <<assoc, dir>>
  /\ UNCHANGED <<flow, event, plan>>

\* LinkAssociation, at the head of the flow's list, and the end of the call.
Link(t) ==
  /\ th[t].pc = "link"
  /\ LET r == th[t].row
         f == th[t].flow
     IN /\ assoc' = [assoc EXCEPT ![r].flow = f, ![r].next = flow[f].first]
        /\ flow' = [flow EXCEPT ![f].first = r[2]]
  /\ Unlocked(th[t].ps)
  /\ Done(t)
  /\ UNCHANGED <<dir, event, plan>>

-----------------------------------------------------------------------------
\* FreeAssoc, shared by CloseFlow and by the sweep of a removed peer.  The
\* flow an association belongs to is read, then the association is taken off
\* that flow's list, drained and marked CLOSED, and its slot released.

Peek(t) ==
  /\ th[t].pc = "peek"
  /\ LET f == assoc[th[t].row].flow
     IN th' = [th EXCEPT ![t].owner = f, ![t].pc = IF f = NoSlot THEN "drain" ELSE "unlink"]
  /\ UNCHANGED <<flow, assoc, peer, dir, event, plan>>

\* A fault: the predecessor keeps pointing at the slot.
UnlinkedHeadOnly(r, s, members) ==
  IF r = <<"out", s>> THEN [assoc[r] EXCEPT !.flow = NoSlot, !.next = NoSlot] ELSE assoc[r]

\* UnlinkAssociation: nothing happens when the slot is not on the list.
Unlinked(r, s, members) ==
  IF r = <<"out", s>> THEN [assoc[r] EXCEPT !.flow = NoSlot, !.next = NoSlot]
  ELSE IF r[1] = "out" /\ r[2] \in members /\ assoc[r].next = s
       THEN [assoc[r] EXCEPT !.next = assoc[<<"out", s>>].next] ELSE assoc[r]

Unlink(t) ==
  /\ th[t].pc = "unlink"
  /\ LET f == th[t].owner
         s == th[t].row[2]
         members == ListOf(f)
     IN IF s \in members
        THEN /\ assoc' = [r \in AssocRows |-> Unlinked(r, s, members)]
             /\ flow' = [flow EXCEPT ![f].first = IF @ = s THEN assoc[<<"out", s>>].next ELSE @]
        ELSE UNCHANGED <<assoc, flow>>
  /\ Goto(t, "drain")
  /\ UNCHANGED <<peer, dir, event, plan>>

\* A fault: the slot is released at once.
KeepsLeaseNever(r) == FALSE

\* An unread event keeps the lease: whoever delivers it gives the slot back.
KeepsLease(r) == assoc[r].emitting

Drain(t) ==
  /\ th[t].pc = "drain"
  /\ assoc' = [assoc EXCEPT ![th[t].row].life = "CLOSED"]
  /\ th' = [th EXCEPT ![t].pc = "release", ![t].hold = KeepsLease(th[t].row)]
  /\ UNCHANGED <<flow, peer, dir, event, plan>>

\* The release, and for CloseFlow the end of the peer handle's scope.
Release(t) ==
  /\ th[t].pc = "release"
  /\ assoc' = IF th[t].hold THEN assoc ELSE [assoc EXCEPT ![th[t].row].leased = FALSE]
  /\ IF th[t].call = "close"
     THEN /\ IF th[t].ps = NoSlot THEN UNCHANGED peer ELSE Unlocked(th[t].ps)
          /\ th' = [th EXCEPT ![t].pc = "next", ![t].ps = NoSlot]
     ELSE Goto(t, "sweep") /\ UNCHANGED peer
  /\ UNCHANGED <<flow, dir, event, plan>>

-----------------------------------------------------------------------------
\* CloseFlow: the flow is marked CLOSING, then its list is emptied head first.

BeginClose(t) ==
  /\ May(t, "close")
  /\ Spend("close")
  /\ \E f \in FlowSlots :
       /\ flow[f].leased /\ flow[f].life = "OPEN"
       /\ flow' = [flow EXCEPT ![f].life = "CLOSING"]
       /\ th' = [th EXCEPT ![t] = [Idle EXCEPT !.pc = "next", !.call = "close", !.flow = f]]
  /\ UNCHANGED <<assoc, peer, dir, event>>

\* NextAssocToClose reads the head under the flow's lock ...
NextAssoc(t) ==
  /\ th[t].pc = "next"
  /\ LET s == flow[th[t].flow].first
     IN IF s = NoSlot THEN Goto(t, "finish")
        ELSE th' = [th EXCEPT ![t].pc = "identify", ![t].row = <<"out", s>>]
  /\ UNCHANGED <<flow, assoc, peer, dir, event, plan>>

\* ... and the target's identity under the association's.
Identify(t) ==
  /\ th[t].pc = "identify"
  /\ th' = [th EXCEPT ![t].pc = "approach", ![t].addr = assoc[th[t].row].who, ![t].gen = assoc[th[t].row].gen]
  /\ UNCHANGED <<flow, assoc, peer, dir, event, plan>>

\* A fault: the directory keeps the entry.
UnpublishedNot(d, s) == d

\* UnpublishOut: the entry that names the slot is cleared.
Unpublished(d, s) == {e \in d : e.slot # s}

\* The peer is looked up and write-locked; a peer that is gone is done without.
Approach(t) ==
  /\ th[t].pc = "approach"
  /\ \/ \E p \in SlotOf(th[t].addr) :
          /\ peer[p].lock = Nobody
          /\ Locked(p, t)
          /\ dir' = [dir EXCEPT ![p].out = Unpublished(@, th[t].row[2])]
          /\ th' = [th EXCEPT ![t].pc = "peek", ![t].ps = p]
     \/ SlotOf(th[t].addr) = {} /\ Goto(t, "peek") /\ UNCHANGED <<peer, dir>>
  /\ UNCHANGED <<flow, assoc, event, plan>>

FinishClose(t) ==
  /\ th[t].pc = "finish"
  /\ flow' = [flow EXCEPT ![th[t].flow].leased = FALSE, ![th[t].flow].life = "CLOSED", ![th[t].flow].id = 0]
  /\ Done(t)
  /\ UNCHANGED <<assoc, peer, dir, event, plan>>

-----------------------------------------------------------------------------
\* Peers.

\* PeerTable::RegisterPeer resets every field of the peer, and nothing of the
\* directories or the event entry that belong to its slot.
RegisterPeer(t) ==
  /\ May(t, "register")
  /\ Spend("register")
  /\ \E a \in Addrs, p \in PeerSlots :
       /\ SlotOf(a) = {} /\ ~peer[p].leased
       /\ peer' = [peer EXCEPT ![p] = [leased |-> TRUE, gen |-> @.gen + 1, who |-> a, listed |-> TRUE,
                                       emitting |-> FALSE, freeWhenRead |-> FALSE, lock |-> Nobody]]
  /\ UNCHANGED <<flow, assoc, dir, event, th>>

\* RecordPeerEvent, from the handlers that report a peer: one section of the
\* peer's write lock.
PeerEvent(t) ==
  /\ May(t, "peerEvent")
  /\ Spend("peerEvent")
  /\ \E p \in PeerSlots :
       /\ peer[p].listed /\ peer[p].lock = Nobody
       /\ event' = Recorded(<<"peer", p>>, "PEER_ESTABLISHED")
       /\ peer' = [peer EXCEPT ![p].emitting = TRUE]
  /\ UNCHANGED <<flow, assoc, dir, th>>

\* RemovePeer, first scope: PEER_LOST is recorded and both directories swept,
\* under the write lock.
RemovePeer(t) ==
  /\ May(t, "remove")
  /\ Spend("remove")
  /\ \E a \in Addrs : \E p \in SlotOf(a) :
       /\ peer[p].lock = Nobody
       /\ event' = Recorded(<<"peer", p>>, "PEER_LOST")
       /\ peer' = [peer EXCEPT ![p].lock = t, ![p].emitting = TRUE]
       /\ th' = [th EXCEPT ![t] = [Idle EXCEPT !.pc = "sweep", !.call = "remove", !.addr = a, !.ps = p]]
  /\ UNCHANGED <<flow, assoc, dir>>

\* SweepPeer: each entry is cleared before its association is freed; a
\* receiving association is closed and released on the spot.
Sweep(t) ==
  /\ th[t].pc = "sweep"
  /\ LET p == th[t].ps
     IN \/ \E e \in dir[p].out :
             /\ dir' = [dir EXCEPT ![p].out = @ \ {e}]
             /\ th' = [th EXCEPT ![t].pc = "peek", ![t].row = <<"out", e.slot>>,
                                 ![t].gen = assoc[<<"out", e.slot>>].gen]
             /\ UNCHANGED <<assoc, peer>>
        \/ \E e \in dir[p].in :
             /\ dir[p].out = {}
             /\ dir' = [dir EXCEPT ![p].in = @ \ {e}]
             /\ assoc' = [assoc EXCEPT ![<<"in", e.slot>>].life = "CLOSED",
                                       ![<<"in", e.slot>>].leased = KeepsLease(<<"in", e.slot>>)]
             /\ UNCHANGED <<peer, th>>
        \/ /\ dir[p].out = {} /\ dir[p].in = {}
           /\ Unlocked(p) /\ Goto(t, "unlist")
           /\ UNCHANGED <<dir, assoc>>
  /\ UNCHANGED <<flow, event, plan>>

\* PeerTable::RemovePeer looks the address up again and takes it off the index.
Unlist(t) ==
  /\ th[t].pc = "unlist"
  /\ \/ \E p \in SlotOf(th[t].addr) :
          /\ peer' = [peer EXCEPT ![p].listed = FALSE]
          /\ th' = [th EXCEPT ![t].pc = "drainPeer", ![t].ps = p]
     \/ SlotOf(th[t].addr) = {} /\ Done(t) /\ UNCHANGED peer
  /\ UNCHANGED <<flow, assoc, dir, event, plan>>

\* DrainAndFree: the write lock waits for the handles that still exist.
DrainAndFree(t) ==
  /\ th[t].pc = "drainPeer"
  /\ peer[th[t].ps].lock = Nobody
  /\ peer' = IF peer[th[t].ps].emitting THEN [peer EXCEPT ![th[t].ps].freeWhenRead = TRUE]
                                        ELSE [peer EXCEPT ![th[t].ps].leased = FALSE]
  /\ Done(t)
  /\ UNCHANGED <<flow, assoc, dir, event, plan>>

-----------------------------------------------------------------------------
\* What the network thread reports of associations: recorded, then marked in a
\* second section, both under the peer's write lock.

Report(t, call, a, p, r, what) ==
  th' = [th EXCEPT ![t] = [Idle EXCEPT !.pc = "record", !.call = call, !.addr = a, !.ps = p,
                                       !.row = r, !.what = what]]

\* Flow_Reject, or the death clock in UpdateOutFlow: FailAssoc once per tenant.
Refuse(t) ==
  /\ May(t, "refuse")
  /\ Spend("refuse")
  /\ \E a \in Addrs : \E p \in SlotOf(a) : \E e \in dir[p].out :
       LET r == <<"out", e.slot>>
       IN /\ peer[p].lock = Nobody
          /\ assoc[r].id = e.id /\ assoc[r].life = "OPEN"
          /\ assoc' = [assoc EXCEPT ![r].life = "FAILED"]
          /\ Locked(p, t)
          /\ Report(t, "refuse", a, p, r, "OUTGOING_FLOW_REFUSED")
  /\ UNCHANGED <<flow, dir, event>>

\* ProcessFlowIn: the first packet of a flow registers an association, one of
\* a newer generation resets it; a dry pool or a full directory refuses.
Arrive(t) ==
  /\ May(t, "arrive")
  /\ Spend("arrive")
  /\ \E a \in Addrs, id \in FlowIds : \E p \in SlotOf(a) :
       LET known == Find(dir[p].in, id)
       IN /\ peer[p].lock = Nobody
          /\ Locked(p, t)
          /\ \/ \E r \in FreeRow("in") :
                  /\ known = {} /\ Cardinality(dir[p].in) < DirWidth
                  /\ assoc' = NewTenant(r, a, id)
                  /\ dir' = [dir EXCEPT ![p].in = @ \cup {[id |-> id, slot |-> r[2]]}]
                  /\ Report(t, "arrive", a, p, r, "INCOMING_FLOW_OPENED")
             \/ \E s \in known :
                  /\ assoc' = [assoc EXCEPT ![<<"in", s>>].who = a, ![<<"in", s>>].life = "OPEN",
                                            ![<<"in", s>>].emitting = FALSE]
                  /\ UNCHANGED dir
                  /\ Report(t, "arrive", a, p, <<"in", s>>, "INCOMING_FLOW_REOPENED")
  /\ UNCHANGED <<flow, event>>

RecordEvent(t) ==
  /\ th[t].pc = "record"
  /\ event' = Recorded(th[t].row, th[t].what)
  /\ Goto(t, "mark")
  /\ UNCHANGED <<flow, assoc, peer, dir, plan>>

MarkEmitting(t) ==
  /\ th[t].pc = "mark"
  /\ assoc' = [assoc EXCEPT ![th[t].row].emitting = TRUE]
  /\ Unlocked(th[t].ps)
  /\ Done(t)
  /\ UNCHANGED <<flow, dir, event, plan>>

-----------------------------------------------------------------------------
\* Poll dispatches the events of the lane it has claimed, which one thread does
\* at a time: the bits are taken, the handler runs, the mark is cleared, and a
\* slot whose teardown came first is released.

Dispatching(t) == th[t].call = "poll"

Poll(t) ==
  /\ May(t, "poll")
  /\ \A u \in Threads : ~Dispatching(u)
  /\ Spend("poll")
  /\ \E r \in Rows :
       /\ event[r].bits # {}
       /\ event' = [event EXCEPT ![r].bits = {}]
       /\ th' = [th EXCEPT ![t] = [Idle EXCEPT !.pc = "clear", !.call = "poll", !.row = r]]
  /\ UNCHANGED <<flow, assoc, peer, dir>>

\* A fault: the delivery always releases the slot.
LeftToReaderAlways(r) == TRUE

\* Whether the teardown of an association left the release to the delivery.
LeftToReader(r) == assoc[r].life = "CLOSED"

\* FlowTable::ClearEmitting and PeerTable::ClearEmitting.
ClearEmitting(t) ==
  /\ th[t].pc = "clear"
  /\ LET r == th[t].row
         p == r[2]
         give(yes) == th' = [th EXCEPT ![t] = IF yes THEN [@ EXCEPT !.pc = "give", !.gen = TenancyOf(r)] ELSE Idle]
     IN IF r[1] = "peer"
        THEN /\ peer[p].lock = Nobody
             /\ peer' = [peer EXCEPT ![p].emitting = FALSE, ![p].freeWhenRead = FALSE]
             /\ give(peer[p].freeWhenRead)
             /\ UNCHANGED assoc
        ELSE /\ assoc' = [assoc EXCEPT ![r].emitting = FALSE]
             /\ give(LeftToReader(r))
             /\ UNCHANGED peer
  /\ UNCHANGED <<flow, dir, event, plan>>

Give(t) ==
  /\ th[t].pc = "give"
  /\ LET r == th[t].row
     IN IF r[1] = "peer" THEN peer' = [peer EXCEPT ![r[2]].leased = FALSE] /\ UNCHANGED assoc
                         ELSE assoc' = [assoc EXCEPT ![r].leased = FALSE] /\ UNCHANGED peer
  /\ Done(t)
  /\ UNCHANGED <<flow, dir, event, plan>>

-----------------------------------------------------------------------------
Next == \E t \in Threads :
  \/ OpenFlow(t) \/ LeaseFlow(t)
  \/ Send(t) \/ FindFlow(t) \/ Mint(t) \/ Build(t) \/ Link(t)
  \/ BeginClose(t) \/ NextAssoc(t) \/ Identify(t) \/ Approach(t) \/ FinishClose(t)
  \/ Peek(t) \/ Unlink(t) \/ Drain(t) \/ Release(t)
  \/ RegisterPeer(t) \/ PeerEvent(t) \/ RemovePeer(t) \/ Sweep(t) \/ Unlist(t) \/ DrainAndFree(t)
  \/ Refuse(t) \/ Arrive(t) \/ RecordEvent(t) \/ MarkEmitting(t)
  \/ Poll(t) \/ ClearEmitting(t) \/ Give(t)

Spec == Init /\ [][Next]_vars

-----------------------------------------------------------------------------
\* Properties.

TypeOK ==
  /\ flow \in [FlowSlots -> [leased : BOOLEAN, id : FlowIds \cup {0}, life : {"OPEN", "CLOSING", "CLOSED"},
                             first : OutSlots \cup {NoSlot}]]
  /\ \A r \in AssocRows : /\ assoc[r].life \in {"OPEN", "FAILED", "CLOSED"}
                          /\ assoc[r].next \in OutSlots \cup {NoSlot}
                          /\ assoc[r].flow \in FlowSlots \cup {NoSlot}
                          /\ ~assoc[r].leased => assoc[r].life = "CLOSED"
  /\ \A p \in PeerSlots : /\ peer[p].lock \in Threads \cup {Nobody}
                          /\ peer[p].listed => peer[p].leased
                          /\ Cardinality(dir[p].out) <= DirWidth /\ Cardinality(dir[p].in) <= DirWidth

(***************************************************************************)
(* A slot is given back by the one teardown that ended its tenancy.  When  *)
(* CloseFlow, the sweep of a removed peer or the delivery of an event is   *)
(* about to call Release, the slot is still leased, and under the lease    *)
(* that thread set out to end: it is neither free already nor somebody     *)
(* else's by now.                                                          *)
(***************************************************************************)
ReleasesItsOwn == \A t \in Threads :
  \/ th[t].pc = "release" /\ ~th[t].hold
  \/ th[t].pc = "give"
  => LeasedNow(th[t].row) /\ TenancyOf(th[t].row) = th[t].gen

(***************************************************************************)
(* The list CloseFlow walks (firstAssoc, nextInFlow) holds exactly the     *)
(* associations that name the flow: all of them leased, none of them freed *)
(* or recycled by a peer's removal on the way.                             *)
(***************************************************************************)
ListIsTheFlows == \A f \in FlowSlots : \A s \in OutSlots :
  LET a == assoc[<<"out", s>>]
  IN (s \in ListOf(f)) <=> (a.leased /\ a.flow = f)

(***************************************************************************)
(* "A later peer in the same slot must inherit empty directories, never a  *)
(* stranger's flows": an entry of a registered peer's directory leads to a *)
(* leased association of that very peer and of the id the entry names.     *)
(***************************************************************************)
DirectoryIsThePeers == \A p \in PeerSlots : peer[p].listed =>
  \A d \in {"out", "in"} : \A e \in dir[p][d] :
    LET a == assoc[<<d, e.slot>>] IN a.leased /\ a.who = peer[p].who /\ a.id = e.id

(***************************************************************************)
(* "The occupant of a slot is the same one its entry was written for,      *)
(* always": unread bits in an event entry belong to the tenant the slot is *)
(* leased to now.                                                          *)
(***************************************************************************)
UnreadIsTheTenants == \A r \in Rows : event[r].bits # {} =>
  LeasedNow(r) /\ event[r].gen = TenancyOf(r)

(***************************************************************************)
(* A lease that outlives its teardown has somebody who will end it: a slot *)
(* that is CLOSED and still leased is in the hands of a thread that is     *)
(* freeing it, or an event about it is unread or being delivered.          *)
(***************************************************************************)
HeldForAReader == \A r \in AssocRows : assoc[r].leased /\ assoc[r].life = "CLOSED" =>
  \/ event[r].bits # {}
  \/ \E t \in Threads : th[t].row = r /\ th[t].pc \in {"release", "clear", "give"}

(***************************************************************************)
(* "Closed first, so nothing opens a new association under a flow that is  *)
(* going away": when CloseFlow has given the flow's slot back, no leased   *)
(* association is left that was opened under it.                           *)
(***************************************************************************)
NothingOutlivesTheFlow == \A f \in FlowSlots : ~flow[f].leased =>
  \A s \in OutSlots : assoc[<<"out", s>>].leased => assoc[<<"out", s>>].flow # f

\* The list of a flow is exact for as long as the flow is leased, and empty
\* afterwards (CreateAssociation against CloseFlow and the sweep of a peer).
FlowListsExact == TypeOK /\ ListIsTheFlows /\ NothingOutlivesTheFlow

\* An unread event keeps its slot leased to the tenant it tells of, and nothing
\* else keeps a slot that is closed (Record, Dispatch, the emitting hold).
EventsKeepSlots == UnreadIsTheTenants /\ HeldForAReader
=============================================================================
