----------------------------- MODULE PeerTable -----------------------------
(***************************************************************************)
(* PeerTable and PeerHandle: peers in a pool of slots, three Robin Hood    *)
(* indexes over them (by address, by id, by tag), one table-wide seqlock,  *)
(* one writer lock and one read-write lock per slot.                       *)
(*                                                                         *)
(* Granularity.  A writer stores one bucket per step inside its odd        *)
(* version; a reader loads one bucket per step.  Reading a bucket's hash   *)
(* and slot is one step: a pair torn by a writer belongs to a probe that   *)
(* the version refuses.  The sixteen optimistic attempts are any number.   *)
(* Keys are numbers and the hash of a key is its residue, so that two keys *)
(* can share a home bucket or a whole hash.  The hold an unread event has  *)
(* on a slot is modelled in FlowLeases.                                      *)
(***************************************************************************)
EXTENDS Integers, FiniteSets, Sequences, FiniteSetsExt, TLC

CONSTANTS
    Readers, Writers,    \* threads that look peers up, and that change the table
    Slots,               \* slots of the peer pool
    Addrs, BcpIds, Tags, \* keys
    HashRange,           \* hashes are 0..HashRange - 1
    Capacity,            \* buckets of an index
    TagCapacity,         \* tagCapacity_
    Ops,                 \* the writer operations the instance runs
    MaxOps               \* bound on how many

Threads == Readers \cup Writers
None == "none"
Empty == [hash |-> -1, key |-> -1, idx |-> None]
NoPeer == [addr |-> -1, id |-> -1]
Kinds == {"addr", "id", "tag"}
Buckets == 0..(Capacity - 1)

VARIABLES
    index,     \* kind -> bucket -> entry
    version,   \* version_, odd while a writer mutates an index
    lock,      \* the thread holding writeLock_
    peer,      \* slot -> the Peer in it
    leases,    \* slot -> how often it was registered (distinguishes tenants)
    readers,   \* slot -> threads holding its read lock
    writer,    \* slot -> thread holding its write lock
    free,      \* slots in the pool
    peerCount, tagCount,
    th,        \* what each thread is doing
    ops        \* operations begun

vars == <<index, version, lock, peer, leases, readers, writer, free, peerCount,
          tagCount, th, ops>>

Idle == [pc |-> "idle"]

Init ==
    /\ index = [k \in Kinds |-> [b \in Buckets |-> Empty]]
    /\ version = 0 /\ lock = None
    /\ peer = [s \in Slots |-> NoPeer] /\ leases = [s \in Slots |-> 0]
    /\ readers = [s \in Slots |-> {}] /\ writer = [s \in Slots |-> None]
    /\ free = Slots /\ peerCount = 0 /\ tagCount = 0
    /\ th = [t \in Threads |-> Idle] /\ ops = 0

-----------------------------------------------------------------------------
(* The index as an algorithm. *)

Hash(key) == key % HashRange

Bucket(h, d) == (h + d) % Capacity

\* How far an entry of hash h sits from its home when it is in bucket b.
Dist(h, b) == (b - h) % Capacity

(* FindPos and FindTagPos: the probe ends at the first bucket that is       *)
(* empty, holds the entry, or holds one closer to its home than the probe.  *)
Ends(tab, h, d, Match(_)) ==
    LET e == tab[Bucket(h, d)]
    IN e = Empty \/ Match(e) \/ Dist(e.hash, Bucket(h, d)) < d

NPOS == -1

FindWhere(tab, h, Match(_)) ==
    LET ends == {d \in Buckets : Ends(tab, h, d, Match)}
        pos  == Bucket(h, Min(ends))
    IN IF ends # {} /\ Match(tab[pos]) THEN pos ELSE NPOS

FindPos(tab, key) == FindWhere(tab, Hash(key), LAMBDA e : e # Empty /\ e.key = key)

FindTagPos(tab, tag, s) ==
    FindWhere(tab, Hash(tag), LAMBDA e : e # Empty /\ e.key = tag /\ e.idx = s)

\* The entry that has probed further takes the bucket.
Steals(e, b, dist) == Dist(e.hash, b) < dist

(* InsertEntry, as the successive contents of the index. *)
RECURSIVE InsertSteps(_, _, _, _)
InsertSteps(tab, e, b, dist) ==
    LET held == tab[b]
        took == [tab EXCEPT ![b] = e]
        next == (b + 1) % Capacity
    IN IF held = Empty THEN <<took>>
       ELSE IF Steals(held, b, dist)
            THEN <<took>> \o InsertSteps(took, held, next, Dist(held.hash, b) + 1)
            ELSE InsertSteps(tab, e, next, dist + 1)

Insert(tab, key, s) ==
    InsertSteps(tab, [hash |-> Hash(key), key |-> key, idx |-> s], Bucket(Hash(key), 0), 0)

\* mutant of RunEnds: the shift goes on over an entry already at its home.
RunEndsEmpty(tab, b) == tab[b] = Empty

\* Where a backward shift stops: an empty bucket or an entry at its home.
RunEnds(tab, b) == tab[b] = Empty \/ Dist(tab[b].hash, b) = 0

(* RemoveEntryAt, as the successive contents of the index. *)
RECURSIVE RemoveSteps(_, _)
RemoveSteps(tab, b) ==
    LET next == (b + 1) % Capacity
        moved == [tab EXCEPT ![b] = tab[next]]
    IN IF RunEnds(tab, next) THEN <<[tab EXCEPT ![b] = Empty]>>
       ELSE <<moved>> \o RemoveSteps(moved, next)

LastOf(tab, steps) == IF steps = <<>> THEN tab ELSE steps[Len(steps)]

(* ClearTagsLocked: a bucket is looked at again after each removal, since   *)
(* the shift may have pulled another of the slot's entries into it.         *)
RECURSIVE ClearSteps(_, _, _)
ClearSteps(tab, s, b) ==
    IF b = Capacity THEN <<>>
    ELSE IF tab[b] # Empty /\ tab[b].idx = s
         THEN LET gone == RemoveSteps(tab, b)
              IN gone \o ClearSteps(LastOf(tab, gone), s, b)
         ELSE ClearSteps(tab, s, b + 1)

Entries(tab) == Cardinality({b \in Buckets : tab[b] # Empty})

\* Steps of one index as steps of all three.
InIndex(all, k, steps) == [i \in 1..Len(steps) |-> [all EXCEPT ![k] = steps[i]]]

AddEntry(all, k, key, s) == InIndex(all, k, Insert(all[k], key, s))
DropEntry(all, k, b) == InIndex(all, k, RemoveSteps(all[k], b))
DropTags(all, s) == InIndex(all, "tag", ClearSteps(all.tag, s, 0))

-----------------------------------------------------------------------------
(* Slot locks. *)

CanRead(s) == writer[s] = None
CanWrite(s) == writer[s] = None /\ readers[s] = {}

Set(t, rec) == th' = [th EXCEPT ![t] = rec]

-----------------------------------------------------------------------------
(* Lookup: the optimistic probe. *)

Key(p, kind) == IF kind = "addr" THEN p.addr ELSE p.id

Lookups == ({"addr"} \X Addrs) \cup ({"id"} \X BcpIds) \cup ({"tag"} \X Tags)

\* An attempt of GetPeer or GetPeersByTag begins at its home bucket.
Attempt(kind, key) ==
    IF kind = "tag"
    THEN [pc |-> "tagprobe", kind |-> kind, key |-> key, v |-> version, d |-> 0, pins |-> {}]
    ELSE [pc |-> "probe", kind |-> kind, key |-> key, v |-> version, d |-> 0]

(* GetPeer and GetPeersByTag: the version has to be even to begin. *)
StartLookup(t, kind, key) ==
    /\ th[t] = Idle /\ t \in Readers
    /\ version % 2 = 0
    /\ Set(t, Attempt(kind, key))
    /\ UNCHANGED <<index, version, lock, peer, leases, readers, writer, free,
                   peerCount, tagCount, ops>>

(* One bucket.  The same hash is a candidate; an empty bucket, or one whose *)
(* entry is closer to its home, ends the probe.                             *)
Probe(t) ==
    /\ th[t].pc = "probe"
    /\ LET p == th[t]
           b == Bucket(Hash(p.key), p.d)
           e == index[p.kind][b]
       IN Set(t, IF p.d = Capacity \/ e = Empty THEN [p EXCEPT !.pc = "miss"]
                 ELSE IF e.hash = Hash(p.key)
                      THEN [pc |-> "candidate", kind |-> p.kind, key |-> p.key,
                            v |-> p.v, d |-> p.d, slot |-> e.idx]
                 ELSE IF Dist(e.hash, b) < p.d THEN [p EXCEPT !.pc = "miss"]
                 ELSE [p EXCEPT !.d = @ + 1])
    /\ UNCHANGED <<index, version, lock, peer, leases, readers, writer, free,
                   peerCount, tagCount, ops>>

LockCandidate(t) ==
    /\ th[t].pc = "candidate"
    /\ CanRead(th[t].slot)
    /\ readers' = [readers EXCEPT ![th[t].slot] = @ \cup {t}]
    /\ Set(t, [th[t] EXCEPT !.pc = "verify"])
    /\ UNCHANGED <<index, version, lock, peer, leases, writer, free, peerCount,
                   tagCount, ops>>

Unpin(t, s) == readers' = [readers EXCEPT ![s] = @ \ {t}]

\* A probe that lost a race starts over, or goes to the slow path.
Retry(p) == [pc |-> "retry", kind |-> p.kind, key |-> p.key]

\* mutant of Validated: the version is not looked at again.
ValidatedAlways(p) == TRUE

Validated(p) == version = p.v

\* The key, verified against the Peer under the slot's read lock.
Matches(p) == Key(peer[p.slot], p.kind) = p.key

Holding(p, s) == [pc |-> "held", kind |-> p.kind, key |-> p.key, slot |-> s,
                  lease |-> leases[s]]

Verify(t) ==
    /\ th[t].pc = "verify"
    /\ LET p == th[t]
       IN \/ /\ Matches(p) /\ Validated(p)
             /\ Set(t, Holding(p, p.slot))
             /\ UNCHANGED readers
          \/ /\ Matches(p) /\ ~Validated(p)
             /\ Set(t, Retry(p)) /\ Unpin(t, p.slot)
          \/ /\ ~Matches(p)
             /\ Set(t, [pc |-> "probe", kind |-> p.kind, key |-> p.key, v |-> p.v,
                        d |-> p.d + 1])
             /\ Unpin(t, p.slot)
    /\ UNCHANGED <<index, version, lock, peer, leases, writer, free, peerCount,
                   tagCount, ops>>

(* NotFound is an answer only if nothing moved during the probe. *)
Miss(t) ==
    /\ th[t].pc = "miss"
    /\ Set(t, IF Validated(th[t])
              THEN [pc |-> "notfound", kind |-> th[t].kind, key |-> th[t].key]
              ELSE Retry(th[t]))
    /\ UNCHANGED <<index, version, lock, peer, leases, readers, writer, free,
                   peerCount, tagCount, ops>>

Again(t) ==
    /\ th[t].pc = "retry" /\ version % 2 = 0
    /\ Set(t, Attempt(th[t].kind, th[t].key))
    /\ UNCHANGED <<index, version, lock, peer, leases, readers, writer, free,
                   peerCount, tagCount, ops>>

(* The slow path: the probe under the writer lock, the slot's read lock     *)
(* taken before that lock drops.                                            *)
SlowLock(t) ==
    /\ th[t].pc = "retry" /\ lock = None
    /\ lock' = t
    /\ Set(t, [th[t] EXCEPT !.pc = "slow"])
    /\ UNCHANGED <<index, version, peer, leases, readers, writer, free,
                   peerCount, tagCount, ops>>

SlowLookup(t) ==
    /\ th[t].pc = "slow" /\ th[t].kind # "tag"
    /\ LET p == th[t]
           b == FindPos(index[p.kind], p.key)
           s == index[p.kind][b].idx
       IN \/ /\ b = NPOS
             /\ Set(t, [p EXCEPT !.pc = "notfound"])
             /\ UNCHANGED readers
          \/ /\ b # NPOS /\ CanRead(s)
             /\ readers' = [readers EXCEPT ![s] = @ \cup {t}]
             /\ Set(t, Holding(p, s))
    /\ lock' = None
    /\ UNCHANGED <<index, version, peer, leases, writer, free, peerCount,
                   tagCount, ops>>

Return(t) ==
    /\ th[t].pc = "notfound"
    /\ Set(t, Idle)
    /\ UNCHANGED <<index, version, lock, peer, leases, readers, writer, free,
                   peerCount, tagCount, ops>>

-----------------------------------------------------------------------------
(* PeerHandle: the upgrade drops the read lock before it takes the other. *)

Upgrade(t) ==
    /\ th[t].pc = "held"
    /\ Unpin(t, th[t].slot)
    /\ Set(t, [th[t] EXCEPT !.pc = "upgrade"])
    /\ UNCHANGED <<index, version, lock, peer, leases, writer, free, peerCount,
                   tagCount, ops>>

Write(t) ==
    /\ th[t].pc = "upgrade" /\ CanWrite(th[t].slot)
    /\ writer' = [writer EXCEPT ![th[t].slot] = t]
    /\ Set(t, [th[t] EXCEPT !.pc = "write"])
    /\ UNCHANGED <<index, version, lock, peer, leases, readers, free, peerCount,
                   tagCount, ops>>

Unlock(t) ==
    /\ \/ /\ th[t].pc = "held" /\ Unpin(t, th[t].slot) /\ UNCHANGED writer
       \/ /\ th[t].pc = "write"
          /\ writer' = [writer EXCEPT ![th[t].slot] = None] /\ UNCHANGED readers
       \/ /\ th[t].pc = "tagheld"
          /\ readers' = [s \in Slots |-> readers[s] \ {t}] /\ UNCHANGED writer
    /\ Set(t, Idle)
    /\ UNCHANGED <<index, version, lock, peer, leases, free, peerCount, tagCount, ops>>

-----------------------------------------------------------------------------
(* GetPeersByTag: every holder of the tag is pinned as it is found, and the *)
(* whole walk stands or falls with the version.                             *)

Pinned(p, pins) == [pc |-> "tagheld", key |-> p.key, pins |-> pins,
                    lease |-> [s \in pins |-> leases[s]]]

TagProbe(t) ==
    /\ th[t].pc = "tagprobe"
    /\ LET p == th[t]
           b == Bucket(Hash(p.key), p.d)
           e == index.tag[b]
           over == p.d = Capacity \/ e = Empty
                     \/ (e.key # p.key /\ Dist(e.hash, b) < p.d)
       IN \/ /\ over /\ Validated(p)
             /\ Set(t, Pinned(p, p.pins))
             /\ UNCHANGED readers
          \/ /\ over /\ ~Validated(p)
             /\ Set(t, Retry(p))
             /\ readers' = [s \in Slots |-> readers[s] \ {t}]
          \/ /\ ~over /\ e.key = p.key /\ CanRead(e.idx)
             /\ readers' = [readers EXCEPT ![e.idx] = @ \cup {t}]
             /\ Set(t, [p EXCEPT !.d = @ + 1, !.pins = @ \cup {e.idx}])
          \/ /\ ~over /\ e.key # p.key
             /\ Set(t, [p EXCEPT !.d = @ + 1])
             /\ UNCHANGED readers
    /\ UNCHANGED <<index, version, lock, peer, leases, writer, free, peerCount,
                   tagCount, ops>>

SlowTagLookup(t) ==
    /\ th[t].pc = "slow" /\ th[t].kind = "tag"
    /\ LET pins == {s \in Slots : FindTagPos(index.tag, th[t].key, s) # NPOS}
       IN /\ \A s \in pins : CanRead(s)
          /\ readers' = [s \in Slots |-> IF s \in pins THEN readers[s] \cup {t} ELSE readers[s]]
          /\ Set(t, Pinned(th[t], pins))
    /\ lock' = None
    /\ UNCHANGED <<index, version, peer, leases, writer, free, peerCount, tagCount, ops>>

-----------------------------------------------------------------------------
(* The writer operations.  Each takes the writer lock, tests, raises the    *)
(* version to odd, stores bucket by bucket, and publishes.                  *)

Begin(t, op) ==
    /\ th[t] = Idle /\ t \in Writers /\ lock = None
    /\ ops < MaxOps
    /\ ops' = ops + 1
    /\ lock' = t
    /\ Set(t, [pc |-> "locked", op |-> op])
    /\ UNCHANGED <<index, version, peer, leases, readers, writer, free, peerCount, tagCount>>

\* An early return: nothing happened but the lock.
Refuse(t) ==
    /\ lock' = None
    /\ Set(t, Idle)
    /\ UNCHANGED <<index, version, peer, leases, readers, writer, free, peerCount,
                   tagCount, ops>>

\* The mutation begins: the index will take the values of steps, one by one.
Open(t, steps, then, s) ==
    /\ version' = version + 1
    /\ Set(t, [pc |-> "install", steps |-> steps, then |-> then, slot |-> s])

InstallStep(t) ==
    /\ th[t].pc = "install" /\ th[t].steps # <<>>
    /\ index' = Head(th[t].steps)
    /\ Set(t, [th[t] EXCEPT !.steps = Tail(@)])
    /\ UNCHANGED <<version, lock, peer, leases, readers, writer, free, peerCount,
                   tagCount, ops>>

PublishVersion(v) == v + 1

Publish(t) ==
    /\ th[t].pc = "install" /\ th[t].steps = <<>>
    /\ version' = PublishVersion(version)
    /\ lock' = None
    /\ tagCount' = Entries(index.tag)
    /\ peerCount' = CASE th[t].then = "register" -> peerCount + 1
                      [] th[t].then = "drain" -> peerCount - 1
                      [] OTHER -> peerCount
    /\ writer' = IF th[t].then = "bind" THEN [writer EXCEPT ![th[t].slot] = None]
                                        ELSE writer
    /\ Set(t, IF th[t].then = "drain" THEN [pc |-> "drain", slot |-> th[t].slot]
                                      ELSE Idle)
    /\ UNCHANGED <<index, peer, leases, readers, free, ops>>

\* mutant of Drained: the slot goes back under the handles that hold it.
DrainedAtOnce(s) == writer[s] = None

\* The write lock waits out the handles that still exist.
Drained(s) == CanWrite(s)

(* DrainAndFree. *)
DrainAndFree(t) ==
    /\ th[t].pc = "drain" /\ Drained(th[t].slot)
    /\ free' = free \cup {th[t].slot}
    /\ Set(t, Idle)
    /\ UNCHANGED <<index, version, lock, peer, leases, readers, writer, peerCount,
                   tagCount, ops>>

(* RegisterPeer, with or without an id. *)
RegisterRefused(op) ==
    \/ peerCount >= Cardinality(Slots)
    \/ FindPos(index.addr, op.addr) # NPOS
    \/ op.id # -1 /\ FindPos(index.id, op.id) # NPOS
    \/ free = {}

RegisterPeer(t) ==
    /\ th[t].pc = "locked" /\ th[t].op.name = "register"
    /\ LET op == th[t].op
       IN \/ RegisterRefused(op) /\ Refuse(t)
          \/ /\ ~RegisterRefused(op)
             /\ \E s \in free :
                  /\ CanWrite(s)
                  /\ free' = free \ {s}
                  /\ peer' = [peer EXCEPT ![s] = [addr |-> op.addr, id |-> op.id]]
                  /\ leases' = [leases EXCEPT ![s] = @ + 1]
                  /\ LET one == AddEntry(index, "addr", op.addr, s)
                     IN Open(t, IF op.id = -1 THEN one
                                ELSE one \o AddEntry(LastOf(index, one), "id", op.id, s),
                             "register", s)
             /\ UNCHANGED <<index, lock, readers, writer, peerCount, tagCount, ops>>

\* A live peer is reachable by its own address and maps back to its slot.
MapsBack(s) ==
    LET b == FindPos(index.addr, peer[s].addr)
    IN b # NPOS /\ index.addr[b].idx = s

BindRefused(op) ==
    ~MapsBack(op.slot) \/ peer[op.slot].id # -1 \/ FindPos(index.id, op.id) # NPOS

(* BindId holds the slot's write lock until the id is published. *)
BindId(t) ==
    /\ th[t].pc = "locked" /\ th[t].op.name = "bindid"
    /\ LET op == th[t].op
       IN /\ CanWrite(op.slot)
          /\ \/ BindRefused(op) /\ Refuse(t)
             \/ /\ ~BindRefused(op)
                /\ writer' = [writer EXCEPT ![op.slot] = t]
                /\ peer' = [peer EXCEPT ![op.slot].id = op.id]
                /\ Open(t, AddEntry(index, "id", op.id, op.slot), "bind", op.slot)
                /\ UNCHANGED <<index, lock, leases, readers, free, peerCount, tagCount, ops>>

RemoveFrom(all, s, a) ==
    LET one == DropEntry(all, "addr", a)
        two == IF peer[s].id = -1 THEN <<>>
               ELSE DropEntry(LastOf(all, one), "id", FindPos(all.id, peer[s].id))
        both == one \o two
    IN both \o DropTags(LastOf(all, both), s)

(* RemovePeer, by address or by id: the entries and the tags go in one      *)
(* version, then the slot is drained.                                       *)
RemovePeer(t) ==
    /\ th[t].pc = "locked" /\ th[t].op.name = "remove"
    /\ LET op == th[t].op
           b == FindPos(index[op.kind], op.key)
           s == index[op.kind][b].idx
       IN \/ b = NPOS /\ Refuse(t)
          \/ /\ b # NPOS /\ CanRead(s)
             /\ Open(t, RemoveFrom(index, s, FindPos(index.addr, peer[s].addr)), "drain", s)
             /\ UNCHANGED <<index, lock, peer, leases, readers, writer, free,
                            peerCount, tagCount, ops>>

(* UpdateAddress never displaces a peer.  The Peer's address is rewritten   *)
(* under its write lock, before the version is raised.                      *)
MoveRefused(op) ==
    \/ ~MapsBack(op.slot)
    \/ peer[op.slot].addr = op.addr
    \/ FindPos(index.addr, op.addr) # NPOS

UpdateAddress(t) ==
    /\ th[t].pc = "locked" /\ th[t].op.name = "move"
    /\ LET op == th[t].op
       IN /\ CanRead(op.slot)
          /\ \/ MoveRefused(op) /\ Refuse(t)
             \/ /\ ~MoveRefused(op)
                /\ Set(t, [pc |-> "readdress", op |-> op, was |-> peer[op.slot].addr])
                /\ UNCHANGED <<index, version, lock, peer, leases, readers, writer,
                               free, peerCount, tagCount, ops>>

Readdress(t) ==
    /\ th[t].pc = "readdress" /\ CanWrite(th[t].op.slot)
    /\ LET op == th[t].op
       IN peer' = [peer EXCEPT ![op.slot].addr = op.addr]
    /\ Set(t, [th[t] EXCEPT !.pc = "swap"])
    /\ UNCHANGED <<index, version, lock, leases, readers, writer, free, peerCount,
                   tagCount, ops>>

SwapAddress(t) ==
    /\ th[t].pc = "swap"
    /\ LET op == th[t].op
           one == DropEntry(index, "addr", FindPos(index.addr, th[t].was))
       IN Open(t, one \o AddEntry(LastOf(index, one), "addr", op.addr, op.slot), "move", op.slot)
    /\ UNCHANGED <<index, lock, peer, leases, readers, writer, free, peerCount,
                   tagCount, ops>>

TagsFull(n) == n >= TagCapacity

(* BindTag, UnbindTag and UnbindTags. *)
BindTag(t) ==
    /\ th[t].pc = "locked" /\ th[t].op.name = "bindtag"
    /\ LET op == th[t].op
           refused == TagsFull(tagCount) \/ ~MapsBack(op.slot)
       IN /\ TagsFull(tagCount) \/ CanRead(op.slot)
          /\ \/ refused /\ Refuse(t)
             \/ /\ ~refused
                /\ Open(t, AddEntry(index, "tag", op.tag, op.slot), "tag", op.slot)
                /\ UNCHANGED <<index, lock, peer, leases, readers, writer, free,
                               peerCount, tagCount, ops>>

UnbindTag(t) ==
    /\ th[t].pc = "locked" /\ th[t].op.name = "unbindtag"
    /\ LET op == th[t].op
           b == FindTagPos(index.tag, op.tag, op.slot)
       IN \/ b = NPOS /\ Refuse(t)
          \/ /\ b # NPOS
             /\ Open(t, DropEntry(index, "tag", b), "tag", op.slot)
             /\ UNCHANGED <<index, lock, peer, leases, readers, writer, free,
                            peerCount, tagCount, ops>>

UnbindTags(t) ==
    /\ th[t].pc = "locked" /\ th[t].op.name = "unbindtags"
    /\ Open(t, DropTags(index, th[t].op.slot), "tag", th[t].op.slot)
    /\ UNCHANGED <<index, lock, peer, leases, readers, writer, free, peerCount,
                   tagCount, ops>>

-----------------------------------------------------------------------------
(* The operations a caller may ask for.  A slot number comes from an        *)
(* earlier handle and may be stale.                                         *)
Asked ==
    {op \in
       [name : {"register"}, addr : Addrs, id : BcpIds \cup {-1}]
         \cup [name : {"bindid"}, slot : Slots, id : BcpIds]
         \cup [name : {"remove"}, kind : {"addr"}, key : Addrs]
         \cup [name : {"remove"}, kind : {"id"}, key : BcpIds]
         \cup [name : {"move"}, slot : Slots, addr : Addrs]
         \cup [name : {"bindtag", "unbindtag"}, slot : Slots, tag : Tags]
         \cup [name : {"unbindtags"}, slot : Slots] : op.name \in Ops}

Next == \E t \in Threads :
    \/ \E l \in Lookups : StartLookup(t, l[1], l[2])
    \/ Probe(t) \/ LockCandidate(t) \/ Verify(t) \/ Miss(t) \/ Again(t)
    \/ SlowLock(t) \/ SlowLookup(t) \/ SlowTagLookup(t) \/ Return(t)
    \/ TagProbe(t)
    \/ Upgrade(t) \/ Write(t) \/ Unlock(t)
    \/ \E op \in Asked : Begin(t, op)
    \/ RegisterPeer(t) \/ BindId(t) \/ RemovePeer(t)
    \/ UpdateAddress(t) \/ Readdress(t) \/ SwapAddress(t)
    \/ BindTag(t) \/ UnbindTag(t) \/ UnbindTags(t)
    \/ InstallStep(t) \/ Publish(t) \/ DrainAndFree(t)

Spec == Init /\ [][Next]_vars

\* No operation tells one slot from another.
SlotSymmetry == Permutations(Slots)

-----------------------------------------------------------------------------
(* Properties. *)

\* The slots whose peer the address index leads to.
Live == {s \in Slots : MapsBack(s)}

(* The indexes, the peers, the locks and the two counts keep their ranges:  *)
(* RegisterPeer and BindTag stop at their limits.                           *)
TypeOK ==
    /\ index \in [Kinds -> [Buckets -> {Empty} \cup
                   [hash : 0..(HashRange - 1), key : Addrs \cup BcpIds \cup Tags, idx : Slots]]]
    /\ version \in Nat /\ lock \in Threads \cup {None}
    /\ peer \in [Slots -> [addr : Addrs \cup {-1}, id : BcpIds \cup {-1}]]
    /\ readers \in [Slots -> SUBSET Threads] /\ writer \in [Slots -> Threads \cup {None}]
    /\ free \subseteq Slots /\ peerCount \in 0..Cardinality(Slots)
    /\ tagCount \in 0..TagCapacity

(* Between mutations the three indexes agree with the peers: every entry is *)
(* reachable by its own probe, an address or id entry carries the key of    *)
(* the peer in the slot it names, a tag entry names a live peer, a live     *)
(* peer's id is found, and the counts are the entries.  InsertEntry,        *)
(* RemoveEntryAt and ClearTagsLocked keep the probe order through every     *)
(* displacement and shift.                                                  *)
IndexExact ==
    lock = None =>
      /\ \A k \in Kinds, b \in Buckets :
           LET e == index[k][b]
           IN e # Empty =>
                /\ IF k = "tag" THEN FindTagPos(index.tag, e.key, e.idx) # NPOS
                   ELSE FindPos(index[k], e.key) = b /\ Key(peer[e.idx], k) = e.key
                /\ e.idx \in Live \ free
      /\ \A s \in Live : peer[s].id # -1 => FindPos(index.id, peer[s].id) # NPOS
      /\ peerCount = Entries(index.addr) /\ tagCount = Entries(index.tag)
      /\ peerCount = Cardinality(Live)

(* A handle GetPeer returned owns its slot for as long as the read lock is  *)
(* held: the slot is leased, to the tenant that was looked up, and still    *)
(* under the key asked for.                                                 *)
HandleKeepsPeer ==
    \A t \in Threads : th[t].pc = "held" =>
        LET h == th[t]
        IN /\ h.slot \notin free /\ leases[h.slot] = h.lease
           /\ Key(peer[h.slot], h.kind) = h.key

(* The handles of GetPeersByTag stand for leased slots, with the tenant the *)
(* validated probe saw.                                                     *)
TagHandlesKeepPeers ==
    \A t \in Threads : th[t].pc = "tagheld" =>
        \A s \in th[t].pins : s \notin free /\ leases[s] = th[t].lease[s]

(* NotFound is never the answer for a peer that was in the table under that *)
(* key from before the probe to its end.  At the moment of the answer       *)
(* either the index has no entry for the key or the peer in that slot has   *)
(* just been given another address.                                         *)
MissIsReal ==
    \A t \in Threads :
      th[t].pc # "notfound" /\ th'[t].pc = "notfound" =>
        LET k == th'[t].kind
            b == FindPos(index[k], th'[t].key)
        IN version % 2 = 0 =>
             (b = NPOS \/ Key(peer[index[k][b].idx], k) # th'[t].key)

(* GetPeersByTag leaves out no holder of the tag: when the probe is         *)
(* validated every slot bound to the tag is among the handles.              *)
TagHoldersComplete ==
    \A t \in Threads :
      th[t].pc # "tagheld" /\ th'[t].pc = "tagheld" =>
        {s \in Slots : FindTagPos(index.tag, th'[t].key, s) # NPOS} = th'[t].pins

(* PeerHandle promises that a peer is never freed under a live handle.      *)
(* Write() on a read handle drops one lock before it takes the other.       *)
NeverFreedUnderHandle ==
    \A t \in Threads : th[t].pc \in {"held", "write"} =>
        th[t].slot \notin free /\ leases[th[t].slot] = th[t].lease

\* The state of the table, and the agreement of its indexes between mutations
\* (InsertEntry, RemoveEntryAt).
IndexInv == TypeOK /\ IndexExact

\* No handle, by key or by tag, outlives the tenancy it was given for
\* (GetPeer, GetPeersByTag, DrainAndFree).
HandlesKeepPeers == HandleKeepsPeer /\ TagHandlesKeepPeers

\* No lookup, by key or by tag, misses a peer that is there (the version check
\* of the optimistic probe).
NoPeerMissed == [][MissIsReal /\ TagHoldersComplete]_vars
=============================================================================
