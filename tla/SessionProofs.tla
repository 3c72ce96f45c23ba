--------------------------- MODULE SessionProofs ----------------------------
(***************************************************************************)
(* Proofs for Session, for any two sockets, any bounds and any grants.     *)
(* Every action is a step of one of five shapes, which say all that the    *)
(* invariants ask of it: an entry is cleared, an attempt moves on, a key   *)
(* is installed, a session carries traffic, or a challenge is answered.    *)
(* Each part of the invariant is preserved by the shapes, and the          *)
(* invariant gives the properties.                                         *)
(***************************************************************************)
EXTENDS Session, TLAPS

USE SMTT(15), ZenonT(20)

(* Two sockets: each has exactly one other. *)
LEMMA OtherNode ==
    ASSUME NEW n \in Nodes
    PROVE  /\ Other(n) \in Nodes /\ Other(n) # n
           /\ \A m \in Nodes : m = n \/ m = Other(n)
  <1>1. PICK a \in Nodes, b \in Nodes : a # b /\ Nodes = {a, b}
    BY SessionAssumption
  <1>2. \E m \in Nodes : m # n
    BY <1>1
  <1>3. Other(n) \in Nodes /\ Other(n) # n
    BY <1>2 DEF Other
  <1> QED
    BY <1>1, <1>3

(* Every datagram has a type and a sender. *)
LEMMA SentTypes ==
    ASSUME TypeOK, NEW m \in net
    PROVE  /\ m.from \in Nodes
           /\ m.type \in {"finish", "data", "grant", "grantack"} => m.key \in Key
           /\ m.type = "res" => m.eph \in Nat /\ m.pk \in Nat
           /\ m.type = "finish" => m.pk \in Nat
           /\ m.type = "challenge" => m.cookie \in Nat
           /\ m.type \in {"data", "grant", "grantack"} => m.counter \in Nat
           /\ m.type = "grant" => m.body \in [value : Nat, gen : Nat]
           /\ m.type = "grantack" => m.body \in Nat
  BY DEF TypeOK, Plain, UnderKey

-----------------------------------------------------------------------------
(* The shapes of a step of node n. *)

(* Only n's entry, keys and accepted packets change, and what is new in the *)
(* network comes from n.                                                    *)
Frame(n) ==
    /\ ent' \in [Nodes -> Entry] /\ used' \in [Nodes -> SUBSET Key]
    /\ \A o \in Nodes \ {n} :
         ent'[o] = ent[o] /\ used'[o] = used[o] /\ accepted'[o] = accepted[o]
    /\ net \subseteq net' /\ \A m \in net' \ net : m.from = n
    /\ ephs' \in Nat /\ ephs <= ephs'

Cleared(n) ==
    Frame(n) /\ ent'[n] = NoEntry /\ UNCHANGED <<net, ephs, used, accepted>>

Attempt(n) ==
    /\ Frame(n)
    /\ ~Established(n) /\ ent'[n].st \in {"challenge", "finish"}
    /\ \/ ent'[n].eph = 0
       \/ Handshaking(n) /\ ent'[n].eph = ent[n].eph /\ ephs' = ephs
       \/ ent'[n].eph = ephs + 1 /\ ephs' = ephs + 1
    /\ \/ ent'[n].seen = {}
       \/ ent'[n].seen = ent[n].seen /\ ent'[n].key = ent[n].key
    /\ ~ent'[n].confirmed /\ ent'[n].theirGen = 0
    /\ ent'[n].gen > 0 => ent'[n].grantPending
    /\ \A m \in net' \ net : m.type \in {"init", "res"} /\ (m.type = "res" => m.eph <= ephs')
    /\ UNCHANGED <<used, accepted>>

Install(n, key) ==
    /\ Frame(n)
    /\ key \in Key /\ key.i < key.r /\ key.r <= ephs'
    /\ key \notin used[n] /\ \A k \in used[n] : k.r < key.r
    /\ ent'[n].st = "established" /\ ent'[n].key = key /\ ent'[n].eph <= ephs'
    /\ ent'[n].seen = {} /\ ~ent'[n].confirmed /\ ent'[n].theirGen = 0
    /\ ent'[n].gen > 0 => ent'[n].grantPending
    /\ \A m \in net' \ net : m.type \in {"finish", "data"} /\ m.key = key
    /\ used'[n] = used[n] \cup {key} /\ UNCHANGED accepted

(* What traffic under a session does to grants. *)
GrantStep(n) ==
    LET e == ent[n]
        f == ent'[n]
        o == Other(n)
    IN /\ \/ f.gen = e.gen /\ f.grant = e.grant
          \/ f.gen > e.gen /\ f.grantPending /\ net' = net
       /\ \/ f.theirGen = e.theirGen /\ f.theirGrant = e.theirGrant
          \/ /\ f.theirGen > e.theirGen
             /\ \E m \in net : /\ m.type = "grant" /\ m.from = o /\ m.key = e.key
                               /\ m.body = [value |-> f.theirGrant, gen |-> f.theirGen]
       /\ f.confirmed \/ (f.theirGen = e.theirGen /\ (e.grantPending => f.grantPending))
       /\ \/ f.grantPending \/ (~e.grantPending /\ f.gen = e.gen)
          \/ f.gen = e.gen /\ \E m \in net : /\ m.type = "grantack" /\ m.from = o
                                             /\ m.key = e.key /\ m.body = f.gen
       /\ \A m \in net' \ net :
            /\ m.type = "grant" => m.body.gen = f.gen /\ m.body.value = f.grant
            /\ m.type = "grantack" => m.body <= f.theirGen

Traffic(n) ==
    /\ Frame(n)
    /\ Established(n) /\ ent'[n].st = "established"
    /\ ent'[n].key = ent[n].key /\ ent'[n].eph = ent[n].eph
    /\ ent[n].counter <= ent'[n].counter
    /\ ent[n].seen \subseteq ent'[n].seen
    /\ ent[n].confirmed => ent'[n].confirmed
    /\ ent'[n].confirmed => ent[n].confirmed \/ ent[n].key \in used[Other(n)]
    /\ \A p \in accepted'[n] :
         p \in accepted[n] \/ (p[1] = ent[n].key /\ p[2] \in ent'[n].seen)
    /\ \A m \in net' \ net :
         m.type \in {"finish", "data", "grant", "grantack"} /\ m.key = ent[n].key
    /\ GrantStep(n)
    /\ UNCHANGED <<ephs, used>>

Answered(n) ==
    /\ net \subseteq net' /\ \A m \in net' \ net : m.type = "challenge"
    /\ UNCHANGED <<ent, ephs, used, accepted>>

Shaped(n) ==
    Cleared(n) \/ Attempt(n) \/ (\E key : Install(n, key)) \/ Traffic(n) \/ Answered(n)

-----------------------------------------------------------------------------
(* What the operations on an entry return. *)

SameGrants(e, f) ==
    /\ f.gen = e.gen /\ f.grantPending = e.grantPending /\ f.grant = e.grant
    /\ f.theirGen = e.theirGen /\ f.theirGrant = e.theirGrant

SameSession(e, f) ==
    /\ f.st = e.st /\ f.key = e.key /\ f.eph = e.eph /\ f.seen = e.seen
    /\ f.confirmed = e.confirmed /\ SameGrants(e, f)

LEMMA EmptyEntries ==
    /\ NoEntry \in Entry /\ Registered \in Entry
    /\ Registered.st = "challenge" /\ Registered.eph = 0 /\ Registered.seen = {}
    /\ ~Registered.confirmed /\ Registered.theirGen = 0 /\ Registered.gen = 0
    /\ Registered.attempts = 0 /\ Registered.parked = 0
  <1>1. 0 \in 0..MaxAttempts /\ 0 \in 0..MaxPending /\ NoKey \in Key /\ {} \in SUBSET Nat
    BY SessionAssumption DEF NoKey, Key
  <1>2. NoEntry \in Entry
    BY <1>1 DEF NoEntry, Entry
  <1>3. Registered \in Entry
    BY Zenon, <1>2, SessionAssumption DEF Registered, Entry
  <1>4. /\ Registered.st = "challenge" /\ Registered.eph = 0 /\ Registered.seen = {}
        /\ Registered.theirGen = 0 /\ Registered.gen = 0
        /\ Registered.attempts = 0 /\ Registered.parked = 0
    BY DEF Registered, NoEntry
  <1>5. ~Registered.confirmed
    BY DEF Registered, NoEntry
  <1> QED
    BY <1>2, <1>3, <1>4, <1>5

LEMMA SpendKeeps ==
    ASSUME NEW e \in Entry, NEW k \in Nat
    PROVE  /\ Spend(e, k) \in Entry /\ SameSession(e, Spend(e, k))
           /\ Spend(e, k).parked = e.parked /\ e.counter <= Spend(e, k).counter
  <1>1. e.counter \in Nat /\ e.counter + k \in Nat /\ e.counter <= e.counter + k
    BY DEF Entry
  <1>2. Spend(e, k) \in Entry
    BY <1>1 DEF Entry, Spend
  <1>3. Spend(e, k).counter = e.counter + k /\ Spend(e, k).parked = e.parked
    BY DEF Entry, Spend
  <1>4. SameSession(e, Spend(e, k))
    BY DEF Entry, Spend, SameSession, SameGrants
  <1> QED
    BY <1>1, <1>2, <1>3, <1>4

LEMMA FlushedKeeps ==
    ASSUME NEW e \in Entry
    PROVE  /\ Flushed(e) \in Entry /\ SameSession(e, Flushed(e))
           /\ Flushed(e).parked = 0 /\ e.counter <= Flushed(e).counter
  <1>1. e.parked \in Nat
    BY SessionAssumption DEF Entry
  <1>2. PICK s \in Entry : s = Spend(e, e.parked) /\ SameSession(e, s) /\ e.counter <= s.counter
    BY <1>1, SpendKeeps
  <1>3. Flushed(e) = [s EXCEPT !.parked = 0]
    BY <1>2 DEF Flushed
  <1> QED
    BY <1>2, <1>3, SessionAssumption DEF Entry, SameSession, SameGrants

LEMMA CommitSets ==
    ASSUME NEW e \in Entry, NEW id \in Nat, NEW key \in Key
    PROVE  LET c == CommitSession(e, id, key)
           IN /\ c \in Entry /\ c.st = "established" /\ c.key = key /\ c.seen = {}
              /\ c.eph = e.eph /\ c.confirmed = e.confirmed /\ c.theirGen = e.theirGen
              /\ c.grantPending \/ (c.gen = e.gen /\ c.grantPending = e.grantPending)
  <1> DEFINE keyed == [e EXCEPT !.st = "established", !.id = id, !.key = key, !.counter = 0,
                                !.seen = {}]
  <1>1. /\ keyed \in Entry /\ keyed.st = "established" /\ keyed.key = key /\ keyed.seen = {}
        /\ keyed.eph = e.eph /\ keyed.confirmed = e.confirmed /\ keyed.theirGen = e.theirGen
        /\ keyed.gen = e.gen /\ keyed.grantPending = e.grantPending
    BY Zenon DEF Entry
  <1>2. CommitSession(e, id, key) =
          IF RecvGrant = 0 THEN keyed ELSE [keyed EXCEPT !.gen = @ + 1, !.grantPending = TRUE]
    BY DEF CommitSession
  <1> HIDE DEF keyed
  <1>3. CASE RecvGrant = 0
    BY <1>1, <1>2, <1>3
  <1>4. CASE RecvGrant # 0
    <2> DEFINE c == [keyed EXCEPT !.gen = @ + 1, !.grantPending = TRUE]
    <2>0. keyed.gen + 1 \in Nat
      BY <1>1 DEF Entry
    <2>1. c \in Entry
      BY <1>1, <2>0, Zenon DEF Entry
    <2>2. /\ c.st = keyed.st /\ c.key = keyed.key /\ c.seen = keyed.seen /\ c.eph = keyed.eph
          /\ c.confirmed = keyed.confirmed /\ c.theirGen = keyed.theirGen /\ c.grantPending
      BY <1>1 DEF Entry
    <2> QED
      BY <1>1, <1>2, <1>4, <2>1, <2>2
  <1> QED
    BY <1>3, <1>4

LEMMA ParkedTypes ==
    ASSUME NEW n \in Nodes, NEW e \in Entry
    PROVE  /\ Parked(n, e) \subseteq UnderKey
           /\ \A m \in Parked(n, e) : m.type = "data" /\ m.from = n /\ m.key = e.key
  <1> SUFFICES ASSUME NEW k \in 1..e.parked
               PROVE  LET m == Sealed(n, e, k, "data", 0)
                      IN m \in UnderKey /\ m.type = "data" /\ m.from = n /\ m.key = e.key
    BY DEF Parked
  <1> QED
    BY DEF Sealed, UnderKey, Entry

-----------------------------------------------------------------------------
(* Every action has a shape. *)

(* A step that gives n the entry f. *)
Moves(n, f) ==
    /\ f \in Entry /\ (f.st = "established" => f.parked = 0)
    /\ ent' = [ent EXCEPT ![n] = f]
    /\ net \subseteq net' /\ \A m \in net' \ net : m \in Plain \cup UnderKey /\ m.from = n
    /\ left' \in Budget /\ ephs' \in Nat /\ ephs <= ephs' /\ ephs' <= left'.ephs
    /\ pk' \in [Nodes -> Nat] /\ boot' \in [Nodes -> Nat]
    /\ used' \in [Nodes -> SUBSET Key] /\ accepted' \in [Nodes -> SUBSET (Key \X Nat)]
    /\ \A o \in Nodes \ {n} : used'[o] = used[o] /\ accepted'[o] = accepted[o]

LEMMA Moved ==
    ASSUME TypeOK, NEW n \in Nodes, NEW f, Moves(n, f)
    PROVE  TypeOK' /\ Frame(n) /\ ent'[n] = f
  <1>1. /\ ent' \in [Nodes -> Entry] /\ ent'[n] = f
        /\ \A o \in Nodes \ {n} : ent'[o] = ent[o]
    BY DEF TypeOK, Moves
  <1>2. Frame(n)
    BY <1>1 DEF Moves, Frame
  <1>3. net' \subseteq Plain \cup UnderKey
    BY DEF TypeOK, Moves
  <1>4. ephs' \in 0..left'.ephs
    BY DEF Moves, Budget
  <1>5. \A x \in Nodes : ent'[x].st = "established" => ent'[x].parked = 0
    BY <1>1 DEF TypeOK, Moves, Established
  <1>6. TypeOK'
    BY <1>1, <1>3, <1>4, <1>5, Zenon DEF TypeOK, Moves, Established
  <1> QED
    BY <1>1, <1>2, <1>6

LEMMA ClearShape ==
    ASSUME TypeOK, NEW n \in Nodes, ent' = [ent EXCEPT ![n] = NoEntry],
           UNCHANGED <<net, ephs, used, accepted>>,
           left' \in Budget, left'.ephs = left.ephs,
           pk' \in [Nodes -> Nat], boot' \in [Nodes -> Nat]
    PROVE  TypeOK' /\ Shaped(n)
  <1>1. NoEntry.st # "established"
    BY DEF NoEntry
  <1>2. ephs' \in Nat /\ ephs <= ephs' /\ ephs' <= left'.ephs
    BY DEF TypeOK, Budget
  <1>3. Moves(n, NoEntry)
    BY <1>1, <1>2, EmptyEntries, Zenon DEF TypeOK, Moves
  <1> QED
    BY <1>3, Moved DEF Shaped, Cleared

LEMMA ClearActions ==
    ASSUME TypeOK, NEW n \in Nodes,
           \/ RemovePeer(n)
           \/ \E rank \in FreshPks \cup {pk[n]} : Restart(n, rank)
    PROVE  TypeOK' /\ Shaped(n)
  <1>1. CASE RemovePeer(n)
    <2>1. left' \in Budget /\ left'.ephs = left.ephs
      BY <1>1 DEF TypeOK, RemovePeer, Budget
    <2> QED
      BY Zenon, <1>1, <2>1, ClearShape DEF RemovePeer, TypeOK
  <1>2. ASSUME NEW rank \in FreshPks \cup {pk[n]}, Restart(n, rank)
        PROVE  TypeOK' /\ Shaped(n)
    <2>1. left' \in Budget /\ left'.ephs = left.ephs
      BY <1>2 DEF TypeOK, Restart, Budget
    <2>2. rank \in Nat
      BY SessionAssumption DEF TypeOK
    <2>3. pk' \in [Nodes -> Nat] /\ boot' \in [Nodes -> Nat]
      BY <1>2, <2>2 DEF Restart, TypeOK
    <2> QED
      BY Zenon, <1>2, <2>1, <2>3, ClearShape DEF Restart
  <1> QED
    BY <1>1, <1>2

(* Only a handshake in flight, or no entry at all, makes an attempt. *)
LEMMA AttemptShape ==
    ASSUME SessionInv, NEW n \in Nodes, NEW f, Moves(n, f), ~Established(n),
           f.st \in {"challenge", "finish"},
           \/ f.eph = 0
           \/ Handshaking(n) /\ f.eph = ent[n].eph /\ ephs' = ephs
           \/ f.eph = ephs + 1 /\ ephs' = ephs + 1,
           f.seen = {} \/ (f.seen = ent[n].seen /\ f.key = ent[n].key),
           f.confirmed = ent[n].confirmed \/ ~f.confirmed,
           f.theirGen = ent[n].theirGen \/ f.theirGen = 0,
           (f.gen = ent[n].gen /\ f.grantPending = ent[n].grantPending)
             \/ f.gen = 0 \/ f.grantPending,
           \A m \in net' \ net : m.type \in {"init", "res"} /\ (m.type = "res" => m.eph <= ephs'),
           UNCHANGED <<used, accepted>>
    PROVE  TypeOK' /\ Shaped(n)
  <1>0. TypeOK
    BY DEF SessionInv
  <1>1. TypeOK' /\ Frame(n) /\ ent'[n] = f
    BY <1>0, Moved
  <1>2. ~ent[n].confirmed
    BY DEF SessionInv, WindowRemembers
  <1>3. ent[n].theirGen = 0 /\ (ent[n].gen > 0 => ent[n].grantPending)
    BY Zenon, <1>2 DEF SessionInv, GrantTrail
  <1>4. ~f.confirmed /\ f.theirGen = 0 /\ (f.gen > 0 => f.grantPending)
    BY <1>2, <1>3
  <1>5. Attempt(n)
    BY <1>1, <1>4 DEF Attempt
  <1> QED
    BY <1>1, <1>5 DEF Shaped

(* A step that changes an entry and sends, and draws nothing. *)
LEMMA SendsMoves ==
    ASSUME TypeOK, NEW n \in Nodes, NEW f \in Entry, f.st = "established" => f.parked = 0,
           ent' = [ent EXCEPT ![n] = f],
           net \subseteq net', \A m \in net' \ net : m \in Plain \cup UnderKey /\ m.from = n,
           left' \in Budget, left'.ephs = left.ephs,
           UNCHANGED <<pk, boot, ephs, used>>,
           accepted' \in [Nodes -> SUBSET (Key \X Nat)],
           \A o \in Nodes \ {n} : accepted'[o] = accepted[o]
    PROVE  Moves(n, f)
  <1>1. ephs' \in Nat /\ ephs <= ephs' /\ ephs' <= left'.ephs
    BY DEF TypeOK, Budget
  <1> QED
    BY <1>1, Zenon DEF TypeOK, Moves

LEMMA ConnectShape ==
    ASSUME SessionInv, NEW n \in Nodes, NEW k \in {0, 1}, Connect(n, k)
    PROVE  TypeOK' /\ Shaped(n)
  <1> DEFINE f == [Registered EXCEPT !.attempts = 1, !.parked = k]
  <1>0. TypeOK
    BY DEF SessionInv
  <1>1. 1 \in 0..MaxAttempts /\ k \in 0..MaxPending
    BY SessionAssumption DEF Connect
  <1>2. f \in Entry
    BY Zenon, <1>1, EmptyEntries DEF Entry
  <1>3. /\ f.st = "challenge" /\ f.eph = 0 /\ f.seen = {}
        /\ ~f.confirmed /\ f.theirGen = 0 /\ f.gen = 0
    BY EmptyEntries DEF Entry
  <1>4. HsInit(n) \in Plain /\ HsInit(n).from = n /\ HsInit(n).type = "init"
    BY DEF HsInit, Plain
  <1> HIDE DEF f
  <1>5. /\ ent' = [ent EXCEPT ![n] = f] /\ net' = net \cup {HsInit(n)}
        /\ UNCHANGED <<pk, boot, ephs, left, used, accepted>> /\ ~Established(n)
    BY DEF Connect, Established, f
  <1>6. left' \in Budget /\ left'.ephs = left.ephs
        /\ accepted' \in [Nodes -> SUBSET (Key \X Nat)]
    BY <1>0, <1>5 DEF TypeOK
  <1>7. /\ net \subseteq net' /\ \A m \in net' \ net : m = HsInit(n)
        /\ f.st = "established" => f.parked = 0
    BY <1>3, <1>5
  <1>8. Moves(n, f)
    BY Zenon, <1>0, <1>2, <1>4, <1>5, <1>6, <1>7, SendsMoves
  <1> QED
    BY <1>3, <1>4, <1>5, <1>7, <1>8, AttemptShape

LEMMA RetryShape ==
    ASSUME SessionInv, NEW n \in Nodes, RetryHandshakes(n)
    PROVE  TypeOK' /\ Shaped(n)
  <1>0. /\ TypeOK /\ ent[n] \in Entry /\ ent[n].attempts \in Nat
        /\ Handshaking(n) /\ ~Established(n)
        /\ UNCHANGED <<pk, boot, ephs, used, accepted>>
    BY SessionAssumption DEF SessionInv, TypeOK, RetryHandshakes, Handshaking, Established, Entry
  <1>1. left' \in Budget /\ left'.ephs = left.ephs
    BY <1>0 DEF TypeOK, RetryHandshakes, Budget
  <1>2. CASE ent[n].attempts >= MaxAttempts
    BY <1>0, <1>1, <1>2, ClearShape DEF RetryHandshakes, TypeOK
  <1>3. CASE ~(ent[n].attempts >= MaxAttempts)
    <2> DEFINE f == [ent[n] EXCEPT !.st = "challenge", !.attempts = ent[n].attempts + 1]
    <2>1. ent[n].attempts + 1 \in 0..MaxAttempts
      BY <1>0, <1>3, SessionAssumption
    <2>2. f \in Entry
      BY Zenon, <1>0, <2>1 DEF Entry
    <2>3. f.st = "challenge" /\ SameGrants(ent[n], f)
          /\ f.eph = ent[n].eph /\ f.seen = ent[n].seen /\ f.key = ent[n].key
          /\ f.confirmed = ent[n].confirmed
      BY <1>0 DEF Entry, SameGrants
    <2>4. HsInit(n) \in Plain /\ HsInit(n).from = n /\ HsInit(n).type = "init"
      BY DEF HsInit, Plain
    <2>5. ent' = [ent EXCEPT ![n] = f] /\ net' = net \cup {HsInit(n)}
      BY Zenon, <1>0, <1>3 DEF RetryHandshakes, TypeOK
    <2> HIDE DEF f
    <2>6. /\ net \subseteq net' /\ \A m \in net' \ net : m = HsInit(n)
          /\ f.st = "established" => f.parked = 0
          /\ accepted' \in [Nodes -> SUBSET (Key \X Nat)]
      BY <1>0, <2>3, <2>5 DEF TypeOK
    <2>7. Moves(n, f)
      BY Zenon, <1>0, <1>1, <2>2, <2>4, <2>5, <2>6, SendsMoves
    <2> QED
      BY <1>0, <2>3, <2>4, <2>6, <2>7, AttemptShape DEF SameGrants
  <1> QED
    BY <1>2, <1>3

LEMMA RespondShape ==
    ASSUME SessionInv, NEW n \in Nodes, NEW m \in Inbox(n), Respond(n, m)
    PROVE  TypeOK' /\ Shaped(n)
  <1> DEFINE f == [ent[n] EXCEPT !.st = "finish", !.eph = ephs + 1]
             r == [type |-> "res", from |-> n, cookie |-> m.cookie, pk |-> pk[n],
                   eph |-> ephs + 1]
  <1>0. /\ TypeOK /\ ent[n] \in Entry /\ ephs \in Nat /\ left \in Budget /\ left.ephs \in Nat
        /\ ephs < left.ephs /\ ~Established(n)
        /\ UNCHANGED <<pk, boot, left, used, accepted>> /\ ephs' = ephs + 1
    BY DEF SessionInv, TypeOK, Respond, Established, Budget
  <1>1. f \in Entry
    <2>1. ephs + 1 \in Nat
      BY <1>0
    <2> QED
      BY <1>0, <2>1, Zenon DEF Entry
  <1>2. f.st = "finish" /\ SameGrants(ent[n], f) /\ f.eph = ephs + 1
        /\ f.seen = ent[n].seen /\ f.key = ent[n].key /\ f.confirmed = ent[n].confirmed
    BY <1>0 DEF Entry, SameGrants
  <1>3. m.cookie \in Nat /\ pk[n] \in Nat
    BY <1>0, SentTypes DEF Respond, Inbox, TypeOK
  <1>4. r \in Plain /\ r.from = n /\ r.type = "res" /\ r.eph = ephs + 1
    BY <1>0, <1>3 DEF Plain
  <1>5. ent' = [ent EXCEPT ![n] = f] /\ net' = net \cup {r}
    BY Zenon, <1>0 DEF Respond, TypeOK
  <1> HIDE DEF f, r
  <1>6. Moves(n, f)
    <2>1. ephs' \in Nat /\ ephs <= ephs' /\ ephs' <= left'.ephs
      BY <1>0
    <2> QED
      BY <1>0, <1>1, <1>2, <1>4, <1>5, <2>1 DEF Moves, TypeOK
  <1>7. \A x \in net' \ net : x.type = "res" /\ x.eph <= ephs'
    BY <1>0, <1>4, <1>5
  <1> QED
    BY <1>0, <1>2, <1>6, <1>7, AttemptShape DEF SameGrants

(* Packets sealed under the session change nothing of it but the counter. *)
LEMMA QuietShape ==
    ASSUME SessionInv, NEW n \in Nodes, NEW f, Moves(n, f), Established(n),
           SameSession(ent[n], f), ent[n].counter <= f.counter,
           UNCHANGED <<ephs, used, accepted>>,
           \A m \in net' \ net :
             /\ m.type \in {"finish", "data", "grant"} /\ m.key = ent[n].key
             /\ m.type = "grant" => m.body.gen = ent[n].gen /\ m.body.value = ent[n].grant
    PROVE  TypeOK' /\ Shaped(n)
  <1>1. TypeOK' /\ Frame(n) /\ ent'[n] = f
    BY Moved DEF SessionInv
  <1>2. GrantStep(n)
    BY <1>1 DEF GrantStep, SameSession, SameGrants
  <1>3. Traffic(n)
    BY <1>1, <1>2 DEF Traffic, SameSession, Established
  <1> QED
    BY <1>1, <1>3 DEF Shaped

LEMMA SealedTypes ==
    ASSUME NEW n \in Nodes, NEW e \in Entry
    PROVE  /\ Sealed(n, e, 1, "data", 0) \in UnderKey
           /\ \A b \in [value : Nat, gen : Nat] : Sealed(n, e, 1, "grant", b) \in UnderKey
           /\ \A b \in Nat : Sealed(n, e, 1, "grantack", b) \in UnderKey
           /\ \A type, b : /\ Sealed(n, e, 1, type, b).type = type
                           /\ Sealed(n, e, 1, type, b).from = n
                           /\ Sealed(n, e, 1, type, b).key = e.key
                           /\ Sealed(n, e, 1, type, b).body = b
  <1>1. e.counter + 1 \in Nat /\ e.key \in Key
    BY DEF Entry
  <1> QED
    BY <1>1 DEF Sealed, UnderKey

LEMMA SendShape ==
    ASSUME SessionInv, NEW n \in Nodes, Send(n)
    PROVE  TypeOK' /\ Shaped(n)
  <1>0. TypeOK /\ ent[n] \in Entry /\ ent[n].parked \in Nat
        /\ UNCHANGED <<pk, boot, ephs, left, used, accepted>>
    BY SessionAssumption DEF SessionInv, TypeOK, Send, Entry
  <1>1. /\ left' \in Budget /\ left'.ephs = left.ephs
        /\ accepted' \in [Nodes -> SUBSET (Key \X Nat)]
    BY <1>0 DEF TypeOK
  <1>2. CASE Handshaking(n) /\ ent[n].parked < MaxPending /\ UNCHANGED net
             /\ ent' = [ent EXCEPT ![n].parked = @ + 1]
    <2> DEFINE f == [ent[n] EXCEPT !.parked = ent[n].parked + 1]
    <2>1. ent[n].parked + 1 \in 0..MaxPending
      BY <1>0, <1>2, SessionAssumption
    <2>2. f \in Entry
      BY <1>0, <2>1 DEF Entry
    <2>3. SameSession(ent[n], f)
      BY <1>0 DEF Entry, SameSession, SameGrants
    <2>4. ent' = [ent EXCEPT ![n] = f]
      BY <1>0, <1>2 DEF TypeOK
    <2> HIDE DEF f
    <2>5. /\ f.st \in {"challenge", "finish"} /\ ~Established(n)
          /\ f.st = "established" => f.parked = 0
      BY <1>2, <2>3 DEF SameSession, Handshaking, Established
    <2>6. Moves(n, f)
      BY Zenon, <1>0, <1>1, <1>2, <2>2, <2>4, <2>5, SendsMoves
    <2> QED
      BY <1>0, <1>2, <2>3, <2>5, <2>6, AttemptShape DEF SameSession, SameGrants
  <1>3. CASE Established(n) /\ ent' = [ent EXCEPT ![n] = Spend(@, 1)]
             /\ net' = net \cup {Sealed(n, ent[n], 1, "data", 0)}
    <2> DEFINE d == Sealed(n, ent[n], 1, "data", 0)
    <2>1. d \in UnderKey /\ d.type = "data" /\ d.from = n /\ d.key = ent[n].key
      BY <1>0, SealedTypes
    <2> HIDE DEF d
    <2>2. PICK f \in Entry : /\ f = Spend(ent[n], 1) /\ SameSession(ent[n], f)
                             /\ f.parked = ent[n].parked /\ ent[n].counter <= f.counter
      BY <1>0, SpendKeeps
    <2>3. ent' = [ent EXCEPT ![n] = f] /\ net \subseteq net' /\ \A m \in net' \ net : m = d
      BY <1>0, <1>3, <2>2 DEF TypeOK, d
    <2>4. f.st = "established" => f.parked = 0
      BY <1>0, <1>3, <2>2 DEF TypeOK
    <2>5. Moves(n, f)
      BY Zenon, <1>0, <1>1, <2>1, <2>3, <2>4, SendsMoves
    <2> QED
      BY <1>0, <1>3, <2>1, <2>2, <2>3, <2>5, QuietShape
  <1> QED
    BY <1>0, <1>2, <1>3 DEF Send

LEMMA SendGrantShape ==
    ASSUME SessionInv, NEW n \in Nodes, SendPendingGrant(n)
    PROVE  TypeOK' /\ Shaped(n)
  <1> DEFINE b == [value |-> ent[n].grant, gen |-> ent[n].gen]
             d == Sealed(n, ent[n], 1, "grant", b)
  <1>0. TypeOK /\ ent[n] \in Entry /\ Established(n)
        /\ UNCHANGED <<pk, boot, ephs, left, used, accepted>>
    BY DEF SessionInv, TypeOK, SendPendingGrant
  <1>1. b \in [value : Nat, gen : Nat] /\ b.gen = ent[n].gen /\ b.value = ent[n].grant
    BY <1>0 DEF Entry
  <1> HIDE DEF b
  <1>2. d \in UnderKey /\ d.type = "grant" /\ d.from = n /\ d.key = ent[n].key /\ d.body = b
    BY <1>0, <1>1, SealedTypes
  <1>3. net' = net \cup {d}
    BY DEF SendPendingGrant, b
  <1> HIDE DEF d
  <1>4. PICK f \in Entry : /\ f = Spend(ent[n], 1) /\ SameSession(ent[n], f)
                           /\ f.parked = ent[n].parked /\ ent[n].counter <= f.counter
    BY <1>0, SpendKeeps
  <1>5. ent' = [ent EXCEPT ![n] = f] /\ net \subseteq net' /\ \A m \in net' \ net : m = d
    BY <1>0, <1>3, <1>4 DEF TypeOK, SendPendingGrant
  <1>6. /\ f.st = "established" => f.parked = 0
        /\ left' \in Budget /\ left'.ephs = left.ephs
        /\ accepted' \in [Nodes -> SUBSET (Key \X Nat)]
    BY <1>0, <1>4 DEF TypeOK
  <1>7. Moves(n, f)
    BY Zenon, <1>0, <1>2, <1>5, <1>6, SendsMoves
  <1> QED
    BY <1>0, <1>1, <1>2, <1>4, <1>5, <1>7, QuietShape

LEMMA SetGrantShape ==
    ASSUME SessionInv, NEW n \in Nodes, NEW v \in Grants, SetRecvGrant(n, v)
    PROVE  TypeOK' /\ Shaped(n)
  <1> DEFINE f == [ent[n] EXCEPT !.grant = v, !.gen = ent[n].gen + 1, !.grantPending = TRUE]
  <1>0. /\ TypeOK /\ ent[n] \in Entry /\ ent[n].st # "none" /\ v \in Nat
        /\ UNCHANGED <<pk, boot, net, ephs, used, accepted>>
        /\ ent[n].gen \in Nat /\ ent[n].gen + 1 \in Nat
    BY SessionAssumption DEF SessionInv, TypeOK, SetRecvGrant, Entry
  <1>1. f \in Entry
    BY <1>0, Zenon DEF Entry
  <1>2. /\ f.st = ent[n].st /\ f.key = ent[n].key /\ f.eph = ent[n].eph /\ f.seen = ent[n].seen
        /\ f.confirmed = ent[n].confirmed /\ f.counter = ent[n].counter
        /\ f.parked = ent[n].parked /\ f.theirGen = ent[n].theirGen
        /\ f.theirGrant = ent[n].theirGrant
    BY <1>0 DEF Entry
  <1>3. f.gen = ent[n].gen + 1 /\ f.grantPending
    BY <1>0 DEF Entry
  <1>4. ent' = [ent EXCEPT ![n] = f]
    BY Zenon, <1>0 DEF SetRecvGrant, TypeOK
  <1> HIDE DEF f
  <1>5. left' \in Budget /\ left'.ephs = left.ephs
    BY <1>0 DEF SetRecvGrant, TypeOK, Budget
  <1>6. (f.st = "established" => f.parked = 0) /\ accepted' \in [Nodes -> SUBSET (Key \X Nat)]
    BY <1>0, <1>2 DEF TypeOK, Established
  <1>7. Moves(n, f)
    BY Zenon, <1>0, <1>1, <1>4, <1>5, <1>6, SendsMoves
  <1>8. CASE Established(n)
    <2>1. TypeOK' /\ Frame(n) /\ ent'[n] = f
      BY <1>0, <1>7, Moved
    <2>2. GrantStep(n)
      BY <1>0, <1>2, <1>3, <2>1 DEF GrantStep
    <2>3. ent[n].counter <= f.counter
      BY <1>0, <1>2 DEF Entry
    <2>4. Traffic(n)
      BY <1>0, <1>2, <1>8, <2>1, <2>2, <2>3 DEF Traffic, Established
    <2> QED
      BY <2>1, <2>4 DEF Shaped
  <1>9. CASE ~Established(n)
    <2>1. Handshaking(n) /\ f.st \in {"challenge", "finish"}
      BY <1>0, <1>2, <1>9 DEF Handshaking, Established, Entry
    <2> QED
      BY <1>0, <1>2, <1>3, <1>7, <1>9, <2>1, AttemptShape
  <1> QED
    BY <1>8, <1>9

(* A packet that opens was sealed by the other side, which therefore has    *)
(* the key.                                                                 *)
LEMMA OpenedFacts ==
    ASSUME SessionInv, NEW n \in Nodes, NEW m \in Inbox(n),
           m.type \in {"data", "grant", "grantack"}, Opens(n, m)
    PROVE  LET e == Opened(n, m)
           IN /\ e \in Entry /\ e.st = "established" /\ e.parked = 0
              /\ e.key = ent[n].key /\ e.eph = ent[n].eph /\ e.counter = ent[n].counter
              /\ e.seen = ent[n].seen \cup {m.counter} /\ e.confirmed
              /\ SameGrants(ent[n], e)
              /\ Established(n) /\ m \in net /\ m.from = Other(n) /\ m.key = ent[n].key
              /\ ent[n].key \in used[Other(n)] /\ m.counter \in Nat
  <1>0. /\ TypeOK /\ ent[n] \in Entry /\ m \in net /\ m.from = Other(n)
        /\ Established(n) /\ m.key = ent[n].key
    BY DEF SessionInv, TypeOK, Inbox, Opens
  <1>1. m.counter \in Nat /\ ent[n].seen \cup {m.counter} \in SUBSET Nat
    BY <1>0, SentTypes DEF Entry
  <1>2. Opened(n, m) = [ent[n] EXCEPT !.seen = ent[n].seen \cup {m.counter}, !.confirmed = TRUE]
    BY DEF Opened
  <1>3. Opened(n, m) \in Entry
    BY <1>0, <1>1, <1>2, Zenon DEF Entry
  <1>4. /\ Opened(n, m).st = "established" /\ Opened(n, m).parked = 0
        /\ Opened(n, m).key = ent[n].key /\ Opened(n, m).eph = ent[n].eph
        /\ Opened(n, m).counter = ent[n].counter
        /\ Opened(n, m).seen = ent[n].seen \cup {m.counter}
        /\ SameGrants(ent[n], Opened(n, m))
    BY <1>0, <1>2 DEF TypeOK, Entry, Established, SameGrants
  <1>5. Opened(n, m).confirmed
    BY <1>0, <1>2 DEF Entry
  <1>6. ent[n].key \in used[Other(n)]
    BY <1>0 DEF SessionInv, SentKeysInstalled
  <1> QED
    BY <1>0, <1>1, <1>3, <1>4, <1>5, <1>6

(* Traffic that opened a packet: the window and the ghost take it together. *)
LEMMA OpenedShape ==
    ASSUME SessionInv, NEW n \in Nodes, NEW m \in Inbox(n),
           m.type \in {"data", "grant", "grantack"}, Opens(n, m), Accept(n, m),
           NEW f \in Entry, ent' = [ent EXCEPT ![n] = f],
           f.st = "established", f.parked = 0, f.key = ent[n].key, f.eph = ent[n].eph,
           ent[n].counter <= f.counter, f.seen = ent[n].seen \cup {m.counter}, f.confirmed,
           net \subseteq net',
           \A x \in net' \ net : /\ x \in UnderKey /\ x.from = n /\ x.key = ent[n].key
                                 /\ x.type \in {"data", "grant", "grantack"},
           UNCHANGED <<pk, boot, ephs, left, used>>,
           ent'[n] = f => GrantStep(n)
    PROVE  TypeOK' /\ Shaped(n)
  <1>0. TypeOK /\ left \in Budget /\ accepted \in [Nodes -> SUBSET (Key \X Nat)]
    BY DEF SessionInv, TypeOK
  <1>1. /\ Established(n) /\ m.key = ent[n].key /\ m.counter \in Nat /\ m.key \in Key
        /\ ent[n].key \in used[Other(n)]
    BY <1>0, OpenedFacts, SentTypes DEF Inbox
  <1>2. /\ accepted' \in [Nodes -> SUBSET (Key \X Nat)]
        /\ \A o \in Nodes \ {n} : accepted'[o] = accepted[o]
        /\ accepted'[n] = accepted[n] \cup {<<m.key, m.counter>>}
    BY <1>0, <1>1 DEF Accept
  <1>3. Moves(n, f)
    BY Zenon, <1>0, <1>2, SendsMoves
  <1>4. TypeOK' /\ Frame(n) /\ ent'[n] = f
    BY <1>0, <1>3, Moved
  <1>5. \A p \in accepted'[n] : p \in accepted[n] \/ (p[1] = ent[n].key /\ p[2] \in f.seen)
    BY <1>1, <1>2
  <1>6. Traffic(n)
    BY <1>1, <1>4, <1>5 DEF Traffic
  <1> QED
    BY <1>4, <1>6 DEF Shaped

LEMMA ReceiveShape ==
    ASSUME SessionInv, NEW n \in Nodes, NEW m \in Inbox(n), Receive(n, m)
    PROVE  TypeOK' /\ Shaped(n)
  <1> DEFINE f == Opened(n, m)
  <1>0. m.type = "data" /\ Opens(n, m) /\ Accept(n, m) /\ ent' = [ent EXCEPT ![n] = f]
        /\ UNCHANGED <<pk, boot, net, ephs, left, used>>
    BY DEF Receive
  <1>1. /\ f \in Entry /\ f.st = "established" /\ f.parked = 0
        /\ f.key = ent[n].key /\ f.eph = ent[n].eph /\ f.counter = ent[n].counter
        /\ f.seen = ent[n].seen \cup {m.counter} /\ f.confirmed /\ SameGrants(ent[n], f)
    BY <1>0, OpenedFacts
  <1> HIDE DEF f
  <1>2. ent'[n] = f => GrantStep(n)
    BY <1>0, <1>1 DEF GrantStep, SameGrants
  <1>3. ent[n].counter <= f.counter
    BY <1>1 DEF Entry
  <1> QED
    BY Zenon, <1>0, <1>1, <1>2, <1>3, OpenedShape

LEMMA UpdateShape ==
    ASSUME SessionInv, NEW n \in Nodes, NEW m \in Inbox(n), GrantUpdate(n, m)
    PROVE  TypeOK' /\ Shaped(n)
  <1>0. /\ m.type = "grant" /\ Opens(n, m) /\ Accept(n, m)
        /\ UNCHANGED <<pk, boot, ephs, left, used>> /\ ent[n] \in Entry /\ TypeOK
    BY DEF GrantUpdate, SessionInv, TypeOK
  <1>1. PICK e \in Entry :
          /\ e = Opened(n, m) /\ e.st = "established" /\ e.parked = 0
          /\ e.key = ent[n].key /\ e.eph = ent[n].eph /\ e.counter = ent[n].counter
          /\ e.seen = ent[n].seen \cup {m.counter} /\ e.confirmed /\ SameGrants(ent[n], e)
          /\ m \in net /\ m.from = Other(n) /\ m.key = ent[n].key
    BY <1>0, OpenedFacts
  <1>2. PICK b \in [value : Nat, gen : Nat] : b = m.body
    BY <1>0, <1>1, SentTypes
  <1> DEFINE f == IF Newer(b.gen, e.theirGen)
                  THEN [e EXCEPT !.theirGen = b.gen, !.theirGrant = b.value] ELSE e
             g == Spend(f, 1)
             d == Sealed(n, f, 1, "grantack", b.gen)
  <1>3. ent' = [ent EXCEPT ![n] = g] /\ net' = net \cup {d}
    BY <1>1, <1>2 DEF GrantUpdate
  <1>4. /\ f \in Entry /\ f.st = e.st /\ f.parked = e.parked /\ f.key = e.key /\ f.eph = e.eph
        /\ f.counter = e.counter /\ f.seen = e.seen
        /\ f.gen = e.gen /\ f.grant = e.grant
    BY Zenon DEF Entry
  <1>5. f.confirmed = e.confirmed /\ f.grantPending = e.grantPending
    BY DEF Entry
  <1>6. /\ b.gen <= f.theirGen
        /\ \/ f.theirGen = e.theirGen /\ f.theirGrant = e.theirGrant
           \/ f.theirGen > e.theirGen /\ f.theirGen = b.gen /\ f.theirGrant = b.value
    BY DEF Entry, Newer
  <1> HIDE DEF f
  <1>7. /\ g \in Entry /\ SameSession(f, g) /\ g.parked = f.parked /\ f.counter <= g.counter
    BY <1>4, SpendKeeps
  <1>8. /\ d \in UnderKey /\ d.type = "grantack" /\ d.from = n /\ d.key = ent[n].key
        /\ d.body = b.gen
    BY <1>1, <1>4, SealedTypes
  <1> HIDE DEF g, d
  <1>9. m.body = [value |-> b.value, gen |-> b.gen]
    BY <1>2
  <1>10. ent'[n] = g => GrantStep(n)
    BY <1>0, <1>1, <1>3, <1>4, <1>5, <1>6, <1>7, <1>8, <1>9
       DEF GrantStep, SameGrants, SameSession
  <1>11. /\ g.st = "established" /\ g.parked = 0 /\ g.key = ent[n].key /\ g.eph = ent[n].eph
         /\ ent[n].counter <= g.counter /\ g.seen = ent[n].seen \cup {m.counter}
         /\ g.confirmed
    BY <1>1, <1>4, <1>5, <1>7 DEF SameSession
  <1>12. net \subseteq net' /\ \A x \in net' \ net : x = d
    BY <1>3
  <1> QED
    BY Zenon, <1>0, <1>3, <1>7, <1>8, <1>10, <1>11, <1>12, OpenedShape

LEMMA AckedShape ==
    ASSUME SessionInv, NEW n \in Nodes, NEW m \in Inbox(n), GrantAcked(n, m)
    PROVE  TypeOK' /\ Shaped(n)
  <1>0. /\ m.type = "grantack" /\ Opens(n, m) /\ Accept(n, m)
        /\ UNCHANGED <<pk, boot, net, ephs, left, used>> /\ ent[n] \in Entry
    BY DEF GrantAcked, SessionInv, TypeOK
  <1>1. PICK e \in Entry :
          /\ e = Opened(n, m) /\ e.st = "established" /\ e.parked = 0
          /\ e.key = ent[n].key /\ e.eph = ent[n].eph /\ e.counter = ent[n].counter
          /\ e.seen = ent[n].seen \cup {m.counter} /\ e.confirmed /\ SameGrants(ent[n], e)
          /\ m \in net /\ m.from = Other(n) /\ m.key = ent[n].key
    BY <1>0, OpenedFacts
  <1> DEFINE f == [e EXCEPT !.grantPending = e.grantPending /\ ~Settles(ent[n], m.body)]
  <1>2. ent' = [ent EXCEPT ![n] = f]
    BY <1>1 DEF GrantAcked
  <1>3. f \in Entry
    BY Zenon DEF Entry
  <1>4. /\ f.st = e.st /\ f.parked = e.parked /\ f.key = e.key /\ f.eph = e.eph
        /\ f.counter = e.counter /\ f.seen = e.seen /\ f.gen = e.gen /\ f.grant = e.grant
        /\ f.theirGen = e.theirGen /\ f.theirGrant = e.theirGrant
    BY DEF Entry
  <1>5. f.confirmed = e.confirmed
    BY DEF Entry
  <1>6. f.grantPending <=> e.grantPending /\ ~(ent[n].grantPending /\ m.body = ent[n].gen)
    BY Zenon DEF Entry, Settles
  <1> HIDE DEF f
  <1>7. ent'[n] = f => GrantStep(n)
    BY Zenon, <1>0, <1>1, <1>4, <1>5, <1>6 DEF GrantStep, SameGrants
  <1>8. ent[n].counter <= f.counter /\ f.confirmed
    BY <1>1, <1>4, <1>5 DEF Entry
  <1>9. /\ f.st = "established" /\ f.parked = 0 /\ f.key = ent[n].key /\ f.eph = ent[n].eph
        /\ f.seen = ent[n].seen \cup {m.counter}
    BY <1>1, <1>4
  <1>10. net \subseteq net' /\ \A x : x \notin net' \ net
    BY <1>0
  <1> QED
    BY Zenon, <1>0, <1>2, <1>3, <1>7, <1>8, <1>9, <1>10, OpenedShape

(* CommitSession over an entry that was never confirmed, then FlushPending. *)
LEMMA InstallShape ==
    ASSUME SessionInv, NEW n \in Nodes, NEW key \in Key, key.i < key.r,
           ephs' \in Nat, ephs <= ephs', key.r <= ephs', ephs' <= left.ephs,
           \A k \in used[n] : k.r < key.r,
           NEW c \in Entry, c.st = "established", c.key = key, c.seen = {}, c.eph <= ephs',
           ~c.confirmed, c.theirGen = 0, c.gen > 0 => c.grantPending,
           ent' = [ent EXCEPT ![n] = Flushed(c)],
           net \subseteq net',
           \A x \in net' \ net :
             \/ x \in Parked(n, c)
             \/ x \in Plain /\ x.type = "finish" /\ x.from = n /\ x.key = key,
           used' = [used EXCEPT ![n] = @ \cup {key}],
           UNCHANGED <<pk, boot, left, accepted>>
    PROVE  TypeOK' /\ Shaped(n)
  <1>0. TypeOK /\ used \in [Nodes -> SUBSET Key]
    BY DEF SessionInv, TypeOK
  <1>1. PICK f \in Entry : f = Flushed(c) /\ SameSession(c, f) /\ f.parked = 0
    BY FlushedKeeps
  <1>2. \A x \in net' \ net : /\ x \in Plain \cup UnderKey /\ x.from = n
                              /\ x.type \in {"finish", "data"} /\ x.key = key
    BY ParkedTypes
  <1>3. /\ used' \in [Nodes -> SUBSET Key] /\ used'[n] = used[n] \cup {key}
        /\ \A o \in Nodes \ {n} : used'[o] = used[o]
    BY <1>0
  <1>4. Moves(n, f)
    BY <1>0, <1>1, <1>2, <1>3 DEF Moves, TypeOK
  <1>5. TypeOK' /\ Frame(n) /\ ent'[n] = f
    BY <1>0, <1>4, Moved
  <1>6. key \notin used[n]
    BY <1>0 DEF Key
  <1>7. Install(n, key)
    BY <1>1, <1>2, <1>3, <1>5, <1>6 DEF Install, SameSession, SameGrants
  <1> QED
    BY <1>5, <1>7 DEF Shaped

LEMMA CompleteShape ==
    ASSUME SessionInv, NEW n \in Nodes, NEW m \in Inbox(n), Complete(n, m)
    PROVE  TypeOK' /\ Shaped(n)
  <1>0. /\ TypeOK /\ ent[n] \in Entry /\ m \in net /\ m.type = "finish"
        /\ Handshaking(n) /\ ent[n].eph # 0 /\ m.key.i = ent[n].eph
        /\ UNCHANGED <<pk, boot, ephs, left, accepted>>
        /\ used \in [Nodes -> SUBSET Key]
    BY DEF SessionInv, TypeOK, Complete, Awaits, Inbox
  <1>1. m.key \in Key /\ m.pk \in Nat /\ m.from \in Nodes /\ m.key \in used[m.from]
    BY <1>0, SentTypes DEF SessionInv, SentKeysInstalled
  <1>2. m.key.i < m.key.r /\ m.key.r <= ephs
    BY <1>0, <1>1 DEF SessionInv, NewestKeyHeld
  <1>3. \A k \in used[n] : k.r < m.key.r
    <2>1. \A k \in used[n] : k.r < ent[n].eph
      BY <1>0 DEF SessionInv, NewestKeyHeld
    <2> QED
      BY <1>0, <1>1, <1>2, <2>1 DEF Key, Entry
  <1>4. ~ent[n].confirmed /\ ent[n].theirGen = 0 /\ (ent[n].gen > 0 => ent[n].grantPending)
    <2>1. ~ent[n].confirmed
      BY <1>0 DEF SessionInv, WindowRemembers, Established, Handshaking
    <2> QED
      BY Zenon, <2>1 DEF SessionInv, GrantTrail
  <1>5. PICK c \in Entry :
          /\ c = CommitSession(ent[n], m.pk, m.key)
          /\ c.st = "established" /\ c.key = m.key /\ c.seen = {}
          /\ c.eph = ent[n].eph /\ c.confirmed = ent[n].confirmed
          /\ c.theirGen = ent[n].theirGen
          /\ c.grantPending \/ (c.gen = ent[n].gen /\ c.grantPending = ent[n].grantPending)
    BY <1>0, <1>1, CommitSets
  <1>6. /\ ent' = [ent EXCEPT ![n] = Flushed(c)] /\ net' = net \cup Parked(n, c)
        /\ used' = [used EXCEPT ![n] = @ \cup {m.key}]
    BY <1>5 DEF Complete
  <1>7. ephs' \in Nat /\ ephs <= ephs' /\ m.key.r <= ephs' /\ ephs' <= left.ephs /\ c.eph <= ephs'
    BY <1>0, <1>2, <1>5 DEF TypeOK, Budget, SessionInv, NewestKeyHeld
  <1> QED
    BY Zenon, <1>0, <1>1, <1>2, <1>3, <1>4, <1>5, <1>6, <1>7, InstallShape

LEMMA ValidateShape ==
    ASSUME SessionInv, NEW n \in Nodes, NEW m \in Inbox(n), Validate(n, m)
    PROVE  TypeOK' /\ Shaped(n)
  <1> DEFINE v == Verdict(n, m)
             old == IF v = "fresh" THEN Registered ELSE ent[n]
             key == [i |-> m.eph, r |-> ephs + 1]
             new == [CommitSession(old, m.pk, key) EXCEPT !.peerEph = m.eph, !.eph = ephs + 1]
  <1>0. /\ TypeOK /\ ent[n] \in Entry /\ m \in net /\ m.type = "res"
        /\ UNCHANGED <<pk, boot, left, accepted>> /\ ephs \in Nat /\ left.ephs \in Nat
        /\ left \in Budget /\ pk[n] \in Nat
    BY DEF SessionInv, TypeOK, Validate, Inbox, Budget
  <1>1. m.eph \in Nat /\ m.pk \in Nat /\ m.eph <= ephs
    BY <1>0, SentTypes DEF SessionInv, SentKeysInstalled
  <1>2. CASE v = "remove" /\ ent' = [ent EXCEPT ![n] = NoEntry] /\ UNCHANGED <<net, ephs, used>>
    BY Zenon, <1>0, <1>2, ClearShape DEF TypeOK
  <1>3. CASE /\ v = "repeat" /\ ent' = [ent EXCEPT ![n] = Flushed(@)]
             /\ net' = net \cup {Finish(n, ent[n].key)} \cup Parked(n, ent[n])
             /\ UNCHANGED <<ephs, used>>
    <2>1. Established(n)
      BY <1>3 DEF Verdict
    <2>2. PICK f \in Entry : /\ f = Flushed(ent[n]) /\ SameSession(ent[n], f)
                             /\ f.parked = 0 /\ ent[n].counter <= f.counter
      BY <1>0, FlushedKeeps
    <2>3. LET x == Finish(n, ent[n].key)
          IN x \in Plain /\ x.from = n /\ x.type = "finish" /\ x.key = ent[n].key
      BY <1>0 DEF Finish, Plain, Entry
    <2>4. /\ ent' = [ent EXCEPT ![n] = f] /\ net \subseteq net'
          /\ \A x \in net' \ net : /\ x \in Plain \cup UnderKey /\ x.from = n
                                   /\ x.type \in {"finish", "data"} /\ x.key = ent[n].key
      BY <1>0, <1>3, <2>2, <2>3, ParkedTypes
    <2>5. Moves(n, f)
      BY Zenon, <1>0, <1>3, <2>2, <2>4, SendsMoves DEF TypeOK
    <2> QED
      BY <1>0, <1>3, <2>1, <2>2, <2>4, <2>5, QuietShape
  <1>4. CASE /\ v \in {"fresh", "commit"} /\ ephs < left.ephs /\ ephs' = ephs + 1
             /\ ent' = [ent EXCEPT ![n] = Flushed(new)]
             /\ net' = net \cup {Finish(n, key)} \cup Parked(n, new)
             /\ used' = [used EXCEPT ![n] = @ \cup {key}]
    <2>1. key \in Key /\ key.i < key.r /\ key.r = ephs + 1 /\ ephs + 1 \in Nat
      BY <1>0, <1>1 DEF Key
    <2>2. \A k \in used[n] : k.r < key.r
      BY <1>0, <2>1 DEF SessionInv, NewestKeyHeld, TypeOK, Key
    <2>3. old \in Entry /\ ~old.confirmed /\ old.theirGen = 0
          /\ (old.gen > 0 => old.grantPending)
      <3>1. CASE v = "fresh"
        BY <3>1, EmptyEntries
      <3>2. CASE v = "commit"
        <4>1. ~ent[n].confirmed
          BY <3>2 DEF Verdict, MayRekey, SessionInv, WindowRemembers
        <4>2. ent[n].theirGen = 0 /\ (ent[n].gen > 0 => ent[n].grantPending)
          BY Zenon, <4>1 DEF SessionInv, GrantTrail
        <4> QED
          BY <1>0, <3>2, <4>1, <4>2
      <3> QED
        BY <1>4, <3>1, <3>2
    <2> HIDE DEF old, key, v
    <2>4. PICK c \in Entry :
            /\ c = CommitSession(old, m.pk, key)
            /\ c.st = "established" /\ c.key = key /\ c.seen = {}
            /\ c.confirmed = old.confirmed /\ c.theirGen = old.theirGen
            /\ c.grantPending \/ (c.gen = old.gen /\ c.grantPending = old.grantPending)
      BY <1>1, <2>1, <2>3, CommitSets
    <2>5. new = [c EXCEPT !.peerEph = m.eph, !.eph = ephs + 1]
      BY <2>4
    <2>6. new \in Entry
      BY Zenon, <1>1, <2>1, <2>5 DEF Entry
    <2>7. /\ new.st = c.st /\ new.key = c.key /\ new.seen = c.seen /\ new.eph = ephs + 1
          /\ new.confirmed = c.confirmed /\ new.theirGen = c.theirGen /\ new.gen = c.gen
          /\ new.grantPending = c.grantPending
      BY Zenon, <2>5 DEF Entry
    <2> HIDE DEF new
    <2>8. LET x == Finish(n, key)
          IN x \in Plain /\ x.from = n /\ x.type = "finish" /\ x.key = key
      BY <1>0, <2>1 DEF Finish, Plain
    <2>9. ephs' \in Nat /\ ephs <= ephs' /\ key.r <= ephs' /\ ephs' <= left.ephs
          /\ new.eph <= ephs'
      BY <1>0, <1>4, <2>1, <2>7
    <2>10. /\ net \subseteq net'
           /\ \A x \in net' \ net :
                \/ x \in Parked(n, new)
                \/ x \in Plain /\ x.type = "finish" /\ x.from = n /\ x.key = key
      BY <1>4, <2>8
    <2>11. PICK k0 \in Key : k0 = key
      BY <2>1
    <2>12. PICK d \in Entry :
             /\ d = new /\ d.st = "established" /\ d.key = k0 /\ d.seen = {} /\ d.theirGen = 0
             /\ ~d.confirmed /\ (d.gen > 0 => d.grantPending)
      BY <2>3, <2>4, <2>6, <2>7, <2>11
    <2>13. /\ k0.i < k0.r /\ k0.r <= ephs' /\ d.eph <= ephs' /\ \A k \in used[n] : k.r < k0.r
           /\ ent' = [ent EXCEPT ![n] = Flushed(d)]
           /\ used' = [used EXCEPT ![n] = @ \cup {k0}]
      BY <1>4, <2>1, <2>2, <2>9, <2>11, <2>12
    <2>14. \A x \in net' \ net :
             \/ x \in Parked(n, d)
             \/ x \in Plain /\ x.type = "finish" /\ x.from = n /\ x.key = k0
      BY <2>10, <2>11, <2>12
    <2> QED
      BY Zenon, <1>0, <2>9, <2>10, <2>12, <2>13, <2>14, InstallShape
  <1> QED
    BY <1>2, <1>3, <1>4 DEF Validate

LEMMA ChallengeShape ==
    ASSUME SessionInv, NEW n \in Nodes, NEW m \in Inbox(n), Challenge(n, m)
    PROVE  TypeOK' /\ Shaped(n)
  <1> DEFINE c == [type |-> "challenge", from |-> n, cookie |-> boot[n]]
  <1>0. TypeOK /\ net' = net \cup {c} /\ UNCHANGED <<ent, pk, boot, ephs, left, used, accepted>>
    BY DEF SessionInv, Challenge
  <1>1. c \in Plain /\ c.type = "challenge"
    BY <1>0 DEF TypeOK, Plain
  <1> HIDE DEF c
  <1>2. net' \subseteq Plain \cup UnderKey
    BY <1>0, <1>1 DEF TypeOK
  <1>3. TypeOK'
    BY <1>0, <1>2, Zenon DEF TypeOK, Established
  <1>4. Answered(n)
    BY <1>0, <1>1 DEF Answered
  <1> QED
    BY <1>3, <1>4 DEF Shaped

LEMMA NextShape ==
    ASSUME SessionInv, Next
    PROVE  TypeOK' /\ \E n \in Nodes : Shaped(n)
  <1>1. PICK n \in Nodes :
          \/ \E k \in {0, 1} : Connect(n, k)
          \/ Send(n) \/ RemovePeer(n) \/ RetryHandshakes(n) \/ SendPendingGrant(n)
          \/ \E v \in Grants : SetRecvGrant(n, v)
          \/ \E rank \in FreshPks \cup {pk[n]} : Restart(n, rank)
          \/ \E m \in Inbox(n) :
               \/ Challenge(n, m) \/ Respond(n, m) \/ Validate(n, m) \/ Complete(n, m)
               \/ Receive(n, m) \/ GrantUpdate(n, m) \/ GrantAcked(n, m)
    BY DEF Next
  <1>2. TypeOK
    BY DEF SessionInv
  <1> SUFFICES TypeOK' /\ Shaped(n)
    OBVIOUS
  <1> QED
    BY <1>1, <1>2, ConnectShape, SendShape, ClearActions, RetryShape, SendGrantShape,
       SetGrantShape, ChallengeShape, RespondShape, ValidateShape, CompleteShape, ReceiveShape,
       UpdateShape, AckedShape, Zenon

-----------------------------------------------------------------------------
(* Each part of the invariant, over the shapes. *)

LEMMA NewestStep ==
    ASSUME TypeOK, NewestKeyHeld, NEW n \in Nodes, Shaped(n)
    PROVE  NewestKeyHeld'
  <1> SUFFICES ASSUME NEW x \in Nodes
               PROVE  /\ ent'[x].eph <= ephs'
                      /\ \A k \in used'[x] : k.i < k.r /\ k.r <= ephs'
                      /\ Handshaking(x)' /\ ent'[x].eph # 0
                           => \A k \in used'[x] : k.r < ent'[x].eph
                      /\ Established(x)' =>
                           /\ ent'[x].key \in used'[x]
                           /\ \A k \in used'[x] : k # ent'[x].key => k.r < ent'[x].key.r
    BY DEF NewestKeyHeld
  <1> USE DEF NewestKeyHeld, Handshaking, Established
  <1>0. ephs \in Nat /\ ent \in [Nodes -> Entry] /\ used \in [Nodes -> SUBSET Key]
    BY DEF TypeOK
  <1>1. CASE Cleared(n)
    BY <1>0, <1>1 DEF Cleared, Frame, NoEntry, Entry, Key
  <1>2. CASE Attempt(n)
    BY <1>0, <1>2 DEF Attempt, Frame, Entry, Key
  <1>3. ASSUME NEW key, Install(n, key)
        PROVE  /\ ent'[x].eph <= ephs'
               /\ \A k \in used'[x] : k.i < k.r /\ k.r <= ephs'
               /\ Handshaking(x)' /\ ent'[x].eph # 0 => \A k \in used'[x] : k.r < ent'[x].eph
               /\ Established(x)' =>
                    /\ ent'[x].key \in used'[x]
                    /\ \A k \in used'[x] : k # ent'[x].key => k.r < ent'[x].key.r
    BY <1>0, <1>3 DEF Install, Frame, Entry, Key
  <1>4. CASE Traffic(n)
    BY <1>0, <1>4 DEF Traffic, Frame, Entry, Key
  <1>5. CASE Answered(n)
    BY <1>0, <1>5 DEF Answered
  <1> QED
    BY <1>1, <1>2, <1>3, <1>4, <1>5 DEF Shaped

LEMMA SentStep ==
    ASSUME TypeOK, NewestKeyHeld, SentKeysInstalled, NEW n \in Nodes, Shaped(n)
    PROVE  SentKeysInstalled'
  <1> SUFFICES ASSUME NEW m \in net'
               PROVE  /\ m.type = "res" => m.eph <= ephs'
                      /\ m.type \in {"finish", "data", "grant", "grantack"}
                           => m.key \in used'[m.from]
    BY DEF SentKeysInstalled
  <1>0. /\ ephs \in Nat /\ used \in [Nodes -> SUBSET Key]
        /\ m \in net => m.from \in Nodes /\ (m.type = "res" => m.eph \in Nat)
    BY SentTypes DEF TypeOK
  <1> USE DEF SentKeysInstalled
  <1>1. CASE Cleared(n)
    BY <1>0, <1>1 DEF Cleared
  <1>2. CASE Attempt(n)
    BY <1>0, <1>2 DEF Attempt, Frame
  <1>3. ASSUME NEW key, Install(n, key)
        PROVE  /\ m.type = "res" => m.eph <= ephs'
               /\ m.type \in {"finish", "data", "grant", "grantack"} => m.key \in used'[m.from]
    BY <1>0, <1>3 DEF Install, Frame
  <1>4. CASE Traffic(n)
    BY <1>0, <1>4 DEF Traffic, Frame, NewestKeyHeld
  <1>5. CASE Answered(n)
    BY <1>0, <1>5 DEF Answered
  <1> QED
    BY <1>1, <1>2, <1>3, <1>4, <1>5 DEF Shaped

LEMMA WindowStep ==
    ASSUME TypeOK, NewestKeyHeld, WindowRemembers, NEW n \in Nodes, Shaped(n)
    PROVE  WindowRemembers'
  <1> SUFFICES ASSUME NEW x \in Nodes
               PROVE  /\ ent'[x].confirmed => Established(x)'
                      /\ \A p \in accepted'[x] :
                           /\ p[1] \in used'[x]
                           /\ Established(x)' /\ p[1] = ent'[x].key => p[2] \in ent'[x].seen
    BY DEF WindowRemembers
  <1> USE DEF WindowRemembers, Established
  <1>1. CASE Cleared(n)
    <2>1. ~NoEntry.confirmed /\ NoEntry.st # "established"
      BY DEF NoEntry
    <2>2. CASE x = n
      BY <1>1, <2>1, <2>2 DEF Cleared
    <2>3. CASE x # n
      BY <1>1, <2>3 DEF Cleared, Frame
    <2> QED
      BY <2>2, <2>3
  <1>2. CASE Attempt(n)
    BY <1>2 DEF Attempt, Frame
  <1>3. ASSUME NEW key, Install(n, key)
        PROVE  /\ ent'[x].confirmed => Established(x)'
               /\ \A p \in accepted'[x] :
                    /\ p[1] \in used'[x]
                    /\ Established(x)' /\ p[1] = ent'[x].key => p[2] \in ent'[x].seen
    BY <1>3 DEF Install, Frame
  <1>4. CASE Traffic(n)
    BY <1>4 DEF Traffic, Frame, NewestKeyHeld
  <1>5. CASE Answered(n)
    BY <1>5 DEF Answered
  <1> QED
    BY <1>1, <1>2, <1>3, <1>4, <1>5 DEF Shaped

LEMMA SharedStep ==
    ASSUME TypeOK, WindowRemembers, ConfirmedIsShared, NEW n \in Nodes, Shaped(n)
    PROVE  ConfirmedIsShared'
  <1> SUFFICES ASSUME NEW x \in Nodes, ent'[x].confirmed
               PROVE  ent'[x].key \in used'[Other(x)]
    BY DEF ConfirmedIsShared
  <1>0. Other(x) \in Nodes /\ Other(x) # x
    BY OtherNode
  <1> USE DEF ConfirmedIsShared
  <1>1. CASE Cleared(n)
    BY <1>0, <1>1 DEF Cleared, Frame, NoEntry
  <1>2. CASE Attempt(n)
    BY <1>0, <1>2 DEF Attempt, Frame
  <1>3. ASSUME NEW key, Install(n, key)
        PROVE  ent'[x].key \in used'[Other(x)]
    BY <1>0, <1>3 DEF Install, Frame
  <1>4. CASE Traffic(n)
    BY <1>0, <1>4 DEF Traffic, Frame
  <1>5. CASE Answered(n)
    BY <1>0, <1>5 DEF Answered
  <1> QED
    BY <1>1, <1>2, <1>3, <1>4, <1>5 DEF Shaped

(* The parts of GrantTrail, for one node. *)
Unheard(x) == ~ent[x].confirmed =>
    ent[x].theirGen = 0 /\ (ent[x].gen > 0 => ent[x].grantPending)

Announced(x) == Established(x) =>
    \A m \in net : m.type = "grant" /\ m.from = x /\ m.key = ent[x].key =>
      m.body.gen <= ent[x].gen /\ (m.body.gen = ent[x].gen => m.body.value = ent[x].grant)

Acknowledged(x) == Established(x) =>
    \A m \in net : m.type = "grantack" /\ m.from = x /\ m.key = ent[x].key =>
      m.body <= ent[x].theirGen

Applied(x) == Established(x) /\ ent[x].theirGen > 0 =>
    \E m \in net : /\ m.type = "grant" /\ m.from = Other(x) /\ m.key = ent[x].key
                   /\ m.body = [value |-> ent[x].theirGrant, gen |-> ent[x].theirGen]

Settled(x) == Established(x) /\ ent[x].gen > 0 /\ ~ent[x].grantPending =>
    \E m \in net : /\ m.type = "grantack" /\ m.from = Other(x) /\ m.key = ent[x].key
                   /\ m.body = ent[x].gen

Trail(x) == Unheard(x) /\ Announced(x) /\ Acknowledged(x) /\ Applied(x) /\ Settled(x)

LEMMA TrailParts == GrantTrail <=> \A x \in Nodes : Trail(x)
  BY DEF GrantTrail, Trail, Unheard, Announced, Acknowledged, Applied, Settled

(* The node that does not take the step keeps its trail: nothing new in the *)
(* network is its own.                                                      *)
LEMMA TrailKept ==
    ASSUME TypeOK, NEW x \in Nodes, Trail(x), ent'[x] = ent[x], net \subseteq net',
           \A m \in net' \ net : m.from # x \/ m.type = "challenge"
    PROVE  Trail(x)'
  <1>1. Unheard(x)'
    BY DEF Trail, Unheard
  <1>2. Announced(x)'
    BY DEF Trail, Announced, Established
  <1>3. Acknowledged(x)'
    BY DEF Trail, Acknowledged, Established
  <1>4. Applied(x)'
    BY DEF Trail, Applied, Established
  <1>5. Settled(x)'
    BY DEF Trail, Settled, Established
  <1> QED
    BY <1>1, <1>2, <1>3, <1>4, <1>5 DEF Trail

(* A key just installed has no datagram under it from its new holder. *)
LEMMA TrailInstalled ==
    ASSUME TypeOK, SentKeysInstalled, NEW n \in Nodes, NEW key, Install(n, key)
    PROVE  Trail(n)'
  <1>0. /\ ent'[n].theirGen = 0 /\ (ent'[n].gen > 0 => ent'[n].grantPending)
        /\ ent'[n].key = key
    BY DEF Install
  <1>1. Unheard(n)'
    BY <1>0 DEF Unheard
  <1>2. \A m \in net' : m.type \in {"grant", "grantack"} /\ m.from = n => m.key # key
    BY DEF Install, SentKeysInstalled
  <1>3. Announced(n)'
    BY <1>0, <1>2 DEF Announced
  <1>4. Acknowledged(n)'
    BY <1>0, <1>2 DEF Acknowledged
  <1>5. Applied(n)' /\ Settled(n)'
    BY <1>0 DEF Applied, Settled
  <1> QED
    BY <1>1, <1>3, <1>4, <1>5 DEF Trail

LEMMA TrailTraffic ==
    ASSUME TypeOK, NEW n \in Nodes, Trail(n), Traffic(n)
    PROVE  Trail(n)'
  <1>0. /\ ent[n] \in Entry /\ ent'[n] \in Entry
        /\ Established(n) /\ ent'[n].key = ent[n].key
        /\ ent[n].confirmed => ent'[n].confirmed
        /\ net \subseteq net'
    BY DEF Traffic, Frame, TypeOK
  <1>1. Unheard(n)'
    BY <1>0, Zenon DEF Trail, Unheard, Traffic, GrantStep, Entry
  <1>2. Announced(n)'
    <2> SUFFICES ASSUME NEW m \in net', m.type = "grant", m.from = n, m.key = ent[n].key
                 PROVE  /\ m.body.gen <= ent'[n].gen
                        /\ m.body.gen = ent'[n].gen => m.body.value = ent'[n].grant
      BY <1>0 DEF Announced
    <2>1. CASE m \in net
      <3>1. m.body.gen \in Nat /\ m.body.gen <= ent[n].gen
            /\ (m.body.gen = ent[n].gen => m.body.value = ent[n].grant)
        BY <2>1, <1>0, SentTypes DEF Trail, Announced
      <3>2. \/ ent'[n].gen = ent[n].gen /\ ent'[n].grant = ent[n].grant
            \/ ent'[n].gen > ent[n].gen
        BY DEF Traffic, GrantStep
      <3> QED
        BY <3>1, <3>2, <1>0 DEF Entry
    <2>2. CASE m \notin net
      BY <2>2, <1>0 DEF Traffic, GrantStep, Entry
    <2> QED
      BY <2>1, <2>2
  <1>3. Acknowledged(n)'
    <2> SUFFICES ASSUME NEW m \in net', m.type = "grantack", m.from = n, m.key = ent[n].key
                 PROVE  m.body <= ent'[n].theirGen
      BY <1>0 DEF Acknowledged
    <2>1. CASE m \in net
      <3>1. m.body \in Nat /\ m.body <= ent[n].theirGen
        BY <2>1, <1>0, SentTypes DEF Trail, Acknowledged
      <3>2. ent'[n].theirGen = ent[n].theirGen \/ ent'[n].theirGen > ent[n].theirGen
        BY DEF Traffic, GrantStep
      <3> QED
        BY <3>1, <3>2, <1>0 DEF Entry
    <2>2. CASE m \notin net
      BY <2>2 DEF Traffic, GrantStep
    <2> QED
      BY <2>1, <2>2
  <1>4. Applied(n)'
    BY <1>0 DEF Trail, Applied, Traffic, GrantStep
  <1>5. Settled(n)'
    BY <1>0, Zenon DEF Trail, Settled, Traffic, GrantStep
  <1> QED
    BY <1>1, <1>2, <1>3, <1>4, <1>5 DEF Trail

LEMMA TrailStep ==
    ASSUME TypeOK, SentKeysInstalled, GrantTrail, NEW n \in Nodes, Shaped(n)
    PROVE  GrantTrail'
  <1> SUFFICES ASSUME NEW x \in Nodes
               PROVE  Trail(x)'
    BY DEF GrantTrail, Trail, Unheard, Announced, Acknowledged, Applied, Settled
  <1>0. Trail(x)
    BY TrailParts
  <1>1. CASE x # n \/ Answered(n)
    <2>1. ent'[x] = ent[x] /\ net \subseteq net'
          /\ \A m \in net' \ net : m.from # x \/ m.type = "challenge"
      BY <1>1 DEF Shaped, Cleared, Attempt, Install, Traffic, Answered, Frame
    <2> QED
      BY <2>1, <1>0, TrailKept
  <1>2. CASE x = n /\ Cleared(n)
    BY <1>2 DEF Cleared, NoEntry, Trail, Unheard, Announced, Acknowledged, Applied, Settled,
                Established
  <1>3. CASE x = n /\ Attempt(n)
    BY <1>3 DEF Attempt, Trail, Unheard, Announced, Acknowledged, Applied, Settled, Established
  <1>4. ASSUME x = n, NEW key, Install(n, key)
        PROVE  Trail(x)'
    BY <1>4, TrailInstalled
  <1>5. CASE x = n /\ Traffic(n)
    BY <1>5, <1>0, TrailTraffic
  <1> QED
    BY <1>1, <1>2, <1>3, <1>4, <1>5 DEF Shaped

-----------------------------------------------------------------------------
(* The theorems. *)

LEMMA InvInit == Init => SessionInv
  <1> SUFFICES ASSUME Init PROVE SessionInv
    OBVIOUS
  <1>1. /\ ent = [n \in Nodes |-> NoEntry] /\ net = {} /\ ephs = 0
        /\ pk = StartPk /\ boot = [n \in Nodes |-> 0] /\ left \in Budget
        /\ used = [n \in Nodes |-> {}] /\ accepted = [n \in Nodes |-> {}]
    BY SessionAssumption DEF Init
  <1>2. /\ NoEntry.st = "none" /\ NoEntry.eph = 0 /\ NoEntry.theirGen = 0 /\ NoEntry.gen = 0
        /\ ~NoEntry.confirmed
    BY DEF NoEntry
  <1>3. TypeOK
    BY <1>1, <1>2, EmptyEntries, SessionAssumption DEF TypeOK, Established, Budget
  <1>4. NewestKeyHeld
    BY <1>1, <1>2 DEF NewestKeyHeld, Established, Handshaking
  <1>5. SentKeysInstalled /\ WindowRemembers /\ ConfirmedIsShared
    BY <1>1, <1>2 DEF SentKeysInstalled, WindowRemembers, ConfirmedIsShared
  <1>6. GrantTrail
    BY <1>1, <1>2 DEF GrantTrail, Established
  <1> QED
    BY <1>3, <1>4, <1>5, <1>6 DEF SessionInv

LEMMA InvNext == SessionInv /\ [Next]_vars => SessionInv'
  <1> SUFFICES ASSUME SessionInv, [Next]_vars PROVE SessionInv'
    OBVIOUS
  <1>1. CASE Next
    <2>1. TypeOK' /\ \E n \in Nodes : Shaped(n)
      BY <1>1, NextShape
    <2> QED
      BY <2>1, NewestStep, SentStep, WindowStep, SharedStep, TrailStep DEF SessionInv
  <1>2. CASE UNCHANGED vars
    BY Zenon, <1>2 DEF vars, SessionInv, TypeOK, NewestKeyHeld, SentKeysInstalled, WindowRemembers,
                ConfirmedIsShared, GrantTrail, Established, Handshaking
  <1> QED
    BY <1>1, <1>2

(* Each side holds the newest key it installed, so two sides that hold each *)
(* other's keys hold the same one.                                          *)
LEMMA NewestAgree == SessionInv => BothConfirmedAgree
  <1> SUFFICES ASSUME SessionInv, \A n \in Nodes : ent[n].confirmed, NEW n \in Nodes,
                      ent[n].key # ent[Other(n)].key
               PROVE  FALSE
    BY DEF BothConfirmedAgree
  <1> DEFINE o == Other(n)
             k == ent[n].key
             l == ent[o].key
  <1>1. o \in Nodes /\ Other(o) = n
    BY OtherNode
  <1>2. Established(n) /\ Established(o) /\ k \in used[o] /\ l \in used[n]
    BY <1>1 DEF SessionInv, WindowRemembers, ConfirmedIsShared
  <1>3. k \in Key /\ l \in Key
    BY <1>1, <1>2 DEF SessionInv, TypeOK
  <1>4. l.r < k.r /\ k.r < l.r
    BY <1>1, <1>2 DEF SessionInv, NewestKeyHeld
  <1> QED
    BY <1>3, <1>4 DEF Key

LEMMA TrailSettles == SessionInv => GrantSettled
  <1> SUFFICES ASSUME SessionInv, NEW n \in Nodes, Established(n), Established(Other(n)),
                      ent[n].key = ent[Other(n)].key, ent[n].gen > 0, ~ent[n].grantPending
               PROVE  /\ ent[Other(n)].theirGen = ent[n].gen
                      /\ ent[Other(n)].theirGrant = ent[n].grant
    BY DEF GrantSettled
  <1> DEFINE o == Other(n)
  <1>0. TypeOK /\ o \in Nodes /\ Other(o) = n /\ Trail(n) /\ Trail(o)
    BY OtherNode, TrailParts DEF SessionInv
  <1>1. ent[n] \in Entry /\ ent[o] \in Entry
    BY <1>0 DEF TypeOK
  <1>2. PICK a \in net : a.type = "grantack" /\ a.from = o /\ a.key = ent[o].key
                         /\ a.body = ent[n].gen
    BY <1>0 DEF Trail, Settled
  <1>3. ent[n].gen <= ent[o].theirGen
    BY <1>0, <1>2 DEF Trail, Acknowledged
  <1>4. PICK g \in net : g.type = "grant" /\ g.from = n /\ g.key = ent[n].key
                         /\ g.body = [value |-> ent[o].theirGrant, gen |-> ent[o].theirGen]
    BY <1>0, <1>1, <1>3 DEF Trail, Applied, Entry
  <1>5. /\ ent[o].theirGen <= ent[n].gen
        /\ ent[o].theirGen = ent[n].gen => ent[o].theirGrant = ent[n].grant
    BY <1>0, <1>4 DEF Trail, Announced
  <1> QED
    BY <1>1, <1>3, <1>5 DEF Entry

(* The invariant of the handshake, its keys and its grants holds in every   *)
(* reachable state, and with it: two sides that have each heard the other   *)
(* under their session hold the same key, whatever attempts crossed, were   *)
(* repeated, retried, removed or restarted on the way (Handshake_Validate,  *)
(* Handshake_Complete).                                                     *)
THEOREM Agreement == Spec => []SessionsAgree
  <1>1. SessionInv => SessionsAgree
    BY NewestAgree DEF SessionsAgree
  <1> QED
    BY InvInit, InvNext, <1>1, PTL DEF Spec

(* A grant that is no longer pending is the one the other side applies      *)
(* (SendPendingGrant, Grant_Update, Grant_Acked).                           *)
THEOREM GrantsSettle == Spec => []GrantSettled
  BY InvInit, InvNext, TrailSettles, PTL DEF Spec

(* CommitSession never resets the counters of a key this side had before.   *)
THEOREM InstalledOnce == Spec => KeysInstalledOnce
  <1> DEFINE Once(n) == ent'[n].st = "established"
                          /\ \/ ent[n].st # "established" \/ ent'[n].key # ent[n].key
                             \/ ent'[n].counter < ent[n].counter
                        => ent'[n].key \notin used[n]
  <1>1. SessionInv /\ [Next]_vars => [\A n \in Nodes : Once(n)]_vars
    <2> SUFFICES ASSUME SessionInv, Next, NEW x \in Nodes PROVE Once(x)
      OBVIOUS
    <2>0. ent[x] \in Entry
      BY DEF SessionInv, TypeOK
    <2>1. PICK n \in Nodes : TypeOK' /\ Shaped(n)
      BY NextShape
    <2>2. CASE x # n \/ Answered(n)
      <3>1. ent'[x] = ent[x]
        BY <2>1, <2>2, Zenon DEF Shaped, Cleared, Attempt, Install, Traffic, Answered, Frame
      <3>2. ~(ent[x].counter < ent[x].counter)
        BY <2>0 DEF Entry
      <3> QED
        BY <3>1, <3>2, Zenon
    <2>3. CASE x = n /\ Cleared(n)
      <3>1. ent'[x] = NoEntry
        BY <2>3, Zenon DEF Cleared
      <3>2. NoEntry.st # "established"
        BY DEF NoEntry
      <3> QED
        BY <3>1, <3>2, Zenon
    <2>4. CASE x = n /\ Attempt(n)
      BY <2>4 DEF Attempt
    <2>5. ASSUME x = n, NEW key, Install(n, key) PROVE Once(x)
      BY <2>5 DEF Install
    <2>6. CASE x = n /\ Traffic(n)
      <3>1. ent'[x] \in Entry
        BY <2>6 DEF Traffic, Frame
      <3> QED
        <4>1. /\ ent[x].st = "established" /\ ent'[x].key = ent[x].key
              /\ ent[x].counter <= ent'[x].counter
          BY <2>6, Zenon DEF Traffic, Established
        <4>2. ~(ent'[x].counter < ent[x].counter)
          BY <2>0, <3>1, <4>1 DEF Entry
        <4> QED
          BY <4>1, <4>2, Zenon
    <2> QED
      BY <2>1, <2>2, <2>3, <2>4, <2>5, <2>6, Zenon DEF Shaped
  <1> QED
    BY InvInit, InvNext, <1>1, PTL DEF Spec, KeysInstalledOnce

(* No packet is accepted twice, though the network repeats everything and   *)
(* the window is emptied with every key (PreProcessIn, CommitSession).      *)
THEOREM AcceptsOnce == Spec => AcceptedOnce
  <1> DEFINE Once(n) == \A c \in ent'[n].seen :
                          c \notin ent[n].seen \/ ent'[n].key # ent[n].key
                          => <<ent'[n].key, c>> \notin accepted[n]
  <1>1. SessionInv /\ [Next]_vars => [\A n \in Nodes : Once(n)]_vars
    <2> SUFFICES ASSUME SessionInv, Next, NEW x \in Nodes PROVE Once(x)
      OBVIOUS
    <2>1. PICK n \in Nodes : TypeOK' /\ Shaped(n)
      BY NextShape
    <2>2. CASE x # n \/ Answered(n)
      BY <2>1, <2>2 DEF Shaped, Cleared, Attempt, Install, Traffic, Answered, Frame
    <2>3. CASE x = n /\ Cleared(n)
      <3>1. ent'[x] = NoEntry
        BY <2>3, Zenon DEF Cleared
      <3>2. NoEntry.seen = {}
        BY DEF NoEntry
      <3> QED
        BY <3>1, <3>2, Zenon
    <2>4. CASE x = n /\ Attempt(n)
      BY <2>4 DEF Attempt
    <2>5. ASSUME x = n, NEW key, Install(n, key) PROVE Once(x)
      BY <2>5 DEF Install
    <2>6. CASE x = n /\ Traffic(n)
      BY <2>6, Zenon DEF Traffic, SessionInv, WindowRemembers
    <2> QED
      BY <2>1, <2>2, <2>3, <2>4, <2>5, <2>6, Zenon DEF Shaped
  <1> QED
    BY InvInit, InvNext, <1>1, PTL DEF Spec, AcceptedOnce
=============================================================================
