------------------------------ MODULE Session ------------------------------
(***************************************************************************)
(* Two sockets and the session between them: the four handshake messages   *)
(* with their retries, crossed and repeated attempts, keys, counters and   *)
(* the replay check, parked packets, receive grants, removal of a peer and *)
(* restart of a process.                                                   *)
(*                                                                         *)
(* Handlers of received packets and the tick run one at a time in a socket *)
(* (the update gate), so each is one action; application calls are actions *)
(* between them.  Cryptography is ideal: a key stands for the transcript   *)
(* that made it, named by the two ephemerals in it, and a packet opens     *)
(* only under the key that sealed it.  The network keeps every datagram it *)
(* was ever given: it may deliver one late, again, out of order or never.  *)
(* A cookie that expires is a lost message.                                *)
(***************************************************************************)
EXTENDS Naturals, FiniteSets

CONSTANTS
    StartPk,      \* node -> the rank of its public key
    FreshPks,     \* ranks a process can come back with after a restart
    RecvGrant,    \* recvGrant_, the grant a peer starts with
    Grants,       \* values SetRecvGrant is called with
    MaxAttempts,  \* HANDSHAKE_MAX_ATTEMPTS
    MaxPending,   \* slots of pendingPool_
    Bounds        \* the bounds a behaviour may have, one record each: throwaway
                  \* key pairs, packets one side seals under one key, calls of
                  \* SetRecvGrant, retries, peers removed, restarts

Nodes == DOMAIN StartPk

Budget == [ephs : Nat, packets : Nat, grants : Nat, retries : Nat, removals : Nat, restarts : Nat]

\* Two sockets, public keys compared by rank, at least one attempt.
ASSUME SessionAssumption ==
    /\ \E a, b \in Nodes : a # b /\ Nodes = {a, b}
    /\ StartPk \in [Nodes -> Nat] /\ FreshPks \subseteq Nat
    /\ RecvGrant \in Nat /\ Grants \subseteq Nat
    /\ MaxAttempts \in Nat \ {0} /\ MaxPending \in Nat
    /\ Bounds \subseteq Budget

Other(n) == CHOOSE m \in Nodes : m # n

NoKey == [i |-> 0, r |-> 0]
NoEntry == [st |-> "none", attempts |-> 0, id |-> 0, eph |-> 0, peerEph |-> 0,
            key |-> NoKey, confirmed |-> FALSE, counter |-> 0, seen |-> {},
            gen |-> 0, grantPending |-> FALSE, grant |-> 0,
            theirGen |-> 0, theirGrant |-> 0, parked |-> 0]

VARIABLES
    ent,       \* node -> its entry for the other
    pk,        \* node -> rank of its public key
    boot,      \* node -> incarnation, the owner of its cookie secret
    net,       \* every datagram ever sent
    ephs,      \* ephemerals drawn so far
    left,      \* what remains of the bounds
    used,      \* node -> keys it has installed (ghost)
    accepted   \* node -> packets it has accepted (ghost)

vars == <<ent, pk, boot, net, ephs, left, used, accepted>>

Init ==
    /\ ent = [n \in Nodes |-> NoEntry]
    /\ pk = StartPk /\ boot = [n \in Nodes |-> 0]
    /\ net = {} /\ ephs = 0
    /\ left \in Bounds
    /\ used = [n \in Nodes |-> {}] /\ accepted = [n \in Nodes |-> {}]

Handshaking(n) == ent[n].st \in {"challenge", "finish"}
Established(n) == ent[n].st = "established"

\* The datagrams node n may find in its socket.
Inbox(n) == {m \in net : m.from = Other(n)}

HsInit(n) == [type |-> "init", from |-> n]

\* RegisterPeer and SeedPeerRecvState.
Registered == [NoEntry EXCEPT !.st = "challenge", !.grant = RecvGrant]

-----------------------------------------------------------------------------
(* Sealed packets. *)

\* GatherSendMaterials takes the next counter for each packet it seals.
Sealed(n, e, k, type, body) ==
    [type |-> type, from |-> n, key |-> e.key, counter |-> e.counter + k, body |-> body]

Spend(e, k) == [e EXCEPT !.counter = @ + k]

(* FlushPending: everything parked behind the handshake is sealed and sent. *)
Flushed(e) == [Spend(e, e.parked) EXCEPT !.parked = 0]
Parked(n, e) == {Sealed(n, e, k, "data", 0) : k \in 1..e.parked}

(* CommitSession and the reset of the replay window beside it: counters     *)
(* restart, the grant goes out under a newer generation, and confirmed      *)
(* stays what it was.                                                       *)
CommitSession(e, id, key) ==
    LET keyed == [e EXCEPT !.st = "established", !.id = id, !.key = key, !.counter = 0,
                           !.seen = {}]
    IN IF RecvGrant = 0 THEN keyed
       ELSE [keyed EXCEPT !.gen = @ + 1, !.grantPending = TRUE]

-----------------------------------------------------------------------------
(* The application. *)

(* Connect, and a send to an unknown peer, which parks its packet behind    *)
(* the handshake it starts.                                                 *)
Connect(n, k) ==
    /\ ent[n].st = "none"
    /\ k \in {0, 1} /\ k <= MaxPending
    /\ ent' = [ent EXCEPT ![n] = [Registered EXCEPT !.attempts = 1, !.parked = k]]
    /\ net' = net \cup {HsInit(n)}
    /\ UNCHANGED <<pk, boot, ephs, left, used, accepted>>

(* PreProcessOut: a handshake in flight decides where the packet waits. *)
Send(n) ==
    \/ /\ Handshaking(n) /\ ent[n].parked < MaxPending
       /\ ent' = [ent EXCEPT ![n].parked = @ + 1]
       /\ UNCHANGED <<net, pk, boot, ephs, left, used, accepted>>
    \/ /\ Established(n) /\ ent[n].counter < left.packets
       /\ ent' = [ent EXCEPT ![n] = Spend(@, 1)]
       /\ net' = net \cup {Sealed(n, ent[n], 1, "data", 0)}
       /\ UNCHANGED <<pk, boot, ephs, left, used, accepted>>

(* SetRecvGrant and ApplyGrant. *)
SetRecvGrant(n, value) ==
    /\ ent[n].st # "none"
    /\ left.grants > 0
    /\ left' = [left EXCEPT !.grants = @ - 1]
    /\ ent' = [ent EXCEPT ![n].grant = value, ![n].gen = @ + 1, ![n].grantPending = TRUE]
    /\ UNCHANGED <<pk, boot, net, ephs, used, accepted>>

(* RemovePeer, called by the application or by the tick for silence. *)
RemovePeer(n) ==
    /\ ent[n].st # "none"
    /\ left.removals > 0
    /\ left' = [left EXCEPT !.removals = @ - 1]
    /\ ent' = [ent EXCEPT ![n] = NoEntry]
    /\ UNCHANGED <<pk, boot, net, ephs, used, accepted>>

(* The process dies and comes back, with its identity or a new one.  Its    *)
(* cookie secret is new.                                                    *)
Restart(n, rank) ==
    /\ left.restarts > 0
    /\ rank = pk[n] \/ rank \in FreshPks \ {pk[m] : m \in Nodes}
    /\ left' = [left EXCEPT !.restarts = @ - 1]
    /\ ent' = [ent EXCEPT ![n] = NoEntry]
    /\ pk' = [pk EXCEPT ![n] = rank]
    /\ boot' = [boot EXCEPT ![n] = @ + 1]
    /\ UNCHANGED <<net, ephs, used, accepted>>

-----------------------------------------------------------------------------
(* The handshake. *)

(* Handshake_Challenge keeps no state: the cookie can be recomputed. *)
Challenge(n, m) ==
    /\ m.type = "init"
    /\ net' = net \cup {[type |-> "challenge", from |-> n, cookie |-> boot[n]]}
    /\ UNCHANGED <<ent, pk, boot, ephs, left, used, accepted>>

(* Handshake_Respond answers one challenge per attempt, with a throwaway    *)
(* pair and a salt of its own.                                              *)
Respond(n, m) ==
    /\ m.type = "challenge" /\ ent[n].st = "challenge"
    /\ ephs < left.ephs
    /\ ephs' = ephs + 1
    /\ ent' = [ent EXCEPT ![n].st = "finish", ![n].eph = ephs + 1]
    /\ net' = net \cup {[type |-> "res", from |-> n, cookie |-> m.cookie, pk |-> pk[n],
                         eph |-> ephs + 1]}
    /\ UNCHANGED <<pk, boot, left, used, accepted>>

Finish(n, key) == [type |-> "finish", from |-> n, pk |-> pk[n], key |-> key]

\* mutant of MayRekey: a confirmed session is re-keyed by a fresh attempt.
MayRekeyConfirmed(e, eph) == TRUE

\* A fresh attempt re-keys only a peer that was never confirmed.
MayRekey(e, eph) == ~e.confirmed

\* Of two crossed attempts the one with the lower public key stands.
Yields(n, rank) == rank < pk[n]

(* What an attempt does to an entry that was there before it. *)
Verdict(n, m) ==
    LET e == ent[n]
    IN IF e.st = "none" THEN "fresh"
       ELSE IF ~Established(n) THEN (IF Yields(n, m.pk) THEN "commit" ELSE "drop")
       ELSE IF e.id # m.pk THEN (IF e.confirmed THEN "drop" ELSE "remove")
       ELSE IF e.peerEph = m.eph THEN "repeat"
       ELSE IF MayRekey(e, m.eph) THEN "commit" ELSE "drop"

(* Handshake_Validate with a cookie of this incarnation. *)
Validate(n, m) ==
    /\ m.type = "res" /\ m.cookie = boot[n]
    /\ LET v == Verdict(n, m)
           old == IF v = "fresh" THEN Registered ELSE ent[n]
           key == [i |-> m.eph, r |-> ephs + 1]
           new == [CommitSession(old, m.pk, key) EXCEPT !.peerEph = m.eph, !.eph = ephs + 1]
       IN \/ /\ v = "remove"
             /\ ent' = [ent EXCEPT ![n] = NoEntry]
             /\ UNCHANGED <<net, ephs, used>>
          \/ /\ v = "repeat"
             /\ ent' = [ent EXCEPT ![n] = Flushed(@)]
             /\ net' = net \cup {Finish(n, ent[n].key)} \cup Parked(n, ent[n])
             /\ UNCHANGED <<ephs, used>>
          \/ /\ v \in {"fresh", "commit"}
             /\ ephs < left.ephs
             /\ ephs' = ephs + 1
             /\ ent' = [ent EXCEPT ![n] = Flushed(new)]
             /\ net' = net \cup {Finish(n, key)} \cup Parked(n, new)
             /\ used' = [used EXCEPT ![n] = @ \cup {key}]
    /\ UNCHANGED <<pk, boot, left, accepted>>

\* mutant of Awaits: an established peer takes a FINISH again.
AwaitsAlways(n) == ent[n].st # "none"

\* Either waiting state takes a FINISH.
Awaits(n) == Handshaking(n)

(* Handshake_Complete: the confirmation fails unless the answer was made    *)
(* for the pair and salt this entry holds now.                              *)
Complete(n, m) ==
    /\ m.type = "finish" /\ Awaits(n) /\ ent[n].eph # 0 /\ m.key.i = ent[n].eph
    /\ LET new == CommitSession(ent[n], m.pk, m.key)
       IN /\ ent' = [ent EXCEPT ![n] = Flushed(new)]
          /\ net' = net \cup Parked(n, new)
          /\ used' = [used EXCEPT ![n] = @ \cup {m.key}]
    /\ UNCHANGED <<pk, boot, ephs, left, accepted>>

(* RetryHandshakes: back to the first state, or out of attempts. *)
RetryHandshakes(n) ==
    /\ Handshaking(n) /\ left.retries > 0
    /\ left' = [left EXCEPT !.retries = @ - 1]
    /\ IF ent[n].attempts >= MaxAttempts
       THEN /\ ent' = [ent EXCEPT ![n] = NoEntry]
            /\ UNCHANGED net
       ELSE /\ ent' = [ent EXCEPT ![n].st = "challenge", ![n].attempts = @ + 1]
            /\ net' = net \cup {HsInit(n)}
    /\ UNCHANGED <<pk, boot, ephs, used, accepted>>

-----------------------------------------------------------------------------
(* Under the session key. *)

\* The replay window takes each counter once.
Fresh(e, m) == m.counter \notin e.seen

(* PreProcessIn: the packet opens under the key held now, passes the replay *)
(* check, and confirms the peer.                                            *)
Opens(n, m) == Established(n) /\ m.key = ent[n].key /\ Fresh(ent[n], m)

Opened(n, m) == [ent[n] EXCEPT !.seen = @ \cup {m.counter}, !.confirmed = TRUE]

Accept(n, m) == accepted' = [accepted EXCEPT ![n] = @ \cup {<<m.key, m.counter>>}]

Receive(n, m) ==
    /\ m.type = "data" /\ Opens(n, m)
    /\ ent' = [ent EXCEPT ![n] = Opened(n, m)]
    /\ Accept(n, m)
    /\ UNCHANGED <<pk, boot, net, ephs, left, used>>

(* SendPendingGrant, from the tick, again until it is acknowledged. *)
SendPendingGrant(n) ==
    /\ Established(n) /\ ent[n].grantPending /\ ent[n].counter < left.packets
    /\ ent' = [ent EXCEPT ![n] = Spend(@, 1)]
    /\ net' = net \cup {Sealed(n, ent[n], 1, "grant", [value |-> ent[n].grant, gen |-> ent[n].gen])}
    /\ UNCHANGED <<pk, boot, ephs, left, used, accepted>>

\* The signed difference of the generations, which stay far from half their range.
Newer(gen, than) == gen > than

(* Grant_Update applies a newer grant and acknowledges any. *)
GrantUpdate(n, m) ==
    /\ m.type = "grant" /\ Opens(n, m) /\ ent[n].counter < left.packets
    /\ LET e == Opened(n, m)
           f == IF Newer(m.body.gen, e.theirGen)
                THEN [e EXCEPT !.theirGen = m.body.gen, !.theirGrant = m.body.value]
                ELSE e
       IN /\ ent' = [ent EXCEPT ![n] = Spend(f, 1)]
          /\ net' = net \cup {Sealed(n, f, 1, "grantack", m.body.gen)}
    /\ Accept(n, m)
    /\ UNCHANGED <<pk, boot, ephs, left, used>>

\* mutant of Settles: any acknowledgement settles the grant.
SettlesAny(e, gen) == e.grantPending

\* Only the outstanding generation clears the flag.
Settles(e, gen) == e.grantPending /\ gen = e.gen

(* Grant_Acked. *)
GrantAcked(n, m) ==
    /\ m.type = "grantack" /\ Opens(n, m)
    /\ ent' = [ent EXCEPT ![n] = [Opened(n, m) EXCEPT
                 !.grantPending = @ /\ ~Settles(ent[n], m.body)]]
    /\ Accept(n, m)
    /\ UNCHANGED <<pk, boot, net, ephs, left, used>>

-----------------------------------------------------------------------------
Next == \E n \in Nodes :
    \/ \E k \in {0, 1} : Connect(n, k)
    \/ Send(n) \/ RemovePeer(n) \/ RetryHandshakes(n) \/ SendPendingGrant(n)
    \/ \E v \in Grants : SetRecvGrant(n, v)
    \/ \E rank \in FreshPks \cup {pk[n]} : Restart(n, rank)
    \/ \E m \in Inbox(n) :
         \/ Challenge(n, m) \/ Respond(n, m) \/ Validate(n, m) \/ Complete(n, m)
         \/ Receive(n, m) \/ GrantUpdate(n, m) \/ GrantAcked(n, m)

Spec == Init /\ [][Next]_vars

-----------------------------------------------------------------------------
(* Properties. *)

Key == [i : Nat, r : Nat]

Entry == [st : {"none", "challenge", "finish", "established"}, attempts : 0..MaxAttempts,
          id : Nat, eph : Nat, peerEph : Nat, key : Key, confirmed : BOOLEAN, counter : Nat,
          seen : SUBSET Nat, gen : Nat, grantPending : BOOLEAN, grant : Nat,
          theirGen : Nat, theirGrant : Nat, parked : 0..MaxPending]

Plain == [type : {"init"}, from : Nodes]
    \cup [type : {"challenge"}, from : Nodes, cookie : Nat]
    \cup [type : {"res"}, from : Nodes, cookie : Nat, pk : Nat, eph : Nat]
    \cup [type : {"finish"}, from : Nodes, pk : Nat, key : Key]

UnderKey == [type : {"data"}, from : Nodes, key : Key, counter : Nat, body : {0}]
    \cup [type : {"grant"}, from : Nodes, key : Key, counter : Nat,
          body : [value : Nat, gen : Nat]]
    \cup [type : {"grantack"}, from : Nodes, key : Key, counter : Nat, body : Nat]

(* Entries, datagrams, keys and bounds keep their types and ranges, and     *)
(* nothing stays parked behind an established entry (FlushPending).         *)
TypeOK ==
    /\ ent \in [Nodes -> Entry]
    /\ pk \in [Nodes -> Nat] /\ boot \in [Nodes -> Nat]
    /\ net \subseteq Plain \cup UnderKey
    /\ left \in Budget /\ ephs \in 0..left.ephs
    /\ used \in [Nodes -> SUBSET Key]
    /\ accepted \in [Nodes -> SUBSET (Key \X Nat)]
    /\ \A n \in Nodes : Established(n) => ent[n].parked = 0

(* The order in which one side comes by its keys.  The responder's half of  *)
(* a key is drawn after the initiator's; an attempt in flight was drawn     *)
(* after every key installed so far; so an established entry holds the      *)
(* newest key its side ever installed.                                      *)
NewestKeyHeld ==
    \A n \in Nodes :
      /\ ent[n].eph <= ephs
      /\ \A k \in used[n] : k.i < k.r /\ k.r <= ephs
      /\ Handshaking(n) /\ ent[n].eph # 0 => \A k \in used[n] : k.r < ent[n].eph
      /\ Established(n) =>
           /\ ent[n].key \in used[n]
           /\ \A k \in used[n] : k # ent[n].key => k.r < ent[n].key.r

(* What the datagrams in flight say of their senders: an attempt carries an *)
(* ephemeral already drawn, and a FINISH or a sealed packet a key that its  *)
(* sender has installed.                                                    *)
SentKeysInstalled ==
    \A m \in net :
      /\ m.type = "res" => m.eph <= ephs
      /\ m.type \in {"finish", "data", "grant", "grantack"} => m.key \in used[m.from]

(* What was accepted under the key held now is in the replay window beside  *)
(* it, and only an established entry is confirmed.                          *)
WindowRemembers ==
    \A n \in Nodes :
      /\ ent[n].confirmed => Established(n)
      /\ \A p \in accepted[n] :
           p[1] \in used[n] /\ (Established(n) /\ p[1] = ent[n].key => p[2] \in ent[n].seen)

(* The trail of a grant.  Announcements under the key held now carry no     *)
(* generation above the entry's, and its value when they carry its own;     *)
(* what the entry acknowledged it has applied; what it applied was          *)
(* announced; and a grant no longer pending was acknowledged.               *)
GrantTrail ==
    \A n \in Nodes :
      LET e == ent[n]
          Under(type, from) == {m \in net : m.type = type /\ m.from = from /\ m.key = e.key}
      IN /\ ~e.confirmed => e.theirGen = 0 /\ (e.gen > 0 => e.grantPending)
         /\ Established(n) =>
              /\ \A m \in Under("grant", n) :
                   m.body.gen <= e.gen /\ (m.body.gen = e.gen => m.body.value = e.grant)
              /\ \A m \in Under("grantack", n) : m.body <= e.theirGen
              /\ e.theirGen > 0 => \E m \in Under("grant", Other(n)) :
                   m.body = [value |-> e.theirGrant, gen |-> e.theirGen]
              /\ e.gen > 0 /\ ~e.grantPending =>
                   \E m \in Under("grantack", Other(n)) : m.body = e.gen

(* No side ever installs a key it had before: CommitSession sets the send   *)
(* counter to zero, so a key installed twice would seal two packets under   *)
(* one counter and reopen the replay window.  Repeated answers, retries,    *)
(* removal and restart are among the steps.                                 *)
KeysInstalledOnce ==
    [][\A n \in Nodes :
         ent'[n].st = "established"
           /\ \/ ent[n].st # "established" \/ ent'[n].key # ent[n].key
              \/ ent'[n].counter < ent[n].counter
         => ent'[n].key \notin used[n]]_vars

(* A packet is accepted at most once, whatever the network repeats and      *)
(* whatever happens to the entry in between.                                *)
AcceptedOnce ==
    [][\A n \in Nodes : \A c \in ent'[n].seen :
         c \notin ent[n].seen \/ ent'[n].key # ent[n].key
         => <<ent'[n].key, c>> \notin accepted[n]]_vars

(* A confirmed peer holds a key that the other side has installed.  That is *)
(* what lets Handshake_Validate refuse to disturb it.                       *)
ConfirmedIsShared ==
    \A n \in Nodes : ent[n].confirmed => ent[n].key \in used[Other(n)]

(* Two sides that have each heard the other under their session hold the    *)
(* same key.                                                                *)
BothConfirmedAgree ==
    (\A n \in Nodes : ent[n].confirmed) => \A n \in Nodes : ent[n].key = ent[Other(n)].key

(* Over one session, a grant that is no longer pending is the one the other *)
(* side applies, whatever order announcements and acknowledgements came in. *)
GrantSettled ==
    \A n \in Nodes :
      LET e == ent[n]
          o == ent[Other(n)]
      IN /\ Established(n) /\ Established(Other(n)) /\ e.key = o.key
         /\ e.gen > 0 /\ ~e.grantPending
         => o.theirGen = e.gen /\ o.theirGrant = e.grant

(* The tie-break of a crossed handshake lands both sides on the same salts. *)
SameSalts ==
    (\A n \in Nodes : Established(n)) => \A n \in Nodes : ent[n].key = ent[Other(n)].key

\* The inductive invariant.
SessionInv ==
    TypeOK /\ NewestKeyHeld /\ SentKeysInstalled /\ WindowRemembers /\ ConfirmedIsShared
      /\ GrantTrail

(* What Handshake_Validate relies on when it leaves a confirmed entry alone: *)
(* its key is one the other side has, and the same one once both are         *)
(* confirmed.  With it, why: each side holds the newest key it installed.    *)
SessionsAgree == SessionInv /\ BothConfirmedAgree
=============================================================================
