--------------------------- MODULE MigrationProofs ---------------------------
(***************************************************************************)
(* The types, the route on file and the tag window, for any movers, slots, *)
(* addresses and bounds; the last two as long as no other thread removes   *)
(* peers while the receive path is between two locks (Removals = FALSE).   *)
(***************************************************************************)
EXTENDS Migration, TLAPS

-----------------------------------------------------------------------------
(* The types, and what the operators change of an entry of the peer table. *)

Entry == [who : Movers \cup {Nobody}, session : Nat, addr : Addrs \cup {Unset}, at : Nat, base : Nat,
          pathAddr : Addrs \cup {Unset}, pathStep : Nat, challenge : Nat]

----------------------------------------------------------------------------
\* What claiming changes of an entry, and what it leaves.
LEMMA EntryClaimed ==
  ASSUME NEW e \in Entry, NEW a \in Addrs \cup {Unset}, NEW n \in Nat,
         NEW x, x = [e EXCEPT !.pathAddr = a, !.base = n]
  PROVE  /\ x \in Entry
         /\ x.pathAddr = a /\ x.base = n
         /\ x.who = e.who /\ x.session = e.session /\ x.addr = e.addr /\ x.at = e.at
         /\ x.pathStep = e.pathStep /\ x.challenge = e.challenge
  <1>1. x \in Entry
    BY Zenon DEF Entry
  <1> QED
    BY <1>1 DEF Entry

\* An entry that is moved keeps all but its address and place.
LEMMA EntryMoved ==
  ASSUME NEW e \in Entry, NEW a \in Addrs \cup {Unset}, NEW n \in Nat,
         NEW x, x = [e EXCEPT !.addr = a, !.at = n]
  PROVE  /\ x \in Entry
         /\ x.addr = a /\ x.at = n
         /\ x.who = e.who /\ x.session = e.session /\ x.base = e.base
         /\ x.pathAddr = e.pathAddr /\ x.pathStep = e.pathStep /\ x.challenge = e.challenge
  <1>1. x \in Entry
    BY Zenon DEF Entry
  <1> QED
    BY <1>1 DEF Entry

\* What Armed leaves: the entry itself, or one armed afresh.
LEMMA ArmedEntry ==
  ASSUME TypeOK, NEW s \in Slots, NEW d \in toHolder
  PROVE  /\ Armed(s, d) \in Entry
         /\ Armed(s, d).who = peer[s].who /\ Armed(s, d).session = peer[s].session
         /\ Armed(s, d).addr = peer[s].addr /\ Armed(s, d).at = peer[s].at /\ Armed(s, d).base = peer[s].base
         /\ Armed(s, d).pathAddr = d.from
         /\ Armed(s, d) = peer[s] \/ Armed(s, d).challenge = challenges + 1
         /\ Armed(s, d) = peer[s] \/ Armed(s, d).pathStep = Presented(s, d.tag)
  <1>1. peer[s] \in Entry /\ Presented(s, d.tag) \in Nat /\ d.from \in Addrs /\ challenges + 1 \in Nat
    BY DEF TypeOK, Presented, Window, Entry
  <1>2. CASE peer[s].pathAddr = d.from
    BY <1>1, <1>2 DEF Armed
  <1>3. CASE peer[s].pathAddr # d.from
    <2>1. Armed(s, d) = [peer[s] EXCEPT !.pathAddr = d.from, !.pathStep = Presented(s, d.tag),
                                        !.challenge = challenges + 1]
      BY <1>3 DEF Armed
    <2> DEFINE x == Armed(s, d)
    <2>2. /\ x \in Entry
          /\ x.pathAddr = d.from /\ x.pathStep = Presented(s, d.tag) /\ x.challenge = challenges + 1
          /\ x.who = peer[s].who /\ x.session = peer[s].session /\ x.addr = peer[s].addr
          /\ x.at = peer[s].at /\ x.base = peer[s].base
      <3> HIDE DEF x
      <3> DEFINE e == peer[s]  a == d.from  n == Presented(s, d.tag)  c == challenges + 1
      <3>1. e \in Entry /\ a \in Addrs \cup {Unset} /\ n \in Nat /\ c \in Nat
        BY <1>1
      <3>2. x = [e EXCEPT !.pathAddr = a, !.pathStep = n, !.challenge = c]
        BY <2>1 DEF x
      <3> HIDE DEF e, a, n, c
      <3>3. /\ x \in Entry
            /\ x.pathAddr = a /\ x.pathStep = n /\ x.challenge = c
            /\ x.who = e.who /\ x.session = e.session /\ x.addr = e.addr /\ x.at = e.at /\ x.base = e.base
        <4>1. x \in Entry
          BY <3>1, <3>2, Zenon DEF Entry
        <4> QED
          BY <3>1, <3>2, <4>1 DEF Entry
      <3> QED
        BY <3>3 DEF e, a, n, c
    <2> QED
      BY <2>2
  <1> QED
    BY <1>2, <1>3

\* The type invariant of the entries of the peer table, the tag index and the
\* locals of PathChallenge_Complete.
THEOREM MigrationTypeCorrect == Spec => []TypeOK
<1>1. Init => TypeOK
  BY HomeAssumption, LimitsAssumption, SlotsAssumption DEF Init, TypeOK, Vacant, NoClaim
<1>2. TypeOK /\ [Next]_vars => TypeOK'
  <2> SUFFICES ASSUME TypeOK, [Next]_vars PROVE TypeOK'
    OBVIOUS
  <2> USE HomeAssumption, LimitsAssumption, SlotsAssumption
  <2>1. ASSUME NEW m \in Movers, NEW a \in Addrs, Move(m, a) PROVE TypeOK'
    BY <2>1 DEF Move, TypeOK
  <2>2. ASSUME NEW m \in Movers, RotateTags(m) PROVE TypeOK'
    BY <2>2 DEF RotateTags, TypeOK
  <2>3. ASSUME NEW m \in Movers, Send(m) PROVE TypeOK'
    BY <2>3 DEF Send, Datagram, moverVars, TypeOK
  <2>4. ASSUME NEW m \in Movers, NEW s \in Slots, Establish(m, s) PROVE TypeOK'
    <3>1. peer' \in [Slots -> Entry]
      <4>1. Committed(m) \in Entry
        BY DEF TypeOK, Committed, Entry
      <4> QED
        BY <2>4, <4>1 DEF Establish, TypeOK, Entry
    <3>2. tags' \subseteq (Nat \X Slots)
      BY <2>4 DEF Establish, Window, TypeOK
    <3> QED
      BY <2>4, <3>1, <3>2 DEF Establish, TypeOK, Entry
  <2>5. ASSUME NEW m \in Movers, NEW c \in toMover, PathChallengeRespond(m, c) PROVE TypeOK'
    BY <2>5 DEF PathChallengeRespond, Datagram, moverVars, TypeOK
  <2>6. ASSUME NEW d \in toHolder, Lose(d) PROVE TypeOK'
    BY <2>6 DEF Lose, moverVars, TypeOK
  <2>7. ASSUME NEW d \in toHolder, ReceiveFromPeer(d) PROVE TypeOK'
    BY <2>7 DEF ReceiveFromPeer, Accept, moverVars, TypeOK
  <2>8. ASSUME NEW d \in toHolder, TryMigrate(d) PROVE TypeOK'
    <3>1. PICK s \in Tagged(d.tag) :
             /\ peer' = [peer EXCEPT ![s] = Armed(s, d)]
             /\ challenges' = IF Armed(s, d) = peer[s] THEN challenges ELSE challenges + 1
             /\ toMover' = toMover \cup {[who |-> d.who, session |-> d.session, to |-> d.from,
                                         challenge |-> Armed(s, d).challenge]}
      BY Zenon, <2>8 DEF TryMigrate, Challenges
    <3>2. s \in Slots /\ Armed(s, d) \in Entry
      BY <3>1, ArmedEntry DEF Tagged, Live
    <3>3. peer' \in [Slots -> Entry] /\ challenges' \in Nat
      BY <3>1, <3>2 DEF TypeOK, Entry
    <3>4. toMover' \subseteq [who : Movers, session : Nat, to : Addrs, challenge : Nat]
      BY <3>1, <3>2 DEF TypeOK, Entry
    <3> QED
      BY <2>8, <3>3, <3>4 DEF TryMigrate, Accept, moverVars, TypeOK, Entry
  <2>9. ASSUME NEW d \in toHolder, Claim(d) PROVE TypeOK'
    <3>1. PICK s \in Slots :
             /\ peer' = [peer EXCEPT ![s] = [@ EXCEPT !.pathAddr = Unset, !.base = peer[s].pathStep]]
             /\ claim' = [stage |-> "rebind", slot |-> s, from |-> d.from, at |-> d.at,
                          old |-> peer[s].base, new |-> peer[s].pathStep]
      BY Zenon, <2>9 DEF Claim, Tagged, Live
    <3>2. peer[s] \in Entry
      BY DEF TypeOK, Entry
    <3>3. peer' = [peer EXCEPT ![s] = [peer[s] EXCEPT !.pathAddr = Unset, !.base = peer[s].pathStep]]
      BY <3>1, Zenon
    <3>4. [peer[s] EXCEPT !.pathAddr = Unset, !.base = peer[s].pathStep] \in Entry
      BY Zenon, <3>2, EntryClaimed DEF Entry
    <3>5. peer' \in [Slots -> Entry]
      BY <3>3, <3>4 DEF TypeOK, Entry
    <3> QED
      BY <2>9, <3>1, <3>2, <3>5 DEF Claim, Accept, moverVars, TypeOK, Entry
  <2>10. ASSUME NEW d \in toHolder, Disregard(d) PROVE TypeOK'
    BY <2>10 DEF Disregard, Accept, moverVars, TypeOK
  <2>11. ASSUME NEW c \in toMover, LoseChallenge(c) PROVE TypeOK'
    BY <2>11 DEF LoseChallenge, moverVars, TypeOK
  <2>12. CASE UpdateAddress
    <3>1. claim.slot \in Slots /\ peer[claim.slot] \in Entry /\ claim.from \in Addrs \cup {Unset} /\ claim.at \in Nat
      BY DEF TypeOK, Entry
    <3>2. [peer[claim.slot] EXCEPT !.addr = claim.from, !.at = claim.at] \in Entry
      BY Zenon, <3>1, EntryMoved
    <3>3. peer' = peer \/ peer' = [peer EXCEPT ![claim.slot] = [peer[claim.slot] EXCEPT !.addr = claim.from, !.at = claim.at]]
      BY <2>12, Zenon DEF UpdateAddress
    <3>4. peer \in [Slots -> Entry]
      BY DEF TypeOK, Entry
    <3>5. peer' \in [Slots -> Entry]
      BY <3>1, <3>2, <3>3, <3>4, Zenon
    <3> QED
      BY <2>12, <3>5 DEF UpdateAddress, moverVars, TypeOK, Entry
  <2>13. CASE SlideTagWindow
    <3>1. NoClaim \in [stage : {"none", "rebind", "slide"}, slot : Slots, from : Addrs \cup {Unset},
                       at : Nat, old : Nat, new : Nat]
      BY DEF NoClaim
    <3>2. Bound \subseteq (Nat \X Slots)
      BY DEF Bound, TypeOK
    <3> QED
      BY <2>13, <3>1, <3>2 DEF SlideTagWindow, moverVars, TypeOK
  <2>14. ASSUME NEW s \in Slots, RemovePeer(s) PROVE TypeOK'
    BY <2>14 DEF RemovePeer, Vacant, moverVars, TypeOK
  <2>15. CASE UNCHANGED vars
    BY <2>15 DEF vars, TypeOK
  <2> QED
    BY <2>1, <2>2, <2>3, <2>4, <2>5, <2>6, <2>7, <2>8, <2>9, <2>10, <2>11, <2>12, <2>13, <2>14, <2>15
    DEF Next, Leave
<1> QED
  BY <1>1, <1>2, PTL DEF Spec

-----------------------------------------------------------------------------
(* The route on file. *)

\* One step of one thread keeps challenges, answers and claims tied to their
\* entries.
LEMMA RouteInvStep ==
  ASSUME TypeOK, TypeOK', RouteInv, [Next]_vars, ~Removals
  PROVE  RouteInv'
  <1> USE HomeAssumption DEF RouteInv
  <1>1. ASSUME NEW m \in Movers, NEW a \in Addrs, Move(m, a) PROVE RouteInv'
    <2>1. \A k \in Movers, n \in Nat : \A b : Place(k, n, b) => Place(k, n, b)'
      BY <1>1 DEF Move, Place, TypeOK
    <2>2. \A k \in Movers : Place(k, moves[k], addr[k])'
      BY <1>1 DEF Move, Place, Places, TypeOK
    <2>3. Places' /\ ClaimIsTheirs'
      BY <1>1, <2>1, <2>2 DEF Move, Places, ClaimIsTheirs, Live, Waiting, TypeOK
    <2> QED
      BY <1>1, <2>3 DEF Move, Drawn, Rounds, Live, Waiting
  <1>2. ASSUME NEW m \in Movers, RotateTags(m) PROVE RouteInv'
    BY <1>2 DEF RotateTags, Place, Places, Drawn, Rounds, ClaimIsTheirs, Live, Waiting
  <1>3. ASSUME NEW m \in Movers, Send(m) PROVE RouteInv'
    BY <1>3 DEF Send, Datagram, moverVars, Place, Places, Drawn, Rounds, ClaimIsTheirs, Live, Waiting, TypeOK
  <1>4. ASSUME NEW m \in Movers, NEW s \in Slots, Establish(m, s) PROVE RouteInv'
    <2>1. /\ peer' = [peer EXCEPT ![s] = Committed(m)]
          /\ claim = NoClaim /\ s \notin Live
          /\ UNCHANGED <<addr, moves, been, toHolder, toMover, challenges, claim>>
      BY <1>4 DEF Establish
    <2>2. Live' = Live \cup {s} /\ Waiting' = Waiting /\ \A k \in Slots \ {s} : peer'[k] = peer[k]
      BY <2>1 DEF Live, Waiting, Committed, TypeOK
    <2>3. peer'[s] = Committed(m)
      BY <2>1 DEF TypeOK
    <2>4. Places'
      <3>1. Place(m, moves[m], addr[m])
        BY DEF Places
      <3> QED
        BY <2>1, <2>2, <2>3, <3>1 DEF Places, Place, Committed
    <2>5. Drawn' /\ Rounds'
      BY <2>1, <2>2, <2>3 DEF Drawn, Rounds, Committed, TypeOK, Waiting, Live
    <2> QED
      BY <2>1, <2>4, <2>5 DEF ClaimIsTheirs, NoClaim
  <1>5. ASSUME NEW m \in Movers, NEW c \in toMover, PathChallengeRespond(m, c) PROVE RouteInv'
    <2>1. /\ toMover' = toMover \ {c} /\ c.who = m
          /\ toHolder' = toHolder \cup {Datagram(m, "response", c.challenge, moves[m])}
          /\ UNCHANGED <<addr, moves, been, peer, challenges, claim>>
      BY <1>5 DEF PathChallengeRespond, moverVars
    <2>2. Live' = Live /\ Waiting' = Waiting
      BY <2>1 DEF Live, Waiting
    <2>3. Places' /\ Drawn' /\ ClaimIsTheirs'
      BY <2>1, <2>2 DEF Places, Place, Drawn, ClaimIsTheirs, Datagram
    <2>4. Rounds'
      <3> SUFFICES ASSUME NEW s \in Waiting, NEW d \in toHolder', d.kind = "response", d.echo = peer[s].challenge
                   PROVE  d.who = peer[s].who /\ d.at >= peer[s].at
        BY <2>1, <2>2 DEF Rounds
      <3>1. CASE d \in toHolder
        BY <3>1 DEF Rounds
      <3>2. CASE d = Datagram(m, "response", c.challenge, moves[m])
        <4>1. peer[s].who = m
          BY <2>1, <3>2 DEF Rounds, Datagram
        <4>2. Place(m, peer[s].at, peer[s].addr)
          BY <4>1 DEF Places, Waiting
        <4> QED
          BY <3>2, <4>1, <4>2 DEF Datagram, Place, TypeOK, Waiting, Live
      <3> QED
        BY <2>1, <3>1, <3>2
    <2> QED
      BY <2>3, <2>4
  <1>6. ASSUME NEW d \in toHolder, Lose(d) \/ ReceiveFromPeer(d) \/ Disregard(d) PROVE RouteInv'
    <2>1. /\ toHolder' = toHolder \ {d}
          /\ UNCHANGED <<addr, moves, been, session, step, limit, peer, tags, toMover, challenges, claim>>
      BY <1>6, Zenon DEF Lose, ReceiveFromPeer, Disregard, Accept, moverVars
    <2> QED
      BY <2>1 DEF Place, Places, Drawn, Rounds, ClaimIsTheirs, Live, Waiting
  <1>7. ASSUME NEW d \in toHolder, TryMigrate(d) PROVE RouteInv'
    <2>1. PICK s \in Tagged(d.tag) :
             /\ Opens(s, d)
             /\ peer' = [peer EXCEPT ![s] = Armed(s, d)]
             /\ challenges' = IF Armed(s, d) = peer[s] THEN challenges ELSE challenges + 1
             /\ toMover' = toMover \cup {[who |-> d.who, session |-> d.session, to |-> d.from,
                                         challenge |-> Armed(s, d).challenge]}
      BY Zenon, <1>7 DEF TryMigrate, Challenges
    <2>2. claim = NoClaim /\ toHolder' \subseteq toHolder /\ UNCHANGED <<addr, moves, been, claim>>
      BY <1>7 DEF TryMigrate, Accept, moverVars
    <2> DEFINE x == Armed(s, d)
    <2>3. s \in Live /\ s \in Slots
      BY DEF Tagged, Live
    <2>4. /\ x.who = peer[s].who /\ x.addr = peer[s].addr /\ x.at = peer[s].at /\ x.pathAddr = d.from
          /\ x \in Entry
          /\ x = peer[s] \/ x.challenge = challenges + 1
      BY <2>3, ArmedEntry
    <2> HIDE DEF x
    <2>5. peer'[s] = x /\ \A k \in Slots \ {s} : peer'[k] = peer[k]
      BY <2>1, <2>3 DEF TypeOK, x
    <2>6. Live' = Live /\ Waiting' = Waiting \cup {s}
      <3>1. d.from # Unset
        BY HomeAssumption DEF TypeOK
      <3>2. Live' = Live
        BY <2>3, <2>4, <2>5 DEF Live
      <3> QED
        BY <2>3, <2>4, <2>5, <3>1, <3>2 DEF Waiting, Live
    <2>7. Places'
      BY <2>2, <2>4, <2>5, <2>6 DEF Places, Place, Live
    <2>8. challenges' \in Nat /\ challenges <= challenges' /\ x.challenge <= challenges'
      BY <2>1, <2>3, <2>4 DEF Drawn, TypeOK, x
    <2>9. Drawn'
      BY <2>1, <2>2, <2>4, <2>5, <2>8 DEF Drawn, TypeOK, Entry, x
    <2>10. Rounds'
      <3>1. CASE x = peer[s]
        <4>1. peer' = peer /\ Waiting' = Waiting /\ s \in Waiting
          BY <2>3, <2>4, <2>5, <2>6, <3>1 DEF TypeOK, Waiting
        <4>2. d.who = peer[s].who
          BY <2>1 DEF Opens
        <4>3. \A c \in toMover' : c \in toMover \/ (c.who = d.who /\ c.challenge = peer[s].challenge)
          BY <2>1, <3>1 DEF x
        <4> QED
          BY <2>2, <4>1, <4>2, <4>3 DEF Rounds
      <3>2. CASE x.challenge = challenges + 1
        <4>1. \A k \in Waiting \ {s} : peer[k].challenge # challenges + 1
          BY DEF Drawn, Waiting, Live, TypeOK
        <4>2. \A c \in toMover : c.challenge # challenges + 1
          BY DEF Drawn, TypeOK
        <4>3. \A e \in toHolder : e.echo # challenges + 1
          BY DEF Drawn, TypeOK
        <4>4. \A c \in toMover' : c \in toMover \/ (c.who = peer[s].who /\ c.challenge = challenges + 1)
          BY <2>1, <3>2 DEF x, Opens
        <4>5. \A k \in Waiting' : k = s \/ (k \in Waiting \ {s} /\ peer'[k] = peer[k])
          BY <2>5, <2>6 DEF Waiting, Live
        <4> QED
          BY <2>2, <2>4, <2>5, <2>6, <3>2, <4>1, <4>2, <4>3, <4>4, <4>5 DEF Rounds
      <3> QED
        BY <2>4, <3>1, <3>2
    <2> QED
      BY <2>2, <2>7, <2>9, <2>10 DEF ClaimIsTheirs, NoClaim
  <1>8. ASSUME NEW d \in toHolder, Claim(d) PROVE RouteInv'
    <2>1. PICK s \in Tagged(d.tag) :
             /\ Answers(s, d)
             /\ peer' = [peer EXCEPT ![s] = [@ EXCEPT !.pathAddr = Unset, !.base = peer[s].pathStep]]
             /\ claim' = [stage |-> "rebind", slot |-> s, from |-> d.from, at |-> d.at,
                          old |-> peer[s].base, new |-> peer[s].pathStep]
      BY <1>8, Zenon DEF Claim
    <2>2. d.kind = "response" /\ toHolder' \subseteq toHolder /\ UNCHANGED <<addr, moves, been, toMover, challenges>>
      BY <1>8 DEF Claim, Accept, moverVars
    <2> DEFINE x == [peer[s] EXCEPT !.pathAddr = Unset, !.base = peer[s].pathStep]
    <2>3. s \in Live /\ s \in Slots
      BY DEF Tagged, Live
    <2>4. /\ x.who = peer[s].who /\ x.addr = peer[s].addr /\ x.at = peer[s].at /\ x.pathAddr = Unset
          /\ x.challenge = peer[s].challenge
      <3>1. peer[s] \in Entry
        BY <2>3 DEF TypeOK, Entry
      <3> QED
        BY <3>1 DEF Entry
    <2>5. peer'[s] = x /\ \A k \in Slots \ {s} : peer'[k] = peer[k]
      <3>1. peer' = [peer EXCEPT ![s] = x]
        BY <2>1, Zenon
      <3> HIDE DEF x
      <3> QED
        BY <3>1, <2>3 DEF TypeOK
    <2> HIDE DEF x
    <2>6. Live' = Live /\ Waiting' = Waiting \ {s}
      <3>1. Live' = Live
        BY <2>3, <2>4, <2>5 DEF Live
      <3> QED
        BY <2>3, <2>4, <2>5, <3>1 DEF Waiting, Live
    <2>7. s \in Waiting
      BY <2>1, <2>3 DEF Answers, Waiting, TypeOK
    <2>8. Places'
      BY <2>2, <2>4, <2>5, <2>6 DEF Places, Place, Live
    <2>9. Drawn'
      BY <2>2, <2>3, <2>4, <2>5 DEF Drawn
    <2>10. Rounds'
      BY <2>2, <2>5, <2>6 DEF Rounds, Waiting, Live
    <2>11. ClaimIsTheirs'
      <3>1. d.who = peer[s].who /\ d.at >= peer[s].at
        BY <2>1, <2>2, <2>7 DEF Rounds, Answers
      <3>2. Place(d.who, d.at, d.from)
        BY <2>2 DEF Places
      <3> QED
        BY <2>1, <2>2, <2>3, <2>4, <2>5, <2>6, <3>1, <3>2 DEF ClaimIsTheirs, Place
    <2> QED
      BY <2>8, <2>9, <2>10, <2>11
  <1>9. ASSUME NEW c \in toMover, LoseChallenge(c) PROVE RouteInv'
    BY <1>9 DEF LoseChallenge, moverVars, Place, Places, Drawn, Rounds, ClaimIsTheirs, Live, Waiting
  <1>10. CASE UpdateAddress
    <2>1. /\ claim.stage = "rebind" /\ claim' = [claim EXCEPT !.stage = "slide"]
          /\ UNCHANGED <<addr, moves, been, toHolder, toMover, challenges>>
      BY <1>10 DEF UpdateAddress, moverVars
    <2>2. /\ claim'.stage = "slide" /\ claim'.slot = claim.slot /\ claim'.at = claim.at /\ claim'.from = claim.from
      BY <2>1 DEF TypeOK
    <2> DEFINE s == claim.slot
               x == [peer[s] EXCEPT !.addr = claim.from, !.at = claim.at]
    <2>3. s \in Slots /\ s \in Live /\ s \notin Waiting /\ Place(peer[s].who, claim.at, claim.from)
      BY <2>1 DEF ClaimIsTheirs, TypeOK
    <2>4. CASE peer' = peer
      BY <2>1, <2>2, <2>4 DEF Place, Places, Drawn, Rounds, ClaimIsTheirs, Live, Waiting
    <2>5. CASE peer' = [peer EXCEPT ![s] = x]
      <3>1. /\ x.who = peer[s].who /\ x.addr = claim.from /\ x.at = claim.at /\ x.pathAddr = peer[s].pathAddr
            /\ x.challenge = peer[s].challenge
        <4>1. peer[s] \in Entry
          BY <2>3 DEF TypeOK, Entry
        <4> HIDE DEF s
        <4> QED
          BY <4>1 DEF Entry
      <3> HIDE DEF x, s
      <3>2. peer'[s] = x /\ \A k \in Slots \ {s} : peer'[k] = peer[k]
        BY <2>3, <2>5 DEF TypeOK
      <3>3. Live' = Live /\ Waiting' = Waiting
        BY <2>3, <3>1, <3>2 DEF Live, Waiting
      <3>4. Places'
        BY Zenon, <2>1, <2>3, <3>1, <3>2, <3>3 DEF Places, Place, Live
      <3>5. Drawn'
        BY <2>1, <2>3, <3>1, <3>2 DEF Drawn
      <3>6. Rounds'
        BY <2>1, <2>3, <3>2, <3>3 DEF Rounds, Waiting, Live
      <3>7. ClaimIsTheirs'
        BY <2>1, <2>2, <2>3, <3>1, <3>2, <3>3 DEF ClaimIsTheirs, Place, s
      <3> QED
        BY <3>4, <3>5, <3>6, <3>7
    <2> QED
      BY <1>10, <2>4, <2>5, Zenon DEF UpdateAddress
  <1>11. CASE SlideTagWindow
    BY <1>11 DEF SlideTagWindow, NoClaim, moverVars, Place, Places, Drawn, Rounds, ClaimIsTheirs, Live, Waiting
  <1>12. ASSUME NEW s \in Slots, RemovePeer(s) PROVE RouteInv'
    <2>1. /\ peer' = [peer EXCEPT ![s] = Vacant]
          /\ claim = NoClaim /\ s \in Live
          /\ UNCHANGED <<addr, moves, been, toHolder, toMover, challenges, claim>>
      BY <1>12 DEF RemovePeer, moverVars
    <2>2. Live' = Live \ {s} /\ Waiting' = Waiting \ {s} /\ \A k \in Slots \ {s} : peer'[k] = peer[k]
      BY <2>1 DEF Live, Waiting, Vacant, TypeOK
    <2>3. Places'
      BY <2>1, <2>2 DEF Places, Place, Live
    <2>4. Drawn'
      BY <2>1 DEF Drawn, Vacant, TypeOK
    <2>5. Rounds'
      BY <2>1, <2>2 DEF Rounds, Live, Waiting
    <2> QED
      BY <2>1, <2>3, <2>4, <2>5 DEF ClaimIsTheirs, NoClaim
  <1>13. CASE UNCHANGED vars
    BY <1>13 DEF vars, Place, Places, Drawn, Rounds, ClaimIsTheirs, Live, Waiting
  <1> QED
    BY <1>1, <1>2, <1>3, <1>4, <1>5, <1>6, <1>7, <1>8, <1>9, <1>10, <1>11, <1>12, <1>13 DEF Next, Leave

\* Every challenge, answer and claim of PathChallenge_Complete is tied to one
\* entry of one peer, as long as no peer is removed while it runs.
THEOREM RouteInvariant ==
  ASSUME ~Removals
  PROVE  Spec => []RouteInv
  <1>1. Init => RouteInv
    BY HomeAssumption DEF Init, RouteInv, Places, Place, Drawn, Rounds, ClaimIsTheirs, Live, Waiting, Vacant, NoClaim
  <1>2. TypeOK /\ TypeOK' /\ RouteInv /\ [Next]_vars => RouteInv'
    BY RouteInvStep
  <1> QED
    BY <1>1, <1>2, MigrationTypeCorrect, PTL DEF Spec

\* The holder sends only where the peer of the entry itself has been: the route
\* PathChallenge_Complete moves to is the place of that peer.
THEOREM RouteCorrect ==
  ASSUME ~Removals
  PROVE  Spec => []RouteIsTheirs
  <1>1. RouteInv => RouteIsTheirs
    BY DEF RouteInv, Places, Place, RouteIsTheirs
  <1> QED
    BY <1>1, RouteInvariant, PTL

\* A late answer from an earlier place never takes the route back.
THEOREM RouteAdvances ==
  ASSUME ~Removals
  PROVE  Spec => RouteNeverGoesBack
  <1> DEFINE Forward == \A s \in Slots : peer'[s].session = peer[s].session /\ peer'[s].who = peer[s].who
                                         => peer'[s].at >= peer[s].at
  <1>1. TypeOK /\ RouteInv /\ [Next]_vars => [Forward]_vars
    <2> SUFFICES ASSUME TypeOK, RouteInv, Next PROVE Forward
      OBVIOUS
    <2>1. \A s \in Slots : peer[s].at >= peer[s].at
      BY DEF TypeOK
    <2>2. CASE UNCHANGED peer
      BY <2>1, <2>2
    <2>3. ASSUME NEW m \in Movers, NEW s \in Slots, Establish(m, s) PROVE Forward
      <3>1. peer' = [peer EXCEPT ![s] = Committed(m)] /\ peer[s].who = Nobody
        BY <2>3 DEF Establish, Live
      <3>2. Committed(m).who # Nobody
        BY HomeAssumption DEF Committed
      <3> QED
        BY <2>1, <3>1, <3>2 DEF TypeOK
    <2>4. ASSUME NEW d \in toHolder, TryMigrate(d) PROVE Forward
      <3>1. PICK s \in Tagged(d.tag) : peer' = [peer EXCEPT ![s] = Armed(s, d)]
        BY Zenon, <2>4 DEF TryMigrate
      <3>2. s \in Slots /\ Armed(s, d).at = peer[s].at
        BY ArmedEntry DEF Tagged, Live
      <3> QED
        BY <2>1, <3>1, <3>2 DEF TypeOK
    <2>5. ASSUME NEW d \in toHolder, Claim(d) PROVE Forward
      <3>1. PICK s \in Slots : peer' = [peer EXCEPT ![s] = [@ EXCEPT !.pathAddr = Unset, !.base = peer[s].pathStep]]
        BY <2>5, Zenon DEF Claim, Tagged, Live
      <3> DEFINE x == [peer[s] EXCEPT !.pathAddr = Unset, !.base = peer[s].pathStep]
      <3>2. peer' = [peer EXCEPT ![s] = x]
        BY <3>1, Zenon
      <3>3. x.at = peer[s].at
        <4>1. peer[s] \in Entry
          BY DEF TypeOK, Entry
        <4> QED
          BY <4>1 DEF Entry
      <3> HIDE DEF x
      <3> QED
        BY <2>1, <3>2, <3>3 DEF TypeOK
    <2>6. CASE UpdateAddress
      <3> DEFINE s == claim.slot
                 x == [peer[s] EXCEPT !.addr = claim.from, !.at = claim.at]
      <3>1. peer' = peer \/ peer' = [peer EXCEPT ![s] = x]
        BY <2>6, Zenon DEF UpdateAddress
      <3>2. s \in Slots /\ claim.at >= peer[s].at
        BY <2>6 DEF UpdateAddress, RouteInv, ClaimIsTheirs, TypeOK
      <3>3. x.at = claim.at
        <4>1. peer[s] \in Entry
          BY <3>2 DEF TypeOK, Entry
        <4> HIDE DEF s
        <4> QED
          BY <4>1 DEF Entry
      <3> HIDE DEF x, s
      <3> QED
        BY <2>1, <2>2, <3>1, <3>2, <3>3 DEF TypeOK
    <2>7. ASSUME NEW s \in Slots, RemovePeer(s) PROVE Forward
      <3>1. peer' = [peer EXCEPT ![s] = Vacant] /\ peer[s].who # Nobody
        BY <2>7 DEF RemovePeer, Live
      <3>2. Vacant.who = Nobody
        BY DEF Vacant
      <3> QED
        BY <2>1, <3>1, <3>2 DEF TypeOK
    <2> QED
      BY Zenon, <2>2, <2>3, <2>4, <2>5, <2>6, <2>7
      DEF Next, Leave, Move, RotateTags, Send, PathChallengeRespond, Lose, LoseChallenge,
          ReceiveFromPeer, Disregard, SlideTagWindow, moverVars
  <1> QED
    BY <1>1, RouteInvariant, MigrationTypeCorrect, PTL DEF Spec, RouteNeverGoesBack

-----------------------------------------------------------------------------
(* The tag window. *)

\* The tags of a slot are the rows of the index that name it.
LEMMA TagsOfBound == \A t, s : t \in TagsOf(s) <=> <<t, s>> \in tags
  BY DEF TagsOf

\* What the holder has heard of a mover only grows while its session lasts,
\* and covers the step of a packet just accepted.
LEMMA AcceptHears ==
  ASSUME TypeOK, NEW d \in toHolder, Accept(d)
  PROVE  /\ \A m \in Movers : heard'[m] \in Nat /\ heard[m] <= heard'[m]
         /\ d.session = session[d.who] => d.tag <= heard'[d.who]
  BY DEF Accept, TypeOK

\* The slide by SlideTagWindow turns one window of three steps into another.
LEMMA WindowSlides ==
  ASSUME NEW old \in Nat, NEW new \in Window(old), NEW t
  PROVE  t \in Window(new) <=> (t \in Window(old) /\ t \notin old .. new - 1) \/ t \in old + 3 .. new + 2
  BY DEF Window

\* One step of one thread keeps the bound tags those of the window in force.
LEMMA WindowInvStep ==
  ASSUME TypeOK, TypeOK', WindowInv, [Next]_vars, ~Removals
  PROVE  WindowInv'
  <1> USE HomeAssumption
  <1>1. CASE UNCHANGED <<session, peer, tags, claim, heard>>
    BY <1>1 DEF WindowInv, TagsOf, BoundFrom, Live, Waiting
  <1>2. ASSUME NEW d \in toHolder, Accept(d), UNCHANGED <<session, peer, tags, claim>> PROVE WindowInv'
    <2>1. \A s \in Live : peer[s].who \in Movers /\ peer[s].base \in Nat /\ peer[s].pathStep \in Nat
      BY DEF Live, TypeOK
    <2>2. \A m \in Movers : heard[m] \in Nat /\ heard'[m] \in Nat /\ heard[m] <= heard'[m]
      BY <1>2, AcceptHears DEF TypeOK
    <2>3. \A s \in Live : TagsOf(s)' = TagsOf(s) /\ BoundFrom(s)' = BoundFrom(s)
      BY <1>2 DEF TagsOf, BoundFrom
    <2>4. Live' = Live /\ Waiting' = Waiting /\ Waiting \subseteq Live
      BY <1>2 DEF Live, Waiting
    <2> QED
      BY <1>2, <2>1, <2>2, <2>3, <2>4 DEF WindowInv
  <1>3. ASSUME NEW m \in Movers, NEW s \in Slots, Establish(m, s) PROVE WindowInv'
    <2>1. /\ claim = NoClaim /\ claim' = claim /\ s \notin Live /\ \A k \in Live : peer[k].who # m
          /\ session' = [session EXCEPT ![m] = @ + 1] /\ heard' = [heard EXCEPT ![m] = 0]
          /\ peer' = [peer EXCEPT ![s] = Committed(m)]
          /\ tags' = tags \cup (Window(0) \X {s})
      BY <1>3 DEF Establish
    <2>2. /\ peer'[s] = Committed(m) /\ \A k \in Slots \ {s} : peer'[k] = peer[k]
          /\ Live' = Live \cup {s} /\ Waiting' = Waiting
      BY <2>1 DEF Live, Waiting, Committed, TypeOK
    <2>3. claim.stage = "none" /\ \A k : BoundFrom(k)' = peer'[k].base /\ BoundFrom(k) = peer[k].base
      BY <2>1 DEF NoClaim, BoundFrom
    <2>4. \A b \in tags' : b[2] \in Live'
      BY <2>1, <2>2 DEF WindowInv
    <2>5. \A k \in Live' : /\ peer'[k].session = session'[peer'[k].who]
                            /\ peer'[k].base <= heard'[peer'[k].who]
      BY <2>1, <2>2 DEF WindowInv, Committed, Live, TypeOK
    <2>6. ASSUME NEW k \in Live' PROVE TagsOf(k)' = Window(BoundFrom(k)')
      <3>1. CASE k = s
        <4>1. \A t : <<t, s>> \in tags' <=> t \in Window(0)
          BY <2>1 DEF WindowInv
        <4>2. BoundFrom(s)' = 0
          BY <2>2, <2>3 DEF Committed
        <4>3. \A t : t \in TagsOf(s)' <=> <<t, s>> \in tags'
          BY DEF TagsOf
        <4>4. TagsOf(s)' = Window(0)
          BY <4>1, <4>3, Zenon
        <4> QED
          BY <3>1, <4>2, <4>4
      <3>2. CASE k # s
        <4>1. k \in Live /\ BoundFrom(k)' = BoundFrom(k)
          BY <2>2, <2>3, <3>2 DEF Live
        <4>2. TagsOf(k)' = TagsOf(k)
          BY <2>1, <3>2 DEF TagsOf
        <4> QED
          BY <4>1, <4>2 DEF WindowInv
      <3> QED
        BY <3>1, <3>2
    <2>7. \A k \in Waiting' : peer'[k].pathStep \in Window(peer'[k].base) /\ peer'[k].pathStep <= heard'[peer'[k].who]
      BY <2>1, <2>2 DEF WindowInv, Waiting, Live, TypeOK
    <2> QED
      BY <2>1, <2>3, <2>4, <2>5, <2>6, <2>7 DEF WindowInv, Window
  <1>4. ASSUME NEW d \in toHolder, TryMigrate(d) PROVE WindowInv'
    <2>1. PICK s \in Tagged(d.tag) : Opens(s, d) /\ peer' = [peer EXCEPT ![s] = Armed(s, d)]
      BY Zenon, <1>4 DEF TryMigrate
    <2>2. claim = NoClaim /\ UNCHANGED <<session, tags, claim>> /\ Accept(d)
      BY <1>4 DEF TryMigrate, moverVars
    <2> DEFINE x == Armed(s, d)
    <2>3. s \in Live /\ s \in Slots
      BY DEF Tagged, Live
    <2>4. /\ x.who = peer[s].who /\ x.session = peer[s].session /\ x.base = peer[s].base /\ x.pathAddr = d.from
          /\ x = peer[s] \/ x.pathStep = Presented(s, d.tag)
      BY <2>3, ArmedEntry
    <2>5. peer'[s] = x /\ \A k \in Slots \ {s} : peer'[k] = peer[k]
      BY <2>1, <2>3 DEF TypeOK
    <2>6. d.from # Unset /\ d.tag \in Nat
      BY DEF TypeOK
    <2> HIDE DEF x
    <2>7. Live' = Live
      BY <2>3, <2>4, <2>5 DEF Live
    <2>8. Waiting' = Waiting \cup {s}
      BY <2>3, <2>4, <2>5, <2>6, <2>7 DEF Waiting, Live
    <2>9. \A m \in Movers : heard[m] \in Nat /\ heard'[m] \in Nat /\ heard[m] <= heard'[m]
      BY <2>2, AcceptHears DEF TypeOK
    <2>10. \A k \in Live : peer[k].who \in Movers /\ peer[k].base \in Nat /\ peer[k].pathStep \in Nat
      BY DEF Live, TypeOK
    <2>11. \A k \in Live : /\ peer'[k].who = peer[k].who /\ peer'[k].session = peer[k].session /\ peer'[k].base = peer[k].base
                            /\ TagsOf(k)' = TagsOf(k) /\ BoundFrom(k)' = BoundFrom(k)
      BY <2>2, <2>3, <2>4, <2>5 DEF TagsOf, BoundFrom, Live
    <2>12. x.pathStep \in Window(x.base) /\ x.pathStep <= heard'[x.who]
      <3>1. CASE x = peer[s]
        <4>1. s \in Waiting
          BY <2>3, <2>4, <2>6, <3>1 DEF Waiting
        <4> QED
          BY <2>3, <2>9, <2>10, <3>1, <4>1 DEF WindowInv
      <3>2. CASE x.pathStep = Presented(s, d.tag)
        <4>1. d.tag <= heard'[peer[s].who]
          BY <2>1, <2>2, <2>3, AcceptHears DEF Opens, WindowInv
        <4>2. peer[s].base <= heard'[peer[s].who]
          BY <2>3, <2>9, <2>10 DEF WindowInv
        <4> QED
          BY <2>3, <2>4, <2>10, <3>2, <4>1, <4>2 DEF Presented, Window
      <3> QED
        BY <2>4, <3>1, <3>2
    <2>13. \A k \in Waiting' : peer'[k].pathStep \in Window(peer'[k].base) /\ peer'[k].pathStep <= heard'[peer'[k].who]
      <3> SUFFICES ASSUME NEW k \in Waiting, k # s
                   PROVE  peer'[k].pathStep \in Window(peer'[k].base) /\ peer'[k].pathStep <= heard'[peer'[k].who]
        BY <2>5, <2>8, <2>12
      <3>1. k \in Live /\ peer'[k] = peer[k]
        BY <2>5 DEF Waiting, Live
      <3> QED
        BY <2>9, <2>10, <3>1 DEF WindowInv
    <2> QED
      BY <2>2, <2>7, <2>9, <2>10, <2>11, <2>13 DEF WindowInv, NoClaim
  <1>5. ASSUME NEW d \in toHolder, Claim(d) PROVE WindowInv'
    <2>1. PICK s \in Tagged(d.tag) :
             /\ Answers(s, d)
             /\ peer' = [peer EXCEPT ![s] = [@ EXCEPT !.pathAddr = Unset, !.base = peer[s].pathStep]]
             /\ claim' = [stage |-> "rebind", slot |-> s, from |-> d.from, at |-> d.at,
                          old |-> peer[s].base, new |-> peer[s].pathStep]
      BY <1>5, Zenon DEF Claim
    <2>2. claim = NoClaim /\ UNCHANGED <<session, tags>> /\ Accept(d)
      BY <1>5 DEF Claim, moverVars
    <2> DEFINE x == [peer[s] EXCEPT !.pathAddr = Unset, !.base = peer[s].pathStep]
    <2>3. s \in Live /\ s \in Slots /\ s \in Waiting
      BY <2>1 DEF Tagged, Live, Waiting, Answers, TypeOK
    <2>4. x.who = peer[s].who /\ x.session = peer[s].session /\ x.pathAddr = Unset /\ x.base = peer[s].pathStep
      <3>1. peer[s] \in Entry
        BY <2>3 DEF TypeOK, Entry
      <3> QED
        BY <3>1 DEF Entry
    <2>5. peer'[s] = x /\ \A k \in Slots \ {s} : peer'[k] = peer[k]
      <3>1. peer' = [peer EXCEPT ![s] = x]
        BY <2>1, Zenon
      <3> HIDE DEF x
      <3> QED
        BY <3>1, <2>3 DEF TypeOK
    <2> HIDE DEF x
    <2>6. Live' = Live
      BY <2>3, <2>4, <2>5 DEF Live
    <2>7. Waiting' = Waiting \ {s}
      BY <2>3, <2>4, <2>5, <2>6 DEF Waiting, Live
    <2>8. \A m \in Movers : heard[m] \in Nat /\ heard'[m] \in Nat /\ heard[m] <= heard'[m]
      BY <2>2, AcceptHears DEF TypeOK
    <2>9. \A k \in Live : peer[k].who \in Movers /\ peer[k].base \in Nat /\ peer[k].pathStep \in Nat
      BY DEF Live, TypeOK
    <2>10. \A k \in Live : /\ peer'[k].who = peer[k].who /\ peer'[k].session = peer[k].session
                            /\ TagsOf(k)' = TagsOf(k) /\ BoundFrom(k)' = BoundFrom(k)
      BY <2>1, <2>2, <2>3, <2>4, <2>5 DEF TagsOf, BoundFrom, Live, NoClaim
    <2>11. \A k \in Live : peer'[k].base <= heard'[peer'[k].who]
      <3> SUFFICES ASSUME NEW k \in Live PROVE peer'[k].base <= heard'[peer[k].who]
        BY <2>10
      <3>1. CASE k = s
        <4>1. peer[s].pathStep <= heard[peer[s].who]
          BY <2>3 DEF WindowInv
        <4> QED
          BY <2>3, <2>4, <2>5, <2>8, <2>9, <3>1, <4>1
      <3>2. CASE k # s
        <4>1. peer'[k] = peer[k] /\ peer[k].base <= heard[peer[k].who]
          BY <2>5, <3>2 DEF WindowInv, Live
        <4> QED
          BY <2>8, <2>9, <4>1
      <3> QED
        BY <3>1, <3>2
    <2>12. \A k \in Waiting' : peer'[k].pathStep \in Window(peer'[k].base) /\ peer'[k].pathStep <= heard'[peer'[k].who]
      <3> SUFFICES ASSUME NEW k \in Waiting, k # s
                   PROVE  peer'[k].pathStep \in Window(peer'[k].base) /\ peer'[k].pathStep <= heard'[peer'[k].who]
        BY <2>7
      <3>1. k \in Live /\ peer'[k] = peer[k]
        BY <2>5 DEF Waiting, Live
      <3> QED
        BY <2>8, <2>9, <3>1 DEF WindowInv
    <2>13. claim'.slot = s /\ claim'.new = peer'[s].base /\ claim'.new \in Window(claim'.old)
      BY <2>1, <2>3, <2>4, <2>5 DEF WindowInv
    <2> QED
      BY <2>2, <2>3, <2>6, <2>10, <2>11, <2>12, <2>13 DEF WindowInv
  <1>6. CASE UpdateAddress
    <2>1. /\ claim.stage = "rebind" /\ claim' = [claim EXCEPT !.stage = "slide"]
          /\ UNCHANGED <<session, tags, heard>>
      BY <1>6 DEF UpdateAddress, moverVars
    <2>2. /\ claim'.stage = "slide" /\ claim'.slot = claim.slot /\ claim'.old = claim.old /\ claim'.new = claim.new
      BY <2>1 DEF TypeOK
    <2> DEFINE s == claim.slot
               x == [peer[s] EXCEPT !.addr = claim.from, !.at = claim.at]
    <2>3. peer' = peer \/ peer' = [peer EXCEPT ![s] = x]
      BY <1>6, Zenon DEF UpdateAddress
    <2>4. s \in Slots /\ peer[s] \in Entry
      BY DEF TypeOK, Entry
    <2>5. x.who = peer[s].who /\ x.session = peer[s].session /\ x.base = peer[s].base
          /\ x.pathAddr = peer[s].pathAddr /\ x.pathStep = peer[s].pathStep
      <3> HIDE DEF s
      <3> QED
        BY <2>4 DEF Entry
    <2> HIDE DEF x, s
    <2>6. \A k \in Slots : /\ peer'[k].who = peer[k].who /\ peer'[k].session = peer[k].session /\ peer'[k].base = peer[k].base
                            /\ peer'[k].pathAddr = peer[k].pathAddr /\ peer'[k].pathStep = peer[k].pathStep
      BY <2>3, <2>4, <2>5 DEF TypeOK
    <2>7. Live' = Live /\ Waiting' = Waiting
      BY <2>6 DEF Live, Waiting
    <2>8. \A k \in Live : k \in Slots /\ TagsOf(k)' = TagsOf(k) /\ BoundFrom(k)' = BoundFrom(k)
      BY <2>1, <2>2, <2>6 DEF TagsOf, BoundFrom, Live
    <2>9. Waiting \subseteq Live /\ claim.slot \in Slots
      BY DEF Waiting, TypeOK
    <2> QED
      BY <2>1, <2>2, <2>6, <2>7, <2>8, <2>9 DEF WindowInv
  <1>7. CASE SlideTagWindow
    <2>1. /\ claim.stage = "slide" /\ claim' = NoClaim
          /\ tags' = (tags \ Unbound) \cup (IF claim.slot \in Live THEN Bound ELSE {})
          /\ UNCHANGED <<session, peer, heard>>
      BY <1>7 DEF SlideTagWindow, moverVars
    <2> PICK s \in Slots : s = claim.slot
      BY DEF TypeOK
    <2>2. /\ s \in Live /\ claim.new = peer[s].base /\ claim.new \in Window(claim.old) /\ claim.old \in Nat
          /\ tags' = (tags \ Unbound) \cup Bound
      BY <2>1 DEF WindowInv, TypeOK
    <2>3. Live' = Live /\ Waiting' = Waiting /\ \A k : BoundFrom(k)' = peer[k].base
      BY <2>1 DEF Live, Waiting, BoundFrom, NoClaim
    <2>4. \A b \in tags' : b[2] \in Live
      <3>1. \A b \in Bound : b[2] = s
        BY DEF Bound
      <3>2. \A b \in tags : b[2] \in Live
        BY Zenon DEF WindowInv
      <3>3. \A b \in tags' : b \in tags \/ b \in Bound
        BY Zenon, <2>2
      <3> QED
        BY Zenon, <3>1, <3>2, <3>3, <2>2
    <2>5. TagsOf(s)' = Window(peer[s].base)
      <3>1. \A t : t \in Window(claim.old) <=> <<t, s>> \in tags
        BY <2>1, <2>2, TagsOfBound DEF WindowInv, BoundFrom
      <3>2. \A t : t \in TagsOf(s)' <=> <<t, s>> \in tags'
        BY DEF TagsOf
      <3>3. \A t : /\ <<t, s>> \in Unbound <=> t \in claim.old .. claim.new - 1
                   /\ <<t, s>> \in Bound <=> t \in claim.old + 3 .. claim.new + 2
        BY DEF Unbound, Bound
      <3>4. \A t : t \in Window(claim.new) <=> (t \in Window(claim.old) /\ t \notin claim.old .. claim.new - 1)
                                               \/ t \in claim.old + 3 .. claim.new + 2
        BY <2>2, WindowSlides
      <3> QED
        BY Zenon, <2>2, <3>1, <3>2, <3>3, <3>4
    <2>6. ASSUME NEW k \in Live, k # s PROVE TagsOf(k)' = Window(peer[k].base)
      <3>1. \A t : <<t, k>> \in tags' <=> <<t, k>> \in tags
        BY <2>2, <2>6 DEF Unbound, Bound
      <3>2. TagsOf(k)' = TagsOf(k)
        BY <3>1, TagsOfBound DEF TagsOf
      <3> QED
        BY <2>6, <3>2 DEF WindowInv, BoundFrom
    <2> QED
      BY <2>1, <2>3, <2>4, <2>5, <2>6 DEF WindowInv, NoClaim
  <1>8. ASSUME NEW s \in Slots, RemovePeer(s) PROVE WindowInv'
    <2>1. /\ peer' = [peer EXCEPT ![s] = Vacant] /\ tags' = {b \in tags : b[2] # s}
          /\ claim = NoClaim /\ UNCHANGED <<session, claim, heard>>
      BY <1>8 DEF RemovePeer, moverVars
    <2>2. Live' = Live \ {s} /\ Waiting' = Waiting \ {s} /\ \A k \in Slots \ {s} : peer'[k] = peer[k]
      BY <2>1 DEF Live, Waiting, Vacant, TypeOK
    <2>3. \A k \in Live' : k \in Live /\ k # s /\ k \in Slots /\ BoundFrom(k)' = BoundFrom(k) /\ TagsOf(k)' = TagsOf(k)
      BY <2>1, <2>2 DEF BoundFrom, TagsOf, NoClaim, Live
    <2>4. \A k \in Waiting' : k \in Waiting /\ k # s /\ k \in Slots
      BY <2>2 DEF Waiting, Live
    <2>5. \A b \in tags' : b[2] \in Live'
      BY <2>1, <2>2 DEF WindowInv
    <2> QED
      BY <2>1, <2>2, <2>3, <2>4, <2>5 DEF WindowInv, NoClaim
  <1> QED
    BY Zenon, <1>1, <1>2, <1>3, <1>4, <1>5, <1>6, <1>7, <1>8
    DEF Next, Leave, Move, RotateTags, Send, PathChallengeRespond, Lose, LoseChallenge,
        ReceiveFromPeer, Disregard, moverVars, vars

\* The tags bound to an entry are the window of the base they were bound from,
\* through every arming, claim and slide.
THEOREM WindowInvariant ==
  ASSUME ~Removals
  PROVE  Spec => []WindowInv
  <1>1. Init => WindowInv
    BY HomeAssumption DEF Init, WindowInv, Live, Waiting, Vacant, NoClaim
  <1>2. TypeOK /\ TypeOK' /\ WindowInv /\ [Next]_vars => WindowInv'
    BY WindowInvStep
  <1> QED
    BY <1>1, <1>2, MigrationTypeCorrect, PTL DEF Spec

\* Between two calls of PathChallenge_Complete exactly the three tags from the
\* base on are bound, and the base was heard from the peer itself.
THEOREM WindowCorrect ==
  ASSUME ~Removals
  PROVE  Spec => []WindowIsExact
  <1>1. WindowInv => WindowIsExact
    <2> SUFFICES ASSUME WindowInv, NEW s \in Live
                 PROVE  /\ claim = NoClaim => TagsOf(s) = peer[s].base .. peer[s].base + 2
                        /\ peer[s].base <= heard[peer[s].who]
      BY DEF WindowIsExact
    <2>1. claim = NoClaim => BoundFrom(s) = peer[s].base
      BY DEF BoundFrom, NoClaim
    <2>2. TagsOf(s) = Window(BoundFrom(s)) /\ peer[s].base <= heard[peer[s].who]
      BY Zenon DEF WindowInv
    <2>3. Window(peer[s].base) = peer[s].base .. peer[s].base + 2
      BY Zenon DEF Window
    <2> QED
      BY Zenon, <2>1, <2>2, <2>3
  <1> QED
    BY <1>1, WindowInvariant, PTL
=============================================================================
