----------------------------- MODULE Migration -----------------------------
(***************************************************************************)
(* A connection whose remote end changes its address (socket.cpp:          *)
(* RotateTags, TryMigrate, PathChallenge_Respond, PathChallenge_Complete,  *)
(* SlideTagWindow).  The holder keeps its address and an entry for each of *)
(* the movers; a packet from an address that is not on file is recognised  *)
(* by its tag and its key, the address is challenged, and only the answer  *)
(* moves the entry to it.                                                  *)
(*                                                                         *)
(* A tag is its step: tags of two sessions at one step always clash, tags  *)
(* of one session never.  A datagram is consumed when it is accepted, which*)
(* is what the replay window does with its counter.  A packet past the     *)
(* migration budget of a pass is a lost one.  What the packet carries and  *)
(* the event of a move are left to FlowPair and FlowLeases, the handshake  *)
(* to Session: Establish is its outcome.                                   *)
(***************************************************************************)
EXTENDS Naturals, FiniteSets

CONSTANTS
    Movers,       \* remote ends
    Slots,        \* peer slots of the holder
    Addrs,        \* addresses the movers may have
    Home,         \* Home[m]: the address m has first
    Unset,        \* no address
    Nobody,       \* no mover
    Removals,     \* an application thread may remove a peer while the receive
                  \* path is between two locks
    Reuse,        \* a mover may turn up where the holder has another on file
    Limits        \* bounds of the instance, one choice of them for a behaviour

ASSUME HomeAssumption == Home \in [Movers -> Addrs] /\ Unset \notin Addrs /\ Nobody \notin Movers
ASSUME LimitsAssumption ==
    Limits \subseteq [moves : [Movers -> Nat], rotations : [Movers -> Nat], sessions : [Movers -> Nat],
                      inFlight : Nat]
ASSUME SlotsAssumption == Slots # {}
ASSUME FlagsAssumption == Removals \in BOOLEAN /\ Reuse \in BOOLEAN

VARIABLES
    addr,         \* addr[m]: the source address of m's packets
    moves,        \* moves[m]: how often it has changed
    been,         \* been[m]: pairs of the above, one for each place m has been
    session,      \* session[m]: the session m holds, numbered
    step,         \* step[m]: myTagStep
    peer,         \* peer[s]: the holder's entry in slot s
    tags,         \* the holder's tag index, pairs of a tag and a slot
    toHolder,     \* datagrams on their way to the holder
    toMover,      \* challenges on their way to an address
    challenges,   \* challenges drawn so far
    claim,        \* locals of PathChallenge_Complete once it has claimed
    heard,        \* heard[m]: highest step of m's session in an accepted packet
    limit         \* how often each mover may move, rotate and handshake, and how
                  \* many of its datagrams may be under way

vars == <<addr, moves, been, session, step, peer, tags, toHolder, toMover, challenges, claim, heard, limit>>
moverVars == <<addr, moves, been, session, step, limit>>

----------------------------------------------------------------------------
(* The holder's state.                                                     *)

Vacant == [who |-> Nobody, session |-> 0, addr |-> Unset, at |-> 0, base |-> 0,
           pathAddr |-> Unset, pathStep |-> 0, challenge |-> 0]

NoClaim == [stage |-> "none", slot |-> CHOOSE s \in Slots : TRUE, from |-> Unset, at |-> 0,
            old |-> 0, new |-> 0]

Live == {s \in Slots : peer[s].who # Nobody}
OnFile == {peer[s].addr : s \in Live}
Tagged(t) == {s \in Live : <<t, s>> \in tags}

\* OpenSecurePacket: only the key of the sender's own session opens a packet.
Opens(s, d) == peer[s].who = d.who /\ peer[s].session = d.session

\* BindTagWindow binds the tags of three steps.
Window(base) == base .. base + 2

Init ==
    /\ addr = Home
    /\ moves = [m \in Movers |-> 0]
    /\ been = [m \in Movers |-> {<<0, Home[m]>>}]
    /\ session = [m \in Movers |-> 0]
    /\ step = [m \in Movers |-> 0]
    /\ peer = [s \in Slots |-> Vacant]
    /\ tags = {}
    /\ toHolder = {}
    /\ toMover = {}
    /\ challenges = 0
    /\ claim = NoClaim
    /\ heard = [m \in Movers |-> 0]
    /\ limit \in Limits

----------------------------------------------------------------------------
(* The movers.                                                             *)

\* The network gives m another address. Two hosts never have one at a time.
Move(m, a) ==
    /\ moves[m] < limit.moves[m]
    /\ a \notin {addr[k] : k \in Movers}
    /\ Reuse \/ a \notin OnFile
    /\ addr' = [addr EXCEPT ![m] = a]
    /\ moves' = [moves EXCEPT ![m] = @ + 1]
    /\ been' = [been EXCEPT ![m] = @ \cup {<<moves[m] + 1, a>>}]
    /\ UNCHANGED <<session, step, limit, peer, tags, toHolder, toMover, challenges, claim, heard>>

RotateTags(m) ==
    /\ session[m] > 0
    /\ step[m] < limit.rotations[m]
    /\ step' = [step EXCEPT ![m] = @ + 1]
    /\ UNCHANGED <<addr, moves, been, session, limit, peer, tags, toHolder, toMover, challenges, claim, heard>>

\* A datagram of m, tagged with its current step.
Datagram(m, kind, echo, at) ==
    [who |-> m, session |-> session[m], from |-> addr[m], tag |-> step[m],
     kind |-> kind, echo |-> echo, at |-> at]

\* Any secure packet but the answer to a challenge: data, an acknowledgement,
\* a grant.
Send(m) ==
    /\ session[m] > 0
    /\ Cardinality({d \in toHolder : d.who = m}) < limit.inFlight
    /\ toHolder' = toHolder \cup {Datagram(m, "data", 0, 0)}
    /\ UNCHANGED <<moverVars, peer, tags, toMover, challenges, claim, heard>>

\* The answer leaves from the address the challenge was sent to.
PathChallengeRespond(m, c) ==
    /\ c \in toMover /\ c.to = addr[m]
    /\ c.who = m /\ c.session = session[m]
    /\ toMover' = toMover \ {c}
    /\ toHolder' = toHolder \cup {Datagram(m, "response", c.challenge, moves[m])}
    /\ UNCHANGED <<moverVars, peer, tags, challenges, claim, heard>>

----------------------------------------------------------------------------
(* The network.                                                            *)

Lose(d) ==
    /\ d \in toHolder
    /\ toHolder' = toHolder \ {d}
    /\ UNCHANGED <<moverVars, peer, tags, toMover, challenges, claim, heard>>

LoseChallenge(c) ==
    /\ c \in toMover
    /\ toMover' = toMover \ {c}
    /\ UNCHANGED <<moverVars, peer, tags, toHolder, challenges, claim, heard>>

----------------------------------------------------------------------------
(* The holder's receive path.                                              *)

\* The packet opened and its counter is new.
Accept(d) ==
    /\ toHolder' = toHolder \ {d}
    /\ heard' = [heard EXCEPT ![d.who] = IF d.session = session[d.who] /\ d.tag > @ THEN d.tag ELSE @]

\* PreProcessIn for a source on file: the entry's own key has to open it.
\* Nothing looks at its tag.
ReceiveFromPeer(d) ==
    /\ claim = NoClaim
    /\ d \in toHolder /\ d.kind = "data"
    /\ \E s \in Live : peer[s].addr = d.from /\ Opens(s, d)
    /\ Accept(d)
    /\ UNCHANGED <<moverVars, peer, tags, toMover, challenges, claim>>

\* Which step of the window did the mover present?
Presented(s, t) == IF t \in Window(peer[s].base) THEN t ELSE peer[s].base

\* Mutant: the challenge is drawn once for all addresses.
ArmedAsBefore(s, d) ==
    [peer[s] EXCEPT !.pathAddr = d.from, !.pathStep = Presented(s, d.tag),
                    !.challenge = IF @ = 0 THEN challenges + 1 ELSE @]

\* One validation at a time: a packet from the address already challenged
\* repeats the challenge, one from another address starts afresh.
Armed(s, d) ==
    IF peer[s].pathAddr = d.from
    THEN peer[s]
    ELSE [peer[s] EXCEPT !.pathAddr = d.from, !.pathStep = Presented(s, d.tag),
                         !.challenge = challenges + 1]

\* Mutant: the challenge is not repeated.
ChallengesOnce(s, d) == peer[s].pathAddr # d.from
\* Does arming for d send a challenge?
Challenges(s, d) == TRUE

TryMigrate(d) ==
    /\ claim = NoClaim
    /\ d \in toHolder /\ d.kind = "data"
    /\ d.from \notin OnFile
    /\ \E s \in Tagged(d.tag) :
          /\ Opens(s, d)
          /\ peer' = [peer EXCEPT ![s] = Armed(s, d)]
          /\ challenges' = IF Armed(s, d) = peer[s] THEN challenges ELSE challenges + 1
          /\ toMover' = IF Challenges(s, d)
                        THEN toMover \cup {[who |-> d.who, session |-> d.session, to |-> d.from,
                                            challenge |-> Armed(s, d).challenge]}
                        ELSE toMover
    /\ Accept(d)
    /\ UNCHANGED <<moverVars, tags, claim>>

\* Some entry can accept the response: by its address, or by its tag.
ResponseOpens(d) ==
    IF d.from \in OnFile
    THEN \E s \in Live : peer[s].addr = d.from /\ Opens(s, d)
    ELSE \E s \in Tagged(d.tag) : Opens(s, d)

\* Mutant: the echo is not compared.
AnswersAnything(s, d) == peer[s].pathAddr = d.from
\* Is d the answer that the entry in slot s waits for?
Answers(s, d) == peer[s].pathAddr = d.from /\ peer[s].challenge = d.echo

\* PathChallenge_Complete up to the release of the handles: the validation is
\* claimed, so that it cannot complete twice.
Claim(d) ==
    /\ claim = NoClaim
    /\ d \in toHolder /\ d.kind = "response"
    /\ ResponseOpens(d)
    /\ \E s \in Tagged(d.tag) :
          /\ Answers(s, d)
          /\ peer' = [peer EXCEPT ![s] = [@ EXCEPT !.pathAddr = Unset, !.base = peer[s].pathStep]]
          /\ claim' = [stage |-> "rebind", slot |-> s, from |-> d.from, at |-> d.at,
                       old |-> peer[s].base, new |-> peer[s].pathStep]
    /\ Accept(d)
    /\ UNCHANGED <<moverVars, tags, toMover, challenges>>

\* A response to a challenge that is over.
Disregard(d) ==
    /\ claim = NoClaim
    /\ d \in toHolder /\ d.kind = "response"
    /\ ResponseOpens(d)
    /\ \A s \in Tagged(d.tag) : ~Answers(s, d)
    /\ Accept(d)
    /\ UNCHANGED <<moverVars, peer, tags, toMover, challenges, claim>>

\* UpdateAddress: the slot has to be live, and the address free.
UpdateAddress ==
    /\ claim.stage = "rebind"
    /\ peer' = IF claim.slot \in Live /\ claim.from \notin OnFile
               THEN [peer EXCEPT ![claim.slot] = [@ EXCEPT !.addr = claim.from, !.at = claim.at]]
               ELSE peer
    /\ claim' = [claim EXCEPT !.stage = "slide"]
    /\ UNCHANGED <<moverVars, tags, toHolder, toMover, challenges, heard>>

Unbound == {<<t, claim.slot>> : t \in claim.old .. claim.new - 1}
\* Mutant: the last tag is missed.
BoundOneShort == {<<t, claim.slot>> : t \in claim.old + 3 .. claim.new + 1}
Bound == {<<t, claim.slot>> : t \in claim.old + 3 .. claim.new + 2}

SlideTagWindow ==
    /\ claim.stage = "slide"
    /\ tags' = (tags \ Unbound) \cup (IF claim.slot \in Live THEN Bound ELSE {})
    /\ claim' = NoClaim
    /\ UNCHANGED <<moverVars, peer, toHolder, toMover, challenges, heard>>

----------------------------------------------------------------------------
(* Sessions come and go.                                                   *)

\* An entry as CommitSession leaves it, with the remote where it is now.
Committed(m) == [who |-> m, session |-> session[m] + 1, addr |-> addr[m], at |-> moves[m], base |-> 0,
                 pathAddr |-> Unset, pathStep |-> 0, challenge |-> 0]

\* A handshake of m with the holder.
Establish(m, s) ==
    /\ claim = NoClaim \/ Removals
    /\ session[m] < limit.sessions[m]
    /\ \A k \in Live : peer[k].who # m
    /\ s \notin Live
    /\ addr[m] \notin OnFile
    /\ session' = [session EXCEPT ![m] = @ + 1]
    /\ step' = [step EXCEPT ![m] = 0]
    /\ heard' = [heard EXCEPT ![m] = 0]
    /\ peer' = [peer EXCEPT ![s] = Committed(m)]
    /\ tags' = tags \cup (Window(0) \X {s})
    /\ UNCHANGED <<addr, moves, been, limit, toHolder, toMover, challenges, claim>>

\* RemovePeer, by the application or for silence.
RemovePeer(s) ==
    /\ claim = NoClaim \/ Removals
    /\ s \in Live
    /\ session[peer[s].who] < limit.sessions[peer[s].who]
    /\ peer' = [peer EXCEPT ![s] = Vacant]
    /\ tags' = {b \in tags : b[2] # s}
    /\ UNCHANGED <<moverVars, toHolder, toMover, challenges, claim, heard>>

----------------------------------------------------------------------------
Leave(d) == Lose(d) \/ ReceiveFromPeer(d) \/ TryMigrate(d) \/ Claim(d) \/ Disregard(d)

Next ==
    \/ \E m \in Movers : (\E a \in Addrs : Move(m, a)) \/ RotateTags(m) \/ Send(m)
                         \/ \E s \in Slots : Establish(m, s)
    \/ \E m \in Movers, c \in toMover : PathChallengeRespond(m, c)
    \/ \E d \in toHolder : Leave(d)
    \/ \E c \in toMover : LoseChallenge(c)
    \/ UpdateAddress \/ SlideTagWindow
    \/ \E s \in Slots : RemovePeer(s)

Spec == Init /\ [][Next]_vars

\* m's packets from where it is now, and the challenges sent there.
HearMover(m) == \E d \in toHolder : d.who = m /\ d.from = addr[m] /\ TryMigrate(d)
HearAnswer(m) == \E d \in toHolder : d.who = m /\ d.from = addr[m] /\ (Claim(d) \/ Disregard(d))
Answer(m) == \E c \in toMover : PathChallengeRespond(m, c)

\* A mover goes on sending, the update loop receiving, no datagram is under way
\* for ever, and no path loses every packet sent over it.
FairSpec ==
    /\ Spec
    /\ WF_vars(UpdateAddress) /\ WF_vars(SlideTagWindow)
    /\ \A m \in Movers : /\ WF_vars(Send(m)) /\ WF_vars(\E d \in toHolder : d.who = m /\ Leave(d))
                         /\ SF_vars(HearMover(m)) /\ SF_vars(Answer(m)) /\ SF_vars(HearAnswer(m))

----------------------------------------------------------------------------
(* Properties.                                                             *)

\* Type invariant: the entries of the peer table, the tag index and the
\* locals of PathChallenge_Complete.
TypeOK ==
    /\ addr \in [Movers -> Addrs] /\ moves \in [Movers -> Nat]
    /\ been \in [Movers -> SUBSET (Nat \X Addrs)]
    /\ session \in [Movers -> Nat] /\ step \in [Movers -> Nat] /\ heard \in [Movers -> Nat]
    /\ peer \in [Slots -> [who : Movers \cup {Nobody}, session : Nat, addr : Addrs \cup {Unset},
                           at : Nat, base : Nat, pathAddr : Addrs \cup {Unset},
                           pathStep : Nat, challenge : Nat]]
    /\ tags \subseteq (Nat \X Slots)
    /\ toHolder \subseteq [who : Movers, session : Nat, from : Addrs, tag : Nat,
                           kind : {"data", "response"}, echo : Nat, at : Nat]
    /\ toMover \subseteq [who : Movers, session : Nat, to : Addrs, challenge : Nat]
    /\ challenges \in Nat
    /\ claim \in [stage : {"none", "rebind", "slide"}, slot : Slots, from : Addrs \cup {Unset},
                  at : Nat, old : Nat, new : Nat]
    /\ limit \in Limits

\* The address UpdateAddress puts on file for a peer is one that this peer
\* itself has had, at the time its answer left: never another's.
RouteIsTheirs == \A s \in Live : <<peer[s].at, peer[s].addr>> \in been[peer[s].who]

\* A place, and the number of moves it took to get there.
Place(m, n, a) == <<n, a>> \in been[m] /\ n <= moves[m]

\* Where a mover is, and the places the entries and the answers speak of.
Places ==
    /\ \A m \in Movers : Place(m, moves[m], addr[m])
    /\ \A s \in Live : Place(peer[s].who, peer[s].at, peer[s].addr)
    /\ \A d \in toHolder : d.kind = "response" => Place(d.who, d.at, d.from)

\* No challenge that is armed, under way or answered has a number not yet drawn.
Drawn ==
    /\ \A s \in Slots : peer[s].challenge <= challenges
    /\ \A c \in toMover : c.challenge <= challenges
    /\ \A d \in toHolder : d.echo <= challenges

Waiting == {s \in Live : peer[s].pathAddr # Unset}

\* A challenge belongs to one entry, and its answers are not older than the
\* entry's route.
Rounds ==
    \A s \in Waiting :
        /\ \A k \in Waiting : peer[k].challenge = peer[s].challenge => k = s
        /\ \A c \in toMover : c.challenge = peer[s].challenge => c.who = peer[s].who
        /\ \A d \in toHolder : d.kind = "response" /\ d.echo = peer[s].challenge
                               => d.who = peer[s].who /\ d.at >= peer[s].at

\* PathChallenge_Complete has claimed a place of the peer it is about to move,
\* not older than the route on file.
ClaimIsTheirs ==
    claim.stage # "none" =>
        /\ claim.slot \in Live
        /\ Place(peer[claim.slot].who, claim.at, claim.from)
        /\ claim.stage = "rebind" => claim.at >= peer[claim.slot].at /\ claim.slot \notin Waiting

\* Why the two properties of the route hold: every challenge, answer and claim
\* is tied to one entry of one peer (TryMigrate, PathChallenge_Complete).
RouteInv == Places /\ Drawn /\ Rounds /\ ClaimIsTheirs

\* The tags bound to a slot, and the base they were bound from: between the
\* claim and the slide still the old one.
TagsOf(s) == {t \in {b[1] : b \in tags} : <<t, s>> \in tags}
BoundFrom(s) == IF claim.stage # "none" /\ claim.slot = s THEN claim.old ELSE peer[s].base

\* Why the window is exact: the step a validation will slide to lies in the
\* window it was armed in, and was heard (TryMigrate, SlideTagWindow).
WindowInv ==
    /\ \A b \in tags : b[2] \in Live
    /\ claim.stage # "none" => /\ claim.slot \in Live
                               /\ claim.new = peer[claim.slot].base
                               /\ claim.new \in Window(claim.old)
    /\ \A s \in Live :
          /\ peer[s].session = session[peer[s].who]
          /\ TagsOf(s) = Window(BoundFrom(s))
          /\ peer[s].base <= heard[peer[s].who]
    /\ \A s \in Waiting : peer[s].pathStep \in Window(peer[s].base) /\ peer[s].pathStep <= heard[peer[s].who]

\* SlideTagWindow leaves bound exactly the three tags from the base on, and
\* the base never runs ahead of the steps the holder has heard of, so a mover
\* that rotates less than three times past the base is always recognised.
WindowIsExact ==
    \A s \in Live :
        /\ claim = NoClaim => TagsOf(s) = peer[s].base .. peer[s].base + 2
        /\ peer[s].base <= heard[peer[s].who]

\* PathChallenge_Complete never takes a route back: while a session lasts, the
\* address on file is never replaced by one its peer had left before. A late
\* answer from an earlier place, or one to a challenge drawn anew since, does
\* not count.
RouteNeverGoesBack ==
    [][\A s \in Slots : peer'[s].session = peer[s].session /\ peer'[s].who = peer[s].who
                        => peer'[s].at >= peer[s].at]_vars

\* When the moves are over, the challenge is sent until it is answered and the
\* holder comes to send where the mover is (TryMigrate, PathChallenge_Complete).
MoverIsFound == <>[](\A s \in Live : session[peer[s].who] = peer[s].session
                                     => peer[s].addr = addr[peer[s].who])

\* What RotateTags is documented to cost: a mover is out of its peer's window
\* only after three rotations that the peer has not heard.
HeardTagIsBound ==
    claim = NoClaim => \A s \in Live : LET m == peer[s].who IN
        peer[s].session = session[m] /\ step[m] <= heard[m] + 2 => <<step[m], s>> \in tags
=============================================================================
