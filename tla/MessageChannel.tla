--------------------------- MODULE MessageChannel ---------------------------
(***************************************************************************)
(* What a flow promises the two applications, with no packets, windows or  *)
(* acknowledgements: messages are numbered as they are accepted, and the   *)
(* receiver gets them as the flow's mode allows, any number in one step,   *)
(* until all are delivered or the flow breaks.                             *)
(***************************************************************************)
EXTENDS Integers, Sequences

CONSTANT Promise    \* "fifo", "once" or "newest"

VARIABLES sent, received, broken

channelVars == <<sent, received, broken>>

ChannelInit == sent = 0 /\ received = <<>> /\ broken = FALSE

Submit ==
    /\ ~broken
    /\ sent' = sent + 1
    /\ UNCHANGED <<received, broken>>

\* May the messages that stand after position n of the longer history `longer`
\* be delivered, given the n before them?
Allowed(longer, n) ==
    \A i \in n + 1 .. Len(longer) :
        /\ longer[i] \in 1 .. sent
        /\ Promise = "fifo" => longer[i] = i
        /\ Promise = "once" => \A j \in 1 .. i - 1 : longer[j] # longer[i]
        /\ Promise = "newest" => \A j \in 1 .. i - 1 : longer[j] < longer[i]

\* Messages that were under way when the flow broke may still arrive.
Deliver ==
    /\ Len(received') > Len(received)
    /\ \A i \in 1 .. Len(received) : received'[i] = received[i]
    /\ Allowed(received', Len(received))
    /\ UNCHANGED <<sent, broken>>

\* The sending side gives up: what was not delivered is lost.
Break ==
    /\ ~broken
    /\ broken' = TRUE
    /\ UNCHANGED <<sent, received>>

ChannelNext == Submit \/ Deliver \/ Break

ChannelSpec == ChannelInit /\ [][ChannelNext]_channelVars
=============================================================================
