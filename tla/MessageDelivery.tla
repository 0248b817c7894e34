--------------------------- MODULE MessageDelivery ---------------------------
(***************************************************************************)
(* What a channel of the bridge promises: the messages accepted by the     *)
(* sending side are handed to the receiving side once each and in order.   *)
(* Several messages may be delivered in one step.                          *)
(***************************************************************************)
EXTENDS Naturals, Sequences

CONSTANTS Channel, Payload

VARIABLES sent, delivered

MDvars == <<sent, delivered>>

Init ==
    /\ sent = [c \in Channel |-> <<>>]
    /\ delivered = [c \in Channel |-> <<>>]

Send(c, p) ==
    /\ sent' = [sent EXCEPT ![c] = Append(@, p)]
    /\ UNCHANGED delivered

Deliver(c, n) ==
    /\ n \in (Len(delivered[c]) + 1)..Len(sent[c])
    /\ delivered' = [delivered EXCEPT ![c] = SubSeq(sent[c], 1, n)]
    /\ UNCHANGED sent

Next ==
    \E c \in Channel :
        \/ \E p \in Payload : Send(c, p)
        \/ \E n \in 1..Len(sent[c]) : Deliver(c, n)

Spec == Init /\ [][Next]_MDvars
=============================================================================
