---------------------------- MODULE DatagramOnce ----------------------------
(***************************************************************************)
(* What the DTLS record layer promises to what is above it: datagrams come *)
(* in any order or not at all, and each at most once; a protected one only *)
(* if the peer has sent it.                                                *)
(***************************************************************************)
EXTENDS Naturals

CONSTANTS
    Ids,            \* the names of datagrams
    Protected       \* those whose origin is verified

VARIABLES
    sent,           \* the names given to datagrams so far
    count           \* how often the datagram of each name was handed up

vars == <<sent, count>>

Init == sent = {} /\ count = [id \in Ids |-> 0]

\* No name is given twice.
Send(id) ==
    /\ id \notin sent
    /\ sent' = sent \union {id}
    /\ UNCHANGED count

Deliver(id) ==
    /\ id \in sent \/ id \notin Protected
    /\ count[id] = 0
    /\ count' = [count EXCEPT ![id] = 1]
    /\ UNCHANGED sent

Next == \E id \in Ids : Send(id) \/ Deliver(id)

Spec == Init /\ [][Next]_vars
=============================================================================
