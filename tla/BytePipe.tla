------------------------------ MODULE BytePipe ------------------------------
(***************************************************************************)
(* What a BIO pair promises: two queues of bytes of limited length, one    *)
(* for each direction.  A write takes at least one and perhaps not all of  *)
(* the bytes it is offered, a read gives some of those there are, and a    *)
(* byte is neither lost, repeated nor moved.                               *)
(***************************************************************************)
EXTENDS Integers, Sequences

CONSTANTS
    Sides,          \* the two ends
    Data,           \* what may be offered in one call: sequences of bytes
    Rooms           \* the lengths a queue may have

VARIABLES
    connected,      \* the two ends form a pair
    queue,          \* queue[s]: what s has written and its peer not read
    room,           \* room[s]: the longest queue[s] may be
    eof,            \* eof[s]: s writes no more
    moved           \* the bytes the last read or write has moved

vars == <<connected, queue, room, eof, moved>>

Prefix(q, n) == SubSeq(q, 1, n)
Rest(q, n) == SubSeq(q, n + 1, Len(q))

Init ==
    /\ connected = FALSE
    /\ queue = [s \in Sides |-> <<>>]
    /\ room \in [Sides -> Rooms]
    /\ eof \in [Sides -> BOOLEAN]
    /\ moved = <<>>

\* s offers data, and the first n bytes of it are taken.
Write(s, data, n) ==
    /\ connected /\ ~eof[s]
    /\ n \in 1 .. Len(data) /\ Len(queue[s]) + n <= room[s]
    /\ moved' = Prefix(data, n)
    /\ queue' = [queue EXCEPT ![s] = @ \o Prefix(data, n)]
    /\ UNCHANGED <<connected, room, eof>>

\* The peer of s reads n bytes.
Read(s, n) ==
    /\ connected
    /\ n \in 0 .. Len(queue[s])
    /\ moved' = Prefix(queue[s], n)
    /\ queue' = [queue EXCEPT ![s] = Rest(@, n)]
    /\ UNCHANGED <<connected, room, eof>>

\* s gives up what it has written.
Drop(s) ==
    /\ queue' = [queue EXCEPT ![s] = <<>>]
    /\ UNCHANGED <<connected, room, eof, moved>>

Shutdown(s) ==
    /\ eof' = [eof EXCEPT ![s] = TRUE]
    /\ UNCHANGED <<connected, queue, room, moved>>

Connect ==
    /\ ~connected /\ connected' = TRUE
    /\ eof' = [s \in Sides |-> FALSE]
    /\ UNCHANGED <<queue, room, moved>>

\* The pair is taken apart; what was not read is gone.
Disconnect ==
    /\ connected' = FALSE
    /\ queue' = [s \in Sides |-> <<>>]
    /\ UNCHANGED <<room, eof, moved>>

\* An end is replaced, or gets a queue of another length, out of a pair.
Replace(s) ==
    /\ connected' = FALSE
    /\ queue' = [t \in Sides |-> <<>>]
    /\ \E r \in Rooms : room' = [room EXCEPT ![s] = r]
    /\ \E e \in BOOLEAN : eof' = [eof EXCEPT ![s] = e]
    /\ UNCHANGED moved

Next ==
    \/ \E s \in Sides, data \in Data : \E n \in 1 .. Len(data) : Write(s, data, n)
    \/ \E s \in Sides : \E n \in 0 .. Len(queue[s]) : Read(s, n)
    \/ \E s \in Sides : Drop(s) \/ Shutdown(s) \/ Replace(s)
    \/ Connect
    \/ Disconnect

Spec == Init /\ [][Next]_vars
=============================================================================
