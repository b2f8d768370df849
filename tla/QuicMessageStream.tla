------------------------ MODULE QuicMessageStream ------------------------
(***************************************************************************)
(* What the QUIC input path promises the TLS state machine, without any    *)
(* buffer: the peer sends one stream of bytes per encryption level, made   *)
(* of whole handshake messages; TLS is handed those messages one at a      *)
(* time, whole, each exactly once, in stream order, and the level of what  *)
(* it is handed never goes down.  QuicInput implements it.                 *)
(***************************************************************************)
EXTENDS QuicLevels, Sequences

CONSTANTS
    MaxOffset,   \* last offset of a stream
    BodyLen      \* BodyLen[l][o]: the length field of a header at offset o

VARIABLES
    received,    \* received[l]: bytes of stream l the transport has handed over
    delivered    \* the messages TLS has been handed, oldest first

vars == <<received, delivered>>

Offset == 0..MaxOffset

\* Byte o of stream l, and the message whose header starts there.
Byte(l, o)    == [lvl |-> l, off |-> o]
MsgLen(l, o)  == SSL3_HM_HEADER_LENGTH + BodyLen[l][o]
Message(l, o) == [level |-> l, data |-> [i \in 1..MsgLen(l, o) |-> Byte(l, o + i - 1)]]

\* The offset at level l that follows what the sequence of messages d holds.
NextOffset(d, l) ==
    IF d # <<>> /\ d[Len(d)].level = l
    THEN d[Len(d)].data[1].off + Len(d[Len(d)].data)
    ELSE 0

Init ==
    /\ received = [l \in Level |-> 0]
    /\ delivered = <<>>

\* The transport hands over more of stream l.
Receive(l) ==
    /\ \E n \in Offset : /\ n > received[l]
                         /\ received' = [received EXCEPT ![l] = n]
    /\ UNCHANGED delivered

\* TLS is handed the next message of stream l, all of which has arrived.
Deliver(l) ==
    LET o == NextOffset(delivered, l)
    IN  /\ delivered # <<>> => delivered[Len(delivered)].level <= l
        /\ o \in Offset
        /\ o + MsgLen(l, o) <= received[l]
        /\ delivered' = Append(delivered, Message(l, o))
        /\ UNCHANGED received

\* SSL_clear: the object starts on a new connection.
Reset ==
    /\ received' = [l \in Level |-> 0]
    /\ delivered' = <<>>

Next == Reset \/ \E l \in Level : Receive(l) \/ Deliver(l)

Spec == Init /\ [][Next]_vars
=============================================================================
