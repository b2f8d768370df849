----------------------------- MODULE QuicInput -----------------------------
(***************************************************************************)
(* The QUIC input path of one SSL object: SSL_provide_quic_data            *)
(* (ssl/ssl_quic.c), which cuts the CRYPTO bytes a QUIC stack hands over   *)
(* into handshake messages, and quic_get_message                           *)
(* (ssl/statem/statem_quic.c), with which the TLS state machine takes them *)
(* out again.                                                              *)
(*                                                                         *)
(* A byte is known by its encryption level and its offset in that level's  *)
(* stream, so that a lost, repeated, reordered or misattributed byte shows.*)
(* SSL_provide_quic_data is one call made of a step per loop iteration: no *)
(* other step is possible while pc is "split", as an SSL object is used by *)
(* one thread.  Every allocation it makes may fail.                        *)
(***************************************************************************)
EXTENDS QuicLevels, Sequences

CONSTANTS
    MaxOffset,   \* bound: the last offset of a level's stream
    BodyLen      \* BodyLen[l][o]: the length field read from a header at offset o

Offset == 0..MaxOffset

ASSUME ConstantsAssumption ==
    /\ MaxOffset \in Nat
    /\ BodyLen \in [Level -> [Offset -> Nat]]

VARIABLES
    quic_read_level,              \* level TLS expects messages at
    quic_latest_level_received,
    quic_buf,                     \* contents of quic_buf: an incomplete message
    quic_input_data,              \* the list head..tail of QUIC_DATA
    pc,                           \* "idle", or "split" inside SSL_provide_quic_data
    data,                         \* local data/len of SSL_provide_quic_data
    in_buf,                       \* data points into quic_buf
    error,                        \* SSL_provide_quic_data ran out of memory
    fatal,                        \* the state machine is in MSG_FLOW_ERROR
    received,                     \* history: bytes of each stream handed over
    delivered                     \* history: messages quic_get_message returned

vars == <<quic_read_level, quic_latest_level_received, quic_buf,
          quic_input_data, pc, data, in_buf, error, fatal, received, delivered>>

Byte(l, o) == [lvl |-> l, off |-> o]
ByteSet    == [lvl : Level, off : Offset]
QUIC_DATA  == [level : Level, data : Seq(ByteSet)]

\* The n bytes of stream l from offset o on.
Bytes(l, o, n) == [i \in 1..n |-> Byte(l, o + i - 1)]

\* n2l3(data + 1): the length field of the header that data starts with.
n2l3(d) == BodyLen[d[1].lvl][d[1].off]

TypeOK ==
    /\ quic_read_level \in Level
    /\ quic_latest_level_received \in Level
    /\ quic_buf \in Seq(ByteSet)
    /\ quic_input_data \in Seq(QUIC_DATA)
    /\ pc \in {"idle", "split"}
    /\ data \in Seq(ByteSet)
    /\ in_buf \in BOOLEAN
    /\ error \in BOOLEAN
    /\ fatal \in BOOLEAN
    /\ received \in [Level -> Offset]
    /\ delivered \in Seq(QUIC_DATA)

Init ==
    /\ quic_read_level = ssl_encryption_initial
    /\ quic_latest_level_received = ssl_encryption_initial
    /\ quic_buf = <<>>
    /\ quic_input_data = <<>>
    /\ pc = "idle"
    /\ data = <<>>
    /\ in_buf = FALSE
    /\ error = FALSE
    /\ fatal = FALSE
    /\ received = [l \in Level |-> 0]
    /\ delivered = <<>>

-----------------------------------------------------------------------------
(* SSL_provide_quic_data                                                   *)

\* Mutant: only the current read level is compared.
LevelAllowed_ReadOnly(level) == level >= quic_read_level

\* The checks on the level that come before anything is changed.  (The second
\* comparison of the code is with the level of the list's tail.)
LevelAllowed(level) ==
    /\ level >= quic_read_level
    /\ quic_input_data # <<>> => level >= quic_input_data[Len(quic_input_data)].level
    /\ level >= quic_latest_level_received

\* Mutant: the fragment's level is not compared with the call's.
Provide_AnyLevel(level, n) ==
    /\ pc = "idle" /\ ~error
    /\ received[level] + n <= MaxOffset
    /\ LevelAllowed(level)
    /\ quic_latest_level_received' = level
    /\ received' = [received EXCEPT ![level] = @ + n]
    /\ data' = quic_buf \o Bytes(level, received[level], n)
    /\ in_buf' = (quic_buf # <<>>)
    /\ quic_buf' = IF quic_buf = <<>> THEN <<>> ELSE data'
    /\ pc' = "split"
    /\ UNCHANGED <<quic_read_level, quic_input_data, error, fatal, delivered>>

\* A call with n more bytes of stream level.  A caller whose call failed for
\* want of memory makes no other; one refused for its level may come again
\* with the same bytes, as a refusal changes nothing.
SSL_provide_quic_data(level, n) ==
    /\ pc = "idle" /\ ~error
    /\ received[level] + n <= MaxOffset
    /\ LevelAllowed(level)
    /\ quic_buf # <<>> => level = quic_latest_level_received
    /\ quic_latest_level_received' = level
    /\ received' = [received EXCEPT ![level] = @ + n]
    /\ data' = quic_buf \o Bytes(level, received[level], n)
    /\ in_buf' = (quic_buf # <<>>)
    /\ quic_buf' = IF quic_buf = <<>> THEN <<>> ELSE data'
    /\ pc' = "split"
    /\ UNCHANGED <<quic_read_level, quic_input_data, error, fatal, delivered>>

\* BUF_MEM_grow cannot make room for the new bytes behind the fragment: the
\* call fails with only quic_latest_level_received assigned.
ProvideGrowFails(level, n) ==
    /\ pc = "idle" /\ ~error
    /\ received[level] + n <= MaxOffset
    /\ LevelAllowed(level)
    /\ quic_buf # <<>> /\ level = quic_latest_level_received
    /\ error' = TRUE
    /\ UNCHANGED <<quic_read_level, quic_latest_level_received, quic_buf,
                   quic_input_data, pc, data, in_buf, fatal, received, delivered>>

\* Mutant: l >= len instead of l > len ends the loop.
FullRecord_Strict ==
    /\ Len(data) > SSL3_HM_HEADER_LENGTH
    /\ SSL3_HM_HEADER_LENGTH + n2l3(data) < Len(data)

\* The loop condition and the test for a full record.
FullRecord ==
    /\ Len(data) > SSL3_HM_HEADER_LENGTH
    /\ SSL3_HM_HEADER_LENGTH + n2l3(data) <= Len(data)

\* Mutant: the header is left out of the length.
Split_BodyOnly ==
    /\ pc = "split"
    /\ FullRecord
    /\ quic_input_data' =
          Append(quic_input_data, [level |-> quic_latest_level_received,
                                   data  |-> SubSeq(data, 1, n2l3(data))])
    /\ data' = SubSeq(data, n2l3(data) + 1, Len(data))
    /\ UNCHANGED <<quic_read_level, quic_latest_level_received, quic_buf, pc,
                   in_buf, error, fatal, received, delivered>>

\* One iteration: the first l bytes of data become the tail of the list.
SplitMessage ==
    /\ pc = "split"
    /\ FullRecord
    /\ LET l == SSL3_HM_HEADER_LENGTH + n2l3(data)
       IN  /\ quic_input_data' =
                Append(quic_input_data, [level |-> quic_latest_level_received,
                                         data  |-> SubSeq(data, 1, l)])
           /\ data' = SubSeq(data, l + 1, Len(data))
    /\ UNCHANGED <<quic_read_level, quic_latest_level_received, quic_buf, pc,
                   in_buf, error, fatal, received, delivered>>

\* OPENSSL_zalloc of a QUIC_DATA fails: what was split off stays queued, and
\* quic_buf keeps whatever it held.
SplitAllocFails ==
    /\ pc = "split"
    /\ FullRecord
    /\ pc' = "idle"
    /\ data' = <<>>
    /\ in_buf' = FALSE
    /\ error' = TRUE
    /\ UNCHANGED <<quic_read_level, quic_latest_level_received, quic_buf,
                   quic_input_data, fatal, received, delivered>>

\* Mutant: quic_buf->length is not reset when nothing is left over.
Save_KeepBuffer ==
    /\ pc = "split"
    /\ ~FullRecord
    /\ quic_buf' = IF data = <<>> THEN quic_buf ELSE data
    /\ pc' = "idle"
    /\ data' = <<>>
    /\ in_buf' = FALSE
    /\ UNCHANGED <<quic_read_level, quic_latest_level_received,
                   quic_input_data, error, fatal, received, delivered>>

\* The unread bytes are saved in quic_buf, or quic_buf is emptied.
SaveRest ==
    /\ pc = "split"
    /\ ~FullRecord
    /\ quic_buf' = data
    /\ pc' = "idle"
    /\ data' = <<>>
    /\ in_buf' = FALSE
    /\ UNCHANGED <<quic_read_level, quic_latest_level_received,
                   quic_input_data, error, fatal, received, delivered>>

\* BUF_MEM_new or BUF_MEM_grow fails.  Not when the bytes are in quic_buf
\* already: it can only shrink then.
SaveAllocFails ==
    /\ pc = "split"
    /\ ~FullRecord
    /\ data # <<>> /\ ~in_buf
    /\ pc' = "idle"
    /\ data' = <<>>
    /\ error' = TRUE
    /\ UNCHANGED <<quic_read_level, quic_latest_level_received, quic_buf,
                   quic_input_data, in_buf, fatal, received, delivered>>

-----------------------------------------------------------------------------
(* The consumer                                                            *)

\* The state machine takes the head of the list.
quic_get_message ==
    /\ pc = "idle" /\ ~fatal
    /\ quic_input_data # <<>>
    /\ quic_input_data[1].level = quic_read_level
    /\ quic_input_data' = Tail(quic_input_data)
    /\ delivered' = Append(delivered, quic_input_data[1])
    /\ UNCHANGED <<quic_read_level, quic_latest_level_received, quic_buf, pc,
                   data, in_buf, error, fatal, received>>

\* A message of another level than the one TLS is at is a fatal error, as is
\* an init_buf that cannot grow.
GetMessageFatal ==
    /\ pc = "idle" /\ ~fatal
    /\ quic_input_data # <<>>
    /\ fatal' = TRUE
    /\ UNCHANGED <<quic_read_level, quic_latest_level_received, quic_buf,
                   quic_input_data, pc, data, in_buf, error, received, delivered>>

\* quic_change_cipher_state moves the read level on, to the handshake and
\* then to the application level; when it does is the state machine's affair
\* (module QuicHandshake).
SetReadLevel(level) ==
    /\ pc = "idle" /\ ~fatal
    /\ level \in {ssl_encryption_handshake, ssl_encryption_application}
    /\ level > quic_read_level
    /\ quic_read_level' = level
    /\ UNCHANGED <<quic_latest_level_received, quic_buf, quic_input_data, pc,
                   data, in_buf, error, fatal, received, delivered>>

\* Mutant: the fragment survives SSL_clear.
Clear_KeepBuffer ==
    /\ pc = "idle"
    /\ quic_read_level' = ssl_encryption_initial
    /\ quic_latest_level_received' = ssl_encryption_initial
    /\ quic_input_data' = <<>>
    /\ fatal' = FALSE
    /\ error' = FALSE
    /\ received' = [l \in Level |-> 0]
    /\ delivered' = <<>>
    /\ UNCHANGED <<quic_buf, pc, data, in_buf>>

\* SSL_clear makes the object ready for another connection: ossl_statem_clear
\* ends an error, SSL_clear_quic resets the levels and frees list and buffer.
SSL_clear_quic ==
    /\ pc = "idle"
    /\ quic_read_level' = ssl_encryption_initial
    /\ quic_latest_level_received' = ssl_encryption_initial
    /\ quic_input_data' = <<>>
    /\ quic_buf' = <<>>
    /\ fatal' = FALSE
    /\ error' = FALSE
    /\ received' = [l \in Level |-> 0]
    /\ delivered' = <<>>
    /\ UNCHANGED <<pc, data, in_buf>>

Next ==
    \/ \E level \in Level, n \in 1..MaxOffset :
          SSL_provide_quic_data(level, n) \/ ProvideGrowFails(level, n)
    \/ SplitMessage
    \/ SplitAllocFails
    \/ SaveRest
    \/ SaveAllocFails
    \/ quic_get_message
    \/ GetMessageFatal
    \/ \E level \in Level : SetReadLevel(level)
    \/ SSL_clear_quic

Spec == Init /\ [][Next]_vars
-----------------------------------------------------------------------------
(* Correctness                                                             *)

\* Every message split off so far, taken or still queued, in order.
AllMessages == delivered \o quic_input_data

EndOf(m) == m.data[1].off + Len(m.data)

\* Where in stream l the byte after the last message split off lies.
NextOffset(l) ==
    IF AllMessages # <<>> /\ AllMessages[Len(AllMessages)].level = l
    THEN EndOf(AllMessages[Len(AllMessages)])
    ELSE 0

\* m is a whole message of stream m.level: the bytes its own header calls for,
\* consecutive and all of that level.
WholeMessage(m) ==
    /\ Len(m.data) = SSL3_HM_HEADER_LENGTH + n2l3(m.data)
    /\ m.data = Bytes(m.level, m.data[1].off, Len(m.data))

\* The messages SSL_provide_quic_data has queued and quic_get_message handed to
\* the state machine are whole, start at the beginning of their level's stream
\* and follow one another without a gap or an overlap; the level never goes
\* down.  However the bytes were cut into calls, whatever allocation failed.
MessagesInOrder ==
    \A i \in 1..Len(AllMessages) :
        LET m == AllMessages[i]
        IN  /\ WholeMessage(m)
            /\ \/ i = 1 /\ m.data[1].off = 0
               \/ i > 1 /\ AllMessages[i - 1].level < m.level /\ m.data[1].off = 0
               \/ i > 1 /\ AllMessages[i - 1].level = m.level
                        /\ m.data[1].off = EndOf(AllMessages[i - 1])

\* Between calls quic_buf holds exactly the bytes handed over at the latest
\* level that no message was made of: a call that returned 1 lost nothing and
\* kept nothing twice.
FragmentIsTheRest ==
    (pc = "idle" /\ ~error) =>
        LET l == quic_latest_level_received
        IN  quic_buf = Bytes(l, NextOffset(l), received[l] - NextOffset(l))

\* "A TLS message must not cross an encryption level boundary": once bytes of a
\* later level were taken, everything handed over at an earlier level went into
\* whole messages.
NoMessageCrossesLevels ==
    \A l \in Level :
        (l < quic_latest_level_received /\ received[l] # 0) =>
            \E i \in 1..Len(AllMessages) :
                AllMessages[i].level = l /\ EndOf(AllMessages[i]) = received[l]

\* "Split on handshake message boundaries": after a call no complete message is
\* left behind in quic_buf, where quic_get_message cannot see it, but for one
\* without a body that ends the call: the loop asks for more than a header.
NoCompleteMessageHeld ==
    (pc = "idle" /\ ~error /\ Len(quic_buf) >= SSL3_HM_HEADER_LENGTH) =>
        \/ Len(quic_buf) < SSL3_HM_HEADER_LENGTH + n2l3(quic_buf)
        \/ Len(quic_buf) = SSL3_HM_HEADER_LENGTH /\ n2l3(quic_buf) = 0

\* The bytes not yet made into messages: those of a call in progress, or the
\* fragment between calls.
Pending == IF pc = "split" THEN data ELSE quic_buf

PendingIsTheRest ==
    ~error => LET l == quic_latest_level_received
              IN  Pending = Bytes(l, NextOffset(l), received[l] - NextOffset(l))

\* Nothing has come at a level above the latest, and no message reaches beyond
\* what was handed over.
WithinReceived ==
    /\ \A k \in Level : k > quic_latest_level_received => received[k] = 0
    /\ \A i \in 1..Len(AllMessages) :
          /\ AllMessages[i].data # <<>>
          /\ AllMessages[i].level <= quic_latest_level_received
          /\ EndOf(AllMessages[i]) <= received[AllMessages[i].level]

\* What the properties above rest on: FragmentIsTheRest at every step of a call,
\* with the bounds that make a later level start where no message is.
InductiveInvariant ==
    /\ TypeOK
    /\ MessagesInOrder
    /\ NoMessageCrossesLevels
    /\ pc = "split" => ~error
    /\ PendingIsTheRest
    /\ WithinReceived

\* The input path implements the stream of messages of QuicMessageStream.
Stream == INSTANCE QuicMessageStream
              WITH MaxOffset <- MaxOffset, BodyLen <- BodyLen,
                   received <- received, delivered <- delivered
ImplementsMessageStream == Stream!Spec
=============================================================================
