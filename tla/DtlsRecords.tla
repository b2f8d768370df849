---------------------------- MODULE DtlsRecords ----------------------------
(***************************************************************************)
(* The record layers of one direction of a DTLS connection: the records    *)
(* the writer numbers, and what the reader does with those that come, in   *)
(* any order, any number of times, damaged or not at all: the replay       *)
(* window, the records of the next epoch, and the change of record layers  *)
(* (ssl/record/methods/dtls_meth.c).                                       *)
(*                                                                         *)
(* A record is its epoch, its sequence number and whether it comes as it   *)
(* was sent.  A datagram has one or more records.  Of the rest of the one  *)
(* that is being read the model keeps how many records it has; what they   *)
(* are is chosen when they are read.  The writer never waits for the       *)
(* reader, so it might as well have written them before.                   *)
(***************************************************************************)
EXTENDS Integers, FiniteSets

CONSTANTS
    Window,         \* bits of the replay bitmap, 64 in the source
    Saturation,     \* bound of satsub64be, 128 in the source
    MaxQueued,      \* limit of unprocessed_rcds, 100 in the source
    MaxEpoch,       \* bound on epochs
    MaxSeq,         \* bound on sequence numbers
    MaxLeft,        \* bound on the records that follow the first of a datagram
    EtmChoices      \* whether encrypt-then-MAC may be negotiated

ASSUME WindowAssumption == /\ Window \in Nat \ {0}
                           /\ Saturation \in Nat /\ Saturation >= Window
ASSUME RecordsBoundAssumption == /\ MaxQueued \in Nat /\ MaxEpoch \in Nat
                                 /\ MaxSeq \in Nat /\ MaxLeft \in Nat
                                 /\ EtmChoices \subseteq BOOLEAN

Epochs == 0 .. MaxEpoch
Seqs == 0 .. MaxSeq
Ids == Epochs \X Seqs

VARIABLES
    etm,        \* encrypt-then-MAC is in use after epoch 0
    wepoch,     \* the epoch of the current write record layer
    wseq,       \* the next sequence number of the write layer of each epoch
    epoch,      \* the epoch of the read record layer
    bitmap,     \* its replay window
    in_init,    \* a handshake is in progress
    left,       \* rbuf.left: records of the current datagram not read yet
    unproc,     \* unprocessed_rcds: [seq, good], one for each number
    prev,       \* what the record layer before this one has pushed to it
    alert,      \* the record layer has failed
    handed,     \* how often the record of each name was handed up
    early,      \* names of the sound records ever put in unprocessed_rcds
    overtook    \* names of the records handed up ahead of what is in prev

record_vars == <<etm, wepoch, wseq, epoch, bitmap, in_init, left, unproc, prev, alert, handed,
                 early, overtook>>
history == <<early, overtook>>
writer == <<wepoch, wseq>>

-----------------------------------------------------------------------------
(* The replay window *)

\* The difference of two sequence numbers, saturated.
satsub64be(a, b) ==
    IF a - b > Saturation THEN Saturation
    ELSE IF a - b < -Saturation THEN -Saturation
    ELSE a - b

NewBitmap == [max |-> 0, map |-> {}]

\* Mutant: the edge of the window is off by one.
ReplayCheckWide(seq, b) ==
    LET cmp == satsub64be(seq, b.max)
    IN  cmp > 0 \/ (-cmp <= Window /\ -cmp \notin b.map)

\* A record is new, or in the window and not there yet.
dtls_record_replay_check(seq, b) ==
    LET cmp == satsub64be(seq, b.max)
    IN  cmp > 0 \/ (-cmp < Window /\ -cmp \notin b.map)

\* Mutant: a record far ahead leaves the bits of the old window.
BitmapUpdateKeeps(seq, b) ==
    LET cmp == satsub64be(seq, b.max)
    IN  IF cmp > 0
        THEN [max |-> seq,
              map |-> IF cmp < Window
                      THEN {i \in 0 .. Window - 1 : i = 0 \/ i - cmp \in b.map}
                      ELSE b.map \union {0}]
        ELSE [b EXCEPT !.map = @ \union {-cmp}]

\* Mutant: bits that leave the window are not cut off.
BitmapUpdateUncut(seq, b) ==
    LET cmp == satsub64be(seq, b.max)
    IN  IF cmp > 0
        THEN [max |-> seq, map |-> {0} \union {i + cmp : i \in b.map}]
        ELSE [b EXCEPT !.map = @ \union {-cmp}]

\* The window moves so that the highest number has bit 0; a record far ahead
\* starts a new one.
dtls_record_bitmap_update(seq, b) ==
    LET cmp == satsub64be(seq, b.max)
    IN  IF cmp > 0
        THEN [max |-> seq,
              map |-> IF cmp < Window
                      THEN {i \in 0 .. Window - 1 : i = 0 \/ i - cmp \in b.map}
                      ELSE {0}]
        ELSE IF -cmp < Window THEN [b EXCEPT !.map = @ \union {-cmp}] ELSE b

-----------------------------------------------------------------------------
RecordsInit ==
    /\ etm \in EtmChoices
    /\ wepoch = 0
    /\ wseq = [e \in Epochs |-> 0]
    /\ epoch = 0
    /\ bitmap = NewBitmap
    /\ in_init = TRUE
    /\ left = 0
    /\ unproc = {}
    /\ prev = {}
    /\ alert = FALSE
    /\ handed = [id \in Ids |-> 0]
    /\ early = {}
    /\ overtook = {}

\* A record is written, under the current record layer or, for a message that
\* is sent again, under the one before it, whose counter goes on.
WriteRecord(e) ==
    /\ e \in {wepoch - 1, wepoch}
    /\ wseq[e] <= MaxSeq
    /\ wseq' = [wseq EXCEPT ![e] = @ + 1]
    /\ UNCHANGED <<etm, wepoch, epoch, bitmap, in_init, left, unproc, prev, alert, handed,
                   history>>

NextWriteLayer ==
    /\ wepoch < MaxEpoch
    /\ wepoch' = wepoch + 1
    /\ UNCHANGED <<etm, wseq, epoch, bitmap, in_init, left, unproc, prev, alert, handed,
                   history>>

\* Records are not protected in epoch 0: whatever comes is taken.
Sound(r) == r.good \/ epoch = 0

\* dtls_process_record for a record the window lets through: it is handed up
\* and marked; one that does not verify is dropped, and not marked, unless it
\* is protected by encrypt-then-MAC: then the record layer fails.
Process(r) ==
    IF dtls_record_replay_check(r.seq, bitmap)
    THEN /\ bitmap' = IF Sound(r) THEN dtls_record_bitmap_update(r.seq, bitmap) ELSE bitmap
         /\ handed' = IF Sound(r) THEN [handed EXCEPT ![<<epoch, r.seq>>] = @ + 1] ELSE handed
         /\ alert' = (~Sound(r) /\ etm)
    ELSE UNCHANGED <<bitmap, handed, alert>>

\* tls_default_read_n: the next record is taken from what is left of the
\* datagram; when nothing is left, a datagram is read from the wire, once all
\* that the previous record layer had is read.
NextInDatagram ==
    \/ left > 0 /\ left' = left - 1
    \/ left = 0 /\ prev = {} /\ left' \in 0 .. MaxLeft

\* A record of the current epoch.
ReceiveRecord(r) ==
    /\ ~alert
    /\ r.epoch = epoch
    /\ NextInDatagram
    /\ Process(r)
    /\ overtook' = IF prev # {} /\ handed' # handed
                   THEN overtook \union {<<epoch, r.seq>>} ELSE overtook
    /\ UNCHANGED <<etm, writer, epoch, in_init, unproc, prev, early>>

\* A record of the next epoch is kept while a handshake is in progress, unless
\* the queue is full or holds the number already.  The buffer goes with it, and
\* with the buffer what is left of the datagram.
ReceiveEarly(r) ==
    /\ ~alert
    /\ r.epoch = epoch + 1
    /\ left > 0 \/ prev = {}
    /\ dtls_record_replay_check(r.seq, NewBitmap)
    /\ in_init
    /\ Cardinality(unproc) < MaxQueued
    /\ left' = 0
    /\ IF \E q \in unproc : q.seq = r.seq
       THEN UNCHANGED <<unproc, early>>
       ELSE /\ unproc' = unproc \union {[seq |-> r.seq, good |-> r.good]}
            /\ early' = IF r.good THEN early \union {<<r.epoch, r.seq>>} ELSE early
    /\ UNCHANGED <<etm, writer, epoch, bitmap, in_init, prev, alert, handed, overtook>>

\* A record of any other epoch, or of the next one that cannot be kept, is
\* dumped.
DumpRecord(e) ==
    /\ ~alert
    /\ e # epoch
    /\ e = epoch + 1 => ~in_init \/ Cardinality(unproc) >= MaxQueued
    /\ NextInDatagram
    /\ UNCHANGED <<etm, writer, epoch, bitmap, in_init, unproc, prev, alert, handed, history>>

\* Mutant: the queue is emptied from its end.
FirstInLast(queue) ==
    {r \in queue : \A q \in queue : q.seq <= r.seq}

\* The records of a queue are taken out in the order of their numbers.
First(queue) ==
    {r \in queue : \A q \in queue : r.seq <= q.seq}

\* The record layer reads what the previous one has pushed, in its order: the
\* rest of the datagram, which came first, then each record it had kept.
ReadPrevious ==
    /\ ~alert /\ left = 0
    /\ \E r \in First(prev) :
          /\ prev' = prev \ {r}
          /\ Process(r)
    /\ UNCHANGED <<etm, writer, epoch, in_init, left, unproc, history>>

\* The ChangeCipherSpec, the last record of its epoch the state machine takes,
\* is there: a new record layer, and dtls_free of the old one, which pushes to it
\* what is left of the datagram, then the records of the new epoch.  The next
\* ChangeCipherSpec is sent in a handshake that starts after this one, when all
\* that was pushed is read.
NewReadLayer ==
    /\ ~alert /\ prev = {} /\ in_init
    /\ epoch < wepoch
    /\ epoch' = epoch + 1
    /\ bitmap' = NewBitmap
    /\ prev' = unproc
    /\ unproc' = {}
    /\ UNCHANGED <<etm, writer, in_init, left, alert, handed, history>>

\* The handshake is over, or the next one starts.
SetInInit ==
    /\ in_init' = ~in_init
    /\ UNCHANGED <<etm, writer, epoch, bitmap, left, unproc, prev, alert, handed, history>>

\* What may come: a record that was sent, or anything else that does not verify.
Incoming ==
    {r \in [epoch : Epochs, seq : Seqs, good : BOOLEAN] :
        r.good => r.seq < wseq[r.epoch]}

RecordsNext ==
    \/ \E e \in Epochs : WriteRecord(e)
    \/ NextWriteLayer
    \/ \E r \in Incoming : ReceiveRecord(r) \/ ReceiveEarly(r)
    \/ \E e \in Epochs : DumpRecord(e)
    \/ ReadPrevious
    \/ NewReadLayer
    \/ SetInInit

RecordsSpec == RecordsInit /\ [][RecordsNext]_record_vars
-----------------------------------------------------------------------------
RecordsTypeOK ==
    /\ etm \in BOOLEAN /\ in_init \in BOOLEAN /\ alert \in BOOLEAN
    /\ wepoch \in Epochs
    /\ wseq \in [Epochs -> 0 .. MaxSeq + 1]
    /\ epoch \in Epochs
    /\ left \in 0 .. MaxLeft
    /\ bitmap \in [max : Seqs, map : SUBSET (0 .. Window - 1)]
    /\ unproc \subseteq [seq : Seqs, good : BOOLEAN]
    /\ prev \subseteq [seq : Seqs, good : BOOLEAN]
    /\ handed \in [Ids -> Nat]
    /\ early \subseteq Ids
    /\ overtook \subseteq Ids

\* The numbers of the records of this epoch that were handed up.
Accepted == {s \in Seqs : handed[<<epoch, s>>] > 0}

\* The window lets a record through exactly when it was not handed up before
\* and is not a whole window behind the highest one that was: whatever the
\* order, a record is neither taken twice nor refused too soon.
WindowExact ==
    \A s \in Seqs :
        dtls_record_replay_check(s, bitmap) <=>
            s \notin Accepted /\ \A t \in Accepted : t < s + Window

\* A record that came in the datagram of the ChangeCipherSpec was handed up
\* before the record s of epoch e, and is a whole window or more ahead of it.
Overtaken(e, s) == \E t \in Seqs : <<e, t>> \in overtook /\ t >= s + Window

\* A sound record of the next epoch that was kept is handed up after the change
\* of record layers.  It does not fall out of the new window on the way, however
\* far apart the records kept are, unless one that came together with the
\* ChangeCipherSpec has moved the window past it.
EarlyKept ==
    \A id \in early :
        \/ handed[id] = 1
        \/ id[1] = epoch + 1 /\ [seq |-> id[2], good |-> TRUE] \in unproc
        \/ id[1] = epoch /\ [seq |-> id[2], good |-> TRUE] \in prev
        \/ Overtaken(id[1], id[2])

\* The record layers deliver each record at most once, and in a protected epoch
\* only what was sent.
Once == INSTANCE DatagramOnce
            WITH Ids <- Ids,
                 Protected <- {id \in Ids : id[1] > 0},
                 sent <- {id \in Ids : id[2] < wseq[id[1]]},
                 count <- handed
DeliversOnce == Once!Spec

=============================================================================
