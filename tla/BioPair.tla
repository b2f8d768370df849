------------------------------ MODULE BioPair ------------------------------
(***************************************************************************)
(* A pair of BIOs, each with a ring buffer for what is written to it and   *)
(* read from the other: crypto/bio/bss_bio.c.  Both are used by one        *)
(* thread; one action is one call.  A BIO that is freed is replaced by a   *)
(* new one, so that there are always two.                                  *)
(***************************************************************************)
EXTENDS Integers, Sequences

CONSTANTS
    Sides,          \* the two BIOs
    Writers,        \* bound: the BIOs written to
    Bytes,          \* the values of a byte
    MaxCall,        \* bound on the bytes asked for in one call
    Sizes,          \* the sizes of buffers
    DefaultSize,    \* 17 * 1024 in the source
    NoBuf, Junk     \* a buffer not allocated, a byte not initialised

ASSUME SidesAssumption == \E a, b \in Sides : a # b /\ Sides = {a, b}
ASSUME SizesAssumption == /\ Sizes \subseteq Nat \ {0} /\ DefaultSize \in Sizes
                          /\ MaxCall \in Nat
ASSUME ByteAssumption == Junk \notin Bytes

\* The contents a buffer of n bytes may have.
Buffers(n) == [0 .. n - 1 -> Bytes \union {Junk}]

ASSUME NoBufAssumption == \A n \in Sizes : NoBuf \notin Buffers(n)

VARIABLES
    paired,         \* each is the peer of the other, and both have init set
    bio,            \* bio[s]: its bio_bio_st
    moved           \* the bytes the last read or write has moved

vars == <<paired, bio, moved>>

Smaller(m, n) == IF m < n THEN m ELSE n

\* bio_new
FreshBio == [buf |-> NoBuf, size |-> DefaultSize, len |-> 0, offset |-> 0,
             closed |-> FALSE, request |-> 0]

-----------------------------------------------------------------------------
(* The ring buffer *)

\* Mutant: the end of the buffer is taken for a place in it.
WriteOffsetLate(b) ==
    IF b.offset + b.len > b.size THEN b.offset + b.len - b.size
                                 ELSE b.offset + b.len

\* Where the next byte is written.
WriteOffset(b) ==
    IF b.offset + b.len >= b.size THEN b.offset + b.len - b.size
                                  ELSE b.offset + b.len

\* Mutant: the wrap around the end of the buffer is missed when writing.
InChunkNoWrap(b, rest) == rest

\* One iteration of bio_write takes what fits before the end of the buffer.
InChunk(b, rest) ==
    IF WriteOffset(b) + rest <= b.size THEN rest ELSE b.size - WriteOffset(b)

CopyIn(b, data) ==
    LET w == WriteOffset(b)
    IN  [b EXCEPT !.buf = [k \in 0 .. b.size - 1 |->
                              IF w <= k /\ k < w + Len(data) THEN data[k - w + 1]
                                                             ELSE b.buf[k]],
                  !.len = @ + Len(data)]

\* The loop of bio_write: one or two iterations.
PutBytes(b, data) ==
    LET n == InChunk(b, Len(data))
        b1 == CopyIn(b, SubSeq(data, 1, n))
        rest == SubSeq(data, n + 1, Len(data))
    IN  IF n = Len(data) THEN b1
        ELSE CopyIn(b1, SubSeq(rest, 1, InChunk(b1, Len(rest))))

\* One iteration of bio_read gives what lies before the end of the buffer.
OutChunk(b, rest) ==
    IF b.offset + rest <= b.size THEN rest ELSE b.size - b.offset

CopyOut(b, n) == [i \in 1 .. n |-> b.buf[b.offset + i - 1]]

\* What was read is taken out; an empty buffer starts at its beginning again.
Advance(b, n) ==
    [b EXCEPT !.len = @ - n,
              !.offset = IF b.len = n THEN 0
                         ELSE IF b.offset + n = b.size THEN 0 ELSE b.offset + n]

\* The loop of bio_read: the bytes it gives, and the buffer after it.
TakeBytes(b, size) ==
    LET n == OutChunk(b, size)
    IN  IF n = size THEN CopyOut(b, n)
        ELSE CopyOut(b, n) \o CopyOut(Advance(b, n), OutChunk(Advance(b, n), size - n))
AfterTake(b, size) ==
    LET n == OutChunk(b, size)
    IN  IF n = size THEN Advance(b, n)
        ELSE Advance(Advance(b, n), OutChunk(Advance(b, n), size - n))

\* The space bio_nwrite0 offers: no wrap-around.
NWriteSpace(b) == InChunk(b, b.size - b.len)

\* The bytes bio_nread0 offers: no wrap-around.
NReadAvailable(b) == OutChunk(b, b.len)

-----------------------------------------------------------------------------
Init ==
    /\ paired = FALSE
    /\ bio = [s \in Sides |-> FreshBio]
    /\ moved = <<>>

Data == UNION {[1 .. n -> Bytes] : n \in 1 .. MaxCall}

\* bio_write of s: nothing is taken after shutdown or when the buffer is full.
Write(s, data) ==
    /\ paired
    /\ LET b == [bio[s] EXCEPT !.request = 0]
           n == Smaller(Len(data), b.size - b.len)
       IN  IF b.closed \/ b.len = b.size
           THEN bio' = [bio EXCEPT ![s] = b] /\ UNCHANGED moved
           ELSE /\ bio' = [bio EXCEPT ![s] = PutBytes(b, SubSeq(data, 1, n))]
                /\ moved' = SubSeq(data, 1, n)
    /\ UNCHANGED paired

\* bio_nwrite of s, with the bytes the caller puts in the space it is given.
NWrite(s, data) ==
    /\ paired
    /\ LET b == [bio[s] EXCEPT !.request = 0]
           n == Smaller(Len(data), NWriteSpace(b))
       IN  IF b.closed \/ b.len = b.size
           THEN bio' = [bio EXCEPT ![s] = b] /\ UNCHANGED moved
           ELSE /\ bio' = [bio EXCEPT ![s] = CopyIn(b, SubSeq(data, 1, n))]
                /\ moved' = SubSeq(data, 1, n)
    /\ UNCHANGED paired

\* Mutant: a request larger than the buffer is kept as it is.
RequestUncapped(b, size) == [b EXCEPT !.request = IF b.closed THEN 0 ELSE size]

\* A read that finds nothing notes what it asked for, unless s writes no more.
NoteRequest(b, size) ==
    [b EXCEPT !.request = IF b.closed THEN 0 ELSE Smaller(size, b.size)]

\* bio_read of the peer of s.
Read(s, size) ==
    /\ paired
    /\ LET b == [bio[s] EXCEPT !.request = 0]
           n == Smaller(size, b.len)
       IN  IF size = 0 \/ b.len = 0
           THEN /\ bio' = [bio EXCEPT ![s] = IF size = 0 THEN b ELSE NoteRequest(b, size)]
                /\ moved' = <<>>
           ELSE /\ bio' = [bio EXCEPT ![s] = AfterTake(b, n)]
                /\ moved' = TakeBytes(b, n)
    /\ UNCHANGED paired

\* bio_nread of the peer of s.
NRead(s, num) ==
    /\ paired
    /\ LET b == [bio[s] EXCEPT !.request = 0]
           n == Smaller(num, NReadAvailable(b))
       IN  IF b.len = 0 \/ n = 0
           THEN /\ bio' = [bio EXCEPT ![s] = IF b.len = 0 THEN NoteRequest(b, 1) ELSE b]
                /\ moved' = <<>>
           ELSE /\ bio' = [bio EXCEPT ![s] = Advance(b, n)]
                /\ moved' = CopyOut(b, n)
    /\ UNCHANGED paired

\* BIO_C_RESET_READ_REQUEST
ResetReadRequest(s) ==
    /\ bio' = [bio EXCEPT ![s].request = 0]
    /\ UNCHANGED <<paired, moved>>

\* BIO_C_SHUTDOWN_WR
ShutdownWr(s) ==
    /\ bio' = [bio EXCEPT ![s].closed = TRUE]
    /\ UNCHANGED <<paired, moved>>

\* BIO_CTRL_RESET
Reset(s) ==
    /\ bio' = IF bio[s].buf = NoBuf THEN bio
              ELSE [bio EXCEPT ![s].len = 0, ![s].offset = 0]
    /\ UNCHANGED <<paired, moved>>

\* BIO_C_SET_WRITE_BUF_SIZE: refused in a pair.
SetWriteBufSize(s, size) ==
    /\ ~paired
    /\ bio' = IF bio[s].size = size THEN bio
              ELSE [bio EXCEPT ![s].buf = NoBuf, ![s].size = size]
    /\ UNCHANGED <<paired, moved>>

Unused(b) == [k \in 0 .. b.size - 1 |-> Junk]

\* A buffer a BIO has is used again.
Allocated(b) ==
    IF b.buf = NoBuf THEN [b EXCEPT !.buf = Unused(b), !.len = 0, !.offset = 0] ELSE b

\* The state of a BIO in a new pair.
Paired(b) == [Allocated(b) EXCEPT !.closed = FALSE, !.request = 0]

\* bio_make_pair: refused when one of them is in a pair.
MakePair ==
    /\ ~paired
    /\ paired' = TRUE
    /\ bio' = [s \in Sides |-> Paired(bio[s])]
    /\ UNCHANGED moved

\* The buffer of s is there or can be allocated, that of the other BIO cannot.
MakePairFails(s) ==
    /\ ~paired
    /\ \E t \in Sides \ {s} : bio[t].buf = NoBuf
    /\ bio' = [bio EXCEPT ![s] = Allocated(@)]
    /\ UNCHANGED <<paired, moved>>

Unpaired(b) == [b EXCEPT !.len = 0, !.offset = 0]

\* bio_destroy_pair
DestroyPair ==
    /\ paired
    /\ paired' = FALSE
    /\ bio' = [s \in Sides |-> Unpaired(bio[s])]
    /\ UNCHANGED moved

\* bio_free, which takes the pair apart, and bio_new.
Free(s) ==
    /\ paired' = FALSE
    /\ bio' = [t \in Sides |-> IF t = s THEN FreshBio
                               ELSE IF paired THEN Unpaired(bio[t]) ELSE bio[t]]
    /\ UNCHANGED moved

Next ==
    \/ \E s \in Sides :
          \/ s \in Writers /\ \E data \in Data : Write(s, data) \/ NWrite(s, data)
          \/ \E n \in 0 .. MaxCall : Read(s, n) \/ NRead(s, n)
          \/ \E size \in Sizes : SetWriteBufSize(s, size)
          \/ ResetReadRequest(s) \/ ShutdownWr(s) \/ Reset(s) \/ Free(s) \/ MakePairFails(s)
    \/ MakePair
    \/ DestroyPair

Spec == Init /\ [][Next]_vars
-----------------------------------------------------------------------------
TypeOK ==
    /\ paired \in BOOLEAN
    /\ \A s \in Sides :
          /\ bio[s].size \in Sizes
          /\ bio[s].buf = NoBuf \/ bio[s].buf \in Buffers(bio[s].size)
          /\ bio[s].len \in 0 .. bio[s].size /\ bio[s].offset \in 0 .. bio[s].size - 1
          /\ bio[s].closed \in BOOLEAN /\ bio[s].request \in Nat
    /\ moved \in Seq(Bytes)

\* The types, with what the comments of struct bio_bio_st promise of its members
\* and the calls rely on: the peer is NULL if there is no buffer; len is 0 out of
\* a pair and offset is 0 when len is; and in a pair request is 0 when len is
\* not, and never more than the buffer space warrants.
StructComments ==
    /\ TypeOK
    /\ \A s \in Sides :
          LET b == bio[s]
          IN  /\ paired => b.buf # NoBuf
              /\ ~paired => b.len = 0
              /\ b.len = 0 => b.offset = 0
              /\ paired /\ b.len # 0 => b.request = 0
              /\ paired => b.request <= b.size - b.len

\* "To fulfil the promise by BIO_ctrl_get_write_guarantee, BIO_nwrite may have
\* to be called twice": twice is always enough, as it is to read all there is.
TwoCallsEnough ==
    \A s \in Sides :
        LET b == bio[s]
            n == NWriteSpace(b)
            w == CopyIn(b, [i \in 1 .. n |-> Junk])
            m == NReadAvailable(b)
        IN  paired => /\ n + NWriteSpace(w) = b.size - b.len
                      /\ m + NReadAvailable(Advance(b, m)) = b.len

\* The bytes in a buffer, in the order in which they were written.
Content(b) ==
    [i \in 1 .. b.len |-> b.buf[IF b.offset + i - 1 < b.size THEN b.offset + i - 1
                                ELSE b.offset + i - 1 - b.size]]

\* The ring buffers are queues: through every wrap-around, partial read or
\* write, shutdown and new pairing no byte is lost, repeated, moved or read
\* before it was written.
Pipe == INSTANCE BytePipe
            WITH Sides <- Sides, Data <- Data, Rooms <- Sizes,
                 connected <- paired,
                 queue <- [s \in Sides |-> Content(bio[s])],
                 room <- [s \in Sides |-> bio[s].size],
                 eof <- [s \in Sides |-> bio[s].closed],
                 moved <- moved
IsPipe == Pipe!Spec
=============================================================================
