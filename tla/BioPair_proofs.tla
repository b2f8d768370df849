--------------------------- MODULE BioPair_proofs ---------------------------
(***************************************************************************)
(* Proofs about BioPair, for buffers, calls and bytes of any number: the   *)
(* promises of struct bio_bio_st, and that the ring buffers are queues.    *)
(***************************************************************************)
EXTENDS BioPair, SequenceTheorems, TLAPS

-----------------------------------------------------------------------------
(* The inductive invariant *)

AnyBuffer == UNION {Buffers(n) : n \in Sizes}

\* A bio_bio_st, and one with a buffer that is in use.
Struct == [buf : AnyBuffer \union {NoBuf}, size : Sizes, len : Nat, offset : Nat,
           closed : BOOLEAN, request : Nat]

Ring(b) == /\ b \in Struct /\ b.buf \in Buffers(b.size)
           /\ b.len <= b.size /\ b.offset < b.size

\* What StructComments says of one BIO.
Kept(b, p) ==
    /\ b.buf = NoBuf \/ b.buf \in Buffers(b.size)
    /\ b.len <= b.size /\ b.offset < b.size
    /\ p => b.buf # NoBuf
    /\ ~p => b.len = 0
    /\ b.len = 0 => b.offset = 0
    /\ p /\ b.len # 0 => b.request = 0
    /\ p => b.request <= b.size - b.len

\* A BIO is one of these, and what there is to read has been written.
Good(b, p) == b \in Struct /\ Kept(b, p) /\ Content(b) \in Seq(Bytes)

IInv ==
    /\ paired \in BOOLEAN
    /\ bio = [s \in Sides |-> bio[s]] /\ \A s \in Sides : Good(bio[s], paired)
    /\ moved \in Seq(Bytes)

-----------------------------------------------------------------------------
(* Facts about one buffer *)

\* Sizes are positive.
LEMMA SizeFacts ==
    ASSUME NEW n \in Sizes
    PROVE  n \in Nat /\ n > 0
BY SizesAssumption

\* A BIO in a pair has a ring buffer.
LEMMA PairedRing ==
    ASSUME NEW b \in Struct, Kept(b, TRUE)
    PROVE  Ring(b) /\ Ring([b EXCEPT !.request = 0])
BY DEF Ring, Kept, Struct

\* Where bio_write puts its first byte is inside the ring.
LEMMA WriteOffsetFacts ==
    ASSUME NEW b, Ring(b), b.len < b.size
    PROVE  WriteOffset(b) \in 0 .. b.size - 1
BY SizeFacts DEF Ring, Struct, WriteOffset

\* What one iteration of bio_write copies: at least a byte, up to the end of the
\* ring, and all of it unless it stops there.
LEMMA InChunkFacts ==
    ASSUME NEW b, Ring(b), b.len < b.size, NEW n \in 1 .. b.size - b.len
    PROVE  /\ InChunk(b, n) \in 1 .. n
           /\ WriteOffset(b) + InChunk(b, n) <= b.size
           /\ InChunk(b, n) # n => WriteOffset(b) + InChunk(b, n) = b.size
BY SizeFacts DEF Ring, Struct, WriteOffset, InChunk


\* What a place in a buffer may hold.
Octets == Bytes \union {Junk}

\* Where the byte number i of the queue lies, and the queue.
Place(o, n, i) == IF o + i - 1 < n THEN o + i - 1 ELSE o + i - 1 - n
Queue(buf, o, n, l) == [i \in 1 .. l |-> buf[Place(o, n, i)]]

\* What there is to read, without the record around it.
LEMMA ContentIsQueue ==
    ASSUME NEW b
    PROVE  Content(b) = Queue(b.buf, b.offset, b.size, b.len)
BY DEF Content, Queue, Place

\* A place in the ring is inside it.
LEMMA PlaceFacts ==
    ASSUME NEW n \in Nat, NEW o \in 0 .. n - 1, NEW i \in 1 .. n
    PROVE  Place(o, n, i) \in 0 .. n - 1
BY DEF Place

\* A place after the queue is not one of it, and the places after it come in
\* their order up to the end of the buffer.
LEMMA PlacesApart ==
    ASSUME NEW n \in Nat, NEW o \in 0 .. n - 1, NEW l \in 0 .. n - 1, NEW m \in 0 .. n - l,
           NEW w \in Nat, w = Place(o, n, l + 1), w + m <= n
    PROVE  /\ \A i \in 1 .. l : ~(w <= Place(o, n, i) /\ Place(o, n, i) < w + m)
           /\ \A i \in l + 1 .. l + m : Place(o, n, i) = w + (i - l - 1)
BY DEF Place

\* Reading l places of a ring gives l octets.
LEMMA QueueType ==
    ASSUME NEW n \in Nat, NEW buf \in Buffers(n), NEW o \in 0 .. n - 1,
           NEW l \in 0 .. n
    PROVE  Queue(buf, o, n, l) \in Seq(Octets) /\ Len(Queue(buf, o, n, l)) = l
<1>1. \A i \in 1 .. l : Place(o, n, i) \in 0 .. n - 1
  BY PlaceFacts
<1>2. \A i \in 1 .. l : buf[Place(o, n, i)] \in Octets
  BY <1>1 DEF Buffers, Octets
<1>3. Queue(buf, o, n, l) \in [1 .. l -> Octets]
  BY <1>2 DEF Queue
<1> QED  BY <1>3

\* The buffer after data is put in place w.
Filled(buf, n, w, data) ==
    [k \in 0 .. n - 1 |-> IF w <= k /\ k < w + Len(data) THEN data[k - w + 1] ELSE buf[k]]

\* Filling a ring behind the queue appends to the queue, wherever the queue
\* wraps.
LEMMA FilledFacts ==
    ASSUME NEW n \in Nat, NEW buf \in Buffers(n), NEW o \in 0 .. n - 1,
           NEW l \in 0 .. n - 1, NEW data \in Seq(Octets), l + Len(data) <= n,
           NEW w \in Nat, w = Place(o, n, l + 1), w + Len(data) <= n
    PROVE  /\ Filled(buf, n, w, data) \in Buffers(n)
           /\ Queue(Filled(buf, n, w, data), o, n, l + Len(data)) = Queue(buf, o, n, l) \o data
<1> DEFINE m == Len(data)
           f == Filled(buf, n, w, data)
           q == Queue(buf, o, n, l)
<1>0. m \in Nat /\ m \in 0 .. n - l /\ (\A i \in 1 .. m : data[i] \in Octets)
  OBVIOUS
<1>a. /\ \A i \in 1 .. l : ~(w <= Place(o, n, i) /\ Place(o, n, i) < w + m)
      /\ \A i \in l + 1 .. l + m : Place(o, n, i) = w + (i - l - 1)
  <2> HIDE DEF m
  <2>1. w + m <= n
    BY DEF m
  <2> QED  BY <1>0, <2>1, PlacesApart
<1>b. \A i \in 1 .. l + m : Place(o, n, i) \in 0 .. n - 1
  <2> SUFFICES ASSUME NEW i \in 1 .. l + m PROVE Place(o, n, i) \in 0 .. n - 1
    OBVIOUS
  <2>1. i \in 1 .. n
    BY <1>0
  <2> QED  BY <2>1, PlaceFacts
<1> HIDE DEF m
<1>1. \A k \in 0 .. n - 1 :
          /\ w <= k /\ k < w + m => f[k] = data[k - w + 1] /\ k - w + 1 \in 1 .. m
          /\ ~(w <= k /\ k < w + m) => f[k] = buf[k]
  BY <1>0 DEF Filled, m
<1>2. f \in Buffers(n)
  <2>1. \A k \in 0 .. n - 1 : f[k] \in Octets
    <3> HIDE DEF f
    <3> QED  BY <1>0, <1>1 DEF Buffers, Octets
  <2>2. f = [k \in 0 .. n - 1 |-> f[k]]
    BY DEF Filled
  <2> HIDE DEF f
  <2> QED  BY <2>1, <2>2 DEF Buffers, Octets
<1> HIDE DEF f
<1>3. \A i \in 1 .. l : f[Place(o, n, i)] = buf[Place(o, n, i)]
  <2> SUFFICES ASSUME NEW i \in 1 .. l
               PROVE  f[Place(o, n, i)] = buf[Place(o, n, i)]
    OBVIOUS
  <2>1. Place(o, n, i) \in 0 .. n - 1
    BY <1>0, <1>b
  <2>2. ~(w <= Place(o, n, i) /\ Place(o, n, i) < w + m)
    BY <1>a
  <2> QED  BY <2>1, <2>2, <1>1
<1>4. \A i \in l + 1 .. l + m : f[Place(o, n, i)] = data[i - l]
  <2> SUFFICES ASSUME NEW i \in l + 1 .. l + m
               PROVE  f[Place(o, n, i)] = data[i - l]
    OBVIOUS
  <2>1. Place(o, n, i) \in 0 .. n - 1
    BY <1>0, <1>b
  <2>2. Place(o, n, i) = w + (i - l - 1)
    BY <1>a
  <2>3. w <= Place(o, n, i) /\ Place(o, n, i) < w + m /\ Place(o, n, i) - w + 1 = i - l
    BY <1>0, <2>2
  <2> QED  BY <2>1, <2>3, <1>1
<1>5. q \in Seq(Octets) /\ Len(q) = l /\ \A i \in 1 .. l : q[i] = buf[Place(o, n, i)]
  <2>1. l \in 0 .. n
    OBVIOUS
  <2>3. q \in Seq(Octets) /\ Len(q) = l
    BY <2>1, QueueType, Zenon
  <2>2. \A i \in 1 .. l : q[i] = buf[Place(o, n, i)]
    BY DEF Queue
  <2> QED  BY <2>2, <2>3
<1>6. Queue(f, o, n, l + m) \in Seq(Octets) /\ Len(Queue(f, o, n, l + m)) = l + m
  <2>1. l + m \in 0 .. n
    BY <1>0
  <2> QED  BY <2>1, <1>2, QueueType, Zenon
<1>7. \A i \in 1 .. l + m : Queue(f, o, n, l + m)[i] = f[Place(o, n, i)]
  BY DEF Queue
<1> HIDE DEF q
<1>8. /\ q \o data \in Seq(Octets) /\ Len(q \o data) = l + m
      /\ \A i \in 1 .. l + m : (q \o data)[i] = IF i <= l THEN q[i] ELSE data[i - l]
  BY <1>5, ConcatProperties, Zenon DEF m
<1>9. \A i \in 1 .. l + m : Queue(f, o, n, l + m)[i] = (q \o data)[i]
  <2> SUFFICES ASSUME NEW i \in 1 .. l + m
               PROVE  f[Place(o, n, i)] = (q \o data)[i]
    BY <1>7
  <2>1. CASE i <= l
    BY <2>1, <1>3, <1>5, <1>8
  <2>2. CASE i > l
    BY <2>2, <1>0, <1>4, <1>8
  <2>3. i <= l \/ i > l
    BY <1>0
  <2> QED  BY <2>1, <2>2, <2>3
<1>10. Queue(f, o, n, l + m) = q \o data
  BY <1>6, <1>8, <1>9, SeqEqual
<1> QED  BY <1>2, <1>10 DEF f, q, m

-----------------------------------------------------------------------------
(* Writing *)

\* A BIO whose buffer and length change, or whose length and offset do, or
\* whose request does, keeps its other members.
Fill(b, f, l) == [b EXCEPT !.buf = f, !.len = l]
Drain(b, l, o) == [b EXCEPT !.len = l, !.offset = o]
Ask(b, r) == [b EXCEPT !.request = r]

\* What copying in changes of the struct, and what not.
LEMMA FillFields ==
    ASSUME NEW b \in Struct, NEW f \in AnyBuffer, NEW l \in Nat
    PROVE  /\ Fill(b, f, l) \in Struct
           /\ Fill(b, f, l).buf = f
           /\ Fill(b, f, l).len = l
           /\ Fill(b, f, l).size = b.size
           /\ Fill(b, f, l).offset = b.offset
           /\ Fill(b, f, l).closed = b.closed
           /\ Fill(b, f, l).request = b.request
BY DEF Struct, Fill

\* What copying out changes of the struct, and what not.
LEMMA DrainFields ==
    ASSUME NEW b \in Struct, NEW l \in Nat, NEW o \in Nat
    PROVE  /\ Drain(b, l, o) \in Struct
           /\ Drain(b, l, o).buf = b.buf
           /\ Drain(b, l, o).len = l
           /\ Drain(b, l, o).size = b.size
           /\ Drain(b, l, o).offset = o
           /\ Drain(b, l, o).closed = b.closed
           /\ Drain(b, l, o).request = b.request
BY DEF Struct, Drain

\* What a request changes of the struct, and what not.
LEMMA AskFields ==
    ASSUME NEW b \in Struct, NEW r \in Nat
    PROVE  /\ Ask(b, r) \in Struct
           /\ Ask(b, r).buf = b.buf
           /\ Ask(b, r).len = b.len
           /\ Ask(b, r).size = b.size
           /\ Ask(b, r).offset = b.offset
           /\ Ask(b, r).closed = b.closed
           /\ Ask(b, r).request = r
BY DEF Struct, Ask

\* The ranges of the fields of a BIO with a buffer.
LEMMA RingFields ==
    ASSUME NEW b, Ring(b)
    PROVE  /\ b \in Struct /\ b.size \in Sizes /\ b.size \in Nat /\ b.size > 0
           /\ b.len \in 0 .. b.size /\ b.offset \in 0 .. b.size - 1
           /\ b.buf \in Buffers(b.size) /\ b.buf \in AnyBuffer
BY SizeFacts DEF Ring, Struct, AnyBuffer

\* There are as many octets to read as len says.
LEMMA ContentType ==
    ASSUME NEW b, Ring(b)
    PROVE  Content(b) \in Seq(Octets) /\ Len(Content(b)) = b.len
<1>1. /\ b.size \in Nat /\ b.buf \in Buffers(b.size) /\ b.offset \in 0 .. b.size - 1
      /\ b.len \in 0 .. b.size
  BY RingFields
<1>2. /\ Queue(b.buf, b.offset, b.size, b.len) \in Seq(Octets)
      /\ Len(Queue(b.buf, b.offset, b.size, b.len)) = b.len
  BY <1>1, QueueType, Zenon
<1> QED  BY <1>2, ContentIsQueue

\* Bytes that fit before the end of the buffer follow those that are there.
LEMMA CopyInFacts ==
    ASSUME NEW b, Ring(b), NEW data \in Seq(Octets), b.len < b.size,
           b.len + Len(data) <= b.size, WriteOffset(b) + Len(data) <= b.size
    PROVE  /\ Ring(CopyIn(b, data))
           /\ CopyIn(b, data).size = b.size /\ CopyIn(b, data).offset = b.offset
           /\ CopyIn(b, data).closed = b.closed /\ CopyIn(b, data).request = b.request
           /\ CopyIn(b, data).len = b.len + Len(data)
           /\ Content(CopyIn(b, data)) = Content(b) \o data
<1> DEFINE f == Filled(b.buf, b.size, WriteOffset(b), data)
           l == b.len + Len(data)
<1>0. /\ b \in Struct /\ b.size \in Sizes /\ b.size \in Nat /\ b.len \in 0 .. b.size - 1
      /\ b.offset \in 0 .. b.size - 1 /\ b.buf \in Buffers(b.size)
      /\ WriteOffset(b) \in Nat /\ Len(data) \in Nat
      /\ WriteOffset(b) = Place(b.offset, b.size, b.len + 1)
  BY RingFields, WriteOffsetFacts DEF WriteOffset, Place
<1>1. CopyIn(b, data) = Fill(b, f, l)
  BY DEF CopyIn, Filled, Fill
<1>2. f \in Buffers(b.size) /\ Queue(f, b.offset, b.size, l) = Queue(b.buf, b.offset, b.size, b.len) \o data
  BY <1>0, FilledFacts, Zenon
<1> HIDE DEF f
<1>3. f \in AnyBuffer /\ l \in Nat
  BY <1>0, <1>2 DEF AnyBuffer
<1> HIDE DEF l
<1>4. /\ CopyIn(b, data) \in Struct
      /\ CopyIn(b, data).buf = f /\ CopyIn(b, data).len = l
      /\ CopyIn(b, data).size = b.size
      /\ CopyIn(b, data).offset = b.offset /\ CopyIn(b, data).closed = b.closed
      /\ CopyIn(b, data).request = b.request
  <2>1. b \in Struct /\ f \in AnyBuffer /\ l \in Nat
    BY <1>0, <1>3
  <2>2. /\ Fill(b, f, l) \in Struct
        /\ Fill(b, f, l).buf = f /\ Fill(b, f, l).len = l /\ Fill(b, f, l).size = b.size
        /\ Fill(b, f, l).offset = b.offset /\ Fill(b, f, l).closed = b.closed
        /\ Fill(b, f, l).request = b.request
    BY <2>1, FillFields, Zenon
  <2> QED  BY <2>2, <1>1
<1>5. Ring(CopyIn(b, data))
  BY <1>0, <1>2, <1>4 DEF Ring, l
<1>6. Content(CopyIn(b, data)) = Content(b) \o data
  BY <1>2, <1>4, ContentIsQueue
<1> QED  BY <1>4, <1>5, <1>6 DEF l

\* After an iteration that reached the end of the buffer the next begins at its
\* start and takes all there is left.
LEMMA WrapOffset ==
    ASSUME NEW b, NEW c, b.size \in Nat, b.len \in 0 .. b.size - 1,
           b.offset \in 0 .. b.size - 1, c.size = b.size, c.offset = b.offset,
           NEW n \in 1 .. b.size - b.len, c.len = b.len + n,
           WriteOffset(b) + n = b.size, NEW r \in Nat, r <= b.size
    PROVE  WriteOffset(c) = 0 /\ InChunk(c, r) = r
<1>1. WriteOffset(c) = 0
  BY DEF WriteOffset
<1> QED  BY <1>1 DEF InChunk

\* A sequence cut in two.
LEMMA Cut ==
    ASSUME NEW S, NEW q \in Seq(S), NEW n \in 0 .. Len(q)
    PROVE  /\ SubSeq(q, 1, n) \in Seq(S) /\ Len(SubSeq(q, 1, n)) = n
           /\ \A i \in 1 .. n : SubSeq(q, 1, n)[i] = q[i]
           /\ SubSeq(q, n + 1, Len(q)) \in Seq(S) /\ Len(SubSeq(q, n + 1, Len(q))) = Len(q) - n
           /\ \A i \in 1 .. Len(q) - n : SubSeq(q, n + 1, Len(q))[i] = q[n + i]
           /\ SubSeq(q, 1, n) \o SubSeq(q, n + 1, Len(q)) = q
<1> DEFINE h == SubSeq(q, 1, n)
           t == SubSeq(q, n + 1, Len(q))
<1>0. Len(q) \in Nat /\ n \in Nat /\ n <= Len(q) /\ \A i \in 1 .. Len(q) : q[i] \in S
  OBVIOUS
<1>1. h = [i \in 1 .. n |-> q[i]] /\ h \in Seq(S) /\ Len(h) = n /\ \A i \in 1 .. n : h[i] = q[i]
  <2>1. h = [i \in 1 .. n |-> q[i]]
    BY <1>0
  <2>2. [i \in 1 .. n |-> q[i]] \in [1 .. n -> S]
    BY <1>0
  <2> QED  BY <1>0, <2>1, <2>2
<1>2. /\ t = [i \in 1 .. Len(q) - n |-> q[n + i]] /\ t \in Seq(S) /\ Len(t) = Len(q) - n
      /\ \A i \in 1 .. Len(q) - n : t[i] = q[n + i]
  <2>1. t = [i \in 1 .. Len(q) - n |-> q[n + i]]
    BY <1>0
  <2>2. [i \in 1 .. Len(q) - n |-> q[n + i]] \in [1 .. Len(q) - n -> S]
    BY <1>0
  <2>3. Len(q) - n \in Nat
    BY <1>0
  <2> QED  BY <1>0, <2>1, <2>2, <2>3
<1>3. h \o t = q
  <2> HIDE DEF h, t
  <2>1. Len(q) = n + (Len(q) - n) /\ Len(q) - n \in Nat
    BY <1>0
  <2>2. /\ h \o t \in Seq(S) /\ Len(h \o t) = Len(h) + Len(t)
        /\ \A i \in 1 .. Len(h) + Len(t) : (h \o t)[i] = IF i <= Len(h) THEN h[i] ELSE t[i - Len(h)]
    <3>1. h \in Seq(S) /\ t \in Seq(S)
      BY <1>1, <1>2
    <3> QED  BY <3>1, ConcatProperties, Zenon
  <2>3. \A i \in 1 .. Len(q) : (h \o t)[i] = q[i]
    <3> SUFFICES ASSUME NEW i \in 1 .. Len(q) PROVE (h \o t)[i] = q[i]
      OBVIOUS
    <3>1. CASE i <= n
      BY <3>1, <1>0, <1>1, <1>2, <2>1, <2>2
    <3>2. CASE i > n
      <4>1. i - n \in 1 .. Len(q) - n /\ n + (i - n) = i
        BY <3>2, <1>0
      <4>2. t[i - n] = q[i]
        BY <4>1, <1>2
      <4> QED  BY <3>2, <4>2, <1>0, <1>1, <1>2, <2>1, <2>2
    <3>3. i <= n \/ i > n
      BY <1>0
    <3> QED  BY <3>1, <3>2, <3>3
  <2>4. Len(h \o t) = Len(q)
    BY <1>1, <1>2, <2>1, <2>2
  <2> QED  BY <2>2, <2>3, <2>4, SeqEqual
<1> QED  BY <1>1, <1>2, <1>3

\* The loop of bio_write: what fits in the buffer is appended, in one or in two
\* iterations.
LEMMA PutBytesFacts ==
    ASSUME NEW b, Ring(b), NEW data \in Seq(Octets), b.len < b.size,
           Len(data) > 0, b.len + Len(data) <= b.size
    PROVE  /\ Ring(PutBytes(b, data))
           /\ PutBytes(b, data).size = b.size /\ PutBytes(b, data).offset = b.offset
           /\ PutBytes(b, data).closed = b.closed /\ PutBytes(b, data).request = b.request
           /\ PutBytes(b, data).len = b.len + Len(data)
           /\ Content(PutBytes(b, data)) = Content(b) \o data
<1> DEFINE n == InChunk(b, Len(data))
           head == SubSeq(data, 1, n)
           rest == SubSeq(data, n + 1, Len(data))
           b1 == CopyIn(b, head)
<1>0. /\ b.size \in Nat /\ b.len \in 0 .. b.size - 1 /\ Len(data) \in 1 .. b.size - b.len
      /\ b.offset \in 0 .. b.size - 1
  BY RingFields
<1>1. /\ n \in 1 .. Len(data) /\ WriteOffset(b) + n <= b.size
      /\ n # Len(data) => WriteOffset(b) + n = b.size
  BY <1>0, InChunkFacts, Zenon
<1>2. /\ head \in Seq(Octets) /\ Len(head) = n
      /\ rest \in Seq(Octets) /\ Len(rest) = Len(data) - n
      /\ head \o rest = data
  <2> HIDE DEF n
  <2>1. n \in 0 .. Len(data)
    BY <1>0, <1>1
  <2> QED  BY <2>1, Cut, Zenon
<1> HIDE DEF n, head, rest
<1>3. /\ Ring(b1) /\ b1.size = b.size /\ b1.offset = b.offset /\ b1.closed = b.closed
      /\ b1.request = b.request /\ b1.len = b.len + n /\ Content(b1) = Content(b) \o head
  <2>1. /\ head \in Seq(Octets) /\ b.len < b.size /\ b.len + Len(head) <= b.size
        /\ WriteOffset(b) + Len(head) <= b.size
    BY <1>0, <1>1, <1>2
  <2> QED  BY <1>2, <2>1, CopyInFacts, Zenon
<1> HIDE DEF b1
<1>4. CASE n = Len(data)
  <2>1. PutBytes(b, data) = b1
    BY <1>4 DEF PutBytes, n, head, b1
  <2>2. head = data
    BY <1>4, SubSeqFull DEF head
  <2> QED  BY <1>3, <1>4, <2>1, <2>2
<1>5. CASE n # Len(data)
  <2> DEFINE m == InChunk(b1, Len(rest))
  <2>1. PutBytes(b, data) = CopyIn(b1, SubSeq(rest, 1, m))
    BY <1>5 DEF PutBytes, n, head, b1, rest
  <2>2. WriteOffset(b1) = 0 /\ m = Len(rest)
    <3>1. /\ b1.size = b.size /\ b1.offset = b.offset /\ b1.len = b.len + n
          /\ n \in 1 .. b.size - b.len /\ WriteOffset(b) + n = b.size
          /\ Len(rest) \in Nat /\ Len(rest) <= b.size
      BY <1>0, <1>1, <1>2, <1>3, <1>5
    <3> QED  BY <1>0, <3>1, WrapOffset, Zenon
  <2>3. SubSeq(rest, 1, m) = rest
    BY <1>2, <2>2, SubSeqFull
  <2>4. /\ b1.len < b1.size /\ b1.len + Len(rest) <= b1.size
        /\ WriteOffset(b1) + Len(rest) <= b1.size
        /\ b1.len + Len(rest) = b.len + Len(data)
    BY <1>0, <1>1, <1>2, <1>3, <1>5, <2>2
  <2>5. /\ Ring(CopyIn(b1, rest))
        /\ CopyIn(b1, rest).size = b1.size /\ CopyIn(b1, rest).offset = b1.offset
        /\ CopyIn(b1, rest).closed = b1.closed /\ CopyIn(b1, rest).request = b1.request
        /\ CopyIn(b1, rest).len = b1.len + Len(rest)
        /\ Content(CopyIn(b1, rest)) = Content(b1) \o rest
    BY <1>2, <1>3, <2>4, CopyInFacts, Zenon
  <2>6. Content(b1) \o rest = Content(b) \o data
    <3>1. Content(b) \in Seq(Octets) /\ head \in Seq(Octets) /\ rest \in Seq(Octets)
      BY <1>2, ContentType
    <3>2. (Content(b) \o head) \o rest = Content(b) \o (head \o rest)
      BY <3>1, ConcatAssociative
    <3> QED  BY <1>2, <1>3, <3>2
  <2> QED  BY <1>3, <2>1, <2>3, <2>4, <2>5, <2>6
<1> QED  BY <1>4, <1>5

-----------------------------------------------------------------------------
(* Reading *)

\* The places before the end of the buffer come in their order.
LEMMA PlacesInOrder ==
    ASSUME NEW n \in Nat, NEW o \in 0 .. n - 1, NEW k \in 0 .. n - o
    PROVE  /\ \A i \in 1 .. k : Place(o, n, i) = o + i - 1
           /\ \A i \in 1 .. n - k :
                  Place(IF o + k = n THEN 0 ELSE o + k, n, i) = Place(o, n, k + i)
BY DEF Place

\* What one iteration of bio_read copies: up to the end of the ring, and all of
\* it unless it stops there.
LEMMA OutChunkFacts ==
    ASSUME NEW b, Ring(b), NEW n \in 0 .. b.len
    PROVE  /\ OutChunk(b, n) \in 0 .. n /\ b.offset + OutChunk(b, n) <= b.size
           /\ OutChunk(b, n) # n => b.offset + OutChunk(b, n) = b.size /\ OutChunk(b, n) > 0
BY RingFields DEF OutChunk

\* What one iteration of bio_read copies, and what it leaves.
LEMMA CopyOutFacts ==
    ASSUME NEW b, Ring(b), NEW n \in 0 .. b.len, b.offset + n <= b.size
    PROVE  /\ CopyOut(b, n) = SubSeq(Content(b), 1, n)
           /\ Ring(Advance(b, n))
           /\ Advance(b, n).size = b.size /\ Advance(b, n).closed = b.closed
           /\ Advance(b, n).request = b.request /\ Advance(b, n).len = b.len - n
           /\ Advance(b, n).buf = b.buf
           /\ Advance(b, n).offset = IF b.len = n THEN 0
                         ELSE IF b.offset + n = b.size THEN 0 ELSE b.offset + n
           /\ Content(Advance(b, n)) = SubSeq(Content(b), n + 1, b.len)
<1> DEFINE o == IF b.len = n THEN 0
                ELSE IF b.offset + n = b.size THEN 0 ELSE b.offset + n
           l == b.len - n
           c == Advance(b, n)
<1>0. /\ b \in Struct /\ b.size \in Nat /\ b.size > 0 /\ b.len \in 0 .. b.size
      /\ b.offset \in 0 .. b.size - 1 /\ n \in 0 .. b.size - b.offset
      /\ b.buf \in Buffers(b.size)
  BY RingFields
<1>1. l \in Nat /\ o \in Nat /\ o < b.size
  BY <1>0
<1>2. c = Drain(b, l, o)
  BY DEF Advance, Drain
<1>3. /\ c \in Struct /\ c.buf = b.buf /\ c.len = l /\ c.size = b.size /\ c.offset = o
      /\ c.closed = b.closed /\ c.request = b.request
  <2> HIDE DEF l, o, c
  <2>1. b \in Struct /\ l \in Nat /\ o \in Nat
    BY <1>0, <1>1
  <2> QED  BY <2>1, <1>2, DrainFields, Zenon
<1>4. Ring(c)
  <2> HIDE DEF c, o
  <2> QED  BY <1>0, <1>1, <1>3 DEF Ring
<1>5. /\ \A i \in 1 .. n : Place(b.offset, b.size, i) = b.offset + i - 1
      /\ \A i \in 1 .. b.size - n :
            Place(IF b.offset + n = b.size THEN 0 ELSE b.offset + n, b.size, i)
                = Place(b.offset, b.size, n + i)
  BY <1>0, PlacesInOrder, Zenon
<1>6. /\ Content(b) \in Seq(Octets) /\ Len(Content(b)) = b.len
      /\ \A i \in 1 .. b.len : Content(b)[i] = b.buf[Place(b.offset, b.size, i)]
  <2>1. Content(b) \in Seq(Octets) /\ Len(Content(b)) = b.len
    BY ContentType
  <2>2. Content(b) = Queue(b.buf, b.offset, b.size, b.len)
    BY ContentIsQueue
  <2> QED  BY <2>1, <2>2 DEF Queue
<1>7. /\ Content(c) \in Seq(Octets) /\ Len(Content(c)) = l
      /\ \A i \in 1 .. l : Content(c)[i] = b.buf[Place(o, b.size, i)]
  <2> HIDE DEF l, o, c
  <2>1. Content(c) \in Seq(Octets) /\ Len(Content(c)) = l
    BY <1>3, <1>4, ContentType
  <2>2. Content(c) = Queue(b.buf, o, b.size, l)
    BY <1>3, ContentIsQueue
  <2> QED  BY <2>1, <2>2 DEF Queue
<1> HIDE DEF c
<1>8. CopyOut(b, n) = SubSeq(Content(b), 1, n)
  <2>1. \A i \in 1 .. n : Content(b)[i] = b.buf[b.offset + i - 1]
    <3> SUFFICES ASSUME NEW i \in 1 .. n
                 PROVE  Content(b)[i] = b.buf[b.offset + i - 1]
      OBVIOUS
    <3>1. i \in 1 .. b.len
      BY <1>0
    <3>2. Place(b.offset, b.size, i) = b.offset + i - 1
      BY <1>5
    <3> QED  BY <3>1, <3>2, <1>6
  <2>2. SubSeq(Content(b), 1, n) = [i \in 1 .. n |-> Content(b)[i]]
    BY <1>0, <1>6
  <2> QED  BY <2>1, <2>2 DEF CopyOut
<1>9. Content(c) = SubSeq(Content(b), n + 1, b.len)
  <2> DEFINE t == SubSeq(Content(b), n + 1, b.len)
  <2>1. /\ t \in Seq(Octets) /\ Len(t) = l
        /\ \A i \in 1 .. l : t[i] = Content(b)[n + i]
    BY <1>0, <1>6, SubSeqProperties
  <2>2. \A i \in 1 .. l : t[i] = Content(c)[i]
    <3> SUFFICES ASSUME NEW i \in 1 .. l PROVE t[i] = Content(c)[i]
      OBVIOUS
    <3>1. o = IF b.offset + n = b.size THEN 0 ELSE b.offset + n
      BY <1>0
    <3>2. i \in 1 .. b.size - n /\ n + i \in 1 .. b.len
      BY <1>0
    <3>3. Place(o, b.size, i) = Place(b.offset, b.size, n + i)
      BY <1>5, <3>1, <3>2
    <3>4. t[i] = Content(b)[n + i] /\ Content(b)[n + i] = b.buf[Place(b.offset, b.size, n + i)]
      BY <1>6, <2>1, <3>2
    <3>5. Content(c)[i] = b.buf[Place(o, b.size, i)]
      BY <1>7
    <3> QED  BY <3>3, <3>4, <3>5
  <2> HIDE DEF t, l
  <2>3. t = Content(c)
    BY <1>7, <2>1, <2>2, SeqEqual
  <2> QED  BY <2>3 DEF t
<1> QED  BY <1>3, <1>4, <1>8, <1>9 DEF c

\* The end of a sequence that is cut at n and again at m.
LEMMA CutAgain ==
    ASSUME NEW S, NEW q \in Seq(S), NEW n \in 0 .. Len(q), NEW m \in 0 .. Len(q) - n
    PROVE  LET t == SubSeq(q, n + 1, Len(q))
           IN  /\ SubSeq(q, 1, n) \o SubSeq(t, 1, m) = SubSeq(q, 1, n + m)
               /\ SubSeq(t, m + 1, Len(t)) = SubSeq(q, n + m + 1, Len(q))
<1> DEFINE t == SubSeq(q, n + 1, Len(q))
           h == SubSeq(q, 1, n)
<1>0. Len(q) \in Nat /\ n \in Nat /\ m \in Nat /\ n + m <= Len(q) /\ n + m \in 0 .. Len(q)
  OBVIOUS
<1>1. /\ h \in Seq(S) /\ Len(h) = n
      /\ \A i \in 1 .. n : h[i] = q[i]
      /\ t \in Seq(S) /\ Len(t) = Len(q) - n
      /\ \A i \in 1 .. Len(q) - n : t[i] = q[n + i]
  BY Cut, Zenon
<1>2. /\ SubSeq(q, 1, n + m) \in Seq(S) /\ Len(SubSeq(q, 1, n + m)) = n + m
      /\ \A i \in 1 .. n + m : SubSeq(q, 1, n + m)[i] = q[i]
      /\ SubSeq(q, n + m + 1, Len(q)) \in Seq(S)
      /\ Len(SubSeq(q, n + m + 1, Len(q))) = Len(q) - (n + m)
      /\ \A i \in 1 .. Len(q) - (n + m) : SubSeq(q, n + m + 1, Len(q))[i] = q[n + m + i]
  BY <1>0, Cut, Zenon
<1> HIDE DEF t, h
<1>3. m \in 0 .. Len(t)
  BY <1>0, <1>1
<1>4. /\ SubSeq(t, 1, m) \in Seq(S) /\ Len(SubSeq(t, 1, m)) = m
      /\ \A i \in 1 .. m : SubSeq(t, 1, m)[i] = t[i]
      /\ SubSeq(t, m + 1, Len(t)) \in Seq(S) /\ Len(SubSeq(t, m + 1, Len(t))) = Len(t) - m
      /\ \A i \in 1 .. Len(t) - m : SubSeq(t, m + 1, Len(t))[i] = t[m + i]
  <2>1. t \in Seq(S)
    BY <1>1
  <2> QED  BY <2>1, <1>3, Cut, Zenon
<1>5. h \o SubSeq(t, 1, m) = SubSeq(q, 1, n + m)
  <2> DEFINE u == SubSeq(t, 1, m)
             v == SubSeq(q, 1, n + m)
  <2>1. /\ u \in Seq(S) /\ Len(u) = m /\ \A i \in 1 .. m : u[i] = q[n + i]
    <3>1. u \in Seq(S) /\ Len(u) = m /\ \A i \in 1 .. m : u[i] = t[i]
      BY <1>4
    <3>2. \A i \in 1 .. m : t[i] = q[n + i]
      BY <1>0, <1>1
    <3> HIDE DEF u
    <3> QED  BY <3>1, <3>2
  <2>2. v \in Seq(S) /\ Len(v) = n + m /\ \A i \in 1 .. n + m : v[i] = q[i]
    BY <1>2
  <2> HIDE DEF u, v
  <2>3. h \in Seq(S) /\ u \in Seq(S)
    BY <1>1, <2>1
  <2>4. /\ h \o u \in Seq(S) /\ Len(h \o u) = Len(h) + Len(u)
        /\ \A i \in 1 .. Len(h) + Len(u) : (h \o u)[i] = IF i <= Len(h) THEN h[i] ELSE u[i - Len(h)]
    BY <2>3, ConcatProperties, Zenon
  <2>5. \A i \in 1 .. Len(v) : (h \o u)[i] = v[i]
    <3> SUFFICES ASSUME NEW i \in 1 .. n + m PROVE (h \o u)[i] = v[i]
      BY <2>2
    <3>1. CASE i <= n
      BY <3>1, <1>0, <1>1, <2>1, <2>2, <2>4
    <3>2. CASE i > n
      <4>1. i - n \in 1 .. m /\ n + (i - n) = i
        BY <3>2, <1>0
      <4>2. u[i - n] = q[i]
        BY <4>1, <2>1
      <4> QED  BY <3>2, <4>2, <1>0, <1>1, <2>1, <2>2, <2>4
    <3>3. i <= n \/ i > n
      BY <1>0
    <3> QED  BY <3>1, <3>2, <3>3
  <2>6. Len(h \o u) = Len(v)
    BY <1>1, <2>1, <2>2, <2>4
  <2>7. h \o u = v
    BY <2>2, <2>4, <2>5, <2>6, SeqEqual
  <2> QED  BY <2>7 DEF u, v
<1>6. SubSeq(t, m + 1, Len(t)) = SubSeq(q, n + m + 1, Len(q))
  <2> DEFINE u == SubSeq(t, m + 1, Len(t))
             v == SubSeq(q, n + m + 1, Len(q))
             k == Len(q) - (n + m)
  <2>1. v \in Seq(S) /\ Len(v) = k /\ \A i \in 1 .. k : v[i] = q[n + m + i]
    BY <1>2
  <2>2. u \in Seq(S) /\ Len(u) = k /\ \A i \in 1 .. k : u[i] = q[n + m + i]
    <3>1. k \in Nat /\ Len(t) - m = k
      BY <1>0, <1>1
    <3>2. \A i \in 1 .. k : u[i] = t[m + i]
      BY <1>4, <3>1
    <3>3. \A i \in 1 .. k : t[m + i] = q[n + m + i]
      <4> SUFFICES ASSUME NEW i \in 1 .. k PROVE t[m + i] = q[n + m + i]
        OBVIOUS
      <4>1. m + i \in 1 .. Len(q) - n /\ n + (m + i) = n + m + i
        BY <1>0
      <4>2. t[m + i] = q[n + (m + i)]
        BY <1>1, <4>1
      <4> QED  BY <4>1, <4>2
    <3> QED  BY <1>4, <3>1, <3>2, <3>3
  <2> HIDE DEF u, v, k
  <2>3. u = v
    BY <2>1, <2>2, SeqEqual
  <2> QED  BY <2>3 DEF u, v
<1> QED  BY <1>5, <1>6 DEF t, h

\* The loop of bio_read: the bytes given are those at the front of the queue, the
\* others stay, in one or in two iterations.
LEMMA TakeBytesFacts ==
    ASSUME NEW b, Ring(b), NEW n \in 1 .. b.len
    PROVE  /\ TakeBytes(b, n) = SubSeq(Content(b), 1, n)
           /\ Content(AfterTake(b, n)) = SubSeq(Content(b), n + 1, b.len)
           /\ Ring(AfterTake(b, n)) /\ AfterTake(b, n).len = b.len - n
           /\ AfterTake(b, n).size = b.size /\ AfterTake(b, n).closed = b.closed
           /\ AfterTake(b, n).request = b.request
           /\ AfterTake(b, n).len = 0 => AfterTake(b, n).offset = 0
<1> DEFINE k == OutChunk(b, n)
           c == Advance(b, k)
           m == OutChunk(c, n - k)
           d == Advance(c, m)
<1>0. /\ b.size \in Nat /\ b.size > 0 /\ b.len \in 0 .. b.size /\ b.offset \in 0 .. b.size - 1
      /\ n \in 0 .. b.len
  BY RingFields
<1>1. /\ k \in 0 .. n /\ b.offset + k <= b.size
      /\ k # n => b.offset + k = b.size /\ k > 0
  BY <1>0, OutChunkFacts, Zenon
<1> HIDE DEF k
<1>2. k \in 0 .. b.len
  BY <1>0, <1>1
<1>3. /\ CopyOut(b, k) = SubSeq(Content(b), 1, k)
      /\ Ring(c)
      /\ c.size = b.size /\ c.closed = b.closed
      /\ c.request = b.request /\ c.len = b.len - k
      /\ c.offset = IF b.len = k THEN 0 ELSE IF b.offset + k = b.size THEN 0 ELSE b.offset + k
      /\ Content(c) = SubSeq(Content(b), k + 1, b.len)
  BY <1>1, <1>2, CopyOutFacts, Zenon
<1> HIDE DEF c
<1>4. CASE k = n
  <2>1. TakeBytes(b, n) = CopyOut(b, k) /\ AfterTake(b, n) = c
    BY <1>4 DEF TakeBytes, AfterTake, k, c
  <2>2. c.len = 0 => c.offset = 0
    BY <1>0, <1>3, <1>4
  <2> QED  BY <1>3, <1>4, <2>1, <2>2
<1>5. CASE k # n
  <2>1. c.offset = 0 /\ n - k \in 1 .. c.len /\ c.len <= c.size /\ c.size \in Nat /\ c.len \in Nat
    BY <1>0, <1>1, <1>3, <1>5
  <2>2. m = n - k
    BY <2>1 DEF OutChunk
  <2>3. m \in 0 .. c.len /\ c.offset + m <= c.size
    BY <2>1, <2>2
  <2> HIDE DEF m
  <2>4. /\ CopyOut(c, m) = SubSeq(Content(c), 1, m)
        /\ Ring(d)
        /\ d.size = c.size /\ d.closed = c.closed
        /\ d.request = c.request /\ d.len = c.len - m
        /\ d.offset = IF c.len = m THEN 0 ELSE IF c.offset + m = c.size THEN 0 ELSE c.offset + m
        /\ Content(d) = SubSeq(Content(c), m + 1, c.len)
    BY <1>3, <2>3, CopyOutFacts, Zenon
  <2> HIDE DEF d
  <2>5. TakeBytes(b, n) = CopyOut(b, k) \o CopyOut(c, m) /\ AfterTake(b, n) = d
    BY <1>5 DEF TakeBytes, AfterTake, k, c, m, d
  <2>6. Content(b) \in Seq(Octets) /\ Len(Content(b)) = b.len
    BY ContentType
  <2>7. Content(c) \in Seq(Octets) /\ Len(Content(c)) = c.len
    BY <1>3, ContentType
  <2>8. k \in 0 .. Len(Content(b)) /\ m \in 0 .. Len(Content(b)) - k /\ k + m = n
    BY <1>0, <1>1, <1>2, <1>3, <2>2, <2>3, <2>6
  <2>9. /\ SubSeq(Content(b), 1, k) \o SubSeq(Content(c), 1, m) = SubSeq(Content(b), 1, k + m)
        /\ SubSeq(Content(c), m + 1, Len(Content(c))) = SubSeq(Content(b), k + m + 1, Len(Content(b)))
    <3> DEFINE q == Content(b)
    <3>1. q \in Seq(Octets) /\ k \in 0 .. Len(q) /\ m \in 0 .. Len(q) - k
      BY <2>6, <2>8
    <3>2. Content(c) = SubSeq(q, k + 1, Len(q))
      BY <1>3, <2>6
    <3> HIDE DEF q
    <3>3. LET t == SubSeq(q, k + 1, Len(q))
          IN  /\ SubSeq(q, 1, k) \o SubSeq(t, 1, m) = SubSeq(q, 1, k + m)
              /\ SubSeq(t, m + 1, Len(t)) = SubSeq(q, k + m + 1, Len(q))
      BY <3>1, CutAgain, Zenon
    <3> QED  BY <3>2, <3>3 DEF q
  <2>10. d.len = b.len - n /\ (d.len = 0 => d.offset = 0)
    BY <1>0, <1>1, <1>3, <2>1, <2>2, <2>4
  <2> QED  BY <1>3, <2>4, <2>5, <2>6, <2>7, <2>8, <2>9, <2>10
<1> QED  BY <1>4, <1>5

-----------------------------------------------------------------------------
(* One call, as far as it concerns the BIO whose buffer it uses *)

\* A paired BIO has a ring, and clearing its request leaves its content alone.
LEMMA GoodRing ==
    ASSUME NEW b, Good(b, TRUE)
    PROVE  /\ Ring(b) /\ Ring(Ask(b, 0)) /\ Ask(b, 0) \in Struct
           /\ Content(Ask(b, 0)) = Content(b)
           /\ Ask(b, 0).size = b.size /\ Ask(b, 0).closed = b.closed
           /\ Ask(b, 0).len = b.len /\ Ask(b, 0).request = 0 /\ Ask(b, 0).offset = b.offset
<1>1. b \in Struct /\ Kept(b, TRUE) /\ 0 \in Nat
  BY DEF Good
<1>2. /\ Ask(b, 0) \in Struct /\ Ask(b, 0).buf = b.buf /\ Ask(b, 0).len = b.len
      /\ Ask(b, 0).size = b.size /\ Ask(b, 0).offset = b.offset
      /\ Ask(b, 0).closed = b.closed /\ Ask(b, 0).request = 0
  BY <1>1, AskFields, Zenon
<1>3. Ring(b) /\ Ring(Ask(b, 0))
  BY <1>1, PairedRing DEF Ask
<1>4. Content(Ask(b, 0)) = Content(b)
  <2>1. Content(Ask(b, 0)) = Queue(Ask(b, 0).buf, Ask(b, 0).offset, Ask(b, 0).size, Ask(b, 0).len)
    BY ContentIsQueue
  <2> QED  BY <1>2, <2>1, ContentIsQueue
<1> QED  BY <1>2, <1>3, <1>4

\* A ring buffer with bytes to read, or none at its beginning, and no request.
LEMMA RingGood ==
    ASSUME NEW b, Ring(b), Content(b) \in Seq(Bytes), b.request = 0,
           b.len = 0 => b.offset = 0
    PROVE  Good(b, TRUE)
<1>1. /\ b \in Struct /\ b.buf \in Buffers(b.size) /\ b.size \in Sizes /\ b.size \in Nat
      /\ b.len \in 0 .. b.size /\ b.offset \in 0 .. b.size - 1
  BY RingFields
<1>2. b.buf # NoBuf
  BY <1>1, NoBufAssumption
<1> QED  BY <1>1, <1>2 DEF Good, Kept

\* Bytes that were written are octets of a buffer.
LEMMA BytesAreOctets ==
    ASSUME NEW q \in Seq(Bytes)
    PROVE  q \in Seq(Octets)
BY DEF Octets

\* What an application writes is at least one byte.
LEMMA DataFacts ==
    ASSUME NEW data \in Data
    PROVE  data \in Seq(Bytes) /\ Len(data) \in Nat /\ Len(data) > 0
<1>1. PICK n \in 1 .. MaxCall : data \in [1 .. n -> Bytes]
  BY DEF Data
<1>2. n \in Nat /\ n > 0
  BY SizesAssumption
<1> QED  BY <1>1, <1>2

\* What a write of n bytes makes of a BIO.
Written(b, c, data, n) ==
    /\ n \in 1 .. Len(data) /\ Len(Content(b)) + n <= b.size /\ ~b.closed
    /\ SubSeq(data, 1, n) \in Seq(Bytes)
    /\ Good(c, TRUE) /\ c.size = b.size /\ c.closed = b.closed
    /\ Content(c) = Content(b) \o SubSeq(data, 1, n)

\* From one of the two loops or copies to what it makes of the BIO.
LEMMA AppendedIsWritten ==
    ASSUME NEW b, Good(b, TRUE), ~b.closed, NEW data \in Data, NEW n \in 1 .. Len(data),
           b.len + n <= b.size,
           NEW c, Ring(c), c.size = b.size, c.offset = b.offset, c.closed = b.closed,
           c.request = 0, c.len = b.len + n, Content(c) = Content(b) \o SubSeq(data, 1, n)
    PROVE  Written(b, c, data, n)
<1>0. /\ data \in Seq(Bytes) /\ Len(data) \in Nat /\ n \in 0 .. Len(data) /\ n > 0
  BY DataFacts
<1>1. SubSeq(data, 1, n) \in Seq(Bytes)
  BY <1>0, Cut, Zenon
<1>2. Content(b) \in Seq(Bytes)
  BY DEF Good
<1>3. Content(c) \in Seq(Bytes)
  BY <1>1, <1>2
<1>4. Len(Content(b)) = b.len
  BY GoodRing, ContentType
<1>5. c.len # 0
  <2>0. Ring(b)
    BY GoodRing
  <2>1. b.len \in Nat
    BY <2>0, RingFields
  <2> QED  BY <1>0, <2>1
<1>6. Good(c, TRUE)
  BY <1>3, <1>5, RingGood
<1> QED  BY <1>1, <1>4, <1>6 DEF Written

\* The smaller of two numbers, as the code computes it.
LEMMA SmallerFacts ==
    ASSUME NEW m \in Nat, NEW n \in Nat
    PROVE  /\ Smaller(m, n) \in Nat /\ Smaller(m, n) <= m /\ Smaller(m, n) <= n
           /\ m > 0 /\ n > 0 => Smaller(m, n) > 0
BY DEF Smaller

\* bio_write: as many bytes as fit follow those that are there.
LEMMA WriteOne ==
    ASSUME NEW b, Good(b, TRUE), ~b.closed, b.len # b.size, NEW data \in Data
    PROVE  LET n == Smaller(Len(data), b.size - b.len)
           IN  Written(b, PutBytes(Ask(b, 0), SubSeq(data, 1, n)), data, n)
<1> DEFINE room == b.size - b.len
           n == Smaller(Len(data), room)
           a == Ask(b, 0)
           head == SubSeq(data, 1, n)
           c == PutBytes(a, head)
<1>1. /\ Ring(a) /\ Content(a) = Content(b) /\ a.size = b.size /\ a.closed = b.closed
      /\ a.len = b.len /\ a.request = 0 /\ a.offset = b.offset
  BY GoodRing
<1>2. b.size \in Nat /\ b.len \in 0 .. b.size
  BY GoodRing, RingFields
<1>3. data \in Seq(Bytes) /\ Len(data) \in Nat /\ Len(data) > 0 /\ data \in Seq(Octets)
  BY DataFacts, BytesAreOctets
<1>4. n \in 1 .. Len(data) /\ b.len + n <= b.size /\ n \in 0 .. Len(data) /\ n > 0
  <2>1. room \in Nat /\ room > 0
    BY <1>2
  <2> HIDE DEF room
  <2>2. n \in Nat /\ n <= Len(data) /\ n <= room /\ n > 0
    BY <1>3, <2>1, SmallerFacts, Zenon
  <2> HIDE DEF n
  <2> QED  BY <1>2, <1>3, <2>2 DEF room
<1> HIDE DEF n, a
<1>5. head \in Seq(Octets) /\ Len(head) = n
  BY <1>3, <1>4, Cut, Zenon
<1> HIDE DEF head
<1>6. a.len < a.size /\ Len(head) > 0 /\ a.len + Len(head) <= a.size
  BY <1>1, <1>2, <1>4, <1>5
<1>7. /\ Ring(c) /\ c.size = a.size /\ c.offset = a.offset /\ c.closed = a.closed
      /\ c.request = a.request /\ c.len = a.len + Len(head)
      /\ Content(c) = Content(a) \o head
  BY <1>1, <1>5, <1>6, PutBytesFacts, Zenon
<1> HIDE DEF c
<1>8. Written(b, c, data, n)
  <2>1. /\ c.size = b.size /\ c.offset = b.offset /\ c.closed = b.closed /\ c.request = 0
        /\ c.len = b.len + n /\ Content(c) = Content(b) \o SubSeq(data, 1, n)
    BY <1>1, <1>5, <1>7 DEF head
  <2> QED  BY <1>4, <1>7, <2>1, AppendedIsWritten
<1> QED  BY <1>8 DEF c, a, head, n

\* bio_nwrite: so do the bytes that fit before the end of the buffer.
LEMMA NWriteOne ==
    ASSUME NEW b, Good(b, TRUE), ~b.closed, b.len # b.size, NEW data \in Data
    PROVE  LET n == Smaller(Len(data), NWriteSpace(Ask(b, 0)))
           IN  Written(b, CopyIn(Ask(b, 0), SubSeq(data, 1, n)), data, n)
<1> DEFINE a == Ask(b, 0)
           room == InChunk(a, a.size - a.len)
           n == Smaller(Len(data), room)
           head == SubSeq(data, 1, n)
           c == CopyIn(a, head)
<1>1. /\ Ring(a) /\ Content(a) = Content(b) /\ a.size = b.size /\ a.closed = b.closed
      /\ a.len = b.len /\ a.request = 0 /\ a.offset = b.offset
  BY GoodRing
<1>2. b.size \in Nat /\ b.len \in 0 .. b.size
  BY GoodRing, RingFields
<1>3. data \in Seq(Bytes) /\ Len(data) \in Nat /\ Len(data) > 0 /\ data \in Seq(Octets)
  BY DataFacts, BytesAreOctets
<1> HIDE DEF a
<1>a. a.len < a.size /\ a.size - a.len \in 1 .. a.size - a.len
  BY <1>1, <1>2
<1>b. room \in 1 .. a.size - a.len /\ WriteOffset(a) + room <= a.size
  BY <1>1, <1>a, InChunkFacts, Zenon
<1>c. WriteOffset(a) \in Nat
  BY <1>1, <1>a, WriteOffsetFacts
<1> HIDE DEF room
<1>4. /\ n \in 1 .. Len(data) /\ b.len + n <= b.size /\ n \in 0 .. Len(data) /\ n > 0
      /\ n <= room
  <2>1. room \in Nat /\ room > 0
    BY <1>b
  <2>2. n \in Nat /\ n <= Len(data) /\ n <= room /\ n > 0
    BY <1>3, <2>1, SmallerFacts, Zenon
  <2> HIDE DEF n
  <2> QED  BY <1>1, <1>2, <1>3, <1>b, <2>2
<1> HIDE DEF n
<1>5. head \in Seq(Octets) /\ Len(head) = n
  BY <1>3, <1>4, Cut, Zenon
<1> HIDE DEF head
<1>6. /\ a.len < a.size /\ a.len + Len(head) <= a.size
      /\ WriteOffset(a) + Len(head) <= a.size
  BY <1>1, <1>2, <1>4, <1>5, <1>b, <1>c
<1>7. /\ Ring(c) /\ c.size = a.size /\ c.offset = a.offset /\ c.closed = a.closed
      /\ c.request = a.request /\ c.len = a.len + Len(head)
      /\ Content(c) = Content(a) \o head
  BY <1>1, <1>5, <1>6, CopyInFacts, Zenon
<1> HIDE DEF c
<1>8. Written(b, c, data, n)
  <2>1. /\ c.size = b.size /\ c.offset = b.offset /\ c.closed = b.closed /\ c.request = 0
        /\ c.len = b.len + n /\ Content(c) = Content(b) \o SubSeq(data, 1, n)
    BY <1>1, <1>5, <1>7 DEF head
  <2> QED  BY <1>4, <1>7, <2>1, AppendedIsWritten
<1> QED  BY <1>8 DEF c, a, head, n, room, NWriteSpace

\* What a read of n bytes makes of a BIO, and gives.
Taken(b, c, n, data) ==
    /\ n \in 0 .. Len(Content(b))
    /\ data = SubSeq(Content(b), 1, n) /\ data \in Seq(Bytes)
    /\ Good(c, TRUE) /\ c.size = b.size /\ c.closed = b.closed
    /\ Content(c) = SubSeq(Content(b), n + 1, Len(Content(b)))

\* A ring from which n bytes were removed is what a read of n bytes leaves.
LEMMA RemovedIsTaken ==
    ASSUME NEW b, Good(b, TRUE), NEW n \in 1 .. b.len, NEW data,
           data = SubSeq(Content(b), 1, n),
           NEW c, Ring(c), c.size = b.size, c.closed = b.closed, c.request = 0,
           c.len = 0 => c.offset = 0, Content(c) = SubSeq(Content(b), n + 1, b.len)
    PROVE  Taken(b, c, n, data)
<1> DEFINE q == Content(b)
<1>1. q \in Seq(Bytes) /\ Len(q) = b.len
  BY GoodRing, ContentType DEF Good
<1>2. n \in 0 .. Len(q)
  BY <1>1
<1> HIDE DEF q
<1>3. SubSeq(q, 1, n) \in Seq(Bytes) /\ SubSeq(q, n + 1, Len(q)) \in Seq(Bytes)
  BY <1>1, <1>2, Cut, Zenon
<1>4. Content(c) \in Seq(Bytes)
  BY <1>1, <1>3 DEF q
<1>5. Good(c, TRUE)
  BY <1>4, RingGood
<1> QED  BY <1>1, <1>2, <1>3, <1>5 DEF Taken, q

\* bio_read of what there is.
LEMMA ReadOne ==
    ASSUME NEW b, Good(b, TRUE), NEW n \in 1 .. b.len
    PROVE  Taken(b, AfterTake(Ask(b, 0), n), n, TakeBytes(Ask(b, 0), n))
<1> DEFINE a == Ask(b, 0)
           c == AfterTake(a, n)
           data == TakeBytes(a, n)
<1>1. /\ Ring(a) /\ Content(a) = Content(b) /\ a.size = b.size /\ a.closed = b.closed
      /\ a.len = b.len /\ a.request = 0
  BY GoodRing
<1> HIDE DEF a
<1>2. n \in 1 .. a.len
  BY <1>1
<1>3. /\ data = SubSeq(Content(a), 1, n)
      /\ Content(c) = SubSeq(Content(a), n + 1, a.len)
      /\ Ring(c) /\ c.len = a.len - n /\ c.size = a.size /\ c.closed = a.closed
      /\ c.request = a.request /\ (c.len = 0 => c.offset = 0)
  BY <1>1, <1>2, TakeBytesFacts, Zenon
<1> HIDE DEF c, data
<1>4. /\ data = SubSeq(Content(b), 1, n)
      /\ Content(c) = SubSeq(Content(b), n + 1, b.len)
      /\ Ring(c) /\ c.size = b.size /\ c.closed = b.closed /\ c.request = 0
      /\ c.len = 0 => c.offset = 0
  BY <1>1, <1>3
<1>5. Taken(b, c, n, data)
  BY <1>4, RemovedIsTaken
<1> QED  BY <1>5 DEF a, c, data

\* bio_nread of what lies before the end of the buffer.
LEMMA NReadOne ==
    ASSUME NEW b, Good(b, TRUE), NEW n \in 1 .. NReadAvailable(Ask(b, 0))
    PROVE  Taken(b, Advance(Ask(b, 0), n), n, CopyOut(Ask(b, 0), n))
<1> DEFINE a == Ask(b, 0)
           c == Advance(a, n)
           data == CopyOut(a, n)
           k == OutChunk(a, a.len)
<1>1. /\ Ring(a) /\ Content(a) = Content(b) /\ a.size = b.size /\ a.closed = b.closed
      /\ a.len = b.len /\ a.request = 0
  BY GoodRing
<1>k. n \in 1 .. k
  BY DEF NReadAvailable
<1> HIDE DEF a
<1>2. a.len \in 0 .. a.len /\ a.len \in Nat /\ a.size \in Nat /\ a.offset \in Nat
  BY <1>1, RingFields
<1>3. k \in 0 .. a.len /\ a.offset + k <= a.size
  BY <1>1, <1>2, OutChunkFacts, Zenon
<1> HIDE DEF k
<1>4. n \in 0 .. a.len /\ a.offset + n <= a.size /\ n \in 1 .. b.len
  BY <1>1, <1>2, <1>3, <1>k
<1>5. /\ data = SubSeq(Content(a), 1, n) /\ Ring(c)
      /\ c.size = a.size /\ c.closed = a.closed /\ c.request = a.request
      /\ c.len = a.len - n
      /\ c.offset = IF a.len = n THEN 0 ELSE IF a.offset + n = a.size THEN 0 ELSE a.offset + n
      /\ Content(c) = SubSeq(Content(a), n + 1, a.len)
  BY <1>1, <1>4, CopyOutFacts, Zenon
<1> HIDE DEF c, data
<1>6. c.len = 0 => c.offset = 0
  BY <1>2, <1>4, <1>5
<1>7. /\ data = SubSeq(Content(b), 1, n)
      /\ Content(c) = SubSeq(Content(b), n + 1, b.len)
      /\ Ring(c) /\ c.size = b.size /\ c.closed = b.closed /\ c.request = 0
  BY <1>1, <1>5
<1>8. Taken(b, c, n, data)
  BY <1>4, <1>6, <1>7, RemovedIsTaken
<1> QED  BY <1>8 DEF a, c, data

\* A BIO whose members, its request apart, are those of another.
Like(c, b) == /\ c \in Struct /\ c.buf = b.buf /\ c.size = b.size /\ c.len = b.len
              /\ c.offset = b.offset /\ c.closed = b.closed

\* A BIO that differs in its request only is as good, when the request is one
\* that its buffer has room for.
LEMMA LikeGood ==
    ASSUME NEW b, NEW p \in BOOLEAN, Good(b, p), NEW c, Like(c, b),
           p => c.request <= b.size - b.len /\ (b.len # 0 => c.request = 0)
    PROVE  Good(c, p) /\ Content(c) = Content(b)
<1>1. Content(c) = Content(b)
  <2>1. Content(c) = Queue(c.buf, c.offset, c.size, c.len)
    BY ContentIsQueue
  <2> QED  BY <2>1, ContentIsQueue DEF Like
<1> QED  BY <1>1 DEF Like, Good, Kept

\* The ranges of the fields of any BIO of the invariant.
LEMMA GoodNumbers ==
    ASSUME NEW b, NEW p \in BOOLEAN, Good(b, p)
    PROVE  /\ b.size \in Sizes /\ b.size \in Nat /\ b.size > 0 /\ b.len \in 0 .. b.size
           /\ b.offset \in 0 .. b.size - 1 /\ b.request \in Nat /\ b.closed \in BOOLEAN
           /\ b.buf = NoBuf \/ b.buf \in Buffers(b.size)
           /\ b.buf \in AnyBuffer \union {NoBuf}
BY SizeFacts DEF Good, Kept, Struct

\* A read that finds nothing, and a call that does nothing, gives no bytes.
LEMMA NothingTaken ==
    ASSUME NEW b, Good(b, TRUE), NEW c, Good(c, TRUE), Content(c) = Content(b),
           c.size = b.size, c.closed = b.closed
    PROVE  Taken(b, c, 0, <<>>)
<1> DEFINE q == Content(b)
<1>1. q \in Seq(Bytes) /\ 0 \in 0 .. Len(q)
  BY DEF Good
<1> HIDE DEF q
<1>2. SubSeq(q, 1, 0) = <<>> /\ SubSeq(q, 0 + 1, Len(q)) = q /\ <<>> \in Seq(Bytes)
  BY <1>1
<1> QED  BY <1>1, <1>2 DEF Taken, q

\* A read that finds nothing notes how much was asked for and takes nothing.
LEMMA NoteOne ==
    ASSUME NEW b, Good(b, TRUE), NEW n \in Nat, b.len = 0
    PROVE  Taken(b, NoteRequest(Ask(b, 0), n), 0, <<>>)
<1> DEFINE c == NoteRequest(Ask(b, 0), n)
           r == IF b.closed THEN 0 ELSE Smaller(n, b.size)
<1>1. b \in Struct /\ b.size \in Nat
  BY GoodNumbers DEF Good
<1>2. r \in Nat /\ r <= b.size
  BY <1>1 DEF Smaller
<1>3. c = [[b EXCEPT !.request = 0] EXCEPT !.request = r]
  <2>1. Ask(b, 0).closed = b.closed /\ Ask(b, 0).size = b.size
    BY GoodRing
  <2> QED  BY <2>1 DEF NoteRequest, Ask
<1>4. Like(c, b) /\ c.request = r
  <2> HIDE DEF r
  <2> QED  BY <1>1, <1>2, <1>3 DEF Like, Struct
<1> HIDE DEF c, r
<1>5. c.request <= b.size - b.len
  BY <1>1, <1>2, <1>4
<1>6. Good(c, TRUE) /\ Content(c) = Content(b)
  BY <1>4, <1>5, LikeGood
<1> QED  BY <1>4, <1>6, NothingTaken DEF Like, c

\* Clearing the request keeps a BIO good and its content the same.
LEMMA AskOne ==
    ASSUME NEW b, NEW p \in BOOLEAN, Good(b, p)
    PROVE  /\ Good(Ask(b, 0), p) /\ Content(Ask(b, 0)) = Content(b)
           /\ Ask(b, 0).size = b.size /\ Ask(b, 0).closed = b.closed
<1>1. Like(Ask(b, 0), b) /\ Ask(b, 0).request = 0
  BY DEF Good, Like, Ask, Struct
<1>2. b.size - b.len >= 0
  BY GoodNumbers
<1> QED  BY <1>1, <1>2, LikeGood DEF Like

-----------------------------------------------------------------------------
(* Two calls *)

\* Two calls of bio_nwrite get all of the room there is.
LEMMA TwoWrites ==
    ASSUME NEW b, Ring(b)
    PROVE  NWriteSpace(b)
             + NWriteSpace(CopyIn(b, [i \in 1 .. NWriteSpace(b) |-> Junk])) = b.size - b.len
<1> DEFINE n == InChunk(b, b.size - b.len)
           data == [i \in 1 .. n |-> Junk]
           w == CopyIn(b, data)
<1>0. /\ b \in Struct /\ b.size \in Nat /\ b.size > 0 /\ b.len \in 0 .. b.size
      /\ b.offset \in 0 .. b.size - 1
  BY RingFields
<1>1. /\ n \in Nat /\ n \in 0 .. b.size - b.len
      /\ n # b.size - b.len => WriteOffset(b) + n = b.size /\ n > 0 /\ b.len < b.size
  BY <1>0 DEF InChunk, WriteOffset
<1> HIDE DEF n
<1>2. Len(data) = n
  BY <1>1
<1>3. w.size = b.size /\ w.offset = b.offset /\ w.len = b.len + n
  BY <1>0, <1>2 DEF CopyIn, Struct
<1> HIDE DEF data, w
<1>4. CASE n = b.size - b.len
  <2>1. w.len = w.size /\ w.size \in Nat /\ w.offset \in 0 .. w.size - 1
    BY <1>0, <1>3, <1>4
  <2>2. InChunk(w, w.size - w.len) = 0
    BY <2>1 DEF InChunk, WriteOffset
  <2>3. n + InChunk(w, w.size - w.len) = b.size - b.len
    BY <1>0, <1>4, <2>2
  <2> QED  BY <2>3 DEF NWriteSpace, w, data, n
<1>5. CASE n # b.size - b.len
  <2> DEFINE r == w.size - w.len
  <2>1. /\ b.len \in 0 .. b.size - 1 /\ n \in 1 .. b.size - b.len /\ WriteOffset(b) + n = b.size
        /\ r \in Nat /\ r <= b.size /\ r = b.size - b.len - n
    BY <1>0, <1>1, <1>3, <1>5
  <2> HIDE DEF r
  <2>2. InChunk(w, r) = r
    BY <1>0, <1>3, <2>1, WrapOffset, Zenon
  <2>3. n + InChunk(w, r) = b.size - b.len
    BY <1>0, <2>1, <2>2
  <2> QED  BY <2>3 DEF NWriteSpace, w, data, n, r
<1> QED  BY <1>4, <1>5

\* Two calls of bio_nread get all there is to read.
LEMMA TwoReads ==
    ASSUME NEW b, Ring(b)
    PROVE  NReadAvailable(b) + NReadAvailable(Advance(b, NReadAvailable(b))) = b.len
<1> DEFINE m == OutChunk(b, b.len)
           c == Advance(b, m)
<1>0. /\ b.size \in Nat /\ b.size > 0 /\ b.len \in 0 .. b.size /\ b.offset \in 0 .. b.size - 1
      /\ b.len \in 0 .. b.len
  BY RingFields
<1>1. /\ m \in 0 .. b.len /\ b.offset + m <= b.size
      /\ m # b.len => b.offset + m = b.size /\ m > 0
  BY <1>0, OutChunkFacts, Zenon
<1> HIDE DEF m
<1>2. /\ c.size = b.size /\ c.len = b.len - m
      /\ c.offset = IF b.len = m THEN 0 ELSE IF b.offset + m = b.size THEN 0 ELSE b.offset + m
  BY <1>1, CopyOutFacts, Zenon
<1> HIDE DEF c
<1>3. c.offset = 0 /\ c.size \in Nat /\ c.len \in 0 .. c.size
  BY <1>0, <1>1, <1>2
<1>4. OutChunk(c, c.len) = c.len
  BY <1>3 DEF OutChunk
<1>5. m + OutChunk(c, c.len) = b.len
  BY <1>0, <1>1, <1>2, <1>4
<1> QED  BY <1>5 DEF NReadAvailable, m, c

-----------------------------------------------------------------------------
(* The other operations, as far as they concern one BIO *)

\* A BIO with an empty queue at the start of its buffer, if it has one.
LEMMA EmptyGood ==
    ASSUME NEW b \in Struct, NEW p \in BOOLEAN, b.len = 0, b.offset = 0,
           b.buf = NoBuf \/ b.buf \in Buffers(b.size),
           p => b.buf # NoBuf /\ b.request <= b.size
    PROVE  Good(b, p) /\ Content(b) = <<>>
<1>1. Content(b) = <<>>
  BY DEF Content
<1>2. b.size \in Nat /\ b.size > 0 /\ b.request \in Nat
  BY SizeFacts DEF Struct
<1>3. Kept(b, p)
  BY <1>2 DEF Kept
<1>4. <<>> \in Seq(Bytes)
  OBVIOUS
<1> QED  BY <1>1, <1>3, <1>4 DEF Good

\* A BIO that is not in a pair has nothing to read.
LEMMA EmptyContent ==
    ASSUME NEW b, Good(b, FALSE)
    PROVE  b.len = 0 /\ b.offset = 0 /\ Content(b) = <<>>
<1>1. b.len = 0 /\ b.offset = 0
  BY DEF Good, Kept
<1> QED  BY <1>1 DEF Content

\* A BIO just made is good and empty.
LEMMA FreshGood ==
    FreshBio \in Struct /\ Good(FreshBio, FALSE) /\ Content(FreshBio) = <<>>
    /\ FreshBio.size = DefaultSize /\ FreshBio.closed = FALSE
<1>1. /\ FreshBio \in Struct /\ FreshBio.len = 0 /\ FreshBio.offset = 0
      /\ FreshBio.buf = NoBuf /\ FreshBio.size = DefaultSize /\ FreshBio.closed = FALSE
  BY SizesAssumption DEF FreshBio, Struct
<1> HIDE DEF FreshBio
<1> QED  BY <1>1, EmptyGood

\* Both ends of a destroyed pair are good and empty.
LEMMA UnpairedGood ==
    ASSUME NEW b, NEW p \in BOOLEAN, Good(b, p)
    PROVE  /\ Good(Unpaired(b), FALSE) /\ Content(Unpaired(b)) = <<>>
           /\ Unpaired(b).size = b.size /\ Unpaired(b).closed = b.closed
<1>1. b \in Struct
  BY DEF Good
<1>2. /\ Unpaired(b) \in Struct /\ Unpaired(b).len = 0 /\ Unpaired(b).offset = 0
      /\ Unpaired(b).buf = b.buf /\ Unpaired(b).size = b.size
      /\ Unpaired(b).closed = b.closed
  BY <1>1 DEF Unpaired, Struct
<1>3. b.buf = NoBuf \/ b.buf \in Buffers(b.size)
  BY GoodNumbers
<1> QED  BY <1>2, <1>3, EmptyGood

\* BIO_CTRL_RESET leaves the request.
LEMMA ResetGood ==
    ASSUME NEW b, NEW p \in BOOLEAN, Good(b, p)
    PROVE  LET c == [b EXCEPT !.len = 0, !.offset = 0]
           IN  /\ Good(c, p) /\ Content(c) = <<>> /\ c.size = b.size /\ c.closed = b.closed
<1> DEFINE c == [b EXCEPT !.len = 0, !.offset = 0]
<1>1. b \in Struct
  BY DEF Good
<1>2. /\ c \in Struct /\ c.len = 0 /\ c.offset = 0 /\ c.request = b.request
      /\ c.buf = b.buf /\ c.size = b.size /\ c.closed = b.closed
  BY <1>1 DEF Struct
<1>3. /\ b.buf = NoBuf \/ b.buf \in Buffers(b.size)
      /\ p => b.buf # NoBuf /\ b.request <= b.size
  BY GoodNumbers DEF Good, Kept
<1> HIDE DEF c
<1> QED  BY <1>2, <1>3, EmptyGood DEF c

\* BIO_C_SHUTDOWN_WR leaves the bytes to be read.
LEMMA ShutdownGood ==
    ASSUME NEW b, NEW p \in BOOLEAN, Good(b, p)
    PROVE  LET c == [b EXCEPT !.closed = TRUE]
           IN  /\ Good(c, p) /\ Content(c) = Content(b) /\ c.size = b.size
               /\ c.closed = TRUE
<1> DEFINE c == [b EXCEPT !.closed = TRUE]
<1>1. b \in Struct
  BY DEF Good
<1>2. /\ c \in Struct /\ c.len = b.len /\ c.offset = b.offset /\ c.request = b.request
      /\ c.buf = b.buf /\ c.size = b.size /\ c.closed = TRUE
  BY <1>1 DEF Struct
<1> HIDE DEF c
<1>3. Content(c) = Content(b)
  <2>1. Content(c) = Queue(c.buf, c.offset, c.size, c.len)
    BY ContentIsQueue
  <2> QED  BY <1>2, <2>1, ContentIsQueue
<1>4. Good(c, p)
  BY <1>2, <1>3 DEF Good, Kept
<1> QED  BY <1>2, <1>3, <1>4 DEF c

\* Allocating the buffer keeps a BIO good and empty.
LEMMA AllocatedGood ==
    ASSUME NEW b, Good(b, FALSE)
    PROVE  /\ Good(Allocated(b), FALSE) /\ Content(Allocated(b)) = <<>>
           /\ Allocated(b).size = b.size /\ Allocated(b).closed = b.closed
           /\ Allocated(b).buf \in Buffers(b.size)
<1>1. b \in Struct /\ b.len = 0 /\ b.offset = 0 /\ b.size \in Sizes
  BY EmptyContent, GoodNumbers DEF Good
<1>2. CASE b.buf = NoBuf
  <2> DEFINE u == Unused(b)
             c == Allocated(b)
  <2>1. u \in Buffers(b.size) /\ u \in AnyBuffer
    BY <1>1 DEF Unused, Buffers, AnyBuffer
  <2>2. c = [b EXCEPT !.buf = u, !.len = 0, !.offset = 0]
    BY <1>2 DEF Allocated
  <2> HIDE DEF u, c
  <2>3. /\ c \in Struct /\ c.len = 0 /\ c.offset = 0 /\ c.buf = u /\ c.size = b.size
        /\ c.closed = b.closed
    BY <1>1, <2>1, <2>2 DEF Struct
  <2>4. Good(c, FALSE) /\ Content(c) = <<>>
    BY <2>1, <2>3, EmptyGood
  <2> QED  BY <2>1, <2>3, <2>4 DEF c
<1>3. CASE b.buf # NoBuf
  <2>1. Allocated(b) = b
    BY <1>3 DEF Allocated
  <2> QED  BY <1>3, <2>1, EmptyContent, GoodNumbers
<1> QED  BY <1>2, <1>3

\* Both ends of a new pair are good and empty.
LEMMA PairedGood ==
    ASSUME NEW b, Good(b, FALSE)
    PROVE  /\ Good(Paired(b), TRUE) /\ Content(Paired(b)) = <<>>
           /\ Paired(b).size = b.size /\ Paired(b).closed = FALSE
<1> DEFINE a == Allocated(b)
           c == Paired(b)
<1>1. Good(a, FALSE) /\ a.size = b.size /\ a.buf \in Buffers(b.size) /\ b.size \in Sizes
  BY AllocatedGood, GoodNumbers
<1>2. c = [a EXCEPT !.closed = FALSE, !.request = 0]
  BY DEF Paired
<1> HIDE DEF a, c
<1>3. a \in Struct /\ a.len = 0 /\ a.offset = 0 /\ a.buf # NoBuf /\ a.size \in Nat
  BY <1>1, EmptyContent, NoBufAssumption, GoodNumbers DEF Good
<1>4. /\ c \in Struct /\ c.len = 0 /\ c.offset = 0 /\ c.buf = a.buf /\ c.size = a.size
      /\ c.closed = FALSE /\ c.request = 0
  <2>1. a \in Struct
    BY <1>3
  <2>2. /\ c \in Struct /\ c.len = a.len /\ c.offset = a.offset /\ c.buf = a.buf
        /\ c.size = a.size /\ c.closed = FALSE /\ c.request = 0
    BY <1>2, <2>1 DEF Struct
  <2> QED  BY <1>3, <2>2
<1>5. Good(c, TRUE) /\ Content(c) = <<>>
  <2>1. /\ TRUE \in BOOLEAN /\ c.buf \in Buffers(c.size) /\ c.buf # NoBuf
        /\ c.request <= c.size
    BY <1>1, <1>3, <1>4
  <2> QED  BY <1>4, <2>1, EmptyGood, Zenon
<1> QED  BY <1>1, <1>4, <1>5 DEF c

\* BIO_C_SET_WRITE_BUF_SIZE keeps an unpaired BIO good and empty.
LEMMA ResizeGood ==
    ASSUME NEW b, Good(b, FALSE), NEW n \in Sizes
    PROVE  LET c == [b EXCEPT !.buf = NoBuf, !.size = n]
           IN  /\ Good(c, FALSE) /\ Content(c) = <<>> /\ c.size = n
               /\ c.closed = b.closed
<1> DEFINE c == [b EXCEPT !.buf = NoBuf, !.size = n]
<1>1. b \in Struct /\ b.len = 0 /\ b.offset = 0
  BY EmptyContent DEF Good
<1>2. /\ c \in Struct /\ c.len = 0 /\ c.offset = 0 /\ c.buf = NoBuf /\ c.size = n
      /\ c.closed = b.closed
  BY <1>1 DEF Struct
<1> HIDE DEF c
<1> QED  BY <1>2, EmptyGood DEF c

-----------------------------------------------------------------------------
(* Every step keeps the invariant and is one of the abstract pipe's *)

\* What the refinement mapping makes of the BIOs.
Queues == [s \in Sides |-> Content(bio[s])]
Room == [s \in Sides |-> bio[s].size]
Eof == [s \in Sides |-> bio[s].closed]

Implements == IInv' /\ [Pipe!Next]_(Pipe!vars)

\* What the invariant says of the state that is mapped to a pipe.
LEMMA MappingFacts ==
    ASSUME IInv
    PROVE  /\ paired \in BOOLEAN /\ moved \in Seq(Bytes)
           /\ \A s \in Sides : Good(bio[s], paired)
BY DEF IInv

\* A step that changes one BIO.
LEMMA OneChanged ==
    ASSUME IInv, NEW s \in Sides, NEW c, bio' = [bio EXCEPT ![s] = c], paired' = paired,
           Good(c, paired), moved' \in Seq(Bytes)
    PROVE  /\ IInv'
           /\ Queues' = [Queues EXCEPT ![s] = Content(c)]
           /\ Room' = [Room EXCEPT ![s] = c.size]
           /\ Eof' = [Eof EXCEPT ![s] = c.closed]
<1>1. /\ bio' = [t \in Sides |-> bio'[t]]
      /\ \A t \in Sides : bio'[t] = IF t = s THEN c ELSE bio[t]
  BY DEF IInv
<1>2. \A t \in Sides : Good(bio'[t], paired')
  BY <1>1 DEF IInv
<1>3. IInv'
  BY <1>1, <1>2 DEF IInv
<1>4. Queues' = [Queues EXCEPT ![s] = Content(c)]
  <2>1. Queues' = [t \in Sides |-> Content(bio'[t])]
    BY DEF Queues, Content
  <2>2. \A t \in Sides : Content(bio'[t]) = IF t = s THEN Content(c) ELSE Content(bio[t])
    BY <1>1
  <2> QED  BY <2>1, <2>2 DEF Queues
<1>5. Room' = [Room EXCEPT ![s] = c.size] /\ Eof' = [Eof EXCEPT ![s] = c.closed]
  BY <1>1 DEF Room, Eof
<1> QED  BY <1>3, <1>4, <1>5

\* A step that gives every BIO a new state.
LEMMA AllChanged ==
    ASSUME IInv, NEW p \in BOOLEAN, paired' = p, moved' = moved,
           bio' = [t \in Sides |-> bio'[t]], \A t \in Sides : Good(bio'[t], p)
    PROVE  IInv'
BY DEF IInv

\* bio_write and bio_nwrite put bytes in the pipe or do nothing to it.
LEMMA WriteImplements ==
    ASSUME IInv, NEW s \in Sides, NEW data \in Data, Write(s, data) \/ NWrite(s, data)
    PROVE  Implements
<1> DEFINE b == bio[s]
           a == Ask(b, 0)
<1>1. /\ paired /\ paired' = paired /\ paired = TRUE
  BY DEF Write, NWrite, IInv
<1>2. Good(b, TRUE)
  BY <1>1, MappingFacts
<1>3. /\ Ring(a) /\ a.closed = b.closed /\ a.len = b.len /\ a.size = b.size
  BY <1>2, GoodRing
<1>4. CASE b.closed \/ b.len = b.size
  <2>1. bio' = [bio EXCEPT ![s] = a] /\ moved' = moved
    BY <1>3, <1>4 DEF Write, NWrite, Ask
  <2>2. Good(a, paired) /\ Content(a) = Content(b)
    BY <1>1, <1>2, AskOne
  <2>3. moved' \in Seq(Bytes)
    BY <2>1, MappingFacts
  <2> HIDE DEF a, b
  <2>4. /\ IInv' /\ Queues' = [Queues EXCEPT ![s] = Content(a)]
        /\ Room' = [Room EXCEPT ![s] = a.size] /\ Eof' = [Eof EXCEPT ![s] = a.closed]
    BY <1>1, <2>1, <2>2, <2>3, OneChanged, Zenon
  <2>5. Queues' = Queues /\ Room' = Room /\ Eof' = Eof
    BY <1>3, <2>2, <2>4 DEF Queues, Room, Eof, b
  <2> QED  BY <1>1, <2>1, <2>4, <2>5 DEF Implements, Pipe!vars, Queues, Room, Eof
<1>5. CASE ~(b.closed \/ b.len = b.size)
  <2>1. PICK n, c : /\ Written(b, c, data, n) /\ bio' = [bio EXCEPT ![s] = c]
                    /\ moved' = SubSeq(data, 1, n)
    <3>1. CASE Write(s, data)
      <4> DEFINE n == Smaller(Len(data), b.size - b.len)
      <4>1. /\ bio' = [bio EXCEPT ![s] = PutBytes(a, SubSeq(data, 1, n))]
            /\ moved' = SubSeq(data, 1, n)
        BY <1>3, <1>5, <3>1 DEF Write, Ask
      <4>2. Written(b, PutBytes(a, SubSeq(data, 1, n)), data, n)
        BY <1>2, <1>5, WriteOne
      <4> HIDE DEF n, a, b
      <4> QED  BY <4>1, <4>2
    <3>2. CASE NWrite(s, data)
      <4> DEFINE n == Smaller(Len(data), NWriteSpace(a))
      <4>1. /\ bio' = [bio EXCEPT ![s] = CopyIn(a, SubSeq(data, 1, n))]
            /\ moved' = SubSeq(data, 1, n)
        BY <1>3, <1>5, <3>2 DEF NWrite, Ask
      <4>2. Written(b, CopyIn(a, SubSeq(data, 1, n)), data, n)
        BY <1>2, <1>5, NWriteOne
      <4> HIDE DEF n, a, b
      <4> QED  BY <4>1, <4>2
    <3> QED  BY <3>1, <3>2
  <2>2. /\ Good(c, paired) /\ moved' \in Seq(Bytes)
        /\ n \in 1 .. Len(data) /\ Len(Content(b)) + n <= b.size /\ ~b.closed
        /\ c.size = b.size /\ c.closed = b.closed
        /\ Content(c) = Content(b) \o SubSeq(data, 1, n)
    BY <1>1, <2>1 DEF Written
  <2> HIDE DEF a, b
  <2>3. /\ IInv' /\ Queues' = [Queues EXCEPT ![s] = Content(c)]
        /\ Room' = [Room EXCEPT ![s] = c.size] /\ Eof' = [Eof EXCEPT ![s] = c.closed]
    BY <1>1, <2>1, <2>2, OneChanged, Zenon
  <2>4. Queues[s] = Content(b) /\ Room[s] = b.size /\ Eof[s] = b.closed
    BY DEF Queues, Room, Eof, b
  <2>5. /\ Room' = Room /\ Eof' = Eof
        /\ Queues' = [Queues EXCEPT ![s] = @ \o SubSeq(data, 1, n)]
    BY <2>2, <2>3, <2>4 DEF Queues, Room, Eof
  <2>6. Pipe!Write(s, data, n)
    BY <1>1, <2>1, <2>2, <2>4, <2>5 DEF Pipe!Write, Pipe!Prefix, Queues, Room, Eof
  <2>7. Pipe!Next
    BY <2>2, <2>6 DEF Pipe!Next
  <2> QED  BY <2>3, <2>7 DEF Implements
<1> QED  BY <1>4, <1>5

\* bio_read and bio_nread take bytes from the pipe or do nothing to it.
LEMMA ReadImplements ==
    ASSUME IInv, NEW s \in Sides, NEW size \in Nat, Read(s, size) \/ NRead(s, size)
    PROVE  Implements
<1> DEFINE b == bio[s]
           a == Ask(b, 0)
<1>1. /\ paired /\ paired' = paired /\ paired = TRUE
  BY DEF Read, NRead, IInv
<1>2. Good(b, TRUE)
  BY <1>1, MappingFacts
<1>3. /\ Ring(a) /\ a.closed = b.closed /\ a.len = b.len /\ a.size = b.size
      /\ Good(a, TRUE) /\ Content(a) = Content(b)
  BY <1>2, GoodRing, AskOne
<1>4. b.len \in Nat
  <2>1. a.len \in 0 .. a.size /\ a.size \in Nat
    BY <1>3, RingFields
  <2> QED  BY <1>3, <2>1
<1>5. PICK n, c : Taken(b, c, n, moved') /\ bio' = [bio EXCEPT ![s] = c]
  <2>1. CASE Read(s, size)
    <3> DEFINE n == Smaller(size, b.len)
    <3>1. CASE size = 0
      <4>1. bio' = [bio EXCEPT ![s] = a] /\ moved' = <<>>
        BY <2>1, <3>1 DEF Read, Ask
      <4>2. Taken(b, a, 0, <<>>)
        BY <1>2, <1>3, NothingTaken
      <4> HIDE DEF a, b
      <4> QED  BY <4>1, <4>2
    <3>2. CASE size # 0 /\ b.len = 0
      <4>1. bio' = [bio EXCEPT ![s] = NoteRequest(a, size)] /\ moved' = <<>>
        BY <1>3, <2>1, <3>2 DEF Read, Ask
      <4>2. Taken(b, NoteRequest(a, size), 0, <<>>)
        BY <1>2, <3>2, NoteOne
      <4> HIDE DEF a, b
      <4> QED  BY <4>1, <4>2
    <3>3. CASE size # 0 /\ b.len # 0
      <4>1. bio' = [bio EXCEPT ![s] = AfterTake(a, n)] /\ moved' = TakeBytes(a, n)
        BY <1>3, <2>1, <3>3 DEF Read, Ask
      <4>2. n \in 1 .. b.len
        BY <1>4, <3>3 DEF Smaller
      <4>3. Taken(b, AfterTake(a, n), n, TakeBytes(a, n))
        BY <1>2, <4>2, ReadOne
      <4> HIDE DEF a, b, n
      <4> QED  BY <4>1, <4>3
    <3> QED  BY <3>1, <3>2, <3>3
  <2>2. CASE NRead(s, size)
    <3> DEFINE k == NReadAvailable(a)
               n == Smaller(size, k)
    <3>1. CASE b.len = 0
      <4>1. bio' = [bio EXCEPT ![s] = NoteRequest(a, 1)] /\ moved' = <<>>
        BY <1>3, <2>2, <3>1 DEF NRead, Ask
      <4>2. Taken(b, NoteRequest(a, 1), 0, <<>>)
        BY <1>2, <3>1, NoteOne
      <4> HIDE DEF a, b
      <4> QED  BY <4>1, <4>2
    <3>2. CASE b.len # 0 /\ n = 0
      <4>1. bio' = [bio EXCEPT ![s] = a] /\ moved' = <<>>
        BY <1>3, <2>2, <3>2 DEF NRead, Ask
      <4>2. Taken(b, a, 0, <<>>)
        BY <1>2, <1>3, NothingTaken
      <4> HIDE DEF a, b
      <4> QED  BY <4>1, <4>2
    <3>3. CASE b.len # 0 /\ n # 0
      <4>1. bio' = [bio EXCEPT ![s] = Advance(a, n)] /\ moved' = CopyOut(a, n)
        BY <1>3, <2>2, <3>3 DEF NRead, Ask
      <4>2. k \in Nat
        <5>1. a.len \in 0 .. a.len /\ a.len \in Nat
          BY <1>3, <1>4
        <5> HIDE DEF a
        <5>2. OutChunk(a, a.len) \in 0 .. a.len
          BY <1>3, <5>1, OutChunkFacts, Zenon
        <5> QED  BY <5>1, <5>2 DEF NReadAvailable
      <4>3. n \in 1 .. k
        <5> HIDE DEF k
        <5> QED  BY <3>3, <4>2 DEF Smaller
      <4>4. Taken(b, Advance(a, n), n, CopyOut(a, n))
        BY <1>2, <4>3, NReadOne
      <4> HIDE DEF a, b, n
      <4> QED  BY <4>1, <4>4
    <3> QED  BY <3>1, <3>2, <3>3
  <2> QED  BY <2>1, <2>2
<1> HIDE DEF a, b
<1>6. /\ Good(c, paired) /\ moved' \in Seq(Bytes)
      /\ n \in 0 .. Len(Content(b)) /\ moved' = SubSeq(Content(b), 1, n)
      /\ c.size = b.size /\ c.closed = b.closed
      /\ Content(c) = SubSeq(Content(b), n + 1, Len(Content(b)))
  BY <1>1, <1>5 DEF Taken
<1>7. /\ IInv' /\ Queues' = [Queues EXCEPT ![s] = Content(c)]
      /\ Room' = [Room EXCEPT ![s] = c.size] /\ Eof' = [Eof EXCEPT ![s] = c.closed]
  BY <1>1, <1>5, <1>6, OneChanged, Zenon
<1>8. Queues[s] = Content(b) /\ Room[s] = b.size /\ Eof[s] = b.closed
  BY DEF Queues, Room, Eof, b
<1>9. /\ Room' = Room /\ Eof' = Eof
      /\ Queues' = [Queues EXCEPT ![s] = SubSeq(@, n + 1, Len(@))]
  <2>1. Room' = Room /\ Eof' = Eof
    BY <1>6, <1>7, <1>8 DEF Room, Eof
  <2> QED  BY <1>6, <1>7, <1>8, <2>1
<1>10. Pipe!Read(s, n)
  BY <1>1, <1>6, <1>8, <1>9 DEF Pipe!Read, Pipe!Prefix, Pipe!Rest, Queues, Room, Eof
<1>11. Pipe!Next
  BY <1>6, <1>8, <1>10 DEF Pipe!Next, Queues
<1> QED  BY <1>7, <1>11 DEF Implements

\* Of the controls, shutdown closes the pipe, and a reset empties it.
LEMMA SetImplements ==
    ASSUME IInv, NEW s \in Sides,
           ResetReadRequest(s) \/ ShutdownWr(s) \/ Reset(s)
    PROVE  Implements
<1> DEFINE b == bio[s]
<1>1. paired' = paired /\ moved' = moved /\ moved' \in Seq(Bytes) /\ paired \in BOOLEAN
  BY MappingFacts DEF ResetReadRequest, ShutdownWr, Reset
<1>2. Good(b, paired)
  BY MappingFacts
<1>3. Queues[s] = Content(b) /\ Room[s] = b.size /\ Eof[s] = b.closed
  BY DEF Queues, Room, Eof
<1>4. CASE ResetReadRequest(s)
  <2> DEFINE c == Ask(b, 0)
  <2>1. bio' = [bio EXCEPT ![s] = c]
    BY <1>4 DEF ResetReadRequest, Ask
  <2>2. Good(c, paired) /\ Content(c) = Content(b) /\ c.size = b.size /\ c.closed = b.closed
    BY <1>1, <1>2, AskOne
  <2> HIDE DEF c, b
  <2>3. /\ IInv' /\ Queues' = [Queues EXCEPT ![s] = Content(c)]
        /\ Room' = [Room EXCEPT ![s] = c.size] /\ Eof' = [Eof EXCEPT ![s] = c.closed]
    BY <1>1, <2>1, <2>2, OneChanged, Zenon
  <2>4. Queues' = Queues /\ Room' = Room /\ Eof' = Eof
    <3>1. Queues' = Queues
      BY <1>3, <2>2, <2>3 DEF Queues
    <3> QED  BY <1>3, <2>2, <2>3, <3>1 DEF Room, Eof
  <2> QED  BY <1>1, <2>3, <2>4 DEF Implements, Pipe!vars, Queues, Room, Eof
<1>5. CASE ShutdownWr(s)
  <2> DEFINE c == [b EXCEPT !.closed = TRUE]
  <2>1. bio' = [bio EXCEPT ![s] = c]
    BY <1>5 DEF ShutdownWr
  <2>2. Good(c, paired) /\ Content(c) = Content(b) /\ c.size = b.size /\ c.closed = TRUE
    BY <1>1, <1>2, ShutdownGood
  <2> HIDE DEF c, b
  <2>3. /\ IInv' /\ Queues' = [Queues EXCEPT ![s] = Content(c)]
        /\ Room' = [Room EXCEPT ![s] = c.size] /\ Eof' = [Eof EXCEPT ![s] = c.closed]
    BY <1>1, <2>1, <2>2, OneChanged, Zenon
  <2>4. Queues' = Queues /\ Room' = Room /\ Eof' = [Eof EXCEPT ![s] = TRUE]
    BY <1>3, <2>2, <2>3 DEF Queues, Room
  <2>5. Pipe!Shutdown(s)
    BY <1>1, <2>4 DEF Pipe!Shutdown, Queues, Room, Eof
  <2> QED  BY <2>3, <2>5 DEF Implements, Pipe!Next
<1>6. CASE Reset(s)
  <2>1. CASE b.buf = NoBuf
    <3>1. bio' = bio
      BY <1>6, <2>1 DEF Reset
    <3> QED  BY <1>1, <3>1 DEF Implements, IInv, Pipe!vars
  <2>2. CASE b.buf # NoBuf
    <3> DEFINE c == [b EXCEPT !.len = 0, !.offset = 0]
    <3>1. bio' = [bio EXCEPT ![s] = c]
      BY <1>6, <2>2 DEF Reset
    <3>2. Good(c, paired) /\ Content(c) = <<>> /\ c.size = b.size /\ c.closed = b.closed
      BY <1>1, <1>2, ResetGood
    <3> HIDE DEF c, b
    <3>3. /\ IInv' /\ Queues' = [Queues EXCEPT ![s] = Content(c)]
          /\ Room' = [Room EXCEPT ![s] = c.size] /\ Eof' = [Eof EXCEPT ![s] = c.closed]
      BY <1>1, <3>1, <3>2, OneChanged, Zenon
    <3>4. Queues' = [Queues EXCEPT ![s] = <<>>] /\ Room' = Room /\ Eof' = Eof
      BY <1>3, <3>2, <3>3 DEF Room, Eof
    <3>5. Pipe!Drop(s)
      BY <1>1, <3>4 DEF Pipe!Drop, Queues, Room, Eof
    <3> QED  BY <3>3, <3>5 DEF Implements, Pipe!Next
  <2> QED  BY <2>1, <2>2
<1> QED  BY <1>4, <1>5, <1>6

\* Out of a pair every queue is empty.
LEMMA EmptyQueues ==
    ASSUME IInv, ~paired
    PROVE  paired = FALSE /\ Queues = [t \in Sides |-> <<>>]
           /\ \A t \in Sides : Good(bio[t], FALSE)
<1>1. paired = FALSE /\ \A t \in Sides : Good(bio[t], FALSE)
  BY DEF IInv
<1> QED  BY <1>1, EmptyContent DEF Queues

\* A new buffer size is one of the pipe's.
LEMMA ResizeImplements ==
    ASSUME IInv, NEW s \in Sides, NEW size \in Sizes, SetWriteBufSize(s, size)
    PROVE  Implements
<1> DEFINE b == bio[s]
           c == [b EXCEPT !.buf = NoBuf, !.size = size]
<1>1. paired' = paired /\ moved' = moved /\ moved' \in Seq(Bytes) /\ ~paired
  BY MappingFacts DEF SetWriteBufSize
<1>2. /\ paired = FALSE /\ Queues = [t \in Sides |-> <<>>]
      /\ \A t \in Sides : Good(bio[t], FALSE)
  BY <1>1, EmptyQueues
<1>3. Queues[s] = <<>> /\ Room[s] = b.size /\ Eof[s] = b.closed
  BY <1>2 DEF Room, Eof
<1>4. CASE b.size = size
  <2>1. bio' = bio
    BY <1>4 DEF SetWriteBufSize
  <2> QED  BY <1>1, <2>1 DEF Implements, IInv, Pipe!vars
<1>5. CASE b.size # size
  <2>1. bio' = [bio EXCEPT ![s] = c]
    BY <1>5 DEF SetWriteBufSize
  <2>2. Good(c, FALSE) /\ Content(c) = <<>> /\ c.size = size /\ c.closed = b.closed
    BY <1>2, ResizeGood
  <2>e. b.closed \in BOOLEAN
    BY <1>2 DEF Good, Struct
  <2> HIDE DEF c, b
  <2>3. Good(c, paired)
    BY <1>2, <2>2
  <2>4. /\ IInv' /\ Queues' = [Queues EXCEPT ![s] = Content(c)]
        /\ Room' = [Room EXCEPT ![s] = c.size] /\ Eof' = [Eof EXCEPT ![s] = c.closed]
    BY <1>1, <2>1, <2>3, OneChanged, Zenon
  <2>5. Queues' = Queues
    BY <1>2, <1>3, <2>2, <2>4
  <2>6. Pipe!Replace(s)
    <3>1. Room' = [Room EXCEPT ![s] = size] /\ Eof' = [Eof EXCEPT ![s] = b.closed]
      BY <2>2, <2>4
    <3> QED  BY <1>1, <1>2, <2>5, <2>e, <3>1 DEF Pipe!Replace, Queues, Room, Eof
  <2> QED  BY <2>4, <2>6 DEF Implements, Pipe!Next
<1> QED  BY <1>4, <1>5

\* A pair that could not be made leaves the pipes alone.
LEMMA MakeFailsImplements ==
    ASSUME IInv, NEW s \in Sides, MakePairFails(s)
    PROVE  Implements
<1> DEFINE b == bio[s]
           c == Allocated(b)
<1>1. paired' = paired /\ moved' = moved /\ moved' \in Seq(Bytes) /\ ~paired
  BY MappingFacts DEF MakePairFails
<1>2. /\ paired = FALSE /\ Queues = [t \in Sides |-> <<>>]
      /\ \A t \in Sides : Good(bio[t], FALSE)
  BY <1>1, EmptyQueues
<1>3. Queues[s] = <<>> /\ Room[s] = b.size /\ Eof[s] = b.closed
  BY <1>2 DEF Room, Eof
<1>4. bio' = [bio EXCEPT ![s] = c]
  BY DEF MakePairFails
<1>5. Good(c, FALSE) /\ Content(c) = <<>> /\ c.size = b.size /\ c.closed = b.closed
  BY <1>2, AllocatedGood
<1> HIDE DEF c, b
<1>6. Good(c, paired)
  BY <1>2, <1>5
<1>7. /\ IInv' /\ Queues' = [Queues EXCEPT ![s] = Content(c)]
      /\ Room' = [Room EXCEPT ![s] = c.size] /\ Eof' = [Eof EXCEPT ![s] = c.closed]
  BY <1>1, <1>4, <1>6, OneChanged, Zenon
<1>8. Queues' = Queues
  BY <1>2, <1>3, <1>5, <1>7
<1>9. Room' = Room /\ Eof' = Eof
  BY <1>3, <1>5, <1>7 DEF Room, Eof
<1> QED  BY <1>1, <1>7, <1>8, <1>9 DEF Implements, Pipe!vars, Queues, Room, Eof

\* Making a pair opens two empty pipes.
LEMMA MakePairImplements ==
    ASSUME IInv, MakePair
    PROVE  Implements
<1>1. paired' = TRUE /\ moved' = moved /\ ~paired
  BY DEF MakePair
<1>2. /\ paired = FALSE /\ Queues = [t \in Sides |-> <<>>]
      /\ \A t \in Sides : Good(bio[t], FALSE)
  BY <1>1, EmptyQueues
<1>3. bio' = [t \in Sides |-> bio'[t]] /\ \A t \in Sides : bio'[t] = Paired(bio[t])
  BY DEF MakePair
<1>4. \A t \in Sides : /\ Good(bio'[t], TRUE) /\ Content(bio'[t]) = <<>>
                       /\ bio'[t].size = bio[t].size /\ bio'[t].closed = FALSE
  BY <1>2, <1>3, PairedGood
<1>5. IInv'
  BY <1>1, <1>3, <1>4, AllChanged
<1>6. Queues' = [t \in Sides |-> <<>>]
  <2>1. Queues' = [t \in Sides |-> Content(bio'[t])]
    BY DEF Queues, Content
  <2> QED  BY <1>4, <2>1
<1>7. Room' = Room /\ Eof' = [t \in Sides |-> FALSE]
  BY <1>4 DEF Room, Eof
<1>8. Pipe!Connect
  BY <1>1, <1>2, <1>6, <1>7 DEF Pipe!Connect, Queues, Room, Eof
<1> QED  BY <1>5, <1>8 DEF Implements, Pipe!Next

\* Destroying a pair loses what was in the pipes.
LEMMA DestroyPairImplements ==
    ASSUME IInv, DestroyPair
    PROVE  Implements
<1>1. paired' = FALSE /\ moved' = moved /\ paired \in BOOLEAN
  BY DEF DestroyPair, IInv
<1>3. bio' = [t \in Sides |-> bio'[t]] /\ \A t \in Sides : bio'[t] = Unpaired(bio[t])
  BY DEF DestroyPair
<1>4. \A t \in Sides : /\ Good(bio'[t], FALSE) /\ Content(bio'[t]) = <<>>
                       /\ bio'[t].size = bio[t].size /\ bio'[t].closed = bio[t].closed
  <2>1. \A t \in Sides : Good(bio[t], paired)
    BY MappingFacts
  <2>2. \A t \in Sides :
            /\ Good(Unpaired(bio[t]), FALSE) /\ Content(Unpaired(bio[t])) = <<>>
            /\ Unpaired(bio[t]).size = bio[t].size /\ Unpaired(bio[t]).closed = bio[t].closed
    BY <1>1, <2>1, UnpairedGood, Zenon
  <2> QED  BY <1>3, <2>2
<1>5. IInv'
  BY <1>1, <1>3, <1>4, AllChanged
<1>6. Queues' = [t \in Sides |-> <<>>]
  <2>1. Queues' = [t \in Sides |-> Content(bio'[t])]
    BY DEF Queues, Content
  <2> QED  BY <1>4, <2>1
<1>7. Room' = Room /\ Eof' = Eof
  BY <1>4 DEF Room, Eof
<1>8. Pipe!Disconnect
  BY <1>1, <1>6, <1>7 DEF Pipe!Disconnect, Queues, Room, Eof
<1> QED  BY <1>5, <1>8 DEF Implements, Pipe!Next

\* Freeing one end destroys the pair and leaves a new BIO in its place.
LEMMA FreeImplements ==
    ASSUME IInv, NEW s \in Sides, Free(s)
    PROVE  Implements
<1>1. paired' = FALSE /\ moved' = moved /\ paired \in BOOLEAN
  BY DEF Free, IInv
<1>3. /\ bio' = [t \in Sides |-> bio'[t]] /\ bio'[s] = FreshBio
      /\ \A t \in Sides \ {s} : bio'[t] = IF paired THEN Unpaired(bio[t]) ELSE bio[t]
  BY DEF Free
<1>4. \A t \in Sides \ {s} :
          /\ Good(bio'[t], FALSE) /\ Content(bio'[t]) = <<>>
          /\ bio'[t].size = bio[t].size /\ bio'[t].closed = bio[t].closed
  <2>1. CASE paired
    <3>1. \A t \in Sides : Good(bio[t], TRUE)
      BY <1>1, <2>1, MappingFacts
    <3>2. \A t \in Sides \ {s} : bio'[t] = Unpaired(bio[t])
      BY <1>3, <2>1
    <3> QED
      <4> SUFFICES ASSUME NEW t \in Sides \ {s}
                   PROVE  /\ Good(bio'[t], FALSE) /\ Content(bio'[t]) = <<>>
                          /\ bio'[t].size = bio[t].size /\ bio'[t].closed = bio[t].closed
        OBVIOUS
      <4>1. TRUE \in BOOLEAN /\ Good(bio[t], TRUE)
        BY <3>1
      <4>2. /\ Good(Unpaired(bio[t]), FALSE) /\ Content(Unpaired(bio[t])) = <<>>
            /\ Unpaired(bio[t]).size = bio[t].size /\ Unpaired(bio[t]).closed = bio[t].closed
        BY <4>1, UnpairedGood, Zenon
      <4> QED  BY <3>2, <4>2
  <2>2. CASE ~paired
    <3>1. \A t \in Sides : Good(bio[t], FALSE)
      BY <2>2, EmptyQueues
    <3> QED  BY <1>3, <2>2, <3>1, EmptyContent
  <2> QED  BY <2>1, <2>2
<1>5. /\ Good(bio'[s], FALSE) /\ Content(bio'[s]) = <<>>
      /\ bio'[s].size = DefaultSize /\ bio'[s].closed = FALSE
  BY <1>3, FreshGood
<1>6. \A t \in Sides : Good(bio'[t], FALSE) /\ Content(bio'[t]) = <<>>
  BY <1>4, <1>5
<1>7. IInv'
  BY <1>1, <1>3, <1>6, AllChanged
<1>8. Queues' = [t \in Sides |-> <<>>]
  <2>1. Queues' = [t \in Sides |-> Content(bio'[t])]
    BY DEF Queues, Content
  <2> QED  BY <1>6, <2>1
<1>9. /\ Room' = [Room EXCEPT ![s] = DefaultSize]
      /\ Eof' = [Eof EXCEPT ![s] = FALSE]
  BY <1>4, <1>5 DEF Room, Eof
<1>10. Pipe!Replace(s)
  BY <1>1, <1>8, <1>9, SizesAssumption DEF Pipe!Replace, Queues, Room, Eof
<1> QED  BY <1>7, <1>10 DEF Implements, Pipe!Next

-----------------------------------------------------------------------------
(* The theorems *)

\* The invariant holds initially.
LEMMA InitInv == Init => IInv
<1> SUFFICES ASSUME Init PROVE IInv
  OBVIOUS
<1>1. bio = [t \in Sides |-> bio[t]] /\ \A t \in Sides : bio[t] = FreshBio
  BY DEF Init
<1>2. \A t \in Sides : Good(bio[t], FALSE)
  BY <1>1, FreshGood
<1>3. paired = FALSE /\ moved = <<>> /\ moved \in Seq(Bytes)
  BY DEF Init
<1>4. \A t \in Sides : Good(bio[t], paired)
  BY <1>2, <1>3
<1> QED  BY <1>1, <1>3, <1>4 DEF IInv

\* Every step preserves the invariant and is a step of the pipe or a stutter.
LEMMA StepImplements == IInv /\ [Next]_vars => Implements
<1> SUFFICES ASSUME IInv, [Next]_vars PROVE Implements
  OBVIOUS
<1>1. ASSUME NEW s \in Sides, NEW data \in Data, Write(s, data) \/ NWrite(s, data)
      PROVE  Implements
  BY <1>1, WriteImplements
<1>2. ASSUME NEW s \in Sides, NEW n \in 0 .. MaxCall, Read(s, n) \/ NRead(s, n)
      PROVE  Implements
  <2>1. n \in Nat
    BY SizesAssumption
  <2> QED  BY <1>2, <2>1, ReadImplements
<1>3. ASSUME NEW s \in Sides, NEW size \in Sizes, SetWriteBufSize(s, size)
      PROVE  Implements
  BY <1>3, ResizeImplements
<1>4. ASSUME NEW s \in Sides, ResetReadRequest(s) \/ ShutdownWr(s) \/ Reset(s)
      PROVE  Implements
  BY <1>4, SetImplements
<1>5. ASSUME NEW s \in Sides, Free(s)
      PROVE  Implements
  BY <1>5, FreeImplements
<1>6. ASSUME NEW s \in Sides, MakePairFails(s)
      PROVE  Implements
  BY <1>6, MakeFailsImplements
<1>7. CASE MakePair
  BY <1>7, MakePairImplements
<1>8. CASE DestroyPair
  BY <1>8, DestroyPairImplements
<1>9. CASE UNCHANGED vars
  BY <1>9 DEF vars, Implements, IInv, Pipe!vars
<1> QED  BY <1>1, <1>2, <1>3, <1>4, <1>5, <1>6, <1>7, <1>8, <1>9 DEF Next

\* The inductive invariant: every BIO is a ring buffer as its struct promises,
\* and what there is to read of it has been written.
THEOREM Invariance == Spec => []IInv
<1>1. IInv /\ [Next]_vars => IInv'
  BY StepImplements DEF Implements
<1> QED  BY InitInv, <1>1, PTL DEF Spec

\* What the comments of struct bio_bio_st say of its members holds after every
\* sequence of calls, for buffers of any size.
THEOREM StructCommentsHold == Spec => []StructComments
<1>1. IInv => StructComments
  <2> SUFFICES ASSUME IInv PROVE StructComments
    OBVIOUS
  <2>1. paired \in BOOLEAN /\ moved \in Seq(Bytes) /\ \A s \in Sides : Good(bio[s], paired)
    BY MappingFacts
  <2>2. ASSUME NEW s \in Sides
        PROVE  /\ bio[s].size \in Sizes
               /\ bio[s].buf = NoBuf \/ bio[s].buf \in Buffers(bio[s].size)
               /\ bio[s].len \in 0 .. bio[s].size /\ bio[s].offset \in 0 .. bio[s].size - 1
               /\ bio[s].closed \in BOOLEAN /\ bio[s].request \in Nat
    BY <2>1, GoodNumbers
  <2>3. \A s \in Sides : Kept(bio[s], paired)
    BY <2>1 DEF Good
  <2>4. TypeOK
    BY <2>1, <2>2 DEF TypeOK
  <2> QED  BY <2>3, <2>4 DEF StructComments, Kept
<1> QED  BY <1>1, Invariance, PTL

\* Two calls of BIO_nwrite fill what BIO_ctrl_get_write_guarantee promises, and
\* two of BIO_nread give all there is, wherever the ring buffer wraps.
THEOREM TwoCallsSuffice == Spec => []TwoCallsEnough
<1>1. IInv => TwoCallsEnough
  <2> SUFFICES ASSUME IInv, paired, NEW s \in Sides
               PROVE  LET b == bio[s]
                          n == NWriteSpace(b)
                          w == CopyIn(b, [i \in 1 .. n |-> Junk])
                          m == NReadAvailable(b)
                      IN  /\ n + NWriteSpace(w) = b.size - b.len
                          /\ m + NReadAvailable(Advance(b, m)) = b.len
    BY DEF TwoCallsEnough
  <2> DEFINE b == bio[s]
             n == NWriteSpace(b)
             w == CopyIn(b, [i \in 1 .. n |-> Junk])
             m == NReadAvailable(b)
  <2>1. Ring(b)
    <3>1. Good(b, TRUE)
      BY MappingFacts
    <3> HIDE DEF b
    <3> QED  BY <3>1, GoodRing
  <2> HIDE DEF b
  <2>2. n + NWriteSpace(w) = b.size - b.len
    BY <2>1, TwoWrites
  <2>3. m + NReadAvailable(Advance(b, m)) = b.len
    BY <2>1, TwoReads
  <2> QED  BY <2>2, <2>3 DEF b
<1> QED  BY <1>1, Invariance, PTL

\* The ring buffers are queues: no byte is lost, repeated, moved or read before
\* it was written, for buffers of any size and calls of any length.
THEOREM PipeRefinement == Spec => IsPipe
<1>1. Init => Pipe!Init
  <2> SUFFICES ASSUME Init PROVE Pipe!Init
    OBVIOUS
  <2>1. paired = FALSE /\ moved = <<>> /\ \A t \in Sides : bio[t] = FreshBio
    BY DEF Init
  <2>2. \A t \in Sides : /\ Content(bio[t]) = <<>> /\ bio[t].size \in Sizes
                         /\ bio[t].closed \in BOOLEAN
    BY <2>1, FreshGood, SizesAssumption
  <2> QED  BY <2>1, <2>2 DEF Pipe!Init
<1>2. IInv /\ [Next]_vars => [Pipe!Next]_(Pipe!vars)
  BY StepImplements DEF Implements
<1> QED  BY <1>1, <1>2, Invariance, PTL DEF Spec, IsPipe, Pipe!Spec
=============================================================================
