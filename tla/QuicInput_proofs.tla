-------------------------- MODULE QuicInput_proofs --------------------------
(***************************************************************************)
(* Proofs about QuicInput, for streams of any length and messages of any   *)
(* size: the inductive invariant, the safety properties it implies, and    *)
(* that QuicInput implements QuicMessageStream.                            *)
(***************************************************************************)
EXTENDS QuicInput, SequenceTheorems, TLAPS

-----------------------------------------------------------------------------
(* Runs of bytes                                                           *)

\* A run of bytes within a stream is a sequence of bytes of the given length.
LEMMA BytesType ==
    ASSUME NEW l \in Level, NEW o \in Nat, NEW n \in Nat, o + n <= MaxOffset
    PROVE  /\ Bytes(l, o, n) \in Seq(ByteSet)
           /\ Len(Bytes(l, o, n)) = n
           /\ \A i \in 1..n : Bytes(l, o, n)[i] = Byte(l, o + i - 1)
<1> DEFINE b == [i \in 1..n |-> Byte(l, o + i - 1)]
<1>1. \A i \in 1..n : Byte(l, o + i - 1) \in ByteSet
    BY ConstantsAssumption DEF Byte, ByteSet, Offset
<1>2. b \in [1..n -> ByteSet]
    BY <1>1
<1>3. b \in Seq(ByteSet)
    BY <1>2, SeqDef
<1>4. Len(b) = n /\ \A i \in 1..n : b[i] = Byte(l, o + i - 1)
    BY <1>3, LenProperties
<1> QED
    BY <1>3, <1>4 DEF Bytes

\* Sequences of bytes that agree in length and at every place are the same.
LEMMA SameBytes ==
    ASSUME NEW s \in Seq(ByteSet), NEW t \in Seq(ByteSet), Len(s) = Len(t),
           \A i \in 1..Len(s) : s[i] = t[i]
    PROVE  s = t
BY SeqEqual

\* Two runs that meet make one.
LEMMA BytesConcat ==
    ASSUME NEW l \in Level, NEW o \in Nat, NEW n \in Nat, NEW m \in Nat,
           o + n + m <= MaxOffset
    PROVE  Bytes(l, o, n) \o Bytes(l, o + n, m) = Bytes(l, o, n + m)
<1> DEFINE s == Bytes(l, o, n)
           t == Bytes(l, o + n, m)
           u == Bytes(l, o, n + m)
<1>1. /\ s \in Seq(ByteSet) /\ Len(s) = n
      /\ \A i \in 1..n : s[i] = Byte(l, o + i - 1)
    BY BytesType, ConstantsAssumption
<1>2. /\ t \in Seq(ByteSet) /\ Len(t) = m
      /\ \A i \in 1..m : t[i] = Byte(l, o + n + i - 1)
    BY BytesType, ConstantsAssumption
<1>3. /\ u \in Seq(ByteSet) /\ Len(u) = n + m
      /\ \A i \in 1..(n + m) : u[i] = Byte(l, o + i - 1)
    BY BytesType, ConstantsAssumption
<1> DEFINE c == s \o t
<1> HIDE DEF s, t, u
<1>4. /\ c \in Seq(ByteSet) /\ Len(c) = n + m
      /\ \A i \in 1..(n + m) : c[i] = IF i <= n THEN s[i] ELSE t[i - n]
    BY <1>1, <1>2, ConcatProperties
<1> HIDE DEF c
<1>5. ASSUME NEW i \in 1..(n + m) PROVE c[i] = u[i]
    <2>0. u[i] = Byte(l, o + i - 1)
        BY <1>3
    <2>1. CASE i <= n
        BY <2>0, <2>1, <1>1, <1>4
    <2>2. CASE i > n
        <3>1. i - n \in 1..m /\ o + n + (i - n) - 1 = o + i - 1
            BY <2>2
        <3>2. t[i - n] = Byte(l, o + n + (i - n) - 1)
            BY <3>1, <1>2
        <3>3. c[i] = t[i - n]
            BY <2>2, <1>4
        <3> QED
            BY <2>0, <3>1, <3>2, <3>3, Zenon
    <2>3. i <= n \/ i > n
        OBVIOUS
    <2> QED
        BY <2>1, <2>2, <2>3, Zenon
<1> QED
    BY <1>3, <1>4, <1>5, SameBytes DEF s, t, u, c

\* A run can be cut in two anywhere.
LEMMA BytesCut ==
    ASSUME NEW l \in Level, NEW o \in Nat, NEW n \in Nat, NEW k \in 0..n,
           o + n <= MaxOffset
    PROVE  /\ SubSeq(Bytes(l, o, n), 1, k) = Bytes(l, o, k)
           /\ SubSeq(Bytes(l, o, n), k + 1, n) = Bytes(l, o + k, n - k)
<1> DEFINE s == Bytes(l, o, n)
           t == Bytes(l, o, k)
           u == Bytes(l, o + k, n - k)
           a == SubSeq(s, 1, k)
           b == SubSeq(s, k + 1, n)
<1>1. /\ s \in Seq(ByteSet) /\ Len(s) = n
      /\ \A i \in 1..n : s[i] = Byte(l, o + i - 1) /\ s[i] \in ByteSet
    BY BytesType, ElementOfSeq, ConstantsAssumption
<1>2. /\ t \in Seq(ByteSet) /\ Len(t) = k
      /\ \A i \in 1..k : t[i] = Byte(l, o + i - 1)
    BY BytesType, ConstantsAssumption
<1>3. /\ u \in Seq(ByteSet) /\ Len(u) = n - k
      /\ \A i \in 1..(n - k) : u[i] = Byte(l, o + k + i - 1)
    <2>1. o + k \in Nat /\ n - k \in Nat /\ (o + k) + (n - k) <= MaxOffset
        BY ConstantsAssumption
    <2> QED
        BY <2>1, BytesType
<1> HIDE DEF s, t, u
<1>4. /\ a \in Seq(ByteSet) /\ Len(a) = k
      /\ \A i \in 1..k : a[i] = s[i]
    <2>1. \A i \in 1..k : s[i] \in ByteSet
        BY <1>1
    <2>2. /\ a \in Seq(ByteSet) /\ Len(a) = IF 1 <= k THEN k - 1 + 1 ELSE 0
          /\ \A i \in 1..(k - 1 + 1) : a[i] = s[1 + i - 1]
        BY <2>1, SubSeqProperties
    <2> QED
        BY <2>2
<1>5. /\ b \in Seq(ByteSet) /\ Len(b) = n - k
      /\ \A i \in 1..(n - k) : b[i] = s[k + i]
    <2>1. \A i \in (k + 1)..n : s[i] \in ByteSet
        BY <1>1
    <2>2. /\ b \in Seq(ByteSet) /\ Len(b) = IF k + 1 <= n THEN n - (k + 1) + 1 ELSE 0
          /\ \A i \in 1..(n - (k + 1) + 1) : b[i] = s[(k + 1) + i - 1]
        BY <2>1, SubSeqProperties
    <2>3. /\ n - (k + 1) + 1 = n - k
          /\ (IF k + 1 <= n THEN n - (k + 1) + 1 ELSE 0) = n - k
          /\ \A i \in 1..(n - k) : (k + 1) + i - 1 = k + i
        OBVIOUS
    <2> HIDE DEF b
    <2> QED
        BY <2>2, <2>3
<1> HIDE DEF a, b
<1>6. a = t
    BY <1>1, <1>2, <1>4, SameBytes
<1>7. b = u
    <2>1. ASSUME NEW i \in 1..(n - k) PROVE b[i] = u[i]
        <3>1. k + i \in 1..n /\ o + (k + i) - 1 = o + k + i - 1
            OBVIOUS
        <3> QED
            BY <3>1, <1>1, <1>3, <1>5
    <2> QED
        BY <2>1, <1>3, <1>5, SameBytes
<1> QED
    BY <1>6, <1>7 DEF a, b, s, t, u

\* Taking the head of the queue and adding it to what was delivered leaves the
\* messages split off so far as they were.
LEMMA MoveHead ==
    ASSUME NEW S, NEW d \in Seq(S), NEW q \in Seq(S), q # <<>>
    PROVE  /\ q[1] \in S
           /\ Tail(q) \in Seq(S)
           /\ Append(d, q[1]) \in Seq(S)
           /\ Append(d, q[1]) \o Tail(q) = d \o q
<1>1. Len(q) \in Nat \ {0}
    BY EmptySeq
<1>2. q[1] \in S
    BY <1>1, ElementOfSeq
<1>3. /\ Tail(q) \in Seq(S) /\ Len(Tail(q)) = Len(q) - 1
      /\ \A i \in 1..Len(Tail(q)) : Tail(q)[i] = q[i + 1]
    BY HeadTailProperties
<1>4. /\ Append(d, q[1]) \in Seq(S)
      /\ Len(Append(d, q[1])) = Len(d) + 1
      /\ \A i \in 1..Len(d) : Append(d, q[1])[i] = d[i]
      /\ Append(d, q[1])[Len(d) + 1] = q[1]
    BY <1>2, AppendProperties
<1>5. Len(d) \in Nat
    BY LenProperties
<1> DEFINE x == Append(d, q[1]) \o Tail(q)
           y == d \o q
<1>6. /\ x \in Seq(S) /\ Len(x) = Len(d) + Len(q)
      /\ \A i \in 1..(Len(d) + Len(q)) :
            x[i] = IF i <= Len(d) + 1 THEN Append(d, q[1])[i] ELSE Tail(q)[i - (Len(d) + 1)]
    <2>1. /\ x \in Seq(S) /\ Len(x) = Len(Append(d, q[1])) + Len(Tail(q))
          /\ \A i \in 1..(Len(Append(d, q[1])) + Len(Tail(q))) :
                x[i] = IF i <= Len(Append(d, q[1])) THEN Append(d, q[1])[i]
                       ELSE Tail(q)[i - Len(Append(d, q[1]))]
        BY <1>3, <1>4, ConcatProperties
    <2>2. Len(Append(d, q[1])) + Len(Tail(q)) = Len(d) + Len(q)
        BY <1>1, <1>3, <1>4, <1>5
    <2> QED
        BY <2>1, <2>2, <1>4
<1>7. /\ y \in Seq(S) /\ Len(y) = Len(d) + Len(q)
      /\ \A i \in 1..(Len(d) + Len(q)) :
            y[i] = IF i <= Len(d) THEN d[i] ELSE q[i - Len(d)]
    BY ConcatProperties
<1> HIDE DEF x, y
<1>8. ASSUME NEW i \in 1..(Len(d) + Len(q)) PROVE x[i] = y[i]
    <2>1. CASE i <= Len(d)
        BY <2>1, <1>4, <1>5, <1>6, <1>7
    <2>2. CASE i = Len(d) + 1
        <3>1. x[i] = q[1]
            BY <2>2, <1>4, <1>5, <1>6
        <3>2. y[i] = q[1]
            BY <2>2, <1>5, <1>7
        <3> QED
            BY <3>1, <3>2, Zenon
    <2>3. CASE i > Len(d) + 1
        <3>1. i - (Len(d) + 1) \in 1..Len(Tail(q)) /\ (i - (Len(d) + 1)) + 1 = i - Len(d)
            BY <2>3, <1>1, <1>3, <1>5
        <3>2. x[i] = Tail(q)[i - (Len(d) + 1)]
            BY <2>3, <1>5, <1>6
        <3>3. y[i] = q[i - Len(d)]
            BY <2>3, <1>5, <1>7
        <3> QED
            BY <3>1, <3>2, <3>3, <1>3, Zenon
    <2> QED
        BY <2>1, <2>2, <2>3, <1>1, <1>5
<1>9. x = y
    BY <1>6, <1>7, <1>8, SeqEqual
<1> QED
    BY <1>2, <1>3, <1>4, <1>9 DEF x, y
-----------------------------------------------------------------------------
(* The invariant                                                           *)

\* The messages split off so far are a sequence of messages, and the one that
\* comes last decides where the next starts.
LEMMA MessagesType ==
    ASSUME TypeOK, WithinReceived
    PROVE  /\ AllMessages \in Seq(QUIC_DATA)
           /\ Len(AllMessages) \in Nat
           /\ \A i \in 1..Len(AllMessages) :
                 /\ AllMessages[i] \in QUIC_DATA
                 /\ AllMessages[i].level \in Level
                 /\ AllMessages[i].data \in Seq(ByteSet)
                 /\ Len(AllMessages[i].data) \in Nat \ {0}
                 /\ AllMessages[i].data[1] \in ByteSet
                 /\ EndOf(AllMessages[i]) \in Nat
<1>1. AllMessages \in Seq(QUIC_DATA)
    BY ConcatProperties DEF TypeOK, AllMessages
<1>2. Len(AllMessages) \in Nat
    BY <1>1, LenProperties
<1>3. ASSUME NEW i \in 1..Len(AllMessages)
      PROVE  /\ AllMessages[i] \in QUIC_DATA
             /\ AllMessages[i].level \in Level
             /\ AllMessages[i].data \in Seq(ByteSet)
             /\ Len(AllMessages[i].data) \in Nat \ {0}
             /\ AllMessages[i].data[1] \in ByteSet
             /\ EndOf(AllMessages[i]) \in Nat
    <2>1. AllMessages[i] \in QUIC_DATA
        BY <1>1, ElementOfSeq
    <2>2. /\ AllMessages[i].level \in Level
          /\ AllMessages[i].data \in Seq(ByteSet)
        BY <2>1 DEF QUIC_DATA
    <2>3. Len(AllMessages[i].data) \in Nat \ {0}
        BY <2>2, EmptySeq DEF WithinReceived
    <2>4. AllMessages[i].data[1] \in ByteSet
        BY <2>2, <2>3, ElementOfSeq
    <2>5. EndOf(AllMessages[i]) \in Nat
        BY <2>3, <2>4, ConstantsAssumption DEF EndOf, ByteSet, Offset
    <2> QED
        BY <2>1, <2>2, <2>3, <2>4, <2>5
<1> QED
    BY <1>1, <1>2, <1>3

\* The next message of a level starts within what was handed over at it.
LEMMA NextOffsetType ==
    ASSUME TypeOK, WithinReceived, NEW l \in Level
    PROVE  /\ NextOffset(l) \in Nat
           /\ NextOffset(l) <= received[l]
           /\ l > quic_latest_level_received => NextOffset(l) = 0
           /\ received[l] \in Nat /\ received[l] <= MaxOffset
<1>1. received[l] \in Nat /\ received[l] <= MaxOffset
    BY ConstantsAssumption DEF TypeOK, Offset
<1>2. quic_latest_level_received \in Level
    BY DEF TypeOK
<1>3. CASE AllMessages # <<>> /\ AllMessages[Len(AllMessages)].level = l
    <2>1. Len(AllMessages) \in 1..Len(AllMessages)
        BY <1>3, MessagesType, EmptySeq
    <2>2. NextOffset(l) = EndOf(AllMessages[Len(AllMessages)])
        BY <1>3 DEF NextOffset
    <2> QED
        BY <2>1, <2>2, <1>1, <1>2, <1>3, MessagesType DEF WithinReceived, Level
<1>4. CASE ~(AllMessages # <<>> /\ AllMessages[Len(AllMessages)].level = l)
    BY <1>1, <1>4 DEF NextOffset
<1> QED
    BY <1>3, <1>4

\* A step that neither receives nor splits keeps the invariant if it keeps the
\* type and the pending bytes.
LEMMA Frame ==
    ASSUME InductiveInvariant, TypeOK',
           AllMessages' = AllMessages, received' = received,
           quic_latest_level_received' = quic_latest_level_received,
           pc' = "split" => ~error',
           ~error' => ~error /\ Pending' = Pending
    PROVE  InductiveInvariant'
<1>1. MessagesInOrder'
    BY DEF InductiveInvariant, MessagesInOrder
<1>2. NoMessageCrossesLevels'
    BY DEF InductiveInvariant, NoMessageCrossesLevels
<1>3. WithinReceived'
    BY DEF InductiveInvariant, WithinReceived
<1>4. PendingIsTheRest'
    BY DEF InductiveInvariant, PendingIsTheRest, NextOffset
<1> QED
    BY <1>1, <1>2, <1>3, <1>4 DEF InductiveInvariant
\* A call with new bytes: they continue the fragment, or start a level at which
\* there is none.
LEMMA ProvidePreserves ==
    ASSUME InductiveInvariant, NEW level \in Level, NEW n \in 1..MaxOffset,
           SSL_provide_quic_data(level, n)
    PROVE  InductiveInvariant'
<1> DEFINE l == quic_latest_level_received
<1> USE DEF SSL_provide_quic_data
<1>1. TypeOK /\ WithinReceived /\ PendingIsTheRest
    BY DEF InductiveInvariant
<1>2. /\ l \in Level /\ level >= l
      /\ n \in Nat /\ n > 0
      /\ received[level] \in Nat /\ received[level] + n <= MaxOffset
      /\ received \in [Level -> Offset]
    BY <1>1, ConstantsAssumption DEF TypeOK, LevelAllowed, Offset
<1>3. AllMessages' = AllMessages
    BY DEF AllMessages
<1>4. received' = [received EXCEPT ![level] = @ + n]
    OBVIOUS
<1>5. /\ \A k \in Level : k # level => received'[k] = received[k]
      /\ received'[level] = received[level] + n
      /\ received' \in [Level -> Offset]
    BY <1>2, <1>4, ConstantsAssumption DEF Offset
<1>6. /\ NextOffset(l) \in Nat /\ NextOffset(l) <= received[l]
      /\ received[l] \in Nat /\ received[l] <= MaxOffset
      /\ NextOffset(level) \in Nat /\ NextOffset(level) <= received[level]
      /\ level > l => NextOffset(level) = 0
    BY <1>1, <1>2, NextOffsetType
<1>7. quic_buf = Bytes(l, NextOffset(l), received[l] - NextOffset(l))
    BY <1>1 DEF PendingIsTheRest, Pending
<1>8. level > l => /\ quic_buf = <<>> /\ received[level] = 0
                   /\ received[l] = NextOffset(l)
    <2>1. Len(quic_buf) = received[l] - NextOffset(l)
        <3>1. /\ received[l] - NextOffset(l) \in Nat
              /\ NextOffset(l) + (received[l] - NextOffset(l)) <= MaxOffset
            BY <1>6, ConstantsAssumption
        <3> QED
            BY <1>2, <1>6, <1>7, <3>1, BytesType
    <2>2. SUFFICES ASSUME level > l
                   PROVE  quic_buf = <<>> /\ received[level] = 0 /\ received[l] = NextOffset(l)
        OBVIOUS
    <2>3. quic_buf = <<>>
        BY <2>2, <1>2 DEF Level
    <2>4. Len(quic_buf) = 0
        BY <2>3
    <2>5. received[level] = 0
        BY <1>1, <2>2 DEF WithinReceived
    <2> QED
        BY <2>1, <2>3, <2>4, <2>5, <1>6
<1>9. data' = Bytes(level, NextOffset(level), received[level] + n - NextOffset(level))
    <2>1. CASE level = l
        <3> DEFINE o == NextOffset(l)
                   k == received[l] - NextOffset(l)
        <3>1. o \in Nat /\ k \in Nat /\ o + k = received[l] /\ o + k + n <= MaxOffset
            BY <1>2, <1>6, <2>1, ConstantsAssumption
        <3>2. Bytes(l, o, k) \o Bytes(l, o + k, n) = Bytes(l, o, k + n)
            BY <1>2, <3>1, BytesConcat
        <3>3. k + n = received[l] + n - o
            BY <1>2, <1>6
        <3> QED
            BY <2>1, <3>1, <3>2, <3>3, <1>7
    <2>2. CASE level > l
        <3>1. Bytes(level, 0, n) \in Seq(ByteSet)
            BY <1>2, <1>8, <2>2, BytesType, ConstantsAssumption
        <3>2. data' = Bytes(level, 0, n)
            BY <3>1, <1>8, <2>2, ConcatEmptySeq
        <3> QED
            BY <3>2, <1>2, <1>6, <1>8, <2>2
    <2> QED
        BY <2>1, <2>2, <1>2 DEF Level
<1>10. data' \in Seq(ByteSet)
    BY <1>2, <1>6, <1>9, BytesType, ConstantsAssumption
<1>11. TypeOK'
    BY <1>1, <1>5, <1>10, EmptySeq DEF TypeOK
<1>12. MessagesInOrder'
    BY <1>3 DEF InductiveInvariant, MessagesInOrder
<1>13. PendingIsTheRest'
    <2> DEFINE o == NextOffset(level)
    <2>1. Pending' = data' /\ quic_latest_level_received' = level
        BY DEF Pending
    <2>2. NextOffset(level)' = o
        BY <1>3 DEF NextOffset, EndOf
    <2>3. Pending' = Bytes(level, o, received'[level] - o)
        BY <2>1, <1>2, <1>5, <1>6, <1>9
    <2> HIDE DEF o
    <2> QED
        BY <2>1, <2>2, <2>3 DEF PendingIsTheRest
<1>14. WithinReceived'
    <2>1. ASSUME NEW k \in Level, k > level PROVE received'[k] = 0
        BY <2>1, <1>1, <1>2, <1>5 DEF WithinReceived, Level
    <2>2. ASSUME NEW i \in 1..Len(AllMessages)
          PROVE  /\ AllMessages[i].data # <<>>
                 /\ AllMessages[i].level <= level
                 /\ EndOf(AllMessages[i]) <= received'[AllMessages[i].level]
        <3>1. /\ AllMessages[i].level \in Level
              /\ EndOf(AllMessages[i]) \in Nat
            BY <1>1, MessagesType
        <3>2. /\ AllMessages[i].data # <<>>
              /\ AllMessages[i].level <= l
              /\ EndOf(AllMessages[i]) <= received[AllMessages[i].level]
            BY <1>1 DEF WithinReceived
        <3>3. received[AllMessages[i].level] \in Nat
            BY <1>1, <3>1, NextOffsetType
        <3> QED
            BY <3>1, <3>2, <3>3, <1>2, <1>5 DEF Level
    <2> QED
        BY <2>1, <2>2, <1>3 DEF WithinReceived
<1>15. NoMessageCrossesLevels'
    <2>1. ASSUME NEW k \in Level, k < level, received'[k] # 0
          PROVE  \E i \in 1..Len(AllMessages) :
                    AllMessages[i].level = k /\ EndOf(AllMessages[i]) = received'[k]
        <3>1. received'[k] = received[k]
            BY <2>1, <1>2, <1>5 DEF Level
        <3>2. CASE k < l
            BY <2>1, <3>1, <3>2 DEF InductiveInvariant, NoMessageCrossesLevels
        <3>3. CASE k = l
            <4>1. NextOffset(l) # 0 /\ NextOffset(l) = received'[k]
                BY <2>1, <3>1, <3>3, <1>8
            <4>2. /\ AllMessages # <<>> /\ AllMessages[Len(AllMessages)].level = l
                  /\ EndOf(AllMessages[Len(AllMessages)]) = NextOffset(l)
                BY <4>1 DEF NextOffset
            <4>3. Len(AllMessages) \in 1..Len(AllMessages)
                BY <4>2, <1>1, MessagesType, EmptySeq
            <4> QED
                BY <4>1, <4>2, <4>3, <3>3
        <3>4. CASE k > l
            BY <2>1, <3>1, <3>4, <1>1 DEF WithinReceived
        <3> QED
            BY <3>2, <3>3, <3>4, <1>2 DEF Level
    <2> QED
        BY <2>1, <1>3 DEF NoMessageCrossesLevels
<1> QED
    BY <1>11, <1>12, <1>13, <1>14, <1>15 DEF InductiveInvariant

\* One iteration of the loop: the message cut off is the next one of its level.
LEMMA SplitPreserves ==
    ASSUME InductiveInvariant, SplitMessage
    PROVE  InductiveInvariant'
<1> DEFINE l   == quic_latest_level_received
           o   == NextOffset(l)
           r   == received[l]
           len == SSL3_HM_HEADER_LENGTH + n2l3(data)
           m   == [level |-> l, data |-> SubSeq(data, 1, len)]
           M   == AllMessages
<1>1. TypeOK /\ WithinReceived /\ PendingIsTheRest /\ MessagesInOrder
    BY DEF InductiveInvariant
<1>2. /\ l \in Level /\ o \in Nat /\ r \in Nat /\ o <= r /\ r <= MaxOffset
    BY <1>1, NextOffsetType DEF TypeOK
<1>3. data = Bytes(l, o, r - o)
    BY <1>1 DEF SplitMessage, InductiveInvariant, PendingIsTheRest, Pending
<1>4. /\ data \in Seq(ByteSet) /\ Len(data) = r - o
      /\ \A i \in 1..(r - o) : data[i] = Byte(l, o + i - 1)
    <2>1. r - o \in Nat /\ o + (r - o) <= MaxOffset
        BY <1>2, ConstantsAssumption
    <2> HIDE DEF o, r, l
    <2> QED
        BY <1>2, <1>3, <2>1, BytesType
<1>5. data[1] = Byte(l, o) /\ n2l3(data) \in Nat /\ len \in Nat /\ len >= 4 /\ len <= r - o
    <2>1. r - o > 4 /\ len <= r - o
        BY <1>4 DEF SplitMessage, FullRecord, SSL3_HM_HEADER_LENGTH
    <2>2. data[1] = Byte(l, o)
        BY <2>1, <1>2, <1>4
    <2>3. o \in Offset
        BY <1>2, ConstantsAssumption DEF Offset
    <2>4. n2l3(data) = BodyLen[l][o]
        BY <2>2 DEF n2l3, Byte
    <2>5. n2l3(data) \in Nat
        BY <2>3, <2>4, <1>2, ConstantsAssumption
    <2> QED
        BY <2>1, <2>2, <2>5 DEF SSL3_HM_HEADER_LENGTH
<1>6. /\ SubSeq(data, 1, len) = Bytes(l, o, len)
      /\ SubSeq(data, len + 1, r - o) = Bytes(l, o + len, r - o - len)
    <2>1. r - o \in Nat /\ len \in 0..(r - o) /\ o + (r - o) <= MaxOffset
        BY <1>2, <1>5, ConstantsAssumption
    <2> HIDE DEF o, r, l, len
    <2> QED
        BY <1>2, <1>3, <2>1, BytesCut
<1> HIDE DEF o, r, l, len
<1>7. /\ m.data \in Seq(ByteSet) /\ Len(m.data) = len /\ m.data[1] = Byte(l, o)
      /\ m.level = l /\ m.data = Bytes(l, o, len)
    <2>1. o + len <= MaxOffset
        BY <1>2, <1>5, ConstantsAssumption
    <2>2. m.data = Bytes(l, o, len) /\ m.level = l
        BY <1>6
    <2>3. /\ Bytes(l, o, len) \in Seq(ByteSet) /\ Len(Bytes(l, o, len)) = len
          /\ \A i \in 1..len : Bytes(l, o, len)[i] = Byte(l, o + i - 1)
        BY <2>1, <1>2, <1>5, BytesType
    <2>4. Bytes(l, o, len)[1] = Byte(l, o)
        BY <2>3, <1>2, <1>5
    <2> QED
        BY <2>2, <2>3, <2>4, Zenon
<1> HIDE DEF m
<1>8. m \in QUIC_DATA /\ EndOf(m) = o + len /\ m.data # <<>>
    <2>1. m \in QUIC_DATA
        BY <1>2, <1>7 DEF QUIC_DATA, m
    <2>2. EndOf(m) = o + len
        BY <1>7 DEF EndOf, Byte
    <2>3. m.data # <<>>
        BY <1>5, <1>7, EmptySeq
    <2> QED
        BY <2>1, <2>2, <2>3
<1>9. /\ quic_input_data' = Append(quic_input_data, m)
      /\ data' = Bytes(l, o + len, r - o - len)
      /\ UNCHANGED <<quic_read_level, quic_latest_level_received, quic_buf, pc,
                     in_buf, error, fatal, received, delivered>>
      /\ pc = "split"
    <2>1. data' = SubSeq(data, len + 1, Len(data))
        BY DEF SplitMessage, len
    <2> QED
        BY <2>1, <1>4, <1>6 DEF SplitMessage, len, m, l
<1>10. data' \in Seq(ByteSet)
    <2>1. o + len \in Nat /\ r - o - len \in Nat /\ (o + len) + (r - o - len) <= MaxOffset
        BY <1>2, <1>5, ConstantsAssumption
    <2> QED
        BY <2>1, <1>2, <1>9, BytesType
<1>11. TypeOK'
    <2>1. quic_input_data' \in Seq(QUIC_DATA)
        BY <1>1, <1>8, <1>9, AppendProperties DEF TypeOK
    <2> QED
        BY <2>1, <1>1, <1>9, <1>10 DEF TypeOK
<1>12. /\ M \in Seq(QUIC_DATA) /\ Len(M) \in Nat
       /\ M' = Append(M, m)
    <2>1. M \in Seq(QUIC_DATA) /\ Len(M) \in Nat
        BY <1>1, MessagesType
    <2>2. delivered \in Seq(QUIC_DATA) /\ quic_input_data \in Seq(QUIC_DATA)
        BY <1>1 DEF TypeOK
    <2>3. <<m>> \in Seq(QUIC_DATA)
        BY <1>8
    <2>4. M' = delivered \o Append(quic_input_data, m)
        BY <1>9 DEF AllMessages
    <2>5. Append(quic_input_data, m) = quic_input_data \o <<m>>
        BY <2>2, <1>8, AppendIsConcat
    <2>6. (delivered \o quic_input_data) \o <<m>> = delivered \o (quic_input_data \o <<m>>)
        BY <2>2, <2>3, ConcatAssociative
    <2>7. Append(M, m) = M \o <<m>>
        BY <2>1, <1>8, AppendIsConcat
    <2>8. M = delivered \o quic_input_data
        BY DEF AllMessages
    <2> HIDE DEF M
    <2>9. M' = Append(M, m)
        BY <2>4, <2>5, <2>6, <2>7, <2>8, Zenon
    <2> QED
        BY <2>1, <2>9
<1> HIDE DEF M
<1>13. /\ Len(M') = Len(M) + 1 /\ M' # <<>>
       /\ \A i \in 1..Len(M) : M'[i] = M[i]
       /\ M'[Len(M) + 1] = m
    BY <1>8, <1>12, AppendProperties
<1>14. MessagesInOrder'
    <2>1. ASSUME NEW i \in 1..Len(M)
          PROVE  /\ WholeMessage(M'[i])
                 /\ \/ i = 1 /\ M'[i].data[1].off = 0
                    \/ i > 1 /\ M'[i - 1].level < M'[i].level /\ M'[i].data[1].off = 0
                    \/ i > 1 /\ M'[i - 1].level = M'[i].level
                             /\ M'[i].data[1].off = EndOf(M'[i - 1])
        <3>1. M'[i] = M[i] /\ (i > 1 => i - 1 \in 1..Len(M) /\ M'[i - 1] = M[i - 1])
            BY <1>12, <1>13
        <3> QED
            BY <3>1, <1>1 DEF MessagesInOrder, M
    <2>2. WholeMessage(m)
        <3>1. n2l3(m.data) = n2l3(data)
            BY <1>5, <1>7 DEF n2l3
        <3>2. m.data[1].off = o
            BY <1>7 DEF Byte
        <3> QED
            BY <3>1, <3>2, <1>7 DEF WholeMessage, len
    <2>3. m.data[1].off = o /\ m.level = l
        BY <1>7 DEF Byte
    <2>4. CASE Len(M) = 0
        <3>1. o = 0
            <4>1. M = <<>>
                BY <2>4, <1>12, EmptySeq
            <4> QED
                BY <4>1 DEF o, NextOffset, M
        <3> QED
            BY <2>2, <2>3, <2>4, <3>1, <1>12, <1>13 DEF MessagesInOrder, M
    <2>5. CASE Len(M) > 0
        <3> DEFINE z == M[Len(M)]
        <3>1. /\ Len(M) \in 1..Len(M) /\ M # <<>>
              /\ z.level \in Level /\ z.level <= l
            <4>1. Len(M) \in 1..Len(M) /\ M # <<>>
                BY <2>5, <1>12, EmptySeq
            <4> QED
                BY <4>1, <1>1, MessagesType DEF WithinReceived, M, l
        <3>2. o = IF z.level = l THEN EndOf(z) ELSE 0
            BY <3>1 DEF o, NextOffset, M
        <3>3. M'[Len(M)] = z /\ (Len(M) + 1) - 1 = Len(M)
            BY <3>1, <1>12, <1>13
        <3>4. \/ z.level < l /\ m.data[1].off = 0
              \/ z.level = l /\ m.data[1].off = EndOf(z)
            BY <3>1, <3>2, <2>3, <1>2 DEF Level
        <3> HIDE DEF z
        <3>5. ASSUME NEW i \in 1..(Len(M) + 1), ~(i \in 1..Len(M))
              PROVE  /\ WholeMessage(M'[i])
                     /\ \/ i = 1 /\ M'[i].data[1].off = 0
                        \/ i > 1 /\ M'[i - 1].level < M'[i].level /\ M'[i].data[1].off = 0
                        \/ i > 1 /\ M'[i - 1].level = M'[i].level
                                 /\ M'[i].data[1].off = EndOf(M'[i - 1])
            <4>1. i = Len(M) + 1 /\ i > 1 /\ i - 1 = Len(M)
                BY <3>5, <2>5, <1>12
            <4>2. M'[i] = m /\ M'[i - 1] = z
                BY <4>1, <3>3, <1>13
            <4> QED
                BY <4>1, <4>2, <3>4, <2>2, <2>3
        <3>6. \A i \in 1..Len(M') :
                     /\ WholeMessage(M'[i])
                     /\ \/ i = 1 /\ M'[i].data[1].off = 0
                        \/ i > 1 /\ M'[i - 1].level < M'[i].level /\ M'[i].data[1].off = 0
                        \/ i > 1 /\ M'[i - 1].level = M'[i].level
                                 /\ M'[i].data[1].off = EndOf(M'[i - 1])
            BY <2>1, <3>5, <1>13
        <3> QED
            BY <3>6 DEF MessagesInOrder, M
    <2> QED
        BY <2>4, <2>5, <1>12
<1>15. WithinReceived'
    <2>1. received'[l] = r /\ received' = received
        BY <1>9 DEF r
    <2>2. ASSUME NEW i \in 1..Len(M')
          PROVE  /\ M'[i].data # <<>>
                 /\ M'[i].level <= l
                 /\ EndOf(M'[i]) <= received[M'[i].level]
        <3>1. CASE i \in 1..Len(M)
            <4>1. M'[i] = M[i]
                BY <3>1, <1>13
            <4> QED
                BY <3>1, <4>1, <1>1 DEF WithinReceived, M, l
        <3>2. CASE i = Len(M) + 1
            <4>1. M'[i] = m /\ received[l] = r
                BY <3>2, <1>13 DEF r
            <4>2. o + len <= r /\ l <= l
                BY <1>2, <1>5 DEF Level
            <4> QED
                BY <4>1, <4>2, <1>7, <1>8
        <3> QED
            BY <3>1, <3>2, <1>12, <1>13
    <2>3. quic_latest_level_received' = l
        BY <1>9 DEF l
    <2>4. \A k \in Level : k > l => received[k] = 0
        BY <1>1 DEF WithinReceived, l
    <2> QED
        BY <2>1, <2>2, <2>3, <2>4 DEF WithinReceived, M
<1>16. NoMessageCrossesLevels'
    <2>1. ASSUME NEW k \in Level, k < l, received[k] # 0
          PROVE  \E i \in 1..Len(M') : M'[i].level = k /\ EndOf(M'[i]) = received[k]
        <3>1. PICK i \in 1..Len(M) : M[i].level = k /\ EndOf(M[i]) = received[k]
            BY <2>1 DEF InductiveInvariant, NoMessageCrossesLevels, M, l
        <3>2. i \in 1..Len(M') /\ M'[i] = M[i]
            BY <1>12, <1>13
        <3> QED
            BY <3>1, <3>2
    <2> QED
        BY <2>1, <1>9 DEF NoMessageCrossesLevels, M, l
<1>17. PendingIsTheRest'
    <2> DEFINE q == o + len
    <2>1. Pending' = data' /\ quic_latest_level_received' = l /\ received'[l] = r
        BY <1>9 DEF Pending, l, r
    <2>2. NextOffset(l)' = q
        <3>1. M'[Len(M')] = m /\ M' # <<>>
            BY <1>12, <1>13
        <3>2. l' = l
            BY <1>9 DEF l
        <3>3. NextOffset(l)' = EndOf(m)
            BY <3>1, <3>2, <1>7 DEF NextOffset, EndOf, M
        <3> QED
            BY <3>3, <1>8
    <2>3. Pending' = Bytes(l, q, r - q)
        <3>1. r - o - len = r - q
            BY <1>2, <1>5
        <3> QED
            BY <3>1, <2>1, <1>9
    <2> HIDE DEF q
    <2> QED
        BY <2>1, <2>2, <2>3 DEF PendingIsTheRest, l
<1> QED
    BY <1>9, <1>11, <1>14, <1>15, <1>16, <1>17 DEF InductiveInvariant

\* quic_get_message moves a message from the queue to what was delivered.
LEMMA GetMessagePreserves ==
    ASSUME InductiveInvariant, quic_get_message
    PROVE  InductiveInvariant'
<1>1. TypeOK
    BY DEF InductiveInvariant
<1>2. /\ delivered' \in Seq(QUIC_DATA) /\ quic_input_data' \in Seq(QUIC_DATA)
      /\ delivered' \o quic_input_data' = delivered \o quic_input_data
    BY <1>1, MoveHead DEF TypeOK, quic_get_message
<1>3. TypeOK'
    BY <1>1, <1>2 DEF TypeOK, quic_get_message
<1>4. AllMessages' = AllMessages
    BY <1>2 DEF AllMessages
<1>5. Pending' = Pending
    BY DEF Pending, quic_get_message
<1> QED
    BY <1>3, <1>4, <1>5, Frame DEF quic_get_message

\* With no message and nothing received the invariant holds: a new object, and
\* one that SSL_clear made new.
LEMMA InitInvariant == Init => InductiveInvariant
<1> SUFFICES ASSUME Init PROVE InductiveInvariant
    OBVIOUS
<1> USE DEF Init
<1>1. TypeOK
    <2>1. ssl_encryption_initial \in Level
        BY DEF Level, ssl_encryption_initial
    <2>2. 0 \in Offset
        BY ConstantsAssumption DEF Offset
    <2>3. received \in [Level -> Offset]
        BY <2>2
    <2>4. <<>> \in Seq(ByteSet) /\ <<>> \in Seq(QUIC_DATA)
        BY EmptySeq
    <2> QED
        BY <2>1, <2>3, <2>4 DEF TypeOK
<1>2. AllMessages = <<>> /\ Len(AllMessages) = 0
    BY ConcatEmptySeq, EmptySeq DEF AllMessages
<1>3. NextOffset(quic_latest_level_received) = 0
    BY <1>2 DEF NextOffset
<1>4. Bytes(0, 0, 0) = <<>>
    BY DEF Bytes
<1>5. PendingIsTheRest
    BY <1>3, <1>4 DEF PendingIsTheRest, Pending, ssl_encryption_initial, Level
<1> QED
    BY <1>1, <1>2, <1>5
    DEF InductiveInvariant, MessagesInOrder, NoMessageCrossesLevels, WithinReceived

\* SSL_clear leaves the object as a new one, but for the locals of no call.
LEMMA ClearPreserves ==
    ASSUME InductiveInvariant, SSL_clear_quic
    PROVE  InductiveInvariant'
<1> USE DEF SSL_clear_quic
<1>1. TypeOK'
    <2>1. ssl_encryption_initial \in Level
        BY DEF Level, ssl_encryption_initial
    <2>2. 0 \in Offset
        BY ConstantsAssumption DEF Offset
    <2>3. received' \in [Level -> Offset]
        BY <2>2
    <2>4. <<>> \in Seq(ByteSet) /\ <<>> \in Seq(QUIC_DATA)
        BY EmptySeq
    <2> QED
        BY <2>1, <2>3, <2>4 DEF InductiveInvariant, TypeOK
<1>2. AllMessages' = <<>> /\ Len(AllMessages') = 0
    BY ConcatEmptySeq, EmptySeq DEF AllMessages
<1>3. NextOffset(quic_latest_level_received)' = 0
    BY <1>2 DEF NextOffset
<1>4. Bytes(0, 0, 0) = <<>>
    BY DEF Bytes
<1>5. PendingIsTheRest'
    BY <1>3, <1>4 DEF PendingIsTheRest, Pending, ssl_encryption_initial, Level
<1> QED
    BY <1>1, <1>2, <1>5
    DEF InductiveInvariant, MessagesInOrder, NoMessageCrossesLevels, WithinReceived

\* Every step of the input path keeps the invariant.
LEMMA NextInvariant == InductiveInvariant /\ [Next]_vars => InductiveInvariant'
<1> SUFFICES ASSUME InductiveInvariant, [Next]_vars PROVE InductiveInvariant'
    OBVIOUS
<1>1. TypeOK
    BY DEF InductiveInvariant
<1>2. ASSUME NEW level \in Level, NEW n \in 1..MaxOffset, SSL_provide_quic_data(level, n)
      PROVE  InductiveInvariant'
    BY <1>2, ProvidePreserves
<1>3. ASSUME NEW level \in Level, NEW n \in 1..MaxOffset, ProvideGrowFails(level, n)
      PROVE  InductiveInvariant'
    BY <1>1, <1>3, Frame DEF ProvideGrowFails, TypeOK, AllMessages
<1>4. CASE SplitMessage
    BY <1>4, SplitPreserves
<1>5. CASE SplitAllocFails
    BY <1>1, <1>5, Frame, EmptySeq DEF SplitAllocFails, TypeOK, AllMessages
<1>6. CASE SaveRest
    <2>1. TypeOK' /\ AllMessages' = AllMessages
        BY <1>1, <1>6, EmptySeq DEF SaveRest, TypeOK, AllMessages
    <2>2. Pending' = Pending
        BY <1>6 DEF SaveRest, Pending
    <2> QED
        BY <1>6, <2>1, <2>2, Frame DEF SaveRest, InductiveInvariant
<1>7. CASE SaveAllocFails
    BY <1>1, <1>7, Frame, EmptySeq DEF SaveAllocFails, TypeOK, AllMessages
<1>8. CASE quic_get_message
    BY <1>8, GetMessagePreserves
<1>9. CASE GetMessageFatal
    <2>1. TypeOK' /\ AllMessages' = AllMessages /\ Pending' = Pending
        BY <1>1, <1>9 DEF GetMessageFatal, TypeOK, AllMessages, Pending
    <2> QED
        BY <1>9, <2>1, Frame DEF GetMessageFatal, InductiveInvariant
<1>10. ASSUME NEW level \in Level, SetReadLevel(level)
       PROVE  InductiveInvariant'
    <2>1. TypeOK' /\ AllMessages' = AllMessages /\ Pending' = Pending
        BY <1>1, <1>10 DEF SetReadLevel, TypeOK, AllMessages, Pending
    <2> QED
        BY <1>10, <2>1, Frame DEF SetReadLevel, InductiveInvariant
<1>11. CASE SSL_clear_quic
    BY <1>11, ClearPreserves
<1>12. CASE UNCHANGED vars
    <2>1. TypeOK' /\ AllMessages' = AllMessages /\ Pending' = Pending
        BY <1>1, <1>12 DEF vars, TypeOK, AllMessages, Pending
    <2> QED
        BY <1>12, <2>1, Frame DEF vars, InductiveInvariant
<1> QED
    BY <1>2, <1>3, <1>4, <1>5, <1>6, <1>7, <1>8, <1>9, <1>10, <1>11, <1>12 DEF Next

\* The inductive invariant holds in every state the input path reaches,
\* whatever the lengths of the messages and of the calls that bring them.
THEOREM InputInvariant == Spec => []InductiveInvariant
<1> QED
    BY InitInvariant, NextInvariant, PTL DEF Spec

\* Every variable keeps its type: the offsets in it stay within a stream, the
\* levels within the four.
THEOREM InputTypeOK == Spec => []TypeOK
<1>1. InductiveInvariant => TypeOK
    BY DEF InductiveInvariant
<1> QED
    BY <1>1, InputInvariant, PTL

\* Messages come out whole, in stream order, without a gap or an overlap.
THEOREM InputMessagesInOrder == Spec => []MessagesInOrder
<1>1. InductiveInvariant => MessagesInOrder
    BY DEF InductiveInvariant
<1> QED
    BY <1>1, InputInvariant, PTL

\* No message crosses an encryption level boundary.
THEOREM InputNoMessageCrossesLevels == Spec => []NoMessageCrossesLevels
<1>1. InductiveInvariant => NoMessageCrossesLevels
    BY DEF InductiveInvariant
<1> QED
    BY <1>1, InputInvariant, PTL

\* Between calls quic_buf is exactly what no message was made of.
THEOREM InputFragmentIsTheRest == Spec => []FragmentIsTheRest
<1>1. InductiveInvariant => FragmentIsTheRest
    BY DEF InductiveInvariant, PendingIsTheRest, Pending, FragmentIsTheRest
<1> QED
    BY <1>1, InputInvariant, PTL

\* A call ends with nothing in quic_buf that its loop would split off,
\* so that no complete message waits there unseen.
THEOREM InputNoCompleteMessageHeld == Spec => []NoCompleteMessageHeld
<1> DEFINE Held == (pc = "idle" /\ ~error /\ Len(quic_buf) > SSL3_HM_HEADER_LENGTH) =>
                       Len(quic_buf) < SSL3_HM_HEADER_LENGTH + n2l3(quic_buf)
<1>0. \A a, b \in Nat :
          /\ a >= SSL3_HM_HEADER_LENGTH
          /\ a > SSL3_HM_HEADER_LENGTH => a < SSL3_HM_HEADER_LENGTH + b
          => a < SSL3_HM_HEADER_LENGTH + b \/ (a = SSL3_HM_HEADER_LENGTH /\ b = 0)
    BY DEF SSL3_HM_HEADER_LENGTH
<1>1. Init => Held
    BY EmptySeq DEF Init, SSL3_HM_HEADER_LENGTH
<1>2. ASSUME InductiveInvariant, Held, [Next]_vars PROVE Held'
    <2>1. TypeOK
        BY <1>2 DEF InductiveInvariant
    <2>2. ASSUME quic_buf' = quic_buf, pc' = pc, error' = error PROVE Held'
        BY <1>2, <2>2 DEF n2l3
    <2>3. CASE SaveRest
        <3> DEFINE n == n2l3(data)
                   k == Len(data)
        <3>1. quic_buf' = data /\ ~FullRecord /\ n2l3(quic_buf)' = n
            BY <2>3 DEF SaveRest, n2l3
        <3>2. ASSUME k > SSL3_HM_HEADER_LENGTH PROVE n \in Nat /\ k \in Nat
            <4>1. data \in Seq(ByteSet) /\ k > 4
                BY <2>1, <3>2 DEF TypeOK, SSL3_HM_HEADER_LENGTH
            <4>2. data[1] \in ByteSet /\ k \in Nat
                BY <4>1
            <4> QED
                BY <4>2, ConstantsAssumption DEF n2l3, ByteSet
        <3> HIDE DEF n, k
        <3>3. k > SSL3_HM_HEADER_LENGTH => k < SSL3_HM_HEADER_LENGTH + n
            BY <3>1, <3>2 DEF FullRecord, SSL3_HM_HEADER_LENGTH, n, k
        <3> QED
            BY <3>1, <3>3 DEF k
    <2>4. CASE SSL_clear_quic
        BY <2>4, EmptySeq DEF SSL_clear_quic, SSL3_HM_HEADER_LENGTH
    <2>5. CASE pc' = "split" \/ error'
        BY <2>5
    <2>6. [Next]_vars => \/ quic_buf' = quic_buf /\ pc' = pc /\ error' = error
                        \/ SaveRest
                        \/ SSL_clear_quic
                        \/ pc' = "split" \/ error'
        BY DEF Next, vars, SSL_provide_quic_data, ProvideGrowFails, SplitMessage, SplitAllocFails,
               SaveAllocFails, quic_get_message, GetMessageFatal, SetReadLevel
    <2> QED
        BY <1>2, <2>2, <2>3, <2>4, <2>5, <2>6
<1>3. ASSUME InductiveInvariant, Held PROVE NoCompleteMessageHeld
    <2> DEFINE n == n2l3(quic_buf)
               k == Len(quic_buf)
    <2>1. ASSUME k >= SSL3_HM_HEADER_LENGTH PROVE n \in Nat /\ k \in Nat
        <3>1. quic_buf \in Seq(ByteSet) /\ k >= 4
            BY <1>3, <2>1 DEF InductiveInvariant, TypeOK, SSL3_HM_HEADER_LENGTH
        <3>2. quic_buf[1] \in ByteSet /\ k \in Nat
            BY <3>1
        <3> QED
            BY <3>2, ConstantsAssumption DEF n2l3, ByteSet
    <2>2. (pc = "idle" /\ ~error /\ k > SSL3_HM_HEADER_LENGTH) => k < SSL3_HM_HEADER_LENGTH + n
        BY <1>3
    <2> HIDE DEF n, k
    <2>3. ASSUME pc = "idle", ~error, k >= SSL3_HM_HEADER_LENGTH
          PROVE  k < SSL3_HM_HEADER_LENGTH + n \/ (k = SSL3_HM_HEADER_LENGTH /\ n = 0)
        <3>1. k > SSL3_HM_HEADER_LENGTH => k < SSL3_HM_HEADER_LENGTH + n
            BY <2>2, <2>3
        <3>2. n \in Nat /\ k \in Nat
            BY <2>1, <2>3
        <3> QED
            BY <1>0, <2>3, <3>1, <3>2, Zenon
    <2> QED
        BY <2>3 DEF NoCompleteMessageHeld, n, k
<1> HIDE DEF Held
<1> QED
    BY <1>1, <1>2, <1>3, InputInvariant, PTL DEF Spec

-----------------------------------------------------------------------------
(* Refinement                                                              *)

\* The message taken is the next one of the abstract stream, and all of it has
\* been received.
LEMMA GetMessageDelivers ==
    ASSUME InductiveInvariant, quic_get_message
    PROVE  \E l \in Level : Stream!Deliver(l)
<1> DEFINE d == delivered
           q == quic_input_data
           m == q[1]
           l == m.level
           o == m.data[1].off
           k == Len(d) + 1
<1>1. TypeOK /\ MessagesInOrder /\ WithinReceived
    BY DEF InductiveInvariant
<1>2. /\ d \in Seq(QUIC_DATA) /\ q \in Seq(QUIC_DATA)
      /\ Len(d) \in Nat /\ Len(q) \in Nat \ {0} /\ q # <<>>
    BY <1>1, LenProperties, EmptySeq DEF TypeOK, quic_get_message
<1>3. /\ AllMessages = d \o q
      /\ Len(AllMessages) = Len(d) + Len(q)
      /\ \A i \in 1..(Len(d) + Len(q)) :
            AllMessages[i] = IF i <= Len(d) THEN d[i] ELSE q[i - Len(d)]
    BY <1>2, ConcatProperties DEF AllMessages
<1>4. /\ k \in 1..Len(AllMessages) /\ AllMessages[k] = m
      /\ k > 1 => AllMessages[k - 1] = d[Len(d)] /\ k - 1 = Len(d)
    BY <1>2, <1>3
<1>5. /\ m \in QUIC_DATA /\ l \in Level /\ m.data \in Seq(ByteSet)
      /\ Len(m.data) \in Nat \ {0} /\ m.data[1] \in ByteSet
    BY <1>1, <1>4, MessagesType
<1>6. o \in Offset /\ o \in Nat
    <2>1. o \in Offset
        BY <1>5 DEF ByteSet
    <2> QED
        BY <2>1, ConstantsAssumption DEF Offset
<1>7. /\ Len(m.data) = SSL3_HM_HEADER_LENGTH + n2l3(m.data)
      /\ m.data = Bytes(l, o, Len(m.data))
    BY <1>1, <1>4 DEF MessagesInOrder, WholeMessage
<1>8. EndOf(m) = o + Len(m.data) /\ EndOf(m) <= received[l]
    BY <1>1, <1>4 DEF WithinReceived, EndOf
<1>9. m.data[1] = Byte(l, o)
    <2>1. received[l] \in Nat /\ received[l] <= MaxOffset
        BY <1>1, <1>5, NextOffsetType
    <2>2. o + Len(m.data) <= MaxOffset
        BY <2>1, <1>5, <1>6, <1>8, ConstantsAssumption
    <2> DEFINE n == Len(m.data)
    <2>3. n \in Nat /\ o + n <= MaxOffset /\ 1 \in 1..n
        BY <2>2, <1>5
    <2>4. m.data = Bytes(l, o, n)
        BY <1>7
    <2> HIDE DEF n, o, l
    <2>5. Bytes(l, o, n)[1] = Byte(l, o + 1 - 1)
        BY <2>3, <1>5, <1>6, BytesType
    <2> QED
        BY <2>4, <2>5, <1>6
<1>10. Len(m.data) = Stream!MsgLen(l, o)
    BY <1>7, <1>9
    DEF n2l3, Byte, Stream!MsgLen, SSL3_HM_HEADER_LENGTH, Stream!SSL3_HM_HEADER_LENGTH
<1>11. m = Stream!Message(l, o)
    <2>1. m = [level |-> l, data |-> m.data]
        BY <1>5 DEF QUIC_DATA
    <2>2. m.data = [i \in 1..Stream!MsgLen(l, o) |-> Stream!Byte(l, o + i - 1)]
        BY <1>7, <1>10 DEF Bytes, Byte, Stream!Byte
    <2> QED
        BY <2>1, <2>2 DEF Stream!Message
<1>12. /\ Stream!NextOffset(d, l) = o
       /\ d # <<>> => d[Len(d)].level <= l
    <2>1. CASE d = <<>>
        <3>1. k = 1
            BY <2>1
        <3> QED
            BY <2>1, <3>1, <1>1, <1>4 DEF MessagesInOrder, Stream!NextOffset
    <2>2. CASE d # <<>>
        <3>1. k > 1
            BY <2>2, <1>2, EmptySeq
        <3>2. /\ AllMessages[k - 1] = d[Len(d)] /\ AllMessages[k - 1].level \in Level
            <4>1. k - 1 \in 1..Len(AllMessages)
                BY <3>1, <1>2, <1>4
            <4> QED
                BY <4>1, <3>1, <1>1, <1>4, MessagesType
        <3>3. \/ d[Len(d)].level < l /\ o = 0
              \/ d[Len(d)].level = l /\ o = EndOf(d[Len(d)])
            BY <3>1, <3>2, <1>1, <1>4 DEF MessagesInOrder
        <3> QED
            BY <2>2, <3>2, <3>3, <1>5 DEF Stream!NextOffset, EndOf, Level
    <2> QED
        BY <2>1, <2>2
<1>13. o + Stream!MsgLen(l, o) <= received[l]
    BY <1>8, <1>10
<1>14. delivered' = Append(delivered, m) /\ UNCHANGED received
    BY DEF quic_get_message
<1> HIDE DEF m, l, o
<1>15. Stream!Deliver(l)
    BY <1>6, <1>11, <1>12, <1>13, <1>14 DEF Stream!Deliver, Stream!Offset, Offset
<1> QED
    BY <1>5, <1>15

\* QuicInput implements QuicMessageStream: whatever is done to buffers and
\* lists, TLS sees the peer's messages, each once and in order.
THEOREM InputImplementsMessageStream == Spec => ImplementsMessageStream
<1> USE DEF Stream!Level, Level
<1>1. Init => Stream!Init
    BY DEF Init, Stream!Init
<1>2. InductiveInvariant /\ [Next]_vars => [Stream!Next]_(Stream!vars)
    <2> SUFFICES ASSUME InductiveInvariant, [Next]_vars
                 PROVE  [Stream!Next]_(Stream!vars)
        OBVIOUS
    <2>1. ASSUME NEW level \in Level, NEW n \in 1..MaxOffset,
                 SSL_provide_quic_data(level, n)
          PROVE  Stream!Next
        <3>1. received[level] \in Offset
            BY <2>1 DEF InductiveInvariant, TypeOK
        <3>2. /\ received[level] + n \in Stream!Offset
              /\ received[level] + n > received[level]
            BY <2>1, <3>1, ConstantsAssumption
            DEF Offset, Stream!Offset, SSL_provide_quic_data
        <3>3. Stream!Receive(level)
            BY <2>1, <3>2 DEF SSL_provide_quic_data, Stream!Receive
        <3> QED
            BY <3>3 DEF Stream!Next
    <2>2. ASSUME NEW level \in Level, NEW n \in 1..MaxOffset, ProvideGrowFails(level, n)
          PROVE  UNCHANGED Stream!vars
        BY <2>2 DEF ProvideGrowFails, Stream!vars
    <2>3. CASE quic_get_message
        BY <2>3, GetMessageDelivers DEF Stream!Next
    <2>4. CASE SSL_clear_quic
        BY <2>4 DEF SSL_clear_quic, Stream!Next, Stream!Reset
    <2>5. CASE \/ SplitMessage \/ SplitAllocFails \/ SaveRest \/ SaveAllocFails
               \/ GetMessageFatal \/ UNCHANGED vars
        BY <2>5 DEF SplitMessage, SplitAllocFails, SaveRest, SaveAllocFails,
                    GetMessageFatal, vars, Stream!vars
    <2>6. ASSUME NEW level \in Level, SetReadLevel(level)
          PROVE  UNCHANGED Stream!vars
        BY <2>6 DEF SetReadLevel, Stream!vars
    <2> QED
        BY <2>1, <2>2, <2>3, <2>4, <2>5, <2>6 DEF Next
<1> QED
    BY <1>1, <1>2, InputInvariant, PTL DEF Spec, ImplementsMessageStream, Stream!Spec
=============================================================================
