----------------------------- MODULE Dtls_proofs -----------------------------
(***************************************************************************)
(* Proofs about DtlsHandshake, for messages of any lengths, any sizes of   *)
(* datagrams and any number of faults, and about DtlsRecords, for windows, *)
(* queues and numbers of any size.                                         *)
(*                                                                         *)
(* Handshake: where an endpoint is follows from its own state. Each state  *)
(* of the state machine goes with one value of the sequence numbers, of the *)
(* epochs, of what is left of the flight and of the hash.  Records carry   *)
(* what their sender's script says for their number, so a message with the *)
(* number the receiver waits for is the one its state takes.               *)
(*                                                                         *)
(* Records: the bits of the replay window stand for the records handed up, *)
(* and a record of the next epoch waits or was handed up.                  *)
(***************************************************************************)
EXTENDS DtlsHandshake, DtlsRecords, FiniteSetTheorems, NaturalsInduction, WellFoundedInduction,
        SequenceTheorems, TLAPS

(***************************************************************************)
(* The script of a handshake: the number of each message, and what is      *)
(* hashed up to it.                                                        *)
(***************************************************************************)
K == IF mode.cookie THEN 1 ELSE 0
T == IF mode.ticket THEN 1 ELSE 0
Hello == IF mode.cookie THEN "CHc" ELSE "CH"

NumberOf(p, t) ==
    IF p = "client"
    THEN CASE t = "CH" -> 0 [] t = "CHc" -> 1 [] t = "CKE" -> K + 1
           [] OTHER -> IF mode.hit THEN K + 1 ELSE K + 2
    ELSE CASE t = "HVR" -> 0 [] t = "SH" -> K [] t = "CERT" -> K + 1 [] t = "SHD" -> K + 2
           [] t = "NST" -> IF mode.hit THEN K + 1 ELSE K + 3
           [] OTHER -> IF mode.hit THEN K + 1 + T ELSE K + 3 + T

Sends(p, t) ==
    IF p = "client"
    THEN \/ t \in {"CH", "FIN"} \/ (t = "CHc" /\ mode.cookie) \/ (t = "CKE" /\ ~mode.hit)
    ELSE \/ t \in {"SH", "FIN"} \/ (t = "HVR" /\ mode.cookie)
         \/ (t \in {"CERT", "SHD"} /\ ~mode.hit) \/ (t = "NST" /\ mode.ticket)

WithTicket(h) == IF mode.ticket THEN Append(h, "NST") ELSE h
HHello == <<Hello>>
HServer == Append(HHello, "SH")
HCert == Append(HServer, "CERT")
HDone == Append(HCert, "SHD")
HKex == Append(HDone, "CKE")
HFirst == IF mode.hit THEN WithTicket(HServer) ELSE HKex
HSecond == IF mode.hit THEN Append(HFirst, "FIN") ELSE WithTicket(Append(HFirst, "FIN"))

\* The endpoint that sends its Finished first is the server of an abbreviated
\* handshake, the client of a full one.
FinMac(p) ==
    IF (mode.hit /\ p = "server") \/ (~mode.hit /\ p = "client") THEN HFirst ELSE HSecond

IsMessage(p, t, seq, ep, mac) ==
    /\ Sends(p, t)
    /\ seq = NumberOf(p, t)
    /\ ep = IF t = "FIN" THEN 1 ELSE 0
    /\ t = "FIN" => mac = FinMac(p)

Hashes == Seq(HandshakeTypes)
AllTypes == HandshakeTypes \union {"CCS", "DATA"}

\* The records that endpoint p may have written.
RecordsOf(p) ==
    {r \in [epoch : {0, 1}, prio : Nat, type : AllTypes, seq : Nat, mac : Hashes,
            off : Nat, len : Nat] :
        /\ r.type = "CCS" => r.epoch = 0
        /\ r.type = "DATA" => r.epoch = 1
        /\ r.type \in HandshakeTypes =>
              /\ IsMessage(p, r.type, r.seq, r.epoch, r.mac)
              /\ r.off + r.len <= MsgLen[r.type]}

\* The messages it may have in its queue of sent messages.
SentOf(p) ==
    {m \in [prio : Int, type : HandshakeTypes \union {"CCS"}, seq : Nat, wrl : {0, 1},
            mac : Hashes] :
        /\ m.prio = dtls1_get_queue_priority(m.seq, IsCcs(m.type))
        /\ IF m.type = "CCS" THEN m.wrl = 0
                             ELSE IsMessage(p, m.type, m.seq, m.wrl, m.mac)}

\* The messages, whole or in parts, that its peer may have of it.
BufferedOf(p) ==
    {i \in [seq : Nat, type : HandshakeTypes, mac : Hashes, mask : SUBSET Nat,
            bytes : SUBSET Nat, complete : BOOLEAN] :
        /\ IsMessage(p, i.type, i.seq, IF i.type = "FIN" THEN 1 ELSE 0, i.mac)
        /\ i.bytes \subseteq 0 .. MsgLen[i.type] - 1
        /\ i.complete <=> i.bytes = 0 .. MsgLen[i.type] - 1
        /\ ~i.complete => i.mask = i.bytes}

(***************************************************************************)
(* The inductive invariant.                                                *)
(***************************************************************************)
States == {"BEFORE", "LISTEN", "CW_CLNT_HELLO", "CR_SRVR_HELLO", "CR_CERT", "CW_FINISHED",
           "CR_SESSION_TICKET", "CR_CHANGE", "SW_HELLO_VERIFY_REQUEST", "SW_SRVR_DONE",
           "SR_KEY_EXCH", "SW_FINISHED", "SR_CHANGE", "OK"}

Conns(p) ==
    [st : States, failed : {"no", "timeout"},
     rseq : Nat, nextw : Nat, repoch : {0, 1}, wepoch : {0, 1},
     rbuf : SUBSET BufferedOf(Other(p)),
     unproc : Seq(RecordsOf(Other(p))), pend : Seq(RecordsOf(Other(p))),
     appbuf : Seq(RecordsOf(Other(p))),
     sent : Seq(SentOf(p)), wrls : SUBSET {0, 1}, wnum : Nat, flight : Seq(AllTypes),
     left : {Off} \union 0 .. MaxTimeout, dur : 1 .. MaxTimeout,
     num : 0 .. TmoAlertCount + 1, mtu : 1 .. Mtu, hash : Hashes]

\* The limit on timeouts is what made an endpoint fail.
Counts(c) == c.failed = "no" => c.num <= TmoAlertCount

\* Old record layers hang on a ChangeCipherSpec.
Layers(c) ==
    /\ c.wrls = {c.wepoch} \union {m.wrl : m \in Range(c.sent)}
    /\ \A m \in Range(c.sent) : m.wrl <= c.wepoch /\ (m.type = "CCS" => c.wepoch = 1)
    /\ c.wepoch = 1 /\ (c.sent # <<>> \/ c.flight # <<>>) => \E m \in Range(c.sent) : m.type = "CCS"

\* A Finished is buffered in its own epoch only.
Finisheds(c) == \A i \in c.rbuf : i.type = "FIN" => c.repoch = 1

At(c, rseq, nextw, repoch, ep) ==
    c.rseq = rseq /\ c.nextw = nextw /\ c.repoch = repoch /\ c.wepoch = ep

ClientPosition(c) ==
    \/ c.st = "BEFORE" /\ At(c, 0, 0, 0, 0) /\ c.flight = <<>>
    \/ c.st = "CW_CLNT_HELLO" /\ At(c, 0, 0, 0, 0) /\ c.flight = <<"CH">>
    \/ c.st = "CW_CLNT_HELLO" /\ At(c, 0, 1, 0, 0) /\ c.flight = <<>> /\ c.hash = <<"CH">>
    \/ /\ c.st = "CW_CLNT_HELLO" /\ mode.cookie
       /\ At(c, 1, 1, 0, 0) /\ c.flight = <<"CHc">>
    \/ /\ c.st = "CW_CLNT_HELLO" /\ mode.cookie
       /\ At(c, 1, 2, 0, 0) /\ c.flight = <<>> /\ c.hash = <<"CHc">>
    \/ /\ c.st = "CR_SRVR_HELLO"
       /\ At(c, K + 1, K + 1, 0, 0) /\ c.flight = <<>> /\ c.hash = HServer
    \/ /\ c.st = "CR_CERT" /\ ~mode.hit
       /\ At(c, K + 2, K + 1, 0, 0) /\ c.flight = <<>> /\ c.hash = HCert
    \/ /\ c.st = "CW_FINISHED" /\ ~mode.hit
       /\ \/ At(c, K + 3, K + 1, 0, 0) /\ c.flight = <<"CKE", "CCS", "FIN">> /\ c.hash = HDone
          \/ At(c, K + 3, K + 2, 0, 0) /\ c.flight = <<"CCS", "FIN">> /\ c.hash = HFirst
          \/ At(c, K + 3, K + 2, 0, 1) /\ c.flight = <<"FIN">> /\ c.hash = HFirst
          \/ At(c, K + 3, K + 3, 0, 1) /\ c.flight = <<>> /\ c.hash = Append(HFirst, "FIN")
    \/ /\ c.st = "CR_SESSION_TICKET" /\ mode.ticket /\ c.flight = <<>>
       /\ IF mode.hit THEN At(c, K + 2, K + 1, 0, 0) /\ c.hash = HFirst
                      ELSE At(c, K + 4, K + 3, 0, 1) /\ c.hash = HSecond
    \/ /\ c.st = "CR_CHANGE" /\ c.flight = <<>>
       /\ IF mode.hit THEN At(c, K + 1 + T, K + 1, 1, 0) /\ c.hash = HFirst
                      ELSE At(c, K + 3 + T, K + 3, 1, 1) /\ c.hash = HSecond
    \/ /\ c.st = "OK" /\ mode.hit /\ c.hash = HSecond
       /\ \/ At(c, K + 2 + T, K + 1, 1, 0) /\ c.flight = <<"CCS", "FIN">>
          \/ At(c, K + 2 + T, K + 1, 1, 1) /\ c.flight = <<"FIN">>
    \/ c.st = "OK" /\ At(c, 0, 0, 1, 1) /\ c.flight = <<>>

ServerPosition(c) ==
    \/ c.st = "LISTEN" /\ At(c, 0, 0, 0, 0) /\ c.flight = <<>> /\ c.hash = <<>>
    \/ /\ c.st = "SW_HELLO_VERIFY_REQUEST" /\ mode.cookie
       /\ \/ At(c, 1, 0, 0, 0) /\ c.flight = <<"HVR">>
          \/ (At(c, 1, 1, 0, 0) \/ At(c, 0, 0, 0, 0)) /\ c.flight = <<>> /\ c.hash = <<>>
    \/ /\ c.st = "SW_SRVR_DONE" /\ ~mode.hit
       /\ \/ At(c, K + 1, K, 0, 0) /\ c.flight = <<"SH", "CERT", "SHD">> /\ c.hash = HHello
          \/ At(c, K + 1, K + 1, 0, 0) /\ c.flight = <<"CERT", "SHD">> /\ c.hash = HServer
          \/ At(c, K + 1, K + 2, 0, 0) /\ c.flight = <<"SHD">> /\ c.hash = HCert
          \/ At(c, K + 1, K + 3, 0, 0) /\ c.flight = <<>> /\ c.hash = HDone
    \/ /\ c.st = "SR_KEY_EXCH" /\ ~mode.hit
       /\ At(c, K + 2, K + 3, 0, 0) /\ c.flight = <<>> /\ c.hash = HFirst
    \/ /\ c.st = "SW_FINISHED" /\ mode.hit
       /\ \/ /\ At(c, K + 1, K, 0, 0) /\ c.hash = HHello
             /\ c.flight = IF mode.ticket THEN <<"SH", "NST", "CCS", "FIN">>
                                          ELSE <<"SH", "CCS", "FIN">>
          \/ /\ At(c, K + 1, K + 1, 0, 0) /\ c.hash = HServer
             /\ mode.ticket /\ c.flight = <<"NST", "CCS", "FIN">>
          \/ At(c, K + 1, K + 1 + T, 0, 0) /\ c.flight = <<"CCS", "FIN">> /\ c.hash = HFirst
          \/ At(c, K + 1, K + 1 + T, 0, 1) /\ c.flight = <<"FIN">> /\ c.hash = HFirst
          \/ At(c, K + 1, K + 2 + T, 0, 1) /\ c.flight = <<>> /\ c.hash = HSecond
    \/ /\ c.st = "SR_CHANGE" /\ c.flight = <<>>
       /\ IF mode.hit THEN At(c, K + 1, K + 2 + T, 1, 1) /\ c.hash = HSecond
                      ELSE At(c, K + 2, K + 3, 1, 0) /\ c.hash = HFirst
    \/ /\ c.st = "OK" /\ ~mode.hit
       /\ \/ /\ At(c, K + 3, K + 3, 1, 0) /\ c.hash = Append(HFirst, "FIN")
             /\ mode.ticket /\ c.flight = <<"NST", "CCS", "FIN">>
          \/ At(c, K + 3, K + 3 + T, 1, 0) /\ c.flight = <<"CCS", "FIN">> /\ c.hash = HSecond
          \/ At(c, K + 3, K + 3 + T, 1, 1) /\ c.flight = <<"FIN">> /\ c.hash = HSecond
    \/ c.st = "OK" /\ At(c, 0, 0, 1, 1) /\ c.flight = <<>>

Position(p, c) == IF p = "client" THEN ClientPosition(c) ELSE ServerPosition(c)

EndpointInv(p, c) ==
    c \in Conns(p) /\ Counts(c) /\ Layers(c) /\ Finisheds(c) /\ Position(p, c)

EndpointsInv ==
    /\ conn \in [Peers -> Conns("client") \union Conns("server")]
    /\ \A p \in Peers : EndpointInv(p, conn[p])

ChannelsInv ==
    /\ chan \in [Peers -> Seq(RecordsOf("client") \union RecordsOf("server"))]
    /\ \A p \in Peers : chan[p] \in Seq(RecordsOf(p))

Fates == {"none", "sent", "lost", "read"}

IInv ==
    /\ mode \in Modes
    /\ faults \in 0 .. MaxFaults
    /\ data \in [Peers -> Fates]
    /\ EndpointsInv
    /\ ChannelsInv

-----------------------------------------------------------------------------
(* Arithmetic and sequences *)

\* RSMBLY_BITMASK_MARK sets the bits of the range, no others, whichever way it
\* goes about it.
LEMMA MarkExact ==
    ASSUME NEW mask, NEW start \in Nat, NEW end \in Nat, start <= end
    PROVE  Mark(mask, start, end) = mask \union start .. end - 1
<1>1. CASE end - start <= 8
    BY <1>1 DEF Mark
<1>2. CASE ~(end - start <= 8)
  <2> DEFINE first == start \div 8
             last == (end - 1) \div 8
             F == {i \in Byte(first) : i % 8 >= start % 8}
             M == UNION {Byte(b) : b \in first + 1 .. last - 1}
             L == {i \in Byte(last) : end % 8 = 0 \/ i % 8 < end % 8}
  <2>0. first \in Nat /\ last \in Nat /\ first < last
    BY <1>2
  <2>1. \A i \in F : i \in start .. end - 1
    BY <1>2 DEF Byte
  <2>2. \A i \in M : i \in start .. end - 1
    BY <1>2 DEF Byte
  <2>3. \A i \in L : i \in start .. end - 1
    BY <1>2 DEF Byte
  <2>4. \A i \in start .. end - 1 : i \in F \/ i \in M \/ i \in L
    BY <1>2 DEF Byte
  <2>5. Mark(mask, start, end) =
            mask \union IF end - start <= 8 THEN start .. end - 1 ELSE F \union M \union L
    BY DEF Mark
  <2>6. Mark(mask, start, end) = mask \union (F \union M \union L)
    <3> HIDE DEF F, M, L
    <3> QED BY <1>2, <2>5, Zenon
  <2> HIDE DEF F, M, L
  <2> QED BY <2>1, <2>2, <2>3, <2>4, <2>6
<1> QED BY <1>1, <1>2

\* RSMBLY_BITMASK_IS_COMPLETE tells a message all of whose bytes are there.
LEMMA CompleteExact ==
    ASSUME NEW len \in Nat \ {0}, NEW mask, mask \subseteq 0 .. len - 1
    PROVE  IsComplete(mask, len) <=> mask = 0 .. len - 1
<1> DEFINE last == (len - 1) \div 8
           L == {i \in Byte(last) : len % 8 = 0 \/ i % 8 < len % 8}
<1>0. last \in Nat
    OBVIOUS
<1>1. \A i : i \in L <=> i \in Byte(last) /\ i \in 0 .. len - 1
    BY DEF Byte
<1>2. \A b \in 0 .. last - 1 : Byte(b) \subseteq 0 .. len - 1
    BY DEF Byte
<1>3. \A i \in 0 .. len - 1 : i \in Byte(last) \/ \E b \in 0 .. last - 1 : i \in Byte(b)
  <2> SUFFICES ASSUME NEW i \in 0 .. len - 1, i \notin Byte(last)
               PROVE  i \in Byte(i \div 8) /\ i \div 8 \in 0 .. last - 1
    OBVIOUS
  <2> QED BY DEF Byte
<1>4. IsComplete(mask, len) <=> /\ mask \intersect Byte(last) = L
                                /\ \A b \in 0 .. last - 1 : Byte(b) \subseteq mask
    BY Zenon DEF IsComplete
<1> HIDE DEF last, L
<1> QED BY <1>1, <1>2, <1>3, <1>4

\* What dtls1_do_write cuts lies within the message.
LEMMA FragmentsFit ==
    ASSUME NEW b \in Nat \ {0}, NEW mtu \in Nat \ {0},
           NEW i \in 1 .. (b + mtu - 1) \div mtu
    PROVE  (i - 1) * mtu \in Nat /\ (i - 1) * mtu < b
  OBVIOUS

\* A set of numbers has a least one.
LEMMA Least ==
    ASSUME NEW N, N \subseteq Nat, N # {}
    PROVE  \E x \in N : \A y \in N : x <= y
<1> DEFINE R == OpToRel(<, Nat)
<1>1. IsWellFoundedOn(R, Nat)
    BY NatLessThanWellFounded, Zenon
<1>2. \A x, y \in Nat : y < x => <<y, x>> \in R
    BY DEF OpToRel
<1> HIDE DEF R
<1>3. \E x \in N : \A y \in N : ~(<<y, x>> \in R)
    BY <1>1, WFMin, Zenon
<1>4. PICK x \in N : \A y \in N : ~(<<y, x>> \in R)
    BY <1>3
<1>5. ASSUME NEW y \in N PROVE x <= y
  <2>1. x \in Nat /\ y \in Nat
    OBVIOUS
  <2>2. ~(y < x)
    BY <1>2, <1>4, <2>1, Zenon
  <2> QED BY <2>1, <2>2
<1> QED BY <1>5

\* The recursive function of FlattenSeq: a concatenation of the first sequences,
\* from that of one sequence less.
Joins(f, ss, n) == f = [i \in 1 .. n |-> IF i = 1 THEN ss[i] ELSE f[i - 1] \o ss[i]]

\* There is such a function: a shortest stretch without one could be extended
\* from the stretch before.
LEMMA JoinsExists ==
    ASSUME NEW ss, NEW n \in Nat
    PROVE  \E f : Joins(f, ss, n)
<1> DEFINE Bad == {k \in Nat : ~\E f : Joins(f, ss, k)}
<1>1. SUFFICES ASSUME Bad # {} PROVE FALSE
    OBVIOUS
<1>2. PICK k \in Bad : \A j \in Bad : k <= j
  <2>1. Bad \subseteq Nat
    OBVIOUS
  <2> HIDE DEF Bad
  <2> QED BY <1>1, <2>1, Least
<1>3. k # 0
  <2>1. [i \in 1 .. 0 |-> IF i = 1 THEN ss[i] ELSE <<>>[i - 1] \o ss[i]] = <<>>
    OBVIOUS
  <2>2. Joins(<<>>, ss, 0)
    BY <2>1 DEF Joins
  <2> QED BY <2>2, <1>2
<1>4. PICK f : Joins(f, ss, k - 1)
    BY <1>2, <1>3
<1>5. DOMAIN f = 1 .. k - 1
      /\ \A i \in 1 .. k - 1 : f[i] = IF i = 1 THEN ss[i] ELSE f[i - 1] \o ss[i]
    BY <1>4 DEF Joins
<1> DEFINE g == [i \in 1 .. k |-> IF i < k THEN f[i] ELSE IF k = 1 THEN ss[k] ELSE f[k - 1] \o ss[k]]
<1>6. ASSUME NEW i \in 1 .. k
      PROVE  g[i] = IF i = 1 THEN ss[i] ELSE g[i - 1] \o ss[i]
  <2>1. CASE i = k
    <3>1. g[i] = IF k = 1 THEN ss[k] ELSE f[k - 1] \o ss[k]
        BY <2>1
    <3>2. k # 1 => g[k - 1] = f[k - 1]
        BY <1>2, <1>3
    <3> QED BY <2>1, <3>1, <3>2
  <2>2. CASE i < k
    <3>1. g[i] = f[i]
        BY <2>2
    <3>2. i # 1 => g[i - 1] = f[i - 1]
        BY <1>2, <2>2
    <3>3. i \in 1 .. k - 1
        BY <1>2, <2>2
    <3> QED BY <1>5, <3>1, <3>2, <3>3
  <2> QED BY <2>1, <2>2, <1>2
<1>7. g = [i \in 1 .. k |-> g[i]]
    OBVIOUS
<1> HIDE DEF g
<1>8. Joins(g, ss, k)
    BY <1>6, <1>7, Zenon DEF Joins
<1> QED BY <1>2, <1>8

\* A concatenation of sequences over a set is one.
LEMMA FlattenType ==
    ASSUME NEW S, NEW ss \in Seq(Seq(S))
    PROVE  FlattenSeq(ss) \in Seq(S)
<1>1. CASE Len(ss) = 0
    BY <1>1 DEF FlattenSeq
<1>2. CASE Len(ss) # 0
  <2> DEFINE n == Len(ss)
             f == CHOOSE g : Joins(g, ss, n)
             Bad == {i \in 1 .. n : f[i] \notin Seq(S)}
  <2>0. n \in Nat /\ \A i \in 1 .. n : ss[i] \in Seq(S)
    OBVIOUS
  <2>1. FlattenSeq(ss) = f[n]
    BY <1>2, Zenon DEF FlattenSeq, Joins
  <2>2. Joins(f, ss, n)
    BY <2>0, JoinsExists
  <2> HIDE DEF f, n
  <2>3. \A i \in 1 .. n : f[i] = IF i = 1 THEN ss[i] ELSE f[i - 1] \o ss[i]
    BY <2>2 DEF Joins
  <2>4. Bad = {}
    <3> SUFFICES ASSUME Bad # {} PROVE FALSE
        OBVIOUS
    <3>1. Bad \subseteq Nat
        OBVIOUS
    <3>2. PICK i \in Bad : \A j \in Bad : i <= j
      <4> HIDE DEF Bad
      <4> QED BY <3>1, Least
    <3>3. i \in 1 .. n /\ f[i] \notin Seq(S) /\ i \in Nat
        OBVIOUS
    <3>4. CASE i = 1
        BY <2>0, <2>3, <3>3, <3>4
    <3>5. CASE i # 1
      <4>1. i - 1 \in 1 .. n /\ i - 1 \notin Bad
        BY <2>0, <3>2, <3>3, <3>5
      <4>2. f[i - 1] \in Seq(S) /\ ss[i] \in Seq(S)
        BY <2>0, <3>3, <4>1
      <4>3. f[i - 1] \o ss[i] \in Seq(S)
        BY <4>2
      <4> QED BY <2>3, <3>3, <3>5, <4>3
    <3> QED BY <3>4, <3>5
  <2> QED BY <1>2, <2>0, <2>1, <2>4 DEF n
<1> QED BY <1>1, <1>2

\* Inserting in a sequence adds one element.
LEMMA InsertAtType ==
    ASSUME NEW S, NEW q \in Seq(S), NEW e \in S, NEW n \in 0 .. Len(q)
    PROVE  /\ InsertAt(q, n + 1, e) \in Seq(S)
           /\ Range(InsertAt(q, n + 1, e)) = Range(q) \union {e}
<1> DEFINE a == SubSeq(q, 1, n)
           b == SubSeq(q, n + 1, Len(q))
           ae == a \o <<e>>
           r == ae \o b
<1>0. InsertAt(q, n + 1, e) = r
  <2>1. (n + 1) - 1 = n
    OBVIOUS
  <2> QED BY <2>1, Zenon DEF InsertAt
<1>1. /\ a \in Seq(S) /\ Len(a) = n
      /\ \A i \in 1 .. n : a[i] = q[i]
    OBVIOUS
<1>2. /\ b \in Seq(S) /\ Len(b) = Len(q) - n
      /\ \A i \in 1 .. Len(q) - n : b[i] = q[n + i]
    OBVIOUS
<1>3. <<e>> \in Seq(S) /\ Len(<<e>>) = 1 /\ <<e>>[1] = e
    OBVIOUS
<1> HIDE DEF a, b
<1>4. /\ ae \in Seq(S) /\ Len(ae) = n + 1
      /\ \A i \in 1 .. n : ae[i] = q[i]
      /\ ae[n + 1] = e
    BY <1>1, <1>3
<1> HIDE DEF ae
<1>5. /\ r \in Seq(S) /\ Len(r) = Len(q) + 1
      /\ \A i \in 1 .. n + 1 : r[i] = ae[i]
      /\ \A i \in 1 .. Len(q) - n : r[n + 1 + i] = b[i]
  <2>1. r \in Seq(S) /\ Len(r) = Len(ae) + Len(b)
    BY <1>2, <1>4, ConcatProperties, Zenon
  <2>2. ASSUME NEW i \in 1 .. Len(ae) + Len(b)
        PROVE  r[i] = IF i <= Len(ae) THEN ae[i] ELSE b[i - Len(ae)]
    BY <1>2, <1>4, ConcatProperties, Zenon
  <2> HIDE DEF r
  <2>3. Len(r) = Len(q) + 1
    BY <2>1, <1>2, <1>4
  <2>4. ASSUME NEW i \in 1 .. n + 1
        PROVE  r[i] = ae[i]
    BY <2>2, <1>2, <1>4
  <2>5. ASSUME NEW i \in 1 .. Len(q) - n
        PROVE  r[n + 1 + i] = b[i]
    <3>1. /\ n + 1 + i \in 1 .. Len(ae) + Len(b) /\ ~(n + 1 + i <= Len(ae))
          /\ (n + 1 + i) - Len(ae) = i
      BY <1>2, <1>4
    <3> QED BY <2>2, <3>1
  <2> QED BY <2>1, <2>3, <2>4, <2>5
<1> HIDE DEF r
<1>6. \A i \in 1 .. Len(q) : \E j \in 1 .. Len(r) : r[j] = q[i]
  <2> TAKE i \in 1 .. Len(q)
  <2>1. CASE i <= n
      BY <2>1, <1>4, <1>5
  <2>2. CASE i > n
    <3>1. i - n \in 1 .. Len(q) - n /\ n + (i - n) = i
        BY <2>2
    <3>2. r[n + 1 + (i - n)] = q[i]
        BY <1>2, <1>5, <3>1
    <3> QED BY <3>2, <1>5, <2>2
  <2> QED BY <2>1, <2>2
<1>7. r[n + 1] = e
    BY <1>4, <1>5
<1>8. \A j \in 1 .. Len(r) : r[j] = e \/ \E i \in 1 .. Len(q) : r[j] = q[i]
  <2> TAKE j \in 1 .. Len(r)
  <2>1. CASE j <= n + 1
      BY <2>1, <1>4, <1>5
  <2>2. CASE j > n + 1
    <3>1. j - n - 1 \in 1 .. Len(q) - n /\ n + 1 + (j - n - 1) = j
        BY <2>2, <1>5
    <3>2. r[j] = q[n + (j - n - 1)]
        BY <1>2, <1>5, <3>1
    <3>3. n + (j - n - 1) \in 1 .. Len(q)
        BY <3>1
    <3> QED BY <3>2, <3>3
  <2> QED BY <2>1, <2>2, <1>5
<1>9. DOMAIN q = 1 .. Len(q) /\ DOMAIN r = 1 .. Len(r) /\ n + 1 \in 1 .. Len(r)
    BY <1>5
<1>10. Range(r) = Range(q) \union {e}
  <2>1. \A x : x \in Range(r) <=> \E j \in 1 .. Len(r) : r[j] = x
    BY <1>9 DEF Range
  <2>2. \A x : x \in Range(q) <=> \E i \in 1 .. Len(q) : q[i] = x
    BY <1>9 DEF Range
  <2>3. \A x : x \in Range(r) => x \in Range(q) \union {e}
    BY <2>1, <2>2, <1>8
  <2>4. \A x : x \in Range(q) \union {e} => x \in Range(r)
    BY <2>1, <2>2, <1>6, <1>7, <1>9
  <2> QED BY <2>3, <2>4
<1> QED BY <1>0, <1>5, <1>10

\* pqueue_insert adds its item, unless there is one with the same priority.
LEMMA PqueueInsert ==
    ASSUME NEW S, NEW q \in Seq(S), NEW e \in S
    PROVE  /\ pqueue_insert(q, e) \in Seq(S)
           /\ pqueue_insert(q, e) = q \/ Range(pqueue_insert(q, e)) = Range(q) \union {e}
           /\ (\A i \in DOMAIN q : q[i].prio # e.prio)
                => Range(pqueue_insert(q, e)) = Range(q) \union {e}
<1> DEFINE L == {i \in DOMAIN q : q[i].prio < e.prio}
<1>0. Len(q) \in Nat
    OBVIOUS
<1> DEFINE N == Len(q)
<1>1. IsFiniteSet(1 .. N) /\ Cardinality(1 .. N) = N
  <2> HIDE DEF N
  <2>1. N \in Nat
    BY <1>0 DEF N
  <2> QED BY <2>1, FS_Interval
<1>2. L \subseteq 1 .. Len(q)
    OBVIOUS
<1> HIDE DEF L
<1>3. Cardinality(L) \in 0 .. Len(q)
  <2>1. IsFiniteSet(L) /\ Cardinality(L) <= Cardinality(1 .. N)
    BY <1>1, <1>2, FS_Subset
  <2>2. Cardinality(L) \in Nat
    BY <2>1, FS_CardinalityType
  <2> QED BY <1>0, <1>1, <2>1, <2>2
<1> DEFINE n == Cardinality(L)
<1>4. pqueue_insert(q, e) = IF \E i \in DOMAIN q : q[i].prio = e.prio THEN q
                                                   ELSE InsertAt(q, n + 1, e)
    BY DEF pqueue_insert, L
<1> HIDE DEF n
<1>5. n \in 0 .. Len(q)
    BY <1>3 DEF n
<1>6. /\ InsertAt(q, n + 1, e) \in Seq(S)
      /\ Range(InsertAt(q, n + 1, e)) = Range(q) \union {e}
    BY <1>5, InsertAtType
<1> QED BY <1>4, <1>6

\* The range of a sequence.
LEMMA RangeType ==
    ASSUME NEW S, NEW q \in Seq(S)
    PROVE  Range(q) \subseteq S /\ (q = <<>> <=> Range(q) = {})
  BY DEF Range

\* A sequence stays one without an element.
LEMMA RemoveAtType ==
    ASSUME NEW S, NEW q \in Seq(S), NEW i \in 1 .. Len(q)
    PROVE  RemoveAt(q, i) \in Seq(S)
<1>1. SubSeq(q, 1, i - 1) \in Seq(S) /\ SubSeq(q, i + 1, Len(q)) \in Seq(S)
    OBVIOUS
<1> QED BY <1>1 DEF RemoveAt

-----------------------------------------------------------------------------
(* The script *)

\* What a mode fixes: how many numbers a cookie and a ticket take.
LEMMA ModeType ==
    ASSUME mode \in Modes
    PROVE  /\ mode.hit \in BOOLEAN /\ mode.cookie \in BOOLEAN /\ mode.ticket \in BOOLEAN
           /\ K \in {0, 1} /\ T \in {0, 1}
           /\ (mode.cookie => K = 1) /\ (~mode.cookie => K = 0)
           /\ (mode.ticket => T = 1) /\ (~mode.ticket => T = 0)
  BY ModesAssumption DEF K, T

\* A transcript with one more message is a transcript.
LEMMA AppendHash ==
    ASSUME NEW h \in Hashes, NEW t \in HandshakeTypes
    PROVE  Append(h, t) \in Hashes
  BY DEF Hashes

\* The transcripts of the script are transcripts.
LEMMA HashType ==
    ASSUME mode \in Modes
    PROVE  /\ HHello \in Hashes /\ HServer \in Hashes /\ HCert \in Hashes /\ HDone \in Hashes
           /\ HKex \in Hashes /\ HFirst \in Hashes /\ HSecond \in Hashes
           /\ \A p \in Peers : FinMac(p) \in Hashes
<1>0. {"SH", "CERT", "SHD", "CKE", "NST", "FIN", Hello} \subseteq HandshakeTypes
    BY DEF HandshakeTypes, Hello
<1>1. HHello \in Hashes
    BY <1>0 DEF HHello, Hashes
<1>2. HServer \in Hashes
    BY <1>0, <1>1, AppendHash DEF HServer
<1>3. HCert \in Hashes
    BY <1>0, <1>2, AppendHash DEF HCert
<1>4. HDone \in Hashes
    BY <1>0, <1>3, AppendHash DEF HDone
<1>5. HKex \in Hashes
    BY <1>0, <1>4, AppendHash DEF HKex
<1>6. HFirst \in Hashes
    BY <1>0, <1>2, <1>5, AppendHash DEF HFirst, WithTicket
<1>7. Append(HFirst, "FIN") \in Hashes
    BY <1>0, <1>6, AppendHash
<1>8. HSecond \in Hashes
    BY <1>0, <1>7, AppendHash DEF HSecond, WithTicket
<1>9. \A p \in Peers : FinMac(p) \in Hashes
    BY <1>6, <1>8 DEF FinMac
<1> QED BY <1>1, <1>2, <1>3, <1>4, <1>5, <1>6, <1>8, <1>9

\* An endpoint has one message of each number.
LEMMA OneMessage ==
    ASSUME mode \in Modes, NEW p \in Peers,
           NEW t \in HandshakeTypes, NEW u \in HandshakeTypes,
           Sends(p, t), Sends(p, u), NumberOf(p, t) = NumberOf(p, u)
    PROVE  t = u
  BY ModeType DEF Sends, NumberOf, Peers, HandshakeTypes

\* The records of a message of p are records of p, however it is cut.
LEMMA RecordsType ==
    ASSUME mode \in Modes, NEW p \in Peers, NEW m \in SentOf(p), NEW mtu \in 1 .. Mtu,
           NEW n \in Nat
    PROVE  Records(m, mtu, n) \in Seq(RecordsOf(p)) /\ WNum(m, mtu) \in Nat
<1> DEFINE len == BodyLen(m.type)
           cnt == FragmentCount(m.type, mtu)
<1>0. m.type \in HandshakeTypes \union {"CCS"} /\ m.wrl \in {0, 1} /\ m.mac \in Hashes
      /\ m.seq \in Nat /\ mtu \in Nat \ {0}
    BY LengthAssumption DEF SentOf
<1>1. len \in Nat /\ (m.type \in HandshakeTypes => len = MsgLen[m.type])
    BY <1>0, LengthAssumption DEF BodyLen, HandshakeTypes
<1>2. cnt \in Nat
    BY <1>0, <1>1 DEF FragmentCount
<1>3. ASSUME NEW i \in 1 .. cnt
      PROVE  (i - 1) * mtu \in Nat /\ (i - 1) * mtu <= len
  <2>1. CASE len = 0
      BY <1>0, <2>1 DEF FragmentCount
  <2>2. CASE len # 0
    <3>1. i \in 1 .. (len + mtu - 1) \div mtu
        BY <2>2 DEF FragmentCount
    <3> HIDE DEF len
    <3> QED BY <1>0, <1>1, <2>2, <3>1, FragmentsFit
  <2> QED BY <2>1, <2>2
<1> DEFINE Rec(i) ==
        LET off == (i - 1) * mtu
        IN  [epoch |-> m.wrl, prio |-> m.wrl * (n + i), type |-> m.type, seq |-> m.seq,
             mac |-> m.mac, off |-> off, len |-> IF len - off < mtu THEN len - off ELSE mtu]
<1>4. Records(m, mtu, n) = [i \in 1 .. cnt |-> Rec(i)]
    BY DEF Records
<1>5. ASSUME NEW i \in 1 .. cnt PROVE Rec(i) \in RecordsOf(p)
  <2> DEFINE off == (i - 1) * mtu
             l == IF len - off < mtu THEN len - off ELSE mtu
             prio == m.wrl * (n + i)
  <2>1. off \in Nat /\ off <= len
      BY <1>3
  <2> HIDE DEF off, len, cnt
  <2>2. l \in Nat /\ off + l <= len
      BY <1>0, <1>1, <2>1
  <2>3. prio \in Nat
      BY <1>0, <1>2
  <2>4. Rec(i) = [epoch |-> m.wrl, prio |-> prio, type |-> m.type, seq |-> m.seq,
                  mac |-> m.mac, off |-> off, len |-> l]
      BY DEF off
  <2> HIDE DEF Rec, l, prio
  <2>5. m.type # "DATA" /\ m.type \in AllTypes
      BY <1>0 DEF HandshakeTypes, AllTypes
  <2>6. m.type = "CCS" => m.wrl = 0
      BY DEF SentOf
  <2>7. m.type \in HandshakeTypes => IsMessage(p, m.type, m.seq, m.wrl, m.mac)
      BY DEF SentOf, HandshakeTypes
  <2> QED BY <1>0, <1>1, <2>1, <2>2, <2>3, <2>4, <2>5, <2>6, <2>7 DEF RecordsOf
<1> HIDE DEF Rec, cnt
<1>6. Records(m, mtu, n) \in Seq(RecordsOf(p))
    BY <1>2, <1>4, <1>5
<1>7. WNum(m, mtu) \in Nat
    BY <1>0, <1>2 DEF WNum, cnt
<1> QED BY <1>6, <1>7

-----------------------------------------------------------------------------
(* The operations on one endpoint *)

\* What the steps of one endpoint leave alone besides the fields they name.
SameInput(c, d) ==
    /\ d.rbuf = c.rbuf /\ d.unproc = c.unproc /\ d.pend = c.pend /\ d.appbuf = c.appbuf
SamePlace(c, d) ==
    /\ d.st = c.st /\ d.rseq = c.rseq /\ d.nextw = c.nextw /\ d.flight = c.flight
    /\ d.hash = c.hash /\ d.repoch = c.repoch /\ d.wepoch = c.wepoch
SameSent(c, d) ==
    d.sent = c.sent /\ d.wrls = c.wrls /\ d.wepoch = c.wepoch /\ d.flight = c.flight
SameCount(c, d) == d.failed = c.failed /\ d.num = c.num

\* Each part of the invariant depends only on the fields that its frame names.
LEMMA SameKeeps ==
    ASSUME NEW p \in Peers, NEW c, NEW d, EndpointInv(p, c), d \in Conns(p)
    PROVE  /\ SamePlace(c, d) => Position(p, d)
           /\ SameSent(c, d) => Layers(d)
           /\ SameCount(c, d) => Counts(d)
           /\ SameInput(c, d) /\ d.repoch = c.repoch => Finisheds(d)
<1>1. SamePlace(c, d) => Position(p, d)
  <2>1. CASE p = "client"
      BY <2>1 DEF SamePlace, EndpointInv, Position, ClientPosition, At
  <2>2. CASE p = "server"
      BY <2>2 DEF SamePlace, EndpointInv, Position, ServerPosition, At
  <2> QED BY <2>1, <2>2 DEF Peers
<1>2. SameSent(c, d) => Layers(d)
    BY Zenon DEF SameSent, EndpointInv, Layers
<1>3. SameCount(c, d) => Counts(d)
    BY Zenon DEF SameCount, EndpointInv, Counts
<1>4. SameInput(c, d) /\ d.repoch = c.repoch => Finisheds(d)
    BY Zenon DEF SameInput, EndpointInv, Finisheds
<1> QED BY <1>1, <1>2, <1>3, <1>4

\* Clearing the sent messages keeps what was to be kept of an endpoint, once its
\* flight is over or in epoch 0.
LEMMA ClearSentType ==
    ASSUME NEW p \in Peers, NEW c \in Conns(p), Layers(c), c.wepoch = 0 \/ c.flight = <<>>
    PROVE  /\ ClearSent(c) \in Conns(p)
           /\ SameInput(c, ClearSent(c)) /\ SamePlace(c, ClearSent(c))
           /\ SameCount(c, ClearSent(c)) /\ Layers(ClearSent(c))
<1> DEFINE X == {m.wrl : m \in {n \in Range(c.sent) : n.type = "CCS" /\ n.wrl # c.wepoch}}
           W == c.wrls \ X
           d == ClearSent(c)
<1>1. W \in SUBSET {0, 1}
    BY DEF Conns
<1>2. W = {c.wepoch}
  <2>0. Range(c.sent) \subseteq SentOf(p)
      BY RangeType DEF Conns
  <2>1. c.wepoch \in {0, 1} /\ c.wepoch \notin X
      BY DEF Conns
  <2>2. CASE c.wepoch = 0
      BY <2>0, <2>1, <2>2 DEF Layers, SentOf
  <2>3. CASE c.wepoch = 1 /\ c.sent = <<>>
      BY <2>3, <2>1 DEF Layers, Range
  <2>4. CASE c.wepoch = 1 /\ c.sent # <<>>
    <3>1. PICK m \in Range(c.sent) : m.type = "CCS"
        BY <2>4 DEF Layers
    <3>2. m.wrl = 0
        BY <2>0, <3>1 DEF SentOf
    <3>3. 0 \in X
        BY <2>4, <3>1, <3>2
    <3> QED BY <1>1, <2>1, <2>4, <3>3 DEF Layers
  <2> QED BY <2>1, <2>2, <2>3, <2>4
<1>3. d = [c EXCEPT !.sent = <<>>, !.wrls = W]
    BY DEF ClearSent
<1> HIDE DEF W, d
<1>4. <<>> \in Seq(SentOf(p)) /\ Range(<<>>) = {}
    BY DEF Range
<1>5. d \in Conns(p)
    BY <1>1, <1>3, <1>4 DEF Conns
<1>6. d.sent = <<>> /\ d.wrls = W /\ d.wepoch = c.wepoch /\ d.flight = c.flight
    BY <1>3, <1>4 DEF Conns
<1>7. Layers(d)
    BY <1>2, <1>4, <1>6 DEF Layers
<1>8. SameInput(c, d) /\ SamePlace(c, d) /\ SameCount(c, d)
    BY <1>3 DEF Conns, SameInput, SamePlace, SameCount
<1> QED BY <1>5, <1>7, <1>8 DEF d

\* Starting the timer changes the timer only.
LEMMA StartTimerType ==
    ASSUME NEW p \in Peers, NEW c \in Conns(p)
    PROVE  /\ StartTimer(c) \in Conns(p)
           /\ SameInput(c, StartTimer(c)) /\ SamePlace(c, StartTimer(c))
           /\ SameCount(c, StartTimer(c)) /\ SameSent(c, StartTimer(c))
<1> DEFINE x == IF c.left = Off THEN 1 ELSE c.dur
           d == [c EXCEPT !.dur = x, !.left = x]
<1>1. x \in 1 .. MaxTimeout /\ x \in {Off} \union 0 .. MaxTimeout
    BY DEF Conns, MaxTimeout
<1>2. StartTimer(c) = d
    BY DEF StartTimer
<1> HIDE DEF x
<1>3. d \in Conns(p)
    BY <1>1 DEF Conns
<1>4. SameInput(c, d) /\ SamePlace(c, d) /\ SameCount(c, d) /\ SameSent(c, d)
    BY DEF Conns, SameInput, SamePlace, SameCount, SameSent
<1> QED BY <1>2, <1>3, <1>4

\* Stopping the timer clears the sent messages and the count of timeouts.
LEMMA StopTimerType ==
    ASSUME NEW p \in Peers, NEW c \in Conns(p), Layers(c), c.wepoch = 0 \/ c.flight = <<>>
    PROVE  /\ StopTimer(c) \in Conns(p)
           /\ SameInput(c, StopTimer(c)) /\ SamePlace(c, StopTimer(c))
           /\ StopTimer(c).failed = c.failed /\ Layers(StopTimer(c))
           /\ StopTimer(c).num = 0
<1> DEFINE d == [c EXCEPT !.num = 0, !.left = Off, !.dur = 1]
<1>0. 0 \in 0 .. TmoAlertCount + 1 /\ Off \in {Off} \union 0 .. MaxTimeout /\ 1 \in 1 .. MaxTimeout
    BY BoundAssumption DEF MaxTimeout
<1>1. d \in Conns(p)
    BY <1>0 DEF Conns
<1>2. /\ SameInput(c, d) /\ SamePlace(c, d) /\ SameSent(c, d)
      /\ d.failed = c.failed /\ d.num = 0
    BY DEF Conns, SameInput, SamePlace, SameSent
<1>3. StopTimer(c) = ClearSent(d)
    BY DEF StopTimer
<1> HIDE DEF d
<1>4. Layers(d)
    BY <1>2, Zenon DEF Layers, SameSent
<1>5. /\ ClearSent(d) \in Conns(p)
      /\ SameInput(d, ClearSent(d)) /\ SamePlace(d, ClearSent(d))
      /\ SameCount(d, ClearSent(d)) /\ Layers(ClearSent(d))
  <2>1. d.wepoch = 0 \/ d.flight = <<>>
    BY <1>2, Zenon DEF SamePlace
  <2> QED BY <1>1, <1>4, <2>1, ClearSentType
<1> QED BY <1>2, <1>3, <1>5, Zenon DEF SameInput, SamePlace, SameCount

\* Counting a timeout fails exactly when it is one too many.
LEMMA CheckTimeoutNumType ==
    ASSUME NEW p \in Peers, NEW c \in Conns(p), c.num <= TmoAlertCount, c.failed = "no"
    PROVE  /\ CheckTimeoutNum(c) \in Conns(p) /\ Counts(CheckTimeoutNum(c))
           /\ SameInput(c, CheckTimeoutNum(c)) /\ SamePlace(c, CheckTimeoutNum(c))
           /\ SameSent(c, CheckTimeoutNum(c))
<1> DEFINE mtu == IF c.num + 1 > 2 THEN FallbackMtu ELSE c.mtu
           d == [c EXCEPT !.num = @ + 1, !.mtu = mtu]
           e == CheckTimeoutNum(c)
<1>1. mtu \in 1 .. Mtu
    BY LengthAssumption DEF Conns
<1>2. c.num \in 0 .. TmoAlertCount /\ TmoAlertCount \in Nat
    BY BoundAssumption DEF Conns
<1>3. e = IF d.num > TmoAlertCount THEN [d EXCEPT !.failed = "timeout"] ELSE d
    BY DEF CheckTimeoutNum, Fail
<1> HIDE DEF mtu, e
<1>4. d \in Conns(p)
  <2>1. c.num + 1 \in 0 .. TmoAlertCount + 1
    BY <1>2
  <2> QED BY <1>1, <2>1 DEF Conns
<1>5. /\ SameInput(c, d) /\ SamePlace(c, d) /\ SameSent(c, d) /\ d.num = c.num + 1
    BY DEF Conns, SameInput, SamePlace, SameSent
<1> HIDE DEF d
<1>6. CASE d.num > TmoAlertCount
  <2>1. e \in Conns(p) /\ Counts(e)
      BY <1>3, <1>4, <1>6 DEF Conns, Counts
  <2>2. SameInput(d, e) /\ SamePlace(d, e) /\ SameSent(d, e)
      BY <1>3, <1>4, <1>6 DEF Conns, SameInput, SamePlace, SameSent
  <2> QED BY <1>5, <2>1, <2>2, Zenon DEF SameInput, SamePlace, SameSent, e
<1>7. CASE ~(d.num > TmoAlertCount)
    BY <1>2, <1>3, <1>4, <1>5, <1>7 DEF Counts, e
<1> QED BY <1>6, <1>7

\* A retransmission sends what the script says again, and moves nothing but
\* record numbers.
LEMMA RetransmittedType ==
    ASSUME mode \in Modes, NEW p \in Peers, NEW c \in Conns(p)
    PROVE  /\ Retransmitted(c) \in Conns(p)
           /\ SameInput(c, Retransmitted(c)) /\ SamePlace(c, Retransmitted(c))
           /\ SameSent(c, Retransmitted(c)) /\ SameCount(c, Retransmitted(c))
           /\ Retransmission(c) \in Seq(RecordsOf(p))
<1>0. c.sent \in Seq(SentOf(p)) /\ c.mtu \in 1 .. Mtu /\ c.wnum \in Nat
    BY DEF Conns
<1>1. \A i \in DOMAIN c.sent : c.sent[i] \in SentOf(p)
    BY <1>0
<1>2. Retransmission(c) \in Seq(RecordsOf(p))
  <2> DEFINE ss == [i \in DOMAIN c.sent |-> Records(c.sent[i], c.mtu, c.wnum)]
  <2>1. \A i \in DOMAIN c.sent : Records(c.sent[i], c.mtu, c.wnum) \in Seq(RecordsOf(p))
      BY <1>0, <1>1, RecordsType
  <2>2. DOMAIN c.sent = 1 .. Len(c.sent) /\ Len(c.sent) \in Nat
      BY <1>0
  <2>3. ss \in Seq(Seq(RecordsOf(p)))
    <3> DEFINE Q == Seq(RecordsOf(p))
               R(i) == Records(c.sent[i], c.mtu, c.wnum)
               n == Len(c.sent)
    <3>1. n \in Nat /\ ss = [i \in 1 .. n |-> R(i)] /\ \A i \in 1 .. n : R(i) \in Q
        BY <2>1, <2>2
    <3> HIDE DEF Q, R, n, ss
    <3>2. ss \in Seq(Q)
        BY <3>1
    <3> QED BY <3>2 DEF Q
  <2> QED BY <2>3, FlattenType DEF Retransmission
<1>3. CASE c.sent = <<>>
    BY <1>2, <1>3 DEF Retransmitted, SameInput, SamePlace, SameSent, SameCount
<1>4. CASE c.sent # <<>>
  <2> DEFINE w == c.wnum + WNum(Last(c.sent), c.mtu)
             d == [c EXCEPT !.wnum = w]
  <2>1. Last(c.sent) \in SentOf(p)
      BY <1>0, <1>4 DEF Last
  <2>2. w \in Nat
    <3>1. WNum(Last(c.sent), c.mtu) \in Nat
        BY <1>0, <2>1, RecordsType, Zenon
    <3> QED BY <1>0, <3>1
  <2>3. Retransmitted(c) = d
      BY <1>4 DEF Retransmitted
  <2> HIDE DEF w
  <2>4. d \in Conns(p)
      BY <2>2 DEF Conns
  <2>5. SameInput(c, d) /\ SamePlace(c, d) /\ SameSent(c, d) /\ SameCount(c, d)
      BY DEF Conns, SameInput, SamePlace, SameSent, SameCount
  <2> QED BY <1>2, <2>3, <2>4, <2>5
<1> QED BY <1>3, <1>4

-----------------------------------------------------------------------------
(* Writing *)

\* Heads and tails of short flights.
LEMMA HeadTail ==
    ASSUME NEW a, NEW b, NEW c, NEW d
    PROVE  /\ Head(<<a>>) = a /\ Tail(<<a>>) = <<>>
           /\ Head(<<a, b>>) = a /\ Tail(<<a, b>>) = <<b>>
           /\ Head(<<a, b, c>>) = a /\ Tail(<<a, b, c>>) = <<b, c>>
           /\ Head(<<a, b, c, d>>) = a /\ Tail(<<a, b, c, d>>) = <<b, c, d>>
  OBVIOUS

\* What the script says of the next message of a flight.
LEMMA FlightMessage ==
    ASSUME mode \in Modes, NEW p \in Peers, NEW c, EndpointInv(p, c), c.flight # <<>>
    PROVE  LET t == Head(c.flight)
           IN  /\ t \in HandshakeTypes \union {"CCS"}
               /\ t = "CCS" => c.wepoch = 0
               /\ t # "CCS" => IsMessage(p, t, c.nextw, c.wepoch, IF t = "FIN" THEN c.hash ELSE <<>>)
<1>1. CASE p = "client"
    BY <1>1, ModeType, HeadTail DEF EndpointInv, Position, ClientPosition, At, HandshakeTypes,
        IsMessage, Sends, NumberOf, FinMac
<1>2. CASE p = "server"
    BY <1>2, ModeType, HeadTail DEF EndpointInv, Position, ServerPosition, At, HandshakeTypes,
        IsMessage, Sends, NumberOf, FinMac
<1> QED BY <1>1, <1>2 DEF Peers

\* Where an endpoint is after the next message of its flight.
Wrote(c, d) ==
    LET t == Head(c.flight)
    IN  /\ d.st = c.st /\ d.repoch = c.repoch /\ d.flight = Tail(c.flight)
        /\ d.hash = HashWritten(c.hash, t) /\ d.wepoch = c.wepoch + IsCcs(t)
        /\ IF c.st = "OK" /\ Tail(c.flight) = <<>>
           THEN d.rseq = 0 /\ d.nextw = 0
           ELSE d.rseq = c.rseq /\ d.nextw = c.nextw + 1 - IsCcs(t)

\* The transcripts of the script, one message after the other.
LEMMA HashSteps ==
    ASSUME mode \in Modes
    PROVE  /\ HServer = Append(HHello, "SH") /\ HCert = Append(HServer, "CERT")
           /\ HDone = Append(HCert, "SHD") /\ HKex = Append(HDone, "CKE")
           /\ mode.hit /\ mode.ticket => HFirst = Append(HServer, "NST")
           /\ mode.hit /\ ~mode.ticket => HFirst = HServer
           /\ ~mode.hit => HFirst = HKex
           /\ mode.hit => HSecond = Append(HFirst, "FIN")
           /\ ~mode.hit /\ mode.ticket => HSecond = Append(Append(HFirst, "FIN"), "NST")
           /\ ~mode.hit /\ ~mode.ticket => HSecond = Append(HFirst, "FIN")
           /\ mode.cookie => HHello = <<"CHc">>
           /\ ~mode.cookie => HHello = <<"CH">>
  BY DEF HServer, HCert, HDone, HKex, HFirst, HSecond, HHello, Hello, WithTicket

\* An endpoint that wrote the next message of its flight is where the script
\* says.
LEMMA WritePosition ==
    ASSUME mode \in Modes, NEW p \in Peers, NEW c, EndpointInv(p, c), c.flight # <<>>,
           NEW d, Wrote(c, d)
    PROVE  Position(p, d)
<1>1. CASE p = "client"
  <2>0. ClientPosition(c)
      BY <1>1 DEF EndpointInv, Position
  <2> SUFFICES ClientPosition(d)
      BY <1>1 DEF Position
  <2>1. CASE c.st = "CW_CLNT_HELLO" /\ At(c, 0, 0, 0, 0) /\ c.flight = <<"CH">>
    <3>1. d.st = "CW_CLNT_HELLO" /\ At(d, 0, 1, 0, 0) /\ d.flight = <<>> /\ d.hash = <<"CH">>
        BY <2>1, ModeType, HeadTail, HashSteps DEF Wrote, At, IsCcs, HashWritten
    <3> QED BY <2>1, <3>1 DEF ClientPosition
  <2>2. CASE c.st = "CW_CLNT_HELLO" /\ mode.cookie /\ At(c, 1, 1, 0, 0) /\ c.flight = <<"CHc">>
    <3>1. d.st = "CW_CLNT_HELLO" /\ At(d, 1, 2, 0, 0) /\ d.flight = <<>> /\ d.hash = <<"CHc">>
        BY <2>2, ModeType, HeadTail, HashSteps DEF Wrote, At, IsCcs, HashWritten
    <3> QED BY <2>2, <3>1 DEF ClientPosition
  <2>3. CASE c.st = "CW_FINISHED" /\ ~mode.hit /\ At(c, K + 3, K + 1, 0, 0)
            /\ c.flight = <<"CKE", "CCS", "FIN">> /\ c.hash = HDone
    <3>1. d.st = "CW_FINISHED" /\ At(d, K + 3, K + 2, 0, 0) /\ d.flight = <<"CCS", "FIN">> /\ d.hash = HFirst
        BY <2>3, ModeType, HeadTail, HashSteps DEF Wrote, At, IsCcs, HashWritten
    <3> QED BY <2>3, <3>1 DEF ClientPosition
  <2>4. CASE c.st = "CW_FINISHED" /\ ~mode.hit /\ At(c, K + 3, K + 2, 0, 0)
            /\ c.flight = <<"CCS", "FIN">> /\ c.hash = HFirst
    <3>1. d.st = "CW_FINISHED" /\ At(d, K + 3, K + 2, 0, 1) /\ d.flight = <<"FIN">> /\ d.hash = HFirst
        BY <2>4, ModeType, HeadTail, HashSteps DEF Wrote, At, IsCcs, HashWritten
    <3> QED BY <2>4, <3>1 DEF ClientPosition
  <2>5. CASE c.st = "CW_FINISHED" /\ ~mode.hit /\ At(c, K + 3, K + 2, 0, 1)
            /\ c.flight = <<"FIN">> /\ c.hash = HFirst
    <3>1. d.st = "CW_FINISHED" /\ At(d, K + 3, K + 3, 0, 1) /\ d.flight = <<>> /\ d.hash = Append(HFirst, "FIN")
        BY <2>5, ModeType, HeadTail, HashSteps DEF Wrote, At, IsCcs, HashWritten
    <3> QED BY <2>5, <3>1 DEF ClientPosition
  <2>6. CASE c.st = "OK" /\ mode.hit /\ c.hash = HSecond /\ At(c, K + 2 + T, K + 1, 1, 0)
            /\ c.flight = <<"CCS", "FIN">>
    <3>1. d.st = "OK" /\ d.hash = HSecond /\ At(d, K + 2 + T, K + 1, 1, 1) /\ d.flight = <<"FIN">>
        BY <2>6, ModeType, HeadTail, HashSteps DEF Wrote, At, IsCcs, HashWritten
    <3> QED BY <2>6, <3>1 DEF ClientPosition
  <2>7. CASE c.st = "OK" /\ mode.hit /\ c.hash = HSecond /\ At(c, K + 2 + T, K + 1, 1, 1)
            /\ c.flight = <<"FIN">>
    <3>1. d.st = "OK" /\ At(d, 0, 0, 1, 1) /\ d.flight = <<>>
        BY <2>7, ModeType, HeadTail, HashSteps DEF Wrote, At, IsCcs, HashWritten
    <3> QED BY <2>7, <3>1 DEF ClientPosition
  <2> QED BY <2>0, <2>1, <2>2, <2>3, <2>4, <2>5, <2>6, <2>7, ModeType DEF ClientPosition
<1>2. CASE p = "server"
  <2>0. ServerPosition(c)
      BY <1>2 DEF EndpointInv, Position
  <2> SUFFICES ServerPosition(d)
      BY <1>2 DEF Position
  <2>1. CASE c.st = "SW_HELLO_VERIFY_REQUEST" /\ mode.cookie /\ At(c, 1, 0, 0, 0) /\ c.flight = <<"HVR">>
    <3>1. d.st = "SW_HELLO_VERIFY_REQUEST" /\ At(d, 1, 1, 0, 0) /\ d.flight = <<>> /\ d.hash = <<>>
        BY <2>1, ModeType, HeadTail, HashSteps DEF Wrote, At, IsCcs, HashWritten
    <3> QED BY <2>1, <3>1 DEF ServerPosition
  <2>2. CASE c.st = "SW_SRVR_DONE" /\ ~mode.hit /\ At(c, K + 1, K, 0, 0)
            /\ c.flight = <<"SH", "CERT", "SHD">> /\ c.hash = HHello
    <3>1. d.st = "SW_SRVR_DONE" /\ At(d, K + 1, K + 1, 0, 0) /\ d.flight = <<"CERT", "SHD">> /\ d.hash = HServer
        BY <2>2, ModeType, HeadTail, HashSteps DEF Wrote, At, IsCcs, HashWritten
    <3> QED BY <2>2, <3>1 DEF ServerPosition
  <2>3. CASE c.st = "SW_SRVR_DONE" /\ ~mode.hit /\ At(c, K + 1, K + 1, 0, 0)
            /\ c.flight = <<"CERT", "SHD">> /\ c.hash = HServer
    <3>1. d.st = "SW_SRVR_DONE" /\ At(d, K + 1, K + 2, 0, 0) /\ d.flight = <<"SHD">> /\ d.hash = HCert
        BY <2>3, ModeType, HeadTail, HashSteps DEF Wrote, At, IsCcs, HashWritten
    <3> QED BY <2>3, <3>1 DEF ServerPosition
  <2>4. CASE c.st = "SW_SRVR_DONE" /\ ~mode.hit /\ At(c, K + 1, K + 2, 0, 0)
            /\ c.flight = <<"SHD">> /\ c.hash = HCert
    <3>1. d.st = "SW_SRVR_DONE" /\ At(d, K + 1, K + 3, 0, 0) /\ d.flight = <<>> /\ d.hash = HDone
        BY <2>4, ModeType, HeadTail, HashSteps DEF Wrote, At, IsCcs, HashWritten
    <3> QED BY <2>4, <3>1 DEF ServerPosition
  <2>5. CASE c.st = "SW_FINISHED" /\ mode.hit /\ mode.ticket /\ At(c, K + 1, K, 0, 0)
            /\ c.flight = <<"SH", "NST", "CCS", "FIN">> /\ c.hash = HHello
    <3>1. d.st = "SW_FINISHED" /\ At(d, K + 1, K + 1, 0, 0) /\ d.flight = <<"NST", "CCS", "FIN">> /\ d.hash = HServer
        BY <2>5, ModeType, HeadTail, HashSteps DEF Wrote, At, IsCcs, HashWritten
    <3> QED BY <2>5, <3>1 DEF ServerPosition
  <2>6. CASE c.st = "SW_FINISHED" /\ mode.hit /\ ~mode.ticket /\ At(c, K + 1, K, 0, 0)
            /\ c.flight = <<"SH", "CCS", "FIN">> /\ c.hash = HHello
    <3>1. d.st = "SW_FINISHED" /\ At(d, K + 1, K + 1 + T, 0, 0) /\ d.flight = <<"CCS", "FIN">> /\ d.hash = HFirst
        BY <2>6, ModeType, HeadTail, HashSteps DEF Wrote, At, IsCcs, HashWritten
    <3> QED BY <2>6, <3>1 DEF ServerPosition
  <2>7. CASE c.st = "SW_FINISHED" /\ mode.hit /\ mode.ticket /\ At(c, K + 1, K + 1, 0, 0)
            /\ c.flight = <<"NST", "CCS", "FIN">> /\ c.hash = HServer
    <3>1. d.st = "SW_FINISHED" /\ At(d, K + 1, K + 1 + T, 0, 0) /\ d.flight = <<"CCS", "FIN">> /\ d.hash = HFirst
        BY <2>7, ModeType, HeadTail, HashSteps DEF Wrote, At, IsCcs, HashWritten
    <3> QED BY <2>7, <3>1 DEF ServerPosition
  <2>8. CASE c.st = "SW_FINISHED" /\ mode.hit /\ At(c, K + 1, K + 1 + T, 0, 0)
            /\ c.flight = <<"CCS", "FIN">> /\ c.hash = HFirst
    <3>1. d.st = "SW_FINISHED" /\ At(d, K + 1, K + 1 + T, 0, 1) /\ d.flight = <<"FIN">> /\ d.hash = HFirst
        BY <2>8, ModeType, HeadTail, HashSteps DEF Wrote, At, IsCcs, HashWritten
    <3> QED BY <2>8, <3>1 DEF ServerPosition
  <2>9. CASE c.st = "SW_FINISHED" /\ mode.hit /\ At(c, K + 1, K + 1 + T, 0, 1)
            /\ c.flight = <<"FIN">> /\ c.hash = HFirst
    <3>1. d.st = "SW_FINISHED" /\ At(d, K + 1, K + 2 + T, 0, 1) /\ d.flight = <<>> /\ d.hash = HSecond
        BY <2>9, ModeType, HeadTail, HashSteps DEF Wrote, At, IsCcs, HashWritten
    <3> QED BY <2>9, <3>1 DEF ServerPosition
  <2>10. CASE c.st = "OK" /\ ~mode.hit /\ mode.ticket /\ At(c, K + 3, K + 3, 1, 0)
            /\ c.flight = <<"NST", "CCS", "FIN">> /\ c.hash = Append(HFirst, "FIN")
    <3>1. d.st = "OK" /\ At(d, K + 3, K + 3 + T, 1, 0) /\ d.flight = <<"CCS", "FIN">> /\ d.hash = HSecond
        BY <2>10, ModeType, HeadTail, HashSteps DEF Wrote, At, IsCcs, HashWritten
    <3> QED BY <2>10, <3>1 DEF ServerPosition
  <2>11. CASE c.st = "OK" /\ ~mode.hit /\ At(c, K + 3, K + 3 + T, 1, 0)
            /\ c.flight = <<"CCS", "FIN">> /\ c.hash = HSecond
    <3>1. d.st = "OK" /\ At(d, K + 3, K + 3 + T, 1, 1) /\ d.flight = <<"FIN">> /\ d.hash = HSecond
        BY <2>11, ModeType, HeadTail, HashSteps DEF Wrote, At, IsCcs, HashWritten
    <3> QED BY <2>11, <3>1 DEF ServerPosition
  <2>12. CASE c.st = "OK" /\ ~mode.hit /\ At(c, K + 3, K + 3 + T, 1, 1)
            /\ c.flight = <<"FIN">> /\ c.hash = HSecond
    <3>1. d.st = "OK" /\ At(d, 0, 0, 1, 1) /\ d.flight = <<>>
        BY <2>12, ModeType, HeadTail, HashSteps DEF Wrote, At, IsCcs, HashWritten
    <3> QED BY <2>12, <3>1 DEF ServerPosition
  <2> QED BY <2>0, <2>1, <2>2, <2>3, <2>4, <2>5, <2>6, <2>7, <2>8, <2>9, <2>10, <2>11, <2>12, ModeType DEF ServerPosition
<1> QED BY <1>1, <1>2 DEF Peers

\* The next message of a flight is the one of the script for its number, in its
\* epoch.
LEMMA NextMessageType ==
    ASSUME mode \in Modes, NEW p \in Peers, NEW c, EndpointInv(p, c), c.flight # <<>>
    PROVE  LET m == NextMessage(c)
               t == Head(c.flight)
           IN  /\ m \in SentOf(p) /\ m.type = t /\ m.wrl = c.wepoch
               /\ t = "CCS" => c.wepoch = 0
               /\ t \in HandshakeTypes \union {"CCS"}
<1> DEFINE t == Head(c.flight)
           mac == IF t = "FIN" THEN c.hash ELSE <<>>
           prio == dtls1_get_queue_priority(c.nextw, IsCcs(t))
           m == NextMessage(c)
<1>1. /\ t \in HandshakeTypes \union {"CCS"}
      /\ t = "CCS" => c.wepoch = 0
      /\ t # "CCS" => IsMessage(p, t, c.nextw, c.wepoch, mac)
    BY FlightMessage
<1>2. m = [prio |-> prio, type |-> t, seq |-> c.nextw, wrl |-> c.wepoch, mac |-> mac]
    BY DEF NextMessage
<1>3. c.nextw \in Nat /\ c.wepoch \in {0, 1} /\ c.hash \in Hashes
    BY DEF EndpointInv, Conns
<1>4. <<>> \in Hashes
    BY DEF Hashes
<1>5. mac \in Hashes
    BY <1>3, <1>4
<1>6. prio \in Int
    BY <1>3 DEF dtls1_get_queue_priority, IsCcs
<1> HIDE DEF t, mac, prio, m
<1>7. m \in SentOf(p) /\ m.type = t /\ m.wrl = c.wepoch
    BY <1>1, <1>2, <1>3, <1>5, <1>6 DEF SentOf, prio
<1> QED BY <1>1, <1>7 DEF m, t

\* One message written: EndpointInv holds after it.
LEMMA WriteMessageStep ==
    ASSUME mode \in Modes, NEW p \in Peers, NEW c, EndpointInv(p, c), c.flight # <<>>
    PROVE  /\ EndpointInv(p, WriteMessage(p, c, NextMessage(c)))
           /\ Records(NextMessage(c), c.mtu, c.wnum) \in Seq(RecordsOf(p))
<1> DEFINE m == NextMessage(c)
           t == Head(c.flight)
           nextw == c.nextw + 1 - IsCcs(t)
           wnum == c.wnum + WNum(m, c.mtu)
           sent == dtls1_buffer_message(c, m)
           hash == HashWritten(c.hash, t)
           c1 == [c EXCEPT !.flight = Tail(@), !.nextw = nextw, !.wnum = wnum,
                           !.sent = sent, !.hash = hash]
           c2 == IF UseTimer(p, t) THEN StartTimer(c1) ELSE c1
           c3 == IF t = "HVR" THEN ClearSent(c2) ELSE c2
           c4 == IF t = "CCS" THEN NewWriteLayer(c3) ELSE c3
           d == FinishHandshake(c4)
<1>0. c \in Conns(p) /\ Counts(c) /\ Layers(c) /\ Finisheds(c) /\ Position(p, c)
    BY DEF EndpointInv
<1>1. /\ m \in SentOf(p) /\ m.type = t /\ m.wrl = c.wepoch
      /\ t = "CCS" => c.wepoch = 0
      /\ t \in HandshakeTypes \union {"CCS"}
    BY NextMessageType
<1>2. WriteMessage(p, c, m) = d
  <2> HIDE DEF m
  <2>1. m.type = t
    BY <1>1
  <2> QED BY <2>1, Zenon DEF WriteMessage
<1>3. /\ Records(m, c.mtu, c.wnum) \in Seq(RecordsOf(p)) /\ WNum(m, c.mtu) \in Nat
  <2>1. c.mtu \in 1 .. Mtu /\ c.wnum \in Nat
    BY <1>0 DEF Conns
  <2> HIDE DEF m
  <2> QED BY <1>1, <2>1, RecordsType
<1> HIDE DEF m
<1>4. nextw \in Nat /\ wnum \in Nat
  <2>1. c.nextw \in Nat /\ c.wnum \in Nat
    BY <1>0 DEF Conns
  <2>2. IsCcs(t) \in {0, 1}
    BY DEF IsCcs
  <2> QED BY <1>3, <2>1, <2>2
<1>5. hash \in Hashes
  <2>1. c.hash \in Hashes
    BY <1>0 DEF Conns
  <2>2. t \in HandshakeTypes => Append(c.hash, t) \in Hashes /\ <<t>> \in Hashes
    BY <2>1, AppendHash DEF Hashes
  <2>3. <<>> \in Hashes
    BY DEF Hashes
  <2>4. {"CH", "CHc"} \subseteq HandshakeTypes
    BY DEF HandshakeTypes
  <2> QED BY <1>1, <2>1, <2>2, <2>3, <2>4 DEF HashWritten
<1>6. Tail(c.flight) \in Seq(AllTypes)
  <2>1. c.flight \in Seq(AllTypes)
    BY <1>0 DEF Conns
  <2> QED BY <2>1
<1>7. sent \in Seq(SentOf(p)) /\ (sent = c.sent \/ Range(sent) = Range(c.sent) \union {m})
      /\ (t = "CCS" => Range(sent) = Range(c.sent) \union {m})
  <2>1. c.sent \in Seq(SentOf(p))
    BY <1>0 DEF Conns
  <2>2. CASE t = "HVR"
    BY <1>1, <2>1, <2>2 DEF dtls1_buffer_message
  <2>3. CASE t # "HVR"
    <3>1. sent = pqueue_insert(c.sent, m)
      BY <1>1, <2>3 DEF dtls1_buffer_message
    <3>2. ASSUME t = "CCS" PROVE \A i \in DOMAIN c.sent : c.sent[i].prio # m.prio
      <4> TAKE i \in DOMAIN c.sent
      <4>1. c.sent[i] \in Range(c.sent) /\ c.sent[i] \in SentOf(p)
        BY <2>1 DEF Range
      <4>2. c.sent[i].type # "CCS"
        BY <1>0, <1>1, <3>2, <4>1 DEF Layers
      <4>3. c.sent[i].prio = c.sent[i].seq * 2 /\ c.sent[i].seq \in Nat
        BY <4>1, <4>2 DEF SentOf, dtls1_get_queue_priority, IsCcs
      <4>4. m.prio = m.seq * 2 - 1 /\ m.seq \in Nat
        BY <1>1, <3>2 DEF SentOf, dtls1_get_queue_priority, IsCcs
      <4> QED BY <4>3, <4>4
    <3>3. /\ pqueue_insert(c.sent, m) \in Seq(SentOf(p))
          /\ pqueue_insert(c.sent, m) = c.sent
                \/ Range(pqueue_insert(c.sent, m)) = Range(c.sent) \union {m}
          /\ (\A i \in DOMAIN c.sent : c.sent[i].prio # m.prio)
                => Range(pqueue_insert(c.sent, m)) = Range(c.sent) \union {m}
      <4> DEFINE q == c.sent
                 S == SentOf(p)
      <4>1. q \in Seq(S) /\ m \in S
        BY <1>1, <2>1
      <4> HIDE DEF q, S
      <4>2. /\ pqueue_insert(q, m) \in Seq(S)
            /\ pqueue_insert(q, m) = q \/ Range(pqueue_insert(q, m)) = Range(q) \union {m}
            /\ (\A i \in DOMAIN q : q[i].prio # m.prio)
                  => Range(pqueue_insert(q, m)) = Range(q) \union {m}
        BY <4>1, PqueueInsert
      <4> QED BY <4>2 DEF q, S
    <3> QED BY <3>1, <3>2, <3>3
  <2> QED BY <2>2, <2>3
<1> HIDE DEF t, nextw, wnum, sent, hash
<1>8. /\ c1 \in Conns(p) /\ SameInput(c, c1) /\ SameCount(c, c1)
      /\ c1.st = c.st /\ c1.rseq = c.rseq /\ c1.repoch = c.repoch /\ c1.wepoch = c.wepoch
      /\ c1.wrls = c.wrls /\ c1.sent = sent /\ c1.hash = hash /\ c1.nextw = nextw
      /\ c1.flight = Tail(c.flight)
  <2>1. c1 \in Conns(p)
    BY <1>0, <1>4, <1>5, <1>6, <1>7 DEF Conns
  <2>2. SameInput(c, c1) /\ SameCount(c, c1)
    BY <1>0 DEF Conns, SameInput, SameCount
  <2> QED BY <1>0, <2>1, <2>2 DEF Conns
<1> HIDE DEF c1
<1>9. c2 \in Conns(p) /\ SameInput(c1, c2) /\ SamePlace(c1, c2) /\ SameCount(c1, c2) /\ SameSent(c1, c2)
  <2>1. CASE UseTimer(p, t)
    BY <1>8, <2>1, StartTimerType
  <2>2. CASE ~UseTimer(p, t)
    BY <1>8, <2>2 DEF SameInput, SamePlace, SameCount, SameSent
  <2> QED BY <2>1, <2>2
<1> HIDE DEF c2
<1>10. t # "CCS" => Layers(c2)
  <2>1. c2.wepoch = c.wepoch /\ c2.wrls = c.wrls /\ c2.sent = sent /\ c.wepoch \in {0, 1}
    BY <1>0, <1>8, <1>9 DEF SameSent, Conns
  <2>2. CASE sent = c.sent
    BY <1>0, <2>1, <2>2 DEF Layers
  <2>3. CASE t # "CCS" /\ Range(sent) = Range(c.sent) \union {m}
    <3>1. c2.wrls = {c2.wepoch} \union {x.wrl : x \in Range(c2.sent)}
      BY <1>0, <1>1, <2>1, <2>3 DEF Layers
    <3>2. \A x \in Range(c2.sent) : x.wrl <= c2.wepoch /\ (x.type = "CCS" => c2.wepoch = 1)
      BY <1>0, <1>1, <2>1, <2>3 DEF Layers
    <3>3. c.wepoch = 1 => \E x \in Range(c2.sent) : x.type = "CCS"
      BY <1>0, <2>1, <2>3 DEF Layers
    <3> QED BY <2>1, <3>1, <3>2, <3>3 DEF Layers
  <2> QED BY <1>7, <2>2, <2>3
<1>11. /\ c3 \in Conns(p) /\ SameInput(c2, c3) /\ SamePlace(c2, c3) /\ SameCount(c2, c3)
       /\ t # "CCS" => Layers(c3)
       /\ t = "CCS" => c3 = c2
  <2>1. CASE t = "HVR"
    <3>1. c2.wepoch = 0
      <4>1. c.wepoch = 0
        BY <2>1, FlightMessage DEF IsMessage, t
      <4> QED BY <1>8, <1>9, <4>1 DEF SameSent
    <3> QED BY <1>9, <1>10, <2>1, <3>1, ClearSentType
  <2>2. CASE t # "HVR"
    BY <1>9, <1>10, <2>2 DEF SameInput, SamePlace, SameCount
  <2> QED BY <2>1, <2>2
<1> HIDE DEF c3
<1>12. /\ c4 \in Conns(p) /\ SameInput(c3, c4) /\ SameCount(c3, c4) /\ Layers(c4)
       /\ c4.st = c3.st /\ c4.rseq = c3.rseq /\ c4.nextw = c3.nextw /\ c4.flight = c3.flight
       /\ c4.hash = c3.hash /\ c4.repoch = c3.repoch /\ c4.wepoch = c3.wepoch + IsCcs(t)
  <2>1. CASE t # "CCS"
    <3>1. c4 = c3 /\ IsCcs(t) = 0 /\ c3.wepoch \in {0, 1}
      BY <1>11, <2>1 DEF IsCcs, Conns
    <3> HIDE DEF c4
    <3> QED BY <1>11, <2>1, <3>1 DEF SameInput, SameCount
  <2>2. CASE t = "CCS"
    <3> DEFINE W == (IF c3.sent = <<>> THEN c3.wrls \ {c3.wepoch} ELSE c3.wrls)
                        \union {c3.wepoch + 1}
    <3>1. c4 = [c3 EXCEPT !.wepoch = c3.wepoch + 1, !.wrls = W]
      BY <1>11, <2>2 DEF NewWriteLayer, Conns
    <3>2. /\ c3.sent = sent /\ c3.wepoch = 0 /\ c3.wrls = c.wrls /\ c.wepoch = 0
          /\ Range(sent) = Range(c.sent) \union {m} /\ IsCcs(t) = 1
      BY <1>1, <1>7, <1>8, <1>9, <1>11, <2>2 DEF SameSent, IsCcs
    <3>3. c.wrls = {0} /\ \A x \in Range(c.sent) : x.wrl = 0
      <4>1. Range(c.sent) \subseteq SentOf(p)
        BY <1>0, RangeType DEF Conns
      <4>2. \A x \in Range(c.sent) : x.wrl \in {0, 1} /\ x.wrl <= 0
        BY <1>0, <3>2, <4>1 DEF SentOf, Layers
      <4> QED BY <1>0, <3>2, <4>2 DEF Layers
    <3>4. sent # <<>>
      BY <3>2 DEF Range
    <3>5. W = {0, 1}
      BY <3>2, <3>3, <3>4
    <3> HIDE DEF W, c4
    <3>6. c4 \in Conns(p)
      <4>1. c3.wepoch + 1 = 1
        BY <3>2
      <4>2. c4 = [c3 EXCEPT !.wepoch = 1, !.wrls = {0, 1}]
        BY <3>1, <3>5, <4>1
      <4> QED BY <1>11, <4>2 DEF Conns
    <3>7. /\ SameInput(c3, c4) /\ SameCount(c3, c4)
      BY <1>11, <3>1 DEF Conns, SameInput, SameCount
    <3>8. /\ c4.st = c3.st /\ c4.rseq = c3.rseq /\ c4.nextw = c3.nextw /\ c4.flight = c3.flight
          /\ c4.hash = c3.hash /\ c4.repoch = c3.repoch /\ c4.wepoch = c3.wepoch + 1
          /\ c4.sent = c3.sent /\ c4.wrls = W
      BY <1>11, <3>1 DEF Conns
    <3>9. Layers(c4)
      <4>1. c4.wepoch = 1 /\ c4.wrls = {0, 1} /\ Range(c4.sent) = Range(c.sent) \union {m}
        BY <3>2, <3>5, <3>8
      <4>2. m.wrl = 0 /\ m.type = "CCS"
        BY <1>1, <2>2, <3>2
      <4>3. \A x \in Range(c4.sent) : x.wrl = 0
        BY <3>3, <4>1, <4>2
      <4>4. {x.wrl : x \in Range(c4.sent)} = {0}
        BY <4>1, <4>2, <4>3
      <4> QED BY <4>1, <4>2, <4>3, <4>4 DEF Layers
    <3> QED BY <3>2, <3>6, <3>7, <3>8, <3>9
  <2> QED BY <2>1, <2>2
<1> HIDE DEF c4
<1>13. /\ c4.st = c.st /\ c4.rseq = c.rseq /\ c4.nextw = nextw /\ c4.flight = Tail(c.flight)
       /\ c4.hash = hash /\ c4.repoch = c.repoch /\ c4.wepoch = c.wepoch + IsCcs(t)
       /\ SameInput(c, c4) /\ SameCount(c, c4)
    BY <1>8, <1>9, <1>11, <1>12, Zenon DEF SamePlace, SameInput, SameCount
<1>14. d \in Conns(p) /\ Wrote(c, d) /\ Counts(d) /\ Layers(d) /\ Finisheds(d)
  <2>1. CASE c4.st = "OK" /\ c4.flight = <<>>
    <3>1. d = [c4 EXCEPT !.rseq = 0, !.nextw = 0, !.rbuf = {}]
      BY <2>1 DEF FinishHandshake
    <3> HIDE DEF d
    <3>2. d \in Conns(p)
      BY <1>12, <3>1 DEF Conns
    <3>3. /\ d.rseq = 0 /\ d.nextw = 0 /\ d.rbuf = {} /\ d.st = c4.st /\ d.repoch = c4.repoch
          /\ d.flight = c4.flight /\ d.hash = c4.hash /\ SameSent(c4, d) /\ SameCount(c4, d)
      BY <1>12, <3>1 DEF Conns, SameSent, SameCount
    <3>4. Wrote(c, d)
      BY <1>13, <2>1, <3>3 DEF Wrote, SameSent, t, nextw, hash
    <3>5. Counts(d)
      BY <1>0, <1>13, <3>3, Zenon DEF Counts, SameCount
    <3>6. Layers(d)
      BY <1>12, <3>3, Zenon DEF Layers, SameSent
    <3>7. Finisheds(d)
      BY <3>3 DEF Finisheds
    <3> QED BY <3>2, <3>4, <3>5, <3>6, <3>7
  <2>2. CASE ~(c4.st = "OK" /\ c4.flight = <<>>)
    <3>1. d = c4
      BY <2>2 DEF FinishHandshake
    <3> HIDE DEF d
    <3>4. Wrote(c, d)
      BY <1>13, <2>2, <3>1 DEF Wrote, t, nextw, hash
    <3>5. Counts(d)
      BY <1>0, <1>13, <3>1, Zenon DEF Counts, SameCount
    <3>7. Finisheds(d)
      BY <1>0, <1>13, <3>1, Zenon DEF Finisheds, SameInput
    <3> QED BY <1>12, <3>1, <3>4, <3>5, <3>7
  <2> QED BY <2>1, <2>2
<1> HIDE DEF d
<1>15. Position(p, d)
    BY <1>14, WritePosition
<1>16. EndpointInv(p, d)
    BY <1>14, <1>15 DEF EndpointInv
<1> QED BY <1>2, <1>3, <1>16 DEF m

-----------------------------------------------------------------------------
(* Reading *)

\* A short sequence is known from its elements.
LEMMA Spelled ==
    ASSUME NEW S, NEW z \in Seq(S), NEW a, NEW b, NEW c, NEW d
    PROVE  /\ Len(z) = 2 /\ z[1] = a /\ z[2] = b => z = <<a, b>>
           /\ Len(z) = 3 /\ z[1] = a /\ z[2] = b /\ z[3] = c => z = <<a, b, c>>
           /\ Len(z) = 4 /\ z[1] = a /\ z[2] = b /\ z[3] = c /\ z[4] = d => z = <<a, b, c, d>>
  OBVIOUS

\* The elements of a concatenation.
LEMMA Concats ==
    ASSUME NEW S, NEW x \in Seq(S), NEW y \in Seq(S)
    PROVE  /\ x \o y \in Seq(S) /\ Len(x \o y) = Len(x) + Len(y)
           /\ \A i \in 1 .. Len(x) : (x \o y)[i] = x[i]
           /\ \A i \in 1 .. Len(y) : (x \o y)[i + Len(x)] = y[i]
  OBVIOUS

\* Concatenations of short flights.
LEMMA Joined ==
    ASSUME NEW a, NEW b, NEW c
    PROVE  /\ <<>> \o <<a, b>> = <<a, b>>
           /\ <<a>> \o <<>> = <<a>>
           /\ <<a>> \o <<b>> = <<a, b>>
           /\ <<a>> \o <<b, c>> = <<a, b, c>>
<1> DEFINE S == {a, b, c}
<1>1. <<>> \o <<a, b>> = <<a, b>> /\ <<a>> \o <<>> = <<a>>
    OBVIOUS
<1>2. ASSUME NEW x \in Seq(S), NEW y \in Seq(S), Len(x) = 1, Len(y) = 1, x[1] = a, y[1] = b
      PROVE  x \o y = <<a, b>>
  <2> DEFINE z == x \o y
  <2> HIDE DEF S
  <2>1. z \in Seq(S) /\ Len(z) = 2 /\ z[1] = a /\ z[2] = b
    <3>1. 1 \in 1 .. Len(x) /\ 1 \in 1 .. Len(y)
        BY <1>2
    <3>2. z[1] = x[1] /\ z[1 + Len(x)] = y[1] /\ z \in Seq(S) /\ Len(z) = Len(x) + Len(y)
        BY <3>1, Concats
    <3> HIDE DEF z
    <3> QED BY <1>2, <3>2
  <2> HIDE DEF z
  <2>2. z = <<a, b>>
    BY <2>1, Spelled
  <2> QED BY <2>2 DEF z
<1>3. ASSUME NEW x \in Seq(S), NEW y \in Seq(S), Len(x) = 1, Len(y) = 2,
             x[1] = a, y[1] = b, y[2] = c
      PROVE  x \o y = <<a, b, c>>
  <2> DEFINE z == x \o y
  <2> HIDE DEF S
  <2>1. z \in Seq(S) /\ Len(z) = 3 /\ z[1] = a /\ z[2] = b /\ z[3] = c
    <3>1. 1 \in 1 .. Len(x) /\ 1 \in 1 .. Len(y) /\ 2 \in 1 .. Len(y)
        BY <1>3
    <3>2. /\ z[1] = x[1] /\ z[1 + Len(x)] = y[1] /\ z[2 + Len(x)] = y[2]
          /\ z \in Seq(S) /\ Len(z) = Len(x) + Len(y)
        BY <3>1, Concats
    <3> HIDE DEF z
    <3> QED BY <1>3, <3>2
  <2> HIDE DEF z
  <2>2. z = <<a, b, c>>
    BY <2>1, Spelled
  <2> QED BY <2>2 DEF z
<1>5. /\ <<a>> \in Seq(S) /\ Len(<<a>>) = 1 /\ <<a>>[1] = a
      /\ <<b>> \in Seq(S) /\ Len(<<b>>) = 1 /\ <<b>>[1] = b
    OBVIOUS
<1>6. /\ <<a, b>> \in Seq(S) /\ Len(<<a, b>>) = 2 /\ <<a, b>>[1] = a /\ <<a, b>>[2] = b
      /\ <<b, c>> \in Seq(S) /\ Len(<<b, c>>) = 2 /\ <<b, c>>[1] = b /\ <<b, c>>[2] = c
    OBVIOUS
<1> HIDE DEF S
<1>7. <<a>> \o <<b>> = <<a, b>>
    BY <1>2, <1>5, Zenon
<1>8. <<a>> \o <<b, c>> = <<a, b, c>>
    BY <1>3, <1>5, <1>6, Zenon
<1> QED BY <1>1, <1>7, <1>8

\* The longest of them.
LEMMA JoinedFour ==
    ASSUME NEW a, NEW b, NEW c, NEW d
    PROVE  <<a, b>> \o <<c, d>> = <<a, b, c, d>>
<1> DEFINE S == {a, b, c, d}
<1>1. ASSUME NEW x \in Seq(S), NEW y \in Seq(S), Len(x) = 2, Len(y) = 2,
             x[1] = a, x[2] = b, y[1] = c, y[2] = d
      PROVE  x \o y = <<a, b, c, d>>
  <2> DEFINE z == x \o y
  <2> HIDE DEF S
  <2>1. z \in Seq(S) /\ Len(z) = 4 /\ z[1] = a /\ z[2] = b /\ z[3] = c /\ z[4] = d
    <3>1. 1 \in 1 .. Len(x) /\ 2 \in 1 .. Len(x) /\ 1 \in 1 .. Len(y) /\ 2 \in 1 .. Len(y)
        BY <1>1
    <3>2. /\ z[1] = x[1] /\ z[2] = x[2] /\ z[1 + Len(x)] = y[1] /\ z[2 + Len(x)] = y[2]
          /\ z \in Seq(S) /\ Len(z) = Len(x) + Len(y)
        BY <3>1, Concats
    <3> HIDE DEF z
    <3> QED BY <1>1, <3>2
  <2> HIDE DEF z
  <2>2. z = <<a, b, c, d>>
    BY <2>1, Spelled
  <2> QED BY <2>2 DEF z
<1>2. /\ <<a, b>> \in Seq(S) /\ Len(<<a, b>>) = 2 /\ <<a, b>>[1] = a /\ <<a, b>>[2] = b
      /\ <<c, d>> \in Seq(S) /\ Len(<<c, d>>) = 2 /\ <<c, d>>[1] = c /\ <<c, d>>[2] = d
    OBVIOUS
<1> HIDE DEF S
<1> QED BY <1>1, <1>2, Zenon

\* A pair is not the empty sequence.
LEMMA PairNotEmpty ==
    ASSUME NEW a, NEW b
    PROVE  <<a, b>> # <<>>
  OBVIOUS

\* Flights that depend on whether there is a ticket.
LEMMA TicketFlights ==
    ASSUME mode \in Modes
    PROVE  /\ mode.ticket => /\ Ticket \o <<"CCS", "FIN">> = <<"NST", "CCS", "FIN">>
                            /\ <<"SH">> \o Ticket \o <<"CCS", "FIN">> = <<"SH", "NST", "CCS", "FIN">>
           /\ ~mode.ticket => /\ Ticket \o <<"CCS", "FIN">> = <<"CCS", "FIN">>
                             /\ <<"SH">> \o Ticket \o <<"CCS", "FIN">> = <<"SH", "CCS", "FIN">>
<1>1. CASE mode.ticket
  <2>1. Ticket = <<"NST">>
      BY <1>1 DEF Ticket
  <2>2. <<"NST">> \o <<"CCS", "FIN">> = <<"NST", "CCS", "FIN">>
      BY Joined, Zenon
  <2>3. <<"SH">> \o <<"NST">> = <<"SH", "NST">>
      BY Joined, Zenon
  <2>4. <<"SH", "NST">> \o <<"CCS", "FIN">> = <<"SH", "NST", "CCS", "FIN">>
      BY JoinedFour, Zenon
  <2> QED BY <1>1, <2>1, <2>2, <2>3, <2>4, Zenon
<1>2. CASE ~mode.ticket
  <2>1. Ticket = <<>>
      BY <1>2 DEF Ticket
  <2>2. <<>> \o <<"CCS", "FIN">> = <<"CCS", "FIN">>
      OBVIOUS
  <2>3. <<"SH">> \o <<>> = <<"SH">>
      BY Joined, Zenon
  <2>4. <<"SH">> \o <<"CCS", "FIN">> = <<"SH", "CCS", "FIN">>
      BY Joined, Zenon
  <2> QED BY <1>2, <2>1, <2>2, <2>3, <2>4, Zenon
<1> QED BY <1>1, <1>2

\* A transcript of one message.
LEMMA OneHash ==
    ASSUME NEW t
    PROVE  Append(<<>>, t) = <<t>>
  OBVIOUS

\* Where an endpoint is after it has processed message t.
Processed(p, c, t, d) ==
    LET st == ReadTransition(p, c.st, t)
        wt == WriteTransition(p, st, t)
    IN  /\ d.repoch = c.repoch /\ d.wepoch = c.wepoch /\ d.hash = Append(c.hash, t)
        /\ IF st \in EndsFlight
           THEN /\ d.st = wt.st /\ d.flight = wt.flight
                /\ IF wt.st = "OK" /\ wt.flight = <<>>
                   THEN d.rseq = 0 /\ d.nextw = 0
                   ELSE d.rseq = c.rseq + 1 /\ d.nextw = c.nextw
           ELSE d.st = st /\ d.flight = c.flight /\ d.rseq = c.rseq + 1 /\ d.nextw = c.nextw

\* The message with the number an endpoint waits for, in the epoch it reads, is
\* the one its state takes, and a Finished fits what it has hashed.
LEMMA ReadPosition ==
    ASSUME mode \in Modes, NEW p \in Peers, NEW c, EndpointInv(p, c), Reading(c), c.st # "OK",
           NEW t \in HandshakeTypes, Sends(Other(p), t), NumberOf(Other(p), t) = c.rseq,
           t = "FIN" => c.repoch = 1
    PROVE  /\ ReadTransition(p, c.st, t) # "bad"
           /\ t = "FIN" => c.hash = FinMac(Other(p))
           /\ c.wepoch = 1 => WriteTransition(p, ReadTransition(p, c.st, t), t).flight = <<>>
           /\ \A d : Processed(p, c, t, d) => Position(p, d)
<1>1. CASE p = "client"
  <2>0. /\ ClientPosition(c) /\ Other(p) = "server" /\ c.flight = <<>> /\ c.st # "BEFORE"
        /\ \A d : Position(p, d) <=> ClientPosition(d)
      BY <1>1 DEF EndpointInv, Position, Other, Reading
  <2>1. CASE c.st = "CW_CLNT_HELLO" /\ ~mode.cookie /\ At(c, 0, 1, 0, 0) /\ c.hash = <<"CH">>
    <3>1. t = "SH"
        BY <2>0, <2>1, ModeType DEF Sends, NumberOf, HandshakeTypes, At
    <3>2. ReadTransition(p, c.st, t) = "CR_SRVR_HELLO"
        BY <1>1, <2>1, <3>1, ModeType DEF ReadTransition, ClientReadTransition
    <3>3. WriteTransition(p, "CR_SRVR_HELLO", t).flight = <<>>
        BY <1>1, <2>1, <3>1 DEF WriteTransition, ClientWriteTransition
    <3>4. ASSUME NEW d, Processed(p, c, t, d) PROVE Position(p, d)
      <4>1. /\ d.st = "CR_SRVR_HELLO" /\ d.flight = <<>> /\ d.rseq = 0 + 1 /\ d.nextw = 1
                 /\ d.repoch = 0 /\ d.wepoch = 0 /\ d.hash = Append(c.hash, "SH")
        BY <2>0, <2>1, <3>1, <3>2, <3>3, <3>4 DEF Processed, EndsFlight, At
      <4>2. c.hash = HHello
        BY <2>1, HashSteps, OneHash
      <4>4. d.hash = HServer
        BY <4>1, <4>2, HashSteps, Zenon
      <4>3. d.st = "CR_SRVR_HELLO" /\ At(d, K + 1, K + 1, 0, 0) /\ d.flight = <<>>
        BY <2>1, <3>1, <4>1, <4>2, ModeType, HashSteps DEF At
      <4> QED BY <2>0, <2>1, <3>1, <4>3, <4>4 DEF ClientPosition
    <3> QED BY <2>0, <2>1, <3>1, <3>2, <3>3, <3>4, ModeType DEF FinMac, At
  <2>2. CASE c.st = "CW_CLNT_HELLO" /\ mode.cookie /\ At(c, 0, 1, 0, 0)
    <3>1. t = "HVR"
        BY <2>0, <2>2, ModeType DEF Sends, NumberOf, HandshakeTypes, At
    <3>2. ReadTransition(p, c.st, t) = "CR_HELLO_VERIFY_REQUEST"
        BY <1>1, <2>2, <3>1, ModeType DEF ReadTransition, ClientReadTransition
    <3>3. WriteTransition(p, "CR_HELLO_VERIFY_REQUEST", t) = [st |-> "CW_CLNT_HELLO",
            flight |-> <<"CHc">>]
        BY <1>1, <2>2, <3>1, ModeType, TicketFlights DEF WriteTransition, ClientWriteTransition
    <3>4. ASSUME NEW d, Processed(p, c, t, d) PROVE Position(p, d)
      <4>1. /\ d.st = "CW_CLNT_HELLO" /\ d.flight = <<"CHc">> /\ d.rseq = 0 + 1 /\ d.nextw = 1
                 /\ d.repoch = 0 /\ d.wepoch = 0 /\ d.hash = Append(c.hash, "HVR")
        BY <2>0, <2>2, <3>1, <3>2, <3>3, <3>4 DEF Processed, EndsFlight, At
      <4>3. d.st = "CW_CLNT_HELLO" /\ At(d, 1, 1, 0, 0) /\ d.flight = <<"CHc">>
        BY <2>2, <3>1, <4>1, ModeType, HashSteps DEF At
      <4> QED BY <2>0, <2>2, <3>1, <4>3 DEF ClientPosition
    <3> QED BY <2>0, <2>2, <3>1, <3>2, <3>3, <3>4, ModeType DEF FinMac, At
  <2>3. CASE c.st = "CW_CLNT_HELLO" /\ mode.cookie /\ At(c, 1, 2, 0, 0) /\ c.hash = <<"CHc">>
    <3>1. t = "SH"
        BY <2>0, <2>3, ModeType DEF Sends, NumberOf, HandshakeTypes, At
    <3>2. ReadTransition(p, c.st, t) = "CR_SRVR_HELLO"
        BY <1>1, <2>3, <3>1, ModeType DEF ReadTransition, ClientReadTransition
    <3>3. WriteTransition(p, "CR_SRVR_HELLO", t).flight = <<>>
        BY <1>1, <2>3, <3>1 DEF WriteTransition, ClientWriteTransition
    <3>4. ASSUME NEW d, Processed(p, c, t, d) PROVE Position(p, d)
      <4>1. /\ d.st = "CR_SRVR_HELLO" /\ d.flight = <<>> /\ d.rseq = 1 + 1 /\ d.nextw = 2
                 /\ d.repoch = 0 /\ d.wepoch = 0 /\ d.hash = Append(c.hash, "SH")
        BY <2>0, <2>3, <3>1, <3>2, <3>3, <3>4 DEF Processed, EndsFlight, At
      <4>2. c.hash = HHello
        BY <2>3, HashSteps, OneHash
      <4>4. d.hash = HServer
        BY <4>1, <4>2, HashSteps, Zenon
      <4>3. d.st = "CR_SRVR_HELLO" /\ At(d, K + 1, K + 1, 0, 0) /\ d.flight = <<>>
        BY <2>3, <3>1, <4>1, <4>2, ModeType, HashSteps DEF At
      <4> QED BY <2>0, <2>3, <3>1, <4>3, <4>4 DEF ClientPosition
    <3> QED BY <2>0, <2>3, <3>1, <3>2, <3>3, <3>4, ModeType DEF FinMac, At
  <2>4. CASE c.st = "CR_SRVR_HELLO" /\ ~mode.hit /\ At(c, K + 1, K + 1, 0, 0) /\ c.hash = HServer
    <3>1. t = "CERT"
        BY <2>0, <2>4, ModeType DEF Sends, NumberOf, HandshakeTypes, At
    <3>2. ReadTransition(p, c.st, t) = "CR_CERT"
        BY <1>1, <2>4, <3>1, ModeType DEF ReadTransition, ClientReadTransition
    <3>3. WriteTransition(p, "CR_CERT", t).flight = <<>>
        BY <1>1, <2>4, <3>1 DEF WriteTransition, ClientWriteTransition
    <3>4. ASSUME NEW d, Processed(p, c, t, d) PROVE Position(p, d)
      <4>1. /\ d.st = "CR_CERT" /\ d.flight = <<>> /\ d.rseq = K + 1 + 1 /\ d.nextw = K + 1
                 /\ d.repoch = 0 /\ d.wepoch = 0 /\ d.hash = Append(c.hash, "CERT")
        BY <2>0, <2>4, <3>1, <3>2, <3>3, <3>4 DEF Processed, EndsFlight, At
      <4>3. d.st = "CR_CERT" /\ At(d, K + 2, K + 1, 0, 0) /\ d.flight = <<>> /\ d.hash = HCert
        BY <2>4, <3>1, <4>1, ModeType, HashSteps DEF At
      <4> QED BY <2>0, <2>4, <3>1, <4>3 DEF ClientPosition
    <3> QED BY <2>0, <2>4, <3>1, <3>2, <3>3, <3>4, ModeType DEF FinMac, At
  <2>5. CASE c.st = "CR_SRVR_HELLO" /\ mode.hit /\ At(c, K + 1, K + 1, 0, 0) /\ c.hash = HServer
    <3>1. t = "NST" /\ mode.ticket
        BY <2>0, <2>5, ModeType DEF Sends, NumberOf, HandshakeTypes, At
    <3>2. ReadTransition(p, c.st, t) = "CR_SESSION_TICKET"
        BY <1>1, <2>5, <3>1, ModeType DEF ReadTransition, ClientReadTransition
    <3>3. WriteTransition(p, "CR_SESSION_TICKET", t).flight = <<>>
        BY <1>1, <2>5, <3>1 DEF WriteTransition, ClientWriteTransition
    <3>4. ASSUME NEW d, Processed(p, c, t, d) PROVE Position(p, d)
      <4>1. /\ d.st = "CR_SESSION_TICKET" /\ d.flight = <<>> /\ d.rseq = K + 1 + 1 /\ d.nextw = K + 1
                 /\ d.repoch = 0 /\ d.wepoch = 0 /\ d.hash = Append(c.hash, "NST")
        BY <2>0, <2>5, <3>1, <3>2, <3>3, <3>4 DEF Processed, EndsFlight, At
      <4>3. d.st = "CR_SESSION_TICKET" /\ mode.ticket /\ At(d, K + 2, K + 1, 0, 0) /\ d.flight = <<>> /\ d.hash = HFirst
        BY <2>5, <3>1, <4>1, ModeType, HashSteps DEF At
      <4> QED BY <2>0, <2>5, <3>1, <4>3 DEF ClientPosition
    <3> QED BY <2>0, <2>5, <3>1, <3>2, <3>3, <3>4, ModeType DEF FinMac, At
  <2>6. CASE c.st = "CR_CERT" /\ ~mode.hit /\ At(c, K + 2, K + 1, 0, 0) /\ c.hash = HCert
    <3>1. t = "SHD"
        BY <2>0, <2>6, ModeType DEF Sends, NumberOf, HandshakeTypes, At
    <3>2. ReadTransition(p, c.st, t) = "CR_SRVR_DONE"
        BY <1>1, <2>6, <3>1, ModeType DEF ReadTransition, ClientReadTransition
    <3>3. WriteTransition(p, "CR_SRVR_DONE", t) = [st |-> "CW_FINISHED",
            flight |-> <<"CKE", "CCS", "FIN">>]
        BY <1>1, <2>6, <3>1, ModeType, TicketFlights DEF WriteTransition, ClientWriteTransition
    <3>4. ASSUME NEW d, Processed(p, c, t, d) PROVE Position(p, d)
      <4>1. /\ d.st = "CW_FINISHED" /\ d.flight = <<"CKE", "CCS", "FIN">> /\ d.rseq = K + 2 + 1 /\ d.nextw = K + 1
                 /\ d.repoch = 0 /\ d.wepoch = 0 /\ d.hash = Append(c.hash, "SHD")
        BY <2>0, <2>6, <3>1, <3>2, <3>3, <3>4 DEF Processed, EndsFlight, At
      <4>3. d.st = "CW_FINISHED" /\ At(d, K + 3, K + 1, 0, 0) /\ d.flight = <<"CKE", "CCS", "FIN">> /\ d.hash = HDone
        BY <2>6, <3>1, <4>1, ModeType, HashSteps DEF At
      <4> QED BY <2>0, <2>6, <3>1, <4>3 DEF ClientPosition
    <3> QED BY <2>0, <2>6, <3>1, <3>2, <3>3, <3>4, ModeType DEF FinMac, At
  <2>7. CASE c.st = "CW_FINISHED" /\ ~mode.hit /\ At(c, K + 3, K + 3, 0, 1) /\ c.hash = Append(HFirst, "FIN")
    <3>1. t = "NST" /\ mode.ticket
        BY <2>0, <2>7, ModeType DEF Sends, NumberOf, HandshakeTypes, At
    <3>2. ReadTransition(p, c.st, t) = "CR_SESSION_TICKET"
        BY <1>1, <2>7, <3>1, ModeType DEF ReadTransition, ClientReadTransition
    <3>3. WriteTransition(p, "CR_SESSION_TICKET", t).flight = <<>>
        BY <1>1, <2>7, <3>1 DEF WriteTransition, ClientWriteTransition
    <3>4. ASSUME NEW d, Processed(p, c, t, d) PROVE Position(p, d)
      <4>1. /\ d.st = "CR_SESSION_TICKET" /\ d.flight = <<>> /\ d.rseq = K + 3 + 1 /\ d.nextw = K + 3
                 /\ d.repoch = 0 /\ d.wepoch = 1 /\ d.hash = Append(c.hash, "NST")
        BY <2>0, <2>7, <3>1, <3>2, <3>3, <3>4 DEF Processed, EndsFlight, At
      <4>3. d.st = "CR_SESSION_TICKET" /\ mode.ticket /\ At(d, K + 4, K + 3, 0, 1) /\ d.flight = <<>> /\ d.hash = HSecond
        BY <2>7, <3>1, <4>1, ModeType, HashSteps DEF At
      <4> QED BY <2>0, <2>7, <3>1, <4>3 DEF ClientPosition
    <3> QED BY <2>0, <2>7, <3>1, <3>2, <3>3, <3>4, ModeType DEF FinMac, At
  <2>8. CASE c.st = "CR_CHANGE" /\ mode.hit /\ At(c, K + 1 + T, K + 1, 1, 0) /\ c.hash = HFirst
    <3>1. t = "FIN"
        BY <2>0, <2>8, ModeType DEF Sends, NumberOf, HandshakeTypes, At
    <3>2. ReadTransition(p, c.st, t) = "CR_FINISHED"
        BY <1>1, <2>8, <3>1, ModeType DEF ReadTransition, ClientReadTransition
    <3>3. WriteTransition(p, "CR_FINISHED", t) = [st |-> "OK",
            flight |-> <<"CCS", "FIN">>]
        BY <1>1, <2>8, <3>1, ModeType, TicketFlights DEF WriteTransition, ClientWriteTransition
    <3>5. /\ WriteTransition(p, "CR_FINISHED", t).st = "OK"
          /\ WriteTransition(p, "CR_FINISHED", t).flight = <<"CCS", "FIN">>
        BY <3>3
    <3>6. WriteTransition(p, "CR_FINISHED", t).flight # <<>>
      <4>1. <<"CCS", "FIN">> # <<>>
        OBVIOUS
      <4> QED BY <3>5, <4>1, Zenon
    <3>4. ASSUME NEW d, Processed(p, c, t, d) PROVE Position(p, d)
      <4>1. /\ d.st = "OK" /\ d.flight = <<"CCS", "FIN">> /\ d.rseq = K + 1 + T + 1 /\ d.nextw = K + 1
                 /\ d.repoch = 1 /\ d.wepoch = 0 /\ d.hash = Append(c.hash, "FIN")
        BY <2>0, <2>8, <3>1, <3>2, <3>5, <3>6, <3>4 DEF Processed, EndsFlight, At
      <4>3. d.st = "OK" /\ d.hash = HSecond /\ At(d, K + 2 + T, K + 1, 1, 0) /\ d.flight = <<"CCS", "FIN">>
        BY <2>8, <3>1, <4>1, ModeType, HashSteps DEF At
      <4> QED BY <2>0, <2>8, <3>1, <4>3 DEF ClientPosition
    <3> QED BY <2>0, <2>8, <3>1, <3>2, <3>5, <3>6, <3>4, ModeType DEF FinMac, At
  <2>9. CASE c.st = "CR_CHANGE" /\ ~mode.hit /\ At(c, K + 3 + T, K + 3, 1, 1) /\ c.hash = HSecond
    <3>1. t = "FIN"
        BY <2>0, <2>9, ModeType DEF Sends, NumberOf, HandshakeTypes, At
    <3>2. ReadTransition(p, c.st, t) = "CR_FINISHED"
        BY <1>1, <2>9, <3>1, ModeType DEF ReadTransition, ClientReadTransition
    <3>3. WriteTransition(p, "CR_FINISHED", t) = [st |-> "OK",
            flight |-> <<>>]
        BY <1>1, <2>9, <3>1, ModeType, TicketFlights DEF WriteTransition, ClientWriteTransition
    <3>4. ASSUME NEW d, Processed(p, c, t, d) PROVE Position(p, d)
      <4>1. /\ d.st = "OK" /\ d.flight = <<>> /\ d.rseq = 0 /\ d.nextw = 0
                 /\ d.repoch = 1 /\ d.wepoch = 1 /\ d.hash = Append(c.hash, "FIN")
        BY <2>0, <2>9, <3>1, <3>2, <3>3, <3>4 DEF Processed, EndsFlight, At
      <4>3. d.st = "OK" /\ At(d, 0, 0, 1, 1) /\ d.flight = <<>>
        BY <2>9, <3>1, <4>1, ModeType, HashSteps DEF At
      <4> QED BY <2>0, <2>9, <3>1, <4>3 DEF ClientPosition
    <3> QED BY <2>0, <2>9, <3>1, <3>2, <3>3, <3>4, ModeType DEF FinMac, At
  <2>10. CASE c.st \in {"CR_SESSION_TICKET"} \/ (c.st \in {"CW_FINISHED", "CR_SRVR_HELLO"} /\ ~mode.ticket /\ (c.st = "CR_SRVR_HELLO" => mode.hit))
    <3>1. FALSE
        BY <2>0, <2>10, ModeType DEF ClientPosition, Sends, NumberOf, HandshakeTypes, At
    <3> QED BY <3>1
  <2> QED BY <2>0, <2>1, <2>2, <2>3, <2>4, <2>5, <2>6, <2>7, <2>8, <2>9, <2>10, ModeType DEF ClientPosition, At
<1>2. CASE p = "server"
  <2>0. /\ ServerPosition(c) /\ Other(p) = "client" /\ c.flight = <<>> /\ c.st # "BEFORE"
        /\ \A d : Position(p, d) <=> ServerPosition(d)
      BY <1>2 DEF EndpointInv, Position, Other, Reading
  <2>1. CASE c.st \in {"LISTEN", "SW_HELLO_VERIFY_REQUEST"} /\ mode.cookie /\ At(c, 0, 0, 0, 0) /\ c.hash = <<>>
    <3>1. t = "CH"
        BY <2>0, <2>1, ModeType DEF Sends, NumberOf, HandshakeTypes, At
    <3>2. ReadTransition(p, c.st, t) = "SR_CLNT_HELLO"
        BY <1>2, <2>1, <3>1, ModeType DEF ReadTransition, ServerReadTransition
    <3>3. WriteTransition(p, "SR_CLNT_HELLO", t) = [st |-> "SW_HELLO_VERIFY_REQUEST",
            flight |-> <<"HVR">>]
        BY <1>2, <2>1, <3>1, ModeType, TicketFlights DEF WriteTransition, ServerWriteTransition
    <3>4. ASSUME NEW d, Processed(p, c, t, d) PROVE Position(p, d)
      <4>1. /\ d.st = "SW_HELLO_VERIFY_REQUEST" /\ d.flight = <<"HVR">> /\ d.rseq = 0 + 1 /\ d.nextw = 0
                 /\ d.repoch = 0 /\ d.wepoch = 0 /\ d.hash = Append(c.hash, "CH")
        BY <2>0, <2>1, <3>1, <3>2, <3>3, <3>4 DEF Processed, EndsFlight, At
      <4>3. d.st = "SW_HELLO_VERIFY_REQUEST" /\ At(d, 1, 0, 0, 0) /\ d.flight = <<"HVR">>
        BY <2>1, <3>1, <4>1, ModeType, HashSteps DEF At
      <4> QED BY <2>0, <2>1, <3>1, <4>3 DEF ServerPosition
    <3> QED BY <2>0, <2>1, <3>1, <3>2, <3>3, <3>4, ModeType DEF FinMac, At
  <2>2. CASE c.st = "LISTEN" /\ ~mode.cookie /\ ~mode.hit /\ At(c, 0, 0, 0, 0) /\ c.hash = <<>>
    <3>1. t = "CH"
        BY <2>0, <2>2, ModeType DEF Sends, NumberOf, HandshakeTypes, At
    <3>2. ReadTransition(p, c.st, t) = "SR_CLNT_HELLO"
        BY <1>2, <2>2, <3>1, ModeType DEF ReadTransition, ServerReadTransition
    <3>3. WriteTransition(p, "SR_CLNT_HELLO", t) = [st |-> "SW_SRVR_DONE",
            flight |-> <<"SH", "CERT", "SHD">>]
        BY <1>2, <2>2, <3>1, ModeType, TicketFlights DEF WriteTransition, ServerWriteTransition
    <3>4. ASSUME NEW d, Processed(p, c, t, d) PROVE Position(p, d)
      <4>1. /\ d.st = "SW_SRVR_DONE" /\ d.flight = <<"SH", "CERT", "SHD">> /\ d.rseq = 0 + 1 /\ d.nextw = 0
                 /\ d.repoch = 0 /\ d.wepoch = 0 /\ d.hash = Append(c.hash, "CH")
        BY <2>0, <2>2, <3>1, <3>2, <3>3, <3>4 DEF Processed, EndsFlight, At
      <4>2. Append(c.hash, "CH") = HHello
        BY <2>2, HashSteps, OneHash
      <4>3. d.st = "SW_SRVR_DONE" /\ At(d, K + 1, K, 0, 0) /\ d.flight = <<"SH", "CERT", "SHD">> /\ d.hash = HHello
        BY <2>2, <3>1, <4>1, <4>2, ModeType, HashSteps DEF At
      <4> QED BY <2>0, <2>2, <3>1, <4>3 DEF ServerPosition
    <3> QED BY <2>0, <2>2, <3>1, <3>2, <3>3, <3>4, ModeType DEF FinMac, At
  <2>3. CASE c.st = "LISTEN" /\ ~mode.cookie /\ mode.hit /\ At(c, 0, 0, 0, 0) /\ c.hash = <<>>
    <3>1. t = "CH"
        BY <2>0, <2>3, ModeType DEF Sends, NumberOf, HandshakeTypes, At
    <3>2. ReadTransition(p, c.st, t) = "SR_CLNT_HELLO"
        BY <1>2, <2>3, <3>1, ModeType DEF ReadTransition, ServerReadTransition
    <3>3. WriteTransition(p, "SR_CLNT_HELLO", t) = [st |-> "SW_FINISHED",
            flight |-> IF mode.ticket THEN <<"SH", "NST", "CCS", "FIN">> ELSE <<"SH", "CCS", "FIN">>]
        BY <1>2, <2>3, <3>1, ModeType, TicketFlights DEF WriteTransition, ServerWriteTransition
    <3>4. ASSUME NEW d, Processed(p, c, t, d) PROVE Position(p, d)
      <4>1. /\ d.st = "SW_FINISHED" /\ d.flight = (IF mode.ticket THEN <<"SH", "NST", "CCS", "FIN">> ELSE <<"SH", "CCS", "FIN">>) /\ d.rseq = 0 + 1 /\ d.nextw = 0
                 /\ d.repoch = 0 /\ d.wepoch = 0 /\ d.hash = Append(c.hash, "CH")
        BY <2>0, <2>3, <3>1, <3>2, <3>3, <3>4 DEF Processed, EndsFlight, At
      <4>2. Append(c.hash, "CH") = HHello
        BY <2>3, HashSteps, OneHash
      <4>3. d.st = "SW_FINISHED" /\ At(d, K + 1, K, 0, 0) /\ d.flight = (IF mode.ticket THEN <<"SH", "NST", "CCS", "FIN">> ELSE <<"SH", "CCS", "FIN">>) /\ d.hash = HHello
        BY <2>3, <3>1, <4>1, <4>2, ModeType, HashSteps DEF At
      <4> QED BY <2>0, <2>3, <3>1, <4>3 DEF ServerPosition
    <3> QED BY <2>0, <2>3, <3>1, <3>2, <3>3, <3>4, ModeType DEF FinMac, At
  <2>4. CASE c.st = "SW_HELLO_VERIFY_REQUEST" /\ mode.cookie /\ ~mode.hit /\ At(c, 1, 1, 0, 0) /\ c.hash = <<>>
    <3>1. t = "CHc"
        BY <2>0, <2>4, ModeType DEF Sends, NumberOf, HandshakeTypes, At
    <3>2. ReadTransition(p, c.st, t) = "SR_CLNT_HELLO"
        BY <1>2, <2>4, <3>1, ModeType DEF ReadTransition, ServerReadTransition
    <3>3. WriteTransition(p, "SR_CLNT_HELLO", t) = [st |-> "SW_SRVR_DONE",
            flight |-> <<"SH", "CERT", "SHD">>]
        BY <1>2, <2>4, <3>1, ModeType, TicketFlights DEF WriteTransition, ServerWriteTransition
    <3>4. ASSUME NEW d, Processed(p, c, t, d) PROVE Position(p, d)
      <4>1. /\ d.st = "SW_SRVR_DONE" /\ d.flight = <<"SH", "CERT", "SHD">> /\ d.rseq = 1 + 1 /\ d.nextw = 1
                 /\ d.repoch = 0 /\ d.wepoch = 0 /\ d.hash = Append(c.hash, "CHc")
        BY <2>0, <2>4, <3>1, <3>2, <3>3, <3>4 DEF Processed, EndsFlight, At
      <4>2. Append(c.hash, "CHc") = HHello
        BY <2>4, HashSteps, OneHash
      <4>3. d.st = "SW_SRVR_DONE" /\ At(d, K + 1, K, 0, 0) /\ d.flight = <<"SH", "CERT", "SHD">> /\ d.hash = HHello
        BY <2>4, <3>1, <4>1, <4>2, ModeType, HashSteps DEF At
      <4> QED BY <2>0, <2>4, <3>1, <4>3 DEF ServerPosition
    <3> QED BY <2>0, <2>4, <3>1, <3>2, <3>3, <3>4, ModeType DEF FinMac, At
  <2>5. CASE c.st = "SW_HELLO_VERIFY_REQUEST" /\ mode.cookie /\ mode.hit /\ At(c, 1, 1, 0, 0) /\ c.hash = <<>>
    <3>1. t = "CHc"
        BY <2>0, <2>5, ModeType DEF Sends, NumberOf, HandshakeTypes, At
    <3>2. ReadTransition(p, c.st, t) = "SR_CLNT_HELLO"
        BY <1>2, <2>5, <3>1, ModeType DEF ReadTransition, ServerReadTransition
    <3>3. WriteTransition(p, "SR_CLNT_HELLO", t) = [st |-> "SW_FINISHED",
            flight |-> IF mode.ticket THEN <<"SH", "NST", "CCS", "FIN">> ELSE <<"SH", "CCS", "FIN">>]
        BY <1>2, <2>5, <3>1, ModeType, TicketFlights DEF WriteTransition, ServerWriteTransition
    <3>4. ASSUME NEW d, Processed(p, c, t, d) PROVE Position(p, d)
      <4>1. /\ d.st = "SW_FINISHED" /\ d.flight = (IF mode.ticket THEN <<"SH", "NST", "CCS", "FIN">> ELSE <<"SH", "CCS", "FIN">>) /\ d.rseq = 1 + 1 /\ d.nextw = 1
                 /\ d.repoch = 0 /\ d.wepoch = 0 /\ d.hash = Append(c.hash, "CHc")
        BY <2>0, <2>5, <3>1, <3>2, <3>3, <3>4 DEF Processed, EndsFlight, At
      <4>2. Append(c.hash, "CHc") = HHello
        BY <2>5, HashSteps, OneHash
      <4>3. d.st = "SW_FINISHED" /\ At(d, K + 1, K, 0, 0) /\ d.flight = (IF mode.ticket THEN <<"SH", "NST", "CCS", "FIN">> ELSE <<"SH", "CCS", "FIN">>) /\ d.hash = HHello
        BY <2>5, <3>1, <4>1, <4>2, ModeType, HashSteps DEF At
      <4> QED BY <2>0, <2>5, <3>1, <4>3 DEF ServerPosition
    <3> QED BY <2>0, <2>5, <3>1, <3>2, <3>3, <3>4, ModeType DEF FinMac, At
  <2>6. CASE c.st = "SW_SRVR_DONE" /\ ~mode.hit /\ At(c, K + 1, K + 3, 0, 0) /\ c.hash = HDone
    <3>1. t = "CKE"
        BY <2>0, <2>6, ModeType DEF Sends, NumberOf, HandshakeTypes, At
    <3>2. ReadTransition(p, c.st, t) = "SR_KEY_EXCH"
        BY <1>2, <2>6, <3>1, ModeType DEF ReadTransition, ServerReadTransition
    <3>3. WriteTransition(p, "SR_KEY_EXCH", t).flight = <<>>
        BY <1>2, <2>6, <3>1 DEF WriteTransition, ServerWriteTransition
    <3>4. ASSUME NEW d, Processed(p, c, t, d) PROVE Position(p, d)
      <4>1. /\ d.st = "SR_KEY_EXCH" /\ d.flight = <<>> /\ d.rseq = K + 1 + 1 /\ d.nextw = K + 3
                 /\ d.repoch = 0 /\ d.wepoch = 0 /\ d.hash = Append(c.hash, "CKE")
        BY <2>0, <2>6, <3>1, <3>2, <3>3, <3>4 DEF Processed, EndsFlight, At
      <4>3. d.st = "SR_KEY_EXCH" /\ At(d, K + 2, K + 3, 0, 0) /\ d.flight = <<>> /\ d.hash = HFirst
        BY <2>6, <3>1, <4>1, ModeType, HashSteps DEF At
      <4> QED BY <2>0, <2>6, <3>1, <4>3 DEF ServerPosition
    <3> QED BY <2>0, <2>6, <3>1, <3>2, <3>3, <3>4, ModeType DEF FinMac, At
  <2>7. CASE c.st = "SR_CHANGE" /\ mode.hit /\ At(c, K + 1, K + 2 + T, 1, 1) /\ c.hash = HSecond
    <3>1. t = "FIN"
        BY <2>0, <2>7, ModeType DEF Sends, NumberOf, HandshakeTypes, At
    <3>2. ReadTransition(p, c.st, t) = "SR_FINISHED"
        BY <1>2, <2>7, <3>1, ModeType DEF ReadTransition, ServerReadTransition
    <3>3. WriteTransition(p, "SR_FINISHED", t) = [st |-> "OK",
            flight |-> <<>>]
        BY <1>2, <2>7, <3>1, ModeType, TicketFlights DEF WriteTransition, ServerWriteTransition
    <3>4. ASSUME NEW d, Processed(p, c, t, d) PROVE Position(p, d)
      <4>1. /\ d.st = "OK" /\ d.flight = <<>> /\ d.rseq = 0 /\ d.nextw = 0
                 /\ d.repoch = 1 /\ d.wepoch = 1 /\ d.hash = Append(c.hash, "FIN")
        BY <2>0, <2>7, <3>1, <3>2, <3>3, <3>4 DEF Processed, EndsFlight, At
      <4>3. d.st = "OK" /\ At(d, 0, 0, 1, 1) /\ d.flight = <<>>
        BY <2>7, <3>1, <4>1, ModeType, HashSteps DEF At
      <4> QED BY <2>0, <2>7, <3>1, <4>3 DEF ServerPosition
    <3> QED BY <2>0, <2>7, <3>1, <3>2, <3>3, <3>4, ModeType DEF FinMac, At
  <2>8. CASE c.st = "SR_CHANGE" /\ ~mode.hit /\ mode.ticket /\ At(c, K + 2, K + 3, 1, 0) /\ c.hash = HFirst
    <3>1. t = "FIN"
        BY <2>0, <2>8, ModeType DEF Sends, NumberOf, HandshakeTypes, At
    <3>2. ReadTransition(p, c.st, t) = "SR_FINISHED"
        BY <1>2, <2>8, <3>1, ModeType DEF ReadTransition, ServerReadTransition
    <3>3. WriteTransition(p, "SR_FINISHED", t) = [st |-> "OK",
            flight |-> <<"NST", "CCS", "FIN">>]
        BY <1>2, <2>8, <3>1, ModeType, TicketFlights DEF WriteTransition, ServerWriteTransition
    <3>5. /\ WriteTransition(p, "SR_FINISHED", t).st = "OK"
          /\ WriteTransition(p, "SR_FINISHED", t).flight = <<"NST", "CCS", "FIN">>
        BY <3>3
    <3>6. WriteTransition(p, "SR_FINISHED", t).flight # <<>>
        BY <3>5
    <3>4. ASSUME NEW d, Processed(p, c, t, d) PROVE Position(p, d)
      <4>1. /\ d.st = "OK" /\ d.flight = <<"NST", "CCS", "FIN">> /\ d.rseq = K + 2 + 1 /\ d.nextw = K + 3
                 /\ d.repoch = 1 /\ d.wepoch = 0 /\ d.hash = Append(c.hash, "FIN")
        BY <2>0, <2>8, <3>1, <3>2, <3>5, <3>6, <3>4 DEF Processed, EndsFlight, At
      <4>3. d.st = "OK" /\ At(d, K + 3, K + 3, 1, 0) /\ d.flight = <<"NST", "CCS", "FIN">> /\ d.hash = Append(HFirst, "FIN")
        BY <2>8, <3>1, <4>1, ModeType, HashSteps DEF At
      <4> QED BY <2>0, <2>8, <3>1, <4>3 DEF ServerPosition
    <3> QED BY <2>0, <2>8, <3>1, <3>2, <3>5, <3>6, <3>4, ModeType DEF FinMac, At
  <2>9. CASE c.st = "SR_CHANGE" /\ ~mode.hit /\ ~mode.ticket /\ At(c, K + 2, K + 3, 1, 0) /\ c.hash = HFirst
    <3>1. t = "FIN"
        BY <2>0, <2>9, ModeType DEF Sends, NumberOf, HandshakeTypes, At
    <3>2. ReadTransition(p, c.st, t) = "SR_FINISHED"
        BY <1>2, <2>9, <3>1, ModeType DEF ReadTransition, ServerReadTransition
    <3>3. WriteTransition(p, "SR_FINISHED", t) = [st |-> "OK",
            flight |-> <<"CCS", "FIN">>]
        BY <1>2, <2>9, <3>1, ModeType, TicketFlights DEF WriteTransition, ServerWriteTransition
    <3>5. /\ WriteTransition(p, "SR_FINISHED", t).st = "OK"
          /\ WriteTransition(p, "SR_FINISHED", t).flight = <<"CCS", "FIN">>
        BY <3>3
    <3>6. WriteTransition(p, "SR_FINISHED", t).flight # <<>>
        BY <3>5, PairNotEmpty, Zenon
    <3>4. ASSUME NEW d, Processed(p, c, t, d) PROVE Position(p, d)
      <4>1. /\ d.st = "OK" /\ d.flight = <<"CCS", "FIN">> /\ d.rseq = K + 2 + 1 /\ d.nextw = K + 3
                 /\ d.repoch = 1 /\ d.wepoch = 0 /\ d.hash = Append(c.hash, "FIN")
        BY <2>0, <2>9, <3>1, <3>2, <3>5, <3>6, <3>4 DEF Processed, EndsFlight, At
      <4>3. d.st = "OK" /\ At(d, K + 3, K + 3 + T, 1, 0) /\ d.flight = <<"CCS", "FIN">> /\ d.hash = HSecond
        BY <2>9, <3>1, <4>1, ModeType, HashSteps DEF At
      <4> QED BY <2>0, <2>9, <3>1, <4>3 DEF ServerPosition
    <3> QED BY <2>0, <2>9, <3>1, <3>2, <3>5, <3>6, <3>4, ModeType DEF FinMac, At
  <2>10. CASE c.st \in {"SR_KEY_EXCH", "SW_FINISHED"}
    <3>1. FALSE
        BY <2>0, <2>10, ModeType DEF ServerPosition, Sends, NumberOf, HandshakeTypes, At
    <3> QED BY <3>1
  <2> QED BY <2>0, <2>1, <2>2, <2>3, <2>4, <2>5, <2>6, <2>7, <2>8, <2>9, <2>10, ModeType DEF ServerPosition, At
<1> QED BY <1>1, <1>2 DEF Peers

\* A position has a state and a flight of the right types.
LEMMA PositionType ==
    ASSUME mode \in Modes, NEW p \in Peers, NEW d, Position(p, d)
    PROVE  d.st \in States /\ d.flight \in Seq(AllTypes)
<1>0. {"CH", "CHc", "HVR", "SH", "CERT", "SHD", "CKE", "NST", "FIN", "CCS"} \subseteq AllTypes
    BY DEF AllTypes, HandshakeTypes
<1>1. d.st \in States
  <2>1. CASE p = "client"
    BY <2>1 DEF Position, ClientPosition, States
  <2>2. CASE p = "server"
    BY <2>2 DEF Position, ServerPosition, States
  <2> QED BY <2>1, <2>2 DEF Peers
<1>2. d.flight \in Seq(AllTypes)
  <2> DEFINE A == AllTypes
  <2>1. {<<>>, <<"CH">>, <<"CHc">>, <<"HVR">>, <<"SHD">>, <<"FIN">>, <<"CCS", "FIN">>,
         <<"CERT", "SHD">>, <<"CKE", "CCS", "FIN">>, <<"SH", "CERT", "SHD">>,
         <<"NST", "CCS", "FIN">>, <<"SH", "CCS", "FIN">>,
         <<"SH", "NST", "CCS", "FIN">>} \subseteq Seq(A)
    <3> HIDE DEF A
    <3>1. \A a, b, c, e \in A : /\ <<>> \in Seq(A) /\ <<a>> \in Seq(A) /\ <<a, b>> \in Seq(A)
                                /\ <<a, b, c>> \in Seq(A) /\ <<a, b, c, e>> \in Seq(A)
      OBVIOUS
    <3>2. {"CH", "CHc", "HVR", "SH", "CERT", "SHD", "CKE", "NST", "FIN", "CCS"} \subseteq A
      BY <1>0 DEF A
    <3> QED BY <3>1, <3>2
  <2>2. CASE p = "client"
    <3> HIDE DEF A
    <3> QED BY <2>1, <2>2, Zenon DEF Position, ClientPosition, A
  <2>3. CASE p = "server"
    <3> HIDE DEF A
    <3>1. p # "client"
      BY <2>3
    <3> QED BY <2>1, <3>1, Zenon DEF Position, ServerPosition, A
  <2> QED BY <2>2, <2>3 DEF Peers
<1> QED BY <1>1, <1>2

\* One message processed: EndpointInv holds after it.
LEMMA ProcessMessageStep ==
    ASSUME mode \in Modes, NEW p \in Peers, NEW c, EndpointInv(p, c), Reading(c), c.st # "OK",
           NEW m, m.type \in HandshakeTypes, Sends(Other(p), m.type),
           NumberOf(Other(p), m.type) = c.rseq,
           m.type = "FIN" => c.repoch = 1 /\ m.mac = FinMac(Other(p))
    PROVE  EndpointInv(p, ProcessMessage(p, c, m))
<1> DEFINE t == m.type
           rseq == c.rseq + 1
           hash == Append(c.hash, t)
           c1 == [c EXCEPT !.rseq = rseq, !.hash = hash]
           st == ReadTransition(p, c.st, t)
           wt == WriteTransition(p, st, t)
           c2 == StopTimer(c1)
           c3 == [c2 EXCEPT !.st = wt.st, !.flight = wt.flight]
           d == ProcessMessage(p, c, m)
<1>0. /\ c \in Conns(p) /\ Counts(c) /\ Layers(c) /\ Finisheds(c) /\ Position(p, c)
      /\ c.failed = "no" /\ c.flight = <<>>
    BY DEF EndpointInv, Reading
<1>1. /\ st # "bad"
      /\ t = "FIN" => c.hash = FinMac(Other(p))
      /\ c.wepoch = 1 => wt.flight = <<>>
      /\ \A e : Processed(p, c, t, e) => Position(p, e)
  <2> HIDE DEF t
  <2>1. /\ t \in HandshakeTypes /\ Sends(Other(p), t) /\ NumberOf(Other(p), t) = c.rseq
        /\ t = "FIN" => c.repoch = 1
    BY DEF t
  <2> QED BY <2>1, ReadPosition
<1>2. d = IF st \in EndsFlight THEN FinishHandshake(c3) ELSE [c1 EXCEPT !.st = st]
  <2>1. ~(m.type = "FIN" /\ m.mac # c.hash)
    BY <1>1
  <2>2. c1 = [c EXCEPT !.rseq = @ + 1, !.hash = Append(@, m.type)]
    BY <1>0 DEF Conns
  <2> HIDE DEF c1
  <2> QED BY <1>1, <2>1, <2>2, Zenon DEF ProcessMessage
<1>3. rseq \in Nat /\ hash \in Hashes
    BY <1>0, AppendHash DEF Conns
<1> HIDE DEF t, rseq, hash, st, wt, d
<1>4. c1 \in Conns(p)
    BY <1>0, <1>3 DEF Conns
<1>5. /\ SameInput(c, c1) /\ SameSent(c, c1) /\ SameCount(c, c1) /\ c1.st = c.st
      /\ c1.rseq = rseq /\ c1.hash = hash /\ c1.nextw = c.nextw /\ c1.repoch = c.repoch
    BY <1>0 DEF Conns, SameInput, SameSent, SameCount
<1> HIDE DEF c1
<1>6. CASE st \notin EndsFlight
  <2>1. d = [c1 EXCEPT !.st = st]
    BY <1>2, <1>6
  <2>2. /\ d.st = st /\ SameInput(c1, d) /\ SameSent(c1, d) /\ SameCount(c1, d)
        /\ d.rseq = c1.rseq /\ d.hash = c1.hash /\ d.nextw = c1.nextw /\ d.repoch = c1.repoch
    BY <1>4, <2>1 DEF Conns, SameInput, SameSent, SameCount
  <2>3. /\ d.st = st /\ SameInput(c, d) /\ SameSent(c, d) /\ SameCount(c, d)
        /\ d.rseq = rseq /\ d.hash = hash /\ d.nextw = c.nextw /\ d.repoch = c.repoch
    BY <1>5, <2>2, Zenon DEF SameInput, SameSent, SameCount
  <2>4. Processed(p, c, t, d)
    BY <1>6, <2>3, Zenon DEF Processed, SameSent, st, rseq, hash
  <2>5. Position(p, d)
    BY <1>1, <2>4
  <2>6. st \in States
    BY <2>3, <2>5, PositionType
  <2>7. d \in Conns(p)
    BY <1>4, <2>1, <2>6 DEF Conns
  <2>8. Counts(d) /\ Layers(d) /\ Finisheds(d)
    BY <2>3, <2>7, SameKeeps
  <2> QED BY <2>5, <2>7, <2>8 DEF EndpointInv, d
<1>7. CASE st \in EndsFlight
  <2>0. Layers(c1)
    BY <1>0, <1>5, Zenon DEF Layers, SameSent
  <2>1. /\ c2 \in Conns(p) /\ SameInput(c1, c2) /\ SamePlace(c1, c2)
        /\ c2.failed = c1.failed /\ Layers(c2) /\ c2.num = 0
    <3>1. c1.flight = <<>>
      BY <1>0, <1>5, Zenon DEF SameSent
    <3> QED BY <1>4, <2>0, <3>1, StopTimerType
  <2> HIDE DEF c2
  <2>2. /\ c3.st = wt.st /\ c3.flight = wt.flight /\ SameInput(c2, c3) /\ SameCount(c2, c3)
        /\ c3.rseq = c2.rseq /\ c3.hash = c2.hash /\ c3.nextw = c2.nextw
        /\ c3.repoch = c2.repoch /\ c3.wepoch = c2.wepoch /\ c3.sent = c2.sent
        /\ c3.wrls = c2.wrls
    BY <2>1 DEF Conns, SameInput, SameCount
  <2>3. /\ SameInput(c, c3) /\ c3.failed = "no" /\ c3.num = 0
        /\ c3.rseq = rseq /\ c3.hash = hash /\ c3.nextw = c.nextw
        /\ c3.repoch = c.repoch /\ c3.wepoch = c.wepoch
    BY <1>0, <1>5, <2>1, <2>2, Zenon DEF SameInput, SamePlace, SameSent, SameCount
  <2>4. Layers(c3)
    <3>1. c3.wepoch = 1 => c3.flight = <<>>
      BY <1>1, <2>2, <2>3
    <3>2. c3.wepoch = 1 /\ c3.sent # <<>> => \E x \in Range(c3.sent) : x.type = "CCS"
      BY <2>1, <2>2 DEF Layers
    <3>3. /\ c3.wrls = {c3.wepoch} \union {x.wrl : x \in Range(c3.sent)}
          /\ \A x \in Range(c3.sent) : x.wrl <= c3.wepoch /\ (x.type = "CCS" => c3.wepoch = 1)
      BY <2>1, <2>2, Zenon DEF Layers
    <3> HIDE DEF c3
    <3> QED BY <3>1, <3>2, <3>3 DEF Layers
  <2>5. Counts(c3)
    BY <2>3, BoundAssumption DEF Counts
  <2>6. Finisheds(c3)
    BY <1>0, <2>3, Zenon DEF SameInput, Finisheds
  <2>7. CASE wt.st = "OK" /\ wt.flight = <<>>
    <3>1. d = [c3 EXCEPT !.rseq = 0, !.nextw = 0, !.rbuf = {}]
      BY <1>2, <1>7, <2>2, <2>7 DEF FinishHandshake
    <3>2. d = [c2 EXCEPT !.st = wt.st, !.flight = wt.flight, !.rseq = 0, !.nextw = 0, !.rbuf = {}]
      BY <3>1
    <3>3. d \in Conns(p)
      <4> DEFINE s == wt.st
                 f == wt.flight
                 z == 0
                 B == {}
                 a == [c2 EXCEPT !.st = s, !.flight = f]
                 b == [a EXCEPT !.rseq = z, !.nextw = z]
      <4>1. s \in States /\ f \in Seq(AllTypes) /\ z = 0 /\ B \subseteq BufferedOf(Other(p))
        BY <2>7 DEF States
      <4>2. d = [b EXCEPT !.rbuf = B]
        BY <2>1, <3>2 DEF Conns
      <4> HIDE DEF s, f, z, B, d
      <4>3. a \in Conns(p)
        BY <2>1, <4>1 DEF Conns
      <4> HIDE DEF a
      <4>4. b \in Conns(p)
        BY <4>1, <4>3 DEF Conns
      <4> HIDE DEF b
      <4> QED BY <4>1, <4>2, <4>4 DEF Conns
    <3>4. /\ d.st = wt.st /\ d.flight = wt.flight /\ d.rseq = 0 /\ d.nextw = 0 /\ d.rbuf = {}
          /\ d.hash = c2.hash /\ d.repoch = c2.repoch /\ d.wepoch = c2.wepoch
          /\ d.sent = c2.sent /\ d.wrls = c2.wrls /\ d.failed = c2.failed /\ d.num = c2.num
      BY <2>1, <3>2 DEF Conns
    <3>5. Processed(p, c, t, d)
      BY <1>7, <2>2, <2>3, <2>7, <3>4 DEF Processed, st, wt, hash
    <3>6. Position(p, d)
      BY <1>1, <3>5
    <3>7. Counts(d) /\ Finisheds(d)
      BY <2>1, <3>4, BoundAssumption DEF Counts, Finisheds
    <3>8. SameSent(c3, d)
      BY <2>2, <3>4, Zenon DEF SameSent
    <3>9. Layers(d)
      BY <2>4, <3>8, Zenon DEF Layers, SameSent
    <3> QED BY <3>3, <3>6, <3>7, <3>9 DEF EndpointInv, d
  <2>8. CASE ~(wt.st = "OK" /\ wt.flight = <<>>)
    <3>1. d = c3
      BY <1>2, <1>7, <2>2, <2>8 DEF FinishHandshake
    <3>5. Processed(p, c, t, c3)
      BY <1>7, <2>2, <2>3, <2>8, Zenon DEF Processed, st, wt, rseq, hash
    <3>6. Position(p, c3)
      BY <1>1, <3>5
    <3>7. wt.st \in States /\ wt.flight \in Seq(AllTypes)
      BY <2>2, <3>6, PositionType, Zenon
    <3>8. c3 \in Conns(p)
      BY <2>1, <3>7 DEF Conns
    <3> QED BY <2>4, <2>5, <2>6, <3>1, <3>6, <3>8 DEF EndpointInv, d
  <2> QED BY <2>7, <2>8
<1> QED BY <1>6, <1>7

\* An endpoint stays one when its state moves.
LEMMA ConnMoves ==
    ASSUME NEW p, NEW c \in Conns(p), NEW s \in States
    PROVE  [c EXCEPT !.st = s] \in Conns(p)
  BY DEF Conns

\* An endpoint stays one when its read epoch changes.
LEMMA ConnReads ==
    ASSUME NEW p, NEW c \in Conns(p), NEW w \in {0, 1}
    PROVE  [c EXCEPT !.repoch = w] \in Conns(p)
  BY DEF Conns

\* A ChangeCipherSpec comes in the first epoch, and only where it is taken does
\* it start the second.
LEMMA ProcessCcsStep ==
    ASSUME mode \in Modes, NEW p \in Peers, NEW c, EndpointInv(p, c), Reading(c), c.repoch = 0
    PROVE  EndpointInv(p, ProcessCcs(p, c))
<1> DEFINE st == ReadTransition(p, c.st, "CCS")
           d == [c EXCEPT !.st = st, !.repoch = 1, !.rbuf = {}, !.pend = c.unproc, !.unproc = <<>>]
<1>0. /\ c \in Conns(p) /\ Counts(c) /\ Layers(c) /\ Position(p, c) /\ c.flight = <<>>
    BY DEF EndpointInv, Reading
<1>1. CASE st = "bad"
    BY <1>1 DEF ProcessCcs
<1>2. CASE st # "bad"
  <2>1. ProcessCcs(p, c) = d
    <3>1. c.repoch + 1 = 1
      OBVIOUS
    <3> QED BY <1>0, <1>2, <3>1 DEF ProcessCcs, Conns
  <2>2. /\ st \in {"CR_CHANGE", "SR_CHANGE"}
        /\ \A e : /\ e.st = st /\ e.rseq = c.rseq /\ e.nextw = c.nextw /\ e.repoch = 1
                  /\ e.wepoch = c.wepoch /\ e.flight = <<>> /\ e.hash = c.hash
                  => Position(p, e)
    <3>1. CASE p = "client"
      <4>1. ClientPosition(c) /\ st = ClientReadTransition(c.st, "CCS")
        BY <1>0, <3>1 DEF Position, ReadTransition
      <4>2. st = "CR_CHANGE"
        BY <1>2, <4>1 DEF ClientReadTransition
      <4>3. /\ IF mode.hit THEN At(c, K + 1 + T, K + 1, 0, 0) /\ c.hash = HFirst
                           ELSE At(c, K + 3 + T, K + 3, 0, 1) /\ c.hash = HSecond
        <5>1. \/ c.st = "CR_SESSION_TICKET"
              \/ c.st = "CW_FINISHED" /\ ~mode.ticket
              \/ c.st = "CR_SRVR_HELLO" /\ mode.hit /\ ~mode.ticket
          BY <1>2, <4>1 DEF ClientReadTransition
        <5>2. CASE c.st = "CR_SESSION_TICKET"
          BY <1>0, <4>1, <5>2, ModeType DEF ClientPosition, At
        <5>3. CASE c.st = "CW_FINISHED" /\ ~mode.ticket
          <6>1. ~mode.hit /\ At(c, K + 3, K + 3, 0, 1) /\ c.hash = Append(HFirst, "FIN")
            BY <1>0, <4>1, <5>3 DEF ClientPosition
          <6> QED BY <5>3, <6>1, ModeType, HashSteps DEF At
        <5>4. CASE c.st = "CR_SRVR_HELLO" /\ mode.hit /\ ~mode.ticket
          BY <1>0, <4>1, <5>4, ModeType, HashSteps DEF ClientPosition, At
        <5> QED BY <5>1, <5>2, <5>3, <5>4
      <4>4. ASSUME NEW e, e.st = st, e.rseq = c.rseq, e.nextw = c.nextw, e.repoch = 1,
                   e.wepoch = c.wepoch, e.flight = <<>>, e.hash = c.hash
            PROVE  ClientPosition(e)
        BY <4>2, <4>3, <4>4 DEF ClientPosition, At
      <4> HIDE DEF st
      <4> QED BY <3>1, <4>2, <4>4 DEF Position
    <3>2. CASE p = "server"
      <4>1. ServerPosition(c) /\ st = ServerReadTransition(c.st, "CCS")
        BY <1>0, <3>2 DEF Position, ReadTransition
      <4>2. st = "SR_CHANGE"
        BY <1>2, <4>1 DEF ServerReadTransition
      <4>3. /\ IF mode.hit THEN At(c, K + 1, K + 2 + T, 0, 1) /\ c.hash = HSecond
                           ELSE At(c, K + 2, K + 3, 0, 0) /\ c.hash = HFirst
        BY <1>0, <1>2, <4>1, ModeType, HashSteps DEF ServerReadTransition, ServerPosition, At
      <4>4. ASSUME NEW e, e.st = st, e.rseq = c.rseq, e.nextw = c.nextw, e.repoch = 1,
                   e.wepoch = c.wepoch, e.flight = <<>>, e.hash = c.hash
            PROVE  ServerPosition(e)
        BY <4>2, <4>3, <4>4 DEF ServerPosition, At
      <4> HIDE DEF st
      <4> QED BY <3>2, <4>2, <4>4 DEF Position
    <3> QED BY <3>1, <3>2 DEF Peers
  <2> HIDE DEF st
  <2>3. d \in Conns(p)
    <3> DEFINE u == c.unproc
               z == <<>>
               R == RecordsOf(Other(p))
               s == st
               w == 1
               B == {}
               e == [c EXCEPT !.st = s, !.repoch = w, !.rbuf = B]
    <3>1. s \in States /\ w \in {0, 1} /\ B \subseteq BufferedOf(Other(p))
      BY <2>2 DEF States
    <3>2. u \in Seq(R) /\ z \in Seq(R)
      BY <1>0 DEF Conns
    <3>3. c \in Conns(p)
      BY <1>0
    <3>4. e \in Conns(p)
      <4> DEFINE o == [c EXCEPT !.st = s]
                 a == [c EXCEPT !.st = s, !.repoch = w]
      <4> HIDE DEF s, w, B, d, u, R, z, e
      <4>0. o \in Conns(p) /\ a = [o EXCEPT !.repoch = w]
        <5>1. o \in Conns(p)
          BY <3>1, <3>3, ConnMoves, Zenon DEF o
        <5>2. a = [o EXCEPT !.repoch = w]
          BY <3>3, Zenon DEF a, o
        <5> QED BY <5>1, <5>2
      <4> HIDE DEF o, a
      <4>1. a \in Conns(p)
        BY <3>1, <4>0, ConnReads, Zenon
      <4>2. e = [a EXCEPT !.rbuf = B]
        BY <3>3, Zenon DEF a, e
      <4> HIDE DEF a, e
      <4> QED BY <3>1, <4>1, <4>2 DEF Conns
    <3>5. d = [e EXCEPT !.pend = u, !.unproc = z]
      BY <3>3 DEF Conns, u
    <3> HIDE DEF z, e, d, u
    <3> QED BY <3>2, <3>4, <3>5 DEF Conns
  <2>4. /\ d.st = st /\ d.rseq = c.rseq /\ d.nextw = c.nextw /\ d.repoch = 1
        /\ d.wepoch = c.wepoch /\ d.flight = c.flight /\ d.hash = c.hash /\ d.rbuf = {}
        /\ SameSent(c, d) /\ SameCount(c, d)
    BY <1>0 DEF Conns, SameSent, SameCount
  <2> HIDE DEF d
  <2>5. Position(p, d)
    BY <1>0, <2>2, <2>4
  <2>6. Layers(d) /\ Counts(d)
    BY <2>3, <2>4, SameKeeps
  <2>7. Finisheds(d)
    BY <2>4 DEF Finisheds
  <2> QED BY <2>1, <2>3, <2>5, <2>6, <2>7 DEF EndpointInv
<1> QED BY <1>1, <1>2

\* What is buffered may be any messages of the peer, a Finished in its epoch.
LEMMA RbufStep ==
    ASSUME NEW p \in Peers, NEW c, EndpointInv(p, c), NEW B, B \subseteq BufferedOf(Other(p)),
           \A i \in B : i.type = "FIN" => c.repoch = 1
    PROVE  /\ EndpointInv(p, [c EXCEPT !.rbuf = B])
           /\ SamePlace(c, [c EXCEPT !.rbuf = B]) /\ SameCount(c, [c EXCEPT !.rbuf = B])
<1> DEFINE d == [c EXCEPT !.rbuf = B]
<1>0. c \in Conns(p)
    BY DEF EndpointInv
<1>1. d \in Conns(p)
    BY <1>0 DEF Conns
<1>2. SamePlace(c, d) /\ SameSent(c, d) /\ SameCount(c, d) /\ d.rbuf = B /\ d.repoch = c.repoch
    BY <1>0 DEF Conns, SamePlace, SameSent, SameCount
<1> HIDE DEF d
<1>3. Position(p, d) /\ Layers(d) /\ Counts(d)
    BY <1>1, <1>2, SameKeeps
<1>4. Finisheds(d)
    BY <1>2 DEF Finisheds
<1>5. EndpointInv(p, d) /\ SamePlace(c, d) /\ SameCount(c, d)
    BY <1>1, <1>2, <1>3, <1>4 DEF EndpointInv
<1> QED BY <1>5 DEF d

\* There are two peers.
LEMMA OtherPeer ==
    ASSUME NEW p \in Peers
    PROVE  Other(p) \in Peers /\ Other(Other(p)) = p /\ Other(p) # p
  BY DEF Peers, Other

\* What a record of handshake data says.
LEMMA RecordFields ==
    ASSUME NEW p \in Peers, NEW r \in RecordsOf(p), r.type \in HandshakeTypes
    PROVE  /\ IsMessage(p, r.type, r.seq, r.epoch, r.mac)
           /\ r.mac \in Hashes /\ r.seq \in Nat /\ r.off \in Nat /\ r.len \in Nat
           /\ MsgLen[r.type] \in Nat /\ r.off + r.len <= MsgLen[r.type]
           /\ Sends(p, r.type) /\ r.seq = NumberOf(p, r.type)
           /\ r.type = "FIN" => r.epoch = 1 /\ r.mac = FinMac(p)
  BY LengthAssumption DEF RecordsOf, IsMessage

\* A fragment goes to its place in the message of its number.
LEMMA ReassembleStep ==
    ASSUME mode \in Modes, NEW p \in Peers, NEW c, EndpointInv(p, c),
           NEW r \in RecordsOf(Other(p)), r.type \in HandshakeTypes, r.epoch = c.repoch, ~Whole(r)
    PROVE  EndpointInv(p, Reassemble(c, r))
<1> DEFINE len == MsgLen[r.type]
           old == Find(c, r.seq)
           masks == UNION {i.mask : i \in old}
           bytes == UNION {i.bytes : i \in old}
           frag == r.off .. r.off + r.len - 1
           mask == Mark(masks, r.off, r.off + r.len)
           new == [seq |-> r.seq, type |-> r.type, mac |-> r.mac, mask |-> mask,
                   bytes |-> bytes \union frag, complete |-> IsComplete(mask, len)]
<1>0. c \in Conns(p) /\ Finisheds(c) /\ c.rbuf \subseteq BufferedOf(Other(p)) /\ Other(p) \in Peers
    BY OtherPeer DEF EndpointInv, Conns
<1>1. CASE \E i \in old : Complete(i)
    BY <1>1 DEF Reassemble
<1>2. CASE ~\E i \in old : Complete(i)
  <2>1. Reassemble(c, r) = [c EXCEPT !.rbuf = (@ \ old) \union {new}]
    BY <1>2, Zenon DEF Reassemble
  <2>2. /\ IsMessage(Other(p), r.type, r.seq, r.epoch, r.mac) /\ r.mac \in Hashes /\ r.seq \in Nat
        /\ r.off \in Nat /\ r.len \in Nat /\ len \in Nat \ {0} /\ r.off + r.len <= len
        /\ Sends(Other(p), r.type) /\ r.seq = NumberOf(Other(p), r.type)
    <3> DEFINE q == Other(p)
    <3>1. q \in Peers /\ r \in RecordsOf(q)
      BY <1>0
    <3> HIDE DEF q
    <3>2. /\ IsMessage(q, r.type, r.seq, r.epoch, r.mac)
          /\ r.mac \in Hashes /\ r.seq \in Nat /\ r.off \in Nat /\ r.len \in Nat
          /\ MsgLen[r.type] \in Nat /\ r.off + r.len <= MsgLen[r.type]
          /\ Sends(q, r.type) /\ r.seq = NumberOf(q, r.type)
      BY <3>1, RecordFields
    <3>3. r.len # MsgLen[r.type]
      BY DEF Whole
    <3>4. len \in Nat \ {0}
      BY <3>2, <3>3
    <3> HIDE DEF len
    <3> QED BY <3>2, <3>4 DEF q, len
  <2>3. ASSUME NEW i \in old PROVE i.mask = i.bytes /\ i.bytes \subseteq 0 .. len - 1
    <3>1. i \in BufferedOf(Other(p)) /\ i.seq = r.seq /\ ~i.complete
      BY <1>0, <1>2 DEF Find, Complete
    <3>2. /\ i.type \in HandshakeTypes /\ Sends(Other(p), i.type)
          /\ NumberOf(Other(p), i.type) = NumberOf(Other(p), r.type)
      BY <2>2, <3>1 DEF BufferedOf, IsMessage
    <3> DEFINE q == Other(p)
               u == i.type
               v == r.type
    <3>3. q \in Peers /\ u \in HandshakeTypes /\ v \in HandshakeTypes /\ Sends(q, u) /\ Sends(q, v)
          /\ NumberOf(q, u) = NumberOf(q, v)
      BY <1>0, <2>2, <3>2
    <3> HIDE DEF q, u, v
    <3>4. u = v
      BY <3>3, OneMessage
    <3>5. i.type = r.type
      BY <3>4 DEF u, v
    <3> QED BY <3>1, <3>5 DEF BufferedOf
  <2>4. masks = bytes /\ bytes \subseteq 0 .. len - 1
    <3> HIDE DEF old, len
    <3>1. {i.mask : i \in old} = {i.bytes : i \in old}
      BY <2>3
    <3> QED BY <2>3, <3>1
  <2>5. mask = masks \union frag
    <3> DEFINE x == masks
               o == r.off
               e == r.off + r.len
    <3>1. o \in Nat /\ e \in Nat /\ o <= e
      BY <2>2
    <3> HIDE DEF x, o, e
    <3>2. Mark(x, o, e) = x \union o .. e - 1
      BY <3>1, MarkExact
    <3>3. frag = o .. e - 1
      BY <2>2 DEF o, e
    <3> QED BY <3>2, <3>3, Zenon DEF x, o, e
  <2>6. frag \subseteq 0 .. len - 1
    <3> HIDE DEF len
    <3> QED BY <2>2
  <2> HIDE DEF len, old, masks, bytes, frag, mask
  <2>7. mask = bytes \union frag /\ mask \subseteq 0 .. len - 1
    BY <2>4, <2>5, <2>6
  <2>8. IsComplete(mask, len) <=> mask = 0 .. len - 1
    BY <2>2, <2>7, CompleteExact
  <2>9. new \in BufferedOf(Other(p))
    <3>1. IsMessage(Other(p), r.type, r.seq, IF r.type = "FIN" THEN 1 ELSE 0, r.mac)
      BY <2>2 DEF IsMessage
    <3>2. mask \in SUBSET Nat /\ IsComplete(mask, len) \in BOOLEAN
      BY <2>2, <2>7, <2>8 DEF IsComplete
    <3> DEFINE b == IsComplete(mask, len)
    <3>3. new = [seq |-> r.seq, type |-> r.type, mac |-> r.mac, mask |-> mask,
                 bytes |-> mask, complete |-> b]
      BY <2>7
    <3>4. b \in BOOLEAN /\ (b <=> mask = 0 .. len - 1)
      BY <2>8, <3>2
    <3> HIDE DEF new, b
    <3> QED BY <2>2, <2>7, <3>1, <3>2, <3>3, <3>4 DEF BufferedOf, len
  <2>10. new.type = "FIN" => c.repoch = 1
    <3>1. new.type = r.type
      OBVIOUS
    <3> QED BY <2>2, <3>1 DEF IsMessage
  <2> DEFINE B == (c.rbuf \ old) \union {new}
  <2> HIDE DEF new
  <2>11. B \subseteq BufferedOf(Other(p)) /\ \A i \in B : i.type = "FIN" => c.repoch = 1
    BY <1>0, <2>9, <2>10 DEF Finisheds
  <2>12. Reassemble(c, r) = [c EXCEPT !.rbuf = B]
    BY <1>0, <2>1 DEF Conns
  <2> HIDE DEF B
  <2> QED BY <2>11, <2>12, RbufStep
<1> QED BY <1>1, <1>2

\* Buffering a whole message that is not yet due keeps an endpoint's invariant.
LEMMA BufferWholeStep ==
    ASSUME mode \in Modes, NEW p \in Peers, NEW c, EndpointInv(p, c),
           NEW r \in RecordsOf(Other(p)), r.type \in HandshakeTypes, r.epoch = c.repoch, Whole(r)
    PROVE  EndpointInv(p, BufferWhole(c, r))
<1> DEFINE new == [seq |-> r.seq, type |-> r.type, mac |-> r.mac, mask |-> {},
                   bytes |-> 0 .. r.len - 1, complete |-> TRUE]
           B == c.rbuf \union {new}
<1>0. c \in Conns(p) /\ Finisheds(c) /\ c.rbuf \subseteq BufferedOf(Other(p)) /\ Other(p) \in Peers
    BY OtherPeer DEF EndpointInv, Conns
<1>1. /\ IsMessage(Other(p), r.type, r.seq, r.epoch, r.mac) /\ r.mac \in Hashes /\ r.seq \in Nat
      /\ r.len \in Nat /\ r.len = MsgLen[r.type]
      /\ r.type = "FIN" => r.epoch = 1
    BY <1>0, RecordFields DEF Whole
<1>2. IsMessage(Other(p), r.type, r.seq, IF r.type = "FIN" THEN 1 ELSE 0, r.mac)
    BY <1>1 DEF IsMessage
<1>3. new \in BufferedOf(Other(p))
  <2> DEFINE bytes == 0 .. r.len - 1
  <2>1. bytes \in SUBSET Nat /\ {} \in SUBSET Nat /\ bytes = 0 .. MsgLen[r.type] - 1
    BY <1>1
  <2> HIDE DEF bytes
  <2>2. [seq |-> r.seq, type |-> r.type, mac |-> r.mac, mask |-> {}, bytes |-> bytes,
         complete |-> TRUE] \in BufferedOf(Other(p))
    BY <1>1, <1>2, <2>1 DEF BufferedOf
  <2> QED BY <2>2 DEF bytes
<1>4. new.type = r.type
    OBVIOUS
<1> HIDE DEF new
<1>5. B \subseteq BufferedOf(Other(p)) /\ \A i \in B : i.type = "FIN" => c.repoch = 1
    BY <1>0, <1>1, <1>3, <1>4 DEF Finisheds
<1>6. BufferWhole(c, r) = [c EXCEPT !.rbuf = B]
    BY <1>0 DEF BufferWhole, Conns, new
<1> HIDE DEF B
<1> QED BY <1>5, <1>6, RbufStep

\* So does dtls1_process_out_of_seq_message, for a whole message or a fragment.
LEMMA OutOfSeqStep ==
    ASSUME mode \in Modes, NEW p \in Peers, NEW c, EndpointInv(p, c),
           NEW r \in RecordsOf(Other(p)), r.type \in HandshakeTypes, r.epoch = c.repoch
    PROVE  EndpointInv(p, OutOfSeq(c, r))
<1>1. OutOfSeq(c, r) \in {c, BufferWhole(c, r), Reassemble(c, r)}
    BY Zenon DEF OutOfSeq
<1>2. CASE Whole(r)
  <2>1. OutOfSeq(c, r) \in {c, BufferWhole(c, r)}
    BY <1>2, Zenon DEF OutOfSeq
  <2>2. EndpointInv(p, BufferWhole(c, r))
    BY <1>2, BufferWholeStep
  <2> QED BY <2>1, <2>2
<1>3. CASE ~Whole(r)
  <2>1. OutOfSeq(c, r) \in {c, Reassemble(c, r)}
    BY <1>3, Zenon DEF OutOfSeq
  <2>2. EndpointInv(p, Reassemble(c, r))
    BY <1>3, ReassembleStep
  <2> QED BY <2>1, <2>2
<1> QED BY <1>2, <1>3

\* The server takes up the handshake at its start when the first ClientHello
\* comes again.
LEMMA RestartStep ==
    ASSUME mode \in Modes, NEW p \in Peers, NEW c, EndpointInv(p, c), Reading(c),
           NEW seq, NEW t, FirstHelloAgain(p, c, seq, t)
    PROVE  /\ EndpointInv(p, RestartSeq(c)) /\ Reading(RestartSeq(c))
           /\ RestartSeq(c).rseq = 0 /\ RestartSeq(c).st = c.st /\ c.st # "OK"
           /\ p = "server" /\ t = "CH" /\ seq = 0 /\ RestartSeq(c).repoch = c.repoch
<1> DEFINE d == [c EXCEPT !.rseq = 0, !.nextw = 0]
<1>0. /\ c \in Conns(p) /\ ServerPosition(c) /\ c.failed = "no" /\ c.flight = <<>>
      /\ p = "server" /\ t = "CH" /\ seq = 0 /\ c.rseq = 1 /\ c.st = "SW_HELLO_VERIFY_REQUEST"
    BY DEF EndpointInv, Reading, FirstHelloAgain, Position
<1>1. RestartSeq(c) = d
    BY DEF RestartSeq
<1>2. d \in Conns(p)
    BY <1>0 DEF Conns
<1>3. /\ d.rseq = 0 /\ d.nextw = 0 /\ d.st = c.st /\ d.repoch = c.repoch /\ d.wepoch = c.wepoch
      /\ d.hash = c.hash /\ d.flight = c.flight /\ SameInput(c, d) /\ SameSent(c, d)
      /\ SameCount(c, d)
    BY <1>0 DEF Conns, SameInput, SameSent, SameCount
<1> HIDE DEF d
<1>4. mode.cookie /\ c.hash = <<>> /\ c.repoch = 0 /\ c.wepoch = 0
    BY <1>0 DEF ServerPosition, At
<1>5. At(d, 0, 0, 0, 0)
    BY <1>3, <1>4, Zenon DEF At
<1>6. Position(p, d)
    BY <1>0, <1>3, <1>4, <1>5 DEF Position, ServerPosition
<1>7. Layers(d) /\ Counts(d) /\ Finisheds(d)
    BY <1>2, <1>3, SameKeeps
<1>8. EndpointInv(p, d)
    BY <1>2, <1>6, <1>7 DEF EndpointInv
<1>9. Reading(d)
    BY <1>0, <1>3 DEF Reading, SameCount
<1> QED BY <1>0, <1>1, <1>3, <1>8, <1>9

\* Reading a handshake record keeps it, be the message due, early, late or in
\* fragments.
LEMMA ReadHandshakeStep ==
    ASSUME mode \in Modes, NEW p \in Peers, NEW c, EndpointInv(p, c), Reading(c), c.st # "OK",
           NEW r \in RecordsOf(Other(p)), r.type \in HandshakeTypes, r.epoch = c.repoch
    PROVE  EndpointInv(p, ReadHandshake(p, c, r))
<1> DEFINE again == FirstHelloAgain(p, c, r.seq, r.type)
           q == Other(p)
<1>0. /\ Sends(q, r.type) /\ r.seq = NumberOf(q, r.type)
      /\ r.type = "FIN" => r.epoch = 1 /\ r.mac = FinMac(q)
  <2>1. q \in Peers /\ r \in RecordsOf(q)
    BY OtherPeer
  <2> HIDE DEF q
  <2> QED BY <2>1, RecordFields
<1>1. CASE r.seq # c.rseq /\ ~again
  <2>1. ReadHandshake(p, c, r) = OutOfSeq(c, r)
    BY <1>1, Zenon DEF ReadHandshake
  <2> QED BY <2>1, OutOfSeqStep
<1>2. CASE ~(r.seq # c.rseq /\ ~again) /\ ~Whole(r)
  <2>1. ReadHandshake(p, c, r) = Reassemble(c, r)
    BY <1>2, Zenon DEF ReadHandshake
  <2> QED BY <1>2, <2>1, ReassembleStep
<1>3. CASE again /\ Whole(r)
  <2> DEFINE d == RestartSeq(c)
  <2>1. ReadHandshake(p, c, r) = ProcessMessage(p, d, r)
    BY <1>3, Zenon DEF ReadHandshake
  <2>2. /\ EndpointInv(p, d) /\ Reading(d) /\ d.rseq = 0 /\ d.st = c.st /\ r.type = "CH"
        /\ r.seq = 0 /\ d.repoch = c.repoch
    <3> DEFINE s == r.seq
               t == r.type
    <3>1. FirstHelloAgain(p, c, s, t)
      BY <1>3
    <3> HIDE DEF s, t
    <3>2. /\ EndpointInv(p, RestartSeq(c)) /\ Reading(RestartSeq(c))
          /\ RestartSeq(c).rseq = 0 /\ RestartSeq(c).st = c.st
          /\ t = "CH" /\ s = 0 /\ RestartSeq(c).repoch = c.repoch
      BY <3>1, RestartStep
    <3> QED BY <3>2, Zenon DEF s, t
  <2> HIDE DEF d
  <2>3. NumberOf(Other(p), r.type) = d.rseq /\ d.st # "OK" /\ r.type # "FIN"
    BY <1>0, <2>2
  <2>4. EndpointInv(p, ProcessMessage(p, d, r))
    BY <1>0, <2>2, <2>3, ProcessMessageStep
  <2> QED BY <2>1, <2>4
<1>4. CASE r.seq = c.rseq /\ ~again /\ Whole(r)
  <2>1. ReadHandshake(p, c, r) = ProcessMessage(p, c, r)
    BY <1>4, Zenon DEF ReadHandshake
  <2>2. NumberOf(Other(p), r.type) = c.rseq
    BY <1>0, <1>4
  <2>3. r.type = "FIN" => c.repoch = 1 /\ r.mac = FinMac(Other(p))
    BY <1>0
  <2>4. EndpointInv(p, ProcessMessage(p, c, r))
    BY <1>0, <2>2, <2>3, ProcessMessageStep
  <2> QED BY <2>1, <2>4
<1> QED BY <1>1, <1>2, <1>3, <1>4

\* An endpoint whose handshake is over reads the second epoch.
LEMMA SecondEpoch ==
    ASSUME NEW p \in Peers, NEW c, EndpointInv(p, c)
    PROVE  /\ c.st = "OK" => c.repoch = 1
           /\ c.repoch = 1 => c.st \in {"CR_CHANGE", "SR_CHANGE", "OK"}
           /\ c.repoch \in {0, 1}
<1>1. CASE p = "client"
    BY <1>1 DEF EndpointInv, Position, ClientPosition, At
<1>2. CASE p = "server"
    BY <1>2 DEF EndpointInv, Position, ServerPosition, At
<1> QED BY <1>1, <1>2 DEF Peers

\* A Finished that comes again after the handshake is answered; it is the only
\* message that can come then.
LEMMA ReadAfterStep ==
    ASSUME mode \in Modes, NEW p \in Peers, NEW c, EndpointInv(p, c), Reading(c), c.st = "OK",
           NEW r \in RecordsOf(Other(p)), r.type \in HandshakeTypes, r.epoch = c.repoch
    PROVE  EndpointInv(p, ReadAfterHandshake(c, r))
<1> DEFINE d == CheckTimeoutNum(c)
           e == Retransmitted(d)
<1>1. r.type = "FIN"
  <2>1. r.epoch = 1
    BY SecondEpoch
  <2> QED BY <2>1 DEF RecordsOf, IsMessage
<1>2. ReadAfterHandshake(c, r) = e
    BY <1>1 DEF ReadAfterHandshake
<1>3. c \in Conns(p) /\ c.failed = "no" /\ c.num <= TmoAlertCount
    BY DEF EndpointInv, Reading, Counts
<1>4. /\ d \in Conns(p) /\ Counts(d) /\ SameInput(c, d) /\ SamePlace(c, d) /\ SameSent(c, d)
    BY <1>3, CheckTimeoutNumType
<1> HIDE DEF d
<1>5. /\ e \in Conns(p) /\ SameInput(d, e) /\ SamePlace(d, e) /\ SameSent(d, e) /\ SameCount(d, e)
    BY <1>4, RetransmittedType
<1> HIDE DEF e
<1>6. SameInput(c, e) /\ SamePlace(c, e) /\ SameSent(c, e)
    BY <1>4, <1>5, Zenon DEF SameInput, SamePlace, SameSent
<1>7. Counts(e)
    BY <1>4, <1>5, Zenon DEF Counts, SameCount
<1>8. Position(p, e) /\ Layers(e) /\ Finisheds(e)
  <2>1. e.repoch = c.repoch
    BY <1>6, Zenon DEF SamePlace
  <2> QED BY <1>5, <1>6, <2>1, SameKeeps
<1>9. EndpointInv(p, e)
    BY <1>5, <1>7, <1>8 DEF EndpointInv
<1> QED BY <1>2, <1>9

\* The three queues of records.
LEMMA QueueStep ==
    ASSUME NEW p \in Peers, NEW c, EndpointInv(p, c), NEW q \in Seq(RecordsOf(Other(p)))
    PROVE  /\ EndpointInv(p, [c EXCEPT !.unproc = q])
           /\ EndpointInv(p, [c EXCEPT !.appbuf = q])
           /\ EndpointInv(p, [c EXCEPT !.pend = q])
<1>0. c \in Conns(p)
    BY DEF EndpointInv
<1>1. ASSUME NEW d \in Conns(p), SamePlace(c, d), SameSent(c, d), SameCount(c, d),
             d.rbuf = c.rbuf, d.repoch = c.repoch
      PROVE  EndpointInv(p, d)
  <2>1. Position(p, d) /\ Layers(d) /\ Counts(d)
    BY <1>1, SameKeeps
  <2>2. Finisheds(d)
    BY <1>1, Zenon DEF EndpointInv, Finisheds
  <2> QED BY <2>1, <2>2 DEF EndpointInv
<1>2. EndpointInv(p, [c EXCEPT !.unproc = q])
  <2> DEFINE d == [c EXCEPT !.unproc = q]
  <2>1. d \in Conns(p)
    BY <1>0 DEF Conns
  <2>2. SamePlace(c, d) /\ SameSent(c, d) /\ SameCount(c, d) /\ d.rbuf = c.rbuf /\ d.repoch = c.repoch
    BY <1>0 DEF Conns, SamePlace, SameSent, SameCount
  <2> HIDE DEF d
  <2>3. EndpointInv(p, d)
    BY <1>1, <2>1, <2>2
  <2> QED BY <2>3 DEF d
<1>3. EndpointInv(p, [c EXCEPT !.appbuf = q])
  <2> DEFINE d == [c EXCEPT !.appbuf = q]
  <2>1. d \in Conns(p)
    BY <1>0 DEF Conns
  <2>2. SamePlace(c, d) /\ SameSent(c, d) /\ SameCount(c, d) /\ d.rbuf = c.rbuf /\ d.repoch = c.repoch
    BY <1>0 DEF Conns, SamePlace, SameSent, SameCount
  <2> HIDE DEF d
  <2>3. EndpointInv(p, d)
    BY <1>1, <2>1, <2>2
  <2> QED BY <2>3 DEF d
<1>4. EndpointInv(p, [c EXCEPT !.pend = q])
  <2> DEFINE d == [c EXCEPT !.pend = q]
  <2>1. d \in Conns(p)
    BY <1>0 DEF Conns
  <2>2. SamePlace(c, d) /\ SameSent(c, d) /\ SameCount(c, d) /\ d.rbuf = c.rbuf /\ d.repoch = c.repoch
    BY <1>0 DEF Conns, SamePlace, SameSent, SameCount
  <2> HIDE DEF d
  <2>3. EndpointInv(p, d)
    BY <1>1, <2>1, <2>2
  <2> QED BY <2>3 DEF d
<1> QED BY <1>2, <1>3, <1>4

\* A record is read: EndpointInv holds after it.
LEMMA ReadRecordStep ==
    ASSUME mode \in Modes, NEW p \in Peers, NEW c, EndpointInv(p, c), Reading(c),
           NEW r \in RecordsOf(Other(p))
    PROVE  EndpointInv(p, ReadRecord(p, c, r))
<1>0. /\ c \in Conns(p) /\ r.type \in AllTypes /\ c.repoch \in {0, 1}
      /\ c.unproc \in Seq(RecordsOf(Other(p))) /\ c.appbuf \in Seq(RecordsOf(Other(p)))
    BY DEF EndpointInv, Conns, RecordsOf
<1>1. CASE r.epoch = c.repoch /\ r.type = "CCS"
  <2>1. ReadRecord(p, c, r) = IF c.st = "OK" THEN c ELSE ProcessCcs(p, c)
    <3>1. r.type # "DATA" /\ r.type \notin HandshakeTypes /\ r.epoch # c.repoch + 1
      BY <1>0, <1>1 DEF HandshakeTypes
    <3> QED BY <1>1, <3>1, Zenon DEF ReadRecord
  <2>2. c.repoch = 0
    BY <1>1 DEF RecordsOf
  <2>3. EndpointInv(p, ProcessCcs(p, c))
    BY <2>2, ProcessCcsStep
  <2> QED BY <2>1, <2>3
<1>2. CASE r.epoch = c.repoch /\ r.type = "DATA"
  <2>1. ReadRecord(p, c, r) = ReadData(c, r)
    <3>1. r.type # "CCS" /\ r.type \notin HandshakeTypes /\ r.epoch # c.repoch + 1
      BY <1>0, <1>2 DEF HandshakeTypes
    <3> QED BY <1>2, <3>1, Zenon DEF ReadRecord
  <2>2. c.st \in {"CR_CHANGE", "SR_CHANGE", "OK"}
    <3>1. c.repoch = 1
      BY <1>2 DEF RecordsOf
    <3> QED BY <3>1, SecondEpoch
  <2> DEFINE q == Append(c.appbuf, r)
  <2>3. q \in Seq(RecordsOf(Other(p)))
    BY <1>0
  <2>4. ReadData(c, r) = c \/ ReadData(c, r) = [c EXCEPT !.appbuf = q]
    BY <1>0, <2>2 DEF ReadData, Conns
  <2> HIDE DEF q
  <2>5. EndpointInv(p, [c EXCEPT !.appbuf = q])
    BY <2>3, QueueStep
  <2> QED BY <2>1, <2>4, <2>5, Zenon
<1>3. CASE r.epoch = c.repoch /\ r.type \in HandshakeTypes
  <2>1. ReadRecord(p, c, r) = IF c.st = "OK" THEN ReadAfterHandshake(c, r) ELSE ReadHandshake(p, c, r)
    <3>1. r.type # "CCS" /\ r.type # "DATA" /\ r.epoch # c.repoch + 1
      BY <1>0, <1>3 DEF HandshakeTypes
    <3> QED BY <1>3, <3>1, Zenon DEF ReadRecord
  <2>2. CASE c.st = "OK"
    BY <1>3, <2>1, <2>2, ReadAfterStep
  <2>3. CASE c.st # "OK"
    BY <1>3, <2>1, <2>3, ReadHandshakeStep
  <2> QED BY <2>2, <2>3
<1>4. CASE r.epoch # c.repoch
  <2> DEFINE q == pqueue_insert(c.unproc, r)
  <2>1. q \in Seq(RecordsOf(Other(p)))
    <3> DEFINE u == c.unproc
               S == RecordsOf(Other(p))
    <3>1. u \in Seq(S) /\ r \in S /\ r.prio \in Int /\ \A x \in S : x.prio \in Int
      BY <1>0 DEF RecordsOf
    <3> HIDE DEF u, S
    <3>2. pqueue_insert(u, r) \in Seq(S)
      BY <3>1, PqueueInsert
    <3> QED BY <3>2 DEF u, S
  <2>2. ReadRecord(p, c, r) = c \/ ReadRecord(p, c, r) = [c EXCEPT !.unproc = q]
    <3>1. [c EXCEPT !.unproc = pqueue_insert(@, r)] = [c EXCEPT !.unproc = q]
      BY <1>0 DEF Conns
    <3> HIDE DEF q
    <3> QED BY <1>4, <3>1 DEF ReadRecord
  <2> HIDE DEF q
  <2>3. EndpointInv(p, [c EXCEPT !.unproc = q])
    BY <2>1, QueueStep
  <2> QED BY <2>2, <2>3, Zenon
<1> QED BY <1>0, <1>1, <1>2, <1>3, <1>4 DEF AllTypes

\* What a finished endpoint sends again in answer is what the script says.
LEMMA AnswerType ==
    ASSUME mode \in Modes, NEW p \in Peers, NEW c, EndpointInv(p, c), Reading(c), NEW r
    PROVE  Answer(c, r) \in Seq(RecordsOf(p))
<1> DEFINE d == CheckTimeoutNum(c)
<1>1. c \in Conns(p) /\ c.failed = "no" /\ c.num <= TmoAlertCount
    BY DEF EndpointInv, Reading, Counts
<1>2. d \in Conns(p)
    BY <1>1, CheckTimeoutNumType
<1> HIDE DEF d
<1>3. Retransmission(d) \in Seq(RecordsOf(p))
    BY <1>2, RetransmittedType
<1>4. Answer(c, r) \in {Retransmission(d), <<>>}
    BY DEF Answer, d
<1>5. <<>> \in Seq(RecordsOf(p))
    OBVIOUS
<1> QED BY <1>3, <1>4, <1>5

\* Messages of the past are dropped from the buffer.
LEMMA DropStaleStep ==
    ASSUME NEW p \in Peers, NEW c, EndpointInv(p, c)
    PROVE  /\ EndpointInv(p, DropStale(p, c))
           /\ SamePlace(c, DropStale(p, c)) /\ SameCount(c, DropStale(p, c))
<1> DEFINE B == c.rbuf \ Stale(p, c)
<1>0. c \in Conns(p) /\ Finisheds(c) /\ c.rbuf \subseteq BufferedOf(Other(p))
    BY DEF EndpointInv, Conns
<1>1. DropStale(p, c) = [c EXCEPT !.rbuf = B]
    BY <1>0 DEF DropStale, Conns
<1>2. B \subseteq BufferedOf(Other(p)) /\ \A i \in B : i.type = "FIN" => c.repoch = 1
    BY <1>0 DEF Finisheds
<1> HIDE DEF B
<1> QED BY <1>1, <1>2, RbufStep

-----------------------------------------------------------------------------
(* The steps of the system *)

\* The handshake is one and the same throughout.
LEMMA SameMode ==
    ASSUME mode' = mode
    PROVE  /\ \A p : RecordsOf(p)' = RecordsOf(p)
           /\ \A p, c : EndpointInv(p, c)' <=> EndpointInv(p, c)
<1>1. K' = K /\ T' = T /\ Hello' = Hello
    BY DEF K, T, Hello
<1>2. \A h : WithTicket(h)' = WithTicket(h)
    BY DEF WithTicket
<1>3. HHello' = HHello
    BY <1>1 DEF HHello
<1>4. HServer' = HServer
    BY <1>3 DEF HServer
<1>5. HCert' = HCert
    BY <1>4 DEF HCert
<1>6. HDone' = HDone
    BY <1>5 DEF HDone
<1>7. HKex' = HKex
    BY <1>6 DEF HKex
<1>8. HFirst' = HFirst
    BY <1>2, <1>4, <1>7 DEF HFirst
<1>9. HSecond' = HSecond
    BY <1>2, <1>8 DEF HSecond
<1>10. \A p : FinMac(p)' = FinMac(p)
    BY <1>8, <1>9 DEF FinMac
<1>11. \A p, t : (Sends(p, t)' <=> Sends(p, t)) /\ NumberOf(p, t)' = NumberOf(p, t)
  <2> SUFFICES ASSUME NEW p, NEW t
               PROVE  (Sends(p, t)' <=> Sends(p, t)) /\ NumberOf(p, t)' = NumberOf(p, t)
    OBVIOUS
  <2>1. Sends(p, t)' <=> Sends(p, t)
    BY DEF Sends
  <2>2. NumberOf(p, t)' = NumberOf(p, t)
    BY <1>1 DEF NumberOf
  <2> QED BY <2>1, <2>2
<1>12. \A p, t, seq, ep, mac :
          IsMessage(p, t, seq, ep, mac)' <=> IsMessage(p, t, seq, ep, mac)
    BY <1>10, <1>11 DEF IsMessage
<1>13. ASSUME NEW p
       PROVE  RecordsOf(p)' = RecordsOf(p) /\ SentOf(p)' = SentOf(p) /\ BufferedOf(p)' = BufferedOf(p)
  <2>1. RecordsOf(p)' = RecordsOf(p)
    BY <1>12, Zenon DEF RecordsOf
  <2>2. SentOf(p)' = SentOf(p)
    BY <1>12, Zenon DEF SentOf
  <2>3. BufferedOf(p)' = BufferedOf(p)
    BY <1>12, Zenon DEF BufferedOf
  <2> QED BY <2>1, <2>2, <2>3
<1>14. ASSUME NEW p PROVE Conns(p)' = Conns(p)
    BY <1>13, Zenon DEF Conns
<1>15. ASSUME NEW c PROVE ClientPosition(c)' <=> ClientPosition(c)
    BY <1>1, <1>4, <1>5, <1>6, <1>8, <1>9 DEF ClientPosition
<1>16. ASSUME NEW c PROVE ServerPosition(c)' <=> ServerPosition(c)
    BY <1>1, <1>3, <1>4, <1>5, <1>6, <1>8, <1>9 DEF ServerPosition
<1>17. ASSUME NEW p, NEW c PROVE EndpointInv(p, c)' <=> EndpointInv(p, c)
    BY <1>14, <1>15, <1>16 DEF EndpointInv, Position
<1> QED BY <1>13, <1>17

\* Replacing one endpoint by one that has the invariant.
LEMMA ConnStep ==
    ASSUME IInv, mode' = mode, NEW p \in Peers, NEW d, EndpointInv(p, d),
           conn' = [conn EXCEPT ![p] = d]
    PROVE  EndpointsInv'
<1>1. ASSUME NEW q \in Peers PROVE conn'[q] = IF q = p THEN d ELSE conn[q]
    BY DEF IInv, EndpointsInv
<1>2. ASSUME NEW q \in Peers PROVE EndpointInv(q, conn'[q])
    BY <1>1 DEF IInv, EndpointsInv
<1>3. ASSUME NEW q \in Peers PROVE EndpointInv(q, conn[q])'
    BY <1>2, SameMode
<1>4. ASSUME NEW q \in Peers PROVE conn'[q] \in (Conns("client") \union Conns("server"))'
  <2>1. conn'[q] \in Conns(q)'
    BY <1>3 DEF EndpointInv
  <2> QED BY <2>1 DEF Peers
<1>5. conn' = [q \in Peers |-> conn'[q]]
    BY DEF IInv, EndpointsInv
<1> QED BY <1>3, <1>4, <1>5 DEF EndpointsInv

\* Leaving both endpoints alone.
LEMMA ConnSame ==
    ASSUME IInv, mode' = mode, conn' = conn
    PROVE  EndpointsInv'
<1>1. "client" \in Peers /\ EndpointInv("client", conn["client"])
    BY DEF IInv, EndpointsInv, Peers
<1>2. conn' = [conn EXCEPT !["client"] = conn["client"]]
    BY DEF IInv, EndpointsInv, Peers
<1> QED BY <1>1, <1>2, ConnStep

\* Channels that hold records of the script only.
LEMMA ChanStep ==
    ASSUME IInv, mode' = mode, NEW s, chan' = [p \in Peers |-> s[p]],
           \A p \in Peers : s[p] \in Seq(RecordsOf(p))
    PROVE  ChannelsInv'
<1>1. ASSUME NEW q \in Peers PROVE chan'[q] \in Seq(RecordsOf(q)')
    BY SameMode
<1>2. ASSUME NEW q \in Peers PROVE chan'[q] \in Seq(RecordsOf("client")' \union RecordsOf("server")')
  <2>1. CASE q = "client"
    <3> DEFINE A == RecordsOf("client")'
               B == RecordsOf("server")'
               z == chan'[q]
    <3>1. z \in Seq(A)
      BY <1>1, <2>1
    <3> HIDE DEF A, B, z
    <3>2. z \in Seq(A \union B)
      BY <3>1
    <3> QED BY <3>2 DEF A, B, z
  <2>2. CASE q = "server"
    <3> DEFINE A == RecordsOf("client")'
               B == RecordsOf("server")'
               z == chan'[q]
    <3>1. z \in Seq(B)
      BY <1>1, <2>2
    <3> HIDE DEF A, B, z
    <3>2. z \in Seq(A \union B)
      BY <3>1
    <3> QED BY <3>2 DEF A, B, z
  <2> QED BY <2>1, <2>2 DEF Peers
<1> QED BY <1>1, <1>2 DEF ChannelsInv

\* Leaving the channels alone.
LEMMA ChanSame ==
    ASSUME IInv, mode' = mode, chan' = chan
    PROVE  ChannelsInv'
<1>1. chan' = [p \in Peers |-> chan[p]] /\ \A p \in Peers : chan[p] \in Seq(RecordsOf(p))
    BY DEF IInv, ChannelsInv
<1> QED BY <1>1, ChanStep

\* Records are put behind the ones of one endpoint.
LEMMA ChanAppend ==
    ASSUME IInv, mode' = mode, NEW p \in Peers, NEW s \in Seq(RecordsOf(p)),
           chan' = [chan EXCEPT ![p] = @ \o s]
    PROVE  ChannelsInv'
<1> DEFINE z == chan[p] \o s
           w == [chan EXCEPT ![p] = z]
<1>1. \A q \in Peers : chan[q] \in Seq(RecordsOf(q))
    BY DEF IInv, ChannelsInv
<1>2. z \in Seq(RecordsOf(p))
    BY <1>1
<1>3. chan' = w
    OBVIOUS
<1> HIDE DEF z
<1>4. w = [q \in Peers |-> w[q]] /\ \A q \in Peers : w[q] \in Seq(RecordsOf(q))
  <2>1. DOMAIN chan = Peers /\ chan = [q \in Peers |-> chan[q]]
    BY DEF IInv, ChannelsInv
  <2>2. \A q \in Peers : w[q] = IF q = p THEN z ELSE chan[q]
    BY <2>1
  <2> QED BY <1>1, <1>2, <2>1, <2>2
<1> HIDE DEF w
<1> QED BY <1>3, <1>4, ChanStep

\* An endpoint that differs in no field of any frame keeps its invariant.
LEMMA SameEndpoint ==
    ASSUME NEW p \in Peers, NEW c, EndpointInv(p, c), NEW d \in Conns(p),
           SamePlace(c, d), SameSent(c, d), SameCount(c, d), SameInput(c, d)
    PROVE  EndpointInv(p, d)
<1>1. d.repoch = c.repoch
    BY Zenon DEF SamePlace
<1> QED BY <1>1, SameKeeps DEF EndpointInv

-----------------------------------------------------------------------------
\* Starting a handshake preserves the invariant.
LEMMA ConnectStep == IInv /\ Connect => IInv'
<1> SUFFICES ASSUME IInv, Connect PROVE IInv'
    OBVIOUS
<1> DEFINE c == conn["client"]
           d == [c EXCEPT !.st = "CW_CLNT_HELLO", !.flight = <<"CH">>]
           f == <<"CH">>
<1>0. "client" \in Peers /\ EndpointInv("client", c) /\ c \in Conns("client") /\ c.st = "BEFORE"
    BY DEF IInv, EndpointsInv, EndpointInv, Peers, Connect
<1>1. conn' = [conn EXCEPT !["client"] = d] /\ mode' = mode
    BY DEF Connect
<1>2. f \in Seq(AllTypes) /\ "CW_CLNT_HELLO" \in States
    BY DEF AllTypes, HandshakeTypes, States
<1> HIDE DEF c
<1>3. d \in Conns("client")
  <2>1. d = [c EXCEPT !.st = "CW_CLNT_HELLO", !.flight = f]
    OBVIOUS
  <2> HIDE DEF f, d
  <2> QED BY <1>0, <1>2, <2>1 DEF Conns
<1>4. /\ d.st = "CW_CLNT_HELLO" /\ d.flight = <<"CH">> /\ d.rseq = c.rseq /\ d.nextw = c.nextw
      /\ d.repoch = c.repoch /\ d.wepoch = c.wepoch /\ d.sent = c.sent /\ d.wrls = c.wrls
      /\ SameCount(c, d) /\ SameInput(c, d)
    BY <1>0 DEF Conns, SameCount, SameInput
<1> HIDE DEF d
<1>5. At(c, 0, 0, 0, 0)
    BY <1>0 DEF EndpointInv, Position, ClientPosition
<1>6. Position("client", d)
  <2>1. At(d, 0, 0, 0, 0)
    BY <1>4, <1>5 DEF At
  <2> QED BY <1>4, <2>1 DEF Position, ClientPosition
<1>7. Counts(d) /\ Finisheds(d)
    BY <1>0, <1>3, <1>4, SameKeeps
<1>8. Layers(d)
  <2>1. d.wepoch = 0 /\ c.wepoch = 0
    BY <1>4, <1>5 DEF At
  <2>2. Layers(c)
    BY <1>0 DEF EndpointInv
  <2> QED BY <1>4, <2>1, <2>2 DEF Layers
<1>9. EndpointInv("client", d)
    BY <1>3, <1>6, <1>7, <1>8 DEF EndpointInv
<1>10. EndpointsInv'
    BY <1>0, <1>1, <1>9, ConnStep
<1>11. ChannelsInv'
    BY <1>1, ChanSame DEF Connect
<1> QED BY <1>10, <1>11 DEF IInv, Connect

\* Writing the next message of a flight preserves it.
LEMMA WriteStep == ASSUME NEW p \in Peers PROVE IInv /\ Write(p) => IInv'
<1> SUFFICES ASSUME IInv, Write(p) PROVE IInv'
    OBVIOUS
<1> DEFINE c == conn[p]
           m == NextMessage(c)
           s == Records(m, c.mtu, c.wnum)
           d == WriteMessage(p, c, m)
<1>0. mode \in Modes /\ mode' = mode /\ EndpointInv(p, c) /\ c.flight # <<>>
    BY DEF IInv, EndpointsInv, Write
<1>1. conn' = [conn EXCEPT ![p] = d] /\ chan' = [chan EXCEPT ![p] = @ \o s]
    BY DEF Write
<1> HIDE DEF c
<1>2. EndpointInv(p, d) /\ s \in Seq(RecordsOf(p))
    BY <1>0, WriteMessageStep
<1> HIDE DEF d, s
<1>3. EndpointsInv' /\ ChannelsInv'
    BY <1>0, <1>1, <1>2, ConnStep, ChanAppend
<1> QED BY <1>3 DEF IInv, Write

\* A complete message that is buffered is processed.
LEMMA BufferedMessage ==
    ASSUME mode \in Modes, NEW p \in Peers, NEW c, EndpointInv(p, c), Reading(c), c.st # "OK",
           NEW i \in Ready(p, c), NEW B, B \subseteq c.rbuf
    PROVE  LET c1 == [c EXCEPT !.rbuf = B]
           IN  EndpointInv(p, ProcessMessage(p, IF i.seq < c.rseq THEN RestartSeq(c1) ELSE c1, i))
<1> DEFINE c1 == [c EXCEPT !.rbuf = B]
           q == Other(p)
           t == i.type
           s == i.seq
<1>0. c \in Conns(p) /\ Finisheds(c) /\ c.rbuf \subseteq BufferedOf(q) /\ i \in c.rbuf
    BY DEF EndpointInv, Conns, Ready
<1>1. /\ t \in HandshakeTypes /\ Sends(q, t) /\ s = NumberOf(q, t) /\ s \in Nat
      /\ t = "FIN" => c.repoch = 1 /\ i.mac = FinMac(q)
    BY <1>0 DEF BufferedOf, IsMessage, Finisheds
<1>2. EndpointInv(p, c1) /\ SamePlace(c, c1) /\ SameCount(c, c1)
  <2>1. B \subseteq BufferedOf(Other(p)) /\ \A j \in B : j.type = "FIN" => c.repoch = 1
    BY <1>0 DEF Finisheds
  <2> QED BY <2>1, RbufStep
<1> HIDE DEF c1
<1>3. Reading(c1) /\ c1.st = c.st /\ c1.rseq = c.rseq /\ c1.repoch = c.repoch
    BY <1>2, Zenon DEF SamePlace, SameCount, Reading
<1>4. CASE s < c.rseq
  <2> DEFINE d == RestartSeq(c1)
  <2>1. FirstHelloAgain(p, c, s, t)
    BY <1>0, <1>1, <1>4 DEF Ready, Conns
  <2>2. FirstHelloAgain(p, c1, s, t)
    BY <1>3, <2>1, Zenon DEF FirstHelloAgain
  <2> HIDE DEF s, t
  <2>3. /\ EndpointInv(p, d) /\ Reading(d) /\ d.rseq = 0 /\ d.st = c1.st /\ t = "CH" /\ s = 0
    BY <1>2, <1>3, <2>2, RestartStep
  <2> HIDE DEF d
  <2>4. d.st # "OK" /\ NumberOf(q, t) = d.rseq /\ t # "FIN"
    BY <1>1, <1>3, <2>3
  <2>5. EndpointInv(p, ProcessMessage(p, d, i))
    BY <1>1, <2>3, <2>4, ProcessMessageStep DEF t
  <2> QED BY <1>4, <2>5, Zenon DEF c1, d, s
<1>5. CASE ~(s < c.rseq)
  <2>1. s = c.rseq
    <3>1. s = c.rseq \/ FirstHelloAgain(p, c, s, t)
      BY DEF Ready
    <3> QED BY <1>5, <3>1 DEF FirstHelloAgain
  <2>2. NumberOf(q, t) = c1.rseq /\ c1.st # "OK"
    BY <1>1, <1>3, <2>1
  <2>3. t = "FIN" => c1.repoch = 1 /\ i.mac = FinMac(q)
    BY <1>1, <1>3
  <2>4. EndpointInv(p, ProcessMessage(p, c1, i))
    BY <1>1, <1>2, <1>3, <2>2, <2>3, ProcessMessageStep
  <2> QED BY <1>5, <2>4, Zenon DEF c1
<1> QED BY <1>4, <1>5

\* Reading a message from the buffer of early ones preserves it.
LEMMA ReadBufferedStep == ASSUME NEW p \in Peers PROVE IInv /\ ReadBuffered(p) => IInv'
<1> SUFFICES ASSUME IInv, ReadBuffered(p) PROVE IInv'
    OBVIOUS
<1> DEFINE c == conn[p]
<1>0. mode \in Modes /\ mode' = mode /\ EndpointInv(p, c) /\ Reading(c) /\ c.st # "OK"
    BY DEF IInv, EndpointsInv, ReadBuffered
<1>1. PICK i \in Ready(p, c) :
        LET c1 == [c EXCEPT !.rbuf = @ \ (Stale(p, c) \union {i})]
        IN  conn' = [conn EXCEPT ![p] =
                        ProcessMessage(p, IF i.seq < c.rseq THEN RestartSeq(c1) ELSE c1, i)]
    BY Zenon DEF ReadBuffered
<1> DEFINE B == c.rbuf \ (Stale(p, c) \union {i})
           c1 == [c EXCEPT !.rbuf = B]
           d == ProcessMessage(p, IF i.seq < c.rseq THEN RestartSeq(c1) ELSE c1, i)
<1>2. conn' = [conn EXCEPT ![p] = d]
  <2>1. [c EXCEPT !.rbuf = @ \ (Stale(p, c) \union {i})] = c1
    BY <1>0 DEF EndpointInv, Conns
  <2> HIDE DEF c1
  <2> QED BY <1>1, <2>1, Zenon
<1>3. B \subseteq c.rbuf
    OBVIOUS
<1> HIDE DEF c, B
<1>4. EndpointInv(p, d)
    BY <1>0, <1>3, BufferedMessage
<1> HIDE DEF d
<1>5. EndpointsInv' /\ ChannelsInv'
    BY <1>0, <1>2, <1>4, ConnStep, ChanSame DEF ReadBuffered
<1> QED BY <1>5 DEF IInv, ReadBuffered

\* Noting that application data was read keeps the types.
LEMMA DeliveredType ==
    ASSUME IInv, NEW p \in Peers, NEW r
    PROVE  Delivered(p, r) \in [Peers -> Fates]
<1>1. data \in [Peers -> Fates] /\ Other(p) \in Peers /\ "read" \in Fates
    BY OtherPeer DEF IInv, Fates
<1> QED BY <1>1 DEF Delivered

\* A record is taken from the record layer, after the buffer is tidied.
LEMMA RecordTaken ==
    ASSUME mode \in Modes, NEW p \in Peers, NEW c, EndpointInv(p, c), Reading(c),
           NEW r \in RecordsOf(Other(p))
    PROVE  /\ EndpointInv(p, ReadRecord(p, DropStale(p, c), r))
           /\ Answer(DropStale(p, c), r) \in Seq(RecordsOf(p))
<1> DEFINE d == DropStale(p, c)
<1>1. EndpointInv(p, d) /\ SamePlace(c, d) /\ SameCount(c, d)
    BY DropStaleStep
<1> HIDE DEF d
<1>2. Reading(d)
    BY <1>1, Zenon DEF Reading, SamePlace, SameCount
<1>3. EndpointInv(p, ReadRecord(p, d, r)) /\ Answer(d, r) \in Seq(RecordsOf(p))
    BY <1>1, <1>2, ReadRecordStep, AnswerType
<1> QED BY <1>3 DEF d

\* Reading a record that was kept for the new epoch preserves it.
LEMMA ReadPendingStep == ASSUME NEW p \in Peers PROVE IInv /\ ReadPending(p) => IInv'
<1> SUFFICES ASSUME IInv, ReadPending(p) PROVE IInv'
    OBVIOUS
<1> DEFINE c == conn[p]
           r == Head(c.pend)
           q == Tail(c.pend)
           c1 == [c EXCEPT !.pend = q]
           d == ReadRecord(p, DropStale(p, c1), r)
           s == Answer(DropStale(p, c1), r)
<1>0. /\ mode \in Modes /\ mode' = mode /\ faults' = faults /\ EndpointInv(p, c) /\ Reading(c)
      /\ c \in Conns(p) /\ c.pend # <<>> /\ data' = Delivered(p, r)
    BY DEF IInv, EndpointsInv, EndpointInv, ReadPending, MayRead
<1>1. conn' = [conn EXCEPT ![p] = d] /\ chan' = [chan EXCEPT ![p] = @ \o s]
  <2>1. [conn[p] EXCEPT !.pend = Tail(@)] = c1
    BY <1>0 DEF Conns
  <2> HIDE DEF c1
  <2> QED BY <2>1, Zenon DEF ReadPending
<1>2. r \in RecordsOf(Other(p)) /\ q \in Seq(RecordsOf(Other(p)))
  <2> DEFINE z == c.pend
             S == RecordsOf(Other(p))
  <2>1. z \in Seq(S) /\ z # <<>>
    BY <1>0 DEF Conns
  <2> HIDE DEF z, S
  <2>2. Head(z) \in S /\ Tail(z) \in Seq(S)
    BY <2>1
  <2> QED BY <2>2 DEF z, S
<1> HIDE DEF c, r, q
<1>3. EndpointInv(p, c1)
    BY <1>0, <1>2, QueueStep
<1>4. Reading(c1)
    BY <1>0 DEF Reading, Conns
<1> HIDE DEF c1
<1>5. EndpointInv(p, d) /\ s \in Seq(RecordsOf(p))
    BY <1>0, <1>2, <1>3, <1>4, RecordTaken
<1> HIDE DEF d, s
<1>6. EndpointsInv' /\ ChannelsInv'
    BY <1>0, <1>1, <1>5, ConnStep, ChanAppend
<1>7. data' \in [Peers -> Fates]
    BY <1>0, DeliveredType
<1> QED BY <1>0, <1>6, <1>7 DEF IInv

\* Receiving any record on the wire, in any order, preserves it.
LEMMA ReceiveStep ==
    ASSUME NEW p \in Peers, NEW i \in DOMAIN chan[Other(p)] PROVE IInv /\ Receive(p, i) => IInv'
<1> SUFFICES ASSUME IInv, Receive(p, i) PROVE IInv'
    OBVIOUS
<1> DEFINE o == Other(p)
           c == conn[p]
           r == chan[o][i]
           d == ReadRecord(p, DropStale(p, c), r)
           s == Answer(DropStale(p, c), r)
           rest == RemoveAt(chan[o], i)
           more == chan[p] \o s
           w == [chan EXCEPT ![o] = rest, ![p] = more]
<1>0. /\ mode \in Modes /\ mode' = mode /\ EndpointInv(p, c) /\ Reading(c)
      /\ data' = Delivered(p, r) /\ (i = 1 \/ faults < MaxFaults)
      /\ faults' = IF i = 1 THEN faults ELSE faults + 1
    BY DEF IInv, EndpointsInv, Receive, MayRead
<1>1. /\ \A q \in Peers : chan[q] \in Seq(RecordsOf(q))
      /\ DOMAIN chan = Peers /\ o \in Peers /\ o # p
    BY OtherPeer DEF IInv, ChannelsInv
<1>2. r \in RecordsOf(o) /\ i \in 1 .. Len(chan[o]) /\ rest \in Seq(RecordsOf(o))
  <2> DEFINE z == chan[o]
             S == RecordsOf(o)
  <2>1. z \in Seq(S) /\ i \in DOMAIN z
    BY <1>1
  <2> HIDE DEF z, S, o
  <2>2. z[i] \in S /\ i \in 1 .. Len(z)
    BY <2>1
  <2>3. RemoveAt(z, i) \in Seq(S)
    BY <2>1, <2>2, RemoveAtType
  <2> QED BY <2>2, <2>3 DEF z, S
<1>3. conn' = [conn EXCEPT ![p] = d]
    BY Zenon DEF Receive
<1>4. chan' = w
  <2>1. chan' = [chan EXCEPT ![o] = RemoveAt(@, i), ![p] = @ \o s]
    BY Zenon DEF Receive
  <2> HIDE DEF o, s
  <2> QED BY <1>1, <2>1
<1> HIDE DEF r, c
<1>5. EndpointInv(p, d) /\ s \in Seq(RecordsOf(p))
    BY <1>0, <1>2, RecordTaken DEF o
<1> HIDE DEF d, s, rest, o
<1>6. more \in Seq(RecordsOf(p))
    BY <1>1, <1>5
<1> HIDE DEF more
<1>7. ChannelsInv'
  <2>1. w = [q \in Peers |-> w[q]] /\ \A q \in Peers : w[q] = IF q = p THEN more ELSE IF q = o THEN rest ELSE chan[q]
    <3>1. chan = [q \in Peers |-> chan[q]]
      BY DEF IInv, ChannelsInv
    <3> QED BY <1>1, <3>1
  <2>2. \A q \in Peers : w[q] \in Seq(RecordsOf(q))
    BY <1>1, <1>2, <1>6, <2>1
  <2> HIDE DEF w
  <2> QED BY <1>0, <1>4, <2>1, <2>2, ChanStep
<1>8. EndpointsInv'
    BY <1>0, <1>3, <1>5, ConnStep
<1>9. data' \in [Peers -> Fates]
    BY <1>0, DeliveredType
<1>10. faults' \in 0 .. MaxFaults
    BY <1>0, BoundAssumption DEF IInv
<1> QED BY <1>0, <1>7, <1>8, <1>9, <1>10 DEF IInv

\* Reading application data that was buffered preserves it.
LEMMA ReadBufferedDataStep == ASSUME NEW p \in Peers PROVE IInv /\ ReadBufferedData(p) => IInv'
<1> SUFFICES ASSUME IInv, ReadBufferedData(p) PROVE IInv'
    OBVIOUS
<1> DEFINE c == conn[p]
           q == Tail(c.appbuf)
           d == [c EXCEPT !.appbuf = q]
<1>0. /\ mode' = mode /\ faults' = faults /\ chan' = chan /\ EndpointInv(p, c) /\ c \in Conns(p)
      /\ c.appbuf # <<>> /\ data' = Delivered(p, Head(c.appbuf))
    BY DEF IInv, EndpointsInv, EndpointInv, ReadBufferedData
<1>1. conn' = [conn EXCEPT ![p] = d]
    BY <1>0 DEF ReadBufferedData, Conns
<1>2. q \in Seq(RecordsOf(Other(p)))
  <2> DEFINE z == c.appbuf
             S == RecordsOf(Other(p))
  <2>1. z \in Seq(S) /\ z # <<>>
    BY <1>0 DEF Conns
  <2> HIDE DEF z, S
  <2>2. Tail(z) \in Seq(S)
    BY <2>1
  <2> QED BY <2>2 DEF z, S
<1> HIDE DEF c, q
<1>3. EndpointInv(p, d)
    BY <1>0, <1>2, QueueStep
<1> HIDE DEF d
<1>4. EndpointsInv' /\ ChannelsInv'
    BY <1>0, <1>1, <1>3, ConnStep, ChanSame
<1>5. data' \in [Peers -> Fates]
    BY <1>0, DeliveredType
<1> QED BY <1>0, <1>4, <1>5 DEF IInv

\* Writing application data preserves it.
LEMMA WriteDataStep == ASSUME NEW p \in Peers PROVE IInv /\ WriteData(p) => IInv'
<1> SUFFICES ASSUME IInv, WriteData(p) PROVE IInv'
    OBVIOUS
<1> DEFINE c == conn[p]
           n == c.wnum + 1
           d == [c EXCEPT !.wnum = n]
           r == [epoch |-> c.wepoch, prio |-> n, type |-> "DATA",
                 seq |-> 0, mac |-> <<>>, off |-> 0, len |-> 1]
           s == <<r>>
<1>0. /\ mode' = mode /\ faults' = faults /\ EndpointInv(p, c) /\ c \in Conns(p)
      /\ c.st = "OK" /\ c.flight = <<>> /\ data' = [data EXCEPT ![p] = "sent"]
    BY DEF IInv, EndpointsInv, EndpointInv, WriteData, Reading
<1>1. conn' = [conn EXCEPT ![p] = d]
    BY <1>0 DEF WriteData, Conns
<1>2. c.wepoch = 1
  <2>1. CASE p = "client"
    BY <1>0, <2>1 DEF EndpointInv, Position, ClientPosition, At
  <2>2. CASE p = "server"
    BY <1>0, <2>2 DEF EndpointInv, Position, ServerPosition, At
  <2> QED BY <2>1, <2>2 DEF Peers
<1>3. r \in RecordsOf(p)
  <2> DEFINE mac == <<>>
  <2>1. "DATA" \in AllTypes /\ "DATA" \notin HandshakeTypes /\ mac \in Hashes /\ n \in Nat
    BY <1>0 DEF AllTypes, HandshakeTypes, Hashes, Conns
  <2>2. r = [epoch |-> 1, prio |-> n, type |-> "DATA", seq |-> 0, mac |-> mac, off |-> 0, len |-> 1]
    BY <1>2
  <2> HIDE DEF r, mac, n
  <2> QED BY <2>1, <2>2 DEF RecordsOf
<1>4. chan' = [chan EXCEPT ![p] = @ \o s]
  <2>1. chan' = [chan EXCEPT ![p] = Append(@, r)]
    BY Zenon DEF WriteData
  <2>2. Append(chan[p], r) = chan[p] \o s
    <3> DEFINE z == chan[p]
               S == RecordsOf(p)
    <3>1. z \in Seq(S) /\ r \in S
      BY <1>3 DEF IInv, ChannelsInv
    <3> HIDE DEF z, S, r
    <3>2. Append(z, r) = z \o <<r>>
      BY <3>1
    <3> QED BY <3>2 DEF z
  <2> HIDE DEF s, r
  <2> QED BY <2>1, <2>2
<1>5. s \in Seq(RecordsOf(p))
  <2> HIDE DEF r
  <2> QED BY <1>3
<1>6. n \in Nat
    BY <1>0 DEF Conns
<1> HIDE DEF c, n, s
<1>7. d \in Conns(p)
    BY <1>0, <1>6 DEF Conns
<1>8. SamePlace(c, d) /\ SameSent(c, d) /\ SameCount(c, d) /\ SameInput(c, d)
    BY <1>0 DEF Conns, SamePlace, SameSent, SameCount, SameInput
<1> HIDE DEF d
<1>9. EndpointInv(p, d)
    BY <1>0, <1>7, <1>8, SameEndpoint
<1>10. EndpointsInv' /\ ChannelsInv'
    BY <1>0, <1>1, <1>4, <1>5, <1>9, ConnStep, ChanAppend
<1>11. data' \in [Peers -> Fates]
    BY <1>0 DEF IInv, Fates
<1> QED BY <1>0, <1>10, <1>11 DEF IInv

\* A timeout, with its retransmission or the failure of the connection,
\* preserves it.
LEMMA TimeoutStep == ASSUME NEW p \in Peers PROVE IInv /\ Timeout(p) => IInv'
<1> SUFFICES ASSUME IInv, Timeout(p) PROVE IInv'
    OBVIOUS
<1> DEFINE c == conn[p]
           x == IF 2 * c.dur > MaxTimeout THEN MaxTimeout ELSE 2 * c.dur
           c1 == [c EXCEPT !.dur = x]
           d == CheckTimeoutNum(c1)
           e == StartTimer(Retransmitted(d))
           f == IF d.failed = "no" THEN e ELSE d
           s == IF d.failed = "no" THEN Retransmission(d) ELSE <<>>
<1>0. /\ mode \in Modes /\ mode' = mode /\ faults' = faults /\ data' = data
      /\ EndpointInv(p, c) /\ c \in Conns(p) /\ Reading(c)
    BY DEF IInv, EndpointsInv, EndpointInv, Timeout
<1>1. x \in 1 .. MaxTimeout
  <2>1. c.dur \in 1 .. MaxTimeout
    BY <1>0 DEF Conns
  <2> QED BY <2>1 DEF MaxTimeout
<1>2. conn' = [conn EXCEPT ![p] = f] /\ chan' = [chan EXCEPT ![p] = IF d.failed = "no" THEN @ \o Retransmission(d) ELSE @]
  <2>1. [c EXCEPT !.dur = IF 2 * @ > MaxTimeout THEN MaxTimeout ELSE 2 * @] = c1
    BY <1>0 DEF Conns
  <2> HIDE DEF c1
  <2> QED BY <2>1, Zenon DEF Timeout
<1> HIDE DEF c, x
<1>3. /\ c1 \in Conns(p) /\ SamePlace(c, c1) /\ SameSent(c, c1) /\ SameCount(c, c1)
      /\ SameInput(c, c1)
  <2>1. c1 \in Conns(p)
    BY <1>0, <1>1 DEF Conns
  <2> QED BY <1>0, <2>1 DEF Conns, SamePlace, SameSent, SameCount, SameInput
<1> HIDE DEF c1
<1>4. c1.failed = "no" /\ c1.num <= TmoAlertCount
    BY <1>0, <1>3 DEF EndpointInv, Counts, Reading, SameCount
<1>5. /\ d \in Conns(p) /\ Counts(d) /\ SameInput(c1, d) /\ SamePlace(c1, d) /\ SameSent(c1, d)
    BY <1>3, <1>4, CheckTimeoutNumType
<1> HIDE DEF d
<1>6. EndpointInv(p, d)
  <2>1. SameInput(c, d) /\ SamePlace(c, d) /\ SameSent(c, d)
    BY <1>3, <1>5, Zenon DEF SameInput, SamePlace, SameSent
  <2>2. d.repoch = c.repoch
    BY <2>1, Zenon DEF SamePlace
  <2> QED BY <1>0, <1>5, <2>1, <2>2, SameKeeps DEF EndpointInv
<1>7. EndpointInv(p, e) /\ Retransmission(d) \in Seq(RecordsOf(p))
  <2> DEFINE g == Retransmitted(d)
  <2>1. /\ g \in Conns(p) /\ SameInput(d, g) /\ SamePlace(d, g) /\ SameSent(d, g) /\ SameCount(d, g)
        /\ Retransmission(d) \in Seq(RecordsOf(p))
    BY <1>0, <1>5, RetransmittedType
  <2> HIDE DEF g
  <2>2. EndpointInv(p, g)
    BY <1>6, <2>1, SameEndpoint
  <2> DEFINE h == StartTimer(g)
  <2>3. /\ h \in Conns(p) /\ SameInput(g, h) /\ SamePlace(g, h) /\ SameSent(g, h) /\ SameCount(g, h)
    BY <2>1, StartTimerType
  <2> HIDE DEF h
  <2>4. EndpointInv(p, h)
    BY <2>2, <2>3, SameEndpoint
  <2> QED BY <2>1, <2>4 DEF g, h
<1> HIDE DEF e
<1>8. EndpointInv(p, f)
    BY <1>6, <1>7
<1>9. EndpointsInv'
  <2> HIDE DEF f
  <2> QED BY <1>0, <1>2, <1>8, ConnStep
<1>10. ChannelsInv'
  <2>1. CASE d.failed = "no"
    <3>1. chan' = [chan EXCEPT ![p] = @ \o Retransmission(d)]
      BY <1>2, <2>1
    <3> QED BY <1>0, <1>7, <3>1, ChanAppend
  <2>2. CASE d.failed # "no"
    <3>1. chan' = chan
      BY <1>2, <2>2 DEF IInv, ChannelsInv
    <3> QED BY <1>0, <3>1, ChanSame
  <2> QED BY <2>1, <2>2
<1> QED BY <1>0, <1>9, <1>10 DEF IInv

\* The passing of time preserves it.
LEMMA TickStep == IInv /\ Tick => IInv'
<1> SUFFICES ASSUME IInv, Tick PROVE IInv'
    OBVIOUS
<1> DEFINE L == {conn[p].left : p \in Running}
           d == CHOOSE n \in L : \A p \in Running : n <= conn[p].left
           e(p) == IF p \in Running THEN [conn[p] EXCEPT !.left = @ - d] ELSE conn[p]
<1>0. /\ mode' = mode /\ data' = data /\ chan' = chan /\ conn' = [p \in Peers |-> e(p)]
      /\ Running # {} /\ \A p \in Running : conn[p].left > 0
      /\ Quiet \/ faults < MaxFaults
      /\ faults' = IF Quiet THEN faults ELSE faults + 1
    BY Zenon DEF Tick
<1>1. \A p \in Peers : EndpointInv(p, conn[p]) /\ conn[p] \in Conns(p)
    BY DEF IInv, EndpointsInv, EndpointInv
<1>2. \A p \in Running : p \in Peers /\ conn[p].left \in 0 .. MaxTimeout
    BY <1>1 DEF Running, Conns, MaxTimeout
<1>3. d \in L /\ \A p \in Running : d <= conn[p].left
  <2>1. \E n \in L : \A p \in Running : n <= conn[p].left
    <3>1. L \subseteq Nat /\ L # {}
      BY <1>0, <1>2
    <3> HIDE DEF L
    <3>2. PICK n \in L : \A y \in L : n <= y
      BY <3>1, Least
    <3>3. \A p \in Running : conn[p].left \in L
      BY DEF L
    <3> QED BY <3>2, <3>3
  <2> HIDE DEF L
  <2> QED BY <2>1
<1> HIDE DEF d
<1>4. d \in Nat
    BY <1>2, <1>3
<1>5. ASSUME NEW p \in Peers PROVE EndpointInv(p, e(p))
  <2>1. CASE p \in Running
    <3> DEFINE c == conn[p]
               l == c.left - d
               f == [c EXCEPT !.left = l]
    <3>0. c \in Conns(p) /\ EndpointInv(p, c)
      BY <1>1
    <3>1. l \in {Off} \union 0 .. MaxTimeout
      <4>1. d \in Nat /\ d <= c.left /\ c.left \in 0 .. MaxTimeout
        BY <1>2, <1>3, <1>4, <2>1
      <4> HIDE DEF c
      <4> QED BY <4>1 DEF MaxTimeout
    <3>2. e(p) = f
      BY <2>1, <3>0 DEF Conns
    <3> HIDE DEF c, l
    <3>3. f \in Conns(p)
      BY <3>0, <3>1 DEF Conns
    <3>4. SamePlace(c, f) /\ SameSent(c, f) /\ SameCount(c, f) /\ SameInput(c, f)
      BY <3>0 DEF Conns, SamePlace, SameSent, SameCount, SameInput
    <3> HIDE DEF f
    <3>5. EndpointInv(p, f)
      BY <3>0, <3>3, <3>4, SameEndpoint
    <3> QED BY <3>2, <3>5
  <2>2. CASE p \notin Running
    BY <1>1, <2>2
  <2> QED BY <2>1, <2>2
<1> HIDE DEF e
<1>6. ASSUME NEW q \in Peers PROVE EndpointInv(q, conn[q])'
  <2>1. conn'[q] = e(q)
    BY <1>0
  <2>2. EndpointInv(q, conn'[q])
    BY <1>5, <2>1
  <2> QED BY <1>0, <2>2, SameMode
<1>7. EndpointsInv'
  <2>1. ASSUME NEW q \in Peers PROVE conn'[q] \in (Conns("client") \union Conns("server"))'
    <3>1. conn'[q] \in Conns(q)'
      BY <1>6 DEF EndpointInv
    <3> QED BY <3>1 DEF Peers
  <2>2. conn' = [q \in Peers |-> conn'[q]]
    BY <1>0
  <2> QED BY <1>6, <2>1, <2>2 DEF EndpointsInv
<1>8. ChannelsInv'
    BY <1>0, ChanSame
<1>9. faults' \in 0 .. MaxFaults
    BY <1>0, BoundAssumption DEF IInv
<1> QED BY <1>0, <1>7, <1>8, <1>9 DEF IInv

\* Losing a record preserves it.
LEMMA LoseStep ==
    ASSUME NEW p \in Peers, NEW i \in DOMAIN chan[p] PROVE IInv /\ Lose(p, i) => IInv'
<1> SUFFICES ASSUME IInv, Lose(p, i) PROVE IInv'
    OBVIOUS
<1> DEFINE rest == RemoveAt(chan[p], i)
           w == [chan EXCEPT ![p] = rest]
<1>0. /\ mode' = mode /\ conn' = conn /\ faults < MaxFaults /\ faults' = faults + 1
      /\ chan' = w
      /\ data' = IF chan[p][i].type = "DATA" THEN [data EXCEPT ![p] = "lost"] ELSE data
    BY DEF Lose
<1>1. \A q \in Peers : chan[q] \in Seq(RecordsOf(q))
    BY DEF IInv, ChannelsInv
<1>2. rest \in Seq(RecordsOf(p))
  <2> DEFINE z == chan[p]
             S == RecordsOf(p)
  <2>1. z \in Seq(S) /\ i \in 1 .. Len(z)
    BY <1>1
  <2> HIDE DEF z, S
  <2>2. RemoveAt(z, i) \in Seq(S)
    BY <2>1, RemoveAtType
  <2> QED BY <2>2 DEF z, S
<1> HIDE DEF rest
<1>3. w = [q \in Peers |-> w[q]] /\ \A q \in Peers : w[q] = IF q = p THEN rest ELSE chan[q]
    BY DEF IInv, ChannelsInv
<1>4. \A q \in Peers : w[q] \in Seq(RecordsOf(q))
    BY <1>1, <1>2, <1>3
<1> HIDE DEF w
<1>5. ChannelsInv'
    BY <1>0, <1>3, <1>4, ChanStep
<1>6. EndpointsInv'
    BY <1>0, ConnSame
<1>7. data' \in [Peers -> Fates]
    BY <1>0 DEF IInv, Fates
<1>8. faults' \in 0 .. MaxFaults
    BY <1>0, BoundAssumption DEF IInv
<1> QED BY <1>0, <1>5, <1>6, <1>7, <1>8 DEF IInv

\* The invariant holds initially.
LEMMA InitStep == Init => IInv
<1> SUFFICES ASSUME Init PROVE IInv
    OBVIOUS
<1> DEFINE c == NewConn
           d == [c EXCEPT !.st = "LISTEN"]
           z == <<>>
<1>0. /\ mode \in Modes /\ faults = 0 /\ data = [p \in Peers |-> "none"]
      /\ chan = [p \in Peers |-> z]
      /\ conn = [p \in Peers |-> IF p = "server" THEN d ELSE c]
    BY DEF Init
<1>1. /\ z \in Hashes /\ z \in Seq(AllTypes) /\ Range(z) = {}
      /\ \A p : z \in Seq(RecordsOf(p)) /\ z \in Seq(SentOf(p))
    BY DEF Hashes, Range
<1>2. c = [st |-> "BEFORE", failed |-> "no", rseq |-> 0, nextw |-> 0, repoch |-> 0, wepoch |-> 0,
           rbuf |-> {}, unproc |-> z, pend |-> z, appbuf |-> z, sent |-> z, wrls |-> {0},
           wnum |-> 0, flight |-> z, left |-> Off, dur |-> 1, num |-> 0, mtu |-> Mtu, hash |-> z]
    BY DEF NewConn
<1>3. z = <<>>
    OBVIOUS
<1> HIDE DEF c, z
<1>4. \A p : c \in Conns(p)
  <2>1. /\ "BEFORE" \in States /\ 1 \in 1 .. MaxTimeout /\ 0 \in 0 .. TmoAlertCount + 1
        /\ Mtu \in 1 .. Mtu /\ Off \in {Off} \union 0 .. MaxTimeout
    BY LengthAssumption, BoundAssumption DEF States, MaxTimeout
  <2> QED BY <1>1, <1>2, <2>1 DEF Conns
<1>5. /\ c.st = "BEFORE" /\ c.failed = "no" /\ c.rseq = 0 /\ c.nextw = 0 /\ c.repoch = 0
      /\ c.wepoch = 0 /\ c.rbuf = {} /\ c.sent = z /\ c.wrls = {0} /\ c.flight = z
      /\ c.num = 0 /\ c.hash = z
    BY <1>2
<1>6. /\ d \in Conns("server") /\ d.st = "LISTEN" /\ d.failed = "no" /\ d.rseq = 0 /\ d.nextw = 0
      /\ d.repoch = 0 /\ d.wepoch = 0 /\ d.rbuf = {} /\ d.sent = z /\ d.wrls = {0}
      /\ d.flight = z /\ d.num = 0 /\ d.hash = z
  <2>1. c \in Conns("server") /\ "LISTEN" \in States
    BY <1>4 DEF States
  <2>2. d \in Conns("server")
    BY <2>1 DEF Conns
  <2> QED BY <1>5, <2>1, <2>2 DEF Conns
<1> HIDE DEF d
<1>7. EndpointInv("client", c)
  <2>1. At(c, 0, 0, 0, 0) /\ At(d, 0, 0, 0, 0)
    BY <1>5, <1>6 DEF At
  <2>2. Position("client", c)
    BY <1>3, <1>5, <2>1 DEF Position, ClientPosition
  <2>3. Counts(c) /\ Layers(c) /\ Finisheds(c)
    BY <1>1, <1>3, <1>5, BoundAssumption DEF Counts, Layers, Finisheds
  <2> QED BY <1>4, <2>2, <2>3 DEF EndpointInv
<1>8. EndpointInv("server", d)
  <2>1. At(d, 0, 0, 0, 0)
    BY <1>6 DEF At
  <2>2. Position("server", d)
    BY <1>3, <1>6, <2>1 DEF Position, ServerPosition
  <2>3. Counts(d) /\ Layers(d) /\ Finisheds(d)
    BY <1>1, <1>3, <1>6, BoundAssumption DEF Counts, Layers, Finisheds
  <2> QED BY <1>6, <2>2, <2>3 DEF EndpointInv
<1>9. EndpointsInv
  <2>1. \A p \in Peers : EndpointInv(p, conn[p])
    BY <1>0, <1>7, <1>8 DEF Peers
  <2>2. \A p \in Peers : conn[p] \in Conns("client") \union Conns("server")
    BY <1>0, <1>4, <1>6
  <2> QED BY <1>0, <2>1, <2>2 DEF EndpointsInv
<1>10. ChannelsInv
  <2> DEFINE A == RecordsOf("client")
             B == RecordsOf("server")
  <2>1. z \in Seq(A \union B)
    BY <1>3
  <2>2. \A p \in Peers : chan[p] \in Seq(RecordsOf(p))
    BY <1>0, <1>1
  <2>3. chan \in [Peers -> Seq(A \union B)]
    <3> HIDE DEF A, B
    <3> QED BY <1>0, <2>1
  <2> QED BY <2>2, <2>3 DEF ChannelsInv
<1>11. data \in [Peers -> Fates] /\ faults \in 0 .. MaxFaults
    BY <1>0, BoundAssumption DEF Fates
<1> QED BY <1>0, <1>9, <1>10, <1>11 DEF IInv

\* Every step preserves it.
LEMMA NextStep == IInv /\ [Next]_vars => IInv'
<1> SUFFICES ASSUME IInv, [Next]_vars PROVE IInv'
    OBVIOUS
<1>1. CASE Connect
    BY <1>1, ConnectStep
<1>2. CASE Tick
    BY <1>2, TickStep
<1>3. ASSUME NEW p \in Peers, Write(p) PROVE IInv'
    BY <1>3, WriteStep
<1>4. ASSUME NEW p \in Peers, ReadBuffered(p) PROVE IInv'
    BY <1>4, ReadBufferedStep
<1>5. ASSUME NEW p \in Peers, ReadPending(p) PROVE IInv'
    BY <1>5, ReadPendingStep
<1>6. ASSUME NEW p \in Peers, ReadBufferedData(p) PROVE IInv'
    BY <1>6, ReadBufferedDataStep
<1>7. ASSUME NEW p \in Peers, WriteData(p) PROVE IInv'
    BY <1>7, WriteDataStep
<1>8. ASSUME NEW p \in Peers, Timeout(p) PROVE IInv'
    BY <1>8, TimeoutStep
<1>9. ASSUME NEW p \in Peers, NEW i \in DOMAIN chan[Other(p)], Receive(p, i) PROVE IInv'
    BY <1>9, ReceiveStep
<1>10. ASSUME NEW p \in Peers, NEW i \in DOMAIN chan[p], Lose(p, i) PROVE IInv'
    BY <1>10, LoseStep
<1>11. CASE UNCHANGED vars
  <2>1. mode' = mode /\ conn' = conn /\ chan' = chan /\ data' = data /\ faults' = faults
    BY <1>11 DEF vars
  <2>2. EndpointsInv' /\ ChannelsInv'
    BY <2>1, ConnSame, ChanSame
  <2> QED BY <2>1, <2>2 DEF IInv
<1> QED BY <1>1, <1>2, <1>3, <1>4, <1>5, <1>6, <1>7, <1>8, <1>9, <1>10, <1>11 DEF Next

-----------------------------------------------------------------------------
(* The theorems *)

\* The inductive invariant holds of every handshake: messages of any lengths,
\* datagrams of any size, any limits and any number of faults.
THEOREM Invariance == Spec => []IInv
<1>1. Init => IInv
    BY InitStep
<1>2. IInv /\ [Next]_vars => IInv'
    BY NextStep
<1> QED BY <1>1, <1>2, PTL DEF Spec

\* Type correctness: an endpoint reads only in a state in which it may read,
\* its epochs are the first two, and its timer and its count stay within bounds.
THEOREM TypeCorrect == Spec => []TypeOK
<1>1. IInv => TypeOK
  <2> SUFFICES ASSUME IInv PROVE TypeOK
    OBVIOUS
  <2>1. ASSUME NEW p \in Peers PROVE conn[p] \in Conns(p)
    BY DEF IInv, EndpointsInv, EndpointInv
  <2>2. ASSUME NEW p \in Peers
        PROVE  /\ conn[p].st \in States
               /\ conn[p].rseq \in Nat /\ conn[p].nextw \in Nat
               /\ conn[p].left \in {Off} \union 0 .. MaxTimeout
               /\ conn[p].num \in 0 .. TmoAlertCount + 1
               /\ conn[p].repoch \in {0, 1} /\ conn[p].wepoch \in {0, 1}
    BY <2>1 DEF Conns
  <2> QED BY <2>2 DEF IInv, TypeOK, States, Fates
<1> QED BY <1>1, Invariance, PTL

\* Whatever is lost, late, out of order or sent again, a handshake fails by the
\* limit on timeouts only: no message comes where the state machine does not take
\* it, no Finished disagrees with what the peer has hashed.
THEOREM FailsOnlyByTimeout == Spec => []OnlyTimeoutsFail
<1>1. IInv => OnlyTimeoutsFail
  <2> SUFFICES ASSUME IInv, NEW p \in Peers PROVE conn[p].failed \in {"no", "timeout"}
    BY DEF OnlyTimeoutsFail
  <2>1. conn[p] \in Conns(p)
    BY DEF IInv, EndpointsInv, EndpointInv
  <2> QED BY <2>1 DEF Conns
<1> QED BY <1>1, Invariance, PTL

\* The write record layers that dtls1_clear_sent_buffer and the change of write
\* state leave are the one in use and those of messages that may be sent again.
THEOREM LayersAreKept == Spec => []LayersKept
<1>1. IInv => LayersKept
    BY DEF IInv, EndpointsInv, EndpointInv, Layers, LayersKept
<1> QED BY <1>1, Invariance, PTL

\* The bitmask of a message in reassembly says complete when all of its bytes,
\* cut in whatever fragments, are there, and not before.
THEOREM ReassemblyIsExact == Spec => []ReassembledWhole
<1>1. IInv => ReassembledWhole
  <2> SUFFICES ASSUME IInv, NEW p \in Peers, NEW i \in conn[p].rbuf
               PROVE  i.complete <=> i.bytes = 0 .. MsgLen[i.type] - 1
    BY DEF ReassembledWhole
  <2>1. conn[p] \in Conns(p)
    BY DEF IInv, EndpointsInv, EndpointInv
  <2>2. i \in BufferedOf(Other(p))
    BY <2>1 DEF Conns
  <2> QED BY <2>2 DEF BufferedOf
<1> QED BY <1>1, Invariance, PTL

-----------------------------------------------------------------------------
(* The record layers: what a record and a window are *)

Record == [seq : Seqs, good : BOOLEAN]
Bitmap == [max : Seqs, map : SUBSET (0 .. Window - 1)]

-----------------------------------------------------------------------------
(* The inductive invariant *)

\* Nothing is handed up twice, and nothing of an epoch to come.
OnceInv == \A e \in Epochs, s \in Seqs : /\ handed[<<e, s>>] \in {0, 1}
                                         /\ handed[<<e, s>>] = 1 => e <= epoch

\* The bits of the window stand for the records handed up, and all of those
\* are at most the highest number.
WindowInv ==
    /\ \A s \in Seqs : handed[<<epoch, s>>] = 1 => s <= bitmap.max
    /\ bitmap.max # 0 => handed[<<epoch, bitmap.max>>] = 1
    /\ \A s \in Seqs :
          s <= bitmap.max /\ bitmap.max - s < Window =>
              (bitmap.max - s \in bitmap.map <=> handed[<<epoch, s>>] = 1)

\* What the previous record layer has pushed is ahead of all that was read, but
\* for what came in the datagram of the ChangeCipherSpec.
PrevInv ==
    \A r \in prev, s \in Seqs :
        handed[<<epoch, s>>] = 1 => s < r.seq \/ <<epoch, s>> \in overtook

\* A queue has one record of a number, and sound ones were sent.
QueueInv ==
    /\ \A q, r \in unproc : q.seq = r.seq => q = r
    /\ \A q, r \in prev : q.seq = r.seq => q = r
    /\ unproc # {} => epoch + 1 \in Epochs
    /\ \A r \in unproc : r.good => r.seq < wseq[epoch + 1]
    /\ \A r \in prev : r.good => r.seq < wseq[epoch]

EarlyInv ==
    \A e \in Epochs, s \in Seqs : <<e, s>> \in early =>
        \/ handed[<<e, s>>] = 1
        \/ e = epoch + 1 /\ [seq |-> s, good |-> TRUE] \in unproc
        \/ e = epoch /\ [seq |-> s, good |-> TRUE] \in prev
        \/ Overtaken(e, s)

RecordsInv == RecordsTypeOK /\ OnceInv /\ WindowInv /\ PrevInv /\ QueueInv /\ EarlyInv

-----------------------------------------------------------------------------
(* The replay window *)

\* Saturation does not change what the check finds.
LEMMA CheckMeaning ==
    ASSUME NEW s \in Seqs, NEW b \in Bitmap
    PROVE  dtls_record_replay_check(s, b) <=>
               \/ s > b.max
               \/ b.max - s < Window /\ b.max - s \notin b.map
<1>1. b.max \in Int /\ s \in Int /\ b.max >= 0 /\ s >= 0
  BY RecordsBoundAssumption DEF Bitmap, Seqs
<1>2. CASE s > b.max
  BY <1>1, <1>2, WindowAssumption DEF dtls_record_replay_check, satsub64be
<1>3. CASE s <= b.max /\ b.max - s <= Saturation
  <2>1. satsub64be(s, b.max) = s - b.max /\ -(s - b.max) = b.max - s
    BY <1>1, <1>3, WindowAssumption DEF satsub64be
  <2> QED  BY <1>1, <1>3, <2>1 DEF dtls_record_replay_check
<1>4. CASE s <= b.max /\ b.max - s > Saturation
  BY <1>1, <1>4, WindowAssumption DEF dtls_record_replay_check, satsub64be
<1> QED  BY <1>1, <1>2, <1>3, <1>4, WindowAssumption

\* Nor what the update of the window does.
LEMMA UpdateMeaning ==
    ASSUME NEW s \in Seqs, NEW b \in Bitmap, dtls_record_replay_check(s, b),
           NEW c, c = dtls_record_bitmap_update(s, b)
    PROVE  /\ c \in Bitmap
           /\ s <= b.max => c.max = b.max /\ c.map = b.map \union {b.max - s}
           /\ s > b.max => /\ c.max = s
                           /\ \A i \in 0 .. Window - 1 :
                                 i \in c.map <=> i = 0 \/ i - (s - b.max) \in b.map
<1>1. b.max \in Int /\ s \in Int /\ b.max >= 0 /\ s >= 0 /\ b.map \subseteq 0 .. Window - 1
  BY RecordsBoundAssumption DEF Bitmap, Seqs
<1>2. CASE s > b.max /\ s - b.max < Window
  <2>1. satsub64be(s, b.max) = s - b.max
    BY <1>1, <1>2, WindowAssumption DEF satsub64be
  <2>2. c = [max |-> s,
             map |-> {i \in 0 .. Window - 1 : i = 0 \/ i - (s - b.max) \in b.map}]
    BY <2>1, <1>1, <1>2 DEF dtls_record_bitmap_update
  <2> QED  BY <2>2, <1>1, <1>2 DEF Bitmap
<1>3. CASE s > b.max /\ s - b.max >= Window
  <2>1. satsub64be(s, b.max) > 0 /\ ~(satsub64be(s, b.max) < Window)
    BY <1>1, <1>3, WindowAssumption DEF satsub64be
  <2>2. c = [max |-> s, map |-> {0}]
    BY <2>1 DEF dtls_record_bitmap_update
  <2>3. \A i \in 0 .. Window - 1 : i - (s - b.max) \notin b.map
    BY <1>1, <1>3, WindowAssumption
  <2> QED  BY <2>2, <2>3, <1>1, <1>3, WindowAssumption DEF Bitmap
<1>4. CASE s <= b.max
  <2>1. b.max - s < Window
    BY <1>1, <1>4, CheckMeaning
  <2>2. satsub64be(s, b.max) = s - b.max /\ -(s - b.max) = b.max - s
    BY <1>1, <1>4, <2>1, WindowAssumption DEF satsub64be
  <2>3. c = [b EXCEPT !.map = @ \union {b.max - s}]
    BY <2>1, <2>2, <1>1, <1>4 DEF dtls_record_bitmap_update
  <2>4. b.max - s \in 0 .. Window - 1
    BY <2>1, <1>1, <1>4, WindowAssumption
  <2> QED  BY <2>3, <2>4, <1>1, <1>4 DEF Bitmap
<1> QED  BY <1>1, <1>2, <1>3, <1>4, WindowAssumption

\* The invariant of the window makes the check exact.
LEMMA ExactFromInv ==
    ASSUME RecordsTypeOK, OnceInv, WindowInv
    PROVE  WindowExact
<1> SUFFICES ASSUME NEW s \in Seqs
             PROVE  dtls_record_replay_check(s, bitmap) <=>
                      s \notin Accepted /\ \A t \in Accepted : t < s + Window
  BY DEF WindowExact
<1>1. /\ bitmap \in Bitmap /\ bitmap.max \in Seqs /\ epoch \in Epochs
      /\ bitmap.map \subseteq 0 .. Window - 1
      /\ bitmap.max \in Nat /\ s \in Nat /\ \A t \in Seqs : t \in Nat
  BY RecordsBoundAssumption DEF RecordsTypeOK, Bitmap, Seqs
<1>2. \A t \in Seqs : t \in Accepted <=> handed[<<epoch, t>>] = 1
  BY <1>1 DEF Accepted, OnceInv
<1>3. Accepted \subseteq Seqs
  BY DEF Accepted
<1>a. \A t \in Accepted : t \in Nat /\ t <= bitmap.max
  BY <1>1, <1>2, <1>3 DEF WindowInv
<1>4. CASE s > bitmap.max
  <2>1. s \notin Accepted
    BY <1>1, <1>a, <1>4
  <2>2. \A t \in Accepted : t < s + Window
    BY <1>1, <1>a, <1>4, WindowAssumption
  <2> QED  BY <2>1, <2>2, <1>1, <1>4, CheckMeaning
<1>5. CASE s <= bitmap.max /\ bitmap.max - s < Window
  <2>1. \A t \in Accepted : t < s + Window
    BY <1>1, <1>a, <1>5, WindowAssumption
  <2>2. bitmap.max - s \in bitmap.map <=> s \in Accepted
    BY <1>2, <1>5 DEF WindowInv
  <2> QED  BY <2>1, <2>2, <1>1, <1>5, CheckMeaning
<1>6. CASE s <= bitmap.max /\ bitmap.max - s >= Window
  <2>1. bitmap.max \in Accepted
    BY <1>1, <1>2, <1>6, WindowAssumption DEF WindowInv
  <2>2. ~(bitmap.max < s + Window)
    BY <1>1, <1>6, WindowAssumption
  <2>3. ~dtls_record_replay_check(s, bitmap)
    BY <1>1, <1>6, CheckMeaning, WindowAssumption
  <2> QED  BY <2>1, <2>2, <2>3
<1> QED  BY <1>1, <1>4, <1>5, <1>6, WindowAssumption

-----------------------------------------------------------------------------
(* The steps *)

\* One record is processed: nothing changes, or a record that was not handed up
\* before is, and is marked.
LEMMA ProcessStep ==
    ASSUME RecordsTypeOK, OnceInv, WindowInv, epoch' = epoch,
           NEW r, r.seq \in Seqs, r.good \in BOOLEAN, Process(r)
    PROVE  /\ bitmap' \in Bitmap /\ alert' \in BOOLEAN
           /\ OnceInv' /\ WindowInv'
           /\ \/ handed' = handed
              \/ /\ Sound(r) /\ handed[<<epoch, r.seq>>] = 0
                 /\ handed' = [handed EXCEPT ![<<epoch, r.seq>>] = 1]
<1>1. /\ bitmap \in Bitmap /\ bitmap.max \in Seqs /\ epoch \in Epochs
      /\ bitmap.map \subseteq 0 .. Window - 1
      /\ handed \in [Ids -> Nat] /\ alert \in BOOLEAN
      /\ \A s \in Seqs : s \in Nat
      /\ bitmap.max \in Nat /\ r.seq \in Nat
  BY RecordsBoundAssumption DEF RecordsTypeOK, Bitmap, Seqs
<1>2. <<epoch, r.seq>> \in Ids
  BY <1>1 DEF Ids
<1>3. CASE ~(dtls_record_replay_check(r.seq, bitmap) /\ Sound(r))
  <2>1. bitmap' = bitmap /\ handed' = handed /\ alert' \in BOOLEAN
    BY <1>1, <1>3 DEF Process, RecordsTypeOK
  <2> QED  BY <2>1, <1>1 DEF OnceInv, WindowInv
<1>4. CASE dtls_record_replay_check(r.seq, bitmap) /\ Sound(r)
  <2>1. /\ bitmap' = dtls_record_bitmap_update(r.seq, bitmap)
        /\ handed' = [handed EXCEPT ![<<epoch, r.seq>>] = handed[<<epoch, r.seq>>] + 1]
        /\ alert' = FALSE
    BY <1>4 DEF Process
  <2>2. r.seq \notin Accepted
    BY <1>4, ExactFromInv DEF WindowExact
  <2>3. handed[<<epoch, r.seq>>] = 0
    BY <2>2, <1>1 DEF Accepted, OnceInv
  <2>4. handed' = [handed EXCEPT ![<<epoch, r.seq>>] = 1]
    BY <2>1, <2>3
  <2>5. \A e \in Epochs, s \in Seqs : <<e, s>> \in Ids
    BY DEF Ids
  <2>6. \A e \in Epochs, s \in Seqs :
           handed'[<<e, s>>] = IF e = epoch /\ s = r.seq THEN 1 ELSE handed[<<e, s>>]
    BY <2>4, <2>5, <1>1
  <2>7. OnceInv'
    <3>1. epoch <= epoch
      BY <1>1, RecordsBoundAssumption DEF Epochs
    <3> QED  BY <2>6, <3>1 DEF OnceInv
  <2>8. \A s \in Seqs : handed'[<<epoch, s>>] = 1 <=> s = r.seq \/ handed[<<epoch, s>>] = 1
    BY <2>6, <1>1
  <2>9. /\ bitmap' \in Bitmap
        /\ r.seq <= bitmap.max => /\ bitmap'.max = bitmap.max
                                  /\ bitmap'.map = bitmap.map \union {bitmap.max - r.seq}
        /\ r.seq > bitmap.max =>
              /\ bitmap'.max = r.seq
              /\ \A i \in 0 .. Window - 1 :
                    i \in bitmap'.map <=> i = 0 \/ i - (r.seq - bitmap.max) \in bitmap.map
    BY <2>1, <1>1, <1>4, UpdateMeaning
  <2>10. WindowInv'
    <3>1. CASE r.seq <= bitmap.max
      <4>1. bitmap'.max = bitmap.max /\ bitmap'.map = bitmap.map \union {bitmap.max - r.seq}
        BY <2>9, <3>1
      <4>2. \A s \in Seqs : handed'[<<epoch, s>>] = 1 => s <= bitmap'.max
        BY <4>1, <3>1, <2>8 DEF WindowInv
      <4>3. bitmap'.max # 0 => handed'[<<epoch, bitmap'.max>>] = 1
        BY <4>1, <2>8, <1>1 DEF WindowInv
      <4>4. ASSUME NEW s \in Seqs, s <= bitmap'.max, bitmap'.max - s < Window
            PROVE  bitmap'.max - s \in bitmap'.map <=> handed'[<<epoch, s>>] = 1
        <5>1. bitmap.max - s \in bitmap.map <=> handed[<<epoch, s>>] = 1
          BY <4>1, <4>4 DEF WindowInv
        <5>2. bitmap.max - s = bitmap.max - r.seq <=> s = r.seq
          BY <1>1
        <5> QED  BY <4>1, <5>1, <5>2, <2>8
      <4> QED  BY <4>2, <4>3, <4>4 DEF WindowInv
    <3>2. CASE r.seq > bitmap.max
      <4>1. /\ bitmap'.max = r.seq
            /\ \A i \in 0 .. Window - 1 :
                  i \in bitmap'.map <=> i = 0 \/ i - (r.seq - bitmap.max) \in bitmap.map
        BY <2>9, <3>2
      <4>2. \A s \in Seqs : handed[<<epoch, s>>] = 1 => s \in Nat /\ s <= bitmap.max
        BY <1>1 DEF WindowInv
      <4>3. \A s \in Seqs : handed'[<<epoch, s>>] = 1 => s <= bitmap'.max
        BY <4>1, <4>2, <3>2, <2>8, <1>1
      <4>4. handed'[<<epoch, bitmap'.max>>] = 1
        BY <4>1, <2>8
      <4>5. ASSUME NEW s \in Seqs, s <= bitmap'.max, bitmap'.max - s < Window
            PROVE  bitmap'.max - s \in bitmap'.map <=> handed'[<<epoch, s>>] = 1
        <5>1. s \in Nat /\ r.seq - s \in 0 .. Window - 1
          BY <4>1, <4>5, <1>1, WindowAssumption
        <5>2. (r.seq - s) - (r.seq - bitmap.max) = bitmap.max - s /\ (r.seq - s = 0 <=> s = r.seq)
          BY <5>1, <1>1
        <5>3. r.seq - s \in bitmap'.map <=> s = r.seq \/ bitmap.max - s \in bitmap.map
          BY <4>1, <5>1, <5>2
        <5>4. CASE s <= bitmap.max
          <6>1. bitmap.max - s < Window
            BY <5>1, <5>4, <3>2, <1>1, WindowAssumption
          <6>2. bitmap.max - s \in bitmap.map <=> handed[<<epoch, s>>] = 1
            BY <6>1, <5>4 DEF WindowInv
          <6> QED  BY <6>2, <5>3, <4>1, <2>8
        <5>5. CASE s > bitmap.max
          <6>1. bitmap.max - s \notin bitmap.map
            BY <5>1, <5>5, <1>1
          <6>2. handed[<<epoch, s>>] # 1
            BY <4>2, <5>5, <5>1, <1>1
          <6> QED  BY <6>1, <6>2, <5>3, <4>1, <2>8
        <5> QED  BY <5>1, <5>4, <5>5, <1>1
      <4> QED  BY <4>3, <4>4, <4>5 DEF WindowInv
    <3> QED  BY <3>1, <3>2, <1>1
  <2> QED  BY <1>4, <2>1, <2>3, <2>4, <2>7, <2>9, <2>10
<1> QED  BY <1>3, <1>4

\* Writing a record preserves the invariant.
LEMMA WriteRecordStep ==
    ASSUME RecordsInv, NEW e \in Epochs, WriteRecord(e)
    PROVE  RecordsInv'
<1>1. RecordsTypeOK'
  BY RecordsBoundAssumption DEF RecordsInv, WriteRecord, RecordsTypeOK, history
<1>2. \A d \in Epochs : /\ wseq[d] \in Nat /\ wseq'[d] \in Nat
                        /\ wseq[d] <= wseq'[d]
  BY RecordsBoundAssumption DEF RecordsInv, WriteRecord, RecordsTypeOK
<1>3. QueueInv'
  <2>1. epoch \in Epochs /\ unproc \subseteq Record /\ prev \subseteq Record
    BY DEF RecordsInv, RecordsTypeOK, Record
  <2>2. \A r \in Record : r.seq \in Nat
    BY RecordsBoundAssumption DEF Record, Seqs
  <2>3. ASSUME NEW r \in unproc, r.good
        PROVE  r.seq < wseq'[epoch + 1]
    <3>1. epoch + 1 \in Epochs /\ r.seq < wseq[epoch + 1]
      BY <2>3 DEF RecordsInv, QueueInv
    <3> QED  BY <3>1, <2>1, <2>2, <1>2
  <2>4. ASSUME NEW r \in prev, r.good
        PROVE  r.seq < wseq'[epoch]
    <3>1. r.seq < wseq[epoch]
      BY <2>4 DEF RecordsInv, QueueInv
    <3> QED  BY <3>1, <2>1, <2>2, <1>2
  <2> QED  BY <2>3, <2>4 DEF RecordsInv, QueueInv, WriteRecord
<1>4. OnceInv' /\ WindowInv' /\ PrevInv' /\ EarlyInv'
  BY DEF RecordsInv, WriteRecord, OnceInv, WindowInv, PrevInv, EarlyInv, Overtaken, history
<1> QED  BY <1>1, <1>3, <1>4 DEF RecordsInv

\* Reading on leaves no more of a datagram than there may be.
LEMMA LeftType ==
    ASSUME RecordsTypeOK, NextInDatagram
    PROVE  left' \in 0 .. MaxLeft
BY RecordsBoundAssumption DEF RecordsTypeOK, NextInDatagram

\* Steps that change neither the queues nor the window.
LEMMA OtherStep ==
    ASSUME RecordsInv, NextWriteLayer \/ SetInInit \/ \E e \in Epochs : DumpRecord(e)
    PROVE  RecordsInv'
<1>1. RecordsTypeOK'
  <2>1. CASE NextWriteLayer
    <3>1. wepoch' \in Epochs
      BY <2>1, RecordsBoundAssumption DEF RecordsInv, RecordsTypeOK, NextWriteLayer, Epochs
    <3> QED  BY <2>1, <3>1 DEF RecordsInv, RecordsTypeOK, NextWriteLayer, history
  <2>2. CASE SetInInit
    <3>1. in_init' \in BOOLEAN
      BY <2>2 DEF SetInInit
    <3> QED  BY <2>2, <3>1 DEF RecordsInv, RecordsTypeOK, SetInInit, writer, history
  <2>3. ASSUME NEW e \in Epochs, DumpRecord(e)
        PROVE  RecordsTypeOK'
    <3>1. left' \in 0 .. MaxLeft
      BY <2>3, LeftType DEF RecordsInv, DumpRecord
    <3> QED  BY <2>3, <3>1 DEF RecordsInv, RecordsTypeOK, DumpRecord, writer, history
  <2> QED  BY <2>1, <2>2, <2>3
<1>2. UNCHANGED <<wseq, epoch, bitmap, unproc, prev, handed, early, overtook>>
  BY DEF NextWriteLayer, SetInInit, DumpRecord, writer, history
<1> QED  BY <1>1, <1>2 DEF RecordsInv, OnceInv, WindowInv, PrevInv, QueueInv, EarlyInv, Overtaken

\* What was handed up stays handed up.
LEMMA HandedStays ==
    ASSUME RecordsTypeOK, NEW i \in Ids,
           handed' = handed \/ handed' = [handed EXCEPT ![i] = 1]
    PROVE  /\ handed' \in [Ids -> Nat]
           /\ \A id \in Ids : handed[id] = 1 => handed'[id] = 1
BY DEF RecordsTypeOK

\* A record of the current epoch, handed up, replayed, too old or not authentic,
\* preserves it.
LEMMA ReceiveRecordStep ==
    ASSUME RecordsInv, NEW r \in Incoming, ReceiveRecord(r)
    PROVE  RecordsInv'
<1>1. r.seq \in Seqs /\ r.good \in BOOLEAN /\ epoch' = epoch
  BY DEF Incoming, ReceiveRecord
<1>2. /\ bitmap' \in Bitmap /\ alert' \in BOOLEAN /\ OnceInv' /\ WindowInv'
      /\ \/ handed' = handed
         \/ /\ Sound(r) /\ handed[<<epoch, r.seq>>] = 0
            /\ handed' = [handed EXCEPT ![<<epoch, r.seq>>] = 1]
  BY <1>1, ProcessStep DEF RecordsInv, ReceiveRecord
<1>3. <<epoch, r.seq>> \in Ids
  BY <1>1 DEF Ids, RecordsInv, RecordsTypeOK
<1>4. handed' \in [Ids -> Nat] /\ \A id \in Ids : handed[id] = 1 => handed'[id] = 1
  BY <1>2, <1>3, HandedStays DEF RecordsInv
<1>5. RecordsTypeOK'
  <2>1. left' \in 0 .. MaxLeft
    BY LeftType DEF RecordsInv, ReceiveRecord
  <2>2. overtook' \subseteq Ids
    BY <1>3 DEF RecordsInv, RecordsTypeOK, ReceiveRecord
  <2> QED  BY <1>2, <1>4, <2>1, <2>2 DEF RecordsInv, RecordsTypeOK, Bitmap, ReceiveRecord, writer
<1>6. QueueInv'
  BY DEF RecordsInv, QueueInv, ReceiveRecord, writer
<1>7. PrevInv'
  <2> SUFFICES ASSUME NEW q \in prev, NEW s \in Seqs, handed'[<<epoch, s>>] = 1
               PROVE  s < q.seq \/ <<epoch, s>> \in overtook'
    BY <1>1 DEF PrevInv, ReceiveRecord
  <2>1. overtook \subseteq overtook'
    BY DEF ReceiveRecord
  <2>2. CASE handed[<<epoch, s>>] = 1
    BY <2>1, <2>2 DEF RecordsInv, PrevInv
  <2>3. CASE handed[<<epoch, s>>] # 1
    <3>1. handed' # handed
      BY <2>3
    <3>2. handed' = [handed EXCEPT ![<<epoch, r.seq>>] = 1]
      BY <1>2, <3>1
    <3>3. <<epoch, s>> \in Ids /\ handed \in [Ids -> Nat]
      BY DEF Ids, RecordsInv, RecordsTypeOK
    <3>4. <<epoch, s>> = <<epoch, r.seq>>
      BY <2>3, <3>2, <3>3
    <3> QED  BY <3>1, <3>4 DEF ReceiveRecord
  <2> QED  BY <2>2, <2>3
<1>8. EarlyInv'
  <2>1. overtook \subseteq overtook' /\ UNCHANGED <<epoch, unproc, prev, early>>
    BY DEF ReceiveRecord
  <2>2. \A e \in Epochs, s \in Seqs : <<e, s>> \in Ids
    BY DEF Ids
  <2> QED  BY <2>1, <2>2, <1>4 DEF RecordsInv, EarlyInv, Overtaken
<1> QED  BY <1>2, <1>5, <1>6, <1>7, <1>8 DEF RecordsInv

\* A record of the next epoch, kept or dropped, preserves it.
LEMMA ReceiveEarlyStep ==
    ASSUME RecordsInv, NEW r \in Incoming, ReceiveEarly(r)
    PROVE  RecordsInv'
<1> DEFINE q == [seq |-> r.seq, good |-> r.good]
<1>1. /\ r.seq \in Seqs /\ r.good \in BOOLEAN /\ r.epoch \in Epochs
      /\ r.good => r.seq < wseq[r.epoch]
      /\ r.epoch = epoch + 1
  BY DEF Incoming, ReceiveEarly
<1>b. /\ UNCHANGED <<etm, wepoch, wseq, epoch, bitmap, in_init, prev, alert, handed, overtook>>
      /\ left' = 0
  BY DEF ReceiveEarly, writer
<1>c. CASE \E p \in unproc : p.seq = r.seq
  <2>1. UNCHANGED <<unproc, early>>
    BY <1>c DEF ReceiveEarly
  <2>2. RecordsTypeOK'
    BY <1>b, <2>1, RecordsBoundAssumption DEF RecordsInv, RecordsTypeOK
  <2> QED  BY <1>b, <2>1, <2>2 DEF RecordsInv, OnceInv, WindowInv, PrevInv, QueueInv, EarlyInv, Overtaken
<1>a. SUFFICES ASSUME ~\E p \in unproc : p.seq = r.seq
               PROVE  RecordsInv'
  BY <1>c
<1>2. /\ q \in Record /\ q.seq = r.seq /\ q.good = r.good
      /\ unproc' = unproc \union {q}
      /\ early' = IF r.good THEN early \union {<<r.epoch, r.seq>>} ELSE early
      /\ \A p \in unproc : p.seq # r.seq
  BY <1>1, <1>a DEF ReceiveEarly, Record
<1>3. RecordsTypeOK'
  BY <1>1, <1>2, <1>b, RecordsBoundAssumption DEF RecordsInv, RecordsTypeOK, Record, Ids
<1>4. OnceInv' /\ WindowInv' /\ PrevInv'
  BY <1>b DEF RecordsInv, OnceInv, WindowInv, PrevInv
<1>5. QueueInv'
  <2> HIDE DEF q
  <2> QED  BY <1>1, <1>2, <1>b DEF RecordsInv, QueueInv
<1>6. EarlyInv'
  <2>1. r.good => q = [seq |-> r.seq, good |-> TRUE]
    BY <1>1
  <2> HIDE DEF q
  <2>2. ASSUME NEW e \in Epochs, NEW s \in Seqs, <<e, s>> \in early'
        PROVE  \/ handed[<<e, s>>] = 1
               \/ e = epoch + 1 /\ [seq |-> s, good |-> TRUE] \in unproc'
               \/ e = epoch /\ [seq |-> s, good |-> TRUE] \in prev
               \/ Overtaken(e, s)
    <3>1. CASE <<e, s>> \in early
      BY <3>1, <1>2 DEF RecordsInv, EarlyInv
    <3>2. CASE <<e, s>> \notin early
      <4>1. r.good /\ e = r.epoch /\ s = r.seq
        BY <3>2, <2>2, <1>2
      <4> QED  BY <4>1, <2>1, <1>1, <1>2
    <3> QED  BY <3>1, <3>2
  <2> QED  BY <2>2, <1>b DEF EarlyInv, Overtaken
<1> QED  BY <1>3, <1>4, <1>5, <1>6 DEF RecordsInv

\* Reading a record that the old layer kept for the new one preserves it.
LEMMA ReadPreviousStep ==
    ASSUME RecordsInv, ReadPrevious
    PROVE  RecordsInv'
<1>1. PICK r \in First(prev) : prev' = prev \ {r} /\ Process(r)
  BY DEF ReadPrevious
<1>2. /\ r \in prev /\ \A q \in prev : r.seq <= q.seq
      /\ UNCHANGED <<etm, wepoch, wseq, epoch, in_init, left, unproc, early, overtook>>
  BY DEF First, ReadPrevious, writer, history
<1>3. /\ prev \subseteq Record /\ epoch \in Epochs
      /\ \A q \in prev : q.seq \in Seqs /\ q.seq \in Nat /\ q.good \in BOOLEAN
  BY RecordsBoundAssumption DEF RecordsInv, RecordsTypeOK, Record, Seqs
<1>4. /\ bitmap' \in Bitmap /\ alert' \in BOOLEAN /\ OnceInv' /\ WindowInv'
      /\ \/ handed' = handed
         \/ /\ Sound(r) /\ handed[<<epoch, r.seq>>] = 0
            /\ handed' = [handed EXCEPT ![<<epoch, r.seq>>] = 1]
  BY <1>1, <1>2, <1>3, ProcessStep DEF RecordsInv
<1>5. \A s \in Seqs : <<epoch, s>> \in Ids
  BY <1>3 DEF Ids
<1>6. handed' \in [Ids -> Nat] /\ \A id \in Ids : handed[id] = 1 => handed'[id] = 1
  BY <1>2, <1>3, <1>4, <1>5, HandedStays DEF RecordsInv
<1>7. RecordsTypeOK'
  BY <1>1, <1>2, <1>4, <1>6 DEF RecordsInv, RecordsTypeOK, Bitmap
<1>8. PrevInv'
  <2>1. \A s \in Seqs : handed'[<<epoch, s>>] = 1 => s = r.seq \/ handed[<<epoch, s>>] = 1
    BY <1>4, <1>5 DEF RecordsInv, RecordsTypeOK
  <2>2. ASSUME NEW q \in prev', NEW s \in Seqs, handed'[<<epoch, s>>] = 1
        PROVE  s < q.seq \/ <<epoch, s>> \in overtook
    <3>1. q \in prev /\ q # r
      BY <1>1
    <3>2. r.seq < q.seq
      BY <3>1, <1>2, <1>3 DEF RecordsInv, QueueInv
    <3>3. handed[<<epoch, s>>] = 1 => s < q.seq \/ <<epoch, s>> \in overtook
      BY <3>1 DEF RecordsInv, PrevInv
    <3> QED  BY <3>2, <3>3, <2>1, <2>2
  <2> QED  BY <2>2, <1>2 DEF PrevInv
<1>9. QueueInv'
  BY <1>1, <1>2 DEF RecordsInv, QueueInv
<1>10. EarlyInv'
  <2>1. r.good => handed'[<<epoch, r.seq>>] = 1 \/ Overtaken(epoch, r.seq)
    <3> SUFFICES ASSUME r.good, ~Overtaken(epoch, r.seq), handed[<<epoch, r.seq>>] # 1
                 PROVE  handed'[<<epoch, r.seq>>] = 1
      BY <1>2, <1>3, <1>5, <1>6
    <3>0. r.seq \in Seqs /\ r.seq \in Nat /\ \A t \in Seqs : t \in Nat
      BY <1>2, <1>3, RecordsBoundAssumption DEF Seqs
    <3>1. \A t \in Accepted : t \in Seqs /\ handed[<<epoch, t>>] = 1
      BY <1>3 DEF Accepted, RecordsInv, OnceInv
    <3>2. ASSUME NEW t \in Accepted
          PROVE  t < r.seq + Window
      <4>1. t \in Nat /\ (t < r.seq \/ <<epoch, t>> \in overtook)
        BY <3>0, <3>1, <1>2 DEF RecordsInv, PrevInv
      <4>2. CASE t < r.seq
        BY <3>0, <4>1, <4>2, WindowAssumption
      <4>3. CASE <<epoch, t>> \in overtook
        BY <3>0, <3>1, <4>1, <4>3, WindowAssumption DEF Overtaken
      <4> QED  BY <4>1, <4>2, <4>3
    <3>3. r.seq \notin Accepted
      BY <3>1
    <3>4. dtls_record_replay_check(r.seq, bitmap)
      BY <3>0, <3>2, <3>3, ExactFromInv DEF RecordsInv, WindowExact
    <3>5. handed' = [handed EXCEPT ![<<epoch, r.seq>>] = handed[<<epoch, r.seq>>] + 1]
      BY <3>4, <1>1 DEF Process, Sound
    <3>6. handed[<<epoch, r.seq>>] = 0
      BY <3>0, <1>3 DEF RecordsInv, OnceInv
    <3> QED  BY <3>5, <3>6, <3>0, <1>5 DEF RecordsInv, RecordsTypeOK
  <2>2. ASSUME NEW e \in Epochs, NEW s \in Seqs, <<e, s>> \in early
        PROVE  \/ handed'[<<e, s>>] = 1
               \/ e = epoch + 1 /\ [seq |-> s, good |-> TRUE] \in unproc
               \/ e = epoch /\ [seq |-> s, good |-> TRUE] \in prev'
               \/ Overtaken(e, s)
    <3>1. CASE handed[<<e, s>>] = 1
      BY <3>1, <1>6 DEF Ids
    <3>2. CASE e = epoch + 1 /\ [seq |-> s, good |-> TRUE] \in unproc
      BY <3>2
    <3>3. CASE e = epoch /\ [seq |-> s, good |-> TRUE] \in prev
      <4>1. CASE [seq |-> s, good |-> TRUE] = r
        BY <4>1, <3>3, <2>1
      <4>2. CASE [seq |-> s, good |-> TRUE] # r
        BY <4>2, <3>3, <1>1
      <4> QED  BY <4>1, <4>2
    <3> QED  BY <2>2, <3>1, <3>2, <3>3 DEF RecordsInv, EarlyInv
  <2> QED  BY <2>2, <1>2 DEF EarlyInv, Overtaken
<1> QED  BY <1>4, <1>7, <1>8, <1>9, <1>10 DEF RecordsInv

\* Changing the epoch pushes what was kept to the new layer; the invariant is
\* preserved.
LEMMA NewReadLayerStep ==
    ASSUME RecordsInv, NewReadLayer
    PROVE  RecordsInv'
<1>1. /\ epoch \in Int /\ epoch' = epoch + 1 /\ epoch' \in Epochs
      /\ bitmap' = NewBitmap /\ prev = {} /\ prev' = unproc /\ unproc' = {}
      /\ UNCHANGED <<etm, wepoch, wseq, in_init, left, alert, handed, early, overtook>>
  BY RecordsBoundAssumption DEF RecordsInv, RecordsTypeOK, NewReadLayer, Epochs, writer, history
<1>2. \A s \in Seqs : s \in Nat
  BY RecordsBoundAssumption DEF Seqs
<1>3. \A s \in Seqs : handed[<<epoch + 1, s>>] # 1
  BY <1>1 DEF RecordsInv, OnceInv
<1>4. RecordsTypeOK'
  <2>1. NewBitmap \in [max : Seqs, map : SUBSET (0 .. Window - 1)]
    BY RecordsBoundAssumption DEF NewBitmap, Seqs
  <2> QED  BY <1>1, <2>1 DEF RecordsInv, RecordsTypeOK
<1>5. OnceInv'
  <2>1. \A e \in Epochs : e <= epoch => e <= epoch + 1
    BY <1>1, RecordsBoundAssumption DEF Epochs
  <2> QED  BY <1>1, <2>1 DEF RecordsInv, OnceInv
<1>6. WindowInv'
  <2>1. bitmap'.max = 0 /\ bitmap'.map = {}
    BY <1>1 DEF NewBitmap
  <2> QED  BY <1>1, <1>3, <2>1 DEF WindowInv
<1>7. PrevInv'
  BY <1>1, <1>3 DEF PrevInv
<1>8. QueueInv'
  BY <1>1 DEF RecordsInv, QueueInv
<1>9. EarlyInv'
  BY <1>1 DEF RecordsInv, EarlyInv, Overtaken
<1> QED  BY <1>4, <1>5, <1>6, <1>7, <1>8, <1>9 DEF RecordsInv

-----------------------------------------------------------------------------
(* The theorems *)

\* The invariant holds initially.
LEMMA RecordsInitInv == RecordsInit => RecordsInv
<1> SUFFICES ASSUME RecordsInit
             PROVE  RecordsInv
  OBVIOUS
<1>1. RecordsTypeOK
  <2>1. etm \in BOOLEAN /\ in_init \in BOOLEAN /\ alert \in BOOLEAN
    BY RecordsBoundAssumption DEF RecordsInit
  <2>2. 0 \in Epochs /\ 0 \in Seqs /\ 0 \in 0 .. MaxSeq + 1
    BY RecordsBoundAssumption DEF Epochs, Seqs
  <2>3. bitmap \in [max : Seqs, map : SUBSET (0 .. Window - 1)]
    BY <2>2 DEF RecordsInit, NewBitmap
  <2> QED  BY <2>1, <2>2, <2>3, RecordsBoundAssumption DEF RecordsInit, RecordsTypeOK
<1>2. \A e \in Epochs, s \in Seqs : handed[<<e, s>>] = 0
  BY DEF RecordsInit, Ids
<1>3. epoch \in Epochs
  BY <1>1 DEF RecordsTypeOK
<1>4. WindowInv
  <2>1. bitmap.max = 0 /\ bitmap.map = {}
    BY DEF RecordsInit, NewBitmap
  <2> QED  BY <1>2, <1>3, <2>1 DEF WindowInv
<1> QED  BY <1>1, <1>2, <1>4 DEF RecordsInit, RecordsInv, OnceInv, PrevInv, QueueInv, EarlyInv

\* Every step preserves it.
LEMMA RecordsNextInv == RecordsInv /\ [RecordsNext]_record_vars => RecordsInv'
<1> SUFFICES ASSUME RecordsInv, [RecordsNext]_record_vars
             PROVE  RecordsInv'
  OBVIOUS
<1>1. ASSUME NEW e \in Epochs, WriteRecord(e)
      PROVE  RecordsInv'
  BY <1>1, WriteRecordStep
<1>2. CASE NextWriteLayer \/ SetInInit \/ \E e \in Epochs : DumpRecord(e)
  BY <1>2, OtherStep
<1>3. ASSUME NEW r \in Incoming, ReceiveRecord(r) \/ ReceiveEarly(r)
      PROVE  RecordsInv'
  BY <1>3, ReceiveRecordStep, ReceiveEarlyStep
<1>4. CASE ReadPrevious
  BY <1>4, ReadPreviousStep
<1>5. CASE NewReadLayer
  BY <1>5, NewReadLayerStep
<1>6. CASE UNCHANGED record_vars
  BY <1>6 DEF record_vars, RecordsInv, RecordsTypeOK, OnceInv, WindowInv, PrevInv, QueueInv, EarlyInv,
              Overtaken
<1> QED  BY <1>1, <1>2, <1>3, <1>4, <1>5, <1>6 DEF RecordsNext

\* The invariant holds throughout: the bits of the window stand for the records
\* handed up, and what is queued is ahead of them.
THEOREM RecordsInvariance == RecordsSpec => []RecordsInv
BY RecordsInitInv, RecordsNextInv, PTL DEF RecordsSpec

\* Every variable keeps its type; the replay bitmap never has a bit outside of
\* the window.
THEOREM RecordsTypeCorrect == RecordsSpec => []RecordsTypeOK
<1>1. RecordsInv => RecordsTypeOK
  BY DEF RecordsInv
<1> QED  BY <1>1, RecordsInvariance, PTL

\* The replay check is exact whatever the order of the records, for every size
\* of the window: dtls_record_replay_check lets a record through if and only if
\* it was not handed up and is less than a window behind.
THEOREM WindowIsExact == RecordsSpec => []WindowExact
<1>1. RecordsInv => WindowExact
  BY ExactFromInv DEF RecordsInv
<1> QED  BY <1>1, RecordsInvariance, PTL

\* A record of the next epoch that is kept is not lost at the change of record
\* layers, unless a record from the datagram of the ChangeCipherSpec is handed
\* up first and is a window ahead: dtls_free pushes the rest of the datagram
\* before the records kept, and those in the order of their numbers.
THEOREM EarlyIsKept == RecordsSpec => []EarlyKept
<1>1. RecordsInv => EarlyKept
  <2> SUFFICES ASSUME RecordsInv, NEW id \in early
               PROVE  \/ handed[id] = 1
                      \/ id[1] = epoch + 1 /\ [seq |-> id[2], good |-> TRUE] \in unproc
                      \/ id[1] = epoch /\ [seq |-> id[2], good |-> TRUE] \in prev
                      \/ Overtaken(id[1], id[2])
    BY DEF EarlyKept
  <2>1. id \in Epochs \X Seqs
    BY DEF RecordsInv, RecordsTypeOK, Ids
  <2>2. PICK e \in Epochs, s \in Seqs : id = <<e, s>>
    BY <2>1
  <2> QED  BY <2>2 DEF RecordsInv, EarlyInv
<1> QED  BY <1>1, RecordsInvariance, PTL

-----------------------------------------------------------------------------
(* The refinement *)

Sent == {id \in Ids : id[2] < wseq[id[1]]}

\* A step that hands up a record is a delivery.
LEMMA DeliverStep ==
    ASSUME RecordsTypeOK, NEW i \in Ids, i \in Sent \/ i[1] = 0, handed[i] = 0,
           handed' = [handed EXCEPT ![i] = 1], wseq' = wseq
    PROVE  Once!Deliver(i)
BY DEF Once!Deliver, Sent

\* Processing a record is a delivery, or changes nothing the abstract
\* specification sees.
LEMMA ProcessImplements ==
    ASSUME RecordsInv, epoch' = epoch, wseq' = wseq,
           NEW r, r.seq \in Seqs, r.good \in BOOLEAN, Process(r),
           r.good => r.seq < wseq[epoch]
    PROVE  [Once!Next]_(Once!vars)
<1>1. \/ handed' = handed
      \/ /\ Sound(r) /\ handed[<<epoch, r.seq>>] = 0
         /\ handed' = [handed EXCEPT ![<<epoch, r.seq>>] = 1]
  BY ProcessStep DEF RecordsInv
<1>2. CASE handed' = handed
  BY <1>2 DEF Once!vars
<1>3. CASE /\ Sound(r) /\ handed[<<epoch, r.seq>>] = 0
           /\ handed' = [handed EXCEPT ![<<epoch, r.seq>>] = 1]
  <2> DEFINE i == <<epoch, r.seq>>
  <2>1. i \in Ids /\ i[1] = epoch /\ i[2] = r.seq
    BY DEF RecordsInv, RecordsTypeOK, Ids
  <2>2. i \in Sent \/ i[1] = 0
    BY <1>3, <2>1 DEF Sound, Sent
  <2>3. Once!Deliver(i)
    <3>1. RecordsTypeOK /\ handed[i] = 0 /\ handed' = [handed EXCEPT ![i] = 1]
      BY <1>3 DEF RecordsInv
    <3> HIDE DEF i
    <3> QED  BY <3>1, <2>1, <2>2, DeliverStep
  <2> QED  BY <2>1, <2>3 DEF Once!Next
<1> QED  BY <1>1, <1>2, <1>3

\* Writing a record gives it a name no record has.
LEMMA WriteImplements ==
    ASSUME RecordsInv, NEW e \in Epochs, WriteRecord(e)
    PROVE  Once!Next
<1> DEFINE i == <<e, wseq[e]>>
<1>1. /\ wseq \in [Epochs -> 0 .. MaxSeq + 1] /\ wseq[e] \in Seqs
      /\ wseq' = [wseq EXCEPT ![e] = wseq[e] + 1] /\ handed' = handed
  BY RecordsBoundAssumption DEF RecordsInv, RecordsTypeOK, WriteRecord, Seqs
<1>2. i \in Ids /\ i[1] = e /\ i[2] = wseq[e]
  BY <1>1 DEF Ids
<1>3. i \notin Sent
  BY <1>1, <1>2, RecordsBoundAssumption DEF Sent, Seqs
<1>4. Sent' = Sent \union {i}
  <2>1. ASSUME NEW d \in Epochs, NEW s \in Seqs
        PROVE  <<d, s>> \in Sent' <=> <<d, s>> \in Sent \/ <<d, s>> = i
    <3>1. <<d, s>> \in Ids /\ s \in Nat
      BY RecordsBoundAssumption DEF Ids, Seqs
    <3>2. CASE d = e
      BY <3>1, <3>2, <1>1, RecordsBoundAssumption DEF Sent, Seqs
    <3>3. CASE d # e
      BY <3>1, <3>3, <1>1 DEF Sent
    <3> QED  BY <3>2, <3>3
  <2>2. Sent' \subseteq Epochs \X Seqs /\ Sent \subseteq Epochs \X Seqs /\ i \in Epochs \X Seqs
    BY <1>2 DEF Sent, Ids
  <2> HIDE DEF i
  <2> QED  BY <2>1, <2>2
<1>5. Once!Send(i)
  <2> HIDE DEF i
  <2> QED  BY <1>1, <1>3, <1>4 DEF Once!Send, Sent
<1>6. PICK j \in Ids : j = i
  BY <1>2
<1>7. Once!Send(j)
  BY <1>5, <1>6 DEF Once!Send
<1> QED  BY <1>7 DEF Once!Next

\* Every step is one of the abstract datagram service or a stutter.
LEMMA StepImplements == RecordsInv /\ [RecordsNext]_record_vars => [Once!Next]_(Once!vars)
<1> SUFFICES ASSUME RecordsInv, [RecordsNext]_record_vars
             PROVE  [Once!Next]_(Once!vars)
  OBVIOUS
<1>1. ASSUME NEW e \in Epochs, WriteRecord(e)
      PROVE  Once!Next
  BY <1>1, WriteImplements
<1>2. CASE UNCHANGED <<wseq, handed>>
  BY <1>2 DEF Once!vars
<1>3. ASSUME NEW r \in Incoming, ReceiveRecord(r)
      PROVE  [Once!Next]_(Once!vars)
  <2>1. /\ r.seq \in Seqs /\ r.good \in BOOLEAN /\ r.epoch = epoch
        /\ r.good => r.seq < wseq[epoch]
        /\ epoch' = epoch /\ wseq' = wseq /\ Process(r)
    BY <1>3 DEF Incoming, ReceiveRecord, writer
  <2> QED  BY <2>1, ProcessImplements
<1>4. CASE ReadPrevious
  <2>1. PICK r \in First(prev) : Process(r)
    BY <1>4 DEF ReadPrevious
  <2>2. /\ r \in prev /\ r.seq \in Seqs /\ r.good \in BOOLEAN
        /\ r.good => r.seq < wseq[epoch]
        /\ epoch' = epoch /\ wseq' = wseq
    BY <1>4 DEF RecordsInv, RecordsTypeOK, QueueInv, First, ReadPrevious, writer
  <2> QED  BY <2>1, <2>2, ProcessImplements
<1>5. ASSUME NEW r \in Incoming, ReceiveEarly(r)
      PROVE  UNCHANGED <<wseq, handed>>
  BY <1>5 DEF ReceiveEarly, writer
<1>6. NextWriteLayer \/ SetInInit \/ NewReadLayer \/ UNCHANGED record_vars
      \/ (\E e \in Epochs : DumpRecord(e))
        => UNCHANGED <<wseq, handed>>
  BY DEF NextWriteLayer, SetInInit, NewReadLayer, DumpRecord, record_vars, writer
<1> QED  BY <1>1, <1>2, <1>3, <1>4, <1>5, <1>6 DEF RecordsNext

\* The record layers, with their windows, queues and changes of epoch, deliver
\* every record at most once, and in a protected epoch only what was sent.
THEOREM Refinement == RecordsSpec => DeliversOnce
<1>1. RecordsInit => Once!Init
  BY RecordsBoundAssumption DEF RecordsInit, Once!Init, Ids, Seqs
<1> QED  BY <1>1, StepImplements, RecordsInvariance, PTL DEF RecordsSpec, Once!Spec, DeliversOnce
=============================================================================
