--------------------------- MODULE DtlsHandshake ---------------------------
(***************************************************************************)
(* A DTLS 1.2 handshake between two endpoints over a network that loses,   *)
(* reorders and delays records: ssl/statem/statem_dtls.c, ssl/d1_lib.c,    *)
(* ssl/record/rec_layer_d1.c, the epochs of ssl/record/methods/dtls_meth.c *)
(* and the DTLS branches of the state machines.                            *)
(*                                                                         *)
(* A message is its type; a record carries one fragment of one message.    *)
(* The read side takes one record at a time, as dtls1_read_bytes does, and *)
(* the message it completes is processed in the same step; a message is    *)
(* written in one step.  Repeated copies of one record never get this far  *)
(* (see DtlsRecords); repeated messages, in new records, do.               *)
(*                                                                         *)
(* Every departure from an in-order network that delivers before the       *)
(* retransmission timers run out is one fault of the budget MaxFaults.     *)
(***************************************************************************)
EXTENDS Integers, Sequences, FiniteSets, SequencesExt

CONSTANTS
    Modes,              \* the handshakes considered: [hit, cookie, ticket]
    MsgLen,             \* the length of the body of each type of message
    Mtu, FallbackMtu,   \* the room for a fragment in a datagram, at first and
                        \* after repeated timeouts
    MaxFaults,          \* bound on the number of network faults
    TmoAlertCount,      \* DTLS1_TMO_ALERT_COUNT, 12 in the source
    MaxBuffered,        \* limit of the record queues, 100 in the source
    MaxSeqAhead         \* how far ahead messages are kept, 10 in the source

Peers == {"client", "server"}
Other(p) == IF p = "client" THEN "server" ELSE "client"

HandshakeTypes == {"CH", "CHc", "HVR", "SH", "CERT", "SHD", "CKE", "NST", "FIN"}

ASSUME ModesAssumption ==
    Modes \subseteq [hit : BOOLEAN, cookie : BOOLEAN, ticket : BOOLEAN]
ASSUME LengthAssumption == /\ MsgLen \in [HandshakeTypes -> Nat]
                           /\ Mtu \in Nat \ {0} /\ FallbackMtu \in 1 .. Mtu
ASSUME BoundAssumption == /\ MaxFaults \in Nat
                          /\ TmoAlertCount \in Nat /\ MaxBuffered \in Nat
                          /\ MaxSeqAhead \in Nat

VARIABLES
    mode,       \* which handshake this is
    conn,       \* the state of each endpoint
    chan,       \* chan[p]: the records of p on their way, oldest first
    data,       \* the fate of the one application data record of each endpoint
    faults      \* the number of faults so far

vars == <<mode, conn, chan, data, faults>>

Off == -1                   \* no timer: next_timeout is zero
MaxTimeout == 60            \* seconds: the cap of dtls1_double_timeout

IsCcs(t) == IF t = "CCS" THEN 1 ELSE 0

(***************************************************************************)
(* The state of an endpoint.  seq numbers: rseq is handshake_read_seq,     *)
(* nextw next_handshake_write_seq.  A write record layer is named by its   *)
(* epoch; wrls are the ones allocated.                                     *)
(***************************************************************************)
NewConn ==
    [st |-> "BEFORE", failed |-> "no",
     rseq |-> 0, nextw |-> 0, repoch |-> 0, wepoch |-> 0,
     rbuf |-> {},           \* d1->buffered_messages
     unproc |-> <<>>,       \* unprocessed_rcds: records of the next epoch
     pend |-> <<>>,         \* what the previous record layer pushed to this one
     appbuf |-> <<>>,       \* buffered_app_data
     sent |-> <<>>,         \* d1->sent_messages, in the order of priorities
     wrls |-> {0},
     wnum |-> 0,            \* records written in epoch 1
     flight |-> <<>>,       \* what is left to write before reading on
     left |-> Off, dur |-> 1, num |-> 0, mtu |-> Mtu,
     hash |-> <<>>]         \* the handshake messages hashed for Finished

Fail(c, why) == [c EXCEPT !.failed = why]
Reading(c) == c.failed = "no" /\ c.st # "BEFORE" /\ c.flight = <<>>

-----------------------------------------------------------------------------
(* Writing *)

\* The priority of a message in the queue of sent messages: a ChangeCipherSpec
\* has the number of the message after it, and goes before it.
dtls1_get_queue_priority(seq, ccs) == seq * 2 - ccs

\* Emptying the queue of sent messages releases the write record layer of a
\* ChangeCipherSpec unless it is the one in use.
ClearSent(c) ==
    [c EXCEPT !.sent = <<>>,
              !.wrls = @ \ {m.wrl : m \in {n \in Range(c.sent) : n.type = "CCS"
                                                       /\ n.wrl # c.wepoch}}]

StartTimer(c) ==
    LET d == IF c.left = Off THEN 1 ELSE c.dur
    IN  [c EXCEPT !.dur = d, !.left = d]

StopTimer(c) ==
    ClearSent([c EXCEPT !.num = 0, !.left = Off, !.dur = 1])

\* st->use_timer at the time a message is written: not for a message that is
\* not buffered, nor from the ticket or the ChangeCipherSpec of a server on, nor
\* from that of a client that sends the last flight.
ClientUsesTimer(t) == ~(mode.hit /\ t \in {"CCS", "FIN"})
ServerUsesTimer(t) == t \notin {"HVR", "NST", "CCS", "FIN"}
UseTimer(p, t) == IF p = "client" THEN ClientUsesTimer(t) ELSE ServerUsesTimer(t)

BodyLen(t) == IF t = "CCS" THEN 0 ELSE MsgLen[t]
FragmentCount(t, mtu) == IF BodyLen(t) = 0 THEN 1 ELSE (BodyLen(t) + mtu - 1) \div mtu

\* The records of one message: dtls1_do_write cuts it in fragments that fit.
\* Record numbers matter in epoch 1 only, whose records may come early and are
\* then put in their order (prio); n is the number of the last one.
Records(m, mtu, n) ==
    LET len == BodyLen(m.type)
    IN  [i \in 1 .. FragmentCount(m.type, mtu) |->
            LET off == (i - 1) * mtu
            IN  [epoch |-> m.wrl, prio |-> m.wrl * (n + i), type |-> m.type, seq |-> m.seq,
                 mac |-> m.mac, off |-> off, len |-> IF len - off < mtu THEN len - off ELSE mtu]]

\* The records of epoch 1 written with message m.
WNum(m, mtu) == m.wrl * FragmentCount(m.type, mtu)

\* Mutant: the HelloVerifyRequest does not reset the hash.
HashWrittenAll(h, t) ==
    CASE t \in {"CH", "CHc"} -> <<t>>
      [] t = "CCS" -> h
      [] OTHER -> Append(h, t)

\* What is hashed for Finished when message t is written (not when it is
\* written again).
HashWritten(h, t) ==
    CASE t \in {"CH", "CHc"} -> <<t>>           \* every ClientHello resets it
      [] t = "HVR" -> <<>>                      \* and so does HelloVerifyRequest
      [] t = "CCS" -> h
      [] OTHER -> Append(h, t)

\* pqueue_insert: behind the items of lower priority; one whose priority is
\* there already is not put in.
pqueue_insert(q, item) ==
    IF \E i \in DOMAIN q : q[i].prio = item.prio THEN q
    ELSE InsertAt(q, Cardinality({i \in DOMAIN q : q[i].prio < item.prio}) + 1, item)

\* The message is put in the queue of sent messages, unless it is a
\* HelloVerifyRequest.
dtls1_buffer_message(c, m) == IF m.type = "HVR" THEN c.sent ELSE pqueue_insert(c.sent, m)

\* Mutant: the old record layer is released at once, as over TLS.
NewWriteLayerReleasing(c) ==
    [c EXCEPT !.wepoch = @ + 1, !.wrls = (@ \ {c.wepoch}) \union {c.wepoch + 1}]

\* After a ChangeCipherSpec the next epoch has a write record layer of its own;
\* the old one stays while messages sent under it are kept.
NewWriteLayer(c) ==
    [c EXCEPT !.wepoch = @ + 1,
              !.wrls = (IF c.sent = <<>> THEN @ \ {c.wepoch} ELSE @)
                            \union {c.wepoch + 1}]

\* tls_finish_handshake: the numbers start again, what was kept is dropped.
FinishHandshake(c) ==
    IF c.st = "OK" /\ c.flight = <<>>
    THEN [c EXCEPT !.rseq = 0, !.nextw = 0, !.rbuf = {}] ELSE c

\* One round of write_state_machine: the next message m of the flight is kept
\* for retransmission and hashed, and the timer starts.
WriteMessage(p, c, m) ==
    LET t == m.type
        c1 == [c EXCEPT !.flight = Tail(@),
                        !.nextw = @ + 1 - IsCcs(t),
                        !.wnum = @ + WNum(m, c.mtu),
                        !.sent = dtls1_buffer_message(c, m),
                        !.hash = HashWritten(@, t)]
        c2 == IF UseTimer(p, t) THEN StartTimer(c1) ELSE c1
        c3 == IF t = "HVR" THEN ClearSent(c2) ELSE c2
    IN  FinishHandshake(IF t = "CCS" THEN NewWriteLayer(c3) ELSE c3)

NextMessage(c) ==
    LET t == Head(c.flight)
    IN  [prio |-> dtls1_get_queue_priority(c.nextw, IsCcs(t)), type |-> t,
         seq |-> c.nextw, wrl |-> c.wepoch,
         mac |-> IF t = "FIN" THEN c.hash ELSE <<>>]

\* dtls1_retransmit_buffered_messages: all sent messages, in the order of their
\* priorities, each under the record layer it was first sent under.
Retransmission(c) ==
    FlattenSeq([i \in DOMAIN c.sent |-> Records(c.sent[i], c.mtu, c.wnum)])
Retransmitted(c) ==
    IF c.sent = <<>> THEN c ELSE [c EXCEPT !.wnum = @ + WNum(Last(c.sent), c.mtu)]

\* dtls1_check_timeout_num: after two timeouts datagrams get smaller, after
\* DTLS1_TMO_ALERT_COUNT the connection fails.
CheckTimeoutNum(c) ==
    LET d == [c EXCEPT !.num = @ + 1,
                       !.mtu = IF c.num + 1 > 2 THEN FallbackMtu ELSE @]
    IN  IF d.num > TmoAlertCount THEN Fail(d, "timeout") ELSE d

-----------------------------------------------------------------------------
(* The state machines *)

\* ossl_statem_client_read_transition: the state after message mt is read in
\* state st; "bad" if it may not come.
ClientReadTransition(st, mt) ==
    CASE st = "CW_CLNT_HELLO" /\ mt = "SH" -> "CR_SRVR_HELLO"
      [] st = "CW_CLNT_HELLO" /\ mt = "HVR" -> "CR_HELLO_VERIFY_REQUEST"
      [] st = "CR_SRVR_HELLO" /\ ~mode.hit /\ mt = "CERT" -> "CR_CERT"
      [] st = "CR_CERT" /\ mt = "SHD" -> "CR_SRVR_DONE"
      [] /\ st = "CW_FINISHED" \/ (st = "CR_SRVR_HELLO" /\ mode.hit)
         /\ mode.ticket /\ mt = "NST" -> "CR_SESSION_TICKET"
      [] /\ \/ st = "CR_SESSION_TICKET"
            \/ st = "CW_FINISHED" /\ ~mode.ticket
            \/ st = "CR_SRVR_HELLO" /\ mode.hit /\ ~mode.ticket
         /\ mt = "CCS" -> "CR_CHANGE"
      [] st = "CR_CHANGE" /\ mt = "FIN" -> "CR_FINISHED"
      [] OTHER -> "bad"

\* ossl_statem_server_read_transition
ServerReadTransition(st, mt) ==
    CASE st \in {"LISTEN", "SW_HELLO_VERIFY_REQUEST"}
         /\ mt \in {"CH", "CHc"} -> "SR_CLNT_HELLO"
      [] st = "SW_SRVR_DONE" /\ mt = "CKE" -> "SR_KEY_EXCH"
      [] st \in {"SR_KEY_EXCH", "SW_FINISHED"} /\ mt = "CCS" -> "SR_CHANGE"
      [] st = "SR_CHANGE" /\ mt = "FIN" -> "SR_FINISHED"
      [] OTHER -> "bad"

ReadTransition(p, st, mt) ==
    IF p = "client" THEN ClientReadTransition(st, mt) ELSE ServerReadTransition(st, mt)

Ticket == IF mode.ticket THEN <<"NST">> ELSE <<>>

\* Mutant: the client does not send a second ClientHello.
ClientWriteNoCookie(st) ==
    CASE st = "CR_SRVR_DONE" ->
            [st |-> "CW_FINISHED", flight |-> <<"CKE", "CCS", "FIN">>]
      [] OTHER -> [st |-> st, flight |-> <<>>]

\* ossl_statem_client_write_transition, until it reads again: the flight written
\* after the message that brought the client to state st is processed, and the
\* state in which it reads on.
ClientWriteTransition(st) ==
    CASE st = "CR_HELLO_VERIFY_REQUEST" ->
            [st |-> "CW_CLNT_HELLO", flight |-> <<"CHc">>]
      [] st = "CR_SRVR_DONE" ->
            [st |-> "CW_FINISHED", flight |-> <<"CKE", "CCS", "FIN">>]
      [] st = "CR_FINISHED" ->
            [st |-> "OK", flight |-> IF mode.hit THEN <<"CCS", "FIN">> ELSE <<>>]
      [] OTHER -> [st |-> st, flight |-> <<>>]

\* ossl_statem_server_write_transition, likewise, after message mt.
ServerWriteTransition(st, mt) ==
    CASE st = "SR_CLNT_HELLO" /\ mode.cookie /\ mt = "CH" ->
            [st |-> "SW_HELLO_VERIFY_REQUEST", flight |-> <<"HVR">>]
      [] st = "SR_CLNT_HELLO" /\ ~(mode.cookie /\ mt = "CH") ->
            IF mode.hit
            THEN [st |-> "SW_FINISHED", flight |-> <<"SH">> \o Ticket \o <<"CCS", "FIN">>]
            ELSE [st |-> "SW_SRVR_DONE", flight |-> <<"SH", "CERT", "SHD">>]
      [] st = "SR_FINISHED" ->
            [st |-> "OK",
             flight |-> IF mode.hit THEN <<>> ELSE Ticket \o <<"CCS", "FIN">>]
      [] OTHER -> [st |-> st, flight |-> <<>>]

WriteTransition(p, st, mt) ==
    IF p = "client" THEN ClientWriteTransition(st) ELSE ServerWriteTransition(st, mt)

EndsFlight == {"CR_HELLO_VERIFY_REQUEST", "CR_SRVR_DONE", "CR_FINISHED",
               "SR_CLNT_HELLO", "SR_FINISHED"}

\* A handshake message is complete: read_state_machine processes it and, at the
\* end of the peer's flight, stops the timer and goes on to write_state_machine.
ProcessMessage(p, c, m) ==
    LET c1 == [c EXCEPT !.rseq = @ + 1, !.hash = Append(@, m.type)]
        st == ReadTransition(p, c.st, m.type)
        wt == WriteTransition(p, st, m.type)
    IN  CASE st = "bad" -> Fail(c1, "unexpected")
          [] st # "bad" /\ m.type = "FIN" /\ m.mac # c.hash -> Fail(c1, "digest")
          [] OTHER ->
                IF st \in EndsFlight
                THEN FinishHandshake([StopTimer(c1) EXCEPT !.st = wt.st,
                                                           !.flight = wt.flight])
                ELSE [c1 EXCEPT !.st = st]

\* A ChangeCipherSpec where the state machine takes one starts the next read
\* epoch: buffered messages are dropped, and the old record layer hands the
\* records of the new epoch on.  Anywhere else it is dropped.
ProcessCcs(p, c) ==
    LET st == ReadTransition(p, c.st, "CCS")
    IN  IF st = "bad" THEN c
        ELSE [c EXCEPT !.st = st, !.repoch = @ + 1, !.rbuf = {},
                       !.pend = c.unproc, !.unproc = <<>>]
-----------------------------------------------------------------------------
(* Reading *)

Whole(r) == r.len = MsgLen[r.type]
Find(c, seq) == {i \in c.rbuf : i.seq = seq}

\* The bits of byte b of a reassembly bitmask.
Byte(b) == 8 * b .. 8 * b + 7

\* RSMBLY_BITMASK_MARK: a short range bit by bit, a long one by its first byte,
\* the bytes between and its last byte.
Mark(mask, start, end) ==
    mask \union
    IF end - start <= 8 THEN start .. end - 1
    ELSE LET first == start \div 8
             last == (end - 1) \div 8
         IN  {i \in Byte(first) : i % 8 >= start % 8}
             \union (UNION {Byte(b) : b \in first + 1 .. last - 1})
             \union {i \in Byte(last) : end % 8 = 0 \/ i % 8 < end % 8}

\* Mutant: the last byte of the bitmask is not looked at.
IsCompleteShort(mask, len) ==
    \A b \in 0 .. (len - 1) \div 8 - 1 : Byte(b) \subseteq mask

\* RSMBLY_BITMASK_IS_COMPLETE: the last byte has its bits, the others are full.
IsComplete(mask, len) ==
    LET last == (len - 1) \div 8
    IN  /\ mask \intersect Byte(last) = {i \in Byte(last) : len % 8 = 0 \/ i % 8 < len % 8}
        /\ \A b \in 0 .. last - 1 : Byte(b) \subseteq mask

\* A buffered message is complete when it has no bitmask any more.
Complete(i) == i.complete

\* dtls1_reassemble_fragment: a fragment of a message that is complete is
\* dropped, another is copied to its place and marked.
Reassemble(c, r) ==
    LET old == Find(c, r.seq)
        mask == Mark(UNION {i.mask : i \in old}, r.off, r.off + r.len)
        new == [seq |-> r.seq, type |-> r.type, mac |-> r.mac, mask |-> mask,
                bytes |-> (UNION {i.bytes : i \in old}) \union (r.off .. r.off + r.len - 1),
                complete |-> IsComplete(mask, MsgLen[r.type])]
    IN  IF \E i \in old : Complete(i) THEN c
        ELSE [c EXCEPT !.rbuf = (@ \ old) \union {new}]

\* A whole message is kept as it is.
BufferWhole(c, r) ==
    [c EXCEPT !.rbuf = @ \union
        {[seq |-> r.seq, type |-> r.type, mac |-> r.mac, mask |-> {},
          bytes |-> 0 .. r.len - 1, complete |-> TRUE]}]

\* dtls1_process_out_of_seq_message: a message of the past, of the far future,
\* one that is there already, or a Finished before anything else is dropped.
OutOfSeq(c, r) ==
    IF \/ r.seq <= c.rseq
       \/ r.seq > c.rseq + MaxSeqAhead
       \/ Whole(r) /\ Find(c, r.seq) # {}
       \/ c.rseq = 0 /\ r.type = "FIN"
    THEN c
    ELSE IF Whole(r) THEN BufferWhole(c, r) ELSE Reassemble(c, r)

\* The first ClientHello again, after a HelloVerifyRequest that may be lost.
FirstHelloAgain(p, c, seq, t) ==
    /\ p = "server" /\ seq = 0 /\ c.rseq = 1
    /\ t = "CH" /\ c.st = "SW_HELLO_VERIFY_REQUEST"

RestartSeq(c) == [c EXCEPT !.rseq = 0, !.nextw = 0]

\* dtls_get_reassembled_message for a record of handshake data.
ReadHandshake(p, c, r) ==
    LET again == FirstHelloAgain(p, c, r.seq, r.type)
    IN  IF r.seq # c.rseq /\ ~again THEN OutOfSeq(c, r)
        ELSE IF ~Whole(r) THEN Reassemble(c, r)
        ELSE ProcessMessage(p, IF again THEN RestartSeq(c) ELSE c, r)

\* Mutant: a Finished that comes again is not answered.
AnswerNothing(c, r) == <<>>

\* dtls1_read_bytes after the handshake, for a record of handshake data: a
\* Finished of the peer again is counted, and answered with the last flight.
ReadAfterHandshake(c, r) ==
    IF r.type = "FIN" THEN Retransmitted(CheckTimeoutNum(c)) ELSE Fail(c, "renegotiation")
Answer(c, r) ==
    IF /\ r.epoch = c.repoch /\ r.type = "FIN" /\ c.st = "OK"
       /\ CheckTimeoutNum(c).failed = "no"
    THEN Retransmission(CheckTimeoutNum(c)) ELSE <<>>

\* Mutant: application data between ChangeCipherSpec and Finished is dropped.
ReadDataDrops(c, r) == c

\* Application data between ChangeCipherSpec and Finished is kept for later.
ReadData(c, r) ==
    CASE c.st = "OK" -> c
      [] c.st \in {"CR_CHANGE", "SR_CHANGE"} ->
            IF Len(c.appbuf) >= MaxBuffered THEN c
            ELSE [c EXCEPT !.appbuf = Append(@, r)]
      [] OTHER -> Fail(c, "unexpected")

\* One record comes up: dtls_get_more_records drops one of another epoch, but
\* keeps one of the next epoch while the handshake runs.
ReadRecord(p, c, r) ==
    CASE r.epoch = c.repoch /\ r.type = "CCS" ->
            IF c.st = "OK" THEN c ELSE ProcessCcs(p, c)
      [] r.epoch = c.repoch /\ r.type = "DATA" -> ReadData(c, r)
      [] r.epoch = c.repoch /\ r.type \in HandshakeTypes ->
            IF c.st = "OK" THEN ReadAfterHandshake(c, r) ELSE ReadHandshake(p, c, r)
      [] r.epoch = c.repoch + 1 /\ c.st # "OK" /\ Len(c.unproc) < MaxBuffered ->
            [c EXCEPT !.unproc = pqueue_insert(@, r)]
      [] OTHER -> c

\* dtls1_retrieve_buffered_fragment: messages of the past are dropped, except
\* the first ClientHello after a HelloVerifyRequest while the second is not
\* there; the buffered message that comes next is ready when it is complete.
Stale(p, c) ==
    {i \in c.rbuf : /\ i.seq < c.rseq
                    /\ \/ ~FirstHelloAgain(p, c, i.seq, i.type)
                       \/ Find(c, c.rseq) # {}}
Ready(p, c) ==
    {i \in c.rbuf \ Stale(p, c) :
        Complete(i) /\ (i.seq = c.rseq \/ FirstHelloAgain(p, c, i.seq, i.type))}
-----------------------------------------------------------------------------
Init ==
    /\ mode \in Modes
    /\ conn = [p \in Peers |-> IF p = "server" THEN [NewConn EXCEPT !.st = "LISTEN"]
                                               ELSE NewConn]
    /\ chan = [p \in Peers |-> <<>>]
    /\ data = [p \in Peers |-> "none"]
    /\ faults = 0

\* The client's SSL_connect.
Connect ==
    /\ conn["client"].st = "BEFORE"
    /\ conn' = [conn EXCEPT !["client"].st = "CW_CLNT_HELLO",
                             !["client"].flight = <<"CH">>]
    /\ UNCHANGED <<mode, chan, data, faults>>

Write(p) ==
    /\ conn[p].failed = "no" /\ conn[p].flight # <<>>
    /\ LET m == NextMessage(conn[p])
       IN  /\ conn' = [conn EXCEPT ![p] = WriteMessage(p, @, m)]
           /\ chan' = [chan EXCEPT ![p] = @ \o Records(m, conn[p].mtu, conn[p].wnum)]
    /\ UNCHANGED <<mode, data, faults>>

\* A message that is complete in the buffer is read before another record.
ReadBuffered(p) ==
    LET c == conn[p]
    IN  /\ Reading(c) /\ c.st # "OK"
        /\ \E i \in Ready(p, c) :
              LET c1 == [c EXCEPT !.rbuf = @ \ (Stale(p, c) \union {i})]
              IN  conn' = [conn EXCEPT ![p] =
                            ProcessMessage(p, IF i.seq < c.rseq THEN RestartSeq(c1)
                                                                ELSE c1, i)]
        /\ UNCHANGED <<mode, chan, data, faults>>

\* The application gets the peer's data, from the wire or from the buffer.
Delivered(p, r) ==
    IF r.type = "DATA" /\ conn[p].st = "OK" /\ r.epoch = conn[p].repoch
    THEN [data EXCEPT ![Other(p)] = "read"] ELSE data

MayRead(p) ==
    LET c == conn[p]
    IN  /\ Reading(c)
        /\ c.left # 0                                   \* a timeout comes first
        /\ c.st = "OK" \/ Ready(p, c) = {}
        /\ ~(c.st = "OK" /\ c.appbuf # <<>>)

DropStale(p, c) == [c EXCEPT !.rbuf = @ \ Stale(p, c)]

\* A record the previous record layer handed on is read before the wire.
ReadPending(p) ==
    /\ MayRead(p)
    /\ conn[p].pend # <<>>
    /\ LET r == Head(conn[p].pend)
           c == DropStale(p, [conn[p] EXCEPT !.pend = Tail(@)])
       IN  /\ conn' = [conn EXCEPT ![p] = ReadRecord(p, c, r)]
           /\ chan' = [chan EXCEPT ![p] = @ \o Answer(c, r)]
           /\ data' = Delivered(p, r)
    /\ UNCHANGED <<mode, faults>>

\* Record number i on the way to p arrives; only the first is on time.
Receive(p, i) ==
    /\ MayRead(p)
    /\ conn[p].pend = <<>>
    /\ i = 1 \/ faults < MaxFaults
    /\ LET r == chan[Other(p)][i]
           c == DropStale(p, conn[p])
       IN  /\ conn' = [conn EXCEPT ![p] = ReadRecord(p, c, r)]
           /\ chan' = [chan EXCEPT ![Other(p)] = RemoveAt(@, i),
                                   ![p] = @ \o Answer(c, r)]
           /\ data' = Delivered(p, r)
    /\ faults' = IF i = 1 THEN faults ELSE faults + 1
    /\ UNCHANGED mode

\* dtls_unbuffer_record: data kept during the handshake is read first after it.
ReadBufferedData(p) ==
    /\ Reading(conn[p]) /\ conn[p].st = "OK" /\ conn[p].appbuf # <<>>
    /\ conn' = [conn EXCEPT ![p].appbuf = Tail(@)]
    /\ data' = Delivered(p, Head(conn[p].appbuf))
    /\ UNCHANGED <<mode, chan, faults>>

\* An application writes once its handshake is over.
WriteData(p) ==
    /\ Reading(conn[p]) /\ conn[p].st = "OK" /\ data[p] = "none"
    /\ conn' = [conn EXCEPT ![p].wnum = @ + 1]
    /\ chan' = [chan EXCEPT ![p] = Append(@,
            [epoch |-> conn[p].wepoch, prio |-> conn[p].wnum + 1, type |-> "DATA",
             seq |-> 0, mac |-> <<>>, off |-> 0, len |-> 1])]
    /\ data' = [data EXCEPT ![p] = "sent"]
    /\ UNCHANGED <<mode, faults>>

\* dtls1_handle_timeout, when the timer has run out.
Timeout(p) ==
    LET c == conn[p]
        d == CheckTimeoutNum([c EXCEPT !.dur = IF 2 * @ > MaxTimeout THEN MaxTimeout
                                                                     ELSE 2 * @])
    IN  /\ Reading(c) /\ c.left = 0
        /\ conn' = [conn EXCEPT ![p] =
                        IF d.failed = "no" THEN StartTimer(Retransmitted(d)) ELSE d]
        /\ chan' = [chan EXCEPT ![p] = IF d.failed = "no" THEN @ \o Retransmission(d) ELSE @]
        /\ UNCHANGED <<mode, data, faults>>

\* Time passes until the next timer runs out.  While records are still on their
\* way that is a fault: the network is slower than the timer.
Running == {p \in Peers : conn[p].failed = "no" /\ conn[p].left # Off}
Quiet == /\ \A p \in Peers : chan[p] = <<>>
         /\ \A p \in Peers : conn[p].failed = "no" =>
                /\ conn[p].pend = <<>> /\ conn[p].flight = <<>>
                /\ conn[p].st = "OK" \/ Ready(p, conn[p]) = {}
Tick ==
    /\ Running # {}
    /\ \A p \in Running : conn[p].left > 0
    /\ Quiet \/ faults < MaxFaults
    /\ LET d == CHOOSE n \in {conn[p].left : p \in Running} :
                    \A p \in Running : n <= conn[p].left
       IN  conn' = [p \in Peers |-> IF p \in Running THEN [conn[p] EXCEPT !.left = @ - d]
                                                    ELSE conn[p]]
    /\ faults' = IF Quiet THEN faults ELSE faults + 1
    /\ UNCHANGED <<mode, chan, data>>

\* The network loses record number i of p.
Lose(p, i) ==
    /\ faults < MaxFaults
    /\ data' = IF chan[p][i].type = "DATA" THEN [data EXCEPT ![p] = "lost"] ELSE data
    /\ chan' = [chan EXCEPT ![p] = RemoveAt(@, i)]
    /\ faults' = faults + 1
    /\ UNCHANGED <<mode, conn>>

Next ==
    \/ Connect
    \/ Tick
    \/ \E p \in Peers :
          \/ Write(p) \/ ReadBuffered(p) \/ ReadPending(p) \/ ReadBufferedData(p)
          \/ WriteData(p) \/ Timeout(p)
          \/ \E i \in DOMAIN chan[Other(p)] : Receive(p, i)
          \/ \E i \in DOMAIN chan[p] : Lose(p, i)

Spec == Init /\ [][Next]_vars

\* The applications call the library when there is something to read or the
\* timer has run out, and what the network does not lose arrives.
Fairness ==
    /\ WF_vars(Connect) /\ WF_vars(Tick)
    /\ \A p \in Peers :
          /\ WF_vars(Write(p)) /\ WF_vars(ReadBuffered(p)) /\ WF_vars(ReadPending(p))
          /\ WF_vars(Timeout(p))
          /\ WF_vars(chan[Other(p)] # <<>> /\ Receive(p, 1))

FairSpec == Spec /\ Fairness
-----------------------------------------------------------------------------
\* An endpoint is in a state in which it reads, after what it has to write.
TypeOK ==
    /\ mode \in Modes
    /\ faults \in 0 .. MaxFaults
    /\ data \in [Peers -> {"none", "sent", "lost", "read"}]
    /\ \A p \in Peers :
          /\ conn[p].st \in {"BEFORE", "LISTEN", "CW_CLNT_HELLO", "CR_SRVR_HELLO",
                             "CR_CERT", "CW_FINISHED", "CR_SESSION_TICKET", "CR_CHANGE",
                             "SW_HELLO_VERIFY_REQUEST", "SW_SRVR_DONE", "SR_KEY_EXCH",
                             "SW_FINISHED", "SR_CHANGE", "OK"}
          /\ conn[p].rseq \in Nat /\ conn[p].nextw \in Nat
          /\ conn[p].left \in {Off} \union 0 .. MaxTimeout
          /\ conn[p].num \in 0 .. TmoAlertCount + 1
          /\ conn[p].repoch \in {0, 1} /\ conn[p].wepoch \in {0, 1}

\* Loss, reordering, delay and retransmission never make a handshake fail, but
\* for the limit on timeouts: no message comes where the state machine does not
\* take it, and both Finished agree with what the peer has hashed.
OnlyTimeoutsFail == \A p \in Peers : conn[p].failed \in {"no", "timeout"}

\* The record layer a message was sent under is there for its retransmission,
\* and an old record layer is released with the last message that needs it.
LayersKept ==
    \A p \in Peers :
        conn[p].wrls = {conn[p].wepoch} \union {m.wrl : m \in Range(conn[p].sent)}

\* A message put together from fragments, of whatever sizes, is taken to be
\* complete exactly when every byte of it is there.
ReassembledWhole ==
    \A p \in Peers : \A i \in conn[p].rbuf :
        i.complete <=> i.bytes = 0 .. MsgLen[i.type] - 1

\* Application data that overtakes the end of the handshake is not dropped: it
\* is on the wire, or in one of the three places the library keeps it.
DataKept ==
    \A p \in Peers :
        LET c == conn[Other(p)]
            Holds(s) == \E i \in DOMAIN s : s[i].type = "DATA"
        IN  data[p] = "sent" => \/ Holds(chan[p]) \/ Holds(c.unproc)
                                \/ Holds(c.pend) \/ Holds(c.appbuf)

\* Both sides complete the handshake, whatever is lost, late or out of order, and
\* stay connected: one of them always has a timer, or a record to answer, that
\* gets it going, and the limit on timeouts is not reached by fewer faults than
\* the limit, in the handshake or by Finished messages that come again after it,
\* as what was counted for one flight does not count for the next.
Completes == <>[](\A p \in Peers : conn[p].st = "OK" /\ conn[p].failed = "no")
=============================================================================
