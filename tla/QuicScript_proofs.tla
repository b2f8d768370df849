------------------------- MODULE QuicScript_proofs -------------------------
(***************************************************************************)
(* Proofs about the two ends of QuicHandshake, for every set of            *)
(* configurations and any number of failures: no error comes but from a    *)
(* failure, both agree on the handshake they report, and nothing that the  *)
(* peer sends is refused.                                                  *)
(*                                                                         *)
(* The configuration fixes a script, the messages of the handshake in the  *)
(* order in which both ends hash them.  Where an end is in its state       *)
(* machine gives the number it is at, and what is on its way between the   *)
(* ends is what lies between their numbers.                                *)
(***************************************************************************)
EXTENDS QuicHandshake_proofs

-----------------------------------------------------------------------------
(* The script of a handshake *)

\* What a configuration makes of the handshake: whether the session is resumed,
\* the client is asked for a certificate, early data is accepted.
Resumes(c) == c.session /\ c.acceptPsk
Asks(c)    == c.certReq /\ ~Resumes(c)
Admits(c)  == c.clientEarly = "on" /\ Resumes(c) /\ c.serverEarly = "accept" /\ ~c.hrr

\* The messages of all handshakes are numbered in the order in which they enter
\* the transcripts of both sides:
\*   1 ClientHello to be retried  2 HelloRetryRequest  3 ClientHello  4 ServerHello
\*   5 EncryptedExtensions  6 CertificateRequest  7 Certificate
\*   8 CertificateVerify  9 Finished
\*   10 Certificate  11 CertificateVerify  12 Finished
\* These are the numbers that a handshake has, and those that a side sends.
Numbers(c) ==
    {n \in 1 .. 12 : /\ n \in {1, 2} => c.hrr
                     /\ n \in {7, 8} => ~Resumes(c)
                     /\ n \in {6, 10} => Asks(c)
                     /\ n = 11 => Asks(c) /\ c.clientCert}
Lines(p) == IF p = "client" THEN {1, 3, 10, 11, 12} ELSE {2, 4, 5, 6, 7, 8, 9}

\* Number n comes next after number m.
Follows(c, n, m) == n \in Numbers(c) /\ m < n /\ \A k \in Numbers(c) : k < n => k <= m

\* What message n is and has in it.
TypeOf(n) ==
    CASE n \in {1, 3}  -> "CLIENT_HELLO"
      [] n \in {2, 4}  -> "SERVER_HELLO"
      [] n = 5         -> "ENCRYPTED_EXTENSIONS"
      [] n = 6         -> "CERTIFICATE_REQUEST"
      [] n \in {7, 10} -> "CERTIFICATE"
      [] n \in {8, 11} -> "CERTIFICATE_VERIFY"
      [] OTHER         -> "FINISHED"

Psk(c)      == IF c.session THEN {"psk"} ELSE {}
Early(c, b) == IF c.clientEarly = "on" /\ b THEN {"early"} ELSE {}

HasOf(c, n) ==
    CASE n = 1  -> Psk(c) \union Early(c, TRUE)
      [] n = 2  -> {"hrr"}
      [] n = 3  -> Psk(c) \union Early(c, ~c.hrr)
      [] n = 4  -> IF Resumes(c) THEN {"psk"} ELSE {}
      [] n = 5  -> IF Admits(c) THEN {"early"} ELSE {}
      [] n = 10 -> IF c.clientCert THEN {} ELSE {"empty"}
      [] OTHER  -> {}

KindOf(c, n) == [type |-> TypeOf(n), has |-> HasOf(c, n)]

\* The transcript when message n is in it.
Grown(c, q, n) == Append(q, KindOf(c, n))
Hashed(c)    == <<[type |-> "message_hash", has |-> HasOf(c, 1)]>>
Opening(c)   == IF c.hrr THEN Grown(c, Grown(c, Hashed(c), 2), 3) ELSE Grown(c, <<>>, 3)
Extended(c)  == Grown(c, Grown(c, Opening(c), 4), 5)
Requested(c) == IF c.certReq THEN Grown(c, Extended(c), 6) ELSE Extended(c)
Verified(c)  == Grown(c, Grown(c, Requested(c), 7), 8)
Spelled(c)   == IF Resumes(c) THEN Extended(c) ELSE Verified(c)
Served(c)    == Grown(c, Spelled(c), 9)
Shown(c)     == Grown(c, Served(c), 10)
Answered(c)  == IF ~Asks(c) THEN Served(c)
                ELSE IF c.clientCert THEN Grown(c, Shown(c), 11) ELSE Shown(c)

After(c, n) ==
    CASE n = 0  -> <<>>
      [] n = 1  -> Grown(c, <<>>, 1)
      [] n = 2  -> Grown(c, Hashed(c), 2)
      [] n = 3  -> Opening(c)
      [] n = 4  -> Grown(c, Opening(c), 4)
      [] n = 5  -> Extended(c)
      [] n = 6  -> Grown(c, Extended(c), 6)
      [] n = 7  -> Grown(c, Requested(c), 7)
      [] n = 8  -> Verified(c)
      [] n = 9  -> Served(c)
      [] n = 10 -> Shown(c)
      [] n = 11 -> Grown(c, Shown(c), 11)
      [] OTHER  -> Grown(c, Answered(c), 12)

\* q begins with r.
Extends(q, r) == Len(r) <= Len(q) /\ \A i \in 1 .. Len(r) : q[i] = r[i]

\* What a Finished authenticates.
MacOf(c, n) == CASE n = 9 -> Spelled(c) [] n = 12 -> Answered(c) [] OTHER -> <<>>

\* Message n as it is sent, and the level it is sent at.
MessageOf(c, n) == [type |-> TypeOf(n), has |-> HasOf(c, n), mac |-> MacOf(c, n)]
LevelOf(n) == IF n <= 4 THEN ssl_encryption_initial ELSE ssl_encryption_handshake

-----------------------------------------------------------------------------
(* The place of an endpoint in the script *)

\* The message of this state is not sent yet.
Unsaid(s) == s.write_state \in {"PRE_WORK", "SEND"}

\* The ClientHello that a client is to send or has sent last.
HelloOf(s, c) == IF c.hrr /\ s.hello_retry_request # "PENDING" THEN 1 ELSE 3

\* The number of the last message that a client has sent or read.
ClientPos(s, c) ==
    CASE s.hand_state = "BEFORE"       -> 0
      [] s.hand_state = "CW_CLNT_HELLO" ->
            IF ~Unsaid(s) THEN HelloOf(s, c)
            ELSE IF c.hrr /\ s.hello_retry_request = "PENDING" THEN 2 ELSE 0
      [] s.hand_state = "EARLY_DATA"   -> HelloOf(s, c)
      [] s.hand_state = "CR_SRVR_HELLO" ->
            IF s.quic_read_level = ssl_encryption_initial THEN 2 ELSE 4
      [] s.hand_state = "CR_ENCRYPTED_EXTENSIONS" -> 5
      [] s.hand_state = "CR_CERT_REQ"  -> 6
      [] s.hand_state = "CR_CERT"      -> 7
      [] s.hand_state = "CR_CERT_VRFY" -> 8
      [] s.hand_state \in {"CR_FINISHED", "PENDING_EARLY_DATA_END", "CW_END_OF_EARLY_DATA"} -> 9
      [] s.hand_state = "CW_CERT"      -> IF Unsaid(s) THEN 9 ELSE 10
      [] s.hand_state = "CW_CERT_VRFY" -> IF Unsaid(s) THEN 10 ELSE 11
      [] s.hand_state = "CW_FINISHED"  ->
            IF ~Unsaid(s) THEN 12 ELSE IF ~Asks(c) THEN 9 ELSE IF c.clientCert THEN 11 ELSE 10
      [] OTHER -> 12

\* The number of the message that it writes.
ClientSays(s, c) ==
    CASE s.hand_state = "CW_CLNT_HELLO" -> HelloOf(s, c)
      [] s.hand_state = "CW_CERT"       -> 10
      [] s.hand_state = "CW_CERT_VRFY"  -> 11
      [] OTHER                          -> 12

\* The server has read a ClientHello and not judged it yet.
Weighing(s) == s.hand_state = "SR_CLNT_HELLO" /\ s.read_state = "POST_PROCESS"

\* The same of a server.
ServerPos(s, c) ==
    CASE s.hand_state = "BEFORE" -> 0
      [] s.hand_state = "SR_CLNT_HELLO" ->
            IF Weighing(s)
            THEN IF c.hrr /\ s.hello_retry_request = "NONE" THEN 1 ELSE 3
            ELSE IF s.hello_retry_request = "PENDING" THEN 1 ELSE 3
      [] s.hand_state = "SW_SRVR_HELLO" ->
            IF s.hello_retry_request = "PENDING" THEN IF Unsaid(s) THEN 1 ELSE 2
            ELSE IF Unsaid(s) THEN 3 ELSE 4
      [] s.hand_state = "SW_ENCRYPTED_EXTENSIONS" -> IF Unsaid(s) THEN 4 ELSE 5
      [] s.hand_state = "SW_CERT_REQ"  -> IF Unsaid(s) THEN 5 ELSE 6
      [] s.hand_state = "SW_CERT"      ->
            IF ~Unsaid(s) THEN 7 ELSE IF c.certReq THEN 6 ELSE 5
      [] s.hand_state = "SW_CERT_VRFY" -> IF Unsaid(s) THEN 7 ELSE 8
      [] s.hand_state = "SW_FINISHED"  ->
            IF ~Unsaid(s) THEN 9 ELSE IF Resumes(c) THEN 5 ELSE 8
      [] s.hand_state = "EARLY_DATA"   -> IF s.hello_retry_request = "PENDING" THEN 2 ELSE 9
      [] s.hand_state = "SR_CERT"      -> 10
      [] s.hand_state = "SR_CERT_VRFY" -> 11
      [] OTHER -> 12

\* The number of the message that it writes.
ServerSays(s) ==
    CASE s.hand_state = "SW_SRVR_HELLO" -> IF s.hello_retry_request = "PENDING" THEN 2 ELSE 4
      [] s.hand_state = "SW_ENCRYPTED_EXTENSIONS" -> 5
      [] s.hand_state = "SW_CERT_REQ"   -> 6
      [] s.hand_state = "SW_CERT"       -> 7
      [] s.hand_state = "SW_CERT_VRFY"  -> 8
      [] OTHER                          -> 9

ServerSpeakers == ServerFlight \union {"SW_SRVR_HELLO", "SW_FINISHED"}

\* A client that keeps to the script and is at number n: what it has said and
\* says, what it has made of the server's messages, and its levels.
ClientLines(s, c, n) ==
    /\ n \in Numbers(c) \union {0}
    /\ s.transcript = After(c, n)
    /\ s.state = "READING" => ~Unsaid(s)
    /\ s.hello_retry_request = IF c.hrr /\ n >= 2 THEN "PENDING" ELSE "NONE"
    /\ s.hand_state \in {"CW_CERT", "CW_CERT_VRFY"} => Asks(c)
    /\ s.hand_state = "CW_CERT_VRFY" => c.clientCert
    /\ s.hand_state \in ClientWrites /\ s.write_state = "SEND" =>
          s.msg = MessageOf(c, ClientSays(s, c))

ClientChoices(s, c, n) ==
    /\ n = 0 => s.early_data_state = EarlyDataState(FALSE, c)
    /\ s.hello_retry_request = "PENDING" => s.early_data_state # "CONNECTING"
    /\ n >= 4 => s.hit = Resumes(c)
    /\ s.early_data = "ACCEPTED" <=> n >= 5 /\ Admits(c)
    /\ s.cert_req = IF n < 6 \/ ~Asks(c) THEN 0
                    ELSE IF n <= 8 /\ ~(n = 8 /\ s.read_state = "HEADER") THEN 1
                    ELSE IF c.clientCert THEN 1 ELSE 2
    /\ n = 8 /\ s.read_state = "POST_PROCESS" => Asks(c)

ClientLevels(s, n) ==
    /\ ssl_encryption_handshake \in s.secrets => n >= 4
    /\ ssl_encryption_application \in s.secrets => n >= 9
    /\ s.quic_read_level = IF n < 4 THEN ssl_encryption_initial
                           ELSE IF n < 9 THEN ssl_encryption_handshake
                           ELSE ssl_encryption_application
    /\ (/\ n >= 4 /\ n < 12
        /\ \/ s.early_data_state = "NONE" \/ n >= 10
           \/ s.hand_state \in ClientWrites /\ s.write_state = "SEND")
          => s.quic_write_level = ssl_encryption_handshake

ClientAt(s, c, n) == ClientLines(s, c, n) /\ ClientChoices(s, c, n) /\ ClientLevels(s, n)

ClientKept(s, c) == ClientAt(s, c, ClientPos(s, c))

\* The ClientHello that counts is judged.
Judged(s, n) == n >= 3 /\ ~Weighing(s)

\* A server that keeps to the script and is at number n.
ServerLines(s, c, n) ==
    /\ n \in Numbers(c) \union {0}
    /\ s.transcript = IF n = 1 /\ s.hand_state = "SW_SRVR_HELLO" /\ s.write_state = "SEND"
                      THEN Hashed(c) ELSE After(c, n)
    /\ s.hand_state = "SW_CERT_REQ" => Asks(c)
    /\ s.hand_state \in {"SW_CERT", "SW_CERT_VRFY"} => ~Resumes(c)
    /\ s.hand_state \in ServerSpeakers /\ s.write_state = "SEND" =>
          s.msg = MessageOf(c, ServerSays(s))
    /\ s.hand_state = "SW_SESSION_TICKET" /\ s.write_state = "SEND" => s.msg.has = {}
    /\ s.hand_state = "SR_CERT" => s.msg.has = HasOf(c, 10)
    /\ Weighing(s) => s.clienthello = HasOf(c, n) /\ s.state # "WRITING"

ServerChoices(s, c, n) ==
    /\ s.hello_retry_request =
          IF ~c.hrr THEN "NONE"
          ELSE IF Judged(s, n) THEN "COMPLETE"
          ELSE IF n = 0 \/ (n = 1 /\ Weighing(s)) THEN "NONE" ELSE "PENDING"
    /\ ~c.hrr /\ ~Judged(s, n) => s.early_data_state = EarlyDataState(TRUE, c)
    /\ Judged(s, n) => s.hit = Resumes(c)
    /\ s.early_data = "ACCEPTED" <=> Judged(s, n) /\ Admits(c)
    /\ s.cert_req = IF Asks(c) /\ (n >= 6 \/ (s.hand_state = "SW_CERT_REQ"
                                              /\ s.write_state = "SEND"))
                    THEN 1 ELSE 0

ServerLevels(s, n) ==
    /\ ssl_encryption_handshake \in s.secrets => n >= 4
    /\ s.quic_read_level \in {ssl_encryption_initial} \union Protected
    /\ s.quic_read_level = ssl_encryption_application => n = 12

ServerAt(s, c, n) == ServerLines(s, c, n) /\ ServerChoices(s, c, n) /\ ServerLevels(s, n)

ServerKept(s, c) == ServerAt(s, c, ServerPos(s, c))

\* A transcript with a message in it that no script has.
Astray(tr) == \E i \in 1 .. Len(tr) : tr[i].has = {"stray"}

\* An endpoint that has read such a message reads on until it meets a Finished.
ClientLost(s, c) ==
    /\ s.hand_state \in {"CR_CERT_REQ", "CR_CERT", "CR_CERT_VRFY", "CR_FINISHED"}
    /\ s.hand_state = "CR_FINISHED" => s.state = "ERROR"
    /\ ssl_encryption_application \notin s.secrets
    /\ s.quic_read_level = ssl_encryption_handshake

ServerLost(s, c) ==
    /\ s.hand_state \in {"SR_CERT", "SR_CERT_VRFY", "SR_FINISHED"}
    /\ s.hand_state = "SR_FINISHED" => s.state = "ERROR"
    /\ Extends(s.transcript, After(c, 9))
    /\ s.quic_read_level = ssl_encryption_handshake

ClientSide(s, c) == IF Astray(s.transcript) THEN ClientLost(s, c) ELSE ClientKept(s, c)
ServerSide(s, c) == IF Astray(s.transcript) THEN ServerLost(s, c) ELSE ServerKept(s, c)

\* The number an endpoint is at, and that it keeps to the script or is lost.
Pos(p, s, c)  == IF p = "client" THEN ClientPos(s, c) ELSE ServerPos(s, c)
Side(p, s, c) == IF p = "client" THEN ClientSide(s, c) ELSE ServerSide(s, c)

-----------------------------------------------------------------------------
(* What is on its way *)

\* A message of the script: neither one too many nor a ticket.
Scripted(m) == m.msg.has # {"stray"} /\ m.msg.type # "NEWSESSION_TICKET"

\* The number of a message of p, h that of a ClientHello.
Number(p, h, m) ==
    CASE m.msg.type = "CLIENT_HELLO"         -> h
      [] m.msg.type = "SERVER_HELLO"         -> IF m.msg.has = {"hrr"} THEN 2 ELSE 4
      [] m.msg.type = "ENCRYPTED_EXTENSIONS" -> 5
      [] m.msg.type = "CERTIFICATE_REQUEST"  -> 6
      [] m.msg.type = "CERTIFICATE"          -> IF p = "client" THEN 10 ELSE 7
      [] m.msg.type = "CERTIFICATE_VERIFY"   -> IF p = "client" THEN 11 ELSE 8
      [] OTHER                               -> IF p = "client" THEN 12 ELSE 9

Hello(p, s, c) == IF p = "client" THEN HelloOf(s, c) ELSE 3

\* What p may have sent when it is at number a: messages of the script, tickets
\* when it is through, and a message too many.
Genuine(p, c, h, a, m) ==
    /\ m.msg.has = {"stray"} =>
          /\ m.level = ssl_encryption_handshake /\ m.msg.mac = <<>>
          /\ m.msg.type \in {"CERTIFICATE_REQUEST", "CERTIFICATE", "FINISHED"}
    /\ m.msg.type = "NEWSESSION_TICKET" =>
          p = "server" /\ a = 12 /\ m.level = ssl_encryption_application
    /\ Scripted(m) =>
          /\ Number(p, h, m) \in Numbers(c) \intersect Lines(p)
          /\ Number(p, h, m) <= a
          /\ m.msg = MessageOf(c, Number(p, h, m))
          /\ m.level = LevelOf(Number(p, h, m))

\* x before y does not disturb the order of a level.
Earlier(p, h, x, y) ==
    Scripted(x) /\ Scripted(y) /\ x.level = y.level => Number(p, h, x) < Number(p, h, y)
Sorted(p, h, q)    == \A i, j \in 1 .. Len(q) : i < j => Earlier(p, h, q[i], q[j])
InTurn(p, h, q, r) == \A i \in 1 .. Len(q) : \A j \in 1 .. Len(r) : Earlier(p, h, q[i], r[j])

\* Number n is in q; q has nothing that p may not have sent, that is read
\* already, or, but for a message too many, of the initial level.
Present(p, h, q, n) == \E i \in 1 .. Len(q) : Scripted(q[i]) /\ Number(p, h, q[i]) = n
Fit(p, c, h, a, q)  == \A i \in 1 .. Len(q) : Genuine(p, c, h, a, q[i])
Above(p, h, b, q)   == \A i \in 1 .. Len(q) : Scripted(q[i]) => Number(p, h, q[i]) > b
Secured(q)          == \A i \in 1 .. Len(q) : Scripted(q[i]) => q[i].level # ssl_encryption_initial

\* What p has said and its peer not read is there, and its peer has read nothing
\* that p has not said.
Complete(p, c, h, a, b, I, Q) ==
    \A n \in Numbers(c) \intersect Lines(p) :
        /\ b < n /\ n <= a => Present(p, h, I, n) \/ Present(p, h, Q, n)
        /\ n <= b => n <= a

\* Between p at number a and its peer at number b, which has I in its queue and
\* Q before it: exactly the messages of p that the peer has not read, in order
\* at each level. Of a peer that is lost, only that the initial level is over.
Channel(p, c, h, a, b, lost, I, Q) ==
    /\ Fit(p, c, h, a, I) /\ Fit(p, c, h, a, Q)
    /\ Sorted(p, h, I) /\ Sorted(p, h, Q) /\ InTurn(p, h, I, Q)
    /\ ~lost => Above(p, h, b, I) /\ Above(p, h, b, Q) /\ Complete(p, c, h, a, b, I, Q)
    /\ lost => Secured(Q) /\ a >= IF p = "client" THEN 3 ELSE 4

\* What an endpoint was given it can decrypt.
Intake(s) ==
    /\ \A i \in 1 .. Len(s.quic_input_data) :
          /\ CanDecrypt(s, s.quic_input_data[i].level)
          /\ s.quic_input_data[i].level <= s.quic_latest_level_received
    /\ CanDecrypt(s, s.quic_latest_level_received)
    /\ s.quic_latest_level_received \in {ssl_encryption_initial} \union Protected
    /\ s.server => s.quic_latest_level_received # ssl_encryption_application

\* A handshake is reported at its end.
Reported(s) == s.done => s.hand_state \in {"OK", "CR_SESSION_TICKET", "SW_SESSION_TICKET"}

\* What p has sent and the transport not delivered, what it holds back included.
Way(p) == wire[p] \o ssl[p].flight

\* The channel from p to q.
Linked(p, q) ==
    Channel(p, config, Hello(p, ssl[p], config), Pos(p, ssl[p], config), Pos(q, ssl[q], config),
            Astray(ssl[q].transcript), ssl[q].quic_input_data, Way(p))

\* Nothing in q is a message too many.
Clean(q) == \A i \in 1 .. Len(q) : q[i].msg.has # {"stray"}

\* Without a failure nothing goes wrong.
Faultless ==
    faults = MaxFaults =>
        \A p \in Peer : /\ ssl[p].state # "ERROR"
                        /\ Clean(ssl[p].quic_input_data) /\ Clean(Way(p))
                        /\ ~Astray(ssl[p].transcript)

\* The script invariant.
SInv ==
    /\ \A p \in Peer : Side(p, ssl[p], config)
    /\ \A p \in Peer : Intake(ssl[p]) /\ Reported(ssl[p])
    /\ \A p \in Peer : Linked(p, Other(p))
    /\ Faultless

-----------------------------------------------------------------------------
(* The script *)

\* What the script's messages have in them, one by one.
LEMMA HasValues ==
    ASSUME NEW c
    PROVE  /\ HasOf(c, 1) = Psk(c) \union Early(c, TRUE) /\ HasOf(c, 2) = {"hrr"}
           /\ HasOf(c, 3) = Psk(c) \union Early(c, ~c.hrr)
           /\ HasOf(c, 4) = IF Resumes(c) THEN {"psk"} ELSE {}
           /\ HasOf(c, 5) = IF Admits(c) THEN {"early"} ELSE {}
           /\ HasOf(c, 10) = IF c.clientCert THEN {} ELSE {"empty"}
           /\ \A n \in {6, 7, 8, 9, 11, 12} : HasOf(c, n) = {}
<1>1. HasOf(c, 1) = Psk(c) \union Early(c, TRUE) /\ HasOf(c, 2) = {"hrr"}
  BY DEF HasOf
<1>2. HasOf(c, 3) = Psk(c) \union Early(c, ~c.hrr)
  BY DEF HasOf
<1>3. HasOf(c, 4) = IF Resumes(c) THEN {"psk"} ELSE {}
  BY DEF HasOf
<1>4. HasOf(c, 5) = IF Admits(c) THEN {"early"} ELSE {}
  BY DEF HasOf
<1>5. HasOf(c, 10) = IF c.clientCert THEN {} ELSE {"empty"}
  BY DEF HasOf
<1>6. \A n \in {6, 7, 8, 9, 11, 12} : HasOf(c, n) = {}
  <2>1. HasOf(c, 6) = {} /\ HasOf(c, 7) = {} /\ HasOf(c, 8) = {}
    BY DEF HasOf
  <2>2. HasOf(c, 9) = {} /\ HasOf(c, 11) = {} /\ HasOf(c, 12) = {}
    BY DEF HasOf
  <2> QED  BY <2>1, <2>2
<1> QED  BY <1>1, <1>2, <1>3, <1>4, <1>5, <1>6

\* What the script's messages have in them.
LEMMA HasFacts ==
    ASSUME NEW c, NEW n \in 1 .. 12
    PROVE  /\ HasOf(c, n) \subseteq Facts /\ HasOf(c, n) # {"stray"}
           /\ HasOf(c, n) = {"hrr"} <=> n = 2
<1>1. /\ Psk(c) \subseteq {"psk", "early"} /\ Early(c, TRUE) \subseteq {"psk", "early"}
      /\ Early(c, ~c.hrr) \subseteq {"psk", "early"}
  BY DEF Psk, Early
<1>2. /\ n \in {1, 3, 4, 5, 6, 7, 8, 9, 10, 11, 12} =>
            HasOf(c, n) \subseteq {"psk", "early", "empty"}
      /\ n = 2 => HasOf(c, n) = {"hrr"}
  <2>1. n = 1 \/ n = 3 => HasOf(c, n) \subseteq {"psk", "early", "empty"}
    BY <1>1, HasValues
  <2>2. n \in {4, 5, 10} => HasOf(c, n) \subseteq {"psk", "early", "empty"}
    BY HasValues
  <2>3. n \in {6, 7, 8, 9, 11, 12} => HasOf(c, n) \subseteq {"psk", "early", "empty"}
    BY HasValues
  <2> QED  BY <2>1, <2>2, <2>3, HasValues
<1>3. n = 2 \/ n \in {1, 3, 4, 5, 6, 7, 8, 9, 10, 11, 12}
  OBVIOUS
<1> QED  BY <1>2, <1>3 DEF Facts

\* The type of a message.
LEMMA TypeFacts ==
    ASSUME NEW n \in 1 .. 12
    PROVE  /\ TypeOf(n) \in Types /\ TypeOf(n) # "NEWSESSION_TICKET"
           /\ TypeOf(n) # "message_hash"
           /\ TypeOf(n) = "CLIENT_HELLO" <=> n \in {1, 3}
           /\ TypeOf(n) = "SERVER_HELLO" <=> n \in {2, 4}
           /\ TypeOf(n) = "ENCRYPTED_EXTENSIONS" <=> n = 5
           /\ TypeOf(n) = "CERTIFICATE_REQUEST" <=> n = 6
           /\ TypeOf(n) = "CERTIFICATE" <=> n \in {7, 10}
           /\ TypeOf(n) = "CERTIFICATE_VERIFY" <=> n \in {8, 11}
           /\ TypeOf(n) = "FINISHED" <=> n \in {9, 12}
BY DEF TypeOf, Types

\* A message and its entry in the transcript.
LEMMA MessageFacts ==
    ASSUME NEW c, NEW n
    PROVE  /\ MessageOf(c, n).type = TypeOf(n) /\ MessageOf(c, n).has = HasOf(c, n)
           /\ MessageOf(c, n).mac = MacOf(c, n)
           /\ Entry(MessageOf(c, n)) = KindOf(c, n)
BY DEF MessageOf, Entry, KindOf

\* Its entry is of the right type.
LEMMA KindFacts ==
    ASSUME NEW c, NEW n \in 1 .. 12
    PROVE  /\ KindOf(c, n) \in Kinds /\ KindOf(c, n).type = TypeOf(n)
           /\ KindOf(c, n).has = HasOf(c, n) /\ KindOf(c, n).has # {"stray"}
<1>1. TypeOf(n) \in Types /\ HasOf(c, n) \in SUBSET Facts /\ HasOf(c, n) # {"stray"}
  BY HasFacts, TypeFacts
<1> QED  BY <1>1 DEF KindOf, Kinds

\* The number of a message by its type.
LEMMA NumberValues ==
    ASSUME NEW p, NEW h, NEW m
    PROVE  /\ m.msg.type = "CLIENT_HELLO" => Number(p, h, m) = h
           /\ m.msg.type = "SERVER_HELLO" =>
                 Number(p, h, m) = IF m.msg.has = {"hrr"} THEN 2 ELSE 4
           /\ m.msg.type = "ENCRYPTED_EXTENSIONS" => Number(p, h, m) = 5
           /\ m.msg.type = "CERTIFICATE_REQUEST" => Number(p, h, m) = 6
           /\ m.msg.type = "CERTIFICATE" => Number(p, h, m) = IF p = "client" THEN 10 ELSE 7
           /\ m.msg.type = "CERTIFICATE_VERIFY" =>
                 Number(p, h, m) = IF p = "client" THEN 11 ELSE 8
           /\ m.msg.type = "FINISHED" => Number(p, h, m) = IF p = "client" THEN 12 ELSE 9
BY DEF Number

\* The number of a message.
LEMMA NumberOf ==
    ASSUME NEW p \in Peer, NEW c, NEW h, NEW n \in Lines(p), NEW m, m.msg = MessageOf(c, n),
           p = "client" /\ n \in {1, 3} => n = h
    PROVE  Number(p, h, m) = n /\ Scripted(m)
<1>1. n \in 1 .. 12
  BY DEF Lines
<1>2. m.msg.type = TypeOf(n) /\ m.msg.has = HasOf(c, n)
  BY MessageFacts
<1>3. Scripted(m)
  BY <1>1, <1>2, HasFacts, TypeFacts DEF Scripted
<1>4. HasOf(c, n) = {"hrr"} <=> n = 2
  BY <1>1, HasFacts
<1>5. CASE p = "client"
  <2>1. n \in {1, 3, 10, 11, 12}
    BY <1>5 DEF Lines
  <2> QED  BY <1>1, <1>2, <1>3, <1>5, <2>1, NumberValues, TypeFacts
<1>6. CASE p # "client"
  <2>1. n \in {2, 4, 5, 6, 7, 8, 9}
    BY <1>6 DEF Lines
  <2> QED  BY <1>1, <1>2, <1>3, <1>4, <1>6, <2>1, NumberValues, TypeFacts
<1> QED  BY <1>3, <1>5, <1>6

\* A transcript goes astray with a message that is astray.
LEMMA AstrayAppend ==
    ASSUME NEW q \in Seq(Kinds), NEW e \in Kinds
    PROVE  Astray(Append(q, e)) <=> Astray(q) \/ e.has = {"stray"}
<1> DEFINE x == Append(q, e)
<1>1. /\ Len(x) = Len(q) + 1 /\ Len(q) \in Nat /\ x[Len(q) + 1] = e
      /\ \A i \in 1 .. Len(q) : x[i] = q[i]
  OBVIOUS
<1> HIDE DEF x
<1>2. \A i \in 1 .. Len(x) : i \in 1 .. Len(q) \/ i = Len(q) + 1
  BY <1>1
<1>3. Astray(x) => Astray(q) \/ e.has = {"stray"}
  BY <1>1, <1>2 DEF Astray
<1>4. Astray(q) => Astray(x)
  <2>1. \A i \in 1 .. Len(q) : i \in 1 .. Len(x)
    BY <1>1
  <2> QED  BY <1>1, <2>1 DEF Astray
<1>5. e.has = {"stray"} => Astray(x)
  <2>1. Len(q) + 1 \in 1 .. Len(x)
    BY <1>1
  <2> QED  BY <1>1, <2>1 DEF Astray
<1> QED  BY <1>3, <1>4, <1>5 DEF x

\* The transcript, message by message.
LEMMA AfterValues ==
    ASSUME NEW c
    PROVE  /\ After(c, 0) = <<>> /\ After(c, 1) = Grown(c, <<>>, 1)
           /\ After(c, 2) = Grown(c, Hashed(c), 2) /\ After(c, 3) = Opening(c)
           /\ After(c, 4) = Grown(c, Opening(c), 4) /\ After(c, 5) = Extended(c)
           /\ After(c, 6) = Grown(c, Extended(c), 6)
           /\ After(c, 7) = Grown(c, Requested(c), 7) /\ After(c, 8) = Verified(c)
           /\ After(c, 9) = Served(c) /\ After(c, 10) = Shown(c)
           /\ After(c, 11) = Grown(c, Shown(c), 11)
           /\ After(c, 12) = Grown(c, Answered(c), 12)
BY DEF After

\* A transcript of the script: of the right type, and not astray.
Pure(q) == q \in Seq(Kinds) /\ ~Astray(q)

\* A message of the script leaves it one.
LEMMA PureAppend ==
    ASSUME NEW c, NEW q, Pure(q), NEW n \in 1 .. 12
    PROVE  Pure(Grown(c, q, n))
<1>1. q \in Seq(Kinds) /\ ~Astray(q) /\ KindOf(c, n) \in Kinds /\ KindOf(c, n).has # {"stray"}
  BY KindFacts DEF Pure
<1>2. Append(q, KindOf(c, n)) \in Seq(Kinds)
  BY <1>1, AppendTo
<1>3. ~Astray(Append(q, KindOf(c, n)))
  BY <1>1, AstrayAppend
<1> QED  BY <1>2, <1>3 DEF Pure, Grown

\* It starts empty, or with the hash of a retried ClientHello.
LEMMA PureStart ==
    ASSUME NEW c
    PROVE  Pure(<<>>) /\ Pure(Hashed(c))
<1>1. Pure(<<>>)
  BY DEF Pure, Astray
<1> DEFINE e == [type |-> "message_hash", has |-> HasOf(c, 1)]
<1>2. e \in Kinds /\ e.has # {"stray"}
  <2>1. HasOf(c, 1) \in SUBSET Facts /\ HasOf(c, 1) # {"stray"}
    BY HasFacts
  <2> QED  BY <2>1 DEF Kinds, Types
<1> HIDE DEF e
<1>3. Pure(<<e>>)
  <2>1. Len(<<e>>) = 1 /\ <<e>>[1] = e /\ <<e>> \in Seq(Kinds)
    BY <1>2
  <2> QED  BY <1>2, <2>1 DEF Pure, Astray
<1> QED  BY <1>1, <1>3 DEF e, Hashed

\* The transcript at every number is one.
LEMMA PureAfter ==
    ASSUME NEW c, NEW n \in 0 .. 12
    PROVE  Pure(After(c, n))
<1>1. Pure(<<>>) /\ Pure(Hashed(c))
  BY PureStart
<1>2. \A q : Pure(q) => \A k \in 1 .. 12 : Pure(Grown(c, q, k))
  BY PureAppend
<1>3. Pure(Opening(c))
  BY <1>1, <1>2 DEF Opening
<1>4. Pure(Extended(c))
  BY <1>2, <1>3 DEF Extended
<1>5. Pure(Requested(c))
  BY <1>2, <1>4 DEF Requested
<1>6. Pure(Verified(c))
  BY <1>2, <1>5 DEF Verified
<1>7. Pure(Served(c))
  BY <1>2, <1>4, <1>6 DEF Served, Spelled
<1>8. Pure(Shown(c))
  BY <1>2, <1>7 DEF Shown
<1>9. Pure(Answered(c))
  BY <1>2, <1>7, <1>8 DEF Answered
<1>10. Pure(Grown(c, <<>>, 1)) /\ Pure(Grown(c, Hashed(c), 2))
  BY <1>1, <1>2
<1>11. Pure(Grown(c, Opening(c), 4)) /\ Pure(Grown(c, Extended(c), 6))
  BY <1>2, <1>3, <1>4
<1>12. /\ Pure(Grown(c, Requested(c), 7)) /\ Pure(Grown(c, Shown(c), 11))
       /\ Pure(Grown(c, Answered(c), 12))
  BY <1>2, <1>5, <1>8, <1>9
<1>13. n \in {0, 1, 2, 3, 4, 5, 6, 7, 8, 9, 10, 11, 12}
  OBVIOUS
<1> QED  BY <1>1, <1>3, <1>4, <1>6, <1>7, <1>8, <1>10, <1>11, <1>12, <1>13, AfterValues

\* The numbers that every handshake has, and those that some have.
LEMMA NumbersFacts ==
    ASSUME NEW c
    PROVE  /\ Numbers(c) \subseteq 1 .. 12 /\ {3, 4, 5, 9, 12} \subseteq Numbers(c)
           /\ \A n \in {1, 2} : n \in Numbers(c) <=> c.hrr
           /\ \A n \in {7, 8} : n \in Numbers(c) <=> ~Resumes(c)
           /\ \A n \in {6, 10} : n \in Numbers(c) <=> Asks(c)
           /\ 11 \in Numbers(c) <=> Asks(c) /\ c.clientCert
BY DEF Numbers

\* Which number comes after which.
LEMMA FollowsCases ==
    ASSUME NEW c, NEW n, NEW m \in 0 .. 12, Follows(c, n, m), m \in Numbers(c) \union {0}
    PROVE  \/ n = 1 /\ m = 0 /\ c.hrr
           \/ n = 2 /\ m = 1 /\ c.hrr
           \/ n = 3 /\ m = IF c.hrr THEN 2 ELSE 0
           \/ n = 4 /\ m = 3
           \/ n = 5 /\ m = 4
           \/ n = 6 /\ m = 5 /\ Asks(c)
           \/ n = 7 /\ ~Resumes(c) /\ m = IF c.certReq THEN 6 ELSE 5
           \/ n = 8 /\ m = 7 /\ ~Resumes(c)
           \/ n = 9 /\ m = IF Resumes(c) THEN 5 ELSE 8
           \/ n = 10 /\ m = 9 /\ Asks(c)
           \/ n = 11 /\ m = 10 /\ Asks(c) /\ c.clientCert
           \/ n = 12 /\ m = IF ~Asks(c) THEN 9 ELSE IF c.clientCert THEN 11 ELSE 10
<1>1. n \in 1 .. 12 /\ n \in Numbers(c) /\ m < n /\ \A k \in Numbers(c) : k < n => k <= m
  BY DEF Follows, Numbers
<1>2. /\ 3 \in Numbers(c) /\ 4 \in Numbers(c) /\ 5 \in Numbers(c) /\ 9 \in Numbers(c)
      /\ c.hrr => 1 \in Numbers(c) /\ 2 \in Numbers(c)
      /\ ~Resumes(c) => 7 \in Numbers(c) /\ 8 \in Numbers(c)
      /\ Asks(c) => 6 \in Numbers(c) /\ 10 \in Numbers(c)
      /\ Asks(c) /\ c.clientCert => 11 \in Numbers(c)
  BY NumbersFacts
<1>3. /\ n \in {1, 2} \/ m \in {1, 2} => c.hrr
      /\ n \in {7, 8} \/ m \in {7, 8} => ~Resumes(c)
      /\ n \in {6, 10} \/ m \in {6, 10} => Asks(c)
      /\ n = 11 \/ m = 11 => Asks(c) /\ c.clientCert
  BY <1>1 DEF Numbers
<1> QED  BY <1>1, <1>2, <1>3 DEF Asks

\* The other way round.
LEMMA FollowsFrom ==
    ASSUME NEW c
    PROVE  /\ c.hrr => Follows(c, 1, 0) /\ Follows(c, 2, 1) /\ Follows(c, 3, 2)
           /\ ~c.hrr => Follows(c, 3, 0)
           /\ Follows(c, 4, 3) /\ Follows(c, 5, 4)
           /\ Asks(c) => Follows(c, 6, 5) /\ Follows(c, 7, 6) /\ Follows(c, 10, 9)
           /\ ~Resumes(c) /\ ~c.certReq => Follows(c, 7, 5)
           /\ ~Resumes(c) => Follows(c, 8, 7) /\ Follows(c, 9, 8)
           /\ Resumes(c) => Follows(c, 9, 5)
           /\ Asks(c) /\ c.clientCert => Follows(c, 11, 10) /\ Follows(c, 12, 11)
           /\ Asks(c) /\ ~c.clientCert => Follows(c, 12, 10)
           /\ ~Asks(c) => Follows(c, 12, 9)
<1>1. /\ c.hrr => Follows(c, 1, 0) /\ Follows(c, 2, 1) /\ Follows(c, 3, 2)
      /\ ~c.hrr => Follows(c, 3, 0)
      /\ Follows(c, 4, 3) /\ Follows(c, 5, 4)
  BY DEF Follows, Numbers
<1>2. /\ Asks(c) => Follows(c, 6, 5) /\ Follows(c, 7, 6) /\ Follows(c, 10, 9)
      /\ ~Resumes(c) /\ ~c.certReq => Follows(c, 7, 5)
      /\ ~Resumes(c) => Follows(c, 8, 7) /\ Follows(c, 9, 8)
      /\ Resumes(c) => Follows(c, 9, 5)
  BY DEF Follows, Numbers, Asks
<1>3. /\ Asks(c) /\ c.clientCert => Follows(c, 11, 10) /\ Follows(c, 12, 11)
      /\ Asks(c) /\ ~c.clientCert => Follows(c, 12, 10)
      /\ ~Asks(c) => Follows(c, 12, 9)
  BY DEF Follows, Numbers
<1> QED  BY <1>1, <1>2, <1>3

\* The transcript grows by the message that comes next.
LEMMA AfterNext ==
    ASSUME NEW c, NEW n, NEW m \in 0 .. 12, Follows(c, n, m), n # 2, m \in Numbers(c) \union {0}
    PROVE  After(c, n) = Grown(c, After(c, m), n)
<1>1. n \in 1 .. 12
  BY DEF Follows, Numbers
<1>5. CASE n \in {1, 3}
  BY <1>5, FollowsCases, AfterValues DEF Opening
<1>6. CASE n \in {4, 5, 6, 7, 8}
  BY <1>6, FollowsCases, AfterValues DEF Extended, Requested, Verified, Asks
<1>7. CASE n \in {9, 10, 11, 12}
  BY <1>7, FollowsCases, AfterValues DEF Served, Spelled, Shown, Answered, Asks
<1> QED  BY <1>1, <1>5, <1>6, <1>7

\* A HelloRetryRequest starts it again.
LEMMA AfterRetry ==
    ASSUME NEW c
    PROVE  MessageHash(After(c, 1)) = Hashed(c) /\ After(c, 2) = Grown(c, Hashed(c), 2)
<1>1. After(c, 1) = <<KindOf(c, 1)>>
  BY AfterValues DEF Grown
<1>2. KindOf(c, 1).has = HasOf(c, 1)
  BY KindFacts
<1>3. After(c, 1)[1].has = HasOf(c, 1)
  BY <1>1, <1>2
<1> QED  BY <1>3, AfterValues DEF MessageHash, Hashed

\* A Finished authenticates what came before it.
LEMMA MacNext ==
    ASSUME NEW c, NEW n \in {9, 12}, NEW m \in 0 .. 12, Follows(c, n, m), m \in Numbers(c) \union {0}
    PROVE  MacOf(c, n) = After(c, m)
<1>1. CASE n = 9
  BY <1>1, FollowsCases, AfterValues DEF MacOf, Spelled
<1>2. CASE n = 12
  BY <1>2, FollowsCases, AfterValues DEF MacOf, Answered
<1> QED  BY <1>1, <1>2

\* A sequence without its last element.
LEMMA AllButLast ==
    ASSUME NEW q \in Seq(Kinds), NEW e \in Kinds
    PROVE  SubSeq(Append(q, e), 1, Len(Append(q, e)) - 1) = q
<1> DEFINE x == Append(q, e)
           y == SubSeq(x, 1, Len(q))
<1>1. Len(x) - 1 = Len(q) /\ Len(q) \in Nat /\ x \in Seq(Kinds) /\ Len(x) = Len(q) + 1
  OBVIOUS
<1>2. y \in Seq(Kinds) /\ Len(y) = Len(q) /\ \A i \in 1 .. Len(q) : y[i] = x[i]
  BY <1>1
<1>3. \A i \in 1 .. Len(q) : x[i] = q[i]
  OBVIOUS
<1> HIDE DEF x
<1>4. y = q
  <2> HIDE DEF y
  <2> QED  BY <1>2, <1>3
<1> QED  BY <1>1, <1>4 DEF x, y

\* What begins with r has r as a prefix.
LEMMA ExtendsPrefix ==
    ASSUME NEW q \in Seq(Kinds), NEW r \in Seq(Kinds), Extends(q, r)
    PROVE  SubSeq(q, 1, Len(r)) = r /\ IsPrefix(r, q)
<1> DEFINE y == SubSeq(q, 1, Len(r))
<1>1. Len(q) \in Nat /\ Len(r) \in Nat /\ Len(r) <= Len(q)
  BY DEF Extends
<1>2. y \in Seq(Kinds) /\ Len(y) = Len(r) /\ \A i \in 1 .. Len(r) : y[i] = q[i]
  BY <1>1
<1>3. y = r
  <2> HIDE DEF y
  <2> QED  BY <1>2 DEF Extends
<1>4. SubSeq(r, 1, Len(r)) = r
  <2> DEFINE z == SubSeq(r, 1, Len(r))
  <2>1. z \in Seq(Kinds) /\ Len(z) = Len(r) /\ \A i \in 1 .. Len(r) : z[i] = r[i]
    BY <1>1
  <2> HIDE DEF z
  <2>2. z = r
    BY <2>1
  <2> QED  BY <2>2 DEF z
<1> QED  BY <1>1, <1>3, <1>4 DEF IsPrefix

\* What begins with r does so when it grows.
LEMMA ExtendsAppend ==
    ASSUME NEW q \in Seq(Kinds), NEW r \in Seq(Kinds), NEW e \in Kinds, Extends(q, r)
    PROVE  Extends(Append(q, e), r)
<1> DEFINE x == Append(q, e)
<1>1. Len(x) = Len(q) + 1 /\ Len(q) \in Nat /\ Len(r) \in Nat /\ \A i \in 1 .. Len(q) : x[i] = q[i]
  OBVIOUS
<1> HIDE DEF x
<1>2. Extends(x, r)
  BY <1>1 DEF Extends
<1> QED  BY <1>2 DEF x

\* Every transcript begins with itself.
LEMMA ExtendsSelf ==
    ASSUME NEW q \in Seq(Kinds)
    PROVE  Extends(q, q)
BY DEF Extends

\* From the server's Finished on every transcript of the script begins with it.
LEMMA AfterServed ==
    ASSUME NEW c, NEW n \in 9 .. 12, n \in Numbers(c)
    PROVE  Extends(After(c, n), After(c, 9))
<1>1. ASSUME NEW q, Pure(q), Extends(q, Served(c)), NEW k \in 1 .. 12
      PROVE  Pure(Grown(c, q, k)) /\ Extends(Grown(c, q, k), Served(c))
  <2>1. q \in Seq(Kinds) /\ Served(c) \in Seq(Kinds) /\ KindOf(c, k) \in Kinds
    <3>1. Pure(After(c, 9))
      BY PureAfter
    <3> QED  BY <1>1, <3>1, KindFacts, AfterValues DEF Pure
  <2> QED  BY <1>1, <2>1, ExtendsAppend, PureAppend DEF Grown
<1>2. Pure(Served(c)) /\ Extends(Served(c), Served(c))
  <2>1. Pure(After(c, 9))
    BY PureAfter
  <2> QED  BY <2>1, AfterValues, ExtendsSelf DEF Pure
<1>3. Pure(Shown(c)) /\ Extends(Shown(c), Served(c))
  BY <1>1, <1>2 DEF Shown
<1>4. Pure(Grown(c, Shown(c), 11)) /\ Extends(Grown(c, Shown(c), 11), Served(c))
  BY <1>1, <1>3
<1>5. Pure(Answered(c)) /\ Extends(Answered(c), Served(c))
  BY <1>2, <1>3, <1>4 DEF Answered
<1>6. Extends(Grown(c, Answered(c), 12), Served(c))
  BY <1>1, <1>5
<1>7. n \in {9, 10, 11, 12}
  OBVIOUS
<1> QED  BY <1>2, <1>3, <1>4, <1>6, <1>7, AfterValues

\* There is no Finished before the server's.
Unfinished(q) == q \in Seq(Kinds) /\ \A i \in 1 .. Len(q) : q[i].type # "FINISHED"

\* The server's Finished authenticates a transcript without one.
LEMMA UnfinishedSpelled ==
    ASSUME NEW c
    PROVE  Unfinished(Spelled(c))
<1>1. ASSUME NEW q, Unfinished(q), NEW k \in 1 .. 8
      PROVE  Unfinished(Grown(c, q, k))
  <2> DEFINE x == Grown(c, q, k)
  <2>1. q \in Seq(Kinds) /\ KindOf(c, k) \in Kinds /\ KindOf(c, k).type # "FINISHED"
    <3>1. k \in 1 .. 12
      OBVIOUS
    <3> QED  BY <1>1, <3>1, KindFacts, TypeFacts DEF Unfinished
  <2>2. x \in Seq(Kinds) /\ \A i \in 1 .. Len(x) :
           (i \in 1 .. Len(q) /\ x[i] = q[i]) \/ x[i] = KindOf(c, k)
    BY <2>1, AppendTo DEF Grown
  <2> HIDE DEF x
  <2>3. Unfinished(x)
    BY <1>1, <2>1, <2>2 DEF Unfinished
  <2> QED  BY <2>3 DEF x
<1>2. Unfinished(<<>>) /\ Unfinished(Hashed(c))
  <2>1. Unfinished(<<>>)
    BY DEF Unfinished
  <2>2. Hashed(c) \in Seq(Kinds)
    BY PureStart DEF Pure
  <2>3. Len(Hashed(c)) = 1 /\ Hashed(c)[1].type = "message_hash"
    BY DEF Hashed
  <2> QED  BY <2>1, <2>2, <2>3 DEF Unfinished
<1>3. Unfinished(Opening(c))
  BY <1>1, <1>2 DEF Opening
<1>4. Unfinished(Extended(c))
  BY <1>1, <1>3 DEF Extended
<1>5. Unfinished(Requested(c))
  BY <1>1, <1>4 DEF Requested
<1>6. Unfinished(Verified(c))
  BY <1>1, <1>5 DEF Verified
<1> QED  BY <1>4, <1>6 DEF Spelled

\* What was said up to the server's Finished, by a transcript that has it.
LEMMA UpTo ==
    ASSUME NEW c, NEW q \in Seq(Kinds), Extends(q, After(c, 9))
    PROVE  UpToServerFinished(q) = After(c, 9)
<1> DEFINE r == After(c, 9)
           k == Len(r)
           I == {i \in 1 .. Len(q) : q[i].type = "FINISHED"}
<1>1. r \in Seq(Kinds) /\ r = Append(Spelled(c), KindOf(c, 9)) /\ Unfinished(Spelled(c))
  BY PureAfter, AfterValues, UnfinishedSpelled DEF Pure, Served, Grown
<1>2. KindOf(c, 9).type = "FINISHED" /\ KindOf(c, 9) \in Kinds
  BY KindFacts, TypeFacts
<1>3. /\ k \in Nat /\ k = Len(Spelled(c)) + 1 /\ r[k] = KindOf(c, 9)
      /\ \A i \in 1 .. (k - 1) : r[i] = Spelled(c)[i]
  BY <1>1, <1>2 DEF Unfinished
<1>4. Len(Spelled(c)) \in Nat
  BY <1>1 DEF Unfinished
<1> HIDE DEF r
<1>5. k \in 1 .. Len(q) /\ q[k].type = "FINISHED" /\ Len(q) \in Nat
  BY <1>2, <1>3, <1>4 DEF Extends, r
<1>6. \A i \in 1 .. (k - 1) : q[i].type # "FINISHED"
  <2> TAKE i \in 1 .. (k - 1)
  <2>1. i \in 1 .. Len(Spelled(c)) /\ i \in 1 .. k
    BY <1>3, <1>4
  <2>2. q[i] = r[i]
    BY <2>1 DEF Extends, r
  <2>3. Spelled(c)[i].type # "FINISHED"
    BY <1>1, <2>1 DEF Unfinished
  <2> QED  BY <1>3, <2>2, <2>3
<1>7. k \in I /\ \A i \in I : k <= i
  BY <1>3, <1>5, <1>6
<1>8. Min(I) = k
  <2>1. \A i \in I : i \in Nat
    OBVIOUS
  <2> HIDE DEF I
  <2> QED  BY <1>3, <1>7, <2>1 DEF Min
<1>9. (IF I # {} THEN Min(I) ELSE 0) = k
  BY <1>7, <1>8
<1>10. UpToServerFinished(q) = SubSeq(q, 1, k)
  BY <1>9 DEF UpToServerFinished, SelectInSeq
<1> QED  BY <1>1, <1>10, ExtendsPrefix DEF r

-----------------------------------------------------------------------------
(* The channel *)

\* The number of a message of the script.
LEMMA GenuineNumber ==
    ASSUME NEW p, NEW c, NEW h, NEW a, NEW m, Genuine(p, c, h, a, m), Scripted(m)
    PROVE  /\ Number(p, h, m) \in Numbers(c) \intersect Lines(p)
           /\ Number(p, h, m) \in 1 .. 12 /\ Number(p, h, m) <= a
           /\ m.msg = MessageOf(c, Number(p, h, m)) /\ m.level = LevelOf(Number(p, h, m))
BY NumbersFacts DEF Genuine

\* The sender moves on to number d without a message.
LEMMA SenderMoves ==
    ASSUME NEW p, NEW c, NEW h, NEW a \in 0 .. 12, NEW b \in 0 .. 12, NEW lost, NEW I, NEW Q,
           Channel(p, c, h, a, b, lost, I, Q), NEW d \in 0 .. 12, a <= d,
           \A n \in Numbers(c) \intersect Lines(p) : n <= d => n <= a
    PROVE  Channel(p, c, h, d, b, lost, I, Q)
<1>1. ASSUME NEW m, Genuine(p, c, h, a, m)
      PROVE  Genuine(p, c, h, d, m)
  <2>1. Scripted(m) => Number(p, h, m) <= d
    BY <1>1, GenuineNumber
  <2>2. a = 12 => d = 12
    OBVIOUS
  <2> QED  BY <1>1, <2>1, <2>2 DEF Genuine
<1>2. Fit(p, c, h, d, I) /\ Fit(p, c, h, d, Q)
  BY <1>1 DEF Channel, Fit
<1>3. Complete(p, c, h, a, b, I, Q) => Complete(p, c, h, d, b, I, Q)
  BY NumbersFacts DEF Complete
<1> QED  BY <1>2, <1>3 DEF Channel

\* The receiver moves on to number d without reading a message.
LEMMA ReceiverMoves ==
    ASSUME NEW p, NEW c, NEW h, NEW a \in 0 .. 12, NEW b \in 0 .. 12, NEW lost, NEW I, NEW Q,
           Channel(p, c, h, a, b, lost, I, Q), NEW d \in 0 .. 12, b <= d,
           \A n \in Numbers(c) \intersect Lines(p) : n <= d => n <= b
    PROVE  Channel(p, c, h, a, d, lost, I, Q)
<1>1. ASSUME NEW m, Genuine(p, c, h, a, m), Scripted(m), Number(p, h, m) > b
      PROVE  Number(p, h, m) > d
  BY <1>1, GenuineNumber
<1>2. /\ Above(p, h, b, I) => Above(p, h, d, I)
      /\ Above(p, h, b, Q) => Above(p, h, d, Q)
  BY <1>1 DEF Channel, Fit, Above
<1>3. Complete(p, c, h, a, b, I, Q) => Complete(p, c, h, a, d, I, Q)
  BY NumbersFacts DEF Complete
<1> QED  BY <1>2, <1>3 DEF Channel

\* x is q without its element k.
Thinned(x, q, k) ==
    /\ Len(q) = Len(x) + 1
    /\ \A j \in 1 .. Len(x) : x[j] = q[IF j < k THEN j ELSE j + 1]

\* What is left is as it was.
LEMMA ThinnedKeeps ==
    ASSUME NEW p, NEW c, NEW h, NEW a, NEW b, NEW q, NEW x, Len(x) \in Nat,
           NEW k \in 1 .. Len(q), Thinned(x, q, k)
    PROVE  /\ Fit(p, c, h, a, q) => Fit(p, c, h, a, x)
           /\ Above(p, h, b, q) => Above(p, h, b, x)
           /\ Secured(q) => Secured(x)
           /\ Sorted(p, h, q) => Sorted(p, h, x)
           /\ \A r : InTurn(p, h, r, q) => InTurn(p, h, r, x)
           /\ \A r : InTurn(p, h, q, r) => InTurn(p, h, x, r)
<1> DEFINE f(j) == IF j < k THEN j ELSE j + 1
<1>1. \A j \in 1 .. Len(x) : f(j) \in 1 .. Len(q) /\ x[j] = q[f(j)]
  BY DEF Thinned
<1>2. \A i, j \in 1 .. Len(x) : i < j => f(i) < f(j)
  BY DEF Thinned
<1> HIDE DEF f
<1>3. Fit(p, c, h, a, q) => Fit(p, c, h, a, x)
  BY <1>1 DEF Fit
<1>4. Above(p, h, b, q) => Above(p, h, b, x)
  BY <1>1 DEF Above
<1>5. Secured(q) => Secured(x)
  BY <1>1 DEF Secured
<1>6. Sorted(p, h, q) => Sorted(p, h, x)
  BY <1>1, <1>2 DEF Sorted
<1>7. \A r : InTurn(p, h, r, q) => InTurn(p, h, r, x)
  BY <1>1 DEF InTurn
<1>8. \A r : InTurn(p, h, q, r) => InTurn(p, h, x, r)
  BY <1>1 DEF InTurn
<1> QED  BY <1>3, <1>4, <1>5, <1>6, <1>7, <1>8

\* Nothing but the element is gone.
LEMMA ThinnedPresent ==
    ASSUME NEW p, NEW h, NEW q, NEW x, Len(x) \in Nat, NEW k \in 1 .. Len(q), Thinned(x, q, k),
           NEW n, Present(p, h, q, n)
    PROVE  Present(p, h, x, n) \/ (Scripted(q[k]) /\ Number(p, h, q[k]) = n)
<1>1. PICK i \in 1 .. Len(q) : Scripted(q[i]) /\ Number(p, h, q[i]) = n
  BY DEF Present
<1>2. CASE i < k
  <2>1. i \in 1 .. Len(x) /\ x[i] = q[i]
    BY <1>2 DEF Thinned
  <2> QED  BY <1>1, <2>1 DEF Present
<1>3. CASE i > k
  <2>1. i - 1 \in 1 .. Len(x) /\ x[i - 1] = q[i]
    BY <1>3 DEF Thinned
  <2> QED  BY <1>1, <2>1 DEF Present
<1>4. CASE i = k
  BY <1>1, <1>4
<1> QED  BY <1>2, <1>3, <1>4

\* What is left was there.
LEMMA PresentThinned ==
    ASSUME NEW p, NEW h, NEW q, NEW x, Len(x) \in Nat, NEW k \in 1 .. Len(q), Thinned(x, q, k),
           NEW n, Present(p, h, x, n)
    PROVE  Present(p, h, q, n)
<1>1. PICK i \in 1 .. Len(x) : Scripted(x[i]) /\ Number(p, h, x[i]) = n
  BY DEF Present
<1>2. \E j \in 1 .. Len(q) : x[i] = q[j]
  <2>1. CASE i < k
    BY <2>1 DEF Thinned
  <2>2. CASE i >= k
    <3>1. i + 1 \in 1 .. Len(q) /\ x[i] = q[i + 1]
      BY <2>2 DEF Thinned
    <3> QED  BY <3>1
  <2> QED  BY <2>1, <2>2
<1> QED  BY <1>1, <1>2 DEF Present

\* A sequence with an element put in.
LEMMA Insert ==
    ASSUME NEW p, NEW c, NEW h, NEW a, NEW b, NEW q, NEW x, Len(x) \in Nat,
           NEW k \in 1 .. Len(q), Thinned(x, q, k)
    PROVE  /\ Fit(p, c, h, a, x) /\ Genuine(p, c, h, a, q[k]) => Fit(p, c, h, a, q)
           /\ Above(p, h, b, x) /\ (Scripted(q[k]) => Number(p, h, q[k]) > b) => Above(p, h, b, q)
           /\ Secured(x) /\ (Scripted(q[k]) => q[k].level # ssl_encryption_initial) => Secured(q)
           /\ (/\ Sorted(p, h, x)
               /\ \A i \in 1 .. Len(x) : i < k => Earlier(p, h, x[i], q[k])
               /\ \A i \in 1 .. Len(x) : i >= k => Earlier(p, h, q[k], x[i])) => Sorted(p, h, q)
           /\ \A r : (/\ InTurn(p, h, r, x)
                      /\ \A i \in 1 .. Len(r) : Earlier(p, h, r[i], q[k])) => InTurn(p, h, r, q)
           /\ \A r : (/\ InTurn(p, h, x, r)
                      /\ \A i \in 1 .. Len(r) : Earlier(p, h, q[k], r[i])) => InTurn(p, h, q, r)
<1> DEFINE g(j) == IF j < k THEN j ELSE j - 1
<1>1. \A j \in 1 .. Len(q) : j # k => g(j) \in 1 .. Len(x) /\ q[j] = x[g(j)]
  BY DEF Thinned
<1>2. \A i, j \in 1 .. Len(q) : i # k /\ j # k /\ i < j => g(i) < g(j)
  BY DEF Thinned
<1>3. \A i \in 1 .. Len(q) : (i < k => g(i) < k) /\ (i > k => g(i) >= k)
  BY DEF Thinned
<1> HIDE DEF g
<1>4. Fit(p, c, h, a, x) /\ Genuine(p, c, h, a, q[k]) => Fit(p, c, h, a, q)
  BY <1>1 DEF Fit
<1>5. Above(p, h, b, x) /\ (Scripted(q[k]) => Number(p, h, q[k]) > b) => Above(p, h, b, q)
  BY <1>1 DEF Above
<1>6. Secured(x) /\ (Scripted(q[k]) => q[k].level # ssl_encryption_initial) => Secured(q)
  BY <1>1 DEF Secured
<1>7. ASSUME Sorted(p, h, x), \A i \in 1 .. Len(x) : i < k => Earlier(p, h, x[i], q[k]),
             \A i \in 1 .. Len(x) : i >= k => Earlier(p, h, q[k], x[i])
      PROVE  Sorted(p, h, q)
  <2> SUFFICES ASSUME NEW i \in 1 .. Len(q), NEW j \in 1 .. Len(q), i < j
               PROVE  Earlier(p, h, q[i], q[j])
    BY DEF Sorted
  <2>1. CASE i = k
    BY <1>1, <1>3, <1>7, <2>1
  <2>2. CASE j = k
    BY <1>1, <1>3, <1>7, <2>2
  <2>3. CASE i # k /\ j # k
    BY <1>1, <1>2, <1>7, <2>3 DEF Sorted
  <2> QED  BY <2>1, <2>2, <2>3
<1>8. \A r : (/\ InTurn(p, h, r, x)
              /\ \A i \in 1 .. Len(r) : Earlier(p, h, r[i], q[k])) => InTurn(p, h, r, q)
  BY <1>1 DEF InTurn
<1>9. \A r : (/\ InTurn(p, h, x, r)
              /\ \A i \in 1 .. Len(r) : Earlier(p, h, q[k], r[i])) => InTurn(p, h, q, r)
  BY <1>1 DEF InTurn
<1> QED  BY <1>4, <1>5, <1>6, <1>7, <1>8, <1>9

\* Sequences that differ in one element.
LEMMA ThinnedAppend ==
    ASSUME NEW q \in Seq(Entries), NEW m \in Entries
    PROVE  /\ Len(q) \in Nat /\ Thinned(q, Append(q, m), Len(q) + 1)
           /\ Len(q) + 1 \in 1 .. Len(Append(q, m)) /\ Append(q, m)[Len(q) + 1] = m
BY DEF Thinned

\* A queue without its first element.
LEMMA ThinnedTail ==
    ASSUME NEW q \in Seq(Entries), q # <<>>
    PROVE  Len(Tail(q)) \in Nat /\ 1 \in 1 .. Len(q) /\ Thinned(Tail(q), q, 1)
BY DEF Thinned

\* What is on its way without what the transport took from it.
LEMMA ThinnedRemove ==
    ASSUME NEW w \in Seq(Entries), NEW f \in Seq(Entries), NEW k \in 1 .. Len(w)
    PROVE  LET x == RemoveAt(w, k) \o f
               q == w \o f
           IN  Len(x) \in Nat /\ k \in 1 .. Len(q) /\ Thinned(x, q, k) /\ q[k] = w[k]
<1> DEFINE u == SubSeq(w, 1, k - 1)
           v == SubSeq(w, k + 1, Len(w))
           y == u \o v
           x == y \o f
           q == w \o f
<1>1. Len(w) \in Nat /\ Len(f) \in Nat /\ k \in Nat /\ k >= 1 /\ k <= Len(w)
  OBVIOUS
<1>2. u \in Seq(Entries) /\ Len(u) = k - 1 /\ \A j \in 1 .. (k - 1) : u[j] = w[j]
  BY <1>1
<1>3. v \in Seq(Entries) /\ Len(v) = Len(w) - k /\ \A j \in 1 .. (Len(w) - k) : v[j] = w[j + k]
  <2>1. Len(v) = Len(w) - k
    BY <1>1
  <2> QED  BY <1>1, <2>1
<1> HIDE DEF u, v
<1>4. y \in Seq(Entries) /\ Len(y) = Len(w) - 1
  <2>0. u \in Seq(Entries) /\ v \in Seq(Entries)
    BY <1>2, <1>3
  <2>1. Len(y) = Len(u) + Len(v) /\ y \in Seq(Entries)
    BY <2>0
  <2> QED  BY <1>1, <1>2, <1>3, <2>1
<1>5. \A j \in 1 .. (Len(w) - 1) : (j < k => y[j] = w[j]) /\ (~(j < k) => y[j] = w[j + 1])
  <2> TAKE j \in 1 .. (Len(w) - 1)
  <2>1. CASE j < k
    BY <1>1, <1>2, <1>3, <2>1
  <2>2. CASE ~(j < k)
    <3>1. y[j] = v[j - k + 1]
      BY <1>1, <1>2, <1>3, <2>2
    <3>2. j - k + 1 \in 1 .. (Len(w) - k) /\ j - k + 1 + k = j + 1
      BY <1>1, <2>2
    <3>3. v[j - k + 1] = w[j - k + 1 + k]
      BY <1>3, <3>2
    <3>4. y[j] = w[j + 1] /\ ~(j < k)
      BY <1>1, <2>2, <3>1, <3>2, <3>3
    <3> HIDE DEF y
    <3> QED  BY <3>4
  <2> QED  BY <2>1, <2>2
<1> HIDE DEF y
<1>6. Len(x) = Len(w) - 1 + Len(f) /\ Len(q) = Len(w) + Len(f) /\ q[k] = w[k]
  BY <1>1, <1>4
<1>7. \A j \in 1 .. Len(x) : x[j] = q[IF j < k THEN j ELSE j + 1]
  <2> TAKE j \in 1 .. Len(x)
  <2>1. CASE j <= Len(w) - 1
    <3>1. x[j] = y[j] /\ j \in 1 .. (Len(w) - 1)
      BY <1>1, <1>4, <1>6, <2>1
    <3>2. CASE j < k
      BY <1>1, <1>5, <1>6, <2>1, <3>1, <3>2
    <3>3. CASE ~(j < k)
      BY <1>1, <1>5, <1>6, <2>1, <3>1, <3>3
    <3> QED  BY <3>2, <3>3
  <2>2. CASE j > Len(w) - 1
    <3>1. ~(j < k) /\ x[j] = f[j - (Len(w) - 1)] /\ j + 1 \in 1 .. Len(q)
      BY <1>1, <1>4, <1>6, <2>2
    <3>2. q[j + 1] = f[j + 1 - Len(w)]
      BY <1>1, <1>6, <2>2, <3>1
    <3> QED  BY <1>1, <3>1, <3>2
  <2> QED  BY <1>1, <1>6, <2>1, <2>2
<1>8. k \in 1 .. Len(q) /\ Len(x) \in Nat /\ Len(q) = Len(x) + 1
  BY <1>1, <1>6
<1> HIDE DEF x, q
<1>9. Thinned(x, q, k)
  BY <1>7, <1>8 DEF Thinned
<1> QED  BY <1>6, <1>8, <1>9 DEF x, q, y, u, v, RemoveAt

\* What is on its way with a message put between the wire and the flight.
LEMMA ThinnedInsert ==
    ASSUME NEW w \in Seq(Entries), NEW f \in Seq(Entries), NEW m \in Entries
    PROVE  LET x == w \o f
               q == Append(w, m) \o f
               k == Len(w) + 1
           IN  Len(x) \in Nat /\ k \in 1 .. Len(q) /\ Thinned(x, q, k) /\ q[k] = m
<1> DEFINE y == Append(w, m)
           x == w \o f
           q == y \o f
           k == Len(w) + 1
<1>1. Len(w) \in Nat /\ Len(f) \in Nat
  OBVIOUS
<1>2. y \in Seq(Entries) /\ Len(y) = k /\ y[k] = m /\ \A j \in 1 .. Len(w) : y[j] = w[j]
  BY <1>1
<1> HIDE DEF y
<1>3. Len(q) = k + Len(f) /\ Len(x) = Len(w) + Len(f) /\ q[k] = m
  BY <1>1, <1>2
<1>4. \A j \in 1 .. Len(x) : x[j] = q[IF j < k THEN j ELSE j + 1]
  <2> TAKE j \in 1 .. Len(x)
  <2>1. CASE j < k
    BY <1>1, <1>2, <1>3, <2>1
  <2>2. CASE ~(j < k)
    <3>1. x[j] = f[j - Len(w)] /\ j + 1 \in 1 .. Len(q)
      BY <1>1, <1>3, <2>2
    <3>2. q[j + 1] = f[j + 1 - k]
      BY <1>1, <1>2, <1>3, <2>2, <3>1
    <3>3. j - Len(w) = j + 1 - k
      BY <1>1, <1>3
    <3> QED  BY <2>2, <3>1, <3>2, <3>3
  <2> QED  BY <2>1, <2>2
<1> HIDE DEF x, q
<1>5. Thinned(x, q, k) /\ k \in 1 .. Len(q) /\ Len(x) \in Nat
  BY <1>1, <1>3, <1>4 DEF Thinned
<1> QED  BY <1>3, <1>5 DEF x, q, y

\* The levels of two numbers.
LEMMA Levels ==
    ASSUME NEW m \in 1 .. 12, NEW n \in 1 .. 12
    PROVE  /\ LevelOf(n) = ssl_encryption_initial <=> n <= 4
           /\ LevelOf(n) = ssl_encryption_handshake <=> n > 4
           /\ LevelOf(m) = LevelOf(n) <=> (m <= 4 <=> n <= 4)
           /\ LevelOf(n) # ssl_encryption_application
BY DEF LevelOf, ssl_encryption_initial, ssl_encryption_handshake, ssl_encryption_application

\* p says the message that comes next.
LEMMA ChannelSays ==
    ASSUME NEW p \in Peer, NEW c, NEW h, NEW a \in 0 .. 12, NEW b \in 0 .. 12, NEW lost,
           NEW I, NEW Q \in Seq(Entries), Channel(p, c, h, a, b, lost, I, Q),
           NEW n \in Lines(p), Follows(c, n, a), p = "client" /\ n \in {1, 3} => n = h,
           NEW m \in Entries, m.msg = MessageOf(c, n), m.level = LevelOf(n)
    PROVE  Channel(p, c, h, n, b, lost, I, Append(Q, m))
<1> DEFINE q == Append(Q, m)
           k == Len(Q) + 1
<1>1. n \in 1 .. 12 /\ n \in Numbers(c) /\ a < n /\ \A i \in Numbers(c) : i < n => i <= a
  BY DEF Follows, Numbers
<1>2. Number(p, h, m) = n /\ Scripted(m)
  BY NumberOf
<1>3. Len(Q) \in Nat /\ Thinned(Q, q, k) /\ k \in 1 .. Len(q) /\ q[k] = m
  BY ThinnedAppend
<1> HIDE DEF q
<1>4. ASSUME NEW e, Genuine(p, c, h, a, e)
      PROVE  Genuine(p, c, h, n, e) /\ Earlier(p, h, e, m)
  <2>1. Scripted(e) => Number(p, h, e) <= a /\ Number(p, h, e) \in 1 .. 12
    BY <1>4, GenuineNumber
  <2>2. a # 12
    BY <1>1
  <2> QED  BY <1>1, <1>2, <1>4, <2>1, <2>2 DEF Genuine, Earlier
<1>5. Genuine(p, c, h, n, m)
  BY <1>1, <1>2 DEF Genuine, Scripted
<1>6. Fit(p, c, h, n, I) /\ Fit(p, c, h, n, Q)
  BY <1>4 DEF Channel, Fit
<1>7. Fit(p, c, h, n, q)
  BY <1>3, <1>5, <1>6, Insert
<1>8. Sorted(p, h, I) /\ Sorted(p, h, q) /\ InTurn(p, h, I, q)
  <2>1. \A i \in 1 .. Len(I) : Earlier(p, h, I[i], m)
    BY <1>4 DEF Channel, Fit
  <2>2. \A i \in 1 .. Len(Q) : Earlier(p, h, Q[i], m)
    BY <1>4 DEF Channel, Fit
  <2>3. \A i \in 1 .. Len(Q) : i >= k => Earlier(p, h, m, Q[i])
    BY <1>3
  <2>4. Sorted(p, h, q)
    <3>1. Sorted(p, h, Q)
      BY DEF Channel
    <3> QED  BY <1>3, <2>2, <2>3, <3>1, Insert
  <2>5. InTurn(p, h, I, q)
    <3>1. InTurn(p, h, I, Q)
      BY DEF Channel
    <3> QED  BY <1>3, <2>1, <3>1, Insert
  <2> QED  BY <2>4, <2>5 DEF Channel
<1>9. ASSUME ~lost
      PROVE  Above(p, h, b, I) /\ Above(p, h, b, q) /\ Complete(p, c, h, n, b, I, q)
  <2>1. Above(p, h, b, I) /\ Above(p, h, b, Q) /\ Complete(p, c, h, a, b, I, Q)
    BY <1>9 DEF Channel
  <2>2. n > b
    BY <1>1, <2>1 DEF Complete
  <2>3. Above(p, h, b, q)
    BY <1>2, <1>3, <2>1, <2>2, Insert
  <2>4. Complete(p, c, h, n, b, I, q)
    <3> SUFFICES ASSUME NEW i \in Numbers(c) \intersect Lines(p)
                 PROVE  /\ b < i /\ i <= n => Present(p, h, I, i) \/ Present(p, h, q, i)
                        /\ i <= b => i <= n
      BY DEF Complete
    <3>0. i \in 1 .. 12
      BY NumbersFacts
    <3>1. i <= b => i <= n
      BY <1>1, <2>1, <3>0 DEF Complete
    <3>2. Present(p, h, q, n)
      BY <1>2, <1>3 DEF Present
    <3>3. CASE i < n
      <4>1. b < i => Present(p, h, I, i) \/ Present(p, h, Q, i)
        BY <1>1, <2>1, <3>3 DEF Complete
      <4>2. Present(p, h, Q, i) => Present(p, h, q, i)
        BY <1>3, PresentThinned
      <4> QED  BY <3>1, <4>1, <4>2
    <3>4. CASE i >= n
      <4>1. i <= n => i = n
        BY <1>1, <3>0, <3>4
      <4> QED  BY <3>1, <3>2, <4>1
    <3> QED  BY <1>1, <3>0, <3>3, <3>4
  <2> QED  BY <2>1, <2>3, <2>4
<1>10. ASSUME lost
       PROVE  Secured(q) /\ n >= IF p = "client" THEN 3 ELSE 4
  <2>1. Secured(Q) /\ a >= IF p = "client" THEN 3 ELSE 4
    BY <1>10 DEF Channel
  <2>2. n > 4
    BY <1>1, <2>1 DEF Lines
  <2>3. m.level # ssl_encryption_initial
    BY <1>1, <2>2, Levels
  <2>4. Secured(q)
    BY <1>3, <2>1, <2>3, Insert
  <2> QED  BY <1>1, <2>1, <2>4
<1>11. Channel(p, c, h, n, b, lost, I, q)
  BY <1>6, <1>7, <1>8, <1>9, <1>10 DEF Channel
<1> QED  BY <1>11 DEF q

\* A ticket or a message too many is put on its way.
LEMMA ChannelAdds ==
    ASSUME NEW p, NEW c, NEW h, NEW a, NEW b, NEW lost, NEW I, NEW x, NEW q,
           Channel(p, c, h, a, b, lost, I, x), Len(x) \in Nat, NEW k \in 1 .. Len(q),
           Thinned(x, q, k), ~Scripted(q[k]), Genuine(p, c, h, a, q[k])
    PROVE  Channel(p, c, h, a, b, lost, I, q)
<1>1. /\ Fit(p, c, h, a, I) /\ Fit(p, c, h, a, x)
      /\ Sorted(p, h, I) /\ Sorted(p, h, x) /\ InTurn(p, h, I, x)
      /\ ~lost => Above(p, h, b, I) /\ Above(p, h, b, x) /\ Complete(p, c, h, a, b, I, x)
      /\ lost => Secured(x) /\ a >= IF p = "client" THEN 3 ELSE 4
  BY DEF Channel
<1>2. \A e : Earlier(p, h, e, q[k]) /\ Earlier(p, h, q[k], e)
  BY DEF Earlier
<1>3. Fit(p, c, h, a, q)
  BY <1>1, Insert
<1>4. Sorted(p, h, q)
  BY <1>1, <1>2, Insert
<1>5. InTurn(p, h, I, q)
  BY <1>1, <1>2, Insert
<1>6. Above(p, h, b, x) => Above(p, h, b, q)
  BY Insert
<1>7. Secured(x) => Secured(q)
  BY Insert
<1>8. ASSUME NEW n, Present(p, h, x, n)
      PROVE  Present(p, h, q, n)
  BY <1>8, PresentThinned
<1>9. Complete(p, c, h, a, b, I, x) => Complete(p, c, h, a, b, I, q)
  BY <1>8 DEF Complete
<1> QED  BY <1>1, <1>3, <1>4, <1>5, <1>6, <1>7, <1>9 DEF Channel

\* The first in the queue is read, a ticket or a message too many.
LEMMA ChannelDrops ==
    ASSUME NEW p, NEW c, NEW h, NEW a, NEW b, NEW lost, NEW I \in Seq(Entries), NEW Q, I # <<>>,
           Channel(p, c, h, a, b, lost, I, Q), lost \/ ~Scripted(I[1])
    PROVE  Channel(p, c, h, a, b, lost, Tail(I), Q)
<1> DEFINE x == Tail(I)
<1>1. Len(x) \in Nat /\ 1 \in 1 .. Len(I) /\ Thinned(x, I, 1)
  BY ThinnedTail
<1> HIDE DEF x
<1>2. /\ Fit(p, c, h, a, I) /\ Fit(p, c, h, a, Q)
      /\ Sorted(p, h, I) /\ Sorted(p, h, Q) /\ InTurn(p, h, I, Q)
      /\ ~lost => Above(p, h, b, I) /\ Above(p, h, b, Q) /\ Complete(p, c, h, a, b, I, Q)
      /\ lost => Secured(Q) /\ a >= IF p = "client" THEN 3 ELSE 4
  BY DEF Channel
<1>3. Fit(p, c, h, a, x) /\ Sorted(p, h, x) /\ InTurn(p, h, x, Q)
  BY <1>1, <1>2, ThinnedKeeps
<1>4. Above(p, h, b, I) => Above(p, h, b, x)
  BY <1>1, ThinnedKeeps
<1>5. ASSUME ~lost PROVE Complete(p, c, h, a, b, x, Q)
  <2>1. ASSUME NEW n, Present(p, h, I, n)
        PROVE  Present(p, h, x, n)
    BY <1>1, <1>5, <2>1, ThinnedPresent
  <2> QED  BY <1>2, <1>5, <2>1 DEF Complete
<1>6. Channel(p, c, h, a, b, lost, x, Q)
  BY <1>2, <1>3, <1>4, <1>5 DEF Channel
<1> QED  BY <1>6 DEF x

\* The first in the queue is read and the receiver is lost.
LEMMA ChannelLoses ==
    ASSUME NEW p, NEW c, NEW h, NEW a \in 0 .. 12, NEW b \in 0 .. 12, NEW lost, NEW d,
           NEW I \in Seq(Entries), NEW Q, I # <<>>, Channel(p, c, h, a, b, lost, I, Q),
           ~lost => b >= 4
    PROVE  Channel(p, c, h, a, d, TRUE, Tail(I), Q)
<1>1. /\ Fit(p, c, h, a, I) /\ Fit(p, c, h, a, Q)
      /\ Sorted(p, h, I) /\ Sorted(p, h, Q) /\ InTurn(p, h, I, Q)
      /\ ~lost => Above(p, h, b, I) /\ Above(p, h, b, Q) /\ Complete(p, c, h, a, b, I, Q)
      /\ lost => Secured(Q) /\ a >= IF p = "client" THEN 3 ELSE 4
  BY DEF Channel
<1>2. Secured(Q)
  <2>1. CASE ~lost
    <3> SUFFICES ASSUME NEW i \in 1 .. Len(Q), Scripted(Q[i])
                 PROVE  Q[i].level # ssl_encryption_initial
      BY DEF Secured
    <3>1. Number(p, h, Q[i]) > 4 /\ Number(p, h, Q[i]) \in 1 .. 12
      BY <1>1, <2>1, GenuineNumber DEF Fit, Above
    <3>2. Q[i].level = LevelOf(Number(p, h, Q[i]))
      BY <1>1, GenuineNumber DEF Fit
    <3> QED  BY <3>1, <3>2, Levels
  <2> QED  BY <1>1, <2>1
<1>3. a >= IF p = "client" THEN 3 ELSE 4
  <2>1. CASE ~lost
    <3>1. 3 \in Numbers(c) /\ 4 \in Numbers(c)
      BY NumbersFacts
    <3>2. CASE p = "client"
      BY <1>1, <2>1, <3>1, <3>2 DEF Complete, Lines
    <3>3. CASE p # "client"
      BY <1>1, <2>1, <3>1, <3>3 DEF Complete, Lines
    <3> QED  BY <3>2, <3>3
  <2> QED  BY <1>1, <2>1
<1> DEFINE x == Tail(I)
<1>4. Len(x) \in Nat /\ 1 \in 1 .. Len(I) /\ Thinned(x, I, 1)
  BY ThinnedTail
<1> HIDE DEF x
<1>5. Fit(p, c, h, a, x) /\ Sorted(p, h, x) /\ InTurn(p, h, x, Q)
  BY <1>1, <1>4, ThinnedKeeps
<1>6. Channel(p, c, h, a, d, TRUE, x, Q)
  BY <1>1, <1>2, <1>3, <1>5 DEF Channel
<1> QED  BY <1>6 DEF x

\* The first in the queue is the message that comes next of p's, and reading it
\* moves the receiver on to its number.
LEMMA ChannelHears ==
    ASSUME NEW p, NEW c, NEW h, NEW a \in 0 .. 12, NEW b \in 0 .. 12,
           NEW I \in Seq(Entries), NEW Q, I # <<>>, Channel(p, c, h, a, b, FALSE, I, Q),
           Scripted(I[1]), I[1].level = ssl_encryption_handshake => b >= 4
    PROVE  LET n == Number(p, h, I[1])
           IN  /\ n \in Numbers(c) \intersect Lines(p) /\ n \in 1 .. 12 /\ b < n /\ n <= a
               /\ I[1].msg = MessageOf(c, n) /\ I[1].level = LevelOf(n)
               /\ \A k \in Numbers(c) \intersect Lines(p) : k < n => k <= b
               /\ Channel(p, c, h, a, n, FALSE, Tail(I), Q)
<1> DEFINE n == Number(p, h, I[1])
           x == Tail(I)
<1>1. Len(x) \in Nat /\ 1 \in 1 .. Len(I) /\ Thinned(x, I, 1)
  BY ThinnedTail
<1>2. /\ Fit(p, c, h, a, I) /\ Fit(p, c, h, a, Q)
      /\ Sorted(p, h, I) /\ Sorted(p, h, Q) /\ InTurn(p, h, I, Q)
      /\ Above(p, h, b, I) /\ Above(p, h, b, Q) /\ Complete(p, c, h, a, b, I, Q)
  BY DEF Channel
<1>3. /\ n \in Numbers(c) \intersect Lines(p) /\ n \in 1 .. 12 /\ n <= a /\ b < n
      /\ I[1].msg = MessageOf(c, n) /\ I[1].level = LevelOf(n)
  <2>1. Genuine(p, c, h, a, I[1])
    BY <1>1, <1>2 DEF Fit
  <2> HIDE DEF x
  <2>2. /\ n \in Numbers(c) \intersect Lines(p) /\ n \in 1 .. 12 /\ n <= a
        /\ I[1].msg = MessageOf(c, n) /\ I[1].level = LevelOf(n)
    BY <2>1, GenuineNumber
  <2>3. n > b
    BY <1>1, <1>2 DEF Above
  <2> QED  BY <2>2, <2>3
<1> HIDE DEF n, x
<1>4. n > 4 => b >= 4
  BY <1>3, Levels
\* What else is on its way comes later.
<1>5. ASSUME NEW e, Genuine(p, c, h, a, e), Scripted(e), Number(p, h, e) > b,
             Earlier(p, h, I[1], e)
      PROVE  Number(p, h, e) > n
  <2> DEFINE k == Number(p, h, e)
  <2>1. k \in 1 .. 12 /\ e.level = LevelOf(k)
    BY <1>5, GenuineNumber
  <2>2. I[1].level = e.level => k > n
    BY <1>5 DEF Earlier, n
  <2>3. I[1].level # e.level => k > n
    BY <1>3, <1>4, <1>5, <2>1, Levels
  <2> QED  BY <2>2, <2>3
<1>6. \A i \in 1 .. Len(I) : i # 1 /\ Scripted(I[i]) => Number(p, h, I[i]) > n
  <2> TAKE i \in 1 .. Len(I)
  <2>1. i # 1 => Earlier(p, h, I[1], I[i])
    BY <1>1, <1>2 DEF Sorted
  <2> QED  BY <1>2, <1>5, <2>1 DEF Fit, Above
<1>7. \A i \in 1 .. Len(Q) : Scripted(Q[i]) => Number(p, h, Q[i]) > n
  <2> TAKE i \in 1 .. Len(Q)
  <2>1. Earlier(p, h, I[1], Q[i])
    BY <1>1, <1>2 DEF InTurn
  <2> QED  BY <1>2, <1>5, <2>1 DEF Fit, Above
<1>8. ASSUME NEW k \in Numbers(c) \intersect Lines(p), k < n
      PROVE  k <= b
  <2>0. k \in 1 .. 12
    BY NumbersFacts
  <2>1. ASSUME b < k
        PROVE  FALSE
    <3>1. Present(p, h, I, k) \/ Present(p, h, Q, k)
      BY <1>2, <1>3, <1>8, <2>0, <2>1 DEF Complete
    <3>2. ~Present(p, h, I, k)
      BY <1>3, <1>6, <1>8, <2>0 DEF Present, n
    <3>3. ~Present(p, h, Q, k)
      BY <1>3, <1>7, <1>8, <2>0 DEF Present
    <3> QED  BY <3>1, <3>2, <3>3
  <2> QED  BY <2>0, <2>1
<1>9. Fit(p, c, h, a, x) /\ Sorted(p, h, x) /\ InTurn(p, h, x, Q)
  BY <1>1, <1>2, ThinnedKeeps
<1>10. Above(p, h, n, Q)
  BY <1>7 DEF Above
<1>11. Above(p, h, n, x)
  <2> SUFFICES ASSUME NEW j \in 1 .. Len(x), Scripted(x[j])
               PROVE  Number(p, h, x[j]) > n
    BY DEF Above
  <2>1. x[j] = I[j + 1] /\ j + 1 \in 1 .. Len(I) /\ j + 1 # 1
    BY <1>1 DEF Thinned
  <2> QED  BY <1>6, <2>1
<1>12. Complete(p, c, h, a, n, x, Q)
  <2> SUFFICES ASSUME NEW k \in Numbers(c) \intersect Lines(p)
               PROVE  /\ n < k /\ k <= a => Present(p, h, x, k) \/ Present(p, h, Q, k)
                      /\ k <= n => k <= a
    BY DEF Complete
  <2>0. k \in 1 .. 12
    BY NumbersFacts
  <2>1. ASSUME n < k, k <= a
        PROVE  Present(p, h, x, k) \/ Present(p, h, Q, k)
    <3>1. Present(p, h, I, k) \/ Present(p, h, Q, k)
      BY <1>2, <1>3, <2>0, <2>1 DEF Complete
    <3>2. Number(p, h, I[1]) # k
      BY <1>3, <2>0, <2>1 DEF n
    <3> QED  BY <1>1, <3>1, <3>2, ThinnedPresent
  <2> QED  BY <1>3, <2>0, <2>1
<1>13. Channel(p, c, h, a, n, FALSE, x, Q)
  BY <1>2, <1>9, <1>10, <1>11, <1>12 DEF Channel
<1> QED  BY <1>3, <1>8, <1>13 DEF n, x

\* The transport hands over an entry that is the first of its level.
LEMMA ChannelGives ==
    ASSUME NEW p, NEW c, NEW h, NEW a, NEW b, NEW lost, NEW I \in Seq(Entries), NEW q,
           Channel(p, c, h, a, b, lost, I, q), NEW x, Len(x) \in Nat, NEW k \in 1 .. Len(q),
           Thinned(x, q, k), q[k] \in Entries,
           \A j \in 1 .. Len(q) : j < k => q[j].level # q[k].level
    PROVE  Channel(p, c, h, a, b, lost, Append(I, q[k]), x)
<1> DEFINE m == q[k]
           J == Append(I, m)
           l == Len(I) + 1
<1>1. Len(I) \in Nat /\ Thinned(I, J, l) /\ l \in 1 .. Len(J) /\ J[l] = m
  BY ThinnedAppend
<1> HIDE DEF J
<1>2. /\ Fit(p, c, h, a, I) /\ Fit(p, c, h, a, q)
      /\ Sorted(p, h, I) /\ Sorted(p, h, q) /\ InTurn(p, h, I, q)
      /\ ~lost => Above(p, h, b, I) /\ Above(p, h, b, q) /\ Complete(p, c, h, a, b, I, q)
      /\ lost => Secured(q) /\ a >= IF p = "client" THEN 3 ELSE 4
  BY DEF Channel
<1>3. Fit(p, c, h, a, x) /\ Sorted(p, h, x) /\ InTurn(p, h, I, x)
  BY <1>2, ThinnedKeeps
<1>4. /\ Above(p, h, b, q) => Above(p, h, b, x)
      /\ Secured(q) => Secured(x)
  BY ThinnedKeeps
<1>5. Genuine(p, c, h, a, m) /\ (Above(p, h, b, q) /\ Scripted(m) => Number(p, h, m) > b)
  BY <1>2 DEF Fit, Above
<1>6. Fit(p, c, h, a, J)
  BY <1>1, <1>2, <1>5, Insert
<1>7. Above(p, h, b, I) /\ Above(p, h, b, q) => Above(p, h, b, J)
  BY <1>1, <1>5, Insert
<1>8. \A i \in 1 .. Len(I) : Earlier(p, h, I[i], m)
  BY <1>2 DEF InTurn
<1>9. Sorted(p, h, J)
  <2>1. \A i \in 1 .. Len(I) : i >= l => Earlier(p, h, m, I[i])
    BY <1>1
  <2> QED  BY <1>1, <1>2, <1>8, <2>1, Insert
<1>10. \A j \in 1 .. Len(x) : Earlier(p, h, m, x[j])
  <2> TAKE j \in 1 .. Len(x)
  <2>1. CASE j < k
    <3>1. j \in 1 .. Len(q) /\ x[j] = q[j]
      BY <2>1 DEF Thinned
    <3> QED  BY <2>1, <3>1 DEF Earlier
  <2>2. CASE ~(j < k)
    <3>1. j + 1 \in 1 .. Len(q) /\ x[j] = q[j + 1] /\ k < j + 1
      BY <2>2 DEF Thinned
    <3> QED  BY <1>2, <3>1 DEF Sorted
  <2> QED  BY <2>1, <2>2
<1>11. InTurn(p, h, J, x)
  BY <1>1, <1>3, <1>10, Insert
<1>12. Complete(p, c, h, a, b, I, q) => Complete(p, c, h, a, b, J, x)
  <2>1. ASSUME NEW n, Present(p, h, I, n) \/ Present(p, h, q, n)
        PROVE  Present(p, h, J, n) \/ Present(p, h, x, n)
    <3>1. CASE Present(p, h, I, n)
      BY <1>1, <3>1, PresentThinned
    <3>2. CASE Present(p, h, q, n)
      <4>1. Present(p, h, x, n) \/ (Scripted(m) /\ Number(p, h, m) = n)
        BY <3>2, ThinnedPresent
      <4>2. Scripted(m) /\ Number(p, h, m) = n => Present(p, h, J, n)
        BY <1>1 DEF Present
      <4> QED  BY <4>1, <4>2
    <3> QED  BY <2>1, <3>1, <3>2
  <2> QED  BY <2>1 DEF Complete
<1>13. Channel(p, c, h, a, b, lost, J, x)
  BY <1>2, <1>3, <1>4, <1>6, <1>7, <1>9, <1>11, <1>12 DEF Channel
<1> QED  BY <1>13 DEF J

\* When no ClientHello is on its way the next one is numbered.
LEMMA ChannelRenumbers ==
    ASSUME NEW c, NEW a \in 0 .. 12, NEW b \in 0 .. 12, NEW lost, NEW I, NEW Q, NEW h, NEW g,
           Channel("client", c, h, a, b, lost, I, Q), h <= b, a < 3, h \in 1 .. 12
    PROVE  Channel("client", c, g, a, b, lost, I, Q)
<1> DEFINE p == "client"
<1>1. ~lost
  BY DEF Channel
<1>2. /\ Fit(p, c, h, a, I) /\ Fit(p, c, h, a, Q)
      /\ Sorted(p, h, I) /\ Sorted(p, h, Q) /\ InTurn(p, h, I, Q)
      /\ Above(p, h, b, I) /\ Above(p, h, b, Q) /\ Complete(p, c, h, a, b, I, Q)
  BY <1>1 DEF Channel
<1>3. ASSUME NEW m, Scripted(m), Number(p, h, m) > b, Genuine(p, c, h, a, m)
      PROVE  Number(p, g, m) = Number(p, h, m)
  <2>1. m.msg.type # "CLIENT_HELLO"
    BY <1>3, NumberValues
  <2> QED  BY <2>1 DEF Number
<1>4. \A i \in 1 .. Len(I) : Scripted(I[i]) => Number(p, g, I[i]) = Number(p, h, I[i])
  BY <1>2, <1>3 DEF Fit, Above
<1>5. \A i \in 1 .. Len(Q) : Scripted(Q[i]) => Number(p, g, Q[i]) = Number(p, h, Q[i])
  BY <1>2, <1>3 DEF Fit, Above
<1>6. Fit(p, c, g, a, I) /\ Fit(p, c, g, a, Q)
  BY <1>2, <1>4, <1>5 DEF Fit, Genuine
<1>7. Sorted(p, g, I) /\ Sorted(p, g, Q) /\ InTurn(p, g, I, Q)
  BY <1>2, <1>4, <1>5 DEF Sorted, InTurn, Earlier
<1>8. Above(p, g, b, I) /\ Above(p, g, b, Q)
  BY <1>2, <1>4, <1>5 DEF Above
<1>9. Complete(p, c, g, a, b, I, Q)
  BY <1>2, <1>4, <1>5 DEF Complete, Present
<1> QED  BY <1>1, <1>6, <1>7, <1>8, <1>9 DEF Channel

-----------------------------------------------------------------------------
(* Places *)

\* The place of a client, state by state.
LEMMA ClientPosValues ==
    ASSUME NEW s, NEW c
    PROVE  LET n == ClientPos(s, c)
           IN  /\ s.hand_state = "BEFORE" => n = 0
               /\ s.hand_state = "CW_CLNT_HELLO" =>
                     n = IF ~Unsaid(s) THEN HelloOf(s, c)
                         ELSE IF c.hrr /\ s.hello_retry_request = "PENDING" THEN 2 ELSE 0
               /\ s.hand_state = "EARLY_DATA" => n = HelloOf(s, c)
               /\ s.hand_state = "CR_SRVR_HELLO" =>
                     n = IF s.quic_read_level = ssl_encryption_initial THEN 2 ELSE 4
               /\ s.hand_state = "CR_ENCRYPTED_EXTENSIONS" => n = 5
               /\ s.hand_state = "CR_CERT_REQ" => n = 6
               /\ s.hand_state = "CR_CERT" => n = 7
               /\ s.hand_state = "CR_CERT_VRFY" => n = 8
               /\ s.hand_state \in {"CR_FINISHED", "PENDING_EARLY_DATA_END",
                                    "CW_END_OF_EARLY_DATA"} => n = 9
               /\ s.hand_state = "CW_CERT" => n = IF Unsaid(s) THEN 9 ELSE 10
               /\ s.hand_state = "CW_CERT_VRFY" => n = IF Unsaid(s) THEN 10 ELSE 11
               /\ s.hand_state = "CW_FINISHED" =>
                     n = IF ~Unsaid(s) THEN 12
                         ELSE IF ~Asks(c) THEN 9 ELSE IF c.clientCert THEN 11 ELSE 10
               /\ s.hand_state \in {"OK", "CR_SESSION_TICKET"} => n = 12
BY DEF ClientPos

\* The place of a server, state by state.
LEMMA ServerPosValues ==
    ASSUME NEW s, NEW c
    PROVE  LET n == ServerPos(s, c)
           IN  /\ s.hand_state = "BEFORE" => n = 0
               /\ s.hand_state = "SR_CLNT_HELLO" =>
                     n = IF Weighing(s)
                         THEN IF c.hrr /\ s.hello_retry_request = "NONE" THEN 1 ELSE 3
                         ELSE IF s.hello_retry_request = "PENDING" THEN 1 ELSE 3
               /\ s.hand_state = "SW_SRVR_HELLO" =>
                     n = IF s.hello_retry_request = "PENDING" THEN IF Unsaid(s) THEN 1 ELSE 2
                         ELSE IF Unsaid(s) THEN 3 ELSE 4
               /\ s.hand_state = "SW_ENCRYPTED_EXTENSIONS" => n = IF Unsaid(s) THEN 4 ELSE 5
               /\ s.hand_state = "SW_CERT_REQ" => n = IF Unsaid(s) THEN 5 ELSE 6
               /\ s.hand_state = "SW_CERT" =>
                     n = IF ~Unsaid(s) THEN 7 ELSE IF c.certReq THEN 6 ELSE 5
               /\ s.hand_state = "SW_CERT_VRFY" => n = IF Unsaid(s) THEN 7 ELSE 8
               /\ s.hand_state = "SW_FINISHED" =>
                     n = IF ~Unsaid(s) THEN 9 ELSE IF Resumes(c) THEN 5 ELSE 8
               /\ s.hand_state = "EARLY_DATA" =>
                     n = IF s.hello_retry_request = "PENDING" THEN 2 ELSE 9
               /\ s.hand_state = "SR_CERT" => n = 10
               /\ s.hand_state = "SR_CERT_VRFY" => n = 11
               /\ s.hand_state \in {"SR_FINISHED", "SW_SESSION_TICKET", "OK"} => n = 12
BY DEF ServerPos

\* A place is a number, or 0.
LEMMA PosRange ==
    ASSUME NEW p, NEW s, NEW c
    PROVE  Pos(p, s, c) \in 0 .. 12 /\ Hello(p, s, c) \in {1, 3}
<1>1. HelloOf(s, c) \in {1, 3}
  BY DEF HelloOf
<1>2. ClientPos(s, c) \in 0 .. 12
  BY <1>1 DEF ClientPos
<1>3. ServerPos(s, c) \in 0 .. 12
  BY DEF ServerPos
<1> QED  BY <1>1, <1>2, <1>3 DEF Pos, Hello

\* The fields by which an endpoint keeps to the script.
ScriptFields == {"server", "hand_state", "read_state", "write_state", "quic_read_level",
                 "quic_write_level", "secrets", "transcript", "msg", "clienthello", "hit",
                 "hello_retry_request", "cert_req", "early_data_state", "early_data"}

\* Steps that change none of them leave the place as it is.
LEMMA SamePlace ==
    ASSUME NEW p, NEW s, NEW t, NEW c, Off(t, s, Fields \ ScriptFields), Side(p, s, c),
           t.state = "READING" => s.state = "READING", s.state = "ERROR" => t.state = "ERROR",
           t.state = "WRITING" => s.state = "WRITING"
    PROVE  /\ Side(p, t, c) /\ Pos(p, t, c) = Pos(p, s, c) /\ Hello(p, t, c) = Hello(p, s, c)
           /\ t.transcript = s.transcript
<1>1. /\ t.hand_state = s.hand_state /\ t.read_state = s.read_state
      /\ t.write_state = s.write_state /\ t.quic_read_level = s.quic_read_level
      /\ t.quic_write_level = s.quic_write_level /\ t.secrets = s.secrets
      /\ t.transcript = s.transcript /\ t.msg = s.msg /\ t.clienthello = s.clienthello
      /\ t.hit = s.hit /\ t.hello_retry_request = s.hello_retry_request
      /\ t.cert_req = s.cert_req /\ t.early_data_state = s.early_data_state
      /\ t.early_data = s.early_data
  BY DEF Off, ScriptFields, Fields
<1>2. /\ Unsaid(t) <=> Unsaid(s)
      /\ Weighing(t) <=> Weighing(s)
      /\ HelloOf(t, c) = HelloOf(s, c)
  BY <1>1 DEF Unsaid, Weighing, HelloOf
<1>3. ClientPos(t, c) = ClientPos(s, c) /\ ClientSays(t, c) = ClientSays(s, c)
  BY <1>1, <1>2 DEF ClientPos, ClientSays
<1>4. ServerPos(t, c) = ServerPos(s, c) /\ ServerSays(t) = ServerSays(s)
  BY <1>1, <1>2 DEF ServerPos, ServerSays
<1>5. ASSUME NEW n \in 0 .. 12, ClientAt(s, c, n) PROVE ClientAt(t, c, n)
  <2>1. ClientLines(t, c, n)
    BY <1>1, <1>2, <1>3, <1>5 DEF ClientAt, ClientLines
  <2>2. ClientChoices(t, c, n)
    BY <1>1, <1>5 DEF ClientAt, ClientChoices
  <2>3. ClientLevels(t, n)
    BY <1>1, <1>5 DEF ClientAt, ClientLevels
  <2> QED  BY <2>1, <2>2, <2>3 DEF ClientAt
<1>6. ASSUME NEW n \in 0 .. 12, ServerAt(s, c, n) PROVE ServerAt(t, c, n)
  <2>1. Judged(t, n) <=> Judged(s, n)
    BY <1>2 DEF Judged
  <2>2. ServerLines(t, c, n)
    BY <1>1, <1>2, <1>4, <1>6 DEF ServerAt, ServerLines
  <2>3. ServerChoices(t, c, n)
    BY <1>1, <1>2, <1>6, <2>1 DEF ServerAt, ServerChoices
  <2>4. ServerLevels(t, n)
    BY <1>1, <1>6 DEF ServerAt, ServerLevels
  <2> QED  BY <2>2, <2>3, <2>4 DEF ServerAt
<1>7. /\ ClientLost(s, c) => ClientLost(t, c)
      /\ ServerLost(s, c) => ServerLost(t, c)
  BY <1>1 DEF ClientLost, ServerLost
<1>8. ClientSide(s, c) => ClientSide(t, c)
  BY <1>1, <1>3, <1>5, <1>7, PosRange DEF ClientSide, ClientKept, Pos
<1>9. ServerSide(s, c) => ServerSide(t, c)
  BY <1>1, <1>4, <1>6, <1>7, PosRange DEF ServerSide, ServerKept, Pos
<1> QED  BY <1>1, <1>2, <1>3, <1>4, <1>8, <1>9 DEF Side, Pos, Hello

\* A step from s to t that neither reads nor says a message.
Calm(p, s, t, c) ==
    /\ Side(p, t, c)
    /\ Pos(p, t, c) = Pos(p, s, c) /\ Hello(p, t, c) = Hello(p, s, c)
    /\ Astray(t.transcript) <=> Astray(s.transcript)
    /\ t.quic_input_data = s.quic_input_data
    /\ t.quic_latest_level_received = s.quic_latest_level_received

\* In particular one that changes none of these fields.
LEMMA CalmPlace ==
    ASSUME NEW p, NEW s, NEW t, NEW c, NEW X, Off(t, s, X),
           X \subseteq (Fields \ ScriptFields) \ {"quic_input_data", "quic_latest_level_received"},
           Side(p, s, c),
           t.state = "READING" => s.state = "READING", s.state = "ERROR" => t.state = "ERROR",
           t.state = "WRITING" => s.state = "WRITING"
    PROVE  Calm(p, s, t, c)
<1>1. Off(t, s, Fields \ ScriptFields)
  BY OffMore
<1>2. /\ t.quic_input_data = s.quic_input_data
      /\ t.quic_latest_level_received = s.quic_latest_level_received
  BY DEF Off, Fields
<1> QED  BY <1>1, <1>2, SamePlace DEF Calm

-----------------------------------------------------------------------------
(* Steps of one side *)

\* What a side has to show when it becomes t and its way becomes W.
Turned(p, t, W) ==
    LET q == Other(p)
        r == ssl[q]
        c == config
    IN  /\ Side(p, t, c) /\ Intake(t) /\ Reported(t)
        /\ Channel(p, c, Hello(p, t, c), Pos(p, t, c), Pos(q, r, c), Astray(r.transcript),
                   r.quic_input_data, W)
        /\ Channel(q, c, Hello(q, r, c), Pos(q, r, c), Pos(p, t, c), Astray(t.transcript),
                   t.quic_input_data, Way(q))

\* p becomes t, the other side stays as it is.
Turns(p, t) ==
    /\ ssl'[p] = t /\ ssl'[Other(p)] = ssl[Other(p)] /\ config' = config
    /\ wire'[Other(p)] = wire[Other(p)]
    /\ faults' = MaxFaults => faults = MaxFaults

\* That is enough.
LEMMA Turn ==
    ASSUME IInv, SInv, NEW p \in Peer, NEW t, Turns(p, t), NEW W, W = wire'[p] \o t.flight,
           Turned(p, t, W),
           faults = MaxFaults => \/ faults' # MaxFaults
                                 \/ /\ t.state # "ERROR" /\ Clean(t.quic_input_data)
                                    /\ Clean(W) /\ ~Astray(t.transcript)
    PROVE  SInv'
<1> DEFINE q == Other(p)
<1>1. /\ q \in Peer /\ p # q /\ Peer = {p, q} /\ Other(q) = p
      /\ ssl'[p] = t /\ ssl'[q] = ssl[q] /\ Way(p)' = W /\ Way(q)' = Way(q)
  BY DEF IInv, Peer, Other, Turns, Way
<1>2. /\ Side(q, ssl[q], config) /\ Intake(ssl[q]) /\ Reported(ssl[q])
      /\ faults = MaxFaults => /\ ssl[q].state # "ERROR" /\ Clean(ssl[q].quic_input_data)
                               /\ Clean(Way(q)) /\ ~Astray(ssl[q].transcript)
  BY <1>1 DEF SInv, Faultless
<1>3. Turned(p, t, W) /\ config' = config
  BY DEF Turns
<1> HIDE DEF q
<1>4. Linked(p, q)' /\ Linked(q, p)'
  BY <1>1, <1>3 DEF Turned, Linked, q
<1>5. \A x \in Peer : Side(x, ssl[x], config)' /\ Intake(ssl[x])' /\ Reported(ssl[x])'
  BY <1>1, <1>2, <1>3 DEF Turned, q
<1>6. \A x \in Peer : Linked(x, Other(x))'
  BY <1>1, <1>4 DEF q
<1>7. Faultless'
  BY <1>1, <1>2 DEF Faultless, Turns
<1> QED  BY <1>5, <1>6, <1>7 DEF SInv

\* What a side was given it can still decrypt.
LEMMA IntakeKept ==
    ASSUME NEW s, NEW t, Intake(s), s.secrets \subseteq t.secrets, t.server = s.server,
           s.quic_input_data \in Seq(Entries),
           \/ t.quic_input_data = s.quic_input_data
           \/ s.quic_input_data # <<>> /\ t.quic_input_data = Tail(s.quic_input_data),
           t.quic_latest_level_received = s.quic_latest_level_received
    PROVE  Intake(t)
<1>1. \A l : CanDecrypt(s, l) => CanDecrypt(t, l)
  BY DEF CanDecrypt
<1>2. CASE t.quic_input_data = s.quic_input_data
  BY <1>1, <1>2 DEF Intake
<1>3. CASE s.quic_input_data # <<>> /\ t.quic_input_data = Tail(s.quic_input_data)
  <2>1. \A i \in 1 .. Len(t.quic_input_data) :
           \E j \in 1 .. Len(s.quic_input_data) : t.quic_input_data[i] = s.quic_input_data[j]
    BY <1>3, TailOf
  <2> QED  BY <1>1, <2>1 DEF Intake
<1> QED  BY <1>2, <1>3

\* The two sides, of one of them, and of the channels.
LEMMA TurnFacts ==
    ASSUME IInv, SInv, NEW p \in Peer
    PROVE  LET q == Other(p)
               s == ssl[p]
               r == ssl[q]
               c == config
           IN  /\ q \in Peer /\ Other(q) = p /\ Side(p, s, c) /\ Intake(s) /\ Reported(s)
               /\ s.quic_input_data \in Seq(Entries) /\ Way(p) \in Seq(Entries)
               /\ wire[p] \in Seq(Entries) /\ s.flight \in Seq(Entries)
               /\ s.transcript \in Seq(Kinds)
               /\ Channel(p, c, Hello(p, s, c), Pos(p, s, c), Pos(q, r, c),
                          Astray(r.transcript), r.quic_input_data, Way(p))
               /\ Channel(q, c, Hello(q, r, c), Pos(q, r, c), Pos(p, s, c),
                          Astray(s.transcript), s.quic_input_data, Way(q))
<1>1. Other(p) \in Peer /\ Other(Other(p)) = p
  BY DEF Peer, Other
<1>2. Data(ssl[p], config)
  BY DEF IInv, Peer, Client, Server, Endpoint
<1>3. wire[p] \in Seq(Entries)
  BY DEF IInv, Wires
<1>4. Way(p) \in Seq(Entries)
  BY <1>2, <1>3, JoinOf DEF Data, Way
<1>5. Linked(p, Other(p)) /\ Linked(Other(p), Other(Other(p)))
  BY <1>1 DEF SInv
<1> QED  BY <1>1, <1>2, <1>3, <1>4, <1>5 DEF SInv, Data, Linked

\* A calm step.
LEMMA TurnCalm ==
    ASSUME IInv, SInv, NEW p \in Peer, NEW t, Turns(p, t), wire'[p] \o t.flight = Way(p),
           Calm(p, ssl[p], t, config), Reported(t), ssl[p].secrets \subseteq t.secrets,
           t.server = ssl[p].server,
           faults = MaxFaults => faults' # MaxFaults \/ t.state # "ERROR"
    PROVE  SInv'
<1>1. Intake(t)
  BY IntakeKept, TurnFacts DEF Calm
<1>2. Turned(p, t, Way(p))
  BY <1>1, TurnFacts DEF Turned, Calm, Channel
<1>3. faults = MaxFaults => /\ Clean(t.quic_input_data) /\ Clean(Way(p))
                            /\ ~Astray(t.transcript)
  BY DEF Calm, SInv, Faultless
<1> QED  BY <1>2, <1>3, Turn

\* What t keeps of s when it sends or reads a message.
Onward(s, t) ==
    /\ s.secrets \subseteq t.secrets /\ t.server = s.server /\ Reported(t)
    /\ t.quic_latest_level_received = s.quic_latest_level_received

\* The rest of a queue without a message too many is one.
LEMMA CleanTail ==
    ASSUME NEW q \in Seq(Entries), q # <<>>, Clean(q)
    PROVE  Clean(Tail(q))
BY TailOf DEF Clean

\* A side says the message that comes next.
LEMMA TurnSays ==
    ASSUME IInv, SInv, NEW p \in Peer, NEW t, Turns(p, t), Onward(ssl[p], t),
           Side(p, t, config), ~Astray(ssl[p].transcript), ~Astray(t.transcript),
           t.quic_input_data = ssl[p].quic_input_data, t.state # "ERROR",
           NEW n \in Lines(p), Follows(config, n, Pos(p, ssl[p], config)),
           Pos(p, t, config) = n, Hello(p, t, config) = Hello(p, ssl[p], config),
           p = "client" /\ n \in {1, 3} => n = Hello(p, ssl[p], config),
           NEW m \in Entries, m.msg = MessageOf(config, n), m.level = LevelOf(n),
           wire'[p] \o t.flight = Append(Way(p), m)
    PROVE  SInv'
<1> DEFINE q == Other(p)
           r == ssl[q]
           c == config
           s == ssl[p]
           b == Pos(q, r, c)
           W == Append(Way(p), m)
<1>1. Intake(t)
  BY IntakeKept, TurnFacts DEF Onward
<1>2. /\ Channel(p, c, Hello(p, s, c), Pos(p, s, c), b, Astray(r.transcript),
                 r.quic_input_data, Way(p))
      /\ Channel(q, c, Hello(q, r, c), b, Pos(p, s, c), FALSE, s.quic_input_data, Way(q))
  BY TurnFacts DEF Channel
<1>3. /\ Pos(p, s, c) \in 0 .. 12 /\ b \in 0 .. 12 /\ Hello(p, s, c) \in {1, 3}
      /\ Way(p) \in Seq(Entries)
  BY PosRange, TurnFacts
<1>4. Channel(p, c, Hello(p, s, c), n, b, Astray(r.transcript), r.quic_input_data, W)
  <2>1. CASE Astray(r.transcript)
    <3>1. Channel(p, c, Hello(p, s, c), Pos(p, s, c), b, TRUE, r.quic_input_data, Way(p))
      BY <1>2, <2>1 DEF Channel
    <3>2. Channel(p, c, Hello(p, s, c), n, b, TRUE, r.quic_input_data, W)
      BY <1>3, <3>1, ChannelSays
    <3> QED  BY <2>1, <3>2 DEF Channel
  <2>2. CASE ~Astray(r.transcript)
    <3>1. Channel(p, c, Hello(p, s, c), Pos(p, s, c), b, FALSE, r.quic_input_data, Way(p))
      BY <1>2, <2>2 DEF Channel
    <3>2. Channel(p, c, Hello(p, s, c), n, b, FALSE, r.quic_input_data, W)
      BY <1>3, <3>1, ChannelSays
    <3> QED  BY <2>2, <3>2 DEF Channel
  <2> QED  BY <2>1, <2>2
<1>5. n \in 0 .. 12 /\ Pos(p, s, c) <= n
      /\ \A k \in Numbers(c) \intersect Lines(q) : k <= n => k <= Pos(p, s, c)
  <2>1. \A k \in Lines(q) : k # n
    BY DEF Lines, Other, Peer
  <2>2. n \in Numbers(c) /\ Numbers(c) \subseteq 1 .. 12
    BY NumbersFacts DEF Follows
  <2> QED  BY <1>3, <2>1, <2>2 DEF Follows
<1>6. Channel(q, c, Hello(q, r, c), b, n, FALSE, s.quic_input_data, Way(q))
  BY <1>2, <1>3, <1>5, ReceiverMoves
<1>7. Turned(p, t, W)
  <2>1. Channel(q, c, Hello(q, r, c), b, n, Astray(t.transcript), s.quic_input_data, Way(q))
    BY <1>6 DEF Channel
  <2> QED  BY <1>1, <1>4, <2>1 DEF Turned, Onward
<1>8. faults = MaxFaults => Clean(t.quic_input_data) /\ Clean(W)
  <2>1. ASSUME faults = MaxFaults PROVE Clean(W)
    <3>1. Clean(Way(p))
      BY <2>1 DEF SInv, Faultless
    <3>2. m.msg.has # {"stray"}
      BY <1>5, MessageFacts, HasFacts, NumbersFacts DEF Follows
    <3> QED  BY <1>3, <3>1, <3>2, AppendTo DEF Clean
  <2> QED  BY <2>1 DEF SInv, Faultless
<1> QED  BY <1>7, <1>8, Turn

\* The first in the queue of a side that keeps to the script is the message of
\* its peer that comes next.
LEMMA HeadFacts ==
    ASSUME IInv, SInv, NEW p \in Peer, ~Astray(ssl[p].transcript),
           ssl[p].quic_input_data # <<>>, Scripted(ssl[p].quic_input_data[1])
    PROVE  LET q == Other(p)
               s == ssl[p]
               r == ssl[q]
               c == config
               m == s.quic_input_data[1]
               n == Number(q, Hello(q, r, c), m)
           IN  /\ n \in Numbers(c) \intersect Lines(q) /\ Pos(p, s, c) < n /\ n <= Pos(q, r, c)
               /\ m.msg = MessageOf(c, n) /\ m.level = LevelOf(n) /\ n \in 1 .. 12
               /\ \A k \in Numbers(c) \intersect Lines(q) : k < n => k <= Pos(p, s, c)
               /\ Channel(q, c, Hello(q, r, c), Pos(q, r, c), n, FALSE,
                          Tail(s.quic_input_data), Way(q))
<1> DEFINE q == Other(p)
           s == ssl[p]
           r == ssl[q]
           c == config
<1>1. /\ Channel(q, c, Hello(q, r, c), Pos(q, r, c), Pos(p, s, c), FALSE, s.quic_input_data,
                 Way(q))
      /\ Side(p, s, c) /\ Intake(s) /\ s.quic_input_data \in Seq(Entries)
  BY TurnFacts DEF Channel
<1>2. Pos(p, s, c) \in 0 .. 12 /\ Pos(q, r, c) \in 0 .. 12
  BY PosRange
<1>3. ssl_encryption_handshake \in s.secrets => Pos(p, s, c) >= 4
  <2>1. ClientSide(s, c) => ClientLevels(s, ClientPos(s, c))
    BY DEF ClientSide, ClientKept, ClientAt
  <2>2. ServerSide(s, c) => ServerLevels(s, ServerPos(s, c))
    BY DEF ServerSide, ServerKept, ServerAt
  <2> QED  BY <1>1, <2>1, <2>2 DEF Side, Pos, ClientLevels, ServerLevels
<1>4. s.quic_input_data[1].level = ssl_encryption_handshake => Pos(p, s, c) >= 4
  <2>1. CanDecrypt(s, s.quic_input_data[1].level)
    BY <1>1, TailOf DEF Intake
  <2> QED  BY <1>3, <2>1 DEF CanDecrypt, ssl_encryption_initial, ssl_encryption_handshake
<1> DEFINE I == s.quic_input_data
           h == Hello(q, r, c)
           a == Pos(q, r, c)
           b == Pos(p, s, c)
           Q == Way(q)
           n == Number(q, h, I[1])
<1>5. /\ I \in Seq(Entries) /\ I # <<>> /\ Channel(q, c, h, a, b, FALSE, I, Q)
      /\ Scripted(I[1]) /\ (I[1].level = ssl_encryption_handshake => b >= 4)
      /\ a \in 0 .. 12 /\ b \in 0 .. 12
  BY <1>1, <1>2, <1>4
<1> HIDE DEF I, h, a, b, Q, q, r, s, c
<1>6. /\ n \in Numbers(c) \intersect Lines(q) /\ n \in 1 .. 12 /\ b < n /\ n <= a
      /\ I[1].msg = MessageOf(c, n) /\ I[1].level = LevelOf(n)
      /\ \A k \in Numbers(c) \intersect Lines(q) : k < n => k <= b
      /\ Channel(q, c, h, a, n, FALSE, Tail(I), Q)
  BY <1>5, ChannelHears
<1> QED  BY <1>6 DEF I, h, a, b, Q, q, r, s, c

\* A side reads it.
LEMMA TurnHears ==
    ASSUME IInv, SInv, NEW p \in Peer, NEW t, Turns(p, t), Onward(ssl[p], t),
           wire'[p] \o t.flight = Way(p),
           Side(p, t, config), ~Astray(ssl[p].transcript), ~Astray(t.transcript),
           t.state # "ERROR", ssl[p].quic_input_data # <<>>,
           t.quic_input_data = Tail(ssl[p].quic_input_data),
           Scripted(ssl[p].quic_input_data[1]), NEW n,
           n = Number(Other(p), Hello(Other(p), ssl[Other(p)], config),
                      ssl[p].quic_input_data[1]),
           Follows(config, n, Pos(p, ssl[p], config)), Pos(p, t, config) = n,
           \/ Hello(p, t, config) = Hello(p, ssl[p], config)
           \/ p = "client" /\ n = 2 /\ Hello(p, ssl[p], config) = 1
    PROVE  SInv'
<1> DEFINE q == Other(p)
           r == ssl[q]
           c == config
           s == ssl[p]
           b == Pos(q, r, c)
           h == Hello(p, s, c)
           g == Hello(p, t, c)
<1>1. Intake(t)
  BY IntakeKept, TurnFacts DEF Onward
<1>2. /\ Channel(p, c, h, Pos(p, s, c), b, Astray(r.transcript), r.quic_input_data, Way(p))
      /\ Channel(q, c, Hello(q, r, c), b, n, FALSE, t.quic_input_data, Way(q))
      /\ n \in Lines(q) /\ n \in 1 .. 12 /\ n <= b /\ Pos(p, s, c) < n
  BY TurnFacts, HeadFacts DEF Channel
<1>3. Pos(p, s, c) \in 0 .. 12 /\ b \in 0 .. 12 /\ h \in {1, 3}
  BY PosRange
<1>4. Pos(p, s, c) <= n /\ \A k \in Numbers(c) \intersect Lines(p) : k <= n => k <= Pos(p, s, c)
  <2>1. \A k \in Lines(p) : k # n
    BY <1>2 DEF Lines, Other, Peer
  <2> QED  BY <1>2, <1>3, <2>1, NumbersFacts DEF Follows
<1>5. ASSUME NEW lost, Channel(p, c, h, Pos(p, s, c), b, lost, r.quic_input_data, Way(p))
      PROVE  Channel(p, c, g, n, b, lost, r.quic_input_data, Way(p))
  <2> DEFINE I == r.quic_input_data
             Q == Way(p)
             a == Pos(p, s, c)
  <2>0. /\ Channel(p, c, h, a, b, lost, I, Q) /\ n \in 0 .. 12 /\ a <= n /\ n <= b
        /\ a \in 0 .. 12 /\ b \in 0 .. 12 /\ h \in {1, 3}
        /\ \A k \in Numbers(c) \intersect Lines(p) : k <= n => k <= a
        /\ g = h \/ (p = "client" /\ n = 2 /\ h = 1)
    BY <1>2, <1>3, <1>4, <1>5
  <2> HIDE DEF I, Q, a, b, h, g
  <2> SUFFICES Channel(p, c, g, n, b, lost, I, Q)
    BY DEF I, Q
  <2>1. Channel(p, c, h, n, b, lost, I, Q)
    BY <2>0, SenderMoves
  <2>2. CASE g = h
    BY <2>1, <2>2
  <2>3. CASE p = "client" /\ n = 2 /\ h = 1
    <3>1. Channel("client", c, h, 2, b, lost, I, Q) /\ h <= b /\ h \in 1 .. 12
          /\ 2 \in 0 .. 12 /\ 2 < 3 /\ b \in 0 .. 12
      BY <2>0, <2>1, <2>3
    <3>2. Channel("client", c, g, 2, b, lost, I, Q)
      BY <3>1, ChannelRenumbers, Zenon
    <3> QED  BY <2>3, <3>2
  <2> QED  BY <2>0, <2>2, <2>3
<1>6. Channel(p, c, g, n, b, Astray(r.transcript), r.quic_input_data, Way(p))
  <2>1. CASE Astray(r.transcript)
    <3>1. Channel(p, c, h, Pos(p, s, c), b, TRUE, r.quic_input_data, Way(p))
      BY <1>2, <2>1 DEF Channel
    <3> QED  BY <1>5, <2>1, <3>1 DEF Channel
  <2>2. CASE ~Astray(r.transcript)
    <3>1. Channel(p, c, h, Pos(p, s, c), b, FALSE, r.quic_input_data, Way(p))
      BY <1>2, <2>2 DEF Channel
    <3> QED  BY <1>5, <2>2, <3>1 DEF Channel
  <2> QED  BY <2>1, <2>2
<1>7. Turned(p, t, Way(p))
  <2>1. Channel(q, c, Hello(q, r, c), b, n, Astray(t.transcript), t.quic_input_data, Way(q))
    BY <1>2 DEF Channel
  <2> QED  BY <1>1, <1>6, <2>1 DEF Turned, Onward
<1>8. faults = MaxFaults => Clean(t.quic_input_data) /\ Clean(Way(p))
  <2>1. s.quic_input_data \in Seq(Entries)
    BY TurnFacts
  <2> QED  BY <2>1, CleanTail DEF SInv, Faultless
<1> QED  BY <1>7, <1>8, Turn

\* A side reads and is lost, or was.
LEMMA TurnLoses ==
    ASSUME IInv, SInv, NEW p \in Peer, NEW t, Turns(p, t), Onward(ssl[p], t),
           wire'[p] \o t.flight = Way(p),
           Side(p, t, config), Astray(t.transcript), faults # MaxFaults,
           ssl[p].quic_input_data # <<>>, t.quic_input_data = Tail(ssl[p].quic_input_data),
           Pos(p, ssl[p], config) >= 4, Pos(p, ssl[p], config) <= Pos(p, t, config),
           \A k \in Numbers(config) \intersect Lines(p) :
              k <= Pos(p, t, config) => k <= Pos(p, ssl[p], config),
           Hello(p, t, config) = Hello(p, ssl[p], config)
    PROVE  SInv'
<1> DEFINE q == Other(p)
           r == ssl[q]
           c == config
           s == ssl[p]
           a == Pos(p, s, c)
           d == Pos(p, t, c)
           b == Pos(q, r, c)
           h == Hello(p, s, c)
           g == Hello(q, r, c)
           I == s.quic_input_data
           J == r.quic_input_data
           V == Way(p)
           Q == Way(q)
<1>1. Intake(t)
  BY IntakeKept, TurnFacts DEF Onward
<1>2. /\ Channel(p, c, h, a, b, Astray(r.transcript), J, V)
      /\ Channel(q, c, g, b, a, Astray(s.transcript), I, Q)
      /\ I \in Seq(Entries) /\ I # <<>>
  BY TurnFacts
<1>3. /\ a \in 0 .. 12 /\ b \in 0 .. 12 /\ d \in 0 .. 12 /\ a >= 4 /\ a <= d
      /\ \A k \in Numbers(c) \intersect Lines(p) : k <= d => k <= a
  BY PosRange
<1> SUFFICES /\ Channel(p, c, h, d, b, Astray(r.transcript), J, V)
             /\ Channel(q, c, g, b, d, Astray(t.transcript), Tail(I), Q)
  <2>1. Turned(p, t, Way(p))
    BY <1>1 DEF Turned, Onward
  <2> QED  BY <2>1, Turn
<1> HIDE DEF q, r, c, s, a, d, b, h, g, I, J, V, Q
<1>4. Channel(p, c, h, d, b, Astray(r.transcript), J, V)
  <2>1. ASSUME NEW lost, Channel(p, c, h, a, b, lost, J, V)
        PROVE  Channel(p, c, h, d, b, lost, J, V)
    BY <1>3, <2>1, SenderMoves
  <2>2. CASE Astray(r.transcript)
    <3>1. Channel(p, c, h, a, b, TRUE, J, V)
      BY <1>2, <2>2 DEF Channel
    <3> QED  BY <2>1, <2>2, <3>1 DEF Channel
  <2>3. CASE ~Astray(r.transcript)
    <3>1. Channel(p, c, h, a, b, FALSE, J, V)
      BY <1>2, <2>3 DEF Channel
    <3> QED  BY <2>1, <2>3, <3>1 DEF Channel
  <2> QED  BY <2>2, <2>3
<1>5. Channel(q, c, g, b, d, TRUE, Tail(I), Q)
  <2>1. CASE Astray(s.transcript)
    <3>1. Channel(q, c, g, b, a, TRUE, I, Q)
      BY <1>2, <2>1 DEF Channel
    <3> QED  BY <1>2, <1>3, <3>1, ChannelLoses
  <2>2. CASE ~Astray(s.transcript)
    <3>1. Channel(q, c, g, b, a, FALSE, I, Q)
      BY <1>2, <2>2 DEF Channel
    <3> QED  BY <1>2, <1>3, <3>1, ChannelLoses
  <2> QED  BY <2>1, <2>2
<1>6. Channel(q, c, g, b, d, Astray(t.transcript), Tail(I), Q)
  BY <1>5 DEF Channel
<1> QED  BY <1>4, <1>6

\* A side reads a message that is not of the script and stays where it is.
LEMMA TurnDrops ==
    ASSUME IInv, SInv, NEW p \in Peer, NEW t, Turns(p, t), Onward(ssl[p], t),
           wire'[p] \o t.flight = Way(p),
           Side(p, t, config), ~Astray(ssl[p].transcript), t.transcript = ssl[p].transcript,
           t.state # "ERROR", ssl[p].quic_input_data # <<>>,
           t.quic_input_data = Tail(ssl[p].quic_input_data),
           ~Scripted(ssl[p].quic_input_data[1]),
           Pos(p, t, config) = Pos(p, ssl[p], config),
           Hello(p, t, config) = Hello(p, ssl[p], config)
    PROVE  SInv'
<1> DEFINE q == Other(p)
           r == ssl[q]
           c == config
           s == ssl[p]
           a == Pos(p, s, c)
           b == Pos(q, r, c)
           g == Hello(q, r, c)
           I == s.quic_input_data
           Q == Way(q)
<1>1. Intake(t)
  BY IntakeKept, TurnFacts DEF Onward
<1>2. /\ Channel(q, c, g, b, a, FALSE, I, Q)
      /\ I \in Seq(Entries) /\ I # <<>> /\ ~Scripted(I[1])
  BY TurnFacts DEF Channel
<1>3. Channel(q, c, g, b, a, FALSE, Tail(I), Q)
  <2> HIDE DEF q, r, c, s, a, b, g, I, Q
  <2> QED  BY <1>2, ChannelDrops
<1>4. Channel(q, c, g, b, a, Astray(t.transcript), Tail(I), Q)
  BY <1>3 DEF Channel
<1>5. Turned(p, t, Way(p))
  BY <1>1, <1>4, TurnFacts DEF Turned, Onward
<1>6. faults = MaxFaults => Clean(t.quic_input_data) /\ Clean(Way(p))
  BY <1>2, CleanTail DEF SInv, Faultless
<1> QED  BY <1>5, <1>6, Turn

\* A side that is through sends a ticket.
LEMMA TurnTicket ==
    ASSUME IInv, SInv, NEW t, Turns("server", t), Onward(ssl["server"], t),
           Calm("server", ssl["server"], t, config), t.state # "ERROR",
           Pos("server", ssl["server"], config) = 12,
           NEW m \in Entries, m.msg.type = "NEWSESSION_TICKET", m.msg.has # {"stray"},
           m.level = ssl_encryption_application,
           wire'["server"] \o t.flight = Append(Way("server"), m)
    PROVE  SInv'
<1> DEFINE p == "server"
           q == Other(p)
           r == ssl[q]
           c == config
           s == ssl[p]
           a == Pos(p, s, c)
           b == Pos(q, r, c)
           h == Hello(p, s, c)
           J == r.quic_input_data
           V == Way(p)
           W == Append(V, m)
<1>0. p \in Peer
  BY DEF Peer
<1>1. Intake(t)
  BY <1>0, IntakeKept, TurnFacts DEF Onward, Calm
<1>2. Channel(p, c, h, a, b, Astray(r.transcript), J, V) /\ V \in Seq(Entries) /\ a = 12
  BY <1>0, TurnFacts
<1>3. Channel(p, c, h, a, b, Astray(r.transcript), J, W)
  <2> DEFINE k == Len(V) + 1
  <2> HIDE DEF q, r, c, s, a, b, h, J, V
  <2>1. Thinned(V, W, k) /\ Len(V) \in Nat /\ k \in 1 .. Len(W) /\ W[k] = m
    BY <1>2, ThinnedAppend
  <2>2. ~Scripted(W[k]) /\ Genuine(p, c, h, a, W[k])
    BY <1>2, <2>1 DEF Scripted, Genuine
  <2> HIDE DEF k, W
  <2>3. ASSUME NEW lost, Channel(p, c, h, a, b, lost, J, V)
        PROVE  Channel(p, c, h, a, b, lost, J, W)
    BY <2>1, <2>2, <2>3, ChannelAdds
  <2>4. CASE Astray(r.transcript)
    <3>1. Channel(p, c, h, a, b, TRUE, J, V)
      BY <1>2, <2>4 DEF Channel
    <3> QED  BY <2>3, <2>4, <3>1 DEF Channel
  <2>5. CASE ~Astray(r.transcript)
    <3>1. Channel(p, c, h, a, b, FALSE, J, V)
      BY <1>2, <2>5 DEF Channel
    <3> QED  BY <2>3, <2>5, <3>1 DEF Channel
  <2> QED  BY <2>4, <2>5
<1>4. Turned(p, t, W)
  BY <1>0, <1>1, <1>3, TurnFacts DEF Turned, Onward, Calm, Channel
<1>5. faults = MaxFaults => Clean(t.quic_input_data) /\ Clean(W) /\ ~Astray(t.transcript)
  <2>1. ASSUME faults = MaxFaults PROVE Clean(W)
    <3>1. Clean(V)
      BY <1>0, <2>1 DEF SInv, Faultless
    <3> QED  BY <1>2, <3>1, AppendTo DEF Clean
  <2> QED  BY <1>0, <2>1 DEF SInv, Faultless, Calm
<1> QED  BY <1>0, <1>4, <1>5, Turn

-----------------------------------------------------------------------------
(* The transport *)

\* The levels of what is sent: only the server sends at the application level.
LEMMA GenuineLevel ==
    ASSUME NEW p, NEW c, NEW h, NEW a, NEW m, Genuine(p, c, h, a, m)
    PROVE  /\ m.level \in {ssl_encryption_initial} \union Protected
           /\ m.level = ssl_encryption_application => p = "server"
<1>1. CASE Scripted(m)
  BY <1>1, GenuineNumber, Levels
     DEF Protected, LevelOf, ssl_encryption_application, ssl_encryption_initial,
         ssl_encryption_handshake
<1>2. CASE ~Scripted(m)
  BY <1>2 DEF Genuine, Scripted, Protected, ssl_encryption_application,
              ssl_encryption_initial, ssl_encryption_handshake
<1> QED  BY <1>1, <1>2

\* A queue without a message too many, and another that is not.
LEMMA CleanAppend ==
    ASSUME NEW q \in Seq(Entries), NEW e \in Entries, Clean(q), e.msg.has # {"stray"}
    PROVE  Clean(Append(q, e))
BY AppendTo DEF Clean

\* An endpoint is given an entry that it can decrypt and accepts.
LEMMA IntakeGiven ==
    ASSUME NEW s, NEW c, Data(s, c), DOMAIN s = Fields, Intake(s), NEW m \in Entries,
           CanDecrypt(s, m.level), Accepts(s, m.level),
           m.level \in {ssl_encryption_initial} \union Protected,
           s.server => m.level # ssl_encryption_application
    PROVE  Intake(Given(s, m))
<1> DEFINE t == Given(s, m)
           q == s.quic_input_data
           r == t.quic_input_data
<1>1. /\ t.quic_latest_level_received = m.level /\ t.secrets = s.secrets
      /\ t.server = s.server /\ r = Append(q, m)
  <2>1. t.quic_latest_level_received = m.level
    BY DEF Given, Fields
  <2>2. /\ Off(t, s, {"quic_input_data", "quic_latest_level_received", "fresh"})
        /\ r = Append(q, m)
    BY GivenFields
  <2> HIDE DEF t
  <2> QED  BY <2>1, <2>2 DEF Off, Fields
<1>2. \A l : CanDecrypt(t, l) <=> CanDecrypt(s, l)
  BY <1>1 DEF CanDecrypt
<1>3. q \in Seq(Entries) /\ \A i \in 1 .. Len(q) : q[i].level \in Int
  <2>1. q \in Seq(Entries)
    BY DEF Data
  <2> HIDE DEF q
  <2>2. \A i \in 1 .. Len(q) : q[i] \in Entries
    BY <2>1
  <2> QED  BY <2>1, <2>2 DEF Entries, Level
<1>4. m.level >= s.quic_latest_level_received
  BY DEF Accepts
<1>5. m.level \in Int /\ s.quic_latest_level_received \in Int
  BY DEF Intake, Protected, ssl_encryption_initial, ssl_encryption_handshake,
         ssl_encryption_application
<1>6. \A i \in 1 .. Len(q) : CanDecrypt(s, q[i].level) /\ q[i].level <= m.level
  BY <1>3, <1>4, <1>5 DEF Intake
<1>7. \A i \in 1 .. Len(r) : CanDecrypt(s, r[i].level) /\ r[i].level <= m.level
  BY <1>1, <1>3, <1>5, <1>6, AppendTo
<1> HIDE DEF t
<1>8. Intake(t)
  BY <1>1, <1>2, <1>7 DEF Intake
<1> QED  BY <1>8 DEF t

\* The transport hands a message over.
LEMMA Provided ==
    ASSUME IInv, SInv, NEW p \in Peer, Provide(p)
    PROVE  SInv'
<1> DEFINE q == Other(p)
           s == ssl[p]
           r == ssl[q]
           c == config
<1>0. q \in Peer /\ Other(q) = p /\ p # q /\ Peer = {p, q}
  BY DEF Peer, Other
<1>1. PICK i \in Deliverable(p) :
         /\ Accepts(s, wire[q][i].level)
         /\ ssl' = [ssl EXCEPT ![p] = Given(s, wire[q][i])]
         /\ wire' = [wire EXCEPT ![q] = RemoveAt(wire[q], i)]
         /\ UNCHANGED <<config, faults, requests>>
  BY DEF Provide, Given
<1> DEFINE m == wire[q][i]
           t == Given(s, m)
           w == wire[q]
           f == r.flight
           I == s.quic_input_data
           Q == Way(q)
           x == RemoveAt(w, i) \o f
<1>2. /\ i \in 1 .. Len(w) /\ CanDecrypt(s, m.level)
      /\ \A j \in 1 .. (i - 1) : w[j].level # m.level
  BY <1>1 DEF Deliverable
<1>3. /\ w \in Seq(Entries) /\ f \in Seq(Entries) /\ I \in Seq(Entries) /\ Q = w \o f
      /\ Data(s, c) /\ DOMAIN s = Fields /\ Side(p, s, c) /\ Intake(s) /\ Reported(s)
      /\ wire \in [Peer -> Seq(Entries)] /\ DOMAIN ssl = Peer
      /\ s.server <=> p = "server"
  <2>1. w \in Seq(Entries) /\ f \in Seq(Entries)
    BY <1>0, TurnFacts
  <2>2. Data(s, c) /\ DOMAIN s = Fields
    BY DEF IInv, Client, Server, Endpoint, Peer, Shape
  <2>3. s.server <=> p = "server"
    BY DEF IInv, Client, Server, Peer
  <2> QED  BY <2>1, <2>2, <2>3, TurnFacts DEF Way, IInv, Wires
<1>4. /\ Len(x) \in Nat /\ i \in 1 .. Len(Q) /\ Thinned(x, Q, i) /\ Q[i] = m
      /\ \A j \in 1 .. Len(Q) : j < i => Q[j].level # m.level
  <2>1. Len(x) \in Nat /\ i \in 1 .. Len(Q) /\ Thinned(x, Q, i) /\ Q[i] = m
    <3>1. w \in Seq(Entries) /\ f \in Seq(Entries) /\ Q = w \o f /\ i \in 1 .. Len(w)
      BY <1>2, <1>3
    <3> HIDE DEF w, f, Q
    <3>2. LET y == w \o f
          IN  Len(x) \in Nat /\ i \in 1 .. Len(y) /\ Thinned(x, y, i) /\ y[i] = w[i]
      BY <3>1, ThinnedRemove
    <3> QED  BY <3>1, <3>2 DEF w
  <2>2. ASSUME NEW j \in 1 .. Len(Q), j < i PROVE Q[j].level # m.level
    <3>1. j \in 1 .. (i - 1) /\ Q[j] = w[j]
      <4>1. w \in Seq(Entries) /\ f \in Seq(Entries) /\ Q = w \o f /\ i \in 1 .. Len(w)
        BY <1>2, <1>3
      <4> HIDE DEF w, f, Q
      <4> QED  BY <2>2, <4>1
    <3> QED  BY <1>2, <3>1
  <2> QED  BY <2>1, <2>2
<1>5. m \in Entries /\ Genuine(q, c, Hello(q, r, c), Pos(q, r, c), m)
  <2>1. Fit(q, c, Hello(q, r, c), Pos(q, r, c), Q)
    BY TurnFacts DEF Channel
  <2> QED  BY <1>2, <1>3, <1>4, <2>1 DEF Fit
<1>6. /\ m.level \in {ssl_encryption_initial} \union Protected
      /\ s.server => m.level # ssl_encryption_application
  BY <1>0, <1>3, <1>5, GenuineLevel
<1>7. Intake(t)
  BY <1>1, <1>2, <1>3, <1>5, <1>6, IntakeGiven
<1>8. /\ Off(t, s, {"quic_input_data", "quic_latest_level_received", "fresh"})
      /\ t.quic_input_data = Append(I, m)
  BY <1>3, GivenFields
<1>9. /\ ssl'[p] = t /\ ssl'[q] = r /\ wire'[p] = wire[p] /\ wire'[q] = RemoveAt(w, i)
  BY <1>0, <1>1, <1>3
<1> HIDE DEF t
<1>10. /\ t.state = s.state /\ t.hand_state = s.hand_state /\ t.done = s.done
       /\ t.flight = s.flight /\ t.transcript = s.transcript
  BY <1>8 DEF Off, Fields
<1>11. /\ Side(p, t, c) /\ Pos(p, t, c) = Pos(p, s, c) /\ Hello(p, t, c) = Hello(p, s, c)
  <2>1. Off(t, s, Fields \ ScriptFields)
    BY <1>8, OffMore DEF Fields, ScriptFields
  <2>2. /\ Side(p, s, c) /\ (t.state = "READING" => s.state = "READING")
        /\ (s.state = "ERROR" => t.state = "ERROR")
        /\ (t.state = "WRITING" => s.state = "WRITING")
    BY <1>3, <1>10
  <2> HIDE DEF s, c
  <2> QED  BY <2>1, <2>2, SamePlace
<1>12. Reported(t)
  BY <1>3, <1>10 DEF Reported
<1>13. /\ Way(p)' = Way(p) /\ Way(q)' = x
  BY <1>9, <1>10 DEF Way
<1> DEFINE h == Hello(q, r, c)
           a == Pos(q, r, c)
           b == Pos(p, s, c)
<1>14. Channel(q, c, h, a, b, Astray(s.transcript), Append(I, m), x)
  <2>0. Channel(q, c, h, a, b, Astray(s.transcript), I, Q)
    BY TurnFacts
  <2> HIDE DEF h, a, b, I, Q, x, m, s, r, q, c
  <2>1. ASSUME NEW lost, Channel(q, c, h, a, b, lost, I, Q)
        PROVE  Channel(q, c, h, a, b, lost, Append(I, m), x)
    BY <1>3, <1>4, <1>5, <2>1, ChannelGives
  <2>2. CASE Astray(s.transcript)
    <3>1. Channel(q, c, h, a, b, TRUE, I, Q)
      BY <2>0, <2>2 DEF Channel
    <3> QED  BY <2>1, <2>2, <3>1 DEF Channel
  <2>3. CASE ~Astray(s.transcript)
    <3>1. Channel(q, c, h, a, b, FALSE, I, Q)
      BY <2>0, <2>3 DEF Channel
    <3> QED  BY <2>1, <2>3, <3>1 DEF Channel
  <2> QED  BY <2>2, <2>3
<1>15. Linked(q, p)'
  BY <1>1, <1>8, <1>9, <1>10, <1>11, <1>13, <1>14 DEF Linked
<1>16. Linked(p, q)'
  <2>1. Linked(p, q)
    BY <1>0 DEF SInv
  <2> QED  BY <1>1, <1>9, <1>11, <1>13, <2>1 DEF Linked
<1>17. Faultless'
  <2>1. SUFFICES ASSUME faults = MaxFaults
                 PROVE  /\ t.state # "ERROR" /\ r.state # "ERROR" /\ Clean(t.quic_input_data)
                        /\ Clean(r.quic_input_data) /\ Clean(Way(p)) /\ Clean(x)
                        /\ ~Astray(t.transcript) /\ ~Astray(r.transcript)
    <3>1. /\ Peer = {p, q} /\ ssl'[p] = t /\ ssl'[q] = r /\ faults' = faults
          /\ Way(p)' = Way(p) /\ Way(q)' = x
      BY <1>0, <1>1, <1>9, <1>13
    <3> HIDE DEF q, r, s, x
    <3> QED  BY <3>1 DEF Faultless
  <2>2. /\ s.state # "ERROR" /\ r.state # "ERROR" /\ Clean(I) /\ Clean(r.quic_input_data)
        /\ Clean(Way(p)) /\ Clean(Q) /\ ~Astray(s.transcript) /\ ~Astray(r.transcript)
    BY <1>0, <2>1 DEF SInv, Faultless
  <2>3. m.msg.has # {"stray"}
    BY <1>4, <2>2 DEF Clean
  <2>4. Clean(Append(I, m))
    <3>1. I \in Seq(Entries) /\ m \in Entries /\ Clean(I)
      BY <1>3, <1>5, <2>2
    <3> HIDE DEF I, m
    <3> QED  BY <2>3, <3>1, CleanAppend
  <2>5. Clean(x)
    <3> HIDE DEF x, Q, m
    <3> QED  BY <1>4, <2>2 DEF Clean, Thinned
  <2> QED  BY <1>8, <1>10, <2>2, <2>4, <2>5
<1>18. \A y \in Peer : Side(y, ssl[y], config)' /\ Intake(ssl[y])' /\ Reported(ssl[y])'
  <2>1. Side(q, r, c) /\ Intake(r) /\ Reported(r)
    BY <1>0 DEF SInv
  <2> QED  BY <1>0, <1>1, <1>7, <1>9, <1>11, <1>12, <2>1 DEF t
<1>19. \A y \in Peer : Linked(y, Other(y))'
  BY <1>0, <1>15, <1>16
<1> QED  BY <1>17, <1>18, <1>19 DEF SInv

\* A message too many.
LEMMA Strayed ==
    ASSUME IInv, SInv, NEW p \in Peer, StrayMessage(p)
    PROVE  SInv'
<1>1. PICK type \in {"CERTIFICATE_REQUEST", "CERTIFICATE", "FINISHED"} :
         wire' = [wire EXCEPT ![p] = Append(@, [level |-> ssl_encryption_handshake,
                                                msg   |-> Msg(type, {"stray"})])]
  BY DEF StrayMessage
<1> DEFINE has == {"stray"}
           y == Msg(type, has)
           e == [level |-> ssl_encryption_handshake, msg |-> y]
           q == Other(p)
           s == ssl[p]
           r == ssl[q]
           c == config
           w == wire[p]
           f == s.flight
           V == Way(p)
           W == Append(w, e) \o f
<1>2. /\ y \in Messages /\ y.type = type /\ y.has = has /\ y.mac = <<>>
  <2>1. has \in SUBSET Facts /\ type \in Types
    BY DEF Facts, Types
  <2>2. y.mac = <<>>
    BY DEF Msg
  <2> HIDE DEF has
  <2> QED  BY <2>1, <2>2, BareMessage
<1> HIDE DEF y
<1>3. e \in Entries /\ e.msg = y /\ e.level = ssl_encryption_handshake
  BY <1>2 DEF Entries, Level, ssl_encryption_handshake
<1>4. wire' = [wire EXCEPT ![p] = Append(w, e)]
  BY <1>1 DEF y
<1> HIDE DEF e
<1>5. /\ w \in Seq(Entries) /\ f \in Seq(Entries) /\ V = w \o f
      /\ wire \in [Peer -> Seq(Entries)]
  BY TurnFacts DEF Way, IInv, Wires
<1>6. Turns(p, s) /\ W = wire'[p] \o s.flight /\ faults' # MaxFaults
  <2>1. /\ ssl' = ssl /\ config' = config /\ faults' = faults - 1 /\ faults > 0
        /\ faults \in 0 .. MaxFaults
    BY DEF StrayMessage, IInv
  <2>2. faults' # MaxFaults
    BY <2>1, BoundsAssumption
  <2>3. Other(p) # p /\ Other(p) \in Peer
    BY DEF Other, Peer
  <2> DEFINE v == Append(w, e)
  <2>4. wire' = [wire EXCEPT ![p] = v]
    BY <1>4
  <2> HIDE DEF v
  <2>5. wire'[p] = v /\ wire'[Other(p)] = wire[Other(p)]
    BY <1>5, <2>3, <2>4
  <2>6. Turns(p, s)
    BY <2>1, <2>2, <2>5 DEF Turns
  <2> QED  BY <2>2, <2>5, <2>6 DEF v
<1> DEFINE k == Len(w) + 1
           h == Hello(p, s, c)
           a == Pos(p, s, c)
           b == Pos(q, r, c)
           J == r.quic_input_data
<1>7. Len(V) \in Nat /\ k \in 1 .. Len(W) /\ Thinned(V, W, k) /\ W[k] = e
  <2> HIDE DEF w, f, V
  <2> QED  BY <1>3, <1>5, ThinnedInsert
<1>8. ~Scripted(W[k]) /\ Genuine(p, c, h, a, W[k])
  BY <1>2, <1>3, <1>7 DEF Scripted, Genuine
<1>9. Channel(p, c, h, a, b, Astray(r.transcript), J, V)
  BY TurnFacts
<1>10. Channel(p, c, h, a, b, Astray(r.transcript), J, W)
  <2> HIDE DEF q, s, r, c, w, f, V, W, k, h, a, b, J
  <2>1. ASSUME NEW lost, Channel(p, c, h, a, b, lost, J, V)
        PROVE  Channel(p, c, h, a, b, lost, J, W)
    BY <1>7, <1>8, <2>1, ChannelAdds
  <2>2. CASE Astray(r.transcript)
    <3>1. Channel(p, c, h, a, b, TRUE, J, V)
      BY <1>9, <2>2 DEF Channel
    <3> QED  BY <2>1, <2>2, <3>1 DEF Channel
  <2>3. CASE ~Astray(r.transcript)
    <3>1. Channel(p, c, h, a, b, FALSE, J, V)
      BY <1>9, <2>3 DEF Channel
    <3> QED  BY <2>1, <2>3, <3>1 DEF Channel
  <2> QED  BY <2>2, <2>3
<1> HIDE DEF W
<1>11. Turned(p, s, W)
  BY <1>10, TurnFacts DEF Turned
<1> QED  BY <1>6, <1>11, Turn

-----------------------------------------------------------------------------
(* Calm steps of a client *)

\* A client that has not failed and is lost is reading; one that writes, or has
\* not begun to read the server's flight, keeps to the script.
LEMMA ClientKeeps ==
    ASSUME NEW s, NEW c, Client(s, c), ClientSide(s, c), s.state # "ERROR"
    PROVE  /\ s.state # "READING" => ~Astray(s.transcript)
           /\ s.hand_state \notin {"CR_CERT_REQ", "CR_CERT", "CR_CERT_VRFY"} =>
                 ~Astray(s.transcript)
           /\ ~Astray(s.transcript) => ClientAt(s, c, ClientPos(s, c))
BY DEF ClientSide, ClientLost, ClientKept, Client, ClientPlace, ClientControl, At, ClientWrites

\* What a walk of the state machine changes.
Walks == {"state", "read_state", "hand_state", "write_state", "in_init", "call", "rwstate",
          "fresh", "done", "early_data_state", "cleanuphand", "ticket_expected"}

\* It changes nothing that was said.
LEMMA WalkFields ==
    ASSUME NEW s, NEW t, Off(t, s, Walks)
    PROVE  /\ t.server = s.server /\ t.quic_read_level = s.quic_read_level
           /\ t.quic_write_level = s.quic_write_level /\ t.secrets = s.secrets
           /\ t.transcript = s.transcript /\ t.msg = s.msg /\ t.clienthello = s.clienthello
           /\ t.hit = s.hit /\ t.hello_retry_request = s.hello_retry_request
           /\ t.cert_req = s.cert_req /\ t.early_data = s.early_data
           /\ t.quic_input_data = s.quic_input_data /\ t.flight = s.flight
           /\ t.quic_latest_level_received = s.quic_latest_level_received
BY DEF Off, Walks, Fields

\* A client that walks and stays at its number.
LEMMA ClientWalk ==
    ASSUME NEW s, NEW t, NEW c, Off(t, s, Walks), NEW n \in 0 .. 12, ClientAt(s, c, n),
           n = ClientPos(s, c), n = ClientPos(t, c),
           t.state = "READING" => ~Unsaid(t),
           t.hand_state \in {"CW_CERT", "CW_CERT_VRFY"} => Asks(c),
           t.hand_state = "CW_CERT_VRFY" => c.clientCert,
           \/ t.write_state # "SEND" \/ t.hand_state \notin ClientWrites
           \/ t.hand_state = s.hand_state /\ t.write_state = s.write_state,
           \/ t.early_data_state = s.early_data_state
           \/ n \in {1, 3} /\ t.early_data_state # "CONNECTING",
           t.read_state = s.read_state \/ n # 8
    PROVE  ClientAt(t, c, n)
<1>1. HelloOf(t, c) = HelloOf(s, c)
  BY WalkFields DEF HelloOf
<1>2. t.hand_state = s.hand_state => ClientSays(t, c) = ClientSays(s, c)
  BY <1>1 DEF ClientSays
<1>3. ClientLines(t, c, n)
  <2>1. t.hand_state \in ClientWrites /\ t.write_state = "SEND" =>
           t.msg = MessageOf(c, ClientSays(t, c))
    BY <1>2, WalkFields DEF ClientAt, ClientLines
  <2>2. /\ n \in Numbers(c) \union {0} /\ t.transcript = After(c, n)
        /\ t.hello_retry_request = IF c.hrr /\ n >= 2 THEN "PENDING" ELSE "NONE"
    BY WalkFields DEF ClientAt, ClientLines
  <2> QED  BY <2>1, <2>2 DEF ClientLines
<1>4. ClientChoices(t, c, n)
  <2>1. t.cert_req = IF n < 6 \/ ~Asks(c) THEN 0
                     ELSE IF n <= 8 /\ ~(n = 8 /\ t.read_state = "HEADER") THEN 1
                     ELSE IF c.clientCert THEN 1 ELSE 2
    <3>1. CASE n = 8
      BY <3>1, WalkFields DEF ClientAt, ClientChoices
    <3>2. CASE n # 8
      BY <3>2, WalkFields DEF ClientAt, ClientChoices
    <3> QED  BY <3>1, <3>2
  <2>2. /\ n = 0 => t.early_data_state = EarlyDataState(FALSE, c)
        /\ t.hello_retry_request = "PENDING" => t.early_data_state # "CONNECTING"
    BY WalkFields DEF ClientAt, ClientChoices, EarlyDataState
  <2>3. n >= 4 => t.hit = Resumes(c)
    BY WalkFields DEF ClientAt, ClientChoices
  <2>4. t.early_data = "ACCEPTED" <=> n >= 5 /\ Admits(c)
    BY WalkFields DEF ClientAt, ClientChoices
  <2>5. n = 8 /\ t.read_state = "POST_PROCESS" => Asks(c)
    BY DEF ClientAt, ClientChoices
  <2> QED  BY <2>1, <2>2, <2>3, <2>4, <2>5 DEF ClientChoices
<1>5. ClientLevels(t, n)
  BY WalkFields DEF ClientAt, ClientLevels
<1> QED  BY <1>3, <1>4, <1>5 DEF ClientAt

\* Such a step is calm.
LEMMA ClientCalmWalk ==
    ASSUME NEW s, NEW t, NEW c, Off(t, s, Walks),
           ~Astray(s.transcript), ClientAt(t, c, ClientPos(t, c)),
           ClientPos(t, c) = ClientPos(s, c)
    PROVE  Calm("client", s, t, c)
<1>1. HelloOf(t, c) = HelloOf(s, c)
  BY WalkFields DEF HelloOf
<1> QED  BY <1>1, WalkFields DEF Calm, Side, Pos, Hello, ClientSide, ClientKept

\* The application calls, or is answered.
LEMMA ClientCalls ==
    ASSUME NEW s, NEW t, NEW c, Client(s, c), ClientSide(s, c), s.state # "ERROR",
           Off(t, s, {"in_init", "early_data_state", "state", "write_state", "call", "fresh",
                      "rwstate", "done"}),
           t.state = "READING" => s.state = "READING" /\ t.write_state = s.write_state,
           t.write_state = s.write_state \/ s.hand_state \in {"BEFORE", "OK", "EARLY_DATA"},
           \/ t.early_data_state = s.early_data_state
           \/ s.hand_state = "EARLY_DATA" /\ t.early_data_state # "CONNECTING"
    PROVE  Calm("client", s, t, c)
<1>1. t.hand_state = s.hand_state /\ t.read_state = s.read_state /\ Off(t, s, Walks)
  BY OffMore DEF Off, Fields, Walks
<1>2. CASE Astray(s.transcript)
  <2>1. s.state = "READING" /\ s.hand_state \in {"CR_CERT_REQ", "CR_CERT", "CR_CERT_VRFY"}
    BY <1>2, ClientKeeps
  <2>2. ClientPos(t, c) = ClientPos(s, c) /\ HelloOf(t, c) = HelloOf(s, c)
    BY <1>1, <2>1, ClientPosValues, WalkFields DEF HelloOf
  <2>3. ClientLost(s, c) => ClientLost(t, c)
    BY <1>1, <2>1, WalkFields DEF ClientLost
  <2>4. ClientSide(t, c)
    BY <1>1, <1>2, <2>3, WalkFields DEF ClientSide
  <2> QED  BY <1>1, <2>2, <2>4, WalkFields DEF Calm, Side, Pos, Hello
<1>3. CASE ~Astray(s.transcript)
  <2> DEFINE n == ClientPos(s, c)
  <2>1. ClientAt(s, c, n) /\ n \in 0 .. 12
    BY <1>3, ClientKeeps, PosRange DEF Pos
  <2>2. HelloOf(t, c) = HelloOf(s, c)
    BY <1>1, WalkFields DEF HelloOf
  <2>3. ClientPos(t, c) = n
    <3>1. CASE t.write_state = s.write_state
      <4>1. Unsaid(t) <=> Unsaid(s)
        BY <3>1 DEF Unsaid
      <4> QED  BY <1>1, <2>2, <4>1, WalkFields DEF ClientPos
    <3>2. CASE s.hand_state \in {"BEFORE", "OK", "EARLY_DATA"}
      BY <1>1, <2>2, <3>2, ClientPosValues
    <3> QED  BY <3>1, <3>2
  <2>4. s.hand_state = "EARLY_DATA" => n \in {1, 3}
    BY ClientPosValues DEF HelloOf
  <2>5. t.state = "READING" => ~Unsaid(t)
    BY <2>1 DEF ClientAt, ClientLines, Unsaid
  <2>6. \/ t.write_state # "SEND" \/ t.hand_state \notin ClientWrites
        \/ t.hand_state = s.hand_state /\ t.write_state = s.write_state
    BY <1>1 DEF ClientWrites
  <2>7. /\ t.hand_state \in {"CW_CERT", "CW_CERT_VRFY"} => Asks(c)
        /\ t.hand_state = "CW_CERT_VRFY" => c.clientCert
    BY <1>1, <2>1 DEF ClientAt, ClientLines
  <2> HIDE DEF n
  <2>8. ClientAt(t, c, n)
    BY <1>1, <2>1, <2>3, <2>4, <2>5, <2>6, <2>7, ClientWalk DEF n
  <2> QED  BY <1>1, <1>3, <2>3, <2>8, ClientCalmWalk DEF n
<1> QED  BY <1>2, <1>3

\* SSL_do_handshake of a client.
LEMMA ClientHandshakes ==
    ASSUME NEW s, NEW c, Client(s, c), ClientSide(s, c), s.state # "ERROR"
    PROVE  Calm("client", s, Handshaking(s), c)
<1> DEFINE t == Handshaking(s)
           stopped == s.hand_state \in {"PENDING_EARLY_DATA_END", "EARLY_DATA"}
           runs == s.in_init \/ stopped
<1>1. /\ Off(t, s, {"in_init", "early_data_state", "state", "write_state", "call",
                    "fresh", "rwstate", "done"})
      /\ t.early_data_state = IF stopped /\ s.early_data_state = "WRITE_RETRY"
                              THEN "FINISHED_WRITING" ELSE s.early_data_state
      /\ runs /\ s.state \in {"UNINITED", "FINISHED"}
            => t.state = "WRITING" /\ t.write_state = "TRANSITION"
      /\ ~(runs /\ s.state \in {"UNINITED", "FINISHED"})
            => t.state = s.state /\ t.write_state = s.write_state
  BY DoHandshakeFields DEF Handshaking, Client, Endpoint, Shape
<1> HIDE DEF t
<1>2. /\ s.state \in {"UNINITED", "FINISHED"} => s.hand_state \in {"BEFORE", "OK", "EARLY_DATA"}
      /\ s.early_data_state = "WRITE_RETRY" => s.hand_state = "EARLY_DATA"
  BY DEF Client, ClientPlace, ClientControl, At
<1>3. /\ t.state = "READING" => s.state = "READING" /\ t.write_state = s.write_state
      /\ t.write_state = s.write_state \/ s.hand_state \in {"BEFORE", "OK", "EARLY_DATA"}
      /\ \/ t.early_data_state = s.early_data_state
         \/ s.hand_state = "EARLY_DATA" /\ t.early_data_state # "CONNECTING"
  BY <1>1, <1>2
<1>4. Calm("client", s, t, c)
  BY <1>1, <1>3, ClientCalls
<1> QED  BY <1>4 DEF t

\* SSL_process_quic_post_handshake of a client.
LEMMA ClientProcesses ==
    ASSUME NEW s, NEW c, Client(s, c), ClientSide(s, c), s.state # "ERROR"
    PROVE  Calm("client", s, Processing(s), c)
<1> DEFINE t == Processing(s)
<1>1. /\ Off(t, s, {"state", "write_state", "in_init", "call", "fresh"})
      /\ IF s.state \in {"UNINITED", "FINISHED"}
         THEN t.state = "WRITING" /\ t.write_state = "TRANSITION"
         ELSE t.state = s.state /\ t.write_state = s.write_state
  BY ProcessingFields DEF Client, Endpoint, Shape
<1> HIDE DEF t
<1>2. s.state \in {"UNINITED", "FINISHED"} => s.hand_state \in {"BEFORE", "OK", "EARLY_DATA"}
  BY DEF Client, ClientPlace, ClientControl, At
<1>3. /\ t.state = "READING" => s.state = "READING" /\ t.write_state = s.write_state
      /\ t.write_state = s.write_state \/ s.hand_state \in {"BEFORE", "OK", "EARLY_DATA"}
      /\ t.early_data_state = s.early_data_state
      /\ Off(t, s, {"in_init", "early_data_state", "state", "write_state", "call", "fresh",
                    "rwstate", "done"})
  BY <1>1, <1>2, OffMore DEF Off, Fields
<1>4. Calm("client", s, t, c)
  BY <1>3, ClientCalls
<1> QED  BY <1>4 DEF t

\* The end of a call of a client.
LEMMA ClientRests ==
    ASSUME NEW s, NEW c, Client(s, c), ClientSide(s, c), s.call # "none", s.state = "FINISHED"
    PROVE  Calm("client", s, Resting(s), c)
<1> DEFINE t == Resting(s)
           post == s.call = "SSL_process_quic_post_handshake"
           over == ~post /\ s.early_data_state \notin {"ACCEPTING", "CONNECTING"}
<1>1. /\ Off(t, s, {"state", "write_state", "in_init", "call", "rwstate", "fresh",
                    "early_data_state", "done"})
      /\ t.state \in {"FINISHED", "WRITING"}
      /\ t.early_data_state = IF post \/ over THEN s.early_data_state
                              ELSE IF s.early_data_state = "ACCEPTING" THEN "FINISHED_READING"
                              ELSE "WRITE_RETRY"
  BY RestingFields DEF Client, Endpoint
<1> HIDE DEF t
<1>2. /\ s.hand_state \in {"OK", "EARLY_DATA"}
      /\ s.early_data_state = "CONNECTING" => s.hand_state = "EARLY_DATA"
      /\ s.early_data_state # "ACCEPTING"
  BY DEF Client, ClientPlace, ClientControl, At
<1>3. Calm("client", s, t, c)
  BY <1>1, <1>2, ClientCalls
<1> QED  BY <1>3 DEF t

\* A call returns, fails, or stops before the end; nothing was said.
LEMMA Returns ==
    ASSUME NEW p, NEW s, NEW c, NEW why, Shape(s), Side(p, s, c)
    PROVE  /\ s.state # "ERROR" => Calm(p, s, Return(s, why), c)
           /\ Calm(p, s, Return(SSLfatal(s), why), c)
           /\ s.state # "ERROR" => Calm(p, s, Stopping(s), c)
<1>1. DOMAIN s = Fields /\ s.in_init \in BOOLEAN
  BY DEF Shape, Flags
<1>2. ASSUME s.state # "ERROR" PROVE Calm(p, s, Return(s, why), c)
  <2> DEFINE t == Return(s, why)
  <2>1. Off(t, s, {"in_init", "call", "rwstate"})
    BY <1>1, ReturnFields
  <2> HIDE DEF t
  <2>2. t.state = s.state
    BY <2>1 DEF Off, Fields
  <2>3. Calm(p, s, t, c)
    BY <2>1, <2>2, CalmPlace DEF Fields, ScriptFields
  <2> QED  BY <2>3 DEF t
<1>3. Calm(p, s, Return(SSLfatal(s), why), c)
  <2> DEFINE t == Return(SSLfatal(s), why)
  <2>1. Off(t, s, {"state", "in_init", "call", "rwstate"}) /\ t.state = "ERROR"
    BY <1>1, FatalFields
  <2> HIDE DEF t
  <2>2. Calm(p, s, t, c)
    BY <2>1, CalmPlace DEF Fields, ScriptFields
  <2> QED  BY <2>2 DEF t
<1>4. ASSUME s.state # "ERROR" PROVE Calm(p, s, Stopping(s), c)
  <2> DEFINE t == Stopping(s)
  <2>1. Off(t, s, {"cleanuphand", "ticket_expected", "in_init", "state"}) /\ t.state = "FINISHED"
    BY <1>1, StoppingFields
  <2> HIDE DEF t
  <2>2. Calm(p, s, t, c)
    BY <1>4, <2>1, CalmPlace DEF Fields, ScriptFields
  <2> QED  BY <2>2 DEF t
<1> QED  BY <1>2, <1>3, <1>4

\* A client goes on to the next state: every state is in the table.
LEMMA ClientWritesOn ==
    ASSUME NEW s, NEW c, Client(s, c), ClientSide(s, c), At(s, "WRITING", "TRANSITION")
    PROVE  /\ ClientWriteTransition(s) # "ERROR"
           /\ Calm("client", s, WritingOn(s, ClientWriteTransition(s)), c)
<1> DEFINE next == ClientWriteTransition(s)
           t == WritingOn(s, next)
           n == ClientPos(s, c)
<1>1. /\ s.state = "WRITING" /\ s.write_state = "TRANSITION" /\ ~Astray(s.transcript)
      /\ ClientAt(s, c, n) /\ ClientKeys(s) /\ DOMAIN s = Fields
      /\ s.hand_state \in ClientWrites \union
             {"BEFORE", "CR_SRVR_HELLO", "EARLY_DATA", "CR_FINISHED",
              "PENDING_EARLY_DATA_END", "CW_END_OF_EARLY_DATA", "OK", "CR_SESSION_TICKET"}
  <2>1. s.state = "WRITING" /\ s.write_state = "TRANSITION"
    BY DEF At
  <2>2. ClientControl(s) /\ ClientKeys(s) /\ DOMAIN s = Fields
    BY <2>1 DEF Client, ClientPlace, Endpoint, Shape
  <2> QED  BY <2>1, <2>2, ClientKeeps DEF ClientControl, At
<1>2. ~Unsaid(s)
  BY <1>1 DEF Unsaid
<1>3. \/ s.hand_state = "BEFORE" /\ next = "CW_CLNT_HELLO"
      \/ s.hand_state = "CW_CLNT_HELLO" /\ next \in {"EARLY_DATA", "FINISHED"}
      \/ s.hand_state = "CR_SRVR_HELLO" /\ next = "CW_CLNT_HELLO"
      \/ s.hand_state \in {"EARLY_DATA", "OK"} /\ next = "FINISHED"
      \/ /\ s.hand_state \in {"CR_FINISHED", "PENDING_EARLY_DATA_END", "CW_END_OF_EARLY_DATA"}
         /\ \/ next \in {"PENDING_EARLY_DATA_END", "CW_END_OF_EARLY_DATA"}
            \/ next = "CW_FINISHED" /\ s.cert_req = 0
            \/ next = "CW_CERT" /\ s.cert_req # 0
      \/ s.hand_state = "CW_CERT" /\ next = IF s.cert_req = 1 THEN "CW_CERT_VRFY" ELSE "CW_FINISHED"
      \/ s.hand_state = "CW_CERT_VRFY" /\ next = "CW_FINISHED"
      \/ s.hand_state \in {"CW_FINISHED", "CR_SESSION_TICKET"} /\ next = "OK"
  BY <1>1 DEF ClientWriteTransition, CertOrFinished, ClientWrites
<1>4. next # "ERROR"
  BY <1>3
<1>5. /\ Off(t, s, {"state", "read_state", "hand_state", "write_state"})
      /\ IF next = "FINISHED"
         THEN /\ t.state = "READING" /\ t.read_state = "HEADER"
              /\ t.hand_state = s.hand_state /\ t.write_state = s.write_state
         ELSE /\ t.state = s.state /\ t.read_state = s.read_state
              /\ t.hand_state = next /\ t.write_state = "PRE_WORK"
  BY <1>1, WritingOnFields
<1> HIDE DEF t, next
<1>6. Off(t, s, Walks) /\ t.early_data_state = s.early_data_state
  BY <1>5, OffMore DEF Walks, Off, Fields
<1>7. /\ n \in 0 .. 12 /\ s.hello_retry_request = IF c.hrr /\ n >= 2 THEN "PENDING" ELSE "NONE"
      /\ s.hand_state \in {"CW_CERT", "CW_CERT_VRFY"} => Asks(c)
      /\ s.hand_state = "CW_CERT_VRFY" => c.clientCert
      /\ n \in Numbers(c) \union {0}
  BY <1>1, PosRange DEF ClientAt, ClientLines, Pos
<1>8. /\ HelloOf(t, c) = HelloOf(s, c)
      /\ Unsaid(t) <=> next # "FINISHED"
  BY <1>1, <1>2, <1>5, <1>6, WalkFields DEF HelloOf, Unsaid
<1>9. n >= 9 => s.cert_req = IF ~Asks(c) THEN 0 ELSE IF c.clientCert THEN 1 ELSE 2
  BY <1>1, <1>7 DEF ClientAt, ClientChoices
<1>10. /\ t.hand_state = "CW_CERT" => Asks(c)
       /\ t.hand_state = "CW_CERT_VRFY" => Asks(c) /\ c.clientCert
       /\ t.hand_state = "CW_FINISHED" /\ Asks(c) /\ s.hand_state # "CW_FINISHED" =>
             s.hand_state = IF c.clientCert THEN "CW_CERT_VRFY" ELSE "CW_CERT"
  <2>1. s.hand_state \in {"CR_FINISHED", "PENDING_EARLY_DATA_END", "CW_END_OF_EARLY_DATA"} =>
           n = 9
    BY ClientPosValues
  <2>2. s.hand_state = "CW_CERT" => n = 10
    BY <1>2, ClientPosValues
  <2> QED  BY <1>3, <1>5, <1>7, <1>9, <2>1, <2>2
<1>11. ClientPos(t, c) = n
  <2>1. CASE s.hand_state = "BEFORE"
    <3>1. n = 0 /\ t.hand_state = "CW_CLNT_HELLO" /\ Unsaid(t)
      BY <1>3, <1>5, <1>8, <2>1, ClientPosValues
    <3>2. t.hello_retry_request = "NONE"
      BY <1>6, <1>7, <3>1, WalkFields
    <3> QED  BY <3>1, <3>2, ClientPosValues
  <2>2. CASE s.hand_state = "CR_SRVR_HELLO"
    <3>1. s.quic_read_level = ssl_encryption_initial
      BY <1>1, <2>2 DEF ClientKeys, ClientHellos
    <3>2. n = 2 /\ t.hand_state = "CW_CLNT_HELLO" /\ Unsaid(t)
      BY <1>3, <1>5, <1>8, <2>2, <3>1, ClientPosValues
    <3>3. c.hrr /\ t.hello_retry_request = "PENDING"
      BY <1>6, <1>7, <3>2, WalkFields, NumbersFacts
    <3> QED  BY <3>2, <3>3, ClientPosValues
  <2>3. CASE s.hand_state \in {"CW_CLNT_HELLO", "EARLY_DATA", "OK"}
    BY <1>2, <1>3, <1>5, <1>8, <2>3, ClientPosValues
  <2>4. CASE s.hand_state \in {"CR_FINISHED", "PENDING_EARLY_DATA_END", "CW_END_OF_EARLY_DATA"}
    BY <1>2, <1>3, <1>5, <1>8, <1>10, <2>4, ClientPosValues
  <2>5. CASE s.hand_state \in {"CW_CERT", "CW_CERT_VRFY", "CW_FINISHED", "CR_SESSION_TICKET"}
    BY <1>2, <1>3, <1>5, <1>7, <1>8, <1>10, <2>5, ClientPosValues
  <2> QED  BY <1>1, <2>1, <2>2, <2>3, <2>4, <2>5 DEF ClientWrites
<1>12. t.state = "READING" => ~Unsaid(t)
  BY <1>1, <1>5, <1>8
<1>13. t.read_state = s.read_state \/ n # 8
  BY <1>2, <1>3, <1>5, <1>7, ClientPosValues DEF HelloOf
<1>14. t.write_state # "SEND"
  BY <1>1, <1>5
<1> HIDE DEF n
<1>15. ClientAt(t, c, n)
  BY <1>1, <1>6, <1>7, <1>10, <1>11, <1>12, <1>13, <1>14, ClientWalk DEF n
<1>16. Calm("client", s, t, c)
  BY <1>1, <1>6, <1>11, <1>15, ClientCalmWalk DEF n
<1> QED  BY <1>4, <1>16 DEF t, next

\* A client that has nothing to send.
LEMMA ClientStaysSilent ==
    ASSUME NEW s, NEW c, Client(s, c), ClientSide(s, c), At(s, "WRITING", "PRE_WORK"),
           s.hand_state \in NothingToSend
    PROVE  Calm("client", s, Silent(s), c)
<1> DEFINE t == Silent(s)
           n == ClientPos(s, c)
<1>1. s.state = "WRITING" /\ s.write_state = "PRE_WORK" /\ DOMAIN s = Fields
  BY DEF At, Client, Endpoint, Shape
<1>2. ~Astray(s.transcript) /\ ClientAt(s, c, n) /\ n \in 0 .. 12
  BY <1>1, ClientKeeps, PosRange DEF Pos
<1>3. Off(t, s, {"write_state"}) /\ t.write_state = "POST_WORK"
  BY <1>1, SilentFields
<1> HIDE DEF t
<1>4. /\ Off(t, s, Walks) /\ t.hand_state = s.hand_state /\ t.state = s.state
      /\ t.early_data_state = s.early_data_state /\ t.read_state = s.read_state
  BY <1>3, OffMore DEF Walks, Off, Fields
<1>5. ClientPos(t, c) = n
  BY <1>4, ClientPosValues, WalkFields DEF NothingToSend, HelloOf
<1>6. t.hand_state \notin {"CW_CERT", "CW_CERT_VRFY"}
  BY <1>4 DEF NothingToSend
<1> HIDE DEF n
<1>7. ClientAt(t, c, n)
  BY <1>1, <1>2, <1>3, <1>4, <1>5, <1>6, ClientWalk DEF n
<1>8. Calm("client", s, t, c)
  BY <1>2, <1>4, <1>5, <1>7, ClientCalmWalk DEF n
<1> QED  BY <1>8 DEF t

\* A client has checked the server's certificate, or found one of its own.
LEMMA ClientChecks ==
    ASSUME NEW s, NEW c, Client(s, c), ClientSide(s, c), At(s, "READING", "POST_PROCESS")
    PROVE  Calm("client", s, PostProcessMessage(s, c), c)
<1> DEFINE t == PostProcessMessage(s, c)
           n == ClientPos(s, c)
<1>1. /\ s.state = "READING" /\ s.read_state = "POST_PROCESS" /\ DOMAIN s = Fields
      /\ s.hand_state \in {"CR_CERT", "CR_CERT_VRFY"}
  BY DEF At, Client, ClientPlace, ClientControl, Endpoint, Shape
<1>2. /\ Off(t, s, {"read_state", "cert_req"}) /\ t.read_state = "HEADER"
      /\ t.cert_req = IF s.hand_state = "CR_CERT" THEN s.cert_req
                      ELSE IF c.clientCert THEN 1 ELSE 2
  BY <1>1 DEF PostProcessMessage, CONTINUE_READING, Off, Fields
<1> HIDE DEF t
<1>3. /\ t.hand_state = s.hand_state /\ t.write_state = s.write_state /\ t.state = s.state
      /\ t.quic_read_level = s.quic_read_level /\ t.quic_write_level = s.quic_write_level
      /\ t.secrets = s.secrets /\ t.transcript = s.transcript /\ t.msg = s.msg
      /\ t.hit = s.hit /\ t.hello_retry_request = s.hello_retry_request
      /\ t.early_data_state = s.early_data_state /\ t.early_data = s.early_data
      /\ t.quic_input_data = s.quic_input_data
      /\ t.quic_latest_level_received = s.quic_latest_level_received
  BY <1>2 DEF Off, Fields
<1>4. ClientPos(t, c) = n /\ HelloOf(t, c) = HelloOf(s, c)
  BY <1>1, <1>3, ClientPosValues DEF HelloOf
<1>5. ClientSide(t, c)
  <2>1. CASE Astray(s.transcript)
    BY <1>3, <2>1 DEF ClientSide, ClientLost
  <2>2. CASE ~Astray(s.transcript)
    <3>1. ClientAt(s, c, n) /\ n = IF s.hand_state = "CR_CERT" THEN 7 ELSE 8
      BY <1>1, <2>2, ClientKeeps, ClientPosValues
    <3>2. Unsaid(t) <=> Unsaid(s)
      BY <1>3 DEF Unsaid
    <3> HIDE DEF n
    <3>3. ClientLines(t, c, n)
      BY <1>1, <1>3, <3>1, <3>2 DEF ClientAt, ClientLines, ClientWrites
    <3>4. ClientLevels(t, n)
      BY <1>3, <3>1 DEF ClientAt, ClientLevels
    <3>5. ClientChoices(t, c, n)
      <4>1. n \in Numbers(c)
        BY <3>1 DEF ClientAt, ClientLines
      <4>2. t.cert_req = IF n < 6 \/ ~Asks(c) THEN 0
                         ELSE IF n <= 8 /\ ~(n = 8 /\ t.read_state = "HEADER") THEN 1
                         ELSE IF c.clientCert THEN 1 ELSE 2
        BY <1>1, <1>2, <3>1 DEF ClientAt, ClientChoices
      <4>3. n # 0 /\ n >= 4 /\ n >= 5 /\ s.hit = Resumes(c)
        BY <3>1 DEF ClientAt, ClientChoices
      <4>4. s.early_data = "ACCEPTED" <=> n >= 5 /\ Admits(c)
        BY <3>1 DEF ClientAt, ClientChoices
      <4>5. s.hello_retry_request = "PENDING" => s.early_data_state # "CONNECTING"
        BY <3>1 DEF ClientAt, ClientChoices
      <4> QED  BY <1>2, <1>3, <4>2, <4>3, <4>4, <4>5 DEF ClientChoices
    <3> QED  BY <1>3, <1>4, <2>2, <3>3, <3>4, <3>5 DEF ClientSide, ClientKept, ClientAt, n
  <2> QED  BY <2>1, <2>2
<1>6. Calm("client", s, t, c)
  BY <1>3, <1>4, <1>5 DEF Calm, Side, Pos, Hello
<1> QED  BY <1>6 DEF t

\* The messages of the script, as they are constructed.
LEMMA MessageMade ==
    ASSUME NEW c
    PROVE  /\ MessageOf(c, 1) = Msg("CLIENT_HELLO", HasOf(c, 1))
           /\ MessageOf(c, 2) = Msg("SERVER_HELLO", HasOf(c, 2))
           /\ MessageOf(c, 3) = Msg("CLIENT_HELLO", HasOf(c, 3))
           /\ MessageOf(c, 4) = Msg("SERVER_HELLO", HasOf(c, 4))
           /\ MessageOf(c, 5) = Msg("ENCRYPTED_EXTENSIONS", HasOf(c, 5))
           /\ MessageOf(c, 6) = Msg("CERTIFICATE_REQUEST", HasOf(c, 6))
           /\ MessageOf(c, 7) = Msg("CERTIFICATE", HasOf(c, 7))
           /\ MessageOf(c, 8) = Msg("CERTIFICATE_VERIFY", HasOf(c, 8))
           /\ MessageOf(c, 10) = Msg("CERTIFICATE", HasOf(c, 10))
           /\ MessageOf(c, 11) = Msg("CERTIFICATE_VERIFY", HasOf(c, 11))
<1>1. \A n \in 1 .. 12 : n \notin {9, 12} => MacOf(c, n) = <<>>
  BY DEF MacOf
<1>2. /\ TypeOf(1) = "CLIENT_HELLO" /\ TypeOf(2) = "SERVER_HELLO" /\ TypeOf(3) = "CLIENT_HELLO"
      /\ TypeOf(4) = "SERVER_HELLO" /\ TypeOf(5) = "ENCRYPTED_EXTENSIONS"
      /\ TypeOf(6) = "CERTIFICATE_REQUEST" /\ TypeOf(7) = "CERTIFICATE"
      /\ TypeOf(8) = "CERTIFICATE_VERIFY" /\ TypeOf(10) = "CERTIFICATE"
      /\ TypeOf(11) = "CERTIFICATE_VERIFY"
  BY TypeFacts
<1>3. \A n \in 1 .. 12 : n \notin {9, 12} => MessageOf(c, n) = Msg(TypeOf(n), HasOf(c, n))
  BY <1>1 DEF MessageOf, Msg
<1> QED  BY <1>2, <1>3

\* A Finished, and those of the script.
Signed(mac) == [Msg("FINISHED", {}) EXCEPT !.mac = mac]

\* They authenticate what was said.
LEMMA FinishedMade ==
    ASSUME NEW c, NEW n \in {9, 12}
    PROVE  MessageOf(c, n) = Signed(MacOf(c, n))
<1>1. TypeOf(n) = "FINISHED"
  BY DEF TypeOf
<1>2. HasOf(c, n) = {}
  BY HasValues
<1>3. ASSUME NEW x, NEW y, NEW h, NEW e
      PROVE  [[type |-> y, has |-> h, mac |-> e] EXCEPT !.mac = x] = [type |-> y, has |-> h, mac |-> x]
  OBVIOUS
<1>4. [Msg("FINISHED", {}) EXCEPT !.mac = MacOf(c, n)] =
         [type |-> "FINISHED", has |-> {}, mac |-> MacOf(c, n)]
  BY <1>3, Zenon DEF Msg
<1> QED  BY <1>1, <1>2, <1>4 DEF MessageOf, Signed

\* What a client constructs.
LEMMA ClientWords ==
    ASSUME NEW s, DOMAIN s = Fields, NEW c, s.server = FALSE, s.hand_state \in ClientWrites
    PROVE  LET t == ConstructMessage(s, c)
               early == s.early_data_state = "CONNECTING" /\ c.clientEarly = "on"
           IN  /\ s.hand_state = "CW_CLNT_HELLO" =>
                     /\ early => t.msg = Msg("CLIENT_HELLO", Psk(c) \union {"early"})
                     /\ ~early => t.msg = Msg("CLIENT_HELLO", Psk(c))
                     /\ t.early_data \in {s.early_data, "REJECTED"}
                     /\ t.quic_write_level = s.quic_write_level
               /\ s.hand_state # "CW_CLNT_HELLO" => t.early_data = s.early_data
               /\ s.hand_state = "CW_CERT" =>
                     /\ s.cert_req = 2 => t.msg = Msg("CERTIFICATE", {"empty"})
                     /\ s.cert_req # 2 => t.msg = Msg("CERTIFICATE", {})
               /\ s.hand_state = "CW_CERT_VRFY" =>
                     t.msg = Msg("CERTIFICATE_VERIFY", {})
                     /\ t.quic_write_level = s.quic_write_level
               /\ s.hand_state = "CW_FINISHED" =>
                     t.msg = Signed(s.transcript)
               /\ s.hand_state = "CW_CERT" =>
                     t.quic_write_level = IF s.early_data_state # "NONE"
                                          THEN ssl_encryption_handshake ELSE s.quic_write_level
               /\ s.hand_state = "CW_FINISHED" /\ s.cert_req = 0 =>
                     t.quic_write_level = IF s.early_data_state # "NONE"
                                          THEN ssl_encryption_handshake ELSE s.quic_write_level
               /\ s.hand_state = "CW_FINISHED" /\ s.cert_req # 0 =>
                     t.quic_write_level = s.quic_write_level
<1> DEFINE t == ConstructMessage(s, c)
           early == s.early_data_state = "CONNECTING" /\ c.clientEarly = "on"
           w == DeferredWriteKeys(s)
<1>1. /\ DOMAIN w = Fields /\ w.early_data = s.early_data
      /\ w.quic_write_level = IF s.early_data_state # "NONE"
                              THEN ssl_encryption_handshake ELSE s.quic_write_level
  BY DEF DeferredWriteKeys, quic_change_cipher_state, ssl_encryption_handshake,
         ssl_encryption_early_data, Fields
<1>2. CASE s.hand_state = "CW_CLNT_HELLO"
  <2> DEFINE has == {x \in {"psk", "early"} : IF x = "psk" THEN c.session ELSE early}
             m == Msg("CLIENT_HELLO", has)
             v == [s EXCEPT !.max_early_data = early, !.msg = m]
             u == IF early THEN [v EXCEPT !.early_data = "REJECTED"] ELSE v
  <2>1. t = u
    BY <1>2 DEF ConstructMessage, ConstructClientHello
  <2> HIDE DEF m, early
  <2>2. u.msg = m /\ u.early_data \in {s.early_data, "REJECTED"} /\ u.quic_write_level = s.quic_write_level
    BY DEF Fields
  <2>3. has = IF early THEN Psk(c) \union {"early"} ELSE Psk(c)
    BY DEF Psk
  <2> HIDE DEF has
  <2>4. t.msg = Msg("CLIENT_HELLO", has)
    BY <2>1, <2>2 DEF m
  <2>5. CASE early
    <3>1. t.msg = Msg("CLIENT_HELLO", Psk(c) \union {"early"})
      BY <2>3, <2>4, <2>5
    <3> QED  BY <1>2, <2>1, <2>2, <2>5, <3>1 DEF early
  <2>6. CASE ~early
    <3>1. t.msg = Msg("CLIENT_HELLO", Psk(c))
      BY <2>3, <2>4, <2>6
    <3> QED  BY <1>2, <2>1, <2>2, <2>6, <3>1 DEF early
  <2> QED  BY <2>5, <2>6
<1>3. CASE s.hand_state = "CW_CERT"
  <2> DEFINE m == Msg("CERTIFICATE", IF s.cert_req = 2 THEN {"empty"} ELSE {})
  <2>1. t = [w EXCEPT !.msg = m]
    BY <1>3 DEF ConstructMessage
  <2> HIDE DEF m, w, t
  <2>2. t.msg = m /\ t.early_data = s.early_data /\ t.quic_write_level = w.quic_write_level
    BY <1>1, <2>1 DEF Fields
  <2>3. /\ s.cert_req = 2 => m = Msg("CERTIFICATE", {"empty"})
        /\ s.cert_req # 2 => m = Msg("CERTIFICATE", {})
    BY DEF m
  <2> QED  BY <1>1, <1>3, <2>2, <2>3 DEF t
<1>4. CASE s.hand_state = "CW_CERT_VRFY"
  <2> DEFINE m == Msg("CERTIFICATE_VERIFY", {})
  <2>1. t = [s EXCEPT !.msg = m]
    BY <1>4 DEF ConstructMessage
  <2> HIDE DEF m, t
  <2>2. t.msg = m /\ t.early_data = s.early_data /\ t.quic_write_level = s.quic_write_level
    BY <2>1 DEF Fields
  <2> QED  BY <1>4, <2>2 DEF m, t
<1>5. CASE s.hand_state = "CW_FINISHED"
  <2> DEFINE m == [Msg("FINISHED", {}) EXCEPT !.mac = s.transcript]
             v == IF ~s.server /\ s.cert_req = 0 THEN w ELSE s
  <2>1. t = [v EXCEPT !.cleanuphand = @ \/ ~s.server, !.msg = m]
    BY <1>5 DEF ConstructMessage, ConstructFinished
  <2> HIDE DEF m, w, t
  <2>2. t.msg = m /\ t.early_data = s.early_data /\ t.quic_write_level = v.quic_write_level
    BY <1>1, <2>1 DEF Fields
  <2>3. m = Signed(s.transcript)
    BY DEF m, Signed
  <2> QED  BY <1>1, <1>5, <2>2, <2>3 DEF t
<1> QED  BY <1>2, <1>3, <1>4, <1>5 DEF ClientWrites

\* It is the message of the script.
LEMMA ClientWordsFit ==
    ASSUME NEW s, NEW c, NEW n, DOMAIN s = Fields, s.server = FALSE, s.hand_state \in ClientWrites,
           n = ClientPos(s, c), ClientAt(s, c, n), s.write_state = "PRE_WORK"
    PROVE  /\ ConstructMessage(s, c).msg = MessageOf(c, ClientSays(s, c))
           /\ n >= 4 => ConstructMessage(s, c).quic_write_level = ssl_encryption_handshake
<1> DEFINE u == ConstructMessage(s, c)
           early == s.early_data_state = "CONNECTING" /\ c.clientEarly = "on"
<1>1. Unsaid(s)
  BY DEF Unsaid
<1>2. /\ n \in Numbers(c) \union {0} /\ s.transcript = After(c, n) /\ n \in 0 .. 12
      /\ s.hello_retry_request = IF c.hrr /\ n >= 2 THEN "PENDING" ELSE "NONE"
      /\ s.hand_state \in {"CW_CERT", "CW_CERT_VRFY"} => Asks(c)
      /\ s.hand_state = "CW_CERT_VRFY" => c.clientCert
  BY PosRange DEF ClientAt, ClientLines, Pos
<1>3. /\ n = 0 => s.early_data_state = IF c.clientEarly = "off" THEN "NONE" ELSE "CONNECTING"
      /\ s.hello_retry_request = "PENDING" => s.early_data_state # "CONNECTING"
      /\ n >= 9 => s.cert_req = IF ~Asks(c) THEN 0 ELSE IF c.clientCert THEN 1 ELSE 2
  BY <1>2 DEF ClientAt, ClientChoices, EarlyDataState
<1>4. /\ n >= 4 /\ n < 12 /\ s.early_data_state = "NONE" =>
            s.quic_write_level = ssl_encryption_handshake
      /\ n >= 10 /\ n < 12 => s.quic_write_level = ssl_encryption_handshake
  BY <1>2 DEF ClientAt, ClientLevels
<1>5. CASE s.hand_state = "CW_CLNT_HELLO"
  <2>1. n = IF c.hrr /\ s.hello_retry_request = "PENDING" THEN 2 ELSE 0
    BY <1>1, <1>5, ClientPosValues
  <2>2. /\ early => u.msg = Msg("CLIENT_HELLO", Psk(c) \union {"early"})
        /\ ~early => u.msg = Msg("CLIENT_HELLO", Psk(c))
    BY <1>5, ClientWords
  <2>3. ClientSays(s, c) = HelloOf(s, c)
    BY <1>5 DEF ClientSays
  <2>4. CASE n = 0
    <3>1. s.hello_retry_request = "NONE" /\ early = (c.clientEarly = "on")
      BY <1>2, <1>3, <2>4
    <3> DEFINE i == IF c.hrr THEN 1 ELSE 3
    <3>2. HelloOf(s, c) = i
      BY <3>1 DEF HelloOf
    <3>3. /\ early => HasOf(c, i) = Psk(c) \union {"early"}
          /\ ~early => HasOf(c, i) = Psk(c)
      BY <3>1, HasValues DEF Early
    <3>4. MessageOf(c, i) = Msg("CLIENT_HELLO", HasOf(c, i))
      BY MessageMade
    <3> HIDE DEF i, early
    <3>5. u.msg = MessageOf(c, i)
      BY <2>2, <3>3, <3>4
    <3> QED  BY <2>3, <2>4, <3>2, <3>5
  <2>5. CASE n # 0
    <3>1. n = 2 /\ c.hrr /\ s.hello_retry_request = "PENDING" /\ ~early
      BY <1>3, <2>1, <2>5
    <3>3. HelloOf(s, c) = 3
      BY <3>1 DEF HelloOf
    <3>4. HasOf(c, 3) = Psk(c)
      BY <3>1, HasValues DEF Early
    <3>5. MessageOf(c, 3) = Msg("CLIENT_HELLO", HasOf(c, 3))
      BY MessageMade
    <3> QED  BY <2>2, <2>3, <3>1, <3>3, <3>4, <3>5
  <2> QED  BY <2>4, <2>5
<1>6. CASE s.hand_state = "CW_CERT"
  <2>1. n = 9 /\ Asks(c) /\ ClientSays(s, c) = 10
    BY <1>1, <1>2, <1>6, ClientPosValues DEF ClientSays
  <2>2. /\ s.cert_req = 2 => u.msg = Msg("CERTIFICATE", {"empty"})
        /\ s.cert_req # 2 => u.msg = Msg("CERTIFICATE", {})
    BY <1>6, ClientWords
  <2>6. u.quic_write_level = IF s.early_data_state # "NONE"
                             THEN ssl_encryption_handshake ELSE s.quic_write_level
    BY <1>6, ClientWords
  <2>3. /\ s.cert_req = 2 => HasOf(c, 10) = {"empty"}
        /\ s.cert_req # 2 => HasOf(c, 10) = {}
    <3>1. HasOf(c, 10) = IF c.clientCert THEN {} ELSE {"empty"}
      BY HasValues
    <3>2. s.cert_req = IF c.clientCert THEN 1 ELSE 2
      BY <1>3, <2>1
    <3> QED  BY <3>1, <3>2
  <2>4. MessageOf(c, 10) = Msg("CERTIFICATE", HasOf(c, 10))
    BY MessageMade
  <2>5. u.msg = MessageOf(c, 10)
    BY <2>2, <2>3, <2>4
  <2> QED  BY <1>4, <2>1, <2>5, <2>6
<1>7. CASE s.hand_state = "CW_CERT_VRFY"
  <2>1. n = 10 /\ ClientSays(s, c) = 11
    BY <1>1, <1>7, ClientPosValues DEF ClientSays
  <2>2. u.msg = Msg("CERTIFICATE_VERIFY", {}) /\ u.quic_write_level = s.quic_write_level
    BY <1>7, ClientWords
  <2>3. HasOf(c, 11) = {} /\ MessageOf(c, 11) = Msg("CERTIFICATE_VERIFY", HasOf(c, 11))
    BY MessageMade, HasValues
  <2> QED  BY <1>4, <2>1, <2>2, <2>3
<1>8. CASE s.hand_state = "CW_FINISHED"
  <2>1. /\ n = IF ~Asks(c) THEN 9 ELSE IF c.clientCert THEN 11 ELSE 10
        /\ ClientSays(s, c) = 12
    BY <1>1, <1>8, ClientPosValues DEF ClientSays
  <2>2. /\ u.msg = Signed(s.transcript)
        /\ s.cert_req = 0 => u.quic_write_level = IF s.early_data_state # "NONE"
                                THEN ssl_encryption_handshake ELSE s.quic_write_level
        /\ s.cert_req # 0 => u.quic_write_level = s.quic_write_level
    BY <1>8, ClientWords
  <2>3. MacOf(c, 12) = s.transcript
    <3>1. Follows(c, 12, n)
      BY <2>1, FollowsFrom
    <3> QED  BY <1>2, <3>1, MacNext
  <2>4. MessageOf(c, 12) = Signed(MacOf(c, 12))
    BY FinishedMade
  <2>5. n >= 9 /\ n < 12 /\ (s.cert_req = 0 \/ n >= 10)
    BY <1>3, <2>1
  <2> QED  BY <1>4, <2>1, <2>2, <2>3, <2>4, <2>5
<1> QED  BY <1>5, <1>6, <1>7, <1>8 DEF ClientWrites

\* A client constructs a message.
LEMMA ClientComposes ==
    ASSUME NEW s, NEW c, Client(s, c), ClientSide(s, c), At(s, "WRITING", "PRE_WORK"),
           ~PreWorkStops(s), s.hand_state \notin NothingToSend
    PROVE  Calm("client", s, Building(s, c), c)
<1> DEFINE u == ConstructMessage(s, c)
           t == Building(s, c)
           n == ClientPos(s, c)
<1>1. /\ s.state = "WRITING" /\ s.write_state = "PRE_WORK" /\ DOMAIN s = Fields
      /\ s.server = FALSE /\ s.transcript \in Seq(Kinds) /\ s.hand_state \in ClientWrites
  <2>1. s.state = "WRITING" /\ s.write_state = "PRE_WORK"
    BY DEF At
  <2>2. ClientControl(s) /\ DOMAIN s = Fields /\ s.server = FALSE /\ s.transcript \in Seq(Kinds)
    BY <2>1 DEF Client, ClientPlace, Endpoint, Shape, Data
  <2> QED  BY <2>1, <2>2 DEF ClientControl, At, PreWorkStops, NothingToSend, ClientWrites
<1>2. ~Astray(s.transcript) /\ ClientAt(s, c, n) /\ n \in 0 .. 12
  BY <1>1, ClientKeeps, PosRange DEF Pos
<1>3. t = [u EXCEPT !.write_state = "SEND"]
  BY <1>1 DEF Building, PreWork, ClientWrites
<1>4. Spoken(s, u, c)
  BY <1>1, ClientHelloSpoken, ClientCertificateSpoken, ClientFinishedSpoken DEF ClientWrites
<1>5. /\ u.msg = MessageOf(c, ClientSays(s, c))
      /\ n >= 4 => u.quic_write_level = ssl_encryption_handshake
  BY <1>1, <1>2, ClientWordsFit
<1>6. /\ s.hand_state = "CW_CLNT_HELLO" => u.early_data \in {s.early_data, "REJECTED"}
      /\ s.hand_state # "CW_CLNT_HELLO" => u.early_data = s.early_data
  <2>1. CASE s.hand_state = "CW_CLNT_HELLO"
    BY <1>1, <2>1, ClientWords
  <2>2. CASE s.hand_state # "CW_CLNT_HELLO"
    BY <1>1, <2>2, ClientWords
  <2> QED  BY <2>1, <2>2
<1> HIDE DEF u, t
<1>7. /\ Off(t, s, {"max_early_data", "msg", "early_data", "quic_write_level", "cleanuphand",
                    "write_state"})
      /\ t.write_state = "SEND" /\ t.msg = u.msg /\ t.early_data = u.early_data
      /\ t.quic_write_level = u.quic_write_level
  BY <1>3, <1>4 DEF Spoken, Off, Fields
<1>8. /\ t.state = s.state /\ t.hand_state = s.hand_state /\ t.read_state = s.read_state
      /\ t.early_data_state = s.early_data_state /\ t.hit = s.hit
      /\ t.transcript = s.transcript /\ t.secrets = s.secrets /\ t.cert_req = s.cert_req
      /\ t.quic_read_level = s.quic_read_level /\ t.hello_retry_request = s.hello_retry_request
      /\ t.quic_input_data = s.quic_input_data
      /\ t.quic_latest_level_received = s.quic_latest_level_received
  BY <1>7 DEF Off, Fields
<1>9. /\ HelloOf(t, c) = HelloOf(s, c) /\ Unsaid(t) /\ Unsaid(s)
      /\ ClientSays(t, c) = ClientSays(s, c)
  BY <1>1, <1>7, <1>8 DEF HelloOf, Unsaid, ClientSays
<1>10. ClientPos(t, c) = n
  BY <1>8, <1>9 DEF ClientPos
<1>11. s.hand_state = "CW_CLNT_HELLO" => n < 4
  BY <1>9, ClientPosValues
<1> HIDE DEF n
<1>12. ClientLines(t, c, n)
  BY <1>1, <1>2, <1>5, <1>7, <1>8, <1>9 DEF ClientAt, ClientLines
<1>13. ClientChoices(t, c, n)
  <2>1. t.early_data = "ACCEPTED" <=> n >= 5 /\ Admits(c)
    <3>1. s.early_data = "ACCEPTED" <=> n >= 5 /\ Admits(c)
      BY <1>2 DEF ClientAt, ClientChoices
    <3> QED  BY <1>2, <1>6, <1>7, <1>11, <3>1
  <2>2. /\ n = 0 => t.early_data_state = EarlyDataState(FALSE, c)
        /\ t.hello_retry_request = "PENDING" => t.early_data_state # "CONNECTING"
    BY <1>2, <1>8 DEF ClientAt, ClientChoices, EarlyDataState
  <2>3. /\ t.cert_req = IF n < 6 \/ ~Asks(c) THEN 0
                        ELSE IF n <= 8 /\ ~(n = 8 /\ t.read_state = "HEADER") THEN 1
                        ELSE IF c.clientCert THEN 1 ELSE 2
        /\ n = 8 /\ t.read_state = "POST_PROCESS" => Asks(c)
        /\ n >= 4 => t.hit = Resumes(c)
    BY <1>2, <1>8 DEF ClientAt, ClientChoices
  <2> QED  BY <2>1, <2>2, <2>3 DEF ClientChoices
<1>14. ClientLevels(t, n)
  BY <1>2, <1>5, <1>7, <1>8 DEF ClientAt, ClientLevels
<1>15. ClientSide(t, c)
  BY <1>2, <1>8, <1>10, <1>12, <1>13, <1>14 DEF ClientSide, ClientKept, ClientAt
<1>16. Calm("client", s, t, c)
  BY <1>8, <1>9, <1>10, <1>15 DEF Calm, Side, Pos, Hello, n
<1> QED  BY <1>16 DEF t

\* A client has sent a message, and the keys change.
LEMMA ClientGoesOn ==
    ASSUME NEW s, NEW c, Client(s, c), ClientSide(s, c), At(s, "WRITING", "POST_WORK"),
           NEW t, Ends(s, t)
    PROVE  Calm("client", s, t, c)
<1> DEFINE n == ClientPos(s, c)
           u == PostWork(s)
<1>1. /\ s.state = "WRITING" /\ s.write_state = "POST_WORK" /\ DOMAIN s = Fields
      /\ s.server = FALSE
      /\ s.hand_state \in ClientWrites \union {"PENDING_EARLY_DATA_END", "CW_END_OF_EARLY_DATA"}
  <2>1. s.state = "WRITING" /\ s.write_state = "POST_WORK"
    BY DEF At
  <2>2. ClientControl(s) /\ DOMAIN s = Fields /\ s.server = FALSE
    BY <2>1 DEF Client, ClientPlace, Endpoint, Shape
  <2> QED  BY <2>1, <2>2 DEF ClientControl, At
<1>2. ~Astray(s.transcript) /\ ClientAt(s, c, n) /\ n \in 0 .. 12
  BY <1>1, ClientKeeps, PosRange DEF Pos
<1>3. /\ u.quic_read_level = s.quic_read_level /\ u.early_data_state = s.early_data_state
      /\ u.secrets \subseteq s.secrets \union {ssl_encryption_early_data}
      /\ s.hand_state # "CW_FINISHED" => u.quic_write_level = s.quic_write_level
  BY <1>1, PostWorkClient
<1> HIDE DEF u
<1>4. /\ t.state = s.state /\ t.hand_state = s.hand_state /\ t.read_state = s.read_state
      /\ t.write_state = "TRANSITION" /\ t.msg = s.msg
      /\ t.early_data_state = s.early_data_state /\ t.hit = s.hit
      /\ t.transcript = s.transcript /\ t.cert_req = s.cert_req /\ t.early_data = s.early_data
      /\ t.quic_read_level = s.quic_read_level /\ t.hello_retry_request = s.hello_retry_request
      /\ t.quic_input_data = s.quic_input_data
      /\ t.quic_latest_level_received = s.quic_latest_level_received
      /\ t.secrets = u.secrets /\ t.quic_write_level = u.quic_write_level
  BY <1>3 DEF Ends, Off, Fields, u
<1>5. HelloOf(t, c) = HelloOf(s, c) /\ ~Unsaid(t) /\ ~Unsaid(s)
  BY <1>1, <1>4 DEF HelloOf, Unsaid
<1>6. ClientPos(t, c) = n
  BY <1>4, <1>5 DEF ClientPos
<1>7. s.hand_state = "CW_FINISHED" => n = 12
  BY <1>5, ClientPosValues
<1> HIDE DEF n
<1>8. ClientLines(t, c, n)
  BY <1>1, <1>2, <1>4, <1>5 DEF ClientAt, ClientLines
<1>9. ClientChoices(t, c, n)
  BY <1>2, <1>4 DEF ClientAt, ClientChoices
<1>10. ClientLevels(t, n)
  <2>1. ssl_encryption_handshake # ssl_encryption_early_data
        /\ ssl_encryption_application # ssl_encryption_early_data
    BY DEF ssl_encryption_handshake, ssl_encryption_early_data, ssl_encryption_application
  <2> QED  BY <1>1, <1>2, <1>3, <1>4, <1>7, <2>1 DEF ClientAt, ClientLevels
<1>11. ClientSide(t, c)
  BY <1>2, <1>4, <1>6, <1>8, <1>9, <1>10 DEF ClientSide, ClientKept, ClientAt
<1> QED  BY <1>4, <1>5, <1>6, <1>11 DEF Calm, Side, Pos, Hello, n

\* A client says the message that comes next.
LEMMA ClientSaid ==
    ASSUME NEW s, NEW c, Client(s, c), ClientSide(s, c), At(s, "WRITING", "SEND"),
           NEW t, Sending(s, t, c), NEW n, n = ClientSays(s, c)
    PROVE  /\ ~Astray(s.transcript) /\ ~Astray(t.transcript) /\ ClientSide(t, c)
           /\ n \in Lines("client") /\ Follows(c, n, ClientPos(s, c)) /\ ClientPos(t, c) = n
           /\ HelloOf(t, c) = HelloOf(s, c) /\ (n \in {1, 3} => n = HelloOf(s, c))
           /\ s.msg = MessageOf(c, n) /\ s.quic_write_level = LevelOf(n)
           /\ t.quic_input_data = s.quic_input_data /\ t.state # "ERROR"
           /\ t.quic_latest_level_received = s.quic_latest_level_received
           /\ t.server = s.server /\ t.secrets = s.secrets /\ s.msg.type # "NEWSESSION_TICKET"
<1> DEFINE m == ClientPos(s, c)
<1>1. /\ s.state = "WRITING" /\ s.write_state = "SEND" /\ s.transcript \in Seq(Kinds)
      /\ ClientKeys(s) /\ s.hand_state \in ClientWrites
  <2>1. s.state = "WRITING" /\ s.write_state = "SEND"
    BY DEF At
  <2>2. ClientControl(s) /\ ClientKeys(s) /\ s.transcript \in Seq(Kinds)
    BY <2>1 DEF Client, ClientPlace, Endpoint, Data
  <2> QED  BY <2>1, <2>2 DEF ClientControl, At
<1>2. ~Astray(s.transcript) /\ ClientAt(s, c, m) /\ m \in 0 .. 12
  BY <1>1, ClientKeeps, PosRange DEF Pos
<1>3. /\ t.state = s.state /\ t.hand_state = s.hand_state /\ t.read_state = s.read_state
      /\ t.write_state = "POST_WORK" /\ t.msg = s.msg
      /\ t.early_data_state = s.early_data_state /\ t.hit = s.hit
      /\ t.cert_req = s.cert_req /\ t.early_data = s.early_data
      /\ t.quic_read_level = s.quic_read_level /\ t.hello_retry_request = s.hello_retry_request
      /\ t.quic_input_data = s.quic_input_data
      /\ t.quic_latest_level_received = s.quic_latest_level_received
      /\ t.secrets = s.secrets /\ t.quic_write_level = s.quic_write_level /\ t.server = s.server
  BY DEF Sending, Off, Fields
<1>4. HelloOf(t, c) = HelloOf(s, c) /\ ~Unsaid(t) /\ Unsaid(s)
  BY <1>1, <1>3 DEF HelloOf, Unsaid
<1>5. /\ m \in Numbers(c) \union {0} /\ s.transcript = After(c, m)
      /\ s.hello_retry_request = IF c.hrr /\ m >= 2 THEN "PENDING" ELSE "NONE"
      /\ s.hand_state \in {"CW_CERT", "CW_CERT_VRFY"} => Asks(c)
      /\ s.hand_state = "CW_CERT_VRFY" => c.clientCert
      /\ s.msg = MessageOf(c, n)
  BY <1>1, <1>2 DEF ClientAt, ClientLines
<1>6. \/ n = 1 /\ m = 0 /\ c.hrr
      \/ n = 3 /\ m = IF c.hrr THEN 2 ELSE 0
      \/ n = 10 /\ m = 9 /\ Asks(c)
      \/ n = 11 /\ m = 10 /\ Asks(c) /\ c.clientCert
      \/ n = 12 /\ m = IF ~Asks(c) THEN 9 ELSE IF c.clientCert THEN 11 ELSE 10
  BY <1>1, <1>4, <1>5, ClientPosValues DEF ClientSays, HelloOf, ClientWrites
<1>7. Follows(c, n, m)
  BY <1>6, FollowsFrom
<1>8. ClientPos(t, c) = n
  BY <1>1, <1>3, <1>4, ClientPosValues DEF ClientSays, ClientWrites
<1>9. (n \in {1, 3} <=> s.hand_state = "CW_CLNT_HELLO") /\ (n \in {1, 3} => n = HelloOf(s, c))
  BY <1>1 DEF ClientSays, HelloOf, ClientWrites
<1>10. s.quic_write_level = LevelOf(n)
  <2>1. CASE n \in {1, 3}
    BY <1>1, <1>9, <2>1 DEF ClientKeys, ClientHellos, LevelOf
  <2>2. CASE n \notin {1, 3}
    <3>1. n \in {10, 11, 12} /\ m >= 4 /\ m < 12
      BY <1>6, <2>2
    <3> HIDE DEF m
    <3> QED  BY <1>1, <1>2, <3>1 DEF ClientAt, ClientLevels, LevelOf
  <2> QED  BY <2>1, <2>2
<1>11. /\ n \in 1 .. 12 /\ n # 2 /\ n \in Numbers(c) /\ n \in Lines("client")
  BY <1>6, <1>7 DEF Follows, Lines
<1>12. t.transcript = After(c, n) /\ s.msg.type # "NEWSESSION_TICKET"
  <2>1. Entry(s.msg) = KindOf(c, n) /\ s.msg.type = TypeOf(n)
    BY <1>5, MessageFacts
  <2>2. s.msg.type # "NEWSESSION_TICKET"
    BY <1>11, <2>1, TypeFacts
  <2>3. t.transcript = Append(s.transcript, KindOf(c, n))
    BY <2>1, <2>2 DEF Sending
  <2>4. After(c, n) = Grown(c, After(c, m), n)
    BY <1>2, <1>5, <1>7, <1>11, AfterNext
  <2> QED  BY <1>5, <2>2, <2>3, <2>4 DEF Grown
<1>13. ~Astray(t.transcript)
  BY <1>11, <1>12, PureAfter DEF Pure
<1> HIDE DEF m
<1>14. ClientLines(t, c, n)
  BY <1>1, <1>3, <1>4, <1>5, <1>6, <1>11, <1>12 DEF ClientLines
<1>15. ClientChoices(t, c, n)
  <2>1. /\ s.hello_retry_request = "PENDING" => s.early_data_state # "CONNECTING"
        /\ m >= 4 => s.hit = Resumes(c)
        /\ s.early_data = "ACCEPTED" <=> m >= 5 /\ Admits(c)
    BY <1>2 DEF ClientAt, ClientChoices
  <2>2. t.cert_req = IF n < 6 \/ ~Asks(c) THEN 0
                     ELSE IF n <= 8 /\ ~(n = 8 /\ t.read_state = "HEADER") THEN 1
                     ELSE IF c.clientCert THEN 1 ELSE 2
    <3>1. /\ m < 6 => s.cert_req = 0
          /\ m >= 9 => s.cert_req = IF ~Asks(c) THEN 0 ELSE IF c.clientCert THEN 1 ELSE 2
      BY <1>2 DEF ClientAt, ClientChoices
    <3> QED  BY <1>3, <1>6, <3>1
  <2>3. n # 0 /\ n # 8 /\ (n >= 4 <=> m >= 4) /\ (n >= 5 <=> m >= 5)
    BY <1>6
  <2> QED  BY <1>3, <2>1, <2>2, <2>3 DEF ClientChoices
<1>16. ClientLevels(t, n)
  <2>1. (n < 4 <=> m < 4) /\ (n < 9 <=> m < 9) /\ (n >= 9 <=> m >= 9) /\ (n >= 4 <=> m >= 4)
    BY <1>2, <1>6, <1>11
  <2>2. n >= 4 => LevelOf(n) = ssl_encryption_handshake
    BY <1>6 DEF LevelOf
  <2> QED  BY <1>2, <1>3, <1>10, <2>1, <2>2 DEF ClientAt, ClientLevels
<1>17. ClientSide(t, c)
  BY <1>8, <1>13, <1>14, <1>15, <1>16 DEF ClientSide, ClientKept, ClientAt
<1> QED  BY <1>1, <1>2, <1>3, <1>4, <1>5, <1>7, <1>8, <1>9, <1>10, <1>11, <1>12, <1>13, <1>17 DEF m

\* process_message of a client, for the messages of the script.
LEMMA RetryProcessed ==
    ASSUME NEW b, DOMAIN b = Fields, b.hand_state = "CR_SRVR_HELLO", NEW m, m.has = {"hrr"},
           b.hello_retry_request = "NONE"
    PROVE  LET u == ProcessMessage(b, m)
           IN  /\ Off(u, b, {"hello_retry_request", "transcript", "read_state", "state",
                             "write_state"})
               /\ u.transcript = Append(MessageHash(b.transcript), Entry(m))
               /\ u.state = "WRITING" /\ u.write_state = "TRANSITION" /\ u.read_state = "HEADER"
               /\ u.hello_retry_request = "PENDING"
<1> DEFINE x == Append(MessageHash(b.transcript), Entry(m))
           v == [b EXCEPT !.hello_retry_request = "PENDING", !.transcript = x]
           u == [v EXCEPT !.read_state = "HEADER", !.state = "WRITING", !.write_state = "TRANSITION"]
<1>1. ProcessMessage(b, m) = u
  BY DEF ProcessMessage, ProcessHelloRetryRequest, FINISHED_READING
<1> HIDE DEF x
<1>2. /\ Off(u, b, {"hello_retry_request", "transcript", "read_state", "state", "write_state"})
      /\ u.transcript = x
      /\ u.state = "WRITING" /\ u.write_state = "TRANSITION" /\ u.read_state = "HEADER"
      /\ u.hello_retry_request = "PENDING"
  BY DEF Off, Fields
<1> QED  BY <1>1, <1>2 DEF x

\* A ServerHello decides whether the session is resumed.
LEMMA HelloProcessed ==
    ASSUME NEW b, DOMAIN b = Fields, b.hand_state = "CR_SRVR_HELLO", NEW m, m.has # {"hrr"},
           b.server = FALSE
    PROVE  ProcessMessage(b, m).hit = ("psk" \in m.has)
<1> DEFINE v == [b EXCEPT !.hit = "psk" \in m.has]
           w == quic_change_cipher_state(v, ssl_encryption_handshake, "read")
           x == quic_change_cipher_state(w, ssl_encryption_handshake, "write")
           y == IF b.early_data_state = "NONE" THEN x ELSE w
<1>1. ProcessMessage(b, m) = [y EXCEPT !.read_state = "HEADER"]
  BY DEF ProcessMessage, ProcessServerHello, CONTINUE_READING
<1>2. DOMAIN v = Fields /\ v.hit = ("psk" \in m.has)
  BY DEF Fields
<1> HIDE DEF v
<1>3. DOMAIN w = Fields /\ w.hit = v.hit
  BY <1>2 DEF quic_change_cipher_state, Fields
<1> HIDE DEF w
<1>4. DOMAIN x = Fields /\ x.hit = w.hit
  BY <1>3 DEF quic_change_cipher_state, Fields
<1> HIDE DEF x
<1>5. [y EXCEPT !.read_state = "HEADER"].hit = y.hit /\ y.hit = w.hit
  BY <1>3, <1>4 DEF Fields
<1> QED  BY <1>1, <1>2, <1>3, <1>5

\* The rest of the server's flight.
LEMMA FlightProcessed ==
    ASSUME NEW b, DOMAIN b = Fields, NEW m,
           b.hand_state \in {"CR_ENCRYPTED_EXTENSIONS", "CR_CERT_REQ", "CR_CERT", "CR_CERT_VRFY"}
    PROVE  LET u == ProcessMessage(b, m)
           IN  /\ Off(u, b, {"early_data", "cert_req", "read_state"})
               /\ u.early_data = IF b.hand_state = "CR_ENCRYPTED_EXTENSIONS" /\ "early" \in m.has
                                 THEN "ACCEPTED" ELSE b.early_data
               /\ u.cert_req = IF b.hand_state = "CR_CERT_REQ" THEN 1 ELSE b.cert_req
               /\ u.read_state = IF \/ b.hand_state = "CR_CERT"
                                    \/ b.hand_state = "CR_CERT_VRFY" /\ b.cert_req = 1
                                 THEN "POST_PROCESS" ELSE "HEADER"
BY DEF ProcessMessage, CONTINUE_READING, CONTINUE_PROCESSING, Off, Fields

\* A Finished that fits the transcript.
LEMMA FinishedProcessed ==
    ASSUME NEW b, DOMAIN b = Fields, NEW m, b.hand_state \in {"CR_FINISHED", "SR_FINISHED"},
           b.server \in BOOLEAN, m.mac = SubSeq(b.transcript, 1, Len(b.transcript) - 1)
    PROVE  LET u == ProcessMessage(b, m)
           IN  /\ Off(u, b, {"cleanuphand", "secrets", "quic_read_level", "read_state",
                             "state", "write_state"})
               /\ b.server => u.secrets = b.secrets
               /\ ~b.server => u.secrets = b.secrets \cup {ssl_encryption_application}
               /\ u.quic_read_level = ssl_encryption_application
               /\ u.state = "WRITING" /\ u.write_state = "TRANSITION" /\ u.read_state = "HEADER"
<1> DEFINE v == [b EXCEPT !.cleanuphand = @ \/ b.server]
           w == quic_change_cipher_state(v, ssl_encryption_application, "read")
           u == [w EXCEPT !.read_state = "HEADER", !.state = "WRITING", !.write_state = "TRANSITION"]
<1>1. ProcessMessage(b, m) = u
  BY DEF ProcessMessage, ProcessFinished, FINISHED_READING
<1>2. Off(v, b, {"cleanuphand"})
  BY DEF Off, Fields
<1> HIDE DEF v
<1>3. DOMAIN v = Fields /\ v.server = b.server /\ v.secrets = b.secrets
  BY <1>2 DEF Off, Fields
<1>4. /\ Off(w, v, {"secrets", "quic_read_level"})
      /\ w.quic_read_level = ssl_encryption_application
      /\ b.server => w.secrets = b.secrets
      /\ ~b.server => w.secrets = b.secrets \cup {ssl_encryption_application}
  BY <1>3 DEF quic_change_cipher_state, ssl_encryption_application, ssl_encryption_early_data,
              Off, Fields
<1> HIDE DEF w
<1>5. /\ Off(u, b, {"cleanuphand", "secrets", "quic_read_level", "read_state", "state",
                    "write_state"})
      /\ u.quic_read_level = w.quic_read_level /\ u.secrets = w.secrets
      /\ u.state = "WRITING" /\ u.write_state = "TRANSITION" /\ u.read_state = "HEADER"
  BY <1>2, <1>4 DEF Off, Fields
<1> QED  BY <1>1, <1>4, <1>5

\* One that does not is an error.
LEMMA FinishedRefused ==
    ASSUME NEW b, NEW m, b.hand_state \in {"CR_FINISHED", "SR_FINISHED"},
           m.mac # SubSeq(b.transcript, 1, Len(b.transcript) - 1)
    PROVE  ProcessMessage(b, m) = SSLfatal(b)
BY DEF ProcessMessage, ProcessFinished

\* The state of a client that reads message n of the script.
ClientReadsAt(n) ==
    CASE n \in {2, 4} -> "CR_SRVR_HELLO"
      [] n = 5 -> "CR_ENCRYPTED_EXTENSIONS"
      [] n = 6 -> "CR_CERT_REQ"
      [] n = 7 -> "CR_CERT"
      [] n = 8 -> "CR_CERT_VRFY"
      [] OTHER -> "CR_FINISHED"

\* The server's message that comes next is of the level and for the state that
\* the client reads in.
LEMMA ClientExpects ==
    ASSUME NEW s, NEW c, Client(s, c), ClientSide(s, c), At(s, "READING", "HEADER"),
           ~Astray(s.transcript), NEW m, m = ClientPos(s, c),
           NEW n \in Numbers(c) \intersect Lines("server"), m < n,
           \A k \in Numbers(c) \intersect Lines("server") : k < n => k <= m
    PROVE  /\ Follows(c, n, m) /\ n \in {2, 4, 5, 6, 7, 8, 9} /\ m \in 1 .. 8
           /\ ClientAt(s, c, m) /\ m \in Numbers(c)
           /\ LevelOf(n) = s.quic_read_level
           /\ ClientReadTransition(s, TypeOf(n)) = ClientReadsAt(n)
           /\ n = 2 => s.hello_retry_request = "NONE" /\ HelloOf(s, c) = 1
           /\ s.early_data_state # "CONNECTING" /\ ~Unsaid(s)
           /\ s.hand_state \notin ClientWrites \/ s.write_state # "SEND"
<1>1. /\ s.state = "READING" /\ s.read_state = "HEADER"
      /\ s.hand_state \in ClientReads \union {"CW_CLNT_HELLO", "EARLY_DATA", "OK"}
      /\ ClientKeys(s) /\ s.early_data_state # "CONNECTING"
  <2>1. s.state = "READING" /\ s.read_state = "HEADER"
    BY DEF At
  <2>2. ClientPlace(s, c)
    BY <2>1 DEF Client
  <2>3. ClientControl(s) /\ ClientKeys(s)
    BY <2>2 DEF ClientPlace
  <2>4. s.hand_state \in ClientReads \union {"CW_CLNT_HELLO", "EARLY_DATA", "OK"}
    BY <2>1, <2>3 DEF ClientControl, At
  <2>5. s.early_data_state # "CONNECTING"
    <3>1. s.early_data_state = "CONNECTING" =>
             \/ s.hand_state = "BEFORE"
             \/ s.hand_state = "CW_CLNT_HELLO" /\ s.state = "WRITING"
             \/ /\ s.hand_state = "EARLY_DATA"
                /\ At(s, "WRITING", "PRE_WORK") \/ s.state = "FINISHED"
      BY <2>2 DEF ClientPlace
    <3>2. s.hand_state # "BEFORE"
      BY <2>4 DEF ClientReads
    <3> QED  BY <2>1, <3>1, <3>2 DEF At
  <2> QED  BY <2>1, <2>3, <2>4, <2>5
<1>2. ClientAt(s, c, m) /\ m \in 0 .. 12
  BY <1>1, ClientKeeps, PosRange DEF Pos
<1>3. ~Unsaid(s) /\ m \in Numbers(c) \union {0}
      /\ s.hello_retry_request = IF c.hrr /\ m >= 2 THEN "PENDING" ELSE "NONE"
  BY <1>1, <1>2 DEF ClientAt, ClientLines
<1>4. s.hand_state = "CR_SRVR_HELLO" => s.quic_read_level = ssl_encryption_handshake
  BY <1>1 DEF ClientKeys, ClientReading
<1>5. ssl_encryption_handshake # ssl_encryption_initial
  BY DEF ssl_encryption_handshake, ssl_encryption_initial
<1>6. \/ s.hand_state \in {"CW_CLNT_HELLO", "EARLY_DATA"} /\ m = HelloOf(s, c)
      \/ s.hand_state = "CR_SRVR_HELLO" /\ m = 4
      \/ s.hand_state = "CR_ENCRYPTED_EXTENSIONS" /\ m = 5
      \/ s.hand_state = "CR_CERT_REQ" /\ m = 6
      \/ s.hand_state = "CR_CERT" /\ m = 7
      \/ s.hand_state = "CR_CERT_VRFY" /\ m = 8
      \/ s.hand_state = "OK" /\ m = 12
  BY <1>1, <1>3, <1>4, <1>5, ClientPosValues DEF ClientReads
<1>7. n \in {2, 4, 5, 6, 7, 8, 9} /\ n \in Numbers(c)
  BY DEF Lines
<1>8. /\ 4 \in Numbers(c) \intersect Lines("server") /\ 5 \in Numbers(c) \intersect Lines("server")
      /\ 9 \in Numbers(c) \intersect Lines("server")
      /\ 2 \in Numbers(c) \intersect Lines("server") <=> c.hrr
      /\ 6 \in Numbers(c) \intersect Lines("server") <=> Asks(c)
      /\ 7 \in Numbers(c) \intersect Lines("server") <=> ~Resumes(c)
      /\ 8 \in Numbers(c) \intersect Lines("server") <=> ~Resumes(c)
  BY NumbersFacts DEF Lines
<1>9. m \in Numbers(c) /\ m \in 1 .. 8
  BY <1>3, <1>6, <1>7 DEF HelloOf
<1>10. \/ m = 1 /\ n = 2 /\ c.hrr
       \/ m = 3 /\ n = 4 
       \/ m = 4 /\ n = 5
       \/ m = 5 /\ n = 6 /\ Asks(c)
       \/ m = 5 /\ n = 7 /\ ~Resumes(c) /\ ~c.certReq
       \/ m = 5 /\ n = 9 /\ Resumes(c)
       \/ m = 6 /\ n = 7 /\ Asks(c)
       \/ m = 7 /\ n = 8 /\ ~Resumes(c)
       \/ m = 8 /\ n = 9 /\ ~Resumes(c)
  <2>1. CASE m = 1
    <3>1. c.hrr
      BY <1>9, <2>1, NumbersFacts
    <3> QED  BY <1>7, <1>8, <2>1, <3>1
  <2>2. CASE m \in {3, 4}
    BY <1>7, <1>8, <2>2
  <2>3. CASE m = 5
    BY <1>7, <1>8, <2>3 DEF Asks
  <2>4. CASE m = 6
    <3>1. Asks(c) /\ ~Resumes(c)
      BY <1>9, <2>4, NumbersFacts DEF Asks
    <3> QED  BY <1>7, <1>8, <2>4, <3>1
  <2>5. CASE m \in {7, 8}
    <3>1. ~Resumes(c)
      BY <1>9, <2>5, NumbersFacts
    <3> QED  BY <1>7, <1>8, <2>5, <3>1
  <2> QED  BY <1>6, <1>9, <2>1, <2>2, <2>3, <2>4, <2>5 DEF HelloOf
<1>11. Follows(c, n, m)
  BY <1>10, FollowsFrom
<1>12. LevelOf(n) = s.quic_read_level
  <2>1. s.quic_read_level = IF m < 4 THEN ssl_encryption_initial
                            ELSE IF m < 9 THEN ssl_encryption_handshake
                            ELSE ssl_encryption_application
    BY <1>2 DEF ClientAt, ClientLevels
  <2> QED  BY <1>10, <2>1 DEF LevelOf
<1>13. m >= 4 => s.hit = Resumes(c)
  BY <1>2 DEF ClientAt, ClientChoices
<1>14. ClientReadTransition(s, TypeOf(n)) = ClientReadsAt(n)
  <2>1. n \in 1 .. 12
    BY <1>7
  <2>2. CASE m \in {1, 3, 4}
    BY <1>6, <1>10, <2>1, <2>2, TypeFacts DEF ClientReadTransition, ClientReadsAt, HelloOf
  <2>3. CASE m = 5
    <3>1. s.hit = Resumes(c) /\ s.hand_state = "CR_ENCRYPTED_EXTENSIONS"
      BY <1>6, <1>13, <2>3 DEF HelloOf
    <3> QED  BY <1>10, <2>1, <2>3, <3>1, TypeFacts DEF ClientReadTransition, ClientReadsAt, Asks
  <2>4. CASE m \in {6, 7, 8}
    BY <1>6, <1>10, <2>1, <2>4, TypeFacts DEF ClientReadTransition, ClientReadsAt, HelloOf
  <2> QED  BY <1>10, <2>2, <2>3, <2>4
<1>15. n = 2 => s.hello_retry_request = "NONE" /\ HelloOf(s, c) = 1
  BY <1>3, <1>6, <1>10
<1>16. s.hand_state \notin ClientWrites \/ s.write_state # "SEND"
  BY <1>3 DEF Unsaid
<1> QED  BY <1>1, <1>2, <1>3, <1>7, <1>9, <1>11, <1>12, <1>14, <1>15, <1>16

\* What a client becomes that reads message n of the script.
ClientHears(s, t, c, n) ==
    /\ Off(t, s, ReadFields \ {"clienthello", "tickets_received"})
    /\ t.hand_state = ClientReadsAt(n)
    /\ t.quic_input_data = Tail(s.quic_input_data)
    /\ t.transcript = After(c, n)
    /\ n \in {2, 9} => t.state = "WRITING" /\ t.write_state = "TRANSITION"
    /\ n \notin {2, 9} => t.state = "READING" /\ t.write_state = s.write_state
    /\ t.read_state = IF n = 7 \/ (n = 8 /\ s.cert_req = 1) THEN "POST_PROCESS" ELSE "HEADER"
    /\ t.hello_retry_request = IF n = 2 THEN "PENDING" ELSE s.hello_retry_request
    /\ t.hit = IF n = 4 THEN Resumes(c) ELSE s.hit
    /\ t.early_data = IF n = 5 /\ Admits(c) THEN "ACCEPTED" ELSE s.early_data
    /\ t.cert_req = IF n = 6 THEN 1 ELSE s.cert_req
    /\ n = 4 => /\ t.secrets = s.secrets \cup {ssl_encryption_handshake}
                /\ t.quic_read_level = ssl_encryption_handshake
                /\ t.quic_write_level = IF s.early_data_state = "NONE"
                                        THEN ssl_encryption_handshake ELSE s.quic_write_level
    /\ n = 9 => /\ t.secrets = s.secrets \cup {ssl_encryption_application}
                /\ t.quic_read_level = ssl_encryption_application
    /\ n \notin {4, 9} => t.secrets = s.secrets /\ t.quic_read_level = s.quic_read_level
    /\ n # 4 => t.quic_write_level = s.quic_write_level

\* A client about to read message n after message m.
ClientListens(s, c, n, m) ==
    /\ DOMAIN s = Fields /\ s.server = FALSE
    /\ s.state = "READING" /\ s.read_state = "HEADER"
    /\ m \in 1 .. 8 /\ n \in {2, 4, 5, 6, 7, 8, 9} /\ Follows(c, n, m) /\ m \in Numbers(c)
    /\ s.transcript = After(c, m)
    /\ s.quic_input_data[1].msg = MessageOf(c, n)
    /\ n = 2 => s.hello_retry_request = "NONE"

\* The transcript once the message is in it.
LEMMA ClientBody ==
    ASSUME NEW s, NEW c, NEW n, NEW m, ClientListens(s, c, n, m)
    PROVE  LET b == Body(s, ClientReadsAt(n))
           IN  /\ Off(b, s, {"quic_input_data", "msg", "transcript", "hand_state"})
               /\ b.hand_state = ClientReadsAt(n)
               /\ b.quic_input_data = Tail(s.quic_input_data)
               /\ n = 2 => b.transcript = After(c, m)
               /\ n # 2 => b.transcript = After(c, n) /\ b.transcript = Append(After(c, m), KindOf(c, n))
<1> DEFINE e == s.quic_input_data[1].msg
<1>1. /\ DOMAIN s = Fields /\ n \in 1 .. 12 /\ m \in 0 .. 12 /\ m \in Numbers(c) \union {0}
      /\ s.transcript = After(c, m) /\ Follows(c, n, m) /\ e = MessageOf(c, n)
  BY DEF ClientListens
<1>2. e.type = TypeOf(n) /\ e.has = HasOf(c, n) /\ Entry(e) = KindOf(c, n)
  BY <1>1, MessageFacts
<1>3. e.type # "NEWSESSION_TICKET" /\ (e.has = {"hrr"} <=> n = 2)
  BY <1>1, <1>2, TypeFacts, HasFacts
<1>4. n # 2 => After(c, n) = Append(After(c, m), KindOf(c, n))
  BY <1>1, AfterNext DEF Grown
<1> DEFINE b == Body(s, ClientReadsAt(n))
<1>5. /\ Off(b, s, {"quic_input_data", "msg", "transcript", "hand_state"})
      /\ b.hand_state = ClientReadsAt(n) /\ b.quic_input_data = Tail(s.quic_input_data)
      /\ b.transcript = IF e.type = "NEWSESSION_TICKET" \/ e.has = {"hrr"}
                        THEN s.transcript ELSE Append(s.transcript, Entry(e))
  BY <1>1, BodyFields
<1> HIDE DEF b, e
<1>6. /\ n = 2 => b.transcript = After(c, m)
      /\ n # 2 => b.transcript = After(c, n) /\ b.transcript = Append(After(c, m), KindOf(c, n))
  BY <1>1, <1>2, <1>3, <1>4, <1>5
<1> QED  BY <1>5, <1>6 DEF b

\* A client reads a HelloRetryRequest.
LEMMA ClientHearsRetry ==
    ASSUME NEW s, NEW c, NEW m, ClientListens(s, c, 2, m), c.hrr
    PROVE  ClientHears(s, Received(s, ClientReadsAt(2)), c, 2)
<1> DEFINE b == Body(s, ClientReadsAt(2))
           e == s.quic_input_data[1].msg
           u == ProcessMessage(b, e)
<1>1. /\ Off(b, s, {"quic_input_data", "msg", "transcript", "hand_state"})
      /\ b.hand_state = ClientReadsAt(2) /\ b.quic_input_data = Tail(s.quic_input_data)
      /\ b.transcript = After(c, m)
  BY ClientBody
<1>2. ClientReadsAt(2) = "CR_SRVR_HELLO"
  BY DEF ClientReadsAt
<1>3. e.has = {"hrr"} /\ Entry(e) = KindOf(c, 2) /\ s.hello_retry_request = "NONE"
  <2>1. e = MessageOf(c, 2) /\ s.hello_retry_request = "NONE"
    BY DEF ClientListens
  <2>2. HasOf(c, 2) = {"hrr"}
    BY HasValues
  <2> QED  BY <2>1, <2>2, MessageFacts
<1>4. m = 1
  <2>1. m \in 0 .. 12 /\ m \in Numbers(c) \union {0} /\ Follows(c, 2, m)
    BY DEF ClientListens
  <2> QED  BY <2>1, FollowsCases
<1> HIDE DEF b, e
<1>5. DOMAIN b = Fields /\ b.hello_retry_request = "NONE" /\ b.hand_state = "CR_SRVR_HELLO"
  BY <1>1, <1>2, <1>3 DEF Off, Fields
<1>6. /\ Off(u, b, {"hello_retry_request", "transcript", "read_state", "state", "write_state"})
      /\ u.transcript = Append(MessageHash(b.transcript), Entry(e))
      /\ u.state = "WRITING" /\ u.write_state = "TRANSITION" /\ u.read_state = "HEADER"
      /\ u.hello_retry_request = "PENDING"
  BY <1>3, <1>5, RetryProcessed
<1>7. u.transcript = After(c, 2)
  BY <1>1, <1>3, <1>4, <1>6, AfterRetry DEF Grown
<1> HIDE DEF u
<1>8. Received(s, ClientReadsAt(2)) = u
  BY <1>6 DEF Received, u, b, e
<1>9. Off(u, s, ReadFields \ {"clienthello", "tickets_received"})
  BY <1>1, <1>6 DEF Off, Fields, ReadFields
<1>10. /\ u.hand_state = ClientReadsAt(2) /\ u.quic_input_data = Tail(s.quic_input_data)
       /\ u.hit = s.hit /\ u.early_data = s.early_data /\ u.cert_req = s.cert_req
       /\ u.secrets = s.secrets /\ u.quic_read_level = s.quic_read_level
       /\ u.quic_write_level = s.quic_write_level
  BY <1>1, <1>6 DEF Off, Fields
<1>11. ClientHears(s, u, c, 2)
  BY <1>6, <1>7, <1>9, <1>10 DEF ClientHears
<1> QED  BY <1>8, <1>11

\* A client reads a ServerHello.
LEMMA ClientHearsHello ==
    ASSUME NEW s, NEW c, NEW m, ClientListens(s, c, 4, m)
    PROVE  ClientHears(s, Received(s, ClientReadsAt(4)), c, 4)
<1> DEFINE b == Body(s, ClientReadsAt(4))
           e == s.quic_input_data[1].msg
           u == ProcessMessage(b, e)
<1>1. /\ Off(b, s, {"quic_input_data", "msg", "transcript", "hand_state"})
      /\ b.hand_state = ClientReadsAt(4) /\ b.quic_input_data = Tail(s.quic_input_data)
      /\ b.transcript = After(c, 4)
  BY ClientBody
<1>2. ClientReadsAt(4) = "CR_SRVR_HELLO"
  BY DEF ClientReadsAt
<1>3. e.has # {"hrr"} /\ ("psk" \in e.has) = Resumes(c) /\ s.server = FALSE
  <2>1. e.has = HasOf(c, 4) /\ s.server = FALSE
    BY MessageFacts DEF ClientListens
  <2>2. HasOf(c, 4) = IF Resumes(c) THEN {"psk"} ELSE {}
    BY HasValues
  <2>3. HasOf(c, 4) # {"hrr"}
    BY HasFacts
  <2>4. Resumes(c) \in BOOLEAN
    BY DEF Resumes
  <2> QED  BY <2>1, <2>2, <2>3, <2>4
<1> HIDE DEF b, e
<1>5. DOMAIN b = Fields /\ b.server = FALSE /\ b.hand_state = "CR_SRVR_HELLO"
      /\ b.state = "READING" /\ b.secrets = s.secrets
      /\ b.early_data_state = s.early_data_state /\ b.quic_write_level = s.quic_write_level
  BY <1>1, <1>2, <1>3 DEF Off, Fields, ClientListens
<1>6. /\ Off(u, b, {"hit", "secrets", "quic_read_level", "quic_write_level", "read_state"})
      /\ u.secrets = b.secrets \cup {ssl_encryption_handshake}
      /\ u.quic_read_level = ssl_encryption_handshake
      /\ u.quic_write_level = IF b.early_data_state = "NONE"
                              THEN ssl_encryption_handshake ELSE b.quic_write_level
      /\ u.read_state = "HEADER"
  BY <1>3, <1>5, ServerHelloFields
<1>7. u.hit = Resumes(c)
  BY <1>3, <1>5, HelloProcessed
<1> HIDE DEF u
<1>9. Off(u, s, ReadFields \ {"clienthello", "tickets_received"})
  BY <1>1, <1>6 DEF Off, Fields, ReadFields
<1>10. /\ u.hand_state = ClientReadsAt(4) /\ u.quic_input_data = Tail(s.quic_input_data)
       /\ u.early_data = s.early_data /\ u.cert_req = s.cert_req
       /\ u.hello_retry_request = s.hello_retry_request
       /\ u.state = "READING" /\ u.write_state = s.write_state /\ u.transcript = After(c, 4)
  BY <1>1, <1>5, <1>6 DEF Off, Fields
<1>8. Received(s, ClientReadsAt(4)) = u
  BY <1>10 DEF Received, u, b, e
<1>11. ClientHears(s, u, c, 4)
  BY <1>5, <1>6, <1>7, <1>9, <1>10 DEF ClientHears
<1> QED  BY <1>8, <1>11

\* A client reads the rest of the server's flight.
LEMMA ClientHearsFlight ==
    ASSUME NEW s, NEW c, NEW n \in {5, 6, 7, 8}, NEW m, ClientListens(s, c, n, m)
    PROVE  ClientHears(s, Received(s, ClientReadsAt(n)), c, n)
<1> DEFINE b == Body(s, ClientReadsAt(n))
           e == s.quic_input_data[1].msg
           u == ProcessMessage(b, e)
<1>1. /\ Off(b, s, {"quic_input_data", "msg", "transcript", "hand_state"})
      /\ b.hand_state = ClientReadsAt(n) /\ b.quic_input_data = Tail(s.quic_input_data)
      /\ b.transcript = After(c, n)
  BY ClientBody
<1>2. /\ n = 5 => ClientReadsAt(n) = "CR_ENCRYPTED_EXTENSIONS"
      /\ n = 6 => ClientReadsAt(n) = "CR_CERT_REQ"
      /\ n = 7 => ClientReadsAt(n) = "CR_CERT"
      /\ n = 8 => ClientReadsAt(n) = "CR_CERT_VRFY"
  BY DEF ClientReadsAt
<1>3. n = 5 => ("early" \in e.has <=> Admits(c))
  <2>1. e.has = HasOf(c, n)
    BY MessageFacts DEF ClientListens
  <2>2. HasOf(c, 5) = IF Admits(c) THEN {"early"} ELSE {}
    BY HasValues
  <2> QED  BY <2>1, <2>2
<1> HIDE DEF b, e
<1>5. DOMAIN b = Fields /\ b.state = "READING" /\ b.cert_req = s.cert_req
      /\ b.early_data = s.early_data
      /\ b.hand_state \in {"CR_ENCRYPTED_EXTENSIONS", "CR_CERT_REQ", "CR_CERT", "CR_CERT_VRFY"}
  BY <1>1, <1>2 DEF Off, Fields, ClientListens
<1>6. /\ Off(u, b, {"early_data", "cert_req", "read_state"})
      /\ u.early_data = IF b.hand_state = "CR_ENCRYPTED_EXTENSIONS" /\ "early" \in e.has
                        THEN "ACCEPTED" ELSE b.early_data
      /\ u.cert_req = IF b.hand_state = "CR_CERT_REQ" THEN 1 ELSE b.cert_req
      /\ u.read_state = IF \/ b.hand_state = "CR_CERT"
                           \/ b.hand_state = "CR_CERT_VRFY" /\ b.cert_req = 1
                        THEN "POST_PROCESS" ELSE "HEADER"
  BY <1>5, FlightProcessed
<1> HIDE DEF u
<1>9. Off(u, s, ReadFields \ {"clienthello", "tickets_received"})
  BY <1>1, <1>6 DEF Off, Fields, ReadFields
<1>10. /\ u.hand_state = ClientReadsAt(n) /\ u.quic_input_data = Tail(s.quic_input_data)
       /\ u.hit = s.hit /\ u.secrets = s.secrets /\ u.quic_read_level = s.quic_read_level
       /\ u.quic_write_level = s.quic_write_level
       /\ u.hello_retry_request = s.hello_retry_request
       /\ u.state = "READING" /\ u.write_state = s.write_state /\ u.transcript = After(c, n)
  BY <1>1, <1>5, <1>6 DEF Off, Fields
<1>7. /\ u.early_data = IF n = 5 /\ Admits(c) THEN "ACCEPTED" ELSE s.early_data
      /\ u.cert_req = IF n = 6 THEN 1 ELSE s.cert_req
      /\ u.read_state = IF n = 7 \/ (n = 8 /\ s.cert_req = 1) THEN "POST_PROCESS" ELSE "HEADER"
  BY <1>1, <1>2, <1>3, <1>5, <1>6
<1>8. Received(s, ClientReadsAt(n)) = u
  BY <1>10 DEF Received, u, b, e
<1>11. ClientHears(s, u, c, n)
  BY <1>7, <1>9, <1>10 DEF ClientHears
<1> QED  BY <1>8, <1>11

\* A client reads the server's Finished.
LEMMA ClientHearsFinished ==
    ASSUME NEW s, NEW c, NEW m, ClientListens(s, c, 9, m)
    PROVE  ClientHears(s, Received(s, ClientReadsAt(9)), c, 9)
<1> DEFINE b == Body(s, ClientReadsAt(9))
           e == s.quic_input_data[1].msg
           u == ProcessMessage(b, e)
<1>1. /\ Off(b, s, {"quic_input_data", "msg", "transcript", "hand_state"})
      /\ b.hand_state = ClientReadsAt(9) /\ b.quic_input_data = Tail(s.quic_input_data)
      /\ b.transcript = After(c, 9) /\ b.transcript = Append(After(c, m), KindOf(c, 9))
  BY ClientBody
<1>2. ClientReadsAt(9) = "CR_FINISHED"
  BY DEF ClientReadsAt
<1>3. e.mac = After(c, m)
  <2>1. m \in 0 .. 12 /\ m \in Numbers(c) \union {0} /\ Follows(c, 9, m) /\ e = MessageOf(c, 9)
    BY DEF ClientListens
  <2>2. MacOf(c, 9) = After(c, m)
    BY <2>1, MacNext
  <2> QED  BY <2>1, <2>2, MessageFacts
<1>4. SubSeq(b.transcript, 1, Len(b.transcript) - 1) = After(c, m)
  <2>1. m \in 0 .. 12
    BY DEF ClientListens
  <2>2. After(c, m) \in Seq(Kinds) /\ KindOf(c, 9) \in Kinds
    BY <2>1, PureAfter, KindFacts DEF Pure
  <2> HIDE DEF b
  <2> QED  BY <1>1, <2>2, AllButLast
<1> HIDE DEF b, e
<1>5. DOMAIN b = Fields /\ b.server = FALSE /\ b.hand_state = "CR_FINISHED"
      /\ b.state = "READING" /\ b.secrets = s.secrets
  BY <1>1, <1>2 DEF Off, Fields, ClientListens
<1>6. /\ Off(u, b, {"cleanuphand", "secrets", "quic_read_level", "read_state",
                    "state", "write_state"})
      /\ u.secrets = b.secrets \cup {ssl_encryption_application}
      /\ u.quic_read_level = ssl_encryption_application
      /\ u.state = "WRITING" /\ u.write_state = "TRANSITION" /\ u.read_state = "HEADER"
  <2>1. b.server \in BOOLEAN /\ e.mac = SubSeq(b.transcript, 1, Len(b.transcript) - 1)
    BY <1>3, <1>4, <1>5
  <2> QED  BY <1>5, <2>1, FinishedProcessed
<1> HIDE DEF u
<1>9. Off(u, s, ReadFields \ {"clienthello", "tickets_received"})
  BY <1>1, <1>6 DEF Off, Fields, ReadFields
<1>10. /\ u.hand_state = ClientReadsAt(9) /\ u.quic_input_data = Tail(s.quic_input_data)
       /\ u.early_data = s.early_data /\ u.cert_req = s.cert_req /\ u.hit = s.hit
       /\ u.hello_retry_request = s.hello_retry_request /\ u.transcript = After(c, 9)
       /\ u.quic_write_level = s.quic_write_level
  BY <1>1, <1>5, <1>6 DEF Off, Fields
<1>8. Received(s, ClientReadsAt(9)) = u
  BY <1>6 DEF Received, u, b, e
<1>11. ClientHears(s, u, c, 9)
  BY <1>5, <1>6, <1>9, <1>10 DEF ClientHears
<1> QED  BY <1>8, <1>11

\* A client that has read message n is at number n.
LEMMA ClientHeard ==
    ASSUME NEW s, NEW c, NEW n, NEW m, ClientListens(s, c, n, m), ClientAt(s, c, m),
           ~Unsaid(s), s.early_data_state # "CONNECTING",
           n = 2 => HelloOf(s, c) = 1,
           NEW t, ClientHears(s, t, c, n)
    PROVE  /\ ClientSide(t, c) /\ ClientPos(t, c) = n /\ ~Astray(t.transcript)
           /\ HelloOf(t, c) = HelloOf(s, c) \/ (n = 2 /\ HelloOf(s, c) = 1)
<1>1. /\ m \in 1 .. 8 /\ n \in {2, 4, 5, 6, 7, 8, 9} /\ Follows(c, n, m) /\ m \in Numbers(c)
      /\ n \in Numbers(c)
  BY DEF ClientListens, Follows
<1>2. \/ m = 1 /\ n = 2 /\ c.hrr
      \/ m = 3 /\ n = 4
      \/ m = 4 /\ n = 5
      \/ m = 5 /\ n = 6 /\ Asks(c)
      \/ n = 7 /\ ~Resumes(c) /\ m = IF c.certReq THEN 6 ELSE 5
      \/ m = 7 /\ n = 8 /\ ~Resumes(c)
      \/ n = 9 /\ m = IF Resumes(c) THEN 5 ELSE 8
  <2>1. m \in 0 .. 12 /\ m \in Numbers(c) \union {0}
    BY <1>1
  <2> QED  BY <1>1, <2>1, FollowsCases
<1>3. /\ t.hand_state = ClientReadsAt(n) /\ t.transcript = After(c, n)
      /\ t.early_data_state = s.early_data_state
  BY DEF ClientHears, Off, Fields, ReadFields
<1>4. /\ n \in {2, 4} => t.hand_state = "CR_SRVR_HELLO"
      /\ n = 5 => t.hand_state = "CR_ENCRYPTED_EXTENSIONS"
      /\ n = 6 => t.hand_state = "CR_CERT_REQ"
      /\ n = 7 => t.hand_state = "CR_CERT"
      /\ n = 8 => t.hand_state = "CR_CERT_VRFY"
      /\ n = 9 => t.hand_state = "CR_FINISHED"
  BY <1>3 DEF ClientReadsAt
<1>5. /\ s.hello_retry_request = IF c.hrr /\ m >= 2 THEN "PENDING" ELSE "NONE"
      /\ t.hello_retry_request = IF n = 2 THEN "PENDING" ELSE s.hello_retry_request
  BY DEF ClientHears, ClientAt, ClientLines
<1>6. ~Unsaid(t)
  BY DEF ClientHears, Unsaid
<1>7. t.quic_read_level = IF n < 4 THEN ssl_encryption_initial
                          ELSE IF n < 9 THEN ssl_encryption_handshake
                          ELSE ssl_encryption_application
  <2>1. s.quic_read_level = IF m < 4 THEN ssl_encryption_initial
                            ELSE IF m < 9 THEN ssl_encryption_handshake
                            ELSE ssl_encryption_application
    BY DEF ClientAt, ClientLevels
  <2>2. /\ n = 4 => t.quic_read_level = ssl_encryption_handshake
        /\ n = 9 => t.quic_read_level = ssl_encryption_application
        /\ n \notin {4, 9} => t.quic_read_level = s.quic_read_level
    BY DEF ClientHears
  <2> QED  BY <1>1, <1>2, <2>1, <2>2
<1>8. ssl_encryption_handshake # ssl_encryption_initial
      /\ ssl_encryption_application # ssl_encryption_handshake
  BY DEF ssl_encryption_handshake, ssl_encryption_initial, ssl_encryption_application
<1>9. ClientPos(t, c) = n
  BY <1>1, <1>4, <1>7, <1>8, ClientPosValues
<1>10. ClientLines(t, c, n)
  <2>1. t.hand_state \notin ClientWrites
    BY <1>1, <1>4 DEF ClientWrites
  <2>2. t.hello_retry_request = IF c.hrr /\ n >= 2 THEN "PENDING" ELSE "NONE"
    BY <1>1, <1>2, <1>5
  <2> QED  BY <1>1, <1>3, <1>6, <2>1, <2>2 DEF ClientLines, ClientWrites
<1>11. ClientChoices(t, c, n)
  <2>1. /\ n # 0 /\ t.early_data_state # "CONNECTING"
    BY <1>1, <1>3
  <2>2. n >= 4 => t.hit = Resumes(c)
    <3>1. m >= 4 => s.hit = Resumes(c)
      BY DEF ClientAt, ClientChoices
    <3>2. t.hit = IF n = 4 THEN Resumes(c) ELSE s.hit
      BY DEF ClientHears
    <3> QED  BY <1>1, <1>2, <3>1, <3>2
  <2>3. t.early_data = "ACCEPTED" <=> n >= 5 /\ Admits(c)
    <3>1. s.early_data = "ACCEPTED" <=> m >= 5 /\ Admits(c)
      BY DEF ClientAt, ClientChoices
    <3>2. t.early_data = IF n = 5 /\ Admits(c) THEN "ACCEPTED" ELSE s.early_data
      BY DEF ClientHears
    <3> QED  BY <1>1, <1>2, <3>1, <3>2
  <2>4. /\ t.cert_req = IF n < 6 \/ ~Asks(c) THEN 0
                        ELSE IF n <= 8 /\ ~(n = 8 /\ t.read_state = "HEADER") THEN 1
                        ELSE IF c.clientCert THEN 1 ELSE 2
        /\ n = 8 /\ t.read_state = "POST_PROCESS" => Asks(c)
    <3>1. s.cert_req = IF m < 6 \/ ~Asks(c) THEN 0
                       ELSE IF m <= 8 /\ ~(m = 8 /\ s.read_state = "HEADER") THEN 1
                       ELSE IF c.clientCert THEN 1 ELSE 2
      BY DEF ClientAt, ClientChoices
    <3>2. t.cert_req = IF n = 6 THEN 1 ELSE s.cert_req
      BY DEF ClientHears
    <3>3. t.read_state = IF n = 7 \/ (n = 8 /\ s.cert_req = 1) THEN "POST_PROCESS" ELSE "HEADER"
      BY DEF ClientHears
    <3>4. Asks(c) => c.certReq /\ ~Resumes(c)
      BY DEF Asks
    <3>5. CASE n \in {2, 4, 5, 6, 7}
      BY <1>1, <1>2, <3>1, <3>2, <3>4, <3>5
    <3>6. CASE n = 8
      BY <1>1, <1>2, <3>1, <3>2, <3>3, <3>4, <3>6
    <3>7. CASE n = 9
      <4>1. m = 8 => s.read_state = "HEADER"
        BY DEF ClientListens
      <4> QED  BY <1>1, <1>2, <3>1, <3>2, <3>4, <3>7, <4>1
    <3> QED  BY <1>1, <3>5, <3>6, <3>7
  <2> QED  BY <2>1, <2>2, <2>3, <2>4 DEF ClientChoices
<1>12. ClientLevels(t, n)
  <2>1. /\ ssl_encryption_handshake \in s.secrets => m >= 4
        /\ ssl_encryption_application \in s.secrets => m >= 9
        /\ m >= 4 /\ s.early_data_state = "NONE" => s.quic_write_level = ssl_encryption_handshake
    BY <1>1 DEF ClientAt, ClientLevels
  <2>2. /\ n = 4 => /\ t.secrets = s.secrets \cup {ssl_encryption_handshake}
                    /\ t.quic_write_level = IF s.early_data_state = "NONE"
                                            THEN ssl_encryption_handshake ELSE s.quic_write_level
        /\ n = 9 => t.secrets = s.secrets \cup {ssl_encryption_application}
        /\ n \notin {4, 9} => t.secrets = s.secrets
        /\ n # 4 => t.quic_write_level = s.quic_write_level
    BY DEF ClientHears
  <2>3. /\ ssl_encryption_handshake \in t.secrets => n >= 4
        /\ ssl_encryption_application \in t.secrets => n >= 9
    BY <1>1, <1>2, <1>8, <2>1, <2>2
  <2>4. n >= 4 /\ t.early_data_state = "NONE" => t.quic_write_level = ssl_encryption_handshake
    BY <1>1, <1>2, <1>3, <2>1, <2>2
  <2>5. t.hand_state \notin ClientWrites /\ ~(n >= 10)
    BY <1>1, <1>4 DEF ClientWrites
  <2> QED  BY <1>1, <1>7, <2>3, <2>4, <2>5 DEF ClientLevels
<1>13. ~Astray(t.transcript)
  <2>1. n \in 0 .. 12
    BY <1>1
  <2> QED  BY <1>3, <2>1, PureAfter DEF Pure
<1>14. ClientSide(t, c)
  BY <1>9, <1>10, <1>11, <1>12, <1>13 DEF ClientSide, ClientKept, ClientAt
<1>15. HelloOf(t, c) = HelloOf(s, c) \/ (n = 2 /\ HelloOf(s, c) = 1)
  BY <1>5 DEF HelloOf
<1> QED  BY <1>9, <1>13, <1>14, <1>15

\* What a Finished of the script authenticates is of the script.
LEMMA MacKept ==
    ASSUME NEW c, NEW n \in {9, 12}
    PROVE  ~Astray(MacOf(c, n))
<1>1. PICK m \in 0 .. 12 : Follows(c, n, m) /\ m \in Numbers(c)
  <2>1. {5, 9} \subseteq Numbers(c) /\ (~Resumes(c) => 8 \in Numbers(c))
        /\ (Asks(c) => 10 \in Numbers(c)) /\ (Asks(c) /\ c.clientCert => 11 \in Numbers(c))
    BY NumbersFacts
  <2>2. CASE n = 9
    <3>1. CASE Resumes(c)
      BY <2>1, <2>2, <3>1, FollowsFrom
    <3>2. CASE ~Resumes(c)
      BY <2>1, <2>2, <3>2, FollowsFrom
    <3> QED  BY <3>1, <3>2
  <2>3. CASE n = 12
    <3>1. CASE ~Asks(c)
      BY <2>1, <2>3, <3>1, FollowsFrom
    <3>2. CASE Asks(c) /\ c.clientCert
      BY <2>1, <2>3, <3>2, FollowsFrom
    <3>3. CASE Asks(c) /\ ~c.clientCert
      BY <2>1, <2>3, <3>3, FollowsFrom
    <3> QED  BY <3>1, <3>2, <3>3
  <2> QED  BY <2>2, <2>3
<1>2. MacOf(c, n) = After(c, m)
  BY <1>1, MacNext
<1> QED  BY <1>1, <1>2, PureAfter DEF Pure

\* What a side has read that is not of the script fits no Finished.
LEMMA MacAstray ==
    ASSUME NEW p \in Peer, NEW c, NEW h, NEW a, NEW e, Genuine(p, c, h, a, e),
           e.msg.type = "FINISHED", NEW q,
           \/ e.msg.has = {"stray"} /\ q # <<>>
           \/ e.msg.has # {"stray"} /\ Astray(q)
    PROVE  e.msg.mac # q /\ e.msg.has # {"hrr"}
<1>1. CASE e.msg.has = {"stray"}
  BY <1>1 DEF Genuine
<1>2. CASE e.msg.has # {"stray"}
  <2> DEFINE n == Number(p, h, e)
  <2>1. Scripted(e)
    BY <1>2 DEF Scripted
  <2>2. n \in Lines(p) /\ n \in 1 .. 12 /\ e.msg = MessageOf(c, n)
    BY <2>1, GenuineNumber
  <2> HIDE DEF n
  <2>3. e.msg.mac = MacOf(c, n) /\ TypeOf(n) = "FINISHED" /\ e.msg.has = HasOf(c, n)
    BY <2>2, MessageFacts
  <2>4. n \in {9, 12}
    BY <2>2, <2>3, TypeFacts
  <2>5. ~Astray(e.msg.mac) /\ e.msg.has # {"hrr"}
    BY <2>2, <2>3, <2>4, MacKept, HasFacts
  <2> QED  BY <1>2, <2>5
<1> QED  BY <1>1, <1>2

\* Which message a client takes in which state.
LEMMA ClientSuccessors ==
    ASSUME NEW s, NEW y, NEW next, next = ClientReadTransition(s, y), next # "BAD"
    PROVE  \/ /\ s.hand_state \in {"CW_CLNT_HELLO", "EARLY_DATA"}
              /\ y = "SERVER_HELLO" /\ next = "CR_SRVR_HELLO"
           \/ /\ s.hand_state = "CR_SRVR_HELLO"
              /\ y = "ENCRYPTED_EXTENSIONS" /\ next = "CR_ENCRYPTED_EXTENSIONS"
           \/ /\ s.hand_state = "CR_ENCRYPTED_EXTENSIONS"
              /\ \/ y = "FINISHED" /\ next = "CR_FINISHED"
                 \/ y = "CERTIFICATE_REQUEST" /\ next = "CR_CERT_REQ"
                 \/ y = "CERTIFICATE" /\ next = "CR_CERT"
           \/ s.hand_state = "CR_CERT_REQ" /\ y = "CERTIFICATE" /\ next = "CR_CERT"
           \/ s.hand_state = "CR_CERT" /\ y = "CERTIFICATE_VERIFY" /\ next = "CR_CERT_VRFY"
           \/ s.hand_state = "CR_CERT_VRFY" /\ y = "FINISHED" /\ next = "CR_FINISHED"
           \/ s.hand_state = "OK" /\ y = "NEWSESSION_TICKET" /\ next = "CR_SESSION_TICKET"
  BY DEF ClientReadTransition

\* A client reads a message too many, or has before.
LEMMA ClientLoses ==
    ASSUME NEW s, NEW c, Client(s, c), ClientSide(s, c), At(s, "READING", "HEADER"),
           s.quic_input_data # <<>>, NEW e, e = s.quic_input_data[1],
           e.level = s.quic_read_level, e.msg.type # "NEWSESSION_TICKET",
           NEW next, next = ClientReadTransition(s, e.msg.type), next # "BAD",
           NEW h, NEW a, Genuine("server", c, h, a, e),
           Astray(s.transcript) \/ e.msg.has = {"stray"},
           NEW t, t = Received(s, next)
    PROVE  /\ ClientSide(t, c) /\ Astray(t.transcript)
           /\ ClientPos(s, c) \in 4 .. 8 /\ ClientPos(t, c) \in ClientPos(s, c) .. 9
           /\ t.quic_input_data = Tail(s.quic_input_data)
           /\ Off(t, s, ReadFields \ {"hello_retry_request", "clienthello"})
           /\ s.secrets \subseteq t.secrets /\ ~s.done
<1>1. /\ s.state = "READING" /\ s.read_state = "HEADER" /\ ClientPlace(s, c) /\ DOMAIN s = Fields
      /\ s.transcript \in Seq(Kinds) /\ Data(s, c) /\ s.state # "ERROR"
  <2>1. s.state = "READING" /\ s.read_state = "HEADER"
    BY DEF At
  <2> QED  BY <2>1 DEF Client, Endpoint, Shape, Data
<1>2. /\ s.quic_read_level = ssl_encryption_handshake
      /\ e.msg.has = {"stray"} =>
            e.msg.type \in {"CERTIFICATE_REQUEST", "CERTIFICATE", "FINISHED"}
      /\ Astray(s.transcript) => s.hand_state \in {"CR_CERT_REQ", "CR_CERT", "CR_CERT_VRFY"}
      /\ ssl_encryption_application \notin s.secrets
  <2>1. e.msg.has = {"stray"} =>
            e.msg.type \in {"CERTIFICATE_REQUEST", "CERTIFICATE", "FINISHED"}
            /\ e.level = ssl_encryption_handshake
    BY DEF Genuine
  <2>2. CASE Astray(s.transcript)
    BY <1>1, <2>1, <2>2 DEF ClientSide, ClientLost
  <2>3. CASE ~Astray(s.transcript)
    <3> DEFINE m == ClientPos(s, c)
    <3>1. ClientAt(s, c, m) /\ m \in 0 .. 12
      BY <1>1, <2>3, ClientKeeps, PosRange DEF Pos
    <3> HIDE DEF m
    <3>2. s.quic_read_level = ssl_encryption_handshake
      BY <2>1, <2>3
    <3>3. m < 9
      BY <3>1, <3>2 DEF ClientAt, ClientLevels, ssl_encryption_handshake,
                        ssl_encryption_application, ssl_encryption_initial
    <3>4. ssl_encryption_application \notin s.secrets
      BY <3>1, <3>3 DEF ClientAt, ClientLevels
    <3> QED  BY <2>1, <2>3, <3>2, <3>4
  <2> QED  BY <2>2, <2>3
<1>3. /\ \/ s.hand_state = "CR_ENCRYPTED_EXTENSIONS"
            /\ next \in {"CR_CERT_REQ", "CR_CERT", "CR_FINISHED"}
         \/ s.hand_state = "CR_CERT_REQ" /\ next = "CR_CERT"
         \/ s.hand_state = "CR_CERT" /\ next = "CR_CERT_VRFY"
         \/ s.hand_state = "CR_CERT_VRFY" /\ next = "CR_FINISHED"
      /\ next = "CR_FINISHED" => e.msg.type = "FINISHED"
      /\ e.msg.type \in {"CERTIFICATE_REQUEST", "CERTIFICATE", "CERTIFICATE_VERIFY", "FINISHED"}
  <2> DEFINE y == e.msg.type
  <2>1. y = e.msg.type
    OBVIOUS
  <2> HIDE DEF y
  <2>2. \/ /\ s.hand_state \in {"CW_CLNT_HELLO", "EARLY_DATA"}
           /\ y = "SERVER_HELLO" /\ next = "CR_SRVR_HELLO"
        \/ /\ s.hand_state = "CR_SRVR_HELLO"
           /\ y = "ENCRYPTED_EXTENSIONS" /\ next = "CR_ENCRYPTED_EXTENSIONS"
        \/ /\ s.hand_state = "CR_ENCRYPTED_EXTENSIONS"
           /\ \/ y = "FINISHED" /\ next = "CR_FINISHED"
              \/ y = "CERTIFICATE_REQUEST" /\ next = "CR_CERT_REQ"
              \/ y = "CERTIFICATE" /\ next = "CR_CERT"
        \/ s.hand_state = "CR_CERT_REQ" /\ y = "CERTIFICATE" /\ next = "CR_CERT"
        \/ s.hand_state = "CR_CERT" /\ y = "CERTIFICATE_VERIFY" /\ next = "CR_CERT_VRFY"
        \/ s.hand_state = "CR_CERT_VRFY" /\ y = "FINISHED" /\ next = "CR_FINISHED"
        \/ s.hand_state = "OK" /\ y = "NEWSESSION_TICKET" /\ next = "CR_SESSION_TICKET"
    BY <2>1, ClientSuccessors
  <2>3. \/ s.hand_state \in {"CR_CERT_REQ", "CR_CERT", "CR_CERT_VRFY"}
        \/ y \in {"CERTIFICATE_REQUEST", "CERTIFICATE", "FINISHED"}
    BY <1>2, <2>1
  <2> QED  BY <2>1, <2>2, <2>3
<1>4. s.hand_state \in {"CR_ENCRYPTED_EXTENSIONS", "CR_CERT_REQ", "CR_CERT", "CR_CERT_VRFY"}
      /\ next \in {"CR_CERT_REQ", "CR_CERT", "CR_CERT_VRFY", "CR_FINISHED"}
  BY <1>3
<1>5. e.msg.has # {"hrr"}
  <2>1. CASE e.msg.has = {"stray"}
    BY <2>1
  <2>2. CASE e.msg.has # {"stray"}
    <3> DEFINE n == Number("server", h, e)
    <3>1. Scripted(e)
      BY <2>2 DEF Scripted
    <3>2. n \in 1 .. 12 /\ e.msg = MessageOf(c, n)
      BY <3>1, GenuineNumber
    <3> HIDE DEF n
    <3>3. TypeOf(n) = e.msg.type /\ e.msg.has = HasOf(c, n)
      BY <3>2, MessageFacts
    <3>4. n # 2
      BY <1>3, <3>2, <3>3, TypeFacts
    <3> QED  BY <3>2, <3>3, <3>4, HasFacts
  <2> QED  BY <2>1, <2>2
<1> DEFINE b == Body(s, next)
<1>6. /\ Off(b, s, {"quic_input_data", "msg", "transcript", "hand_state"})
      /\ b.hand_state = next /\ b.quic_input_data = Tail(s.quic_input_data)
      /\ b.transcript = Append(s.transcript, Entry(e.msg))
  <2>1. b.transcript = IF e.msg.type = "NEWSESSION_TICKET" \/ e.msg.has = {"hrr"}
                       THEN s.transcript ELSE Append(s.transcript, Entry(e.msg))
    BY <1>1, BodyFields
  <2>2. /\ Off(b, s, {"quic_input_data", "msg", "transcript", "hand_state"})
        /\ b.hand_state = next /\ b.quic_input_data = Tail(s.quic_input_data)
    BY <1>1, BodyFields
  <2> QED  BY <1>5, <2>1, <2>2
<1>7. Entry(e.msg) \in Kinds /\ Entry(e.msg).has = e.msg.has
  <2>1. Entry(e.msg) \in Kinds
    BY <1>1, BodyTypes
  <2> QED  BY <2>1 DEF Entry
<1>8. Astray(b.transcript)
  BY <1>1, <1>6, <1>7, AstrayAppend
<1> HIDE DEF b
<1>9. DOMAIN b = Fields /\ b.state = "READING" /\ b.secrets = s.secrets
      /\ b.quic_read_level = s.quic_read_level
  BY <1>1, <1>6 DEF Off, Fields
<1>10. /\ Off(t, s, ReadFields \ {"hello_retry_request", "clienthello"})
       /\ t.transcript = b.transcript /\ t.quic_input_data = b.quic_input_data
       /\ t.secrets = s.secrets /\ t.hand_state = next
       /\ t.quic_read_level = s.quic_read_level
       /\ next = "CR_FINISHED" => t.state = "ERROR"
  <2>1. CASE next # "CR_FINISHED"
    <3> DEFINE u == ProcessMessage(b, e.msg)
    <3>1. b.hand_state \in {"CR_ENCRYPTED_EXTENSIONS", "CR_CERT_REQ", "CR_CERT", "CR_CERT_VRFY"}
      BY <1>4, <1>6, <2>1
    <3>2. Off(u, b, {"early_data", "cert_req", "read_state"})
      BY <1>9, <3>1, FlightProcessed
    <3> HIDE DEF u
    <3>3. u.state = "READING"
      BY <1>9, <3>2 DEF Off, Fields
    <3>4. t = u
      BY <3>3 DEF Received, u, b
    <3>5. Off(u, s, ReadFields \ {"hello_retry_request", "clienthello"})
      BY <1>6, <3>2 DEF Off, Fields, ReadFields
    <3>6. /\ u.transcript = b.transcript /\ u.quic_input_data = b.quic_input_data
          /\ u.secrets = s.secrets /\ u.hand_state = next
          /\ u.quic_read_level = s.quic_read_level
      BY <1>6, <1>9, <3>2 DEF Off, Fields
    <3> QED  BY <2>1, <3>4, <3>5, <3>6
  <2>2. CASE next = "CR_FINISHED"
    <3>1. s.transcript # <<>>
      <4>1. s.transcript = <<>> => s.hand_state \in {"BEFORE", "CW_CLNT_HELLO"}
        BY <1>1 DEF ClientPlace
      <4> QED  BY <1>4, <4>1
    <3>2. e.msg.mac # s.transcript
      <4>1. \/ e.msg.has = {"stray"} /\ s.transcript # <<>>
            \/ e.msg.has # {"stray"} /\ Astray(s.transcript)
        BY <3>1
      <4>2. e.msg.type = "FINISHED" /\ "server" \in Peer
        BY <1>3, <2>2 DEF Peer
      <4> QED  BY <4>1, <4>2, MacAstray
    <3>3. SubSeq(b.transcript, 1, Len(b.transcript) - 1) = s.transcript
      BY <1>1, <1>6, <1>7, AllButLast
    <3>4. ProcessMessage(b, e.msg) = SSLfatal(b)
      <4>1. /\ e.msg.mac # SubSeq(b.transcript, 1, Len(b.transcript) - 1)
            /\ b.hand_state \in {"CR_FINISHED", "SR_FINISHED"}
        BY <1>6, <2>2, <3>2, <3>3
      <4> QED  BY <4>1, FinishedRefused
    <3>5. SSLfatal(b).state = "ERROR"
      BY <1>9 DEF SSLfatal, Fields
    <3>6. t = Return(SSLfatal(b), "NOTHING")
      BY <3>4, <3>5 DEF Received, b
    <3>7. Off(t, b, {"state", "in_init", "call", "rwstate"}) /\ t.state = "ERROR"
      BY <1>9, <3>6, FatalFields
    <3>8. Off(t, s, ReadFields \ {"hello_retry_request", "clienthello"})
      BY <1>6, <3>7 DEF Off, Fields, ReadFields
    <3>9. /\ t.transcript = b.transcript /\ t.quic_input_data = b.quic_input_data
          /\ t.secrets = s.secrets /\ t.hand_state = next
          /\ t.quic_read_level = s.quic_read_level
      BY <1>6, <1>9, <3>7 DEF Off, Fields
    <3> QED  BY <3>7, <3>8, <3>9
  <2> QED  BY <2>1, <2>2
<1>11. ClientSide(t, c) /\ Astray(t.transcript)
  <2>1. Astray(t.transcript)
    BY <1>8, <1>10
  <2>2. ClientLost(t, c)
    BY <1>2, <1>4, <1>10 DEF ClientLost
  <2> QED  BY <2>1, <2>2 DEF ClientSide
<1>12. ClientPos(s, c) \in 4 .. 8 /\ ClientPos(t, c) \in ClientPos(s, c) .. 9
  <2>1. /\ s.hand_state = "CR_ENCRYPTED_EXTENSIONS" => ClientPos(s, c) = 5
        /\ s.hand_state = "CR_CERT_REQ" => ClientPos(s, c) = 6
        /\ s.hand_state = "CR_CERT" => ClientPos(s, c) = 7
        /\ s.hand_state = "CR_CERT_VRFY" => ClientPos(s, c) = 8
    BY ClientPosValues
  <2>2. /\ next = "CR_CERT_REQ" => ClientPos(t, c) = 6
        /\ next = "CR_CERT" => ClientPos(t, c) = 7
        /\ next = "CR_CERT_VRFY" => ClientPos(t, c) = 8
        /\ next = "CR_FINISHED" => ClientPos(t, c) = 9
    BY <1>10, ClientPosValues
  <2> QED  BY <1>3, <2>1, <2>2
<1>13. ~s.done
  BY <1>1, <1>4 DEF ClientPlace
<1> QED  BY <1>6, <1>10, <1>11, <1>12, <1>13

-----------------------------------------------------------------------------
(* Actions of the client *)

\* What the inductive invariant says of p's side.
Owned(p, s, c) == IF p = "client" THEN Client(s, c) ELSE Server(s, c)

\* A side that has not failed reports a handshake only when it is through.
LEMMA OwnedReported ==
    ASSUME NEW p \in Peer, NEW t, NEW c, Owned(p, t, c), t.state # "ERROR"
    PROVE  Reported(t)
<1>1. CASE p = "client"
  BY <1>1 DEF Owned, Client, ClientPlace, Reported
<1>2. CASE p = "server"
  BY <1>2 DEF Owned, Server, ServerPlace, Reported
<1> QED  BY <1>1, <1>2 DEF Peer

\* A step of one side that sends nothing.
LEMMA Quietly ==
    ASSUME IInv, NEW p \in Peer, NEW t, Becomes(p, t) \/ FailsTo(p, t),
           t.flight = ssl[p].flight
    PROVE  /\ Turns(p, t) /\ wire'[p] \o t.flight = Way(p)
           /\ FailsTo(p, t) => faults' # MaxFaults
<1>1. Other(p) # p /\ Other(p) \in Peer /\ DOMAIN ssl = Peer
  BY DEF Other, Peer, IInv
<1>2. ssl' = [ssl EXCEPT ![p] = t] /\ wire' = wire /\ config' = config
  BY DEF Becomes, FailsTo
<1>3. ssl'[p] = t /\ ssl'[Other(p)] = ssl[Other(p)]
  BY <1>1, <1>2
<1>4. faults \in 0 .. MaxFaults /\ MaxFaults \in Nat
  BY BoundsAssumption DEF IInv
<1>5. /\ faults' = MaxFaults => faults = MaxFaults
      /\ FailsTo(p, t) => faults' # MaxFaults
  <2>1. CASE Becomes(p, t)
    <3>1. faults' = faults
      BY <2>1 DEF Becomes
    <3>2. FailsTo(p, t) => faults' = faults - 1
      BY DEF FailsTo
    <3> QED  BY <1>4, <3>1, <3>2
  <2>2. CASE FailsTo(p, t)
    <3>1. faults' = faults - 1
      BY <2>2 DEF FailsTo
    <3> QED  BY <1>4, <3>1
  <2> QED  BY <2>1, <2>2
<1> QED  BY <1>2, <1>3, <1>5 DEF Turns, Way

\* A calm step that sends nothing.
LEMMA TurnQuiet ==
    ASSUME IInv, SInv, NEW p \in Peer, NEW t, Becomes(p, t) \/ FailsTo(p, t),
           t.flight = ssl[p].flight, Owned(p, t, config), Forward(ssl[p], t),
           Calm(p, ssl[p], t, config),
           t.state = "ERROR" => Reported(t) /\ (FailsTo(p, t) \/ faults # MaxFaults)
    PROVE  SInv'
<1>1. Turns(p, t) /\ wire'[p] \o t.flight = Way(p) /\ (FailsTo(p, t) => faults' # MaxFaults)
  BY Quietly
<1>2. Reported(t)
  BY OwnedReported
<1>3. t.server = ssl[p].server /\ ssl[p].secrets \subseteq t.secrets
  BY DEF Owned, IInv, Client, Server, Forward, Peer
<1>4. faults = MaxFaults => faults' # MaxFaults \/ t.state # "ERROR"
  BY <1>1
<1> QED  BY <1>1, <1>2, <1>3, <1>4, TurnCalm

\* A call of either side that fails.
LEMMA TurnFatal ==
    ASSUME IInv, SInv, NEW p \in Peer, NEW t, t = Return(SSLfatal(ssl[p]), "NOTHING"),
           \/ FailsTo(p, t)
           \/ Becomes(p, t) /\ faults # MaxFaults
    PROVE  SInv'
<1> DEFINE s == ssl[p]
<1>1. Shape(s) /\ DOMAIN s = Fields /\ Owned(p, s, config)
  BY DEF IInv, Client, Server, Endpoint, Shape, Peer, Owned
<1>2. Side(p, s, config) /\ Reported(s)
  BY TurnFacts
<1> HIDE DEF s
<1>3. Owned(p, t, config) /\ Forward(s, t)
  BY <1>1, FatalClient, FatalServer DEF Owned, Peer, s, ServerStep
<1>4. Calm(p, s, t, config)
  BY <1>1, <1>2, Returns DEF s
<1>5. Off(t, s, {"state", "in_init", "call", "rwstate"}) /\ t.state = "ERROR"
  BY <1>1, FatalFields DEF s
<1>6. t.flight = s.flight /\ t.done = s.done /\ t.hand_state = s.hand_state
  BY <1>5 DEF Off, Fields
<1>7. Reported(t)
  BY <1>2, <1>6 DEF Reported
<1> QED  BY <1>3, <1>4, <1>6, <1>7, TurnQuiet DEF s

\* A step of p into the error state is a failure of its own or follows a message
\* too many.
Excused(p) == ssl'[p].state = "ERROR" => FatalFailure(p) \/ MetStray(p)

\* There is a message too many only once a peer has sent one.
LEMMA StrayIsFault ==
    ASSUME IInv, SInv, NEW p \in Peer, MetStray(p)
    PROVE  faults # MaxFaults
<1> SUFFICES ASSUME faults = MaxFaults PROVE FALSE
  OBVIOUS
<1> DEFINE s == ssl[p]
<1>1. Clean(s.quic_input_data) /\ ~Astray(s.transcript)
  BY DEF SInv, Faultless
<1>2. s.quic_input_data # <<>> => 1 \in 1 .. Len(s.quic_input_data)
  <2>1. s.quic_input_data \in Seq(Entries)
    BY TurnFacts
  <2> QED  BY <2>1, TailOf
<1> HIDE DEF s
<1> QED  BY <1>1, <1>2 DEF MetStray, Clean, Astray, s

\* What is known of the first message in the queue of a side.
LEMMA HeadKnown ==
    ASSUME IInv, SInv, NEW p \in Peer, ssl[p].quic_input_data # <<>>
    PROVE  LET q == Other(p)
               e == ssl[p].quic_input_data[1]
           IN  /\ e \in Entries /\ CanDecrypt(ssl[p], e.level)
               /\ Genuine(q, config, Hello(q, ssl[q], config), Pos(q, ssl[q], config), e)
               /\ faults = MaxFaults => e.msg.has # {"stray"} /\ ~Astray(ssl[p].transcript)
<1> DEFINE q == Other(p)
           s == ssl[p]
<1>1. /\ s.quic_input_data \in Seq(Entries) /\ Intake(s)
      /\ Channel(q, config, Hello(q, ssl[q], config), Pos(q, ssl[q], config), Pos(p, s, config),
                 Astray(s.transcript), s.quic_input_data, Way(q))
  BY TurnFacts
<1>2. 1 \in 1 .. Len(s.quic_input_data) /\ s.quic_input_data[1] \in Entries
  BY <1>1, TailOf
<1>3. faults = MaxFaults => Clean(s.quic_input_data) /\ ~Astray(s.transcript)
  BY DEF SInv, Faultless
<1> HIDE DEF s, q
<1>4. Fit(q, config, Hello(q, ssl[q], config), Pos(q, ssl[q], config), s.quic_input_data)
  BY <1>1 DEF Channel
<1>5. Genuine(q, config, Hello(q, ssl[q], config), Pos(q, ssl[q], config), s.quic_input_data[1])
  BY <1>2, <1>4 DEF Fit
<1>6. CanDecrypt(s, s.quic_input_data[1].level)
  BY <1>1, <1>2 DEF Intake
<1> QED  BY <1>2, <1>3, <1>5, <1>6 DEF s, q, Clean

\* A client that keeps to the script finds the message that comes next.
LEMMA ClientFinds ==
    ASSUME IInv, SInv, At(ssl["client"], "READING", "HEADER"),
           ~Astray(ssl["client"].transcript), ssl["client"].quic_input_data # <<>>,
           Scripted(ssl["client"].quic_input_data[1]), NEW n,
           n = Number("server", Hello("server", ssl["server"], config),
                      ssl["client"].quic_input_data[1])
    PROVE  LET s == ssl["client"]
               e == s.quic_input_data[1]
               m == ClientPos(s, config)
           IN  /\ ClientListens(s, config, n, m) /\ ClientAt(s, config, m)
               /\ ~Unsaid(s) /\ s.early_data_state # "CONNECTING"
               /\ n = 2 => HelloOf(s, config) = 1
               /\ e.level = s.quic_read_level
               /\ ClientReadTransition(s, e.msg.type) = ClientReadsAt(n)
<1> DEFINE s == ssl["client"]
           e == s.quic_input_data[1]
           c == config
           m == ClientPos(s, c)
<1>1. "client" \in Peer /\ Other("client") = "server"
  BY DEF Peer, Other
<1>2. /\ n \in Numbers(c) \intersect Lines("server") /\ m < n
      /\ e.msg = MessageOf(c, n) /\ e.level = LevelOf(n)
      /\ \A k \in Numbers(c) \intersect Lines("server") : k < n => k <= m
  BY <1>1, HeadFacts DEF Pos
<1>3. Client(s, c) /\ ClientSide(s, c) /\ DOMAIN s = Fields /\ s.server = FALSE
  BY <1>1, TurnFacts DEF IInv, Client, Endpoint, Shape, Side
<1>4. s.state = "READING" /\ s.read_state = "HEADER"
  BY DEF At
<1>5. At(s, "READING", "HEADER") /\ ~Astray(s.transcript)
  OBVIOUS
<1> HIDE DEF s, e, m, c
<1>6. /\ Follows(c, n, m) /\ n \in {2, 4, 5, 6, 7, 8, 9} /\ m \in 1 .. 8
      /\ ClientAt(s, c, m) /\ m \in Numbers(c)
      /\ LevelOf(n) = s.quic_read_level
      /\ ClientReadTransition(s, TypeOf(n)) = ClientReadsAt(n)
      /\ n = 2 => s.hello_retry_request = "NONE" /\ HelloOf(s, c) = 1
      /\ s.early_data_state # "CONNECTING" /\ ~Unsaid(s)
  BY <1>2, <1>3, <1>5, ClientExpects DEF m
<1>7. e.msg.type = TypeOf(n)
  BY <1>2, MessageFacts
<1>8. s.transcript = After(c, m)
  BY <1>6 DEF ClientAt, ClientLines
<1>9. ClientListens(s, c, n, m)
  BY <1>2, <1>3, <1>4, <1>6, <1>8 DEF ClientListens, e
<1> QED  BY <1>2, <1>6, <1>7, <1>9 DEF s, e, m, c

\* A client reads a message.
LEMMA ClientTakes ==
    ASSUME IInv, SInv, ReadMessage("client")
    PROVE  SInv' /\ Excused("client")
<1> DEFINE s == ssl["client"]
           e == s.quic_input_data[1]
           c == config
           m == ClientPos(s, c)
           next == ClientReadTransition(s, e.msg.type)
           t == Received(s, next)
<1>1. "client" \in Peer /\ Other("client") = "server"
  BY DEF Peer, Other
<1>2. Client(s, c) /\ ClientSide(s, c) /\ DOMAIN s = Fields /\ s.server = FALSE
  BY <1>1, TurnFacts DEF IInv, Client, Endpoint, Shape, Side
<1>3. ReadTransition(s, e.msg.type) = next
  BY <1>2 DEF ReadTransition
<1>4. /\ s.call # "none" /\ At(s, "READING", "HEADER") /\ s.quic_input_data # <<>>
      /\ next # "BAD" /\ Becomes("client", t) /\ e.level = s.quic_read_level
  BY <1>3 DEF ReadMessage, Reading, At, Received, Body
<1>5. ClientStep(s, t, c)
  <2>1. next = ClientReadTransition(s, s.quic_input_data[1].msg.type) /\ t = Received(s, next)
    OBVIOUS
  <2> HIDE DEF s, c, next, t
  <2> QED  BY <1>2, <1>4, <2>1, ClientReceive
<1>6. Client(t, c) /\ s.secrets \subseteq t.secrets /\ t.server = s.server
  <2> HIDE DEF s, c, next, t
  <2> QED  BY <1>2, <1>5 DEF ClientStep, Forward, Client
<1>7. Genuine("server", c, Hello("server", ssl["server"], c), Pos("server", ssl["server"], c), e)
      /\ (faults = MaxFaults => e.msg.has # {"stray"} /\ ~Astray(s.transcript))
  BY <1>1, <1>4, HeadKnown
<1>8. s.state = "READING" /\ s.read_state = "HEADER"
  BY <1>4 DEF At
<1>0. /\ t.state # "ERROR" => Excused("client")
      /\ Astray(s.transcript) \/ e.msg.has = {"stray"} => Excused("client")
  <2>1. DOMAIN ssl = Peer
    BY DEF IInv
  <2> HIDE DEF t
  <2>2. ssl'["client"] = t
    BY <1>1, <1>4, <2>1 DEF Becomes
  <2>3. t.state # "ERROR" => Excused("client")
    BY <2>2 DEF Excused
  <2>4. Astray(s.transcript) \/ e.msg.has = {"stray"} => Excused("client")
    BY <1>4 DEF Excused, MetStray, Astray
  <2> QED  BY <2>3, <2>4
<1>9. CASE ~Astray(s.transcript) /\ Scripted(e)
  <2> DEFINE n == Number("server", Hello("server", ssl["server"], c), e)
  <2>1. /\ ClientListens(s, c, n, m) /\ ClientAt(s, c, m) /\ ~Unsaid(s)
        /\ s.early_data_state # "CONNECTING" /\ (n = 2 => HelloOf(s, c) = 1)
        /\ next = ClientReadsAt(n)
    BY <1>4, <1>9, ClientFinds
  <2>2. n \in {2, 4, 5, 6, 7, 8, 9} /\ Follows(c, n, m)
    BY <2>1 DEF ClientListens
  <2> HIDE DEF n, m, s, c, e, t, next
  <2>3. ClientHears(s, t, c, n)
    <3>1. t = Received(s, ClientReadsAt(n))
      BY <2>1 DEF t
    <3>2. CASE n = 2
      <4>1. c.hrr
        BY <2>2, <3>2, NumbersFacts DEF Follows
      <4> QED  BY <2>1, <3>1, <3>2, <4>1, ClientHearsRetry
    <3>3. CASE n = 4
      BY <2>1, <3>1, <3>3, ClientHearsHello
    <3>4. CASE n \in {5, 6, 7, 8}
      BY <2>1, <3>1, <3>4, ClientHearsFlight
    <3>5. CASE n = 9
      BY <2>1, <3>1, <3>5, ClientHearsFinished
    <3> QED  BY <2>2, <3>2, <3>3, <3>4, <3>5
  <2>4. /\ ClientSide(t, c) /\ ClientPos(t, c) = n /\ ~Astray(t.transcript)
        /\ HelloOf(t, c) = HelloOf(s, c) \/ (n = 2 /\ HelloOf(s, c) = 1)
    BY <2>1, <2>3, ClientHeard
  <2>5. /\ t.quic_input_data = Tail(s.quic_input_data) /\ t.state # "ERROR"
        /\ t.quic_latest_level_received = s.quic_latest_level_received /\ t.flight = s.flight
    BY <2>3 DEF ClientHears, Off, Fields, ReadFields
  <2>6. Reported(t)
    BY <1>1, <1>6, <2>5, OwnedReported DEF Owned
  <2>7. Onward(s, t)
    BY <1>6, <2>5, <2>6 DEF Onward
  <2>8. Turns("client", t) /\ wire'["client"] \o t.flight = Way("client")
    BY <1>1, <1>4, <2>5, Quietly DEF s
  <2>9. /\ Side("client", t, c) /\ Pos("client", t, c) = n /\ Pos("client", s, c) = m
        /\ Hello("client", t, c) = HelloOf(t, c) /\ Hello("client", s, c) = HelloOf(s, c)
    BY <2>4 DEF Side, Pos, Hello, m
  <2>10. Follows(config, n, Pos("client", ssl["client"], config))
    BY <2>2, <2>9 DEF s, c
  <2>11. \/ Hello("client", t, config) = Hello("client", ssl["client"], config)
         \/ "client" = "client" /\ n = 2 /\ Hello("client", ssl["client"], config) = 1
    BY <2>4, <2>9 DEF s, c
  <2>12. /\ ~Astray(ssl["client"].transcript) /\ ssl["client"].quic_input_data # <<>>
         /\ Scripted(ssl["client"].quic_input_data[1])
         /\ n = Number(Other("client"), Hello(Other("client"), ssl[Other("client")], config),
                       ssl["client"].quic_input_data[1])
         /\ t.quic_input_data = Tail(ssl["client"].quic_input_data)
         /\ Onward(ssl["client"], t) /\ Side("client", t, config) /\ Pos("client", t, config) = n
    BY <1>1, <1>4, <1>9, <2>5, <2>7, <2>9 DEF s, c, e, n
  <2> QED  BY <1>0, <1>1, <2>4, <2>5, <2>8, <2>10, <2>11, <2>12, TurnHears
<1>10. CASE ~Astray(s.transcript) /\ e.msg.type = "NEWSESSION_TICKET"
  <2>1. s.hand_state = "OK" /\ next = "CR_SESSION_TICKET"
    BY <1>4, <1>10 DEF ClientReadTransition
  <2> DEFINE b == Body(s, next)
             u == ProcessMessage(b, e.msg)
  <2>2. /\ Off(b, s, {"quic_input_data", "msg", "transcript", "hand_state"})
        /\ b.hand_state = next /\ b.quic_input_data = Tail(s.quic_input_data)
        /\ b.transcript = s.transcript
    BY <1>2, <1>10, BodyFields
  <2> HIDE DEF b
  <2>3. /\ Off(u, b, {"tickets_received", "read_state", "state", "write_state"})
        /\ u.state = "WRITING" /\ u.write_state = "TRANSITION"
    BY <2>1, <2>2, TicketFields DEF Off
  <2>4. t = u
    BY <2>3 DEF Received, b
  <2> HIDE DEF u, t, next
  <2>5. /\ t.quic_input_data = Tail(s.quic_input_data) /\ t.transcript = s.transcript
        /\ t.state = "WRITING" /\ t.write_state = "TRANSITION"
        /\ t.hand_state = "CR_SESSION_TICKET" /\ t.hit = s.hit /\ t.cert_req = s.cert_req
        /\ t.hello_retry_request = s.hello_retry_request /\ t.early_data = s.early_data
        /\ t.early_data_state = s.early_data_state /\ t.secrets = s.secrets
        /\ t.quic_read_level = s.quic_read_level /\ t.quic_write_level = s.quic_write_level
        /\ t.quic_latest_level_received = s.quic_latest_level_received /\ t.flight = s.flight
    BY <2>1, <2>2, <2>3, <2>4 DEF Off, Fields
  <2>6. ClientPos(s, c) = 12 /\ ClientPos(t, c) = 12 /\ HelloOf(t, c) = HelloOf(s, c)
    <3>1. ClientPos(s, c) = 12
      BY <2>1, ClientPosValues
    <3>2. ClientPos(t, c) = 12
      BY <2>5, ClientPosValues
    <3>3. HelloOf(t, c) = HelloOf(s, c)
      BY <2>5 DEF HelloOf
    <3> QED  BY <3>1, <3>2, <3>3
  <2>7. ClientAt(s, c, 12)
    BY <1>2, <1>8, <1>10, <2>6, ClientKeeps
  <2>8. ClientAt(t, c, 12)
    <3>1. ClientLines(t, c, 12)
      BY <2>5, <2>7 DEF ClientAt, ClientLines, ClientWrites, Unsaid
    <3>2. ClientChoices(t, c, 12)
      BY <2>5, <2>7 DEF ClientAt, ClientChoices
    <3>3. ClientLevels(t, 12)
      BY <2>5, <2>7 DEF ClientAt, ClientLevels
    <3> QED  BY <3>1, <3>2, <3>3 DEF ClientAt
  <2>9. ClientSide(t, c)
    BY <1>10, <2>5, <2>6, <2>8 DEF ClientSide, ClientKept
  <2>10. Reported(t) /\ Onward(s, t)
    <3>1. Reported(t)
      BY <2>5 DEF Reported
    <3> QED  BY <1>6, <2>5, <3>1 DEF Onward
  <2>11. Turns("client", t) /\ wire'["client"] \o t.flight = Way("client")
    BY <1>1, <1>4, <2>5, Quietly
  <2>12. ~Scripted(e)
    BY <1>10 DEF Scripted
  <2> QED  BY <1>0, <1>1, <1>4, <1>10, <2>5, <2>6, <2>9, <2>10, <2>11, <2>12, TurnDrops
              DEF Side, Pos, Hello
<1>11. CASE /\ e.msg.type # "NEWSESSION_TICKET"
            /\ Astray(s.transcript) \/ e.msg.has = {"stray"}
  <2> HIDE DEF m, s, c, e, t, next
  <2>1. /\ ClientSide(t, c) /\ Astray(t.transcript)
        /\ ClientPos(s, c) \in 4 .. 8 /\ ClientPos(t, c) \in ClientPos(s, c) .. 9
        /\ t.quic_input_data = Tail(s.quic_input_data)
        /\ Off(t, s, ReadFields \ {"hello_retry_request", "clienthello"})
        /\ s.secrets \subseteq t.secrets /\ ~s.done
    BY <1>2, <1>4, <1>7, <1>11, ClientLoses DEF e, next, t
  <2>2. /\ t.quic_latest_level_received = s.quic_latest_level_received /\ t.flight = s.flight
        /\ t.done = s.done /\ t.hello_retry_request = s.hello_retry_request
    BY <2>1 DEF Off, Fields, ReadFields
  <2>3. Onward(s, t)
    BY <1>6, <2>1, <2>2 DEF Onward, Reported
  <2>4. Turns("client", t) /\ wire'["client"] \o t.flight = Way("client")
    BY <1>1, <1>4, <2>2, Quietly DEF s
  <2>5. faults # MaxFaults
    BY <1>7, <1>11
  <2>6. HelloOf(t, c) = HelloOf(s, c)
    BY <2>2 DEF HelloOf
  <2>7. \A k \in Numbers(c) \intersect Lines("client") :
           k <= ClientPos(t, c) => k <= ClientPos(s, c)
    BY <2>1 DEF Lines
  <2>8. ClientPos(s, c) >= 4 /\ ClientPos(s, c) <= ClientPos(t, c)
    BY <2>1
  <2> QED  BY <1>0, <1>1, <1>4, <1>11, <2>1, <2>3, <2>4, <2>5, <2>6, <2>7, <2>8, TurnLoses
              DEF Side, Pos, Hello, s, c
<1> QED
  <2>1. Scripted(e) <=> e.msg.has # {"stray"} /\ e.msg.type # "NEWSESSION_TICKET"
    BY DEF Scripted
  <2>2. CASE Astray(s.transcript) /\ e.msg.type = "NEWSESSION_TICKET"
    <3>1. s.hand_state = "OK"
      BY <1>4, <2>2 DEF ClientReadTransition
    <3> QED  BY <1>2, <2>2, <3>1 DEF ClientSide, ClientLost
  <2> QED  BY <1>9, <1>10, <1>11, <2>1, <2>2

\* What is put behind a flight is put behind what is on its way.
LEMMA Joined ==
    ASSUME NEW q \in Seq(Entries), NEW r \in Seq(Entries), NEW x \in Entries
    PROVE  q \o Append(r, x) = Append(q \o r, x) /\ q \o <<>> = q
<1>1. q \o Append(r, x) \in Seq(Entries) /\ Append(q \o r, x) \in Seq(Entries)
      /\ q \o <<>> \in Seq(Entries)
  OBVIOUS
<1>2. Len(q \o Append(r, x)) = Len(Append(q \o r, x)) /\ Len(q \o <<>>) = Len(q)
  OBVIOUS
<1>3. \A i \in 1 .. Len(q \o Append(r, x)) : (q \o Append(r, x))[i] = Append(q \o r, x)[i]
  OBVIOUS
<1>4. \A i \in 1 .. Len(q) : (q \o <<>>)[i] = q[i]
  OBVIOUS
<1>5. q \o Append(r, x) = Append(q \o r, x)
  BY <1>1, <1>2, <1>3, SeqEqual
<1>6. q \o <<>> = q
  BY <1>1, <1>2, <1>4, SeqEqual
<1> QED  BY <1>5, <1>6

\* A side sends, and what is on its way, held back or not.
LEMMA Sends ==
    ASSUME IInv, NEW p \in Peer, Send(p)
    PROVE  LET s == ssl[p]
               x == [level |-> s.quic_write_level, msg |-> s.msg]
           IN  \E t : /\ Sending(s, t, config) /\ ssl' = [ssl EXCEPT ![p] = t]
                      /\ Turns(p, t) /\ faults' = faults /\ x \in Entries
                      /\ wire'[p] \o t.flight = Append(Way(p), x)
                      /\ s.call # "none" /\ At(s, "WRITING", "SEND")
<1> DEFINE s == ssl[p]
           u == Adding(s)
           f == Outgoing(s)
           x == [level |-> s.quic_write_level, msg |-> s.msg]
<1>1. /\ DOMAIN s = Fields /\ Data(s, config) /\ DOMAIN ssl = Peer /\ wire \in [Peer -> Seq(Entries)]
      /\ s.flight \in Seq(Entries) /\ wire[p] \in Seq(Entries)
  BY DEF IInv, Client, Server, Endpoint, Shape, Peer, Wires, Data
<1>2. s.call # "none" /\ At(s, "WRITING", "SEND")
  BY DEF Send, Writing, At
<1>3. /\ u.flight = f /\ (config.defer => Sending(s, u, config))
      /\ Sending(s, Emptied(u), config)
  BY <1>1, SendingFields
<1>4. x \in Entries
  BY <1>1 DEF Data, Entries
<1>5. Other(p) # p /\ Other(p) \in Peer
  BY DEF Other, Peer
<1>6. f = Append(s.flight, x)
  BY DEF Outgoing
<1>7. CASE config.defer
  <2>1. Becomes(p, u)
    BY <1>7 DEF Send, Adding
  <2> HIDE DEF u, f, x
  <2>2. ssl' = [ssl EXCEPT ![p] = u] /\ wire' = wire /\ config' = config /\ faults' = faults
    BY <2>1 DEF Becomes
  <2>3. ssl'[p] = u /\ ssl'[Other(p)] = ssl[Other(p)]
    BY <1>1, <1>5, <2>2
  <2>4. Turns(p, u)
    BY <2>2, <2>3 DEF Turns
  <2>5. wire'[p] \o u.flight = Append(Way(p), x)
    BY <1>1, <1>3, <1>4, <1>6, <2>2, Joined DEF Way
  <2>6. Sending(s, u, config)
    BY <1>3, <1>7
  <2> QED  BY <1>2, <1>4, <2>2, <2>4, <2>5, <2>6 DEF x
<1>8. CASE ~config.defer
  <2> DEFINE t == Emptied(u)
  <2>1. /\ ssl' = [ssl EXCEPT ![p] = t] /\ wire' = [wire EXCEPT ![p] = @ \o u.flight]
        /\ UNCHANGED <<config, faults, requests>>
    BY <1>8 DEF Send, Adding, Emptied
  <2>2. t.flight = <<>>
    <3>1. DOMAIN u = Fields
      BY <1>3 DEF Sending, Off, Emptied
    <3> HIDE DEF u
    <3> QED  BY <3>1 DEF Emptied, Fields
  <2> HIDE DEF t, u, f, x
  <2>3. ssl'[p] = t /\ ssl'[Other(p)] = ssl[Other(p)] /\ wire'[Other(p)] = wire[Other(p)]
        /\ wire'[p] = wire[p] \o f
    BY <1>1, <1>3, <1>5, <2>1
  <2>4. Turns(p, t)
    BY <2>1, <2>3 DEF Turns
  <2>5. wire'[p] \o t.flight = Append(Way(p), x)
    <3>1. f \in Seq(Entries) /\ wire[p] \o f \in Seq(Entries)
      BY <1>1, <1>4, <1>6
    <3>2. (wire[p] \o f) \o <<>> = wire[p] \o f
      BY <1>4, <3>1, Joined
    <3>3. wire[p] \o f = Append(wire[p] \o s.flight, x)
      BY <1>1, <1>4, <1>6, Joined
    <3> QED  BY <2>2, <2>3, <3>2, <3>3 DEF Way
  <2>6. Sending(s, t, config)
    BY <1>3 DEF t
  <2> QED  BY <1>2, <1>4, <2>1, <2>4, <2>5, <2>6 DEF x
<1> QED  BY <1>7, <1>8

\* A side has sent, and what was held back is on the wire or still held back.
LEMMA Finishes ==
    ASSUME IInv, NEW p \in Peer, Finish(p), Off(PostWork(ssl[p]), ssl[p], Keys)
    PROVE  LET s == ssl[p]
           IN  \E t : /\ Ends(s, t) /\ ssl' = [ssl EXCEPT ![p] = t]
                      /\ Turns(p, t) /\ faults' = faults
                      /\ wire'[p] \o t.flight = Way(p)
                      /\ s.call # "none" /\ At(s, "WRITING", "POST_WORK")
<1> DEFINE s == ssl[p]
           u == Finishing(s)
           f == s.flight
<1>1. /\ DOMAIN s = Fields /\ DOMAIN ssl = Peer /\ wire \in [Peer -> Seq(Entries)]
      /\ s.flight \in Seq(Entries) /\ wire[p] \in Seq(Entries)
  BY DEF IInv, Client, Server, Endpoint, Shape, Peer, Wires, Data
<1>2. s.call # "none" /\ At(s, "WRITING", "POST_WORK")
  BY DEF Finish, Writing, At
<1>3. /\ u.flight = f /\ (Flushes(s) => Ends(s, Emptied(u)))
      /\ (~Flushes(s) => Ends(s, u))
  BY <1>1, EndsFields
<1>5. Other(p) # p /\ Other(p) \in Peer
  BY DEF Other, Peer
<1>7. CASE ~Flushes(s)
  <2>1. Becomes(p, u)
    BY <1>7 DEF Finish, Finishing
  <2> HIDE DEF u
  <2>2. ssl' = [ssl EXCEPT ![p] = u] /\ wire' = wire /\ config' = config /\ faults' = faults
    BY <2>1 DEF Becomes
  <2>3. ssl'[p] = u /\ ssl'[Other(p)] = ssl[Other(p)]
    BY <1>1, <1>5, <2>2
  <2>4. Turns(p, u)
    BY <2>2, <2>3 DEF Turns
  <2>5. wire'[p] \o u.flight = Way(p)
    BY <1>3, <2>2 DEF Way
  <2> QED  BY <1>2, <1>3, <1>7, <2>2, <2>4, <2>5
<1>8. CASE Flushes(s)
  <2> DEFINE t == Emptied(u)
  <2>1. /\ ssl' = [ssl EXCEPT ![p] = t] /\ wire' = [wire EXCEPT ![p] = @ \o u.flight]
        /\ UNCHANGED <<config, faults, requests>>
    BY <1>8 DEF Finish, Finishing, Emptied
  <2>2. t.flight = <<>> /\ Ends(s, t)
    BY <1>3, <1>8 DEF Ends
  <2> HIDE DEF t, u
  <2>3. ssl'[p] = t /\ ssl'[Other(p)] = ssl[Other(p)] /\ wire'[Other(p)] = wire[Other(p)]
        /\ wire'[p] = wire[p] \o f
    BY <1>1, <1>3, <1>5, <2>1
  <2>4. Turns(p, t)
    BY <2>1, <2>3 DEF Turns
  <2>5. wire'[p] \o t.flight = Way(p)
    <3> DEFINE q == wire[p] \o f
    <3>1. q \in Seq(Entries)
      BY <1>1
    <3> HIDE DEF q
    <3>2. q \o <<>> = q
      BY <3>1
    <3> QED  BY <2>2, <2>3, <3>2 DEF Way, q
  <2> QED  BY <1>2, <2>1, <2>2, <2>4, <2>5
<1> QED  BY <1>7, <1>8

\* A client refuses a message only over one too many.
LEMMA ClientAccepts ==
    ASSUME IInv, SInv, ReadRefused("client")
    PROVE  MetStray("client")
<1> SUFFICES ASSUME ~MetStray("client") PROVE FALSE
  OBVIOUS
<1> DEFINE s == ssl["client"]
           e == s.quic_input_data[1]
           c == config
           m == ClientPos(s, c)
<1>1. "client" \in Peer /\ Other("client") = "server"
  BY DEF Peer, Other
<1>2. Client(s, c) /\ ClientSide(s, c) /\ DOMAIN s = Fields /\ s.server = FALSE
  BY <1>1, TurnFacts DEF IInv, Client, Endpoint, Shape, Side
<1>3. ReadTransition(s, e.msg.type) = ClientReadTransition(s, e.msg.type)
  BY <1>2 DEF ReadTransition
<1>4. /\ At(s, "READING", "HEADER") /\ s.quic_input_data # <<>>
      /\ e.level # s.quic_read_level \/ ClientReadTransition(s, e.msg.type) = "BAD"
  BY <1>3 DEF ReadRefused, Reading, At
<1>5. /\ Genuine("server", c, Hello("server", ssl["server"], c), Pos("server", ssl["server"], c), e)
      /\ e.msg.has # {"stray"} /\ ~Astray(s.transcript) /\ CanDecrypt(s, e.level)
  <2>1. e.msg.has # {"stray"} /\ ~Astray(s.transcript)
    BY <1>4 DEF MetStray, Astray
  <2> QED  BY <1>1, <1>4, <2>1, HeadKnown
<1>6. s.state = "READING" /\ s.read_state = "HEADER" /\ ClientPlace(s, c)
  <2>1. s.state = "READING" /\ s.read_state = "HEADER"
    BY <1>4 DEF At
  <2> QED  BY <1>2, <2>1 DEF Client
<1>7. CASE Scripted(e)
  <2> DEFINE n == Number("server", Hello("server", ssl["server"], c), e)
  <2>1. /\ ClientListens(s, c, n, m) /\ e.level = s.quic_read_level
        /\ ClientReadTransition(s, e.msg.type) = ClientReadsAt(n)
    BY <1>4, <1>5, <1>7, ClientFinds
  <2>2. ClientReadsAt(n) # "BAD"
    BY DEF ClientReadsAt
  <2> QED  BY <1>4, <2>1, <2>2
<1>8. CASE ~Scripted(e)
  <2>1. e.msg.type = "NEWSESSION_TICKET"
    BY <1>5, <1>8 DEF Scripted
  <2>2. e.level = ssl_encryption_application
    BY <1>5, <2>1 DEF Genuine
  <2>3. ssl_encryption_application \in s.secrets
    BY <1>5, <2>2 DEF CanDecrypt, ssl_encryption_application, ssl_encryption_initial
  <2>4. ClientAt(s, c, m) /\ m \in 0 .. 12
    BY <1>2, <1>5, <1>6, ClientKeeps, PosRange DEF Pos
  <2> HIDE DEF m
  <2>5. m >= 9
    BY <2>3, <2>4 DEF ClientAt, ClientLevels
  <2>6. ClientControl(s) /\ ClientKeys(s) /\ ~Unsaid(s)
    BY <1>6, <2>4 DEF ClientPlace, ClientAt, ClientLines
  <2>7. s.hand_state \in ClientReads \union {"CW_CLNT_HELLO", "EARLY_DATA", "OK"}
    BY <1>6, <2>6 DEF ClientControl, At
  <2>8. s.hand_state = "OK"
    <3>1. s.hand_state \in {"CW_CLNT_HELLO", "EARLY_DATA"} => m = HelloOf(s, c)
      BY <2>6, ClientPosValues DEF m
    <3>2. s.hand_state = "CR_SRVR_HELLO" => m \in {2, 4}
      BY ClientPosValues DEF m
    <3>3. /\ s.hand_state = "CR_ENCRYPTED_EXTENSIONS" => m = 5
          /\ s.hand_state = "CR_CERT_REQ" => m = 6
          /\ s.hand_state = "CR_CERT" => m = 7
          /\ s.hand_state = "CR_CERT_VRFY" => m = 8
      BY ClientPosValues DEF m
    <3>4. HelloOf(s, c) \in {1, 3}
      BY DEF HelloOf
    <3> QED  BY <2>5, <2>7, <3>1, <3>2, <3>3, <3>4 DEF ClientReads
  <2>9. s.quic_read_level = ssl_encryption_application
    BY <2>6, <2>8 DEF ClientKeys, ClientOver
  <2>10. ClientReadTransition(s, e.msg.type) = "CR_SESSION_TICKET"
    BY <2>1, <2>8 DEF ClientReadTransition
  <2> QED  BY <1>4, <2>2, <2>9, <2>10
<1> QED  BY <1>7, <1>8

\* Every action of the client keeps the script, and none leads to an error unexcused.
LEMMA ClientTurns ==
    ASSUME IInv, SInv, Step("client") \/ Fault("client")
    PROVE  SInv' /\ Excused("client")
<1> DEFINE k == ssl["client"]
<1>1. /\ Client(k, config) /\ k.server = FALSE /\ DOMAIN k = Fields /\ Shape(k)
      /\ Data(k, config) /\ DOMAIN ssl = Peer /\ "client" \in Peer
      /\ ClientSide(k, config) /\ Side("client", k, config)
  <2>1. "client" \in Peer
    BY DEF Peer
  <2> QED  BY <2>1, TurnFacts DEF IInv, Client, Endpoint, Shape, Side
<1>2. ASSUME NEW t, ClientStep(k, t, config), Becomes("client", t) \/ FailsTo("client", t),
             Calm("client", k, t, config), t.flight = k.flight, t.state # "ERROR"
      PROVE  SInv' /\ Excused("client")
  <2>1. SInv'
    BY <1>1, <1>2, TurnQuiet DEF ClientStep, Owned
  <2>2. ssl'["client"] = t
    BY <1>1, <1>2 DEF Becomes, FailsTo
  <2> QED  BY <1>2, <2>1, <2>2 DEF Excused
<1>3. ASSUME NEW t, t = Return(SSLfatal(k), "NOTHING"),
             FailsTo("client", t) \/ (Becomes("client", t) /\ faults # MaxFaults)
      PROVE  SInv'
  BY <1>1, <1>3, TurnFatal
<1> HIDE DEF k
<1>0. ASSUME NEW why, k.state # "ERROR"
      PROVE  /\ Return(k, why).flight = k.flight /\ Return(k, why).state # "ERROR"
             /\ Calm("client", k, Return(k, why), config)
  <2>1. Off(Return(k, why), k, {"in_init", "call", "rwstate"})
    BY <1>1, ReturnFields DEF Shape, Flags
  <2>2. Return(k, why).flight = k.flight /\ Return(k, why).state = k.state
    BY <2>1 DEF Off, Fields
  <2> QED  BY <1>0, <1>1, <2>2, Returns
<1>4. CASE SSL_do_handshake("client")
  <2> DEFINE t == Handshaking(k)
  <2>1. k.call = "none" /\ k.state # "ERROR" /\ Becomes("client", t)
    BY <1>4 DEF SSL_do_handshake, Handshaking, k
  <2>2. ClientStep(k, t, config)
    BY <1>1, <2>1, ClientDoHandshake
  <2>3. Calm("client", k, t, config)
    BY <1>1, <2>1, ClientHandshakes
  <2>4. t.flight = k.flight /\ t.state \in {k.state, "WRITING"}
    <3>1. /\ Off(t, k, {"in_init", "early_data_state", "state", "write_state", "call",
                        "fresh", "rwstate", "done"})
          /\ t.state \in {k.state, "WRITING"}
      BY <1>1, DoHandshakeFields DEF Handshaking
    <3> QED  BY <3>1 DEF Off, Fields
  <2> QED  BY <1>2, <2>1, <2>2, <2>3, <2>4
<1>5. CASE SSL_process_quic_post_handshake("client")
  <2> DEFINE t == Processing(k)
  <2>1. /\ k.call = "none" /\ k.state # "ERROR" /\ k.done /\ ~k.in_init
        /\ Becomes("client", t)
    BY <1>5 DEF SSL_process_quic_post_handshake, Processing, k
  <2>2. ClientStep(k, t, config)
    BY <1>1, <2>1, ClientProcess
  <2>3. Calm("client", k, t, config)
    BY <1>1, <2>1, ClientProcesses
  <2>4. t.flight = k.flight /\ t.state \in {k.state, "WRITING"}
    <3>1. /\ Off(t, k, {"state", "write_state", "in_init", "call", "fresh"})
          /\ t.state \in {k.state, "WRITING"}
      BY <1>1, ProcessingFields
    <3> QED  BY <3>1 DEF Off, Fields
  <2> QED  BY <1>2, <2>1, <2>2, <2>3, <2>4
<1>6. CASE ReturnDone("client")
  <2> DEFINE t == Resting(k)
  <2>1. k.call # "none" /\ k.state = "FINISHED" /\ Becomes("client", t)
    BY <1>6 DEF ReturnDone, Resting, k
  <2>2. ClientStep(k, t, config)
    BY <1>1, <2>1, ClientRest
  <2>3. Calm("client", k, t, config)
    BY <1>1, <2>1, ClientRests
  <2>4. t.flight = k.flight /\ t.state \in {"FINISHED", "WRITING"}
    <3>1. /\ Off(t, k, {"state", "write_state", "in_init", "call", "rwstate", "fresh",
                        "early_data_state", "done"})
          /\ t.state \in {"FINISHED", "WRITING"}
      BY <1>1, <2>1, RestingFields
    <3> QED  BY <3>1 DEF Off, Fields
  <2> QED  BY <1>2, <2>1, <2>2, <2>3, <2>4
<1>7. CASE ReadNothing("client")
  <2>1. k.call # "none" /\ k.state = "READING" /\ Becomes("client", Return(k, "READING"))
    BY <1>7 DEF ReadNothing, Reading, k
  <2>2. ClientStep(k, Return(k, "READING"), config)
    BY <1>1, <2>1, ClientReturn
  <2> QED  BY <1>0, <1>2, <2>1, <2>2
<1>8. CASE ReadMessage("client")
  BY <1>8, ClientTakes
<1>9. CASE ReadRefused("client")
  <2>1. Becomes("client", Return(SSLfatal(k), "NOTHING"))
    BY <1>9 DEF ReadRefused, k
  <2>2. MetStray("client")
    BY <1>9, ClientAccepts
  <2>3. faults # MaxFaults
    BY <1>1, <2>2, StrayIsFault
  <2> QED  BY <1>3, <2>1, <2>2, <2>3 DEF Excused
<1>10. CASE PostProcess("client")
  <2> DEFINE t == PostProcessMessage(k, config)
  <2>1. /\ k.call # "none" /\ At(k, "READING", "POST_PROCESS") /\ Becomes("client", t)
    BY <1>10 DEF PostProcess, Reading, At, k
  <2>2. ClientStep(k, t, config)
    BY <1>1, <2>1, ClientPostProcess
  <2>3. Calm("client", k, t, config)
    BY <1>1, <2>1, ClientChecks
  <2>4. k.hand_state \in {"CR_CERT", "CR_CERT_VRFY"} /\ k.state = "READING"
    <3>1. k.state = "READING" /\ k.read_state = "POST_PROCESS"
      BY <2>1 DEF At
    <3>2. ClientControl(k)
      BY <1>1, <3>1 DEF Client, ClientPlace
    <3> QED  BY <3>1, <3>2 DEF ClientControl, At
  <2>5. t.flight = k.flight /\ t.state = k.state
    BY <1>1, <2>4 DEF PostProcessMessage, CONTINUE_READING, Fields
  <2> HIDE DEF t
  <2> QED  BY <1>2, <2>1, <2>2, <2>3, <2>4, <2>5
<1>11. CASE WriteNext("client")
  <2> DEFINE next == ClientWriteTransition(k)
             t == WritingOn(k, next)
  <2>1. WriteTransition(k, config) = next
    BY <1>1 DEF WriteTransition
  <2>2. k.call # "none" /\ At(k, "WRITING", "TRANSITION") /\ k.state = "WRITING"
    BY <1>11 DEF WriteNext, Writing, At, k
  <2>3. next # "ERROR" /\ Calm("client", k, t, config)
    BY <1>1, <2>2, ClientWritesOn
  <2>4. Becomes("client", t)
    BY <1>11, <2>1, <2>3 DEF WriteNext, WritingOn, k
  <2>5. ClientStep(k, t, config)
    BY <1>1, <2>2, <2>3, ClientWriteOn
  <2>6. t.flight = k.flight /\ t.state # "ERROR"
    <3> HIDE DEF next
    <3>1. /\ Off(t, k, {"state", "read_state", "hand_state", "write_state"})
          /\ t.state = "READING" \/ t.state = k.state
      BY <1>1, WritingOnFields
    <3> QED  BY <2>2, <3>1 DEF Off, Fields
  <2> QED  BY <1>2, <2>3, <2>4, <2>5, <2>6
<1>12. CASE Construct("client")
  <2>1. k.call # "none" /\ At(k, "WRITING", "PRE_WORK") /\ k.state = "WRITING"
    BY <1>12 DEF Construct, Writing, At, k
  <2>2. CASE PreWorkStops(k)
    <3>1. Becomes("client", Stopping(k))
      BY <1>12, <2>2 DEF Construct, Stopping, k
    <3>2. ClientStep(k, Stopping(k), config)
      BY <1>1, <2>1, <2>2, ClientStops
    <3>3. Stopping(k).flight = k.flight /\ Stopping(k).state # "ERROR"
      <4> DEFINE t == Stopping(k)
      <4>1. DOMAIN k = Fields
        BY <1>1
      <4>2. /\ Off(t, k, {"cleanuphand", "ticket_expected", "in_init", "state"})
            /\ t.state = "FINISHED"
        BY <4>1, StoppingFields
      <4> HIDE DEF t
      <4>3. t.flight = k.flight /\ t.state # "ERROR"
        BY <4>1, <4>2 DEF Off, Fields
      <4> QED  BY <4>3 DEF t
    <3>4. Calm("client", k, Stopping(k), config)
      BY <1>1, <2>1, Returns
    <3> QED  BY <1>2, <3>1, <3>2, <3>3, <3>4
  <2>3. CASE ~PreWorkStops(k) /\ k.hand_state \in NothingToSend
    <3>1. Becomes("client", Silent(k))
      BY <1>12, <2>3 DEF Construct, Silent, k
    <3>2. ClientStep(k, Silent(k), config)
      BY <1>1, <2>1, <2>3, ClientSilent
    <3>3. Silent(k).flight = k.flight /\ Silent(k).state = k.state
      BY <1>1, SilentFields DEF Off, Fields
    <3>4. Calm("client", k, Silent(k), config)
      BY <1>1, <2>1, <2>3, ClientStaysSilent
    <3> QED  BY <1>2, <2>1, <3>1, <3>2, <3>3, <3>4
  <2>4. CASE ~PreWorkStops(k) /\ k.hand_state \notin NothingToSend
    <3> DEFINE t == Building(k, config)
    <3>1. Becomes("client", t)
      BY <1>12, <2>4 DEF Construct, Building, k
    <3>2. ClientStep(k, t, config)
      BY <1>1, <2>1, <2>4, ClientBuilds
    <3>3. Calm("client", k, t, config)
      BY <1>1, <2>1, <2>4, ClientComposes
    <3>4. k.hand_state \in ClientWrites
      <4>1. k.write_state = "PRE_WORK" /\ ClientControl(k)
        BY <1>1, <2>1 DEF At, Client, ClientPlace
      <4> QED  BY <2>1, <2>4, <4>1 DEF ClientControl, At, PreWorkStops, NothingToSend,
                                      ClientWrites
    <3>5. Spoken(k, ConstructMessage(k, config), config)
      BY <1>1, <3>4, ClientHelloSpoken, ClientCertificateSpoken, ClientFinishedSpoken
         DEF ClientWrites, Data
    <3>6. t = [ConstructMessage(k, config) EXCEPT !.write_state = "SEND"]
      BY <3>4 DEF Building, PreWork, ClientWrites
    <3> DEFINE u == ConstructMessage(k, config)
    <3> HIDE DEF u, t
    <3>7. t.flight = k.flight /\ t.state = k.state
      BY <3>5, <3>6 DEF Spoken, Off, Fields, u
    <3> QED  BY <1>2, <2>1, <3>1, <3>2, <3>3, <3>7
  <2> QED  BY <2>2, <2>3, <2>4
<1>13. CASE TicketDeclined("client")
  <2>1. k.state = "WRITING" /\ k.hand_state = "SW_SESSION_TICKET"
    BY <1>13 DEF TicketDeclined, Writing, k
  <2> QED  BY <1>1, <2>1 DEF Client, ClientPlace, ClientControl, At, ClientWrites
<1>14. CASE Send("client")
  <2> DEFINE x == [level |-> k.quic_write_level, msg |-> k.msg]
             n == ClientSays(k, config)
  <2>1. PICK t : /\ Sending(k, t, config) /\ ssl' = [ssl EXCEPT !["client"] = t]
                 /\ Turns("client", t) /\ faults' = faults /\ x \in Entries
                 /\ wire'["client"] \o t.flight = Append(Way("client"), x)
                 /\ k.call # "none" /\ At(k, "WRITING", "SEND")
    BY <1>1, <1>14, Sends DEF k
  <2>2. /\ ~Astray(k.transcript) /\ ~Astray(t.transcript) /\ ClientSide(t, config)
        /\ n \in Lines("client") /\ Follows(config, n, ClientPos(k, config))
        /\ ClientPos(t, config) = n
        /\ HelloOf(t, config) = HelloOf(k, config) /\ (n \in {1, 3} => n = HelloOf(k, config))
        /\ k.msg = MessageOf(config, n) /\ k.quic_write_level = LevelOf(n)
        /\ t.quic_input_data = k.quic_input_data /\ t.state # "ERROR"
        /\ t.quic_latest_level_received = k.quic_latest_level_received
        /\ t.server = k.server /\ t.secrets = k.secrets
    BY <1>1, <2>1, ClientSaid
  <2>3. Client(t, config)
    BY <1>1, <2>1, ClientSends DEF ClientStep
  <2>4. Reported(t)
    BY <1>1, <2>2, <2>3, OwnedReported DEF Owned
  <2>5. x.msg = MessageOf(config, n) /\ x.level = LevelOf(n)
    BY <2>2
  <2> HIDE DEF x, n
  <2>6. Onward(k, t)
    BY <2>2, <2>4 DEF Onward
  <2>7. /\ Side("client", t, config) /\ Pos("client", t, config) = n
        /\ Follows(config, n, Pos("client", k, config))
        /\ Hello("client", t, config) = Hello("client", k, config)
        /\ n \in {1, 3} => n = Hello("client", k, config)
    BY <2>2 DEF Side, Pos, Hello
  <2>8. Excused("client")
    BY <1>1, <2>1, <2>2 DEF Excused
  <2> QED  BY <1>1, <2>1, <2>2, <2>5, <2>6, <2>7, <2>8, TurnSays DEF k
<1>15. CASE Finish("client")
  <2>1. Off(PostWork(k), k, Keys)
    <3>1. At(k, "WRITING", "POST_WORK") /\ k.state # "ERROR"
      BY <1>15 DEF Finish, Writing, At, k
    <3>2. k.hand_state \in ClientWrites \union {"PENDING_EARLY_DATA_END", "CW_END_OF_EARLY_DATA"}
      BY <1>1, <3>1 DEF Client, ClientPlace, ClientControl, At
    <3> QED  BY <1>1, <3>2, PostWorkClient
  <2>2. PICK t : /\ Ends(k, t) /\ ssl' = [ssl EXCEPT !["client"] = t]
                 /\ Turns("client", t) /\ faults' = faults
                 /\ wire'["client"] \o t.flight = Way("client")
                 /\ k.call # "none" /\ At(k, "WRITING", "POST_WORK")
    BY <1>1, <1>15, <2>1, Finishes DEF k
  <2>3. ClientStep(k, t, config)
    BY <1>1, <2>2, ClientEnds
  <2>4. Calm("client", k, t, config)
    BY <1>1, <2>2, ClientGoesOn
  <2>5. t.state # "ERROR" /\ t.server = k.server
    BY <2>2 DEF Ends, Off, Fields, At
  <2>6. Reported(t)
    BY <1>1, <2>3, <2>5, OwnedReported DEF Owned, ClientStep
  <2>7. Excused("client")
    BY <1>1, <2>2, <2>5 DEF Excused
  <2> QED  BY <1>1, <2>2, <2>3, <2>4, <2>5, <2>6, <2>7, TurnCalm DEF k, ClientStep, Forward
<1>16. CASE PostProcessWaits("client")
  <2>1. k.call # "none" /\ k.state = "READING" /\ FailsTo("client", Return(k, "RETRY"))
    BY <1>16 DEF PostProcessWaits, Reading, k
  <2>2. ClientStep(k, Return(k, "RETRY"), config)
    BY <1>1, <2>1, ClientReturn
  <2> QED  BY <1>0, <1>2, <2>1, <2>2
<1>17. CASE SendFails("client")
  <2>1. /\ k.call # "none" /\ k.state = "WRITING" /\ k.write_state = "SEND"
        /\ FailsTo("client", Return(k, "RETRY"))
    BY <1>17 DEF SendFails, Writing, k
  <2>2. ClientStep(k, Return(k, "RETRY"), config)
    BY <1>1, <2>1, ClientReturn
  <2> QED  BY <1>0, <1>2, <2>1, <2>2
<1>18. CASE FlushFails("client")
  <2>1. /\ k.call # "none" /\ k.state = "WRITING" /\ k.write_state = "POST_WORK"
        /\ Flushes(k) /\ FailsTo("client", Return(k, "RETRY"))
    BY <1>18 DEF FlushFails, Writing, k
  <2>2. ClientStep(k, Return(k, "RETRY"), config)
    BY <1>1, <2>1, ClientReturn
  <2> QED  BY <1>0, <1>2, <2>1, <2>2
<1>19. CASE FatalFailure("client")
  <2>1. FailsTo("client", Return(SSLfatal(k), "NOTHING"))
    BY <1>19 DEF FatalFailure, k
  <2> QED  BY <1>3, <1>19, <2>1 DEF Excused
<1> QED  BY <1>4, <1>5, <1>6, <1>7, <1>8, <1>9, <1>10, <1>11, <1>12, <1>13, <1>14, <1>15,
            <1>16, <1>17, <1>18, <1>19 DEF Step, Fault

-----------------------------------------------------------------------------
(* Calm steps of a server *)

\* A server that has not failed and is lost is reading the client's flight; any
\* other keeps to the script.
LEMMA ServerKeeps ==
    ASSUME NEW s, NEW c, Server(s, c), ServerSide(s, c), s.state # "ERROR"
    PROVE  /\ s.state # "READING" => ~Astray(s.transcript)
           /\ s.hand_state \notin {"SR_CERT", "SR_CERT_VRFY"} => ~Astray(s.transcript)
           /\ ~Astray(s.transcript) => ServerAt(s, c, ServerPos(s, c))
BY DEF ServerSide, ServerLost, ServerKept, Server, ServerPlace, ServerControl, At, ServerWrites,
       ServerFlight

\* What a walk of the server's state machine changes.
ServerWalks == Walks \union {"sent_tickets", "extra_tickets_expected", "tickets_declined"}

\* It changes nothing that was said.
LEMMA ServerWalkFields ==
    ASSUME NEW s, NEW t, Off(t, s, ServerWalks)
    PROVE  /\ t.server = s.server /\ t.quic_read_level = s.quic_read_level
           /\ t.quic_write_level = s.quic_write_level /\ t.secrets = s.secrets
           /\ t.transcript = s.transcript /\ t.msg = s.msg /\ t.clienthello = s.clienthello
           /\ t.hit = s.hit /\ t.hello_retry_request = s.hello_retry_request
           /\ t.cert_req = s.cert_req /\ t.early_data = s.early_data
           /\ t.quic_input_data = s.quic_input_data /\ t.flight = s.flight
           /\ t.quic_latest_level_received = s.quic_latest_level_received
BY DEF Off, ServerWalks, Walks, Fields

\* A server that walks and stays at its number.
LEMMA ServerWalk ==
    ASSUME NEW s, NEW t, NEW c, Off(t, s, ServerWalks), NEW n \in 0 .. 12, ServerAt(s, c, n),
           t.hand_state = "SW_CERT_REQ" => Asks(c),
           t.hand_state \in {"SW_CERT", "SW_CERT_VRFY"} => ~Resumes(c),
           \/ t.write_state # "SEND" /\ s.write_state # "SEND"
           \/ t.hand_state = s.hand_state /\ t.write_state = s.write_state
           \/ t.hand_state = s.hand_state /\ t.hand_state \in {"BEFORE", "OK", "EARLY_DATA"},
           t.hand_state = "SR_CERT" => s.hand_state = "SR_CERT",
           Weighing(t) <=> Weighing(s), Weighing(t) => t.state # "WRITING",
           t.early_data_state = s.early_data_state \/ c.hrr \/ Judged(s, n)
    PROVE  ServerAt(t, c, n)
<1>1. t.hand_state = s.hand_state => ServerSays(t) = ServerSays(s)
  BY ServerWalkFields DEF ServerSays
<1>2. Judged(t, n) <=> Judged(s, n)
  BY DEF Judged
<1>3. ServerLines(t, c, n)
  <2>1. /\ t.hand_state \in ServerSpeakers /\ t.write_state = "SEND" =>
              t.msg = MessageOf(c, ServerSays(t))
        /\ t.hand_state = "SW_SESSION_TICKET" /\ t.write_state = "SEND" => t.msg.has = {}
    BY <1>1, ServerWalkFields DEF ServerAt, ServerLines, ServerSpeakers, ServerFlight
  <2>2. n \in Numbers(c) \union {0}
    BY DEF ServerAt, ServerLines
  <2>3. t.transcript = IF n = 1 /\ t.hand_state = "SW_SRVR_HELLO" /\ t.write_state = "SEND"
                       THEN Hashed(c) ELSE After(c, n)
    BY ServerWalkFields DEF ServerAt, ServerLines
  <2>4. /\ t.hand_state = "SR_CERT" => t.msg.has = HasOf(c, 10)
        /\ Weighing(t) => t.clienthello = HasOf(c, n) /\ t.state # "WRITING"
    BY ServerWalkFields DEF ServerAt, ServerLines
  <2> QED  BY <2>1, <2>2, <2>3, <2>4 DEF ServerLines
<1>4. ServerChoices(t, c, n)
  <2>1. t.hello_retry_request =
          IF ~c.hrr THEN "NONE"
          ELSE IF Judged(t, n) THEN "COMPLETE"
          ELSE IF n = 0 \/ (n = 1 /\ Weighing(t)) THEN "NONE" ELSE "PENDING"
    <3>1. s.hello_retry_request =
          IF ~c.hrr THEN "NONE"
          ELSE IF Judged(s, n) THEN "COMPLETE"
          ELSE IF n = 0 \/ (n = 1 /\ Weighing(s)) THEN "NONE" ELSE "PENDING"
      BY DEF ServerAt, ServerChoices
    <3> QED  BY <1>2, <3>1, ServerWalkFields
  <2>2. ~c.hrr /\ ~Judged(t, n) => t.early_data_state = EarlyDataState(TRUE, c)
    BY <1>2 DEF ServerAt, ServerChoices
  <2>3. Judged(t, n) => t.hit = Resumes(c)
    BY <1>2, ServerWalkFields DEF ServerAt, ServerChoices
  <2>4. t.early_data = "ACCEPTED" <=> Judged(t, n) /\ Admits(c)
    BY <1>2, ServerWalkFields DEF ServerAt, ServerChoices
  <2>5. t.cert_req = IF Asks(c) /\ (n >= 6 \/ (t.hand_state = "SW_CERT_REQ"
                                               /\ t.write_state = "SEND"))
                     THEN 1 ELSE 0
    BY ServerWalkFields DEF ServerAt, ServerChoices
  <2> QED  BY <2>1, <2>2, <2>3, <2>4, <2>5 DEF ServerChoices
<1>5. ServerLevels(t, n)
  BY ServerWalkFields DEF ServerAt, ServerLevels
<1> QED  BY <1>3, <1>4, <1>5 DEF ServerAt

\* Such a step is calm.
LEMMA ServerCalmWalk ==
    ASSUME NEW s, NEW t, NEW c, Off(t, s, ServerWalks),
           ~Astray(s.transcript), ServerAt(t, c, ServerPos(t, c)),
           ServerPos(t, c) = ServerPos(s, c)
    PROVE  Calm("server", s, t, c)
BY ServerWalkFields DEF Calm, Side, Pos, Hello, ServerSide, ServerKept

\* The application calls, or is answered.
LEMMA ServerCalls ==
    ASSUME NEW s, NEW t, NEW c, Server(s, c), ServerSide(s, c), s.state # "ERROR",
           Off(t, s, {"in_init", "early_data_state", "state", "write_state", "call", "fresh",
                      "rwstate", "done"}),
           \/ t.write_state = s.write_state
           \/ s.hand_state \in {"BEFORE", "OK", "EARLY_DATA"},
           t.state = "WRITING" =>
              s.state = "WRITING" \/ s.hand_state \in {"BEFORE", "OK", "EARLY_DATA"},
           t.early_data_state = s.early_data_state \/ s.hand_state \in {"EARLY_DATA", "OK"}
    PROVE  Calm("server", s, t, c)
<1>1. t.hand_state = s.hand_state /\ t.read_state = s.read_state /\ Off(t, s, ServerWalks)
  BY OffMore DEF Off, Fields, Walks, ServerWalks
<1>2. CASE Astray(s.transcript)
  <2>1. s.state = "READING" /\ s.hand_state \in {"SR_CERT", "SR_CERT_VRFY"}
    BY <1>2, ServerKeeps
  <2>2. ServerPos(t, c) = ServerPos(s, c)
    BY <1>1, <2>1, ServerPosValues
  <2>3. ServerLost(s, c) => ServerLost(t, c)
    BY <1>1, <2>1, ServerWalkFields DEF ServerLost
  <2>4. ServerSide(t, c)
    BY <1>1, <1>2, <2>3, ServerWalkFields DEF ServerSide
  <2> QED  BY <1>1, <2>2, <2>4, ServerWalkFields DEF Calm, Side, Pos, Hello
<1>3. CASE ~Astray(s.transcript)
  <2> DEFINE n == ServerPos(s, c)
  <2>1. ServerAt(s, c, n) /\ n \in 0 .. 12
    BY <1>3, ServerKeeps, PosRange DEF Pos
  <2>2. Weighing(t) <=> Weighing(s)
    BY <1>1 DEF Weighing
  <2>3. ServerPos(t, c) = n
    <3>1. CASE t.write_state = s.write_state
      <4>1. Unsaid(t) <=> Unsaid(s)
        BY <3>1 DEF Unsaid
      <4> QED  BY <1>1, <2>2, <4>1, ServerWalkFields DEF ServerPos
    <3>2. CASE s.hand_state \in {"BEFORE", "OK", "EARLY_DATA"}
      BY <1>1, <3>2, ServerPosValues, ServerWalkFields
    <3> QED  BY <3>1, <3>2
  <2>4. s.hand_state \in {"EARLY_DATA", "OK"} => c.hrr \/ Judged(s, n)
    <3>1. s.hand_state \in {"EARLY_DATA", "OK"} => n \in {2, 9, 12} /\ ~Weighing(s)
      BY ServerPosValues DEF Weighing
    <3>2. n \in Numbers(c) \union {0}
      BY <2>1 DEF ServerAt, ServerLines
    <3> QED  BY <3>1, <3>2, NumbersFacts DEF Judged
  <2>5. \/ t.hand_state = s.hand_state /\ t.write_state = s.write_state
        \/ t.hand_state = s.hand_state /\ t.hand_state \in {"BEFORE", "OK", "EARLY_DATA"}
    BY <1>1
  <2>6. /\ t.hand_state = "SW_CERT_REQ" => Asks(c)
        /\ t.hand_state \in {"SW_CERT", "SW_CERT_VRFY"} => ~Resumes(c)
    BY <1>1, <2>1 DEF ServerAt, ServerLines
  <2>7. Weighing(t) => t.state # "WRITING"
    BY <1>1, <2>1 DEF ServerAt, ServerLines, Weighing
  <2> HIDE DEF n
  <2>8. ServerAt(t, c, n)
    BY <1>1, <2>1, <2>2, <2>4, <2>5, <2>6, <2>7, ServerWalk
  <2> QED  BY <1>1, <1>3, <2>3, <2>8, ServerCalmWalk DEF n
<1> QED  BY <1>2, <1>3

\* SSL_do_handshake of a server.
LEMMA ServerHandshakes ==
    ASSUME NEW s, NEW c, Server(s, c), ServerSide(s, c), s.state # "ERROR"
    PROVE  Calm("server", s, Handshaking(s), c)
<1> DEFINE t == Handshaking(s)
           stopped == s.hand_state \in {"PENDING_EARLY_DATA_END", "EARLY_DATA"}
           runs == s.in_init \/ stopped
<1>1. /\ Off(t, s, {"in_init", "early_data_state", "state", "write_state", "call",
                    "fresh", "rwstate", "done"})
      /\ t.early_data_state = IF stopped /\ s.early_data_state = "WRITE_RETRY"
                              THEN "FINISHED_WRITING" ELSE s.early_data_state
      /\ runs /\ s.state \in {"UNINITED", "FINISHED"}
            => t.state = "WRITING" /\ t.write_state = "TRANSITION"
      /\ ~(runs /\ s.state \in {"UNINITED", "FINISHED"})
            => t.state = s.state /\ t.write_state = s.write_state
  BY DoHandshakeFields DEF Handshaking, Server, Endpoint, Shape
<1> HIDE DEF t
<1>2. /\ s.state \in {"UNINITED", "FINISHED"} => s.hand_state \in {"BEFORE", "OK", "EARLY_DATA"}
      /\ s.early_data_state # "WRITE_RETRY"
  BY DEF Server, ServerPlace, ServerControl, At
<1>3. t.early_data_state = s.early_data_state
  BY <1>1, <1>2
<1>4. /\ t.write_state = s.write_state \/ s.hand_state \in {"BEFORE", "OK", "EARLY_DATA"}
      /\ t.state = "WRITING" =>
            s.state = "WRITING" \/ s.hand_state \in {"BEFORE", "OK", "EARLY_DATA"}
  BY <1>1, <1>2
<1>5. Calm("server", s, t, c)
  BY <1>1, <1>3, <1>4, ServerCalls
<1> QED  BY <1>5 DEF t

\* SSL_process_quic_post_handshake of a server.
LEMMA ServerProcesses ==
    ASSUME NEW s, NEW c, Server(s, c), ServerSide(s, c), s.state # "ERROR"
    PROVE  Calm("server", s, Processing(s), c)
<1> DEFINE t == Processing(s)
<1>1. /\ Off(t, s, {"state", "write_state", "in_init", "call", "fresh"})
      /\ IF s.state \in {"UNINITED", "FINISHED"}
         THEN t.state = "WRITING" /\ t.write_state = "TRANSITION"
         ELSE t.state = s.state /\ t.write_state = s.write_state
  BY ProcessingFields DEF Server, Endpoint, Shape
<1> HIDE DEF t
<1>2. s.state \in {"UNINITED", "FINISHED"} => s.hand_state \in {"BEFORE", "OK", "EARLY_DATA"}
  BY DEF Server, ServerPlace, ServerControl, At
<1>3. /\ t.write_state = s.write_state \/ s.hand_state \in {"BEFORE", "OK", "EARLY_DATA"}
      /\ t.state = "WRITING" =>
            s.state = "WRITING" \/ s.hand_state \in {"BEFORE", "OK", "EARLY_DATA"}
      /\ t.early_data_state = s.early_data_state
      /\ Off(t, s, {"in_init", "early_data_state", "state", "write_state", "call", "fresh",
                    "rwstate", "done"})
  BY <1>1, <1>2, OffMore DEF Off, Fields
<1>4. Calm("server", s, t, c)
  BY <1>3, ServerCalls
<1> QED  BY <1>4 DEF t

\* The end of a call of a server.
LEMMA ServerRests ==
    ASSUME NEW s, NEW c, Server(s, c), ServerSide(s, c), s.call # "none", s.state = "FINISHED"
    PROVE  Calm("server", s, Resting(s), c)
<1> DEFINE t == Resting(s)
<1>1. Off(t, s, {"state", "write_state", "in_init", "call", "rwstate", "fresh",
                 "early_data_state", "done"})
  BY RestingFields DEF Server, Endpoint
<1> HIDE DEF t
<1>2. s.hand_state \in {"OK", "EARLY_DATA"}
  BY DEF Server, ServerPlace, ServerControl, At
<1>3. Calm("server", s, t, c)
  BY <1>1, <1>2, ServerCalls
<1> QED  BY <1>3 DEF t

\* SSL_new_session_ticket.
LEMMA ServerWishes ==
    ASSUME NEW s, NEW c, Server(s, c), ServerSide(s, c), s.state # "ERROR"
    PROVE  Calm("server", s, Asking(s), c) /\ Asking(s).flight = s.flight
<1> DEFINE t == Asking(s)
<1>1. DOMAIN s = Fields /\ Side("server", s, c)
  BY DEF Server, Endpoint, Shape, Side
<1>2. Off(t, s, {"extra_tickets_expected", "in_init", "rwstate"})
  BY <1>1 DEF Asking, Off, Fields
<1> HIDE DEF t
<1>3. t.state = s.state /\ t.flight = s.flight
  BY <1>2 DEF Off, Fields
<1>4. Calm("server", s, t, c)
  BY <1>1, <1>2, <1>3, CalmPlace DEF Fields, ScriptFields
<1> QED  BY <1>3, <1>4 DEF t

\* A ticket that is counted and not sent.
LEMMA ServerSpares ==
    ASSUME NEW s, NEW c, Server(s, c), ServerSide(s, c), At(s, "WRITING", "PRE_WORK"),
           s.hand_state = "SW_SESSION_TICKET", s.in_init = TRUE
    PROVE  LET t == Declining(s)
           IN  Calm("server", s, t, c) /\ t.flight = s.flight /\ t.state = s.state
<1> DEFINE t == Declining(s)
           n == ServerPos(s, c)
<1>1. /\ s.state = "WRITING" /\ s.write_state = "PRE_WORK" /\ DOMAIN s = Fields
      /\ s.extra_tickets_expected \in Nat
  BY DEF At, Server, Endpoint, Shape
<1>2. /\ Off(t, s, {"cleanuphand", "ticket_expected", "in_init", "sent_tickets",
                    "extra_tickets_expected", "tickets_declined", "write_state"})
      /\ t.write_state = "POST_WORK"
  BY <1>1, DecliningFields
<1> HIDE DEF t
<1>3. /\ t.hand_state = s.hand_state /\ t.read_state = s.read_state /\ t.state = s.state
      /\ Off(t, s, ServerWalks) /\ t.early_data_state = s.early_data_state
      /\ t.flight = s.flight
  BY <1>2, OffMore DEF Off, Fields, Walks, ServerWalks
<1>4. ~Astray(s.transcript) /\ ServerAt(s, c, n) /\ n = 12 /\ ServerPos(t, c) = 12
  BY <1>1, <1>3, ServerKeeps, ServerPosValues
<1>5. ~Weighing(t) /\ ~Weighing(s)
  BY <1>3 DEF Weighing
<1> HIDE DEF n
<1>6. ServerAt(t, c, n)
  BY <1>1, <1>2, <1>3, <1>4, <1>5, ServerWalk
<1>7. Calm("server", s, t, c)
  BY <1>3, <1>4, <1>6, ServerCalmWalk DEF n
<1> QED  BY <1>3, <1>7 DEF t

\* A server that has nothing to send.
LEMMA ServerStaysSilent ==
    ASSUME NEW s, NEW c, Server(s, c), ServerSide(s, c), At(s, "WRITING", "PRE_WORK"),
           s.hand_state \in NothingToSend
    PROVE  Calm("server", s, Silent(s), c)
<1> DEFINE t == Silent(s)
           n == ServerPos(s, c)
<1>1. /\ s.state = "WRITING" /\ s.write_state = "PRE_WORK" /\ DOMAIN s = Fields
      /\ s.hand_state = "EARLY_DATA"
  <2>1. s.state = "WRITING" /\ s.write_state = "PRE_WORK"
    BY DEF At
  <2>2. ServerControl(s) /\ DOMAIN s = Fields
    BY <2>1 DEF Server, ServerPlace, Endpoint, Shape
  <2> QED  BY <2>1, <2>2 DEF ServerControl, At, NothingToSend, ServerWrites, ServerFlight
<1>2. ~Astray(s.transcript) /\ ServerAt(s, c, n) /\ n \in 0 .. 12
  BY <1>1, ServerKeeps, PosRange DEF Pos
<1>3. Off(t, s, {"write_state"}) /\ t.write_state = "POST_WORK"
  BY <1>1, SilentFields
<1> HIDE DEF t
<1>4. /\ Off(t, s, ServerWalks) /\ t.hand_state = s.hand_state /\ t.state = s.state
      /\ t.early_data_state = s.early_data_state /\ t.read_state = s.read_state
  BY <1>3, OffMore DEF ServerWalks, Walks, Off, Fields
<1>5. ServerPos(t, c) = n /\ ~Weighing(t) /\ ~Weighing(s)
  BY <1>1, <1>4, ServerPosValues, ServerWalkFields DEF Weighing
<1> HIDE DEF n
<1>6. ServerAt(t, c, n)
  BY <1>1, <1>2, <1>3, <1>4, <1>5, ServerWalk
<1>7. Calm("server", s, t, c)
  BY <1>2, <1>4, <1>5, <1>6, ServerCalmWalk DEF n
<1> QED  BY <1>7 DEF t

\* A server goes on to the next state: every state is in the table.
LEMMA ServerWritesOn ==
    ASSUME NEW s, NEW c, Server(s, c), ServerSide(s, c), At(s, "WRITING", "TRANSITION")
    PROVE  /\ ServerWriteTransition(s, c) # "ERROR"
           /\ Calm("server", s, WritingOn(s, ServerWriteTransition(s, c)), c)
<1> DEFINE next == ServerWriteTransition(s, c)
           t == WritingOn(s, next)
           n == ServerPos(s, c)
<1>1. /\ s.state = "WRITING" /\ s.write_state = "TRANSITION" /\ ~Astray(s.transcript)
      /\ ServerAt(s, c, n) /\ DOMAIN s = Fields /\ n \in 0 .. 12
      /\ s.hand_state \in ServerWrites \union
             {"BEFORE", "SR_CLNT_HELLO", "EARLY_DATA", "SR_FINISHED", "OK"}
  <2>1. s.state = "WRITING" /\ s.write_state = "TRANSITION"
    BY DEF At
  <2>2. ServerControl(s) /\ DOMAIN s = Fields
    BY <2>1 DEF Server, ServerPlace, Endpoint, Shape
  <2> QED  BY <2>1, <2>2, ServerKeeps, PosRange DEF ServerControl, At, Pos
<1>2. ~Unsaid(s) /\ ~Weighing(s)
  <2> HIDE DEF n
  <2> QED  BY <1>1 DEF Unsaid, ServerAt, ServerLines
<1>3. \/ s.hand_state \in {"BEFORE", "EARLY_DATA"} /\ next = "FINISHED"
      \/ s.hand_state = "SR_CLNT_HELLO" /\ next = "SW_SRVR_HELLO"
      \/ s.hand_state = "SW_SRVR_HELLO" /\ next = IF s.hello_retry_request = "PENDING"
                                                  THEN "EARLY_DATA" ELSE "SW_ENCRYPTED_EXTENSIONS"
      \/ /\ s.hand_state = "SW_ENCRYPTED_EXTENSIONS"
         /\ next = IF s.hit THEN "SW_FINISHED" ELSE IF c.certReq THEN "SW_CERT_REQ" ELSE "SW_CERT"
      \/ s.hand_state = "SW_CERT_REQ" /\ next = "SW_CERT"
      \/ s.hand_state = "SW_CERT" /\ next = "SW_CERT_VRFY"
      \/ s.hand_state = "SW_CERT_VRFY" /\ next = "SW_FINISHED"
      \/ s.hand_state = "SW_FINISHED" /\ next = "EARLY_DATA"
      \/ /\ s.hand_state \in {"SR_FINISHED", "SW_SESSION_TICKET", "OK"}
         /\ next \in {"SW_SESSION_TICKET", "OK"}
      \/ s.hand_state = "OK" /\ next = "FINISHED"
  BY <1>1 DEF ServerWriteTransition, ServerWrites, ServerFlight
<1>4. next # "ERROR"
  BY <1>3
<1>5. /\ Off(t, s, {"state", "read_state", "hand_state", "write_state"})
      /\ IF next = "FINISHED"
         THEN /\ t.state = "READING" /\ t.read_state = "HEADER"
              /\ t.hand_state = s.hand_state /\ t.write_state = s.write_state
         ELSE /\ t.state = s.state /\ t.read_state = s.read_state
              /\ t.hand_state = next /\ t.write_state = "PRE_WORK"
  BY <1>1, WritingOnFields
<1> HIDE DEF t, next
<1>6. Off(t, s, ServerWalks) /\ t.early_data_state = s.early_data_state
  BY <1>5, OffMore DEF Walks, ServerWalks, Off, Fields
<1>7. /\ n \in Numbers(c) \union {0}
      /\ s.hand_state = "SW_CERT_REQ" => Asks(c)
      /\ s.hand_state \in {"SW_CERT", "SW_CERT_VRFY"} => ~Resumes(c)
      /\ n >= 3 => s.hit = Resumes(c) /\ s.hello_retry_request # "PENDING"
  <2> HIDE DEF n
  <2> QED  BY <1>1, <1>2 DEF ServerAt, ServerLines, ServerChoices, Judged
<1>8. /\ Unsaid(t) <=> next # "FINISHED"
      /\ ~Weighing(t) /\ t.hello_retry_request = s.hello_retry_request
  BY <1>1, <1>2, <1>3, <1>5, <1>6, ServerWalkFields DEF Unsaid, Weighing
<1>9. s.hand_state = "SW_ENCRYPTED_EXTENSIONS" => n = 5
  BY <1>2, ServerPosValues
<1>10. /\ t.hand_state = "SW_CERT_REQ" => Asks(c)
       /\ t.hand_state \in {"SW_CERT", "SW_CERT_VRFY"} => ~Resumes(c)
  BY <1>3, <1>5, <1>7, <1>9 DEF Asks
<1>11. ServerPos(t, c) = n
  <2>1. CASE s.hand_state \in {"BEFORE", "EARLY_DATA", "OK", "SR_FINISHED", "SW_SESSION_TICKET"}
    BY <1>3, <1>5, <1>8, <2>1, ServerPosValues
  <2>2. CASE s.hand_state = "SR_CLNT_HELLO"
    BY <1>2, <1>3, <1>5, <1>8, <2>2, ServerPosValues
  <2>3. CASE s.hand_state = "SW_SRVR_HELLO"
    BY <1>2, <1>3, <1>5, <1>8, <2>3, ServerPosValues
  <2>4. CASE s.hand_state = "SW_ENCRYPTED_EXTENSIONS"
    BY <1>3, <1>5, <1>7, <1>8, <1>9, <2>4, ServerPosValues
  <2>5. CASE s.hand_state \in {"SW_CERT_REQ", "SW_CERT", "SW_CERT_VRFY"}
    BY <1>2, <1>3, <1>5, <1>7, <1>8, <2>5, ServerPosValues DEF Asks
  <2>6. CASE s.hand_state = "SW_FINISHED"
    <3>1. n = 9
      BY <1>2, <2>6, ServerPosValues
    <3> QED  BY <1>3, <1>5, <1>7, <1>8, <2>6, <3>1, ServerPosValues
  <2> QED  BY <1>1, <2>1, <2>2, <2>3, <2>4, <2>5, <2>6 DEF ServerWrites, ServerFlight
<1>12. t.write_state # "SEND" /\ s.write_state # "SEND" /\ t.hand_state # "SR_CERT"
  BY <1>1, <1>3, <1>5
<1> HIDE DEF n
<1>13. ServerAt(t, c, n)
  BY <1>1, <1>2, <1>6, <1>8, <1>10, <1>12, ServerWalk
<1>14. Calm("server", s, t, c)
  BY <1>1, <1>6, <1>11, <1>13, ServerCalmWalk DEF n
<1> QED  BY <1>4, <1>14 DEF t, next

\* How tls_post_process_client_hello judges a ClientHello.
LEMMA HelloJudged ==
    ASSUME NEW s, DOMAIN s = Fields, NEW c, NEW psk, psk = ("psk" \in s.clienthello /\ c.acceptPsk)
    PROVE  LET t == PostProcessClientHello(s, c)
           IN  /\ t.hit = psk /\ t.read_state = "HEADER"
               /\ s.hello_retry_request = "NONE" /\ c.hrr => t.hello_retry_request = "PENDING"
               /\ s.hello_retry_request = "NONE" /\ ~c.hrr => t.hello_retry_request = "NONE"
               /\ s.hello_retry_request = "PENDING" => t.hello_retry_request = "COMPLETE"
               /\ "early" \notin s.clienthello => t.early_data = s.early_data
               /\ (/\ "early" \in s.clienthello /\ psk /\ c.serverEarly = "accept"
                   /\ s.early_data_state = "ACCEPTING" /\ t.hello_retry_request = "NONE")
                     => t.early_data = "ACCEPTED"
               /\ (/\ "early" \in s.clienthello
                   /\ ~(/\ psk /\ c.serverEarly = "accept"
                        /\ s.early_data_state = "ACCEPTING" /\ t.hello_retry_request = "NONE"))
                     => t.early_data = "REJECTED"
<1> DEFINE retry == CASE s.hello_retry_request = "NONE" /\ c.hrr -> "PENDING"
                      [] s.hello_retry_request = "PENDING"       -> "COMPLETE"
                      [] OTHER -> s.hello_retry_request
           early == CASE "early" \notin s.clienthello -> s.early_data
                      [] /\ "early" \in s.clienthello
                         /\ psk /\ c.serverEarly = "accept"
                         /\ s.early_data_state = "ACCEPTING"
                         /\ retry = "NONE"            -> "ACCEPTED"
                      [] OTHER                        -> "REJECTED"
           x == c.ticketExpected
           v == [s EXCEPT !.hit = psk, !.hello_retry_request = retry,
                          !.early_data = early, !.ticket_expected = x]
           w == [v EXCEPT !.secrets = @ \cup {ssl_encryption_early_data}]
           y == IF early = "ACCEPTED" THEN w ELSE v
<1>1. quic_change_cipher_state(v, ssl_encryption_early_data, "read") = w
  <2> HIDE DEF v
  <2> QED  BY DEF quic_change_cipher_state
<1>2. PostProcessClientHello(s, c) = FINISHED_READING(y)
  <2>1. PostProcessClientHello(s, c) =
          FINISHED_READING(IF early = "ACCEPTED"
                           THEN quic_change_cipher_state(v, ssl_encryption_early_data, "read")
                           ELSE v)
    BY Zenon DEF PostProcessClientHello
  <2> HIDE DEF v, w, early
  <2> QED  BY <1>1, <2>1 DEF y
<1>3. /\ s.hello_retry_request = "NONE" /\ c.hrr => retry = "PENDING"
      /\ s.hello_retry_request = "NONE" /\ ~c.hrr => retry = "NONE"
      /\ s.hello_retry_request = "PENDING" => retry = "COMPLETE"
  <2>1. ASSUME s.hello_retry_request = "NONE", c.hrr PROVE retry = "PENDING"
    BY <2>1
  <2>2. ASSUME s.hello_retry_request = "NONE", ~c.hrr PROVE retry = "NONE"
    BY <2>2
  <2>3. ASSUME s.hello_retry_request = "PENDING" PROVE retry = "COMPLETE"
    BY <2>3
  <2> QED  BY <2>1, <2>2, <2>3
<1> DEFINE fit == /\ psk /\ c.serverEarly = "accept"
                  /\ s.early_data_state = "ACCEPTING" /\ retry = "NONE"
<1>4. /\ "early" \notin s.clienthello => early = s.early_data
      /\ "early" \in s.clienthello /\ fit => early = "ACCEPTED"
      /\ "early" \in s.clienthello /\ ~fit => early = "REJECTED"
  <2> HIDE DEF retry
  <2>1. ASSUME "early" \notin s.clienthello PROVE early = s.early_data
    BY <2>1
  <2>2. ASSUME "early" \in s.clienthello, fit PROVE early = "ACCEPTED"
    BY <2>2
  <2>3. ASSUME "early" \in s.clienthello, ~fit PROVE early = "REJECTED"
    BY <2>3
  <2> QED  BY <2>1, <2>2, <2>3
<1> HIDE DEF retry, early, x
<1>5. y.hit = psk /\ y.hello_retry_request = retry /\ y.early_data = early /\ DOMAIN y = Fields
  BY DEF Fields
<1> HIDE DEF y
<1>6. LET t == FINISHED_READING(y)
      IN  /\ t.read_state = "HEADER" /\ t.hit = psk
          /\ t.hello_retry_request = retry /\ t.early_data = early
  BY <1>5 DEF FINISHED_READING, Fields
<1> QED  BY <1>2, <1>3, <1>4, <1>6

\* What a ClientHello of the script offers.
LEMMA HelloOffers ==
    ASSUME NEW c, NEW n \in {1, 3}
    PROVE  /\ "psk" \in HasOf(c, n) <=> c.session
           /\ "early" \in HasOf(c, n) <=> c.clientEarly = "on" /\ (n = 1 \/ ~c.hrr)
<1>1. CASE n = 1
  BY <1>1, HasValues DEF Psk, Early
<1>2. CASE n = 3
  BY <1>2, HasValues DEF Psk, Early
<1> QED  BY <1>1, <1>2

\* A server judges the ClientHello.
LEMMA ServerJudges ==
    ASSUME NEW s, NEW c, c \in Config, Server(s, c), ServerSide(s, c),
           At(s, "READING", "POST_PROCESS")
    PROVE  LET t == PostProcessMessage(s, c)
           IN  Calm("server", s, t, c) /\ t.state = "WRITING" /\ t.flight = s.flight
<1> DEFINE t == PostProcessMessage(s, c)
           n == ServerPos(s, c)
           b == "psk" \in s.clienthello /\ c.acceptPsk
<1>1. /\ s.state = "READING" /\ s.read_state = "POST_PROCESS" /\ DOMAIN s = Fields
      /\ s.hand_state = "SR_CLNT_HELLO"
  BY DEF At, Server, ServerPlace, ServerControl, Endpoint, Shape
<1>2. t = PostProcessClientHello(s, c)
  BY <1>1 DEF PostProcessMessage
<1>3. /\ ~Astray(s.transcript) /\ ServerAt(s, c, n) /\ Weighing(s)
      /\ n = IF c.hrr /\ s.hello_retry_request = "NONE" THEN 1 ELSE 3
  BY <1>1, ServerKeeps, ServerPosValues DEF Weighing
<1>4. n \in {1, 3} /\ ~Judged(s, n) /\ s.clienthello = HasOf(c, n) /\ s.transcript = After(c, n)
      /\ n \in Numbers(c)
  <2>1. n \in {1, 3} /\ ~Judged(s, n)
    BY <1>3 DEF Judged
  <2> HIDE DEF n
  <2>2. ServerLines(s, c, n)
    BY <1>3 DEF ServerAt
  <2>3. s.transcript = After(c, n)
    BY <1>1, <2>2 DEF ServerLines
  <2>4. s.clienthello = HasOf(c, n) /\ n \in Numbers(c) \union {0}
    BY <1>3, <2>2 DEF ServerLines
  <2>5. n # 0
    BY <2>1
  <2> QED  BY <2>1, <2>3, <2>4, <2>5
<1>5. /\ s.hello_retry_request = IF c.hrr /\ n = 3 THEN "PENDING" ELSE "NONE"
      /\ ~c.hrr => s.early_data_state = EarlyDataState(TRUE, c)
      /\ s.early_data # "ACCEPTED" /\ s.cert_req = 0
  <2> HIDE DEF n
  <2> QED  BY <1>1, <1>3, <1>4 DEF ServerAt, ServerChoices, EarlyDataState
<1>6. c.acceptPsk \in BOOLEAN /\ c.session \in BOOLEAN /\ c.hrr \in BOOLEAN
  BY ConfigAssumption
<1> HIDE DEF t
<1>7. /\ Off(t, s, {"hit", "hello_retry_request", "early_data", "ticket_expected",
                    "secrets", "read_state", "state", "write_state"})
      /\ t.state = "WRITING" /\ t.write_state = "TRANSITION"
      /\ t.secrets \subseteq s.secrets \cup {ssl_encryption_early_data}
  BY <1>1, <1>2, <1>5, HelloFields
<1>8. b = Resumes(c)
  BY <1>4, <1>6, HelloOffers DEF Resumes
<1>8b. b = ("psk" \in s.clienthello /\ c.acceptPsk)
  OBVIOUS
<1> HIDE DEF b
<1>9. /\ t.hit = b /\ t.read_state = "HEADER"
      /\ s.hello_retry_request = "NONE" /\ c.hrr => t.hello_retry_request = "PENDING"
      /\ s.hello_retry_request = "NONE" /\ ~c.hrr => t.hello_retry_request = "NONE"
      /\ s.hello_retry_request = "PENDING" => t.hello_retry_request = "COMPLETE"
      /\ "early" \notin s.clienthello => t.early_data = s.early_data
      /\ (/\ "early" \in s.clienthello /\ b /\ c.serverEarly = "accept"
          /\ s.early_data_state = "ACCEPTING" /\ t.hello_retry_request = "NONE")
            => t.early_data = "ACCEPTED"
      /\ (/\ "early" \in s.clienthello
          /\ ~(/\ b /\ c.serverEarly = "accept"
               /\ s.early_data_state = "ACCEPTING" /\ t.hello_retry_request = "NONE"))
            => t.early_data = "REJECTED"
  BY <1>1, <1>2, <1>8b, HelloJudged
<1>10. t.hello_retry_request = IF ~c.hrr THEN "NONE" ELSE IF n = 3 THEN "COMPLETE" ELSE "PENDING"
  BY <1>4, <1>5, <1>9
<1>11. t.early_data = "ACCEPTED" <=> n = 3 /\ Admits(c)
  <2>1. ~c.hrr => n = 3
    BY <1>3
  <2>2. "early" \in s.clienthello <=> c.clientEarly = "on" /\ (n = 1 \/ ~c.hrr)
    BY <1>4, HelloOffers
  <2>3. ~c.hrr /\ c.serverEarly = "accept" => s.early_data_state = "ACCEPTING"
    BY <1>5 DEF EarlyDataState
  <2>4. b <=> Resumes(c)
    BY <1>8
  <2>5. t.hello_retry_request = "NONE" <=> ~c.hrr
    BY <1>10
  <2> HIDE DEF n
  <2>6. CASE c.hrr
    BY <1>5, <1>9, <2>5, <2>6 DEF Admits
  <2>7. CASE ~c.hrr
    BY <1>4, <1>5, <1>9, <2>1, <2>2, <2>3, <2>4, <2>5, <2>7 DEF Admits
  <2> QED  BY <2>6, <2>7
<1>12. /\ t.hand_state = s.hand_state /\ t.transcript = s.transcript /\ t.cert_req = s.cert_req
       /\ t.quic_read_level = s.quic_read_level /\ t.flight = s.flight
       /\ t.early_data_state = s.early_data_state
       /\ t.quic_input_data = s.quic_input_data
       /\ t.quic_latest_level_received = s.quic_latest_level_received
  BY <1>7 DEF Off, Fields
<1>13. ~Weighing(t) /\ (Judged(t, n) <=> n = 3)
  BY <1>4, <1>9 DEF Weighing, Judged
<1>14. ServerPos(t, c) = n
  BY <1>1, <1>3, <1>4, <1>10, <1>12, <1>13, ServerPosValues
<1> HIDE DEF n
<1>15. ServerLines(t, c, n)
  BY <1>1, <1>4, <1>12, <1>13 DEF ServerLines, ServerSpeakers, ServerFlight
<1>16. ServerChoices(t, c, n)
  <2>1. t.hello_retry_request =
          IF ~c.hrr THEN "NONE"
          ELSE IF Judged(t, n) THEN "COMPLETE"
          ELSE IF n = 0 \/ (n = 1 /\ Weighing(t)) THEN "NONE" ELSE "PENDING"
    BY <1>4, <1>10, <1>13
  <2>2. ~c.hrr /\ ~Judged(t, n) => t.early_data_state = EarlyDataState(TRUE, c)
    BY <1>5, <1>12
  <2>3. Judged(t, n) => t.hit = Resumes(c)
    BY <1>8, <1>9
  <2>4. t.early_data = "ACCEPTED" <=> Judged(t, n) /\ Admits(c)
    BY <1>11, <1>13
  <2>5. t.cert_req = IF Asks(c) /\ (n >= 6 \/ (t.hand_state = "SW_CERT_REQ"
                                               /\ t.write_state = "SEND"))
                     THEN 1 ELSE 0
    BY <1>1, <1>4, <1>5, <1>12
  <2> QED  BY <2>1, <2>2, <2>3, <2>4, <2>5 DEF ServerChoices
<1>17. ServerLevels(t, n)
  <2>1. ssl_encryption_handshake # ssl_encryption_early_data
    BY DEF ssl_encryption_handshake, ssl_encryption_early_data
  <2> QED  BY <1>3, <1>7, <1>12, <2>1 DEF ServerAt, ServerLevels
<1>18. ServerSide(t, c)
  BY <1>3, <1>12, <1>14, <1>15, <1>16, <1>17 DEF ServerSide, ServerKept, ServerAt
<1>19. Calm("server", s, t, c)
  BY <1>3, <1>12, <1>14, <1>18 DEF Calm, Side, Pos, Hello, n
<1> QED  BY <1>7, <1>12, <1>19 DEF t

-----------------------------------------------------------------------------
(* What a server says *)

\* A server constructs its ServerHello or HelloRetryRequest.
LEMMA HelloWords ==
    ASSUME NEW s, DOMAIN s = Fields, NEW c, s.hand_state = "SW_SRVR_HELLO"
    PROVE  LET t == ConstructMessage(s, c)
           IN  /\ t.cert_req = s.cert_req
               /\ s.hello_retry_request = "PENDING" =>
                     /\ t.msg = Msg("SERVER_HELLO", {"hrr"})
                     /\ t.transcript = MessageHash(s.transcript)
               /\ s.hello_retry_request # "PENDING" =>
                     t.transcript = s.transcript /\ t.hit = s.hit
               /\ (s.hello_retry_request # "PENDING" /\ s.hit) =>
                     t.msg = Msg("SERVER_HELLO", {"psk"})
               /\ (s.hello_retry_request # "PENDING" /\ ~s.hit) =>
                     t.msg = Msg("SERVER_HELLO", {})
<1> DEFINE t == ConstructMessage(s, c)
           q == MessageHash(s.transcript)
<1>1. t = ConstructServerHello(s)
  BY DEF ConstructMessage
<1>2. CASE s.hello_retry_request = "PENDING"
  <2> DEFINE m == Msg("SERVER_HELLO", {"hrr"})
  <2>1. t = [s EXCEPT !.hit = FALSE, !.transcript = q, !.msg = m]
    BY <1>1, <1>2 DEF ConstructServerHello
  <2> HIDE DEF t, q, m
  <2>2. t.msg = m /\ t.transcript = q /\ t.cert_req = s.cert_req
    BY <2>1 DEF Fields
  <2> QED  BY <1>2, <2>2 DEF t, q, m
<1>3. CASE s.hello_retry_request # "PENDING" /\ s.hit
  <2> DEFINE m == Msg("SERVER_HELLO", {"psk"})
  <2>1. t = [s EXCEPT !.msg = m]
    BY <1>1, <1>3 DEF ConstructServerHello
  <2> HIDE DEF t, m
  <2>2. t.msg = m /\ t.transcript = s.transcript /\ t.cert_req = s.cert_req /\ t.hit = s.hit
    BY <2>1 DEF Fields
  <2> QED  BY <1>3, <2>2 DEF t, m
<1>4. CASE s.hello_retry_request # "PENDING" /\ ~s.hit
  <2> DEFINE m == Msg("SERVER_HELLO", {})
  <2>1. t = [s EXCEPT !.msg = m]
    BY <1>1, <1>4 DEF ConstructServerHello
  <2> HIDE DEF t, m
  <2>2. t.msg = m /\ t.transcript = s.transcript /\ t.cert_req = s.cert_req /\ t.hit = s.hit
    BY <2>1 DEF Fields
  <2> QED  BY <1>4, <2>2 DEF t, m
<1> QED  BY <1>2, <1>3, <1>4

\* A server constructs what comes after its ServerHello.
LEMMA ServerWords ==
    ASSUME NEW s, DOMAIN s = Fields, NEW c, s.server = TRUE,
           s.hand_state \in ServerFlight \union {"SW_FINISHED"}
    PROVE  LET t == ConstructMessage(s, c)
           IN  /\ t.transcript = s.transcript /\ t.hit = s.hit
               /\ t.cert_req = IF s.hand_state = "SW_CERT_REQ" THEN 1 ELSE s.cert_req
               /\ (s.hand_state = "SW_ENCRYPTED_EXTENSIONS" /\ s.early_data = "ACCEPTED") =>
                     t.msg = Msg("ENCRYPTED_EXTENSIONS", {"early"})
               /\ (s.hand_state = "SW_ENCRYPTED_EXTENSIONS" /\ s.early_data # "ACCEPTED") =>
                     t.msg = Msg("ENCRYPTED_EXTENSIONS", {})
               /\ s.hand_state = "SW_CERT_REQ" => t.msg = Msg("CERTIFICATE_REQUEST", {})
               /\ s.hand_state = "SW_CERT" => t.msg = Msg("CERTIFICATE", {})
               /\ s.hand_state = "SW_CERT_VRFY" => t.msg = Msg("CERTIFICATE_VERIFY", {})
               /\ s.hand_state = "SW_FINISHED" => t.msg = Signed(s.transcript)
<1> DEFINE t == ConstructMessage(s, c)
<1>1. CASE s.hand_state = "SW_ENCRYPTED_EXTENSIONS"
  <2> DEFINE m == Msg("ENCRYPTED_EXTENSIONS", IF s.early_data = "ACCEPTED" THEN {"early"} ELSE {})
  <2>1. t = [s EXCEPT !.msg = m]
    BY <1>1 DEF ConstructMessage
  <2>2. /\ s.early_data = "ACCEPTED" => m = Msg("ENCRYPTED_EXTENSIONS", {"early"})
        /\ s.early_data # "ACCEPTED" => m = Msg("ENCRYPTED_EXTENSIONS", {})
    OBVIOUS
  <2> HIDE DEF t, m
  <2>3. t.msg = m /\ t.transcript = s.transcript /\ t.cert_req = s.cert_req /\ t.hit = s.hit
    BY <2>1 DEF Fields
  <2> QED  BY <1>1, <2>2, <2>3 DEF t
<1>2. CASE s.hand_state = "SW_CERT_REQ"
  <2> DEFINE m == Msg("CERTIFICATE_REQUEST", {})
  <2>1. t = [s EXCEPT !.cert_req = 1, !.msg = m]
    BY <1>2 DEF ConstructMessage
  <2> HIDE DEF t, m
  <2>2. t.msg = m /\ t.transcript = s.transcript /\ t.cert_req = 1 /\ t.hit = s.hit
    BY <2>1 DEF Fields
  <2> QED  BY <1>2, <2>2 DEF t, m
<1>3. CASE s.hand_state = "SW_CERT"
  <2> DEFINE m == Msg("CERTIFICATE", {})
  <2>1. t = [s EXCEPT !.msg = m]
    BY <1>3 DEF ConstructMessage
  <2> HIDE DEF t, m
  <2>2. t.msg = m /\ t.transcript = s.transcript /\ t.cert_req = s.cert_req /\ t.hit = s.hit
    BY <2>1 DEF Fields
  <2> QED  BY <1>3, <2>2 DEF t, m
<1>4. CASE s.hand_state = "SW_CERT_VRFY"
  <2> DEFINE m == Msg("CERTIFICATE_VERIFY", {})
  <2>1. t = [s EXCEPT !.msg = m]
    BY <1>4 DEF ConstructMessage
  <2> HIDE DEF t, m
  <2>2. t.msg = m /\ t.transcript = s.transcript /\ t.cert_req = s.cert_req /\ t.hit = s.hit
    BY <2>1 DEF Fields
  <2> QED  BY <1>4, <2>2 DEF t, m
<1>5. CASE s.hand_state = "SW_FINISHED"
  <2> DEFINE m == [Msg("FINISHED", {}) EXCEPT !.mac = s.transcript]
  <2>1. t = [s EXCEPT !.cleanuphand = @ \/ ~s.server, !.msg = m]
    BY <1>5 DEF ConstructMessage, ConstructFinished
  <2>2. m = Signed(s.transcript)
    BY DEF Signed
  <2> HIDE DEF t, m
  <2>3. t.msg = m /\ t.transcript = s.transcript /\ t.cert_req = s.cert_req /\ t.hit = s.hit
    BY <2>1 DEF Fields
  <2> QED  BY <1>5, <2>2, <2>3 DEF t
<1> QED  BY <1>1, <1>2, <1>3, <1>4, <1>5 DEF ServerFlight

\* A ticket has nothing in it.
LEMMA TicketWords ==
    ASSUME NEW s, DOMAIN s = Fields, NEW c, s.hand_state = "SW_SESSION_TICKET", s.in_init = TRUE
    PROVE  LET t == ConstructMessage(PreWork(s), c)
           IN  t.msg = Msg("NEWSESSION_TICKET", {}) /\ t.cert_req = s.cert_req
<1> DEFINE w == PreWork(s)
           m == Msg("NEWSESSION_TICKET", {})
           t == ConstructMessage(w, c)
           k == IF w.extra_tickets_expected > 0 THEN w.extra_tickets_expected - 1 ELSE 0
<1>1. Off(w, s, {"cleanuphand", "ticket_expected", "in_init"})
  BY PreWorkFields
<1> HIDE DEF w
<1>2. w.hand_state = "SW_SESSION_TICKET" /\ DOMAIN w = Fields /\ w.cert_req = s.cert_req
  BY <1>1 DEF Off, Fields
<1>3. t = [[w EXCEPT !.sent_tickets = @ + 1, !.extra_tickets_expected = k] EXCEPT !.msg = m]
  BY <1>2 DEF ConstructMessage, ConstructNewSessionTicket, tls_update_ticket_counts
<1> HIDE DEF t, m, k
<1>4. t.msg = m /\ t.cert_req = w.cert_req
  BY <1>2, <1>3 DEF Fields
<1> QED  BY <1>2, <1>4 DEF t, w, m

\* It is the message of the script.
LEMMA ServerWordsFit ==
    ASSUME NEW s, NEW c, NEW n, DOMAIN s = Fields, s.server = TRUE, s.hand_state \in ServerSpeakers,
           s.hit \in BOOLEAN,
           n = ServerPos(s, c), ServerAt(s, c, n), s.write_state = "PRE_WORK"
    PROVE  /\ ConstructMessage(s, c).msg = MessageOf(c, ServerSays(s))
           /\ ConstructMessage(s, c).transcript = IF n = 1 THEN Hashed(c) ELSE s.transcript
           /\ n # 1 => ConstructMessage(s, c).hit = s.hit
<1> DEFINE u == ConstructMessage(s, c)
<1>1. Unsaid(s) /\ ~Weighing(s)
  BY DEF Unsaid, Weighing, ServerSpeakers, ServerFlight
<1>2. /\ n \in Numbers(c) \union {0} /\ n \in 0 .. 12
      /\ s.transcript = After(c, n)
      /\ s.hand_state = "SW_CERT_REQ" => Asks(c)
      /\ s.hand_state \in {"SW_CERT", "SW_CERT_VRFY"} => ~Resumes(c)
  BY PosRange DEF ServerAt, ServerLines, Pos
<1>3. /\ n >= 3 => s.hit = Resumes(c)
      /\ s.early_data = "ACCEPTED" <=> n >= 3 /\ Admits(c)
  BY <1>1, <1>2 DEF ServerAt, ServerChoices, Judged
<1>4. CASE s.hand_state = "SW_SRVR_HELLO" /\ s.hello_retry_request = "PENDING"
  <2>1. n = 1 /\ ServerSays(s) = 2
    BY <1>1, <1>4, ServerPosValues DEF ServerSays
  <2>2. u.msg = Msg("SERVER_HELLO", {"hrr"}) /\ u.transcript = MessageHash(s.transcript)
    BY <1>4, HelloWords
  <2>3. HasOf(c, 2) = {"hrr"} /\ MessageOf(c, 2) = Msg("SERVER_HELLO", HasOf(c, 2))
    BY HasValues, MessageMade
  <2>4. MessageHash(s.transcript) = Hashed(c)
    BY <1>2, <2>1, AfterRetry
  <2> QED  BY <2>1, <2>2, <2>3, <2>4
<1>5. CASE s.hand_state = "SW_SRVR_HELLO" /\ s.hello_retry_request # "PENDING"
  <2>1. n = 3 /\ ServerSays(s) = 4
    BY <1>1, <1>5, ServerPosValues DEF ServerSays
  <2>2. /\ s.hit => u.msg = Msg("SERVER_HELLO", {"psk"})
        /\ ~s.hit => u.msg = Msg("SERVER_HELLO", {})
        /\ u.transcript = s.transcript /\ u.hit = s.hit
    BY <1>5, HelloWords
  <2>3. MessageOf(c, 4) = Msg("SERVER_HELLO", HasOf(c, 4))
    BY MessageMade
  <2>4. (s.hit => HasOf(c, 4) = {"psk"}) /\ (~s.hit => HasOf(c, 4) = {})
    <3>1. HasOf(c, 4) = IF Resumes(c) THEN {"psk"} ELSE {}
      BY HasValues
    <3> QED  BY <1>3, <2>1, <3>1
  <2>5. u.msg = MessageOf(c, 4)
    BY <2>2, <2>3, <2>4
  <2> QED  BY <2>1, <2>2, <2>5
<1>6. CASE s.hand_state \in ServerFlight \union {"SW_FINISHED"}
  <2>1. u.transcript = s.transcript /\ u.hit = s.hit
    BY <1>6, ServerWords
  <2>2. n # 1
    BY <1>1, <1>6, ServerPosValues DEF ServerFlight
  <2>3. u.msg = MessageOf(c, ServerSays(s))
    <3>1. CASE s.hand_state = "SW_ENCRYPTED_EXTENSIONS"
      <4>1. n = 4 /\ ServerSays(s) = 5
        BY <1>1, <3>1, ServerPosValues DEF ServerSays
      <4>2. /\ s.early_data = "ACCEPTED" => u.msg = Msg("ENCRYPTED_EXTENSIONS", {"early"})
            /\ s.early_data # "ACCEPTED" => u.msg = Msg("ENCRYPTED_EXTENSIONS", {})
        BY <1>6, <3>1, ServerWords
      <4>3. MessageOf(c, 5) = Msg("ENCRYPTED_EXTENSIONS", HasOf(c, 5))
        BY MessageMade
      <4>4. /\ s.early_data = "ACCEPTED" => HasOf(c, 5) = {"early"}
            /\ s.early_data # "ACCEPTED" => HasOf(c, 5) = {}
        <5>1. HasOf(c, 5) = IF Admits(c) THEN {"early"} ELSE {}
          BY HasValues
        <5> QED  BY <1>3, <4>1, <5>1
      <4> QED  BY <4>1, <4>2, <4>3, <4>4
    <3>2. CASE s.hand_state = "SW_CERT_REQ"
      <4>1. ServerSays(s) = 6 /\ u.msg = Msg("CERTIFICATE_REQUEST", {})
        BY <1>6, <3>2, ServerWords DEF ServerSays
      <4>2. HasOf(c, 6) = {} /\ MessageOf(c, 6) = Msg("CERTIFICATE_REQUEST", HasOf(c, 6))
        BY HasValues, MessageMade
      <4> QED  BY <4>1, <4>2
    <3>3. CASE s.hand_state = "SW_CERT"
      <4>1. ServerSays(s) = 7 /\ u.msg = Msg("CERTIFICATE", {})
        BY <1>6, <3>3, ServerWords DEF ServerSays
      <4>2. HasOf(c, 7) = {} /\ MessageOf(c, 7) = Msg("CERTIFICATE", HasOf(c, 7))
        BY HasValues, MessageMade
      <4> QED  BY <4>1, <4>2
    <3>4. CASE s.hand_state = "SW_CERT_VRFY"
      <4>1. ServerSays(s) = 8 /\ u.msg = Msg("CERTIFICATE_VERIFY", {})
        BY <1>6, <3>4, ServerWords DEF ServerSays
      <4>2. HasOf(c, 8) = {} /\ MessageOf(c, 8) = Msg("CERTIFICATE_VERIFY", HasOf(c, 8))
        BY HasValues, MessageMade
      <4> QED  BY <4>1, <4>2
    <3>5. CASE s.hand_state = "SW_FINISHED"
      <4>1. ServerSays(s) = 9 /\ u.msg = Signed(s.transcript)
        BY <1>6, <3>5, ServerWords DEF ServerSays
      <4>2. n = IF Resumes(c) THEN 5 ELSE 8
        BY <1>1, <3>5, ServerPosValues
      <4>3. Follows(c, 9, n)
        BY <4>2, FollowsFrom
      <4>4. MacOf(c, 9) = s.transcript
        BY <1>2, <4>3, MacNext
      <4>5. MessageOf(c, 9) = Signed(MacOf(c, 9))
        BY FinishedMade
      <4> QED  BY <4>1, <4>4, <4>5
    <3> QED  BY <1>6, <3>1, <3>2, <3>3, <3>4, <3>5 DEF ServerFlight
  <2> QED  BY <2>1, <2>2, <2>3
<1> QED  BY <1>4, <1>5, <1>6 DEF ServerSpeakers

\* A server constructs a message.
LEMMA ServerComposes ==
    ASSUME NEW s, NEW c, Server(s, c), ServerSide(s, c), s.call # "none",
           At(s, "WRITING", "PRE_WORK"), ~PreWorkStops(s), s.hand_state \notin NothingToSend
    PROVE  LET t == Building(s, c)
           IN  Calm("server", s, t, c) /\ t.flight = s.flight /\ t.state = s.state
<1> DEFINE w == PreWork(s)
           u == ConstructMessage(w, c)
           t == Building(s, c)
           n == ServerPos(s, c)
<1>1. /\ s.state = "WRITING" /\ s.write_state = "PRE_WORK" /\ Speaks(s)
      /\ s.hand_state \in ServerWrites
  <2>1. s.state = "WRITING" /\ s.write_state = "PRE_WORK"
    BY DEF At
  <2>2. ServerControl(s) /\ ServerPlace(s, c) /\ Told(s) /\ Data(s, c) /\ Shape(s)
        /\ s.server = TRUE /\ s.extra_tickets_expected \in Nat
    BY <2>1 DEF Server, ServerPlace, Endpoint
  <2>3. s.hand_state \in ServerWrites
    BY <2>1, <2>2 DEF ServerControl, At, PreWorkStops, NothingToSend, ServerWrites, ServerFlight
  <2>4. {s.in_init, s.hit} \subseteq BOOLEAN
    BY <2>2 DEF Shape, Flags
  <2>5. s.in_init = TRUE
    BY <2>1, <2>2, <2>4 DEF Told
  <2>6. s.transcript # <<>>
    BY <2>2, <2>3 DEF ServerPlace, ServerWrites, ServerFlight
  <2> QED  BY <2>1, <2>2, <2>3, <2>4, <2>5, <2>6 DEF Speaks, Shape, Data
<1>2. ~Astray(s.transcript) /\ ServerAt(s, c, n) /\ n \in 0 .. 12
  BY <1>1, ServerKeeps, PosRange DEF Pos
<1>3. t = [u EXCEPT !.write_state = "SEND"]
  BY DEF Building
<1>4. s.hand_state # "SW_SESSION_TICKET" => w = s
  BY <1>1, PreWorkFields DEF Speaks
<1>5. Replied(s, u)
  <2>1. CASE s.hand_state = "SW_SESSION_TICKET"
    BY <1>1, <2>1, TicketReplied
  <2>2. CASE s.hand_state # "SW_SESSION_TICKET"
    BY <1>1, <1>4, <2>2, ServerHelloReplied, ServerFlightReplied, ServerFinishedReplied
       DEF ServerWrites
  <2> QED  BY <2>1, <2>2
<1>6. /\ s.hand_state \in ServerSpeakers => u.msg = MessageOf(c, ServerSays(s))
      /\ s.hand_state = "SW_SESSION_TICKET" => u.msg.has = {}
      /\ u.transcript = IF n = 1 THEN Hashed(c) ELSE s.transcript
      /\ n # 1 => u.hit = s.hit
      /\ u.cert_req = IF s.hand_state = "SW_CERT_REQ" THEN 1 ELSE s.cert_req
  <2>1. CASE s.hand_state = "SW_SESSION_TICKET"
    <3>1. u.msg = Msg("NEWSESSION_TICKET", {}) /\ u.cert_req = s.cert_req
      BY <1>1, <2>1, TicketWords DEF Speaks
    <3>2. n = 12
      BY <2>1, ServerPosValues
    <3>3. u.msg.has = {}
      BY <3>1 DEF Msg
    <3> QED  BY <1>5, <2>1, <3>1, <3>2, <3>3 DEF Replied, ServerSpeakers, ServerFlight
  <2>2. CASE s.hand_state \in ServerSpeakers
    <3>1. w = s
      BY <1>4, <2>2 DEF ServerSpeakers, ServerFlight
    <3>2. /\ DOMAIN s = Fields /\ s.server = TRUE /\ s.hit \in BOOLEAN
      BY <1>1 DEF Speaks
    <3>3. /\ u.msg = MessageOf(c, ServerSays(s))
          /\ u.transcript = IF n = 1 THEN Hashed(c) ELSE s.transcript
          /\ n # 1 => u.hit = s.hit
      <4>1. /\ n = ServerPos(s, c) /\ ServerAt(s, c, n) /\ s.write_state = "PRE_WORK"
            /\ u = ConstructMessage(s, c)
        BY <1>1, <1>2, <3>1
      <4> HIDE DEF n, u
      <4> QED  BY <2>2, <3>2, <4>1, ServerWordsFit
    <3>4. u.cert_req = IF s.hand_state = "SW_CERT_REQ" THEN 1 ELSE s.cert_req
      <4>1. CASE s.hand_state = "SW_SRVR_HELLO"
        BY <3>1, <3>2, <4>1, HelloWords
      <4>2. CASE s.hand_state \in ServerFlight \union {"SW_FINISHED"}
        BY <3>1, <3>2, <4>2, ServerWords
      <4> QED  BY <2>2, <4>1, <4>2 DEF ServerSpeakers
    <3> QED  BY <2>2, <3>3, <3>4 DEF ServerSpeakers, ServerFlight
  <2> QED  BY <1>1, <2>1, <2>2 DEF ServerSpeakers, ServerWrites
<1> HIDE DEF u, t, w
<1>7. /\ Off(t, s, {"hit", "transcript", "msg", "cert_req", "cleanuphand", "ticket_expected",
                    "in_init", "sent_tickets", "extra_tickets_expected", "write_state"})
      /\ t.write_state = "SEND" /\ t.msg = u.msg /\ t.hit = u.hit
      /\ t.transcript = u.transcript /\ t.cert_req = u.cert_req
  BY <1>3, <1>5 DEF Replied, Off, Fields
<1>8. /\ t.state = s.state /\ t.hand_state = s.hand_state /\ t.read_state = s.read_state
      /\ t.flight = s.flight
      /\ t.early_data_state = s.early_data_state /\ t.early_data = s.early_data
      /\ t.secrets = s.secrets /\ t.clienthello = s.clienthello
      /\ t.quic_read_level = s.quic_read_level /\ t.hello_retry_request = s.hello_retry_request
      /\ t.quic_input_data = s.quic_input_data
      /\ t.quic_latest_level_received = s.quic_latest_level_received
  BY <1>7 DEF Off, Fields
<1>9. /\ Unsaid(t) /\ Unsaid(s) /\ ServerSays(t) = ServerSays(s) /\ ~Weighing(t) /\ ~Weighing(s)
  BY <1>1, <1>7, <1>8 DEF Unsaid, ServerSays, Weighing, ServerWrites, ServerFlight
<1>10. ServerPos(t, c) = n
  BY <1>8, <1>9 DEF ServerPos
<1>11. /\ n = 1 <=> s.hand_state = "SW_SRVR_HELLO" /\ s.hello_retry_request = "PENDING"
       /\ s.hand_state = "SW_CERT_REQ" => n = 5
  BY <1>1, <1>9, ServerPosValues DEF ServerWrites, ServerFlight
<1> HIDE DEF n
<1>12. n \in Numbers(c) \union {0} /\ s.transcript = After(c, n)
  BY <1>1, <1>2 DEF ServerAt, ServerLines
<1>13. t.transcript = IF n = 1 THEN Hashed(c) ELSE After(c, n)
  BY <1>6, <1>7, <1>12
<1>14. ServerLines(t, c, n)
  <2>1. /\ t.hand_state = "SW_CERT_REQ" => Asks(c)
        /\ t.hand_state \in {"SW_CERT", "SW_CERT_VRFY"} => ~Resumes(c)
    BY <1>2, <1>8 DEF ServerAt, ServerLines
  <2>2. /\ t.hand_state \in ServerSpeakers => t.msg = MessageOf(c, ServerSays(t))
        /\ t.hand_state = "SW_SESSION_TICKET" => t.msg.has = {}
    BY <1>6, <1>7, <1>8, <1>9
  <2>3. t.transcript = IF n = 1 /\ t.hand_state = "SW_SRVR_HELLO" /\ t.write_state = "SEND"
                       THEN Hashed(c) ELSE After(c, n)
    BY <1>7, <1>8, <1>11, <1>13
  <2>4. t.hand_state # "SR_CERT"
    BY <1>1, <1>8 DEF ServerWrites, ServerFlight
  <2> QED  BY <1>9, <1>12, <2>1, <2>2, <2>3, <2>4 DEF ServerLines
<1>15. ServerChoices(t, c, n)
  <2>1. Judged(t, n) <=> Judged(s, n)
    BY <1>9 DEF Judged
  <2>2. t.hello_retry_request =
          IF ~c.hrr THEN "NONE"
          ELSE IF Judged(t, n) THEN "COMPLETE"
          ELSE IF n = 0 \/ (n = 1 /\ Weighing(t)) THEN "NONE" ELSE "PENDING"
    <3>1. s.hello_retry_request =
          IF ~c.hrr THEN "NONE"
          ELSE IF Judged(s, n) THEN "COMPLETE"
          ELSE IF n = 0 \/ (n = 1 /\ Weighing(s)) THEN "NONE" ELSE "PENDING"
      BY <1>2 DEF ServerAt, ServerChoices
    <3> QED  BY <1>8, <1>9, <2>1, <3>1
  <2>3. ~c.hrr /\ ~Judged(t, n) => t.early_data_state = EarlyDataState(TRUE, c)
    BY <1>2, <1>8, <2>1 DEF ServerAt, ServerChoices
  <2>4. Judged(t, n) => t.hit = Resumes(c)
    BY <1>2, <1>6, <1>7, <2>1 DEF ServerAt, ServerChoices, Judged
  <2>5. t.early_data = "ACCEPTED" <=> Judged(t, n) /\ Admits(c)
    BY <1>2, <1>8, <2>1 DEF ServerAt, ServerChoices
  <2>6. t.cert_req = IF Asks(c) /\ (n >= 6 \/ (t.hand_state = "SW_CERT_REQ"
                                               /\ t.write_state = "SEND"))
                     THEN 1 ELSE 0
    <3>1. s.cert_req = IF Asks(c) /\ n >= 6 THEN 1 ELSE 0
      BY <1>1, <1>2 DEF ServerAt, ServerChoices
    <3>2. s.hand_state = "SW_CERT_REQ" => Asks(c)
      BY <1>2 DEF ServerAt, ServerLines
    <3> QED  BY <1>6, <1>7, <1>8, <3>1, <3>2
  <2> QED  BY <2>2, <2>3, <2>4, <2>5, <2>6 DEF ServerChoices
<1>16. ServerLevels(t, n)
  BY <1>2, <1>8 DEF ServerAt, ServerLevels
<1>17. ~Astray(t.transcript)
  <2>1. Pure(Hashed(c)) /\ Pure(After(c, n))
    BY <1>2, PureStart, PureAfter
  <2> QED  BY <1>13, <2>1 DEF Pure
<1>18. ServerSide(t, c)
  BY <1>10, <1>14, <1>15, <1>16, <1>17 DEF ServerSide, ServerKept, ServerAt
<1>19. Calm("server", s, t, c)
  BY <1>2, <1>8, <1>10, <1>17, <1>18 DEF Calm, Side, Pos, Hello, n
<1> QED  BY <1>8, <1>19 DEF t

\* A server has sent a message, and the keys change.
LEMMA ServerGoesOn ==
    ASSUME NEW s, NEW c, Server(s, c), ServerSide(s, c), At(s, "WRITING", "POST_WORK"),
           NEW t, Ends(s, t)
    PROVE  Calm("server", s, t, c)
<1> DEFINE n == ServerPos(s, c)
           u == PostWork(s)
           hello == s.hand_state = "SW_SRVR_HELLO" /\ s.hello_retry_request # "PENDING"
           fin == s.hand_state = "SW_FINISHED"
<1>1. /\ s.state = "WRITING" /\ s.write_state = "POST_WORK" /\ DOMAIN s = Fields
      /\ s.server = TRUE /\ s.hand_state \in ServerWrites \union {"EARLY_DATA"}
  <2>1. s.state = "WRITING" /\ s.write_state = "POST_WORK"
    BY DEF At
  <2>2. ServerControl(s) /\ DOMAIN s = Fields /\ s.server = TRUE
    BY <2>1 DEF Server, ServerPlace, Endpoint, Shape
  <2> QED  BY <2>1, <2>2 DEF ServerControl, At
<1>2. ~Astray(s.transcript) /\ ServerAt(s, c, n) /\ n \in 0 .. 12
  BY <1>1, ServerKeeps, PosRange DEF Pos
<1>3. /\ u.quic_read_level \in {s.quic_read_level, ssl_encryption_handshake}
      /\ u.secrets \subseteq s.secrets \union Protected
      /\ ssl_encryption_handshake \in u.secrets => ssl_encryption_handshake \in s.secrets \/ hello
      /\ u.early_data_state # s.early_data_state => fin
  <2>1. ssl_encryption_handshake # ssl_encryption_application
    BY DEF ssl_encryption_handshake, ssl_encryption_application
  <2>2. CASE hello
    <3>1. /\ u.secrets = s.secrets \union {ssl_encryption_handshake}
          /\ u.early_data_state = s.early_data_state
          /\ u.quic_read_level = IF s.early_data # "ACCEPTED"
                                 THEN ssl_encryption_handshake ELSE s.quic_read_level
      BY <1>1, <2>2, PostWorkServer
    <3> QED  BY <2>2, <3>1 DEF Protected
  <2>3. CASE fin
    <3>1. /\ u.secrets = s.secrets \union {ssl_encryption_application}
          /\ u.quic_read_level = IF s.early_data = "ACCEPTED"
                                 THEN ssl_encryption_handshake ELSE s.quic_read_level
      BY <1>1, <2>3, PostWorkServer
    <3> QED  BY <2>1, <2>3, <3>1 DEF Protected
  <2>4. CASE ~hello /\ ~fin
    <3>1. u = s
      BY <1>1, <2>4, PostWorkServer
    <3> QED  BY <3>1
  <2> QED  BY <2>2, <2>3, <2>4
<1> HIDE DEF u
<1>4. /\ t.state = s.state /\ t.hand_state = s.hand_state /\ t.read_state = s.read_state
      /\ t.write_state = "TRANSITION" /\ t.msg = s.msg /\ t.clienthello = s.clienthello
      /\ t.hit = s.hit /\ t.early_data_state = u.early_data_state
      /\ t.transcript = s.transcript /\ t.cert_req = s.cert_req /\ t.early_data = s.early_data
      /\ t.quic_read_level = u.quic_read_level /\ t.hello_retry_request = s.hello_retry_request
      /\ t.quic_input_data = s.quic_input_data
      /\ t.quic_latest_level_received = s.quic_latest_level_received
      /\ t.secrets = u.secrets
  BY DEF Ends, Off, Fields, u
<1>5. ~Unsaid(t) /\ ~Unsaid(s) /\ ~Weighing(s) /\ ~Weighing(t)
  BY <1>1, <1>4 DEF Unsaid, Weighing, ServerWrites, ServerFlight
<1>6. ServerPos(t, c) = n
  BY <1>4, <1>5 DEF ServerPos
<1>7. (fin => n = 9) /\ (hello => n = 4)
  BY <1>5, ServerPosValues
<1> HIDE DEF n
<1>8. ServerLines(t, c, n)
  <2>1. /\ n \in Numbers(c) \union {0} /\ s.transcript = After(c, n)
        /\ s.hand_state = "SW_CERT_REQ" => Asks(c)
        /\ s.hand_state \in {"SW_CERT", "SW_CERT_VRFY"} => ~Resumes(c)
    BY <1>1, <1>2 DEF ServerAt, ServerLines
  <2>2. t.hand_state # "SR_CERT"
    BY <1>1, <1>4 DEF ServerWrites, ServerFlight
  <2> QED  BY <1>4, <1>5, <2>1, <2>2 DEF ServerLines
<1>9. ServerChoices(t, c, n)
  <2>1. Judged(t, n) <=> Judged(s, n)
    BY <1>5 DEF Judged
  <2>2. t.hello_retry_request =
          IF ~c.hrr THEN "NONE"
          ELSE IF Judged(t, n) THEN "COMPLETE"
          ELSE IF n = 0 \/ (n = 1 /\ Weighing(t)) THEN "NONE" ELSE "PENDING"
    <3>1. s.hello_retry_request =
          IF ~c.hrr THEN "NONE"
          ELSE IF Judged(s, n) THEN "COMPLETE"
          ELSE IF n = 0 \/ (n = 1 /\ Weighing(s)) THEN "NONE" ELSE "PENDING"
      BY <1>2 DEF ServerAt, ServerChoices
    <3> QED  BY <1>4, <1>5, <2>1, <3>1
  <2>3. ~c.hrr /\ ~Judged(t, n) => t.early_data_state = EarlyDataState(TRUE, c)
    <3>1. ~Judged(s, n) => t.early_data_state = s.early_data_state
      BY <1>3, <1>4, <1>5, <1>7 DEF Judged
    <3> QED  BY <1>2, <2>1, <3>1 DEF ServerAt, ServerChoices
  <2>4. Judged(t, n) => t.hit = Resumes(c)
    BY <1>2, <1>4, <2>1 DEF ServerAt, ServerChoices
  <2>5. t.early_data = "ACCEPTED" <=> Judged(t, n) /\ Admits(c)
    BY <1>2, <1>4, <2>1 DEF ServerAt, ServerChoices
  <2>6. t.cert_req = IF Asks(c) /\ (n >= 6 \/ (t.hand_state = "SW_CERT_REQ"
                                               /\ t.write_state = "SEND"))
                     THEN 1 ELSE 0
    BY <1>1, <1>2, <1>4 DEF ServerAt, ServerChoices
  <2> QED  BY <2>2, <2>3, <2>4, <2>5, <2>6 DEF ServerChoices
<1>10. ServerLevels(t, n)
  <2>1. ssl_encryption_handshake # ssl_encryption_application
    BY DEF ssl_encryption_handshake, ssl_encryption_application
  <2> QED  BY <1>2, <1>3, <1>4, <1>7, <2>1 DEF ServerAt, ServerLevels, Protected
<1>11. ServerSide(t, c)
  BY <1>2, <1>4, <1>6, <1>8, <1>9, <1>10 DEF ServerSide, ServerKept, ServerAt
<1> QED  BY <1>4, <1>6, <1>11 DEF Calm, Side, Pos, Hello, n

\* A server says the message that comes next.
LEMMA ServerSaid ==
    ASSUME NEW s, NEW c, Server(s, c), ServerSide(s, c), At(s, "WRITING", "SEND"),
           s.hand_state # "SW_SESSION_TICKET",
           NEW t, Sending(s, t, c), NEW n, n = ServerSays(s)
    PROVE  /\ ~Astray(s.transcript) /\ ~Astray(t.transcript) /\ ServerSide(t, c)
           /\ n \in Lines("server") /\ Follows(c, n, ServerPos(s, c)) /\ ServerPos(t, c) = n
           /\ s.msg = MessageOf(c, n) /\ s.quic_write_level = LevelOf(n)
           /\ t.quic_input_data = s.quic_input_data /\ t.state # "ERROR"
           /\ t.quic_latest_level_received = s.quic_latest_level_received
           /\ t.server = s.server /\ t.secrets = s.secrets
<1> DEFINE m == ServerPos(s, c)
<1>1. /\ s.state = "WRITING" /\ s.write_state = "SEND" /\ s.transcript \in Seq(Kinds)
      /\ ServerKeys(s) /\ s.hand_state \in ServerSpeakers
  <2>1. s.state = "WRITING" /\ s.write_state = "SEND"
    BY DEF At
  <2>2. ServerControl(s) /\ ServerKeys(s) /\ s.transcript \in Seq(Kinds)
    BY <2>1 DEF Server, ServerPlace, Endpoint, Data
  <2> QED  BY <2>1, <2>2 DEF ServerControl, At, ServerSpeakers, ServerWrites
<1>2. ~Astray(s.transcript) /\ ServerAt(s, c, m) /\ m \in 0 .. 12
  BY <1>1, ServerKeeps, PosRange DEF Pos
<1>3. /\ t.state = s.state /\ t.hand_state = s.hand_state /\ t.read_state = s.read_state
      /\ t.write_state = "POST_WORK" /\ t.msg = s.msg /\ t.clienthello = s.clienthello
      /\ t.early_data_state = s.early_data_state /\ t.hit = s.hit
      /\ t.cert_req = s.cert_req /\ t.early_data = s.early_data
      /\ t.quic_read_level = s.quic_read_level /\ t.hello_retry_request = s.hello_retry_request
      /\ t.quic_input_data = s.quic_input_data
      /\ t.quic_latest_level_received = s.quic_latest_level_received
      /\ t.secrets = s.secrets /\ t.quic_write_level = s.quic_write_level /\ t.server = s.server
  BY DEF Sending, Off, Fields
<1>4. ~Unsaid(t) /\ Unsaid(s) /\ ~Weighing(s) /\ ~Weighing(t)
  BY <1>1, <1>3 DEF Unsaid, Weighing, ServerSpeakers, ServerFlight
<1>5. /\ m \in Numbers(c) \union {0}
      /\ s.transcript = IF m = 1 /\ s.hand_state = "SW_SRVR_HELLO" THEN Hashed(c) ELSE After(c, m)
      /\ s.hand_state = "SW_CERT_REQ" => Asks(c)
      /\ s.hand_state \in {"SW_CERT", "SW_CERT_VRFY"} => ~Resumes(c)
      /\ s.msg = MessageOf(c, n)
  BY <1>1, <1>2 DEF ServerAt, ServerLines
<1>6. \/ n = 2 /\ m = 1 /\ s.hand_state = "SW_SRVR_HELLO" /\ s.hello_retry_request = "PENDING"
      \/ n = 4 /\ m = 3 /\ s.hand_state = "SW_SRVR_HELLO" /\ s.hello_retry_request # "PENDING"
      \/ n = 5 /\ m = 4 /\ s.hand_state = "SW_ENCRYPTED_EXTENSIONS"
      \/ n = 6 /\ m = 5 /\ Asks(c) /\ s.hand_state = "SW_CERT_REQ"
      \/ n = 7 /\ ~Resumes(c) /\ m = (IF c.certReq THEN 6 ELSE 5) /\ s.hand_state = "SW_CERT"
      \/ n = 8 /\ m = 7 /\ ~Resumes(c) /\ s.hand_state = "SW_CERT_VRFY"
      \/ n = 9 /\ m = (IF Resumes(c) THEN 5 ELSE 8) /\ s.hand_state = "SW_FINISHED"
  BY <1>1, <1>4, <1>5, ServerPosValues DEF ServerSays, ServerSpeakers, ServerFlight
<1>7. Follows(c, n, m)
  <2>1. m = 1 => c.hrr
    BY <1>5, NumbersFacts
  <2> QED  BY <1>6, <2>1, FollowsFrom DEF Asks
<1>8. ServerPos(t, c) = n
  <2>1. CASE s.hand_state = "SW_SRVR_HELLO"
    BY <1>3, <1>4, <2>1, ServerPosValues DEF ServerSays
  <2>2. CASE s.hand_state # "SW_SRVR_HELLO"
    BY <1>3, <1>4, <1>6, <2>2, ServerPosValues
  <2> QED  BY <2>1, <2>2
<1>9. s.quic_write_level = LevelOf(n)
  <2>1. CASE n \in {2, 4}
    BY <1>1, <1>6, <2>1 DEF ServerKeys, ServerHellos, LevelOf
  <2>2. CASE n \notin {2, 4}
    <3>1. s.hand_state \in ServerFlight \union {"SW_FINISHED"} /\ n > 4 /\ m >= 3 /\ ~Weighing(s)
      BY <1>4, <1>6, <2>2 DEF ServerFlight
    <3>2. s.hello_retry_request # "PENDING"
      <4> HIDE DEF m
      <4> QED  BY <1>2, <3>1 DEF ServerAt, ServerChoices, Judged
    <3>3. ServerWriting(s)
      BY <1>1, <3>1, <3>2 DEF ServerWriting
    <3>4. s.quic_write_level = ssl_encryption_handshake
      BY <1>1, <3>3 DEF ServerKeys
    <3> QED  BY <1>6, <3>1, <3>4 DEF LevelOf
  <2> QED  BY <2>1, <2>2
<1>10. n \in 1 .. 12 /\ n \in Numbers(c) /\ n \in Lines("server")
  BY <1>6, <1>7 DEF Follows, Lines
<1>11. t.transcript = After(c, n)
  <2>1. Entry(s.msg) = KindOf(c, n) /\ s.msg.type = TypeOf(n)
    BY <1>5, MessageFacts
  <2>2. s.msg.type # "NEWSESSION_TICKET"
    BY <1>10, <2>1, TypeFacts
  <2>3. t.transcript = Append(s.transcript, KindOf(c, n))
    BY <2>1, <2>2 DEF Sending
  <2>4. CASE n = 2
    <3>1. s.transcript = Hashed(c)
      BY <1>5, <1>6, <2>4
    <3> QED  BY <2>3, <2>4, <3>1, AfterRetry DEF Grown
  <2>5. CASE n # 2
    <3>1. After(c, n) = Grown(c, After(c, m), n)
      BY <1>2, <1>5, <1>7, <2>5, AfterNext
    <3>2. s.transcript = After(c, m)
      BY <1>5, <1>6, <2>5
    <3> QED  BY <2>3, <3>1, <3>2 DEF Grown
  <2> QED  BY <2>4, <2>5
<1>12. ~Astray(t.transcript)
  BY <1>10, <1>11, PureAfter DEF Pure
<1> HIDE DEF m
<1>13. ServerLines(t, c, n)
  <2>1. t.hand_state # "SR_CERT" /\ t.write_state # "SEND"
    BY <1>1, <1>3 DEF ServerSpeakers, ServerFlight
  <2> QED  BY <1>3, <1>4, <1>5, <1>10, <1>11, <2>1 DEF ServerLines
<1>14. ServerChoices(t, c, n)
  <2>1. (Judged(s, m) <=> m >= 3) /\ (Judged(t, n) <=> n >= 3) /\ (n >= 3 <=> m >= 3)
    BY <1>4, <1>6, <1>10 DEF Judged
  <2>2. t.hello_retry_request =
          IF ~c.hrr THEN "NONE"
          ELSE IF Judged(t, n) THEN "COMPLETE"
          ELSE IF n = 0 \/ (n = 1 /\ Weighing(t)) THEN "NONE" ELSE "PENDING"
    <3>1. s.hello_retry_request =
          IF ~c.hrr THEN "NONE"
          ELSE IF Judged(s, m) THEN "COMPLETE"
          ELSE IF m = 0 \/ (m = 1 /\ Weighing(s)) THEN "NONE" ELSE "PENDING"
      BY <1>2 DEF ServerAt, ServerChoices
    <3>2. m # 0 /\ n # 0
      BY <1>6
    <3> QED  BY <1>3, <1>4, <2>1, <3>1, <3>2
  <2>3. ~c.hrr /\ ~Judged(t, n) => t.early_data_state = EarlyDataState(TRUE, c)
    BY <1>2, <1>3, <2>1 DEF ServerAt, ServerChoices
  <2>4. Judged(t, n) => t.hit = Resumes(c)
    BY <1>2, <1>3, <2>1 DEF ServerAt, ServerChoices
  <2>5. t.early_data = "ACCEPTED" <=> Judged(t, n) /\ Admits(c)
    BY <1>2, <1>3, <2>1 DEF ServerAt, ServerChoices
  <2>6. t.cert_req = IF Asks(c) /\ (n >= 6 \/ (t.hand_state = "SW_CERT_REQ"
                                               /\ t.write_state = "SEND"))
                     THEN 1 ELSE 0
    <3>1. s.cert_req = IF Asks(c) /\ (m >= 6 \/ (s.hand_state = "SW_CERT_REQ"
                                               /\ s.write_state = "SEND"))
                       THEN 1 ELSE 0
      BY <1>2 DEF ServerAt, ServerChoices
    <3>2. Asks(c) => (n >= 6 <=> (m >= 6 \/ s.hand_state = "SW_CERT_REQ"))
      BY <1>6 DEF Asks
    <3> QED  BY <1>1, <1>3, <3>1, <3>2
  <2> QED  BY <2>2, <2>3, <2>4, <2>5, <2>6 DEF ServerChoices
<1>15. ServerLevels(t, n)
  <2>1. (m >= 4 => n >= 4) /\ m # 12
    BY <1>6
  <2> QED  BY <1>2, <1>3, <2>1 DEF ServerAt, ServerLevels
<1>16. ServerSide(t, c)
  BY <1>8, <1>12, <1>13, <1>14, <1>15 DEF ServerSide, ServerKept, ServerAt
<1> QED  BY <1>1, <1>2, <1>3, <1>5, <1>7, <1>8, <1>9, <1>10, <1>12, <1>16 DEF m

\* A server that is through sends a ticket.
LEMMA ServerHandsOut ==
    ASSUME NEW s, NEW c, Server(s, c), ServerSide(s, c), At(s, "WRITING", "SEND"),
           s.hand_state = "SW_SESSION_TICKET", NEW t, Sending(s, t, c)
    PROVE  /\ Calm("server", s, t, c) /\ ServerPos(s, c) = 12 /\ t.state # "ERROR"
           /\ s.msg.type = "NEWSESSION_TICKET" /\ s.msg.has # {"stray"}
           /\ s.quic_write_level = ssl_encryption_application
           /\ t.server = s.server /\ t.secrets = s.secrets
<1> DEFINE n == ServerPos(s, c)
<1>1. /\ s.state = "WRITING" /\ s.write_state = "SEND" /\ s.msg.type = "NEWSESSION_TICKET"
      /\ ServerKeys(s)
  <2>1. s.state = "WRITING" /\ s.write_state = "SEND"
    BY DEF At
  <2> QED  BY <2>1 DEF Server, ServerPlace
<1>2. ~Astray(s.transcript) /\ ServerAt(s, c, n) /\ n = 12
  BY <1>1, ServerKeeps, ServerPosValues
<1>3. /\ t.state = s.state /\ t.hand_state = s.hand_state /\ t.read_state = s.read_state
      /\ t.write_state = "POST_WORK" /\ t.msg = s.msg /\ t.clienthello = s.clienthello
      /\ t.early_data_state = s.early_data_state /\ t.hit = s.hit
      /\ t.cert_req = s.cert_req /\ t.early_data = s.early_data
      /\ t.quic_read_level = s.quic_read_level /\ t.hello_retry_request = s.hello_retry_request
      /\ t.quic_input_data = s.quic_input_data
      /\ t.quic_latest_level_received = s.quic_latest_level_received
      /\ t.secrets = s.secrets /\ t.quic_write_level = s.quic_write_level /\ t.server = s.server
  BY DEF Sending, Off, Fields
<1>4. t.transcript = s.transcript
  BY <1>1 DEF Sending
<1>5. ~Weighing(s) /\ ~Weighing(t) /\ ServerPos(t, c) = 12
  BY <1>3, ServerPosValues DEF Weighing
<1>6. s.quic_write_level = ssl_encryption_application
  BY <1>1 DEF ServerKeys, ServerOver
<1> HIDE DEF n
<1>7. s.msg.has # {"stray"}
  BY <1>1, <1>2 DEF ServerAt, ServerLines
<1>8. ServerLines(t, c, 12)
  <2>1. n \in Numbers(c) \union {0} /\ s.transcript = After(c, 12)
    BY <1>1, <1>2 DEF ServerAt, ServerLines
  <2> QED  BY <1>2, <1>3, <1>4, <1>5, <2>1 DEF ServerLines
<1>9. ServerChoices(t, c, 12)
  BY <1>2, <1>3, <1>5 DEF ServerAt, ServerChoices, Judged
<1>10. ServerLevels(t, 12)
  BY <1>2, <1>3 DEF ServerAt, ServerLevels
<1>11. ServerSide(t, c)
  BY <1>2, <1>4, <1>5, <1>8, <1>9, <1>10 DEF ServerSide, ServerKept, ServerAt
<1> QED  BY <1>1, <1>2, <1>3, <1>4, <1>5, <1>6, <1>7, <1>11 DEF Calm, Side, Pos, Hello, n

-----------------------------------------------------------------------------
(* A server reads *)

\* The state of a server that reads message n of the script.
ServerReadsAt(n) ==
    CASE n \in {1, 3} -> "SR_CLNT_HELLO"
      [] n = 10 -> "SR_CERT"
      [] n = 11 -> "SR_CERT_VRFY"
      [] OTHER  -> "SR_FINISHED"

\* Where a server is that reads.
LEMMA ServerAwaits ==
    ASSUME NEW s, NEW c, Server(s, c), At(s, "READING", "HEADER")
    PROVE  /\ s.hand_state \in {"BEFORE", "EARLY_DATA", "SR_CERT", "SR_CERT_VRFY", "OK"}
           /\ ~Weighing(s)
           /\ s.hand_state = "BEFORE" => s.quic_read_level = ssl_encryption_initial
           /\ s.hand_state = "EARLY_DATA" /\ s.hello_retry_request = "PENDING" =>
                 s.quic_read_level = ssl_encryption_initial
           /\ s.hand_state = "EARLY_DATA" /\ s.hello_retry_request # "PENDING" =>
                 s.quic_read_level = ssl_encryption_handshake
           /\ (/\ s.hand_state \in {"SR_CERT", "SR_CERT_VRFY"}
               /\ s.hello_retry_request # "PENDING") =>
                 s.quic_read_level = ssl_encryption_handshake
           /\ s.hand_state = "OK" => s.quic_read_level = ssl_encryption_application
<1>1. s.state = "READING" /\ s.read_state = "HEADER"
  BY DEF At
<1>2. ServerControl(s) /\ ServerKeys(s)
  BY <1>1 DEF Server, ServerPlace
<1>3. s.hand_state \in {"BEFORE", "EARLY_DATA", "SR_CERT", "SR_CERT_VRFY", "OK"}
  BY <1>1, <1>2 DEF ServerControl, At
<1>4. ~Weighing(s)
  BY <1>1 DEF Weighing
<1>5. /\ s.hand_state = "BEFORE" => s.quic_read_level = ssl_encryption_initial
      /\ s.hand_state = "EARLY_DATA" /\ s.hello_retry_request = "PENDING" =>
            s.quic_read_level = ssl_encryption_initial
  BY <1>2 DEF ServerKeys, ServerHellos
<1>6. (/\ s.hand_state \in {"EARLY_DATA", "SR_CERT", "SR_CERT_VRFY"}
       /\ s.hello_retry_request # "PENDING") => s.quic_read_level = ssl_encryption_handshake
  BY <1>2 DEF ServerKeys, ServerReading
<1>7. s.hand_state = "OK" => s.quic_read_level = ssl_encryption_application
  BY <1>2 DEF ServerKeys, ServerOver
<1> QED  BY <1>3, <1>4, <1>5, <1>6, <1>7

\* The client's message that comes next is of the level and for the state that
\* the server reads in.
LEMMA ServerExpects ==
    ASSUME NEW s, NEW c, Server(s, c), ServerSide(s, c), At(s, "READING", "HEADER"),
           ~Astray(s.transcript), NEW m, m = ServerPos(s, c),
           NEW n \in Numbers(c) \intersect Lines("client"), m < n,
           \A k \in Numbers(c) \intersect Lines("client") : k < n => k <= m
    PROVE  /\ Follows(c, n, m) /\ n \in {1, 3, 10, 11, 12} /\ m \in {0, 2, 9, 10, 11}
           /\ ServerAt(s, c, m) /\ m \in Numbers(c) \union {0}
           /\ LevelOf(n) = s.quic_read_level
           /\ ServerReadTransition(s, TypeOf(n)) = ServerReadsAt(n)
<1>1. /\ s.state = "READING" /\ s.read_state = "HEADER" /\ ~Weighing(s)
      /\ s.hand_state \in {"BEFORE", "EARLY_DATA", "SR_CERT", "SR_CERT_VRFY", "OK"}
  BY ServerAwaits DEF At
<1>2. ServerAt(s, c, m) /\ m \in 0 .. 12
  BY <1>1, ServerKeeps, PosRange DEF Pos
<1>3. m \in Numbers(c) \union {0}
  BY <1>2 DEF ServerAt, ServerLines
<1>4. s.hello_retry_request =
         IF ~c.hrr THEN "NONE"
         ELSE IF m >= 3 THEN "COMPLETE" ELSE IF m = 0 THEN "NONE" ELSE "PENDING"
  BY <1>1, <1>2 DEF ServerAt, ServerChoices, Judged
<1>5. \/ s.hand_state = "BEFORE" /\ m = 0
      \/ s.hand_state = "EARLY_DATA" /\ m = 2 /\ s.hello_retry_request = "PENDING"
      \/ s.hand_state = "EARLY_DATA" /\ m = 9 /\ s.hello_retry_request # "PENDING"
      \/ s.hand_state = "SR_CERT" /\ m = 10 /\ s.hello_retry_request # "PENDING"
      \/ s.hand_state = "SR_CERT_VRFY" /\ m = 11 /\ s.hello_retry_request # "PENDING"
      \/ s.hand_state = "OK" /\ m = 12
  <2>1. /\ s.hand_state = "BEFORE" => m = 0
        /\ s.hand_state = "EARLY_DATA" =>
              m = IF s.hello_retry_request = "PENDING" THEN 2 ELSE 9
        /\ s.hand_state = "SR_CERT" => m = 10
        /\ s.hand_state = "SR_CERT_VRFY" => m = 11
        /\ s.hand_state = "OK" => m = 12
    BY ServerPosValues
  <2> QED  BY <1>1, <1>4, <2>1
<1>6. n \in {1, 3, 10, 11, 12} /\ n \in Numbers(c) /\ n \in 1 .. 12
  BY DEF Lines
<1>7. /\ 3 \in Numbers(c) \intersect Lines("client") /\ 12 \in Numbers(c) \intersect Lines("client")
      /\ 1 \in Numbers(c) \intersect Lines("client") <=> c.hrr
      /\ 10 \in Numbers(c) \intersect Lines("client") <=> Asks(c)
      /\ 11 \in Numbers(c) \intersect Lines("client") <=> Asks(c) /\ c.clientCert
  BY NumbersFacts DEF Lines
<1>8. m \in Numbers(c) => /\ m = 2 => c.hrr
                          /\ m = 10 => Asks(c)
                          /\ m = 11 => Asks(c) /\ c.clientCert
  BY NumbersFacts
<1>9. \/ m = 0 /\ n = 1 /\ c.hrr
      \/ m = 0 /\ n = 3 /\ ~c.hrr
      \/ m = 2 /\ n = 3 /\ c.hrr
      \/ m = 9 /\ n = 10 /\ Asks(c)
      \/ m = 9 /\ n = 12 /\ ~Asks(c)
      \/ m = 10 /\ n = 11 /\ Asks(c) /\ c.clientCert
      \/ m = 10 /\ n = 12 /\ Asks(c) /\ ~c.clientCert
      \/ m = 11 /\ n = 12 /\ Asks(c) /\ c.clientCert
  BY <1>3, <1>5, <1>6, <1>7, <1>8
<1>10. Follows(c, n, m)
  BY <1>9, FollowsFrom
<1>11. LevelOf(n) = s.quic_read_level
  <2>1. /\ m \in {0, 2} => s.quic_read_level = ssl_encryption_initial
        /\ m \in {9, 10, 11} => s.quic_read_level = ssl_encryption_handshake
    BY <1>5, ServerAwaits
  <2> QED  BY <1>9, <2>1 DEF LevelOf
<1>12. /\ m \in {9, 10, 11} => s.cert_req = IF Asks(c) THEN 1 ELSE 0
       /\ m = 10 => s.msg.has = HasOf(c, 10)
  <2>1. m \in {9, 10, 11} => s.cert_req = IF Asks(c) THEN 1 ELSE 0
    BY <1>2 DEF ServerAt, ServerChoices
  <2>2. s.hand_state = "SR_CERT" => s.msg.has = HasOf(c, 10)
    BY <1>2 DEF ServerAt, ServerLines
  <2> QED  BY <1>5, <2>1, <2>2
<1>13. HasOf(c, 10) = {"empty"} <=> ~c.clientCert
  BY HasValues
<1>14. ServerReadTransition(s, TypeOf(n)) = ServerReadsAt(n)
  <2>1. CASE m = 0
    BY <1>5, <1>6, <1>9, <2>1, TypeFacts DEF ServerReadTransition, ServerReadsAt
  <2>2. CASE m = 2
    BY <1>5, <1>6, <1>9, <2>2, TypeFacts DEF ServerReadTransition, ServerReadsAt
  <2>3. CASE m = 9
    BY <1>5, <1>6, <1>9, <1>12, <2>3, TypeFacts DEF ServerReadTransition, ServerReadsAt
  <2>4. CASE m = 10
    BY <1>5, <1>6, <1>9, <1>12, <1>13, <2>4, TypeFacts DEF ServerReadTransition, ServerReadsAt
  <2>5. CASE m = 11
    BY <1>5, <1>6, <1>9, <2>5, TypeFacts DEF ServerReadTransition, ServerReadsAt
  <2> QED  BY <1>9, <2>1, <2>2, <2>3, <2>4, <2>5
<1> QED  BY <1>2, <1>3, <1>6, <1>9, <1>10, <1>11, <1>14

\* What a server changes that reads, and does not fail.
Reads == {"quic_input_data", "msg", "transcript", "hand_state", "clienthello", "read_state",
          "cleanuphand", "secrets", "quic_read_level", "state", "write_state"}

\* What a server becomes that reads message n of the script.
ServerHears(s, t, c, n) ==
    /\ Off(t, s, Reads)
    /\ t.hand_state = ServerReadsAt(n)
    /\ t.quic_input_data = Tail(s.quic_input_data)
    /\ t.transcript = After(c, n) /\ t.msg.has = HasOf(c, n)
    /\ t.secrets = s.secrets
    /\ n # 12 => t.state = "READING" /\ t.quic_read_level = s.quic_read_level
    /\ n \in {1, 3} => t.read_state = "POST_PROCESS" /\ t.clienthello = HasOf(c, n)
    /\ n \in {10, 11, 12} => t.read_state = "HEADER"
    /\ n = 12 => /\ t.quic_read_level = ssl_encryption_application
                 /\ t.state = "WRITING" /\ t.write_state = "TRANSITION"

\* A server about to read message n after message m.
ServerListens(s, c, n, m) ==
    /\ DOMAIN s = Fields /\ s.server = TRUE
    /\ s.state = "READING" /\ s.read_state = "HEADER" /\ s.hand_state # "SW_CERT_REQ"
    /\ m \in {0, 2, 9, 10, 11} /\ n \in {1, 3, 10, 11, 12} /\ Follows(c, n, m)
    /\ m \in Numbers(c) \union {0}
    /\ s.transcript = After(c, m)
    /\ s.quic_input_data[1].msg = MessageOf(c, n)

\* The transcript once the message is in it.
LEMMA ServerBody ==
    ASSUME NEW s, NEW c, NEW n, NEW m, ServerListens(s, c, n, m)
    PROVE  LET b == Body(s, ServerReadsAt(n))
           IN  /\ Off(b, s, {"quic_input_data", "msg", "transcript", "hand_state"})
               /\ b.hand_state = ServerReadsAt(n) /\ b.msg.has = HasOf(c, n)
               /\ b.quic_input_data = Tail(s.quic_input_data)
               /\ b.transcript = After(c, n) /\ b.transcript = Append(After(c, m), KindOf(c, n))
<1> DEFINE e == s.quic_input_data[1].msg
<1>1. /\ DOMAIN s = Fields /\ n \in 1 .. 12 /\ m \in 0 .. 12 /\ m \in Numbers(c) \union {0}
      /\ s.transcript = After(c, m) /\ Follows(c, n, m) /\ e = MessageOf(c, n) /\ n # 2
  BY DEF ServerListens
<1>2. e.type = TypeOf(n) /\ e.has = HasOf(c, n) /\ Entry(e) = KindOf(c, n)
  BY <1>1, MessageFacts
<1>3. e.type # "NEWSESSION_TICKET" /\ e.has # {"hrr"}
  BY <1>1, <1>2, TypeFacts, HasFacts
<1>4. After(c, n) = Append(After(c, m), KindOf(c, n))
  BY <1>1, AfterNext DEF Grown
<1> DEFINE b == Body(s, ServerReadsAt(n))
<1>5. /\ Off(b, s, {"quic_input_data", "msg", "transcript", "hand_state"})
      /\ b.hand_state = ServerReadsAt(n) /\ b.quic_input_data = Tail(s.quic_input_data)
      /\ b.msg = e
      /\ b.transcript = IF e.type = "NEWSESSION_TICKET" \/ e.has = {"hrr"}
                        THEN s.transcript ELSE Append(s.transcript, Entry(e))
  BY <1>1, BodyFields
<1> HIDE DEF b, e
<1>6. /\ b.msg.has = HasOf(c, n)
      /\ b.transcript = After(c, n) /\ b.transcript = Append(After(c, m), KindOf(c, n))
  BY <1>1, <1>2, <1>3, <1>4, <1>5
<1> QED  BY <1>5, <1>6 DEF b

\* A server reads a ClientHello or the client's certificate.
LEMMA ServerHearsHello ==
    ASSUME NEW s, NEW c, NEW n \in {1, 3, 10, 11}, NEW m, ServerListens(s, c, n, m)
    PROVE  ServerHears(s, Received(s, ServerReadsAt(n)), c, n)
<1> DEFINE b == Body(s, ServerReadsAt(n))
           e == s.quic_input_data[1].msg
           u == ProcessMessage(b, e)
<1>1. /\ Off(b, s, {"quic_input_data", "msg", "transcript", "hand_state"})
      /\ b.hand_state = ServerReadsAt(n) /\ b.quic_input_data = Tail(s.quic_input_data)
      /\ b.transcript = After(c, n) /\ b.msg.has = HasOf(c, n)
  BY ServerBody
<1>2. /\ n \in {1, 3} => ServerReadsAt(n) = "SR_CLNT_HELLO"
      /\ n = 10 => ServerReadsAt(n) = "SR_CERT"
      /\ n = 11 => ServerReadsAt(n) = "SR_CERT_VRFY"
  BY DEF ServerReadsAt
<1>3. e.has = HasOf(c, n)
  BY MessageFacts DEF ServerListens
<1> HIDE DEF b, e
<1>5. DOMAIN b = Fields /\ b.state = "READING"
      /\ b.hand_state \in {"SR_CLNT_HELLO", "SR_CERT", "SR_CERT_VRFY"}
  BY <1>1, <1>2 DEF Off, Fields, ServerListens
<1>6. /\ Off(u, b, {"clienthello", "read_state"})
      /\ b.hand_state = "SR_CLNT_HELLO" =>
            u.clienthello = e.has /\ u.read_state = "POST_PROCESS"
      /\ b.hand_state # "SR_CLNT_HELLO" => u.read_state = "HEADER"
  BY <1>5, ServerMessageFields
<1> HIDE DEF u
<1>7. Off(u, s, Reads)
  BY <1>1, <1>6 DEF Off, Fields, Reads
<1>8. /\ u.hand_state = ServerReadsAt(n) /\ u.quic_input_data = Tail(s.quic_input_data)
      /\ u.transcript = After(c, n) /\ u.msg.has = HasOf(c, n) /\ u.secrets = s.secrets
      /\ u.quic_read_level = s.quic_read_level /\ u.state = "READING"
  BY <1>1, <1>5, <1>6 DEF Off, Fields
<1>9. /\ n \in {1, 3} => u.read_state = "POST_PROCESS" /\ u.clienthello = HasOf(c, n)
      /\ n \in {10, 11} => u.read_state = "HEADER"
  BY <1>1, <1>2, <1>3, <1>6
<1>10. Received(s, ServerReadsAt(n)) = u
  BY <1>8 DEF Received, u, b, e
<1>11. ServerHears(s, u, c, n)
  BY <1>7, <1>8, <1>9 DEF ServerHears
<1> QED  BY <1>10, <1>11

\* A server reads the client's Finished.
LEMMA ServerHearsFinished ==
    ASSUME NEW s, NEW c, NEW m, ServerListens(s, c, 12, m)
    PROVE  ServerHears(s, Received(s, ServerReadsAt(12)), c, 12)
<1> DEFINE b == Body(s, ServerReadsAt(12))
           e == s.quic_input_data[1].msg
           u == ProcessMessage(b, e)
<1>1. /\ Off(b, s, {"quic_input_data", "msg", "transcript", "hand_state"})
      /\ b.hand_state = ServerReadsAt(12) /\ b.quic_input_data = Tail(s.quic_input_data)
      /\ b.transcript = After(c, 12) /\ b.transcript = Append(After(c, m), KindOf(c, 12))
      /\ b.msg.has = HasOf(c, 12)
  BY ServerBody
<1>2. ServerReadsAt(12) = "SR_FINISHED"
  BY DEF ServerReadsAt
<1>3. e.mac = After(c, m)
  <2>1. m \in 0 .. 12 /\ m \in Numbers(c) \union {0} /\ Follows(c, 12, m) /\ e = MessageOf(c, 12)
    BY DEF ServerListens
  <2>2. MacOf(c, 12) = After(c, m)
    BY <2>1, MacNext
  <2> QED  BY <2>1, <2>2, MessageFacts
<1>4. SubSeq(b.transcript, 1, Len(b.transcript) - 1) = After(c, m)
  <2>1. m \in 0 .. 12
    BY DEF ServerListens
  <2>2. After(c, m) \in Seq(Kinds) /\ KindOf(c, 12) \in Kinds
    BY <2>1, PureAfter, KindFacts DEF Pure
  <2> HIDE DEF b
  <2> QED  BY <1>1, <2>2, AllButLast
<1> HIDE DEF b, e
<1>5. DOMAIN b = Fields /\ b.server = TRUE /\ b.hand_state = "SR_FINISHED"
      /\ b.secrets = s.secrets
  BY <1>1, <1>2 DEF Off, Fields, ServerListens
<1>6. /\ Off(u, b, {"cleanuphand", "secrets", "quic_read_level", "read_state",
                    "state", "write_state"})
      /\ u.secrets = b.secrets
      /\ u.quic_read_level = ssl_encryption_application
      /\ u.state = "WRITING" /\ u.write_state = "TRANSITION" /\ u.read_state = "HEADER"
  <2>1. b.server \in BOOLEAN /\ e.mac = SubSeq(b.transcript, 1, Len(b.transcript) - 1)
    BY <1>3, <1>4, <1>5
  <2> QED  BY <1>5, <2>1, FinishedProcessed
<1> HIDE DEF u
<1>7. Off(u, s, Reads)
  BY <1>1, <1>6 DEF Off, Fields, Reads
<1>8. /\ u.hand_state = ServerReadsAt(12) /\ u.quic_input_data = Tail(s.quic_input_data)
      /\ u.transcript = After(c, 12) /\ u.msg.has = HasOf(c, 12) /\ u.secrets = s.secrets
  BY <1>1, <1>5, <1>6 DEF Off, Fields
<1>10. Received(s, ServerReadsAt(12)) = u
  BY <1>6 DEF Received, u, b, e
<1>11. ServerHears(s, u, c, 12)
  BY <1>6, <1>7, <1>8 DEF ServerHears
<1> QED  BY <1>10, <1>11

\* A server that has read message n is at number n.
LEMMA ServerHeard ==
    ASSUME NEW s, NEW c, NEW n, NEW m, ServerListens(s, c, n, m), ServerAt(s, c, m),
           NEW t, ServerHears(s, t, c, n)
    PROVE  ServerSide(t, c) /\ ServerPos(t, c) = n /\ ~Astray(t.transcript)
<1>1. /\ m \in {0, 2, 9, 10, 11} /\ n \in {1, 3, 10, 11, 12} /\ Follows(c, n, m)
      /\ m \in Numbers(c) \union {0} /\ n \in Numbers(c) /\ s.read_state = "HEADER"
  BY DEF ServerListens, Follows
<1>2. \/ m = 0 /\ n = 1 /\ c.hrr
      \/ n = 3 /\ m = IF c.hrr THEN 2 ELSE 0
      \/ m = 9 /\ n = 10 /\ Asks(c)
      \/ m = 10 /\ n = 11 /\ Asks(c)
      \/ n = 12 /\ m >= 9
  <2>1. m \in 0 .. 12
    BY <1>1
  <2> QED  BY <1>1, <2>1, FollowsCases
<1>3. /\ t.hand_state = ServerReadsAt(n) /\ t.transcript = After(c, n)
      /\ t.hello_retry_request = s.hello_retry_request /\ t.hit = s.hit
      /\ t.early_data = s.early_data /\ t.early_data_state = s.early_data_state
      /\ t.cert_req = s.cert_req /\ t.secrets = s.secrets /\ t.msg.has = HasOf(c, n)
  BY DEF ServerHears, Off, Fields, Reads
<1>4. /\ n \in {1, 3} => t.hand_state = "SR_CLNT_HELLO"
      /\ n = 10 => t.hand_state = "SR_CERT"
      /\ n = 11 => t.hand_state = "SR_CERT_VRFY"
      /\ n = 12 => t.hand_state = "SR_FINISHED"
  BY <1>3 DEF ServerReadsAt
<1>5. /\ n \in {1, 3} => t.read_state = "POST_PROCESS" /\ t.clienthello = HasOf(c, n)
                         /\ t.state = "READING"
  BY DEF ServerHears
<1>6. ~Weighing(s) /\ (Weighing(t) <=> n \in {1, 3})
  BY <1>1, <1>4, <1>5 DEF Weighing
<1>7. s.hello_retry_request =
         IF ~c.hrr THEN "NONE"
         ELSE IF m >= 3 THEN "COMPLETE" ELSE IF m = 0 THEN "NONE" ELSE "PENDING"
  BY <1>1, <1>6 DEF ServerAt, ServerChoices, Judged
<1>8. ServerPos(t, c) = n
  <2>1. CASE n \in {1, 3}
    <3>1. ServerPos(t, c) = IF c.hrr /\ t.hello_retry_request = "NONE" THEN 1 ELSE 3
      BY <1>4, <1>6, <2>1, ServerPosValues
    <3> QED  BY <1>2, <1>3, <1>7, <2>1, <3>1
  <2>2. CASE n \in {10, 11, 12}
    BY <1>4, <2>2, ServerPosValues
  <2> QED  BY <1>1, <2>1, <2>2
<1>9. Judged(t, n) <=> Judged(s, m)
  BY <1>1, <1>2, <1>6 DEF Judged
<1>10. ServerLines(t, c, n)
  <2>1. t.hand_state \in {"SR_CLNT_HELLO", "SR_CERT", "SR_CERT_VRFY", "SR_FINISHED"}
    BY <1>1, <1>4
  <2>2. t.hand_state \notin ServerSpeakers
        /\ t.hand_state \notin {"SW_SRVR_HELLO", "SW_CERT_REQ", "SW_CERT", "SW_CERT_VRFY",
                                "SW_SESSION_TICKET"}
    BY <2>1 DEF ServerSpeakers, ServerFlight
  <2>3. t.hand_state = "SR_CERT" => n = 10
    BY <1>1, <1>4
  <2>4. Weighing(t) => t.clienthello = HasOf(c, n) /\ t.state # "WRITING"
    BY <1>5, <1>6
  <2> QED  BY <1>1, <1>3, <2>2, <2>3, <2>4 DEF ServerLines
<1>11. ServerChoices(t, c, n)
  <2>1. t.hello_retry_request =
          IF ~c.hrr THEN "NONE"
          ELSE IF Judged(t, n) THEN "COMPLETE"
          ELSE IF n = 0 \/ (n = 1 /\ Weighing(t)) THEN "NONE" ELSE "PENDING"
    BY <1>1, <1>2, <1>3, <1>6, <1>7 DEF Judged
  <2>2. ~c.hrr /\ ~Judged(t, n) => t.early_data_state = EarlyDataState(TRUE, c)
    BY <1>3, <1>9 DEF ServerAt, ServerChoices, EarlyDataState
  <2>3. /\ Judged(t, n) => t.hit = Resumes(c)
        /\ t.early_data = "ACCEPTED" <=> Judged(t, n) /\ Admits(c)
    BY <1>3, <1>9 DEF ServerAt, ServerChoices
  <2>4. s.cert_req = IF Asks(c) /\ m >= 6 THEN 1 ELSE 0
    <3>1. s.hand_state # "SW_CERT_REQ"
      BY DEF ServerListens
    <3> QED  BY <1>1, <3>1 DEF ServerAt, ServerChoices
  <2>5. t.cert_req = IF Asks(c) /\ (n >= 6 \/ (t.hand_state = "SW_CERT_REQ"
                                              /\ t.write_state = "SEND"))
                     THEN 1 ELSE 0
    <3>1. t.hand_state # "SW_CERT_REQ" /\ (n >= 6 <=> m >= 6)
      BY <1>1, <1>2, <1>4
    <3> QED  BY <1>3, <2>4, <3>1
  <2> QED  BY <2>1, <2>2, <2>3, <2>5 DEF ServerChoices
<1>12. ServerLevels(t, n)
  <2>1. /\ ssl_encryption_handshake \in s.secrets => m >= 4
        /\ s.quic_read_level \in {ssl_encryption_initial} \union Protected
        /\ s.quic_read_level = ssl_encryption_application => m = 12
    BY DEF ServerAt, ServerLevels
  <2>2. ssl_encryption_handshake \in t.secrets => n >= 4
    BY <1>1, <1>2, <1>3, <2>1
  <2>3. t.quic_read_level = IF n = 12 THEN ssl_encryption_application ELSE s.quic_read_level
    BY DEF ServerHears
  <2>4. ssl_encryption_application \in Protected
    BY DEF Protected
  <2> QED  BY <1>1, <2>1, <2>2, <2>3, <2>4 DEF ServerLevels
<1>13. ~Astray(t.transcript)
  <2>1. n \in 0 .. 12
    BY <1>1
  <2> QED  BY <1>3, <2>1, PureAfter DEF Pure
<1> QED  BY <1>8, <1>10, <1>11, <1>12, <1>13 DEF ServerSide, ServerKept, ServerAt

\* A server reads a message too many, or has before.
LEMMA ServerLoses ==
    ASSUME NEW s, NEW c, Server(s, c), ServerSide(s, c), At(s, "READING", "HEADER"),
           s.quic_input_data # <<>>, NEW e, e = s.quic_input_data[1],
           e.level = s.quic_read_level, e.msg.type # "NEWSESSION_TICKET",
           NEW next, next = ServerReadTransition(s, e.msg.type), next # "BAD",
           NEW h, NEW a, Genuine("client", c, h, a, e),
           Astray(s.transcript) \/ e.msg.has = {"stray"},
           NEW t, t = Received(s, next)
    PROVE  /\ ServerSide(t, c) /\ Astray(t.transcript)
           /\ ServerPos(s, c) \in 9 .. 11 /\ ServerPos(t, c) \in ServerPos(s, c) .. 12
           /\ t.quic_input_data = Tail(s.quic_input_data)
           /\ t.quic_latest_level_received = s.quic_latest_level_received
           /\ t.flight = s.flight /\ t.done = s.done /\ ~s.done
<1>1. /\ s.state = "READING" /\ s.read_state = "HEADER" /\ ServerPlace(s, c) /\ DOMAIN s = Fields
      /\ s.transcript \in Seq(Kinds) /\ Data(s, c) /\ s.state # "ERROR" /\ e.msg.has # {"hrr"}
  <2>1. s.state = "READING" /\ s.read_state = "HEADER"
    BY DEF At
  <2>2. Data(s, c) /\ 1 \in 1 .. Len(s.quic_input_data)
    BY TailOf DEF Server, Endpoint, Data
  <2> QED  BY <2>1, <2>2 DEF Server, Endpoint, Shape, Data
<1>2. s.hand_state \in {"BEFORE", "EARLY_DATA", "SR_CERT", "SR_CERT_VRFY", "OK"}
  BY ServerAwaits
<1>3. ssl_encryption_handshake # ssl_encryption_initial
      /\ ssl_encryption_application # ssl_encryption_handshake
  BY DEF ssl_encryption_handshake, ssl_encryption_initial, ssl_encryption_application
<1>4. /\ s.quic_read_level = ssl_encryption_handshake
      /\ Astray(s.transcript) => s.hand_state \in {"SR_CERT", "SR_CERT_VRFY"}
  <2>1. e.msg.has = {"stray"} => e.level = ssl_encryption_handshake
    BY DEF Genuine
  <2>2. CASE Astray(s.transcript)
    BY <1>1, <2>2 DEF ServerSide, ServerLost
  <2>3. CASE ~Astray(s.transcript)
    BY <2>1, <2>3
  <2> QED  BY <2>2, <2>3
<1>5. /\ s.hand_state \in {"EARLY_DATA", "SR_CERT", "SR_CERT_VRFY"}
      /\ s.hand_state = "EARLY_DATA" => s.hello_retry_request # "PENDING"
  <2>1. /\ s.hand_state = "BEFORE" => s.quic_read_level = ssl_encryption_initial
        /\ s.hand_state = "EARLY_DATA" /\ s.hello_retry_request = "PENDING" =>
              s.quic_read_level = ssl_encryption_initial
        /\ s.hand_state = "OK" => s.quic_read_level = ssl_encryption_application
    BY ServerAwaits
  <2> QED  BY <1>2, <1>3, <1>4, <2>1
<1>6. /\ \/ s.hand_state = "EARLY_DATA" /\ next \in {"SR_CERT", "SR_FINISHED"}
         \/ s.hand_state = "SR_CERT" /\ next \in {"SR_CERT_VRFY", "SR_FINISHED"}
         \/ s.hand_state = "SR_CERT_VRFY" /\ next = "SR_FINISHED"
      /\ next = "SR_FINISHED" => e.msg.type = "FINISHED"
  <2>1. CASE s.hand_state = "EARLY_DATA"
    BY <1>5, <2>1 DEF ServerReadTransition
  <2>2. CASE s.hand_state = "SR_CERT"
    BY <2>2 DEF ServerReadTransition
  <2>3. CASE s.hand_state = "SR_CERT_VRFY"
    BY <2>3 DEF ServerReadTransition
  <2> QED  BY <1>5, <2>1, <2>2, <2>3
<1>7. ServerPos(s, c) = IF s.hand_state = "EARLY_DATA" THEN 9
                        ELSE IF s.hand_state = "SR_CERT" THEN 10 ELSE 11
  <2>1. /\ s.hand_state = "EARLY_DATA" =>
              ServerPos(s, c) = IF s.hello_retry_request = "PENDING" THEN 2 ELSE 9
        /\ s.hand_state = "SR_CERT" => ServerPos(s, c) = 10
        /\ s.hand_state = "SR_CERT_VRFY" => ServerPos(s, c) = 11
    BY ServerPosValues
  <2> QED  BY <1>5, <2>1
<1>8. Extends(s.transcript, After(c, 9))
  <2>1. CASE Astray(s.transcript)
    BY <2>1 DEF ServerSide, ServerLost
  <2>2. CASE ~Astray(s.transcript)
    <3> DEFINE m == ServerPos(s, c)
    <3>1. ServerAt(s, c, m) /\ m \in 9 .. 11
      BY <1>1, <1>7, <2>2, ServerKeeps
    <3> HIDE DEF m
    <3>2. m \in Numbers(c) /\ s.transcript = After(c, m)
      BY <3>1 DEF ServerAt, ServerLines
    <3>3. m \in 9 .. 12
      BY <3>1
    <3> QED  BY <3>2, <3>3, AfterServed
  <2> QED  BY <2>1, <2>2
<1> DEFINE b == Body(s, next)
<1>9. /\ Off(b, s, {"quic_input_data", "msg", "transcript", "hand_state"})
      /\ b.hand_state = next /\ b.quic_input_data = Tail(s.quic_input_data)
      /\ b.transcript = Append(s.transcript, Entry(e.msg))
  <2>1. b.transcript = IF e.msg.type = "NEWSESSION_TICKET" \/ e.msg.has = {"hrr"}
                       THEN s.transcript ELSE Append(s.transcript, Entry(e.msg))
    BY <1>1, BodyFields
  <2>2. /\ Off(b, s, {"quic_input_data", "msg", "transcript", "hand_state"})
        /\ b.hand_state = next /\ b.quic_input_data = Tail(s.quic_input_data)
    BY <1>1, BodyFields
  <2> QED  BY <1>1, <2>1, <2>2
<1>10. Entry(e.msg) \in Kinds /\ Entry(e.msg).has = e.msg.has
  <2>1. Entry(e.msg) \in Kinds
    BY <1>1, BodyTypes
  <2> QED  BY <2>1 DEF Entry
<1>11. Astray(b.transcript) /\ Extends(b.transcript, After(c, 9))
  <2>1. After(c, 9) \in Seq(Kinds)
    BY PureAfter DEF Pure
  <2>2. Astray(b.transcript)
    BY <1>1, <1>9, <1>10, AstrayAppend
  <2>3. Extends(b.transcript, After(c, 9))
    BY <1>1, <1>8, <1>9, <1>10, <2>1, ExtendsAppend
  <2> QED  BY <2>2, <2>3
<1> HIDE DEF b
<1>12. /\ DOMAIN b = Fields /\ b.state = "READING" /\ b.quic_read_level = s.quic_read_level
       /\ b.flight = s.flight /\ b.done = s.done
       /\ b.quic_latest_level_received = s.quic_latest_level_received
  BY <1>1, <1>9 DEF Off, Fields
<1>13. /\ t.transcript = b.transcript /\ t.quic_input_data = b.quic_input_data
       /\ t.hand_state = next /\ t.quic_read_level = s.quic_read_level
       /\ next = "SR_FINISHED" => t.state = "ERROR"
       /\ t.flight = s.flight /\ t.done = s.done
       /\ t.quic_latest_level_received = s.quic_latest_level_received
  <2>1. CASE next # "SR_FINISHED"
    <3> DEFINE u == ProcessMessage(b, e.msg)
    <3>1. b.hand_state \in {"SR_CLNT_HELLO", "SR_CERT", "SR_CERT_VRFY"}
      BY <1>6, <1>9, <2>1
    <3>2. Off(u, b, {"clienthello", "read_state"})
      BY <1>12, <3>1, ServerMessageFields
    <3> HIDE DEF u
    <3>3. u.state = "READING"
      BY <1>12, <3>2 DEF Off, Fields
    <3>4. t = u
      BY <3>3 DEF Received, u, b
    <3>5. /\ u.transcript = b.transcript /\ u.quic_input_data = b.quic_input_data
          /\ u.hand_state = next /\ u.quic_read_level = s.quic_read_level
          /\ u.flight = s.flight /\ u.done = s.done
          /\ u.quic_latest_level_received = s.quic_latest_level_received
      BY <1>9, <1>12, <3>2 DEF Off, Fields
    <3> QED  BY <2>1, <3>4, <3>5
  <2>2. CASE next = "SR_FINISHED"
    <3>1. s.transcript # <<>>
      <4>1. s.transcript = <<>> => s.hand_state = "BEFORE"
        BY <1>1 DEF ServerPlace
      <4> QED  BY <1>5, <4>1
    <3>2. e.msg.mac # s.transcript
      <4>1. \/ e.msg.has = {"stray"} /\ s.transcript # <<>>
            \/ e.msg.has # {"stray"} /\ Astray(s.transcript)
        BY <3>1
      <4>2. e.msg.type = "FINISHED" /\ "client" \in Peer
        BY <1>6, <2>2 DEF Peer
      <4> QED  BY <4>1, <4>2, MacAstray
    <3>3. SubSeq(b.transcript, 1, Len(b.transcript) - 1) = s.transcript
      BY <1>1, <1>9, <1>10, AllButLast
    <3>4. ProcessMessage(b, e.msg) = SSLfatal(b)
      <4>1. /\ e.msg.mac # SubSeq(b.transcript, 1, Len(b.transcript) - 1)
            /\ b.hand_state \in {"CR_FINISHED", "SR_FINISHED"}
        BY <1>9, <2>2, <3>2, <3>3
      <4> QED  BY <4>1, FinishedRefused
    <3>5. SSLfatal(b).state = "ERROR"
      BY <1>12 DEF SSLfatal, Fields
    <3>6. t = Return(SSLfatal(b), "NOTHING")
      BY <3>4, <3>5 DEF Received, b
    <3>7. Off(t, b, {"state", "in_init", "call", "rwstate"}) /\ t.state = "ERROR"
      BY <1>12, <3>6, FatalFields
    <3>8. /\ t.transcript = b.transcript /\ t.quic_input_data = b.quic_input_data
          /\ t.hand_state = b.hand_state /\ t.quic_read_level = b.quic_read_level
          /\ t.flight = b.flight /\ t.done = b.done
          /\ t.quic_latest_level_received = b.quic_latest_level_received
      BY <3>7 DEF Off, Fields
    <3> QED  BY <1>9, <1>12, <3>7, <3>8
  <2> QED  BY <2>1, <2>2
<1>14. ServerSide(t, c) /\ Astray(t.transcript)
  <2>1. Astray(t.transcript) /\ Extends(t.transcript, After(c, 9))
    BY <1>11, <1>13
  <2>2. ServerLost(t, c)
    BY <1>4, <1>6, <1>13, <2>1 DEF ServerLost
  <2> QED  BY <2>1, <2>2 DEF ServerSide
<1>15. ServerPos(s, c) \in 9 .. 11 /\ ServerPos(t, c) \in ServerPos(s, c) .. 12
  <2>1. /\ next = "SR_CERT" => ServerPos(t, c) = 10
        /\ next = "SR_CERT_VRFY" => ServerPos(t, c) = 11
        /\ next = "SR_FINISHED" => ServerPos(t, c) = 12
    BY <1>13, ServerPosValues
  <2> QED  BY <1>6, <1>7, <2>1
<1>16. ~s.done
  BY <1>1, <1>5 DEF ServerPlace
<1> QED  BY <1>9, <1>13, <1>14, <1>15, <1>16

\* A server that keeps to the script finds the message that comes next.
LEMMA ServerFinds ==
    ASSUME IInv, SInv, At(ssl["server"], "READING", "HEADER"),
           ~Astray(ssl["server"].transcript), ssl["server"].quic_input_data # <<>>,
           Scripted(ssl["server"].quic_input_data[1]), NEW n,
           n = Number("client", Hello("client", ssl["client"], config),
                      ssl["server"].quic_input_data[1])
    PROVE  LET s == ssl["server"]
               e == s.quic_input_data[1]
               m == ServerPos(s, config)
           IN  /\ ServerListens(s, config, n, m) /\ ServerAt(s, config, m)
               /\ e.level = s.quic_read_level
               /\ ServerReadTransition(s, e.msg.type) = ServerReadsAt(n)
<1> DEFINE s == ssl["server"]
           e == s.quic_input_data[1]
           c == config
           m == ServerPos(s, c)
<1>1. "server" \in Peer /\ Other("server") = "client"
  BY DEF Peer, Other
<1>2. /\ n \in Numbers(c) \intersect Lines("client") /\ m < n
      /\ e.msg = MessageOf(c, n) /\ e.level = LevelOf(n)
      /\ \A k \in Numbers(c) \intersect Lines("client") : k < n => k <= m
  BY <1>1, HeadFacts DEF Pos
<1>3. Server(s, c) /\ ServerSide(s, c) /\ DOMAIN s = Fields /\ s.server = TRUE
  BY <1>1, TurnFacts DEF IInv, Server, Endpoint, Shape, Side
<1>4. s.state = "READING" /\ s.read_state = "HEADER"
  BY DEF At
<1>5. At(s, "READING", "HEADER") /\ ~Astray(s.transcript)
  OBVIOUS
<1> HIDE DEF s, e, m, c
<1>6. /\ Follows(c, n, m) /\ n \in {1, 3, 10, 11, 12} /\ m \in {0, 2, 9, 10, 11}
      /\ ServerAt(s, c, m) /\ m \in Numbers(c) \union {0}
      /\ LevelOf(n) = s.quic_read_level
      /\ ServerReadTransition(s, TypeOf(n)) = ServerReadsAt(n)
  BY <1>2, <1>3, <1>5, ServerExpects DEF m
<1>7. e.msg.type = TypeOf(n)
  BY <1>2, MessageFacts
<1>8. s.transcript = After(c, m)
  BY <1>6 DEF ServerAt, ServerLines
<1>9. s.hand_state # "SW_CERT_REQ"
  BY <1>3, <1>5, ServerAwaits
<1>10. ServerListens(s, c, n, m)
  BY <1>2, <1>3, <1>4, <1>6, <1>8, <1>9 DEF ServerListens, e
<1> QED  BY <1>2, <1>6, <1>7, <1>10 DEF s, e, m, c

\* A server reads a message.
LEMMA ServerTakes ==
    ASSUME IInv, SInv, ReadMessage("server")
    PROVE  SInv' /\ Excused("server")
<1> DEFINE s == ssl["server"]
           e == s.quic_input_data[1]
           c == config
           m == ServerPos(s, c)
           next == ServerReadTransition(s, e.msg.type)
           t == Received(s, next)
<1>1. "server" \in Peer /\ Other("server") = "client"
  BY DEF Peer, Other
<1>2. Server(s, c) /\ ServerSide(s, c) /\ DOMAIN s = Fields /\ s.server = TRUE
  BY <1>1, TurnFacts DEF IInv, Server, Endpoint, Shape, Side
<1>3. ReadTransition(s, e.msg.type) = next
  BY <1>2 DEF ReadTransition
<1>4. /\ s.call # "none" /\ At(s, "READING", "HEADER") /\ s.quic_input_data # <<>>
      /\ next # "BAD" /\ Becomes("server", t) /\ e.level = s.quic_read_level
  BY <1>3 DEF ReadMessage, Reading, At, Received, Body
<1>5. ServerStep(s, t, c)
  <2>1. next = ServerReadTransition(s, s.quic_input_data[1].msg.type) /\ t = Received(s, next)
    OBVIOUS
  <2> HIDE DEF s, c, next, t
  <2> QED  BY <1>2, <1>4, <2>1, ServerReceive
<1>6. Server(t, c) /\ s.secrets \subseteq t.secrets /\ t.server = s.server
  <2> HIDE DEF s, c, next, t
  <2> QED  BY <1>2, <1>5 DEF ServerStep, Forward, Server
<1>7. /\ Genuine("client", c, Hello("client", ssl["client"], c), Pos("client", ssl["client"], c), e)
      /\ faults = MaxFaults => e.msg.has # {"stray"} /\ ~Astray(s.transcript)
  BY <1>1, <1>4, HeadKnown
<1>8. e.msg.type # "NEWSESSION_TICKET"
  BY <1>7 DEF Genuine
<1>0. /\ t.state # "ERROR" => Excused("server")
      /\ Astray(s.transcript) \/ e.msg.has = {"stray"} => Excused("server")
  <2>1. DOMAIN ssl = Peer
    BY DEF IInv
  <2> HIDE DEF t
  <2>2. ssl'["server"] = t
    BY <1>1, <1>4, <2>1 DEF Becomes
  <2>3. t.state # "ERROR" => Excused("server")
    BY <2>2 DEF Excused
  <2>4. Astray(s.transcript) \/ e.msg.has = {"stray"} => Excused("server")
    BY <1>4 DEF Excused, MetStray, Astray
  <2> QED  BY <2>3, <2>4
<1>9. CASE ~Astray(s.transcript) /\ Scripted(e)
  <2> DEFINE n == Number("client", Hello("client", ssl["client"], c), e)
  <2>1. ServerListens(s, c, n, m) /\ ServerAt(s, c, m) /\ next = ServerReadsAt(n)
    BY <1>4, <1>9, ServerFinds
  <2>2. n \in {1, 3, 10, 11, 12} /\ Follows(c, n, m)
    BY <2>1 DEF ServerListens
  <2> HIDE DEF n, m, s, c, e, t, next
  <2>3. ServerHears(s, t, c, n)
    <3>1. t = Received(s, ServerReadsAt(n))
      BY <2>1 DEF t
    <3>2. CASE n \in {1, 3, 10, 11}
      BY <2>1, <3>1, <3>2, ServerHearsHello
    <3>3. CASE n = 12
      BY <2>1, <3>1, <3>3, ServerHearsFinished
    <3> QED  BY <2>2, <3>2, <3>3
  <2>4. ServerSide(t, c) /\ ServerPos(t, c) = n /\ ~Astray(t.transcript)
    BY <2>1, <2>3, ServerHeard
  <2>5. /\ t.quic_input_data = Tail(s.quic_input_data) /\ t.state # "ERROR"
        /\ t.quic_latest_level_received = s.quic_latest_level_received /\ t.flight = s.flight
    BY <2>3 DEF ServerHears, Off, Fields, Reads
  <2>6. Reported(t)
    BY <1>1, <1>6, <2>5, OwnedReported DEF Owned
  <2>7. Onward(s, t)
    BY <1>6, <2>5, <2>6 DEF Onward
  <2>8. Turns("server", t) /\ wire'["server"] \o t.flight = Way("server")
    BY <1>1, <1>4, <2>5, Quietly DEF s
  <2>9. /\ Side("server", t, c) /\ Pos("server", t, c) = n /\ Pos("server", s, c) = m
        /\ Hello("server", t, c) = Hello("server", s, c)
    BY <2>4 DEF Side, Pos, Hello, m
  <2>10. Follows(config, n, Pos("server", ssl["server"], config))
    BY <2>2, <2>9 DEF s, c
  <2>11. /\ ~Astray(ssl["server"].transcript) /\ ssl["server"].quic_input_data # <<>>
         /\ Scripted(ssl["server"].quic_input_data[1])
         /\ n = Number(Other("server"), Hello(Other("server"), ssl[Other("server")], config),
                       ssl["server"].quic_input_data[1])
         /\ t.quic_input_data = Tail(ssl["server"].quic_input_data)
         /\ Onward(ssl["server"], t) /\ Side("server", t, config) /\ Pos("server", t, config) = n
         /\ Hello("server", t, config) = Hello("server", ssl["server"], config)
    BY <1>1, <1>4, <1>9, <2>5, <2>7, <2>9 DEF s, c, e, n
  <2> QED  BY <1>0, <1>1, <2>4, <2>5, <2>8, <2>10, <2>11, TurnHears
<1>10. CASE Astray(s.transcript) \/ e.msg.has = {"stray"}
  <2> HIDE DEF m, s, c, e, t, next
  <2>1. /\ ServerSide(t, c) /\ Astray(t.transcript)
        /\ ServerPos(s, c) \in 9 .. 11 /\ ServerPos(t, c) \in ServerPos(s, c) .. 12
        /\ t.quic_input_data = Tail(s.quic_input_data)
        /\ t.quic_latest_level_received = s.quic_latest_level_received
        /\ t.flight = s.flight /\ t.done = s.done /\ ~s.done
    BY <1>2, <1>4, <1>7, <1>8, <1>10, ServerLoses DEF e, next, t
  <2>2. Onward(s, t)
    BY <1>6, <2>1 DEF Onward, Reported
  <2>3. Turns("server", t) /\ wire'["server"] \o t.flight = Way("server")
    BY <1>1, <1>4, <2>1, Quietly DEF s
  <2>4. faults # MaxFaults
    BY <1>7, <1>10
  <2>5. \A k \in Numbers(c) \intersect Lines("server") :
           k <= ServerPos(t, c) => k <= ServerPos(s, c)
    BY <2>1 DEF Lines
  <2>6. ServerPos(s, c) >= 4 /\ ServerPos(s, c) <= ServerPos(t, c)
    BY <2>1
  <2> QED  BY <1>0, <1>1, <1>4, <1>10, <2>1, <2>2, <2>3, <2>4, <2>5, <2>6, TurnLoses
              DEF Side, Pos, Hello, s, c
<1> QED  BY <1>8, <1>9, <1>10 DEF Scripted

\* A server refuses a message only over one too many.
LEMMA ServerAccepts ==
    ASSUME IInv, SInv, ReadRefused("server")
    PROVE  MetStray("server")
<1> SUFFICES ASSUME ~MetStray("server") PROVE FALSE
  OBVIOUS
<1> DEFINE s == ssl["server"]
           e == s.quic_input_data[1]
           c == config
           n == Number("client", Hello("client", ssl["client"], c), e)
<1>1. "server" \in Peer /\ Other("server") = "client"
  BY DEF Peer, Other
<1>2. s.server = TRUE
  BY DEF IInv, Server
<1>3. ReadTransition(s, e.msg.type) = ServerReadTransition(s, e.msg.type)
  BY <1>2 DEF ReadTransition
<1>4. /\ At(s, "READING", "HEADER") /\ s.quic_input_data # <<>>
      /\ e.level # s.quic_read_level \/ ServerReadTransition(s, e.msg.type) = "BAD"
  BY <1>3 DEF ReadRefused, Reading, At
<1>5. /\ Genuine("client", c, Hello("client", ssl["client"], c), Pos("client", ssl["client"], c), e)
      /\ e.msg.has # {"stray"} /\ ~Astray(s.transcript)
  <2>1. e.msg.has # {"stray"} /\ ~Astray(s.transcript)
    BY <1>4 DEF MetStray, Astray
  <2> QED  BY <1>1, <1>4, <2>1, HeadKnown
<1>6. Scripted(e)
  BY <1>5 DEF Genuine, Scripted
<1>7. e.level = s.quic_read_level /\ ServerReadTransition(s, e.msg.type) = ServerReadsAt(n)
  BY <1>4, <1>5, <1>6, ServerFinds
<1>8. ServerReadsAt(n) # "BAD"
  BY DEF ServerReadsAt
<1> QED  BY <1>4, <1>7, <1>8

\* Every action of the server keeps the script, and none leads to an error unexcused.
LEMMA ServerTurns ==
    ASSUME IInv, SInv, Step("server") \/ Fault("server")
    PROVE  SInv' /\ Excused("server")
<1> DEFINE k == ssl["server"]
<1>1. /\ Server(k, config) /\ k.server = TRUE /\ DOMAIN k = Fields /\ Shape(k)
      /\ Data(k, config) /\ DOMAIN ssl = Peer /\ "server" \in Peer
      /\ ServerSide(k, config) /\ Side("server", k, config)
  <2>1. "server" \in Peer
    BY DEF Peer
  <2> QED  BY <2>1, TurnFacts DEF IInv, Server, Endpoint, Shape, Side
<1>2. ASSUME NEW t, ServerStep(k, t, config), Becomes("server", t) \/ FailsTo("server", t),
             Calm("server", k, t, config), t.flight = k.flight, t.state # "ERROR"
      PROVE  SInv' /\ Excused("server")
  <2>1. SInv'
    BY <1>1, <1>2, TurnQuiet DEF ServerStep, Owned
  <2>2. ssl'["server"] = t
    BY <1>1, <1>2 DEF Becomes, FailsTo
  <2> QED  BY <1>2, <2>1, <2>2 DEF Excused
<1>3. ASSUME NEW t, t = Return(SSLfatal(k), "NOTHING"),
             FailsTo("server", t) \/ (Becomes("server", t) /\ faults # MaxFaults)
      PROVE  SInv'
  BY <1>1, <1>3, TurnFatal
<1> HIDE DEF k
<1>0. ASSUME NEW why, k.state # "ERROR"
      PROVE  /\ Return(k, why).flight = k.flight /\ Return(k, why).state # "ERROR"
             /\ Calm("server", k, Return(k, why), config)
  <2>1. Off(Return(k, why), k, {"in_init", "call", "rwstate"})
    BY <1>1, ReturnFields DEF Shape, Flags
  <2>2. Return(k, why).flight = k.flight /\ Return(k, why).state = k.state
    BY <2>1 DEF Off, Fields
  <2> QED  BY <1>0, <1>1, <2>2, Returns
<1>4. CASE SSL_do_handshake("server")
  <2> DEFINE t == Handshaking(k)
  <2>1. k.call = "none" /\ k.state # "ERROR" /\ Becomes("server", t)
    BY <1>4 DEF SSL_do_handshake, Handshaking, k
  <2>2. ServerStep(k, t, config)
    BY <1>1, <2>1, ServerDoHandshake
  <2>3. Calm("server", k, t, config)
    BY <1>1, <2>1, ServerHandshakes
  <2>4. t.flight = k.flight /\ t.state \in {k.state, "WRITING"}
    <3>1. /\ Off(t, k, {"in_init", "early_data_state", "state", "write_state", "call",
                        "fresh", "rwstate", "done"})
          /\ t.state \in {k.state, "WRITING"}
      BY <1>1, DoHandshakeFields DEF Handshaking
    <3> QED  BY <3>1 DEF Off, Fields
  <2> QED  BY <1>2, <2>1, <2>2, <2>3, <2>4
<1>5. CASE SSL_process_quic_post_handshake("server")
  <2> DEFINE t == Processing(k)
  <2>1. /\ k.call = "none" /\ k.state # "ERROR" /\ k.done /\ ~k.in_init
        /\ Becomes("server", t)
    BY <1>5 DEF SSL_process_quic_post_handshake, Processing, k
  <2>2. ServerStep(k, t, config)
    BY <1>1, <2>1, ServerProcess
  <2>3. Calm("server", k, t, config)
    BY <1>1, <2>1, ServerProcesses
  <2>4. t.flight = k.flight /\ t.state \in {k.state, "WRITING"}
    <3>1. /\ Off(t, k, {"state", "write_state", "in_init", "call", "fresh"})
          /\ t.state \in {k.state, "WRITING"}
      BY <1>1, ProcessingFields
    <3> QED  BY <3>1 DEF Off, Fields
  <2> QED  BY <1>2, <2>1, <2>2, <2>3, <2>4
<1>6. CASE ReturnDone("server")
  <2> DEFINE t == Resting(k)
  <2>1. k.call # "none" /\ k.state = "FINISHED" /\ Becomes("server", t)
    BY <1>6 DEF ReturnDone, Resting, k
  <2>2. ServerStep(k, t, config)
    BY <1>1, <2>1, ServerRest
  <2>3. Calm("server", k, t, config)
    BY <1>1, <2>1, ServerRests
  <2>4. t.flight = k.flight /\ t.state \in {"FINISHED", "WRITING"}
    <3>1. /\ Off(t, k, {"state", "write_state", "in_init", "call", "rwstate", "fresh",
                        "early_data_state", "done"})
          /\ t.state \in {"FINISHED", "WRITING"}
      BY <1>1, <2>1, RestingFields
    <3> QED  BY <3>1 DEF Off, Fields
  <2> QED  BY <1>2, <2>1, <2>2, <2>3, <2>4
<1>7. CASE ReadNothing("server")
  <2>1. k.call # "none" /\ k.state = "READING" /\ Becomes("server", Return(k, "READING"))
    BY <1>7 DEF ReadNothing, Reading, k
  <2>2. ServerStep(k, Return(k, "READING"), config)
    BY <1>1, <2>1, ServerReturn
  <2> QED  BY <1>0, <1>2, <2>1, <2>2
<1>8. CASE ReadMessage("server")
  BY <1>8, ServerTakes
<1>9. CASE ReadRefused("server")
  <2>1. Becomes("server", Return(SSLfatal(k), "NOTHING"))
    BY <1>9 DEF ReadRefused, k
  <2>2. MetStray("server")
    BY <1>9, ServerAccepts
  <2>3. faults # MaxFaults
    BY <1>1, <2>2, StrayIsFault
  <2> QED  BY <1>3, <2>1, <2>2, <2>3 DEF Excused
<1>10. CASE PostProcess("server")
  <2> DEFINE t == PostProcessMessage(k, config)
  <2>1. /\ k.call # "none" /\ At(k, "READING", "POST_PROCESS") /\ Becomes("server", t)
    BY <1>10 DEF PostProcess, Reading, At, k
  <2>2. ServerStep(k, t, config)
    BY <1>1, <2>1, ServerPostProcess
  <2>3. Calm("server", k, t, config) /\ t.state = "WRITING" /\ t.flight = k.flight
    <3>1. config \in Config
      BY DEF IInv
    <3> QED  BY <1>1, <2>1, <3>1, ServerJudges
  <2> HIDE DEF t
  <2> QED  BY <1>2, <2>1, <2>2, <2>3
<1>11. CASE WriteNext("server")
  <2> DEFINE next == ServerWriteTransition(k, config)
             t == WritingOn(k, next)
  <2>1. WriteTransition(k, config) = next
    BY <1>1 DEF WriteTransition
  <2>2. k.call # "none" /\ At(k, "WRITING", "TRANSITION") /\ k.state = "WRITING"
    BY <1>11 DEF WriteNext, Writing, At, k
  <2>3. next # "ERROR" /\ Calm("server", k, t, config)
    BY <1>1, <2>2, ServerWritesOn
  <2>4. Becomes("server", t)
    BY <1>11, <2>1, <2>3 DEF WriteNext, WritingOn, k
  <2>5. ServerStep(k, t, config)
    BY <1>1, <2>2, <2>3, ServerWriteOn
  <2>6. t.flight = k.flight /\ t.state # "ERROR"
    <3> HIDE DEF next
    <3>1. /\ Off(t, k, {"state", "read_state", "hand_state", "write_state"})
          /\ t.state = "READING" \/ t.state = k.state
      BY <1>1, WritingOnFields
    <3> QED  BY <2>2, <3>1 DEF Off, Fields
  <2> QED  BY <1>2, <2>3, <2>4, <2>5, <2>6
<1>12. CASE Construct("server")
  <2>1. k.call # "none" /\ At(k, "WRITING", "PRE_WORK") /\ k.state = "WRITING"
    BY <1>12 DEF Construct, Writing, At, k
  <2>2. CASE PreWorkStops(k)
    <3>1. Becomes("server", Stopping(k))
      BY <1>12, <2>2 DEF Construct, Stopping, k
    <3>2. ServerStep(k, Stopping(k), config)
      BY <1>1, <2>1, <2>2, ServerStops
    <3>3. Stopping(k).flight = k.flight /\ Stopping(k).state # "ERROR"
      <4> DEFINE t == Stopping(k)
      <4>1. DOMAIN k = Fields
        BY <1>1
      <4>2. /\ Off(t, k, {"cleanuphand", "ticket_expected", "in_init", "state"})
            /\ t.state = "FINISHED"
        BY <4>1, StoppingFields
      <4> HIDE DEF t
      <4>3. t.flight = k.flight /\ t.state # "ERROR"
        BY <4>1, <4>2 DEF Off, Fields
      <4> QED  BY <4>3 DEF t
    <3>4. Calm("server", k, Stopping(k), config)
      BY <1>1, <2>1, Returns
    <3> QED  BY <1>2, <3>1, <3>2, <3>3, <3>4
  <2>3. CASE ~PreWorkStops(k) /\ k.hand_state \in NothingToSend
    <3>1. Becomes("server", Silent(k))
      BY <1>12, <2>3 DEF Construct, Silent, k
    <3>2. ServerStep(k, Silent(k), config)
      BY <1>1, <2>1, <2>3, ServerSilent
    <3>3. Silent(k).flight = k.flight /\ Silent(k).state = k.state
      BY <1>1, SilentFields DEF Off, Fields
    <3>4. Calm("server", k, Silent(k), config)
      BY <1>1, <2>1, <2>3, ServerStaysSilent
    <3> QED  BY <1>2, <2>1, <3>1, <3>2, <3>3, <3>4
  <2>4. CASE ~PreWorkStops(k) /\ k.hand_state \notin NothingToSend
    <3> DEFINE t == Building(k, config)
    <3>1. Becomes("server", t)
      BY <1>12, <2>4 DEF Construct, Building, k
    <3>2. ServerStep(k, t, config)
      BY <1>1, <2>1, <2>4, ServerBuilds
    <3>3. Calm("server", k, t, config) /\ t.flight = k.flight /\ t.state = k.state
      BY <1>1, <2>1, <2>4, ServerComposes
    <3> HIDE DEF t
    <3> QED  BY <1>2, <2>1, <3>1, <3>2, <3>3
  <2> QED  BY <2>2, <2>3, <2>4
<1>13. CASE TicketDeclined("server")
  <2> DEFINE t == Declining(k)
  <2>1. /\ k.call # "none" /\ At(k, "WRITING", "PRE_WORK") /\ k.state = "WRITING"
        /\ k.hand_state = "SW_SESSION_TICKET" /\ Becomes("server", t)
    BY <1>13 DEF TicketDeclined, Writing, At, Declining, k
  <2>2. ServerStep(k, t, config)
    BY <1>1, <2>1, ServerDeclines
  <2>3. k.in_init = TRUE
    BY <1>1, <2>1 DEF Server, Endpoint, Told, Shape, Flags
  <2>4. Calm("server", k, t, config) /\ t.flight = k.flight /\ t.state = k.state
    BY <1>1, <2>1, <2>3, ServerSpares
  <2> HIDE DEF t
  <2> QED  BY <1>2, <2>1, <2>2, <2>4
<1>14. CASE Send("server")
  <2> DEFINE x == [level |-> k.quic_write_level, msg |-> k.msg]
             n == ServerSays(k)
  <2>1. PICK t : /\ Sending(k, t, config) /\ ssl' = [ssl EXCEPT !["server"] = t]
                 /\ Turns("server", t) /\ faults' = faults /\ x \in Entries
                 /\ wire'["server"] \o t.flight = Append(Way("server"), x)
                 /\ k.call # "none" /\ At(k, "WRITING", "SEND")
    BY <1>1, <1>14, Sends DEF k
  <2>2. Server(t, config)
    BY <1>1, <2>1, ServerSends DEF ServerStep
  <2>3. t.quic_latest_level_received = k.quic_latest_level_received
    BY <2>1 DEF Sending, Off, Fields
  <2>4. CASE k.hand_state # "SW_SESSION_TICKET"
    <3>1. /\ ~Astray(k.transcript) /\ ~Astray(t.transcript) /\ ServerSide(t, config)
          /\ n \in Lines("server") /\ Follows(config, n, ServerPos(k, config))
          /\ ServerPos(t, config) = n
          /\ k.msg = MessageOf(config, n) /\ k.quic_write_level = LevelOf(n)
          /\ t.quic_input_data = k.quic_input_data /\ t.state # "ERROR"
          /\ t.server = k.server /\ t.secrets = k.secrets
      BY <1>1, <2>1, <2>4, ServerSaid
    <3>2. Reported(t)
      BY <1>1, <2>2, <3>1, OwnedReported DEF Owned
    <3>3. x.msg = MessageOf(config, n) /\ x.level = LevelOf(n)
      BY <3>1
    <3> HIDE DEF x, n
    <3>4. Onward(k, t)
      BY <2>3, <3>1, <3>2 DEF Onward
    <3>5. /\ Side("server", t, config) /\ Pos("server", t, config) = n
          /\ Follows(config, n, Pos("server", k, config))
          /\ Hello("server", t, config) = Hello("server", k, config)
      BY <3>1 DEF Side, Pos, Hello
    <3>6. Excused("server")
      BY <1>1, <2>1, <3>1 DEF Excused
    <3> QED  BY <1>1, <2>1, <3>1, <3>3, <3>4, <3>5, <3>6, TurnSays DEF k
  <2>5. CASE k.hand_state = "SW_SESSION_TICKET"
    <3>1. /\ Calm("server", k, t, config) /\ ServerPos(k, config) = 12 /\ t.state # "ERROR"
          /\ k.msg.type = "NEWSESSION_TICKET" /\ k.msg.has # {"stray"}
          /\ k.quic_write_level = ssl_encryption_application
          /\ t.server = k.server /\ t.secrets = k.secrets
      BY <1>1, <2>1, <2>5, ServerHandsOut
    <3>2. Reported(t)
      BY <1>1, <2>2, <3>1, OwnedReported DEF Owned
    <3>3. /\ x.msg.type = "NEWSESSION_TICKET" /\ x.msg.has # {"stray"}
          /\ x.level = ssl_encryption_application
      BY <3>1
    <3> HIDE DEF x, n
    <3>4. Onward(k, t)
      BY <2>3, <3>1, <3>2 DEF Onward
    <3>5. Pos("server", k, config) = 12
      BY <3>1 DEF Pos
    <3>6. Excused("server")
      BY <1>1, <2>1, <3>1 DEF Excused
    <3> QED  BY <2>1, <3>1, <3>3, <3>4, <3>5, <3>6, TurnTicket DEF k
  <2> QED  BY <2>4, <2>5
<1>15. CASE Finish("server")
  <2>1. Off(PostWork(k), k, Keys)
    <3>1. At(k, "WRITING", "POST_WORK") /\ k.state # "ERROR"
      BY <1>15 DEF Finish, Writing, At, k
    <3>2. k.hand_state \in ServerWrites \union {"EARLY_DATA"}
      BY <1>1, <3>1 DEF Server, ServerPlace, ServerControl, At
    <3> QED  BY <1>1, <3>2, PostWorkServer
  <2>2. PICK t : /\ Ends(k, t) /\ ssl' = [ssl EXCEPT !["server"] = t]
                 /\ Turns("server", t) /\ faults' = faults
                 /\ wire'["server"] \o t.flight = Way("server")
                 /\ k.call # "none" /\ At(k, "WRITING", "POST_WORK")
    BY <1>1, <1>15, <2>1, Finishes DEF k
  <2>3. ServerStep(k, t, config)
    BY <1>1, <2>2, ServerEnds
  <2>4. Calm("server", k, t, config)
    BY <1>1, <2>2, ServerGoesOn
  <2>5. t.state # "ERROR" /\ t.server = k.server
    BY <2>2 DEF Ends, Off, Fields, At
  <2>6. Reported(t)
    BY <1>1, <2>3, <2>5, OwnedReported DEF Owned, ServerStep
  <2>7. Excused("server")
    BY <1>1, <2>2, <2>5 DEF Excused
  <2> QED  BY <1>1, <2>2, <2>3, <2>4, <2>5, <2>6, <2>7, TurnCalm DEF k, ServerStep, Forward
<1>16. CASE PostProcessWaits("server")
  <2>1. k.call # "none" /\ k.state = "READING" /\ FailsTo("server", Return(k, "RETRY"))
    BY <1>16 DEF PostProcessWaits, Reading, k
  <2>2. ServerStep(k, Return(k, "RETRY"), config)
    BY <1>1, <2>1, ServerReturn
  <2> QED  BY <1>0, <1>2, <2>1, <2>2
<1>17. CASE SendFails("server")
  <2>1. /\ k.call # "none" /\ k.state = "WRITING" /\ k.write_state = "SEND"
        /\ FailsTo("server", Return(k, "RETRY"))
    BY <1>17 DEF SendFails, Writing, k
  <2>2. ServerStep(k, Return(k, "RETRY"), config)
    BY <1>1, <2>1, ServerReturn
  <2> QED  BY <1>0, <1>2, <2>1, <2>2
<1>18. CASE FlushFails("server")
  <2>1. /\ k.call # "none" /\ k.state = "WRITING" /\ k.write_state = "POST_WORK"
        /\ Flushes(k) /\ FailsTo("server", Return(k, "RETRY"))
    BY <1>18 DEF FlushFails, Writing, k
  <2>2. ServerStep(k, Return(k, "RETRY"), config)
    BY <1>1, <2>1, ServerReturn
  <2> QED  BY <1>0, <1>2, <2>1, <2>2
<1>19. CASE FatalFailure("server")
  <2>1. FailsTo("server", Return(SSLfatal(k), "NOTHING"))
    BY <1>19 DEF FatalFailure, k
  <2> QED  BY <1>3, <1>19, <2>1 DEF Excused
<1> QED  BY <1>4, <1>5, <1>6, <1>7, <1>8, <1>9, <1>10, <1>11, <1>12, <1>13, <1>14, <1>15,
            <1>16, <1>17, <1>18, <1>19 DEF Step, Fault

\* So does SSL_new_session_ticket.
LEMMA AskingTurns ==
    ASSUME IInv, SInv, SSL_new_session_ticket
    PROVE  SInv'
<1> DEFINE k == ssl["server"]
           t == Asking(k)
<1>1. /\ Server(k, config) /\ DOMAIN ssl = Peer /\ "server" \in Peer /\ Other("server") = "client"
      /\ "client" \in Peer /\ ServerSide(k, config)
  <2>1. "server" \in Peer /\ Other("server") = "client" /\ "client" \in Peer
    BY DEF Peer, Other
  <2> QED  BY <2>1, TurnFacts DEF IInv, Side
<1>2. /\ k.call = "none" /\ k.done /\ k.state # "ERROR"
      /\ ~k.in_init \/ k.extra_tickets_expected > 0
      /\ ssl' = [ssl EXCEPT !["server"] = t] /\ UNCHANGED <<wire, config, faults>>
  BY DEF SSL_new_session_ticket, Asking
<1>3. ServerStep(k, t, config)
  BY <1>1, <1>2, ServerAsk
<1>4. Calm("server", k, t, config) /\ t.flight = k.flight
  BY <1>1, <1>2, ServerWishes
<1>5. t.state = k.state
  BY <1>1 DEF Asking, Server, Endpoint, Shape, Fields
<1> HIDE DEF t
<1>6. Reported(t) /\ t.server = k.server /\ k.secrets \subseteq t.secrets
  <2>1. Server(t, config) /\ Forward(k, t)
    BY <1>3 DEF ServerStep
  <2>2. Reported(t)
    BY <1>1, <1>2, <1>5, <2>1, OwnedReported DEF Owned
  <2> QED  BY <1>1, <2>1, <2>2 DEF Server, Forward
<1>7. Turns("server", t) /\ wire'["server"] \o t.flight = Way("server")
  <2>1. ssl'["server"] = t /\ ssl'["client"] = ssl["client"]
    BY <1>1, <1>2
  <2> QED  BY <1>1, <1>2, <1>4, <2>1 DEF Turns, Way
<1> QED  BY <1>1, <1>2, <1>4, <1>5, <1>6, <1>7, TurnCalm

-----------------------------------------------------------------------------
(* The script from beginning to end *)

\* A new object is at the beginning of the script, has been given nothing and
\* has said nothing.
LEMMA NewPlace ==
    ASSUME NEW p \in Peer, NEW s, NEW c, Fresh(s, p = "server", EarlyDataState(p = "server", c))
    PROVE  /\ Side(p, s, c) /\ Pos(p, s, c) = 0 /\ ~Astray(s.transcript)
           /\ Intake(s) /\ Reported(s)
           /\ s.quic_input_data = <<>> /\ s.flight = <<>> /\ s.state # "ERROR"
<1> DEFINE e == EarlyDataState(p = "server", c)
<1>0. e = EarlyDataState(p = "server", c)
  OBVIOUS
<1> HIDE DEF e
<1>1. /\ s.early_data_state = e /\ s.state = "UNINITED" /\ s.hand_state = "BEFORE"
      /\ s.done = FALSE /\ s.hello_retry_request = "NONE" /\ s.secrets = {}
      /\ s.quic_read_level = ssl_encryption_initial
      /\ s.quic_input_data = <<>> /\ s.flight = <<>> /\ s.transcript = <<>>
      /\ s.early_data = "NOT_SENT" /\ s.cert_req = 0
      /\ s.quic_latest_level_received = ssl_encryption_initial
  BY <1>0 DEF Fresh
<1>2. ~Astray(s.transcript)
  BY <1>1 DEF Astray
<1>3. Intake(s) /\ Reported(s)
  <2>1. \A i \in 1 .. Len(s.quic_input_data) : FALSE
    BY <1>1
  <2>2. ssl_encryption_initial # ssl_encryption_application
    BY DEF ssl_encryption_initial, ssl_encryption_application
  <2> QED  BY <1>1, <2>1, <2>2 DEF Intake, Reported, CanDecrypt
<1>4. After(c, 0) = <<>>
  BY AfterValues
<1>5. ASSUME p = "client" PROVE Side(p, s, c) /\ Pos(p, s, c) = 0
  <2>1. ClientPos(s, c) = 0
    BY <1>1, ClientPosValues
  <2>2. e = EarlyDataState(FALSE, c)
    BY <1>0, <1>5 DEF EarlyDataState
  <2> DEFINE n == 0
  <2>3. n = 0 /\ n \in Nat
    OBVIOUS
  <2> HIDE DEF n
  <2>4. ClientLines(s, c, n)
    BY <1>1, <1>4, <2>3 DEF ClientLines, ClientWrites
  <2>5. ClientChoices(s, c, n)
    BY <1>1, <2>2, <2>3 DEF ClientChoices
  <2>6. ClientLevels(s, n)
    BY <1>1, <2>3 DEF ClientLevels
  <2>7. ClientKept(s, c)
    BY <2>1, <2>3, <2>4, <2>5, <2>6 DEF ClientKept, ClientAt
  <2> QED  BY <1>2, <1>5, <2>1, <2>7 DEF Side, Pos, ClientSide
<1>6. ASSUME p = "server" PROVE Side(p, s, c) /\ Pos(p, s, c) = 0
  <2>1. ServerPos(s, c) = 0
    BY <1>1, ServerPosValues
  <2>2. e = EarlyDataState(TRUE, c)
    BY <1>0, <1>6 DEF EarlyDataState
  <2> DEFINE n == 0
  <2>3. n = 0 /\ n \in Nat
    OBVIOUS
  <2> HIDE DEF n
  <2>4. ~Weighing(s) /\ ~Judged(s, n)
    BY <1>1, <2>3 DEF Weighing, Judged
  <2>5. ServerLines(s, c, n)
    BY <1>1, <1>4, <2>3, <2>4 DEF ServerLines, ServerSpeakers, ServerFlight
  <2>6. ServerChoices(s, c, n)
    BY <1>1, <2>2, <2>3, <2>4 DEF ServerChoices
  <2>7. ServerLevels(s, n)
    BY <1>1, <2>3 DEF ServerLevels, ssl_encryption_initial, ssl_encryption_application
  <2>8. ServerKept(s, c)
    BY <2>1, <2>3, <2>5, <2>6, <2>7 DEF ServerKept, ServerAt
  <2> QED  BY <1>2, <1>6, <2>1, <2>8 DEF Side, Pos, ServerSide
<1> QED  BY <1>1, <1>2, <1>3, <1>5, <1>6 DEF Peer

\* Nothing is on its way between two that have said nothing.
LEMMA NewChannel ==
    ASSUME NEW p, NEW c, NEW h, NEW lost, ~lost
    PROVE  Channel(p, c, h, 0, 0, lost, <<>>, <<>>)
<1> DEFINE q == <<>>
<1>1. \A i \in 1 .. Len(q) : FALSE
  OBVIOUS
<1>2. Complete(p, c, h, 0, 0, q, q)
  BY NumbersFacts DEF Complete
<1> HIDE DEF q
<1>3. Channel(p, c, h, 0, 0, lost, q, q)
  BY <1>1, <1>2 DEF Channel, Fit, Sorted, InTurn, Above
<1> QED  BY <1>3 DEF q

\* The script invariant holds initially.
LEMMA InitScript ==
    ASSUME Init
    PROVE  SInv
<1>1. /\ faults = MaxFaults /\ wire = [p \in Peer |-> <<>>]
      /\ ssl = [p \in Peer |-> SSL_new(p = "server", EarlyDataState(p = "server", config))]
  BY DEF Init
<1>2. ASSUME NEW p \in Peer
      PROVE  /\ Side(p, ssl[p], config) /\ Pos(p, ssl[p], config) = 0
             /\ ~Astray(ssl[p].transcript) /\ Intake(ssl[p]) /\ Reported(ssl[p])
             /\ ssl[p].quic_input_data = <<>> /\ ssl[p].flight = <<>> /\ ssl[p].state # "ERROR"
  <2>1. ssl[p] = SSL_new(p = "server", EarlyDataState(p = "server", config))
    BY <1>1
  <2>2. Fresh(ssl[p], p = "server", EarlyDataState(p = "server", config))
    BY <2>1, NewFields
  <2> QED  BY <2>2, NewPlace
<1>3. \A p \in Peer : Way(p) = <<>>
  BY <1>1, <1>2 DEF Way
<1>4. \A p \in Peer : Other(p) \in Peer
  BY DEF Peer, Other
<1>5. ASSUME NEW p \in Peer PROVE Linked(p, Other(p))
  BY <1>2, <1>3, <1>4, NewChannel DEF Linked
<1>6. Faultless
  <2>1. Clean(<<>>)
    BY DEF Clean
  <2> QED  BY <1>2, <1>3, <2>1 DEF Faultless
<1> QED  BY <1>2, <1>5, <1>6 DEF SInv

\* Every step keeps it.
LEMMA NextScript ==
    ASSUME IInv, SInv, [Next]_vars
    PROVE  SInv'
<1>1. CASE UNCHANGED vars
  BY <1>1 DEF SInv, Faultless, Linked, Way, vars
<1>2. CASE SSL_new_session_ticket
  BY <1>2, AskingTurns
<1>3. ASSUME NEW p \in Peer, Step(p) \/ Fault(p) \/ Provide(p) \/ StrayMessage(p)
      PROVE  SInv'
  <2>1. CASE StrayMessage(p)
    BY <2>1, Strayed
  <2>2. CASE Provide(p)
    BY <2>2, Provided
  <2>3. CASE p = "client" /\ (Step(p) \/ Fault(p))
    BY <2>3, ClientTurns
  <2>4. CASE p = "server" /\ (Step(p) \/ Fault(p))
    BY <2>4, ServerTurns
  <2> QED  BY <1>3, <2>1, <2>2, <2>3, <2>4 DEF Peer
<1> QED  BY <1>1, <1>2, <1>3 DEF Next

\* Both sides keep to the script and what is on its way between them is what
\* the script says, whatever they are configured with and whichever steps fail.
THEOREM ScriptKept == Spec => []SInv
<1>1. Init => SInv
  BY InitScript
<1>2. IInv /\ SInv /\ [Next]_vars => SInv'
  BY NextScript
<1> QED  BY <1>1, <1>2, Invariance, PTL DEF Spec

\* A client that has reported a finished handshake has kept to the script and is
\* at its end.
LEMMA ClientThrough ==
    ASSUME IInv, SInv, ssl["client"].done
    PROVE  /\ ~Astray(ssl["client"].transcript) /\ ClientAt(ssl["client"], config, 12)
           /\ ClientPos(ssl["client"], config) = 12
<1> DEFINE k == ssl["client"]
           c == config
<1>1. ClientSide(k, c) /\ Reported(k)
  BY DEF SInv, Side, Peer
<1>2. k.hand_state \in {"OK", "CR_SESSION_TICKET", "SW_SESSION_TICKET"}
  BY <1>1 DEF Reported
<1> HIDE DEF k, c
<1>3. ~Astray(k.transcript)
  BY <1>1, <1>2 DEF ClientSide, ClientLost
<1>4. ClientPos(k, c) = 12
  BY <1>2 DEF ClientPos
<1> QED  BY <1>1, <1>3, <1>4 DEF ClientSide, ClientKept, k, c

\* So has a server.
LEMMA ServerThrough ==
    ASSUME IInv, SInv, ssl["server"].done
    PROVE  /\ ~Astray(ssl["server"].transcript) /\ ServerAt(ssl["server"], config, 12)
           /\ ServerPos(ssl["server"], config) = 12 /\ ~Weighing(ssl["server"])
<1> DEFINE s == ssl["server"]
           c == config
<1>1. ServerSide(s, c) /\ Reported(s)
  BY DEF SInv, Side, Peer
<1>2. s.hand_state \in {"OK", "CR_SESSION_TICKET", "SW_SESSION_TICKET"}
  BY <1>1 DEF Reported
<1> HIDE DEF s, c
<1>3. ~Astray(s.transcript)
  BY <1>1, <1>2 DEF ServerSide, ServerLost
<1>4. ServerPos(s, c) = 12
  BY <1>2 DEF ServerPos
<1>5. ~Weighing(s)
  BY <1>2 DEF Weighing
<1> QED  BY <1>1, <1>3, <1>4, <1>5 DEF ServerSide, ServerKept, s, c

\* A server whose Finished was read has the transcript up to it, whatever was
\* sent too many.
LEMMA ServerServed ==
    ASSUME IInv, SInv, ServerPos(ssl["server"], config) >= 9
    PROVE  Extends(ssl["server"].transcript, After(config, 9))
<1> DEFINE s == ssl["server"]
           c == config
           n == ServerPos(s, c)
<1>1. ServerSide(s, c) /\ n >= 9
  BY DEF SInv, Side, Peer
<1>2. n \in 0 .. 12
  BY PosRange DEF Pos
<1> HIDE DEF s, c
<1>3. CASE Astray(s.transcript)
  BY <1>1, <1>3 DEF ServerSide, ServerLost, s, c
<1>4. CASE ~Astray(s.transcript)
  <2>1. ServerLines(s, c, n)
    BY <1>1, <1>4 DEF ServerSide, ServerKept, ServerAt
  <2> HIDE DEF n
  <2>2. n \in Numbers(c) /\ s.transcript = After(c, n) /\ n \in 9 .. 12
    BY <1>1, <1>2, <2>1 DEF ServerLines
  <2> QED  BY <2>2, AfterServed DEF s, c
<1> QED  BY <1>3, <1>4

\* Neither side reports a finished handshake that the other does not share.
LEMMA Agreed ==
    ASSUME IInv, SInv
    PROVE  Agreement
<1> DEFINE k == ssl["client"]
           s == ssl["server"]
           c == config
<1>1. /\ k.transcript \in Seq(Kinds) /\ s.transcript \in Seq(Kinds)
      /\ Channel("client", c, Hello("client", k, c), ClientPos(k, c), ServerPos(s, c),
                 Astray(s.transcript), s.quic_input_data, Way("client"))
      /\ Channel("server", c, Hello("server", s, c), ServerPos(s, c), ClientPos(k, c),
                 Astray(k.transcript), k.quic_input_data, Way("server"))
      /\ ClientSide(k, c)
  <2> DEFINE p == "client"
  <2>1. p \in Peer /\ Other(p) = "server"
    BY DEF Peer, Other
  <2>2. "server" \in Peer
    BY DEF Peer
  <2> QED  BY <2>1, <2>2, TurnFacts DEF Pos, Side
<1>2. {9, 12} \subseteq Numbers(c) /\ 9 \in Lines("server") /\ 12 \in Lines("client")
  BY NumbersFacts DEF Lines
<1>3. ASSUME k.done
      PROVE  IsPrefix(UpToServerFinished(k.transcript), s.transcript)
  <2>1. ~Astray(k.transcript) /\ k.transcript = After(c, 12) /\ ClientPos(k, c) = 12
    BY <1>3, ClientThrough DEF ClientAt, ClientLines
  <2>2. ServerPos(s, c) >= 9
    <3>1. ServerPos(s, c) \in 0 .. 12
      BY PosRange DEF Pos
    <3>2. \A n \in Numbers(c) \intersect Lines("server") : n <= 12 => n <= ServerPos(s, c)
      BY <1>1, <2>1 DEF Channel, Complete
    <3> QED  BY <1>2, <3>1, <3>2
  <2>3. Extends(s.transcript, After(c, 9))
    BY <2>2, ServerServed
  <2> HIDE DEF k, s, c
  <2>4. Extends(k.transcript, After(c, 9))
    BY <1>2, <2>1, AfterServed
  <2>5. After(c, 9) \in Seq(Kinds)
    BY PureAfter DEF Pure
  <2>6. UpToServerFinished(k.transcript) = After(c, 9)
    BY <1>1, <2>4, UpTo
  <2>7. IsPrefix(After(c, 9), s.transcript)
    BY <1>1, <2>3, <2>5, ExtendsPrefix
  <2> QED  BY <2>6, <2>7
<1>4. ASSUME s.done
      PROVE  /\ k.transcript = s.transcript
             /\ k.hit = s.hit
             /\ k.hello_retry_request = "PENDING" <=> s.hello_retry_request = "COMPLETE"
             /\ k.early_data = "ACCEPTED" <=> s.early_data = "ACCEPTED"
             /\ k.cert_req # 0 <=> s.cert_req # 0
  <2>1. ~Astray(s.transcript) /\ ServerAt(s, c, 12) /\ ServerPos(s, c) = 12 /\ ~Weighing(s)
    BY <1>4, ServerThrough
  <2>2. ClientPos(k, c) = 12
    <3>1. ClientPos(k, c) \in 0 .. 12
      BY PosRange DEF Pos
    <3>2. \A n \in Numbers(c) \intersect Lines("client") : n <= 12 => n <= ClientPos(k, c)
      BY <1>1, <2>1 DEF Channel, Complete
    <3> QED  BY <1>2, <3>1, <3>2
  <2> HIDE DEF k, s, c
  <2>3. ~Astray(k.transcript)
    <3> SUFFICES ASSUME Astray(k.transcript) PROVE FALSE
      OBVIOUS
    <3>1. k.hand_state \in {"CR_CERT_REQ", "CR_CERT", "CR_CERT_VRFY", "CR_FINISHED"}
      BY <1>1 DEF ClientSide, ClientLost
    <3> QED  BY <2>2, <3>1, ClientPosValues
  <2>4. ClientAt(k, c, 12)
    BY <1>1, <2>2, <2>3 DEF ClientSide, ClientKept
  <2> DEFINE n == 12
  <2>5. n = 12 /\ n \in Nat /\ ServerAt(s, c, n) /\ ClientAt(k, c, n)
    BY <2>1, <2>4
  <2> HIDE DEF n
  <2>6. Judged(s, n)
    BY <2>1, <2>5 DEF Judged
  <2>7. k.transcript = s.transcript
    BY <2>5 DEF ServerAt, ServerLines, ClientAt, ClientLines
  <2>8. k.hit = s.hit /\ (k.early_data = "ACCEPTED" <=> s.early_data = "ACCEPTED")
    BY <2>5, <2>6 DEF ServerAt, ServerChoices, ClientAt, ClientChoices
  <2>9. k.hello_retry_request = "PENDING" <=> s.hello_retry_request = "COMPLETE"
    BY <2>5, <2>6 DEF ServerAt, ServerChoices, ClientAt, ClientLines
  <2>10. k.cert_req # 0 <=> s.cert_req # 0
    BY <2>5 DEF ServerAt, ServerChoices, ClientAt, ClientChoices
  <2> QED  BY <2>7, <2>8, <2>9, <2>10
<1> QED  BY <1>3, <1>4 DEF Agreement

\* What a message of level l may still find on the client's side: secrets of a
\* later level and a later read level only when the client is past all messages
\* of the server at l.
LEMMA ClientPast ==
    ASSUME NEW s, NEW c, ClientSide(s, c), ~Astray(s.transcript)
    PROVE  LET n == ClientPos(s, c)
           IN  /\ n < 4 => /\ ssl_encryption_handshake \notin s.secrets
                           /\ ssl_encryption_application \notin s.secrets
                           /\ s.quic_read_level = ssl_encryption_initial
               /\ n < 9 => /\ ssl_encryption_application \notin s.secrets
                           /\ s.quic_read_level # ssl_encryption_application
<1> DEFINE n == ClientPos(s, c)
<1>1. n \in 0 .. 12
  BY PosRange DEF Pos
<1>2. ClientLevels(s, n)
  BY DEF ClientSide, ClientKept, ClientAt
<1> HIDE DEF n
<1>3. /\ n < 4 => /\ ssl_encryption_handshake \notin s.secrets
                  /\ ssl_encryption_application \notin s.secrets
                  /\ s.quic_read_level = ssl_encryption_initial
      /\ n < 9 => /\ ssl_encryption_application \notin s.secrets
                  /\ s.quic_read_level # ssl_encryption_application
  BY <1>1, <1>2 DEF ClientLevels, ssl_encryption_initial, ssl_encryption_handshake,
                    ssl_encryption_application
<1> QED  BY <1>3 DEF n

\* The same of a server, whose peer sends nothing at the application level.
LEMMA ServerPast ==
    ASSUME NEW s, NEW c, Server(s, c), ServerSide(s, c), ~Astray(s.transcript)
    PROVE  LET n == ServerPos(s, c)
           IN  /\ n < 4 => /\ ssl_encryption_handshake \notin s.secrets
                           /\ s.quic_read_level = ssl_encryption_initial
               /\ n < 12 => s.quic_read_level # ssl_encryption_application
<1> DEFINE n == ServerPos(s, c)
<1>1. n \in 0 .. 12
  BY PosRange DEF Pos
<1>2. ServerLevels(s, n) /\ CanDecrypt(s, s.quic_read_level)
  BY DEF ServerSide, ServerKept, ServerAt, Server, Endpoint, Data
<1> HIDE DEF n
<1>3. /\ n < 4 => /\ ssl_encryption_handshake \notin s.secrets
                  /\ s.quic_read_level = ssl_encryption_initial
      /\ n < 12 => s.quic_read_level # ssl_encryption_application
  BY <1>1, <1>2 DEF ServerLevels, Protected, CanDecrypt, ssl_encryption_initial,
                    ssl_encryption_handshake, ssl_encryption_application
<1> QED  BY <1>3 DEF n

\* What the transport may hand over and is not a message too many: how it stands
\* to the place of the receiver.
LEMMA Comes ==
    ASSUME IInv, SInv, NEW p \in Peer, NEW i \in Deliverable(p)
    PROVE  LET q == Other(p)
               m == wire[q][i]
               n == Number(q, Hello(q, ssl[q], config), m)
           IN  /\ m.msg.type = "NEWSESSION_TICKET" =>
                     q = "server" /\ m.level = ssl_encryption_application
               /\ Scripted(m) =>
                     /\ n \in Lines(q) /\ n \in 1 .. 12 /\ m.level = LevelOf(n)
                     /\ ~Astray(ssl[p].transcript) => n > Pos(p, ssl[p], config)
                     /\ Astray(ssl[p].transcript) => m.level # ssl_encryption_initial
<1> DEFINE q == Other(p)
           w == wire[q]
           f == ssl[q].flight
           Q == Way(q)
           h == Hello(q, ssl[q], config)
           a == Pos(q, ssl[q], config)
           b == Pos(p, ssl[p], config)
           lost == Astray(ssl[p].transcript)
<1>1. /\ q \in Peer /\ Channel(q, config, h, a, b, lost, ssl[p].quic_input_data, Q)
  BY TurnFacts
<1>2. w \in Seq(Entries) /\ f \in Seq(Entries) /\ Q = w \o f /\ i \in 1 .. Len(w)
  BY <1>1, TurnFacts DEF Way, Deliverable
<1> HIDE DEF q, w, f, Q, h, a, b, lost
<1>3. i \in 1 .. Len(Q) /\ Q[i] = w[i]
  BY <1>2
<1>4. /\ Genuine(q, config, h, a, w[i])
      /\ ~lost /\ Scripted(w[i]) => Number(q, h, w[i]) > b
      /\ lost /\ Scripted(w[i]) => w[i].level # ssl_encryption_initial
  BY <1>1, <1>3 DEF Channel, Fit, Above, Secured
<1>5. Scripted(w[i]) => /\ Number(q, h, w[i]) \in Lines(q) /\ Number(q, h, w[i]) \in 1 .. 12
                        /\ w[i].level = LevelOf(Number(q, h, w[i]))
  BY <1>4, GenuineNumber
<1>6. w[i].msg.type = "NEWSESSION_TICKET" =>
         q = "server" /\ w[i].level = ssl_encryption_application
  BY <1>4 DEF Genuine
<1> QED  BY <1>4, <1>5, <1>6 DEF q, w, h, b, lost

\* An endpoint accepts a level that neither its read level nor the level it was
\* given last is past.
LEMMA AcceptsFrom ==
    ASSUME NEW s, NEW c, Data(s, c), Intake(s), NEW l \in Level,
           s.quic_read_level <= l, s.quic_latest_level_received <= l
    PROVE  Accepts(s, l)
<1> DEFINE I == s.quic_input_data
           x == s.quic_latest_level_received
<1>1. I \in Seq(Entries) /\ x \in Level /\ s.quic_read_level \in Level
  BY DEF Data, Intake, Protected, Level, ssl_encryption_initial, ssl_encryption_handshake,
         ssl_encryption_application
<1>2. ASSUME I # <<>> PROVE I[Len(I)].level <= l
  <2>1. Len(I) \in 1 .. Len(I)
    BY <1>1, <1>2
  <2>2. I[Len(I)].level \in Level /\ I[Len(I)].level <= x
    <3>1. \A i \in 1 .. Len(I) : I[i].level <= x
      BY DEF Intake
    <3> HIDE DEF I, x
    <3>2. I[Len(I)] \in Entries
      BY <1>1, <2>1
    <3> QED  BY <2>1, <3>1, <3>2 DEF Entries
  <2> HIDE DEF I, x
  <2>3. x <= l
    BY DEF x
  <2> QED  BY <1>1, <2>2, <2>3 DEF Level
<1> QED  BY <1>1, <1>2 DEF Accepts, Level

\* No message of the peer comes at a level that the client is past.
LEMMA ClientWelcomes ==
    ASSUME IInv, SInv, NEW i \in Deliverable("client"), wire["server"][i].msg.has # {"stray"}
    PROVE  Accepts(ssl["client"], wire["server"][i].level)
<1> DEFINE s == ssl["client"]
           m == wire["server"][i]
           n == Number("server", Hello("server", ssl["server"], config), m)
           r == s.quic_read_level
           x == s.quic_latest_level_received
           b == ClientPos(s, config)
<1>1. /\ m.msg.type = "NEWSESSION_TICKET" => m.level = ssl_encryption_application
      /\ Scripted(m) => /\ n \in Lines("server") /\ n \in 1 .. 12 /\ m.level = LevelOf(n)
                        /\ ~Astray(s.transcript) => n > b
                        /\ Astray(s.transcript) => m.level # ssl_encryption_initial
  <2> DEFINE p == "client"
  <2>1. p \in Peer /\ Other(p) = "server" /\ Pos(p, s, config) = b
    BY DEF Peer, Other, Pos
  <2> HIDE DEF b
  <2> QED  BY <2>1, Comes
<1>2. Scripted(m) \/ m.msg.type = "NEWSESSION_TICKET"
  BY DEF Scripted
<1>3. Data(s, config) /\ Intake(s) /\ ClientSide(s, config)
  BY DEF IInv, SInv, Client, Endpoint, Side, Peer
<1>4. /\ ~Astray(s.transcript) =>
            /\ b < 4 => /\ ssl_encryption_handshake \notin s.secrets
                        /\ ssl_encryption_application \notin s.secrets
                        /\ r = ssl_encryption_initial
            /\ b < 9 => /\ ssl_encryption_application \notin s.secrets
                        /\ r # ssl_encryption_application
      /\ Astray(s.transcript) => /\ ssl_encryption_application \notin s.secrets
                                 /\ r = ssl_encryption_handshake
  BY <1>3, ClientPast DEF ClientSide, ClientLost
<1>5. b \in 0 .. 12 /\ r \in Level /\ CanDecrypt(s, x) /\ x \in {ssl_encryption_initial} \union Protected
  BY <1>3, PosRange DEF Pos, Data, Intake
<1> HIDE DEF s, m, n, r, x, b
<1>6. m.level \in Level /\ r <= m.level /\ x <= m.level
  <2>1. CASE m.msg.type = "NEWSESSION_TICKET"
    BY <1>1, <1>5, <2>1 DEF Level, Protected, ssl_encryption_initial, ssl_encryption_handshake,
                            ssl_encryption_application
  <2>2. CASE Scripted(m) /\ n <= 4
    <3>1. m.level = ssl_encryption_initial /\ ~Astray(s.transcript) /\ b < 4
      BY <1>1, <1>5, <2>2 DEF LevelOf
    <3> QED  BY <1>4, <1>5, <3>1 DEF Level, Protected, CanDecrypt, ssl_encryption_initial,
                                     ssl_encryption_handshake, ssl_encryption_application
  <2>3. CASE Scripted(m) /\ ~(n <= 4)
    <3>1. m.level = ssl_encryption_handshake /\ n <= 9
      BY <1>1, <2>3 DEF LevelOf, Lines
    <3>2. ssl_encryption_application \notin s.secrets /\ r # ssl_encryption_application
      <4>1. CASE Astray(s.transcript)
        BY <1>4, <4>1 DEF ssl_encryption_handshake, ssl_encryption_application
      <4>2. CASE ~Astray(s.transcript)
        <5>1. b < 9
          BY <1>1, <1>5, <2>3, <3>1, <4>2
        <5> QED  BY <1>4, <4>2, <5>1
      <4> QED  BY <4>1, <4>2
    <3> QED  BY <1>5, <3>1, <3>2 DEF Level, Protected, CanDecrypt, ssl_encryption_initial,
                                     ssl_encryption_handshake, ssl_encryption_application
  <2> QED  BY <1>2, <2>1, <2>2, <2>3
<1> QED  BY <1>3, <1>6, AcceptsFrom DEF s, m, r, x

\* Nor at one that the server is past.
LEMMA ServerWelcomes ==
    ASSUME IInv, SInv, NEW i \in Deliverable("server"), wire["client"][i].msg.has # {"stray"}
    PROVE  Accepts(ssl["server"], wire["client"][i].level)
<1> DEFINE s == ssl["server"]
           m == wire["client"][i]
           n == Number("client", Hello("client", ssl["client"], config), m)
           r == s.quic_read_level
           x == s.quic_latest_level_received
           b == ServerPos(s, config)
<1>1. /\ m.msg.type # "NEWSESSION_TICKET"
      /\ Scripted(m) => /\ n \in Lines("client") /\ n \in 1 .. 12 /\ m.level = LevelOf(n)
                        /\ ~Astray(s.transcript) => n > b
                        /\ Astray(s.transcript) => m.level # ssl_encryption_initial
  <2> DEFINE p == "server"
  <2>1. p \in Peer /\ Other(p) = "client" /\ Pos(p, s, config) = b
    BY DEF Peer, Other, Pos
  <2> HIDE DEF b
  <2> QED  BY <2>1, Comes
<1>2. Scripted(m)
  BY <1>1 DEF Scripted
<1>3. Server(s, config) /\ Data(s, config) /\ Intake(s) /\ ServerSide(s, config) /\ s.server
  BY DEF IInv, SInv, Server, Endpoint, Side, Peer
<1>4. /\ ~Astray(s.transcript) =>
            /\ b < 4 => /\ ssl_encryption_handshake \notin s.secrets
                        /\ r = ssl_encryption_initial
            /\ b < 12 => r # ssl_encryption_application
      /\ Astray(s.transcript) => r = ssl_encryption_handshake
  BY <1>3, ServerPast DEF ServerSide, ServerLost
<1>5. /\ b \in 0 .. 12 /\ r \in Level /\ CanDecrypt(s, x)
      /\ x \in {ssl_encryption_initial} \union Protected /\ x # ssl_encryption_application
  BY <1>3, PosRange DEF Pos, Data, Intake
<1> HIDE DEF s, m, n, r, x, b
<1>6. m.level \in Level /\ r <= m.level /\ x <= m.level
  <2>1. CASE n <= 4
    <3>1. m.level = ssl_encryption_initial /\ ~Astray(s.transcript) /\ b < 4
      BY <1>1, <1>2, <1>5, <2>1 DEF LevelOf
    <3> QED  BY <1>4, <1>5, <3>1 DEF Level, Protected, CanDecrypt, ssl_encryption_initial,
                                     ssl_encryption_handshake, ssl_encryption_application
  <2>2. CASE ~(n <= 4)
    <3>1. m.level = ssl_encryption_handshake
      BY <1>1, <1>2, <2>2 DEF LevelOf
    <3>2. r # ssl_encryption_application
      <4>1. CASE Astray(s.transcript)
        BY <1>4, <4>1 DEF ssl_encryption_handshake, ssl_encryption_application
      <4>2. CASE ~Astray(s.transcript)
        <5>1. b < 12
          BY <1>1, <1>2, <1>5, <4>2
        <5> QED  BY <1>4, <4>2, <5>1
      <4> QED  BY <4>1, <4>2
    <3> QED  BY <1>5, <3>1, <3>2 DEF Level, Protected, CanDecrypt, ssl_encryption_initial,
                                     ssl_encryption_handshake, ssl_encryption_application
  <2> QED  BY <2>1, <2>2
<1> QED  BY <1>3, <1>6, AcceptsFrom DEF s, m, r, x

\* A side acts on its own object.
LEMMA OwnSteps ==
    ASSUME IInv, NEW p \in Peer, NEW q \in Peer, p # q, Step(q) \/ Fault(q)
    PROVE  ssl'[p] = ssl[p]
<1>1. DOMAIN ssl = Peer
  BY DEF IInv
<1>2. ASSUME NEW t, ssl' = [ssl EXCEPT ![q] = t]
      PROVE  ssl'[p] = ssl[p]
  BY <1>1, <1>2
<1>3. CASE SSL_do_handshake(q) \/ SSL_process_quic_post_handshake(q) \/ ReturnDone(q)
  BY <1>2, <1>3 DEF SSL_do_handshake, SSL_process_quic_post_handshake, ReturnDone, Becomes
<1>4. CASE ReadNothing(q) \/ ReadMessage(q) \/ ReadRefused(q) \/ PostProcess(q)
  BY <1>2, <1>4 DEF ReadNothing, ReadMessage, ReadRefused, PostProcess, Becomes
<1>5. CASE WriteNext(q) \/ Construct(q) \/ TicketDeclined(q)
  BY <1>2, <1>5 DEF WriteNext, Construct, TicketDeclined, Becomes
<1>6. CASE Send(q) \/ Finish(q)
  BY <1>2, <1>6 DEF Send, Finish, Becomes
<1>7. CASE Fault(q)
  BY <1>2, <1>7 DEF Fault, PostProcessWaits, SendFails, FlushFails, FatalFailure, FailsTo
<1> QED  BY <1>3, <1>4, <1>5, <1>6, <1>7 DEF Step

\* What the other side, the network and a request for a ticket do leaves a side
\* in the state it is in.
LEMMA OtherSteps ==
    ASSUME IInv, Next, NEW p \in Peer, ~(Step(p) \/ Fault(p))
    PROVE  ssl'[p].state = ssl[p].state
<1>1. DOMAIN ssl = Peer /\ "state" \in DOMAIN ssl[p]
  BY DEF IInv, Client, Server, Endpoint, Shape, Peer, Fields
<1>2. CASE SSL_new_session_ticket
  BY <1>1, <1>2 DEF SSL_new_session_ticket
<1>3. ASSUME NEW q \in Peer, Step(q) \/ Fault(q) \/ Provide(q) \/ StrayMessage(q)
      PROVE  ssl'[p].state = ssl[p].state
  <2>1. CASE Step(q) \/ Fault(q)
    <3>1. p # q
      BY <2>1
    <3> QED  BY <2>1, <3>1, OwnSteps
  <2>2. CASE Provide(q)
    <3>1. PICK x : ssl' = [ssl EXCEPT ![q] = Given(ssl[q], x)]
      BY <2>2 DEF Provide, Given
    <3> QED  BY <1>1, <3>1 DEF Given
  <2>3. CASE StrayMessage(q)
    BY <2>3 DEF StrayMessage
  <2> QED  BY <1>3, <2>1, <2>2, <2>3
<1> QED  BY <1>2, <1>3 DEF Next

-----------------------------------------------------------------------------
(* Theorems on the script *)

\* Neither side runs into an error but by a failure of its own or over a message
\* too many: no other message is unexpected where it is read, is of another level
\* than the one being read or authenticates another transcript, and no transition
\* is missing from the tables of statem_clnt.c and statem_srvr.c, also where a
\* callback failed and its step was repeated, and after the peer failed.
THEOREM NoSpuriousErrors == Spec => ErrorsOnlyFromFaults
<1> DEFINE Sound == \A p \in Peer : ~Failed(p) /\ Failed(p)' => FatalFailure(p) \/ MetStray(p)
<1>1. ASSUME IInv, SInv, [Next]_vars
      PROVE  [Sound]_vars
  <2> SUFFICES ASSUME Next, NEW p \in Peer, ssl[p].state # "ERROR", ssl'[p].state = "ERROR"
               PROVE  FatalFailure(p) \/ MetStray(p)
    BY <1>1 DEF Failed
  <2>1. CASE Step(p) \/ Fault(p)
    <3>1. Excused(p)
      BY <1>1, <2>1, ClientTurns, ServerTurns DEF Peer
    <3> QED  BY <3>1 DEF Excused
  <2>2. ASSUME ~(Step(p) \/ Fault(p))
        PROVE  ssl'[p].state = ssl[p].state
    BY <1>1, <2>2, OtherSteps
  <2> QED  BY <2>1, <2>2
<1> HIDE DEF Sound
<1>2. Spec => [][Sound]_vars
  <2>1. IInv /\ SInv /\ [Next]_vars => [Sound]_vars
    BY <1>1
  <2> QED  BY <2>1, Invariance, ScriptKept, PTL DEF Spec
<1> QED  BY <1>2 DEF ErrorsOnlyFromFaults, Sound

\* A side that reports a finished handshake is right about its peer: the server
\* has the client's transcript up to the server's Finished when the client is
\* done; when the server is done both transcripts are the same, and so is what
\* the two made of the session, the retry, the certificate and the early data.
THEOREM Agrees == Spec => []Agreement
<1>1. IInv /\ SInv => Agreement
  BY Agreed
<1> QED  BY <1>1, Invariance, ScriptKept, PTL

\* SSL_provide_quic_data refuses nothing that the peer's side of the script sent,
\* in whatever order the levels are delivered: no level check of ssl_quic.c
\* drops a message that is still to be read.
THEOREM NothingRefused == Spec => []NeverRefused
<1>1. IInv /\ SInv => NeverRefused
  <2> SUFFICES ASSUME IInv, SInv, NEW p \in Peer, NEW i \in Deliverable(p),
                      wire[Other(p)][i].msg.has # {"stray"}
               PROVE  Accepts(ssl[p], wire[Other(p)][i].level)
    BY DEF NeverRefused
  <2>1. CASE p = "client"
    <3>1. Other(p) = "server"
      BY <2>1 DEF Other
    <3> QED  BY <2>1, <3>1, ClientWelcomes
  <2>2. CASE p = "server"
    <3>1. Other(p) = "client"
      BY <2>2 DEF Other
    <3> QED  BY <2>2, <3>1, ServerWelcomes
  <2> QED  BY <2>1, <2>2 DEF Peer
<1> QED  BY <1>1, Invariance, ScriptKept, PTL
=============================================================================
