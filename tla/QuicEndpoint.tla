---------------------------- MODULE QuicEndpoint ----------------------------
(***************************************************************************)
(* The TLS 1.3 handshake state machine of one SSL object driven over QUIC, *)
(* as operators on a record that holds the fields of the object: the       *)
(* transition tables, pre-work, message construction, post-work and        *)
(* message processing of ssl/statem/statem_clnt.c and statem_srvr.c, and   *)
(* the key changes of quic_change_cipher_state (ssl/tls13_enc.c).          *)
(* QuicHandshake runs a client and a server made of them.                  *)
(*                                                                         *)
(* Middlebox compatibility is off (SSL_set_quic_method turns it off), no   *)
(* post-handshake authentication is asked for, and certificates are not    *)
(* compressed.                                                             *)
(***************************************************************************)
EXTENDS QuicLevels, Sequences

(* What the two applications have configured, as far as the handshake's    *)
(* course depends on it:                                                   *)
(*   session         the client has a session to offer as a PSK            *)
(*   acceptPsk       the server finds it usable                            *)
(*   clientEarly     "off"; "on": early data enabled with a session that   *)
(*                   allows it; "unusable": enabled for the sake of a PSK  *)
(*                   callback which then gives no session that allows it   *)
(*   serverEarly     "off"; "reject": enabled, but the ClientHello or the  *)
(*                   application's callback forbids it; "accept"           *)
(*   hrr             the first ClientHello has no usable key share         *)
(*   certReq         the server asks for a certificate                     *)
(*   clientCert      the client has one                                    *)
(*   ticketExpected  ticket_expected after the ClientHello: not for a      *)
(*                   session that may not be resumed, nor when a PSK was   *)
(*                   offered that does not fit the cipher suite            *)
(*   numTickets      num_tickets                                           *)
(*   defer           the QUIC stacks send nothing before flush_flight      *)
(*   requests        bound: calls of SSL_new_session_ticket                *)
CONSTANT Config

ASSUME ConfigAssumption ==
    Config \subseteq
        [session : BOOLEAN, acceptPsk : BOOLEAN,
         clientEarly : {"off", "on", "unusable"},
         serverEarly : {"off", "reject", "accept"},
         hrr : BOOLEAN, certReq : BOOLEAN, clientCert : BOOLEAN,
         ticketExpected : BOOLEAN, numTickets : Nat,
         defer : BOOLEAN, requests : Nat]

\* A handshake message: its type, the facts in it that matter, and what a
\* Finished authenticates.
Msg(type, has)   == [type |-> type, has |-> has, mac |-> <<>>]
Entry(m)         == [type |-> m.type, has |-> m.has]     \* as the transcript sees it
MessageHash(tr)  == <<[type |-> "message_hash", has |-> tr[1].has]>>

\* The fields of an SSL object in its initial state, and of its application:
\* the call it is in, whether it was told that the handshake is over, whether it
\* has handed over data since its last call.
SSL_new(server, early) ==
    [server |-> server, state |-> "UNINITED", hand_state |-> "BEFORE",
     read_state |-> "HEADER", write_state |-> "TRANSITION", in_init |-> TRUE,
     rwstate |-> "RETRY", call |-> "none", done |-> FALSE, fresh |-> FALSE,
     quic_read_level |-> ssl_encryption_initial,
     quic_write_level |-> ssl_encryption_initial,
     quic_latest_level_received |-> ssl_encryption_initial,
     quic_input_data |-> <<>>, secrets |-> {}, flight |-> <<>>,
     transcript |-> <<>>, msg |-> Msg("none", {}), clienthello |-> {},
     hit |-> FALSE, hello_retry_request |-> "NONE", cert_req |-> 0,
     early_data_state |-> early, early_data |-> "NOT_SENT", max_early_data |-> FALSE,
     cleanuphand |-> FALSE, ticket_expected |-> FALSE, sent_tickets |-> 0,
     extra_tickets_expected |-> 0, tickets_declined |-> 0, tickets_received |-> 0]

\* Mutant: the server is not told apart.
EarlyDataState_NoServer(server, c) ==
    IF c.serverEarly = "off" /\ c.clientEarly = "off" THEN "NONE" ELSE "CONNECTING"

\* SSL_set_quic_early_data_enabled, called before the handshake.
EarlyDataState(server, c) ==
    IF server
    THEN IF c.serverEarly = "off" THEN "NONE" ELSE "ACCEPTING"
    ELSE IF c.clientEarly = "off" THEN "NONE" ELSE "CONNECTING"

\* SSLfatal: a permanent error.
SSLfatal(s) == [s EXCEPT !.state = "ERROR", !.in_init = TRUE]

-----------------------------------------------------------------------------
(* Keys                                                                    *)

\* Mutant: both sides install secrets when they start to write.
Change_InstallOnWrite(s, level, dir) ==
    LET t == IF dir = "write" \/ level = ssl_encryption_early_data
             THEN [s EXCEPT !.secrets = @ \cup {level}] ELSE s
    IN  IF level = ssl_encryption_early_data THEN t
        ELSE IF dir = "read" THEN [t EXCEPT !.quic_read_level = level]
        ELSE [t EXCEPT !.quic_write_level = level]

\* quic_change_cipher_state.  Secrets are installed in pairs, by the client
\* when it starts to read and by the server when it starts to write at a
\* level; those of early data by themselves, without any change of level.
quic_change_cipher_state(s, level, dir) ==
    LET installs == level = ssl_encryption_early_data
                    \/ dir = IF s.server THEN "write" ELSE "read"
        t == IF installs THEN [s EXCEPT !.secrets = @ \cup {level}] ELSE s
    IN  IF level = ssl_encryption_early_data THEN t
        ELSE IF dir = "read" THEN [t EXCEPT !.quic_read_level = level]
        ELSE [t EXCEPT !.quic_write_level = level]

\* tls_finish_handshake.
tls_finish_handshake(s, stop) ==
    LET t == IF s.cleanuphand
             THEN [s EXCEPT !.cleanuphand = FALSE, !.ticket_expected = FALSE]
             ELSE s
    IN  [t EXCEPT !.in_init = ~stop]

-----------------------------------------------------------------------------
(* Reading                                                                 *)

\* The state a message moves the client to, "BAD" if it is unexpected.
ClientReadTransition(s, type) ==
    CASE s.hand_state \in {"CW_CLNT_HELLO", "EARLY_DATA"} /\ type = "SERVER_HELLO"
                                                  -> "CR_SRVR_HELLO"
      [] s.hand_state = "CR_SRVR_HELLO" /\ type = "ENCRYPTED_EXTENSIONS"
                                                  -> "CR_ENCRYPTED_EXTENSIONS"
      [] s.hand_state = "CR_ENCRYPTED_EXTENSIONS" /\ s.hit /\ type = "FINISHED"
                                                  -> "CR_FINISHED"
      [] s.hand_state = "CR_ENCRYPTED_EXTENSIONS" /\ ~s.hit
         /\ type = "CERTIFICATE_REQUEST"          -> "CR_CERT_REQ"
      [] s.hand_state = "CR_ENCRYPTED_EXTENSIONS" /\ ~s.hit /\ type = "CERTIFICATE"
                                                  -> "CR_CERT"
      [] s.hand_state = "CR_CERT_REQ" /\ type = "CERTIFICATE"     -> "CR_CERT"
      [] s.hand_state = "CR_CERT" /\ type = "CERTIFICATE_VERIFY"  -> "CR_CERT_VRFY"
      [] s.hand_state = "CR_CERT_VRFY" /\ type = "FINISHED"       -> "CR_FINISHED"
      [] s.hand_state = "OK" /\ type = "NEWSESSION_TICKET"        -> "CR_SESSION_TICKET"
      [] OTHER -> "BAD"

ServerReadTransition(s, type) ==
    CASE s.hand_state = "BEFORE" /\ type = "CLIENT_HELLO"         -> "SR_CLNT_HELLO"
      [] s.hand_state = "EARLY_DATA" /\ s.hello_retry_request = "PENDING"
         /\ type = "CLIENT_HELLO"                                 -> "SR_CLNT_HELLO"
      [] s.hand_state = "EARLY_DATA" /\ s.hello_retry_request # "PENDING"
         /\ s.cert_req = 1 /\ type = "CERTIFICATE"                -> "SR_CERT"
      [] s.hand_state = "EARLY_DATA" /\ s.hello_retry_request # "PENDING"
         /\ s.cert_req = 0 /\ type = "FINISHED"                   -> "SR_FINISHED"
      [] s.hand_state = "SR_CERT" /\ s.msg.has = {"empty"}
         /\ type = "FINISHED"                                     -> "SR_FINISHED"
      [] s.hand_state = "SR_CERT" /\ s.msg.has # {"empty"}
         /\ type = "CERTIFICATE_VERIFY"                           -> "SR_CERT_VRFY"
      [] s.hand_state = "SR_CERT_VRFY" /\ type = "FINISHED"       -> "SR_FINISHED"
      [] OTHER -> "BAD"

ReadTransition(s, type) ==
    IF s.server THEN ServerReadTransition(s, type) ELSE ClientReadTransition(s, type)

\* Mutant: tickets enter the transcript too.
GetBody_HashTickets(s, m) ==
    [s EXCEPT !.quic_input_data = Tail(@),
              !.msg = m,
              !.transcript = IF m.has = {"hrr"} THEN @ ELSE Append(@, Entry(m))]

\* quic_get_message_body: a message enters the transcript as it is read, but a
\* ticket never does and a HelloRetryRequest does later, when it is processed.
quic_get_message_body(s, m) ==
    [s EXCEPT !.quic_input_data = Tail(@),
              !.msg = m,
              !.transcript = IF m.type = "NEWSESSION_TICKET" \/ m.has = {"hrr"}
                             THEN @ ELSE Append(@, Entry(m))]

\* The three ways process_message ends without an error.
CONTINUE_READING(s)    == [s EXCEPT !.read_state = "HEADER"]
CONTINUE_PROCESSING(s) == [s EXCEPT !.read_state = "POST_PROCESS"]
FINISHED_READING(s)    == [s EXCEPT !.read_state = "HEADER", !.state = "WRITING",
                                    !.write_state = "TRANSITION"]

\* tls_process_as_hello_retry_request: the transcript starts again with a hash
\* of the first ClientHello.
ProcessHelloRetryRequest(s, m) ==
    IF s.hello_retry_request # "NONE" THEN SSLfatal(s)
    ELSE FINISHED_READING(
           [s EXCEPT !.hello_retry_request = "PENDING",
                     !.transcript = Append(MessageHash(@), Entry(m))])

\* The write level is moved with the read level, but not when early data may
\* still be written: then the first message to be sent at the handshake level
\* moves it (tls_construct_client_certificate, tls_construct_finished).
ProcessServerHello(s, m) ==
    LET t == quic_change_cipher_state([s EXCEPT !.hit = "psk" \in m.has],
                                      ssl_encryption_handshake, "read")
    IN  CONTINUE_READING(IF s.early_data_state = "NONE"
                         THEN quic_change_cipher_state(t, ssl_encryption_handshake, "write")
                         ELSE t)

\* Mutant: the digest is not compared.
ProcessFinished_NoCheck(s, m) ==
    FINISHED_READING(
        quic_change_cipher_state([s EXCEPT !.cleanuphand = @ \/ s.server],
                                 ssl_encryption_application, "read"))

\* tls_process_finished: the peer's digest must be that of the transcript up
\* to this message.
ProcessFinished(s, m) ==
    IF m.mac # SubSeq(s.transcript, 1, Len(s.transcript) - 1) THEN SSLfatal(s)
    ELSE FINISHED_READING(
           quic_change_cipher_state([s EXCEPT !.cleanuphand = @ \/ s.server],
                                    ssl_encryption_application, "read"))

\* ossl_statem_{client,server}_process_message, in the state moved to.
ProcessMessage(s, m) ==
    CASE s.hand_state = "CR_SRVR_HELLO" /\ m.has = {"hrr"} -> ProcessHelloRetryRequest(s, m)
      [] s.hand_state = "CR_SRVR_HELLO" /\ m.has # {"hrr"} -> ProcessServerHello(s, m)
      [] s.hand_state = "CR_ENCRYPTED_EXTENSIONS" ->
            CONTINUE_READING(IF "early" \in m.has
                             THEN [s EXCEPT !.early_data = "ACCEPTED"] ELSE s)
      [] s.hand_state = "CR_CERT_REQ" -> CONTINUE_READING([s EXCEPT !.cert_req = 1])
      [] s.hand_state = "CR_CERT"     -> CONTINUE_PROCESSING(s)
      [] s.hand_state = "CR_CERT_VRFY" ->
            IF s.cert_req = 1 THEN CONTINUE_PROCESSING(s) ELSE CONTINUE_READING(s)
      [] s.hand_state = "CR_SESSION_TICKET" ->
            FINISHED_READING([s EXCEPT !.tickets_received = @ + 1])
      [] s.hand_state = "SR_CLNT_HELLO" ->
            CONTINUE_PROCESSING([s EXCEPT !.clienthello = m.has])
      [] s.hand_state \in {"SR_CERT", "SR_CERT_VRFY"} -> CONTINUE_READING(s)
      [] s.hand_state \in {"CR_FINISHED", "SR_FINISHED"} -> ProcessFinished(s, m)

\* Mutant: early data is accepted although the ClientHello is to be retried.
PostProcessClientHello_EarlyRetry(s, c) ==
    LET psk   == "psk" \in s.clienthello /\ c.acceptPsk
        retry == CASE s.hello_retry_request = "NONE" /\ c.hrr -> "PENDING"
                   [] s.hello_retry_request = "PENDING"       -> "COMPLETE"
                   [] OTHER -> s.hello_retry_request
        early == CASE "early" \notin s.clienthello -> s.early_data
                   [] /\ "early" \in s.clienthello
                      /\ psk /\ c.serverEarly = "accept"
                      /\ s.early_data_state = "ACCEPTING" -> "ACCEPTED"
                   [] OTHER                        -> "REJECTED"
        t == [s EXCEPT !.hit = psk, !.hello_retry_request = retry,
                       !.early_data = early, !.ticket_expected = c.ticketExpected]
    IN  FINISHED_READING(
          IF early = "ACCEPTED"
          THEN quic_change_cipher_state(t, ssl_encryption_early_data, "read")
          ELSE t)

\* tls_post_process_client_hello: PSK, then key share, then early data.
PostProcessClientHello(s, c) ==
    LET psk   == "psk" \in s.clienthello /\ c.acceptPsk
        retry == CASE s.hello_retry_request = "NONE" /\ c.hrr -> "PENDING"
                   [] s.hello_retry_request = "PENDING"       -> "COMPLETE"
                   [] OTHER -> s.hello_retry_request
        early == CASE "early" \notin s.clienthello -> s.early_data
                   [] /\ "early" \in s.clienthello
                      /\ psk /\ c.serverEarly = "accept"
                      /\ s.early_data_state = "ACCEPTING"
                      /\ retry = "NONE"            -> "ACCEPTED"
                   [] OTHER                        -> "REJECTED"
        t == [s EXCEPT !.hit = psk, !.hello_retry_request = retry,
                       !.early_data = early, !.ticket_expected = c.ticketExpected]
    IN  FINISHED_READING(
          IF early = "ACCEPTED"
          THEN quic_change_cipher_state(t, ssl_encryption_early_data, "read")
          ELSE t)

\* ossl_statem_{client,server}_post_process_message, when it is not left
\* waiting for a callback.
PostProcessMessage(s, c) ==
    CASE s.hand_state = "SR_CLNT_HELLO" -> PostProcessClientHello(s, c)
      [] s.hand_state = "CR_CERT"       -> CONTINUE_READING(s)
      [] s.hand_state = "CR_CERT_VRFY"  ->
            CONTINUE_READING([s EXCEPT !.cert_req = IF c.clientCert THEN 1 ELSE 2])

-----------------------------------------------------------------------------
(* Writing                                                                 *)

\* After the server's flight: the client's certificate, if one was asked for.
CertOrFinished(s) == IF s.cert_req = 0 THEN "CW_FINISHED" ELSE "CW_CERT"

\* The state the client writes in next; "FINISHED" when it is to read.
ClientWriteTransition(s) ==
    CASE s.hand_state = "BEFORE"                 -> "CW_CLNT_HELLO"
      [] s.hand_state = "CW_CLNT_HELLO"          ->
            IF s.early_data_state = "CONNECTING" THEN "EARLY_DATA" ELSE "FINISHED"
      [] s.hand_state = "CR_SRVR_HELLO"          -> "CW_CLNT_HELLO"
      [] s.hand_state \in {"EARLY_DATA", "OK"}   -> "FINISHED"
      [] s.hand_state = "CR_FINISHED"            ->
            IF s.early_data_state \in {"WRITE_RETRY", "FINISHED_WRITING"}
            THEN "PENDING_EARLY_DATA_END" ELSE CertOrFinished(s)
      [] s.hand_state = "PENDING_EARLY_DATA_END" ->
            IF s.early_data = "ACCEPTED" THEN "CW_END_OF_EARLY_DATA" ELSE CertOrFinished(s)
      [] s.hand_state = "CW_END_OF_EARLY_DATA"   -> CertOrFinished(s)
      [] s.hand_state = "CW_CERT"                ->
            IF s.cert_req = 1 THEN "CW_CERT_VRFY" ELSE "CW_FINISHED"
      [] s.hand_state = "CW_CERT_VRFY"           -> "CW_FINISHED"
      [] s.hand_state \in {"CW_FINISHED", "CR_SESSION_TICKET"} -> "OK"
      [] OTHER -> "ERROR"

\* A resumed session gets one ticket, a new one as many as are configured, and
\* one is sent for every SSL_new_session_ticket.
ServerWriteTransition(s, c) ==
    CASE s.hand_state \in {"BEFORE", "EARLY_DATA"} -> "FINISHED"
      [] s.hand_state = "SR_CLNT_HELLO"            -> "SW_SRVR_HELLO"
      [] s.hand_state = "SW_SRVR_HELLO"            ->
            IF s.hello_retry_request = "PENDING" THEN "EARLY_DATA"
            ELSE "SW_ENCRYPTED_EXTENSIONS"
      [] s.hand_state = "SW_ENCRYPTED_EXTENSIONS"  ->
            IF s.hit THEN "SW_FINISHED" ELSE IF c.certReq THEN "SW_CERT_REQ" ELSE "SW_CERT"
      [] s.hand_state = "SW_CERT_REQ"              -> "SW_CERT"
      [] s.hand_state = "SW_CERT"                  -> "SW_CERT_VRFY"
      [] s.hand_state = "SW_CERT_VRFY"             -> "SW_FINISHED"
      [] s.hand_state = "SW_FINISHED"              -> "EARLY_DATA"
      [] s.hand_state = "SR_FINISHED"              ->
            IF s.ticket_expected /\ c.numTickets > s.sent_tickets
            THEN "SW_SESSION_TICKET" ELSE "OK"
      [] s.hand_state = "SW_SESSION_TICKET"        ->
            IF s.extra_tickets_expected > 0 THEN "SW_SESSION_TICKET"
            ELSE IF s.hit \/ c.numTickets <= s.sent_tickets THEN "OK"
            ELSE "SW_SESSION_TICKET"
      [] s.hand_state = "OK"                       ->
            IF s.extra_tickets_expected > 0 THEN "SW_SESSION_TICKET" ELSE "FINISHED"
      [] OTHER -> "ERROR"

WriteTransition(s, c) ==
    IF s.server THEN ServerWriteTransition(s, c) ELSE ClientWriteTransition(s)

\* ossl_statem_{client,server}_pre_work stops the state machine here.
PreWorkStops(s) ==
    \/ s.hand_state = "OK"
    \/ s.hand_state = "EARLY_DATA" /\ (s.server => s.early_data_state = "ACCEPTING")
    \/ s.hand_state = "PENDING_EARLY_DATA_END"
       /\ s.early_data_state \notin {"FINISHED_WRITING", "NONE"}

\* Pre-work that goes on: the handshake is over before the first ticket.
PreWork(s) ==
    IF s.hand_state = "SW_SESSION_TICKET" /\ s.sent_tickets = 0
       /\ s.extra_tickets_expected = 0
    THEN tls_finish_handshake(s, FALSE)
    ELSE s

\* States in which no message is sent.  There is no EndOfEarlyData in QUIC.
NothingToSend == {"EARLY_DATA", "PENDING_EARLY_DATA_END", "CW_END_OF_EARLY_DATA"}

ConstructClientHello(s, c) ==
    LET early == s.early_data_state = "CONNECTING" /\ c.clientEarly = "on"
        t     == [s EXCEPT !.max_early_data = early,
                           !.msg = Msg("CLIENT_HELLO", {x \in {"psk", "early"} :
                                            IF x = "psk" THEN c.session ELSE early})]
    IN  IF early THEN [t EXCEPT !.early_data = "REJECTED"] ELSE t

ConstructServerHello(s) ==
    IF s.hello_retry_request = "PENDING"
    THEN [s EXCEPT !.hit = FALSE, !.transcript = MessageHash(@),
                   !.msg = Msg("SERVER_HELLO", {"hrr"})]
    ELSE [s EXCEPT !.msg = Msg("SERVER_HELLO", IF s.hit THEN {"psk"} ELSE {})]

\* The deferred change of the client's handshake write keys.
DeferredWriteKeys(s) ==
    IF s.early_data_state # "NONE"
    THEN quic_change_cipher_state(s, ssl_encryption_handshake, "write")
    ELSE s

ConstructFinished(s) ==
    LET t == IF ~s.server /\ s.cert_req = 0 THEN DeferredWriteKeys(s) ELSE s
    IN  [t EXCEPT !.cleanuphand = @ \/ ~s.server,
                  !.msg = [Msg("FINISHED", {}) EXCEPT !.mac = s.transcript]]

tls_update_ticket_counts(s) ==
    [s EXCEPT !.sent_tickets = @ + 1,
              !.extra_tickets_expected = IF @ > 0 THEN @ - 1 ELSE 0]

ConstructNewSessionTicket(s) ==
    [tls_update_ticket_counts(s) EXCEPT !.msg = Msg("NEWSESSION_TICKET", {})]

\* CON_FUNC_DONT_SEND: the ticket callback gives no ticket.  It is counted.
DeclineNewSessionTicket(s) ==
    [tls_update_ticket_counts(s) EXCEPT !.tickets_declined = @ + 1]

\* ossl_statem_{client,server}_construct_message and the function it names.
ConstructMessage(s, c) ==
    CASE s.hand_state = "CW_CLNT_HELLO" -> ConstructClientHello(s, c)
      [] s.hand_state = "SW_SRVR_HELLO" -> ConstructServerHello(s)
      [] s.hand_state = "SW_ENCRYPTED_EXTENSIONS" ->
            [s EXCEPT !.msg = Msg("ENCRYPTED_EXTENSIONS",
                                  IF s.early_data = "ACCEPTED" THEN {"early"} ELSE {})]
      [] s.hand_state = "SW_CERT_REQ" ->
            [s EXCEPT !.cert_req = 1, !.msg = Msg("CERTIFICATE_REQUEST", {})]
      [] s.hand_state = "SW_CERT" -> [s EXCEPT !.msg = Msg("CERTIFICATE", {})]
      [] s.hand_state = "CW_CERT" ->
            [DeferredWriteKeys(s) EXCEPT
                !.msg = Msg("CERTIFICATE", IF s.cert_req = 2 THEN {"empty"} ELSE {})]
      [] s.hand_state \in {"SW_CERT_VRFY", "CW_CERT_VRFY"} ->
            [s EXCEPT !.msg = Msg("CERTIFICATE_VERIFY", {})]
      [] s.hand_state \in {"SW_FINISHED", "CW_FINISHED"} -> ConstructFinished(s)
      [] s.hand_state = "SW_SESSION_TICKET" -> ConstructNewSessionTicket(s)

\* ssl3_do_write: the message is added to the flight at the write level, and
\* to the transcript unless it is a ticket.
ssl3_do_write(s) ==
    [s EXCEPT !.flight = Append(@, [level |-> s.quic_write_level, msg |-> s.msg]),
              !.transcript = IF s.msg.type = "NEWSESSION_TICKET"
                             THEN @ ELSE Append(@, Entry(s.msg))]

\* Mutant: a HelloRetryRequest is not flushed.
Flushes_NoRetry(s) ==
    \/ s.hand_state = "CW_CLNT_HELLO"
       /\ ~(s.early_data_state = "CONNECTING" /\ s.max_early_data)
    \/ s.hand_state \in {"CW_FINISHED", "SW_FINISHED", "SW_SESSION_TICKET"}

\* Post-work begins by flushing the flight.
Flushes(s) ==
    \/ s.hand_state = "CW_CLNT_HELLO"
       /\ ~(s.early_data_state = "CONNECTING" /\ s.max_early_data)
    \/ s.hand_state = "SW_SRVR_HELLO" /\ s.hello_retry_request = "PENDING"
    \/ s.hand_state \in {"CW_FINISHED", "SW_FINISHED", "SW_SESSION_TICKET"}

\* Mutant: the server that accepted early data goes on reading at its level.
ServerFinishedKeys_NoRead(s) ==
    [quic_change_cipher_state(s, ssl_encryption_application, "write")
        EXCEPT !.early_data_state = IF s.early_data = "ACCEPTED"
                                    THEN "FINISHED_READING" ELSE @]

\* The key changes of the server once its flight is written.
ServerFinishedKeys(s) ==
    LET t == quic_change_cipher_state(s, ssl_encryption_application, "write")
    IN  IF s.early_data = "ACCEPTED"
        THEN quic_change_cipher_state([t EXCEPT !.early_data_state = "FINISHED_READING"],
                                      ssl_encryption_handshake, "read")
        ELSE t

\* The server starts to read at the handshake level with its ServerHello, but
\* with its Finished if it reads early data until then.
ServerHelloKeys(s) ==
    LET t == quic_change_cipher_state(s, ssl_encryption_handshake, "write")
    IN  IF s.early_data # "ACCEPTED"
        THEN quic_change_cipher_state(t, ssl_encryption_handshake, "read") ELSE t

\* Mutant: the keys change after a HelloRetryRequest too.
PostWork_KeysAfterRetry(s) ==
    CASE s.hand_state = "CW_CLNT_HELLO" /\ ~Flushes(s) ->
            quic_change_cipher_state(s, ssl_encryption_early_data, "write")
      [] s.hand_state = "SW_SRVR_HELLO" -> ServerHelloKeys(s)
      [] s.hand_state = "SW_FINISHED" -> ServerFinishedKeys(s)
      [] s.hand_state = "CW_FINISHED" ->
            quic_change_cipher_state(s, ssl_encryption_application, "write")
      [] OTHER -> s

\* Mutant: the client never installs its early data secret.
PostWork_NoEarlySecret(s) ==
    CASE s.hand_state = "SW_SRVR_HELLO" /\ ~Flushes(s) -> ServerHelloKeys(s)
      [] s.hand_state = "SW_FINISHED" -> ServerFinishedKeys(s)
      [] s.hand_state = "CW_FINISHED" ->
            quic_change_cipher_state(s, ssl_encryption_application, "write")
      [] OTHER -> s

\* ossl_statem_{client,server}_post_work after the flush.
PostWork(s) ==
    CASE s.hand_state = "CW_CLNT_HELLO" /\ ~Flushes(s) ->
            quic_change_cipher_state(s, ssl_encryption_early_data, "write")
      [] s.hand_state = "SW_SRVR_HELLO" /\ ~Flushes(s) -> ServerHelloKeys(s)
      [] s.hand_state = "SW_FINISHED" -> ServerFinishedKeys(s)
      [] s.hand_state = "CW_FINISHED" ->
            quic_change_cipher_state(s, ssl_encryption_application, "write")
      [] OTHER -> s
=============================================================================
