----------------------- MODULE QuicHandshake_proofs -----------------------
(***************************************************************************)
(* Proofs about QuicHandshake, for every set of configurations and any     *)
(* number of failures: what holds of one endpoint whatever its peer sends. *)
(* Levels only go up and never ahead of their secrets, secrets come in the *)
(* order the QUIC stack relies on, and a flight is flushed before the      *)
(* application is told to wait.                                            *)
(***************************************************************************)
EXTENDS QuicHandshake, SequenceTheorems, TLAPS

-----------------------------------------------------------------------------
(* The inductive invariant *)

Fields == {"server", "state", "hand_state", "read_state", "write_state", "in_init", "rwstate",
           "call", "done", "fresh", "quic_read_level", "quic_write_level",
           "quic_latest_level_received", "quic_input_data", "secrets", "flight", "transcript",
           "msg", "clienthello", "hit", "hello_retry_request", "cert_req", "early_data_state",
           "early_data", "max_early_data", "cleanuphand", "ticket_expected", "sent_tickets",
           "extra_tickets_expected", "tickets_declined", "tickets_received"}

\* t is s but for the fields in X.
Off(t, s, X) == DOMAIN t = Fields /\ \A x \in Fields \ X : t[x] = s[x]

\* Messages, as they are sent and as a transcript has them.
Types    == {"none", "message_hash", "CLIENT_HELLO", "SERVER_HELLO", "ENCRYPTED_EXTENSIONS",
             "CERTIFICATE_REQUEST", "CERTIFICATE", "CERTIFICATE_VERIFY", "FINISHED",
             "NEWSESSION_TICKET"}
Facts    == {"psk", "early", "hrr", "empty", "stray"}
Kinds    == [type : Types, has : SUBSET Facts]
Messages == [type : Types, has : SUBSET Facts, mac : Seq(Kinds)]
Entries  == [level : Level, msg : Messages]

\* The states of either side.
ClientWrites == {"CW_CLNT_HELLO", "CW_CERT", "CW_CERT_VRFY", "CW_FINISHED"}
ClientReads  == {"CR_SRVR_HELLO", "CR_ENCRYPTED_EXTENSIONS", "CR_CERT_REQ", "CR_CERT",
                 "CR_CERT_VRFY"}
ServerFlight == {"SW_ENCRYPTED_EXTENSIONS", "SW_CERT_REQ", "SW_CERT", "SW_CERT_VRFY"}
ServerWrites == ServerFlight \union {"SW_SRVR_HELLO", "SW_FINISHED", "SW_SESSION_TICKET"}

At(s, state, sub) ==
    /\ s.state = state
    /\ IF state = "READING" THEN s.read_state = sub ELSE s.write_state = sub

\* Where the state machine of a client that has not failed can be.
ClientControl(s) ==
    \/ s.state = "UNINITED" /\ s.hand_state = "BEFORE" /\ s.call = "none"
    \/ /\ At(s, "READING", "HEADER")
       /\ s.hand_state \in ClientReads \union {"CW_CLNT_HELLO", "EARLY_DATA", "OK"}
    \/ At(s, "READING", "POST_PROCESS") /\ s.hand_state \in {"CR_CERT", "CR_CERT_VRFY"}
    \/ /\ At(s, "WRITING", "TRANSITION") /\ s.call # "none"
       /\ s.hand_state \in ClientWrites \union
             {"BEFORE", "CR_SRVR_HELLO", "EARLY_DATA", "CR_FINISHED",
              "PENDING_EARLY_DATA_END", "CW_END_OF_EARLY_DATA", "OK", "CR_SESSION_TICKET"}
    \/ /\ At(s, "WRITING", "PRE_WORK") /\ s.call # "none"
       /\ s.hand_state \in ClientWrites \union
             {"EARLY_DATA", "PENDING_EARLY_DATA_END", "CW_END_OF_EARLY_DATA", "OK"}
       /\ s.hand_state = "EARLY_DATA" => s.early_data_state = "CONNECTING"
    \/ At(s, "WRITING", "SEND") /\ s.hand_state \in ClientWrites
    \/ /\ At(s, "WRITING", "POST_WORK")
       /\ s.hand_state \in ClientWrites \union {"PENDING_EARLY_DATA_END", "CW_END_OF_EARLY_DATA"}
    \/ /\ s.state = "FINISHED"
       /\ \/ s.hand_state = "OK"
          \/ s.hand_state = "EARLY_DATA" /\ s.call # "none" /\ s.early_data_state = "CONNECTING"
          \/ s.hand_state = "EARLY_DATA" /\ s.call = "none" /\ s.early_data_state = "WRITE_RETRY"

ServerControl(s) ==
    \/ s.state = "UNINITED" /\ s.hand_state = "BEFORE" /\ s.call = "none"
    \/ /\ At(s, "READING", "HEADER")
       /\ s.hand_state \in {"BEFORE", "EARLY_DATA", "SR_CERT", "SR_CERT_VRFY", "OK"}
    \/ At(s, "READING", "POST_PROCESS") /\ s.hand_state = "SR_CLNT_HELLO"
    \/ /\ At(s, "WRITING", "TRANSITION") /\ s.call # "none"
       /\ s.hand_state \in ServerWrites \union
             {"BEFORE", "SR_CLNT_HELLO", "EARLY_DATA", "SR_FINISHED", "OK"}
    \/ /\ At(s, "WRITING", "PRE_WORK") /\ s.call # "none"
       /\ s.hand_state \in ServerWrites \union {"EARLY_DATA", "OK"}
    \/ At(s, "WRITING", "SEND") /\ s.hand_state \in ServerWrites
    \/ At(s, "WRITING", "POST_WORK") /\ s.hand_state \in ServerWrites \union {"EARLY_DATA"}
    \/ /\ s.state = "FINISHED"
       /\ \/ s.hand_state = "OK"
          \/ /\ s.hand_state = "EARLY_DATA"
             /\ s.call # "none" => s.early_data_state = "ACCEPTING"

\* The levels a client reads and writes at in each of these places: while it
\* waits for the server's hello, reads the server's flight, writes its own, and
\* after that.
ClientHellos(s)  == \/ s.hand_state \in {"BEFORE", "CW_CLNT_HELLO", "EARLY_DATA"}
                    \/ s.hand_state = "CR_SRVR_HELLO" /\ s.state = "WRITING"
ClientReading(s) == s.hand_state \in ClientReads /\ s.state = "READING"
ClientWriting(s) == \/ s.hand_state \in {"CR_FINISHED", "PENDING_EARLY_DATA_END",
                                         "CW_END_OF_EARLY_DATA", "CW_CERT", "CW_CERT_VRFY"}
                    \/ s.hand_state = "CW_FINISHED" /\ s.write_state # "TRANSITION"
ClientOver(s)    == \/ s.hand_state \in {"OK", "CR_SESSION_TICKET"}
                    \/ s.hand_state = "CW_FINISHED" /\ s.write_state = "TRANSITION"

Before    == {ssl_encryption_initial, ssl_encryption_handshake}
Protected == {ssl_encryption_handshake, ssl_encryption_application}

ClientKeys(s) ==
    /\ ClientHellos(s) => /\ s.quic_read_level = ssl_encryption_initial
                          /\ s.quic_write_level = ssl_encryption_initial
    /\ ClientReading(s) => /\ s.quic_read_level = ssl_encryption_handshake
                           /\ s.quic_write_level \in Before
                           /\ ssl_encryption_handshake \in s.secrets
    /\ ClientWriting(s) => /\ s.quic_read_level = ssl_encryption_application
                           /\ s.quic_write_level \in Before
                           /\ Protected \subseteq s.secrets
    /\ ClientOver(s) => /\ s.quic_read_level = ssl_encryption_application
                        /\ s.quic_write_level = ssl_encryption_application
                        /\ Protected \subseteq s.secrets

\* The same for a server: up to its hello or the retry it asks for, in the rest
\* of its flight, while it reads the client's, and after that.
ServerHellos(s)  == \/ s.hand_state \in {"BEFORE", "SR_CLNT_HELLO"}
                    \/ /\ s.hand_state = "SW_SRVR_HELLO"
                       /\ s.write_state # "TRANSITION" \/ s.hello_retry_request = "PENDING"
                    \/ s.hand_state = "EARLY_DATA" /\ s.hello_retry_request = "PENDING"
ServerWriting(s) == /\ s.hello_retry_request # "PENDING"
                    /\ \/ s.hand_state = "SW_SRVR_HELLO" /\ s.write_state = "TRANSITION"
                       \/ s.hand_state \in ServerFlight
                       \/ s.hand_state = "SW_FINISHED" /\ s.write_state # "TRANSITION"
ServerReading(s) == /\ s.hello_retry_request # "PENDING"
                    /\ \/ s.hand_state = "SW_FINISHED" /\ s.write_state = "TRANSITION"
                       \/ s.hand_state \in {"EARLY_DATA", "SR_CERT", "SR_CERT_VRFY"}
ServerOver(s)    == s.hand_state \in {"SR_FINISHED", "SW_SESSION_TICKET", "OK"}

ServerKeys(s) ==
    /\ ServerHellos(s) \/ ServerWriting(s) \/ ServerReading(s) \/ ServerOver(s)
    /\ ServerHellos(s) => /\ s.quic_read_level = ssl_encryption_initial
                          /\ s.quic_write_level = ssl_encryption_initial
    /\ ServerWriting(s) => /\ s.quic_read_level = IF s.early_data = "ACCEPTED"
                                                  THEN ssl_encryption_initial
                                                  ELSE ssl_encryption_handshake
                           /\ s.quic_write_level = ssl_encryption_handshake
                           /\ ssl_encryption_handshake \in s.secrets
    /\ ServerReading(s) => /\ s.quic_read_level = ssl_encryption_handshake
                           /\ s.quic_write_level = ssl_encryption_application
                           /\ Protected \subseteq s.secrets
    /\ ServerOver(s) => /\ s.quic_read_level = ssl_encryption_application
                        /\ s.quic_write_level = ssl_encryption_application
                        /\ Protected \subseteq s.secrets

\* A client that has sent "early_data" has its secret, or installs it before its
\* call is over.
Known(s) ==
    \/ ssl_encryption_early_data \in s.secrets
    \/ s.state = "ERROR"
    \/ /\ s.call # "none" /\ s.hand_state = "CW_CLNT_HELLO" /\ At(s, "WRITING", "POST_WORK")
       /\ s.early_data_state = "CONNECTING" /\ s.max_early_data

\* What client s sends.
FromClient(m, s) == m.msg.has # {"hrr"} /\ ("early" \in m.msg.has => Known(s))

\* Where a part of the flight may be held back.
ClientHolds(s) == /\ s.state = "WRITING"
                  /\ \/ s.hand_state = "CW_CLNT_HELLO" /\ s.write_state = "POST_WORK"
                     \/ s.hand_state \in {"CW_CERT", "CW_CERT_VRFY"}
                     \/ s.hand_state = "CW_FINISHED" /\ s.write_state # "TRANSITION"
ServerHolds(s) == /\ s.state = "WRITING"
                  /\ \/ s.hand_state = "SW_SRVR_HELLO" /\ s.write_state = "POST_WORK"
                     \/ /\ s.hand_state = "SW_SRVR_HELLO" /\ s.write_state = "TRANSITION"
                        /\ s.hello_retry_request # "PENDING"
                     \/ s.hand_state \in ServerFlight
                     \/ s.hand_state = "SW_FINISHED" /\ s.write_state # "TRANSITION"
                     \/ s.hand_state = "SW_SESSION_TICKET" /\ s.write_state = "POST_WORK"

Flags == {"in_init", "done", "fresh", "hit", "max_early_data"}

\* What holds of either side: the types of its fields, the levels it uses, and
\* what its application was told.
Shape(s) ==
    /\ DOMAIN s = Fields
    /\ \A x \in Flags : s[x] \in BOOLEAN
    /\ s.state \in {"UNINITED", "READING", "WRITING", "FINISHED", "ERROR"}
    /\ s.call \in {"none", "SSL_do_handshake", "SSL_process_quic_post_handshake"}

Data(s, c) ==
    /\ s.quic_read_level \in Level /\ s.quic_write_level \in Level /\ s.secrets \subseteq Level
    /\ s.flight \in Seq(Entries) /\ s.quic_input_data \in Seq(Entries)
    /\ s.transcript \in Seq(Kinds) /\ s.msg \in Messages /\ s.clienthello \subseteq Facts
    /\ CanDecrypt(s, s.quic_read_level) /\ CanDecrypt(s, s.quic_write_level)
    /\ \A i \in 1 .. Len(s.flight) : CanDecrypt(s, s.flight[i].level)
    /\ ~c.defer => s.flight = <<>>

Told(s) ==
    /\ s.state = "ERROR" => s.call = "none" /\ s.rwstate = "NOTHING"
    /\ s.state = "WRITING" /\ s.call = "none" => s.rwstate = "RETRY" /\ s.in_init
    /\ s.call = "SSL_process_quic_post_handshake" =>
          s.done /\ (s.state = "ERROR" \/ s.hand_state \in {"OK", "CR_SESSION_TICKET"})
    /\ s.call # "none" /\ s.state # "FINISHED" => s.in_init
    /\ s.in_init \/ s.done \/ s.state \in {"FINISHED", "ERROR"}

Endpoint(s, c) == Shape(s) /\ Data(s, c) /\ Told(s)

ClientPlace(s, c) ==
    /\ ClientControl(s)
    /\ ClientKeys(s)
    /\ s.done => s.hand_state \in {"OK", "CR_SESSION_TICKET"}
    /\ s.early_data_state = "WRITE_RETRY" =>
          s.hand_state = "EARLY_DATA" /\ s.state = "FINISHED" /\ s.call = "none"
    /\ s.early_data_state = "CONNECTING" =>
          \/ s.hand_state = "BEFORE"
          \/ s.hand_state = "CW_CLNT_HELLO" /\ s.state = "WRITING"
          \/ s.hand_state = "EARLY_DATA" /\ (At(s, "WRITING", "PRE_WORK") \/ s.state = "FINISHED")
    /\ s.flight # <<>> /\ ~(c.defer /\ c.clientEarly = "on") => ClientHolds(s)
    /\ s.transcript = <<>> => \/ s.hand_state = "BEFORE"
                              \/ /\ s.hand_state = "CW_CLNT_HELLO" /\ s.state = "WRITING"
                                 /\ s.write_state \in {"PRE_WORK", "SEND"}
    /\ At(s, "WRITING", "SEND") =>
          /\ s.msg.has # {"hrr"} /\ s.msg.type # "NEWSESSION_TICKET"
          /\ "early" \in s.msg.has => /\ s.hand_state = "CW_CLNT_HELLO" /\ s.max_early_data
                                      /\ s.early_data_state = "CONNECTING"

Client(s, c) ==
    /\ Endpoint(s, c)
    /\ s.server = FALSE
    /\ s.early_data_state \in {"NONE", "CONNECTING", "WRITE_RETRY", "FINISHED_WRITING"}
    /\ s.max_early_data => c.clientEarly = "on"
    /\ \A i \in 1 .. Len(s.flight) : FromClient(s.flight[i], s)
    /\ s.state # "ERROR" => ClientPlace(s, c)

\* Early data is not accepted before the ClientHello is judged, nor with a retry.
Retrying(s) == \/ s.hello_retry_request = "PENDING" \/ s.hand_state = "BEFORE"
               \/ s.hand_state = "SR_CLNT_HELLO" /\ s.state = "READING"

ServerPlace(s, c) ==
    /\ ServerControl(s)
    /\ ServerKeys(s)
    /\ s.done => s.hand_state \in {"OK", "SW_SESSION_TICKET"}
    /\ s.flight # <<>> => ServerHolds(s)
    /\ s.extra_tickets_expected > 0 =>
          /\ s.done /\ s.in_init /\ s.call # "SSL_process_quic_post_handshake"
          /\ ~(s.hand_state = "OK" /\ At(s, "WRITING", "PRE_WORK"))
          /\ ~(s.state = "FINISHED" /\ s.call # "none")
    /\ s.transcript = <<>> => s.hand_state = "BEFORE"
    /\ At(s, "WRITING", "SEND") /\ s.hand_state = "SW_SESSION_TICKET"
          => s.msg.type = "NEWSESSION_TICKET"
    /\ s.hand_state = "BEFORE" => s.secrets = {}
    /\ ssl_encryption_early_data \in s.secrets /\ ssl_encryption_application \notin s.secrets
          => s.state = "WRITING" /\ s.hello_retry_request # "PENDING"
    /\ Retrying(s) => s.early_data # "ACCEPTED"

Server(s, c) ==
    /\ Endpoint(s, c)
    /\ s.server = TRUE
    /\ s.early_data_state \in {"NONE", "ACCEPTING", "FINISHED_READING"}
    /\ s.extra_tickets_expected \in Nat
    /\ \A i \in 1 .. Len(s.quic_input_data) : s.quic_input_data[i].msg.has # {"hrr"}
    /\ s.state # "ERROR" => ServerPlace(s, c)

\* What server s knows of early data, it has from client k.
EarlyFrom(k, s) ==
    /\ ssl_encryption_early_data \in s.secrets => Known(k)
    /\ "early" \in s.clienthello => Known(k)
    /\ \A i \in 1 .. Len(s.quic_input_data) : FromClient(s.quic_input_data[i], k)

Wires ==
    /\ wire \in [Peer -> Seq(Entries)]
    /\ \A p \in Peer : \A i \in 1 .. Len(wire[p]) : CanDecrypt(ssl[p], wire[p][i].level)
    /\ \A i \in 1 .. Len(wire["client"]) : FromClient(wire["client"][i], ssl["client"])

IInv ==
    /\ config \in Config /\ faults \in 0 .. MaxFaults /\ requests \in 0 .. config.requests
    /\ DOMAIN ssl = Peer
    /\ Client(ssl["client"], config) /\ Server(ssl["server"], config)
    /\ EarlyFrom(ssl["client"], ssl["server"])
    /\ Wires
-----------------------------------------------------------------------------
(* Fields *)

\* A level never goes down, secrets are never taken back, and a handshake that
\* is over stays over and keeps what was agreed.
Forward(s, t) ==
    /\ t.quic_read_level >= s.quic_read_level
    /\ t.quic_write_level >= s.quic_write_level
    /\ s.secrets \subseteq t.secrets
    /\ s.done => t.done /\ t.transcript = s.transcript /\ t.hit = s.hit

\* The fields that Data, Forward and the knowledge of early data depend on.
DataFields == {"server", "quic_read_level", "quic_write_level", "quic_input_data", "secrets",
               "flight", "transcript", "msg", "clienthello", "hit", "max_early_data"}
Control == Fields \ DataFields

\* A step that changes control fields only keeps the data, field by field.
LEMMA SameFields ==
    ASSUME NEW s, NEW t, Off(t, s, Control)
    PROVE  /\ t.server = s.server /\ t.quic_read_level = s.quic_read_level
           /\ t.quic_write_level = s.quic_write_level
           /\ t.quic_input_data = s.quic_input_data /\ t.secrets = s.secrets
           /\ t.flight = s.flight /\ t.transcript = s.transcript /\ t.msg = s.msg
           /\ t.clienthello = s.clienthello /\ t.hit = s.hit
           /\ t.max_early_data = s.max_early_data
BY DEF Off, Control, DataFields, Fields

\* It keeps Data,
LEMMA SameData ==
    ASSUME NEW s, NEW t, NEW c, Data(s, c), Off(t, s, Control)
    PROVE  Data(t, c)
BY SameFields DEF Data, CanDecrypt

\* and takes nothing back.
LEMMA SameForward ==
    ASSUME NEW s, NEW t, NEW c, Data(s, c), Off(t, s, Control), s.done => t.done
    PROVE  Forward(s, t)
<1>1. s.quic_read_level \in Int /\ s.quic_write_level \in Int
  BY DEF Data, Level
<1> QED  BY <1>1, SameFields DEF Forward

\* A larger set of fields may have changed.
LEMMA OffMore ==
    ASSUME NEW s, NEW t, NEW X, NEW Y, X \subseteq Y, Off(t, s, X)
    PROVE  Off(t, s, Y)
BY DEF Off

\* Two steps that change the same fields.
LEMMA OffOff ==
    ASSUME NEW s, NEW t, NEW u, NEW X, Off(t, s, X), Off(u, t, X)
    PROVE  Off(u, s, X)
BY DEF Off

\* The fields of Return(SSLfatal(s)).
LEMMA FatalFields ==
    ASSUME NEW s, DOMAIN s = Fields, NEW why
    PROVE  LET t == Return(SSLfatal(s), why)
           IN  /\ Off(t, s, {"state", "in_init", "call", "rwstate"})
               /\ t.state = "ERROR" /\ t.call = "none" /\ t.rwstate = why
               /\ t.in_init \in BOOLEAN
BY DEF Return, SSLfatal, Off, Fields

\* The fields of Return.
LEMMA ReturnFields ==
    ASSUME NEW s, DOMAIN s = Fields, s.in_init \in BOOLEAN, NEW why
    PROVE  LET t == Return(s, why)
           IN  /\ Off(t, s, {"in_init", "call", "rwstate"})
               /\ t.call = "none" /\ t.rwstate = why /\ t.in_init \in BOOLEAN
               /\ ~t.in_init => ~s.in_init \/ s.call = "SSL_process_quic_post_handshake"
BY DEF Return, Off, Fields

\* A client that fails keeps what is required of it.
LEMMA FatalClient ==
    ASSUME NEW s, NEW c, Client(s, c)
    PROVE  LET t == Return(SSLfatal(s), "NOTHING")
           IN  Client(t, c) /\ Forward(s, t) /\ Known(t)
<1> DEFINE t == Return(SSLfatal(s), "NOTHING")
<1> SUFFICES Client(t, c) /\ Forward(s, t) /\ Known(t)
  OBVIOUS
<1>1. /\ Off(t, s, {"state", "in_init", "call", "rwstate"})
      /\ t.state = "ERROR" /\ t.call = "none" /\ t.rwstate = "NOTHING" /\ t.in_init \in BOOLEAN
  BY FatalFields DEF Client, Endpoint, Shape
<1> HIDE DEF t
<1>2. Off(t, s, Control)
  BY <1>1, OffMore DEF Control, DataFields, Fields
<1>3. t.done = s.done /\ t.fresh = s.fresh /\ t.early_data_state = s.early_data_state
  BY <1>1 DEF Off, Fields
<1>4. Shape(t)
  BY <1>1, <1>2, <1>3, SameFields DEF Client, Endpoint, Shape, Off, Flags
<1>5. Data(t, c) /\ Forward(s, t)
  BY <1>2, <1>3, SameData, SameForward DEF Client, Endpoint
<1>6. Told(t) /\ Known(t)
  BY <1>1 DEF Told, Known
<1>7. \A i \in 1 .. Len(t.flight) : FromClient(t.flight[i], t)
  BY <1>2, <1>6, SameFields DEF Client, FromClient
<1>8. t.server = s.server /\ t.max_early_data = s.max_early_data
  BY <1>2, SameFields
<1> QED  BY <1>1, <1>3, <1>4, <1>5, <1>6, <1>7, <1>8 DEF Client, Endpoint

-----------------------------------------------------------------------------
(* Steps of an endpoint *)

\* What the other parts need to know of a step of a client or a server from s to t.
ClientStep(s, t, c) == Client(t, c) /\ Forward(s, t) /\ (Known(s) => Known(t))

ServerStep(s, t, c) ==
    /\ Server(t, c) /\ Forward(s, t)
    /\ \/ t.quic_input_data = s.quic_input_data
       \/ s.quic_input_data # <<>> /\ t.quic_input_data = Tail(s.quic_input_data)
    /\ \/ t.clienthello = s.clienthello
       \/ s.quic_input_data # <<>> /\ t.clienthello = s.quic_input_data[1].msg.has
    /\ ssl_encryption_early_data \in t.secrets =>
          ssl_encryption_early_data \in s.secrets \/ "early" \in s.clienthello

\* A step that leaves the data alone.
LEMMA ControlClient ==
    ASSUME NEW s, NEW t, NEW c, Client(s, c), Off(t, s, Control), Shape(t), Told(t),
           s.done => t.done, Known(s) => Known(t), t.state # "ERROR" => ClientPlace(t, c),
           t.early_data_state \in {"NONE", "CONNECTING", "WRITE_RETRY", "FINISHED_WRITING"}
    PROVE  ClientStep(s, t, c)
<1>1. Data(t, c) /\ Forward(s, t)
  BY SameData, SameForward DEF Client, Endpoint
<1>2. \A i \in 1 .. Len(t.flight) : FromClient(t.flight[i], t)
  BY SameFields DEF Client, FromClient
<1>3. t.server = s.server /\ t.max_early_data = s.max_early_data
  BY SameFields
<1> QED  BY <1>1, <1>2, <1>3 DEF ClientStep, Client, Endpoint

\* The same for a server.
LEMMA ControlServer ==
    ASSUME NEW s, NEW t, NEW c, Server(s, c), Off(t, s, Control), Shape(t), Told(t),
           s.done => t.done, t.state # "ERROR" => ServerPlace(t, c),
           t.early_data_state \in {"NONE", "ACCEPTING", "FINISHED_READING"},
           t.extra_tickets_expected \in Nat
    PROVE  ServerStep(s, t, c)
<1>1. Data(t, c) /\ Forward(s, t)
  BY SameData, SameForward DEF Server, Endpoint
<1>2. /\ t.server = s.server /\ t.quic_input_data = s.quic_input_data
      /\ t.clienthello = s.clienthello /\ t.secrets = s.secrets
  BY SameFields
<1> QED  BY <1>1, <1>2 DEF ServerStep, Server, Endpoint

\* Shape is a matter of the fields that change.
LEMMA KeepShape ==
    ASSUME NEW s, NEW t, Shape(s), Off(t, s, Control),
           {t.in_init, t.done, t.fresh} \subseteq BOOLEAN,
           t.state \in {"UNINITED", "READING", "WRITING", "FINISHED", "ERROR"},
           t.call \in {"none", "SSL_do_handshake", "SSL_process_quic_post_handshake"}
    PROVE  Shape(t)
BY SameFields DEF Shape, Off, Flags

\* What SSL_do_handshake does to the fields of an endpoint.
LEMMA DoHandshakeFields ==
    ASSUME NEW s, DOMAIN s = Fields
    PROVE  LET u == CheckFinishInit(s)
               t == IF u.in_init THEN [EnterStateMachine(u) EXCEPT
                                          !.call = "SSL_do_handshake", !.fresh = FALSE]
                    ELSE [u EXCEPT !.rwstate = "NOTHING", !.done = TRUE, !.fresh = FALSE]
               stopped == s.hand_state \in {"PENDING_EARLY_DATA_END", "EARLY_DATA"}
               runs == s.in_init \/ stopped
           IN  /\ Off(t, s, {"in_init", "early_data_state", "state", "write_state", "call",
                             "fresh", "rwstate", "done"})
               /\ t.fresh = FALSE
               /\ t.in_init = IF stopped THEN TRUE ELSE s.in_init
               /\ t.early_data_state = IF stopped /\ s.early_data_state = "WRITE_RETRY"
                                       THEN "FINISHED_WRITING" ELSE s.early_data_state
               /\ runs /\ s.state \in {"UNINITED", "FINISHED"}
                     => t.state = "WRITING" /\ t.write_state = "TRANSITION"
               /\ ~(runs /\ s.state \in {"UNINITED", "FINISHED"})
                     => t.state = s.state /\ t.write_state = s.write_state
               /\ runs => t.call = "SSL_do_handshake" /\ t.rwstate = s.rwstate /\ t.done = s.done
               /\ ~runs => t.call = s.call /\ t.rwstate = "NOTHING" /\ t.done = TRUE
BY DEF CheckFinishInit, EnterStateMachine, Off, Fields

\* The record SSL_do_handshake leaves.
Handshaking(s) ==
    LET u == CheckFinishInit(s)
    IN  IF u.in_init THEN [EnterStateMachine(u) EXCEPT !.call = "SSL_do_handshake",
                                                       !.fresh = FALSE]
        ELSE [u EXCEPT !.rwstate = "NOTHING", !.done = TRUE, !.fresh = FALSE]

\* SSL_do_handshake of a client.
LEMMA ClientDoHandshake ==
    ASSUME NEW s, NEW c, Client(s, c), s.call = "none", s.state # "ERROR"
    PROVE  ClientStep(s, Handshaking(s), c)
<1> DEFINE t == Handshaking(s)
<1> SUFFICES ClientStep(s, t, c)
  OBVIOUS
<1> DEFINE
           stopped == s.hand_state \in {"PENDING_EARLY_DATA_END", "EARLY_DATA"}
           runs == s.in_init \/ stopped
<1>1. /\ Off(t, s, {"in_init", "early_data_state", "state", "write_state", "call",
                    "fresh", "rwstate", "done"})
      /\ t.fresh = FALSE
      /\ t.in_init = IF stopped THEN TRUE ELSE s.in_init
      /\ t.early_data_state = IF stopped /\ s.early_data_state = "WRITE_RETRY"
                              THEN "FINISHED_WRITING" ELSE s.early_data_state
      /\ runs /\ s.state \in {"UNINITED", "FINISHED"}
            => t.state = "WRITING" /\ t.write_state = "TRANSITION"
      /\ ~(runs /\ s.state \in {"UNINITED", "FINISHED"})
            => t.state = s.state /\ t.write_state = s.write_state
      /\ runs => t.call = "SSL_do_handshake" /\ t.rwstate = s.rwstate /\ t.done = s.done
      /\ ~runs => t.call = s.call /\ t.rwstate = "NOTHING" /\ t.done = TRUE
  BY DoHandshakeFields DEF Handshaking, Client, Endpoint, Shape
<1> HIDE DEF t
<1>2. Off(t, s, Control)
  BY <1>1, OffMore DEF Control, DataFields, Fields
<1>3. t.hand_state = s.hand_state /\ t.read_state = s.read_state
  BY <1>1 DEF Off, Fields
<1>4. {s.in_init, s.done, s.fresh} \subseteq BOOLEAN
  BY DEF Client, Endpoint, Shape, Flags
<1>5. /\ {t.in_init, t.done, t.fresh} \subseteq BOOLEAN
      /\ t.state \in {"UNINITED", "READING", "WRITING", "FINISHED", "ERROR"}
      /\ t.call \in {"none", "SSL_do_handshake", "SSL_process_quic_post_handshake"}
      /\ t.early_data_state \in {"NONE", "CONNECTING", "WRITE_RETRY", "FINISHED_WRITING"}
      /\ s.done => t.done
  BY <1>1, <1>4 DEF Client, Endpoint, Shape
<1>6. Shape(t) /\ Told(t)
  <2>1. Shape(s) /\ Told(s)
    BY DEF Client, Endpoint
  <2>2. Shape(t)
    BY <1>2, <1>5, <2>1, KeepShape
  <2>3. Told(t)
    BY <1>1, <1>4, <2>1 DEF Told
  <2> QED  BY <2>2, <2>3
<1>7. ClientPlace(t, c)
  <2>1. ClientPlace(s, c)
    BY DEF Client
  <2>2. ClientControl(t)
    BY <1>1, <1>3, <1>4, <2>1 DEF ClientPlace, ClientControl, At
  <2>3. ClientKeys(t)
    BY <1>1, <1>2, <1>3, <1>4, <2>1, SameFields
       DEF ClientPlace, ClientKeys, ClientHellos, ClientReading, ClientWriting, ClientOver,
           ClientControl, At
  <2>4. t.done => t.hand_state \in {"OK", "CR_SESSION_TICKET"}
    <3>1. Told(s)
      BY DEF Client, Endpoint
    <3> QED  BY <1>1, <1>3, <1>4, <2>1, <3>1 DEF ClientPlace, Told, ClientControl, At
  <2>5. t.early_data_state = "WRITE_RETRY" =>
          t.hand_state = "EARLY_DATA" /\ t.state = "FINISHED" /\ t.call = "none"
    BY <1>1, <2>1 DEF ClientPlace
  <2>9. t.early_data_state = "CONNECTING" =>
          \/ t.hand_state = "BEFORE"
          \/ t.hand_state = "CW_CLNT_HELLO" /\ t.state = "WRITING"
          \/ t.hand_state = "EARLY_DATA" /\ (At(t, "WRITING", "PRE_WORK") \/ t.state = "FINISHED")
    BY <1>1, <1>3, <1>4, <2>1 DEF ClientPlace, ClientControl, At
  <2>6. t.flight # <<>> /\ ~(c.defer /\ c.clientEarly = "on") => ClientHolds(t)
    BY <1>1, <1>2, <1>3, <2>1, SameFields DEF ClientPlace, ClientHolds
  <2>7. t.transcript = <<>> => \/ t.hand_state = "BEFORE"
                              \/ /\ t.hand_state = "CW_CLNT_HELLO" /\ t.state = "WRITING"
                                 /\ t.write_state \in {"PRE_WORK", "SEND"}
    BY <1>1, <1>2, <1>3, <2>1, SameFields DEF ClientPlace
  <2>8. At(t, "WRITING", "SEND") =>
          /\ t.msg.has # {"hrr"} /\ t.msg.type # "NEWSESSION_TICKET"
          /\ "early" \in t.msg.has => /\ t.hand_state = "CW_CLNT_HELLO" /\ t.max_early_data
                                      /\ t.early_data_state = "CONNECTING"
    BY <1>1, <1>2, <1>3, <2>1, SameFields DEF ClientPlace, At
  <2> QED  BY <2>2, <2>3, <2>4, <2>5, <2>6, <2>7, <2>8, <2>9 DEF ClientPlace
<1>8. Known(s) => Known(t)
  BY <1>1, <1>2, <1>3, SameFields DEF Known, At
<1> QED  BY <1>2, <1>5, <1>6, <1>7, <1>8, ControlClient

\* SSL_do_handshake of a server.
LEMMA ServerDoHandshake ==
    ASSUME NEW s, NEW c, Server(s, c), s.call = "none", s.state # "ERROR"
    PROVE  ServerStep(s, Handshaking(s), c)
<1> DEFINE t == Handshaking(s)
<1> SUFFICES ServerStep(s, t, c)
  OBVIOUS
<1> DEFINE stopped == s.hand_state \in {"PENDING_EARLY_DATA_END", "EARLY_DATA"}
           runs == s.in_init \/ stopped
<1>1. /\ Off(t, s, {"in_init", "early_data_state", "state", "write_state", "call",
                    "fresh", "rwstate", "done"})
      /\ t.fresh = FALSE
      /\ t.in_init = IF stopped THEN TRUE ELSE s.in_init
      /\ t.early_data_state = IF stopped /\ s.early_data_state = "WRITE_RETRY"
                              THEN "FINISHED_WRITING" ELSE s.early_data_state
      /\ runs /\ s.state \in {"UNINITED", "FINISHED"}
            => t.state = "WRITING" /\ t.write_state = "TRANSITION"
      /\ ~(runs /\ s.state \in {"UNINITED", "FINISHED"})
            => t.state = s.state /\ t.write_state = s.write_state
      /\ runs => t.call = "SSL_do_handshake" /\ t.rwstate = s.rwstate /\ t.done = s.done
      /\ ~runs => t.call = s.call /\ t.rwstate = "NOTHING" /\ t.done = TRUE
  BY DoHandshakeFields DEF Handshaking, Server, Endpoint, Shape
<1> HIDE DEF t
<1>2. Off(t, s, Control)
  BY <1>1, OffMore DEF Control, DataFields, Fields
<1>3. /\ t.hand_state = s.hand_state /\ t.read_state = s.read_state
      /\ t.hello_retry_request = s.hello_retry_request /\ t.early_data = s.early_data
      /\ t.extra_tickets_expected = s.extra_tickets_expected
  BY <1>1 DEF Off, Fields
<1>4. Shape(s) /\ Told(s) /\ ServerPlace(s, c) /\ {s.in_init, s.done, s.fresh} \subseteq BOOLEAN
  BY DEF Server, Endpoint, Shape, Flags
<1>5. /\ {t.in_init, t.done, t.fresh} \subseteq BOOLEAN
      /\ t.state \in {"UNINITED", "READING", "WRITING", "FINISHED", "ERROR"}
      /\ t.call \in {"none", "SSL_do_handshake", "SSL_process_quic_post_handshake"}
      /\ t.early_data_state \in {"NONE", "ACCEPTING", "FINISHED_READING"}
      /\ s.done => t.done
  BY <1>1, <1>4 DEF Server, Shape
<1>6. Shape(t)
  BY <1>2, <1>4, <1>5, KeepShape
<1>7. Told(t)
  BY <1>1, <1>4 DEF Told
<1>8. ServerPlace(t, c)
  <2>1. ServerControl(t)
    BY <1>1, <1>3, <1>4 DEF ServerPlace, ServerControl, At
  <2>2. ServerKeys(t)
    BY <1>1, <1>2, <1>3, <1>4, SameFields
       DEF ServerPlace, ServerKeys, ServerHellos, ServerReading, ServerWriting, ServerOver,
           ServerControl, At
  <2>3. t.done => t.hand_state \in {"OK", "SW_SESSION_TICKET"}
    BY <1>1, <1>3, <1>4 DEF ServerPlace, Told, ServerControl, At
  <2>4. t.flight # <<>> => ServerHolds(t)
    BY <1>1, <1>2, <1>3, <1>4, SameFields DEF ServerPlace, ServerHolds
  <2>5. t.transcript = <<>> => t.hand_state = "BEFORE"
    BY <1>2, <1>3, <1>4, SameFields DEF ServerPlace
  <2>6. At(t, "WRITING", "SEND") /\ t.hand_state = "SW_SESSION_TICKET"
          => t.msg.type = "NEWSESSION_TICKET"
    BY <1>1, <1>2, <1>3, <1>4, SameFields DEF ServerPlace, At
  <2>7. /\ t.hand_state = "BEFORE" => t.secrets = {}
        /\ ssl_encryption_early_data \in t.secrets /\ ssl_encryption_application \notin t.secrets
              => t.state = "WRITING" /\ t.hello_retry_request # "PENDING"
    BY <1>1, <1>2, <1>3, <1>4, SameFields DEF ServerPlace
  <2>8. t.extra_tickets_expected > 0 =>
          /\ t.done /\ t.in_init /\ t.call # "SSL_process_quic_post_handshake"
          /\ ~(t.hand_state = "OK" /\ At(t, "WRITING", "PRE_WORK"))
          /\ ~(t.state = "FINISHED" /\ t.call # "none")
    BY <1>1, <1>3, <1>4 DEF ServerPlace, At
  <2>9. Retrying(t) => t.early_data # "ACCEPTED"
    BY <1>1, <1>3, <1>4 DEF ServerPlace, Retrying, ServerControl, At
  <2> QED  BY <2>1, <2>2, <2>3, <2>4, <2>5, <2>6, <2>7, <2>8, <2>9 DEF ServerPlace
<1>9. t.extra_tickets_expected \in Nat
  BY <1>3 DEF Server
<1> QED  BY <1>2, <1>5, <1>6, <1>7, <1>8, <1>9, ControlServer

\* A call that ends without an error: a client's that wants to read, or could not
\* send or flush.
LEMMA ClientReturn ==
    ASSUME NEW s, NEW c, Client(s, c), s.call # "none", NEW why,
           \/ s.state = "READING"
           \/ s.state = "WRITING" /\ s.write_state = "SEND" /\ why = "RETRY"
           \/ s.state = "WRITING" /\ s.write_state = "POST_WORK" /\ why = "RETRY" /\ Flushes(s)
    PROVE  ClientStep(s, Return(s, why), c)
<1> DEFINE t == Return(s, why)
<1> SUFFICES ClientStep(s, t, c)
  OBVIOUS
<1>1. Shape(s) /\ Told(s) /\ ClientPlace(s, c) /\ {s.in_init, s.done, s.fresh} \subseteq BOOLEAN
  BY DEF Client, Endpoint, Shape, Flags
<1>2. /\ Off(t, s, {"in_init", "call", "rwstate"})
      /\ t.call = "none" /\ t.rwstate = why /\ t.in_init \in BOOLEAN
      /\ ~t.in_init => ~s.in_init \/ s.call = "SSL_process_quic_post_handshake"
  BY <1>1, ReturnFields DEF Shape
<1> HIDE DEF t
<1>3. Off(t, s, Control)
  BY <1>2, OffMore DEF Control, DataFields, Fields
<1>4. /\ t.state = s.state /\ t.hand_state = s.hand_state /\ t.read_state = s.read_state
      /\ t.write_state = s.write_state /\ t.done = s.done /\ t.fresh = s.fresh
      /\ t.early_data_state = s.early_data_state
  BY <1>2 DEF Off, Fields
<1>5. Shape(t)
  BY <1>1, <1>2, <1>3, <1>4, KeepShape DEF Shape
<1>6. Told(t)
  BY <1>1, <1>2, <1>4 DEF Told, ClientPlace, ClientControl, At, ClientWrites
<1>7. ClientPlace(t, c)
  <2>1. ClientControl(t)
    BY <1>1, <1>2, <1>4 DEF ClientPlace, ClientControl, At
  <2> QED  BY <1>1, <1>2, <1>3, <1>4, <2>1, SameFields
           DEF ClientPlace, ClientKeys, ClientHellos, ClientReading, ClientWriting, ClientOver,
               ClientHolds, At
<1>8. Known(s) => Known(t)
  BY <1>1, <1>3, <1>4, SameFields DEF Known, At, Flushes
<1> QED  BY <1>1, <1>3, <1>4, <1>5, <1>6, <1>7, <1>8, ControlClient DEF Client

\* A call of a server returns while it reads, or in SEND or POST_WORK to try
\* again.
LEMMA ServerReturn ==
    ASSUME NEW s, NEW c, Server(s, c), s.call # "none", NEW why,
           \/ s.state = "READING"
           \/ s.state = "WRITING" /\ s.write_state \in {"SEND", "POST_WORK"} /\ why = "RETRY"
    PROVE  ServerStep(s, Return(s, why), c)
<1> DEFINE t == Return(s, why)
<1> SUFFICES ServerStep(s, t, c)
  OBVIOUS
<1>1. Shape(s) /\ Told(s) /\ ServerPlace(s, c) /\ {s.in_init, s.done, s.fresh} \subseteq BOOLEAN
  BY DEF Server, Endpoint, Shape, Flags
<1>2. /\ Off(t, s, {"in_init", "call", "rwstate"})
      /\ t.call = "none" /\ t.rwstate = why /\ t.in_init \in BOOLEAN
      /\ ~t.in_init => ~s.in_init \/ s.call = "SSL_process_quic_post_handshake"
  BY <1>1, ReturnFields DEF Shape
<1> HIDE DEF t
<1>3. Off(t, s, Control)
  BY <1>2, OffMore DEF Control, DataFields, Fields
<1>4. /\ t.state = s.state /\ t.hand_state = s.hand_state /\ t.read_state = s.read_state
      /\ t.write_state = s.write_state /\ t.done = s.done /\ t.fresh = s.fresh
      /\ t.early_data_state = s.early_data_state /\ t.early_data = s.early_data
      /\ t.hello_retry_request = s.hello_retry_request
      /\ t.extra_tickets_expected = s.extra_tickets_expected
  BY <1>2 DEF Off, Fields
<1>5. Shape(t)
  BY <1>1, <1>2, <1>3, <1>4, KeepShape DEF Shape
<1>6. Told(t)
  BY <1>1, <1>2, <1>4 DEF Told, ServerPlace, ServerControl, At, ServerWrites, ServerFlight
<1>7. ServerPlace(t, c)
  <2>1. ServerControl(t)
    BY <1>1, <1>2, <1>4 DEF ServerPlace, ServerControl, At
  <2>2. ServerKeys(t)
    BY <1>1, <1>3, <1>4, SameFields DEF ServerPlace, ServerKeys, ServerHellos, ServerReading,
       ServerWriting, ServerOver
  <2> QED  BY <1>1, <1>2, <1>3, <1>4, <2>1, <2>2, SameFields
           DEF ServerPlace, ServerHolds, At, Retrying
<1> QED  BY <1>1, <1>3, <1>4, <1>5, <1>6, <1>7, ControlServer DEF Server

\* A server that fails keeps what is required of it.
LEMMA FatalServer ==
    ASSUME NEW s, NEW c, Server(s, c)
    PROVE  ServerStep(s, Return(SSLfatal(s), "NOTHING"), c)
<1> DEFINE t == Return(SSLfatal(s), "NOTHING")
<1> SUFFICES ServerStep(s, t, c)
  OBVIOUS
<1>1. /\ Off(t, s, {"state", "in_init", "call", "rwstate"})
      /\ t.state = "ERROR" /\ t.call = "none" /\ t.rwstate = "NOTHING" /\ t.in_init \in BOOLEAN
  BY FatalFields DEF Server, Endpoint, Shape
<1> HIDE DEF t
<1>2. Off(t, s, Control)
  BY <1>1, OffMore DEF Control, DataFields, Fields
<1>3. /\ t.done = s.done /\ t.fresh = s.fresh /\ t.early_data_state = s.early_data_state
      /\ t.extra_tickets_expected = s.extra_tickets_expected
  BY <1>1 DEF Off, Fields
<1>4. Shape(s) /\ {s.in_init, s.done, s.fresh} \subseteq BOOLEAN
  BY DEF Server, Endpoint, Shape, Flags
<1>5. Shape(t)
  BY <1>1, <1>2, <1>3, <1>4, KeepShape
<1>6. Told(t)
  BY <1>1 DEF Told
<1> QED  BY <1>1, <1>2, <1>3, <1>5, <1>6, ControlServer DEF Server

\* SSL_process_quic_post_handshake.
Processing(s) == [EnterStateMachine(s) EXCEPT !.in_init = TRUE,
                     !.call = "SSL_process_quic_post_handshake", !.fresh = FALSE]

\* What SSL_process_quic_post_handshake does to the fields.
LEMMA ProcessingFields ==
    ASSUME NEW s, DOMAIN s = Fields
    PROVE  LET t == Processing(s)
           IN  /\ Off(t, s, {"state", "write_state", "in_init", "call", "fresh"})
               /\ t.in_init = TRUE /\ t.fresh = FALSE
               /\ t.call = "SSL_process_quic_post_handshake"
               /\ IF s.state \in {"UNINITED", "FINISHED"}
                  THEN t.state = "WRITING" /\ t.write_state = "TRANSITION"
                  ELSE t.state = s.state /\ t.write_state = s.write_state
BY DEF Processing, EnterStateMachine, Off, Fields

\* SSL_process_quic_post_handshake of a client.
LEMMA ClientProcess ==
    ASSUME NEW s, NEW c, Client(s, c), s.call = "none", s.state # "ERROR", s.done, ~s.in_init
    PROVE  ClientStep(s, Processing(s), c)
<1> DEFINE t == Processing(s)
<1> SUFFICES ClientStep(s, t, c)
  OBVIOUS
<1>1. Shape(s) /\ Told(s) /\ ClientPlace(s, c) /\ {s.in_init, s.done, s.fresh} \subseteq BOOLEAN
  BY DEF Client, Endpoint, Shape, Flags
<1>2. /\ Off(t, s, {"state", "write_state", "in_init", "call", "fresh"})
      /\ t.in_init = TRUE /\ t.fresh = FALSE
      /\ t.call = "SSL_process_quic_post_handshake"
      /\ IF s.state \in {"UNINITED", "FINISHED"}
         THEN t.state = "WRITING" /\ t.write_state = "TRANSITION"
         ELSE t.state = s.state /\ t.write_state = s.write_state
  BY <1>1, ProcessingFields DEF Shape
<1> HIDE DEF t
<1>3. Off(t, s, Control)
  BY <1>2, OffMore DEF Control, DataFields, Fields
<1>4. /\ t.hand_state = s.hand_state /\ t.read_state = s.read_state /\ t.done = s.done
      /\ t.early_data_state = s.early_data_state
  BY <1>2 DEF Off, Fields
<1>5. /\ s.hand_state = "OK" /\ s.state \in {"READING", "FINISHED"}
      /\ s.state = "READING" => s.read_state = "HEADER"
  BY <1>1 DEF Told, ClientPlace, ClientControl, At, Shape, ClientWrites, ClientReads
<1>6. Shape(t)
  BY <1>1, <1>2, <1>3, <1>4, <1>5, KeepShape
<1>7. Told(t)
  BY <1>1, <1>2, <1>4, <1>5 DEF Told
<1>8. ClientPlace(t, c)
  <2>1. ClientControl(t)
    BY <1>2, <1>4, <1>5 DEF ClientControl, At
  <2>2. ClientKeys(t)
    BY <1>1, <1>3, <1>4, <1>5, SameFields
       DEF ClientPlace, ClientKeys, ClientHellos, ClientReading, ClientWriting, ClientOver,
           ClientReads
  <2> QED  BY <1>1, <1>2, <1>3, <1>4, <1>5, <2>1, <2>2, SameFields
           DEF ClientPlace, ClientHolds, At
<1>9. Known(s) => Known(t)
  BY <1>1, <1>3, <1>4, <1>5, SameFields DEF Known, At
<1> QED  BY <1>1, <1>3, <1>4, <1>6, <1>7, <1>8, <1>9, ControlClient DEF Client

\* SSL_process_quic_post_handshake of a server.
LEMMA ServerProcess ==
    ASSUME NEW s, NEW c, Server(s, c), s.call = "none", s.state # "ERROR", s.done, ~s.in_init
    PROVE  ServerStep(s, Processing(s), c)
<1> DEFINE t == Processing(s)
<1> SUFFICES ServerStep(s, t, c)
  OBVIOUS
<1>1. Shape(s) /\ Told(s) /\ ServerPlace(s, c) /\ {s.in_init, s.done, s.fresh} \subseteq BOOLEAN
  BY DEF Server, Endpoint, Shape, Flags
<1>2. /\ Off(t, s, {"state", "write_state", "in_init", "call", "fresh"})
      /\ t.in_init = TRUE /\ t.fresh = FALSE
      /\ t.call = "SSL_process_quic_post_handshake"
      /\ IF s.state \in {"UNINITED", "FINISHED"}
         THEN t.state = "WRITING" /\ t.write_state = "TRANSITION"
         ELSE t.state = s.state /\ t.write_state = s.write_state
  BY <1>1, ProcessingFields DEF Shape
<1> HIDE DEF t
<1>3. Off(t, s, Control)
  BY <1>2, OffMore DEF Control, DataFields, Fields
<1>4. /\ t.hand_state = s.hand_state /\ t.read_state = s.read_state /\ t.done = s.done
      /\ t.early_data_state = s.early_data_state /\ t.early_data = s.early_data
      /\ t.hello_retry_request = s.hello_retry_request
      /\ t.extra_tickets_expected = s.extra_tickets_expected
  BY <1>2 DEF Off, Fields
<1>5. /\ s.hand_state = "OK" /\ s.state \in {"READING", "FINISHED"}
      /\ s.state = "READING" => s.read_state = "HEADER"
      /\ ~(s.extra_tickets_expected > 0)
  BY <1>1 DEF Told, ServerPlace, ServerControl, At, Shape, ServerWrites, ServerFlight
<1>6. Shape(t)
  BY <1>1, <1>2, <1>3, <1>4, <1>5, KeepShape
<1>7. Told(t)
  BY <1>1, <1>2, <1>4, <1>5 DEF Told
<1>8. ServerPlace(t, c)
  <2>1. ServerControl(t)
    BY <1>2, <1>4, <1>5 DEF ServerControl, At
  <2>2. ServerKeys(t)
    BY <1>1, <1>3, <1>4, <1>5, SameFields
       DEF ServerPlace, ServerKeys, ServerHellos, ServerReading, ServerWriting, ServerOver
  <2> QED  BY <1>1, <1>2, <1>3, <1>4, <1>5, <2>1, <2>2, SameFields
           DEF ServerPlace, ServerHolds, At, Retrying
<1> QED  BY <1>1, <1>3, <1>4, <1>6, <1>7, <1>8, ControlServer DEF Server

\* ReturnDone.
Resting(s) ==
    CASE s.call = "SSL_process_quic_post_handshake" ->
           IF s.quic_input_data = <<>> THEN Return(s, s.rwstate)
           ELSE [EnterStateMachine(s) EXCEPT !.in_init = TRUE]
      [] s.call = "SSL_do_handshake" /\ s.early_data_state = "ACCEPTING" ->
           [MayGoOn(s, "READING") EXCEPT !.early_data_state = "FINISHED_READING"]
      [] s.call = "SSL_do_handshake" /\ s.early_data_state = "CONNECTING" ->
           [MayGoOn(s, "READING") EXCEPT !.early_data_state = "WRITE_RETRY"]
      [] OTHER -> [MayGoOn(s, "NOTHING") EXCEPT !.done = TRUE]

\* What the end of a call (ReturnDone) does to the fields.
LEMMA RestingFields ==
    ASSUME NEW s, Shape(s), s.call # "none", s.state = "FINISHED"
    PROVE  LET t == Resting(s)
               post == s.call = "SSL_process_quic_post_handshake"
               over == ~post /\ s.early_data_state \notin {"ACCEPTING", "CONNECTING"}
           IN  /\ Off(t, s, {"state", "write_state", "in_init", "call", "rwstate", "fresh",
                             "early_data_state", "done"})
               /\ {t.in_init, t.done, t.fresh} \subseteq BOOLEAN
               /\ \/ t.call = "none" /\ t.state = "FINISHED"
                  \/ /\ post /\ t.call = s.call
                     /\ t.state = "WRITING" /\ t.write_state = "TRANSITION" /\ t.in_init
               /\ t.done = (s.done \/ over)
               /\ t.early_data_state =
                     IF post \/ over THEN s.early_data_state
                     ELSE IF s.early_data_state = "ACCEPTING" THEN "FINISHED_READING"
                     ELSE "WRITE_RETRY"
               /\ t.in_init \/ post \/ ~s.in_init
<1> DEFINE t == Resting(s)
           X == {"state", "write_state", "in_init", "call", "rwstate", "fresh",
                 "early_data_state", "done"}
<1>1. /\ DOMAIN s = Fields /\ {s.in_init, s.done, s.fresh} \subseteq BOOLEAN
      /\ s.call \in {"SSL_do_handshake", "SSL_process_quic_post_handshake"}
  BY DEF Shape, Flags
<1>2. CASE s.call = "SSL_process_quic_post_handshake" /\ s.quic_input_data = <<>>
  <2>1. Resting(s) = Return(s, s.rwstate)
    BY <1>2 DEF Resting
  <2>2. Off(t, s, X)
    BY <1>1, <2>1 DEF Return, Off, Fields
  <2>3. /\ t.in_init = FALSE /\ t.done = s.done /\ t.fresh = s.fresh /\ t.call = "none"
        /\ t.state = s.state /\ t.early_data_state = s.early_data_state
    BY <1>1, <1>2, <2>1 DEF Return, Fields
  <2> QED  BY <1>1, <1>2, <2>2, <2>3
<1>3. CASE s.call = "SSL_process_quic_post_handshake" /\ s.quic_input_data # <<>>
  <2>1. Resting(s) = [EnterStateMachine(s) EXCEPT !.in_init = TRUE]
    BY <1>3 DEF Resting
  <2>2. Off(t, s, X)
    BY <1>1, <2>1 DEF EnterStateMachine, Off, Fields
  <2>3. /\ t.in_init = TRUE /\ t.done = s.done /\ t.fresh = s.fresh /\ t.call = s.call
        /\ t.state = "WRITING" /\ t.write_state = "TRANSITION"
        /\ t.early_data_state = s.early_data_state
    BY <1>1, <2>1 DEF EnterStateMachine, Fields
  <2> QED  BY <1>1, <1>3, <2>2, <2>3
<1>4. CASE s.call = "SSL_do_handshake" /\ s.early_data_state = "ACCEPTING"
  <2>1. Resting(s) = [MayGoOn(s, "READING") EXCEPT !.early_data_state = "FINISHED_READING"]
    BY <1>4 DEF Resting
  <2>2. Off(t, s, X)
    BY <1>1, <2>1 DEF MayGoOn, Return, Off, Fields
  <2>3. /\ t.in_init = s.in_init /\ t.done = s.done /\ t.fresh = (s.quic_input_data # <<>>)
        /\ t.call = "none" /\ t.state = s.state /\ t.early_data_state = "FINISHED_READING"
    BY <1>1, <1>4, <2>1 DEF MayGoOn, Return, Fields
  <2> QED  BY <1>1, <1>4, <2>2, <2>3
<1>5. CASE s.call = "SSL_do_handshake" /\ s.early_data_state = "CONNECTING"
  <2>1. Resting(s) = [MayGoOn(s, "READING") EXCEPT !.early_data_state = "WRITE_RETRY"]
    BY <1>5 DEF Resting
  <2>2. Off(t, s, X)
    BY <1>1, <2>1 DEF MayGoOn, Return, Off, Fields
  <2>3. /\ t.in_init = s.in_init /\ t.done = s.done /\ t.fresh = (s.quic_input_data # <<>>)
        /\ t.call = "none" /\ t.state = s.state /\ t.early_data_state = "WRITE_RETRY"
    BY <1>1, <1>5, <2>1 DEF MayGoOn, Return, Fields
  <2> QED  BY <1>1, <1>5, <2>2, <2>3
<1>6. CASE /\ s.call = "SSL_do_handshake"
           /\ s.early_data_state \notin {"ACCEPTING", "CONNECTING"}
  <2>1. Resting(s) = [MayGoOn(s, "NOTHING") EXCEPT !.done = TRUE]
    BY <1>6 DEF Resting
  <2>2. Off(t, s, X)
    BY <1>1, <2>1 DEF MayGoOn, Return, Off, Fields
  <2>3. /\ t.in_init = s.in_init /\ t.done = TRUE /\ t.fresh = (s.quic_input_data # <<>>)
        /\ t.call = "none" /\ t.state = s.state /\ t.early_data_state = s.early_data_state
    BY <1>1, <1>6, <2>1 DEF MayGoOn, Return, Fields
  <2> QED  BY <1>1, <1>6, <2>2, <2>3
<1> QED  BY <1>1, <1>2, <1>3, <1>4, <1>5, <1>6

\* ReturnDone of a client.
LEMMA ClientRest ==
    ASSUME NEW s, NEW c, Client(s, c), s.call # "none", s.state = "FINISHED"
    PROVE  ClientStep(s, Resting(s), c)
<1> DEFINE t == Resting(s)
<1> SUFFICES ClientStep(s, t, c)
  OBVIOUS
<1> DEFINE post == s.call = "SSL_process_quic_post_handshake"
           over == ~post /\ s.early_data_state \notin {"ACCEPTING", "CONNECTING"}
<1>1. Shape(s) /\ Told(s) /\ ClientPlace(s, c) /\ {s.in_init, s.done, s.fresh} \subseteq BOOLEAN
  BY DEF Client, Endpoint, Shape, Flags
<1>2. /\ Off(t, s, {"state", "write_state", "in_init", "call", "rwstate", "fresh",
                    "early_data_state", "done"})
      /\ {t.in_init, t.done, t.fresh} \subseteq BOOLEAN
      /\ \/ t.call = "none" /\ t.state = "FINISHED"
         \/ /\ post /\ t.call = s.call
            /\ t.state = "WRITING" /\ t.write_state = "TRANSITION" /\ t.in_init
      /\ t.done = (s.done \/ over)
      /\ t.early_data_state =
            IF post \/ over THEN s.early_data_state
            ELSE IF s.early_data_state = "ACCEPTING" THEN "FINISHED_READING"
            ELSE "WRITE_RETRY"
      /\ t.in_init \/ post \/ ~s.in_init
  BY <1>1, RestingFields
<1> HIDE DEF t
<1>3. Off(t, s, Control)
  BY <1>2, OffMore DEF Control, DataFields, Fields
<1>4. t.hand_state = s.hand_state /\ t.read_state = s.read_state
  BY <1>2 DEF Off, Fields
<1>5. /\ s.early_data_state \in {"NONE", "CONNECTING", "WRITE_RETRY", "FINISHED_WRITING"}
      /\ \/ s.hand_state = "OK" /\ s.early_data_state \notin {"WRITE_RETRY", "CONNECTING"}
         \/ s.hand_state = "EARLY_DATA" /\ s.early_data_state = "CONNECTING" /\ ~post
  BY <1>1 DEF Client, ClientPlace, ClientControl, At, Told
<1>6. t.early_data_state \in {"NONE", "CONNECTING", "WRITE_RETRY", "FINISHED_WRITING"}
  BY <1>2, <1>5
<1>7. Shape(t)
  BY <1>1, <1>2, <1>3, KeepShape DEF Shape
<1>8. Told(t)
  BY <1>1, <1>2, <1>4, <1>5 DEF Told
<1>9. ClientPlace(t, c)
  <2>1. ClientControl(t)
    BY <1>1, <1>2, <1>4, <1>5 DEF ClientControl, At
  <2>2. ClientKeys(t)
    BY <1>1, <1>3, <1>4, <1>5, SameFields
       DEF ClientPlace, ClientKeys, ClientHellos, ClientReading, ClientWriting, ClientOver,
           ClientReads
  <2>3. t.done => t.hand_state = "OK"
    BY <1>1, <1>2, <1>4, <1>5 DEF ClientPlace
  <2>4. t.early_data_state = "WRITE_RETRY" =>
          t.hand_state = "EARLY_DATA" /\ t.state = "FINISHED" /\ t.call = "none"
    BY <1>2, <1>4, <1>5
  <2>6. t.early_data_state = "CONNECTING" => FALSE
    BY <1>2, <1>5
  <2>5. /\ t.flight = s.flight /\ t.transcript = s.transcript
        /\ (s.flight # <<>> /\ ~(c.defer /\ c.clientEarly = "on") => ClientHolds(s))
        /\ ~ClientHolds(s) /\ s.transcript # <<>> /\ ~At(t, "WRITING", "SEND")
    BY <1>1, <1>2, <1>3, <1>5, SameFields DEF ClientPlace, ClientHolds, At
  <2> QED  BY <2>1, <2>2, <2>3, <2>4, <2>5, <2>6 DEF ClientPlace
<1>10. Known(s) => Known(t)
  BY <1>1, <1>3, <1>5, SameFields DEF Known, At
<1> QED  BY <1>2, <1>3, <1>6, <1>7, <1>8, <1>9, <1>10, ControlClient

\* ReturnDone of a server.
LEMMA ServerRest ==
    ASSUME NEW s, NEW c, Server(s, c), s.call # "none", s.state = "FINISHED"
    PROVE  ServerStep(s, Resting(s), c)
<1> DEFINE t == Resting(s)
<1> SUFFICES ServerStep(s, t, c)
  OBVIOUS
<1> DEFINE post == s.call = "SSL_process_quic_post_handshake"
           over == ~post /\ s.early_data_state \notin {"ACCEPTING", "CONNECTING"}
<1>1. Shape(s) /\ Told(s) /\ ServerPlace(s, c) /\ {s.in_init, s.done, s.fresh} \subseteq BOOLEAN
  BY DEF Server, Endpoint, Shape, Flags
<1>2. /\ Off(t, s, {"state", "write_state", "in_init", "call", "rwstate", "fresh",
                    "early_data_state", "done"})
      /\ {t.in_init, t.done, t.fresh} \subseteq BOOLEAN
      /\ \/ t.call = "none" /\ t.state = "FINISHED"
         \/ /\ post /\ t.call = s.call
            /\ t.state = "WRITING" /\ t.write_state = "TRANSITION" /\ t.in_init
      /\ t.done = (s.done \/ over)
      /\ t.early_data_state =
            IF post \/ over THEN s.early_data_state
            ELSE IF s.early_data_state = "ACCEPTING" THEN "FINISHED_READING"
            ELSE "WRITE_RETRY"
      /\ t.in_init \/ post \/ ~s.in_init
  BY <1>1, RestingFields
<1> HIDE DEF t
<1>3. Off(t, s, Control)
  BY <1>2, OffMore DEF Control, DataFields, Fields
<1>4. /\ t.hand_state = s.hand_state /\ t.read_state = s.read_state
      /\ t.early_data = s.early_data /\ t.hello_retry_request = s.hello_retry_request
      /\ t.extra_tickets_expected = s.extra_tickets_expected
  BY <1>2 DEF Off, Fields
<1>5. /\ s.early_data_state \in {"NONE", "ACCEPTING", "FINISHED_READING"}
      /\ s.extra_tickets_expected \in Nat /\ ~(s.extra_tickets_expected > 0)
      /\ \/ s.hand_state = "OK"
         \/ s.hand_state = "EARLY_DATA" /\ s.early_data_state = "ACCEPTING" /\ ~post
  BY <1>1 DEF Server, ServerPlace, ServerControl, At, Told
<1>6. t.early_data_state \in {"NONE", "ACCEPTING", "FINISHED_READING"}
  BY <1>2, <1>5
<1>7. Shape(t)
  BY <1>1, <1>2, <1>3, KeepShape DEF Shape
<1>8. Told(t)
  BY <1>1, <1>2, <1>4, <1>5 DEF Told
<1>9. ServerPlace(t, c)
  <2>1. ServerControl(t)
    BY <1>1, <1>2, <1>4, <1>5 DEF ServerControl, At
  <2>2. ServerKeys(t)
    BY <1>1, <1>3, <1>4, <1>5, SameFields
       DEF ServerPlace, ServerKeys, ServerHellos, ServerReading, ServerWriting, ServerOver,
           ServerFlight
  <2>3. t.done => t.hand_state = "OK"
    BY <1>1, <1>2, <1>4, <1>5 DEF ServerPlace
  <2>4. /\ t.flight = <<>> /\ t.transcript # <<>> /\ ~At(t, "WRITING", "SEND")
        /\ t.hand_state # "BEFORE" /\ ~(t.extra_tickets_expected > 0)
        /\ ~(/\ ssl_encryption_early_data \in t.secrets
             /\ ssl_encryption_application \notin t.secrets)
    BY <1>1, <1>2, <1>3, <1>4, <1>5, SameFields DEF ServerPlace, ServerHolds, At
  <2>5. Retrying(t) => t.early_data # "ACCEPTED"
    BY <1>1, <1>2, <1>4, <1>5 DEF ServerPlace, Retrying
  <2> QED  BY <2>1, <2>2, <2>3, <2>4, <2>5 DEF ServerPlace
<1> QED  BY <1>2, <1>3, <1>4, <1>5, <1>6, <1>7, <1>8, <1>9, ControlServer

\* WriteNext, when it does not fail.
WritingOn(s, next) ==
    IF next = "FINISHED" THEN [s EXCEPT !.state = "READING", !.read_state = "HEADER"]
    ELSE [s EXCEPT !.hand_state = next, !.write_state = "PRE_WORK"]

\* What write_transition does to the fields.
LEMMA WritingOnFields ==
    ASSUME NEW s, DOMAIN s = Fields, NEW next
    PROVE  LET t == WritingOn(s, next)
           IN  /\ Off(t, s, {"state", "read_state", "hand_state", "write_state"})
               /\ IF next = "FINISHED"
                  THEN /\ t.state = "READING" /\ t.read_state = "HEADER"
                       /\ t.hand_state = s.hand_state /\ t.write_state = s.write_state
                  ELSE /\ t.state = s.state /\ t.read_state = s.read_state
                       /\ t.hand_state = next /\ t.write_state = "PRE_WORK"
BY DEF WritingOn, Off, Fields

\* write_transition of a client.
LEMMA ClientWriteOn ==
    ASSUME NEW s, NEW c, Client(s, c), s.call # "none", At(s, "WRITING", "TRANSITION"),
           ClientWriteTransition(s) # "ERROR"
    PROVE  ClientStep(s, WritingOn(s, ClientWriteTransition(s)), c)
<1> DEFINE next == ClientWriteTransition(s)
           t == WritingOn(s, next)
<1> SUFFICES ClientStep(s, t, c)
  OBVIOUS
<1>1. Shape(s) /\ Told(s) /\ ClientPlace(s, c) /\ {s.in_init, s.done, s.fresh} \subseteq BOOLEAN
  BY DEF Client, Endpoint, Shape, Flags, At
<1>2. /\ Off(t, s, {"state", "read_state", "hand_state", "write_state"})
      /\ IF next = "FINISHED"
         THEN /\ t.state = "READING" /\ t.read_state = "HEADER"
              /\ t.hand_state = s.hand_state /\ t.write_state = s.write_state
         ELSE /\ t.state = s.state /\ t.read_state = s.read_state
              /\ t.hand_state = next /\ t.write_state = "PRE_WORK"
  BY <1>1, WritingOnFields DEF Shape
<1> HIDE DEF t
<1>3. Off(t, s, Control)
  BY <1>2, OffMore DEF Control, DataFields, Fields
<1>4. /\ t.in_init = s.in_init /\ t.done = s.done /\ t.fresh = s.fresh /\ t.call = s.call
      /\ t.early_data_state = s.early_data_state /\ t.rwstate = s.rwstate
  BY <1>2 DEF Off, Fields
\* Where the client goes from where.
<1>5. \/ s.hand_state = "BEFORE" /\ next = "CW_CLNT_HELLO"
      \/ s.hand_state = "CW_CLNT_HELLO" /\ s.early_data_state = "CONNECTING"
         /\ next = "EARLY_DATA"
      \/ s.hand_state = "CW_CLNT_HELLO" /\ s.early_data_state # "CONNECTING"
         /\ next = "FINISHED"
      \/ s.hand_state = "CR_SRVR_HELLO" /\ next = "CW_CLNT_HELLO"
      \/ s.hand_state \in {"EARLY_DATA", "OK"} /\ next = "FINISHED"
      \/ /\ s.hand_state \in {"CR_FINISHED", "PENDING_EARLY_DATA_END", "CW_END_OF_EARLY_DATA",
                              "CW_CERT", "CW_CERT_VRFY"}
         /\ next \in {"PENDING_EARLY_DATA_END", "CW_END_OF_EARLY_DATA", "CW_CERT",
                      "CW_CERT_VRFY", "CW_FINISHED"}
         /\ s.hand_state \in {"CW_CERT", "CW_CERT_VRFY"} => next \in ClientWrites
      \/ s.hand_state \in {"CW_FINISHED", "CR_SESSION_TICKET"} /\ next = "OK"
  BY DEF ClientWriteTransition, CertOrFinished, ClientWrites
<1> HIDE DEF next
<1>6. Shape(t)
  BY <1>1, <1>2, <1>3, <1>4, KeepShape DEF Shape, At
<1>7. Told(t)
  BY <1>1, <1>2, <1>4, <1>5 DEF Told, ClientPlace, At
<1>8. ClientPlace(t, c)
  <2>1. ClientControl(t)
    BY <1>1, <1>2, <1>4, <1>5 DEF ClientControl, At, ClientWrites
  <2>2. ClientKeys(t)
    BY <1>1, <1>2, <1>3, <1>5, SameFields
       DEF ClientPlace, ClientKeys, ClientHellos, ClientReading, ClientWriting, ClientOver,
           ClientReads, At
  <2>3. /\ t.done => t.hand_state \in {"OK", "CR_SESSION_TICKET"}
        /\ t.early_data_state # "WRITE_RETRY"
    BY <1>1, <1>2, <1>4, <1>5 DEF ClientPlace, At
  <2>4. t.early_data_state = "CONNECTING" =>
          \/ t.hand_state = "CW_CLNT_HELLO" /\ t.state = "WRITING"
          \/ t.hand_state = "EARLY_DATA" /\ At(t, "WRITING", "PRE_WORK")
    BY <1>1, <1>2, <1>4, <1>5 DEF ClientPlace, At
  <2>5. t.flight # <<>> /\ ~(c.defer /\ c.clientEarly = "on") => ClientHolds(t)
    BY <1>1, <1>2, <1>3, <1>5, SameFields DEF ClientPlace, ClientHolds, At, ClientWrites
  <2>6. /\ t.transcript = <<>> => /\ t.hand_state = "CW_CLNT_HELLO" /\ t.state = "WRITING"
                                  /\ t.write_state \in {"PRE_WORK", "SEND"}
        /\ ~At(t, "WRITING", "SEND")
    BY <1>1, <1>2, <1>3, <1>5, SameFields DEF ClientPlace, At
  <2> QED  BY <2>1, <2>2, <2>3, <2>4, <2>5, <2>6 DEF ClientPlace
<1>9. Known(s) => Known(t)
  BY <1>1, <1>3, SameFields DEF Known, At
<1> QED  BY <1>1, <1>3, <1>4, <1>6, <1>7, <1>8, <1>9, ControlClient DEF Client

\* write_transition of a server.
LEMMA ServerWriteOn ==
    ASSUME NEW s, NEW c, Server(s, c), s.call # "none", At(s, "WRITING", "TRANSITION"),
           ServerWriteTransition(s, c) # "ERROR"
    PROVE  ServerStep(s, WritingOn(s, ServerWriteTransition(s, c)), c)
<1> DEFINE next == ServerWriteTransition(s, c)
           t == WritingOn(s, next)
<1> SUFFICES ServerStep(s, t, c)
  OBVIOUS
<1>1. Shape(s) /\ Told(s) /\ ServerPlace(s, c) /\ {s.in_init, s.done, s.fresh} \subseteq BOOLEAN
  BY DEF Server, Endpoint, Shape, Flags, At
<1>2. /\ Off(t, s, {"state", "read_state", "hand_state", "write_state"})
      /\ IF next = "FINISHED"
         THEN /\ t.state = "READING" /\ t.read_state = "HEADER"
              /\ t.hand_state = s.hand_state /\ t.write_state = s.write_state
         ELSE /\ t.state = s.state /\ t.read_state = s.read_state
              /\ t.hand_state = next /\ t.write_state = "PRE_WORK"
  BY <1>1, WritingOnFields DEF Shape
<1> HIDE DEF t
<1>3. Off(t, s, Control)
  BY <1>2, OffMore DEF Control, DataFields, Fields
<1>4. /\ t.in_init = s.in_init /\ t.done = s.done /\ t.fresh = s.fresh /\ t.call = s.call
      /\ t.early_data_state = s.early_data_state /\ t.rwstate = s.rwstate
      /\ t.early_data = s.early_data /\ t.hello_retry_request = s.hello_retry_request
      /\ t.extra_tickets_expected = s.extra_tickets_expected
  BY <1>2 DEF Off, Fields
\* Where the server goes from where.
<1>5. \/ s.hand_state \in {"BEFORE", "EARLY_DATA"} /\ next = "FINISHED"
      \/ s.hand_state = "SR_CLNT_HELLO" /\ next = "SW_SRVR_HELLO"
      \/ s.hand_state = "SW_SRVR_HELLO" /\ s.hello_retry_request = "PENDING"
         /\ next = "EARLY_DATA"
      \/ s.hand_state = "SW_SRVR_HELLO" /\ s.hello_retry_request # "PENDING"
         /\ next = "SW_ENCRYPTED_EXTENSIONS"
      \/ s.hand_state \in ServerFlight /\ next \in ServerFlight \union {"SW_FINISHED"}
      \/ s.hand_state = "SW_FINISHED" /\ next = "EARLY_DATA"
      \/ s.hand_state = "SR_FINISHED" /\ next \in {"SW_SESSION_TICKET", "OK"}
      \/ s.hand_state = "SW_SESSION_TICKET" /\ next = "SW_SESSION_TICKET"
      \/ s.hand_state = "SW_SESSION_TICKET" /\ ~(s.extra_tickets_expected > 0) /\ next = "OK"
      \/ s.hand_state = "OK" /\ s.extra_tickets_expected > 0 /\ next = "SW_SESSION_TICKET"
      \/ s.hand_state = "OK" /\ ~(s.extra_tickets_expected > 0) /\ next = "FINISHED"
  BY DEF ServerWriteTransition, ServerFlight
<1> HIDE DEF next
<1>6. Shape(t)
  BY <1>1, <1>2, <1>3, <1>4, KeepShape DEF Shape, At
<1>7. Told(t)
  BY <1>1, <1>2, <1>4, <1>5 DEF Told, ServerPlace, At, ServerFlight
<1>8. ServerPlace(t, c)
  <2>1. ServerControl(t)
    BY <1>1, <1>2, <1>4, <1>5 DEF ServerControl, At, ServerWrites, ServerFlight
  <2>2. ServerKeys(t)
    BY <1>1, <1>2, <1>3, <1>4, <1>5, SameFields
       DEF ServerPlace, ServerKeys, ServerHellos, ServerReading, ServerWriting, ServerOver,
           ServerFlight, At
  <2>3. t.done => t.hand_state \in {"OK", "SW_SESSION_TICKET"}
    BY <1>1, <1>2, <1>4, <1>5 DEF ServerPlace, At, ServerFlight
  <2>4. t.flight # <<>> => ServerHolds(t)
    BY <1>1, <1>2, <1>3, <1>4, <1>5, SameFields DEF ServerPlace, ServerHolds, At, ServerFlight
  <2>5. t.extra_tickets_expected > 0 =>
          /\ t.done /\ t.in_init /\ t.call # "SSL_process_quic_post_handshake"
          /\ ~(t.hand_state = "OK" /\ At(t, "WRITING", "PRE_WORK"))
          /\ ~(t.state = "FINISHED" /\ t.call # "none")
    BY <1>1, <1>2, <1>4, <1>5 DEF ServerPlace, At, ServerFlight
  <2>6. /\ t.transcript = <<>> => t.hand_state = "BEFORE"
        /\ ~At(t, "WRITING", "SEND")
        /\ t.hand_state = "BEFORE" => t.secrets = {}
    BY <1>1, <1>2, <1>3, <1>5, SameFields DEF ServerPlace, At, ServerFlight
  <2>7. ssl_encryption_early_data \in t.secrets /\ ssl_encryption_application \notin t.secrets
          => t.state = "WRITING" /\ t.hello_retry_request # "PENDING"
    BY <1>1, <1>2, <1>3, <1>4, <1>5, SameFields
       DEF ServerPlace, At, ServerKeys, ServerHellos, ServerReading, ServerOver, Protected,
           ServerFlight
  <2>8. Retrying(t) => t.early_data # "ACCEPTED"
    BY <1>1, <1>2, <1>4, <1>5 DEF ServerPlace, ServerFlight, Retrying, At
  <2> QED  BY <2>1, <2>2, <2>3, <2>4, <2>5, <2>6, <2>7, <2>8 DEF ServerPlace
<1>9. t.extra_tickets_expected \in Nat
  BY <1>4 DEF Server
<1> QED  BY <1>1, <1>3, <1>4, <1>6, <1>7, <1>8, <1>9, ControlServer DEF Server

\* SSL_new_session_ticket.
Asking(s) == [s EXCEPT !.extra_tickets_expected = @ + 1, !.in_init = TRUE, !.rwstate = "RETRY"]

\* SSL_new_session_ticket.
LEMMA ServerAsk ==
    ASSUME NEW s, NEW c, Server(s, c), s.call = "none", s.done, s.state # "ERROR"
    PROVE  ServerStep(s, Asking(s), c)
<1> DEFINE t == Asking(s)
<1> SUFFICES ServerStep(s, t, c)
  OBVIOUS
<1>1. Shape(s) /\ Told(s) /\ ServerPlace(s, c) /\ {s.in_init, s.done, s.fresh} \subseteq BOOLEAN
  BY DEF Server, Endpoint, Shape, Flags
<1>2. /\ Off(t, s, {"extra_tickets_expected", "in_init", "rwstate"})
      /\ t.in_init = TRUE /\ t.rwstate = "RETRY"
      /\ t.extra_tickets_expected = s.extra_tickets_expected + 1
  BY <1>1 DEF Asking, Off, Fields, Shape
<1> HIDE DEF t
<1>3. Off(t, s, Control)
  BY <1>2, OffMore DEF Control, DataFields, Fields
<1>4. /\ t.state = s.state /\ t.hand_state = s.hand_state /\ t.read_state = s.read_state
      /\ t.write_state = s.write_state /\ t.done = s.done /\ t.fresh = s.fresh
      /\ t.call = s.call /\ t.early_data_state = s.early_data_state
      /\ t.early_data = s.early_data /\ t.hello_retry_request = s.hello_retry_request
  BY <1>2 DEF Off, Fields
<1>5. t.extra_tickets_expected \in Nat
  BY <1>2 DEF Server
<1>6. Shape(t)
  <2>1. /\ {t.in_init, t.done, t.fresh} \subseteq BOOLEAN
        /\ t.state \in {"UNINITED", "READING", "WRITING", "FINISHED", "ERROR"}
        /\ t.call \in {"none", "SSL_do_handshake", "SSL_process_quic_post_handshake"}
    BY <1>1, <1>2, <1>4 DEF Shape
  <2> QED  BY <1>1, <1>3, <2>1, KeepShape
<1>7. Told(t)
  BY <1>1, <1>2, <1>4 DEF Told
<1>8. ServerPlace(t, c)
  <2>1. ServerControl(t)
    BY <1>1, <1>4 DEF ServerPlace, ServerControl, At
  <2>2. ServerKeys(t)
    BY <1>1, <1>3, <1>4, SameFields DEF ServerPlace, ServerKeys, ServerHellos, ServerReading,
       ServerWriting, ServerOver
  <2>3. /\ t.done /\ t.in_init /\ t.call # "SSL_process_quic_post_handshake"
        /\ ~(t.hand_state = "OK" /\ At(t, "WRITING", "PRE_WORK"))
        /\ ~(t.state = "FINISHED" /\ t.call # "none")
    BY <1>1, <1>2, <1>4 DEF ServerPlace, ServerControl, At
  <2> QED  BY <1>1, <1>3, <1>4, <2>1, <2>2, <2>3, SameFields
           DEF ServerPlace, ServerHolds, At, Retrying
<1> QED  BY <1>1, <1>3, <1>4, <1>5, <1>6, <1>7, <1>8, ControlServer DEF Server

-----------------------------------------------------------------------------
(* Sequences and data *)

\* The rest of a sequence.
LEMMA TailOf ==
    ASSUME NEW S, NEW q \in Seq(S), q # <<>>
    PROVE  /\ q[1] \in S /\ Tail(q) \in Seq(S) /\ 1 \in 1 .. Len(q)
           /\ \A i \in 1 .. Len(Tail(q)) : i + 1 \in 1 .. Len(q) /\ Tail(q)[i] = q[i + 1]
OBVIOUS

\* A sequence with one element more.
LEMMA AppendTo ==
    ASSUME NEW S, NEW q \in Seq(S), NEW e \in S
    PROVE  /\ Append(q, e) \in Seq(S) /\ Append(q, e) # <<>>
           /\ \A i \in 1 .. Len(Append(q, e)) :
                 (i \in 1 .. Len(q) /\ Append(q, e)[i] = q[i]) \/ Append(q, e)[i] = e
OBVIOUS

\* Two sequences joined.
LEMMA JoinOf ==
    ASSUME NEW S, NEW q \in Seq(S), NEW r \in Seq(S), NEW x, x = q \o r
    PROVE  /\ x \in Seq(S)
           /\ \A i \in 1 .. Len(x) : \/ i \in 1 .. Len(q) /\ x[i] = q[i]
                                   \/ \E j \in 1 .. Len(r) : x[i] = r[j]
<1>1. /\ x \in Seq(S) /\ Len(x) = Len(q) + Len(r)
      /\ \A i \in 1 .. Len(q) + Len(r) : x[i] = IF i <= Len(q) THEN q[i] ELSE r[i - Len(q)]
  BY ConcatProperties, Zenon
<1>2. Len(q) \in Nat /\ Len(r) \in Nat
  OBVIOUS
<1>3. ASSUME NEW i \in 1 .. Len(x)
      PROVE  (i \in 1 .. Len(q) /\ x[i] = q[i]) \/ \E j \in 1 .. Len(r) : x[i] = r[j]
  <2>1. CASE i <= Len(q)
    BY <1>1, <1>2, <2>1
  <2>2. CASE ~(i <= Len(q))
    <3>1. i - Len(q) \in 1 .. Len(r) /\ x[i] = r[i - Len(q)]
      BY <1>1, <1>2, <2>2
    <3> QED  BY <3>1
  <2> QED  BY <2>1, <2>2
<1> QED  BY <1>1, <1>3

\* A sequence without one of its elements.
LEMMA RemoveFrom ==
    ASSUME NEW S, NEW q \in Seq(S), NEW k \in 1 .. Len(q)
    PROVE  /\ RemoveAt(q, k) \in Seq(S)
           /\ \A i \in 1 .. Len(RemoveAt(q, k)) :
                 \E j \in 1 .. Len(q) : RemoveAt(q, k)[i] = q[j]
<1> DEFINE a == SubSeq(q, 1, k - 1)
           b == SubSeq(q, k + 1, Len(q))
<1>0. Len(q) \in Nat /\ \A i \in 1 .. Len(q) : q[i] \in S
  OBVIOUS
<1>1. a \in Seq(S) /\ \A i \in 1 .. Len(a) : i \in 1 .. Len(q) /\ a[i] = q[i]
  <2>1. \A i \in 1 .. k - 1 : q[i] \in S
    BY <1>0
  <2>2. /\ a \in Seq(S) /\ Len(a) = IF 1 <= k - 1 THEN k - 1 - 1 + 1 ELSE 0
        /\ \A i \in 1 .. k - 1 - 1 + 1 : a[i] = q[1 + i - 1]
    BY <2>1, SubSeqProperties
  <2> HIDE DEF a
  <2> QED  BY <1>0, <2>2
<1>2. b \in Seq(S) /\ \A i \in 1 .. Len(b) : k + i \in 1 .. Len(q) /\ b[i] = q[k + i]
  <2>1. \A i \in k + 1 .. Len(q) : q[i] \in S
    BY <1>0
  <2>2. /\ b \in Seq(S) /\ Len(b) = IF k + 1 <= Len(q) THEN Len(q) - (k + 1) + 1 ELSE 0
        /\ \A i \in 1 .. Len(q) - (k + 1) + 1 : b[i] = q[k + 1 + i - 1]
    BY <1>0, <2>1, SubSeqProperties
  <2> HIDE DEF b
  <2> QED  BY <1>0, <2>2
<1>3. RemoveAt(q, k) = a \o b
  BY DEF RemoveAt
<1> HIDE DEF a, b
<1> DEFINE r == RemoveAt(q, k)
<1> HIDE DEF r
<1>4. /\ r \in Seq(S)
      /\ \A i \in 1 .. Len(r) : \/ i \in 1 .. Len(a) /\ r[i] = a[i]
                              \/ \E j \in 1 .. Len(b) : r[i] = b[j]
  <2>1. a \in Seq(S) /\ b \in Seq(S) /\ r = a \o b
    BY <1>1, <1>2, <1>3 DEF r
  <2>2. r \in Seq(S)
    BY <2>1, JoinOf
  <2>3. \A i \in 1 .. Len(r) : (i \in 1 .. Len(a) /\ r[i] = a[i]) \/ \E j \in 1 .. Len(b) : r[i] = b[j]
    BY <2>1, JoinOf
  <2> QED  BY <2>2, <2>3
<1>5. \A i \in 1 .. Len(r) : \E j \in 1 .. Len(q) : r[i] = q[j]
  BY <1>1, <1>2, <1>4
<1> QED  BY <1>4, <1>5 DEF r

\* The hash that a retry starts the transcript with.
LEMMA Hash ==
    ASSUME NEW q \in Seq(Kinds), q # <<>>
    PROVE  MessageHash(q) \in Seq(Kinds) /\ MessageHash(q) # <<>>
<1> DEFINE x == q[1].has
           y == "message_hash"
<1>0. q[1] \in Kinds
  BY TailOf
<1>1. x \in SUBSET Facts /\ y \in Types
  <2>1. ASSUME NEW e \in Kinds PROVE e.has \in SUBSET Facts
    BY DEF Kinds
  <2>2. y \in Types
    BY DEF Types
  <2> QED  BY <1>0, <2>1, <2>2
<1> HIDE DEF x, y
<1>2. [type |-> y, has |-> x] \in Kinds
  BY <1>1 DEF Kinds
<1> QED  BY <1>2 DEF MessageHash, x, y

\* What the transcript has of a message.
LEMMA EntryOf ==
    ASSUME NEW m \in Messages
    PROVE  Entry(m) \in Kinds
BY DEF Entry, Messages, Kinds

\* A step that keeps the flight.
LEMMA KeepData ==
    ASSUME NEW s, NEW t, NEW c, Data(s, c), t.flight = s.flight,
           s.secrets \subseteq t.secrets, t.secrets \subseteq Level,
           t.quic_read_level \in Level, t.quic_write_level \in Level,
           CanDecrypt(t, t.quic_read_level), CanDecrypt(t, t.quic_write_level),
           t.quic_input_data \in Seq(Entries), t.transcript \in Seq(Kinds),
           t.msg \in Messages, t.clienthello \subseteq Facts
    PROVE  Data(t, c)
BY DEF Data, CanDecrypt

\* What a client holds back stays fit to be sent.
LEMMA KeepFlight ==
    ASSUME NEW s, NEW t, NEW c, Client(s, c), t.flight = s.flight, Known(s) => Known(t)
    PROVE  \A i \in 1 .. Len(t.flight) : FromClient(t.flight[i], t)
BY DEF Client, FromClient

-----------------------------------------------------------------------------
(* Reading *)

\* The record that process_message works on, and what ReadMessage leaves.
Body(s, next) == [quic_get_message_body(s, s.quic_input_data[1].msg) EXCEPT !.hand_state = next]
Received(s, next) ==
    LET u == ProcessMessage(Body(s, next), s.quic_input_data[1].msg)
    IN  IF u.state = "ERROR" THEN Return(u, "NOTHING") ELSE u

\* The fields after quic_get_message_body and read_transition.
LEMMA BodyFields ==
    ASSUME NEW s, DOMAIN s = Fields, NEW next
    PROVE  LET b == Body(s, next)
               m == s.quic_input_data[1].msg
           IN  /\ Off(b, s, {"quic_input_data", "msg", "transcript", "hand_state"})
               /\ b.hand_state = next /\ b.msg = m /\ b.quic_input_data = Tail(s.quic_input_data)
               /\ b.transcript = IF m.type = "NEWSESSION_TICKET" \/ m.has = {"hrr"}
                                 THEN s.transcript ELSE Append(s.transcript, Entry(m))
BY DEF Body, quic_get_message_body, Off, Fields

\* What is read has its type.
LEMMA BodyTypes ==
    ASSUME NEW s, NEW c, Data(s, c), s.quic_input_data # <<>>
    PROVE  LET m == s.quic_input_data[1].msg
           IN  /\ m \in Messages /\ Entry(m) \in Kinds
               /\ Tail(s.quic_input_data) \in Seq(Entries)
               /\ Append(s.transcript, Entry(m)) \in Seq(Kinds)
               /\ Append(s.transcript, Entry(m)) # <<>>
<1> DEFINE e == s.quic_input_data[1]
<1>1. s.quic_input_data \in Seq(Entries) /\ s.transcript \in Seq(Kinds)
  BY DEF Data
<1>2. e \in Entries /\ Tail(s.quic_input_data) \in Seq(Entries)
  BY <1>1, TailOf
<1> HIDE DEF e
<1>3. e.msg \in Messages
  BY <1>2 DEF Entries
<1>4. Entry(e.msg) \in Kinds
  BY <1>3, EntryOf
<1>5. /\ Append(s.transcript, Entry(e.msg)) \in Seq(Kinds)
      /\ Append(s.transcript, Entry(e.msg)) # <<>>
  BY <1>1, <1>4, AppendTo
<1> QED  BY <1>2, <1>3, <1>4, <1>5 DEF e

\* What reading may change.
ReadFields == {"quic_input_data", "msg", "transcript", "hand_state", "read_state", "state",
               "write_state", "hello_retry_request", "hit", "secrets", "quic_read_level",
               "quic_write_level", "early_data", "cert_req", "tickets_received", "clienthello",
               "cleanuphand", "in_init", "call", "rwstate", "ticket_expected"}

\* What no process_message changes.
LEMMA ReadKeeps ==
    ASSUME NEW s, NEW t, Off(t, s, ReadFields)
    PROVE  /\ DOMAIN t = Fields
           /\ t.server = s.server /\ t.done = s.done /\ t.fresh = s.fresh
           /\ t.flight = s.flight /\ t.early_data_state = s.early_data_state
           /\ t.max_early_data = s.max_early_data
           /\ t.extra_tickets_expected = s.extra_tickets_expected
BY DEF Off, Fields, ReadFields

\* A step of a client that reads.
LEMMA ReadClient ==
    ASSUME NEW s, NEW t, NEW c, Client(s, c), Off(t, s, ReadFields),
           t.quic_input_data \in Seq(Entries), t.msg \in Messages, t.transcript \in Seq(Kinds),
           t.clienthello = s.clienthello, {t.hit, t.in_init} \subseteq BOOLEAN,
           t.state \in {"UNINITED", "READING", "WRITING", "FINISHED", "ERROR"},
           t.call \in {"none", "SSL_do_handshake", "SSL_process_quic_post_handshake"},
           s.done => t.transcript = s.transcript /\ t.hit = s.hit,
           s.secrets \subseteq t.secrets, t.secrets \subseteq Level,
           t.quic_read_level \in Level, t.quic_write_level \in Level,
           t.quic_read_level >= s.quic_read_level, t.quic_write_level >= s.quic_write_level,
           CanDecrypt(t, t.quic_read_level), CanDecrypt(t, t.quic_write_level),
           Told(t), Known(s) => Known(t), t.state # "ERROR" => ClientPlace(t, c)
    PROVE  ClientStep(s, t, c)
<1>1. /\ DOMAIN t = Fields
      /\ t.server = s.server /\ t.done = s.done /\ t.fresh = s.fresh
      /\ t.flight = s.flight /\ t.early_data_state = s.early_data_state
      /\ t.max_early_data = s.max_early_data
  BY ReadKeeps
<1>2. Shape(s) /\ Data(s, c)
  BY DEF Client, Endpoint
<1>3. Shape(t)
  BY <1>1, <1>2 DEF Shape, Flags
<1>4. Data(t, c)
  <2>1. t.clienthello \subseteq Facts
    BY <1>2 DEF Data
  <2> QED  BY <1>1, <1>2, <2>1, KeepData
<1>5. \A i \in 1 .. Len(t.flight) : FromClient(t.flight[i], t)
  BY <1>1, KeepFlight
<1>6. Forward(s, t)
  BY <1>1 DEF Forward
<1> QED  BY <1>1, <1>3, <1>4, <1>5, <1>6 DEF ClientStep, Client, Endpoint

\* What process_message does with the record b in the states of a client.
LEMMA RetryFields ==
    ASSUME NEW b, DOMAIN b = Fields, b.hand_state = "CR_SRVR_HELLO", NEW m, m.has = {"hrr"}
    PROVE  LET u == ProcessMessage(b, m)
           IN  IF b.hello_retry_request # "NONE" THEN u = SSLfatal(b)
               ELSE /\ Off(u, b, {"hello_retry_request", "transcript", "read_state", "state",
                                  "write_state"})
                    /\ u.transcript = Append(MessageHash(b.transcript), Entry(m))
                    /\ u.state = "WRITING" /\ u.write_state = "TRANSITION"
<1>1. ProcessMessage(b, m) = ProcessHelloRetryRequest(b, m)
  BY DEF ProcessMessage
<1> QED  BY <1>1 DEF ProcessHelloRetryRequest, FINISHED_READING, Off, Fields

\* process_message of a ServerHello.
LEMMA ServerHelloFields ==
    ASSUME NEW b, DOMAIN b = Fields, b.hand_state = "CR_SRVR_HELLO", NEW m, m.has # {"hrr"},
           b.server = FALSE
    PROVE  LET u == ProcessMessage(b, m)
           IN  /\ Off(u, b, {"hit", "secrets", "quic_read_level", "quic_write_level",
                             "read_state"})
               /\ u.hit \in BOOLEAN /\ u.secrets = b.secrets \cup {ssl_encryption_handshake}
               /\ u.quic_read_level = ssl_encryption_handshake
               /\ u.quic_write_level = IF b.early_data_state = "NONE"
                                       THEN ssl_encryption_handshake ELSE b.quic_write_level
               /\ u.read_state = "HEADER"
<1>1. ProcessMessage(b, m) = ProcessServerHello(b, m)
  BY DEF ProcessMessage
<1>2. ssl_encryption_handshake # ssl_encryption_early_data
  BY DEF ssl_encryption_handshake, ssl_encryption_early_data
<1> DEFINE x == "psk" \in m.has
           v == [b EXCEPT !.hit = x]
           w == [v EXCEPT !.secrets = @ \cup {ssl_encryption_handshake}]
           r == [w EXCEPT !.quic_read_level = ssl_encryption_handshake]
           z == [r EXCEPT !.quic_write_level = ssl_encryption_handshake]
<1>3. quic_change_cipher_state(v, ssl_encryption_handshake, "read") = r
  BY <1>2 DEF quic_change_cipher_state, Fields
<1>4. quic_change_cipher_state(r, ssl_encryption_handshake, "write") = z
  BY <1>2 DEF quic_change_cipher_state, Fields
<1> DEFINE y == IF b.early_data_state = "NONE" THEN z ELSE r
<1>5. ProcessServerHello(b, m) = CONTINUE_READING(y)
  <2> HIDE DEF r, z
  <2> QED  BY <1>3, <1>4 DEF ProcessServerHello, v, x, y
<1>6. x \in BOOLEAN
  OBVIOUS
<1> HIDE DEF x
<1>7. /\ Off(y, b, {"hit", "secrets", "quic_read_level", "quic_write_level"})
      /\ y.hit \in BOOLEAN /\ y.secrets = b.secrets \cup {ssl_encryption_handshake}
      /\ y.quic_read_level = ssl_encryption_handshake
      /\ y.quic_write_level = IF b.early_data_state = "NONE"
                              THEN ssl_encryption_handshake ELSE b.quic_write_level
  BY <1>6 DEF Off, Fields
<1> HIDE DEF y
<1> QED  BY <1>1, <1>5, <1>7 DEF CONTINUE_READING, Off, Fields

\* process_message of the rest of the server's flight.
LEMMA ClientMessageFields ==
    ASSUME NEW b, DOMAIN b = Fields, NEW m,
           b.hand_state \in {"CR_ENCRYPTED_EXTENSIONS", "CR_CERT_REQ", "CR_CERT", "CR_CERT_VRFY"}
    PROVE  LET u == ProcessMessage(b, m)
           IN  /\ Off(u, b, {"early_data", "cert_req", "read_state"})
               /\ \/ u.read_state = "HEADER"
                  \/ u.read_state = "POST_PROCESS" /\ b.hand_state \in {"CR_CERT", "CR_CERT_VRFY"}
BY DEF ProcessMessage, CONTINUE_READING, CONTINUE_PROCESSING, Off, Fields

\* process_message of a ticket.
LEMMA TicketFields ==
    ASSUME NEW b, DOMAIN b = Fields, NEW m, b.hand_state = "CR_SESSION_TICKET"
    PROVE  LET u == ProcessMessage(b, m)
           IN  /\ Off(u, b, {"tickets_received", "read_state", "state", "write_state"})
               /\ u.state = "WRITING" /\ u.write_state = "TRANSITION"
BY DEF ProcessMessage, FINISHED_READING, Off, Fields

\* process_message of a Finished.
LEMMA FinishedFields ==
    ASSUME NEW b, DOMAIN b = Fields, NEW m, b.hand_state \in {"CR_FINISHED", "SR_FINISHED"},
           b.server \in BOOLEAN
    PROVE  LET u == ProcessMessage(b, m)
           IN  \/ u = SSLfatal(b)
               \/ /\ Off(u, b, {"cleanuphand", "secrets", "quic_read_level", "read_state",
                                "state", "write_state"})
                  /\ b.server => u.secrets = b.secrets
                  /\ ~b.server => u.secrets = b.secrets \cup {ssl_encryption_application}
                  /\ u.quic_read_level = ssl_encryption_application
                  /\ u.state = "WRITING" /\ u.write_state = "TRANSITION"
<1>1. ProcessMessage(b, m) = ProcessFinished(b, m)
  BY DEF ProcessMessage
<1>2. ssl_encryption_application # ssl_encryption_early_data
  BY DEF ssl_encryption_application, ssl_encryption_early_data
<1> DEFINE v == [b EXCEPT !.cleanuphand = @ \/ b.server]
           w == IF b.server THEN v
                ELSE [v EXCEPT !.secrets = @ \cup {ssl_encryption_application}]
           r == [w EXCEPT !.quic_read_level = ssl_encryption_application]
<1>3. quic_change_cipher_state(v, ssl_encryption_application, "read") = r
  BY <1>2 DEF quic_change_cipher_state, Fields
<1>4. \/ ProcessFinished(b, m) = SSLfatal(b)
      \/ ProcessFinished(b, m) = FINISHED_READING(r)
  <2> HIDE DEF r
  <2> QED  BY <1>3 DEF ProcessFinished, v
<1>5. /\ DOMAIN r = Fields /\ Off(r, b, {"cleanuphand", "secrets", "quic_read_level"})
      /\ r.secrets = IF b.server THEN b.secrets
                     ELSE b.secrets \cup {ssl_encryption_application}
      /\ r.quic_read_level = ssl_encryption_application
  BY DEF Off, Fields
<1> HIDE DEF r
<1>6. LET u == FINISHED_READING(r)
      IN  /\ Off(u, b, {"cleanuphand", "secrets", "quic_read_level", "read_state",
                        "state", "write_state"})
          /\ u.secrets = r.secrets /\ u.quic_read_level = r.quic_read_level
          /\ u.state = "WRITING" /\ u.write_state = "TRANSITION"
  BY <1>5 DEF FINISHED_READING, Off, Fields
<1> QED  BY <1>1, <1>4, <1>5, <1>6

\* ReadMessage of a client, one case for each state it moves to.
LEMMA ClientReceive ==
    ASSUME NEW s, NEW c, Client(s, c), At(s, "READING", "HEADER"), s.call # "none",
           s.quic_input_data # <<>>, NEW next,
           next = ClientReadTransition(s, s.quic_input_data[1].msg.type), next # "BAD"
    PROVE  ClientStep(s, Received(s, next), c)
<1> DEFINE t == Received(s, next)
           b == Body(s, next)
           m == s.quic_input_data[1].msg
           u == ProcessMessage(b, m)
<1> SUFFICES ClientStep(s, t, c)
  OBVIOUS
<1>1. /\ Shape(s) /\ Data(s, c) /\ Told(s) /\ ClientPlace(s, c) /\ s.server = FALSE
      /\ {s.in_init, s.hit} \subseteq BOOLEAN /\ s.state = "READING" /\ DOMAIN s = Fields
  BY DEF Client, Endpoint, Shape, Flags, At
<1>2. /\ Off(b, s, {"quic_input_data", "msg", "transcript", "hand_state"})
      /\ b.hand_state = next /\ b.msg = m /\ b.quic_input_data = Tail(s.quic_input_data)
      /\ b.transcript = IF m.type = "NEWSESSION_TICKET" \/ m.has = {"hrr"}
                        THEN s.transcript ELSE Append(s.transcript, Entry(m))
  BY <1>1, BodyFields
<1>3. /\ m \in Messages /\ Entry(m) \in Kinds
      /\ Tail(s.quic_input_data) \in Seq(Entries)
      /\ Append(s.transcript, Entry(m)) \in Seq(Kinds)
      /\ Append(s.transcript, Entry(m)) # <<>>
  BY <1>1, BodyTypes
\* Which message moves the client where.
<1>4. \/ next = "CR_SRVR_HELLO" /\ s.hand_state \in {"CW_CLNT_HELLO", "EARLY_DATA"}
      \/ /\ next \in {"CR_ENCRYPTED_EXTENSIONS", "CR_CERT_REQ", "CR_CERT", "CR_CERT_VRFY"}
         /\ s.hand_state \in ClientReads
      \/ next = "CR_FINISHED" /\ s.hand_state \in ClientReads
      \/ /\ next = "CR_SESSION_TICKET" /\ s.hand_state = "OK"
         /\ m.type = "NEWSESSION_TICKET"
  BY DEF ClientReadTransition, ClientReads
<1>5. t = IF u.state = "ERROR" THEN Return(u, "NOTHING") ELSE u
  BY DEF Received
<1> HIDE DEF b, m, t, u
\* What the invariant says of a client that reads.
<1>6. /\ s.early_data_state \notin {"WRITE_RETRY", "CONNECTING"}
      /\ s.flight # <<>> => c.defer /\ c.clientEarly = "on"
      /\ s.transcript # <<>> /\ s.transcript \in Seq(Kinds)
      /\ s.done => s.hand_state = "OK"
      /\ s.hand_state \in ClientReads \union {"CW_CLNT_HELLO", "EARLY_DATA", "OK"}
  BY <1>1 DEF ClientPlace, ClientControl, ClientHolds, At, Data, ClientReads
<1>7. /\ DOMAIN b = Fields /\ b.server = FALSE /\ b.state = "READING" /\ b.call = s.call
      /\ b.in_init = s.in_init /\ b.secrets = s.secrets
      /\ b.quic_read_level = s.quic_read_level /\ b.quic_write_level = s.quic_write_level
      /\ b.hit = s.hit /\ b.clienthello = s.clienthello /\ b.rwstate = s.rwstate
      /\ b.early_data_state = s.early_data_state
      /\ b.transcript \in Seq(Kinds) /\ b.transcript # <<>>
      /\ s.done => b.transcript = s.transcript
  <2>1. /\ DOMAIN b = Fields /\ b.server = FALSE /\ b.state = "READING" /\ b.call = s.call
        /\ b.in_init = s.in_init /\ b.secrets = s.secrets
        /\ b.quic_read_level = s.quic_read_level /\ b.quic_write_level = s.quic_write_level
        /\ b.hit = s.hit /\ b.clienthello = s.clienthello /\ b.rwstate = s.rwstate
        /\ b.early_data_state = s.early_data_state
    BY <1>1, <1>2 DEF Off, Fields
  <2>2. b.transcript \in Seq(Kinds) /\ b.transcript # <<>>
    BY <1>2, <1>3, <1>6
  <2>3. s.done => b.transcript = s.transcript
    BY <1>2, <1>4, <1>6 DEF ClientReads
  <2> QED  BY <2>1, <2>2, <2>3
<1>8. /\ s.secrets \subseteq Level /\ s.quic_read_level \in Level /\ s.quic_write_level \in Level
      /\ CanDecrypt(s, s.quic_read_level) /\ CanDecrypt(s, s.quic_write_level)
  BY <1>1 DEF Data
<1>9. CASE u = SSLfatal(b) /\ ~s.done
  <2>1. u.state = "ERROR"
    BY <1>7, <1>9 DEF SSLfatal, Fields
  <2>2. t = Return(SSLfatal(b), "NOTHING")
    BY <1>5, <1>9, <2>1
  <2>3. /\ Off(t, b, {"state", "in_init", "call", "rwstate"})
        /\ t.state = "ERROR" /\ t.call = "none" /\ t.rwstate = "NOTHING"
        /\ t.in_init \in BOOLEAN
    BY <1>7, <2>2, FatalFields
  <2>4. Off(t, s, ReadFields)
    BY <1>2, <2>3 DEF Off, ReadFields
  <2>5. /\ t.secrets = s.secrets /\ t.quic_read_level = s.quic_read_level
        /\ t.quic_write_level = s.quic_write_level /\ t.hit = s.hit
        /\ t.clienthello = s.clienthello /\ t.transcript = b.transcript
        /\ t.msg = b.msg /\ t.quic_input_data = b.quic_input_data
    BY <1>7, <2>3 DEF Off, Fields
  <2>6. Told(t) /\ Known(t)
    BY <2>3 DEF Told, Known
  <2>7. /\ t.quic_read_level >= s.quic_read_level /\ t.quic_write_level >= s.quic_write_level
        /\ CanDecrypt(t, t.quic_read_level) /\ CanDecrypt(t, t.quic_write_level)
        /\ t.quic_read_level \in Level /\ t.quic_write_level \in Level
    BY <1>8, <2>5 DEF CanDecrypt, Level
  <2>8. /\ t.quic_input_data \in Seq(Entries) /\ t.msg \in Messages
        /\ t.transcript \in Seq(Kinds) /\ {t.hit, t.in_init} \subseteq BOOLEAN
    BY <1>1, <1>2, <1>3, <1>7, <2>3, <2>5
  <2> QED  BY <1>8, <1>9, <2>3, <2>4, <2>5, <2>6, <2>7, <2>8, ReadClient
\* What is left to show when the message is taken.
<1>10. ASSUME Off(u, b, ReadFields), u.quic_input_data = b.quic_input_data, u.msg = b.msg,
              u.clienthello = b.clienthello, u.in_init = b.in_init, u.call = b.call,
              u.rwstate = b.rwstate, u.hand_state = b.hand_state,
              u.state \in {"READING", "WRITING"}, u.transcript \in Seq(Kinds),
              u.transcript # <<>>, u.hit \in BOOLEAN,
              s.done => u.transcript = s.transcript /\ u.hit = s.hit,
              b.secrets \subseteq u.secrets, u.secrets \subseteq Level,
              u.quic_read_level \in {b.quic_read_level} \union Protected,
              u.quic_write_level \in {b.quic_write_level} \union Protected,
              u.quic_read_level >= b.quic_read_level, u.quic_write_level >= b.quic_write_level,
              {u.quic_read_level, u.quic_write_level} \intersect Protected \subseteq u.secrets,
              ~At(u, "WRITING", "SEND"), ClientControl(u), ClientKeys(u)
       PROVE  ClientStep(s, t, c)
  <2>1. t = u
    BY <1>5, <1>10
  <2>2. Off(t, s, ReadFields)
    BY <1>2, <1>10, <2>1 DEF Off, ReadFields
  <2>3. /\ t.done = s.done /\ t.early_data_state = s.early_data_state /\ t.flight = s.flight
    BY <2>2, ReadKeeps
  <2>4. Told(t)
    BY <1>1, <1>2, <1>4, <1>7, <1>10, <2>1, <2>3 DEF Told, ClientReads
  <2>5. ClientPlace(t, c)
    <3>1. t.done => t.hand_state \in {"OK", "CR_SESSION_TICKET"}
      BY <1>2, <1>4, <1>6, <1>10, <2>1, <2>3 DEF ClientReads
    <3> QED  BY <1>6, <1>10, <2>1, <2>3, <3>1 DEF ClientPlace
  <2>6. Known(s) => Known(t)
    BY <1>1, <1>7, <1>10, <2>1 DEF Known, At
  <2>7. /\ t.quic_read_level >= s.quic_read_level /\ t.quic_write_level >= s.quic_write_level
        /\ t.quic_read_level \in Level /\ t.quic_write_level \in Level
    BY <1>7, <1>8, <1>10, <2>1
       DEF Protected, Level, ssl_encryption_handshake, ssl_encryption_application
  <2>8. CanDecrypt(t, t.quic_read_level) /\ CanDecrypt(t, t.quic_write_level)
    BY <1>7, <1>8, <1>10, <2>1 DEF CanDecrypt
  <2>9. /\ t.quic_input_data \in Seq(Entries) /\ t.msg \in Messages
        /\ t.transcript \in Seq(Kinds) /\ {t.hit, t.in_init} \subseteq BOOLEAN
    BY <1>1, <1>2, <1>3, <1>7, <1>10, <2>1
  <2>10. /\ t.state \in {"UNINITED", "READING", "WRITING", "FINISHED", "ERROR"}
         /\ t.call \in {"none", "SSL_do_handshake", "SSL_process_quic_post_handshake"}
         /\ t.clienthello = s.clienthello /\ s.secrets \subseteq t.secrets
         /\ t.secrets \subseteq Level
         /\ s.done => t.transcript = s.transcript /\ t.hit = s.hit
    BY <1>1, <1>7, <1>10, <2>1 DEF Shape
  <2> QED  BY <2>2, <2>4, <2>5, <2>6, <2>7, <2>8, <2>9, <2>10, ReadClient
<1>11. CASE next = "CR_SRVR_HELLO" /\ m.has = {"hrr"}
  <2>1. ~s.done /\ ClientHellos(s)
    BY <1>4, <1>6, <1>11 DEF ClientHellos, ClientReads
  <2>2. CASE b.hello_retry_request # "NONE"
    <3>1. u = SSLfatal(b)
      BY <1>2, <1>7, <1>11, <2>2, RetryFields DEF u
    <3> QED  BY <1>9, <2>1, <3>1
  <2>3. CASE b.hello_retry_request = "NONE"
    <3>1. /\ Off(u, b, {"hello_retry_request", "transcript", "read_state", "state",
                        "write_state"})
          /\ u.transcript = Append(MessageHash(b.transcript), Entry(m))
          /\ u.state = "WRITING" /\ u.write_state = "TRANSITION"
      BY <1>2, <1>7, <1>11, <2>3, RetryFields DEF u
    <3>2. u.transcript \in Seq(Kinds) /\ u.transcript # <<>>
      <4>1. MessageHash(b.transcript) \in Seq(Kinds)
        BY <1>7, Hash
      <4> QED  BY <1>3, <3>1, <4>1, AppendTo
    <3>3. /\ u.quic_input_data = b.quic_input_data /\ u.msg = b.msg
          /\ u.clienthello = b.clienthello /\ u.in_init = b.in_init /\ u.call = b.call
          /\ u.rwstate = b.rwstate /\ u.hand_state = b.hand_state /\ u.hit = b.hit
          /\ u.secrets = b.secrets /\ u.quic_read_level = b.quic_read_level
          /\ u.quic_write_level = b.quic_write_level
      BY <3>1 DEF Off, Fields
    <3>4. Off(u, b, ReadFields)
      BY <3>1 DEF Off, ReadFields
    <3>5. ClientControl(u) /\ ClientKeys(u) /\ ~At(u, "WRITING", "SEND")
      BY <1>1, <1>2, <1>7, <1>11, <2>1, <3>1, <3>3
         DEF ClientControl, ClientKeys, ClientPlace, ClientHellos, ClientReading,
             ClientWriting, ClientOver, At, ClientReads
    <3>6. /\ u.quic_read_level >= b.quic_read_level /\ u.quic_write_level >= b.quic_write_level
          /\ {u.quic_read_level, u.quic_write_level} \intersect Protected \subseteq u.secrets
      BY <1>1, <1>7, <1>8, <2>1, <3>3
         DEF Level, ClientPlace, ClientKeys, Protected, ssl_encryption_initial,
             ssl_encryption_handshake, ssl_encryption_application
    <3> QED  BY <1>1, <1>7, <1>8, <1>10, <2>1, <3>1, <3>2, <3>3, <3>4, <3>5, <3>6
  <2> QED  BY <2>2, <2>3
<1>12. CASE next = "CR_SRVR_HELLO" /\ m.has # {"hrr"}
  <2>1. ~s.done /\ ClientHellos(s)
    BY <1>4, <1>6, <1>12 DEF ClientHellos, ClientReads
  <2>2. /\ Off(u, b, {"hit", "secrets", "quic_read_level", "quic_write_level", "read_state"})
        /\ u.hit \in BOOLEAN /\ u.secrets = b.secrets \cup {ssl_encryption_handshake}
        /\ u.quic_read_level = ssl_encryption_handshake
        /\ u.quic_write_level = IF b.early_data_state = "NONE"
                                THEN ssl_encryption_handshake ELSE b.quic_write_level
        /\ u.read_state = "HEADER"
    <3>1. DOMAIN b = Fields /\ b.hand_state = "CR_SRVR_HELLO" /\ m.has # {"hrr"} /\ b.server = FALSE
      BY <1>2, <1>7, <1>12
    <3> QED  BY <3>1, ServerHelloFields DEF u
  <2>3. /\ u.quic_input_data = b.quic_input_data /\ u.msg = b.msg
        /\ u.clienthello = b.clienthello /\ u.in_init = b.in_init /\ u.call = b.call
        /\ u.rwstate = b.rwstate /\ u.hand_state = b.hand_state /\ u.state = b.state
        /\ u.transcript = b.transcript
    BY <2>2 DEF Off, Fields
  <2>4. Off(u, b, ReadFields)
    BY <2>2 DEF Off, ReadFields
  <2>5. s.quic_read_level = ssl_encryption_initial /\ s.quic_write_level = ssl_encryption_initial
    BY <1>1, <2>1 DEF ClientPlace, ClientKeys
  <2>6. ClientControl(u) /\ ClientKeys(u) /\ ~At(u, "WRITING", "SEND")
    BY <1>2, <1>7, <1>12, <2>2, <2>3, <2>5
       DEF ClientControl, ClientKeys, ClientHellos, ClientReading,
           ClientWriting, ClientOver, At, ClientReads, Before
  <2>7. /\ u.quic_read_level >= b.quic_read_level /\ u.quic_write_level >= b.quic_write_level
        /\ {u.quic_read_level, u.quic_write_level} \intersect Protected \subseteq u.secrets
        /\ u.secrets \subseteq Level
    BY <1>7, <1>8, <2>2, <2>5
       DEF Level, Protected, ssl_encryption_initial, ssl_encryption_handshake,
           ssl_encryption_application
  <2>8. /\ u.quic_read_level \in {b.quic_read_level} \union Protected
        /\ u.quic_write_level \in {b.quic_write_level} \union Protected
    BY <2>2 DEF Protected
  <2> QED  BY <1>7, <1>10, <2>1, <2>2, <2>3, <2>4, <2>6, <2>7, <2>8
<1>13. CASE next \in {"CR_ENCRYPTED_EXTENSIONS", "CR_CERT_REQ", "CR_CERT", "CR_CERT_VRFY"}
  <2>1. ~s.done /\ ClientReading(s)
    BY <1>1, <1>4, <1>6, <1>13 DEF ClientReading, ClientReads
  <2>2. /\ Off(u, b, {"early_data", "cert_req", "read_state"})
        /\ \/ u.read_state = "HEADER"
           \/ u.read_state = "POST_PROCESS" /\ b.hand_state \in {"CR_CERT", "CR_CERT_VRFY"}
    BY <1>2, <1>7, <1>13, ClientMessageFields DEF u
  <2>3. /\ u.quic_input_data = b.quic_input_data /\ u.msg = b.msg /\ u.hit = b.hit
        /\ u.clienthello = b.clienthello /\ u.in_init = b.in_init /\ u.call = b.call
        /\ u.rwstate = b.rwstate /\ u.hand_state = b.hand_state /\ u.state = b.state
        /\ u.transcript = b.transcript /\ u.secrets = b.secrets
        /\ u.quic_read_level = b.quic_read_level /\ u.quic_write_level = b.quic_write_level
    BY <2>2 DEF Off, Fields
  <2>4. Off(u, b, ReadFields)
    BY <2>2 DEF Off, ReadFields
  <2>5. ClientControl(u) /\ ClientKeys(u) /\ ~At(u, "WRITING", "SEND")
    BY <1>1, <1>2, <1>7, <1>13, <2>1, <2>2, <2>3
       DEF ClientControl, ClientPlace, ClientKeys, ClientHellos, ClientReading,
           ClientWriting, ClientOver, At, ClientReads
  <2>6. /\ u.quic_read_level >= b.quic_read_level /\ u.quic_write_level >= b.quic_write_level
        /\ {u.quic_read_level, u.quic_write_level} \intersect Protected \subseteq u.secrets
    BY <1>1, <1>7, <1>8, <2>1, <2>3
       DEF Level, Protected, Before, ClientPlace, ClientKeys, CanDecrypt,
           ssl_encryption_initial, ssl_encryption_handshake, ssl_encryption_application
  <2> QED  BY <1>1, <1>7, <1>8, <1>10, <2>1, <2>2, <2>3, <2>4, <2>5, <2>6
<1>14. CASE next = "CR_FINISHED"
  <2>1. ~s.done /\ ClientReading(s)
    BY <1>1, <1>4, <1>6, <1>14 DEF ClientReading, ClientReads
  <2>2. \/ u = SSLfatal(b)
        \/ /\ Off(u, b, {"cleanuphand", "secrets", "quic_read_level", "read_state",
                         "state", "write_state"})
           /\ u.secrets = b.secrets \cup {ssl_encryption_application}
           /\ u.quic_read_level = ssl_encryption_application
           /\ u.state = "WRITING" /\ u.write_state = "TRANSITION"
    <3>1. /\ DOMAIN b = Fields /\ b.hand_state \in {"CR_FINISHED", "SR_FINISHED"}
          /\ b.server \in BOOLEAN /\ ~b.server
      BY <1>2, <1>7, <1>14
    <3> DEFINE v == ProcessMessage(b, m)
    <3>2. \/ v = SSLfatal(b)
          \/ /\ Off(v, b, {"cleanuphand", "secrets", "quic_read_level", "read_state",
                           "state", "write_state"})
             /\ b.server => v.secrets = b.secrets
             /\ ~b.server => v.secrets = b.secrets \cup {ssl_encryption_application}
             /\ v.quic_read_level = ssl_encryption_application
             /\ v.state = "WRITING" /\ v.write_state = "TRANSITION"
      BY <3>1, FinishedFields
    <3> QED  BY <3>1, <3>2 DEF u
  <2>3. CASE u = SSLfatal(b)
    BY <1>9, <2>1, <2>3
  <2>4. CASE u # SSLfatal(b)
    <3>1. /\ u.quic_input_data = b.quic_input_data /\ u.msg = b.msg /\ u.hit = b.hit
          /\ u.clienthello = b.clienthello /\ u.in_init = b.in_init /\ u.call = b.call
          /\ u.rwstate = b.rwstate /\ u.hand_state = b.hand_state
          /\ u.transcript = b.transcript /\ u.quic_write_level = b.quic_write_level
      BY <2>2, <2>4 DEF Off, Fields
    <3>2. Off(u, b, ReadFields)
      BY <2>2, <2>4 DEF Off, ReadFields
    <3>3. /\ s.quic_read_level = ssl_encryption_handshake /\ s.quic_write_level \in Before
          /\ ssl_encryption_handshake \in s.secrets
      BY <1>1, <2>1 DEF ClientPlace, ClientKeys
    <3>4. ClientControl(u) /\ ClientKeys(u) /\ ~At(u, "WRITING", "SEND")
      BY <1>2, <1>7, <1>14, <2>2, <2>4, <3>1, <3>3
         DEF ClientControl, ClientKeys, ClientHellos, ClientReading,
             ClientWriting, ClientOver, At, ClientReads, Protected
    <3>5. /\ u.quic_read_level >= b.quic_read_level /\ u.quic_write_level >= b.quic_write_level
          /\ {u.quic_read_level, u.quic_write_level} \intersect Protected \subseteq u.secrets
          /\ u.secrets \subseteq Level
      BY <1>7, <1>8, <2>2, <2>4, <3>1, <3>3
         DEF Level, Protected, Before, ssl_encryption_initial, ssl_encryption_handshake,
             ssl_encryption_application
    <3>6. /\ u.quic_read_level \in {b.quic_read_level} \union Protected
          /\ u.quic_write_level \in {b.quic_write_level} \union Protected
      BY <2>2, <2>4, <3>1 DEF Protected
    <3> QED  BY <1>1, <1>7, <1>10, <2>1, <2>2, <2>4, <3>1, <3>2, <3>4, <3>5, <3>6
  <2> QED  BY <2>3, <2>4
<1>15. CASE next = "CR_SESSION_TICKET"
  <2>1. ClientOver(s) /\ m.type = "NEWSESSION_TICKET"
    BY <1>4, <1>15 DEF ClientOver
  <2>2. /\ Off(u, b, {"tickets_received", "read_state", "state", "write_state"})
        /\ u.state = "WRITING" /\ u.write_state = "TRANSITION"
    BY <1>2, <1>7, <1>15, TicketFields DEF u
  <2>3. /\ u.quic_input_data = b.quic_input_data /\ u.msg = b.msg /\ u.hit = b.hit
        /\ u.clienthello = b.clienthello /\ u.in_init = b.in_init /\ u.call = b.call
        /\ u.rwstate = b.rwstate /\ u.hand_state = b.hand_state
        /\ u.transcript = b.transcript /\ u.secrets = b.secrets
        /\ u.quic_read_level = b.quic_read_level /\ u.quic_write_level = b.quic_write_level
    BY <2>2 DEF Off, Fields
  <2>4. Off(u, b, ReadFields)
    BY <2>2 DEF Off, ReadFields
  <2>5. ClientControl(u) /\ ClientKeys(u) /\ ~At(u, "WRITING", "SEND")
    BY <1>1, <1>2, <1>7, <1>15, <2>1, <2>2, <2>3
       DEF ClientControl, ClientPlace, ClientKeys, ClientHellos, ClientReading,
           ClientWriting, ClientOver, At, ClientReads
  <2>6. /\ u.quic_read_level >= b.quic_read_level /\ u.quic_write_level >= b.quic_write_level
        /\ {u.quic_read_level, u.quic_write_level} \intersect Protected \subseteq u.secrets
    BY <1>1, <1>7, <1>8, <2>1, <2>3 DEF Level, Protected, ClientPlace, ClientKeys
  <2> QED  BY <1>1, <1>7, <1>8, <1>10, <2>1, <2>2, <2>3, <2>4, <2>5, <2>6
<1> QED  BY <1>4, <1>11, <1>12, <1>13, <1>14, <1>15

\* The same for a server.
LEMMA ReadServer ==
    ASSUME NEW s, NEW t, NEW c, Server(s, c), Off(t, s, ReadFields), ~s.done,
           \/ t.quic_input_data = s.quic_input_data
           \/ s.quic_input_data # <<>> /\ t.quic_input_data = Tail(s.quic_input_data),
           t.msg \in Messages, t.transcript \in Seq(Kinds),
           t.clienthello \subseteq Facts,
           \/ t.clienthello = s.clienthello
           \/ s.quic_input_data # <<>> /\ t.clienthello = s.quic_input_data[1].msg.has,
           {t.hit, t.in_init} \subseteq BOOLEAN,
           t.state \in {"UNINITED", "READING", "WRITING", "FINISHED", "ERROR"},
           t.call \in {"none", "SSL_do_handshake", "SSL_process_quic_post_handshake"},
           s.secrets \subseteq t.secrets, t.secrets \subseteq Level,
           ssl_encryption_early_data \in t.secrets =>
              ssl_encryption_early_data \in s.secrets \/ "early" \in s.clienthello,
           t.quic_read_level \in Level, t.quic_write_level = s.quic_write_level,
           t.quic_read_level >= s.quic_read_level, CanDecrypt(t, t.quic_read_level),
           Told(t), t.state # "ERROR" => ServerPlace(t, c)
    PROVE  ServerStep(s, t, c)
<1>1. /\ DOMAIN t = Fields
      /\ t.server = s.server /\ t.done = s.done /\ t.fresh = s.fresh
      /\ t.flight = s.flight /\ t.early_data_state = s.early_data_state
      /\ t.max_early_data = s.max_early_data
      /\ t.extra_tickets_expected = s.extra_tickets_expected
  BY ReadKeeps
<1>2. Shape(s) /\ Data(s, c)
  BY DEF Server, Endpoint
<1>3. Shape(t)
  BY <1>1, <1>2 DEF Shape, Flags
<1>4. /\ t.quic_input_data \in Seq(Entries)
      /\ \A i \in 1 .. Len(t.quic_input_data) : t.quic_input_data[i].msg.has # {"hrr"}
  <2>1. /\ s.quic_input_data \in Seq(Entries)
        /\ \A i \in 1 .. Len(s.quic_input_data) : s.quic_input_data[i].msg.has # {"hrr"}
    BY <1>2 DEF Data, Server
  <2>2. CASE t.quic_input_data = s.quic_input_data
    BY <2>1, <2>2
  <2>3. CASE s.quic_input_data # <<>> /\ t.quic_input_data = Tail(s.quic_input_data)
    <3>1. /\ Tail(s.quic_input_data) \in Seq(Entries)
          /\ \A i \in 1 .. Len(Tail(s.quic_input_data)) :
                /\ i + 1 \in 1 .. Len(s.quic_input_data)
                /\ Tail(s.quic_input_data)[i] = s.quic_input_data[i + 1]
      BY <2>1, <2>3, TailOf
    <3> QED  BY <2>1, <2>3, <3>1
  <2> QED  BY <2>2, <2>3
<1>5. Data(t, c)
  <2>1. /\ t.quic_write_level \in Level /\ CanDecrypt(t, t.quic_write_level)
    BY <1>2 DEF Data, CanDecrypt
  <2> QED  BY <1>1, <1>2, <1>4, <2>1, KeepData
<1>6. Forward(s, t)
  <2>1. s.quic_write_level \in Int
    BY <1>2 DEF Data, Level
  <2> QED  BY <2>1 DEF Forward
<1> QED  BY <1>1, <1>3, <1>4, <1>5, <1>6 DEF ServerStep, Server, Endpoint

\* process_message of what a client sends.
LEMMA ServerMessageFields ==
    ASSUME NEW b, DOMAIN b = Fields, NEW m,
           b.hand_state \in {"SR_CLNT_HELLO", "SR_CERT", "SR_CERT_VRFY"}
    PROVE  LET u == ProcessMessage(b, m)
           IN  /\ Off(u, b, {"clienthello", "read_state"})
               /\ b.hand_state = "SR_CLNT_HELLO" =>
                     u.clienthello = m.has /\ u.read_state = "POST_PROCESS"
               /\ b.hand_state # "SR_CLNT_HELLO" =>
                     u.clienthello = b.clienthello /\ u.read_state = "HEADER"
BY DEF ProcessMessage, CONTINUE_READING, CONTINUE_PROCESSING, Off, Fields

\* ReadMessage of a server, one case for each state it moves to.
LEMMA ServerReceive ==
    ASSUME NEW s, NEW c, Server(s, c), At(s, "READING", "HEADER"), s.call # "none",
           s.quic_input_data # <<>>, NEW next,
           next = ServerReadTransition(s, s.quic_input_data[1].msg.type), next # "BAD"
    PROVE  ServerStep(s, Received(s, next), c)
<1> DEFINE t == Received(s, next)
           b == Body(s, next)
           m == s.quic_input_data[1].msg
           u == ProcessMessage(b, m)
<1> SUFFICES ServerStep(s, t, c)
  OBVIOUS
<1>1. /\ Shape(s) /\ Data(s, c) /\ Told(s) /\ ServerPlace(s, c) /\ s.server = TRUE
      /\ {s.in_init, s.hit} \subseteq BOOLEAN /\ s.state = "READING" /\ DOMAIN s = Fields
      /\ s.read_state = "HEADER"
  BY DEF Server, Endpoint, Shape, Flags, At
<1>2. /\ Off(b, s, {"quic_input_data", "msg", "transcript", "hand_state"})
      /\ b.hand_state = next /\ b.msg = m /\ b.quic_input_data = Tail(s.quic_input_data)
      /\ b.transcript = IF m.type = "NEWSESSION_TICKET" \/ m.has = {"hrr"}
                        THEN s.transcript ELSE Append(s.transcript, Entry(m))
  BY <1>1, BodyFields
<1>3. /\ m \in Messages /\ Entry(m) \in Kinds
      /\ Tail(s.quic_input_data) \in Seq(Entries)
      /\ Append(s.transcript, Entry(m)) \in Seq(Kinds)
      /\ Append(s.transcript, Entry(m)) # <<>>
  BY <1>1, BodyTypes
\* Which message moves the server where.
<1>4. /\ m.type \in {"CLIENT_HELLO", "CERTIFICATE", "CERTIFICATE_VERIFY", "FINISHED"}
      /\ \/ next = "SR_CLNT_HELLO" /\ s.hand_state = "BEFORE"
         \/ next = "SR_CLNT_HELLO" /\ s.hand_state = "EARLY_DATA"
            /\ s.hello_retry_request = "PENDING"
         \/ next \in {"SR_CERT", "SR_FINISHED"} /\ s.hand_state = "EARLY_DATA"
            /\ s.hello_retry_request # "PENDING"
         \/ next \in {"SR_CERT_VRFY", "SR_FINISHED"} /\ s.hand_state \in {"SR_CERT", "SR_CERT_VRFY"}
  BY DEF ServerReadTransition
<1>5. t = IF u.state = "ERROR" THEN Return(u, "NOTHING") ELSE u
  BY DEF Received
<1>6. m.has # {"hrr"} /\ m.has \subseteq Facts
  <2>1. 1 \in 1 .. Len(s.quic_input_data)
    BY <1>1, TailOf DEF Data
  <2>2. m.has # {"hrr"}
    BY <2>1 DEF Server
  <2> HIDE DEF m
  <2>3. m.has \subseteq Facts
    BY <1>3 DEF Messages
  <2> QED  BY <2>2, <2>3
<1> HIDE DEF b, t, u
\* What the invariant says of a server that reads in the handshake.
<1>7. /\ s.flight = <<>> /\ ~s.done /\ ~(s.extra_tickets_expected > 0)
      /\ ~(/\ ssl_encryption_early_data \in s.secrets
           /\ ssl_encryption_application \notin s.secrets)
      /\ s.call = "SSL_do_handshake" /\ s.in_init
  BY <1>1, <1>4 DEF ServerPlace, ServerHolds, Told, Shape
<1>8. /\ DOMAIN b = Fields /\ b.server = TRUE /\ b.state = "READING" /\ b.call = s.call
      /\ b.in_init = s.in_init /\ b.secrets = s.secrets
      /\ b.quic_read_level = s.quic_read_level /\ b.quic_write_level = s.quic_write_level
      /\ b.hit = s.hit /\ b.clienthello = s.clienthello /\ b.rwstate = s.rwstate
      /\ b.hello_retry_request = s.hello_retry_request /\ b.early_data = s.early_data
      /\ b.transcript \in Seq(Kinds) /\ b.transcript # <<>>
  <2>1. /\ DOMAIN b = Fields /\ b.server = TRUE /\ b.state = "READING" /\ b.call = s.call
        /\ b.in_init = s.in_init /\ b.secrets = s.secrets
        /\ b.quic_read_level = s.quic_read_level /\ b.quic_write_level = s.quic_write_level
        /\ b.hit = s.hit /\ b.clienthello = s.clienthello /\ b.rwstate = s.rwstate
        /\ b.hello_retry_request = s.hello_retry_request /\ b.early_data = s.early_data
    BY <1>1, <1>2 DEF Off, Fields
  <2>2. b.transcript = Append(s.transcript, Entry(m))
    BY <1>2, <1>4, <1>6
  <2> QED  BY <1>3, <2>1, <2>2
<1>9. /\ s.secrets \subseteq Level /\ s.quic_read_level \in Level
      /\ CanDecrypt(s, s.quic_read_level) /\ s.clienthello \subseteq Facts
  BY <1>1 DEF Data
<1> HIDE DEF m
<1>10. CASE u = SSLfatal(b)
  <2>1. u.state = "ERROR"
    BY <1>8, <1>10 DEF SSLfatal, Fields
  <2>2. t = Return(SSLfatal(b), "NOTHING")
    BY <1>5, <1>10, <2>1
  <2>3. /\ Off(t, b, {"state", "in_init", "call", "rwstate"})
        /\ t.state = "ERROR" /\ t.call = "none" /\ t.rwstate = "NOTHING"
        /\ t.in_init \in BOOLEAN
    BY <1>8, <2>2, FatalFields
  <2>4. Off(t, s, ReadFields)
    BY <1>2, <2>3 DEF Off, ReadFields
  <2>5. /\ t.secrets = s.secrets /\ t.quic_read_level = s.quic_read_level
        /\ t.quic_write_level = s.quic_write_level /\ t.hit = s.hit
        /\ t.clienthello = s.clienthello /\ t.transcript = b.transcript
        /\ t.msg = b.msg /\ t.quic_input_data = b.quic_input_data
    BY <1>8, <2>3 DEF Off, Fields
  <2>6. Told(t)
    BY <2>3 DEF Told
  <2>7. t.quic_read_level >= s.quic_read_level /\ CanDecrypt(t, t.quic_read_level)
    BY <1>9, <2>5 DEF CanDecrypt, Level
  <2>8. /\ t.msg \in Messages /\ t.transcript \in Seq(Kinds)
        /\ {t.hit, t.in_init} \subseteq BOOLEAN
        /\ t.quic_input_data = Tail(s.quic_input_data)
    BY <1>1, <1>2, <1>3, <1>8, <2>3, <2>5
  <2> QED  BY <1>7, <1>9, <2>3, <2>4, <2>5, <2>6, <2>7, <2>8, ReadServer
\* What is left to show when the message is taken.
<1>11. ASSUME Off(u, b, ReadFields), u.quic_input_data = b.quic_input_data, u.msg = b.msg,
              u.clienthello \in {s.clienthello, m.has}, u.in_init = b.in_init,
              u.call = b.call, u.rwstate = b.rwstate, u.hand_state = b.hand_state,
              u.state \in {"READING", "WRITING"}, u.transcript = b.transcript, u.hit = b.hit,
              u.secrets = b.secrets, u.quic_write_level = b.quic_write_level,
              u.quic_read_level \in Level, u.quic_read_level >= b.quic_read_level,
              CanDecrypt(u, u.quic_read_level),
              u.hello_retry_request = b.hello_retry_request, u.early_data = b.early_data,
              ~At(u, "WRITING", "SEND"), ServerControl(u), ServerKeys(u)
       PROVE  ServerStep(s, t, c)
  <2>1. t = u
    BY <1>5, <1>11
  <2>2. Off(t, s, ReadFields)
    BY <1>2, <1>11, <2>1 DEF Off, ReadFields
  <2>3. /\ t.done = s.done /\ t.flight = s.flight
        /\ t.extra_tickets_expected = s.extra_tickets_expected
    BY <2>2, ReadKeeps
  <2>4. Told(t)
    BY <1>1, <1>7, <1>8, <1>11, <2>1 DEF Told
  <2>5. ServerPlace(t, c)
    <3>1. t.hand_state # "BEFORE"
      BY <1>2, <1>4, <1>11, <2>1
    <3>2. Retrying(t) => t.early_data # "ACCEPTED"
      BY <1>1, <1>2, <1>4, <1>8, <1>11, <2>1 DEF ServerPlace, Retrying
    <3> QED  BY <1>7, <1>8, <1>11, <2>1, <2>3, <3>1, <3>2 DEF ServerPlace
  <2>6. /\ t.quic_input_data = Tail(s.quic_input_data)
        /\ t.clienthello \subseteq Facts
        /\ t.clienthello = s.clienthello \/ t.clienthello = s.quic_input_data[1].msg.has
    <3>1. t.quic_input_data = Tail(s.quic_input_data)
      BY <1>2, <1>11, <2>1
    <3>2. t.clienthello \in {s.clienthello, m.has}
      BY <1>11, <2>1
    <3> QED  BY <1>6, <1>9, <3>1, <3>2 DEF m
  <2>7. /\ t.msg \in Messages /\ t.transcript \in Seq(Kinds)
        /\ {t.hit, t.in_init} \subseteq BOOLEAN
        /\ t.state \in {"UNINITED", "READING", "WRITING", "FINISHED", "ERROR"}
        /\ t.call \in {"none", "SSL_do_handshake", "SSL_process_quic_post_handshake"}
    <3>1. /\ t.msg = m /\ t.transcript = b.transcript /\ t.hit = s.hit
          /\ t.in_init = s.in_init /\ t.call = s.call
      BY <1>2, <1>8, <1>11, <2>1
    <3>2. t.state \in {"READING", "WRITING"}
      BY <1>11, <2>1
    <3> QED  BY <1>1, <1>3, <1>7, <1>8, <3>1, <3>2
  <2>8. /\ t.secrets = s.secrets /\ t.quic_write_level = s.quic_write_level
        /\ t.quic_read_level \in Level /\ t.quic_read_level >= s.quic_read_level
        /\ CanDecrypt(t, t.quic_read_level)
    BY <1>8, <1>11, <2>1
  <2> QED  BY <1>7, <1>9, <2>2, <2>4, <2>5, <2>6, <2>7, <2>8, ReadServer
<1>12. CASE next \in {"SR_CLNT_HELLO", "SR_CERT", "SR_CERT_VRFY"}
  <2>1. /\ Off(u, b, {"clienthello", "read_state"})
        /\ b.hand_state = "SR_CLNT_HELLO" =>
              u.clienthello = m.has /\ u.read_state = "POST_PROCESS"
        /\ b.hand_state # "SR_CLNT_HELLO" =>
              u.clienthello = b.clienthello /\ u.read_state = "HEADER"
    <3>1. DOMAIN b = Fields /\ b.hand_state \in {"SR_CLNT_HELLO", "SR_CERT", "SR_CERT_VRFY"}
      BY <1>2, <1>8, <1>12
    <3> QED  BY <3>1, ServerMessageFields DEF u
  <2>2. /\ u.quic_input_data = b.quic_input_data /\ u.msg = b.msg /\ u.hit = b.hit
        /\ u.in_init = b.in_init /\ u.call = b.call /\ u.rwstate = b.rwstate
        /\ u.hand_state = b.hand_state /\ u.state = b.state
        /\ u.transcript = b.transcript /\ u.secrets = b.secrets
        /\ u.quic_read_level = b.quic_read_level /\ u.quic_write_level = b.quic_write_level
        /\ u.hello_retry_request = b.hello_retry_request /\ u.early_data = b.early_data
    BY <2>1 DEF Off, Fields
  <2>3. Off(u, b, ReadFields)
    BY <2>1 DEF Off, ReadFields
  <2>4. ServerControl(u) /\ ~At(u, "WRITING", "SEND")
    BY <1>2, <1>8, <1>12, <2>1, <2>2 DEF ServerControl, At
  <2>5. ServerKeys(u)
    BY <1>1, <1>2, <1>4, <1>8, <1>12, <2>2
       DEF ServerPlace, ServerKeys, ServerHellos, ServerReading, ServerWriting, ServerOver,
           ServerFlight
  <2>6. /\ u.clienthello \in {s.clienthello, m.has} /\ u.quic_read_level \in Level
        /\ u.quic_read_level >= b.quic_read_level /\ CanDecrypt(u, u.quic_read_level)
    BY <1>8, <1>9, <2>1, <2>2 DEF CanDecrypt, Level
  <2> QED  BY <1>8, <1>11, <2>2, <2>3, <2>4, <2>5, <2>6
<1>13. CASE next = "SR_FINISHED"
  <2>1. \/ u = SSLfatal(b)
        \/ /\ Off(u, b, {"cleanuphand", "secrets", "quic_read_level", "read_state",
                         "state", "write_state"})
           /\ u.secrets = b.secrets
           /\ u.quic_read_level = ssl_encryption_application
           /\ u.state = "WRITING" /\ u.write_state = "TRANSITION"
    <3>1. /\ DOMAIN b = Fields /\ b.hand_state \in {"CR_FINISHED", "SR_FINISHED"}
          /\ b.server \in BOOLEAN
      BY <1>2, <1>8, <1>13
    <3> DEFINE v == ProcessMessage(b, m)
    <3>2. \/ v = SSLfatal(b)
          \/ /\ Off(v, b, {"cleanuphand", "secrets", "quic_read_level", "read_state",
                           "state", "write_state"})
             /\ b.server => v.secrets = b.secrets
             /\ ~b.server => v.secrets = b.secrets \cup {ssl_encryption_application}
             /\ v.quic_read_level = ssl_encryption_application
             /\ v.state = "WRITING" /\ v.write_state = "TRANSITION"
      BY <3>1, FinishedFields
    <3> QED  BY <1>8, <3>2 DEF u
  <2>2. CASE u # SSLfatal(b)
    <3>1. /\ u.quic_input_data = b.quic_input_data /\ u.msg = b.msg /\ u.hit = b.hit
          /\ u.clienthello = b.clienthello /\ u.in_init = b.in_init /\ u.call = b.call
          /\ u.rwstate = b.rwstate /\ u.hand_state = b.hand_state
          /\ u.transcript = b.transcript /\ u.quic_write_level = b.quic_write_level
          /\ u.hello_retry_request = b.hello_retry_request /\ u.early_data = b.early_data
      BY <2>1, <2>2 DEF Off, Fields
    <3>2. Off(u, b, ReadFields)
      BY <2>1, <2>2 DEF Off, ReadFields
    <3>3. ServerReading(s)
      BY <1>1, <1>4, <1>13
         DEF ServerPlace, ServerKeys, ServerHellos, ServerReading, ServerWriting, ServerOver,
             ServerFlight
    <3>4. /\ s.quic_read_level = ssl_encryption_handshake
          /\ s.quic_write_level = ssl_encryption_application /\ Protected \subseteq s.secrets
      BY <1>1, <3>3 DEF ServerPlace, ServerKeys
    <3>5. ServerControl(u) /\ ~At(u, "WRITING", "SEND")
      BY <1>2, <1>7, <1>8, <1>13, <2>1, <2>2, <3>1 DEF ServerControl, At
    <3>6. ServerKeys(u)
      BY <1>2, <1>8, <1>13, <2>1, <2>2, <3>1, <3>4
         DEF ServerKeys, ServerHellos, ServerReading, ServerWriting, ServerOver, ServerFlight
    <3>7. /\ u.quic_read_level \in Level /\ u.quic_read_level >= b.quic_read_level
          /\ CanDecrypt(u, u.quic_read_level)
      BY <1>8, <2>1, <2>2, <3>4
         DEF CanDecrypt, Level, Protected, ssl_encryption_handshake, ssl_encryption_application
    <3> QED  BY <1>8, <1>11, <2>1, <2>2, <3>1, <3>2, <3>5, <3>6, <3>7
  <2> QED  BY <1>10, <2>1, <2>2
<1> QED  BY <1>4, <1>12, <1>13

\* post_process_message of a client: the server's certificate.
LEMMA ClientPostProcess ==
    ASSUME NEW s, NEW c, Client(s, c), At(s, "READING", "POST_PROCESS"), s.call # "none"
    PROVE  ClientStep(s, PostProcessMessage(s, c), c)
<1> DEFINE t == PostProcessMessage(s, c)
<1> SUFFICES ClientStep(s, t, c)
  OBVIOUS
<1>1. /\ Shape(s) /\ Told(s) /\ ClientPlace(s, c) /\ {s.in_init, s.done, s.fresh} \subseteq BOOLEAN
      /\ s.state = "READING" /\ s.read_state = "POST_PROCESS"
  BY DEF Client, Endpoint, Shape, Flags, At
<1>2. s.hand_state \in {"CR_CERT", "CR_CERT_VRFY"}
  BY <1>1 DEF ClientPlace, ClientControl, At
<1>3. Off(t, s, {"cert_req", "read_state"}) /\ t.read_state = "HEADER"
  BY <1>1, <1>2 DEF PostProcessMessage, CONTINUE_READING, Off, Fields, Shape
<1> HIDE DEF t
<1>4. Off(t, s, Control)
  BY <1>3, OffMore DEF Control, DataFields, Fields
<1>5. /\ t.state = s.state /\ t.hand_state = s.hand_state /\ t.write_state = s.write_state
      /\ t.in_init = s.in_init /\ t.done = s.done /\ t.fresh = s.fresh /\ t.call = s.call
      /\ t.rwstate = s.rwstate /\ t.early_data_state = s.early_data_state
  BY <1>3 DEF Off, Fields
<1>6. Shape(t)
  BY <1>1, <1>4, <1>5, KeepShape DEF Shape
<1>7. Told(t)
  BY <1>1, <1>5 DEF Told
<1>8. ClientPlace(t, c)
  <2>1. ClientControl(t)
    BY <1>1, <1>2, <1>3, <1>5 DEF ClientControl, At, ClientReads
  <2>2. ClientKeys(t)
    BY <1>1, <1>4, <1>5, SameFields
       DEF ClientPlace, ClientKeys, ClientHellos, ClientReading, ClientWriting, ClientOver
  <2> QED  BY <1>1, <1>2, <1>4, <1>5, <2>1, <2>2, SameFields DEF ClientPlace, ClientHolds, At
<1>9. Known(s) => Known(t)
  BY <1>1, <1>4, <1>5, SameFields DEF Known, At
<1> QED  BY <1>4, <1>5, <1>6, <1>7, <1>8, <1>9, ControlClient DEF Client

\* The fields after tls_post_process_client_hello.
LEMMA HelloFields ==
    ASSUME NEW s, DOMAIN s = Fields, NEW c, s.early_data # "ACCEPTED"
    PROVE  LET t == PostProcessClientHello(s, c)
           IN  /\ Off(t, s, {"hit", "hello_retry_request", "early_data", "ticket_expected",
                             "secrets", "read_state", "state", "write_state"})
               /\ t.state = "WRITING" /\ t.write_state = "TRANSITION" /\ t.hit \in BOOLEAN
               /\ t.hello_retry_request = "PENDING" => t.early_data # "ACCEPTED"
               /\ \/ t.secrets = s.secrets
                  \/ /\ t.secrets = s.secrets \cup {ssl_encryption_early_data}
                     /\ "early" \in s.clienthello /\ t.hello_retry_request # "PENDING"
<1> DEFINE psk   == "psk" \in s.clienthello /\ c.acceptPsk
           retry == CASE s.hello_retry_request = "NONE" /\ c.hrr -> "PENDING"
                      [] s.hello_retry_request = "PENDING"       -> "COMPLETE"
                      [] OTHER -> s.hello_retry_request
           early == CASE "early" \notin s.clienthello -> s.early_data
                      [] /\ "early" \in s.clienthello
                         /\ psk /\ c.serverEarly = "accept"
                         /\ s.early_data_state = "ACCEPTING"
                         /\ retry = "NONE"            -> "ACCEPTED"
                      [] OTHER                        -> "REJECTED"
           x == c.ticketExpected
           v == [s EXCEPT !.hit = psk, !.hello_retry_request = retry,
                          !.early_data = early, !.ticket_expected = x]
           w == [v EXCEPT !.secrets = @ \cup {ssl_encryption_early_data}]
           y == IF early = "ACCEPTED" THEN w ELSE v
<1>1. quic_change_cipher_state(v, ssl_encryption_early_data, "read") = w
  <2> HIDE DEF v
  <2> QED  BY DEF quic_change_cipher_state
<1>2. PostProcessClientHello(s, c) = FINISHED_READING(y)
  <2>1. PostProcessClientHello(s, c) =
          FINISHED_READING(IF early = "ACCEPTED"
                           THEN quic_change_cipher_state(v, ssl_encryption_early_data, "read")
                           ELSE v)
    BY Zenon DEF PostProcessClientHello
  <2> HIDE DEF v, w, early
  <2> QED  BY <1>1, <2>1 DEF y
<1>3. psk \in BOOLEAN /\ (early = "ACCEPTED" => "early" \in s.clienthello /\ retry = "NONE")
  <2>1. psk \in BOOLEAN
    OBVIOUS
  <2> HIDE DEF psk, retry
  <2>2. early = "ACCEPTED" => "early" \in s.clienthello /\ retry = "NONE"
    <3>1. CASE "early" \notin s.clienthello
      <4>1. early = s.early_data
        BY <3>1
      <4> QED  BY <4>1
    <3>2. CASE "early" \in s.clienthello /\ retry # "NONE"
      <4>1. early = "REJECTED"
        BY <3>2
      <4> QED  BY <4>1
    <3> QED  BY <3>1, <3>2
  <2> QED  BY <2>1, <2>2
<1> HIDE DEF psk, retry, early, x
<1>4. /\ Off(y, s, {"hit", "hello_retry_request", "early_data", "ticket_expected", "secrets"})
      /\ y.hit = psk /\ y.hello_retry_request = retry /\ y.early_data = early
      /\ y.secrets = IF early = "ACCEPTED" THEN s.secrets \cup {ssl_encryption_early_data}
                     ELSE s.secrets
  BY DEF Off, Fields
<1> HIDE DEF y
<1>5. LET t == FINISHED_READING(y)
      IN  /\ Off(t, s, {"hit", "hello_retry_request", "early_data", "ticket_expected",
                        "secrets", "read_state", "state", "write_state"})
          /\ t.state = "WRITING" /\ t.write_state = "TRANSITION" /\ t.hit = y.hit
          /\ t.hello_retry_request = y.hello_retry_request /\ t.early_data = y.early_data
          /\ t.secrets = y.secrets
  BY <1>4 DEF FINISHED_READING, Off, Fields
<1> QED  BY <1>2, <1>3, <1>4, <1>5

\* post_process_message of a server: the ClientHello. Here the early data secret
\* is installed, and only for a ClientHello that asked for it.
LEMMA ServerPostProcess ==
    ASSUME NEW s, NEW c, Server(s, c), At(s, "READING", "POST_PROCESS"), s.call # "none"
    PROVE  ServerStep(s, PostProcessMessage(s, c), c)
<1> DEFINE t == PostProcessMessage(s, c)
<1> SUFFICES ServerStep(s, t, c)
  OBVIOUS
<1>1. /\ Shape(s) /\ Data(s, c) /\ Told(s) /\ ServerPlace(s, c)
      /\ {s.in_init, s.done, s.fresh} \subseteq BOOLEAN /\ DOMAIN s = Fields
      /\ s.state = "READING" /\ s.read_state = "POST_PROCESS"
  BY DEF Server, Endpoint, Shape, Flags, At
<1>2. s.hand_state = "SR_CLNT_HELLO" /\ s.early_data # "ACCEPTED"
  BY <1>1 DEF ServerPlace, ServerControl, At, Retrying
<1>3. t = PostProcessClientHello(s, c)
  BY <1>2 DEF PostProcessMessage
<1>4. /\ Off(t, s, {"hit", "hello_retry_request", "early_data", "ticket_expected",
                    "secrets", "read_state", "state", "write_state"})
      /\ t.state = "WRITING" /\ t.write_state = "TRANSITION" /\ t.hit \in BOOLEAN
      /\ t.hello_retry_request = "PENDING" => t.early_data # "ACCEPTED"
      /\ \/ t.secrets = s.secrets
         \/ /\ t.secrets = s.secrets \cup {ssl_encryption_early_data}
            /\ "early" \in s.clienthello /\ t.hello_retry_request # "PENDING"
  BY <1>1, <1>2, <1>3, HelloFields
<1> HIDE DEF t
<1>5. /\ t.quic_input_data = s.quic_input_data /\ t.clienthello = s.clienthello
      /\ t.msg = s.msg /\ t.transcript = s.transcript /\ t.in_init = s.in_init
      /\ t.call = s.call /\ t.rwstate = s.rwstate /\ t.hand_state = s.hand_state
      /\ t.done = s.done /\ t.flight = s.flight
      /\ t.quic_read_level = s.quic_read_level /\ t.quic_write_level = s.quic_write_level
      /\ t.extra_tickets_expected = s.extra_tickets_expected
  BY <1>4 DEF Off, Fields
<1>6. Off(t, s, ReadFields)
  BY <1>4 DEF Off, ReadFields
<1>7. /\ s.flight = <<>> /\ ~s.done /\ ~(s.extra_tickets_expected > 0) /\ s.transcript # <<>>
      /\ ~(/\ ssl_encryption_early_data \in s.secrets
           /\ ssl_encryption_application \notin s.secrets)
      /\ s.quic_read_level = ssl_encryption_initial
      /\ s.quic_write_level = ssl_encryption_initial
  BY <1>1, <1>2 DEF ServerPlace, ServerHolds, ServerKeys, ServerHellos
<1>8. Told(t)
  BY <1>1, <1>4, <1>5 DEF Told
<1>9. ServerPlace(t, c)
  <2>1. ServerControl(t)
    BY <1>2, <1>4, <1>5 DEF ServerControl, At
  <2>2. ServerKeys(t)
    BY <1>2, <1>4, <1>5, <1>7
       DEF ServerKeys, ServerHellos, ServerReading, ServerWriting, ServerOver, ServerFlight
  <2>3. ssl_encryption_early_data \in t.secrets /\ ssl_encryption_application \notin t.secrets
          => t.state = "WRITING" /\ t.hello_retry_request # "PENDING"
    BY <1>4, <1>7
  <2>4. t.early_data # "ACCEPTED" \/ t.hello_retry_request # "PENDING"
    BY <1>4
  <2> QED  BY <1>2, <1>4, <1>5, <1>7, <2>1, <2>2, <2>3, <2>4 DEF ServerPlace, At, Retrying
<1>10. /\ s.secrets \subseteq t.secrets /\ t.secrets \subseteq Level
       /\ t.quic_read_level \in Level /\ t.quic_read_level >= s.quic_read_level
       /\ CanDecrypt(t, t.quic_read_level)
       /\ t.msg \in Messages /\ t.transcript \in Seq(Kinds) /\ t.clienthello \subseteq Facts
  BY <1>1, <1>4, <1>5, <1>7
     DEF Data, Level, CanDecrypt, ssl_encryption_initial, ssl_encryption_early_data
<1>11. /\ {t.hit, t.in_init} \subseteq BOOLEAN
       /\ t.state \in {"UNINITED", "READING", "WRITING", "FINISHED", "ERROR"}
       /\ t.call \in {"none", "SSL_do_handshake", "SSL_process_quic_post_handshake"}
       /\ ssl_encryption_early_data \in t.secrets =>
             ssl_encryption_early_data \in s.secrets \/ "early" \in s.clienthello
  BY <1>1, <1>4, <1>5 DEF Shape
<1> QED  BY <1>5, <1>6, <1>7, <1>8, <1>9, <1>10, <1>11, ReadServer

-----------------------------------------------------------------------------
(* Writing *)

\* What Construct leaves when the state machine stops, has nothing to send, or
\* goes on to send a message.
Stopping(s)   == [tls_finish_handshake(s, TRUE) EXCEPT !.state = "FINISHED"]
Silent(s)     == [s EXCEPT !.write_state = "POST_WORK"]
Building(s, c) == [ConstructMessage(PreWork(s), c) EXCEPT !.write_state = "SEND"]

\* The fields of an endpoint whose pre-work stops it.
LEMMA StoppingFields ==
    ASSUME NEW s, DOMAIN s = Fields
    PROVE  LET t == Stopping(s)
           IN  /\ Off(t, s, {"cleanuphand", "ticket_expected", "in_init", "state"})
               /\ t.in_init = FALSE /\ t.state = "FINISHED"
<1> DEFINE v == IF s.cleanuphand
                THEN [s EXCEPT !.cleanuphand = FALSE, !.ticket_expected = FALSE] ELSE s
<1>1. Stopping(s) = [[v EXCEPT !.in_init = FALSE] EXCEPT !.state = "FINISHED"]
  BY DEF Stopping, tls_finish_handshake
<1>2. Off(v, s, {"cleanuphand", "ticket_expected"})
  BY DEF Off, Fields
<1> HIDE DEF v
<1> QED  BY <1>1, <1>2 DEF Off, Fields

\* The fields of an endpoint that has nothing to send.
LEMMA SilentFields ==
    ASSUME NEW s, DOMAIN s = Fields
    PROVE  Off(Silent(s), s, {"write_state"}) /\ Silent(s).write_state = "POST_WORK"
BY DEF Silent, Off, Fields

\* Pre-work stops a client.
LEMMA ClientStops ==
    ASSUME NEW s, NEW c, Client(s, c), s.call # "none", At(s, "WRITING", "PRE_WORK"),
           PreWorkStops(s)
    PROVE  ClientStep(s, Stopping(s), c)
<1> DEFINE t == Stopping(s)
<1> SUFFICES ClientStep(s, t, c)
  OBVIOUS
<1>1. /\ Shape(s) /\ Told(s) /\ ClientPlace(s, c) /\ {s.in_init, s.done, s.fresh} \subseteq BOOLEAN
      /\ DOMAIN s = Fields /\ s.state = "WRITING" /\ s.write_state = "PRE_WORK"
      /\ s.early_data_state \in {"NONE", "CONNECTING", "WRITE_RETRY", "FINISHED_WRITING"}
  BY DEF Client, Endpoint, Shape, Flags, At
<1>2. /\ Off(t, s, {"cleanuphand", "ticket_expected", "in_init", "state"})
      /\ t.in_init = FALSE /\ t.state = "FINISHED"
  BY <1>1, StoppingFields
<1> HIDE DEF t
<1>3. Off(t, s, Control)
  BY <1>2, OffMore DEF Control, DataFields, Fields
<1>4. /\ t.hand_state = s.hand_state /\ t.read_state = s.read_state /\ t.done = s.done
      /\ t.fresh = s.fresh /\ t.call = s.call /\ t.rwstate = s.rwstate
      /\ t.early_data_state = s.early_data_state
  BY <1>2 DEF Off, Fields
<1>5. \/ s.hand_state = "OK"
      \/ s.hand_state = "EARLY_DATA" /\ s.early_data_state = "CONNECTING"
  BY <1>1 DEF PreWorkStops, ClientPlace, ClientControl, At, ClientWrites
<1>6. Shape(t)
  <2>1. /\ {t.in_init, t.done, t.fresh} \subseteq BOOLEAN
        /\ t.state \in {"UNINITED", "READING", "WRITING", "FINISHED", "ERROR"}
        /\ t.call \in {"none", "SSL_do_handshake", "SSL_process_quic_post_handshake"}
    BY <1>1, <1>2, <1>4 DEF Shape
  <2> QED  BY <1>1, <1>3, <2>1, KeepShape
<1>7. Told(t)
  BY <1>1, <1>2, <1>4 DEF Told
<1>8. ClientPlace(t, c)
  <2>1. ClientControl(t)
    BY <1>2, <1>4, <1>5 DEF ClientControl
  <2>2. ClientKeys(t)
    BY <1>1, <1>3, <1>4, <1>5, SameFields
       DEF ClientPlace, ClientKeys, ClientHellos, ClientReading, ClientWriting, ClientOver,
           ClientReads
  <2> QED  BY <1>1, <1>2, <1>3, <1>4, <1>5, <2>1, <2>2, SameFields
           DEF ClientPlace, ClientHolds, At
<1>9. Known(s) => Known(t)
  BY <1>1, <1>3, SameFields DEF Known, At
<1> QED  BY <1>1, <1>3, <1>4, <1>6, <1>7, <1>8, <1>9, ControlClient

\* A client has nothing to send in this state.
LEMMA ClientSilent ==
    ASSUME NEW s, NEW c, Client(s, c), s.call # "none", At(s, "WRITING", "PRE_WORK"),
           ~PreWorkStops(s), s.hand_state \in NothingToSend
    PROVE  ClientStep(s, Silent(s), c)
<1> DEFINE t == Silent(s)
<1> SUFFICES ClientStep(s, t, c)
  OBVIOUS
<1>1. /\ Shape(s) /\ Told(s) /\ ClientPlace(s, c) /\ {s.in_init, s.done, s.fresh} \subseteq BOOLEAN
      /\ DOMAIN s = Fields /\ s.state = "WRITING" /\ s.write_state = "PRE_WORK"
      /\ s.server = FALSE
      /\ s.early_data_state \in {"NONE", "CONNECTING", "WRITE_RETRY", "FINISHED_WRITING"}
  BY DEF Client, Endpoint, Shape, Flags, At
<1>2. Off(t, s, {"write_state"}) /\ t.write_state = "POST_WORK"
  BY <1>1, SilentFields
<1> HIDE DEF t
<1>3. Off(t, s, Control)
  BY <1>2, OffMore DEF Control, DataFields, Fields
<1>4. /\ t.hand_state = s.hand_state /\ t.read_state = s.read_state /\ t.done = s.done
      /\ t.fresh = s.fresh /\ t.call = s.call /\ t.rwstate = s.rwstate
      /\ t.early_data_state = s.early_data_state /\ t.state = s.state /\ t.in_init = s.in_init
  BY <1>2 DEF Off, Fields
<1>5. s.hand_state \in {"PENDING_EARLY_DATA_END", "CW_END_OF_EARLY_DATA"}
  BY <1>1 DEF PreWorkStops, NothingToSend
<1>6. Shape(t)
  BY <1>1, <1>2, <1>3, <1>4, KeepShape DEF Shape
<1>7. Told(t)
  BY <1>1, <1>4 DEF Told
<1>8. ClientPlace(t, c)
  <2>1. ClientControl(t)
    BY <1>1, <1>2, <1>4, <1>5 DEF ClientControl, At
  <2>2. ClientKeys(t)
    BY <1>1, <1>3, <1>4, <1>5, SameFields
       DEF ClientPlace, ClientKeys, ClientHellos, ClientReading, ClientWriting, ClientOver,
           ClientReads
  <2> QED  BY <1>1, <1>2, <1>3, <1>4, <1>5, <2>1, <2>2, SameFields
           DEF ClientPlace, ClientHolds, At
<1>9. Known(s) => Known(t)
  BY <1>1, <1>3, SameFields DEF Known, At
<1> QED  BY <1>1, <1>3, <1>4, <1>6, <1>7, <1>8, <1>9, ControlClient

\* Pre-work stops a server.
LEMMA ServerStops ==
    ASSUME NEW s, NEW c, Server(s, c), s.call # "none", At(s, "WRITING", "PRE_WORK"),
           PreWorkStops(s)
    PROVE  ServerStep(s, Stopping(s), c)
<1> DEFINE t == Stopping(s)
<1> SUFFICES ServerStep(s, t, c)
  OBVIOUS
<1>1. /\ Shape(s) /\ Told(s) /\ ServerPlace(s, c) /\ {s.in_init, s.done, s.fresh} \subseteq BOOLEAN
      /\ DOMAIN s = Fields /\ s.state = "WRITING" /\ s.write_state = "PRE_WORK"
      /\ s.early_data_state \in {"NONE", "ACCEPTING", "FINISHED_READING"}
      /\ s.server = TRUE /\ s.extra_tickets_expected \in Nat
  BY DEF Server, Endpoint, Shape, Flags, At
<1>2. /\ Off(t, s, {"cleanuphand", "ticket_expected", "in_init", "state"})
      /\ t.in_init = FALSE /\ t.state = "FINISHED"
  BY <1>1, StoppingFields
<1> HIDE DEF t
<1>3. Off(t, s, Control)
  BY <1>2, OffMore DEF Control, DataFields, Fields
<1>4. /\ t.hand_state = s.hand_state /\ t.read_state = s.read_state /\ t.done = s.done
      /\ t.fresh = s.fresh /\ t.call = s.call /\ t.rwstate = s.rwstate
      /\ t.early_data_state = s.early_data_state /\ t.early_data = s.early_data
      /\ t.hello_retry_request = s.hello_retry_request /\ t.write_state = s.write_state
      /\ t.extra_tickets_expected = s.extra_tickets_expected
  BY <1>2 DEF Off, Fields
<1>5. \/ s.hand_state = "OK"
      \/ s.hand_state = "EARLY_DATA" /\ s.early_data_state = "ACCEPTING"
  BY <1>1 DEF PreWorkStops, ServerPlace, ServerControl, At, ServerWrites, ServerFlight
<1>6. Shape(t)
  <2>1. /\ {t.in_init, t.done, t.fresh} \subseteq BOOLEAN
        /\ t.state \in {"UNINITED", "READING", "WRITING", "FINISHED", "ERROR"}
        /\ t.call \in {"none", "SSL_do_handshake", "SSL_process_quic_post_handshake"}
    BY <1>1, <1>2, <1>4 DEF Shape
  <2> QED  BY <1>1, <1>3, <2>1, KeepShape
<1>7. Told(t)
  BY <1>1, <1>2, <1>4 DEF Told
<1>8. ServerPlace(t, c)
  <2>1. ServerControl(t)
    BY <1>2, <1>4, <1>5 DEF ServerControl
  <2>2. ServerKeys(t)
    BY <1>1, <1>3, <1>4, <1>5, SameFields
       DEF ServerPlace, ServerKeys, ServerHellos, ServerReading, ServerWriting, ServerOver,
           ServerFlight
  <2>3. /\ t.flight = <<>> /\ t.transcript # <<>> /\ ~At(t, "WRITING", "SEND")
        /\ t.hand_state # "BEFORE" /\ ~(t.extra_tickets_expected > 0)
    BY <1>1, <1>2, <1>3, <1>4, <1>5, SameFields DEF ServerPlace, ServerHolds, At, ServerFlight
  <2>4. ~(/\ ssl_encryption_early_data \in t.secrets
          /\ ssl_encryption_application \notin t.secrets)
    BY <1>1, <1>3, <1>5, SameFields
       DEF ServerPlace, ServerKeys, ServerReading, ServerOver, Protected
  <2>5. (t.done => t.hand_state \in {"OK", "SW_SESSION_TICKET"})
        /\ (Retrying(t) => t.early_data # "ACCEPTED")
    BY <1>1, <1>2, <1>4, <1>5 DEF ServerPlace, Retrying
  <2> QED  BY <2>1, <2>2, <2>3, <2>4, <2>5 DEF ServerPlace
<1> QED  BY <1>1, <1>3, <1>4, <1>6, <1>7, <1>8, ControlServer

\* A server has nothing to send in this state.
LEMMA ServerSilent ==
    ASSUME NEW s, NEW c, Server(s, c), s.call # "none", At(s, "WRITING", "PRE_WORK"),
           ~PreWorkStops(s), s.hand_state \in NothingToSend
    PROVE  ServerStep(s, Silent(s), c)
<1> DEFINE t == Silent(s)
<1> SUFFICES ServerStep(s, t, c)
  OBVIOUS
<1>1. /\ Shape(s) /\ Told(s) /\ ServerPlace(s, c) /\ {s.in_init, s.done, s.fresh} \subseteq BOOLEAN
      /\ DOMAIN s = Fields /\ s.state = "WRITING" /\ s.write_state = "PRE_WORK"
      /\ s.early_data_state \in {"NONE", "ACCEPTING", "FINISHED_READING"}
      /\ s.extra_tickets_expected \in Nat
  BY DEF Server, Endpoint, Shape, Flags, At
<1>2. Off(t, s, {"write_state"}) /\ t.write_state = "POST_WORK"
  BY <1>1, SilentFields
<1> HIDE DEF t
<1>3. Off(t, s, Control)
  BY <1>2, OffMore DEF Control, DataFields, Fields
<1>4. /\ t.hand_state = s.hand_state /\ t.read_state = s.read_state /\ t.done = s.done
      /\ t.fresh = s.fresh /\ t.call = s.call /\ t.rwstate = s.rwstate
      /\ t.early_data_state = s.early_data_state /\ t.early_data = s.early_data
      /\ t.hello_retry_request = s.hello_retry_request /\ t.state = s.state
      /\ t.in_init = s.in_init /\ t.extra_tickets_expected = s.extra_tickets_expected
  BY <1>2 DEF Off, Fields
<1>5. s.hand_state = "EARLY_DATA"
  BY <1>1 DEF ServerPlace, ServerControl, At, ServerWrites, ServerFlight, NothingToSend
<1>6. Shape(t)
  BY <1>1, <1>3, <1>4, KeepShape DEF Shape
<1>7. Told(t)
  BY <1>1, <1>4 DEF Told
<1>8. ServerPlace(t, c)
  <2>1. ServerControl(t)
    BY <1>1, <1>2, <1>4, <1>5 DEF ServerControl, At
  <2>2. ServerKeys(t)
    BY <1>1, <1>3, <1>4, <1>5, SameFields
       DEF ServerPlace, ServerKeys, ServerHellos, ServerReading, ServerWriting, ServerOver,
           ServerFlight
  <2> QED  BY <1>1, <1>2, <1>3, <1>4, <1>5, <2>1, <2>2, SameFields
           DEF ServerPlace, ServerHolds, At, Retrying, ServerFlight
<1> QED  BY <1>1, <1>3, <1>4, <1>6, <1>7, <1>8, ControlServer

\* A message without a digest.
LEMMA BareMessage ==
    ASSUME NEW type \in Types, NEW has \in SUBSET Facts
    PROVE  /\ Msg(type, has) \in Messages
           /\ Msg(type, has).type = type /\ Msg(type, has).has = has
<1> DEFINE e == <<>>
<1>1. e \in Seq(Kinds)
  OBVIOUS
<1> HIDE DEF e
<1>2. [type |-> type, has |-> has, mac |-> e] \in Messages
  BY <1>1 DEF Messages
<1>3. Msg(type, has) = [type |-> type, has |-> has, mac |-> e]
  BY DEF Msg, e
<1> QED  BY <1>2, <1>3

\* A Finished, with the digest of the transcript.
LEMMA FinishedMessage ==
    ASSUME NEW mac \in Seq(Kinds)
    PROVE  LET m == [Msg("FINISHED", {}) EXCEPT !.mac = mac]
           IN  m \in Messages /\ m.type = "FINISHED" /\ m.has = {}
<1> DEFINE y == "FINISHED"
           h == {}
<1>1. y \in Types /\ h \in SUBSET Facts
  BY DEF Types
<1> HIDE DEF y, h
<1> DEFINE e == Msg(y, h)
<1>2. e \in Messages /\ e.type = y /\ e.has = h
  BY <1>1, BareMessage
<1> HIDE DEF e
<1>3. /\ [e EXCEPT !.mac = mac] \in Messages
      /\ [e EXCEPT !.mac = mac].type = y /\ [e EXCEPT !.mac = mac].has = h
  BY <1>2 DEF Messages
<1> QED  BY <1>3 DEF e, y, h

\* A client's keys when it starts to write at the handshake level.
LEMMA DeferredFields ==
    ASSUME NEW s, DOMAIN s = Fields, s.server = FALSE
    PROVE  LET t == DeferredWriteKeys(s)
           IN  /\ Off(t, s, {"quic_write_level"})
               /\ t.quic_write_level \in {s.quic_write_level, ssl_encryption_handshake}
<1>1. ssl_encryption_handshake # ssl_encryption_early_data
  BY DEF ssl_encryption_handshake, ssl_encryption_early_data
<1> QED  BY <1>1 DEF DeferredWriteKeys, quic_change_cipher_state, Off, Fields

\* The messages of a client.
Spoken(s, t, c) ==
    /\ Off(t, s, {"max_early_data", "msg", "early_data", "quic_write_level", "cleanuphand"})
    /\ t.msg \in Messages /\ t.msg.has # {"hrr"} /\ t.msg.type # "NEWSESSION_TICKET"
    /\ t.max_early_data = s.max_early_data
       \/ t.max_early_data = (s.early_data_state = "CONNECTING" /\ c.clientEarly = "on")
    /\ "early" \in t.msg.has => /\ s.hand_state = "CW_CLNT_HELLO" /\ t.max_early_data
                                /\ s.early_data_state = "CONNECTING"
    /\ \/ t.quic_write_level = s.quic_write_level
       \/ /\ t.quic_write_level = ssl_encryption_handshake
          /\ s.hand_state \in {"CW_CERT", "CW_FINISHED"}

\* A client constructs its ClientHello.
LEMMA ClientHelloSpoken ==
    ASSUME NEW s, DOMAIN s = Fields, NEW c, s.hand_state = "CW_CLNT_HELLO"
    PROVE  Spoken(s, ConstructMessage(s, c), c)
<1> DEFINE early == s.early_data_state = "CONNECTING" /\ c.clientEarly = "on"
           has == {x \in {"psk", "early"} : IF x = "psk" THEN c.session ELSE early}
           m == Msg("CLIENT_HELLO", has)
           v == [s EXCEPT !.max_early_data = early, !.msg = m]
           t == IF early THEN [v EXCEPT !.early_data = "REJECTED"] ELSE v
<1>1. ConstructMessage(s, c) = t
  BY DEF ConstructMessage, ConstructClientHello
<1>2. has \in SUBSET Facts /\ has # {"hrr"} /\ ("early" \in has => early)
  BY DEF Facts
<1>3. early \in BOOLEAN /\ (early => s.early_data_state = "CONNECTING")
  OBVIOUS
<1> HIDE DEF has
<1>4. "CLIENT_HELLO" \in Types
  BY DEF Types
<1>5. m \in Messages /\ m.type = "CLIENT_HELLO" /\ m.has = has
  BY <1>2, <1>4, BareMessage
<1> HIDE DEF early, m
<1>6. /\ Off(t, s, {"max_early_data", "msg", "early_data"})
      /\ t.msg = m /\ t.max_early_data = early /\ t.quic_write_level = s.quic_write_level
  BY DEF Off, Fields
<1> HIDE DEF t
<1>7. Off(t, s, {"max_early_data", "msg", "early_data", "quic_write_level", "cleanuphand"})
  BY <1>6, OffMore
<1>8. t.max_early_data = (s.early_data_state = "CONNECTING" /\ c.clientEarly = "on")
  BY <1>6 DEF early
<1> QED  BY <1>1, <1>2, <1>3, <1>5, <1>6, <1>7, <1>8 DEF Spoken

\* A client constructs its Certificate or CertificateVerify.
LEMMA ClientCertificateSpoken ==
    ASSUME NEW s, DOMAIN s = Fields, NEW c, s.server = FALSE,
           s.hand_state \in {"CW_CERT", "CW_CERT_VRFY"}
    PROVE  Spoken(s, ConstructMessage(s, c), c)
<1>1. CASE s.hand_state = "CW_CERT"
  <2> DEFINE has == IF s.cert_req = 2 THEN {"empty"} ELSE {}
             y == "CERTIFICATE"
             m == Msg(y, has)
             v == DeferredWriteKeys(s)
             t == [v EXCEPT !.msg = m]
  <2>1. ConstructMessage(s, c) = t
    BY <1>1 DEF ConstructMessage
  <2>2. has \in SUBSET Facts /\ has # {"hrr"} /\ "early" \notin has
    BY DEF Facts
  <2>3. y \in Types /\ y # "NEWSESSION_TICKET"
    BY DEF Types
  <2> HIDE DEF has, y
  <2>4. m \in Messages /\ m.type = y /\ m.has = has
    BY <2>2, <2>3, BareMessage
  <2>5. /\ Off(v, s, {"quic_write_level"})
        /\ v.quic_write_level \in {s.quic_write_level, ssl_encryption_handshake}
    BY DeferredFields
  <2> HIDE DEF m, v
  <2>6. /\ Off(t, s, {"msg", "quic_write_level"}) /\ t.msg = m
        /\ t.quic_write_level = v.quic_write_level /\ t.max_early_data = s.max_early_data
    BY <2>5 DEF Off, Fields
  <2> HIDE DEF t
  <2>7. Off(t, s, {"max_early_data", "msg", "early_data", "quic_write_level", "cleanuphand"})
    BY <2>6, OffMore
  <2> QED  BY <1>1, <2>1, <2>2, <2>3, <2>4, <2>5, <2>6, <2>7 DEF Spoken
<1>2. CASE s.hand_state = "CW_CERT_VRFY"
  <2> DEFINE has == {}
             y == "CERTIFICATE_VERIFY"
             m == Msg(y, has)
             t == [s EXCEPT !.msg = m]
  <2>1. ConstructMessage(s, c) = t
    BY <1>2 DEF ConstructMessage
  <2>2. has \in SUBSET Facts /\ has # {"hrr"} /\ "early" \notin has
    OBVIOUS
  <2>3. y \in Types /\ y # "NEWSESSION_TICKET"
    BY DEF Types
  <2> HIDE DEF has, y
  <2>4. m \in Messages /\ m.type = y /\ m.has = has
    BY <2>2, <2>3, BareMessage
  <2> HIDE DEF m
  <2>5. /\ Off(t, s, {"msg"}) /\ t.msg = m
        /\ t.quic_write_level = s.quic_write_level /\ t.max_early_data = s.max_early_data
    BY DEF Off, Fields
  <2> HIDE DEF t
  <2>6. Off(t, s, {"max_early_data", "msg", "early_data", "quic_write_level", "cleanuphand"})
    BY <2>5, OffMore
  <2> QED  BY <2>1, <2>2, <2>3, <2>4, <2>5, <2>6 DEF Spoken
<1> QED  BY <1>1, <1>2

\* A client constructs its Finished.
LEMMA ClientFinishedSpoken ==
    ASSUME NEW s, DOMAIN s = Fields, NEW c, s.server = FALSE,
           s.hand_state = "CW_FINISHED", s.transcript \in Seq(Kinds)
    PROVE  Spoken(s, ConstructMessage(s, c), c)
<1> DEFINE m == [Msg("FINISHED", {}) EXCEPT !.mac = s.transcript]
           v == IF ~s.server /\ s.cert_req = 0 THEN DeferredWriteKeys(s) ELSE s
           t == [v EXCEPT !.cleanuphand = @ \/ ~s.server, !.msg = m]
<1>1. ConstructMessage(s, c) = t
  BY DEF ConstructMessage, ConstructFinished
<1>2. m \in Messages /\ m.type = "FINISHED" /\ m.has = {}
  BY FinishedMessage
<1>3. /\ Off(v, s, {"quic_write_level"})
      /\ v.quic_write_level \in {s.quic_write_level, ssl_encryption_handshake}
  <2>1. /\ Off(DeferredWriteKeys(s), s, {"quic_write_level"})
        /\ DeferredWriteKeys(s).quic_write_level \in
              {s.quic_write_level, ssl_encryption_handshake}
    BY DeferredFields
  <2>2. Off(s, s, {"quic_write_level"})
    BY DEF Off
  <2> QED  BY <2>1, <2>2
<1> HIDE DEF m, v
<1>4. /\ Off(t, s, {"msg", "quic_write_level", "cleanuphand"}) /\ t.msg = m
      /\ t.quic_write_level = v.quic_write_level /\ t.max_early_data = s.max_early_data
  BY <1>3 DEF Off, Fields
<1> HIDE DEF t
<1>5. Off(t, s, {"max_early_data", "msg", "early_data", "quic_write_level", "cleanuphand"})
  BY <1>4, OffMore
<1> QED  BY <1>1, <1>2, <1>3, <1>4, <1>5 DEF Spoken

\* Construct of a client that goes on to send.
LEMMA ClientBuilds ==
    ASSUME NEW s, NEW c, Client(s, c), s.call # "none", At(s, "WRITING", "PRE_WORK"),
           ~PreWorkStops(s), s.hand_state \notin NothingToSend
    PROVE  ClientStep(s, Building(s, c), c)
<1> DEFINE u == ConstructMessage(s, c)
           t == Building(s, c)
<1> SUFFICES ClientStep(s, t, c)
  OBVIOUS
<1>1. /\ Shape(s) /\ Data(s, c) /\ Told(s) /\ ClientPlace(s, c)
      /\ {s.in_init, s.done, s.fresh, s.hit, s.max_early_data} \subseteq BOOLEAN
      /\ DOMAIN s = Fields /\ s.state = "WRITING" /\ s.write_state = "PRE_WORK"
      /\ s.server = FALSE /\ (s.max_early_data => c.clientEarly = "on")
  BY DEF Client, Endpoint, Shape, Flags, At
<1>2. s.hand_state \in ClientWrites
  BY <1>1 DEF ClientPlace, ClientControl, At, PreWorkStops, NothingToSend, ClientWrites
<1>3. t = [u EXCEPT !.write_state = "SEND"]
  BY <1>2 DEF Building, PreWork, ClientWrites
<1>4. Spoken(s, u, c)
  <2>1. s.transcript \in Seq(Kinds)
    BY <1>1 DEF Data
  <2> QED  BY <1>1, <1>2, <2>1, ClientHelloSpoken, ClientCertificateSpoken, ClientFinishedSpoken
           DEF ClientWrites
<1> HIDE DEF u, t
<1>5. /\ Off(t, s, {"max_early_data", "msg", "early_data", "quic_write_level", "cleanuphand",
                    "write_state"})
      /\ t.write_state = "SEND" /\ t.msg = u.msg /\ t.max_early_data = u.max_early_data
      /\ t.quic_write_level = u.quic_write_level
  BY <1>3, <1>4 DEF Spoken, Off, Fields
<1>6. /\ t.state = s.state /\ t.hand_state = s.hand_state /\ t.read_state = s.read_state
      /\ t.in_init = s.in_init /\ t.done = s.done /\ t.fresh = s.fresh /\ t.call = s.call
      /\ t.rwstate = s.rwstate /\ t.early_data_state = s.early_data_state
      /\ t.server = s.server /\ t.hit = s.hit /\ t.flight = s.flight
      /\ t.transcript = s.transcript /\ t.secrets = s.secrets
      /\ t.quic_read_level = s.quic_read_level /\ t.clienthello = s.clienthello
      /\ t.quic_input_data = s.quic_input_data /\ DOMAIN t = Fields
  BY <1>5 DEF Off, Fields
<1>7. /\ t.max_early_data \in BOOLEAN /\ (t.max_early_data => c.clientEarly = "on")
  BY <1>1, <1>4, <1>5 DEF Spoken
<1>8. Shape(t)
  BY <1>1, <1>6, <1>7 DEF Shape, Flags
<1>9. Told(t)
  BY <1>1, <1>6 DEF Told
\* The write level goes up only where the handshake secrets are.
<1>10. \/ t.quic_write_level = s.quic_write_level
       \/ /\ t.quic_write_level = ssl_encryption_handshake /\ s.quic_write_level \in Before
          /\ Protected \subseteq s.secrets /\ ClientWriting(s)
  <2>1. s.hand_state \in {"CW_CERT", "CW_FINISHED"} => ClientWriting(s)
    BY <1>1 DEF ClientWriting
  <2> QED  BY <1>1, <1>4, <1>5, <2>1 DEF Spoken, ClientPlace, ClientKeys
<1>11. /\ t.quic_write_level \in Level /\ t.quic_write_level >= s.quic_write_level
       /\ s.quic_read_level \in Level /\ t.quic_read_level >= s.quic_read_level
       /\ CanDecrypt(t, t.quic_write_level) /\ CanDecrypt(t, t.quic_read_level)
  BY <1>1, <1>6, <1>10
     DEF Data, Level, CanDecrypt, Before, Protected, ssl_encryption_initial,
         ssl_encryption_handshake
<1>12. Data(t, c)
  <2>1. /\ s.secrets \subseteq t.secrets /\ t.secrets \subseteq Level
        /\ t.quic_input_data \in Seq(Entries) /\ t.transcript \in Seq(Kinds)
        /\ t.msg \in Messages /\ t.clienthello \subseteq Facts
    BY <1>1, <1>4, <1>5, <1>6 DEF Data, Spoken
  <2> QED  BY <1>1, <1>6, <1>11, <2>1, KeepData
<1>13. Known(s) => Known(t)
  BY <1>1, <1>6 DEF Known, At
<1>14. ClientPlace(t, c)
  <2>1. ClientControl(t)
    BY <1>1, <1>2, <1>5, <1>6 DEF ClientControl, At
  <2>2. ClientKeys(t)
    BY <1>1, <1>5, <1>6, <1>10
       DEF ClientPlace, ClientKeys, ClientHellos, ClientReading, ClientWriting, ClientOver,
           ClientReads, Before
  <2>3. t.flight # <<>> /\ ~(c.defer /\ c.clientEarly = "on") => ClientHolds(t)
    BY <1>1, <1>5, <1>6 DEF ClientPlace, ClientHolds
  <2>4. /\ t.msg.has # {"hrr"} /\ t.msg.type # "NEWSESSION_TICKET"
        /\ "early" \in t.msg.has => /\ t.hand_state = "CW_CLNT_HELLO" /\ t.max_early_data
                                    /\ t.early_data_state = "CONNECTING"
    BY <1>4, <1>5, <1>6 DEF Spoken
  <2> QED  BY <1>1, <1>2, <1>5, <1>6, <2>1, <2>2, <2>3, <2>4 DEF ClientPlace, ClientWrites, At
<1>15. \A i \in 1 .. Len(t.flight) : FromClient(t.flight[i], t)
  BY <1>6, <1>13, KeepFlight
<1>16. Forward(s, t)
  BY <1>6, <1>11 DEF Forward
<1> QED  BY <1>1, <1>6, <1>7, <1>8, <1>9, <1>12, <1>13, <1>14, <1>15, <1>16
         DEF ClientStep, Client, Endpoint

\* The messages of a server.
Replied(s, t) ==
    /\ Off(t, s, {"hit", "transcript", "msg", "cert_req", "cleanuphand", "ticket_expected",
                  "in_init", "sent_tickets", "extra_tickets_expected"})
    /\ t.msg \in Messages /\ t.hit \in BOOLEAN /\ t.in_init = s.in_init
    /\ t.transcript \in Seq(Kinds) /\ t.transcript # <<>>
    /\ t.extra_tickets_expected \in Nat
    /\ t.extra_tickets_expected > 0 => s.extra_tickets_expected > 0
    /\ s.hand_state = "SW_SESSION_TICKET" =>
          t.msg.type = "NEWSESSION_TICKET" /\ t.transcript = s.transcript /\ t.hit = s.hit

\* What of a server matters to the messages it constructs.
Speaks(s) ==
    /\ DOMAIN s = Fields /\ s.server = TRUE /\ s.hit \in BOOLEAN /\ s.in_init = TRUE
    /\ s.transcript \in Seq(Kinds) /\ s.transcript # <<>> /\ s.extra_tickets_expected \in Nat

\* A server constructs its ServerHello or HelloRetryRequest.
LEMMA ServerHelloReplied ==
    ASSUME NEW s, Speaks(s), NEW c, s.hand_state = "SW_SRVR_HELLO"
    PROVE  Replied(s, ConstructMessage(s, c))
<1>1. ConstructMessage(s, c) = ConstructServerHello(s)
  BY DEF ConstructMessage
<1> DEFINE y == "SERVER_HELLO"
           h == IF s.hello_retry_request = "PENDING" THEN {"hrr"}
                ELSE IF s.hit THEN {"psk"} ELSE {}
           m == Msg(y, h)
           q == MessageHash(s.transcript)
           t == IF s.hello_retry_request = "PENDING"
                THEN [s EXCEPT !.hit = FALSE, !.transcript = q, !.msg = m]
                ELSE [s EXCEPT !.msg = m]
<1>2. ConstructServerHello(s) = t
  <2>1. CASE s.hello_retry_request = "PENDING"
    BY <2>1 DEF ConstructServerHello
  <2>2. CASE s.hello_retry_request # "PENDING"
    BY <2>2 DEF ConstructServerHello
  <2> QED  BY <2>1, <2>2
<1>3. y \in Types /\ h \in SUBSET Facts
  BY DEF Types, Facts
<1> HIDE DEF y, h
<1>4. m \in Messages
  BY <1>3, BareMessage
<1>5. q \in Seq(Kinds) /\ q # <<>>
  BY Hash DEF Speaks
<1> HIDE DEF m, q
<1>6. /\ Off(t, s, {"hit", "transcript", "msg"}) /\ t.msg = m
      /\ t.hit \in {s.hit, FALSE} /\ t.transcript \in {s.transcript, q}
      /\ t.in_init = s.in_init /\ t.extra_tickets_expected = s.extra_tickets_expected
  BY DEF Off, Fields, Speaks
<1> HIDE DEF t
<1>7. Off(t, s, {"hit", "transcript", "msg", "cert_req", "cleanuphand", "ticket_expected",
                 "in_init", "sent_tickets", "extra_tickets_expected"})
  BY <1>6, OffMore
<1> QED  BY <1>1, <1>2, <1>4, <1>5, <1>6, <1>7 DEF Replied, Speaks

\* A server constructs what comes between ServerHello and Finished.
LEMMA ServerFlightReplied ==
    ASSUME NEW s, Speaks(s), NEW c, s.hand_state \in ServerFlight
    PROVE  Replied(s, ConstructMessage(s, c))
<1> DEFINE y == CASE s.hand_state = "SW_ENCRYPTED_EXTENSIONS" -> "ENCRYPTED_EXTENSIONS"
                  [] s.hand_state = "SW_CERT_REQ"             -> "CERTIFICATE_REQUEST"
                  [] s.hand_state = "SW_CERT"                 -> "CERTIFICATE"
                  [] s.hand_state = "SW_CERT_VRFY"            -> "CERTIFICATE_VERIFY"
           h == IF s.hand_state = "SW_ENCRYPTED_EXTENSIONS" /\ s.early_data = "ACCEPTED"
                THEN {"early"} ELSE {}
           m == Msg(y, h)
           r == IF s.hand_state = "SW_CERT_REQ" THEN 1 ELSE s.cert_req
           t == ConstructMessage(s, c)
<1>1. y \in Types /\ h \in SUBSET Facts
  BY DEF Types, Facts, ServerFlight
<1>2. t = [s EXCEPT !.msg = m] \/ t = [s EXCEPT !.cert_req = 1, !.msg = m]
  <2>1. CASE s.hand_state = "SW_ENCRYPTED_EXTENSIONS"
    BY <2>1 DEF ConstructMessage
  <2>2. CASE s.hand_state = "SW_CERT_REQ"
    BY <2>2 DEF ConstructMessage
  <2>3. CASE s.hand_state = "SW_CERT"
    BY <2>3 DEF ConstructMessage
  <2>4. CASE s.hand_state = "SW_CERT_VRFY"
    BY <2>4 DEF ConstructMessage
  <2> QED  BY <2>1, <2>2, <2>3, <2>4 DEF ServerFlight
<1> HIDE DEF y, h
<1>3. m \in Messages
  BY <1>1, BareMessage
<1> HIDE DEF m, t
<1>4. /\ Off(t, s, {"msg", "cert_req"}) /\ t.msg = m
      /\ t.hit = s.hit /\ t.transcript = s.transcript
      /\ t.in_init = s.in_init /\ t.extra_tickets_expected = s.extra_tickets_expected
  BY <1>2 DEF Off, Fields, Speaks
<1>5. Off(t, s, {"hit", "transcript", "msg", "cert_req", "cleanuphand", "ticket_expected",
                 "in_init", "sent_tickets", "extra_tickets_expected"})
  BY <1>4, OffMore
<1> QED  BY <1>3, <1>4, <1>5 DEF Replied, Speaks, t, ServerFlight

\* A server constructs its Finished.
LEMMA ServerFinishedReplied ==
    ASSUME NEW s, Speaks(s), NEW c, s.hand_state = "SW_FINISHED"
    PROVE  Replied(s, ConstructMessage(s, c))
<1> DEFINE m == [Msg("FINISHED", {}) EXCEPT !.mac = s.transcript]
           t == [s EXCEPT !.cleanuphand = @ \/ ~s.server, !.msg = m]
<1>1. ConstructMessage(s, c) = t
  BY DEF ConstructMessage, ConstructFinished, Speaks
<1>2. m \in Messages
  BY FinishedMessage DEF Speaks
<1> HIDE DEF m
<1>3. /\ Off(t, s, {"msg", "cleanuphand"}) /\ t.msg = m
      /\ t.hit = s.hit /\ t.transcript = s.transcript
      /\ t.in_init = s.in_init /\ t.extra_tickets_expected = s.extra_tickets_expected
  BY DEF Off, Fields, Speaks
<1> HIDE DEF t
<1>4. Off(t, s, {"hit", "transcript", "msg", "cert_req", "cleanuphand", "ticket_expected",
                 "in_init", "sent_tickets", "extra_tickets_expected"})
  BY <1>3, OffMore
<1> QED  BY <1>1, <1>2, <1>3, <1>4 DEF Replied, Speaks

\* The fields after pre-work that goes on.
LEMMA PreWorkFields ==
    ASSUME NEW s, DOMAIN s = Fields, s.in_init = TRUE
    PROVE  /\ Off(PreWork(s), s, {"cleanuphand", "ticket_expected", "in_init"})
           /\ PreWork(s).in_init = TRUE
           /\ s.hand_state # "SW_SESSION_TICKET" => PreWork(s) = s
<1> DEFINE v == IF s.cleanuphand
                THEN [s EXCEPT !.cleanuphand = FALSE, !.ticket_expected = FALSE] ELSE s
           w == [v EXCEPT !.in_init = TRUE]
<1>1. tls_finish_handshake(s, FALSE) = w
  BY DEF tls_finish_handshake
<1>2. Off(v, s, {"cleanuphand", "ticket_expected"})
  BY DEF Off, Fields
<1> HIDE DEF v
<1>3. Off(w, s, {"cleanuphand", "ticket_expected", "in_init"}) /\ w.in_init = TRUE
  BY <1>2 DEF Off, Fields
<1> HIDE DEF w
<1>4. Off(s, s, {"cleanuphand", "ticket_expected", "in_init"})
  BY DEF Off
<1>5. PreWork(s) = s \/ (PreWork(s) = w /\ s.hand_state = "SW_SESSION_TICKET")
  BY <1>1 DEF PreWork
<1> QED  BY <1>3, <1>4, <1>5

\* A server constructs a ticket.
LEMMA TicketReplied ==
    ASSUME NEW s, Speaks(s), NEW c, s.hand_state = "SW_SESSION_TICKET"
    PROVE  Replied(s, ConstructMessage(PreWork(s), c))
<1> DEFINE w == PreWork(s)
           y == "NEWSESSION_TICKET"
           h == {}
           m == Msg(y, h)
           t == ConstructMessage(w, c)
<1>1. Off(w, s, {"cleanuphand", "ticket_expected", "in_init"}) /\ w.in_init = TRUE
  BY PreWorkFields DEF Speaks
<1> HIDE DEF w
<1>2. /\ w.hand_state = "SW_SESSION_TICKET" /\ DOMAIN w = Fields
      /\ w.extra_tickets_expected = s.extra_tickets_expected
      /\ w.hit = s.hit /\ w.transcript = s.transcript
  BY <1>1 DEF Off, Fields
<1>3. t = [[w EXCEPT !.sent_tickets = @ + 1,
                     !.extra_tickets_expected = IF @ > 0 THEN @ - 1 ELSE 0] EXCEPT !.msg = m]
  BY <1>2 DEF ConstructMessage, ConstructNewSessionTicket, tls_update_ticket_counts
<1>4. y \in Types /\ h \in SUBSET Facts
  BY DEF Types
<1> HIDE DEF y, h
<1>5. m \in Messages /\ m.type = y
  BY <1>4, BareMessage
<1> HIDE DEF m, t
<1> DEFINE n == IF w.extra_tickets_expected > 0 THEN w.extra_tickets_expected - 1 ELSE 0
<1>6. n \in Nat /\ (n > 0 => s.extra_tickets_expected > 0)
  BY <1>2 DEF Speaks
<1>7. t = [[w EXCEPT !.sent_tickets = @ + 1, !.extra_tickets_expected = n] EXCEPT !.msg = m]
  BY <1>3
<1> HIDE DEF n
<1>8. /\ Off(t, w, {"sent_tickets", "extra_tickets_expected", "msg"})
      /\ t.msg = m /\ t.extra_tickets_expected = n
      /\ t.in_init = w.in_init /\ t.hit = w.hit /\ t.transcript = w.transcript
  BY <1>2, <1>7 DEF Off, Fields
<1>9. Off(t, s, {"hit", "transcript", "msg", "cert_req", "cleanuphand", "ticket_expected",
                 "in_init", "sent_tickets", "extra_tickets_expected"})
  BY <1>1, <1>8 DEF Off
<1>10. t.msg.type = "NEWSESSION_TICKET" /\ t.msg \in Messages
  BY <1>5, <1>8 DEF y
<1>11. /\ t.hit = s.hit /\ t.in_init = s.in_init /\ t.transcript = s.transcript
       /\ t.extra_tickets_expected \in Nat
       /\ t.extra_tickets_expected > 0 => s.extra_tickets_expected > 0
  BY <1>1, <1>2, <1>6, <1>8 DEF Speaks
<1>12. Replied(s, t)
  BY <1>9, <1>10, <1>11 DEF Replied, Speaks
<1> QED  BY <1>12 DEF t, w

\* Construct of a server that goes on to send.
LEMMA ServerBuilds ==
    ASSUME NEW s, NEW c, Server(s, c), s.call # "none", At(s, "WRITING", "PRE_WORK"),
           ~PreWorkStops(s), s.hand_state \notin NothingToSend
    PROVE  ServerStep(s, Building(s, c), c)
<1> DEFINE u == ConstructMessage(PreWork(s), c)
           t == Building(s, c)
<1> SUFFICES ServerStep(s, t, c)
  OBVIOUS
<1>1. /\ Shape(s) /\ Data(s, c) /\ Told(s) /\ ServerPlace(s, c)
      /\ {s.in_init, s.done, s.fresh, s.hit, s.max_early_data} \subseteq BOOLEAN
      /\ DOMAIN s = Fields /\ s.state = "WRITING" /\ s.write_state = "PRE_WORK"
      /\ s.server = TRUE /\ s.extra_tickets_expected \in Nat
  BY DEF Server, Endpoint, Shape, Flags, At
<1>2. s.hand_state \in ServerWrites
  BY <1>1 DEF ServerPlace, ServerControl, At, PreWorkStops, NothingToSend, ServerWrites,
              ServerFlight
<1>3. Speaks(s)
  <2>1. s.hand_state # "BEFORE"
    BY <1>2 DEF ServerWrites, ServerFlight
  <2>2. s.in_init = TRUE /\ s.hit \in BOOLEAN
    BY <1>1 DEF Told
  <2> QED  BY <1>1, <2>1, <2>2 DEF Speaks, Data, ServerPlace
<1>4. Replied(s, u)
  <2>1. s.hand_state # "SW_SESSION_TICKET" => PreWork(s) = s
    BY <1>3, PreWorkFields DEF Speaks
  <2>2. CASE s.hand_state = "SW_SESSION_TICKET"
    BY <1>3, <2>2, TicketReplied
  <2>3. CASE s.hand_state # "SW_SESSION_TICKET"
    <3>1. u = ConstructMessage(s, c)
      BY <2>1, <2>3
    <3> QED  BY <1>2, <1>3, <2>3, <3>1, ServerHelloReplied, ServerFlightReplied,
                ServerFinishedReplied DEF ServerWrites
  <2> QED  BY <2>2, <2>3
<1>5. t = [u EXCEPT !.write_state = "SEND"]
  BY DEF Building
<1> HIDE DEF u, t
<1>6. /\ Off(t, s, {"hit", "transcript", "msg", "cert_req", "cleanuphand", "ticket_expected",
                    "in_init", "sent_tickets", "extra_tickets_expected", "write_state"})
      /\ t.write_state = "SEND" /\ t.msg = u.msg /\ t.hit = u.hit /\ t.in_init = u.in_init
      /\ t.transcript = u.transcript /\ t.extra_tickets_expected = u.extra_tickets_expected
  BY <1>4, <1>5 DEF Replied, Off, Fields
<1>7. /\ t.state = s.state /\ t.hand_state = s.hand_state /\ t.read_state = s.read_state
      /\ t.done = s.done /\ t.fresh = s.fresh /\ t.call = s.call
      /\ t.rwstate = s.rwstate /\ t.early_data_state = s.early_data_state
      /\ t.server = s.server /\ t.flight = s.flight /\ t.secrets = s.secrets
      /\ t.quic_read_level = s.quic_read_level /\ t.quic_write_level = s.quic_write_level
      /\ t.clienthello = s.clienthello /\ t.max_early_data = s.max_early_data
      /\ t.quic_input_data = s.quic_input_data /\ DOMAIN t = Fields
      /\ t.hello_retry_request = s.hello_retry_request /\ t.early_data = s.early_data
  BY <1>6 DEF Off, Fields
<1>8. /\ t.hit \in BOOLEAN /\ t.in_init = s.in_init /\ t.msg \in Messages
      /\ t.transcript \in Seq(Kinds) /\ t.transcript # <<>>
      /\ t.extra_tickets_expected \in Nat
      /\ t.extra_tickets_expected > 0 => s.extra_tickets_expected > 0
  BY <1>4, <1>6 DEF Replied
<1>9. s.hand_state = "SW_SESSION_TICKET" =>
         t.msg.type = "NEWSESSION_TICKET" /\ t.transcript = s.transcript /\ t.hit = s.hit
  BY <1>4, <1>6 DEF Replied
<1>10. Shape(t)
  BY <1>1, <1>7, <1>8 DEF Shape, Flags
<1>11. Told(t)
  BY <1>1, <1>7, <1>8 DEF Told
<1>12. Data(t, c)
  <2>1. /\ s.secrets \subseteq t.secrets /\ t.secrets \subseteq Level
        /\ t.quic_input_data \in Seq(Entries) /\ t.clienthello \subseteq Facts
        /\ t.quic_read_level \in Level /\ t.quic_write_level \in Level
        /\ CanDecrypt(t, t.quic_write_level) /\ CanDecrypt(t, t.quic_read_level)
    BY <1>1, <1>7 DEF Data, CanDecrypt
  <2> QED  BY <1>1, <1>7, <1>8, <2>1, KeepData
<1>13. ServerPlace(t, c)
  <2>1. ServerControl(t)
    BY <1>1, <1>2, <1>6, <1>7 DEF ServerControl, At
  <2>2. ServerKeys(t)
    BY <1>1, <1>2, <1>6, <1>7
       DEF ServerPlace, ServerKeys, ServerHellos, ServerReading, ServerWriting, ServerOver,
           ServerWrites, ServerFlight
  <2>3. t.flight # <<>> => ServerHolds(t)
    BY <1>1, <1>6, <1>7 DEF ServerPlace, ServerHolds
  <2>4. s.extra_tickets_expected > 0 =>
          /\ s.done /\ s.in_init /\ s.call # "SSL_process_quic_post_handshake"
    BY <1>1 DEF ServerPlace
  <2>5. t.extra_tickets_expected > 0 =>
          /\ t.done /\ t.in_init /\ t.call # "SSL_process_quic_post_handshake"
          /\ ~(t.hand_state = "OK" /\ At(t, "WRITING", "PRE_WORK"))
          /\ ~(t.state = "FINISHED" /\ t.call # "none")
    BY <1>1, <1>6, <1>7, <1>8, <2>4 DEF At
  <2>6. t.hand_state # "BEFORE" /\ s.hand_state # "BEFORE"
    BY <1>2, <1>7 DEF ServerWrites, ServerFlight
  <2>7. Retrying(t) => t.early_data # "ACCEPTED"
    BY <1>1, <1>7 DEF ServerPlace, Retrying
  <2> QED  BY <1>1, <1>7, <1>8, <1>9, <2>1, <2>2, <2>3, <2>5, <2>6, <2>7 DEF ServerPlace
<1>14. Forward(s, t)
  <2>1. s.done => s.hand_state = "SW_SESSION_TICKET"
    BY <1>1, <1>2 DEF ServerPlace, ServerWrites, ServerFlight
  <2>2. s.quic_read_level \in Int /\ s.quic_write_level \in Int
    BY <1>1 DEF Data, Level
  <2> QED  BY <1>7, <1>9, <2>1, <2>2 DEF Forward
<1> QED  BY <1>1, <1>7, <1>8, <1>10, <1>11, <1>12, <1>13, <1>14
         DEF ServerStep, Server, Endpoint

\* A ticket that is counted and not sent.
Declining(s) == [DeclineNewSessionTicket(PreWork(s)) EXCEPT !.write_state = "POST_WORK"]

\* The fields of a server that declined to send a ticket.
LEMMA DecliningFields ==
    ASSUME NEW s, DOMAIN s = Fields, s.in_init = TRUE, s.extra_tickets_expected \in Nat
    PROVE  LET t == Declining(s)
           IN  /\ Off(t, s, {"cleanuphand", "ticket_expected", "in_init", "sent_tickets",
                             "extra_tickets_expected", "tickets_declined", "write_state"})
               /\ t.in_init = TRUE /\ t.write_state = "POST_WORK"
               /\ t.extra_tickets_expected \in Nat
               /\ t.extra_tickets_expected > 0 => s.extra_tickets_expected > 0
<1> DEFINE w == PreWork(s)
           n == IF w.extra_tickets_expected > 0 THEN w.extra_tickets_expected - 1 ELSE 0
           k == w.sent_tickets + 1
           d == w.tickets_declined + 1
           t == Declining(s)
<1> SUFFICES /\ Off(t, s, {"cleanuphand", "ticket_expected", "in_init", "sent_tickets",
                           "extra_tickets_expected", "tickets_declined", "write_state"})
             /\ t.in_init = TRUE /\ t.write_state = "POST_WORK"
             /\ t.extra_tickets_expected \in Nat
             /\ t.extra_tickets_expected > 0 => s.extra_tickets_expected > 0
  OBVIOUS
<1>1. Off(w, s, {"cleanuphand", "ticket_expected", "in_init"}) /\ w.in_init = TRUE
  BY PreWorkFields
<1>2. t = [DeclineNewSessionTicket(w) EXCEPT !.write_state = "POST_WORK"]
  BY DEF Declining
<1> HIDE DEF w, t
<1>3. DOMAIN w = Fields /\ w.extra_tickets_expected = s.extra_tickets_expected
  BY <1>1 DEF Off, Fields
<1>4. n \in Nat /\ (n > 0 => s.extra_tickets_expected > 0)
  BY <1>3
<1>5. t = [[[w EXCEPT !.sent_tickets = k, !.extra_tickets_expected = n]
               EXCEPT !.tickets_declined = d] EXCEPT !.write_state = "POST_WORK"]
  BY <1>2, <1>3 DEF DeclineNewSessionTicket, tls_update_ticket_counts, Fields
<1> HIDE DEF n, k, d
<1>6. /\ Off(t, w, {"sent_tickets", "extra_tickets_expected", "tickets_declined",
                    "write_state"})
      /\ t.in_init = w.in_init /\ t.write_state = "POST_WORK" /\ t.extra_tickets_expected = n
  BY <1>3, <1>5 DEF Off, Fields
<1>7. Off(t, s, {"cleanuphand", "ticket_expected", "in_init", "sent_tickets",
                 "extra_tickets_expected", "tickets_declined", "write_state"})
  BY <1>1, <1>6 DEF Off
<1> QED  BY <1>1, <1>4, <1>6, <1>7

\* TicketDeclined.
LEMMA ServerDeclines ==
    ASSUME NEW s, NEW c, Server(s, c), s.call # "none", At(s, "WRITING", "PRE_WORK"),
           s.hand_state = "SW_SESSION_TICKET"
    PROVE  ServerStep(s, Declining(s), c)
<1> DEFINE t == Declining(s)
<1> SUFFICES ServerStep(s, t, c)
  OBVIOUS
<1>1. /\ Shape(s) /\ Told(s) /\ ServerPlace(s, c) /\ {s.in_init, s.done, s.fresh} \subseteq BOOLEAN
      /\ DOMAIN s = Fields /\ s.state = "WRITING" /\ s.write_state = "PRE_WORK"
      /\ s.early_data_state \in {"NONE", "ACCEPTING", "FINISHED_READING"}
      /\ s.extra_tickets_expected \in Nat
  BY DEF Server, Endpoint, Shape, Flags, At
<1>2. s.in_init = TRUE
  BY <1>1 DEF Told
<1>3. /\ Off(t, s, {"cleanuphand", "ticket_expected", "in_init", "sent_tickets",
                    "extra_tickets_expected", "tickets_declined", "write_state"})
      /\ t.in_init = TRUE /\ t.write_state = "POST_WORK"
      /\ t.extra_tickets_expected \in Nat
      /\ t.extra_tickets_expected > 0 => s.extra_tickets_expected > 0
  BY <1>1, <1>2, DecliningFields
<1> HIDE DEF t
<1>4. Off(t, s, Control)
  BY <1>3, OffMore DEF Control, DataFields, Fields
<1>5. /\ t.hand_state = s.hand_state /\ t.read_state = s.read_state /\ t.done = s.done
      /\ t.fresh = s.fresh /\ t.call = s.call /\ t.rwstate = s.rwstate
      /\ t.early_data_state = s.early_data_state /\ t.early_data = s.early_data
      /\ t.hello_retry_request = s.hello_retry_request /\ t.state = s.state
  BY <1>3 DEF Off, Fields
<1>6. Shape(t)
  <2>1. /\ {t.in_init, t.done, t.fresh} \subseteq BOOLEAN
        /\ t.state \in {"UNINITED", "READING", "WRITING", "FINISHED", "ERROR"}
        /\ t.call \in {"none", "SSL_do_handshake", "SSL_process_quic_post_handshake"}
    BY <1>1, <1>3, <1>5 DEF Shape
  <2> QED  BY <1>1, <1>4, <2>1, KeepShape
<1>7. Told(t)
  BY <1>1, <1>2, <1>3, <1>5 DEF Told
<1>8. ServerPlace(t, c)
  <2>1. ServerControl(t)
    BY <1>1, <1>3, <1>5 DEF ServerControl, At, ServerWrites
  <2>2. ServerKeys(t)
    BY <1>1, <1>4, <1>5, SameFields
       DEF ServerPlace, ServerKeys, ServerHellos, ServerReading, ServerWriting, ServerOver,
           ServerFlight
  <2>3. s.extra_tickets_expected > 0 =>
          /\ s.done /\ s.in_init /\ s.call # "SSL_process_quic_post_handshake"
    BY <1>1 DEF ServerPlace
  <2>4. t.extra_tickets_expected > 0 =>
          /\ t.done /\ t.in_init /\ t.call # "SSL_process_quic_post_handshake"
          /\ ~(t.hand_state = "OK" /\ At(t, "WRITING", "PRE_WORK"))
          /\ ~(t.state = "FINISHED" /\ t.call # "none")
    BY <1>1, <1>2, <1>3, <1>5, <2>3 DEF At
  <2> QED  BY <1>1, <1>3, <1>4, <1>5, <2>1, <2>2, <2>4, SameFields
           DEF ServerPlace, ServerHolds, At, Retrying, ServerFlight
<1> QED  BY <1>1, <1>3, <1>4, <1>5, <1>6, <1>7, <1>8, ControlServer

\* What Send leaves: with the flight that goes out at once, or is held back.
Adding(s)   == [ssl3_do_write(s) EXCEPT !.write_state = "POST_WORK"]
Emptied(t)  == [t EXCEPT !.flight = <<>>]
Outgoing(s) == Append(s.flight, [level |-> s.quic_write_level, msg |-> s.msg])

Sending(s, t, c) ==
    /\ Off(t, s, {"flight", "transcript", "write_state"}) /\ t.write_state = "POST_WORK"
    /\ t.flight = <<>> \/ (c.defer /\ t.flight = Outgoing(s))
    /\ \/ s.msg.type = "NEWSESSION_TICKET" /\ t.transcript = s.transcript
       \/ s.msg.type # "NEWSESSION_TICKET" /\ t.transcript = Append(s.transcript, Entry(s.msg))

\* Both forms of Send.
LEMMA SendingFields ==
    ASSUME NEW s, DOMAIN s = Fields, NEW c
    PROVE  /\ Adding(s).flight = Outgoing(s)
           /\ c.defer => Sending(s, Adding(s), c)
           /\ Sending(s, Emptied(Adding(s)), c)
<1> DEFINE f == Outgoing(s)
           r == IF s.msg.type = "NEWSESSION_TICKET" THEN s.transcript
                ELSE Append(s.transcript, Entry(s.msg))
           t == Adding(s)
           u == Emptied(t)
<1>1. \/ s.msg.type = "NEWSESSION_TICKET" /\ r = s.transcript
      \/ s.msg.type # "NEWSESSION_TICKET" /\ r = Append(s.transcript, Entry(s.msg))
  OBVIOUS
<1>2. t = [[s EXCEPT !.flight = f, !.transcript = r] EXCEPT !.write_state = "POST_WORK"]
  BY DEF Adding, ssl3_do_write, Outgoing, Fields
<1> HIDE DEF f, r, t
<1>3. /\ Off(t, s, {"flight", "transcript", "write_state"}) /\ t.write_state = "POST_WORK"
      /\ t.flight = f /\ t.transcript = r
  BY <1>2 DEF Off, Fields
<1>4. /\ Off(u, s, {"flight", "transcript", "write_state"}) /\ u.write_state = "POST_WORK"
      /\ u.flight = <<>> /\ u.transcript = r
  BY <1>3 DEF Emptied, Off, Fields
<1> HIDE DEF u
<1>5. c.defer => Sending(s, t, c)
  BY <1>1, <1>3 DEF Sending, f
<1>6. Sending(s, u, c)
  BY <1>1, <1>4 DEF Sending
<1> QED  BY <1>3, <1>5, <1>6 DEF f, t, u

\* The entry for the flight.
LEMMA OutgoingEntries ==
    ASSUME NEW s, NEW c, Data(s, c)
    PROVE  /\ Outgoing(s) \in Seq(Entries)
           /\ \A i \in 1 .. Len(Outgoing(s)) :
                 /\ CanDecrypt(s, Outgoing(s)[i].level)
                 /\ \/ i \in 1 .. Len(s.flight) /\ Outgoing(s)[i] = s.flight[i]
                    \/ Outgoing(s)[i].msg = s.msg
<1> DEFINE e == [level |-> s.quic_write_level, msg |-> s.msg]
<1>1. e \in Entries /\ e.level = s.quic_write_level /\ e.msg = s.msg
  BY DEF Data, Entries
<1> HIDE DEF e
<1>2. Outgoing(s) = Append(s.flight, e)
  BY DEF Outgoing, e
<1>3. s.flight \in Seq(Entries)
  BY DEF Data
<1>4. /\ Outgoing(s) \in Seq(Entries)
      /\ \A i \in 1 .. Len(Outgoing(s)) :
            (i \in 1 .. Len(s.flight) /\ Outgoing(s)[i] = s.flight[i]) \/ Outgoing(s)[i] = e
  BY <1>1, <1>2, <1>3, AppendTo
<1> QED  BY <1>1, <1>4 DEF Data

\* Send of a client. An "early_data" goes out just before the secret is
\* installed.
LEMMA ClientSends ==
    ASSUME NEW s, NEW c, Client(s, c), s.call # "none", At(s, "WRITING", "SEND"),
           NEW t, Sending(s, t, c)
    PROVE  /\ ClientStep(s, t, c)
           /\ \A i \in 1 .. Len(Outgoing(s)) : FromClient(Outgoing(s)[i], t)
<1>1. /\ Shape(s) /\ Data(s, c) /\ Told(s) /\ ClientPlace(s, c)
      /\ DOMAIN s = Fields /\ s.state = "WRITING" /\ s.write_state = "SEND"
  BY DEF Client, Endpoint, Shape, At
<1>2. s.hand_state \in ClientWrites
  BY <1>1 DEF ClientPlace, ClientControl, At
<1>3. /\ t.state = s.state /\ t.hand_state = s.hand_state /\ t.read_state = s.read_state
      /\ t.in_init = s.in_init /\ t.done = s.done /\ t.fresh = s.fresh /\ t.call = s.call
      /\ t.rwstate = s.rwstate /\ t.early_data_state = s.early_data_state
      /\ t.server = s.server /\ t.hit = s.hit /\ t.max_early_data = s.max_early_data
      /\ t.secrets = s.secrets /\ t.msg = s.msg /\ t.quic_write_level = s.quic_write_level
      /\ t.quic_read_level = s.quic_read_level /\ t.clienthello = s.clienthello
      /\ t.quic_input_data = s.quic_input_data /\ DOMAIN t = Fields
  BY DEF Sending, Off, Fields
<1>4. Shape(t)
  BY <1>1, <1>3 DEF Shape, Flags
<1>5. Told(t)
  BY <1>1, <1>3 DEF Told
<1>6. t.transcript \in Seq(Kinds) /\ t.transcript # <<>>
  <2>1. s.msg.type # "NEWSESSION_TICKET" /\ s.msg \in Messages /\ s.transcript \in Seq(Kinds)
    BY <1>1 DEF ClientPlace, Data
  <2>2. t.transcript = Append(s.transcript, Entry(s.msg)) /\ Entry(s.msg) \in Kinds
    BY <2>1, EntryOf DEF Sending
  <2> QED  BY <2>1, <2>2, AppendTo
<1>7. /\ Outgoing(s) \in Seq(Entries)
      /\ \A i \in 1 .. Len(Outgoing(s)) :
            /\ CanDecrypt(s, Outgoing(s)[i].level)
            /\ \/ i \in 1 .. Len(s.flight) /\ Outgoing(s)[i] = s.flight[i]
               \/ Outgoing(s)[i].msg = s.msg
  BY <1>1, OutgoingEntries
<1>8. t.flight = <<>> \/ (c.defer /\ t.flight = Outgoing(s))
  BY DEF Sending
<1>9. Data(t, c)
  <2>1. CASE t.flight = <<>>
    BY <1>1, <1>3, <1>6, <2>1 DEF Data, CanDecrypt
  <2>2. CASE c.defer /\ t.flight = Outgoing(s)
    BY <1>1, <1>3, <1>6, <1>7, <2>2 DEF Data, CanDecrypt
  <2> QED  BY <1>8, <2>1, <2>2
<1>10. t.write_state = "POST_WORK"
  BY DEF Sending
<1>11. Known(s) => Known(t)
  BY <1>1, <1>3 DEF Known, At
<1>12. s.msg.has # {"hrr"} /\ ("early" \in s.msg.has => Known(t))
  BY <1>1, <1>3, <1>10 DEF ClientPlace, Known, At
<1>13. \A i \in 1 .. Len(Outgoing(s)) : FromClient(Outgoing(s)[i], t)
  BY <1>7, <1>11, <1>12 DEF Client, FromClient
<1>14. \A i \in 1 .. Len(t.flight) : FromClient(t.flight[i], t)
  BY <1>8, <1>13
<1>15. ClientPlace(t, c)
  <2>1. ClientControl(t)
    BY <1>1, <1>2, <1>3, <1>10 DEF ClientControl, At
  <2>2. ClientKeys(t)
    BY <1>1, <1>3, <1>10
       DEF ClientPlace, ClientKeys, ClientHellos, ClientReading, ClientWriting, ClientOver,
           ClientReads, Before
  <2>3. ClientHolds(t)
    BY <1>1, <1>2, <1>3, <1>10 DEF ClientHolds, ClientWrites
  <2> QED  BY <1>1, <1>2, <1>3, <1>6, <1>10, <2>1, <2>2, <2>3 DEF ClientPlace, ClientWrites, At
<1>16. Forward(s, t)
  <2>1. ~s.done
    BY <1>1, <1>2 DEF ClientPlace, ClientWrites
  <2>2. s.quic_read_level \in Int /\ s.quic_write_level \in Int
    BY <1>1 DEF Data, Level
  <2> QED  BY <1>3, <2>1, <2>2 DEF Forward
<1> QED  BY <1>1, <1>3, <1>4, <1>5, <1>9, <1>11, <1>13, <1>14, <1>15, <1>16
         DEF ClientStep, Client, Endpoint

\* Send of a server.
LEMMA ServerSends ==
    ASSUME NEW s, NEW c, Server(s, c), s.call # "none", At(s, "WRITING", "SEND"),
           NEW t, Sending(s, t, c)
    PROVE  ServerStep(s, t, c)
<1>1. /\ Shape(s) /\ Data(s, c) /\ Told(s) /\ ServerPlace(s, c)
      /\ DOMAIN s = Fields /\ s.state = "WRITING" /\ s.write_state = "SEND"
  BY DEF Server, Endpoint, Shape, At
<1>2. s.hand_state \in ServerWrites
  BY <1>1 DEF ServerPlace, ServerControl, At
<1>3. /\ t.state = s.state /\ t.hand_state = s.hand_state /\ t.read_state = s.read_state
      /\ t.in_init = s.in_init /\ t.done = s.done /\ t.fresh = s.fresh /\ t.call = s.call
      /\ t.rwstate = s.rwstate /\ t.early_data_state = s.early_data_state
      /\ t.server = s.server /\ t.hit = s.hit /\ t.max_early_data = s.max_early_data
      /\ t.secrets = s.secrets /\ t.msg = s.msg /\ t.quic_write_level = s.quic_write_level
      /\ t.quic_read_level = s.quic_read_level /\ t.clienthello = s.clienthello
      /\ t.quic_input_data = s.quic_input_data /\ DOMAIN t = Fields
      /\ t.hello_retry_request = s.hello_retry_request /\ t.early_data = s.early_data
      /\ t.extra_tickets_expected = s.extra_tickets_expected
  BY DEF Sending, Off, Fields
<1>4. Shape(t)
  BY <1>1, <1>3 DEF Shape, Flags
<1>5. Told(t)
  BY <1>1, <1>3 DEF Told
<1>6. t.transcript \in Seq(Kinds) /\ t.transcript # <<>>
  <2>1. s.msg \in Messages /\ s.transcript \in Seq(Kinds) /\ s.transcript # <<>>
    BY <1>1, <1>2 DEF ServerPlace, Data, ServerWrites, ServerFlight
  <2>2. Entry(s.msg) \in Kinds
    BY <2>1, EntryOf
  <2>3. t.transcript = s.transcript \/ t.transcript = Append(s.transcript, Entry(s.msg))
    BY DEF Sending
  <2> QED  BY <2>1, <2>2, <2>3, AppendTo
<1>7. /\ Outgoing(s) \in Seq(Entries)
      /\ \A i \in 1 .. Len(Outgoing(s)) : CanDecrypt(s, Outgoing(s)[i].level)
  BY <1>1, OutgoingEntries
<1>8. t.flight = <<>> \/ (c.defer /\ t.flight = Outgoing(s))
  BY DEF Sending
<1>9. Data(t, c)
  <2>1. CASE t.flight = <<>>
    BY <1>1, <1>3, <1>6, <2>1 DEF Data, CanDecrypt
  <2>2. CASE c.defer /\ t.flight = Outgoing(s)
    BY <1>1, <1>3, <1>6, <1>7, <2>2 DEF Data, CanDecrypt
  <2> QED  BY <1>8, <2>1, <2>2
<1>10. t.write_state = "POST_WORK"
  BY DEF Sending
<1>11. ServerPlace(t, c)
  <2>1. ServerControl(t)
    BY <1>1, <1>2, <1>3, <1>10 DEF ServerControl, At
  <2>2. ServerKeys(t)
    BY <1>1, <1>2, <1>3, <1>10
       DEF ServerPlace, ServerKeys, ServerHellos, ServerReading, ServerWriting, ServerOver,
           ServerWrites, ServerFlight
  <2>3. ServerHolds(t)
    BY <1>1, <1>2, <1>3, <1>10 DEF ServerHolds, ServerWrites, ServerFlight
  <2>4. Retrying(t) => t.early_data # "ACCEPTED"
    BY <1>1, <1>3 DEF ServerPlace, Retrying
  <2> QED  BY <1>1, <1>2, <1>3, <1>6, <1>10, <2>1, <2>2, <2>3, <2>4 DEF ServerPlace, At
<1>12. Forward(s, t)
  <2>1. s.done => s.hand_state = "SW_SESSION_TICKET"
    BY <1>1, <1>2 DEF ServerPlace, ServerWrites, ServerFlight
  <2>2. s.done => t.transcript = s.transcript
    BY <1>1, <2>1 DEF ServerPlace, Sending
  <2>3. s.quic_read_level \in Int /\ s.quic_write_level \in Int
    BY <1>1 DEF Data, Level
  <2> QED  BY <1>3, <2>2, <2>3 DEF Forward
<1> QED  BY <1>1, <1>3, <1>4, <1>5, <1>9, <1>11, <1>12 DEF ServerStep, Server, Endpoint

\* What Finish leaves: the keys of post-work, and the flight flushed or not.
Finishing(s) == [PostWork(s) EXCEPT !.write_state = "TRANSITION"]

Ends(s, t) ==
    LET u == PostWork(s)
    IN  /\ Off(t, s, {"write_state", "quic_read_level", "quic_write_level", "secrets",
                      "early_data_state", "flight"})
        /\ t.write_state = "TRANSITION"
        /\ t.quic_read_level = u.quic_read_level /\ t.quic_write_level = u.quic_write_level
        /\ t.secrets = u.secrets /\ t.early_data_state = u.early_data_state
        /\ Flushes(s) => t.flight = <<>>
        /\ ~Flushes(s) => t.flight = s.flight

Keys == {"quic_read_level", "quic_write_level", "secrets", "early_data_state"}

\* The keys a client changes in post-work.
LEMMA PostWorkClient ==
    ASSUME NEW s, DOMAIN s = Fields, s.server = FALSE,
           s.hand_state \in ClientWrites \union {"PENDING_EARLY_DATA_END", "CW_END_OF_EARLY_DATA"}
    PROVE  LET u == PostWork(s)
           IN  /\ Off(u, s, Keys)
               /\ u.quic_read_level = s.quic_read_level
               /\ u.early_data_state = s.early_data_state
               /\ s.hand_state = "CW_CLNT_HELLO" /\ ~Flushes(s) =>
                     u.secrets = s.secrets \union {ssl_encryption_early_data}
               /\ ~(s.hand_state = "CW_CLNT_HELLO" /\ ~Flushes(s)) => u.secrets = s.secrets
               /\ s.hand_state = "CW_FINISHED" =>
                     u.quic_write_level = ssl_encryption_application
               /\ s.hand_state # "CW_FINISHED" => u.quic_write_level = s.quic_write_level
<1>0. ssl_encryption_application # ssl_encryption_early_data
  BY DEF ssl_encryption_application, ssl_encryption_early_data
<1>1. CASE s.hand_state = "CW_CLNT_HELLO" /\ ~Flushes(s)
  <2>1. PostWork(s) = [s EXCEPT !.secrets = @ \union {ssl_encryption_early_data}]
    BY <1>1 DEF PostWork, quic_change_cipher_state
  <2> QED  BY <1>1, <2>1 DEF Off, Fields, Keys
<1>2. CASE s.hand_state = "CW_FINISHED"
  <2>1. PostWork(s) = quic_change_cipher_state(s, ssl_encryption_application, "write")
    BY <1>2 DEF PostWork
  <2>2. PostWork(s) = [s EXCEPT !.quic_write_level = ssl_encryption_application]
    BY <1>0, <2>1 DEF quic_change_cipher_state
  <2> QED  BY <1>2, <2>2 DEF Off, Fields, Keys
<1>3. CASE ~(s.hand_state = "CW_CLNT_HELLO" /\ ~Flushes(s)) /\ s.hand_state # "CW_FINISHED"
  <2>1. PostWork(s) = s
    BY <1>3 DEF PostWork, ClientWrites
  <2> QED  BY <1>3, <2>1 DEF Off
<1> QED  BY <1>1, <1>2, <1>3

\* The keys a server changes in post-work.
LEMMA PostWorkServer ==
    ASSUME NEW s, DOMAIN s = Fields, s.server = TRUE,
           s.hand_state \in ServerWrites \union {"EARLY_DATA"}
    PROVE  LET u == PostWork(s)
               hello == s.hand_state = "SW_SRVR_HELLO" /\ s.hello_retry_request # "PENDING"
               fin == s.hand_state = "SW_FINISHED"
           IN  /\ Off(u, s, Keys)
               /\ hello => /\ u.secrets = s.secrets \union {ssl_encryption_handshake}
                           /\ u.quic_write_level = ssl_encryption_handshake
                           /\ u.early_data_state = s.early_data_state
                           /\ u.quic_read_level = IF s.early_data # "ACCEPTED"
                                                  THEN ssl_encryption_handshake
                                                  ELSE s.quic_read_level
               /\ fin => /\ u.secrets = s.secrets \union {ssl_encryption_application}
                         /\ u.quic_write_level = ssl_encryption_application
                         /\ u.early_data_state \in {s.early_data_state, "FINISHED_READING"}
                         /\ u.quic_read_level = IF s.early_data = "ACCEPTED"
                                                THEN ssl_encryption_handshake
                                                ELSE s.quic_read_level
               /\ ~hello /\ ~fin => u = s
<1> DEFINE hello == s.hand_state = "SW_SRVR_HELLO" /\ s.hello_retry_request # "PENDING"
           fin == s.hand_state = "SW_FINISHED"
           h == ssl_encryption_handshake
           a == ssl_encryption_application
<1>0. h # ssl_encryption_early_data /\ a # ssl_encryption_early_data
  BY DEF ssl_encryption_application, ssl_encryption_early_data, ssl_encryption_handshake
<1> HIDE DEF h, a
<1>1. CASE hello
  <2> DEFINE v == [[s EXCEPT !.secrets = @ \union {h}] EXCEPT !.quic_write_level = h]
             w == [v EXCEPT !.quic_read_level = h]
  <2>1. PostWork(s) = ServerHelloKeys(s)
    BY <1>1 DEF PostWork, Flushes
  <2>2. quic_change_cipher_state(s, ssl_encryption_handshake, "write") = v
    BY <1>0 DEF quic_change_cipher_state, h
  <2>3. /\ Off(v, s, Keys) /\ v.secrets = s.secrets \union {h} /\ v.quic_write_level = h
        /\ v.early_data_state = s.early_data_state /\ v.quic_read_level = s.quic_read_level
        /\ v.server = s.server /\ DOMAIN v = Fields
    BY DEF Off, Fields, Keys
  <2> HIDE DEF v
  <2>4. quic_change_cipher_state(v, ssl_encryption_handshake, "read") = w
    BY <1>0, <2>3 DEF quic_change_cipher_state, h
  <2>5. /\ Off(w, s, Keys) /\ w.secrets = s.secrets \union {h} /\ w.quic_write_level = h
        /\ w.early_data_state = s.early_data_state /\ w.quic_read_level = h
    BY <2>3 DEF Off, Fields, Keys
  <2> HIDE DEF w
  <2>6. IF s.early_data # "ACCEPTED" THEN PostWork(s) = w ELSE PostWork(s) = v
    BY <2>1, <2>2, <2>4 DEF ServerHelloKeys
  <2> QED  BY <1>1, <2>3, <2>5, <2>6 DEF h
<1>2. CASE fin
  <2> DEFINE v == [[s EXCEPT !.secrets = @ \union {a}] EXCEPT !.quic_write_level = a]
             x == [v EXCEPT !.early_data_state = "FINISHED_READING"]
             w == [x EXCEPT !.quic_read_level = h]
  <2>1. PostWork(s) = ServerFinishedKeys(s)
    BY <1>2 DEF PostWork
  <2>2. quic_change_cipher_state(s, ssl_encryption_application, "write") = v
    BY <1>0 DEF quic_change_cipher_state, a
  <2>3. /\ Off(v, s, Keys) /\ v.secrets = s.secrets \union {a} /\ v.quic_write_level = a
        /\ v.early_data_state = s.early_data_state /\ v.quic_read_level = s.quic_read_level
        /\ v.server = s.server /\ DOMAIN v = Fields
    BY DEF Off, Fields, Keys
  <2> HIDE DEF v
  <2>4. /\ Off(x, s, Keys) /\ x.secrets = s.secrets \union {a} /\ x.quic_write_level = a
        /\ x.early_data_state = "FINISHED_READING" /\ x.quic_read_level = s.quic_read_level
        /\ x.server = s.server /\ DOMAIN x = Fields
    BY <2>3 DEF Off, Fields, Keys
  <2>5. s.early_data = "ACCEPTED" =>
           PostWork(s) = quic_change_cipher_state(x, ssl_encryption_handshake, "read")
    BY <2>1, <2>2 DEF ServerFinishedKeys
  <2>6. s.early_data # "ACCEPTED" => PostWork(s) = v
    BY <2>1, <2>2 DEF ServerFinishedKeys
  <2> HIDE DEF x
  <2>7. quic_change_cipher_state(x, ssl_encryption_handshake, "read") = w
    BY <1>0, <2>4 DEF quic_change_cipher_state, h
  <2>8. /\ Off(w, s, Keys) /\ w.secrets = s.secrets \union {a} /\ w.quic_write_level = a
        /\ w.early_data_state = "FINISHED_READING" /\ w.quic_read_level = h
    BY <2>4 DEF Off, Fields, Keys
  <2> HIDE DEF w
  <2> QED  BY <1>2, <2>3, <2>5, <2>6, <2>7, <2>8 DEF h, a
<1>3. CASE ~hello /\ ~fin
  <2>1. PostWork(s) = s
    BY <1>3 DEF PostWork, Flushes, ServerWrites, ServerFlight
  <2> QED  BY <1>3, <2>1 DEF Off
<1> QED  BY <1>1, <1>2, <1>3

\* Both forms of Finish.
LEMMA EndsFields ==
    ASSUME NEW s, DOMAIN s = Fields, Off(PostWork(s), s, Keys)
    PROVE  /\ Finishing(s).flight = s.flight
           /\ Flushes(s) => Ends(s, Emptied(Finishing(s)))
           /\ ~Flushes(s) => Ends(s, Finishing(s))
<1> DEFINE u == PostWork(s)
           t == Finishing(s)
           v == Emptied(t)
<1>1. t = [u EXCEPT !.write_state = "TRANSITION"]
  BY DEF Finishing
<1>2. v = [t EXCEPT !.flight = <<>>]
  BY DEF Emptied
<1>3. Off(u, s, Keys)
  OBVIOUS
<1> HIDE DEF u, t, v
<1>4. /\ Off(t, s, Keys \union {"write_state", "flight"}) /\ t.write_state = "TRANSITION"
      /\ t.quic_read_level = u.quic_read_level /\ t.quic_write_level = u.quic_write_level
      /\ t.secrets = u.secrets /\ t.early_data_state = u.early_data_state
      /\ t.flight = s.flight
  BY <1>1, <1>3 DEF Off, Fields, Keys
<1>5. /\ Off(v, s, Keys \union {"write_state", "flight"}) /\ v.write_state = "TRANSITION"
      /\ v.quic_read_level = u.quic_read_level /\ v.quic_write_level = u.quic_write_level
      /\ v.secrets = u.secrets /\ v.early_data_state = u.early_data_state
      /\ v.flight = <<>>
  BY <1>2, <1>4 DEF Off, Fields, Keys
<1>6. Flushes(s) => Ends(s, v)
  BY <1>5, OffMore DEF Ends, u, Keys
<1>7. ~Flushes(s) => Ends(s, t)
  BY <1>4, OffMore DEF Ends, u, Keys
<1> QED  BY <1>4, <1>6, <1>7 DEF t, v

\* Finish of a client.
LEMMA ClientEnds ==
    ASSUME NEW s, NEW c, Client(s, c), s.call # "none", At(s, "WRITING", "POST_WORK"),
           NEW t, Ends(s, t)
    PROVE  ClientStep(s, t, c)
<1> DEFINE u == PostWork(s)
<1>1. /\ Shape(s) /\ Data(s, c) /\ Told(s) /\ ClientPlace(s, c)
      /\ DOMAIN s = Fields /\ s.state = "WRITING" /\ s.write_state = "POST_WORK"
      /\ s.server = FALSE /\ (s.max_early_data => c.clientEarly = "on")
      /\ s.early_data_state \in {"NONE", "CONNECTING", "WRITE_RETRY", "FINISHED_WRITING"}
  BY DEF Client, Endpoint, Shape, At
<1>2. s.hand_state \in ClientWrites \union {"PENDING_EARLY_DATA_END", "CW_END_OF_EARLY_DATA"}
  BY <1>1 DEF ClientPlace, ClientControl, At
<1>3. /\ u.quic_read_level = s.quic_read_level
      /\ u.early_data_state = s.early_data_state
      /\ s.hand_state = "CW_CLNT_HELLO" /\ ~Flushes(s) =>
            u.secrets = s.secrets \union {ssl_encryption_early_data}
      /\ ~(s.hand_state = "CW_CLNT_HELLO" /\ ~Flushes(s)) => u.secrets = s.secrets
      /\ s.hand_state = "CW_FINISHED" => u.quic_write_level = ssl_encryption_application
      /\ s.hand_state # "CW_FINISHED" => u.quic_write_level = s.quic_write_level
  BY <1>1, <1>2, PostWorkClient
<1>4. /\ t.quic_read_level = u.quic_read_level /\ t.quic_write_level = u.quic_write_level
      /\ t.secrets = u.secrets /\ t.early_data_state = u.early_data_state
      /\ t.write_state = "TRANSITION"
      /\ Flushes(s) => t.flight = <<>>
      /\ ~Flushes(s) => t.flight = s.flight
  BY DEF Ends
<1> HIDE DEF u
<1>5. /\ t.state = s.state /\ t.hand_state = s.hand_state /\ t.read_state = s.read_state
      /\ t.in_init = s.in_init /\ t.done = s.done /\ t.fresh = s.fresh /\ t.call = s.call
      /\ t.rwstate = s.rwstate /\ t.server = s.server /\ t.hit = s.hit
      /\ t.max_early_data = s.max_early_data /\ t.transcript = s.transcript
      /\ t.msg = s.msg /\ t.clienthello = s.clienthello
      /\ t.quic_input_data = s.quic_input_data /\ DOMAIN t = Fields
  BY DEF Ends, Off, Fields
<1>6. Shape(t)
  BY <1>1, <1>5 DEF Shape, Flags
<1>7. Told(t)
  BY <1>1, <1>5 DEF Told
\* The write level goes up only with the secrets there.
<1>8. /\ s.quic_read_level \in Level /\ s.quic_write_level \in Level
      /\ s.secrets \subseteq t.secrets /\ t.secrets \subseteq Level
  BY <1>1, <1>3, <1>4 DEF Data, Level, ssl_encryption_early_data
<1>9. s.hand_state = "CW_FINISHED" =>
         /\ s.quic_read_level = ssl_encryption_application
         /\ Protected \subseteq s.secrets /\ s.quic_write_level \in Before
  BY <1>1 DEF ClientPlace, ClientKeys, ClientWriting
<1>10. /\ t.quic_write_level \in Level /\ t.quic_write_level >= s.quic_write_level
       /\ CanDecrypt(t, t.quic_write_level) /\ CanDecrypt(t, t.quic_read_level)
       /\ t.quic_read_level \in Level /\ t.quic_read_level >= s.quic_read_level
  <2>1. CASE s.hand_state = "CW_FINISHED"
    BY <1>1, <1>3, <1>4, <1>8, <1>9, <2>1
       DEF Data, CanDecrypt, Protected, Before, Level, ssl_encryption_initial,
           ssl_encryption_handshake, ssl_encryption_application
  <2>2. CASE s.hand_state # "CW_FINISHED"
    BY <1>1, <1>3, <1>4, <1>8, <2>2 DEF Data, CanDecrypt, Level
  <2> QED  BY <2>1, <2>2
<1>11. t.flight = <<>> \/ t.flight = s.flight
  BY <1>4
<1>12. Data(t, c)
  <2>1. CASE t.flight = <<>>
    BY <1>1, <1>5, <1>8, <1>10, <2>1 DEF Data
  <2>2. CASE t.flight = s.flight
    <3>1. /\ t.quic_input_data \in Seq(Entries) /\ t.transcript \in Seq(Kinds)
          /\ t.msg \in Messages /\ t.clienthello \subseteq Facts
      BY <1>1, <1>5 DEF Data
    <3> QED  BY <1>1, <1>8, <1>10, <2>2, <3>1, KeepData
  <2> QED  BY <1>11, <2>1, <2>2
<1>13. Known(s) => Known(t)
  <2>1. (/\ s.hand_state = "CW_CLNT_HELLO" /\ s.early_data_state = "CONNECTING"
         /\ s.max_early_data) => ~Flushes(s)
    BY DEF Flushes
  <2> QED  BY <1>1, <1>3, <1>4, <1>8, <2>1 DEF Known
<1>14. \A i \in 1 .. Len(t.flight) : FromClient(t.flight[i], t)
  BY <1>11, <1>13 DEF Client, FromClient
<1>15. ClientPlace(t, c)
  <2>1. ClientControl(t)
    BY <1>1, <1>2, <1>4, <1>5 DEF ClientControl, At, ClientWrites
  <2>2. ClientKeys(t)
    <3>1. CASE s.hand_state = "CW_FINISHED"
      BY <1>3, <1>4, <1>5, <1>8, <1>9, <3>1
         DEF ClientKeys, ClientHellos, ClientReading, ClientWriting, ClientOver, ClientReads
    <3>2. CASE s.hand_state # "CW_FINISHED"
      BY <1>1, <1>2, <1>3, <1>4, <1>5, <1>8, <3>2
         DEF ClientPlace, ClientKeys, ClientHellos, ClientReading, ClientWriting, ClientOver,
             ClientReads, ClientWrites
    <3> QED  BY <3>1, <3>2
  <2>3. t.flight # <<>> /\ ~(c.defer /\ c.clientEarly = "on") => ClientHolds(t)
    <3> SUFFICES ASSUME t.flight # <<>>, ~(c.defer /\ c.clientEarly = "on")
                 PROVE  ClientHolds(t)
      OBVIOUS
    <3>1. ~Flushes(s) /\ s.flight # <<>> /\ c.defer
      BY <1>1, <1>4 DEF Data
    <3>2. ClientHolds(s)
      BY <1>1, <3>1 DEF ClientPlace
    <3>3. s.hand_state # "CW_CLNT_HELLO" /\ s.hand_state # "CW_FINISHED"
      BY <1>1, <3>1 DEF Flushes
    <3> QED  BY <1>5, <3>2, <3>3 DEF ClientHolds
  <2> QED  BY <1>1, <1>2, <1>3, <1>4, <1>5, <2>1, <2>2, <2>3 DEF ClientPlace, ClientWrites, At
<1>16. Forward(s, t)
  BY <1>5, <1>8, <1>10 DEF Forward
<1> QED  BY <1>1, <1>3, <1>4, <1>5, <1>6, <1>7, <1>12, <1>13, <1>14, <1>15, <1>16
         DEF ClientStep, Client, Endpoint

\* Finish of a server.
LEMMA ServerEnds ==
    ASSUME NEW s, NEW c, Server(s, c), s.call # "none", At(s, "WRITING", "POST_WORK"),
           NEW t, Ends(s, t)
    PROVE  ServerStep(s, t, c)
<1> DEFINE u == PostWork(s)
           hello == s.hand_state = "SW_SRVR_HELLO" /\ s.hello_retry_request # "PENDING"
           fin == s.hand_state = "SW_FINISHED"
<1>1. /\ Shape(s) /\ Data(s, c) /\ Told(s) /\ ServerPlace(s, c)
      /\ DOMAIN s = Fields /\ s.state = "WRITING" /\ s.write_state = "POST_WORK"
      /\ s.server = TRUE
      /\ s.early_data_state \in {"NONE", "ACCEPTING", "FINISHED_READING"}
  BY DEF Server, Endpoint, Shape, At
<1>2. s.hand_state \in ServerWrites \union {"EARLY_DATA"}
  BY <1>1 DEF ServerPlace, ServerControl, At
<1>3. /\ hello => /\ u.secrets = s.secrets \union {ssl_encryption_handshake}
                  /\ u.quic_write_level = ssl_encryption_handshake
                  /\ u.early_data_state = s.early_data_state
                  /\ u.quic_read_level = IF s.early_data # "ACCEPTED"
                                         THEN ssl_encryption_handshake
                                         ELSE s.quic_read_level
      /\ fin => /\ u.secrets = s.secrets \union {ssl_encryption_application}
                /\ u.quic_write_level = ssl_encryption_application
                /\ u.early_data_state \in {s.early_data_state, "FINISHED_READING"}
                /\ u.quic_read_level = IF s.early_data = "ACCEPTED"
                                       THEN ssl_encryption_handshake
                                       ELSE s.quic_read_level
      /\ ~hello /\ ~fin => u = s
  BY <1>1, <1>2, PostWorkServer
<1>4. /\ t.quic_read_level = u.quic_read_level /\ t.quic_write_level = u.quic_write_level
      /\ t.secrets = u.secrets /\ t.early_data_state = u.early_data_state
      /\ t.write_state = "TRANSITION"
      /\ Flushes(s) => t.flight = <<>>
      /\ ~Flushes(s) => t.flight = s.flight
  BY DEF Ends
<1> HIDE DEF u
<1>5. /\ t.state = s.state /\ t.hand_state = s.hand_state /\ t.read_state = s.read_state
      /\ t.in_init = s.in_init /\ t.done = s.done /\ t.fresh = s.fresh /\ t.call = s.call
      /\ t.rwstate = s.rwstate /\ t.server = s.server /\ t.hit = s.hit
      /\ t.max_early_data = s.max_early_data /\ t.transcript = s.transcript
      /\ t.msg = s.msg /\ t.clienthello = s.clienthello
      /\ t.quic_input_data = s.quic_input_data /\ DOMAIN t = Fields
      /\ t.hello_retry_request = s.hello_retry_request /\ t.early_data = s.early_data
      /\ t.extra_tickets_expected = s.extra_tickets_expected
  BY DEF Ends, Off, Fields
<1>6. Shape(t)
  BY <1>1, <1>5 DEF Shape, Flags
<1>7. Told(t)
  BY <1>1, <1>5 DEF Told
\* Where the keys change, and what they were.
<1>8. hello => /\ s.quic_read_level = ssl_encryption_initial
               /\ s.quic_write_level = ssl_encryption_initial
  BY <1>1 DEF ServerPlace, ServerKeys, ServerHellos
<1>9. fin => /\ s.hello_retry_request # "PENDING"
             /\ s.quic_read_level = IF s.early_data = "ACCEPTED" THEN ssl_encryption_initial
                                    ELSE ssl_encryption_handshake
             /\ s.quic_write_level = ssl_encryption_handshake
             /\ ssl_encryption_handshake \in s.secrets
  BY <1>1 DEF ServerPlace, ServerKeys, ServerHellos, ServerWriting, ServerReading, ServerOver,
              ServerFlight
<1>10. /\ s.quic_read_level \in Level /\ s.quic_write_level \in Level
       /\ s.secrets \subseteq t.secrets /\ t.secrets \subseteq Level
  BY <1>1, <1>3, <1>4
     DEF Data, Level, ssl_encryption_handshake, ssl_encryption_application
<1>11. /\ t.quic_write_level \in Level /\ t.quic_write_level >= s.quic_write_level
       /\ CanDecrypt(t, t.quic_write_level) /\ CanDecrypt(t, t.quic_read_level)
       /\ t.quic_read_level \in Level /\ t.quic_read_level >= s.quic_read_level
  <2>1. CASE hello
    BY <1>3, <1>4, <1>8, <2>1
       DEF CanDecrypt, Level, ssl_encryption_initial, ssl_encryption_handshake
  <2>2. CASE fin
    BY <1>3, <1>4, <1>9, <2>2
       DEF CanDecrypt, Level, ssl_encryption_initial, ssl_encryption_handshake,
           ssl_encryption_application
  <2>3. CASE ~hello /\ ~fin
    BY <1>1, <1>3, <1>4, <1>10, <2>3 DEF Data, CanDecrypt, Level
  <2> QED  BY <2>1, <2>2, <2>3
<1>12. t.flight = <<>> \/ t.flight = s.flight
  BY <1>4
<1>13. Data(t, c)
  <2>1. CASE t.flight = <<>>
    BY <1>1, <1>5, <1>10, <1>11, <2>1 DEF Data
  <2>2. CASE t.flight = s.flight
    <3>1. /\ t.quic_input_data \in Seq(Entries) /\ t.transcript \in Seq(Kinds)
          /\ t.msg \in Messages /\ t.clienthello \subseteq Facts
      BY <1>1, <1>5 DEF Data
    <3> QED  BY <1>1, <1>10, <1>11, <2>2, <3>1, KeepData
  <2> QED  BY <1>12, <2>1, <2>2
<1>14. /\ ssl_encryption_early_data \in t.secrets => ssl_encryption_early_data \in s.secrets
       /\ t.early_data_state \in {"NONE", "ACCEPTING", "FINISHED_READING"}
  BY <1>1, <1>3, <1>4
     DEF ssl_encryption_early_data, ssl_encryption_handshake, ssl_encryption_application
<1>15. ServerPlace(t, c)
  <2>1. ServerControl(t)
    BY <1>1, <1>2, <1>4, <1>5 DEF ServerControl, At
  <2>2. ServerKeys(t)
    <3>1. CASE hello
      BY <1>3, <1>4, <1>5, <1>8, <3>1
         DEF ServerKeys, ServerHellos, ServerReading, ServerWriting, ServerOver, ServerFlight
    <3>2. CASE fin
      BY <1>3, <1>4, <1>5, <1>9, <3>2
         DEF ServerKeys, ServerHellos, ServerReading, ServerWriting, ServerOver, ServerFlight,
             Protected
    <3>3. CASE ~hello /\ ~fin
      BY <1>1, <1>2, <1>3, <1>4, <1>5, <3>3
         DEF ServerPlace, ServerKeys, ServerHellos, ServerReading, ServerWriting, ServerOver,
             ServerWrites, ServerFlight
    <3> QED  BY <3>1, <3>2, <3>3
  <2>3. t.flight # <<>> => ServerHolds(t)
    <3> SUFFICES ASSUME t.flight # <<>>
                 PROVE  ServerHolds(t)
      OBVIOUS
    <3>1. ~Flushes(s) /\ s.flight # <<>> /\ ServerHolds(s)
      BY <1>1, <1>4 DEF ServerPlace
    <3> QED  BY <1>1, <1>4, <1>5, <3>1 DEF ServerHolds, Flushes
  <2>4. Retrying(t) => t.early_data # "ACCEPTED"
    BY <1>1, <1>5 DEF ServerPlace, Retrying
  <2>5. t.hand_state # "BEFORE" /\ t.transcript # <<>>
    BY <1>1, <1>2, <1>5 DEF ServerPlace, ServerWrites, ServerFlight
  <2>6. ssl_encryption_early_data \in t.secrets /\ ssl_encryption_application \notin t.secrets
           => t.state = "WRITING" /\ t.hello_retry_request # "PENDING"
    BY <1>1, <1>5, <1>10, <1>14 DEF ServerPlace
  <2> QED  BY <1>1, <1>4, <1>5, <2>1, <2>2, <2>3, <2>4, <2>5, <2>6 DEF ServerPlace, At
<1>16. Forward(s, t)
  BY <1>5, <1>10, <1>11 DEF Forward
<1> QED  BY <1>1, <1>5, <1>6, <1>7, <1>13, <1>14, <1>15, <1>16
         DEF ServerStep, Server, Endpoint

-----------------------------------------------------------------------------
(* The transport *)

\* What Provide leaves of the one that is given entry m.
Given(s, m) == [s EXCEPT !.quic_input_data = Append(@, m),
                         !.quic_latest_level_received = m.level, !.fresh = TRUE]

\* The fields of an endpoint after SSL_provide_quic_data.
LEMMA GivenFields ==
    ASSUME NEW s, DOMAIN s = Fields, NEW m
    PROVE  LET t == Given(s, m)
           IN  /\ Off(t, s, {"quic_input_data", "quic_latest_level_received", "fresh"})
               /\ t.quic_input_data = Append(s.quic_input_data, m) /\ t.fresh = TRUE
<1> DEFINE q == Append(s.quic_input_data, m)
           t == Given(s, m)
<1>1. t = [s EXCEPT !.quic_input_data = q, !.quic_latest_level_received = m.level,
                    !.fresh = TRUE]
  BY DEF Given, Fields
<1> HIDE DEF q, t
<1>2. /\ Off(t, s, {"quic_input_data", "quic_latest_level_received", "fresh"})
      /\ t.quic_input_data = q /\ t.fresh = TRUE
  BY <1>1 DEF Off, Fields
<1> QED  BY <1>2 DEF q, t

\* SSL_provide_quic_data of a client.
LEMMA ClientGiven ==
    ASSUME NEW s, NEW c, Client(s, c), NEW m \in Entries
    PROVE  ClientStep(s, Given(s, m), c)
<1> DEFINE t == Given(s, m)
<1> SUFFICES ClientStep(s, t, c)
  OBVIOUS
<1>1. /\ Shape(s) /\ Data(s, c) /\ Told(s) /\ DOMAIN s = Fields
  BY DEF Client, Endpoint, Shape
<1>2. /\ Off(t, s, {"quic_input_data", "quic_latest_level_received", "fresh"})
      /\ t.quic_input_data = Append(s.quic_input_data, m) /\ t.fresh = TRUE
  BY <1>1, GivenFields
<1> HIDE DEF t
<1>3. /\ t.state = s.state /\ t.hand_state = s.hand_state /\ t.read_state = s.read_state
      /\ t.in_init = s.in_init /\ t.done = s.done /\ t.write_state = s.write_state
      /\ t.rwstate = s.rwstate /\ t.server = s.server /\ t.hit = s.hit /\ t.call = s.call
      /\ t.max_early_data = s.max_early_data /\ t.transcript = s.transcript
      /\ t.msg = s.msg /\ t.clienthello = s.clienthello /\ t.flight = s.flight
      /\ t.secrets = s.secrets /\ t.quic_read_level = s.quic_read_level
      /\ t.quic_write_level = s.quic_write_level /\ DOMAIN t = Fields
      /\ t.early_data_state = s.early_data_state
  BY <1>2 DEF Off, Fields
<1>4. Shape(t)
  BY <1>1, <1>2, <1>3 DEF Shape, Flags
<1>5. Told(t)
  BY <1>1, <1>3 DEF Told
<1>6. t.quic_input_data \in Seq(Entries)
  BY <1>1, <1>2, AppendTo DEF Data
<1>7. Data(t, c)
  BY <1>1, <1>3, <1>6 DEF Data, CanDecrypt
<1>8. Known(s) => Known(t)
  BY <1>3 DEF Known, At
<1>9. \A i \in 1 .. Len(t.flight) : FromClient(t.flight[i], t)
  BY <1>3, <1>8, KeepFlight
<1>10. ASSUME t.state # "ERROR" PROVE ClientPlace(t, c)
  <2>1. ClientPlace(s, c)
    BY <1>3, <1>10 DEF Client
  <2>2. ClientControl(t)
    BY <1>3, <2>1 DEF ClientPlace, ClientControl, At
  <2>3. ClientKeys(t)
    BY <1>3, <2>1
       DEF ClientPlace, ClientKeys, ClientHellos, ClientReading, ClientWriting, ClientOver
  <2> QED  BY <1>3, <2>1, <2>2, <2>3 DEF ClientPlace, ClientHolds, At
<1>11. Forward(s, t)
  <2>1. s.quic_read_level \in Int /\ s.quic_write_level \in Int
    BY <1>1 DEF Data, Level
  <2> QED  BY <1>3, <2>1 DEF Forward
<1> QED  BY <1>3, <1>4, <1>5, <1>7, <1>8, <1>9, <1>10, <1>11 DEF ClientStep, Client, Endpoint

\* SSL_provide_quic_data of a server.
LEMMA ServerGiven ==
    ASSUME NEW s, NEW c, Server(s, c), NEW m \in Entries, m.msg.has # {"hrr"}
    PROVE  LET t == Given(s, m)
           IN  /\ Server(t, c) /\ Forward(s, t)
               /\ t.secrets = s.secrets /\ t.clienthello = s.clienthello
               /\ t.quic_input_data = Append(s.quic_input_data, m)
<1> DEFINE t == Given(s, m)
<1> SUFFICES /\ Server(t, c) /\ Forward(s, t)
             /\ t.secrets = s.secrets /\ t.clienthello = s.clienthello
             /\ t.quic_input_data = Append(s.quic_input_data, m)
  OBVIOUS
<1>1. /\ Shape(s) /\ Data(s, c) /\ Told(s) /\ DOMAIN s = Fields
  BY DEF Server, Endpoint, Shape
<1>2. /\ Off(t, s, {"quic_input_data", "quic_latest_level_received", "fresh"})
      /\ t.quic_input_data = Append(s.quic_input_data, m) /\ t.fresh = TRUE
  BY <1>1, GivenFields
<1> HIDE DEF t
<1>3. /\ t.state = s.state /\ t.hand_state = s.hand_state /\ t.read_state = s.read_state
      /\ t.in_init = s.in_init /\ t.done = s.done /\ t.write_state = s.write_state
      /\ t.rwstate = s.rwstate /\ t.server = s.server /\ t.hit = s.hit /\ t.call = s.call
      /\ t.max_early_data = s.max_early_data /\ t.transcript = s.transcript
      /\ t.msg = s.msg /\ t.clienthello = s.clienthello /\ t.flight = s.flight
      /\ t.secrets = s.secrets /\ t.quic_read_level = s.quic_read_level
      /\ t.quic_write_level = s.quic_write_level /\ DOMAIN t = Fields
      /\ t.early_data_state = s.early_data_state /\ t.early_data = s.early_data
      /\ t.hello_retry_request = s.hello_retry_request
      /\ t.extra_tickets_expected = s.extra_tickets_expected
  BY <1>2 DEF Off, Fields
<1>4. Shape(t)
  BY <1>1, <1>2, <1>3 DEF Shape, Flags
<1>5. Told(t)
  BY <1>1, <1>3 DEF Told
<1>6. /\ t.quic_input_data \in Seq(Entries)
      /\ \A i \in 1 .. Len(t.quic_input_data) : t.quic_input_data[i].msg.has # {"hrr"}
  <2>1. s.quic_input_data \in Seq(Entries)
    BY <1>1 DEF Data
  <2> QED  BY <1>2, <2>1, AppendTo DEF Server
<1>7. Data(t, c)
  BY <1>1, <1>3, <1>6 DEF Data, CanDecrypt
<1>8. ASSUME t.state # "ERROR" PROVE ServerPlace(t, c)
  <2>1. ServerPlace(s, c)
    BY <1>3, <1>8 DEF Server
  <2>2. ServerControl(t)
    BY <1>3, <2>1 DEF ServerPlace, ServerControl, At
  <2>3. ServerKeys(t)
    BY <1>3, <2>1
       DEF ServerPlace, ServerKeys, ServerHellos, ServerReading, ServerWriting, ServerOver
  <2> QED  BY <1>3, <2>1, <2>2, <2>3 DEF ServerPlace, ServerHolds, Retrying, At
<1>9. Forward(s, t)
  <2>1. s.quic_read_level \in Int /\ s.quic_write_level \in Int
    BY <1>1 DEF Data, Level
  <2> QED  BY <1>3, <2>1 DEF Forward
<1> QED  BY <1>2, <1>3, <1>4, <1>5, <1>6, <1>7, <1>8, <1>9 DEF Server, Endpoint

-----------------------------------------------------------------------------
(* Steps of the system *)

GoesForward == \A p \in Peer : Forward(ssl[p], ssl'[p])

\* Standing still takes nothing back.
LEMMA ForwardSelf ==
    ASSUME NEW s, NEW c, Data(s, c)
    PROVE  Forward(s, s)
<1>1. s.quic_read_level \in Int /\ s.quic_write_level \in Int
  BY DEF Data, Level
<1> QED  BY <1>1 DEF Forward

\* A step of the client, which adds f to what it has sent.
LEMMA ClientMoves ==
    ASSUME IInv, NEW t, ClientStep(ssl["client"], t, config),
           ssl' = [ssl EXCEPT !["client"] = t],
           UNCHANGED <<config, requests>>, faults' \in 0 .. MaxFaults,
           NEW f \in Seq(Entries),
           \A i \in 1 .. Len(f) : CanDecrypt(t, f[i].level) /\ FromClient(f[i], t),
           wire' = wire \/ wire' = [wire EXCEPT !["client"] = @ \o f]
    PROVE  IInv' /\ GoesForward
<1> DEFINE k == ssl["client"]
           s == ssl["server"]
<1>1. /\ DOMAIN ssl' = Peer /\ ssl'["client"] = t /\ ssl'["server"] = s
      /\ DOMAIN ssl = Peer /\ config \in Config
      /\ Client(k, config) /\ Server(s, config) /\ EarlyFrom(k, s) /\ Wires
  BY DEF IInv, Peer
<1>2. Client(t, config) /\ Forward(k, t) /\ (Known(k) => Known(t)) /\ k.secrets \subseteq t.secrets
  BY DEF ClientStep, Forward
<1>3. EarlyFrom(t, s)
  BY <1>1, <1>2 DEF EarlyFrom, FromClient
<1>4. Wires'
  <2>1. /\ wire \in [Peer -> Seq(Entries)]
        /\ \A i \in 1 .. Len(wire["client"]) :
              CanDecrypt(t, wire["client"][i].level) /\ FromClient(wire["client"][i], t)
        /\ \A i \in 1 .. Len(wire["server"]) : CanDecrypt(s, wire["server"][i].level)
    <3>1. \A e : (CanDecrypt(k, e) => CanDecrypt(t, e)) /\ (FromClient(e, k) => FromClient(e, t))
      BY <1>2 DEF CanDecrypt, FromClient
    <3>2. /\ wire \in [Peer -> Seq(Entries)]
          /\ \A i \in 1 .. Len(wire["client"]) :
                CanDecrypt(k, wire["client"][i].level) /\ FromClient(wire["client"][i], k)
          /\ \A i \in 1 .. Len(wire["server"]) : CanDecrypt(s, wire["server"][i].level)
      BY <1>1 DEF Wires, Peer
    <3> QED  BY <3>1, <3>2
  <2>2. CASE wire' = wire
    BY <1>1, <2>1, <2>2 DEF Wires, Peer
  <2>3. CASE wire' = [wire EXCEPT !["client"] = @ \o f]
    <3> DEFINE q == wire["client"]
               x == q \o f
    <3>1. q \in Seq(Entries) /\ wire["server"] \in Seq(Entries)
      BY <2>1 DEF Peer
    <3>2. /\ x \in Seq(Entries)
          /\ \A i \in 1 .. Len(x) : \/ i \in 1 .. Len(q) /\ x[i] = q[i]
                                    \/ \E j \in 1 .. Len(f) : x[i] = f[j]
      <4>1. x = q \o f /\ q \in Seq(Entries)
        BY <3>1
      <4> HIDE DEF q, x
      <4> QED  BY <4>1, JoinOf
    <3>3. wire'["client"] = x /\ wire'["server"] = wire["server"] /\ wire' \in [Peer -> Seq(Entries)]
      <4>1. x \in Seq(Entries)
        BY <3>2
      <4>2. wire' = [wire EXCEPT !["client"] = x]
        BY <2>3
      <4> HIDE DEF x
      <4> QED  BY <2>1, <3>1, <4>1, <4>2 DEF Peer
    <3> HIDE DEF x
    <3>4. \A i \in 1 .. Len(x) : CanDecrypt(t, x[i].level) /\ FromClient(x[i], t)
      BY <2>1, <3>2
    <3> QED  BY <1>1, <2>1, <3>3, <3>4 DEF Wires, Peer
  <2> QED  BY <2>2, <2>3
<1>5. IInv'
  BY <1>1, <1>2, <1>3, <1>4 DEF IInv
<1>6. Forward(s, s)
  BY <1>1, ForwardSelf DEF Server, Endpoint
<1> QED  BY <1>1, <1>2, <1>5, <1>6 DEF GoesForward, Peer

\* A step of the server.
LEMMA ServerMoves ==
    ASSUME IInv, NEW t, ServerStep(ssl["server"], t, config),
           ssl' = [ssl EXCEPT !["server"] = t],
           config' = config, requests' \in 0 .. config.requests, faults' \in 0 .. MaxFaults,
           NEW f \in Seq(Entries),
           \A i \in 1 .. Len(f) : CanDecrypt(t, f[i].level),
           wire' = wire \/ wire' = [wire EXCEPT !["server"] = @ \o f]
    PROVE  IInv' /\ GoesForward
<1> DEFINE k == ssl["client"]
           s == ssl["server"]
<1>1. /\ DOMAIN ssl' = Peer /\ ssl'["server"] = t /\ ssl'["client"] = k
      /\ DOMAIN ssl = Peer /\ config \in Config
      /\ Client(k, config) /\ Server(s, config) /\ EarlyFrom(k, s) /\ Wires
  BY DEF IInv, Peer
<1>2. Server(t, config) /\ Forward(s, t) /\ s.secrets \subseteq t.secrets
  BY DEF ServerStep, Forward
<1>3. EarlyFrom(k, t)
  <2>1. s.quic_input_data \in Seq(Entries)
    BY <1>1 DEF Server, Endpoint, Data
  <2>2. ssl_encryption_early_data \in t.secrets => Known(k)
    BY <1>1 DEF ServerStep, EarlyFrom
  <2>3. "early" \in t.clienthello => Known(k)
    BY <1>1, <2>1, TailOf DEF ServerStep, EarlyFrom, FromClient
  <2>4. \A i \in 1 .. Len(t.quic_input_data) : FromClient(t.quic_input_data[i], k)
    <3>1. CASE t.quic_input_data = s.quic_input_data
      BY <1>1, <3>1 DEF EarlyFrom
    <3>2. CASE s.quic_input_data # <<>> /\ t.quic_input_data = Tail(s.quic_input_data)
      BY <1>1, <2>1, <3>2, TailOf DEF EarlyFrom
    <3> QED  BY <3>1, <3>2 DEF ServerStep
  <2> QED  BY <2>2, <2>3, <2>4 DEF EarlyFrom
<1>4. Wires'
  <2>1. /\ wire \in [Peer -> Seq(Entries)]
        /\ \A i \in 1 .. Len(wire["client"]) :
              CanDecrypt(k, wire["client"][i].level) /\ FromClient(wire["client"][i], k)
        /\ \A i \in 1 .. Len(wire["server"]) : CanDecrypt(t, wire["server"][i].level)
    <3>1. \A e : CanDecrypt(s, e) => CanDecrypt(t, e)
      BY <1>2 DEF CanDecrypt
    <3>2. /\ wire \in [Peer -> Seq(Entries)]
          /\ \A i \in 1 .. Len(wire["client"]) :
                CanDecrypt(k, wire["client"][i].level) /\ FromClient(wire["client"][i], k)
          /\ \A i \in 1 .. Len(wire["server"]) : CanDecrypt(s, wire["server"][i].level)
      BY <1>1 DEF Wires, Peer
    <3> QED  BY <3>1, <3>2
  <2>2. CASE wire' = wire
    BY <1>1, <2>1, <2>2 DEF Wires, Peer
  <2>3. CASE wire' = [wire EXCEPT !["server"] = @ \o f]
    <3> DEFINE q == wire["server"]
               x == q \o f
    <3>1. q \in Seq(Entries) /\ wire["client"] \in Seq(Entries)
      BY <2>1 DEF Peer
    <3>2. /\ x \in Seq(Entries)
          /\ \A i \in 1 .. Len(x) : \/ i \in 1 .. Len(q) /\ x[i] = q[i]
                                    \/ \E j \in 1 .. Len(f) : x[i] = f[j]
      <4>1. x = q \o f /\ q \in Seq(Entries)
        BY <3>1
      <4> HIDE DEF q, x
      <4> QED  BY <4>1, JoinOf
    <3>3. wire'["server"] = x /\ wire'["client"] = wire["client"] /\ wire' \in [Peer -> Seq(Entries)]
      <4>1. x \in Seq(Entries)
        BY <3>2
      <4>2. wire' = [wire EXCEPT !["server"] = x]
        BY <2>3
      <4> HIDE DEF x
      <4> QED  BY <2>1, <3>1, <4>1, <4>2 DEF Peer
    <3> HIDE DEF x
    <3>4. \A i \in 1 .. Len(x) : CanDecrypt(t, x[i].level)
      BY <2>1, <3>2
    <3> QED  BY <1>1, <2>1, <3>3, <3>4 DEF Wires, Peer
  <2> QED  BY <2>2, <2>3
<1>5. IInv'
  BY <1>1, <1>2, <1>3, <1>4 DEF IInv
<1>6. Forward(k, k)
  BY <1>1, ForwardSelf DEF Client, Endpoint
<1> QED  BY <1>1, <1>2, <1>5, <1>6 DEF GoesForward, Peer

\* A step of the client that sends nothing.
LEMMA ClientQuiet ==
    ASSUME IInv, NEW t, ClientStep(ssl["client"], t, config), Becomes("client", t) \/ FailsTo("client", t)
    PROVE  IInv' /\ GoesForward
<1> DEFINE f == <<>>
<1>1. f \in Seq(Entries) /\ Len(f) = 0
  OBVIOUS
<1>2. \A i \in 1 .. Len(f) : CanDecrypt(t, f[i].level) /\ FromClient(f[i], t)
  BY <1>1
<1> HIDE DEF f
<1>3. /\ faults' \in 0 .. MaxFaults /\ wire' = wire /\ config' = config
      /\ requests' = requests /\ requests' \in 0 .. config.requests
      /\ ssl' = [ssl EXCEPT !["client"] = t]
  BY BoundsAssumption DEF Becomes, FailsTo, IInv
<1> QED  BY <1>1, <1>2, <1>3, ClientMoves

\* An action of the client's state machine or its application.
LEMMA ClientActs ==
    ASSUME IInv, Step("client") \/ Fault("client")
    PROVE  IInv' /\ GoesForward
<1> DEFINE k == ssl["client"]
<1>1. /\ Client(k, config) /\ k.server = FALSE /\ DOMAIN k = Fields /\ Data(k, config)
      /\ DOMAIN ssl = Peer /\ "client" \in Peer
  BY DEF IInv, Client, Endpoint, Shape, Peer
<1>2. ASSUME NEW t, ClientStep(k, t, config), Becomes("client", t) \/ FailsTo("client", t)
      PROVE  IInv' /\ GoesForward
  BY <1>2, ClientQuiet
<1>3. ClientStep(k, Return(SSLfatal(k), "NOTHING"), config)
  BY <1>1, FatalClient DEF ClientStep
<1>4. CASE SSL_do_handshake("client")
  <2>1. k.call = "none" /\ k.state # "ERROR" /\ Becomes("client", Handshaking(k))
    BY <1>4 DEF SSL_do_handshake, Handshaking
  <2>2. ClientStep(k, Handshaking(k), config)
    BY <1>1, <2>1, ClientDoHandshake
  <2> QED  BY <1>2, <2>1, <2>2
<1>5. CASE SSL_process_quic_post_handshake("client")
  <2>1. /\ k.call = "none" /\ k.state # "ERROR" /\ k.done /\ ~k.in_init
        /\ Becomes("client", Processing(k))
    BY <1>5 DEF SSL_process_quic_post_handshake, Processing
  <2>2. ClientStep(k, Processing(k), config)
    BY <1>1, <2>1, ClientProcess
  <2> QED  BY <1>2, <2>1, <2>2
<1>6. CASE ReturnDone("client")
  <2>1. k.call # "none" /\ k.state = "FINISHED" /\ Becomes("client", Resting(k))
    BY <1>6 DEF ReturnDone, Resting
  <2>2. ClientStep(k, Resting(k), config)
    BY <1>1, <2>1, ClientRest
  <2> QED  BY <1>2, <2>1, <2>2
<1>7. CASE ReadNothing("client")
  <2>1. k.call # "none" /\ k.state = "READING" /\ Becomes("client", Return(k, "READING"))
    BY <1>7 DEF ReadNothing, Reading
  <2>2. ClientStep(k, Return(k, "READING"), config)
    BY <1>1, <2>1, ClientReturn
  <2> QED  BY <1>2, <2>1, <2>2
<1>8. CASE ReadMessage("client")
  <2> DEFINE next == ClientReadTransition(k, k.quic_input_data[1].msg.type)
  <2>1. ReadTransition(k, k.quic_input_data[1].msg.type) = next
    BY <1>1 DEF ReadTransition
  <2>2. /\ k.call # "none" /\ At(k, "READING", "HEADER") /\ k.quic_input_data # <<>>
        /\ next # "BAD" /\ Becomes("client", Received(k, next))
    BY <1>8, <2>1 DEF ReadMessage, Reading, At, Received, Body
  <2>3. ClientStep(k, Received(k, next), config)
    BY <1>1, <2>2, ClientReceive
  <2> QED  BY <1>2, <2>2, <2>3
<1>9. CASE ReadRefused("client")
  BY <1>2, <1>3, <1>9 DEF ReadRefused
<1>10. CASE PostProcess("client")
  <2>1. /\ k.call # "none" /\ At(k, "READING", "POST_PROCESS")
        /\ Becomes("client", PostProcessMessage(k, config))
    BY <1>10 DEF PostProcess, Reading, At
  <2>2. ClientStep(k, PostProcessMessage(k, config), config)
    BY <1>1, <2>1, ClientPostProcess
  <2> QED  BY <1>2, <2>1, <2>2
<1>11. CASE WriteNext("client")
  <2> DEFINE next == ClientWriteTransition(k)
  <2>1. WriteTransition(k, config) = next
    BY <1>1 DEF WriteTransition
  <2>2. k.call # "none" /\ At(k, "WRITING", "TRANSITION")
    BY <1>11 DEF WriteNext, Writing, At
  <2>3. CASE next = "ERROR"
    <3>1. Becomes("client", Return(SSLfatal(k), "NOTHING"))
      BY <1>11, <2>1, <2>3 DEF WriteNext
    <3> QED  BY <1>2, <1>3, <3>1
  <2>4. CASE next # "ERROR"
    <3>1. Becomes("client", WritingOn(k, next))
      BY <1>11, <2>1, <2>4 DEF WriteNext, WritingOn
    <3>2. ClientStep(k, WritingOn(k, next), config)
      BY <1>1, <2>2, <2>4, ClientWriteOn
    <3> QED  BY <1>2, <3>1, <3>2
  <2> QED  BY <2>3, <2>4
<1>12. CASE Construct("client")
  <2>1. k.call # "none" /\ At(k, "WRITING", "PRE_WORK")
    BY <1>12 DEF Construct, Writing, At
  <2>2. CASE PreWorkStops(k)
    <3>1. Becomes("client", Stopping(k))
      BY <1>12, <2>2 DEF Construct, Stopping
    <3>2. ClientStep(k, Stopping(k), config)
      BY <1>1, <2>1, <2>2, ClientStops
    <3> QED  BY <1>2, <3>1, <3>2
  <2>3. CASE ~PreWorkStops(k) /\ k.hand_state \in NothingToSend
    <3>1. Becomes("client", Silent(k))
      BY <1>12, <2>3 DEF Construct, Silent
    <3>2. ClientStep(k, Silent(k), config)
      BY <1>1, <2>1, <2>3, ClientSilent
    <3> QED  BY <1>2, <3>1, <3>2
  <2>4. CASE ~PreWorkStops(k) /\ k.hand_state \notin NothingToSend
    <3>1. Becomes("client", Building(k, config))
      BY <1>12, <2>4 DEF Construct, Building
    <3>2. ClientStep(k, Building(k, config), config)
      BY <1>1, <2>1, <2>4, ClientBuilds
    <3> QED  BY <1>2, <3>1, <3>2
  <2> QED  BY <2>2, <2>3, <2>4
<1>13. CASE TicketDeclined("client")
  <2>1. k.state = "WRITING" /\ k.hand_state = "SW_SESSION_TICKET"
    BY <1>13 DEF TicketDeclined, Writing
  <2> QED  BY <1>1, <2>1 DEF Client, ClientPlace, ClientControl, At, ClientWrites
<1>14. CASE Send("client")
  <2> DEFINE u == Adding(k)
             f == Outgoing(k)
  <2>1. k.call # "none" /\ At(k, "WRITING", "SEND")
    BY <1>14 DEF Send, Writing, At
  <2>2. /\ u.flight = f /\ (config.defer => Sending(k, u, config))
        /\ Sending(k, Emptied(u), config)
    BY <1>1, SendingFields
  <2>3. /\ f \in Seq(Entries) /\ \A i \in 1 .. Len(f) : CanDecrypt(k, f[i].level)
    BY <1>1, OutgoingEntries
  <2>4. CASE config.defer
    <3>1. Becomes("client", u)
      BY <1>14, <2>4 DEF Send, Adding
    <3>2. ClientStep(k, u, config)
      BY <1>1, <2>1, <2>2, <2>4, ClientSends
    <3> QED  BY <1>2, <3>1, <3>2
  <2>5. CASE ~config.defer
    <3> DEFINE t == Emptied(u)
    <3>1. /\ ssl' = [ssl EXCEPT !["client"] = t]
          /\ wire' = [wire EXCEPT !["client"] = @ \o u.flight]
          /\ UNCHANGED <<config, faults, requests>>
      BY <1>14, <2>5 DEF Send, Adding, Emptied
    <3>2. Sending(k, t, config)
      BY <2>2
    <3> HIDE DEF t, u, f
    <3>3. ClientStep(k, t, config) /\ \A i \in 1 .. Len(f) : FromClient(f[i], t)
      BY <1>1, <2>1, <3>2, ClientSends DEF f
    <3>4. \A i \in 1 .. Len(f) : CanDecrypt(t, f[i].level) /\ FromClient(f[i], t)
      <4>1. k.secrets \subseteq t.secrets
        BY <3>3 DEF ClientStep, Forward
      <4> QED  BY <2>3, <3>3, <4>1 DEF CanDecrypt
    <3>5. /\ wire' = [wire EXCEPT !["client"] = @ \o f] /\ config' = config
          /\ requests' = requests /\ faults' \in 0 .. MaxFaults
          /\ requests' \in 0 .. config.requests
      BY <2>2, <3>1 DEF IInv
    <3> QED  BY <2>3, <3>1, <3>3, <3>4, <3>5, ClientMoves
  <2> QED  BY <2>4, <2>5
<1>15. CASE Finish("client")
  <2> DEFINE u == Finishing(k)
             f == k.flight
  <2>1. k.call # "none" /\ At(k, "WRITING", "POST_WORK")
    BY <1>15 DEF Finish, Writing, At
  <2>2. Off(PostWork(k), k, Keys)
    <3>1. k.hand_state \in ClientWrites \union {"PENDING_EARLY_DATA_END", "CW_END_OF_EARLY_DATA"}
      BY <1>1, <2>1 DEF Client, ClientPlace, ClientControl, At
    <3> QED  BY <1>1, <3>1, PostWorkClient
  <2>3. /\ u.flight = f /\ (Flushes(k) => Ends(k, Emptied(u)))
        /\ (~Flushes(k) => Ends(k, u))
    BY <1>1, <2>2, EndsFields
  <2>4. CASE ~Flushes(k)
    <3>1. Becomes("client", u)
      BY <1>15, <2>4 DEF Finish, Finishing
    <3>2. ClientStep(k, u, config)
      BY <1>1, <2>1, <2>3, <2>4, ClientEnds
    <3> QED  BY <1>2, <3>1, <3>2
  <2>5. CASE Flushes(k)
    <3> DEFINE t == Emptied(u)
    <3>1. /\ ssl' = [ssl EXCEPT !["client"] = t]
          /\ wire' = [wire EXCEPT !["client"] = @ \o u.flight]
          /\ UNCHANGED <<config, faults, requests>>
      BY <1>15, <2>5 DEF Finish, Finishing, Emptied
    <3>2. Ends(k, t)
      BY <2>3, <2>5
    <3> HIDE DEF t, u
    <3>3. ClientStep(k, t, config)
      BY <1>1, <2>1, <3>2, ClientEnds
    <3>4. f \in Seq(Entries) /\ \A i \in 1 .. Len(f) : CanDecrypt(t, f[i].level) /\ FromClient(f[i], t)
      <4>1. /\ k.secrets \subseteq t.secrets /\ (Known(k) => Known(t))
        BY <3>3 DEF ClientStep, Forward
      <4>2. f \in Seq(Entries) /\ \A i \in 1 .. Len(f) : CanDecrypt(k, f[i].level) /\ FromClient(f[i], k)
        BY <1>1 DEF Client, Data
      <4> QED  BY <4>1, <4>2 DEF CanDecrypt, FromClient
    <3>5. /\ wire' = [wire EXCEPT !["client"] = @ \o f] /\ config' = config
          /\ requests' = requests /\ faults' \in 0 .. MaxFaults
          /\ requests' \in 0 .. config.requests
      BY <2>3, <3>1 DEF IInv
    <3> HIDE DEF f
    <3> QED  BY <3>1, <3>3, <3>4, <3>5, ClientMoves
  <2> QED  BY <2>4, <2>5
<1>16. CASE PostProcessWaits("client")
  <2>1. k.call # "none" /\ k.state = "READING" /\ FailsTo("client", Return(k, "RETRY"))
    BY <1>16 DEF PostProcessWaits, Reading
  <2>2. ClientStep(k, Return(k, "RETRY"), config)
    BY <1>1, <2>1, ClientReturn
  <2> QED  BY <1>2, <2>1, <2>2
<1>17. CASE SendFails("client")
  <2>1. /\ k.call # "none" /\ k.state = "WRITING" /\ k.write_state = "SEND"
        /\ FailsTo("client", Return(k, "RETRY"))
    BY <1>17 DEF SendFails, Writing
  <2>2. ClientStep(k, Return(k, "RETRY"), config)
    BY <1>1, <2>1, ClientReturn
  <2> QED  BY <1>2, <2>1, <2>2
<1>18. CASE FlushFails("client")
  <2>1. /\ k.call # "none" /\ k.state = "WRITING" /\ k.write_state = "POST_WORK"
        /\ Flushes(k) /\ FailsTo("client", Return(k, "RETRY"))
    BY <1>18 DEF FlushFails, Writing
  <2>2. ClientStep(k, Return(k, "RETRY"), config)
    BY <1>1, <2>1, ClientReturn
  <2> QED  BY <1>2, <2>1, <2>2
<1>19. CASE FatalFailure("client")
  BY <1>2, <1>3, <1>19 DEF FatalFailure
<1> QED  BY <1>4, <1>5, <1>6, <1>7, <1>8, <1>9, <1>10, <1>11, <1>12, <1>13, <1>14, <1>15,
            <1>16, <1>17, <1>18, <1>19 DEF Step, Fault

\* A step of the server that sends nothing.
LEMMA ServerQuiet ==
    ASSUME IInv, NEW t, ServerStep(ssl["server"], t, config), Becomes("server", t) \/ FailsTo("server", t)
    PROVE  IInv' /\ GoesForward
<1> DEFINE f == <<>>
<1>1. f \in Seq(Entries) /\ Len(f) = 0
  OBVIOUS
<1>2. \A i \in 1 .. Len(f) : CanDecrypt(t, f[i].level)
  BY <1>1
<1> HIDE DEF f
<1>3. /\ faults' \in 0 .. MaxFaults /\ wire' = wire /\ config' = config
      /\ requests' = requests /\ requests' \in 0 .. config.requests
      /\ ssl' = [ssl EXCEPT !["server"] = t]
  BY BoundsAssumption DEF Becomes, FailsTo, IInv
<1> QED  BY <1>1, <1>2, <1>3, ServerMoves

\* An action of the server's state machine or its application.
LEMMA ServerActs ==
    ASSUME IInv, Step("server") \/ Fault("server")
    PROVE  IInv' /\ GoesForward
<1> DEFINE k == ssl["server"]
<1>1. /\ Server(k, config) /\ k.server = TRUE /\ DOMAIN k = Fields /\ Data(k, config)
      /\ DOMAIN ssl = Peer /\ "server" \in Peer
  BY DEF IInv, Server, Endpoint, Shape, Peer
<1>2. ASSUME NEW t, ServerStep(k, t, config), Becomes("server", t) \/ FailsTo("server", t)
      PROVE  IInv' /\ GoesForward
  BY <1>2, ServerQuiet
<1>3. ServerStep(k, Return(SSLfatal(k), "NOTHING"), config)
  BY <1>1, FatalServer DEF ServerStep
<1>4. CASE SSL_do_handshake("server")
  <2>1. k.call = "none" /\ k.state # "ERROR" /\ Becomes("server", Handshaking(k))
    BY <1>4 DEF SSL_do_handshake, Handshaking
  <2>2. ServerStep(k, Handshaking(k), config)
    BY <1>1, <2>1, ServerDoHandshake
  <2> QED  BY <1>2, <2>1, <2>2
<1>5. CASE SSL_process_quic_post_handshake("server")
  <2>1. /\ k.call = "none" /\ k.state # "ERROR" /\ k.done /\ ~k.in_init
        /\ Becomes("server", Processing(k))
    BY <1>5 DEF SSL_process_quic_post_handshake, Processing
  <2>2. ServerStep(k, Processing(k), config)
    BY <1>1, <2>1, ServerProcess
  <2> QED  BY <1>2, <2>1, <2>2
<1>6. CASE ReturnDone("server")
  <2>1. k.call # "none" /\ k.state = "FINISHED" /\ Becomes("server", Resting(k))
    BY <1>6 DEF ReturnDone, Resting
  <2>2. ServerStep(k, Resting(k), config)
    BY <1>1, <2>1, ServerRest
  <2> QED  BY <1>2, <2>1, <2>2
<1>7. CASE ReadNothing("server")
  <2>1. k.call # "none" /\ k.state = "READING" /\ Becomes("server", Return(k, "READING"))
    BY <1>7 DEF ReadNothing, Reading
  <2>2. ServerStep(k, Return(k, "READING"), config)
    BY <1>1, <2>1, ServerReturn
  <2> QED  BY <1>2, <2>1, <2>2
<1>8. CASE ReadMessage("server")
  <2> DEFINE next == ServerReadTransition(k, k.quic_input_data[1].msg.type)
  <2>1. ReadTransition(k, k.quic_input_data[1].msg.type) = next
    BY <1>1 DEF ReadTransition
  <2>2. /\ k.call # "none" /\ At(k, "READING", "HEADER") /\ k.quic_input_data # <<>>
        /\ next # "BAD" /\ Becomes("server", Received(k, next))
    BY <1>8, <2>1 DEF ReadMessage, Reading, At, Received, Body
  <2>3. ServerStep(k, Received(k, next), config)
    BY <1>1, <2>2, ServerReceive
  <2> QED  BY <1>2, <2>2, <2>3
<1>9. CASE ReadRefused("server")
  BY <1>2, <1>3, <1>9 DEF ReadRefused
<1>10. CASE PostProcess("server")
  <2>1. /\ k.call # "none" /\ At(k, "READING", "POST_PROCESS")
        /\ Becomes("server", PostProcessMessage(k, config))
    BY <1>10 DEF PostProcess, Reading, At
  <2>2. ServerStep(k, PostProcessMessage(k, config), config)
    BY <1>1, <2>1, ServerPostProcess
  <2> QED  BY <1>2, <2>1, <2>2
<1>11. CASE WriteNext("server")
  <2> DEFINE next == ServerWriteTransition(k, config)
  <2>1. WriteTransition(k, config) = next
    BY <1>1 DEF WriteTransition
  <2>2. k.call # "none" /\ At(k, "WRITING", "TRANSITION")
    BY <1>11 DEF WriteNext, Writing, At
  <2>3. CASE next = "ERROR"
    <3>1. Becomes("server", Return(SSLfatal(k), "NOTHING"))
      BY <1>11, <2>1, <2>3 DEF WriteNext
    <3> QED  BY <1>2, <1>3, <3>1
  <2>4. CASE next # "ERROR"
    <3>1. Becomes("server", WritingOn(k, next))
      BY <1>11, <2>1, <2>4 DEF WriteNext, WritingOn
    <3>2. ServerStep(k, WritingOn(k, next), config)
      BY <1>1, <2>2, <2>4, ServerWriteOn
    <3> QED  BY <1>2, <3>1, <3>2
  <2> QED  BY <2>3, <2>4
<1>12. CASE Construct("server")
  <2>1. k.call # "none" /\ At(k, "WRITING", "PRE_WORK")
    BY <1>12 DEF Construct, Writing, At
  <2>2. CASE PreWorkStops(k)
    <3>1. Becomes("server", Stopping(k))
      BY <1>12, <2>2 DEF Construct, Stopping
    <3>2. ServerStep(k, Stopping(k), config)
      BY <1>1, <2>1, <2>2, ServerStops
    <3> QED  BY <1>2, <3>1, <3>2
  <2>3. CASE ~PreWorkStops(k) /\ k.hand_state \in NothingToSend
    <3>1. Becomes("server", Silent(k))
      BY <1>12, <2>3 DEF Construct, Silent
    <3>2. ServerStep(k, Silent(k), config)
      BY <1>1, <2>1, <2>3, ServerSilent
    <3> QED  BY <1>2, <3>1, <3>2
  <2>4. CASE ~PreWorkStops(k) /\ k.hand_state \notin NothingToSend
    <3>1. Becomes("server", Building(k, config))
      BY <1>12, <2>4 DEF Construct, Building
    <3>2. ServerStep(k, Building(k, config), config)
      BY <1>1, <2>1, <2>4, ServerBuilds
    <3> QED  BY <1>2, <3>1, <3>2
  <2> QED  BY <2>2, <2>3, <2>4
<1>13. CASE TicketDeclined("server")
  <2>1. /\ k.call # "none" /\ At(k, "WRITING", "PRE_WORK")
        /\ k.hand_state = "SW_SESSION_TICKET" /\ Becomes("server", Declining(k))
    BY <1>13 DEF TicketDeclined, Writing, At, Declining
  <2>2. ServerStep(k, Declining(k), config)
    BY <1>1, <2>1, ServerDeclines
  <2> QED  BY <1>2, <2>1, <2>2
<1>14. CASE Send("server")
  <2> DEFINE u == Adding(k)
             f == Outgoing(k)
  <2>1. k.call # "none" /\ At(k, "WRITING", "SEND")
    BY <1>14 DEF Send, Writing, At
  <2>2. /\ u.flight = f /\ (config.defer => Sending(k, u, config))
        /\ Sending(k, Emptied(u), config)
    BY <1>1, SendingFields
  <2>3. /\ f \in Seq(Entries) /\ \A i \in 1 .. Len(f) : CanDecrypt(k, f[i].level)
    BY <1>1, OutgoingEntries
  <2>4. CASE config.defer
    <3>1. Becomes("server", u)
      BY <1>14, <2>4 DEF Send, Adding
    <3>2. ServerStep(k, u, config)
      BY <1>1, <2>1, <2>2, <2>4, ServerSends
    <3> QED  BY <1>2, <3>1, <3>2
  <2>5. CASE ~config.defer
    <3> DEFINE t == Emptied(u)
    <3>1. /\ ssl' = [ssl EXCEPT !["server"] = t]
          /\ wire' = [wire EXCEPT !["server"] = @ \o u.flight]
          /\ UNCHANGED <<config, faults, requests>>
      BY <1>14, <2>5 DEF Send, Adding, Emptied
    <3>2. Sending(k, t, config)
      BY <2>2
    <3> HIDE DEF t, u, f
    <3>3. ServerStep(k, t, config)
      BY <1>1, <2>1, <3>2, ServerSends DEF f
    <3>4. \A i \in 1 .. Len(f) : CanDecrypt(t, f[i].level)
      <4>1. k.secrets \subseteq t.secrets
        BY <3>3 DEF ServerStep, Forward
      <4> QED  BY <2>3, <3>3, <4>1 DEF CanDecrypt
    <3>5. /\ wire' = [wire EXCEPT !["server"] = @ \o f] /\ config' = config
          /\ requests' = requests /\ faults' \in 0 .. MaxFaults
          /\ requests' \in 0 .. config.requests
      BY <2>2, <3>1 DEF IInv
    <3> QED  BY <2>3, <3>1, <3>3, <3>4, <3>5, ServerMoves
  <2> QED  BY <2>4, <2>5
<1>15. CASE Finish("server")
  <2> DEFINE u == Finishing(k)
             f == k.flight
  <2>1. k.call # "none" /\ At(k, "WRITING", "POST_WORK")
    BY <1>15 DEF Finish, Writing, At
  <2>2. Off(PostWork(k), k, Keys)
    <3>1. k.hand_state \in ServerWrites \union {"EARLY_DATA"}
      BY <1>1, <2>1 DEF Server, ServerPlace, ServerControl, At
    <3> QED  BY <1>1, <3>1, PostWorkServer
  <2>3. /\ u.flight = f /\ (Flushes(k) => Ends(k, Emptied(u)))
        /\ (~Flushes(k) => Ends(k, u))
    BY <1>1, <2>2, EndsFields
  <2>4. CASE ~Flushes(k)
    <3>1. Becomes("server", u)
      BY <1>15, <2>4 DEF Finish, Finishing
    <3>2. ServerStep(k, u, config)
      BY <1>1, <2>1, <2>3, <2>4, ServerEnds
    <3> QED  BY <1>2, <3>1, <3>2
  <2>5. CASE Flushes(k)
    <3> DEFINE t == Emptied(u)
    <3>1. /\ ssl' = [ssl EXCEPT !["server"] = t]
          /\ wire' = [wire EXCEPT !["server"] = @ \o u.flight]
          /\ UNCHANGED <<config, faults, requests>>
      BY <1>15, <2>5 DEF Finish, Finishing, Emptied
    <3>2. Ends(k, t)
      BY <2>3, <2>5
    <3> HIDE DEF t, u
    <3>3. ServerStep(k, t, config)
      BY <1>1, <2>1, <3>2, ServerEnds
    <3>4. f \in Seq(Entries) /\ \A i \in 1 .. Len(f) : CanDecrypt(t, f[i].level)
      <4>1. /\ k.secrets \subseteq t.secrets
        BY <3>3 DEF ServerStep, Forward
      <4>2. f \in Seq(Entries) /\ \A i \in 1 .. Len(f) : CanDecrypt(k, f[i].level)
        BY <1>1 DEF Server, Data
      <4> QED  BY <4>1, <4>2 DEF CanDecrypt
    <3>5. /\ wire' = [wire EXCEPT !["server"] = @ \o f] /\ config' = config
          /\ requests' = requests /\ faults' \in 0 .. MaxFaults
          /\ requests' \in 0 .. config.requests
      BY <2>3, <3>1 DEF IInv
    <3> HIDE DEF f
    <3> QED  BY <3>1, <3>3, <3>4, <3>5, ServerMoves
  <2> QED  BY <2>4, <2>5
<1>16. CASE PostProcessWaits("server")
  <2>1. k.call # "none" /\ k.state = "READING" /\ FailsTo("server", Return(k, "RETRY"))
    BY <1>16 DEF PostProcessWaits, Reading
  <2>2. ServerStep(k, Return(k, "RETRY"), config)
    BY <1>1, <2>1, ServerReturn
  <2> QED  BY <1>2, <2>1, <2>2
<1>17. CASE SendFails("server")
  <2>1. /\ k.call # "none" /\ k.state = "WRITING" /\ k.write_state = "SEND"
        /\ FailsTo("server", Return(k, "RETRY"))
    BY <1>17 DEF SendFails, Writing
  <2>2. ServerStep(k, Return(k, "RETRY"), config)
    BY <1>1, <2>1, ServerReturn
  <2> QED  BY <1>2, <2>1, <2>2
<1>18. CASE FlushFails("server")
  <2>1. /\ k.call # "none" /\ k.state = "WRITING" /\ k.write_state = "POST_WORK"
        /\ Flushes(k) /\ FailsTo("server", Return(k, "RETRY"))
    BY <1>18 DEF FlushFails, Writing
  <2>2. ServerStep(k, Return(k, "RETRY"), config)
    BY <1>1, <2>1, ServerReturn
  <2> QED  BY <1>2, <2>1, <2>2
<1>19. CASE FatalFailure("server")
  BY <1>2, <1>3, <1>19 DEF FatalFailure
<1> QED  BY <1>4, <1>5, <1>6, <1>7, <1>8, <1>9, <1>10, <1>11, <1>12, <1>13, <1>14, <1>15,
            <1>16, <1>17, <1>18, <1>19 DEF Step, Fault

\* A ticket is asked for.
LEMMA ServerAsked ==
    ASSUME IInv, SSL_new_session_ticket
    PROVE  IInv' /\ GoesForward
<1> DEFINE s == ssl["server"]
           f == <<>>
<1>1. /\ s.call = "none" /\ s.done /\ s.state # "ERROR" /\ Server(s, config)
      /\ ssl' = [ssl EXCEPT !["server"] = Asking(s)]
      /\ wire' = wire /\ config' = config /\ faults' = faults /\ faults \in 0 .. MaxFaults
  BY DEF SSL_new_session_ticket, Asking, IInv
<1>2. requests' \in 0 .. config.requests
  <2>1. config.requests \in Nat
    BY ConfigAssumption DEF IInv
  <2> QED  BY <2>1 DEF SSL_new_session_ticket, IInv
<1>3. ServerStep(s, Asking(s), config)
  BY <1>1, ServerAsk
<1>4. f \in Seq(Entries) /\ \A i \in 1 .. Len(f) : CanDecrypt(Asking(s), f[i].level)
  OBVIOUS
<1> HIDE DEF f
<1> QED  BY <1>1, <1>2, <1>3, <1>4, ServerMoves

\* What is on the wire after an entry is taken from it was there before.
Taken(w, x) ==
    \A r \in Peer : \A n \in 1 .. Len(x[r]) : \E j \in 1 .. Len(w[r]) : x[r][n] = w[r][j]

\* The wire without the entry that is handed over.
LEMMA WireTaken ==
    ASSUME NEW w, w \in [Peer -> Seq(Entries)], NEW q \in Peer, NEW i \in 1 .. Len(w[q]),
           NEW x, x = [w EXCEPT ![q] = RemoveAt(w[q], i)]
    PROVE  w[q][i] \in Entries /\ x \in [Peer -> Seq(Entries)] /\ Taken(w, x)
<1> DEFINE v == RemoveAt(w[q], i)
<1>1. w[q] \in Seq(Entries)
  OBVIOUS
<1>2. v \in Seq(Entries) /\ \A n \in 1 .. Len(v) : \E j \in 1 .. Len(w[q]) : v[n] = w[q][j]
  BY <1>1, RemoveFrom
<1>3. w[q][i] \in Entries /\ x = [w EXCEPT ![q] = v]
  BY <1>1
<1> HIDE DEF v
<1>4. x \in [Peer -> Seq(Entries)] /\ x[q] = v /\ \A r \in Peer \ {q} : x[r] = w[r]
  BY <1>2, <1>3
<1>5. \A r \in Peer : \A n \in 1 .. Len(x[r]) : \E j \in 1 .. Len(w[r]) : x[r][n] = w[r][j]
  BY <1>2, <1>4
<1> QED  BY <1>3, <1>4, <1>5 DEF Taken

\* Provide to the client.
LEMMA ClientProvided ==
    ASSUME IInv, Provide("client")
    PROVE  IInv' /\ GoesForward
<1> DEFINE k == ssl["client"]
           s == ssl["server"]
<1>0. Other("client") = "server"
  BY DEF Other
<1>1. PICK i \in Deliverable("client") :
         /\ ssl' = [ssl EXCEPT !["client"] = Given(ssl["client"], wire["server"][i])]
         /\ wire' = [wire EXCEPT !["server"] = RemoveAt(wire["server"], i)]
         /\ UNCHANGED <<config, faults, requests>>
  BY <1>0 DEF Provide, Given
<1> DEFINE m == wire["server"][i]
           t == Given(k, m)
<1>2. /\ config \in Config /\ faults \in 0 .. MaxFaults /\ requests \in 0 .. config.requests
      /\ DOMAIN ssl = Peer /\ Client(k, config) /\ Server(s, config)
      /\ EarlyFrom(k, s) /\ Wires /\ wire \in [Peer -> Seq(Entries)]
  BY DEF IInv, Wires
<1>3. /\ i \in 1 .. Len(wire["server"]) /\ "server" \in Peer
      /\ wire' = [wire EXCEPT !["server"] = RemoveAt(wire["server"], i)]
  BY <1>1 DEF Deliverable, Other, Peer
<1>4. /\ m \in Entries /\ wire' \in [Peer -> Seq(Entries)]
      /\ \A r \in Peer : \A n \in 1 .. Len(wire'[r]) :
            \E j \in 1 .. Len(wire[r]) : wire'[r][n] = wire[r][j]
  <2> DEFINE w == wire
             x == wire'
             q == "server"
  <2>1. /\ w \in [Peer -> Seq(Entries)] /\ q \in Peer /\ i \in 1 .. Len(w[q])
        /\ x = [w EXCEPT ![q] = RemoveAt(w[q], i)]
    BY <1>2, <1>3
  <2> HIDE DEF w, x, q
  <2>2. w[q][i] \in Entries
    BY <2>1, WireTaken
  <2>3. x \in [Peer -> Seq(Entries)]
    BY <2>1, WireTaken
  <2>4. Taken(w, x)
    BY <2>1, WireTaken
  <2> QED  BY <2>2, <2>3, <2>4 DEF w, x, q, Taken
<1>5. ClientStep(k, t, config)
  BY <1>2, <1>4, ClientGiven
<1>6. /\ ssl'["client"] = t /\ ssl'["server"] = s /\ DOMAIN ssl' = Peer
  BY <1>1, <1>2 DEF Peer
<1> HIDE DEF t, m
<1>7. Client(t, config) /\ Forward(k, t) /\ (Known(k) => Known(t)) /\ k.secrets \subseteq t.secrets
  BY <1>5 DEF ClientStep, Forward
<1>8. EarlyFrom(t, s)
  BY <1>2, <1>7 DEF EarlyFrom, FromClient
<1>9. Wires'
  <2>1. \A e : (CanDecrypt(k, e) => CanDecrypt(t, e)) /\ (FromClient(e, k) => FromClient(e, t))
    BY <1>7 DEF CanDecrypt, FromClient
  <2>2. /\ \A j \in 1 .. Len(wire["client"]) :
              CanDecrypt(t, wire["client"][j].level) /\ FromClient(wire["client"][j], t)
        /\ \A j \in 1 .. Len(wire["server"]) : CanDecrypt(s, wire["server"][j].level)
    BY <1>2, <2>1 DEF Wires, Peer
  <2>3. \A r \in Peer : \A j \in 1 .. Len(wire'[r]) : CanDecrypt(ssl'[r], wire'[r][j].level)
    <3>1. \A j \in 1 .. Len(wire'["client"]) : CanDecrypt(t, wire'["client"][j].level)
      BY <1>4, <2>2 DEF Peer
    <3>2. \A j \in 1 .. Len(wire'["server"]) : CanDecrypt(s, wire'["server"][j].level)
      BY <1>4, <2>2 DEF Peer
    <3> QED  BY <1>6, <3>1, <3>2 DEF Peer
  <2>4. \A j \in 1 .. Len(wire'["client"]) : FromClient(wire'["client"][j], t)
    BY <1>4, <2>2 DEF Peer
  <2> QED  BY <1>4, <1>6, <2>3, <2>4 DEF Wires
<1>10. IInv'
  BY <1>1, <1>2, <1>6, <1>7, <1>8, <1>9 DEF IInv
<1>11. Forward(s, s)
  BY <1>2, ForwardSelf DEF Server, Endpoint
<1> QED  BY <1>6, <1>7, <1>10, <1>11 DEF GoesForward, Peer

\* Provide to the server. What it is given came from the client.
LEMMA ServerProvided ==
    ASSUME IInv, Provide("server")
    PROVE  IInv' /\ GoesForward
<1> DEFINE k == ssl["client"]
           s == ssl["server"]
<1>0. Other("server") = "client"
  BY DEF Other
<1>1. PICK i \in Deliverable("server") :
         /\ ssl' = [ssl EXCEPT !["server"] = Given(ssl["server"], wire["client"][i])]
         /\ wire' = [wire EXCEPT !["client"] = RemoveAt(wire["client"], i)]
         /\ UNCHANGED <<config, faults, requests>>
  BY <1>0 DEF Provide, Given
<1> DEFINE m == wire["client"][i]
           t == Given(s, m)
<1>2. /\ config \in Config /\ faults \in 0 .. MaxFaults /\ requests \in 0 .. config.requests
      /\ DOMAIN ssl = Peer /\ Client(k, config) /\ Server(s, config)
      /\ EarlyFrom(k, s) /\ Wires /\ wire \in [Peer -> Seq(Entries)]
  BY DEF IInv, Wires
<1>3. /\ i \in 1 .. Len(wire["client"]) /\ "client" \in Peer
      /\ wire' = [wire EXCEPT !["client"] = RemoveAt(wire["client"], i)]
  BY <1>1 DEF Deliverable, Other, Peer
<1>4. /\ m \in Entries /\ wire' \in [Peer -> Seq(Entries)]
      /\ \A r \in Peer : \A n \in 1 .. Len(wire'[r]) :
            \E j \in 1 .. Len(wire[r]) : wire'[r][n] = wire[r][j]
  <2> DEFINE w == wire
             x == wire'
             q == "client"
  <2>1. /\ w \in [Peer -> Seq(Entries)] /\ q \in Peer /\ i \in 1 .. Len(w[q])
        /\ x = [w EXCEPT ![q] = RemoveAt(w[q], i)]
    BY <1>2, <1>3
  <2> HIDE DEF w, x, q
  <2>2. w[q][i] \in Entries
    BY <2>1, WireTaken
  <2>3. x \in [Peer -> Seq(Entries)]
    BY <2>1, WireTaken
  <2>4. Taken(w, x)
    BY <2>1, WireTaken
  <2> QED  BY <2>2, <2>3, <2>4 DEF w, x, q, Taken
<1>5. FromClient(m, k)
  BY <1>2, <1>3 DEF Wires
<1>6. /\ Server(t, config) /\ Forward(s, t)
      /\ t.secrets = s.secrets /\ t.clienthello = s.clienthello
      /\ t.quic_input_data = Append(s.quic_input_data, m)
  <2>1. m.msg.has # {"hrr"}
    BY <1>5 DEF FromClient
  <2> HIDE DEF m
  <2> QED  BY <1>2, <1>4, <2>1, ServerGiven
<1>7. /\ ssl'["server"] = t /\ ssl'["client"] = k /\ DOMAIN ssl' = Peer
  BY <1>1, <1>2 DEF Peer
<1> HIDE DEF t, m
<1>8. EarlyFrom(k, t)
  <2>1. s.quic_input_data \in Seq(Entries)
    BY <1>2 DEF Server, Endpoint, Data
  <2>2. \A j \in 1 .. Len(t.quic_input_data) : FromClient(t.quic_input_data[j], k)
    BY <1>2, <1>4, <1>5, <1>6, <2>1, AppendTo DEF EarlyFrom
  <2> QED  BY <1>2, <1>6, <2>2 DEF EarlyFrom
<1>9. Wires'
  <2>1. /\ \A j \in 1 .. Len(wire["client"]) :
              CanDecrypt(k, wire["client"][j].level) /\ FromClient(wire["client"][j], k)
        /\ \A j \in 1 .. Len(wire["server"]) : CanDecrypt(t, wire["server"][j].level)
    BY <1>2, <1>6 DEF Wires, Peer, CanDecrypt
  <2>2. \A r \in Peer : \A j \in 1 .. Len(wire'[r]) : CanDecrypt(ssl'[r], wire'[r][j].level)
    <3>1. \A j \in 1 .. Len(wire'["client"]) : CanDecrypt(k, wire'["client"][j].level)
      BY <1>4, <2>1 DEF Peer
    <3>2. \A j \in 1 .. Len(wire'["server"]) : CanDecrypt(t, wire'["server"][j].level)
      BY <1>4, <2>1 DEF Peer
    <3> QED  BY <1>7, <3>1, <3>2 DEF Peer
  <2>3. \A j \in 1 .. Len(wire'["client"]) : FromClient(wire'["client"][j], k)
    BY <1>4, <2>1 DEF Peer
  <2> QED  BY <1>4, <1>7, <2>2, <2>3 DEF Wires
<1>10. IInv'
  BY <1>1, <1>2, <1>6, <1>7, <1>8, <1>9 DEF IInv
<1>11. Forward(k, k)
  BY <1>2, ForwardSelf DEF Client, Endpoint
<1> QED  BY <1>6, <1>7, <1>10, <1>11 DEF GoesForward, Peer

\* A message too many.
LEMMA Strays ==
    ASSUME IInv, NEW p \in Peer, StrayMessage(p)
    PROVE  IInv' /\ GoesForward
<1>1. PICK type \in {"CERTIFICATE_REQUEST", "CERTIFICATE", "FINISHED"} :
         wire' = [wire EXCEPT ![p] = Append(@, [level |-> ssl_encryption_handshake,
                                                msg   |-> Msg(type, {"stray"})])]
  BY DEF StrayMessage
<1> DEFINE h == {"stray"}
           l == ssl_encryption_handshake
           y == Msg(type, h)
           e == [level |-> l, msg |-> y]
<1>2. /\ config \in Config /\ faults \in 0 .. MaxFaults /\ requests \in 0 .. config.requests
      /\ DOMAIN ssl = Peer /\ Client(ssl["client"], config) /\ Server(ssl["server"], config)
      /\ EarlyFrom(ssl["client"], ssl["server"]) /\ Wires /\ wire \in [Peer -> Seq(Entries)]
  BY DEF IInv, Wires
<1>3. h \in SUBSET Facts /\ h # {"hrr"} /\ "early" \notin h /\ type \in Types /\ l \in Level
  BY DEF Facts, Types, Level, ssl_encryption_handshake
<1>4. wire' = [wire EXCEPT ![p] = Append(@, e)]
  BY <1>1
<1> HIDE DEF h, l
<1>5. y \in Messages /\ y.has = h
  BY <1>3, BareMessage
<1> HIDE DEF y
<1>6. e \in Entries /\ e.level = l /\ e.msg = y
  BY <1>3, <1>5 DEF Entries
<1> HIDE DEF e
<1>7. CanDecrypt(ssl[p], l)
  <2>1. ssl[p].quic_write_level = l
    BY DEF StrayMessage, l
  <2>2. Data(ssl[p], config)
    BY <1>2 DEF Peer, Client, Server, Endpoint
  <2> QED  BY <2>1, <2>2 DEF Data
<1>8. FromClient(e, ssl["client"])
  BY <1>3, <1>5, <1>6 DEF FromClient
<1> DEFINE v == Append(wire[p], e)
<1>9. /\ v \in Seq(Entries)
      /\ \A i \in 1 .. Len(v) : (i \in 1 .. Len(wire[p]) /\ v[i] = wire[p][i]) \/ v[i] = e
  <2>1. wire[p] \in Seq(Entries)
    BY <1>2
  <2> QED  BY <1>6, <2>1, AppendTo
<1>10. wire' = [wire EXCEPT ![p] = v]
  BY <1>4
<1> HIDE DEF v
<1>11. wire' \in [Peer -> Seq(Entries)] /\ wire'[p] = v /\ \A r \in Peer \ {p} : wire'[r] = wire[r]
  BY <1>2, <1>9, <1>10
<1>12. /\ ssl' = ssl /\ config' = config /\ requests' = requests
       /\ faults' \in 0 .. MaxFaults
  BY <1>2, BoundsAssumption DEF StrayMessage
<1>13. Wires'
  <2>1. \A q \in Peer : \A i \in 1 .. Len(wire'[q]) : CanDecrypt(ssl[q], wire'[q][i].level)
    <3>1. \A q \in Peer : \A i \in 1 .. Len(wire[q]) : CanDecrypt(ssl[q], wire[q][i].level)
      BY <1>2 DEF Wires
    <3>2. \A i \in 1 .. Len(v) : CanDecrypt(ssl[p], v[i].level)
      BY <1>6, <1>7, <1>9, <3>1
    <3> QED  BY <1>11, <3>1, <3>2
  <2>2. \A i \in 1 .. Len(wire'["client"]) : FromClient(wire'["client"][i], ssl["client"])
    <3>1. \A i \in 1 .. Len(wire["client"]) : FromClient(wire["client"][i], ssl["client"])
      BY <1>2 DEF Wires
    <3>2. CASE p = "client"
      BY <1>8, <1>9, <1>11, <3>1, <3>2
    <3>3. CASE p # "client"
      BY <1>11, <3>1, <3>3 DEF Peer
    <3> QED  BY <3>2, <3>3
  <2> QED  BY <1>11, <1>12, <2>1, <2>2 DEF Wires
<1>14. IInv'
  BY <1>2, <1>12, <1>13 DEF IInv
<1>15. \A q \in Peer : Forward(ssl[q], ssl[q])
  BY <1>2, ForwardSelf DEF Client, Server, Endpoint, Peer
<1> QED  BY <1>12, <1>14, <1>15 DEF GoesForward

-----------------------------------------------------------------------------
(* The beginning *)

\* An SSL object in its initial state.
Fresh(s, server, early) ==
    /\ DOMAIN s = Fields /\ s.server = server /\ s.early_data_state = early
    /\ s.state = "UNINITED" /\ s.hand_state = "BEFORE" /\ s.call = "none"
    /\ s.in_init = TRUE /\ s.done = FALSE /\ s.fresh = FALSE /\ s.hit = FALSE
    /\ s.max_early_data = FALSE /\ s.hello_retry_request = "NONE"
    /\ s.quic_read_level = ssl_encryption_initial
    /\ s.quic_write_level = ssl_encryption_initial
    /\ s.quic_input_data = <<>> /\ s.secrets = {} /\ s.flight = <<>>
    /\ s.transcript = <<>> /\ s.msg = Msg("none", {}) /\ s.clienthello = {}
    /\ s.early_data = "NOT_SENT" /\ s.extra_tickets_expected = 0
    /\ s.cert_req = 0 /\ s.quic_latest_level_received = ssl_encryption_initial

\* SSL_new gives an object in its initial state.
LEMMA NewFields ==
    ASSUME NEW server, NEW early
    PROVE  Fresh(SSL_new(server, early), server, early)
<1> DEFINE s == SSL_new(server, early)
<1> DEFINE m == Msg("none", {})
           l == ssl_encryption_initial
<1> HIDE DEF m, l
<1>1. s =
    [server |-> server, state |-> "UNINITED", hand_state |-> "BEFORE",
     read_state |-> "HEADER", write_state |-> "TRANSITION", in_init |-> TRUE,
     rwstate |-> "RETRY", call |-> "none", done |-> FALSE, fresh |-> FALSE,
     quic_read_level |-> l, quic_write_level |-> l, quic_latest_level_received |-> l,
     quic_input_data |-> <<>>, secrets |-> {}, flight |-> <<>>,
     transcript |-> <<>>, msg |-> m, clienthello |-> {},
     hit |-> FALSE, hello_retry_request |-> "NONE", cert_req |-> 0,
     early_data_state |-> early, early_data |-> "NOT_SENT", max_early_data |-> FALSE,
     cleanuphand |-> FALSE, ticket_expected |-> FALSE, sent_tickets |-> 0,
     extra_tickets_expected |-> 0, tickets_declined |-> 0, tickets_received |-> 0]
  BY DEF SSL_new, m, l
<1>2. DOMAIN s = Fields
  BY <1>1 DEF Fields
<1>3. /\ s.server = server /\ s.early_data_state = early
      /\ s.state = "UNINITED" /\ s.hand_state = "BEFORE" /\ s.call = "none"
      /\ s.in_init = TRUE /\ s.done = FALSE /\ s.fresh = FALSE /\ s.hit = FALSE
      /\ s.max_early_data = FALSE /\ s.hello_retry_request = "NONE"
  BY <1>1
<1>4. /\ s.quic_read_level = l /\ s.quic_write_level = l
      /\ s.quic_input_data = <<>> /\ s.secrets = {} /\ s.flight = <<>>
      /\ s.transcript = <<>> /\ s.msg = m /\ s.clienthello = {}
      /\ s.early_data = "NOT_SENT" /\ s.extra_tickets_expected = 0
      /\ s.cert_req = 0 /\ s.quic_latest_level_received = l
  BY <1>1
<1> HIDE DEF s
<1>5. Fresh(s, server, early)
  BY <1>2, <1>3, <1>4 DEF Fresh, m, l
<1> QED  BY <1>5 DEF s

\* What holds of either side holds of a new object.
LEMMA NewEndpoint ==
    ASSUME NEW server, NEW early, NEW c
    PROVE  Endpoint(SSL_new(server, early), c)
<1> DEFINE s == SSL_new(server, early)
<1>0. Fresh(s, server, early)
  BY NewFields
<1> HIDE DEF s
<1>1. /\ DOMAIN s = Fields /\ s.server = server /\ s.early_data_state = early
      /\ s.state = "UNINITED" /\ s.hand_state = "BEFORE" /\ s.call = "none"
      /\ s.in_init = TRUE /\ s.done = FALSE /\ s.fresh = FALSE /\ s.hit = FALSE
      /\ s.max_early_data = FALSE
      /\ s.quic_read_level = ssl_encryption_initial
      /\ s.quic_write_level = ssl_encryption_initial
      /\ s.quic_input_data = <<>> /\ s.secrets = {} /\ s.flight = <<>>
      /\ s.transcript = <<>> /\ s.msg = Msg("none", {}) /\ s.clienthello = {}
  BY <1>0 DEF Fresh
<1>2. Msg("none", {}) \in Messages
  <2> DEFINE y == "none"
             h == {}
  <2>1. y \in Types /\ h \in SUBSET Facts
    BY DEF Types
  <2> HIDE DEF y, h
  <2>2. Msg(y, h) \in Messages
    BY <2>1, BareMessage
  <2> QED  BY <2>2 DEF y, h
<1>3. Shape(s)
  BY <1>1 DEF Shape, Flags
<1>4. Data(s, c)
  BY <1>1, <1>2 DEF Data, CanDecrypt, Level, ssl_encryption_initial
<1>5. Told(s)
  BY <1>1 DEF Told
<1> QED  BY <1>3, <1>4, <1>5 DEF Endpoint, s

\* A new client.
LEMMA ClientBegins ==
    ASSUME NEW c
    PROVE  Client(SSL_new(FALSE, EarlyDataState(FALSE, c)), c)
<1> DEFINE s == SSL_new(FALSE, EarlyDataState(FALSE, c))
<1>0. Fresh(s, FALSE, EarlyDataState(FALSE, c))
  BY NewFields
<1>1. Endpoint(s, c)
  BY NewEndpoint
<1> HIDE DEF s
<1>2. EarlyDataState(FALSE, c) \in {"NONE", "CONNECTING"}
  BY DEF EarlyDataState
<1>3. /\ s.server = FALSE /\ s.early_data_state = EarlyDataState(FALSE, c)
      /\ s.state = "UNINITED" /\ s.hand_state = "BEFORE" /\ s.call = "none"
      /\ s.done = FALSE /\ s.max_early_data = FALSE /\ s.flight = <<>>
      /\ s.quic_read_level = ssl_encryption_initial
      /\ s.quic_write_level = ssl_encryption_initial
  BY <1>0 DEF Fresh
<1>4. ClientControl(s)
  BY <1>3 DEF ClientControl
<1>5. ClientKeys(s)
  BY <1>3 DEF ClientKeys, ClientReading, ClientWriting, ClientOver, ClientReads
<1>6. ClientPlace(s, c)
  BY <1>2, <1>3, <1>4, <1>5 DEF ClientPlace, At
<1>7. Client(s, c)
  <2>1. \A i \in 1 .. Len(s.flight) : FALSE
    BY <1>3
  <2>2. s.early_data_state \in {"NONE", "CONNECTING"}
    BY <1>2, <1>3
  <2> QED  BY <1>1, <1>3, <1>6, <2>1, <2>2 DEF Client
<1> QED  BY <1>7 DEF s

\* A new server.
LEMMA ServerBegins ==
    ASSUME NEW c
    PROVE  Server(SSL_new(TRUE, EarlyDataState(TRUE, c)), c)
<1> DEFINE s == SSL_new(TRUE, EarlyDataState(TRUE, c))
<1>0. Fresh(s, TRUE, EarlyDataState(TRUE, c))
  BY NewFields
<1>1. Endpoint(s, c)
  BY NewEndpoint
<1> HIDE DEF s
<1>2. EarlyDataState(TRUE, c) \in {"NONE", "ACCEPTING"}
  BY DEF EarlyDataState
<1>3. /\ s.server = TRUE /\ s.early_data_state = EarlyDataState(TRUE, c)
      /\ s.state = "UNINITED" /\ s.hand_state = "BEFORE" /\ s.call = "none"
      /\ s.done = FALSE /\ s.flight = <<>> /\ s.quic_input_data = <<>> /\ s.secrets = {}
      /\ s.quic_read_level = ssl_encryption_initial
      /\ s.quic_write_level = ssl_encryption_initial
      /\ s.early_data = "NOT_SENT" /\ s.extra_tickets_expected = 0
  BY <1>0 DEF Fresh
<1>4. ServerControl(s)
  BY <1>3 DEF ServerControl
<1>5. ServerKeys(s)
  BY <1>3 DEF ServerKeys, ServerHellos, ServerReading, ServerWriting, ServerOver, ServerFlight
<1>6. ServerPlace(s, c)
  BY <1>2, <1>3, <1>4, <1>5 DEF ServerPlace, At
<1>7. Server(s, c)
  <2>1. \A i \in 1 .. Len(s.quic_input_data) : FALSE
    BY <1>3
  <2>2. s.early_data_state \in {"NONE", "ACCEPTING"}
    BY <1>2, <1>3
  <2>3. s.extra_tickets_expected \in Nat /\ s.server = TRUE
    BY <1>3
  <2> QED  BY <1>1, <1>6, <2>1, <2>2, <2>3 DEF Server
<1> QED  BY <1>7 DEF s

\* The invariant holds initially.
LEMMA InitInv ==
    ASSUME Init
    PROVE  IInv
<1> DEFINE k == SSL_new(FALSE, EarlyDataState(FALSE, config))
           s == SSL_new(TRUE, EarlyDataState(TRUE, config))
<1>1. /\ config \in Config /\ faults = MaxFaults /\ requests = 0
      /\ ssl = [p \in Peer |-> SSL_new(p = "server", EarlyDataState(p = "server", config))]
      /\ wire = [p \in Peer |-> <<>>]
  BY DEF Init
<1>2. DOMAIN ssl = Peer /\ ssl["client"] = k /\ ssl["server"] = s
  <2>1. /\ DOMAIN ssl = Peer
        /\ ssl["client"] = SSL_new("client" = "server", EarlyDataState("client" = "server", config))
        /\ ssl["server"] = SSL_new("server" = "server", EarlyDataState("server" = "server", config))
    BY <1>1 DEF Peer
  <2>2. ("client" = "server") = FALSE /\ ("server" = "server") = TRUE
    OBVIOUS
  <2> QED  BY <2>1, <2>2
<1>3. Client(k, config) /\ Server(s, config)
  BY ClientBegins, ServerBegins
<1>4. Fresh(s, TRUE, EarlyDataState(TRUE, config))
  BY NewFields
<1> HIDE DEF k, s
<1>5. EarlyFrom(k, s)
  BY <1>4 DEF EarlyFrom, Fresh
<1>6. Wires
  BY <1>1 DEF Wires, Peer
<1>7. config.requests \in Nat
  BY <1>1, ConfigAssumption
<1> QED  BY <1>1, <1>2, <1>3, <1>5, <1>6, <1>7, BoundsAssumption DEF IInv

\* Every step keeps the invariant and takes nothing back.
LEMMA NextInv ==
    ASSUME IInv, [Next]_vars
    PROVE  IInv' /\ GoesForward
<1>1. CASE UNCHANGED vars
  <2>1. IInv'
    BY <1>1 DEF IInv, vars, Wires
  <2>2. \A p \in Peer : Forward(ssl[p], ssl[p])
    BY ForwardSelf DEF IInv, Client, Server, Endpoint, Peer
  <2> QED  BY <1>1, <2>1, <2>2 DEF GoesForward, vars
<1>2. CASE SSL_new_session_ticket
  BY <1>2, ServerAsked
<1>3. ASSUME NEW p \in Peer, Step(p) \/ Fault(p) \/ Provide(p) \/ StrayMessage(p)
      PROVE  IInv' /\ GoesForward
  <2>1. CASE StrayMessage(p)
    BY <2>1, Strays
  <2>2. CASE p = "client" /\ ~StrayMessage(p)
    <3>1. Step("client") \/ Fault("client") \/ Provide("client")
      BY <1>3, <2>2
    <3> QED  BY <3>1, ClientActs, ClientProvided
  <2>3. CASE p = "server" /\ ~StrayMessage(p)
    <3>1. Step("server") \/ Fault("server") \/ Provide("server")
      BY <1>3, <2>3
    <3> QED  BY <3>1, ServerActs, ServerProvided
  <2> QED  BY <2>1, <2>2, <2>3 DEF Peer
<1> QED  BY <1>1, <1>2, <1>3 DEF Next

-----------------------------------------------------------------------------
(* Theorems *)

\* The inductive invariant holds, whatever the two sides are configured with
\* and whichever steps fail.
THEOREM Invariance == Spec => []IInv
<1>1. Init => IInv
  BY InitInv
<1>2. IInv /\ [Next]_vars => IInv'
  BY NextInv
<1> QED  BY <1>1, <1>2, PTL DEF Spec

\* Every field keeps its type, in particular the levels and secrets, and the
\* early data states are those of the side: the server's and the client's do not
\* mix.
THEOREM TypeCorrect == Spec => []TypeOK
<1>1. IInv => TypeOK
  BY DEF IInv, TypeOK, Peer, Client, Server, Endpoint, Shape, Data
<1> QED  BY <1>1, Invariance, PTL

\* Levels, secrets and the outcome of a handshake that is over (quic_read_level
\* and quic_write_level of ssl/tls13_enc.c, the transcript, the session hit) are
\* never taken back.
THEOREM NeverBack == Spec => NeverGoesBack
<1> DEFINE Onward == \A p \in Peer :
                        /\ ssl'[p].quic_read_level >= ssl[p].quic_read_level
                        /\ ssl'[p].quic_write_level >= ssl[p].quic_write_level
                        /\ ssl[p].secrets \subseteq ssl'[p].secrets
                        /\ ssl[p].done => /\ ssl'[p].done
                                          /\ ssl'[p].transcript = ssl[p].transcript
                                          /\ ssl'[p].hit = ssl[p].hit
<1>1. IInv /\ [Next]_vars => [Onward]_vars
  BY NextInv DEF GoesForward, Forward
<1> QED  BY <1>1, Invariance, PTL DEF Spec, NeverGoesBack

\* set_encryption_secrets comes before a level is used, on either side, for what
\* is sent and what is held back, and the server's stack gets an early data
\* secret only if the client's has one.
THEOREM SecretsFirst == Spec => []SecretsBeforeUse
<1>1. IInv => SecretsBeforeUse
  <2> SUFFICES ASSUME IInv PROVE SecretsBeforeUse
    OBVIOUS
  <2>1. \A p \in Peer : Data(ssl[p], config)
    BY DEF IInv, Client, Server, Endpoint, Peer
  <2>2. ASSUME NEW p \in Peer, NEW m \in Sent(p)
        PROVE  CanDecrypt(ssl[p], m.level)
    <3>1. wire[p] \in Seq(Entries) /\ ssl[p].flight \in Seq(Entries)
      BY <2>1 DEF IInv, Wires, Data
    <3>2. \/ \E i \in 1 .. Len(wire[p]) : m = wire[p][i]
          \/ \E i \in 1 .. Len(ssl[p].flight) : m = ssl[p].flight[i]
      BY <2>2, <3>1 DEF Sent, Range
    <3> QED  BY <2>1, <3>2 DEF IInv, Wires, Data
  <2>3. (/\ ssl_encryption_early_data \in ssl["server"].secrets
         /\ ssl["client"].call = "none" /\ ~Failed("client"))
           => ssl_encryption_early_data \in ssl["client"].secrets
    BY DEF IInv, EarlyFrom, Known, Failed
  <2> QED  BY <2>1, <2>2, <2>3 DEF SecretsBeforeUse, Data
<1> QED  BY <1>1, Invariance, PTL

\* No SSL_do_handshake of the server returns to wait for the client with the
\* early data secret installed and that of the application level missing.
THEOREM AckKeys == Spec => []AckKeysWithEarlyKeys
<1>1. IInv => AckKeysWithEarlyKeys
  <2> SUFFICES ASSUME IInv PROVE AckKeysWithEarlyKeys
    OBVIOUS
  <2> DEFINE s == ssl["server"]
  <2>1. Told(s) /\ (s.state # "ERROR" => ServerPlace(s, config))
    BY DEF IInv, Server, Endpoint
  <2> QED  BY <2>1 DEF AckKeysWithEarlyKeys, Told, ServerPlace
<1> QED  BY <1>1, Invariance, PTL

\* flush_flight is called for all of a flight before the application is told to
\* wait for its peer, but by a client that offers early data: post-work after that
\* ClientHello does not flush.
THEOREM Flushed == Spec => []HeldByEarlyClient
<1>1. IInv => HeldByEarlyClient
  <2> SUFFICES ASSUME IInv
               PROVE  HeldByEarlyClient
    OBVIOUS
  <2>1. ASSUME ssl["client"].call = "none", ssl["client"].rwstate = "READING",
               ssl["client"].flight # <<>>
        PROVE  config.clientEarly = "on"
    <3>1. Told(ssl["client"]) /\ Client(ssl["client"], config)
      BY DEF IInv, Client, Endpoint
    <3>2. ssl["client"].state # "WRITING" /\ ssl["client"].state # "ERROR"
      BY <2>1, <3>1 DEF Told
    <3> QED  BY <2>1, <3>1, <3>2 DEF Client, ClientPlace, ClientHolds
  <2>2. ASSUME ssl["server"].call = "none", ssl["server"].rwstate = "READING"
        PROVE  ssl["server"].flight = <<>>
    <3>1. Told(ssl["server"]) /\ Server(ssl["server"], config)
      BY DEF IInv, Server, Endpoint
    <3>2. ssl["server"].state # "WRITING" /\ ssl["server"].state # "ERROR"
      BY <2>2, <3>1 DEF Told
    <3> QED  BY <3>1, <3>2 DEF Server, ServerPlace, ServerHolds
  <2> QED  BY <2>1, <2>2 DEF HeldByEarlyClient, Peer
<1> QED  BY <1>1, Invariance, PTL
=============================================================================
