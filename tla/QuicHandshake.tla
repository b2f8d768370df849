--------------------------- MODULE QuicHandshake ---------------------------
(***************************************************************************)
(* A client and a server of this library shaking hands over QUIC.  Each    *)
(* runs state_machine (ssl/statem/statem.c) inside SSL_do_handshake or     *)
(* SSL_process_quic_post_handshake, one step per message or sub-state; the *)
(* QUIC stacks between them carry CRYPTO data and call                     *)
(* SSL_provide_quic_data, a whole message at a time (QuicInput shows that  *)
(* the cut into calls does not matter).                                    *)
(*                                                                         *)
(* The callbacks of an SSL_QUIC_METHOD, certificate callbacks, allocations *)
(* and the checks on a message may fail at any step, and a peer may send a *)
(* message too many; each failure takes one of MaxFaults.                  *)
(***************************************************************************)
EXTENDS QuicEndpoint, SequencesExt

CONSTANT MaxFaults      \* bound: failures in a behaviour

ASSUME BoundsAssumption == MaxFaults \in Nat

VARIABLES
    ssl,       \* the two SSL objects
    wire,      \* wire[p]: what p sent and the other's stack has not handed over
    config,    \* the configuration of this connection
    faults,    \* failures still to come
    requests   \* calls of SSL_new_session_ticket so far

vars == <<ssl, wire, config, faults, requests>>

Peer     == {"client", "server"}
Other(p) == IF p = "client" THEN "server" ELSE "client"

Init ==
    /\ config \in Config
    /\ ssl = [p \in Peer |-> SSL_new(p = "server", EarlyDataState(p = "server", config))]
    /\ wire = [p \in Peer |-> <<>>]
    /\ faults = MaxFaults
    /\ requests = 0

\* A step of p that leaves it as s and touches nothing else.
Becomes(p, s) ==
    /\ ssl' = [ssl EXCEPT ![p] = s]
    /\ UNCHANGED <<wire, config, faults, requests>>

\* The same, by a failure.
FailsTo(p, s) ==
    /\ faults > 0
    /\ faults' = faults - 1
    /\ ssl' = [ssl EXCEPT ![p] = s]
    /\ UNCHANGED <<wire, config, requests>>

-----------------------------------------------------------------------------
(* The application's calls                                                 *)

\* state_machine on entry: a connection not begun or at rest starts writing.
EnterStateMachine(s) ==
    IF s.state \in {"UNINITED", "FINISHED"}
    THEN [s EXCEPT !.state = "WRITING", !.write_state = "TRANSITION"]
    ELSE s

\* ossl_statem_check_finish_init(s, -1).
CheckFinishInit(s) ==
    IF s.hand_state \in {"PENDING_EARLY_DATA_END", "EARLY_DATA"}
    THEN [s EXCEPT !.in_init = TRUE,
                   !.early_data_state = IF @ = "WRITE_RETRY" THEN "FINISHED_WRITING" ELSE @]
    ELSE s

\* The application calls SSL_do_handshake at first, after data came in when it
\* was told to read, and again when a step failed that may be repeated.
SSL_do_handshake(p) ==
    LET s == CheckFinishInit(ssl[p])
    IN  /\ ssl[p].call = "none"
        /\ ssl[p].state # "ERROR"
        /\ \/ ssl[p].rwstate = "RETRY"
           \/ ssl[p].rwstate = "READING" /\ ssl[p].fresh
        /\ Becomes(p, IF s.in_init
                      THEN [EnterStateMachine(s) EXCEPT !.call = "SSL_do_handshake",
                                                        !.fresh = FALSE]
                      ELSE [s EXCEPT !.rwstate = "NOTHING", !.done = TRUE,
                                     !.fresh = FALSE])

\* Called when data came in after the handshake.  It makes the state machine
\* run as if it were in the handshake.
SSL_process_quic_post_handshake(p) ==
    /\ ssl[p].call = "none"
    /\ ssl[p].done /\ ~ssl[p].in_init
    /\ ssl[p].state # "ERROR"
    /\ ssl[p].fresh
    /\ Becomes(p, [EnterStateMachine(ssl[p]) EXCEPT
                      !.in_init = TRUE, !.call = "SSL_process_quic_post_handshake",
                      !.fresh = FALSE])

\* The server's application asks for a ticket once the handshake is over.
SSL_new_session_ticket ==
    LET s == ssl["server"]
    IN  /\ requests < config.requests
        /\ s.call = "none" /\ s.done /\ s.state # "ERROR"
        /\ ~s.in_init \/ s.extra_tickets_expected > 0
        /\ requests' = requests + 1
        /\ ssl' = [ssl EXCEPT !["server"] =
                      [s EXCEPT !.extra_tickets_expected = @ + 1, !.in_init = TRUE,
                                !.rwstate = "RETRY"]]
        /\ UNCHANGED <<wire, config, faults>>

\* A call returns before the handshake is over.  After
\* SSL_process_quic_post_handshake in_init is cleared, whatever happened.
Return(s, why) ==
    [s EXCEPT !.call = "none", !.rwstate = why,
              !.in_init = IF s.call = "SSL_process_quic_post_handshake" THEN FALSE ELSE @]

\* As Return, for an application that calls again when the call stopped short
\* of reading data handed over before it.
MayGoOn(s, why) == [Return(s, why) EXCEPT !.fresh = s.quic_input_data # <<>>]

\* Mutant: SSL_process_quic_post_handshake reads one message and no more.
ReturnDone_OneMessage(p) ==
    LET s == ssl[p]
    IN  /\ s.call # "none"
        /\ s.state = "FINISHED"
        /\ Becomes(p,
             CASE s.call = "SSL_process_quic_post_handshake" -> Return(s, s.rwstate)
               [] s.call = "SSL_do_handshake" /\ s.early_data_state = "ACCEPTING" ->
                    [MayGoOn(s, "READING") EXCEPT !.early_data_state = "FINISHED_READING"]
               [] s.call = "SSL_do_handshake" /\ s.early_data_state = "CONNECTING" ->
                    [MayGoOn(s, "READING") EXCEPT !.early_data_state = "WRITE_RETRY"]
               [] OTHER -> [MayGoOn(s, "NOTHING") EXCEPT !.done = TRUE])

\* The state machine has come to rest and state_machine returns 1.
\* SSL_do_handshake turns that into "want read" for an endpoint that stopped
\* to let early data through; SSL_process_quic_post_handshake goes on to the
\* next message in the queue.
ReturnDone(p) ==
    LET s == ssl[p]
    IN  /\ s.call # "none"
        /\ s.state = "FINISHED"
        /\ Becomes(p,
             CASE s.call = "SSL_process_quic_post_handshake" ->
                    IF s.quic_input_data = <<>> THEN Return(s, s.rwstate)
                    ELSE [EnterStateMachine(s) EXCEPT !.in_init = TRUE]
               [] s.call = "SSL_do_handshake" /\ s.early_data_state = "ACCEPTING" ->
                    [MayGoOn(s, "READING") EXCEPT !.early_data_state = "FINISHED_READING"]
               [] s.call = "SSL_do_handshake" /\ s.early_data_state = "CONNECTING" ->
                    [MayGoOn(s, "READING") EXCEPT !.early_data_state = "WRITE_RETRY"]
               [] OTHER -> [MayGoOn(s, "NOTHING") EXCEPT !.done = TRUE])

-----------------------------------------------------------------------------
(* read_state_machine                                                      *)

Reading(p, read_state) ==
    /\ ssl[p].call # "none"
    /\ ssl[p].state = "READING" /\ ssl[p].read_state = read_state

\* quic_get_message finds no message: the call returns, wanting to read.
ReadNothing(p) ==
    /\ Reading(p, "HEADER")
    /\ ssl[p].quic_input_data = <<>>
    /\ Becomes(p, Return(ssl[p], "READING"))

\* The next message is of the level being read and is processed.
ReadMessage(p) ==
    /\ Reading(p, "HEADER")
    /\ ssl[p].quic_input_data # <<>>
    /\ LET s    == ssl[p]
           head == s.quic_input_data[1]
           next == ReadTransition(s, head.msg.type)
           t    == [quic_get_message_body(s, head.msg) EXCEPT !.hand_state = next]
       IN  /\ head.level = s.quic_read_level
           /\ next # "BAD"
           /\ LET u == ProcessMessage(t, head.msg)
              IN  Becomes(p, IF u.state = "ERROR" THEN Return(u, "NOTHING") ELSE u)

\* The message is of another level, or is not one that may come now.
ReadRefused(p) ==
    /\ Reading(p, "HEADER")
    /\ ssl[p].quic_input_data # <<>>
    /\ LET head == ssl[p].quic_input_data[1]
       IN  \/ head.level # ssl[p].quic_read_level
           \/ ReadTransition(ssl[p], head.msg.type) = "BAD"
    /\ Becomes(p, Return(SSLfatal(ssl[p]), "NOTHING"))

PostProcess(p) ==
    /\ Reading(p, "POST_PROCESS")
    /\ Becomes(p, PostProcessMessage(ssl[p], config))

\* WORK_MORE: a certificate or session callback is not ready.
PostProcessWaits(p) ==
    /\ Reading(p, "POST_PROCESS")
    /\ FailsTo(p, Return(ssl[p], "RETRY"))

-----------------------------------------------------------------------------
(* write_state_machine                                                     *)

Writing(p, write_state) ==
    /\ ssl[p].call # "none"
    /\ ssl[p].state = "WRITING" /\ ssl[p].write_state = write_state

WriteNext(p) ==
    /\ Writing(p, "TRANSITION")
    /\ LET next == WriteTransition(ssl[p], config)
       IN  Becomes(p,
             CASE next = "FINISHED" -> [ssl[p] EXCEPT !.state = "READING",
                                                      !.read_state = "HEADER"]
               [] next = "ERROR"    -> Return(SSLfatal(ssl[p]), "NOTHING")
               [] OTHER             -> [ssl[p] EXCEPT !.hand_state = next,
                                                      !.write_state = "PRE_WORK"])

\* Pre-work ends the handshake, or goes on to construct a message.
Construct(p) ==
    /\ Writing(p, "PRE_WORK")
    /\ Becomes(p,
         CASE PreWorkStops(ssl[p]) ->
                [tls_finish_handshake(ssl[p], TRUE) EXCEPT !.state = "FINISHED"]
           [] ~PreWorkStops(ssl[p]) /\ ssl[p].hand_state \in NothingToSend ->
                [ssl[p] EXCEPT !.write_state = "POST_WORK"]
           [] OTHER ->
                [ConstructMessage(PreWork(ssl[p]), config) EXCEPT !.write_state = "SEND"])

TicketDeclined(p) ==
    /\ Writing(p, "PRE_WORK")
    /\ ssl[p].hand_state = "SW_SESSION_TICKET"
    /\ Becomes(p, [DeclineNewSessionTicket(PreWork(ssl[p])) EXCEPT
                      !.write_state = "POST_WORK"])

\* add_handshake_data takes the message.  A stack that does not wait for
\* flush_flight sends it at once.
Send(p) ==
    /\ Writing(p, "SEND")
    /\ LET s == [ssl3_do_write(ssl[p]) EXCEPT !.write_state = "POST_WORK"]
       IN  IF config.defer
           THEN Becomes(p, s)
           ELSE /\ ssl' = [ssl EXCEPT ![p] = [s EXCEPT !.flight = <<>>]]
                /\ wire' = [wire EXCEPT ![p] = @ \o s.flight]
                /\ UNCHANGED <<config, faults, requests>>

\* Mutant: the application is told to wait for its peer.
SendFails_WantRead(p) ==
    /\ Writing(p, "SEND")
    /\ FailsTo(p, Return(ssl[p], "READING"))

\* Mutant: the message is hashed before add_handshake_data takes it.
SendFails_Hashed(p) ==
    /\ Writing(p, "SEND")
    /\ FailsTo(p, [Return(ssl[p], "RETRY") EXCEPT
                      !.transcript = ssl3_do_write(ssl[p]).transcript])

\* add_handshake_data fails: the call returns and will send the same message.
SendFails(p) ==
    /\ Writing(p, "SEND")
    /\ FailsTo(p, Return(ssl[p], "RETRY"))

Finish(p) ==
    /\ Writing(p, "POST_WORK")
    /\ LET s == [PostWork(ssl[p]) EXCEPT !.write_state = "TRANSITION"]
       IN  IF Flushes(ssl[p])
           THEN /\ ssl' = [ssl EXCEPT ![p] = [s EXCEPT !.flight = <<>>]]
                /\ wire' = [wire EXCEPT ![p] = @ \o s.flight]
                /\ UNCHANGED <<config, faults, requests>>
           ELSE Becomes(p, s)

\* flush_flight fails: the call returns, to flush again before anything else.
FlushFails(p) ==
    /\ Writing(p, "POST_WORK")
    /\ Flushes(ssl[p])
    /\ FailsTo(p, Return(ssl[p], "RETRY"))

\* A message that does not check, a secret the stack does not take, memory
\* that cannot be had: SSLfatal in the middle of any step.
FatalFailure(p) ==
    /\ ssl[p].call # "none"
    /\ ssl[p].state \in {"READING", "WRITING"}
    /\ FailsTo(p, Return(SSLfatal(ssl[p]), "NOTHING"))

-----------------------------------------------------------------------------
(* The transport                                                           *)

\* SSL_provide_quic_data takes data of this level.
Accepts(s, level) ==
    /\ level >= s.quic_read_level
    /\ s.quic_input_data # <<>> => level >= s.quic_input_data[Len(s.quic_input_data)].level
    /\ level >= s.quic_latest_level_received

\* The QUIC stack at p can decrypt what was sent at this level.
CanDecrypt(s, level) == level = ssl_encryption_initial \/ level \in s.secrets

\* What it may hand over next: each level is a stream and keeps its order, and
\* any of those that it can decrypt may come first.
Deliverable(p) ==
    {i \in 1..Len(wire[Other(p)]) :
        /\ CanDecrypt(ssl[p], wire[Other(p)][i].level)
        /\ \A j \in 1..(i - 1) : wire[Other(p)][j].level # wire[Other(p)][i].level}

Provide(p) ==
    /\ ssl[p].call = "none"
    /\ \E i \in Deliverable(p) :
          LET m == wire[Other(p)][i]
          IN  /\ Accepts(ssl[p], m.level)
              /\ ssl' = [ssl EXCEPT ![p] = [ssl[p] EXCEPT
                            !.quic_input_data = Append(@, m),
                            !.quic_latest_level_received = m.level,
                            !.fresh = TRUE]]
              /\ wire' = [wire EXCEPT ![Other(p)] = RemoveAt(@, i)]
              /\ UNCHANGED <<config, faults, requests>>

\* A peer that does not keep to the protocol sends a message too many in its
\* handshake level flight.
StrayMessage(p) ==
    /\ faults > 0
    /\ ssl[p].quic_write_level = ssl_encryption_handshake
    /\ \E type \in {"CERTIFICATE_REQUEST", "CERTIFICATE", "FINISHED"} :
          wire' = [wire EXCEPT ![p] = Append(@, [level |-> ssl_encryption_handshake,
                                                 msg   |-> Msg(type, {"stray"})])]
    /\ faults' = faults - 1
    /\ UNCHANGED <<ssl, config, requests>>

-----------------------------------------------------------------------------
Step(p) ==
    \/ SSL_do_handshake(p) \/ SSL_process_quic_post_handshake(p) \/ ReturnDone(p)
    \/ ReadNothing(p) \/ ReadMessage(p) \/ ReadRefused(p) \/ PostProcess(p)
    \/ WriteNext(p) \/ Construct(p) \/ TicketDeclined(p) \/ Send(p) \/ Finish(p)

Fault(p) == PostProcessWaits(p) \/ SendFails(p) \/ FlushFails(p) \/ FatalFailure(p)

Next ==
    \/ \E p \in Peer : Step(p) \/ Fault(p) \/ Provide(p) \/ StrayMessage(p)
    \/ SSL_new_session_ticket

Spec == Init /\ [][Next]_vars

\* A call runs until it returns, an application that was told to call again
\* does, and a QUIC stack delivers what was sent.  Nothing has to fail, and
\* nobody has to ask for a ticket.
Fairness == \A p \in Peer : WF_vars(Step(p)) /\ WF_vars(Provide(p))

FairSpec == Spec /\ Fairness
-----------------------------------------------------------------------------
(* Correctness                                                             *)

Failed(p) == ssl[p].state = "ERROR"

\* Everything p has sent that p's peer has not been given.
Sent(p) == Range(wire[p]) \cup Range(ssl[p].flight)

TypeOK ==
    /\ config \in Config
    /\ faults \in 0..MaxFaults
    /\ requests \in 0..config.requests
    /\ \A p \in Peer :
          /\ ssl[p].state \in {"UNINITED", "READING", "WRITING", "FINISHED", "ERROR"}
          /\ ssl[p].quic_read_level \in Level
          /\ ssl[p].quic_write_level \in Level
          /\ ssl[p].secrets \subseteq Level
          /\ ssl[p].early_data_state \in
                {"NONE"} \cup IF p = "server" THEN {"ACCEPTING", "FINISHED_READING"}
                              ELSE {"CONNECTING", "WRITE_RETRY", "FINISHED_WRITING"}

\* p meets a message too many, or has taken one.
MetStray(p) ==
    \/ ssl[p].quic_input_data # <<>> /\ ssl[p].quic_input_data[1].msg.has = {"stray"}
    \/ \E i \in 1..Len(ssl[p].transcript) : ssl[p].transcript[i].has = {"stray"}

\* Whatever the two sides are configured with, and however their steps and the
\* network interleave, neither runs into an error but by a failure of its own or
\* over a message too many.  No message is unexpected in the state it meets, is
\* of another level than the one being read, or authenticates another
\* transcript, and no transition is missing from the tables, also after
\* add_handshake_data, flush_flight or another callback failed and the step was
\* repeated, and after the peer failed.
ErrorsOnlyFromFaults ==
    [][\A p \in Peer : ~Failed(p) /\ Failed(p)' => FatalFailure(p) \/ MetStray(p)]_vars

\* What was said up to the server's Finished.
UpToServerFinished(tr) ==
    SubSeq(tr, 1, SelectInSeq(tr, LAMBDA e : e.type = "FINISHED"))

\* A side that reports a finished handshake is right about its peer.  When the
\* client is done, the server has the client's transcript up to the server's
\* Finished; when the server is done, the two have the same transcript, and
\* agree whether a session was resumed, the ClientHello was retried, a
\* certificate was asked for and early data was accepted.  A stray message in
\* either direction does not change that.
Agreement ==
    LET c == ssl["client"]
        s == ssl["server"]
    IN  /\ c.done => IsPrefix(UpToServerFinished(c.transcript), s.transcript)
        /\ s.done =>
              /\ c.transcript = s.transcript
              /\ c.hit = s.hit
              /\ c.hello_retry_request = "PENDING" <=> s.hello_retry_request = "COMPLETE"
              /\ c.early_data = "ACCEPTED" <=> s.early_data = "ACCEPTED"
              /\ c.cert_req # 0 <=> s.cert_req # 0

\* set_encryption_secrets comes before a level is used: what is sent or can be
\* read at a level other than the initial one is at a level whose secrets the
\* QUIC stack has, and the server's stack is to read early data only if the
\* client's can send it once the client's call is over.
SecretsBeforeUse ==
    /\ \A p \in Peer :
          /\ CanDecrypt(ssl[p], ssl[p].quic_read_level)
          /\ CanDecrypt(ssl[p], ssl[p].quic_write_level)
          /\ \A m \in Sent(p) : CanDecrypt(ssl[p], m.level)
    /\ (ssl_encryption_early_data \in ssl["server"].secrets
        /\ ssl["client"].call = "none" /\ ~Failed("client"))
          => ssl_encryption_early_data \in ssl["client"].secrets

\* The server acknowledges early data at the application level, "which will be
\* configured in the same SSL_do_handshake() call" as the early data secret: no
\* call that waits for the client has installed the one without the other.
AckKeysWithEarlyKeys ==
    LET s == ssl["server"]
    IN  (/\ s.call = "none" /\ s.rwstate = "READING"
         /\ ssl_encryption_early_data \in s.secrets)
            => ssl_encryption_application \in s.secrets

\* Whatever a QUIC stack can decrypt it can hand over: the level checks of
\* SSL_provide_quic_data refuse nothing that an honest peer sent, in whatever
\* order the levels' packets come.
NeverRefused ==
    \A p \in Peer : \A i \in Deliverable(p) :
        (ssl[p].call = "none" /\ wire[Other(p)][i].msg.has # {"stray"})
            => Accepts(ssl[p], wire[Other(p)][i].level)

\* An application that was told to wait for its peer holds back a part of its
\* flight only as a client that offers early data: in every other wait, in
\* whatever order retries, flights and post-handshake messages came, flush_flight
\* was called for all of it.
HeldByEarlyClient ==
    \A p \in Peer :
        (ssl[p].call = "none" /\ ssl[p].rwstate = "READING" /\ ssl[p].flight # <<>>)
            => p = "client" /\ config.clientEarly = "on"

\* What SSL_CTX_set_quic_method(3) says of every flight: "flush_flight() is called
\* when the current flight is complete".  It does not hold of a ClientHello with
\* early data, after which post-work does not flush.
FlightFlushed ==
    \A p \in Peer :
        (ssl[p].call = "none" /\ ssl[p].rwstate = "READING") => ssl[p].flight = <<>>

\* An error is "a permanent error for the current connection": the object never
\* reports a finished handshake (SSL_in_init is false) once it is in one.
ErrorStaysVisible == \A p \in Peer : Failed(p) => ssl[p].in_init

\* A level never goes down, secrets are never taken back, and a handshake that
\* is over stays over and keeps what was agreed.
NeverGoesBack ==
    [][\A p \in Peer :
          /\ ssl'[p].quic_read_level >= ssl[p].quic_read_level
          /\ ssl'[p].quic_write_level >= ssl[p].quic_write_level
          /\ ssl[p].secrets \subseteq ssl'[p].secrets
          /\ ssl[p].done => /\ ssl'[p].done
                            /\ ssl'[p].transcript = ssl[p].transcript
                            /\ ssl'[p].hit = ssl[p].hit]_vars

\* Unless a side fails for good, the handshake ends on both, whatever step had
\* to be repeated; but not over a stack that waits for flush_flight when the
\* client offers early data, for that stack sends nothing (FlightFlushed).
Completes ==
    \/ config.defer /\ config.clientEarly = "on"
    \/ <>((\E p \in Peer : Failed(p)) \/ \A p \in Peer : ssl[p].done)

\* Every ticket the server counted, and did not decline to send, reaches the
\* client's state machine.
TicketsArrive ==
    <>[]((\E p \in Peer : Failed(p))
            \/ ssl["client"].tickets_received + ssl["server"].tickets_declined
                  = ssl["server"].sent_tickets)
=============================================================================
