-------------------------- MODULE MCQuicHandshake --------------------------
(***************************************************************************)
(* The configurations under which the handshake is checked.                *)
(***************************************************************************)
EXTENDS QuicHandshake

AllConfigs ==
    {c \in [session : BOOLEAN, acceptPsk : BOOLEAN,
            clientEarly : {"off", "on", "unusable"},
            serverEarly : {"off", "reject", "accept"},
            hrr : BOOLEAN, certReq : BOOLEAN, clientCert : BOOLEAN,
            ticketExpected : BOOLEAN, numTickets : 0..2,
            defer : BOOLEAN, requests : 0..1] :
        /\ c.clientEarly = "on" => c.session
        /\ c.acceptPsk => c.session                  \* otherwise it has no effect
        /\ c.clientCert => c.certReq
        /\ ~c.ticketExpected => c.numTickets = 2}

\* Every course the handshake can take over stacks that do not wait for
\* flush_flight, with two tickets.
ImmediateConfigs ==
    {c \in AllConfigs : /\ ~c.defer /\ c.requests = 0
                        /\ c.session = c.acceptPsk
                        /\ c.ticketExpected /\ c.numTickets = 2
                        /\ c.hrr => ~c.certReq
                        /\ c.serverEarly # "off"
                        /\ c.clientEarly # "unusable"}

\* Early data over the same stacks that comes to nothing: no session allows it,
\* the server has it turned off or refuses the PSK.
DeclinedEarlyConfigs ==
    {c \in AllConfigs : /\ ~c.defer /\ c.requests = 0
                        /\ c.session /\ c.clientEarly # "off"
                        /\ c.ticketExpected /\ c.numTickets = 1 /\ ~c.certReq
                        /\ \/ c.clientEarly = "unusable" /\ c.acceptPsk
                              /\ c.serverEarly = "accept"
                           \/ c.clientEarly = "on" /\ c.acceptPsk /\ c.serverEarly = "off"
                           \/ c.clientEarly = "on" /\ ~c.acceptPsk /\ c.serverEarly = "accept"}

\* Without early data, over stacks that wait for flush_flight, with one ticket
\* the server's application asks for.
DeferredConfigs ==
    {c \in AllConfigs : /\ c.clientEarly = "off" /\ c.serverEarly = "off"
                        /\ c.defer /\ c.requests = 1
                        /\ c.session = c.acceptPsk
                        /\ c.ticketExpected => c.numTickets < 2}

\* Early data over stacks that wait for flush_flight.
HeldEarlyConfigs ==
    {c \in AllConfigs : /\ c.clientEarly = "on" /\ c.defer /\ c.requests = 0
                        /\ c.ticketExpected /\ c.numTickets = 1}

Courses == ImmediateConfigs \cup DeclinedEarlyConfigs
              \cup DeferredConfigs \cup HeldEarlyConfigs

\* A server that sends a ticket at once.
TicketConfigs ==
    {c \in AllConfigs : /\ c.clientEarly = "off" /\ c.serverEarly = "off"
                        /\ c.defer /\ c.requests = 0
                        /\ ~c.session /\ ~c.hrr /\ ~c.certReq /\ c.ticketExpected}
=============================================================================
