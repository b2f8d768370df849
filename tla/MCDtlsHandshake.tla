-------------------------- MODULE MCDtlsHandshake --------------------------
(***************************************************************************)
(* Instances of DtlsHandshake for TLC: the full handshake with cookie      *)
(* exchange and session ticket, and the abbreviated one.                   *)
(***************************************************************************)
EXTENDS DtlsHandshake

MCModes == {[hit |-> FALSE, cookie |-> TRUE, ticket |-> FALSE],
            [hit |-> FALSE, cookie |-> FALSE, ticket |-> TRUE],
            [hit |-> TRUE, cookie |-> FALSE, ticket |-> FALSE],
            [hit |-> TRUE, cookie |-> FALSE, ticket |-> TRUE]}

\* ServerHelloDone has no body; the certificates, and the first ClientHello,
\* need two fragments, and more after repeated timeouts.
MCMsgLen ==
    [t \in HandshakeTypes |-> CASE t = "SHD" -> 0 [] t = "CERT" -> 19
                                [] t = "CH" -> 13 [] OTHER -> 7]
=============================================================================
