---------------------------- MODULE QuicLevels ----------------------------
(***************************************************************************)
(* The four encryption levels of ssl_encryption_level_t                    *)
(* (include/openssl/ssl.h.in), in the order the code compares them, and    *)
(* the size of a TLS handshake message header.                             *)
(***************************************************************************)
EXTENDS Integers

ssl_encryption_initial     == 0
ssl_encryption_early_data  == 1
ssl_encryption_handshake   == 2
ssl_encryption_application == 3

Level == 0..3

\* One byte of message type and three of body length.
SSL3_HM_HEADER_LENGTH == 4
=============================================================================
