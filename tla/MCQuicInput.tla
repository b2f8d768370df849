---------------------------- MODULE MCQuicInput ----------------------------
(***************************************************************************)
(* QuicInput with short streams: message lengths chosen so that a fragment *)
(* can end inside a header, inside a body and on a message boundary, that  *)
(* one call can carry several messages and that a message has no body.     *)
(***************************************************************************)
EXTENDS QuicInput, TLC

\* Body lengths at the message starts of each stream; 1 at any other offset,
\* which is what a misaligned parser would read.
Layout ==
    [l \in Level |->
        CASE l = ssl_encryption_initial     -> (0 :> 1 @@ 5 :> 2)
          [] l = ssl_encryption_early_data  -> (0 :> 0 @@ 4 :> 3)
          [] l = ssl_encryption_handshake   -> (0 :> 2 @@ 6 :> 1)
          [] l = ssl_encryption_application -> (0 :> 1 @@ 5 :> 1)]

MCBodyLen ==
    [l \in Level |->
        [o \in 0..MaxOffset |-> IF o \in DOMAIN Layout[l] THEN Layout[l][o] ELSE 1]]
=============================================================================
