---------------------------- MODULE MCSessionCache ----------------------------
(* Two threads, three places for sessions and three ids, which sessions may *)
(* share; a cache without a limit, of one or of at most two sessions.       *)
EXTENDS SessionCache, TLC

Interchangeable ==
    Permutations(Threads) \cup Permutations(Sessions) \cup Permutations(Ids)
=============================================================================
