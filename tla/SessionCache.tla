----------------------------- MODULE SessionCache -----------------------------
(***************************************************************************)
(* The internal session cache of an SSL_CTX (ssl/ssl_sess.c): a hash table *)
(* from session ids to sessions and a list of the same sessions in the     *)
(* order of their timeouts, both under the lock of the context, with ONE   *)
(* reference count for the two.  Threads create sessions, add them, find   *)
(* them again, remove them, flush the expired ones and change timeouts.    *)
(*                                                                         *)
(* Every section the code runs under the lock is one step.  What it does   *)
(* before taking the lock or after giving it up is a step of its own: the  *)
(* reference SSL_CTX_add_session takes first, the references that          *)
(* SSL_CTX_remove_session and SSL_CTX_flush_sessions drop last, and the    *)
(* read of s->owner with which SSL_SESSION_set_timeout decides to lock.    *)
(*                                                                         *)
(* Sessions are the places in memory a session may live in; one whose      *)
(* reference count is 0 is free and may be handed out again.  Ids have a   *)
(* non-zero length.  A session's owner is the context exactly while the    *)
(* session is in the list, and is not kept twice.                          *)
(***************************************************************************)
EXTENDS Integers, Sequences, FiniteSets, SequencesExt, FiniteSetsExt

CONSTANTS Threads, Sessions, Ids, NoSession,
          CacheSizes,    \* SSL_CTX_sess_set_cache_size; 0: not limited
          MaxTime,       \* bound on the timeouts
          UpdatesTime,   \* SSL_SESS_CACHE_UPDATE_TIME may be in force
          TableFails,    \* the hash table may fail to allocate
          StackFails     \* the stack of SSL_CTX_flush_sessions may fail to allocate

ASSUME SessionCacheAssumption ==
    /\ NoSession \notin Sessions /\ IsFiniteSet(Sessions) /\ IsFiniteSet(Threads)
    /\ CacheSizes \subseteq Nat /\ MaxTime \in Nat \ {0}
    /\ {UpdatesTime, TableFails, StackFails} \subseteq BOOLEAN

Times == 1..MaxTime

VARIABLES
    size,          \* session_cache_size, set before the context is used
    refs,          \* references, by session; 0 is free memory
    id,            \* session_id
    exp,           \* calc_timeout
    not_resumable,
    sessions,      \* ctx->sessions: the session under each id, or NoSession
    list,          \* session_cache_head .. session_cache_tail
    own,           \* the session of each thread's connection, or NoSession
    pc,            \* where each thread is between two of its steps
    local,         \* the references the running call of each thread holds, a stack
    crashed        \* a NULL owner was followed

vars == <<size, refs, id, exp, not_resumable, sessions, list, own, pc, local, crashed>>

Init ==
    /\ size \in CacheSizes
    /\ refs = [s \in Sessions |-> 0]
    /\ id \in [Sessions -> Ids] /\ exp = [s \in Sessions |-> 1]
    /\ not_resumable = [s \in Sessions |-> FALSE]
    /\ sessions = [i \in Ids |-> NoSession]
    /\ list = <<>>
    /\ own = [t \in Threads |-> NoSession]
    /\ pc = [t \in Threads |-> "idle"]
    /\ local = [t \in Threads |-> <<>>]
    /\ crashed = FALSE

Cached == {sessions[i] : i \in Ids} \ {NoSession}
OnList(s) == s \in ToSet(list)

(***************************************************************************)
(* References.  SSL_SESSION_free of the last one gives the memory back.    *)
(***************************************************************************)
UpRef(r, s) == [r EXCEPT ![s] = @ + 1]
Free(r, S) == [s \in Sessions |-> IF s \in S THEN r[s] - 1 ELSE r[s]]

(***************************************************************************)
(* The list, latest timeout first.                                         *)
(***************************************************************************)
SSL_SESSION_list_remove(l, s) ==
    IF s \in ToSet(l) THEN RemoveAt(l, CHOOSE n \in DOMAIN l : l[n] = s) ELSE l

(* Mutant: a session that is on the list already is put there again.       *)
ListAddTwice(l, s, e) == <<s>> \o l
(* Mutant: the list is kept in the order of insertion.                     *)
ListAddFirst(l, s, e) == <<s>> \o SSL_SESSION_list_remove(l, s)
SSL_SESSION_list_add(l, s, e) ==
    LET rest == SSL_SESSION_list_remove(l, s)
        later == {n \in 2..Len(rest) : e[s] >= e[rest[n]]}
    IN  IF rest = <<>> \/ e[s] >= e[rest[1]] THEN <<s>> \o rest
        ELSE IF e[s] < e[Last(rest)] THEN Append(rest, s)
        ELSE IF later = {} THEN rest
        ELSE InsertAt(rest, Min(later), s)

(***************************************************************************)
(* How many sessions SSL_CTX_add_session removes from the tail: while the  *)
(* table, which already holds the new session, is not below the limit,     *)
(* and there is a tail.                                                    *)
(***************************************************************************)
Evictions(number, listed) ==
    IF size = 0 THEN 0
    ELSE Min({listed, Max({0, number - size + 1})})

-----------------------------------------------------------------------------
(* A new session, for a connection that has none; its id may be in use.    *)
NewSession(t) ==
    /\ pc[t] = "idle" /\ own[t] = NoSession
    /\ \E s \in Sessions, i \in Ids, when \in Times :
          /\ refs[s] = 0
          /\ refs' = [refs EXCEPT ![s] = 1]
          /\ id' = [id EXCEPT ![s] = i]
          /\ exp' = [exp EXCEPT ![s] = when]
          /\ not_resumable' = [not_resumable EXCEPT ![s] = FALSE]
          /\ own' = [own EXCEPT ![t] = s]
    /\ UNCHANGED <<sessions, list, pc, local, crashed>>

(* SSL_set_session with the session of another connection.                 *)
SSL_set_session(t) ==
    /\ pc[t] = "idle"
    /\ \E u \in Threads \ {t} :
          /\ own[u] \notin {NoSession, own[t]}
          /\ refs' = Free(UpRef(refs, own[u]), {own[t]})
          /\ own' = [own EXCEPT ![t] = own[u]]
    /\ UNCHANGED <<id, exp, not_resumable, sessions, list, pc, local, crashed>>

(* The connection is freed.  One that was not shut down first removes its  *)
(* session from the cache, with SSL_CTX_remove_session.                    *)
Release(t) ==
    /\ pc[t] = "idle" /\ own[t] # NoSession
    /\ refs' = Free(refs, {own[t]})
    /\ own' = [own EXCEPT ![t] = NoSession]
    /\ UNCHANGED <<id, exp, not_resumable, sessions, list, pc, local, crashed>>

(* ssl_update_cache and the first line of SSL_CTX_add_session: the check   *)
(* of not_resumable and the new reference come before the lock.            *)
ssl_update_cache(t) ==
    /\ pc[t] = "idle" /\ own[t] # NoSession /\ ~not_resumable[own[t]]
    /\ refs' = UpRef(refs, own[t])
    /\ local' = [local EXCEPT ![t] = <<own[t]>>]
    /\ pc' = [pc EXCEPT ![t] = "adding"]
    /\ UNCHANGED <<id, exp, not_resumable, sessions, list, own, crashed>>

(***************************************************************************)
(* SSL_CTX_add_session under the lock.  c is a new entry, or takes the     *)
(* place of another session s with its id, or is in the cache already.     *)
(* The cache drops its references to s and to those that are evicted.      *)
(***************************************************************************)
(* Mutant: the reference to the session that is replaced is kept.          *)
DroppedEvicted(s, gone) == gone
Dropped(s, gone) == gone \cup {s}

AddNew(c, e) ==
    LET s      == sessions[id[c]]
        kept   == SSL_SESSION_list_remove(list, s)
        number == Cardinality(Cached \ {s}) + 1
        stay   == Len(kept) - Evictions(number, Len(kept))
        gone   == {kept[n] : n \in (stay + 1)..Len(kept)}
    IN  /\ sessions' = [i \in Ids |-> IF i = id[c] THEN c
                                      ELSE IF \E x \in gone : id[x] = i THEN NoSession
                                      ELSE sessions[i]]
        /\ list' = SSL_SESSION_list_add(SubSeq(kept, 1, stay), c, e)
        /\ refs' = Free(refs, Dropped(s, gone))
        /\ not_resumable' = [x \in Sessions |-> not_resumable[x] \/ x \in gone]

(* Already there, or no memory for the table: s = c.  The list is written  *)
(* in both cases, and the reference taken back.                            *)
AddAgain(c, e) ==
    /\ list' = SSL_SESSION_list_add(list, c, e)
    /\ refs' = Free(refs, {c})
    /\ UNCHANGED <<sessions, not_resumable>>

SSL_CTX_add_session(t) ==
    LET c == Last(local[t])
        s == sessions[id[c]]
    IN  /\ pc[t] = "adding"
        /\ \E when \in {exp[c]} \cup (IF UpdatesTime THEN Times ELSE {}) :
              /\ exp' = [exp EXCEPT ![c] = when]
              /\ \/ s # c /\ AddNew(c, exp')
                 \/ s = c /\ AddAgain(c, exp')
                 \/ s = NoSession /\ TableFails /\ AddAgain(c, exp')
        /\ local' = [local EXCEPT ![t] = Front(@)]
        /\ pc' = [pc EXCEPT ![t] = IF Len(local[t]) = 1 THEN "idle" ELSE "found"]
        /\ UNCHANGED <<id, own, crashed>>

(***************************************************************************)
(* remove_session_lock with the lock to take: the session that the table   *)
(* has under c's id leaves the cache, which need not be c; c is marked.    *)
(* The reference of the cache is dropped after the lock, then those of     *)
(* the caller (rest).                                                      *)
(***************************************************************************)
WithFound(r, rest) == IF r = NoSession THEN rest ELSE Append(rest, r)

(* Mutant: the session passed in leaves the list, not the one found.       *)
RemoveArgument(t, c, rest) ==
    /\ sessions' = [sessions EXCEPT ![id[c]] = NoSession]
    /\ list' = SSL_SESSION_list_remove(list, c)
    /\ not_resumable' = [not_resumable EXCEPT ![c] = TRUE]
    /\ local' = [local EXCEPT ![t] = WithFound(sessions[id[c]], rest)]
    /\ pc' = [pc EXCEPT ![t] = IF local'[t] = <<>> THEN "idle" ELSE "freeing"]

remove_session_lock(t, c, rest) ==
    LET r == sessions[id[c]]
    IN  /\ sessions' = [sessions EXCEPT ![id[c]] = NoSession]
        /\ list' = SSL_SESSION_list_remove(list, r)
        /\ not_resumable' = [not_resumable EXCEPT ![c] = TRUE]
        /\ local' = [local EXCEPT ![t] = WithFound(r, rest)]
        /\ pc' = [pc EXCEPT ![t] = IF local'[t] = <<>> THEN "idle" ELSE "freeing"]

SSL_CTX_remove_session(t) ==
    /\ pc[t] = "idle" /\ own[t] # NoSession
    /\ remove_session_lock(t, own[t], <<>>)
    /\ UNCHANGED <<refs, id, exp, own, crashed>>

(***************************************************************************)
(* SSL_CTX_flush_sessions(now): from the tail, as long as the session      *)
(* there has timed out (now = 0: all of them).  The references are dropped *)
(* after the lock, but for those the stack has no room for.                *)
(***************************************************************************)
TimedOut(s, now) == now = 0 \/ now > exp[s]

Gone(stay) == {list[n] : n \in (stay + 1)..Len(list)}

(* The references kept on the stack, the tail of the list on top.          *)
Stacks(stay) ==
    IF ~StackFails THEN {SubSeq(list, stay + 1, Len(list))}
    ELSE {s \in UNION {SetToSeqs(S) : S \in SUBSET Gone(stay)} :
             \A m, n \in DOMAIN s : m < n =>
                 \E i, j \in DOMAIN list : i < j /\ list[i] = s[m] /\ list[j] = s[n]}

SSL_CTX_flush_sessions(t, now) ==
    /\ pc[t] = "idle"
    /\ \E stay \in 0..Len(list) :
          /\ stay > 0 => ~TimedOut(list[stay], now)
          /\ \A s \in Gone(stay) : TimedOut(s, now)
          /\ sessions' = [i \in Ids |-> IF \E s \in Gone(stay) : id[s] = i THEN NoSession
                                        ELSE sessions[i]]
          /\ list' = SubSeq(list, 1, stay)
          /\ not_resumable' = [s \in Sessions |-> not_resumable[s] \/ s \in Gone(stay)]
          /\ \E stack \in Stacks(stay) :
                /\ local' = [local EXCEPT ![t] = stack]
                /\ refs' = Free(refs, Gone(stay) \ ToSet(stack))
                /\ pc' = [pc EXCEPT ![t] = IF stack = <<>> THEN "idle" ELSE "freeing"]
    /\ UNCHANGED <<id, exp, own, crashed>>

(* SSL_SESSION_free of one of the references of the call.                  *)
FreeNext(t) ==
    /\ pc[t] = "freeing"
    /\ refs' = Free(refs, {Last(local[t])})
    /\ local' = [local EXCEPT ![t] = Front(@)]
    /\ pc' = [pc EXCEPT ![t] = IF Len(local[t]) = 1 THEN "idle" ELSE "freeing"]
    /\ UNCHANGED <<id, exp, not_resumable, sessions, list, own, crashed>>

(***************************************************************************)
(* lookup_sess_in_cache and ssl_get_prev_session on a server.              *)
(***************************************************************************)
Lookup(t, i) ==
    /\ pc[t] = "idle" /\ sessions[i] # NoSession
    /\ refs' = UpRef(refs, sessions[i])
    /\ local' = [local EXCEPT ![t] = <<sessions[i]>>]
    /\ pc' = [pc EXCEPT ![t] = "found"]
    /\ UNCHANGED <<id, exp, not_resumable, sessions, list, own, crashed>>

(* get_session_cb makes a session of its own for an id the internal cache  *)
(* did not have, and the session is added there too.                       *)
LookupExternal(t, i) ==
    /\ pc[t] = "idle" /\ sessions[i] = NoSession
    /\ \E s \in Sessions, when \in Times :
          /\ refs[s] = 0
          /\ refs' = [refs EXCEPT ![s] = 2]
          /\ id' = [id EXCEPT ![s] = i]
          /\ exp' = [exp EXCEPT ![s] = when]
          /\ not_resumable' = [not_resumable EXCEPT ![s] = FALSE]
          /\ local' = [local EXCEPT ![t] = <<s, s>>]
    /\ pc' = [pc EXCEPT ![t] = "adding"]
    /\ UNCHANGED <<sessions, list, own, crashed>>

(* The session fits: it becomes the connection's.                          *)
Resume(t) ==
    /\ pc[t] = "found"
    /\ refs' = Free(refs, {own[t]})
    /\ own' = [own EXCEPT ![t] = local[t][1]]
    /\ local' = [local EXCEPT ![t] = <<>>]
    /\ pc' = [pc EXCEPT ![t] = "idle"]
    /\ UNCHANGED <<id, exp, not_resumable, sessions, list, crashed>>

(* It is of another version or context: like a cache miss.                 *)
Mismatch(t) ==
    /\ pc[t] = "found"
    /\ pc' = [pc EXCEPT ![t] = "freeing"]
    /\ UNCHANGED <<refs, id, exp, not_resumable, sessions, list, own, local, crashed>>

(* It has timed out: it is removed from the cache as well.                 *)
Expired(t) ==
    /\ pc[t] = "found"
    /\ remove_session_lock(t, local[t][1], local[t])
    /\ UNCHANGED <<refs, id, exp, own, crashed>>

(***************************************************************************)
(* SSL_SESSION_set_timeout, SSL_SESSION_set_time_ex, called by the one     *)
(* thread whose connection has the session.  Without an owner the session  *)
(* is written at once; with one it is written under the lock of the owner, *)
(* which is read again, and again, after it was seen not to be NULL.       *)
(***************************************************************************)
SetTimeout(t) ==
    /\ pc[t] = "idle" /\ own[t] # NoSession
    /\ \A u \in Threads \ {t} : own[u] # own[t]
    /\ IF OnList(own[t])
       THEN pc' = [pc EXCEPT ![t] = "setting"] /\ UNCHANGED exp
       ELSE /\ \E when \in Times : exp' = [exp EXCEPT ![own[t]] = when]
            /\ UNCHANGED pc
    /\ UNCHANGED <<refs, id, not_resumable, sessions, list, own, local, crashed>>

SetTimeoutLocked(t) ==
    /\ pc[t] = "setting" /\ OnList(own[t])
    /\ \E when \in Times : exp' = [exp EXCEPT ![own[t]] = when]
    /\ list' = SSL_SESSION_list_add(list, own[t], exp')
    /\ pc' = [pc EXCEPT ![t] = "idle"]
    /\ UNCHANGED <<refs, id, not_resumable, sessions, own, local, crashed>>

SetTimeoutNoOwner(t) ==
    /\ pc[t] = "setting" /\ ~OnList(own[t])
    /\ crashed' = TRUE
    /\ UNCHANGED <<refs, id, exp, not_resumable, sessions, list, own, pc, local>>

Step(t) ==
    \/ NewSession(t)
    \/ SSL_set_session(t)
    \/ Release(t)
    \/ ssl_update_cache(t)
    \/ SSL_CTX_add_session(t)
    \/ SSL_CTX_remove_session(t)
    \/ \E now \in 0..(MaxTime + 1) : SSL_CTX_flush_sessions(t, now)
    \/ FreeNext(t)
    \/ \E i \in Ids : Lookup(t, i)
    \/ \E i \in Ids : LookupExternal(t, i)
    \/ Resume(t)
    \/ Mismatch(t)
    \/ Expired(t)
    \/ SetTimeout(t)
    \/ SetTimeoutLocked(t)
    \/ SetTimeoutNoOwner(t)

Next == ~crashed /\ UNCHANGED size /\ \E t \in Threads : Step(t)

Spec == Init /\ [][Next]_vars

-----------------------------------------------------------------------------
(* Types.  The list never holds a session twice, although three functions  *)
(* put a session on it that may be there.                                  *)
TypeOK ==
    /\ size \in CacheSizes /\ refs \in [Sessions -> Nat]
    /\ id \in [Sessions -> Ids] /\ exp \in [Sessions -> Times]
    /\ not_resumable \in [Sessions -> BOOLEAN]
    /\ sessions \in [Ids -> Sessions \cup {NoSession}]
    /\ list \in Seq(Sessions) /\ IsInjective(list)
    /\ own \in [Threads -> Sessions \cup {NoSession}]
    /\ pc \in [Threads -> {"idle", "adding", "found", "freeing", "setting"}]
    /\ local \in [Threads -> Seq(Sessions)]
    /\ crashed \in BOOLEAN

(* Who holds a reference to s: the cache one for both of its structures,   *)
(* each connection, each running call.                                     *)
Holders(s) ==
    (IF s \in Cached THEN 1 ELSE 0)
    + Cardinality({t \in Threads : own[t] = s})
    + Cardinality({p \in Threads \X (1..(Cardinality(Sessions) + 1)) :
                      p[2] <= Len(local[p[1]]) /\ local[p[1]][p[2]] = s})

(* The reference count of a session is the number of those who hold it, at *)
(* every step of every thread: no session is freed while the cache, a      *)
(* connection or a call still uses it, and none is leaked, whatever is     *)
(* replaced, evicted, flushed or found again meanwhile.                    *)
RefsExact == \A s \in Sessions : refs[s] = Holders(s)

(* The table and the list hold the same sessions, each under its own id,   *)
(* and never more of them than the size allows, although                   *)
(* SSL_CTX_add_session inserts before it evicts.                           *)
CacheAgrees ==
    /\ Cached = ToSet(list)
    /\ \A i \in Ids : sessions[i] # NoSession => id[sessions[i]] = i
    /\ size > 0 => Len(list) <= size

(* SSL_CTX_flush_sessions(now) removes every session that has timed out    *)
(* and no other one, although it stops at the first that has not: the list *)
(* is in the order of the timeouts whatever was set, added or replaced     *)
(* before.                                                                 *)
FlushExact ==
    [][\A t \in Threads, now \in 0..(MaxTime + 1) :
          SSL_CTX_flush_sessions(t, now) =>
              Cached' = {s \in Cached : ~TimedOut(s, now)}]_vars

(* A session that SSL_CTX_add_session could not insert is not on the list: *)
(* "take back the extra reference and also don't add the session to the    *)
(* SSL_SESSION_list at this time" (ssl_sess.c, SSL_CTX_add_session).       *)
NotInsertedNotListed == ToSet(list) \subseteq Cached
=============================================================================
