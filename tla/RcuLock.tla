------------------------------ MODULE RcuLock ------------------------------
(***************************************************************************)
(* The read-copy-update lock of crypto/threads_pthread.c, used by readers  *)
(* and writers the way crypto/conf/conf_mod.c and test/threadstest.c do: a *)
(* reader dereferences a pointer between ossl_rcu_read_lock and            *)
(* ossl_rcu_read_unlock; a writer replaces it under the write lock, and    *)
(* the old object is freed after ossl_synchronize_rcu, by the writer or by *)
(* a callback left with ossl_rcu_call.                                     *)
(*                                                                         *)
(* There is a step for each atomic operation on what readers and writers   *)
(* share, and the steps interleave, those of one thread in the order of    *)
(* the program.  Code under a mutex that touches only what the mutex       *)
(* protects is one step; pthread_cond_wait gives it up, and a woken thread *)
(* takes it and tests its condition again.  A local variable that is no    *)
(* longer used is set to zero.                                             *)
(***************************************************************************)
EXTENDS Integers, FiniteSets

CONSTANTS
    Readers, Writers,    \* the threads
    Objects,             \* what the pointer may point to; bound: memory
    Deferring,           \* the writers that use ossl_rcu_call
    NumWriters,          \* arguments of ossl_rcu_lock_new
    ReaderMod,           \* 2^READER_SIZE, 65536
    IdMod,               \* 2^ID_SIZE, 2^32
    MaxDepth             \* bound: nested read locks of a thread

ASSUME RcuAssumption ==
    /\ IsFiniteSet(Readers) /\ IsFiniteSet(Writers)
    /\ Deferring \subseteq Writers
    /\ ReaderMod \in Nat /\ Cardinality(Readers) < ReaderMod
    /\ IdMod \in Nat
    /\ NumWriters \subseteq {n \in Nat : n >= 1 /\ n < IdMod}
    /\ MaxDepth \in Nat \ {0}
    /\ Objects # {}

VARIABLES
    group_count,         \* elements of qp_group
    reader_idx,          \* the quiescent point new readers go to
    current_alloc_idx,
    writers_alloced,
    id_ctr,
    next_to_retire,
    users,               \* qp_group[q].users: its reader count and ID
    cb_items,            \* the callbacks queued, each by the object it frees
    write_lock,          \* the threads that hold the mutex
    alloc_lock,
    uptr,                \* the pointer that the lock protects
    live,                \* objects allocated and not freed
    rpc,                 \* where each reader is
    qp,                  \* the index of its quiescent point
    depth,
    held,                \* objects it has got from ossl_rcu_uptr_deref
    wpc,                 \* where each writer is
    old,                 \* the object it has replaced and not freed
    prev,                \* in ossl_rcu_call: what new->next will point to
    cbs,                 \* in ossl_synchronize_rcu: callbacks to run
    wqp,                 \* the quiescent point update_qp gave it
    wid                  \* the ID read from it

lockVars   == <<group_count, reader_idx, current_alloc_idx,
                writers_alloced, id_ctr, next_to_retire, users, alloc_lock>>
dataVars   == <<cb_items, write_lock, uptr, live>>
readerVars == <<rpc, qp, depth, held>>
writerVars == <<wpc, old, prev, cbs, wqp, wid>>
vars       == <<lockVars, dataVars, readerVars, writerVars>>

\* x + 1, wrapping round at n.
Inc(x, n) == IF x + 1 = n THEN 0 ELSE x + 1

\* ossl_rcu_lock_new, and a first object to point to.
Init ==
    /\ group_count \in {n + 1 : n \in NumWriters}
    /\ reader_idx = 0
    /\ current_alloc_idx = 0 /\ writers_alloced = 0
    /\ id_ctr = 0 /\ next_to_retire = 0
    /\ users = [q \in 0..(group_count - 1) |-> [readers |-> 0, id |-> 0]]
    /\ cb_items = {}
    /\ write_lock = {} /\ alloc_lock = {}
    /\ uptr \in Objects /\ live = {uptr}
    /\ rpc = [r \in Readers |-> "out"]
    /\ qp = [r \in Readers |-> 0]
    /\ depth = [r \in Readers |-> 0]
    /\ held = [r \in Readers |-> {}]
    /\ wpc = [w \in Writers |-> "idle"]
    /\ old = [w \in Writers |-> {}]
    /\ prev = [w \in Writers |-> {}]
    /\ cbs = [w \in Writers |-> {}]
    /\ wqp = [w \in Writers |-> 0]
    /\ wid = [w \in Writers |-> 0]

-----------------------------------------------------------------------------
(* Readers                                                                 *)

RStep(r, from, to) == rpc[r] = from /\ rpc' = [rpc EXCEPT ![r] = to]

AddReaders(q, n) == users' = [users EXCEPT ![q].readers = @ + n]

\* ossl_rcu_read_lock of a thread that has no hold: get_hold_current_qp loads
\* the index of the current quiescent point,
LoadIndex(r) ==
    /\ RStep(r, "out", "loaded") \/ RStep(r, "retry", "loaded")
    /\ qp' = [qp EXCEPT ![r] = reader_idx]
    /\ UNCHANGED <<lockVars, dataVars, depth, held, writerVars>>

\* counts itself there,
CountIn(r) ==
    /\ RStep(r, "loaded", "counted")
    /\ AddReaders(qp[r], 1)
    /\ UNCHANGED <<group_count, reader_idx, current_alloc_idx,
                   writers_alloced, id_ctr, next_to_retire, alloc_lock, dataVars,
                   qp, depth, held, writerVars>>

\* and looks whether it is still the current one;
Recheck(r) ==
    /\ qp[r] = reader_idx
    /\ RStep(r, "counted", "in")
    /\ depth' = [depth EXCEPT ![r] = 1]
    /\ UNCHANGED <<lockVars, dataVars, qp, held, writerVars>>

\* if not, it takes itself back and starts again.
CountBack(r) ==
    /\ qp[r] # reader_idx
    /\ RStep(r, "counted", "back")
    /\ UNCHANGED <<lockVars, dataVars, qp, depth, held, writerVars>>

Uncount(r) ==
    /\ RStep(r, "back", "retry")
    /\ AddReaders(qp[r], -1)
    /\ qp' = [qp EXCEPT ![r] = 0]
    /\ UNCHANGED <<group_count, reader_idx, current_alloc_idx,
                   writers_alloced, id_ctr, next_to_retire, alloc_lock, dataVars,
                   depth, held, writerVars>>

\* A thread that has a hold counts the depth up and down, and gives the hold up
\* with the last.
NestedLock(r) ==
    /\ rpc[r] = "in" /\ depth[r] < MaxDepth
    /\ depth' = [depth EXCEPT ![r] = @ + 1]
    /\ UNCHANGED <<lockVars, dataVars, rpc, qp, held, writerVars>>

NestedUnlock(r) ==
    /\ rpc[r] = "in" /\ depth[r] > 1
    /\ depth' = [depth EXCEPT ![r] = @ - 1]
    /\ UNCHANGED <<lockVars, dataVars, rpc, qp, held, writerVars>>

ossl_rcu_uptr_deref(r) ==
    /\ rpc[r] = "in"
    /\ held' = [held EXCEPT ![r] = @ \cup {uptr}]
    /\ UNCHANGED <<lockVars, dataVars, rpc, qp, depth, writerVars>>

LastUnlock(r) ==
    /\ RStep(r, "in", "out")
    /\ depth[r] = 1
    /\ depth' = [depth EXCEPT ![r] = 0]
    /\ held' = [held EXCEPT ![r] = {}]
    /\ AddReaders(qp[r], -1)
    /\ qp' = [qp EXCEPT ![r] = 0]
    /\ UNCHANGED <<group_count, reader_idx, current_alloc_idx,
                   writers_alloced, id_ctr, next_to_retire, alloc_lock, dataVars,
                   writerVars>>

-----------------------------------------------------------------------------
(* Writers: the update                                                     *)

WStep(w, from, to) == wpc[w] = from /\ wpc' = [wpc EXCEPT ![w] = to]

ossl_rcu_write_lock(w) ==
    /\ WStep(w, "idle", "locked")
    /\ write_lock = {}
    /\ write_lock' = {w}
    /\ UNCHANGED <<lockVars, cb_items, uptr, live, readerVars, old, prev, cbs, wqp, wid>>

\* The writer reads the pointer and assigns a new object to it.  No other
\* writer can come in between.
ossl_rcu_assign_uptr(w) ==
    /\ WStep(w, "locked", "assigned")
    /\ \E o \in Objects \ live :
          /\ live' = live \cup {o}
          /\ uptr' = o
    /\ old' = [old EXCEPT ![w] = {uptr}]
    /\ UNCHANGED <<lockVars, cb_items, write_lock, readerVars, prev, cbs, wqp, wid>>

\* It may find no memory for one.
AssignFails(w) ==
    /\ WStep(w, "locked", "idle")
    /\ write_lock' = {}
    /\ UNCHANGED <<lockVars, cb_items, uptr, live, readerVars, old, prev, cbs, wqp, wid>>

\* ossl_rcu_call exchanges the head of the list for the new item, and only then
\* makes the new item point to the rest.
ossl_rcu_call(w) ==
    /\ w \in Deferring
    /\ WStep(w, "assigned", "linking")
    /\ prev' = [prev EXCEPT ![w] = cb_items]
    /\ cb_items' = old[w]
    /\ UNCHANGED <<lockVars, write_lock, uptr, live, readerVars, old, cbs, wqp, wid>>

\* The rest is added wherever the new item is by now: still in the list, in
\* the hands of a thread in ossl_synchronize_rcu, or freed.
LinkRest(w) ==
    /\ WStep(w, "linking", "linked")
    /\ cb_items' = IF old[w] \subseteq cb_items THEN cb_items \cup prev[w] ELSE cb_items
    /\ cbs' = [v \in Writers |-> IF old[w] \subseteq cbs[v] THEN cbs[v] \cup prev[w]
                                 ELSE cbs[v]]
    /\ prev' = [prev EXCEPT ![w] = {}]
    /\ old' = [old EXCEPT ![w] = {}]
    /\ UNCHANGED <<lockVars, write_lock, uptr, live, readerVars, wqp, wid>>

\* A writer that has the old object to free synchronizes at once, one that left
\* a callback may do so later.
ossl_rcu_write_unlock(w) ==
    /\ \/ w \notin Deferring /\ WStep(w, "assigned", "sync")
       \/ WStep(w, "linked", "idle")
    /\ write_lock' = {}
    /\ UNCHANGED <<lockVars, cb_items, uptr, live, readerVars, old, prev, cbs, wqp, wid>>

SynchronizeLater(w) ==
    /\ w \in Deferring
    /\ WStep(w, "idle", "sync")
    /\ UNCHANGED <<lockVars, dataVars, readerVars, old, prev, cbs, wqp, wid>>

-----------------------------------------------------------------------------
(* Writers: ossl_synchronize_rcu                                           *)

TakeCallbacks(w) ==
    /\ WStep(w, "sync", "alloc")
    /\ cbs' = [cbs EXCEPT ![w] = cb_items]
    /\ cb_items' = {}
    /\ UNCHANGED <<lockVars, write_lock, uptr, live, readerVars, old, prev, wqp, wid>>

\* Mutant: a writer takes the last quiescent point too.
update_qp_Last(w) ==
    /\ alloc_lock = {}
    /\ group_count - writers_alloced >= 1
    /\ WStep(w, "alloc", "publish")
    /\ alloc_lock' = {w}
    /\ wqp' = [wqp EXCEPT ![w] = current_alloc_idx]
    /\ writers_alloced' = writers_alloced + 1
    /\ current_alloc_idx' = Inc(current_alloc_idx, group_count)
    /\ id_ctr' = Inc(id_ctr, IdMod)
    /\ users' = [users EXCEPT ![current_alloc_idx].id = id_ctr]
    /\ UNCHANGED <<group_count, reader_idx, next_to_retire, dataVars,
                   readerVars, old, prev, cbs, wid>>

\* update_qp takes the current quiescent point, if one is left for the readers,
\* gives it an ID,
update_qp(w) ==
    /\ alloc_lock = {}
    /\ group_count - writers_alloced >= 2
    /\ WStep(w, "alloc", "publish")
    /\ alloc_lock' = {w}
    /\ wqp' = [wqp EXCEPT ![w] = current_alloc_idx]
    /\ writers_alloced' = writers_alloced + 1
    /\ current_alloc_idx' = Inc(current_alloc_idx, group_count)
    /\ id_ctr' = Inc(id_ctr, IdMod)
    /\ users' = [users EXCEPT ![current_alloc_idx].id = id_ctr]
    /\ UNCHANGED <<group_count, reader_idx, next_to_retire, dataVars,
                   readerVars, old, prev, cbs, wid>>

\* or waits for alloc_signal,
WaitForQp(w) ==
    /\ alloc_lock = {}
    /\ group_count - writers_alloced < 2
    /\ WStep(w, "alloc", "alloc_wait")
    /\ UNCHANGED <<lockVars, dataVars, readerVars, old, prev, cbs, wqp, wid>>

\* pthread_cond_signal: what pc may become when one of those that wait, if any
\* does, is woken.
Signal(pc) ==
    LET waiting == {w \in Writers : pc[w] = "alloc_wait"}
    IN  IF waiting = {} THEN {pc} ELSE {[pc EXCEPT ![w] = "alloc"] : w \in waiting}

\* and sends the readers to the next quiescent point.
PublishIndex(w) ==
    /\ wpc[w] = "publish"
    /\ wpc' \in Signal([wpc EXCEPT ![w] = "spin"])
    /\ reader_idx' = current_alloc_idx
    /\ alloc_lock' = {}
    /\ UNCHANGED <<group_count, current_alloc_idx, writers_alloced, id_ctr,
                   next_to_retire, users, dataVars, readerVars, old, prev, cbs, wqp, wid>>

\* The spin ends when the count of readers, as much of it as is looked at, is
\* zero.
AwaitReaders(w) ==
    /\ users[wqp[w]].readers % ReaderMod = 0
    /\ WStep(w, "spin", "prior")
    /\ wid' = [wid EXCEPT ![w] = users[wqp[w]].id]
    /\ UNCHANGED <<lockVars, dataVars, readerVars, old, prev, cbs, wqp>>

\* Mutant: quiescent points are retired in any order.
RetireInOrder_AnyOrder(w) ==
    /\ wpc[w] = "prior"
    /\ wid' = [wid EXCEPT ![w] = 0]
    /\ next_to_retire' = Inc(next_to_retire, IdMod)
    /\ wpc' = [v \in Writers |-> IF v = w THEN "retire"
                                 ELSE IF wpc[v] = "prior_wait" THEN "prior" ELSE wpc[v]]
    /\ UNCHANGED <<group_count, reader_idx, current_alloc_idx,
                   writers_alloced, id_ctr, users, alloc_lock, dataVars, readerVars,
                   old, prev, cbs, wqp>>

\* Under prior_lock: it is this writer's turn, and all that wait for theirs are
\* woken,
RetireInOrder(w) ==
    /\ wpc[w] = "prior"
    /\ next_to_retire = wid[w]
    /\ wid' = [wid EXCEPT ![w] = 0]
    /\ next_to_retire' = Inc(next_to_retire, IdMod)
    /\ wpc' = [v \in Writers |-> IF v = w THEN "retire"
                                 ELSE IF wpc[v] = "prior_wait" THEN "prior" ELSE wpc[v]]
    /\ UNCHANGED <<group_count, reader_idx, current_alloc_idx,
                   writers_alloced, id_ctr, users, alloc_lock, dataVars, readerVars,
                   old, prev, cbs, wqp>>

\* or it is not.
WaitForTurn(w) ==
    /\ next_to_retire # wid[w]
    /\ WStep(w, "prior", "prior_wait")
    /\ UNCHANGED <<lockVars, dataVars, readerVars, old, prev, cbs, wqp, wid>>

\* Mutant: alloc_signal is not sent.
retire_qp_NoSignal(w) ==
    /\ alloc_lock = {}
    /\ WStep(w, "retire", "callbacks")
    /\ wqp' = [wqp EXCEPT ![w] = 0]
    /\ writers_alloced' = writers_alloced - 1
    /\ UNCHANGED <<group_count, reader_idx, current_alloc_idx, id_ctr,
                   next_to_retire, users, alloc_lock, dataVars, readerVars, old, prev,
                   cbs, wid>>

retire_qp(w) ==
    /\ alloc_lock = {}
    /\ wpc[w] = "retire"
    /\ wpc' \in Signal([wpc EXCEPT ![w] = "callbacks"])
    /\ wqp' = [wqp EXCEPT ![w] = 0]
    /\ writers_alloced' = writers_alloced - 1
    /\ UNCHANGED <<group_count, reader_idx, current_alloc_idx, id_ctr,
                   next_to_retire, users, alloc_lock, dataVars, readerVars, old, prev,
                   cbs, wid>>

\* fn(data) of one callback frees the object.
RunCallback(w) ==
    /\ wpc[w] = "callbacks"
    /\ \E o \in cbs[w] : /\ live' = live \ {o}
                         /\ cbs' = [cbs EXCEPT ![w] = @ \ {o}]
    /\ UNCHANGED <<lockVars, cb_items, write_lock, uptr, readerVars, wpc, old, prev,
                   wqp, wid>>

\* ossl_synchronize_rcu returns and the writer frees what it replaced.
FreeOld(w) ==
    /\ cbs[w] = {}
    /\ WStep(w, "callbacks", "idle")
    /\ live' = live \ old[w]
    /\ old' = [old EXCEPT ![w] = {}]
    /\ UNCHANGED <<lockVars, cb_items, write_lock, uptr, readerVars, prev, cbs, wqp, wid>>

-----------------------------------------------------------------------------
(* The thread library                                                      *)

\* pthread_cond_wait may return without a signal.
SpuriousWakeup(w) ==
    /\ WStep(w, "alloc_wait", "alloc") \/ WStep(w, "prior_wait", "prior")
    /\ UNCHANGED <<lockVars, dataVars, readerVars, old, prev, cbs, wqp, wid>>

-----------------------------------------------------------------------------
\* Steps that take a thread on through what it has begun.
ReaderStep(r) ==
    \/ LoadIndex(r) /\ rpc[r] = "retry"
    \/ CountIn(r) \/ Recheck(r) \/ CountBack(r) \/ Uncount(r)
    \/ NestedUnlock(r) \/ LastUnlock(r)

WriterStep(w) ==
    \/ ossl_rcu_assign_uptr(w) \/ AssignFails(w) \/ ossl_rcu_call(w) \/ LinkRest(w)
    \/ ossl_rcu_write_unlock(w) \/ TakeCallbacks(w) \/ update_qp(w) \/ WaitForQp(w)
    \/ PublishIndex(w) \/ AwaitReaders(w) \/ RetireInOrder(w) \/ WaitForTurn(w)
    \/ retire_qp(w) \/ RunCallback(w) \/ FreeOld(w)

Next ==
    \/ \E r \in Readers :
          \/ ReaderStep(r) \/ NestedLock(r) \/ ossl_rcu_uptr_deref(r)
          \/ LoadIndex(r) /\ rpc[r] = "out"
    \/ \E w \in Writers :
          \/ WriterStep(w) \/ ossl_rcu_write_lock(w) \/ SynchronizeLater(w)
          \/ SpuriousWakeup(w)

Spec == Init /\ [][Next]_vars

\* A thread goes on with what it has begun, and a reader leaves in the end; a
\* writer takes a mutex that stays free.  Nobody has to begin, and the mutexes
\* and condition variables need not be fair among those that wait.
Fairness ==
    /\ \A r \in Readers : WF_vars(ReaderStep(r)) /\ SF_vars(LastUnlock(r))
    /\ \A w \in Writers : WF_vars(WriterStep(w))

FairSpec == Spec /\ Fairness
-----------------------------------------------------------------------------
(* Correctness                                                             *)

Synchronizing == {"alloc", "alloc_wait", "publish", "spin", "prior", "prior_wait",
                  "retire", "callbacks"}
Updating      == {"locked", "assigned", "linking", "linked"}

\* The count never goes below zero (an OPENSSL_assert of ossl_rcu_read_unlock).
TypeOK ==
    /\ group_count \in {n + 1 : n \in NumWriters}
    /\ {reader_idx, current_alloc_idx} \subseteq 0..(group_count - 1)
    /\ writers_alloced \in Nat
    /\ id_ctr \in 0..(IdMod - 1) /\ next_to_retire \in 0..(IdMod - 1)
    /\ users \in [0..(group_count - 1) -> [readers : Nat, id : 0..(IdMod - 1)]]
    /\ uptr \in Objects
    /\ cb_items \subseteq Objects /\ live \subseteq Objects
    /\ write_lock \subseteq Writers /\ alloc_lock \subseteq Writers
    /\ rpc \in [Readers -> {"out", "loaded", "counted", "back", "retry", "in"}]
    /\ qp \in [Readers -> 0..(group_count - 1)]
    /\ depth \in [Readers -> 0..MaxDepth]
    /\ held \in [Readers -> SUBSET Objects]
    /\ wpc \in [Writers -> {"idle", "sync"} \cup Updating \cup Synchronizing]
    /\ old \in [Writers -> SUBSET Objects]
    /\ prev \in [Writers -> SUBSET Objects]
    /\ cbs \in [Writers -> SUBSET Objects]
    /\ wqp \in [Writers -> 0..(group_count - 1)]
    /\ wid \in [Writers -> 0..(IdMod - 1)]

\* "any old data updated by the write side thread is safe to free" once
\* ossl_synchronize_rcu returns: an object that a reader has got from the
\* pointer and may still use was not freed, nor was the one it points to.
NoUseAfterFree ==
    /\ uptr \in live
    /\ \A r \in Readers : held[r] \subseteq live

\* Some thread in ossl_synchronize_rcu always gets past the wait for readers,
\* for a quiescent point and for its turn: no wakeup is lost, and nobody waits
\* for a point that will not be retired.
Progress ==
    (\E w \in Writers : wpc[w] \in Synchronizing) ~> (\E w \in Writers : wpc[w] = "callbacks")

\* ossl_rcu_call: the callback is "to be called when the next synchronization
\* completes".  Every object not freed is the one in use, or somebody is still
\* to free it.
NothingLeaked ==
    live \subseteq {uptr} \cup cb_items \cup UNION {old[w] \cup prev[w] \cup cbs[w] : w \in Writers}

-----------------------------------------------------------------------------
(* Why it is safe                                                          *)

\* How far b is ahead of a on a ring of n.
Dist(a, b, n) == IF b >= a THEN b - a ELSE b - a + n

Allocated   == {w \in Writers : wpc[w] \in {"publish", "spin", "prior", "prior_wait", "retire"}}
Outstanding == {w \in Writers : wpc[w] \in {"publish", "spin", "prior", "prior_wait"}}
Publishing  == {w \in Writers : wpc[w] = "publish"}

\* How many IDs ago w allocated its quiescent point; 1 is the latest.
Id(w)  == users[wqp[w]].id
Age(w) == Dist(Id(w), id_ctr, IdMod)

CountedAt(q) == {r \in Readers : rpc[r] \in {"counted", "back", "in"} /\ qp[r] = q}

\* Writers exclude each other in the update and in update_qp.
Exclusion ==
    /\ \A w \in Writers : wpc[w] \in Updating => write_lock = {w}
    /\ alloc_lock = Publishing
    /\ \A v, w \in Publishing : v = w

\* The quiescent points given out and not yet retired in order are the last
\* ones before current_alloc_idx, as their IDs are the last before id_ctr, and
\* one is left for the readers.
Ring ==
    /\ writers_alloced = Cardinality(Allocated)
    /\ writers_alloced < group_count
    /\ Dist(next_to_retire, id_ctr, IdMod) = Cardinality(Outstanding)
    /\ \A w \in Outstanding :
          /\ Age(w) \in 1..Cardinality(Outstanding)
          /\ Dist(wqp[w], current_alloc_idx, group_count) = Age(w)
          /\ wpc[w] \in {"prior", "prior_wait"} => wid[w] = Id(w)
    /\ \A v, w \in Outstanding : Age(v) = Age(w) => v = w

\* Readers are sent to the point not given out, or the one that is being.
Index ==
    /\ Publishing = {} => reader_idx = current_alloc_idx
    /\ \A w \in Publishing : reader_idx = wqp[w] /\ Age(w) = 1

\* A reader with a hold is counted at the current point or one given out, and
\* none is left at a point whose writer has seen the count at zero.
Holders ==
    /\ \A q \in 0..(group_count - 1) : users[q].readers = Cardinality(CountedAt(q))
    /\ \A r \in Readers :
          /\ held[r] # {} => rpc[r] = "in"
          /\ rpc[r] = "in" => /\ depth[r] >= 1
                              /\ \/ qp[r] = reader_idx
                                 \/ \E v \in Outstanding : qp[r] = wqp[v]
          /\ \A w \in Writers :
                (rpc[r] = "in" /\ wpc[w] \in {"prior", "prior_wait"}) => qp[r] # wqp[w]

\* What w is to free: its own, the callbacks it took, and those that a thread in
\* ossl_rcu_call is about to link to one it took.
Own(w)  == IF wpc[w] = "linking" THEN {} ELSE old[w]
Late(w) == UNION {prev[v] : v \in {v \in Writers : wpc[v] = "linking" /\ old[v] \subseteq cbs[w]}}
Resp(w) == Own(w) \cup cbs[w] \cup Late(w)

\* Each object has one place.
Ownership ==
    /\ uptr \in live
    /\ \A w \in Writers :
          /\ Own(w) \cup cbs[w] \cup prev[w] \cup cb_items \subseteq live \ {uptr}
          /\ wpc[w] \in {"assigned", "linking"} => old[w] # {}
          /\ (wpc[w] \in {"idle", "locked", "linked"}) => old[w] = {}
          /\ wpc[w] # "linking" => prev[w] = {}
          /\ wpc[w] \notin Synchronizing => cbs[w] = {}
          /\ (Own(w) \cup cbs[w] \cup prev[w]) \cap cb_items = {}
    /\ \A v, w \in Writers :
          /\ v # w => Own(v) \cap Own(w) = {} /\ cbs[v] \cap cbs[w] = {}
          /\ Own(v) \cap cbs[w] = {} /\ Own(v) \cap prev[w] = {} /\ cbs[v] \cap prev[w] = {}

\* A reader that has an object which w, having moved the readers on, is to free
\* is counted at w's point or an earlier one that is not yet retired; when w's
\* turn has come there is no such reader.
Grace ==
    \A w \in Writers, r \in Readers :
        held[r] \cap Resp(w) # {} =>
            /\ wpc[w] \notin {"retire", "callbacks"}
            /\ wpc[w] \in {"spin", "prior", "prior_wait"} =>
                  \E v \in Outstanding : qp[r] = wqp[v] /\ Age(v) >= Age(w)

RcuInvariant ==
    TypeOK /\ Exclusion /\ Ring /\ Index /\ Holders /\ Ownership /\ Grace /\ NoUseAfterFree
=============================================================================
