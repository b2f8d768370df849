--------------------------- MODULE RcuLock_proofs ---------------------------
(***************************************************************************)
(* Proofs about RcuLock, for any number of readers, writers, objects and   *)
(* quiescent points and for counters of any width: the inductive invariant *)
(* and, from it, that nothing a reader may use is freed.                   *)
(***************************************************************************)
EXTENDS RcuLock, FiniteSetTheorems, TLAPS

-----------------------------------------------------------------------------
(* Rings                                                                   *)

\* Going on by one from b adds one to the distance, unless that goes all round.
LEMMA DistAhead ==
    ASSUME NEW n \in Nat, NEW a \in 0..(n - 1), NEW b \in 0..(n - 1),
           Dist(a, b, n) + 1 < n
    PROVE  /\ Inc(b, n) \in 0..(n - 1)
           /\ Dist(a, Inc(b, n), n) = Dist(a, b, n) + 1
BY DEF Dist, Inc

\* Going on by one from a takes one from it, unless a is there.
LEMMA DistBehind ==
    ASSUME NEW n \in Nat, NEW a \in 0..(n - 1), NEW b \in 0..(n - 1), a # b
    PROVE  /\ Inc(a, n) \in 0..(n - 1)
           /\ Dist(Inc(a, n), b, n) = Dist(a, b, n) - 1
BY DEF Dist, Inc

\* The distance tells where one is.
LEMMA DistFacts ==
    ASSUME NEW n \in Nat, NEW a \in 0..(n - 1), NEW b \in 0..(n - 1)
    PROVE  /\ Dist(a, b, n) \in 0..(n - 1)
           /\ Dist(a, b, n) = 0 <=> a = b
           /\ Inc(a, n) \in 0..(n - 1)
           /\ \A c \in 0..(n - 1) : Dist(a, c, n) = Dist(b, c, n) => a = b
BY DEF Dist, Inc

\* The one after a is at distance 1, if there are two.
LEMMA DistOne ==
    ASSUME NEW n \in Nat, n >= 2, NEW a \in 0..(n - 1)
    PROVE  Dist(a, Inc(a, n), n) = 1
BY DEF Dist, Inc

-----------------------------------------------------------------------------
(* Sets of threads                                                         *)

\* Sets of threads are finite.
LEMMA Finite ==
    /\ \A S \in SUBSET Readers : IsFiniteSet(S) /\ Cardinality(S) \in Nat
                                 /\ Cardinality(S) <= Cardinality(Readers)
    /\ \A S \in SUBSET Writers : IsFiniteSet(S) /\ Cardinality(S) \in Nat
    /\ Cardinality(Readers) \in Nat
BY RcuAssumption, FS_Subset, FS_CardinalityType

\* What the assumptions say of the number of quiescent points.
LEMMA GroupCount ==
    ASSUME TypeOK
    PROVE  group_count \in Nat /\ group_count >= 2 /\ group_count <= IdMod /\ IdMod \in Nat
BY RcuAssumption DEF TypeOK

\* No more points are waited on than are given out, and what is given out is
\* less than the number of IDs.
LEMMA OutstandingBound ==
    ASSUME TypeOK, Ring
    PROVE  /\ Cardinality(Outstanding) \in Nat
           /\ Cardinality(Outstanding) <= writers_alloced
           /\ Cardinality(Outstanding) < IdMod
<1>1. Outstanding \in SUBSET Allocated /\ Allocated \in SUBSET Writers
    BY DEF Outstanding, Allocated
<1>2. IsFiniteSet(Allocated) /\ Cardinality(Allocated) \in Nat
    BY <1>1, Finite
<1>3. Cardinality(Outstanding) <= Cardinality(Allocated)
    BY <1>1, <1>2, FS_Subset
<1>4. Cardinality(Outstanding) \in Nat
    BY <1>1, <1>2, FS_Subset, FS_CardinalityType
<1>5. writers_alloced = Cardinality(Allocated) /\ writers_alloced < group_count
    BY DEF Ring
<1> QED
    BY <1>2, <1>3, <1>4, <1>5, GroupCount

-----------------------------------------------------------------------------
(* What a step leaves alone                                                *)

\* Nobody moves to or from a place between update_qp and retire_qp, but for
\* those who wait for their turn or stop waiting.
SamePlaces ==
    \A v \in Writers :
        /\ wpc'[v] = "publish" <=> wpc[v] = "publish"
        /\ wpc'[v] = "spin" <=> wpc[v] = "spin"
        /\ wpc'[v] \in {"prior", "prior_wait"} <=> wpc[v] \in {"prior", "prior_wait"}
        /\ wpc'[v] = "retire" <=> wpc[v] = "retire"

\* Steps that leave the lock's own state and the IDs alone.
LEMMA RingFrame ==
    ASSUME TypeOK, Ring, Index, SamePlaces,
           UNCHANGED <<group_count, reader_idx, current_alloc_idx, writers_alloced,
                       id_ctr, next_to_retire, wqp, wid>>,
           \A q \in 0..(group_count - 1) : users'[q].id = users[q].id
    PROVE  /\ Ring' /\ Index'
           /\ Outstanding' = Outstanding
           /\ \A v \in Writers : Age(v)' = Age(v)
<1>1. Outstanding' = Outstanding /\ Allocated' = Allocated /\ Publishing' = Publishing
    BY DEF Outstanding, Allocated, Publishing, SamePlaces
<1>2. \A v \in Writers : wqp[v] \in 0..(group_count - 1)
    BY DEF TypeOK
<1>3. \A v \in Writers : Id(v)' = Id(v)
    BY <1>2 DEF Id
<1>4. \A v \in Writers : Age(v)' = Age(v)
    BY <1>3 DEF Age, Dist
<1>5. \A v \in Outstanding : v \in Writers
    BY DEF Outstanding
<1>6. \A v \in Publishing : v \in Writers
    BY DEF Publishing
<1>7. Ring'
    BY <1>1, <1>3, <1>4, <1>5 DEF Ring, SamePlaces, Dist
<1>8. Index'
    BY <1>1, <1>4, <1>6 DEF Index
<1> QED
    BY <1>1, <1>4, <1>7, <1>8

\* Steps that leave readers and counts alone too.
LEMMA HoldersFrame ==
    ASSUME Holders, SamePlaces,
           UNCHANGED <<group_count, reader_idx, users, rpc, qp, depth, held, wqp>>
    PROVE  Holders'
<1>1. Outstanding' = Outstanding
    BY DEF Outstanding, SamePlaces
<1>2. \A q : CountedAt(q)' = CountedAt(q)
    BY DEF CountedAt
<1> QED
    BY <1>1, <1>2 DEF Holders, SamePlaces

\* Steps that leave every object where it is.
LEMMA OwnershipFrame ==
    ASSUME Ownership,
           UNCHANGED <<cb_items, uptr, live, old, prev, cbs>>,
           \A v \in Writers :
              /\ wpc'[v] = "linking" <=> wpc[v] = "linking"
              /\ wpc'[v] = "assigned" => wpc[v] = "assigned"
              /\ wpc'[v] \in {"idle", "locked", "linked"} => old[v] = {}
              /\ wpc'[v] \notin Synchronizing => cbs[v] = {}
    PROVE  Ownership' /\ \A v \in Writers : Resp(v)' = Resp(v)
<1>1. \A v \in Writers : Own(v)' = Own(v)
    BY DEF Own
<1>2. \A w \in Writers : Late(w)' = Late(w)
    BY DEF Late
<1>3. \A v \in Writers : Resp(v)' = Resp(v)
    BY <1>1, <1>2 DEF Resp
<1>4. Ownership'
    BY <1>1 DEF Ownership
<1> QED
    BY <1>3, <1>4

\* Places where a reader in the way of a writer's free counts.
Dangerous == {"spin", "prior", "prior_wait", "retire", "callbacks"}

\* Steps that put no reader in the way of a writer.
LEMMA GraceFrame ==
    ASSUME Grace,
           \A w \in Writers, r \in Readers :
              (wpc'[w] \in Dangerous /\ held'[r] \cap Resp(w)' # {}) =>
                 /\ held[r] \cap Resp(w) # {}
                 /\ qp'[r] = qp[r]
                 /\ wpc'[w] \in {"retire", "callbacks"} => wpc[w] \in {"retire", "callbacks"}
                 /\ wpc'[w] \in {"spin", "prior", "prior_wait"} =>
                       wpc[w] \in {"spin", "prior", "prior_wait"},
           \A v \in Outstanding : v \in Outstanding' /\ wqp'[v] = wqp[v],
           \A v, w \in Outstanding : Age(v) >= Age(w) => Age(v)' >= Age(w)'
    PROVE  Grace'
<1>1. SUFFICES ASSUME NEW w \in Writers, NEW r \in Readers,
                      held'[r] \cap Resp(w)' # {}, wpc'[w] \in Dangerous
               PROVE  /\ wpc'[w] \notin {"retire", "callbacks"}
                      /\ wpc'[w] \in {"spin", "prior", "prior_wait"} =>
                            \E v \in Outstanding' : qp'[r] = wqp'[v] /\ Age(v)' >= Age(w)'
    BY DEF Grace, Dangerous
<1>2. /\ held[r] \cap Resp(w) # {} /\ qp'[r] = qp[r]
      /\ wpc'[w] \in {"retire", "callbacks"} => wpc[w] \in {"retire", "callbacks"}
      /\ wpc'[w] \in {"spin", "prior", "prior_wait"} =>
            wpc[w] \in {"spin", "prior", "prior_wait"}
    BY <1>1
<1>3. wpc'[w] \notin {"retire", "callbacks"}
    BY <1>2 DEF Grace
<1>4. ASSUME wpc'[w] \in {"spin", "prior", "prior_wait"}
      PROVE  \E v \in Outstanding' : qp'[r] = wqp'[v] /\ Age(v)' >= Age(w)'
    <2>1. w \in Outstanding
        BY <1>2, <1>4 DEF Outstanding
    <2>2. PICK v \in Outstanding : qp[r] = wqp[v] /\ Age(v) >= Age(w)
        BY <1>2, <1>4 DEF Grace
    <2> QED
        BY <1>2, <2>1, <2>2
<1> QED
    BY <1>3, <1>4

-----------------------------------------------------------------------------
(* Readers                                                                 *)

\* What a writer is to free is allocated, and is not what the pointer points to.
LEMMA RespSafe ==
    ASSUME Ownership
    PROVE  \A w \in Writers : Resp(w) \subseteq live \ {uptr}
<1>1. \A w \in Writers : Own(w) \cup cbs[w] \cup prev[w] \subseteq live \ {uptr}
    BY DEF Ownership
<1>2. \A w \in Writers : Late(w) \subseteq live \ {uptr}
    BY <1>1 DEF Late
<1> QED
    BY <1>1, <1>2 DEF Resp

\* Readers are not sent to a point whose writer has seen the count at zero.
LEMMA IndexNotWaited ==
    ASSUME TypeOK, Ring, Index, NEW w \in Writers, wpc[w] \in {"prior", "prior_wait"}
    PROVE  wqp[w] # reader_idx
<1>1. w \in Outstanding /\ w \notin Publishing
    BY DEF Outstanding, Publishing
<1>2. group_count \in Nat /\ wqp[w] \in 0..(group_count - 1)
      /\ current_alloc_idx \in 0..(group_count - 1)
    BY GroupCount DEF TypeOK
<1>3. Age(w) >= 1 /\ Dist(wqp[w], current_alloc_idx, group_count) = Age(w)
    BY <1>1 DEF Ring
<1>4. wqp[w] # current_alloc_idx
    BY <1>2, <1>3 DEF Dist
<1>5. ASSUME NEW v \in Publishing PROVE wqp[w] # reader_idx
    <2>1. v \in Outstanding /\ v # w
        BY <1>1 DEF Outstanding, Publishing
    <2>2. Dist(wqp[v], current_alloc_idx, group_count) = Age(v) /\ Age(v) # Age(w)
        BY <1>1, <2>1 DEF Ring
    <2>3. wqp[v] # wqp[w]
        BY <1>3, <2>2
    <2> QED
        BY <2>3 DEF Index
<1> QED
    BY <1>4, <1>5 DEF Index

\* A step of a reader keeps what the writers rely on, as long as it gets no
\* object but the one the pointer points to.
LEMMA ReaderFrame ==
    ASSUME RcuInvariant,
           UNCHANGED <<group_count, reader_idx, current_alloc_idx, writers_alloced,
                       id_ctr, next_to_retire, alloc_lock, dataVars, writerVars>>,
           \A q \in 0..(group_count - 1) : users'[q].id = users[q].id,
           \A s \in Readers : /\ held'[s] \subseteq held[s] \cup {uptr}
                              /\ held'[s] # {} => qp'[s] = qp[s]
    PROVE  Exclusion' /\ Ring' /\ Index' /\ Ownership' /\ Grace' /\ NoUseAfterFree'
<1> USE DEF RcuInvariant
<1>1. Exclusion'
    BY DEF Exclusion, Publishing, dataVars, writerVars
<1>2. /\ Ring' /\ Index' /\ Outstanding' = Outstanding
      /\ \A v \in Writers : Age(v)' = Age(v)
    BY RingFrame DEF SamePlaces, writerVars
<1>3. Ownership' /\ \A v \in Writers : Resp(v)' = Resp(v)
    <2>1. UNCHANGED <<cb_items, uptr, live, old, prev, cbs, wpc>>
        BY DEF dataVars, writerVars
    <2>2. \A v \in Writers : /\ wpc[v] \in {"idle", "locked", "linked"} => old[v] = {}
                             /\ wpc[v] \notin Synchronizing => cbs[v] = {}
        BY DEF Ownership
    <2> QED
        BY <2>1, <2>2, OwnershipFrame
<1>4. Grace'
    <2>1. \A w \in Writers, s \in Readers :
             held'[s] \cap Resp(w)' # {} => held[s] \cap Resp(w) # {} /\ qp'[s] = qp[s]
        BY <1>3, RespSafe
    <2>2. \A v \in Outstanding : v \in Writers
        BY DEF Outstanding
    <2> QED
        BY <1>2, <2>1, <2>2, GraceFrame DEF writerVars
<1>5. NoUseAfterFree'
    BY DEF NoUseAfterFree, dataVars
<1> QED
    BY <1>1, <1>2, <1>3, <1>4, <1>5

\* A step of one reader, with the count still right, keeps the holds right if
\* the reader had its hold or has got it where readers are sent.
LEMMA HoldersStep ==
    ASSUME TypeOK, Ring, Index, Holders, NEW r \in Readers,
           UNCHANGED <<group_count, reader_idx, wpc, wqp>>,
           \A s \in Readers \ {r} : /\ rpc'[s] = rpc[s] /\ qp'[s] = qp[s]
                                    /\ depth'[s] = depth[s] /\ held'[s] = held[s],
           \A q \in 0..(group_count - 1) : users'[q].readers = Cardinality(CountedAt(q)'),
           held'[r] # {} => rpc'[r] = "in",
           rpc'[r] = "in" => /\ depth'[r] >= 1
                             /\ \/ rpc[r] = "in" /\ qp'[r] = qp[r]
                                \/ qp'[r] = reader_idx
    PROVE  Holders'
<1>1. Outstanding' = Outstanding
    BY DEF Outstanding
<1>2. \A s \in Readers :
         /\ held'[s] # {} => rpc'[s] = "in"
         /\ rpc'[s] = "in" => /\ depth'[s] >= 1
                              /\ \/ qp'[s] = reader_idx
                                 \/ \E v \in Outstanding : qp'[s] = wqp[v]
    BY DEF Holders
<1>3. \A s \in Readers, w \in Writers :
         (rpc'[s] = "in" /\ wpc[w] \in {"prior", "prior_wait"}) => qp'[s] # wqp[w]
    BY IndexNotWaited DEF Holders
<1> QED
    BY <1>1, <1>2, <1>3 DEF Holders

\* A step that changes neither who is counted where nor the counts.
LEMMA SameCounts ==
    ASSUME Holders, UNCHANGED <<group_count, users>>,
           \A s \in Readers, q \in 0..(group_count - 1) :
              (rpc'[s] \in {"counted", "back", "in"} /\ qp'[s] = q) <=>
                 (rpc[s] \in {"counted", "back", "in"} /\ qp[s] = q)
    PROVE  \A q \in 0..(group_count - 1) : users'[q].readers = Cardinality(CountedAt(q)')
<1>1. \A q \in 0..(group_count - 1) : CountedAt(q)' = CountedAt(q)
    BY DEF CountedAt
<1> QED
    BY <1>1 DEF Holders

\* The steps of a reader that leave the counts alone.
LEMMA QuietReaderStep ==
    ASSUME RcuInvariant, NEW r \in Readers,
           \/ LoadIndex(r) \/ Recheck(r) \/ CountBack(r)
           \/ NestedLock(r) \/ NestedUnlock(r) \/ ossl_rcu_uptr_deref(r)
    PROVE  RcuInvariant'
<1> USE DEF RStep
<1>0. TypeOK /\ Ring /\ Index /\ Holders
    BY DEF RcuInvariant
<1>1. UNCHANGED <<lockVars, dataVars, writerVars>>
    BY DEF LoadIndex, Recheck, CountBack, NestedLock, NestedUnlock, ossl_rcu_uptr_deref
<1>2. TypeOK'
    <2>1. /\ rpc' \in [Readers -> {"out", "loaded", "counted", "back", "retry", "in"}]
          /\ qp' \in [Readers -> 0..(group_count - 1)]
          /\ depth' \in [Readers -> 0..MaxDepth]
          /\ held' \in [Readers -> SUBSET Objects]
        <3>1. CASE LoadIndex(r)
            BY <1>0, <3>1 DEF TypeOK, LoadIndex
        <3>2. CASE Recheck(r)
            BY <1>0, <3>2, RcuAssumption DEF TypeOK, Recheck
        <3>3. CASE CountBack(r)
            BY <1>0, <3>3 DEF TypeOK, CountBack
        <3>4. CASE NestedLock(r) \/ NestedUnlock(r)
            <4>1. depth \in [Readers -> 0..MaxDepth] /\ MaxDepth \in Nat
                BY <1>0, RcuAssumption DEF TypeOK
            <4>2. depth' \in [Readers -> 0..MaxDepth]
                BY <3>4, <4>1 DEF NestedLock, NestedUnlock
            <4> QED
                BY <1>0, <3>4, <4>2 DEF TypeOK, NestedLock, NestedUnlock
        <3>5. CASE ossl_rcu_uptr_deref(r)
            BY <1>0, <3>5 DEF TypeOK, ossl_rcu_uptr_deref
        <3> QED
            BY <3>1, <3>2, <3>3, <3>4, <3>5
    <2> QED
        BY <1>0, <1>1, <2>1 DEF TypeOK, lockVars, dataVars, writerVars
<1>3. \A s \in Readers \ {r} : /\ rpc'[s] = rpc[s] /\ qp'[s] = qp[s]
                               /\ depth'[s] = depth[s] /\ held'[s] = held[s]
    BY <1>0 DEF TypeOK, LoadIndex, Recheck, CountBack, NestedLock, NestedUnlock,
                ossl_rcu_uptr_deref
<1>4. held[r] # {} => rpc[r] = "in"
    BY <1>0 DEF Holders
<1>5. /\ held'[r] \subseteq held[r] \cup {uptr}
      /\ held'[r] # {} => qp'[r] = qp[r] /\ rpc'[r] = "in"
      /\ rpc'[r] = "in" => /\ depth'[r] >= 1
                           /\ (rpc[r] = "in" /\ qp'[r] = qp[r]) \/ qp'[r] = reader_idx
      /\ rpc'[r] \in {"counted", "back", "in"} <=> rpc[r] \in {"counted", "back", "in"}
      /\ rpc[r] \in {"counted", "back", "in"} => qp'[r] = qp[r]
    <2>1. CASE LoadIndex(r)
        BY <1>0, <1>4, <2>1 DEF TypeOK, LoadIndex
    <2>2. CASE Recheck(r)
        BY <1>0, <1>4, <2>2 DEF TypeOK, Recheck
    <2>3. CASE CountBack(r)
        BY <1>0, <1>4, <2>3 DEF TypeOK, CountBack
    <2>4. CASE NestedLock(r) \/ NestedUnlock(r)
        <3>1. rpc[r] = "in" /\ UNCHANGED <<rpc, qp, held>>
            BY <2>4 DEF NestedLock, NestedUnlock
        <3>2. depth[r] \in Int /\ depth \in [Readers -> 0..MaxDepth]
            BY <1>0, RcuAssumption DEF TypeOK
        <3>3. depth[r] >= 1
            BY <1>0, <3>1 DEF Holders
        <3>4. depth'[r] >= 1
            BY <2>4, <3>2, <3>3 DEF NestedLock, NestedUnlock
        <3> QED
            BY <3>1, <3>4
    <2>5. CASE ossl_rcu_uptr_deref(r)
        BY <1>0, <2>5 DEF TypeOK, Holders, ossl_rcu_uptr_deref
    <2> QED
        BY <2>1, <2>2, <2>3, <2>4, <2>5
<1>6. \A q \in 0..(group_count - 1) : users'[q].readers = Cardinality(CountedAt(q)')
    BY <1>0, <1>1, <1>3, <1>5, SameCounts DEF lockVars
<1>7. Holders'
    BY <1>0, <1>1, <1>3, <1>5, <1>6, HoldersStep DEF lockVars, writerVars
<1>8. Exclusion' /\ Ring' /\ Index' /\ Ownership' /\ Grace' /\ NoUseAfterFree'
    BY <1>1, <1>3, <1>5, ReaderFrame DEF lockVars
<1> QED
    BY <1>2, <1>7, <1>8 DEF RcuInvariant

\* A count, and the reader that joins or leaves those counted.
LEMMA CountFacts ==
    ASSUME TypeOK, Holders, NEW q \in 0..(group_count - 1), NEW r \in Readers
    PROVE  /\ users[q].readers = Cardinality(CountedAt(q))
           /\ Cardinality(CountedAt(q)) \in Nat
           /\ Cardinality(CountedAt(q)) < ReaderMod
           /\ r \in CountedAt(q) =>
                 /\ Cardinality(CountedAt(q)) >= 1
                 /\ Cardinality(CountedAt(q) \ {r}) = Cardinality(CountedAt(q)) - 1
           /\ r \notin CountedAt(q) =>
                 Cardinality(CountedAt(q) \cup {r}) = Cardinality(CountedAt(q)) + 1
<1>1. CountedAt(q) \in SUBSET Readers
    BY DEF CountedAt
<1>2. /\ IsFiniteSet(CountedAt(q)) /\ Cardinality(CountedAt(q)) \in Nat
      /\ Cardinality(CountedAt(q)) < ReaderMod
    BY <1>1, Finite, RcuAssumption
<1>3. r \in CountedAt(q) => Cardinality(CountedAt(q) \ {r}) = Cardinality(CountedAt(q)) - 1
    BY <1>2, FS_RemoveElement
<1>4. r \in CountedAt(q) => Cardinality(CountedAt(q)) # 0
    BY <1>2, FS_EmptySet
<1>5. r \notin CountedAt(q) => Cardinality(CountedAt(q) \cup {r}) = Cardinality(CountedAt(q)) + 1
    BY <1>2, FS_AddElement
<1>6. users[q].readers = Cardinality(CountedAt(q))
    BY DEF Holders
<1> QED
    BY <1>2, <1>3, <1>4, <1>5, <1>6

\* A step that adds a reader to those counted at its point, or takes it away.
LEMMA CountingReaderStep ==
    ASSUME RcuInvariant, NEW r \in Readers,
           CountIn(r) \/ Uncount(r) \/ LastUnlock(r)
    PROVE  RcuInvariant'
<1> USE DEF RStep
<1>0. TypeOK /\ Ring /\ Index /\ Holders
    BY DEF RcuInvariant
<1>1. UNCHANGED <<group_count, reader_idx, current_alloc_idx, writers_alloced, id_ctr,
                  next_to_retire, alloc_lock, dataVars, writerVars>>
    BY DEF CountIn, Uncount, LastUnlock
<1>2. PICK q0 \in 0..(group_count - 1) : q0 = qp[r]
    BY <1>0 DEF TypeOK
<1>3. PICK n \in {1, -1} : /\ users' = [users EXCEPT ![q0].readers = @ + n]
                           /\ n = 1 <=> CountIn(r)
    BY <1>2 DEF CountIn, Uncount, LastUnlock, AddReaders
<1>4. /\ r \in CountedAt(q0) <=> n = -1
      /\ r \in CountedAt(q0)' <=> n = 1
    <2>1. CASE CountIn(r)
        BY <1>0, <1>2, <1>3, <2>1 DEF CountIn, CountedAt, TypeOK
    <2>2. CASE Uncount(r) \/ LastUnlock(r)
        BY <1>0, <1>2, <1>3, <2>2 DEF Uncount, LastUnlock, CountIn, CountedAt, TypeOK
    <2> QED
        BY <2>1, <2>2
<1>5. \A s \in Readers \ {r} : /\ rpc'[s] = rpc[s] /\ qp'[s] = qp[s]
                               /\ depth'[s] = depth[s] /\ held'[s] = held[s]
    BY <1>0 DEF TypeOK, CountIn, Uncount, LastUnlock
<1>6. rpc[r] = "loaded" \/ rpc[r] = "back" \/ rpc[r] = "in"
    BY DEF CountIn, Uncount, LastUnlock
<1>7. /\ rpc'[r] # "in"
      /\ rpc'[r] = "counted" => qp'[r] = q0
      /\ rpc'[r] \in {"counted", "out", "retry"}
    BY <1>0, <1>2 DEF TypeOK, CountIn, Uncount, LastUnlock
<1>8. held'[r] = {}
    BY <1>0 DEF Holders, TypeOK, CountIn, Uncount, LastUnlock
<1>9. CountedAt(q0)' = IF n = 1 THEN CountedAt(q0) \cup {r} ELSE CountedAt(q0) \ {r}
    BY <1>3, <1>4, <1>5 DEF CountedAt
<1>10. \A q \in 0..(group_count - 1) : q # q0 => CountedAt(q)' = CountedAt(q)
    <2>1. \A q : q # q0 => r \notin CountedAt(q) /\ r \notin CountedAt(q)'
        BY <1>2, <1>6, <1>7 DEF CountedAt
    <2> QED
        BY <1>5, <2>1 DEF CountedAt
<1>11. users \in [0..(group_count - 1) -> [readers : Nat, id : 0..(IdMod - 1)]]
    BY <1>0 DEF TypeOK
<1>12. /\ users[q0].readers = Cardinality(CountedAt(q0))
       /\ Cardinality(CountedAt(q0)) \in Nat
       /\ Cardinality(CountedAt(q0)') = Cardinality(CountedAt(q0)) + n
       /\ users[q0].readers + n \in Nat
    <2>1. CASE n = 1
        <3>1. r \notin CountedAt(q0) /\ CountedAt(q0)' = CountedAt(q0) \cup {r}
            BY <1>4, <1>9, <2>1
        <3>2. /\ users[q0].readers = Cardinality(CountedAt(q0))
              /\ Cardinality(CountedAt(q0)) \in Nat
              /\ Cardinality(CountedAt(q0) \cup {r}) = Cardinality(CountedAt(q0)) + 1
            BY <1>0, <3>1, CountFacts
        <3> QED
            BY <2>1, <3>1, <3>2
    <2>2. CASE n = -1
        <3>1. r \in CountedAt(q0) /\ CountedAt(q0)' = CountedAt(q0) \ {r}
            BY <1>4, <1>9, <2>2
        <3>2. /\ users[q0].readers = Cardinality(CountedAt(q0))
              /\ Cardinality(CountedAt(q0)) \in Nat
              /\ Cardinality(CountedAt(q0)) >= 1
              /\ Cardinality(CountedAt(q0) \ {r}) = Cardinality(CountedAt(q0)) - 1
            BY <1>0, <3>1, CountFacts
        <3> QED
            BY <2>2, <3>1, <3>2
    <2> QED
        BY <2>1, <2>2
<1>13. /\ users' \in [0..(group_count - 1) -> [readers : Nat, id : 0..(IdMod - 1)]]
       /\ \A q \in 0..(group_count - 1) :
             /\ users'[q].id = users[q].id
             /\ users'[q].readers = IF q = q0 THEN users[q].readers + n ELSE users[q].readers
    BY <1>3, <1>11, <1>12
<1>14. \A q \in 0..(group_count - 1) : users'[q].readers = Cardinality(CountedAt(q)')
    <2>1. \A q \in 0..(group_count - 1) : users[q].readers = Cardinality(CountedAt(q))
        BY <1>0 DEF Holders
    <2> QED
        BY <1>10, <1>12, <1>13, <2>1
<1>15. TypeOK'
    <2>1. /\ rpc' \in [Readers -> {"out", "loaded", "counted", "back", "retry", "in"}]
          /\ qp' \in [Readers -> 0..(group_count - 1)]
          /\ depth' \in [Readers -> 0..MaxDepth]
          /\ held' \in [Readers -> SUBSET Objects]
        <3>1. 0 \in 0..(group_count - 1) /\ 0 \in 0..MaxDepth
            BY <1>0, GroupCount, RcuAssumption
        <3>2. CASE CountIn(r)
            BY <1>0, <3>2 DEF TypeOK, CountIn
        <3>3. CASE Uncount(r)
            BY <1>0, <3>1, <3>3 DEF TypeOK, Uncount
        <3>4. CASE LastUnlock(r)
            BY <1>0, <3>1, <3>4 DEF TypeOK, LastUnlock
        <3> QED
            BY <3>2, <3>3, <3>4
    <2> QED
        BY <1>0, <1>1, <1>13, <2>1 DEF TypeOK, dataVars, writerVars
<1>16. Holders'
    BY <1>0, <1>1, <1>5, <1>7, <1>8, <1>14, HoldersStep DEF writerVars
<1>17. Exclusion' /\ Ring' /\ Index' /\ Ownership' /\ Grace' /\ NoUseAfterFree'
    BY <1>1, <1>5, <1>8, <1>13, ReaderFrame
<1> QED
    BY <1>15, <1>16, <1>17 DEF RcuInvariant

-----------------------------------------------------------------------------
(* Writers: steps that move no object and no quiescent point               *)

\* Where a thread can be.
Places == {"idle", "sync"} \cup Updating \cup Synchronizing

\* A thread that takes or gives up the write lock, begins to synchronize, waits
\* or wakes.
LEMMA MovingWriterStep ==
    ASSUME RcuInvariant, NEW w \in Writers,
           \/ ossl_rcu_write_lock(w) \/ AssignFails(w) \/ ossl_rcu_write_unlock(w)
           \/ SynchronizeLater(w) \/ WaitForQp(w) \/ WaitForTurn(w) \/ SpuriousWakeup(w)
    PROVE  RcuInvariant'
<1> USE DEF WStep
<1>0. /\ TypeOK /\ Exclusion /\ Ring /\ Index /\ Holders /\ Ownership /\ Grace
      /\ NoUseAfterFree
    BY DEF RcuInvariant
<1>1. UNCHANGED <<lockVars, cb_items, uptr, live, readerVars, old, prev, cbs, wqp, wid>>
    BY DEF ossl_rcu_write_lock, AssignFails, ossl_rcu_write_unlock, SynchronizeLater,
           WaitForQp, WaitForTurn, SpuriousWakeup, dataVars
<1>2. wpc \in [Writers -> Places]
    BY <1>0 DEF TypeOK, Places
<1>3. PICK from \in Places, to \in Places :
         /\ wpc[w] = from /\ wpc' = [wpc EXCEPT ![w] = to]
         /\ \/ from = "idle" /\ to = "locked" /\ write_lock = {} /\ write_lock' = {w}
            \/ from = "locked" /\ to = "idle" /\ write_lock' = {}
            \/ from = "assigned" /\ to = "sync" /\ write_lock' = {}
            \/ from = "linked" /\ to = "idle" /\ write_lock' = {}
            \/ from = "idle" /\ to = "sync" /\ write_lock' = write_lock
            \/ from = "alloc" /\ to = "alloc_wait" /\ write_lock' = write_lock
            \/ from = "alloc_wait" /\ to = "alloc" /\ write_lock' = write_lock
            \/ from = "prior" /\ to = "prior_wait" /\ write_lock' = write_lock
            \/ from = "prior_wait" /\ to = "prior" /\ write_lock' = write_lock
    BY DEF ossl_rcu_write_lock, AssignFails, ossl_rcu_write_unlock, SynchronizeLater,
           WaitForQp, WaitForTurn, SpuriousWakeup, dataVars, Places, Updating, Synchronizing
<1>4. /\ wpc' \in [Writers -> Places]
      /\ wpc'[w] = to /\ \A v \in Writers \ {w} : wpc'[v] = wpc[v]
    BY <1>2, <1>3
<1>5. TypeOK'
    BY <1>0, <1>1, <1>3, <1>4 DEF TypeOK, lockVars, readerVars, Places
<1>6. SamePlaces
    BY <1>3, <1>4 DEF SamePlaces
<1>7. Exclusion'
    <2>1. Publishing' = Publishing /\ alloc_lock' = alloc_lock
        BY <1>1, <1>6 DEF Publishing, SamePlaces, lockVars
    <2>2. \A v \in Writers : wpc'[v] \in Updating => write_lock' = {v}
        BY <1>0, <1>3, <1>4 DEF Exclusion, Updating
    <2> QED
        BY <1>0, <2>1, <2>2 DEF Exclusion
<1>8. /\ Ring' /\ Index' /\ Outstanding' = Outstanding
      /\ \A v \in Writers : Age(v)' = Age(v)
    BY <1>0, <1>1, <1>6, RingFrame DEF lockVars
<1>9. Holders'
    BY <1>0, <1>1, <1>6, HoldersFrame DEF lockVars, readerVars
<1>10. Ownership' /\ \A v \in Writers : Resp(v)' = Resp(v)
    <2>1. \A v \in Writers :
             /\ wpc'[v] = "linking" <=> wpc[v] = "linking"
             /\ wpc'[v] = "assigned" => wpc[v] = "assigned"
             /\ wpc'[v] \in {"idle", "locked", "linked"} => wpc[v] \in {"idle", "locked", "linked"}
             /\ wpc'[v] \notin Synchronizing => wpc[v] \notin Synchronizing
        BY <1>3, <1>4 DEF Synchronizing
    <2>2. \A v \in Writers : /\ wpc[v] \in {"idle", "locked", "linked"} => old[v] = {}
                             /\ wpc[v] \notin Synchronizing => cbs[v] = {}
        BY <1>0 DEF Ownership
    <2> QED
        BY <1>0, <1>1, <2>1, <2>2, OwnershipFrame
<1>11. Grace'
    <2>1. \A v \in Outstanding : v \in Writers
        BY DEF Outstanding
    <2>2. \A v \in Writers : wpc'[v] \in Dangerous =>
             /\ wpc'[v] \in {"retire", "callbacks"} => wpc[v] \in {"retire", "callbacks"}
             /\ wpc'[v] \in {"spin", "prior", "prior_wait"} =>
                   wpc[v] \in {"spin", "prior", "prior_wait"}
        BY <1>3, <1>4 DEF Dangerous
    <2> QED
        BY <1>0, <1>1, <1>8, <1>10, <2>1, <2>2, GraceFrame DEF readerVars
<1>12. NoUseAfterFree'
    BY <1>0, <1>1 DEF NoUseAfterFree, readerVars
<1> QED
    BY <1>5, <1>7, <1>8, <1>9, <1>10, <1>11, <1>12 DEF RcuInvariant

-----------------------------------------------------------------------------
(* Writers: steps that move an object                                      *)

\* Such a step leaves the quiescent points and the readers alone, and no writer
\* that has moved the readers on is to free more than before.
LEMMA DataFrame ==
    ASSUME RcuInvariant, NEW w \in Writers, NEW to \in Places,
           wpc' = [wpc EXCEPT ![w] = to],
           {wpc[w], to} \cap {"publish", "spin", "prior", "prior_wait", "retire"} = {},
           to \in Updating => wpc[w] \in Updating,
           UNCHANGED <<lockVars, write_lock, readerVars, wqp, wid>>,
           uptr' \in Objects, live' \subseteq Objects, cb_items' \subseteq Objects,
           old' \in [Writers -> SUBSET Objects],
           prev' \in [Writers -> SUBSET Objects],
           cbs' \in [Writers -> SUBSET Objects],
           \A v \in Writers : wpc'[v] \in Dangerous =>
              wpc[v] = wpc'[v] /\ Resp(v)' \subseteq Resp(v)
    PROVE  TypeOK' /\ Exclusion' /\ Ring' /\ Index' /\ Holders' /\ Grace'
<1>0. TypeOK /\ Exclusion /\ Ring /\ Index /\ Holders /\ Grace
    BY DEF RcuInvariant
<1>1. wpc \in [Writers -> Places]
    BY <1>0 DEF TypeOK, Places
<1>2. /\ wpc' \in [Writers -> Places]
      /\ wpc'[w] = to /\ \A v \in Writers \ {w} : wpc'[v] = wpc[v]
    BY <1>1
<1>3. TypeOK'
    BY <1>0, <1>2 DEF TypeOK, lockVars, readerVars, Places
<1>4. SamePlaces
    BY <1>2 DEF SamePlaces
<1>5. Exclusion'
    <2>1. Publishing' = Publishing /\ alloc_lock' = alloc_lock
        BY <1>4 DEF Publishing, SamePlaces, lockVars
    <2>2. \A v \in Writers : wpc'[v] \in Updating => write_lock' = {v}
        BY <1>0, <1>2 DEF Exclusion
    <2> QED
        BY <1>0, <2>1, <2>2 DEF Exclusion
<1>6. /\ Ring' /\ Index' /\ Outstanding' = Outstanding
      /\ \A v \in Writers : Age(v)' = Age(v)
    BY <1>0, <1>4, RingFrame DEF lockVars
<1>7. Holders'
    BY <1>0, <1>4, HoldersFrame DEF lockVars, readerVars
<1>8. Grace'
    <2>1. \A v \in Outstanding : v \in Writers
        BY DEF Outstanding
    <2>2. \A v \in Writers, r \in Readers :
             (wpc'[v] \in Dangerous /\ held'[r] \cap Resp(v)' # {}) =>
                held[r] \cap Resp(v) # {} /\ qp'[r] = qp[r] /\ wpc[v] = wpc'[v]
        BY DEF readerVars
    <2> QED
        BY <1>0, <1>6, <2>1, <2>2, GraceFrame
<1> QED
    BY <1>3, <1>5, <1>6, <1>7, <1>8

\* A step that leaves alone what v has and who is linking what, or takes
\* callbacks from v, gives v nothing to free.
LEMMA RespShrinks ==
    ASSUME NEW v \in Writers, Own(v)' \subseteq Own(v), cbs'[v] \subseteq cbs[v],
           \A u \in Writers : (wpc'[u] = "linking" /\ old'[u] \subseteq cbs'[v]) =>
              wpc[u] = "linking" /\ old'[u] = old[u] /\ prev'[u] = prev[u]
    PROVE  Resp(v)' \subseteq Resp(v)
<1>1. Late(v)' \subseteq Late(v)
    BY DEF Late
<1> QED
    BY <1>1 DEF Resp

\* ossl_rcu_assign_uptr: the new object is nobody's, the old one becomes the writer's
\* own.
LEMMA AssignStep ==
    ASSUME RcuInvariant, NEW w \in Writers, ossl_rcu_assign_uptr(w)
    PROVE  RcuInvariant'
<1>0. TypeOK /\ Ownership /\ NoUseAfterFree
    BY DEF RcuInvariant
<1>1. PICK o \in Objects \ live : live' = live \cup {o} /\ uptr' = o
    BY DEF ossl_rcu_assign_uptr
<1>2. /\ wpc[w] = "locked" /\ wpc' = [wpc EXCEPT ![w] = "assigned"]
      /\ old' = [old EXCEPT ![w] = {uptr}]
      /\ UNCHANGED <<lockVars, cb_items, write_lock, readerVars, prev, cbs, wqp, wid>>
    BY DEF ossl_rcu_assign_uptr, WStep
<1>3. /\ wpc \in [Writers -> Places] /\ old \in [Writers -> SUBSET Objects]
      /\ prev \in [Writers -> SUBSET Objects] /\ cbs \in [Writers -> SUBSET Objects]
      /\ uptr \in Objects /\ live \subseteq Objects /\ cb_items \subseteq Objects
    BY <1>0 DEF TypeOK, Places
<1>4. /\ wpc'[w] = "assigned" /\ old'[w] = {uptr}
      /\ \A v \in Writers \ {w} : wpc'[v] = wpc[v] /\ old'[v] = old[v]
      /\ old' \in [Writers -> SUBSET Objects]
    BY <1>2, <1>3
<1>5. Own(w)' = {uptr} /\ \A v \in Writers \ {w} : Own(v)' = Own(v)
    BY <1>4 DEF Own
<1>6. \A v \in Writers \ {w} : Resp(v)' \subseteq Resp(v)
    BY <1>2, <1>4, <1>5, RespShrinks
<1>7. \A v \in Writers : wpc'[v] \in Dangerous => wpc[v] = wpc'[v] /\ Resp(v)' \subseteq Resp(v)
    BY <1>4, <1>6 DEF Dangerous
<1>8. "assigned" \in Places /\ "assigned" \in Updating /\ wpc[w] \in Updating
    BY <1>2 DEF Places, Updating
<1>9. TypeOK' /\ Exclusion' /\ Ring' /\ Index' /\ Holders' /\ Grace'
    BY <1>1, <1>2, <1>3, <1>4, <1>7, <1>8, DataFrame
<1>10. Ownership'
    <2>1. uptr' \in live' /\ uptr \in live /\ uptr # uptr'
        BY <1>0, <1>1 DEF Ownership
    <2>2. \A v \in Writers :
             Own(v) \cup cbs[v] \cup prev[v] \cup cb_items \subseteq live \ {uptr}
        BY <1>0 DEF Ownership
    <2>3. \A v \in Writers :
             /\ Own(v)' \cup cbs'[v] \cup prev'[v] \cup cb_items' \subseteq live' \ {uptr'}
             /\ (Own(v)' \cup cbs'[v] \cup prev'[v]) \cap cb_items' = {}
        <3>1. \A v \in Writers : (Own(v) \cup cbs[v] \cup prev[v]) \cap cb_items = {}
            BY <1>0 DEF Ownership
        <3> QED
            BY <1>1, <1>2, <1>5, <2>1, <2>2, <3>1
    <2>4. \A v \in Writers :
             /\ wpc'[v] \in {"assigned", "linking"} => old'[v] # {}
             /\ (wpc'[v] \in {"idle", "locked", "linked"}) => old'[v] = {}
             /\ wpc'[v] # "linking" => prev'[v] = {}
             /\ wpc'[v] \notin Synchronizing => cbs'[v] = {}
        BY <1>0, <1>2, <1>4 DEF Ownership, Synchronizing
    <2>5. \A v, u \in Writers :
             /\ v # u => Own(v)' \cap Own(u)' = {} /\ cbs'[v] \cap cbs'[u] = {}
             /\ Own(v)' \cap cbs'[u] = {} /\ Own(v)' \cap prev'[u] = {}
             /\ cbs'[v] \cap prev'[u] = {}
        <3>1. \A v, u \in Writers :
                 /\ v # u => Own(v) \cap Own(u) = {} /\ cbs[v] \cap cbs[u] = {}
                 /\ Own(v) \cap cbs[u] = {} /\ Own(v) \cap prev[u] = {}
                 /\ cbs[v] \cap prev[u] = {}
            BY <1>0 DEF Ownership
        <3> QED
            BY <1>2, <1>5, <2>2, <3>1
    <2> QED
        BY <2>1, <2>3, <2>4, <2>5 DEF Ownership
<1>11. NoUseAfterFree'
    BY <1>0, <1>1, <1>2 DEF NoUseAfterFree, readerVars
<1> QED
    BY <1>9, <1>10, <1>11 DEF RcuInvariant

\* What Ownership says, in the parts the steps below use.
LEMMA OwnershipFacts ==
    ASSUME Ownership
    PROVE  /\ uptr \in live
           /\ \A v \in Writers :
                 /\ Own(v) \cup cbs[v] \cup prev[v] \cup cb_items \subseteq live \ {uptr}
                 /\ (Own(v) \cup cbs[v] \cup prev[v]) \cap cb_items = {}
           /\ \A v \in Writers :
                 /\ wpc[v] \in {"assigned", "linking"} => old[v] # {}
                 /\ (wpc[v] \in {"idle", "locked", "linked"}) => old[v] = {}
                 /\ wpc[v] # "linking" => prev[v] = {}
                 /\ wpc[v] \notin Synchronizing => cbs[v] = {}
           /\ \A v, u \in Writers :
                 /\ v # u => Own(v) \cap Own(u) = {} /\ cbs[v] \cap cbs[u] = {}
                 /\ Own(v) \cap cbs[u] = {} /\ Own(v) \cap prev[u] = {}
                 /\ cbs[v] \cap prev[u] = {}
BY DEF Ownership

\* ossl_rcu_call: the writer's own object becomes the queue, and what was queued
\* waits to be linked to it.
LEMMA CallStep ==
    ASSUME RcuInvariant, NEW w \in Writers, ossl_rcu_call(w)
    PROVE  RcuInvariant'
<1>0. TypeOK /\ Ownership /\ NoUseAfterFree
    BY DEF RcuInvariant
<1>2. /\ wpc[w] = "assigned" /\ wpc' = [wpc EXCEPT ![w] = "linking"]
      /\ prev' = [prev EXCEPT ![w] = cb_items]
      /\ cb_items' = old[w]
      /\ UNCHANGED <<lockVars, write_lock, uptr, live, readerVars, old, cbs, wqp, wid>>
    BY DEF ossl_rcu_call, WStep
<1>3. /\ wpc \in [Writers -> Places] /\ old \in [Writers -> SUBSET Objects]
      /\ prev \in [Writers -> SUBSET Objects] /\ cbs \in [Writers -> SUBSET Objects]
      /\ uptr \in Objects /\ live \subseteq Objects /\ cb_items \subseteq Objects
    BY <1>0 DEF TypeOK, Places
<1>4. /\ wpc'[w] = "linking" /\ prev'[w] = cb_items
      /\ \A v \in Writers \ {w} : wpc'[v] = wpc[v] /\ prev'[v] = prev[v]
      /\ prev' \in [Writers -> SUBSET Objects]
    BY <1>2, <1>3
<1>5. /\ Own(w) = old[w] /\ Own(w)' = {} /\ old[w] # {}
      /\ \A v \in Writers \ {w} : Own(v)' = Own(v)
    BY <1>0, <1>2, <1>4 DEF Own, Ownership
<1>6. \A v \in Writers : Resp(v)' \subseteq Resp(v)
    <2>1. \A v \in Writers : old[w] \cap cbs[v] = {}
        BY <1>0, <1>5, OwnershipFacts
    <2>2. \A v \in Writers : ~ (old'[w] \subseteq cbs'[v])
        BY <1>2, <1>5, <2>1
    <2> QED
        BY <1>2, <1>4, <1>5, <2>2, RespShrinks
<1>7. \A v \in Writers : wpc'[v] \in Dangerous => wpc[v] = wpc'[v] /\ Resp(v)' \subseteq Resp(v)
    BY <1>4, <1>6 DEF Dangerous
<1>8. "linking" \in Places /\ "linking" \in Updating /\ wpc[w] \in Updating
    BY <1>2 DEF Places, Updating
<1>9. TypeOK' /\ Exclusion' /\ Ring' /\ Index' /\ Holders' /\ Grace'
    BY <1>2, <1>3, <1>4, <1>7, <1>8, DataFrame
<1>10. Ownership'
    <2>1. \A v \in Writers :
             /\ Own(v)' \cup cbs'[v] \cup prev'[v] \cup cb_items' \subseteq live' \ {uptr'}
             /\ (Own(v)' \cup cbs'[v] \cup prev'[v]) \cap cb_items' = {}
        <3>1. cbs[w] = {}
            BY <1>0, <1>2 DEF Ownership, Synchronizing
        <3>2. Own(w) \cap cb_items = {} /\ Own(w) \cup cb_items \subseteq live \ {uptr}
            BY <1>0, OwnershipFacts
        <3>3. /\ Own(w)' \cup cbs'[w] \cup prev'[w] \cup cb_items' \subseteq live' \ {uptr'}
              /\ (Own(w)' \cup cbs'[w] \cup prev'[w]) \cap cb_items' = {}
            BY <1>2, <1>4, <1>5, <3>1, <3>2
        <3>4. ASSUME NEW v \in Writers \ {w}
              PROVE  /\ Own(v)' \cup cbs'[v] \cup prev'[v] \cup cb_items' \subseteq live' \ {uptr'}
                     /\ (Own(v)' \cup cbs'[v] \cup prev'[v]) \cap cb_items' = {}
            <4>1. /\ Own(v) \cup cbs[v] \cup prev[v] \subseteq live \ {uptr}
                  /\ Own(v) \cap Own(w) = {} /\ Own(w) \cap cbs[v] = {}
                  /\ Own(w) \cap prev[v] = {}
                BY <1>0, OwnershipFacts
            <4> QED
                BY <1>2, <1>4, <1>5, <3>2, <4>1
        <3> QED
            BY <3>3, <3>4
    <2>2. \A v \in Writers :
             /\ wpc'[v] \in {"assigned", "linking"} => old'[v] # {}
             /\ (wpc'[v] \in {"idle", "locked", "linked"}) => old'[v] = {}
             /\ wpc'[v] # "linking" => prev'[v] = {}
             /\ wpc'[v] \notin Synchronizing => cbs'[v] = {}
        BY <1>0, <1>2, <1>4, <1>5 DEF Ownership, Synchronizing
    <2>3. \A v, u \in Writers :
             /\ v # u => Own(v)' \cap Own(u)' = {} /\ cbs'[v] \cap cbs'[u] = {}
             /\ Own(v)' \cap cbs'[u] = {} /\ Own(v)' \cap prev'[u] = {}
             /\ cbs'[v] \cap prev'[u] = {}
        BY <1>0, <1>2, <1>4, <1>5, OwnershipFacts
    <2> QED
        BY <1>0, <1>2, <2>1, <2>2, <2>3 DEF Ownership
<1>11. NoUseAfterFree'
    BY <1>0, <1>2 DEF NoUseAfterFree, readerVars
<1> QED
    BY <1>9, <1>10, <1>11 DEF RcuInvariant

\* The rest is linked where the new item is, which is at most one place.
LEMMA LinkStep ==
    ASSUME RcuInvariant, NEW w \in Writers, LinkRest(w)
    PROVE  RcuInvariant'
<1>0. TypeOK /\ Exclusion /\ Ownership /\ NoUseAfterFree
    BY DEF RcuInvariant
<1>1. PICK o \in SUBSET Objects, p \in SUBSET Objects : o = old[w] /\ p = prev[w]
    BY <1>0 DEF TypeOK
<1>2. /\ wpc[w] = "linking" /\ wpc' = [wpc EXCEPT ![w] = "linked"]
      /\ cb_items' = IF o \subseteq cb_items THEN cb_items \cup p ELSE cb_items
      /\ cbs' = [v \in Writers |-> IF o \subseteq cbs[v] THEN cbs[v] \cup p ELSE cbs[v]]
      /\ prev' = [prev EXCEPT ![w] = {}]
      /\ old' = [old EXCEPT ![w] = {}]
      /\ UNCHANGED <<lockVars, write_lock, uptr, live, readerVars, wqp, wid>>
    BY <1>1 DEF LinkRest, WStep
<1>3. /\ wpc \in [Writers -> Places] /\ old \in [Writers -> SUBSET Objects]
      /\ prev \in [Writers -> SUBSET Objects] /\ cbs \in [Writers -> SUBSET Objects]
      /\ uptr \in Objects /\ live \subseteq Objects /\ cb_items \subseteq Objects
    BY <1>0 DEF TypeOK, Places
<1>4. /\ wpc'[w] = "linked" /\ prev'[w] = {} /\ old'[w] = {}
      /\ \A v \in Writers \ {w} :
            wpc'[v] = wpc[v] /\ prev'[v] = prev[v] /\ old'[v] = old[v]
      /\ \A v \in Writers : cbs'[v] = IF o \subseteq cbs[v] THEN cbs[v] \cup p ELSE cbs[v]
      /\ prev' \in [Writers -> SUBSET Objects] /\ old' \in [Writers -> SUBSET Objects]
      /\ cbs' \in [Writers -> SUBSET Objects] /\ cb_items' \subseteq Objects
    BY <1>2, <1>3
<1>5. \A v \in Writers : Own(v)' = Own(v)
    BY <1>2, <1>4 DEF Own
<1>6. \A v \in Writers : prev'[v] = {} /\ wpc'[v] # "linking"
    <2>1. \A v \in Writers \ {w} : wpc[v] # "linking"
        BY <1>0, <1>2 DEF Exclusion, Updating
    <2> QED
        BY <1>0, <1>4, <2>1 DEF Ownership
<1>7. o # {}
    BY <1>0, <1>1, <1>2 DEF Ownership
<1>8. \A v \in Writers : Resp(v)' \subseteq Resp(v)
    <2>1. \A v \in Writers : Late(v)' = {}
        BY <1>6 DEF Late
    <2>2. \A v \in Writers : o \subseteq cbs[v] => p \subseteq Late(v)
        BY <1>1, <1>2 DEF Late
    <2> QED
        BY <1>4, <1>5, <2>1, <2>2 DEF Resp
<1>9. \A v \in Writers : wpc'[v] \in Dangerous => wpc[v] = wpc'[v] /\ Resp(v)' \subseteq Resp(v)
    BY <1>4, <1>8 DEF Dangerous
<1>10. "linked" \in Places /\ "linked" \in Updating /\ wpc[w] \in Updating
    BY <1>2 DEF Places, Updating
<1>11. TypeOK' /\ Exclusion' /\ Ring' /\ Index' /\ Holders' /\ Grace'
    BY <1>2, <1>3, <1>4, <1>9, <1>10, DataFrame
<1>12. Ownership'
    <2>1. \A v \in Writers : /\ p \cap Own(v) = {} /\ p \cap cbs[v] = {}
                             /\ p \cap cb_items = {} /\ p \subseteq live \ {uptr}
        BY <1>0, <1>1, OwnershipFacts
    <2>2. \A v \in Writers : ~ (o \subseteq cbs[v] /\ o \subseteq cb_items)
        <3>1. \A v \in Writers : cbs[v] \cap cb_items = {}
            BY <1>0, OwnershipFacts
        <3> QED
            BY <1>7, <3>1
    <2>3. \A v, u \in Writers : v # u => ~ (o \subseteq cbs[v] /\ o \subseteq cbs[u])
        <3>1. \A v, u \in Writers : v # u => cbs[v] \cap cbs[u] = {}
            BY <1>0, OwnershipFacts
        <3> QED
            BY <1>7, <3>1
    <2>4. \A v \in Writers :
             /\ Own(v)' \cup cbs'[v] \cup prev'[v] \cup cb_items' \subseteq live' \ {uptr'}
             /\ (Own(v)' \cup cbs'[v] \cup prev'[v]) \cap cb_items' = {}
        <3>1. \A v \in Writers :
                 /\ Own(v) \cup cbs[v] \cup prev[v] \cup cb_items \subseteq live \ {uptr}
                 /\ (Own(v) \cup cbs[v] \cup prev[v]) \cap cb_items = {}
            BY <1>0, OwnershipFacts
        <3> QED
            BY <1>2, <1>4, <1>5, <1>6, <2>1, <2>2, <3>1
    <2>5. \A v \in Writers :
             /\ wpc'[v] \in {"assigned", "linking"} => old'[v] # {}
             /\ (wpc'[v] \in {"idle", "locked", "linked"}) => old'[v] = {}
             /\ wpc'[v] # "linking" => prev'[v] = {}
             /\ wpc'[v] \notin Synchronizing => cbs'[v] = {}
        <3>1. \A v \in Writers : wpc'[v] \notin Synchronizing => cbs[v] = {}
            BY <1>0, <1>2, <1>4 DEF Ownership, Synchronizing
        <3>2. \A v \in Writers : wpc'[v] \notin Synchronizing => cbs'[v] = {}
            BY <1>4, <1>7, <3>1
        <3> QED
            BY <1>0, <1>4, <1>6, <3>2 DEF Ownership
    <2>6. \A v, u \in Writers :
             /\ v # u => Own(v)' \cap Own(u)' = {} /\ cbs'[v] \cap cbs'[u] = {}
             /\ Own(v)' \cap cbs'[u] = {} /\ Own(v)' \cap prev'[u] = {}
             /\ cbs'[v] \cap prev'[u] = {}
        <3>1. \A v, u \in Writers :
                 /\ v # u => Own(v) \cap Own(u) = {} /\ cbs[v] \cap cbs[u] = {}
                 /\ Own(v) \cap cbs[u] = {}
            BY <1>0, OwnershipFacts
        <3> QED
            BY <1>4, <1>5, <1>6, <2>1, <2>3, <3>1
    <2> QED
        BY <1>0, <1>2, <2>4, <2>5, <2>6 DEF Ownership
<1>13. NoUseAfterFree'
    BY <1>0, <1>2 DEF NoUseAfterFree, readerVars
<1> QED
    BY <1>11, <1>12, <1>13 DEF RcuInvariant

\* ossl_synchronize_rcu takes the queue before it moves the readers on.
LEMMA TakeStep ==
    ASSUME RcuInvariant, NEW w \in Writers, TakeCallbacks(w)
    PROVE  RcuInvariant'
<1>0. TypeOK /\ Ownership /\ NoUseAfterFree
    BY DEF RcuInvariant
<1>1. /\ wpc[w] = "sync" /\ wpc' = [wpc EXCEPT ![w] = "alloc"]
      /\ cbs' = [cbs EXCEPT ![w] = cb_items] /\ cb_items' = {}
      /\ UNCHANGED <<lockVars, write_lock, uptr, live, readerVars, old, prev, wqp, wid>>
    BY DEF TakeCallbacks, WStep
<1>2. /\ wpc \in [Writers -> Places] /\ old \in [Writers -> SUBSET Objects]
      /\ prev \in [Writers -> SUBSET Objects] /\ cbs \in [Writers -> SUBSET Objects]
      /\ uptr \in Objects /\ live \subseteq Objects /\ cb_items \subseteq Objects
    BY <1>0 DEF TypeOK, Places
<1>3. /\ wpc'[w] = "alloc" /\ cbs'[w] = cb_items
      /\ \A v \in Writers \ {w} : wpc'[v] = wpc[v] /\ cbs'[v] = cbs[v]
      /\ cbs' \in [Writers -> SUBSET Objects]
    BY <1>1, <1>2
<1>4. \A v \in Writers : Own(v)' = Own(v)
    BY <1>1, <1>3 DEF Own
<1>5. \A v \in Writers \ {w} : Resp(v)' \subseteq Resp(v)
    BY <1>1, <1>3, <1>4, RespShrinks
<1>6. \A v \in Writers : wpc'[v] \in Dangerous => wpc[v] = wpc'[v] /\ Resp(v)' \subseteq Resp(v)
    BY <1>3, <1>5 DEF Dangerous
<1>7. "alloc" \in Places /\ "alloc" \notin Updating
    BY DEF Places, Updating, Synchronizing
<1>8. TypeOK' /\ Exclusion' /\ Ring' /\ Index' /\ Holders' /\ Grace'
    BY <1>1, <1>2, <1>3, <1>6, <1>7, DataFrame
<1>9. Ownership'
    <2>1. \A v \in Writers :
             /\ Own(v)' \cup cbs'[v] \cup prev'[v] \cup cb_items' \subseteq live' \ {uptr'}
             /\ (Own(v)' \cup cbs'[v] \cup prev'[v]) \cap cb_items' = {}
        BY <1>0, <1>1, <1>3, <1>4, OwnershipFacts
    <2>2. \A v \in Writers :
             /\ wpc'[v] \in {"assigned", "linking"} => old'[v] # {}
             /\ (wpc'[v] \in {"idle", "locked", "linked"}) => old'[v] = {}
             /\ wpc'[v] # "linking" => prev'[v] = {}
             /\ wpc'[v] \notin Synchronizing => cbs'[v] = {}
        BY <1>0, <1>1, <1>3 DEF Ownership, Synchronizing
    <2>3. \A v, u \in Writers :
             /\ v # u => Own(v)' \cap Own(u)' = {} /\ cbs'[v] \cap cbs'[u] = {}
             /\ Own(v)' \cap cbs'[u] = {} /\ Own(v)' \cap prev'[u] = {}
             /\ cbs'[v] \cap prev'[u] = {}
        BY <1>0, <1>1, <1>3, <1>4, OwnershipFacts
    <2> QED
        BY <1>0, <1>1, <2>1, <2>2, <2>3 DEF Ownership
<1>10. NoUseAfterFree'
    BY <1>0, <1>1 DEF NoUseAfterFree, readerVars
<1> QED
    BY <1>8, <1>9, <1>10 DEF RcuInvariant

\* The two steps that free objects: gone are some that w alone is to free, and
\* w's turn has come.
LEMMA FreeingStep ==
    ASSUME RcuInvariant, NEW w \in Writers, NEW gone, NEW to \in {"callbacks", "idle"},
           wpc[w] = "callbacks", wpc' = [wpc EXCEPT ![w] = to],
           live' = live \ gone,
           \/ gone \subseteq cbs[w] /\ cbs' = [cbs EXCEPT ![w] = @ \ gone] /\ old' = old
              /\ to = "callbacks"
           \/ gone = old[w] /\ old' = [old EXCEPT ![w] = {}] /\ cbs' = cbs
              /\ cbs[w] = {} /\ to = "idle",
           UNCHANGED <<lockVars, cb_items, write_lock, uptr, readerVars, prev, wqp, wid>>
    PROVE  RcuInvariant'
<1>0. TypeOK /\ Ownership /\ NoUseAfterFree /\ Grace
    BY DEF RcuInvariant
<1>1. /\ wpc \in [Writers -> Places] /\ old \in [Writers -> SUBSET Objects]
      /\ prev \in [Writers -> SUBSET Objects] /\ cbs \in [Writers -> SUBSET Objects]
      /\ uptr \in Objects /\ live \subseteq Objects /\ cb_items \subseteq Objects
    BY <1>0 DEF TypeOK, Places
<1>2. /\ wpc'[w] = to /\ \A v \in Writers \ {w} : wpc'[v] = wpc[v]
      /\ cbs'[w] \subseteq cbs[w] /\ old'[w] \subseteq old[w]
      /\ \A v \in Writers \ {w} : cbs'[v] = cbs[v] /\ old'[v] = old[v]
      /\ cbs' \in [Writers -> SUBSET Objects] /\ old' \in [Writers -> SUBSET Objects]
    BY <1>1
<1>3. /\ Own(w) = old[w] /\ Own(w)' = old'[w]
      /\ \A v \in Writers \ {w} : Own(v)' = Own(v)
    BY <1>2 DEF Own
<1>4. gone \subseteq Own(w) \cup cbs[w] /\ gone \cap (Own(w)' \cup cbs'[w]) = {}
    <2>1. Own(w) \cap cbs[w] = {}
        BY <1>0, OwnershipFacts
    <2>2. CASE gone \subseteq cbs[w] /\ cbs' = [cbs EXCEPT ![w] = @ \ gone] /\ old' = old
        BY <1>1, <1>3, <2>1, <2>2
    <2>3. CASE gone = old[w] /\ old' = [old EXCEPT ![w] = {}] /\ cbs' = cbs /\ cbs[w] = {}
        BY <1>1, <1>3, <2>1, <2>3
    <2> QED
        BY <2>2, <2>3
<1>5. \A v \in Writers : Resp(v)' \subseteq Resp(v)
    <2>1. \A v \in Writers : Own(v)' \subseteq Own(v) /\ cbs'[v] \subseteq cbs[v]
        BY <1>2, <1>3
    <2>2. \A u \in Writers : wpc'[u] = "linking" => wpc[u] = "linking" /\ old'[u] = old[u]
        BY <1>2
    <2> QED
        BY <2>1, <2>2, RespShrinks
<1>6. \A v \in Writers : wpc'[v] \in Dangerous => wpc[v] = wpc'[v] /\ Resp(v)' \subseteq Resp(v)
    BY <1>2, <1>5 DEF Dangerous
<1>7. to \in Places /\ to \notin Updating
    BY DEF Places, Updating, Synchronizing
<1>8. TypeOK' /\ Exclusion' /\ Ring' /\ Index' /\ Holders' /\ Grace'
    BY <1>1, <1>2, <1>6, <1>7, DataFrame
<1>9. /\ uptr \notin gone /\ cb_items \cap gone = {}
      /\ \A v \in Writers : prev[v] \cap gone = {}
      /\ \A v \in Writers : (Own(v)' \cup cbs'[v]) \cap gone = {}
    <2>1. uptr \notin gone /\ cb_items \cap gone = {}
        BY <1>0, <1>4, OwnershipFacts
    <2>2. \A v \in Writers : prev[v] \cap gone = {}
        BY <1>0, <1>4, OwnershipFacts
    <2>3. ASSUME NEW v \in Writers \ {w} PROVE (Own(v)' \cup cbs'[v]) \cap gone = {}
        <3>1. /\ Own(v) \cap Own(w) = {} /\ Own(v) \cap cbs[w] = {}
              /\ cbs[v] \cap cbs[w] = {} /\ Own(w) \cap cbs[v] = {}
            BY <1>0, OwnershipFacts
        <3> QED
            BY <1>2, <1>3, <1>4, <3>1
    <2> QED
        BY <1>4, <2>1, <2>2, <2>3
<1>10. Ownership'
    <2>0. \A v \in Writers : Own(v)' \subseteq Own(v) /\ cbs'[v] \subseteq cbs[v]
        BY <1>2, <1>3
    <2>1. \A v \in Writers :
             /\ Own(v)' \cup cbs'[v] \cup prev'[v] \cup cb_items' \subseteq live' \ {uptr'}
             /\ (Own(v)' \cup cbs'[v] \cup prev'[v]) \cap cb_items' = {}
        <3>1. \A v \in Writers :
                 /\ Own(v) \cup cbs[v] \cup prev[v] \cup cb_items \subseteq live \ {uptr}
                 /\ (Own(v) \cup cbs[v] \cup prev[v]) \cap cb_items = {}
            BY <1>0, OwnershipFacts
        <3> QED
            BY <1>9, <2>0, <3>1
    <2>2. \A v \in Writers :
             /\ wpc'[v] \in {"assigned", "linking"} => old'[v] # {}
             /\ (wpc'[v] \in {"idle", "locked", "linked"}) => old'[v] = {}
             /\ wpc'[v] # "linking" => prev'[v] = {}
             /\ wpc'[v] \notin Synchronizing => cbs'[v] = {}
        <3>1. \A v \in Writers \ {w} :
             /\ wpc'[v] \in {"assigned", "linking"} => old'[v] # {}
             /\ (wpc'[v] \in {"idle", "locked", "linked"}) => old'[v] = {}
             /\ wpc'[v] # "linking" => prev'[v] = {}
             /\ wpc'[v] \notin Synchronizing => cbs'[v] = {}
            BY <1>0, <1>2, OwnershipFacts
        <3>2. prev[w] = {}
            BY <1>0, OwnershipFacts
        <3>3. to = "idle" => old'[w] = {} /\ cbs'[w] = {}
            BY <1>1
        <3>4. "callbacks" \in Synchronizing
            BY DEF Synchronizing
        <3> QED
            BY <1>2, <3>1, <3>2, <3>3, <3>4
    <2>3. \A v, u \in Writers :
             /\ v # u => Own(v)' \cap Own(u)' = {} /\ cbs'[v] \cap cbs'[u] = {}
             /\ Own(v)' \cap cbs'[u] = {} /\ Own(v)' \cap prev'[u] = {}
             /\ cbs'[v] \cap prev'[u] = {}
        <3>1. \A v, u \in Writers :
                 /\ v # u => Own(v) \cap Own(u) = {} /\ cbs[v] \cap cbs[u] = {}
                 /\ Own(v) \cap cbs[u] = {} /\ Own(v) \cap prev[u] = {}
                 /\ cbs[v] \cap prev[u] = {}
            BY <1>0, OwnershipFacts
        <3> QED
            BY <2>0, <3>1
    <2>4. uptr' \in live'
        BY <1>0, <1>9 DEF Ownership
    <2> QED
        BY <2>1, <2>2, <2>3, <2>4 DEF Ownership
<1>11. NoUseAfterFree'
    <2>1. \A r \in Readers : held[r] \cap Resp(w) = {}
        BY <1>0 DEF Grace
    <2>2. \A r \in Readers : held[r] \cap gone = {}
        BY <1>4, <2>1 DEF Resp
    <2> QED
        BY <1>0, <1>9, <2>2 DEF NoUseAfterFree, readerVars
<1> QED
    BY <1>8, <1>10, <1>11 DEF RcuInvariant

\* A callback frees one object.
LEMMA CallbackStep ==
    ASSUME RcuInvariant, NEW w \in Writers, RunCallback(w)
    PROVE  RcuInvariant'
<1>1. PICK o \in cbs[w] : live' = live \ {o} /\ cbs' = [cbs EXCEPT ![w] = @ \ {o}]
    BY DEF RunCallback
<1>2. /\ wpc[w] = "callbacks" /\ wpc' = wpc /\ old' = old
      /\ UNCHANGED <<lockVars, cb_items, write_lock, uptr, readerVars, prev, wqp, wid>>
    BY DEF RunCallback
<1>3. wpc' = [wpc EXCEPT ![w] = "callbacks"]
    BY <1>2 DEF RcuInvariant, TypeOK
<1> QED
    BY <1>1, <1>2, <1>3, FreeingStep

\* The writer frees its own.
LEMMA FreeOldStep ==
    ASSUME RcuInvariant, NEW w \in Writers, FreeOld(w)
    PROVE  RcuInvariant'
BY FreeingStep DEF FreeOld, WStep

-----------------------------------------------------------------------------
(* Writers: steps that give out quiescent points and take them back        *)

\* Such a step moves threads only within ossl_synchronize_rcu and leaves every
\* object where it is.
LEMMA SyncFrame ==
    ASSUME RcuInvariant,
           UNCHANGED <<dataVars, readerVars, old, prev, cbs>>,
           \A v \in Writers : wpc'[v] = wpc[v] \/ {wpc[v], wpc'[v]} \subseteq Synchronizing
    PROVE  /\ Ownership' /\ NoUseAfterFree'
           /\ \A v \in Writers : Resp(v)' = Resp(v)
           /\ \A v \in Writers : wpc'[v] \in Updating => write_lock' = {v}
<1>0. Exclusion /\ Ownership /\ NoUseAfterFree
    BY DEF RcuInvariant
<1>1. \A v \in Writers :
         /\ wpc'[v] = "linking" <=> wpc[v] = "linking"
         /\ wpc'[v] = "assigned" => wpc[v] = "assigned"
         /\ wpc'[v] \in {"idle", "locked", "linked"} => wpc[v] \in {"idle", "locked", "linked"}
         /\ wpc'[v] \notin Synchronizing => wpc[v] \notin Synchronizing
         /\ wpc'[v] \in Updating => wpc[v] \in Updating
    BY DEF Synchronizing, Updating
<1>2. \A v \in Writers : /\ wpc[v] \in {"idle", "locked", "linked"} => old[v] = {}
                         /\ wpc[v] \notin Synchronizing => cbs[v] = {}
    BY <1>0 DEF Ownership
<1>3. Ownership' /\ \A v \in Writers : Resp(v)' = Resp(v)
    BY <1>0, <1>1, <1>2, OwnershipFrame DEF dataVars
<1>4. NoUseAfterFree'
    BY <1>0 DEF NoUseAfterFree, dataVars, readerVars
<1> QED
    BY <1>0, <1>1, <1>3, <1>4 DEF Exclusion, dataVars

\* Where the outstanding quiescent points are.
LEMMA OutstandingFacts ==
    ASSUME TypeOK, Ring
    PROVE  /\ \A v \in Outstanding :
                 /\ v \in Writers /\ wqp[v] \in 0..(group_count - 1)
                 /\ Id(v) \in 0..(IdMod - 1)
                 /\ Age(v) \in Nat /\ Age(v) >= 1 /\ Age(v) <= Cardinality(Outstanding)
                 /\ Age(v) = Dist(Id(v), id_ctr, IdMod)
                 /\ Dist(wqp[v], current_alloc_idx, group_count) = Age(v)
                 /\ wqp[v] # current_alloc_idx
           /\ \A u, v \in Outstanding : Age(u) = Age(v) => u = v
           /\ \A u, v \in Outstanding : wqp[u] = wqp[v] => u = v
<1>1. \A v \in Outstanding : v \in Writers
    BY DEF Outstanding
<1>2. \A v \in Writers : wqp[v] \in 0..(group_count - 1) /\ Id(v) \in 0..(IdMod - 1)
    BY DEF TypeOK, Id
<1>3. \A v \in Outstanding : /\ Age(v) \in 1..Cardinality(Outstanding)
                             /\ Dist(wqp[v], current_alloc_idx, group_count) = Age(v)
    BY DEF Ring
<1>4. Cardinality(Outstanding) \in Nat /\ group_count \in Nat
      /\ current_alloc_idx \in 0..(group_count - 1)
    BY OutstandingBound, GroupCount DEF TypeOK
<1>5. \A v \in Outstanding : wqp[v] # current_alloc_idx
    BY <1>1, <1>2, <1>3, <1>4 DEF Dist
<1>6. \A u, v \in Outstanding : Age(u) = Age(v) => u = v
    BY DEF Ring
<1>7. \A u, v \in Outstanding : wqp[u] = wqp[v] => u = v
    BY <1>3, <1>6
<1>8. \A v \in Outstanding : Age(v) \in Nat /\ Age(v) >= 1 /\ Age(v) <= Cardinality(Outstanding)
    BY <1>3, <1>4
<1> QED
    BY <1>1, <1>2, <1>3, <1>5, <1>6, <1>7, <1>8 DEF Age

\* Steps within the places between update_qp and RetireInOrder.
LEMMA RingKept ==
    ASSUME TypeOK, Ring,
           UNCHANGED <<group_count, current_alloc_idx, writers_alloced, id_ctr,
                       next_to_retire, users, wqp>>,
           Outstanding' = Outstanding, Allocated' = Allocated,
           \A v \in Outstanding : wpc'[v] \in {"prior", "prior_wait"} => wid'[v] = Id(v)
    PROVE  Ring' /\ \A v : Age(v)' = Age(v)
<1>1. \A v : Id(v)' = Id(v) /\ Age(v)' = Age(v)
    BY DEF Id, Age, Dist
<1>2. Ring'
    BY <1>1 DEF Ring, Dist
<1> QED
    BY <1>1, <1>2

\* A step of w that sends alloc_signal moves at most one more thread, which waits
\* for a quiescent point.
LEMMA SignalStep ==
    ASSUME TypeOK, NEW w \in Writers, NEW to \in Places, to # "alloc_wait",
           wpc' \in Signal([wpc EXCEPT ![w] = to])
    PROVE  /\ wpc' \in [Writers -> Places] /\ wpc'[w] = to
           /\ \A v \in Writers \ {w} : \/ wpc'[v] = wpc[v]
                                       \/ wpc[v] = "alloc_wait" /\ wpc'[v] = "alloc"
<1>1. wpc \in [Writers -> Places]
    BY DEF TypeOK, Places
<1>2. PICK pc \in [Writers -> Places] : pc = [wpc EXCEPT ![w] = to]
    BY <1>1
<1>3. wpc' \in Signal(pc)
    BY <1>2
<1>4. /\ wpc' \in [Writers -> Places]
      /\ \A v \in Writers : \/ wpc'[v] = pc[v]
                            \/ pc[v] = "alloc_wait" /\ wpc'[v] = "alloc"
    BY <1>2, <1>3 DEF Signal, Places, Synchronizing
<1> QED
    BY <1>1, <1>2, <1>4

\* update_qp: everybody else becomes older by one, on both rings.
LEMMA UpdateStep ==
    ASSUME RcuInvariant, NEW w \in Writers, update_qp(w)
    PROVE  RcuInvariant'
<1>0. TypeOK /\ Exclusion /\ Ring /\ Index /\ Holders /\ Ownership /\ Grace
    BY DEF RcuInvariant
<1>1. PICK q \in 0..(group_count - 1), i \in 0..(IdMod - 1), n \in Nat :
         /\ q = current_alloc_idx /\ i = id_ctr /\ n = Cardinality(Outstanding)
         /\ n + 2 <= group_count /\ group_count - writers_alloced >= 2
    <2>1. current_alloc_idx \in 0..(group_count - 1) /\ id_ctr \in 0..(IdMod - 1)
          /\ writers_alloced \in Nat
        BY <1>0 DEF TypeOK
    <2>2. group_count - writers_alloced >= 2
        BY DEF update_qp
    <2> QED
        BY <1>0, <2>1, <2>2, OutstandingBound, GroupCount
<1>2. /\ alloc_lock = {} /\ wpc[w] = "alloc" /\ wpc' = [wpc EXCEPT ![w] = "publish"]
      /\ alloc_lock' = {w} /\ wqp' = [wqp EXCEPT ![w] = q]
      /\ writers_alloced' = writers_alloced + 1
      /\ current_alloc_idx' = Inc(q, group_count)
      /\ id_ctr' = Inc(i, IdMod)
      /\ users' = [users EXCEPT ![q].id = i]
      /\ UNCHANGED <<group_count, reader_idx, next_to_retire, dataVars,
                     readerVars, old, prev, cbs, wid>>
    BY <1>1 DEF update_qp, WStep
<1>3. group_count \in Nat /\ group_count >= 2 /\ group_count <= IdMod /\ IdMod \in Nat
    BY <1>0, GroupCount
<1>4. /\ wpc \in [Writers -> Places] /\ wqp \in [Writers -> 0..(group_count - 1)]
      /\ users \in [0..(group_count - 1) -> [readers : Nat, id : 0..(IdMod - 1)]]
      /\ writers_alloced \in Nat /\ next_to_retire \in 0..(IdMod - 1)
    BY <1>0 DEF TypeOK, Places
<1>5. /\ wpc'[w] = "publish" /\ wqp'[w] = q
      /\ \A v \in Writers \ {w} : wpc'[v] = wpc[v] /\ wqp'[v] = wqp[v]
      /\ wpc' \in [Writers -> Places] /\ wqp' \in [Writers -> 0..(group_count - 1)]
      /\ users' \in [0..(group_count - 1) -> [readers : Nat, id : 0..(IdMod - 1)]]
      /\ users'[q].id = i
      /\ \A p \in 0..(group_count - 1) : /\ users'[p].readers = users[p].readers
                                         /\ p # q => users'[p].id = users[p].id
    BY <1>1, <1>2, <1>4 DEF Places, Synchronizing
<1>6. TypeOK'
    <2>1. Inc(q, group_count) \in 0..(group_count - 1) /\ Inc(i, IdMod) \in 0..(IdMod - 1)
        BY <1>1, <1>3, DistFacts
    <2>2. writers_alloced' \in Nat
        BY <1>2, <1>4
    <2>3. /\ {reader_idx', current_alloc_idx'} \subseteq 0..(group_count' - 1)
          /\ id_ctr' \in 0..(IdMod - 1) /\ alloc_lock' \subseteq Writers
        BY <1>0, <1>2, <2>1 DEF TypeOK
    <2>4. UNCHANGED <<group_count, next_to_retire, dataVars, readerVars, old, prev, cbs, wid>>
        BY <1>2
    <2> QED
        BY <1>0, <1>5, <2>2, <2>3, <2>4 DEF TypeOK, dataVars, readerVars, Places
<1>7. /\ w \notin Outstanding /\ w \notin Allocated /\ Publishing = {}
      /\ Outstanding' = Outstanding \cup {w} /\ Allocated' = Allocated \cup {w}
      /\ Publishing' = {w}
    <2>1. Publishing = {}
        BY <1>0, <1>2 DEF Exclusion
    <2> QED
        BY <1>2, <1>5, <2>1 DEF Outstanding, Allocated, Publishing
<1>8. /\ Cardinality(Outstanding') = n + 1
      /\ Cardinality(Allocated') = Cardinality(Allocated) + 1
    <2>1. Outstanding \in SUBSET Writers /\ Allocated \in SUBSET Writers
        BY DEF Outstanding, Allocated
    <2> QED
        BY <1>1, <1>7, <2>1, Finite, FS_AddElement
<1>9. /\ Ownership' /\ NoUseAfterFree'
      /\ \A v \in Writers : Resp(v)' = Resp(v)
      /\ \A v \in Writers : wpc'[v] \in Updating => write_lock' = {v}
    <2>1. \A v \in Writers : wpc'[v] = wpc[v] \/ {wpc[v], wpc'[v]} \subseteq Synchronizing
        BY <1>2, <1>5 DEF Synchronizing
    <2> QED
        BY <1>2, <2>1, SyncFrame
<1>10. Exclusion'
    BY <1>2, <1>7, <1>9 DEF Exclusion
<1>11. \A v \in Outstanding : /\ Id(v)' = Id(v) /\ Age(v)' = Age(v) + 1
                              /\ wqp'[v] = wqp[v]
                              /\ Dist(wqp[v], Inc(q, group_count), group_count) = Age(v) + 1
    <2>1. SUFFICES ASSUME NEW v \in Outstanding
                   PROVE  /\ Id(v)' = Id(v) /\ Age(v)' = Age(v) + 1
                          /\ wqp'[v] = wqp[v]
                          /\ Dist(wqp[v], Inc(q, group_count), group_count) = Age(v) + 1
        OBVIOUS
    <2>2. /\ v \in Writers /\ v # w /\ wqp[v] \in 0..(group_count - 1)
          /\ Id(v) \in 0..(IdMod - 1) /\ Age(v) \in Nat /\ Age(v) <= n
          /\ Dist(Id(v), i, IdMod) = Age(v)
          /\ Dist(wqp[v], q, group_count) = Age(v)
          /\ wqp[v] # q
        BY <1>0, <1>1, <1>7, OutstandingFacts
    <2>3. wqp'[v] = wqp[v] /\ Id(v)' = Id(v)
        BY <1>5, <2>2 DEF Id
    <2>4. Dist(wqp[v], q, group_count) + 1 < group_count /\ Dist(Id(v), i, IdMod) + 1 < IdMod
        BY <1>1, <1>3, <2>2
    <2>5. Dist(wqp[v], Inc(q, group_count), group_count) = Age(v) + 1
        BY <1>3, <2>2, <2>4, DistAhead
    <2>6. Dist(Id(v), Inc(i, IdMod), IdMod) = Age(v) + 1
        BY <1>3, <2>2, <2>4, DistAhead
    <2>7. Age(v)' = Dist(Id(v), Inc(i, IdMod), IdMod)
        BY <1>2, <2>3 DEF Age, Dist
    <2> QED
        BY <2>3, <2>5, <2>6, <2>7
<1>12. /\ Id(w)' = i /\ Age(w)' = 1
       /\ Dist(q, Inc(q, group_count), group_count) = 1
    <2>1. Id(w)' = i
        BY <1>5 DEF Id
    <2>2. Dist(i, Inc(i, IdMod), IdMod) = 1
        BY <1>1, <1>3, DistOne
    <2>3. Age(w)' = Dist(i, Inc(i, IdMod), IdMod)
        BY <1>2, <2>1 DEF Age, Dist
    <2> QED
        BY <1>1, <1>3, <2>1, <2>2, <2>3, DistOne
<1>13. Ring'
    <2>1. writers_alloced' = Cardinality(Allocated') /\ writers_alloced' < group_count'
        <3>1. writers_alloced = Cardinality(Allocated)
            BY <1>0 DEF Ring
        <3> QED
            BY <1>1, <1>2, <1>3, <1>4, <1>8, <3>1
    <2>2. Dist(next_to_retire', id_ctr', IdMod) = Cardinality(Outstanding')
        <3>1. Dist(next_to_retire, i, IdMod) = n
            BY <1>0, <1>1 DEF Ring
        <3>2. n + 1 < IdMod
            BY <1>1, <1>3
        <3>3. Dist(next_to_retire, Inc(i, IdMod), IdMod) = n + 1
            BY <1>1, <1>3, <1>4, <3>1, <3>2, DistAhead
        <3> QED
            BY <1>2, <1>8, <3>3 DEF Dist
    <2>3. \A v \in Outstanding : Age(v) \in Nat /\ Age(v) >= 1 /\ Age(v) <= n /\ v \in Writers
        BY <1>0, <1>1, OutstandingFacts
    <2>4. \A v \in Outstanding' : Age(v)' \in 1..Cardinality(Outstanding')
        BY <1>1, <1>7, <1>8, <1>11, <1>12, <2>3
    <2>5. \A v \in Outstanding' : Dist(wqp'[v], current_alloc_idx', group_count') = Age(v)'
        BY <1>2, <1>5, <1>7, <1>11, <1>12
    <2>6. \A v \in Outstanding' : wpc'[v] \in {"prior", "prior_wait"} => wid'[v] = Id(v)'
        <3>1. \A v \in Outstanding : wpc[v] \in {"prior", "prior_wait"} => wid[v] = Id(v)
            BY <1>0 DEF Ring
        <3> QED
            BY <1>2, <1>5, <1>7, <1>11, <2>3, <3>1
    <2>7. \A u, v \in Outstanding' : Age(u)' = Age(v)' => u = v
        <3>1. \A u, v \in Outstanding : Age(u) = Age(v) => u = v
            BY <1>0 DEF Ring
        <3> QED
            BY <1>7, <1>11, <1>12, <2>3, <3>1
    <2> QED
        BY <2>1, <2>2, <2>4, <2>5, <2>6, <2>7 DEF Ring
<1>14. Index'
    BY <1>0, <1>1, <1>2, <1>5, <1>7, <1>12 DEF Index
<1>15. Holders'
    <2>1. \A p : CountedAt(p)' = CountedAt(p)
        BY <1>2 DEF CountedAt, readerVars
    <2>2. \A p \in 0..(group_count - 1) : users'[p].readers = Cardinality(CountedAt(p)')
        BY <1>0, <1>5, <2>1 DEF Holders
    <2>3. \A r \in Readers :
             /\ held[r] # {} => rpc[r] = "in"
             /\ rpc[r] = "in" => /\ depth[r] >= 1
                                 /\ \/ qp[r] = reader_idx
                                    \/ \E v \in Outstanding' : qp[r] = wqp'[v]
        BY <1>0, <1>7, <1>11 DEF Holders
    <2>4. \A r \in Readers, v \in Writers :
             (rpc[r] = "in" /\ wpc'[v] \in {"prior", "prior_wait"}) => qp[r] # wqp'[v]
        <3>1. \A r \in Readers, v \in Writers :
                 (rpc[r] = "in" /\ wpc[v] \in {"prior", "prior_wait"}) => qp[r] # wqp[v]
            BY <1>0 DEF Holders
        <3> QED
            BY <1>5, <3>1
    <2> QED
        BY <1>2, <2>2, <2>3, <2>4 DEF Holders, readerVars
<1>16. Grace'
    <2>1. \A v \in Writers : wpc'[v] \in Dangerous => wpc'[v] = wpc[v]
        BY <1>5 DEF Dangerous
    <2>2. \A v \in Writers, r \in Readers :
             (wpc'[v] \in Dangerous /\ held'[r] \cap Resp(v)' # {}) =>
                held[r] \cap Resp(v) # {} /\ qp'[r] = qp[r] /\ wpc'[v] = wpc[v]
        BY <1>2, <1>9, <2>1 DEF readerVars
    <2>3. \A v \in Outstanding : v \in Outstanding' /\ wqp'[v] = wqp[v]
        BY <1>7, <1>11
    <2>4. \A u, v \in Outstanding : Age(u) >= Age(v) => Age(u)' >= Age(v)'
        BY <1>0, <1>11, OutstandingFacts
    <2> QED
        BY <1>0, <2>2, <2>3, <2>4, GraceFrame
<1> QED
    BY <1>6, <1>9, <1>10, <1>13, <1>14, <1>15, <1>16 DEF RcuInvariant

\* The readers are moved on: one that has a hold is at the new writer's point or
\* an older one.
LEMMA PublishStep ==
    ASSUME RcuInvariant, NEW w \in Writers, PublishIndex(w)
    PROVE  RcuInvariant'
<1>0. TypeOK /\ Exclusion /\ Ring /\ Index /\ Holders /\ Ownership /\ Grace
    BY DEF RcuInvariant
<1>1. /\ wpc[w] = "publish" /\ wpc' \in Signal([wpc EXCEPT ![w] = "spin"])
      /\ reader_idx' = current_alloc_idx /\ alloc_lock' = {}
      /\ UNCHANGED <<group_count, current_alloc_idx, writers_alloced, id_ctr,
                     next_to_retire, users, dataVars, readerVars, old, prev, cbs, wqp, wid>>
    BY DEF PublishIndex
<1>2. /\ wpc' \in [Writers -> Places] /\ wpc'[w] = "spin"
      /\ \A v \in Writers \ {w} : \/ wpc'[v] = wpc[v]
                                  \/ wpc[v] = "alloc_wait" /\ wpc'[v] = "alloc"
    BY <1>0, <1>1, SignalStep DEF Places, Synchronizing
<1>3. TypeOK'
    BY <1>0, <1>1, <1>2 DEF TypeOK, dataVars, readerVars, Places
<1>4. /\ Outstanding' = Outstanding /\ Allocated' = Allocated
      /\ Publishing = {w} /\ Publishing' = {} /\ w \in Outstanding
    <2>1. Publishing = {w}
        BY <1>0, <1>1 DEF Exclusion, Publishing
    <2> QED
        BY <1>1, <1>2, <2>1 DEF Outstanding, Allocated, Publishing
<1>5. /\ Ownership' /\ NoUseAfterFree'
      /\ \A v \in Writers : Resp(v)' = Resp(v)
      /\ \A v \in Writers : wpc'[v] \in Updating => write_lock' = {v}
    <2>1. \A v \in Writers : wpc'[v] = wpc[v] \/ {wpc[v], wpc'[v]} \subseteq Synchronizing
        BY <1>1, <1>2 DEF Synchronizing
    <2> QED
        BY <1>1, <2>1, SyncFrame
<1>6. Exclusion'
    BY <1>1, <1>4, <1>5 DEF Exclusion
<1>7. Ring' /\ \A v : Age(v)' = Age(v)
    <2>1. \A v \in Outstanding : wpc[v] \in {"prior", "prior_wait"} => wid[v] = Id(v)
        BY <1>0 DEF Ring
    <2>2. \A v \in Outstanding : wpc'[v] \in {"prior", "prior_wait"} => wid'[v] = Id(v)
        BY <1>1, <1>2, <2>1 DEF Outstanding
    <2> QED
        BY <1>0, <1>1, <1>4, <2>2, RingKept
<1>8. Index'
    BY <1>1, <1>4 DEF Index
<1>9. reader_idx = wqp[w] /\ Age(w) = 1
    BY <1>0, <1>4 DEF Index
<1>10. \A r \in Readers : rpc[r] = "in" =>
          depth[r] >= 1 /\ \E v \in Outstanding : qp[r] = wqp[v]
    BY <1>0, <1>4, <1>9 DEF Holders
<1>11. Holders'
    <2>1. \A q : CountedAt(q)' = CountedAt(q)
        BY <1>1 DEF CountedAt, readerVars
    <2>2. \A q \in 0..(group_count' - 1) : users'[q].readers = Cardinality(CountedAt(q)')
        BY <1>0, <1>1, <2>1 DEF Holders
    <2>3. \A r \in Readers, v \in Writers :
             (rpc[r] = "in" /\ wpc'[v] \in {"prior", "prior_wait"}) => qp[r] # wqp[v]
        <3>1. \A v \in Writers : wpc'[v] \in {"prior", "prior_wait"} => wpc'[v] = wpc[v]
            BY <1>2
        <3> QED
            BY <1>0, <3>1 DEF Holders
    <2>4. \A r \in Readers : held[r] # {} => rpc[r] = "in"
        BY <1>0 DEF Holders
    <2>5. UNCHANGED <<rpc, qp, depth, held, wqp>>
        BY <1>1 DEF readerVars
    <2> QED
        BY <1>4, <1>10, <2>2, <2>3, <2>4, <2>5 DEF Holders
<1>12. Grace'
    <2>1. SUFFICES ASSUME NEW v \in Writers, NEW r \in Readers, held[r] \cap Resp(v) # {}
                   PROVE  /\ wpc'[v] \notin {"retire", "callbacks"}
                          /\ wpc'[v] \in {"spin", "prior", "prior_wait"} =>
                                \E u \in Outstanding : qp[r] = wqp[u] /\ Age(u) >= Age(v)
        BY <1>1, <1>4, <1>5, <1>7 DEF Grace, readerVars
    <2>2. CASE v = w
        <3>1. rpc[r] = "in"
            BY <1>0, <2>1 DEF Holders
        <3>2. PICK u \in Outstanding : qp[r] = wqp[u]
            BY <1>10, <3>1
        <3>3. Age(u) >= 1
            BY <1>0, OutstandingFacts
        <3> QED
            BY <1>2, <1>9, <2>2, <3>2, <3>3
    <2>3. CASE v # w
        <3>1. wpc'[v] \in Dangerous => wpc'[v] = wpc[v]
            BY <1>2, <2>3 DEF Dangerous
        <3> QED
            BY <1>0, <2>1, <3>1 DEF Grace, Dangerous
    <2> QED
        BY <2>2, <2>3
<1> QED
    BY <1>3, <1>5, <1>6, <1>7, <1>8, <1>11, <1>12 DEF RcuInvariant

\* A count of zero means that nobody is counted there, as there are fewer readers
\* than the count can hold.
LEMMA AwaitStep ==
    ASSUME RcuInvariant, NEW w \in Writers, AwaitReaders(w)
    PROVE  RcuInvariant'
<1>0. TypeOK /\ Exclusion /\ Ring /\ Index /\ Holders /\ Ownership /\ Grace
    BY DEF RcuInvariant
<1>1. /\ users[wqp[w]].readers % ReaderMod = 0
      /\ wpc[w] = "spin" /\ wpc' = [wpc EXCEPT ![w] = "prior"]
      /\ wid' = [wid EXCEPT ![w] = Id(w)]
      /\ UNCHANGED <<lockVars, dataVars, readerVars, old, prev, cbs, wqp>>
    BY DEF AwaitReaders, WStep, Id
<1>2. /\ wpc \in [Writers -> Places] /\ wid \in [Writers -> 0..(IdMod - 1)]
      /\ wqp[w] \in 0..(group_count - 1) /\ Id(w) \in 0..(IdMod - 1)
    BY <1>0 DEF TypeOK, Places, Id
<1>3. /\ wpc' \in [Writers -> Places] /\ wid' \in [Writers -> 0..(IdMod - 1)]
      /\ wpc'[w] = "prior" /\ wid'[w] = Id(w)
      /\ \A v \in Writers \ {w} : wpc'[v] = wpc[v] /\ wid'[v] = wid[v]
    BY <1>1, <1>2 DEF Places, Synchronizing
<1>4. TypeOK'
    BY <1>0, <1>1, <1>3 DEF TypeOK, lockVars, dataVars, readerVars, Places
<1>5. Outstanding' = Outstanding /\ Allocated' = Allocated /\ Publishing' = Publishing
    BY <1>1, <1>3 DEF Outstanding, Allocated, Publishing
<1>6. /\ Ownership' /\ NoUseAfterFree'
      /\ \A v \in Writers : Resp(v)' = Resp(v)
      /\ \A v \in Writers : wpc'[v] \in Updating => write_lock' = {v}
    <2>1. \A v \in Writers : wpc'[v] = wpc[v] \/ {wpc[v], wpc'[v]} \subseteq Synchronizing
        BY <1>1, <1>3 DEF Synchronizing
    <2> QED
        BY <1>1, <2>1, SyncFrame
<1>7. Exclusion'
    BY <1>0, <1>1, <1>5, <1>6 DEF Exclusion, lockVars
<1>8. Ring' /\ \A v : Age(v)' = Age(v)
    <2>1. \A v \in Outstanding : wpc[v] \in {"prior", "prior_wait"} => wid[v] = Id(v)
        BY <1>0 DEF Ring
    <2>2. \A v \in Outstanding : wpc'[v] \in {"prior", "prior_wait"} => wid'[v] = Id(v)
        BY <1>3, <2>1 DEF Outstanding
    <2> QED
        BY <1>0, <1>1, <1>5, <2>2, RingKept DEF lockVars
<1>9. Index'
    BY <1>0, <1>1, <1>5, <1>8 DEF Index, lockVars
<1>10. CountedAt(wqp[w]) = {}
    <2>1. PICK n \in Nat : /\ n = Cardinality(CountedAt(wqp[w]))
                           /\ n = users[wqp[w]].readers /\ n < ReaderMod
        <3>1. CountedAt(wqp[w]) \in SUBSET Readers
            BY DEF CountedAt
        <3>2. users[wqp[w]].readers = Cardinality(CountedAt(wqp[w]))
            BY <1>0, <1>2 DEF Holders
        <3> QED
            BY <3>1, <3>2, Finite, RcuAssumption
    <2>2. n % ReaderMod = n
        BY <2>1, RcuAssumption
    <2>3. n = 0
        BY <1>1, <2>1, <2>2
    <2>4. IsFiniteSet(CountedAt(wqp[w]))
        <3>1. CountedAt(wqp[w]) \in SUBSET Readers
            BY DEF CountedAt
        <3> QED
            BY <3>1, Finite
    <2> QED
        BY <2>1, <2>3, <2>4, FS_EmptySet
<1>11. Holders'
    <2>1. \A q : CountedAt(q)' = CountedAt(q)
        BY <1>1 DEF CountedAt, readerVars
    <2>2. \A r \in Readers : rpc[r] = "in" => qp[r] # wqp[w]
        BY <1>10 DEF CountedAt
    <2>3. \A r \in Readers, v \in Writers :
             (rpc[r] = "in" /\ wpc'[v] \in {"prior", "prior_wait"}) => qp[r] # wqp[v]
        BY <1>0, <1>3, <2>2 DEF Holders
    <2>4. UNCHANGED <<group_count, reader_idx, users, rpc, qp, depth, held, wqp>>
        BY <1>1 DEF lockVars, readerVars
    <2> QED
        BY <1>0, <1>5, <2>1, <2>3, <2>4 DEF Holders
<1>12. Grace'
    <2>1. \A v \in Writers : wpc'[v] \in Dangerous =>
             /\ wpc'[v] \in {"retire", "callbacks"} => wpc[v] \in {"retire", "callbacks"}
             /\ wpc'[v] \in {"spin", "prior", "prior_wait"} =>
                   wpc[v] \in {"spin", "prior", "prior_wait"}
        BY <1>1, <1>3 DEF Dangerous
    <2> QED
        BY <1>0, <1>1, <1>5, <1>6, <1>8, <2>1, GraceFrame DEF readerVars
<1> QED
    BY <1>4, <1>6, <1>7, <1>8, <1>9, <1>11, <1>12 DEF RcuInvariant

\* The writer whose turn it is has the oldest point, so no reader is in its way.
LEMMA InOrderStep ==
    ASSUME RcuInvariant, NEW w \in Writers, RetireInOrder(w)
    PROVE  RcuInvariant'
<1>0. TypeOK /\ Exclusion /\ Ring /\ Index /\ Holders /\ Ownership /\ Grace
    BY DEF RcuInvariant
<1>1. /\ wpc[w] = "prior" /\ next_to_retire = wid[w]
      /\ wid' = [wid EXCEPT ![w] = 0]
      /\ next_to_retire' = Inc(next_to_retire, IdMod)
      /\ wpc' = [v \in Writers |-> IF v = w THEN "retire"
                                   ELSE IF wpc[v] = "prior_wait" THEN "prior" ELSE wpc[v]]
      /\ UNCHANGED <<group_count, reader_idx, current_alloc_idx, writers_alloced, id_ctr,
                     users, alloc_lock, dataVars, readerVars, old, prev, cbs, wqp>>
    BY DEF RetireInOrder
<1>2. /\ wpc \in [Writers -> Places] /\ wid \in [Writers -> 0..(IdMod - 1)]
      /\ next_to_retire \in 0..(IdMod - 1) /\ id_ctr \in 0..(IdMod - 1)
      /\ IdMod \in Nat /\ 0 \in 0..(IdMod - 1)
    <2>1. IdMod \in Nat /\ IdMod >= 2
        BY <1>0, GroupCount
    <2> QED
        BY <1>0, <2>1 DEF TypeOK, Places
<1>3. /\ wpc' \in [Writers -> Places] /\ wid' \in [Writers -> 0..(IdMod - 1)]
      /\ wpc'[w] = "retire" /\ \A v \in Writers \ {w} : wid'[v] = wid[v]
      /\ \A v \in Writers \ {w} : \/ wpc'[v] = wpc[v]
                                  \/ wpc[v] = "prior_wait" /\ wpc'[v] = "prior"
    BY <1>1, <1>2 DEF Places, Synchronizing
<1>4. /\ w \in Outstanding /\ Outstanding' = Outstanding \ {w}
      /\ Allocated' = Allocated /\ Publishing' = Publishing /\ w \notin Publishing
    BY <1>1, <1>3 DEF Outstanding, Allocated, Publishing
<1>5. PICK n \in Nat : /\ n = Cardinality(Outstanding) /\ n >= 1
                       /\ Cardinality(Outstanding \ {w}) = n - 1
    <2>1. IsFiniteSet(Outstanding) /\ Cardinality(Outstanding) \in Nat
        <3>1. Outstanding \in SUBSET Writers
            BY DEF Outstanding
        <3> QED
            BY <3>1, Finite
    <2>2. Cardinality(Outstanding \ {w}) = Cardinality(Outstanding) - 1
        BY <1>4, <2>1, FS_RemoveElement
    <2>3. Cardinality(Outstanding) # 0
        BY <1>4, <2>1, FS_EmptySet
    <2> QED
        BY <2>1, <2>2, <2>3
\* w is the oldest,
<1>6. Age(w) = n /\ Dist(next_to_retire, id_ctr, IdMod) = n
    <2>1. Dist(next_to_retire, id_ctr, IdMod) = n /\ wid[w] = Id(w)
        BY <1>0, <1>1, <1>4, <1>5 DEF Ring
    <2> QED
        BY <1>1, <2>1 DEF Age
\* and the next oldest is next.
<1>7. /\ next_to_retire' \in 0..(IdMod - 1)
      /\ Dist(next_to_retire', id_ctr, IdMod) = n - 1
    <2>1. next_to_retire # id_ctr
        BY <1>2, <1>5, <1>6 DEF Dist
    <2> QED
        BY <1>1, <1>2, <1>6, <2>1, DistBehind
<1>8. TypeOK'
    BY <1>0, <1>1, <1>3, <1>7 DEF TypeOK, dataVars, readerVars, Places
<1>9. /\ Ownership' /\ NoUseAfterFree'
      /\ \A v \in Writers : Resp(v)' = Resp(v)
      /\ \A v \in Writers : wpc'[v] \in Updating => write_lock' = {v}
    <2>1. \A v \in Writers : wpc'[v] = wpc[v] \/ {wpc[v], wpc'[v]} \subseteq Synchronizing
        BY <1>1, <1>3 DEF Synchronizing
    <2> QED
        BY <1>1, <2>1, SyncFrame
<1>10. Exclusion'
    BY <1>0, <1>1, <1>4, <1>9 DEF Exclusion
<1>11. \A v : Id(v)' = Id(v) /\ Age(v)' = Age(v)
    BY <1>1 DEF Id, Age, Dist
<1>12. Ring'
    <2>1. \A v \in Outstanding \ {w} :
             /\ Age(v) \in 1..(n - 1)
             /\ Dist(wqp[v], current_alloc_idx, group_count) = Age(v)
        <3>1. \A v \in Outstanding :
                 /\ Age(v) \in Nat /\ Age(v) >= 1 /\ Age(v) <= n
                 /\ Dist(wqp[v], current_alloc_idx, group_count) = Age(v)
            BY <1>0, <1>5, OutstandingFacts
        <3>2. \A v \in Outstanding \ {w} : Age(v) # n
            BY <1>4, <1>6, <1>0, OutstandingFacts
        <3> QED
            BY <3>1, <3>2
    <2>2. \A v \in Outstanding \ {w} : wpc'[v] \in {"prior", "prior_wait"} => wid'[v] = Id(v)
        <3>1. \A v \in Outstanding : /\ v \in Writers
                                     /\ wpc[v] \in {"prior", "prior_wait"} => wid[v] = Id(v)
            BY <1>0 DEF Ring, Outstanding
        <3> QED
            BY <1>3, <3>1
    <2>3. \A u, v \in Outstanding \ {w} : Age(u) = Age(v) => u = v
        BY <1>0, OutstandingFacts
    <2>4. writers_alloced' = Cardinality(Allocated') /\ writers_alloced' < group_count'
        BY <1>0, <1>1, <1>4 DEF Ring
    <2> QED
        BY <1>1, <1>4, <1>5, <1>7, <1>11, <2>1, <2>2, <2>3, <2>4 DEF Ring
<1>13. Index'
    BY <1>0, <1>1, <1>4, <1>11 DEF Index
<1>14. \A r \in Readers : /\ held[r] # {} => rpc[r] = "in"
                          /\ rpc[r] = "in" => qp[r] # wqp[w]
    BY <1>0, <1>1 DEF Holders
<1>15. Holders'
    <2>1. \A q : CountedAt(q)' = CountedAt(q)
        BY <1>1 DEF CountedAt, readerVars
    <2>2. \A r \in Readers, v \in Writers :
             (rpc[r] = "in" /\ wpc'[v] \in {"prior", "prior_wait"}) => qp[r] # wqp[v]
        <3>1. \A v \in Writers :
                 wpc'[v] \in {"prior", "prior_wait"} => wpc[v] \in {"prior", "prior_wait"}
            BY <1>3
        <3> QED
            BY <1>0, <3>1 DEF Holders
    <2>3. \A r \in Readers :
             /\ held[r] # {} => rpc[r] = "in"
             /\ rpc[r] = "in" => /\ depth[r] >= 1
                                 /\ \/ qp[r] = reader_idx
                                    \/ \E v \in Outstanding \ {w} : qp[r] = wqp[v]
        BY <1>0, <1>14 DEF Holders
    <2>4. UNCHANGED <<group_count, reader_idx, users, rpc, qp, depth, held, wqp>>
        BY <1>1 DEF readerVars
    <2>5. \A q \in 0..(group_count - 1) : users[q].readers = Cardinality(CountedAt(q))
        BY <1>0 DEF Holders
    <2> QED
        BY <1>4, <2>1, <2>2, <2>3, <2>4, <2>5 DEF Holders
<1>16. Grace'
    <2>1. SUFFICES ASSUME NEW v \in Writers, NEW r \in Readers, held[r] \cap Resp(v) # {}
                   PROVE  /\ wpc'[v] \notin {"retire", "callbacks"}
                          /\ wpc'[v] \in {"spin", "prior", "prior_wait"} =>
                                \E u \in Outstanding \ {w} : qp[r] = wqp[u] /\ Age(u) >= Age(v)
        BY <1>1, <1>4, <1>9, <1>11 DEF Grace, readerVars
    <2>2. qp[r] # wqp[w]
        BY <1>14, <2>1
    <2>3. v # w
        <3>1. SUFFICES ASSUME v = w PROVE FALSE
            OBVIOUS
        <3>2. PICK u \in Outstanding : qp[r] = wqp[u] /\ Age(u) >= Age(w)
            BY <1>0, <1>1, <2>1, <3>1 DEF Grace
        <3>3. Age(u) = Age(w)
            BY <1>0, <1>5, <1>6, <3>2, OutstandingFacts
        <3>4. u = w
            BY <1>0, <1>4, <3>3, OutstandingFacts
        <3> QED
            BY <2>2, <3>2, <3>4
    <2>4. /\ wpc'[v] \in {"retire", "callbacks"} => wpc[v] \in {"retire", "callbacks"}
          /\ wpc'[v] \in {"spin", "prior", "prior_wait"} =>
                wpc[v] \in {"spin", "prior", "prior_wait"}
        BY <1>3, <2>3
    <2> QED
        BY <1>0, <2>1, <2>2, <2>4 DEF Grace
<1> QED
    BY <1>8, <1>9, <1>10, <1>12, <1>13, <1>15, <1>16 DEF RcuInvariant

\* retire_qp: a point that is no longer outstanding is given back.
LEMMA RetireStep ==
    ASSUME RcuInvariant, NEW w \in Writers, retire_qp(w)
    PROVE  RcuInvariant'
<1>0. TypeOK /\ Exclusion /\ Ring /\ Index /\ Holders /\ Ownership /\ Grace
    BY DEF RcuInvariant
<1>1. /\ wpc[w] = "retire" /\ wpc' \in Signal([wpc EXCEPT ![w] = "callbacks"])
      /\ wqp' = [wqp EXCEPT ![w] = 0]
      /\ writers_alloced' = writers_alloced - 1
      /\ UNCHANGED <<group_count, reader_idx, current_alloc_idx, id_ctr,
                     next_to_retire, users, alloc_lock, dataVars, readerVars, old, prev,
                     cbs, wid>>
    BY DEF retire_qp
<1>2. /\ wpc' \in [Writers -> Places] /\ wpc'[w] = "callbacks"
      /\ \A v \in Writers \ {w} : \/ wpc'[v] = wpc[v]
                                  \/ wpc[v] = "alloc_wait" /\ wpc'[v] = "alloc"
    BY <1>0, <1>1, SignalStep DEF Places, Synchronizing
<1>3. /\ wqp' \in [Writers -> 0..(group_count - 1)]
      /\ \A v \in Writers \ {w} : wqp'[v] = wqp[v]
    <2>1. wqp \in [Writers -> 0..(group_count - 1)]
        BY <1>0 DEF TypeOK
    <2>2. 0 \in 0..(group_count - 1)
        BY <1>0, GroupCount
    <2> QED
        BY <1>1, <2>1, <2>2
<1>4. /\ Outstanding' = Outstanding /\ Publishing' = Publishing
      /\ w \notin Outstanding /\ w \notin Publishing
      /\ w \in Allocated /\ Allocated' = Allocated \ {w}
    BY <1>1, <1>2 DEF Outstanding, Allocated, Publishing
<1>5. PICK n \in Nat : /\ n = writers_alloced /\ n >= 1 /\ n < group_count
                       /\ Cardinality(Allocated') = n - 1
    <2>1. IsFiniteSet(Allocated) /\ Cardinality(Allocated) \in Nat
        <3>1. Allocated \in SUBSET Writers
            BY DEF Allocated
        <3> QED
            BY <3>1, Finite
    <2>2. Cardinality(Allocated \ {w}) = Cardinality(Allocated) - 1
        BY <1>4, <2>1, FS_RemoveElement
    <2>3. Cardinality(Allocated) # 0
        BY <1>4, <2>1, FS_EmptySet
    <2>4. writers_alloced = Cardinality(Allocated) /\ writers_alloced < group_count
        BY <1>0 DEF Ring
    <2> QED
        BY <1>4, <2>1, <2>2, <2>3, <2>4
<1>6. TypeOK'
    <2>1. writers_alloced' \in Nat
        BY <1>1, <1>5
    <2> QED
        BY <1>0, <1>1, <1>2, <1>3, <2>1 DEF TypeOK, dataVars, readerVars, Places
<1>7. /\ Ownership' /\ NoUseAfterFree'
      /\ \A v \in Writers : Resp(v)' = Resp(v)
      /\ \A v \in Writers : wpc'[v] \in Updating => write_lock' = {v}
    <2>1. \A v \in Writers : wpc'[v] = wpc[v] \/ {wpc[v], wpc'[v]} \subseteq Synchronizing
        BY <1>1, <1>2 DEF Synchronizing
    <2> QED
        BY <1>1, <2>1, SyncFrame
<1>8. Exclusion'
    BY <1>0, <1>1, <1>4, <1>7 DEF Exclusion
<1>9. \A v \in Outstanding : /\ v \in Writers /\ wqp'[v] = wqp[v]
                             /\ Id(v)' = Id(v) /\ Age(v)' = Age(v)
    <2>1. \A v \in Outstanding : v \in Writers /\ wqp'[v] = wqp[v]
        BY <1>3, <1>4 DEF Outstanding
    <2> QED
        BY <1>1, <2>1 DEF Id, Age, Dist
<1>10. Ring'
    <2>1. writers_alloced' = Cardinality(Allocated') /\ writers_alloced' < group_count'
        BY <1>0, <1>1, <1>5, GroupCount
    <2>2. Dist(next_to_retire', id_ctr', IdMod) = Cardinality(Outstanding')
        BY <1>0, <1>1, <1>4 DEF Ring, Dist
    <2>3. \A v \in Outstanding :
             /\ Age(v)' \in 1..Cardinality(Outstanding)
             /\ Dist(wqp'[v], current_alloc_idx', group_count') = Age(v)'
        BY <1>0, <1>1, <1>9 DEF Ring
    <2>4. \A v \in Outstanding : wpc'[v] \in {"prior", "prior_wait"} => wid'[v] = Id(v)'
        <3>1. \A v \in Outstanding : wpc[v] \in {"prior", "prior_wait"} => wid[v] = Id(v)
            BY <1>0 DEF Ring
        <3> QED
            BY <1>1, <1>2, <1>4, <1>9, <3>1
    <2>5. \A u, v \in Outstanding : Age(u)' = Age(v)' => u = v
        BY <1>0, <1>9 DEF Ring
    <2> QED
        BY <1>4, <2>1, <2>2, <2>3, <2>4, <2>5 DEF Ring
<1>11. Index'
    <2>1. \A v \in Publishing : v \in Outstanding
        BY DEF Publishing, Outstanding
    <2> QED
        BY <1>0, <1>1, <1>4, <1>9, <2>1 DEF Index
<1>12. Holders'
    <2>1. \A q : CountedAt(q)' = CountedAt(q)
        BY <1>1 DEF CountedAt, readerVars
    <2>2. \A r \in Readers, v \in Writers :
             (rpc[r] = "in" /\ wpc'[v] \in {"prior", "prior_wait"}) => qp[r] # wqp'[v]
        <3>1. \A v \in Writers : wpc'[v] \in {"prior", "prior_wait"} =>
                 wpc[v] = wpc'[v] /\ wqp'[v] = wqp[v]
            BY <1>2, <1>3
        <3> QED
            BY <1>0, <3>1 DEF Holders
    <2>3. \A r \in Readers :
             /\ held[r] # {} => rpc[r] = "in"
             /\ rpc[r] = "in" => /\ depth[r] >= 1
                                 /\ \/ qp[r] = reader_idx
                                    \/ \E v \in Outstanding : qp[r] = wqp'[v]
        BY <1>0, <1>9 DEF Holders
    <2>4. UNCHANGED <<group_count, reader_idx, users, rpc, qp, depth, held>>
        BY <1>1 DEF readerVars
    <2>5. \A q \in 0..(group_count - 1) : users[q].readers = Cardinality(CountedAt(q))
        BY <1>0 DEF Holders
    <2> QED
        BY <1>4, <2>1, <2>2, <2>3, <2>4, <2>5 DEF Holders
<1>13. Grace'
    <2>1. \A v \in Writers : wpc'[v] \in Dangerous =>
             /\ wpc'[v] \in {"retire", "callbacks"} => wpc[v] \in {"retire", "callbacks"}
             /\ wpc'[v] \in {"spin", "prior", "prior_wait"} =>
                   wpc[v] \in {"spin", "prior", "prior_wait"}
        BY <1>1, <1>2 DEF Dangerous
    <2>2. held' = held /\ qp' = qp
        BY <1>1 DEF readerVars
    <2> QED
        BY <1>0, <1>4, <1>7, <1>9, <2>1, <2>2, GraceFrame
<1> QED
    BY <1>6, <1>7, <1>8, <1>10, <1>11, <1>12, <1>13 DEF RcuInvariant

-----------------------------------------------------------------------------
(* The theorems                                                            *)

\* A new lock has the invariant.
LEMMA InitInvariant ==
    ASSUME Init
    PROVE  RcuInvariant
<1>1. TypeOK
    <2>1. group_count \in {n + 1 : n \in NumWriters} /\ group_count \in Nat /\ group_count >= 2
          /\ IdMod \in Nat /\ IdMod >= 2
        BY RcuAssumption DEF Init
    <2>2. 0 \in 0..(group_count - 1) /\ 0 \in 0..(IdMod - 1) /\ 0 \in 0..MaxDepth
        BY <2>1, RcuAssumption
    <2>3. users \in [0..(group_count - 1) -> [readers : Nat, id : 0..(IdMod - 1)]]
        BY <2>2 DEF Init
    <2> QED
        BY <2>1, <2>2, <2>3 DEF Init, TypeOK
<1>2. \A w \in Writers : wpc[w] = "idle" /\ old[w] = {} /\ prev[w] = {} /\ cbs[w] = {}
    BY DEF Init
<1>3. Allocated = {} /\ Outstanding = {} /\ Publishing = {}
    BY <1>2 DEF Allocated, Outstanding, Publishing
<1>4. Cardinality({}) = 0
    BY FS_EmptySet
<1>5. Exclusion
    BY <1>2, <1>3 DEF Init, Exclusion, Updating
<1>6. Ring
    <2>1. 0 < group_count
        BY <1>1, GroupCount
    <2>2. Dist(0, 0, IdMod) = 0
        BY DEF Dist
    <2> QED
        BY <1>3, <1>4, <2>1, <2>2 DEF Init, Ring
<1>7. Index
    BY <1>3 DEF Init, Index
<1>8. Holders
    <2>1. \A r \in Readers : rpc[r] = "out" /\ held[r] = {}
        BY DEF Init
    <2>2. \A q \in 0..(group_count - 1) : CountedAt(q) = {} /\ users[q].readers = 0
        BY <2>1 DEF Init, CountedAt
    <2> QED
        BY <1>4, <2>1, <2>2 DEF Holders
<1>9. Ownership
    <2>1. \A w \in Writers : Own(w) = {}
        BY <1>2 DEF Own
    <2>2. uptr \in live /\ cb_items = {}
        BY DEF Init
    <2> QED
        BY <1>2, <2>1, <2>2 DEF Ownership
<1>10. Grace /\ NoUseAfterFree
    BY DEF Init, Grace, NoUseAfterFree
<1> QED
    BY <1>1, <1>5, <1>6, <1>7, <1>8, <1>9, <1>10 DEF RcuInvariant

\* Every step, and none, keeps the invariant.
LEMMA NextInvariant ==
    ASSUME RcuInvariant, [Next]_vars
    PROVE  RcuInvariant'
<1>1. ASSUME NEW r \in Readers, ReaderStep(r) \/ NestedLock(r) \/ ossl_rcu_uptr_deref(r)
                                \/ LoadIndex(r)
      PROVE  RcuInvariant'
    BY <1>1, QuietReaderStep, CountingReaderStep DEF ReaderStep
<1>2. ASSUME NEW w \in Writers, \/ WriterStep(w) \/ ossl_rcu_write_lock(w)
                                \/ SynchronizeLater(w) \/ SpuriousWakeup(w)
      PROVE  RcuInvariant'
    BY <1>2, MovingWriterStep, AssignStep, CallStep, LinkStep, TakeStep, UpdateStep,
       PublishStep, AwaitStep, InOrderStep, RetireStep, CallbackStep, FreeOldStep
       DEF WriterStep
<1>3. CASE UNCHANGED vars
    <2>1. UNCHANGED <<group_count, reader_idx, current_alloc_idx, writers_alloced, id_ctr,
                      next_to_retire, users, alloc_lock, cb_items, write_lock, uptr, live,
                      rpc, qp, depth, held, wpc, old, prev, cbs, wqp, wid>>
        BY <1>3 DEF vars, lockVars, dataVars, readerVars, writerVars
    <2>2. TypeOK /\ Holders
        BY DEF RcuInvariant
    <2>3. TypeOK'
        BY <2>1, <2>2 DEF TypeOK
    <2>4. Holders'
        BY <2>1, <2>2, HoldersFrame DEF SamePlaces
    <2>5. Exclusion' /\ Ring' /\ Index' /\ Ownership' /\ Grace' /\ NoUseAfterFree'
        BY <2>1, ReaderFrame DEF dataVars, writerVars
    <2> QED
        BY <2>3, <2>4, <2>5 DEF RcuInvariant
<1> QED
    BY <1>1, <1>2, <1>3 DEF Next

\* The writers exclude each other, the quiescent points given out form the end
\* of a ring in the order of their IDs, readers are counted where they are sent
\* or at a point not yet retired, every object has one place, and no reader is
\* in the way of a writer whose turn has come.
THEOREM RcuInvariantHolds == Spec => []RcuInvariant
<1>1. Init => RcuInvariant
    BY InitInvariant
<1>2. RcuInvariant /\ [Next]_vars => RcuInvariant'
    BY NextInvariant
<1> QED
    BY <1>1, <1>2, PTL DEF Spec

\* What a reader has got from ossl_rcu_uptr_deref and may still use was not
\* freed: ossl_synchronize_rcu returns, and runs callbacks, only when it is safe
\* to free what was replaced before.
THEOREM RcuNoUseAfterFree == Spec => []NoUseAfterFree
<1>1. RcuInvariant => NoUseAfterFree
    BY DEF RcuInvariant
<1> QED
    BY <1>1, RcuInvariantHolds, PTL

=============================================================================
