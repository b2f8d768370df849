-------------------------- MODULE AsyncJobs_proofs --------------------------
(***************************************************************************)
(* Proofs about AsyncJobs, for any number of clients, jobs and descriptors *)
(* and any limit of the pool: every job that was not lost is in one place, *)
(* the functions and their contexts do not disturb one another, and the    *)
(* clients wait for the descriptors that are registered.                   *)
(***************************************************************************)
EXTENDS AsyncJobs, FiniteSetTheorems, TLAPS

-----------------------------------------------------------------------------
(* The inductive invariant *)

JobRecord == [status : {"none", "RUNNING", "PAUSED", "STOPPING"},
              funcargs : Calls \cup {Top}, stack : Calls \cup {Top},
              waitctx : Clients \cup {NoClient}, libctx : LibCtxs \cup {Top}]
Entry == [key : Keys, add : BOOLEAN, del : BOOLEAN]
PoolRecord == [ready : BOOLEAN, jobs : Seq(Jobs), curr_size : Nat, max_size : Nat]

Types ==
    /\ job \in [Jobs -> JobRecord]
    /\ pool \in PoolRecord /\ room \in Nat /\ reserve \in Nat
    /\ currjob \in Jobs \cup {NoJob} /\ caller \in Clients \cup {NoClient}
    /\ currjob = NoJob <=> caller = NoClient
    /\ blocked \in 0..MaxBlocked
    /\ handle \in [Clients -> Jobs \cup {NoJob}]
    /\ round \in [Clients -> {0, 1}]
    /\ answer \in [Clients -> Calls \cup {Top}]
    /\ default \in LibCtxs /\ libctx \in LibCtxs /\ appctx \in LibCtxs
    /\ jobctx \in [Clients -> LibCtxs]
    /\ fds \in [Clients -> SUBSET Entry]
    /\ num \in [Clients -> [add : Nat, del : Nat]]
    /\ watched \in [Clients -> SUBSET Keys]

\* The three places a job can be in.
Pooled == ToSet(pool.jobs)
Held(c) == c # caller /\ handle[c] # NoJob
SomePlace(j) == j \in Pooled \/ j = currjob \/ \E c \in Clients : Held(c) /\ handle[c] = j
Missing == lost \cup leaked

Injective(s) == \A m, n \in 1 .. Len(s) : s[m] = s[n] => m = n

\* A job in the pool is at the head of its loop; a paused one is in the middle of
\* the call its client has a handle for, in the context that call chose.
Placed ==
    /\ Injective(pool.jobs)
    /\ \A j \in Pooled : j \in Allocated /\ j # currjob /\ job[j].stack = Top
    /\ \A c \in Clients : Held(c) =>
          /\ handle[c] \in Allocated /\ handle[c] \notin Pooled /\ handle[c] # currjob
          /\ job[handle[c]].stack = <<c, round[c]>>
          /\ job[handle[c]].waitctx = c
          /\ job[handle[c]].libctx = jobctx[c]
          /\ \A d \in Clients : Held(d) /\ handle[d] = handle[c] => d = c
    /\ \A j \in Jobs \ Allocated : job[j] = Unallocated

\* The jobs that are somewhere are the allocated ones that were not lost.
Located ==
    /\ Missing \subseteq Allocated /\ lost \cap leaked = {}
    /\ \A j \in Jobs : SomePlace(j) <=> j \in Allocated /\ j \notin Missing

\* The stack has at least the storage it was made with, and it was made with too
\* little for the limit if the pool lost a job.
Stored ==
    /\ reserve <= room
    /\ lost # {} => pool.max_size = 0 \/ reserve < pool.max_size

Counted ==
    /\ pool.curr_size = Cardinality(Allocated \ leaked)
    /\ pool.max_size > 0 => pool.curr_size <= pool.max_size
    /\ ~pool.ready => Allocated \ leaked = {}

\* The running call, and what it gives back to the application.
Serving ==
    /\ Running => /\ currjob \in Allocated
                  /\ job[currjob].stack = <<caller, round[caller]>>
                  /\ job[currjob].waitctx = caller
                  /\ default = jobctx[caller] /\ libctx = appctx
                  /\ handle[caller] \in {NoJob, currjob}
    /\ ~Running => default = appctx
    /\ \A c \in Clients : answer[c] \in {Top, <<c, round[c]>>}

\* The descriptors of one client: what is not marked is there once; what is
\* marked has outlived a reset; and the changes lead from what the client waits
\* for to what its function has registered.
LiveIn(f) == {e \in f : ~e.del}
AddIn(f) == {e \in f : e.add /\ ~e.del}
DelIn(f) == {e \in f : e.del /\ ~e.add}
KeysOf(S) == {e.key : e \in S}

WaitCtx(f, w, n) ==
    /\ \A e \in f : ~(e.add /\ e.del)
    /\ \A e, g \in LiveIn(f) : e.key = g.key => e = g
    /\ \A e \in LiveIn(f), g \in DelIn(f) : e.key = g.key => e.add
    /\ (w \ KeysOf(DelIn(f))) \cup KeysOf(AddIn(f)) = KeysOf(LiveIn(f))
    /\ IsFiniteSet(AddIn(f)) /\ IsFiniteSet(DelIn(f))
    /\ n.add = Cardinality(AddIn(f)) /\ n.del = Cardinality(DelIn(f))

\* What was just added is not waited for yet, unless it was deleted before.
Unseen(f, w) == KeysOf(AddIn(f)) \cap w \subseteq KeysOf(DelIn(f))

Waits ==
    \A c \in Clients :
        /\ WaitCtx(fds[c], watched[c], num[c])
        /\ IF Held(c) THEN watched[c] = KeysOf(LiveIn(fds[c])) ELSE Unseen(fds[c], watched[c])

IInv == Types /\ Placed /\ Located /\ Stored /\ Counted /\ Serving /\ Waits

-----------------------------------------------------------------------------
(* The pool as a sequence *)

\* A sequence whose elements are all in T is a sequence of elements of T.
LEMMA SeqOfSubset ==
    ASSUME NEW S, NEW T, NEW s \in Seq(S), \A n \in 1 .. Len(s) : s[n] \in T
    PROVE  s \in Seq(T)
OBVIOUS

\* The set of a sequence's elements, by positions.
LEMMA ToSetFacts ==
    ASSUME NEW S, NEW s \in Seq(S)
    PROVE  /\ \A n \in 1 .. Len(s) : s[n] \in ToSet(s)
           /\ \A x \in ToSet(s) : x \in S /\ \E n \in 1 .. Len(s) : s[n] = x
BY DEF ToSet

\* Putting a job back in the pool: it is there once more, and nothing is there
\* twice.
LEMMA AppendOne ==
    ASSUME NEW S, NEW s \in Seq(S), Injective(s), NEW x \in S, x \notin ToSet(s)
    PROVE  /\ Append(s, x) \in Seq(S) /\ Injective(Append(s, x))
           /\ ToSet(Append(s, x)) = ToSet(s) \cup {x}
<1> DEFINE t == Append(s, x)
<1>1. /\ t \in Seq(S) /\ Len(t) = Len(s) + 1 /\ Len(s) \in Nat /\ t[Len(s) + 1] = x
      /\ \A n \in 1 .. Len(s) : t[n] = s[n]
  OBVIOUS
<1> HIDE DEF t
<1>2. \A n \in 1 .. Len(s) : s[n] \in ToSet(s) /\ s[n] # x
  BY ToSetFacts
<1>3. ASSUME NEW m \in 1 .. Len(t), NEW n \in 1 .. Len(t), t[m] = t[n]
      PROVE  m = n
  <2>1. (m \in 1 .. Len(s) \/ m = Len(s) + 1) /\ (n \in 1 .. Len(s) \/ n = Len(s) + 1)
    BY <1>1
  <2> QED  BY <1>1, <1>2, <1>3, <2>1 DEF Injective
<1>4. ToSet(t) \subseteq ToSet(s) \cup {x}
  <2> SUFFICES ASSUME NEW y \in ToSet(t) PROVE y \in ToSet(s) \cup {x}
    OBVIOUS
  <2>1. PICK n \in 1 .. Len(t) : t[n] = y
    BY <1>1, ToSetFacts
  <2>2. n \in 1 .. Len(s) \/ n = Len(s) + 1
    BY <1>1
  <2> QED  BY <1>1, <1>2, <2>1, <2>2
<1>5. ToSet(s) \cup {x} \subseteq ToSet(t)
  <2>1. \A n \in 1 .. Len(t) : t[n] \in ToSet(t)
    BY <1>1, ToSetFacts
  <2>2. x \in ToSet(t)
    BY <1>1, <2>1
  <2>3. ASSUME NEW y \in ToSet(s) PROVE y \in ToSet(t)
    <3>1. PICK n \in 1 .. Len(s) : s[n] = y
      BY ToSetFacts
    <3> QED  BY <1>1, <2>1, <3>1
  <2> QED  BY <2>2, <2>3
<1> QED  BY <1>1, <1>3, <1>4, <1>5 DEF t, Injective

\* Taking the last job of the pool removes it and nothing else.
LEMMA FrontOne ==
    ASSUME NEW S, NEW s \in Seq(S), Injective(s), s # <<>>
    PROVE  /\ Front(s) \in Seq(S) /\ Injective(Front(s))
           /\ Last(s) \in ToSet(s) /\ Last(s) \in S
           /\ ToSet(Front(s)) = ToSet(s) \ {Last(s)}
<1> DEFINE t == Front(s)
           l == Len(s)
           x == Last(s)
<1>1. l \in Nat /\ l > 0 /\ x = s[l] /\ \A n \in 1 .. l : s[n] \in S
  BY DEF Last
<1>2. t = [n \in 1 .. l - 1 |-> s[n]]
  BY <1>1 DEF Front
<1>3. t \in Seq(S) /\ Len(t) = l - 1 /\ \A n \in 1 .. l - 1 : t[n] = s[n]
  <2> HIDE DEF l
  <2>1. [n \in 1 .. l - 1 |-> s[n]] \in [1 .. l - 1 -> S] /\ l - 1 \in Nat
    BY <1>1
  <2> HIDE DEF t
  <2> QED  BY <1>2, <2>1
<1>4. \A n \in 1 .. l : s[n] \in ToSet(s)
  BY ToSetFacts
<1> HIDE DEF t, l, x
<1>5. ASSUME NEW m \in 1 .. Len(t), NEW n \in 1 .. Len(t), t[m] = t[n]
      PROVE  m = n
  <2>1. m \in 1 .. l /\ n \in 1 .. l /\ s[m] = s[n]
    BY <1>1, <1>3, <1>5
  <2> QED  BY <2>1 DEF Injective, l
<1>6. ToSet(t) = ToSet(s) \ {x}
  <2>1. ASSUME NEW y \in ToSet(t) PROVE y \in ToSet(s) \ {x}
    <3>1. PICK n \in 1 .. Len(t) : t[n] = y
      BY <1>3, ToSetFacts
    <3>2. n \in 1 .. l /\ n # l /\ s[n] = y /\ l \in 1 .. l
      BY <1>1, <1>3, <3>1
    <3>3. y # x
      BY <1>1, <3>2 DEF Injective, l
    <3> QED  BY <1>4, <3>2, <3>3
  <2>2. ASSUME NEW y \in ToSet(s) \ {x} PROVE y \in ToSet(t)
    <3>1. PICK n \in 1 .. l : s[n] = y
      BY ToSetFacts DEF l
    <3>2. n \in 1 .. l - 1
      BY <1>1, <3>1
    <3>3. n \in 1 .. Len(t) /\ t[n] = y
      BY <1>1, <1>3, <3>1, <3>2
    <3> QED  BY <1>3, <3>3, ToSetFacts
  <2> QED  BY <2>1, <2>2
<1>7. x \in ToSet(s) /\ x \in S
  BY <1>1, <1>4
<1> QED  BY <1>3, <1>5, <1>6, <1>7 DEF t, x, Injective

\* The sequences of ASYNC_init_thread hold each of the new jobs once.
LEMMA SeqOfNew ==
    ASSUME NEW S, IsFiniteSet(S), NEW s \in SetToSeqs(S)
    PROVE  s \in Seq(S) /\ Injective(s) /\ ToSet(s) = S
<1> DEFINE n == Cardinality(S)
<1>1. n \in Nat
  BY FS_CardinalityType
<1>2. s \in [1 .. n -> S] /\ \A i, j \in 1 .. n : i # j => s[i] # s[j]
  BY DEF SetToSeqs
<1> HIDE DEF n
<1>3. s \in Seq(S) /\ Len(s) = n
  BY <1>1, <1>2
<1>4. IsFiniteSet(1 .. n) /\ Cardinality(1 .. n) = n
  <2>1. 1 \in Int /\ n \in Int
    BY <1>1
  <2>2. IsFiniteSet(1 .. n) /\ Cardinality(1 .. n) = IF 1 > n THEN 0 ELSE n - 1 + 1
    BY <2>1, FS_Interval
  <2> QED  BY <1>1, <2>2
<1>5. s \in Injection(1 .. n, S)
  BY <1>2 DEF Injection, IsInjective
<1>6. s \in Surjection(1 .. n, S)
  BY <1>4, <1>5, FS_Injection DEF n
<1>7. \A x \in S : \E i \in 1 .. n : s[i] = x
  BY <1>6 DEF Surjection
<1>8. ToSet(s) = S
  <2>1. \A i \in 1 .. n : s[i] \in ToSet(s)
    BY <1>3, ToSetFacts
  <2>2. \A x \in ToSet(s) : x \in S
    BY <1>3, ToSetFacts
  <2>3. \A x \in S : x \in ToSet(s)
    BY <1>7, <2>1
  <2> QED  BY <2>2, <2>3
<1> QED  BY <1>2, <1>3, <1>8 DEF Injective

-----------------------------------------------------------------------------
(* The descriptors of one client *)

\* A wait context just made has nothing in it and no changes to report.
LEMMA NoWaits ==
    ASSUME NEW n, n.add = 0, n.del = 0
    PROVE  WaitCtx({}, {}, n) /\ Unseen({}, {})
<1>1. LiveIn({}) = {} /\ AddIn({}) = {} /\ DelIn({}) = {} /\ KeysOf({}) = {}
  BY DEF LiveIn, AddIn, DelIn, KeysOf
<1> QED  BY <1>1, FS_EmptySet DEF WaitCtx, Unseen

\* The entries of a wait context, by their marks.
LEMMA EntryFacts ==
    ASSUME NEW f \in SUBSET Entry
    PROVE  /\ \A e \in f : e.key \in Keys /\ e.add \in BOOLEAN /\ e.del \in BOOLEAN
           /\ AddIn(f) \subseteq LiveIn(f) /\ LiveIn(f) \subseteq f /\ DelIn(f) \subseteq f
           /\ KeysOf(LiveIn(f)) \subseteq Keys
BY DEF Entry, AddIn, LiveIn, DelIn, KeysOf

\* After a pause the client waits for what is registered.
LEMMA PauseWaits ==
    ASSUME NEW f \in SUBSET Entry, NEW w, NEW n, WaitCtx(f, w, n)
    PROVE  WaitCtx(f, KeysOf(LiveIn(f)), n)
<1> DEFINE l == KeysOf(LiveIn(f))
           d == KeysOf(DelIn(f))
           a == KeysOf(AddIn(f))
<1>1. a \subseteq l
  BY EntryFacts DEF KeysOf
<1>2. \A k \in l : k \in d => k \in a
  <2> SUFFICES ASSUME NEW k \in l, k \in d PROVE k \in a
    OBVIOUS
  <2>1. PICK e \in LiveIn(f) : e.key = k
    BY DEF KeysOf
  <2>2. PICK g \in DelIn(f) : g.key = k
    BY DEF KeysOf
  <2>3. e.add
    BY <2>1, <2>2 DEF WaitCtx
  <2>4. e \in AddIn(f)
    BY <2>1, <2>3 DEF LiveIn, AddIn
  <2> QED  BY <2>1, <2>4 DEF KeysOf
<1>3. (l \ d) \cup a = l
  BY <1>1, <1>2
<1> QED  BY <1>3 DEF WaitCtx

\* async_wait_ctx_reset_counts
LEMMA ResetWaits ==
    ASSUME NEW f \in SUBSET Entry, NEW w, NEW n, WaitCtx(f, w, n), w = KeysOf(LiveIn(f)),
           NEW m, m.add = 0, m.del = 0
    PROVE  LET r == async_wait_ctx_reset_counts(f)
           IN  /\ r \in SUBSET Entry /\ WaitCtx(r, w, m) /\ Unseen(r, w)
               /\ KeysOf(LiveIn(r)) = KeysOf(LiveIn(f))
<1> DEFINE r == async_wait_ctx_reset_counts(f)
<1>1. r = {[e EXCEPT !.add = FALSE] : e \in LiveIn(f)}
  BY DEF async_wait_ctx_reset_counts, LiveIn
<1> HIDE DEF r
<1>2. ASSUME NEW g \in r
      PROVE  \E e \in LiveIn(f) : /\ g.key = e.key /\ g = [e EXCEPT !.add = FALSE] /\ g \in Entry
                                  /\ ~g.add /\ ~g.del
  <2>1. PICK e \in LiveIn(f) : g = [e EXCEPT !.add = FALSE]
    BY <1>1
  <2>2. e \in Entry /\ ~e.del
    BY DEF LiveIn
  <2>3. g.key = e.key /\ g.add = FALSE /\ g.del = e.del /\ g \in Entry
    BY <2>1, <2>2 DEF Entry
  <2> QED  BY <2>1, <2>2, <2>3
<1>3. ASSUME NEW e \in LiveIn(f) PROVE \E g \in r : g.key = e.key
  <2>1. e \in Entry
    BY DEF LiveIn
  <2>2. [e EXCEPT !.add = FALSE] \in r /\ [e EXCEPT !.add = FALSE].key = e.key
    BY <1>1, <2>1 DEF Entry
  <2> QED  BY <2>2
<1>4. r \in SUBSET Entry
  BY <1>2
<1>5. AddIn(r) = {} /\ DelIn(r) = {} /\ LiveIn(r) = r
  BY <1>2 DEF AddIn, DelIn, LiveIn
<1>6. KeysOf(AddIn(r)) = {} /\ KeysOf(DelIn(r)) = {}
  BY <1>5 DEF KeysOf
<1>7. KeysOf(r) = KeysOf(LiveIn(f))
  BY <1>2, <1>3 DEF KeysOf
<1>8. \A g, h \in r : g.key = h.key => g = h
  <2> SUFFICES ASSUME NEW g \in r, NEW h \in r, g.key = h.key PROVE g = h
    OBVIOUS
  <2>1. PICK e \in LiveIn(f) : g.key = e.key /\ g = [e EXCEPT !.add = FALSE]
    BY <1>2
  <2>2. PICK i \in LiveIn(f) : h.key = i.key /\ h = [i EXCEPT !.add = FALSE]
    BY <1>2
  <2>3. e = i
    BY <2>1, <2>2 DEF WaitCtx
  <2> QED  BY <2>1, <2>2, <2>3
<1>9. \A g \in r : ~(g.add /\ g.del)
  BY <1>2
<1>10. WaitCtx(r, w, m)
  BY <1>5, <1>6, <1>7, <1>8, <1>9, FS_EmptySet DEF WaitCtx
<1> QED  BY <1>4, <1>5, <1>6, <1>7, <1>10 DEF Unseen, r

\* ASYNC_WAIT_CTX_set_wait_fd
LEMMA SetWaits ==
    ASSUME NEW f \in SUBSET Entry, NEW w, NEW n \in [add : Nat, del : Nat],
           WaitCtx(f, w, n), Unseen(f, w), NEW k \in Keys, k \notin KeysOf(LiveIn(f)),
           NEW x, x = [key |-> k, add |-> TRUE, del |-> FALSE],
           NEW m, m.add = n.add + 1, m.del = n.del
    PROVE  f \cup {x} \in SUBSET Entry /\ WaitCtx(f \cup {x}, w, m) /\ Unseen(f \cup {x}, w)
<1> DEFINE g == f \cup {x}
<1>1. x \in Entry /\ x.key = k /\ x.add /\ ~x.del
  BY DEF Entry
<1>2. LiveIn(g) = LiveIn(f) \cup {x} /\ AddIn(g) = AddIn(f) \cup {x} /\ DelIn(g) = DelIn(f)
  BY <1>1 DEF LiveIn, AddIn, DelIn
<1>3. \A e \in LiveIn(f) : e.key # k
  BY DEF KeysOf
<1>4. x \notin LiveIn(f) /\ x \notin AddIn(f)
  BY <1>1, <1>3, EntryFacts
<1>5. g \in SUBSET Entry
  BY <1>1
<1> HIDE DEF g
<1>6. KeysOf(LiveIn(g)) = KeysOf(LiveIn(f)) \cup {k} /\ KeysOf(AddIn(g)) = KeysOf(AddIn(f)) \cup {k}
  BY <1>1, <1>2 DEF KeysOf
<1>7. \A e \in g : ~(e.add /\ e.del)
  BY <1>1 DEF WaitCtx, g
<1>8. \A e, h \in LiveIn(g) : e.key = h.key => e = h
  BY <1>1, <1>2, <1>3 DEF WaitCtx
<1>9. \A e \in LiveIn(g), h \in DelIn(g) : e.key = h.key => e.add
  BY <1>1, <1>2 DEF WaitCtx
<1>10. (w \ KeysOf(DelIn(g))) \cup KeysOf(AddIn(g)) = KeysOf(LiveIn(g))
  BY <1>2, <1>6 DEF WaitCtx
<1>11. IsFiniteSet(AddIn(f)) /\ IsFiniteSet(DelIn(f)) /\ Cardinality(AddIn(f)) = n.add
       /\ Cardinality(DelIn(f)) = n.del
  BY DEF WaitCtx
<1>12. IsFiniteSet(AddIn(g)) /\ Cardinality(AddIn(g)) = m.add
  <2>1. /\ IsFiniteSet(AddIn(f) \cup {x})
        /\ Cardinality(AddIn(f) \cup {x})
             = IF x \in AddIn(f) THEN Cardinality(AddIn(f)) ELSE Cardinality(AddIn(f)) + 1
    BY <1>11, FS_AddElement, Zenon
  <2> QED  BY <1>2, <1>4, <1>11, <2>1
<1>13. WaitCtx(g, w, m)
  BY <1>2, <1>7, <1>8, <1>9, <1>10, <1>11, <1>12 DEF WaitCtx
<1>14. Unseen(g, w)
  <2>1. k \in w => k \in KeysOf(DelIn(f))
    BY DEF WaitCtx
  <2> QED  BY <1>2, <1>6, <2>1 DEF Unseen
<1> QED  BY <1>5, <1>13, <1>14 DEF g

\* What is registered when one of it is gone.
LEMMA OneLess ==
    ASSUME NEW S, NEW e \in S, \A x, y \in S : x.key = y.key => x = y
    PROVE  KeysOf(S \ {e}) = KeysOf(S) \ {e.key}
BY DEF KeysOf

\* ASYNC_WAIT_CTX_clear_fd of one that was just added.
LEMMA ClearWaits ==
    ASSUME NEW f \in SUBSET Entry, NEW w, NEW n \in [add : Nat, del : Nat],
           WaitCtx(f, w, n), Unseen(f, w), NEW e \in LiveIn(f), e.add,
           NEW m, m.add = n.add - 1, m.del = n.del
    PROVE  /\ f \ {e} \in SUBSET Entry /\ WaitCtx(f \ {e}, w, m) /\ Unseen(f \ {e}, w)
           /\ m.add \in Nat
<1> DEFINE g == f \ {e}
           k == e.key
<1>1. ~e.del /\ e \in AddIn(f) /\ e \notin DelIn(f)
  BY DEF LiveIn, AddIn, DelIn
<1>2. LiveIn(g) = LiveIn(f) \ {e} /\ AddIn(g) = AddIn(f) \ {e} /\ DelIn(g) = DelIn(f)
  BY <1>1 DEF LiveIn, AddIn, DelIn
<1>3. \A x, y \in LiveIn(f) : x.key = y.key => x = y
  BY DEF WaitCtx
<1>4. \A x, y \in AddIn(f) : x.key = y.key => x = y
  BY <1>3, EntryFacts
<1>5. KeysOf(LiveIn(g)) = KeysOf(LiveIn(f)) \ {k} /\ KeysOf(AddIn(g)) = KeysOf(AddIn(f)) \ {k}
  <2>1. KeysOf(LiveIn(f) \ {e}) = KeysOf(LiveIn(f)) \ {e.key}
    BY <1>3, OneLess
  <2>2. KeysOf(AddIn(f) \ {e}) = KeysOf(AddIn(f)) \ {e.key}
    BY <1>1, <1>4, OneLess
  <2> QED  BY <1>2, <2>1, <2>2
<1>6. k \in KeysOf(AddIn(f)) /\ (k \in w => k \in KeysOf(DelIn(f)))
  BY <1>1 DEF KeysOf, Unseen
<1>7. /\ \A x \in g : ~(x.add /\ x.del)
      /\ \A x, y \in LiveIn(g) : x.key = y.key => x = y
      /\ \A x \in LiveIn(g), y \in DelIn(g) : x.key = y.key => x.add
  BY <1>2 DEF WaitCtx
<1> HIDE DEF g, k
<1>8. (w \ KeysOf(DelIn(g))) \cup KeysOf(AddIn(g)) = KeysOf(LiveIn(g))
  BY <1>2, <1>5, <1>6 DEF WaitCtx
<1>9. IsFiniteSet(AddIn(f)) /\ IsFiniteSet(DelIn(f)) /\ Cardinality(AddIn(f)) = n.add
      /\ Cardinality(DelIn(f)) = n.del
  BY DEF WaitCtx
<1>10. IsFiniteSet(AddIn(g)) /\ Cardinality(AddIn(g)) = m.add /\ Cardinality(AddIn(g)) \in Nat
  BY <1>1, <1>2, <1>9, FS_RemoveElement, FS_CardinalityType
<1>11. WaitCtx(g, w, m)
  BY <1>2, <1>7, <1>8, <1>9, <1>10 DEF WaitCtx
<1>12. Unseen(g, w)
  BY <1>2, <1>5 DEF Unseen
<1> QED  BY <1>10, <1>11, <1>12 DEF g

\* ASYNC_WAIT_CTX_clear_fd of another one: it is marked.
LEMMA MarkWaits ==
    ASSUME NEW f \in SUBSET Entry, NEW w, NEW n \in [add : Nat, del : Nat],
           WaitCtx(f, w, n), Unseen(f, w), NEW e \in LiveIn(f), ~e.add,
           NEW d, d = [e EXCEPT !.del = TRUE],
           NEW m, m.add = n.add, m.del = n.del + 1
    PROVE  /\ (f \ {e}) \cup {d} \in SUBSET Entry /\ WaitCtx((f \ {e}) \cup {d}, w, m)
           /\ Unseen((f \ {e}) \cup {d}, w)
<1> DEFINE g == (f \ {e}) \cup {d}
           k == e.key
<1>1. /\ e \in Entry /\ ~e.del /\ e \notin AddIn(f) /\ e \notin DelIn(f)
  BY DEF LiveIn, AddIn, DelIn
<1>2. d \in Entry /\ d.key = k /\ d.del /\ ~d.add
  <2>1. d.del = TRUE /\ d.add = e.add /\ d.key = k /\ d \in Entry
    BY <1>1 DEF Entry
  <2> QED  BY <2>1
<1>3. g \in SUBSET Entry
  BY <1>2
<1>4. d \notin DelIn(f)
  BY <1>2 DEF WaitCtx
<1>5. LiveIn(g) = LiveIn(f) \ {e} /\ AddIn(g) = AddIn(f) /\ DelIn(g) = DelIn(f) \cup {d}
  BY <1>1, <1>2 DEF LiveIn, AddIn, DelIn
<1>6. \A x, y \in LiveIn(f) : x.key = y.key => x = y
  BY DEF WaitCtx
<1> HIDE DEF k
<1>7. /\ KeysOf(LiveIn(g)) = KeysOf(LiveIn(f)) \ {k}
      /\ KeysOf(DelIn(g)) = KeysOf(DelIn(f)) \cup {k}
  <2>1. KeysOf(LiveIn(f) \ {e}) = KeysOf(LiveIn(f)) \ {e.key}
    BY <1>6, OneLess
  <2>2. KeysOf(DelIn(f) \cup {d}) = KeysOf(DelIn(f)) \cup {d.key}
    BY DEF KeysOf
  <2> QED  BY <1>2, <1>5, <2>1, <2>2 DEF k
<1>8. k \notin KeysOf(AddIn(f))
  BY <1>1, <1>6, EntryFacts DEF KeysOf, k
<1>9. /\ \A x \in g : ~(x.add /\ x.del)
      /\ \A x, y \in LiveIn(g) : x.key = y.key => x = y
  BY <1>2, <1>5 DEF WaitCtx
<1>10. \A x \in LiveIn(g), y \in DelIn(g) : x.key = y.key => x.add
  <2> SUFFICES ASSUME NEW x \in LiveIn(g), NEW y \in DelIn(g), x.key = y.key PROVE x.add
    OBVIOUS
  <2>1. x \in LiveIn(f) /\ x # e
    BY <1>5
  <2>2. x.key # k
    BY <1>6, <2>1 DEF k
  <2>3. y \in DelIn(f)
    BY <1>2, <1>5, <2>2
  <2> QED  BY <2>1, <2>3 DEF WaitCtx
<1> HIDE DEF g
<1>11. (w \ KeysOf(DelIn(g))) \cup KeysOf(AddIn(g)) = KeysOf(LiveIn(g))
  BY <1>5, <1>7, <1>8 DEF WaitCtx
<1>12. IsFiniteSet(AddIn(f)) /\ IsFiniteSet(DelIn(f)) /\ Cardinality(AddIn(f)) = n.add
       /\ Cardinality(DelIn(f)) = n.del
  BY DEF WaitCtx
<1>13. IsFiniteSet(DelIn(g)) /\ Cardinality(DelIn(g)) = m.del
  <2>1. /\ IsFiniteSet(DelIn(f) \cup {d})
        /\ Cardinality(DelIn(f) \cup {d})
             = IF d \in DelIn(f) THEN Cardinality(DelIn(f)) ELSE Cardinality(DelIn(f)) + 1
    BY <1>12, FS_AddElement, Zenon
  <2> QED  BY <1>4, <1>5, <1>12, <2>1
<1>14. WaitCtx(g, w, m)
  BY <1>5, <1>9, <1>10, <1>11, <1>12, <1>13 DEF WaitCtx
<1>15. Unseen(g, w)
  BY <1>5, <1>7 DEF Unseen
<1> QED  BY <1>3, <1>14, <1>15 DEF g

-----------------------------------------------------------------------------
(* What a step leaves alone *)

\* Steps that move no job leave every job where it was.
LEMMA KeepPlaced ==
    ASSUME Placed, UNCHANGED <<job, pool, currjob, caller, handle, round, jobctx>>
    PROVE  Placed'
BY DEF Placed, Pooled, Held, Allocated

\* They lose none either.
LEMMA KeepLocated ==
    ASSUME Located, UNCHANGED <<job, pool, lost, leaked, currjob, caller, handle>>
    PROVE  Located'
<1>1. /\ lost' = lost /\ leaked' = leaked /\ Missing' = Missing
      /\ Allocated' = Allocated /\ Pooled' = Pooled
  BY DEF Missing, Allocated, Pooled
<1>2. \A j \in Jobs : SomePlace(j)' <=> SomePlace(j)
  BY <1>1 DEF SomePlace, Held
<1> QED  BY <1>1, <1>2 DEF Located

\* Steps that leave the pool and its storage alone.
LEMMA KeepStored ==
    ASSUME Stored, UNCHANGED <<pool, room, reserve, lost>>
    PROVE  Stored'
BY DEF Stored

\* Steps that leave the jobs and the pool alone leave the count right.
LEMMA KeepCounted ==
    ASSUME Counted, UNCHANGED <<job, pool, leaked>>
    PROVE  Counted'
BY DEF Counted, Allocated

\* Steps that leave the wait contexts alone leave them right.
LEMMA KeepWaits ==
    ASSUME Waits, UNCHANGED <<fds, num, watched, caller, handle>>
    PROVE  Waits'
BY DEF Waits, Held

\* The client whose call is being served is that of the function.
LEMMA ClientIsCaller ==
    ASSUME IInv, Running
    PROVE  Client = caller /\ caller \in Clients /\ currjob \in Jobs
           /\ job[currjob].waitctx = caller
<1>1. job[currjob].stack = <<caller, round[caller]>> /\ job[currjob].waitctx = caller
  BY DEF IInv, Serving
<1>2. currjob # NoJob /\ caller # NoClient
  BY DEF IInv, Types, Running
<1>3. caller \in Clients /\ currjob \in Jobs
  BY <1>2 DEF IInv, Types
<1> QED  BY <1>1, <1>3 DEF Client

-----------------------------------------------------------------------------
(* The steps that concern one variable or two *)

\* ASYNC_block_pause and ASYNC_unblock_pause preserve the invariant.
LEMMA BlockInv ==
    ASSUME IInv, ASYNC_block_pause \/ ASYNC_unblock_pause
    PROVE  IInv'
<1>1. UNCHANGED <<job, pool, room, reserve, lost, leaked, currjob, caller, libctx, handle, round, answer, default,
                  fds, num, watched, appctx, jobctx>>
  BY DEF ASYNC_block_pause, ASYNC_unblock_pause, waits, storage
<1>2. blocked' \in 0 .. MaxBlocked
  BY AsyncJobsAssumption DEF ASYNC_block_pause, ASYNC_unblock_pause, IInv, Types
<1>3. Types'
  BY <1>1, <1>2 DEF IInv, Types
<1>4. Placed' /\ Located' /\ Stored' /\ Counted' /\ Waits'
  BY <1>1, KeepPlaced, KeepLocated, KeepStored, KeepCounted, KeepWaits DEF IInv
<1>5. Serving'
  BY <1>1 DEF IInv, Serving, Running, Allocated
<1> QED  BY <1>3, <1>4, <1>5 DEF IInv

\* The application changing its default library context preserves it.
LEMMA AppDefaultInv ==
    ASSUME IInv, NEW l \in LibCtxs, AppSetsDefault(l)
    PROVE  IInv'
<1>1. /\ UNCHANGED <<job, pool, room, reserve, lost, leaked, currjob, blocked, caller,
                     libctx, handle, round, answer,
                     fds, num, watched, jobctx>>
      /\ default' = l /\ appctx' = l /\ ~Running
  BY DEF AppSetsDefault, waits, storage
<1>2. Types'
  BY <1>1 DEF IInv, Types
<1>3. Placed' /\ Located' /\ Stored' /\ Counted' /\ Waits'
  BY <1>1, KeepPlaced, KeepLocated, KeepStored, KeepCounted, KeepWaits DEF IInv
<1>4. Serving'
  BY <1>1 DEF IInv, Serving, Running, Allocated
<1> QED  BY <1>2, <1>3, <1>4 DEF IInv

\* A job changing the default library context it runs with preserves it.
LEMMA JobDefaultInv ==
    ASSUME IInv, NEW l \in LibCtxs, JobSetsDefault(l)
    PROVE  IInv'
<1>1. /\ UNCHANGED <<job, pool, room, reserve, lost, leaked, currjob, blocked, caller,
                     libctx, handle, round, answer,
                     fds, num, watched, appctx>>
      /\ default' = l /\ Running
  BY DEF JobSetsDefault, waits, storage
<1>2. jobctx' = [jobctx EXCEPT ![caller] = l] /\ caller \in Clients
  BY <1>1, ClientIsCaller DEF JobSetsDefault
<1>3. Types'
  BY <1>1, <1>2 DEF IInv, Types
<1>4. Located' /\ Stored' /\ Counted' /\ Waits'
  BY <1>1, KeepLocated, KeepStored, KeepCounted, KeepWaits DEF IInv
<1>5. /\ jobctx'[caller] = l
      /\ \A c \in Clients : Held(c) => jobctx'[c] = jobctx[c]
  BY <1>2 DEF IInv, Types, Held
<1>6. Placed'
  BY <1>1, <1>5 DEF IInv, Placed, Pooled, Held, Allocated
<1>7. Serving'
  BY <1>1, <1>5 DEF IInv, Serving, Running, Allocated
<1> QED  BY <1>3, <1>4, <1>6, <1>7 DEF IInv

\* A change of the descriptors of the client whose function runs.
LEMMA FdsInv ==
    ASSUME IInv, Running,
           UNCHANGED <<job, pool, room, reserve, lost, leaked, currjob, blocked, caller,
                     libctx, handle, round, answer,
                       default, watched, appctx, jobctx>>,
           NEW f \in SUBSET Entry, NEW n \in [add : Nat, del : Nat],
           WaitCtx(f, watched[caller], n), Unseen(f, watched[caller]),
           fds' = [fds EXCEPT ![caller] = f], num' = [num EXCEPT ![caller] = n]
    PROVE  IInv'
<1>1. caller \in Clients
  BY ClientIsCaller
<1>2. Types'
  BY <1>1 DEF IInv, Types
<1>3. Placed' /\ Located' /\ Stored' /\ Counted'
  BY KeepPlaced, KeepLocated, KeepStored, KeepCounted DEF IInv
<1>4. Serving'
  BY DEF IInv, Serving, Running, Allocated
<1>5. Waits'
  <2>0. Waits /\ fds \in [Clients -> SUBSET Entry] /\ num \in [Clients -> [add : Nat, del : Nat]]
    BY DEF IInv, Types
  <2> SUFFICES ASSUME NEW c \in Clients
               PROVE  /\ WaitCtx(fds'[c], watched[c], num'[c])
                      /\ IF Held(c) THEN watched[c] = KeysOf(LiveIn(fds'[c]))
                                    ELSE Unseen(fds'[c], watched[c])
    BY DEF Waits, Held
  <2>1. CASE c = caller
    <3>1. fds'[c] = f /\ num'[c] = n /\ ~Held(c)
      BY <2>0, <2>1 DEF Held
    <3> QED  BY <2>1, <3>1
  <2>2. CASE c # caller
    <3>1. fds'[c] = fds[c] /\ num'[c] = num[c]
      BY <2>0, <2>2
    <3> QED  BY <2>0, <3>1 DEF Waits
  <2> QED  BY <2>1, <2>2
<1> QED  BY <1>2, <1>3, <1>4, <1>5 DEF IInv

\* The operators of the model on a client's wait context are those on its
\* entries.
LEMMA LiveIsLive ==
    ASSUME NEW c
    PROVE  Live(c) = KeysOf(LiveIn(fds[c])) /\ Added(c) = AddIn(fds[c])
           /\ Deleted(c) = DelIn(fds[c]) /\ AddFds(c) = KeysOf(AddIn(fds[c]))
           /\ DelFds(c) = KeysOf(DelIn(fds[c]))
BY DEF Live, KeysOf, LiveIn, Added, AddIn, Deleted, DelIn, AddFds, DelFds

\* What the invariant says of the wait context of the job that runs.
LEMMA CallerWaits ==
    ASSUME IInv, Running
    PROVE  /\ fds[caller] \in SUBSET Entry /\ num[caller] \in [add : Nat, del : Nat]
           /\ WaitCtx(fds[caller], watched[caller], num[caller])
           /\ Unseen(fds[caller], watched[caller])
<1>1. caller \in Clients /\ ~Held(caller)
  BY ClientIsCaller DEF Held
<1> QED  BY <1>1 DEF IInv, Types, Waits

\* ASYNC_WAIT_CTX_set_wait_fd preserves it: the new entry is marked added.
LEMMA SetFdInv ==
    ASSUME IInv, NEW k \in Keys, ASYNC_WAIT_CTX_set_wait_fd(k)
    PROVE  IInv'
<1> DEFINE x == [key |-> k, add |-> TRUE, del |-> FALSE]
           f == fds[caller]
           n == num[caller]
           m == [n EXCEPT !.add = @ + 1]
<1>1. /\ Running
      /\ UNCHANGED <<job, pool, room, reserve, lost, leaked, currjob, blocked, caller,
                     libctx, handle, round, answer,
                     default, watched, appctx, jobctx>>
  BY DEF ASYNC_WAIT_CTX_set_wait_fd, storage
<1>2. job[currjob].waitctx = caller
  BY <1>1, ClientIsCaller
<1>3. /\ k \notin KeysOf(LiveIn(f)) /\ fds' = [fds EXCEPT ![caller] = f \cup {x}]
      /\ num' = [num EXCEPT ![caller] = m]
  BY <1>2, LiveIsLive DEF ASYNC_WAIT_CTX_set_wait_fd
<1>4. /\ f \in SUBSET Entry /\ n \in [add : Nat, del : Nat]
      /\ WaitCtx(f, watched[caller], n) /\ Unseen(f, watched[caller])
  BY <1>1, CallerWaits
<1> HIDE DEF f, n
<1>5. m \in [add : Nat, del : Nat] /\ m.add = n.add + 1 /\ m.del = n.del
  BY <1>4
<1> HIDE DEF m
<1>6. /\ f \cup {x} \in SUBSET Entry /\ WaitCtx(f \cup {x}, watched[caller], m)
      /\ Unseen(f \cup {x}, watched[caller])
  BY <1>3, <1>4, <1>5, SetWaits
<1> HIDE DEF x
<1> DEFINE g == f \cup {x}
<1>7. /\ g \in SUBSET Entry /\ WaitCtx(g, watched[caller], m) /\ Unseen(g, watched[caller])
      /\ fds' = [fds EXCEPT ![caller] = g]
  BY <1>3, <1>6
<1> HIDE DEF g
<1> QED  BY <1>1, <1>3, <1>5, <1>7, FdsInv

\* ASYNC_WAIT_CTX_clear_fd preserves it: an entry the client has not seen goes,
\* another is marked deleted.
LEMMA ClearFdInv ==
    ASSUME IInv, NEW k \in Keys, ASYNC_WAIT_CTX_clear_fd(k)
    PROVE  IInv'
<1> DEFINE f == fds[caller]
           n == num[caller]
           e == CHOOSE x \in f : x.key = k /\ ~x.del
           d == [e EXCEPT !.del = TRUE]
<1>1. /\ Running
      /\ UNCHANGED <<job, pool, room, reserve, lost, leaked, currjob, blocked, caller,
                     libctx, handle, round, answer,
                     default, watched, appctx, jobctx>>
  BY DEF ASYNC_WAIT_CTX_clear_fd, storage
<1>2. job[currjob].waitctx = caller
  BY <1>1, ClientIsCaller
<1>3. /\ k \in KeysOf(LiveIn(f))
      /\ IF e.add
         THEN /\ fds' = [fds EXCEPT ![caller] = f \ {e}]
              /\ num' = [num EXCEPT ![caller] = [n EXCEPT !.add = @ - 1]]
         ELSE /\ fds' = [fds EXCEPT ![caller] = (f \ {e}) \cup {d}]
              /\ num' = [num EXCEPT ![caller] = [n EXCEPT !.del = @ + 1]]
  BY <1>2, LiveIsLive DEF ASYNC_WAIT_CTX_clear_fd
<1>4. /\ f \in SUBSET Entry /\ n \in [add : Nat, del : Nat]
      /\ WaitCtx(f, watched[caller], n) /\ Unseen(f, watched[caller])
  BY <1>1, CallerWaits
<1> HIDE DEF f, n
<1>5. e \in LiveIn(f)
  <2>1. \E x \in f : x.key = k /\ ~x.del
    BY <1>3 DEF KeysOf, LiveIn
  <2>2. e \in f /\ ~e.del
    BY <2>1
  <2> HIDE DEF e
  <2> QED  BY <2>2 DEF LiveIn
<1> HIDE DEF e
<1>6. CASE e.add
  <2> DEFINE m == [n EXCEPT !.add = @ - 1]
             g == f \ {e}
  <2>1. m.add = n.add - 1 /\ m.del = n.del
    BY <1>4
  <2>2. n \in [add : Nat, del : Nat] /\ m = [add |-> m.add, del |-> m.del]
    BY <1>4
  <2> HIDE DEF m
  <2>3. g \in SUBSET Entry /\ WaitCtx(g, watched[caller], m) /\ Unseen(g, watched[caller])
        /\ m.add \in Nat
    BY <1>4, <1>5, <1>6, <2>1, ClearWaits
  <2>4. m \in [add : Nat, del : Nat]
    BY <2>1, <2>2, <2>3
  <2>5. fds' = [fds EXCEPT ![caller] = g] /\ num' = [num EXCEPT ![caller] = m]
    BY <1>3, <1>6 DEF m
  <2> HIDE DEF g
  <2> QED  BY <1>1, <2>3, <2>4, <2>5, FdsInv
<1>7. CASE ~e.add
  <2> DEFINE m == [n EXCEPT !.del = @ + 1]
             g == (f \ {e}) \cup {d}
  <2>1. m.add = n.add /\ m.del = n.del + 1 /\ m \in [add : Nat, del : Nat]
    BY <1>4
  <2>2. fds' = [fds EXCEPT ![caller] = g] /\ num' = [num EXCEPT ![caller] = m]
    BY <1>3, <1>7
  <2> HIDE DEF m
  <2>3. g \in SUBSET Entry /\ WaitCtx(g, watched[caller], m) /\ Unseen(g, watched[caller])
    BY <1>4, <1>5, <1>7, <2>1, MarkWaits
  <2> HIDE DEF g
  <2> QED  BY <1>1, <2>1, <2>2, <2>3, FdsInv
<1> QED  BY <1>6, <1>7

-----------------------------------------------------------------------------
(* The steps that pause, resume and end a job *)

\* ASYNC_pause_job preserves it: the job keeps its context, the application gets
\* its own back.
LEMMA PauseInv ==
    ASSUME IInv, NEW c \in Clients, ASYNC_pause_job(c)
    PROVE  IInv'
<1> DEFINE j == currjob
<1>0. Types /\ Placed /\ Located /\ Stored /\ Counted /\ Serving /\ Waits
  BY DEF IInv
<1>1. /\ Running /\ c = caller /\ currjob' = NoJob /\ caller' = NoClient /\ default' = libctx
      /\ UNCHANGED <<pool, room, reserve, lost, leaked, blocked, libctx, round, answer, fds, num, appctx, jobctx>>
      /\ handle' = [handle EXCEPT ![c] = j]
      /\ job' = [job EXCEPT ![j].status = "PAUSED", ![j].libctx = default]
      /\ watched' = [watched EXCEPT ![c] = (@ \ DelFds(c)) \cup AddFds(c)]
  BY DEF ASYNC_pause_job, storage
<1>2. /\ j \in Jobs /\ j # NoJob /\ j \in Allocated /\ job[j].stack = <<c, round[c]>>
      /\ job[j].waitctx = c /\ default = jobctx[c] /\ libctx = appctx
      /\ handle[c] \in {NoJob, j}
  BY <1>0, <1>1, ClientIsCaller DEF Serving, Running
<1>3. /\ job'[j].status = "PAUSED" /\ job'[j].libctx = default
      /\ job'[j].stack = job[j].stack /\ job'[j].waitctx = job[j].waitctx
      /\ job' \in [Jobs -> JobRecord]
      /\ \A i \in Jobs \ {j} : job'[i] = job[i]
  <2> DEFINE r == [job[j] EXCEPT !.status = "PAUSED", !.libctx = default]
  <2>1. job \in [Jobs -> JobRecord] /\ job[j] \in JobRecord /\ default \in LibCtxs
    BY <1>0, <1>2 DEF Types
  <2>2. job' = [job EXCEPT ![j] = r]
    BY <1>1, <1>2, <2>1
  <2>3. /\ r \in JobRecord /\ r.status = "PAUSED" /\ r.libctx = default
        /\ r.stack = job[j].stack /\ r.waitctx = job[j].waitctx
    BY <2>1 DEF JobRecord
  <2> HIDE DEF r
  <2> QED  BY <1>2, <2>1, <2>2, <2>3
<1>4. handle'[c] = j /\ (\A d \in Clients \ {c} : handle'[d] = handle[d])
      /\ handle' \in [Clients -> Jobs \cup {NoJob}]
  BY <1>0, <1>1, <1>2 DEF Types
<1>5. Allocated' = Allocated
  BY <1>2, <1>3 DEF Allocated
<1>6. \A d \in Clients : Held(d)' <=> d = c \/ Held(d)
  <2>1. \A d \in Clients : Held(d)' <=> handle'[d] # NoJob
    BY <1>1, AsyncJobsAssumption DEF Held
  <2> QED  BY <1>1, <1>2, <1>4, <2>1 DEF Held
<1>7. /\ WaitCtx(fds[c], watched[c], num[c]) /\ fds[c] \in SUBSET Entry
      /\ watched'[c] = KeysOf(LiveIn(fds[c])) /\ \A d \in Clients \ {c} : watched'[d] = watched[d]
      /\ watched' \in [Clients -> SUBSET Keys]
  <2>1. WaitCtx(fds[c], watched[c], num[c]) /\ fds[c] \in SUBSET Entry
    BY <1>1, CallerWaits
  <2>2. (watched[c] \ DelFds(c)) \cup AddFds(c) = KeysOf(LiveIn(fds[c]))
    BY <2>1, LiveIsLive DEF WaitCtx
  <2>3. KeysOf(LiveIn(fds[c])) \subseteq Keys
    BY <2>1, EntryFacts
  <2> QED  BY <1>0, <1>1, <2>1, <2>2, <2>3 DEF Types
<1>8. Types'
  BY <1>0, <1>1, <1>3, <1>4, <1>7 DEF Types
<1>9. Placed'
  <2>1. Pooled' = Pooled /\ \A i \in Pooled : i \in Jobs /\ i # j /\ job'[i] = job[i]
    BY <1>0, <1>1, <1>2, <1>3 DEF Pooled, Placed, Allocated
  <2>2. \A d \in Clients : Held(d) =>
            /\ handle[d] # j /\ handle[d] \in Jobs /\ d # c
            /\ handle'[d] = handle[d] /\ job'[handle'[d]] = job[handle[d]]
    BY <1>0, <1>1, <1>3, <1>4 DEF Placed, Held, Allocated
  <2>3. \A i \in Jobs \ Allocated : job'[i] = Unallocated
    BY <1>0, <1>2, <1>3 DEF Placed
  <2>4. ASSUME NEW d \in Clients, Held(d)'
        PROVE  /\ handle'[d] \in Allocated /\ handle'[d] \notin Pooled
               /\ job'[handle'[d]].stack = <<d, round[d]>> /\ job'[handle'[d]].waitctx = d
               /\ job'[handle'[d]].libctx = jobctx[d]
               /\ \A b \in Clients : Held(b)' /\ handle'[b] = handle'[d] => b = d
    <3>1. CASE d = c
      <4>1. j \notin Pooled
        BY <1>0 DEF Placed
      <4>2. \A b \in Clients : Held(b)' /\ handle'[b] = j => b = c
        BY <1>6, <2>2
      <4> QED  BY <1>2, <1>3, <1>4, <3>1, <4>1, <4>2
    <3>2. CASE d # c
      <4>1. Held(d)
        BY <1>6, <2>4, <3>2
      <4>2. \A b \in Clients : Held(b)' /\ handle'[b] = handle'[d] => b = d
        BY <1>0, <1>4, <1>6, <2>2, <4>1 DEF Placed
      <4> QED  BY <1>0, <2>2, <4>1, <4>2 DEF Placed
    <3> QED  BY <3>1, <3>2
  <2>6. \A i \in Pooled : i \in Allocated /\ i # NoJob /\ job'[i].stack = Top
    BY <1>0, <2>1, AsyncJobsAssumption DEF Placed
  <2>7. \A i \in Allocated : i \in Jobs /\ i # NoJob
    BY AsyncJobsAssumption DEF Allocated
  <2>p. \A i \in Pooled' : i \in Allocated' /\ i # currjob' /\ job'[i].stack = Top
    BY <1>1, <1>5, <2>1, <2>6
  <2>h. \A d \in Clients : Held(d)' =>
            /\ handle'[d] \in Allocated' /\ handle'[d] \notin Pooled' /\ handle'[d] # currjob'
            /\ job'[handle'[d]].stack = <<d, round'[d]>>
            /\ job'[handle'[d]].waitctx = d
            /\ job'[handle'[d]].libctx = jobctx'[d]
            /\ \A b \in Clients : Held(b)' /\ handle'[b] = handle'[d] => b = d
    <3>1. round' = round /\ jobctx' = jobctx /\ currjob' = NoJob
      BY <1>1
    <3> SUFFICES ASSUME NEW d \in Clients, Held(d)'
                 PROVE  /\ handle'[d] \in Allocated /\ handle'[d] \notin Pooled
                        /\ handle'[d] # NoJob
                        /\ job'[handle'[d]].stack = <<d, round[d]>>
                        /\ job'[handle'[d]].waitctx = d
                        /\ job'[handle'[d]].libctx = jobctx[d]
                        /\ \A b \in Clients : Held(b)' /\ handle'[b] = handle'[d] => b = d
      BY <1>5, <2>1, <3>1, Zenon
    <3> QED  BY <2>4, <2>7, Zenon
  <2>u. Injective(pool'.jobs) /\ \A i \in Jobs \ Allocated' : job'[i] = Unallocated
    BY <1>0, <1>1, <1>5, <2>3 DEF Placed
  <2> QED  BY <2>p, <2>h, <2>u DEF Placed
<1>10. Counted' /\ Stored'
  BY <1>0, <1>1, <1>5 DEF Counted, Stored
<1>l. Located'
  <2>1. Missing' = Missing /\ lost' = lost /\ leaked' = leaked /\ Pooled' = Pooled
    BY <1>1 DEF Missing, Pooled
  <2>2. \A d \in Clients : Held(d) => handle'[d] = handle[d]
    BY <1>1, <1>4 DEF Held
  <2>3. \A i \in Jobs : SomePlace(i)' <=> SomePlace(i)
    <3> SUFFICES ASSUME NEW i \in Jobs PROVE SomePlace(i)' <=> SomePlace(i)
      OBVIOUS
    <3>1. i # currjob'
      BY <1>1, AsyncJobsAssumption
    <3> QED  BY <1>4, <1>6, <2>1, <2>2, <3>1 DEF SomePlace
  <2> QED  BY <1>0, <1>5, <2>1, <2>3 DEF Located
<1>11. Serving'
  BY <1>0, <1>1, <1>2 DEF Serving, Running
<1>12. Waits'
  <2> SUFFICES ASSUME NEW d \in Clients
               PROVE  /\ WaitCtx(fds[d], watched'[d], num[d])
                      /\ IF Held(d)' THEN watched'[d] = KeysOf(LiveIn(fds[d]))
                                     ELSE Unseen(fds[d], watched'[d])
    BY <1>1 DEF Waits
  <2>1. CASE d = c
    <3>1. WaitCtx(fds[c], KeysOf(LiveIn(fds[c])), num[c])
      BY <1>7, PauseWaits
    <3> QED  BY <1>6, <1>7, <2>1, <3>1
  <2>2. CASE d # c
    BY <1>0, <1>6, <1>7, <2>2 DEF Waits
  <2> QED  BY <2>1, <2>2
<1> QED  BY <1>8, <1>9, <1>10, <1>l, <1>11, <1>12 DEF IInv

\* Resuming a paused job preserves it: the job runs on with its own stack and
\* library context.
LEMMA ResumeInv ==
    ASSUME IInv, NEW c \in Clients, ResumeJob(c)
    PROVE  IInv'
<1> DEFINE j == handle[c]
<1>0. Types /\ Placed /\ Located /\ Stored /\ Counted /\ Serving /\ Waits
  BY DEF IInv
<1>1. /\ currjob = NoJob /\ j # NoJob /\ currjob' = j /\ caller' = c /\ libctx' = default
      /\ default' = job[j].libctx
      /\ UNCHANGED <<job, pool, room, reserve, lost, leaked, blocked, handle, round, answer, watched, appctx, jobctx>>
  BY DEF ResumeJob, DefaultOnResume, storage
<1>2. caller = NoClient /\ c # NoClient /\ Held(c) /\ ~Running /\ j \in Jobs
  BY <1>0, <1>1, AsyncJobsAssumption DEF Types, Held, Running
<1>3. /\ j \in Allocated /\ j \notin Pooled
      /\ job[j].stack = <<c, round[c]>> /\ job[j].waitctx = c
      /\ job[j].libctx = jobctx[c]
      /\ \A d \in Clients : Held(d) /\ handle[d] = j => d = c
  BY <1>0, <1>2 DEF Placed
<1>4. \A d \in Clients : Held(d)' <=> d # c /\ Held(d)
  BY <1>0, <1>1, <1>2, AsyncJobsAssumption DEF Held
<1>5. /\ fds' = [fds EXCEPT ![c] = async_wait_ctx_reset_counts(@)]
      /\ num' = [num EXCEPT ![c] = [add |-> 0, del |-> 0]]
  BY <1>3 DEF ResumeJob
<1>6. /\ fds[c] \in SUBSET Entry /\ WaitCtx(fds[c], watched[c], num[c])
      /\ watched[c] = KeysOf(LiveIn(fds[c]))
  BY <1>0, <1>2 DEF Types, Waits
<1>7. LET r == async_wait_ctx_reset_counts(fds[c])
      IN  /\ r \in SUBSET Entry /\ WaitCtx(r, watched[c], [add |-> 0, del |-> 0])
          /\ Unseen(r, watched[c])
  <2> DEFINE m == [add |-> 0, del |-> 0]
             f == fds[c]
             w == watched[c]
  <2>1. m.add = 0 /\ m.del = 0
    OBVIOUS
  <2>2. f \in SUBSET Entry /\ WaitCtx(f, w, num[c]) /\ w = KeysOf(LiveIn(f))
    BY <1>6
  <2> HIDE DEF m, f, w
  <2>3. LET r == async_wait_ctx_reset_counts(f)
        IN  r \in SUBSET Entry /\ WaitCtx(r, w, m) /\ Unseen(r, w)
    BY <2>1, <2>2, ResetWaits
  <2> QED  BY <2>3 DEF m, f, w
<1>8. Types'
  <2>1. fds' \in [Clients -> SUBSET Entry]
    BY <1>0, <1>5, <1>7 DEF Types
  <2>2. num' \in [Clients -> [add : Nat, del : Nat]]
    BY <1>0, <1>5 DEF Types
  <2>3. default' \in LibCtxs /\ libctx' \in LibCtxs
    BY <1>0, <1>1, <1>3 DEF Types
  <2>4. currjob' \in Jobs /\ caller' \in Clients /\ currjob' # NoJob /\ caller' # NoClient
    BY <1>1, <1>2
  <2> QED  BY <1>0, <1>1, <2>1, <2>2, <2>3, <2>4 DEF Types
<1>9. Allocated' = Allocated /\ Pooled' = Pooled
  BY <1>1 DEF Allocated, Pooled
<1>10. Placed'
  <2>1. \A i \in Pooled : i \in Allocated /\ i # j /\ job[i].stack = Top
    BY <1>0, <1>3 DEF Placed
  <2>2. ASSUME NEW d \in Clients, Held(d)'
        PROVE  /\ handle[d] \in Allocated /\ handle[d] \notin Pooled /\ handle[d] # j
               /\ job[handle[d]].stack = <<d, round[d]>> /\ job[handle[d]].waitctx = d
               /\ job[handle[d]].libctx = jobctx[d]
               /\ \A b \in Clients : Held(b)' /\ handle[b] = handle[d] => b = d
    <3>1. Held(d) /\ d # c
      BY <1>4, <2>2
    <3> QED  BY <1>0, <1>3, <1>4, <3>1 DEF Placed
  <2> QED  BY <1>0, <1>1, <1>9, <2>1, <2>2 DEF Placed
<1>11. Counted' /\ Stored'
  BY <1>0, <1>1, KeepCounted, KeepStored
<1>l. Located'
  <2>1. Missing' = Missing /\ lost' = lost /\ leaked' = leaked
    BY <1>1 DEF Missing
  <2>2. \A i \in Jobs : SomePlace(i)' <=> SomePlace(i)
    <3> SUFFICES ASSUME NEW i \in Jobs PROVE SomePlace(i)' <=> SomePlace(i)
      OBVIOUS
    <3>1. i # currjob
      BY <1>1, AsyncJobsAssumption
    <3> QED  BY <1>1, <1>2, <1>4, <1>9, <3>1 DEF SomePlace
  <2> QED  BY <1>0, <1>9, <2>1, <2>2 DEF Located
<1>12. Serving'
  <2>1. libctx' = appctx
    BY <1>0, <1>1, <1>2 DEF Serving
  <2> QED  BY <1>0, <1>1, <1>2, <1>3, <1>9, <2>1 DEF Serving, Running
<1>13. Waits'
  <2> SUFFICES ASSUME NEW d \in Clients
               PROVE  /\ WaitCtx(fds'[d], watched[d], num'[d])
                      /\ IF Held(d)' THEN watched[d] = KeysOf(LiveIn(fds'[d]))
                                     ELSE Unseen(fds'[d], watched[d])
    BY <1>1 DEF Waits
  <2>1. CASE d = c
    <3>1. fds'[d] = async_wait_ctx_reset_counts(fds[c]) /\ num'[d] = [add |-> 0, del |-> 0]
          /\ ~Held(d)'
      BY <1>0, <1>4, <1>5, <2>1 DEF Types
    <3> QED  BY <1>7, <2>1, <3>1
  <2>2. CASE d # c
    <3>1. fds'[d] = fds[d] /\ num'[d] = num[d] /\ (Held(d)' <=> Held(d))
      BY <1>0, <1>4, <1>5, <2>2 DEF Types
    <3> QED  BY <1>0, <3>1 DEF Waits
  <2> QED  BY <2>1, <2>2
<1> QED  BY <1>8, <1>10, <1>11, <1>l, <1>12, <1>13 DEF IInv

\* The allocated jobs are finitely many, and NoJob is not one of them.
LEMMA AllocatedFacts ==
    /\ IsFiniteSet(Allocated) /\ Cardinality(Allocated) \in Nat /\ Allocated \subseteq Jobs
    /\ NoJob \notin Allocated /\ Cardinality(Allocated) <= Cardinality(Jobs)
<1>1. Allocated \subseteq Jobs /\ IsFiniteSet(Jobs) /\ NoJob \notin Jobs
  BY AsyncJobsAssumption DEF Allocated
<1> QED  BY <1>1, FS_Subset, FS_CardinalityType

\* A sequence without repetitions is as long as the set of its elements is big.
LEMMA LenIsCardinality ==
    ASSUME NEW S, NEW s \in Seq(S), Injective(s)
    PROVE  IsFiniteSet(ToSet(s)) /\ Cardinality(ToSet(s)) = Len(s)
<1> DEFINE n == Len(s)
           T == ToSet(s)
<1>1. n \in Nat /\ DOMAIN s = 1 .. n
  OBVIOUS
<1>2. s \in [1 .. n -> T]
  <2>1. \A i \in 1 .. n : s[i] \in T
    BY ToSetFacts
  <2> QED  BY <1>1, <2>1
<1>3. \A x \in T : \E i \in 1 .. n : s[i] = x
  BY ToSetFacts
<1>4. \A i, j \in 1 .. n : s[i] = s[j] => i = j
  BY DEF Injective
<1> HIDE DEF n, T
<1>5. s \in Bijection(1 .. n, T)
  BY <1>2, <1>3, <1>4 DEF Bijection, Injection, Surjection, IsInjective
<1>6. IsFiniteSet(1 .. n) /\ Cardinality(1 .. n) = n
  <2>1. 1 \in Int /\ n \in Int
    BY <1>1
  <2>2. IsFiniteSet(1 .. n) /\ Cardinality(1 .. n) = IF 1 > n THEN 0 ELSE n - 1 + 1
    BY <2>1, FS_Interval
  <2> QED  BY <1>1, <2>2
<1>7. IsFiniteSet(T) /\ Cardinality(T) = Cardinality(1 .. n)
  BY <1>5, <1>6, FS_Bijection DEF ExistsBijection
<1> QED  BY <1>6, <1>7 DEF n, T

\* A stack that has to grow gets no smaller.
LEMMA GrownFacts ==
    ASSUME room \in Nat
    PROVE  Grown \in Nat /\ room <= Grown
BY AsyncJobsAssumption DEF Grown

\* A job is released by async_release_job: it is in the pool or lost, and lost only
\* when the stack was made with less storage than the limit asks for.
LEMMA Released ==
    ASSUME NEW p \in PoolRecord, Injective(p.jobs), NEW j \in Jobs, j \notin ToSet(p.jobs),
           NEW S, IsFiniteSet(S), ToSet(p.jobs) \cup {j} \subseteq S,
           p.curr_size = Cardinality(S), p.max_size > 0 => p.curr_size <= p.max_size,
           room \in Nat, reserve \in Nat, reserve <= room, reserve' = reserve,
           lost # {} => p.max_size = 0 \/ reserve < p.max_size,
           async_release_job(p, j)
    PROVE  /\ pool' \in PoolRecord /\ Injective(pool'.jobs) /\ room' \in Nat /\ Stored'
           /\ pool'.curr_size = p.curr_size /\ pool'.max_size = p.max_size
           /\ pool'.ready = p.ready
           /\ \/ Pooled' = ToSet(p.jobs) \cup {j} /\ lost' = lost
              \/ Pooled' = ToSet(p.jobs) /\ lost' = lost \cup {j}
<1>1. /\ p.jobs \in Seq(Jobs) /\ p.curr_size \in Nat /\ p.max_size \in Nat
      /\ p.ready \in BOOLEAN
  BY DEF PoolRecord
<1>2. CASE /\ pool' = [p EXCEPT !.jobs = Append(@, j)]
           /\ room' = IF Full(p) THEN Grown ELSE room
           /\ lost' = lost
  <2> DEFINE t == Append(p.jobs, j)
  <2>1. t \in Seq(Jobs) /\ Injective(t) /\ ToSet(t) = ToSet(p.jobs) \cup {j}
    BY <1>1, AppendOne
  <2>2. pool' = [p EXCEPT !.jobs = t]
    BY <1>2
  <2> HIDE DEF t
  <2>3. /\ pool' \in PoolRecord /\ pool'.jobs = t
        /\ pool'.curr_size = p.curr_size /\ pool'.max_size = p.max_size
        /\ pool'.ready = p.ready
    BY <1>1, <2>1, <2>2 DEF PoolRecord
  <2>4. room' \in Nat /\ room <= room'
    BY <1>2, GrownFacts
  <2>5. Stored'
    <3>1. reserve' <= room'
      BY <2>4
    <3> QED  BY <1>2, <2>3, <3>1 DEF Stored
  <2> QED  BY <1>2, <2>1, <2>3, <2>4, <2>5 DEF Pooled
<1>3. CASE Full(p) /\ pool' = p /\ room' = room /\ lost' = lost \cup {j}
  <2>1. IsFiniteSet(ToSet(p.jobs)) /\ Cardinality(ToSet(p.jobs)) = Len(p.jobs)
    BY <1>1, LenIsCardinality
  <2>2. Cardinality(ToSet(p.jobs) \cup {j}) = Len(p.jobs) + 1
    BY <2>1, FS_AddElement
  <2>3. Cardinality(ToSet(p.jobs) \cup {j}) <= p.curr_size
    BY FS_Subset
  <2>4. room <= Len(p.jobs) /\ Len(p.jobs) \in Nat
    BY <1>1, <1>3 DEF Full
  <2>5. p.max_size = 0 \/ reserve < p.max_size
    BY <1>1, <2>2, <2>3, <2>4
  <2>6. Stored'
    BY <1>3, <2>5 DEF Stored
  <2> QED  BY <1>3, <2>6 DEF Pooled
<1> QED  BY <1>2, <1>3 DEF async_release_job

\* A job that returns is released; the invariant is preserved.
LEMMA FinishInv ==
    ASSUME IInv, NEW c \in Clients, FinishJob(c)
    PROVE  IInv'
<1> DEFINE j == currjob
<1>0. Types /\ Placed /\ Located /\ Stored /\ Counted /\ Serving /\ Waits
  BY DEF IInv
<1>1. /\ Running /\ c = caller /\ currjob' = NoJob /\ caller' = NoClient /\ default' = libctx
      /\ UNCHANGED <<reserve, leaked, blocked, libctx, round, fds, num, watched, appctx, jobctx>>
      /\ handle' = [handle EXCEPT ![c] = NoJob] /\ async_release_job(pool, j)
      /\ job' = [job EXCEPT ![j].status = "STOPPING", ![j].stack = Top,
                            ![j].libctx = default, ![j].waitctx = NoClient, ![j].funcargs = Top]
      /\ answer' = [answer EXCEPT ![c] = job[j].stack]
  BY DEF FinishJob, waits, storage
<1>2. /\ j \in Jobs /\ j # NoJob /\ j \in Allocated /\ job[j].stack = <<c, round[c]>>
      /\ libctx = appctx /\ handle[c] \in {NoJob, j}
  BY <1>0, <1>1, ClientIsCaller DEF Serving, Running
<1>3. /\ job'[j].status = "STOPPING" /\ job'[j].stack = Top
      /\ job' \in [Jobs -> JobRecord] /\ \A i \in Jobs \ {j} : job'[i] = job[i]
  <2> DEFINE r == [job[j] EXCEPT !.status = "STOPPING", !.stack = Top, !.libctx = default,
                                 !.waitctx = NoClient, !.funcargs = Top]
  <2>1. job \in [Jobs -> JobRecord] /\ job[j] \in JobRecord /\ default \in LibCtxs
    BY <1>0, <1>2 DEF Types
  <2>2. job' = [job EXCEPT ![j] = r]
    BY <1>1, <1>2, <2>1
  <2>3. r \in JobRecord /\ r.status = "STOPPING" /\ r.stack = Top
    BY <2>1 DEF JobRecord
  <2> HIDE DEF r
  <2> QED  BY <1>2, <2>1, <2>2, <2>3
<1>4. handle'[c] = NoJob /\ (\A d \in Clients \ {c} : handle'[d] = handle[d])
      /\ handle' \in [Clients -> Jobs \cup {NoJob}]
  BY <1>0, <1>1, <1>2 DEF Types
<1>5. Allocated' = Allocated
  BY <1>2, <1>3 DEF Allocated
<1>6. \A d \in Clients : Held(d)' <=> Held(d)
  <2>1. \A d \in Clients : Held(d)' <=> handle'[d] # NoJob
    BY <1>1, AsyncJobsAssumption DEF Held
  <2> QED  BY <1>1, <1>4, <2>1 DEF Held
<1>l0. SomePlace(j) /\ j \notin Missing /\ j \notin Pooled
  BY <1>0, <1>2 DEF SomePlace, Located, Placed
<1>7. /\ pool' \in PoolRecord /\ room' \in Nat
      /\ Injective(pool'.jobs) /\ Stored'
      /\ pool'.curr_size = pool.curr_size /\ pool'.max_size = pool.max_size
      /\ pool'.ready = pool.ready
      /\ \/ Pooled' = Pooled \cup {j} /\ lost' = lost
         \/ Pooled' = Pooled /\ lost' = lost \cup {j}
  <2>1. /\ pool \in PoolRecord /\ room \in Nat /\ reserve \in Nat
        /\ Injective(pool.jobs) /\ j \in Jobs /\ j \notin ToSet(pool.jobs)
    BY <1>0, <1>2, <1>l0 DEF Types, Placed, Pooled
  <2>2. /\ IsFiniteSet(Allocated \ leaked)
        /\ ToSet(pool.jobs) \cup {j} \subseteq Allocated \ leaked
    <3>1. \A i \in Pooled : i \in Allocated /\ i \in Jobs /\ i \notin leaked
      BY <1>0 DEF Placed, Located, SomePlace, Missing, Allocated
    <3>2. j \in Allocated /\ j \notin leaked
      BY <1>2, <1>l0 DEF Missing
    <3>3. IsFiniteSet(Allocated \ leaked)
      BY AllocatedFacts, FS_Subset
    <3> QED  BY <3>1, <3>2, <3>3 DEF Pooled
  <2>3. /\ pool.curr_size = Cardinality(Allocated \ leaked)
        /\ pool.max_size > 0 => pool.curr_size <= pool.max_size
        /\ reserve <= room /\ (lost # {} => pool.max_size = 0 \/ reserve < pool.max_size)
    BY <1>0 DEF Counted, Stored
  <2>4. reserve' = reserve /\ async_release_job(pool, j)
    BY <1>1
  <2> HIDE DEF j
  <2> QED  BY <2>1, <2>2, <2>3, <2>4, Released DEF Pooled
<1>8. Types'
  <2>1. answer' \in [Clients -> Calls \cup {Top}]
    BY <1>0, <1>1, <1>2 DEF Types, JobRecord
  <2> QED  BY <1>0, <1>1, <1>3, <1>4, <1>7, <2>1 DEF Types
<1>9. Placed'
  <2>1. \A i \in Pooled' : i \in Allocated /\ i # NoJob /\ job'[i].stack = Top
    BY <1>0, <1>2, <1>3, <1>7, AsyncJobsAssumption DEF Placed, Allocated
  <2>2. ASSUME NEW d \in Clients, Held(d)'
        PROVE  /\ handle'[d] \in Allocated /\ handle'[d] \notin Pooled'
               /\ job'[handle'[d]].stack = <<d, round[d]>> /\ job'[handle'[d]].waitctx = d
               /\ job'[handle'[d]].libctx = jobctx[d]
               /\ \A b \in Clients : Held(b)' /\ handle'[b] = handle'[d] => b = d
    <3>1. Held(d)
      BY <1>6, <2>2
    <3>2. \A b \in Clients : Held(b) => handle'[b] = handle[b]
      BY <1>1, <1>4 DEF Held
    <3>3. handle[d] \in Jobs \ {j} /\ handle[d] \notin Pooled
      BY <1>0, <3>1 DEF Placed, Allocated
    <3>4. job'[handle'[d]] = job[handle[d]]
      BY <1>3, <3>1, <3>2, <3>3
    <3>5. \A b \in Clients : Held(b)' /\ handle'[b] = handle'[d] => b = d
      BY <1>0, <1>6, <3>1, <3>2 DEF Placed
    <3> QED  BY <1>0, <1>7, <3>1, <3>2, <3>3, <3>4, <3>5 DEF Placed
  <2>4. \A i \in Jobs \ Allocated : job'[i] = Unallocated
    BY <1>0, <1>2, <1>3 DEF Placed
  <2>5. \A i \in Allocated : i \in Jobs /\ i # NoJob
    BY AsyncJobsAssumption DEF Allocated
  <2>p. \A i \in Pooled' : i \in Allocated' /\ i # currjob' /\ job'[i].stack = Top
    BY <1>1, <1>5, <2>1
  <2>h. \A d \in Clients : Held(d)' =>
            /\ handle'[d] \in Allocated' /\ handle'[d] \notin Pooled' /\ handle'[d] # currjob'
            /\ job'[handle'[d]].stack = <<d, round'[d]>>
            /\ job'[handle'[d]].waitctx = d
            /\ job'[handle'[d]].libctx = jobctx'[d]
            /\ \A b \in Clients : Held(b)' /\ handle'[b] = handle'[d] => b = d
    BY <1>1, <1>5, <2>2, <2>5
  <2>u. Injective(pool'.jobs) /\ \A i \in Jobs \ Allocated' : job'[i] = Unallocated
    BY <1>5, <1>7, <2>4
  <2> QED  BY <2>p, <2>h, <2>u DEF Placed
<1>10. Counted' /\ Stored'
  BY <1>0, <1>1, <1>5, <1>7 DEF Counted
<1>l. Located'
  <2>1. leaked' = leaked /\ \A d \in Clients : Held(d) => handle'[d] = handle[d]
    BY <1>1, <1>4 DEF Held
  <2>2. \A i \in Jobs : SomePlace(i)' <=> i \in Pooled' \/ (SomePlace(i) /\ i \notin Pooled /\ i # j)
    <3> SUFFICES ASSUME NEW i \in Jobs
                 PROVE  SomePlace(i)' <=> i \in Pooled' \/ (SomePlace(i) /\ i \notin Pooled /\ i # j)
      OBVIOUS
    <3>1. i # currjob'
      BY <1>1, AsyncJobsAssumption
    <3>2. \A d \in Clients : Held(d) => handle[d] # j /\ handle[d] \notin Pooled
      BY <1>0 DEF Placed
    <3> QED  BY <1>4, <1>6, <2>1, <3>1, <3>2 DEF SomePlace
  <2>3. \A i \in Pooled : SomePlace(i) /\ i # j
    BY <1>l0 DEF SomePlace
  <2>4. CASE Pooled' = Pooled \cup {j} /\ lost' = lost
    <3>1. \A i \in Jobs : SomePlace(i)' <=> SomePlace(i)
      BY <1>l0, <2>2, <2>3, <2>4
    <3>2. Missing' = Missing
      BY <2>1, <2>4 DEF Missing
    <3> QED  BY <1>0, <1>5, <2>1, <2>4, <3>1, <3>2 DEF Located
  <2>5. CASE Pooled' = Pooled /\ lost' = lost \cup {j}
    <3>1. \A i \in Jobs : SomePlace(i)' <=> SomePlace(i) /\ i # j
      BY <1>l0, <2>2, <2>3, <2>5
    <3>2. Missing' = Missing \cup {j} /\ lost' \cap leaked' = {}
      BY <1>0, <1>l0, <2>1, <2>5 DEF Missing, Located
    <3> QED  BY <1>0, <1>2, <1>5, <2>1, <3>1, <3>2 DEF Located
  <2> QED  BY <1>7, <2>4, <2>5
<1>11. Serving'
  <2>1. answer'[c] = <<c, round[c]>> /\ \A d \in Clients \ {c} : answer'[d] = answer[d]
    BY <1>0, <1>1, <1>2 DEF Types
  <2> QED  BY <1>0, <1>1, <1>2, <2>1 DEF Serving, Running
<1>12. Waits'
  <2> SUFFICES ASSUME NEW d \in Clients
               PROVE  /\ WaitCtx(fds[d], watched[d], num[d])
                      /\ IF Held(d)' THEN watched[d] = KeysOf(LiveIn(fds[d]))
                                     ELSE Unseen(fds[d], watched[d])
    BY <1>1 DEF Waits
  <2> QED  BY <1>0, <1>6 DEF Waits
<1> QED  BY <1>8, <1>9, <1>10, <1>l, <1>11, <1>12 DEF IInv

-----------------------------------------------------------------------------
(* The steps that take a job, make one or free all *)

\* The empty pool.
LEMMA EmptyPoolFacts ==
    /\ <<>> \in Seq(Jobs) /\ Injective(<<>>) /\ ToSet(<<>>) = {}
BY DEF Injective, ToSet

\* async_get_pool_job takes the job out of the pool or makes one that the limit
\* allows.
LEMMA GetJob ==
    ASSUME IInv, NEW j \in Jobs, async_get_pool_job(j)
    PROVE  /\ PoolWithout \in PoolRecord /\ Injective(PoolWithout.jobs)
           /\ ToSet(PoolWithout.jobs) = Pooled \ {j}
           /\ PoolWithout.ready /\ PoolWithout.max_size = pool.max_size
           /\ PoolWithout.curr_size = Cardinality((Allocated \cup {j}) \ leaked)
           /\ PoolWithout.max_size > 0 => PoolWithout.curr_size <= PoolWithout.max_size
           /\ j \in Allocated => j \in Pooled
           /\ j \notin Missing
<1> DEFINE q == PoolWithout
           t == IF pool.jobs = <<>> THEN pool.jobs ELSE Front(pool.jobs)
           n == pool.curr_size + IF pool.jobs = <<>> THEN 1 ELSE 0
<1>0. pool \in PoolRecord /\ Injective(pool.jobs) /\ Counted /\ Placed /\ Located
  BY DEF IInv, Types, Placed
<1>1. q = [pool EXCEPT !.ready = TRUE, !.jobs = t, !.curr_size = n]
  BY DEF PoolWithout
<1>2. n \in Nat /\ pool.jobs \in Seq(Jobs) /\ pool.curr_size \in Nat /\ pool.max_size \in Nat
  BY <1>0 DEF PoolRecord
<1>3. t \in Seq(Jobs) /\ Injective(t) /\ ToSet(t) = Pooled \ {j} /\ (j \in Allocated => j \in Pooled)
  <2>1. CASE pool.jobs = <<>>
    <3>1. t = <<>> /\ Pooled = {}
      BY <2>1, EmptyPoolFacts DEF Pooled
    <3>2. j \notin Allocated
      BY <2>1 DEF async_get_pool_job
    <3> QED  BY <3>1, <3>2, EmptyPoolFacts
  <2>2. CASE pool.jobs # <<>>
    <3>1. t = Front(pool.jobs) /\ j = Last(pool.jobs)
      BY <2>2 DEF async_get_pool_job
    <3>2. /\ Front(pool.jobs) \in Seq(Jobs) /\ Injective(Front(pool.jobs))
          /\ Last(pool.jobs) \in ToSet(pool.jobs)
          /\ ToSet(Front(pool.jobs)) = ToSet(pool.jobs) \ {Last(pool.jobs)}
      BY <1>0, <1>2, <2>2, FrontOne
    <3> QED  BY <3>1, <3>2 DEF Pooled
  <2> QED  BY <2>1, <2>2
<1>m. j \notin Missing
  BY <1>0, <1>3 DEF Located, SomePlace
<1>4. n = Cardinality((Allocated \cup {j}) \ leaked)
  <2> DEFINE K == Allocated \ leaked
  <2>0. pool.curr_size = Cardinality(K) /\ IsFiniteSet(K)
    BY <1>0, AllocatedFacts, FS_Subset DEF Counted
  <2>k. (Allocated \cup {j}) \ leaked = K \cup {j}
    BY <1>m DEF Missing
  <2>1. CASE pool.jobs = <<>>
    <3>1. j \notin K
      BY <2>1 DEF async_get_pool_job
    <3> HIDE DEF K
    <3>2. Cardinality(K \cup {j}) = IF j \in K THEN Cardinality(K) ELSE Cardinality(K) + 1
      BY <2>0, FS_AddElement, Zenon
    <3> QED  BY <1>2, <2>0, <2>k, <2>1, <3>1, <3>2
  <2>2. CASE pool.jobs # <<>>
    <3>1. j \in Pooled
      <4>1. j = Last(pool.jobs)
        BY <2>2 DEF async_get_pool_job
      <4>2. Last(pool.jobs) \in ToSet(pool.jobs)
        BY <1>0, <1>2, <2>2, FrontOne
      <4> QED  BY <4>1, <4>2 DEF Pooled
    <3>2. j \in K
      BY <1>0, <1>m, <3>1 DEF Placed, Missing
    <3>3. K \cup {j} = K /\ n = pool.curr_size
      BY <1>2, <2>2, <3>2
    <3> QED  BY <2>0, <2>k, <3>3
  <2> QED  BY <2>1, <2>2
<1>5. pool.max_size > 0 => n <= pool.max_size
  <2> SUFFICES ASSUME pool.max_size > 0 PROVE n <= pool.max_size
    OBVIOUS
  <2>1. CASE pool.jobs = <<>>
    <3>1. MayGrow
      BY <2>1 DEF async_get_pool_job
    <3> QED  BY <1>2, <2>1, <3>1 DEF MayGrow
  <2>2. CASE pool.jobs # <<>>
    BY <1>0, <1>2, <2>2 DEF Counted
  <2> QED  BY <2>1, <2>2
<1> HIDE DEF t, n
<1>6. /\ q \in PoolRecord /\ q.jobs = t /\ q.curr_size = n /\ q.ready = TRUE
      /\ q.max_size = pool.max_size
  BY <1>0, <1>1, <1>2, <1>3 DEF PoolRecord
<1> HIDE DEF q
<1>7. /\ q \in PoolRecord /\ Injective(q.jobs) /\ ToSet(q.jobs) = Pooled \ {j}
      /\ q.ready /\ q.max_size = pool.max_size
      /\ q.curr_size = Cardinality((Allocated \cup {j}) \ leaked)
      /\ q.max_size > 0 => q.curr_size <= q.max_size
  BY <1>3, <1>4, <1>5, <1>6
<1> QED  BY <1>3, <1>m, <1>7 DEF q

\* The job that is taken runs the call of the client.
LEMMA SwappedFacts ==
    ASSUME NEW old \in JobRecord, old.stack = Top, NEW a \in Calls, NEW c \in Clients
    PROVE  LET r == Swapped([old EXCEPT !.funcargs = a, !.waitctx = c])
           IN  r \in JobRecord /\ r.stack = a /\ r.waitctx = c /\ r.status = old.status
<1> DEFINE b == [old EXCEPT !.funcargs = a, !.waitctx = c]
           r == Swapped(b)
<1>1. /\ b \in JobRecord /\ b.stack = Top /\ b.funcargs = a /\ b.waitctx = c
      /\ b.status = old.status
  BY DEF JobRecord
<1> HIDE DEF b
<1>2. r = [b EXCEPT !.stack = a]
  BY <1>1 DEF Swapped
<1> HIDE DEF r
<1>3. r \in JobRecord /\ r.stack = a /\ r.waitctx = c /\ r.status = old.status
  BY <1>1, <1>2 DEF JobRecord
<1> QED  BY <1>3 DEF r, b

\* A job before and after async_job_new.
LEMMA NewJobFacts ==
    /\ Unallocated \in JobRecord /\ Unallocated.status = "none"
    /\ async_job_new \in JobRecord /\ async_job_new.stack = Top
    /\ async_job_new.status = "RUNNING"
BY DEF Unallocated, JobRecord, async_job_new

\* One job changes and is allocated.
LEMMA OneAllocated ==
    ASSUME job \in [Jobs -> JobRecord], NEW j \in Jobs, NEW r \in JobRecord,
           r.status # "none", job' = [job EXCEPT ![j] = r]
    PROVE  /\ Allocated' = Allocated \cup {j} /\ job' \in [Jobs -> JobRecord]
           /\ job'[j] = r /\ \A i \in Jobs \ {j} : job'[i] = job[i]
<1>1. job'[j] = r /\ (\A i \in Jobs \ {j} : job'[i] = job[i]) /\ job' \in [Jobs -> JobRecord]
  OBVIOUS
<1>2. Allocated' = {i \in Jobs : job'[i].status # "none"}
  BY DEF Allocated
<1> QED  BY <1>1, <1>2 DEF Allocated

\* Starting a job, from the pool, newly allocated, or refused at the limit,
\* preserves the invariant.
LEMMA StartInv ==
    ASSUME IInv, NEW c \in Clients, StartJob(c)
    PROVE  IInv'
<1>0. Types /\ Placed /\ Located /\ Stored /\ Counted /\ Serving /\ Waits
  BY DEF IInv
<1> DEFINE r == 1 - round[c]
<1>1. PICK j \in Jobs :
          /\ async_get_pool_job(j) /\ pool' = PoolWithout /\ currjob' = j /\ caller' = c
          /\ job' = [job EXCEPT ![j] =
                 Swapped([IF j \in Allocated THEN job[j] ELSE async_job_new
                            EXCEPT !.funcargs = <<c, r>>, !.waitctx = c])]
          /\ round' = [round EXCEPT ![c] = r]
  BY DEF StartJob
<1>2. /\ currjob = NoJob /\ handle[c] = NoJob /\ libctx' = default
      /\ jobctx' = [jobctx EXCEPT ![c] = default] /\ answer' = [answer EXCEPT ![c] = Top]
      /\ UNCHANGED <<room, reserve, lost, leaked, blocked, handle, default, fds, num, watched, appctx>>
  BY DEF StartJob, waits, storage
<1>3. /\ PoolWithout \in PoolRecord /\ Injective(PoolWithout.jobs)
      /\ ToSet(PoolWithout.jobs) = Pooled \ {j}
      /\ PoolWithout.ready /\ PoolWithout.curr_size = Cardinality((Allocated \cup {j}) \ leaked)
      /\ PoolWithout.max_size > 0 => PoolWithout.curr_size <= PoolWithout.max_size
      /\ j \in Allocated => j \in Pooled
      /\ j \notin Missing /\ PoolWithout.max_size = pool.max_size
  BY <1>1, GetJob
<1>4. r \in {0, 1} /\ <<c, r>> \in Calls /\ caller = NoClient /\ ~Running /\ j # NoJob
      /\ c # NoClient
  <2>1. round[c] \in {0, 1} /\ caller = NoClient /\ ~Running
    BY <1>0, <1>2 DEF Types, Running
  <2>2. r \in {0, 1}
    BY <2>1
  <2> HIDE DEF r
  <2>3. <<c, r>> \in Calls
    BY <2>2 DEF Calls
  <2>4. j # NoJob /\ c # NoClient
    BY AsyncJobsAssumption
  <2> QED  BY <2>1, <2>2, <2>3, <2>4
<1> HIDE DEF r
<1> DEFINE old == IF j \in Allocated THEN job[j] ELSE async_job_new
           new == Swapped([old EXCEPT !.funcargs = <<c, r>>, !.waitctx = c])
<1>5. old \in JobRecord /\ old.stack = Top /\ old.status # "none"
  <2>1. CASE j \in Allocated
    BY <1>0, <1>3, <2>1 DEF Types, Placed, Allocated
  <2>2. CASE j \notin Allocated
    BY <2>2, NewJobFacts
  <2> QED  BY <2>1, <2>2
<1>6. job' = [job EXCEPT ![j] = new]
  BY <1>1
<1> HIDE DEF old
<1>7. new \in JobRecord /\ new.stack = <<c, r>> /\ new.waitctx = c /\ new.status # "none"
  <2> DEFINE a == <<c, r>>
  <2>1. a \in Calls /\ old \in JobRecord /\ old.stack = Top
    BY <1>4, <1>5
  <2>2. new = Swapped([old EXCEPT !.funcargs = a, !.waitctx = c])
    OBVIOUS
  <2> HIDE DEF a, new
  <2>3. new \in JobRecord /\ new.stack = a /\ new.waitctx = c /\ new.status = old.status
    BY <2>1, <2>2, SwappedFacts
  <2> QED  BY <1>5, <2>3 DEF a
<1> HIDE DEF new
<1>8. /\ Allocated' = Allocated \cup {j} /\ job' \in [Jobs -> JobRecord]
      /\ job'[j] = new /\ \A i \in Jobs \ {j} : job'[i] = job[i]
  BY <1>0, <1>6, <1>7, OneAllocated DEF Types
<1>9. \A d \in Clients : Held(d)' <=> Held(d)
  <2>1. \A d \in Clients : Held(d)' <=> d # c /\ handle[d] # NoJob
    BY <1>1, <1>2 DEF Held
  <2>2. \A d \in Clients : Held(d) <=> handle[d] # NoJob
    BY <1>4, AsyncJobsAssumption DEF Held
  <2> QED  BY <1>2, <2>1, <2>2
<1>10. /\ round' \in [Clients -> {0, 1}] /\ round'[c] = r
       /\ \A d \in Clients \ {c} : round'[d] = round[d] /\ jobctx'[d] = jobctx[d]
                                   /\ answer'[d] = answer[d]
       /\ jobctx' \in [Clients -> LibCtxs] /\ jobctx'[c] = default
       /\ answer' \in [Clients -> Calls \cup {Top}] /\ answer'[c] = Top
  <2>1. /\ round \in [Clients -> {0, 1}] /\ jobctx \in [Clients -> LibCtxs]
        /\ answer \in [Clients -> Calls \cup {Top}] /\ default \in LibCtxs
    BY <1>0 DEF Types
  <2>2. round' \in [Clients -> {0, 1}] /\ round'[c] = r
        /\ \A d \in Clients \ {c} : round'[d] = round[d]
    BY <1>1, <1>4, <2>1
  <2>3. jobctx' \in [Clients -> LibCtxs] /\ jobctx'[c] = default
        /\ \A d \in Clients \ {c} : jobctx'[d] = jobctx[d]
    BY <1>2, <2>1
  <2>4. answer' \in [Clients -> Calls \cup {Top}] /\ answer'[c] = Top
        /\ \A d \in Clients \ {c} : answer'[d] = answer[d]
    BY <1>2, <2>1
  <2> QED  BY <2>2, <2>3, <2>4
<1>11. Types'
  <2>1. pool' \in PoolRecord /\ currjob' \in Jobs /\ caller' \in Clients
        /\ currjob' # NoJob /\ caller' # NoClient /\ libctx' \in LibCtxs
    BY <1>0, <1>1, <1>2, <1>3, <1>4 DEF Types
  <2> QED  BY <1>0, <1>2, <1>8, <1>10, <2>1 DEF Types, PoolRecord
<1>12. Placed'
  <2>0. Pooled' = Pooled \ {j}
    BY <1>1, <1>3 DEF Pooled
  <2>1. \A d \in Clients : Held(d) =>
            d # c /\ handle[d] # j /\ handle[d] \in Jobs /\ handle[d] \in Allocated
    BY <1>0, <1>2, <1>3 DEF Placed, Held, Allocated
  <2>p. \A i \in Pooled' : i \in Allocated' /\ i # currjob' /\ job'[i].stack = Top
    <3> SUFFICES ASSUME NEW i \in Pooled, i # j
                 PROVE  i \in Allocated' /\ i # currjob' /\ job'[i].stack = Top
      BY <2>0
    <3>1. i \in Allocated /\ job[i].stack = Top /\ i \in Jobs
      BY <1>0 DEF Placed, Allocated
    <3> QED  BY <1>1, <1>8, <3>1
  <2>h. \A d \in Clients : Held(d)' =>
            /\ handle'[d] \in Allocated' /\ handle'[d] \notin Pooled' /\ handle'[d] # currjob'
            /\ job'[handle'[d]].stack = <<d, round'[d]>>
            /\ job'[handle'[d]].waitctx = d
            /\ job'[handle'[d]].libctx = jobctx'[d]
            /\ \A b \in Clients : Held(b)' /\ handle'[b] = handle'[d] => b = d
    <3> SUFFICES ASSUME NEW d \in Clients, Held(d)
                 PROVE  /\ handle[d] \in Allocated' /\ handle[d] \notin Pooled'
                        /\ handle[d] # currjob'
                        /\ job'[handle[d]].stack = <<d, round'[d]>>
                        /\ job'[handle[d]].waitctx = d
                        /\ job'[handle[d]].libctx = jobctx'[d]
                        /\ \A b \in Clients : Held(b) /\ handle[b] = handle[d] => b = d
      BY <1>2, <1>9
    <3>1. /\ handle[d] \in Allocated /\ handle[d] \notin Pooled
          /\ job[handle[d]].stack = <<d, round[d]>> /\ job[handle[d]].waitctx = d
          /\ job[handle[d]].libctx = jobctx[d]
          /\ \A b \in Clients : Held(b) /\ handle[b] = handle[d] => b = d
      BY <1>0 DEF Placed
    <3>2. d # c /\ handle[d] # j /\ handle[d] \in Jobs
      BY <2>1
    <3>3. job'[handle[d]] = job[handle[d]] /\ round'[d] = round[d] /\ jobctx'[d] = jobctx[d]
      BY <1>8, <1>10, <3>2
    <3> QED  BY <1>1, <1>8, <2>0, <3>1, <3>2, <3>3
  <2>u. Injective(pool'.jobs) /\ \A i \in Jobs \ Allocated' : job'[i] = Unallocated
    BY <1>0, <1>1, <1>3, <1>8 DEF Placed
  <2> QED  BY <2>p, <2>h, <2>u DEF Placed
<1>13. Counted' /\ Stored'
  BY <1>0, <1>1, <1>2, <1>3, <1>8 DEF Counted, Stored
<1>l. Located'
  <2>1. Missing' = Missing /\ lost' = lost /\ leaked' = leaked /\ Pooled' = Pooled \ {j}
    BY <1>1, <1>2, <1>3 DEF Missing, Pooled
  <2>2. ASSUME NEW i \in Jobs PROVE SomePlace(i)' <=> SomePlace(i) \/ i = j
    <3>1. i # currjob
      BY <1>2, AsyncJobsAssumption
    <3> QED  BY <1>1, <1>2, <1>9, <2>1, <3>1 DEF SomePlace
  <2> QED  BY <1>0, <1>3, <1>8, <2>1, <2>2 DEF Located
<1>14. Serving'
  <2>1. default = appctx
    BY <1>0, <1>4 DEF Serving
  <2>2. \A d \in Clients : answer'[d] \in {Top, <<d, round'[d]>>}
    BY <1>0, <1>10 DEF Serving
  <2> QED  BY <1>1, <1>2, <1>4, <1>7, <1>8, <1>10, <2>1, <2>2 DEF Serving, Running
<1>15. Waits'
  <2> SUFFICES ASSUME NEW d \in Clients
               PROVE  /\ WaitCtx(fds[d], watched[d], num[d])
                      /\ IF Held(d)' THEN watched[d] = KeysOf(LiveIn(fds[d]))
                                     ELSE Unseen(fds[d], watched[d])
    BY <1>2 DEF Waits
  <2> QED  BY <1>0, <1>9 DEF Waits
<1> QED  BY <1>11, <1>12, <1>13, <1>l, <1>14, <1>15 DEF IInv

\* The job that could not be used is released, at the head of its loop.
LEMMA StartNoMemoryInv ==
    ASSUME IInv, NEW c \in Clients, StartJobNoMemory(c)
    PROVE  IInv'
<1>0. Types /\ Placed /\ Located /\ Stored /\ Counted /\ Serving /\ Waits
  BY DEF IInv
<1>1. PICK j \in Jobs :
          /\ async_get_pool_job(j) /\ async_release_job(PoolWithout, j)
          /\ job' = IF j \in Allocated THEN [job EXCEPT ![j].funcargs = Top]
                    ELSE [job EXCEPT ![j] = async_job_new]
  BY DEF StartJobNoMemory
<1>2. /\ currjob = NoJob
      /\ UNCHANGED <<reserve, leaked, currjob, blocked, caller, libctx, handle, round, answer, default,
                     fds, num, watched, appctx, jobctx>>
  BY DEF StartJobNoMemory, waits, storage
<1> DEFINE q == PoolWithout
           new == IF j \in Allocated THEN [job[j] EXCEPT !.funcargs = Top] ELSE async_job_new
<1>3. /\ q \in PoolRecord /\ Injective(q.jobs) /\ ToSet(q.jobs) = Pooled \ {j}
      /\ q.ready /\ q.curr_size = Cardinality((Allocated \cup {j}) \ leaked)
      /\ q.max_size > 0 => q.curr_size <= q.max_size
      /\ j \in Allocated => j \in Pooled
      /\ j \notin Missing /\ q.max_size = pool.max_size
  BY <1>1, GetJob
<1>4. async_release_job(q, j)
  BY <1>1
<1> HIDE DEF q
<1>5. /\ pool' \in PoolRecord /\ Injective(pool'.jobs) /\ room' \in Nat /\ Stored'
      /\ pool'.curr_size = q.curr_size /\ pool'.max_size = q.max_size /\ pool'.ready = q.ready
      /\ \/ Pooled' = (Pooled \ {j}) \cup {j} /\ lost' = lost
         \/ Pooled' = Pooled \ {j} /\ lost' = lost \cup {j}
  <2> DEFINE S == (Allocated \cup {j}) \ leaked
  <2>1. q \in PoolRecord /\ Injective(q.jobs) /\ j \notin ToSet(q.jobs)
    BY <1>3
  <2>2. IsFiniteSet(S) /\ ToSet(q.jobs) \cup {j} \subseteq S
    <3>1. \A i \in Pooled : i \in Allocated /\ i \in Jobs /\ i \notin leaked
      BY <1>0 DEF Placed, Located, SomePlace, Missing, Allocated
    <3>2. IsFiniteSet(Allocated \cup {j})
      BY AllocatedFacts, FS_AddElement
    <3>3. IsFiniteSet(S)
      BY <3>2, FS_Subset
    <3> QED  BY <1>3, <3>1, <3>3 DEF Missing
  <2>3. /\ reserve <= room /\ (lost # {} => q.max_size = 0 \/ reserve < q.max_size)
        /\ room \in Nat /\ reserve \in Nat /\ reserve' = reserve
    BY <1>0, <1>2, <1>3 DEF Stored, Types
  <2>4. q.curr_size = Cardinality(S) /\ (q.max_size > 0 => q.curr_size <= q.max_size)
    BY <1>3
  <2> HIDE DEF S
  <2>5. /\ pool' \in PoolRecord /\ Injective(pool'.jobs) /\ room' \in Nat /\ Stored'
        /\ pool'.curr_size = q.curr_size /\ pool'.max_size = q.max_size
        /\ pool'.ready = q.ready
        /\ \/ Pooled' = ToSet(q.jobs) \cup {j} /\ lost' = lost
           \/ Pooled' = ToSet(q.jobs) /\ lost' = lost \cup {j}
    BY <1>4, <2>1, <2>2, <2>3, <2>4, Released
  <2> QED  BY <1>3, <2>5
<1>6. new \in JobRecord /\ new.stack = Top /\ new.status # "none" /\ job' = [job EXCEPT ![j] = new]
  <2>1. CASE j \in Allocated
    <3>1. job[j] \in JobRecord /\ job[j].stack = Top /\ job[j].status # "none"
      BY <1>0, <1>3, <2>1 DEF Types, Placed, Allocated
    <3>2. new = [job[j] EXCEPT !.funcargs = Top] /\ job' = [job EXCEPT ![j] = new]
      BY <1>0, <1>1, <2>1 DEF Types
    <3> HIDE DEF new
    <3>3. new \in JobRecord /\ new.stack = Top /\ new.status # "none"
      BY <3>1, <3>2 DEF JobRecord
    <3> QED  BY <3>2, <3>3
  <2>2. CASE j \notin Allocated
    <3>1. new = async_job_new /\ job' = [job EXCEPT ![j] = new]
      BY <1>1, <2>2
    <3> HIDE DEF new
    <3> QED  BY <3>1, NewJobFacts
  <2> QED  BY <2>1, <2>2
<1> HIDE DEF new
<1>7. /\ Allocated' = Allocated \cup {j} /\ job' \in [Jobs -> JobRecord]
      /\ job'[j] = new /\ \A i \in Jobs \ {j} : job'[i] = job[i]
  BY <1>0, <1>6, OneAllocated DEF Types
<1>8. \A d \in Clients : Held(d)' <=> Held(d)
  BY <1>2 DEF Held
<1>9. Types'
  BY <1>0, <1>2, <1>5, <1>7 DEF Types, PoolRecord
<1>10. Placed'
  <2>p. \A i \in Pooled' : i \in Allocated' /\ i # currjob' /\ job'[i].stack = Top
    <3> SUFFICES ASSUME NEW i \in Pooled'
                 PROVE  i \in Allocated' /\ i # NoJob /\ job'[i].stack = Top
      BY <1>2
    <3>1. CASE i = j
      BY <1>6, <1>7, <3>1, AsyncJobsAssumption
    <3>2. CASE i # j
      <4>1. i \in Allocated /\ job[i].stack = Top /\ i \in Jobs /\ i # NoJob
        BY <1>0, <1>5, <3>2, AsyncJobsAssumption DEF Placed, Allocated
      <4> QED  BY <1>7, <3>2, <4>1
    <3> QED  BY <3>1, <3>2
  <2>h. \A d \in Clients : Held(d)' =>
            /\ handle'[d] \in Allocated' /\ handle'[d] \notin Pooled' /\ handle'[d] # currjob'
            /\ job'[handle'[d]].stack = <<d, round'[d]>>
            /\ job'[handle'[d]].waitctx = d
            /\ job'[handle'[d]].libctx = jobctx'[d]
            /\ \A b \in Clients : Held(b)' /\ handle'[b] = handle'[d] => b = d
    <3>0. round' = round /\ jobctx' = jobctx /\ currjob' = currjob /\ handle' = handle
      BY <1>2
    <3> SUFFICES ASSUME NEW d \in Clients, Held(d)
                 PROVE  /\ handle[d] \in Allocated' /\ handle[d] \notin Pooled'
                        /\ handle[d] # currjob
                        /\ job'[handle[d]].stack = <<d, round[d]>>
                        /\ job'[handle[d]].waitctx = d
                        /\ job'[handle[d]].libctx = jobctx[d]
                        /\ \A b \in Clients : Held(b) /\ handle[b] = handle[d] => b = d
      BY <1>8, <3>0, Zenon
    <3>1. /\ handle[d] \in Allocated /\ handle[d] \notin Pooled /\ handle[d] # currjob
          /\ job[handle[d]].stack = <<d, round[d]>> /\ job[handle[d]].waitctx = d
          /\ job[handle[d]].libctx = jobctx[d]
          /\ \A b \in Clients : Held(b) /\ handle[b] = handle[d] => b = d
      BY <1>0 DEF Placed
    <3>2. handle[d] # j /\ handle[d] \in Jobs
      BY <1>3, <3>1 DEF Allocated
    <3>3. job'[handle[d]] = job[handle[d]]
      BY <1>7, <3>2
    <3> QED  BY <1>5, <1>7, <3>1, <3>2, <3>3
  <2>u. Injective(pool'.jobs) /\ \A i \in Jobs \ Allocated' : job'[i] = Unallocated
    BY <1>0, <1>5, <1>7 DEF Placed
  <2> QED  BY <2>p, <2>h, <2>u DEF Placed
<1>11. Counted' /\ Stored'
  BY <1>2, <1>3, <1>5, <1>7 DEF Counted
<1>l. Located'
  <2>0. leaked' = leaked /\ j # currjob
    BY <1>2, AsyncJobsAssumption
  <2>1. \A i \in Jobs : SomePlace(i)' <=> i \in Pooled' \/ (SomePlace(i) /\ i \notin Pooled)
    <3>1. \A d \in Clients : Held(d) => handle[d] \notin Pooled
      BY <1>0 DEF Placed
    <3>2. currjob \notin Pooled
      BY <1>0 DEF Placed
    <3> QED  BY <1>2, <1>8, <3>1, <3>2 DEF SomePlace
  <2>2. j \notin Pooled => ~SomePlace(j)
    BY <1>0, <1>3 DEF Located
  <2>3. \A i \in Pooled : SomePlace(i)
    BY DEF SomePlace
  <2>4. CASE Pooled' = (Pooled \ {j}) \cup {j} /\ lost' = lost
    <3>1. \A i \in Jobs : SomePlace(i)' <=> SomePlace(i) \/ i = j
      BY <2>1, <2>3, <2>4
    <3>2. Missing' = Missing
      BY <2>0, <2>4 DEF Missing
    <3> QED  BY <1>0, <1>3, <1>7, <2>0, <2>4, <3>1, <3>2 DEF Located
  <2>5. CASE Pooled' = Pooled \ {j} /\ lost' = lost \cup {j}
    <3>1. \A i \in Jobs : SomePlace(i)' <=> SomePlace(i) /\ i # j
      BY <2>1, <2>2, <2>3, <2>5
    <3>2. Missing' = Missing \cup {j} /\ lost' \cap leaked' = {}
      BY <1>0, <1>3, <2>0, <2>5 DEF Missing, Located
    <3> QED  BY <1>0, <1>7, <3>1, <3>2 DEF Located
  <2> QED  BY <1>5, <2>4, <2>5
<1>12. Serving'
  BY <1>0, <1>2 DEF Serving, Running
<1>13. Waits'
  BY <1>0, <1>2, KeepWaits
<1> QED  BY <1>9, <1>10, <1>11, <1>l, <1>12, <1>13 DEF IInv

\* A thread with no pool has no jobs but those that were leaked, so that what is
\* made is all the pool knows.
LEMMA InitThreadInv ==
    ASSUME IInv, NEW m \in MaxSizes, NEW n \in 0 .. m, ASYNC_init_thread(m, n)
    PROVE  IInv'
<1>0. Types /\ Placed /\ Located /\ Stored /\ Counted /\ Serving /\ Waits
  BY DEF IInv
<1>1. /\ ~pool.ready
      /\ reserve' = Reserved(n) /\ room' = reserve'
      /\ UNCHANGED <<lost, leaked, currjob, blocked, caller, libctx, handle, round, answer, default,
                     fds, num, watched, appctx, jobctx>>
  BY DEF ASYNC_init_thread, waits, storage
<1>2. PICK new \in SUBSET (Jobs \ Allocated) : \E jobs \in SetToSeqs(new) :
          /\ Cardinality(new) <= n
          /\ job' = [j \in Jobs |-> IF j \in new THEN async_job_new ELSE job[j]]
          /\ pool' = [ready |-> TRUE, jobs |-> jobs,
                      curr_size |-> Cardinality(new), max_size |-> m]
  BY DEF ASYNC_init_thread
<1>3. PICK jobs \in SetToSeqs(new) :
          /\ Cardinality(new) <= n
          /\ job' = [j \in Jobs |-> IF j \in new THEN async_job_new ELSE job[j]]
          /\ pool' = [ready |-> TRUE, jobs |-> jobs,
                      curr_size |-> Cardinality(new), max_size |-> m]
  BY <1>2
<1>4. /\ Allocated = leaked /\ lost = {} /\ Pooled = {} /\ (\A d \in Clients : ~Held(d))
      /\ currjob = NoJob
  <2>1. Allocated = leaked /\ lost = {}
    BY <1>0, <1>1 DEF Counted, Located, Missing
  <2>2. \A i \in Jobs : ~SomePlace(i)
    BY <1>0, <2>1 DEF Located, Missing
  <2>3. Pooled \subseteq Jobs /\ (currjob \in Jobs \/ currjob = NoJob)
        /\ \A d \in Clients : Held(d) => handle[d] \in Jobs
    BY <1>0 DEF Placed, Allocated, Types
  <2> QED  BY <2>1, <2>2, <2>3 DEF SomePlace
<1>5. IsFiniteSet(new) /\ Cardinality(new) \in Nat /\ new \subseteq Jobs /\ new \cap Allocated = {}
  BY AsyncJobsAssumption, FS_Subset, FS_CardinalityType
<1>6. jobs \in Seq(new) /\ Injective(jobs) /\ ToSet(jobs) = new
  BY <1>5, SeqOfNew
<1>7. jobs \in Seq(Jobs)
  <2>1. \A k \in 1 .. Len(jobs) : jobs[k] \in Jobs
    BY <1>5, <1>6
  <2> QED  BY <1>6, <2>1, SeqOfSubset
<1>8. /\ \A j \in new : job'[j] = async_job_new
      /\ \A j \in Jobs \ new : job'[j] = job[j]
      /\ job' \in [Jobs -> JobRecord]
  <2>1. job \in [Jobs -> JobRecord]
    BY <1>0 DEF Types
  <2> QED  BY <1>3, <1>5, <2>1, NewJobFacts
<1>9. Allocated' = Allocated \cup new
  <2>1. Allocated' = {j \in Jobs : job'[j].status # "none"}
    BY DEF Allocated
  <2> QED  BY <1>5, <1>8, <2>1, NewJobFacts DEF Allocated
<1>s. reserve' \in Nat /\ room' \in Nat
  BY <1>1, AsyncJobsAssumption DEF Reserved
<1>10. m \in Nat /\ n \in Nat /\ n <= m
  BY AsyncJobsAssumption
<1>11. /\ pool' \in PoolRecord /\ pool'.jobs = jobs /\ pool'.curr_size = Cardinality(new)
       /\ pool'.max_size = m /\ pool'.ready = TRUE
  BY <1>3, <1>5, <1>7, <1>10 DEF PoolRecord
<1>12. Pooled' = new
  BY <1>6, <1>11 DEF Pooled
<1>13. Types'
  BY <1>0, <1>1, <1>8, <1>s, <1>11 DEF Types
<1>14. Placed'
  <2>1. \A d \in Clients : ~Held(d)'
    BY <1>1, <1>4 DEF Held
  <2>2. \A i \in Pooled' : i \in Allocated' /\ i # currjob' /\ job'[i].stack = Top
    <3> SUFFICES ASSUME NEW i \in new PROVE i # NoJob /\ job'[i].stack = Top
      BY <1>1, <1>4, <1>9, <1>12
    <3> QED  BY <1>5, <1>8, NewJobFacts, AsyncJobsAssumption
  <2>4. Injective(pool'.jobs) /\ \A i \in Jobs \ Allocated' : job'[i] = Unallocated
    BY <1>0, <1>6, <1>8, <1>9, <1>11 DEF Placed
  <2> QED  BY <2>1, <2>2, <2>4 DEF Placed
<1>15. Counted' /\ Stored'
  <2>1. Allocated' \ leaked' = new
    BY <1>1, <1>4, <1>5, <1>9
  <2>2. Counted'
    BY <1>3, <1>5, <1>10, <1>11, <2>1 DEF Counted
  <2> QED  BY <1>1, <1>4, <1>s, <2>2 DEF Stored
<1>l. Located'
  <2>1. Missing' = leaked /\ lost' \cap leaked' = {} /\ \A d \in Clients : ~Held(d)'
    BY <1>1, <1>4 DEF Missing, Held
  <2>2. \A i \in Jobs : SomePlace(i)' <=> i \in new
    BY <1>1, <1>4, <1>12, <2>1, AsyncJobsAssumption DEF SomePlace
  <2> QED  BY <1>4, <1>5, <1>9, <2>1, <2>2 DEF Located
<1>16. Serving'
  BY <1>0, <1>1, <1>4 DEF Serving, Running
<1>17. Waits'
  BY <1>0, <1>1, KeepWaits
<1> QED  BY <1>13, <1>14, <1>15, <1>l, <1>16, <1>17 DEF IInv

\* With no job outstanding all that were not lost are in the pool, and none of
\* those is left.
LEMMA CleanupInv ==
    ASSUME IInv, ASYNC_cleanup_thread
    PROVE  IInv'
<1>0. Types /\ Placed /\ Located /\ Stored /\ Counted /\ Serving /\ Waits
  BY DEF IInv
<1>1. /\ currjob = NoJob /\ (\A c \in Clients : handle[c] = NoJob)
      /\ job' = [j \in Jobs |-> IF j \in Pooled THEN Unallocated ELSE job[j]]
      /\ pool' = [ready |-> FALSE, jobs |-> <<>>, curr_size |-> 0, max_size |-> 0]
      /\ room' = 0 /\ reserve' = 0 /\ lost' = {} /\ leaked' = leaked \cup lost /\ blocked' = 0
      /\ UNCHANGED <<currjob, caller, libctx, handle, round, answer, default,
                     fds, num, watched, appctx, jobctx>>
  BY DEF ASYNC_cleanup_thread, async_empty_pool, waits, Pooled
<1>2. \A c \in Clients : ~Held(c) /\ ~Held(c)'
  BY <1>1 DEF Held
<1>3. \A j \in Jobs : j \in Pooled <=> j \in Allocated /\ j \notin Missing
  <2>1. \A j \in Jobs : SomePlace(j) <=> j \in Pooled
    BY <1>1, <1>2, AsyncJobsAssumption DEF SomePlace
  <2> QED  BY <1>0, <2>1 DEF Located
<1>4. /\ \A j \in Jobs : job'[j] = IF j \in Pooled THEN Unallocated ELSE job[j]
      /\ job' \in [Jobs -> JobRecord]
  <2>1. job \in [Jobs -> JobRecord]
    BY <1>0 DEF Types
  <2> QED  BY <1>1, <2>1, NewJobFacts
<1>5. Allocated' = Missing
  <2>1. Allocated' = {j \in Jobs : job'[j].status # "none"}
    BY DEF Allocated
  <2>2. Missing \subseteq Allocated
    BY <1>0 DEF Located
  <2> QED  BY <1>3, <1>4, <2>1, <2>2, NewJobFacts DEF Allocated
<1>6. pool' \in PoolRecord /\ pool'.jobs = <<>> /\ pool'.curr_size = 0 /\ pool'.max_size = 0
      /\ pool'.ready = FALSE /\ Pooled' = {}
  <2>1. pool' \in PoolRecord /\ pool'.jobs = <<>> /\ pool'.curr_size = 0 /\ pool'.max_size = 0
        /\ pool'.ready = FALSE
    BY <1>1, EmptyPoolFacts DEF PoolRecord
  <2> QED  BY <2>1, EmptyPoolFacts DEF Pooled
<1>7. Types'
  <2>1. blocked' \in 0 .. MaxBlocked
    BY <1>1, AsyncJobsAssumption
  <2> QED  BY <1>0, <1>1, <1>4, <1>6, <2>1 DEF Types
<1>8. Placed'
  <2>1. Injective(pool'.jobs) /\ \A i \in Jobs \ Allocated' : job'[i] = Unallocated
    <3>1. ASSUME NEW i \in Jobs \ Allocated' PROVE job'[i] = Unallocated
      <4>1. i \in Pooled \/ i \notin Allocated
        BY <1>3, <1>5, <3>1
      <4>2. i \notin Allocated => job[i] = Unallocated
        BY <1>0 DEF Placed
      <4> QED  BY <1>4, <4>1, <4>2
    <3> QED  BY <1>6, <3>1, EmptyPoolFacts
  <2> QED  BY <1>2, <1>6, <2>1 DEF Placed
<1>9. Counted' /\ Stored'
  <2>1. Allocated' \ leaked' = {}
    BY <1>1, <1>5 DEF Missing
  <2>2. Cardinality(Allocated' \ leaked') = 0
    BY <2>1, FS_EmptySet
  <2>3. Counted'
    BY <1>6, <2>1, <2>2 DEF Counted
  <2> QED  BY <1>1, <2>3 DEF Stored
<1>l. Located'
  <2>1. Missing' = Missing /\ lost' \cap leaked' = {}
    BY <1>1 DEF Missing
  <2>2. \A i \in Jobs : ~SomePlace(i)'
    BY <1>1, <1>2, <1>6, AsyncJobsAssumption DEF SomePlace
  <2> QED  BY <1>5, <2>1, <2>2 DEF Located
<1>10. Serving'
  BY <1>0, <1>1 DEF Serving, Running
<1>11. Waits'
  BY <1>0, <1>1, KeepWaits
<1> QED  BY <1>7, <1>8, <1>9, <1>l, <1>10, <1>11 DEF IInv

-----------------------------------------------------------------------------
(* The theorems *)

\* The invariant holds initially.
LEMMA InitInv ==
    ASSUME Init
    PROVE  IInv
<1>1. /\ job = [j \in Jobs |-> Unallocated]
      /\ pool = [ready |-> FALSE, jobs |-> <<>>, curr_size |-> 0, max_size |-> 0]
      /\ room = 0 /\ reserve = 0 /\ lost = {} /\ leaked = {}
      /\ currjob = NoJob /\ caller = NoClient /\ blocked = 0
      /\ default \in LibCtxs /\ appctx = default /\ libctx = default
      /\ handle = [c \in Clients |-> NoJob] /\ round = [c \in Clients |-> 0]
      /\ answer = [c \in Clients |-> Top] /\ fds = [c \in Clients |-> {}]
      /\ num = [c \in Clients |-> [add |-> 0, del |-> 0]]
      /\ watched = [c \in Clients |-> {}] /\ jobctx = [c \in Clients |-> default]
  BY DEF Init
<1>2. Allocated = {}
  BY <1>1, NewJobFacts DEF Allocated
<1>3. /\ pool \in PoolRecord /\ pool.jobs = <<>> /\ pool.curr_size = 0 /\ pool.max_size = 0
      /\ pool.ready = FALSE
  BY <1>1, EmptyPoolFacts DEF PoolRecord
<1>4. Pooled = {} /\ Injective(pool.jobs)
  BY <1>3, EmptyPoolFacts DEF Pooled
<1>5. \A c \in Clients : ~Held(c)
  BY <1>1 DEF Held
<1>6. Types
  <2>1. job \in [Jobs -> JobRecord]
    BY <1>1, NewJobFacts
  <2>2. blocked \in 0 .. MaxBlocked
    BY <1>1, AsyncJobsAssumption
  <2> QED  BY <1>1, <1>3, <2>1, <2>2 DEF Types, PoolRecord
<1>7. Placed
  BY <1>1, <1>2, <1>4, <1>5 DEF Placed
<1>8. Counted /\ Stored
  <2>1. Allocated \ leaked = {}
    BY <1>2
  <2>2. Cardinality(Allocated \ leaked) = 0
    BY <2>1, FS_EmptySet
  <2>3. Counted
    BY <1>3, <2>1, <2>2 DEF Counted
  <2> QED  BY <1>1, <2>3 DEF Stored
<1>l. Located
  <2>1. Missing = {} /\ lost \cap leaked = {}
    BY <1>1 DEF Missing
  <2>2. \A i \in Jobs : ~SomePlace(i)
    BY <1>1, <1>4, <1>5, AsyncJobsAssumption DEF SomePlace
  <2> QED  BY <1>2, <2>1, <2>2 DEF Located
<1>9. Serving
  BY <1>1 DEF Serving, Running
<1>10. Waits
  <2> SUFFICES ASSUME NEW c \in Clients
               PROVE  WaitCtx(fds[c], watched[c], num[c]) /\ Unseen(fds[c], watched[c])
    BY <1>5 DEF Waits
  <2>1. fds[c] = {} /\ watched[c] = {} /\ num[c].add = 0 /\ num[c].del = 0
    BY <1>1
  <2> QED  BY <2>1, NoWaits
<1> QED  BY <1>6, <1>7, <1>8, <1>l, <1>9, <1>10 DEF IInv

\* The invariant from which the properties follow is preserved by every step.
THEOREM Invariance == Spec => []IInv
<1>1. Init => IInv
  BY InitInv
<1>2. IInv /\ [Next]_vars => IInv'
  <2> SUFFICES ASSUME IInv, [Next]_vars PROVE IInv'
    OBVIOUS
  <2>1. ASSUME NEW m \in MaxSizes, NEW n \in 0 .. m, ASYNC_init_thread(m, n) PROVE IInv'
    BY <2>1, InitThreadInv
  <2>2. CASE ASYNC_cleanup_thread
    BY <2>2, CleanupInv
  <2>3. ASSUME NEW c \in Clients, StartJob(c) PROVE IInv'
    BY <2>3, StartInv
  <2>4. ASSUME NEW c \in Clients, StartJobNoMemory(c) PROVE IInv'
    BY <2>4, StartNoMemoryInv
  <2>5. ASSUME NEW c \in Clients, ResumeJob(c) PROVE IInv'
    BY <2>5, ResumeInv
  <2>6. CASE ASYNC_block_pause \/ ASYNC_unblock_pause
    BY <2>6, BlockInv
  <2>7. ASSUME NEW l \in LibCtxs, JobSetsDefault(l) PROVE IInv'
    BY <2>7, JobDefaultInv
  <2>8. ASSUME NEW k \in Keys, ASYNC_WAIT_CTX_set_wait_fd(k) PROVE IInv'
    BY <2>8, SetFdInv
  <2>9. ASSUME NEW k \in Keys, ASYNC_WAIT_CTX_clear_fd(k) PROVE IInv'
    BY <2>9, ClearFdInv
  <2>10. ASSUME NEW c \in Clients, ASYNC_pause_job(c) PROVE IInv'
    BY <2>10, PauseInv
  <2>11. ASSUME NEW c \in Clients, FinishJob(c) PROVE IInv'
    BY <2>11, FinishInv
  <2>12. ASSUME NEW l \in LibCtxs, AppSetsDefault(l) PROVE IInv'
    BY <2>12, AppDefaultInv
  <2>13. CASE UNCHANGED vars
    <3>1. UNCHANGED <<job, pool, room, reserve, lost, leaked, currjob, blocked, caller,
                     libctx, handle, round, answer,
                      default, fds, num, watched, appctx, jobctx>>
      BY <2>13 DEF vars
    <3>2. Types'
      BY <3>1 DEF IInv, Types
    <3>3. Serving'
      BY <3>1 DEF IInv, Serving, Running, Allocated
    <3> QED  BY <3>1, <3>2, <3>3, KeepPlaced, KeepLocated, KeepStored, KeepCounted, KeepWaits DEF IInv
  <2> QED  BY <2>1, <2>2, <2>3, <2>4, <2>5, <2>6, <2>7, <2>8, <2>9, <2>10, <2>11, <2>12,
              <2>13 DEF Next
<1> QED  BY <1>1, <1>2, PTL DEF Spec

\* The state has the types its comments give; what is in the pool, in a handle or
\* running is allocated memory.
THEOREM TypeCorrect == Spec => []TypeOK
<1>1. IInv => TypeOK
  <2> SUFFICES ASSUME IInv PROVE TypeOK
    OBVIOUS
  <2>0. Types /\ Placed /\ Located /\ Stored /\ Counted /\ Serving
    BY DEF IInv
  <2>1. pool.jobs \in Seq(Allocated)
    <3>1. pool.jobs \in Seq(Jobs)
      BY <2>0 DEF Types, PoolRecord
    <3>2. \A n \in 1 .. Len(pool.jobs) : pool.jobs[n] \in Allocated
      BY <2>0, <3>1, ToSetFacts DEF Placed, Pooled
    <3> QED  BY <3>1, <3>2, SeqOfSubset
  <2>2. pool.curr_size \in 0 .. Cardinality(Jobs)
    <3>1. Cardinality(Jobs) \in Nat
      BY AsyncJobsAssumption, FS_CardinalityType
    <3>2. /\ IsFiniteSet(Allocated \ leaked) /\ Cardinality(Allocated \ leaked) \in Nat
          /\ Cardinality(Allocated \ leaked) <= Cardinality(Jobs)
      <4>1. Allocated \ leaked \subseteq Jobs /\ IsFiniteSet(Jobs)
        BY AsyncJobsAssumption DEF Allocated
      <4> QED  BY <4>1, FS_Subset, FS_CardinalityType
    <3> QED  BY <2>0, <3>1, <3>2 DEF Counted
  <2>3. currjob \in Allocated \cup {NoJob}
    BY <2>0 DEF Serving, Running
  <2>4. handle \in [Clients -> Allocated \cup {NoJob}]
    <3>1. ASSUME NEW c \in Clients PROVE handle[c] \in Allocated \cup {NoJob}
      <4>1. CASE Held(c)
        BY <2>0, <4>1 DEF Placed
      <4>2. CASE ~Held(c) /\ handle[c] # NoJob
        <5>1. c = caller
          BY <4>2 DEF Held
        <5>2. Running
          BY <2>0, <5>1, AsyncJobsAssumption DEF Types, Running
        <5> QED  BY <2>0, <4>2, <5>1, <5>2 DEF Serving
      <4> QED  BY <4>1, <4>2
    <3> QED  BY <2>0, <3>1 DEF Types
  <2>5. /\ job \in [Jobs -> [status : {"none", "RUNNING", "PAUSED", "STOPPING"},
                             funcargs : Calls \cup {Top}, stack : Calls \cup {Top},
                             waitctx : Clients \cup {NoClient},
                             libctx : LibCtxs \cup {Top}]]
        /\ room \in Nat /\ reserve \in Nat /\ lost \subseteq Allocated /\ leaked \subseteq Allocated
        /\ caller \in Clients \cup {NoClient} /\ blocked \in 0 .. MaxBlocked
        /\ answer \in [Clients -> Calls \cup {Top}]
        /\ {default, libctx, appctx} \subseteq LibCtxs /\ jobctx \in [Clients -> LibCtxs]
    BY <2>0 DEF Types, JobRecord, Located, Missing
  <2>6. \A c \in Clients : /\ fds[c] \subseteq [key : Keys, add : BOOLEAN, del : BOOLEAN]
                           /\ num[c] \in [add : Nat, del : Nat] /\ watched[c] \subseteq Keys
    BY <2>0 DEF Types, Entry
  <2> QED  BY <2>1, <2>2, <2>3, <2>4, <2>5, <2>6 DEF TypeOK
<1> QED  BY <1>1, Invariance, PTL

\* An injective sequence holds each of its elements in one place.
LEMMA OnePlace ==
    ASSUME NEW S, NEW s \in Seq(S), Injective(s), NEW x
    PROVE  Cardinality({n \in DOMAIN s : s[n] = x}) = IF x \in ToSet(s) THEN 1 ELSE 0
<1> DEFINE P == {n \in DOMAIN s : s[n] = x}
<1>0. DOMAIN s = 1 .. Len(s)
  OBVIOUS
<1>1. CASE x \in ToSet(s)
  <2>1. PICK n \in 1 .. Len(s) : s[n] = x
    BY <1>1, ToSetFacts
  <2>2. P = {n}
    BY <1>0, <2>1 DEF Injective
  <2> HIDE DEF P
  <2>3. Cardinality(P) = 1
    BY <2>2, FS_Singleton
  <2> QED  BY <1>1, <2>3 DEF P
<1>2. CASE x \notin ToSet(s)
  <2>1. P = {}
    BY <1>0, <1>2, ToSetFacts
  <2> HIDE DEF P
  <2>2. Cardinality(P) = 0
    BY <2>1, FS_EmptySet
  <2> QED  BY <1>2, <2>2 DEF P
<1> QED  BY <1>1, <1>2

\* No job is in two places at once or made beyond the limit of the pool, all are
\* counted, and one that is in no place was lost when the stack of the pool could
\* not grow, which does not happen to a pool with storage for its limit.
THEOREM EveryJobAccounted == Spec => []JobsAccounted
<1>1. IInv => JobsAccounted
  <2> SUFFICES ASSUME IInv PROVE JobsAccounted
    OBVIOUS
  <2>0. Types /\ Placed /\ Located /\ Stored /\ Counted /\ Serving
    BY DEF IInv
  <2>1. ASSUME NEW j \in Jobs PROVE Places(j) = IF j \in Allocated \ (lost \cup leaked) THEN 1 ELSE 0
    <3> DEFINE P == Cardinality({n \in DOMAIN pool.jobs : pool.jobs[n] = j})
               H == {c \in Clients : handle[c] = j /\ c # caller}
               R == IF currjob = j THEN 1 ELSE 0
    <3>0. j # NoJob
      BY AsyncJobsAssumption
    <3>1. P = IF j \in Pooled THEN 1 ELSE 0
      <4>1. pool.jobs \in Seq(Jobs) /\ Injective(pool.jobs)
        BY <2>0 DEF Types, Placed, PoolRecord
      <4> QED  BY <4>1, OnePlace DEF Pooled
    <3>2. \A c \in H : c \in Clients /\ Held(c) /\ handle[c] = j
      BY <3>0 DEF Held
    <3>3. \A c, d \in H : c = d
      BY <2>0, <3>2 DEF Placed
    <3>4. \A c \in Clients : Held(c) /\ handle[c] = j => c \in H
      BY DEF Held
    <3>5. Places(j) = P + Cardinality(H) + R
      BY DEF Places
    <3>l. SomePlace(j) <=> j \in Allocated \ (lost \cup leaked)
      BY <2>0 DEF Located, Missing
    <3>6. CASE j \in Pooled
      <4>1. j # currjob /\ H = {}
        BY <2>0, <3>2, <3>6 DEF Placed
      <4>2. Cardinality(H) = 0
        BY <4>1, FS_EmptySet
      <4>3. SomePlace(j)
        BY <3>6 DEF SomePlace
      <4> HIDE DEF P, H
      <4> QED  BY <3>1, <3>5, <3>6, <3>l, <4>1, <4>2, <4>3
    <3>7. CASE j \notin Pooled /\ j = currjob
      <4>1. H = {}
        BY <2>0, <3>2, <3>7 DEF Placed
      <4>2. Cardinality(H) = 0
        BY <4>1, FS_EmptySet
      <4>3. SomePlace(j)
        BY <3>7 DEF SomePlace
      <4> HIDE DEF P, H
      <4> QED  BY <3>1, <3>5, <3>7, <3>l, <4>2, <4>3
    <3>8. CASE j \notin Pooled /\ j # currjob /\ SomePlace(j)
      <4>1. PICK c \in Clients : Held(c) /\ handle[c] = j
        BY <3>8 DEF SomePlace
      <4>2. c \in H
        BY <3>4, <4>1
      <4> HIDE DEF P, H
      <4>3. H = {c}
        BY <3>3, <4>2
      <4>4. Cardinality(H) = 1
        BY <4>3, FS_Singleton
      <4> QED  BY <3>1, <3>5, <3>8, <3>l, <4>4
    <3>9. CASE ~SomePlace(j)
      <4>1. j \notin Pooled /\ j # currjob /\ H = {}
        BY <3>2, <3>9 DEF SomePlace
      <4>2. Cardinality(H) = 0
        BY <4>1, FS_EmptySet
      <4> HIDE DEF P, H
      <4> QED  BY <3>1, <3>5, <3>9, <3>l, <4>1, <4>2
    <3> QED  BY <3>6, <3>7, <3>8, <3>9
  <2> QED  BY <2>0, <2>1 DEF JobsAccounted, Counted, Stored
<1> QED  BY <1>1, Invariance, PTL

\* The function that runs, its context and its answer are those of the call that is
\* served; the application finds the context it chose.
THEOREM JobsIsolated == Spec => []Isolated
<1>1. IInv => Isolated
  BY DEF IInv, Serving, Isolated
<1> QED  BY <1>1, Invariance, PTL

\* A client that applies the changes waits for what its function registered.
THEOREM DescriptorsTracked == Spec => []FdsTracked
<1>1. IInv => FdsTracked
  <2> SUFFICES ASSUME IInv, NEW c \in Clients
               PROVE  /\ c # caller /\ handle[c] # NoJob => watched[c] = Live(c)
                      /\ num[c].add = Cardinality(Added(c))
                      /\ num[c].del = Cardinality(Deleted(c))
                      /\ \A e \in fds[c] : ~e.add /\ ~e.del => [e EXCEPT !.del = TRUE] \notin fds[c]
    BY DEF FdsTracked
  <2>1. WaitCtx(fds[c], watched[c], num[c]) /\ fds[c] \in SUBSET Entry
    BY DEF IInv, Types, Waits
  <2>2. c # caller /\ handle[c] # NoJob => watched[c] = Live(c)
    BY LiveIsLive DEF IInv, Waits, Held
  <2>3. num[c].add = Cardinality(Added(c)) /\ num[c].del = Cardinality(Deleted(c))
    BY <2>1, LiveIsLive DEF WaitCtx
  <2>4. ASSUME NEW e \in fds[c], ~e.add, ~e.del, [e EXCEPT !.del = TRUE] \in fds[c] PROVE FALSE
    <3> DEFINE d == [e EXCEPT !.del = TRUE]
    <3>1. d.del /\ ~d.add /\ d.key = e.key /\ d \in fds[c]
      BY <2>1, <2>4 DEF Entry
    <3> HIDE DEF d
    <3>2. d \in DelIn(fds[c]) /\ e \in LiveIn(fds[c])
      BY <2>4, <3>1 DEF DelIn, LiveIn
    <3> QED  BY <2>1, <2>4, <3>1, <3>2 DEF WaitCtx
  <2> QED  BY <2>2, <2>3, <2>4
<1> QED  BY <1>1, Invariance, PTL
=============================================================================
