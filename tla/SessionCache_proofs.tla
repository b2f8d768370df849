------------------------ MODULE SessionCache_proofs ------------------------
(***************************************************************************)
(* Proofs about SessionCache, for any number of threads, sessions and ids  *)
(* and any size of the cache: reference counts are exact, the table and    *)
(* the list agree, and a flush removes what has timed out and nothing      *)
(* else, as long as the hash table does not run out of memory.             *)
(***************************************************************************)
EXTENDS SessionCache, FiniteSetTheorems, WellFoundedInduction, TLAPS

-----------------------------------------------------------------------------
(* The inductive invariant *)

Ordered(l, e) == \A m, n \in 1 .. Len(l) : m < n => e[l[m]] >= e[l[n]]

\* What a call holds where its thread is.
Depth == Cardinality(Sessions) + 1
CallOK(t) ==
    /\ Len(local[t]) <= Depth
    /\ pc[t] \in {"idle", "setting"} => Len(local[t]) = 0
    /\ pc[t] = "setting" => own[t] # NoSession
    /\ pc[t] = "adding" => Len(local[t]) \in {1, 2}
    /\ pc[t] = "found" => Len(local[t]) = 1
    /\ pc[t] = "freeing" => Len(local[t]) > 0

Listed ==
    /\ Cached = ToSet(list)
    /\ \A i \in Ids : sessions[i] # NoSession => id[sessions[i]] = i
    /\ Ordered(list, exp)
Bounded == size > 0 => Len(list) <= 1 \/ Len(list) <= size - 1
Calls == \A t \in Threads : CallOK(t)

IInv == TypeOK /\ Calls /\ RefsExact /\ Listed /\ Bounded

-----------------------------------------------------------------------------
(* Sequences without repetitions *)

\* The least element of a set of numbers.
LEMMA Least ==
    ASSUME NEW T, T \subseteq Nat, T # {}
    PROVE  Min(T) \in T /\ \A y \in T : Min(T) <= y
<1> DEFINE R == OpToRel(<, Nat)
<1>1. IsWellFoundedOn(R, Nat)
  BY NatLessThanWellFounded, Zenon
<1>2. \A x, y \in Nat : y < x => <<y, x>> \in R
  BY DEF OpToRel
<1> HIDE DEF R
<1>3. \E x \in T : \A y \in T : ~(<<y, x>> \in R)
  BY <1>1, WFMin, Zenon
<1>4. PICK x \in T : \A y \in T : ~(<<y, x>> \in R)
  BY <1>3
<1>5. ASSUME NEW y \in T PROVE x <= y
  <2>1. x \in Nat /\ y \in Nat
    OBVIOUS
  <2>2. ~(y < x)
    BY <1>2, <1>4, <2>1, Zenon
  <2> QED  BY <2>1, <2>2
<1> QED  BY <1>5 DEF Min

\* The elements of a sequence, and what it means that none is there twice.
LEMMA Members ==
    ASSUME NEW S, NEW s \in Seq(S)
    PROVE  /\ \A n \in 1 .. Len(s) : s[n] \in ToSet(s)
           /\ \A x \in ToSet(s) : x \in S /\ \E n \in 1 .. Len(s) : s[n] = x
           /\ IsInjective(s) <=> \A m, n \in 1 .. Len(s) : s[m] = s[n] => m = n
BY DEF ToSet, IsInjective

\* The part of a sequence up to a position.
LEMMA Prefix ==
    ASSUME NEW S, NEW l \in Seq(S), IsInjective(l), NEW k \in 0 .. Len(l), NEW e, Ordered(l, e)
    PROVE  LET p == SubSeq(l, 1, k)
               g == {l[n] : n \in (k + 1) .. Len(l)}
           IN  /\ p \in Seq(S) /\ Len(p) = k /\ IsInjective(p) /\ Ordered(p, e)
               /\ ToSet(p) = ToSet(l) \ g /\ g \subseteq ToSet(l)
<1> DEFINE p == SubSeq(l, 1, k)
           g == {l[n] : n \in (k + 1) .. Len(l)}
<1>1. p \in Seq(S) /\ Len(p) = k /\ k \in Nat /\ Len(l) \in Nat /\ \A n \in 1 .. k : p[n] = l[n]
  OBVIOUS
<1>2. \A m, n \in 1 .. Len(l) : l[m] = l[n] => m = n
  BY Members
<1> HIDE DEF p
<1>3. IsInjective(p)
  BY <1>1, <1>2, Members
<1>4. Ordered(p, e)
  BY <1>1 DEF Ordered
<1>5. g \subseteq ToSet(l)
  BY <1>1, Members
<1>6. ASSUME NEW x \in ToSet(p) PROVE x \in ToSet(l) \ g
  <2>1. PICK n \in 1 .. k : p[n] = x
    BY <1>1, Members
  <2>2. n \in 1 .. Len(l) /\ l[n] = x
    BY <1>1, <2>1
  <2>3. x \in ToSet(l)
    BY <2>2, Members
  <2>4. ASSUME NEW m \in (k + 1) .. Len(l), l[m] = x PROVE FALSE
    <3>1. m \in 1 .. Len(l) /\ m # n
      BY <1>1, <2>1
    <3> QED  BY <1>2, <2>2, <2>4, <3>1
  <2> QED  BY <2>3, <2>4
<1>7. ASSUME NEW x \in ToSet(l), x \notin g PROVE x \in ToSet(p)
  <2>1. PICK n \in 1 .. Len(l) : l[n] = x
    BY Members
  <2>2. n \in 1 .. k
    BY <1>1, <1>7, <2>1
  <2> QED  BY <1>1, <2>1, <2>2, Members
<1>8. ToSet(p) = ToSet(l) \ g
  BY <1>6, <1>7
<1> QED  BY <1>1, <1>3, <1>4, <1>5, <1>8 DEF p

\* SSL_SESSION_list_remove
LEMMA ListRemove ==
    ASSUME NEW S, NEW l \in Seq(S), IsInjective(l), NEW s, NEW e, Ordered(l, e)
    PROVE  LET r == SSL_SESSION_list_remove(l, s)
           IN  /\ r \in Seq(S) /\ IsInjective(r) /\ Ordered(r, e)
               /\ ToSet(r) = ToSet(l) \ {s} /\ Len(r) <= Len(l)
<1> DEFINE r == SSL_SESSION_list_remove(l, s)
           k == CHOOSE n \in DOMAIN l : l[n] = s
<1>1. CASE s \notin ToSet(l)
  BY <1>1 DEF SSL_SESSION_list_remove
<1>2. CASE s \in ToSet(l)
  <2>1. \E n \in DOMAIN l : l[n] = s
    BY <1>2 DEF ToSet
  <2>2. k \in 1 .. Len(l) /\ l[k] = s
    BY <2>1
  <2>3. r = SubSeq(l, 1, k - 1) \o SubSeq(l, k + 1, Len(l))
    BY <1>2 DEF SSL_SESSION_list_remove, RemoveAt
  <2> HIDE DEF r, k
  <2>4. /\ r \in Seq(S) /\ Len(l) \in Nat /\ Len(r) = Len(l) - 1
        /\ \A n \in 1 .. Len(r) : r[n] = IF n < k THEN l[n] ELSE l[n + 1]
    <3> DEFINE a == SubSeq(l, 1, k - 1)
               b == SubSeq(l, k + 1, Len(l))
    <3>1. k \in Nat /\ k >= 1 /\ Len(l) \in Nat /\ k <= Len(l)
      BY <2>2
    <3>2. a \in Seq(S) /\ Len(a) = k - 1 /\ \A n \in 1 .. k - 1 : a[n] = l[n]
      BY <3>1
    <3>3. b \in Seq(S) /\ Len(b) = Len(l) - k /\ \A n \in 1 .. Len(l) - k : b[n] = l[n + k]
      BY <3>1
    <3>4. r = a \o b
      BY <2>3
    <3> HIDE DEF a, b
    <3>5. /\ r \in Seq(S) /\ Len(r) = Len(a) + Len(b)
          /\ \A n \in 1 .. Len(a) : r[n] = a[n]
          /\ \A n \in 1 .. Len(b) : r[n + Len(a)] = b[n]
      <4>1. a \in Seq(S) /\ b \in Seq(S)
        BY <3>2, <3>3
      <4>2. /\ a \o b \in Seq(S) /\ Len(a \o b) = Len(a) + Len(b)
            /\ \A n \in 1 .. Len(a) : (a \o b)[n] = a[n]
            /\ \A n \in 1 .. Len(b) : (a \o b)[n + Len(a)] = b[n]
        BY <4>1
      <4> QED  BY <3>4, <4>2, Zenon
    <3>6. ASSUME NEW n \in 1 .. Len(l) - 1 PROVE r[n] = IF n < k THEN l[n] ELSE l[n + 1]
      <4>1. CASE n < k
        <5>1. n \in 1 .. k - 1
          BY <3>1, <4>1
        <5> QED  BY <3>2, <3>5, <4>1, <5>1
      <4>2. CASE n >= k
        <5> DEFINE m == n - (k - 1)
        <5>1. m \in 1 .. Len(l) - k /\ m + (k - 1) = n /\ m + k = n + 1 /\ ~(n < k)
          BY <3>1, <4>2
        <5> HIDE DEF m
        <5>2. r[m + (k - 1)] = b[m] /\ b[m] = l[m + k]
          BY <3>2, <3>3, <3>5, <5>1
        <5> QED  BY <5>1, <5>2
      <4> QED  BY <3>1, <4>1, <4>2
    <3> QED  BY <3>1, <3>2, <3>3, <3>5, <3>6
  <2>5. \A m, n \in 1 .. Len(l) : l[m] = l[n] => m = n
    BY Members
  <2> DEFINE at(n) == IF n < k THEN n ELSE n + 1
  <2>6. /\ \A n \in 1 .. Len(r) : at(n) \in 1 .. Len(l) /\ at(n) # k /\ r[n] = l[at(n)]
        /\ \A m, n \in 1 .. Len(r) : (m < n => at(m) < at(n)) /\ (at(m) = at(n) => m = n)
        /\ \A n \in 1 .. Len(l) : n # k => \E m \in 1 .. Len(r) : at(m) = n
    <3>1. \A n \in 1 .. Len(r) : at(n) \in 1 .. Len(l) /\ at(n) # k /\ r[n] = l[at(n)]
      BY <2>2, <2>4
    <3>2. \A m, n \in 1 .. Len(r) : (m < n => at(m) < at(n)) /\ (at(m) = at(n) => m = n)
      BY <2>2, <2>4
    <3>3. ASSUME NEW n \in 1 .. Len(l), n # k PROVE \E m \in 1 .. Len(r) : at(m) = n
      <4>1. CASE n < k
        BY <2>2, <2>4, <4>1
      <4>2. CASE n > k
        <5>1. n - 1 \in 1 .. Len(r) /\ at(n - 1) = n
          BY <2>2, <2>4, <4>2
        <5> QED  BY <5>1
      <4> QED  BY <2>2, <3>3, <4>1, <4>2
    <3> QED  BY <3>1, <3>2, <3>3
  <2> HIDE DEF at
  <2>7. IsInjective(r)
    <3>1. ASSUME NEW m \in 1 .. Len(r), NEW n \in 1 .. Len(r), r[m] = r[n] PROVE m = n
      <4>1. at(m) = at(n)
        BY <2>5, <2>6, <3>1
      <4> QED  BY <2>6, <4>1
    <3> QED  BY <2>4, <3>1, Members
  <2>8. Ordered(r, e)
    BY <2>6 DEF Ordered
  <2>9. ASSUME NEW x \in ToSet(r) PROVE x \in ToSet(l) \ {s}
    <3>1. PICK n \in 1 .. Len(r) : r[n] = x
      BY <2>4, Members
    <3>2. at(n) \in 1 .. Len(l) /\ l[at(n)] = x /\ at(n) # k
      BY <2>6, <3>1
    <3> QED  BY <2>2, <2>5, <3>2, Members
  <2>10. ASSUME NEW x \in ToSet(l), x # s PROVE x \in ToSet(r)
    <3>1. PICK n \in 1 .. Len(l) : l[n] = x
      BY Members
    <3>2. PICK m \in 1 .. Len(r) : at(m) = n
      BY <2>2, <2>6, <2>10, <3>1
    <3>3. r[m] = x
      BY <2>6, <3>1, <3>2
    <3> QED  BY <2>4, <3>2, <3>3, Members
  <2>11. ToSet(r) = ToSet(l) \ {s}
    BY <2>9, <2>10
  <2> QED  BY <2>4, <2>7, <2>8, <2>11 DEF r
<1> QED  BY <1>1, <1>2

\* q is r with s at place k.
Inserted(q, r, k, s) ==
    /\ Len(q) = Len(r) + 1 /\ k \in 1 .. Len(r) + 1 /\ q[k] = s
    /\ \A n \in 1 .. Len(r) : q[IF n < k THEN n ELSE n + 1] = r[n]

\* A session put at the head of the list.
LEMMA InsertedFirst ==
    ASSUME NEW S, NEW r \in Seq(S), NEW s \in S
    PROVE  <<s>> \o r \in Seq(S) /\ Inserted(<<s>> \o r, r, 1, s)
<1> DEFINE q == <<s>> \o r
<1>1. <<s>> \in Seq(S) /\ Len(<<s>>) = 1 /\ <<s>>[1] = s /\ Len(r) \in Nat
  OBVIOUS
<1>2. /\ q \in Seq(S) /\ Len(q) = 1 + Len(r) /\ q[1] = s
      /\ \A n \in 1 .. Len(r) : q[n + 1] = r[n]
  BY <1>1
<1> HIDE DEF q
<1>3. Inserted(q, r, 1, s)
  BY <1>1, <1>2 DEF Inserted
<1> QED  BY <1>2, <1>3 DEF q

\* A session put at the tail of the list.
LEMMA InsertedLast ==
    ASSUME NEW S, NEW r \in Seq(S), NEW s \in S
    PROVE  Append(r, s) \in Seq(S) /\ Inserted(Append(r, s), r, Len(r) + 1, s)
<1> DEFINE q == Append(r, s)
<1>1. /\ q \in Seq(S) /\ Len(q) = Len(r) + 1 /\ q[Len(r) + 1] = s /\ Len(r) \in Nat
      /\ \A n \in 1 .. Len(r) : q[n] = r[n]
  OBVIOUS
<1> HIDE DEF q
<1>2. \A n \in 1 .. Len(r) : n < Len(r) + 1
  BY <1>1
<1>3. Inserted(q, r, Len(r) + 1, s)
  BY <1>1, <1>2 DEF Inserted
<1> QED  BY <1>1, <1>3 DEF q

\* A session put in the middle of the list.
LEMMA InsertedAt ==
    ASSUME NEW S, NEW r \in Seq(S), NEW s \in S, NEW k \in 1 .. Len(r)
    PROVE  InsertAt(r, k, s) \in Seq(S) /\ Inserted(InsertAt(r, k, s), r, k, s)
<1> DEFINE q == InsertAt(r, k, s)
           a == SubSeq(r, 1, k - 1)
           b == SubSeq(r, k, Len(r))
           c == a \o <<s>>
<1>1. k \in Nat /\ k >= 1 /\ Len(r) \in Nat /\ k <= Len(r)
  OBVIOUS
<1>2. a \in Seq(S) /\ Len(a) = k - 1 /\ \A n \in 1 .. k - 1 : a[n] = r[n]
  BY <1>1
<1>3. b \in Seq(S) /\ Len(b) = Len(r) - k + 1 /\ \A n \in 1 .. Len(r) - k + 1 : b[n] = r[n + (k - 1)]
  BY <1>1
<1>4. <<s>> \in Seq(S) /\ Len(<<s>>) = 1 /\ <<s>>[1] = s
  OBVIOUS
<1>5. q = c \o b
  BY DEF InsertAt
<1> HIDE DEF a, b, q
<1>6. c \in Seq(S) /\ Len(c) = k /\ c[k] = s /\ \A n \in 1 .. k - 1 : c[n] = r[n]
  <2> DEFINE d == <<s>>
  <2>1. d \in Seq(S) /\ Len(d) = 1 /\ d[1] = s /\ c = a \o d
    BY <1>4
  <2> HIDE DEF d, c
  <2>2. /\ a \o d \in Seq(S) /\ Len(a \o d) = Len(a) + Len(d)
        /\ \A n \in 1 .. Len(a) : (a \o d)[n] = a[n]
        /\ \A n \in 1 .. Len(d) : (a \o d)[n + Len(a)] = d[n]
    <3>1. a \in Seq(S) /\ d \in Seq(S)
      BY <1>2, <2>1
    <3> QED  BY <3>1
  <2>3. /\ c \in Seq(S) /\ Len(c) = (k - 1) + 1
        /\ \A n \in 1 .. k - 1 : c[n] = a[n]
        /\ c[1 + (k - 1)] = s
    <3>1. 1 \in 1 .. Len(d)
      BY <2>1
    <3>2. (a \o d)[1 + Len(a)] = d[1]
      BY <2>2, <3>1, Zenon
    <3> QED  BY <1>2, <2>1, <2>2, <3>2, Zenon
  <2>4. (k - 1) + 1 = k /\ 1 + (k - 1) = k
    BY <1>1
  <2> QED  BY <1>2, <2>3, <2>4
<1> HIDE DEF c
<1>7. /\ q \in Seq(S) /\ Len(q) = k + (Len(r) - k + 1)
      /\ \A n \in 1 .. k : q[n] = c[n]
      /\ \A n \in 1 .. Len(r) - k + 1 : q[n + k] = b[n]
  <2>1. /\ c \o b \in Seq(S) /\ Len(c \o b) = Len(c) + Len(b)
        /\ \A n \in 1 .. Len(c) : (c \o b)[n] = c[n]
        /\ \A n \in 1 .. Len(b) : (c \o b)[n + Len(c)] = b[n]
    <3>1. c \in Seq(S) /\ b \in Seq(S)
      BY <1>3, <1>6
    <3> QED  BY <3>1
  <2> QED  BY <1>3, <1>5, <1>6, <2>1, Zenon
<1>8. ASSUME NEW n \in 1 .. Len(r)
      PROVE  q[IF n < k THEN n ELSE n + 1] = r[n]
  <2>1. CASE n < k
    <3>1. n \in 1 .. k - 1 /\ n \in 1 .. k
      BY <1>1, <2>1
    <3> QED  BY <1>6, <1>7, <2>1, <3>1
  <2>2. CASE ~(n < k)
    <3> DEFINE m == n - (k - 1)
    <3>1. m \in 1 .. Len(r) - k + 1 /\ m + (k - 1) = n /\ m + k = n + 1
      BY <1>1, <2>2
    <3> HIDE DEF m
    <3>2. q[m + k] = b[m] /\ b[m] = r[m + (k - 1)]
      BY <1>3, <1>7, <3>1
    <3> QED  BY <2>2, <3>1, <3>2
  <2> QED  BY <2>1, <2>2
<1>9. Len(q) = Len(r) + 1 /\ k \in 1 .. Len(r) + 1 /\ q[k] = s
  BY <1>1, <1>6, <1>7
<1> QED  BY <1>7, <1>8, <1>9 DEF Inserted, q

\* An element that is put in its place in an ordered sequence.
LEMMA InsertedKeeps ==
    ASSUME NEW S, NEW q \in Seq(S), NEW r \in Seq(S), NEW k, NEW s, Inserted(q, r, k, s),
           IsInjective(r), s \notin ToSet(r), NEW e, Ordered(r, e),
           \A n \in 1 .. Len(r) : IF n < k THEN e[r[n]] >= e[s] ELSE e[s] >= e[r[n]]
    PROVE  IsInjective(q) /\ Ordered(q, e) /\ ToSet(q) = ToSet(r) \cup {s}
<1> DEFINE up(n) == IF n < k THEN n ELSE n + 1
<1>1. /\ Len(q) = Len(r) + 1 /\ Len(r) \in Nat /\ k \in 1 .. Len(r) + 1 /\ q[k] = s
      /\ \A n \in 1 .. Len(r) : q[up(n)] = r[n]
  BY DEF Inserted
<1>2. \A n \in 1 .. Len(r) : up(n) \in 1 .. Len(q)
  BY <1>1
<1>3. ASSUME NEW m \in 1 .. Len(q), m # k
      PROVE  \E n \in 1 .. Len(r) : up(n) = m /\ (n < k <=> m < k)
  <2>1. CASE m < k
    <3>1. m \in 1 .. Len(r)
      BY <1>1, <2>1
    <3> QED  BY <2>1, <3>1
  <2>2. CASE m > k
    <3>1. m - 1 \in 1 .. Len(r) /\ ~(m - 1 < k) /\ (m - 1) + 1 = m /\ ~(m < k)
      BY <1>1, <2>2
    <3> QED  BY <3>1
  <2> QED  BY <1>1, <1>3, <2>1, <2>2
<1>4. \A m, n \in 1 .. Len(r) : up(m) < up(n) => m < n
  BY <1>1
<1>5. \A n \in 1 .. Len(r) : r[n] \in ToSet(r) /\ r[n] # s
  BY Members
<1>6. \A m, n \in 1 .. Len(r) : r[m] = r[n] => m = n
  BY Members
<1> HIDE DEF up
<1>7. ASSUME NEW m \in 1 .. Len(q), NEW n \in 1 .. Len(q), q[m] = q[n] PROVE m = n
  <2>1. CASE m = k /\ n # k
    <3>1. PICK i \in 1 .. Len(r) : up(i) = n
      BY <1>3, <2>1
    <3> QED  BY <1>1, <1>5, <1>7, <2>1, <3>1
  <2>2. CASE m # k /\ n = k
    <3>1. PICK i \in 1 .. Len(r) : up(i) = m
      BY <1>3, <2>2
    <3> QED  BY <1>1, <1>5, <1>7, <2>2, <3>1
  <2>3. CASE m # k /\ n # k
    <3>1. PICK i \in 1 .. Len(r) : up(i) = m
      BY <1>3, <2>3
    <3>2. PICK j \in 1 .. Len(r) : up(j) = n
      BY <1>3, <2>3
    <3>3. i = j
      BY <1>1, <1>6, <1>7, <3>1, <3>2
    <3> QED  BY <3>1, <3>2, <3>3
  <2> QED  BY <2>1, <2>2, <2>3
<1>8. IsInjective(q)
  BY <1>7, Members
<1>9. ASSUME NEW m \in 1 .. Len(q), NEW n \in 1 .. Len(q), m < n PROVE e[q[m]] >= e[q[n]]
  <2>1. CASE m = k
    <3>1. n # k /\ ~(n < k)
      BY <1>1, <1>9, <2>1
    <3>2. PICK i \in 1 .. Len(r) : up(i) = n /\ ~(i < k)
      BY <1>3, <3>1
    <3> QED  BY <1>1, <2>1, <3>2
  <2>2. CASE n = k
    <3>1. m # k /\ m < k
      BY <1>1, <1>9, <2>2
    <3>2. PICK i \in 1 .. Len(r) : up(i) = m /\ i < k
      BY <1>3, <3>1
    <3> QED  BY <1>1, <2>2, <3>2
  <2>3. CASE m # k /\ n # k
    <3>1. PICK i \in 1 .. Len(r) : up(i) = m
      BY <1>3, <2>3
    <3>2. PICK j \in 1 .. Len(r) : up(j) = n
      BY <1>3, <2>3
    <3>3. i < j
      BY <1>4, <1>9, <3>1, <3>2
    <3>4. e[r[i]] >= e[r[j]]
      BY <3>3 DEF Ordered
    <3> QED  BY <1>1, <3>1, <3>2, <3>4
  <2> QED  BY <2>1, <2>2, <2>3
<1>10. Ordered(q, e)
  BY <1>9 DEF Ordered
<1>11. ASSUME NEW x \in ToSet(q) PROVE x \in ToSet(r) \cup {s}
  <2>1. PICK m \in 1 .. Len(q) : q[m] = x
    BY Members
  <2>2. CASE m = k
    BY <1>1, <2>1, <2>2
  <2>3. CASE m # k
    <3>1. PICK i \in 1 .. Len(r) : up(i) = m
      BY <1>3, <2>3
    <3> QED  BY <1>1, <1>5, <2>1, <3>1
  <2> QED  BY <2>2, <2>3
<1>12. ASSUME NEW x \in ToSet(r) PROVE x \in ToSet(q)
  <2>1. PICK n \in 1 .. Len(r) : r[n] = x
    BY Members
  <2>2. up(n) \in 1 .. Len(q) /\ q[up(n)] = x
    BY <1>1, <1>2, <2>1
  <2> QED  BY <2>2, Members
<1>13. s \in ToSet(q)
  BY <1>1, Members
<1>14. ToSet(q) = ToSet(r) \cup {s}
  BY <1>11, <1>12, <1>13
<1> QED  BY <1>8, <1>10, <1>14

\* SSL_SESSION_list_add, after the timeout of s may have changed.
LEMMA ListAdd ==
    ASSUME NEW l \in Seq(Sessions), IsInjective(l), NEW s \in Sessions, NEW f, Ordered(l, f),
           NEW e \in [Sessions -> Times], \A x \in Sessions \ {s} : e[x] = f[x]
    PROVE  LET q == SSL_SESSION_list_add(l, s, e)
           IN  /\ q \in Seq(Sessions) /\ IsInjective(q) /\ Ordered(q, e)
               /\ ToSet(q) = ToSet(l) \cup {s}
<1> DEFINE r == SSL_SESSION_list_remove(l, s)
<1>1. /\ r \in Seq(Sessions) /\ IsInjective(r) /\ Ordered(r, f) /\ ToSet(r) = ToSet(l) \ {s}
      /\ s \notin ToSet(r)
  <2>1. /\ r \in Seq(Sessions) /\ IsInjective(r) /\ Ordered(r, f)
        /\ ToSet(r) = ToSet(l) \ {s}
    BY ListRemove, Zenon
  <2> HIDE DEF r
  <2> QED  BY <2>1
<1> DEFINE q == SSL_SESSION_list_add(l, s, e)
           later == {n \in 2 .. Len(r) : e[s] >= e[r[n]]}
<1>2. q = IF r = <<>> \/ e[s] >= e[r[1]] THEN <<s>> \o r
          ELSE IF e[s] < e[Last(r)] THEN Append(r, s)
          ELSE IF later = {} THEN r ELSE InsertAt(r, Min(later), s)
  BY DEF SSL_SESSION_list_add
<1> SUFFICES q \in Seq(Sessions) /\ IsInjective(q) /\ Ordered(q, e) /\ ToSet(q) = ToSet(l) \cup {s}
  OBVIOUS
<1> HIDE DEF r, q
<1>3. /\ \A n \in 1 .. Len(r) : r[n] \in Sessions /\ r[n] # s /\ e[r[n]] \in Int
      /\ e[s] \in Int /\ Len(r) \in Nat
  <2>1. Times \subseteq Int
    BY SessionCacheAssumption DEF Times
  <2>2. \A n \in 1 .. Len(r) : r[n] \in ToSet(r) /\ r[n] \in Sessions
    BY <1>1, Members
  <2>3. \A x \in Sessions : e[x] \in Int
    BY <2>1
  <2>4. Len(r) \in Nat
    BY <1>1
  <2> QED  BY <1>1, <2>2, <2>3, <2>4, Zenon
<1>4. Ordered(r, e)
  BY <1>1, <1>3 DEF Ordered
<1>5. ASSUME NEW k, q \in Seq(Sessions), Inserted(q, r, k, s),
             \A n \in 1 .. Len(r) : IF n < k THEN e[r[n]] >= e[s] ELSE e[s] >= e[r[n]]
      PROVE  q \in Seq(Sessions) /\ IsInjective(q) /\ Ordered(q, e) /\ ToSet(q) = ToSet(l) \cup {s}
  <2>1. IsInjective(q) /\ Ordered(q, e) /\ ToSet(q) = ToSet(r) \cup {s}
    BY <1>1, <1>4, <1>5, InsertedKeeps
  <2>2. ToSet(r) \cup {s} = ToSet(l) \cup {s}
    BY <1>1
  <2> QED  BY <1>5, <2>1, <2>2
<1>6. CASE r = <<>> \/ e[s] >= e[r[1]]
  <2>1. q = <<s>> \o r
    BY <1>2, <1>6
  <2>2. q \in Seq(Sessions) /\ Inserted(q, r, 1, s)
    BY <1>1, <2>1, InsertedFirst
  <2>3. ASSUME NEW n \in 1 .. Len(r) PROVE ~(n < 1) /\ e[s] >= e[r[n]]
    <3>1. 1 \in 1 .. Len(r) /\ e[s] >= e[r[1]] /\ n >= 1
      BY <1>3, <1>6
    <3>2. n = 1 \/ 1 < n
      BY <3>1
    <3>3. e[r[1]] >= e[r[n]]
      BY <1>3, <1>4, <3>1, <3>2 DEF Ordered
    <3> QED  BY <1>3, <3>1, <3>3
  <2>4. \A n \in 1 .. Len(r) : IF n < 1 THEN e[r[n]] >= e[s] ELSE e[s] >= e[r[n]]
    BY <2>3
  <2> QED  BY <1>5, <2>2, <2>4, Zenon
<1>7. CASE r # <<>> /\ ~(e[s] >= e[r[1]]) /\ e[s] < e[Last(r)]
  <2>1. q = Append(r, s)
    BY <1>2, <1>7
  <2>2. q \in Seq(Sessions) /\ Inserted(q, r, Len(r) + 1, s)
    BY <1>1, <2>1, InsertedLast
  <2>3. ASSUME NEW n \in 1 .. Len(r) PROVE n < Len(r) + 1 /\ e[r[n]] >= e[s]
    <3>1. Len(r) \in 1 .. Len(r) /\ Last(r) = r[Len(r)] /\ n < Len(r) + 1
      BY <1>1, <1>3, <1>7 DEF Last
    <3>2. n = Len(r) \/ n < Len(r)
      BY <1>3
    <3>3. e[r[n]] >= e[r[Len(r)]]
      BY <1>3, <1>4, <3>1, <3>2 DEF Ordered
    <3> QED  BY <1>3, <1>7, <3>1, <3>3
  <2>4. \A n \in 1 .. Len(r) : IF n < Len(r) + 1 THEN e[r[n]] >= e[s] ELSE e[s] >= e[r[n]]
    BY <2>3
  <2> QED  BY <1>5, <2>2, <2>4, Zenon
<1>8. CASE r # <<>> /\ ~(e[s] >= e[r[1]]) /\ ~(e[s] < e[Last(r)])
  <2>1. Len(r) \in later
    <3>1. Len(r) \in 1 .. Len(r) /\ 1 \in 1 .. Len(r) /\ Last(r) = r[Len(r)]
      BY <1>1, <1>3, <1>8 DEF Last
    <3>2. e[s] >= e[r[Len(r)]] /\ Len(r) # 1
      BY <1>3, <1>8, <3>1
    <3>3. Len(r) \in 2 .. Len(r)
      <4> DEFINE n == Len(r)
      <4>1. n \in Nat /\ n >= 1 /\ n # 1
        BY <1>3, <3>1, <3>2
      <4> HIDE DEF n
      <4>2. n \in 2 .. n
        BY <4>1
      <4> QED  BY <4>2 DEF n
    <3> QED  BY <3>2, <3>3
  <2> DEFINE k == Min(later)
  <2>2. k \in later /\ \A n \in later : k <= n
    <3>1. later \subseteq Nat /\ later # {}
      BY <2>1
    <3> HIDE DEF later
    <3> QED  BY <3>1, Least, Zenon
  <2>3. q = InsertAt(r, k, s)
    BY <1>2, <1>8, <2>1
  <2> HIDE DEF k
  <2>4. k \in 1 .. Len(r) /\ e[s] >= e[r[k]]
    BY <2>2
  <2>5. q \in Seq(Sessions) /\ Inserted(q, r, k, s)
    BY <1>1, <2>3, <2>4, InsertedAt
  <2>6. ASSUME NEW n \in 1 .. Len(r)
        PROVE  IF n < k THEN e[r[n]] >= e[s] ELSE e[s] >= e[r[n]]
    <3>1. CASE n < k /\ n = 1
      BY <1>3, <1>8, <3>1
    <3>2. CASE n < k /\ n # 1
      <4>1. n \in 2 .. Len(r) /\ n \notin later
        BY <2>2, <2>4, <3>2
      <4>2. ~(e[s] >= e[r[n]])
        BY <4>1
      <4> QED  BY <1>3, <3>2, <4>2
    <3>3. CASE ~(n < k)
      <4>1. n = k \/ k < n
        BY <2>4, <3>3
      <4>2. e[r[k]] >= e[r[n]]
        BY <1>3, <1>4, <2>4, <4>1 DEF Ordered
      <4> QED  BY <1>3, <2>4, <3>3, <4>2
    <3> QED  BY <3>1, <3>2, <3>3
  <2> QED  BY <1>5, <2>5, <2>6, Zenon
<1> QED  BY <1>6, <1>7, <1>8

\* As many as there are.
LEMMA Length ==
    ASSUME NEW S, NEW s \in Seq(S), IsInjective(s)
    PROVE  /\ IsFiniteSet(ToSet(s)) /\ Cardinality(ToSet(s)) = Len(s)
           /\ IsFiniteSet(S) => Len(s) <= Cardinality(S)
<1> DEFINE n == Len(s)
           T == ToSet(s)
<1>1. n \in Nat /\ \A m \in 1 .. n : s[m] \in T
  BY Members
<1>2. IsFiniteSet(1 .. n) /\ Cardinality(1 .. n) = n
  <2>1. 1 \in Int /\ n \in Int
    BY <1>1
  <2>2. IsFiniteSet(1 .. n) /\ Cardinality(1 .. n) = IF 1 > n THEN 0 ELSE n - 1 + 1
    BY <2>1, FS_Interval
  <2> QED  BY <1>1, <2>2
<1>3. s \in [1 .. n -> T] /\ \A x \in T : \E m \in 1 .. n : s[m] = x
  <2>1. s \in [1 .. n -> S]
    OBVIOUS
  <2> QED  BY <1>1, <2>1, Members
<1> HIDE DEF n, T
<1>4. s \in Surjection(1 .. n, T)
  BY <1>3 DEF Surjection
<1>5. s \in Injection(1 .. n, T)
  BY <1>3 DEF Injection
<1>6. IsFiniteSet(T) /\ Cardinality(T) = Cardinality(1 .. n)
  BY <1>2, <1>4, <1>5, FS_Surjection
<1>7. T \subseteq S
  BY Members DEF T
<1>8. ASSUME IsFiniteSet(S) PROVE n <= Cardinality(S)
  BY <1>2, <1>6, <1>7, <1>8, FS_Subset
<1> QED  BY <1>2, <1>6, <1>8 DEF n, T

\* The number of evictions keeps the cache below its limit.
LEMMA EvictionsFit ==
    ASSUME size \in Nat, NEW listed \in Nat
    PROVE  LET v == Evictions(listed + 1, listed)
           IN  /\ v \in 0 .. listed
               /\ size > 0 => listed - v = 0 \/ listed - v + 1 <= size - 1
<1> DEFINE x == listed + 1 - size + 1
           m == Max({0, x})
           v == Evictions(listed + 1, listed)
<1>1. x \in Int
  OBVIOUS
<1>2. m = IF x > 0 THEN x ELSE 0
  <2>1. \E y \in {0, x} : \A z \in {0, x} : y >= z
    BY <1>1
  <2>2. m \in {0, x} /\ \A z \in {0, x} : m >= z
    BY <2>1 DEF Max
  <2> HIDE DEF m
  <2> QED  BY <1>1, <2>2
<1>3. CASE size = 0
  BY <1>3 DEF Evictions
<1>4. CASE size # 0
  <2>1. v = Min({listed, m})
    BY <1>4 DEF Evictions
  <2>2. m \in Nat
    BY <1>1, <1>2
  <2> HIDE DEF m, v
  <2>3. {listed, m} \subseteq Nat /\ {listed, m} # {}
    BY <2>2
  <2>4. v \in {listed, m} /\ v <= listed /\ v <= m
    BY <2>1, <2>3, Least
  <2>5. v = IF m < listed THEN m ELSE listed
    BY <2>2, <2>4
  <2>6. v \in 0 .. listed /\ (size > 0 => listed - v = 0 \/ listed - v + 1 <= size - 1)
    BY <1>2, <1>4, <2>2, <2>5
  <2> QED  BY <2>6 DEF v
<1> QED  BY <1>3, <1>4

-----------------------------------------------------------------------------
(* Counting those who hold a session *)

Bit(b) == IF b THEN 1 ELSE 0
Owners(f, s) == {t \in Threads : f[t] = s}
Holds(f, t, n, s) == n <= Len(f[t]) /\ f[t][n] = s
Places(f, s) == {p \in Threads \X (1 .. Depth) : Holds(f, p[1], p[2], s)}

\* All that is counted is finite.
LEMMA Finite ==
    /\ Depth \in Nat /\ Depth >= 1 /\ (Sessions # {} => Depth >= 2)
    /\ \A f, s : IsFiniteSet(Owners(f, s)) /\ Cardinality(Owners(f, s)) \in Nat
    /\ \A f, s : IsFiniteSet(Places(f, s)) /\ Cardinality(Places(f, s)) \in Nat
<1>0. IsFiniteSet(Sessions) /\ IsFiniteSet(Threads)
  BY SessionCacheAssumption
<1>1. Cardinality(Sessions) \in Nat /\ (Sessions # {} => Cardinality(Sessions) # 0)
  BY <1>0, FS_CardinalityType, FS_EmptySet
<1>2. Depth \in Nat /\ Depth >= 1 /\ (Sessions # {} => Depth >= 2)
  BY <1>1 DEF Depth
<1>3. IsFiniteSet(Threads \X (1 .. Depth))
  <2>1. 1 \in Int /\ Depth \in Int
    BY <1>2
  <2>2. IsFiniteSet(1 .. Depth)
    BY <2>1, FS_Interval
  <2> QED  BY <1>0, <2>2, FS_Product
<1>4. \A f, s : Owners(f, s) \in SUBSET Threads /\ Places(f, s) \in SUBSET (Threads \X (1 .. Depth))
  BY DEF Owners, Places
<1>5. \A f, s : IsFiniteSet(Owners(f, s)) /\ IsFiniteSet(Places(f, s))
  BY <1>0, <1>3, <1>4, FS_Subset, Zenon
<1> QED  BY <1>2, <1>5, FS_CardinalityType

\* Who holds a session: the cache, connections and places on the stacks of
\* calls.
LEMMA HoldersCount ==
    ASSUME NEW s
    PROVE  /\ Holders(s) = Bit(s \in Cached) + Cardinality(Owners(own, s)) + Cardinality(Places(local, s))
           /\ Holders(s)' = Bit(s \in Cached') + Cardinality(Owners(own', s)) + Cardinality(Places(local', s))
BY DEF Holders, Bit, Owners, Places, Holds, Depth

\* A connection takes the session x in place of the one it had.
LEMMA Owns ==
    ASSUME NEW f, NEW t \in Threads, NEW x, NEW s,
           NEW g, g[t] = x, \A u \in Threads \ {t} : g[u] = f[u]
    PROVE  Cardinality(Owners(g, s)) + Bit(f[t] = s) = Cardinality(Owners(f, s)) + Bit(x = s)
<1> DEFINE A == Owners(f, s)
           B == Owners(g, s)
<1>2. IsFiniteSet(A) /\ Cardinality(A) \in Nat /\ IsFiniteSet(B) /\ Cardinality(B) \in Nat
  BY Finite
<1>3. (t \in A <=> f[t] = s) /\ (t \in B <=> x = s) /\ \A u \in Threads \ {t} : u \in A <=> u \in B
  BY DEF Owners
<1>4. A \subseteq Threads /\ B \subseteq Threads
  BY DEF Owners
<1> SUFFICES Cardinality(B) + Bit(t \in A) = Cardinality(A) + Bit(t \in B)
  BY <1>3 DEF Bit
<1> HIDE DEF A, B
<1>5. CASE t \in A <=> t \in B
  <2>1. A = B
    BY <1>3, <1>4, <1>5
  <2> QED  BY <1>2, <1>5, <2>1 DEF Bit
<1>6. CASE t \in A /\ t \notin B
  <2>1. A = B \cup {t}
    BY <1>3, <1>4, <1>6
  <2>2. Cardinality(B \cup {t}) = IF t \in B THEN Cardinality(B) ELSE Cardinality(B) + 1
    BY <1>2, FS_AddElement, Zenon
  <2> QED  BY <1>2, <1>6, <2>1, <2>2 DEF Bit
<1>7. CASE t \notin A /\ t \in B
  <2>1. B = A \cup {t}
    BY <1>3, <1>4, <1>7
  <2>2. Cardinality(A \cup {t}) = IF t \in A THEN Cardinality(A) ELSE Cardinality(A) + 1
    BY <1>2, FS_AddElement, Zenon
  <2> QED  BY <1>2, <1>7, <2>1, <2>2 DEF Bit
<1> QED  BY <1>5, <1>6, <1>7

\* A call that keeps its references leaves the count alone.
LEMMA SamePlaces ==
    ASSUME NEW f, NEW g, NEW t \in Threads, \A u \in Threads \ {t} : g[u] = f[u], NEW s,
           \A m \in 1 .. Depth : Holds(g, t, m, s) <=> Holds(f, t, m, s)
    PROVE  Places(g, s) = Places(f, s)
<1>1. ASSUME NEW p \in Threads \X (1 .. Depth)
      PROVE  Holds(g, p[1], p[2], s) <=> Holds(f, p[1], p[2], s)
  <2>1. p[1] \in Threads /\ p[2] \in 1 .. Depth
    OBVIOUS
  <2>2. CASE p[1] = t
    BY <2>1, <2>2
  <2>3. CASE p[1] # t
    BY <2>1, <2>3 DEF Holds
  <2> QED  BY <2>2, <2>3
<1> QED  BY <1>1 DEF Places

\* A call that takes one more reference raises the count by one.
LEMMA OnePlaceMore ==
    ASSUME NEW f, NEW g, NEW t \in Threads, \A u \in Threads \ {t} : g[u] = f[u], NEW s,
           NEW n \in 1 .. Depth, Holds(g, t, n, s), ~Holds(f, t, n, s),
           \A m \in 1 .. Depth : m # n => (Holds(g, t, m, s) <=> Holds(f, t, m, s))
    PROVE  Cardinality(Places(g, s)) = Cardinality(Places(f, s)) + 1
<1> DEFINE A == Places(f, s)
           P == <<t, n>>
<1>1. ASSUME NEW p \in Threads \X (1 .. Depth), p # P
      PROVE  Holds(g, p[1], p[2], s) <=> Holds(f, p[1], p[2], s)
  <2>1. p[1] \in Threads /\ p[2] \in 1 .. Depth /\ (p[1] = t => p[2] # n)
    BY <1>1
  <2>2. CASE p[1] = t
    BY <2>1, <2>2
  <2>3. CASE p[1] # t
    BY <2>1, <2>3 DEF Holds
  <2> QED  BY <2>2, <2>3
<1>2. P \in Threads \X (1 .. Depth) /\ P[1] = t /\ P[2] = n
  OBVIOUS
<1>3. P \notin A /\ P \in Places(g, s)
  BY <1>2 DEF Places
<1> HIDE DEF P
<1>4. Places(g, s) = A \cup {P}
  BY <1>1, <1>2, <1>3 DEF Places
<1>5. IsFiniteSet(A)
  BY Finite
<1> HIDE DEF A
<1>6. Cardinality(A \cup {P}) = IF P \in A THEN Cardinality(A) ELSE Cardinality(A) + 1
  BY <1>5, FS_AddElement, Zenon
<1> QED  BY <1>3, <1>4, <1>6 DEF A

\* A call takes one more reference,
LEMMA Push ==
    ASSUME NEW f, NEW t \in Threads, NEW x \in Sessions, NEW s,
           f[t] \in Seq(Sessions), Len(f[t]) < Depth,
           NEW g, g[t] = Append(f[t], x), \A u \in Threads \ {t} : g[u] = f[u]
    PROVE  Cardinality(Places(g, s)) = Cardinality(Places(f, s)) + Bit(x = s)
<1> DEFINE q == Append(f[t], x)
           n == Len(f[t])
<1>1. /\ n \in Nat /\ Len(q) = n + 1 /\ q[n + 1] = x
      /\ \A m \in 1 .. n : q[m] = f[t][m]
  OBVIOUS
<1>2. g[t] = q
  OBVIOUS
<1> HIDE DEF q, n
<1>3. n + 1 \in 1 .. Depth
  BY <1>1, Finite DEF n
<1>4. ASSUME NEW m \in 1 .. Depth, m # n + 1
      PROVE  Holds(g, t, m, s) <=> Holds(f, t, m, s)
  <2>1. CASE m \in 1 .. n
    BY <1>1, <1>2, <2>1 DEF Holds, n
  <2>2. CASE m > n + 1
    BY <1>1, <1>2, <2>2 DEF Holds, n
  <2> QED  BY <1>1, <1>4, <2>1, <2>2
<1>5. ~Holds(f, t, n + 1, s) /\ (Holds(g, t, n + 1, s) <=> x = s)
  BY <1>1, <1>2 DEF Holds, n
<1>6. CASE x = s
  <2> DEFINE k == n + 1
  <2>1. k \in 1 .. Depth /\ Holds(g, t, k, s) /\ ~Holds(f, t, k, s)
        /\ \A m \in 1 .. Depth : m # k => (Holds(g, t, m, s) <=> Holds(f, t, m, s))
    BY <1>3, <1>4, <1>5, <1>6
  <2> HIDE DEF k
  <2>2. Cardinality(Places(g, s)) = Cardinality(Places(f, s)) + 1
    BY <1>2, <2>1, OnePlaceMore
  <2> QED  BY <1>6, <2>2 DEF Bit
<1>7. CASE x # s
  <2>1. \A m \in 1 .. Depth : Holds(g, t, m, s) <=> Holds(f, t, m, s)
    BY <1>4, <1>5, <1>7
  <2>2. Places(g, s) = Places(f, s)
    BY <1>2, <2>1, SamePlaces
  <2>3. Cardinality(Places(f, s)) \in Nat
    BY Finite
  <2> QED  BY <1>7, <2>2, <2>3 DEF Bit
<1> QED  BY <1>6, <1>7

\* gives the last one back,
LEMMA Pop ==
    ASSUME NEW f, NEW t \in Threads, NEW s,
           f[t] \in Seq(Sessions), Len(f[t]) > 0, Len(f[t]) <= Depth,
           NEW g, g[t] = Front(f[t]), \A u \in Threads \ {t} : g[u] = f[u]
    PROVE  /\ g[t] \in Seq(Sessions) /\ Len(g[t]) = Len(f[t]) - 1
           /\ Last(f[t]) \in Sessions /\ Len(f[t]) \in Nat
           /\ Cardinality(Places(f, s)) = Cardinality(Places(g, s)) + Bit(Last(f[t]) = s)
<1> DEFINE l == f[t]
           q == Front(l)
           x == Last(l)
<1>1. l \in Seq(Sessions) /\ Len(l) \in Nat /\ Len(l) > 0
  OBVIOUS
<1>2. x \in Sessions
  BY <1>1 DEF Last
<1>3. q \in Seq(Sessions) /\ Len(q) = Len(l) - 1 /\ Append(q, x) = l
  <2> HIDE DEF l
  <2>1. q \in Seq(Sessions) /\ Len(q) = Len(l) - 1 /\ \A n \in 1 .. Len(l) - 1 : q[n] = l[n]
    <3> DEFINE k == Len(l) - 1
    <3>1. k \in 0 .. Len(l) /\ q = SubSeq(l, 1, k)
      BY <1>1 DEF Front
    <3> HIDE DEF k, q
    <3>2. /\ SubSeq(l, 1, k) \in Seq(Sessions) /\ Len(SubSeq(l, 1, k)) = k
          /\ \A n \in 1 .. k : SubSeq(l, 1, k)[n] = l[n]
      BY <1>1, <3>1
    <3>3. q \in Seq(Sessions) /\ Len(q) = k /\ \A n \in 1 .. k : q[n] = l[n]
      BY <3>1, <3>2, Zenon
    <3> QED  BY <3>3 DEF k
  <2> HIDE DEF q
  <2>2. /\ Append(q, x) \in Seq(Sessions) /\ Len(Append(q, x)) = Len(l)
        /\ \A n \in 1 .. Len(l) : Append(q, x)[n] = l[n]
    BY <1>1, <1>2, <2>1 DEF Last
  <2> DEFINE a == Append(q, x)
  <2> HIDE DEF a
  <2>3. a = l
    BY <1>1, <2>2 DEF a
  <2> QED  BY <2>1, <2>3 DEF a
<1> HIDE DEF q, x
<1>4. g[t] = q /\ g[t] \in Seq(Sessions)
  BY <1>3 DEF q
<1>5. f[t] = Append(g[t], x) /\ \A u \in Threads \ {t} : f[u] = g[u]
  BY <1>3, <1>4
<1>6. Len(g[t]) < Depth
  BY <1>1, <1>3, <1>4, Finite
<1>7. Cardinality(Places(f, s)) = Cardinality(Places(g, s)) + Bit(x = s)
  BY <1>2, <1>4, <1>5, <1>6, Push
<1> QED  BY <1>1, <1>2, <1>3, <1>4, <1>7 DEF x

\* or fills its stack.
LEMMA Fill ==
    ASSUME NEW f, NEW t \in Threads, Len(f[t]) = 0, NEW s,
           NEW q \in Seq(Sessions), IsInjective(q),
           NEW g, g[t] = q, \A u \in Threads \ {t} : g[u] = f[u]
    PROVE  /\ Len(q) <= Depth
           /\ Cardinality(Places(g, s)) = Cardinality(Places(f, s)) + Bit(s \in ToSet(q))
<1>2. Len(q) \in Nat /\ Len(q) < Depth
  <2>1. Len(q) <= Cardinality(Sessions) /\ Cardinality(Sessions) \in Nat
    BY SessionCacheAssumption, Length, FS_CardinalityType
  <2> QED  BY <2>1 DEF Depth
<1>3. \A m \in 1 .. Depth : ~Holds(f, t, m, s)
  BY DEF Holds
<1>4. \A m \in 1 .. Depth : Holds(g, t, m, s) <=> m \in 1 .. Len(q) /\ q[m] = s
  BY <1>2 DEF Holds
<1>5. CASE s \in ToSet(q)
  <2>1. PICK n \in 1 .. Len(q) : q[n] = s
    BY <1>5, Members
  <2>2. n \in 1 .. Depth
    BY <1>2, Finite
  <2>3. \A m \in 1 .. Len(q) : q[m] = s => m = n
    BY <2>1, Members
  <2>4. Holds(g, t, n, s) /\ ~Holds(f, t, n, s)
        /\ \A m \in 1 .. Depth : m # n => (Holds(g, t, m, s) <=> Holds(f, t, m, s))
    BY <1>3, <1>4, <2>1, <2>2, <2>3
  <2>5. Cardinality(Places(g, s)) = Cardinality(Places(f, s)) + 1
    BY <2>2, <2>4, OnePlaceMore
  <2> QED  BY <1>2, <1>5, <2>5, Finite DEF Bit
<1>6. CASE s \notin ToSet(q)
  <2>1. \A m \in 1 .. Len(q) : q[m] # s
    BY <1>6, Members
  <2>2. \A m \in 1 .. Depth : Holds(g, t, m, s) <=> Holds(f, t, m, s)
    BY <1>3, <1>4, <2>1
  <2>3. Places(g, s) = Places(f, s)
    BY <2>2, SamePlaces
  <2> QED  BY <1>2, <1>6, <2>3, Finite DEF Bit
<1> QED  BY <1>5, <1>6

-----------------------------------------------------------------------------
(* What the steps have in common *)

\* Steps that leave the table and the list alone leave them in agreement.
LEMMA KeepCache ==
    ASSUME Listed, Bounded, UNCHANGED <<size, sessions, list, id, exp>>
    PROVE  Listed' /\ Bounded' /\ Cached' = Cached
BY DEF Listed, Bounded, Cached

\* Only the call that moves has to be looked at.
LEMMA KeepCalls ==
    ASSUME Calls, NEW t \in Threads, CallOK(t)',
           \A u \in Threads \ {t} : local'[u] = local[u] /\ pc'[u] = pc[u] /\ own'[u] = own[u]
    PROVE  Calls'
BY DEF Calls, CallOK

\* A session is in the cache when the table has it under its own id.
LEMMA InCache ==
    ASSUME TypeOK, Listed
    PROVE  /\ Cached \subseteq Sessions
           /\ \A s \in Sessions : s \in Cached <=> sessions[id[s]] = s
           /\ \A i \in Ids : sessions[i] # NoSession => sessions[i] \in Cached
BY SessionCacheAssumption DEF TypeOK, Listed, Cached

\* The references of a session, by who holds them.
LEMMA Counted ==
    ASSUME IInv, NEW s \in Sessions
    PROVE  /\ refs[s] = Bit(s \in Cached) + Cardinality(Owners(own, s)) + Cardinality(Places(local, s))
           /\ Cardinality(Owners(own, s)) \in Nat /\ Cardinality(Places(local, s)) \in Nat
           /\ Bit(s \in Cached) \in {0, 1} /\ refs[s] \in Nat
<1>1. refs[s] = Holders(s) /\ refs[s] \in Nat
  BY DEF IInv, RefsExact, TypeOK
<1>2. Bit(s \in Cached) \in {0, 1}
  BY DEF Bit
<1> QED  BY <1>1, <1>2, HoldersCount, Finite

\* Counts that are right for each session make RefsExact true in the next state.
LEMMA CountedNext ==
    ASSUME DOMAIN refs' = Sessions, refs' = [s \in DOMAIN refs' |-> refs'[s]],
           \A s \in Sessions :
               refs'[s] = Bit(s \in Cached') + Cardinality(Owners(own', s)) + Cardinality(Places(local', s))
    PROVE  RefsExact' /\ refs' \in [Sessions -> Nat]
<1>1. ASSUME NEW s \in Sessions PROVE refs'[s] = Holders(s)' /\ refs'[s] \in Nat
  <2>1. Bit(s \in Cached') \in Nat
    BY DEF Bit
  <2>2. Cardinality(Owners(own', s)) \in Nat /\ Cardinality(Places(local', s)) \in Nat
    BY Finite
  <2>3. refs'[s] = Bit(s \in Cached') + Cardinality(Owners(own', s)) + Cardinality(Places(local', s))
    OBVIOUS
  <2>4. refs'[s] = Holders(s)'
    BY <2>3, HoldersCount
  <2> QED  BY <2>1, <2>2, <2>3, <2>4
<1>2. RefsExact'
  BY <1>1 DEF RefsExact
<1> QED  BY <1>1, <1>2

\* What a step does to the connections and to the calls, in numbers.
LEMMA OwnStep ==
    ASSUME NEW t \in Threads, NEW x, own'[t] = x, \A u \in Threads \ {t} : own'[u] = own[u], NEW s
    PROVE  /\ Cardinality(Owners(own', s)) + Bit(own[t] = s) = Cardinality(Owners(own, s)) + Bit(x = s)
           /\ Cardinality(Owners(own', s)) \in Nat
           /\ Bit(own[t] = s) \in {0, 1} /\ Bit(x = s) \in {0, 1}
BY Owns, Finite DEF Bit

\* A call that drops its last reference lowers the count of that session by one.
LEMMA PopStep ==
    ASSUME NEW t \in Threads, local[t] \in Seq(Sessions), Len(local[t]) > 0, Len(local[t]) <= Depth,
           local'[t] = Front(local[t]), \A u \in Threads \ {t} : local'[u] = local[u], NEW s
    PROVE  /\ Cardinality(Places(local, s)) = Cardinality(Places(local', s)) + Bit(Last(local[t]) = s)
           /\ Cardinality(Places(local', s)) \in Nat /\ Bit(Last(local[t]) = s) \in {0, 1}
           /\ local'[t] \in Seq(Sessions) /\ Last(local[t]) \in Sessions
           /\ Len(local'[t]) = Len(local[t]) - 1 /\ Len(local[t]) \in Nat
<1>1. /\ local'[t] \in Seq(Sessions) /\ Len(local'[t]) = Len(local[t]) - 1
      /\ Last(local[t]) \in Sessions /\ Len(local[t]) \in Nat
      /\ Cardinality(Places(local, s)) = Cardinality(Places(local', s)) + Bit(Last(local[t]) = s)
  BY Pop
<1>2. Cardinality(Places(local', s)) \in Nat
  BY Finite
<1> QED  BY <1>1, <1>2 DEF Bit

\* SSL_SESSION_free
LEMMA Freed ==
    ASSUME NEW r, NEW S
    PROVE  /\ DOMAIN Free(r, S) = Sessions /\ Free(r, S) = [s \in DOMAIN Free(r, S) |-> Free(r, S)[s]]
           /\ \A s \in Sessions : Free(r, S)[s] = IF s \in S THEN r[s] - 1 ELSE r[s]
BY DEF Free

-----------------------------------------------------------------------------
(* The steps that leave the cache alone *)

\* SSL_set_session preserves the invariant.
LEMMA SetSessionInv ==
    ASSUME IInv, NEW t \in Threads, UNCHANGED size, SSL_set_session(t)
    PROVE  IInv'
<1>0. TypeOK /\ Calls /\ RefsExact /\ Listed /\ Bounded
  BY DEF IInv
<1>1. PICK u \in Threads \ {t} :
          /\ own[u] \notin {NoSession, own[t]}
          /\ refs' = Free(UpRef(refs, own[u]), {own[t]})
          /\ own' = [own EXCEPT ![t] = own[u]]
  BY DEF SSL_set_session
<1>2. /\ pc[t] = "idle"
      /\ UNCHANGED <<size, id, exp, not_resumable, sessions, list, pc, local, crashed>>
  BY DEF SSL_set_session
<1> DEFINE x == own[u]
           y == own[t]
<1>3. x \in Sessions /\ x # y /\ refs \in [Sessions -> Nat] /\ own \in [Threads -> Sessions \cup {NoSession}]
  BY <1>0, <1>1 DEF TypeOK
<1>7. /\ own' \in [Threads -> Sessions \cup {NoSession}]
      /\ own'[t] = x /\ \A v \in Threads \ {t} : own'[v] = own[v]
  BY <1>1, <1>3
<1>4. Listed' /\ Bounded' /\ Cached' = Cached
  BY <1>0, <1>2, KeepCache
<1>5. ASSUME NEW s \in Sessions
      PROVE  refs'[s] = Bit(s \in Cached') + Cardinality(Owners(own', s)) + Cardinality(Places(local', s))
  <2>1. /\ refs[s] = Bit(s \in Cached) + Cardinality(Owners(own, s)) + Cardinality(Places(local, s))
        /\ Cardinality(Owners(own, s)) \in Nat /\ Cardinality(Places(local, s)) \in Nat
        /\ Bit(s \in Cached) \in {0, 1}
    BY Counted
  <2>2. Cardinality(Owners(own', s)) + Bit(y = s) = Cardinality(Owners(own, s)) + Bit(x = s)
    BY <1>7, OwnStep
  <2>3. UpRef(refs, x)[s] = refs[s] + Bit(x = s)
    BY <1>3 DEF UpRef, Bit
  <2>4. refs'[s] = refs[s] + Bit(x = s) - Bit(y = s)
    <3> DEFINE r == UpRef(refs, x)
    <3>1. refs' = Free(r, {y}) /\ r[s] = refs[s] + Bit(x = s)
      BY <1>1, <2>3
    <3> HIDE DEF r, x, y
    <3>2. refs'[s] = IF s \in {y} THEN r[s] - 1 ELSE r[s]
      BY <3>1, Freed
    <3> QED  BY <1>3, <3>1, <3>2 DEF Bit
  <2>5. Cardinality(Owners(own', s)) \in Nat
    BY Finite
  <2> HIDE DEF x, y
  <2>6. local' = local /\ Bit(x = s) \in {0, 1} /\ Bit(y = s) \in {0, 1}
    BY <1>2 DEF Bit
  <2> QED  BY <1>4, <2>1, <2>2, <2>4, <2>5, <2>6
<1>6. RefsExact' /\ refs' \in [Sessions -> Nat]
  <2>1. DOMAIN refs' = Sessions /\ refs' = [s \in DOMAIN refs' |-> refs'[s]]
    BY <1>1, Freed
  <2> QED  BY <1>5, <2>1, CountedNext
<1>8. TypeOK'
  BY <1>0, <1>2, <1>6, <1>7 DEF TypeOK
<1>9. Calls'
  <2>1. CallOK(t)'
    BY <1>0, <1>2 DEF Calls, CallOK
  <2> QED  BY <1>0, <1>2, <1>7, <2>1, KeepCalls
<1> QED  BY <1>4, <1>6, <1>8, <1>9 DEF IInv

\* The connection gives its session up.
LEMMA ReleaseInv ==
    ASSUME IInv, NEW t \in Threads, UNCHANGED size, Release(t)
    PROVE  IInv'
<1>0. TypeOK /\ Calls /\ RefsExact /\ Listed /\ Bounded
  BY DEF IInv
<1>1. /\ pc[t] = "idle" /\ refs' = Free(refs, {own[t]}) /\ own' = [own EXCEPT ![t] = NoSession]
      /\ UNCHANGED <<size, id, exp, not_resumable, sessions, list, pc, local, crashed>>
  BY DEF Release
<1>2. refs \in [Sessions -> Nat] /\ own \in [Threads -> Sessions \cup {NoSession}]
  BY <1>0 DEF TypeOK
<1>3. /\ own' \in [Threads -> Sessions \cup {NoSession}]
      /\ own'[t] = NoSession /\ \A v \in Threads \ {t} : own'[v] = own[v]
  BY <1>1, <1>2
<1>4. Listed' /\ Bounded' /\ Cached' = Cached
  BY <1>0, <1>1, KeepCache
<1>5. ASSUME NEW s \in Sessions
      PROVE  refs'[s] = Bit(s \in Cached') + Cardinality(Owners(own', s)) + Cardinality(Places(local', s))
  <2>1. /\ refs[s] = Bit(s \in Cached) + Cardinality(Owners(own, s)) + Cardinality(Places(local, s))
        /\ Cardinality(Owners(own, s)) \in Nat /\ Cardinality(Places(local, s)) \in Nat
        /\ Bit(s \in Cached) \in {0, 1}
    BY Counted
  <2> DEFINE x == NoSession
  <2>3. Bit(x = s) = 0 /\ own'[t] = x
    BY <1>3, SessionCacheAssumption DEF Bit
  <2>2. /\ Cardinality(Owners(own', s)) + Bit(own[t] = s) = Cardinality(Owners(own, s)) + Bit(x = s)
        /\ Cardinality(Owners(own', s)) \in Nat /\ Bit(own[t] = s) \in {0, 1}
    <3> HIDE DEF x
    <3> QED  BY <1>3, <2>3, OwnStep
  <2>4. refs'[s] = refs[s] - Bit(own[t] = s)
    <3>1. refs'[s] = IF s \in {own[t]} THEN refs[s] - 1 ELSE refs[s]
      BY <1>1, Freed
    <3> QED  BY <1>2, <3>1 DEF Bit
  <2> QED  BY <1>1, <1>4, <2>1, <2>2, <2>3, <2>4
<1>6. RefsExact' /\ refs' \in [Sessions -> Nat]
  <2>1. DOMAIN refs' = Sessions /\ refs' = [s \in DOMAIN refs' |-> refs'[s]]
    BY <1>1, Freed
  <2> QED  BY <1>5, <2>1, CountedNext
<1>8. TypeOK'
  BY <1>0, <1>1, <1>3, <1>6 DEF TypeOK
<1>9. Calls'
  <2>1. CallOK(t)'
    BY <1>0, <1>1 DEF Calls, CallOK
  <2> QED  BY <1>0, <1>1, <1>3, <2>1, KeepCalls
<1> QED  BY <1>4, <1>6, <1>8, <1>9 DEF IInv

\* A call takes its first reference.
LEMMA TakeOne ==
    ASSUME IInv, NEW t \in Threads, NEW x \in Sessions, NEW p \in {"adding", "found"},
           pc[t] = "idle", refs' = UpRef(refs, x), local' = [local EXCEPT ![t] = <<x>>],
           pc' = [pc EXCEPT ![t] = p],
           UNCHANGED <<size, id, exp, not_resumable, sessions, list, own, crashed>>
    PROVE  IInv'
<1>0. TypeOK /\ Calls /\ RefsExact /\ Listed /\ Bounded
  BY DEF IInv
<1>2. /\ refs \in [Sessions -> Nat] /\ local \in [Threads -> Seq(Sessions)]
      /\ pc \in [Threads -> {"idle", "adding", "found", "freeing", "setting"}]
  BY <1>0 DEF TypeOK
<1>1. local[t] \in Seq(Sessions) /\ Len(local[t]) = 0 /\ Len(local[t]) < Depth
  <2>1. Len(local[t]) = 0
    BY <1>0 DEF Calls, CallOK
  <2> QED  BY <1>2, <2>1, Finite
<1>3. /\ local'[t] = Append(local[t], x) /\ \A u \in Threads \ {t} : local'[u] = local[u]
      /\ pc'[t] = p /\ \A u \in Threads \ {t} : pc'[u] = pc[u]
  <2>1. local[t] = <<>>
    BY <1>1
  <2>2. Append(<<>>, x) = <<x>>
    OBVIOUS
  <2> QED  BY <1>2, <2>1, <2>2
<1>7. local'[t] \in Seq(Sessions) /\ Len(local'[t]) = 1
  BY <1>1, <1>3
<1>10. local' \in [Threads -> Seq(Sessions)]
  BY <1>2, <1>7
<1>4. Listed' /\ Bounded' /\ Cached' = Cached
  BY <1>0, KeepCache
<1>5. ASSUME NEW s \in Sessions
      PROVE  refs'[s] = Bit(s \in Cached') + Cardinality(Owners(own', s)) + Cardinality(Places(local', s))
  <2>1. /\ refs[s] = Bit(s \in Cached) + Cardinality(Owners(own, s)) + Cardinality(Places(local, s))
        /\ Cardinality(Owners(own, s)) \in Nat /\ Cardinality(Places(local, s)) \in Nat
        /\ Bit(s \in Cached) \in {0, 1}
    BY Counted
  <2>2. refs'[s] = refs[s] + Bit(x = s) /\ Bit(x = s) \in {0, 1}
    BY <1>2 DEF UpRef, Bit
  <2>3. Cardinality(Places(local', s)) = Cardinality(Places(local, s)) + Bit(x = s)
    <3> DEFINE f == local
               g == local'
    <3>1. /\ f[t] \in Seq(Sessions) /\ Len(f[t]) < Depth
          /\ g[t] = Append(f[t], x) /\ \A u \in Threads \ {t} : g[u] = f[u]
      BY <1>1, <1>3
    <3> HIDE DEF f, g
    <3>2. Cardinality(Places(g, s)) = Cardinality(Places(f, s)) + Bit(x = s)
      BY <3>1, Push
    <3> QED  BY <3>2 DEF f, g
  <2>4. own' = own
    OBVIOUS
  <2> QED  BY <1>4, <2>1, <2>2, <2>3, <2>4
<1>6. RefsExact' /\ refs' \in [Sessions -> Nat]
  <2>1. DOMAIN refs' = Sessions /\ refs' = [s \in DOMAIN refs' |-> refs'[s]]
    BY <1>2 DEF UpRef
  <2> QED  BY <1>5, <2>1, CountedNext
<1>8. TypeOK'
  <2>1. pc' \in [Threads -> {"idle", "adding", "found", "freeing", "setting"}]
    BY <1>2
  <2> QED  BY <1>0, <1>6, <1>10, <2>1 DEF TypeOK
<1>9. Calls'
  <2>1. CallOK(t)'
    BY <1>3, <1>7, Finite DEF CallOK
  <2> QED  BY <1>0, <1>3, <2>1, KeepCalls
<1> QED  BY <1>4, <1>6, <1>8, <1>9 DEF IInv

\* Dropping the next reference of a call preserves it.
LEMMA FreeNextInv ==
    ASSUME IInv, NEW t \in Threads, UNCHANGED size, FreeNext(t)
    PROVE  IInv'
<1>0. TypeOK /\ Calls /\ RefsExact /\ Listed /\ Bounded
  BY DEF IInv
<1>1. /\ pc[t] = "freeing" /\ refs' = Free(refs, {Last(local[t])})
      /\ local' = [local EXCEPT ![t] = Front(local[t])]
      /\ pc' = [pc EXCEPT ![t] = IF Len(local[t]) = 1 THEN "idle" ELSE "freeing"]
      /\ UNCHANGED <<size, id, exp, not_resumable, sessions, list, own, crashed>>
  BY DEF FreeNext
<1>2. /\ refs \in [Sessions -> Nat] /\ local \in [Threads -> Seq(Sessions)]
      /\ pc \in [Threads -> {"idle", "adding", "found", "freeing", "setting"}]
  BY <1>0 DEF TypeOK
<1>3. /\ local[t] \in Seq(Sessions) /\ Len(local[t]) > 0 /\ Len(local[t]) <= Depth
      /\ local'[t] = Front(local[t]) /\ \A u \in Threads \ {t} : local'[u] = local[u]
      /\ pc'[t] = (IF Len(local[t]) = 1 THEN "idle" ELSE "freeing")
      /\ \A u \in Threads \ {t} : pc'[u] = pc[u]
  BY <1>0, <1>1, <1>2 DEF Calls, CallOK
<1>7. /\ local'[t] \in Seq(Sessions) /\ Len(local'[t]) = Len(local[t]) - 1 /\ Len(local[t]) \in Nat
      /\ \A s : Cardinality(Places(local, s)) = Cardinality(Places(local', s)) + Bit(Last(local[t]) = s)
  BY <1>3, PopStep
<1>10. local' \in [Threads -> Seq(Sessions)]
  BY <1>1, <1>2, <1>7
<1>4. Listed' /\ Bounded' /\ Cached' = Cached
  BY <1>0, <1>1, KeepCache
<1>5. ASSUME NEW s \in Sessions
      PROVE  refs'[s] = Bit(s \in Cached') + Cardinality(Owners(own', s)) + Cardinality(Places(local', s))
  <2>1. /\ refs[s] = Bit(s \in Cached) + Cardinality(Owners(own, s)) + Cardinality(Places(local, s))
        /\ Cardinality(Owners(own, s)) \in Nat /\ Cardinality(Places(local, s)) \in Nat
        /\ Bit(s \in Cached) \in {0, 1}
    BY Counted
  <2> DEFINE x == Last(local[t])
  <2>2. refs'[s] = refs[s] - Bit(x = s) /\ Bit(x = s) \in {0, 1}
    <3>1. refs'[s] = IF s \in {x} THEN refs[s] - 1 ELSE refs[s]
      BY <1>1, Freed
    <3> QED  BY <1>2, <3>1 DEF Bit
  <2>3. own' = own /\ Cardinality(Places(local', s)) \in Nat
        /\ Cardinality(Places(local, s)) = Cardinality(Places(local', s)) + Bit(x = s)
    BY <1>1, <1>7, Finite
  <2> HIDE DEF x
  <2> QED  BY <1>4, <2>1, <2>2, <2>3
<1>6. RefsExact' /\ refs' \in [Sessions -> Nat]
  <2>1. DOMAIN refs' = Sessions /\ refs' = [s \in DOMAIN refs' |-> refs'[s]]
    BY <1>1, Freed
  <2> QED  BY <1>5, <2>1, CountedNext
<1>8. TypeOK'
  <2>1. pc' \in [Threads -> {"idle", "adding", "found", "freeing", "setting"}]
    BY <1>1, <1>2
  <2> QED  BY <1>0, <1>1, <1>6, <1>10, <2>1 DEF TypeOK
<1>9. Calls'
  <2>1. CallOK(t)'
    <3> DEFINE n == Len(local[t])
    <3>1. /\ Len(local'[t]) = n - 1 /\ n \in Nat /\ n > 0 /\ n <= Depth
          /\ pc'[t] = (IF n = 1 THEN "idle" ELSE "freeing")
      BY <1>3, <1>7
    <3> HIDE DEF n
    <3> QED  BY <3>1, Finite DEF CallOK
  <2> QED  BY <1>0, <1>1, <1>3, <2>1, KeepCalls
<1> QED  BY <1>4, <1>6, <1>8, <1>9 DEF IInv

\* Resuming the session that was looked up preserves it.
LEMMA ResumeInv ==
    ASSUME IInv, NEW t \in Threads, UNCHANGED size, Resume(t)
    PROVE  IInv'
<1>0. TypeOK /\ Calls /\ RefsExact /\ Listed /\ Bounded
  BY DEF IInv
<1>1. /\ pc[t] = "found" /\ refs' = Free(refs, {own[t]})
      /\ own' = [own EXCEPT ![t] = local[t][1]]
      /\ local' = [local EXCEPT ![t] = <<>>] /\ pc' = [pc EXCEPT ![t] = "idle"]
      /\ UNCHANGED <<size, id, exp, not_resumable, sessions, list, crashed>>
  BY DEF Resume
<1>2. /\ refs \in [Sessions -> Nat] /\ local \in [Threads -> Seq(Sessions)]
      /\ own \in [Threads -> Sessions \cup {NoSession}]
      /\ pc \in [Threads -> {"idle", "adding", "found", "freeing", "setting"}]
  BY <1>0 DEF TypeOK
<1> DEFINE x == local[t][1]
           y == own[t]
<1>3. local[t] \in Seq(Sessions) /\ Len(local[t]) = 1 /\ Len(local[t]) <= Depth /\ x \in Sessions
  BY <1>0, <1>1, <1>2 DEF Calls, CallOK
<1>4. /\ own' \in [Threads -> Sessions \cup {NoSession}] /\ own'[t] = x
      /\ local' \in [Threads -> Seq(Sessions)] /\ local'[t] = <<>>
      /\ pc' \in [Threads -> {"idle", "adding", "found", "freeing", "setting"}] /\ pc'[t] = "idle"
      /\ \A u \in Threads \ {t} : own'[u] = own[u] /\ local'[u] = local[u] /\ pc'[u] = pc[u]
  BY <1>1, <1>2, <1>3
<1>5. local[t] = Append(local'[t], x)
  <2>1. local[t] = <<x>>
    BY <1>3
  <2>2. Append(<<>>, x) = <<x>>
    OBVIOUS
  <2> QED  BY <1>4, <2>1, <2>2
<1>6. Listed' /\ Bounded' /\ Cached' = Cached
  BY <1>0, <1>1, KeepCache
<1>7. ASSUME NEW s \in Sessions
      PROVE  refs'[s] = Bit(s \in Cached') + Cardinality(Owners(own', s)) + Cardinality(Places(local', s))
  <2>1. /\ refs[s] = Bit(s \in Cached) + Cardinality(Owners(own, s)) + Cardinality(Places(local, s))
        /\ Cardinality(Owners(own, s)) \in Nat /\ Cardinality(Places(local, s)) \in Nat
        /\ Bit(s \in Cached) \in {0, 1}
    BY Counted
  <2>2. refs'[s] = refs[s] - Bit(y = s)
    <3>1. refs'[s] = IF s \in {y} THEN refs[s] - 1 ELSE refs[s]
      BY <1>1, Freed
    <3> QED  BY <1>2, <3>1 DEF Bit
  <2>3. Cardinality(Places(local, s)) = Cardinality(Places(local', s)) + Bit(x = s)
    <3> DEFINE f == local'
               g == local
    <3>1. /\ f[t] \in Seq(Sessions) /\ Len(f[t]) < Depth /\ x \in Sessions
          /\ g[t] = Append(f[t], x) /\ \A u \in Threads \ {t} : g[u] = f[u]
      BY <1>3, <1>4, <1>5, Finite
    <3> HIDE DEF f, g, x
    <3>2. Cardinality(Places(g, s)) = Cardinality(Places(f, s)) + Bit(x = s)
      BY <3>1, Push
    <3> QED  BY <3>2 DEF f, g
  <2> HIDE DEF x
  <2>4. Cardinality(Owners(own', s)) + Bit(y = s) = Cardinality(Owners(own, s)) + Bit(x = s)
    BY <1>4, OwnStep
  <2> HIDE DEF y
  <2>5. /\ Cardinality(Owners(own', s)) \in Nat /\ Cardinality(Places(local', s)) \in Nat
        /\ Bit(x = s) \in {0, 1} /\ Bit(y = s) \in {0, 1}
    BY Finite DEF Bit
  <2> QED  BY <1>6, <2>1, <2>2, <2>3, <2>4, <2>5
<1>8. RefsExact' /\ refs' \in [Sessions -> Nat]
  <2>1. DOMAIN refs' = Sessions /\ refs' = [s \in DOMAIN refs' |-> refs'[s]]
    BY <1>1, Freed
  <2> QED  BY <1>7, <2>1, CountedNext
<1>9. TypeOK'
  BY <1>0, <1>1, <1>4, <1>8 DEF TypeOK
<1>10. Calls'
  <2>1. CallOK(t)'
    BY <1>4, Finite DEF CallOK
  <2> QED  BY <1>0, <1>4, <2>1, KeepCalls
<1> QED  BY <1>6, <1>8, <1>9, <1>10 DEF IInv

\* Steps that leave counts and holders alone leave them equal.
LEMMA KeepRefs ==
    ASSUME RefsExact, UNCHANGED <<refs, sessions, own, local>>
    PROVE  RefsExact' /\ Cached' = Cached
BY DEF RefsExact, Holders, Cached

\* Not resuming a session of another version or context preserves it.
LEMMA MismatchInv ==
    ASSUME IInv, NEW t \in Threads, UNCHANGED size, Mismatch(t)
    PROVE  IInv'
<1>0. TypeOK /\ Calls /\ RefsExact /\ Listed /\ Bounded
  BY DEF IInv
<1>1. /\ pc[t] = "found" /\ pc' = [pc EXCEPT ![t] = "freeing"]
      /\ UNCHANGED <<size, refs, id, exp, not_resumable, sessions, list, own, local, crashed>>
  BY DEF Mismatch
<1>2. pc \in [Threads -> {"idle", "adding", "found", "freeing", "setting"}]
  BY <1>0 DEF TypeOK
<1>3. /\ pc' \in [Threads -> {"idle", "adding", "found", "freeing", "setting"}] /\ pc'[t] = "freeing"
      /\ \A u \in Threads \ {t} : pc'[u] = pc[u]
  BY <1>1, <1>2
<1>4. Listed' /\ Bounded' /\ RefsExact'
  BY <1>0, <1>1, KeepCache, KeepRefs
<1>5. TypeOK'
  BY <1>0, <1>1, <1>3 DEF TypeOK
<1>6. Calls'
  <2>1. CallOK(t)'
    BY <1>0, <1>1, <1>3 DEF Calls, CallOK
  <2> QED  BY <1>0, <1>1, <1>3, <2>1, KeepCalls
<1> QED  BY <1>4, <1>5, <1>6 DEF IInv

-----------------------------------------------------------------------------
(* New sessions *)

\* The memory of a session that nobody refers to is not in the cache, which keeps its order.
LEMMA FreshCache ==
    ASSUME IInv, NEW c \in Sessions, refs[c] = 0, NEW i \in Ids, NEW when \in Times,
           id' = [id EXCEPT ![c] = i], exp' = [exp EXCEPT ![c] = when],
           not_resumable' = [not_resumable EXCEPT ![c] = FALSE],
           UNCHANGED <<size, sessions, list>>
    PROVE  /\ Listed' /\ Bounded' /\ Cached' = Cached /\ c \notin Cached
           /\ id' \in [Sessions -> Ids] /\ exp' \in [Sessions -> Times]
           /\ not_resumable' \in [Sessions -> BOOLEAN]
<1>0. TypeOK /\ Listed /\ Bounded
  BY DEF IInv
<1>1. c \notin Cached
  <2>1. /\ refs[c] = Bit(c \in Cached) + Cardinality(Owners(own, c)) + Cardinality(Places(local, c))
        /\ Cardinality(Owners(own, c)) \in Nat /\ Cardinality(Places(local, c)) \in Nat
        /\ Bit(c \in Cached) \in {0, 1}
    BY Counted
  <2>2. Bit(c \in Cached) = 0
    BY <2>1
  <2> QED  BY <2>2 DEF Bit
<1>2. Cached' = Cached
  BY DEF Cached
<1>3. /\ id \in [Sessions -> Ids] /\ exp \in [Sessions -> Times] /\ list \in Seq(Sessions)
      /\ not_resumable \in [Sessions -> BOOLEAN] /\ sessions \in [Ids -> Sessions \cup {NoSession}]
  BY <1>0 DEF TypeOK
<1>4. \A s \in Sessions \ {c} : id'[s] = id[s] /\ exp'[s] = exp[s]
  BY <1>3
<1>5. \A j \in Ids : sessions'[j] # NoSession => id'[sessions'[j]] = j
  <2> SUFFICES ASSUME NEW j \in Ids, sessions[j] # NoSession
               PROVE  id'[sessions[j]] = j
    OBVIOUS
  <2>1. sessions[j] \in Cached /\ sessions[j] \in Sessions /\ id[sessions[j]] = j
    BY <1>0, <1>3, InCache DEF Listed
  <2>2. sessions[j] # c
    BY <1>1, <2>1
  <2> QED  BY <1>4, <2>1, <2>2
<1>6. Ordered(list, exp')
  <2>1. \A n \in 1 .. Len(list) : list[n] \in Sessions \ {c}
    <3>1. \A n \in 1 .. Len(list) : list[n] \in ToSet(list) /\ list[n] \in Sessions
      BY <1>3, Members
    <3> QED  BY <1>0, <1>1, <3>1 DEF Listed
  <2>2. \A n \in 1 .. Len(list) : exp'[list[n]] = exp[list[n]]
    BY <1>4, <2>1
  <2>3. Ordered(list, exp)
    BY <1>0 DEF Listed
  <2> HIDE DEF Ordered
  <2> QED  BY <2>2, <2>3 DEF Ordered
<1>7. Listed' /\ Bounded'
  BY <1>0, <1>2, <1>5, <1>6 DEF Listed, Bounded
<1> QED  BY <1>1, <1>2, <1>3, <1>7

\* Making a new session preserves it.
LEMMA NewSessionInv ==
    ASSUME IInv, NEW t \in Threads, UNCHANGED size, NewSession(t)
    PROVE  IInv'
<1>0. TypeOK /\ Calls /\ RefsExact /\ Listed /\ Bounded
  BY DEF IInv
<1>1. PICK x \in Sessions, i \in Ids, when \in Times :
          /\ refs[x] = 0
          /\ refs' = [refs EXCEPT ![x] = 1]
          /\ id' = [id EXCEPT ![x] = i]
          /\ exp' = [exp EXCEPT ![x] = when]
          /\ not_resumable' = [not_resumable EXCEPT ![x] = FALSE]
          /\ own' = [own EXCEPT ![t] = x]
  BY DEF NewSession
<1>2. /\ pc[t] = "idle" /\ own[t] = NoSession
      /\ UNCHANGED <<size, sessions, list, pc, local, crashed>>
  BY DEF NewSession
<1>3. refs \in [Sessions -> Nat] /\ own \in [Threads -> Sessions \cup {NoSession}]
  BY <1>0 DEF TypeOK
<1>4. /\ own' \in [Threads -> Sessions \cup {NoSession}] /\ own'[t] = x
      /\ \A u \in Threads \ {t} : own'[u] = own[u]
  BY <1>1, <1>3
<1>5. /\ Listed' /\ Bounded' /\ Cached' = Cached
      /\ id' \in [Sessions -> Ids] /\ exp' \in [Sessions -> Times]
      /\ not_resumable' \in [Sessions -> BOOLEAN]
  BY <1>1, <1>2, FreshCache
<1>6. ASSUME NEW s \in Sessions
      PROVE  refs'[s] = Bit(s \in Cached') + Cardinality(Owners(own', s)) + Cardinality(Places(local', s))
  <2>1. /\ refs[s] = Bit(s \in Cached) + Cardinality(Owners(own, s)) + Cardinality(Places(local, s))
        /\ Cardinality(Owners(own, s)) \in Nat /\ Cardinality(Places(local, s)) \in Nat
        /\ Bit(s \in Cached) \in {0, 1}
    BY Counted
  <2>2. refs'[s] = refs[s] + Bit(x = s) /\ Bit(x = s) \in {0, 1}
    BY <1>1, <1>3 DEF Bit
  <2>3. Cardinality(Owners(own', s)) + Bit(own[t] = s) = Cardinality(Owners(own, s)) + Bit(x = s)
    BY <1>4, OwnStep
  <2>4. Bit(own[t] = s) = 0 /\ Cardinality(Owners(own', s)) \in Nat /\ local' = local
    BY <1>2, SessionCacheAssumption, Finite DEF Bit
  <2> QED  BY <1>5, <2>1, <2>2, <2>3, <2>4
<1>7. RefsExact' /\ refs' \in [Sessions -> Nat]
  <2>1. DOMAIN refs' = Sessions /\ refs' = [s \in DOMAIN refs' |-> refs'[s]]
    BY <1>1, <1>3
  <2> QED  BY <1>6, <2>1, CountedNext
<1>8. TypeOK'
  BY <1>0, <1>2, <1>4, <1>5, <1>7 DEF TypeOK
<1>9. Calls'
  <2>1. CallOK(t)'
    BY <1>0, <1>2 DEF Calls, CallOK
  <2> QED  BY <1>0, <1>2, <1>4, <2>1, KeepCalls
<1> QED  BY <1>5, <1>7, <1>8, <1>9 DEF IInv

\* Preparing to add a session that get_session_cb made, with a reference for the
\* cache and one for the caller, preserves it.
LEMMA LookupExternalInv ==
    ASSUME IInv, NEW t \in Threads, NEW i \in Ids, UNCHANGED size, LookupExternal(t, i)
    PROVE  IInv'
<1>0. TypeOK /\ Calls /\ RefsExact /\ Listed /\ Bounded
  BY DEF IInv
<1>1. PICK x \in Sessions, when \in Times :
          /\ refs[x] = 0
          /\ refs' = [refs EXCEPT ![x] = 2]
          /\ id' = [id EXCEPT ![x] = i]
          /\ exp' = [exp EXCEPT ![x] = when]
          /\ not_resumable' = [not_resumable EXCEPT ![x] = FALSE]
          /\ local' = [local EXCEPT ![t] = <<x, x>>]
  BY DEF LookupExternal
<1>2. /\ pc[t] = "idle" /\ pc' = [pc EXCEPT ![t] = "adding"]
      /\ UNCHANGED <<size, sessions, list, own, crashed>>
  BY DEF LookupExternal
<1>3. /\ refs \in [Sessions -> Nat] /\ local \in [Threads -> Seq(Sessions)]
      /\ pc \in [Threads -> {"idle", "adding", "found", "freeing", "setting"}]
  BY <1>0 DEF TypeOK
<1> DEFINE h == [local EXCEPT ![t] = <<x>>]
<1>4. /\ local[t] = <<>> /\ h[t] = <<x>> /\ \A u \in Threads \ {t} : h[u] = local[u]
      /\ local' \in [Threads -> Seq(Sessions)] /\ local'[t] = <<x, x>>
      /\ pc' \in [Threads -> {"idle", "adding", "found", "freeing", "setting"}] /\ pc'[t] = "adding"
      /\ \A u \in Threads \ {t} : local'[u] = local[u] /\ pc'[u] = pc[u]
  <2>1. local[t] = <<>>
    BY <1>0, <1>2, <1>3 DEF Calls, CallOK
  <2> QED  BY <1>1, <1>2, <1>3, <2>1
<1>5. /\ Listed' /\ Bounded' /\ Cached' = Cached
      /\ id' \in [Sessions -> Ids] /\ exp' \in [Sessions -> Times]
      /\ not_resumable' \in [Sessions -> BOOLEAN]
  BY <1>1, <1>2, FreshCache
<1>6. Depth \in Nat /\ Depth >= 2
  BY Finite
<1>7. ASSUME NEW s \in Sessions
      PROVE  refs'[s] = Bit(s \in Cached') + Cardinality(Owners(own', s)) + Cardinality(Places(local', s))
  <2>1. /\ refs[s] = Bit(s \in Cached) + Cardinality(Owners(own, s)) + Cardinality(Places(local, s))
        /\ Cardinality(Owners(own, s)) \in Nat /\ Cardinality(Places(local, s)) \in Nat
        /\ Bit(s \in Cached) \in {0, 1}
    BY Counted
  <2>2. refs'[s] = refs[s] + Bit(x = s) + Bit(x = s) /\ Bit(x = s) \in {0, 1}
    BY <1>1, <1>3 DEF Bit
  <2> DEFINE f == local
             g == local'
  <2>3. /\ f[t] \in Seq(Sessions) /\ Len(f[t]) < Depth
        /\ h[t] = Append(f[t], x) /\ \A u \in Threads \ {t} : h[u] = f[u]
    BY <1>4, <1>6
  <2>4. /\ h[t] \in Seq(Sessions) /\ Len(h[t]) < Depth
        /\ g[t] = Append(h[t], x) /\ \A u \in Threads \ {t} : g[u] = h[u]
    <3> DEFINE y == <<x>>
               a == Append(y, x)
               b == <<x, x>>
    <3>1. y \in Seq(Sessions) /\ Len(y) = 1 /\ y[1] = x
      OBVIOUS
    <3>2. b \in Seq(Sessions) /\ Len(b) = 2 /\ b[1] = x /\ b[2] = x
      OBVIOUS
    <3>3. h[t] = y /\ g[t] = b /\ \A u \in Threads \ {t} : g[u] = h[u]
      BY <1>4
    <3> HIDE DEF h, g, y, b
    <3>4. a \in Seq(Sessions) /\ Len(a) = 2 /\ a[1] = x /\ a[2] = x
      <4>1. a \in Seq(Sessions) /\ Len(a) = Len(y) + 1 /\ a[Len(y) + 1] = x
            /\ \A n \in 1 .. Len(y) : a[n] = y[n]
        BY <3>1
      <4> HIDE DEF a
      <4> QED  BY <3>1, <4>1
    <3> HIDE DEF a
    <3>5. a = b
      BY <3>2, <3>4
    <3>6. g[t] = Append(h[t], x)
      BY <3>3, <3>5, Zenon DEF a
    <3>7. h[t] \in Seq(Sessions) /\ Len(h[t]) = 1
      BY <3>1, <3>3, Zenon
    <3>8. 1 < Depth
      BY <1>6
    <3> QED  BY <3>3, <3>6, <3>7, <3>8, Zenon
  <2> HIDE DEF f, g, h
  <2>5. Cardinality(Places(h, s)) = Cardinality(Places(f, s)) + Bit(x = s)
    BY <2>3, Push
  <2>6. Cardinality(Places(g, s)) = Cardinality(Places(h, s)) + Bit(x = s)
    BY <2>4, Push
  <2>7. Cardinality(Places(local', s)) = Cardinality(Places(local, s)) + Bit(x = s) + Bit(x = s)
    BY <2>5, <2>6 DEF f, g
  <2>8. own' = own
    BY <1>2
  <2> QED  BY <1>5, <2>1, <2>2, <2>7, <2>8
<1>8. RefsExact' /\ refs' \in [Sessions -> Nat]
  <2>1. DOMAIN refs' = Sessions /\ refs' = [s \in DOMAIN refs' |-> refs'[s]]
    BY <1>1, <1>3
  <2> QED  BY <1>7, <2>1, CountedNext
<1>9. TypeOK'
  BY <1>0, <1>2, <1>4, <1>5, <1>8 DEF TypeOK
<1>10. Calls'
  <2>1. CallOK(t)'
    BY <1>4, <1>6 DEF CallOK
  <2> QED  BY <1>0, <1>2, <1>4, <2>1, KeepCalls
<1> QED  BY <1>5, <1>8, <1>9, <1>10 DEF IInv

-----------------------------------------------------------------------------
(* Timeouts *)

\* A session that is in no list may be given any timeout.
LEMMA SetTimeoutInv ==
    ASSUME IInv, NEW t \in Threads, UNCHANGED size, SetTimeout(t)
    PROVE  IInv'
<1>0. TypeOK /\ Calls /\ RefsExact /\ Listed /\ Bounded
  BY DEF IInv
<1>1. /\ pc[t] = "idle" /\ own[t] # NoSession
      /\ UNCHANGED <<size, refs, id, not_resumable, sessions, list, own, local, crashed>>
      /\ IF OnList(own[t])
         THEN pc' = [pc EXCEPT ![t] = "setting"] /\ UNCHANGED exp
         ELSE (\E when \in Times : exp' = [exp EXCEPT ![own[t]] = when]) /\ UNCHANGED pc
  BY DEF SetTimeout
<1>2. /\ pc \in [Threads -> {"idle", "adding", "found", "freeing", "setting"}]
      /\ exp \in [Sessions -> Times] /\ own[t] \in Sessions /\ list \in Seq(Sessions)
  BY <1>0, <1>1 DEF TypeOK
<1>3. RefsExact' /\ Cached' = Cached
  BY <1>0, <1>1, KeepRefs
<1>4. /\ pc' \in [Threads -> {"idle", "adding", "found", "freeing", "setting"}]
      /\ pc'[t] \in {"idle", "setting"} /\ exp' \in [Sessions -> Times]
      /\ \A u \in Threads \ {t} : pc'[u] = pc[u]
  <2>1. CASE OnList(own[t])
    BY <1>1, <1>2, <2>1
  <2>2. CASE ~OnList(own[t])
    BY <1>1, <1>2, <2>2
  <2> QED  BY <2>1, <2>2
<1>5. Ordered(list, exp')
  <2>1. Ordered(list, exp)
    BY <1>0 DEF Listed
  <2>2. CASE OnList(own[t])
    BY <1>1, <2>1, <2>2
  <2>3. CASE ~OnList(own[t])
    <3>1. \A n \in 1 .. Len(list) : list[n] \in Sessions /\ list[n] # own[t]
      BY <1>2, <2>3, Members DEF OnList
    <3>2. \A n \in 1 .. Len(list) : exp'[list[n]] = exp[list[n]]
      BY <1>1, <1>2, <2>3, <3>1
    <3> QED  BY <2>1, <3>2 DEF Ordered
  <2> QED  BY <2>2, <2>3
<1>6. Listed' /\ Bounded'
  BY <1>0, <1>1, <1>3, <1>5 DEF Listed, Bounded
<1>7. TypeOK'
  BY <1>0, <1>1, <1>4 DEF TypeOK
<1>8. Calls'
  <2>1. CallOK(t)'
    BY <1>0, <1>1, <1>4 DEF Calls, CallOK
  <2> QED  BY <1>0, <1>1, <1>4, <2>1, KeepCalls
<1> QED  BY <1>3, <1>6, <1>7, <1>8 DEF IInv

\* One that is in the list is put where it belongs.
LEMMA SetTimeoutLockedInv ==
    ASSUME IInv, NEW t \in Threads, UNCHANGED size, SetTimeoutLocked(t)
    PROVE  IInv'
<1>0. TypeOK /\ Calls /\ RefsExact /\ Listed /\ Bounded
  BY DEF IInv
<1>1. /\ pc[t] = "setting" /\ OnList(own[t])
      /\ list' = SSL_SESSION_list_add(list, own[t], exp')
      /\ pc' = [pc EXCEPT ![t] = "idle"]
      /\ UNCHANGED <<size, refs, id, not_resumable, sessions, own, local, crashed>>
  BY DEF SetTimeoutLocked
<1>2. PICK when \in Times : exp' = [exp EXCEPT ![own[t]] = when]
  BY DEF SetTimeoutLocked
<1> DEFINE x == own[t]
           f == exp
           e == exp'
           q == list'
<1>3. /\ pc \in [Threads -> {"idle", "adding", "found", "freeing", "setting"}]
      /\ f \in [Sessions -> Times] /\ list \in Seq(Sessions) /\ IsInjective(list)
  BY <1>0 DEF TypeOK
<1>4. x \in ToSet(list) /\ x \in Sessions
  BY <1>1, <1>3, Members DEF OnList
<1>5. Ordered(list, f) /\ q = SSL_SESSION_list_add(list, x, e)
  BY <1>0, <1>1 DEF Listed
<1>6. e \in [Sessions -> Times] /\ \A s \in Sessions \ {x} : e[s] = f[s]
  BY <1>2, <1>3, <1>4
<1>7. q \in Seq(Sessions) /\ IsInjective(q) /\ Ordered(q, e) /\ ToSet(q) = ToSet(list)
  <2> HIDE DEF x, f, e, q
  <2>1. q \in Seq(Sessions) /\ IsInjective(q) /\ Ordered(q, e) /\ ToSet(q) = ToSet(list) \cup {x}
    BY <1>3, <1>4, <1>5, <1>6, ListAdd
  <2> QED  BY <1>4, <2>1
<1>8. RefsExact' /\ Cached' = Cached
  BY <1>0, <1>1, KeepRefs
<1>9. Listed'
  BY <1>0, <1>1, <1>7, <1>8 DEF Listed
<1>10. Bounded'
  <2>1. Len(list') = Len(list)
    <3>1. Cardinality(ToSet(q)) = Len(q) /\ Cardinality(ToSet(list)) = Len(list)
      <4> HIDE DEF q
      <4> QED  BY <1>3, <1>7, Length
    <3> QED  BY <1>7, <3>1
  <2> QED  BY <1>0, <1>1, <2>1 DEF Bounded
<1>11. /\ pc' \in [Threads -> {"idle", "adding", "found", "freeing", "setting"}] /\ pc'[t] = "idle"
       /\ \A u \in Threads \ {t} : pc'[u] = pc[u]
  BY <1>1, <1>3
<1>12. TypeOK'
  BY <1>0, <1>1, <1>6, <1>7, <1>11 DEF TypeOK
<1>13. Calls'
  <2>1. CallOK(t)'
    BY <1>0, <1>1, <1>11 DEF Calls, CallOK
  <2> QED  BY <1>0, <1>1, <1>11, <2>1, KeepCalls
<1> QED  BY <1>8, <1>9, <1>10, <1>12, <1>13 DEF IInv

\* A session that lost its owner before the lock was taken (section 9 of the
\* README) preserves it: nothing but the crash is noted.
LEMMA SetTimeoutNoOwnerInv ==
    ASSUME IInv, NEW t \in Threads, UNCHANGED size, SetTimeoutNoOwner(t)
    PROVE  IInv'
<1>0. TypeOK /\ Calls /\ RefsExact /\ Listed /\ Bounded
  BY DEF IInv
<1>1. /\ crashed' = TRUE
      /\ UNCHANGED <<size, refs, id, exp, not_resumable, sessions, list, own, pc, local>>
  BY DEF SetTimeoutNoOwner
<1>2. Listed' /\ Bounded' /\ RefsExact'
  BY <1>0, <1>1, KeepCache, KeepRefs
<1>3. TypeOK'
  BY <1>0, <1>1 DEF TypeOK
<1>4. Calls'
  BY <1>0, <1>1 DEF Calls, CallOK
<1> QED  BY <1>2, <1>3, <1>4 DEF IInv

-----------------------------------------------------------------------------
(* Sessions that leave the cache *)

\* The table loses the sessions of G, each under its own id.
LEMMA TableLess ==
    ASSUME TypeOK, Listed, NEW G, G \subseteq Cached, id' = id,
           sessions' = [i \in Ids |-> IF \E x \in G : id[x] = i THEN NoSession ELSE sessions[i]]
    PROVE  /\ sessions' \in [Ids -> Sessions \cup {NoSession}]
           /\ Cached' = Cached \ G
           /\ \A i \in Ids : sessions'[i] # NoSession => id'[sessions'[i]] = i
<1>1. /\ sessions \in [Ids -> Sessions \cup {NoSession}] /\ id \in [Sessions -> Ids]
      /\ \A i \in Ids : sessions[i] # NoSession => id[sessions[i]] = i
  BY DEF TypeOK, Listed
<1>2. /\ Cached \subseteq Sessions /\ \A s \in Sessions : s \in Cached <=> sessions[id[s]] = s
      /\ \A i \in Ids : sessions[i] # NoSession => sessions[i] \in Cached
  BY InCache
<1>3. \A s : s \in Cached' <=> s # NoSession /\ \E i \in Ids : sessions'[i] = s
  BY DEF Cached
<1>4. \A i \in Ids : sessions'[i] = IF \E x \in G : id[x] = i THEN NoSession ELSE sessions[i]
  OBVIOUS
<1>5. sessions' \in [Ids -> Sessions \cup {NoSession}]
  BY <1>1
<1>6. ASSUME NEW i \in Ids, sessions'[i] # NoSession
      PROVE  sessions'[i] = sessions[i] /\ id'[sessions'[i]] = i /\ sessions'[i] \in Cached \ G
  <2>1. ~(\E x \in G : id[x] = i) /\ sessions'[i] = sessions[i]
    BY <1>4, <1>6
  <2>2. id[sessions[i]] = i /\ sessions[i] \in Cached
    BY <1>1, <1>2, <1>6, <2>1
  <2> QED  BY <2>1, <2>2
<1>7. ASSUME NEW s \in Cached \ G PROVE s \in Cached'
  <2>1. s \in Sessions /\ sessions[id[s]] = s /\ id[s] \in Ids /\ s # NoSession
    BY <1>1, <1>2, SessionCacheAssumption
  <2>2. ASSUME NEW x \in G, id[x] = id[s] PROVE FALSE
    <3>1. sessions[id[x]] = x
      BY <1>2
    <3> QED  BY <1>7, <2>1, <2>2, <3>1
  <2>3. sessions'[id[s]] = s
    BY <1>4, <2>1, <2>2
  <2> QED  BY <1>3, <2>1, <2>3
<1>8. Cached' = Cached \ G
  <2>1. ASSUME NEW s \in Cached' PROVE s \in Cached \ G
    <3>1. PICK i \in Ids : sessions'[i] = s /\ s # NoSession
      BY <1>3
    <3> QED  BY <1>6, <3>1
  <2> QED  BY <1>7, <2>1
<1> QED  BY <1>5, <1>6, <1>8

\* remove_session_lock
LEMMA RemoveInv ==
    ASSUME IInv, NEW t \in Threads, NEW c \in Sessions, NEW rest, local[t] = rest, Len(rest) <= 1,
           remove_session_lock(t, c, rest), UNCHANGED <<size, refs, id, exp, own, crashed>>
    PROVE  IInv'
<1>0. TypeOK /\ Calls /\ RefsExact /\ Listed /\ Bounded
  BY DEF IInv
<1> DEFINE r == sessions[id[c]]
           G == {r} \ {NoSession}
<1>1. /\ sessions' = [sessions EXCEPT ![id[c]] = NoSession]
      /\ list' = SSL_SESSION_list_remove(list, r)
      /\ not_resumable' = [not_resumable EXCEPT ![c] = TRUE]
      /\ local' = [local EXCEPT ![t] = WithFound(r, rest)]
      /\ pc' = [pc EXCEPT ![t] = IF local'[t] = <<>> THEN "idle" ELSE "freeing"]
  BY DEF remove_session_lock
<1>2. /\ sessions \in [Ids -> Sessions \cup {NoSession}] /\ id \in [Sessions -> Ids]
      /\ list \in Seq(Sessions) /\ IsInjective(list) /\ local \in [Threads -> Seq(Sessions)]
      /\ not_resumable \in [Sessions -> BOOLEAN] /\ size \in Nat
      /\ pc \in [Threads -> {"idle", "adding", "found", "freeing", "setting"}]
  BY <1>0, SessionCacheAssumption DEF TypeOK
<1>3. G \subseteq Cached /\ r \in Sessions \cup {NoSession} /\ NoSession \notin Cached
  BY <1>0, <1>2, InCache, SessionCacheAssumption
<1>4. sessions' = [i \in Ids |-> IF \E x \in G : id[x] = i THEN NoSession ELSE sessions[i]]
  <2>1. \A x \in G : x = r /\ id[x] = id[c]
    BY <1>0, <1>2 DEF Listed
  <2>2. ASSUME NEW i \in Ids
        PROVE  sessions'[i] = IF \E x \in G : id[x] = i THEN NoSession ELSE sessions[i]
    <3>1. CASE i = id[c]
      BY <1>1, <1>2, <2>1, <3>1
    <3>2. CASE i # id[c]
      BY <1>1, <1>2, <2>1, <3>2
    <3> QED  BY <3>1, <3>2
  <2>3. DOMAIN sessions' = Ids /\ sessions' = [i \in Ids |-> sessions'[i]]
    BY <1>1, <1>2
  <2> QED  BY <2>2, <2>3
<1>5. /\ sessions' \in [Ids -> Sessions \cup {NoSession}] /\ Cached' = Cached \ G
      /\ \A i \in Ids : sessions'[i] # NoSession => id'[sessions'[i]] = i
  <2> HIDE DEF G
  <2> QED  BY <1>0, <1>3, <1>4, TableLess
<1>6. /\ list' \in Seq(Sessions) /\ IsInjective(list') /\ Ordered(list', exp')
      /\ ToSet(list') = ToSet(list) \ {r} /\ Len(list') <= Len(list)
  <2> DEFINE l == list
             q == list'
             e == exp
  <2>1. l \in Seq(Sessions) /\ IsInjective(l) /\ Ordered(l, e) /\ q = SSL_SESSION_list_remove(l, r)
    BY <1>0, <1>1, <1>2 DEF Listed
  <2> HIDE DEF l, q, e, r
  <2>2. /\ q \in Seq(Sessions) /\ IsInjective(q) /\ Ordered(q, e)
        /\ ToSet(q) = ToSet(l) \ {r} /\ Len(q) <= Len(l)
    BY <2>1, ListRemove
  <2> QED  BY <2>2 DEF l, q, e
<1>7. Listed'
  <2>1. Cached' = ToSet(list')
    BY <1>0, <1>3, <1>5, <1>6 DEF Listed
  <2> QED  BY <1>5, <1>6, <2>1 DEF Listed
<1>8. Bounded'
  BY <1>0, <1>2, <1>6 DEF Bounded
<1>9. rest \in Seq(Sessions) /\ Len(rest) \in Nat /\ Len(rest) < Depth
  <2>1. r # NoSession => Depth >= 2
    BY <1>3, Finite
  <2>2. rest \in Seq(Sessions) /\ Len(rest) \in Nat
    BY <1>2
  <2>3. Depth \in Nat /\ Depth >= 2
    BY Finite
  <2> QED  BY <2>2, <2>3
<1>10. /\ local'[t] = WithFound(r, rest) /\ local'[t] \in Seq(Sessions)
       /\ r = NoSession => local'[t] = rest
       /\ r # NoSession => local'[t] = Append(rest, r)
       /\ Len(local'[t]) \in Nat /\ Len(local'[t]) <= Depth
       /\ \A u \in Threads \ {t} : local'[u] = local[u]
       /\ local' \in [Threads -> Seq(Sessions)]
  <2>1. local'[t] = WithFound(r, rest) /\ \A u \in Threads \ {t} : local'[u] = local[u]
    BY <1>1, <1>2
  <2> DEFINE w == WithFound(r, rest)
  <2>2. /\ r = NoSession => w = rest
        /\ r # NoSession => w = Append(rest, r)
    BY DEF WithFound
  <2>3. w \in Seq(Sessions) /\ Len(w) \in Nat /\ Len(w) <= Depth
    <3> HIDE DEF w, r
    <3>1. CASE r = NoSession
      BY <1>9, <2>2, <3>1, Finite
    <3>2. CASE r # NoSession
      <4>1. w = Append(rest, r) /\ r \in Sessions
        BY <1>3, <2>2, <3>2
      <4>2. w \in Seq(Sessions) /\ Len(w) = Len(rest) + 1
        BY <1>9, <4>1
      <4> QED  BY <1>9, <4>2, Finite
    <3> QED  BY <3>1, <3>2
  <2>4. local' \in [Threads -> Seq(Sessions)]
    BY <1>1, <1>2, <2>3
  <2> QED  BY <2>1, <2>2, <2>3, <2>4
<1>11. ASSUME NEW s \in Sessions
       PROVE  refs'[s] = Bit(s \in Cached') + Cardinality(Owners(own', s)) + Cardinality(Places(local', s))
  <2>1. /\ refs[s] = Bit(s \in Cached) + Cardinality(Owners(own, s)) + Cardinality(Places(local, s))
        /\ Cardinality(Owners(own, s)) \in Nat /\ Cardinality(Places(local, s)) \in Nat
        /\ Bit(s \in Cached) \in {0, 1}
    BY Counted
  <2>2. refs'[s] = refs[s] /\ own' = own
    OBVIOUS
  <2>3. CASE r = NoSession
    <3>1. Cached' = Cached
      BY <1>3, <1>5, <2>3
    <3>2. local' = local
      BY <1>1, <1>2, <1>10, <2>3
    <3> QED  BY <2>1, <2>2, <3>1, <3>2
  <2>4. CASE r # NoSession
    <3>1. r \in Sessions /\ r \in Cached
      BY <1>3, <2>4
    <3>2. Cardinality(Places(local', s)) = Cardinality(Places(local, s)) + Bit(r = s)
      <4> DEFINE f == local
                 g == local'
      <4>1. /\ f[t] \in Seq(Sessions) /\ Len(f[t]) < Depth
            /\ g[t] = Append(f[t], r) /\ \A u \in Threads \ {t} : g[u] = f[u]
        BY <1>9, <1>10, <2>4
      <4> HIDE DEF f, g, r
      <4>2. Cardinality(Places(g, s)) = Cardinality(Places(f, s)) + Bit(r = s)
        BY <3>1, <4>1, Push
      <4> QED  BY <4>2 DEF f, g
    <3>3. Bit(s \in Cached') + Bit(r = s) = Bit(s \in Cached) /\ Bit(r = s) \in {0, 1} /\ Bit(s \in Cached') \in {0, 1}
      <4> HIDE DEF r
      <4>1. s \in Cached' <=> s \in Cached /\ r # s
        BY <1>5, <2>4
      <4> QED  BY <3>1, <4>1 DEF Bit
    <3> HIDE DEF r
    <3> QED  BY <2>1, <2>2, <3>2, <3>3
  <2> QED  BY <2>3, <2>4
<1>12. RefsExact' /\ refs' \in [Sessions -> Nat]
  <2>1. DOMAIN refs' = Sessions /\ refs' = [s \in DOMAIN refs' |-> refs'[s]]
    BY <1>0 DEF TypeOK
  <2> QED  BY <1>11, <2>1, CountedNext
<1>13. /\ pc' \in [Threads -> {"idle", "adding", "found", "freeing", "setting"}]
       /\ pc'[t] = (IF local'[t] = <<>> THEN "idle" ELSE "freeing")
       /\ \A u \in Threads \ {t} : pc'[u] = pc[u]
  BY <1>1, <1>2
<1>14. not_resumable' \in [Sessions -> BOOLEAN]
  BY <1>1, <1>2
<1>15. TypeOK'
  BY <1>0, <1>5, <1>6, <1>10, <1>12, <1>13, <1>14 DEF TypeOK
<1>16. Calls'
  <2>1. CallOK(t)'
    <3> DEFINE q == local'[t]
    <3>1. q \in Seq(Sessions) /\ Len(q) \in Nat /\ Len(q) <= Depth /\ pc'[t] = (IF q = <<>> THEN "idle" ELSE "freeing")
      BY <1>10, <1>13
    <3> HIDE DEF q
    <3>2. q = <<>> <=> Len(q) = 0
      BY <3>1
    <3> QED  BY <3>1, <3>2 DEF CallOK, q
  <2> QED  BY <1>0, <1>10, <1>13, <2>1, KeepCalls
<1> QED  BY <1>7, <1>8, <1>12, <1>15, <1>16 DEF IInv

\* Removing a session, on demand or because it timed out, preserves it.
LEMMA RemoveSessionInv ==
    ASSUME IInv, NEW t \in Threads, UNCHANGED size, SSL_CTX_remove_session(t) \/ Expired(t)
    PROVE  IInv'
<1>0. /\ TypeOK /\ Calls
      /\ own \in [Threads -> Sessions \cup {NoSession}] /\ local \in [Threads -> Seq(Sessions)]
  BY DEF IInv, TypeOK
<1>1. CASE SSL_CTX_remove_session(t)
  <2>1. /\ pc[t] = "idle" /\ own[t] # NoSession /\ remove_session_lock(t, own[t], <<>>)
        /\ UNCHANGED <<size, refs, id, exp, own, crashed>>
    BY <1>1 DEF SSL_CTX_remove_session
  <2> DEFINE c == own[t]
             rest == <<>>
  <2>2. c \in Sessions /\ local[t] = rest /\ Len(rest) <= 1 /\ remove_session_lock(t, c, rest)
    <3>1. Len(local[t]) = 0
      BY <1>0, <2>1 DEF Calls, CallOK
    <3> QED  BY <1>0, <2>1, <3>1
  <2> HIDE DEF c, rest
  <2> QED  BY <2>1, <2>2, RemoveInv
<1>2. CASE Expired(t)
  <2>1. /\ pc[t] = "found" /\ remove_session_lock(t, local[t][1], local[t])
        /\ UNCHANGED <<size, refs, id, exp, own, crashed>>
    BY <1>2 DEF Expired
  <2> DEFINE c == local[t][1]
             rest == local[t]
  <2>2. c \in Sessions /\ local[t] = rest /\ Len(rest) <= 1 /\ remove_session_lock(t, c, rest)
    <3>1. Len(local[t]) = 1
      BY <1>0, <2>1 DEF Calls, CallOK
    <3>2. c \in Sessions
      <4> DEFINE l == local[t]
      <4>1. l \in Seq(Sessions) /\ Len(l) = 1 /\ c = l[1]
        BY <1>0, <3>1
      <4> HIDE DEF l, c
      <4> QED  BY <4>1
    <3> QED  BY <2>1, <3>1, <3>2
  <2> HIDE DEF c, rest
  <2> QED  BY <2>1, <2>2, RemoveInv
<1> QED  BY <1>1, <1>2

\* The references a flush keeps are to sessions it removed, each kept once.
LEMMA StackOf ==
    ASSUME TypeOK, NEW stay \in 0 .. Len(list), NEW stack \in Stacks(stay)
    PROVE  stack \in Seq(Sessions) /\ IsInjective(stack) /\ ToSet(stack) \subseteq Gone(stay)
<1> DEFINE l == list
           N == Len(l)
           G == Gone(stay)
<1>1. l \in Seq(Sessions) /\ N \in Nat /\ stay \in 0 .. N /\ \A m, n \in 1 .. N : l[m] = l[n] => m = n
  BY Members DEF TypeOK
<1>2. G = {l[n] : n \in (stay + 1) .. N} /\ G \subseteq Sessions
  BY <1>1 DEF Gone
<1>3. CASE ~StackFails
  <2>1. stack = SubSeq(l, stay + 1, N)
    BY <1>3 DEF Stacks
  <2> HIDE DEF l, N, G
  <2>2. /\ stack \in Seq(Sessions) /\ Len(stack) = N - stay
        /\ \A n \in 1 .. N - stay : stack[n] = l[n + stay]
    <3>1. N = Len(l)
      BY DEF N
    <3> QED  BY <1>1, <2>1, <3>1
  <2>3. \A n \in 1 .. Len(stack) : n + stay \in 1 .. N /\ n + stay \in (stay + 1) .. N
    BY <1>1, <2>2
  <2>4. IsInjective(stack)
    <3>1. ASSUME NEW m \in 1 .. Len(stack), NEW n \in 1 .. Len(stack), stack[m] = stack[n]
          PROVE  m = n
      <4>1. l[m + stay] = l[n + stay]
        BY <2>2, <3>1
      <4>2. m + stay = n + stay
        BY <1>1, <2>3, <4>1
      <4> QED  BY <1>1, <4>2
    <3> QED  BY <2>2, <3>1, Members
  <2>5. ASSUME NEW x \in ToSet(stack) PROVE x \in G
    <3>1. PICK n \in 1 .. Len(stack) : stack[n] = x
      BY <2>2, Members
    <3> QED  BY <1>2, <2>2, <2>3, <3>1
  <2> QED  BY <2>2, <2>4, <2>5 DEF G
<1>4. CASE StackFails
  <2>1. stack \in UNION {SetToSeqs(S) : S \in SUBSET G}
    BY <1>4 DEF Stacks
  <2>2. PICK S \in SUBSET G : stack \in SetToSeqs(S)
    BY <2>1
  <2>3. stack \in [1 .. Cardinality(S) -> S] /\ IsInjective(stack)
    BY <2>2 DEF SetToSeqs, IsInjective
  <2>4. IsFiniteSet(S) /\ Cardinality(S) \in Nat
    <3>1. S \in SUBSET Sessions
      BY <1>2
    <3> QED  BY <3>1, SessionCacheAssumption, FS_Subset, FS_CardinalityType
  <2>5. stack \in Seq(S)
    <3> DEFINE k == Cardinality(S)
    <3>1. k \in Nat /\ stack \in [1 .. k -> S]
      BY <2>3, <2>4
    <3> HIDE DEF k
    <3> QED  BY <3>1
  <2>6. \A x \in ToSet(stack) : x \in S
    BY <2>5, Members
  <2>7. stack \in Seq(Sessions)
    <3>1. S \subseteq Sessions
      BY <1>2
    <3> QED  BY <2>5, <3>1
  <2> QED  BY <2>3, <2>6, <2>7
<1> QED  BY <1>3, <1>4

\* SSL_CTX_flush_sessions preserves it: what is removed from the table is
\* removed from the list.
LEMMA FlushInv ==
    ASSUME IInv, NEW t \in Threads, NEW now, UNCHANGED size, SSL_CTX_flush_sessions(t, now)
    PROVE  IInv'
<1>0. TypeOK /\ Calls /\ RefsExact /\ Listed /\ Bounded
  BY DEF IInv
<1>1. PICK stay \in 0 .. Len(list) :
          /\ sessions' = [i \in Ids |-> IF \E s \in Gone(stay) : id[s] = i THEN NoSession ELSE sessions[i]]
          /\ list' = SubSeq(list, 1, stay)
          /\ not_resumable' = [s \in Sessions |-> not_resumable[s] \/ s \in Gone(stay)]
          /\ \E stack \in Stacks(stay) :
                /\ local' = [local EXCEPT ![t] = stack]
                /\ refs' = Free(refs, Gone(stay) \ ToSet(stack))
                /\ pc' = [pc EXCEPT ![t] = IF stack = <<>> THEN "idle" ELSE "freeing"]
  BY DEF SSL_CTX_flush_sessions
<1>2. PICK stack \in Stacks(stay) :
          /\ local' = [local EXCEPT ![t] = stack]
          /\ refs' = Free(refs, Gone(stay) \ ToSet(stack))
          /\ pc' = [pc EXCEPT ![t] = IF stack = <<>> THEN "idle" ELSE "freeing"]
  BY <1>1
<1>3. pc[t] = "idle" /\ UNCHANGED <<size, id, exp, own, crashed>>
  BY DEF SSL_CTX_flush_sessions
<1>4. /\ list \in Seq(Sessions) /\ IsInjective(list) /\ local \in [Threads -> Seq(Sessions)]
      /\ not_resumable \in [Sessions -> BOOLEAN] /\ size \in Nat /\ refs \in [Sessions -> Nat]
      /\ pc \in [Threads -> {"idle", "adding", "found", "freeing", "setting"}]
  BY <1>0, SessionCacheAssumption DEF TypeOK
<1>5. stack \in Seq(Sessions) /\ IsInjective(stack) /\ ToSet(stack) \subseteq Gone(stay)
  BY <1>0, StackOf
<1>6. /\ list' \in Seq(Sessions) /\ Len(list') = stay /\ IsInjective(list') /\ Ordered(list', exp')
      /\ ToSet(list') = ToSet(list) \ Gone(stay) /\ Gone(stay) \subseteq ToSet(list)
  <2> DEFINE l == list
             p == SubSeq(l, 1, stay)
             e == exp
             g == {l[n] : n \in (stay + 1) .. Len(l)}
  <2>1. l \in Seq(Sessions) /\ IsInjective(l) /\ Ordered(l, e) /\ stay \in 0 .. Len(l)
    BY <1>0, <1>4 DEF Listed
  <2> HIDE DEF l, e
  <2>2. /\ p \in Seq(Sessions) /\ Len(p) = stay /\ IsInjective(p) /\ Ordered(p, e)
        /\ ToSet(p) = ToSet(l) \ g /\ g \subseteq ToSet(l)
    BY <2>1, Prefix
  <2>3. list' = p /\ exp' = e /\ Gone(stay) = g
    BY <1>1, <1>3 DEF l, e, Gone
  <2> HIDE DEF p, g
  <2> QED  BY <2>2, <2>3 DEF l
<1>7. Cached = ToSet(list) /\ Gone(stay) \subseteq Cached
  BY <1>0, <1>6 DEF Listed
<1>8. /\ sessions' \in [Ids -> Sessions \cup {NoSession}] /\ Cached' = Cached \ Gone(stay)
      /\ \A i \in Ids : sessions'[i] # NoSession => id'[sessions'[i]] = i
  <2> DEFINE G == Gone(stay)
  <2>1. /\ G \subseteq Cached /\ id' = id
        /\ sessions' = [i \in Ids |-> IF \E s \in G : id[s] = i THEN NoSession ELSE sessions[i]]
    BY <1>1, <1>3, <1>7
  <2> HIDE DEF G
  <2>2. /\ sessions' \in [Ids -> Sessions \cup {NoSession}] /\ Cached' = Cached \ G
        /\ \A i \in Ids : sessions'[i] # NoSession => id'[sessions'[i]] = i
    BY <1>0, <2>1, TableLess
  <2> QED  BY <2>2 DEF G
<1>9. Listed'
  BY <1>6, <1>7, <1>8 DEF Listed
<1>10. Bounded'
  <2>1. Len(list) \in Nat
    BY <1>4
  <2> QED  BY <1>0, <1>3, <1>4, <1>6, <2>1 DEF Bounded
<1>11. /\ local' \in [Threads -> Seq(Sessions)] /\ local'[t] = stack /\ Len(local[t]) = 0
       /\ \A u \in Threads \ {t} : local'[u] = local[u]
       /\ pc' \in [Threads -> {"idle", "adding", "found", "freeing", "setting"}]
       /\ pc'[t] = (IF stack = <<>> THEN "idle" ELSE "freeing")
       /\ \A u \in Threads \ {t} : pc'[u] = pc[u]
  <2>1. Len(local[t]) = 0
    BY <1>0, <1>3 DEF Calls, CallOK
  <2> QED  BY <1>2, <1>4, <1>5, <2>1
<1>12. ASSUME NEW s
       PROVE  /\ Len(stack) <= Depth
              /\ Cardinality(Places(local', s)) = Cardinality(Places(local, s)) + Bit(s \in ToSet(stack))
  <2> DEFINE f == local
             g == local'
  <2>1. /\ stack \in Seq(Sessions) /\ IsInjective(stack) /\ Len(f[t]) = 0
        /\ g[t] = stack /\ \A u \in Threads \ {t} : g[u] = f[u]
    BY <1>5, <1>11
  <2> HIDE DEF f, g
  <2>2. /\ Len(stack) <= Depth
        /\ Cardinality(Places(g, s)) = Cardinality(Places(f, s)) + Bit(s \in ToSet(stack))
    BY <2>1, Fill
  <2> QED  BY <2>2 DEF f, g
<1>13. ASSUME NEW s \in Sessions
       PROVE  refs'[s] = Bit(s \in Cached') + Cardinality(Owners(own', s)) + Cardinality(Places(local', s))
  <2>1. /\ refs[s] = Bit(s \in Cached) + Cardinality(Owners(own, s)) + Cardinality(Places(local, s))
        /\ Cardinality(Owners(own, s)) \in Nat /\ Cardinality(Places(local, s)) \in Nat
        /\ Bit(s \in Cached) \in {0, 1}
    BY Counted
  <2>2. Cardinality(Places(local', s)) = Cardinality(Places(local, s)) + Bit(s \in ToSet(stack))
    BY <1>12
  <2>3. refs'[s] = IF s \in Gone(stay) \ ToSet(stack) THEN refs[s] - 1 ELSE refs[s]
    BY <1>2, Freed
  <2>4. refs'[s] = refs[s] + Bit(s \in ToSet(stack)) - Bit(s \in Gone(stay))
    BY <1>4, <1>5, <2>3 DEF Bit
  <2>5. /\ Bit(s \in Cached') = Bit(s \in Cached) - Bit(s \in Gone(stay)) /\ Bit(s \in Cached') \in {0, 1}
        /\ Bit(s \in ToSet(stack)) \in {0, 1} /\ Bit(s \in Gone(stay)) \in {0, 1}
    BY <1>7, <1>8 DEF Bit
  <2>6. own' = own
    BY <1>3
  <2> QED  BY <2>1, <2>2, <2>4, <2>5, <2>6
<1>14. RefsExact' /\ refs' \in [Sessions -> Nat]
  <2>1. DOMAIN refs' = Sessions /\ refs' = [s \in DOMAIN refs' |-> refs'[s]]
    BY <1>2, Freed
  <2> QED  BY <1>13, <2>1, CountedNext
<1>15. not_resumable' \in [Sessions -> BOOLEAN]
  BY <1>1, <1>4
<1>16. TypeOK'
  BY <1>0, <1>3, <1>6, <1>8, <1>11, <1>14, <1>15 DEF TypeOK
<1>17. Calls'
  <2>1. CallOK(t)'
    <3> DEFINE q == local'[t]
    <3>1. q \in Seq(Sessions) /\ Len(q) \in Nat /\ Len(q) <= Depth /\ pc'[t] = (IF q = <<>> THEN "idle" ELSE "freeing")
      <4>1. Len(stack) <= Depth
        BY <1>12, Zenon
      <4>2. Len(stack) \in Nat
        BY <1>5
      <4> QED  BY <1>5, <1>11, <4>1, <4>2
    <3> HIDE DEF q
    <3>2. q = <<>> <=> Len(q) = 0
      BY <3>1
    <3> QED  BY <3>1, <3>2 DEF CallOK, q
  <2> QED  BY <1>0, <1>3, <1>11, <2>1, KeepCalls
<1> QED  BY <1>9, <1>10, <1>14, <1>16, <1>17 DEF IInv

-----------------------------------------------------------------------------
(* Sessions that enter the cache *)

\* The table gets c in place of the session under its id, and loses those of G.
LEMMA TableAdd ==
    ASSUME TypeOK, Listed, NEW c \in Sessions, sessions[id[c]] # c, id' = id,
           NEW G, G \subseteq Cached,
           sessions' = [i \in Ids |-> IF i = id[c] THEN c
                                      ELSE IF \E x \in G : id[x] = i THEN NoSession ELSE sessions[i]]
    PROVE  /\ sessions' \in [Ids -> Sessions \cup {NoSession}]
           /\ Cached' = (Cached \ (G \cup {sessions[id[c]]})) \cup {c}
           /\ \A i \in Ids : sessions'[i] # NoSession => id'[sessions'[i]] = i
<1> DEFINE s == sessions[id[c]]
<1>1. /\ sessions \in [Ids -> Sessions \cup {NoSession}] /\ id \in [Sessions -> Ids]
      /\ \A i \in Ids : sessions[i] # NoSession => id[sessions[i]] = i
  BY DEF TypeOK, Listed
<1>2. /\ Cached \subseteq Sessions /\ \A x \in Sessions : x \in Cached <=> sessions[id[x]] = x
      /\ \A i \in Ids : sessions[i] # NoSession => sessions[i] \in Cached
  BY InCache
<1>3. \A x : x \in Cached' <=> x # NoSession /\ \E i \in Ids : sessions'[i] = x
  BY DEF Cached
<1>4. /\ sessions'[id[c]] = c /\ id[c] \in Ids /\ c # NoSession
      /\ \A i \in Ids : i # id[c] =>
            sessions'[i] = IF \E x \in G : id[x] = i THEN NoSession ELSE sessions[i]
  BY <1>1, SessionCacheAssumption
<1>5. sessions' \in [Ids -> Sessions \cup {NoSession}]
  BY <1>1
<1>6. s # NoSession => id[s] = id[c]
  BY <1>1, <1>4
<1> HIDE DEF s
<1>7. ASSUME NEW i \in Ids, i # id[c], sessions'[i] # NoSession
      PROVE  id'[sessions'[i]] = i /\ sessions'[i] \in Cached \ (G \cup {s})
  <2>1. ~(\E x \in G : id[x] = i) /\ sessions'[i] = sessions[i]
    BY <1>4, <1>7
  <2>2. id[sessions[i]] = i /\ sessions[i] \in Cached
    BY <1>1, <1>2, <1>7, <2>1
  <2>3. sessions[i] # s
    BY <1>6, <1>7, <2>1, <2>2
  <2> QED  BY <2>1, <2>2, <2>3
<1>8. ASSUME NEW x \in Cached \ (G \cup {s}) PROVE x \in Cached'
  <2>1. x \in Sessions /\ sessions[id[x]] = x /\ id[x] \in Ids /\ x # NoSession
    BY <1>1, <1>2, SessionCacheAssumption
  <2>2. id[x] # id[c]
    BY <1>8, <2>1 DEF s
  <2>3. ASSUME NEW y \in G, id[y] = id[x] PROVE FALSE
    <3>1. sessions[id[y]] = y
      BY <1>2
    <3> QED  BY <1>8, <2>1, <2>3, <3>1
  <2>4. sessions'[id[x]] = x
    BY <1>4, <2>1, <2>2, <2>3
  <2> QED  BY <1>3, <2>1, <2>4
<1>9. c \in Cached'
  BY <1>3, <1>4
<1>10. ASSUME NEW x \in Cached' PROVE x \in (Cached \ (G \cup {s})) \cup {c}
  <2>1. PICK i \in Ids : sessions'[i] = x /\ x # NoSession
    BY <1>3
  <2>2. CASE i = id[c]
    BY <1>4, <2>1, <2>2
  <2>3. CASE i # id[c]
    BY <1>7, <2>1, <2>3
  <2> QED  BY <2>2, <2>3
<1>11. Cached' = (Cached \ (G \cup {s})) \cup {c}
  BY <1>8, <1>9, <1>10
<1>12. \A i \in Ids : sessions'[i] # NoSession => id'[sessions'[i]] = i
  BY <1>4, <1>7
<1> QED  BY <1>5, <1>11, <1>12 DEF s

\* The new list: without the session that is replaced and those evicted, with c.
LEMMA NewList ==
    ASSUME TypeOK, Listed, NEW c \in Sessions, c \notin Cached, NEW s,
           NEW e \in [Sessions -> Times], \A x \in Sessions \ {c} : e[x] = exp[x]
    PROVE  LET kept   == SSL_SESSION_list_remove(list, s)
               number == Cardinality(Cached \ {s}) + 1
               stay   == Len(kept) - Evictions(number, Len(kept))
               gone   == {kept[n] : n \in (stay + 1) .. Len(kept)}
               q      == SSL_SESSION_list_add(SubSeq(kept, 1, stay), c, e)
           IN  /\ q \in Seq(Sessions) /\ IsInjective(q) /\ Ordered(q, e)
               /\ gone \subseteq Cached /\ s \notin gone
               /\ ToSet(q) = (Cached \ (gone \cup {s})) \cup {c}
               /\ size > 0 => Len(q) <= 1 \/ Len(q) <= size - 1
<1> DEFINE l      == list
           f      == exp
           kept   == SSL_SESSION_list_remove(l, s)
           k      == Len(kept)
           number == Cardinality(Cached \ {s}) + 1
           v      == Evictions(number, k)
           stay   == k - v
           gone   == {kept[n] : n \in (stay + 1) .. k}
           p      == SubSeq(kept, 1, stay)
           q      == SSL_SESSION_list_add(p, c, e)
<1> SUFFICES /\ q \in Seq(Sessions) /\ IsInjective(q) /\ Ordered(q, e)
             /\ gone \subseteq Cached /\ s \notin gone
             /\ ToSet(q) = (Cached \ (gone \cup {s})) \cup {c}
             /\ size > 0 => Len(q) <= 1 \/ Len(q) <= size - 1
  OBVIOUS
<1>1. /\ l \in Seq(Sessions) /\ IsInjective(l) /\ Ordered(l, f) /\ Cached = ToSet(l) /\ size \in Nat
      /\ \A x \in Sessions \ {c} : e[x] = f[x]
  BY SessionCacheAssumption DEF TypeOK, Listed
<1> HIDE DEF l, f
<1>2. kept \in Seq(Sessions) /\ IsInjective(kept) /\ Ordered(kept, f) /\ ToSet(kept) = ToSet(l) \ {s}
  BY <1>1, ListRemove
<1> HIDE DEF kept
<1>3. k \in Nat /\ number = k + 1
  <2>1. Cardinality(ToSet(kept)) = Len(kept)
    BY <1>2, Length
  <2>2. ToSet(kept) = Cached \ {s}
    BY <1>1, <1>2
  <2>3. number = Len(kept) + 1
    BY <2>1, <2>2
  <2>4. Len(kept) \in Nat
    BY <1>2
  <2> QED  BY <2>3, <2>4
<1>4. v \in 0 .. k /\ (size > 0 => k - v = 0 \/ k - v + 1 <= size - 1)
  <2> HIDE DEF k, number
  <2>1. /\ Evictions(k + 1, k) \in 0 .. k
        /\ size > 0 => k - Evictions(k + 1, k) = 0 \/ k - Evictions(k + 1, k) + 1 <= size - 1
    BY <1>1, <1>3, EvictionsFit
  <2> QED  BY <1>3, <2>1
<1> HIDE DEF v
<1>5. stay \in 0 .. Len(kept) /\ stay \in Nat /\ (size > 0 => stay = 0 \/ stay + 1 <= size - 1)
  BY <1>3, <1>4
<1> HIDE DEF stay
<1>6. /\ p \in Seq(Sessions) /\ Len(p) = stay /\ IsInjective(p) /\ Ordered(p, f)
      /\ ToSet(p) = ToSet(kept) \ gone /\ gone \subseteq ToSet(kept)
  BY <1>2, <1>5, Prefix
<1> HIDE DEF p, gone
<1>7. q \in Seq(Sessions) /\ IsInjective(q) /\ Ordered(q, e) /\ ToSet(q) = ToSet(p) \cup {c}
  BY <1>1, <1>6, ListAdd
<1> HIDE DEF q
<1>8. gone \subseteq Cached /\ s \notin gone /\ ToSet(q) = (Cached \ (gone \cup {s})) \cup {c} /\ c \notin ToSet(p)
  BY <1>1, <1>2, <1>6, <1>7
<1>9. Len(q) = stay + 1
  <2> DEFINE A == ToSet(p)
  <2>1. IsFiniteSet(A) /\ Cardinality(A) = stay /\ c \notin A /\ ToSet(q) = A \cup {c}
    BY <1>6, <1>7, <1>8, Length
  <2>2. Cardinality(ToSet(q)) = Len(q)
    BY <1>7, Length
  <2> HIDE DEF A
  <2>3. Cardinality(A \cup {c}) = IF c \in A THEN Cardinality(A) ELSE Cardinality(A) + 1
    BY <2>1, FS_AddElement, Zenon
  <2> QED  BY <2>1, <2>2, <2>3
<1>10. size > 0 => Len(q) <= 1 \/ Len(q) <= size - 1
  BY <1>5, <1>9
<1> QED  BY <1>7, <1>8, <1>10

\* A call gives a reference to c back.
Returned(c) ==
    \A x \in Sessions :
        Cardinality(Places(local, x)) = Cardinality(Places(local', x)) + Bit(c = x)

\* The count of a session after a step, by what the step has taken from it and
\* what it has moved into the cache.
LEMMA Balance ==
    ASSUME NEW a \in Int, NEW b \in Int, NEW o \in Int, NEW p \in Int, NEW g \in Int,
           NEW d \in Int, NEW k \in Int, NEW r, NEW n,
           a = b - k + d, r = b + o + p, p = g + d, n = r - k
    PROVE  n = a + o + g
OBVIOUS

\* What becomes of the call that adds a session.
LEMMA AddCall ==
    ASSUME IInv, NEW t \in Threads, SSL_CTX_add_session(t)
    PROVE  /\ Last(local[t]) \in Sessions /\ Calls'
           /\ local' \in [Threads -> Seq(Sessions)]
           /\ pc' \in [Threads -> {"idle", "adding", "found", "freeing", "setting"}]
           /\ Returned(Last(local[t]))
<1>0. /\ Calls /\ local \in [Threads -> Seq(Sessions)]
      /\ pc \in [Threads -> {"idle", "adding", "found", "freeing", "setting"}]
  BY DEF IInv, TypeOK
<1>7. /\ pc[t] = "adding" /\ local' = [local EXCEPT ![t] = Front(local[t])] /\ own' = own
      /\ pc' = [pc EXCEPT ![t] = IF Len(local[t]) = 1 THEN "idle" ELSE "found"]
  BY DEF SSL_CTX_add_session
<1>1. local[t] \in Seq(Sessions) /\ Len(local[t]) \in {1, 2} /\ Len(local[t]) <= Depth
  BY <1>0, <1>7 DEF Calls, CallOK
<1>2. /\ local'[t] = Front(local[t]) /\ \A u \in Threads \ {t} : local'[u] = local[u]
      /\ pc'[t] = (IF Len(local[t]) = 1 THEN "idle" ELSE "found")
      /\ \A u \in Threads \ {t} : pc'[u] = pc[u]
      /\ pc' \in [Threads -> {"idle", "adding", "found", "freeing", "setting"}]
  BY <1>0, <1>7
<1>3. Len(local[t]) > 0
  BY <1>1
<1>4. /\ local'[t] \in Seq(Sessions) /\ Len(local'[t]) = Len(local[t]) - 1 /\ Last(local[t]) \in Sessions
      /\ \A s : Cardinality(Places(local, s)) = Cardinality(Places(local', s)) + Bit(Last(local[t]) = s)
  BY <1>1, <1>2, <1>3, PopStep
<1>5. local' \in [Threads -> Seq(Sessions)]
  BY <1>0, <1>4, <1>7
<1>6. Calls'
  <2>1. CallOK(t)'
    <3> DEFINE n == Len(local[t])
    <3>1. /\ Len(local'[t]) = n - 1 /\ n \in {1, 2} /\ n <= Depth
          /\ pc'[t] = (IF n = 1 THEN "idle" ELSE "found")
      BY <1>1, <1>2, <1>4
    <3> HIDE DEF n
    <3> QED  BY <3>1, Finite DEF CallOK
  <2> QED  BY <1>0, <1>2, <1>7, <2>1, KeepCalls
<1>8. Returned(Last(local[t]))
  BY <1>4 DEF Returned
<1> QED  BY <1>2, <1>4, <1>5, <1>6, <1>8

\* The session is in the cache already.
LEMMA AddAgainInv ==
    ASSUME IInv, NEW c \in Sessions, c \in Cached, AddAgain(c, exp'),
           exp' \in [Sessions -> Times], \A x \in Sessions \ {c} : exp'[x] = exp[x],
           local' \in [Threads -> Seq(Sessions)], Calls',
           pc' \in [Threads -> {"idle", "adding", "found", "freeing", "setting"}],
           Returned(c),
           UNCHANGED <<size, id, own, crashed>>
    PROVE  IInv'
<1>0. TypeOK /\ Calls /\ RefsExact /\ Listed /\ Bounded
  BY DEF IInv
<1>1. /\ list' = SSL_SESSION_list_add(list, c, exp') /\ refs' = Free(refs, {c})
      /\ UNCHANGED <<sessions, not_resumable>>
  BY DEF AddAgain
<1> DEFINE l == list
           f == exp
           e == exp'
           q == list'
<1>2. l \in Seq(Sessions) /\ IsInjective(l) /\ refs \in [Sessions -> Nat]
  BY <1>0 DEF TypeOK
<1>3. Cached' = Cached /\ Cached = ToSet(l)
  BY <1>0, <1>1 DEF Listed, Cached
<1>4. q \in Seq(Sessions) /\ IsInjective(q) /\ Ordered(q, e) /\ ToSet(q) = ToSet(l) /\ Len(q) = Len(l)
  <2>1. Ordered(l, f) /\ q = SSL_SESSION_list_add(l, c, e)
    BY <1>0, <1>1 DEF Listed
  <2>2. e \in [Sessions -> Times] /\ \A s \in Sessions \ {c} : e[s] = f[s]
    OBVIOUS
  <2> HIDE DEF l, f, e, q
  <2>3. q \in Seq(Sessions) /\ IsInjective(q) /\ Ordered(q, e) /\ ToSet(q) = ToSet(l) \cup {c}
    BY <1>2, <2>1, <2>2, ListAdd
  <2>4. ToSet(q) = ToSet(l)
    BY <1>3, <2>3
  <2>5. Cardinality(ToSet(q)) = Len(q) /\ Cardinality(ToSet(l)) = Len(l)
    BY <1>2, <2>3, Length
  <2> QED  BY <2>3, <2>4, <2>5
<1>5. Listed'
  BY <1>0, <1>1, <1>3, <1>4 DEF Listed
<1>6. Bounded'
  BY <1>0, <1>4 DEF Bounded
<1>7. ASSUME NEW s \in Sessions
      PROVE  refs'[s] = Bit(s \in Cached') + Cardinality(Owners(own', s)) + Cardinality(Places(local', s))
  <2>1. /\ refs[s] = Bit(s \in Cached) + Cardinality(Owners(own, s)) + Cardinality(Places(local, s))
        /\ Cardinality(Owners(own, s)) \in Nat /\ Cardinality(Places(local, s)) \in Nat
        /\ Bit(s \in Cached) \in {0, 1}
    BY Counted
  <2>2. refs'[s] = refs[s] - Bit(c = s) /\ Bit(c = s) \in {0, 1}
    <3>1. refs'[s] = IF s \in {c} THEN refs[s] - 1 ELSE refs[s]
      BY <1>1, Freed
    <3> QED  BY <1>2, <3>1 DEF Bit
  <2>3. /\ Cardinality(Places(local, s)) = Cardinality(Places(local', s)) + Bit(c = s)
        /\ Cardinality(Places(local', s)) \in Nat /\ own' = own
    BY Finite DEF Returned
  <2> DEFINE b == Bit(s \in Cached)
             o == Cardinality(Owners(own, s))
             p == Cardinality(Places(local, s))
             g == Cardinality(Places(local', s))
             d == Bit(c = s)
  <2>4. /\ b \in {0, 1} /\ o \in Nat /\ p \in Nat /\ g \in Nat /\ d \in {0, 1}
        /\ refs[s] = b + o + p /\ p = g + d /\ refs'[s] = refs[s] - d
    BY <2>1, <2>2, <2>3
  <2>5. Bit(s \in Cached') = b /\ Cardinality(Owners(own', s)) = o
    BY <1>3, <2>3
  <2> HIDE DEF b, o, p, g, d
  <2>6. refs'[s] = b + o + g
    <3>1. b \in Int /\ o \in Int /\ p \in Int /\ g \in Int /\ d \in Int /\ b = b - d + d
      BY <2>4
    <3> DEFINE r == refs[s]
               n == refs'[s]
    <3>2. r = b + o + p /\ p = g + d /\ n = r - d
      BY <2>4
    <3> HIDE DEF r, n
    <3>3. n = b + o + g
      BY <3>1, <3>2
    <3> QED  BY <3>3 DEF n
  <2> QED  BY <2>5, <2>6 DEF g
<1>8. RefsExact' /\ refs' \in [Sessions -> Nat]
  <2>1. DOMAIN refs' = Sessions /\ refs' = [s \in DOMAIN refs' |-> refs'[s]]
    BY <1>1, Freed
  <2> QED  BY <1>7, <2>1, CountedNext
<1>9. TypeOK'
  BY <1>0, <1>1, <1>4, <1>8 DEF TypeOK
<1> QED  BY <1>5, <1>6, <1>8, <1>9 DEF IInv

\* It is new, or takes the place of another one.
LEMMA AddNewInv ==
    ASSUME IInv, NEW c \in Sessions, sessions[id[c]] # c, AddNew(c, exp'),
           exp' \in [Sessions -> Times], \A x \in Sessions \ {c} : exp'[x] = exp[x],
           local' \in [Threads -> Seq(Sessions)], Calls',
           pc' \in [Threads -> {"idle", "adding", "found", "freeing", "setting"}],
           Returned(c),
           UNCHANGED <<size, id, own, crashed>>
    PROVE  IInv'
<1>0. TypeOK /\ Calls /\ RefsExact /\ Listed /\ Bounded
  BY DEF IInv
<1> DEFINE s      == sessions[id[c]]
           kept   == SSL_SESSION_list_remove(list, s)
           number == Cardinality(Cached \ {s}) + 1
           stay   == Len(kept) - Evictions(number, Len(kept))
           gone   == {kept[n] : n \in (stay + 1) .. Len(kept)}
           D      == Dropped(s, gone)
           e      == exp'
<1>1. /\ sessions' = [i \in Ids |-> IF i = id[c] THEN c
                                    ELSE IF \E x \in gone : id[x] = i THEN NoSession
                                    ELSE sessions[i]]
      /\ list' = SSL_SESSION_list_add(SubSeq(kept, 1, stay), c, e)
      /\ refs' = Free(refs, D)
      /\ not_resumable' = [x \in Sessions |-> not_resumable[x] \/ x \in gone]
  BY DEF AddNew
<1>2. /\ refs \in [Sessions -> Nat] /\ not_resumable \in [Sessions -> BOOLEAN]
      /\ sessions \in [Ids -> Sessions \cup {NoSession}] /\ id \in [Sessions -> Ids]
  BY <1>0 DEF TypeOK
<1>3. /\ c \notin Cached /\ s \in Sessions \cup {NoSession}
      /\ s # NoSession => s \in Cached
      /\ NoSession \notin Sessions
  BY <1>0, <1>2, InCache, SessionCacheAssumption
<1>4. /\ list' \in Seq(Sessions) /\ IsInjective(list') /\ Ordered(list', e)
      /\ gone \subseteq Cached /\ s \notin gone
      /\ ToSet(list') = (Cached \ (gone \cup {s})) \cup {c}
      /\ size > 0 => Len(list') <= 1 \/ Len(list') <= size - 1
  <2> DEFINE q == SSL_SESSION_list_add(SubSeq(kept, 1, stay), c, e)
  <2>1. e \in [Sessions -> Times] /\ \A x \in Sessions \ {c} : e[x] = exp[x]
    OBVIOUS
  <2> HIDE DEF s, e
  <2>2. /\ q \in Seq(Sessions) /\ IsInjective(q) /\ Ordered(q, e)
        /\ gone \subseteq Cached /\ s \notin gone
        /\ ToSet(q) = (Cached \ (gone \cup {s})) \cup {c}
        /\ size > 0 => Len(q) <= 1 \/ Len(q) <= size - 1
    BY <1>0, <1>3, <2>1, NewList
  <2>3. list' = q
    BY <1>1
  <2> HIDE DEF q, gone
  <2> QED  BY <2>2, <2>3
<1> HIDE DEF gone
<1>5. /\ sessions' \in [Ids -> Sessions \cup {NoSession}]
      /\ Cached' = (Cached \ (gone \cup {s})) \cup {c}
      /\ \A i \in Ids : sessions'[i] # NoSession => id'[sessions'[i]] = i
  BY <1>0, <1>1, <1>4, TableAdd
<1> HIDE DEF s, e
<1>6. Listed'
  BY <1>4, <1>5 DEF Listed, e
<1>7. Bounded'
  BY <1>4 DEF Bounded
<1>8. D = gone \cup {s}
  BY DEF Dropped
<1> HIDE DEF D
<1>9. ASSUME NEW x \in Sessions
      PROVE  refs'[x] = Bit(x \in Cached') + Cardinality(Owners(own', x)) + Cardinality(Places(local', x))
  <2>1. /\ refs[x] = Bit(x \in Cached) + Cardinality(Owners(own, x)) + Cardinality(Places(local, x))
        /\ Cardinality(Owners(own, x)) \in Nat /\ Cardinality(Places(local, x)) \in Nat
        /\ Bit(x \in Cached) \in {0, 1}
    BY Counted
  <2>2. refs'[x] = refs[x] - Bit(x \in D) /\ Bit(x \in D) \in {0, 1}
    <3>1. refs'[x] = IF x \in D THEN refs[x] - 1 ELSE refs[x]
      BY <1>1, Freed
    <3> QED  BY <1>2, <3>1 DEF Bit
  <2>3. /\ Cardinality(Places(local, x)) = Cardinality(Places(local', x)) + Bit(c = x)
        /\ Cardinality(Places(local', x)) \in Nat /\ own' = own /\ Bit(c = x) \in {0, 1}
    BY Finite DEF Bit, Returned
  <2>4. /\ Bit(x \in Cached') = Bit(x \in Cached) - Bit(x \in D) + Bit(c = x)
        /\ Bit(x \in Cached') \in {0, 1}
    <3>1. x \in D => x \in Cached
      BY <1>3, <1>4, <1>8
    <3>2. x \in Cached' <=> (x \in Cached /\ x \notin D) \/ x = c
      BY <1>5, <1>8
    <3>3. c = x => x \notin Cached
      BY <1>3
    <3>4. x \in D => x # c
      BY <3>1, <3>3
    <3> QED  BY <3>1, <3>2, <3>3, <3>4 DEF Bit
  <2> DEFINE b == Bit(x \in Cached)
             a == Bit(x \in Cached')
             o == Cardinality(Owners(own, x))
             p == Cardinality(Places(local, x))
             g == Cardinality(Places(local', x))
             d == Bit(c = x)
             k == Bit(x \in D)
  <2>5. /\ b \in {0, 1} /\ a \in {0, 1} /\ o \in Nat /\ p \in Nat /\ g \in Nat
        /\ d \in {0, 1} /\ k \in {0, 1} /\ a = b - k + d
        /\ refs[x] = b + o + p /\ p = g + d /\ refs'[x] = refs[x] - k
    BY <2>1, <2>2, <2>3, <2>4
  <2>6. Cardinality(Owners(own', x)) = o
    BY <2>3
  <2> HIDE DEF b, a, o, p, g, d, k
  <2>7. refs'[x] = a + o + g
    <3>1. /\ b \in Int /\ a \in Int /\ o \in Int /\ p \in Int /\ g \in Int
          /\ d \in Int /\ k \in Int
      BY <2>5
    <3> DEFINE r == refs[x]
               n == refs'[x]
    <3>2. a = b - k + d /\ r = b + o + p /\ p = g + d /\ n = r - k
      BY <2>5
    <3> HIDE DEF r, n
    <3>3. n = a + o + g
      BY <3>1, <3>2, Balance
    <3> QED  BY <3>3 DEF n
  <2> QED  BY <2>6, <2>7 DEF a, g
<1>10. RefsExact' /\ refs' \in [Sessions -> Nat]
  <2>1. DOMAIN refs' = Sessions /\ refs' = [x \in DOMAIN refs' |-> refs'[x]]
    BY <1>1, Freed
  <2> QED  BY <1>9, <2>1, CountedNext
<1>11. not_resumable' \in [Sessions -> BOOLEAN]
  BY <1>1, <1>2
<1>12. TypeOK'
  BY <1>0, <1>4, <1>5, <1>10, <1>11 DEF TypeOK
<1> QED  BY <1>6, <1>7, <1>10, <1>12 DEF IInv

\* SSL_CTX_add_session preserves it: replacing one of the same id, evicting at
\* the limit, inserting in order.
LEMMA AddSessionInv ==
    ASSUME ~TableFails, IInv, NEW t \in Threads, UNCHANGED size, SSL_CTX_add_session(t)
    PROVE  IInv'
<1> DEFINE c == Last(local[t])
<1>1. PICK when \in {exp[c]} \cup (IF UpdatesTime THEN Times ELSE {}) :
          /\ exp' = [exp EXCEPT ![c] = when]
          /\ \/ sessions[id[c]] # c /\ AddNew(c, exp')
             \/ sessions[id[c]] = c /\ AddAgain(c, exp')
             \/ sessions[id[c]] = NoSession /\ TableFails /\ AddAgain(c, exp')
  BY DEF SSL_CTX_add_session
<1>2. /\ pc[t] = "adding" /\ local' = [local EXCEPT ![t] = Front(local[t])]
      /\ pc' = [pc EXCEPT ![t] = IF Len(local[t]) = 1 THEN "idle" ELSE "found"]
      /\ UNCHANGED <<size, id, own, crashed>>
  BY DEF SSL_CTX_add_session
<1>3. /\ c \in Sessions /\ Calls' /\ local' \in [Threads -> Seq(Sessions)]
      /\ pc' \in [Threads -> {"idle", "adding", "found", "freeing", "setting"}]
      /\ Returned(c)
  BY AddCall
<1> HIDE DEF c
<1>4. exp' \in [Sessions -> Times] /\ \A x \in Sessions \ {c} : exp'[x] = exp[x]
  <2>1. exp \in [Sessions -> Times]
    BY DEF IInv, TypeOK
  <2>2. when \in Times
    BY <1>3, <2>1
  <2> QED  BY <1>1, <2>1, <2>2
<1>5. CASE sessions[id[c]] # c /\ AddNew(c, exp')
  BY <1>2, <1>3, <1>4, <1>5, AddNewInv
<1>6. CASE sessions[id[c]] = c /\ AddAgain(c, exp')
  <2>1. c \in Cached
    BY <1>3, <1>6, InCache DEF IInv
  <2> QED  BY <1>2, <1>3, <1>4, <1>6, <2>1, AddAgainInv
<1> QED  BY <1>1, <1>5, <1>6

-----------------------------------------------------------------------------
(* The invariant holds *)

\* The invariant holds initially.
LEMMA InitInv ==
    ASSUME Init
    PROVE  IInv
<1>1. /\ size \in CacheSizes /\ refs = [s \in Sessions |-> 0]
      /\ id \in [Sessions -> Ids] /\ exp = [s \in Sessions |-> 1]
      /\ not_resumable = [s \in Sessions |-> FALSE] /\ sessions = [i \in Ids |-> NoSession]
      /\ list = <<>> /\ own = [t \in Threads |-> NoSession] /\ pc = [t \in Threads |-> "idle"]
      /\ local = [t \in Threads |-> <<>>] /\ crashed = FALSE
  BY DEF Init
<1>2. list \in Seq(Sessions) /\ IsInjective(list) /\ ToSet(list) = {} /\ Len(list) = 0
  BY <1>1 DEF IsInjective, ToSet
<1>3. TypeOK
  <2>1. exp \in [Sessions -> Times]
    BY <1>1, SessionCacheAssumption DEF Times
  <2>2. local \in [Threads -> Seq(Sessions)]
    BY <1>1
  <2> QED  BY <1>1, <1>2, <2>1, <2>2 DEF TypeOK
<1>4. Cached = {}
  BY <1>1 DEF Cached
<1>5. Listed /\ Bounded
  BY <1>1, <1>2, <1>4 DEF Listed, Bounded, Ordered
<1>6. Calls
  <2>1. ASSUME NEW t \in Threads PROVE CallOK(t)
    <3>1. local[t] = <<>> /\ pc[t] = "idle" /\ Len(<<>>) = 0
      BY <1>1
    <3> QED  BY <3>1, Finite DEF CallOK
  <2> QED  BY <2>1 DEF Calls
<1>7. RefsExact
  <2>1. ASSUME NEW s \in Sessions PROVE refs[s] = Holders(s)
    <3>1. Owners(own, s) = {}
      BY <1>1, SessionCacheAssumption DEF Owners
    <3>2. Places(local, s) = {}
      BY <1>1 DEF Places, Holds
    <3>3. Cardinality({}) = 0
      BY FS_EmptySet
    <3>4. Holders(s) = Bit(s \in Cached) + Cardinality(Owners(own, s)) + Cardinality(Places(local, s))
      BY HoldersCount
    <3>5. Bit(s \in Cached) = 0
      BY <1>4 DEF Bit
    <3> QED  BY <1>1, <3>1, <3>2, <3>3, <3>4, <3>5
  <2> QED  BY <2>1 DEF RefsExact
<1> QED  BY <1>3, <1>5, <1>6, <1>7 DEF IInv

\* Every step preserves it, as long as the table does not run out of memory.
LEMMA NextInv ==
    ASSUME ~TableFails, IInv, [Next]_vars
    PROVE  IInv'
<1>1. CASE Next
  <2>1. UNCHANGED size /\ \E t \in Threads : Step(t)
    BY <1>1 DEF Next
  <2>2. PICK t \in Threads : Step(t)
    BY <2>1
  <2>3. CASE NewSession(t)
    BY <2>1, <2>3, NewSessionInv
  <2>4. CASE SSL_set_session(t)
    BY <2>1, <2>4, SetSessionInv
  <2>5. CASE Release(t)
    BY <2>1, <2>5, ReleaseInv
  <2>6. CASE ssl_update_cache(t)
    <3> DEFINE x == own[t]
               p == "adding"
    <3>1. /\ pc[t] = "idle" /\ refs' = UpRef(refs, x) /\ local' = [local EXCEPT ![t] = <<x>>]
          /\ pc' = [pc EXCEPT ![t] = p] /\ p \in {"adding", "found"}
          /\ UNCHANGED <<size, id, exp, not_resumable, sessions, list, own, crashed>>
      BY <2>1, <2>6 DEF ssl_update_cache
    <3>2. x \in Sessions
      BY <2>6 DEF ssl_update_cache, IInv, TypeOK
    <3> HIDE DEF x, p
    <3> QED  BY <3>1, <3>2, TakeOne
  <2>7. CASE SSL_CTX_add_session(t)
    BY <2>1, <2>7, AddSessionInv
  <2>8. CASE SSL_CTX_remove_session(t) \/ Expired(t)
    BY <2>1, <2>8, RemoveSessionInv
  <2>9. CASE \E now \in 0 .. (MaxTime + 1) : SSL_CTX_flush_sessions(t, now)
    BY <2>1, <2>9, FlushInv
  <2>10. CASE FreeNext(t)
    BY <2>1, <2>10, FreeNextInv
  <2>11. CASE \E i \in Ids : Lookup(t, i)
    <3>1. PICK i \in Ids : Lookup(t, i)
      BY <2>11
    <3> DEFINE x == sessions[i]
               p == "found"
    <3>2. /\ pc[t] = "idle" /\ refs' = UpRef(refs, x) /\ local' = [local EXCEPT ![t] = <<x>>]
          /\ pc' = [pc EXCEPT ![t] = p] /\ p \in {"adding", "found"}
          /\ UNCHANGED <<size, id, exp, not_resumable, sessions, list, own, crashed>>
      BY <2>1, <3>1 DEF Lookup
    <3>3. x \in Sessions
      BY <3>1 DEF Lookup, IInv, TypeOK
    <3> HIDE DEF x, p
    <3> QED  BY <3>2, <3>3, TakeOne
  <2>12. CASE \E i \in Ids : LookupExternal(t, i)
    BY <2>1, <2>12, LookupExternalInv
  <2>13. CASE Resume(t)
    BY <2>1, <2>13, ResumeInv
  <2>14. CASE Mismatch(t)
    BY <2>1, <2>14, MismatchInv
  <2>15. CASE SetTimeout(t)
    BY <2>1, <2>15, SetTimeoutInv
  <2>16. CASE SetTimeoutLocked(t)
    BY <2>1, <2>16, SetTimeoutLockedInv
  <2>17. CASE SetTimeoutNoOwner(t)
    BY <2>1, <2>17, SetTimeoutNoOwnerInv
  <2> QED
    BY <2>2, <2>3, <2>4, <2>5, <2>6, <2>7, <2>8, <2>9, <2>10, <2>11, <2>12, <2>13, <2>14,
       <2>15, <2>16, <2>17 DEF Step
<1>2. CASE UNCHANGED vars
  <2>1. UNCHANGED <<size, refs, id, exp, not_resumable, sessions, list, own, pc, local, crashed>>
    BY <1>2 DEF vars
  <2>2. TypeOK /\ Calls /\ RefsExact /\ Listed /\ Bounded
    BY DEF IInv
  <2>3. Listed' /\ Bounded' /\ RefsExact'
    BY <2>1, <2>2, KeepCache, KeepRefs
  <2>4. TypeOK' /\ Calls'
    BY <2>1, <2>2 DEF TypeOK, Calls, CallOK
  <2> QED  BY <2>3, <2>4 DEF IInv
<1> QED  BY <1>1, <1>2

\* IInv is an invariant of every behaviour in which the hash table has its memory.
THEOREM Invariance == ~TableFails => (Spec => []IInv)
<1> SUFFICES ASSUME ~TableFails PROVE Spec => []IInv
  OBVIOUS
<1>1. Init => IInv
  BY InitInv
<1>2. IInv /\ [Next]_vars => IInv'
  BY NextInv
<1> QED  BY <1>1, <1>2, PTL DEF Spec

-----------------------------------------------------------------------------
(* The theorems *)

\* The list holds no session twice, although SSL_CTX_add_session and SSL_SESSION_set_timeout put
\* sessions on it that may be there already.
THEOREM TypeCorrect == ~TableFails => (Spec => []TypeOK)
<1> SUFFICES ASSUME ~TableFails PROVE Spec => []TypeOK
  OBVIOUS
<1>1. Spec => []IInv
  BY Invariance
<1>2. IInv => TypeOK
  BY DEF IInv
<1> QED  BY <1>1, <1>2, PTL

\* The reference count of a session is the number of its holders: SSL_SESSION_free never frees one
\* in use and every reference that was taken is given back, whatever SSL_CTX_add_session replaces or
\* evicts and SSL_CTX_flush_sessions and remove_session_lock drop after the lock.
THEOREM RefsAreExact == ~TableFails => (Spec => []RefsExact)
<1> SUFFICES ASSUME ~TableFails PROVE Spec => []RefsExact
  OBVIOUS
<1>1. Spec => []IInv
  BY Invariance
<1>2. IInv => RefsExact
  BY DEF IInv
<1> QED  BY <1>1, <1>2, PTL

\* The hash table and the list of the cache hold the same sessions, each under its own id, and
\* SSL_CTX_add_session keeps their number within the size of the cache.
THEOREM CacheAgreement == ~TableFails => (Spec => []CacheAgrees)
<1> SUFFICES ASSUME ~TableFails PROVE Spec => []CacheAgrees
  OBVIOUS
<1>1. Spec => []IInv
  BY Invariance
<1>2. ASSUME IInv PROVE CacheAgrees
  <2>1. Listed /\ Bounded /\ size \in Nat /\ Len(list) \in Nat
    BY <1>2, SessionCacheAssumption DEF IInv, TypeOK
  <2>2. ASSUME size > 0 PROVE Len(list) <= size
    BY <2>1, <2>2 DEF Bounded
  <2> QED  BY <2>1, <2>2 DEF Listed, CacheAgrees
<1> QED  BY <1>1, <1>2, PTL

\* Flushing removes exactly the sessions that have timed out.
LEMMA FlushStep ==
    ASSUME IInv, NEW t \in Threads, NEW now \in 0 .. (MaxTime + 1), SSL_CTX_flush_sessions(t, now)
    PROVE  Cached' = {s \in Cached : ~TimedOut(s, now)}
<1>0. /\ TypeOK /\ Listed /\ Cached = ToSet(list) /\ Ordered(list, exp)
      /\ list \in Seq(Sessions) /\ exp \in [Sessions -> Times]
  BY DEF IInv, TypeOK, Listed
<1>1. PICK stay \in 0 .. Len(list) :
          /\ stay > 0 => ~TimedOut(list[stay], now)
          /\ \A s \in Gone(stay) : TimedOut(s, now)
          /\ sessions' = [i \in Ids |-> IF \E s \in Gone(stay) : id[s] = i THEN NoSession ELSE sessions[i]]
  BY DEF SSL_CTX_flush_sessions
<1>2. Len(list) \in Nat /\ \A n \in 1 .. Len(list) : list[n] \in Sessions /\ list[n] \in ToSet(list)
  BY <1>0, Members
<1> DEFINE G == Gone(stay)
<1>3. G \subseteq Cached
  BY <1>0, <1>1, <1>2 DEF Gone
<1>4. Cached' = Cached \ G
  <2>1. /\ id' = id
        /\ sessions' = [i \in Ids |-> IF \E s \in G : id[s] = i THEN NoSession ELSE sessions[i]]
    BY <1>1 DEF SSL_CTX_flush_sessions
  <2> HIDE DEF G
  <2> QED  BY <1>0, <1>3, <2>1, TableLess
<1>5. ASSUME NEW s \in Cached, s \notin G PROVE ~TimedOut(s, now)
  <2>1. PICK n \in 1 .. Len(list) : list[n] = s
    BY <1>0, Members
  <2>2. n <= stay /\ stay > 0 /\ stay \in 1 .. Len(list)
    BY <1>1, <1>2, <1>5, <2>1 DEF Gone
  <2>3. n = stay \/ n < stay
    BY <2>2
  <2>4. Times \subseteq Int /\ now \in Int
    BY SessionCacheAssumption DEF Times
  <2>5. exp[list[n]] \in Int /\ exp[list[stay]] \in Int
    BY <1>0, <1>2, <2>2, <2>4
  <2>6. exp[list[n]] >= exp[list[stay]]
    BY <1>0, <2>2, <2>3, <2>5 DEF Ordered
  <2>7. now # 0 /\ ~(now > exp[list[stay]])
    BY <1>1, <2>2 DEF TimedOut
  <2>8. ~(now > exp[s])
    BY <2>1, <2>4, <2>5, <2>6, <2>7
  <2> QED  BY <2>7, <2>8 DEF TimedOut
<1>6. \A s \in G : TimedOut(s, now)
  BY <1>1
<1> HIDE DEF G
<1> QED  BY <1>4, <1>5, <1>6

\* SSL_CTX_flush_sessions removes every session that has timed out and no other one, although it
\* stops at the first one from the tail that has not.
THEOREM FlushIsExact == ~TableFails => (Spec => FlushExact)
<1> SUFFICES ASSUME ~TableFails PROVE Spec => FlushExact
  OBVIOUS
<1>1. Spec => []IInv
  BY Invariance
<1>2. ASSUME IInv
      PROVE  \A t \in Threads, now \in 0 .. (MaxTime + 1) :
                 SSL_CTX_flush_sessions(t, now) => Cached' = {s \in Cached : ~TimedOut(s, now)}
  BY <1>2, FlushStep
<1> QED  BY <1>1, <1>2, PTL DEF FlushExact
=============================================================================
