------------------------- MODULE SocPerfServer_proofs -------------------------
(* For any tokens, capacity and number of calls: the list and the map of the   *)
(* permission cache stay in step and hold the tokens used last, and a call is  *)
(* served on the last answer of the access token service only.                 *)
EXTENDS SocPerfServer, FiniteSetTheorems, SequenceTheorems, TLAPS

-----------------------------------------------------------------------------
(* Sequences in which an element is moved to the front *)

Distinct(u) == \A i, j \in 1 .. Len(u) : i # j => u[i] # u[j]

\* In w, the element of u at p has left its place, and x is the new first one.
Moved(w, u, p, x) ==
    /\ Len(w) = Len(u) /\ w[1] = x
    /\ \A j \in 2 .. Len(u) : w[j] = IF j <= p THEN u[j - 1] ELSE u[j]

\* In w, x comes before all of u.
Pushed(w, u, x) ==
    /\ Len(w) = Len(u) + 1 /\ w[1] = x
    /\ \A j \in 2 .. Len(u) + 1 : w[j] = u[j - 1]

LEMMA FrontAndRest ==
    ASSUME NEW S, NEW u \in Seq(S), NEW p \in 1 .. Len(u), NEW x \in S
    PROVE  /\ <<x>> \o RemoveAt(u, p) \in Seq(S)
           /\ Moved(<<x>> \o RemoveAt(u, p), u, p, x)
<1>1. /\ RemoveAt(u, p) \in Seq(S) /\ Len(RemoveAt(u, p)) = Len(u) - 1
      /\ \A j \in 1 .. Len(u) - 1 :
            RemoveAt(u, p)[j] = IF j < p THEN u[j] ELSE u[j + 1]
  <2> DEFINE a == SubSeq(u, 1, p - 1)
             b == SubSeq(u, p + 1, Len(u))
  <2>1. /\ a \in Seq(S) /\ Len(a) = p - 1 /\ \A j \in 1 .. p - 1 : a[j] = u[j]
        /\ b \in Seq(S) /\ Len(b) = Len(u) - p
        /\ \A j \in 1 .. Len(u) - p : b[j] = u[p + j]
    OBVIOUS
  <2>2. RemoveAt(u, p) = a \o b
    BY DEF RemoveAt
  <2> HIDE DEF a, b
  <2>3. a \o b \in Seq(S) /\ Len(a \o b) = Len(u) - 1 /\ Len(u) \in Nat
    <3>1. Len(u) \in Nat /\ p \in Int
      BY LenProperties
    <3>2. a \o b \in Seq(S) /\ Len(a \o b) = Len(a) + Len(b)
      BY <2>1, ConcatProperties
    <3> QED BY <2>1, <3>1, <3>2
  <2>4. ASSUME NEW j \in 1 .. Len(u) - 1
        PROVE  (a \o b)[j] = IF j < p THEN u[j] ELSE u[j + 1]
    <3>1. CASE j < p
      BY <2>1, <3>1
    <3>2. CASE j >= p
      <4>1. (a \o b)[j] = b[j - (p - 1)] /\ j - (p - 1) \in 1 .. Len(u) - p
        BY <2>1, <3>2
      <4> QED BY <2>1, <3>2, <4>1
    <3> QED BY <2>3, <3>1, <3>2
  <2> QED BY <2>2, <2>3, <2>4
<1> DEFINE r == RemoveAt(u, p)
<1> HIDE DEF r
<1>2. /\ r \in Seq(S) /\ Len(r) = Len(u) - 1
      /\ \A j \in 1 .. Len(u) - 1 : r[j] = IF j < p THEN u[j] ELSE u[j + 1]
  BY <1>1 DEF r
<1>3. /\ <<x>> \o r \in Seq(S) /\ Len(<<x>> \o r) = Len(u) /\ (<<x>> \o r)[1] = x
  BY <1>2
<1>4. ASSUME NEW j \in 2 .. Len(u)
      PROVE  (<<x>> \o r)[j] = IF j <= p THEN u[j - 1] ELSE u[j]
  <2>1. (<<x>> \o r)[j] = r[j - 1]
    BY <1>2
  <2> QED BY <1>2, <2>1
<1> QED BY <1>3, <1>4 DEF r, Moved

\* A use of k moves it to the front, or puts it there.
LEMMA UsedKeeps ==
    ASSUME NEW S, NEW u \in Seq(S), Distinct(u), NEW k \in S
    PROVE  /\ Used(u, k) \in Seq(S) /\ Distinct(Used(u, k))
           /\ \A p \in 1 .. Len(u) : u[p] = k => Moved(Used(u, k), u, p, k)
           /\ (\A p \in 1 .. Len(u) : u[p] # k) => Pushed(Used(u, k), u, k)
<1> DEFINE w == Used(u, k)
<1>1. CASE \A p \in 1 .. Len(u) : u[p] # k
  <2>1. w = <<k>> \o u
    BY <1>1 DEF Used, RemoveFirst
  <2>2. /\ w \in Seq(S) /\ w[1] = k /\ Len(w) = Len(u) + 1
        /\ \A j \in 2 .. Len(u) + 1 : w[j] = u[j - 1]
    BY <2>1
  <2> HIDE DEF w
  <2>3. ASSUME NEW i \in 2 .. Len(u) + 1, NEW j \in 2 .. Len(u) + 1, i # j
        PROVE  w[i] # w[j]
    <3>1. i - 1 \in 1 .. Len(u) /\ j - 1 \in 1 .. Len(u) /\ i - 1 # j - 1
      BY <2>3, LenProperties
    <3> QED BY <2>2, <3>1 DEF Distinct
  <2>4. ASSUME NEW i \in 2 .. Len(u) + 1
        PROVE  w[1] # w[i]
    BY <1>1, <2>2, <2>4
  <2>5. Distinct(w)
    BY <2>2, <2>3, <2>4 DEF Distinct
  <2> QED BY <1>1, <2>2, <2>5 DEF w, Pushed
<1>2. ASSUME NEW p \in 1 .. Len(u), u[p] = k
      PROVE  w \in Seq(S) /\ Distinct(w) /\ Moved(w, u, p, k)
  <2>1. {i \in 1 .. Len(u) : u[i] = k} = {p}
    BY <1>2 DEF Distinct
  <2>2. SelectInSeq(u, LAMBDA v : v = k) = p
    BY <2>1 DEF SelectInSeq, Min
  <2>3. w = <<k>> \o RemoveAt(u, p)
    BY <1>2, <2>2 DEF Used, RemoveFirst
  <2>4. w \in Seq(S) /\ Moved(w, u, p, k)
    BY <2>3, FrontAndRest
  <2> DEFINE old(i) == IF i = 1 THEN p ELSE IF i <= p THEN i - 1 ELSE i
  <2> HIDE DEF w
  <2>5. ASSUME NEW i \in 1 .. Len(u)
        PROVE  old(i) \in 1 .. Len(u) /\ w[i] = u[old(i)]
    <3>1. Len(u) \in Nat /\ p \in Int /\ i \in Int
      BY LenProperties
    <3> QED BY <1>2, <2>4, <3>1 DEF Moved
  <2>6. ASSUME NEW i \in 1 .. Len(u), NEW j \in 1 .. Len(u), i # j
        PROVE  old(i) # old(j)
    <3>1. Len(u) \in Nat /\ p \in Int /\ i \in Int /\ j \in Int
      BY LenProperties
    <3> QED BY <2>6, <3>1
  <2> HIDE DEF old
  <2>7. Distinct(w)
    BY <2>4, <2>5, <2>6 DEF Distinct, Moved
  <2> QED BY <2>4, <2>7
<1> QED BY <1>1, <1>2

-----------------------------------------------------------------------------
(* The cache *)

\* A list and a map of the cache when the keys of u were used, the last one first:
\* each entry is a node of its own, for the key used as long ago as its place says,
\* and the map has its node and no other.
Holds(l, m, u) ==
    /\ l \in Seq(Entry) /\ u \in Seq(Key) /\ Distinct(u)
    /\ Len(l) = IF Len(u) < Capacity THEN Len(u) ELSE Capacity
    /\ \A i \in 1 .. Len(l) : l[i].key = u[i] /\ m[l[i].key] = l[i].node
    /\ \A i, j \in 1 .. Len(l) : i # j => l[i].node # l[j].node
    /\ DOMAIN m = {l[i].key : i \in 1 .. Len(l)}

CacheInv(c, u) ==
    /\ c = [lruList |-> c.lruList, relationMap |-> c.relationMap]
    /\ Holds(c.lruList, c.relationMap, u)

\* It is what CacheCorrect asks of the structure of the cache.
LEMMA HoldsInStep ==
    ASSUME NEW c, NEW u, CacheInv(c, u)
    PROVE  InStep(c) /\ MostRecent(c, u)
<1> DEFINE l == c.lruList
           n == IF Len(u) < Capacity THEN Len(u) ELSE Capacity
<1>1. /\ l \in Seq(Entry) /\ u \in Seq(Key) /\ Len(l) \in Nat /\ Len(u) \in Nat
      /\ DOMAIN l = 1 .. Len(l) /\ Len(l) = n /\ Capacity \in Nat
  BY CacheAssumption, LenProperties DEF CacheInv, Holds
<1>2. InStep(c)
  BY <1>1 DEF CacheInv, Holds, InStep, Distinct
<1>3. \A i \in 1 .. n : l[i].key = u[i]
  BY <1>1 DEF CacheInv, Holds
<1>4. [i \in 1 .. n |-> l[i].key] = SubSeq(u, 1, n)
  <2> HIDE DEF l, n
  <2>1. n \in 0 .. Len(u)
    BY <1>1 DEF n
  <2>2. SubSeq(u, 1, n) = [i \in 1 .. n |-> u[i]]
    BY <1>1, <2>1
  <2> QED BY <1>3, <2>2
<1> QED BY <1>1, <1>2, <1>4 DEF MostRecent

\* The place of a known key is where its entry is, and the key was used as long ago.
LEMMA PlaceOfKnown ==
    ASSUME NEW c, NEW u, CacheInv(c, u), NEW k, Known(c, k)
    PROVE  LET p == At(c, c.relationMap[k])
           IN  /\ p \in 1 .. Len(c.lruList) /\ c.lruList[p].key = k /\ u[p] = k
               /\ p \in 1 .. Len(u)
<1> DEFINE l == c.lruList
           p == At(c, c.relationMap[k])
<1>1. PICK i \in 1 .. Len(l) : l[i].key = k
  BY DEF CacheInv, Holds, Known
<1>2. DOMAIN l = 1 .. Len(l) /\ Len(l) \in Nat /\ Len(u) \in Nat /\ Len(l) <= Len(u)
  BY CacheAssumption, LenProperties DEF CacheInv, Holds
<1>3. c.relationMap[k] = l[i].node
  BY <1>1 DEF CacheInv, Holds
<1>4. p = i
  BY <1>1, <1>2, <1>3 DEF CacheInv, Holds, At
<1> QED BY <1>1, <1>2, <1>4 DEF CacheInv, Holds

\* get of a known key: its entry is first, and every entry was there before.
LEMMA GetKeeps ==
    ASSUME NEW c, NEW u, CacheInv(c, u), NEW k \in Key, Known(c, k)
    PROVE  /\ CacheInv(Get(c, k), Used(u, k))
           /\ \A i \in 1 .. Len(Get(c, k).lruList) : \E j \in 1 .. Len(c.lruList) :
                 Get(c, k).lruList[i] = c.lruList[j]
<1> DEFINE l == c.lruList
           m == c.relationMap
           p == At(c, c.relationMap[k])
           r == <<l[p]>> \o RemoveAt(l, p)
           w == Used(u, k)
           old(i) == IF i = 1 THEN p ELSE IF i <= p THEN i - 1 ELSE i
<1>1. /\ p \in 1 .. Len(l) /\ l[p].key = k /\ u[p] = k /\ p \in 1 .. Len(u)
      /\ Holds(l, m, u)
  BY PlaceOfKnown DEF CacheInv
<1>2. Get(c, k) = [lruList |-> r, relationMap |-> m]
  BY DEF CacheInv, Get, EntryOf
<1>3. l \in Seq(Entry) /\ l[p] \in Entry /\ Len(l) \in Nat /\ Len(u) \in Nat
  BY <1>1, ElementOfSeq, LenProperties DEF Holds
<1> HIDE DEF l, m, p
<1>4. r \in Seq(Entry) /\ Moved(r, l, p, l[p])
  BY <1>1, <1>3, FrontAndRest
<1>5. w \in Seq(Key) /\ Distinct(w) /\ Moved(w, u, p, k)
  <2>1. u \in Seq(Key) /\ Distinct(u)
    BY <1>1 DEF Holds
  <2> QED BY <1>1, <2>1, UsedKeeps
<1> HIDE DEF r, w
\* Each new entry is an old one, no two of them the same.
<1>6. ASSUME NEW i \in 1 .. Len(l)
      PROVE  old(i) \in 1 .. Len(l) /\ r[i] = l[old(i)] /\ w[i] = u[old(i)]
  <2>1. Len(l) <= Len(u)
    BY <1>1, <1>3, CacheAssumption DEF Holds
  <2> QED BY <1>1, <1>3, <1>4, <1>5, <2>1 DEF Moved
<1>7. \A i, j \in 1 .. Len(l) : i # j => old(i) # old(j)
  BY <1>1, <1>3
<1>8. \A j \in 1 .. Len(l) : \E i \in 1 .. Len(l) : old(i) = j
  <2> SUFFICES ASSUME NEW j \in 1 .. Len(l) PROVE \E i \in 1 .. Len(l) : old(i) = j
    OBVIOUS
  <2>1. CASE j = p
    BY <1>1, <1>3, <2>1
  <2>2. CASE j < p
    <3>1. old(j + 1) = j /\ j + 1 \in 1 .. Len(l)
      BY <1>1, <1>3, <2>2
    <3> QED BY <3>1
  <2>3. CASE j > p
    BY <1>1, <1>3, <2>3
  <2> QED BY <1>1, <1>3, <2>1, <2>2, <2>3
<1> HIDE DEF old
<1>9. Holds(r, m, w)
  <2>1. Len(r) = IF Len(w) < Capacity THEN Len(w) ELSE Capacity
    BY <1>1, <1>4, <1>5 DEF Holds, Moved
  <2>2. ASSUME NEW i \in 1 .. Len(l)
        PROVE  r[i].key = w[i] /\ m[r[i].key] = r[i].node
    <3>1. \A j \in 1 .. Len(l) : l[j].key = u[j] /\ m[l[j].key] = l[j].node
      BY <1>1 DEF Holds
    <3> QED BY <1>6, <3>1
  <2>3. ASSUME NEW i \in 1 .. Len(l), NEW j \in 1 .. Len(l), i # j
        PROVE  r[i].node # r[j].node
    <3>1. \A x, y \in 1 .. Len(l) : x # y => l[x].node # l[y].node
      BY <1>1 DEF Holds
    <3>2. old(i) # old(j)
      BY <1>7, <2>3
    <3> QED BY <1>6, <3>1, <3>2
  <2>4. DOMAIN m = {r[i].key : i \in 1 .. Len(r)}
    <3>1. \A i \in 1 .. Len(l) : \E j \in 1 .. Len(l) : r[i].key = l[j].key
      BY <1>6
    <3>2. \A j \in 1 .. Len(l) : \E i \in 1 .. Len(l) : r[i].key = l[j].key
      <4> SUFFICES ASSUME NEW j \in 1 .. Len(l)
                   PROVE  \E i \in 1 .. Len(l) : r[i].key = l[j].key
        OBVIOUS
      <4>1. PICK i \in 1 .. Len(l) : old(i) = j
        BY <1>8
      <4>2. r[i] = l[j]
        BY <1>6, <4>1
      <4> QED BY <4>2
    <3>3. DOMAIN m = {l[j].key : j \in 1 .. Len(l)} /\ Len(r) = Len(l)
      BY <1>1, <1>4 DEF Holds, Moved
    <3>4. {l[j].key : j \in 1 .. Len(l)} = {r[j].key : j \in 1 .. Len(l)}
      <4> DEFINE key(i) == l[i].key
                 new(i) == r[i].key
      <4>1. /\ \A i \in 1 .. Len(l) : \E j \in 1 .. Len(l) : new(i) = key(j)
            /\ \A j \in 1 .. Len(l) : \E i \in 1 .. Len(l) : new(i) = key(j)
        BY <3>1, <3>2
      <4> HIDE DEF key, new
      <4>2. {key(j) : j \in 1 .. Len(l)} = {new(j) : j \in 1 .. Len(l)}
        BY <4>1
      <4> QED BY <4>2 DEF key, new
    <3> QED BY <3>3, <3>4
  <2> QED BY <1>4, <1>5, <2>1, <2>2, <2>3, <2>4 DEF Holds, Moved
<1>10. ASSUME NEW i \in 1 .. Len(r) PROVE \E j \in 1 .. Len(l) : r[i] = l[j]
  BY <1>4, <1>6 DEF Moved
<1>11. Get(c, k).lruList = r /\ Get(c, k).relationMap = m
  BY <1>2 DEF r, l, m, p
<1>12. CacheInv(Get(c, k), w)
  BY <1>2, <1>9, <1>11 DEF CacheInv, r, l, m, p
<1> QED BY <1>10, <1>11, <1>12 DEF w, l

\* There is a node that no entry has.
LEMMA FreshNode ==
    ASSUME NEW l \in Seq(Entry), Len(l) <= Capacity
    PROVE  \E n \in NodeId : \A i \in 1 .. Len(l) : l[i].node # n
<1>1. Capacity \in Nat /\ Len(l) \in Nat
  BY CacheAssumption, LenProperties
<1> SUFFICES ASSUME \A n \in NodeId : \E i \in 1 .. Len(l) : l[i].node = n PROVE FALSE
  OBVIOUS
<1> DEFINE g == [n \in NodeId |-> CHOOSE i \in 1 .. Len(l) : l[i].node = n]
<1>2. \A n \in NodeId : g[n] \in 1 .. Len(l) /\ l[g[n]].node = n
  OBVIOUS
<1>3. g \in Injection(NodeId, 1 .. Len(l))
  BY <1>2 DEF Injection, IsInjective
<1>4. IsFiniteSet(1 .. Len(l)) /\ Cardinality(1 .. Len(l)) = Len(l)
  <2>1. 1 \in Int /\ Len(l) \in Int
    BY <1>1
  <2>2. /\ IsFiniteSet(1 .. Len(l))
        /\ Cardinality(1 .. Len(l)) = IF 1 > Len(l) THEN 0 ELSE Len(l) - 1 + 1
    BY <2>1, FS_Interval
  <2> QED BY <1>1, <2>2
<1>5. Cardinality(NodeId) = Capacity + 1
  BY <1>1, FS_Interval DEF NodeId
<1>6. Cardinality(NodeId) <= Len(l)
  BY <1>3, <1>4, FS_Injection
<1> QED BY <1>1, <1>5, <1>6

\* When k is used and is none of the first n, they move one place.
LEMMA UsedShifts ==
    ASSUME NEW u \in Seq(Key), Distinct(u), NEW k \in Key, NEW n \in 0 .. Len(u),
           \A i \in 1 .. n : u[i] # k
    PROVE  /\ Used(u, k)[1] = k
           /\ \A j \in 2 .. n + 1 : j <= Len(Used(u, k)) => Used(u, k)[j] = u[j - 1]
           /\ Len(Used(u, k)) >= Len(u) /\ Len(Used(u, k)) >= 1
           /\ n = Len(u) => Len(Used(u, k)) = Len(u) + 1
<1>1. Len(u) \in Nat /\ n \in Nat
  BY LenProperties
<1>2. CASE \A p \in 1 .. Len(u) : u[p] # k
  <2>1. Pushed(Used(u, k), u, k)
    BY <1>2, UsedKeeps
  <2> QED BY <1>1, <2>1 DEF Pushed
<1>3. ASSUME NEW p \in 1 .. Len(u), u[p] = k
      PROVE  /\ Used(u, k)[1] = k
             /\ \A j \in 2 .. n + 1 : j <= Len(Used(u, k)) => Used(u, k)[j] = u[j - 1]
             /\ Len(Used(u, k)) >= Len(u) /\ Len(Used(u, k)) >= 1 /\ n # Len(u)
  <2>1. Moved(Used(u, k), u, p, k)
    BY <1>3, UsedKeeps
  <2>2. p > n
    BY <1>1, <1>3
  <2> QED BY <1>1, <2>1, <2>2 DEF Moved
<1> QED BY <1>2, <1>3

\* put of an unknown key: the entry used longest ago makes room for a new first one,
\* and every other entry was there before.
LEMMA PutKeeps ==
    ASSUME NEW c, NEW u, CacheInv(c, u), NEW k \in Key, NEW v \in Decision, ~Known(c, k)
    PROVE  /\ CacheInv(Put(c, k, v), Used(u, k))
           /\ \A i \in 1 .. Len(Put(c, k, v).lruList) :
                 LET e == Put(c, k, v).lruList[i]
                 IN  \/ e.key = k /\ e.value = v
                     \/ \E j \in 1 .. Len(c.lruList) : e = c.lruList[j]
<1> DEFINE l == c.lruList
           m == c.relationMap
           b == IF Len(l) >= Capacity THEN PopBack(c) ELSE c
           n == CHOOSE x \in NodeId : x \notin Nodes(b)
           e == [node |-> n, key |-> k, value |-> v]
           r == <<e>> \o b.lruList
           f == [x \in DOMAIN b.relationMap \cup {k} |->
                    IF x = k THEN n ELSE b.relationMap[x]]
           w == Used(u, k)
<1>1. Put(c, k, v) = [lruList |-> r, relationMap |-> f]
  BY DEF Put, PushFront
<1>2. /\ l \in Seq(Entry) /\ u \in Seq(Key) /\ Len(l) \in Nat /\ Len(u) \in Nat
      /\ Len(l) = IF Len(u) < Capacity THEN Len(u) ELSE Capacity
      /\ Capacity \in Nat \ {0} /\ Distinct(u)
  BY CacheAssumption, LenProperties DEF CacheInv, Holds
<1>3. /\ \A i \in 1 .. Len(l) : l[i].key = u[i] /\ m[l[i].key] = l[i].node
      /\ \A i, j \in 1 .. Len(l) : i # j => l[i].node # l[j].node
      /\ DOMAIN m = {l[i].key : i \in 1 .. Len(l)}
  BY DEF CacheInv, Holds
<1>4. \A i \in 1 .. Len(l) : u[i] # k /\ l[i].key # k
  BY <1>3 DEF Known
<1> DEFINE h == IF Len(l) >= Capacity THEN Len(l) - 1 ELSE Len(l)
\* What is left after the eviction.
<1>5. /\ b.lruList \in Seq(Entry) /\ Len(b.lruList) = h
      /\ \A i \in 1 .. h : b.lruList[i] = l[i] /\ b.relationMap[l[i].key] = m[l[i].key]
      /\ DOMAIN b.relationMap = {l[i].key : i \in 1 .. h}
  <2>1. CASE Len(l) < Capacity
    BY <1>2, <1>3, <2>1
  <2>2. CASE Len(l) >= Capacity
    <3>1. b.lruList = SubSeq(l, 1, Len(l) - 1) /\ h = Len(l) - 1
      BY <2>2 DEF PopBack, Front
    <3>2. b.relationMap = [x \in DOMAIN m \ {l[Len(l)].key} |-> m[x]]
      BY <2>2 DEF PopBack, Last
    <3> HIDE DEF b, h, l, m
    <3>3. /\ SubSeq(l, 1, Len(l) - 1) \in Seq(Entry)
          /\ Len(SubSeq(l, 1, Len(l) - 1)) = Len(l) - 1
          /\ \A i \in 1 .. Len(l) - 1 : SubSeq(l, 1, Len(l) - 1)[i] = l[i]
      BY <1>2, <2>2
    <3>4. \A i \in 1 .. Len(l) : i # Len(l) => l[i].key # l[Len(l)].key
      BY <1>2, <1>3, <2>2 DEF Distinct
    <3>5. DOMAIN m \ {l[Len(l)].key} = {l[i].key : i \in 1 .. Len(l) - 1}
      BY <1>2, <1>3, <2>2, <3>4
    <3>6. \A i \in 1 .. h : b.lruList[i] = l[i]
      BY <3>1, <3>3
    <3>7. \A i \in 1 .. h : b.relationMap[l[i].key] = m[l[i].key]
      <4> SUFFICES ASSUME NEW i \in 1 .. h PROVE b.relationMap[l[i].key] = m[l[i].key]
        OBVIOUS
      <4>1. l[i].key \in DOMAIN m \ {l[Len(l)].key}
        BY <3>1, <3>5
      <4> QED BY <3>2, <4>1
    <3> QED BY <3>1, <3>2, <3>3, <3>5, <3>6, <3>7
  <2> QED BY <1>2, <2>1, <2>2
<1>6. h \in Nat /\ h <= Len(l) /\ h < Capacity /\ h \in 0 .. Len(u)
  BY <1>2
<1>7. n \in NodeId /\ \A i \in 1 .. h : l[i].node # n
  <2>1. \E x \in NodeId : \A i \in 1 .. h : b.lruList[i].node # x
    BY <1>5, <1>6, FreshNode, CacheAssumption
  <2>2. DOMAIN b.lruList = 1 .. h
    BY <1>5, LenProperties
  <2>3. \E x \in NodeId : x \notin Nodes(b)
    BY <2>1, <2>2 DEF Nodes
  <2>4. n \in NodeId /\ n \notin Nodes(b)
    BY <2>3
  <2> QED BY <1>5, <2>2, <2>4 DEF Nodes
<1> HIDE DEF b, n, w, h, l, m
<1>8. /\ r \in Seq(Entry) /\ Len(r) = h + 1 /\ r[1] = e
      /\ \A j \in 2 .. h + 1 : r[j] = l[j - 1]
  <2>1. e \in Entry
    BY <1>7 DEF Entry
  <2> DEFINE rest == b.lruList
  <2>2. rest \in Seq(Entry) /\ Len(rest) = h
    BY <1>5
  <2>3. r = <<e>> \o rest
    OBVIOUS
  <2> HIDE DEF e, r, rest
  <2>4. /\ r \in Seq(Entry) /\ Len(r) = h + 1 /\ r[1] = e
    BY <1>6, <2>1, <2>2, <2>3
  <2>5. ASSUME NEW j \in 2 .. h + 1 PROVE r[j] = rest[j - 1]
    BY <1>6, <2>1, <2>2, <2>3
  <2> QED BY <1>5, <1>6, <2>4, <2>5 DEF rest
<1>9. /\ w \in Seq(Key) /\ Distinct(w) /\ Len(w) \in Nat
      /\ w[1] = k /\ \A j \in 2 .. h + 1 : w[j] = u[j - 1]
      /\ h + 1 = IF Len(w) < Capacity THEN Len(w) ELSE Capacity
  <2>1. w \in Seq(Key) /\ Distinct(w) /\ Len(w) \in Nat
    BY <1>2, UsedKeeps, LenProperties DEF w
  <2>2. \A i \in 1 .. h : u[i] # k
    BY <1>4, <1>6
  <2>3. /\ w[1] = k /\ \A j \in 2 .. h + 1 : j <= Len(w) => w[j] = u[j - 1]
        /\ Len(w) >= Len(u) /\ Len(w) >= 1
        /\ h = Len(u) => Len(w) = Len(u) + 1
    BY <1>2, <1>6, <2>2, UsedShifts DEF w
  <2>4. h + 1 = IF Len(w) < Capacity THEN Len(w) ELSE Capacity
    BY <1>2, <2>1, <2>3 DEF h
  <2> QED BY <1>6, <2>1, <2>3, <2>4
<1>10. Holds(r, f, w)
  <2> HIDE DEF r
  <2>1. ASSUME NEW i \in 1 .. h
        PROVE  /\ r[i + 1] = l[i] /\ w[i + 1] = u[i] /\ l[i].key = u[i] /\ u[i] # k
               /\ l[i].node = m[u[i]] /\ l[i].node # n
    <3>1. i \in 1 .. Len(l) /\ i + 1 \in 2 .. h + 1 /\ (i + 1) - 1 = i
      BY <1>2, <1>6
    <3>2. r[i + 1] = l[i] /\ w[i + 1] = u[i]
      BY <1>8, <1>9, <3>1
    <3> QED BY <1>3, <1>4, <1>7, <3>1, <3>2
  <2>2. DOMAIN f = {r[i].key : i \in 1 .. Len(r)}
    <3>1. DOMAIN f = {l[i].key : i \in 1 .. h} \cup {k}
      BY <1>5
    <3>2. ASSUME NEW x \in {r[i].key : i \in 1 .. Len(r)}
          PROVE  x \in {l[i].key : i \in 1 .. h} \cup {k}
      <4>1. PICK i \in 1 .. h + 1 : x = r[i].key
        BY <1>8, <3>2
      <4>2. CASE i = 1
        BY <1>8, <4>1, <4>2
      <4>3. CASE i # 1
        <5>1. i - 1 \in 1 .. h /\ r[i] = l[i - 1]
          BY <1>6, <1>8, <4>1, <4>3
        <5> QED BY <4>1, <5>1
      <4> QED BY <4>2, <4>3
    <3>3. ASSUME NEW i \in 1 .. h
          PROVE  l[i].key \in {r[j].key : j \in 1 .. Len(r)}
      <4>1. i + 1 \in 1 .. Len(r) /\ r[i + 1] = l[i]
        BY <1>6, <1>8, <2>1
      <4> QED BY <4>1
    <3>4. k \in {r[j].key : j \in 1 .. Len(r)}
      BY <1>6, <1>8
    <3> QED BY <3>1, <3>2, <3>3, <3>4
  <2>3. ASSUME NEW i \in 1 .. h + 1
        PROVE  r[i].key = w[i] /\ f[r[i].key] = r[i].node
    <3>1. CASE i = 1
      BY <1>8, <1>9, <3>1
    <3>2. CASE i # 1
      <4>1. i - 1 \in 1 .. h /\ (i - 1) + 1 = i
        BY <1>6, <3>2
      <4>2. b.relationMap[l[i - 1].key] = m[l[i - 1].key]
            /\ l[i - 1].key \in DOMAIN b.relationMap
        BY <1>5, <4>1
      <4> QED BY <2>1, <4>1, <4>2
    <3> QED BY <3>1, <3>2
  <2>4. ASSUME NEW i \in 1 .. h + 1, NEW j \in 1 .. h + 1, i # j
        PROVE  r[i].node # r[j].node
    <3>1. \A x \in 1 .. h + 1 : x # 1 => x - 1 \in 1 .. h /\ r[x] = l[x - 1]
      BY <1>6, <1>8
    <3>2. r[1].node = n
      BY <1>8
    <3>3. \A x \in 1 .. h : x \in 1 .. Len(l) /\ l[x].node # n
      BY <1>2, <1>6, <1>7
    <3>4. i # 1 /\ j # 1 => i - 1 # j - 1
      BY <1>6, <2>4
    <3>5. CASE i # 1 /\ j # 1
      <4>1. /\ r[i] = l[i - 1] /\ i - 1 \in 1 .. Len(l)
            /\ r[j] = l[j - 1] /\ j - 1 \in 1 .. Len(l) /\ i - 1 # j - 1
        BY <2>4, <3>1, <3>3, <3>4, <3>5
      <4> QED BY <1>3, <4>1
    <3>6. CASE i = 1 \/ j = 1
      BY <2>4, <3>1, <3>2, <3>3, <3>6
    <3> QED BY <3>5, <3>6
  <2> QED BY <1>8, <1>9, <2>2, <2>3, <2>4 DEF Holds
<1>11. ASSUME NEW i \in 1 .. Len(r)
       PROVE  \/ r[i].key = k /\ r[i].value = v
              \/ \E j \in 1 .. Len(l) : r[i] = l[j]
  <2>1. CASE i = 1
    BY <1>8, <2>1
  <2>2. CASE i # 1
    <3>1. r[i] = l[i - 1] /\ i - 1 \in 1 .. Len(l)
      BY <1>2, <1>6, <1>8, <2>2
    <3> QED BY <3>1
  <2> QED BY <2>1, <2>2
<1>12. Put(c, k, v).lruList = r /\ Put(c, k, v).relationMap = f
  BY <1>1
<1>13. CacheInv(Put(c, k, v), w)
  BY <1>1, <1>10, <1>12 DEF CacheInv
<1> QED BY <1>11, <1>12, <1>13 DEF w, l

-----------------------------------------------------------------------------
(* The permission check *)

\* The cache holds the tokens used last, with the last answer for each.
DecisionsInv ==
    /\ permitted \in [Token -> BOOLEAN] /\ verdict \in [Token -> BOOLEAN]
    /\ CacheInv(permissionCache, used)
    /\ \A i \in 1 .. Len(permissionCache.lruList) :
          LET e == permissionCache.lruList[i] IN e.value = verdict[e.key]

ServerInv == requests \subseteq Request /\ DecisionsInv

\* An empty cache is one.
LEMMA EmptyHolds == CacheInv(EmptyCache, <<>>) /\ Len(EmptyCache.lruList) = 0
<1>1. Len(<<>>) = 0 /\ <<>> \in Seq(Entry) /\ <<>> \in Seq(Key) /\ DOMAIN <<>> = {}
  BY EmptySeq
<1>2. EmptyCache.lruList = <<>> /\ EmptyCache.relationMap = <<>>
  BY DEF EmptyCache
<1>3. Holds(EmptyCache.lruList, EmptyCache.relationMap, <<>>)
  BY <1>1, <1>2, CacheAssumption DEF Holds, Distinct
<1> QED BY <1>1, <1>2, <1>3 DEF CacheInv, EmptyCache

\* A check keeps the decisions. What it grants was the last answer for the token,
\* which is no plain HAP, and what is no longer permitted was used lately.
LEMMA CheckKeeps ==
    ASSUME DecisionsInv, NEW t \in Token, NEW ok \in BOOLEAN, HasPerfPermission(t, ok),
           UNCHANGED permitted
    PROVE  /\ DecisionsInv'
           /\ ok => verdict'[t] /\ t \notin PlainHap
           /\ ok /\ ~permitted[t] =>
                 \E i \in 1 .. Len(used) : i <= Capacity /\ used[i] = t
<1> DEFINE l == permissionCache.lruList
<1>1. /\ permitted \in [Token -> BOOLEAN] /\ verdict \in [Token -> BOOLEAN]
      /\ CacheInv(permissionCache, used)
      /\ \A i \in 1 .. Len(l) : l[i].value = verdict[l[i].key]
  BY DEF DecisionsInv
<1>2. l \in Seq(Entry) /\ Len(l) \in Nat /\ Len(l) <= Capacity /\ Capacity \in Nat
  BY <1>1, CacheAssumption, LenProperties DEF CacheInv, Holds
<1>3. CASE t \in PlainHap /\ ~ok /\ UNCHANGED cacheVars
  BY <1>1, <1>3 DEF DecisionsInv, cacheVars
<1>4. CASE t \notin PlainHap /\ used' = Used(used, t) /\ Known(permissionCache, t)
           /\ CacheHit(t, ok)
  <2>1. /\ permissionCache' = Get(permissionCache, t) /\ verdict' = verdict
        /\ ok = EntryOf(permissionCache, t).value
    BY <1>4 DEF CacheHit
  <2>2. /\ CacheInv(permissionCache', used')
        /\ \A i \in 1 .. Len(permissionCache'.lruList) : \E j \in 1 .. Len(l) :
              permissionCache'.lruList[i] = l[j]
    BY <1>1, <1>4, <2>1, GetKeeps DEF Token
  <2>3. DecisionsInv'
    BY <1>1, <2>1, <2>2 DEF DecisionsInv
  <2>4. PICK p \in 1 .. Len(l) : /\ p = At(permissionCache, permissionCache.relationMap[t])
                                 /\ l[p].key = t /\ used[p] = t /\ p \in 1 .. Len(used)
    BY <1>1, <1>4, PlaceOfKnown
  <2>5. ok = verdict[t]
    BY <1>1, <2>1, <2>4 DEF EntryOf
  <2> QED BY <1>2, <1>4, <2>1, <2>3, <2>4, <2>5
<1>5. CASE t \notin PlainHap /\ used' = Used(used, t) /\ ~Known(permissionCache, t)
           /\ VerifyAccessToken(t, ok)
  <2>1. /\ permissionCache' = Put(permissionCache, t, permitted[t]) /\ ok = permitted[t]
        /\ verdict' = [verdict EXCEPT ![t] = permitted[t]]
    BY <1>5 DEF VerifyAccessToken
  <2>2. permitted[t] \in Decision /\ t \in Key
    BY <1>1, ServerAssumption DEF Token
  <2>3. /\ CacheInv(permissionCache', used')
        /\ \A i \in 1 .. Len(permissionCache'.lruList) :
              LET e == permissionCache'.lruList[i]
              IN  \/ e.key = t /\ e.value = permitted[t]
                  \/ \E j \in 1 .. Len(l) : e = l[j]
    BY <1>1, <1>5, <2>1, <2>2, PutKeeps
  <2>4. \A j \in 1 .. Len(l) : l[j].key \in Token /\ l[j].key # t
    <3>1. \A j \in 1 .. Len(l) : l[j] \in Entry /\ l[j].key \in DOMAIN permissionCache.relationMap
      BY <1>1, <1>2, ElementOfSeq DEF CacheInv, Holds
    <3> QED BY <1>5, <3>1 DEF Entry, Known, Token
  <2>5. \A x \in Token : verdict'[x] = IF x = t THEN permitted[t] ELSE verdict[x]
    BY <1>1, <2>1
  <2>6. \A i \in 1 .. Len(permissionCache'.lruList) :
           permissionCache'.lruList[i].value = verdict'[permissionCache'.lruList[i].key]
    BY <1>1, <2>3, <2>4, <2>5
  <2>7. verdict' \in [Token -> BOOLEAN] /\ verdict'[t] = permitted[t]
    BY <1>1, <2>1
  <2>8. DecisionsInv'
    BY <1>1, <2>3, <2>6, <2>7 DEF DecisionsInv
  <2> QED BY <1>5, <2>1, <2>7, <2>8
<1> QED BY <1>3, <1>4, <1>5 DEF HasPerfPermission

\* A decision made is one about the call, which goes on or is refused.
LEMMA CheckedCall ==
    ASSUME ServerInv, NEW q \in requests, CheckPermission(q)
    PROVE  /\ ServerInv'
           /\ \A x \in Newly : /\ x.call = q.call /\ ~Forbidden(q.call)
                               /\ HasPerfPermission(q.call.token, TRUE)
<1>1. q = [slot |-> q.slot, call |-> q.call, at |-> q.at] /\ q.call.token \in Token
      /\ q.slot \in Slot /\ q.call \in Arrivals
  BY ServerAssumption DEF ServerInv, Request
<1>2. CASE Forbidden(q.call) /\ Refuse(q) /\ UNCHANGED cacheVars
  BY <1>2 DEF CheckPermission, Refuse, ServerInv, DecisionsInv, Newly, cacheVars
<1>3. CASE HasPerfPermission(q.call.token, FALSE) /\ Refuse(q)
  <2>1. DecisionsInv'
    BY <1>1, <1>3, CheckKeeps DEF ServerInv, CheckPermission
  <2> QED BY <1>3, <2>1 DEF Refuse, ServerInv, Newly
<1>4. CASE ~Forbidden(q.call) /\ HasPerfPermission(q.call.token, TRUE)
           /\ Advance(q, "allowed")
  <2>1. DecisionsInv'
    BY <1>1, <1>4, CheckKeeps DEF ServerInv, CheckPermission
  <2> DEFINE new == [q EXCEPT !.at = "allowed"]
  <2>2. new = [slot |-> q.slot, call |-> q.call, at |-> "allowed"]
    BY <1>1
  <2>3. requests' = (requests \ {q}) \cup {new}
    BY <1>4 DEF Advance
  <2> HIDE DEF new
  <2>4. new \in Request /\ new.call = q.call
    BY <1>1, <2>2 DEF Request, Stage
  <2> QED BY <1>4, <2>1, <2>3, <2>4 DEF ServerInv, Newly
<1> QED BY <1>2, <1>3, <1>4 DEF CheckPermission

\* A call that arrives, and one that is served.
LEMMA ArrivalKeeps ==
    ASSUME NEW c \in Arrivals, Receive(c), requests \subseteq Request
    PROVE  requests' \subseteq Request /\ Newly = {}
<1> DEFINE s == CHOOSE s \in Free : TRUE
           new == [slot |-> s, call |-> c, at |-> "arrived"]
<1>1. s \in Slot /\ requests' = requests \cup {new}
  BY DEF Receive, Free
<1> HIDE DEF s
<1>2. new \in Request /\ new.at = "arrived"
  BY <1>1 DEF Request, Stage
<1> QED BY <1>1, <1>2 DEF Newly

LEMMA ServerStep ==
    ASSUME ServerInv, [ServerNext]_serverVars
    PROVE  /\ ServerInv'
           /\ \A x \in Newly : /\ ~Forbidden(x.call) /\ x.call.token \in Token
                               /\ HasPerfPermission(x.call.token, TRUE)
                               /\ UNCHANGED permitted
<1>1. ASSUME NEW c \in Arrivals, Receive(c)
      PROVE  ServerInv' /\ Newly = {}
  BY <1>1, ArrivalKeeps DEF Receive, ServerInv, DecisionsInv, cacheVars
<1>2. ASSUME NEW q \in requests, CheckPermission(q)
      PROVE  /\ ServerInv'
             /\ \A x \in Newly : /\ ~Forbidden(x.call) /\ x.call.token \in Token
                                 /\ HasPerfPermission(x.call.token, TRUE)
                                 /\ UNCHANGED permitted
  <2>1. q.call.token \in Token /\ UNCHANGED permitted
    BY <1>2, ServerAssumption DEF ServerInv, Request, CheckPermission
  <2> QED BY <1>2, <2>1, CheckedCall
<1>3. CASE UNCHANGED <<requests, cacheVars>> /\ permitted' \in [Token -> BOOLEAN]
  BY <1>3 DEF ServerInv, DecisionsInv, cacheVars, Newly
<1>4. ASSUME NEW q \in requests, Forward(q)
      PROVE  ServerInv' /\ Newly = {}
  BY <1>4 DEF Forward, ServerInv, DecisionsInv, cacheVars, Newly
<1>5. ASSUME NEW t \in Token, PermissionChanges(t)
      PROVE  UNCHANGED <<requests, cacheVars>> /\ permitted' \in [Token -> BOOLEAN]
  BY <1>5 DEF PermissionChanges, ServerInv, DecisionsInv
<1>6. CASE UNCHANGED serverVars
  BY <1>3, <1>6 DEF serverVars, ServerInv, DecisionsInv
<1> QED BY <1>1, <1>2, <1>3, <1>4, <1>5, <1>6 DEF ServerNext

LEMMA ServerStart == ServerInit => ServerInv
<1> SUFFICES ASSUME ServerInit PROVE ServerInv
  OBVIOUS
<1> QED BY EmptyHolds DEF ServerInit, EmptyServer, ServerInv, DecisionsInv

LEMMA InvTyped == ServerInv => ServerTypeOK
<1> SUFFICES ASSUME ServerInv PROVE ServerTypeOK
  OBVIOUS
<1> DEFINE l == permissionCache.lruList
           m == permissionCache.relationMap
<1>1. Holds(l, m, used)
  BY DEF ServerInv, DecisionsInv, CacheInv
<1>2. \A i \in 1 .. Len(l) : l[i].key \in Token /\ l[i].node \in NodeId
  <2>1. \A i \in 1 .. Len(l) : l[i] \in Entry
    BY <1>1, ElementOfSeq DEF Holds
  <2> QED BY <2>1 DEF Entry, Token
<1>3. DOMAIN m \subseteq Token /\ Range(m) \subseteq NodeId
  <2>1. DOMAIN m = {l[i].key : i \in 1 .. Len(l)}
    BY <1>1 DEF Holds
  <2>2. \A i \in 1 .. Len(l) : m[l[i].key] \in NodeId
    BY <1>1, <1>2 DEF Holds
  <2>3. \A x \in DOMAIN m : m[x] \in NodeId
    BY <2>1, <2>2
  <2> QED BY <1>2, <2>1, <2>3 DEF Range
<1> QED BY <1>1, <1>3 DEF ServerInv, DecisionsInv, ServerTypeOK, Holds, Token

-----------------------------------------------------------------------------
(* The theorems *)

\* Whatever calls arrive and whatever is granted or revoked, requests, cache and
\* answers keep their types.
THEOREM ServerTypeCorrect == ServerSpec => []ServerTypeOK
<1>1. ServerInv /\ [ServerNext]_serverVars => ServerInv'
  BY ServerStep
<1> QED BY <1>1, ServerStart, InvTyped, PTL DEF ServerSpec

\* The list and the map of the permission cache never come apart, and they hold
\* the tokens used last, each with the last answer given for it: for any capacity
\* and any number of callers.
THEOREM CacheStaysCorrect == ServerSpec => []CacheCorrect
<1>1. ServerInv => CacheCorrect
  <2> SUFFICES ASSUME ServerInv PROVE CacheCorrect
    OBVIOUS
  <2>1. /\ CacheInv(permissionCache, used)
        /\ \A i \in 1 .. Len(permissionCache.lruList) :
              permissionCache.lruList[i].value = verdict[permissionCache.lruList[i].key]
    BY DEF ServerInv, DecisionsInv
  <2>2. InStep(permissionCache) /\ MostRecent(permissionCache, used)
    BY <2>1, HoldsInStep
  <2>3. DOMAIN permissionCache.lruList = 1 .. Len(permissionCache.lruList)
    BY <2>1, LenProperties DEF CacheInv, Holds
  <2> QED BY <2>1, <2>2, <2>3 DEF CacheCorrect
<1>2. ServerInv /\ [ServerNext]_serverVars => ServerInv'
  BY ServerStep
<1> QED BY <1>1, <1>2, ServerStart, PTL DEF ServerSpec

\* No call gets past the check of its permission without a yes of the access token
\* service for its token, its last answer; a plain HAP and, for the counts, a caller
\* that is not Hiview on a device that is not debuggable, never do.
THEOREM ServedAreVerified == ServerSpec => OnlyVerifiedServed
<1>1. ServerInv /\ [ServerNext]_serverVars =>
        [\A q \in Newly : /\ verdict'[q.call.token]
                          /\ q.call.token \notin PlainHap
                          /\ ~Forbidden(q.call)]_serverVars
  <2> SUFFICES ASSUME ServerInv, [ServerNext]_serverVars, NEW q \in Newly
               PROVE  /\ verdict'[q.call.token] /\ q.call.token \notin PlainHap
                      /\ ~Forbidden(q.call)
    OBVIOUS
  <2> QED BY ServerStep, CheckKeeps DEF ServerInv
<1>2. ServerInv /\ [ServerNext]_serverVars => ServerInv'
  BY ServerStep
<1> QED BY <1>1, <1>2, ServerStart, PTL DEF ServerSpec, OnlyVerifiedServed

\* Nothing invalidates a decision, yet a token that lost its permission is served
\* only while fewer than Capacity others were used since.
THEOREM RevocationTakesEffect == ServerSpec => RevokedServedWhileRecent
<1>1. ServerInv /\ [ServerNext]_serverVars =>
        [\A q \in Newly : ~permitted[q.call.token] =>
            \E i \in DOMAIN used : i <= Capacity /\ used[i] = q.call.token]_serverVars
  <2> SUFFICES ASSUME ServerInv, [ServerNext]_serverVars, NEW q \in Newly,
                      ~permitted[q.call.token]
               PROVE  \E i \in DOMAIN used : i <= Capacity /\ used[i] = q.call.token
    OBVIOUS
  <2>1. DOMAIN used = 1 .. Len(used)
    BY LenProperties DEF ServerInv, DecisionsInv, CacheInv, Holds
  <2> QED BY <2>1, ServerStep, CheckKeeps DEF ServerInv
<1>2. ServerInv /\ [ServerNext]_serverVars => ServerInv'
  BY ServerStep
<1> QED BY <1>1, <1>2, ServerStart, PTL DEF ServerSpec, RevokedServedWhileRecent
=============================================================================
