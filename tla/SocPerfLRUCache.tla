-------------------------- MODULE SocPerfLRUCache --------------------------
(***************************************************************************)
(* SocPerfLRUCache<K, V>: a list of entries, the most recently used one     *)
(* first, and a map from each key to the place of its entry in the list.    *)
(* The list and the map are two structures that each operation updates one  *)
(* after the other, so a place is a node of its own: an entry put again is  *)
(* a new node, and a map that still names the old one is dangling.          *)
(***************************************************************************)
EXTENDS Naturals, Sequences, SequencesExt

CONSTANTS Key, Decision, Capacity

ASSUME CacheAssumption == Capacity \in Nat \ {0}

NodeId == 1 .. Capacity + 1
Entry == [node : NodeId, key : Key, value : Decision]

\* lruList is a sequence of entries, relationMap a partial function to nodes.
EmptyCache == [lruList |-> <<>>, relationMap |-> <<>>]

Nodes(c) == {c.lruList[i].node : i \in DOMAIN c.lruList}
Known(c, k) == k \in DOMAIN c.relationMap

\* The entry a map place refers to.
At(c, n) == CHOOSE i \in DOMAIN c.lruList : c.lruList[i].node = n
EntryOf(c, k) == c.lruList[At(c, c.relationMap[k])]

Erase(c, k) == [c EXCEPT !.lruList = RemoveAt(@, At(c, c.relationMap[k]))]

\* Mutant: the place is taken before the entry is there.
PushFront_PlaceFirst(c, k, v) ==
    LET n == CHOOSE m \in NodeId : m \notin Nodes(c)
    IN  [lruList |-> <<[node |-> n, key |-> k, value |-> v]>> \o c.lruList,
         relationMap |-> [x \in DOMAIN c.relationMap \cup {k} |->
                             IF x # k THEN c.relationMap[x]
                             ELSE IF c.lruList = <<>> THEN 0 ELSE c.lruList[1].node]]

\* A new first entry, and its place.
PushFront(c, k, v) ==
    LET n == CHOOSE m \in NodeId : m \notin Nodes(c)
    IN  [lruList |-> <<[node |-> n, key |-> k, value |-> v]>> \o c.lruList,
         relationMap |-> [x \in DOMAIN c.relationMap \cup {k} |->
                             IF x = k THEN n ELSE c.relationMap[x]]]

\* At capacity, the map loses the key of the last entry, then the list the entry.
PopBack(c) ==
    [lruList |-> Front(c.lruList),
     relationMap |-> [x \in DOMAIN c.relationMap \ {Last(c.lruList).key} |->
                         c.relationMap[x]]]

\* Mutant: a hit is not moved to the front.
Get_NoSplice(c, k) == c

\* get: a hit is spliced to the front; its node does not change.
Get(c, k) ==
    IF ~Known(c, k) THEN c
    ELSE [c EXCEPT !.lruList = <<EntryOf(c, k)>> \o RemoveAt(@, At(c, c.relationMap[k]))]

\* put: an entry that is not the first is replaced by a new node.
Put(c, k, v) ==
    IF Known(c, k)
    THEN IF At(c, c.relationMap[k]) # 1
         THEN PushFront(Erase(c, k), k, v)
         ELSE [c EXCEPT !.lruList[1].value = v]
    ELSE PushFront(IF Len(c.lruList) >= Capacity THEN PopBack(c) ELSE c, k, v)

-----------------------------------------------------------------------------
(* What a cache of decisions promises, whatever is put and looked up.         *)

\* The keys that were used, each once, the last one first.
Used(u, k) == <<k>> \o RemoveFirst(u, k)

\* The list and the map are in step: each key has one place, which is in the
\* list and holds an entry of that key, and nothing else is in the list.
InStep(c) ==
    /\ Len(c.lruList) <= Capacity
    /\ DOMAIN c.relationMap = {c.lruList[i].key : i \in DOMAIN c.lruList}
    /\ \A i, j \in DOMAIN c.lruList :
          i # j => c.lruList[i].key # c.lruList[j].key
    /\ \A i \in DOMAIN c.lruList : c.relationMap[c.lruList[i].key] = c.lruList[i].node

\* It holds the Capacity most recently used keys, in that order.
MostRecent(c, u) ==
    [i \in DOMAIN c.lruList |-> c.lruList[i].key]
        = SubSeq(u, 1, IF Len(u) < Capacity THEN Len(u) ELSE Capacity)

\* The reference: a cache as a function of the operations so far, each
\* [key, put, value], with a lookup that misses leaving no trace.
Replay(ops) ==
    FoldLeft(LAMBDA c, o : IF o.put THEN Put(c, o.key, o.value) ELSE Get(c, o.key),
             EmptyCache, ops)

\* The last value put for k, among all operations.
LastPut(ops, k) ==
    LET is == {i \in DOMAIN ops : ops[i].put /\ ops[i].key = k}
    IN  ops[CHOOSE i \in is : \A j \in is : j <= i].value

\* Keys of entries that were not evicted, the most recently used first. An
\* operation on a key moves it to the front; a new key pushes the last one out.
Order(ops) ==
    FoldLeft(LAMBDA u, o :
                IF o.put \/ Contains(u, o.key)
                THEN SubSeq(Used(u, o.key), 1,
                            IF Len(Used(u, o.key)) < Capacity
                            THEN Len(Used(u, o.key)) ELSE Capacity)
                ELSE u,
             <<>>, ops)

\* After any operations, the cache is in step, in that order, and each of its
\* entries has the value last put for its key.
ReplayCorrect(ops) ==
    LET c == Replay(ops)
    IN  /\ InStep(c)
        /\ [i \in DOMAIN c.lruList |-> c.lruList[i].key] = Order(ops)
        /\ \A i \in DOMAIN c.lruList :
              c.lruList[i].value = LastPut(ops, c.lruList[i].key)
=============================================================================
