-------------------------------- MODULE KeySet --------------------------------
(***************************************************************************)
(* What the two caches keep their keys in: the MapKey and the KeySet of     *)
(* src/internal/cache.ts, and the loop that evicts, which Cache and         *)
(* ScopedCache both have in their trackAccess.                              *)
(***************************************************************************)
EXTENDS Integers, Sequences, FiniteSets

CONSTANT Capacity

\* A MapKey is an object: one comes with each lookup, another with its result.
MapKey(k, v, ended)  == [current |-> k, of |-> v, ended |-> ended]

Put(m, k, x)    == [j \in DOMAIN m \cup {k} |-> IF j = k THEN x ELSE m[j]]
Without(m, ks)   == [j \in DOMAIN m \ ks |-> m[j]]

\* KeySet.add: the key becomes the last one.  (A key of no lookup is a new object.)
Added(keys, k) ==
  LET at == {i \in DOMAIN keys : keys[i] = k /\ k.of # 0}
      n  == CHOOSE i \in at : TRUE
  IN Append(IF at = {} THEN keys ELSE SubSeq(keys, 1, n - 1) \o SubSeq(keys, n + 1, Len(keys)), k)

KeysOf(keys, n) == {keys[i].current : i \in 1..n}

\* The loop that evicts: the least recently accessed keys go, with whatever the map
\* has for them by now, until there are no more of them or the map is not over its
\* capacity.
Evictions(m, keys) ==
  LET enough == {n \in 0..Len(keys) :
                   n = Len(keys) \/ Cardinality(DOMAIN m \ KeysOf(keys, n)) <= Capacity}
  IN CHOOSE n \in enough : \A i \in enough : n <= i

Evicted(m, keys) ==
  LET n == Evictions(m, keys) IN
  [map |-> Without(m, KeysOf(keys, n)), keys |-> SubSeq(keys, n + 1, Len(keys))]
=============================================================================
