---------------------------- MODULE CacheProofs ----------------------------
(***************************************************************************)
(* A cache looks a key up once, leaves nobody waiting, forgets what was     *)
(* invalidated and keeps to its capacity: for any number of fibers and keys *)
(* and every capacity.                                                     *)
(***************************************************************************)
EXTENDS Cache, FiniteSetTheorems, NaturalsInduction, TLAPS

\* A lookup is under way at one place of the map, and in each that is not Complete.
TableRight ==
  /\ \A k \in DOMAIN map : map[k].lookup \in 0..made /\ map[k].value \in 0..made
  /\ \A k \in DOMAIN map : map[k].lookup = 0 <=> map[k].tag = "Complete"
  /\ \A k, j \in DOMAIN map : map[k].lookup = map[j].lookup /\ map[k].lookup # 0 => k = j

\* A fiber that has promised a lookup.
Active(f) == pc[f] \in {"begin", "lookup", "store", "clean"}

\* Every lookup is made by one fiber and has its place in the map, in that of the key
\* it is for, unless that was taken from it.
LookupsPlaced ==
  \A f \in Fiber : Active(f) =>
    /\ mine[f] # 0 /\ \A g \in Fiber : Active(g) /\ mine[f] = mine[g] => f = g
    /\ \A k \in DOMAIN map : map[k].lookup = mine[f] => k = key[f] /\ pc[f] # "store"
    /\ LooksUp(f) => mine[f] \in displaced \/ (Has(key[f]) /\ map[key[f]].lookup = mine[f])

\* A value was stored for one key, the one it is found by, and not before its lookup
\* has ended.
StoredApart ==
  /\ \A k, j \in Key : k # j => stored[k] \cap stored[j] = {}
  /\ \A k \in DOMAIN map :
       /\ map[k].value # 0 => map[k].value \in stored[k]
       /\ \A j \in Key : map[k].lookup \notin stored[j]
  /\ \A f \in Fiber, k \in Key : LooksUp(f) => mine[f] \notin stored[k]

\* The fibers that look at what they found in the map.
Looking(f) == pc[f] \in {"resolve", "resolveComplete", "await", "when"}

\* What was invalidated is neither in the map nor in the hands of a fiber that began
\* afterwards.
GoneApart ==
  /\ \A v \in gone : \E k \in Key : v \in stored[k]
  /\ \A k \in DOMAIN map : map[k].value \notin gone
  /\ \A f \in Fiber :
       /\ forbidden[f] \subseteq gone /\ result[f] \notin forbidden[f]
       /\ pc[f] # "idle" => key[f] \in Key
       /\ Active(f) => mine[f] \notin forbidden[f]
       /\ Looking(f) => /\ seen[f].lookup \in 0..made \ forbidden[f]
                        /\ seen[f].value \in 0..made \ forbidden[f]
                        /\ seen[f].lookup = 0 <=> seen[f].tag = "Complete"
       /\ pc[f] = "await" => seen[f].lookup # 0

\* Whoever promised a lookup is at it, or left an orphan.
PromisesKept ==
  \A v \in Value : deferred[v] = "pending" =>
    v \in orphans \/ \E f \in Fiber : mine[f] = v /\ pc[f] \in {"begin", "lookup", "store"}

\* The keys in the map that an access brought there are known, and no more than the
\* capacity.
AccessesTracked ==
  /\ IsFiniteSet(DOMAIN map) /\ DOMAIN map \ untracked \subseteq KeysOf(keySet, Len(keySet))
  /\ Cardinality(DOMAIN map \ untracked) <= Capacity

Inv ==
  /\ TypeOK /\ TableRight /\ LookupsPlaced /\ StoredApart /\ GoneApart /\ PromisesKept
  /\ AccessesTracked
----------------------------------------------------------------------------
(* The KeySet.                                                             *)

\* What is added to the keys is among them, and they stay.
LEMMA AddedRight ==
  ASSUME NEW keys \in Seq(MapKeys), NEW k \in MapKeys
  PROVE  /\ Added(keys, k) \in Seq(MapKeys)
         /\ KeysOf(keys, Len(keys)) \cup {k.current} \subseteq KeysOf(Added(keys, k), Len(Added(keys, k)))
<1>. DEFINE at == {i \in DOMAIN keys : keys[i] = k /\ k.of # 0}
            n  == CHOOSE i \in at : TRUE
            rest == SubSeq(keys, 1, n - 1) \o SubSeq(keys, n + 1, Len(keys))
            new  == Append(IF at = {} THEN keys ELSE rest, k)
<1>1. Added(keys, k) = new
  BY DEF Added
<1>2. CASE at = {}
  <2>1. new = Append(keys, k)
    BY <1>2
  <2>2. new \in Seq(MapKeys) /\ Len(new) = Len(keys) + 1 /\ Len(keys) \in Nat
    BY <2>1
  <2>3. \A i \in 1..Len(keys) : new[i] = keys[i]
    BY <2>1
  <2>4. new[Len(keys) + 1] = k
    BY <2>1
  <2>. HIDE DEF new
  <2>. QED BY <1>1, <2>2, <2>3, <2>4 DEF KeysOf
<1>3. CASE at # {}
  <2>1. n \in 1..Len(keys) /\ keys[n] = k /\ Len(keys) \in Nat
    BY <1>3
  <2>. HIDE DEF n
  <2>2. /\ SubSeq(keys, 1, n - 1) \in Seq(MapKeys) /\ Len(SubSeq(keys, 1, n - 1)) = n - 1
        /\ \A i \in 1..(n - 1) : SubSeq(keys, 1, n - 1)[i] = keys[i]
    BY <2>1
  <2>3. /\ SubSeq(keys, n + 1, Len(keys)) \in Seq(MapKeys)
        /\ Len(SubSeq(keys, n + 1, Len(keys))) = Len(keys) - n
        /\ \A i \in 1..(Len(keys) - n) : SubSeq(keys, n + 1, Len(keys))[i] = keys[n + i]
    BY <2>1
  <2>4. /\ rest \in Seq(MapKeys) /\ Len(rest) = Len(keys) - 1
        /\ \A i \in 1..(n - 1) : rest[i] = keys[i]
        /\ \A i \in (n + 1)..Len(keys) : rest[i - 1] = keys[i]
    <3>. DEFINE a == SubSeq(keys, 1, n - 1)
                b == SubSeq(keys, n + 1, Len(keys))
    <3>0. /\ a \in Seq(MapKeys) /\ Len(a) = n - 1 /\ b \in Seq(MapKeys) /\ Len(b) = Len(keys) - n
          /\ \A i \in 1..(n - 1) : a[i] = keys[i]
          /\ \A i \in 1..(Len(keys) - n) : b[i] = keys[n + i]
      BY <2>2, <2>3
    <3>. HIDE DEF a, b
    <3>1. /\ a \o b \in Seq(MapKeys) /\ Len(a \o b) = Len(keys) - 1
          /\ \A i \in 1..(n - 1) : (a \o b)[i] = keys[i]
          /\ \A i \in (n + 1)..Len(keys) : (a \o b)[i - 1] = keys[i]
      <4>1. /\ a \o b \in Seq(MapKeys) /\ Len(a \o b) = Len(a) + Len(b)
            /\ \A i \in 1..Len(a) : (a \o b)[i] = a[i]
            /\ \A i \in (Len(a) + 1)..(Len(a) + Len(b)) : (a \o b)[i] = b[i - Len(a)]
        BY <3>0
      <4>2. Len(a \o b) = Len(keys) - 1 /\ \A i \in 1..(n - 1) : (a \o b)[i] = keys[i]
        BY <4>1, <3>0, <2>1
      <4>3. ASSUME NEW i \in (n + 1)..Len(keys) PROVE (a \o b)[i - 1] = keys[i]
        <5>1. i - 1 \in (Len(a) + 1)..(Len(a) + Len(b)) /\ i - n \in 1..(Len(keys) - n)
          BY <3>0, <2>1
        <5>2. (a \o b)[i - 1] = b[i - n] /\ b[i - n] = keys[i]
          BY <5>1, <4>1, <3>0, <2>1
        <5>. QED BY <5>2
      <4>. QED BY <4>1, <4>2, <4>3
    <3>. QED BY <3>1 DEF a, b
  <2>. HIDE DEF rest
  <2>5. new = Append(rest, k)
    BY <1>3
  <2>6. /\ new \in Seq(MapKeys) /\ Len(new) = Len(keys) /\ new[Len(keys)] = k
        /\ \A i \in 1..(n - 1) : new[i] = keys[i]
        /\ \A i \in (n + 1)..Len(keys) : new[i - 1] = keys[i]
    BY <2>1, <2>4, <2>5
  <2>. HIDE DEF new
  <2>7. ASSUME NEW i \in 1..Len(keys) PROVE \E j \in 1..Len(new) : new[j] = keys[i]
    <3>1. CASE i < n BY <3>1, <2>1, <2>6
    <3>2. CASE i = n BY <3>2, <2>1, <2>6
    <3>3. CASE i > n
      <4>1. i - 1 \in 1..Len(new) /\ new[i - 1] = keys[i]
        BY <3>3, <2>1, <2>6
      <4>. QED BY <4>1
    <3>. QED BY <2>1, <3>1, <3>2, <3>3
  <2>8. \E j \in 1..Len(new) : new[j] = k
    BY <2>1, <2>6
  <2>9. KeysOf(keys, Len(keys)) \cup {k.current} \subseteq KeysOf(new, Len(new))
    BY <2>7, <2>8 DEF KeysOf
  <2>. QED BY <1>1, <2>6, <2>9
<1>. QED BY <1>2, <1>3

\* A set of numbers has a least one.
LEMMA LeastOf ==
  ASSUME NEW N, N \subseteq Nat, N # {}
  PROVE  \E n \in N : \A k \in N : n <= k
<1> DEFINE T == {1..n : n \in N}  S == FiniteSubsetsOf(Nat)
<1>1. IsWellFoundedOn(StrictSubsetOrdering(Nat), S)
  BY FS_StrictSubsetOrderingWellFounded
<1>2. T \subseteq S
  <2> SUFFICES ASSUME NEW n \in N PROVE 1..n \in S
    OBVIOUS
  <2>1. IsFiniteSet(1..n)
    BY FS_Interval
  <2>2. 1..n \subseteq Nat
    OBVIOUS
  <2> QED BY <2>1, <2>2 DEF FiniteSubsetsOf
<1>3. T # {}
  OBVIOUS
<1>4. PICK x \in T : \A y \in T : ~(<<y, x>> \in StrictSubsetOrdering(Nat))
  <2> HIDE DEF T, S
  <2> QED BY <1>1, <1>2, <1>3, WFMin
<1>5. PICK n \in N : x = 1..n
  OBVIOUS
<1>6. ASSUME NEW k \in N, k < n PROVE FALSE
  <2>1. 1..k \in T
    OBVIOUS
  <2>2. 1..k \subseteq 1..n /\ n \in 1..n /\ n \notin 1..k /\ 1..k \subseteq Nat /\ 1..n \subseteq Nat
    BY <1>6
  <2>3. 1..k # 1..n
    BY <2>2
  <2>4. <<1..k, 1..n>> \in StrictSubsetOrdering(Nat)
    <3> DEFINE a == 1..k  b == 1..n
    <3>1. a \subseteq b /\ a # b /\ a \subseteq Nat /\ b \subseteq Nat
      BY <2>2, <2>3
    <3> HIDE DEF a, b
    <3>2. <<a, b>> \in StrictSubsetOrdering(Nat)
      BY <3>1 DEF StrictSubsetOrdering
    <3> QED BY <3>2 DEF a, b
  <2> QED BY <2>1, <2>4, <1>4, <1>5
<1>7. \A k \in N : n <= k
  BY <1>6
<1> QED BY <1>7

\* The loop that evicts ends with no key left or with the map within its capacity.
LEMMA EvictionsRight ==
  ASSUME NEW m, NEW keys \in Seq(MapKeys)
  PROVE  LET n == Evictions(m, keys) IN
         /\ n \in 0..Len(keys)
         /\ n = Len(keys) \/ Cardinality(DOMAIN m \ KeysOf(keys, n)) <= Capacity
<1>. DEFINE enough == {n \in 0..Len(keys) :
                         n = Len(keys) \/ Cardinality(DOMAIN m \ KeysOf(keys, n)) <= Capacity}
<1>1. Len(keys) \in enough /\ enough \in SUBSET Nat
  OBVIOUS
<1>2. Evictions(m, keys) = CHOOSE n \in enough : \A i \in enough : n <= i
  BY DEF Evictions
<1>3. Evictions(m, keys) \in enough
  <2>. HIDE DEF enough
  <2>1. \E n \in enough : \A i \in enough : n <= i
    BY <1>1, LeastOf
  <2>. QED BY <2>1, <1>2
<1>. QED BY <1>3

\* What is evicted: the keys that an access brought there are known afterwards, and
\* no more than the capacity.
LEMMA EvictedRight ==
  ASSUME CacheAssumption, NEW m, NEW keys \in Seq(MapKeys), NEW U, IsFiniteSet(DOMAIN m),
         DOMAIN m \ U \subseteq KeysOf(keys, Len(keys))
  PROVE  LET e == Evicted(m, keys) IN
         /\ e.keys \in Seq(MapKeys) /\ IsFiniteSet(DOMAIN e.map) /\ DOMAIN e.map \subseteq DOMAIN m
         /\ \A j \in DOMAIN e.map : e.map[j] = m[j]
         /\ DOMAIN e.map \ U \subseteq KeysOf(e.keys, Len(e.keys))
         /\ Cardinality(DOMAIN e.map \ U) <= Capacity
<1>. DEFINE n == Evictions(m, keys)
            e == Evicted(m, keys)
<1>1. /\ n \in 0..Len(keys) /\ Len(keys) \in Nat
      /\ n = Len(keys) \/ Cardinality(DOMAIN m \ KeysOf(keys, n)) <= Capacity
  BY EvictionsRight
<1>2. e.map = Without(m, KeysOf(keys, n)) /\ e.keys = SubSeq(keys, n + 1, Len(keys))
  BY DEF Evicted
<1>. HIDE DEF n, e
<1>3. /\ e.keys \in Seq(MapKeys) /\ Len(e.keys) = Len(keys) - n
      /\ \A i \in 1..(Len(keys) - n) : e.keys[i] = keys[n + i]
  BY <1>1, <1>2
<1>4. DOMAIN e.map = DOMAIN m \ KeysOf(keys, n) /\ \A j \in DOMAIN e.map : e.map[j] = m[j]
  BY <1>2 DEF Without
<1>5. IsFiniteSet(DOMAIN e.map)
  BY <1>4, FS_Subset
<1>6. ASSUME NEW j \in DOMAIN e.map \ U PROVE j \in KeysOf(e.keys, Len(e.keys))
  <2>1. PICK i \in 1..Len(keys) : j = keys[i].current
    BY <1>4 DEF KeysOf
  <2>2. i > n
    BY <2>1, <1>1, <1>4 DEF KeysOf
  <2>3. i - n \in 1..Len(e.keys) /\ e.keys[i - n] = keys[i]
    BY <2>1, <2>2, <1>1, <1>3
  <2>. QED BY <2>1, <2>3 DEF KeysOf
<1>7. Cardinality(DOMAIN e.map \ U) <= Capacity
  <2>1. CASE n = Len(keys)
    <3>1. DOMAIN e.map \ U = {}
      BY <2>1, <1>4
    <3>2. Capacity \in Nat /\ Cardinality(DOMAIN e.map \ U) = 0
      BY <3>1, FS_EmptySet DEF CacheAssumption
    <3>. QED BY <3>2
  <2>2. CASE Cardinality(DOMAIN e.map) <= Capacity
    <3>1. /\ Cardinality(DOMAIN e.map \ U) \in Nat /\ Cardinality(DOMAIN e.map) \in Nat
          /\ Cardinality(DOMAIN e.map \ U) <= Cardinality(DOMAIN e.map)
      BY <1>5, FS_Subset, FS_CardinalityType
    <3>. QED BY <2>2, <3>1 DEF CacheAssumption
  <2>. QED BY <1>1, <1>4, <2>1, <2>2
<1>. QED BY <1>3, <1>4, <1>5, <1>6, <1>7 DEF e

----------------------------------------------------------------------------
(* The map.                                                                *)

\* The map changes at the key k at most, to x: what else it has was there, and the
\* lookups that lose their place, but own, are known.
Changes(k, x, own) ==
  /\ \A j \in DOMAIN map' : (j = k /\ map'[j] = x) \/ (j \in DOMAIN map /\ map'[j] = map[j])
  /\ displaced \subseteq displaced'
  /\ InMap(map) \ (InMap(map') \cup {0, own}) \subseteq displaced'

\* What comes is of no lookup that there was.
Anew(x) ==
  /\ x \in MapValues /\ (x.lookup = 0 <=> x.tag = "Complete")
  /\ x.lookup \notin 1..made /\ x.lookup \in 0..made' /\ x.value \in 0..made'

LEMMA PutChanges ==
  ASSUME NEW k, NEW x, NEW new, NEW own, BecomesOf(Put(map, k, x), new, own)
  PROVE  Changes(k, x, own) /\ DOMAIN map' = DOMAIN map \cup {k} /\ map'[k] = x
BY DEF BecomesOf, Put, Changes

LEMMA DropChanges ==
  ASSUME NEW k, NEW x, NEW ks, NEW own, BecomesOf(Without(map, ks), {}, own)
  PROVE  /\ Changes(k, x, own) /\ DOMAIN map' = DOMAIN map \ ks
         /\ \A j \in DOMAIN map' : map'[j] = map[j] /\ j \notin ks
         /\ untracked' = untracked \cap DOMAIN map'
BY DEF BecomesOf, Without, Changes

LEMMA TableKept ==
  ASSUME TypeOK, TableRight, NEW k \in Key, NEW x, NEW own, Changes(k, x, own), Anew(x),
         x.key.current = k, made' \in made..MaxValues, MaxValues \in Nat
  PROVE  /\ TableRight' /\ DOMAIN map' \subseteq Key
         /\ \A j \in DOMAIN map' : map'[j] \in MapValues /\ map'[j].key.current = j
<1>1. /\ \A j \in DOMAIN map' : (j = k /\ map'[j] = x) \/ (j \in DOMAIN map /\ map'[j] = map[j])
      /\ made \in Nat /\ made' \in Nat /\ made <= made'
  BY DEF Changes, TypeOK
<1>2. \A j \in DOMAIN map' : map'[j].lookup \in 0..made' /\ map'[j].value \in 0..made'
  <2>1. \A v \in 0..made : v \in 0..made'
    BY <1>1
  <2>. QED BY <1>1, <2>1 DEF TableRight, Anew
<1>3. \A j \in DOMAIN map' : map'[j].lookup = 0 <=> map'[j].tag = "Complete"
  BY <1>1 DEF TableRight, Anew
<1>4. ASSUME NEW i \in DOMAIN map', NEW j \in DOMAIN map', map'[i].lookup = map'[j].lookup,
             map'[i].lookup # 0
      PROVE  i = j
  BY <1>1, <1>4 DEF TableRight, Anew
<1>5. DOMAIN map' \subseteq Key /\ \A j \in DOMAIN map' : map'[j] \in MapValues /\ map'[j].key.current = j
  BY <1>1 DEF TypeOK, Anew
<1>. QED BY <1>2, <1>3, <1>4, <1>5 DEF TableRight

\* A fiber that has promised a lookup and does not move is where it was.
Placed(g) ==
  /\ \A j \in DOMAIN map : map[j].lookup = mine[g] => j = key[g] /\ pc[g] # "store"
  /\ LooksUp(g) => mine[g] \in displaced \/ (Has(key[g]) /\ map[key[g]].lookup = mine[g])

LEMMA PlacesKept ==
  ASSUME TypeOK, NEW k, NEW x, NEW own, Changes(k, x, own), x.lookup \notin 1..made,
         NEW g \in Fiber, Placed(g), mine[g] # 0, mine[g] # own,
         pc'[g] = pc[g], key'[g] = key[g], mine'[g] = mine[g]
  PROVE  Placed(g)'
<1>1. mine[g] \in 1..made
  BY DEF TypeOK
<1>2. \A j \in DOMAIN map' : map'[j].lookup = mine[g] => j \in DOMAIN map /\ map'[j] = map[j]
  BY <1>1 DEF Changes
<1>3. \A j \in DOMAIN map' : map'[j].lookup = mine[g] => j = key[g] /\ pc[g] # "store"
  BY <1>2 DEF Placed
<1>4. ASSUME LooksUp(g), mine[g] \notin displaced'
      PROVE  key[g] \in DOMAIN map' /\ map'[key[g]].lookup = mine[g]
  <2>1. mine[g] \in InMap(map)
    BY <1>4 DEF Placed, Changes, Has, InMap
  <2>2. mine[g] \in InMap(map')
    BY <2>1, <1>4 DEF Changes
  <2>. QED BY <2>2, <1>3 DEF InMap
<1>. QED BY <1>3, <1>4 DEF Placed, LooksUp, Has

\* The lookups keep their places, but for that of a fiber that moves.
LEMMA LookupsKept ==
  ASSUME TypeOK, LookupsPlaced, NEW f \in Fiber, NEW k, NEW x, NEW own, Changes(k, x, own),
         x.lookup \notin 1..made, own = 0 \/ (own = mine[f] /\ Active(f)),
         \A g \in Fiber : g # f => pc'[g] = pc[g] /\ key'[g] = key[g] /\ mine'[g] = mine[g],
         Active(f)' => /\ mine'[f] # 0 /\ Placed(f)'
                       /\ (Active(f) /\ mine'[f] = mine[f]) \/ mine'[f] \notin 1..made
  PROVE  LookupsPlaced'
<1>1. ASSUME NEW g \in Fiber, g # f, Active(g)' PROVE mine'[g] # 0 /\ Placed(g)' /\ Active(g)
  <2>1. Active(g) /\ mine[g] # 0 /\ mine[g] # own /\ Placed(g)
    BY <1>1 DEF Active, LookupsPlaced, Placed
  <2>. QED BY <1>1, <2>1, PlacesKept
<1>2. ASSUME NEW g \in Fiber, NEW h \in Fiber, Active(g)', Active(h)', mine'[g] = mine'[h] PROVE g = h
  <2>1. CASE g # f /\ h # f
    BY <1>1, <1>2, <2>1 DEF LookupsPlaced
  <2>2. CASE g = f /\ h # f
    BY <1>1, <1>2, <2>2 DEF LookupsPlaced, TypeOK
  <2>3. CASE g # f /\ h = f
    BY <1>1, <1>2, <2>3 DEF LookupsPlaced, TypeOK
  <2>. QED BY <2>1, <2>2, <2>3
<1>3. \A g \in Fiber : Active(g)' => mine'[g] # 0 /\ Placed(g)'
  BY <1>1
<1>. QED BY <1>2, <1>3 DEF LookupsPlaced, Placed

\* The values in the map stay what they are.
LEMMA ValuesKept ==
  ASSUME TypeOK, StoredApart, GoneApart, NEW k \in Key, NEW x, NEW own, Changes(k, x, own),
         x.lookup \notin 1..made, x.value # 0 => x.value \in stored[k], x.value \notin gone,
         stored' = stored, gone' = gone
  PROVE  /\ \A j \in DOMAIN map' :
              /\ map'[j].value # 0 => map'[j].value \in stored'[j]
              /\ \A i \in Key : map'[j].lookup \notin stored'[i]
         /\ \A j \in DOMAIN map' : map'[j].value \notin gone'
<1>1. \A j \in DOMAIN map' : (j = k /\ map'[j] = x) \/ (j \in DOMAIN map /\ map'[j] = map[j])
  BY DEF Changes
<1>2. \A i \in Key : x.lookup \notin stored[i]
  BY DEF TypeOK
<1>. QED BY <1>1, <1>2 DEF StoredApart, GoneApart

\* An access is tracked.
LEMMA TrackRight ==
  ASSUME CacheAssumption, TypeOK, AccessesTracked, NEW m, NEW k \in MapKeys, TrackAccess(m, k),
         DOMAIN m \subseteq DOMAIN map \cup {k.current}
  PROVE  /\ keySet' \in Seq(MapKeys) /\ untracked' \subseteq DOMAIN map' /\ AccessesTracked'
         /\ DOMAIN map' \subseteq DOMAIN m /\ \A j \in DOMAIN map' : map'[j] = m[j]
         /\ displaced' = displaced \cup ((InMap(m) \ InMap(map')) \ {0})
<1>. DEFINE keys == Added(keySet, k)
            e == Evicted(m, keys)
<1>1. map' = e.map /\ keySet' = e.keys /\ untracked' = untracked \cap DOMAIN map'
      /\ displaced' = displaced \cup ((InMap(m) \ InMap(map')) \ {0})
  BY DEF TrackAccess
<1>2. keys \in Seq(MapKeys) /\ KeysOf(keySet, Len(keySet)) \cup {k.current} \subseteq KeysOf(keys, Len(keys))
  BY AddedRight DEF TypeOK
<1>3. IsFiniteSet(DOMAIN m)
  <2>1. IsFiniteSet(DOMAIN map \cup {k.current})
    BY FS_AddElement DEF AccessesTracked
  <2>. QED BY <2>1, FS_Subset
<1>. HIDE DEF keys
<1>4. DOMAIN m \ untracked \subseteq KeysOf(keys, Len(keys))
  BY <1>2 DEF AccessesTracked
<1>5. /\ e.keys \in Seq(MapKeys) /\ IsFiniteSet(DOMAIN e.map) /\ DOMAIN e.map \subseteq DOMAIN m
      /\ \A j \in DOMAIN e.map : e.map[j] = m[j]
      /\ DOMAIN e.map \ untracked \subseteq KeysOf(e.keys, Len(e.keys))
      /\ Cardinality(DOMAIN e.map \ untracked) <= Capacity
  BY <1>2, <1>3, <1>4, EvictedRight
<1>. HIDE DEF e
<1>6. DOMAIN map' \ untracked' = DOMAIN e.map \ untracked
  BY <1>1
<1>7. AccessesTracked'
  BY <1>1, <1>5, <1>6 DEF AccessesTracked
<1>. QED BY <1>1, <1>5, <1>7

\* An access of what is there changes the map nowhere.
LEMMA TrackChanges ==
  ASSUME NEW k, NEW x, DOMAIN map' \subseteq DOMAIN map, \A j \in DOMAIN map' : map'[j] = map[j],
         displaced' = displaced \cup ((InMap(map) \ InMap(map')) \ {0})
  PROVE  Changes(k, x, 0)
BY DEF Changes

\* What leaves the map, or comes there without an access, leaves the rest tracked.
LEMMA StaysTracked ==
  ASSUME TypeOK, AccessesTracked, NEW k, keySet' = keySet, DOMAIN map' \subseteq DOMAIN map \cup {k},
         untracked \cap DOMAIN map' \subseteq untracked', untracked' \subseteq DOMAIN map',
         k \in DOMAIN map' \ DOMAIN map => k \in untracked', CacheAssumption
  PROVE  AccessesTracked'
<1>1. IsFiniteSet(DOMAIN map')
  <2>1. IsFiniteSet(DOMAIN map \cup {k})
    BY FS_AddElement DEF AccessesTracked
  <2>. QED BY <2>1, FS_Subset
<1>2. DOMAIN map' \ untracked' \subseteq DOMAIN map \ untracked
  OBVIOUS
<1>3. Cardinality(DOMAIN map' \ untracked') <= Cardinality(DOMAIN map \ untracked)
      /\ Cardinality(DOMAIN map' \ untracked') \in Nat /\ Cardinality(DOMAIN map \ untracked) \in Nat
  <2>1. IsFiniteSet(DOMAIN map \ untracked) /\ IsFiniteSet(DOMAIN map' \ untracked')
    BY <1>1, FS_Subset DEF AccessesTracked
  <2>. QED BY <2>1, <1>2, FS_Subset, FS_CardinalityType
<1>4. Cardinality(DOMAIN map' \ untracked') <= Capacity
  BY <1>3 DEF AccessesTracked, CacheAssumption
<1>. QED BY <1>1, <1>2, <1>4 DEF AccessesTracked

----------------------------------------------------------------------------
(* The steps, by what they do: first those that several operations share.  *)

\* A fiber asks for the key k, from now on or as before.
Asks(f, k) ==
  /\ key' = [key EXCEPT ![f] = k]
  /\ \/ forbidden' = [forbidden EXCEPT ![f] = gone] /\ result' = [result EXCEPT ![f] = 0]
     \/ forbidden' = forbidden /\ result' = result

LEMMA AsksRight ==
  ASSUME TypeOK, GoneApart, NEW f \in Fiber, NEW k \in Key, Asks(f, k)
  PROVE  /\ key' \in [Fiber -> Key \cup {0}] /\ key'[f] = k
         /\ forbidden' \in [Fiber -> SUBSET (1..made)] /\ result' \in [Fiber -> 0..made]
         /\ \A g \in Fiber : /\ forbidden'[g] \subseteq gone /\ result'[g] \notin forbidden'[g]
                             /\ g # f => key'[g] = key[g] /\ forbidden'[g] = forbidden[g]
<1>1. gone \subseteq 1..made /\ made \in Nat
  BY DEF TypeOK
<1>2. key' \in [Fiber -> Key \cup {0}] /\ key'[f] = k /\ \A g \in Fiber : g # f => key'[g] = key[g]
  BY DEF Asks, TypeOK
<1>3. CASE forbidden' = [forbidden EXCEPT ![f] = gone] /\ result' = [result EXCEPT ![f] = 0]
  <2>1. forbidden' \in [Fiber -> SUBSET (1..made)] /\ result' \in [Fiber -> 0..made]
    BY <1>1, <1>3 DEF TypeOK
  <2>2. ASSUME NEW g \in Fiber
        PROVE  /\ forbidden'[g] \subseteq gone /\ result'[g] \notin forbidden'[g]
               /\ g # f => forbidden'[g] = forbidden[g]
    BY <1>1, <1>3 DEF TypeOK, GoneApart
  <2>. QED BY <1>2, <2>1, <2>2
<1>4. CASE forbidden' = forbidden /\ result' = result
  BY <1>2, <1>4 DEF TypeOK, GoneApart
<1>. QED BY <1>3, <1>4 DEF Asks

\* What there was leaves the map, and nothing comes.
Shrinks ==
  /\ DOMAIN map' \subseteq DOMAIN map /\ \A j \in DOMAIN map' : map'[j] = map[j]
  /\ displaced' = displaced \cup ((InMap(map) \ InMap(map')) \ {0})
  /\ keySet' \in Seq(MapKeys) /\ untracked' \subseteq DOMAIN map' /\ AccessesTracked'

LEMMA NothingComes ==
  ASSUME CacheAssumption, TypeOK, NEW k \in Key
  PROVE  Complete(k, 0) \in MapValues /\ Complete(k, 0).key.current = k
         /\ (made' = made => Anew(Complete(k, 0)))
BY DEF CacheAssumption, TypeOK, Anew, Complete, MapKey, MapValues, MapKeys

LEMMA ShrinksRight ==
  ASSUME CacheAssumption, TypeOK, TableRight, StoredApart, GoneApart, NEW k \in Key, Shrinks,
         UNCHANGED <<made, stored, gone>>
  PROVE  /\ TableRight' /\ DOMAIN map' \subseteq Key
         /\ \A j \in DOMAIN map' : map'[j] \in MapValues /\ map'[j].key.current = j
         /\ \A j \in DOMAIN map' : /\ map'[j].value # 0 => map'[j].value \in stored'[j]
                                   /\ \A i \in Key : map'[j].lookup \notin stored'[i]
         /\ \A j \in DOMAIN map' : map'[j].value \notin gone'
         /\ Changes(k, Complete(k, 0), 0)
<1>1. Changes(k, Complete(k, 0), 0)
  BY TrackChanges DEF Shrinks
<1>2. Anew(Complete(k, 0)) /\ Complete(k, 0).key.current = k
  BY NothingComes
<1>3. made' \in made..MaxValues /\ MaxValues \in Nat
  BY DEF TypeOK, CacheAssumption
<1>4. TableRight' /\ DOMAIN map' \subseteq Key
      /\ \A j \in DOMAIN map' : map'[j] \in MapValues /\ map'[j].key.current = j
  BY <1>1, <1>2, <1>3, TableKept
<1>5. Complete(k, 0).lookup = 0 /\ Complete(k, 0).value = 0 /\ 0 \notin gone
  BY DEF Complete, TypeOK
<1>6. /\ \A j \in DOMAIN map' : /\ map'[j].value # 0 => map'[j].value \in stored'[j]
                                /\ \A i \in Key : map'[j].lookup \notin stored'[i]
      /\ \A j \in DOMAIN map' : map'[j].value \notin gone'
  BY <1>1, <1>2, <1>5, ValuesKept DEF Anew
<1>. QED BY <1>1, <1>4, <1>6

\* What a fiber finds in the map.
LEMMA FindKeeps ==
  ASSUME CacheAssumption, Inv, NEW f \in Fiber, NEW k \in Key, NEW to, k \in DOMAIN map, Asks(f, k),
         pc[f] \in {"idle", "again"}, to \in {"resolve", "resolveComplete", "await", "when"},
         to = "await" => map[k].tag # "Complete",
         pc' = [pc EXCEPT ![f] = to], seen' = [seen EXCEPT ![f] = map[k]], fuel' \in [Fiber -> Nat],
         UNCHANGED <<map, keySet, deferred, made, expired, mine, signals, stored, gone, displaced,
                     untracked, orphans>>
  PROVE  Inv'
<1>1. /\ key' \in [Fiber -> Key \cup {0}] /\ key'[f] = k
      /\ forbidden' \in [Fiber -> SUBSET (1..made)] /\ result' \in [Fiber -> 0..made]
      /\ \A g \in Fiber : /\ forbidden'[g] \subseteq gone /\ result'[g] \notin forbidden'[g]
                          /\ g # f => key'[g] = key[g] /\ forbidden'[g] = forbidden[g]
  BY AsksRight DEF Inv
<1>2. /\ map[k] \in MapValues /\ map[k].lookup \in 0..made /\ map[k].value \in 0..made
      /\ map[k].value \notin gone /\ (map[k].lookup = 0 <=> map[k].tag = "Complete")
  BY DEF Inv, TypeOK, TableRight, GoneApart
<1>3. map[k].lookup \notin gone
  BY DEF Inv, StoredApart, GoneApart
<1>4. TypeOK'
  BY <1>1, <1>2 DEF Inv, TypeOK
<1>5. \A g \in Fiber : g # f => pc'[g] = pc[g] /\ seen'[g] = seen[g]
  BY DEF Inv, TypeOK
<1>6. pc'[f] = to /\ seen'[f] = map[k]
  BY DEF Inv, TypeOK
<1>7. TableRight' /\ AccessesTracked'
  BY DEF Inv, TableRight, AccessesTracked
<1>8. LookupsPlaced'
  BY <1>1, <1>5, <1>6 DEF Inv, LookupsPlaced, Active, LooksUp, Has
<1>9. StoredApart'
  BY <1>5, <1>6 DEF Inv, StoredApart, LooksUp
<1>10. GoneApart'
  <2>1. ASSUME NEW g \in Fiber
        PROVE  /\ pc'[g] # "idle" => key'[g] \in Key
               /\ Active(g)' => mine'[g] \notin forbidden'[g]
               /\ Looking(g)' => /\ seen'[g].lookup \in 0..made' \ forbidden'[g]
                                 /\ seen'[g].value \in 0..made' \ forbidden'[g]
                                 /\ seen'[g].lookup = 0 <=> seen'[g].tag = "Complete"
               /\ pc'[g] = "await" => seen'[g].lookup # 0
    <3>1. CASE g = f
      BY <3>1, <1>1, <1>2, <1>3, <1>6 DEF Active, Looking
    <3>2. CASE g # f
      BY <3>2, <1>1, <1>5 DEF Inv, GoneApart, Active, Looking
    <3>. QED BY <3>1, <3>2
  <2>. QED BY <2>1, <1>1 DEF Inv, GoneApart
<1>11. PromisesKept'
  BY <1>5 DEF Inv, PromisesKept
<1>. QED BY <1>4, <1>7, <1>8, <1>9, <1>10, <1>11 DEF Inv

\* A fiber promises a lookup, and x is what the map has for its key.
LEMMA PromiseKeeps ==
  ASSUME CacheAssumption, Inv, NEW f \in Fiber, NEW k \in Key, NEW x, Asks(f, k),
         pc[f] \in {"idle", "again", "when"}, pc' = [pc EXCEPT ![f] = "begin"], NewLookup(f),
         Changes(k, x, 0), Anew(x), x.key.current = k, x.lookup = made + 1,
         x.value # 0 => x.value \in stored[k], x.value \notin gone,
         made + 1 \in displaced' \/ (k \in DOMAIN map' /\ map'[k] = x),
         keySet' \in Seq(MapKeys), untracked' \subseteq DOMAIN map', AccessesTracked',
         fuel' \in [Fiber -> Nat], seen' = seen,
         UNCHANGED <<expired, signals, stored, gone, orphans>>
  PROVE  Inv'
<1>1. /\ key' \in [Fiber -> Key \cup {0}] /\ key'[f] = k
      /\ forbidden' \in [Fiber -> SUBSET (1..made)] /\ result' \in [Fiber -> 0..made]
      /\ \A g \in Fiber : /\ forbidden'[g] \subseteq gone /\ result'[g] \notin forbidden'[g]
                          /\ g # f => key'[g] = key[g] /\ forbidden'[g] = forbidden[g]
  BY AsksRight DEF Inv
<1>2. /\ made \in Nat /\ made' = made + 1 /\ made' \in made..MaxValues /\ made + 1 \in Value
      /\ mine' = [mine EXCEPT ![f] = made + 1] /\ deferred' = [deferred EXCEPT ![made + 1] = "pending"]
      /\ MaxValues \in Nat
  BY DEF NewLookup, Inv, TypeOK, CacheAssumption, Value
<1>3. /\ \A g \in Fiber : g # f => pc'[g] = pc[g] /\ mine'[g] = mine[g]
      /\ pc'[f] = "begin" /\ mine'[f] = made + 1 /\ \A g \in Fiber : mine[g] # made + 1
  BY <1>2 DEF Inv, TypeOK
<1>4. TableRight' /\ DOMAIN map' \subseteq Key
      /\ \A j \in DOMAIN map' : map'[j] \in MapValues /\ map'[j].key.current = j
  BY <1>2, TableKept DEF Inv
<1>5. TypeOK'
  <2>1. 0..made \subseteq 0..made' /\ 1..made \subseteq 1..made' /\ made' \in 0..MaxValues
        /\ made + 1 \in 0..made'
    BY <1>2
  <2>2. mine' \in [Fiber -> 0..made']
    BY <2>1, <1>2 DEF Inv, TypeOK
  <2>3. deferred' \in [Value -> {"none", "pending", "done", "interrupted"}]
    BY <1>2 DEF Inv, TypeOK
  <2>4. /\ stored' \in [Key -> SUBSET (1..made')] /\ gone' \subseteq 1..made'
        /\ forbidden' \in [Fiber -> SUBSET (1..made')] /\ result' \in [Fiber -> 0..made']
    BY <2>1, <1>1 DEF Inv, TypeOK
  <2>. QED BY <2>1, <2>2, <2>3, <2>4, <1>1, <1>4 DEF Inv, TypeOK
<1>6. /\ \A j \in DOMAIN map' : /\ map'[j].value # 0 => map'[j].value \in stored'[j]
                                /\ \A i \in Key : map'[j].lookup \notin stored'[i]
      /\ \A j \in DOMAIN map' : map'[j].value \notin gone'
  BY ValuesKept DEF Inv, Anew
<1>7. LookupsPlaced'
  <2>1. \A j \in DOMAIN map' : map'[j].lookup = made + 1 => j = k
    <3>1. \A j \in DOMAIN map : map[j].lookup # made + 1
      BY <1>2 DEF Inv, TableRight
    <3>. QED BY <3>1 DEF Changes
  <2>2. Placed(f)'
    BY <2>1, <1>1, <1>3 DEF Placed, LooksUp, Has
  <2>3. Active(f)' => /\ mine'[f] # 0 /\ Placed(f)'
                      /\ (Active(f) /\ mine'[f] = mine[f]) \/ mine'[f] \notin 1..made
    BY <2>2, <1>2, <1>3
  <2>. QED BY <2>3, <1>1, <1>3, LookupsKept DEF Inv, Anew
<1>8. StoredApart'
  <2>1. \A g \in Fiber, i \in Key : LooksUp(g)' => mine'[g] \notin stored'[i]
    BY <1>2, <1>3 DEF Inv, TypeOK, StoredApart, LooksUp
  <2>. QED BY <2>1, <1>6 DEF Inv, StoredApart
<1>9. GoneApart'
  <2>1. ASSUME NEW g \in Fiber
        PROVE  /\ pc'[g] # "idle" => key'[g] \in Key
               /\ Active(g)' => mine'[g] \notin forbidden'[g]
               /\ Looking(g)' => /\ seen'[g].lookup \in 0..made' \ forbidden'[g]
                                 /\ seen'[g].value \in 0..made' \ forbidden'[g]
                                 /\ seen'[g].lookup = 0 <=> seen'[g].tag = "Complete"
               /\ pc'[g] = "await" => seen'[g].lookup # 0
    <3>1. CASE g = f
      <4>1. made + 1 \notin forbidden'[f]
        BY <1>1, <1>2
      <4>. QED BY <3>1, <4>1, <1>1, <1>3 DEF Active, Looking
    <3>2. CASE g # f
      <4>1. 0..made \subseteq 0..made'
        BY <1>2
      <4>. QED BY <3>2, <4>1, <1>1, <1>3 DEF Inv, GoneApart, Active, Looking
    <3>. QED BY <3>1, <3>2
  <2>. QED BY <2>1, <1>1, <1>6 DEF Inv, GoneApart
<1>10. PromisesKept'
  <2>1. ASSUME NEW v \in Value, deferred'[v] = "pending"
        PROVE  v \in orphans' \/ \E g \in Fiber : mine'[g] = v /\ pc'[g] \in {"begin", "lookup", "store"}
    <3>1. CASE v = made + 1
      BY <3>1, <1>3
    <3>2. CASE v # made + 1
      <4>1. deferred[v] = "pending"
        BY <2>1, <3>2, <1>2 DEF Inv, TypeOK
      <4>2. CASE v \in orphans
        BY <4>2
      <4>3. CASE \E g \in Fiber : mine[g] = v /\ pc[g] \in {"begin", "lookup", "store"}
        BY <4>3, <1>3
      <4>. QED BY <4>1, <4>2, <4>3 DEF Inv, PromisesKept
    <3>. QED BY <3>1, <3>2
  <2>. QED BY <2>1 DEF PromisesKept
<1>. QED BY <1>4, <1>5, <1>7, <1>8, <1>9, <1>10 DEF Inv

\* A fiber that looks up nothing does not do so after something has left the map.
LEMMA ShrinkKeeps ==
  ASSUME CacheAssumption, Inv, NEW f \in Fiber, NEW k \in Key, NEW to, Shrinks,
         ~Active(f), to \in {"idle", "again", "await"}, pc' = [pc EXCEPT ![f] = to],
         to = "await" => Looking(f) /\ seen[f].tag # "Complete" /\ forbidden' = forbidden,
         to # "idle" => key'[f] \in Key, key' \in [Fiber -> Key \cup {0}],
         \A g \in Fiber : g # f => key'[g] = key[g] /\ forbidden'[g] = forbidden[g],
         forbidden' \in [Fiber -> SUBSET (1..made)], result' \in [Fiber -> 0..made],
         \A g \in Fiber : forbidden'[g] \subseteq gone /\ result'[g] \notin forbidden'[g],
         fuel' \in [Fiber -> Nat],
         UNCHANGED <<deferred, made, expired, seen, mine, signals, stored, gone, orphans>>
  PROVE  Inv'
<1>1. /\ TableRight' /\ DOMAIN map' \subseteq Key
      /\ \A j \in DOMAIN map' : map'[j] \in MapValues /\ map'[j].key.current = j
      /\ \A j \in DOMAIN map' : /\ map'[j].value # 0 => map'[j].value \in stored'[j]
                                /\ \A i \in Key : map'[j].lookup \notin stored'[i]
      /\ \A j \in DOMAIN map' : map'[j].value \notin gone'
      /\ Changes(k, Complete(k, 0), 0)
  BY ShrinksRight DEF Inv
<1>2. (\A g \in Fiber : g # f => pc'[g] = pc[g]) /\ pc'[f] = to
  BY DEF Inv, TypeOK
<1>3. TypeOK'
  BY <1>1 DEF Inv, TypeOK, Shrinks
<1>4. LookupsPlaced'
  <2>1. ~Active(f)'
    BY <1>2 DEF Active
  <2>2. Complete(k, 0).lookup \notin 1..made
    BY DEF Complete
  <2>. QED BY <2>1, <2>2, <1>1, <1>2, LookupsKept DEF Inv
<1>5. StoredApart'
  BY <1>1, <1>2 DEF Inv, StoredApart, LooksUp
<1>6. GoneApart'
  <2>1. ASSUME NEW g \in Fiber
        PROVE  /\ pc'[g] # "idle" => key'[g] \in Key
               /\ Active(g)' => mine'[g] \notin forbidden'[g]
               /\ Looking(g)' => /\ seen'[g].lookup \in 0..made' \ forbidden'[g]
                                 /\ seen'[g].value \in 0..made' \ forbidden'[g]
                                 /\ seen'[g].lookup = 0 <=> seen'[g].tag = "Complete"
               /\ pc'[g] = "await" => seen'[g].lookup # 0
    <3>1. CASE g = f
      BY <3>1, <1>2 DEF Inv, GoneApart, Active, Looking
    <3>2. CASE g # f
      BY <3>2, <1>2 DEF Inv, GoneApart, Active, Looking
    <3>. QED BY <3>1, <3>2
  <2>. QED BY <2>1, <1>1 DEF Inv, GoneApart
<1>7. PromisesKept'
  BY <1>2 DEF Inv, PromisesKept, Active
<1>. QED BY <1>1, <1>3, <1>4, <1>5, <1>6, <1>7 DEF Inv, Shrinks

----------------------------------------------------------------------------
(* The operations.                                                         *)

\* An operation begins.
LEMMA IdleAsks ==
  ASSUME CacheAssumption, TypeOK, NEW f \in Fiber, NEW k, NEW op, Idle(f, op, k)
  PROVE  pc[f] = "idle" /\ Asks(f, k) /\ fuel' \in [Fiber -> Nat] /\ key'[f] = k
BY DEF Idle, Asks, TypeOK

\* The lookup that is promised when the access is tracked.
LEMMA PromiseChanges ==
  ASSUME CacheAssumption, Inv, NEW f \in Fiber, NEW k \in Key, ~Has(k), key'[f] = k, Promise(f, map)
  PROVE  /\ NewLookup(f) /\ keySet' \in Seq(MapKeys) /\ untracked' \subseteq DOMAIN map' /\ AccessesTracked'
         /\ Changes(k, Pending(k, made + 1), 0) /\ Anew(Pending(k, made + 1))
         /\ made + 1 \in displaced' \/ (k \in DOMAIN map' /\ map'[k] = Pending(k, made + 1))
<1>. DEFINE x == Pending(k, made + 1)
            m == Put(map, k, x)
<1>1. NewLookup(f) /\ TrackAccess(m, MapKey(k, made + 1, FALSE))
  BY DEF Promise
<1>2. made \in Nat /\ made' = made + 1 /\ made' \in 0..MaxValues /\ MaxValues \in Nat
  BY <1>1 DEF NewLookup, Inv, TypeOK, CacheAssumption
<1>3. /\ MapKey(k, made + 1, FALSE) \in MapKeys /\ MapKey(k, made + 1, FALSE).current = k
      /\ x.lookup = made + 1 /\ Anew(x)
  BY <1>2 DEF MapKey, MapKeys, MapValues, Pending, Anew
<1>4. /\ DOMAIN m = DOMAIN map \cup {k} /\ m[k] = x /\ \A j \in DOMAIN map : m[j] = map[j]
  BY DEF Put, Has
<1>. HIDE DEF m, x
<1>5. /\ keySet' \in Seq(MapKeys) /\ untracked' \subseteq DOMAIN map' /\ AccessesTracked'
      /\ DOMAIN map' \subseteq DOMAIN m /\ \A j \in DOMAIN map' : map'[j] = m[j]
      /\ displaced' = displaced \cup ((InMap(m) \ InMap(map')) \ {0})
  BY <1>1, <1>3, <1>4, TrackRight DEF Inv
<1>6. made + 1 \in InMap(m) /\ InMap(map) \subseteq InMap(m)
  BY <1>3, <1>4 DEF InMap
<1>7. Changes(k, x, 0)
  BY <1>4, <1>5, <1>6 DEF Changes
<1>8. made + 1 \in displaced' \/ (k \in DOMAIN map' /\ map'[k] = x)
  <2>1. CASE k \in DOMAIN map'
    BY <2>1, <1>4, <1>5
  <2>2. CASE k \notin DOMAIN map'
    <3>1. \A j \in DOMAIN map' : map'[j] = map[j] /\ j \in DOMAIN map
      BY <2>2, <1>4, <1>5
    <3>2. made + 1 \notin InMap(map')
      BY <3>1, <1>2 DEF InMap, Inv, TableRight
    <3>. QED BY <3>2, <1>2, <1>5, <1>6
  <2>. QED BY <2>1, <2>2
<1>. QED BY <1>1, <1>3, <1>5, <1>7, <1>8 DEF x

LEMMA LookKeeps ==
  ASSUME CacheAssumption, Inv, NEW f \in Fiber, NEW k \in Key, Look(f, k), Asks(f, k),
         pc[f] \in {"idle", "again"}, fuel' \in [Fiber -> Nat],
         UNCHANGED <<expired, signals, stored, gone, orphans>>
  PROVE  Inv'
<1>1. CASE ~Has(k) /\ Promise(f, map) /\ Move(f, "begin") /\ seen' = seen
  <2>. DEFINE x == Pending(k, made + 1)
  <2>1. key'[f] = k
    BY DEF Asks, Inv, TypeOK
  <2>2. /\ NewLookup(f) /\ keySet' \in Seq(MapKeys) /\ untracked' \subseteq DOMAIN map' /\ AccessesTracked'
        /\ Changes(k, x, 0) /\ Anew(x)
        /\ made + 1 \in displaced' \/ (k \in DOMAIN map' /\ map'[k] = x)
    BY <1>1, <2>1, PromiseChanges
  <2>3. x.key.current = k /\ x.lookup = made + 1 /\ x.value = 0 /\ 0 \notin gone
    BY DEF Pending, MapKey, Inv, TypeOK
  <2>. HIDE DEF x
  <2>4. (x.value # 0 => x.value \in stored[k]) /\ x.value \notin gone
    BY <2>3
  <2>5. pc[f] \in {"idle", "again", "when"} /\ pc' = [pc EXCEPT ![f] = "begin"] /\ seen' = seen
    BY <1>1 DEF Move
  <2>. QED BY <2>2, <2>3, <2>4, <2>5, PromiseKeeps
<1>2. CASE Has(k) /\ Move(f, "resolve") /\ seen' = [seen EXCEPT ![f] = map[k]] /\ SameMap
           /\ UNCHANGED <<keySet, made, mine, deferred>>
  <2>1. "resolve" \in {"resolve", "resolveComplete", "await", "when"} /\ "resolve" # "await"
    OBVIOUS
  <2>. QED BY <1>2, <2>1, FindKeeps DEF Has, Move, SameMap
<1>. QED BY <1>1, <1>2 DEF Look

LEMMA GetKeeps ==
  ASSUME CacheAssumption, Inv, NEW f \in Fiber, NEW k \in Key, Get(f, k)
  PROVE  Inv'
<1>1. pc[f] = "idle" /\ Asks(f, k) /\ fuel' \in [Fiber -> Nat]
  BY IdleAsks DEF Get, Inv
<1>. QED BY <1>1, LookKeeps DEF Get

LEMMA AgainKeeps ==
  ASSUME CacheAssumption, Inv, NEW f \in Fiber, Again(f)
  PROVE  Inv'
<1>1. pc[f] = "again" /\ key[f] \in Key /\ fuel' = fuel /\ fuel \in [Fiber -> Nat]
  BY DEF Again, Inv, TypeOK, GoneApart
<1>2. Asks(f, key[f])
  BY DEF Again, Asks, Inv, TypeOK
<1>. QED BY <1>1, <1>2, LookKeeps DEF Again

\* An access of what is in the map.
LEMMA TrackShrinks ==
  ASSUME CacheAssumption, Inv, NEW k \in MapKeys, TrackAccess(map, k)
  PROVE  Shrinks
BY TrackRight DEF Inv, Shrinks

LEMMA PeekKeeps ==
  ASSUME CacheAssumption, Inv, NEW f \in Fiber, NEW k \in Key, Peek(f, k)
  PROVE  Inv'
<1>1. pc[f] = "idle" /\ Asks(f, k) /\ fuel' \in [Fiber -> Nat]
  BY IdleAsks DEF Peek, Inv
<1>2. UNCHANGED <<deferred, made, mine, expired, signals, stored, gone, orphans>>
  BY DEF Peek
<1>3. CASE ~Has(k) /\ TrackAccess(map, MapKey(k, 0, FALSE)) /\ UNCHANGED <<pc, seen>>
  <2>1. MapKey(k, 0, FALSE) \in MapKeys
    BY DEF MapKey, MapKeys, CacheAssumption
  <2>2. Shrinks
    BY <1>3, <2>1, TrackShrinks
  <2>3. /\ key' \in [Fiber -> Key \cup {0}] /\ \A g \in Fiber : g # f => key'[g] = key[g] /\ forbidden'[g] = forbidden[g]
        /\ forbidden' \in [Fiber -> SUBSET (1..made)] /\ result' \in [Fiber -> 0..made]
        /\ \A g \in Fiber : forbidden'[g] \subseteq gone /\ result'[g] \notin forbidden'[g]
    BY <1>1, AsksRight DEF Inv
  <2>4. pc' = [pc EXCEPT ![f] = "idle"] /\ ~Active(f)
    BY <1>1, <1>3 DEF Inv, TypeOK, Active
  <2>. QED BY <1>1, <1>2, <1>3, <2>2, <2>3, <2>4, ShrinkKeeps
<1>4. CASE /\ Has(k) /\ (\E to \in {"resolve", "resolveComplete"} : Move(f, to))
           /\ seen' = [seen EXCEPT ![f] = map[k]] /\ SameMap /\ UNCHANGED keySet
  <2>1. PICK to \in {"resolve", "resolveComplete"} : pc' = [pc EXCEPT ![f] = to]
    BY <1>4 DEF Move
  <2>2. to # "await"
    BY <2>1
  <2>. QED BY <1>1, <1>2, <1>4, <2>1, <2>2, FindKeeps DEF Has, SameMap
<1>. QED BY <1>3, <1>4 DEF Peek

LEMMA ResolveKeeps ==
  ASSUME CacheAssumption, Inv, NEW f \in Fiber, Resolve(f)
  PROVE  Inv'
<1>1. /\ pc[f] \in {"resolve", "resolveComplete"} /\ key[f] \in Key /\ seen[f] \in MapValues
      /\ seen[f].key \in MapKeys /\ seen[f].value \in 0..made /\ seen[f].value \notin forbidden[f]
      /\ ~Active(f) /\ Looking(f)
  BY DEF Resolve, ResolveValue, ResolveExpired, ResolvePending, Inv, TypeOK, GoneApart, Looking, Active,
         MapValues
<1>2. UNCHANGED <<deferred, made, expired, key, seen, mine, fuel, signals, stored, gone, forbidden, orphans>>
  BY DEF Resolve
<1>3. /\ key \in [Fiber -> Key \cup {0}] /\ forbidden \in [Fiber -> SUBSET (1..made)]
      /\ result \in [Fiber -> 0..made] /\ fuel \in [Fiber -> Nat]
      /\ \A g \in Fiber : forbidden[g] \subseteq gone /\ result[g] \notin forbidden[g]
  BY DEF Inv, TypeOK, GoneApart
<1>4. CASE ResolveValue(f)
  <2>1. Shrinks
    BY <1>1, <1>4, TrackShrinks DEF ResolveValue
  <2>2. pc' = [pc EXCEPT ![f] = "idle"] /\ result' = [result EXCEPT ![f] = seen[f].value]
    BY <1>4 DEF ResolveValue, Returns, Move
  <2>3. result' \in [Fiber -> 0..made] /\ \A g \in Fiber : result'[g] \notin forbidden'[g]
    BY <2>2, <1>1, <1>2, <1>3
  <2>. QED BY <2>1, <2>2, <2>3, <1>1, <1>2, <1>3, ShrinkKeeps
<1>5. CASE ResolvePending(f)
  <2>1. Shrinks
    BY <1>1, <1>5, TrackShrinks DEF ResolvePending
  <2>2. PICK to \in {"await", "idle"} : pc' = [pc EXCEPT ![f] = to]
    BY <1>5 DEF ResolvePending, Move
  <2>3. seen[f].tag # "Complete" /\ result' = result
    BY <1>5 DEF ResolvePending
  <2>. QED BY <2>1, <2>2, <2>3, <1>1, <1>2, <1>3, ShrinkKeeps
<1>6. CASE ResolveExpired(f)
  <2>. DEFINE e == Evicted(map, Added(keySet, seen[f].key))
              c == seen[f].key.current
  <2>1. Becomes(Without(e.map, {c}), {}) /\ keySet' = e.keys /\ result' = result
    BY <1>6 DEF ResolveExpired
  <2>2. PICK to \in {"again", "idle"} : pc' = [pc EXCEPT ![f] = to]
    BY <1>6 DEF ResolveExpired, Move
  <2>3. /\ Added(keySet, seen[f].key) \in Seq(MapKeys)
        /\ KeysOf(keySet, Len(keySet)) \subseteq
             KeysOf(Added(keySet, seen[f].key), Len(Added(keySet, seen[f].key)))
    BY <1>1, AddedRight DEF Inv, TypeOK
  <2>4. /\ e.keys \in Seq(MapKeys) /\ IsFiniteSet(DOMAIN e.map) /\ DOMAIN e.map \subseteq DOMAIN map
        /\ \A j \in DOMAIN e.map : e.map[j] = map[j]
        /\ DOMAIN e.map \ untracked \subseteq KeysOf(e.keys, Len(e.keys))
        /\ Cardinality(DOMAIN e.map \ untracked) <= Capacity
    <3>1. IsFiniteSet(DOMAIN map) /\ DOMAIN map \ untracked \subseteq
             KeysOf(Added(keySet, seen[f].key), Len(Added(keySet, seen[f].key)))
      BY <2>3 DEF Inv, AccessesTracked
    <3>. QED BY <2>3, <3>1, EvictedRight
  <2>. HIDE DEF e, c
  <2>5. /\ DOMAIN map' = DOMAIN e.map \ {c} /\ \A j \in DOMAIN map' : map'[j] = e.map[j]
        /\ displaced' = displaced \cup ((InMap(map) \ InMap(map')) \ {0})
        /\ untracked' = untracked \cap DOMAIN map'
    BY <2>1 DEF Becomes, BecomesOf, Without
  <2>6. AccessesTracked'
    <3>1. DOMAIN map' \ untracked' \subseteq DOMAIN e.map \ untracked
      BY <2>5
    <3>2. IsFiniteSet(DOMAIN map') /\ IsFiniteSet(DOMAIN e.map \ untracked)
      BY <2>4, <2>5, FS_Subset
    <3>3. Cardinality(DOMAIN map' \ untracked') <= Cardinality(DOMAIN e.map \ untracked)
          /\ Cardinality(DOMAIN map' \ untracked') \in Nat /\ Cardinality(DOMAIN e.map \ untracked) \in Nat
      BY <3>1, <3>2, FS_Subset, FS_CardinalityType
    <3>4. Cardinality(DOMAIN map' \ untracked') <= Capacity
      BY <3>3, <2>4 DEF CacheAssumption
    <3>. QED BY <3>1, <3>2, <3>4, <2>1, <2>4 DEF AccessesTracked
  <2>7. Shrinks
    BY <2>1, <2>4, <2>5, <2>6 DEF Shrinks
  <2>. QED BY <2>1, <2>2, <2>7, <1>1, <1>2, <1>3, ShrinkKeeps
<1>. QED BY <1>4, <1>5, <1>6 DEF Resolve

\* A fiber moves and leaves the map as it is.
LEMMA QuietKeeps ==
  ASSUME Inv, NEW f \in Fiber, NEW to, pc' = [pc EXCEPT ![f] = to],
         \/ to = "idle"
         \/ LooksUp(f) /\ to = "lookup"
         \/ pc[f] \in {"lookup", "store"} /\ to = "clean",
         PromisesKept', deferred' \in [Value -> {"none", "pending", "done", "interrupted"}],
         result' \in [Fiber -> 0..made], \A g \in Fiber : result'[g] \notin forbidden[g],
         signals' \in Nat,
         UNCHANGED <<map, keySet, made, expired, key, seen, mine, fuel, stored, gone, forbidden,
                     displaced, untracked>>
  PROVE  Inv'
<1>1. (\A g \in Fiber : g # f => pc'[g] = pc[g]) /\ pc'[f] = to
  BY DEF Inv, TypeOK
<1>2. TypeOK'
  BY DEF Inv, TypeOK, LooksUp
<1>3. TableRight' /\ AccessesTracked'
  BY DEF Inv, TableRight, AccessesTracked
<1>4. LookupsPlaced'
  BY <1>1 DEF Inv, LookupsPlaced, Active, LooksUp, Has
<1>5. StoredApart'
  BY <1>1 DEF Inv, StoredApart, LooksUp
<1>6. GoneApart'
  BY <1>1 DEF Inv, GoneApart, Active, Looking, LooksUp
<1>. QED BY <1>2, <1>3, <1>4, <1>5, <1>6 DEF Inv

LEMMA AwaitKeeps ==
  ASSUME CacheAssumption, Inv, NEW f \in Fiber, Await(f)
  PROVE  Inv'
<1>1. /\ pc[f] = "await" /\ pc' = [pc EXCEPT ![f] = "idle"]
      /\ \E v \in {0, seen[f].lookup} : result' = [result EXCEPT ![f] = v]
      /\ UNCHANGED <<map, keySet, deferred, made, expired, key, seen, mine, fuel, signals, stored,
                     gone, forbidden, displaced, untracked, orphans>>
  BY DEF Await, Returns, Move, table
<1>2. seen[f].lookup \in 0..made /\ seen[f].lookup \notin forbidden[f] /\ 0 \in 0..made /\ 0 \notin forbidden[f]
  BY <1>1 DEF Inv, TypeOK, GoneApart, Looking
<1>3. result' \in [Fiber -> 0..made] /\ \A g \in Fiber : result'[g] \notin forbidden[g]
  BY <1>1, <1>2 DEF Inv, TypeOK, GoneApart
<1>4. PromisesKept'
  BY <1>1 DEF Inv, TypeOK, PromisesKept
<1>5. deferred' \in [Value -> {"none", "pending", "done", "interrupted"}] /\ signals' \in Nat
  BY <1>1 DEF Inv, TypeOK
<1>. QED BY <1>1, <1>3, <1>4, <1>5, QuietKeeps

LEMMA BeginKeeps ==
  ASSUME CacheAssumption, Inv, NEW f \in Fiber, Begin(f)
  PROVE  Inv'
<1>1. /\ pc[f] = "begin" /\ pc' = [pc EXCEPT ![f] = "lookup"]
      /\ UNCHANGED <<map, keySet, deferred, made, expired, key, seen, mine, fuel, signals, stored,
                     gone, forbidden, result, displaced, untracked, orphans>>
  BY DEF Begin, Move, table, facts
<1>2. result' \in [Fiber -> 0..made] /\ \A g \in Fiber : result'[g] \notin forbidden[g]
  BY <1>1 DEF Inv, TypeOK, GoneApart
<1>3. PromisesKept'
  BY <1>1 DEF Inv, TypeOK, PromisesKept
<1>4. deferred' \in [Value -> {"none", "pending", "done", "interrupted"}] /\ signals' \in Nat
  BY <1>1 DEF Inv, TypeOK
<1>. QED BY <1>1, <1>2, <1>3, <1>4, QuietKeeps DEF LooksUp

\* The promise of a fiber that settles its deferred is kept, and those of the others
\* are as before.
LEMMA SettledRight ==
  ASSUME Inv, NEW f \in Fiber, NEW to, NEW how \in {"done", "interrupted"},
         pc[f] \in {"lookup", "store"}, pc' = [pc EXCEPT ![f] = to],
         deferred' = [deferred EXCEPT ![mine[f]] = how], mine' = mine, orphans' = orphans
  PROVE  PromisesKept' /\ deferred' \in [Value -> {"none", "pending", "done", "interrupted"}]
<1>1. deferred' \in [Value -> {"none", "pending", "done", "interrupted"}]
  BY DEF Inv, TypeOK
<1>2. ASSUME NEW v \in Value, deferred'[v] = "pending"
      PROVE  v \in orphans' \/ \E g \in Fiber : mine'[g] = v /\ pc'[g] \in {"begin", "lookup", "store"}
  <2>1. deferred[v] = "pending" /\ v # mine[f]
    BY <1>2 DEF Inv, TypeOK
  <2>2. \A g \in Fiber : g # f => pc'[g] = pc[g]
    BY DEF Inv, TypeOK
  <2>. QED BY <2>1, <2>2 DEF Inv, PromisesKept
<1>. QED BY <1>1, <1>2 DEF PromisesKept

LEMMA DoneKeeps ==
  ASSUME CacheAssumption, Inv, NEW f \in Fiber, Done(f)
  PROVE  Inv'
<1>1. /\ pc[f] = "store" /\ pc' = [pc EXCEPT ![f] = "idle"]
      /\ result' = [result EXCEPT ![f] = mine[f]] /\ deferred' = [deferred EXCEPT ![mine[f]] = "done"]
      /\ UNCHANGED <<map, keySet, made, expired, key, seen, mine, fuel, signals, stored,
                     gone, forbidden, displaced, untracked, orphans>>
  BY DEF Done, Returns, Move, table
<1>2. result' \in [Fiber -> 0..made] /\ \A g \in Fiber : result'[g] \notin forbidden[g]
  BY <1>1 DEF Inv, TypeOK, GoneApart, Active
<1>3. PromisesKept' /\ deferred' \in [Value -> {"none", "pending", "done", "interrupted"}]
  BY <1>1, SettledRight
<1>4. signals' \in Nat
  BY <1>1 DEF Inv, TypeOK
<1>. QED BY <1>1, <1>2, <1>3, <1>4, QuietKeeps

LEMMA InterruptKeeps ==
  ASSUME CacheAssumption, Inv, NEW f \in Fiber, Interrupt(f)
  PROVE  Inv'
<1>1. /\ signals > 0 /\ signals' = signals - 1
      /\ UNCHANGED <<map, keySet, made, expired, key, seen, mine, fuel, stored, gone, forbidden,
                     displaced, untracked>>
  BY DEF Interrupt, table
<1>2. signals' \in Nat
  BY <1>1 DEF Inv, TypeOK
<1>3. CASE /\ pc[f] \in {"lookup", "store"} /\ Move(f, "clean")
           /\ deferred' = [deferred EXCEPT ![mine[f]] = "interrupted"] /\ UNCHANGED <<orphans, result>>
  <2>1. pc' = [pc EXCEPT ![f] = "clean"]
    BY <1>3 DEF Move
  <2>2. PromisesKept' /\ deferred' \in [Value -> {"none", "pending", "done", "interrupted"}]
    BY <1>1, <1>3, <2>1, SettledRight
  <2>3. result' \in [Fiber -> 0..made] /\ \A g \in Fiber : result'[g] \notin forbidden[g]
    BY <1>3 DEF Inv, TypeOK, GoneApart
  <2>. QED BY <1>1, <1>2, <1>3, <2>1, <2>2, <2>3, QuietKeeps
<1>4. CASE /\ pc[f] \notin {"lookup", "store"} /\ Returns(f, 0) /\ UNCHANGED deferred
           /\ orphans' = IF pc[f] = "begin" THEN orphans \cup {mine[f]} ELSE orphans
  <2>1. pc' = [pc EXCEPT ![f] = "idle"] /\ result' = [result EXCEPT ![f] = 0]
    BY <1>4 DEF Returns, Move
  <2>2. result' \in [Fiber -> 0..made] /\ \A g \in Fiber : result'[g] \notin forbidden[g]
    BY <2>1 DEF Inv, TypeOK, GoneApart
  <2>3. PromisesKept'
    <3>1. \A g \in Fiber : g # f => pc'[g] = pc[g]
      BY <2>1 DEF Inv, TypeOK
    <3>. QED BY <1>1, <1>4, <3>1 DEF Inv, PromisesKept
  <2>4. deferred' \in [Value -> {"none", "pending", "done", "interrupted"}]
    BY <1>4 DEF Inv, TypeOK
  <2>. QED BY <1>1, <1>2, <2>1, <2>2, <2>3, <2>4, QuietKeeps
<1>. QED BY <1>3, <1>4 DEF Interrupt

\* What leaves the map without an access.
LEMMA DropShrinks ==
  ASSUME CacheAssumption, Inv, NEW ks, Becomes(Without(map, ks), {}), keySet' = keySet
  PROVE  Shrinks /\ DOMAIN map' = DOMAIN map \ ks
<1>1. /\ DOMAIN map' = DOMAIN map \ ks /\ \A j \in DOMAIN map' : map'[j] = map[j]
      /\ displaced' = displaced \cup ((InMap(map) \ InMap(map')) \ {0})
      /\ untracked' = untracked \cap DOMAIN map'
  BY DEF Becomes, BecomesOf, Without
<1>2. AccessesTracked'
  BY <1>1, StaysTracked DEF Inv
<1>. QED BY <1>1, <1>2 DEF Shrinks, Inv, TypeOK

\* What comes to the map without an access.
LEMMA PutTracked ==
  ASSUME CacheAssumption, Inv, NEW k, NEW x, NEW own, BecomesOf(Put(map, k, x), {k}, own), keySet' = keySet
  PROVE  keySet' \in Seq(MapKeys) /\ untracked' \subseteq DOMAIN map' /\ AccessesTracked'
<1>1. DOMAIN map' = DOMAIN map \cup {k} /\ untracked' = (untracked \cup ({k} \ DOMAIN map)) \cap DOMAIN map'
  BY DEF BecomesOf, Put
<1>2. AccessesTracked'
  BY <1>1, StaysTracked DEF Inv
<1>. QED BY <1>1, <1>2 DEF Inv, TypeOK

LEMMA RefreshKeeps ==
  ASSUME CacheAssumption, Inv, NEW f \in Fiber, NEW k \in Key, Refresh(f, k)
  PROVE  Inv'
<1>1. pc[f] = "idle" /\ Asks(f, k) /\ fuel' \in [Fiber -> Nat] /\ ~Active(f)
  BY IdleAsks DEF Refresh, Inv, Active, Idle
<1>2. UNCHANGED <<keySet, expired, signals, stored, gone, orphans>>
  BY DEF Refresh
<1>3. CASE /\ ~Has(k) /\ NewLookup(f) /\ Move(f, "begin") /\ UNCHANGED seen
           /\ Becomes(Put(map, k, Pending(k, made + 1)), {k})
  <2>. DEFINE x == Pending(k, made + 1)
  <2>1. made \in Nat /\ made' = made + 1 /\ made' \in 0..MaxValues /\ MaxValues \in Nat
    BY <1>3 DEF NewLookup, Inv, TypeOK, CacheAssumption
  <2>2. x.key.current = k /\ x.lookup = made + 1 /\ x.value = 0 /\ 0 \notin gone /\ Anew(x)
    BY <2>1 DEF Pending, MapKey, MapKeys, MapValues, Anew, Inv, TypeOK
  <2>3. BecomesOf(Put(map, k, x), {k}, 0) /\ pc' = [pc EXCEPT ![f] = "begin"]
    BY <1>3 DEF Becomes, Move
  <2>. HIDE DEF x
  <2>4. Changes(k, x, 0) /\ k \in DOMAIN map' /\ map'[k] = x
    BY <2>3, PutChanges
  <2>5. keySet' \in Seq(MapKeys) /\ untracked' \subseteq DOMAIN map' /\ AccessesTracked'
    BY <1>2, <2>3, PutTracked
  <2>6. (x.value # 0 => x.value \in stored[k]) /\ x.value \notin gone
    BY <2>2
  <2>. QED BY <1>1, <1>2, <1>3, <2>2, <2>3, <2>4, <2>5, <2>6, PromiseKeeps
<1>4. CASE /\ Becomes(Without(map, {k}), {}) /\ Move(f, "again") /\ UNCHANGED <<made, mine, deferred, seen>>
  <2>1. Shrinks
    BY <1>2, <1>4, DropShrinks
  <2>2. /\ key' \in [Fiber -> Key \cup {0}] /\ key'[f] = k
        /\ \A g \in Fiber : g # f => key'[g] = key[g] /\ forbidden'[g] = forbidden[g]
        /\ forbidden' \in [Fiber -> SUBSET (1..made)] /\ result' \in [Fiber -> 0..made]
        /\ \A g \in Fiber : forbidden'[g] \subseteq gone /\ result'[g] \notin forbidden'[g]
    BY <1>1, AsksRight DEF Inv
  <2>3. pc' = [pc EXCEPT ![f] = "again"]
    BY <1>4 DEF Move
  <2>. QED BY <1>1, <1>2, <1>4, <2>1, <2>2, <2>3, ShrinkKeeps
<1>5. CASE /\ Has(k) /\ seen' = [seen EXCEPT ![f] = map[k]] /\ SameMap /\ UNCHANGED <<made, mine, deferred>>
           /\ \/ Move(f, "when")
              \/ map[k].tag # "Complete" /\ Move(f, "await")
  <2>1. PICK to \in {"when", "await"} : pc' = [pc EXCEPT ![f] = to] /\ (to = "await" => map[k].tag # "Complete")
    BY <1>5 DEF Move
  <2>. QED BY <1>1, <1>2, <1>5, <2>1, FindKeeps DEF Has, SameMap
<1>. QED BY <1>3, <1>4, <1>5 DEF Refresh

LEMMA WhenKeeps ==
  ASSUME CacheAssumption, Inv, NEW f \in Fiber, When(f)
  PROVE  Inv'
<1>1. /\ pc[f] = "when" /\ key[f] \in Key
      /\ UNCHANGED <<keySet, expired, key, seen, fuel, signals, stored, gone, forbidden, result, orphans>>
  BY DEF When, Inv, GoneApart
<1>2. CASE /\ Has(key[f]) /\ map[key[f]] = seen[f] /\ NewLookup(f) /\ Move(f, "begin")
           /\ Becomes(Put(map, key[f], Refreshing(made + 1, seen[f])), {})
  <2>. DEFINE k == key[f]
              x == Refreshing(made + 1, seen[f])
  <2>1. made \in Nat /\ made' = made + 1 /\ made' \in 0..MaxValues /\ MaxValues \in Nat
    BY <1>2 DEF NewLookup, Inv, TypeOK, CacheAssumption
  <2>2. /\ k \in DOMAIN map /\ map[k] = seen[f] /\ map[k] \in MapValues /\ map[k].key.current = k
        /\ map[k].value \in 0..made /\ map[k].value \notin gone
        /\ map[k].value # 0 => map[k].value \in stored[k]
    BY <1>2 DEF Has, Inv, TypeOK, TableRight, StoredApart, GoneApart
  <2>3. x.key = map[k].key /\ x.lookup = made + 1 /\ x.value = map[k].value /\ x.tag = "Refreshing"
    BY <2>2 DEF Refreshing
  <2>4. Anew(x)
    <3>1. x \in MapValues
      BY <2>1, <2>2 DEF Refreshing, MapValues
    <3>. QED BY <2>1, <2>2, <2>3, <3>1 DEF Anew
  <2>5. BecomesOf(Put(map, k, x), {}, 0) /\ pc' = [pc EXCEPT ![f] = "begin"]
    BY <1>2 DEF Becomes, Move
  <2>6. Asks(f, k) /\ fuel' \in [Fiber -> Nat]
    BY <1>1 DEF Asks, Inv, TypeOK
  <2>. HIDE DEF k, x
  <2>7. Changes(k, x, 0) /\ k \in DOMAIN map' /\ map'[k] = x
    BY <2>5, PutChanges
  <2>8. DOMAIN map' = DOMAIN map /\ untracked' = untracked \cap DOMAIN map'
    BY <2>2, <2>5 DEF BecomesOf, Put
  <2>9. AccessesTracked'
    BY <1>1, <2>2, <2>8, StaysTracked DEF Inv
  <2>10. keySet' \in Seq(MapKeys) /\ untracked' \subseteq DOMAIN map'
    BY <1>1, <2>8 DEF Inv, TypeOK
  <2>11. x.key.current = k /\ (x.value # 0 => x.value \in stored[k]) /\ x.value \notin gone /\ k \in Key
    BY <2>2, <2>3, <1>1 DEF k
  <2>. QED BY <1>1, <1>2, <2>3, <2>4, <2>5, <2>6, <2>7, <2>9, <2>10, <2>11, PromiseKeeps
<1>3. CASE Move(f, "idle") /\ SameMap /\ UNCHANGED <<made, mine, deferred>>
  <2>1. pc' = [pc EXCEPT ![f] = "idle"]
    BY <1>3 DEF Move
  <2>2. result' \in [Fiber -> 0..made] /\ (\A g \in Fiber : result'[g] \notin forbidden[g])
        /\ deferred' \in [Value -> {"none", "pending", "done", "interrupted"}] /\ signals' \in Nat
    BY <1>1, <1>3 DEF Inv, TypeOK, GoneApart
  <2>3. PromisesKept'
    BY <1>1, <1>3, <2>1 DEF Inv, TypeOK, PromisesKept
  <2>. QED BY <1>1, <1>3, <2>1, <2>2, <2>3, QuietKeeps DEF SameMap
<1>. QED BY <1>2, <1>3 DEF When

\* What a step does to the fibers that it does not move, as far as GoneApart goes.
LEMMA OthersGoOn ==
  ASSUME Inv, made' \in Nat, made <= made', NEW g \in Fiber, pc'[g] = pc[g], key'[g] = key[g],
         mine'[g] = mine[g], seen'[g] = seen[g], forbidden'[g] = forbidden[g]
  PROVE  /\ pc'[g] # "idle" => key'[g] \in Key
         /\ Active(g)' => mine'[g] \notin forbidden'[g]
         /\ Looking(g)' => /\ seen'[g].lookup \in 0..made' \ forbidden'[g]
                           /\ seen'[g].value \in 0..made' \ forbidden'[g]
                           /\ seen'[g].lookup = 0 <=> seen'[g].tag = "Complete"
         /\ pc'[g] = "await" => seen'[g].lookup # 0
<1>1. 0..made \subseteq 0..made'
  BY DEF Inv, TypeOK
<1>. QED BY <1>1 DEF Inv, GoneApart, Active, Looking

LEMMA SetKeeps ==
  ASSUME CacheAssumption, Inv, NEW f \in Fiber, NEW k \in Key, Set(f, k)
  PROVE  Inv'
<1>. DEFINE x == Complete(k, made + 1)
<1>1. pc[f] = "idle" /\ Asks(f, k) /\ fuel' \in [Fiber -> Nat]
  BY IdleAsks DEF Set, Inv
<1>2. /\ made \in Nat /\ made' = made + 1 /\ made' \in 0..MaxValues /\ MaxValues \in Nat
      /\ deferred' = [deferred EXCEPT ![made + 1] = "done"] /\ made + 1 \in Value
      /\ stored' = [stored EXCEPT ![k] = @ \cup {made + 1}]
      /\ BecomesOf(Put(map, k, x), {k}, 0)
      /\ UNCHANGED <<keySet, expired, pc, seen, mine, signals, gone, orphans>>
  BY DEF Set, Becomes, Inv, TypeOK, CacheAssumption, Value
<1>3. x.key.current = k /\ x.lookup = 0 /\ x.value = made + 1 /\ Anew(x)
  BY <1>2 DEF Complete, MapKey, MapKeys, MapValues, Anew
<1>. HIDE DEF x
<1>4. Changes(k, x, 0) /\ keySet' \in Seq(MapKeys) /\ untracked' \subseteq DOMAIN map' /\ AccessesTracked'
  BY <1>2, PutChanges, PutTracked
<1>5. /\ key' \in [Fiber -> Key \cup {0}] /\ key'[f] = k
      /\ forbidden' \in [Fiber -> SUBSET (1..made)] /\ result' \in [Fiber -> 0..made]
      /\ \A g \in Fiber : /\ forbidden'[g] \subseteq gone /\ result'[g] \notin forbidden'[g]
                          /\ g # f => key'[g] = key[g] /\ forbidden'[g] = forbidden[g]
  BY <1>1, AsksRight DEF Inv
<1>6. TableRight' /\ DOMAIN map' \subseteq Key
      /\ \A j \in DOMAIN map' : map'[j] \in MapValues /\ map'[j].key.current = j
  BY <1>2, <1>3, <1>4, TableKept DEF Inv
<1>7. TypeOK'
  <2>1. 0..made \subseteq 0..made' /\ 1..made \subseteq 1..made' /\ made + 1 \in 1..made'
    BY <1>2
  <2>2. /\ mine' \in [Fiber -> 0..made'] /\ gone' \subseteq 1..made'
        /\ deferred' \in [Value -> {"none", "pending", "done", "interrupted"}]
        /\ forbidden' \in [Fiber -> SUBSET (1..made')] /\ result' \in [Fiber -> 0..made']
    BY <2>1, <1>2, <1>5 DEF Inv, TypeOK
  <2>3. stored' \in [Key -> SUBSET (1..made')]
    BY <2>1, <1>2 DEF Inv, TypeOK
  <2>. QED BY <2>2, <2>3, <1>1, <1>2, <1>4, <1>5, <1>6 DEF Inv, TypeOK
<1>8. LookupsPlaced'
  <2>1. ~Active(f)'
    BY <1>1, <1>2 DEF Active
  <2>. QED BY <2>1, <1>2, <1>3, <1>4, <1>5, LookupsKept DEF Inv, Anew
<1>9. \A i \in Key : stored'[i] = stored[i] \cup (IF i = k THEN {made + 1} ELSE {})
  BY <1>2 DEF Inv, TypeOK
<1>10. made + 1 \notin gone /\ (\A i \in Key : made + 1 \notin stored[i])
       /\ (\A g \in Fiber : mine[g] # made + 1) /\ (\A j \in DOMAIN map : map[j].lookup # made + 1)
  BY <1>2 DEF Inv, TypeOK, TableRight
<1>11. StoredApart'
  <2>1. \A i, j \in Key : i # j => stored'[i] \cap stored'[j] = {}
    BY <1>9, <1>10 DEF Inv, StoredApart
  <2>2. ASSUME NEW j \in DOMAIN map'
        PROVE  /\ map'[j].value # 0 => map'[j].value \in stored'[j]
               /\ \A i \in Key : map'[j].lookup \notin stored'[i]
    <3>1. CASE j = k /\ map'[j] = x
      <4>1. \A i \in Key : 0 \notin stored'[i]
        BY <1>7 DEF TypeOK
      <4>. QED BY <3>1, <4>1, <1>3, <1>9
    <3>2. CASE j \in DOMAIN map /\ map'[j] = map[j]
      BY <3>2, <1>6, <1>9, <1>10 DEF Inv, StoredApart
    <3>. QED BY <3>1, <3>2, <1>4 DEF Changes
  <2>3. \A g \in Fiber, i \in Key : LooksUp(g)' => mine'[g] \notin stored'[i]
    BY <1>2, <1>9, <1>10 DEF Inv, StoredApart, LooksUp
  <2>. QED BY <2>1, <2>2, <2>3 DEF StoredApart
<1>12. GoneApart'
  <2>1. \A v \in gone' : \E i \in Key : v \in stored'[i]
    BY <1>2, <1>9 DEF Inv, GoneApart
  <2>2. \A j \in DOMAIN map' : map'[j].value \notin gone'
    BY <1>2, <1>3, <1>4, <1>10 DEF Inv, GoneApart, Changes
  <2>3. ASSUME NEW g \in Fiber
        PROVE  /\ pc'[g] # "idle" => key'[g] \in Key
               /\ Active(g)' => mine'[g] \notin forbidden'[g]
               /\ Looking(g)' => /\ seen'[g].lookup \in 0..made' \ forbidden'[g]
                                 /\ seen'[g].value \in 0..made' \ forbidden'[g]
                                 /\ seen'[g].lookup = 0 <=> seen'[g].tag = "Complete"
               /\ pc'[g] = "await" => seen'[g].lookup # 0
    <3>1. CASE g = f
      BY <3>1, <1>1, <1>2 DEF Active, Looking
    <3>2. CASE g # f
      BY <3>2, <1>2, <1>5, OthersGoOn
    <3>. QED BY <3>1, <3>2
  <2>. QED BY <2>1, <2>2, <2>3, <1>2, <1>5 DEF GoneApart
<1>13. PromisesKept'
  BY <1>2 DEF Inv, TypeOK, PromisesKept
<1>. QED BY <1>4, <1>6, <1>7, <1>8, <1>11, <1>12, <1>13 DEF Inv

LEMMA StoreKeeps ==
  ASSUME CacheAssumption, Inv, NEW f \in Fiber, Store(f)
  PROVE  Inv'
<1>. DEFINE k == key[f]
            x == Complete(k, mine[f])
<1>1. /\ pc[f] = "lookup" /\ pc' = [pc EXCEPT ![f] = "store"]
      /\ BecomesOf(Put(map, k, x), {k}, mine[f]) /\ stored' = [stored EXCEPT ![k] = @ \cup {mine[f]}]
      /\ UNCHANGED <<keySet, deferred, made, expired, key, seen, mine, fuel, signals, gone, forbidden,
                     result, orphans>>
  BY DEF Store, Move
<1>2. /\ k \in Key /\ mine[f] \in 1..made /\ made \in Nat /\ MaxValues \in Nat /\ made \in 0..MaxValues
      /\ Active(f) /\ LooksUp(f)
  BY <1>1 DEF Inv, TypeOK, GoneApart, LookupsPlaced, Active, LooksUp, CacheAssumption
<1>3. x.key.current = k /\ x.lookup = 0 /\ x.value = mine[f] /\ Anew(x)
  BY <1>1, <1>2 DEF Complete, MapKey, MapKeys, MapValues, Anew
<1>. HIDE DEF x, k
<1>4. /\ Changes(k, x, mine[f]) /\ DOMAIN map' = DOMAIN map \cup {k} /\ map'[k] = x
      /\ keySet' \in Seq(MapKeys) /\ untracked' \subseteq DOMAIN map' /\ AccessesTracked'
  BY <1>1, PutChanges, PutTracked
<1>5. TableRight' /\ DOMAIN map' \subseteq Key
      /\ \A j \in DOMAIN map' : map'[j] \in MapValues /\ map'[j].key.current = j
  BY <1>1, <1>2, <1>3, <1>4, TableKept DEF Inv
<1>6. (\A g \in Fiber : g # f => pc'[g] = pc[g]) /\ pc'[f] = "store"
  BY <1>1 DEF Inv, TypeOK
<1>7. TypeOK'
  <2>1. stored' \in [Key -> SUBSET (1..made')]
    BY <1>1, <1>2 DEF Inv, TypeOK
  <2>. QED BY <2>1, <1>1, <1>4, <1>5 DEF Inv, TypeOK
<1>8. \A j \in DOMAIN map' : map'[j].lookup # mine[f]
  <2>1. \A j \in DOMAIN map : map[j].lookup = mine[f] => j = k
    BY <1>2 DEF Inv, LookupsPlaced, k
  <2>. QED BY <2>1, <1>2, <1>3, <1>4 DEF Changes
<1>9. LookupsPlaced'
  <2>1. Placed(f)'
    BY <1>1, <1>6, <1>8 DEF Placed, LooksUp
  <2>2. Active(f)' => /\ mine'[f] # 0 /\ Placed(f)'
                      /\ (Active(f) /\ mine'[f] = mine[f]) \/ mine'[f] \notin 1..made
    BY <2>1, <1>1, <1>2
  <2>. QED BY <2>2, <1>1, <1>2, <1>3, <1>4, <1>6, LookupsKept DEF Inv, Anew
<1>10. \A i \in Key : stored'[i] = stored[i] \cup (IF i = k THEN {mine[f]} ELSE {})
  BY <1>1 DEF Inv, TypeOK
<1>11. /\ \A i \in Key : mine[f] \notin stored[i]
       /\ mine[f] \notin gone
       /\ \A g \in Fiber : g # f /\ Active(g) => mine[g] # mine[f]
  BY <1>2 DEF Inv, StoredApart, GoneApart, LookupsPlaced
<1>12. StoredApart'
  <2>1. \A i, j \in Key : i # j => stored'[i] \cap stored'[j] = {}
    BY <1>10, <1>11 DEF Inv, StoredApart
  <2>2. ASSUME NEW j \in DOMAIN map'
        PROVE  /\ map'[j].value # 0 => map'[j].value \in stored'[j]
               /\ \A i \in Key : map'[j].lookup \notin stored'[i]
    <3>1. CASE j = k /\ map'[j] = x
      <4>1. \A i \in Key : 0 \notin stored'[i]
        BY <1>7 DEF TypeOK
      <4>. QED BY <3>1, <4>1, <1>3, <1>5, <1>10
    <3>2. CASE j \in DOMAIN map /\ map'[j] = map[j]
      BY <3>2, <1>5, <1>8, <1>10 DEF Inv, StoredApart
    <3>. QED BY <3>1, <3>2, <1>4 DEF Changes
  <2>3. ASSUME NEW g \in Fiber, NEW i \in Key, LooksUp(g)' PROVE mine'[g] \notin stored'[i]
    <3>1. g # f /\ LooksUp(g) /\ Active(g)
      BY <2>3, <1>6 DEF LooksUp, Active
    <3>. QED BY <3>1, <1>1, <1>10, <1>11 DEF Inv, StoredApart
  <2>. QED BY <2>1, <2>2, <2>3 DEF StoredApart
<1>13. GoneApart'
  <2>1. \A v \in gone' : \E i \in Key : v \in stored'[i]
    BY <1>1, <1>10 DEF Inv, GoneApart
  <2>2. \A j \in DOMAIN map' : map'[j].value \notin gone'
    BY <1>1, <1>3, <1>4, <1>11 DEF Inv, GoneApart, Changes
  <2>3. ASSUME NEW g \in Fiber
        PROVE  /\ pc'[g] # "idle" => key'[g] \in Key
               /\ Active(g)' => mine'[g] \notin forbidden'[g]
               /\ Looking(g)' => /\ seen'[g].lookup \in 0..made' \ forbidden'[g]
                                 /\ seen'[g].value \in 0..made' \ forbidden'[g]
                                 /\ seen'[g].lookup = 0 <=> seen'[g].tag = "Complete"
               /\ pc'[g] = "await" => seen'[g].lookup # 0
    <3>1. CASE g = f
      <4>1. mine[f] \notin forbidden[f]
        BY <1>2 DEF Inv, GoneApart
      <4>. QED BY <3>1, <4>1, <1>1, <1>2, <1>6 DEF Active, Looking, k
    <3>2. CASE g # f
      BY <3>2, <1>1, <1>2, <1>6, OthersGoOn
    <3>. QED BY <3>1, <3>2
  <2>. QED BY <2>1, <2>2, <2>3, <1>1 DEF Inv, GoneApart
<1>14. PromisesKept'
  BY <1>1, <1>6 DEF Inv, PromisesKept
<1>. QED BY <1>4, <1>5, <1>7, <1>9, <1>12, <1>13, <1>14 DEF Inv

LEMMA CleanUpKeeps ==
  ASSUME CacheAssumption, Inv, NEW f \in Fiber, CleanUp(f)
  PROVE  Inv'
<1>. DEFINE k == key[f]
            x == Complete(k, 0)
<1>1. /\ pc[f] = "clean" /\ pc' = [pc EXCEPT ![f] = "idle"] /\ result' = [result EXCEPT ![f] = 0]
      /\ BecomesOf(Without(map, {k}), {}, mine[f])
      /\ UNCHANGED <<keySet, deferred, made, expired, key, seen, mine, fuel, signals, stored,
                     gone, forbidden, orphans>>
  BY DEF CleanUp, Returns, Move
<1>2. /\ k \in Key /\ Active(f) /\ made \in Nat /\ MaxValues \in Nat /\ made \in 0..MaxValues
  BY <1>1 DEF Inv, TypeOK, GoneApart, Active, CacheAssumption
<1>3. x.key.current = k /\ x.lookup = 0 /\ x.value = 0 /\ 0 \notin gone /\ Anew(x)
  <2>1. Anew(x) /\ x.key.current = k
    BY <1>1, <1>2, NothingComes DEF Inv
  <2>2. x.lookup = 0 /\ x.value = 0
    BY DEF Complete
  <2>3. 0 \notin gone
    BY <1>2 DEF Inv, TypeOK
  <2>. QED BY <2>1, <2>2, <2>3
<1>. HIDE DEF x, k
<1>4. /\ Changes(k, x, mine[f]) /\ DOMAIN map' = DOMAIN map \ {k}
      /\ untracked' = untracked \cap DOMAIN map'
  BY <1>1, DropChanges
<1>5. AccessesTracked' /\ keySet' \in Seq(MapKeys)
  BY <1>1, <1>4, StaysTracked DEF Inv, TypeOK
<1>6. TableRight' /\ DOMAIN map' \subseteq Key
      /\ \A j \in DOMAIN map' : map'[j] \in MapValues /\ map'[j].key.current = j
  BY <1>1, <1>2, <1>3, <1>4, TableKept DEF Inv
<1>7. (\A g \in Fiber : g # f => pc'[g] = pc[g]) /\ pc'[f] = "idle"
  BY <1>1 DEF Inv, TypeOK
<1>8. TypeOK'
  BY <1>1, <1>4, <1>5, <1>6 DEF Inv, TypeOK
<1>9. LookupsPlaced'
  <2>1. ~Active(f)'
    BY <1>7 DEF Active
  <2>. QED BY <2>1, <1>1, <1>2, <1>3, <1>4, <1>7, LookupsKept DEF Inv, Anew
<1>10. /\ \A j \in DOMAIN map' : /\ map'[j].value # 0 => map'[j].value \in stored'[j]
                                 /\ \A i \in Key : map'[j].lookup \notin stored'[i]
       /\ \A j \in DOMAIN map' : map'[j].value \notin gone'
  BY <1>1, <1>2, <1>3, <1>4, ValuesKept DEF Inv, Anew
<1>11. StoredApart'
  BY <1>1, <1>7, <1>10 DEF Inv, StoredApart, LooksUp
<1>12. GoneApart'
  <2>1. \A g \in Fiber : result'[g] \notin forbidden'[g]
    BY <1>1 DEF Inv, TypeOK, GoneApart
  <2>2. ASSUME NEW g \in Fiber
        PROVE  /\ pc'[g] # "idle" => key'[g] \in Key
               /\ Active(g)' => mine'[g] \notin forbidden'[g]
               /\ Looking(g)' => /\ seen'[g].lookup \in 0..made' \ forbidden'[g]
                                 /\ seen'[g].value \in 0..made' \ forbidden'[g]
                                 /\ seen'[g].lookup = 0 <=> seen'[g].tag = "Complete"
               /\ pc'[g] = "await" => seen'[g].lookup # 0
    <3>1. CASE g = f
      BY <3>1, <1>7 DEF Active, Looking
    <3>2. CASE g # f
      BY <3>2, <1>1, <1>2, <1>7, OthersGoOn
    <3>. QED BY <3>1, <3>2
  <2>. QED BY <2>1, <2>2, <1>1, <1>10 DEF Inv, GoneApart
<1>13. PromisesKept'
  BY <1>1, <1>7 DEF Inv, PromisesKept
<1>. QED BY <1>5, <1>6, <1>8, <1>9, <1>11, <1>12, <1>13 DEF Inv

LEMMA InvalidateKeeps ==
  ASSUME CacheAssumption, Inv, NEW f \in Fiber, NEW k \in Key, Invalidate(f, k)
  PROVE  Inv'
<1>1. PICK ks \in SUBSET Key : Drop(ks)
  BY DEF Invalidate
<1>2. pc[f] = "idle" /\ Asks(f, k) /\ fuel' \in [Fiber -> Nat]
  BY IdleAsks DEF Invalidate, Inv
<1>3. UNCHANGED <<keySet, deferred, made, expired, pc, seen, mine, signals, stored, orphans>>
  BY DEF Invalidate
<1>4. gone' = gone \cup UNION {stored[j] : j \in ks} /\ Becomes(Without(map, ks), {})
  BY <1>1 DEF Drop
<1>5. Shrinks /\ DOMAIN map' = DOMAIN map \ ks
  BY <1>3, <1>4, DropShrinks
<1>6. /\ key' \in [Fiber -> Key \cup {0}] /\ key'[f] = k
      /\ forbidden' \in [Fiber -> SUBSET (1..made)] /\ result' \in [Fiber -> 0..made]
      /\ \A g \in Fiber : /\ forbidden'[g] \subseteq gone /\ result'[g] \notin forbidden'[g]
                          /\ g # f => key'[g] = key[g] /\ forbidden'[g] = forbidden[g]
  BY <1>2, AsksRight DEF Inv
<1>7. made \in Nat /\ MaxValues \in Nat /\ made \in 0..MaxValues
  BY DEF Inv, TypeOK, CacheAssumption
<1>8. Changes(k, Complete(k, 0), 0) /\ Anew(Complete(k, 0)) /\ Complete(k, 0).key.current = k
      /\ Complete(k, 0).lookup = 0
  <2>1. Anew(Complete(k, 0)) /\ Complete(k, 0).key.current = k
    BY <1>3, NothingComes DEF Inv
  <2>. QED BY <2>1, <1>5, TrackChanges DEF Shrinks, Complete
<1>9. TableRight' /\ DOMAIN map' \subseteq Key
      /\ \A j \in DOMAIN map' : map'[j] \in MapValues /\ map'[j].key.current = j
  <2>1. made' \in made..MaxValues
    BY <1>3, <1>7
  <2>. QED BY <2>1, <1>7, <1>8, TableKept DEF Inv
<1>10. TypeOK'
  <2>1. gone' \subseteq 1..made
    <3>1. \A j \in ks : stored[j] \subseteq 1..made
      BY DEF Inv, TypeOK
    <3>2. gone \subseteq 1..made
      BY DEF Inv, TypeOK
    <3>. QED BY <3>1, <3>2, <1>4
  <2>. QED BY <2>1, <1>2, <1>3, <1>5, <1>6, <1>9 DEF Inv, TypeOK, Shrinks
<1>11. LookupsPlaced'
  <2>1. ~Active(f)'
    BY <1>2, <1>3 DEF Active
  <2>. QED BY <2>1, <1>3, <1>6, <1>8, LookupsKept DEF Inv, Anew
<1>12. \A j \in DOMAIN map' : j \in DOMAIN map /\ j \notin ks /\ map'[j] = map[j]
  BY <1>5 DEF Shrinks
<1>13. StoredApart'
  BY <1>3, <1>12 DEF Inv, StoredApart, LooksUp
<1>14. GoneApart'
  <2>1. \A v \in gone' : \E i \in Key : v \in stored'[i]
    BY <1>3, <1>4 DEF Inv, GoneApart
  <2>2. ASSUME NEW j \in DOMAIN map' PROVE map'[j].value \notin gone'
    <3>1. map[j].value \notin gone /\ (map[j].value # 0 => map[j].value \in stored[j]) /\ j \in Key
      BY <1>12 DEF Inv, GoneApart, StoredApart, TypeOK
    <3>2. ASSUME NEW i \in ks PROVE map[j].value \notin stored[i]
      <4>1. i \in Key /\ i # j /\ stored[i] \cap stored[j] = {}
        BY <3>1, <1>12 DEF Inv, StoredApart
      <4>2. 0 \notin stored[i]
        BY <4>1, <1>7 DEF Inv, TypeOK
      <4>. QED BY <3>1, <4>1, <4>2
    <3>. QED BY <3>1, <3>2, <1>4, <1>12
  <2>3. ASSUME NEW g \in Fiber
        PROVE  /\ pc'[g] # "idle" => key'[g] \in Key
               /\ Active(g)' => mine'[g] \notin forbidden'[g]
               /\ Looking(g)' => /\ seen'[g].lookup \in 0..made' \ forbidden'[g]
                                 /\ seen'[g].value \in 0..made' \ forbidden'[g]
                                 /\ seen'[g].lookup = 0 <=> seen'[g].tag = "Complete"
               /\ pc'[g] = "await" => seen'[g].lookup # 0
    <3>1. CASE g = f
      BY <3>1, <1>2, <1>3 DEF Active, Looking
    <3>2. CASE g # f
      BY <3>2, <1>3, <1>6, <1>7, OthersGoOn
    <3>. QED BY <3>1, <3>2
  <2>4. \A g \in Fiber : forbidden'[g] \subseteq gone' /\ result'[g] \notin forbidden'[g]
    BY <1>4, <1>6
  <2>. QED BY <2>1, <2>2, <2>3, <2>4 DEF GoneApart
<1>15. PromisesKept'
  BY <1>3 DEF Inv, PromisesKept
<1>. QED BY <1>5, <1>9, <1>10, <1>11, <1>13, <1>14, <1>15 DEF Inv, Shrinks

\* Time passes, or nothing happens.
LEMMA StutterKeeps ==
  ASSUME Inv, expired' \subseteq Value,
         UNCHANGED <<map, keySet, deferred, made, pc, key, seen, mine, fuel, signals, stored, gone,
                     forbidden, result, displaced, untracked, orphans>>
  PROVE  Inv'
<1>1. TypeOK' /\ TableRight' /\ AccessesTracked' /\ PromisesKept'
  BY DEF Inv, TypeOK, TableRight, AccessesTracked, PromisesKept
<1>2. LookupsPlaced' /\ StoredApart'
  BY DEF Inv, LookupsPlaced, StoredApart, Active, LooksUp, Has
<1>3. GoneApart'
  BY DEF Inv, GoneApart, Active, Looking
<1>. QED BY <1>1, <1>2, <1>3 DEF Inv

LEMMA InitHolds == ASSUME CacheAssumption, Init PROVE Inv
<1>1. /\ map = <<>> /\ keySet = <<>> /\ deferred = [v \in Value |-> "none"] /\ made = 0 /\ expired = {}
      /\ pc = [f \in Fiber |-> "idle"] /\ key = [f \in Fiber |-> 0]
      /\ seen = [f \in Fiber |-> Complete(0, 0)] /\ mine = [f \in Fiber |-> 0]
      /\ fuel = Fuel /\ signals = MaxInterrupts
      /\ stored = [k \in Key |-> {}] /\ gone = {} /\ forbidden = [f \in Fiber |-> {}]
      /\ result = [f \in Fiber |-> 0] /\ displaced = {} /\ untracked = {} /\ orphans = {}
  BY DEF Init
<1>2. DOMAIN map = {} /\ keySet \in Seq(MapKeys)
  BY <1>1
<1>3. Complete(0, 0) \in MapValues
  BY DEF Complete, MapKey, MapKeys, MapValues, CacheAssumption
<1>4. TypeOK
  BY <1>1, <1>2, <1>3 DEF TypeOK, CacheAssumption
<1>5. AccessesTracked
  <2>1. DOMAIN map \ untracked = {} /\ IsFiniteSet(DOMAIN map) /\ Cardinality(DOMAIN map \ untracked) = 0
    BY <1>2, FS_EmptySet
  <2>2. Capacity \in Nat
    BY DEF CacheAssumption
  <2>. QED BY <2>1, <2>2 DEF AccessesTracked
<1>6. TableRight /\ LookupsPlaced /\ StoredApart /\ PromisesKept
  BY <1>1, <1>2 DEF TableRight, LookupsPlaced, StoredApart, PromisesKept, Active, LooksUp
<1>7. GoneApart
  BY <1>1, <1>2 DEF GoneApart, Active, Looking
<1>. QED BY <1>4, <1>5, <1>6, <1>7 DEF Inv

\* Every step keeps the invariant.
LEMMA StepKeeps == ASSUME CacheAssumption, Inv, [Next]_vars PROVE Inv'
<1>1. ASSUME NEW f \in Fiber, Step(f) PROVE Inv'
  BY <1>1, AgainKeeps, ResolveKeeps, AwaitKeeps, BeginKeeps, StoreKeeps, DoneKeeps, CleanUpKeeps,
     WhenKeeps DEF Step
<1>2. ASSUME NEW f \in Fiber, Interrupt(f) PROVE Inv'
  BY <1>2, InterruptKeeps
<1>3. ASSUME NEW f \in Fiber, NEW k \in Key,
             Get(f, k) \/ Peek(f, k) \/ Refresh(f, k) \/ Set(f, k) \/ Invalidate(f, k)
      PROVE  Inv'
  BY <1>3, GetKeeps, PeekKeeps, RefreshKeeps, SetKeeps, InvalidateKeeps
<1>4. ASSUME NEW v \in Value, Expire(v) PROVE Inv'
  <2>1. expired' \subseteq Value
    BY <1>4 DEF Expire, Inv, TypeOK
  <2>. QED BY <1>4, <2>1, StutterKeeps DEF Expire, table, place, facts
<1>5. CASE UNCHANGED vars
  <2>1. expired' \subseteq Value
    BY <1>5 DEF vars, Inv, TypeOK
  <2>. QED BY <1>5, <2>1, StutterKeeps DEF vars, table, place, facts
<1>. QED BY <1>1, <1>2, <1>3, <1>4, <1>5 DEF Next

LEMMA AlwaysInv == ASSUME CacheAssumption PROVE Spec => []Inv
<1>1. Init => Inv
  BY InitHolds
<1>2. Inv /\ [Next]_vars => Inv'
  BY StepKeeps
<1>. QED BY <1>1, <1>2, PTL DEF Spec
----------------------------------------------------------------------------
\* Every variable of a cache keeps its type.
THEOREM TypeCorrect == ASSUME CacheAssumption PROVE Spec => []TypeOK
<1>1. Inv => TypeOK
  BY DEF Inv
<1>. QED BY <1>1, AlwaysInv, PTL

\* A key is looked up by one fiber at a time, unless the first of two has lost its
\* place in the map (getEither, refresh and lookupValueOf).
THEOREM LooksUpOnce == ASSUME CacheAssumption PROVE Spec => []OneLookup
<1>1. ASSUME Inv PROVE OneLookup
  <2>1. SUFFICES ASSUME NEW f \in Fiber, NEW g \in Fiber, f # g, LooksUp(f), LooksUp(g), key[f] = key[g],
                        mine[f] \notin displaced, mine[g] \notin displaced
                 PROVE  FALSE
    BY DEF OneLookup
  <2>2. Active(f) /\ Active(g)
    BY <2>1 DEF LooksUp, Active
  <2>. QED BY <1>1, <2>1, <2>2 DEF Inv, LookupsPlaced
<1>2. Inv => OneLookup
  BY <1>1
<1>. QED BY <1>2, AlwaysInv, PTL

\* Whoever waits for a lookup waits for one that somebody is at, or that was promised
\* by a fiber interrupted before it began.
THEOREM NobodyWaitsInVain == ASSUME CacheAssumption PROVE Spec => []SomebodyLooksUp
<1>1. ASSUME Inv PROVE SomebodyLooksUp
  <2>1. SUFFICES ASSUME NEW f \in Fiber, pc[f] = "await", deferred[seen[f].lookup] = "pending"
                 PROVE  \/ \E g \in Fiber : mine[g] = seen[f].lookup /\ pc[g] \in {"begin", "lookup", "store"}
                        \/ seen[f].lookup \in orphans
    BY DEF SomebodyLooksUp
  <2>2. seen[f].lookup \in Value
    <3>1. seen[f].lookup \in 0..made /\ seen[f].lookup # 0
      BY <1>1, <2>1 DEF Inv, GoneApart, Looking
    <3>2. made \in 0..MaxValues /\ MaxValues \in Nat
      BY <1>1 DEF Inv, TypeOK, CacheAssumption
    <3>. QED BY <3>1, <3>2 DEF Value
  <2>. QED BY <1>1, <2>1, <2>2 DEF Inv, PromisesKept
<1>2. Inv => SomebodyLooksUp
  BY <1>1
<1>. QED BY <1>2, AlwaysInv, PTL

\* No fiber gets a value that was invalidated before it began to ask (invalidate,
\* invalidateWhen and invalidateAll).
THEOREM ForgetsInvalidated == ASSUME CacheAssumption PROVE Spec => []InvalidatedIsGone
<1>1. Inv => InvalidatedIsGone
  BY DEF Inv, GoneApart, InvalidatedIsGone
<1>. QED BY <1>1, AlwaysInv, PTL

\* A cache goes beyond its capacity by the keys that no access brought there, only
\* (trackAccess).
THEOREM KeepsToCapacity == ASSUME CacheAssumption PROVE Spec => []WithinCapacity
<1>1. ASSUME Inv PROVE WithinCapacity
  <2>. DEFINE known == DOMAIN map \ untracked
  <2>1. /\ IsFiniteSet(DOMAIN map) /\ untracked \subseteq DOMAIN map /\ Capacity \in Nat
        /\ Cardinality(known) <= Capacity
    BY <1>1 DEF Inv, TypeOK, AccessesTracked, CacheAssumption
  <2>2. IsFiniteSet(untracked) /\ IsFiniteSet(known)
    BY <2>1, FS_Subset
  <2>3. known \cup untracked = DOMAIN map /\ known \cap untracked = {}
    BY <2>1
  <2>. HIDE DEF known
  <2>4. Cardinality(known \cup untracked)
          = Cardinality(known) + Cardinality(untracked) - Cardinality(known \cap untracked)
    BY <2>2, FS_Union
  <2>5. Cardinality({}) = 0
    BY FS_EmptySet
  <2>6. Cardinality(known) \in Nat /\ Cardinality(untracked) \in Nat
    BY <2>2, FS_CardinalityType
  <2>7. Cardinality(DOMAIN map) = Cardinality(known) + Cardinality(untracked)
    <3>1. Cardinality(DOMAIN map) = Cardinality(known) + Cardinality(untracked) - Cardinality({})
      BY <2>3, <2>4
    <3>. QED BY <3>1, <2>5, <2>6
  <2>8. Cardinality(DOMAIN map) <= Capacity + Cardinality(untracked)
    BY <2>1, <2>6, <2>7
  <2>. QED BY <2>8 DEF WithinCapacity
<1>2. Inv => WithinCapacity
  BY <1>1
<1>. QED BY <1>2, AlwaysInv, PTL
=============================================================================
