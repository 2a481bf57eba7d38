---------------------------- MODULE ScopedProofs ----------------------------
(***************************************************************************)
(* What is acquired in a scope of its own is released when nobody has it    *)
(* any more and not before, but for what the models say: by a scoped cache, *)
(* for any number of fibers, keys and lookups and every capacity, and by a  *)
(* scoped reference, for any number of setters.                            *)
(***************************************************************************)
EXTENDS ScopedCache, FiniteSetTheorems, TLAPS

\* A lookup that has ended, with a resource or without.
Ended(v) == v \in Value /\ lookup[v] \in {"done", "failed"}
Begun(v) == v \in Value /\ lookup[v] # "none"

\* What the map has is a value that has been found, or a lookup that was promised.
EntryRight(x) ==
  /\ x.value # 0 => Ended(x.value)
  /\ x.tag # "Pending" => x.value # 0
  /\ x.tag # "Complete" => Begun(x.lookup)

MapRight ==
  /\ IsFiniteSet(DOMAIN map) /\ \A k \in DOMAIN map : EntryRight(map[k])
  /\ \A v \in Value : lookup[v] # "none" => v <= made
  /\ \A v \in Value : previous[v] # 0 => Ended(previous[v])

\* And so is what a fiber has in hand.  One fiber makes a lookup.
FiberRight(f) ==
  /\ \A i \in DOMAIN todo[f] : Ended(todo[f][i])
  /\ todo[f] # <<>> => pc[f] = "clean"
  /\ pc[f] # "idle" => key[f] \in Key
  /\ pc[f] \in {"expired", "own"} => Ended(value[f])
  /\ pc[f] = "using" => value[f] \in Value /\ lookup[value[f]] = "done"
  /\ pc[f] = "run" => Begun(value[f])
  /\ pc[f] = "lookup" => value[f] \in Value /\ lookup[value[f]] \in {"running", "acquired"}
  /\ pc[f] = "clean" /\ after[f] = "own" => Ended(value[f])
  /\ pc[f] = "clean" /\ after[f] = "run" => Begun(value[f])

FibersRight ==
  /\ \A f \in Fiber : FiberRight(f)
  /\ \A f, g \in Fiber :
       pc[f] = "lookup" /\ pc[g] = "lookup" /\ value[f] = value[g] => f = g

\* The count of a resource is right: the cache is one owner, until it gives it up.
\* A scope is closed when the count comes to zero, and the count of a closed one is
\* not zero only if somebody came late.
Counted(v) ==
  /\ lookup[v] # "done" => owners[v] = 0 /\ drops[v] = 0
  /\ lookup[v] = "acquired" => scope[v] = "open"
  /\ lookup[v] = "done" =>
       /\ owners[v] = 1 + Cardinality(Users(v)) - drops[v] /\ scope[v] # "none"
       /\ scope[v] = "closed" => drops[v] > 0 /\ (v \in late \/ owners[v] < 1)
       /\ owners[v] < 1 => scope[v] = "closed"

OwnersCounted == \A v \in Value : Counted(v)

\* A fiber that waited for a lookup has still to release the value whose place its
\* result took.
Owed(v) == \E f \in Fiber : pc[f] = "run" /\ Ended(value[f]) /\ previous[value[f]] = v

\* What the cache owns it has, or is about to give up: no value is forgotten, as
\* long as nobody is interrupted.
NothingForgotten ==
  signals = MaxInterrupts =>
    \A v \in Value : lookup[v] = "done" /\ drops[v] = 0 => Kept(v) \/ Queued(v) \/ Owed(v)

Inv == TypeOK /\ MapRight /\ FibersRight /\ OwnersCounted /\ NothingForgotten
----------------------------------------------------------------------------
(* What is released.                                                       *)

\* A set as a sequence has the elements of the set, each of them somewhere.
LEMMA SetToSeqRight ==
  ASSUME NEW S, IsFiniteSet(S)
  PROVE  /\ SetToSeq(S) \in Seq(S)
         /\ \A v \in S : \E i \in DOMAIN SetToSeq(S) : SetToSeq(S)[i] = v
<1>. DEFINE n == Cardinality(S)
            all == {s \in [1..n -> S] : IsInjective(s)}
<1>1. n \in Nat /\ \E s \in [1..n -> S] : IsInjective(s)
  BY FS_CardinalityType DEF ExistsBijection, Bijection, Injection
<1>2. SetToSeq(S) \in [1..n -> S] /\ IsInjective(SetToSeq(S))
  BY <1>1 DEF SetToSeq
<1>3. IsFiniteSet(1..n) /\ Cardinality(1..n) = n
  BY <1>1, FS_Interval
<1>4. SetToSeq(S) \in Injection(1..n, S)
  BY <1>2 DEF Injection
<1>5. SetToSeq(S) \in Surjection(1..n, S)
  BY <1>3, <1>4, FS_Injection
<1>. HIDE DEF n
<1>6. SetToSeq(S) \in Seq(S) /\ DOMAIN SetToSeq(S) = 1..n
  BY <1>1, <1>2
<1>. QED BY <1>5, <1>6 DEF Surjection

\* A set of numbers has a least one.
LEMMA LeastOf ==
  ASSUME NEW N, N \subseteq Nat, N # {}
  PROVE  \E n \in N : \A k \in N : n <= k
<1> DEFINE T == {1..n : n \in N}  S == FiniteSubsetsOf(Nat)
<1>1. IsWellFoundedOn(StrictSubsetOrdering(Nat), S)
  BY FS_StrictSubsetOrderingWellFounded
<1>2. T \subseteq S
  <2> SUFFICES ASSUME NEW n \in N PROVE 1..n \in S
    OBVIOUS
  <2>1. IsFiniteSet(1..n)
    BY FS_Interval
  <2>2. 1..n \subseteq Nat
    OBVIOUS
  <2> QED BY <2>1, <2>2 DEF FiniteSubsetsOf
<1>3. T # {}
  OBVIOUS
<1>4. PICK x \in T : \A y \in T : ~(<<y, x>> \in StrictSubsetOrdering(Nat))
  <2> HIDE DEF T, S
  <2> QED BY <1>1, <1>2, <1>3, WFMin
<1>5. PICK n \in N : x = 1..n
  OBVIOUS
<1>6. ASSUME NEW k \in N, k < n PROVE FALSE
  <2>1. 1..k \in T
    OBVIOUS
  <2>2. 1..k \subseteq 1..n /\ n \in 1..n /\ n \notin 1..k /\ 1..k \subseteq Nat /\ 1..n \subseteq Nat
    BY <1>6
  <2>3. 1..k # 1..n
    BY <2>2
  <2>4. <<1..k, 1..n>> \in StrictSubsetOrdering(Nat)
    <3> DEFINE a == 1..k  b == 1..n
    <3>1. a \subseteq b /\ a # b /\ a \subseteq Nat /\ b \subseteq Nat
      BY <2>2, <2>3
    <3> HIDE DEF a, b
    <3>2. <<a, b>> \in StrictSubsetOrdering(Nat)
      BY <3>1 DEF StrictSubsetOrdering
    <3> QED BY <3>2 DEF a, b
  <2> QED BY <2>1, <2>4, <1>4, <1>5
<1>7. \A k \in N : n <= k
  BY <1>6
<1> QED BY <1>7

\* The keys stay keys when one is accessed,
LEMMA AddedRight ==
  ASSUME NEW keys \in Seq(MapKeys), NEW k \in MapKeys
  PROVE  Added(keys, k) \in Seq(MapKeys)
<1>. DEFINE at == {i \in DOMAIN keys : keys[i] = k /\ k.of # 0}
            n  == CHOOSE i \in at : TRUE
<1>1. CASE at = {}
  BY <1>1 DEF Added
<1>2. CASE at # {}
  <2>1. n \in 1..Len(keys) /\ Len(keys) \in Nat
    BY <1>2
  <2>. HIDE DEF n
  <2>2. SubSeq(keys, 1, n - 1) \in Seq(MapKeys) /\ SubSeq(keys, n + 1, Len(keys)) \in Seq(MapKeys)
    BY <2>1
  <2>3. Append(SubSeq(keys, 1, n - 1) \o SubSeq(keys, n + 1, Len(keys)), k) \in Seq(MapKeys)
    BY <2>2
  <2>. QED BY <1>2, <2>3 DEF Added, n
<1>. QED BY <1>1, <1>2

\* and when some are evicted, and the map loses keys and nothing else.
LEMMA EvictedRight ==
  ASSUME NEW m, NEW keys \in Seq(MapKeys)
  PROVE  LET e == Evicted(m, keys) IN
         /\ e.keys \in Seq(MapKeys) /\ DOMAIN e.map \subseteq DOMAIN m
         /\ \A j \in DOMAIN e.map : e.map[j] = m[j]
<1>. DEFINE enough == {n \in 0..Len(keys) :
                        n = Len(keys) \/ Cardinality(DOMAIN m \ KeysOf(keys, n)) <= Capacity}
            n == Evictions(m, keys)
            e == Evicted(m, keys)
<1>1. Len(keys) \in Nat /\ Len(keys) \in enough /\ enough \in SUBSET Nat
  OBVIOUS
<1>2. Evictions(m, keys) = CHOOSE i \in enough : \A j \in enough : i <= j
  BY DEF Evictions
<1>3. n \in 0..Len(keys)
  <2>1. n \in enough
    <3>. HIDE DEF enough
    <3>1. \E i \in enough : \A j \in enough : i <= j
      BY <1>1, LeastOf
    <3>. QED BY <3>1, <1>2
  <2>. QED BY <2>1
<1>4. e.map = Without(m, KeysOf(keys, n)) /\ e.keys = SubSeq(keys, n + 1, Len(keys))
  BY DEF Evicted
<1>. HIDE DEF n, e
<1>5. e.keys \in Seq(MapKeys)
  BY <1>1, <1>3, <1>4
<1>6. DOMAIN e.map \subseteq DOMAIN m /\ \A j \in DOMAIN e.map : e.map[j] = m[j]
  BY <1>4 DEF Without
<1>. QED BY <1>5, <1>6 DEF e

\* What is to be released of what the map has for some keys.
LEMMA ToCleanRight ==
  ASSUME NEW m, NEW ks, IsFiniteSet(DOMAIN m), \A j \in DOMAIN m : m[j].value \in 0..MaxValues
  PROVE  /\ ToClean(m, ks) \in Seq(Value)
         /\ \A i \in DOMAIN ToClean(m, ks) : \E j \in DOMAIN m : m[j].value = ToClean(m, ks)[i]
         /\ \A j \in ks \cap DOMAIN m :
              m[j].value # 0 => \E i \in DOMAIN ToClean(m, ks) : ToClean(m, ks)[i] = m[j].value
<1>. DEFINE A  == ks \cap DOMAIN m
            B  == {m[k].value : k \in A}
            S  == B \ {0}
            cs == SetToSeq(S)
<1>1. IsFiniteSet(B)
  <2>. DEFINE of == [k \in A |-> m[k].value]
  <2>1. of \in Surjection(A, B)
    BY DEF Surjection
  <2>2. IsFiniteSet(A)
    BY FS_Subset
  <2>. HIDE DEF of, A, B
  <2>. QED BY <2>1, <2>2, FS_Surjection
<1>2. IsFiniteSet(S) /\ S \subseteq Value
  <2>1. IsFiniteSet(S)
    BY <1>1, FS_Subset
  <2>2. S \subseteq Value
    BY DEF Value
  <2>. QED BY <2>1, <2>2
<1>3. /\ \A v \in S : \E j \in DOMAIN m : m[j].value = v
      /\ \A j \in A : m[j].value # 0 => m[j].value \in S
      /\ ToClean(m, ks) = cs
  BY DEF ToClean
<1>. HIDE DEF S
<1>4. cs \in Seq(S) /\ \A v \in S : \E i \in DOMAIN cs : cs[i] = v
  BY <1>2, SetToSeqRight
<1>. HIDE DEF cs
<1>5. cs \in Seq(Value) /\ \A i \in DOMAIN cs : cs[i] \in S
  BY <1>2, <1>4
<1>. QED BY <1>3, <1>4, <1>5

\* What ensureMapSizeNotExceeded does with the map m: some keys go, what they had is
\* to be released, and so are the values vs.
LEMMA EnsureMapSizeRight ==
  ASSUME TypeOK, NEW f \in Fiber, NEW m, NEW x \in MapKeys, NEW vs \in Seq(Value), NEW to,
         IsFiniteSet(DOMAIN m), \A j \in DOMAIN m : m[j].value \in 0..MaxValues,
         EnsureMapSize(f, m, x, vs, to)
  PROVE  /\ keySet' \in Seq(MapKeys)
         /\ DOMAIN map' \subseteq DOMAIN m /\ \A j \in DOMAIN map' : map'[j] = m[j]
         /\ IsFiniteSet(DOMAIN map')
         /\ pc' = [pc EXCEPT ![f] = "clean"] /\ after' = [after EXCEPT ![f] = to]
         /\ todo' = [todo EXCEPT ![f] = todo'[f]] /\ todo'[f] \in Seq(Value)
         /\ \A i \in DOMAIN todo'[f] : \/ \E j \in DOMAIN m : m[j].value = todo'[f][i]
                                       \/ \E j \in DOMAIN vs : vs[j] = todo'[f][i]
         /\ \A j \in DOMAIN m \ DOMAIN map' :
              m[j].value # 0 => \E i \in DOMAIN todo'[f] : todo'[f][i] = m[j].value
         /\ \A j \in DOMAIN vs : \E i \in DOMAIN todo'[f] : todo'[f][i] = vs[j]
<1>. DEFINE e  == Evicted(m, Added(keySet, x))
            cs == ToClean(m, DOMAIN m \ DOMAIN e.map)
<1>1. /\ map' = e.map /\ keySet' = e.keys /\ pc' = [pc EXCEPT ![f] = "clean"]
      /\ todo' = [todo EXCEPT ![f] = cs \o vs] /\ after' = [after EXCEPT ![f] = to]
  BY DEF EnsureMapSize, Releasing, Move
<1>2. /\ e.keys \in Seq(MapKeys) /\ DOMAIN e.map \subseteq DOMAIN m
      /\ \A j \in DOMAIN e.map : e.map[j] = m[j]
  <2>1. Added(keySet, x) \in Seq(MapKeys)
    BY AddedRight DEF TypeOK
  <2>. QED BY <2>1, EvictedRight
<1>. HIDE DEF e
<1>3. IsFiniteSet(DOMAIN map')
  BY <1>1, <1>2, FS_Subset
<1>4. /\ cs \in Seq(Value) /\ \A i \in DOMAIN cs : \E j \in DOMAIN m : m[j].value = cs[i]
      /\ \A j \in (DOMAIN m \ DOMAIN e.map) \cap DOMAIN m :
           m[j].value # 0 => \E i \in DOMAIN cs : cs[i] = m[j].value
  <2>. DEFINE ks == DOMAIN m \ DOMAIN e.map
  <2>1. cs = ToClean(m, ks)
    OBVIOUS
  <2>. HIDE DEF ks, cs
  <2>2. /\ ToClean(m, ks) \in Seq(Value)
        /\ \A i \in DOMAIN ToClean(m, ks) : \E j \in DOMAIN m : m[j].value = ToClean(m, ks)[i]
        /\ \A j \in ks \cap DOMAIN m :
             m[j].value # 0 => \E i \in DOMAIN ToClean(m, ks) : ToClean(m, ks)[i] = m[j].value
    BY ToCleanRight
  <2>3. /\ cs \in Seq(Value) /\ \A i \in DOMAIN cs : \E j \in DOMAIN m : m[j].value = cs[i]
        /\ \A j \in ks \cap DOMAIN m : m[j].value # 0 => \E i \in DOMAIN cs : cs[i] = m[j].value
    BY <2>1, <2>2
  <2>. QED BY <2>3 DEF ks
<1>. HIDE DEF cs
<1>5. /\ cs \o vs \in Seq(Value) /\ Len(cs) \in Nat /\ Len(vs) \in Nat
      /\ DOMAIN cs = 1..Len(cs) /\ DOMAIN vs = 1..Len(vs)
      /\ DOMAIN (cs \o vs) = 1..(Len(cs) + Len(vs))
      /\ \A i \in 1..Len(cs) : (cs \o vs)[i] = cs[i]
      /\ \A i \in 1..Len(vs) : (cs \o vs)[Len(cs) + i] = vs[i]
  BY <1>4
<1>6. todo'[f] = cs \o vs
  BY <1>1 DEF TypeOK
<1>7. ASSUME NEW i \in DOMAIN (cs \o vs)
      PROVE  \/ \E j \in DOMAIN m : m[j].value = (cs \o vs)[i]
             \/ \E j \in DOMAIN vs : vs[j] = (cs \o vs)[i]
  <2>1. CASE i <= Len(cs)
    BY <2>1, <1>4, <1>5
  <2>2. CASE i > Len(cs)
    <3>1. i - Len(cs) \in 1..Len(vs) /\ Len(cs) + (i - Len(cs)) = i
      BY <2>2, <1>5
    <3>. QED BY <3>1, <1>5
  <2>. QED BY <2>1, <2>2, <1>5
<1>8. ASSUME NEW i \in DOMAIN cs PROVE \E j \in DOMAIN (cs \o vs) : (cs \o vs)[j] = cs[i]
  BY <1>5
<1>9. ASSUME NEW j \in DOMAIN vs PROVE \E i \in DOMAIN (cs \o vs) : (cs \o vs)[i] = vs[j]
  <2>1. Len(cs) + j \in DOMAIN (cs \o vs) /\ (cs \o vs)[Len(cs) + j] = vs[j]
    BY <1>5
  <2>. QED BY <2>1
<1>10. /\ keySet' \in Seq(MapKeys)
       /\ DOMAIN map' \subseteq DOMAIN m /\ \A j \in DOMAIN map' : map'[j] = m[j]
       /\ IsFiniteSet(DOMAIN map')
  BY <1>1, <1>2, <1>3
<1>11. \A j \in DOMAIN m \ DOMAIN map' :
         m[j].value # 0 => \E i \in DOMAIN (cs \o vs) : (cs \o vs)[i] = m[j].value
  <2>1. \A j \in DOMAIN m \ DOMAIN map' : j \in (DOMAIN m \ DOMAIN e.map) \cap DOMAIN m
    BY <1>1
  <2>. QED BY <2>1, <1>4, <1>8
<1>. DEFINE all == cs \o vs
<1>12. /\ todo' = [todo EXCEPT ![f] = all] /\ todo'[f] = all /\ all \in Seq(Value)
       /\ \A i \in DOMAIN all : \/ \E j \in DOMAIN m : m[j].value = all[i]
                                \/ \E j \in DOMAIN vs : vs[j] = all[i]
       /\ \A j \in DOMAIN m \ DOMAIN map' : m[j].value # 0 => \E i \in DOMAIN all : all[i] = m[j].value
       /\ \A j \in DOMAIN vs : \E i \in DOMAIN all : all[i] = vs[j]
  BY <1>1, <1>5, <1>6, <1>7, <1>9, <1>11
<1>. HIDE DEF all
<1>. QED BY <1>1, <1>10, <1>12
----------------------------------------------------------------------------
(* A turn of a fiber: it takes what it needs from the map, promises a       *)
(* lookup, or begins one, and says what is to be released.  It owns nothing *)
(* before and afterwards.                                                  *)

Releases(f, v) == \E i \in DOMAIN todo'[f] : todo'[f][i] = v

Alone(f) ==
  \A g \in Fiber \ {f} : /\ pc'[g] = pc[g] /\ key'[g] = key[g] /\ value'[g] = value[g]
                         /\ todo'[g] = todo[g] /\ after'[g] = after[g]

LookupsGoOn ==
  \A v \in Value : \/ lookup'[v] = lookup[v]
                   \/ lookup[v] = "none" /\ lookup'[v] = "promised" /\ v <= made'
                   \/ lookup[v] = "promised" /\ lookup'[v] = "running"

Turn(f) ==
  /\ pc[f] # "using" /\ pc'[f] # "using" /\ todo[f] = <<>> /\ Alone(f)
  /\ UNCHANGED <<previous, owners, scope, drops, late, signals>>
  /\ made <= made' /\ LookupsGoOn
  /\ IsFiniteSet(DOMAIN map')
  /\ \A k \in DOMAIN map' : (k \in DOMAIN map /\ map'[k] = map[k]) \/ EntryRight(map[k])'
  /\ FiberRight(f)'
  /\ pc'[f] = "lookup" => \A g \in Fiber \ {f} : pc[g] = "lookup" => value[g] # value'[f]
  /\ \A k \in DOMAIN map : \/ map[k].value = 0 \/ Releases(f, map[k].value)
                           \/ k \in DOMAIN map' /\ map'[k].value = map[k].value
  /\ pc[f] = "run" /\ Ended(value[f]) => previous[value[f]] = 0 \/ Releases(f, previous[value[f]])

\* What a lookup has come to stays.
LEMMA EndedStays ==
  ASSUME TypeOK, TypeOK', LookupsGoOn, NEW v
  PROVE  (Ended(v) => Ended(v)' /\ lookup'[v] = lookup[v]) /\ (Begun(v) => Begun(v)')
BY DEF TypeOK, LookupsGoOn, Ended, Begun

\* The owners of a resource are counted.
LEMMA UsersFinite ==
  ASSUME ScopedCacheAssumption, NEW v
  PROVE  IsFiniteSet(Users(v)) /\ Cardinality(Users(v)) \in Nat
<1>1. IsFiniteSet(Users(v))
  BY FS_Subset DEF Users, ScopedCacheAssumption
<1>. QED BY <1>1, FS_CardinalityType

\* A turn keeps what the map has right.
LEMMA TurnKeepsMap ==
  ASSUME Inv, TypeOK', NEW f \in Fiber, Turn(f)
  PROVE  MapRight'
<1>1. ASSUME NEW k \in DOMAIN map' PROVE EntryRight(map[k])'
  <2>1. CASE k \in DOMAIN map /\ map'[k] = map[k]
    <3>1. EntryRight(map[k])
      BY <2>1 DEF Inv, MapRight
    <3>. DEFINE x == map[k]
    <3>2. EntryRight(map[k])' <=> /\ x.value # 0 => x.value \in Value /\ lookup'[x.value] \in {"done", "failed"}
                                  /\ x.tag # "Pending" => x.value # 0
                                  /\ x.tag # "Complete" => x.lookup \in Value /\ lookup'[x.lookup] # "none"
      BY <2>1 DEF EntryRight, Ended, Begun
    <3>3. EntryRight(x) <=> /\ x.value # 0 => x.value \in Value /\ lookup[x.value] \in {"done", "failed"}
                            /\ x.tag # "Pending" => x.value # 0
                            /\ x.tag # "Complete" => x.lookup \in Value /\ lookup[x.lookup] # "none"
      BY DEF EntryRight, Ended, Begun
    <3>. HIDE DEF x
    <3>. QED BY <3>1, <3>2, <3>3 DEF x, Turn, LookupsGoOn
  <2>. QED BY <2>1 DEF Turn
<1>2. ASSUME NEW v \in Value, lookup'[v] # "none" PROVE v <= made'
  BY <1>2 DEF Inv, MapRight, Turn, LookupsGoOn, TypeOK, Value
<1>3. ASSUME NEW v \in Value, previous'[v] # 0 PROVE Ended(previous[v])'
  <2>1. Ended(previous[v]) /\ previous' = previous
    BY <1>3 DEF Inv, MapRight, Turn
  <2>. QED BY <2>1, EndedStays DEF Inv, Turn
<1>. QED BY <1>1, <1>2, <1>3 DEF MapRight, Turn

\* A fiber that does nothing stays right.
LookupsStay ==
  /\ \A v \in Value : Ended(v) => lookup'[v] = lookup[v]
  /\ \A v \in Value : Begun(v) => lookup'[v] # "none"

LEMMA OthersStay ==
  ASSUME Inv, NEW f \in Fiber, Alone(f), NEW g \in Fiber \ {f}, LookupsStay,
         pc[g] = "lookup" => lookup'[value[g]] \in {"running", "acquired"}
  PROVE  FiberRight(g)'
<1>1. /\ FiberRight(g) /\ pc'[g] = pc[g] /\ key'[g] = key[g] /\ value'[g] = value[g]
      /\ todo'[g] = todo[g] /\ after'[g] = after[g]
  BY DEF Inv, FibersRight, Alone
<1>2. \A i \in DOMAIN todo'[g] : Ended(todo[g][i])'
  BY <1>1 DEF FiberRight, LookupsStay, Ended
<1>3. /\ Ended(value[g]) => Ended(value[g])' /\ lookup'[value[g]] = lookup[value[g]]
      /\ Begun(value[g]) => Begun(value[g])'
  BY <1>1 DEF LookupsStay, Ended, Begun
<1>4. /\ pc'[g] = "using" => value'[g] \in Value /\ lookup'[value'[g]] = "done"
      /\ pc'[g] = "lookup" => value'[g] \in Value /\ lookup'[value'[g]] \in {"running", "acquired"}
  BY <1>1 DEF FiberRight, LookupsStay, Ended
<1>. QED BY <1>1, <1>2, <1>3, <1>4 DEF FiberRight

LEMMA OthersStayRight ==
  ASSUME Inv, TypeOK', LookupsGoOn, NEW f \in Fiber, Alone(f), NEW g \in Fiber \ {f}
  PROVE  FiberRight(g)'
<1>1. LookupsStay
  BY EndedStays DEF Inv, LookupsStay, Ended, Begun
<1>2. pc[g] = "lookup" => lookup'[value[g]] \in {"running", "acquired"}
  BY DEF Inv, FibersRight, FiberRight, LookupsGoOn
<1>. QED BY <1>1, <1>2, OthersStay

LEMMA TurnKeepsFibers ==
  ASSUME Inv, TypeOK', NEW f \in Fiber, Turn(f)
  PROVE  FibersRight'
<1>1. ASSUME NEW g \in Fiber PROVE FiberRight(g)'
  <2>1. CASE g = f
    BY <2>1 DEF Turn
  <2>2. CASE g # f
    BY <2>2, OthersStayRight DEF Turn
  <2>. QED BY <2>1, <2>2
<1>2. ASSUME NEW g \in Fiber, NEW h \in Fiber,
             pc'[g] = "lookup", pc'[h] = "lookup", value'[g] = value'[h]
      PROVE  g = h
  BY <1>2 DEF Inv, FibersRight, Turn, Alone
<1>. QED BY <1>1, <1>2 DEF FibersRight

\* A turn changes no count.
LEMMA TurnKeepsCounts ==
  ASSUME Inv, TypeOK', NEW f \in Fiber, Turn(f)
  PROVE  OwnersCounted'
<1>. SUFFICES ASSUME NEW v \in Value PROVE Counted(v)'
  BY DEF OwnersCounted
<1>1. Users(v)' = Users(v)
  BY DEF Users, Turn, Alone
<1>2. (lookup'[v] = "done" <=> lookup[v] = "done") /\ (lookup'[v] = "acquired" <=> lookup[v] = "acquired")
  BY DEF Turn, LookupsGoOn
<1>3. owners' = owners /\ drops' = drops /\ scope' = scope /\ late' = late
  BY DEF Turn
<1>. QED BY <1>1, <1>2, <1>3 DEF Inv, OwnersCounted, Counted

\* A turn forgets nothing.
LEMMA TurnForgetsNothing ==
  ASSUME Inv, TypeOK', NEW f \in Fiber, Turn(f)
  PROVE  NothingForgotten'
<1>. SUFFICES ASSUME signals' = MaxInterrupts, NEW v \in Value, lookup'[v] = "done", drops'[v] = 0
              PROVE  Kept(v)' \/ Queued(v)' \/ Owed(v)'
  BY DEF NothingForgotten
<1>1. lookup[v] = "done" /\ drops[v] = 0 /\ signals = MaxInterrupts /\ v # 0
  BY DEF Turn, LookupsGoOn, Value
<1>2. Kept(v) \/ Queued(v) \/ Owed(v)
  BY <1>1 DEF Inv, NothingForgotten
<1>3. Releases(f, v) => Queued(v)'
  BY DEF Releases, Queued
<1>4. CASE Kept(v)
  <2>1. PICK k \in DOMAIN map : map[k].value = v
    BY <1>4 DEF Kept
  <2>2. Releases(f, v) \/ (k \in DOMAIN map' /\ map'[k].value = v)
    BY <2>1, <1>1 DEF Turn
  <2>. QED BY <2>2, <1>3 DEF Kept
<1>5. CASE Queued(v)
  <2>1. PICK g \in Fiber : \E i \in DOMAIN todo[g] : todo[g][i] = v
    BY <1>5 DEF Queued
  <2>2. g # f
    BY <2>1 DEF Turn
  <2>. QED BY <2>1, <2>2 DEF Queued, Turn, Alone
<1>6. CASE Owed(v)
  <2>1. PICK g \in Fiber : pc[g] = "run" /\ Ended(value[g]) /\ previous[value[g]] = v
    BY <1>6 DEF Owed
  <2>2. CASE g = f
    BY <2>1, <2>2, <1>1, <1>3 DEF Turn
  <2>3. CASE g # f
    <3>1. pc'[g] = "run" /\ value'[g] = value[g] /\ previous' = previous
      BY <2>1, <2>3 DEF Turn, Alone
    <3>2. Ended(value[g])'
      BY <2>1, <3>1, EndedStays DEF Inv, Turn
    <3>. QED BY <2>1, <3>1, <3>2 DEF Owed
  <2>. QED BY <2>2, <2>3
<1>. QED BY <1>2, <1>4, <1>5, <1>6

LEMMA TurnKeeps ==
  ASSUME Inv, TypeOK', NEW f \in Fiber, Turn(f)
  PROVE  Inv'
BY TurnKeepsMap, TurnKeepsFibers, TurnKeepsCounts, TurnForgetsNothing DEF Inv

\* The map value x is right from now on.
WillBeRight(x) ==
  /\ x.value # 0 => x.value \in Value /\ lookup'[x.value] \in {"done", "failed"}
  /\ x.tag # "Pending" => x.value # 0
  /\ x.tag # "Complete" => x.lookup \in Value /\ lookup'[x.lookup] # "none"

\* A turn that ends with ensureMapSizeNotExceeded, of a map m that has what there
\* was but for what is released.
LEMMA EnsuredTurn ==
  ASSUME Inv, TypeOK', NEW f \in Fiber, NEW m, NEW x \in MapKeys, NEW vs \in Seq(Value),
         NEW to \in {"idle", "own", "run", "again"},
         IsFiniteSet(DOMAIN m), \A k \in DOMAIN m : m[k] \in MapValues,
         EnsureMapSize(f, m, x, vs, to),
         pc[f] \in {"idle", "again", "expired"}, todo[f] = <<>>, key'[f] \in Key,
         LookupsGoOn, made <= made', UNCHANGED <<previous, owners, scope, drops, late, signals>>,
         \A g \in Fiber \ {f} : key'[g] = key[g] /\ value'[g] = value[g],
         \A k \in DOMAIN m : (k \in DOMAIN map /\ m[k] = map[k]) \/ WillBeRight(m[k]),
         \A j \in DOMAIN vs : lookup'[vs[j]] \in {"done", "failed"},
         to = "own" => value'[f] \in Value /\ lookup'[value'[f]] \in {"done", "failed"},
         to = "run" => value'[f] \in Value /\ lookup'[value'[f]] # "none",
         \A k \in DOMAIN map : \/ map[k].value = 0 \/ \E j \in DOMAIN vs : vs[j] = map[k].value
                               \/ k \in DOMAIN m /\ m[k].value = map[k].value
  PROVE  Turn(f)
<1>0. \A j \in DOMAIN m : m[j].value \in 0..MaxValues
  BY DEF MapValues
<1>1. /\ DOMAIN map' \subseteq DOMAIN m /\ \A j \in DOMAIN map' : map'[j] = m[j]
      /\ IsFiniteSet(DOMAIN map')
      /\ pc' = [pc EXCEPT ![f] = "clean"] /\ after' = [after EXCEPT ![f] = to]
      /\ todo' = [todo EXCEPT ![f] = todo'[f]] /\ todo'[f] \in Seq(Value)
      /\ \A i \in DOMAIN todo'[f] : \/ \E j \in DOMAIN m : m[j].value = todo'[f][i]
                                    \/ \E j \in DOMAIN vs : vs[j] = todo'[f][i]
      /\ \A j \in DOMAIN m \ DOMAIN map' : m[j].value # 0 => Releases(f, m[j].value)
      /\ \A j \in DOMAIN vs : Releases(f, vs[j])
  BY <1>0, EnsureMapSizeRight DEF Inv, Releases
<1>2. /\ pc'[f] = "clean" /\ after'[f] = to
      /\ \A g \in Fiber \ {f} : pc'[g] = pc[g] /\ after'[g] = after[g] /\ todo'[g] = todo[g]
  BY <1>1 DEF Inv, TypeOK
<1>3. \A k \in DOMAIN map : WillBeRight(map[k])
  <2>. SUFFICES ASSUME NEW k \in DOMAIN map PROVE WillBeRight(map[k])
    OBVIOUS
  <2>. DEFINE y == map[k]
  <2>1. EntryRight(y)
    BY DEF Inv, MapRight
  <2>2. WillBeRight(y)
    <3>. HIDE DEF y
    <3>. QED BY <2>1 DEF EntryRight, WillBeRight, Ended, Begun, LookupsGoOn
  <2>. QED BY <2>2
<1>4. \A k \in DOMAIN m : WillBeRight(m[k])
  BY <1>3
<1>5. ASSUME NEW k \in DOMAIN map' PROVE EntryRight(map[k])'
  <2>1. WillBeRight(m[k]) /\ map'[k] = m[k]
    BY <1>1, <1>4
  <2>. QED BY <2>1 DEF WillBeRight, EntryRight, Ended, Begun
<1>6. ASSUME NEW i \in DOMAIN todo'[f]
      PROVE  todo'[f][i] \in Value /\ lookup'[todo'[f][i]] \in {"done", "failed"}
  <2>1. todo'[f][i] \in Value /\ todo'[f][i] # 0
    <3>. DEFINE all == todo'[f]
    <3>1. all \in Seq(Value) /\ i \in DOMAIN all
      BY <1>1
    <3>. HIDE DEF all
    <3>2. all[i] \in Value
      BY <3>1
    <3>. QED BY <3>2 DEF all, Value
  <2>2. CASE \E j \in DOMAIN m : m[j].value = todo'[f][i]
    BY <2>1, <2>2, <1>4 DEF WillBeRight
  <2>3. CASE \E j \in DOMAIN vs : vs[j] = todo'[f][i]
    BY <2>1, <2>3
  <2>. QED BY <2>2, <2>3, <1>1
<1>7. FiberRight(f)'
  BY <1>2, <1>6 DEF FiberRight, Ended, Begun
<1>8. ASSUME NEW k \in DOMAIN map
      PROVE  \/ map[k].value = 0 \/ Releases(f, map[k].value)
             \/ k \in DOMAIN map' /\ map'[k].value = map[k].value
  BY <1>1
<1>9. Alone(f)
  BY <1>2 DEF Alone
<1>. QED BY <1>1, <1>2, <1>5, <1>7, <1>8, <1>9 DEF Turn

\* The types, after ensureMapSizeNotExceeded.
LEMMA EnsuredTypes ==
  ASSUME TypeOK, NEW f \in Fiber, NEW m, NEW x \in MapKeys, NEW vs \in Seq(Value),
         NEW to \in {"idle", "own", "run", "again"},
         IsFiniteSet(DOMAIN m), DOMAIN m \subseteq Key, \A k \in DOMAIN m : m[k] \in MapValues,
         EnsureMapSize(f, m, x, vs, to)
  PROVE  /\ DOMAIN map' \subseteq Key /\ (\A k \in DOMAIN map' : map'[k] \in MapValues) /\ keySet' \in Seq(MapKeys)
         /\ pc' \in [Fiber -> {"idle", "expired", "again", "clean", "own", "using", "run", "lookup"}]
         /\ todo' \in [Fiber -> Seq(Value)] /\ after' \in [Fiber -> {"idle", "own", "run", "again"}]
<1>0. \A j \in DOMAIN m : m[j].value \in 0..MaxValues
  BY DEF MapValues
<1>1. /\ keySet' \in Seq(MapKeys)
      /\ DOMAIN map' \subseteq DOMAIN m /\ \A j \in DOMAIN map' : map'[j] = m[j]
      /\ pc' = [pc EXCEPT ![f] = "clean"] /\ after' = [after EXCEPT ![f] = to]
      /\ todo' = [todo EXCEPT ![f] = todo'[f]] /\ todo'[f] \in Seq(Value)
  BY <1>0, EnsureMapSizeRight
<1>2. todo' \in [Fiber -> Seq(Value)]
  <2>. DEFINE all == todo'[f]
  <2>1. todo' = [todo EXCEPT ![f] = all] /\ all \in Seq(Value)
    BY <1>1
  <2>. HIDE DEF all
  <2>. QED BY <2>1 DEF TypeOK
<1>. QED BY <1>1, <1>2 DEF TypeOK

\* A fiber that begins to look for the key k.
Beginning(f, k) ==
  /\ pc[f] \in {"idle", "again"} /\ k \in Key /\ key' \in [Fiber -> Key \cup {0}]
  /\ key'[f] = k /\ \A g \in Fiber \ {f} : key'[g] = key[g]
  /\ op' \in [Fiber -> Ops \cup {"get"}] /\ fuel' \in [Fiber -> Nat]
  /\ UNCHANGED <<previous, owners, scope, expired, drops, late, signals>>

\* A promise is of a lookup there was not.
LEMMA PromisedRight ==
  ASSUME ScopedCacheAssumption, Inv, NEW f \in Fiber, Promised(f)
  PROVE  /\ made + 1 \in Value /\ made' = made + 1 /\ made' \in 0..MaxValues /\ made <= made'
         /\ LookupsGoOn /\ lookup'[made + 1] = "promised" /\ value'[f] = made + 1
         /\ lookup' \in [Value -> {"none", "promised", "running", "acquired", "done", "failed", "interrupted"}]
         /\ value' \in [Fiber -> 0..MaxValues] /\ \A g \in Fiber \ {f} : value'[g] = value[g]
<1>1. made \in 0..MaxValues /\ made < MaxValues /\ MaxValues \in Nat
  BY DEF Inv, TypeOK, Promised, ScopedCacheAssumption
<1>2. made + 1 \in Value /\ made' = made + 1 /\ made' \in 0..MaxValues /\ made <= made'
  BY <1>1 DEF Promised, Value
<1>3. lookup[made + 1] = "none"
  BY <1>1, <1>2 DEF Inv, MapRight
<1>4. lookup' = [lookup EXCEPT ![made + 1] = "promised"] /\ value' = [value EXCEPT ![f] = made + 1]
  BY DEF Promised
<1>5. /\ lookup'[made + 1] = "promised" /\ \A v \in Value \ {made + 1} : lookup'[v] = lookup[v]
      /\ lookup' \in [Value -> {"none", "promised", "running", "acquired", "done", "failed", "interrupted"}]
  BY <1>2, <1>4 DEF Inv, TypeOK
<1>6. LookupsGoOn
  BY <1>1, <1>2, <1>3, <1>5 DEF LookupsGoOn
<1>7. /\ value'[f] = made + 1 /\ \A g \in Fiber \ {f} : value'[g] = value[g]
      /\ value' \in [Fiber -> 0..MaxValues]
  BY <1>1, <1>2, <1>4 DEF Inv, TypeOK
<1>. QED BY <1>2, <1>5, <1>6, <1>7

\* The map values are map values.
LEMMA PendingRight ==
  ASSUME ScopedCacheAssumption, NEW k \in Key, NEW l \in Value
  PROVE  /\ Pending(k, l) \in MapValues /\ Pending(k, l).key \in MapKeys
         /\ Pending(k, l).value = 0 /\ Pending(k, l).tag = "Pending" /\ Pending(k, l).lookup = l
<1>. DEFINE y == MapKey(k, l, FALSE)
<1>1. y \in MapKeys
  BY DEF MapKey, MapKeys
<1>2. l \in 0..MaxValues /\ 0 \in 0..MaxValues
  BY DEF Value, ScopedCacheAssumption
<1>3. Pending(k, l) = [tag |-> "Pending", key |-> y, lookup |-> l, value |-> 0]
  BY DEF Pending
<1>. HIDE DEF y
<1>. QED BY <1>1, <1>2, <1>3 DEF MapValues

LEMMA CompleteRight ==
  ASSUME ScopedCacheAssumption, NEW k \in Key, NEW v \in Value
  PROVE  /\ Complete(k, v) \in MapValues /\ Complete(k, v).key \in MapKeys
         /\ Complete(k, v).value = v /\ Complete(k, v).tag = "Complete"
<1>. DEFINE y == MapKey(k, v, TRUE)
<1>1. y \in MapKeys
  BY DEF MapKey, MapKeys
<1>2. v \in 0..MaxValues /\ 0 \in 0..MaxValues
  BY DEF Value, ScopedCacheAssumption
<1>3. Complete(k, v) = [tag |-> "Complete", key |-> y, lookup |-> 0, value |-> v]
  BY DEF Complete
<1>. HIDE DEF y
<1>. QED BY <1>1, <1>2, <1>3 DEF MapValues

LEMMA RefreshingRight ==
  ASSUME ScopedCacheAssumption, NEW l \in Value, NEW c \in MapValues
  PROVE  /\ Refreshing(l, c) \in MapValues /\ Refreshing(l, c).value = c.value
         /\ Refreshing(l, c).tag = "Refreshing" /\ Refreshing(l, c).lookup = l
<1>1. l \in 0..MaxValues /\ c.key \in MapKeys /\ c.value \in 0..MaxValues
  BY DEF Value, ScopedCacheAssumption, MapValues
<1>. QED BY <1>1 DEF Refreshing, MapValues

\* The key is not there: a lookup of it is promised.
LEMMA MissRight ==
  ASSUME ScopedCacheAssumption, Inv, NEW f \in Fiber, NEW k, Beginning(f, k), Miss(f, k)
  PROVE  TypeOK' /\ Turn(f)
<1>. DEFINE l == made + 1
            x == Pending(k, l)
            m == Put(map, k, x)
<1>1. /\ l \in Value /\ made' = l /\ made' \in 0..MaxValues /\ made <= made'
      /\ LookupsGoOn /\ lookup'[l] = "promised" /\ value'[f] = l
      /\ lookup' \in [Value -> {"none", "promised", "running", "acquired", "done", "failed", "interrupted"}]
      /\ value' \in [Fiber -> 0..MaxValues] /\ \A g \in Fiber \ {f} : value'[g] = value[g]
  BY PromisedRight DEF Miss
<1>2. EnsureMapSize(f, m, x.key, <<>>, "run") /\ k \notin DOMAIN map /\ k \in Key
  BY DEF Miss, Has, Beginning
<1>3. x \in MapValues /\ x.key \in MapKeys /\ x.value = 0 /\ x.tag = "Pending" /\ x.lookup = l
  BY <1>1, <1>2, PendingRight
<1>. HIDE DEF x
<1>4. /\ DOMAIN m = DOMAIN map \cup {k} /\ m[k] = x /\ \A j \in DOMAIN map : m[j] = map[j]
  BY <1>2 DEF Put
<1>. HIDE DEF m
<1>5. IsFiniteSet(DOMAIN m) /\ DOMAIN m \subseteq Key /\ \A j \in DOMAIN m : m[j] \in MapValues
  BY <1>2, <1>3, <1>4, FS_AddElement DEF Inv, TypeOK, MapRight
<1>6. <<>> \in Seq(Value) /\ DOMAIN <<>> = {}
  OBVIOUS
<1>7. TypeOK'
  BY <1>1, <1>2, <1>3, <1>5, <1>6, EnsuredTypes DEF Inv, TypeOK, Beginning
<1>8. WillBeRight(x)
  BY <1>1, <1>3 DEF WillBeRight
<1>9. \A j \in DOMAIN m : (j \in DOMAIN map /\ m[j] = map[j]) \/ WillBeRight(m[j])
  BY <1>4, <1>8
<1>10. todo[f] = <<>> /\ pc[f] \in {"idle", "again", "expired"} /\ key'[f] \in Key
  BY <1>2 DEF Beginning, Inv, FibersRight, FiberRight
<1>11. \A j \in DOMAIN map : j \in DOMAIN m /\ m[j].value = map[j].value
  BY <1>4
<1>. HIDE DEF l
<1>12. Turn(f)
  BY <1>1, <1>2, <1>3, <1>5, <1>6, <1>7, <1>9, <1>10, <1>11, EnsuredTurn DEF Beginning
<1>. QED BY <1>7, <1>12

\* A turn that releases nothing.
LEMMA MovedTurn ==
  ASSUME Inv, TypeOK', NEW f \in Fiber, NEW to \in {"idle", "expired", "run", "again"},
         pc[f] \in {"idle", "again"}, Move(f, to), UNCHANGED <<todo, after>>, key'[f] \in Key,
         LookupsGoOn, made <= made', UNCHANGED <<previous, owners, scope, drops, late, signals>>,
         \A g \in Fiber \ {f} : key'[g] = key[g] /\ value'[g] = value[g],
         IsFiniteSet(DOMAIN map'),
         \A k \in DOMAIN map' : (k \in DOMAIN map /\ map'[k] = map[k]) \/ WillBeRight(map'[k]),
         \A k \in DOMAIN map : k \in DOMAIN map' /\ map'[k].value = map[k].value,
         to = "expired" => value'[f] \in Value /\ lookup'[value'[f]] \in {"done", "failed"},
         to = "run" => value'[f] \in Value /\ lookup'[value'[f]] # "none"
  PROVE  Turn(f)
<1>1. /\ pc'[f] = to /\ todo[f] = <<>> /\ todo'[f] = <<>>
      /\ \A g \in Fiber \ {f} : pc'[g] = pc[g]
  BY DEF Inv, TypeOK, Move, FibersRight, FiberRight
<1>2. FiberRight(f)'
  BY <1>1 DEF FiberRight, Ended, Begun
<1>3. \A k \in DOMAIN map' : (k \in DOMAIN map /\ map'[k] = map[k]) \/ EntryRight(map[k])'
  BY DEF WillBeRight, EntryRight, Ended, Begun
<1>4. Alone(f)
  BY <1>1 DEF Alone
<1>. QED BY <1>1, <1>2, <1>3, <1>4 DEF Turn

\* The key is there.
LEMMA ResolveRight ==
  ASSUME ScopedCacheAssumption, Inv, NEW f \in Fiber, NEW k, Beginning(f, k), Resolve(f, k)
  PROVE  TypeOK' /\ Turn(f)
<1>. DEFINE x == map[k]
<1>1. /\ k \in Key /\ k \in DOMAIN map /\ IsFiniteSet(DOMAIN map)
      /\ x \in MapValues /\ EntryRight(x)
  BY DEF Resolve, Has, Beginning, Inv, TypeOK, MapRight
<1>2. /\ x.key \in MapKeys /\ x.tag \in {"Pending", "Complete", "Refreshing"}
      /\ x.lookup \in 0..MaxValues /\ x.value \in 0..MaxValues
  <2>. HIDE DEF x
  <2>. QED BY <1>1 DEF MapValues
<1>3. /\ x.value # 0 => Ended(x.value)
      /\ x.tag # "Pending" => Ended(x.value)
      /\ x.tag # "Complete" => Begun(x.lookup)
  <2>. HIDE DEF x
  <2>. QED BY <1>1 DEF EntryRight
<1>4. made' = made /\ lookup' = lookup
  BY DEF Resolve
<1>5. LookupsGoOn /\ made <= made'
  BY <1>4 DEF LookupsGoOn, Inv, TypeOK
<1>6. /\ todo[f] = <<>> /\ pc[f] \in {"idle", "again"} /\ key'[f] \in Key
      /\ \A g \in Fiber \ {f} : key'[g] = key[g]
      /\ UNCHANGED <<previous, owners, scope, drops, late, signals>>
  BY <1>1 DEF Beginning, Inv, FibersRight, FiberRight
<1>7. ASSUME NEW v \in 0..MaxValues, value' = [value EXCEPT ![f] = v]
      PROVE  /\ value' \in [Fiber -> 0..MaxValues] /\ value'[f] = v
             /\ \A g \in Fiber \ {f} : value'[g] = value[g]
  BY <1>7 DEF Inv, TypeOK
<1>. DEFINE Ensured(to, v) ==
              EnsureMapSize(f, map, x.key, <<>>, to) /\ value' = [value EXCEPT ![f] = v]
            Moved(to, v)   ==
              Move(f, to) /\ value' = [value EXCEPT ![f] = v] /\ UNCHANGED <<cache, todo, after>>
<1>8. \/ x.tag = "Complete" /\ \E to \in {"idle", "expired"} : Moved(to, x.value)
      \/ x.tag # "Pending" /\ Ensured("own", x.value)
      \/ x.tag # "Complete" /\ Ensured("run", x.lookup)
      \/ x.tag # "Complete" /\ Moved("idle", x.lookup)
  BY DEF Resolve
<1>. HIDE DEF x
<1>9. ASSUME NEW to \in {"own", "run"}, NEW v \in 0..MaxValues, Ensured(to, v),
             to = "own" => Ended(v), to = "run" => Begun(v)
      PROVE  TypeOK' /\ Turn(f)
  <2>1. /\ EnsureMapSize(f, map, x.key, <<>>, to)
        /\ value' \in [Fiber -> 0..MaxValues] /\ value'[f] = v
        /\ \A g \in Fiber \ {f} : value'[g] = value[g]
    BY <1>9, <1>7
  <2>2. <<>> \in Seq(Value) /\ DOMAIN <<>> = {}
    OBVIOUS
  <2>3. \A j \in DOMAIN map : map[j] \in MapValues
    BY DEF Inv, TypeOK
  <2>4. TypeOK'
    <3>1. TypeOK /\ DOMAIN map \subseteq Key /\ to \in {"idle", "own", "run", "again"}
      BY DEF Inv, TypeOK
    <3>2. /\ DOMAIN map' \subseteq Key /\ (\A j \in DOMAIN map' : map'[j] \in MapValues) /\ keySet' \in Seq(MapKeys)
          /\ pc' \in [Fiber -> {"idle", "expired", "again", "clean", "own", "using", "run", "lookup"}]
          /\ todo' \in [Fiber -> Seq(Value)] /\ after' \in [Fiber -> {"idle", "own", "run", "again"}]
      BY <1>1, <1>2, <2>1, <2>2, <2>3, <3>1, EnsuredTypes
    <3>. QED BY <1>4, <2>1, <3>1, <3>2 DEF TypeOK, Beginning
  <2>5. /\ to = "own" => value'[f] \in Value /\ lookup'[value'[f]] \in {"done", "failed"}
        /\ to = "run" => value'[f] \in Value /\ lookup'[value'[f]] # "none"
    BY <1>4, <1>9, <2>1 DEF Ended, Begun
  <2>6. Turn(f)
    BY <1>1, <1>2, <1>5, <1>6, <2>1, <2>2, <2>3, <2>4, <2>5, EnsuredTurn
  <2>. QED BY <2>4, <2>6
<1>10. ASSUME NEW to \in {"idle", "expired"}, NEW v \in 0..MaxValues, Moved(to, v),
              to = "expired" => Ended(v)
       PROVE  TypeOK' /\ Turn(f)
  <2>1. /\ Move(f, to) /\ UNCHANGED <<map, keySet, todo, after>>
        /\ value' \in [Fiber -> 0..MaxValues] /\ value'[f] = v
        /\ \A g \in Fiber \ {f} : value'[g] = value[g]
    BY <1>10, <1>7 DEF cache
  <2>2. TypeOK'
    BY <1>4, <2>1 DEF Inv, TypeOK, Beginning, Move
  <2>3. to = "expired" => value'[f] \in Value /\ lookup'[value'[f]] \in {"done", "failed"}
    BY <1>4, <1>10, <2>1 DEF Ended
  <2>4. Turn(f)
    BY <1>1, <1>5, <1>6, <2>1, <2>2, <2>3, MovedTurn
  <2>. QED BY <2>2, <2>4
<1>. QED BY <1>2, <1>3, <1>8, <1>9, <1>10

LEMMA LookRight ==
  ASSUME ScopedCacheAssumption, Inv, NEW f \in Fiber, NEW k, Beginning(f, k), Look(f, k)
  PROVE  TypeOK' /\ Turn(f)
BY MissRight, ResolveRight DEF Look

LEMMA BeginRight ==
  ASSUME ScopedCacheAssumption, Inv, NEW f \in Fiber, NEW k \in Key, NEW o, Begin(f, o, k),
         UNCHANGED <<previous, owners, scope, expired, drops, late, signals>>
  PROVE  Beginning(f, k)
BY DEF Begin, Beginning, Inv, TypeOK, ScopedCacheAssumption

\* refresh keeps what it refreshes.
LEMMA RefreshFoundRight ==
  ASSUME ScopedCacheAssumption, Inv, NEW f \in Fiber, NEW k, Beginning(f, k), pc[f] = "idle",
         RefreshFound(f, k)
  PROVE  TypeOK' /\ Turn(f)
<1>. DEFINE x == map[k]
<1>1. /\ k \in Key /\ k \in DOMAIN map /\ IsFiniteSet(DOMAIN map)
      /\ x \in MapValues /\ EntryRight(x)
  BY DEF RefreshFound, Has, Beginning, Inv, TypeOK, MapRight
<1>2. x.lookup \in 0..MaxValues /\ (x.tag # "Pending" => Ended(x.value)) /\ (x.tag # "Complete" => Begun(x.lookup))
  <2>. HIDE DEF x
  <2>. QED BY <1>1 DEF EntryRight, MapValues
<1>3. /\ todo[f] = <<>> /\ pc[f] \in {"idle", "again"} /\ key'[f] \in Key
      /\ \A g \in Fiber \ {f} : key'[g] = key[g]
      /\ UNCHANGED <<previous, owners, scope, drops, late, signals, todo, after, keySet>>
  BY <1>1 DEF Beginning, Inv, FibersRight, FiberRight, RefreshFound
<1>4. ASSUME x.tag = "Complete", Move(f, "again"), UNCHANGED <<map, made, lookup, value>>
      PROVE  TypeOK' /\ Turn(f)
  <2>1. LookupsGoOn /\ made <= made'
    BY <1>4 DEF LookupsGoOn, Inv, TypeOK
  <2>2. TypeOK'
    BY <1>3, <1>4 DEF Inv, TypeOK, Beginning, Move
  <2>3. Turn(f)
    BY <1>1, <1>3, <1>4, <2>1, <2>2, MovedTurn
  <2>. QED BY <2>2, <2>3
<1>5. ASSUME x.tag = "Complete", Promised(f), Move(f, "run"), map' = Put(map, k, Refreshing(made + 1, x))
      PROVE  TypeOK' /\ Turn(f)
  <2>. DEFINE l == made + 1
              y == Refreshing(l, x)
  <2>1. /\ l \in Value /\ made' = l /\ made' \in 0..MaxValues /\ made <= made'
        /\ LookupsGoOn /\ lookup'[l] = "promised" /\ value'[f] = l
        /\ lookup' \in [Value -> {"none", "promised", "running", "acquired", "done", "failed", "interrupted"}]
        /\ value' \in [Fiber -> 0..MaxValues] /\ \A g \in Fiber \ {f} : value'[g] = value[g]
    BY <1>5, PromisedRight
  <2>2. y \in MapValues /\ y.value = x.value /\ y.tag = "Refreshing" /\ y.lookup = l
    BY <1>1, <2>1, RefreshingRight
  <2>. HIDE DEF y, x
  <2>3. x.value \in Value /\ lookup'[x.value] \in {"done", "failed"} /\ x.value # 0
    <3>1. Ended(x.value)
      BY <1>2, <1>5
    <3>. QED BY <3>1, <2>1 DEF Ended, LookupsGoOn, Value
  <2>4. WillBeRight(y)
    BY <2>1, <2>2, <2>3 DEF WillBeRight
  <2>5. DOMAIN map' = DOMAIN map /\ map'[k] = y /\ \A j \in DOMAIN map : j # k => map'[j] = map[j]
    BY <1>1, <1>5 DEF Put, y
  <2>6. TypeOK'
    <3>1. \A j \in DOMAIN map' : map'[j] \in MapValues
      BY <2>2, <2>5 DEF Inv, TypeOK
    <3>2. pc' \in [Fiber -> {"idle", "expired", "again", "clean", "own", "using", "run", "lookup"}]
      BY <1>5 DEF Inv, TypeOK, Move
    <3>. QED BY <1>3, <2>1, <2>5, <3>1, <3>2 DEF Inv, TypeOK, Beginning
  <2>7. \A j \in DOMAIN map' : (j \in DOMAIN map /\ map'[j] = map[j]) \/ WillBeRight(map'[j])
    BY <2>4, <2>5
  <2>8. \A j \in DOMAIN map : j \in DOMAIN map' /\ map'[j].value = map[j].value
    BY <2>2, <2>5 DEF x
  <2>. HIDE DEF l
  <2>9. Turn(f)
    BY <1>1, <1>3, <1>5, <2>1, <2>5, <2>6, <2>7, <2>8, MovedTurn
  <2>. QED BY <2>6, <2>9
<1>6. ASSUME x.tag # "Complete", Move(f, "run"), value' = [value EXCEPT ![f] = x.lookup],
             UNCHANGED <<map, made, lookup>>
      PROVE  TypeOK' /\ Turn(f)
  <2>1. LookupsGoOn /\ made <= made'
    BY <1>6 DEF LookupsGoOn, Inv, TypeOK
  <2>. HIDE DEF x
  <2>2. /\ value' \in [Fiber -> 0..MaxValues] /\ value'[f] = x.lookup
        /\ \A g \in Fiber \ {f} : value'[g] = value[g]
    BY <1>2, <1>6 DEF Inv, TypeOK
  <2>3. TypeOK'
    BY <1>3, <1>6, <2>2 DEF Inv, TypeOK, Beginning, Move
  <2>4. value'[f] \in Value /\ lookup'[value'[f]] # "none"
    BY <1>2, <1>6, <2>2 DEF Begun
  <2>5. Turn(f)
    BY <1>1, <1>3, <1>6, <2>1, <2>2, <2>3, <2>4, MovedTurn
  <2>. QED BY <2>3, <2>5
<1>. QED BY <1>4, <1>5, <1>6 DEF RefreshFound

\* Keys are invalidated.
LEMMA InvalidatedRight ==
  ASSUME ScopedCacheAssumption, Inv, NEW f \in Fiber, NEW k \in Key, NEW o, Begin(f, o, k), NEW ks,
         Releasing(f, ToClean(map, ks), "idle"), UNCHANGED <<keySet, world, value, signals>>,
         DOMAIN map' = DOMAIN map \ ks, \A j \in DOMAIN map' : map'[j] = map[j]
  PROVE  TypeOK' /\ Turn(f)
<1>. DEFINE cs == ToClean(map, ks)
<1>1. IsFiniteSet(DOMAIN map) /\ \A j \in DOMAIN map : map[j].value \in 0..MaxValues
  BY DEF Inv, TypeOK, MapRight, MapValues
<1>2. /\ cs \in Seq(Value) /\ \A i \in DOMAIN cs : \E j \in DOMAIN map : map[j].value = cs[i]
      /\ \A j \in ks \cap DOMAIN map : map[j].value # 0 => \E i \in DOMAIN cs : cs[i] = map[j].value
  BY <1>1, ToCleanRight
<1>3. pc' = [pc EXCEPT ![f] = "clean"] /\ todo' = [todo EXCEPT ![f] = cs] /\ after' = [after EXCEPT ![f] = "idle"]
  BY DEF Releasing, Move
<1>. HIDE DEF cs
<1>4. Beginning(f, k)
  BY BeginRight DEF world
<1>5. /\ UNCHANGED <<keySet, lookup, previous, owners, scope, expired, made, drops, late, value, signals>>
      /\ pc[f] = "idle"
  BY DEF world, Begin
<1>6. TypeOK'
  <2>1. todo' \in [Fiber -> Seq(Value)]
    BY <1>2, <1>3 DEF Inv, TypeOK
  <2>2. /\ pc' \in [Fiber -> {"idle", "expired", "again", "clean", "own", "using", "run", "lookup"}]
        /\ after' \in [Fiber -> {"idle", "own", "run", "again"}]
    BY <1>3 DEF Inv, TypeOK
  <2>3. DOMAIN map' \subseteq Key /\ \A j \in DOMAIN map' : map'[j] \in MapValues
    BY DEF Inv, TypeOK
  <2>. QED BY <1>4, <1>5, <2>1, <2>2, <2>3 DEF Inv, TypeOK, Beginning
<1>7. /\ pc'[f] = "clean" /\ after'[f] = "idle" /\ todo'[f] = cs /\ todo[f] = <<>>
      /\ \A g \in Fiber \ {f} : pc'[g] = pc[g] /\ after'[g] = after[g] /\ todo'[g] = todo[g]
      /\ key'[f] \in Key
  BY <1>3, <1>4, <1>5 DEF Inv, TypeOK, FibersRight, FiberRight, Beginning
<1>8. \A i \in DOMAIN cs : Ended(cs[i])
  <2>. SUFFICES ASSUME NEW i \in DOMAIN cs PROVE Ended(cs[i])
    OBVIOUS
  <2>1. PICK j \in DOMAIN map : map[j].value = cs[i]
    BY <1>2
  <2>2. cs[i] \in Value
    BY <1>2
  <2>3. cs[i] # 0
    BY <2>2 DEF Value
  <2>. QED BY <2>1, <2>3 DEF Inv, MapRight, EntryRight
<1>9. FiberRight(f)'
  BY <1>5, <1>7, <1>8 DEF FiberRight, Ended, Begun
<1>10. \A j \in DOMAIN map : \/ map[j].value = 0 \/ Releases(f, map[j].value)
                             \/ j \in DOMAIN map' /\ map'[j].value = map[j].value
  BY <1>2, <1>7 DEF Releases
<1>11. Alone(f) /\ LookupsGoOn /\ made <= made' /\ IsFiniteSet(DOMAIN map')
  <2>1. Alone(f) /\ LookupsGoOn /\ made <= made'
    BY <1>4, <1>5, <1>7 DEF Alone, LookupsGoOn, Beginning, Inv, TypeOK
  <2>2. IsFiniteSet(DOMAIN map')
    BY <1>1, FS_Subset
  <2>. QED BY <2>1, <2>2
<1>12. Turn(f)
  BY <1>5, <1>7, <1>9, <1>10, <1>11 DEF Turn
<1>. QED BY <1>6, <1>12

\* get, getOption, refresh, invalidate and the closing of the cache are turns, and
\* so are the second look of a get, and what a fiber does that waits for a lookup.
LEMMA BeginningsKeep ==
  ASSUME ScopedCacheAssumption, Inv, NEW f \in Fiber, NEW k \in Key,
         Get(f, k) \/ Peek(f, k) \/ Refresh(f, k) \/ Invalidate(f, k) \/ Close(f, k)
  PROVE  Inv'
<1>1. CASE Get(f, k)
  <2>1. Beginning(f, k) /\ Look(f, k)
    BY <1>1, BeginRight DEF Get
  <2>. QED BY <2>1, LookRight, TurnKeeps
<1>2. CASE Peek(f, k)
  <2>1. Beginning(f, k) /\ Resolve(f, k)
    BY <1>2, BeginRight DEF Peek
  <2>. QED BY <2>1, ResolveRight, TurnKeeps
<1>3. CASE Refresh(f, k)
  <2>1. Beginning(f, k) /\ pc[f] = "idle" /\ (Miss(f, k) \/ RefreshFound(f, k))
    BY <1>3, BeginRight DEF Refresh, Begin
  <2>. QED BY <2>1, MissRight, RefreshFoundRight, TurnKeeps
<1>4. CASE Invalidate(f, k)
  <2>1. DOMAIN map' = DOMAIN map \ {k} /\ \A j \in DOMAIN map' : map'[j] = map[j]
    BY <1>4 DEF Invalidate, Without
  <2>2. /\ Begin(f, "invalidate", k) /\ Releasing(f, ToClean(map, {k}), "idle")
        /\ UNCHANGED <<keySet, world, value, signals>>
    BY <1>4 DEF Invalidate
  <2>. QED BY <2>1, <2>2, InvalidatedRight, TurnKeeps
<1>5. CASE Close(f, k)
  <2>1. DOMAIN map' = DOMAIN map \ DOMAIN map /\ \A j \in DOMAIN map' : map'[j] = map[j]
    BY <1>5 DEF Close
  <2>2. /\ Begin(f, "close", k) /\ Releasing(f, ToClean(map, DOMAIN map), "idle")
        /\ UNCHANGED <<keySet, world, value, signals>>
    BY <1>5 DEF Close
  <2>. QED BY <2>1, <2>2, InvalidatedRight, TurnKeeps
<1>. QED BY <1>1, <1>2, <1>3, <1>4, <1>5

LEMMA AgainKeeps ==
  ASSUME ScopedCacheAssumption, Inv, NEW f \in Fiber, Again(f)
  PROVE  Inv'
<1>1. key[f] \in Key
  BY DEF Again, Inv, FibersRight, FiberRight
<1>2. Beginning(f, key[f])
  BY <1>1 DEF Again, Beginning, Inv, TypeOK
<1>. QED BY <1>2, LookRight, TurnKeeps DEF Again

LEMMA ExpiredKeeps ==
  ASSUME ScopedCacheAssumption, Inv, NEW f \in Fiber, Expired(f)
  PROVE  Inv'
<1>. DEFINE k == key[f]
            v == value[f]
            x == Complete(k, v)
            m == IF Has(k) /\ map[k] = x THEN Without(map, {k}) ELSE map
            vs == <<v>>
<1>1. /\ EnsureMapSize(f, m, x.key, vs, "again") /\ pc[f] = "expired"
      /\ UNCHANGED <<lookup, previous, owners, scope, expired, made, drops, late, key, op, value, fuel, signals>>
  BY DEF Expired, world
<1>2. k \in Key /\ Ended(v) /\ v \in Value /\ todo[f] = <<>>
  BY <1>1 DEF Inv, FibersRight, FiberRight, Ended
<1>3. x.key \in MapKeys /\ x.value = v
  BY <1>2, CompleteRight
<1>. HIDE DEF x, v, k
<1>4. /\ DOMAIN m \subseteq DOMAIN map /\ \A j \in DOMAIN m : m[j] = map[j]
      /\ \A j \in DOMAIN map : j \in DOMAIN m \/ map[j].value = v
  <2>1. CASE Has(k) /\ map[k] = x
    <3>1. m = Without(map, {k})
      BY <2>1
    <3>. HIDE DEF m
    <3>. QED BY <2>1, <3>1, <1>3 DEF Without
  <2>2. CASE ~(Has(k) /\ map[k] = x)
    <3>1. m = map
      BY <2>2
    <3>. QED BY <3>1
  <2>. QED BY <2>1, <2>2
<1>. HIDE DEF m
<1>5. IsFiniteSet(DOMAIN m) /\ DOMAIN m \subseteq Key /\ \A j \in DOMAIN m : m[j] \in MapValues
  BY <1>4, FS_Subset DEF Inv, TypeOK, MapRight
<1>6. vs \in Seq(Value) /\ DOMAIN vs = {1} /\ vs[1] = v
  BY <1>2
<1>. HIDE DEF vs
<1>7. TypeOK'
  <2>1. /\ DOMAIN map' \subseteq Key /\ (\A j \in DOMAIN map' : map'[j] \in MapValues) /\ keySet' \in Seq(MapKeys)
        /\ pc' \in [Fiber -> {"idle", "expired", "again", "clean", "own", "using", "run", "lookup"}]
        /\ todo' \in [Fiber -> Seq(Value)] /\ after' \in [Fiber -> {"idle", "own", "run", "again"}]
    BY <1>1, <1>3, <1>5, <1>6, EnsuredTypes DEF Inv
  <2>. QED BY <1>1, <2>1 DEF Inv, TypeOK
<1>8. LookupsGoOn /\ made <= made'
  BY <1>1 DEF LookupsGoOn, Inv, TypeOK
<1>9. \A j \in DOMAIN vs : lookup'[vs[j]] \in {"done", "failed"}
  BY <1>1, <1>2, <1>6 DEF Ended
<1>10. \A j \in DOMAIN map : \/ map[j].value = 0 \/ \E i \in DOMAIN vs : vs[i] = map[j].value
                             \/ j \in DOMAIN m /\ m[j].value = map[j].value
  <2>1. \E i \in DOMAIN vs : vs[i] = v
    BY <1>6
  <2>. QED BY <1>4, <2>1
<1>11. \A j \in DOMAIN m : (j \in DOMAIN map /\ m[j] = map[j]) \/ WillBeRight(m[j])
  BY <1>4
<1>12. key'[f] \in Key /\ \A g \in Fiber \ {f} : key'[g] = key[g] /\ value'[g] = value[g]
  BY <1>1, <1>2 DEF k
<1>13. Turn(f)
  BY <1>1, <1>2, <1>3, <1>5, <1>6, <1>7, <1>8, <1>9, <1>10, <1>11, <1>12, EnsuredTurn
<1>. QED BY <1>7, <1>13, TurnKeeps

LEMMA RunKeeps ==
  ASSUME ScopedCacheAssumption, Inv, NEW f \in Fiber, Run(f)
  PROVE  Inv'
<1>. DEFINE l == value[f]
<1>1. /\ pc[f] = "run" /\ l \in Value /\ lookup[l] # "none" /\ todo[f] = <<>> /\ key[f] \in Key
      /\ UNCHANGED <<map, keySet, previous, owners, scope, expired, made, drops, late, key, op, value,
                     fuel, signals>>
  BY DEF Run, cache, Inv, FibersRight, FiberRight, Begun
<1>2. IsFiniteSet(DOMAIN map') /\ made <= made'
  BY <1>1 DEF Inv, MapRight, TypeOK
<1>3. ASSUME lookup[l] = "promised", lookup' = [lookup EXCEPT ![l] = "running"], Move(f, "lookup"),
             UNCHANGED <<todo, after>>
      PROVE  TypeOK' /\ Turn(f)
  <2>1. /\ lookup'[l] = "running" /\ \A v \in Value \ {l} : lookup'[v] = lookup[v]
        /\ pc'[f] = "lookup" /\ \A g \in Fiber \ {f} : pc'[g] = pc[g]
    BY <1>1, <1>3 DEF Inv, TypeOK, Move
  <2>2. TypeOK'
    BY <1>1, <1>3 DEF Inv, TypeOK, Move
  <2>3. LookupsGoOn /\ Alone(f)
    BY <1>1, <1>3, <2>1 DEF LookupsGoOn, Alone
  <2>4. FiberRight(f)'
    BY <1>1, <1>3, <2>1 DEF FiberRight
  <2>5. \A g \in Fiber \ {f} : pc[g] = "lookup" => value[g] # value'[f]
    BY <1>1, <1>3 DEF Inv, FibersRight, FiberRight
  <2>6. ~Ended(value[f])
    BY <1>3 DEF Ended
  <2>. QED BY <1>1, <1>2, <1>3, <2>1, <2>2, <2>3, <2>4, <2>5, <2>6 DEF Turn
<1>4. ASSUME lookup[l] \in {"done", "failed"}, UNCHANGED lookup,
             Releasing(f, IF previous[l] = 0 THEN <<>> ELSE <<previous[l]>>, "own")
      PROVE  TypeOK' /\ Turn(f)
  <2>. DEFINE vs == IF previous[l] = 0 THEN <<>> ELSE <<previous[l]>>
  <2>1. /\ vs \in Seq(Value) /\ \A i \in DOMAIN vs : Ended(vs[i])
        /\ previous[l] # 0 => \E i \in DOMAIN vs : vs[i] = previous[l]
    <3>1. CASE previous[l] = 0
      BY <3>1
    <3>2. CASE previous[l] # 0
      <4>1. Ended(previous[l]) /\ vs = <<previous[l]>>
        BY <3>2, <1>1 DEF Inv, MapRight
      <4>. QED BY <4>1 DEF Ended
    <3>. QED BY <3>1, <3>2
  <2>2. pc' = [pc EXCEPT ![f] = "clean"] /\ todo' = [todo EXCEPT ![f] = vs] /\ after' = [after EXCEPT ![f] = "own"]
    BY <1>4 DEF Releasing, Move
  <2>. HIDE DEF vs
  <2>3. TypeOK'
    <3>1. todo' \in [Fiber -> Seq(Value)]
      BY <2>1, <2>2 DEF Inv, TypeOK
    <3>2. /\ pc' \in [Fiber -> {"idle", "expired", "again", "clean", "own", "using", "run", "lookup"}]
          /\ after' \in [Fiber -> {"idle", "own", "run", "again"}]
      BY <2>2 DEF Inv, TypeOK
    <3>. QED BY <1>1, <1>4, <3>1, <3>2 DEF Inv, TypeOK
  <2>4. /\ pc'[f] = "clean" /\ after'[f] = "own" /\ todo'[f] = vs
        /\ \A g \in Fiber \ {f} : pc'[g] = pc[g] /\ after'[g] = after[g] /\ todo'[g] = todo[g]
    BY <2>2 DEF Inv, TypeOK
  <2>5. LookupsGoOn /\ Alone(f)
    BY <1>1, <1>4, <2>4 DEF LookupsGoOn, Alone
  <2>6. FiberRight(f)'
    BY <1>1, <1>4, <2>1, <2>4 DEF FiberRight, Ended
  <2>7. previous[value[f]] = 0 \/ Releases(f, previous[value[f]])
    BY <2>1, <2>4 DEF Releases
  <2>. QED BY <1>1, <1>2, <2>3, <2>4, <2>5, <2>6, <2>7 DEF Turn
<1>5. ASSUME lookup[l] = "interrupted", Move(f, "idle"), UNCHANGED <<lookup, todo, after>>
      PROVE  TypeOK' /\ Turn(f)
  <2>1. pc'[f] = "idle" /\ \A g \in Fiber \ {f} : pc'[g] = pc[g]
    BY <1>5 DEF Inv, TypeOK, Move
  <2>2. TypeOK'
    BY <1>1, <1>5 DEF Inv, TypeOK, Move
  <2>3. LookupsGoOn /\ Alone(f)
    BY <1>1, <1>5, <2>1 DEF LookupsGoOn, Alone
  <2>4. FiberRight(f)'
    BY <1>1, <1>5, <2>1 DEF FiberRight
  <2>5. ~Ended(value[f])
    BY <1>5 DEF Ended
  <2>. QED BY <1>1, <1>2, <1>5, <2>1, <2>2, <2>3, <2>4, <2>5 DEF Turn
<1>6. TypeOK' /\ Turn(f)
  BY <1>3, <1>4, <1>5 DEF Run
<1>. QED BY <1>6, TurnKeeps
----------------------------------------------------------------------------
(* The steps that change a count, or end a lookup.                         *)

\* The count of a value that a step does not touch stays right.
LEMMA CountStays ==
  ASSUME NEW v \in Value, Counted(v), lookup'[v] = lookup[v], owners'[v] = owners[v],
         drops'[v] = drops[v], scope'[v] = scope[v], late \subseteq late', Users(v)' = Users(v)
  PROVE  Counted(v)'
BY DEF Counted

\* So does what the map has.
LEMMA MapStays ==
  ASSUME Inv, LookupsStay, map' = map, previous' = previous, made' = made,
         \A v \in Value : lookup'[v] # "none" => lookup[v] # "none"
  PROVE  MapRight'
<1>1. ASSUME NEW k \in DOMAIN map PROVE EntryRight(map[k])'
  <2>. DEFINE x == map[k]
  <2>1. EntryRight(x)
    BY DEF Inv, MapRight
  <2>2. WillBeRight(x)
    <3>. HIDE DEF x
    <3>. QED BY <2>1 DEF EntryRight, WillBeRight, Ended, Begun, LookupsStay
  <2>. QED BY <2>2 DEF WillBeRight, EntryRight, Ended, Begun
<1>2. ASSUME NEW v \in Value, previous[v] # 0 PROVE Ended(previous[v])'
  BY <1>2 DEF Inv, MapRight, LookupsStay, Ended
<1>. QED BY <1>1, <1>2 DEF Inv, MapRight

\* The cache gives up a value, or has given up the last one.
LEMMA CleanKeeps ==
  ASSUME ScopedCacheAssumption, Inv, NEW f \in Fiber, Clean(f)
  PROVE  Inv'
<1>1. /\ pc[f] = "clean" /\ FiberRight(f)
      /\ UNCHANGED <<map, keySet, lookup, previous, expired, made, late, key, op, value, after, fuel, signals>>
  BY DEF Clean, cache, Inv, FibersRight
<1>2. LookupsStay /\ MapRight'
  <2>1. LookupsStay
    BY <1>1 DEF LookupsStay, Begun
  <2>. QED BY <1>1, <2>1, MapStays
<1>3. ASSUME todo[f] = <<>>, Move(f, after[f]), UNCHANGED <<todo, owners, scope, drops>>
      PROVE  Inv'
  <2>1. pc'[f] = after[f] /\ \A g \in Fiber \ {f} : pc'[g] = pc[g]
    BY <1>3 DEF Inv, TypeOK, Move
  <2>2. after[f] \in {"idle", "own", "run", "again"}
    BY DEF Inv, TypeOK
  <2>3. TypeOK'
    BY <1>1, <1>3, <2>2 DEF Inv, TypeOK, Move
  <2>4. FiberRight(f)'
    BY <1>1, <1>3, <2>1, <2>2 DEF FiberRight, Ended, Begun
  <2>5. \A g \in Fiber \ {f} : FiberRight(g)'
    <3>1. Alone(f)
      BY <1>1, <1>3, <2>1 DEF Alone
    <3>. QED BY <1>1, <1>2, <3>1, OthersStay DEF Inv, FibersRight, FiberRight
  <2>6. FibersRight'
    BY <1>1, <2>1, <2>2, <2>4, <2>5 DEF FibersRight, Inv
  <2>7. \A v \in Value : Users(v)' = Users(v)
    BY <1>1, <2>1, <2>2 DEF Users
  <2>8. OwnersCounted'
    BY <1>1, <1>3, <2>7, CountStays DEF Inv, OwnersCounted
  <2>9. NothingForgotten'
    <3>1. \A v : Owed(v) => Owed(v)'
      BY <1>1, <2>1 DEF Owed, Ended
    <3>2. \A v : (Kept(v)' <=> Kept(v)) /\ (Queued(v)' <=> Queued(v))
      BY <1>1, <1>3 DEF Kept, Queued
    <3>. QED BY <1>1, <1>3, <3>1, <3>2 DEF NothingForgotten, Inv
  <2>. QED BY <1>2, <2>3, <2>6, <2>8, <2>9 DEF Inv
<1>4. ASSUME todo[f] # <<>>, todo' = [todo EXCEPT ![f] = Tail(@)], UNCHANGED pc,
             LET v == Head(todo[f]) IN
             \/ lookup[v] = "failed" /\ UNCHANGED <<owners, scope, drops>>
             \/ lookup[v] # "failed" /\ ReleaseOwner(v) /\ drops' = [drops EXCEPT ![v] = @ + 1]
      PROVE  Inv'
  <2>. DEFINE t == todo[f]
              v == Head(t)
  <2>1. t \in Seq(Value) /\ t # <<>>
    BY <1>4 DEF Inv, TypeOK
  <2>2. /\ todo'[f] = Tail(t) /\ \A g \in Fiber \ {f} : todo'[g] = todo[g]
        /\ todo' = [todo EXCEPT ![f] = Tail(t)]
    BY <1>4 DEF Inv, TypeOK
  <2>3. \A i \in DOMAIN t : Ended(t[i])
    BY <1>1 DEF FiberRight
  <2>. HIDE DEF t
  <2>4. /\ v = t[1] /\ 1 \in DOMAIN t /\ v \in Value /\ Tail(t) \in Seq(Value)
        /\ \A i \in DOMAIN Tail(t) : i + 1 \in DOMAIN t /\ Tail(t)[i] = t[i + 1]
        /\ \A i \in DOMAIN t : i = 1 \/ (i - 1 \in DOMAIN Tail(t) /\ Tail(t)[i - 1] = t[i])
    BY <2>1
  <2>5. \/ lookup[v] = "failed" /\ UNCHANGED <<owners, scope, drops>>
        \/ /\ lookup[v] = "done" /\ drops' = [drops EXCEPT ![v] = @ + 1]
           /\ owners' = [owners EXCEPT ![v] = @ - 1]
           /\ scope' = [scope EXCEPT ![v] = IF owners[v] = 1 THEN "closed" ELSE @]
    BY <1>4, <2>3, <2>4 DEF Ended, ReleaseOwner, t
  <2>. HIDE DEF v
  <2>6. TypeOK'
    <3>1. todo' \in [Fiber -> Seq(Value)]
      BY <2>2, <2>4 DEF Inv, TypeOK
    <3>2. owners' \in [Value -> Int] /\ drops' \in [Value -> Nat] /\ scope' \in [Value -> {"none", "open", "closed"}]
      <4>1. CASE UNCHANGED <<owners, scope, drops>>
        BY <4>1 DEF Inv, TypeOK
      <4>2. CASE /\ drops' = [drops EXCEPT ![v] = @ + 1] /\ owners' = [owners EXCEPT ![v] = @ - 1]
                 /\ scope' = [scope EXCEPT ![v] = IF owners[v] = 1 THEN "closed" ELSE @]
        BY <2>4, <4>2 DEF Inv, TypeOK
      <4>. QED BY <2>5, <4>1, <4>2
    <3>. QED BY <1>1, <1>4, <3>1, <3>2 DEF Inv, TypeOK
  <2>7. FibersRight'
    <3>1. \A i \in DOMAIN todo'[f] : Ended(todo'[f][i])
      BY <2>2, <2>3, <2>4
    <3>2. FiberRight(f)'
      BY <1>1, <1>4, <3>1 DEF FiberRight, Ended, Begun
    <3>3. \A g \in Fiber \ {f} : FiberRight(g)'
      <4>1. Alone(f)
        BY <1>1, <1>4, <2>2 DEF Alone
      <4>. QED BY <1>1, <1>2, <4>1, OthersStay DEF Inv, FibersRight, FiberRight
    <3>. QED BY <1>1, <1>4, <3>2, <3>3 DEF FibersRight, Inv
  <2>8. OwnersCounted'
    <3>1. ASSUME NEW w \in Value PROVE Counted(w)'
      <4>1. Counted(w) /\ Users(w)' = Users(w) /\ Cardinality(Users(w)) \in Nat
        BY <1>1, <1>4, UsersFinite DEF Inv, OwnersCounted, Users
      <4>2. CASE w # v \/ lookup[v] = "failed"
        <5>1. owners'[w] = owners[w] /\ drops'[w] = drops[w] /\ scope'[w] = scope[w]
          BY <2>4, <2>5, <4>2 DEF Inv, TypeOK
        <5>. QED BY <1>1, <4>1, <5>1, CountStays
      <4>3. CASE w = v /\ lookup[v] = "done"
        <5>1. /\ owners'[w] = owners[w] - 1 /\ drops'[w] = drops[w] + 1
              /\ scope'[w] = IF owners[w] = 1 THEN "closed" ELSE scope[w]
          BY <2>4, <2>5, <4>3 DEF Inv, TypeOK
        <5>2. owners[w] \in Int /\ drops[w] \in Nat
          BY DEF Inv, TypeOK
        <5>. DEFINE n == Cardinality(Users(w))
        <5>3. lookup'[w] = "done" /\ lookup[w] = "done" /\ late' = late /\ Cardinality(Users(w)') = n /\ n \in Nat
          BY <1>1, <4>1, <4>3
        <5>4. /\ owners[w] = 1 + n - drops[w] /\ scope[w] # "none"
              /\ scope[w] = "closed" => drops[w] > 0 /\ (w \in late \/ owners[w] < 1)
              /\ owners[w] < 1 => scope[w] = "closed"
          BY <4>1, <5>3 DEF Counted
        <5>. HIDE DEF n
        <5>5. /\ owners'[w] = 1 + n - drops'[w] /\ scope'[w] # "none"
              /\ scope'[w] = "closed" => drops'[w] > 0 /\ (w \in late \/ owners'[w] < 1)
              /\ owners'[w] < 1 => scope'[w] = "closed"
          <6>1. CASE owners[w] = 1
            BY <6>1, <5>1, <5>2, <5>3, <5>4
          <6>2. CASE owners[w] # 1
            BY <6>2, <5>1, <5>2, <5>3, <5>4
          <6>. QED BY <6>1, <6>2
        <5>. QED BY <5>3, <5>5 DEF Counted
      <4>. QED BY <2>5, <4>2, <4>3
    <3>. QED BY <3>1 DEF OwnersCounted
  <2>9. NothingForgotten'
    <3>. SUFFICES ASSUME signals' = MaxInterrupts, NEW w \in Value, lookup'[w] = "done", drops'[w] = 0
                  PROVE  Kept(w)' \/ Queued(w)' \/ Owed(w)'
      BY DEF NothingForgotten
    <3>1. (w # v \/ lookup[v] = "failed") /\ drops[w] = 0
      BY <2>4, <2>5 DEF Inv, TypeOK
    <3>2. w # v
      BY <1>1, <3>1
    <3>3. Kept(w) \/ Queued(w) \/ Owed(w)
      BY <1>1, <3>1 DEF Inv, NothingForgotten
    <3>4. (Kept(w)' <=> Kept(w)) /\ (Owed(w)' <=> Owed(w))
      BY <1>1, <1>4 DEF Kept, Owed, Ended
    <3>5. ASSUME Queued(w) PROVE Queued(w)'
      <4>1. PICK g \in Fiber : \E i \in DOMAIN todo[g] : todo[g][i] = w
        BY <3>5 DEF Queued
      <4>2. CASE g = f
        <5>1. PICK i \in DOMAIN t : t[i] = w
          BY <4>1, <4>2 DEF t
        <5>2. i - 1 \in DOMAIN Tail(t) /\ Tail(t)[i - 1] = w
          BY <5>1, <2>4, <3>2
        <5>. QED BY <5>2, <2>2 DEF Queued
      <4>3. CASE g # f
        BY <4>1, <4>3, <2>2 DEF Queued
      <4>. QED BY <4>2, <4>3
    <3>. QED BY <3>3, <3>4, <3>5
  <2>. QED BY <1>2, <2>6, <2>7, <2>8, <2>9 DEF Inv
<1>. QED BY <1>3, <1>4 DEF Clean

\* A fiber becomes an owner.
LEMMA OwnKeeps ==
  ASSUME ScopedCacheAssumption, Inv, NEW f \in Fiber, Own(f)
  PROVE  Inv'
<1>. DEFINE v == value[f]
<1>1. /\ pc[f] = "own" /\ FiberRight(f) /\ v \in Value /\ Ended(v)
      /\ UNCHANGED <<map, keySet, lookup, previous, scope, expired, made, drops, key, op, value, todo, after,
                     fuel, signals>>
  BY DEF Own, cache, Inv, FibersRight, FiberRight, Ended
<1>2. LookupsStay /\ MapRight'
  <2>1. LookupsStay
    BY <1>1 DEF LookupsStay, Begun
  <2>. QED BY <1>1, <2>1, MapStays
<1>3. \/ lookup[v] = "failed" /\ Move(f, "idle") /\ UNCHANGED <<owners, late>>
      \/ /\ lookup[v] = "done" /\ Move(f, "using") /\ owners' = [owners EXCEPT ![v] = @ + 1]
         /\ late' = IF owners[v] < 1 THEN late \cup {v} ELSE late
  BY <1>1 DEF Own, Ended
<1>. HIDE DEF v
<1>4. /\ \A g \in Fiber \ {f} : pc'[g] = pc[g]
      /\ pc'[f] = IF lookup[v] = "failed" THEN "idle" ELSE "using"
  BY <1>3 DEF Inv, TypeOK, Move
<1>5. TypeOK'
  <2>1. CASE Move(f, "idle") /\ UNCHANGED <<owners, late>>
    BY <1>1, <2>1 DEF Inv, TypeOK, Move
  <2>2. CASE /\ Move(f, "using") /\ owners' = [owners EXCEPT ![v] = @ + 1]
             /\ late' = IF owners[v] < 1 THEN late \cup {v} ELSE late
    BY <1>1, <2>2 DEF Inv, TypeOK, Move
  <2>. QED BY <1>3, <2>1, <2>2
<1>6. FibersRight'
  <2>1. FiberRight(f)'
    BY <1>1, <1>3, <1>4 DEF FiberRight, Ended, v
  <2>2. \A g \in Fiber \ {f} : FiberRight(g)'
    <3>1. Alone(f)
      BY <1>1, <1>4 DEF Alone
    <3>. QED BY <1>1, <1>2, <3>1, OthersStay DEF Inv, FibersRight, FiberRight
  <2>. QED BY <1>1, <1>4, <2>1, <2>2 DEF FibersRight, Inv
<1>7. ASSUME NEW w \in Value PROVE Counted(w)'
  <2>1. Counted(w) /\ late \subseteq late'
    BY <1>3 DEF Inv, OwnersCounted
  <2>2. CASE w # v \/ lookup[v] = "failed"
    <3>1. owners'[w] = owners[w]
      BY <1>1, <1>3, <2>2 DEF Inv, TypeOK
    <3>2. Users(w)' = Users(w)
      BY <1>1, <1>4, <2>2 DEF Users, v
    <3>. QED BY <1>1, <2>1, <3>1, <3>2, CountStays
  <2>3. CASE w = v /\ lookup[v] = "done"
    <3>1. owners'[w] = owners[w] + 1 /\ late' = (IF owners[w] < 1 THEN late \cup {w} ELSE late)
      BY <1>1, <1>3, <2>3 DEF Inv, TypeOK
    <3>2. Users(w)' = Users(w) \cup {f} /\ f \notin Users(w)
      BY <1>1, <1>4, <2>3 DEF Users, v
    <3>. DEFINE n == Cardinality(Users(w))
    <3>3. n \in Nat /\ Cardinality(Users(w)') = n + 1
      BY <3>2, UsersFinite, FS_AddElement
    <3>4. owners[w] \in Int /\ drops[w] \in Nat
      BY DEF Inv, TypeOK
    <3>5. lookup'[w] = "done" /\ lookup[w] = "done" /\ drops'[w] = drops[w] /\ scope'[w] = scope[w]
      BY <1>1, <2>3
    <3>6. /\ owners[w] = 1 + n - drops[w] /\ scope[w] # "none"
          /\ scope[w] = "closed" => drops[w] > 0 /\ (w \in late \/ owners[w] < 1)
          /\ owners[w] < 1 => scope[w] = "closed"
      BY <2>1, <3>5 DEF Counted
    <3>. HIDE DEF n
    <3>7. /\ owners'[w] = 1 + (n + 1) - drops'[w] /\ scope'[w] # "none"
          /\ owners'[w] < 1 => scope'[w] = "closed"
      BY <3>1, <3>3, <3>4, <3>5, <3>6
    <3>8. scope'[w] = "closed" => drops'[w] > 0 /\ w \in late'
      <4>1. CASE owners[w] < 1
        BY <4>1, <3>1, <3>5, <3>6
      <4>2. CASE ~(owners[w] < 1)
        BY <4>2, <3>1, <3>5, <3>6
      <4>. QED BY <4>1, <4>2
    <3>. QED BY <3>3, <3>5, <3>7, <3>8 DEF Counted
  <2>. QED BY <1>3, <2>2, <2>3
<1>8. NothingForgotten'
  <2>1. \A w : (Kept(w)' <=> Kept(w)) /\ (Queued(w)' <=> Queued(w)) /\ (Owed(w) => Owed(w)')
    BY <1>1, <1>4 DEF Kept, Queued, Owed, Ended
  <2>. QED BY <1>1, <2>1 DEF NothingForgotten, Inv
<1>. QED BY <1>2, <1>5, <1>6, <1>7, <1>8 DEF Inv, OwnersCounted

\* A fiber leaves, and may be the last one.
LEMMA LeaveKeeps ==
  ASSUME ScopedCacheAssumption, Inv, NEW f \in Fiber, Leave(f)
  PROVE  Inv'
<1>. DEFINE v == value[f]
<1>1. /\ pc[f] = "using" /\ FiberRight(f) /\ v \in Value /\ lookup[v] = "done" /\ key[f] \in Key
      /\ UNCHANGED <<map, keySet, lookup, previous, expired, made, drops, late, key, op, value, todo, after,
                     fuel, signals>>
  BY DEF Leave, cache, Inv, FibersRight, FiberRight
<1>2. LookupsStay /\ MapRight'
  <2>1. LookupsStay
    BY <1>1 DEF LookupsStay, Begun
  <2>. QED BY <1>1, <2>1, MapStays
<1>3. /\ Move(f, "idle") /\ owners' = [owners EXCEPT ![v] = @ - 1]
      /\ scope' = [scope EXCEPT ![v] = IF owners[v] = 1 THEN "closed" ELSE @]
  BY DEF Leave, ReleaseOwner
<1>. HIDE DEF v
<1>4. pc'[f] = "idle" /\ \A g \in Fiber \ {f} : pc'[g] = pc[g]
  BY <1>3 DEF Inv, TypeOK, Move
<1>5. TypeOK'
  BY <1>1, <1>3 DEF Inv, TypeOK, Move
<1>6. FibersRight'
  <2>1. FiberRight(f)'
    BY <1>1, <1>4 DEF FiberRight, Ended
  <2>2. \A g \in Fiber \ {f} : FiberRight(g)'
    <3>1. Alone(f)
      BY <1>1, <1>4 DEF Alone
    <3>. QED BY <1>1, <1>2, <3>1, OthersStay DEF Inv, FibersRight, FiberRight
  <2>. QED BY <1>1, <1>4, <2>1, <2>2 DEF FibersRight, Inv
<1>7. ASSUME NEW w \in Value PROVE Counted(w)'
  <2>1. Counted(w)
    BY DEF Inv, OwnersCounted
  <2>2. CASE w # v
    <3>1. owners'[w] = owners[w] /\ scope'[w] = scope[w]
      BY <1>1, <1>3, <2>2 DEF Inv, TypeOK
    <3>2. Users(w)' = Users(w)
      BY <1>1, <1>4, <2>2 DEF Users, v
    <3>. QED BY <1>1, <2>1, <3>1, <3>2, CountStays
  <2>3. CASE w = v
    <3>1. /\ owners'[w] = owners[w] - 1
          /\ scope'[w] = IF owners[w] = 1 THEN "closed" ELSE scope[w]
      BY <1>1, <1>3, <2>3 DEF Inv, TypeOK
    <3>2. Users(w)' = Users(w) \ {f} /\ f \in Users(w)
      BY <1>1, <1>4, <2>3 DEF Users, v
    <3>. DEFINE n == Cardinality(Users(w)')
    <3>3. n \in Nat /\ Cardinality(Users(w)) = n + 1
      <4>1. IsFiniteSet(Users(w)) /\ Cardinality(Users(w)) \in Nat
        BY UsersFinite
      <4>2. IsFiniteSet(Users(w) \ {f}) /\ Cardinality(Users(w) \ {f}) = Cardinality(Users(w)) - 1
        BY <3>2, <4>1, FS_RemoveElement
      <4>3. Cardinality(Users(w) \ {f}) \in Nat
        BY <4>2, FS_CardinalityType
      <4>. QED BY <3>2, <4>1, <4>2, <4>3
    <3>4. owners[w] \in Int /\ drops[w] \in Nat
      BY DEF Inv, TypeOK
    <3>5. lookup'[w] = "done" /\ lookup[w] = "done" /\ drops'[w] = drops[w] /\ late' = late
      BY <1>1, <2>3
    <3>6. /\ owners[w] = 1 + (n + 1) - drops[w] /\ scope[w] # "none"
          /\ scope[w] = "closed" => drops[w] > 0 /\ (w \in late \/ owners[w] < 1)
          /\ owners[w] < 1 => scope[w] = "closed"
      BY <2>1, <3>3, <3>5 DEF Counted
    <3>. HIDE DEF n
    <3>7. /\ owners'[w] = 1 + n - drops'[w] /\ scope'[w] # "none"
          /\ owners'[w] < 1 => scope'[w] = "closed"
          /\ scope'[w] = "closed" => drops'[w] > 0 /\ (w \in late' \/ owners'[w] < 1)
      <4>1. CASE owners[w] = 1
        BY <4>1, <3>1, <3>3, <3>4, <3>5, <3>6
      <4>2. CASE owners[w] # 1
        BY <4>2, <3>1, <3>3, <3>4, <3>5, <3>6
      <4>. QED BY <4>1, <4>2
    <3>. QED BY <3>5, <3>7 DEF Counted, n
  <2>. QED BY <2>2, <2>3
<1>8. NothingForgotten'
  <2>1. \A w : (Kept(w)' <=> Kept(w)) /\ (Queued(w)' <=> Queued(w)) /\ (Owed(w) => Owed(w)')
    BY <1>1, <1>4 DEF Kept, Queued, Owed, Ended
  <2>. QED BY <1>1, <2>1 DEF NothingForgotten, Inv
<1>. QED BY <1>2, <1>5, <1>6, <1>7, <1>8 DEF Inv, OwnersCounted

\* A resource that is acquired is nobody's yet.
LEMMA AcquireKeeps ==
  ASSUME ScopedCacheAssumption, Inv, NEW f \in Fiber, Acquire(f)
  PROVE  Inv'
<1>. DEFINE l == value[f]
<1>1. /\ pc[f] = "lookup" /\ l \in Value /\ lookup[l] = "running"
      /\ UNCHANGED <<map, keySet, previous, owners, expired, made, drops, late, pc, key, op, value, todo, after,
                     fuel, signals>>
  BY DEF Acquire, cache, fiber, Inv, FibersRight, FiberRight
<1>2. lookup' = [lookup EXCEPT ![l] = "acquired"] /\ scope' = [scope EXCEPT ![l] = "open"]
  BY DEF Acquire
<1>. HIDE DEF l
<1>3. /\ lookup'[l] = "acquired" /\ scope'[l] = "open"
      /\ \A v \in Value \ {l} : lookup'[v] = lookup[v] /\ scope'[v] = scope[v]
  BY <1>1, <1>2 DEF Inv, TypeOK
<1>4. TypeOK'
  BY <1>1, <1>2 DEF Inv, TypeOK
<1>5. LookupsStay /\ MapRight'
  <2>1. LookupsStay
    BY <1>1, <1>3 DEF LookupsStay, Begun, Ended
  <2>. QED BY <1>1, <1>3, <2>1, MapStays
<1>6. FibersRight'
  <2>1. FiberRight(f)'
    BY <1>1, <1>3 DEF FiberRight, Inv, FibersRight, l
  <2>2. \A g \in Fiber \ {f} : FiberRight(g)'
    <3>. SUFFICES ASSUME NEW g \in Fiber \ {f} PROVE FiberRight(g)'
      OBVIOUS
    <3>1. Alone(f)
      BY <1>1 DEF Alone
    <3>2. pc[g] = "lookup" => lookup'[value[g]] \in {"running", "acquired"}
      BY <1>1, <1>3 DEF Inv, FibersRight, FiberRight
    <3>. QED BY <1>5, <3>1, <3>2, OthersStay
  <2>. QED BY <1>1, <2>1, <2>2 DEF FibersRight, Inv
<1>7. ASSUME NEW w \in Value PROVE Counted(w)'
  <2>1. Counted(w) /\ Users(w)' = Users(w)
    BY <1>1 DEF Inv, OwnersCounted, Users
  <2>2. CASE w = l
    BY <1>1, <1>3, <2>1, <2>2 DEF Counted
  <2>3. CASE w # l
    BY <1>1, <1>3, <2>1, <2>3, CountStays
  <2>. QED BY <2>2, <2>3
<1>8. NothingForgotten'
  <2>1. \A w : (Kept(w)' <=> Kept(w)) /\ (Queued(w)' <=> Queued(w)) /\ (Owed(w) => Owed(w)')
    BY <1>1, <1>3 DEF Kept, Queued, Owed, Ended
  <2>2. \A w \in Value : lookup'[w] = "done" => lookup[w] = "done"
    BY <1>3
  <2>. QED BY <1>1, <2>1, <2>2 DEF NothingForgotten, Inv
<1>. QED BY <1>4, <1>5, <1>6, <1>7, <1>8 DEF Inv, OwnersCounted

\* The clock.
LEMMA ExpireKeeps ==
  ASSUME Inv, NEW v \in Value, Expire(v)
  PROVE  Inv'
<1>1. /\ expired' = expired \cup {v}
      /\ UNCHANGED <<map, keySet, lookup, previous, owners, scope, made, drops, late, pc, key, op, value, todo,
                     after, fuel, signals>>
  BY DEF Expire, cache, fiber
<1>2. TypeOK'
  BY <1>1 DEF Inv, TypeOK
<1>3. LookupsStay /\ MapRight'
  <2>1. LookupsStay
    BY <1>1 DEF LookupsStay, Begun
  <2>. QED BY <1>1, <2>1, MapStays
<1>4. FibersRight'
  BY <1>1 DEF Inv, FibersRight, FiberRight, Ended, Begun
<1>5. \A w \in Value : Counted(w)'
  BY <1>1, CountStays DEF Inv, OwnersCounted, Users
<1>6. NothingForgotten'
  BY <1>1 DEF Inv, NothingForgotten, Kept, Queued, Owed, Ended
<1>. QED BY <1>2, <1>3, <1>4, <1>5, <1>6 DEF Inv, OwnersCounted

\* A result is put in the map.  The value whose place it takes was found before, and
\* the fiber that made the lookup owes its release.
LEMMA PublishKeeps ==
  ASSUME ScopedCacheAssumption, Inv, NEW f \in Fiber, Publish(f)
  PROVE  Inv'
<1>. DEFINE l == value[f]
            k == key[f]
            to == IF lookup[l] = "acquired" THEN "done" ELSE "failed"
            x == Complete(k, l)
            old == IF Has(k) THEN map[k].value ELSE 0
<1>1. /\ pc[f] = "lookup" /\ FiberRight(f)
      /\ l \in Value /\ lookup[l] \in {"running", "acquired"} /\ k \in Key
      /\ UNCHANGED <<keySet, scope, expired, made, drops, late, key, op, value, todo, after, fuel, signals>>
  BY DEF Publish, Inv, FibersRight, FiberRight
<1>2. /\ lookup' = [lookup EXCEPT ![l] = to] /\ previous' = [previous EXCEPT ![l] = old]
      /\ owners' = [owners EXCEPT ![l] = IF to = "done" THEN 1 ELSE 0]
      /\ map' = Put(map, k, x) /\ Move(f, "run")
  BY DEF Publish
<1>3. x \in MapValues /\ x.value = l /\ x.tag = "Complete"
  BY <1>1, CompleteRight
<1>4. to \in {"done", "failed"} /\ (to = "done" => lookup[l] = "acquired")
  OBVIOUS
<1>5. old \in 0..MaxValues /\ (old # 0 => Ended(old))
  <2>1. CASE Has(k)
    <3>1. map[k] \in MapValues /\ EntryRight(map[k]) /\ old = map[k].value
      BY <2>1 DEF Has, Inv, TypeOK, MapRight
    <3>. QED BY <3>1 DEF EntryRight, MapValues
  <2>2. CASE ~Has(k)
    BY <2>2 DEF ScopedCacheAssumption
  <2>. QED BY <2>1, <2>2
<1>6. \A w : w # 0 /\ k \in DOMAIN map /\ map[k].value = w => old = w
  BY DEF Has
<1>. HIDE DEF l, k, to, x, old
<1>7. /\ lookup'[l] = to /\ previous'[l] = old /\ owners'[l] = (IF to = "done" THEN 1 ELSE 0)
      /\ \A v \in Value \ {l} : lookup'[v] = lookup[v] /\ previous'[v] = previous[v] /\ owners'[v] = owners[v]
  BY <1>1, <1>2 DEF Inv, TypeOK
<1>8. pc'[f] = "run" /\ \A g \in Fiber \ {f} : pc'[g] = pc[g]
  BY <1>2 DEF Inv, TypeOK, Move
<1>9. DOMAIN map' = DOMAIN map \cup {k} /\ map'[k] = x /\ \A j \in DOMAIN map \ {k} : map'[j] = map[j]
  BY <1>2 DEF Put
<1>10. LookupsStay
  BY <1>1, <1>4, <1>7 DEF LookupsStay, Ended, Begun
<1>11. TypeOK'
  <2>1. DOMAIN map' \subseteq Key /\ \A j \in DOMAIN map' : map'[j] \in MapValues
    BY <1>1, <1>3, <1>9 DEF Inv, TypeOK
  <2>2. /\ lookup' \in [Value -> {"none", "promised", "running", "acquired", "done", "failed", "interrupted"}]
        /\ previous' \in [Value -> 0..MaxValues] /\ owners' \in [Value -> Int]
    <3>1. lookup' \in [Value -> {"none", "promised", "running", "acquired", "done", "failed", "interrupted"}]
      BY <1>2, <1>4 DEF Inv, TypeOK
    <3>2. previous' \in [Value -> 0..MaxValues]
      BY <1>2, <1>5 DEF Inv, TypeOK
    <3>3. owners' \in [Value -> Int]
      <4>. DEFINE n == IF to = "done" THEN 1 ELSE 0
      <4>1. n \in Int /\ owners' = [owners EXCEPT ![l] = n]
        BY <1>2
      <4>. HIDE DEF n
      <4>. QED BY <4>1 DEF Inv, TypeOK
    <3>. QED BY <3>1, <3>2, <3>3
  <2>3. pc' \in [Fiber -> {"idle", "expired", "again", "clean", "own", "using", "run", "lookup"}]
    BY <1>2 DEF Inv, TypeOK, Move
  <2>. QED BY <1>1, <2>1, <2>2, <2>3 DEF Inv, TypeOK
<1>12. l \in Value /\ lookup'[l] \in {"done", "failed"}
  BY <1>1, <1>4, <1>7
<1>13. MapRight'
  <2>1. ASSUME NEW j \in DOMAIN map' PROVE EntryRight(map[j])'
    <3>1. CASE j = k
      BY <3>1, <1>3, <1>9, <1>12 DEF EntryRight, Ended, Value
    <3>2. CASE j # k
      <4>. DEFINE y == map[j]
      <4>1. EntryRight(y) /\ map'[j] = y
        BY <1>9, <3>2 DEF Inv, MapRight
      <4>2. WillBeRight(y)
        <5>. HIDE DEF y
        <5>. QED BY <1>10, <4>1 DEF EntryRight, WillBeRight, Ended, Begun, LookupsStay
      <4>. QED BY <4>1, <4>2 DEF WillBeRight, EntryRight, Ended, Begun
    <3>. QED BY <3>1, <3>2
  <2>2. \A v \in Value : lookup'[v] # "none" => v <= made'
    BY <1>1, <1>7 DEF Inv, MapRight
  <2>3. ASSUME NEW v \in Value, previous'[v] # 0 PROVE Ended(previous[v])'
    <3>1. Ended(previous'[v])
      BY <1>5, <1>7, <2>3 DEF Inv, MapRight
    <3>. QED BY <1>10, <3>1 DEF LookupsStay, Ended
  <2>4. IsFiniteSet(DOMAIN map')
    BY <1>9, FS_AddElement DEF Inv, MapRight
  <2>. QED BY <2>1, <2>2, <2>3, <2>4 DEF MapRight
<1>14. FibersRight'
  <2>1. FiberRight(f)'
    <3>1. todo'[f] = <<>> /\ key'[f] \in Key /\ Begun(value[f])'
      BY <1>1, <1>12 DEF FiberRight, k, l, Ended, Begun
    <3>. QED BY <1>8, <3>1 DEF FiberRight
  <2>2. \A g \in Fiber \ {f} : FiberRight(g)'
    <3>. SUFFICES ASSUME NEW g \in Fiber \ {f} PROVE FiberRight(g)'
      OBVIOUS
    <3>1. Alone(f)
      BY <1>1, <1>8 DEF Alone
    <3>2. pc[g] = "lookup" => lookup'[value[g]] \in {"running", "acquired"}
      BY <1>1, <1>7 DEF Inv, FibersRight, FiberRight, l
    <3>. QED BY <1>10, <3>1, <3>2, OthersStay
  <2>. QED BY <1>1, <1>8, <2>1, <2>2 DEF FibersRight, Inv
<1>15. ASSUME NEW w \in Value PROVE Counted(w)'
  <2>1. Counted(w) /\ Users(w)' = Users(w)
    BY <1>1, <1>8 DEF Inv, OwnersCounted, Users
  <2>2. CASE w = l
    <3>1. Users(w) = {}
      BY <1>1, <2>2 DEF Users, Inv, FibersRight, FiberRight
    <3>2. Cardinality(Users(w)') = 0
      BY <2>1, <3>1, FS_EmptySet
    <3>3. owners[w] = 0 /\ drops'[w] = 0 /\ (to = "done" => scope'[w] = "open")
      BY <1>1, <1>4, <2>1, <2>2 DEF Counted
    <3>. QED BY <1>4, <1>7, <2>2, <3>2, <3>3 DEF Counted
  <2>3. CASE w # l
    BY <1>1, <1>7, <2>1, <2>3, CountStays
  <2>. QED BY <2>2, <2>3
<1>16. NothingForgotten'
  <2>. SUFFICES ASSUME signals' = MaxInterrupts, NEW w \in Value, lookup'[w] = "done", drops'[w] = 0
                PROVE  Kept(w)' \/ Queued(w)' \/ Owed(w)'
    BY DEF NothingForgotten
  <2>1. CASE w = l
    BY <1>3, <1>9, <2>1 DEF Kept
  <2>2. CASE w # l
    <3>1. Kept(w) \/ Queued(w) \/ Owed(w)
      BY <1>1, <1>7, <2>2 DEF Inv, NothingForgotten
    <3>2. ASSUME Kept(w) PROVE Kept(w)' \/ Owed(w)'
      <4>1. PICK j \in DOMAIN map : map[j].value = w
        BY <3>2 DEF Kept
      <4>2. CASE j = k
        <5>1. previous'[l] = w
          BY <1>6, <1>7, <4>1, <4>2 DEF Value
        <5>. QED BY <1>1, <1>8, <1>12, <5>1 DEF Owed, Ended, l
      <4>3. CASE j # k
        BY <1>9, <4>1, <4>3 DEF Kept
      <4>. QED BY <4>2, <4>3
    <3>3. ASSUME Owed(w) PROVE Owed(w)'
      <4>1. PICK g \in Fiber : pc[g] = "run" /\ Ended(value[g]) /\ previous[value[g]] = w
        BY <3>3 DEF Owed
      <4>2. g # f /\ value[g] # l
        BY <1>1, <4>1 DEF Ended
      <4>. QED BY <1>1, <1>7, <1>8, <1>10, <4>1, <4>2 DEF Owed, Ended
    <3>4. Queued(w)' <=> Queued(w)
      BY <1>1 DEF Queued
    <3>. QED BY <3>1, <3>2, <3>3, <3>4
  <2>. QED BY <2>1, <2>2
<1>. QED BY <1>11, <1>13, <1>14, <1>15, <1>16 DEF Inv, OwnersCounted

\* An interruption may forget a value, and breaks nothing else.
LEMMA InterruptKeeps ==
  ASSUME ScopedCacheAssumption, Inv, NEW f \in Fiber, Interrupt(f)
  PROVE  Inv'
<1>. DEFINE l == value[f]
            k == key[f]
<1>1. /\ pc[f] \in {"clean", "run", "own", "lookup", "again", "expired"} /\ FiberRight(f)
      /\ signals > 0 /\ signals' = signals - 1 /\ Move(f, "idle") /\ todo' = [todo EXCEPT ![f] = <<>>]
      /\ UNCHANGED <<keySet, previous, owners, scope, expired, made, drops, late, key, op, value, after, fuel>>
  BY DEF Interrupt, Inv, FibersRight
<1>2. \/ /\ pc[f] = "lookup" /\ lookup' = [lookup EXCEPT ![l] = "interrupted"]
         /\ map' = Without(map, {k})
      \/ pc[f] # "lookup" /\ UNCHANGED <<lookup, map>>
  BY DEF Interrupt
<1>3. pc[f] = "lookup" => l \in Value /\ lookup[l] \in {"running", "acquired"}
  BY <1>1 DEF FiberRight
<1>. HIDE DEF l, k
<1>4. /\ pc'[f] = "idle" /\ todo'[f] = <<>>
      /\ \A g \in Fiber \ {f} : pc'[g] = pc[g] /\ todo'[g] = todo[g]
  BY <1>1 DEF Inv, TypeOK, Move
<1>5. \A v \in Value : \/ lookup'[v] = lookup[v]
                       \/ /\ pc[f] = "lookup" /\ v = l /\ lookup[v] \in {"running", "acquired"}
                          /\ lookup'[v] = "interrupted"
  BY <1>2, <1>3 DEF Inv, TypeOK
<1>6. DOMAIN map' \subseteq DOMAIN map /\ \A j \in DOMAIN map' : map'[j] = map[j]
  BY <1>2 DEF Without
<1>7. LookupsStay
  BY <1>5 DEF LookupsStay, Ended, Begun
<1>8. TypeOK'
  <2>1. DOMAIN map' \subseteq Key /\ \A j \in DOMAIN map' : map'[j] \in MapValues
    BY <1>6 DEF Inv, TypeOK
  <2>2. lookup' \in [Value -> {"none", "promised", "running", "acquired", "done", "failed", "interrupted"}]
    BY <1>2 DEF Inv, TypeOK
  <2>3. /\ pc' \in [Fiber -> {"idle", "expired", "again", "clean", "own", "using", "run", "lookup"}]
        /\ todo' \in [Fiber -> Seq(Value)]
    BY <1>1 DEF Inv, TypeOK, Move
  <2>4. signals' \in 0..MaxInterrupts
    BY <1>1 DEF Inv, TypeOK, ScopedCacheAssumption
  <2>. QED BY <1>1, <2>1, <2>2, <2>3, <2>4 DEF Inv, TypeOK
<1>9. MapRight'
  <2>1. ASSUME NEW j \in DOMAIN map' PROVE EntryRight(map[j])'
    <3>. DEFINE y == map[j]
    <3>1. EntryRight(y) /\ map'[j] = y
      BY <1>6 DEF Inv, MapRight
    <3>2. WillBeRight(y)
      <4>. HIDE DEF y
      <4>. QED BY <1>7, <3>1 DEF EntryRight, WillBeRight, Ended, Begun, LookupsStay
    <3>. QED BY <3>1, <3>2 DEF WillBeRight, EntryRight, Ended, Begun
  <2>2. \A v \in Value : lookup'[v] # "none" => v <= made'
    BY <1>1, <1>5 DEF Inv, MapRight
  <2>3. \A v \in Value : previous'[v] # 0 => Ended(previous[v])'
    BY <1>1, <1>7 DEF Inv, MapRight, LookupsStay, Ended
  <2>4. IsFiniteSet(DOMAIN map')
    BY <1>6, FS_Subset DEF Inv, MapRight
  <2>. QED BY <2>1, <2>2, <2>3, <2>4 DEF MapRight
<1>10. FibersRight'
  <2>1. FiberRight(f)'
    BY <1>4 DEF FiberRight
  <2>2. \A g \in Fiber \ {f} : FiberRight(g)'
    <3>. SUFFICES ASSUME NEW g \in Fiber \ {f} PROVE FiberRight(g)'
      OBVIOUS
    <3>1. Alone(f)
      BY <1>1, <1>4 DEF Alone
    <3>2. pc[g] = "lookup" => lookup'[value[g]] \in {"running", "acquired"}
      BY <1>5 DEF Inv, FibersRight, FiberRight, l
    <3>. QED BY <1>7, <3>1, <3>2, OthersStay
  <2>. QED BY <1>1, <1>4, <2>1, <2>2 DEF FibersRight, Inv
<1>11. ASSUME NEW w \in Value PROVE Counted(w)'
  <2>1. Counted(w) /\ Users(w)' = Users(w)
    BY <1>1, <1>4 DEF Inv, OwnersCounted, Users
  <2>2. CASE lookup'[w] = lookup[w]
    BY <1>1, <2>1, <2>2, CountStays
  <2>3. CASE lookup[w] \in {"running", "acquired"} /\ lookup'[w] = "interrupted"
    BY <1>1, <2>1, <2>3 DEF Counted
  <2>. QED BY <1>5, <2>2, <2>3
<1>12. NothingForgotten'
  BY <1>1 DEF NothingForgotten, Inv, TypeOK, ScopedCacheAssumption
<1>. QED BY <1>8, <1>9, <1>10, <1>11, <1>12 DEF Inv, OwnersCounted
----------------------------------------------------------------------------
LEMMA InitRight ==
  ASSUME ScopedCacheAssumption, Init
  PROVE  Inv
<1>1. TypeOK
  <2>1. /\ map = <<>> /\ keySet = <<>> /\ DOMAIN map = {} /\ keySet \in Seq(MapKeys)
        /\ expired = {} /\ late = {} /\ made = 0 /\ signals = MaxInterrupts
    BY DEF Init
  <2>2. /\ lookup \in [Value -> {"none", "promised", "running", "acquired", "done", "failed", "interrupted"}]
        /\ previous \in [Value -> 0..MaxValues] /\ owners \in [Value -> Int] /\ drops \in [Value -> Nat]
        /\ scope \in [Value -> {"none", "open", "closed"}]
    BY DEF Init, ScopedCacheAssumption
  <2>3. /\ pc \in [Fiber -> {"idle", "expired", "again", "clean", "own", "using", "run", "lookup"}]
        /\ key \in [Fiber -> Key \cup {0}] /\ op \in [Fiber -> Ops \cup {"get"}]
        /\ value \in [Fiber -> 0..MaxValues] /\ todo \in [Fiber -> Seq(Value)]
        /\ after \in [Fiber -> {"idle", "own", "run", "again"}] /\ fuel \in [Fiber -> Nat]
    BY DEF Init, ScopedCacheAssumption
  <2>4. made \in 0..MaxValues /\ signals \in 0..MaxInterrupts
    BY <2>1 DEF ScopedCacheAssumption
  <2>. QED BY <2>1, <2>2, <2>3, <2>4 DEF TypeOK
<1>2. MapRight
  <2>1. DOMAIN map = {} /\ IsFiniteSet({})
    BY FS_EmptySet DEF Init
  <2>. QED BY <2>1 DEF Init, MapRight
<1>3. FibersRight
  BY DEF Init, FibersRight, FiberRight
<1>4. OwnersCounted
  BY DEF Init, OwnersCounted, Counted
<1>5. NothingForgotten
  BY DEF Init, NothingForgotten
<1>. QED BY <1>1, <1>2, <1>3, <1>4, <1>5 DEF Inv

LEMMA StutterKeeps ==
  ASSUME Inv, UNCHANGED vars
  PROVE  Inv'
<1>1. UNCHANGED <<map, keySet, lookup, previous, owners, scope, expired, made, drops, late, pc, key, op, value,
                  todo, after, fuel, signals>>
  BY DEF vars, cache, world, fiber
<1>2. TypeOK'
  BY <1>1 DEF Inv, TypeOK
<1>3. MapRight'
  <2>1. LookupsStay
    BY <1>1 DEF LookupsStay, Begun
  <2>. QED BY <1>1, <2>1, MapStays
<1>4. FibersRight'
  BY <1>1 DEF Inv, FibersRight, FiberRight, Ended, Begun
<1>5. \A w \in Value : Counted(w)'
  BY <1>1, CountStays DEF Inv, OwnersCounted, Users
<1>6. NothingForgotten'
  BY <1>1 DEF Inv, NothingForgotten, Kept, Queued, Owed, Ended
<1>. QED BY <1>2, <1>3, <1>4, <1>5, <1>6 DEF Inv, OwnersCounted

\* Inv is kept.
LEMMA Inductive ==
  ASSUME ScopedCacheAssumption
  PROVE  Spec => []Inv
<1>1. Init => Inv
  BY InitRight
<1>2. ASSUME Inv, [Next]_vars PROVE Inv'
  <2>1. ASSUME NEW f \in Fiber,
               \/ Again(f) \/ Expired(f) \/ Clean(f) \/ Own(f) \/ Leave(f) \/ Run(f) \/ Acquire(f)
               \/ Publish(f) \/ Interrupt(f)
        PROVE  Inv'
    BY <1>2, <2>1, AgainKeeps, ExpiredKeeps, CleanKeeps, OwnKeeps, LeaveKeeps, RunKeeps, AcquireKeeps,
       PublishKeeps, InterruptKeeps
  <2>2. ASSUME NEW f \in Fiber, NEW k \in Key,
               Get(f, k) \/ Peek(f, k) \/ Refresh(f, k) \/ Invalidate(f, k) \/ Close(f, k)
        PROVE  Inv'
    BY <1>2, <2>2, BeginningsKeep
  <2>3. ASSUME NEW v \in Value, Expire(v) PROVE Inv'
    BY <1>2, <2>3, ExpireKeeps
  <2>4. CASE UNCHANGED vars
    BY <1>2, <2>4, StutterKeeps
  <2>. QED BY <1>2, <2>1, <2>2, <2>3, <2>4 DEF Next
<1>. QED BY <1>1, <1>2, PTL DEF Spec

\* The state of a scoped cache has its types.
THEOREM TypeCorrect ==
  ASSUME ScopedCacheAssumption
  PROVE  Spec => []TypeOK
<1>1. Inv => TypeOK
  BY DEF Inv
<1>. QED BY <1>1, Inductive, PTL

\* A resource that a fiber holds is open, unless the fiber came after the last one
\* had left or the cache gave it up more than once: it is counted, so that nobody
\* else brings the count to zero.
THEOREM HeldStaysOpen ==
  ASSUME ScopedCacheAssumption
  PROVE  Spec => []HeldIsOpen
<1>1. ASSUME Inv PROVE HeldIsOpen
  <2>. SUFFICES ASSUME NEW v \in Value, InUse(v), v \notin late, ~(drops[v] > 1)
                PROVE  scope[v] = "open"
    BY DEF HeldIsOpen
  <2>1. PICK f \in Fiber : pc[f] = "using" /\ value[f] = v
    BY DEF InUse, Users
  <2>2. lookup[v] = "done"
    BY <1>1, <2>1 DEF Inv, FibersRight, FiberRight
  <2>. DEFINE n == Cardinality(Users(v))
  <2>3. n \in Nat /\ n # 0
    BY UsersFinite, FS_EmptySet DEF InUse
  <2>4. /\ owners[v] = 1 + n - drops[v] /\ scope[v] # "none"
        /\ scope[v] = "closed" => drops[v] > 0 /\ (v \in late \/ owners[v] < 1)
    BY <1>1, <2>2 DEF Inv, OwnersCounted, Counted
  <2>. HIDE DEF n
  <2>5. drops[v] \in Nat /\ owners[v] \in Int /\ scope[v] \in {"none", "open", "closed"}
    BY <1>1 DEF Inv, TypeOK
  <2>. QED BY <2>3, <2>4, <2>5
<1>. QED BY <1>1, Inductive, PTL

\* A resource that the cache has and never gave up can be taken.
THEOREM KeptStaysOpen ==
  ASSUME ScopedCacheAssumption
  PROVE  Spec => []KeptIsOpen
<1>1. ASSUME Inv PROVE KeptIsOpen
  <2>. SUFFICES ASSUME NEW v \in Value, lookup[v] = "done", drops[v] = 0
                PROVE  scope[v] = "open"
    BY DEF KeptIsOpen
  <2>1. scope[v] # "none" /\ (scope[v] = "closed" => drops[v] > 0)
    BY <1>1 DEF Inv, OwnersCounted, Counted
  <2>2. scope[v] \in {"none", "open", "closed"}
    BY <1>1 DEF Inv, TypeOK
  <2>. QED BY <2>1, <2>2
<1>. QED BY <1>1, Inductive, PTL

\* Nothing leaks: what nobody uses and the cache no longer has, nor is about to give
\* up, is closed.
THEOREM NothingLeaksAway ==
  ASSUME ScopedCacheAssumption
  PROVE  Spec => []NothingLeaks
<1>1. ASSUME Inv PROVE NothingLeaks
  <2>. SUFFICES ASSUME signals = MaxInterrupts, NEW v \in Value, lookup[v] = "done", ~Kept(v), ~InUse(v),
                       ~Queued(v), \A f \in Fiber : pc[f] \in {"idle", "using"}
                PROVE  scope[v] = "closed"
    BY DEF NothingLeaks
  <2>1. drops[v] # 0
    BY <1>1 DEF Inv, NothingForgotten, Owed
  <2>2. Cardinality(Users(v)) = 0
    BY FS_EmptySet DEF InUse
  <2>3. /\ owners[v] = 1 - drops[v]
        /\ owners[v] < 1 => scope[v] = "closed"
    BY <1>1, <2>2 DEF Inv, OwnersCounted, Counted, TypeOK
  <2>4. drops[v] \in Nat
    BY <1>1 DEF Inv, TypeOK
  <2>. QED BY <2>1, <2>3, <2>4
<1>. QED BY <1>1, Inductive, PTL
----------------------------------------------------------------------------
(* Scoped references: the module ScopedRef, with variables of its own.     *)

CONSTANTS Setter, MaxSets

VARIABLES auto, ref, refScope, owner, closes, lock, step, mine, told, left, lost

Ref == INSTANCE ScopedRef WITH scope <- refScope, pc <- step

refVars == <<auto, ref, refScope, owner, closes, lock, step, mine, told, left, lost>>

\* The setters that have the permit: each has made a scope.
Setting == {"acquiring", "acquired", "refused", "masked", "setting"}

RefTypes ==
  /\ Ref!TypeOK /\ auto \in BOOLEAN
  /\ step \in [Setter -> {"idle", "waiting", "ended"} \cup Setting]
  /\ mine \in [Setter -> 0..Len(refScope)] /\ left \in [Setter -> Nat]

\* One at a time sets the reference, to a scope that it does not have; nobody before
\* there is a reference.
OneSets ==
  /\ \A s \in Setter : s \in lock <=> step[s] \in Setting
  /\ \A s, t \in lock : s = t
  /\ \A s \in lock : mine[s] # 0 /\ mine[s] # ref
  /\ IF owner = "making"
     THEN refScope = <<>> /\ ref = 0 /\ lost = {} /\ \A s \in Setter : step[s] \in {"idle", "ended"}
     ELSE ref # 0

\* Before the reference changes the scope it has is closed; as long as nobody closes
\* the reference nothing else closes a scope that somebody has.  What is set while
\* the reference is being closed is lost.
SetsAreWhole ==
  /\ \A s \in Setter : step[s] \in {"masked", "setting"} => refScope[ref] = "closed"
  /\ owner \in {"open", "stopping"} =>
       /\ \A s \in lock : refScope[mine[s]] = "open"
       /\ refScope[ref] = "open" \/ lost # {} \/ \E s \in Setter : step[s] \in {"masked", "setting"}
  /\ owner = "closing" => closes = ref \/ ref \in lost

\* The scope i is somebody's, or is not open.
Accounted(i) ==
  refScope[i] = "open" => \/ i = ref /\ owner # "closed"
                          \/ \E s \in Setter : mine[s] = i /\ step[s] \in Setting

RefInv == RefTypes /\ OneSets /\ SetsAreWhole /\ \A i \in DOMAIN refScope \ lost : Accounted(i)

\* What is accounted for is what ReleasesTheOld says.
LEMMA AccountedIsReleased ==
  ASSUME RefTypes
  PROVE  Ref!ReleasesTheOld <=> \A i \in DOMAIN refScope \ lost : Accounted(i)
BY DEF Ref!ReleasesTheOld, Accounted, RefTypes, Setting

\* The types, with Ref!TypeOK written out.
LEMMA RefTypesAre ==
  RefTypes <=> /\ ref \in 0..Len(refScope) /\ closes \in 0..Len(refScope) /\ lost \subseteq DOMAIN refScope
               /\ refScope \in Seq({"open", "closed"}) /\ lock \subseteq Setter /\ told \subseteq Setter
               /\ owner \in {"making", "open", "stopping", "closing", "closed"} /\ auto \in BOOLEAN
               /\ step \in [Setter -> {"idle", "waiting", "ended"} \cup Setting]
               /\ mine \in [Setter -> 0..Len(refScope)] /\ left \in [Setter -> Nat]
BY DEF RefTypes, Ref!TypeOK

LEMMA RefInit ==
  ASSUME Ref!ScopedRefAssumption, Ref!Init
  PROVE  RefInv
<1>1. Len(refScope) = 0 /\ refScope = <<>> /\ refScope \in Seq({"open", "closed"}) /\ DOMAIN refScope = {}
  BY DEF Ref!Init
<1>2. RefTypes
  BY <1>1 DEF Ref!Init, Ref!ScopedRefAssumption, RefTypes, Ref!TypeOK, Setting
<1>. QED BY <1>1, <1>2 DEF Ref!Init, RefInv, OneSets, SetsAreWhole, Setting

\* A scope is opened: the others stay what they are.
LEMMA Opened ==
  ASSUME NEW old \in Seq({"open", "closed"}), NEW new, new = Append(old, "open")
  PROVE  /\ new \in Seq({"open", "closed"}) /\ Len(new) = Len(old) + 1 /\ Len(old) \in Nat
         /\ DOMAIN old = 1..Len(old) /\ DOMAIN new = 1..Len(new) /\ new[Len(new)] = "open"
         /\ \A i \in DOMAIN old : new[i] = old[i]
OBVIOUS

\* One is closed.
LEMMA OneClosed ==
  ASSUME NEW old \in Seq({"open", "closed"}), NEW i, NEW new, new = [old EXCEPT ![i] = "closed"]
  PROVE  /\ new \in Seq({"open", "closed"}) /\ Len(new) = Len(old) /\ Len(old) \in Nat
         /\ DOMAIN old = 1..Len(old) /\ DOMAIN new = DOMAIN old /\ (i \in DOMAIN new => new[i] = "closed")
         /\ \A j \in DOMAIN old : j # i => new[j] = old[j]
<1>. DEFINE n == Len(old)
<1>1. n \in Nat /\ DOMAIN old = 1..n /\ old \in [1..n -> {"open", "closed"}]
  OBVIOUS
<1>. HIDE DEF n
<1>2. /\ new \in [1..n -> {"open", "closed"}] /\ (i \in 1..n => new[i] = "closed")
      /\ \A j \in 1..n : j # i => new[j] = old[j]
  BY <1>1
<1>3. new \in Seq({"open", "closed"}) /\ Len(new) = n /\ DOMAIN new = 1..n
  BY <1>1, <1>2
<1>. QED BY <1>1, <1>2, <1>3 DEF n

\* The reference is made, and closed.
LEMMA MakeKeeps ==
  ASSUME RefInv, Ref!fromAcquire
  PROVE  RefInv'
<1>1. /\ refScope = <<>> /\ refScope' = <<"open">> /\ ref' = 1 /\ owner' = "open" /\ lost = {}
      /\ UNCHANGED <<auto, closes, lock, step, mine, told, left, lost>>
      /\ \A s \in Setter : step[s] \in {"idle", "ended"}
  BY DEF Ref!fromAcquire, Ref!setters, RefInv, OneSets
<1>2. /\ Len(refScope') = 1 /\ DOMAIN refScope' = {1} /\ refScope'[1] = "open"
      /\ refScope' \in Seq({"open", "closed"}) /\ Len(refScope) = 0
  <2>. DEFINE one == <<"open">>
  <2>1. one \in Seq({"open", "closed"}) /\ Len(one) = 1 /\ one[1] = "open"
    OBVIOUS
  <2>2. DOMAIN one = 1..1
    BY <2>1
  <2>3. 1..1 = {1} /\ Len(<<>>) = 0
    OBVIOUS
  <2>. HIDE DEF one
  <2>4. refScope' = one
    BY <1>1 DEF one
  <2>. QED BY <1>1, <2>1, <2>2, <2>3, <2>4
<1>3. RefTypes'
  BY <1>1, <1>2 DEF RefInv, RefTypes, Ref!TypeOK
<1>4. OneSets'
  <2>1. lock = {}
    BY <1>1 DEF RefInv, OneSets, RefTypes, Ref!TypeOK, Setting
  <2>. QED BY <1>1, <2>1 DEF RefInv, OneSets
<1>5. SetsAreWhole' /\ \A i \in DOMAIN refScope' \ lost' : Accounted(i)'
  <2>1. lock = {}
    BY <1>1 DEF RefInv, OneSets, RefTypes, Ref!TypeOK, Setting
  <2>. QED BY <1>1, <1>2, <2>1 DEF SetsAreWhole, Accounted
<1>. QED BY <1>3, <1>4, <1>5 DEF RefInv

LEMMA ClosingKeeps ==
  ASSUME RefInv, Ref!Closing
  PROVE  RefInv'
<1>1. /\ UNCHANGED <<auto, ref, refScope, lock, step, mine, left, lost>>
      /\ owner \in {"open", "stopping"} /\ owner' \in {"stopping", "closing"}
      /\ told' \in {told, Setter} /\ (owner' = "closing" => closes' = ref) /\ closes' \in {closes, ref}
  BY DEF Ref!Closing
<1>2. RefTypes'
  BY <1>1 DEF RefInv, RefTypes, Ref!TypeOK
<1>3. OneSets'
  BY <1>1 DEF RefInv, OneSets
<1>4. SetsAreWhole'
  BY <1>1 DEF RefInv, SetsAreWhole
<1>5. \A i \in DOMAIN refScope' \ lost' : Accounted(i)'
  BY <1>1 DEF RefInv, Accounted
<1>. QED BY <1>2, <1>3, <1>4, <1>5 DEF RefInv

LEMMA ClosedKeeps ==
  ASSUME RefInv, Ref!Closed
  PROVE  RefInv'
<1>1. /\ owner = "closing" /\ owner' = "closed" /\ refScope' = [refScope EXCEPT ![closes] = "closed"]
      /\ UNCHANGED <<auto, ref, closes, lock, step, mine, told, left, lost>>
  BY DEF Ref!Closed, Ref!Close, Ref!setters
<1>2. /\ refScope' \in Seq({"open", "closed"}) /\ Len(refScope') = Len(refScope) /\ DOMAIN refScope' = DOMAIN refScope
      /\ \A j \in DOMAIN refScope : refScope'[j] = "open" => refScope[j] = "open" /\ j # closes
      /\ \A j \in DOMAIN refScope : refScope[j] = "closed" => refScope'[j] = "closed"
  BY <1>1, OneClosed DEF RefInv, RefTypes, Ref!TypeOK
<1>3. RefTypes'
  BY <1>1, <1>2 DEF RefInv, RefTypes, Ref!TypeOK
<1>4. OneSets'
  BY <1>1 DEF RefInv, OneSets
<1>5. ref \in DOMAIN refScope
  BY <1>1 DEF RefInv, OneSets, RefTypes, Ref!TypeOK
<1>6. SetsAreWhole'
  BY <1>1, <1>2, <1>5 DEF RefInv, SetsAreWhole
<1>7. ASSUME NEW i \in DOMAIN refScope' \ lost' PROVE Accounted(i)'
  <2>1. Accounted(i) /\ (refScope'[i] = "open" => refScope[i] = "open" /\ i # ref)
    BY <1>1, <1>2 DEF RefInv, SetsAreWhole
  <2>. QED BY <1>1, <2>1 DEF Accounted
<1>. QED BY <1>3, <1>4, <1>6, <1>7 DEF RefInv

\* A setter goes on, and no scope changes.
LEMMA SetterGoesOn ==
  ASSUME RefInv, NEW s \in Setter, NEW to \in {"idle", "waiting", "ended"} \cup Setting,
         step' = [step EXCEPT ![s] = to], UNCHANGED <<auto, ref, refScope, owner, closes, lock, mine, told, lost>>,
         left' \in [Setter -> Nat],
         to \in Setting <=> step[s] \in Setting, owner = "making" => to \in {"idle", "ended"},
         to \in {"masked", "setting"} <=> step[s] \in {"masked", "setting"}
  PROVE  RefInv'
<1>1. step'[s] = to /\ \A t \in Setter \ {s} : step'[t] = step[t]
  BY DEF RefInv, RefTypes
<1>2. RefTypes'
  BY DEF RefInv, RefTypes, Ref!TypeOK
<1>3. OneSets'
  BY <1>1 DEF RefInv, OneSets
<1>4. SetsAreWhole'
  <2>1. \A t \in Setter : step'[t] \in {"masked", "setting"} <=> step[t] \in {"masked", "setting"}
    BY <1>1
  <2>. QED BY <2>1 DEF RefInv, SetsAreWhole
<1>5. \A i \in DOMAIN refScope' \ lost' : Accounted(i)'
  <2>1. \A t \in Setter : step'[t] \in Setting <=> step[t] \in Setting
    BY <1>1
  <2>. QED BY <2>1 DEF RefInv, Accounted
<1>. QED BY <1>2, <1>3, <1>4, <1>5 DEF RefInv

LEMMA SetKeeps ==
  ASSUME RefInv, NEW s \in Setter, Ref!Set(s) \/ Ref!Acquire(s) \/ Ref!End(s)
  PROVE  RefInv'
<1>1. CASE Ref!Set(s)
  <2>1. left' \in [Setter -> Nat]
    BY <1>1 DEF Ref!Set, RefInv, RefTypes
  <2>. QED BY <1>1, <2>1, SetterGoesOn DEF Ref!Set, Ref!Others, Ref!Goes, Setting
<1>2. CASE Ref!Acquire(s)
  <2>1. owner # "making"
    BY <1>2 DEF Ref!Acquire, RefInv, OneSets
  <2>2. left' \in [Setter -> Nat]
    BY <1>2 DEF Ref!Acquire, RefInv, RefTypes
  <2>. QED BY <1>2, <2>1, <2>2, SetterGoesOn DEF Ref!Acquire, Ref!Others, Ref!Goes, Setting
<1>3. CASE Ref!End(s)
  <2>2. left' \in [Setter -> Nat]
    BY <1>3 DEF Ref!End, RefInv, RefTypes
  <2>. QED BY <1>3, <2>2, SetterGoesOn DEF Ref!End, Ref!Others, Ref!Goes, Setting
<1>. QED BY <1>1, <1>2, <1>3

\* With the permit a setter makes a scope.
LEMMA TakeKeeps ==
  ASSUME RefInv, NEW s \in Setter, Ref!Take(s)
  PROVE  RefInv'
<1>. DEFINE n == Len(refScope')
<1>1. /\ step[s] = "waiting" /\ lock = {} /\ lock' = {s} /\ refScope' = Append(refScope, "open")
      /\ mine' = [mine EXCEPT ![s] = n] /\ step' = [step EXCEPT ![s] = "acquiring"]
      /\ UNCHANGED <<auto, owner, closes, told, ref, left, lost>>
  BY DEF Ref!Take, Ref!Goes, Ref!Others
<1>2. /\ refScope' \in Seq({"open", "closed"}) /\ n = Len(refScope) + 1 /\ Len(refScope) \in Nat
      /\ DOMAIN refScope = 1..Len(refScope) /\ DOMAIN refScope' = 1..n /\ refScope'[n] = "open"
      /\ \A i \in DOMAIN refScope : refScope'[i] = refScope[i]
  BY <1>1, Opened DEF RefInv, RefTypes, Ref!TypeOK
<1>. HIDE DEF n
<1>3. /\ mine'[s] = n /\ step'[s] = "acquiring"
      /\ \A t \in Setter \ {s} : mine'[t] = mine[t] /\ step'[t] = step[t]
  BY <1>1 DEF RefInv, RefTypes
<1>4. RefTypes'
  <2>1. /\ ref \in 0..n /\ closes \in 0..n /\ lost \subseteq DOMAIN refScope' /\ 0..Len(refScope) \subseteq 0..n
        /\ n \in 0..n /\ Len(refScope') = n
    BY <1>2 DEF RefInv, RefTypes, Ref!TypeOK, n
  <2>2. mine' \in [Setter -> 0..n]
    BY <1>1, <2>1 DEF RefInv, RefTypes
  <2>3. step' \in [Setter -> {"idle", "waiting", "ended"} \cup Setting]
    BY <1>1 DEF RefInv, RefTypes, Setting
  <2>. QED BY <1>1, <1>2, <2>1, <2>2, <2>3 DEF RefInv, RefTypes, Ref!TypeOK
<1>5. owner # "making" /\ ref \in DOMAIN refScope
  <2>1. owner # "making" /\ ref # 0
    BY <1>1 DEF RefInv, OneSets
  <2>. QED BY <1>2, <2>1 DEF RefInv, RefTypes, Ref!TypeOK
<1>6. OneSets'
  <2>1. n # 0 /\ n # ref
    BY <1>2, <1>5
  <2>. QED BY <1>1, <1>3, <1>5, <2>1 DEF RefInv, OneSets, Setting
<1>7. SetsAreWhole'
  <2>1. \A t \in Setter : step'[t] \in {"masked", "setting"} <=> step[t] \in {"masked", "setting"}
    BY <1>1, <1>3
  <2>. QED BY <1>1, <1>2, <1>3, <1>5, <2>1 DEF RefInv, SetsAreWhole
<1>8. ASSUME NEW i \in DOMAIN refScope' \ lost' PROVE Accounted(i)'
  <2>1. CASE i = n
    BY <1>3, <2>1 DEF Accounted, Setting
  <2>2. CASE i # n
    <3>1. i \in DOMAIN refScope
      BY <1>2, <2>2
    <3>2. Accounted(i)
      BY <1>1, <3>1 DEF RefInv
    <3>. QED BY <1>1, <1>2, <1>3, <3>1, <3>2 DEF Accounted, Setting
  <2>. QED BY <2>1, <2>2
<1>. QED BY <1>4, <1>6, <1>7, <1>8 DEF RefInv

\* It closes the scope of the value before, or its own if it has no value.
LEMMA CloseOneKeeps ==
  ASSUME RefInv, NEW s \in Setter, Ref!CloseOne(s)
  PROVE  RefInv'
<1>1. /\ step[s] \in {"acquired", "refused"}
      /\ lock' = (IF step[s] = "refused" THEN lock \ {s} ELSE lock)
      /\ UNCHANGED <<auto, owner, closes, told, ref, mine, left, lost>>
  BY DEF Ref!CloseOne, Ref!Others
<1>. DEFINE i == IF step[s] = "acquired" THEN ref ELSE mine[s]
            to == IF step[s] = "acquired" THEN "masked" ELSE "idle"
<1>2. refScope' = [refScope EXCEPT ![i] = "closed"] /\ step' = [step EXCEPT ![s] = to]
  BY DEF Ref!CloseOne, Ref!Close, Ref!Goes
<1>3. /\ refScope' \in Seq({"open", "closed"}) /\ Len(refScope') = Len(refScope) /\ Len(refScope) \in Nat
      /\ DOMAIN refScope' = DOMAIN refScope /\ DOMAIN refScope = 1..Len(refScope)
      /\ (i \in DOMAIN refScope => refScope'[i] = "closed") /\ \A j \in DOMAIN refScope : j # i => refScope'[j] = refScope[j]
  <2>. HIDE DEF i
  <2>. QED BY <1>2, OneClosed DEF RefInv, RefTypes, Ref!TypeOK
<1>4. /\ s \in lock /\ owner # "making" /\ ref \in DOMAIN refScope /\ mine[s] \in DOMAIN refScope /\ mine[s] # ref
      /\ \A t \in Setter \ {s} : t \notin lock /\ step[t] \notin Setting
  BY <1>1, <1>3 DEF RefInv, OneSets, RefTypes, Ref!TypeOK, Setting
<1>5. step'[s] = to /\ \A t \in Setter \ {s} : step'[t] = step[t]
  BY <1>2 DEF RefInv, RefTypes
<1>6. RefTypes'
  <2>1. step' \in [Setter -> {"idle", "waiting", "ended"} \cup Setting]
    BY <1>2 DEF RefInv, RefTypes, Setting
  <2>. QED BY <1>1, <1>3, <2>1 DEF RefInv, RefTypes, Ref!TypeOK
<1>7. OneSets'
  BY <1>1, <1>4, <1>5 DEF RefInv, OneSets, Setting
<1>8. SetsAreWhole'
  <2>1. CASE step[s] = "acquired"
    <3>1. i = ref /\ to = "masked" /\ lock' = lock /\ lost' = lost
      BY <2>1, <1>1
    <3>. HIDE DEF i, to
    <3>2. refScope'[ref] = "closed" /\ step'[s] = "masked" /\ refScope'[mine[s]] = refScope[mine[s]]
      BY <1>3, <1>4, <1>5, <3>1
    <3>3. \A t \in lock : t = s
      BY <1>4 DEF RefInv, OneSets
    <3>4. owner \in {"open", "stopping"} => \A t \in lock' : refScope'[mine'[t]] = "open"
      BY <1>1, <1>4, <3>1, <3>2, <3>3 DEF RefInv, SetsAreWhole
    <3>. QED BY <1>1, <3>1, <3>2, <3>4 DEF RefInv, SetsAreWhole
  <2>2. CASE step[s] = "refused"
    <3>1. i = mine[s] /\ to = "idle" /\ refScope'[ref] = refScope[ref]
      BY <1>3, <1>4, <2>2
    <3>2. \A t \in Setter : t \notin lock' /\ step'[t] \notin {"masked", "setting"}
      BY <1>1, <1>4, <1>5, <2>2, <3>1 DEF RefInv, OneSets, Setting, RefTypes, Ref!TypeOK
    <3>3. \A t \in Setter : step[t] \notin {"masked", "setting"}
      BY <1>4, <2>2 DEF Setting
    <3>4. lock' = {}
      BY <1>6, <3>2 DEF RefTypes, Ref!TypeOK
    <3>. QED BY <1>1, <3>1, <3>2, <3>3, <3>4 DEF RefInv, SetsAreWhole
  <2>. QED BY <1>1, <2>1, <2>2
<1>9. ASSUME NEW j \in DOMAIN refScope' \ lost', refScope'[j] = "open" PROVE Accounted(j)'
  <2>1. j # i /\ Accounted(j) /\ refScope[j] = "open"
    BY <1>1, <1>3, <1>9 DEF RefInv
  <2>2. CASE step[s] = "acquired"
    BY <1>1, <1>5, <2>1, <2>2 DEF Accounted, Setting
  <2>3. CASE step[s] = "refused"
    BY <1>1, <1>4, <1>5, <2>1, <2>3 DEF Accounted
  <2>. QED BY <1>1, <2>2, <2>3
<1>10. \A j \in DOMAIN refScope' \ lost' : Accounted(j)'
  BY <1>9 DEF Accounted
<1>. QED BY <1>6, <1>7, <1>8, <1>10 DEF RefInv

\* It is interrupted then, and loses what it made.
LEMMA UnmaskKeeps ==
  ASSUME RefInv, NEW s \in Setter, Ref!Unmask(s)
  PROVE  RefInv'
<1>1. step[s] = "masked" /\ UNCHANGED <<auto, owner, closes, told, ref, refScope, mine, left>>
  BY DEF Ref!Unmask, Ref!Others
<1>2. CASE s \notin told
  <2>1. owner # "making" /\ left \in [Setter -> Nat]
    BY <1>1 DEF RefInv, OneSets, RefTypes
  <2>2. step' = [step EXCEPT ![s] = "setting"] /\ UNCHANGED <<lock, lost>>
    BY <1>2 DEF Ref!Unmask, Ref!Goes
  <2>. QED BY <1>1, <2>1, <2>2, SetterGoesOn DEF Setting
<1>3. CASE s \in told
  <2>1. step' = [step EXCEPT ![s] = "idle"] /\ lock' = lock \ {s} /\ lost' = lost \cup {mine[s]}
    BY <1>3 DEF Ref!Unmask, Ref!Goes
  <2>2. step'[s] = "idle" /\ \A t \in Setter \ {s} : step'[t] = step[t]
    BY <2>1 DEF RefInv, RefTypes
  <2>3. /\ s \in lock /\ owner # "making" /\ mine[s] \in DOMAIN refScope
        /\ \A t \in Setter \ {s} : t \notin lock /\ step[t] \notin Setting
    <3>1. Len(refScope) \in Nat /\ DOMAIN refScope = 1..Len(refScope)
      BY DEF RefInv, RefTypes, Ref!TypeOK
    <3>. QED BY <1>1, <3>1 DEF RefInv, OneSets, RefTypes, Ref!TypeOK, Setting
  <2>4. RefTypes'
    BY <1>1, <2>1, <2>3 DEF RefInv, RefTypes, Ref!TypeOK
  <2>5. OneSets'
    BY <1>1, <2>1, <2>2, <2>3 DEF RefInv, OneSets, Setting
  <2>6. SetsAreWhole'
    <3>1. \A t \in Setter : step'[t] \in {"masked", "setting"} => step[t] \in {"masked", "setting"}
      BY <2>2
    <3>2. lost' # {} /\ \A t \in lock' : t \in lock
      BY <2>1
    <3>. QED BY <1>1, <2>1, <3>1, <3>2 DEF RefInv, SetsAreWhole
  <2>7. \A i \in DOMAIN refScope' \ lost' : Accounted(i)'
    <3>. SUFFICES ASSUME NEW i \in DOMAIN refScope \ lost, i # mine[s] PROVE Accounted(i)'
      BY <1>1, <2>1
    <3>1. Accounted(i)
      BY DEF RefInv
    <3>. QED BY <1>1, <2>2, <3>1 DEF Accounted
  <2>. QED BY <2>4, <2>5, <2>6, <2>7 DEF RefInv
<1>. QED BY <1>2, <1>3

\* The reference changes: what it had is closed by then.
LEMMA ChangeKeeps ==
  ASSUME RefInv, NEW s \in Setter, Ref!Change(s)
  PROVE  RefInv'
<1>1. /\ step[s] = "setting" /\ ref' = mine[s] /\ lock' = lock \ {s} /\ step' = [step EXCEPT ![s] = "idle"]
      /\ lost' = (IF owner \in {"closing", "closed"} THEN lost \cup {mine[s]} ELSE lost)
      /\ UNCHANGED <<auto, owner, closes, told, refScope, mine, left>>
  BY DEF Ref!Change, Ref!Goes, Ref!Others
<1>2. step'[s] = "idle" /\ \A t \in Setter \ {s} : step'[t] = step[t]
  BY <1>1 DEF RefInv, RefTypes
<1>3. /\ s \in lock /\ owner # "making" /\ mine[s] \in DOMAIN refScope /\ mine[s] \in 0..Len(refScope) /\ mine[s] # 0
      /\ \A t \in Setter \ {s} : t \notin lock /\ step[t] \notin Setting
      /\ refScope[ref] = "closed"
  <2>1. Len(refScope) \in Nat /\ DOMAIN refScope = 1..Len(refScope)
    BY DEF RefInv, RefTypes, Ref!TypeOK
  <2>. QED BY <1>1, <2>1 DEF RefInv, OneSets, SetsAreWhole, RefTypes, Ref!TypeOK, Setting
<1>4. RefTypes'
  BY <1>1, <1>3 DEF RefInv, RefTypes, Ref!TypeOK
<1>5. lock' = {} /\ \A t \in Setter : step'[t] \notin Setting
  BY <1>1, <1>2, <1>3, <1>4 DEF RefTypes, Ref!TypeOK, Setting
<1>6. OneSets'
  BY <1>1, <1>3, <1>5 DEF RefInv, OneSets
<1>7. SetsAreWhole'
  <2>1. owner \in {"open", "stopping"} => refScope[mine[s]] = "open"
    BY <1>3 DEF RefInv, SetsAreWhole
  <2>2. owner = "closing" => mine[s] \in lost'
    BY <1>1
  <2>. QED BY <1>1, <1>5, <2>1, <2>2 DEF SetsAreWhole, Setting
<1>8. ASSUME NEW i \in DOMAIN refScope' \ lost' PROVE Accounted(i)'
  <2>1. i \in DOMAIN refScope \ lost /\ Accounted(i)
    BY <1>1 DEF RefInv
  <2>2. CASE i = mine[s]
    <3>1. owner # "closed"
      BY <1>1, <2>2
    <3>. QED BY <1>1, <2>2, <3>1 DEF Accounted
  <2>3. CASE i # mine[s]
    BY <1>1, <1>3, <2>1, <2>3 DEF Accounted
  <2>. QED BY <2>2, <2>3
<1>. QED BY <1>4, <1>6, <1>7, <1>8 DEF RefInv

\* What is left: an interruption, and nothing.
LEMMA NothingChanges ==
  ASSUME RefInv, told' \subseteq Setter,
         UNCHANGED <<auto, ref, refScope, owner, closes, lock, step, mine, left, lost>>
  PROVE  RefInv'
<1>1. RefTypes'
  BY DEF RefInv, RefTypes, Ref!TypeOK
<1>2. OneSets' /\ SetsAreWhole'
  BY DEF RefInv, OneSets, SetsAreWhole
<1>3. \A i \in DOMAIN refScope' \ lost' : Accounted(i)'
  BY DEF RefInv, Accounted
<1>. QED BY <1>1, <1>2, <1>3 DEF RefInv

LEMMA RefInductive ==
  ASSUME Ref!ScopedRefAssumption
  PROVE  Ref!Spec => []RefInv
<1>1. Ref!Init => RefInv
  BY RefInit
<1>2. ASSUME RefInv, [Ref!Next]_(Ref!vars) PROVE RefInv'
  <2>1. CASE Ref!fromAcquire \/ Ref!Closing \/ Ref!Closed
    BY <1>2, <2>1, MakeKeeps, ClosingKeeps, ClosedKeeps
  <2>2. ASSUME NEW s \in Setter,
               \/ Ref!Set(s) \/ Ref!Take(s) \/ Ref!Acquire(s) \/ Ref!CloseOne(s) \/ Ref!Unmask(s)
               \/ Ref!Change(s) \/ Ref!End(s)
        PROVE  RefInv'
    BY <1>2, <2>2, SetKeeps, TakeKeeps, CloseOneKeeps, UnmaskKeeps, ChangeKeeps
  <2>3. ASSUME NEW s \in Setter, Ref!Interrupt(s) PROVE RefInv'
    <3>1. /\ told' \subseteq Setter
          /\ UNCHANGED <<auto, ref, refScope, owner, closes, lock, step, mine, left, lost>>
      BY <1>2, <2>3 DEF Ref!Interrupt, RefInv, RefTypes, Ref!TypeOK
    <3>. QED BY <1>2, <3>1, NothingChanges
  <2>4. CASE UNCHANGED Ref!vars
    <3>1. /\ told' \subseteq Setter
          /\ UNCHANGED <<auto, ref, refScope, owner, closes, lock, step, mine, left, lost>>
      BY <1>2, <2>4 DEF Ref!vars, Ref!setters, RefInv, RefTypes, Ref!TypeOK
    <3>. QED BY <1>2, <3>1, NothingChanges
  <2>. QED BY <1>2, <2>1, <2>2, <2>3, <2>4 DEF Ref!Next
<1>. QED BY <1>1, <1>2, PTL DEF Ref!Spec

\* A scoped reference releases the value it no longer has, and one that it never
\* got, but for what an interrupted set has lost or was set when the reference was
\* closed; and the last one when it is closed.
THEOREM ReleasesOldValues ==
  ASSUME Ref!ScopedRefAssumption
  PROVE  Ref!Spec => []Ref!ReleasesTheOld
<1>1. RefInv => Ref!ReleasesTheOld
  BY AccountedIsReleased DEF RefInv
<1>. QED BY <1>1, RefInductive, PTL

\* Who reads it between two sets sees a value that is not released.
THEOREM ReadersSeeOpenValues ==
  ASSUME Ref!ScopedRefAssumption
  PROVE  Ref!Spec => []Ref!ReadsWhatIsOpen
<1>1. ASSUME RefInv PROVE Ref!ReadsWhatIsOpen
  <2>1. lock = {} => \A s \in Setter : step[s] \notin {"masked", "setting"}
    BY <1>1 DEF RefInv, OneSets, Setting
  <2>. QED BY <1>1, <2>1 DEF Ref!ReadsWhatIsOpen, RefInv, SetsAreWhole
<1>. QED BY <1>1, RefInductive, PTL
=============================================================================
