----------------------------- MODULE PoolProofs -----------------------------
(***************************************************************************)
(* Proofs about the pool, for every set of users, every minimum and maximum,  *)
(* and every number of gets, invalidations and interruptions.                 *)
(*                                                                         *)
(* Inv is what keeps the two numbers right: in every step of a fiber the      *)
(* numbers change as the counts of the fibers do (Step, SumsBy), and an       *)
(* attempt goes from one place to one other.  Fixed is about pools of fixed   *)
(* size: such a pool grows until it has its size, never shrinks, and once it   *)
(* is shut down somebody is always on the way to find that it is empty.       *)
(***************************************************************************)
EXTENDS Pool, FiniteSetTheorems, TLAPS

----------------------------------------------------------------------------
(* The fibers, by where they are.                                          *)

\* Where a fiber has an attempt or the place of one, brings one, or has one.
PlacedAt   == Disposal \cup {"allocate", "retry", "offer", "check", "use", "putBack", "failed",
                             "replace", "closed", "dropped"}
BringingAt == {"allocate", "retry", "offer"}
HoldingAt  == Disposal \cup {"offer", "check", "use", "putBack", "failed"}

\* Where it goes on: none of these.
Elsewhere == {"acquire", "idle", "sleep", "await", "initialize"}

\* How many more there are in L when one goes there from k to l.
One(L, l)     == IF l \in L THEN 1 ELSE 0
More(L, k, l) == One(L, l) - One(L, k)
In(L)         == {g \in Fiber : pc[g] \in L}

\* The types of what the other parts of the invariant speak of.
Typed == /\ pc \in [Fiber -> Labels] /\ held \in [Fiber -> Attempt \cup {0}]
         /\ items \in Seq(Attempt) /\ takers \in Seq(Fiber)
         /\ attempts \in [Attempt -> {"none", "ok", "failed"}]
         /\ size \in Int /\ free \in Int /\ signals \in Nat /\ lost \in [size : Nat, free : Nat]

\* Who waits is there to take, once.
TakersWait == /\ \A i \in 1..Len(takers) : pc[takers[i]] \in Takes
              /\ \A i, j \in 1..Len(takers) : takers[i] = takers[j] => i = j
              /\ takers # <<>> => items = <<>>
              /\ shut => takers = <<>>

\* Where a fiber has an attempt, it has one.
HoldersHave == \A f \in Fiber : pc[f] \in HoldingAt => held[f] # 0

Inv == TypeOK /\ TakersWait /\ HoldersHave /\ LentOnce /\ Accounted

LEMMA Fibers ==
  ASSUME PoolAssumption
  PROVE  /\ IsFiniteSet(Fiber) /\ User \subseteq Fiber
         /\ "initialize" \in Fiber /\ "shrink" \in Fiber /\ "shutdown" \in Fiber
<1>1. IsFiniteSet(User)
  BY DEF PoolAssumption
<1>2. IsFiniteSet({"initialize", "shrink", "shutdown"})
  <2>1. IsFiniteSet({} \cup {"initialize"})
    BY FS_EmptySet, FS_AddElement
  <2>2. IsFiniteSet(({} \cup {"initialize"}) \cup {"shrink"})
    BY <2>1, FS_AddElement
  <2>3. IsFiniteSet((({} \cup {"initialize"}) \cup {"shrink"}) \cup {"shutdown"})
    BY <2>2, FS_AddElement
  <2>4. (({} \cup {"initialize"}) \cup {"shrink"}) \cup {"shutdown"} = {"initialize", "shrink", "shutdown"}
    OBVIOUS
  <2> QED BY <2>3, <2>4
<1>3. IsFiniteSet(Fiber)
  BY <1>1, <1>2, FS_Union DEF Fiber
<1> QED BY <1>3 DEF Fiber

\* When one fiber goes elsewhere, the others are counted as before.
At(L, p)          == {g \in Fiber : p[g] \in L}
Moves(p, q, f, l) == \A g \in Fiber : q[g] = IF g = f THEN l ELSE p[g]

LEMMA CountMoved ==
  ASSUME PoolAssumption, NEW p, NEW q, NEW f \in Fiber, NEW l, Moves(p, q, f, l)
  PROVE  \A L : /\ Cardinality(At(L, p)) \in Nat
                /\ Cardinality(At(L, q)) = Cardinality(At(L, p)) + More(L, p[f], l)
<1> TAKE L
<1> DEFINE S == At(L, p)  T == At(L, q)  R == S \ {f}
<1>1. IsFiniteSet(Fiber) /\ S \in SUBSET Fiber
  BY Fibers DEF At
<1>2. IsFiniteSet(S)
  <2> HIDE DEF S
  <2> QED BY <1>1, FS_Subset
<1>3. f \in S <=> p[f] \in L
  BY DEF At
<1>4. T = IF l \in L THEN R \cup {f} ELSE R
  BY DEF At, Moves
<1> HIDE DEF S, T
<1>5. Cardinality(S) \in Nat
  BY <1>2, FS_CardinalityType
<1>6. IsFiniteSet(R) /\ Cardinality(R) = Cardinality(S) - One(L, p[f])
  BY <1>2, <1>3, <1>5, FS_RemoveElement DEF One
<1>7. Cardinality(R) \in Nat /\ f \notin R
  BY <1>6, FS_CardinalityType
<1> HIDE DEF R
<1>8. Cardinality(T) = Cardinality(R) + One(L, l)
  <2>1. Cardinality(R \cup {f}) = Cardinality(R) + 1
    BY <1>6, <1>7, FS_AddElement
  <2>2. CASE l \in L
    BY <1>4, <2>1, <2>2 DEF One
  <2>3. CASE l \notin L
    BY <1>4, <1>7, <2>3 DEF One
  <2> QED BY <2>2, <2>3
<1>9. One(L, l) \in Int /\ One(L, p[f]) \in Int
  BY DEF One
<1>10. Cardinality(T) = Cardinality(S) + More(L, p[f], l)
  BY <1>5, <1>6, <1>7, <1>8, <1>9 DEF More
<1> QED BY <1>5, <1>10 DEF S, T

LEMMA CountMoves ==
  ASSUME PoolAssumption, NEW f \in Fiber, NEW l,
         \A g \in Fiber : pc'[g] = IF g = f THEN l ELSE pc[g]
  PROVE  \A L : /\ Cardinality(In(L)) \in Nat
                /\ Cardinality(In(L)') = Cardinality(In(L)) + More(L, pc[f], l)
<1> TAKE L
<1>0. Moves(pc, pc', f, l)
  BY DEF Moves
<1>1. /\ Cardinality(At(L, pc)) \in Nat
      /\ Cardinality(At(L, pc')) = Cardinality(At(L, pc)) + More(L, pc[f], l)
  BY <1>0, CountMoved
<1>2. In(L) = At(L, pc) /\ In(L)' = At(L, pc')
  BY DEF In, At
<1> QED BY <1>1, <1>2

\* ... and when two do.
BothMove(f, l, t, m) == \A g \in Fiber : pc'[g] = IF g = f THEN l ELSE IF g = t THEN m ELSE pc[g]

LEMMA CountBoth ==
  ASSUME PoolAssumption, NEW f \in Fiber, NEW l, NEW t \in Fiber, NEW m, f # t, BothMove(f, l, t, m)
  PROVE  \A L : Cardinality(In(L)') = Cardinality(In(L)) + More(L, pc[f], l) + More(L, pc[t], m)
<1> TAKE L
<1> DEFINE p == [g \in Fiber |-> IF g = f THEN l ELSE pc[g]]
<1>1. Moves(pc, p, f, l) /\ Moves(p, pc', t, m) /\ p[t] = pc[t]
  BY DEF Moves, BothMove
<1> HIDE DEF p
<1>2. Cardinality(At(L, p)) = Cardinality(At(L, pc)) + More(L, pc[f], l)
  BY <1>1, CountMoved
<1>3. Cardinality(At(L, pc')) = Cardinality(At(L, p)) + More(L, p[t], m)
  BY <1>1, CountMoved
<1>4. In(L) = At(L, pc) /\ In(L)' = At(L, pc')
  BY DEF In, At
<1> QED BY <1>1, <1>2, <1>3, <1>4

\* The three counts of Accounted.
Sums == ~shut => /\ size = Len(items) + Cardinality(In(PlacedAt)) + lost.size - signals
                 /\ free = Len(items) + Cardinality(In(BringingAt)) - Cardinality(In(Takes)) + lost.free

LEMMA SumsUp ==
  (Accounted <=> Sums) /\ (Accounted' <=> Sums')
<1>1. Placed = In(PlacedAt) /\ Bringing = In(BringingAt) /\ Taking = In(Takes)
  BY DEF Placed, In, PlacedAt, Bringing, BringingAt, Taking
<1>2. Placed' = In(PlacedAt)' /\ Bringing' = In(BringingAt)' /\ Taking' = In(Takes)'
  BY DEF Placed, In, PlacedAt, Bringing, BringingAt, Taking, Disposal, Takes
<1> QED BY <1>1, <1>2 DEF Accounted, Sums

\* A step that changes the numbers as it changes the counts.
LEMMA SumsBy ==
  ASSUME PoolAssumption, Inv, NEW d \in Int, NEW x \in Int, NEW y \in Int, NEW z \in Int,
         Cardinality(In(PlacedAt)') = Cardinality(In(PlacedAt)) + x,
         Cardinality(In(BringingAt)') = Cardinality(In(BringingAt)) + y,
         Cardinality(In(Takes)') = Cardinality(In(Takes)) + z,
         Len(items') = Len(items) + d, shut' = shut, lost' \in [size : Nat, free : Nat],
         size' \in Int, free' \in Int, signals' \in Int,
         size' + signals' = size + signals + d + x + (lost'.size - lost.size),
         free' = free + d + y - z + (lost'.free - lost.free)
  PROVE  Accounted'
<1> DEFINE p == Cardinality(In(PlacedAt))  b == Cardinality(In(BringingAt))  t == Cardinality(In(Takes))
           p1 == Cardinality(In(PlacedAt)')  b1 == Cardinality(In(BringingAt)')  t1 == Cardinality(In(Takes)')
           n == Len(items)
           s == size  r == free  g0 == signals  s1 == size'  r1 == free'  g1 == signals'
           ls == lost.size  lf == lost.free  ls1 == lost'.size  lf1 == lost'.free
<1>0. d \in Int /\ x \in Int /\ y \in Int /\ z \in Int
  OBVIOUS
<1>1. items \in Seq(Attempt) /\ lost \in [size : Nat, free : Nat]
      /\ size \in Int /\ free \in Int /\ signals \in Nat
  BY DEF Inv, TypeOK
<1>2. \A L : Cardinality(In(L)) \in Nat
  <2> TAKE L
  <2>1. In(L) \in SUBSET Fiber /\ IsFiniteSet(Fiber)
    BY Fibers DEF In
  <2>2. IsFiniteSet(In(L))
    BY <2>1, FS_Subset
  <2> QED BY <2>2, FS_CardinalityType
<1>3. p \in Int /\ b \in Int /\ t \in Int /\ p1 = p + x /\ b1 = b + y /\ t1 = t + z
  BY <1>2
<1>4. n \in Int /\ s \in Int /\ r \in Int /\ g0 \in Int /\ ls \in Int /\ lf \in Int
  BY <1>1
<1>5. s1 \in Int /\ r1 \in Int /\ g1 \in Int
  OBVIOUS
<1>6. ls1 \in Int /\ lf1 \in Int
  OBVIOUS
<1>7. s1 + g1 = s + g0 + d + x + (ls1 - ls) /\ r1 = r + d + y - z + (lf1 - lf)
  OBVIOUS
<1>8. ASSUME ~shut PROVE s = n + p + ls - g0 /\ r = n + b - t + lf
  BY <1>8, SumsUp DEF Inv, Sums
<1>9. ASSUME ~shut PROVE s1 = (n + d) + p1 + ls1 - g1 /\ r1 = (n + d) + b1 - t1 + lf1
  <2>1. s = n + p + ls - g0 /\ r = n + b - t + lf
    BY <1>8, <1>9
  <2> HIDE DEF p, b, t, p1, b1, t1, n, s, r, g0, s1, r1, g1, ls, lf, ls1, lf1
  <2>2. s1 = (n + d) + (p + x) + ls1 - g1 /\ r1 = (n + d) + (b + y) - (t + z) + lf1
    BY ONLY <1>0, <1>3, <1>4, <1>5, <1>6, <1>7, <2>1
  <2> QED BY <1>3, <2>2
<1>10. Sums'
  BY <1>9 DEF Sums
<1> QED BY <1>10, SumsUp

\* ... of one fiber.
LEMMA SumsMove ==
  ASSUME PoolAssumption, Inv, NEW f \in Fiber, NEW l, NEW d \in Int,
         NEW x \in Int, NEW y \in Int, NEW z \in Int,
         x = More(PlacedAt, pc[f], l), y = More(BringingAt, pc[f], l), z = More(Takes, pc[f], l),
         \A g \in Fiber : pc'[g] = IF g = f THEN l ELSE pc[g],
         Len(items') = Len(items) + d, shut' = shut, lost' \in [size : Nat, free : Nat],
         size' \in Int, free' \in Int, signals' \in Int,
         size' + signals' = size + signals + d + x + (lost'.size - lost.size),
         free' = free + d + y - z + (lost'.free - lost.free)
  PROVE  Accounted'
<1>1. \A L : Cardinality(In(L)') = Cardinality(In(L)) + More(L, pc[f], l)
  BY CountMoves
<1>2. /\ Cardinality(In(PlacedAt)') = Cardinality(In(PlacedAt)) + x
      /\ Cardinality(In(BringingAt)') = Cardinality(In(BringingAt)) + y
      /\ Cardinality(In(Takes)') = Cardinality(In(Takes)) + z
  BY <1>1
<1> QED BY <1>2, SumsBy

\* Where a fiber has a place and does not bring it, and where it counts for nothing.
KeepingAt == PlacedAt \ BringingAt
NotAt     == Elsewhere \cup {"reserve", "track", "getAndShutdown", "signal", "shrink", "shutdown", "end"}

LEMMA Kinds ==
  /\ Labels = NotAt \cup Takes \cup KeepingAt \cup BringingAt
  /\ BringingAt \subseteq PlacedAt /\ HoldingAt \subseteq PlacedAt /\ KeepingAt \subseteq PlacedAt
  /\ NotAt \cap Takes = {} /\ NotAt \cap PlacedAt = {} /\ Takes \cap PlacedAt = {}
  /\ KeepingAt \cap BringingAt = {}
BY DEF Labels, NotAt, Elsewhere, Takes, PlacedAt, BringingAt, KeepingAt, HoldingAt, Disposal

LEMMA CountsOf ==
  /\ \A l \in NotAt : One(PlacedAt, l) = 0 /\ One(BringingAt, l) = 0 /\ One(Takes, l) = 0
  /\ \A l \in Takes : One(PlacedAt, l) = 0 /\ One(BringingAt, l) = 0 /\ One(Takes, l) = 1
  /\ \A l \in BringingAt : One(PlacedAt, l) = 1 /\ One(BringingAt, l) = 1 /\ One(Takes, l) = 0
  /\ \A l \in KeepingAt : One(PlacedAt, l) = 1 /\ One(BringingAt, l) = 0 /\ One(Takes, l) = 0
BY Kinds DEF One

\* ... place by place.
LEMMA Places ==
  /\ {"acquire", "idle", "sleep", "await", "initialize", "reserve", "track", "getAndShutdown",
      "signal", "shrink", "shutdown", "end"} \subseteq NotAt \ HoldingAt
  /\ {"invalid", "drop", "close", "check", "use", "putBack", "failed"} \subseteq KeepingAt \cap HoldingAt
  /\ {"replace", "closed", "dropped"} \subseteq KeepingAt \ HoldingAt
  /\ {"allocate", "retry"} \subseteq BringingAt \ HoldingAt /\ "offer" \in BringingAt \cap HoldingAt
  /\ {"take", "takeLast", "takeExcess"} \subseteq Takes \ HoldingAt
  /\ NotAt \subseteq Labels /\ KeepingAt \subseteq Labels /\ BringingAt \subseteq Labels /\ Takes \subseteq Labels
BY DEF Labels, NotAt, Elsewhere, Takes, PlacedAt, BringingAt, KeepingAt, HoldingAt, Disposal

----------------------------------------------------------------------------
(* Steps of one fiber that leave the queue and the attempts alone.         *)

LEMMA OnElsewhere ==
  ASSUME PoolAssumption, NEW f \in Fiber
  PROVE  /\ On(f) \in Elsewhere /\ Home(f) \in Elsewhere
         /\ On(f) = "initialize" => f = "initialize"
         /\ Home("shrink") = "sleep" /\ Home("shutdown") = "await"
BY DEF PoolAssumption, Fiber, On, Home, Elsewhere

LEMMA PlainKeeps ==
  ASSUME PoolAssumption, Inv, NEW f \in Fiber, NEW l \in Labels, Jumps(f, l),
         UNCHANGED <<queue, things, lost>>,
         pc[f] \notin Takes, l \in HoldingAt => pc[f] \in HoldingAt,
         size' \in Int, free' \in Int, signals' \in Int,
         size' + signals' = size + signals + More(PlacedAt, pc[f], l),
         free' = free + More(BringingAt, pc[f], l) - More(Takes, pc[f], l)
  PROVE  TakersWait' /\ HoldersHave' /\ LentOnce' /\ Accounted'
<1>1. /\ pc \in [Fiber -> Labels] /\ takers \in Seq(Fiber) /\ items \in Seq(Attempt)
      /\ lost \in [size : Nat, free : Nat] /\ size \in Int /\ free \in Int /\ signals \in Nat
  BY DEF Inv, TypeOK
<1>2. \A g \in Fiber : pc'[g] = IF g = f THEN l ELSE pc[g]
  BY <1>1 DEF Jumps
<1>3. /\ items' = items /\ takers' = takers /\ shut' = shut /\ attempts' = attempts /\ held' = held
      /\ lost' = lost
  BY DEF queue, things
<1>4. TakersWait'
  <2>1. \A i \in 1..Len(takers) : takers[i] \in Fiber /\ pc[takers[i]] \in Takes
    BY <1>1 DEF Inv, TakersWait
  <2>2. \A i \in 1..Len(takers) : pc'[takers[i]] \in Takes
    BY <1>2, <2>1
  <2> QED BY <1>3, <2>2 DEF Inv, TakersWait
<1>5. HoldersHave'
  BY <1>2, <1>3 DEF Inv, HoldersHave
<1>6. LentOnce'
  BY <1>3 DEF Inv, LentOnce
<1>7. Accounted'
  <2> DEFINE x == More(PlacedAt, pc[f], l)  y == More(BringingAt, pc[f], l)  z == More(Takes, pc[f], l)
  <2>1. x \in Int /\ y \in Int /\ z \in Int
    BY DEF More, One
  <2>2. size' + signals' = size + signals + x /\ free' = free + y - z
    OBVIOUS
  <2>3. x = More(PlacedAt, pc[f], l) /\ y = More(BringingAt, pc[f], l) /\ z = More(Takes, pc[f], l)
    OBVIOUS
  <2> DEFINE d == 0
  <2> HIDE DEF x, y, z
  <2>4. lost.size \in Nat /\ lost.free \in Nat /\ Len(items) \in Nat
    BY <1>1
  <2>5. size' + signals' = size + signals + d + x + (lost'.size - lost.size)
    <3>1. lost'.size - lost.size = 0 /\ size + signals \in Int
      BY <1>1, <1>3, <2>4
    <3> QED BY <2>1, <2>2, <3>1
  <2>6. free' = free + d + y - z + (lost'.free - lost.free)
    <3>1. lost'.free - lost.free = 0
      BY <1>3, <2>4
    <3> QED BY <1>1, <2>1, <2>2, <3>1
  <2>7. Len(items') = Len(items) + d /\ lost' \in [size : Nat, free : Nat] /\ d \in Int
    BY <1>1, <1>3, <2>4
  <2> HIDE DEF d
  <2> QED BY <1>2, <1>3, <2>1, <2>3, <2>5, <2>6, <2>7, SumsMove
<1> QED BY <1>4, <1>5, <1>6, <1>7

\* ... when the queue is shut down nothing is counted.
LEMMA ShutKeeps ==
  ASSUME PoolAssumption, Inv, NEW f \in Fiber, NEW l \in Labels, Jumps(f, l), shut,
         UNCHANGED <<queue, things>>, l \notin HoldingAt
  PROVE  TakersWait' /\ HoldersHave' /\ LentOnce' /\ Accounted'
<1>1. /\ pc \in [Fiber -> Labels] /\ takers = <<>>
  BY DEF Inv, TypeOK, TakersWait
<1>2. \A g \in Fiber : pc'[g] = IF g = f THEN l ELSE pc[g]
  BY <1>1 DEF Jumps
<1>3. /\ items' = items /\ takers' = takers /\ shut' = shut /\ attempts' = attempts /\ held' = held
  BY DEF queue, things
<1>4. TakersWait'
  BY <1>1, <1>3 DEF TakersWait
<1>5. HoldersHave'
  BY <1>2, <1>3 DEF Inv, HoldersHave
<1>6. LentOnce'
  BY <1>3 DEF Inv, LentOnce
<1>7. Accounted'
  BY <1>3 DEF Accounted
<1> QED BY <1>4, <1>5, <1>6, <1>7

\* The step of a fiber to l, with nothing of the queue or of the attempts.
Plain(f, l) ==
  /\ pc' = [pc EXCEPT ![f] = l] /\ again' \subseteq User /\ UNCHANGED <<queue, things, pool, calls, lost>>

LEMMA StepTyped ==
  ASSUME PoolAssumption, Inv, NEW f \in Fiber, NEW l \in Labels, Plain(f, l),
         size' \in Int, size' <= pool.max, free' \in Int, signals' \in Nat,
         isShuttingDown' \in BOOLEAN, left' \in [Fiber -> Nat]
  PROVE  TypeOK'
BY DEF Inv, TypeOK, Plain, queue, things

LEMMA TooLateKeeps ==
  ASSUME PoolAssumption, Inv, NEW f \in Fiber, TooLate(f)
  PROVE  Inv'
<1>1. PICK l \in Labels : Plain(f, l) /\ l \notin HoldingAt /\ Jumps(f, l)
  <2>1. On(f) \in Labels /\ On(f) \notin HoldingAt /\ "end" \in Labels /\ "end" \notin HoldingAt
        /\ again \subseteq User
    BY OnElsewhere DEF Elsewhere, Labels, HoldingAt, Disposal, Takes, Inv, TypeOK
  <2> QED BY <2>1 DEF TooLate, GoesOn, Goes, Jumps, Plain, rest
<1>2. TypeOK'
  BY <1>1, StepTyped DEF TooLate, numbers, rest, Inv, TypeOK
<1>3. TakersWait' /\ HoldersHave' /\ LentOnce' /\ Accounted'
  BY <1>1, ShutKeeps DEF TooLate
<1> QED BY <1>2, <1>3 DEF Inv

\* ... where the numbers change as the counts do.
Totals(s, n) == size' + signals' = size + signals + s /\ free' = free + n

Step(f, l) ==
  /\ Plain(f, l) /\ l \in Labels /\ (l \in HoldingAt => pc[f] \in HoldingAt)
  /\ size' \in Int /\ size' <= pool.max /\ signals' \in Nat /\ free' \in Int
  /\ isShuttingDown' \in BOOLEAN /\ left' \in [Fiber -> Nat]
  /\ \/ pc[f] \in NotAt /\ l \in NotAt /\ Totals(0, 0)
     \/ pc[f] \in NotAt /\ l \in Takes /\ Totals(0, -1)
     \/ pc[f] \in NotAt /\ l \in BringingAt /\ Totals(1, 1)
     \/ pc[f] \in KeepingAt /\ l \in NotAt /\ Totals(-1, 0)
     \/ pc[f] \in KeepingAt /\ l \in KeepingAt /\ Totals(0, 0)
     \/ pc[f] \in KeepingAt /\ l \in BringingAt /\ Totals(0, 1)
     \/ pc[f] \in BringingAt /\ l \in BringingAt /\ Totals(0, 0)

LEMMA StepKeeps ==
  ASSUME PoolAssumption, Inv, NEW f \in Fiber, NEW l, Step(f, l)
  PROVE  Inv'
<1> DEFINE k == pc[f]  x == More(PlacedAt, k, l)  y == More(BringingAt, k, l)  z == More(Takes, k, l)
<1>1. TypeOK'
  BY StepTyped DEF Step
<1>2. Jumps(f, l) /\ UNCHANGED <<queue, things, lost>> /\ signals' \in Int
  BY DEF Step, Plain, Jumps
<1>3. pc[f] \notin Takes
  BY Kinds DEF Step
<1>4. size \in Int /\ signals \in Int /\ free \in Int
  BY DEF Inv, TypeOK
<1>5. Totals(x, y - z)
  <2>1. CASE k \in NotAt /\ l \in NotAt /\ Totals(0, 0)
    <3>1. x = 0 /\ y = 0 /\ z = 0
      BY <2>1, CountsOf DEF More
    <3> HIDE DEF x, y, z
    <3> QED BY <2>1, <3>1
  <2>2. CASE k \in NotAt /\ l \in Takes /\ Totals(0, -1)
    <3>1. x = 0 /\ y = 0 /\ z = 1
      BY <2>2, CountsOf DEF More
    <3> HIDE DEF x, y, z
    <3> QED BY <2>2, <3>1
  <2>3. CASE k \in NotAt /\ l \in BringingAt /\ Totals(1, 1)
    <3>1. x = 1 /\ y = 1 /\ z = 0
      BY <2>3, CountsOf DEF More
    <3> HIDE DEF x, y, z
    <3> QED BY <2>3, <3>1
  <2>4. CASE k \in KeepingAt /\ l \in NotAt /\ Totals(-1, 0)
    <3>1. x = -1 /\ y = 0 /\ z = 0
      BY <2>4, CountsOf DEF More
    <3> HIDE DEF x, y, z
    <3> QED BY <2>4, <3>1
  <2>5. CASE k \in KeepingAt /\ l \in KeepingAt /\ Totals(0, 0)
    <3>1. x = 0 /\ y = 0 /\ z = 0
      BY <2>5, CountsOf DEF More
    <3> HIDE DEF x, y, z
    <3> QED BY <2>5, <3>1
  <2>6. CASE k \in KeepingAt /\ l \in BringingAt /\ Totals(0, 1)
    <3>1. x = 0 /\ y = 1 /\ z = 0
      BY <2>6, CountsOf DEF More
    <3> HIDE DEF x, y, z
    <3> QED BY <2>6, <3>1
  <2>7. CASE k \in BringingAt /\ l \in BringingAt /\ Totals(0, 0)
    <3>1. x = 0 /\ y = 0 /\ z = 0
      BY <2>7, CountsOf DEF More
    <3> HIDE DEF x, y, z
    <3> QED BY <2>7, <3>1
  <2> QED BY <2>1, <2>2, <2>3, <2>4, <2>5, <2>6, <2>7 DEF Step
<1>6. x \in Int /\ y \in Int /\ z \in Int
  BY DEF More, One
<1>7. /\ size' + signals' = size + signals + More(PlacedAt, pc[f], l)
      /\ free' = free + More(BringingAt, pc[f], l) - More(Takes, pc[f], l)
  <2>1. size' + signals' = size + signals + x /\ free' = free + (y - z)
    BY <1>5 DEF Totals
  <2>2. size' + signals' = size + signals + x /\ free' = free + y - z
    <3> HIDE DEF x, y, z
    <3> QED BY <1>4, <1>6, <2>1
  <2> QED BY <2>2
<1>8. TakersWait' /\ HoldersHave' /\ LentOnce' /\ Accounted'
  <2>1. l \in Labels /\ (l \in HoldingAt => pc[f] \in HoldingAt) /\ size' \in Int /\ free' \in Int
    BY DEF Step
  <2> HIDE DEF x, y, z
  <2> QED BY <1>2, <1>3, <1>7, <2>1, PlainKeeps
<1> QED BY <1>1, <1>8 DEF Inv

\* Going on.
LEMMA OnIs ==
  ASSUME PoolAssumption, NEW f \in Fiber
  PROVE  On(f) \in NotAt /\ On(f) \in Labels /\ On(f) \notin HoldingAt
BY OnElsewhere, Kinds DEF NotAt

LEMMA Numbers ==
  ASSUME PoolAssumption, Inv
  PROVE  /\ pool.min \in Int /\ pool.max \in Int /\ pool.min <= pool.max /\ 0 <= pool.min
         /\ size \in Int /\ size <= pool.max /\ free \in Int /\ signals \in Nat
         /\ isShuttingDown \in BOOLEAN /\ left \in [Fiber -> Nat] /\ again \subseteq User
<1>1. pool \in [min : Nat, max : Nat \ {0}, ttl : BOOLEAN] /\ pool.min <= pool.max
  BY DEF PoolAssumption, Inv, TypeOK
<1> QED BY <1>1 DEF Inv, TypeOK

LEMMA TrackKeeps ==
  ASSUME PoolAssumption, Inv, NEW f \in Fiber, Track(f)
  PROVE  Inv'
<1>1. f \in Fiber
  BY Fibers
<1>2. ASSUME isShuttingDown PROVE Step(f, "getAndShutdown")
  BY <1>1, <1>2, Numbers, Places DEF Track, Goes, GoesOn, Begins, Jumps, Counts, Plain, Totals, Step, numbers, rest
<1>3. ASSUME ~isShuttingDown PROVE Step(f, On(f))
  BY <1>1, <1>3, Numbers, OnIs, Places DEF Track, Goes, GoesOn, Begins, Jumps, Counts, Plain, Totals, Step, numbers, rest
<1>9. \E l : Step(f, l)
  BY <1>2, <1>3, Numbers DEF Track
<1> QED BY <1>1, <1>9, StepKeeps

LEMMA ReplaceKeeps ==
  ASSUME PoolAssumption, Inv, NEW f \in Fiber, Replace(f)
  PROVE  Inv'
<1>1. f \in Fiber
  BY Fibers
<1>2. ASSUME size <= pool.min PROVE Step(f, "allocate")
  BY <1>1, <1>2, Numbers, Places DEF Replace, Goes, GoesOn, Begins, Jumps, Counts, Plain, Totals, Step, numbers, rest
<1>3. ASSUME size > pool.min PROVE Step(f, On(f))
  BY <1>1, <1>3, Numbers, OnIs, Places DEF Replace, Goes, GoesOn, Begins, Jumps, Counts, Plain, Totals, Step, numbers, rest
<1>9. \E l : Step(f, l)
  BY <1>2, <1>3, Numbers DEF Replace
<1> QED BY <1>1, <1>9, StepKeeps

LEMMA GetAndShutdownKeeps ==
  ASSUME PoolAssumption, Inv, NEW f \in Fiber, GetAndShutdown(f)
  PROVE  Inv'
<1>1. f \in Fiber
  BY Fibers
<1>2. ASSUME free > 0 /\ Counts(0, -1) /\ Goes(f, "takeLast") PROVE Step(f, "takeLast")
  BY <1>1, <1>2, Numbers, Places DEF GetAndShutdown, Goes, GoesOn, Begins, Jumps, Counts, Plain, Totals, Step, numbers, rest
<1>3. ASSUME free <= 0 /\ size > 0 /\ GoesOn(f) /\ UNCHANGED numbers PROVE Step(f, On(f))
  BY <1>1, <1>3, Numbers, OnIs, Places DEF GetAndShutdown, Goes, GoesOn, Begins, Jumps, Counts, Plain, Totals, Step, numbers, rest
<1>4. ASSUME free <= 0 /\ size <= 0 /\ size' = size - 1 /\ signals' = signals + 1 /\ Goes(f, "signal") /\ UNCHANGED free PROVE Step(f, "signal")
  BY <1>1, <1>4, Numbers, Places DEF GetAndShutdown, Goes, GoesOn, Begins, Jumps, Counts, Plain, Totals, Step, numbers, rest
<1>9. \E l : Step(f, l)
  BY <1>2, <1>3, <1>4, Numbers DEF GetAndShutdown
<1> QED BY <1>1, <1>9, StepKeeps

LEMMA ClosedKeeps ==
  ASSUME PoolAssumption, Inv, NEW f \in Fiber, Closed(f)
  PROVE  Inv'
<1>1. f \in Fiber
  BY Fibers
<1>2. ASSUME pc[f] = "closed" /\ Goes(f, "getAndShutdown") PROVE Step(f, "getAndShutdown")
  BY <1>1, <1>2, Numbers, Places DEF Closed, Goes, GoesOn, Begins, Jumps, Counts, Plain, Totals, Step, numbers, rest
<1>3. ASSUME pc[f] = "dropped" /\ GoesOn(f) PROVE Step(f, On(f))
  BY <1>1, <1>3, Numbers, OnIs, Places DEF Closed, Goes, GoesOn, Begins, Jumps, Counts, Plain, Totals, Step, numbers, rest
<1>9. \E l : Step(f, l)
  BY <1>2, <1>3, Numbers DEF Closed
<1> QED BY <1>1, <1>9, StepKeeps

LEMMA GetKeeps ==
  ASSUME PoolAssumption, Inv, NEW f \in User, Get(f)
  PROVE  Inv'
<1>1. f \in Fiber
  BY Fibers
<1>2. Step(f, "acquire")
  BY <1>1, Numbers, Places DEF Get, Goes, GoesOn, Begins, Jumps, Counts, Plain, Totals, Step, numbers, rest
<1> QED BY <1>1, <1>2, StepKeeps

LEMMA AcquireKeeps ==
  ASSUME PoolAssumption, Inv, NEW f \in User, Acquire(f)
  PROVE  Inv'
<1>1. f \in Fiber
  BY Fibers
<1>2. ASSUME isShuttingDown PROVE Step(f, "end")
  BY <1>1, <1>2, Numbers, Places DEF Acquire, Goes, GoesOn, Begins, Jumps, Counts, Plain, Totals, Step, numbers, rest
<1>3. ASSUME ~isShuttingDown PROVE Step(f, "reserve")
  BY <1>1, <1>3, Numbers, Places DEF Acquire, Goes, GoesOn, Begins, Jumps, Counts, Plain, Totals, Step, numbers, rest
<1>9. \E l : Step(f, l)
  BY <1>2, <1>3, Numbers DEF Acquire
<1> QED BY <1>1, <1>9, StepKeeps

LEMMA ReserveKeeps ==
  ASSUME PoolAssumption, Inv, NEW f \in User, Reserve(f)
  PROVE  Inv'
<1>1. f \in Fiber
  BY Fibers
<1>2. ASSUME (free > 0 \/ size >= pool.max) /\ Counts(0, -1) /\ Goes(f, "take") PROVE Step(f, "take")
  BY <1>1, <1>2, Numbers, Places DEF Reserve, Goes, GoesOn, Begins, Jumps, Counts, Plain, Totals, Step, numbers, rest
<1>3. ASSUME free <= 0 /\ size \in 0..(pool.max - 1) /\ Counts(1, 1) /\ Begins(f, "allocate") PROVE Step(f, "allocate")
  BY <1>1, <1>3, Numbers, Places DEF Reserve, Goes, GoesOn, Begins, Jumps, Counts, Plain, Totals, Step, numbers, rest
<1>4. ASSUME free <= 0 /\ size < 0 /\ Goes(f, "end") /\ UNCHANGED numbers PROVE Step(f, "end")
  BY <1>1, <1>4, Numbers, Places DEF Reserve, Goes, GoesOn, Begins, Jumps, Counts, Plain, Totals, Step, numbers, rest
<1>9. \E l : Step(f, l)
  BY <1>2, <1>3, <1>4, Numbers DEF Reserve
<1> QED BY <1>1, <1>9, StepKeeps

LEMMA CheckKeeps ==
  ASSUME PoolAssumption, Inv, NEW f \in User, Check(f)
  PROVE  Inv'
<1>1. f \in Fiber
  BY Fibers
<1>2. ASSUME attempts[held[f]] = "failed" PROVE Step(f, "failed")
  BY <1>1, <1>2, Numbers, Places DEF Check, Goes, GoesOn, Begins, Jumps, Counts, Plain, Totals, Step, numbers, rest
<1>3. ASSUME attempts[held[f]] # "failed" /\ held[f] \in invalidated PROVE Step(f, "invalid")
  BY <1>1, <1>3, Numbers, Places DEF Check, Goes, GoesOn, Begins, Jumps, Counts, Plain, Totals, Step, numbers, rest
<1>4. ASSUME attempts[held[f]] # "failed" /\ held[f] \notin invalidated PROVE Step(f, "use")
  BY <1>1, <1>4, Numbers, Places DEF Check, Goes, GoesOn, Begins, Jumps, Counts, Plain, Totals, Step, numbers, rest
<1>9. \E l : Step(f, l)
  BY <1>2, <1>3, <1>4, Numbers DEF Check
<1> QED BY <1>1, <1>9, StepKeeps

LEMMA ReleaseKeeps ==
  ASSUME PoolAssumption, Inv, NEW f \in User, Release(f)
  PROVE  Inv'
<1>1. f \in Fiber
  BY Fibers
<1>2. ASSUME held[f] \in invalidated PROVE Step(f, "invalid")
  BY <1>1, <1>2, Numbers, Places DEF Release, Goes, GoesOn, Begins, Jumps, Counts, Plain, Totals, Step, numbers, rest
<1>3. ASSUME held[f] \notin invalidated PROVE Step(f, "putBack")
  BY <1>1, <1>3, Numbers, Places DEF Release, Goes, GoesOn, Begins, Jumps, Counts, Plain, Totals, Step, numbers, rest
<1>9. \E l : Step(f, l)
  BY <1>2, <1>3, Numbers DEF Release
<1> QED BY <1>1, <1>9, StepKeeps

LEMMA PutBackKeeps ==
  ASSUME PoolAssumption, Inv, NEW f \in User, PutBack(f)
  PROVE  Inv'
<1>1. f \in Fiber
  BY Fibers
<1>2. Step(f, "offer")
  BY <1>1, Numbers, Places DEF PutBack, Goes, GoesOn, Begins, Jumps, Counts, Plain, Totals, Step, numbers, rest
<1> QED BY <1>1, <1>2, StepKeeps

LEMMA RetryKeeps ==
  ASSUME PoolAssumption, Inv, NEW f \in User, Retry(f)
  PROVE  Inv'
<1>1. f \in Fiber
  BY Fibers
<1>2. Step(f, "allocate")
  BY <1>1, Numbers, Places DEF Retry, Goes, GoesOn, Begins, Jumps, Counts, Plain, Totals, Step, numbers, rest
<1> QED BY <1>1, <1>2, StepKeeps

LEMMA AwakeKeeps ==
  ASSUME PoolAssumption, Inv, NEW f \in Fiber, Awake(f)
  PROVE  Inv'
<1>1. f \in Fiber
  BY Fibers
<1>2. Step(f, "shrink")
  BY <1>1, Numbers, Places DEF Awake, Goes, GoesOn, Begins, Jumps, Counts, Plain, Totals, Step, numbers, rest
<1> QED BY <1>1, <1>2, StepKeeps

LEMMA ShrinkKeeps ==
  ASSUME PoolAssumption, Inv, NEW f \in Fiber, Shrink(f)
  PROVE  Inv'
<1>1. f \in Fiber
  BY Fibers
<1>2. ASSUME size > pool.min /\ free > 0 PROVE Step(f, "takeExcess")
  BY <1>1, <1>2, Numbers, Places DEF Shrink, Goes, GoesOn, Begins, Jumps, Counts, Plain, Totals, Step, numbers, rest
<1>3. ASSUME ~(size > pool.min /\ free > 0) PROVE Step(f, "sleep")
  BY <1>1, <1>3, Numbers, Places DEF Shrink, Goes, GoesOn, Begins, Jumps, Counts, Plain, Totals, Step, numbers, rest
<1>9. \E l : Step(f, l)
  BY <1>2, <1>3, Numbers DEF Shrink
<1> QED BY <1>1, <1>9, StepKeeps

LEMMA ShutdownKeeps ==
  ASSUME PoolAssumption, Inv, NEW f \in Fiber, Shutdown(f)
  PROVE  Inv'
<1>1. f \in Fiber
  BY Fibers
<1>2. Step(f, "getAndShutdown")
  BY <1>1, Numbers, Places DEF Shutdown, Goes, GoesOn, Begins, Jumps, Counts, Plain, Totals, Step, numbers, rest
<1> QED BY <1>1, <1>2, StepKeeps

----------------------------------------------------------------------------
(* Steps that change the queue or the attempts.                            *)

LEMMA TakersStay ==
  ASSUME PoolAssumption, Inv, NEW f \in Fiber, NEW l, Moves(pc, pc', f, l),
         takers' = takers, shut' = shut, takers # <<>> => items' = <<>>,
         pc[f] \notin Takes \/ ~Waits(f)
  PROVE  TakersWait'
<1>1. takers \in Seq(Fiber) /\ TakersWait
  BY DEF Inv, TypeOK
<1>2. \A i \in 1..Len(takers) : takers[i] \in Fiber /\ pc[takers[i]] \in Takes /\ takers[i] # f
  BY <1>1 DEF TakersWait, Waits
<1>3. \A i \in 1..Len(takers) : pc'[takers[i]] \in Takes
  BY <1>2 DEF Moves
<1> QED BY <1>1, <1>3 DEF TakersWait

LEMMA HoldersStay ==
  ASSUME PoolAssumption, Inv, NEW f \in Fiber, NEW l, Moves(pc, pc', f, l),
         \A g \in Fiber : g # f => held'[g] = held[g], l \in HoldingAt => held'[f] # 0
  PROVE  HoldersHave'
BY DEF Inv, HoldersHave, Moves

\* A fiber disposes of its attempt.
LEMMA Discards ==
  ASSUME PoolAssumption, Inv, NEW f \in Fiber, pc[f] \in HoldingAt, items' = items,
         attempts' = [attempts EXCEPT ![held[f]] = "none"], held' = [held EXCEPT ![f] = 0]
  PROVE  /\ LentOnce' /\ attempts' \in [Attempt -> {"none", "ok", "failed"}]
         /\ held' \in [Fiber -> Attempt \cup {0}] /\ held[f] \in Attempt
         /\ \A g \in Fiber : g # f => held'[g] = held[g]
<1>1. /\ attempts \in [Attempt -> {"none", "ok", "failed"}] /\ held \in [Fiber -> Attempt \cup {0}]
      /\ items \in Seq(Attempt) /\ LentOnce /\ held[f] # 0
  BY DEF Inv, TypeOK, HoldersHave
<1>2. /\ attempts' \in [Attempt -> {"none", "ok", "failed"}] /\ held[f] \in Attempt /\ 0 \in Attempt \cup {0}
      /\ \A g \in Fiber : held'[g] = IF g = f THEN 0 ELSE held[g]
      /\ \A a \in Attempt : attempts'[a] = IF a = held[f] THEN "none" ELSE attempts[a]
  BY <1>1
<1>3. held' \in [Fiber -> Attempt \cup {0}]
  BY <1>1, <1>2
<1>4. \A g, h \in Fiber : held'[g] # 0 /\ held'[g] = held'[h] => g = h
  BY <1>1, <1>2 DEF LentOnce
<1>5. \A i, j \in 1..Len(items) : items[i] = items[j] => i = j
  BY <1>1 DEF LentOnce
<1>6. ASSUME NEW i \in 1..Len(items)
      PROVE  attempts'[items[i]] # "none" /\ \A g \in Fiber : held'[g] # items[i]
  <2>1. items[i] \in Attempt /\ attempts[items[i]] # "none" /\ \A g \in Fiber : held[g] # items[i]
    BY <1>1 DEF LentOnce
  <2>2. 0 \notin Attempt
    BY DEF PoolAssumption
  <2> QED BY <1>2, <2>1, <2>2
<1>7. ASSUME NEW g \in Fiber, held'[g] # 0
      PROVE  attempts'[held'[g]] # "none"
  <2>1. g # f /\ held'[g] = held[g] /\ held[g] \in Attempt /\ held[g] # held[f]
    BY <1>1, <1>2, <1>7 DEF LentOnce
  <2>2. attempts[held[g]] # "none"
    BY <1>1, <1>7, <2>1 DEF LentOnce
  <2> QED BY <1>2, <2>1, <2>2
<1>8. LentOnce'
  BY <1>4, <1>5, <1>6, <1>7 DEF LentOnce
<1> QED BY <1>2, <1>3, <1>8

LEMMA DisposeKeeps ==
  ASSUME PoolAssumption, Inv, NEW f \in Fiber, Dispose(f)
  PROVE  Inv'
<1> DEFINE l == Disposed(pc[f])
<1>1. pc[f] \in Disposal /\ pc[f] \in HoldingAt /\ pc[f] \in KeepingAt /\ pc[f] \notin Takes
  BY Kinds DEF Dispose, HoldingAt, PlacedAt, BringingAt, KeepingAt, Disposal
<1>2. l \in {"replace", "dropped", "closed"}
  BY <1>1 DEF Disposed, Disposal
<1>3. l \in KeepingAt /\ l \notin HoldingAt /\ l \in Labels
  BY <1>2, Places, Kinds
<1>4. Moves(pc, pc', f, l) /\ pc' \in [Fiber -> Labels]
  BY <1>3 DEF Dispose, Goes, Jumps, Moves, Inv, TypeOK
<1>5. /\ attempts' = [attempts EXCEPT ![held[f]] = "none"] /\ held' = [held EXCEPT ![f] = 0]
      /\ size' = size /\ free' = free /\ signals' = signals /\ items' = items /\ takers' = takers /\ shut' = shut
      /\ pool' = pool /\ isShuttingDown' = isShuttingDown /\ left' = left /\ calls' = calls /\ lost' = lost
      /\ again' = again /\ invalidated' \subseteq invalidated
  BY DEF Dispose, Goes, numbers, queue, rest
<1> HIDE DEF l
<1>6. /\ LentOnce' /\ attempts' \in [Attempt -> {"none", "ok", "failed"}]
      /\ held' \in [Fiber -> Attempt \cup {0}] /\ \A g \in Fiber : g # f => held'[g] = held[g]
  BY <1>1, <1>5, Discards
<1>7. TypeOK'
  BY <1>4, <1>5, <1>6 DEF Inv, TypeOK
<1>8. TakersWait'
  BY <1>1, <1>4, <1>5, TakersStay DEF Inv, TakersWait
<1>9. HoldersHave'
  BY <1>3, <1>4, <1>6, HoldersStay
<1>10. Accounted'
  <2>1. \A L : Cardinality(In(L)') = Cardinality(In(L)) + More(L, pc[f], l)
    BY <1>4, CountMoves DEF Moves
  <2>2. More(PlacedAt, pc[f], l) = 0 /\ More(BringingAt, pc[f], l) = 0 /\ More(Takes, pc[f], l) = 0
    BY <1>1, <1>3, CountsOf DEF More
  <2> DEFINE z == 0
  <2>3. z \in Int /\ z = 0
    OBVIOUS
  <2> HIDE DEF z
  <2>4. /\ Cardinality(In(PlacedAt)') = Cardinality(In(PlacedAt)) + z
        /\ Cardinality(In(BringingAt)') = Cardinality(In(BringingAt)) + z
        /\ Cardinality(In(Takes)') = Cardinality(In(Takes)) + z
    BY <2>1, <2>2, <2>3
  <2>5. /\ Len(items') = Len(items) + z /\ lost' \in [size : Nat, free : Nat]
        /\ size' \in Int /\ free' \in Int /\ signals' \in Int
        /\ size' + signals' = size + signals + z + z + (lost'.size - lost.size)
        /\ free' = free + z + z - z + (lost'.free - lost.free)
    BY <1>5, <2>3 DEF Inv, TypeOK
  <2> QED BY <1>5, <2>3, <2>4, <2>5, SumsBy
<1> QED BY <1>6, <1>7, <1>8, <1>9, <1>10 DEF Inv


LEMMA ReleaseFailureKeeps ==
  ASSUME PoolAssumption, Inv, NEW f \in User, ReleaseFailure(f)
  PROVE  Inv'
<1>0. f \in Fiber
  BY Fibers
<1>1. pc[f] \in HoldingAt /\ pc[f] \in KeepingAt /\ pc[f] \notin Takes
  BY Places, Kinds DEF ReleaseFailure
<1>2. PICK l \in {"retry", "idle"} :
         /\ pc' = [pc EXCEPT ![f] = l] /\ again' = again /\ signals' = signals
         /\ \/ l = "retry" /\ size' = size /\ free' = free + 1
            \/ l = "idle" /\ size' = size - 1 /\ free' = free
  BY Numbers DEF ReleaseFailure, Goes, Jumps, Counts
<1>3. l \notin HoldingAt /\ l \in Labels
  BY Places, Kinds
<1>4. Moves(pc, pc', f, l) /\ pc' \in [Fiber -> Labels]
  BY <1>2, <1>3 DEF Moves, Inv, TypeOK
<1>5. /\ attempts' = [attempts EXCEPT ![held[f]] = "none"] /\ held' = [held EXCEPT ![f] = 0]
      /\ items' = items /\ takers' = takers /\ shut' = shut
      /\ pool' = pool /\ isShuttingDown' = isShuttingDown /\ left' = left /\ calls' = calls /\ lost' = lost
      /\ invalidated' = invalidated
  BY DEF ReleaseFailure, GivesUp, queue, rest
<1>6. /\ LentOnce' /\ attempts' \in [Attempt -> {"none", "ok", "failed"}]
      /\ held' \in [Fiber -> Attempt \cup {0}] /\ \A g \in Fiber : g # f => held'[g] = held[g]
  BY <1>0, <1>1, <1>5, Discards
<1>7. TypeOK'
  <2>1. size' \in Int /\ size' <= pool'.max /\ free' \in Int /\ signals' \in Nat
    BY <1>2, <1>5, Numbers
  <2> QED BY <1>2, <1>4, <1>5, <1>6, <2>1 DEF Inv, TypeOK
<1>8. TakersWait'
  BY <1>0, <1>1, <1>4, <1>5, TakersStay DEF Inv, TakersWait
<1>9. HoldersHave'
  BY <1>0, <1>3, <1>4, <1>6, HoldersStay
<1>10. Accounted'
  <2> DEFINE x == More(PlacedAt, pc[f], l)  y == More(BringingAt, pc[f], l)  d == 0
  <2>1. \A L : Cardinality(In(L)') = Cardinality(In(L)) + More(L, pc[f], l)
    BY <1>0, <1>4, CountMoves DEF Moves
  <2>2. /\ x \in Int /\ y \in Int /\ d \in Int /\ d = 0 /\ More(Takes, pc[f], l) = d
        /\ l = "retry" => x = 0 /\ y = 1
        /\ l = "idle" => x = -1 /\ y = 0
    BY <1>1, <1>2, Places, CountsOf DEF More
  <2>3. x = More(PlacedAt, pc[f], l) /\ y = More(BringingAt, pc[f], l)
    OBVIOUS
  <2> HIDE DEF x, y, d
  <2>4. /\ Cardinality(In(PlacedAt)') = Cardinality(In(PlacedAt)) + x
        /\ Cardinality(In(BringingAt)') = Cardinality(In(BringingAt)) + y
        /\ Cardinality(In(Takes)') = Cardinality(In(Takes)) + d
    BY <2>1, <2>2, <2>3
  <2>5. /\ size' + signals' = size + signals + d + x + (lost'.size - lost.size)
        /\ free' = free + d + y - d + (lost'.free - lost.free)
    <3>1. lost'.size - lost.size = 0 /\ lost'.free - lost.free = 0
      BY <1>5 DEF Inv, TypeOK
    <3> QED BY <1>2, <2>2, <3>1, Numbers
  <2>6. /\ Len(items') = Len(items) + d /\ lost' \in [size : Nat, free : Nat]
        /\ size' \in Int /\ free' \in Int /\ signals' \in Int
    BY <1>2, <1>5, <2>2, Numbers DEF Inv, TypeOK
  <2> QED BY <1>5, <2>2, <2>4, <2>5, <2>6, SumsBy
<1> QED BY <1>6, <1>7, <1>8, <1>9, <1>10 DEF Inv

\* An interrupted release leaves a place behind, and maybe one that is free.
LEMMA CutKeeps ==
  ASSUME PoolAssumption, Inv, NEW f \in User, Cut(f)
  PROVE  Inv'
<1>0. f \in Fiber
  BY Fibers
<1>1. pc[f] \in {"failed", "retry"} /\ pc[f] \notin Takes
  BY Places, Kinds DEF Cut
<1>2. "idle" \notin HoldingAt /\ "idle" \in Labels
  BY Places, Kinds
<1>3. Moves(pc, pc', f, "idle") /\ pc' \in [Fiber -> Labels]
  BY <1>2 DEF Cut, Goes, Jumps, Moves, Inv, TypeOK
<1>4. /\ size' = size /\ free' = free /\ signals' = signals /\ items' = items /\ takers' = takers /\ shut' = shut
      /\ pool' = pool /\ isShuttingDown' = isShuttingDown /\ left' = left /\ calls' = calls /\ again' = again
      /\ invalidated' = invalidated
  BY DEF Cut, Goes, GivesUp, numbers, queue, things
<1>5. /\ lost' \in [size : Nat, free : Nat] /\ lost \in [size : Nat, free : Nat]
      /\ \/ pc[f] = "failed" /\ lost'.size = lost.size + 1 /\ lost'.free = lost.free
         \/ pc[f] = "retry" /\ lost'.size = lost.size + 1 /\ lost'.free = lost.free + 1
  BY <1>1 DEF Cut, Inv, TypeOK
<1>6. /\ LentOnce' /\ attempts' \in [Attempt -> {"none", "ok", "failed"}]
      /\ held' \in [Fiber -> Attempt \cup {0}] /\ \A g \in Fiber : g # f => held'[g] = held[g]
  <2>1. CASE pc[f] = "failed"
    <3>1. attempts' = [attempts EXCEPT ![held[f]] = "none"] /\ held' = [held EXCEPT ![f] = 0]
      BY <2>1 DEF Cut, GivesUp
    <3>2. pc[f] \in HoldingAt
      BY <2>1, Places
    <3> QED BY <1>0, <1>4, <3>1, <3>2, Discards
  <2>2. CASE pc[f] = "retry"
    <3>1. attempts' = attempts /\ held' = held
      BY <2>2 DEF Cut, things
    <3> QED BY <1>4, <3>1 DEF Inv, TypeOK, LentOnce
  <2> QED BY <1>1, <2>1, <2>2
<1>7. TypeOK'
  BY <1>3, <1>4, <1>5, <1>6 DEF Inv, TypeOK
<1>8. TakersWait'
  BY <1>0, <1>1, <1>3, <1>4, TakersStay DEF Inv, TakersWait
<1>9. HoldersHave'
  BY <1>0, <1>2, <1>3, <1>6, HoldersStay
<1>10. Accounted'
  <2> DEFINE k == pc[f]  l == "idle"
             x == More(PlacedAt, k, l)  y == More(BringingAt, k, l)  d == 0
  <2>1. \A L : Cardinality(In(L)') = Cardinality(In(L)) + More(L, k, l)
    BY <1>0, <1>3, CountMoves DEF Moves
  <2>2. /\ x \in Int /\ y \in Int /\ d \in Int /\ d = 0 /\ More(Takes, k, l) = d
        /\ k = "failed" => x = -1 /\ y = 0
        /\ k = "retry" => x = -1 /\ y = -1
    BY <1>1, Places, CountsOf DEF More
  <2>3. x = More(PlacedAt, k, l) /\ y = More(BringingAt, k, l) /\ k = pc[f]
    OBVIOUS
  <2> HIDE DEF k, l, x, y, d
  <2>4. /\ Cardinality(In(PlacedAt)') = Cardinality(In(PlacedAt)) + x
        /\ Cardinality(In(BringingAt)') = Cardinality(In(BringingAt)) + y
        /\ Cardinality(In(Takes)') = Cardinality(In(Takes)) + d
    BY <2>1, <2>2, <2>3
  <2>5. /\ size' + signals' = size + signals + d + x + (lost'.size - lost.size)
        /\ free' = free + d + y - d + (lost'.free - lost.free)
    <3>1. \/ k = "failed" /\ lost'.size - lost.size = 1 /\ lost'.free - lost.free = 0
          \/ k = "retry" /\ lost'.size - lost.size = 1 /\ lost'.free - lost.free = 1
      BY <1>5, <2>3
    <3> QED BY <1>4, <2>2, <3>1, Numbers
  <2>6. /\ Len(items') = Len(items) + d /\ size' \in Int /\ free' \in Int /\ signals' \in Int
    BY <1>4, <2>2, Numbers DEF Inv, TypeOK
  <2> QED BY <1>4, <1>5, <2>2, <2>4, <2>5, <2>6, SumsBy
<1> QED BY <1>6, <1>7, <1>8, <1>9, <1>10 DEF Inv

LEMMA AllocateKeeps ==
  ASSUME PoolAssumption, Inv, NEW f \in Fiber, Allocate(f)
  PROVE  Inv'
<1>0. PICK a \in Attempt, r \in {"ok", "failed"} :
         attempts[a] = "none" /\ attempts' = [attempts EXCEPT ![a] = r] /\ held' = [held EXCEPT ![f] = a]
  BY DEF Allocate
<1>1. pc[f] \in BringingAt /\ "offer" \in BringingAt /\ "offer" \in Labels /\ pc[f] \notin Takes
  BY Places, Kinds DEF Allocate
<1>2. Moves(pc, pc', f, "offer") /\ pc' \in [Fiber -> Labels]
  BY <1>1 DEF Allocate, Goes, Jumps, Moves, Inv, TypeOK
<1>3. /\ size' = size /\ free' = free /\ signals' = signals /\ items' = items /\ takers' = takers /\ shut' = shut
      /\ pool' = pool /\ isShuttingDown' = isShuttingDown /\ left' = left /\ calls' = calls /\ lost' = lost
      /\ again' = again /\ invalidated' = invalidated
  BY DEF Allocate, Goes, numbers, queue, rest
<1>4. /\ attempts \in [Attempt -> {"none", "ok", "failed"}] /\ held \in [Fiber -> Attempt \cup {0}]
      /\ items \in Seq(Attempt) /\ LentOnce /\ a # 0
  BY DEF Inv, TypeOK, PoolAssumption
<1>5. /\ attempts' \in [Attempt -> {"none", "ok", "failed"}] /\ held' \in [Fiber -> Attempt \cup {0}]
      /\ \A g \in Fiber : held'[g] = IF g = f THEN a ELSE held[g]
      /\ \A b \in Attempt : attempts'[b] = IF b = a THEN r ELSE attempts[b]
  BY <1>0, <1>4
<1>6. LentOnce'
  <2>1. \A g \in Fiber : held[g] # a
    BY <1>0, <1>4 DEF LentOnce
  <2>2. \A i \in 1..Len(items) : items[i] \in Attempt /\ items[i] # a
    BY <1>0, <1>4 DEF LentOnce
  <2>3. \A g, h \in Fiber : held'[g] # 0 /\ held'[g] = held'[h] => g = h
    BY <1>4, <1>5, <2>1 DEF LentOnce
  <2>4. \A i, j \in 1..Len(items) : items[i] = items[j] => i = j
    BY <1>4 DEF LentOnce
  <2>5. \A i \in 1..Len(items) : attempts'[items[i]] # "none" /\ \A g \in Fiber : held'[g] # items[i]
    BY <1>4, <1>5, <2>2 DEF LentOnce
  <2>6. \A g \in Fiber : held'[g] # 0 => attempts'[held'[g]] # "none"
    BY <1>4, <1>5, <2>1 DEF LentOnce
  <2> QED BY <1>3, <2>3, <2>4, <2>5, <2>6 DEF LentOnce
<1>7. TypeOK'
  BY <1>2, <1>3, <1>5 DEF Inv, TypeOK
<1>8. TakersWait'
  BY <1>1, <1>2, <1>3, TakersStay DEF Inv, TakersWait
<1>9. HoldersHave'
  BY <1>2, <1>4, <1>5, HoldersStay
<1>10. Accounted'
  <2> DEFINE d == 0
  <2>1. \A L : Cardinality(In(L)') = Cardinality(In(L)) + More(L, pc[f], "offer")
    BY <1>2, CountMoves DEF Moves
  <2>2. d \in Int /\ d = 0
    OBVIOUS
  <2>3. More(PlacedAt, pc[f], "offer") = 0 /\ More(BringingAt, pc[f], "offer") = 0 /\ More(Takes, pc[f], "offer") = 0
    BY <1>1, CountsOf DEF More
  <2> HIDE DEF d
  <2>4. /\ Cardinality(In(PlacedAt)') = Cardinality(In(PlacedAt)) + d
        /\ Cardinality(In(BringingAt)') = Cardinality(In(BringingAt)) + d
        /\ Cardinality(In(Takes)') = Cardinality(In(Takes)) + d
    BY <2>1, <2>2, <2>3
  <2>5. /\ Len(items') = Len(items) + d /\ lost' \in [size : Nat, free : Nat]
        /\ size' \in Int /\ free' \in Int /\ signals' \in Int
        /\ size' + signals' = size + signals + d + d + (lost'.size - lost.size)
        /\ free' = free + d + d - d + (lost'.free - lost.free)
    BY <1>3, <2>2 DEF Inv, TypeOK
  <2> QED BY <1>3, <2>2, <2>4, <2>5, SumsBy
<1> QED BY <1>6, <1>7, <1>8, <1>9, <1>10 DEF Inv


LEMMA TakenIs ==
  \A k \in Takes : Taken(k) \in KeepingAt /\ Taken(k) \in HoldingAt /\ Taken(k) \in Labels
<1>1. \A k \in Takes : Taken(k) \in {"check", "close", "drop"}
  BY DEF Taken, Takes
<1> QED BY <1>1, Places, Kinds

LEMMA TakeKeeps ==
  ASSUME PoolAssumption, Inv, NEW f \in Fiber, Take(f)
  PROVE  Inv'
<1> DEFINE k == pc[f]  l == Taken(k)
<1>1. k \in Takes /\ ~shut /\ ~Waits(f)
  BY DEF Take
<1>2. l \in KeepingAt /\ l \in HoldingAt /\ l \in Labels
  BY <1>1, TakenIs
<1>3. /\ size' = size /\ free' = free /\ signals' = signals /\ shut' = shut /\ attempts' = attempts
      /\ pool' = pool /\ isShuttingDown' = isShuttingDown /\ left' = left /\ calls' = calls /\ lost' = lost
      /\ again' = again /\ invalidated' = invalidated
  BY DEF Take, numbers, rest
<1>4. /\ attempts \in [Attempt -> {"none", "ok", "failed"}] /\ held \in [Fiber -> Attempt \cup {0}]
      /\ items \in Seq(Attempt) /\ takers \in Seq(Fiber) /\ pc \in [Fiber -> Labels] /\ LentOnce /\ TakersWait
  BY DEF Inv, TypeOK
<1>5. CASE items = <<>>
  <2>1. takers' = Append(takers, f) /\ items' = items /\ held' = held /\ pc' = pc
    BY <1>5 DEF Take
  <2>2. TypeOK'
    BY <1>3, <2>1 DEF Inv, TypeOK
  <2>3. TakersWait'
    <3>1. Len(takers') = Len(takers) + 1 /\ Len(takers) \in Nat
          /\ \A i \in 1..Len(takers') : takers'[i] = IF i <= Len(takers) THEN takers[i] ELSE f
      BY <1>4, <2>1
    <3>2. \A i \in 1..Len(takers) : pc[takers[i]] \in Takes /\ takers[i] # f
      BY <1>1, <1>4 DEF TakersWait, Waits
    <3>3. \A i, j \in 1..Len(takers) : takers[i] = takers[j] => i = j
      BY <1>4 DEF TakersWait
    <3>4. \A i \in 1..Len(takers') : pc'[takers'[i]] \in Takes
      BY <1>1, <2>1, <3>1, <3>2
    <3>5. \A i, j \in 1..Len(takers') : takers'[i] = takers'[j] => i = j
      BY <3>1, <3>2, <3>3
    <3> QED BY <1>1, <1>3, <1>5, <2>1, <3>4, <3>5 DEF TakersWait
  <2>4. HoldersHave' /\ LentOnce'
    BY <1>3, <2>1 DEF Inv, HoldersHave, LentOnce
  <2>5. Accounted'
    BY <1>3, <2>1 DEF Inv, Accounted, Placed, Bringing, Taking
  <2> QED BY <2>2, <2>3, <2>4, <2>5 DEF Inv
<1>6. CASE items # <<>>
  <2> DEFINE a == Head(items)
  <2>1. /\ items' = Tail(items) /\ held' = [held EXCEPT ![f] = a] /\ pc' = [pc EXCEPT ![f] = l]
        /\ takers' = takers
    BY <1>6 DEF Take, Jumps
  <2>2. a \in Attempt /\ a = items[1] /\ Len(items) \in Nat \ {0} /\ a # 0
    BY <1>4, <1>6 DEF PoolAssumption
  <2>3. /\ items' \in Seq(Attempt) /\ Len(items') = Len(items) - 1
        /\ \A i \in 1..Len(items') : i + 1 \in 1..Len(items) /\ items'[i] = items[i + 1]
    BY <1>4, <1>6, <2>1
  <2>4. held' \in [Fiber -> Attempt \cup {0}] /\ \A g \in Fiber : held'[g] = IF g = f THEN a ELSE held[g]
    BY <1>4, <2>1, <2>2
  <2>5. Moves(pc, pc', f, l) /\ pc' \in [Fiber -> Labels]
    BY <1>2, <1>4, <2>1 DEF Moves
  <2> HIDE DEF a, l
  <2>6. TypeOK'
    BY <1>3, <2>1, <2>3, <2>4, <2>5 DEF Inv, TypeOK
  <2>7. TakersWait'
    <3>1. takers = <<>>
      BY <1>4, <1>6 DEF TakersWait
    <3> QED BY <2>1, <3>1 DEF TakersWait
  <2>8. HoldersHave'
    BY <2>2, <2>4, <2>5, HoldersStay
  <2>9. LentOnce'
    <3>1. \A i \in 1..Len(items) : /\ items[i] \in Attempt /\ attempts[items[i]] # "none"
                                   /\ \A g \in Fiber : held[g] # items[i]
      BY <1>4 DEF LentOnce
    <3>2. \A i, j \in 1..Len(items) : items[i] = items[j] => i = j
      BY <1>4 DEF LentOnce
    <3>3. 1 \in 1..Len(items) /\ (\A g \in Fiber : held[g] # a) /\ attempts[a] # "none"
      BY <2>2, <3>1
    <3>4. \A g, h \in Fiber : held'[g] # 0 /\ held'[g] = held'[h] => g = h
      BY <1>4, <2>4, <3>3 DEF LentOnce
    <3>5. \A i, j \in 1..Len(items') : items'[i] = items'[j] => i = j
      <4> SUFFICES ASSUME NEW i \in 1..Len(items'), NEW j \in 1..Len(items'), items'[i] = items'[j]
                   PROVE  i = j
        OBVIOUS
      <4>1. i + 1 = j + 1 /\ i \in Int /\ j \in Int
        BY <2>3, <3>2
      <4> QED BY <4>1
    <3>6. \A i \in 1..Len(items') : items'[i] # a
      <4> SUFFICES ASSUME NEW i \in 1..Len(items'), items'[i] = a
                   PROVE  FALSE
        OBVIOUS
      <4>1. i + 1 = 1 /\ i \in Int /\ 1 <= i
        BY <2>2, <2>3, <3>2, <3>3
      <4> QED BY <4>1
    <3>7. \A i \in 1..Len(items') : attempts[items'[i]] # "none" /\ \A g \in Fiber : held'[g] # items'[i]
      BY <2>3, <2>4, <3>1, <3>6
    <3>8. \A g \in Fiber : held'[g] # 0 => attempts[held'[g]] # "none"
      BY <1>4, <2>4, <3>3 DEF LentOnce
    <3> QED BY <1>3, <3>4, <3>5, <3>7, <3>8 DEF LentOnce
  <2>10. Accounted'
    <3> DEFINE d == -1  x == 1  y == 0
    <3>1. \A L : Cardinality(In(L)') = Cardinality(In(L)) + More(L, pc[f], l)
      BY <2>5, CountMoves DEF Moves
    <3>2. /\ d \in Int /\ d = -1 /\ x \in Int /\ x = 1 /\ y \in Int /\ y = 0
          /\ More(PlacedAt, k, l) = x /\ More(BringingAt, k, l) = y /\ More(Takes, k, l) = d
      BY <1>1, <1>2, CountsOf DEF More
    <3> HIDE DEF d, x, y
    <3>3. /\ Cardinality(In(PlacedAt)') = Cardinality(In(PlacedAt)) + x
          /\ Cardinality(In(BringingAt)') = Cardinality(In(BringingAt)) + y
          /\ Cardinality(In(Takes)') = Cardinality(In(Takes)) + d
      BY <3>1, <3>2
    <3>4. /\ Len(items') = Len(items) + d /\ lost' \in [size : Nat, free : Nat]
          /\ size' \in Int /\ free' \in Int /\ signals' \in Int
      BY <1>3, <2>2, <2>3, <3>2 DEF Inv, TypeOK
    <3>5. /\ size' + signals' = size + signals + d + x + (lost'.size - lost.size)
          /\ free' = free + d + y - d + (lost'.free - lost.free)
      BY <1>3, <3>2 DEF Inv, TypeOK
    <3> QED BY <1>3, <3>2, <3>3, <3>4, <3>5, SumsBy
  <2> QED BY <2>6, <2>7, <2>8, <2>9, <2>10 DEF Inv
<1> QED BY <1>5, <1>6

LEMMA OfferKeeps ==
  ASSUME PoolAssumption, Inv, NEW f \in Fiber, Offer(f)
  PROVE  Inv'
<1> DEFINE a == held[f]
<1>1. pc[f] = "offer" /\ ~shut /\ pc[f] \in BringingAt /\ pc[f] \in HoldingAt /\ pc[f] \notin Takes
  BY Places, Kinds DEF Offer
<1>2. "track" \in NotAt /\ "track" \notin HoldingAt /\ "track" \in Labels
  BY Places, Kinds
<1>3. /\ size' = size /\ free' = free /\ signals' = signals /\ shut' = shut /\ attempts' = attempts
      /\ pool' = pool /\ isShuttingDown' = isShuttingDown /\ left' = left /\ calls' = calls /\ lost' = lost
      /\ again' = again /\ invalidated' = invalidated
  BY DEF Offer, numbers, rest
<1>4. /\ attempts \in [Attempt -> {"none", "ok", "failed"}] /\ held \in [Fiber -> Attempt \cup {0}]
      /\ items \in Seq(Attempt) /\ takers \in Seq(Fiber) /\ pc \in [Fiber -> Labels] /\ LentOnce /\ TakersWait
  BY DEF Inv, TypeOK
<1>5. a \in Attempt /\ a # 0 /\ 0 \notin Attempt /\ attempts[a] # "none"
      /\ (\A g \in Fiber : held[g] = a => g = f) /\ \A i \in 1..Len(items) : items[i] # a
  <2>1. a # 0
    BY <1>1 DEF Inv, HoldersHave
  <2> QED BY <1>4, <2>1 DEF LentOnce, PoolAssumption
<1> HIDE DEF a
<1>6. CASE takers = <<>>
  <2>1. /\ items' = Append(items, a) /\ held' = [held EXCEPT ![f] = 0] /\ pc' = [pc EXCEPT ![f] = "track"]
        /\ takers' = takers
    BY <1>6 DEF Offer, Jumps, a
  <2>2. /\ items' \in Seq(Attempt) /\ Len(items') = Len(items) + 1 /\ Len(items) \in Nat
        /\ \A i \in 1..Len(items') : items'[i] = IF i <= Len(items) THEN items[i] ELSE a
    BY <1>4, <1>5, <2>1
  <2>3. held' \in [Fiber -> Attempt \cup {0}] /\ \A g \in Fiber : held'[g] = IF g = f THEN 0 ELSE held[g]
    BY <1>4, <2>1
  <2>4. Moves(pc, pc', f, "track") /\ pc' \in [Fiber -> Labels]
    BY <1>2, <1>4, <2>1 DEF Moves
  <2>5. TypeOK'
    BY <1>3, <2>1, <2>2, <2>3, <2>4 DEF Inv, TypeOK
  <2>6. TakersWait'
    BY <1>6, <2>1 DEF TakersWait
  <2>7. HoldersHave'
    BY <1>2, <2>3, <2>4, HoldersStay
  <2>8. LentOnce'
    <3>1. \A g, h \in Fiber : held'[g] # 0 /\ held'[g] = held'[h] => g = h
      BY <1>4, <2>3 DEF LentOnce
    <3>2. \A i, j \in 1..Len(items) : items[i] = items[j] => i = j
      BY <1>4 DEF LentOnce
    <3>3. \A i, j \in 1..Len(items') : items'[i] = items'[j] => i = j
      BY <1>5, <2>2, <3>2
    <3>4. \A i \in 1..Len(items) : attempts[items[i]] # "none" /\ (\A g \in Fiber : held[g] # items[i]) /\ items[i] # 0
      BY <1>4, <1>5 DEF LentOnce
    <3>5. \A i \in 1..Len(items') : attempts[items'[i]] # "none" /\ \A g \in Fiber : held'[g] # items'[i]
      BY <1>5, <2>2, <2>3, <3>4
    <3>6. \A g \in Fiber : held'[g] # 0 => attempts[held'[g]] # "none"
      BY <1>4, <2>3 DEF LentOnce
    <3> QED BY <1>3, <3>1, <3>3, <3>5, <3>6 DEF LentOnce
  <2>9. Accounted'
    <3> DEFINE k == pc[f]  l == "track"  d == 1  x == -1  z == 0
    <3>1. \A L : Cardinality(In(L)') = Cardinality(In(L)) + More(L, k, l)
      BY <2>4, CountMoves DEF Moves
    <3>2. /\ d \in Int /\ d = 1 /\ x \in Int /\ x = -1 /\ z \in Int /\ z = 0
          /\ More(PlacedAt, k, l) = x /\ More(BringingAt, k, l) = x /\ More(Takes, k, l) = z
      BY <1>1, <1>2, CountsOf DEF More
    <3> HIDE DEF k, l, d, x, z
    <3>3. /\ Cardinality(In(PlacedAt)') = Cardinality(In(PlacedAt)) + x
          /\ Cardinality(In(BringingAt)') = Cardinality(In(BringingAt)) + x
          /\ Cardinality(In(Takes)') = Cardinality(In(Takes)) + z
      BY <3>1, <3>2
    <3>4. /\ Len(items') = Len(items) + d /\ lost' \in [size : Nat, free : Nat]
          /\ size' \in Int /\ free' \in Int /\ signals' \in Int
      BY <1>3, <2>2, <3>2 DEF Inv, TypeOK
    <3>5. /\ size' + signals' = size + signals + d + x + (lost'.size - lost.size)
          /\ free' = free + d + x - z + (lost'.free - lost.free)
      BY <1>3, <3>2 DEF Inv, TypeOK
    <3> QED BY <1>3, <3>2, <3>3, <3>4, <3>5, SumsBy
  <2> QED BY <2>5, <2>6, <2>7, <2>8, <2>9 DEF Inv
<1>7. CASE takers # <<>>
  <2> DEFINE t == Head(takers)  m == Taken(pc[t])
  <2>1. /\ takers' = Tail(takers) /\ held' = [held EXCEPT ![f] = 0, ![t] = a]
        /\ pc' = [pc EXCEPT ![f] = "track", ![t] = m] /\ items' = items /\ items = <<>>
    BY <1>4, <1>7 DEF Offer, TakersWait, a
  <2>2. t \in Fiber /\ t = takers[1] /\ Len(takers) \in Nat \ {0}
    BY <1>4, <1>7
  <2>3. 1 \in 1..Len(takers) /\ pc[t] \in Takes /\ t # f
    <3>1. 1 \in 1..Len(takers)
      BY <2>2
    <3> QED BY <1>1, <1>4, <2>2, <3>1 DEF TakersWait
  <2>4. m \in KeepingAt /\ m \in HoldingAt /\ m \in Labels
    BY <2>3, TakenIs
  <2> HIDE DEF t, m
  <2>5. /\ held' \in [Fiber -> Attempt \cup {0}]
        /\ \A g \in Fiber : held'[g] = IF g = f THEN 0 ELSE IF g = t THEN a ELSE held[g]
    BY <1>4, <1>5, <2>1, <2>2, <2>3
  <2>6. /\ pc' \in [Fiber -> Labels]
        /\ \A g \in Fiber : pc'[g] = IF g = f THEN "track" ELSE IF g = t THEN m ELSE pc[g]
    BY <1>2, <1>4, <2>1, <2>2, <2>3, <2>4
  <2>7. /\ takers' \in Seq(Fiber) /\ Len(takers') = Len(takers) - 1
        /\ \A i \in 1..Len(takers') : i + 1 \in 1..Len(takers) /\ takers'[i] = takers[i + 1]
    BY <1>4, <1>7, <2>1
  <2>8. TypeOK'
    BY <1>3, <2>1, <2>5, <2>6, <2>7 DEF Inv, TypeOK
  <2>9. TakersWait'
    <3>1. \A i \in 1..Len(takers) : takers[i] \in Fiber /\ pc[takers[i]] \in Takes /\ takers[i] # f
      BY <1>1, <1>4 DEF TakersWait
    <3>2. \A i, j \in 1..Len(takers) : takers[i] = takers[j] => i = j
      BY <1>4 DEF TakersWait
    <3>3. \A i \in 1..Len(takers') : takers'[i] # t
      <4> SUFFICES ASSUME NEW i \in 1..Len(takers'), takers'[i] = t
                   PROVE  FALSE
        OBVIOUS
      <4>1. i + 1 = 1 /\ i \in Int /\ 1 <= i
        BY <2>2, <2>3, <2>7, <3>2
      <4> QED BY <4>1
    <3>4. \A i \in 1..Len(takers') : pc'[takers'[i]] \in Takes
      BY <2>6, <2>7, <3>1, <3>3
    <3>5. \A i, j \in 1..Len(takers') : takers'[i] = takers'[j] => i = j
      <4> SUFFICES ASSUME NEW i \in 1..Len(takers'), NEW j \in 1..Len(takers'), takers'[i] = takers'[j]
                   PROVE  i = j
        OBVIOUS
      <4>1. i + 1 = j + 1 /\ i \in Int /\ j \in Int
        BY <2>7, <3>2
      <4> QED BY <4>1
    <3> QED BY <1>1, <1>3, <2>1, <3>4, <3>5 DEF TakersWait
  <2>10. HoldersHave'
    BY <1>2, <1>5, <2>5, <2>6 DEF Inv, HoldersHave
  <2>11. LentOnce'
    <3>1. \A g, h \in Fiber : held'[g] # 0 /\ held'[g] = held'[h] => g = h
      BY <1>4, <1>5, <2>2, <2>5 DEF LentOnce
    <3>2. \A g \in Fiber : held'[g] # 0 => attempts[held'[g]] # "none"
      BY <1>4, <1>5, <2>2, <2>5 DEF LentOnce
    <3>3. 1..Len(items') = {}
      BY <2>1
    <3> QED BY <1>3, <3>1, <3>2, <3>3 DEF LentOnce
  <2>12. Accounted'
    <3> DEFINE k == pc[f]  l == "track"  kt == pc[t]  x == 0  y == -1
    <3>1. \A L : Cardinality(In(L)') = Cardinality(In(L)) + More(L, k, l) + More(L, kt, m)
      <4>1. BothMove(f, "track", t, m)
        BY <2>6 DEF BothMove
      <4> QED BY <2>2, <2>3, <4>1, CountBoth
    <3>2. /\ x \in Int /\ x = 0 /\ y \in Int /\ y = -1
          /\ More(PlacedAt, k, l) = -1 /\ More(BringingAt, k, l) = -1 /\ More(Takes, k, l) = 0
          /\ More(PlacedAt, kt, m) = 1 /\ More(BringingAt, kt, m) = 0 /\ More(Takes, kt, m) = -1
      BY <1>1, <1>2, <2>3, <2>4, CountsOf DEF More
    <3>3. \A L : Cardinality(In(L)) \in Nat
      <4> TAKE L
      <4>1. In(L) \in SUBSET Fiber /\ IsFiniteSet(Fiber)
        BY Fibers DEF In
      <4>2. IsFiniteSet(In(L))
        BY <4>1, FS_Subset
      <4> QED BY <4>2, FS_CardinalityType
    <3> HIDE DEF k, l, kt, x, y
    <3>4. /\ Cardinality(In(PlacedAt)') = Cardinality(In(PlacedAt)) + x
          /\ Cardinality(In(BringingAt)') = Cardinality(In(BringingAt)) + y
          /\ Cardinality(In(Takes)') = Cardinality(In(Takes)) + y
      BY <3>1, <3>2, <3>3
    <3>5. /\ Len(items') = Len(items) + x /\ lost' \in [size : Nat, free : Nat]
          /\ size' \in Int /\ free' \in Int /\ signals' \in Int
      BY <1>3, <2>1, <3>2 DEF Inv, TypeOK
    <3>6. /\ size' + signals' = size + signals + x + x + (lost'.size - lost.size)
          /\ free' = free + x + y - y + (lost'.free - lost.free)
      BY <1>3, <3>2 DEF Inv, TypeOK
    <3> QED BY <1>3, <3>2, <3>4, <3>5, <3>6, SumsBy
  <2> QED BY <2>8, <2>9, <2>10, <2>11, <2>12 DEF Inv
<1> QED BY <1>6, <1>7


\* Who takes the last item goes on, and who waits for another is at its end.
LEMMA SignalKeeps ==
  ASSUME PoolAssumption, Inv, NEW f \in Fiber, Signal(f)
  PROVE  Inv'
<1>1. /\ size' = size /\ free' = free /\ signals' = signals /\ shut' = TRUE /\ attempts' = attempts
      /\ pool' = pool /\ isShuttingDown' = isShuttingDown /\ left' = left /\ calls' = calls /\ lost' = lost
      /\ invalidated' = invalidated /\ items' = items /\ held' = held /\ takers' = <<>> /\ again' \subseteq again
  BY DEF Signal, numbers, things, rest
<1>2. /\ pc \in [Fiber -> Labels]
      /\ \A g \in Fiber : On(g) \in Labels /\ On(g) \notin HoldingAt
      /\ "end" \in Labels /\ "end" \notin HoldingAt
  BY OnIs, Places, Kinds DEF Inv, TypeOK
<1>3. \A g \in Fiber : pc'[g] = pc[g] \/ pc'[g] = On(g) \/ pc'[g] = "end"
  BY DEF Signal
<1>4. pc' \in [Fiber -> Labels]
  <2>1. pc' = [g \in Fiber |-> pc'[g]]
    BY DEF Signal
  <2>2. \A g \in Fiber : pc'[g] \in Labels
    BY <1>2, <1>3
  <2> QED BY <2>1, <2>2
<1>5. TypeOK'
  BY <1>1, <1>4 DEF Inv, TypeOK
<1>6. TakersWait'
  BY <1>1 DEF TakersWait
<1>7. HoldersHave'
  BY <1>1, <1>2, <1>3 DEF Inv, HoldersHave
<1>8. LentOnce'
  BY <1>1 DEF Inv, LentOnce
<1>9. Accounted'
  BY <1>1 DEF Accounted
<1> QED BY <1>5, <1>6, <1>7, <1>8, <1>9 DEF Inv

LEMMA AwaitShutdownKeeps ==
  ASSUME PoolAssumption, Inv, NEW f \in Fiber, AwaitShutdown(f)
  PROVE  Inv'
<1>1. /\ size' = size /\ free' = free /\ signals' = signals /\ shut' = shut /\ attempts' = attempts
      /\ pool' = pool /\ isShuttingDown' = isShuttingDown /\ left' = left /\ calls' = calls /\ lost' = lost
      /\ invalidated' = invalidated /\ items' = items /\ held' = held /\ takers' = takers /\ again' = again
  BY DEF AwaitShutdown, numbers, queue, things, rest
<1>2. pc \in [Fiber -> Labels] /\ shut /\ takers = <<>> /\ "end" \in Labels /\ "end" \notin HoldingAt
  BY Places, Kinds DEF Inv, TypeOK, TakersWait, AwaitShutdown
<1>3. pc' \in [Fiber -> Labels] /\ \A g \in Fiber : pc'[g] = pc[g] \/ pc'[g] = "end"
  BY <1>2 DEF AwaitShutdown
<1>4. TypeOK'
  BY <1>1, <1>3 DEF Inv, TypeOK
<1>5. TakersWait'
  BY <1>1, <1>2 DEF TakersWait
<1>6. HoldersHave'
  BY <1>1, <1>2, <1>3 DEF Inv, HoldersHave
<1>7. LentOnce'
  BY <1>1 DEF Inv, LentOnce
<1>8. Accounted'
  BY <1>1, <1>2 DEF Accounted
<1> QED BY <1>4, <1>5, <1>6, <1>7, <1>8 DEF Inv

\* What Inv does not speak of may change.
LEMMA OthersKeep ==
  ASSUME PoolAssumption, Inv, UNCHANGED <<numbers, queue, attempts, held, pool, isShuttingDown, lost, pc, again>>,
         invalidated' \subseteq Attempt, left' \in [Fiber -> Nat], calls' \in Nat
  PROVE  Inv'
<1>1. /\ size' = size /\ free' = free /\ signals' = signals /\ shut' = shut /\ attempts' = attempts
      /\ pool' = pool /\ isShuttingDown' = isShuttingDown /\ lost' = lost
      /\ items' = items /\ held' = held /\ takers' = takers /\ again' = again /\ pc' = pc
  BY DEF numbers, queue
<1>2. TypeOK'
  BY <1>1 DEF Inv, TypeOK
<1>3. TakersWait' /\ HoldersHave' /\ LentOnce'
  BY <1>1 DEF Inv, TakersWait, HoldersHave, LentOnce
<1>4. Accounted'
  BY <1>1 DEF Inv, Accounted, Placed, Bringing, Taking
<1> QED BY <1>2, <1>3, <1>4 DEF Inv

LEMMA InvalidateKeeps ==
  ASSUME PoolAssumption, Inv, NEW a \in Attempt, Invalidate(a)
  PROVE  Inv'
<1>1. invalidated' \subseteq Attempt /\ calls' \in Nat /\ left' \in [Fiber -> Nat]
  BY DEF Invalidate, Inv, TypeOK
<1> QED BY <1>1, OthersKeep DEF Invalidate

LEMMA InitializeKeeps ==
  ASSUME PoolAssumption, Inv, NEW f \in Fiber, Initialize(f)
  PROVE  Inv'
<1>1. CASE left[f] = 0
  <2>1. Step(f, "end")
    BY <1>1, Numbers, Places DEF Initialize, Goes, Jumps, Plain, Totals, Step, numbers, rest
  <2> QED BY <2>1, StepKeeps
<1>2. CASE left[f] # 0
  <2>1. left' \in [Fiber -> Nat]
    <3>1. left \in [Fiber -> Nat] /\ left[f] - 1 \in Nat
      BY <1>2, Numbers
    <3> QED BY <1>2, <3>1 DEF Initialize
  <2>2. CASE size \in 0..(pool.min - 1)
    <3>1. Step(f, "allocate")
      BY <1>2, <2>1, <2>2, Numbers, Places DEF Initialize, Goes, Jumps, Counts, Plain, Totals, Step
    <3> QED BY <3>1, StepKeeps
  <2>3. CASE size \notin 0..(pool.min - 1)
    <3>1. invalidated' \subseteq Attempt /\ calls' \in Nat
      BY DEF Initialize, things, Inv, TypeOK
    <3> QED BY <1>2, <2>1, <2>3, <3>1, OthersKeep DEF Initialize, things
  <2> QED BY <2>2, <2>3
<1> QED BY <1>1, <1>2
----------------------------------------------------------------------------
(* Pools of fixed size.                                                    *)

There(L) == \E f \in Fiber : pc[f] \in L

\* Where a fiber shuts items down, and from where it goes there.
Closing  == {"getAndShutdown", "takeLast", "close", "closed", "signal"}
Chain    == Closing \cup {"allocate", "retry", "offer", "track"}
Excess   == {"takeExcess", "drop", "dropped"}

\* Nothing is shut down before the shutdown.
Before == ~isShuttingDown => ~shut /\ signals = 0 /\ pc["shutdown"] = "shutdown" /\ ~There(Closing)

\* Who found the pool empty says so.
Found == signals > 0 /\ ~shut => There({"signal"})

\* Every release that was interrupted leaves a place behind.
LeavesPlaces == lost.free <= lost.size

\* A pool of fixed size never shrinks, and until its shutdown it grows to its size.
NeverShrinks == FixedSize => ~There(Excess)
Grows == FixedSize /\ Intact /\ ~isShuttingDown =>
           /\ pool.min - size <= left["initialize"]
           /\ pc["initialize"] = "end" => size = pool.min
           /\ There(Takes) => size > 0

\* In its shutdown somebody is about to find that it is empty, or that an item is free.
FindsItEmpty == FixedSize /\ Intact /\ isShuttingDown /\ ~shut /\ size <= 0 => There({"getAndShutdown", "signal"})
FindsItFree  == Intact /\ isShuttingDown /\ ~shut /\ free > 0 => There(Chain)

Fixed == Before /\ Found /\ LeavesPlaces /\ NeverShrinks /\ Grows /\ FindsItEmpty /\ FindsItFree

\* Until the pool is found empty it has the items and places that the numbers say.
LEMMA Counted ==
  ASSUME PoolAssumption, Inv, LeavesPlaces, ~shut, signals = 0
  PROVE  size >= 0 /\ (Intact => free <= size)
<1> DEFINE p == Cardinality(In(PlacedAt))  b == Cardinality(In(BringingAt))  t == Cardinality(In(Takes))
           n == Len(items)  s == size  r == free  ls == lost.size  lf == lost.free
<1>1. \A L : IsFiniteSet(In(L)) /\ Cardinality(In(L)) \in Nat
  <2> TAKE L
  <2>1. In(L) \in SUBSET Fiber /\ IsFiniteSet(Fiber)
    BY Fibers DEF In
  <2>2. IsFiniteSet(In(L))
    BY <2>1, FS_Subset
  <2> QED BY <2>2, FS_CardinalityType
<1>2. b <= p
  <2>1. In(BringingAt) \in SUBSET In(PlacedAt)
    BY Kinds DEF In
  <2> QED BY <1>1, <2>1, FS_Subset
<1>3. p \in Nat /\ b \in Nat /\ t \in Nat
  BY <1>1
<1>4. n \in Nat /\ s \in Int /\ r \in Int /\ ls \in Nat /\ lf \in Nat /\ lf <= ls
  BY DEF Inv, TypeOK, LeavesPlaces
<1>5. s = n + p + ls /\ r = n + b - t + lf
  <2>1. size = Len(items) + Cardinality(In(PlacedAt)) + lost.size - signals
        /\ free = Len(items) + Cardinality(In(BringingAt)) - Cardinality(In(Takes)) + lost.free
    BY SumsUp DEF Inv, Sums
  <2> QED BY <1>3, <1>4, <2>1
<1>6. Intact => ls = 0
  BY DEF Intact
<1> HIDE DEF p, b, t, n, s, r, ls, lf
<1>7. s >= 0 /\ (Intact => r <= s)
  BY <1>2, <1>3, <1>4, <1>5, <1>6
<1> QED BY <1>7 DEF s, r

\* A fiber that has to do nothing with the end of the pool, or does what it has to.
Good(f, l) ==
  /\ Moves(pc, pc', f, l) /\ pc[f] \notin {"signal", "shutdown"}
  /\ signals' = signals /\ isShuttingDown' = isShuttingDown /\ shut' = shut /\ pool' = pool /\ lost' = lost
  /\ left'["initialize"] = left["initialize"] /\ size' \in Int /\ free' \in Int
  /\ ~isShuttingDown => l \notin Closing
  /\ FixedSize => l \notin Excess
  /\ FixedSize /\ Intact /\ ~isShuttingDown =>
       size' >= size /\ (l \in Takes => size > 0) /\ (f = "initialize" => l # "end")
  /\ FixedSize /\ Intact /\ isShuttingDown /\ ~shut /\ size' <= 0 /\ (size > 0 \/ pc[f] = "getAndShutdown")
       => l = "getAndShutdown" \/ There({"signal"})
  /\ Intact /\ isShuttingDown /\ ~shut /\ free' > 0 /\ (free <= 0 \/ pc[f] \in Chain) => l \in Chain

LEMMA GoodKeeps ==
  ASSUME PoolAssumption, Inv, Inv', Fixed, NEW f \in Fiber, NEW l, Good(f, l)
  PROVE  Fixed'
<1>0. /\ "shutdown" \in Fiber /\ "initialize" \in Fiber
      /\ pool.min \in Int /\ pool.max \in Int /\ pool.min <= pool.max /\ size \in Int /\ size' \in Int
      /\ free \in Int /\ free' \in Int /\ left \in [Fiber -> Nat] /\ left["initialize"] \in Int
      /\ size' <= pool.max
  BY Fibers, Numbers DEF Inv, TypeOK, Good
<1>1. /\ \A g \in Fiber : pc'[g] = IF g = f THEN l ELSE pc[g]
      /\ signals' = signals /\ isShuttingDown' = isShuttingDown /\ shut' = shut /\ pool' = pool /\ lost' = lost
      /\ (FixedSize' <=> FixedSize) /\ (Intact' <=> Intact) /\ left'["initialize"] = left["initialize"]
  BY DEF Good, Moves, FixedSize, Intact
<1>2. Before'
  BY <1>0, <1>1 DEF Fixed, Before, Good, There
<1>3. Found'
  BY <1>1 DEF Fixed, Found, Good, There
<1>4. LeavesPlaces'
  BY <1>1 DEF Fixed, LeavesPlaces
<1>5. NeverShrinks'
  BY <1>1 DEF Fixed, NeverShrinks, Good, There
<1>6. Grows'
  <2> SUFFICES ASSUME FixedSize, Intact, ~isShuttingDown
               PROVE  /\ pool.min - size' <= left["initialize"]
                      /\ pc'["initialize"] = "end" => size' = pool.min
                      /\ There(Takes)' => size' > 0
    BY <1>1 DEF Grows
  <2>1. size' >= size /\ (l \in Takes => size > 0) /\ (f = "initialize" => l # "end")
    BY DEF Good
  <2>2. /\ pool.min - size <= left["initialize"] /\ (pc["initialize"] = "end" => size = pool.min)
        /\ There(Takes) => size > 0
    BY DEF Fixed, Grows
  <2>3. pool.min = pool.max
    BY DEF FixedSize
  <2>4. There(Takes)' => There(Takes) \/ l \in Takes
    BY <1>1 DEF There
  <2>5. pc'["initialize"] = "end" => pc["initialize"] = "end"
    BY <1>0, <1>1, <2>1
  <2> QED BY <1>0, <2>1, <2>2, <2>3, <2>4, <2>5
<1>7. FindsItEmpty'
  <2> SUFFICES ASSUME FixedSize, Intact, isShuttingDown, ~shut, size' <= 0
               PROVE  There({"getAndShutdown", "signal"})'
    BY <1>1 DEF FindsItEmpty
  <2>1. size > 0 \/ pc[f] = "getAndShutdown" => l = "getAndShutdown" \/ There({"signal"})
    BY DEF Good
  <2>4. CASE There({"signal"})
    BY <1>1, <2>4 DEF Good, There
  <2>2. CASE l = "getAndShutdown"
    BY <1>1, <2>2 DEF There
  <2>3. CASE l # "getAndShutdown" /\ ~There({"signal"})
    <3>1. size <= 0 /\ pc[f] # "getAndShutdown" /\ pc[f] # "signal"
      BY <1>0, <2>1, <2>3 DEF Good
    <3>2. PICK g \in Fiber : pc[g] \in {"getAndShutdown", "signal"}
      BY <3>1 DEF Fixed, FindsItEmpty, There
    <3> QED BY <1>1, <3>1, <3>2 DEF There
  <2> QED BY <2>2, <2>3, <2>4
<1>8. FindsItFree'
  <2> SUFFICES ASSUME Intact, isShuttingDown, ~shut, free' > 0
               PROVE  There(Chain)'
    BY <1>1 DEF FindsItFree
  <2>1. free <= 0 \/ pc[f] \in Chain => l \in Chain
    BY DEF Good
  <2>2. CASE l \in Chain
    BY <1>1, <2>2 DEF There
  <2>3. CASE l \notin Chain
    <3>1. free > 0 /\ pc[f] \notin Chain
      BY <1>0, <2>1, <2>3
    <3>2. PICK g \in Fiber : pc[g] \in Chain
      BY <3>1 DEF Fixed, FindsItFree, There
    <3> QED BY <1>1, <3>1, <3>2 DEF There
  <2> QED BY <2>2, <2>3
<1> QED BY <1>2, <1>3, <1>4, <1>5, <1>6, <1>7, <1>8 DEF Fixed


LEMMA Labeled ==
  ASSUME PoolAssumption, NEW f \in Fiber
  PROVE  /\ On(f) \notin Closing /\ On(f) \notin Takes /\ On(f) \notin Excess /\ On(f) # "end"
         /\ {"invalid", "check", "use", "putBack", "failed", "replace", "idle", "acquire", "reserve", "shrink",
             "sleep", "end"} \cap (Chain \cup Takes \cup Excess) = {}
         /\ {"allocate", "retry", "offer", "track"} \cap (Closing \cup Takes \cup Excess) = {}
         /\ Closing \subseteq Chain
BY OnElsewhere DEF Elsewhere, Closing, Chain, Takes, Excess, Disposal

LEMMA TrackGood ==
  ASSUME PoolAssumption, Inv, Fixed, NEW f \in Fiber, Track(f)
  PROVE  \E l : Good(f, l)
<1>1. f \in Fiber /\ pc \in [Fiber -> Labels] /\ "initialize" \in Fiber /\ "initialize" \notin User
  BY Fibers DEF Inv, TypeOK, PoolAssumption
<1>2. ASSUME isShuttingDown PROVE Good(f, "getAndShutdown")
  BY <1>1, <1>2, Numbers, Fibers DEF Track, Goes, GoesOn, Begins, Jumps, Counts, numbers, queue, rest, Good, Moves, Closing, Chain, Takes, Excess, FixedSize, Fixed, Before, NeverShrinks, There
<1>3. ASSUME ~isShuttingDown PROVE Good(f, On(f))
  BY <1>1, <1>3, Numbers, Labeled, Fibers DEF Track, Goes, GoesOn, Begins, Jumps, Counts, numbers, queue, rest, Good, Moves, Closing, Chain, Takes, Excess, FixedSize, Fixed, Before, NeverShrinks, There
<1> QED BY <1>2, <1>3, Numbers DEF Track

LEMMA ReplaceGood ==
  ASSUME PoolAssumption, Inv, Fixed, NEW f \in Fiber, Replace(f)
  PROVE  \E l : Good(f, l)
<1>1. f \in Fiber /\ pc \in [Fiber -> Labels] /\ "initialize" \in Fiber /\ "initialize" \notin User
  BY Fibers DEF Inv, TypeOK, PoolAssumption
<1>2. ASSUME size <= pool.min PROVE Good(f, "allocate")
  BY <1>1, <1>2, Numbers, Fibers DEF Replace, Goes, GoesOn, Begins, Jumps, Counts, numbers, queue, rest, Good, Moves, Closing, Chain, Takes, Excess, FixedSize, Fixed, Before, NeverShrinks, There
<1>3. ASSUME size > pool.min PROVE Good(f, On(f))
  BY <1>1, <1>3, Numbers, Labeled, Fibers DEF Replace, Goes, GoesOn, Begins, Jumps, Counts, numbers, queue, rest, Good, Moves, Closing, Chain, Takes, Excess, FixedSize, Fixed, Before, NeverShrinks, There
<1> QED BY <1>2, <1>3, Numbers DEF Replace

LEMMA ClosedGood ==
  ASSUME PoolAssumption, Inv, Fixed, NEW f \in Fiber, Closed(f)
  PROVE  \E l : Good(f, l)
<1>1. f \in Fiber /\ pc \in [Fiber -> Labels] /\ "initialize" \in Fiber /\ "initialize" \notin User
  BY Fibers DEF Inv, TypeOK, PoolAssumption
<1>2. ASSUME pc[f] = "closed" /\ Goes(f, "getAndShutdown") PROVE Good(f, "getAndShutdown")
  BY <1>1, <1>2, Numbers, Fibers DEF Closed, Goes, GoesOn, Begins, Jumps, Counts, numbers, queue, rest, Good, Moves, Closing, Chain, Takes, Excess, FixedSize, Fixed, Before, NeverShrinks, There
<1>3. ASSUME pc[f] = "dropped" /\ GoesOn(f) PROVE Good(f, On(f))
  BY <1>1, <1>3, Numbers, Labeled, Fibers DEF Closed, Goes, GoesOn, Begins, Jumps, Counts, numbers, queue, rest, Good, Moves, Closing, Chain, Takes, Excess, FixedSize, Fixed, Before, NeverShrinks, There
<1> QED BY <1>2, <1>3, Numbers DEF Closed

LEMMA AllocateGood ==
  ASSUME PoolAssumption, Inv, Fixed, NEW f \in Fiber, Allocate(f)
  PROVE  \E l : Good(f, l)
<1>1. f \in Fiber /\ pc \in [Fiber -> Labels] /\ "initialize" \in Fiber /\ "initialize" \notin User
  BY Fibers DEF Inv, TypeOK, PoolAssumption
<1>2. Good(f, "offer")
  BY <1>1, Numbers, Fibers DEF Allocate, Goes, GoesOn, Begins, Jumps, Counts, numbers, queue, rest, Good, Moves, Closing, Chain, Takes, Excess, FixedSize, Fixed, Before, NeverShrinks, There
<1> QED BY <1>2, Numbers DEF Allocate

LEMMA GetGood ==
  ASSUME PoolAssumption, Inv, Fixed, NEW f \in User, Get(f)
  PROVE  \E l : Good(f, l)
<1>1. f \in Fiber /\ pc \in [Fiber -> Labels] /\ "initialize" \in Fiber /\ "initialize" \notin User
  BY Fibers DEF Inv, TypeOK, PoolAssumption
<1>2. Good(f, "acquire")
  BY <1>1, Numbers, Fibers DEF Get, Goes, GoesOn, Begins, Jumps, Counts, numbers, queue, rest, Good, Moves, Closing, Chain, Takes, Excess, FixedSize, Fixed, Before, NeverShrinks, There
<1> QED BY <1>2, Numbers DEF Get

LEMMA AcquireGood ==
  ASSUME PoolAssumption, Inv, Fixed, NEW f \in User, Acquire(f)
  PROVE  \E l : Good(f, l)
<1>1. f \in Fiber /\ pc \in [Fiber -> Labels] /\ "initialize" \in Fiber /\ "initialize" \notin User
  BY Fibers DEF Inv, TypeOK, PoolAssumption
<1>2. ASSUME isShuttingDown PROVE Good(f, "end")
  BY <1>1, <1>2, Numbers, Fibers DEF Acquire, Goes, GoesOn, Begins, Jumps, Counts, numbers, queue, rest, Good, Moves, Closing, Chain, Takes, Excess, FixedSize, Fixed, Before, NeverShrinks, There
<1>3. ASSUME ~isShuttingDown PROVE Good(f, "reserve")
  BY <1>1, <1>3, Numbers, Fibers DEF Acquire, Goes, GoesOn, Begins, Jumps, Counts, numbers, queue, rest, Good, Moves, Closing, Chain, Takes, Excess, FixedSize, Fixed, Before, NeverShrinks, There
<1> QED BY <1>2, <1>3, Numbers DEF Acquire

LEMMA CheckGood ==
  ASSUME PoolAssumption, Inv, Fixed, NEW f \in User, Check(f)
  PROVE  \E l : Good(f, l)
<1>1. f \in Fiber /\ pc \in [Fiber -> Labels] /\ "initialize" \in Fiber /\ "initialize" \notin User
  BY Fibers DEF Inv, TypeOK, PoolAssumption
<1>2. ASSUME attempts[held[f]] = "failed" PROVE Good(f, "failed")
  BY <1>1, <1>2, Numbers, Fibers DEF Check, Goes, GoesOn, Begins, Jumps, Counts, numbers, queue, rest, Good, Moves, Closing, Chain, Takes, Excess, FixedSize, Fixed, Before, NeverShrinks, There
<1>3. ASSUME attempts[held[f]] # "failed" /\ held[f] \in invalidated PROVE Good(f, "invalid")
  BY <1>1, <1>3, Numbers, Fibers DEF Check, Goes, GoesOn, Begins, Jumps, Counts, numbers, queue, rest, Good, Moves, Closing, Chain, Takes, Excess, FixedSize, Fixed, Before, NeverShrinks, There
<1>4. ASSUME attempts[held[f]] # "failed" /\ held[f] \notin invalidated PROVE Good(f, "use")
  BY <1>1, <1>4, Numbers, Fibers DEF Check, Goes, GoesOn, Begins, Jumps, Counts, numbers, queue, rest, Good, Moves, Closing, Chain, Takes, Excess, FixedSize, Fixed, Before, NeverShrinks, There
<1> QED BY <1>2, <1>3, <1>4, Numbers DEF Check

LEMMA ReleaseGood ==
  ASSUME PoolAssumption, Inv, Fixed, NEW f \in User, Release(f)
  PROVE  \E l : Good(f, l)
<1>1. f \in Fiber /\ pc \in [Fiber -> Labels] /\ "initialize" \in Fiber /\ "initialize" \notin User
  BY Fibers DEF Inv, TypeOK, PoolAssumption
<1>2. ASSUME held[f] \in invalidated PROVE Good(f, "invalid")
  BY <1>1, <1>2, Numbers, Fibers DEF Release, Goes, GoesOn, Begins, Jumps, Counts, numbers, queue, rest, Good, Moves, Closing, Chain, Takes, Excess, FixedSize, Fixed, Before, NeverShrinks, There
<1>3. ASSUME held[f] \notin invalidated PROVE Good(f, "putBack")
  BY <1>1, <1>3, Numbers, Fibers DEF Release, Goes, GoesOn, Begins, Jumps, Counts, numbers, queue, rest, Good, Moves, Closing, Chain, Takes, Excess, FixedSize, Fixed, Before, NeverShrinks, There
<1> QED BY <1>2, <1>3, Numbers DEF Release

LEMMA PutBackGood ==
  ASSUME PoolAssumption, Inv, Fixed, NEW f \in User, PutBack(f)
  PROVE  \E l : Good(f, l)
<1>1. f \in Fiber /\ pc \in [Fiber -> Labels] /\ "initialize" \in Fiber /\ "initialize" \notin User
  BY Fibers DEF Inv, TypeOK, PoolAssumption
<1>2. Good(f, "offer")
  BY <1>1, Numbers, Fibers DEF PutBack, Goes, GoesOn, Begins, Jumps, Counts, numbers, queue, rest, Good, Moves, Closing, Chain, Takes, Excess, FixedSize, Fixed, Before, NeverShrinks, There
<1> QED BY <1>2, Numbers DEF PutBack

LEMMA RetryGood ==
  ASSUME PoolAssumption, Inv, Fixed, NEW f \in User, Retry(f)
  PROVE  \E l : Good(f, l)
<1>1. f \in Fiber /\ pc \in [Fiber -> Labels] /\ "initialize" \in Fiber /\ "initialize" \notin User
  BY Fibers DEF Inv, TypeOK, PoolAssumption
<1>2. Good(f, "allocate")
  BY <1>1, Numbers, Fibers DEF Retry, Goes, GoesOn, Begins, Jumps, Counts, numbers, queue, rest, Good, Moves, Closing, Chain, Takes, Excess, FixedSize, Fixed, Before, NeverShrinks, There
<1> QED BY <1>2, Numbers DEF Retry

LEMMA AwakeGood ==
  ASSUME PoolAssumption, Inv, Fixed, NEW f \in Fiber, Awake(f)
  PROVE  \E l : Good(f, l)
<1>1. f \in Fiber /\ pc \in [Fiber -> Labels] /\ "initialize" \in Fiber /\ "initialize" \notin User
  BY Fibers DEF Inv, TypeOK, PoolAssumption
<1>2. Good(f, "shrink")
  BY <1>1, Numbers, Fibers DEF Awake, Goes, GoesOn, Begins, Jumps, Counts, numbers, queue, rest, Good, Moves, Closing, Chain, Takes, Excess, FixedSize, Fixed, Before, NeverShrinks, There
<1> QED BY <1>2, Numbers DEF Awake

LEMMA TakenFrom ==
  Taken("take") = "check" /\ Taken("takeLast") = "close" /\ Taken("takeExcess") = "drop"
BY DEF Taken

LEMMA DisposedFrom ==
  Disposed("invalid") = "replace" /\ Disposed("drop") = "dropped" /\ Disposed("close") = "closed"
BY DEF Disposed

LEMMA TakeGood ==
  ASSUME PoolAssumption, Inv, Fixed, NEW f \in Fiber, Take(f), items # <<>>
  PROVE  \E l : Good(f, l)
<1>1. pc \in [Fiber -> Labels] /\ pc[f] \in {"take", "takeLast", "takeExcess"}
      /\ pc' = [pc EXCEPT ![f] = Taken(pc[f])]
  BY DEF Inv, TypeOK, Take, Takes, Jumps
<1>2. /\ size' = size /\ free' = free /\ signals' = signals /\ shut' = shut /\ pool' = pool
      /\ isShuttingDown' = isShuttingDown /\ left' = left /\ lost' = lost
  BY DEF Take, numbers, rest
<1>3. \/ pc[f] = "take" /\ pc' = [pc EXCEPT ![f] = "check"]
      \/ pc[f] = "takeLast" /\ pc' = [pc EXCEPT ![f] = "close"]
      \/ pc[f] = "takeExcess" /\ pc' = [pc EXCEPT ![f] = "drop"]
  BY <1>1, TakenFrom
<1>4. ASSUME pc[f] = "take" /\ pc' = [pc EXCEPT ![f] = "check"] PROVE Good(f, "check")
  BY <1>1, <1>2, <1>4, Numbers DEF Good, Moves, Closing, Chain, Takes, Excess
<1>5. ASSUME pc[f] = "takeLast" /\ pc' = [pc EXCEPT ![f] = "close"] PROVE Good(f, "close")
  BY <1>1, <1>2, <1>5, Numbers DEF Good, Moves, Closing, Chain, Takes, Excess, Fixed, Before, There
<1>6. ASSUME pc[f] = "takeExcess" /\ pc' = [pc EXCEPT ![f] = "drop"] PROVE Good(f, "drop")
  BY <1>1, <1>2, <1>6, Numbers DEF Good, Moves, Closing, Chain, Takes, Excess, Fixed, NeverShrinks, There
<1> QED BY <1>3, <1>4, <1>5, <1>6

LEMMA DisposeGood ==
  ASSUME PoolAssumption, Inv, Fixed, NEW f \in Fiber, Dispose(f)
  PROVE  \E l : Good(f, l)
<1>1. pc \in [Fiber -> Labels] /\ pc[f] \in {"invalid", "drop", "close"}
      /\ pc' = [pc EXCEPT ![f] = Disposed(pc[f])]
  BY DEF Inv, TypeOK, Dispose, Disposal, Goes, Jumps
<1>2. /\ size' = size /\ free' = free /\ signals' = signals /\ shut' = shut /\ pool' = pool
      /\ isShuttingDown' = isShuttingDown /\ left' = left /\ lost' = lost
  BY DEF Dispose, numbers, queue, rest
<1>3. \/ pc[f] = "invalid" /\ pc' = [pc EXCEPT ![f] = "replace"]
      \/ pc[f] = "drop" /\ pc' = [pc EXCEPT ![f] = "dropped"]
      \/ pc[f] = "close" /\ pc' = [pc EXCEPT ![f] = "closed"]
  BY <1>1, DisposedFrom
<1>4. ASSUME pc[f] = "invalid" /\ pc' = [pc EXCEPT ![f] = "replace"] PROVE Good(f, "replace")
  BY <1>1, <1>2, <1>4, Numbers DEF Good, Moves, Closing, Chain, Takes, Excess
<1>5. ASSUME pc[f] = "close" /\ pc' = [pc EXCEPT ![f] = "closed"] PROVE Good(f, "closed")
  BY <1>1, <1>2, <1>5, Numbers DEF Good, Moves, Closing, Chain, Takes, Excess, Fixed, Before, There
<1>6. ASSUME pc[f] = "drop" /\ pc' = [pc EXCEPT ![f] = "dropped"] PROVE Good(f, "dropped")
  BY <1>1, <1>2, <1>6, Numbers DEF Good, Moves, Closing, Chain, Takes, Excess, Fixed, NeverShrinks, There
<1> QED BY <1>3, <1>4, <1>5, <1>6

LEMMA ReleaseFailureGood ==
  ASSUME PoolAssumption, Inv, Fixed, NEW f \in User, ReleaseFailure(f)
  PROVE  \E l : Good(f, l)
<1>1. f \in Fiber /\ pc \in [Fiber -> Labels] /\ pc[f] = "failed" /\ f # "initialize"
  BY Fibers DEF Inv, TypeOK, PoolAssumption, ReleaseFailure
<1>2. /\ signals' = signals /\ shut' = shut /\ pool' = pool
      /\ isShuttingDown' = isShuttingDown /\ left' = left /\ lost' = lost
  BY DEF ReleaseFailure, Counts, queue, rest
<1>3. ASSUME size <= pool.min PROVE Good(f, "retry")
  BY <1>1, <1>2, <1>3, Numbers DEF ReleaseFailure, Goes, Jumps, Counts, Good, Moves, Closing, Chain, Takes, Excess
<1>4. ASSUME size > pool.min PROVE Good(f, "idle")
  BY <1>1, <1>2, <1>4, Numbers
     DEF ReleaseFailure, Goes, Jumps, Counts, Good, Moves, Closing, Chain, Takes, Excess, FixedSize
<1> QED BY <1>3, <1>4, Numbers

\* Who gets an item gets it from a pool that is not empty.
LEMMA ReserveGood ==
  ASSUME PoolAssumption, Inv, Fixed, NEW f \in User, Reserve(f)
  PROVE  \E l : Good(f, l)
<1>1. /\ f \in Fiber /\ pc \in [Fiber -> Labels] /\ pc[f] = "reserve" /\ f # "initialize"
      /\ pool.max \in Int /\ pool.max >= 1
  <2>1. pool \in [min : Nat, max : Nat \ {0}, ttl : BOOLEAN]
    BY DEF Inv, TypeOK, PoolAssumption
  <2> QED BY <2>1, Fibers DEF Inv, TypeOK, PoolAssumption, Reserve
<1>2. /\ signals' = signals /\ shut' = shut /\ pool' = pool
      /\ isShuttingDown' = isShuttingDown /\ left' = left /\ lost' = lost
  BY DEF Reserve, Counts, numbers, queue, rest
<1>3. ASSUME (free > 0 \/ size >= pool.max) /\ Counts(0, -1) /\ Goes(f, "take") PROVE Good(f, "take")
  <2>1. Intact /\ ~isShuttingDown => size > 0
    BY <1>1, <1>3, Numbers, Counted DEF Fixed, Before
  <2> QED BY <1>1, <1>2, <1>3, <2>1, Numbers DEF Goes, Jumps, Counts, Good, Moves, Closing, Chain, Takes, Excess
<1>4. ASSUME free <= 0 /\ size \in 0..(pool.max - 1) /\ Counts(1, 1) /\ Begins(f, "allocate")
      PROVE  Good(f, "allocate")
  BY <1>1, <1>2, <1>4, Numbers DEF Begins, Jumps, Counts, Good, Moves, Closing, Chain, Takes, Excess
<1>5. ASSUME free <= 0 /\ size < 0 /\ Goes(f, "end") /\ UNCHANGED numbers PROVE Good(f, "end")
  BY <1>1, <1>2, <1>5, Numbers DEF Goes, Jumps, numbers, Good, Moves, Closing, Chain, Takes, Excess
<1> QED BY <1>3, <1>4, <1>5 DEF Reserve

LEMMA ShrinkGood ==
  ASSUME PoolAssumption, Inv, Fixed, NEW f \in Fiber, Shrink(f)
  PROVE  \E l : Good(f, l)
<1>2. /\ signals' = signals /\ shut' = shut /\ pool' = pool
      /\ isShuttingDown' = isShuttingDown /\ left' = left /\ lost' = lost
  BY DEF Shrink, Counts, numbers, queue, rest
<1>3. pc \in [Fiber -> Labels] /\ pc[f] = "shrink" /\ (FixedSize => size <= pool.min)
  BY Numbers DEF Inv, TypeOK, Shrink, FixedSize
<1>4. ASSUME size > pool.min /\ free > 0 PROVE Good(f, "takeExcess")
  BY <1>2, <1>3, <1>4, Numbers DEF Shrink, Goes, Jumps, Counts, Good, Moves, Closing, Chain, Takes, Excess
<1>5. ASSUME ~(size > pool.min /\ free > 0) PROVE Good(f, "sleep")
  BY <1>2, <1>3, <1>5, Numbers DEF Shrink, Goes, Jumps, numbers, Good, Moves, Closing, Chain, Takes, Excess
<1> QED BY <1>4, <1>5

\* In the shutdown an item that is free is one of a pool that is not empty.
LEMMA GetAndShutdownFixed ==
  ASSUME PoolAssumption, Inv, Inv', Fixed, NEW f \in Fiber, GetAndShutdown(f)
  PROVE  Fixed'
<1>1. /\ pc \in [Fiber -> Labels] /\ pc[f] = "getAndShutdown" /\ isShuttingDown
      /\ shut' = shut /\ pool' = pool
      /\ isShuttingDown' = isShuttingDown /\ left' = left /\ lost' = lost
  BY DEF Inv, TypeOK, GetAndShutdown, Fixed, Before, Closing, There, queue, rest
<1>2. CASE free > 0 /\ Counts(0, -1) /\ Goes(f, "takeLast")
  <2>1. Intact /\ ~shut => size > 0 \/ There({"signal"})
    <3>1. CASE signals = 0
      BY <1>2, <3>1, Numbers, Counted DEF Fixed
    <3>2. CASE signals # 0
      BY <3>2, Numbers DEF Fixed, Found
    <3> QED BY <3>1, <3>2
  <2>2. Good(f, "takeLast")
    BY <1>1, <1>2, <2>1, Numbers DEF Goes, Jumps, Counts, Good, Moves, Closing, Chain, Takes, Excess
  <2> QED BY <2>2, GoodKeeps
<1>3. CASE free <= 0 /\ size > 0 /\ GoesOn(f) /\ UNCHANGED numbers
  <2>1. Good(f, On(f))
    BY <1>1, <1>3, Numbers, Labeled DEF GoesOn, Jumps, numbers, Good, Moves
  <2> QED BY <2>1, GoodKeeps
<1>4. CASE /\ free <= 0 /\ size <= 0
           /\ size' = size - 1 /\ signals' = signals + 1 /\ Goes(f, "signal") /\ UNCHANGED free
  <2>1. \A g \in Fiber : pc'[g] = IF g = f THEN "signal" ELSE pc[g]
    BY <1>1, <1>4 DEF Goes, Jumps
  <2>2. There({"signal"})' /\ There({"getAndShutdown", "signal"})' /\ There(Chain)'
    BY <2>1 DEF There, Chain, Closing
  <2>3. LeavesPlaces' /\ NeverShrinks' /\ Grows' /\ Before'
    BY <1>1, <2>1 DEF Fixed, LeavesPlaces, NeverShrinks, Grows, Before, There, Excess, FixedSize
  <2> QED BY <2>2, <2>3 DEF Fixed, Found, FindsItEmpty, FindsItFree
<1> QED BY <1>2, <1>3, <1>4 DEF GetAndShutdown


\* When the queue is shut down not much is left to say.
LEMMA ShutFixed ==
  ASSUME Fixed, shut', isShuttingDown', LeavesPlaces', NeverShrinks'
  PROVE  Fixed'
BY DEF Fixed, Before, Found, Grows, FindsItEmpty, FindsItFree

LEMMA TooLateFixed ==
  ASSUME PoolAssumption, Inv, Fixed, NEW f \in Fiber, TooLate(f)
  PROVE  Fixed'
<1>1. shut /\ shut' = shut /\ isShuttingDown' = isShuttingDown /\ lost' = lost /\ pool' = pool
  BY DEF TooLate, queue, rest
<1>2. isShuttingDown
  BY <1>1 DEF Fixed, Before
<1>3. PICK l \in {On(f), "end"} : pc' = [pc EXCEPT ![f] = l]
  BY DEF TooLate, Goes, GoesOn, Jumps
<1>4. l \notin Excess
  BY Labeled DEF Excess
<1>5. NeverShrinks'
  BY <1>1, <1>3, <1>4 DEF Inv, TypeOK, Fixed, NeverShrinks, FixedSize, There
<1> QED BY <1>1, <1>2, <1>5, ShutFixed DEF Fixed, LeavesPlaces

LEMMA SignalFixed ==
  ASSUME PoolAssumption, Inv, Fixed, NEW f \in Fiber, Signal(f)
  PROVE  Fixed'
<1>1. shut' /\ isShuttingDown' = isShuttingDown /\ lost' = lost /\ pool' = pool /\ pc[f] = "signal"
  BY DEF Signal, rest
<1>2. isShuttingDown
  BY <1>1 DEF Fixed, Before, There, Closing
<1>3. \A g \in Fiber : pc'[g] = pc[g] \/ pc'[g] = On(g) \/ pc'[g] = "end"
  BY DEF Signal
<1>4. \A g \in Fiber : On(g) \notin Excess /\ "end" \notin Excess
  BY Labeled DEF Excess
<1>5. NeverShrinks'
  BY <1>1, <1>3, <1>4 DEF Fixed, NeverShrinks, FixedSize, There
<1> QED BY <1>1, <1>2, <1>5, ShutFixed DEF Fixed, LeavesPlaces

LEMMA AwaitShutdownFixed ==
  ASSUME PoolAssumption, Inv, Fixed, NEW f \in Fiber, AwaitShutdown(f)
  PROVE  Fixed'
<1>1. shut /\ shut' = shut /\ isShuttingDown' = isShuttingDown /\ lost' = lost /\ pool' = pool
  BY DEF AwaitShutdown, queue, rest
<1>2. isShuttingDown
  BY <1>1 DEF Fixed, Before
<1>3. \A g \in Fiber : pc'[g] = pc[g] \/ pc'[g] = "end"
  BY DEF AwaitShutdown, Inv, TypeOK
<1>4. NeverShrinks'
  BY <1>1, <1>3 DEF Fixed, NeverShrinks, FixedSize, There, Excess
<1> QED BY <1>1, <1>2, <1>4, ShutFixed DEF Fixed, LeavesPlaces

\* The shutdown begins.
LEMMA ShutdownFixed ==
  ASSUME PoolAssumption, Inv, Fixed, NEW f \in Fiber, Shutdown(f)
  PROVE  Fixed'
<1>1. /\ isShuttingDown' /\ shut' = shut /\ signals' = signals /\ lost' = lost /\ pool' = pool
      /\ \A g \in Fiber : pc'[g] = IF g = f THEN "getAndShutdown" ELSE pc[g]
      /\ pc[f] = "shutdown"
  BY DEF Shutdown, Goes, Jumps, numbers, queue, Inv, TypeOK
<1>2. There({"getAndShutdown", "signal"})' /\ There(Chain)'
  BY <1>1 DEF There, Chain, Closing
<1>3. Found' /\ LeavesPlaces' /\ NeverShrinks'
  BY <1>1 DEF Fixed, Found, LeavesPlaces, NeverShrinks, FixedSize, There, Excess
<1> QED BY <1>1, <1>2, <1>3 DEF Fixed, Before, Grows, FindsItEmpty, FindsItFree

\* What was lost stays lost.
LEMMA CutFixed ==
  ASSUME PoolAssumption, Inv, Fixed, NEW f \in User, Cut(f)
  PROVE  Fixed'
<1>1. /\ isShuttingDown' = isShuttingDown /\ shut' = shut /\ signals' = signals /\ pool' = pool
      /\ f \in Fiber /\ "shutdown" \in Fiber /\ f # "shutdown"
      /\ \A g \in Fiber : pc'[g] = IF g = f THEN "idle" ELSE pc[g]
      /\ pc[f] \in {"failed", "retry"}
  BY Fibers DEF Cut, Goes, Jumps, numbers, queue, Inv, TypeOK, PoolAssumption
<1>2. lost'.size \in Nat /\ lost'.free \in Nat /\ lost'.size > 0 /\ LeavesPlaces'
  <2>1. lost.size \in Nat /\ lost.free \in Nat /\ lost.free <= lost.size
    BY DEF Inv, TypeOK, Fixed, LeavesPlaces
  <2>2. /\ lost'.size = lost.size + 1
        /\ lost'.free = lost.free \/ lost'.free = lost.free + 1
    BY DEF Cut
  <2> QED BY <2>1, <2>2 DEF LeavesPlaces
<1>3. ~Intact'
  BY <1>2 DEF Intact
<1>4. Before' /\ Found' /\ NeverShrinks'
  BY <1>1 DEF Fixed, Before, Found, NeverShrinks, FixedSize, There, Closing, Excess
<1> QED BY <1>2, <1>3, <1>4 DEF Fixed, Grows, FindsItEmpty, FindsItFree

\* Who brings an attempt to who waits for one.
LEMMA OfferFixed ==
  ASSUME PoolAssumption, Inv, Inv', Fixed, NEW f \in Fiber, Offer(f)
  PROVE  Fixed'
<1>1. /\ pc \in [Fiber -> Labels] /\ pc[f] = "offer"
      /\ size' = size /\ free' = free /\ signals' = signals /\ shut' = shut /\ pool' = pool
      /\ isShuttingDown' = isShuttingDown /\ left' = left /\ lost' = lost
  BY DEF Inv, TypeOK, Offer, numbers, rest
<1>2. CASE takers = <<>>
  <2>1. Good(f, "track")
    BY <1>1, <1>2, Numbers DEF Offer, Jumps, Good, Moves, Closing, Chain, Takes, Excess
  <2> QED BY <2>1, GoodKeeps
<1>3. CASE takers # <<>>
  <2> DEFINE t == Head(takers)
  <2>1. takers \in Seq(Fiber) /\ TakersWait
    BY DEF Inv, TypeOK
  <2>2. t \in Fiber /\ t = takers[1] /\ 1 \in 1..Len(takers)
    BY <1>3, <2>1
  <2>3. pc[t] \in {"take", "takeLast", "takeExcess"} /\ t # f
    BY <1>1, <2>1, <2>2 DEF TakersWait, Takes
  <2>4. pc' = [pc EXCEPT ![f] = "track", ![t] = Taken(pc[t])]
    BY <1>3 DEF Offer
  <2> HIDE DEF t
  <2>5. PICK m \in {"check", "close", "drop"} :
           /\ \A g \in Fiber : pc'[g] = IF g = f THEN "track" ELSE IF g = t THEN m ELSE pc[g]
           /\ m = "close" => pc[t] = "takeLast"
           /\ m = "drop" => pc[t] = "takeExcess"
    BY <1>1, <2>2, <2>3, <2>4, TakenFrom
  <2>6. "shutdown" \in Fiber /\ "initialize" \in Fiber
    BY Fibers
  <2>7. There(Chain)'
    BY <2>5 DEF There, Chain
  <2>8. Before'
    BY <1>1, <2>2, <2>3, <2>5, <2>6 DEF Fixed, Before, There, Closing
  <2>9. Found' /\ LeavesPlaces'
    BY <1>1, <2>2, <2>3, <2>5 DEF Fixed, Found, LeavesPlaces, There
  <2>10. NeverShrinks'
    BY <1>1, <2>2, <2>3, <2>5 DEF Fixed, NeverShrinks, FixedSize, There, Excess
  <2>11. Grows'
    <3>1. There(Takes)' => There(Takes)
      BY <1>1, <2>5 DEF There, Takes
    <3>2. pc'["initialize"] = "end" => pc["initialize"] = "end"
      BY <2>5, <2>6
    <3> QED BY <1>1, <3>1, <3>2 DEF Fixed, Grows, FixedSize, Intact
  <2>12. FindsItEmpty'
    BY <1>1, <2>3, <2>5 DEF Fixed, FindsItEmpty, FixedSize, Intact, There
  <2> QED BY <2>7, <2>8, <2>9, <2>10, <2>11, <2>12 DEF Fixed, FindsItFree
<1> QED BY <1>2, <1>3

\* Steps that leave everybody where they are.
LEMMA StaysFixed ==
  ASSUME PoolAssumption, Inv, Fixed, UNCHANGED <<pool, size, free, signals, isShuttingDown, shut, pc, lost>>,
         left'["initialize"] = left["initialize"]
  PROVE  Fixed'
BY DEF Fixed, Before, Found, LeavesPlaces, NeverShrinks, Grows, FindsItEmpty, FindsItFree, FixedSize, Intact, There

LEMMA TakeFixed ==
  ASSUME PoolAssumption, Inv, Inv', Fixed, NEW f \in Fiber, Take(f)
  PROVE  Fixed'
<1>1. CASE items = <<>>
  BY <1>1, StaysFixed DEF Take, numbers, rest
<1>2. CASE items # <<>>
  BY <1>2, TakeGood, GoodKeeps
<1> QED BY <1>1, <1>2


\* The pool grows until it has its size.
LEMMA InitializeFixed ==
  ASSUME PoolAssumption, Inv, Inv', Fixed, NEW f \in Fiber, Initialize(f)
  PROVE  Fixed'
<1>1. /\ pc \in [Fiber -> Labels] /\ pc[f] = "initialize" /\ "initialize" \in Fiber /\ "shutdown" \in Fiber
      /\ left \in [Fiber -> Nat] /\ left[f] \in Nat /\ left["initialize"] \in Nat
      /\ shut' = shut /\ pool' = pool /\ isShuttingDown' = isShuttingDown /\ lost' = lost
  BY Fibers DEF Inv, TypeOK, Initialize, queue
<1>2. FixedSize /\ Intact /\ ~isShuttingDown =>
        /\ pool.min - size <= left["initialize"] /\ size >= 0 /\ size <= pool.min
        /\ There(Takes) => size > 0
        /\ pc["initialize"] = "end" => size = pool.min
  BY Numbers, Counted DEF Fixed, Before, Grows, FixedSize
<1>3. CASE left[f] = 0
  <2>1. /\ size' = size /\ free' = free /\ signals' = signals /\ left' = left
        /\ \A g \in Fiber : pc'[g] = IF g = f THEN "end" ELSE pc[g]
    BY <1>1, <1>3 DEF Initialize, Goes, Jumps, numbers
  <2>2. Before' /\ Found' /\ LeavesPlaces' /\ NeverShrinks'
    BY <1>1, <2>1 DEF Fixed, Before, Found, LeavesPlaces, NeverShrinks, FixedSize, There, Closing, Excess
  <2>3. Grows'
    <3>1. There(Takes)' => There(Takes)
      BY <2>1 DEF There, Takes
    <3>2. pc'["initialize"] = "end" => pc["initialize"] = "end" \/ left["initialize"] = 0
      BY <1>1, <1>3, <2>1
    <3> QED BY <1>1, <1>2, <2>1, <3>1, <3>2, Numbers DEF Grows, FixedSize, Intact
  <2>4. FindsItEmpty' /\ FindsItFree'
    BY <1>1, <2>1 DEF Fixed, FindsItEmpty, FindsItFree, FixedSize, Intact, There, Chain, Closing
  <2> QED BY <2>2, <2>3, <2>4 DEF Fixed
<1>4. CASE left[f] # 0 /\ size \in 0..(pool.min - 1)
  <2>1. /\ size' = size + 1 /\ free' = free + 1 /\ signals' = signals
        /\ left' = [left EXCEPT ![f] = left[f] - 1]
        /\ \A g \in Fiber : pc'[g] = IF g = f THEN "allocate" ELSE pc[g]
    BY <1>1, <1>4 DEF Initialize, Goes, Jumps, Counts
  <2>2. left'["initialize"] \in Int /\ left'["initialize"] >= left["initialize"] - 1
    BY <1>1, <2>1
  <2>3. Before' /\ Found' /\ LeavesPlaces' /\ NeverShrinks'
    BY <1>1, <2>1 DEF Fixed, Before, Found, LeavesPlaces, NeverShrinks, FixedSize, There, Closing, Excess
  <2>4. Grows'
    <3>1. There(Takes)' => There(Takes)
      BY <2>1 DEF There, Takes
    <3>2. pc'["initialize"] = "end" => pc["initialize"] = "end"
      BY <1>1, <2>1
    <3>3. size \in 0..(pool.min - 1)
      BY <1>4
    <3> QED BY <1>1, <1>2, <2>1, <2>2, <3>1, <3>2, <3>3, Numbers DEF Grows, FixedSize, Intact
  <2>5. FindsItEmpty' /\ FindsItFree'
    BY <1>1, <1>4, <2>1, Numbers DEF Fixed, FindsItEmpty, FindsItFree, FixedSize, Intact, There, Chain, Closing
  <2> QED BY <2>3, <2>4, <2>5 DEF Fixed
<1>5. CASE left[f] # 0 /\ size \notin 0..(pool.min - 1)
  <2>1. /\ size' = size /\ free' = free /\ signals' = signals /\ pc' = pc
        /\ left' = [left EXCEPT ![f] = left[f] - 1]
    BY <1>5 DEF Initialize, numbers
  <2>2. left'["initialize"] \in Int /\ left'["initialize"] >= 0
    BY <1>1, <1>5, <2>1
  <2>3. Before' /\ Found' /\ LeavesPlaces' /\ NeverShrinks'
    BY <1>1, <2>1 DEF Fixed, Before, Found, LeavesPlaces, NeverShrinks, FixedSize, There
  <2>4. Grows'
    <3>1. There(Takes)' => There(Takes)
      BY <2>1 DEF There
    <3> QED BY <1>1, <1>2, <1>5, <2>1, <2>2, <3>1, Numbers DEF Grows, FixedSize, Intact
  <2>5. FindsItEmpty' /\ FindsItFree'
    BY <1>1, <2>1 DEF Fixed, FindsItEmpty, FindsItFree, FixedSize, Intact, There
  <2> QED BY <2>3, <2>4, <2>5 DEF Fixed
<1> QED BY <1>3, <1>4, <1>5

LEMMA NextFixed ==
  ASSUME PoolAssumption, Inv, Inv', Fixed, [Next]_vars
  PROVE  Fixed'
<1>1. CASE UNCHANGED vars
  BY <1>1, StaysFixed DEF vars, numbers, queue, rest
<1>2. ASSUME NEW f \in Fiber,
             \/ Track(f) \/ Allocate(f) \/ Dispose(f) \/ Replace(f) \/ Closed(f) \/ Awake(f) \/ Shrink(f)
      PROVE  Fixed'
  <2>1. \E l : Good(f, l)
    BY <1>2, TrackGood, AllocateGood, DisposeGood, ReplaceGood, ClosedGood, AwakeGood, ShrinkGood
  <2> QED BY <2>1, GoodKeeps
<1>3. ASSUME NEW f \in Fiber,
             \/ Take(f) \/ Offer(f) \/ TooLate(f) \/ GetAndShutdown(f) \/ Signal(f)
             \/ Initialize(f) \/ Shutdown(f) \/ AwaitShutdown(f)
      PROVE  Fixed'
  BY <1>3, TakeFixed, OfferFixed, TooLateFixed, GetAndShutdownFixed, SignalFixed, InitializeFixed,
     ShutdownFixed, AwaitShutdownFixed
<1>4. ASSUME NEW u \in User,
             \/ Get(u) \/ Acquire(u) \/ Reserve(u) \/ Check(u) \/ Release(u) \/ PutBack(u)
             \/ ReleaseFailure(u) \/ Retry(u) \/ Cut(u)
      PROVE  Fixed'
  <2>1. CASE Cut(u)
    BY <2>1, CutFixed
  <2>2. CASE ~Cut(u)
    <3>1. \E l : Good(u, l)
      BY <1>4, <2>2, GetGood, AcquireGood, ReserveGood, CheckGood, ReleaseGood, PutBackGood,
         ReleaseFailureGood, RetryGood
    <3>2. u \in Fiber
      BY Fibers
    <3> QED BY <3>1, <3>2, GoodKeeps
  <2> QED BY <2>1, <2>2
<1>5. ASSUME NEW a \in Attempt, Invalidate(a) PROVE Fixed'
  BY <1>5, StaysFixed DEF Invalidate, numbers, queue
<1> QED BY <1>1, <1>2, <1>3, <1>4, <1>5 DEF Next

LEMMA InitFixed ==
  ASSUME PoolAssumption, Init
  PROVE  Fixed
<1>1. pool \in [min : Nat, max : Nat \ {0}, ttl : BOOLEAN]
  BY DEF Init, PoolAssumption
<1>2. \A f \in Fiber : pc[f] \in Elsewhere \cup {"shutdown"}
  BY OnElsewhere DEF Init
<1>3. ~There(Closing) /\ ~There(Takes) /\ ~There(Excess)
  BY <1>2 DEF There, Elsewhere, Closing, Takes, Excess
<1>4. /\ pc["shutdown"] = "shutdown" /\ pc["initialize"] = "initialize" /\ left["initialize"] = pool.min
  <2>1. "initialize" \in Fiber /\ "shutdown" \in Fiber /\ "initialize" \notin User
    BY Fibers DEF PoolAssumption
  <2>2. Home("initialize") = "initialize"
    BY <2>1 DEF Home
  <2>3. pc["shutdown"] = "shutdown" /\ pc["initialize"] = Home("initialize")
    BY <2>1 DEF Init
  <2>4. left["initialize"] = pool.min
    BY <2>1 DEF Init
  <2> QED BY <2>2, <2>3, <2>4
<1>5. pool.min \in Nat /\ size = 0 /\ signals = 0 /\ ~shut /\ ~isShuttingDown /\ lost.size = 0 /\ lost.free = 0
  BY <1>1 DEF Init
<1> QED BY <1>3, <1>4, <1>5 DEF Fixed, Before, Found, LeavesPlaces, NeverShrinks, Grows, FindsItEmpty, FindsItFree

\* What the two parts of the invariant say of the fibers that wait.
LEMMA KeepsSize ==
  ASSUME PoolAssumption, Inv, Fixed
  PROVE  KeepsItsSize
<1> SUFFICES ASSUME FixedSize, Intact
             PROVE  /\ takers # <<>> => Placed # {} \/ \E f \in Fiber : pc[f] \in {"getAndShutdown", "signal"}
                    /\ pc["initialize"] = "end" /\ ~isShuttingDown => size = pool.min
  BY DEF KeepsItsSize
<1>1. ASSUME takers # <<>>, Placed = {}, ~There({"getAndShutdown", "signal"})
      PROVE  FALSE
  <2>1. takers \in Seq(Fiber) /\ TakersWait /\ signals \in Nat /\ size \in Int
    BY DEF Inv, TypeOK
  <2>2. There(Takes) /\ ~shut /\ items = <<>>
    <3>1. takers[1] \in Fiber /\ 1 \in 1..Len(takers)
      BY <1>1, <2>1
    <3> QED BY <1>1, <2>1, <3>1 DEF TakersWait, There
  <2>3. signals = 0
    BY <1>1, <2>1, <2>2 DEF Fixed, Found, There
  <2>4. size = 0
    <3>1. Cardinality(Placed) = 0 /\ Len(items) = 0 /\ lost.size = 0
      BY <1>1, <2>2, FS_EmptySet DEF Intact
    <3> QED BY <2>2, <2>3, <3>1 DEF Inv, Accounted
  <2> QED BY <1>1, <2>2, <2>4 DEF Fixed, Grows, FindsItEmpty
<1>2. pc["initialize"] = "end" /\ ~isShuttingDown => size = pool.min
  BY DEF Fixed, Grows
<1> QED BY <1>1, <1>2 DEF There

LEMMA GoesOnToShutdown ==
  ASSUME PoolAssumption, Inv, Fixed
  PROVE  ShutdownGoesOn
<1> SUFFICES ASSUME FixedSize, Intact, pc["shutdown"] = "await", ~shut, \A f \in Fiber : Rests(f)
             PROVE  FALSE
  BY DEF ShutdownGoesOn
<1>1. isShuttingDown
  BY DEF Fixed, Before
<1>2. \A f \in Fiber : pc[f] \in {"idle", "end", "sleep", "await"} \/ (Waits(f) /\ pc[f] \in Takes)
  BY DEF Inv, TakersWait, Rests, Waits
<1>3. Placed = {} /\ Bringing = {} /\ ~There({"getAndShutdown", "signal"})
  BY <1>2 DEF Placed, Bringing, There, Disposal, Takes
<1>4. takers = <<>>
  BY <1>3, KeepsSize DEF KeepsItsSize, There
<1>5. \A f \in Fiber : pc[f] \in {"idle", "end", "sleep", "await"}
  BY <1>2, <1>4 DEF Waits
<1>6. Taking = {} /\ ~There(Chain)
  BY <1>5 DEF Taking, There, Takes, Chain, Closing
<1>7. signals = 0
  BY <1>3 DEF Inv, TypeOK, Fixed, Found, There
<1>8. size = Len(items) /\ free = Len(items) /\ Len(items) \in Nat
  <2>1. Cardinality(Placed) = 0 /\ Cardinality(Bringing) = 0 /\ Cardinality(Taking) = 0
    BY <1>3, <1>6, FS_EmptySet
  <2>2. lost.size = 0 /\ lost.free = 0 /\ Len(items) \in Nat
    BY DEF Intact, Fixed, LeavesPlaces, Inv, TypeOK
  <2> QED BY <1>7, <2>1, <2>2 DEF Inv, Accounted
<1>9. free <= 0
  BY <1>1, <1>6, <1>8 DEF Fixed, FindsItFree
<1>10. size > 0
  BY <1>1, <1>3, <1>8 DEF Fixed, FindsItEmpty
<1> QED BY <1>8, <1>9, <1>10

(* The theorems.                                                           *)

LEMMA NextKeeps ==
  ASSUME PoolAssumption, Inv, [Next]_vars
  PROVE  Inv'
<1>1. CASE UNCHANGED vars
  <2>1. invalidated' \subseteq Attempt /\ left' \in [Fiber -> Nat] /\ calls' \in Nat
    BY <1>1 DEF vars, things, rest, Inv, TypeOK
  <2> QED BY <1>1, <2>1, OthersKeep DEF vars, things, rest
<1>2. ASSUME NEW f \in Fiber,
             \/ Take(f) \/ Offer(f) \/ TooLate(f) \/ Track(f) \/ Allocate(f) \/ Dispose(f)
             \/ Replace(f) \/ GetAndShutdown(f) \/ Closed(f) \/ Signal(f)
             \/ Initialize(f) \/ Awake(f) \/ Shrink(f) \/ Shutdown(f) \/ AwaitShutdown(f)
      PROVE  Inv'
  BY <1>2, TakeKeeps, OfferKeeps, TooLateKeeps, TrackKeeps, AllocateKeeps, DisposeKeeps, ReplaceKeeps,
     GetAndShutdownKeeps, ClosedKeeps, SignalKeeps, InitializeKeeps, AwakeKeeps, ShrinkKeeps,
     ShutdownKeeps, AwaitShutdownKeeps
<1>3. ASSUME NEW u \in User,
             \/ Get(u) \/ Acquire(u) \/ Reserve(u) \/ Check(u) \/ Release(u) \/ PutBack(u)
             \/ ReleaseFailure(u) \/ Retry(u) \/ Cut(u)
      PROVE  Inv'
  BY <1>3, GetKeeps, AcquireKeeps, ReserveKeeps, CheckKeeps, ReleaseKeeps, PutBackKeeps,
     ReleaseFailureKeeps, RetryKeeps, CutKeeps
<1>4. ASSUME NEW a \in Attempt, Invalidate(a) PROVE Inv'
  BY <1>4, InvalidateKeeps
<1> QED BY <1>1, <1>2, <1>3, <1>4 DEF Next

LEMMA InitInv ==
  ASSUME PoolAssumption, Init
  PROVE  Inv
<1>1. pool \in [min : Nat, max : Nat \ {0}, ttl : BOOLEAN] /\ pool \in Pools /\ pool.min <= pool.max
  BY DEF Init, PoolAssumption
<1>2. \A f \in Fiber : pc[f] = IF f = "shutdown" THEN f ELSE Home(f)
  BY DEF Init
<1>3. \A f \in Fiber : pc[f] \in NotAt
  BY <1>2, OnElsewhere, Places DEF NotAt
<1>4. TypeOK
  <2>1. pc \in [Fiber -> Labels]
    BY <1>3, Kinds DEF Init
  <2>2. left \in [Fiber -> Nat]
    BY <1>1 DEF Init, PoolAssumption
  <2>3. size \in Int /\ size <= pool.max /\ free \in Int /\ signals \in Nat /\ calls \in Nat
    BY <1>1 DEF Init
  <2>4. attempts \in [Attempt -> {"none", "ok", "failed"}] /\ held \in [Fiber -> Attempt \cup {0}]
    BY DEF Init
  <2>5. lost \in [size : Nat, free : Nat]
    BY DEF Init
  <2>6. items \in Seq(Attempt) /\ takers \in Seq(Fiber)
    <3>1. items = <<>> /\ takers = <<>>
      BY DEF Init
    <3> QED BY <3>1
  <2>7. again \subseteq User /\ invalidated \subseteq Attempt /\ isShuttingDown \in BOOLEAN /\ shut \in BOOLEAN
    BY DEF Init
  <2> QED BY <1>1, <2>1, <2>2, <2>3, <2>4, <2>5, <2>6, <2>7 DEF TypeOK
<1>5. TakersWait
  BY DEF Init, TakersWait
<1>6. HoldersHave
  BY <1>3, Kinds DEF HoldersHave
<1>7. LentOnce
  BY DEF Init, LentOnce
<1>8. Accounted
  <2>1. Placed = {} /\ Bringing = {} /\ Taking = {}
    <3>1. \A f \in Fiber : pc[f] \notin PlacedAt /\ pc[f] \notin BringingAt /\ pc[f] \notin Takes
      BY <1>3, Kinds
    <3>2. PlacedAt = Disposal \cup {"allocate", "retry", "offer", "check", "use", "putBack", "failed",
                                    "replace", "closed", "dropped"}
      BY DEF PlacedAt
    <3> QED BY <3>1, <3>2 DEF Placed, Bringing, Taking, BringingAt
  <2>2. Cardinality({}) = 0
    BY FS_EmptySet
  <2> QED BY <2>1, <2>2 DEF Init, Accounted
<1> QED BY <1>4, <1>5, <1>6, <1>7, <1>8 DEF Inv

LEMMA Invariant == ASSUME PoolAssumption PROVE Spec => [](Inv /\ Fixed)
<1>1. Init => Inv /\ Fixed
  BY InitInv, InitFixed
<1>2. Inv /\ Fixed /\ [Next]_vars => Inv' /\ Fixed'
  BY NextKeeps, NextFixed
<1> QED BY <1>1, <1>2, PTL DEF Spec

\* Every variable has its type: whatever users do, whatever fails, and however long
\* it goes on, a pool is never larger than its maximum (pool.ts, allocate and get).
THEOREM TypeCorrect == ASSUME PoolAssumption PROVE Spec => []TypeOK
<1>1. Inv => TypeOK
  BY DEF Inv
<1> QED BY <1>1, Invariant, PTL

\* size is the attempts there are and free those nobody has claimed, at each step of
\* every get, release, invalidation, shrink and shutdown (the Ref of PoolState).
THEOREM NumbersStayRight == ASSUME PoolAssumption PROVE Spec => []Accounted
<1>1. Inv => Accounted
  BY DEF Inv
<1> QED BY <1>1, Invariant, PTL

\* An item is never lent twice, and none is lent or free whose finalizer has run.
THEOREM LentOnceOnly == ASSUME PoolAssumption PROVE Spec => []LentOnce
<1>1. Inv => LentOnce
  BY DEF Inv
<1> QED BY <1>1, Invariant, PTL

\* ... and a pool of fixed size keeps its size; nobody waits in it for nothing, nor
\* does its shutdown.
THEOREM ItemsStayAccounted == ASSUME PoolAssumption PROVE Spec => []ItemsAccounted
<1>1. ASSUME PoolAssumption, Inv, Fixed PROVE ItemsAccounted
  BY <1>1, KeepsSize, GoesOnToShutdown DEF Inv, ItemsAccounted
<1> QED BY <1>1, Invariant, PTL
=============================================================================
