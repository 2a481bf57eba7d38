-------------------------------- MODULE Cache --------------------------------
(***************************************************************************)
(* Caches: CacheImpl of src/internal/cache.ts, a map from keys to           *)
(*   "Pending":    a lookup that is under way, and its deferred,            *)
(*   "Complete":   the exit of one that ended,                             *)
(*   "Refreshing": both;                                                    *)
(* and a KeySet, the keys in the order they were last accessed.  A value,   *)
(* and the deferred it comes by, is named by the lookup it comes from; an   *)
(* exit that is a failure is kept as any other.                             *)
(*                                                                         *)
(* An operation is one step per effect that touches the cache: a fiber may  *)
(* be made to yield, or be interrupted, before each of them.                *)
(***************************************************************************)
EXTENDS KeySet

CONSTANTS
  Fiber, Key,
  Ops,            \* the operations the fibers may use
  Fuel,           \* Fuel[f]: how many f does
  MaxValues,      \* how many lookups and sets there are, in all
  MaxInterrupts, MaxExpired

CacheAssumption ==
  /\ Capacity \in Nat /\ Fuel \in [Fiber -> Nat]
  /\ MaxValues \in Nat /\ MaxInterrupts \in Nat /\ MaxExpired \in Nat
  /\ Ops \subseteq {"get", "peek", "refresh", "set", "invalidate", "invalidateWhen", "invalidateAll"}

Value == 1..MaxValues

VARIABLES
  map,            \* the MutableHashMap
  keySet,         \* MapKeys, the least recently accessed first
  deferred,       \* of each lookup: "pending", "done" or "interrupted"
  made,           \* how many values there are
  expired,        \* the values whose time to live has passed
  pc, key,        \* what each fiber does, with which key
  seen,           \* the map value it found
  mine,           \* the lookup it makes
  fuel, signals,
  stored,         \* history: the values each key had in the map
  gone,           \* history: those of them that were invalidated
  forbidden,      \* history: gone, when the fiber began
  result,         \* history: the value a fiber got last, or 0
  displaced,      \* history: lookups whose place in the map was taken from them
  untracked,      \* history: the keys in the map that were put there without an access
  orphans         \* history: lookups that were promised and not begun

table   == <<map, keySet>>
place   == <<pc, key, seen, mine>>
facts   == <<stored, gone, forbidden, result, displaced, untracked, orphans>>
vars    == <<table, deferred, made, expired, place, fuel, signals, facts>>

Pending(k, v)        == [tag |-> "Pending", key |-> MapKey(k, v, FALSE), lookup |-> v, value |-> 0]
Complete(k, v)       == [tag |-> "Complete", key |-> MapKey(k, v, TRUE), lookup |-> 0, value |-> v]
Refreshing(v, c)     == [tag |-> "Refreshing", key |-> c.key, lookup |-> v, value |-> c.value]

Has(k)          == k \in DOMAIN map
InMap(m)        == {m[k].lookup : k \in DOMAIN m}
Move(f, to)     == pc' = [pc EXCEPT ![f] = to]

\* The map becomes m, which has keys new that no access brought; a lookup loses
\* its place there, unless it is own, by its own end (history).
BecomesOf(m, new, own) ==
  /\ map' = m
  /\ displaced' = displaced \cup ((InMap(map) \ InMap(m)) \ {0, own})
  /\ untracked' = (untracked \cup (new \ DOMAIN map)) \cap DOMAIN m
Becomes(m, new) == BecomesOf(m, new, 0)
SameMap         == UNCHANGED <<map, displaced, untracked>>
----------------------------------------------------------------------------
(* The keys.                                                               *)

\* trackAccess.  It runs to its end, so nobody else is `updating`.
TrackAccess(m, k) ==
  LET e == Evicted(m, Added(keySet, k)) IN
  /\ map' = e.map /\ keySet' = e.keys
  /\ displaced' = displaced \cup ((InMap(m) \ InMap(e.map)) \ {0})
  /\ untracked' = untracked \cap DOMAIN e.map
----------------------------------------------------------------------------
(* The beginning of an operation, and its end.                             *)

Idle(f, op, k) ==
  /\ pc[f] = "idle" /\ op \in Ops /\ fuel[f] > 0
  /\ fuel' = [fuel EXCEPT ![f] = @ - 1]
  /\ key' = [key EXCEPT ![f] = k]
  /\ forbidden' = [forbidden EXCEPT ![f] = gone]
  /\ result' = [result EXCEPT ![f] = 0]

Returns(f, v) ==
  /\ Move(f, "idle") /\ result' = [result EXCEPT ![f] = v]

\* A new lookup for key k by f.
NewLookup(f) ==
  /\ made < MaxValues
  /\ made' = made + 1
  /\ mine' = [mine EXCEPT ![f] = made + 1]
  /\ deferred' = [deferred EXCEPT ![made + 1] = "pending"]

\* Mutant of Promise: nobody is told that the lookup is under way.
PromiseNothing(f, m) ==
  /\ NewLookup(f) /\ TrackAccess(m, MapKey(key'[f], made + 1, FALSE))

\* The map has nothing: it gets a Pending, and the fiber will look up.
Promise(f, m) ==
  /\ NewLookup(f)
  /\ TrackAccess(Put(m, key'[f], Pending(key'[f], made + 1)), MapKey(key'[f], made + 1, FALSE))

\* getEither, until it knows what the map has.
Look(f, k) ==
  \/ /\ ~Has(k) /\ Promise(f, map) /\ Move(f, "begin")
     /\ UNCHANGED seen
  \/ /\ Has(k) /\ Move(f, "resolve") /\ seen' = [seen EXCEPT ![f] = map[k]]
     /\ SameMap /\ UNCHANGED <<keySet, made, mine, deferred>>

Get(f, k) ==
  /\ Idle(f, "get", k) /\ Look(f, k)
  /\ UNCHANGED <<expired, signals, stored, gone, orphans>>

\* getEither again, after a value that had expired.
Again(f) ==
  /\ pc[f] = "again" /\ key' = key /\ Look(f, key[f])
  /\ UNCHANGED <<expired, fuel, signals, stored, gone, forbidden, result, orphans>>

\* getOption and getOptionComplete: nothing is looked up.
Peek(f, k) ==
  /\ Idle(f, "peek", k)
  /\ \/ /\ ~Has(k) /\ TrackAccess(map, MapKey(k, 0, FALSE)) /\ UNCHANGED <<pc, seen>>
     \/ /\ Has(k) /\ \E to \in {"resolve", "resolveComplete"} : Move(f, to)
        /\ seen' = [seen EXCEPT ![f] = map[k]] /\ SameMap /\ UNCHANGED keySet
  /\ UNCHANGED <<deferred, made, mine, expired, signals, stored, gone, orphans>>
----------------------------------------------------------------------------
(* resolveMapValue, of the value that was found.                           *)

Stale(f) == seen[f].value \in expired

\* A value: the exit of the cache, if it has not expired.
ResolveValue(f) ==
  /\ pc[f] \in {"resolve", "resolveComplete"} /\ seen[f].tag # "Pending" /\ ~Stale(f)
  /\ TrackAccess(map, seen[f].key) /\ Returns(f, seen[f].value)

\* A value that has expired is removed, by its key.
ResolveExpired(f) ==
  /\ pc[f] \in {"resolve", "resolveComplete"} /\ seen[f].tag = "Complete" /\ Stale(f)
  /\ LET e == Evicted(map, Added(keySet, seen[f].key)) IN
     /\ Becomes(Without(e.map, {seen[f].key.current}), {}) /\ keySet' = e.keys
  /\ Move(f, IF pc[f] = "resolve" THEN "again" ELSE "idle") /\ UNCHANGED result

\* A lookup that is under way: the fiber waits for it, or does not.
ResolvePending(f) ==
  /\ pc[f] \in {"resolve", "resolveComplete"}
  /\ seen[f].tag = "Pending" \/ (seen[f].tag = "Refreshing" /\ Stale(f))
  /\ TrackAccess(map, seen[f].key)
  /\ Move(f, IF pc[f] = "resolve" THEN "await" ELSE "idle") /\ UNCHANGED result

Resolve(f) ==
  /\ ResolveValue(f) \/ ResolveExpired(f) \/ ResolvePending(f)
  /\ UNCHANGED <<deferred, made, expired, key, seen, mine, fuel, signals,
                 stored, gone, forbidden, orphans>>

\* The lookup it waits for has ended.
Await(f) ==
  /\ pc[f] = "await" /\ deferred[seen[f].lookup] # "pending"
  /\ Returns(f, IF deferred[seen[f].lookup] = "done" THEN seen[f].lookup ELSE 0)
  /\ UNCHANGED <<table, deferred, made, expired, key, seen, mine, fuel, signals,
                 stored, gone, forbidden, displaced, untracked, orphans>>
----------------------------------------------------------------------------
(* lookupValueOf.                                                          *)

Begin(f) ==
  /\ pc[f] = "begin" /\ Move(f, "lookup")
  /\ UNCHANGED <<table, deferred, made, expired, key, seen, mine, fuel, signals, facts>>

\* The lookup ends and its exit is stored, whatever the map has by now.
Store(f) ==
  /\ pc[f] = "lookup" /\ Move(f, "store")
  /\ BecomesOf(Put(map, key[f], Complete(key[f], mine[f])), {key[f]}, mine[f])
  /\ stored' = [stored EXCEPT ![key[f]] = @ \cup {mine[f]}]
  /\ UNCHANGED <<keySet, deferred, made, expired, key, seen, mine, fuel, signals,
                 gone, forbidden, result, orphans>>

\* Then those who wait are told.
Done(f) ==
  /\ pc[f] = "store" /\ Returns(f, mine[f])
  /\ deferred' = [deferred EXCEPT ![mine[f]] = "done"]
  /\ UNCHANGED <<table, made, expired, key, seen, mine, fuel, signals,
                 stored, gone, forbidden, displaced, untracked, orphans>>

\* Interruption.  A lookup tells those who wait and then removes whatever the
\* map has for its key; a fiber that has promised one and has not begun does
\* nothing; one that waits, or is between two effects, does nothing either.
Interrupt(f) ==
  /\ signals > 0 /\ pc[f] \in {"resolve", "again", "await", "when", "begin", "lookup", "store"}
  /\ signals' = signals - 1
  /\ \/ /\ pc[f] \in {"lookup", "store"} /\ Move(f, "clean")
        /\ deferred' = [deferred EXCEPT ![mine[f]] = "interrupted"]
        /\ UNCHANGED <<orphans, result>>
     \/ /\ pc[f] \notin {"lookup", "store"} /\ Returns(f, 0)
        /\ orphans' = IF pc[f] = "begin" THEN orphans \cup {mine[f]} ELSE orphans
        /\ UNCHANGED deferred
  /\ UNCHANGED <<table, made, expired, key, seen, mine, fuel, stored, gone, forbidden, displaced, untracked>>

CleanUp(f) ==
  /\ pc[f] = "clean" /\ Returns(f, 0)
  /\ BecomesOf(Without(map, {key[f]}), {}, mine[f])
  /\ UNCHANGED <<keySet, deferred, made, expired, key, seen, mine, fuel, signals,
                 stored, gone, forbidden, orphans>>
----------------------------------------------------------------------------
(* The other operations.                                                   *)

\* refresh.  (What it finds expired is what the map has: it is removed.)
Refresh(f, k) ==
  /\ Idle(f, "refresh", k)
  /\ \/ /\ ~Has(k) /\ NewLookup(f) /\ Move(f, "begin")
        /\ Becomes(Put(map, k, Pending(k, made + 1)), {k})
        /\ UNCHANGED seen
     \/ /\ Has(k) /\ map[k].tag = "Complete" /\ map[k].value \in expired
        /\ Becomes(Without(map, {k}), {}) /\ Move(f, "again")
        /\ UNCHANGED <<made, mine, deferred, seen>>
     \/ /\ Has(k) /\ map[k].tag = "Complete" /\ map[k].value \notin expired
        /\ seen' = [seen EXCEPT ![f] = map[k]] /\ Move(f, "when")
        /\ SameMap /\ UNCHANGED <<made, mine, deferred>>
     \/ /\ Has(k) /\ map[k].tag # "Complete"
        /\ seen' = [seen EXCEPT ![f] = map[k]] /\ Move(f, "await")
        /\ SameMap /\ UNCHANGED <<made, mine, deferred>>
  /\ UNCHANGED <<keySet, expired, signals, stored, gone, orphans>>

\* The lookup is made only if what was found is still there.
When(f) ==
  /\ pc[f] = "when"
  /\ \/ /\ Has(key[f]) /\ map[key[f]] = seen[f]
        /\ NewLookup(f) /\ Move(f, "begin")
        /\ Becomes(Put(map, key[f], Refreshing(made + 1, seen[f])), {})
     \/ /\ ~(Has(key[f]) /\ map[key[f]] = seen[f])
        /\ Move(f, "idle") /\ SameMap /\ UNCHANGED <<made, mine, deferred>>
  /\ UNCHANGED <<keySet, expired, key, seen, fuel, signals, stored, gone, forbidden, result,
                 orphans>>

\* set: the access is not tracked.
Set(f, k) ==
  /\ Idle(f, "set", k) /\ made < MaxValues
  /\ made' = made + 1 /\ deferred' = [deferred EXCEPT ![made + 1] = "done"]
  /\ Becomes(Put(map, k, Complete(k, made + 1)), {k})
  /\ stored' = [stored EXCEPT ![k] = @ \cup {made + 1}]
  /\ UNCHANGED <<keySet, expired, pc, seen, mine, signals, gone, orphans>>

\* Mutant of Drop: a value that is there stays.
DropPending(ks) ==
  /\ Becomes(Without(map, {k \in ks : Has(k) /\ map[k].tag # "Complete"}), {})
  /\ gone' = gone \cup UNION {stored[k] : k \in ks}

Drop(ks) ==
  /\ Becomes(Without(map, ks), {})
  /\ gone' = gone \cup UNION {stored[k] : k \in ks}

\* invalidate; invalidateWhen, of a value that satisfies what is asked; and
\* invalidateAll.
Invalidate(f, k) ==
  /\ \/ Idle(f, "invalidate", k) /\ Drop({k})
     \/ Idle(f, "invalidateWhen", k) /\ Has(k) /\ map[k].tag = "Complete" /\ Drop({k})
     \/ Idle(f, "invalidateAll", k) /\ Drop(Key)
  /\ UNCHANGED <<keySet, deferred, made, expired, pc, seen, mine, signals, stored, orphans>>

\* hasExpired: time passes.
Expire(v) ==
  /\ v <= made /\ v \notin expired /\ Cardinality(expired) < MaxExpired
  /\ expired' = expired \cup {v}
  /\ UNCHANGED <<table, deferred, made, place, fuel, signals, facts>>
----------------------------------------------------------------------------
Init ==
  /\ map = <<>> /\ keySet = <<>> /\ deferred = [v \in Value |-> "none"]
  /\ made = 0 /\ expired = {}
  /\ pc = [f \in Fiber |-> "idle"] /\ key = [f \in Fiber |-> 0]
  /\ seen = [f \in Fiber |-> Complete(0, 0)] /\ mine = [f \in Fiber |-> 0]
  /\ fuel = Fuel /\ signals = MaxInterrupts
  /\ stored = [k \in Key |-> {}] /\ gone = {} /\ forbidden = [f \in Fiber |-> {}]
  /\ result = [f \in Fiber |-> 0] /\ displaced = {} /\ untracked = {} /\ orphans = {}

Step(f) ==
  Again(f) \/ Resolve(f) \/ Await(f) \/ Begin(f) \/ Store(f) \/ Done(f) \/ CleanUp(f) \/ When(f)

Next ==
  \/ \E f \in Fiber : Step(f) \/ Interrupt(f)
  \/ \E f \in Fiber, k \in Key :
       Get(f, k) \/ Peek(f, k) \/ Refresh(f, k) \/ Set(f, k) \/ Invalidate(f, k)
  \/ \E v \in Value : Expire(v)

Spec == Init /\ [][Next]_vars
----------------------------------------------------------------------------
MapKeys   == [current : Key \cup {0}, of : 0..MaxValues, ended : BOOLEAN]
MapValues == [tag : {"Pending", "Complete", "Refreshing"}, key : MapKeys,
              lookup : 0..MaxValues, value : 0..MaxValues]

TypeOK ==
  /\ DOMAIN map \subseteq Key
  /\ \A k \in DOMAIN map : map[k] \in MapValues /\ map[k].key.current = k
  /\ keySet \in Seq(MapKeys) /\ untracked \subseteq DOMAIN map
  /\ deferred \in [Value -> {"none", "pending", "done", "interrupted"}]
  /\ made \in 0..MaxValues /\ expired \subseteq Value
  /\ pc \in [Fiber -> {"idle", "again", "resolve", "resolveComplete", "await", "begin", "lookup",
                       "store", "clean", "when"}]
  /\ key \in [Fiber -> Key \cup {0}] /\ seen \in [Fiber -> MapValues] /\ mine \in [Fiber -> 0..made]
  /\ fuel \in [Fiber -> Nat] /\ signals \in Nat
  /\ stored \in [Key -> SUBSET (1..made)] /\ gone \subseteq 1..made
  /\ forbidden \in [Fiber -> SUBSET (1..made)] /\ result \in [Fiber -> 0..made]

LooksUp(f) == pc[f] \in {"begin", "lookup"}

\* However many fibers ask for a key, one looks it up; a second one only if the
\* first lost its place in the map: to an invalidation, an eviction, a value
\* that was set, or an interruption.
OneLookup ==
  \A f, g \in Fiber : f # g /\ LooksUp(f) /\ LooksUp(g) /\ key[f] = key[g] =>
    mine[f] \in displaced \/ mine[g] \in displaced

\* Whoever waits for a lookup waits for one that somebody is making.  (A fiber
\* interrupted between the promise and the lookup leaves an orphan.)
SomebodyLooksUp ==
  \A f \in Fiber : pc[f] = "await" /\ deferred[seen[f].lookup] = "pending" =>
    \/ \E g \in Fiber : mine[g] = seen[f].lookup /\ pc[g] \in {"begin", "lookup", "store"}
    \/ seen[f].lookup \in orphans

\* A value that was in the map when its key was invalidated is not returned to
\* anybody who asks afterwards.
InvalidatedIsGone ==
  \A f \in Fiber : result[f] \notin forbidden[f]

\* The map holds more than its capacity only by keys that no access brought
\* there: those of set, of refresh, and of a lookup that ended after its key was
\* displaced.  Each access brings the others back to the capacity.
WithinCapacity == Cardinality(DOMAIN map) <= Capacity + Cardinality(untracked)
=============================================================================
