----------------------------- MODULE ScopedCache -----------------------------
(***************************************************************************)
(* Scoped caches: ScopedCacheImpl of src/internal/scopedCache.ts.  A value  *)
(* is a resource with a scope of its own and a count of its owners: the     *)
(* cache, and each fiber whose scope holds it.  Who brings the count to     *)
(* zero closes the scope.  A value is named by the lookup it comes from; a  *)
(* lookup is memoised, and whoever runs it first makes it.                  *)
(*                                                                         *)
(* An operation is one step per effect that touches the cache or a count.   *)
(***************************************************************************)
EXTENDS KeySet, SequencesExt

CONSTANTS
  Fiber, Key,
  Ops,            \* the operations the fibers may use
  Fuel,           \* Fuel[f]: how many f does
  MaxValues,      \* how many lookups there are, in all
  MaxInterrupts, MaxExpired, MaxFailures

ScopedCacheAssumption ==
  /\ IsFiniteSet(Fiber) /\ Capacity \in Nat \ {0} /\ Fuel \in [Fiber -> Nat] /\ MaxValues \in Nat
  /\ {MaxInterrupts, MaxExpired, MaxFailures} \subseteq Nat
  /\ Ops \subseteq {"get", "peek", "refresh", "invalidate", "close"}

Value == 1..MaxValues

VARIABLES
  map,            \* the MutableHashMap
  keySet,         \* MapKeys, the least recently accessed first
  lookup,         \* of each lookup: "none", "promised", "running", "acquired", "done", "failed"
                  \* or "interrupted"
  previous,       \* the value its result took the place of, or 0
  owners,         \* ownerCount
  scope,          \* the scope of each value: "none", "open" or "closed"
  expired,        \* the values whose time to live has passed
  pc, key, op,    \* what each fiber does
  value,          \* the lookup or value it does it with
  todo,           \* the values it has still to release
  after,          \* and what it does then
  fuel, signals,
  made,           \* how many lookups there are
  drops,          \* history: how often the cache gave up each value
  late            \* history: values that were taken after they had been released

cache == <<map, keySet>>
world == <<lookup, previous, owners, scope, expired, made, drops, late>>
fiber == <<pc, key, op, value, todo, after, fuel, signals>>
vars  == <<cache, world, fiber>>

Pending(k, l)    == [tag |-> "Pending", key |-> MapKey(k, l, FALSE), lookup |-> l, value |-> 0]
Complete(k, v)   == [tag |-> "Complete", key |-> MapKey(k, v, TRUE), lookup |-> 0, value |-> v]
Refreshing(l, c) == [tag |-> "Refreshing", key |-> c.key, lookup |-> l, value |-> c.value]

Has(k) == k \in DOMAIN map

\* cleanMapValue: the values of which the cache stops being an owner when it gives
\* up what the map m has for the keys ks.  (Each in a fiber of its own: their order
\* is the only thing left out.)
ToClean(m, ks) == SetToSeq({m[k].value : k \in ks \cap DOMAIN m} \ {0})

Move(f, to)         == pc' = [pc EXCEPT ![f] = to]
Releasing(f, vs, to) ==
  /\ Move(f, "clean") /\ todo' = [todo EXCEPT ![f] = vs] /\ after' = [after EXCEPT ![f] = to]
----------------------------------------------------------------------------
(* The keys.                                                               *)

\* ensureMapSizeNotExceeded, of the map m: the key x is the last accessed, and the
\* values that are evicted are released, those in vs after them.
EnsureMapSize(f, m, x, vs, to) ==
  LET e == Evicted(m, Added(keySet, x)) IN
  /\ map' = e.map /\ keySet' = e.keys
  /\ Releasing(f, ToClean(m, DOMAIN m \ DOMAIN e.map) \o vs, to)
----------------------------------------------------------------------------
(* get, refresh and the others begin.                                      *)

Begin(f, o, k) ==
  /\ pc[f] = "idle" /\ o \in Ops /\ fuel[f] > 0
  /\ fuel' = [fuel EXCEPT ![f] = @ - 1]
  /\ key' = [key EXCEPT ![f] = k] /\ op' = [op EXCEPT ![f] = o]

Promised(f) ==
  /\ made < MaxValues /\ made' = made + 1
  /\ lookup' = [lookup EXCEPT ![made + 1] = "promised"]
  /\ value' = [value EXCEPT ![f] = made + 1]

\* The part of get and of refresh for a key that the map does not have.
Miss(f, k) ==
  /\ ~Has(k) /\ Promised(f)
  /\ LET x == Pending(k, made + 1) IN EnsureMapSize(f, Put(map, k, x), x.key, <<>>, "run")

\* resolveMapValue.
Resolve(f, k) ==
  LET x == map[k] IN
  /\ Has(k)
  /\ \/ /\ x.tag = "Complete" /\ x.value \in expired
        /\ Move(f, IF op'[f] = "peek" THEN "idle" ELSE "expired")
        /\ value' = [value EXCEPT ![f] = x.value] /\ UNCHANGED <<cache, todo, after>>
     \/ /\ x.tag # "Pending" /\ x.value \notin expired
        /\ EnsureMapSize(f, map, x.key, <<>>, "own") /\ value' = [value EXCEPT ![f] = x.value]
     \/ /\ x.tag = "Pending" \/ (x.tag = "Refreshing" /\ x.value \in expired)
        /\ \/ EnsureMapSize(f, map, x.key, <<>>, "run")
           \/ op'[f] = "peek" /\ Move(f, "idle") /\ UNCHANGED <<cache, todo, after>>
        /\ value' = [value EXCEPT ![f] = x.lookup]
  /\ UNCHANGED <<made, lookup>>

Look(f, k) == Miss(f, k) \/ Resolve(f, k)

Get(f, k) ==
  /\ Begin(f, "get", k) /\ Look(f, k)
  /\ UNCHANGED <<previous, owners, scope, expired, drops, late, signals>>

\* getOption and getOptionComplete, of a key the map has.
Peek(f, k) ==
  /\ Begin(f, "peek", k) /\ Resolve(f, k)
  /\ UNCHANGED <<previous, owners, scope, expired, drops, late, signals>>

Again(f) ==
  /\ pc[f] = "again" /\ op' = [op EXCEPT ![f] = "get"] /\ Look(f, key[f])
  /\ UNCHANGED <<previous, owners, scope, expired, drops, late, key, fuel, signals>>

\* get, when what it found had expired: the value is removed if it is still
\* there, and released in any case.
Expired(f) ==
  /\ pc[f] = "expired"
  /\ LET x == Complete(key[f], value[f])
         m == IF Has(key[f]) /\ map[key[f]] = x THEN Without(map, {key[f]}) ELSE map
     IN EnsureMapSize(f, m, x.key, <<value[f]>>, "again")
  /\ UNCHANGED <<world, key, op, value, fuel, signals>>

\* refresh of a key the map has.
RefreshFound(f, k) ==
  LET x == map[k] IN
  /\ Has(k)
  /\ \/ /\ x.tag = "Complete" /\ x.value \in expired /\ Move(f, "again")
        /\ UNCHANGED <<map, made, lookup, value>>
     \/ /\ x.tag = "Complete" /\ x.value \notin expired /\ Promised(f) /\ Move(f, "run")
        /\ map' = Put(map, k, Refreshing(made + 1, x))
     \/ /\ x.tag # "Complete" /\ Move(f, "run")
        /\ value' = [value EXCEPT ![f] = x.lookup] /\ UNCHANGED <<map, made, lookup>>
  /\ UNCHANGED <<keySet, todo, after>>

Refresh(f, k) ==
  /\ Begin(f, "refresh", k) /\ (Miss(f, k) \/ RefreshFound(f, k))
  /\ UNCHANGED <<previous, owners, scope, expired, drops, late, signals>>

Invalidate(f, k) ==
  /\ Begin(f, "invalidate", k) /\ Has(k)
  /\ map' = Without(map, {k}) /\ Releasing(f, ToClean(map, {k}), "idle")
  /\ UNCHANGED <<keySet, world, value, signals>>

\* The scope of the cache is closed: invalidateAll, of the keys that are there.  The code
\* has a fiber per key; here they leave the map together and are given up one by one.
Close(f, k) ==
  /\ Begin(f, "close", k) /\ Releasing(f, ToClean(map, DOMAIN map), "idle")
  /\ map' = <<>>
  /\ UNCHANGED <<keySet, world, value, signals>>
----------------------------------------------------------------------------
(* The counts.                                                             *)

\* releaseOwner: the scope is closed by whoever brings the count to zero.
ReleaseOwner(v) ==
  /\ owners' = [owners EXCEPT ![v] = @ - 1]
  /\ scope' = [scope EXCEPT ![v] = IF owners[v] = 1 THEN "closed" ELSE @]

\* The cache gives up the next value it has to.
Clean(f) ==
  /\ pc[f] = "clean"
  /\ \/ /\ todo[f] = <<>> /\ Move(f, after[f]) /\ UNCHANGED <<todo, owners, scope, drops>>
     \/ /\ todo[f] # <<>> /\ todo' = [todo EXCEPT ![f] = Tail(@)] /\ UNCHANGED pc
        /\ LET v == Head(todo[f]) IN
           \/ lookup[v] = "failed" /\ UNCHANGED <<owners, scope, drops>>
           \/ lookup[v] # "failed" /\ ReleaseOwner(v) /\ drops' = [drops EXCEPT ![v] = @ + 1]
  /\ UNCHANGED <<cache, lookup, previous, expired, made, late, key, op, value, after, fuel, signals>>

\* Mutant of Own: the fiber is not counted.
OwnUncounted(f) ==
  /\ pc[f] = "own" /\ Move(f, IF lookup[value[f]] = "failed" THEN "idle" ELSE "using")
  /\ UNCHANGED <<cache, lookup, previous, scope, expired, made, drops, owners, late, key, op, value,
                 todo, after, fuel, signals>>

\* toScoped: the fiber becomes an owner; of an exit that failed nobody does.
\* refresh does so only to give it up again.
Own(f) ==
  LET v == value[f] IN
  /\ pc[f] = "own"
  /\ \/ /\ lookup[v] = "failed" /\ Move(f, "idle") /\ UNCHANGED <<owners, late>>
     \/ /\ lookup[v] # "failed" /\ Move(f, "using")
        /\ owners' = [owners EXCEPT ![v] = @ + 1]
        /\ late' = IF owners[v] < 1 THEN late \cup {v} ELSE late
  /\ UNCHANGED <<cache, lookup, previous, scope, expired, made, drops, key, op, value, todo, after,
                 fuel, signals>>

\* The scope of the fiber is closed.
Leave(f) ==
  /\ pc[f] = "using" /\ Move(f, "idle") /\ ReleaseOwner(value[f])
  /\ UNCHANGED <<cache, lookup, previous, expired, made, drops, late, key, op, value, todo, after,
                 fuel, signals>>
----------------------------------------------------------------------------
(* lookupValueOf, memoised.                                                *)

\* Whoever comes first makes the lookup; the others wait.  Then each of them
\* releases the value whose place was taken, and becomes an owner of the new one.
Run(f) ==
  LET l == value[f] IN
  /\ pc[f] = "run"
  /\ \/ /\ lookup[l] = "promised" /\ lookup' = [lookup EXCEPT ![l] = "running"]
        /\ Move(f, "lookup") /\ UNCHANGED <<todo, after>>
     \/ /\ lookup[l] \in {"done", "failed"}
        /\ Releasing(f, IF previous[l] = 0 THEN <<>> ELSE <<previous[l]>>, "own")
        /\ UNCHANGED lookup
     \/ /\ lookup[l] = "interrupted" /\ Move(f, "idle") /\ UNCHANGED <<lookup, todo, after>>
  /\ UNCHANGED <<cache, previous, owners, scope, expired, made, drops, late, key, op, value, fuel,
                 signals>>

\* The resource is acquired, or the lookup fails.
Acquire(f) ==
  /\ pc[f] = "lookup" /\ lookup[value[f]] = "running"
  /\ lookup' = [lookup EXCEPT ![value[f]] = "acquired"]
  /\ scope' = [scope EXCEPT ![value[f]] = "open"]
  /\ UNCHANGED <<cache, previous, owners, expired, made, drops, late, fiber>>

\* The result is put in the map, whatever the map has by now; a scope in which
\* nothing was acquired is closed.
Publish(f) ==
  LET l == value[f]
      k == key[f]
      ok == lookup[l] = "acquired" IN
  /\ pc[f] = "lookup"
  /\ ok \/ Cardinality({v \in Value : lookup[v] = "failed"}) < MaxFailures
  /\ lookup' = [lookup EXCEPT ![l] = IF ok THEN "done" ELSE "failed"]
  /\ owners' = [owners EXCEPT ![l] = IF ok THEN 1 ELSE 0]
  /\ previous' = [previous EXCEPT ![l] = IF Has(k) THEN map[k].value ELSE 0]
  /\ map' = Put(map, k, Complete(k, l)) /\ Move(f, "run")
  /\ UNCHANGED <<keySet, scope, expired, made, drops, late, key, op, value, todo, after, fuel,
                 signals>>

\* Interruption.  A lookup removes what the map has for its key, and whoever
\* waits is interrupted with it; releases that were not begun are not made.
Interrupt(f) ==
  /\ signals > 0 /\ pc[f] \in {"clean", "run", "own", "lookup", "again", "expired"}
  /\ signals' = signals - 1 /\ Move(f, "idle") /\ todo' = [todo EXCEPT ![f] = <<>>]
  /\ IF pc[f] = "lookup"
     THEN /\ lookup' = [lookup EXCEPT ![value[f]] = "interrupted"]
          /\ map' = Without(map, {key[f]})
     ELSE UNCHANGED <<lookup, map>>
  /\ UNCHANGED <<keySet, previous, owners, scope, expired, made, drops, late, key, op, value, after, fuel>>

Expire(v) ==
  /\ lookup[v] \in {"done", "failed"} /\ v \notin expired /\ Cardinality(expired) < MaxExpired
  /\ expired' = expired \cup {v}
  /\ UNCHANGED <<cache, lookup, previous, owners, scope, made, drops, late, fiber>>
----------------------------------------------------------------------------
Init ==
  /\ map = <<>> /\ keySet = <<>> /\ lookup = [v \in Value |-> "none"]
  /\ previous = [v \in Value |-> 0] /\ owners = [v \in Value |-> 0]
  /\ scope = [v \in Value |-> "none"] /\ expired = {} /\ made = 0
  /\ drops = [v \in Value |-> 0] /\ late = {}
  /\ pc = [f \in Fiber |-> "idle"] /\ key = [f \in Fiber |-> 0] /\ op = [f \in Fiber |-> "get"]
  /\ value = [f \in Fiber |-> 0] /\ todo = [f \in Fiber |-> <<>>]
  /\ after = [f \in Fiber |-> "idle"] /\ fuel = Fuel /\ signals = MaxInterrupts

Next ==
  \/ \E f \in Fiber :
       Again(f) \/ Expired(f) \/ Clean(f) \/ Own(f) \/ Leave(f) \/ Run(f) \/ Acquire(f)
       \/ Publish(f) \/ Interrupt(f)
  \/ \E f \in Fiber, k \in Key :
       Get(f, k) \/ Peek(f, k) \/ Refresh(f, k) \/ Invalidate(f, k) \/ Close(f, k)
  \/ \E v \in Value : Expire(v)

Spec == Init /\ [][Next]_vars
----------------------------------------------------------------------------
MapKeys   == [current : Key, of : Value, ended : BOOLEAN]
MapValues == [tag : {"Pending", "Complete", "Refreshing"}, key : MapKeys,
              lookup : 0..MaxValues, value : 0..MaxValues]

TypeOK ==
  /\ DOMAIN map \subseteq Key /\ (\A k \in DOMAIN map : map[k] \in MapValues) /\ keySet \in Seq(MapKeys)
  /\ lookup \in [Value -> {"none", "promised", "running", "acquired", "done", "failed", "interrupted"}]
  /\ previous \in [Value -> 0..MaxValues] /\ owners \in [Value -> Int] /\ drops \in [Value -> Nat]
  /\ scope \in [Value -> {"none", "open", "closed"}] /\ expired \subseteq Value /\ late \subseteq Value
  /\ pc \in [Fiber -> {"idle", "expired", "again", "clean", "own", "using", "run", "lookup"}]
  /\ key \in [Fiber -> Key \cup {0}] /\ op \in [Fiber -> Ops \cup {"get"}]
  /\ value \in [Fiber -> 0..MaxValues] /\ todo \in [Fiber -> Seq(Value)]
  /\ after \in [Fiber -> {"idle", "own", "run", "again"}] /\ fuel \in [Fiber -> Nat]
  /\ made \in 0..MaxValues /\ signals \in 0..MaxInterrupts

Users(v)   == {f \in Fiber : pc[f] = "using" /\ value[f] = v}
Kept(v)    == \E k \in DOMAIN map : map[k].value = v
Queued(v)  == \E f \in Fiber : \E i \in DOMAIN todo[f] : todo[f][i] = v
InUse(v)   == Users(v) # {}

\* A resource that a fiber holds is not released, however keys are evicted,
\* invalidated, refreshed and closed meanwhile; the exceptions are a value the
\* fiber had found and became an owner of after the last one had left, and a
\* value the cache gave up more than once.
HeldIsOpen ==
  \A v \in Value : InUse(v) => scope[v] = "open" \/ v \in late \/ drops[v] > 1

\* The cache gives up a value only when it is out of the map or about to be
\* replaced, so that one that is there and valid can still be taken.
KeptIsOpen ==
  \A v \in Value : Kept(v) /\ lookup[v] = "done" /\ drops[v] = 0 => scope[v] = "open"

\* What is no longer in the map, nor in use, nor still to be released, has been
\* released, unless an interruption came in between.
NothingLeaks ==
  signals = MaxInterrupts =>
    \A v \in Value :
      lookup[v] = "done" /\ ~Kept(v) /\ ~InUse(v) /\ ~Queued(v)
        /\ (\A f \in Fiber : pc[f] \in {"idle", "using"}) => scope[v] = "closed"

\* A resource that a fiber holds is never released: the cache cleans the old one
\* "once all fiber using it are done with it" (src/src/ScopedCache.ts:81-82).  The code does not: see the README.
UsersFirst == \A v \in Value : InUse(v) => scope[v] = "open"
=============================================================================
