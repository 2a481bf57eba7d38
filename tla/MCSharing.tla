------------------------------ MODULE MCSharing ------------------------------
(***************************************************************************)
(* Small instances of what fibers share.  Each of them is a part of its    *)
(* own: a behaviour is one of that part, which alone uses the variables.   *)
(***************************************************************************)
EXTENDS Naturals, Sequences, FiniteSets, TLC

\* The users of the pool and the sleepers of the clock that is saved; the keys of
\* the caches and the items of the sets that fibers inherit.
CONSTANTS u1, u2, k1, k2

\* None of those is different from the other.
Symmetry == Permutations({u1, u2}) \cup Permutations({k1, k2})

VARIABLES
  part,
  v1, v2, v3, v4, v5, v6, v7, v8, v9, v10, v11, v12, v13, v14, v15, v16, v17, v18

After4  == <<v5, v6, v7>>
After7  == <<v8, v9, v10, v11>>
After11 == <<v12, v13, v14, v15, v16>>
After16 == <<v17, v18>>

Rest16 == v17 = 0 /\ v18 = 0
Rest11 == v12 = 0 /\ v13 = 0 /\ v14 = 0 /\ v15 = 0 /\ v16 = 0 /\ Rest16
Rest7  == v8 = 0 /\ v9 = 0 /\ v10 = 0 /\ v11 = 0 /\ Rest11
Rest4  == v5 = 0 /\ v6 = 0 /\ v7 = 0 /\ Rest7
----------------------------------------------------------------------------
Pools == {[min |-> 1, max |-> 1, ttl |-> FALSE], [min |-> 0, max |-> 2, ttl |-> TRUE]}

Pool == INSTANCE Pool WITH
  User <- {u1, u2}, Pools <- Pools, Gets <- 1, Attempt <- {1, 2},
  MaxInvalidated <- 1, MaxCuts <- 1,
  pool <- v1, size <- v2, free <- v3, isShuttingDown <- v4, items <- v5, takers <- v6, shut <- v7,
  attempts <- v8, invalidated <- v9, pc <- v10, again <- v11, held <- v12, left <- v13,
  calls <- v14, lost <- v15, signals <- v16

Twice == ("f1" :> 2) @@ ("f2" :> 1)

Cache == INSTANCE Cache WITH
  Fiber <- {"f1", "f2"}, Key <- {k1, k2}, Capacity <- 1,
  Ops <- {"get", "peek", "refresh", "set", "invalidate", "invalidateWhen", "invalidateAll"},
  Fuel <- Twice, MaxValues <- 3, MaxInterrupts <- 1, MaxExpired <- 1,
  map <- v1, keySet <- v2, deferred <- v3, made <- v4, expired <- v5, pc <- v6, key <- v7,
  seen <- v8, mine <- v9, fuel <- v10, signals <- v11, stored <- v12, gone <- v13,
  forbidden <- v14, result <- v15, displaced <- v16, untracked <- v17, orphans <- v18

ScopedCache == INSTANCE ScopedCache WITH
  Fiber <- {"f1", "f2"}, Key <- {k1, k2}, Capacity <- 1,
  Ops <- {"get", "peek", "refresh", "invalidate", "close"},
  Fuel <- Twice, MaxValues <- 2, MaxInterrupts <- 1, MaxExpired <- 1, MaxFailures <- 1,
  map <- v1, keySet <- v2, lookup <- v3, previous <- v4, owners <- v5, scope <- v6, expired <- v7,
  pc <- v8, key <- v9, op <- v10, value <- v11, todo <- v12, after <- v13, fuel <- v14,
  signals <- v15, made <- v16, drops <- v17, late <- v18

Clock(saves) == INSTANCE TestClock WITH
  Sleeper <- IF saves THEN {u1, u2} ELSE {"s1", "s2"}, Tester <- {"t"},
  Fuel <- ("t" :> 2) @@ IF saves THEN (u1 :> 1) @@ (u2 :> 1) ELSE ("s1" :> 2) @@ ("s2" :> 1),
  Durations <- IF saves THEN {0, 2} ELSE {1, 2}, MaxTime <- 4, Saves <- saves,
  instant <- v1, sleeps <- v2, warning <- v3, suspendedWarning <- v4, shown <- v5, state <- v6,
  until <- v7, pc <- v8, end <- v9, by <- v10, pass <- v11, snaps <- v12, saved <- v13,
  restored <- v14, adjusted <- v15, fuel <- v16

\* A data source that answers, and one that may die or leave requests open.
Requests(dies) == INSTANCE Requests WITH
  Client <- {"c1", "c2"}, Key <- {"k1", "k2"}, Asks <- ("c1" :> {"k1", "k2"}) @@ ("c2" :> {"k1"}),
  MaxHandles <- 3, MaxEvents <- IF dies THEN 0 ELSE 1, Yields <- TRUE, Dies <- dies,
  caching <- v1, cache <- v2, handles <- v3, pc <- v4, handle <- v5, owned <- v6, answer <- v7,
  blocks <- v8, told <- v9, events <- v10, lost <- v11

ScopedRef == INSTANCE ScopedRef WITH
  Setter <- {"s1", "s2"}, MaxSets <- 2, MaxInterrupts <- 1,
  auto <- v1, ref <- v2, scope <- v3, owner <- v4, closes <- v5, lock <- v6, pc <- v7,
  mine <- v8, told <- v9, left <- v10, lost <- v11

Scheduler == INSTANCE Scheduler WITH
  Priorities <- 0..2, MaxTasks <- 4, maxNextTickBeforeTimer <- 2,
  kind <- v1, buckets <- v2, running <- v3, asked <- v4, depth <- v5, batch <- v6, turn <- v7,
  deferred <- v8, priority <- v9, ran <- v10, streak <- v11

FiberRefs == INSTANCE FiberRefs WITH
  Fibers <- 3, Items <- {k1, k2}, Refs <- {"set", "val", "own"}, MaxChanges <- 2,
  refs <- v1, parent <- v2, changes <- v3, atFork <- v4, deleted <- v5, before <- v6, joins <- v7

Metrics == INSTANCE Metrics WITH
  MAX_VALUE <- 1000, MIN_VALUE <- 0, Parts <- 2, Inputs <- {2, 5}, MaxUpdates <- 3, MaxTime <- 2,
  map <- v1, now <- v2, used <- v3, given <- v4

ASSUME
  /\ Pool!PoolAssumption /\ Cache!CacheAssumption /\ ScopedCache!ScopedCacheAssumption
  /\ Clock(TRUE)!TestClockAssumption /\ Clock(FALSE)!TestClockAssumption
  /\ Requests(TRUE)!RequestsAssumption /\ Requests(FALSE)!RequestsAssumption
  /\ ScopedRef!ScopedRefAssumption
  /\ Scheduler!SchedulerAssumption /\ FiberRefs!FiberRefsAssumption /\ Metrics!MetricsAssumption
----------------------------------------------------------------------------
Init ==
  \/ part = "pool" /\ Pool!Init /\ Rest16
  \/ part = "cache" /\ Cache!Init
  \/ part = "scoped cache" /\ ScopedCache!Init
  \/ part = "clock" /\ Clock(FALSE)!Init /\ Rest16
  \/ part = "saved clock" /\ Clock(TRUE)!Init /\ Rest16
  \/ part = "requests" /\ Requests(FALSE)!Init /\ Rest11
  \/ part = "failing requests" /\ Requests(TRUE)!Init /\ Rest11
  \/ part = "scoped ref" /\ ScopedRef!Init /\ Rest11
  \/ part = "scheduler" /\ Scheduler!Init /\ Rest11
  \/ part = "fiber refs" /\ FiberRefs!Init /\ Rest7
  \/ part = "metrics" /\ Metrics!Init /\ Rest4

Next ==
  /\ UNCHANGED part
  /\ \/ part = "pool" /\ Pool!Next /\ UNCHANGED After16
     \/ part = "cache" /\ Cache!Next
     \/ part = "scoped cache" /\ ScopedCache!Next
     \/ part = "clock" /\ Clock(FALSE)!Next /\ UNCHANGED After16
     \/ part = "saved clock" /\ Clock(TRUE)!Next /\ UNCHANGED After16
     \/ part = "requests" /\ Requests(FALSE)!Next /\ UNCHANGED <<After11, After16>>
     \/ part = "failing requests" /\ Requests(TRUE)!Next /\ UNCHANGED <<After11, After16>>
     \/ part = "scoped ref" /\ ScopedRef!Next /\ UNCHANGED <<After11, After16>>
     \/ part = "scheduler" /\ Scheduler!Next /\ UNCHANGED <<After11, After16>>
     \/ part = "fiber refs" /\ FiberRefs!Next /\ UNCHANGED <<After7, After11, After16>>
     \/ part = "metrics" /\ Metrics!Next /\ UNCHANGED <<After4, After7, After11, After16>>

vars == <<part, v1, v2, v3, v4, After4, After7, After11, After16>>

Spec == Init /\ [][Next]_vars

\* The behaviours of one part.
PoolSpec     == part = "pool" /\ Spec
RequestsSpec == part = "failing requests" /\ Spec
----------------------------------------------------------------------------
\* An item of a pool is lent to one user at a time, is free, or is being made or
\* disposed of; the numbers say how many there are, none is made for nothing, and
\* the shutdown waits for them all (Pool).
ItemsAccounted == part = "pool" => Pool!ItemsAccounted

\* Of the fibers that ask for a key one looks it up, however they meet, and who
\* waits for it waits for somebody (Cache).
OneLookup ==
  part = "cache" => Cache!TypeOK /\ Cache!OneLookup /\ Cache!SomebodyLooksUp /\ Cache!WithinCapacity

\* What was invalidated when a fiber began to ask is not what it gets (Cache).
InvalidatedIsGone == part = "cache" => Cache!InvalidatedIsGone

\* The resource of a key is open while somebody holds it and while the cache keeps
\* it, and is released when nobody does (ScopedCache); a reference releases the value
\* before when a new one is set, and between two sets a reader sees one that is open
\* (ScopedRef).
ResourcesFollowOwners ==
  /\ part = "scoped cache" => /\ ScopedCache!TypeOK /\ ScopedCache!HeldIsOpen
                              /\ ScopedCache!KeptIsOpen /\ ScopedCache!NothingLeaks
  /\ part = "scoped ref" => /\ ScopedRef!TypeOK /\ ScopedRef!ReleasesTheOld
                            /\ ScopedRef!ReadsWhatIsOpen

\* A fiber that sleeps is woken at its time and not later, and by every adjustment
\* of the clock that passes it; a test that forgets to adjust it is warned (TestClock).
WokenOnTime ==
  /\ part = "clock" => /\ Clock(FALSE)!TypeOK /\ Clock(FALSE)!WokenOnTime /\ Clock(FALSE)!NoSleepMissed
                       /\ Clock(FALSE)!WarnedInTime
  /\ part = "saved clock" => /\ Clock(TRUE)!TypeOK /\ Clock(TRUE)!WokenOnTime /\ Clock(TRUE)!NoSleepMissed
                             /\ Clock(TRUE)!WarnedInTime

\* Who waits for the answer to a request has somebody to give it, unless that one
\* was interrupted or died; and is not told of an interruption that was not meant
\* for him (Requests).
WaitsForSomebody ==
  /\ part = "requests" => /\ Requests(FALSE)!TypeOK /\ Requests(FALSE)!WaitsForSomebody
                          /\ Requests(FALSE)!AnsweredForReal
  /\ part = "failing requests" => /\ Requests(TRUE)!TypeOK /\ Requests(TRUE)!WaitsForSomebody
                                  /\ Requests(TRUE)!AnsweredForReal

\* The data source of a block is interrupted only when nobody waits for any of it.
StopsForNobody ==
  [][/\ part = "requests" => Requests(FALSE)!StopsOnlyUnneeded
     /\ part = "failing requests" => Requests(TRUE)!StopsOnlyUnneeded]_vars

\* No task is lost or run twice, none is overtaken by one that must not, and a
\* timer has its turn however much the tasks schedule (Scheduler).
TasksRunInOrder ==
  part = "scheduler" => /\ Scheduler!TypeOK /\ Scheduler!NoTaskIsLost /\ Scheduler!InOrder
                        /\ Scheduler!TimersHaveTheirTurn

\* A fiber that joins another merges what that one changed since it was forked, and
\* a patch brings about the difference it was made of (FiberRefs).
JoinMerges ==
  part = "fiber refs" => FiberRefs!TypeOK /\ FiberRefs!JoinMerges /\ FiberRefs!PatchesRestore

\* The value of a metric is that of all it was given, however it was tracked, and
\* the same for all who have its key (Metrics).
CountsEverything == part = "metrics" => Metrics!CountsEverything

\* A pool that is empty and shut down is signalled: getAndShutdown says that it does
\* so "if the pool is empty" (src/src/internal/pool.ts:299-300).  The code does not:
\* see the README (Pool).
EmptyIsSignalled == part = "pool" => Pool!EmptyIsSignalled

\* No query waits for ever: where requests are left unanswered it dies
\* (src/src/RequestResolver.ts:44-45).  The code does not do so: see the README
\* (Requests).
NobodyWaitsForever == part = "failing requests" => Requests(TRUE)!NobodyWaitsForever
=============================================================================
