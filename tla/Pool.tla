-------------------------------- MODULE Pool --------------------------------
(***************************************************************************)
(* Pools: src/internal/pool.ts.                                             *)
(*                                                                         *)
(* The pool has a Ref with two numbers, size and free, which say what is in *)
(* its queue of items or will be; a fiber first changes the numbers and then *)
(* does what they say, and may be made to yield in between.  So each of     *)
(* these is a step.  The queue is an atomic channel (see Queue and Channel). *)
(*                                                                         *)
(* A get is a fiber of its own that cannot be interrupted (`disconnect` of  *)
(* `acquireRelease`): interrupting who asked for the item only makes it be  *)
(* released when that fiber has got it.                                     *)
(***************************************************************************)
EXTENDS Integers, Sequences, FiniteSets

CONSTANTS
  User,            \* fibers that get an item, one at a time
  Pools,           \* the pools to consider: records with min, max and ttl,
                   \* whether there is a TimeToLiveStrategy
  Gets,            \* how often a user gets an item
  Attempt,         \* 1 .. N, and no pool has more than N: names, used again
  MaxInvalidated,  \* how often somebody invalidates one
  MaxCuts          \* how often an early release is interrupted

PoolAssumption ==
  /\ IsFiniteSet(User) /\ Pools \subseteq [min : Nat, max : Nat \ {0}, ttl : BOOLEAN]
  /\ Attempt \subseteq Nat \ {0} /\ \A p \in Pools : p.min <= p.max /\ 1..p.max \subseteq Attempt
  /\ User \cap {"initialize", "shrink", "shutdown"} = {}
  /\ Gets \in Nat /\ MaxInvalidated \in Nat /\ MaxCuts \in Nat

Fiber == User \cup {"initialize", "shrink", "shutdown"}

VARIABLES
  pool,            \* the one there is
  size, free,      \* PoolState
  isShuttingDown,
  items,           \* the queue: attempts
  takers,          \* fibers suspended in a take, in order
  shut,            \* whether the queue is shut down
  attempts,        \* of each name, "ok" or "failed", or "none" when it is gone
  invalidated,     \* a set of items
  pc,              \* what each fiber does next
  again,           \* the gets that begin again after an allocation or a disposal
  held,            \* the attempt a fiber has, or 0
  left,            \* what is left to do: gets, allocations of `initialize`
  calls,           \* how many items were invalidated
  lost,            \* history: what interrupted early releases left behind,
  signals          \* ... and how often the pool was found empty

numbers == <<size, free, signals>>
queue   == <<items, takers, shut>>
things  == <<attempts, invalidated, held>>
rest    == <<pool, isShuttingDown, left, calls, lost>>
vars    == <<numbers, queue, things, rest, pc, again>>

Home(f) == CASE f \in User -> "idle" [] f = "shrink" -> "sleep"
             [] f = "shutdown" -> "await" [] f = "initialize" -> f
On(f)   == IF f \in again THEN "acquire" ELSE Home(f)

Jumps(f, l)  == pc' = [pc EXCEPT ![f] = l]
Goes(f, l)   == Jumps(f, l) /\ UNCHANGED again
GoesOn(f)    == Jumps(f, On(f)) /\ again' = again \ {f}
Counts(s, n) == size' = size + s /\ free' = free + n /\ UNCHANGED signals
----------------------------------------------------------------------------
(* The queue.                                                              *)

Takes == {"take", "takeLast", "takeExcess"}
Taken(l) == CASE l = "take" -> "check" [] l = "takeLast" -> "close" [] l = "takeExcess" -> "drop"
Waits(f) == \E i \in 1..Len(takers) : takers[i] = f

Take(f) ==
  /\ pc[f] \in Takes /\ ~shut /\ ~Waits(f)
  /\ IF items = <<>>
     THEN takers' = Append(takers, f) /\ UNCHANGED <<items, held, pc>>
     ELSE /\ items' = Tail(items) /\ held' = [held EXCEPT ![f] = Head(items)]
          /\ Jumps(f, Taken(pc[f])) /\ UNCHANGED takers
  /\ UNCHANGED <<numbers, shut, attempts, invalidated, rest, again>>

\* The attempt goes to the fiber that waits longest.
Offer(f) ==
  /\ pc[f] = "offer" /\ ~shut
  /\ IF takers = <<>>
     THEN /\ items' = Append(items, held[f]) /\ held' = [held EXCEPT ![f] = 0]
          /\ Jumps(f, "track") /\ UNCHANGED takers
     ELSE LET t == Head(takers) IN
          /\ takers' = Tail(takers) /\ held' = [held EXCEPT ![f] = 0, ![t] = held[f]]
          /\ pc' = [pc EXCEPT ![f] = "track", ![t] = Taken(pc[t])] /\ UNCHANGED items
  /\ UNCHANGED <<numbers, shut, attempts, invalidated, rest, again>>

\* At a queue that is shut down both are interrupted, which getAndShutdown ignores.
TooLate(f) ==
  /\ pc[f] \in Takes \cup {"offer"} /\ shut
  /\ IF pc[f] = "takeLast" THEN GoesOn(f) ELSE Goes(f, "end")
  /\ UNCHANGED <<numbers, queue, things, rest>>

\* track, and whenEffect of getAndShutdown.
Track(f) ==
  /\ pc[f] = "track"
  /\ IF isShuttingDown THEN Goes(f, "getAndShutdown") ELSE GoesOn(f)
  /\ UNCHANGED <<numbers, queue, things, rest>>
----------------------------------------------------------------------------
(* allocate, and disposing of attempts.                                    *)

\* allocate: the creator ends, and succeeds or fails.
Allocate(f) ==
  /\ pc[f] = "allocate" /\ Goes(f, "offer")
  /\ \E a \in Attempt, r \in {"ok", "failed"} :
       /\ attempts[a] = "none" /\ \A b \in Attempt : b < a => attempts[b] # "none"
       /\ attempts' = [attempts EXCEPT ![a] = r] /\ held' = [held EXCEPT ![f] = a]
  /\ UNCHANGED <<numbers, queue, invalidated, rest>>

\* What finalizeInvalid, shrink and getAndShutdown do with an attempt: it is
\* invalid no more, and its finalizer runs.
Disposal == {"invalid", "drop", "close"}
Disposed(l) == CASE l = "invalid" -> "replace" [] l = "drop" -> "dropped" [] l = "close" -> "closed"

Dispose(f) ==
  /\ pc[f] \in Disposal /\ Goes(f, Disposed(pc[f]))
  /\ invalidated' = invalidated \ {held[f]}
  /\ attempts' = [attempts EXCEPT ![held[f]] = "none"]
  /\ held' = [held EXCEPT ![f] = 0]
  /\ UNCHANGED <<numbers, queue, rest>>

\* The end of finalizeInvalid.
Replace(f) ==
  /\ pc[f] = "replace"
  /\ IF size <= pool.min THEN Counts(0, 1) /\ Goes(f, "allocate") ELSE Counts(-1, 0) /\ GoesOn(f)
  /\ UNCHANGED <<queue, things, rest>>

\* It takes an item, even one that is still being allocated; leaves the rest to
\* those who have items; or finds that there are none.
GetAndShutdown(f) ==
  /\ pc[f] = "getAndShutdown"
  /\ \/ free > 0 /\ Counts(0, -1) /\ Goes(f, "takeLast")
     \/ free <= 0 /\ size > 0 /\ GoesOn(f) /\ UNCHANGED numbers
     \/ /\ free <= 0 /\ size <= 0
        /\ size' = size - 1 /\ signals' = signals + 1 /\ Goes(f, "signal") /\ UNCHANGED free
  /\ UNCHANGED <<queue, things, rest>>

\* One item less; in getAndShutdown there may be another.
Closed(f) ==
  /\ \/ pc[f] = "closed" /\ Goes(f, "getAndShutdown")
     \/ pc[f] = "dropped" /\ GoesOn(f)
  /\ Counts(-1, 0)
  /\ UNCHANGED <<queue, things, rest>>

\* The pool is empty: the queue is shut down, and who waits is interrupted.
Signal(f) ==
  LET Resumes(g) == g = f \/ (Waits(g) /\ pc[g] = "takeLast") IN
  /\ pc[f] = "signal"
  /\ shut' = TRUE /\ takers' = <<>> /\ UNCHANGED items
  /\ pc' = [g \in Fiber |-> IF Resumes(g) THEN On(g) ELSE IF Waits(g) THEN "end" ELSE pc[g]]
  /\ again' = {g \in again : ~Resumes(g)}
  /\ UNCHANGED <<numbers, things, rest>>
----------------------------------------------------------------------------
(* get: acquire,                                                           *)

Get(u) ==
  /\ pc[u] = "idle" /\ left[u] > 0 /\ Goes(u, "acquire")
  /\ left' = [left EXCEPT ![u] = @ - 1]
  /\ UNCHANGED <<numbers, queue, things, pool, isShuttingDown, calls, lost>>

Acquire(u) ==
  /\ pc[u] = "acquire" /\ Goes(u, IF isShuttingDown THEN "end" ELSE "reserve")
  /\ UNCHANGED <<numbers, queue, things, rest>>

Begins(u, l) == Jumps(u, l) /\ again' = again \cup {u}

Reserve(u) ==
  /\ pc[u] = "reserve"
  /\ \/ (free > 0 \/ size >= pool.max) /\ Counts(0, -1) /\ Goes(u, "take")
     \/ free <= 0 /\ size \in 0..(pool.max - 1) /\ Counts(1, 1) /\ Begins(u, "allocate")
     \/ free <= 0 /\ size < 0 /\ Goes(u, "end") /\ UNCHANGED numbers
  /\ UNCHANGED <<queue, things, rest>>

\* An item that was invalidated is replaced, and the get begins again.
Check(u) ==
  /\ pc[u] = "check"
  /\ IF attempts[held[u]] = "failed" THEN Goes(u, "failed")
     ELSE IF held[u] \in invalidated THEN Begins(u, "invalid") ELSE Goes(u, "use")
  /\ UNCHANGED <<numbers, queue, things, rest>>

(* ... and release.                                                        *)

\* Mutant of Release: an invalid item is disposed of, and put back.
ReleaseTwice(u) ==
  /\ pc[u] = "use" /\ Goes(u, "putBack")
  /\ attempts' = IF held[u] \in invalidated THEN [attempts EXCEPT ![held[u]] = "none"] ELSE attempts
  /\ invalidated' = invalidated \ {held[u]}
  /\ UNCHANGED <<numbers, queue, held, rest>>

Release(u) ==
  /\ pc[u] = "use" /\ Goes(u, IF held[u] \in invalidated THEN "invalid" ELSE "putBack")
  /\ UNCHANGED <<numbers, queue, things, rest>>

PutBack(u) ==
  /\ pc[u] = "putBack" /\ Counts(0, 1) /\ Goes(u, "offer")
  /\ UNCHANGED <<queue, things, rest>>

\* A failure is released early, by closing a scope.  (No finalizer runs: what the
\* creator had acquired when it failed stays acquired.)
GivesUp(u) == /\ attempts' = [attempts EXCEPT ![held[u]] = "none"]
              /\ held' = [held EXCEPT ![u] = 0] /\ UNCHANGED invalidated

ReleaseFailure(u) ==
  /\ pc[u] = "failed" /\ GivesUp(u)
  /\ IF size <= pool.min THEN Counts(0, 1) /\ Goes(u, "retry") ELSE Counts(-1, 0) /\ Goes(u, "idle")
  /\ UNCHANGED <<queue, rest>>

Retry(u) == pc[u] = "retry" /\ Goes(u, "allocate") /\ UNCHANGED <<numbers, queue, things, rest>>

\* That may be interrupted, and no later close of the scope does what is left.
Cut(u) ==
  /\ lost.size < MaxCuts /\ Goes(u, "idle")
  /\ \/ pc[u] = "failed" /\ GivesUp(u) /\ lost' = [size |-> lost.size + 1, free |-> lost.free]
     \/ pc[u] = "retry" /\ UNCHANGED things /\ lost' = [size |-> lost.size + 1, free |-> lost.free + 1]
  /\ UNCHANGED <<numbers, queue, pool, isShuttingDown, left, calls>>

\* invalidate, by anybody.  (Of an item that is gone it has no effect.)
Invalidate(a) ==
  /\ calls < MaxInvalidated /\ attempts[a] = "ok" /\ a \notin invalidated
  /\ invalidated' = invalidated \cup {a} /\ calls' = calls + 1
  /\ UNCHANGED <<numbers, queue, attempts, held, pool, isShuttingDown, left, lost, pc, again>>
----------------------------------------------------------------------------
(* The fibers of the pool.                                                 *)

Initialize(f) ==
  /\ pc[f] = "initialize"
  /\ IF left[f] = 0 THEN Goes(f, "end") /\ UNCHANGED <<numbers, left>>
     ELSE /\ left' = [left EXCEPT ![f] = @ - 1]
          /\ IF size \in 0..(pool.min - 1) THEN Counts(1, 1) /\ Goes(f, "allocate")
             ELSE UNCHANGED <<numbers, pc, again>>
  /\ UNCHANGED <<queue, things, pool, isShuttingDown, calls, lost>>

excess == size - (IF pool.min < free THEN pool.min ELSE free)

\* The strategy finds that there are too many, and that enough time has passed.
Awake(f) ==
  /\ pc[f] = "sleep" /\ pool.ttl /\ excess > 0 /\ Goes(f, "shrink")
  /\ UNCHANGED <<numbers, queue, things, rest>>

Shrink(f) ==
  /\ pc[f] = "shrink"
  /\ IF size > pool.min /\ free > 0 THEN Counts(0, -1) /\ Goes(f, "takeExcess")
     ELSE Goes(f, "sleep") /\ UNCHANGED numbers
  /\ UNCHANGED <<queue, things, rest>>

\* The scope of the pool is closed.
Shutdown(f) ==
  /\ pc[f] = "shutdown" /\ isShuttingDown' = TRUE /\ Goes(f, "getAndShutdown")
  /\ UNCHANGED <<numbers, queue, things, pool, left, calls, lost>>

\* When the queue is shut down, the strategy is interrupted (`initialize` is done).
AwaitShutdown(f) ==
  /\ pc[f] = "await" /\ shut
  /\ pc' = [pc EXCEPT ![f] = "end", !["shrink"] = IF @ = "sleep" THEN "end" ELSE @]
  /\ UNCHANGED <<numbers, queue, things, rest, again>>
----------------------------------------------------------------------------

Init ==
  /\ pool \in Pools /\ size = 0 /\ free = 0 /\ signals = 0
  /\ isShuttingDown = FALSE /\ items = <<>> /\ takers = <<>> /\ shut = FALSE
  /\ attempts = [a \in Attempt |-> "none"] /\ invalidated = {}
  /\ pc = [f \in Fiber |-> IF f = "shutdown" THEN f ELSE Home(f)]
  /\ again = {} /\ held = [f \in Fiber |-> 0]
  /\ left = [f \in Fiber |-> IF f \in User THEN Gets ELSE IF f = "initialize" THEN pool.min ELSE 0]
  /\ calls = 0 /\ lost = [size |-> 0, free |-> 0]

Next ==
  \/ \E f \in Fiber :
       \/ Take(f) \/ Offer(f) \/ TooLate(f) \/ Track(f) \/ Allocate(f) \/ Dispose(f)
       \/ Replace(f) \/ GetAndShutdown(f) \/ Closed(f) \/ Signal(f)
       \/ Initialize(f) \/ Awake(f) \/ Shrink(f) \/ Shutdown(f) \/ AwaitShutdown(f)
  \/ \E u \in User :
       \/ Get(u) \/ Acquire(u) \/ Reserve(u) \/ Check(u)
       \/ Release(u) \/ PutBack(u) \/ ReleaseFailure(u) \/ Retry(u) \/ Cut(u)
  \/ \E a \in Attempt : Invalidate(a)

Spec == Init /\ [][Next]_vars
----------------------------------------------------------------------------
(* Properties.                                                             *)

Labels == Takes \cup Disposal \cup
  {"idle", "acquire", "reserve", "check", "use", "putBack", "failed", "retry", "replace",
   "allocate", "offer", "track", "getAndShutdown", "closed", "dropped", "signal",
   "initialize", "sleep", "shrink", "shutdown", "await", "end"}

\* Every variable has its type; a pool is never larger than its maximum, and so
\* its queue never full.
TypeOK ==
  /\ pool \in Pools /\ size \in Int /\ size <= pool.max /\ free \in Int /\ signals \in Nat
  /\ isShuttingDown \in BOOLEAN /\ shut \in BOOLEAN
  /\ attempts \in [Attempt -> {"none", "ok", "failed"}] /\ invalidated \subseteq Attempt
  /\ items \in Seq(Attempt) /\ takers \in Seq(Fiber)
  /\ pc \in [Fiber -> Labels] /\ again \subseteq User
  /\ held \in [Fiber -> Attempt \cup {0}] /\ left \in [Fiber -> Nat]
  /\ calls \in Nat /\ lost \in [size : Nat, free : Nat]

\* The fibers that have an attempt, or the place of one, and
Placed == {f \in Fiber : pc[f] \in Disposal \cup
  {"allocate", "retry", "offer", "check", "use", "putBack", "failed", "replace", "closed", "dropped"}}
\* those that will bring one to the queue, or take one from it.
Bringing == {f \in Fiber : pc[f] \in {"allocate", "retry", "offer"}}
Taking   == {f \in Fiber : pc[f] \in Takes}

\* The two numbers are the attempts there are, and those nobody has claimed.
Accounted ==
  ~shut =>
    /\ size = Len(items) + Cardinality(Placed) + lost.size - signals
    /\ free = Len(items) + Cardinality(Bringing) - Cardinality(Taking) + lost.free

\* An item is open as long as it can be got, and nobody else gets one in use.
LentOnce ==
  /\ \A f, g \in Fiber : held[f] # 0 /\ held[f] = held[g] => f = g
  /\ \A i, j \in 1..Len(items) : items[i] = items[j] => i = j
  /\ \A i \in 1..Len(items) : attempts[items[i]] # "none" /\ \A f \in Fiber : held[f] # items[i]
  /\ \A f \in Fiber : held[f] # 0 => attempts[held[f]] # "none"

FixedSize == pool.min = pool.max
Intact    == lost.size = 0

\* In a pool of fixed size, who waits for an item waits for a fiber that has one
\* or makes one, or is about to find the pool empty; and the pool keeps its size.
KeepsItsSize ==
  FixedSize /\ Intact =>
    /\ takers # <<>> => Placed # {} \/ \E f \in Fiber : pc[f] \in {"getAndShutdown", "signal"}
    /\ pc["initialize"] = "end" /\ ~isShuttingDown => size = pool.min

\* pool.ts: "Gets items from the pool and shuts them down as long as there are
\* items free, signalling shutdown of the pool if the pool is empty."  So while the
\* shutdown waits for that signal and nobody does anything, the pool is not empty.
Rests(f) == pc[f] \in {"idle", "end", "sleep", "await"} \/ Waits(f)
EmptyIsSignalled ==
  pc["shutdown"] = "await" /\ ~shut /\ (\A f \in Fiber : Rests(f)) => size > 0

\* In a pool of fixed size the shutdown does not wait for nobody.
ShutdownGoesOn ==
  FixedSize /\ Intact /\ pc["shutdown"] = "await" /\ ~shut => \E f \in Fiber : ~Rests(f)

\* An item is lent to one user at a time, is free, or is being made or disposed of;
\* the numbers say how many there are, and the shutdown waits for them all.
ItemsAccounted == TypeOK /\ Accounted /\ LentOnce /\ KeepsItsSize /\ ShutdownGoesOn

\* "Shrinks the pool down, but never to less than the minimum size."
NeverBelowMinimum ==
  pc["initialize"] = "end" /\ ~isShuttingDown /\ Intact => size >= pool.min
=============================================================================
