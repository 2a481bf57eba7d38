# TLA+ models of effect-ts-io

effect-ts-io (`@effect/io`) is a runtime for concurrent programs in TypeScript: fibers that are
interpreted by a run loop, and on top of them queues, hubs, semaphores, pools, caches, scopes,
layers and schedules.  JavaScript has one thread, so nothing here is a data race.  What goes wrong
goes wrong between two tasks of the host's event loop, or between two effects of one operation: the
run loop may make a fiber yield after any effect, and interruption may reach it there.  A test
hardly ever arranges that; these models let it happen everywhere.

All paths are relative to the repository's `src/` directory; `internal/` is `src/internal/`.

## How to run

    tlc -config Fiber.cfg MCFiberRuntime.tla          # each run: a .cfg and its MC module
    tlc -workers 2 -config Combinators.cfg MCCombinators.tla
    tlapm FiberRuntimeProofs.tla                      # the proofs of the run loop
    tlapm ScopesProofs.tla                            # the proofs of scopes
    tlapm QueueProofs.tla                             # the proofs of queues and the channel
    tlapm SemaphoreProofs.tla                         # the proofs of semaphores
    tlapm PoolProofs.tla                              # the proofs of pools
    tlapm CacheProofs.tla                             # the proofs of caches
    tlapm ScopedProofs.tla                            # the proofs of scoped caches and references
    tlapm ForEachParProofs.tla                        # the proofs of parallel forEach

`PROJECT.json` lists the runs, the source lines each definition models, the hazards and the
properties aimed at them, and for each property a mutant of the model that breaks it.

## The system

| Component | State | Operations | Talks to | What is hard | What makes it correct |
|---|---|---|---|---|---|
| Fiber run loop, `internal/fiberRuntime.ts` | mailbox, continuation stack, flags, async callback, children, observers, exit | start, resume, tell, drain, evaluate, set the exit | other fibers by messages; the scheduler by tasks | who has the thread, messages that arrive while draining, interruption in and out of masked regions, children | no lost wake-up, one run loop, one resumption per suspension, finalizers run once, children end first |
| Effect primitives, `internal/core.ts` | none of their own | async, masks, onExit, deferreds | the run loop | an asynchronous answer that races with interruption | the canceler or the answer, never both |
| Queue, `internal/queue.ts` | values, takers, putters, shutdown flag and hook | offer(All), take(Between, UpTo, All), shutdown | fibers through a deferred per waiter | state read before a yield and used after it | order, no duplicate, no waiter that has nothing to wait for |
| Semaphore, `internal/effect/circular.ts` | permits taken, waiters | take, release, withPermits | the scheduler (wake-up task) | the wake-up loop mutates what it walks over | permits conserved, waiters served |
| Ref.Synchronized, same file | a ref and a semaphore | modifyEffect | Semaphore | effects between read and write | updates are serialized |
| Hub, `internal/hub.ts` | ring buffer with reference counts, subscriptions, pollers, publishers | publish(All), subscribe, take, unsubscribe, shutdown | queues, fibers | three cyclic buffers, slow subscribers, strategies | every subscriber sees every message since its subscription, once, in order |
| Scope, ReleaseMap, `internal/core.ts` | finalizers, state | add, fork, close | fibers | close races with add and with fork | every finalizer runs exactly once |
| Pool, KeyedPool, `internal/pool.ts` | free, size, items, invalidated | get, invalidate, shrink, shutdown | Queue, Scope | an allocation interrupted half way | size equals the items that exist; never above max |
| Cache, `internal/cache.ts` | map of pending, complete, refreshing | get, refresh, invalidate, eviction | Deferred | a lookup completes after it was invalidated | one lookup at a time per key |
| Layer, `internal/layer.ts` | memo map, observer counts | build, release | Scope, Deferred | two builders of one layer | built once, released by the last user |
| Scheduler, `Scheduler.ts` | buckets of tasks by priority | scheduleTask, starve | the host | tasks added while others run | every task runs, in order of priority |
| Parallel combinators, `internal/fiberRuntime.ts` | fibers, counters, the cause so far | forEachPar, race, disconnect | fibers | who wins, who is interrupted, who is awaited | nothing goes on after the result, and no failure is lost |
| FiberRefs, `internal/fiberRefs.ts` | values per ref with their history | forkAs, joinAs, set | the run loop | joins of fibers with a common ancestor | only what the child changed is joined |
| RuntimeFlags, `internal/runtimeFlags*.ts` | a bit set and a patch | patch, diff, invert | the run loop | patches of overlapping bits | a patch undone is the identity |
| Schedule, `internal/schedule*.ts` | a driver's state, intervals | step, union, intersect | the clock | intervals that meet or are empty | the algebra of intervals |
| Cause, Exit, `internal/cause.ts` | a tree | strip, squash, equality | everything | deep trees | order and kinds of failures kept |
| ScopedRef, Resource, Reloadable | a value and the scope that made it | set, get, refresh | Scope, Synchronized | acquiring the new before releasing the old, and failing | no value without its scope |
| Requests, `internal/query.ts`, `request.ts` | blocked requests, cache | run, complete | the run loop | a data source that completes some of them | every request is completed |
| TestClock | sleeps, instant | adjust, sleep | fibers, deferreds | suspension is detected by polling | sleeps end in order |
| Metrics, `internal/metric*` | hooks in a registry, by key and labels | update, get, track, poll | fibers | one metric under several names, windows, boundaries | everything given is counted, once, under its key |
| Config, ConfigProvider | none: trees of configs, patches of paths, errors | load, nested, orElse, withDefault | the provider's map | what is missing and what is malformed, mixed | a default hides nothing that is there |
| Effect combinators, `internal/effect.ts`, `core.ts` | none of their own | loops, handlers, regions, resources | the run loop | an interruption at any operation | what is acquired is released, flags restored, loops exact |
| Supervisor, Logger, Clock, Random, Tracer | small | wrappers | the run loop, the host | little | not modelled |

### How the parts are put together

    FiberRuntime   Scopes     Queue --implements--> Channel      Hub --implements--> Topic
      (MCFiberRuntime) (MCScopes)  (MCQueue)                       (MCHub)

    MCSharing:      Pool  Cache  ScopedCache  TestClock  Requests  ScopedRef  Scheduler  FiberRefs  Metrics
    MCCombinators:  Semaphore  Race  RaceAll  ForEachPar  Layer(LayerAlgebra)       fibers at work
                    EffectPrograms(EffectCombinators(Effects(Causes), Schedules))  inputs and results
                    ScheduleRuns(Schedules(Intervals), EffectCombinators)
                    Configs  CauseLaws(Causes)  RequestPlans

    Cache and ScopedCache extend KeySet, and each proof module the module it is about
    (ScopedProofs has an instance of ScopedRef besides).

`MCSharing` and `MCCombinators` are sums: a variable `part` says which component a behaviour is of, and
the numbered variables are that component's, by `INSTANCE ... WITH`.  A state of the sum is a state of
one part, so a run checks them all and explores no product.  A property of the sum is guarded by its
part and names properties of the component's module, where they are stated and commented.

What stands between components is taken from the module that shows it: `Pool` uses a queue as the atomic
channel `ImplementsChannel` says it is; `Race`, `RaceAll`, `ForEachPar`, `Layer` and `Requests` are made
of fibers of which they only use what `FiberRuntime` shows (a fiber that is interrupted where it can be
ends, children are waited for, an exit reaches whoever awaits it); `ScopedRef` and `ScopedCache` use
scopes that run their finalizer once when they are closed (`EachOnce`, `ClosedHasRun`).

## What is modelled

### FiberRuntime: the run loop

`FiberRuntime.tla` models `FiberRuntime` of `internal/fiberRuntime.ts`.  The variables are its
fields, indexed by fiber, plus who has the thread: `current` and `pc`, the place in the class
(`drainQueueOnCurrentThread`, `runLoop`, `setExitValue`, the `finally` of `start`).  A task keeps
the thread until it gives it up, so an action is one message drained, one iteration of the run
loop, or one thing done while popping a continuation; fibers interleave where the JavaScript does.

| Actions | Code |
|---|---|
| `StartRoot`, `Run`, `Finally`, `DrainDone` | `start`, `run`, `drainQueueLaterOnExecutor`, both ends of a drain |
| `DrainYieldNow`, `DrainInterrupt`, `DrainResume`, `DrainStateful` | `evaluateMessageWhileSuspended` |
| `LoopInterrupt`, `LoopStateful`, `ForcedYield` | `drainQueueWhileRunning`, the yield check of `runLoop` |
| `FlatMap` ... `Complete` (`Program`) | what the program may ask for next |
| `EvalSuccess`, `EvalFailure`, `EvalRegion`, `EvalAwait`, `EvalJoin` ... | the op-code methods |
| `CleanupAfterSuccess`, `CleanupAfterFailure` | `onExit`, `onInterrupt` and the canceler of an async |
| `LeaveChildren`, `LeaveMessages`, `SetExitValue`, `Notify` | the end of `evaluateEffect` |
| `OutsideCompletes`, `OutsideInterrupts` | timers, I/O, `unsafeInterruptAsFork` from outside |

The program is any program: where the library evaluates an effect it did not build, the effect is
`Prog`, and it turns into any operation of `Ops`, `Fuel[f]` times.  A cause is the set of kinds of
failure it holds; a value is kept only where the loop looks at it (the exit `core.step` returns).

Abstracted: fiber refs, logging, tracing, supervisors and metrics (called, never consulted);
`OP_WHILE`, `OP_ITERATOR`, `OP_SYNC` (loops and steps that behave like a flatMap).

Properties, aimed at the hazards of the same lines:

* `NoLostWakeup`, `ResumedOnce`: the mailbox protocol.  `tell` schedules a run only when `_running` is
  false, and both ends of a drain put it back; a fiber with messages is running or has a run coming,
  its mailbox holds no `Resume` while its loop is active, and never two of them.
* `InterruptionStops`: once the interruption reached a fiber no step of its program is taken in an
  interruptible region, however it got there.
* `EndsInOrder`: when a fiber ends its finalizers have run once, its regions were left, and
  `stripFailures` left no empty cause.
* `ChildrenEndFirst`, `AwaitersKnown`, `ExitIsFinal`: structured concurrency and exits.
* `InterruptedEnds`, `ExitReachesAwaiters` (liveness).

### Queue and Channel

`Queue.tla` models a bounded queue of `internal/queue.ts` with each of the three strategies.  An
operation is one step per effect that touches the queue, because the fiber may be made to yield
before each: `unsafeOffer` and the poll of `take` are one, but `take` reads the queue in one effect
and registers its deferred in another, and `shutdown` is a chain of four.  `Settle` is the two
mutually recursive loops `unsafeCompleteTakers` and `unsafeOnQueueEmptySpace` in closed form;
a conjunct of `BatchesWhole` compares it with the loops, transcribed as the recursive function
`Loops`, in every reachable state.  The domain of `Loops` is `LoopState`: the stores the loops may be
called with and get to (who waits, waits once, and never on both sides).

`Channel.tla` is what a queue promises: values come out in the order they went in, each once; one
that is inside is lost only by sliding, one outside only with the offer that brought it, or by
shutdown.  `ImplementsChannel` is the refinement: `inside <- content`, `outside <- putters`' values,
`got <- got`.  A batch of the channel is values of one producer with consecutive numbers that nobody
has seen; `Sizes <- BatchSizes` and `Counts <- SentCounts` are the sizes and numbers the operations and
their fuel allow, and bound nothing else.  `Pick` is what interruption leaves of the offers outside.

`NobodyWaitsForNothing`: no taker waits while there are values, no putter while there is room, and
whoever is suspended can still be found, by a hand-over or by a shutdown; this holds with one fiber
that shuts down (the run has one), and fails with two (below).  `BatchesWhole`: an `offerAll` is told
"offered" only when all its values went in, and `takeBetween` returns between min and max values.

What interruption of a taker does is in the model as the code has it: a value handed to a taker
that is interrupted before it resumes is lost (it counts as taken).  `take` makes no promise there.

### Hub and Topic

`Hub.tla` begins with the four buffers of `internal/hub.ts` as operators on a record: the ring
(`BoundedHubArb`, and `BoundedHubPow2`, which masks where the other takes a remainder), the single
place and the linked list, each with a count per message of the subscriptions that have yet to read
it, and the position of each subscription.  `h.log` and `h.got` are history: what was stored, and
what each subscription polled.

The rest is the protocol around a buffer, with the granularity of `Queue`: suspended takers per
subscription (`pollers`), suspended publishers of the back-pressure strategy, the map of
subscriptions that have pollers, interruption and its clean-up, the end of a subscription, and
`shutdown` of the hub, which closes the scope that holds them all.  `CompletePollers`,
`CompleteThose` and `OnHubEmptySpace` are the mutually recursive hand-over loops, as they are in the
code.

* `PlacesAccounted`: a place of the buffer is counted once for each subscription that has yet to read
  it, and holds the message they will read, however they come and go; and a hub is full only if some
  subscription is a whole capacity behind.
* `NobodyWaitsForNothing`: as for the queue; what makes room may be a slow subscription that ends.
* `ImplementsTopic`: `Topic.tla` is one log; a subscription starts at its end and gets what follows,
  in order, each message once; only a sliding hub makes it skip, and never the newest.

`publishAll` on a ring stores messages though nobody subscribed (`publish` does not), with a count
of zero which nothing ever brings to zero again: the places are lost until the hub slides.  `stale`
says that this happened, and `PlacesAccounted` excepts it.  A sliding single is not among the setups
of `hub`, since it breaks the promise (below).  As with the queue, a poller that is handed a message
and interrupted before it resumes loses it.

### Pool

`Pool.tla` models `internal/pool.ts`.  The pool's state is two numbers in a `Ref`, `size` and `free`,
beside a queue of attempts; an operation first changes the numbers and then, in later effects, does
what they say.  `pc[f]` is the next effect of fiber `f`: a user's, or one of the pool's own three
(`initialize`, the strategy that shrinks, and the finalizer that shuts it down).  `allocate`,
`finalizeInvalid` and `getAndShutdown` are called from each other and from all of these; they end in
what `On(f)` says.  `free` is negative while users wait.  The queue is an atomic channel, which is
what `ImplementsChannel` says of it.

`ItemsAccounted` is the conjunction of the type invariant and:

* `Accounted`: `size` is the number of attempts, wherever they are; `free` those in the queue or on
  their way to it, less those somebody is about to take.  This relates two counters to the places of
  all fibers, in every interleaving.
* `LentOnce`: an item is at one place, and open while it is.
* `KeepsItsSize`, `ShutdownGoesOn`: in a pool of fixed size (`Pool.make`), nobody waits for an item
  that nobody has, `size` stays, and the shutdown does not wait for nobody.

The last two are claimed of pools of fixed size only, and while no early release was interrupted, because of
what the code does otherwise:

* With `min < max` a release of a failure or of an invalid item makes the pool smaller and does not
  look whether somebody waits (`free < 0`), or whether the pool shuts down (the finding below).
* `shrink` compares `size` with `min` before its finalizer and decrements it after; a release in
  between does the same, and the pool falls below `min`, where the comment at line 360 says "never to
  less than the minimum size".  (`NeverBelowMinimum` is that sentence; it is violated with two users
  and a pool of 1 to 2.)
* The early release of a failure runs where the caller can be interrupted.  The scope is closed by
  then (see Scopes), so nothing releases the place: `Cut`, counted in `lost`.
* The finalizer of a failed attempt is not run when it is released: what its creator acquired before
  it failed stays acquired.
* A strategy that finds an excess it may not shrink, since the items are in use, tries again without
  sleeping.

Abstracted: time (`Awake` is possible whenever there is an excess), `track` (it notes the time), and
interruption of who asked for an item: `disconnect` leaves the get to a daemon that goes on, and
releases what it got when the scope is closed, which is a `Release`.

### Semaphore

`Semaphore.tla` models `Semaphore` and the `Synchronized` built on it.  `release` schedules a task
that walks over the array of waiters, from which each woken one removes itself, so the one after it
is skipped; `WaitersServed` (the semaphore's share of `EverybodyEnds`) shows that the skipped are
served by a later release.  Permits are taken
on behalf of the waiter by the task that wakes it.  If the waiter is interrupted before it runs, its
canceler finds nothing to remove, and the permits are never released: `lost` counts them,
`PermitsAccounted` says that nothing else is lost or made, and `WaitersServed` is claimed of the
behaviours without such a loss.  No text of the repository says what should happen there, so it is
recorded here and under "hazards", not as a finding.  `UpdatesSerialized`: no update of a Synchronized
is lost; both are in `PermitsAccounted` of `MCCombinators`.

### Scopes

`Scopes.tla` models the `ReleaseMap` of `internal/core.ts` and the scope around it in
`internal/fiberRuntime.ts`.  A map is `Running`, with finalizers by key, or `Exited`; `tag`,
`finalizers`, `nextKey` and `key` are its fields.  `fork` puts `<<"close", c>>` in the map of the
parent and `<<"release", c>>` in that of the new scope: two effects (`Fork`, `Link`), so the parent
may be closed in between.  `Close` is the one synchronous step that takes the finalizers out of the
map; what follows is begun in the reverse order of the keys, as many at a time as the strategy
allows (`RunNext`, `CloseNext`, `ReleaseNext`), and ends when it ends.  `AddFinalizer` and `Fork` may
come in between, and find the map `Exited`.

* `EachOnce`: no finalizer is begun twice.
* `ClosedHasRun`: a close that ended ran everything that was added, before it or during it.
* `ScopesTidy`: a sequential scope runs its finalizers one after the other, last in, first out
  (`ReverseOrder`); a scope that was closed leaves no child open, not even one that was forked during
  the close; and a child that was closed on its own is forgotten by its parent (`ChildrenTidy`).

`Close(s, TRUE)` is a close in an interruptible region, and `Interrupt` drops what it has not begun.
`ClosedHasRun` and `ChildrenTidy` except such scopes (`cut`): the map is `Exited`, and no later close will run
what was dropped, though `Scope.ts` says "guaranteed to be run when the scope is closed".  A second
close of a scope that is being closed returns at once: `Done` is not what its caller may assume.  The
library itself closes scopes in finalizers of `acquireUseRelease` and `onExit`, which are not
interruptible.

Abstracted: the exit a close is given, `update` (always the identity), and a late finalizer being
interrupted (it has begun).

### Cache and ScopedCache

`KeySet.tla` is what the two keep their keys in, the `MapKey` and the `KeySet` of `internal/cache.ts`, with the loop of
`trackAccess` that evicts.  `Cache.tla` is `internal/cache.ts`: a map whose values are `Pending` (a promise), `Complete` or
`Refreshing`, and a list of keys in the order of access.  A fiber that asks for a key is
between two effects almost everywhere: before it looks, after it promised and before it looks up
(`Begin`), after the lookup and before it stores (`Store`), while it cleans up after an interruption.
`OneLookup` says that two fibers look up one key only if the first was displaced (history: `displaced`)
by an invalidation, an eviction, `set` or an interruption; `SomebodyLooksUp` that whoever waits waits for
somebody; `InvalidatedIsGone` that what was in the map when its key was invalidated is not given to who
asks afterwards; `WithinCapacity` that the map outgrows its capacity only by keys no access brought.

`ScopedCache.tla` is `internal/scopedCache.ts`: a value is a resource with a count of owners, the cache
and each scope that holds it.  An operation is a step of the fiber (`Get`, `Again`, `Expired`, `Run`, ...) that says
what is to be released (`todo`); the cache gives those values up one after the other (`Clean`), and then the fiber goes
on (`after`).  The code gives each up in a fiber of its own, and at the close of the cache takes each
key out in one: their order is what is left out.  `HeldIsOpen`, `KeptIsOpen`, `NothingLeaks` relate the counts to who
really holds the value.  Two things the code does are excepted, and counted: a value that a fiber found
in the map and becomes an owner of after the last one had left (`late`), and one that the cache gave up
twice, by a refresh and by an invalidation that overtook it (`drops`).

Left out: statistics, the operations that only read, and hash order.

### Layer and LayerAlgebra

A layer is a tree of the primitive operations of `internal/layer.ts`; equal trees are one object, which
is what the MemoMap is keyed by.  `LayerAlgebra.tla` has the functions that make layers of layers.
`Layer.tla` builds a tree: a task per node, named by its path; parts in parallel are fibers of their own.
It has the memo map with a `Deferred`, a count of observers and a finalizer per entry, and the scopes
that are forked, extended and closed.  `BuiltOnce`: one allocation per layer and map.
`StaysWhileUsed`: what was handed to a task that is in use is not released.  `NothingLeaks`, `BuildEnds`.
Excepted: a user that is interrupted after it was counted and before its scope has the finalizer
(`lost`: the entry is never released), or after it put the entry in the map and before it builds it (the
others wait for ever); and a user that awaits an entry whose last owner closed meanwhile (`late`).

### Race, RaceAll and ForEachPar

`Race.tla`: `race`, `raceWith`, `raceAwait`, `raceFirst` and the timeouts.  A side is disconnected: a
child that joins a daemon (`Work`).  Either may end, be interrupted or fail before, while and after the
racing fiber looks.  `RaceDecides`: the result is that of a side that succeeded, with the other over or
told to stop, or both causes, left before right.  `RaceAll.tla`: an arbiter per child; the first that
sees a success interrupts the others, one by one.  `ForEachPar.tla`: `forEachParUnboundedDiscard` and
`forEachParN`: the workers, which are uninterruptible but for what they do in `restore`, the count and
the `Deferred`, and the fiber, which forks them, waits, tells them one by one and awaits them.
`ForEachSettles`: no element is begun twice; nobody is at an element when it returns; it succeeds only if
every element did; and otherwise the cause has every failure and none that there was not.  Two things the
code does not promise bound it.  A worker that was told, and whose element then fails where it cannot be
interrupted, runs none of its handlers, and `stripFailures` drops the failure (`FailLate`; a defect is
kept).  And the worker that completes the `Deferred` with the success ends after that, so that the
fiber may return, and inherit the refs of the worker, before it has ended (`Count`, `End`, `Return`).
Liveness (`LosersEnd`, `ForEachReturns`) is checked as `EverybodyEnds`.

### Requests and RequestPlans

`Requests.tla`: `fromRequest` with and without its cache, the block of requests, the child that runs it
and cannot be interrupted, the data source in a daemon, and the count of listeners by which it is
interrupted.  `StopsForNobody` is an action property: the source of a block is stopped only if nobody
waits for any of its requests.  `WaitsForSomebody`, `AnsweredForReal`: whoever waits has somebody to
answer, and an interruption is an answer only to who was interrupted or asked a source that left it
open.  `lost` has the requests of a source that died and of an owner that was interrupted before its block was
run.  `RequestPlans.tla` is which requests are run together and after which: `step`, `merge` and
`flatten` of `internal/blockedRequests.ts`, as functions of the block.

### Scheduler, FiberRefs, TestClock, ScopedRef, Metrics

`Scheduler.tla`: the buckets by priority and the schedulers of `Scheduler.ts`.  A task joins the last
bucket of a lower or equal priority, so that it may be overtaken by a later task of a lower number in
that bucket; `InOrder` says by nothing else.  `TimersHaveTheirTurn`: no more than
`maxNextTickBeforeTimer` microtasks in a row.  `FiberRuntime` lets any scheduled task run next, which
covers every order this module produces.

`FiberRefs.tla`: the stacks of `<<fiber, value>>` behind a fiber's refs, `forkAs`, `joinAs` with
`findAncestor`, updates, deletions and patches, for a ref whose changes replace, one whose changes add and
remove, and one that is not inherited.  `JoinMerges` compares a join with the difference since the fork.

`TestClock.tla`: sleepers, and a test that adjusts the clock by taking four snapshots of the fibers until
two agree.  `WokenOnTime` and `NoSleepMissed` are claimed of one tester: two adjustments at once may set
the clock back.  After `restore` the sleeps registered since `save` are lost, which is excepted too.

`ScopedRef.tla`: `set` acquires the new value, closes the scope of the old, then changes the ref, under
the one permit of a `Synchronized`; a reader takes none.  `ReadsWhatIsOpen` holds between two sets, not
during one.  An interruption after the close and before the change leaves a released value in the ref
and leaks the new scope (`lost`); and closing the ref takes no permit, so a set that is under way, or
comes later, leaks.  `Resource.auto` interrupts its daemon, and waits for it, before.

`Metrics.tla`: the hooks of `internal/metric/hook.ts`, the registry, and the metrics made of metrics.
`CountsEverything` compares each state with the list of all that was given to its key (history: `given`).

### Effects, EffectCombinators and EffectPrograms

An effect is a function from the fiber's world (trace of events, clock, flags, fiber refs, cells, and how many
operations are left until it is interrupted) to an exit and the next world.  `Op` is one turn of
the run loop: the interruption is looked at before the operation.  `Effects.tla` has the primitives of
`internal/core.ts` and what is made of them there, `EffectCombinators.tla` those of `internal/effect.ts`,
definition by definition, and what `internal/schedule.ts` repeats and retries, by the drivers of schedules.  A
callback is a function on TLC's `Any`, since it is handed an exit, a cause or a value; these modules are
for TLC only, and nothing is proved about them.

`EffectPrograms.tla` runs them.  The input is a program (a tree, `Depth` deep, of everything that acquires,
masks, handles and cleans up) and the operation at which the fiber is interrupted, for every one of
them; or a loop and the answers of its callback; or two ways of saying the same.

* `ReleasedInReverse`, `RegionsAreLeft`, `CleanupIsWhole`, `DefectsSurvive` and `MaskedIsUndisturbed`
  (`EffectsAreWhole`).  The last: what is `uninterruptible` does what it does without an interruption, and an
  interruption that is pending when it ends is added to the cause it fails with.  `interruptible` and
  `uninterruptible` fail inside the region they open, so that its end sees the cause; the masks fail after it.
* `LoopsAgree`: a loop asks its elements in order, none twice, up to the one that settles it.
* `DoneOnce`: `once` and `memoize` do not do it again after a failure.
* `WaysAgree`: combinators that stand for the same (a `tap` and a `zipLeft`, `ignore` and an `option`
  without its value, `orElseFail` and `firstSuccessOf`, ...) have the same events at the same times, the
  same exit and the same flags.  `ExitsAgree` and `SchedulesAgree` are the same for exits and
  schedules.  This is where an argument in the wrong place would show.

### Intervals, Schedules and ScheduleRuns

`Intervals.tla` has intervals and lists of disjoint ones, `Schedules.tla` the schedules and
their combinators as steps (state, input, time to state, output, decision).  `ScheduleRuns.tla` adds the
cron-like ones, on a calendar of small units (two seconds to a minute, months of 2 to 4 days), so that every
boundary is met, and steps them: `StartsAreExact` compares the algebra of intervals with sets of instants,
`RecursEveryTime` a calendar schedule with the instants that have the field, `RecursAsOften` and
`WaitsAsLong` say how often and when, `RunsAgain` what `repeat` and `retry` make of an effect whose
outcomes are given.

### Causes, CauseLaws and Configs

`Causes.tla` has the tree of `internal/cause.ts` and the exits of `core.ts`; `CauseLaws.tla` what they must
agree with: causes that say the same have one hash and (up to the order of what is parallel) are equal,
what strips, keeps and maps loses no defect, and several exits are one with every value or every cause.
`Configs.tla` is a config and how a provider loads it, with paths whose parts are names with an index and
texts that are pieces; its specification loads small configs from small providers: `DefaultsHideNothing`
(a default stands in for what is missing, never for what is malformed, and an error tells of all there
is to tell) and `ReadsWhatIsThere`.

## The runs

| Run | What it asks | Instance | Why it is enough |
|---|---|---|---|
| `fiber` | the stack machine and the mailbox protocol | two fibers, 3 and 2 operations of 12 kinds, one interruption from outside, forced yields | regions, finalizers and handlers nest and are met by success, failure and interruption; every pair of messages can meet in every place of a drain; each fiber can be parent, child, awaiter, interrupter |
| `fiber_trio` | liveness | three fibers, 2, 2 and 1 operations, one interruption, fairness | a grandchild or two children, of which one is uninterruptible or awaits another |
| `queue` | the queue and its refinement | three fibers, capacity 1 (back-pressure and dropping) and 2 (sliding), batches of 1 and 2, one interruption, one closer | two offers and two takers can be at different steps of one hand-over, at the limit of the capacity |
| `hub` | the hub and its refinement | three fibers (one publishes batches of 3, twice unless the hub slides or ends; one takes; one does either), two subscriptions that come and go, rings of 2, singles, lists, the strategies, one interruption, one shutdown | 3 messages overflow a ring of 2 whatever was there; indices wrap; two takers share a subscription or have one each |
| `scopes` | a close that meets adds, forks, other closes and an interruption | three scopes, forked from the root in any shape, two finalizers, sequential and parallel | a scope with two finalizers, one with a finalizer and a child, a chain of three; each add before, in and after a close |
| `sharing` | pools, caches, the test clock, requests, scoped references, schedulers, fiber refs, metrics | pools of 1 and of 1 to 2 with two users; two fibers and two keys in a cache of one place, an interruption, an expiry; two sleepers and a tester; two clients, two keys, one of them shared, with an event of the data source or one that may die; two setters; four tasks of three priorities; three fibers with two changes; three updates of each kind of metric | see below |
| `combinators` | semaphores, races, `raceAll`, `forEach`, layers with fairness; programs, schedules, configs, causes and plans as inputs | three fibers and 1 or 2 permits; two sides; three effects of which one cannot be interrupted; three elements with no bound and two workers; eleven layers; programs of depth 2, loops over up to 3 elements | see below |
| `queue_two_shutdowns` | `shutdown` as documented | two closers and a taker | a finding |
| `hub_publish_all` | `publishAll`'s answer as documented | a dropping ring of 2, batches of 2 | a finding |
| `hub_single` | a sliding hub of capacity 1 as documented | two subscriptions, one publisher, two operations each | a finding |
| `pool_empty` | `getAndShutdown` as its comment has it | the pools of `sharing` (`PoolSpec`) | a finding |
| `requests_unanswered` | what a data source owes a query, as documented | the clients of `sharing` and a source that may die (`RequestsSpec`) | a finding |

Every bound is a constant: `Fuel` and `Ops` (how many operations of which kind), `MaxInterrupts`,
`Queues`, `Setups` (of a hub), `Batches`, `Asked`, `Permits`, `MaxSent` of the abstract channel; `Scope`,
`Finalizer` and `Limits`; `Pools`, `Gets`, `Attempt`, `MaxInvalidated` and `MaxCuts`; `MaxValues`,
`MaxExpired`, `MaxFailures` of the caches; `MaxHandles` and `MaxEvents` of requests; `MaxSets`, `MaxTasks`,
`MaxChanges`, `MaxUpdates`, `MaxTime`; `MayInterrupt`; `Depth`, `MaxLeft`, `MaxElements`, `MaxRuns`.  Deadlock is not
checked: fuel runs out and programs end.

Why the instances of the two sums are enough.  *Pool*: with `initialize`, a strategy and a shutdown five
fibers meet; one user waits while the other holds, replaces or fails.  *Cache*: with one place each second
key evicts; one fiber does two operations, so that a lookup of the other begins before, and ends after, an
invalidation.  *TestClock*: two sleeps due at one time, at two, and one registered during an adjustment.
*Requests*: a shared key whose first client leaves, in a block with one that is not shared; a source that dies
needs no other event to leave requests open, so that its part has none (`MaxEvents` 0).  The users of the pool, the
sleepers of the clock that is saved, the keys of the caches and the items of the sets that fibers inherit are model
values that nothing tells apart, and states that only exchange them are one (`SYMMETRY`);
none of the run's properties is about liveness.  *Semaphore*: two waiters and a
holder are what makes the loop skip one.  *RaceAll*: the second of three ends late, so that the third is interrupted
after it.  *ForEachPar*: two workers and a third element that either may take, or three workers, in a region
that is masked or not, and an interruption (`MayInterrupt`) at any time.  *Layer*: what is shared
is shared in parallel, in sequence, through a dependency and with a failing sibling that has a second
attempt.  *Programs*: two combinators in each other with an interruption at each of up to 20 operations.
`RunsEveryRequest`: blocks of up to four requests, all shapes.

### Fairness

`fiber_trio`: weak fairness of each step of the fiber that has the thread (JavaScript runs a task
to its end) and strong fairness of `Run`.  Strong, because another fiber that takes the thread
disables a scheduled run; `Scheduler.ts` (`starveInternal`) takes all the tasks it has and runs each
of them, so one that is enabled again and again is run; `TasksRunInOrder` shows as much of it.
Nothing is assumed of the outside: an async may never be answered, which is why `InterruptedEnds`
excepts a fiber that waits uninterruptibly.

`combinators`: weak fairness of the wake-up task of a semaphore and of every fiber that is not suspended,
on the same ground, of an interruption that was told to a fiber (it ends), and of an effect of `raceAll` that
cannot be interrupted (it ends, as its name says: `Stubborn`).  As a behaviour is of one part, the
fairness of actions of different parts is one conjunct each: `Main`, `Aftermath`, `Nth(i)`.  No fairness
makes anybody take, interrupt or fail.  `EverybodyEnds` says more than that each one that waits is
served: when anybody waits, a time comes at which nobody does.  That holds because each fiber asks only
so often (`Fuel`), and it is the only thing the bound on the fuel adds.

## What is proved

Of the properties of the runs `fiber`, `scopes` and `queue`, TLAPS proves every one that is not liveness; of
`sharing` those of the pool, the caches and scoped references, and of `combinators` those of the semaphore and of `forEach` in parallel.

### The run loop: `FiberRuntimeProofs.tla`

For every set of fibers, every subset of the operations, every fuel and number of interruptions
(`FiberAssumption`: `NoFiber` is not a fiber, `Root` is one; `BoundAssumption`: the bounds have their
types).

* `TypeCorrect`: `Spec => []TypeOK`.  The inductive invariant is `TypeInv == TypeOK /\ InRange`:
  while the observers are called, `next` is an index of them.  Without `InRange` the step `Notify`
  could read outside the sequence.  The proof has a lemma per group of actions and lemmas on the
  helpers (`Tell`, `Mask`, `Initiate`, `UseRevert`, `Without`).
* `NoWakeupIsLost`: `NoLostWakeup` is not inductive as it stands: what makes it true is
  the flag `_running`.  `WakeInv` says that a fiber that does not have the thread and either has
  messages or is marked running has a run scheduled.  A `tell` to a fiber that is marked running
  schedules nothing, and is right to, because of `WakeInv`; the thread is released only by steps
  that unmark the fiber with an empty mailbox or schedule a run.
* `NeverResumedTwice` and `ExitStays`.  `TurnInv`: a fiber has one turn.  It is in its loop, or one
  `Resume` is in its mailbox, or it waits for one callback, the latest, that was not called; a
  `YieldNow` only stands before the `Resume` it was sent with.  `IdsInv` ties the ids in messages and
  observers to operations that were initiated, without which a callback could be called for an
  operation to come.  An exit is set by a loop that is active, and a fiber that has ended gets no turn.
* `InterruptedProgramsStop`.  `DoomInv`: an interrupted fiber whose flag is on is at a failure with
  the interruption, or above it in the stack are only yields.  `RootInv`: nothing happens before the
  root starts.
* `EndsProperly`, in three parts.  `CauseInv`: no effect, frame or message has a failure without a
  cause, which needs `DoomInv` where `stripFailures` takes the failures out.  `RegionInv`: the flags
  a fiber was born with, carried up its stack through the frames that revert them, are the flags it
  has, and a cleanup waits only where interruption is off.  `FinalInv`: a finalizer that was
  installed is in one frame of the stack, or ran, once.
* `NoAwaiterIsLost`.  `AwaitInv` is the property with the step it takes (`Knows`); `BlockInv` says that
  who blocks has initiated an operation.  The hard case is `setExitValue`, which walks over the
  observers while callbacks tell other fibers: an observer is in the mailbox, in the list, or ahead of
  `next`.
* `ChildrenEnd`.  `ChildInv`: a child that has not ended has a parent that is live and is about to
  adopt it, has it among its children, or awaits it on its way out.  That the parent does not leave the
  last state early takes most of the proof.  It is at a `Join`, and nothing on its stack above that may
  fail (`Joins`, `CalmEffect`), so that only an answer ends its wait; and an answer means that the
  child ended.  `CallInv` says so: `IdleInv` (who runs waits for nothing), `CalledInv` (only what was
  initiated was called), `NotifyInv` (only who ended calls its observers), `ResumeInv` (nobody is resumed
  with a join) and `ObserveInv` (only the fiber that is awaited has the observer).

### Scopes: `ScopesProofs.tla`

For every set of scopes and finalizers, however deep the forks and whatever the strategies
(`ScopeAssumption`: the root is a scope, a limit is at least one).

* `TypeCorrect`: `Spec => []TypeOK`.
* `FinalizersRunOnce` and `NothingIsLeftBehind`: `EachOnce` and `ClosedHasRun`.  The inductive
  invariant adds three facts.  `OneOrOther`: a map is not `Exited` and still has finalizers, nor
  `Running` with some to do.  `WaitsAtHome`: a finalizer that is in a map or to be done is in the scope
  it was added to and was not begun.  `NotForgotten`: one that was added and not begun is there, or
  its close was interrupted.  So beginning one takes it from the only place it could be begun from,
  and a scope with nothing to do has begun them all.
* `ScopesStayTidy`: `ScopesTidy`, that is `ReverseOrder` and `ChildrenTidy`.  `TidyInv` adds where a
  fork put things (`Placed`), that only an `Exited` scope runs anything (`Closed`), that what was begun has
  keys above what was not, one at a time where the scope is sequential (`Ordered`), that what is running is
  run by its scope or came too late for a key (`Keyed`), and the tie of a child to its parent (`Tied`):
  an open child is in its parent's map, or to be done there, or the parent's close was interrupted;
  a child that is in the map of its parent will take itself out when it is closed.

### Queues: `QueueProofs.tla`

For every set of fibers, whatever each may do, every fuel, capacity, strategy, batch, range of
`takeBetween` and number of interruptions (`QueueAssumption`: these have their types, a capacity and
a batch are at least one).

* `TypeCorrect` and `TakesBetween`.  `TypeInv` is `TypeOK` with three more.  `Balanced`: the queue is no
  longer than its capacity, putters wait on a full one and takers on an empty one without putters.
  `SurplusInv`: a surplus is the end of what its fiber offered last.  `LoopInv`: what `takeBetween` has,
  what remains and the limit of this round add up to what was asked for, from the call to the result.
  `SidesNeverBothWait` states `Balanced` for a reader.
* `AdmittedAsAWhole`.  `Filed`: who is among the takers or putters waits there and was not served, or
  has yet to clean up; each is there once, and a batch up to its last value.
* `SettlesAsTheLoops`: the recursive function `Loops` is `Settle`.  `Full(s)` is what there is to hand over
  at once; `RunTakers` and `RunSpace` are the answers of the two loops in terms of it, and satisfy the
  equation of `Loops` (`AnswersLoop`).  As each round serves a taker or lets an offer in, it makes
  `Ahead` (the lengths of the two waiting lists) smaller, so the equation has one solution: among the
  calls where two differ, one is least.
  `LoopState` is where the equation holds: with a taker in the list twice the loops do something else.
* `BatchesStayWhole`: `BatchesWhole`, from these.
* `NobodyIsForgotten` and `OneShutdownInterrupts` have the hypothesis `OneCloser`: one fiber at most
  may call `shutdown`.  Without it both are false of the code: `queue_two_shutdowns` is the
  counterexample.  `CloseInv`: who shuts down set the flag first.  `KnownInv`: who waits is among
  the takers or putters of an open queue, or a shutdown that has not passed that place will find it.
* `QueueIsChannel`: `Spec => ImplementsChannel`, with a lemma per action that gives the step of the
  channel.  What settling gives out, keeps inside and leaves outside are three parts of what there was
  (`Flows`), so that a hand-over is a `Pass`; an interrupted offer is a `Withdraw`.  `SentsInv` and `SeenOK`
  bound the numbers of the values that were seen by what was offered, so that a batch is new.

### Semaphores: `SemaphoreProofs.tla`

For every finite set of fibers, number of permits, fuel and number of interruptions
(`SemaphoreAssumption`, which is a hypothesis of each theorem: the module is instantiated, not extended).

* `TypeCorrect`: `Spec => []TypeOK`, which says that no more permits are taken than there are, and none is
  given back that was not taken.
* `PermitsStayAccounted`: what is not free is held by a fiber that will release it, or was given to one that
  was interrupted before it could run.  The inductive invariant adds that who waits waits once and holds
  nothing (`Queued`).  Two things have to be shown to be defined before anything can be said of a
  wake-up: the sum over a set, which the library folds with whatever `CHOOSE` picks first (`FoldsExist`,
  `FoldsAgree`; `SumInsert`, `SumRemove` and `SumUnion` say that the order makes no difference), and the
  walk over a list that shrinks under it (`WokenDefined`: each place it visits is nearer to the end).  `Walked` is
  the loop's invariant: who waited is still there or was woken, and the permits taken are those of
  the woken.  It says nothing of who is skipped, and need not.
* `UpdatesStaySerialized`: with one permit no update overwrites another.  What a fiber read is still in
  the ref when it writes (`Serialized`), as nobody else holds a permit then (`OneHolder`), which follows from the
  sum: two holders with a permit each are more than there are (`Asked`).

The run `combinators` checks the three as one, `PermitsAccounted` of `MCCombinators`.

### Pools: `PoolProofs.tla`

For every finite set of users, minimum and maximum, and every number of gets, invalidations and
interrupted releases (`PoolAssumption`, a hypothesis of each theorem as above; what it asks of `Attempt` is that
there is a name for each attempt a pool may have).

* `TypeCorrect`: with it, that no pool is larger than its maximum.
* `NumbersStayRight`: `Accounted`.  `Step` sorts the places a fiber can be in by what they count for (an attempt or the
  place of one, one that is being brought, one that is claimed, nothing) and says how the numbers must change
  between them; most actions are one line from that (`StepKeeps`).  The others move an attempt: into the
  queue, out of it, or from the fiber that offers to the one that waits, where two fibers go on at
  once (`CountBoth`).  That works because who waits is there to take, once, and the queue is empty then
  (`TakersWait`).
* `LentOnceOnly`: `LentOnce`, for which an attempt that is held is held where `HoldersHave` says.
* `ItemsStayAccounted`: all that the run `sharing` checks of the pool, so `KeepsItsSize` and `ShutdownGoesOn` too.
  These are about who has yet to act, and have an invariant of their own, `Fixed`: nothing is shut down before the
  shutdown (`Before`); a pool of fixed size never shrinks and, until then, lacks no more items than `initialize`
  has left to make (`Grows`); in the shutdown somebody is always about to find that the pool is empty if
  it is (`FindsItEmpty`), and that an item is free if one is (`FindsItFree`), and who found it empty says so
  (`Found`).  If everybody rested the pool would have no item that is free, so none at all, and then
  somebody would be about to find that.

### Caches: `CacheProofs.tla`

For every set of fibers and of keys, every capacity, and every number of values, expiries and interruptions
(`CacheAssumption`, a hypothesis of each theorem: the module is instantiated, not extended).

* `TypeCorrect`, which says of the map what its values have in common: a lookup belongs to one key, and a key's
  value is the one it is found by.
* `LooksUpOnce`: `OneLookup`.  That two fibers do not look up one key follows from where the lookup of each is
  (`LookupsPlaced`): in the map, at the key it is for, or displaced.  So an action has to say what it takes out of the map, and
  for whom; `Changes` is that, of an access as of an invalidation, and `PlacesKept` shows once that it is enough.
* `NobodyWaitsInVain`: `SomebodyLooksUp`.  It is about who waits, but its invariant `PromisesKept` is about all
  promises: whoever finds one in the map may begin to wait for it.
* `ForgetsInvalidated`: `InvalidatedIsGone`.  What is gone must neither be in the map nor come back into it
  (`GoneApart`): not by a refresh that kept the old value, nor by a lookup that was under way.  This needs that a
  value is stored for one key only and never before its lookup has ended (`StoredApart`), so that a lookup that
  is under way is not gone; and that what a fiber saw in the map is not gone unless it began before.
* `KeepsToCapacity`: `WithinCapacity`.  The keys that an access brought are all in the `KeySet` (`AccessesTracked`),
  so that the loop of `trackAccess` can evict them, and it ends when there are no more than the capacity or it has
  nothing left.  `EvictionsRight` (where it ends; `LeastOf`, that there is a first such place) and `AddedRight` (a key that
  is moved to the end takes no other away) are the lemmas about the operators.

The run `sharing` checks them as `OneLookup` and `InvalidatedIsGone` of `MCSharing`.

### Scoped caches and references: `ScopedProofs.tla`

Scoped caches, for every finite set of fibers, every set of keys, every capacity, and every number of lookups, expiries, failures and
interruptions (`ScopedCacheAssumption`, a hypothesis of each theorem).  The fibers are finitely many because owners
are counted.

* `TypeCorrect`: `Spec => []TypeOK`.
* `HeldStaysOpen`: `HeldIsOpen`.  What a fiber may rely on is its place in the count.  `OwnersCounted` says that the
  count is one for the cache, and one for each fiber that uses the value, less how often the cache gave it up; that
  the scope was closed if the count is no longer positive; and that one that was closed has a count that is not, or
  somebody came late.  So a value that was given up once at most, and is used, has a count of one at least.
* `KeptStaysOpen`: `KeptIsOpen`.  A closed scope was given up, by the same invariant.
* `NothingLeaksAway`: `NothingLeaks`.  A value of which the cache is an owner is in the map, or some fiber has still
  to release it.  This is `NothingForgotten`, and it is inductive only with a third place: a result that is put in the map
  (`Publish`) takes the place of a value that no fiber has to release yet.  It is the fiber that made the lookup who is
  going to, once it has run again, and until then it owes it (`Owed`).

All four need that what the map has, and what a fiber is at, is a lookup that was promised or a value that was found
(`MapRight`, `FibersRight`), so that no fresh lookup is one of them, and that one fiber makes a lookup.  Most actions do
the same to the counts, which is nothing: `Turn` says what such an action does, `TurnKeeps` shows once that this is enough, and
a lemma for each of them shows that it is a turn.  `EvictedRight`, `AddedRight`, `SetToSeqRight` (a set as a sequence has
its elements, and each somewhere) and `ToCleanRight` are the lemmas about the operators.

Scoped references, for every set of setters and every number of sets and interruptions (`ScopedRefAssumption`).

* `ReleasesOldValues`: `ReleasesTheOld`.  A scope that is open is the reference's or that of the setter that has the permit
  (`Accounted`).  When the reference changes the scope it had is closed by then (`SetsAreWhole`), and only one setter is
  between the two (`OneSets`).  The finalizer of the reference has no permit and closes the scope it read before: if that is
  not the reference's any more, what it was set to meanwhile is lost, which is the case the property excepts.
* `ReadersSeeOpenValues`: `ReadsWhatIsOpen`.  As long as nobody closes the reference, the value it has is open unless a setter
  is between closing it and changing the reference, or was interrupted there.

The run `sharing` checks all of them in `ResourcesFollowOwners` of `MCSharing`.

### Parallel `forEach`: `ForEachParProofs.tla`

For every number of elements and every bound that makes more than one worker (`ForEachAssumption`, a hypothesis of each
theorem).

* `TypeCorrect`: `Spec => []TypeOK`.
* `ForEachSettlesRight`: `ForEachSettles`.  The workers count those that succeed; the one that finds itself the
  last completes the `Deferred` and does not count itself, one that fails does not count.  `Counted` says that
  as long as nobody has completed it, the count is the number of those that were counted (`CountedOnes`), and that
  they are not all (`OneMore`: one more than that is as many as there are workers only if it is all of them).
  From `deferred = "done"` it follows that every worker is past its count, in success, and then, since the iterator is
  empty or each has had its element (`WorkersGoOn`, `TakenOnce`), that every element was done once.  A worker
  that is still at something was not counted, so that nothing is decided yet (`NotYetOver`).  `FailuresKept` says
  that a failure is in the exit of a worker, unless it is late, and that a late one leaves an exit that is no
  success; `DecidedRight` carries both to the cause, however failures and the interruption of the caller
  fall together.

The run `combinators` checks it in `CombinedAsOne` of `MCCombinators`, with that it returns, which is liveness.

### What stays with TLC

Liveness and `ENABLED` are out of the prover's reach (`InterruptedEnds`, `ExitReachesAwaiters`,
`EverybodyEnds`).  Effects, causes, configs, plans and layers are trees, and what is said of them compares
two recursions over them: `Causes` and the modules above it declare RECURSIVE operators or need induction
over data.  `Hub` hands messages over in three loops that call each other (RECURSIVE, and without the closed form
that `Queue` has for its two) and folds over what is published.  `TestClock`, `Requests`,
`Scheduler` and `FiberRefs`, `Race`, `RaceAll` and `Layer` are only model-checked, on the instances of the two sums.

## Findings

`queue_two_shutdowns`: `shutdown` polls the takers into a local collection, then completes the
hook, and interrupts them only if it was the one that completed it (`internal/queue.ts`, lines
96-107).  If it is made to yield after the poll, a second shutdown runs as a whole, completes the
hook and finds no takers; the first then finds the hook done and interrupts nobody: the taker stays
suspended for ever.  `Queue.ts:165` says "Interrupts any fibers that are suspended on `offer` or
`take`."  The shutdown of a hub's subscription has the same shape (`internal/hub.ts:859`).

`hub_publish_all`: `publishAll` of both rings returns `drop(iteratorIndex - 1)` of its messages as
the surplus, one too many (`internal/hub.ts:249` and `415`).  A dropping hub with room for all the
messages stores them all and answers false, where `Hub.ts:26` promises "whether they were published
to the hub"; with the other strategies the last one that fitted is published a second time.

`hub_single`: a subscription of `BoundedHubSingle` counts its own polls and never catches up with
the hub past a message that slid away.  It then takes the newest message twice, and with it the
reference of another subscription, which never gets it (`internal/hub.ts:603`).  `Hub.ts:63`: "The
hub will add new messages and drop old messages if the hub is at capacity."

`pool_empty`: a pool that becomes empty by the release of a failed attempt (`internal/pool.ts:219`), of
an invalid item (293) or by `shrink` (373), after its shutdown found the last item in use, is never
signalled: closing its scope never ends.  The comment at line 299: "Gets items from the pool and
shuts them down as long as there are items free, signalling shutdown of the pool if the pool is
empty."

`requests_unanswered`: the fiber that runs a block of requests observes the daemon of the data source
with a callback that calls `cleanup` (`internal/fiberRuntime.ts:3260`), a `const` that is initialised
after it (3263).  If the data source has ended by then, which takes one yield in between, the callback is called
at once and throws, the fiber dies, and what the source left open is not completed: the query waits for
ever.  A source that dies later leaves its requests open as well: only an exit that succeeds is followed
by what completes the rest.  `RequestResolver.ts:44`: "Data sources must provide results for all requests received.
Failure to do so will cause a query to die with a `QueryFailure` when run."

### Where a document says otherwise, and no run is spent on it

Each is a definition with the quote in its comment ("The code does not: see the README").

* `ScopedCache.UsersFirst` (`ScopedCache.ts:81`): a fiber that found a value in the map and becomes an
  owner after the count reached zero holds a resource that was released.
* `EffectPrograms.MapAccumMapsElements` (`Effect.ts:2091`): `mapAccum` builds its effects in a loop over the
  iterator and reads `next.value` when they run, after the loop, so that the callback is handed
  undefined in place of every element (`internal/effect.ts`, 1064-1068).
* `ScheduleRuns.UnionHasAll` (`Schedule/Intervals.ts:56`): an interval of a union is cut off where the
  next one of the other list begins.  (The union of two intervals itself gives none exactly when there is an overlap.)
* `ScheduleRuns.RecursOnTheDay` (`Schedule.ts:397`): `dayOfMonth` in a month without that day recurs on
  a day of the next month.
* `ScheduleRuns.RetriesNTimes` (`Effect.ts:1690`): `retryN(n)` retries once more than n times.
* `Configs.NestsEverything` (`Config/Provider.ts:224`): `nested` hands on `split` as always true
  (`internal/configProvider.ts:459`), so that a text with a delimiter in it reads differently under a nested provider.
* `Metrics.SummaryHasAll` (`internal/metric/hook.ts:179`): the snapshot of a full ring leaves out its
  last place.
* `RequestPlans.SequenceIsKept` (`internal/blockedRequests.ts:33`): a request that is put in sequence
  after a parallel block is run once for each part of the block, after that part only.
* `Pool.NeverBelowMinimum` (`internal/pool.ts:360`): see Pool.

### Met while modelling, with no text to hold it against

* `SlidingStrategy` of a queue drops old values in a loop that may slide more than the surplus needs.
* A task that throws leaves `running` of the mixed scheduler true for good.
* `equals` of causes looks at the order of what is parallel, `hash` does not.
* `forEachBatchedDiscard` swallows a failure if nothing is blocked.
* `memoize` keeps an interruption as its result.  An `uninterruptibleMask` with an interruption pending ends
  with that, without the cause its body failed with.
* `raceAll` interrupts the losers one after the other, so one that cannot be interrupted delays the rest.
  A worker of a parallel `forEach` that somebody else interrupts leaves its `Deferred` open for ever.
  A failure of one that `forEach` has interrupted itself may be lost: see Race, RaceAll and ForEachPar.
* A client that waits for a cached request and is interrupted goes on being counted as a listener; a
  request whose owner is interrupted before its block is run is never completed.
* `missingError` of a provider returns a function, `Config.all` of an array hands on the array itself.
* The largest value of a summary or histogram starts at `Number.MIN_VALUE`, which is positive, and
  `maxAge` is compared with an object; `Metrics` takes the former as 0 and the latter as meant.

## Plan

What could be proved next, of the components that are only model-checked.  In this order:

1. `Scheduler`: `NoTaskIsLost`, `TimersHaveTheirTurn`; `TestClock`: `WokenOnTime`; `Race`: `RaceDecides`.
2. `Hub`: a closed form of the hand-over loops, as `Settle` is for the queue, then `PlacesAccounted` for the ring and
   the list, and the step simulation of `Topic`.

## Not modelled

* *Supervisor*, *Logger*, *Tracer*: called from the run loop, never consulted.  *Clock*, *Random* and the
  default services: wrappers of the host's.  Public modules (`Effect.ts` and the like): typed re-exports, read for
  what they promise.
* *KeyedPool*, *Reloadable*: a map of pools, and a `ScopedRef` behind a layer.  *SubscriptionRef*: a
  `Synchronized` and a hub.
* Of *Effect combinators*: cached values with a time to live, promises and generators as objects of the host,
  logging and spans beyond what nests.  Of *Fiber*: composite and synthetic fibers.
* Of *Config*: how numbers, dates and log levels are written, beyond a text that is one or is not.
* Unbounded queues are bounded ones that are never full.
* Float arithmetic: metrics and schedules have integers.

The model check of the interaction of components is by what each of them shows of itself (see "How the
parts are put together"), not of their product, which is out of TLC's reach.
