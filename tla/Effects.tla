------------------------------- MODULE Effects -------------------------------
(***************************************************************************)
(* Effects of one fiber, as what the run loop makes of them: the primitives *)
(* of src/internal/core.ts and what is made of them there, with fiber refs  *)
(* and Refs.  An effect is a function that takes the fiber from one world   *)
(* to another and gives an exit.  A world has                               *)
(*   trace   the events of the program so far,                             *)
(*   now     the time of the clock,                                        *)
(*   left    how many more operations the fiber does before it is told     *)
(*           that it is interrupted, or Never,                             *)
(*   flags   the runtime flags,                                            *)
(*   refs    the values of the fiber refs that are not at their initial     *)
(*           value, and                                                    *)
(*   cells   the values of the Refs.                                       *)
(* FiberRuntime has the run loop itself, with the stack and the queue that  *)
(* are abstracted here, and the other fibers.                              *)
(***************************************************************************)
EXTENDS Integers, Sequences, SequencesExt, FiniteSets, TLC

Cause == INSTANCE Causes

None                       == Cause!None
Some(x)                    == Cause!Some(x)
isSome(o)                  == Cause!isSome(o)
getOrElse(option, default) == IF isSome(option) THEN option.value ELSE default

Never            == -1
void             == "void"
InterruptedCause == Cause!interrupt("parent")

Result(exit, w)       == [exit |-> exit, world |-> w]
interruptible_(flags) == "Interruption" \in flags /\ "WindDown" \notin flags
isInterrupted(w)      == w.left = 0
Stopped(w)            == interruptible_(w.flags) /\ isInterrupted(w)
Ticked(w)             == [w EXCEPT !.left = IF @ > 0 THEN @ - 1 ELSE @]

\* One turn of the run loop: what has come in the queue, and then the operation.
Op(do) ==
  [w \in Any |-> LET v == Ticked(w) IN
     IF Stopped(v) THEN Result(Cause!exitFailCause(InterruptedCause), v) ELSE do[v]]
----------------------------------------------------------------------------
(* The primitives.                                                         *)

done(exit)       == Op([w \in Any |-> Result(exit, w)])
succeed(value)   == done(Cause!exitSucceed(value))
failCause(cause) == done(Cause!exitFailCause(cause))
sync(value)      == Op([w \in Any |-> Result(Cause!exitSucceed(value), w)])
\* The same as functions, where one is handed over.
doing            == [e \in Any |-> done(e)]
succeeding       == [a \in Any |-> succeed(a)]
failing          == [c \in Any |-> failCause(c)]

\* An effect of the program that does nothing else than to be seen.
event(name) == Op([w \in Any |-> Result(Cause!exitSucceed(void), [w EXCEPT !.trace = Append(@, name)])])

withFiberRuntime(f) == Op([w \in Any |-> f[w][w]])

flatMap(self, f) ==
  Op([w \in Any |-> LET r == self[w] IN
       IF Cause!exitIsSuccess(r.exit) THEN f[r.exit.value][r.world] ELSE r])

\* A fiber that is interrupted, and can be, has no handlers.
matchCauseEffect(self, onFailure, onSuccess) ==
  Op([w \in Any |-> LET r == self[w] IN
       CASE Cause!exitIsSuccess(r.exit) -> onSuccess[r.exit.value][r.world]
         [] Stopped(r.world) ->
              Result(Cause!exitFailCause(Cause!stripFailures(r.exit.cause)), r.world)
         [] OTHER -> onFailure[r.exit.cause][r.world]])

catchAllCause(self, f) == matchCauseEffect(self, f, succeeding)
flatMapStep(self, f) ==
  matchCauseEffect(self, [c \in Any |-> f[Cause!exitFailCause(c)]], [a \in Any |-> f[Cause!exitSucceed(a)]])
step(self) == flatMapStep(self, succeeding)

\* OP_WHILE.  The loop's own variables are its state, which is what it gives.
whileLoop(init, while, body, next) ==
  LET RECURSIVE go(_, _)
      go(s, w) ==
        IF ~while[s] THEN Result(Cause!exitSucceed(s), w)
        ELSE LET r == body[s][w] IN
             IF Cause!exitIsSuccess(r.exit) THEN go(next[s, r.exit.value], r.world) ELSE r
  IN Op([w \in Any |-> go(init, w)])

\* An asynchronous operation that is resumed with an effect after `turns`.
async(turns, effect) ==
  Op([w \in Any |->
       IF w.left \in 0..turns /\ interruptible_(w.flags)
       THEN Result(Cause!exitFailCause(InterruptedCause), [w EXCEPT !.left = 0])
       ELSE effect[[w EXCEPT !.left = IF @ = Never THEN Never ELSE IF @ > turns THEN @ - turns ELSE 0]]])

\* Mutant of Reverted: a failure leaves the flags as they are.
RevertedBySuccess(r, before) ==
  IF Cause!exitIsSuccess(r.exit) THEN [r.world EXCEPT !.flags = before] ELSE r.world

\* The flags a region changed are changed back by its end.
Reverted(r, before) == [r.world EXCEPT !.flags = before]

\* OP_UPDATE_RUNTIME_FLAGS and OP_REVERT_FLAGS.
withFlags(enabled, disabled, f) ==
  Op([w \in Any |->
       LET new == (w.flags \cup enabled) \ disabled IN
       IF interruptible_(new) /\ isInterrupted(w)
       THEN Result(Cause!exitFailCause(InterruptedCause), w)
       ELSE LET r    == f[w.flags][[w EXCEPT !.flags = new]]
                back == Reverted(r, w.flags) IN
            CASE Stopped(back) /\ Cause!exitIsSuccess(r.exit) ->
                   Result(Cause!exitFailCause(InterruptedCause), back)
              [] Stopped(back) /\ ~Cause!exitIsSuccess(r.exit) ->
                   Result(Cause!exitFailCause(Cause!sequential(r.exit.cause, InterruptedCause)), back)
              [] OTHER -> Result(r.exit, back)])

withRuntimeFlags(self, enabled, disabled) == withFlags(enabled, disabled, [old \in Any |-> self])
runtimeFlags == withFiberRuntime([w \in Any |-> succeed(w.flags)])
----------------------------------------------------------------------------
(* Interruption.                                                           *)

interruptible(self)   == withRuntimeFlags(flatMapStep(self, doing), {"Interruption"}, {})
uninterruptible(self) == withRuntimeFlags(flatMapStep(self, doing), {}, {"Interruption"})

\* restore, of a mask that was entered with the flags old.
restored(old, self) == IF "Interruption" \in old THEN interruptible(self) ELSE uninterruptible(self)

uninterruptibleMask(f) ==
  flatMap(withFlags({}, {"Interruption"}, [old \in Any |-> step(f[old])]), doing)
interruptibleMask(f) ==
  flatMap(withFlags({"Interruption"}, {}, [old \in Any |-> step(f[old])]), doing)

checkInterruptible(f) == withFiberRuntime([w \in Any |-> f["Interruption" \in w.flags]])
fiberIdWith(f)        == withFiberRuntime([w \in Any |-> f["self"]])
fiberId               == fiberIdWith(succeeding)
interruptWith(id)     == failCause(Cause!interrupt(id))
interrupt             == flatMap(fiberId, [x \in Any |-> interruptWith(x)])
----------------------------------------------------------------------------
(* What is made of them.                                                   *)

as(self, value)             == flatMap(self, [a \in Any |-> succeed(value)])
asUnit(self)                == as(self, void)
unit                        == succeed(void)
suspend(effect)             == flatMap(sync(void), [v \in Any |-> effect])
map(self, f)                == flatMap(self, [a \in Any |-> sync(f[a])])
flatten(self)               == flatMap(self, [e \in Any |-> e])
tap(self, f)                == flatMap(self, [a \in Any |-> as(f[a], a)])
zip(self, that)             == flatMap(self, [a \in Any |-> map(that, [b \in Any |-> <<a, b>>])])
zipFlatten(self, that)      == flatMap(self, [a \in Any |-> map(that, [b \in Any |-> Append(a, b)])])
zipLeft(self, that)         == flatMap(self, [a \in Any |-> as(that, a)])
zipRight(self, that)        == flatMap(self, [a \in Any |-> that])
zipWith(self, that, f)      == flatMap(self, [a \in Any |-> map(that, [b \in Any |-> f[a, b]])])
if_(self, onTrue, onFalse)  == flatMap(self, [b \in Any |-> IF b THEN onTrue ELSE onFalse])
whenEffect(self, predicate) ==
  flatMap(predicate, [b \in Any |-> IF b THEN map(self, [a \in Any |-> Some(a)]) ELSE succeed(None)])

failCauseSync(cause) == flatMap(sync(cause), failing)
fail(error)          == failCause(Cause!fail(error))
failSync(error)      == failCauseSync(Cause!fail(error))
die(defect)          == failCause(Cause!die(defect))
dieSync(defect)      == failCauseSync(Cause!die(defect))
dieMessage(message)  == failCauseSync(Cause!die([tag |-> "RuntimeException", value |-> message]))

matchCause(self, onFailure, onSuccess) ==
  matchCauseEffect(self, [c \in Any |-> succeed(onFailure[c])], [a \in Any |-> succeed(onSuccess[a])])
exit(self) == matchCause(self, Cause!toFailure, Cause!toSuccess)

\* A cause with a defect is not a failure that can be handled.
matchEffect(self, onFailure, onSuccess) ==
  matchCauseEffect(self,
    [c \in Any |-> CASE Cause!defects(c) # <<>>  -> failCause(Cause!electFailures(c))
                 [] Cause!defects(c) = <<>> /\ Cause!failures(c) # <<>> ->
                      onFailure[Head(Cause!failures(c))]
                 [] OTHER -> failCause(c)],
    onSuccess)

\* ... but one that only has interruptions is.
attemptOrElse(self, that, onSuccess) ==
  matchCauseEffect(self,
    [c \in Any |-> IF Cause!defects(c) # <<>> THEN failCause(Cause!keepDefectsAndElectFailures(c).value)
               ELSE that],
    onSuccess)

catchAll(self, f) == matchEffect(self, f, succeeding)
either(self)      == matchEffect(self, [e \in Any |-> succeed([tag |-> "Left", value |-> e])],
                                          [a \in Any |-> succeed([tag |-> "Right", value |-> a])])
flip(self)           == matchEffect(self, succeeding, [a \in Any |-> fail(a)])
mapBoth(self, onFailure, onSuccess) ==
  matchEffect(self, [e \in Any |-> failSync(onFailure[e])], [a \in Any |-> sync(onSuccess[a])])
orElse(self, that) == attemptOrElse(self, that, succeeding)
orDieWith(self, f) == matchEffect(self, [e \in Any |-> die(f[e])], succeeding)
orDie(self)        == orDieWith(self, [e \in Any |-> e])

\* failureOrCause, and what follows either.
onLeft(self, handle) ==
  matchCauseEffect(self,
    [c \in Any |-> LET e == Cause!failureOrCause(c) IN
               IF e.tag = "Left" THEN handle[e.value, c] ELSE failCause(e.value)],
    succeeding)
catchSome(self, pf) == onLeft(self, [e, c \in Any |-> getOrElse(pf[e], failCause(c))])
mapError(self, f)   == onLeft(self, [e, c \in Any |-> failSync(f[e])])
----------------------------------------------------------------------------
(* Finalizers.                                                             *)

acquireUseRelease(acquire, use, release) ==
  uninterruptibleMask([old \in Any |->
    flatMap(acquire, [a \in Any |->
      flatMap(exit(suspend(restored(old, use[a]))), [used \in Any |->
        matchCauseEffect(suspend(release[a, used]),
          [c \in Any |-> IF Cause!exitIsFailure(used) THEN failCause(Cause!parallel(used.cause, c))
                     ELSE failCause(c)],
          [x \in Any |-> done(used)])])])])

onExit(self, cleanup) ==
  uninterruptibleMask([old \in Any |->
    matchCauseEffect(restored(old, self),
      [c1 \in Any |-> matchCauseEffect(cleanup[Cause!exitFailCause(c1)],
                    [c2 \in Any |-> failCause(Cause!sequential(c1, c2))], [x \in Any |-> failCause(c1)])],
      [a \in Any |-> zipRight(cleanup[Cause!exitSucceed(a)], succeed(a))])])

onError(self, cleanup) ==
  onExit(self, [e \in Any |-> IF Cause!exitIsSuccess(e) THEN unit ELSE cleanup[e.cause]])
onInterrupt(self, cleanup) ==
  onExit(self, [e \in Any |-> IF Cause!exitIsFailure(e) /\ Cause!isInterruptedOnly(e.cause)
                          THEN asUnit(cleanup[Cause!interruptors(e.cause)]) ELSE unit])

asyncInterrupt(turns, effect, canceler) ==
  suspend(onInterrupt(async(turns, effect), [ids \in Any |-> canceler]))
asyncInterruptEither(registered, turns, effect) ==
  suspend(onInterrupt(
    IF registered.tag = "Right" THEN async(0, registered.value) ELSE async(turns, effect),
    [ids \in Any |-> IF registered.tag = "Left" THEN registered.value ELSE unit]))
----------------------------------------------------------------------------
(* One after the other.                                                    *)

forEachSequential(elements, f) ==
  suspend(whileLoop(<<>>, [ret \in Any |-> Len(ret) < Len(elements)],
                    [ret \in Any |-> f[elements[Len(ret) + 1], Len(ret)]], [x, y \in Any |-> Append(x, y)]))
forEachSequentialDiscard(elements, f) == asUnit(forEachSequential(elements, f))

partitionMap(elements, f) ==
  LET both == [i \in DOMAIN elements |-> f[elements[i]]]
      of(tag) == LET kept == SelectSeq(both, LAMBDA e : e.tag = tag)
                 IN [i \in DOMAIN kept |-> kept[i].value]
  IN <<of("Left"), of("Right")>>
----------------------------------------------------------------------------
(* Fiber refs.  A ref is [name, initial]; in `refs` are those that are set. *)

getFiberRef(w, ref) == IF ref.name \in DOMAIN w.refs THEN w.refs[ref.name] ELSE ref.initial
SetRef(refs, name, value) ==
  [r \in DOMAIN refs \cup {name} |-> IF r = name THEN value ELSE refs[r]]

fiberRefModify(ref, f) ==
  Op([w \in Any |-> LET r == f[getFiberRef(w, ref)] IN
       succeed(r[1])[[w EXCEPT !.refs = SetRef(@, ref.name, r[2])]]])
fiberRefDelete(ref) ==
  Op([w \in Any |-> unit[[w EXCEPT !.refs = [r \in DOMAIN @ \ {ref.name} |-> @[r]]]]])

fiberRefGet(ref)                  == fiberRefModify(ref, [a \in Any |-> <<a, a>>])
fiberRefGetAndSet(ref, value)     == fiberRefModify(ref, [v \in Any |-> <<v, value>>])
fiberRefGetAndUpdate(ref, f)      == fiberRefModify(ref, [v \in Any |-> <<v, f[v]>>])
fiberRefGetAndUpdateSome(ref, pf) == fiberRefModify(ref, [v \in Any |-> <<v, getOrElse(pf[v], v)>>])
fiberRefGetWith(ref, f)           == flatMap(fiberRefGet(ref), f)
fiberRefSet(ref, value)           == fiberRefModify(ref, [v \in Any |-> <<void, value>>])
fiberRefReset(ref)                == fiberRefSet(ref, ref.initial)
fiberRefModifySome(ref, def, f)   == fiberRefModify(ref, [v \in Any |-> getOrElse(f[v], <<def, v>>)])
fiberRefUpdate(ref, f)            == fiberRefModify(ref, [v \in Any |-> <<void, f[v]>>])
fiberRefUpdateSome(ref, pf)       == fiberRefModify(ref, [v \in Any |-> <<void, getOrElse(pf[v], v)>>])
fiberRefUpdateAndGet(ref, f)      == fiberRefModify(ref, [v \in Any |-> <<f[v], f[v]>>])
fiberRefUpdateSomeAndGet(ref, pf) ==
  fiberRefModify(ref, [v \in Any |-> <<getOrElse(pf[v], v), getOrElse(pf[v], v)>>])

fiberRefLocally(use, ref, value) ==
  flatMap(acquireUseRelease(zipLeft(fiberRefGet(ref), fiberRefSet(ref, value)),
                            [a \in Any |-> step(use)], [old, e \in Any |-> fiberRefSet(ref, old)]),
          doing)
fiberRefLocallyWith(use, ref, f) == fiberRefGetWith(ref, [a \in Any |-> fiberRefLocally(use, ref, f[a])])

currentContext            == [name |-> "context", initial |-> {}]
currentConcurrency        == [name |-> "concurrency", initial |-> "unbounded"]
currentRequestBatching    == [name |-> "requestBatching", initial |-> TRUE]
currentForkScopeOverride  == [name |-> "forkScopeOverride", initial |-> None]
currentSchedulingPriority == [name |-> "schedulingPriority", initial |-> 0]

context                        == suspend(fiberRefGet(currentContext))
contextWithEffect(f)           == flatMap(context, f)
provideContext(self, services) == fiberRefLocally(self, currentContext, services)
provideSomeContext(self, services) ==
  fiberRefLocallyWith(self, currentContext, [parent \in Any |-> parent \cup services])
mapInputContext(self, f)               == contextWithEffect([c \in Any |-> provideContext(self, f[c])])
withConcurrency(self, n)               == fiberRefLocally(self, currentConcurrency, n)
withRequestBatching(self, b)           == fiberRefLocally(self, currentRequestBatching, b)
withSchedulingPriority(self, priority) == fiberRefLocally(self, currentSchedulingPriority, priority)
yieldNow                               == async(0, unit)

\* f gets the effect that forks in the scope of here.
transplant(f, scope) ==
  withFiberRuntime([w \in Any |->
    f[Some(getOrElse(getFiberRef(w, currentForkScopeOverride), scope))]])
grafted(self, scope) == fiberRefLocally(self, currentForkScopeOverride, scope)
----------------------------------------------------------------------------
(* Refs.                                                                   *)

refMake(value) ==
  Op([w \in Any |-> Result(Cause!exitSucceed(Len(w.cells) + 1), [w EXCEPT !.cells = Append(@, value)])])
refModify(ref, f) ==
  Op([w \in Any |-> LET r == f[w.cells[ref]] IN
       Result(Cause!exitSucceed(r[1]), [w EXCEPT !.cells[ref] = r[2]])])
refGet(ref)                      == refModify(ref, [a \in Any |-> <<a, a>>])
refSet(ref, value)               == refModify(ref, [a \in Any |-> <<void, value>>])
refGetAndSet(ref, value)         == refModify(ref, [a \in Any |-> <<a, value>>])
refGetAndUpdate(ref, f)          == refModify(ref, [a \in Any |-> <<a, f[a]>>])
refGetAndUpdateSome(ref, pf)     == refModify(ref, [a \in Any |-> <<a, getOrElse(pf[a], a)>>])
refSetAndGet(ref, value)         == refModify(ref, [a \in Any |-> <<value, value>>])
refModifySome(ref, fallback, pf) == refModify(ref, [a \in Any |-> getOrElse(pf[a], <<fallback, a>>)])
refUpdate(ref, f)                == refModify(ref, [a \in Any |-> <<void, f[a]>>])
refUpdateAndGet(ref, f)          == refModify(ref, [a \in Any |-> <<f[a], f[a]>>])
refUpdateSome(ref, f)            == refModify(ref, [a \in Any |-> <<void, getOrElse(f[a], a)>>])
refUpdateSomeAndGet(ref, pf)     == refModify(ref, [a \in Any |-> <<getOrElse(pf[a], a), getOrElse(pf[a], a)>>])
=============================================================================
