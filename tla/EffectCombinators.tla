-------------------------- MODULE EffectCombinators --------------------------
(***************************************************************************)
(* src/internal/effect.ts: what is made of the effects of src/internal/      *)
(* core.ts, definition by definition.  Elements come as sequences, indices   *)
(* count from 0 as they do there, and what a callback of the program or of   *)
(* a promise comes to is given as an exit.                                  *)
(***************************************************************************)
EXTENDS Effects

CONSTANT Infinity   \* a time after all others

Schedule == INSTANCE Schedules

undefined               == "undefined"
Left(x)                 == [tag |-> "Left", value |-> x]
isDefect(c)             == Cause!isDieType(c)
FiberRef(name, initial) == [name |-> name, initial |-> initial]
----------------------------------------------------------------------------
(* The environment: the clock, which only goes on while a fiber sleeps.     *)

currentTimeMillis == Op([w \in Any |-> succeed(w.now)[w]])
sleep(duration) ==
  asyncInterrupt(1, Op([w \in Any |-> unit[[w EXCEPT !.now = @ + (IF duration > 0 THEN duration ELSE 0)]]]),
                 unit)
delay(self, duration) == zipRight(sleep(duration), self)

\* A promise that is settled with `exit` after some turns; its signal is aborted
\* if the fiber is interrupted meanwhile.
settled(exit_)        == done(exit_)
promise(turns, exit_) == async(turns, settled(exit_))
promiseInterrupt(turns, exit_) ==
  asyncInterruptEither(Left(sync(event("abort"))), turns, settled(exit_))

\* A function that may throw.
try_(outcome, catch) ==
  IF Cause!exitIsSuccess(outcome) THEN sync(outcome.value)
  ELSE failCauseSync(Cause!fail(catch[outcome.cause.value]))
tryPromise(started, turns, exit_, catch) ==
  flatMap(try_(started, catch), [p \in Any |-> async(turns, settled(Cause!exitMapError(exit_, catch)))])
tryPromiseInterrupt(started, turns, exit_, catch) ==
  flatMap(try_(started, catch), [p \in Any |->
    asyncInterruptEither(Left(event("abort")), turns, settled(Cause!exitMapError(exit_, catch)))])
tryMap(self, try, catch) == flatMap(self, [a \in Any |-> try_(try[a], catch)])
tryMapPromise(self, turns, exitOf, catch) ==
  flatMap(self, [a \in Any |-> tryPromise(Cause!exitUnit, turns, exitOf[a], catch)])
tryMapPromiseInterrupt(self, turns, exitOf, catch) ==
  flatMap(self, [a \in Any |-> tryPromiseInterrupt(Cause!exitUnit, turns, exitOf[a], catch)])
asyncOption(option, turns, effect) ==
  asyncInterruptEither(IF isSome(option) THEN [tag |-> "Right", value |-> option.value] ELSE Left(unit),
                       turns, effect)
----------------------------------------------------------------------------
(* Success and failure.                                                    *)

asSome(self)      == map(self, [x \in Any |-> Some(x)])
asSomeError(self) == mapError(self, [x \in Any |-> Some(x)])
negate(self)      == map(self, [b \in Any |-> ~b])
match(self, onFailure, onSuccess) ==
  matchEffect(self, [e \in Any |-> succeed(onFailure[e])], [a \in Any |-> succeed(onSuccess[a])])
ignore(self)      == match(self, [e \in Any |-> void], [a \in Any |-> void])
isFailure(self)   == match(self, [e \in Any |-> TRUE], [a \in Any |-> FALSE])
isSuccess(self)   == match(self, [e \in Any |-> FALSE], [a \in Any |-> TRUE])
merge(self)       == matchEffect(self, succeeding, succeeding)
option(self)      == matchEffect(self, [e \in Any |-> succeed(None)], [a \in Any |-> succeed(Some(a))])
cause(self)       == matchCause(self, [c \in Any |-> c], [a \in Any |-> Cause!empty])
flipWith(self, f) == flip(f[flip(self)])
succeedNone       == succeed(None)

\* head, some and none: an error, or the lack of what was asked for.
head(self) ==
  matchEffect(self, [e \in Any |-> fail(Some(e))],
              [as_ \in Any |-> IF as_ = <<>> THEN fail(None) ELSE succeed(Head(as_))])
some(self) ==
  matchEffect(self, [e \in Any |-> fail(Some(e))],
              [o \in Any |-> IF isSome(o) THEN succeed(o.value) ELSE fail(None)])
none(self) ==
  matchEffect(self, [e \in Any |-> fail(Some(e))], [o \in Any |-> IF isSome(o) THEN fail(None) ELSE unit])

mapErrorCause(self, f) == matchCauseEffect(self, [c \in Any |-> failCauseSync(f[c])], succeeding)
sandbox(self)          == matchCauseEffect(self, [c \in Any |-> fail(c)], succeeding)
unsandbox(self)        == mapErrorCause(self, [x \in Any |-> Cause!flatten(x)])
parallelErrors(self) ==
  matchCauseEffect(self, [c \in Any |-> IF Cause!failures(c) = <<>> THEN failCause(c)
                                    ELSE fail(Cause!failures(c))], succeeding)
orElseFail(self, error)    == orElse(self, failSync(error))
orElseSucceed(self, value) == orElse(self, sync(value))

catchSomeCause(self, f) ==
  matchCauseEffect(self, [c \in Any |-> getOrElse(f[c], failCause(c))], succeeding)
catchSomeDefect(self, pf) ==
  catchAllCause(self, [c \in Any |-> LET die_ == Cause!find(c, [x \in Any |-> isDefect(x)]) IN
    IF isSome(die_) THEN getOrElse(pf[die_.value.value], failCause(c)) ELSE failCause(c)])
catchAllDefect(self, f) == catchSomeDefect(self, [d \in Any |-> Some(f[d])])
\* _catch, catchTag and catchTags: the failures whose tag has a handler.
catchTags(self, tags, handler) ==
  catchAll(self, [e \in Any |-> IF e \in tags THEN handler[e] ELSE fail(e)])
catchTag(self, tag, handler) == catchTags(self, {tag}, handler)
_catch(self, failure, onFailure) == catchTags(self, {failure}, onFailure)

tapErrorCause(self, f) ==
  matchCauseEffect(self, [c \in Any |-> zipRight(f[c], failCause(c))], succeeding)
tapBoth(self, onFailure, onSuccess) ==
  matchCauseEffect(self,
    [c \in Any |-> LET e == Cause!failureOrCause(c) IN
               IF e.tag = "Left" THEN zipRight(onFailure[e.value], failCause(c)) ELSE failCause(c)],
    [a \in Any |-> as(onSuccess[a], a)])
tapError(self, f) == tapBoth(self, f, [a \in Any |-> unit])
tapDefect(self, f) ==
  catchAllCause(self, [c \in Any |-> LET kept == Cause!keepDefects(c) IN
    IF isSome(kept) THEN zipRight(f[kept.value], failCause(c)) ELSE failCause(c)])

filterOrElse(self, filter, orElse_) ==
  flatMap(self, [a \in Any |-> IF filter[a] THEN succeed(a) ELSE orElse_[a]])
filterOrDie(self, filter, defect)   == filterOrElse(self, filter, [a \in Any |-> dieSync(defect)])
filterOrDieMessage(self, filter, m) == filterOrElse(self, filter, [a \in Any |-> dieMessage(m)])
filterOrFail(self, filter, error)   == filterOrElse(self, filter, [a \in Any |-> failSync(error[a])])

when(self, b)                 == suspend(IF b THEN map(self, [x \in Any |-> Some(x)]) ELSE succeed(None))
unless(self, b)               == suspend(IF b THEN succeedNone ELSE asSome(self))
unlessEffect(self, predicate) == flatMap(predicate, [b \in Any |-> IF b THEN succeedNone ELSE asSome(self)])
whenOf(get, self, predicate) ==
  flatMap(get, [s \in Any |->
    IF predicate[s] THEN map(self, [a \in Any |-> <<s, Some(a)>>]) ELSE succeed(<<s, None>>)])
whenFiberRef(self, ref, predicate) == whenOf(fiberRefGet(ref), self, predicate)
whenRef(self, ref, predicate)      == whenOf(refGet(ref), self, predicate)

\* Do, bind, bindTo and bindValue: a record that grows.
Do                      == succeed(<<>>)
Bound(k, tag, a)        == SetRef(k, tag, a)
bind(self, tag, f)      == flatMap(self, [k \in Any |-> map(f[k], [a \in Any |-> Bound(k, tag, a)])])
bindTo(self, tag)       == map(self, [a \in Any |-> Bound(<<>>, tag, a)])
bindValue(self, tag, f) == map(self, [k \in Any |-> Bound(k, tag, f[k])])
----------------------------------------------------------------------------
(* Elements, one after the other.                                          *)

\* A fold of effects over elements that was built before any of it runs.
fold(elements, init, f) ==
  FoldLeftDomain(LAMBDA acc, i : flatMap(acc, [s \in Any |-> f[s, elements[i], i - 1]]),
                 succeed(init), elements)

reduce(elements, zero, f) == fold(elements, zero, f)
reduceRight(elements, zero, f) ==
  FoldLeftDomain(LAMBDA acc, n : LET i == Len(elements) + 1 - n IN
                   flatMap(acc, [a \in Any |-> f[elements[i], a, i - 1]]), succeed(zero), elements)

\* What dropWhile and the others keep, with what they know of the last element.
Kept(self) == map(self, [s \in Any |-> s.kept])
Keep(s, a, flag, kept) == [flag |-> flag, kept |-> IF kept THEN Append(s.kept, a) ELSE s.kept]

dropUntil(elements, predicate) ==
  Kept(fold(elements, [flag |-> FALSE, kept |-> <<>>], [s, a, i \in Any |->
    IF s.flag THEN succeed(Keep(s, a, TRUE, TRUE))
    ELSE map(predicate[a, i], [b \in Any |-> Keep(s, a, b, FALSE)])]))
dropWhile(elements, f) ==
  Kept(fold(elements, [flag |-> TRUE, kept |-> <<>>], [s, a, i \in Any |->
    map(IF s.flag THEN f[a, i] ELSE succeed(FALSE), [b \in Any |-> Keep(s, a, b, ~b)])]))
takeUntil(elements, predicate) ==
  Kept(fold(elements, [flag |-> FALSE, kept |-> <<>>], [s, a, i \in Any |->
    IF s.flag THEN succeed(s)
    ELSE map(predicate[a, i], [b \in Any |-> Keep(s, a, b, TRUE)])]))
takeWhile(elements, predicate) ==
  Kept(fold(elements, [flag |-> TRUE, kept |-> <<>>], [s, a, i \in Any |->
    map(IF s.flag THEN predicate[a, i] ELSE succeed(FALSE), [b \in Any |-> Keep(s, a, b, b)])]))

\* mapAccum.  Its closures share the variable of the loop that made them, which
\* has come to the end of the iterator before the first of them runs.
mapAccum(elements, zero, f) ==
  map(fold(elements, [z |-> zero, built |-> <<>>], [s, a, i \in Any |->
        map(f[s.z, undefined, i], [zb \in Any |-> [z |-> zb[1], built |-> Append(s.built, zb[2])]])]),
      [s \in Any |-> <<s.z, s.built>>])

filterMap(elements, pf) ==
  map(forEachSequential(elements, [e, i \in Any |-> e]), [as_ \in Any |->
      LET found == SelectSeq([j \in DOMAIN as_ |-> pf[as_[j]]], isSome)
      IN [j \in DOMAIN found |-> found[j].value]])

\* findFirst, every and reduceWhile go from element to element until they know.
fromElement(elements, after, onElement) ==
  LET loop[i \in 0..Len(elements)] ==
        IF i = Len(elements) THEN after[i] ELSE onElement[i, loop[i + 1]]
  IN loop[0]
findFirst(elements, f) ==
  suspend(fromElement(elements, [i \in Any |-> succeed(None)], [i, rest \in Any |->
    flatMap(f[elements[i + 1], i], [b \in Any |-> IF b THEN succeed(Some(elements[i + 1])) ELSE rest])]))
every(elements, f) ==
  suspend(fromElement(elements, [i \in Any |-> succeed(TRUE)], [i, rest \in Any |->
    flatMap(f[elements[i + 1], i], [b \in Any |-> IF b THEN rest ELSE succeed(b)])]))
reduceWhile(elements, zero, while, body) ==
  LET RECURSIVE loop(_, _)
      loop(i, state) ==
        IF i < Len(elements) /\ while[state]
        THEN flatMap(body[state, elements[i + 1], i], [s \in Any |-> loop(i + 1, s)])
        ELSE succeed(state)
  IN flatMap(sync(void), [it \in Any |-> loop(0, zero)])

firstSuccessOf(effects) ==
  suspend(IF effects = <<>> THEN dieSync("IllegalArgumentException")
          ELSE FoldLeft(orElse, Head(effects), Tail(effects)))
----------------------------------------------------------------------------
(* Loops.                                                                  *)

iterate(initial, while, body) ==
  LET go[z \in Any] == suspend(IF while[z] THEN flatMap(body[z], go) ELSE succeed(z))
  IN go[initial]
loop(initial, while, next, body) ==
  LET go[z \in Any] ==
        suspend(IF while[z]
                THEN flatMap(body[z], [a \in Any |-> map(go[next[z]], [list \in Any |-> <<a>> \o list])])
                ELSE sync(<<>>))
  IN go[initial]
loopDiscard(initial, while, next, body) ==
  LET go[z \in Any] == suspend(IF while[z] THEN flatMap(body[z], [a \in Any |-> go[next[z]]]) ELSE unit)
  IN go[initial]
repeatN(self, n) ==
  LET go[i \in 0..n] ==
        flatMap(self, [a \in Any |-> IF i = 0 THEN succeed(a) ELSE zipRight(yieldNow, go[i - 1])])
  IN suspend(go[n])

\* eventually and forever, if they end within so many turns.
eventually(self, turns) ==
  LET go[n \in 0..turns] ==
        orElse(self, flatMap(yieldNow, [v \in Any |-> IF n = 0 THEN die("diverges") ELSE go[n - 1]]))
  IN go[turns]
forever(self, turns) ==
  LET go[n \in 0..turns] ==
        flatMap(flatMap(self, [a \in Any |-> yieldNow]), [v \in Any |->
          IF n = 0 THEN die("diverges") ELSE go[n - 1]])
  IN go[turns]

\* gen: each effect that is yielded may depend on what the ones before gave.
gen(next, length) ==
  LET RECURSIVE run(_)
      run(got) == IF Len(got) = length THEN succeed(got)
                  ELSE flatMap(next[got], [a \in Any |-> run(Append(got, a))])
  IN suspend(run(<<>>))
----------------------------------------------------------------------------
(* What happens once.                                                      *)

\* Mutant of once: the ref is set when the effect has succeeded.
onceDone(self) ==
  map(refMake(TRUE), [ref \in Any |-> asUnit(whenEffect(zipLeft(self, refSet(ref, FALSE)), refGet(ref)))])

once(self) ==
  map(refMake(TRUE), [ref \in Any |-> asUnit(whenEffect(self, refGetAndSet(ref, FALSE)))])

summarized(self, summary, f) ==
  flatMap(summary, [start \in Any |-> flatMap(self, [value \in Any |->
    map(summary, [end \in Any |-> <<f[start, end], value>>])])])
getFiberRefs       == withFiberRuntime([w \in Any |-> succeed(w.refs)])
setFiberRefs(refs) == suspend(Op([w \in Any |-> unit[[w EXCEPT !.refs = refs]]]))
diffFiberRefs(self) ==
  summarized(self, getFiberRefs, [before, after \in Any |->
    [set |-> {<<r, after[r]>> : r \in {r \in DOMAIN after : r \notin DOMAIN before \/ before[r] # after[r]}},
     deleted |-> DOMAIN before \ DOMAIN after]])
patchFiberRefs(patch) ==
  Op([w \in Any |-> unit[[w EXCEPT !.refs =
       [r \in (DOMAIN @ \ patch.deleted) \cup {s[1] : s \in patch.set} |->
          IF \E s \in patch.set : s[1] = r THEN (CHOOSE s \in patch.set : s[1] = r)[2] ELSE @[r]]]]])

\* The deferred of memoize is a cell, for those who come one after the other.
memoize(self) ==
  flatMap(refMake(None), [deferred \in Any |->
    map(once(uninterruptibleMask([old \in Any |->
               flatMap(exit(restored(old, diffFiberRefs(self))), [e \in Any |-> refSet(deferred, Some(e))])])),
        [complete \in Any |-> zipRight(complete,
          flatMap(flatMap(refGet(deferred), [e \in Any |-> done(e.value)]), [pa \in Any |->
            as(patchFiberRefs(pa[1]), pa[2])]))])])

timedWith(self, nanos) == summarized(self, nanos, [start, end \in Any |-> end - start])
timed(self)            == timedWith(self, currentTimeMillis)
----------------------------------------------------------------------------
(* Services, logs, spans and labels, which are fiber refs.                 *)

currentLogAnnotations        == FiberRef("logAnnotations", <<>>)
currentTracerSpanAnnotations == FiberRef("spanAnnotations", <<>>)
currentLogSpan               == FiberRef("logSpan", <<>>)
currentTracerSpan            == FiberRef("span", <<>>)
currentMetricLabels          == FiberRef("metricLabels", {})

\* annotateLogs and annotateSpans.
annotated(self, ref, key, value) ==
  flatMap(fiberRefGet(ref), [annotations \in Any |->
    suspend(fiberRefLocally(self, ref, SetRef(annotations, key, value)))])
annotateLogs(self, key, value)  == annotated(self, currentLogAnnotations, key, value)
annotateSpans(self, key, value) == annotated(self, currentTracerSpanAnnotations, key, value)
logAnnotations                  == fiberRefGet(currentLogAnnotations)
spanAnnotations                 == fiberRefGet(currentTracerSpanAnnotations)

log(message)                == withFiberRuntime([w \in Any |-> event(message)])
logCause(c, message)        == withFiberRuntime([w \in Any |-> event(message)])
withLog(self, message)      == zipLeft(self, log(message))
withLogCause(self, message) == tapErrorCause(self, [c \in Any |-> logCause(c, message)])
ignoreLogged(self, message) ==
  matchCauseEffect(self, [c \in Any |-> logCause(c, message)], [a \in Any |-> unit])
withLogSpan(self, label) ==
  flatMap(fiberRefGet(currentLogSpan), [stack \in Any |-> flatMap(currentTimeMillis, [now \in Any |->
    suspend(fiberRefLocally(self, currentLogSpan, <<[label |-> label, startTime |-> now]>> \o stack))])])

labelMetricsSet(self, labels) ==
  fiberRefLocallyWith(self, currentMetricLabels, [set \in Any |-> set \cup labels])
labelMetrics(self, labels)   == labelMetricsSet(self, ToSet(labels))
tagMetrics(self, key, value) == labelMetrics(self, <<<<key, value>>>>)

\* useSpan and withSpan.  `parent` is given, or "root", or what the fiber has.
useSpan(name, parent, evaluate) ==
  acquireUseRelease(
    flatMap(CASE parent = "root" -> succeed(<<>>)
              [] parent = "current" -> map(fiberRefGet(currentTracerSpan), [s \in Any |-> IF s = <<>> THEN s ELSE <<Head(s)>>])
              [] OTHER -> succeed(<<parent>>),
            [p \in Any |-> flatMap(fiberRefGet(currentTracerSpanAnnotations), [annotations \in Any |->
              flatMap(currentTimeMillis, [now \in Any |-> zipRight(event("span"), sync(<<name, p, now>>))])])]),
    evaluate,
    [span, e \in Any |-> flatMap(currentTimeMillis, [now \in Any |-> event("spanEnd")])])
withSpan(self, name, parent) ==
  useSpan(name, parent, [span \in Any |-> flatMap(fiberRefGet(currentTracerSpan), [stack \in Any |->
    fiberRefLocally(self, currentTracerSpan, <<name>> \o stack)])])
currentSpan == map(fiberRefGet(currentTracerSpan), [s \in Any |-> IF s = <<>> THEN None ELSE Some(Head(s))])

contextWith(f) == map(context, f)
provideServiceEffect(self, tag, effect) ==
  contextWithEffect([env \in Any |-> flatMap(effect, [service \in Any |->
    provideContext(self, {s \in env : s[1] # tag} \cup {<<tag, service>>})])])
provideService(self, tag, service) == provideServiceEffect(self, tag, succeed(service))
ServiceOf(env, tag) == (CHOOSE s \in env : s[1] = tag)[2]
updateService(self, tag, f) ==
  mapInputContext(self, [env \in Any |-> {s \in env : s[1] # tag} \cup {<<tag, f[ServiceOf(env, tag)]>>}])
serviceFunctionEffect(tag, f) == flatMap(contextWith([env \in Any |-> ServiceOf(env, tag)]), f)
serviceFunction(tag, f)       == map(contextWith([env \in Any |-> ServiceOf(env, tag)]), f)

descriptorWith(f) ==
  withFiberRuntime([w \in Any |-> f[[interruptors |-> IF isInterrupted(w) THEN {"parent"} ELSE {}]]])
descriptor     == descriptorWith(succeeding)
allowInterrupt == descriptorWith([d \in Any |-> IF d.interruptors # {} THEN interrupt ELSE unit])
----------------------------------------------------------------------------
(* The driver of a schedule, which is a Ref with the last output and the     *)
(* state, and the effects of src/internal/schedule.ts that repeat an effect   *)
(* or try it again.                                                         *)

driver(self) == map(refMake(<<None, self.initial>>), [ref \in Any |-> [schedule |-> self, ref |-> ref]])

driverLast(self_) ==
  flatMap(refGet(self_.ref), [t \in Any |->
    IF isSome(t[1]) THEN succeed(t[1].value) ELSE failSync("NoSuchElement")])

\* What the step gives is kept before the driver sleeps, or fails because it is done.
driverNext(self_, input) ==
  flatMap(refGet(self_.ref), [t \in Any |-> flatMap(currentTimeMillis, [now \in Any |->
    flatMap(sync(Schedule!Step(self_.schedule, now, input, t[2])), [r \in Any |->
      zipRight(refSet(self_.ref, <<Some(r[2]), r[1]>>),
        IF Schedule!isDone(r[3]) THEN fail(None)
        ELSE as(sleep(Schedule!startOf(r[3]) - now), r[2]))])])])

repeatOrElseEffectLoop(self, driver_, orElse_, value) ==
  LET loop_[v \in Any] ==
        matchEffect(driverNext(driver_, v), [e \in Any |-> orDie(driverLast(driver_))], [b \in Any |->
          matchEffect(self, [e \in Any |-> orElse_[e, Some(b)]], loop_)])
  IN loop_[value]
repeatOrElse_Effect(self, schedule, orElse_) ==
  flatMap(driver(schedule), [d \in Any |->
    matchEffect(self, [e \in Any |-> orElse_[e, None]],
                [v \in Any |-> repeatOrElseEffectLoop(self, d, orElse_, v)])])
repeat_Effect(self, schedule) == repeatOrElse_Effect(self, schedule, [e, o \in Any |-> fail(e)])

repeatUntilEffect_Effect(self, f) ==
  LET loop_[v \in Any] ==
        flatMap(self, [a \in Any |-> flatMap(f[a], [b \in Any |->
          IF b THEN succeed(a) ELSE flatMap(yieldNow, loop_)])])
  IN loop_[void]
repeatUntil_Effect(self, f)       == repeatUntilEffect_Effect(self, [a \in Any |-> sync(f[a])])
repeatWhileEffect_Effect(self, f) == repeatUntilEffect_Effect(self, [a \in Any |-> negate(f[a])])
repeatWhile_Effect(self, f)       == repeatWhileEffect_Effect(self, [a \in Any |-> sync(f[a])])

retryOrElse_EffectLoop(self, driver_, orElse_) ==
  LET loop_[v \in Any] ==
        catchAll(self, [e \in Any |->
          matchEffect(driverNext(driver_, e),
                      [x \in Any |-> flatMap(orDie(driverLast(driver_)), [out \in Any |-> orElse_[e, out]])],
                      loop_)])
  IN loop_[void]
retryOrElse_Effect(self, policy, orElse_) ==
  flatMap(driver(policy), [d \in Any |-> retryOrElse_EffectLoop(self, d, orElse_)])
retry_Effect(self, policy) == retryOrElse_Effect(self, policy, [e, out \in Any |-> fail(e)])

retryN_EffectLoop(self, n0) ==
  LET loop_[n \in Int] ==
        catchAll(self, [e \in Any |->
          IF n < 0 THEN fail(e) ELSE flatMap(yieldNow, [v \in Any |-> loop_[n - 1]])])
  IN loop_[n0]
retryN_Effect(self, n) == retryN_EffectLoop(self, n)

retryUntilEffect_Effect(self, f) ==
  LET loop_[v \in Any] ==
        catchAll(self, [e \in Any |-> flatMap(f[e], [b \in Any |->
          IF b THEN fail(e) ELSE flatMap(yieldNow, loop_)])])
  IN loop_[void]
retryUntil_Effect(self, f)       == retryUntilEffect_Effect(self, [e \in Any |-> sync(f[e])])
retryWhileEffect_Effect(self, f) == retryUntilEffect_Effect(self, [e \in Any |-> negate(f[e])])
retryWhile_Effect(self, f)       == retryWhileEffect_Effect(self, [e \in Any |-> sync(f[e])])

scheduleFrom_EffectLoop(self, initial, driver_) ==
  LET loop_[v \in Any] ==
        matchEffect(driverNext(driver_, v), [e \in Any |-> orDie(driverLast(driver_))],
                    [b \in Any |-> flatMap(self, loop_)])
  IN loop_[initial]
scheduleFrom_Effect(self, initial, schedule) ==
  flatMap(driver(schedule), [d \in Any |-> scheduleFrom_EffectLoop(self, initial, d)])
schedule_Effect(self, schedule) == scheduleFrom_Effect(self, void, schedule)
=============================================================================
