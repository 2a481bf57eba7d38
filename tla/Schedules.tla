------------------------------- MODULE Schedules -------------------------------
(***************************************************************************)
(* src/internal/schedule.ts.  A schedule is its initial state and its step,  *)
(* a function of the time, the input and the state that gives the next       *)
(* state, an output and a decision: to continue in some intervals, or none   *)
(* if it is done.  A callback that is an effect cannot fail and is given by  *)
(* what it comes to, so that check is checkEffect, and so on; one that is    *)
(* only there for what it does besides (tapInput, ensuring) is left out.     *)
(***************************************************************************)
EXTENDS Integers, Sequences, SequencesExt, FiniteSets, TLC

CONSTANTS
  Infinity        \* a time after all others

MaxSafeInteger == Infinity - 1

Intervals == INSTANCE Intervals

None     == [tag |-> "None"]
Some(x)  == [tag |-> "Some", value |-> x]
Left(x)  == [tag |-> "Left", value |-> x]
Right(x) == [tag |-> "Right", value |-> x]
void     == "void"

Done                   == [tag |-> "Done"]
_continue(intervals)   == [tag |-> "Continue", intervals |-> intervals]
continueWith(interval) == _continue(<<interval>>)
continueAfter(millis)  == continueWith(Intervals!intervalAfter(millis))
isDone(decision)       == decision.tag = "Done"
startOf(decision)      == Intervals!start(decision.intervals)

makeWithState(initial, step) ==
  [initial |-> initial, step |-> [x \in Any |-> step[x[1], x[2], x[3]]]]
Step(self, now, input, state) == self.step[<<now, input, state>>]

\* A schedule that does what self does, but for what becomes of each of its steps.
following(self, next) ==
  makeWithState(self.initial, [now, input, state \in Any |-> next[now, input, Step(self, now, input, state)]])
----------------------------------------------------------------------------
(* Outputs and inputs.                                                     *)

mapEffect(self, f) == following(self, [now, input, r \in Any |-> <<r[1], f[r[2]], r[3]>>])
map(self, f)       == mapEffect(self, f)
as(self, out)      == map(self, [o \in Any |-> out])
asUnit(self)       == as(self, void)
mapInputEffect(self, f) ==
  makeWithState(self.initial, [now, input, state \in Any |-> Step(self, now, f[input], state)])
mapInput(self, f)                      == mapInputEffect(self, f)
mapBothEffect(self, onInput, onOutput) == mapEffect(mapInputEffect(self, onInput), onOutput)
mapBoth(self, onInput, onOutput)       == map(mapInput(self, onInput), onOutput)
passthrough(self)                      == following(self, [now, input, r \in Any |-> <<r[1], input, r[3]>>])

\* The output is what was gathered before this step.
reduceEffect(self, zero, f) ==
  makeWithState(<<self.initial, zero>>, [now, input, state \in Any |->
    LET r == Step(self, now, input, state[1]) z == state[2]
    IN IF isDone(r[3]) THEN <<<<r[1], z>>, z, r[3]>> ELSE <<<<r[1], f[z, r[2]]>>, z, r[3]>>])
reduce(self, zero, f)   == reduceEffect(self, zero, f)
collectAllOutputs(self) == reduce(self, <<>>, [x, y \in Any |-> Append(x, y)])
repetitions(self)       == reduce(self, 0, [n, out \in Any |-> n + 1])
----------------------------------------------------------------------------
(* When to stop.                                                           *)

checkEffect(self, test) ==
  following(self, [now, input, r \in Any |->
    IF ~isDone(r[3]) /\ test[input, r[2]] THEN r ELSE <<r[1], r[2], Done>>])
check(self, test)          == checkEffect(self, test)
untilInput(self, f)        == check(self, [i, o \in Any |-> ~f[i]])
untilInputEffect(self, f)  == checkEffect(self, [i, o \in Any |-> ~f[i]])
untilOutput(self, f)       == check(self, [i, o \in Any |-> ~f[o]])
untilOutputEffect(self, f) == checkEffect(self, [i, o \in Any |-> ~f[o]])
whileInput(self, f)        == check(self, [i, o \in Any |-> f[i]])
whileInputEffect(self, f)  == checkEffect(self, [i, o \in Any |-> f[i]])
whileOutput(self, f)       == check(self, [i, o \in Any |-> f[o]])
whileOutputEffect(self, f) == checkEffect(self, [i, o \in Any |-> f[o]])

repeatForever(self) ==
  following(self, [now, input, r \in Any |->
    LET RECURSIVE again(_)
        again(x) == IF isDone(x[3]) THEN again(Step(self, now, input, self.initial)) ELSE x
    IN again(r)])
resetWhen(self, f) ==
  following(self, [now, input, r \in Any |-> IF f[r[2]] THEN Step(self, now, input, self.initial) ELSE r])
----------------------------------------------------------------------------
(* What recurs.                                                            *)

unfold(initial, f) ==
  makeWithState(initial, [now, input, state \in Any |-> <<f[state], state, continueAfter(now)>>])
identity             ==
  makeWithState(void, [now, input, state \in Any |-> <<state, input, continueAfter(now)>>])
forever              == unfold(0, [n \in Any |-> n + 1])
count                == unfold(0, [n \in Any |-> n + 1])
recurs(n)            == whileOutput(forever, [out \in Any |-> out < n])
once                 == asUnit(recurs(1))
stop                 == asUnit(recurs(0))
succeed(value)       == map(forever, [n \in Any |-> value])
fromFunction(f)      == map(identity, f)
recurWhile(f)        == whileInput(identity, f)
recurWhileEffect(f)  == whileInputEffect(identity, f)
recurUntil(f)        == untilInput(identity, f)
recurUntilEffect(f)  == untilInputEffect(identity, f)
recurUntilOption(pf) == untilOutput(map(identity, pf), [o \in Any |-> o.tag = "Some"])
collectAllInputs     == collectAllOutputs(identity)
collectWhile(f)      == collectAllOutputs(recurWhile(f))
collectUntil(f)      == collectAllOutputs(recurUntil(f))

elapsed ==
  makeWithState(None, [now, input, state \in Any |->
    LET since == IF state = None THEN now ELSE state.value
    IN <<Some(since), now - since, continueAfter(now)>>])
recurUpTo(duration) == whileOutput(elapsed, [e \in Any |-> e < duration])

duration(millis) ==
  makeWithState(TRUE, [now, input, state \in Any |->
    IF state THEN <<FALSE, millis, continueAfter(now + millis)>> ELSE <<FALSE, 0, Done>>])
fromDelay(delay) == duration(delay)
fromDelays(delays_) ==
  makeWithState(<<delays_, TRUE>>, [now, input, state \in Any |->
    IF ~state[2] THEN <<state, 0, Done>>
    ELSE LET x == Head(state[1]) IN
         <<IF Len(state[1]) >= 2 THEN <<Tail(state[1]), TRUE>> ELSE <<<<x>>, FALSE>>,
           x, continueAfter(now + x)>>])

\* The next run is on a boundary, or at once if the last was so long ago.
fixed(interval) ==
  makeWithState(<<None, 0>>, [now, input, state \in Any |->
    LET n == state[2] IN
    IF state[1] = None
    THEN <<<<Some(<<now, now + interval>>), n + 1>>, n, continueAfter(now + interval)>>
    ELSE LET first    == state[1].value[1]
             lastRun  == state[1].value[2]
             boundary == IF interval = 0 THEN 0 ELSE interval - ((now - first) % interval)
             nextRun  == IF now > lastRun + interval THEN now
                         ELSE now + (IF boundary = 0 THEN interval ELSE boundary)
         IN <<<<Some(<<first, nextRun>>), n + 1>>, n, continueAfter(nextRun)>>])
windowed(interval) ==
  makeWithState(<<None, 0>>, [now, input, state \in Any |->
    LET n    == state[2]
        from == IF state[1] = None THEN now ELSE state[1].value
    IN <<<<Some(from), n + 1>>, n,
         continueAfter(now + (interval - ((now - from) % interval)))>>])
----------------------------------------------------------------------------
(* Delays.                                                                 *)

\* The first interval is moved so that it starts after the new delay.
modifyDelayEffect(self, f) ==
  following(self, [now, input, r \in Any |->
    IF isDone(r[3]) THEN r
    ELSE LET delay    == Intervals!intervalSize(Intervals!intervalMake(now, startOf(r[3])))
             newStart == now + f[r[2], delay]
             end      == Intervals!end(r[3].intervals)
             moved    == IF end = Infinity THEN Infinity ELSE end + newStart - startOf(r[3])
             newEnd   == CASE moved < 0 -> 0
                           [] moved > MaxSafeInteger -> MaxSafeInteger
                           [] OTHER -> moved
         IN <<r[1], r[2], continueWith(Intervals!intervalMake(newStart, newEnd))>>])
modifyDelay(self, f)      == modifyDelayEffect(self, f)
addDelayEffect(self, f)   == modifyDelayEffect(self, [out, delay \in Any |-> delay + f[out]])
addDelay(self, f)         == addDelayEffect(self, f)
delayedEffect(self, f)    == modifyDelayEffect(self, [out, delay \in Any |-> f[delay]])
delayed(self, f)          == delayedEffect(self, f)
delayedSchedule(schedule) == addDelay(schedule, [x \in Any |-> x])
delays(self) ==
  following(self, [now, input, r \in Any |->
    <<r[1], IF isDone(r[3]) THEN 0 ELSE startOf(r[3]) - now, r[3]>>])
spaced(millis)            == addDelay(forever, [n \in Any |-> millis])
linear(base)              == delayedSchedule(map(forever, [i \in Any |-> base * (i + 1)]))
exponential(base, factor) == delayedSchedule(map(forever, [i \in Any |-> base * factor ^ i]))
fibonacci(one) ==
  delayedSchedule(map(unfold(<<one, one>>, [ab \in Any |-> <<ab[2], ab[1] + ab[2]>>]), [out \in Any |-> out[1]]))
\* min and max in percent, and random too.
jitteredWith(self, random, min, max) ==
  delayedEffect(self, [d \in Any |-> (d * min * (100 - random) + d * max * random) \div 10000])
jittered(self, random) == jitteredWith(self, random, 80, 120)
----------------------------------------------------------------------------
(* Two schedules.                                                          *)

andThenEither(self, that) ==
  makeWithState(<<self.initial, that.initial, TRUE>>, [now, input, state \in Any |->
    LET r == Step(that, now, input, state[2])
        l == Step(self, now, input, state[1]) IN
    CASE ~state[3] -> <<<<state[1], r[1], FALSE>>, Right(r[2]), r[3]>>
      [] state[3] /\ isDone(l[3]) -> <<<<l[1], r[1], FALSE>>, Right(r[2]), r[3]>>
      [] OTHER -> <<<<l[1], state[2], TRUE>>, Left(l[2]), l[3]>>])
andThen(self, that) == map(andThenEither(self, that), [e \in Any |-> e.value])

\* Both step; the decision is made of theirs.
together(self, that, inputs, decide) ==
  makeWithState(<<self.initial, that.initial>>, [now, input, state \in Any |->
    LET l == Step(self, now, inputs[input][1], state[1])
        r == Step(that, now, inputs[input][2], state[2])
    IN <<<<l[1], r[1]>>, <<l[2], r[2]>>, decide[l[3], r[3]]>>])

bothInOut(self, that) ==
  together(self, that, [in \in Any |-> in], [l, r \in Any |->
    IF isDone(l) \/ isDone(r) THEN Done ELSE _continue(Intervals!union(l.intervals, r.intervals))])

unionWith(self, that, f) ==
  together(self, that, [in \in Any |-> <<in, in>>], [l, r \in Any |->
    CASE isDone(l) -> r
      [] ~isDone(l) /\ isDone(r) -> l
      [] OTHER -> _continue(f[l.intervals, r.intervals])])
union(self, that)         == unionWith(self, that, [x, y \in Any |-> Intervals!union(x, y)])
either(self, that)        == union(self, that)
eitherWith(self, that, f) == unionWith(self, that, f)

\* If the intervals have nothing in common, the one that is behind steps on from its end.
intersectWithLoop(self, that, input, l0, r0, f) ==
  LET RECURSIVE loop(_, _)
      loop(l, r) ==
        IF isDone(l[3]) \/ isDone(r[3]) THEN <<<<l[1], r[1]>>, <<l[2], r[2]>>, Done>>
        ELSE LET li == l[3].intervals ri == r[3].intervals combined == f[li, ri] IN
             CASE Intervals!isNonEmpty(combined) ->
                    <<<<l[1], r[1]>>, <<l[2], r[2]>>, _continue(combined)>>
               [] ~Intervals!isNonEmpty(combined) /\ Intervals!lessThan(li, ri) ->
                    loop(Step(self, Intervals!end(li), input, l[1]), r)
               [] OTHER -> loop(l, Step(that, Intervals!end(ri), input, r[1]))
  IN loop(l0, r0)
intersectWith(self, that, f) ==
  makeWithState(<<self.initial, that.initial>>, [now, input, state \in Any |->
    LET l == Step(self, now, input, state[1]) r == Step(that, now, input, state[2]) IN
    IF isDone(l[3]) \/ isDone(r[3]) THEN <<<<l[1], r[1]>>, <<l[2], r[2]>>, Done>>
    ELSE intersectWithLoop(self, that, input, l, r, f)])
intersect(self, that)  == intersectWith(self, that, [x, y \in Any |-> Intervals!intersect(x, y)])
zipWith(self, that, f) == map(intersect(self, that), [out \in Any |-> f[out[1], out[2]]])
zipLeft(self, that)    == map(intersect(self, that), [out \in Any |-> out[1]])
zipRight(self, that)   == map(intersect(self, that), [out \in Any |-> out[2]])
upTo(self, millis)     == zipLeft(self, recurUpTo(millis))
resetAfter(self, millis) ==
  map(resetWhen(intersect(self, elapsed), [out \in Any |-> out[2] >= millis]), [out \in Any |-> out[1]])

compose(self, that) ==
  makeWithState(<<self.initial, that.initial>>, [now, input, state \in Any |->
    LET l == Step(self, now, input, state[1]) r == Step(that, now, l[2], state[2])
    IN <<<<l[1], r[1]>>, r[2],
         IF isDone(l[3]) \/ isDone(r[3]) THEN Done
         ELSE _continue(Intervals!max(l[3].intervals, r[3].intervals))>>])

\* run: the outputs for some inputs, each step at the start of what the last decided.
runLoop(self, now0, inputs0) ==
  LET RECURSIVE loop(_, _, _, _)
      loop(now, inputs, state, acc) ==
        IF inputs = <<>> THEN acc
        ELSE LET r == Step(self, now, Head(inputs), state) IN
             IF isDone(r[3]) THEN Append(acc, r[2])
             ELSE loop(startOf(r[3]), Tail(inputs), r[1], Append(acc, r[2]))
  IN loop(now0, inputs0, self.initial, <<>>)
run(self, now, input) == runLoop(self, now, input)
=============================================================================
