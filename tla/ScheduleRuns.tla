----------------------------- MODULE ScheduleRuns -----------------------------
(***************************************************************************)
(* Schedules that are stepped, and effects that are repeated or tried again.  *)
(* The input says what is done, the result is what comes of it.              *)
(*                                                                           *)
(* Before them, the schedules that recur at times of the calendar.  A date   *)
(* is a number of milliseconds in a time zone whose days all have the same   *)
(* length; how long the units are is left open, so that a calendar may be    *)
(* small.  The months of a year have MonthLengths, and the year is repeated. *)
(***************************************************************************)
EXTENDS Schedules

Effect == INSTANCE EffectCombinators

CONSTANTS
  SecondMillis, SecondsPerMinute, MinutesPerHour, HoursPerDay, DaysPerWeek,
  MonthLengths,
  MaxTime,        \* the last instant of an interval, or of a calendar
  MaxRuns         \* the most runs that are looked at

MinuteMillis == SecondMillis * SecondsPerMinute
HourMillis   == MinuteMillis * MinutesPerHour
DayMillis    == HourMillis * HoursPerDay

CalendarAssumption ==
  /\ {SecondMillis, SecondsPerMinute, MinutesPerHour, HoursPerDay, DaysPerWeek} \subseteq Nat \ {0}
  /\ MonthLengths # <<>> /\ \A m \in DOMAIN MonthLengths : MonthLengths[m] \in Nat \ {0}

RunsAssumption == CalendarAssumption /\ MaxTime \in Nat /\ MaxRuns \in Nat
----------------------------------------------------------------------------
(* Dates.                                                                  *)

getSeconds(now) == (now \div SecondMillis) % SecondsPerMinute
getMinutes(now) == (now \div MinuteMillis) % MinutesPerHour
getHours(now)   == (now \div HourMillis) % HoursPerDay
getDay(now)     == (now \div DayMillis) % DaysPerWeek

\* The first day of the m-th month, counted from 0.
MonthStart(m) ==
  LET year == FoldLeft(LAMBDA sum, length : sum + length, 0, MonthLengths)
      n    == Len(MonthLengths)
  IN year * (m \div n) + FoldLeft(LAMBDA sum, length : sum + length, 0, SubSeq(MonthLengths, 1, m % n))
getMonth(now) ==
  LET day == now \div DayMillis
  IN CHOOSE m \in 0..day : MonthStart(m) <= day /\ day < MonthStart(m + 1)
getDate(now) == now \div DayMillis - MonthStart(getMonth(now)) + 1

\* A day a month does not have is one of the next month.
setDate(now, date)   == now + (date - getDate(now)) * DayMillis
setMonth(now, month) ==
  (MonthStart(month) + getDate(now) - 1) * DayMillis + (now % DayMillis)

\* The field that has `of` values, each for `unit`, is the next time `value`: later in
\* what it is a part of, or in the next of those.
nextOf(now, value, initial, field, unit, of) ==
  CASE field = value /\ initial -> now
    [] field < value -> now + (value - field) * unit
    [] OTHER -> now + (value - field) * unit + of * unit

beginningOfSecond(now) == now - (now % SecondMillis)
endOfSecond(now)       == beginningOfSecond(now) + SecondMillis
nextSecond(now, second, initial) ==
  nextOf(now, second, initial, getSeconds(now), SecondMillis, SecondsPerMinute)

beginningOfMinute(now) == now - (now % MinuteMillis)
endOfMinute(now)       == beginningOfMinute(now) + MinuteMillis
nextMinute(now, minute, initial) ==
  nextOf(now, minute, initial, getMinutes(now), MinuteMillis, MinutesPerHour)

beginningOfHour(now) == now - (now % HourMillis)
endOfHour(now)       == beginningOfHour(now) + HourMillis
nextHour(now, hour, initial) == nextOf(now, hour, initial, getHours(now), HourMillis, HoursPerDay)

beginningOfDay(now) == now - (now % DayMillis)
endOfDay(now)       == beginningOfDay(now) + DayMillis

\* The last day of the week is also given as DaysPerWeek, but is 0 of a date.
nextDay(now, dayOfWeek_, initial) ==
  IF getDay(now) = dayOfWeek_ /\ initial THEN now
  ELSE LET days == (DaysPerWeek + dayOfWeek_ - getDay(now)) % DaysPerWeek
       IN now + (IF days = 0 THEN DaysPerWeek ELSE days) * DayMillis

\* The first of the next months that still has the day.
findNextMonth(now, day, months0) ==
  LET RECURSIVE find(_)
      find(months) ==
        LET first == setDate(now, day)
            then  == setMonth(first, getMonth(first) + months)
        IN IF getDate(then) = day THEN then ELSE find(months + 1)
  IN find(months0)
nextDayOfMonth(now, day, initial) ==
  CASE getDate(now) = day /\ initial -> now
    [] getDate(now) < day -> setDate(now, day)
    [] OTHER -> findNextMonth(now, day, 1)
----------------------------------------------------------------------------
(* The schedules, for an argument in the range they check.                 *)

\* A unit that begins and ends around the next time.
cron(next, beginning, end) ==
  makeWithState(<<-Infinity, 0>>, [now, input, state \in Any |->
    LET at == next[now, state[2] = 0]
    IN <<<<end[at], state[2] + 1>>, state[2], continueWith(Intervals!intervalMake(beginning[at], end[at]))>>])

secondOfMinute(second) ==
  cron([now, first \in Any |-> nextSecond(now, second, first)],
       [at \in Any |-> beginningOfSecond(at)], [at \in Any |-> endOfSecond(at)])
minuteOfHour(minute) ==
  cron([now, first \in Any |-> nextMinute(now, minute, first)],
       [at \in Any |-> beginningOfMinute(at)], [at \in Any |-> endOfMinute(at)])
hourOfDay(hour) ==
  cron([now, first \in Any |-> nextHour(now, hour, first)],
       [at \in Any |-> beginningOfHour(at)], [at \in Any |-> endOfHour(at)])
dayOfWeek(day) ==
  cron([now, first \in Any |-> nextDay(now, day, first)],
       [at \in Any |-> beginningOfDay(at)], [at \in Any |-> endOfDay(at)])
dayOfMonth(day) ==
  cron([now, first \in Any |-> nextDayOfMonth(now, day, first)],
       [at \in Any |-> beginningOfDay(at)], [at \in Any |-> endOfDay(at)])
----------------------------------------------------------------------------
VARIABLES
  input,
  result

vars == <<input, result>>

NotYet == [exit |-> "running"]
----------------------------------------------------------------------------
(* Intervals, of which no two touch.                                       *)

Pairs == {i \in [startMillis : 0..MaxTime, endMillis : 0..MaxTime] : i.startMillis < i.endMillis}
IntervalLists ==
  {<<>>} \cup {<<i>> : i \in Pairs} \cup {p \in Pairs \X Pairs : p[1].endMillis < p[2].startMillis}
Instants(list) == UNION {list[i].startMillis..(list[i].endMillis - 1) : i \in DOMAIN list}
InOrder(list)  == \A i \in DOMAIN list : /\ list[i].startMillis < list[i].endMillis
                                         /\ i > 1 => list[i - 1].endMillis <= list[i].startMillis

CombineIntervals ==
  /\ input.kind = "intervals"
  /\ result = NotYet
  /\ result' = [union |-> Intervals!union(input.l, input.r),
                both  |-> Intervals!intersect(input.l, input.r)]
  /\ UNCHANGED input
----------------------------------------------------------------------------
(* Dates.  A unit has a field, whose values are at so many milliseconds.    *)

Fields ==
  {<<"second", v>> : v \in 0..SecondsPerMinute - 1} \cup {<<"minute", v>> : v \in 0..MinutesPerHour - 1}
  \cup {<<"hour", v>> : v \in 0..HoursPerDay - 1} \cup {<<"day", v>> : v \in 0..DaysPerWeek - 1}
  \cup {<<"date", v>> : v \in {MonthLengths[m] : m \in DOMAIN MonthLengths} \cup {1}}

FieldOf(unit, now) ==
  CASE unit = "second" -> getSeconds(now) [] unit = "minute" -> getMinutes(now)
    [] unit = "hour" -> getHours(now) [] unit = "day" -> getDay(now) [] OTHER -> getDate(now)
Beginning(unit, now) ==
  CASE unit = "second" -> beginningOfSecond(now) [] unit = "minute" -> beginningOfMinute(now)
    [] unit = "hour" -> beginningOfHour(now) [] OTHER -> beginningOfDay(now)
Cron(unit, value) ==
  CASE unit = "second" -> secondOfMinute(value) [] unit = "minute" -> minuteOfHour(value)
    [] unit = "hour" -> hourOfDay(value) [] unit = "day" -> dayOfWeek(value) [] OTHER -> dayOfMonth(value)

\* The next interval, and the one after it.
NextTwo(schedule, now) ==
  LET first == Step(schedule, now, void, schedule.initial)
      again == Step(schedule, startOf(first[3]), void, first[1])
  IN [first |-> Head(first[3].intervals), again |-> Head(again[3].intervals)]

FindNext ==
  /\ input.kind = "date"
  /\ result = NotYet
  /\ result' = NextTwo(Cron(input.field[1], input.field[2]), input.now)
  /\ UNCHANGED input
----------------------------------------------------------------------------
(* Schedules, and runs of them in which the work takes some time.           *)

Bases == {<<"recurs", 0>>, <<"recurs", 2>>, <<"duration", 1>>, <<"fromDelays", 2>>, <<"spaced", 2>>,
          <<"forever", 0>>}
Others == {<<"fixed", 2>>, <<"windowed", 2>>, <<"linear", 1>>, <<"exponential", 1>>, <<"fibonacci", 1>>,
           <<"repetitions", 2>>, <<"outputs", 1>>, <<"delays", 2>>, <<"upTo", 2>>, <<"resetAfter", 2>>,
           <<"again", 2>>, <<"second", 1>>, <<"minute", 0>>}
Joins == {"union", "intersect", "andThen", "compose", "either"}

Schedule(s) ==
  CASE s[1] = "recurs"      -> recurs(s[2])
    [] s[1] = "duration"    -> duration(s[2])
    [] s[1] = "fromDelays"  -> fromDelays(<<1, s[2]>>)
    [] s[1] = "spaced"      -> spaced(s[2])
    [] s[1] = "forever"     -> forever
    [] s[1] = "fixed"       -> fixed(s[2])
    [] s[1] = "windowed"    -> windowed(s[2])
    [] s[1] = "linear"      -> linear(s[2])
    [] s[1] = "exponential" -> exponential(s[2], 2)
    [] s[1] = "fibonacci"   -> fibonacci(s[2])
    [] s[1] = "repetitions" -> repetitions(spaced(s[2]))
    [] s[1] = "outputs"     -> collectAllOutputs(spaced(s[2]))
    [] s[1] = "delays"      -> delays(spaced(s[2]))
    [] s[1] = "upTo"        -> upTo(forever, s[2])
    [] s[1] = "resetAfter"  -> resetAfter(count, s[2])
    [] s[1] = "again"       -> repeatForever(recurs(s[2]))
    [] s[1] \in {"second", "minute"} -> Cron(s[1], s[2])

Join(how, l, r) ==
  CASE how = "union" -> union(l, r) [] how = "either" -> either(l, r)
    [] how = "intersect" -> intersect(l, r)
    [] how = "andThen" -> andThen(l, r) [] how = "compose" -> compose(l, r)

\* Each run begins when the schedule said, and takes as long as `works` says.
Stepped(schedule, works) ==
  LET RECURSIVE go(_, _, _)
      go(now, state, i) ==
        IF i > Len(works) THEN <<>>
        ELSE LET r == Step(schedule, now, void, state)
                 from == IF isDone(r[3]) \/ startOf(r[3]) < now THEN now ELSE startOf(r[3]) IN
             <<[now |-> now, out |-> r[2], done |-> isDone(r[3]), start |-> from]>>
             \o IF isDone(r[3]) THEN <<>> ELSE go(from + works[i], r[1], i + 1)
  IN go(1, schedule.initial, 1)

BothWays(how, l, r, works) ==
  [steps  |-> Stepped(Join(how, l, r), works),
   turned |-> Stepped(Join(how, r, l), works)]

Recur ==
  /\ input.kind = "recur"
  /\ result = NotYet
  /\ result' = IF input.how = "alone" THEN [steps |-> Stepped(Schedule(input.l), input.works), turned |-> <<>>]
               ELSE BothWays(input.how, Schedule(input.l), Schedule(input.r), input.works)
  /\ UNCHANGED input
----------------------------------------------------------------------------
(* Ways of saying the same: schedules that are listed together are meant to  *)
(* give the same outputs at the same times for the same inputs.              *)

id    == [x \in Any |-> x]
fewer == [n \in Any |-> n < 2]
more  == [n \in Any |-> n >= 2]
next_ == [n \in Any |-> n + 1]

Said ==
  [delayed      |-> <<spaced(2), delayed(spaced(1), next_), jittered(spaced(2), 50),
                      modifyDelay(spaced(1), [out, delay \in Any |-> delay + 1]),
                      addDelay(spaced(1), [out \in Any |-> 1])>>,
   fromDelay    |-> <<duration(2), fromDelay(2), fromDelays(<<2>>)>>,
   fromFunction |-> <<map(identity, next_), fromFunction(next_), mapInput(identity, next_),
                      mapBoth(identity, next_, id), mapBothEffect(identity, id, next_)>>,
   passthrough  |-> <<identity, passthrough(forever)>>,
   collect      |-> <<collectAllInputs, collectWhile([n \in Any |-> TRUE]), collectUntil([n \in Any |-> FALSE])>>,
   collectFew   |-> <<collectWhile(fewer), collectUntil(more)>>,
   recurWhile   |-> <<recurWhile(fewer), recurWhileEffect(fewer), recurUntil(more), recurUntilEffect(more)>>,
   untilOption  |-> <<asUnit(recurUntil(more)),
                      asUnit(recurUntilOption([n \in Any |-> IF n >= 2 THEN Some(n) ELSE None]))>>,
   whileOutput  |-> <<recurs(2), whileOutputEffect(forever, fewer), untilOutput(forever, more),
                      untilOutputEffect(forever, more)>>,
   once         |-> <<once, asUnit(fromDelay(0))>>,
   stop         |-> <<stop, asUnit(recurUpTo(0))>>,
   succeed      |-> <<succeed(7), as(forever, 7)>>,
   bothInOut    |-> <<union(spaced(1), spaced(2)),
                      mapInput(bothInOut(spaced(1), spaced(2)), [in \in Any |-> <<in, in>>]),
                      eitherWith(spaced(1), spaced(2), [x, y \in Any |-> Intervals!union(x, y)])>>,
   zipWith      |-> <<zipRight(spaced(1), count), zipWith(spaced(1), count, [l, r \in Any |-> r]),
                      map(intersect(spaced(1), count), [out \in Any |-> out[2]])>>]

\* The outputs and the delays of each.
RunsOfAll(said, now, inputs) ==
  [way \in DOMAIN said |-> [i \in DOMAIN said[way] |->
     <<run(said[way][i], now, inputs), run(delays(said[way][i]), now, inputs)>>]]

RunSaid ==
  /\ input.kind = "said"
  /\ result = NotYet
  /\ result' = RunsOfAll(Said, input.now, input.inputs)
  /\ UNCHANGED input
----------------------------------------------------------------------------
(* Effects again and again.  An effect succeeds in the i-th run if told so.  *)

Ways == {"repeat", "retry", "schedule", "repeatUntil", "repeatWhile", "retryUntil", "retryWhile"}

Attempt(outcomes) ==
  Effect!Op([w \in Any |->
    LET i == Len(w.trace) + 1 IN
    (IF i <= Len(outcomes) /\ ~outcomes[i] THEN Effect!fail(i) ELSE Effect!succeed(i))
      [[w EXCEPT !.trace = Append(@, i)]]])

Again(way, n, self) ==
  CASE way = "repeat"      -> Effect!repeat_Effect(self, recurs(n))
    [] way = "retry"       -> Effect!retry_Effect(self, recurs(n))
    [] way = "schedule"    -> Effect!schedule_Effect(self, recurs(n))
    [] way = "repeatUntil" -> Effect!repeatUntil_Effect(self, [a \in Any |-> a > n])
    [] way = "repeatWhile" -> Effect!repeatWhile_Effect(self, [a \in Any |-> a <= n])
    [] way = "retryUntil"  -> Effect!retryUntil_Effect(self, [e \in Any |-> e > n])
    [] way = "retryWhile"  -> Effect!retryWhile_Effect(self, [e \in Any |-> e <= n])
    [] way = "retryN"      -> Effect!retryN_Effect(self, n)

RunAgain ==
  /\ input.kind = "again"
  /\ result = NotYet
  /\ result' = Again(input.way, input.n, Attempt(input.outcomes))
                 [[trace |-> <<>>, now |-> 0, left |-> input.left, flags |-> {"Interruption"},
                   refs |-> <<>>, cells |-> <<>>]]
  /\ UNCHANGED input
----------------------------------------------------------------------------
Works          == UNION {[1..n -> {0, 1, 3}] : n \in {MaxRuns}}
IntervalInputs == [kind : {"intervals"}, l : IntervalLists, r : IntervalLists]
DateInputs     == [kind : {"date"}, field : Fields, now : 0..DayMillis * MonthStart(Len(MonthLengths)) - 1]
RecurInputs ==
  [kind : {"recur"}, how : {"alone"}, l : Bases \cup Others, r : {<<>>}, works : Works]
  \cup [kind : {"recur"}, how : Joins, l : Bases \cup {<<"second", 1>>}, r : Bases \cup {<<"minute", 0>>},
        works : Works]
AgainInputs(ways) ==
  [kind : {"again"}, way : ways, n : 0..MaxRuns, outcomes : [1..MaxRuns -> BOOLEAN],
   left : {Effect!Never} \cup 1..MaxTime]

SaidInputs == [kind : {"said"}, now : {0, 1}, inputs : UNION {[1..n -> 0..2] : n \in 0..MaxRuns}]

Init ==
  /\ input \in IntervalInputs \cup DateInputs \cup RecurInputs \cup SaidInputs \cup AgainInputs(Ways)
  /\ result = NotYet
Next == CombineIntervals \/ FindNext \/ Recur \/ RunSaid \/ RunAgain
Spec == Init /\ [][Next]_vars
----------------------------------------------------------------------------
(* Properties.                                                             *)

DoneAs(kind) == result # NotYet /\ input.kind = kind

First(instants) == CHOOSE i \in instants : \A j \in instants : i <= j

\* What a schedule needs of intervals (intervals.ts) is where they start: what two lists have in
\* common starts at the first instant both have, and has no instant that one of them
\* lacks, and likewise for the union; each is in order.  (It is not all that either
\* has: an interval that goes on after the next one of the other list is cut off.)
StartsAreExact ==
  DoneAs("intervals") =>
    LET both   == Instants(input.l) \cap Instants(input.r)
        either_ == Instants(input.l) \cup Instants(input.r) IN
    /\ Instants(result.both) \subseteq both /\ Instants(result.union) \subseteq either_
    /\ InOrder(result.both) /\ InOrder(result.union)
    /\ both = {} <=> result.both = <<>>
    /\ both # {} => Intervals!start(result.both) = First(both)
    /\ either_ # {} => Intervals!start(result.union) = First(either_)
    /\ Len(input.l) = 1 /\ Len(input.r) = 1 => Instants(result.both) = both

\* "Computes the union of this `Intervals` and  that `Intervals`"
\* (src/src/Schedule/Intervals.ts:56)  The code does not: see the README.
UnionHasAll ==
  DoneAs("intervals") => Instants(result.union) = Instants(input.l) \cup Instants(input.r)

\* The times at which a unit begins whose field is the one asked for.
IsTime(field, t) ==
  FieldOf(field[1], t) = field[2] /\ Beginning(field[1], t) = t
Between(field, from, to) == {t \in from..to : IsTime(field, t)}

\* The calendar's schedules recur at every time that has the field, and at no other
\* (nextSecond to nextDayOfMonth in schedule.ts): the one that has begun or the next
\* one at first, and the one that comes right after it then; for a day of the month,
\* if the month it begins in has the day.
RecursEveryTime ==
  DoneAs("date") /\ (input.field[1] = "date" => \A m \in DOMAIN MonthLengths : input.field[2] <= MonthLengths[m]) =>
    LET first == result.first.startMillis
        again == result.again.startMillis IN
    /\ IsTime(input.field, first) /\ first >= Beginning(input.field[1], input.now)
    /\ Between(input.field, Beginning(input.field[1], input.now), first) = {first}
    /\ IsTime(input.field, again) /\ again > first
    /\ Between(input.field, first + 1, again) = {again}
    /\ result.first.endMillis > result.first.startMillis

\* "Cron-like schedule that recurs every specified `day` of month. Won't recur on months
\* containing less days than specified in `day` param." (src/src/Schedule.ts:397)  The code does not: see the README.
RecursOnTheDay ==
  DoneAs("date") /\ input.field[1] = "date" => getDate(result.first.startMillis) = input.field[2]

\* How often a schedule recurs, of those that are made of what recurs so often.
Forever == 2 * MaxRuns
Often(s) ==
  CASE s[1] = "recurs" -> s[2] [] s[1] = "duration" -> 1 [] s[1] = "fromDelays" -> 2
    [] s[1] \in {"upTo"} -> -1 [] OTHER -> Forever
Least(m, n) == IF m < n THEN m ELSE n
OftenJoined(how, m, n) ==
  CASE how \in {"union", "either"}      -> IF m < n THEN n ELSE m
    [] how \in {"intersect", "compose"} -> Least(m, n)
    [] how = "andThen"                  -> m + n
Recurred(steps) == Len(SelectSeq(steps, LAMBDA s : ~s.done))

\* A schedule recurs as often as it is made to: two at once as often as either, or as both,
\* one after the other as often as they do together (unionWith, intersectWith and
\* andThenEither in schedule.ts), and it does not matter which of two is first.
RecursAsOften ==
  DoneAs("recur") =>
    LET often == IF input.how = "alone" THEN Often(input.l)
                 ELSE OftenJoined(input.how, Often(input.l), Often(input.r)) IN
    /\ often >= 0 => Recurred(result.steps) = Least(often, Len(input.works))
    /\ input.how \in {"union", "intersect"} =>
         /\ Len(result.steps) = Len(result.turned)
         /\ \A i \in DOMAIN result.steps :
              LET a == result.steps[i] b == result.turned[i]
              IN a.start = b.start /\ a.done = b.done /\ a.out = <<b.out[2], b.out[1]>>

\* How long a schedule lets wait: the delays are those of its name, a run of fixed or
\* windowed is on a boundary, unless the work of fixed took more than the interval, when it
\* goes on at once; two that must both continue go on at a time of both (intersectWithLoop).
WaitsAsLong ==
  DoneAs("recur") =>
    LET steps == result.steps
        waits(d(_)) == \A i \in DOMAIN steps : steps[i].done \/ steps[i].start = steps[i].now + d(i - 1)
        gathered(f(_)) == \A i \in DOMAIN steps : steps[i].out = f(i - 1)
        l == input.l
        k == input.l[2]
        fib[i \in Nat] == IF i < 2 THEN 1 ELSE fib[i - 1] + fib[i - 2]
        onBoundary(s) == (s.start - 1) % k = 0 /\ s.start > s.now /\ s.start <= s.now + k IN
    /\ input.how = "intersect" /\ l[1] = "second" /\ input.r[1] = "minute" =>
         \A i \in DOMAIN steps : getSeconds(steps[i].start) = k /\ getMinutes(steps[i].start) = input.r[2]
    /\ input.how = "alone" =>
         CASE l[1] \in {"recurs", "forever", "again", "resetAfter"} -> waits(LAMBDA i : 0)
           [] l[1] = "spaced"      -> waits(LAMBDA i : k)
           [] l[1] = "linear"      -> waits(LAMBDA i : k * (i + 1))
           [] l[1] = "exponential" -> waits(LAMBDA i : k * 2 ^ i)
           [] l[1] = "fibonacci"   -> waits(LAMBDA i : k * fib[i])
           [] l[1] = "windowed"    -> \A i \in DOMAIN steps : onBoundary(steps[i])
           [] l[1] = "fixed"       -> \A i \in DOMAIN steps :
                IF i > 1 /\ input.works[i - 1] > k THEN steps[i].start = steps[i].now ELSE onBoundary(steps[i])
           [] l[1] = "repetitions" -> gathered(LAMBDA i : i)
           [] l[1] = "outputs"     -> gathered(LAMBDA i : [j \in 1..i |-> j - 1])
           [] l[1] = "delays"      -> gathered(LAMBDA i : k)
           [] l[1] = "upTo"        -> \A i \in DOMAIN steps : steps[i].done <=> steps[i].now - 1 >= k
           [] OTHER -> TRUE

\* The schedules agree with each other (schedule.ts): two ways of saying the same decide the
\* same, whatever the inputs.
SchedulesAgree ==
  DoneAs("said") => \A way \in DOMAIN result : \A i \in DOMAIN result[way] : result[way][i] = result[way][1]

\* An effect is repeated as often as the schedule recurs, as long as it succeeds, and tried again as
\* long as it fails (repeat_Effect to scheduleFrom_Effect in schedule.ts); what comes of it
\* is the last output, or what the last run gave.
RunsAgain ==
  DoneAs("again") /\ input.left = Effect!Never /\ input.way # "retryN" =>
    LET n       == input.n
        ok(i)   == i > Len(input.outcomes) \/ input.outcomes[i]
        runs    == Len(result.world.trace)
        first(is(_), most) == CHOOSE i \in 1..most : (is(i) \/ i = most) /\ \A j \in 1..i - 1 : ~is(j)
        ends(k, value) == /\ runs = k
                          /\ result.exit = IF k = 0 \/ ok(k) THEN Effect!Cause!exitSucceed(value)
                                           ELSE Effect!Cause!exitFail(k)
        failed(i) == ~ok(i) IN
    CASE input.way = "repeat"   -> ends(first(failed, n + 1), n)
      [] input.way = "retry"    -> LET k == first(ok, n + 1) IN ends(k, k)
      [] input.way = "schedule" -> ends(IF n = 0 THEN 0 ELSE first(failed, n), n)
      [] input.way \in {"repeatUntil", "repeatWhile"} -> ends(first(failed, n + 1), n + 1)
      [] input.way \in {"retryUntil", "retryWhile"}   -> LET k == first(ok, n + 1) IN ends(k, k)

\* "Retries this effect the specified number of times." (src/src/Effect.ts:1690)  The code does not: see the README.
RetriesNTimes ==
  DoneAs("again") /\ input.way = "retryN" => Len(result.world.trace) <= input.n + 1
=============================================================================
