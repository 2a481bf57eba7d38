--------------------------------- MODULE Metrics ---------------------------------
(***************************************************************************)
(* Metrics.  A hook is what a metric keeps and tells (metric/hook.ts,       *)
(* state.ts, keyType.ts, boundaries.ts): a record; update and get take it    *)
(* and give the next one or a state.  Numbers are integers, quantiles and   *)
(* errors are in parts of Parts.                                            *)
(*                                                                         *)
(* The metrics of metric.ts are over the global registry                   *)
(* (metric/registry.ts), which has a hook for each key that was used.  A    *)
(* metric is a record: a key, or another metric with its input mapped,      *)
(* tagged, zipped with a second or with its value mapped.  Fibers update    *)
(* metrics with the labels of theirs; effects are tracked; polling metrics  *)
(* update others with what they poll.                                       *)
(***************************************************************************)
EXTENDS Integers, Sequences, SequencesExt, FiniteSets, FiniteSetsExt

CONSTANTS
  MAX_VALUE,   \* Number.MAX_VALUE, and the positive infinity of boundaries
  MIN_VALUE,   \* Number.MIN_VALUE: no positive input is less
  Parts        \* a quantile of q is q / Parts

HooksAssumption == MAX_VALUE \in Int /\ MIN_VALUE \in Int /\ MIN_VALUE < MAX_VALUE /\ Parts \in Nat \ {0}

None    == <<>>
Some(a) == <<a>>
sorted(s) == SortSeq(s, LAMBDA m, n : m < n)
----------------------------------------------------------------------------
(* The types of keys and their boundaries.                                 *)

CounterKeyType   == [type |-> "Counter"]
FrequencyKeyType == [type |-> "Frequency"]
GaugeKeyType     == [type |-> "Gauge"]
HistogramKeyType(boundaries) == [type |-> "Histogram", boundaries |-> boundaries]
SummaryKeyType(maxAge, maxSize, error, quantiles) ==
  [type |-> "Summary", maxAge |-> maxAge, maxSize |-> maxSize, error |-> error, quantiles |-> quantiles]

dedupe(s) == FoldLeft(LAMBDA kept, n : IF Contains(kept, n) THEN kept ELSE Append(kept, n), <<>>, s)
fromChunk(chunk) == dedupe(Append(chunk, MAX_VALUE))
linear(start, width, count) == fromChunk([i \in 1..count - 1 |-> start + (i - 1) * width])
exponential(start, factor, count) == fromChunk([i \in 1..count - 1 |-> start * factor ^ (i - 1)])
----------------------------------------------------------------------------
(* States.                                                                 *)

CounterState(count)         == [state |-> "Counter", count |-> count]
FrequencyState(occurrences) == [state |-> "Frequency", occurrences |-> occurrences]
GaugeState(value)           == [state |-> "Gauge", value |-> value]
HistogramState(buckets, h) ==
  [state |-> "Histogram", buckets |-> buckets, count |-> h.count, min |-> h.min, max |-> h.max, sum |-> h.sum]
SummaryState(error, quantiles, h) ==
  [state |-> "Summary", error |-> error, quantiles |-> quantiles,
   count |-> h.count, min |-> h.min, max |-> h.max, sum |-> h.sum]
----------------------------------------------------------------------------
(* Hooks.                                                                  *)

counter   == [hook |-> "Counter", sum |-> 0]
frequency == [hook |-> "Frequency", values |-> <<>>]
gauge(startAt) == [hook |-> "Gauge", value |-> startAt]

Totals == [count |-> 0, sum |-> 0, min |-> MAX_VALUE, max |-> MIN_VALUE]
observed(totals, value) ==
  [count |-> totals.count + 1, sum |-> totals.sum + value,
   min |-> IF value < totals.min THEN value ELSE totals.min,
   max |-> IF value > totals.max THEN value ELSE totals.max]

histogram(keyType) ==
  LET bounds == sorted(keyType.boundaries) IN
  [hook |-> "Histogram", boundaries |-> bounds, values |-> [i \in 1..Len(bounds) + 1 |-> 0], totals |-> Totals]

\* The bucket of a value by binary search: from and to are 0-based as in update.
RECURSIVE Search(_, _, _, _)
Search(boundaries, value, from, to) ==
  IF from = to THEN from
  ELSE LET mid    == (from + to) \div 2
           below  == value <= boundaries[mid + 1]
           from1  == IF below THEN from ELSE mid
           to1    == IF below THEN mid ELSE to
       IN CASE to1 # from1 + 1 -> Search(boundaries, value, from1, to1)
            [] value <= boundaries[from1 + 1] -> from1
            [] OTHER -> to1

\* A search that takes a boundary for the end of the bucket before.
bucketAfter(h, value) == Cardinality({i \in DOMAIN h.boundaries : h.boundaries[i] <= value}) + 1
bucketOf(h, value) == Search(h.boundaries, value, 0, Len(h.boundaries)) + 1

\* How many values are at most each boundary.
getBuckets(h) ==
  [i \in DOMAIN h.boundaries |-> <<h.boundaries[i], FoldSet(LAMBDA j, n : n + h.values[j], 0, 1..i)>>]

\* One quantile: its value, how many samples it took and those it left.
Resolved(quantile, value, consumed, rest) ==
  [quantile |-> quantile, value |-> value, consumed |-> consumed, rest |-> rest]

magnitude(n) == IF n < 0 THEN 0 - n ELSE n

RECURSIVE resolveQuantile(_, _, _, _, _, _)
resolveQuantile(error, sampleCount, current, consumed, quantile, rest) ==
  IF rest = <<>> THEN Resolved(quantile, None, consumed, <<>>)
  ELSE IF quantile = Parts THEN Resolved(quantile, Some(Last(rest)), consumed + Len(rest), <<>>)
  ELSE LET same     == Cardinality({i \in DOMAIN rest : rest[i] = rest[1]})
           scale    == 2 * Parts * Parts                    \* desired and allowed are in parts of scale
           desired  == 2 * Parts * quantile * sampleCount
           allowed  == error * quantile * sampleCount
           taken    == (consumed + same) * scale
           goOn == resolveQuantile(error, sampleCount, Some(rest[1]), consumed + same, quantile,
                                   SubSeq(rest, same + 1, Len(rest)))
       IN CASE taken < desired - allowed -> goOn
            [] taken > desired + allowed -> Resolved(quantile, current, consumed, rest)
            [] current = None -> goOn
            [] OTHER -> IF magnitude(taken - desired) < magnitude(desired - current[1] * scale) THEN goOn
                        ELSE Resolved(quantile, current, consumed, rest)

calculateQuantiles(error, sortedQuantiles, sortedSamples) ==
  IF sortedQuantiles = <<>> THEN <<>>
  ELSE LET n     == Len(sortedSamples)
           first == resolveQuantile(error, n, None, 0, sortedQuantiles[1], sortedSamples)
           after == [i \in DOMAIN Tail(sortedQuantiles) |->
                       resolveQuantile(error, n, first.value, first.consumed, sortedQuantiles[i + 1], first.rest)]
           all == <<first>> \o after
       IN [i \in DOMAIN all |-> <<all[i].quantile, all[i].value>>]

summary(keyType) ==
  [hook |-> "Summary", error |-> keyType.error, maxAge |-> keyType.maxAge,
   quantiles |-> sorted(keyType.quantiles), values |-> [i \in 1..keyType.maxSize |-> None],
   head |-> 0, totals |-> Totals]

\* The samples of the window; the loop of snapshot ends before the last slot.
window(h, now) ==
  LET fresh(item) == item # None /\ now - item[1][1] >= 0 /\ now - item[1][1] <= h.maxAge
      slots == SelectSeq(SubSeq(h.values, 1, Len(h.values) - 1), fresh)
  IN [i \in DOMAIN slots |-> slots[i][1][2]]

snapshot(h, now) == calculateQuantiles(h.error, h.quantiles, sorted(window(h, now)))

observe(h, value, timestamp) ==
  LET size == Len(h.values)
      head == h.head + 1
  IN [h EXCEPT !.head = IF size > 0 THEN head ELSE @,
               !.values = IF size > 0 THEN [@ EXCEPT ![(head % size) + 1] = Some(<<timestamp, value>>)] ELSE @,
               !.totals = observed(@, value)]

hookOf(keyType) ==
  CASE keyType.type = "Counter"   -> counter
    [] keyType.type = "Gauge"     -> gauge(0)
    [] keyType.type = "Frequency" -> frequency
    [] keyType.type = "Histogram" -> histogram(keyType)
    [] keyType.type = "Summary"   -> summary(keyType)

updateHook(h, input) ==
  CASE h.hook = "Counter"   -> [h EXCEPT !.sum = @ + input]
    [] h.hook = "Gauge"     -> [h EXCEPT !.value = input]
    [] h.hook = "Frequency" ->
         [h EXCEPT !.values = [w \in DOMAIN @ \cup {input} |->
            (IF w \in DOMAIN h.values THEN h.values[w] ELSE 0) + (IF w = input THEN 1 ELSE 0)]]
    [] h.hook = "Histogram" ->
         [h EXCEPT !.values[bucketOf(h, input)] = @ + 1, !.totals = observed(@, input)]
    [] h.hook = "Summary"   -> observe(h, input[1], input[2])

getHook(h, now) ==
  CASE h.hook = "Counter"   -> CounterState(h.sum)
    [] h.hook = "Gauge"     -> GaugeState(h.value)
    [] h.hook = "Frequency" -> FrequencyState(h.values)
    [] h.hook = "Histogram" -> HistogramState(getBuckets(h), h.totals)
    [] h.hook = "Summary"   -> SummaryState(h.error, snapshot(h, now), h.totals)
----------------------------------------------------------------------------
(* The metrics of a run.                                                   *)

CONSTANTS
  Inputs,       \* the numbers metrics are given
  MaxUpdates,   \* the most updates of a run
  MaxTime       \* the last time of the clock

MetricsAssumption ==
  HooksAssumption /\ Inputs \subseteq Int /\ (\A n \in Inputs : MIN_VALUE < n /\ n < MAX_VALUE)
  /\ MaxUpdates \in Nat /\ MaxTime \in Nat

VARIABLES
  map,     \* MetricRegistryImpl.map: the hook of each key
  now,     \* Date.now()
  used,    \* the metrics of this run
  given    \* what was given, in order: <<key, input>>

vars == <<map, now, used, given>>
----------------------------------------------------------------------------
(* Labels and keys (metric/label.ts, key.ts).                              *)

label(key, value) == <<key, value>>
MetricKey(name, keyType) == [name |-> name, keyType |-> keyType, tags |-> {}]
taggedWithLabelSet(key, extraTags) == IF extraTags = {} THEN key ELSE [key EXCEPT !.tags = @ \cup extraTags]
----------------------------------------------------------------------------
(* The registry.                                                           *)

Registered(registry, key) ==
  IF key \in DOMAIN registry THEN registry
  ELSE [k \in DOMAIN registry \cup {key} |-> IF k = key THEN hookOf(key.keyType) ELSE registry[k]]

MetricPair(key, state) == [metricKey |-> key, metricState |-> state]
registrySnapshot == {MetricPair(key, getHook(map[key], now)) : key \in DOMAIN map}
----------------------------------------------------------------------------
(* Metrics.                                                                *)

fromMetricKey(key)      == [metric |-> "key", key |-> key]
mapInput(self, f)       == [metric |-> "mapInput", of |-> self, f |-> f]
mapValue(self, f)       == [metric |-> "map", of |-> self, f |-> f]
taggedWithLabels(self, tags) == [metric |-> "tagged", of |-> self, tags |-> tags]
tagged(self, key, value)     == taggedWithLabels(self, {label(key, value)})
taggedWithLabelsInput(self, f) == mapValue([metric |-> "taggedInput", of |-> self, f |-> f], "constVoid")
zip(self, that)         == [metric |-> "zip", left |-> self, right |-> that]
succeed(out)            == [metric |-> "succeed", out |-> out]
withConstantInput(self) == mapInput(self, "constant")
withNow(self)           == mapInput(self, "withNow")

counterMetric(name)   == fromMetricKey(MetricKey(name, CounterKeyType))
frequencyMetric(name) == fromMetricKey(MetricKey(name, FrequencyKeyType))
gaugeMetric(name)     == fromMetricKey(MetricKey(name, GaugeKeyType))
histogramMetric(name, boundaries) == fromMetricKey(MetricKey(name, HistogramKeyType(boundaries)))
summaryTimestamp(name, keyType) == fromMetricKey(MetricKey(name, keyType))
summaryMetric(name, keyType)    == withNow(summaryTimestamp(name, keyType))
timerWithBoundaries(name, boundaries) ==
  mapInput(tagged(histogramMetric(name, fromChunk(boundaries)), "time_unit", "milliseconds"), "toMillis")
timer(name, count) ==
  mapInput(tagged(histogramMetric(name, exponential(1, 2, count)), "time_unit", "milliseconds"), "toMillis")

\* The functions of the metrics here.
Input(f, input) ==
  CASE f = "constant" -> 1 [] f = "withNow" -> <<input, now>> [] f = "toMillis" -> input
LabelsOf(f, input) == {label(f, input)}

\* What an update gives: <<key, input>> of each key, in order.
RECURSIVE UpdatesOf(_, _, _)
UpdatesOf(self, input, extraTags) ==
  CASE self.metric = "key"      -> <<<<taggedWithLabelSet(self.key, extraTags), input>>>>
    [] self.metric = "mapInput" -> UpdatesOf(self.of, Input(self.f, input), extraTags)
    [] self.metric = "map"      -> UpdatesOf(self.of, input, extraTags)
    [] self.metric = "tagged"   -> UpdatesOf(self.of, input, self.tags \cup extraTags)
    [] self.metric = "taggedInput" -> UpdatesOf(self.of, input, LabelsOf(self.f, input) \cup extraTags)
    [] self.metric = "zip"      -> UpdatesOf(self.left, input, extraTags) \o UpdatesOf(self.right, input, extraTags)
    [] self.metric = "succeed"  -> <<>>

\* The keys a value is read from, which the reading registers.
RECURSIVE KeysOf(_, _)
KeysOf(self, extraTags) ==
  CASE self.metric = "key"    -> {taggedWithLabelSet(self.key, extraTags)}
    [] self.metric = "tagged" -> KeysOf(self.of, self.tags \cup extraTags)
    [] self.metric = "zip"    -> KeysOf(self.left, extraTags) \cup KeysOf(self.right, extraTags)
    [] self.metric = "succeed" -> {}
    [] OTHER -> KeysOf(self.of, extraTags)

unsafeUpdates(updates) ==
  /\ updates # <<>>
  /\ Len(given) + Len(updates) <= MaxUpdates
  /\ given' = given \o updates
  /\ map' = FoldLeft(LAMBDA registry, u : [Registered(registry, u[1]) EXCEPT ![u[1]] = updateHook(@, u[2])],
                     map, updates)
  /\ UNCHANGED <<now, used>>

\* The updates of an effect by how it is tracked; those made by update have the fiber's labels.
TrackedUpdates(how, metric, exit, labels) ==
  CASE how = "trackAll" -> UpdatesOf(metric, 1, {})
    [] how \in {"make", "trackDuration"} /\ exit[1] = "success" -> UpdatesOf(metric, exit[2], {})
    [] how = "trackSuccess" /\ exit[1] = "success" -> UpdatesOf(metric, exit[2], labels)
    [] how = "trackError" /\ exit[1] = "fail" -> UpdatesOf(metric, exit[2], labels)
    [] how = "trackDefect" /\ exit[1] = "die" -> UpdatesOf(metric, exit[2], {})
    [] OTHER -> <<>>
----------------------------------------------------------------------------
(* Polling metrics (metric/polling.ts): what they poll may fail.            *)

Polled(self, poll) == [metric |-> self, poll |-> poll]

\* Every poll succeeds, or nothing is updated.
pollAndUpdate(pollings, labels) ==
  IF \A i \in DOMAIN pollings : pollings[i].poll[1] = "success"
  THEN FlattenSeq([i \in DOMAIN pollings |-> UpdatesOf(pollings[i].metric, pollings[i].poll[2], labels)])
  ELSE <<>>
----------------------------------------------------------------------------
(* Behaviour.                                                              *)

SummaryType == SummaryKeyType(1, 2, 0, <<Parts, Parts \div 2>>)
SomeMetrics ==
  LET c == counterMetric("c") IN
  {{c, tagged(c, "k", "v"), taggedWithLabels(c, {label("k", "v"), label("l", "w")})},
   {frequencyMetric("f"), taggedWithLabelsInput(c, "input"), succeed(0)},
   {gaugeMetric("g"), withConstantInput(c)},
   {histogramMetric("h", fromChunk(<<4, 1, 2>>))},
   {timer("t", 3), timerWithBoundaries("t", <<2>>)},
   {zip(c, gaugeMetric("g")), histogramMetric("l", linear(1, 2, 3))},
   {summaryMetric("s", SummaryType)}}

FiberLabels == {{}, {label("fiber", "f")}}
Exits == {"success", "fail", "die"} \X Inputs

Init ==
  /\ map = <<>> /\ now = 0 /\ given = <<>>
  /\ used \in SomeMetrics

Update == \E self \in used, input \in Inputs, labels \in FiberLabels : unsafeUpdates(UpdatesOf(self, input, labels))

Track ==
  \E self \in used, labels \in FiberLabels, exit \in Exits,
     how \in {"make", "trackAll", "trackSuccess", "trackError", "trackDefect", "trackDuration"} :
    unsafeUpdates(TrackedUpdates(how, self, exit, labels))

Poll ==
  \E first, second \in used, one, other \in ({"success"} \X Inputs) \cup {<<"fail", 0>>} :
    unsafeUpdates(pollAndUpdate(<<Polled(first, one), Polled(second, other)>>, {}))

\* value registers the keys it reads.
Value ==
  \E self \in used :
    /\ map' = FoldSet(LAMBDA key, registry : Registered(registry, key), map, KeysOf(self, {}))
    /\ UNCHANGED <<now, used, given>>

Tick == (\E self \in used : self.metric = "mapInput" /\ self.f = "withNow") /\ now < MaxTime /\ now' = now + 1 /\ UNCHANGED <<map, used, given>>

Next == Update \/ Track \/ Poll \/ Value \/ Tick

Spec == Init /\ [][Next]_vars
----------------------------------------------------------------------------
(* Properties.                                                             *)

GivenTo(key) == LET to(g) == g[1] = key IN SelectSeq(given, to)
InputsOf(key) == [i \in DOMAIN GivenTo(key) |-> GivenTo(key)[i][2]]
Summed(s) == FoldLeft(LAMBDA m, n : m + n, 0, s)
CountOf(s, test(_)) == Len(SelectSeq(s, test))

\* A metric tells of every value that was given to it, to its own key only: labels make another
\* metric and those of a metric add to those of the fiber (taggedWithLabelSet); a bucket of a
\* histogram counts the values up to its boundary (the binary search of update, getBuckets); the
\* quantiles of a summary are of what is in its window and not too old (observe, snapshot).
CountsEverything ==
  \A pair \in registrySnapshot :
    LET s == pair.metricState
        given1 == InputsOf(pair.metricKey)
        values == IF s.state = "Summary" THEN [i \in DOMAIN given1 |-> given1[i][1]] ELSE given1 IN
    CASE s.state = "Counter"   -> s.count = Summed(values)
      [] s.state = "Gauge"     -> s.value = IF values = <<>> THEN 0 ELSE Last(values)
      [] s.state = "Frequency" -> \A n \in Inputs :
           CountOf(values, LAMBDA v : v = n) = IF n \in DOMAIN s.occurrences THEN s.occurrences[n] ELSE 0
      [] OTHER ->
           /\ s.count = Len(values) /\ s.sum = Summed(values)
           /\ values # <<>> => s.min = Min(ToSet(values)) /\ s.max = Max(ToSet(values))
           /\ s.state = "Histogram" =>
                /\ Last(s.buckets) = <<MAX_VALUE, Len(values)>>
                /\ \A i \in DOMAIN s.buckets : s.buckets[i][2] = CountOf(values, LAMBDA v : v <= s.buckets[i][1])
           /\ s.state = "Summary" =>
                LET kept  == SubSeq(given1, Max({1, Len(given1) - pair.metricKey.keyType.maxSize + 1}), Len(given1))
                    fresh == {kept[i][1] : i \in {j \in DOMAIN kept : now - kept[j][2] <= pair.metricKey.keyType.maxAge}}
                IN \A i \in DOMAIN s.quantiles : ToSet(s.quantiles[i][2]) \subseteq fresh

\* "If the buffer is already full then all elements contains a valid measurement with
\* timestamp.  At any given point in time we can enumerate all the non-null elements in the
\* buffer" (src/src/internal/metric/hook.ts:179-183): the snapshot is of all of the window.
\* The code does not: see the README.
SummaryHasAll ==
  \A key \in DOMAIN map : map[key].hook = "Summary" =>
    LET h == map[key]
        fresh == {i \in DOMAIN h.values : h.values[i] # None /\ now - h.values[i][1][1] <= h.maxAge}
    IN Len(window(h, now)) = Cardinality(fresh)
=============================================================================
