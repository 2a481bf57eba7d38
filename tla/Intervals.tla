------------------------------- MODULE Intervals -------------------------------
(***************************************************************************)
(* src/internal/schedule/interval.ts: the instants from a first one up to,   *)
(* and without, a last one.  src/internal/schedule/intervals.ts: intervals   *)
(* one after another.                                                        *)
(***************************************************************************)
EXTENDS Integers, Sequences

CONSTANT
  Infinity        \* a time after all others

(* One.                                                                    *)

intervalEmpty == [startMillis |-> 0, endMillis |-> 0]
intervalMake(startMillis, endMillis) ==
  IF startMillis > endMillis THEN intervalEmpty ELSE [startMillis |-> startMillis, endMillis |-> endMillis]

intervalIsEmpty(self) == self.startMillis >= self.endMillis

\* The one that ends before the other starts, or starts first, or ends first.
intervalMin(self, that) ==
  CASE self.endMillis <= that.startMillis -> self
    [] self.endMillis > that.startMillis /\ that.endMillis <= self.startMillis -> that
    [] OTHER -> IF \/ self.startMillis < that.startMillis
                   \/ self.startMillis = that.startMillis /\ self.endMillis <= that.endMillis
                THEN self ELSE that
intervalLessThan(self, that) == intervalMin(self, that) = self
intervalMax(self, that)      == IF intervalMin(self, that) = self THEN that ELSE self

\* What both have, which is also what union makes of two that do not overlap.
intervalOverlap(self, that) ==
  <<IF self.startMillis > that.startMillis THEN self.startMillis ELSE that.startMillis,
    IF self.endMillis < that.endMillis THEN self.endMillis ELSE that.endMillis>>
intervalIntersect(self, that) == LET o == intervalOverlap(self, that) IN intervalMake(o[1], o[2])
intervalUnion(self, that) ==
  LET o == intervalOverlap(self, that)
  IN IF o[1] < o[2] THEN [tag |-> "None"] ELSE [tag |-> "Some", value |-> intervalMake(o[1], o[2])]

intervalSize(self)     == self.endMillis - self.startMillis
intervalAfter(millis)  == intervalMake(millis, Infinity)
intervalBefore(millis) == intervalMake(-Infinity, millis)
----------------------------------------------------------------------------
(* Lists of them.                                                          *)

empty == <<>>

\* The interval that is being grown takes in the next one, which has the last word
\* on its end, or is left behind for it.
unionLoop(_self, _that, _interval) ==
  LET RECURSIVE loop(_, _, _, _)
      grow(self, that, head, interval, acc) ==
        IF interval.endMillis < head.startMillis THEN loop(self, that, head, Append(acc, interval))
        ELSE loop(self, that, intervalMake(interval.startMillis, head.endMillis), acc)
      loop(self, that, interval, acc) ==
        CASE self = <<>> /\ that = <<>> -> Append(acc, interval)
          [] self # <<>> /\ (that = <<>> \/ Head(self).startMillis < Head(that).startMillis) ->
               grow(Tail(self), that, Head(self), interval, acc)
          [] OTHER -> grow(self, Tail(that), Head(that), interval, acc)
  IN loop(_self, _that, _interval, <<>>)

union(self, that) ==
  CASE that = <<>> -> self
    [] that # <<>> /\ self = <<>> -> that
    [] OTHER -> IF Head(self).startMillis < Head(that).startMillis
                THEN unionLoop(Tail(self), that, Head(self))
                ELSE unionLoop(self, Tail(that), Head(that))

RECURSIVE fromIterable(_)
fromIterable(intervals) ==
  IF intervals = <<>> THEN empty
  ELSE union(fromIterable(SubSeq(intervals, 1, Len(intervals) - 1)), <<intervals[Len(intervals)]>>)

\* Mutant of intersectLoop: the later of the two is dropped.
dropLater(_left, _right) ==
  LET RECURSIVE loop(_, _, _)
      loop(left, right, acc) ==
        IF left = <<>> \/ right = <<>> THEN acc
        ELSE LET both == intervalIntersect(Head(left), Head(right))
                 next == IF intervalIsEmpty(both) THEN acc ELSE Append(acc, both)
             IN IF intervalLessThan(Head(left), Head(right)) THEN loop(left, Tail(right), next)
                ELSE loop(Tail(left), right, next)
  IN loop(_left, _right, <<>>)

intersectLoop(_left, _right) ==
  LET RECURSIVE loop(_, _, _)
      loop(left, right, acc) ==
        IF left = <<>> \/ right = <<>> THEN acc
        ELSE LET both == intervalIntersect(Head(left), Head(right))
                 next == IF intervalIsEmpty(both) THEN acc ELSE Append(acc, both)
             IN IF intervalLessThan(Head(left), Head(right)) THEN loop(Tail(left), right, next)
                ELSE loop(left, Tail(right), next)
  IN loop(_left, _right, <<>>)
intersect(self, that) == intersectLoop(self, that)

headOf(self)         == IF self = <<>> THEN intervalEmpty ELSE Head(self)
start(self)          == headOf(self).startMillis
end(self)            == headOf(self).endMillis
lessThan(self, that) == start(self) < start(that)
isNonEmpty(self)     == self # <<>>
max(self, that)      == IF lessThan(self, that) THEN that ELSE self
=============================================================================
