------------------------------- MODULE Causes -------------------------------
(***************************************************************************)
(* Causes of failure (src/internal/cause.ts) and exits (the exit* functions  *)
(* of src/internal/core.ts), as the functions they are.  A cause is a tree  *)
(* with errors, defects and fiber ids at its leaves; its constructors never *)
(* simplify, and two causes are equal if they flatten to the same thing.    *)
(***************************************************************************)
EXTENDS Integers, Sequences, SequencesExt, FiniteSets, TLC

\* The constructors.
empty               == [tag |-> "Empty"]
fail(error)         == [tag |-> "Fail", value |-> error]
die(defect)         == [tag |-> "Die", value |-> defect]
interrupt(fiberId)  == [tag |-> "Interrupt", value |-> fiberId]
annotated(cause, a) == [tag |-> "Annotated", cause |-> cause, annotation |-> a]
parallel(l, r)      == [tag |-> "Parallel", left |-> l, right |-> r]
sequential(l, r)    == [tag |-> "Sequential", left |-> l, right |-> r]

\* The constructors as functions, where one is handed over.
toFail       == [e \in Any |-> fail(e)]
toDie        == [d \in Any |-> die(d)]
toInterrupt  == [id \in Any |-> interrupt(id)]
toAnnotated  == [c, a \in Any |-> annotated(c, a)]
toSequential == [l, r \in Any |-> sequential(l, r)]
toParallel   == [l, r \in Any |-> parallel(l, r)]

\* Option
None      == [tag |-> "None"]
Some(x)   == [tag |-> "Some", value |-> x]
isSome(o) == o.tag = "Some"
----------------------------------------------------------------------------
(* The traversals.                                                         *)

\* match, which is reduceWithContext: from the leaves up.
match(self, onEmpty, onFail, onDie, onInterrupt, onAnnotated, onSequential, onParallel) ==
  LET RECURSIVE go(_)
      go(c) == CASE c.tag = "Empty"      -> onEmpty
                 [] c.tag = "Fail"       -> onFail[c.value]
                 [] c.tag = "Die"        -> onDie[c.value]
                 [] c.tag = "Interrupt"  -> onInterrupt[c.value]
                 [] c.tag = "Annotated"  -> onAnnotated[go(c.cause), c.annotation]
                 [] c.tag = "Sequential" -> onSequential[go(c.left), go(c.right)]
                 [] c.tag = "Parallel"   -> onParallel[go(c.left), go(c.right)]
  IN go(self)

\* The causes of which a cause is made, in the order reduce and find meet them.
subcauses(self) ==
  LET RECURSIVE go(_)
      go(c) == CASE c.tag \in {"Sequential", "Parallel"} -> <<c>> \o go(c.left) \o go(c.right)
                 [] c.tag = "Annotated" -> <<c>> \o go(c.cause)
                 [] OTHER -> <<c>>
  IN go(self)

reduce(self, zero, pf) == FoldLeft(LAMBDA z, c : pf[z, c], zero, subcauses(self))

\* find: the first that satisfies what is asked.
find(self, is) ==
  LET found == SelectSeq(subcauses(self), LAMBDA c : is[c])
  IN IF found = <<>> THEN None ELSE Some(found[1])

\* reduceWithContext with the FilterCauseReducer.
filter(self, predicate) ==
  LET keep(l, r, both) == IF predicate[l] THEN IF predicate[r] THEN both ELSE l
                          ELSE IF predicate[r] THEN r ELSE empty
  IN match(self, empty, toFail, toDie, toInterrupt, toAnnotated,
           [l, r \in Any |-> keep(l, r, sequential(l, r))], [l, r \in Any |-> keep(l, r, parallel(l, r))])
----------------------------------------------------------------------------
(* What a cause is made of.                                                *)

isFailType(c)      == c.tag = "Fail"
isDieType(c)       == c.tag = "Die"
isInterruptType(c) == c.tag = "Interrupt"

size(self) ==
  match(self, 0, [e \in Any |-> 1], [d \in Any |-> 1], [f \in Any |-> 1], [n, a \in Any |-> n],
        [l, r \in Any |-> l + r], [l, r \in Any |-> l + r])

isEmpty(self) ==
  reduce(self, TRUE, [acc, c \in Any |-> IF c.tag \in {"Die", "Fail", "Interrupt"} THEN FALSE ELSE acc])

isInterruptedOnly(self) ==
  match(self, TRUE, [e \in Any |-> FALSE], [d \in Any |-> FALSE], [f \in Any |-> TRUE], [b, a \in Any |-> b],
        [l, r \in Any |-> l /\ r], [l, r \in Any |-> l /\ r])

failures(self) ==
  Reverse(reduce(self, <<>>, [list, c \in Any |-> IF isFailType(c) THEN <<c.value>> \o list ELSE list]))
defects(self) ==
  Reverse(reduce(self, <<>>, [list, c \in Any |-> IF isDieType(c) THEN <<c.value>> \o list ELSE list]))
interruptors(self) ==
  reduce(self, {}, [set, c \in Any |-> IF isInterruptType(c) THEN set \cup {c.value} ELSE set])

valueOf(option)       == IF isSome(option) THEN Some(option.value.value) ELSE None
failureOption(self)   == valueOf(find(self, [c \in Any |-> isFailType(c)]))
dieOption(self)       == valueOf(find(self, [x \in Any |-> isDieType(x)]))
interruptOption(self) == valueOf(find(self, [x \in Any |-> isInterruptType(x)]))
isFailure(self)       == isSome(failureOption(self))
isDie(self)           == isSome(dieOption(self))
isInterrupted(self)   == isSome(interruptOption(self))

failureOrCause(self) ==
  LET option == failureOption(self)
  IN IF isSome(option) THEN [tag |-> "Left", value |-> option.value] ELSE [tag |-> "Right", value |-> self]

\* squashWith: what is thrown of a cause.
squash(self) ==
  CASE isFailure(self) -> failureOption(self).value
    [] ~isFailure(self) /\ defects(self) # <<>> -> Head(defects(self))
    [] OTHER -> [tag |-> "InterruptedException", fibers |-> interruptors(self)]
----------------------------------------------------------------------------
(* Causes of causes.                                                       *)

\* Of two parts that may be gone, what is left.
eitherOf(l, r, both) ==
  CASE isSome(l) /\ isSome(r) -> Some(both[l.value, r.value])
    [] isSome(l) /\ ~isSome(r) -> l
    [] OTHER -> r

keepWith(self, onEmpty, onFail, onDie, onInterrupt) ==
  match(self, onEmpty, onFail, onDie, onInterrupt,
        [o, a \in Any |-> IF isSome(o) THEN Some(annotated(o.value, a)) ELSE None],
        [l, r \in Any |-> eitherOf(l, r, toSequential)],
        [l, r \in Any |-> eitherOf(l, r, toParallel)])

keepDefects(self) ==
  keepWith(self, None, [e \in Any |-> None], [d \in Any |-> Some(die(d))], [f \in Any |-> None])

\* Mutant of keepDefectsAndElectFailures: the failures are dropped.
dropFailures(self) == keepDefects(self)

keepDefectsAndElectFailures(self) ==
  keepWith(self, None, [e \in Any |-> Some(die(e))], [d \in Any |-> Some(die(d))], [f \in Any |-> None])

flipCauseOption(self) ==
  keepWith(self, Some(empty), [o \in Any |-> IF isSome(o) THEN Some(fail(o.value)) ELSE None],
           [d \in Any |-> Some(die(d))], [f \in Any |-> Some(interrupt(f))])

stripSomeDefects(self, pf) ==
  keepWith(self, Some(empty), [e \in Any |-> Some(fail(e))],
           [d \in Any |-> IF isSome(pf[d]) THEN None ELSE Some(die(d))], [f \in Any |-> Some(interrupt(f))])

annotating == [c, a \in Any |-> IF c.tag = "Empty" THEN c ELSE annotated(c, a)]

stripFailures(self) ==
  match(self, empty, [e \in Any |-> empty], toDie, toInterrupt, annotating, toSequential, toParallel)
electFailures(self) ==
  match(self, empty, toDie, toDie, toInterrupt, annotating, toSequential, toParallel)

flatMap(self, f) == match(self, empty, f, toDie, toInterrupt, toAnnotated, toSequential, toParallel)
map(self, f)     == flatMap(self, [e \in Any |-> fail(f[e])])
as(self, error)  == map(self, [e \in Any |-> error])
flatten(self)    == flatMap(self, [c \in Any |-> c])
unannotate(self) ==
  match(self, empty, toFail, toDie, toInterrupt, [c, a \in Any |-> c], toSequential, toParallel)

\* linearize: the causes in which nothing happens in parallel by choice of a side.
linearize(self) ==
  match(self, {}, [e \in Any |-> {fail(e)}], [d \in Any |-> {die(d)}], [f \in Any |-> {interrupt(f)}],
        [set, a \in Any |-> {annotated(c, a) : c \in set}],
        [ls, rs \in Any |-> {sequential(l, r) : l \in ls, r \in rs}],
        [ls, rs \in Any |-> {parallel(l, r) : l \in ls, r \in rs}])
----------------------------------------------------------------------------
(* Equality.                                                               *)

\* evaluateCause: what a cause does at once, and what it does after it.
evaluateCause(self) ==
  LET RECURSIVE go(_, _, _, _)
      go(c, stack, par, seq) ==
        LET next(p) == IF stack = <<>> THEN <<p, seq>> ELSE go(Head(stack), Tail(stack), p, seq) IN
        CASE c.tag = "Empty" -> next(par)
          [] c.tag \in {"Fail", "Die", "Interrupt"} -> next(par \cup {c.value})
          [] c.tag = "Annotated" -> go(c.cause, stack, par, seq)
          [] c.tag = "Parallel"  -> go(c.left, <<c.right>> \o stack, par, seq)
          [] c.tag = "Sequential" ->
               LET l == c.left IN
               CASE l.tag = "Empty" -> go(c.right, stack, par, seq)
                 [] l.tag = "Sequential" -> go(sequential(l.left, sequential(l.right, c.right)), stack, par, seq)
                 [] l.tag = "Parallel" ->
                      go(parallel(sequential(l.left, c.right), sequential(l.right, c.right)), stack, par, seq)
                 [] l.tag = "Annotated" -> go(sequential(l.cause, c.right), stack, par, seq)
                 [] OTHER -> go(l, stack, par, <<c.right>> \o seq)
  IN go(self, <<>>, {}, <<>>)

\* One layer of several causes.
layer(causes) ==
  FoldLeft(LAMBDA acc, c : <<acc[1] \cup evaluateCause(c)[1], acc[2] \o evaluateCause(c)[2]>>,
           <<{}, <<>>>>, causes)

\* flattenCause: the sets of what happens at once, one after the other; the hash
\* of a cause is that of this sequence.
flattenCause(cause) ==
  LET RECURSIVE loop(_, _)
      loop(causes, flattened) ==
        LET l == layer(causes)
            updated == IF l[1] # {} THEN <<l[1]>> \o flattened ELSE flattened
        IN IF l[2] = <<>> THEN Reverse(updated) ELSE loop(l[2], updated)
  IN loop(<<cause>>, <<>>)

\* causeEquals.  The first layers are those of all the causes the head is made of.
causeEquals(left, right) ==
  LET RECURSIVE loop(_, _)
      loop(ls, rs) ==
        \/ ls = <<>> \/ rs = <<>>
        \/ LET l == layer(subcauses(Head(ls)))
               r == layer(subcauses(Head(rs)))
           IN l[1] = r[1] /\ loop(l[2], r[2])
  IN loop(<<left>>, <<right>>)

\* Equal.equals looks at the hashes first.
equals(left, right) == flattenCause(left) = flattenCause(right) /\ causeEquals(left, right)

contains(self, that) ==
  \/ that.tag = "Empty" \/ self = that
  \/ \E i \in DOMAIN subcauses(self) : causeEquals(subcauses(self)[i], that)
----------------------------------------------------------------------------
(* Exits.                                                                  *)

exitSucceed(value)     == [tag |-> "Success", value |-> value]
exitFailCause(cause)   == [tag |-> "Failure", cause |-> cause]
exitFail(error)        == exitFailCause(fail(error))
exitDie(defect)        == exitFailCause(die(defect))
exitInterrupt(fiberId) == exitFailCause(interrupt(fiberId))
exitUnit               == exitSucceed("void")
exitIsSuccess(self)    == self.tag = "Success"
exitIsFailure(self)    == self.tag = "Failure"
toSuccess              == [a \in Any |-> exitSucceed(a)]
toFailure              == [c \in Any |-> exitFailCause(c)]

exitMatch(self, onFailure, onSuccess) ==
  IF exitIsFailure(self) THEN onFailure[self.cause] ELSE onSuccess[self.value]

exitIsInterrupted(self)     == exitMatch(self, [x \in Any |-> isInterrupted(x)], [a \in Any |-> FALSE])
exitFlatMap(self, f)        == exitMatch(self, toFailure, f)
exitAs(self, value)         == exitMatch(self, toFailure, [a \in Any |-> exitSucceed(value)])
exitAsUnit(self)            == exitAs(self, "void")
exitMap(self, f)            == exitMatch(self, toFailure, [a \in Any |-> exitSucceed(f[a])])
exitFlatten(self)           == exitFlatMap(self, [e \in Any |-> e])
exitCauseOption(self)       == exitMatch(self, [x \in Any |-> Some(x)], [a \in Any |-> None])
exitExists(self, predicate) == exitMatch(self, [c \in Any |-> FALSE], predicate)
exitGetOrElse(self, orElse) == exitMatch(self, orElse, [a \in Any |-> a])
exitMapErrorCause(self, f)  == exitMatch(self, [c \in Any |-> exitFailCause(f[c])], toSuccess)
exitMapError(self, f)       == exitMapErrorCause(self, [c \in Any |-> map(c, f)])
exitMapBoth(self, f, g)     ==
  exitMatch(self, [c \in Any |-> exitFailCause(map(c, f))], [a \in Any |-> exitSucceed(g[a])])
exitUnannotate(self)        == exitMapErrorCause(self, [x \in Any |-> unannotate(x)])
exitFromOption(option)      == IF isSome(option) THEN exitSucceed(option.value) ELSE exitFail("void")
exitFromEither(either)      == IF either.tag = "Left" THEN exitFail(either.value) ELSE exitSucceed(either.value)

exitZipWith(self, that, onSuccess, onFailure) ==
  CASE exitIsFailure(self) /\ exitIsFailure(that) -> exitFailCause(onFailure[self.cause, that.cause])
    [] exitIsFailure(self) /\ exitIsSuccess(that) -> self
    [] exitIsSuccess(self) /\ exitIsFailure(that) -> that
    [] OTHER -> exitSucceed(onSuccess[self.value, that.value])

exitZip(self, that)         == exitZipWith(self, that, [a, b \in Any |-> <<a, b>>], toSequential)
exitZipLeft(self, that)     == exitZipWith(self, that, [a, b \in Any |-> a], toSequential)
exitZipRight(self, that)    == exitZipWith(self, that, [a, b \in Any |-> b], toSequential)
exitZipPar(self, that)      == exitZipWith(self, that, [a, b \in Any |-> <<a, b>>], toParallel)
exitZipParLeft(self, that)  == exitZipWith(self, that, [a, b \in Any |-> a], toParallel)
exitZipParRight(self, that) == exitZipWith(self, that, [a, b \in Any |-> b], toParallel)

\* exitCollectAllInternal: the values are collected from the front and turned
\* around at the end.
exitCollectAll(exits, combineCauses) ==
  IF exits = <<>> THEN None
  ELSE Some(exitMap(
         FoldLeft(LAMBDA acc, e : exitZipWith(acc, e, [list, a \in Any |-> <<a>> \o list], combineCauses),
                  exitMap(Head(exits), [a \in Any |-> <<a>>]), Tail(exits)),
         [x \in Any |-> Reverse(x)]))
=============================================================================
