----------------------------- MODULE EffectPrograms -----------------------------
(***************************************************************************)
(* Small programs made of the effects, each run alone by one fiber that is    *)
(* interrupted before any of its operations, or never.  The input is a        *)
(* program or a loop over elements; the result is what its run comes to.      *)
(***************************************************************************)
EXTENDS EffectCombinators

CONSTANTS
  Depth,          \* how deep the programs are nested
  MaxLeft,        \* the last operation before which the fiber is interrupted
  MaxElements     \* the most elements of a loop

ProgramsAssumption == Depth \in Nat /\ MaxLeft \in Nat /\ MaxElements \in Nat

VARIABLES
  input,
  result

vars == <<input, result>>

NotYet == [exit |-> "running"]
Start(left) == [trace |-> <<>>, now |-> 0, left |-> left, flags |-> {"Interruption"}, refs |-> <<>>, cells |-> <<>>]
----------------------------------------------------------------------------
(* Programs.                                                               *)

Leaves == {"say", "fail", "die", "sleep", "interrupt", "both"}
Wraps  == {"acquire", "onExit", "uninterruptible", "interruptible", "locally", "catchAll", "orElse",
           "option", "once", "memoize", "quietly"}

RECURSIVE ProgramsOf(_)
ProgramsOf(depth) ==
  LET leaves == {<<leaf>> : leaf \in Leaves} IN
  IF depth = 0 THEN leaves
  ELSE leaves \cup {<<wrap, p>> : wrap \in Wraps, p \in ProgramsOf(depth - 1)}
              \cup {<<"then", p, q>> : p \in ProgramsOf(depth - 1), q \in leaves}

flagRef == FiberRef("setting", "default")

\* An event with its place in the trace, which it gives.
numbered(name) ==
  Op([w \in Any |-> succeed(Len(w.trace) + 1)[[w EXCEPT !.trace = Append(@, <<name, Len(w.trace) + 1>>)]]])

\* What a program does with the taps and handlers that should not be noticed.
quietly(self) ==
  LET nothing == [x \in Any |-> unit]
      tapped == tapDefect(tapErrorCause(tapBoth(tapError(self, nothing), nothing, nothing), nothing), nothing)
  IN catchSome(catchSomeCause(catchSomeDefect(unsandbox(sandbox(withLog(tapped, <<"log", 0>>))),
               [d \in Any |-> None]), [c \in Any |-> None]), [e \in Any |-> None])

twice(making) == flatMap(making, [self \in Any |-> zipRight(exit(self), self)])

RECURSIVE Meaning(_)
Meaning(p) ==
  CASE p[1] = "say"       -> event(<<"say", 0>>)
    [] p[1] = "fail"      -> fail("error")
    [] p[1] = "die"       -> zipRight(event(<<"die", 0>>), dieSync("defect"))
    [] p[1] = "sleep"     -> sleep(1)
    [] p[1] = "interrupt" -> interrupt
    [] p[1] = "both"      -> zipRight(event(<<"die", 0>>),
                               failCause(Cause!parallel(Cause!fail("error"), Cause!die("defect"))))
    [] p[1] = "then"      -> zipRight(Meaning(p[2]), Meaning(p[3]))
    [] p[1] = "acquire"   -> acquireUseRelease(numbered("acquire"), [a \in Any |-> Meaning(p[2])],
                               [a, e \in Any |-> zipRight(event(<<"release", a>>), event(<<"released", a>>))])
    [] p[1] = "onExit"    -> onExit(zipRight(event(<<"enter", 0>>), Meaning(p[2])), [e \in Any |->
                               zipRight(event(<<"cleanup", 0>>), event(<<"cleaned", 0>>))])
    [] p[1] = "uninterruptible" -> uninterruptible(
                               zipLeft(zipRight(event(<<"in", 0>>), Meaning(p[2])), event(<<"out", 0>>)))
    [] p[1] = "interruptible"   -> interruptible(Meaning(p[2]))
    [] p[1] = "locally"   -> fiberRefLocally(Meaning(p[2]), flagRef, "changed")
    [] p[1] = "catchAll"  -> catchAll(Meaning(p[2]), [e \in Any |-> event(<<"handled", 0>>)])
    [] p[1] = "orElse"    -> orElse(Meaning(p[2]), event(<<"handled", 0>>))
    [] p[1] = "option"    -> option(Meaning(p[2]))
    [] p[1] = "once"      -> twice(once(zipRight(event(<<"once", 0>>), Meaning(p[2]))))
    [] p[1] = "memoize"   -> twice(memoize(zipRight(event(<<"once", 0>>), Meaning(p[2]))))
    [] p[1] = "quietly"   -> quietly(Meaning(p[2]))

\* How often a program uses some of these.
RECURSIVE Uses(_, _)
Uses(p, words) ==
  (IF p[1] \in words THEN 1 ELSE 0) + FoldLeft(LAMBDA n, q : n + Uses(q, words), 0, Tail(p))

RunProgram ==
  /\ input.kind = "program"
  /\ result = NotYet
  /\ result' = Meaning(input.program)[Start(input.left)]
  /\ UNCHANGED input
----------------------------------------------------------------------------
(* Loops over elements.                                                    *)

Answers == {"yes", "no", "fail"}
Ways == {"forEach", "filterMap", "reduce", "reduceRight", "reduceWhile", "dropUntil", "dropWhile",
         "takeUntil", "takeWhile", "findFirst", "every", "loop", "iterate", "gen"}

Elements(answers) == [i \in DOMAIN answers |-> 10 * i]

\* The callback at place i, counted from 0.
asked(answers, i) ==
  zipRight(event(i + 1),
           IF answers[i + 1] = "fail" THEN fail("error") ELSE succeed(answers[i + 1] = "yes"))

Loop(way, answers) ==
  LET elements == Elements(answers)
      ask == [a, i \in Any |-> asked(answers, i)]
      put == [s, a, i \in Any |-> as(ask[a, i], Append(s, a))]
      n == Len(answers) IN
  CASE way = "forEach"     -> forEachSequential(elements, ask)
    [] way = "filterMap"   -> filterMap([i \in DOMAIN elements |-> ask[elements[i], i - 1]],
                                        [b \in Any |-> IF b THEN Some(b) ELSE None])
    [] way = "reduce"      -> reduce(elements, <<>>, put)
    [] way = "reduceRight" -> reduceRight(elements, <<>>, [a, s, i \in Any |-> put[s, a, i]])
    [] way = "reduceWhile" -> reduceWhile(elements, <<>>, [s \in Any |-> Len(s) < 2], put)
    [] way = "dropUntil"   -> dropUntil(elements, ask)
    [] way = "dropWhile"   -> dropWhile(elements, ask)
    [] way = "takeUntil"   -> takeUntil(elements, ask)
    [] way = "takeWhile"   -> takeWhile(elements, ask)
    [] way = "findFirst"   -> findFirst(elements, ask)
    [] way = "every"       -> every(elements, ask)
    [] way = "loop"        -> loop(0, [z \in Any |-> z < n], [z \in Any |-> z + 1], [z \in Any |-> ask[z, z]])
    [] way = "iterate"     -> iterate(0, [z \in Any |-> z < n], [z \in Any |-> as(ask[z, z], z + 1)])
    [] way = "gen"         -> gen([got \in Any |-> ask[0, Len(got)]], n)
    [] way = "mapAccum"    -> mapAccum(elements, 0, [z, a, i \in Any |-> as(ask[a, i], <<z + 1, a>>)])

RunLoop ==
  /\ input.kind = "loop"
  /\ result = NotYet
  /\ result' = Loop(input.way, input.answers)[Start(input.left)]
  /\ UNCHANGED input
----------------------------------------------------------------------------
(* Ways of saying the same.  Effects that are listed together are meant to   *)
(* do the same and to give the same, for `self` one of the leaves, b a        *)
(* Boolean and e an exit; the last one often says it without the combinator.  *)

id     == [x \in Any |-> x]
giving == [x \in Any |-> succeed(x)]

SaidOfFailures(self, b) ==
  LET say   == [x \in Any |-> event(<<"handled", 0>>)]
      error == [x \in Any |-> "other"] IN
  [flipWith       |-> <<flipWith(self, id), mapBoth(self, id, id), unsandbox(sandbox(self)), self>>,
   tap            |-> <<tap(self, say), zipLeft(self, say[0])>>,
   onError        |-> <<onError(self, say), withLogCause(self, <<"handled", 0>>)>>,
   ignore         |-> <<ignore(self), asUnit(option(self))>>,
   ignoreLogged   |-> <<ignoreLogged(self, <<"handled", 0>>), catchAllCause(asUnit(self), say)>>,
   isSuccess      |-> <<isSuccess(self), negate(isFailure(self))>>,
   some           |-> <<some(asSome(self)), asSomeError(self)>>,
   none           |-> <<none(as(self, None)), asUnit(asSomeError(self))>>,
   head           |-> <<head(map(self, [a \in Any |-> <<a>>])), asSomeError(self)>>,
   orElseFail     |-> <<orElseFail(self, "other"), firstSuccessOf(<<self, fail("other")>>)>>,
   orElseSucceed  |-> <<orElseSucceed(self, 1), firstSuccessOf(<<self, fail("other"), succeed(1)>>)>>,
   parallelErrors |-> <<parallelErrors(self), mapError(self, [e \in Any |-> <<e>>])>>,
   catchAllDefect |-> <<catchAllDefect(self, say),
                        unsandbox(catchAll(sandbox(self), [c \in Any |->
                          IF Cause!isDie(c) THEN say[c] ELSE fail(c)]))>>,
   catchTag       |-> <<catchTag(self, "error", say), _catch(self, "error", say),
                        catchSome(self, [e \in Any |-> Some(say[e])])>>,
   otherTag       |-> <<catchTag(self, "other", say), self>>,
   filterOrDie    |-> <<filterOrDie(self, [a \in Any |-> b], "defect"),
                        flatMap(self, [a \in Any |-> if_(succeed(b), succeed(a), die("defect"))])>>,
   filterOrFail   |-> <<filterOrFail(self, [a \in Any |-> b], error),
                        flatMap(self, [a \in Any |-> if_(succeed(b), succeed(a), fail("other"))])>>,
   filterOrDieMessage |-> <<filterOrDieMessage(self, [a \in Any |-> b], "other"),
                            zipRight(self, if_(succeed(b), unit, dieMessage("other")))>>]

SaidOfSteps(self, b) ==
  [when         |-> <<when(self, b), unless(self, ~b), unlessEffect(self, succeed(~b)), whenEffect(self, succeed(b))>>,
   whenRef      |-> <<whenFiberRef(self, FiberRef("bool", b), id),
                      flatMap(refMake(b), [ref \in Any |-> whenRef(self, ref, id)]),
                      map(when(self, b), [o \in Any |-> <<b, o>>])>>,
   bind         |-> <<bind(Do, "x", [k \in Any |-> self]), bindTo(self, "x")>>,
   bindValue    |-> <<bindValue(bindTo(self, "x"), "y", [k \in Any |-> k.x]),
                      map(self, [a \in Any |-> [x |-> a, y |-> a]])>>,
   loopDiscard  |-> <<loopDiscard(0, [z \in Any |-> z < 2], [z \in Any |-> z + 1], [z \in Any |-> self]),
                      forEachSequentialDiscard(<<1, 2>>, [x, i \in Any |-> self]), asUnit(repeatN(self, 1)),
                      zipRight(self, asUnit(self))>>,
   eventually   |-> <<eventually(self, 1), orElse(self, orElse(self, die("diverges")))>>,
   zipFlatten   |-> <<zipFlatten(map(self, [a \in Any |-> <<a>>]), succeed(b)), zip(self, succeed(b))>>,
   asyncOption  |-> <<asyncOption(IF b THEN Some(self) ELSE None, 1, self), interruptibleMask([old \in Any |->
                      restored(old, self)]), flatMapStep(self, doing), self>>,
   withSpan     |-> <<withSpan(zipRight(exit(self), currentSpan), "span", IF b THEN "root" ELSE "current"),
                      zipLeft(zipRight(event("span"), zipRight(exit(self), succeed(Some("span")))),
                              event("spanEnd"))>>]

SaidOfPromises(self, e) ==
  [promise |-> <<promise(1, e), promiseInterrupt(1, e), tryPromise(Cause!exitUnit, 1, e, id),
                 tryPromiseInterrupt(Cause!exitUnit, 1, e, id), done(e)>>,
   tryMap  |-> LET toExit == [a \in Any |-> e] IN
               <<tryMap(self, toExit, id), tryMapPromise(self, 1, toExit, id),
                 tryMapPromiseInterrupt(self, 1, toExit, id), zipRight(self, done(e))>>]

\* What a region gives to the effect in it, and the flags and refs as they are outside.
SaidOfRegions ==
  LET db(n) == provideService(serviceFunction("db", id), "db", n) IN
  [provideService  |-> <<db(6), provideService(serviceFunctionEffect("db", giving), "db", 6),
                         provideService(updateService(serviceFunction("db", id), "db", [n \in Any |-> n + 1]), "db", 5),
                         provideService(provideSomeContext(serviceFunction("db", id), {<<"log", 1>>}), "db", 6),
                         succeed(6)>>,
   withConcurrency |-> <<withConcurrency(fiberRefGet(currentConcurrency), 3), succeed(3)>>,
   withBatching    |-> <<withRequestBatching(fiberRefGet(currentRequestBatching), FALSE), succeed(FALSE)>>,
   withPriority    |-> <<withSchedulingPriority(fiberRefGet(currentSchedulingPriority), 1), succeed(1)>>,
   annotate        |-> <<annotateLogs(logAnnotations, "k", 1), annotateSpans(spanAnnotations, "k", 1),
                         succeed([k |-> 1])>>,
   withLogSpan     |-> <<zipRight(sleep(2), withLogSpan(fiberRefGet(currentLogSpan), "span")),
                         zipRight(sleep(2), succeed(<<[label |-> "span", startTime |-> 2]>>))>>,
   timed           |-> <<timed(sleep(2)), as(sleep(2), <<2, void>>)>>,
   tagMetrics      |-> <<tagMetrics(fiberRefGet(currentMetricLabels), "k", 1), succeed({<<"k", 1>>})>>,
   grafted         |-> <<grafted(transplant(giving, "here"), Some("there")), succeed(Some("there"))>>,
   transplant      |-> <<transplant(giving, "here"), succeed(Some("here"))>>,
   flags           |-> <<withRuntimeFlags(runtimeFlags, {"Metrics"}, {"Interruption"}), succeed({"Metrics"})>>,
   masked          |-> <<checkInterruptible(giving), negate(uninterruptible(checkInterruptible(giving))), succeed(TRUE)>>,
   setFiberRefs    |-> <<flatMap(getFiberRefs, [refs \in Any |->
                           zipRight(fiberRefSet(flagRef, 1), zipRight(setFiberRefs(refs), fiberRefGet(flagRef)))]),
                         zipRight(fiberRefSet(flagRef, 1), zipRight(fiberRefDelete(flagRef), fiberRefGet(flagRef))),
                         zipRight(fiberRefSet(flagRef, 1), zipRight(fiberRefReset(flagRef), fiberRefGet(flagRef))),
                         succeed("default")>>,
   allowInterrupt  |-> <<allowInterrupt, asUnit(descriptor)>>,
   partitionMap    |-> <<succeed(partitionMap(<<1, 2, 3>>, [n \in Any |-> [tag |-> IF n = 2 THEN "Left" ELSE "Right",
                           value |-> n]])), succeed(<<<<2>>, <<1, 3>>>>)>>]

\* The operations on a fiber ref and those on a Ref, with what they give and leave of v.
SaidOfRefs(v) ==
  LET fiberRef   == FiberRef("cell", v)
      next       == [n \in Any |-> n + 1]
      nextOfOne  == [n \in Any |-> IF n = 1 THEN Some(n + 1) ELSE None]
      pairOfOne  == [n \in Any |-> IF n = 1 THEN Some(<<9, n + 1>>) ELSE None]
      updated    == getOrElse(nextOfOne[v], v)
      both(onFiberRef, onRef(_), gives, leaves) ==
        <<zip(onFiberRef, fiberRefGet(fiberRef)),
          flatMap(refMake(v), [ref \in Any |-> zip(onRef(ref), refGet(ref))]), succeed(<<gives, leaves>>)>> IN
  [getAndSet     |-> both(fiberRefGetAndSet(fiberRef, 5), LAMBDA r : refGetAndSet(r, 5), v, 5),
   getAndUpdate  |-> both(fiberRefGetAndUpdate(fiberRef, next), LAMBDA r : refGetAndUpdate(r, next), v, v + 1),
   getAndUpdateSome |-> both(fiberRefGetAndUpdateSome(fiberRef, nextOfOne),
                             LAMBDA r : refGetAndUpdateSome(r, nextOfOne), v, updated),
   modifySome    |-> both(fiberRefModifySome(fiberRef, 8, pairOfOne), LAMBDA r : refModifySome(r, 8, pairOfOne),
                          IF v = 1 THEN 9 ELSE 8, updated),
   set           |-> both(as(fiberRefSet(fiberRef, 5), 5), LAMBDA r : refSetAndGet(r, 5), 5, 5),
   update        |-> both(fiberRefUpdate(fiberRef, next), LAMBDA r : refUpdate(r, next), void, v + 1),
   updateAndGet  |-> both(fiberRefUpdateAndGet(fiberRef, next), LAMBDA r : refUpdateAndGet(r, next), v + 1, v + 1),
   updateSome    |-> both(fiberRefUpdateSome(fiberRef, nextOfOne), LAMBDA r : refUpdateSome(r, nextOfOne),
                          void, updated),
   updateSomeAndGet |-> both(fiberRefUpdateSomeAndGet(fiberRef, nextOfOne),
                             LAMBDA r : refUpdateSomeAndGet(r, nextOfOne), updated, updated)]

Said(of, self, b) ==
  CASE of = "failures" -> SaidOfFailures(self, b)
    [] of = "steps"    -> SaidOfSteps(self, b)
    [] of = "promises" -> SaidOfPromises(self, IF b THEN Cause!exitSucceed(1) ELSE Cause!exitFail("other"))
    [] of = "regions"  -> SaidOfRegions
    [] of = "refs"     -> SaidOfRefs(IF b THEN 1 ELSE 2)

\* All that a program notices of a run.
Noticed(r) == <<r.exit, r.world.trace, r.world.now, r.world.flags>>

NoticedOfAll(said) ==
  [way \in DOMAIN said |-> [i \in DOMAIN said[way] |-> Noticed(said[way][i][Start(Never)])]]

RunSaid ==
  /\ input.kind = "said"
  /\ result = NotYet
  /\ result' = NoticedOfAll(Said(input.of, Meaning(<<input.leaf>>), input.b))
  /\ UNCHANGED input
----------------------------------------------------------------------------
Programs(depth, maxLeft) ==
  {[kind |-> "program", program |-> p, left |-> l] : p \in ProgramsOf(depth), l \in {Never} \cup 0..maxLeft}
Loops(ways, maxElements) ==
  {[kind |-> "loop", way |-> w, answers |-> a, left |-> Never] :
     w \in ways, a \in UNION {[1..n -> Answers] : n \in 0..maxElements}}

SaidAgain ==
  [kind : {"said"}, of : {"failures", "steps", "promises", "regions", "refs"},
   leaf : {"say", "fail", "die", "sleep", "interrupt"}, b : BOOLEAN]

Init == input \in Programs(Depth, MaxLeft) \cup Loops(Ways, MaxElements) \cup SaidAgain /\ result = NotYet
Next == RunProgram \/ RunLoop \/ RunSaid
Spec == Init /\ [][Next]_vars
----------------------------------------------------------------------------
(* Properties.                                                             *)

Ran         == result # NotYet
RanAs(kind) == Ran /\ input.kind = kind
Trace       == result.world.trace
Count(name) == Len(SelectSeq(Trace, LAMBDA e : e[1] = name))
Failed      == Cause!exitIsFailure(result.exit)

\* A property of the runs of acquireUseRelease (core.ts:356): each time something was
\* acquired it is released, wholly, once and later; what was acquired last is released
\* first, whenever the fiber is interrupted and however the use of it ends.
ReleasedInReverse ==
  RanAs("program") =>
    LET at(name, a) == {j \in DOMAIN Trace : Trace[j] = <<name, a>>}
        Acquired == {a \in DOMAIN Trace : Trace[a] = <<"acquire", a>>} IN
    /\ \A a \in Acquired : Cardinality(at("release", a)) = 1 /\ Cardinality(at("released", a)) = 1
    /\ \A a \in Acquired : \A j \in at("released", a) : j > a
    /\ \A a, b \in Acquired : a < b =>
         \A i \in at("release", a), j \in at("released", b) : i < b \/ j < i

\* The end of every region leaves the fiber as it was (contOpSuccess, OP_FAILURE in
\* fiberRuntime.ts and fiberRefLocally): the flags are those of the start, and a fiber
\* ref that was set locally has its value back.
RegionsAreLeft ==
  RanAs("program") =>
    /\ result.world.flags = {"Interruption"}
    /\ getFiberRef(result.world, flagRef) = "default"

\* What onExit cleans up is cleaned up wholly if the effect was entered (core.ts:782), and
\* what is uninterruptible goes on to its end, unless it fails or lets itself be interrupted.
CleanupIsWhole ==
  RanAs("program") =>
    /\ Count("cleanup") >= Count("enter")
    /\ Count("cleanup") = Count("cleaned")
    /\ Uses(input.program, {"fail", "die", "both", "interrupt", "interruptible"}) = 0 =>
         Count("in") = Count("out")

\* A defect is not handled by what handles failures (matchEffect, core.ts:711, and
\* attemptOrElse): a program that nobody interrupts and that had one ends with it.
DefectsSurvive ==
  RanAs("program") =>
    (Count("die") > 0 /\ input.left = Never /\ Uses(input.program, {"once", "memoize"}) = 0 =>
      /\ Failed
      /\ Cause!defects(result.exit.cause) # <<>>)

\* An interruption changes nothing of what is uninterruptible once it has begun (core.ts:1064 and
\* OP_FAILURE in fiberRuntime.ts): it has the events it has when nobody interrupts, and fails with
\* what it fails with then, to which the end of the region at most adds the interruption.
MaskedIsUndisturbed ==
  RanAs("program") /\ input.program[1] = "uninterruptible" /\ Count("in") > 0
    /\ Uses(input.program, {"interruptible"}) = 0 =>
      LET alone == Meaning(input.program)[Start(Never)] IN
      /\ Trace = alone.world.trace
      /\ IF Cause!exitIsSuccess(alone.exit)
         THEN result.exit = alone.exit \/ Cause!isInterruptedOnly(result.exit.cause)
         ELSE /\ Failed
              /\ Cause!failures(result.exit.cause) = Cause!failures(alone.exit.cause)
              /\ Cause!defects(result.exit.cause) = Cause!defects(alone.exit.cause)

\* What is to be done once is not done again, though each is tried twice here: not after it
\* failed either (once and memoize, effect.ts:1084).
DoneOnce ==
  RanAs("program") => Count("once") <= Uses(input.program, {"once", "memoize"})

\* The loops of effect.ts and core.ts agree with what they are in words: they ask the
\* elements in order, none twice, up to the first answer that settles it, and give the
\* elements on the right side of that place, or its failure.
LoopsAgree ==
  RanAs("loop") =>
    LET answers  == input.answers
        elements == Elements(answers)
        n        == Len(answers)
        first(settling) == LET s == {i \in 1..n : answers[i] \in settling \cup {"fail"}}
                           IN IF s = {} THEN n + 1 ELSE CHOOSE i \in s : \A j \in s : i <= j
        upTo(k)  == [i \in 1..(IF k > n THEN n ELSE k) |-> i]
        is(settling, value(_)) ==
          LET k == first(settling) IN
          /\ Trace = upTo(k)
          /\ result.exit = IF k <= n /\ answers[k] = "fail" THEN Cause!exitFail("error")
                           ELSE Cause!exitSucceed(value(k))
        yesses == [i \in DOMAIN answers |-> answers[i] = "yes"] IN
    CASE input.way \in {"forEach", "loop", "gen"} -> is({}, LAMBDA k : yesses)
      [] input.way = "filterMap"  -> is({}, LAMBDA k : SelectSeq(yesses, LAMBDA b : b))
      [] input.way = "reduce"     -> is({}, LAMBDA k : elements)
      [] input.way = "iterate"    -> is({}, LAMBDA k : n)
      [] input.way = "takeUntil"  -> is({"yes"}, LAMBDA k : SubSeq(elements, 1, IF k > n THEN n ELSE k))
      [] input.way = "takeWhile"  -> is({"no"}, LAMBDA k : SubSeq(elements, 1, k - 1))
      [] input.way = "dropUntil"  -> is({"yes"}, LAMBDA k : SubSeq(elements, k + 1, n))
      [] input.way = "dropWhile"  -> is({"no"}, LAMBDA k : SubSeq(elements, k, n))
      [] input.way = "findFirst"  -> is({"yes"}, LAMBDA k : IF k > n THEN None ELSE Some(elements[k]))
      [] input.way = "every"      -> is({"no"}, LAMBDA k : k > n)
      [] input.way = "reduceWhile" ->
           LET k == IF first({}) < 2 \/ n < 2 THEN first({}) ELSE IF first({}) = 2 THEN 2 ELSE 3 IN
           result.exit = IF k <= 2 /\ k <= n THEN Cause!exitFail("error")
                         ELSE Cause!exitSucceed(SubSeq(elements, 1, IF n < 2 THEN n ELSE 2))
      [] input.way = "reduceRight" ->
           (\A i \in 1..n : answers[i] # "fail") => result.exit = Cause!exitSucceed(Reverse(elements))
      [] OTHER -> TRUE

\* The combinators agree with each other and with what they stand for (effect.ts, core.ts): two
\* ways of saying the same have the same events at the same time, the same exit with the
\* same cause, and leave the same flags.
WaysAgree ==
  RanAs("said") => \A way \in DOMAIN result : \A i \in DOMAIN result[way] : result[way][i] = result[way][1]

\* "Statefully and effectfully maps over the elements of this chunk to produce new
\* elements." (src/src/Effect.ts:2091)  The code does not: see the README.
MapAccumMapsElements ==
  RanAs("loop") /\ input.way = "mapAccum" /\ ~Failed =>
    result.exit.value = <<Len(input.answers), Elements(input.answers)>>
=============================================================================
