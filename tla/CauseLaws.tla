------------------------------ MODULE CauseLaws ------------------------------
(***************************************************************************)
(* What the functions on causes and exits promise of each other, over the  *)
(* causes of up to two levels: see Causes.                                 *)
(***************************************************************************)
EXTENDS Integers, Sequences, FiniteSets, TLC
LOCAL C == INSTANCE Causes

CONSTANTS Errors, Defects

CausesAssumption == IsFiniteSet(Errors) /\ IsFiniteSet(Defects)

VARIABLES input, result

vars == <<input, result>>

Leaf == {C!empty, C!interrupt("fiber")} \cup {C!fail(e) : e \in Errors} \cup {C!die(d) : d \in Defects}

Both == {C!sequential(l, r) : l, r \in Leaf} \cup {C!parallel(l, r) : l, r \in Leaf}
Deep == Leaf \cup Both \cup {C!annotated(l, "span") : l \in Leaf}

NotYet == [kind |-> "none"]

Init == input = NotYet /\ result = NotYet

\* Two causes and a leaf are put together in two ways that are meant to be equal.
Compare ==
  /\ input = NotYet
  /\ \E a, c \in Deep, b \in Leaf :
       LET seq(x, y)  == C!sequential(x, y)
           par(x, y)  == C!parallel(x, y)
           same(x, y) == C!equals(x, y)
           hash(x)    == C!flattenCause(x) IN
       /\ input' = [kind |-> "laws", causes |-> <<a, b, c>>]
       /\ result' = [sequence   |-> same(seq(seq(a, b), c), seq(a, seq(b, c))),
                     parallel   |-> same(par(par(a, b), c), par(a, par(b, c))),
                     unit       |-> \A x \in {seq(a, C!empty), seq(C!empty, a), par(a, C!empty), par(C!empty, a)} :
                                      same(x, a),
                     distribute |-> same(seq(par(a, b), c), par(seq(a, c), seq(b, c))),
                     symmetric  |-> same(a, c) = same(c, a),
                     hashes     |-> /\ hash(par(a, c)) = hash(par(c, a))
                                    /\ hash(seq(a, par(b, c))) = hash(par(seq(a, b), seq(a, c)))]

Transform ==
  /\ input = NotYet
  /\ \E c \in Deep :
       /\ input' = [kind |-> "keep", causes |-> <<c>>]
       /\ result' = [defects  |-> C!keepDefects(c), elected |-> C!keepDefectsAndElectFailures(c),
                     stripped |-> C!stripFailures(c), died |-> C!electFailures(c),
                     linear   |-> C!linearize(c),
                     flipped  |-> C!flipCauseOption(C!map(c, [e \in Any |-> C!Some(e)])),
                     gone     |-> C!flipCauseOption(C!as(c, C!None)),
                     kept     |-> C!stripSomeDefects(c, [d \in Any |-> C!None]),
                     handled  |-> C!stripSomeDefects(c, [d \in Any |-> C!Some(d)]),
                     thrown   |-> C!squash(c)]

Exits == {C!exitSucceed("x"), C!exitSucceed("y"), C!exitInterrupt("fiber")}
         \cup {C!exitFail(e) : e \in Errors} \cup {C!exitDie(d) : d \in Defects}

\* What is said of two exits in more than one way, the last of which often is without
\* the function it is about.
SaidOf(a, b) ==
  LET id      == [x \in Any |-> x]
      first   == [p \in Any |-> p[1]]
      second  == [p \in Any |-> p[2]]
      other   == [x \in Any |-> "other"]
      isX     == [x \in Any |-> x = "x"]
      ok      == C!exitIsSuccess(a) IN
  [zip      |-> <<C!exitZip(a, b), C!exitCollectAll(<<a, b>>, C!toSequential).value>>,
   left     |-> <<C!exitZipLeft(a, b), C!exitMap(C!exitZip(a, b), first)>>,
   right    |-> <<C!exitZipRight(a, b), C!exitMap(C!exitZip(a, b), second)>>,
   par      |-> <<C!exitZipPar(a, b), C!exitCollectAll(<<a, b>>, C!toParallel).value>>,
   parLeft  |-> <<C!exitZipParLeft(a, b), C!exitMap(C!exitZipPar(a, b), first)>>,
   parRight |-> <<C!exitZipParRight(a, b), C!exitMap(C!exitZipPar(a, b), second)>>,
   flatten  |-> <<C!exitFlatten(C!exitAs(a, b)), IF ok THEN b ELSE a>>,
   mapBoth  |-> <<C!exitMapBoth(a, other, other), C!exitMapError(C!exitAs(a, "other"), other)>>,
   asUnit   |-> <<C!exitAsUnit(a), C!exitMapBoth(a, id, [x \in Any |-> "void"])>>,
   option   |-> <<C!exitFromOption(IF ok THEN C!Some(a.value) ELSE C!None), IF ok THEN a ELSE C!exitFail("void")>>,
   either   |-> <<C!exitFromEither([tag |-> IF ok THEN "Right" ELSE "Left", value |-> "x"]),
                  IF ok THEN C!exitSucceed("x") ELSE C!exitFail("x")>>,
   orElse   |-> <<C!exitGetOrElse(a, [c \in Any |-> "other"]), IF ok THEN a.value ELSE "other">>,
   exists   |-> <<C!exitExists(a, isX), a = C!exitSucceed("x")>>,
   stopped  |-> <<C!exitIsInterrupted(a), a = C!exitInterrupt("fiber")>>,
   causes   |-> <<C!exitCauseOption(a), IF ok THEN C!None ELSE C!Some(a.cause)>>,
   unannotate |-> <<C!exitUnannotate(C!exitMapErrorCause(a, [c \in Any |-> C!annotated(c, "span")])), a>>]

Say ==
  /\ input = NotYet
  /\ \E a, b \in Exits : input' = [kind |-> "said", causes |-> <<a, b>>] /\ result' = SaidOf(a, b)

Collect ==
  /\ input = NotYet
  /\ \E n \in 0..3 : \E exits \in [1..n -> Exits] :
       /\ input' = [kind |-> "exits", causes |-> exits]
       /\ result' = [parallel   |-> C!exitCollectAll(exits, [l, r \in Any |-> C!parallel(l, r)]),
                     sequential |-> C!exitCollectAll(exits, [l, r \in Any |-> C!sequential(l, r)])]

Next == Compare \/ Transform \/ Say \/ Collect

Spec == Init /\ [][Next]_vars
----------------------------------------------------------------------------
Is(kind) == input.kind = kind

\* Two causes that say the same have one hash, whichever way they were put together
\* (equalCauses of the tests), and are equal when only the way they are nested tells
\* them apart: equals also looks at the order of what is parallel.
EqualAsTheySay == Is("laws") => \A law \in DOMAIN result : result[law]

ElementsOf(s) == {s[i] : i \in DOMAIN s}

\* What is kept of a cause is no less and no more than it says: a defect is never
\* lost, a failure is dropped or becomes a defect, and if nothing is left there
\* was nothing to keep.
KeepsWhatItSays ==
  Is("keep") =>
    LET c    == input.causes[1]
        d    == C!defects(c)
        f    == C!failures(c)
        kept == result.defects
        all  == result.elected IN
    /\ C!isSome(kept) <=> C!isDie(c)
    /\ C!isSome(kept) => C!defects(kept.value) = d /\ C!failures(kept.value) = <<>>
                         /\ ~C!isInterrupted(kept.value)
    /\ C!isSome(all) <=> C!isDie(c) \/ C!isFailure(c)
    /\ C!isSome(all) => ElementsOf(C!defects(all.value)) = ElementsOf(d) \cup ElementsOf(f)
    /\ C!defects(result.stripped) = d /\ C!failures(result.stripped) = <<>>
    /\ C!interruptors(result.stripped) = C!interruptors(c)
    /\ C!failures(result.died) = <<>> /\ Len(C!defects(result.died)) = Len(d) + Len(f)
    /\ result.flipped = C!Some(c)
    /\ IF C!isSome(result.gone) THEN ~C!isFailure(result.gone.value) ELSE C!isFailure(c)
    /\ result.kept = C!Some(c)
    /\ C!isSome(result.handled) => /\ C!defects(result.handled.value) = <<>>
                                  /\ C!failures(result.handled.value) = f
    /\ \A i \in DOMAIN C!subcauses(c) : C!contains(c, C!subcauses(c)[i])
    /\ IF f \o d # <<>> THEN result.thrown = Head(f \o d) ELSE result.thrown.fibers = C!interruptors(c)
    /\ \A l \in result.linear : C!size(l) = C!size(c) /\ C!failures(l) = f /\ C!defects(l) = d

\* Two ways of saying the same of exits agree: what is zipped is what is collected, and
\* one side of it is a part of it (the exit functions of core.ts).
ExitsAgree == Is("said") => \A way \in DOMAIN result : result[way][1] = result[way][2]

\* The exits of several are one: their values in order, or the causes of all that
\* failed, in order.
CollectsEveryExit ==
  Is("exits") =>
    LET exits  == input.causes
        Failed == {i \in DOMAIN exits : C!exitIsFailure(exits[i])} IN
    \A how \in DOMAIN result :
      LET o == result[how] IN
      /\ C!isSome(o) <=> exits # <<>>
      /\ C!isSome(o) =>
           IF Failed = {} THEN o.value = C!exitSucceed([i \in DOMAIN exits |-> exits[i].value])
           ELSE /\ C!exitIsFailure(o.value) /\ C!size(o.value.cause) = Cardinality(Failed)
                /\ C!failures(o.value.cause) =
                     [j \in 1..Cardinality({i \in Failed : exits[i].cause.tag = "Fail"}) |->
                        LET nth == CHOOSE i \in Failed :
                                     /\ exits[i].cause.tag = "Fail"
                                     /\ Cardinality({k \in Failed : k <= i /\ exits[k].cause.tag = "Fail"}) = j IN
                        exits[nth].cause.value]
=============================================================================
