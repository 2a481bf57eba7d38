--------------------------- MODULE MCCombinators ---------------------------
(***************************************************************************)
(* Small instances of what combinators promise.  Each is a part of its own:*)
(* a behaviour is one of that part, which alone uses the variables.  The   *)
(* first five parts are fibers at work, fairly scheduled; the others give  *)
(* the result of one input each.                                           *)
(***************************************************************************)
EXTENDS Naturals, Sequences, FiniteSets, TLC

VARIABLES
  part,
  v1, v2, v3, v4, v5, v6, v7, v8, v9, v10, v11, v12, v13, v14

After2  == <<v3, v4, v5, v6, v7, v8, v9, v10>>
After10 == <<v11, v12>>
After12 == v13
After13 == v14

Rest13 == v14 = 0
Rest12 == v13 = 0 /\ Rest13
Rest10 == v11 = 0 /\ v12 = 0 /\ Rest12
Rest2  == v3 = 0 /\ v4 = 0 /\ v5 = 0 /\ v6 = 0 /\ v7 = 0 /\ v8 = 0 /\ v9 = 0 /\ v10 = 0 /\ Rest10
----------------------------------------------------------------------------
(* Fibers at work.                                                         *)

Semaphore == INSTANCE Semaphore WITH
  Fiber <- 1..3, Permits <- {1, 2}, Fuel <- <<2, 1, 1>>, MaxInterrupts <- 1,
  permits <- v1, taken <- v2, waiters <- v3, wakes <- v4, pc <- v5, need <- v6, ref <- v7,
  seen <- v8, writes <- v9, lost <- v10, fuel <- v11, signals <- v12

Race == INSTANCE Race WITH
  Modes <- {"race", "raceFirst", "timeout", "timeoutFail"}, Interrupted <- TRUE,
  mode <- v1, masked <- v2, work <- v3, workExit <- v4, workTold <- v5, side <- v6, sideExit <- v7,
  sideTold <- v8, winner <- v9, parent <- v10, told <- v11, result <- v12

RaceAll == INSTANCE RaceAll WITH
  Effects <- 3, Stubborn <- {2}, MaxInterrupts <- 1,
  exit <- v1, told <- v2, arbiter <- v3, at <- v4, fails <- v5, done <- v6, parent <- v7,
  parentAt <- v8, signals <- v9, last <- v10

ForEach == INSTANCE ForEachPar WITH
  Elements <- 3, Bounds <- {0, 2}, MayInterrupt <- TRUE,
  bound <- v1, masked <- v2, next <- v3, worker <- v4, element <- v5, exit <- v6, told <- v7,
  ref <- v8, deferred <- v9, parent <- v10, result <- v11, interrupted <- v12, ran <- v13, failure <- v14

LOCAL INSTANCE LayerAlgebra

Db      == ScopedContext("db", {"ok", "fail"})
Cache   == ScopedContext("cache", {"ok"})
Flaky   == FromEffectContext("flaky", {"ok", "fail"})
Backup  == ScopedContext("backup", {"ok", "die"})

\* What is shared between two parts in parallel, one of which has another
\* attempt when it fails; what is shared one after the other, or through a
\* dependency; fresh layers, extended scopes, retries.
SharedLayers ==
  { Merge(OrElse(ZipWith(Db, Flaky), Backup), Db),
    Merge(OrElse(Merge(Flaky, Db), Backup), Db),
    Merge(Use(Cache, Db), Db), MergeAll(<<Cache, Db, Cache>>),
    ProvideMerge(Db, Provide(Db, Cache)),
    ZipWith(CatchAllCause(ProvideTo(Db, FailWith), Discard(Cache)), Db),
    Merge(Fresh(Db), ExtendScope(ZipWith(Db, Locally(Cache)))),
    UseMerge(TapError(MapError(Db), "log"), OrDie(Cache)),
    ZipWith(TapErrorCause(Sync, "log"), ZipWith(LayerScope, Tap(LocallyScoped, "tap", {"ok", "die"}))),
    Project(Retry(Db, 1)), Passthrough(Project(Service)) }

Layer == INSTANCE Layer WITH
  Layers <- SharedLayers, MaxInterrupts <- 1,
  task <- v1, registered <- v2, deferred <- v3, observers <- v4, fins <- v5, work <- v6, open <- v7,
  interrupted <- v8, user <- v9, opened <- v10, released <- v11, late <- v12, lost <- v13
----------------------------------------------------------------------------
(* Inputs and their results.                                               *)

Programs == INSTANCE EffectPrograms WITH
  Depth <- 2, MaxLeft <- 20, MaxElements <- 3, Infinity <- 100000, input <- v1, result <- v2

Schedules == INSTANCE ScheduleRuns WITH
  Infinity <- 100000, SecondMillis <- 2, SecondsPerMinute <- 2, MinutesPerHour <- 3,
  HoursPerDay <- 2, DaysPerWeek <- 3, MonthLengths <- <<3, 2, 4>>, MaxTime <- 5, MaxRuns <- 3,
  input <- v1, result <- v2

Configs == INSTANCE Configs WITH SeqDelim <- ",", input <- v1, result <- v2

Causes == INSTANCE CauseLaws WITH Errors <- {"e"}, Defects <- {"d"}, input <- v1, result <- v2

Plans == INSTANCE RequestPlans WITH Sources <- {"a", "b"}, Leaves <- 4, input <- v1, result <- v2

ASSUME
  /\ Semaphore!SemaphoreAssumption /\ Race!RaceAssumption /\ RaceAll!RaceAllAssumption
  /\ ForEach!ForEachAssumption /\ Layer!LayerAssumption
  /\ Programs!ProgramsAssumption /\ Schedules!RunsAssumption /\ Causes!CausesAssumption
  /\ Plans!PlansAssumption
----------------------------------------------------------------------------
Init ==
  \/ part = "semaphore" /\ Semaphore!Init /\ Rest12
  \/ part = "race" /\ Race!Init /\ Rest12
  \/ part = "raceAll" /\ RaceAll!Init /\ Rest10
  \/ part = "forEach" /\ ForEach!Init
  \/ part = "layer" /\ Layer!Init /\ Rest13
  \/ part = "programs" /\ Programs!Init /\ Rest2
  \/ part = "schedules" /\ Schedules!Init /\ Rest2
  \/ part = "configs" /\ Configs!Init /\ Rest2
  \/ part = "causes" /\ Causes!Init /\ Rest2
  \/ part = "plans" /\ Plans!Init /\ Rest2

Next ==
  /\ UNCHANGED part
  /\ \/ part = "semaphore" /\ Semaphore!Next /\ UNCHANGED <<After12, After13>>
     \/ part = "race" /\ Race!Next /\ UNCHANGED <<After12, After13>>
     \/ part = "raceAll" /\ RaceAll!Next /\ UNCHANGED <<After10, After12, After13>>
     \/ part = "forEach" /\ ForEach!Next
     \/ part = "layer" /\ Layer!Next /\ UNCHANGED After13
     \/ part = "programs" /\ Programs!Next /\ UNCHANGED <<After2, After10, After12, After13>>
     \/ part = "schedules" /\ Schedules!Next /\ UNCHANGED <<After2, After10, After12, After13>>
     \/ part = "configs" /\ Configs!Next /\ UNCHANGED <<After2, After10, After12, After13>>
     \/ part = "causes" /\ Causes!Next /\ UNCHANGED <<After2, After10, After12, After13>>
     \/ part = "plans" /\ Plans!Next /\ UNCHANGED <<After2, After10, After12, After13>>

vars == <<part, v1, v2, After2, After10, After12, After13>>

Spec == Init /\ [][Next]_vars

(* Each part has the fairness of its module.  As a behaviour is one of a    *)
(* single part, that of several actions of different parts is one conjunct. *)

In(p) == part = p /\ UNCHANGED part

own ==
  CASE part = "semaphore" -> Semaphore!vars
    [] part = "race"      -> Race!vars
    [] part = "raceAll"   -> RaceAll!vars
    [] part = "forEach"   -> ForEach!vars
    [] part = "layer"     -> Layer!vars
    [] OTHER              -> <<>>

\* What waits, and what builds.
Main ==
  \/ In("semaphore") /\ Semaphore!Wake
  \/ In("race") /\ Race!Parent
  \/ In("raceAll") /\ RaceAll!Decide
  \/ In("forEach") /\ ForEach!Goes
  \/ In("layer") /\ \E t \in Layer!Task : Layer!Step(t)

\* What is left to be done after an interruption or a failure.
Aftermath ==
  \/ In("raceAll") /\ RaceAll!InterruptAll
  \/ In("layer") /\ \E w \in DOMAIN v6 : Layer!Finalize(w)

\* The i-th fiber.
Nth(i) ==
  \/ In("semaphore") /\ Semaphore!Step(i)
  \/ In("race") /\ i < 3 /\ Race!Runs(<<"left", "right">>[i])
  \/ In("raceAll") /\ RaceAll!Arbiter(i)
  \/ In("forEach") /\ ForEach!WorkerGoes(i)

Fairness ==
  /\ WF_own(Main) /\ WF_own(Aftermath)
  /\ \A i \in 1..3 : WF_own(Nth(i)) /\ WF_own(In("raceAll") /\ RaceAll!Stop(i))
  /\ WF_own(In("raceAll") /\ (RaceAll!Succeed(2) \/ RaceAll!Fail(2)))

FairSpec == Spec /\ Fairness
----------------------------------------------------------------------------
\* A permit is held by a fiber that will release it, none is made or lost, and the
\* updates of a Synchronized do not overwrite each other (Semaphore).
PermitsAccounted ==
  part = "semaphore" => Semaphore!TypeOK /\ Semaphore!PermitsAccounted /\ Semaphore!UpdatesSerialized

\* A race gives what one side did and the other is over then, or else the causes of
\* all; forEach in parallel does each element once, leaves none going on and gives every
\* failure but those of workers it had interrupted (Race, RaceAll, ForEachPar).
CombinedAsOne ==
  /\ part = "race" => Race!TypeOK /\ Race!RaceDecides
  /\ part = "raceAll" => RaceAll!TypeOK /\ RaceAll!FirstSuccessOrLastFailure
  /\ part = "forEach" => ForEach!TypeOK /\ ForEach!ForEachSettles

\* A layer that is shared is built once, stays while somebody uses it and is
\* released with the scope (Layer).
BuiltOnce ==
  part = "layer" => Layer!TypeOK /\ Layer!BuiltOnce /\ Layer!StaysWhileUsed /\ Layer!NothingLeaks

Pending(i) ==
  CASE part = "semaphore" -> Semaphore!Waits(i)
    [] part = "race"      -> Race!IsOver
    [] part = "raceAll"   -> RaceAll!IsOver
    [] part = "forEach"   -> ForEach!Waits
    [] part = "layer"     -> TRUE
    [] OTHER              -> FALSE

Settled(i) ==
  CASE part = "semaphore" -> Semaphore!Served(i)
    [] part = "race"      -> \A s \in Race!Side : Race!Gone(s)
    [] part = "raceAll"   -> RaceAll!AllGone
    [] part = "forEach"   -> ForEach!Returned
    [] part = "layer"     -> Layer!BuildOver
    [] OTHER              -> TRUE

\* Who waits for permits is served, what lost a race ends, forEach returns, and
\* every build of a layer ends (Semaphore, Race, RaceAll, ForEachPar, Layer).  When
\* somebody waits, a time comes at which nobody does: that is more than that each of
\* them is served, and holds as there is only so much that is asked for.
EverybodyEnds == (\E i \in 1..3 : Pending(i)) ~> (\A i \in 1..3 : Settled(i))

\* Wherever the fiber is interrupted and however an effect ends, what is acquired is
\* released in the reverse order, what cleans up is done wholly, and a region leaves
\* the fiber as it was; a defect is not taken for a failure, and what is uninterruptible
\* ends as it would without the interruption (EffectPrograms).
EffectsAreWhole ==
  part = "programs" => /\ Programs!ReleasedInReverse /\ Programs!RegionsAreLeft
                       /\ Programs!CleanupIsWhole /\ Programs!DefectsSurvive
                       /\ Programs!MaskedIsUndisturbed

\* The loops ask what they must and no more, and give what the answers say; what is to
\* be done once is not done twice; two ways of saying the same agree (EffectPrograms).
LoopsAgree == part = "programs" => Programs!LoopsAgree /\ Programs!DoneOnce /\ Programs!WaysAgree

\* A schedule recurs at the times and as often as it is made to, and an effect is run
\* again as its schedule says (ScheduleRuns).
SchedulesRecur ==
  part = "schedules" => /\ Schedules!StartsAreExact /\ Schedules!RecursEveryTime
                        /\ Schedules!RecursAsOften /\ Schedules!WaitsAsLong
                        /\ Schedules!SchedulesAgree /\ Schedules!RunsAgain

\* A default stands in for what is missing and hides nothing that is malformed, and a
\* config reads all that is there under its name (Configs).
ConfigsRead == part = "configs" => Configs!DefaultsHideNothing /\ Configs!ReadsWhatIsThere

\* Causes that say the same are the same, and no defect is lost on the way (CauseLaws).
CausesKeep ==
  part = "causes" => /\ Causes!EqualAsTheySay /\ Causes!KeepsWhatItSays
                     /\ Causes!ExitsAgree /\ Causes!CollectsEveryExit

\* No request of a block is left out, and none is run before those it must come
\* after (RequestPlans).
RunsEveryRequest == part = "plans" => Plans!RunsEveryRequest /\ Plans!SplitsKeepAll
=============================================================================
