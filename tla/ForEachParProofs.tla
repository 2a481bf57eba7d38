------------------------- MODULE ForEachParProofs -------------------------
(***************************************************************************)
(* A parallel forEach settles as it should, for every number of elements,   *)
(* every bound and every order in which its workers go on, fail and are     *)
(* interrupted.                                                            *)
(***************************************************************************)
EXTENDS ForEachPar, FiniteSetTheorems, TLAPS

\* The workers that succeeded and have been counted.
CountedOnes == {w \in Worker : worker[w] \in {"finishing", "ended"} /\ exit[w] = {}}

\* The elements are taken one by one: by the workers if each has its own, by the
\* iterator otherwise.
TakenOnce ==
  /\ bound = 0 => \A w \in Worker : ran[w] = IF element[w] = 0 THEN 0 ELSE 1
  /\ bound # 0 => \A e \in Element : ran[e] = IF e < next THEN 1 ELSE 0

\* What a worker has done, and what is left when it has succeeded.
WorkersGoOn ==
  \A w \in Worker :
    /\ worker[w] = "none" => parent = "forking"
    /\ worker[w] \in {"none", "forked", "running", "settled", "succeeded"} => exit[w] = {}
    /\ worker[w] = "running" => element[w] \in Element
    /\ worker[w] = "failed" => exit[w] # {}
    /\ bound = 0 /\ worker[w] \in {"none", "forked"} => element[w] = 0
    /\ bound = 0 /\ worker[w] = "settled" => element[w] # 0
    /\ worker[w] \in {"succeeded", "finishing", "ended"} /\ exit[w] = {} =>
         IF bound = 0 THEN element[w] # 0 ELSE next > Elements

\* A failure that is to be kept is in the exit of a worker, what is in an exit is a
\* failure, and where there is one some worker did not succeed.
FailuresKept ==
  \A e \in Element :
    /\ failure[e] = "kept" => \E w \in Worker : e \in exit[w]
    /\ failure[e] # "none" => \E w \in Worker : exit[w] # {}
    /\ \A w \in Worker : e \in exit[w] => failure[e] # "none"

\* The workers count right, though one that fails does not count and the last one
\* does not count itself: what the Deferred says is so.
Counted ==
  /\ deferred # "done" => ref = Cardinality(CountedOnes) /\ CountedOnes # Worker
  /\ deferred = "done" => CountedOnes = Worker
  /\ deferred = "failed" => \E w \in Worker : exit[w] # {}

Over(w) == worker[w] = "ended" \/ (worker[w] = "finishing" /\ deferred = "done")

\* What the fiber decides is so.
DecidedRight ==
  /\ parent = "stopping" => deferred = "failed" \/ Stopped
  /\ parent = "inheriting" => deferred = "done"
  /\ parent = "decided" =>
       /\ \A w \in Worker : Over(w)
       /\ \A e \in Element : failure[e] = "kept" => e \in result
       /\ \A e \in Element : e \in result => failure[e] # "none"
       /\ result = {} => deferred = "done"

Inv == TypeOK /\ TakenOnce /\ WorkersGoOn /\ FailuresKept /\ Counted /\ DecidedRight
----------------------------------------------------------------------------
\* There are as many workers as it says, and more than one.
LEMMA WorkersAreMany ==
  ASSUME ForEachAssumption, bound \in Bounds
  PROVE  Size \in Nat /\ Size > 1 /\ IsFiniteSet(Worker) /\ Cardinality(Worker) = Size
<1>1. Size \in Nat /\ Size > 1
  BY DEF ForEachAssumption, Size
<1>2. IsFiniteSet(1..Size) /\ Cardinality(1..Size) = Size
  BY <1>1, FS_Interval
<1>. QED BY <1>1, <1>2 DEF Worker

\* A worker more has succeeded: they are one more, and all of them if they are as
\* many as there are workers.
LEMMA OneMore ==
  ASSUME NEW W, NEW S, NEW w, IsFiniteSet(W), S \subseteq W, w \in W, w \notin S
  PROVE  /\ Cardinality(S) \in Nat /\ Cardinality(S \cup {w}) = Cardinality(S) + 1
         /\ Cardinality(S) + 1 = Cardinality(W) => S \cup {w} = W
         /\ Cardinality(S) + 1 <= Cardinality(W)
<1>1. IsFiniteSet(S)
  BY FS_Subset
<1>2. Cardinality(S) \in Nat /\ Cardinality(S \cup {w}) = Cardinality(S) + 1
  BY <1>1, FS_AddElement, FS_CardinalityType
<1>3. S \cup {w} \subseteq W
  OBVIOUS
<1>4. Cardinality(S \cup {w}) <= Cardinality(W) /\ (Cardinality(S \cup {w}) = Cardinality(W) => S \cup {w} = W)
  BY <1>3, FS_Subset
<1>. QED BY <1>2, <1>4

LEMMA InitHolds == ASSUME ForEachAssumption, Init PROVE Inv
<1>1. bound \in Bounds
  BY DEF Init
<1>2. Size \in Nat /\ Size > 1 /\ IsFiniteSet(Worker) /\ Cardinality(Worker) = Size
  BY <1>1, WorkersAreMany
<1>3. Elements \in Nat /\ Elements > 1
  BY DEF ForEachAssumption
<1>4. TypeOK
  <2>1. /\ bound \in Bounds /\ next \in 1..Elements + 1 /\ ref \in 0..Size
        /\ element \in [Worker -> 0..Elements] /\ exit \in [Worker -> SUBSET (0..Elements)]
        /\ result \in SUBSET (0..Elements) /\ ran \in [Element -> Nat]
    BY <1>2, <1>3 DEF Init
  <2>2. masked \in BOOLEAN /\ interrupted \in BOOLEAN /\ told \in [Worker -> BOOLEAN]
    BY DEF Init
  <2>. QED BY <2>1, <2>2 DEF Init, TypeOK
<1>5. CountedOnes = {} /\ Worker # {}
  <2>1. \A w \in Worker : worker[w] = "none"
    BY DEF Init
  <2>2. 1 \in Worker
    BY <1>2 DEF Worker
  <2>. QED BY <2>1, <2>2 DEF CountedOnes
<1>6. Counted
  BY <1>5, FS_EmptySet DEF Init, Counted
<1>7. bound = 0 => Worker = Element
  BY DEF Worker, Element, Size
<1>8. TakenOnce /\ WorkersGoOn /\ FailuresKept /\ DecidedRight
  BY <1>2, <1>3, <1>7 DEF Init, TakenOnce, WorkersGoOn, FailuresKept, DecidedRight, Element
<1>. QED BY <1>4, <1>6, <1>8 DEF Inv

\* A worker that is still at it has not been counted: nothing is decided, and the
\* Deferred does not say that all succeeded.
LEMMA NotYetOver ==
  ASSUME Inv, NEW w \in Worker, worker[w] \notin {"finishing", "ended"}
  PROVE  deferred # "done" /\ parent \notin {"decided", "inheriting"} /\ w \notin CountedOnes
<1>1. w \notin CountedOnes
  BY DEF CountedOnes
<1>2. deferred # "done"
  BY <1>1 DEF Inv, Counted
<1>3. ~Over(w)
  BY <1>2 DEF Over
<1>4. parent \notin {"decided", "inheriting"}
  BY <1>2, <1>3 DEF Inv, DecidedRight
<1>. QED BY <1>1, <1>2, <1>4

\* The fiber is at a place where nothing is decided, and a step of a worker, which
\* leaves the exits or adds to them, keeps it right.
LEMMA WorkerStepDecides ==
  ASSUME Inv, UNCHANGED <<parent, result, masked, interrupted>>,
         parent \notin {"decided", "inheriting"}, deferred = "failed" => deferred' = "failed"
  PROVE  DecidedRight'
BY DEF Inv, DecidedRight, Stopped

LEMMA TakeKeeps == ASSUME ForEachAssumption, Inv, NEW w \in Worker, Take(w) PROVE Inv'
<1>1. /\ Elements \in Nat /\ Elements > 1 /\ bound \in Bounds
      /\ worker \in [Worker -> {"none", "forked", "running", "settled", "succeeded", "failed",
                                "finishing", "ended"}]
      /\ element \in [Worker -> 0..Elements] /\ ran \in [Element -> Nat] /\ next \in 1..Elements + 1
      /\ bound = 0 => Worker = Element
  BY DEF ForEachAssumption, Inv, TypeOK, Worker, Element, Size
<1>2. /\ worker[w] \in {"forked", "settled"} /\ Taken(w) # 0
      /\ worker' = [worker EXCEPT ![w] = "running"] /\ element' = [element EXCEPT ![w] = Taken(w)]
      /\ next' = (IF bound = 0 THEN next ELSE next + 1) /\ ran' = [ran EXCEPT ![Taken(w)] = @ + 1]
      /\ UNCHANGED <<bound, masked, interrupted, exit, told, ref, deferred, parent, result, failure>>
  BY DEF Take, Set, control
<1>3. Worker' = Worker /\ Size' = Size
  BY <1>2 DEF Worker, Size
<1>4. Taken(w) \in Element /\ ran[Taken(w)] = 0
  BY <1>1, <1>2 DEF Taken, Element, Inv, TakenOnce, WorkersGoOn
<1>5. ASSUME bound = 0 PROVE TakenOnce' /\ WorkersGoOn'
  <2>1. Taken(w) = w /\ next' = next
    BY <1>2, <1>5 DEF Taken
  <2>2. ran' = [ran EXCEPT ![w] = 1] /\ element' = [element EXCEPT ![w] = w]
    BY <2>1, <1>1, <1>2, <1>4
  <2>3. TakenOnce'
    <3>1. \A v \in Worker : ran[v] = IF element[v] = 0 THEN 0 ELSE 1
      BY <1>5 DEF Inv, TakenOnce
    <3>2. w \in Element /\ w # 0
      BY <1>1, <1>5 DEF Element
    <3>3. \A v \in Worker : ran'[v] = IF element'[v] = 0 THEN 0 ELSE 1
      BY <3>1, <3>2, <2>2, <1>1, <1>5
    <3>. QED BY <3>3, <1>2, <1>3, <1>5 DEF TakenOnce
  <2>4. WorkersGoOn'
    BY <2>2, <2>1, <1>1, <1>2, <1>3, <1>4, <1>5 DEF Inv, WorkersGoOn, Element
  <2>. QED BY <2>3, <2>4
<1>6. ASSUME bound # 0 PROVE TakenOnce' /\ WorkersGoOn'
  <2>1. Taken(w) = next /\ next \in Element /\ next' = next + 1
    BY <1>1, <1>2, <1>4, <1>6 DEF Taken, Element
  <2>2. ran' = [ran EXCEPT ![next] = 1] /\ element' = [element EXCEPT ![w] = next]
    BY <2>1, <1>1, <1>2, <1>4
  <2>3. TakenOnce'
    <3>1. \A e \in Element : ran[e] = IF e < next THEN 1 ELSE 0
      BY <1>6 DEF Inv, TakenOnce
    <3>2. Element' = Element /\ Element \subseteq Nat
      BY DEF Element
    <3>3. \A e \in Element : ran'[e] = IF e < next + 1 THEN 1 ELSE 0
      BY <3>1, <3>2, <2>1, <2>2, <1>1
    <3>. QED BY <3>2, <3>3, <2>1, <1>2, <1>6 DEF TakenOnce
  <2>4. WorkersGoOn'
    BY <2>1, <2>2, <1>1, <1>2, <1>3, <1>6 DEF Inv, WorkersGoOn, Element
  <2>. QED BY <2>3, <2>4
<1>7. TypeOK'
  BY <1>1, <1>2, <1>3, <1>4 DEF Inv, TypeOK, Element, Taken
<1>8. CountedOnes' = CountedOnes
  BY <1>1, <1>2, <1>3 DEF CountedOnes
<1>9. Counted'
  BY <1>2, <1>3, <1>8 DEF Inv, Counted
<1>10. FailuresKept'
  BY <1>2, <1>3 DEF Inv, FailuresKept
<1>11. DecidedRight'
  BY <1>2, NotYetOver, WorkerStepDecides
<1>. QED BY <1>5, <1>6, <1>7, <1>9, <1>10, <1>11 DEF Inv

LEMMA SettleKeeps == ASSUME ForEachAssumption, Inv, NEW w \in Worker, Settle(w) PROVE Inv'
<1>1. /\ worker[w] = "running" /\ worker' = [worker EXCEPT ![w] = "settled"]
      /\ UNCHANGED <<bound, masked, interrupted, next, element, exit, told, ref, deferred, parent,
                     result, ran, failure>>
  BY DEF Settle, Set, control
<1>2. Worker' = Worker /\ Size' = Size
  BY <1>1 DEF Worker, Size
<1>3. TypeOK'
  BY <1>1, <1>2 DEF Inv, TypeOK
<1>4. WorkersGoOn'
  BY <1>1, <1>2 DEF Inv, TypeOK, WorkersGoOn, ForEachAssumption, Element
<1>5. CountedOnes' = CountedOnes
  BY <1>1, <1>2 DEF Inv, TypeOK, CountedOnes
<1>6. TakenOnce' /\ FailuresKept'
  BY <1>1, <1>2 DEF Inv, TakenOnce, FailuresKept
<1>7. Counted'
  BY <1>1, <1>2, <1>5 DEF Inv, Counted
<1>8. DecidedRight'
  BY <1>1, NotYetOver, WorkerStepDecides
<1>. QED BY <1>3, <1>4, <1>6, <1>7, <1>8 DEF Inv

LEMMA SucceedKeeps == ASSUME ForEachAssumption, Inv, NEW w \in Worker, Succeed(w) PROVE Inv'
<1>1. /\ worker[w] \in {"forked", "settled"} /\ Taken(w) = 0
      /\ worker' = [worker EXCEPT ![w] = "succeeded"]
      /\ UNCHANGED <<bound, masked, interrupted, next, element, exit, told, ref, deferred, parent,
                     result, ran, failure>>
  BY DEF Succeed, Set, control
<1>2. Worker' = Worker /\ Size' = Size
  BY <1>1 DEF Worker, Size
<1>3. TypeOK'
  BY <1>1, <1>2 DEF Inv, TypeOK
<1>4. WorkersGoOn'
  BY <1>1, <1>2 DEF Inv, TypeOK, WorkersGoOn, Taken, Worker, ForEachAssumption
<1>5. CountedOnes' = CountedOnes
  BY <1>1, <1>2 DEF Inv, TypeOK, CountedOnes
<1>6. TakenOnce' /\ FailuresKept'
  BY <1>1, <1>2 DEF Inv, TakenOnce, FailuresKept
<1>7. Counted'
  BY <1>1, <1>2, <1>5 DEF Inv, Counted
<1>8. DecidedRight'
  BY <1>1, NotYetOver, WorkerStepDecides
<1>. QED BY <1>3, <1>4, <1>6, <1>7, <1>8 DEF Inv

LEMMA CountKeeps == ASSUME ForEachAssumption, Inv, NEW w \in Worker, Count(w) PROVE Inv'
<1>1. /\ worker[w] = "succeeded" /\ worker' = [worker EXCEPT ![w] = "finishing"]
      /\ UNCHANGED <<bound, masked, interrupted, next, element, exit, told, parent, result, ran, failure>>
  BY DEF Count, Set, control
<1>2. \/ ref + 1 = Size /\ deferred' = (IF deferred = "none" THEN "done" ELSE deferred) /\ ref' = ref
      \/ ref + 1 # Size /\ ref' = ref + 1 /\ deferred' = deferred
  BY DEF Count
<1>3. Worker' = Worker /\ Size' = Size
  BY <1>1 DEF Worker, Size
<1>4. Size \in Nat /\ Size > 1 /\ IsFiniteSet(Worker) /\ Cardinality(Worker) = Size
  BY WorkersAreMany DEF Inv, TypeOK
<1>5. /\ exit[w] = {} /\ w \notin CountedOnes /\ CountedOnes \subseteq Worker /\ deferred # "done"
      /\ parent \notin {"decided", "inheriting"}
  BY <1>1, NotYetOver DEF Inv, WorkersGoOn, CountedOnes
<1>6. CountedOnes' = CountedOnes \cup {w}
  BY <1>1, <1>3, <1>5 DEF Inv, TypeOK, CountedOnes
<1>7. /\ ref = Cardinality(CountedOnes) /\ Cardinality(CountedOnes') = ref + 1 /\ ref \in Nat
      /\ ref + 1 <= Size /\ (ref + 1 = Size => CountedOnes' = Worker)
  BY <1>4, <1>5, <1>6, OneMore DEF Inv, Counted
<1>8. TypeOK'
  BY <1>1, <1>2, <1>3, <1>4, <1>7 DEF Inv, TypeOK
<1>9. WorkersGoOn'
  BY <1>1, <1>3 DEF Inv, TypeOK, WorkersGoOn
<1>10. Counted'
  <2>1. CASE ref + 1 # Size
    <3>1. CountedOnes' # Worker
      BY <2>1, <1>4, <1>7
    <3>. QED BY <2>1, <3>1, <1>1, <1>2, <1>3, <1>5, <1>7 DEF Inv, Counted
  <2>2. CASE ref + 1 = Size
    <3>1. \A v \in Worker : exit[v] = {}
      BY <2>2, <1>1, <1>3, <1>7 DEF CountedOnes
    <3>2. deferred = "none"
      BY <3>1, <1>5 DEF Inv, TypeOK, Counted
    <3>. QED BY <2>2, <3>2, <1>2, <1>3, <1>7 DEF Counted
  <2>. QED BY <2>1, <2>2
<1>11. TakenOnce' /\ FailuresKept'
  BY <1>1, <1>3 DEF Inv, TakenOnce, FailuresKept
<1>12. DecidedRight'
  BY <1>1, <1>2, <1>5, WorkerStepDecides
<1>. QED BY <1>8, <1>9, <1>10, <1>11, <1>12 DEF Inv

\* A worker fails with a cause that is not empty, of what its element failed with.
LEMMA FailedKeeps ==
  ASSUME ForEachAssumption, Inv, NEW w \in Worker, NEW to \in {"failed", "ended"},
         NEW how \in {"kept", "late"}, NEW cause \in SUBSET (0..Elements),
         worker[w] = "running", worker' = [worker EXCEPT ![w] = to],
         exit' = [exit EXCEPT ![w] = cause], failure' = [failure EXCEPT ![element[w]] = how],
         cause # {}, \A e \in cause \cap Element : e = element[w],
         how = "kept" => element[w] \in cause,
         UNCHANGED <<bound, masked, interrupted, next, element, told, ref, deferred, parent, result, ran>>
  PROVE  Inv'
<1>1. Worker' = Worker /\ Size' = Size
  BY DEF Worker, Size
<1>2. element[w] \in Element /\ exit[w] = {}
  BY DEF Inv, WorkersGoOn
<1>3. TypeOK'
  BY <1>1, <1>2 DEF Inv, TypeOK
<1>4. WorkersGoOn'
  BY <1>1, <1>2 DEF Inv, TypeOK, WorkersGoOn
<1>5. /\ exit'[w] = cause /\ failure'[element[w]] = how
      /\ \A v \in Worker : v # w => exit'[v] = exit[v]
      /\ \A e \in Element : e # element[w] => failure'[e] = failure[e]
  BY <1>2 DEF Inv, TypeOK
<1>6. FailuresKept'
  <2> SUFFICES ASSUME NEW e \in Element
               PROVE  /\ failure'[e] = "kept" => \E v \in Worker : e \in exit'[v]
                      /\ failure'[e] # "none" => \E v \in Worker : exit'[v] # {}
                      /\ \A v \in Worker : e \in exit'[v] => failure'[e] # "none"
    BY <1>1 DEF FailuresKept, Element
  <2>1. failure'[e] = "kept" => \E v \in Worker : e \in exit'[v]
    BY <1>2, <1>5 DEF Inv, FailuresKept
  <2>2. \E v \in Worker : exit'[v] # {}
    BY <1>5
  <2>3. \A v \in Worker : e \in exit'[v] => failure'[e] # "none"
    BY <1>2, <1>5 DEF Inv, FailuresKept
  <2>. QED BY <2>1, <2>2, <2>3
<1>7. CountedOnes' = CountedOnes
  BY <1>1, <1>5 DEF Inv, TypeOK, CountedOnes
<1>8. Counted'
  BY <1>1, <1>5, <1>7 DEF Inv, Counted
<1>9. TakenOnce'
  BY <1>1 DEF Inv, TakenOnce
<1>10. DecidedRight'
  BY NotYetOver, WorkerStepDecides
<1>. QED BY <1>3, <1>4, <1>6, <1>8, <1>9, <1>10 DEF Inv

LEMMA FailKeeps == ASSUME ForEachAssumption, Inv, NEW w \in Worker, Fail(w) PROVE Inv'
<1>1. element[w] \in Element /\ Element \subseteq 0..Elements
  BY DEF Fail, Inv, WorkersGoOn, Element, ForEachAssumption
<1>2. /\ worker[w] = "running" /\ worker' = [worker EXCEPT ![w] = "failed"]
      /\ exit' = [exit EXCEPT ![w] = {element[w]}]
      /\ failure' = [failure EXCEPT ![element[w]] = "kept"]
      /\ UNCHANGED <<bound, masked, interrupted, next, element, told, ref, deferred, parent, result, ran>>
  BY DEF Fail, Set, control
<1>3. /\ {element[w]} \in SUBSET (0..Elements) /\ {element[w]} # {} /\ element[w] \in {element[w]}
      /\ \A e \in {element[w]} \cap Element : e = element[w]
  BY <1>1
<1>. QED BY <1>2, <1>3, FailedKeeps

LEMMA FailLateKeeps == ASSUME ForEachAssumption, Inv, NEW w \in Worker, FailLate(w) PROVE Inv'
<1>1. PICK defects \in SUBSET {element[w]} : exit' = [exit EXCEPT ![w] = {Interruption} \cup defects]
  BY DEF FailLate
<1>2. element[w] \in Element /\ Element \subseteq 0..Elements /\ 0 \in 0..Elements /\ 0 \notin Element
  BY DEF FailLate, Inv, WorkersGoOn, Element, ForEachAssumption
<1>3. /\ {Interruption} \cup defects \in SUBSET (0..Elements) /\ {Interruption} \cup defects # {}
      /\ \A e \in ({Interruption} \cup defects) \cap Element : e = element[w]
  BY <1>2 DEF Interruption
<1>. QED BY <1>1, <1>3, FailedKeeps DEF FailLate, Set, control

LEMMA ReportKeeps == ASSUME ForEachAssumption, Inv, NEW w \in Worker, Report(w) PROVE Inv'
<1>1. /\ worker[w] = "failed" /\ worker' = [worker EXCEPT ![w] = "finishing"]
      /\ deferred' = (IF deferred = "none" THEN "failed" ELSE deferred)
      /\ UNCHANGED <<bound, masked, interrupted, next, element, exit, told, ref, parent, result, ran,
                     failure>>
  BY DEF Report, Set, control
<1>2. Worker' = Worker /\ Size' = Size
  BY <1>1 DEF Worker, Size
<1>3. exit[w] # {} /\ deferred # "done" /\ parent \notin {"decided", "inheriting"}
  BY <1>1, NotYetOver DEF Inv, WorkersGoOn
<1>4. TypeOK'
  BY <1>1, <1>2 DEF Inv, TypeOK
<1>5. WorkersGoOn'
  BY <1>1, <1>2, <1>3 DEF Inv, TypeOK, WorkersGoOn
<1>6. CountedOnes' = CountedOnes
  BY <1>1, <1>2, <1>3 DEF Inv, TypeOK, CountedOnes
<1>7. Counted'
  BY <1>1, <1>2, <1>3, <1>6 DEF Inv, TypeOK, Counted
<1>8. TakenOnce' /\ FailuresKept'
  BY <1>1, <1>2 DEF Inv, TakenOnce, FailuresKept
<1>9. DecidedRight'
  BY <1>1, <1>3, WorkerStepDecides
<1>. QED BY <1>4, <1>5, <1>7, <1>8, <1>9 DEF Inv

LEMMA EndKeeps == ASSUME ForEachAssumption, Inv, NEW w \in Worker, End(w) PROVE Inv'
<1>1. /\ worker[w] = "finishing" /\ worker' = [worker EXCEPT ![w] = "ended"]
      /\ UNCHANGED <<bound, masked, interrupted, next, element, exit, told, ref, deferred, parent,
                     result, ran, failure>>
  BY DEF End, Set, control
<1>2. Worker' = Worker /\ Size' = Size
  BY <1>1 DEF Worker, Size
<1>3. TypeOK'
  BY <1>1, <1>2 DEF Inv, TypeOK
<1>4. WorkersGoOn'
  BY <1>1, <1>2 DEF Inv, TypeOK, WorkersGoOn
<1>5. CountedOnes' = CountedOnes
  BY <1>1, <1>2 DEF Inv, TypeOK, CountedOnes
<1>6. TakenOnce' /\ FailuresKept'
  BY <1>1, <1>2 DEF Inv, TakenOnce, FailuresKept
<1>7. Counted'
  BY <1>1, <1>2, <1>5 DEF Inv, Counted
<1>8. \A v \in Worker : Over(v) => Over(v)'
  BY <1>1 DEF Inv, TypeOK, Over
<1>9. DecidedRight'
  BY <1>1, <1>2, <1>8 DEF Inv, DecidedRight, Stopped
<1>. QED BY <1>3, <1>4, <1>6, <1>7, <1>9 DEF Inv

LEMMA StopKeeps == ASSUME ForEachAssumption, Inv, NEW w \in Worker, Stop(w) PROVE Inv'
<1>1. /\ worker[w] \in {"forked", "running", "settled"} /\ worker' = [worker EXCEPT ![w] = "ended"]
      /\ exit' = [exit EXCEPT ![w] = {Interruption}]
      /\ UNCHANGED <<bound, masked, interrupted, next, element, told, ref, deferred, parent, result,
                     ran, failure>>
  BY DEF Stop, InRestore, Set, control
<1>2. Worker' = Worker /\ Size' = Size
  BY <1>1 DEF Worker, Size
<1>3. exit[w] = {} /\ Interruption \notin Element /\ Interruption \in 0..Elements
  BY <1>1 DEF Inv, WorkersGoOn, Interruption, Element, ForEachAssumption
<1>4. TypeOK'
  BY <1>1, <1>2, <1>3 DEF Inv, TypeOK
<1>5. WorkersGoOn'
  BY <1>1, <1>2, <1>3 DEF Inv, TypeOK, WorkersGoOn
<1>6. exit'[w] = {Interruption} /\ \A v \in Worker : v # w => exit'[v] = exit[v]
  BY <1>1 DEF Inv, TypeOK
<1>7. FailuresKept'
  <2> SUFFICES ASSUME NEW e \in Element
               PROVE  /\ failure[e] = "kept" => \E v \in Worker : e \in exit'[v]
                      /\ failure[e] # "none" => \E v \in Worker : exit'[v] # {}
                      /\ \A v \in Worker : e \in exit'[v] => failure[e] # "none"
    BY <1>1, <1>2 DEF FailuresKept, Element
  <2>1. /\ failure[e] = "kept" => \E v \in Worker : e \in exit[v]
        /\ \A v \in Worker : e \in exit[v] => failure[e] # "none"
    BY DEF Inv, FailuresKept
  <2>2. e # Interruption
    BY <1>3
  <2>. QED BY <2>1, <2>2, <1>3, <1>6
<1>8. CountedOnes' = CountedOnes
  BY <1>1, <1>2, <1>6 DEF Inv, TypeOK, CountedOnes
<1>9. Counted'
  BY <1>1, <1>2, <1>6, <1>8 DEF Inv, Counted
<1>10. TakenOnce'
  BY <1>1, <1>2 DEF Inv, TakenOnce
<1>11. DecidedRight'
  BY <1>1, NotYetOver, WorkerStepDecides
<1>. QED BY <1>4, <1>5, <1>7, <1>9, <1>10, <1>11 DEF Inv

LEMMA ForkKeeps == ASSUME ForEachAssumption, Inv, Fork PROVE Inv'
<1>1. PICK w \in Worker :
        /\ worker[w] = "none" /\ \A v \in 1..(w - 1) : worker[v] # "none"
        /\ worker' = [worker EXCEPT ![w] = "forked"]
        /\ parent' = IF w = Size THEN "waiting" ELSE "forking"
  BY DEF Fork, Set
<1>2. /\ parent = "forking"
      /\ UNCHANGED <<bound, masked, interrupted, next, element, exit, told, ref, deferred, result, ran,
                     failure>>
  BY DEF Fork, control
<1>3. Worker' = Worker /\ Size' = Size
  BY <1>2 DEF Worker, Size
<1>4. TypeOK'
  BY <1>1, <1>2, <1>3 DEF Inv, TypeOK
<1>5. WorkersGoOn'
  <2>1. parent' # "forking" => \A v \in Worker : worker'[v] # "none"
    BY <1>1 DEF Inv, TypeOK, Worker, Size, ForEachAssumption
  <2>. QED BY <2>1, <1>1, <1>2, <1>3 DEF Inv, TypeOK, WorkersGoOn
<1>6. CountedOnes' = CountedOnes
  BY <1>1, <1>2, <1>3 DEF Inv, TypeOK, CountedOnes
<1>7. Counted' /\ TakenOnce' /\ FailuresKept'
  BY <1>2, <1>3, <1>6 DEF Inv, Counted, TakenOnce, FailuresKept
<1>8. DecidedRight'
  BY <1>1 DEF DecidedRight
<1>. QED BY <1>4, <1>5, <1>7, <1>8 DEF Inv

\* A step that leaves the workers keeps what is said of them.
LEMMA OthersKeep ==
  ASSUME Inv, UNCHANGED <<bound, masked, next, worker, element, exit, ref, deferred, ran, failure>>,
         parent' = "forking" <=> parent = "forking"
  PROVE  /\ Worker' = Worker /\ Size' = Size
         /\ TakenOnce' /\ WorkersGoOn' /\ FailuresKept' /\ Counted'
<1>1. Worker' = Worker /\ Size' = Size /\ CountedOnes' = CountedOnes
  BY DEF Worker, Size, CountedOnes
<1>. QED BY <1>1 DEF Inv, WorkersGoOn, Counted, TakenOnce, FailuresKept

LEMMA InterruptKeeps == ASSUME ForEachAssumption, Inv, Interrupt PROVE Inv'
<1>1. /\ parent # "decided" /\ interrupted' = TRUE
      /\ UNCHANGED <<bound, masked, next, worker, element, exit, told, ref, deferred, parent, result,
                     ran, failure>>
  BY DEF Interrupt, workers
<1>2. Worker' = Worker /\ Size' = Size /\ TakenOnce' /\ WorkersGoOn' /\ FailuresKept' /\ Counted'
  BY <1>1, OthersKeep
<1>3. TypeOK'
  BY <1>1, <1>2 DEF Inv, TypeOK
<1>4. DecidedRight'
  BY <1>1 DEF Inv, DecidedRight, Stopped
<1>. QED BY <1>2, <1>3, <1>4 DEF Inv

LEMMA WakeKeeps == ASSUME ForEachAssumption, Inv, Wake PROVE Inv'
<1>1. /\ parent = "waiting" /\ deferred = "done" /\ parent' = "inheriting"
      /\ UNCHANGED <<bound, masked, interrupted, next, worker, element, exit, told, ref, deferred,
                     result, ran, failure>>
  BY DEF Wake, control, workers
<1>2. Worker' = Worker /\ Size' = Size /\ TakenOnce' /\ WorkersGoOn' /\ FailuresKept' /\ Counted'
  BY <1>1, OthersKeep
<1>3. TypeOK'
  BY <1>1, <1>2 DEF Inv, TypeOK
<1>4. DecidedRight'
  BY <1>1 DEF DecidedRight
<1>. QED BY <1>2, <1>3, <1>4 DEF Inv

\* Nobody failed of those who succeeded.
LEMMA ReturnKeeps == ASSUME ForEachAssumption, Inv, Return PROVE Inv'
<1>1. /\ parent = "inheriting" /\ parent' = "decided" /\ result' \in SUBSET {Interruption}
      /\ UNCHANGED <<bound, masked, interrupted, next, worker, element, exit, told, ref, deferred, ran,
                     failure>>
  BY DEF Return, control, workers
<1>2. Worker' = Worker /\ Size' = Size /\ TakenOnce' /\ WorkersGoOn' /\ FailuresKept' /\ Counted'
  BY <1>1, OthersKeep
<1>3. deferred = "done" /\ CountedOnes = Worker
  BY <1>1 DEF Inv, Counted, DecidedRight
<1>4. \A w \in Worker : Over(w) /\ exit[w] = {}
  BY <1>3 DEF CountedOnes, Over
<1>5. \A e \in Element : failure[e] = "none"
  BY <1>4 DEF Inv, FailuresKept
<1>6. Interruption \notin Element /\ Interruption \in 0..Elements
  BY DEF Interruption, Element, ForEachAssumption
<1>7. TypeOK'
  BY <1>1, <1>2, <1>6 DEF Inv, TypeOK
<1>8. DecidedRight'
  BY <1>1, <1>2, <1>3, <1>4, <1>5, <1>6 DEF DecidedRight, Over, Element
<1>. QED BY <1>2, <1>7, <1>8 DEF Inv

LEMMA InterruptAllKeeps == ASSUME ForEachAssumption, Inv, InterruptAll PROVE Inv'
<1>1. /\ parent = "waiting" /\ parent' = "stopping" /\ (deferred = "failed" \/ Stopped)
      /\ UNCHANGED <<bound, masked, interrupted, next, worker, element, exit, told, ref, deferred,
                     result, ran, failure>>
  BY DEF InterruptAll, control, workers
<1>2. Worker' = Worker /\ Size' = Size /\ TakenOnce' /\ WorkersGoOn' /\ FailuresKept' /\ Counted'
  BY <1>1, OthersKeep
<1>3. TypeOK'
  BY <1>1, <1>2 DEF Inv, TypeOK
<1>4. DecidedRight'
  BY <1>1 DEF DecidedRight, Stopped
<1>. QED BY <1>2, <1>3, <1>4 DEF Inv

LEMMA TellKeeps == ASSUME ForEachAssumption, Inv, NEW w \in Worker, Tell(w) PROVE Inv'
<1>1. /\ parent = "stopping" /\ told' = [told EXCEPT ![w] = TRUE]
      /\ UNCHANGED <<bound, masked, interrupted, next, worker, element, exit, ref, deferred, parent,
                     result, ran, failure>>
  BY DEF Tell, control
<1>2. Worker' = Worker /\ Size' = Size /\ TakenOnce' /\ WorkersGoOn' /\ FailuresKept' /\ Counted'
  BY <1>1, OthersKeep
<1>3. TypeOK'
  BY <1>1, <1>2 DEF Inv, TypeOK
<1>4. DecidedRight'
  BY <1>1 DEF Inv, DecidedRight, Stopped
<1>. QED BY <1>2, <1>3, <1>4 DEF Inv

LEMMA GiveUpKeeps == ASSUME ForEachAssumption, Inv, GiveUp PROVE Inv'
<1>1. /\ parent = "stopping" /\ parent' = "decided" /\ \A w \in Worker : worker[w] = "ended"
      /\ result' = collected \cup (IF Stopped THEN {Interruption} ELSE {})
      /\ UNCHANGED <<bound, masked, interrupted, next, worker, element, exit, told, ref, deferred, ran,
                     failure>>
  BY DEF GiveUp, Decide, control, workers
<1>2. Worker' = Worker /\ Size' = Size /\ TakenOnce' /\ WorkersGoOn' /\ FailuresKept' /\ Counted'
  BY <1>1, OthersKeep
<1>3. Interruption \notin Element /\ Interruption \in 0..Elements
  BY DEF Interruption, Element, ForEachAssumption
<1>4. /\ \A e : e \in collected <=> \E w \in Worker : e \in exit[w]
      /\ collected \subseteq 0..Elements
  BY DEF collected, Inv, TypeOK
<1>5. \A e \in Element : (failure[e] = "kept" => e \in result') /\ (e \in result' => failure[e] # "none")
  BY <1>1, <1>3, <1>4 DEF Inv, FailuresKept
<1>6. result' # {}
  <2>1. CASE Stopped
    BY <2>1, <1>1
  <2>2. CASE deferred = "failed"
    BY <2>2, <1>1, <1>4 DEF Inv, Counted
  <2>. QED BY <1>1, <2>1, <2>2 DEF Inv, DecidedRight
<1>7. TypeOK'
  BY <1>1, <1>2, <1>3, <1>4 DEF Inv, TypeOK
<1>8. DecidedRight'
  BY <1>1, <1>2, <1>5, <1>6 DEF DecidedRight, Over, Element
<1>. QED BY <1>2, <1>7, <1>8 DEF Inv

LEMMA StutterKeeps == ASSUME Inv, UNCHANGED vars PROVE Inv'
<1>1. UNCHANGED <<bound, masked, interrupted, next, worker, element, exit, told, ref, deferred, parent,
                  result, ran, failure>>
  BY DEF vars, control, workers
<1>2. Worker' = Worker /\ Size' = Size /\ TakenOnce' /\ WorkersGoOn' /\ FailuresKept' /\ Counted'
  BY <1>1, OthersKeep
<1>. QED BY <1>1, <1>2 DEF Inv, TypeOK, DecidedRight, Over, Stopped

\* Every step keeps the invariant.
LEMMA StepKeeps == ASSUME ForEachAssumption, Inv, [Next]_vars PROVE Inv'
<1>1. CASE Goes
  BY <1>1, ForkKeeps, WakeKeeps, ReturnKeeps, InterruptAllKeeps, TellKeeps, GiveUpKeeps DEF Goes
<1>2. ASSUME NEW w \in Worker, WorkerGoes(w) PROVE Inv'
  BY <1>2, TakeKeeps, SettleKeeps, SucceedKeeps, CountKeeps, ReportKeeps, EndKeeps, StopKeeps
  DEF WorkerGoes
<1>3. ASSUME NEW w \in Worker, Fail(w) \/ FailLate(w) PROVE Inv'
  BY <1>3, FailKeeps, FailLateKeeps
<1>4. CASE Interrupt
  BY <1>4, InterruptKeeps
<1>5. CASE UNCHANGED vars
  BY <1>5, StutterKeeps
<1>. QED BY <1>1, <1>2, <1>3, <1>4, <1>5 DEF Next

LEMMA AlwaysInv == ASSUME ForEachAssumption PROVE Spec => []Inv
<1>1. Init => Inv
  BY InitHolds
<1>2. Inv /\ [Next]_vars => Inv'
  BY StepKeeps
<1>. QED BY <1>1, <1>2, PTL DEF Spec

\* Every variable of a parallel forEach keeps its type.
THEOREM TypeCorrect == ASSUME ForEachAssumption PROVE Spec => []TypeOK
<1>1. Inv => TypeOK
  BY DEF Inv
<1>. QED BY <1>1, AlwaysInv, PTL

\* No element is begun twice; when forEach returns no worker is at one, and all have
\* ended but for one that has just counted the last success; forEach succeeded with every
\* element done, or its cause has every failure but those of workers it had interrupted:
\* for every number of elements and of workers (forEachParUnboundedDiscard, forEachParN).
THEOREM ForEachSettlesRight == ASSUME ForEachAssumption PROVE Spec => []ForEachSettles
<1>1. ASSUME Inv PROVE ForEachSettles
  <2>1. /\ bound \in Bounds /\ ran \in [Element -> Nat] /\ result \in SUBSET (0..Elements)
        /\ Elements \in Nat
    BY <1>1 DEF Inv, TypeOK, ForEachAssumption
  <2>2. Size \in Nat /\ Size > 1 /\ IsFiniteSet(Worker) /\ Cardinality(Worker) = Size
    BY <2>1, WorkersAreMany
  <2>3. bound = 0 => Worker = Element
    BY DEF Worker, Element, Size
  <2>4. \A e \in Element : ran[e] <= 1
    BY <1>1, <2>1, <2>3 DEF Inv, TakenOnce
  <2>5. ASSUME parent = "decided", result = {} PROVE \A e \in Element : ran[e] = 1 /\ failure[e] = "none"
    <3>1. \A w \in Worker : worker[w] \in {"finishing", "ended"} /\ exit[w] = {}
      BY <1>1, <2>5 DEF Inv, DecidedRight, Counted, CountedOnes
    <3>2. 1 \in Worker
      BY <2>2 DEF Worker
    <3>3. \A e \in Element : ran[e] = 1
      <4>1. CASE bound = 0
        BY <1>1, <3>1, <4>1, <2>3 DEF Inv, WorkersGoOn, TakenOnce
      <4>2. CASE bound # 0
        <5>1. next > Elements /\ next \in Nat
          BY <1>1, <3>1, <3>2, <4>2, <2>1 DEF Inv, TypeOK, WorkersGoOn
        <5>. QED BY <1>1, <4>2, <5>1, <2>1 DEF Inv, TakenOnce, Element
      <4>. QED BY <4>1, <4>2
    <3>4. \A e \in Element : failure[e] = "none"
      BY <1>1, <3>1 DEF Inv, FailuresKept
    <3>. QED BY <3>3, <3>4
  <2>. QED BY <1>1, <2>4, <2>5 DEF Inv, ForEachSettles, DecidedRight, Over
<1>2. Inv => ForEachSettles
  BY <1>1
<1>. QED BY <1>2, AlwaysInv, PTL
=============================================================================
