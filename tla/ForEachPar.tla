----------------------------- MODULE ForEachPar -----------------------------
(***************************************************************************)
(* Effect.forEach in parallel: forEachParUnboundedDiscard and forEachParN  *)
(* of src/internal/fiberRuntime.ts.  The fiber forks its workers as        *)
(* daemons and waits for a Deferred; the first failure completes it, and   *)
(* the last success does.                                                  *)
(*                                                                         *)
(* Without a bound every element has a worker of its own; with one the     *)
(* workers take the elements from one iterator.                            *)
(***************************************************************************)
EXTENDS Naturals, FiniteSets

CONSTANTS
  Elements,       \* the elements are 1..Elements
  Bounds,         \* the bounds n to consider; 0 is "unbounded"
  MayInterrupt    \* whether the fiber may be interrupted

\* Fewer than two elements, and a bound of 1, are run without workers.
ForEachAssumption ==
  Elements \in Nat \ {0, 1} /\ Bounds \subseteq Nat \ {1} /\ MayInterrupt \in BOOLEAN

Element == 1..Elements

VARIABLES
  bound,
  masked,        \* forEach is run in an uninterruptible region, and so is f
  next,          \* the iterator: the next element
  worker,        \* of each worker: "none", "forked", "running" or "settled" while it is
                 \* in restore, "succeeded" or "failed" after it, "finishing" or "ended"
  element,       \* the element it runs, or 0
  exit,          \* its exit: a cause as the set of its leaves, {} a success
  told,
  ref,           \* how many workers succeeded, as the code counts them
  deferred,      \* "none", "done" or "failed"
  parent,        \* "forking", "waiting", "stopping", "inheriting" or "decided"
  result,        \* of the whole, likewise
  interrupted,   \* somebody has interrupted the fiber
  ran,           \* history: how often an element was begun, and how it failed:
  failure        \* "none", "kept", or "late" if its worker was told before that

control == <<bound, masked, interrupted>>
workers == <<worker, element, exit, told, next, ref>>
vars    == <<control, workers, deferred, parent, result, ran, failure>>

Size   == IF bound = 0 THEN Elements ELSE bound
Worker == 1..Size

Set(w, to)     == worker' = [worker EXCEPT ![w] = to]
Interruption   == 0      \* among the elements that are the leaves of a cause
----------------------------------------------------------------------------
(* The workers: uninterruptible but for what they do in restore.           *)

InRestore(w) == worker[w] \in {"forked", "running", "settled"}
GoesOn(w)    == ~told[w] \/ masked

\* The element that the worker takes, or 0 if there is none left.
Taken(w) ==
  IF bound = 0 THEN (IF worker[w] = "forked" THEN w ELSE 0)
  ELSE IF next <= Elements THEN next ELSE 0

Take(w) ==
  /\ worker[w] \in {"forked", "settled"} /\ GoesOn(w) /\ Taken(w) # 0
  /\ Set(w, "running") /\ element' = [element EXCEPT ![w] = Taken(w)]
  /\ next' = IF bound = 0 THEN next ELSE next + 1
  /\ ran' = [ran EXCEPT ![Taken(w)] = @ + 1]
  /\ UNCHANGED <<control, exit, told, ref, deferred, parent, result, failure>>

\* f(a) succeeds, and the worker looks for another one.
Settle(w) ==
  /\ worker[w] = "running" /\ GoesOn(w) /\ Set(w, "settled")
  /\ UNCHANGED <<control, element, exit, told, next, ref, deferred, parent, result, ran, failure>>

\* There is none, and the worker leaves restore.
Succeed(w) ==
  /\ worker[w] \in {"forked", "settled"} /\ GoesOn(w) /\ Taken(w) = 0 /\ Set(w, "succeeded")
  /\ UNCHANGED <<control, element, exit, told, next, ref, deferred, parent, result, ran, failure>>

\* The last worker to succeed completes the Deferred.
Count(w) ==
  /\ worker[w] = "succeeded" /\ Set(w, "finishing")
  /\ \/ ref + 1 = Size /\ deferred' = (IF deferred = "none" THEN "done" ELSE deferred)
        /\ UNCHANGED ref
     \/ ref + 1 # Size /\ ref' = ref + 1 /\ UNCHANGED deferred
  /\ UNCHANGED <<control, element, exit, told, next, parent, result, ran, failure>>

\* f(a) fails, and the worker leaves restore with that.
Fail(w) ==
  /\ worker[w] = "running" /\ GoesOn(w) /\ Set(w, "failed")
  /\ exit' = [exit EXCEPT ![w] = {element[w]}]
  /\ failure' = [failure EXCEPT ![element[w]] = "kept"]
  /\ UNCHANGED <<control, element, told, next, ref, deferred, parent, result, ran>>

Report(w) ==
  /\ worker[w] = "failed" /\ Set(w, "finishing")
  /\ deferred' = IF deferred = "none" THEN "failed" ELSE deferred
  /\ UNCHANGED <<control, element, exit, told, next, ref, parent, result, ran, failure>>

End(w) ==
  /\ worker[w] = "finishing" /\ Set(w, "ended")
  /\ UNCHANGED <<control, element, exit, told, next, ref, deferred, parent, result, ran, failure>>

\* An interruption ends the worker, and completes nothing.
Stop(w) ==
  /\ InRestore(w) /\ ~GoesOn(w) /\ Set(w, "ended") /\ exit' = [exit EXCEPT ![w] = {Interruption}]
  /\ UNCHANGED <<control, element, told, next, ref, deferred, parent, result, ran, failure>>

\* f(a) fails in a worker that is told before it has left restore: no handler of
\* the worker runs, and stripFailures leaves of the cause only what is a defect.
FailLate(w) ==
  /\ worker[w] = "running" /\ ~GoesOn(w) /\ Set(w, "ended")
  /\ \E defects \in SUBSET {element[w]} : exit' = [exit EXCEPT ![w] = {Interruption} \cup defects]
  /\ failure' = [failure EXCEPT ![element[w]] = "late"]
  /\ UNCHANGED <<control, element, told, next, ref, deferred, parent, result, ran>>
----------------------------------------------------------------------------
(* The fiber.  It can be interrupted while it waits, and when it leaves.   *)

Stopped == interrupted /\ ~masked

Fork ==
  /\ parent = "forking"
  /\ \E w \in Worker :
       /\ worker[w] = "none" /\ \A v \in 1..(w - 1) : worker[v] # "none"
       /\ Set(w, "forked") /\ parent' = IF w = Size THEN "waiting" ELSE "forking"
  /\ UNCHANGED <<control, element, exit, told, next, ref, deferred, result, ran, failure>>

Interrupt ==
  /\ MayInterrupt /\ ~interrupted /\ parent # "decided" /\ interrupted' = TRUE
  /\ UNCHANGED <<bound, masked, workers, deferred, parent, result, ran, failure>>

\* The Deferred has succeeded.
Wake ==
  /\ parent = "waiting" /\ deferred = "done" /\ ~Stopped /\ parent' = "inheriting"
  /\ UNCHANGED <<control, workers, deferred, result, ran, failure>>

\* inheritAll of every worker, though the last one may not have ended.
Return ==
  /\ parent = "inheriting" /\ parent' = "decided"
  /\ result' = IF Stopped THEN {Interruption} ELSE {}
  /\ UNCHANGED <<control, workers, deferred, ran, failure>>

\* It has failed, or the fiber is interrupted: it forks an interrupter per worker.
InterruptAll ==
  /\ parent = "waiting" /\ (deferred = "failed" \/ Stopped) /\ parent' = "stopping"
  /\ UNCHANGED <<control, workers, deferred, result, ran, failure>>

Tell(w) ==
  /\ parent = "stopping" /\ ~told[w] /\ told' = [told EXCEPT ![w] = TRUE]
  /\ UNCHANGED <<control, worker, element, exit, next, ref, deferred, parent, result, ran, failure>>

\* exitCollectAll: the causes of all the workers.
collected == UNION {exit[w] : w \in Worker}

\* stripFailures of the cause of the Deferred leaves an interruption or nothing.
Decide ==
  /\ parent' = "decided" /\ result' = collected \cup (IF Stopped THEN {Interruption} ELSE {})
  /\ UNCHANGED <<control, workers, deferred, ran, failure>>

\* Mutant of GiveUp: the workers are not awaited.
GiveUpAtOnce == parent = "stopping" /\ (\A w \in Worker : told[w]) /\ Decide

\* The interrupters are through: each has told its worker and awaited it.
GiveUp == parent = "stopping" /\ (\A w \in Worker : told[w] /\ worker[w] = "ended") /\ Decide
----------------------------------------------------------------------------
Init ==
  /\ bound \in Bounds /\ masked \in BOOLEAN /\ interrupted = FALSE /\ next = 1
  /\ worker = [w \in Worker |-> "none"] /\ element = [w \in Worker |-> 0]
  /\ exit = [w \in Worker |-> {}] /\ told = [w \in Worker |-> FALSE]
  /\ ref = 0 /\ deferred = "none" /\ parent = "forking" /\ result = {}
  /\ ran = [e \in Element |-> 0] /\ failure = [e \in Element |-> "none"]

Goes == Fork \/ Wake \/ Return \/ InterruptAll \/ GiveUp \/ \E w \in Worker : Tell(w)

WorkerGoes(w) ==
  w \in Worker /\ (Take(w) \/ Settle(w) \/ Succeed(w) \/ Count(w) \/ Report(w) \/ End(w) \/ Stop(w))

Next == Goes \/ Interrupt \/ \E w \in Worker : WorkerGoes(w) \/ Fail(w) \/ FailLate(w)

Spec == Init /\ [][Next]_vars

\* The scheduler runs every fiber that can go on, and f ends.
Fairness ==
  /\ WF_vars(Goes)
  /\ \A w \in 1..Elements \cup UNION {1..n : n \in Bounds} : WF_vars(WorkerGoes(w))

FairSpec == Spec /\ Fairness
----------------------------------------------------------------------------
TypeOK ==
  /\ bound \in Bounds /\ masked \in BOOLEAN /\ interrupted \in BOOLEAN /\ next \in 1..Elements + 1
  /\ worker \in [Worker -> {"none", "forked", "running", "settled", "succeeded", "failed",
                            "finishing", "ended"}]
  /\ element \in [Worker -> 0..Elements] /\ exit \in [Worker -> SUBSET (0..Elements)]
  /\ told \in [Worker -> BOOLEAN] /\ ref \in 0..Size
  /\ deferred \in {"none", "done", "failed"}
  /\ parent \in {"forking", "waiting", "stopping", "inheriting", "decided"}
  /\ result \in SUBSET (0..Elements)
  /\ ran \in [Element -> Nat] /\ failure \in [Element -> {"none", "kept", "late"}]

\* No element is begun twice.  When forEach returns no worker is at an element any
\* more, and all have ended unless the Deferred says that they succeeded (the one that
\* says so may have its end before it).  It succeeds only if every element did;
\* otherwise its cause has every failure, but for what failed in a worker that had
\* been interrupted, and no failure that there was not.
ForEachSettles ==
  /\ \A e \in Element : ran[e] <= 1
  /\ parent = "decided" =>
       /\ \A w \in Worker : worker[w] = "ended" \/ (worker[w] = "finishing" /\ deferred = "done")
       /\ \A e \in Element : failure[e] = "kept" => e \in result
       /\ \A e \in Element : e \in result => failure[e] # "none"
       /\ result = {} => \A e \in Element : ran[e] = 1 /\ failure[e] = "none"

Waits    == parent = "waiting"
Returned == parent = "decided"

\* forEach returns, however a failure and an interruption fall together.
ForEachReturns == Waits ~> Returned
=============================================================================
