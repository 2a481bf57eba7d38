-------------------------------- MODULE Layer --------------------------------
(***************************************************************************)
(* Layers: the MemoMap of src/internal/layer.ts and the operations of a     *)
(* layer it builds (withScope), under a user who builds a layer with a      *)
(* scope, uses what comes out and closes the scope.                        *)
(*                                                                         *)
(* A layer is a tree of primitive operations (module LayerAlgebra makes     *)
(* them); two trees that are equal are the same object.  The build of each  *)
(* part is a task, named by its path in the tree of builds: the first part  *)
(* of a task t is t with 1 appended, and 2 is what comes after it or beside *)
(* it.  Task <<>> is the whole.  Tasks in parallel are fibers of their own. *)
(*                                                                         *)
(* A scope is named by the task whose inner scope it is, or User or Env.    *)
(* What happens in an uninterruptible region with no effect of somebody     *)
(* else's to look at in between is one step.                               *)
(***************************************************************************)
EXTENDS Integers, Sequences, LayerAlgebra

CONSTANTS
  Layers,          \* the layers to build
  MaxInterrupts    \* how often the build may be interrupted from outside

LayerAssumption == MaxInterrupts \in Nat

\* The scope the user builds with, and the one in his environment; neither is a
\* path.
User == <<0>>
Env  == <<0, 0>>

VARIABLES
  task,          \* the tasks there are, by path (see Fresh and Starts)
  registered,    \* the tasks that have an entry in their memo map
  deferred,      \* of each task that builds an entry: "pending" or its outcome
  observers,     \* of each of them: how many use it
  fins,          \* of each scope: the finalizers, in the order they were added
  work,          \* who closes a scope: the finalizers it has yet to run
  open,          \* the tasks whose resource is open
  interrupted,   \* the tasks whose fiber was interrupted
  user,          \* "building", "using", "closing", "closed"
  opened,        \* history: the tasks that ever acquired a resource
  released,      \* history: the tasks whose entry was released
  late,          \* history: the tasks that were given an entry after that
  lost           \* history: the tasks that an interruption left in between

memo    == <<registered, deferred, observers>>
scopes  == <<fins, work, open, opened, released>>
history == <<late, lost>>
vars    == <<task, memo, scopes, interrupted, user, history>>

Task == DOMAIN task
Path(t, i) == Append(t, i)
Within(t, s) == Len(s) <= Len(t) /\ SubSeq(t, 1, Len(s)) = s

\* The fiber of t was interrupted, or one that waits for t.
Stopped(t) == \E s \in interrupted : Within(t, s)

Goes(t, pc)      == [task EXCEPT ![t].pc = pc]
Ended(t)         == t \in Task /\ task[t].pc = "done"
Result(t)        == task[t].result
OkSoFar(t)       == ~Ended(t) \/ Result(t) = "ok"
Entry(kind, t)   == [kind |-> kind, of |-> t]
But(f, s, value) == [x \in DOMAIN f \cup {s} |-> IF x = s THEN value ELSE f[x]]
----------------------------------------------------------------------------
(* How a task begins.                                                      *)

\* A part of t, to be built into scope s through the memo map of t
\* (getOrElseMemoize); or directly, with a map of its own (buildWithScope).
Memoized(t, l, s) ==
  [layer |-> l, scope |-> s, map |-> task[t].map, into |-> <<>>, direct |-> FALSE,
   pc |-> "lookup", source |-> <<>>, result |-> "none"]
Direct(t, l, s) ==
  [layer |-> l, scope |-> s, map |-> t, into |-> s, direct |-> TRUE,
   pc |-> "op", source |-> t, result |-> "none"]

SameEntry(t, s) ==
  /\ s \in registered /\ task[s].map = task[t].map /\ task[s].layer = task[t].layer

\* An interrupted fiber stops where it can be interrupted.
Stop(t) ==
  /\ Stopped(t) /\ task[t].pc \in {"lookup", "entered", "await", "counted"}
  /\ task' = [task EXCEPT ![t].pc = "done", ![t].result = "interrupt"]
  /\ lost' = IF task[t].pc \in {"entered", "counted"} THEN lost \cup {t} ELSE lost
  /\ UNCHANGED <<memo, scopes, interrupted, user, late>>

\* The map has the layer, and the task waits for it; or it will build it.
Lookup(t) ==
  /\ task[t].pc = "lookup" /\ ~Stopped(t)
  /\ \/ \E s \in Task :
          /\ SameEntry(t, s)
          /\ task' = [task EXCEPT ![t].pc = "await", ![t].source = s]
          /\ UNCHANGED <<memo, fins>>
     \/ /\ ~\E s \in Task : SameEntry(t, s)
        /\ task' = [task EXCEPT ![t].pc = "entered", ![t].source = t, ![t].into = t]
        /\ registered' = IF task[t].layer.tag = "Fresh" THEN registered ELSE registered \cup {t}
        /\ deferred' = But(deferred, t, "pending")
        /\ observers' = But(observers, t, 0)
        /\ fins' = But(fins, t, <<>>)
  /\ UNCHANGED <<work, open, opened, released, interrupted, user, history>>

\* The uninterruptibleMask, and back into the build that may be interrupted.
Enter(t) ==
  /\ task[t].pc = "entered" /\ ~Stopped(t)
  /\ task' = Goes(t, "op")
  /\ UNCHANGED <<memo, scopes, interrupted, user, history>>
----------------------------------------------------------------------------
(* A task that uses the entry of another.                                  *)

\* Mutant of AwaitEntry: it forgets to count itself.
AwaitUncounted(t) ==
  /\ task[t].pc = "await"
  /\ LET s == task[t].source IN
     /\ deferred[s] = "ok" /\ task' = Goes(t, "counted")
     /\ late' = IF s \in released THEN late \cup {t} ELSE late
  /\ UNCHANGED <<memo, scopes, interrupted, user, lost>>

\* The memoized acquire: what the deferred says; a success is counted.
AwaitEntry(t) ==
  /\ task[t].pc = "await"
  /\ LET s == task[t].source IN
     /\ deferred[s] # "pending"
     /\ \/ /\ deferred[s] = "ok"
           /\ task' = Goes(t, "counted")
           /\ observers' = [observers EXCEPT ![s] = @ + 1]
           /\ late' = IF s \in released THEN late \cup {t} ELSE late
        \/ /\ deferred[s] # "ok"
           /\ task' = [task EXCEPT ![t].pc = "done", ![t].result = deferred[s]]
           /\ UNCHANGED <<observers, late>>
  /\ UNCHANGED <<registered, deferred, scopes, interrupted, user, lost>>

\* Its scope will release the entry, once more.
Attach(t) ==
  /\ task[t].pc = "counted" /\ ~Stopped(t)
  /\ task' = [task EXCEPT ![t].pc = "done", ![t].result = "ok"]
  /\ fins' = [fins EXCEPT ![task[t].scope] = Append(@, Entry("entry", task[t].source))]
  /\ UNCHANGED <<memo, work, open, opened, released, interrupted, user, history>>
----------------------------------------------------------------------------
(* The operation of a layer: withScope.                                    *)

Kid(t, i) == task[t].layer.parts[i]

\* The scope a part of t is built with: the inner scope of t, or, of a layer
\* that extends its scope, the one in the environment.
PartScope(t) == IF task[t].layer.tag = "ExtendScope" THEN Env ELSE task[t].into

Starts(t, i, l) ==
  But(Goes(t, "parts"), Path(t, i),
      IF task[t].layer.tag = "Fresh" THEN Direct(Path(t, i), l, PartScope(t))
                                     ELSE Memoized(t, l, PartScope(t)))

\* FromEffect and Scoped: the effect comes to its end, whatever that is.
Acquire(t) ==
  /\ task[t].pc = "op" /\ IsLeaf(task[t].layer) /\ ~Stopped(t)
  /\ \E r \in task[t].layer.ends :
       /\ task' = [task EXCEPT ![t].pc = "out", ![t].result = r]
       /\ IF r = "ok" /\ task[t].layer.tag = "Scoped"
          THEN /\ open' = open \cup {t} /\ opened' = opened \cup {t}
               /\ fins' = [fins EXCEPT ![task[t].into] = Append(@, Entry("resource", t))]
          ELSE UNCHANGED <<open, opened, fins>>
  /\ UNCHANGED <<memo, work, released, interrupted, user, history>>

\* The first part of the others, and the second of ZipWithPar beside it.
Begin(t) ==
  /\ task[t].pc = "op" /\ ~IsLeaf(task[t].layer) /\ ~Stopped(t)
  /\ task' = IF task[t].layer.tag = "ZipWithPar"
             THEN But(Starts(t, 1, Kid(t, 1)), Path(t, 2), Memoized(t, Kid(t, 2), PartScope(t)))
             ELSE Starts(t, 1, Kid(t, 1))
  /\ UNCHANGED <<memo, scopes, interrupted, user, history>>

\* What follows the first part: nothing, the second (ZipWith, ProvideTo), or
\* what Fold has for the outcome.
Follow(l, r) ==
  CASE l.tag = "Fold"                               -> <<l.on[r]>>
    [] l.tag \in {"ZipWith", "ProvideTo"} /\ r = "ok" -> <<l.parts[2]>>
    [] OTHER                                        -> <<>>

Continue(t) ==
  /\ task[t].pc = "parts" /\ task[t].layer.tag # "ZipWithPar" /\ ~Stopped(t)
  /\ Ended(Path(t, 1)) /\ Path(t, 2) \notin Task
  /\ LET next == Follow(task[t].layer, Result(Path(t, 1))) IN
     task' = IF next # <<>> THEN Starts(t, 2, next[1])
             ELSE [task EXCEPT ![t].pc = "out", ![t].result = Result(Path(t, 1))]
  /\ UNCHANGED <<memo, scopes, interrupted, user, history>>

\* A part that failed interrupts the one beside it.
InterruptOther(t) ==
  /\ task[t].pc = "parts" /\ task[t].layer.tag = "ZipWithPar"
  /\ \E i, j \in {1, 2} :
       /\ Ended(Path(t, i)) /\ Result(Path(t, i)) # "ok"
       /\ ~Ended(Path(t, j)) /\ Path(t, j) \notin interrupted
       /\ interrupted' = interrupted \cup {Path(t, j)}
  /\ UNCHANGED <<task, memo, scopes, user, history>>

\* Both parts have ended.
Collect(t) ==
  /\ task[t].pc = "parts" /\ ~Stopped(t)
  /\ Ended(Path(t, 1)) /\ Ended(Path(t, 2))
  /\ task' = [task EXCEPT ![t].pc = "out", ![t].result =
       IF task[t].layer.tag = "ZipWithPar" THEN Combined({Result(Path(t, 1)), Result(Path(t, 2))})
                                           ELSE Result(Path(t, 2))]
  /\ UNCHANGED <<memo, scopes, interrupted, user, history>>

\* An interrupted task whose parts have ended does nothing more.
StopParts(t) ==
  /\ Stopped(t) /\ task[t].pc \in {"op", "parts"}
  /\ \A i \in {1, 2} : Path(t, i) \in Task => Ended(Path(t, i))
  /\ task' = [task EXCEPT ![t].pc = "out", ![t].result = "interrupt"]
  /\ UNCHANGED <<memo, scopes, interrupted, user, history>>
----------------------------------------------------------------------------
(* The end of a build.                                                     *)

\* A direct build just ends.
LeaveDirect(t) ==
  /\ task[t].pc = "out" /\ task[t].direct
  /\ task' = [task EXCEPT ![t].pc = "done",
                          ![t].result = IF Stopped(t) THEN "interrupt" ELSE @]
  /\ UNCHANGED <<memo, scopes, interrupted, user, history>>

\* Success: the builder is counted, its scope will release the entry, and those
\* who wait are told.
Publish(t) ==
  /\ task[t].pc = "out" /\ ~task[t].direct /\ ~Stopped(t) /\ Result(t) = "ok"
  /\ task' = Goes(t, "done")
  /\ observers' = [observers EXCEPT ![t] = @ + 1]
  /\ fins' = [fins EXCEPT ![task[t].scope] = Append(@, Entry("entry", t))]
  /\ deferred' = [deferred EXCEPT ![t] = "ok"]
  /\ UNCHANGED <<registered, work, open, opened, released, interrupted, user, history>>

\* Failure: those who wait are told, and the inner scope is closed.
Fail(t) ==
  /\ task[t].pc = "out" /\ ~task[t].direct /\ (Stopped(t) \/ Result(t) # "ok")
  /\ LET r == IF Stopped(t) THEN "interrupt" ELSE Result(t) IN
     /\ task' = [task EXCEPT ![t].pc = "closing", ![t].result = r]
     /\ deferred' = [deferred EXCEPT ![t] = r]
  /\ work' = But(work, t, fins[t]) /\ fins' = [fins EXCEPT ![t] = <<>>]
  /\ UNCHANGED <<registered, observers, open, opened, released, interrupted, user, history>>

EndFail(t) ==
  /\ task[t].pc = "closing" /\ work[t] = <<>>
  /\ task' = Goes(t, "done")
  /\ UNCHANGED <<memo, scopes, interrupted, user, history>>

\* ref.modify(observers, (n) => [n === 1, n - 1]).
Released(s) == observers[s] = 1

\* Whoever closes a scope runs its finalizers, the last one first.  One that
\* releases an entry for the last user closes the inner scope of the entry.
Finalize(w) ==
  /\ work[w] # <<>>
  /\ LET f    == work[w][Len(work[w])]
         rest == SubSeq(work[w], 1, Len(work[w]) - 1)
     IN \/ /\ f.kind = "resource"
           /\ open' = open \ {f.of}
           /\ work' = [work EXCEPT ![w] = rest]
           /\ UNCHANGED <<observers, fins, released>>
        \/ /\ f.kind = "entry"
           /\ observers' = [observers EXCEPT ![f.of] = @ - 1]
           /\ IF Released(f.of)
              THEN /\ work' = [work EXCEPT ![w] = rest \o fins[f.of]]
                   /\ fins' = [fins EXCEPT ![f.of] = <<>>]
                   /\ released' = released \cup {f.of}
              ELSE work' = [work EXCEPT ![w] = rest] /\ UNCHANGED <<fins, released>>
           /\ UNCHANGED open
  /\ UNCHANGED <<task, registered, deferred, opened, interrupted, user, history>>
----------------------------------------------------------------------------
(* The user: build, provideLayer, launch, toRuntime.                       *)

Interrupt ==
  /\ user = "building" /\ MaxInterrupts > 0 /\ <<>> \notin interrupted
  /\ interrupted' = interrupted \cup {<<>>}
  /\ UNCHANGED <<task, memo, scopes, user, history>>

Built ==
  /\ user = "building" /\ Ended(<<>>) /\ Result(<<>>) = "ok"
  /\ user' = "using"
  /\ UNCHANGED <<task, memo, scopes, interrupted, history>>

\* The scope is closed, and then the environment's.
Close ==
  /\ \/ user = "using"
     \/ user = "building" /\ Ended(<<>>) /\ Result(<<>>) # "ok"
  /\ user' = "closing"
  /\ work' = But(work, User, fins[Env] \o fins[User])
  /\ fins' = [fins EXCEPT ![User] = <<>>, ![Env] = <<>>]
  /\ UNCHANGED <<task, memo, open, opened, released, interrupted, history>>

Closed ==
  /\ user = "closing" /\ work[User] = <<>>
  /\ user' = "closed"
  /\ UNCHANGED <<task, memo, scopes, interrupted, history>>
----------------------------------------------------------------------------
Init ==
  /\ \E l \in Layers :
       task = (<<>> :> [layer |-> l, scope |-> User, map |-> <<>>, into |-> User, direct |-> TRUE,
                        pc |-> "op", source |-> <<>>, result |-> "none"])
  /\ registered = {} /\ deferred = <<>> /\ observers = <<>>
  /\ fins = (User :> <<>> @@ Env :> <<>>) /\ work = <<>>
  /\ open = {} /\ opened = {} /\ interrupted = {}
  /\ user = "building" /\ released = {} /\ late = {} /\ lost = {}

Step(t) ==
  \/ Stop(t) \/ Lookup(t) \/ Enter(t) \/ AwaitEntry(t) \/ Attach(t)
  \/ Acquire(t) \/ Begin(t) \/ Continue(t) \/ InterruptOther(t) \/ Collect(t) \/ StopParts(t)
  \/ LeaveDirect(t) \/ Publish(t) \/ Fail(t) \/ EndFail(t)

Next ==
  \/ \E t \in Task : Step(t)
  \/ \E w \in DOMAIN work : Finalize(w)
  \/ Interrupt \/ Built \/ Close \/ Closed

Spec == Init /\ [][Next]_vars

\* A fiber that can go on does, and an effect of a layer comes to an end.
FairSpec == Spec /\ WF_vars(\E t \in Task : Step(t)) /\ WF_vars(\E w \in DOMAIN work : Finalize(w))
----------------------------------------------------------------------------
TypeOK ==
  /\ \A t \in Task : task[t].pc \in {"lookup", "entered", "op", "parts", "out", "await",
                                     "counted", "closing", "done"}
  /\ \A t \in Task : task[t].result \in Outcome \cup {"none"}
  /\ \A t \in DOMAIN observers : observers[t] \in Nat
  /\ registered \subseteq Task /\ open \subseteq Task /\ interrupted \subseteq Task
  /\ user \in {"building", "using", "closing", "closed"}

\* A task is used by the whole if it was built and all it is a part of is built,
\* or still being built.
InUse(t) ==
  /\ user \in {"building", "using"} /\ Ended(t)
  /\ \A i \in 0..Len(t) :
       LET s == SubSeq(t, 1, i) IN OkSoFar(s) /\ task[s].pc # "closing" /\ ~Stopped(s)

\* The same layer is allocated once, however many of its users meet: two tasks
\* that acquired the resource of one layer had different maps.
BuiltOnce ==
  \A s, t \in opened : task[s].layer = task[t].layer /\ task[s].map = task[t].map => s = t

\* Counting the observers is right: what was handed to a task before it was
\* released for the last of its users stays, as long as the task is in use.
StaysWhileUsed ==
  \A t \in Task : InUse(t) /\ t # <<>> /\ t \notin late =>
    LET s == task[t].source IN
    /\ s \notin released
    /\ task[s].layer.tag = "Scoped" => s \in open

\* When the user has closed the scope nothing is left open, unless a user of a
\* layer was interrupted after it was counted and before its scope knew.
NothingLeaks ==
  user = "closed" => open = {} \/ \E t \in lost : task[t].source # t

BuildOver == Ended(<<>>) \/ \E t \in lost : task[t].source = t

\* A build ends, unless somebody was interrupted after it had promised to build
\* a layer and before it began to.
BuildEnds == <>BuildOver
=============================================================================
