----------------------------- MODULE Scheduler -----------------------------
(***************************************************************************)
(* The schedulers of src/Scheduler.ts.  Tasks wait in buckets, in the      *)
(* order of the priorities that the buckets were made for.  A turn takes   *)
(* all of them; what a task schedules meanwhile waits for the next turn.   *)
(* The mixed scheduler asks for its next turn as a microtask, and now and  *)
(* then with a timer, so that others have their turn; makeBatched asks its *)
(* callback.  Who uses the other two runs their turns: a SyncScheduler is  *)
(* flushed once and gives what comes later to the default one.             *)
(***************************************************************************)
EXTENDS Naturals, Sequences, SequencesExt

CONSTANTS
  Priorities,              \* the priorities of tasks
  MaxTasks,                \* how many tasks there are, in all
  maxNextTickBeforeTimer

SchedulerAssumption == Priorities \subseteq Nat /\ {MaxTasks, maxNextTickBeforeTimer} \subseteq Nat

VARIABLES
  kind,      \* "mixed", "batched", "sync" or "controlled"
  buckets,   \* each is <<priority, tasks>>
  running,   \* a turn was asked for
  asked,     \* how: "none", "microtask", "timer" or "callback"
  depth,     \* of the microtask
  batch,     \* what is left of this turn
  turn,      \* a turn is running
  deferred,  \* the SyncScheduler was flushed; what comes later is of kind "mixed"
  priority,  \* history: the priorities of the tasks, by their numbers
  ran,       \* history: the tasks that were run
  streak     \* history: the microtasks in a row

vars == <<kind, buckets, running, asked, depth, batch, turn, deferred, priority, ran, streak>>

\* Mutant of Joined: a task joins the first bucket that is not for a higher one.
JoinedFirst(bs, t, p) ==
  LET low == {i \in DOMAIN bs : bs[i][1] <= p} IN
  IF low = {} THEN <<<<p, <<t>>>>>> \o bs
  ELSE [bs EXCEPT ![CHOOSE i \in low : \A j \in low : i <= j][2] = Append(@, t)]

\* PriorityBuckets: a task joins the last of the buckets that are not for a higher
\* one; only if there is none it has a bucket of its own.
Joined(bs, t, p) ==
  LET low == {i \in DOMAIN bs : bs[i][1] <= p} IN
  IF low = {} THEN <<<<p, <<t>>>>>> \o bs
  ELSE [bs EXCEPT ![CHOOSE i \in low : \A j \in low : j <= i][2] = Append(@, t)]

SelfDriven == kind \in {"mixed", "batched"} \/ deferred

\* starve
Asking(d) == IF kind = "batched" THEN "callback" ELSE IF d >= maxNextTickBeforeTimer THEN "timer" ELSE "microtask"

\* scheduleTask
scheduleTask(p) ==
  /\ Len(priority) < MaxTasks /\ priority' = Append(priority, p)
  /\ buckets' = Joined(buckets, Len(priority'), p)
  /\ IF SelfDriven /\ ~running THEN running' = TRUE /\ asked' = Asking(0) /\ depth' = 0
     ELSE UNCHANGED <<running, asked, depth>>
  /\ UNCHANGED <<kind, batch, turn, deferred, ran, streak>>

\* starveInternal, and the loops of flush and step, begin: the buckets are taken.
Take ==
  /\ buckets' = <<>> /\ batch' = FlattenSeq([i \in DOMAIN buckets |-> buckets[i][2]]) /\ turn' = TRUE

Turn ==
  /\ asked # "none" /\ ~turn /\ Take /\ asked' = "none"
  /\ depth' = IF asked = "timer" THEN 0 ELSE depth + 1
  /\ streak' = IF asked = "microtask" THEN streak + 1 ELSE 0
  /\ UNCHANGED <<kind, running, deferred, priority, ran>>

\* flush, and step, of those that somebody else runs.
flush ==
  /\ ~SelfDriven /\ ~turn /\ Take
  /\ UNCHANGED <<kind, running, asked, depth, deferred, priority, ran, streak>>

RunTask ==
  /\ turn /\ batch # <<>> /\ ran' = Append(ran, Head(batch)) /\ batch' = Tail(batch)
  /\ UNCHANGED <<kind, buckets, running, asked, depth, turn, deferred, priority, streak>>

\* A turn has run all it took.
TurnEnds ==
  /\ turn /\ batch = <<>> /\ turn' = FALSE
  /\ \/ SelfDriven /\ buckets = <<>> /\ running' = FALSE /\ streak' = 0
        /\ UNCHANGED <<asked, depth, deferred>>
     \/ SelfDriven /\ buckets # <<>> /\ asked' = Asking(depth) /\ UNCHANGED <<running, depth, deferred, streak>>
     \/ ~SelfDriven /\ deferred' = (kind = "sync" /\ buckets = <<>>) /\ UNCHANGED <<running, asked, depth, streak>>
  /\ UNCHANGED <<kind, buckets, batch, priority, ran>>

Init ==
  /\ kind \in {"mixed", "batched", "sync", "controlled"} /\ buckets = <<>> /\ batch = <<>>
  /\ running = FALSE /\ turn = FALSE /\ deferred = FALSE /\ asked = "none" /\ depth = 0
  /\ priority = <<>> /\ ran = <<>> /\ streak = 0

Next == (\E p \in Priorities : scheduleTask(p)) \/ Turn \/ flush \/ RunTask \/ TurnEnds

Spec == Init /\ [][Next]_vars
----------------------------------------------------------------------------
TypeOK ==
  /\ \A i \in DOMAIN buckets : buckets[i][1] \in Priorities /\ buckets[i][2] # <<>>
  /\ asked \in {"none", "microtask", "timer", "callback"} /\ depth \in Nat /\ streak \in Nat

Scheduled == DOMAIN priority
Waiting   == UNION {ToSet(buckets[i][2]) : i \in DOMAIN buckets}
At(t)     == CHOOSE i \in DOMAIN ran : ran[i] = t

\* No task is lost or run twice, whenever it was scheduled: what was not run is in
\* this turn or waits for one that was asked for.
NoTaskIsLost ==
  /\ IsInjective(ran) /\ ToSet(ran) \cup ToSet(batch) \cup Waiting = Scheduled
  /\ SelfDriven /\ buckets # <<>> => running /\ (turn \/ asked # "none")
  /\ ~(turn /\ asked # "none")

\* A task is overtaken only by those of a lower number, which buckets it shares.
InOrder ==
  \A t \in ToSet(ran) : \A s \in 1..t - 1 :
    priority[s] <= priority[t] => s \in ToSet(ran) /\ At(s) < At(t)

\* However much its tasks schedule, a timer has its turn.
TimersHaveTheirTurn == streak <= maxNextTickBeforeTimer
=============================================================================
