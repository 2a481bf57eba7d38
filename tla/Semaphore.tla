----------------------------- MODULE Semaphore -----------------------------
(***************************************************************************)
(* Semaphores and Ref.Synchronized: src/internal/effect/circular.ts.       *)
(*                                                                         *)
(* A fiber runs modifyEffect of a Synchronized, or any body between a take *)
(* and a release, under withPermits(n).  `pc' is where it is:              *)
(*   "idle"      between operations                                        *)
(*   "waiting"   take: suspended, with an observer among the waiters       *)
(*   "cleanup"   take: interrupted, the observer not yet removed           *)
(*   "resumed"   take: its callback was called, the fiber has not run yet  *)
(*   "inside"    it has its permits; modifyEffect is about to read the ref *)
(*   "changing"  modifyEffect: f(a) runs, what it returns is set next      *)
(*   "releasing" ensuring: about to release                                *)
(* A release does not wake anybody itself: it schedules a task that does,  *)
(* which runs whenever the scheduler gets to it (Wake).                    *)
(***************************************************************************)
EXTENDS Naturals, Sequences, SequencesExt, FiniteSetsExt

CONSTANTS
  Fiber,
  Permits,        \* the numbers of permits to consider
  Fuel,           \* Fuel[f]: how often f uses the semaphore
  MaxInterrupts   \* how many interruptions there are, in all

SemaphoreAssumption ==
  /\ IsFiniteSet(Fiber) /\ Permits \subseteq Nat \ {0}
  /\ Fuel \in [Fiber -> Nat] /\ MaxInterrupts \in Nat

VARIABLES
  permits, taken,
  waiters,       \* the fibers whose observers wait, in order
  wakes,         \* how many wake-up tasks are scheduled
  pc, need,      \* need[f]: the permits f asked for
  ref,           \* the value of the Synchronized: a counter
  seen,          \* the value modifyEffect read
  writes,        \* history: how many times the counter was incremented
  lost,          \* history: permits given to a fiber that was interrupted
  fuel, signals

sem  == <<permits, taken, waiters, wakes, lost>>
cell == <<ref, seen, writes>>
vars == <<sem, cell, pc, need, fuel, signals>>

free == permits - taken

GoTo(f, p) == pc' = [pc EXCEPT ![f] = p]
----------------------------------------------------------------------------
(* Taking.                                                                 *)

\* take(n): enough permits are free, or an observer is added.
Take(f) ==
  \E n \in 1..permits :
    /\ pc[f] = "idle" /\ fuel[f] > 0
    /\ fuel' = [fuel EXCEPT ![f] = @ - 1]
    /\ need' = [need EXCEPT ![f] = n]
    /\ \/ /\ free >= n
          /\ taken' = taken + n /\ GoTo(f, "resumed")
          /\ UNCHANGED waiters
       \/ /\ free < n
          /\ waiters' = Append(waiters, f) /\ GoTo(f, "waiting")
          /\ UNCHANGED taken
    /\ UNCHANGED <<permits, wakes, lost, cell, signals>>

\* The fiber runs again, and leaves the region in which it can be interrupted.
Resume(f) == /\ pc[f] = "resumed" /\ GoTo(f, "inside")
             /\ UNCHANGED <<sem, cell, need, fuel, signals>>

\* The onInterrupt of an interrupted take: the observer is removed, if it is
\* still there.
Cleanup(f) ==
  /\ pc[f] = "cleanup"
  /\ waiters' = RemoveFirst(waiters, f)
  /\ GoTo(f, "idle")
  /\ UNCHANGED <<permits, taken, wakes, lost, cell, need, fuel, signals>>
----------------------------------------------------------------------------
(* The body, and releasing.                                                *)

\* modifyEffect: get, then f
Read(f) == /\ pc[f] = "inside"
           /\ seen' = [seen EXCEPT ![f] = ref] /\ GoTo(f, "changing")
           /\ UNCHANGED <<sem, ref, writes, need, fuel, signals>>

\* ... whose result is set,
Write(f) == /\ pc[f] = "changing"
            /\ ref' = seen[f] + 1 /\ writes' = writes + 1 /\ GoTo(f, "releasing")
            /\ UNCHANGED <<sem, seen, need, fuel, signals>>

\* ... unless it fails.
Fail(f) == /\ pc[f] \in {"inside", "changing"} /\ GoTo(f, "releasing")
           /\ UNCHANGED <<sem, cell, need, fuel, signals>>

\* Mutant of Release: one permit goes back.
ReleaseOne(f) ==
  /\ pc[f] = "releasing"
  /\ taken' = taken - 1 /\ wakes' = wakes + 1
  /\ GoTo(f, "idle")
  /\ UNCHANGED <<permits, waiters, lost, cell, need, fuel, signals>>

Release(f) ==
  /\ pc[f] = "releasing"
  /\ taken' = taken - need[f] /\ wakes' = wakes + 1
  /\ GoTo(f, "idle")
  /\ UNCHANGED <<permits, waiters, lost, cell, need, fuel, signals>>

Walk == [at : Nat \ {0}, waiters : Seq(Fiber), taken : Nat, woken : SUBSET Fiber]

\* The observer at s.at removes itself if its permits are free; the loop goes on one
\* place after it, past the observer that moved up.
Visit(s) ==
  LET f == s.waiters[s.at] IN
  IF permits - s.taken >= need[f]
  THEN [at |-> s.at + 1, waiters |-> RemoveAt(s.waiters, s.at),
        taken |-> s.taken + need[f], woken |-> s.woken \cup {f}]
  ELSE [at |-> s.at + 1, waiters |-> s.waiters, taken |-> s.taken, woken |-> s.woken]

\* forEach over the waiters.
Woken[s \in Walk] == IF s.at > Len(s.waiters) THEN s ELSE Woken[Visit(s)]

\* The scheduled task.  The callback of a fiber that was interrupted does nothing.
Wake ==
  LET s == Woken[[at |-> 1, waiters |-> waiters, taken |-> taken, woken |-> {}]] IN
  /\ wakes > 0 /\ wakes' = wakes - 1
  /\ waiters' = s.waiters /\ taken' = s.taken
  /\ pc' = [f \in Fiber |-> IF f \in s.woken /\ pc[f] = "waiting" THEN "resumed" ELSE pc[f]]
  /\ lost' = lost + MapThenSumSet(LAMBDA f : need[f], {f \in s.woken : pc[f] # "waiting"})
  /\ UNCHANGED <<permits, cell, need, fuel, signals>>
----------------------------------------------------------------------------
(* Interruption, seen by the fiber at its next interruptible point; then   *)
(* the fiber unwinds and uses the semaphore no more.                       *)

Interrupt(f) ==
  /\ signals < MaxInterrupts /\ signals' = signals + 1
  /\ \/ pc[f] = "waiting" /\ GoTo(f, "cleanup") /\ UNCHANGED lost
     \/ pc[f] = "resumed" /\ GoTo(f, "cleanup") /\ lost' = lost + need[f]
     \/ pc[f] \in {"inside", "changing"} /\ GoTo(f, "releasing") /\ UNCHANGED lost
  /\ fuel' = [fuel EXCEPT ![f] = 0]
  /\ UNCHANGED <<permits, taken, waiters, wakes, cell, need>>
----------------------------------------------------------------------------

Init ==
  /\ permits \in Permits
  /\ taken = 0 /\ waiters = <<>> /\ wakes = 0
  /\ pc = [f \in Fiber |-> "idle"] /\ need = [f \in Fiber |-> 0]
  /\ ref = 0 /\ seen = [f \in Fiber |-> 0] /\ writes = 0
  /\ lost = 0 /\ fuel = Fuel /\ signals = 0

Step(f) == \/ Resume(f) \/ Cleanup(f) \/ Read(f) \/ Write(f) \/ Fail(f) \/ Release(f)

Next == Wake \/ \E f \in Fiber : Take(f) \/ Step(f) \/ Interrupt(f)

Spec == Init /\ [][Next]_vars

\* The scheduler runs every task and every fiber that is not suspended.
Fairness == WF_vars(Wake) /\ \A f \in Fiber : WF_vars(Step(f))

FairSpec == Spec /\ Fairness
----------------------------------------------------------------------------
(* Properties.                                                             *)

\* Every variable has its type.
TypeOK ==
  /\ permits \in Permits /\ taken \in 0..permits /\ wakes \in Nat
  /\ waiters \in Seq(Fiber)
  /\ pc \in [Fiber -> {"idle", "waiting", "cleanup", "resumed", "inside", "changing",
                       "releasing"}]
  /\ need \in [Fiber -> Nat] /\ seen \in [Fiber -> Nat]
  /\ ref \in Nat /\ writes \in Nat /\ lost \in Nat
  /\ fuel \in [Fiber -> Nat] /\ signals \in Nat

Holders == {f \in Fiber : pc[f] \in {"resumed", "inside", "changing", "releasing"}}

\* Every taken permit is in the hands of a fiber that will release it, or went
\* to one that was interrupted before it could run: no interleaving of
\* take, wake-up, release and interruption makes or loses another.
PermitsAccounted ==
  taken = lost + MapThenSumSet(LAMBDA f : need[f], Holders)

\* The updates of a Synchronized, whose semaphore has one permit, are atomic
\* although their effects yield: none overwrites another.
UpdatesSerialized == permits = 1 => ref = writes

Waits(f)  == pc[f] = "waiting"
Served(f) == pc[f] # "waiting" \/ lost > 0

\* Who waits is served, though the wake-up loop skips waiters, unless permits
\* were given to a fiber that was interrupted.
WaitersServed == \A f \in Fiber : Waits(f) ~> Served(f)
=============================================================================
