------------------------------- MODULE RaceAll -------------------------------
(***************************************************************************)
(* raceAll of src/internal/fiberRuntime.ts.  Every effect is run by a      *)
(* child, and for every child there is an arbiter that awaits it: the      *)
(* first to see a success interrupts the others, one after the other.      *)
(***************************************************************************)
EXTENDS Integers

CONSTANTS
  Effects,        \* the effects are 1..Effects
  Stubborn,       \* those that cannot be interrupted, but end
  MaxInterrupts   \* how often the racing fiber may be interrupted: 0 or 1

RaceAllAssumption ==
  Effects \in Nat \ {0, 1} /\ Stubborn \subseteq 1..Effects /\ MaxInterrupts \in 0..1

Child == 1..Effects

VARIABLES
  exit,        \* of each child: "none", "value", "failed" or "interrupted"
  told,
  arbiter,     \* "awaiting", "interrupting" or "ended"
  at,          \* the child that the arbiter interrupts
  fails,       \* the Ref
  done,        \* the Deferred: 0, or the child whose exit it has
  parent,      \* "waiting", "interrupting", "decided" or "ended"
  parentAt, signals,
  last         \* history: the last child whose failure an arbiter counted

vars == <<exit, told, arbiter, at, fails, done, parent, parentAt, signals, last>>

Ended(i) == exit[i] # "none"
Tell(i)  == told' = [told EXCEPT ![i] = TRUE]
----------------------------------------------------------------------------
(* The children.                                                           *)

Exit(i, e) ==
  /\ ~Ended(i) /\ exit' = [exit EXCEPT ![i] = e]
  /\ UNCHANGED <<told, arbiter, at, fails, done, parent, parentAt, signals, last>>

Succeed(i) == Exit(i, "value")
Fail(i)    == Exit(i, "failed")
Stop(i)    == told[i] /\ i \notin Stubborn /\ Exit(i, "interrupted")
----------------------------------------------------------------------------
(* raceAllArbiter                                                          *)

OnFailure(i) ==
  /\ arbiter[i] = "awaiting" /\ exit[i] \in {"failed", "interrupted"}
  /\ arbiter' = [arbiter EXCEPT ![i] = "ended"]
  /\ fails' = fails - 1 /\ last' = i
  /\ done' = IF fails = 0 /\ done = 0 THEN i ELSE done
  /\ UNCHANGED <<exit, told, at, parent, parentAt, signals>>

OnSuccess(i) ==
  /\ arbiter[i] = "awaiting" /\ exit[i] = "value"
  /\ arbiter' = [arbiter EXCEPT ![i] = IF done = 0 THEN "interrupting" ELSE "ended"]
  /\ done' = IF done = 0 THEN i ELSE done
  /\ UNCHANGED <<exit, told, at, fails, parent, parentAt, signals, last>>

\* interruptFiber of a child: it is told, and awaited.
Interrupting(k) == Tell(k) /\ ~told[k] /\ ~Ended(k)
Interrupted(k)  == Ended(k) /\ UNCHANGED told

Next1(i) == at' = [at EXCEPT ![i] = @ + 1]

InterruptLosers(i) ==
  /\ arbiter[i] = "interrupting" /\ UNCHANGED <<exit, fails, done, parent, parentAt, signals, last>>
  /\ \/ at[i] > Effects /\ arbiter' = [arbiter EXCEPT ![i] = "ended"] /\ UNCHANGED <<at, told>>
     \/ /\ at[i] <= Effects /\ UNCHANGED arbiter
        /\ \/ at[i] = i /\ Next1(i) /\ UNCHANGED told
           \/ at[i] # i /\ Interrupting(at[i]) /\ UNCHANGED at
           \/ at[i] # i /\ Interrupted(at[i]) /\ Next1(i)
----------------------------------------------------------------------------
(* The racing fiber.                                                       *)

ParentUnchanged == UNCHANGED <<exit, arbiter, at, fails, done, last>>

Decide ==
  /\ parent = "waiting" /\ done # 0 /\ parent' = "decided"
  /\ ParentUnchanged /\ UNCHANGED <<told, parentAt, signals>>

Interrupt ==
  /\ parent = "waiting" /\ signals > 0 /\ signals' = signals - 1 /\ parent' = "interrupting"
  /\ ParentUnchanged /\ UNCHANGED <<told, parentAt>>

\* onInterrupt: each child is interrupted, one after the other.
InterruptAll ==
  /\ parent = "interrupting" /\ ParentUnchanged /\ UNCHANGED signals
  /\ \/ parentAt > Effects /\ parent' = "decided" /\ UNCHANGED <<told, parentAt>>
     \/ /\ parentAt <= Effects /\ UNCHANGED parent
        /\ \/ Interrupting(parentAt) /\ UNCHANGED parentAt
           \/ Interrupted(parentAt) /\ parentAt' = parentAt + 1
----------------------------------------------------------------------------
Init ==
  /\ exit = [i \in Child |-> "none"] /\ told = [i \in Child |-> FALSE]
  /\ arbiter = [i \in Child |-> "awaiting"] /\ at = [i \in Child |-> 1]
  /\ fails = Effects - 1 /\ done = 0 /\ parent = "waiting" /\ parentAt = 1
  /\ signals = MaxInterrupts /\ last = 0

Arbiter(i) == OnFailure(i) \/ OnSuccess(i) \/ InterruptLosers(i)

Next ==
  \/ Decide \/ Interrupt \/ InterruptAll
  \/ \E i \in Child : Succeed(i) \/ Fail(i) \/ Stop(i) \/ Arbiter(i)

Spec == Init /\ [][Next]_vars

\* The scheduler runs the arbiters, the racing fiber and the children that were
\* interrupted; what is raced need not end, unless it cannot be interrupted.
Fairness ==
  /\ WF_vars(Decide) /\ WF_vars(InterruptAll)
  /\ \A i \in Child : /\ WF_vars(Arbiter(i)) /\ WF_vars(Stop(i))
                      /\ i \in Stubborn => WF_vars(Succeed(i) \/ Fail(i))

FairSpec == Spec /\ Fairness
----------------------------------------------------------------------------
TypeOK ==
  /\ exit \in [Child -> {"none", "value", "failed", "interrupted"}] /\ told \in [Child -> BOOLEAN]
  /\ arbiter \in [Child -> {"awaiting", "interrupting", "ended"}]
  /\ at \in [Child -> 1..Effects + 1] /\ fails \in Int /\ done \in 0..Effects /\ last \in 0..Effects
  /\ parent \in {"waiting", "interrupting", "decided"} /\ parentAt \in 1..Effects + 1

\* The race has a success if a child has one, whatever the others do meanwhile;
\* only when all have failed does it fail, as the last one did.
FirstSuccessOrLastFailure ==
  done # 0 /\ signals = MaxInterrupts =>
    \/ exit[done] = "value" /\ \A i \in Child : arbiter[i] = "interrupting" => i = done
    \/ (\A i \in Child : exit[i] = "failed" /\ arbiter[i] = "ended") /\ done = last

IsOver  == done # 0 \/ parent = "interrupting"
AllGone == \A i \in Child : Ended(i)

\* When one has won, or the racing fiber was interrupted, no child goes on for
\* good, although each waits for the one before it to have ended.
LosersEnd == IsOver ~> AllGone
=============================================================================
