------------------------------ MODULE TestClock ------------------------------
(***************************************************************************)
(* The test clock: src/internal/testing/testClock.ts.  Time passes only    *)
(* when a test sets it: the fibers that sleep are woken one by one, in the *)
(* order of the instants they wait for, and before each the test waits     *)
(* until all of its fibers are suspended or done.  It cannot see them all  *)
(* at once, so it takes four snapshots, with real time in between, in      *)
(* which the tasks of the scheduler run.                                   *)
(***************************************************************************)
EXTENDS Integers, Sequences, FiniteSets

CONSTANTS
  Sleeper,        \* the fibers of the test
  Tester,         \* the fibers that adjust the clock
  Fuel,           \* Fuel[f]: how much f does
  Durations,      \* of sleeps and adjustments
  MaxTime,
  Saves           \* whether the clock is saved and restored

TestClockAssumption ==
  /\ Fuel \in [Sleeper \cup Tester -> Nat] /\ Durations \subseteq Nat /\ MaxTime \in Nat
  /\ Saves \in BOOLEAN

VARIABLES
  instant, sleeps,       \* the Data: the time, and <<end, fiber>> for each sleep
  warning,               \* "start", "pending" or "done"
  suspendedWarning,
  shown,                 \* history: the adjustments that had begun when the warning was shown
  state,                 \* of each sleeper: "running", "registered", "sleeping", "woken", "asking"
                         \* or "done"
  until,                 \* the instant it sleeps until
  pc,                    \* of each tester: "idle", "freezing", "moving" or "yielding"
  end,                   \* run: -1, or the instant it goes to
  by,                    \* and how far that is, or the instant given to setTime
  pass, snaps,           \* awaitSuspended: the snapshots
  saved, restored,       \* the Data that were saved; history: they were restored
  adjusted, fuel

data    == <<instant, sleeps>>
warns   == <<warning, suspendedWarning, shown>>
sleeper == <<state, until>>
tester  == <<pc, end, by, pass, snaps>>
vars    == <<data, warns, sleeper, tester, saved, restored, adjusted, fuel>>

Spend(f)    == fuel[f] > 0 /\ fuel' = [fuel EXCEPT ![f] = @ - 1]
Goes(f, to) == state' = [state EXCEPT ![f] = to]
Move(t, to) == pc' = [pc EXCEPT ![t] = to]
----------------------------------------------------------------------------
(* The fibers of the test.                                                 *)

\* sleep: the deferred is put with the others, unless no time has to pass.
Sleep(f, d) ==
  /\ state[f] = "running" /\ Spend(f) /\ instant + d <= MaxTime
  /\ \/ /\ instant + d > instant /\ Goes(f, "registered")
        /\ sleeps' = <<<<instant + d, f>>>> \o sleeps
        /\ until' = [until EXCEPT ![f] = instant + d]
     \/ instant + d <= instant /\ UNCHANGED <<sleeps, state, until>>
  /\ UNCHANGED <<instant, warns, tester, saved, restored, adjusted>>

\* warningStart, then the deferred is awaited; it may have been completed.
Await(f) ==
  /\ state[f] = "registered"
  /\ warning' = IF warning = "start" THEN "pending" ELSE warning
  /\ Goes(f, IF \E i \in DOMAIN sleeps : sleeps[i] = <<until[f], f>> \/ restored
             THEN "sleeping" ELSE "running")
  /\ UNCHANGED <<data, suspendedWarning, shown, until, tester, saved, restored, adjusted, fuel>>

\* A fiber that was woken runs.
Wake(f) ==
  /\ state[f] = "woken" /\ Goes(f, "running")
  /\ UNCHANGED <<data, warns, until, tester, saved, restored, adjusted, fuel>>

\* It waits for something other than the clock, or ends.
Ask(f) ==
  /\ state[f] = "running" /\ Spend(f) /\ Goes(f, "asking")
  /\ UNCHANGED <<data, warns, until, tester, saved, restored, adjusted>>

Answer(f) ==
  /\ state[f] = "asking" /\ Goes(f, "running")
  /\ UNCHANGED <<data, warns, until, tester, saved, restored, adjusted, fuel>>

Done(f) ==
  /\ state[f] = "running" /\ Goes(f, "done")
  /\ UNCHANGED <<data, warns, until, tester, saved, restored, adjusted, fuel>>
----------------------------------------------------------------------------
(* awaitSuspended.                                                         *)

NoSnaps == [p \in 1..4 |-> <<>>]

\* The status that freeze sees: a fiber that is woken is suspended until it runs.
Status(f) ==
  CASE state[f] = "done" -> "done"
    [] state[f] \in {"running", "registered"} -> "running"
    [] OTHER -> "suspended"

Restart(t) == pass' = [pass EXCEPT ![t] = 1] /\ snaps' = [snaps EXCEPT ![t] = NoSnaps]

\* freeze: the fibers one by one; one that runs makes it begin again.
Freeze(t, f) ==
  LET s == snaps[t][pass[t]] IN
  /\ pc[t] = "freezing" /\ f \notin DOMAIN s
  /\ \/ Status(f) = "running" /\ Restart(t)
     \/ /\ Status(f) # "running" /\ UNCHANGED pass
        /\ snaps' = [snaps EXCEPT ![t][pass[t]] =
                       [g \in DOMAIN s \cup {f} |-> IF g = f THEN Status(f) ELSE s[g]]]
  /\ UNCHANGED <<data, warns, sleeper, pc, end, by, saved, restored, adjusted, fuel>>

\* suspended compares two snapshots, awaitSuspended what it returned twice.
Agree(t) ==
  LET s == snaps[t] IN
  /\ pass[t] = 2 => s[1] = s[2]
  /\ pass[t] = 4 => s[3] = s[4] /\ s[1] = s[3]

\* Mutant of NextSnapshot: one snapshot is enough.
NextAfterOne(t) ==
  /\ pc[t] = "freezing" /\ DOMAIN snaps[t][pass[t]] = Sleeper
  /\ Move(t, "moving") /\ Restart(t) /\ suspendedWarning' = "start"
  /\ UNCHANGED <<data, warning, shown, sleeper, end, by, saved, restored, adjusted, fuel>>

\* Between two snapshots some time passes, and who was woken runs.
NextSnapshot(t) ==
  /\ pc[t] = "freezing" /\ DOMAIN snaps[t][pass[t]] = Sleeper
  /\ \/ ~Agree(t) /\ Restart(t) /\ UNCHANGED <<pc, suspendedWarning>>
     \/ /\ Agree(t) /\ pass[t] < 4 /\ \A f \in Sleeper : state[f] # "woken"
        /\ pass' = [pass EXCEPT ![t] = @ + 1] /\ UNCHANGED <<pc, snaps, suspendedWarning>>
     \/ /\ Agree(t) /\ pass[t] = 4 /\ Move(t, "moving") /\ Restart(t)
        /\ suspendedWarning' = IF suspendedWarning = "pending" THEN "start" ELSE suspendedWarning
  /\ UNCHANGED <<data, warning, shown, sleeper, end, by, saved, restored, adjusted, fuel>>
----------------------------------------------------------------------------
(* run.                                                                    *)

Run(t) ==
  /\ Move(t, "freezing")
  /\ suspendedWarning' = IF suspendedWarning = "start" THEN "pending" ELSE suspendedWarning

\* adjust: warningDone, then run.
Adjust(t, d) ==
  /\ pc[t] = "idle" /\ Spend(t) /\ Run(t) /\ adjusted' = adjusted + 1
  /\ by' = [by EXCEPT ![t] = d] /\ end' = [end EXCEPT ![t] = -1] /\ warning' = "done"
  /\ UNCHANGED <<data, shown, sleeper, pass, snaps, saved, restored>>

\* setTime: the instant does not depend on the time.
SetTime(t, i) ==
  /\ pc[t] = "idle" /\ Spend(t) /\ Run(t) /\ adjusted' = adjusted + 1
  /\ end' = [end EXCEPT ![t] = i] /\ warning' = "done"
  /\ UNCHANGED <<data, shown, sleeper, by, pass, snaps, saved, restored>>

\* The place of the first sleep in the order of the instants.
First == CHOOSE i \in DOMAIN sleeps :
           \A j \in DOMAIN sleeps : sleeps[i][1] < sleeps[j][1] \/ (sleeps[i][1] = sleeps[j][1] /\ i <= j)

\* The time moves to the next sleep that is due and it is completed, or else to the end.
\* (The tail of the sorted sleeps is kept; their order is not looked at but to sort them.)
Advance(t) ==
  LET e == IF end[t] = -1 THEN instant + by[t] ELSE end[t] IN
  /\ pc[t] = "moving" /\ e <= MaxTime
  /\ \/ /\ sleeps # <<>> /\ sleeps[First][1] <= e
        /\ instant' = sleeps[First][1]
        /\ sleeps' = SubSeq(sleeps, 1, First - 1) \o SubSeq(sleeps, First + 1, Len(sleeps))
        /\ LET f == sleeps[First][2] IN
           state' = [state EXCEPT ![f] = IF @ = "sleeping" THEN "woken" ELSE @]
        /\ end' = [end EXCEPT ![t] = e] /\ Move(t, "yielding")
     \/ /\ (sleeps # <<>> => sleeps[First][1] > e) /\ instant' = e
        /\ Move(t, "idle") /\ UNCHANGED <<sleeps, state, end>>
  /\ UNCHANGED <<warns, until, by, pass, snaps, saved, restored, adjusted, fuel>>

\* yieldNow, then run again.
RunAgain(t) ==
  /\ pc[t] = "yielding" /\ Run(t)
  /\ UNCHANGED <<data, warning, shown, sleeper, end, by, pass, snaps, saved, restored, adjusted, fuel>>

Save ==
  /\ Saves /\ saved = <<>> /\ saved' = <<instant, sleeps>>
  /\ UNCHANGED <<data, warns, sleeper, tester, restored, adjusted, fuel>>

Restore ==
  /\ saved # <<>> /\ ~restored /\ restored' = TRUE
  /\ instant' = saved[1] /\ sleeps' = saved[2]
  /\ UNCHANGED <<warns, sleeper, tester, saved, adjusted, fuel>>

\* Five seconds of real time have passed.
Warn ==
  /\ warning = "pending" /\ warning' = "done" /\ shown' = shown \cup {adjusted}
  /\ UNCHANGED <<data, suspendedWarning, sleeper, tester, saved, restored, adjusted, fuel>>

WarnSuspended ==
  /\ suspendedWarning = "pending" /\ suspendedWarning' = "done"
  /\ UNCHANGED <<data, warning, shown, sleeper, tester, saved, restored, adjusted, fuel>>
----------------------------------------------------------------------------
Init ==
  /\ instant = 0 /\ sleeps = <<>> /\ warning = "start" /\ suspendedWarning = "start" /\ shown = {}
  /\ state = [f \in Sleeper |-> "running"] /\ until = [f \in Sleeper |-> 0]
  /\ pc = [t \in Tester |-> "idle"] /\ end = [t \in Tester |-> -1] /\ by = [t \in Tester |-> 0]
  /\ pass = [t \in Tester |-> 1] /\ snaps = [t \in Tester |-> NoSnaps]
  /\ saved = <<>> /\ restored = FALSE /\ adjusted = 0 /\ fuel = Fuel

Next ==
  \/ \E f \in Sleeper : \/ \E d \in Durations : Sleep(f, d)
                        \/ Await(f) \/ Wake(f) \/ Ask(f) \/ Answer(f) \/ Done(f)
  \/ \E t \in Tester : \/ \E d \in Durations : Adjust(t, d) \/ SetTime(t, d)
                       \/ \E f \in Sleeper : Freeze(t, f)
                       \/ NextSnapshot(t) \/ Advance(t) \/ RunAgain(t)
  \/ Save \/ Restore \/ Warn \/ WarnSuspended

Spec == Init /\ [][Next]_vars
----------------------------------------------------------------------------
TypeOK ==
  /\ instant \in 0..MaxTime /\ \A i \in DOMAIN sleeps : sleeps[i] \in (0..MaxTime) \X Sleeper
  /\ {warning, suspendedWarning} \subseteq {"start", "pending", "done"}
  /\ state \in [Sleeper -> {"running", "registered", "sleeping", "woken", "asking", "done"}]
  /\ until \in [Sleeper -> 0..MaxTime] /\ pass \in [Tester -> 1..4]
  /\ pc \in [Tester -> {"idle", "freezing", "moving", "yielding"}]

\* A fiber that sleeps is woken when it is its time and not a moment later: when
\* it runs, the clock shows the instant it waited for.  This needs the
\* snapshots, and that one fiber only adjusts the clock.
WokenOnTime ==
  ~restored /\ Cardinality(Tester) = 1 =>
    \A f \in Sleeper : state[f] = "woken" => instant = until[f]

\* A sleep that is registered while the clock is adjusted is not missed: it is
\* due after the time at which the adjustment ends, or woken before it does.
NoSleepMissed ==
  ~restored /\ Cardinality(Tester) = 1 =>
    \A f \in Sleeper :
      /\ state[f] = "sleeping" => \E i \in DOMAIN sleeps : sleeps[i] = <<until[f], f>>
      /\ state[f] \in {"sleeping", "registered"} /\ (\A t \in Tester : pc[t] = "idle")
           => until[f] > instant \/ state[f] = "registered"

\* Nobody is told that the clock is not adjusted after it was.
WarnedInTime == shown \subseteq {0}
=============================================================================
