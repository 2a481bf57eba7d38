-------------------------------- MODULE Race --------------------------------
(***************************************************************************)
(* Two effects race: race, raceWith and raceAwait of                       *)
(* src/internal/fiberRuntime.ts, raceFirst and the timeouts of             *)
(* src/internal/effect/circular.ts.                                        *)
(*                                                                         *)
(* Each side is a child fiber of the racing one, and is disconnected: it   *)
(* forks what it has to run as a daemon and joins it.  `Work' is that      *)
(* daemon.  A side that is interrupted ends at once, and tells its daemon. *)
(***************************************************************************)
EXTENDS Sequences, FiniteSets

CONSTANTS
  Modes,          \* which of "race", "raceFirst", "timeout" and "timeoutFail" to consider
  Interrupted     \* whether the racing fiber may be interrupted

Side     == {"left", "right"}
Other(s) == IF s = "left" THEN "right" ELSE "left"

RaceAssumption ==
  Modes \subseteq {"race", "raceFirst", "timeout", "timeoutFail"} /\ Interrupted \in BOOLEAN

VARIABLES
  mode,
  masked,        \* the race is run in an uninterruptible region
  work,          \* of each daemon: "none", "forked", "running" or "ended"
  workExit, workTold,
  side,          \* of each side: "started", "joining" or "ended"
  sideExit, sideTold,
  winner,        \* the side that took the race indicator, or "none"
  parent,        \* "waiting", "interrupting", "joining", "decided" or "ended"
  told,          \* the racing fiber was interrupted
  result

works == <<work, workExit, workTold>>
sides == <<side, sideExit, sideTold>>
vars  == <<mode, masked, works, sides, winner, parent, told, result>>

\* An exit is the value of a side, or a cause: its leaves, the left ones first.
None        == [tag |-> "None"]
Value(s, e) == [tag |-> "Value", of |-> s, is |-> e]
Cause(c)    == [tag |-> "Cause", leaves |-> c]
Stopped     == Cause(<<"interrupt">>)
Failed(s)   == Cause(<<s>>)
IsValue(e)  == e.tag = "Value"

\* The causes of the side s that ended first and of the other one.
parallel(s, e1, e2) ==
  Cause(IF s = "left" THEN e1.leaves \o e2.leaves ELSE e2.leaves \o e1.leaves)
----------------------------------------------------------------------------
(* The daemons.  Those of raceFirst and the timeouts return the exit of    *)
(* the effect as their value; that of the right side of a timeout sleeps,  *)
(* and can be interrupted even if the race is masked.                      *)

sleeps(s) == s = "right" /\ mode \in {"timeout", "timeoutFail"}

Exits(s) ==
  CASE mode = "race" -> {Value(s, None), Failed(s)}
    [] sleeps(s)     -> {Value(s, Value(s, None))}
    [] OTHER         -> {Value(s, Value(s, None)), Value(s, Failed(s))}

Begin(s) ==
  /\ work[s] = "forked" /\ ~workTold[s] /\ work' = [work EXCEPT ![s] = "running"]
  /\ UNCHANGED <<mode, masked, workExit, workTold, sides, winner, parent, told, result>>

WorkEnds(s, e) ==
  /\ work' = [work EXCEPT ![s] = "ended"] /\ workExit' = [workExit EXCEPT ![s] = e]
  /\ UNCHANGED <<mode, masked, workTold, sides, winner, parent, told, result>>

Finish(s) == work[s] = "running" /\ \E e \in Exits(s) : WorkEnds(s, e)

\* A daemon ends when it was told to, unless it runs uninterruptibly: in a
\* masked race it can be stopped only before it begins.
Stop(s) ==
  /\ workTold[s]
  /\ \/ /\ work[s] \in (IF masked THEN {"forked"} ELSE {"forked", "running"})
        /\ WorkEnds(s, Stopped)
     \/ work[s] = "running" /\ masked /\ sleeps(s)
        /\ WorkEnds(s, Value(s, Stopped))
----------------------------------------------------------------------------
(* The sides: disconnect.                                                  *)

\* completeRace: the side that ends first takes the race indicator.
SideEnds(s, e) ==
  /\ side' = [side EXCEPT ![s] = "ended"] /\ sideExit' = [sideExit EXCEPT ![s] = e]
  /\ winner' = IF winner = "none" THEN s ELSE winner

\* A side that was interrupted before it began forks nothing.
Disconnect(s) ==
  /\ side[s] = "started"
  /\ \/ /\ sideTold[s] /\ SideEnds(s, Stopped) /\ UNCHANGED work
     \/ /\ ~sideTold[s] /\ work' = [work EXCEPT ![s] = "forked"]
        /\ side' = [side EXCEPT ![s] = "joining"] /\ UNCHANGED <<sideExit, winner>>
  /\ UNCHANGED <<mode, masked, workExit, workTold, sideTold, parent, told, result>>

\* restore(join(fiber))
Join(s) ==
  /\ side[s] = "joining" /\ work[s] = "ended" /\ ~sideTold[s] /\ SideEnds(s, workExit[s])
  /\ UNCHANGED <<mode, masked, works, sideTold, parent, told, result>>

\* Mutant of Leave: the daemon goes on.
LeaveSilently(s) ==
  /\ side[s] = "joining" /\ sideTold[s] /\ SideEnds(s, Stopped)
  /\ UNCHANGED <<mode, masked, works, sideTold, parent, told, result>>

\* ... its onInterrupt: interruptAsFork
Leave(s) ==
  /\ side[s] = "joining" /\ sideTold[s] /\ SideEnds(s, Stopped)
  /\ workTold' = [workTold EXCEPT ![s] = TRUE]
  /\ UNCHANGED <<mode, masked, work, workExit, sideTold, parent, told, result>>
----------------------------------------------------------------------------
(* The racing fiber.                                                       *)

\* raceFirst and the timeouts flatten the exit that the race returns.
Flattened(e) == IF mode # "race" /\ IsValue(e) THEN e.is ELSE e

\* timeoutFail flattens once more: the value of its right side is a failure.
Answer(e) ==
  IF mode = "timeoutFail" /\ IsValue(e) /\ e.of = "right" /\ IsValue(e.is)
  THEN Failed("right") ELSE Flattened(e)

GoesOn == ~told \/ masked

\* onSelfDone and onOtherDone of raceAwait: a value interrupts the loser, a
\* failure waits for what the other side does.
Continue ==
  /\ parent = "waiting" /\ winner # "none" /\ GoesOn
  /\ \/ IsValue(sideExit[winner]) /\ parent' = "interrupting"
        /\ sideTold' = [sideTold EXCEPT ![Other(winner)] = TRUE]
     \/ ~IsValue(sideExit[winner]) /\ parent' = "joining" /\ UNCHANGED sideTold
  /\ UNCHANGED <<mode, masked, works, side, sideExit, winner, told, result>>

Decide(e) ==
  /\ parent' = "decided" /\ result' = e
  /\ UNCHANGED <<mode, masked, works, sides, winner, told>>

\* interruptAsFiber(loser) has returned.
LoserEnded ==
  /\ parent = "interrupting" /\ side[Other(winner)] = "ended" /\ GoesOn
  /\ Decide(Answer(sideExit[winner]))

\* join(loser): its value, or both causes, in the order of the sides.
LoserJoined ==
  LET e == sideExit[Other(winner)] IN
  /\ parent = "joining" /\ side[Other(winner)] = "ended" /\ GoesOn
  /\ Decide(Answer(IF IsValue(e) THEN e ELSE parallel(winner, sideExit[winner], e)))

Interrupt ==
  /\ Interrupted /\ ~told /\ parent \in {"waiting", "interrupting", "joining"} /\ told' = TRUE
  /\ UNCHANGED <<mode, masked, works, sides, winner, parent, result>>

\* It is interrupted while it waits, unless the race is masked; mapErrorCause, which
\* would add the cause of the winner, is a handler, and is passed over.
Unwind ==
  /\ told /\ ~masked /\ parent \in {"waiting", "interrupting", "joining"} /\ Decide(Stopped)

\* The racing fiber ends some time later: the children it still has are interrupted.
End ==
  /\ parent = "decided" /\ parent' = "ended"
  /\ sideTold' = [s \in Side |-> sideTold[s] \/ side[s] # "ended"]
  /\ UNCHANGED <<mode, masked, works, side, sideExit, winner, told, result>>
----------------------------------------------------------------------------
Init ==
  /\ mode \in Modes /\ masked \in BOOLEAN
  /\ work = [s \in Side |-> "none"] /\ workExit = [s \in Side |-> None]
  /\ workTold = [s \in Side |-> FALSE]
  /\ side = [s \in Side |-> "started"] /\ sideExit = [s \in Side |-> None]
  /\ sideTold = [s \in Side |-> FALSE]
  /\ winner = "none" /\ parent = "waiting" /\ told = FALSE /\ result = None

Runs(s) == Begin(s) \/ Stop(s) \/ Disconnect(s) \/ Join(s) \/ Leave(s)
Parent  == Continue \/ LoserEnded \/ LoserJoined \/ Unwind \/ End

Next == Parent \/ Interrupt \/ \E s \in Side : Runs(s) \/ Finish(s)

Spec == Init /\ [][Next]_vars

\* The scheduler runs every fiber that can go on; what is raced need not end.
Fairness == WF_vars(Parent) /\ \A s \in Side : WF_vars(Runs(s))

FairSpec == Spec /\ Fairness
----------------------------------------------------------------------------
TypeOK ==
  /\ mode \in Modes /\ masked \in BOOLEAN /\ winner \in Side \cup {"none"}
  /\ work \in [Side -> {"none", "forked", "running", "ended"}]
  /\ side \in [Side -> {"started", "joining", "ended"}]
  /\ workTold \in [Side -> BOOLEAN] /\ sideTold \in [Side -> BOOLEAN]
  /\ parent \in {"waiting", "interrupting", "joining", "decided", "ended"} /\ told \in BOOLEAN

Over(s) == side[s] = "ended" /\ (work[s] \in {"none", "ended"} \/ workTold[s])

\* A race that is not interrupted returns what one side returned, and by then
\* the other side is over and what it ran has been told to stop; or else both
\* failed, and the cause it fails with has those of both, the left one first.
RaceDecides ==
  parent = "decided" /\ GoesOn =>
    \/ \E s \in Side : IsValue(sideExit[s]) /\ result = Answer(sideExit[s]) /\ Over(Other(s))
    \/ /\ \A s \in Side : side[s] = "ended" /\ ~IsValue(sideExit[s])
       /\ result = Cause(sideExit["left"].leaves \o sideExit["right"].leaves)

IsOver  == parent = "ended" /\ ~masked
Gone(s) == work[s] \in {"none", "ended"} /\ side[s] = "ended"

\* What a side ran does not go on without anybody to wait for it: once the racing
\* fiber has ended it ends, unless it cannot be interrupted.
LosersEnd == \A s \in Side : IsOver ~> Gone(s)
=============================================================================
