------------------------------ MODULE ScopedRef ------------------------------
(***************************************************************************)
(* ScopedRef, src/internal/scopedRef.ts, and Resource, src/internal/       *)
(* resource.ts: a reference to a value that is acquired in a scope of its  *)
(* own.  set acquires the next value, closes the scope of the one before   *)
(* and only then changes the reference, all of it with the one permit of a *)
(* Synchronized; who reads takes no permit.  The reference is closed with  *)
(* the scope it was made in, also without the permit.  Resource.auto sets  *)
(* it again and again in a daemon that it interrupts before.               *)
(***************************************************************************)
EXTENDS Naturals, Sequences, FiniteSets

CONSTANTS
  Setter,
  MaxSets,        \* how often each of them sets the reference
  MaxInterrupts   \* how many of them are interrupted by somebody else

ScopedRefAssumption == MaxSets \in Nat /\ MaxInterrupts \in Nat

VARIABLES
  auto,      \* this is Resource.auto: the setters end before the reference is closed
  ref,       \* the scope of the value, or 0 as long as there is none
  scope,     \* the state of each scope: "open" or "closed"
  owner,     \* "making", "open", "stopping", "closing" or "closed"
  closes,    \* the scope that the finalizer of the reference read
  lock,      \* the setters that hold the permit
  pc,        \* of each setter: "idle", "waiting", "acquiring", "acquired", "refused", "masked",
             \* "setting" or "ended"
  mine,      \* ... and the scope it has made
  told, left,
  lost       \* history: the scopes that nobody has any more

setters == <<lock, pc, mine, told, left>>
vars    == <<auto, ref, scope, owner, closes, setters, lost>>

Goes(s, to) == pc' = [pc EXCEPT ![s] = to]
Close(i)    == [scope EXCEPT ![i] = "closed"]
----------------------------------------------------------------------------
\* fromAcquire: the first value; a failure closes its scope and there is no
\* reference.  (A Resource has the failure as its value.)
fromAcquire ==
  /\ owner = "making" /\ scope' = Append(scope, "open") /\ ref' = 1 /\ owner' = "open"
  /\ UNCHANGED <<auto, closes, setters, lost>>

\* The scope of the reference is closed: Resource.auto interrupts the daemon and
\* waits for it.
Closing ==
  /\ \/ owner = "open" /\ auto /\ owner' = "stopping" /\ told' = Setter /\ UNCHANGED closes
     \/ owner = "open" /\ ~auto /\ owner' = "closing" /\ closes' = ref /\ UNCHANGED told
     \/ owner = "stopping" /\ (\A s \in Setter : pc[s] = "ended")
        /\ owner' = "closing" /\ closes' = ref /\ UNCHANGED told
  /\ UNCHANGED <<auto, ref, scope, lock, pc, mine, left, lost>>

Closed ==
  /\ owner = "closing" /\ owner' = "closed" /\ scope' = Close(closes)
  /\ UNCHANGED <<auto, ref, closes, setters, lost>>
----------------------------------------------------------------------------
(* set                                                                     *)

Others == <<auto, owner, closes, told>>

Set(s) ==
  /\ owner # "making" /\ pc[s] = "idle" /\ left[s] > 0 /\ s \notin told
  /\ left' = [left EXCEPT ![s] = @ - 1] /\ Goes(s, "waiting")
  /\ UNCHANGED <<Others, ref, scope, lock, mine, lost>>

\* With the permit it makes a scope.
Take(s) ==
  /\ pc[s] = "waiting" /\ s \notin told /\ lock = {}
  /\ lock' = {s} /\ scope' = Append(scope, "open") /\ mine' = [mine EXCEPT ![s] = Len(scope')]
  /\ Goes(s, "acquiring") /\ UNCHANGED <<Others, ref, left, lost>>

\* Only acquire can be interrupted.
Acquire(s) ==
  /\ pc[s] = "acquiring"
  /\ \/ s \notin told /\ Goes(s, "acquired")
     \/ Goes(s, "refused")
  /\ UNCHANGED <<Others, ref, scope, lock, mine, left, lost>>

\* The scope of the value before is closed, or the new one if there is no value:
\* then the reference is set to what it is.
CloseOne(s) ==
  /\ \/ pc[s] = "acquired" /\ scope' = Close(ref) /\ Goes(s, "masked")
     \/ pc[s] = "refused" /\ scope' = Close(mine[s]) /\ Goes(s, "idle")
  /\ lock' = IF pc[s] = "refused" THEN lock \ {s} ELSE lock
  /\ UNCHANGED <<Others, ref, mine, left, lost>>

\* The region that cannot be interrupted ends before the reference is changed:
\* who is interrupted by then has closed the old scope and loses the new one.
Unmask(s) ==
  /\ pc[s] = "masked"
  /\ \/ s \notin told /\ Goes(s, "setting") /\ UNCHANGED <<lock, lost>>
     \/ s \in told /\ Goes(s, "idle") /\ lock' = lock \ {s} /\ lost' = lost \cup {mine[s]}
  /\ UNCHANGED <<Others, ref, scope, mine, left>>

\* A reference that was closed meanwhile does not close what it is set to.
Change(s) ==
  /\ pc[s] = "setting" /\ ref' = mine[s]
  /\ lost' = IF owner \in {"closing", "closed"} THEN lost \cup {mine[s]} ELSE lost
  /\ lock' = lock \ {s} /\ Goes(s, "idle")
  /\ UNCHANGED <<Others, scope, mine, left>>

End(s) ==
  /\ \/ pc[s] \in {"idle", "waiting"} /\ s \in told
     \/ pc[s] = "idle" /\ left[s] = 0
  /\ Goes(s, "ended") /\ UNCHANGED <<Others, ref, scope, lock, mine, left, lost>>

\* An interruption by somebody else.
Interrupt(s) ==
  /\ owner = "open" /\ pc[s] # "ended" /\ s \notin told /\ told' = told \cup {s}
  /\ Cardinality(told) < MaxInterrupts
  /\ UNCHANGED <<auto, ref, scope, owner, closes, lock, pc, mine, left, lost>>
----------------------------------------------------------------------------
Init ==
  /\ auto \in BOOLEAN /\ ref = 0 /\ scope = <<>> /\ owner = "making" /\ closes = 0
  /\ lock = {} /\ told = {} /\ lost = {}
  /\ pc = [s \in Setter |-> "idle"] /\ mine = [s \in Setter |-> 0] /\ left = [s \in Setter |-> MaxSets]

Next ==
  \/ fromAcquire \/ Closing \/ Closed
  \/ \E s \in Setter :
       Set(s) \/ Take(s) \/ Acquire(s) \/ CloseOne(s) \/ Unmask(s) \/ Change(s) \/ End(s) \/ Interrupt(s)

Spec == Init /\ [][Next]_vars
----------------------------------------------------------------------------
TypeOK ==
  /\ ref \in 0..Len(scope) /\ closes \in 0..Len(scope) /\ lost \subseteq DOMAIN scope
  /\ scope \in Seq({"open", "closed"}) /\ lock \subseteq Setter /\ told \subseteq Setter
  /\ owner \in {"making", "open", "stopping", "closing", "closed"}

\* A value that the reference no longer has, or never got, is released, and so is
\* the last one when the reference is closed: what stays open is what an
\* interrupted set has lost, or was set after the reference was closed.
ReleasesTheOld ==
  \A i \in DOMAIN scope \ lost :
    scope[i] = "open" => \/ i = ref /\ owner # "closed"
                         \/ \E s \in Setter : mine[s] = i /\ pc[s] \notin {"idle", "waiting", "ended"}

\* Only during a set does a reader see a value that is released already.
ReadsWhatIsOpen ==
  owner \in {"open", "stopping"} /\ lock = {} /\ lost = {} => scope[ref] = "open"
=============================================================================
