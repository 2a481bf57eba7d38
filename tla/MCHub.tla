------------------------------- MODULE MCHub -------------------------------
(* Small instances of Hub for TLC, and the abstract topic it implements. *)
EXTENDS Hub

CONSTANTS f1, f2, f3, s1, s2

Apart    == [f \in Fiber |-> IF f = f2 THEN s1 ELSE s2]
Together == [f \in Fiber |-> s1]

\* One fiber that publishes, one that takes, and one that does either.
Roles == [f \in Fiber |-> CASE f = f1 -> {"publishAll", "unsafeOffer"}
                             [] f = f2 -> {"take"}
                             [] f = f3 -> {"take", "takeUpTo", "publish"}]

Of(kind, capacity, strategy, dequeue, twice, mortal) ==
  [kind |-> kind, capacity |-> capacity, strategy |-> strategy, role |-> Roles,
   fuel |-> [f \in Fiber |-> IF f = f1 /\ twice THEN 2 ELSE 1],
   dequeue |-> dequeue, mortal |-> mortal]

MixedSetups ==
  {Of("ring", 2, "backPressure", Apart, TRUE, FALSE),
   Of("ring", 2, "backPressure", Together, TRUE, FALSE),
   Of("single", 1, "backPressure", Together, FALSE, TRUE),
   Of("ring", 2, "sliding", Apart, FALSE, FALSE),
   Of("single", 1, "dropping", Together, TRUE, FALSE),
   Of("list", 1, "dropping", Apart, TRUE, FALSE)}

\* A ring that drops what it has no room for, and a single that slides.
DroppingRing  == {Of("ring", 2, "dropping", Apart, TRUE, FALSE)}
SlidingSingle == {[Of("single", 1, "sliding", Apart, TRUE, FALSE) EXCEPT
                     !.role[f1] = {"publish"}, !.role[f3] = {"take"},
                     !.fuel = [f \in Fiber |-> 2]]}

\* The hub implements the topic: every subscription gets what is published after
\* it began, in order, each message once, except what slides away.
Abstract == INSTANCE Topic WITH
  log <- hub.log, open <- hub.open, got <- hub.got, sliding <- (setup.strategy = "sliding"),
  at <- [s \in Subscription |-> IF s \in hub.open THEN Position(hub, s) ELSE 0]

ImplementsTopic == Abstract!Spec
=============================================================================
