------------------------------ MODULE MCQueue ------------------------------
(* Small instances of Queue for TLC. *)
EXTENDS Queue

CONSTANTS f1, f2, f3

\* Two fibers that offer, one of which also takes, and one that takes several.
RoleMixed == [f \in Fiber |-> CASE f = f1 -> {"offer", "shutdown"}
                                [] f = f2 -> {"offer", "take"}
                                [] f = f3 -> {"takeBetween", "unsafeOffer"}]
FuelMixed == [f \in Fiber |-> IF f = f3 THEN 1 ELSE 2]

\* A fiber that takes, and two that shut the queue down.
RoleClosers == [f \in Fiber |-> IF f = f1 THEN {"take"} ELSE {"shutdown"}]
FuelClosers == [f \in Fiber |-> 1]

\* Each strategy, with one place or two.
QueuesMixed == {<<1, "backPressure">>, <<1, "dropping">>, <<2, "sliding">>}
QueuesOne == {<<1, "backPressure">>}

AskedMixed == {<<0, 2>>, <<2, 2>>}
=============================================================================
