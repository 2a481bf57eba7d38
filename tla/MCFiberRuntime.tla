--------------------------- MODULE MCFiberRuntime ---------------------------
(* Small instances of FiberRuntime for TLC. *)
EXTENDS FiberRuntime

CONSTANTS f1, f2, f3

\* A root and a child that do several operations each.
FuelDuo   == [f \in Fiber |-> IF f = Root THEN 3 ELSE 2]
\* A root with two children that do little themselves.
FuelTrio  == [f \in Fiber |-> IF f = f3 THEN 1 ELSE 2]
=============================================================================
