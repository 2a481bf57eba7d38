------------------------------ MODULE MCScopes ------------------------------
(* Small instances of Scopes for TLC. *)
EXTENDS Scopes

CONSTANTS root, c1, c2, x1, x2

\* The root runs one or two items at a time, the others one.
RootLimits == {[s \in Scope |-> 1], [s \in Scope |-> IF s = root THEN 2 ELSE 1]}
=============================================================================
