------------------------------- MODULE Channel -------------------------------
(***************************************************************************)
(* What a queue of src/Queue.ts promises about the values it is given: they *)
(* come out in the order they went in, each once.  A value that is inside   *)
(* the queue is lost only if the queue slides, the oldest first (Slide).  A *)
(* value that waits outside for room is lost only with the offer that       *)
(* brought it (Withdraw) or when the queue is closed (Drop).                *)
(***************************************************************************)
EXTENDS Naturals, Sequences, FiniteSets

CONSTANTS Producer,   \* who offers values
          Counts,     \* how many a producer may have offered before
          Sizes       \* how many it may offer at a time

VARIABLES inside,     \* the values in the queue
          outside,    \* the values that wait for room, in order
          got,        \* the values that came out
          closed,     \* whether the queue was shut down
          sliding     \* whether this queue slides

Elements(s) == {s[i] : i \in DOMAIN s}
From(s, i)  == SubSeq(s, i, Len(s))
\* What s has at these places, in order.
Pick(s, places) == [k \in 1..Cardinality(places) |->
  s[CHOOSE i \in places : Cardinality({j \in places : j <= i}) = k]]

\* Consecutive values of one producer, none of which was seen before.
Batch == {[i \in 1..n |-> [by |-> p, n |-> k + i]] :
            n \in Sizes, k \in Counts, p \in Producer}
New(vs) == Elements(vs) \cap (Elements(inside) \cup Elements(outside) \cup Elements(got)) = {}

Init == /\ inside = <<>> /\ outside = <<>> /\ got = <<>> /\ closed = FALSE
        /\ sliding \in BOOLEAN

\* Values join at the end, the first n come out and the next k are inside.
Pass(vs) == New(vs) /\ LET all == inside \o outside \o vs IN
  \E n \in 0..Len(all) : \E k \in 0..(Len(all) - n) :
    /\ got' = got \o SubSeq(all, 1, n)
    /\ inside' = SubSeq(all, n + 1, n + k)
    /\ outside' = From(all, n + k + 1)
    /\ UNCHANGED <<closed, sliding>>

\* Values join at the end, the first n are lost.
Slide(vs) == sliding /\ New(vs) /\ LET all == inside \o vs IN
  \E n \in 0..Len(all) : /\ inside' = From(all, n + 1)
                         /\ UNCHANGED <<outside, got, closed, sliding>>

Withdraw(p) == /\ outside' = Pick(outside, {i \in DOMAIN outside : outside[i].by # p})
               /\ UNCHANGED <<inside, got, closed, sliding>>

Close == closed' = TRUE /\ UNCHANGED <<inside, outside, got, sliding>>
Drop  == closed /\ outside' = <<>> /\ UNCHANGED <<inside, got, closed, sliding>>

Next == \/ \E vs \in Batch : Pass(vs) \/ Slide(vs)
        \/ \E p \in Producer : Withdraw(p)
        \/ Close \/ Drop

Spec == Init /\ [][Next]_<<inside, outside, got, closed, sliding>>
=============================================================================
