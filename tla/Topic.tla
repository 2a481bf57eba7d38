-------------------------------- MODULE Topic --------------------------------
(***************************************************************************)
(* What a hub promises: it is one log of messages.  A subscription starts   *)
(* at its end and gets what follows, in order, each message once; only a    *)
(* sliding hub makes it miss messages, and never the last one.              *)
(***************************************************************************)
EXTENDS Naturals, Sequences, SequencesExt

CONSTANT Subscription

VARIABLES log,      \* the messages
          open,     \* the subscriptions
          at,       \* how far in the log a subscription is
          got,      \* what it got
          sliding

topic == <<log, open, at, got, sliding>>

Init == /\ log = <<>> /\ open = {}
        /\ at = [s \in Subscription |-> 0] /\ got = [s \in Subscription |-> <<>>]
        /\ sliding \in BOOLEAN

Join(s) == /\ s \notin open /\ got[s] = <<>>
           /\ open' = open \cup {s}
           /\ at' = [at EXCEPT ![s] = Len(log)]
           /\ UNCHANGED <<log, got, sliding>>

\* s goes on from position k and reads what it passes.
Reads(s, k) == /\ k <= at'[s] /\ at'[s] <= Len(log')
               /\ got'[s] = got[s] \o SubSeq(log', k + 1, at'[s])

\* Messages are published, read and missed; subscriptions may be left.
Proceed ==
  /\ IsPrefix(log, log') /\ open' \subseteq open
  /\ \A s \in open' : \E k \in at[s]..Len(log') :
       /\ k = at[s] \/ (sliding /\ k < Len(log'))
       /\ Reads(s, k)
  /\ \A s \in Subscription \ open' : got'[s] = got[s]
  /\ UNCHANGED sliding

Next == Proceed \/ \E s \in Subscription : Join(s)

Spec == Init /\ [][Next]_topic
=============================================================================
