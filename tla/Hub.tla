-------------------------------- MODULE Hub --------------------------------
(***************************************************************************)
(* Hubs: src/internal/hub.ts.  First the buffers, the AtomicHub, with the   *)
(* Subscription of each:                                                    *)
(*   "ring"    BoundedHubArb and BoundedHubPow2, whose `index & mask' is    *)
(*             the same remainder                                           *)
(*   "single"  BoundedHubSingle                                             *)
(*   "list"    UnboundedHub: node i+1 holds message i, and node i counts    *)
(*             who has yet to go past it.  (It never slides: unbounded hubs *)
(*             have the dropping strategy.)                                 *)
(* A buffer h is a record.  Message i is the one publisherIndex was i for;  *)
(* h.log has them all, so publisherIndex is its length.                     *)
(*                                                                         *)
(* Then the hub.  A fiber may be made to yield between two effects, so an   *)
(* operation is as many steps as it has effects that touch the hub.  pc[f]: *)
(*   "idle"       between operations                                        *)
(*   "surplus"    publish or publishAll, before the strategy's handleSurplus*)
(*   "awaitRoom"  handleSurplus of BackPressureStrategy, deferredAwait      *)
(*   "register"   take, the subscription was empty, before pollers.offer    *)
(*   "awaitItem"  take, deferredAwait                                       *)
(*   "cleanup"    the onInterrupt of a publish or a take                    *)
(* The end of a subscription and of the hub are done by fibers of their     *)
(* own: phase and hubPhase are where those are.  A fiber that waits does so *)
(* on a Deferred of its own, which is named after it.                       *)
(***************************************************************************)
EXTENDS Integers, Sequences, FiniteSets, SequencesExt

CONSTANTS
  Subscription,   \* the subscriptions there may be
  NoMessage,      \* what an empty place holds
  Fiber,          \* the fibers that use the hub
  Setups,         \* the situations to consider, see SetupType
  Batches,        \* how many messages a publishAll may bring
  Asked,          \* how many messages a takeUpTo may ask for
  MaxInterrupts   \* how many interruptions of fibers there are, in all

Kinds == {"publish", "publishAll", "unsafeOffer", "take", "takeUpTo"}

\* The hub there is and what is done with it: the operations each fiber
\* performs, how many of them, the subscription it takes from, and whether the
\* hub may be shut down.
SetupType ==
  [kind : {"ring", "single", "list"}, capacity : Nat \ {0},
   strategy : {"backPressure", "dropping", "sliding"},
   role : [Fiber -> SUBSET Kinds], fuel : [Fiber -> Nat],
   dequeue : [Fiber -> Subscription], mortal : BOOLEAN]

ASSUME HubAssumption ==
  /\ IsFiniteSet(Subscription) /\ Setups \subseteq SetupType
  /\ \A c \in Setups : /\ c.kind = "single" => c.capacity = 1
                       /\ c.kind = "list" => c.strategy = "dropping"
  /\ Batches \subseteq Nat \ {0} /\ Asked \subseteq Nat /\ MaxInterrupts \in Nat

----------------------------------------------------------------------------
(* The buffers.                                                            *)

Least(a, b)    == IF a < b THEN a ELSE b
Greatest(a, b) == IF a < b THEN b ELSE a

NewBuffer(kind, capacity) ==
  LET indices == 0..(IF kind = "list" THEN 0 ELSE capacity - 1) IN
  [kind     |-> kind,
   capacity |-> capacity,
   slot     |-> [i \in indices |-> NoMessage],      \* array, value, or the nodes' values
   count    |-> [i \in indices |-> 0],              \* subscribers
   freed    |-> 0,                                  \* subscribersIndex
   at       |-> [s \in Subscription |-> 0],         \* each subscription's subscriberIndex
   open     |-> {},                                 \* those that did not unsubscribe
   log      |-> <<>>,                               \* history: the messages stored
   got      |-> [s \in Subscription |-> <<>>]]      \* history: the messages polled

Published(h) == Len(h.log)
Slot(h, i)   == IF h.kind = "list" THEN i ELSE i % h.capacity
----------------------------------------------------------------------------
(* The buffers: publishing.                                                *)

Full(h) == \/ h.kind = "ring" /\ Published(h) = h.freed + h.capacity
           \/ h.kind = "single" /\ h.count[0] # 0

Heard(h) == IF h.kind = "list" THEN h.count[Published(h)] # 0 ELSE h.open # {}

\* The array and the count of a ring or a single; a list grows by a node that
\* inherits the count of the last.
Store(h, m) ==
  LET i == Slot(h, Published(h))
      kept == [h EXCEPT !.log = Append(@, m)]
  IN IF h.kind = "list"
     THEN [kept EXCEPT !.slot  = [j \in 0..(i + 1) |-> IF j = i THEN m ELSE IF j > i THEN NoMessage ELSE @[j]],
                       !.count = [j \in 0..(i + 1) |-> @[Least(i, j)]]]
     ELSE [kept EXCEPT !.slot[i] = m, !.count[i] = Cardinality(h.open)]

\* publish, of a buffer that is not full
Publish(h, m) == IF Heard(h) THEN Store(h, m) ELSE h

\* publishAll of a ring stores without looking for subscribers, and returns all
\* but iteratorIndex - 1 of the messages; the others go through publish.
PublishAll(h, ms) ==
  LET room == IF h.kind = "ring" THEN Least(Len(ms), h.freed + h.capacity - Published(h))
              ELSE IF h.kind = "list" THEN Len(ms)
              ELSE IF Full(h) THEN 0 ELSE 1
  IN CASE h.kind = "ring" /\ room > 0 ->
            [hub     |-> FoldLeft(Store, h, SubSeq(ms, 1, room)),
             surplus |-> SubSeq(ms, room, Len(ms))]
       [] OTHER ->
            [hub     |-> FoldLeft(Publish, h, SubSeq(ms, 1, room)),
             surplus |-> SubSeq(ms, room + 1, Len(ms))]

Slide(h) ==
  CASE h.kind = "ring" /\ h.freed # Published(h) ->
         [h EXCEPT !.slot[Slot(h, h.freed)] = NoMessage, !.count[Slot(h, h.freed)] = 0,
                   !.freed = @ + 1]
    [] h.kind = "single" -> [h EXCEPT !.slot[0] = NoMessage, !.count[0] = 0]
    [] OTHER -> h
----------------------------------------------------------------------------
(* The buffers: subscribing.                                               *)

\* Mutant of Subscribe: it starts with what there is.
SubscribeToOld(h, s) == [h EXCEPT !.open = @ \cup {s}, !.at[s] = h.freed]

Subscribe(h, s) ==
  LET joined == [h EXCEPT !.open = @ \cup {s}, !.at[s] = Published(h)]
  IN IF h.kind = "list" THEN [joined EXCEPT !.count[Published(h)] = @ + 1] ELSE joined

\* Where s goes on: past what slid away.
Position(h, s) == IF h.kind = "single" THEN h.at[s] ELSE Greatest(h.at[s], h.freed)

\* How many messages s can poll.
Size(h, s) ==
  IF s \notin h.open THEN 0
  ELSE IF h.kind = "single" THEN IF h.count[0] = 0 \/ h.at[s] = Published(h) THEN 0 ELSE 1
  ELSE Published(h) - Position(h, s)

\* s goes past n messages; one that everybody went past is freed.
Pass(h, s, n) ==
  LET from   == Position(h, s)
      passed == from..(from + n - 1)
      slots  == {Slot(h, i) : i \in passed}
      done   == {j \in slots : h.count[j] = 1}
      freed  == IF h.kind = "list" THEN h.freed..(h.freed + Cardinality(done) - 1) ELSE done
  IN [h EXCEPT !.count = [j \in DOMAIN @ |-> IF j \in slots THEN @[j] - 1 ELSE @[j]],
               !.slot  = [j \in DOMAIN @ |-> IF j \in freed THEN NoMessage ELSE @[j]],
               !.freed = IF h.kind = "single" THEN @ ELSE @ + Cardinality(done),
               !.at[s] = from + n]

\* The j-th message s polls next.
Message(h, s, j) == h.slot[Slot(h, Position(h, s) + j - 1)]

\* pollUpTo; poll is pollUpTo(1)
PollUpTo(h, s, n) ==
  LET k == Least(n, Size(h, s)) IN
  [Pass(h, s, k) EXCEPT !.got[s] = @ \o [j \in 1..k |-> Message(h, s, j)]]

\* Mutant of Unsubscribe: the messages not taken keep their counts.
UnsubscribeOnly(h, s) == [h EXCEPT !.open = @ \ {s}]

\* unsubscribe, once: s goes past all that is left.  A list takes s out of the
\* count of its last node first.
Unsubscribe(h, s) ==
  LET left == [h EXCEPT !.open = @ \ {s},
                        !.count = IF h.kind = "list"
                                  THEN [@ EXCEPT ![Published(h)] = @ - 1] ELSE @]
      ahead == IF h.kind = "single" THEN IF h.at[s] = Published(h) THEN 0 ELSE 1
               ELSE Published(h) - Position(h, s)
  IN Pass(left, s, ahead)
----------------------------------------------------------------------------
VARIABLES
  hub,           \* the buffer, and its subscriptions
  setup,         \* the situation, which does not change
  pollers,       \* pollers[s]: the fibers whose deferreds wait for a message of s
  subscribers,   \* the subscriptions that are keys of the map of that name
  publishers,    \* strategy.publishers: [message, last]; the deferred is its author's
  phase,         \* phase[s]: "new", "open", "polled" or "closed"
  polled,        \* the deferreds that shutdown polled from pollers[s] and will interrupt
  hubPhase,      \* "open", "scope", "publishers" or "polled"
  hubPolled,     \* the deferreds it polled from publishers
  pc,
  surplus,       \* the messages handleSurplus was setup
  deferred,      \* "pending", "done" or "interrupted"
  answer,        \* what the last publish or publishAll returned
  batch,         \* history: the messages it was setup
  sent,          \* history: how many messages a fiber brought
  stale,         \* history: whether publishAll stored messages nobody will take
  fuel, signals

waiting == <<pollers, subscribers, publishers, deferred>>
ending  == <<phase, polled, hubPhase, hubPolled>>
told    == <<answer, batch, sent>>
vars    == <<hub, setup, waiting, ending, pc, surplus, told, stale, fuel, signals>>

Elements(q)  == {q[i] : i \in DOMAIN q}
GoTo(f, p)   == pc' = [pc EXCEPT ![f] = p]
ShutDown(s)  == phase[s] \in {"polled", "closed"}
HubShutDown  == hubPhase # "open"
----------------------------------------------------------------------------
(* Handing out: unsafeCompletePollers, unsafeCompleteSubscribers and        *)
(* unsafeOnHubEmptySpace, which call each other.                           *)

\* What they read and write; `done' are the fibers whose deferred is completed.
State(h, po, su, pu) ==
  [hub |-> h, pollers |-> po, subscribers |-> su, publishers |-> pu, done |-> {}]
Now == State(hub, pollers, subscribers, publishers)

\* A poller gets the next message of s; a publisher's message moves in.
Give(t, s) == [t EXCEPT !.hub = PollUpTo(@, s, 1), !.pollers[s] = Tail(@),
                        !.done = @ \cup {Head(t.pollers[s])}]
Move(t)    == LET p == Head(t.publishers) IN
              [t EXCEPT !.hub = Publish(@, p.message), !.publishers = Tail(@),
                        !.done = IF p.last THEN @ \cup {p.message.by} ELSE @]

RECURSIVE CompletePollers(_, _), CompleteThose(_, _), OnHubEmptySpace(_)

CompletePollers(t, s) ==
  IF Size(t.hub, s) = 0 THEN t
  ELSE IF t.pollers[s] = <<>> THEN [t EXCEPT !.subscribers = @ \ {s}]
  ELSE CompletePollers(OnHubEmptySpace(Give(t, s)), s)

\* The loop over the map: an entry that was deleted meanwhile is not visited.
CompleteThose(t, ss) ==
  IF ss \cap t.subscribers = {} THEN t
  ELSE LET s == CHOOSE r \in ss \cap t.subscribers : TRUE
       IN CompleteThose(CompletePollers(t, s), ss \ {s})

CompleteSubscribers(t) == CompleteThose(t, t.subscribers)

OnHubEmptySpace(t) ==
  IF setup.strategy # "backPressure" \/ Full(t.hub) \/ t.publishers = <<>> THEN t
  ELSE OnHubEmptySpace(CompleteSubscribers(Move(t)))

Pending(f) == [deferred EXCEPT ![f] = "pending"]

\* t is the new state; d says which deferreds there are.
Becomes(t, d) ==
  /\ hub' = t.hub /\ pollers' = t.pollers /\ subscribers' = t.subscribers
  /\ publishers' = t.publishers
  /\ deferred' = [f \in Fiber |-> IF f \in t.done /\ d[f] = "pending" THEN "done" ELSE d[f]]
----------------------------------------------------------------------------
(* Publishing.                                                             *)

Begins(f, kind) == /\ pc[f] = "idle" /\ kind \in setup.role[f] /\ fuel[f] > 0
                   /\ fuel' = [fuel EXCEPT ![f] = @ - 1]

Fresh(f, n) == [i \in 1..n |-> [by |-> f, n |-> sent[f] + i]]

\* The messages f brings, and what is left of them for handleSurplus; that of
\* DroppingStrategy answers at once.
Brings(f, ms, left) ==
  /\ sent' = [sent EXCEPT ![f] = @ + Len(ms)] /\ batch' = [batch EXCEPT ![f] = ms]
  /\ answer' = [answer EXCEPT ![f] = left = <<>>]
  /\ surplus' = [surplus EXCEPT ![f] = IF setup.strategy = "dropping" THEN <<>> ELSE left]
  /\ GoTo(f, IF left = <<>> \/ setup.strategy = "dropping" THEN "idle" ELSE "surplus")

PublishOne(f) ==
  /\ Begins(f, "publish") /\ ~HubShutDown
  /\ LET ms == Fresh(f, 1) IN
       \/ /\ ~Full(hub)
          /\ Becomes(CompleteSubscribers([Now EXCEPT !.hub = Publish(@, ms[1])]), deferred)
          /\ Brings(f, ms, <<>>)
       \/ /\ Full(hub) /\ Brings(f, ms, ms)
          /\ UNCHANGED <<hub, waiting>>
  /\ UNCHANGED <<setup, ending, stale, signals>>

PublishMany(f) ==
  \E n \in Batches :
    /\ Begins(f, "publishAll") /\ ~HubShutDown
    /\ LET ms == Fresh(f, n)
           p  == PublishAll(hub, ms)
       IN /\ Becomes(CompleteSubscribers([Now EXCEPT !.hub = p.hub]), deferred)
          /\ Brings(f, ms, p.surplus)
          /\ stale' = (stale \/ (hub.open = {} /\ p.hub.log # hub.log))
    /\ UNCHANGED <<setup, ending, signals>>

\* unsafeOffer has no strategy for the message it has no room for.
UnsafeOffer(f) ==
  /\ Begins(f, "unsafeOffer") /\ ~HubShutDown /\ ~Full(hub)
  /\ Becomes(CompleteSubscribers([Now EXCEPT !.hub = Publish(@, Fresh(f, 1)[1])]), deferred)
  /\ sent' = [sent EXCEPT ![f] = @ + 1]
  /\ UNCHANGED <<setup, ending, pc, surplus, answer, batch, stale, signals>>

AsPublishers(ms) == [i \in DOMAIN ms |-> [message |-> ms[i], last |-> i = Len(ms)]]

\* BackPressureStrategy.handleSurplus
PutSurplus(f) ==
  /\ pc[f] = "surplus" /\ setup.strategy = "backPressure"
  /\ LET t == [Now EXCEPT !.publishers = @ \o AsPublishers(surplus[f])]
     IN Becomes(CompleteSubscribers(OnHubEmptySpace(t)), Pending(f))
  /\ GoTo(f, IF HubShutDown THEN "cleanup" ELSE "awaitRoom")
  /\ surplus' = [surplus EXCEPT ![f] = <<>>]
  /\ UNCHANGED <<setup, ending, told, stale, fuel, signals>>

\* SlidingStrategy.handleSurplus: unsafeSlidingPublish
SlideSurplus(f) ==
  /\ pc[f] = "surplus" /\ setup.strategy = "sliding"
  /\ LET slid == FoldLeft(LAMBDA h, m : Publish(Slide(h), m), hub, surplus[f])
     IN Becomes(CompleteSubscribers([Now EXCEPT !.hub = slid]), deferred)
  /\ GoTo(f, "idle")
  /\ surplus' = [surplus EXCEPT ![f] = <<>>] /\ answer' = [answer EXCEPT ![f] = TRUE]
  /\ UNCHANGED <<setup, ending, batch, sent, stale, fuel, signals>>

Admitted(f) ==
  /\ pc[f] = "awaitRoom" /\ deferred[f] = "done"
  /\ GoTo(f, "idle") /\ answer' = [answer EXCEPT ![f] = TRUE]
  /\ UNCHANGED <<hub, setup, waiting, ending, surplus, batch, sent, stale, fuel, signals>>
----------------------------------------------------------------------------
(* Taking.                                                                 *)

\* take: the subscription is polled, unless others already wait for it
Take(f) ==
  LET s == setup.dequeue[f] IN
  /\ Begins(f, "take") /\ phase[s] = "open"
  /\ \/ /\ pollers[s] = <<>> /\ Size(hub, s) > 0
        /\ Becomes(OnHubEmptySpace([Now EXCEPT !.hub = PollUpTo(@, s, 1)]), deferred)
        /\ UNCHANGED pc
     \/ /\ pollers[s] # <<>> \/ Size(hub, s) = 0
        /\ GoTo(f, "register")
        /\ UNCHANGED <<hub, waiting>>
  /\ UNCHANGED <<setup, ending, surplus, told, stale, signals>>

\* ... and, if there was nothing, again after the deferred joined the pollers.
Register(f) ==
  LET s == setup.dequeue[f] IN
  /\ pc[f] = "register"
  /\ LET t == [Now EXCEPT !.pollers[s] = Append(@, f), !.subscribers = @ \cup {s}]
     IN Becomes(CompletePollers(t, s), Pending(f))
  /\ GoTo(f, IF ShutDown(s) THEN "cleanup" ELSE "awaitItem")
  /\ UNCHANGED <<setup, ending, surplus, told, stale, fuel, signals>>

Served(f) ==
  /\ pc[f] = "awaitItem" /\ deferred[f] = "done"
  /\ GoTo(f, "idle")
  /\ UNCHANGED <<hub, setup, waiting, ending, surplus, told, stale, fuel, signals>>

\* takeUpTo, and takeAll
TakeUpTo(f) ==
  LET s == setup.dequeue[f] IN
  \E n \in Asked :
    /\ Begins(f, "takeUpTo") /\ phase[s] = "open"
    /\ LET k == IF pollers[s] = <<>> THEN n ELSE 0
       IN Becomes(OnHubEmptySpace([Now EXCEPT !.hub = PollUpTo(@, s, k)]), deferred)
    /\ UNCHANGED <<setup, ending, pc, surplus, told, stale, signals>>
----------------------------------------------------------------------------
(* Interruption, of a fiber that waits or is about to.                     *)

Leaves(f) == /\ GoTo(f, "cleanup") /\ fuel' = [fuel EXCEPT ![f] = 0]
             /\ UNCHANGED <<hub, setup, waiting, ending, surplus, told, stale>>

Interrupt(f) ==
  /\ pc[f] \in {"surplus", "awaitRoom", "register", "awaitItem"}
  /\ signals < MaxInterrupts /\ signals' = signals + 1
  /\ Leaves(f)

\* The deferred it waits for was interrupted, by a shutdown.
Aborted(f) == /\ pc[f] \in {"awaitRoom", "awaitItem"} /\ deferred[f] = "interrupted"
              /\ Leaves(f) /\ UNCHANGED signals

\* The onInterrupt of handleSurplus, or of take.
Cleanup(f) ==
  /\ pc[f] = "cleanup" /\ GoTo(f, "idle")
  /\ publishers' = SelectSeq(publishers, LAMBDA p : p.message.by # f)
  /\ pollers' = [pollers EXCEPT ![setup.dequeue[f]] = SelectSeq(@, LAMBDA g : g # f)]
  /\ UNCHANGED <<hub, setup, subscribers, deferred, ending, surplus, told, stale, fuel, signals>>
----------------------------------------------------------------------------
(* Subscriptions and their end.                                            *)

\* subscribe, which does not look at the flag.  (A scope that is closed already
\* ends the subscription at once, see End.)
Join(s) ==
  /\ phase[s] = "new"
  /\ phase' = [phase EXCEPT ![s] = "open"]
  /\ hub' = Subscribe(hub, s)
  /\ UNCHANGED <<setup, waiting, polled, hubPhase, hubPolled, pc, surplus, told, stale, fuel, signals>>

\* shutdown of a subscription, when its scope closes: the flag is set and the
\* pollers are polled,
End(s) ==
  /\ phase[s] = "open"
  /\ phase' = [phase EXCEPT ![s] = "polled"]
  /\ polled' = [polled EXCEPT ![s] = Elements(pollers[s])]
  /\ pollers' = [pollers EXCEPT ![s] = <<>>]
  /\ UNCHANGED <<hub, setup, subscribers, publishers, deferred, hubPhase, hubPolled, pc>>
  /\ UNCHANGED <<surplus, told, stale, fuel, signals>>

Abort(f) == deferred' = [deferred EXCEPT ![f] = IF @ = "pending" THEN "interrupted" ELSE @]

\* ... each is interrupted, in any order,
InterruptPoller(s) ==
  \E f \in polled[s] :
    /\ phase[s] = "polled" /\ Abort(f)
    /\ polled' = [polled EXCEPT ![s] = @ \ {f}]
    /\ UNCHANGED <<hub, setup, pollers, subscribers, publishers, phase, hubPhase, hubPolled>>
    /\ UNCHANGED <<pc, surplus, told, stale, fuel, signals>>

\* Mutant of Leave: the room it makes is not handed out.
LeaveQuietly(s) ==
  /\ phase[s] = "polled" /\ polled[s] = {}
  /\ phase' = [phase EXCEPT ![s] = "closed"]
  /\ Becomes(State(Unsubscribe(hub, s), pollers, subscribers \ {s}, publishers), deferred)
  /\ UNCHANGED <<setup, polled, hubPhase, hubPolled, pc, surplus, told, stale, fuel, signals>>

\* ... then the buffer is left, which may make room.
Leave(s) ==
  /\ phase[s] = "polled" /\ polled[s] = {}
  /\ phase' = [phase EXCEPT ![s] = "closed"]
  /\ LET t == State(Unsubscribe(hub, s), pollers, subscribers \ {s}, publishers)
     IN Becomes(OnHubEmptySpace(t), deferred)
  /\ UNCHANGED <<setup, polled, hubPhase, hubPolled, pc, surplus, told, stale, fuel, signals>>

\* shutdown of the hub: the flag is set,
ShutDownHub ==
  /\ setup.mortal /\ hubPhase = "open" /\ hubPhase' = "scope"
  /\ UNCHANGED <<hub, setup, waiting, phase, polled, hubPolled, pc, surplus, told, stale, fuel, signals>>

\* ... the scope is closed, which ends the subscriptions (End) that have not
\* begun to end themselves,
CloseScope ==
  /\ hubPhase = "scope" /\ \A s \in Subscription : phase[s] # "open"
  /\ hubPhase' = "publishers"
  /\ UNCHANGED <<hub, setup, waiting, phase, polled, hubPolled, pc, surplus, told, stale, fuel, signals>>

\* ... the publishers are polled,
PollPublishers ==
  /\ hubPhase = "publishers" /\ hubPhase' = "polled"
  /\ hubPolled' = {p.message.by : p \in {q \in Elements(publishers) : q.last}}
  /\ publishers' = <<>>
  /\ UNCHANGED <<hub, setup, pollers, subscribers, deferred, phase, polled, pc, surplus, told>>
  /\ UNCHANGED <<stale, fuel, signals>>

\* ... and interrupted.
InterruptPublisher ==
  \E f \in hubPolled :
    /\ Abort(f) /\ hubPolled' = hubPolled \ {f}
    /\ UNCHANGED <<hub, setup, pollers, subscribers, publishers, phase, polled, hubPhase, pc>>
    /\ UNCHANGED <<surplus, told, stale, fuel, signals>>
----------------------------------------------------------------------------

Init ==
  /\ setup \in Setups /\ hub = NewBuffer(setup.kind, setup.capacity)
  /\ pollers = [s \in Subscription |-> <<>>] /\ subscribers = {} /\ publishers = <<>>
  /\ phase = [s \in Subscription |-> "new"] /\ polled = [s \in Subscription |-> {}]
  /\ hubPhase = "open" /\ hubPolled = {}
  /\ pc = [f \in Fiber |-> "idle"] /\ surplus = [f \in Fiber |-> <<>>]
  /\ deferred = [f \in Fiber |-> "pending"]
  /\ answer = [f \in Fiber |-> TRUE] /\ batch = [f \in Fiber |-> <<>>]
  /\ sent = [f \in Fiber |-> 0] /\ stale = FALSE
  /\ fuel = setup.fuel /\ signals = 0

Step(f) == \/ PutSurplus(f) \/ SlideSurplus(f) \/ Admitted(f)
           \/ Register(f) \/ Served(f) \/ Aborted(f) \/ Cleanup(f)

Begin(f) == PublishOne(f) \/ PublishMany(f) \/ UnsafeOffer(f) \/ Take(f) \/ TakeUpTo(f)

Next == \/ \E f \in Fiber : Begin(f) \/ Step(f) \/ Interrupt(f)
        \/ \E s \in Subscription : Join(s) \/ End(s) \/ InterruptPoller(s) \/ Leave(s)
        \/ ShutDownHub \/ CloseScope \/ PollPublishers \/ InterruptPublisher

Spec == Init /\ [][Next]_vars
----------------------------------------------------------------------------
(* Properties.                                                             *)

\* Every variable has its type.
TypeOK ==
  /\ hub.freed \in 0..Published(hub) /\ hub.open \subseteq Subscription
  /\ hub.at \in [Subscription -> Nat] /\ \A i \in DOMAIN hub.count : hub.count[i] \in Nat
  /\ setup \in Setups
  /\ pollers \in [Subscription -> Seq(Fiber)] /\ subscribers \subseteq Subscription
  /\ phase \in [Subscription -> {"new", "open", "polled", "closed"}]
  /\ polled \in [Subscription -> SUBSET Fiber]
  /\ hubPhase \in {"open", "scope", "publishers", "polled"} /\ hubPolled \subseteq Fiber
  /\ pc \in [Fiber -> {"idle", "surplus", "awaitRoom", "register", "awaitItem", "cleanup"}]
  /\ deferred \in [Fiber -> {"pending", "done", "interrupted"}]
  /\ answer \in [Fiber -> BOOLEAN] /\ sent \in [Fiber -> Nat] /\ stale \in BOOLEAN
  /\ fuel \in [Fiber -> Nat] /\ signals \in Nat

\* How many subscriptions have yet to take message i.
Awaiting(i) == Cardinality({s \in hub.open : Position(hub, s) <= i})

\* The three cyclic structures agree: a place is counted once per subscription
\* that has yet to read it, and holds the message it will read.
SlotsAccounted ==
  /\ \A i \in hub.freed..(Published(hub) - 1) : LET j == Slot(hub, i) IN
       (hub.kind = "single" => i = Published(hub) - 1) =>
         /\ hub.count[j] = Awaiting(i)
         /\ hub.count[j] > 0 => hub.slot[j] = hub.log[i + 1]

\* Whoever is suspended will be found by a hand-over or by a shutdown.
WaitersKnown ==
  \A f \in Fiber : LET s == setup.dequeue[f] IN
    deferred[f] = "pending" =>
      /\ pc[f] = "awaitItem" =>
           \/ f \in polled[s]
           \/ f \in Elements(pollers[s]) /\ s \in subscribers
      /\ pc[f] = "awaitRoom" =>
           f \in hubPolled \/ \E p \in Elements(publishers) : p.last /\ p.message.by = f

\* Nobody waits for what is there: no poller for a message its subscription has,
\* no publisher for room; and whoever waits is found.
NobodyWaitsForNothing ==
  /\ \A s \in Subscription : pollers[s] # <<>> => Size(hub, s) = 0
  /\ publishers # <<>> => Full(hub)
  /\ WaitersKnown

\* A hub is only full if some subscription is a whole capacity behind, or if
\* publishAll stored messages when there was no subscription.
FullForAReason ==
  Full(hub) /\ ~stale => \E s \in hub.open : Size(hub, s) = hub.capacity

\* The places of a hub are counted right: those that wait to be read, and how many
\* are left.
PlacesAccounted == TypeOK /\ SlotsAccounted /\ FullForAReason

\* publishAll is documented to return whether the messages were published: it
\* answers no only if some message was not stored.
PublishAllAnswers ==
  \A f \in Fiber : pc[f] = "idle" /\ ~answer[f] => ~(Elements(batch[f]) \subseteq Elements(hub.log))

\* A sliding hub is documented to drop old messages for new ones: a subscription
\* that has got an older message can get the newest.
LastIsKept ==
  \A s \in hub.open : LET got == hub.got[s] IN
    got # <<>> /\ Last(got) # Last(hub.log) => Size(hub, s) > 0
=============================================================================
