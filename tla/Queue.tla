------------------------------- MODULE Queue -------------------------------
(***************************************************************************)
(* Queues: src/internal/queue.ts.                                          *)
(*                                                                         *)
(* Fibers offer and take concurrently.  Between two effects of an          *)
(* operation the fiber may be made to yield, so an operation is as many    *)
(* steps as it has effects that touch the queue; `pc' says which is next:  *)
(*   "idle"       between operations                                       *)
(*   "surplus"    offer or offerAll, before the strategy's handleSurplus   *)
(*   "awaitRoom"  handleSurplus of BackPressureStrategy, deferredAwait     *)
(*   "take"       take, before the queue is polled                         *)
(*   "register"   take, the queue was empty, before takers.offer           *)
(*   "awaitItem"  take, deferredAwait                                      *)
(*   "upTo"       takeUpTo, before the shutdown flag is read               *)
(*   "polling"    takeUpTo, before the queue is polled                     *)
(*   "cleanup"    the onInterrupt of an offer or a take                    *)
(*   "hook", "takers", "putters", "waiters"   the effects of shutdown      *)
(* An operation that waits does so on a Deferred of its own, which is      *)
(* named after the fiber.                                                  *)
(***************************************************************************)
EXTENDS Naturals, Sequences, FiniteSets

CONSTANTS
  Fiber,          \* the fibers that use the queue
  Role,           \* Role[f]: the kinds of operation f performs
  Fuel,           \* Fuel[f]: how many of them
  Queues,         \* the <<capacity, strategy>> of the queues to consider
  Batches,        \* how many values an offer may bring (1: offer, else offerAll)
  Asked,          \* the <<min, max>> of takeBetween (<<0, n>>: takeUpTo)
  MaxInterrupts   \* how many times a fiber may be interrupted, in all

Kinds == {"offer", "unsafeOffer", "take", "takeBetween", "shutdown"}

ASSUME QueueAssumption ==
  /\ Role \in [Fiber -> SUBSET Kinds] /\ Fuel \in [Fiber -> Nat]
  /\ Queues \subseteq (Nat \ {0}) \X {"backPressure", "dropping", "sliding"}
  /\ Batches \subseteq Nat \ {0} /\ Asked \subseteq Nat \X Nat
  /\ MaxInterrupts \in Nat

\* A value is known by who offered it and when.
Value  == [by : Fiber, n : Nat]
\* [value, deferred, isLastItem]; the deferred is the one of fiber value.by.
Putter == [value : Value, last : BOOLEAN]

VARIABLES
  capacity, strategy,  \* chosen when the queue is made
  content,       \* queue
  takers,        \* takers: the fibers whose deferreds are waiting, in order
  putters,       \* strategy.putters
  flag,          \* shutdownFlag
  hook,          \* shutdownHook is done
  pc,
  surplus,       \* the values handleSurplus was given
  deferred,      \* "pending", "done" or "interrupted"
  item,          \* the value the deferred of a taker was completed with
  remaining,     \* takeRemainderLoop: how many are still wanted, at least
  limit,         \* its max
  acc,           \* its accumulator
  asked,         \* what takeBetween was called with
  waiters,       \* the deferreds a shutdown has polled and will interrupt
  sent,          \* history: how many values a fiber offered
  got,           \* history: the values handed out, in order
  fuel, signals

store   == <<content, takers, putters>>
waiting == <<deferred, item>>
taking  == <<remaining, limit, acc, asked>>
config  == <<capacity, strategy>>
closing == <<flag, hook, waiters>>
vars    == <<config, store, closing, pc, surplus, waiting, taking, sent, got, fuel, signals>>
----------------------------------------------------------------------------
(* Handing out values: unsafeCompleteTakers and unsafeOnQueueEmptySpace.   *)

Least(a, b) == IF a < b THEN a ELSE b
From(s, i)  == SubSeq(s, i, Len(s))
Values(ps)  == [i \in DOMAIN ps |-> ps[i].value]
\* What s has at these places, in order.
Pick(s, places) == [k \in 1..Cardinality(places) |->
  s[CHOOSE i \in places : Cardinality({j \in places : j <= i}) = k]]

\* A state of the two loops: what they have handed out and admitted so far.
Loop(c, t, p) == [content |-> c, takers |-> t, putters |-> p, given |-> <<>>, admitted |-> {}]

\* A taker is completed with the head of the queue; a putter's value moves in.
Give(s) == [content  |-> Tail(s.content),
            takers   |-> Tail(s.takers),
            putters  |-> s.putters,
            given    |-> Append(s.given, [to |-> Head(s.takers), value |-> Head(s.content)]),
            admitted |-> s.admitted]
Move(s) == [content  |-> Append(s.content, Head(s.putters).value),
            takers   |-> s.takers,
            putters  |-> Tail(s.putters),
            given    |-> s.given,
            admitted |-> IF Head(s.putters).last THEN s.admitted \cup {Head(s.putters).value.by}
                                              ELSE s.admitted]

\* What the loops run from: only a strategy with back pressure has putters.
LoopState == {s \in [content : Seq(Value), takers : Seq(Fiber), putters : Seq(Putter),
                     given : Seq([to : Fiber, value : Value]), admitted : SUBSET Fiber] :
                Len(s.content) <= capacity /\ (s.putters # <<>> => strategy = "backPressure")}

\* The two loops, which call each other.
Loops[call \in {"completeTakers", "onQueueEmptySpace"} \X LoopState] ==
  LET s == call[2] IN
  IF call[1] = "completeTakers"
  THEN IF s.content = <<>> \/ s.takers = <<>> THEN s
       ELSE Loops[<<"completeTakers", Loops[<<"onQueueEmptySpace", Give(s)>>]>>]
  ELSE IF strategy # "backPressure" \/ Len(s.content) >= capacity \/ s.putters = <<>> THEN s
       ELSE Loops[<<"onQueueEmptySpace", Loops[<<"completeTakers", Move(s)>>]>>]

\* Mutant of Settle: a putter is completed with the first of its values.
SettleEarly(s) ==
  LET all   == s.content \o Values(s.putters)
      given == Least(Len(s.takers), Len(all))
      kept  == Least(capacity, Len(all) - given)
      moved == given + kept - Len(s.content)
  IN [content  |-> SubSeq(all, given + 1, given + kept),
      takers   |-> From(s.takers, given + 1),
      putters  |-> From(s.putters, moved + 1),
      given    |-> s.given \o [i \in 1..given |-> [to |-> s.takers[i], value |-> all[i]]],
      admitted |-> {s.putters[i].value.by : i \in 1..moved}]

\* Mutant of Settle: the takers are completed with the newest values.
SettleNewest(s) ==
  LET all   == s.content \o Values(s.putters)
      given == Least(Len(s.takers), Len(all))
      rest  == Len(all) - given
      kept  == Least(capacity, rest)
      moved == given + kept - Len(s.content)
  IN [content  |-> SubSeq(all, 1, kept),
      takers   |-> From(s.takers, given + 1),
      putters  |-> From(s.putters, moved + 1),
      given    |-> s.given \o [i \in 1..given |-> [to |-> s.takers[i], value |-> all[rest + i]]],
      admitted |-> {s.putters[i].value.by : i \in {j \in 1..moved : s.putters[j].last}}]

\* What either of them computes (SettleIsTheLoops): the first values go to the
\* first takers, and the next ones fill the queue.
Settle(s) ==
  LET all   == s.content \o Values(s.putters)
      given == Least(Len(s.takers), Len(all))
      kept  == Least(capacity, Len(all) - given)
      moved == given + kept - Len(s.content)
  IN [content  |-> SubSeq(all, given + 1, given + kept),
      takers   |-> From(s.takers, given + 1),
      putters  |-> From(s.putters, moved + 1),
      given    |-> s.given \o [i \in 1..given |-> [to |-> s.takers[i], value |-> all[i]]],
      admitted |-> {s.putters[i].value.by : i \in {j \in 1..moved : s.putters[j].last}}]

\* The state after the loops, when d are the deferreds and `out' was polled.
\* A deferred is completed once: what comes too late is dropped.
Hand(s, d, out) ==
  LET gifts(g) == {i \in DOMAIN s.given : s.given[i].to = g /\ d[g] = "pending"} IN
  /\ content' = s.content /\ takers' = s.takers /\ putters' = s.putters
  /\ deferred' = [g \in Fiber |->
       IF d[g] = "pending" /\ (g \in s.admitted \/ gifts(g) # {}) THEN "done" ELSE d[g]]
  /\ item' = [g \in Fiber |-> IF gifts(g) = {} THEN item[g]
                              ELSE s.given[CHOOSE i \in gifts(g) : TRUE].value]
  /\ got' = got \o out \o [i \in DOMAIN s.given |-> s.given[i].value]

GoTo(f, p) == pc' = [pc EXCEPT ![f] = p]
Pending(f) == [deferred EXCEPT ![f] = "pending"]

\* An operation begins.
Begins(f, kind) == /\ pc[f] = "idle" /\ kind \in Role[f] /\ fuel[f] > 0
                   /\ fuel' = [fuel EXCEPT ![f] = @ - 1]
----------------------------------------------------------------------------
(* Offering.                                                               *)

Fresh(f, n) == [i \in 1..n |-> [by |-> f, n |-> sent[f] + i]]

\* The first effect of offer and offerAll: takers are served if the queue is
\* empty, and as many of the other values as there is room for are stored.
Stored(vs) ==
  LET handed == IF content = <<>> THEN Least(Len(takers), Len(vs)) ELSE 0
      rest   == From(vs, handed + 1)
      room   == Least(capacity - Len(content), Len(rest))
  IN [left |-> From(rest, room + 1),
      loop |-> Settle([Loop(content \o SubSeq(rest, 1, room), From(takers, handed + 1), putters)
                         EXCEPT !.given = [i \in 1..handed |-> [to |-> takers[i], value |-> vs[i]]]])]

\* After a shutdown an offer is interrupted at once, and unsafeOffer is false.
Refused(f) ==
  /\ Begins(f, "offer") \/ Begins(f, "unsafeOffer")
  /\ flag
  /\ UNCHANGED <<config, store, closing, pc, surplus, waiting, taking, sent, got, signals>>

Offer(f) ==
  \E n \in Batches : LET s == Stored(Fresh(f, n)) IN
    /\ Begins(f, "offer") /\ ~flag
    /\ Hand(s.loop, deferred, <<>>)
    /\ sent' = [sent EXCEPT ![f] = @ + n]
    /\ surplus' = [surplus EXCEPT ![f] = IF strategy = "dropping" THEN <<>> ELSE s.left]
    /\ GoTo(f, IF s.left = <<>> \/ strategy = "dropping" THEN "idle" ELSE "surplus")
    /\ UNCHANGED <<config, closing, taking, signals>>

\* unsafeOffer has no strategy for the value it has no room for.
UnsafeOffer(f) ==
  /\ Begins(f, "unsafeOffer") /\ ~flag
  /\ Hand(Stored(Fresh(f, 1)).loop, deferred, <<>>)
  /\ sent' = [sent EXCEPT ![f] = @ + 1]
  /\ UNCHANGED <<config, closing, pc, surplus, taking, signals>>

AsPutters(vs) == [i \in DOMAIN vs |-> [value |-> vs[i], last |-> i = Len(vs)]]

\* BackPressureStrategy.handleSurplus
PutSurplus(f) ==
  /\ pc[f] = "surplus" /\ strategy = "backPressure"
  /\ Hand(Settle(Loop(content, takers, putters \o AsPutters(surplus[f]))), Pending(f), <<>>)
  /\ GoTo(f, IF flag THEN "cleanup" ELSE "awaitRoom")
  /\ surplus' = [surplus EXCEPT ![f] = <<>>]
  /\ UNCHANGED <<config, closing, taking, sent, fuel, signals>>

\* SlidingStrategy.handleSurplus: before each value the oldest is polled, if
\* there is one.
SlideSurplus(f) ==
  /\ pc[f] = "surplus" /\ strategy = "sliding"
  /\ LET all  == content \o surplus[f]
         keep == IF content = <<>> THEN 1 ELSE Len(content)
     IN Hand(Settle(Loop(From(all, Len(all) - keep + 1), takers, putters)), deferred, <<>>)
  /\ GoTo(f, "idle")
  /\ surplus' = [surplus EXCEPT ![f] = <<>>]
  /\ UNCHANGED <<config, closing, taking, sent, fuel, signals>>

Admitted(f) ==
  /\ pc[f] = "awaitRoom" /\ deferred[f] = "done"
  /\ GoTo(f, "idle")
  /\ UNCHANGED <<config, store, closing, surplus, waiting, taking, sent, got, fuel, signals>>
----------------------------------------------------------------------------
(* Taking.  A take is the take of one value that takeRemainderLoop makes.  *)

Wants(f, p, min, max) ==
  /\ GoTo(f, p)
  /\ remaining' = [remaining EXCEPT ![f] = min] /\ limit' = [limit EXCEPT ![f] = max]
  /\ asked' = [asked EXCEPT ![f] = <<min, max>>] /\ acc' = [acc EXCEPT ![f] = <<>>]

TakeOne(f) ==
  /\ Begins(f, "take")
  /\ Wants(f, "take", 1, 1)
  /\ UNCHANGED <<config, store, closing, surplus, waiting, sent, got, signals>>

TakeBetween(f) ==
  \E m \in Asked :
    /\ Begins(f, "takeBetween")
    /\ Wants(f, IF m[2] < m[1] THEN "idle" ELSE "upTo", m[1], m[2])
    /\ UNCHANGED <<config, store, closing, surplus, waiting, sent, got, signals>>

\* The operation ends by interruption, without a cleanup, and gives nothing.
Stops(f) == /\ GoTo(f, "idle")
            /\ asked' = [asked EXCEPT ![f] = <<0, 0>>] /\ acc' = [acc EXCEPT ![f] = <<>>]
            /\ UNCHANGED <<remaining, limit>>

\* takeRemainderLoop goes on with value v
Takes(f, v) ==
  /\ acc' = [acc EXCEPT ![f] = Append(@, v)]
  /\ remaining' = [remaining EXCEPT ![f] = @ - 1]
  /\ limit' = [limit EXCEPT ![f] = @ - 1]
  /\ GoTo(f, IF remaining[f] = 1 \/ limit[f] < remaining[f] THEN "idle" ELSE "upTo")
  /\ UNCHANGED asked

\* take: the queue is polled
Take(f) ==
  /\ pc[f] = "take"
  /\ \/ /\ flag
        /\ Stops(f)
        /\ UNCHANGED <<store, waiting, got>>
     \/ /\ ~flag /\ content # <<>>
        /\ Hand(Settle(Loop(Tail(content), takers, putters)), deferred, <<Head(content)>>)
        /\ Takes(f, Head(content))
     \/ /\ ~flag /\ content = <<>>
        /\ GoTo(f, "register")
        /\ UNCHANGED <<store, waiting, taking, got>>
  /\ UNCHANGED <<config, closing, surplus, sent, fuel, signals>>

\* Mutant of Register: a value that was added since is not looked for.
RegisterBlindly(f) ==
  /\ pc[f] = "register"
  /\ takers' = Append(takers, f) /\ deferred' = Pending(f)
  /\ GoTo(f, IF flag THEN "cleanup" ELSE "awaitItem")
  /\ UNCHANGED <<config, content, putters, closing, item, surplus, taking, sent, got, fuel, signals>>

\* ... and, if it was empty, polled again after the deferred joined the takers
Register(f) ==
  /\ pc[f] = "register"
  /\ Hand(Settle(Loop(content, Append(takers, f), putters)), Pending(f), <<>>)
  /\ GoTo(f, IF flag THEN "cleanup" ELSE "awaitItem")
  /\ UNCHANGED <<config, closing, surplus, taking, sent, fuel, signals>>

Served(f) ==
  /\ pc[f] = "awaitItem" /\ deferred[f] = "done"
  /\ Takes(f, item[f])
  /\ UNCHANGED <<config, store, closing, surplus, waiting, sent, got, fuel, signals>>

\* takeUpTo: the flag is read in one effect, and the queue polled in the next
\* (Poll), whatever happened in between.
TakeUpTo(f) ==
  /\ pc[f] = "upTo"
  /\ \/ flag /\ Stops(f)
     \/ ~flag /\ GoTo(f, "polling") /\ UNCHANGED taking
  /\ UNCHANGED <<config, store, closing, surplus, waiting, sent, got, fuel, signals>>

Poll(f) ==
  /\ pc[f] = "polling"
  /\ LET n == Least(limit[f], Len(content)) IN
       /\ Hand(Settle(Loop(From(content, n + 1), takers, putters)), deferred, SubSeq(content, 1, n))
       /\ acc' = [acc EXCEPT ![f] = @ \o SubSeq(content, 1, n)]
       /\ remaining' = [remaining EXCEPT ![f] = IF n < @ THEN @ - n ELSE 0]
       /\ limit' = [limit EXCEPT ![f] = @ - n]
       /\ GoTo(f, IF n < remaining[f] THEN "take" ELSE "idle")
  /\ UNCHANGED <<config, closing, surplus, asked, sent, fuel, signals>>
----------------------------------------------------------------------------
(* Interruption.                                                           *)

Waits(f)  == pc[f] \in {"awaitItem", "awaitRoom"}
Leaves(f) == /\ GoTo(f, "cleanup")
             /\ UNCHANGED <<config, store, closing, surplus, waiting, taking, sent, got, fuel>>

\* The deferred a fiber waits for was interrupted, by a shutdown.
Aborted(f) == Waits(f) /\ deferred[f] = "interrupted" /\ Leaves(f) /\ UNCHANGED signals

\* A fiber that waits is interrupted; a value it was handed and has not yet
\* received is lost.
StopsWaiting(f) == /\ Waits(f) /\ signals < MaxInterrupts /\ signals' = signals + 1
                   /\ Leaves(f)

\* A fiber is interrupted between two effects.
StopsBetween(f) ==
  /\ pc[f] \in {"surplus", "take", "register", "upTo", "polling"} /\ signals < MaxInterrupts
  /\ signals' = signals + 1
  /\ Stops(f)
  /\ surplus' = [surplus EXCEPT ![f] = <<>>]
  /\ UNCHANGED <<config, store, closing, waiting, sent, got, fuel>>

\* onInterrupt: unsafeRemove of the taker, or of the putters.
Cleanup(f) ==
  /\ pc[f] = "cleanup"
  /\ takers' = Pick(takers, {i \in DOMAIN takers : takers[i] # f})
  /\ putters' = Pick(putters, {i \in DOMAIN putters : putters[i].value.by # f})
  /\ Stops(f)
  /\ UNCHANGED <<config, content, closing, surplus, waiting, sent, got, fuel, signals>>
----------------------------------------------------------------------------
(* shutdown, an uninterruptible operation.                                 *)

\* The flag is set and the takers are polled; what follows is several effects.
Shutdown(f) ==
  /\ Begins(f, "shutdown")
  /\ flag' = TRUE
  /\ waiters' = [waiters EXCEPT ![f] = {takers[i] : i \in DOMAIN takers}]
  /\ takers' = <<>>
  /\ GoTo(f, "hook")
  /\ UNCHANGED <<config, content, putters, hook, surplus, waiting, taking, sent, got, signals>>

\* whenEffect(deferredSucceed(shutdownHook)): only the first goes on.
ShutdownHook(f) ==
  /\ pc[f] = "hook"
  /\ hook' = TRUE
  /\ GoTo(f, IF hook THEN "idle" ELSE "takers")
  /\ waiters' = [waiters EXCEPT ![f] = IF hook THEN {} ELSE @]
  /\ UNCHANGED <<config, store, flag, surplus, waiting, taking, sent, got, fuel, signals>>

\* forEachParUnboundedDiscard over the polled takers, or putters, in any order
InterruptWaiter(f) ==
  /\ pc[f] \in {"takers", "waiters"}
  /\ \E g \in waiters[f] :
       /\ deferred' = [deferred EXCEPT ![g] = IF @ = "pending" THEN "interrupted" ELSE @]
       /\ waiters' = [waiters EXCEPT ![f] = @ \ {g}]
  /\ UNCHANGED <<config, store, flag, hook, pc, surplus, item, taking, sent, got, fuel, signals>>

TakersInterrupted(f) ==
  /\ pc[f] = "takers" /\ waiters[f] = {}
  /\ GoTo(f, "putters")
  /\ UNCHANGED <<config, store, closing, surplus, waiting, taking, sent, got, fuel, signals>>

\* strategy.shutdown
ShutdownStrategy(f) ==
  /\ pc[f] = "putters"
  /\ waiters' = [waiters EXCEPT ![f] =
       {putters[i].value.by : i \in {j \in DOMAIN putters : putters[j].last}}]
  /\ putters' = <<>>
  /\ GoTo(f, "waiters")
  /\ UNCHANGED <<config, content, takers, flag, hook, surplus, waiting, taking, sent, got, fuel, signals>>

ShutdownDone(f) ==
  /\ pc[f] = "waiters" /\ waiters[f] = {}
  /\ GoTo(f, "idle")
  /\ UNCHANGED <<config, store, closing, surplus, waiting, taking, sent, got, fuel, signals>>
----------------------------------------------------------------------------

Init ==
  /\ \E q \in Queues : capacity = q[1] /\ strategy = q[2]
  /\ content = <<>> /\ takers = <<>> /\ putters = <<>>
  /\ flag = FALSE /\ hook = FALSE
  /\ pc = [f \in Fiber |-> "idle"]
  /\ surplus = [f \in Fiber |-> <<>>]
  /\ deferred = [f \in Fiber |-> "done"]
  /\ item = [f \in Fiber |-> [by |-> f, n |-> 0]]
  /\ remaining = [f \in Fiber |-> 0] /\ limit = [f \in Fiber |-> 0]
  /\ acc = [f \in Fiber |-> <<>>] /\ asked = [f \in Fiber |-> <<0, 0>>]
  /\ waiters = [f \in Fiber |-> {}]
  /\ sent = [f \in Fiber |-> 0] /\ got = <<>>
  /\ fuel = Fuel /\ signals = 0

\* What a fiber does once its operation began.
Step(f) == \/ PutSurplus(f) \/ SlideSurplus(f) \/ Admitted(f)
           \/ Take(f) \/ Register(f) \/ Served(f) \/ TakeUpTo(f) \/ Poll(f)
           \/ Aborted(f) \/ Cleanup(f)
           \/ ShutdownHook(f) \/ InterruptWaiter(f) \/ TakersInterrupted(f)
           \/ ShutdownStrategy(f) \/ ShutdownDone(f)

Begin(f) == \/ Offer(f) \/ UnsafeOffer(f) \/ TakeOne(f) \/ TakeBetween(f) \/ Shutdown(f)
            \/ Refused(f)

Next == \E f \in Fiber : Begin(f) \/ Step(f) \/ StopsWaiting(f) \/ StopsBetween(f)

Spec == Init /\ [][Next]_vars
----------------------------------------------------------------------------
(* Properties.                                                             *)

Elements(s) == {s[i] : i \in DOMAIN s}

\* Every variable has its type.
TypeOK ==
  /\ <<capacity, strategy>> \in Queues
  /\ content \in Seq(Value) /\ takers \in Seq(Fiber) /\ putters \in Seq(Putter)
  /\ flag \in BOOLEAN /\ hook \in BOOLEAN
  /\ pc \in [Fiber -> {"idle", "surplus", "awaitRoom", "take", "register", "awaitItem", "upTo",
                       "polling", "cleanup", "hook", "takers", "putters", "waiters"}]
  /\ surplus \in [Fiber -> Seq(Value)]
  /\ deferred \in [Fiber -> {"pending", "done", "interrupted"}]
  /\ item \in [Fiber -> Value]
  /\ remaining \in [Fiber -> Nat] /\ limit \in [Fiber -> Nat]
  /\ acc \in [Fiber -> Seq(Value)] /\ asked \in [Fiber -> Nat \X Nat]
  /\ waiters \in [Fiber -> SUBSET Fiber]
  /\ sent \in [Fiber -> Nat] /\ got \in Seq(Value)
  /\ fuel \in [Fiber -> Nat] /\ signals \in Nat

\* A fiber that waits is where somebody will find it: among the takers, among
\* the putters (its last value), or among those a shutdown is interrupting.
WaitersKnown ==
  \A f \in Fiber : Waits(f) /\ deferred[f] = "pending" =>
    \/ \E g \in Fiber : pc[g] # "idle" /\ f \in waiters[g]
    \/ pc[f] = "awaitItem" /\ f \in Elements(takers)
    \/ pc[f] = "awaitRoom" /\ \E p \in Elements(putters) : p.value.by = f /\ p.last

\* No fiber waits for a value while there is one, in the queue or offered, and
\* no fiber waits for room while there is room: take, offer and the cleanups of
\* both never leave two sides waiting for each other.  Whoever waits is found.
NobodyWaitsForNothing ==
  /\ takers # <<>> => content = <<>> /\ putters = <<>>
  /\ putters # <<>> => Len(content) = capacity
  /\ WaitersKnown

\* offerAll resumes only when every value it brought was admitted.
AdmittedWhole ==
  \A f \in Fiber : pc[f] = "awaitRoom" /\ deferred[f] = "done" =>
    \A p \in Elements(putters) : p.value.by # f

\* takeBetween gives at least min and at most max values, however the values
\* arrive during its loop.
TakenBetween ==
  \A f \in Fiber : pc[f] = "idle" /\ asked[f][1] <= asked[f][2] =>
    asked[f][1] <= Len(acc[f]) /\ Len(acc[f]) <= asked[f][2]

\* Settle is what the two mutually recursive loops compute, from every state
\* the operations call them in.
SettleIsTheLoops ==
  \A f \in Fiber :
    LET register == Loop(content, Append(takers, f), putters)
        put      == Loop(content, takers, putters \o AsPutters(surplus[f]))
        completed(s) == Loops[<<"completeTakers", s>>]
        filled(s)    == Loops[<<"onQueueEmptySpace", s>>]
    IN /\ completed(register) = Settle(register)
       /\ pc[f] = "surplus" /\ strategy = "backPressure" => completed(filled(put)) = Settle(put)
       /\ \A n \in 1..Len(content) : LET polled == Loop(From(content, n + 1), takers, putters) IN
            filled(polled) = Settle(polled)

\* Batches are admitted and taken as a whole, and what is settled in one go is what
\* the loops of the code settle.
BatchesWhole == TypeOK /\ AdmittedWhole /\ TakenBetween /\ SettleIsTheLoops

\* "Interrupts any fibers that are suspended on offer or take": when the
\* shutdowns are through, nobody waits.
ShutdownInterrupts ==
  flag /\ (\A g \in Fiber : pc[g] \notin {"hook", "takers", "putters", "waiters"}) =>
    \A f \in Fiber : Waits(f) => deferred[f] # "pending"

\* How many values an offer still waits with, and how many a fiber may have offered.
BatchSizes == UNION {0..n : n \in Batches \cup {1}}

SentCounts == UNION {0..(Fuel[f] * n) : f \in Fiber, n \in Batches \cup {1}}

Abstract == INSTANCE Channel WITH
  Producer <- Fiber, Sizes <- BatchSizes, Counts <- SentCounts,
  inside <- content, outside <- Values(putters), closed <- flag,
  sliding <- (strategy = "sliding")

\* The queue implements the channel: no offer overtakes another, whatever the
\* strategy, the capacity and the order of wake-ups, nothing comes out twice, and
\* what an offer was admitted with stays until it is taken or slides out.
ImplementsChannel == Abstract!Spec
=============================================================================
