---------------------------- MODULE FiberRuntime ----------------------------
(***************************************************************************)
(* The fiber run loop of src/internal/fiberRuntime.ts.                     *)
(*                                                                         *)
(* A fiber is a stack machine with a mailbox.  JavaScript runs one task at *)
(* a time: a task that enters FiberRuntime.run (or FiberRuntime.start)     *)
(* keeps the thread until the fiber suspends, yields or ends, so fibers    *)
(* interleave only at those points.  `current' is the fiber that has the   *)
(* thread, `pc' where in the class it is:                                  *)
(*   "idle"    nobody runs                                                 *)
(*   "drain"   drainQueueOnCurrentThread, about to look at the mailbox     *)
(*   "loop"    runLoop, top of an iteration (the mailbox is drained first) *)
(*   "cont"    runLoop, inside an iteration (popping continuations)        *)
(*   "notify"  setExitValue, calling the observers                         *)
(*   "finally" the finally block of start                                  *)
(*                                                                         *)
(* A user program is any program: wherever the code evaluates an effect    *)
(* the library did not build, the effect is Prog, and Prog may turn into   *)
(* any of the operations named in Ops, at most Fuel[f] times per fiber.    *)
(***************************************************************************)
EXTENDS Naturals, Sequences, FiniteSets

CONSTANTS
  Fiber,          \* identities of fibers
  NoFiber,        \* FiberId.none
  Root,           \* the fiber that Runtime.unsafeFork starts
  Ops,            \* the operations programs are made of
  Fuel,           \* Fuel[f]: how many of them fiber f may perform
  CooperativeYielding,  \* the fibers whose flags have the flag of that name
  MaxInterrupts   \* how many interruptions come from outside any fiber

AllOps == {"flatMap", "catchAll", "region", "onExit", "async", "yield",
           "forcedYield", "fork", "daemon", "interrupt", "await", "complete"}

ASSUME FiberAssumption == NoFiber \notin Fiber /\ Root \in Fiber
ASSUME BoundAssumption ==
  /\ Ops \subseteq AllOps
  /\ Fuel \in [Fiber -> Nat]
  /\ CooperativeYielding \subseteq Fiber
  /\ MaxInterrupts \in Nat

----------------------------------------------------------------------------
(* Data: exits, effects, continuations, messages, observers.               *)

\* A cause is reduced to the kinds of failure it holds.
Cause == SUBSET {"Fail", "Interrupt"}
Exit  == [ok : BOOLEAN, cause : Cause]

Ok           == [ok |-> TRUE, cause |-> {}]
Failed(c)    == [ok |-> FALSE, cause |-> c]
Interrupted  == {"Interrupt"}

\* An effect: what runLoop evaluates next, the primitive it has come to.  Prog is
\* whichever the program goes on with: of those that run within one step (Sync,
\* Tag, While, ...) only what they leave on the stack is seen.  The value of a
\* Success is only looked at when it is an exit (the result of core.step).
Prog           == [op |-> "Prog"]
Yield          == [op |-> "Yield"]
Success(v)     == [op |-> "Success", value |-> v]
Failure(c)     == [op |-> "Failure", cause |-> c]
Await(g)       == [op |-> "Await", of |-> g]
AwaitAsync(g)  == [op |-> "AwaitAsync", of |-> g]
Region(on, b)  == [op |-> "Region", enable |-> on, body |-> b]
Join(rest, e)  == [op |-> "Join", rest |-> rest, exit |-> e]

Body   == [op : {"Prog"}] \cup [op : {"AwaitAsync"}, of : Fiber]
Effect == Body \cup [op : {"Yield"}]
               \cup [op : {"Success"}, value : Exit]
               \cup [op : {"Failure"}, cause : Cause]
               \cup [op : {"Await"}, of : Fiber]
               \cup [op : {"Region"}, enable : BOOLEAN, body : Body]
               \cup [op : {"Join"}, rest : SUBSET Fiber, exit : Exit]

ExitEffectRaw(e) == e   \* mutant: the exit, not the effect that ends with it
ExitEffect(e) == IF e.ok THEN Success(Ok) ELSE Failure(e.cause)
Unit          == Success(Ok)

\* The cleanup given to onExit: a user finalizer, or the canceler that
\* asyncInterrupt installs for the async operation `id' awaiting fiber `of'.
Handler == [kind : {"finalizer"}, n : Nat]
             \cup [kind : {"canceler"}, of : Fiber, id : Nat]

\* A continuation.  "Continue" is flatMap(_, _continue) of the masks; "OnStep"
\* is core.step when wrap, flatMapStep(_, _continue) otherwise; "Cleanup" and
\* "AfterCleanup" are the two matchCauseEffect of onExit.
Frame == [tag : {"OnSuccess"}, k : Effect]
           \cup [tag : {"Continue", "OnFailure"}]
           \cup [tag : {"OnStep"}, wrap : BOOLEAN]
           \cup [tag : {"Revert"}, active : BOOLEAN, enabled : BOOLEAN]
           \cup [tag : {"Cleanup"}, h : Handler]
           \cup [tag : {"AfterCleanup"}, cause : Cause]

InterruptSignal   == [tag |-> "InterruptSignal"]
YieldNow          == [tag |-> "YieldNow"]
Resume(e)         == [tag |-> "Resume", effect |-> e]
AddChild(c)       == [tag |-> "AddChild", child |-> c]
Observe(g, i)     == [tag |-> "Observe", by |-> g, id |-> i]
Unobserve(g, i)   == [tag |-> "Unobserve", by |-> g, id |-> i]

\* Stateful messages are told apart by what their closure does.
Message == [tag : {"InterruptSignal", "YieldNow"}]
             \cup [tag : {"Resume"}, effect : Effect]
             \cup [tag : {"AddChild"}, child : Fiber]
             \cup [tag : {"Observe", "Unobserve"}, by : Fiber, id : Nat]

\* An observer: the callback of an awaiting fiber, or fiberScope's closure
\* that removes the fiber from its parent's children.
Observer == [kind : {"await"}, by : Fiber, id : Nat]
              \cup [kind : {"child"}, parent : Fiber]
----------------------------------------------------------------------------

VARIABLES
  current,       \* the fiber that has the thread
  pc,            \* where it is
  entry,         \* "run" or "start": how it got the thread
  cur,           \* the effect runLoop evaluates
  next,          \* the observer setExitValue calls next
  status,        \* "new", "live" or "done" (exitValue is set)
  mailbox,       \* _queue
  running,       \* _running
  runs,          \* scheduled tasks that will call run
  stack,         \* _stack, the top last
  interruption,  \* the Interruption bit of _runtimeFlags
  windDown,      \* its WindDown bit
  interruptor,   \* _asyncInterruptor: the id of its callback, 0 for null
  asyncs,        \* how many async operations were initiated
  called,        \* the ids of those whose callback was called
  blockingOn,    \* _asyncBlockingOn
  interrupted,   \* currentInterruptedCause is not empty
  children,      \* _children
  observers,     \* _observers
  exit,          \* _exitValue
  fuel,          \* what is left of Fuel
  signals,       \* interruptions that came from outside
  parent,        \* history: the fiber whose scope a fiber was forked in
  flags0,        \* history: the Interruption bit a fiber was born with
  opened,        \* history: how many finalizers onExit installed
  ran            \* history: the finalizers run, in order

thread  == <<current, pc, entry, cur, next>>
machine == <<stack, interruption, windDown>>
async   == <<interruptor, asyncs, called, blockingOn>>
family  == <<status, children, observers, exit, parent, flags0>>
inbox   == <<mailbox, running, runs>>
bounds  == <<fuel, signals>>
history == <<opened, ran>>
vars    == <<thread, machine, async, family, inbox, bounds, history, interrupted>>

----------------------------------------------------------------------------
(* Reading and writing a fiber.                                            *)

Interruptible(f) == interruption[f] /\ ~windDown[f]
MustDie(f)       == Interruptible(f) /\ interrupted[f]

Top(f)      == stack[f][Len(stack[f])]
Popped(f)   == SubSeq(stack[f], 1, Len(stack[f]) - 1)
Push(f, fr) == stack' = [stack EXCEPT ![f] = Append(@, fr)]
Pop(f)      == stack' = [stack EXCEPT ![f] = Popped(f)]
Empty(f)    == stack[f] = <<>>

\* tell: append to each mailbox, and schedule a run of the fibers that do
\* not run already.
Tell(box, msgs) ==
  LET woken == {g \in Fiber : msgs[g] # <<>> /\ ~running[g]}
  IN  /\ mailbox' = [g \in Fiber |-> box[g] \o msgs[g]]
      /\ running' = [g \in Fiber |-> running[g] \/ g \in woken]
      /\ runs' = [g \in Fiber |-> IF g \in woken THEN runs[g] + 1 ELSE runs[g]]

Nothing    == [g \in Fiber |-> <<>>]
To(f, m)   == [g \in Fiber |-> IF g = f THEN <<m>> ELSE <<>>]
ToAll(S, m) == [g \in Fiber |-> IF g \in S THEN <<m>> ELSE <<>>]

\* The callback initiateAsync builds for async operation i of f: only its first
\* call has an effect (in the mutant, every call).
ResumptionAgain(f, i, e) == To(f, Resume(e))
Resumption(f, i, e) == IF i \in called[f] THEN Nothing ELSE To(f, Resume(e))
MarkCalled(f, i)    == called' = [called EXCEPT ![f] = @ \cup {i}]

Box(f, q) == [mailbox EXCEPT ![f] = q]

GoTo(p, e) == pc' = p /\ cur' = e /\ UNCHANGED <<current, entry, next>>
Release    == /\ current' = NoFiber /\ pc' = "idle" /\ cur' = Unit
              /\ entry' = "run" /\ next' = 0

\* Where control goes when evaluateEffect returns.
AfterEvaluate == IF entry = "start" THEN "finally" ELSE "drain"
----------------------------------------------------------------------------
(* Getting and giving up the thread.                                       *)

\* Runtime.unsafeFork: a root fiber is started on the current thread.
StartRoot ==
  /\ current = NoFiber /\ status[Root] = "new"
  /\ current' = Root /\ entry' = "start" /\ pc' = "loop" /\ cur' = Prog /\ next' = 0
  /\ status' = [status EXCEPT ![Root] = "live"]
  /\ running' = [running EXCEPT ![Root] = TRUE]
  /\ UNCHANGED <<mailbox, runs, children, observers, exit, parent, flags0>>
  /\ UNCHANGED <<machine, async, bounds, history, interrupted>>

\* The finally block of start: `running' is reset, and a run is scheduled for
\* the messages that are left without setting it again.
Finally(f) ==
  /\ current = f /\ pc = "finally"
  /\ running' = [running EXCEPT ![f] = FALSE]
  /\ runs' = [runs EXCEPT ![f] = IF mailbox[f] = <<>> THEN @ ELSE @ + 1]
  /\ Release
  /\ UNCHANGED <<mailbox, machine, async, family, bounds, history, interrupted>>

\* The scheduler runs a task.  Fibers have scheduling priorities of their own,
\* so any scheduled task may be the next.
Run(f) ==
  /\ current = NoFiber /\ runs[f] > 0
  /\ runs' = [runs EXCEPT ![f] = @ - 1]
  /\ current' = f /\ entry' = "run" /\ pc' = "drain" /\ cur' = Unit /\ next' = 0
  /\ UNCHANGED <<mailbox, running, machine, async, family, bounds, history, interrupted>>

Draining(f) == current = f /\ pc = "drain"
HeadIs(f, t) == mailbox[f] # <<>> /\ Head(mailbox[f]).tag = t

\* No message is left: the drain ends.
DrainDone(f) ==
  /\ Draining(f) /\ mailbox[f] = <<>>
  /\ running' = [running EXCEPT ![f] = FALSE]
  /\ Release
  /\ UNCHANGED <<mailbox, runs, machine, async, family, bounds, history, interrupted>>

\* Mutant of DrainYieldNow: what arrived during the drain is not rescheduled.
DrainYieldNowForgets(f) ==
  /\ Draining(f) /\ HeadIs(f, "YieldNow")
  /\ mailbox' = Box(f, Tail(mailbox[f]))
  /\ running' = [running EXCEPT ![f] = FALSE]
  /\ Release
  /\ UNCHANGED <<runs, machine, async, family, bounds, history, interrupted>>

\* A YieldNow message: the thread is given up, and what is left of the mailbox
\* is drained by a later task.
DrainYieldNow(f) ==
  /\ Draining(f) /\ HeadIs(f, "YieldNow")
  /\ LET rest == Tail(mailbox[f]) IN
       /\ mailbox' = Box(f, rest)
       /\ running' = [running EXCEPT ![f] = rest # <<>>]
       /\ runs' = [runs EXCEPT ![f] = IF rest = <<>> THEN @ ELSE @ + 1]
  /\ Release
  /\ UNCHANGED <<machine, async, family, bounds, history, interrupted>>

\* An InterruptSignal reaches a suspended fiber: it is passed on to the
\* children, and a pending interruptible operation is resumed with the cause.
DrainInterrupt(f) ==
  /\ Draining(f) /\ HeadIs(f, "InterruptSignal")
  /\ interrupted' = [interrupted EXCEPT ![f] = TRUE]
  /\ LET i     == interruptor[f]
         wake  == IF i = 0 THEN Nothing ELSE Resumption(f, i, Failure(Interrupted))
         signal == ToAll(children[f], InterruptSignal)
     IN  /\ Tell(Box(f, Tail(mailbox[f])), [g \in Fiber |-> signal[g] \o wake[g]])
         /\ IF i = 0 THEN UNCHANGED called ELSE MarkCalled(f, i)
  /\ interruptor' = [interruptor EXCEPT ![f] = 0]
  /\ UNCHANGED <<thread, machine, asyncs, blockingOn, family, bounds, history>>

\* A Resume: evaluateEffect starts the run loop, with the interruption instead
\* of the effect when the fiber was interrupted and may be.
DrainResume(f) ==
  /\ Draining(f) /\ HeadIs(f, "Resume")
  /\ mailbox' = Box(f, Tail(mailbox[f]))
  /\ interruptor' = [interruptor EXCEPT ![f] = 0]
  /\ blockingOn' = [blockingOn EXCEPT ![f] = NoFiber]
  /\ GoTo("loop", IF MustDie(f) THEN Failure(Interrupted) ELSE Head(mailbox[f]).effect)
  /\ UNCHANGED <<running, runs, machine, asyncs, called, family, bounds, history, interrupted>>

\* unsafeRemoveObserver: a closure occurs at most once among the observers.
Without(s, o) ==
  IF \E i \in DOMAIN s : s[i] = o
  THEN LET i == CHOOSE j \in DOMAIN s : s[j] = o IN SubSeq(s, 1, i - 1) \o SubSeq(s, i + 1, Len(s))
  ELSE s

\* What the closure of a Stateful message does on fiber f.
Stateful(f, m) ==
  LET box == Box(f, Tail(mailbox[f])) IN
  \/ /\ m.tag = "AddChild"
     /\ children' = [children EXCEPT ![f] =
                       IF status[m.child] = "done" THEN @ \ {m.child} ELSE @ \cup {m.child}]
     /\ observers' = IF status[m.child] = "done" THEN observers
                     ELSE [observers EXCEPT ![m.child] =
                             Append(@, [kind |-> "child", parent |-> f])]
     /\ Tell(box, Nothing)
     /\ UNCHANGED called
  \/ /\ m.tag = "Observe" /\ status[f] = "done"
     /\ Tell(box, Resumption(m.by, m.id, Unit))
     /\ MarkCalled(m.by, m.id)
     /\ UNCHANGED <<children, observers>>
  \/ /\ m.tag = "Observe" /\ status[f] # "done"
     /\ observers' = [observers EXCEPT ![f] =
                        Append(@, [kind |-> "await", by |-> m.by, id |-> m.id])]
     /\ Tell(box, Nothing)
     /\ UNCHANGED <<children, called>>
  \/ /\ m.tag = "Unobserve"
     /\ observers' = [observers EXCEPT ![f] =
                        Without(@, [kind |-> "await", by |-> m.by, id |-> m.id])]
     /\ Tell(box, Nothing)
     /\ UNCHANGED <<children, called>>

IsStateful(f) == /\ mailbox[f] # <<>>
                 /\ Head(mailbox[f]).tag \in {"AddChild", "Observe", "Unobserve"}

DrainStateful(f) ==
  /\ Draining(f) /\ IsStateful(f)
  /\ Stateful(f, Head(mailbox[f]))
  /\ UNCHANGED <<thread, machine, interruptor, asyncs, blockingOn, bounds, history>>
  /\ UNCHANGED <<status, exit, parent, flags0, interrupted>>

----------------------------------------------------------------------------
(* runLoop: the mailbox is drained before every operation.  A Resume or a  *)
(* YieldNow is not expected there (the code throws on the first); that     *)
(* they never are is the invariant SingleRunLoop.                          *)

Looping(f) == current = f /\ pc = "loop"
Ready(f)   == Looping(f) /\ mailbox[f] = <<>>

LoopInterrupt(f) ==
  /\ Looping(f) /\ HeadIs(f, "InterruptSignal")
  /\ interrupted' = [interrupted EXCEPT ![f] = TRUE]
  /\ Tell(Box(f, Tail(mailbox[f])), ToAll(children[f], InterruptSignal))
  /\ GoTo("loop", IF Interruptible(f) THEN Failure(Interrupted) ELSE cur)
  /\ UNCHANGED <<machine, async, family, bounds, history>>

LoopStateful(f) ==
  /\ Looping(f) /\ IsStateful(f)
  /\ Stateful(f, Head(mailbox[f]))
  /\ UNCHANGED <<thread, machine, interruptor, asyncs, blockingOn, bounds, history>>
  /\ UNCHANGED <<status, exit, parent, flags0, interrupted>>

\* currentMaxFiberOps operations were evaluated: yield, then go on with cur.
ForcedYield(f) ==
  /\ Ready(f) /\ "forcedYield" \in Ops /\ fuel[f] > 0
  /\ Push(f, [tag |-> "OnSuccess", k |-> cur])
  /\ GoTo("loop", Yield)
  /\ fuel' = [fuel EXCEPT ![f] = @ - 1]
  /\ UNCHANGED <<interruption, windDown, inbox, async, family, signals, history, interrupted>>
----------------------------------------------------------------------------
(* What a program may do.                                                  *)

Chooses(f, o) == /\ Ready(f) /\ cur = Prog /\ o \in Ops /\ fuel[f] > 0
                 /\ fuel' = [fuel EXCEPT ![f] = @ - 1]
                 /\ UNCHANGED signals

Finish(f) ==
  /\ Ready(f) /\ cur = Prog
  /\ \E e \in {Unit, Failure({"Fail"})} : GoTo("cont", e)
  /\ UNCHANGED <<machine, inbox, async, family, bounds, history, interrupted>>

FlatMap(f) ==
  /\ Chooses(f, "flatMap")
  /\ Push(f, [tag |-> "OnSuccess", k |-> Prog])
  /\ GoTo("loop", Prog)
  /\ UNCHANGED <<interruption, windDown, inbox, async, family, history, interrupted>>

CatchAll(f) ==
  /\ Chooses(f, "catchAll")
  /\ Push(f, [tag |-> "OnFailure"])
  /\ GoTo("loop", Prog)
  /\ UNCHANGED <<interruption, windDown, inbox, async, family, history, interrupted>>

\* interruptible and uninterruptible
EnterRegion(f) ==
  /\ Chooses(f, "region")
  /\ \E on \in BOOLEAN : GoTo("loop", Region(on, Prog))
  /\ UNCHANGED <<machine, inbox, async, family, history, interrupted>>

\* The flags of a region.  The frame undoes exactly what the update changed
\* (the mutant has the arguments of diff the wrong way round).
RevertToNew(f, on) == [tag |-> "Revert", active |-> interruption[f] # on, enabled |-> on]
Revert(f, on) == [tag |-> "Revert", active |-> interruption[f] # on,
                  enabled |-> interruption[f]]
OnStep(wrap)  == [tag |-> "OnStep", wrap |-> wrap]

\* uninterruptibleMask(restore => matchCauseEffect(restore(body), h)), as in onExit
Mask(f, h, body) ==
  /\ stack' = [stack EXCEPT ![f] = @ \o << [tag |-> "Continue"], Revert(f, FALSE),
                                           OnStep(TRUE), [tag |-> "Cleanup", h |-> h] >>]
  /\ interruption' = [interruption EXCEPT ![f] = FALSE]
  /\ GoTo("loop", Region(interruption[f], body))

OnExit(f) ==
  /\ Chooses(f, "onExit")
  /\ Mask(f, [kind |-> "finalizer", n |-> opened[f] + 1], Prog)
  /\ opened' = [opened EXCEPT ![f] = @ + 1]
  /\ UNCHANGED <<windDown, inbox, async, family, ran, interrupted>>

\* initiateAsync
Initiate(f, on) ==
  /\ asyncs' = [asyncs EXCEPT ![f] = @ + 1]
  /\ interruptor' = [interruptor EXCEPT ![f] = IF Interruptible(f) THEN asyncs[f] + 1 ELSE @]
  /\ blockingOn' = [blockingOn EXCEPT ![f] = on]
  /\ GoTo(AfterEvaluate, Unit)

\* An operation whose callback somebody outside the fiber holds; it may also
\* be called while it is being registered.
SuspendAsync(f) ==
  /\ Chooses(f, "async")
  /\ Initiate(f, NoFiber)
  /\ \/ Tell(mailbox, Nothing) /\ UNCHANGED called
     \/ Tell(mailbox, To(f, Resume(Unit))) /\ MarkCalled(f, asyncs[f] + 1)
  /\ UNCHANGED <<machine, family, history, interrupted>>

YieldOp(f) ==
  /\ Chooses(f, "yield")
  /\ GoTo("loop", Yield)
  /\ UNCHANGED <<machine, inbox, async, family, history, interrupted>>

\* unsafeFork: the child inherits the flags; unless it is a daemon, the parent
\* tells itself to adopt it.
Fork(f) ==
  \E c \in Fiber, daemon \in BOOLEAN :
    /\ Chooses(f, IF daemon THEN "daemon" ELSE "fork")
    /\ status[c] = "new" /\ c # Root
    /\ status' = [status EXCEPT ![c] = "live"]
    /\ interruption' = [interruption EXCEPT ![c] = interruption[f]]
    /\ windDown' = [windDown EXCEPT ![c] = windDown[f]]
    /\ flags0' = [flags0 EXCEPT ![c] = interruption[f]]
    /\ parent' = [parent EXCEPT ![c] = IF daemon THEN NoFiber ELSE f]
    /\ LET adopt == IF daemon THEN Nothing ELSE To(f, AddChild(c)) IN
         Tell(mailbox, [g \in Fiber |-> adopt[g] \o To(c, Resume(Prog))[g]])
    /\ GoTo("loop", Unit)
    /\ UNCHANGED <<stack, async, children, observers, exit, history, interrupted>>

\* interruptAsFork: a sync effect, its continuation runs in the same iteration
InterruptAsFork(f) ==
  \E g \in Fiber :
    /\ Chooses(f, "interrupt")
    /\ status[g] # "new"
    /\ Tell(mailbox, To(g, InterruptSignal))
    /\ GoTo("cont", Unit)
    /\ UNCHANGED <<machine, async, family, history, interrupted>>

AwaitOp(f) ==
  \E g \in Fiber \ {f} :
    /\ Chooses(f, "await")
    /\ status[g] # "new"
    /\ GoTo("loop", Await(g))
    /\ UNCHANGED <<machine, inbox, async, family, history, interrupted>>

\* The program calls the callback of an operation fiber g suspended on.
HoldsCallback(g) == status[g] # "new" /\ asyncs[g] > 0 /\ blockingOn[g] = NoFiber

Complete(f) ==
  \E g \in Fiber \ {f} :
    /\ Chooses(f, "complete")
    /\ HoldsCallback(g)
    /\ Tell(mailbox, Resumption(g, asyncs[g], Unit))
    /\ MarkCalled(g, asyncs[g])
    /\ GoTo("cont", Unit)
    /\ UNCHANGED <<machine, interruptor, asyncs, blockingOn, family, history, interrupted>>
----------------------------------------------------------------------------
(* Effects the library builds.                                             *)

EvalYield(f) ==
  /\ Ready(f) /\ cur = Yield
  /\ IF f \in CooperativeYielding
     THEN /\ Tell(mailbox, [g \in Fiber |-> IF g = f THEN <<YieldNow, Resume(Unit)>> ELSE <<>>])
          /\ GoTo(AfterEvaluate, Unit)
     ELSE GoTo("loop", Unit) /\ UNCHANGED inbox
  /\ UNCHANGED <<machine, async, family, bounds, history, interrupted>>

\* Mutant of EvalRegion: it does not look for interruption before it starts the body.
EvalRegionBlindly(f) ==
  /\ Ready(f) /\ cur.op = "Region"
  /\ stack' = [stack EXCEPT ![f] = @ \o <<Revert(f, cur.enable), OnStep(FALSE)>>]
  /\ interruption' = [interruption EXCEPT ![f] = cur.enable]
  /\ GoTo("loop", cur.body)
  /\ UNCHANGED <<windDown, inbox, async, family, bounds, history, interrupted>>

\* OP_UPDATE_RUNTIME_FLAGS, with the OnStep of the region's body
EvalRegion(f) ==
  /\ Ready(f) /\ cur.op = "Region"
  /\ IF cur.enable /\ ~windDown[f] /\ interrupted[f]
     THEN GoTo("loop", Failure(Interrupted)) /\ UNCHANGED machine
     ELSE /\ stack' = [stack EXCEPT ![f] = @ \o <<Revert(f, cur.enable), OnStep(FALSE)>>]
          /\ interruption' = [interruption EXCEPT ![f] = cur.enable]
          /\ GoTo("loop", cur.body)
          /\ UNCHANGED windDown
  /\ UNCHANGED <<inbox, async, family, bounds, history, interrupted>>

\* Fiber.await: asyncInterrupt with an observer of the other fiber
EvalAwait(f) ==
  /\ Ready(f) /\ cur.op = "Await"
  /\ Mask(f, [kind |-> "canceler", of |-> cur.of, id |-> asyncs[f] + 1], AwaitAsync(cur.of))
  /\ UNCHANGED <<windDown, inbox, async, family, bounds, history, interrupted>>

EvalAwaitAsync(f) ==
  /\ Ready(f) /\ cur.op = "AwaitAsync"
  /\ Initiate(f, cur.of)
  /\ Tell(mailbox, To(cur.of, Observe(f, asyncs[f] + 1)))
  /\ UNCHANGED <<machine, called, family, bounds, history, interrupted>>

\* interruptAllChildren: await each child, then end with the exit
EvalJoin(f) ==
  /\ Ready(f) /\ cur.op = "Join"
  /\ \/ /\ cur.rest = {}
        /\ GoTo("loop", ExitEffect(cur.exit))
        /\ UNCHANGED stack
     \/ \E c \in cur.rest :
          /\ Push(f, [tag |-> "OnSuccess", k |-> Join(cur.rest \ {c}, cur.exit)])
          /\ GoTo("loop", Await(c))
  /\ UNCHANGED <<interruption, windDown, inbox, async, family, bounds, history, interrupted>>

----------------------------------------------------------------------------
(* Continuations: getNextSuccessCont, getNextFailCont and what OP_SUCCESS   *)
(* and OP_FAILURE do with the frame they return.                            *)

Evaluating(f, o) == /\ current = f /\ cur.op = o
                    /\ pc = "cont" \/ (pc = "loop" /\ mailbox[f] = <<>>)
TopIs(f, t) == ~Empty(f) /\ Top(f).tag = t

\* A frame that OP_SUCCESS, or OP_FAILURE, pops and looks past.
Skip(f, tags) ==
  /\ ~Empty(f) /\ Top(f).tag \in tags
  /\ Pop(f) /\ GoTo("cont", cur)
  /\ UNCHANGED <<interruption, windDown>>

\* The frame is used: e is evaluated in the next iteration.
Use(f, t, e) ==
  /\ TopIs(f, t)
  /\ Pop(f) /\ GoTo("loop", e)
  /\ UNCHANGED <<interruption, windDown>>

Reverted(f) == IF Top(f).active THEN Top(f).enabled ELSE interruption[f]

\* OP_REVERT_FLAGS: the flags are reverted first, then interruption is looked for
UseRevert(f, onInterrupt, otherwise) ==
  /\ TopIs(f, "Revert")
  /\ Pop(f)
  /\ interruption' = [interruption EXCEPT ![f] = Reverted(f)]
  /\ GoTo("loop", IF Reverted(f) /\ ~windDown[f] /\ interrupted[f]
                  THEN onInterrupt ELSE otherwise)
  /\ UNCHANGED windDown

\* onExit's cleanup begins: a finalizer is a program of its own, a canceler
\* of an operation that was initiated withdraws the observer.
CleanupStarts(f, h) ==
  IF h.kind = "finalizer" THEN ran' = [ran EXCEPT ![f] = Append(@, h.n)] ELSE UNCHANGED ran

EvalSuccess(f) ==
  /\ Evaluating(f, "Success") /\ ~TopIs(f, "Cleanup")
  /\ \/ Skip(f, {"OnFailure"})
     \/ Use(f, "OnSuccess", Top(f).k)
     \/ Use(f, "Continue", ExitEffect(cur.value))
     \/ Use(f, "OnStep", IF Top(f).wrap THEN Success(Ok) ELSE Unit)
     \/ Use(f, "AfterCleanup", Failure(Top(f).cause))
     \/ UseRevert(f, Failure(Interrupted), cur)
  /\ UNCHANGED <<inbox, async, family, bounds, history, interrupted>>

\* onExit, the body succeeded: the cleanup, then the result
CleanupAfterSuccess(f) ==
  /\ Evaluating(f, "Success") /\ TopIs(f, "Cleanup")
  /\ LET h == Top(f).h IN
       /\ CleanupStarts(f, h)
       /\ IF h.kind = "finalizer"
          THEN /\ stack' = [stack EXCEPT ![f] = Append(Popped(f), [tag |-> "OnSuccess", k |-> Unit])]
               /\ GoTo("loop", Prog)
          ELSE Pop(f) /\ GoTo("loop", Unit)
  /\ UNCHANGED <<interruption, windDown, inbox, async, family, bounds, opened, interrupted>>

\* A handler of failures is used only by a fiber that need not die.
Handle(f, e) == IF MustDie(f) THEN Failure(cur.cause \ {"Fail"}) ELSE e

EvalFailure(f) ==
  /\ Evaluating(f, "Failure") /\ ~TopIs(f, "Cleanup")
  /\ \/ Skip(f, {"OnSuccess", "Continue"})
     \/ Use(f, "OnFailure", Handle(f, Prog))
     \/ Use(f, "OnStep", Handle(f, IF Top(f).wrap THEN Success(Failed(cur.cause)) ELSE cur))
     \/ Use(f, "AfterCleanup", Handle(f, Failure(Top(f).cause \cup cur.cause)))
     \/ UseRevert(f, Failure(cur.cause \cup Interrupted), cur)
  /\ UNCHANGED <<inbox, async, family, bounds, history, interrupted>>

\* onExit, the body failed: the cleanup, then the cause
CleanupAfterFailure(f) ==
  /\ Evaluating(f, "Failure") /\ TopIs(f, "Cleanup")
  /\ LET h == Top(f).h
         canceling == h.kind = "canceler" /\ cur.cause \subseteq Interrupted
                        /\ asyncs[f] >= h.id
     IN IF MustDie(f)
        THEN Pop(f) /\ GoTo("loop", Handle(f, cur)) /\ UNCHANGED <<inbox, ran>>
        ELSE /\ CleanupStarts(f, h)
             /\ IF h.kind = "finalizer"
                THEN /\ stack' = [stack EXCEPT ![f] =
                                    Append(Popped(f), [tag |-> "AfterCleanup", cause |-> cur.cause])]
                     /\ GoTo("loop", Prog)
                ELSE Pop(f) /\ GoTo("loop", cur)
             /\ IF canceling THEN Tell(mailbox, To(h.of, Unobserve(f, h.id)))
                ELSE UNCHANGED inbox
  /\ UNCHANGED <<interruption, windDown, async, family, bounds, opened, interrupted>>
----------------------------------------------------------------------------
(* The end of a fiber: runLoop returned exit e to evaluateEffect.           *)

Leaving(f) == /\ current = f /\ Empty(f) /\ cur.op \in {"Success", "Failure"}
              /\ pc = "cont" \/ (pc = "loop" /\ mailbox[f] = <<>>)
ExitOf(e)  == IF e.op = "Success" THEN Ok ELSE Failed(e.cause)

\* Mutants of LeaveChildren: the children are not waited for, or not interrupted.
LeaveChildrenBehind(f) ==
  /\ Leaving(f) /\ children[f] # {}
  /\ windDown' = [windDown EXCEPT ![f] = TRUE]
  /\ Tell(mailbox, ToAll(children[f], InterruptSignal))
  /\ children' = [children EXCEPT ![f] = {}]
  /\ GoTo("loop", cur)
  /\ UNCHANGED <<stack, interruption, async, status, observers, exit, parent, flags0>>
  /\ UNCHANGED <<bounds, history, interrupted>>
LeaveChildrenAlone(f) ==
  /\ Leaving(f) /\ children[f] # {}
  /\ windDown' = [windDown EXCEPT ![f] = TRUE]
  /\ children' = [children EXCEPT ![f] = {}]
  /\ GoTo("loop", Join(children[f], ExitOf(cur)))
  /\ UNCHANGED <<stack, interruption, async, status, observers, exit, parent, flags0>>
  /\ UNCHANGED <<bounds, history, inbox, interrupted>>

\* Children are interrupted and waited for first ...
LeaveChildren(f) ==
  /\ Leaving(f) /\ children[f] # {}
  /\ windDown' = [windDown EXCEPT ![f] = TRUE]
  /\ Tell(mailbox, ToAll(children[f], InterruptSignal))
  /\ children' = [children EXCEPT ![f] = {}]
  /\ GoTo("loop", Join(children[f], ExitOf(cur)))
  /\ UNCHANGED <<stack, interruption, async, status, observers, exit, parent, flags0>>
  /\ UNCHANGED <<bounds, history, interrupted>>

\* Mutant of LeaveMessages: the exit value is set although messages are left.
LeaveInHaste(f) ==
  /\ Leaving(f) /\ children[f] = {} /\ mailbox[f] # <<>>
  /\ windDown' = [windDown EXCEPT ![f] = TRUE]
  /\ status' = [status EXCEPT ![f] = "done"]
  /\ Tell(mailbox, To(f, Resume(ExitEffect(ExitOf(cur)))))
  /\ GoTo(AfterEvaluate, Unit)
  /\ UNCHANGED <<stack, interruption, async, children, observers, exit, parent, flags0>>
  /\ UNCHANGED <<bounds, history, interrupted>>

\* ... then messages that are left are processed ...
LeaveMessages(f) ==
  /\ Leaving(f) /\ children[f] = {} /\ mailbox[f] # <<>>
  /\ windDown' = [windDown EXCEPT ![f] = TRUE]
  /\ Tell(mailbox, To(f, Resume(ExitEffect(ExitOf(cur)))))
  /\ GoTo(AfterEvaluate, Unit)
  /\ UNCHANGED <<stack, interruption, async, family, bounds, history, interrupted>>

\* setExitValue's loop starts at _observers.length - 1.
LastObserverMissed(f) == IF observers[f] = <<>> THEN 0 ELSE Len(observers[f]) - 1
LastObserver(f) == Len(observers[f])

\* ... then the exit value is set,
SetExitValue(f) ==
  /\ Leaving(f) /\ children[f] = {} /\ mailbox[f] = <<>>
  /\ windDown' = [windDown EXCEPT ![f] = TRUE]
  /\ status' = [status EXCEPT ![f] = "done"]
  /\ exit' = [exit EXCEPT ![f] = ExitOf(cur)]
  /\ pc' = "notify" /\ cur' = Unit /\ next' = LastObserver(f)
  /\ UNCHANGED <<current, entry, stack, interruption, async, children, observers, parent>>
  /\ UNCHANGED <<flags0, inbox, bounds, history, interrupted>>

\* and the observers are called, the last added first.
Notify(f) ==
  /\ current = f /\ pc = "notify" /\ next > 0
  /\ next' = next - 1
  /\ LET o == observers[f][next] IN
       \/ /\ o.kind = "await"
          /\ Tell(mailbox, Resumption(o.by, o.id, Unit))
          /\ MarkCalled(o.by, o.id)
          /\ UNCHANGED children
       \/ /\ o.kind = "child"
          /\ children' = [children EXCEPT ![o.parent] = @ \ {f}]
          /\ UNCHANGED <<inbox, called>>
  /\ UNCHANGED <<current, pc, entry, cur, machine, interruptor, asyncs, blockingOn, status>>
  /\ UNCHANGED <<observers, exit, parent, flags0, bounds, history, interrupted>>

NotifyDone(f) ==
  /\ current = f /\ pc = "notify" /\ next = 0
  /\ GoTo(AfterEvaluate, Unit)
  /\ UNCHANGED <<machine, async, family, inbox, bounds, history, interrupted>>
----------------------------------------------------------------------------
(* Outside any fiber: timers, I/O and other runtimes, between two tasks.    *)

OutsideCompletes(g) ==
  /\ current = NoFiber /\ HoldsCallback(g) /\ "async" \in Ops
  /\ \E e \in {Unit, Failure({"Fail"})} : Tell(mailbox, Resumption(g, asyncs[g], e))
  /\ MarkCalled(g, asyncs[g])
  /\ UNCHANGED <<thread, machine, interruptor, asyncs, blockingOn, family, bounds, history>>
  /\ UNCHANGED interrupted

OutsideInterrupts(g) ==
  /\ current = NoFiber /\ status[g] # "new" /\ signals < MaxInterrupts
  /\ signals' = signals + 1
  /\ Tell(mailbox, To(g, InterruptSignal))
  /\ UNCHANGED <<thread, machine, async, family, fuel, history, interrupted>>
----------------------------------------------------------------------------

Init ==
  /\ current = NoFiber /\ pc = "idle" /\ entry = "run" /\ cur = Unit /\ next = 0
  /\ status = [f \in Fiber |-> "new"]
  /\ mailbox = [f \in Fiber |-> <<>>]
  /\ running = [f \in Fiber |-> FALSE]
  /\ runs = [f \in Fiber |-> 0]
  /\ stack = [f \in Fiber |-> <<>>]
  /\ interruption = [f \in Fiber |-> TRUE]
  /\ windDown = [f \in Fiber |-> FALSE]
  /\ interruptor = [f \in Fiber |-> 0]
  /\ asyncs = [f \in Fiber |-> 0]
  /\ called = [f \in Fiber |-> {}]
  /\ blockingOn = [f \in Fiber |-> NoFiber]
  /\ interrupted = [f \in Fiber |-> FALSE]
  /\ children = [f \in Fiber |-> {}]
  /\ observers = [f \in Fiber |-> <<>>]
  /\ exit = [f \in Fiber |-> Ok]
  /\ fuel = Fuel
  /\ signals = 0
  /\ parent = [f \in Fiber |-> NoFiber]
  /\ flags0 = [f \in Fiber |-> TRUE]
  /\ opened = [f \in Fiber |-> 0]
  /\ ran = [f \in Fiber |-> <<>>]

Program(f) == \/ Finish(f) \/ FlatMap(f) \/ CatchAll(f) \/ EnterRegion(f) \/ OnExit(f)
               \/ SuspendAsync(f) \/ YieldOp(f) \/ Fork(f) \/ InterruptAsFork(f)
               \/ AwaitOp(f) \/ Complete(f)

\* One step of the fiber that has the thread.
Step(f) == \/ Finally(f) \/ DrainDone(f) \/ DrainYieldNow(f) \/ DrainInterrupt(f)
           \/ DrainResume(f) \/ DrainStateful(f)
           \/ LoopInterrupt(f) \/ LoopStateful(f) \/ ForcedYield(f)
           \/ Program(f)
           \/ EvalYield(f) \/ EvalRegion(f) \/ EvalAwait(f) \/ EvalAwaitAsync(f) \/ EvalJoin(f)
           \/ EvalSuccess(f) \/ EvalFailure(f)
           \/ CleanupAfterSuccess(f) \/ CleanupAfterFailure(f)
           \/ LeaveChildren(f) \/ LeaveMessages(f) \/ SetExitValue(f)
           \/ Notify(f) \/ NotifyDone(f)

Outside == \E g \in Fiber : OutsideCompletes(g) \/ OutsideInterrupts(g)

Next == \/ StartRoot \/ Outside
        \/ \E f \in Fiber : Run(f) \/ Step(f)

Spec == Init /\ [][Next]_vars

\* A task keeps the thread until it gives it up, and Scheduler.ts runs every
\* task it was given: starveInternal takes all the buckets and runs each task.
Fairness == /\ \A f \in Fiber : WF_vars(Step(f)) /\ SF_vars(Run(f))

FairSpec == Spec /\ Fairness

----------------------------------------------------------------------------
(* Invariants.                                                             *)

\* Every variable has its type.
TypeOK ==
  /\ current \in Fiber \cup {NoFiber}
  /\ pc \in {"idle", "drain", "loop", "cont", "notify", "finally"}
  /\ entry \in {"run", "start"} /\ cur \in Effect /\ next \in Nat
  /\ status \in [Fiber -> {"new", "live", "done"}]
  /\ mailbox \in [Fiber -> Seq(Message)]
  /\ running \in [Fiber -> BOOLEAN]
  /\ runs \in [Fiber -> Nat]
  /\ stack \in [Fiber -> Seq(Frame)]
  /\ interruption \in [Fiber -> BOOLEAN]
  /\ windDown \in [Fiber -> BOOLEAN]
  /\ interruptor \in [Fiber -> Nat]
  /\ asyncs \in [Fiber -> Nat]
  /\ called \in [Fiber -> SUBSET Nat]
  /\ blockingOn \in [Fiber -> Fiber \cup {NoFiber}]
  /\ interrupted \in [Fiber -> BOOLEAN]
  /\ children \in [Fiber -> SUBSET Fiber]
  /\ observers \in [Fiber -> Seq(Observer)]
  /\ exit \in [Fiber -> Exit]
  /\ fuel \in [Fiber -> Nat] /\ signals \in Nat
  /\ parent \in [Fiber -> Fiber \cup {NoFiber}]
  /\ flags0 \in [Fiber -> BOOLEAN]
  /\ opened \in [Fiber -> Nat] /\ ran \in [Fiber -> Seq(Nat)]

\* No lost wake-up: a fiber that has messages has the thread or will get it
\* (tell, and both ends of a drain, schedule a run when they must).
NoLostWakeup ==
  \A f \in Fiber : mailbox[f] # <<>> /\ current # f => runs[f] > 0

\* "It is illegal to have multiple concurrent run loops in a single fiber":
\* while a run loop is active its mailbox holds no Resume and no YieldNow.
SingleRunLoop ==
  \A f \in Fiber : Looping(f) =>
    \A i \in DOMAIN mailbox[f] : mailbox[f][i].tag \notin {"Resume", "YieldNow"}

\* A fiber is resumed at most once per suspension, and never while it runs or
\* after its end: otherwise it would run a continuation twice or set its exit
\* value twice.
ResumedOnce ==
  /\ SingleRunLoop
  /\ \A f \in Fiber : \A i, j \in DOMAIN mailbox[f] :
       mailbox[f][i].tag = "Resume" =>
         /\ status[f] # "done"
         /\ mailbox[f][j].tag = "Resume" => i = j

\* Once interruption reached a fiber, no step of its program is taken in an
\* interruptible region, however the fiber suspends, yields or changes regions.
InterruptionStops ==
  \A f \in Fiber : Looping(f) /\ cur = Prog => ~MustDie(f)

\* Every finalizer that onExit installed ran exactly once before the exit.
FinalizersRan ==
  \A f \in Fiber : status[f] = "done" =>
    /\ Len(ran[f]) = opened[f]
    /\ \A n \in 1..opened[f] : \E i \in 1..Len(ran[f]) : ran[f][i] = n

\* Structured concurrency: a fiber's exit is only visible when every fiber
\* forked in its scope has ended.
ChildrenEndFirst ==
  \A c \in Fiber : parent[c] # NoFiber /\ status[parent[c]] = "done" => status[c] = "done"

\* Regions nest: whatever regions a program entered, and however it left them,
\* the fiber ends with the flags it was born with.
RegionsReverted ==
  \A f \in Fiber : status[f] = "done" => interruption[f] = flags0[f]

\* A fiber that waits for another fiber is known to it, or about to be: no
\* order of await, exit and interruption loses the waiter.
AwaitersKnown ==
  \A f \in Fiber : LET g == blockingOn[f] IN
    g # NoFiber /\ asyncs[f] \notin called[f] =>
      \/ \E i \in DOMAIN mailbox[g] : mailbox[g][i] = Observe(f, asyncs[f])
      \/ \E i \in DOMAIN observers[g] :
           /\ observers[g][i] = [kind |-> "await", by |-> f, id |-> asyncs[f]]
           /\ status[g] # "done" \/ (current = g /\ pc = "notify" /\ i <= next)

\* stripFailures never leaves an exit with no cause at all.
CausesNotEmpty ==
  /\ cur.op = "Failure" => cur.cause # {}
  /\ \A f \in Fiber : status[f] = "done" /\ ~exit[f].ok => exit[f].cause # {}

\* However a fiber ends, it has run its finalizers, has left its regions and
\* says why it failed.
EndsInOrder == FinalizersRan /\ RegionsReverted /\ CausesNotEmpty
----------------------------------------------------------------------------
(* Action and liveness properties.                                         *)

\* An exit value is set once and never changes.
ExitIsFinal ==
  [][\A f \in Fiber : status[f] = "done" => status'[f] = "done" /\ exit'[f] = exit[f]]_vars

\* A fiber in an uninterruptible region, suspended on something nobody brought.
Uncancelable(g) == /\ status[g] = "live" /\ current # g /\ ~interruption[g] /\ ~windDown[g]
                   /\ asyncs[g] > 0 /\ asyncs[g] \notin called[g]

\* Interruption takes effect: an interrupted fiber ends, with all its children,
\* unless somebody waits uninterruptibly for something that may never come.
InterruptedEnds ==
  \A f \in Fiber : interrupted[f] ~> (status[f] = "done" \/ \E g \in Fiber : Uncancelable(g))

BlockedOnDone(f) == blockingOn[f] # NoFiber /\ status[blockingOn[f]] = "done"

\* An exit reaches every fiber that waits for it.
ExitReachesAwaiters == \A f \in Fiber : BlockedOnDone(f) ~> ~BlockedOnDone(f)
=============================================================================
