------------------------- MODULE FiberRuntimeProofs -------------------------
(***************************************************************************)
(* Theorems about FiberRuntime, for every set of fibers, every program and *)
(* every bound.                                                            *)
(***************************************************************************)
EXTENDS FiberRuntime, SequenceTheorems, FunctionTheorems, FiniteSetTheorems, TLAPS

\* The effects the library builds are effects.
LEMMA EffectConstructors ==
  /\ Prog \in Effect /\ Yield \in Effect /\ Unit \in Effect
  /\ \A v \in Exit : Success(v) \in Effect /\ ExitEffect(v) \in Effect
  /\ \A c \in Cause : Failure(c) \in Effect
  /\ \A g \in Fiber : Await(g) \in Effect /\ AwaitAsync(g) \in Effect /\ AwaitAsync(g) \in Body
  /\ Prog \in Body /\ Body \subseteq Effect
  /\ \A on \in BOOLEAN, b \in Body : Region(on, b) \in Effect
  /\ \A S \in SUBSET Fiber, e \in Exit : Join(S, e) \in Effect
  BY DEF Effect, Prog, Yield, Unit, Ok, Success, ExitEffect, Exit, Cause, Failure, Await,
         AwaitAsync, Body, Region, Join

\* What an effect of each kind carries.
LEMMA EffectParts ==
  ASSUME NEW e \in Effect
  PROVE  /\ e.op = "Success" => e.value \in Exit
         /\ e.op = "Failure" => e.cause \in Cause
         /\ e.op = "Await" => e.of \in Fiber
         /\ e.op = "AwaitAsync" => e.of \in Fiber
         /\ e.op = "Region" => e.enable \in BOOLEAN /\ e.body \in Body
         /\ e.op = "Join" => e.rest \in SUBSET Fiber /\ e.exit \in Exit
  BY DEF Effect, Body

\* Exits and causes.
LEMMA ExitConstructors ==
  /\ Ok \in Exit /\ Interrupted \in Cause /\ {"Fail"} \in Cause
  /\ \A c \in Cause : Failed(c) \in Exit /\ c \ {"Fail"} \in Cause /\ c \cup Interrupted \in Cause
  /\ \A c, d \in Cause : c \cup d \in Cause
  /\ \A e \in Exit : e.cause \in Cause
  BY DEF Ok, Exit, Cause, Interrupted, Failed

\* Continuations are frames, and what a frame of each kind carries.
LEMMA FrameConstructors ==
  /\ \A k \in Effect : [tag |-> "OnSuccess", k |-> k] \in Frame
  /\ [tag |-> "Continue"] \in Frame /\ [tag |-> "OnFailure"] \in Frame
  /\ \A w \in BOOLEAN : OnStep(w) \in Frame
  /\ \A a, b \in BOOLEAN : [tag |-> "Revert", active |-> a, enabled |-> b] \in Frame
  /\ \A h \in Handler : [tag |-> "Cleanup", h |-> h] \in Frame
  /\ \A c \in Cause : [tag |-> "AfterCleanup", cause |-> c] \in Frame
  BY DEF Frame, OnStep

\* What the frames of the stack hold.
LEMMA FrameParts ==
  ASSUME NEW r \in Frame
  PROVE  /\ r.tag = "OnSuccess" => r.k \in Effect
         /\ r.tag = "OnStep" => r.wrap \in BOOLEAN
         /\ r.tag = "Revert" => r.active \in BOOLEAN /\ r.enabled \in BOOLEAN
         /\ r.tag = "Cleanup" => r.h \in Handler
         /\ r.tag = "AfterCleanup" => r.cause \in Cause
  BY DEF Frame

\* Messages.
LEMMA MessageConstructors ==
  /\ InterruptSignal \in Message /\ YieldNow \in Message
  /\ \A e \in Effect : Resume(e) \in Message
  /\ \A c \in Fiber : AddChild(c) \in Message
  /\ \A g \in Fiber, i \in Nat : Observe(g, i) \in Message /\ Unobserve(g, i) \in Message
  BY DEF Message, InterruptSignal, YieldNow, Resume, AddChild, Observe, Unobserve

\* What the messages of a mailbox hold.
LEMMA MessageParts ==
  ASSUME NEW m \in Message
  PROVE  /\ m.tag = "Resume" => m.effect \in Effect
         /\ m.tag = "AddChild" => m.child \in Fiber
         /\ m.tag \in {"Observe", "Unobserve"} => m.by \in Fiber /\ m.id \in Nat
  BY DEF Message

\* What handlers are: finalizers and cancelers.
LEMMA HandlerParts ==
  /\ \A n \in Nat : [kind |-> "finalizer", n |-> n] \in Handler
  /\ \A g \in Fiber, i \in Nat : [kind |-> "canceler", of |-> g, id |-> i] \in Handler
  /\ \A h \in Handler : /\ h.kind = "finalizer" => h.n \in Nat
                        /\ h.kind # "finalizer" => h.of \in Fiber /\ h.id \in Nat
  BY DEF Handler

\* What observers are: fibers that await and parents of children.
LEMMA ObserverParts ==
  /\ \A g \in Fiber, i \in Nat : [kind |-> "await", by |-> g, id |-> i] \in Observer
  /\ \A p \in Fiber : [kind |-> "child", parent |-> p] \in Observer
  /\ \A o \in Observer : /\ o.kind = "await" => o.by \in Fiber /\ o.id \in Nat
                         /\ o.kind = "child" => o.parent \in Fiber
  BY DEF Observer
----------------------------------------------------------------------------
(* Sequences and mailboxes.                                                *)

\* Popping a non-empty stack, and its top.
LEMMA PopType ==
  ASSUME NEW S, NEW s \in Seq(S), s # <<>>
  PROVE  SubSeq(s, 1, Len(s) - 1) \in Seq(S) /\ s[Len(s)] \in S
<1>1. Len(s) \in Nat \ {0} /\ \A i \in 1..Len(s) : s[i] \in S
  BY EmptySeq, LenProperties
<1> QED BY <1>1, SubSeqProperties

\* Pushing several frames.
LEMMA PushType ==
  ASSUME NEW S, NEW s \in Seq(S), NEW t \in Seq(S)
  PROVE  s \o t \in Seq(S)
  BY ConcatProperties

\* Removing an observer leaves observers.
LEMMA WithoutType ==
  ASSUME NEW S, NEW s \in Seq(S), NEW o
  PROVE  Without(s, o) \in Seq(S)
<1>1. CASE ~\E i \in DOMAIN s : s[i] = o
  BY <1>1 DEF Without
<1>2. CASE \E i \in DOMAIN s : s[i] = o
  <2> DEFINE i == CHOOSE j \in DOMAIN s : s[j] = o
  <2>1. i \in 1..Len(s) /\ Len(s) \in Nat /\ \A j \in 1..Len(s) : s[j] \in S
    BY <1>2, LenProperties
  <2>4. Without(s, o) = SubSeq(s, 1, i - 1) \o SubSeq(s, i + 1, Len(s))
    BY <1>2 DEF Without
  <2> HIDE DEF i
  <2>2. SubSeq(s, 1, i - 1) \in Seq(S)
    <3>1. 1 \in Int /\ i - 1 \in Int /\ \A j \in 1..(i - 1) : s[j] \in S
      BY <2>1
    <3> QED BY <3>1, SubSeqProperties
  <2>3. SubSeq(s, i + 1, Len(s)) \in Seq(S)
    <3>1. i + 1 \in Int /\ Len(s) \in Int /\ \A j \in (i + 1)..Len(s) : s[j] \in S
      BY <2>1
    <3> QED BY <3>1, SubSeqProperties
  <2> QED BY <2>2, <2>3, <2>4, ConcatProperties
<1> QED BY <1>1, <1>2

\* What tell may be given.
LEMMA MessagesType ==
  /\ Nothing \in [Fiber -> Seq(Message)]
  /\ \A f \in Fiber, m \in Message : To(f, m) \in [Fiber -> Seq(Message)]
  /\ \A S \in SUBSET Fiber, m \in Message : ToAll(S, m) \in [Fiber -> Seq(Message)]
  /\ \A f \in Fiber, i \in Nat, e \in Effect : Resumption(f, i, e) \in [Fiber -> Seq(Message)]
  BY MessageConstructors DEF Nothing, To, ToAll, Resumption

\* Tell keeps the type of the mailboxes and of the scheduler's counts.
LEMMA TellType ==
  ASSUME TypeOK,
         NEW box \in [Fiber -> Seq(Message)], NEW msgs \in [Fiber -> Seq(Message)],
         Tell(box, msgs)
  PROVE  /\ mailbox' \in [Fiber -> Seq(Message)]
         /\ running' \in [Fiber -> BOOLEAN]
         /\ runs' \in [Fiber -> Nat]
<1>1. \A g \in Fiber : box[g] \o msgs[g] \in Seq(Message)
  BY ConcatProperties
<1>2. running \in [Fiber -> BOOLEAN] /\ runs \in [Fiber -> Nat]
  BY DEF TypeOK
<1> QED BY <1>1, <1>2 DEF Tell

\* A mailbox without its first message.
LEMMA BoxType ==
  ASSUME TypeOK, NEW f \in Fiber, mailbox[f] # <<>>
  PROVE  /\ Box(f, Tail(mailbox[f])) \in [Fiber -> Seq(Message)]
         /\ Head(mailbox[f]) \in Message
  BY HeadTailProperties DEF TypeOK, Box

----------------------------------------------------------------------------
(* Type correctness.  TypeOK is proved group by group: an action disturbs   *)
(* few of the groups of variables, and leaves the others as they are.       *)

ThreadOK  == /\ current \in Fiber \cup {NoFiber}
             /\ pc \in {"idle", "drain", "loop", "cont", "notify", "finally"}
             /\ entry \in {"run", "start"} /\ cur \in Effect /\ next \in Nat
InboxOK   == /\ mailbox \in [Fiber -> Seq(Message)]
             /\ running \in [Fiber -> BOOLEAN]
             /\ runs \in [Fiber -> Nat]
MachineOK == /\ stack \in [Fiber -> Seq(Frame)]
             /\ interruption \in [Fiber -> BOOLEAN]
             /\ windDown \in [Fiber -> BOOLEAN]
AsyncOK   == /\ interruptor \in [Fiber -> Nat]
             /\ asyncs \in [Fiber -> Nat]
             /\ called \in [Fiber -> SUBSET Nat]
             /\ blockingOn \in [Fiber -> Fiber \cup {NoFiber}]
FamilyOK  == /\ status \in [Fiber -> {"new", "live", "done"}]
             /\ children \in [Fiber -> SUBSET Fiber]
             /\ observers \in [Fiber -> Seq(Observer)]
             /\ exit \in [Fiber -> Exit]
             /\ parent \in [Fiber -> Fiber \cup {NoFiber}]
             /\ flags0 \in [Fiber -> BOOLEAN]
RestOK    == /\ interrupted \in [Fiber -> BOOLEAN]
             /\ fuel \in [Fiber -> Nat] /\ signals \in Nat
             /\ opened \in [Fiber -> Nat] /\ ran \in [Fiber -> Seq(Nat)]

\* TypeOK is the conjunction of its groups.
LEMMA Groups ==
  TypeOK <=> ThreadOK /\ InboxOK /\ MachineOK /\ AsyncOK /\ FamilyOK /\ RestOK
  BY DEF TypeOK, ThreadOK, InboxOK, MachineOK, AsyncOK, FamilyOK, RestOK

\* The types of the next state, by groups of variables.
LEMMA GroupsNext ==
  TypeOK' <=> ThreadOK' /\ InboxOK' /\ MachineOK' /\ AsyncOK' /\ FamilyOK' /\ RestOK'
  BY DEF TypeOK, ThreadOK, InboxOK, MachineOK, AsyncOK, FamilyOK, RestOK

\* A group that is left alone keeps its type.
LEMMA Unchanged ==
  ASSUME TypeOK
  PROVE  /\ UNCHANGED thread => ThreadOK'
         /\ UNCHANGED inbox => InboxOK'
         /\ UNCHANGED machine => MachineOK'
         /\ UNCHANGED async => AsyncOK'
         /\ UNCHANGED family => FamilyOK'
         /\ UNCHANGED <<bounds, history, interrupted>> => RestOK'
  BY DEF TypeOK, ThreadOK, InboxOK, MachineOK, AsyncOK, FamilyOK, RestOK,
         thread, inbox, machine, async, family, bounds, history

\* The initial state has its type.
LEMMA TypeInit == Init => TypeOK
  BY EffectConstructors, ExitConstructors, EmptySeq, BoundAssumption DEF Init, TypeOK

\* A jump of the run loop to a place of the class.
LEMMA GoToType ==
  ASSUME TypeOK, NEW e \in Effect, NEW p \in {"drain", "loop", "cont", "finally"}, GoTo(p, e)
  PROVE  ThreadOK'
  BY DEF TypeOK, ThreadOK, GoTo

\* Going back to the loop keeps the types.
LEMMA AfterEvaluateType ==
  ASSUME TypeOK, GoTo(AfterEvaluate, Unit)
  PROVE  ThreadOK'
  BY EffectConstructors DEF TypeOK, ThreadOK, GoTo, AfterEvaluate

\* So does giving up the thread,
LEMMA ReleaseType ==
  ASSUME Release
  PROVE  ThreadOK'
  BY EffectConstructors DEF ThreadOK, Release

\* A callback is marked as called.
LEMMA CalledType ==
  ASSUME TypeOK, NEW f \in Fiber, NEW i \in Nat, MarkCalled(f, i)
  PROVE  called' \in [Fiber -> SUBSET Nat]
<1>1. called[f] \cup {i} \in SUBSET Nat
  BY DEF TypeOK
<1> QED BY <1>1 DEF MarkCalled, TypeOK

\* The steps of a drain.
LEMMA TypeDrain ==
  ASSUME TypeOK, NEW f \in Fiber,
         Finally(f) \/ DrainDone(f) \/ DrainYieldNow(f) \/ DrainResume(f) \/ DrainInterrupt(f)
  PROVE  TypeOK'
<1>1. CASE Finally(f)
  <2>1. InboxOK'
    <3>1. running' \in [Fiber -> BOOLEAN] /\ mailbox' \in [Fiber -> Seq(Message)]
      BY <1>1 DEF Finally, TypeOK
    <3>2. runs \in [Fiber -> Nat] /\ runs' = [runs EXCEPT ![f] = IF mailbox[f] = <<>> THEN @ ELSE @ + 1]
      BY <1>1 DEF Finally, TypeOK
    <3>3. runs' \in [Fiber -> Nat]
      BY <3>2
    <3> QED BY <3>1, <3>3 DEF InboxOK
  <2> QED BY <1>1, <2>1, Unchanged, ReleaseType, GroupsNext DEF Finally
<1>2. CASE DrainDone(f)
  <2>1. InboxOK'
    BY <1>2 DEF DrainDone, TypeOK, InboxOK
  <2> QED BY <1>2, <2>1, Unchanged, ReleaseType, GroupsNext DEF DrainDone
<1>3. CASE DrainYieldNow(f)
  <2>1. InboxOK'
    <3>1. mailbox' \in [Fiber -> Seq(Message)]
      BY <1>3, BoxType DEF DrainYieldNow, HeadIs
    <3>2. running' \in [Fiber -> BOOLEAN]
      BY <1>3 DEF DrainYieldNow, TypeOK
    <3>3. runs' = [runs EXCEPT ![f] = IF Tail(mailbox[f]) = <<>> THEN @ ELSE @ + 1]
      BY <1>3 DEF DrainYieldNow
    <3>4. runs \in [Fiber -> Nat]
      BY DEF TypeOK
    <3>5. runs' \in [Fiber -> Nat]
      BY <3>3, <3>4
    <3> QED BY <3>1, <3>2, <3>5 DEF InboxOK
  <2> QED BY <1>3, <2>1, Unchanged, ReleaseType, GroupsNext DEF DrainYieldNow
<1>4. CASE DrainResume(f)
  <2>1. InboxOK'
    BY <1>4, BoxType DEF DrainResume, TypeOK, InboxOK, HeadIs
  <2>2. AsyncOK'
    BY <1>4 DEF DrainResume, TypeOK, AsyncOK
  <2>3. Head(mailbox[f]).effect \in Effect /\ Failure(Interrupted) \in Effect
    BY <1>4, BoxType, MessageParts, EffectConstructors, ExitConstructors DEF DrainResume, HeadIs
  <2>4. ThreadOK'
    BY <1>4, <2>3, GoToType DEF DrainResume
  <2> QED BY <1>4, <2>1, <2>2, <2>4, Unchanged, GroupsNext DEF DrainResume
<1>5. CASE DrainInterrupt(f)
  <2> DEFINE i == interruptor[f]
             wake == IF i = 0 THEN Nothing ELSE Resumption(f, i, Failure(Interrupted))
             signal == ToAll(children[f], InterruptSignal)
             both == [g \in Fiber |-> signal[g] \o wake[g]]
  <2>1. i \in Nat /\ children[f] \in SUBSET Fiber
    BY DEF TypeOK
  <2>2. wake \in [Fiber -> Seq(Message)] /\ signal \in [Fiber -> Seq(Message)]
    BY <2>1, MessagesType, MessageConstructors, EffectConstructors, ExitConstructors
  <2>3. both \in [Fiber -> Seq(Message)]
    <3> HIDE DEF wake, signal
    <3>1. \A g \in Fiber : signal[g] \o wake[g] \in Seq(Message)
      BY <2>2, ConcatProperties
    <3> QED BY <3>1
  <2>4. Tell(Box(f, Tail(mailbox[f])), both)
    BY <1>5 DEF DrainInterrupt
  <2>5. InboxOK'
    <3> HIDE DEF both
    <3> QED BY <1>5, <2>3, <2>4, BoxType, TellType DEF InboxOK, DrainInterrupt, HeadIs
  <2>6. AsyncOK'
    <3>1. interruptor' \in [Fiber -> Nat] /\ asyncs' \in [Fiber -> Nat]
          /\ blockingOn' \in [Fiber -> Fiber \cup {NoFiber}]
      BY <1>5, <2>1 DEF DrainInterrupt, TypeOK
    <3>2. UNCHANGED called \/ MarkCalled(f, i)
      BY <1>5 DEF DrainInterrupt
    <3> QED BY <2>1, <3>1, <3>2, CalledType DEF AsyncOK, TypeOK
  <2>7. RestOK'
    BY <1>5 DEF DrainInterrupt, TypeOK, RestOK, bounds, history
  <2> QED BY <1>5, <2>5, <2>6, <2>7, Unchanged, GroupsNext DEF DrainInterrupt, thread, machine, family
<1> QED BY <1>1, <1>2, <1>3, <1>4, <1>5

\* Telling a fiber one message, or none, leaves typed mailboxes.
LEMMA TellOneType ==
  ASSUME TypeOK, NEW box \in [Fiber -> Seq(Message)], NEW g \in Fiber, NEW m \in Message,
         Tell(box, To(g, m)) \/ Tell(box, Nothing)
  PROVE  InboxOK'
<1>1. To(g, m) \in [Fiber -> Seq(Message)] /\ Nothing \in [Fiber -> Seq(Message)]
  BY MessagesType
<1> QED BY <1>1, TellType DEF InboxOK

\* ... resuming a fiber that waits,
LEMMA TellResumptionType ==
  ASSUME TypeOK, NEW box \in [Fiber -> Seq(Message)],
         NEW g \in Fiber, NEW i \in Nat, NEW e \in Effect, Tell(box, Resumption(g, i, e))
  PROVE  InboxOK'
<1>1. Resumption(g, i, e) \in [Fiber -> Seq(Message)]
  BY MessagesType
<1> QED BY <1>1, TellType DEF InboxOK

\* ... telling several fibers,
LEMMA TellAllType ==
  ASSUME TypeOK, NEW box \in [Fiber -> Seq(Message)],
         NEW S \in SUBSET Fiber, NEW m \in Message, Tell(box, ToAll(S, m))
  PROVE  InboxOK'
<1>1. ToAll(S, m) \in [Fiber -> Seq(Message)]
  BY MessagesType
<1> QED BY <1>1, TellType DEF InboxOK

\* The mailboxes as they are.
LEMMA MailboxType == TypeOK => mailbox \in [Fiber -> Seq(Message)]
  BY DEF TypeOK

\* The closure of a Stateful message.
LEMMA StatefulType ==
  ASSUME TypeOK, NEW f \in Fiber, IsStateful(f), Stateful(f, Head(mailbox[f])),
         UNCHANGED <<interruptor, asyncs, blockingOn>>,
         UNCHANGED <<status, exit, parent, flags0>>
  PROVE  InboxOK' /\ AsyncOK' /\ FamilyOK'
<1> DEFINE m == Head(mailbox[f])
           box == Box(f, Tail(mailbox[f]))
           adopts == [kind |-> "child", parent |-> f]
           awaits == [kind |-> "await", by |-> m.by, id |-> m.id]
<1>1. box \in [Fiber -> Seq(Message)] /\ m \in Message
  BY BoxType DEF IsStateful
<1>2. /\ m.tag = "AddChild" => m.child \in Fiber
      /\ m.tag \in {"Observe", "Unobserve"} => m.by \in Fiber /\ m.id \in Nat
  BY <1>1, MessageParts
<1>3. Unit \in Effect /\ YieldNow \in Message
  BY EffectConstructors, MessageConstructors
<1>4. /\ adopts \in Observer
      /\ m.tag \in {"Observe", "Unobserve"} => awaits \in Observer
  BY <1>2, ObserverParts
<1>5. AsyncOK' <=> called' \in [Fiber -> SUBSET Nat]
  BY DEF AsyncOK, TypeOK
<1>6. FamilyOK' <=> children' \in [Fiber -> SUBSET Fiber] /\ observers' \in [Fiber -> Seq(Observer)]
  BY DEF FamilyOK, TypeOK
<1>7. UNCHANGED called => AsyncOK'
  BY <1>5 DEF TypeOK
<1>8. UNCHANGED <<children, observers>> => FamilyOK'
  BY <1>6 DEF TypeOK
<1> DEFINE AddChildOf == /\ m.tag = "AddChild"
                         /\ children' = [children EXCEPT ![f] =
                               IF status[m.child] = "done" THEN @ \ {m.child} ELSE @ \cup {m.child}]
                         /\ observers' = IF status[m.child] = "done" THEN observers
                              ELSE [observers EXCEPT ![m.child] = Append(@, adopts)]
                         /\ Tell(box, Nothing)
                         /\ UNCHANGED called
           ObserveDone == /\ m.tag = "Observe"
                          /\ Tell(box, Resumption(m.by, m.id, Unit))
                          /\ MarkCalled(m.by, m.id)
                          /\ UNCHANGED <<children, observers>>
           ObserveLive == /\ m.tag = "Observe"
                          /\ observers' = [observers EXCEPT ![f] = Append(@, awaits)]
                          /\ Tell(box, Nothing)
                          /\ UNCHANGED <<children, called>>
           UnobserveIt == /\ m.tag = "Unobserve"
                          /\ observers' = [observers EXCEPT ![f] = Without(@, awaits)]
                          /\ Tell(box, Nothing)
                          /\ UNCHANGED <<children, called>>
<1>9. AddChildOf \/ ObserveDone \/ ObserveLive \/ UnobserveIt
  BY DEF Stateful
<1>10. CASE AddChildOf
  <2> HIDE DEF m, box, adopts
  <2>1. children' \in [Fiber -> SUBSET Fiber]
    <3>1. children[f] \ {m.child} \in SUBSET Fiber /\ children[f] \cup {m.child} \in SUBSET Fiber
      BY <1>2, <1>10 DEF TypeOK
    <3> QED BY <1>10, <3>1 DEF TypeOK
  <2>2. observers' \in [Fiber -> Seq(Observer)]
    <3>1. Append(observers[m.child], adopts) \in Seq(Observer)
      BY <1>2, <1>4, <1>10, AppendProperties DEF TypeOK
    <3> QED BY <1>10, <3>1 DEF TypeOK
  <2> QED BY <1>1, <1>3, <1>6, <1>7, <1>10, <2>1, <2>2, TellOneType
<1>11. CASE ObserveDone
  <2> HIDE DEF m, box
  <2>1. called' \in [Fiber -> SUBSET Nat]
    BY <1>2, <1>11, CalledType
  <2> QED BY <1>1, <1>2, <1>3, <1>5, <1>8, <1>11, <2>1, TellResumptionType
<1>12. CASE ObserveLive
  <2> HIDE DEF m, box, awaits
  <2>1. Append(observers[f], awaits) \in Seq(Observer)
    BY <1>4, <1>12, AppendProperties DEF TypeOK
  <2>2. observers' \in [Fiber -> Seq(Observer)] /\ children' \in [Fiber -> SUBSET Fiber]
    BY <1>12, <2>1 DEF TypeOK
  <2> QED BY <1>1, <1>3, <1>6, <1>7, <1>12, <2>2, TellOneType
<1>13. CASE UnobserveIt
  <2> HIDE DEF m, box, awaits
  <2>1. Without(observers[f], awaits) \in Seq(Observer)
    BY WithoutType DEF TypeOK
  <2>2. observers' \in [Fiber -> Seq(Observer)] /\ children' \in [Fiber -> SUBSET Fiber]
    BY <1>13, <2>1 DEF TypeOK
  <2> QED BY <1>1, <1>3, <1>6, <1>7, <1>13, <2>2, TellOneType
<1> QED BY <1>9, <1>10, <1>11, <1>12, <1>13

\* Stateful messages, in a drain and in the run loop, and interruption there.
LEMMA TypeMessages ==
  ASSUME TypeOK, NEW f \in Fiber,
         DrainStateful(f) \/ LoopStateful(f) \/ LoopInterrupt(f)
  PROVE  TypeOK'
<1>1. CASE DrainStateful(f) \/ LoopStateful(f)
  <2>1. InboxOK' /\ AsyncOK' /\ FamilyOK'
    BY <1>1, StatefulType DEF DrainStateful, LoopStateful
  <2> QED BY <1>1, <2>1, Unchanged, GroupsNext DEF DrainStateful, LoopStateful
<1>2. CASE LoopInterrupt(f)
  <2>1. children[f] \in SUBSET Fiber /\ InterruptSignal \in Message
    BY MessageConstructors DEF TypeOK
  <2>2. Box(f, Tail(mailbox[f])) \in [Fiber -> Seq(Message)]
    BY <1>2, BoxType DEF LoopInterrupt, HeadIs
  <2>3. InboxOK'
    BY <1>2, <2>1, <2>2, TellAllType DEF LoopInterrupt
  <2>4. cur \in Effect /\ Failure(Interrupted) \in Effect
    BY EffectConstructors, ExitConstructors DEF TypeOK
  <2>5. ThreadOK'
    BY <1>2, <2>4, GoToType DEF LoopInterrupt
  <2>6. RestOK'
    BY <1>2 DEF LoopInterrupt, TypeOK, RestOK, bounds, history
  <2> QED BY <1>2, <2>3, <2>5, <2>6, Unchanged, GroupsNext DEF LoopInterrupt
<1> QED BY <1>1, <1>2

\* Pushing a frame, or several.
LEMMA PushedType ==
  ASSUME TypeOK, NEW f \in Fiber, UNCHANGED <<interruption, windDown>>,
         \E r \in Frame : Push(f, r)
  PROVE  MachineOK'
<1>1. PICK r \in Frame : Push(f, r)
  OBVIOUS
<1>2. Append(stack[f], r) \in Seq(Frame)
  BY AppendProperties DEF TypeOK
<1> QED BY <1>1, <1>2 DEF Push, MachineOK, TypeOK

\* Fuel is spent.
LEMMA FuelType ==
  ASSUME TypeOK, NEW f \in Fiber, fuel[f] > 0, fuel' = [fuel EXCEPT ![f] = @ - 1]
  PROVE  fuel' \in [Fiber -> Nat]
<1>1. fuel \in [Fiber -> Nat]
  BY DEF TypeOK
<1>2. fuel[f] \in Nat
  BY <1>1
<1>3. fuel[f] - 1 \in Nat
  BY <1>2
<1> QED BY <1>1, <1>3

\* ... and choosing what the program does next.
LEMMA ChoosesType ==
  ASSUME TypeOK, NEW f \in Fiber, NEW o, Chooses(f, o)
  PROVE  UNCHANGED <<history, interrupted>> => RestOK'
<1>1. fuel' \in [Fiber -> Nat] /\ signals' \in Nat
  BY FuelType DEF Chooses, TypeOK
<1> QED BY <1>1 DEF RestOK, TypeOK, history

\* Sequences of two and of four elements.
LEMMA TwoType ==
  ASSUME NEW S, NEW a \in S, NEW b \in S
  PROVE  <<a, b>> \in Seq(S)
  OBVIOUS

\* Four elements are a sequence.
LEMMA FourType ==
  ASSUME NEW S, NEW a \in S, NEW b \in S, NEW c \in S, NEW d \in S
  PROVE  <<a, b, c, d>> \in Seq(S)
  OBVIOUS

\* The two masks push four frames.
LEMMA MaskType ==
  ASSUME TypeOK, NEW f \in Fiber, NEW h \in Handler, NEW b \in Body, Mask(f, h, b),
         UNCHANGED windDown
  PROVE  ThreadOK' /\ MachineOK'
<1>1. interruption[f] \in BOOLEAN /\ stack[f] \in Seq(Frame)
  BY DEF TypeOK
<1>2. Region(interruption[f], b) \in Effect
  BY <1>1, EffectConstructors
<1>3. ThreadOK'
  BY <1>2, GoToType DEF Mask
<1> DEFINE t == << [tag |-> "Continue"], Revert(f, FALSE), OnStep(TRUE), [tag |-> "Cleanup", h |-> h] >>
<1>4. t \in Seq(Frame)
  <2>1. Revert(f, FALSE) \in Frame /\ OnStep(TRUE) \in Frame
    <3>1. OnStep(TRUE) \in Frame /\ (interruption[f] # FALSE) \in BOOLEAN
      BY FrameConstructors
    <3>2. Revert(f, FALSE) \in Frame
      BY <1>1, <3>1, FrameConstructors DEF Revert
    <3> QED BY <3>1, <3>2
  <2>2. [tag |-> "Continue"] \in Frame /\ [tag |-> "Cleanup", h |-> h] \in Frame
    BY FrameConstructors
  <2> QED BY <2>1, <2>2, FourType
<1>5. stack' = [stack EXCEPT ![f] = @ \o t] /\ interruption' = [interruption EXCEPT ![f] = FALSE]
  BY DEF Mask
<1> HIDE DEF t
<1>6. stack[f] \o t \in Seq(Frame)
  BY <1>1, <1>4, PushType
<1>7. MachineOK'
  BY <1>5, <1>6 DEF MachineOK, TypeOK
<1> QED BY <1>3, <1>7

\* An async operation is initiated.
LEMMA InitiateType ==
  ASSUME TypeOK, NEW f \in Fiber, NEW g \in Fiber \cup {NoFiber}, Initiate(f, g)
  PROVE  /\ ThreadOK'
         /\ called' \in [Fiber -> SUBSET Nat] => AsyncOK'
<1>0. asyncs[f] \in Nat /\ interruptor[f] \in Nat
  BY DEF TypeOK
<1>1. asyncs[f] + 1 \in Nat
  BY <1>0
<1>2. ThreadOK'
  BY AfterEvaluateType DEF Initiate
<1>3. asyncs' \in [Fiber -> Nat] /\ blockingOn' \in [Fiber -> Fiber \cup {NoFiber}]
  BY <1>1 DEF Initiate, TypeOK
<1>4. interruptor' \in [Fiber -> Nat]
  <2>1. \/ interruptor' = [interruptor EXCEPT ![f] = asyncs[f] + 1]
        \/ interruptor' = [interruptor EXCEPT ![f] = interruptor[f]]
    BY DEF Initiate
  <2> QED BY <1>0, <1>1, <2>1 DEF TypeOK
<1> QED BY <1>2, <1>3, <1>4 DEF AsyncOK

\* What a program does that stays within its fiber.
LEMMA TypeProgramAlone ==
  ASSUME TypeOK, NEW f \in Fiber,
         \/ Finish(f) \/ FlatMap(f) \/ CatchAll(f) \/ EnterRegion(f) \/ OnExit(f)
         \/ YieldOp(f) \/ AwaitOp(f) \/ ForcedYield(f)
  PROVE  TypeOK'
<1>1. CASE Finish(f)
  <2>1. Unit \in Effect /\ Failure({"Fail"}) \in Effect
    BY EffectConstructors, ExitConstructors
  <2>2. ThreadOK'
    BY <1>1, <2>1, GoToType DEF Finish
  <2> QED BY <1>1, <2>2, Unchanged, GroupsNext DEF Finish
<1>2. CASE FlatMap(f)
  <2>1. Prog \in Effect /\ [tag |-> "OnSuccess", k |-> Prog] \in Frame
    BY EffectConstructors, FrameConstructors
  <2>2. ThreadOK' /\ MachineOK'
    BY <1>2, <2>1, GoToType, PushedType DEF FlatMap
  <2>3. RestOK'
    BY <1>2, ChoosesType DEF FlatMap
  <2> QED BY <1>2, <2>2, <2>3, Unchanged, GroupsNext DEF FlatMap
<1>3. CASE CatchAll(f)
  <2>1. Prog \in Effect /\ [tag |-> "OnFailure"] \in Frame
    BY EffectConstructors, FrameConstructors
  <2>2. ThreadOK' /\ MachineOK'
    BY <1>3, <2>1, GoToType, PushedType DEF CatchAll
  <2>3. RestOK'
    BY <1>3, ChoosesType DEF CatchAll
  <2> QED BY <1>3, <2>2, <2>3, Unchanged, GroupsNext DEF CatchAll
<1>4. CASE EnterRegion(f)
  <2>1. \A on \in BOOLEAN : Region(on, Prog) \in Effect
    BY EffectConstructors
  <2>2. ThreadOK'
    BY <1>4, <2>1, GoToType DEF EnterRegion
  <2>3. RestOK'
    BY <1>4, ChoosesType DEF EnterRegion
  <2> QED BY <1>4, <2>2, <2>3, Unchanged, GroupsNext DEF EnterRegion
<1>5. CASE OnExit(f)
  <2>0. opened[f] \in Nat
    BY DEF TypeOK
  <2>1. opened[f] + 1 \in Nat
    BY <2>0
  <2>2. [kind |-> "finalizer", n |-> opened[f] + 1] \in Handler
    BY <2>1, HandlerParts
  <2>3. ThreadOK' /\ MachineOK'
    BY <1>5, <2>2, MaskType, EffectConstructors DEF OnExit
  <2>4. fuel' \in [Fiber -> Nat] /\ signals' \in Nat
    BY <1>5, FuelType DEF OnExit, Chooses, TypeOK
  <2>5. opened' \in [Fiber -> Nat] /\ ran' \in [Fiber -> Seq(Nat)]
        /\ interrupted' \in [Fiber -> BOOLEAN]
    BY <1>5, <2>1 DEF OnExit, TypeOK
  <2> QED BY <1>5, <2>3, <2>4, <2>5, Unchanged, GroupsNext DEF OnExit, RestOK
<1>6. CASE YieldOp(f)
  <2>1. ThreadOK'
    BY <1>6, EffectConstructors, GoToType DEF YieldOp
  <2>2. RestOK'
    BY <1>6, ChoosesType DEF YieldOp
  <2> QED BY <1>6, <2>1, <2>2, Unchanged, GroupsNext DEF YieldOp
<1>7. CASE AwaitOp(f)
  <2>1. ThreadOK'
    BY <1>7, EffectConstructors, GoToType DEF AwaitOp
  <2>2. RestOK'
    BY <1>7, ChoosesType DEF AwaitOp
  <2> QED BY <1>7, <2>1, <2>2, Unchanged, GroupsNext DEF AwaitOp
<1>8. CASE ForcedYield(f)
  <2>1. cur \in Effect /\ Yield \in Effect /\ [tag |-> "OnSuccess", k |-> cur] \in Frame
    BY EffectConstructors, FrameConstructors DEF TypeOK
  <2>2. ThreadOK' /\ MachineOK'
    BY <1>8, <2>1, GoToType, PushedType DEF ForcedYield
  <2>3. RestOK'
    BY <1>8, FuelType DEF ForcedYield, TypeOK, RestOK, history
  <2> QED BY <1>8, <2>2, <2>3, Unchanged, GroupsNext DEF ForcedYield
<1> QED BY <1>1, <1>2, <1>3, <1>4, <1>5, <1>6, <1>7, <1>8

\* Two batches of messages are a batch.
LEMMA BothType ==
  ASSUME NEW s \in [Fiber -> Seq(Message)], NEW t \in [Fiber -> Seq(Message)]
  PROVE  [g \in Fiber |-> s[g] \o t[g]] \in [Fiber -> Seq(Message)]
<1>1. \A g \in Fiber : s[g] \o t[g] \in Seq(Message)
  BY ConcatProperties
<1> QED BY <1>1

\* What a program does to other fibers, and how it suspends.
LEMMA TypeProgramOthers ==
  ASSUME TypeOK, NEW f \in Fiber,
         SuspendAsync(f) \/ Fork(f) \/ InterruptAsFork(f) \/ Complete(f)
  PROVE  TypeOK'
<1>1. CASE SuspendAsync(f)
  <2>0. asyncs[f] \in Nat
    BY DEF TypeOK
  <2>1. asyncs[f] + 1 \in Nat /\ Resume(Unit) \in Message
    BY <2>0, MessageConstructors, EffectConstructors
  <2>2. InboxOK'
    BY <1>1, <2>1, TellOneType, MailboxType DEF SuspendAsync
  <2>3. called' \in [Fiber -> SUBSET Nat]
    <3>1. UNCHANGED called \/ MarkCalled(f, asyncs[f] + 1)
      BY <1>1 DEF SuspendAsync
    <3> QED BY <2>1, <3>1, CalledType DEF TypeOK
  <2>4. ThreadOK' /\ AsyncOK'
    BY <1>1, <2>3, InitiateType DEF SuspendAsync
  <2>5. RestOK'
    BY <1>1, ChoosesType DEF SuspendAsync
  <2> QED BY <1>1, <2>2, <2>4, <2>5, Unchanged, GroupsNext DEF SuspendAsync
<1>2. CASE Fork(f)
  <2>1. PICK c \in Fiber, daemon \in BOOLEAN :
          /\ Chooses(f, IF daemon THEN "daemon" ELSE "fork")
          /\ status' = [status EXCEPT ![c] = "live"]
          /\ interruption' = [interruption EXCEPT ![c] = interruption[f]]
          /\ windDown' = [windDown EXCEPT ![c] = windDown[f]]
          /\ flags0' = [flags0 EXCEPT ![c] = interruption[f]]
          /\ parent' = [parent EXCEPT ![c] = IF daemon THEN NoFiber ELSE f]
          /\ Tell(mailbox, [g \in Fiber |-> (IF daemon THEN Nothing ELSE To(f, AddChild(c)))[g]
                                              \o To(c, Resume(Prog))[g]])
          /\ GoTo("loop", Unit)
          /\ UNCHANGED <<stack, async, children, observers, exit, history, interrupted>>
    BY <1>2 DEF Fork
  <2> DEFINE adopt == IF daemon THEN Nothing ELSE To(f, AddChild(c))
             start == To(c, Resume(Prog))
  <2>2. AddChild(c) \in Message /\ Resume(Prog) \in Message
    BY MessageConstructors, EffectConstructors
  <2>3. adopt \in [Fiber -> Seq(Message)] /\ start \in [Fiber -> Seq(Message)]
    BY <2>2, MessagesType
  <2>4. Tell(mailbox, [g \in Fiber |-> adopt[g] \o start[g]])
    BY <2>1
  <2>5. InboxOK'
    <3> HIDE DEF adopt, start
    <3> DEFINE both == [g \in Fiber |-> adopt[g] \o start[g]]
    <3>1. both \in [Fiber -> Seq(Message)]
      BY <2>3, BothType
    <3>2. Tell(mailbox, both)
      BY <2>4
    <3> HIDE DEF both
    <3> QED BY <3>1, <3>2, MailboxType, TellType DEF InboxOK
  <2>6. ThreadOK'
    BY <2>1, GoToType, EffectConstructors
  <2>7. MachineOK'
    BY <2>1 DEF TypeOK, MachineOK
  <2>8. FamilyOK'
    <3>1. parent' \in [Fiber -> Fiber \cup {NoFiber}]
      <4>1. (IF daemon THEN NoFiber ELSE f) \in Fiber \cup {NoFiber}
        OBVIOUS
      <4> QED BY <2>1, <4>1 DEF TypeOK
    <3> QED BY <2>1, <3>1 DEF TypeOK, FamilyOK
  <2>9. RestOK'
    BY <2>1, ChoosesType
  <2> QED BY <2>1, <2>5, <2>6, <2>7, <2>8, <2>9, Unchanged, GroupsNext
<1>3. CASE InterruptAsFork(f)
  <2>1. InboxOK'
    BY <1>3, TellOneType, MailboxType, MessageConstructors DEF InterruptAsFork
  <2>2. ThreadOK'
    BY <1>3, GoToType, EffectConstructors DEF InterruptAsFork
  <2>3. RestOK'
    BY <1>3, ChoosesType DEF InterruptAsFork
  <2> QED BY <1>3, <2>1, <2>2, <2>3, Unchanged, GroupsNext DEF InterruptAsFork
<1>4. CASE Complete(f)
  <2>1. PICK g \in Fiber : /\ Tell(mailbox, Resumption(g, asyncs[g], Unit))
                           /\ MarkCalled(g, asyncs[g])
    BY <1>4 DEF Complete
  <2>2. asyncs[g] \in Nat /\ Unit \in Effect
    BY EffectConstructors DEF TypeOK
  <2>3. InboxOK'
    BY <2>1, <2>2, TellResumptionType, MailboxType
  <2>4. called' \in [Fiber -> SUBSET Nat]
    BY <2>1, <2>2, CalledType
  <2>5. AsyncOK'
    BY <1>4, <2>4 DEF Complete, TypeOK, AsyncOK
  <2>6. ThreadOK'
    BY <1>4, GoToType, EffectConstructors DEF Complete
  <2>7. RestOK'
    BY <1>4, ChoosesType DEF Complete
  <2> QED BY <1>4, <2>3, <2>5, <2>6, <2>7, Unchanged, GroupsNext DEF Complete
<1> QED BY <1>1, <1>2, <1>3, <1>4

\* The effects the library builds.
LEMMA TypeEval ==
  ASSUME TypeOK, NEW f \in Fiber,
         EvalYield(f) \/ EvalRegion(f) \/ EvalAwait(f) \/ EvalAwaitAsync(f) \/ EvalJoin(f)
  PROVE  TypeOK'
<1>0. asyncs[f] \in Nat /\ cur \in Effect /\ interruption[f] \in BOOLEAN /\ stack[f] \in Seq(Frame)
  BY DEF TypeOK
<1>1. CASE EvalYield(f)
  <2>1. CASE f \in CooperativeYielding
    <3> DEFINE two == [g \in Fiber |-> IF g = f THEN <<YieldNow, Resume(Unit)>> ELSE <<>>]
    <3>1. Tell(mailbox, two) /\ GoTo(AfterEvaluate, Unit)
      BY <1>1, <2>1 DEF EvalYield
    <3>2. two \in [Fiber -> Seq(Message)]
      BY MessageConstructors, EffectConstructors, TwoType
    <3> HIDE DEF two
    <3>3. InboxOK' /\ ThreadOK'
      BY <3>1, <3>2, MailboxType, TellType, AfterEvaluateType DEF InboxOK
    <3> QED BY <1>1, <3>3, Unchanged, GroupsNext DEF EvalYield
  <2>2. CASE f \notin CooperativeYielding
    <3>1. ThreadOK' /\ InboxOK'
      BY <1>1, <2>2, GoToType, EffectConstructors, Unchanged DEF EvalYield
    <3> QED BY <1>1, <3>1, Unchanged, GroupsNext DEF EvalYield
  <2> QED BY <2>1, <2>2
<1>2. CASE EvalRegion(f)
  <2>1. cur.enable \in BOOLEAN /\ cur.body \in Effect
    BY <1>0, <1>2, EffectParts, EffectConstructors DEF EvalRegion
  <2>2. CASE GoTo("loop", Failure(Interrupted)) /\ UNCHANGED machine
    <3>1. ThreadOK'
      BY <2>2, GoToType, EffectConstructors, ExitConstructors
    <3> QED BY <1>2, <2>2, <3>1, Unchanged, GroupsNext DEF EvalRegion
  <2>3. CASE /\ stack' = [stack EXCEPT ![f] = @ \o <<Revert(f, cur.enable), OnStep(FALSE)>>]
             /\ interruption' = [interruption EXCEPT ![f] = cur.enable]
             /\ GoTo("loop", cur.body)
             /\ UNCHANGED windDown
    <3> DEFINE t == <<Revert(f, cur.enable), OnStep(FALSE)>>
    <3>1. Revert(f, cur.enable) \in Frame /\ OnStep(FALSE) \in Frame
      <4>1. (interruption[f] # cur.enable) \in BOOLEAN
        OBVIOUS
      <4> QED BY <1>0, <4>1, FrameConstructors DEF Revert
    <3>2. t \in Seq(Frame)
      BY <3>1, TwoType
    <3>3. stack' = [stack EXCEPT ![f] = @ \o t]
      BY <2>3
    <3> HIDE DEF t
    <3>4. stack[f] \o t \in Seq(Frame)
      BY <1>0, <3>2, PushType
    <3>5. MachineOK'
      <4>1. stack' \in [Fiber -> Seq(Frame)]
        BY <3>3, <3>4 DEF TypeOK
      <4>2. interruption' \in [Fiber -> BOOLEAN] /\ windDown' \in [Fiber -> BOOLEAN]
        BY <2>1, <2>3 DEF TypeOK
      <4> QED BY <4>1, <4>2 DEF MachineOK
    <3>6. ThreadOK'
      BY <2>1, <2>3, GoToType
    <3> QED BY <1>2, <3>5, <3>6, Unchanged, GroupsNext DEF EvalRegion
  <2> QED BY <1>2, <2>2, <2>3 DEF EvalRegion
<1>3. CASE EvalAwait(f)
  <2>1. cur.of \in Fiber /\ asyncs[f] + 1 \in Nat
    BY <1>0, <1>3, EffectParts DEF EvalAwait
  <2>2. [kind |-> "canceler", of |-> cur.of, id |-> asyncs[f] + 1] \in Handler
        /\ AwaitAsync(cur.of) \in Body
    BY <2>1, HandlerParts, EffectConstructors
  <2>3. ThreadOK' /\ MachineOK'
    BY <1>3, <2>2, MaskType DEF EvalAwait
  <2> QED BY <1>3, <2>3, Unchanged, GroupsNext DEF EvalAwait
<1>4. CASE EvalAwaitAsync(f)
  <2>1. cur.of \in Fiber /\ asyncs[f] + 1 \in Nat
    BY <1>0, <1>4, EffectParts DEF EvalAwaitAsync
  <2>2. InboxOK'
    BY <1>4, <2>1, TellOneType, MailboxType, MessageConstructors DEF EvalAwaitAsync
  <2>3. called' \in [Fiber -> SUBSET Nat]
    BY <1>4 DEF EvalAwaitAsync, TypeOK
  <2>4. ThreadOK' /\ AsyncOK'
    BY <1>4, <2>1, <2>3, InitiateType DEF EvalAwaitAsync
  <2> QED BY <1>4, <2>2, <2>4, Unchanged, GroupsNext DEF EvalAwaitAsync
<1>5. CASE EvalJoin(f)
  <2>1. cur.rest \in SUBSET Fiber /\ cur.exit \in Exit
    BY <1>0, <1>5, EffectParts DEF EvalJoin
  <2>2. CASE GoTo("loop", ExitEffect(cur.exit)) /\ UNCHANGED stack
    <3>1. ThreadOK' /\ MachineOK'
      BY <1>5, <2>1, <2>2, GoToType, EffectConstructors DEF EvalJoin, MachineOK, TypeOK
    <3> QED BY <1>5, <3>1, Unchanged, GroupsNext DEF EvalJoin
  <2>3. CASE \E c \in cur.rest :
               /\ Push(f, [tag |-> "OnSuccess", k |-> Join(cur.rest \ {c}, cur.exit)])
               /\ GoTo("loop", Await(c))
    <3>1. PICK c \in cur.rest :
               /\ Push(f, [tag |-> "OnSuccess", k |-> Join(cur.rest \ {c}, cur.exit)])
               /\ GoTo("loop", Await(c))
      BY <2>3
    <3>2. c \in Fiber /\ Await(c) \in Effect
      BY <2>1, EffectConstructors
    <3>3. cur.rest \ {c} \in SUBSET Fiber
      BY <2>1
    <3> DEFINE k == Join(cur.rest \ {c}, cur.exit)
    <3>6. k \in Effect
      BY <2>1, <3>3, EffectConstructors
    <3> HIDE DEF k
    <3>4. [tag |-> "OnSuccess", k |-> k] \in Frame
      BY <3>6, FrameConstructors
    <3>7. Push(f, [tag |-> "OnSuccess", k |-> k])
      BY <3>1 DEF k
    <3>5. ThreadOK' /\ MachineOK'
      BY <1>5, <3>1, <3>2, <3>4, <3>7, GoToType, PushedType DEF EvalJoin
    <3> QED BY <1>5, <3>5, Unchanged, GroupsNext DEF EvalJoin
  <2> QED BY <1>5, <2>2, <2>3 DEF EvalJoin
<1> QED BY <1>1, <1>2, <1>3, <1>4, <1>5

\* Continuations: popping a frame, and popping it for the effect that follows.
LEMMA PoppedType ==
  ASSUME TypeOK, NEW f \in Fiber, stack[f] # <<>>
  PROVE  Popped(f) \in Seq(Frame) /\ Top(f) \in Frame
  BY PopType DEF TypeOK, Popped, Top

\* Popping a frame keeps the types,
LEMMA PopMachineType ==
  ASSUME TypeOK, NEW f \in Fiber, stack[f] # <<>>, Pop(f), UNCHANGED <<interruption, windDown>>
  PROVE  MachineOK'
  BY PoppedType DEF Pop, MachineOK, TypeOK

\* ... and so does continuing with what a frame holds,
LEMMA UseType ==
  ASSUME TypeOK, NEW f \in Fiber, NEW t, NEW e, Use(f, t, e),
         Top(f).tag = t => e \in Effect
  PROVE  ThreadOK' /\ MachineOK'
  BY PopMachineType, GoToType DEF Use, TopIs, Empty

\* ... skipping one that does not apply,
LEMMA SkipType ==
  ASSUME TypeOK, NEW f \in Fiber, NEW T, Skip(f, T)
  PROVE  ThreadOK' /\ MachineOK'
<1>1. cur \in Effect
  BY DEF TypeOK
<1> QED BY <1>1, PopMachineType, GoToType DEF Skip, Empty

\* ... reverting the flags of a region,
LEMMA UseRevertType ==
  ASSUME TypeOK, NEW f \in Fiber, NEW d \in Effect, NEW e \in Effect, UseRevert(f, d, e)
  PROVE  ThreadOK' /\ MachineOK'
<1>1. stack[f] # <<>> /\ Top(f) \in Frame /\ Top(f).tag = "Revert" /\ Popped(f) \in Seq(Frame)
  BY PoppedType DEF UseRevert, TopIs, Empty
<1>2. interruption[f] \in BOOLEAN /\ Top(f).enabled \in BOOLEAN
  BY <1>1, FrameParts DEF TypeOK
<1>3. Reverted(f) \in BOOLEAN
  BY <1>2 DEF Reverted
<1>4. stack' \in [Fiber -> Seq(Frame)]
  BY <1>1 DEF UseRevert, Pop, TypeOK
<1>5. interruption' \in [Fiber -> BOOLEAN] /\ windDown' \in [Fiber -> BOOLEAN]
  BY <1>3 DEF UseRevert, TypeOK
<1>6. ThreadOK'
  BY GoToType DEF UseRevert
<1> QED BY <1>4, <1>5, <1>6 DEF MachineOK

\* A handler of failures ends in an effect.
LEMMA HandleType ==
  ASSUME NEW f \in Fiber, NEW e \in Effect, cur.cause \in Cause
  PROVE  Handle(f, e) \in Effect
  BY EffectConstructors, ExitConstructors DEF Handle

\* OP_SUCCESS and OP_FAILURE.
LEMMA TypeCont ==
  ASSUME TypeOK, NEW f \in Fiber, EvalSuccess(f) \/ EvalFailure(f)
  PROVE  TypeOK'
<1>0. cur \in Effect /\ (stack[f] # <<>> => Top(f) \in Frame)
  BY PoppedType DEF TypeOK
<1>1. CASE EvalSuccess(f)
  <2>1. cur.value \in Exit
    BY <1>0, <1>1, EffectParts DEF EvalSuccess, Evaluating
  <2>2. CASE Skip(f, {"OnFailure"})
    <3>1. ThreadOK' /\ MachineOK'
      BY <2>2, SkipType
    <3> QED BY <1>1, <3>1, Unchanged, GroupsNext DEF EvalSuccess
  <2>3. CASE Use(f, "OnSuccess", Top(f).k)
    <3>1. Top(f).tag = "OnSuccess" => Top(f).k \in Effect
      BY <1>0, <2>3, FrameParts DEF Use, TopIs, Empty
    <3>2. ThreadOK' /\ MachineOK'
      BY <2>3, <3>1, UseType
    <3> QED BY <1>1, <3>2, Unchanged, GroupsNext DEF EvalSuccess
  <2>4. CASE Use(f, "Continue", ExitEffect(cur.value))
    <3>1. ThreadOK' /\ MachineOK'
      BY <2>1, <2>4, UseType, EffectConstructors
    <3> QED BY <1>1, <3>1, Unchanged, GroupsNext DEF EvalSuccess
  <2>5. CASE Use(f, "OnStep", IF Top(f).wrap THEN Success(Ok) ELSE Unit)
    <3>1. (IF Top(f).wrap THEN Success(Ok) ELSE Unit) \in Effect
      BY EffectConstructors, ExitConstructors
    <3>2. ThreadOK' /\ MachineOK'
      BY <2>5, <3>1, UseType
    <3> QED BY <1>1, <3>2, Unchanged, GroupsNext DEF EvalSuccess
  <2>6. CASE Use(f, "AfterCleanup", Failure(Top(f).cause))
    <3>1. Top(f).tag = "AfterCleanup" => Failure(Top(f).cause) \in Effect
      BY <1>0, <2>6, FrameParts, EffectConstructors DEF Use, TopIs, Empty
    <3>2. ThreadOK' /\ MachineOK'
      BY <2>6, <3>1, UseType
    <3> QED BY <1>1, <3>2, Unchanged, GroupsNext DEF EvalSuccess
  <2>7. CASE UseRevert(f, Failure(Interrupted), cur)
    <3>1. ThreadOK' /\ MachineOK'
      BY <1>0, <2>7, UseRevertType, EffectConstructors, ExitConstructors
    <3> QED BY <1>1, <3>1, Unchanged, GroupsNext DEF EvalSuccess
  <2> QED BY <1>1, <2>2, <2>3, <2>4, <2>5, <2>6, <2>7 DEF EvalSuccess
<1>2. CASE EvalFailure(f)
  <2>1. cur.cause \in Cause
    BY <1>0, <1>2, EffectParts DEF EvalFailure, Evaluating
  <2>2. CASE Skip(f, {"OnSuccess", "Continue"})
    <3>1. ThreadOK' /\ MachineOK'
      BY <2>2, SkipType
    <3> QED BY <1>2, <3>1, Unchanged, GroupsNext DEF EvalFailure
  <2>3. CASE Use(f, "OnFailure", Handle(f, Prog))
    <3>1. ThreadOK' /\ MachineOK'
      BY <2>1, <2>3, UseType, HandleType, EffectConstructors
    <3> QED BY <1>2, <3>1, Unchanged, GroupsNext DEF EvalFailure
  <2>4. CASE Use(f, "OnStep", Handle(f, IF Top(f).wrap THEN Success(Failed(cur.cause)) ELSE cur))
    <3>1. (IF Top(f).wrap THEN Success(Failed(cur.cause)) ELSE cur) \in Effect
      BY <1>0, <2>1, EffectConstructors, ExitConstructors
    <3>2. ThreadOK' /\ MachineOK'
      BY <2>1, <2>4, <3>1, UseType, HandleType
    <3> QED BY <1>2, <3>2, Unchanged, GroupsNext DEF EvalFailure
  <2>5. CASE Use(f, "AfterCleanup", Handle(f, Failure(Top(f).cause \cup cur.cause)))
    <3>1. Top(f).tag = "AfterCleanup" => Failure(Top(f).cause \cup cur.cause) \in Effect
      BY <1>0, <2>1, <2>5, FrameParts, ExitConstructors, EffectConstructors DEF Use, TopIs, Empty
    <3>2. Top(f).tag = "AfterCleanup" => Handle(f, Failure(Top(f).cause \cup cur.cause)) \in Effect
      BY <2>1, <3>1, HandleType
    <3>3. ThreadOK' /\ MachineOK'
      BY <2>5, <3>2, UseType
    <3> QED BY <1>2, <3>3, Unchanged, GroupsNext DEF EvalFailure
  <2>6. CASE UseRevert(f, Failure(cur.cause \cup Interrupted), cur)
    <3>1. Failure(cur.cause \cup Interrupted) \in Effect
      BY <2>1, EffectConstructors, ExitConstructors
    <3>2. ThreadOK' /\ MachineOK'
      BY <1>0, <2>6, <3>1, UseRevertType
    <3> QED BY <1>2, <3>2, Unchanged, GroupsNext DEF EvalFailure
  <2> QED BY <1>2, <2>2, <2>3, <2>4, <2>5, <2>6 DEF EvalFailure
<1> QED BY <1>1, <1>2

\* The frame that replaces a cleanup, and the finalizer that is recorded.
LEMMA ReplaceTopType ==
  ASSUME TypeOK, NEW f \in Fiber, stack[f] # <<>>, NEW r \in Frame,
         stack' = [stack EXCEPT ![f] = Append(Popped(f), r)], UNCHANGED <<interruption, windDown>>
  PROVE  MachineOK'
<1>1. Append(Popped(f), r) \in Seq(Frame)
  BY PoppedType, AppendProperties
<1> QED BY <1>1 DEF MachineOK, TypeOK

\* ... and running a finalizer.
LEMMA CleanupStartsType ==
  ASSUME TypeOK, NEW f \in Fiber, NEW h \in Handler,
         CleanupStarts(f, h) \/ UNCHANGED ran, UNCHANGED <<bounds, opened, interrupted>>
  PROVE  RestOK'
<1>1. CASE UNCHANGED ran
  BY <1>1 DEF RestOK, TypeOK, bounds
<1>2. CASE CleanupStarts(f, h) /\ h.kind = "finalizer"
  <2>1. h.n \in Nat /\ ran[f] \in Seq(Nat)
    BY <1>2, HandlerParts DEF TypeOK
  <2>2. Append(ran[f], h.n) \in Seq(Nat)
    BY <2>1, AppendProperties
  <2>3. ran' \in [Fiber -> Seq(Nat)]
    BY <1>2, <2>2 DEF CleanupStarts, TypeOK
  <2> QED BY <2>3 DEF RestOK, TypeOK, bounds
<1> QED BY <1>1, <1>2 DEF CleanupStarts

\* onExit's cleanups.
LEMMA TypeCleanup ==
  ASSUME TypeOK, NEW f \in Fiber, CleanupAfterSuccess(f) \/ CleanupAfterFailure(f)
  PROVE  TypeOK'
<1> DEFINE h == Top(f).h
<1>1. stack[f] # <<>> /\ Top(f).tag = "Cleanup"
  BY DEF CleanupAfterSuccess, CleanupAfterFailure, TopIs, Empty
<1>2. Top(f) \in Frame /\ h \in Handler
  BY <1>1, PoppedType, FrameParts
<1>3. cur \in Effect /\ Prog \in Effect /\ Unit \in Effect
  BY EffectConstructors DEF TypeOK
<1> HIDE DEF h
<1>4. CASE CleanupAfterSuccess(f)
  <2>1. RestOK'
    BY <1>2, <1>4, CleanupStartsType DEF CleanupAfterSuccess, h
  <2>2. CASE h.kind = "finalizer"
    <3>1. [tag |-> "OnSuccess", k |-> Unit] \in Frame
      BY <1>3, FrameConstructors
    <3>2. ThreadOK' /\ MachineOK'
      BY <1>1, <1>3, <1>4, <2>2, <3>1, ReplaceTopType, GoToType DEF CleanupAfterSuccess, h
    <3> QED BY <1>4, <2>1, <3>2, Unchanged, GroupsNext DEF CleanupAfterSuccess
  <2>3. CASE h.kind # "finalizer"
    <3>1. ThreadOK' /\ MachineOK'
      BY <1>1, <1>3, <1>4, <2>3, PopMachineType, GoToType DEF CleanupAfterSuccess, h
    <3> QED BY <1>4, <2>1, <3>1, Unchanged, GroupsNext DEF CleanupAfterSuccess
  <2> QED BY <2>2, <2>3
<1>5. CASE CleanupAfterFailure(f)
  <2> DEFINE canceling == h.kind = "canceler" /\ cur.cause \subseteq Interrupted /\ asyncs[f] >= h.id
  <2>1. cur.cause \in Cause
    BY <1>3, <1>5, EffectParts DEF CleanupAfterFailure, Evaluating
  <2>2. RestOK'
    BY <1>2, <1>5, CleanupStartsType DEF CleanupAfterFailure, h
  <2>3. CASE MustDie(f)
    <3>1. Pop(f) /\ GoTo("loop", Handle(f, cur)) /\ UNCHANGED inbox
      BY <1>5, <2>3 DEF CleanupAfterFailure
    <3>2. ThreadOK' /\ MachineOK'
      BY <1>1, <1>3, <1>5, <2>1, <3>1, PopMachineType, GoToType, HandleType
         DEF CleanupAfterFailure
    <3> QED BY <1>5, <2>2, <3>1, <3>2, Unchanged, GroupsNext DEF CleanupAfterFailure
  <2>4. CASE ~MustDie(f)
    <3>1. InboxOK'
      <4>1. CASE canceling
        <5>1. h.of \in Fiber /\ h.id \in Nat
          BY <1>2, <4>1, HandlerParts
        <5>2. Tell(mailbox, To(h.of, Unobserve(f, h.id)))
          BY <1>5, <2>4, <4>1 DEF CleanupAfterFailure, h
        <5> QED BY <5>1, <5>2, TellOneType, MailboxType, MessageConstructors
      <4>2. CASE ~canceling
        BY <1>5, <2>4, <4>2, Unchanged DEF CleanupAfterFailure, h
      <4> QED BY <4>1, <4>2
    <3>2. CASE h.kind = "finalizer"
      <4>1. [tag |-> "AfterCleanup", cause |-> cur.cause] \in Frame
        BY <2>1, FrameConstructors
      <4>2. ThreadOK' /\ MachineOK'
        BY <1>1, <1>3, <1>5, <2>4, <3>2, <4>1, ReplaceTopType, GoToType DEF CleanupAfterFailure, h
      <4> QED BY <1>5, <2>2, <3>1, <4>2, Unchanged, GroupsNext DEF CleanupAfterFailure
    <3>3. CASE h.kind # "finalizer"
      <4>1. ThreadOK' /\ MachineOK'
        BY <1>1, <1>3, <1>5, <2>4, <3>3, PopMachineType, GoToType DEF CleanupAfterFailure, h
      <4> QED BY <1>5, <2>2, <3>1, <4>1, Unchanged, GroupsNext DEF CleanupAfterFailure
    <3> QED BY <3>2, <3>3
  <2> QED BY <2>3, <2>4
<1> QED BY <1>4, <1>5

\* The observers that setExitValue has still to call are there.
InRange == pc = "notify" => current \in Fiber /\ next <= Len(observers[current])

\* The exit of a run loop's last effect.
LEMMA ExitOfType ==
  ASSUME NEW e \in Effect, e.op \in {"Success", "Failure"}
  PROVE  ExitOf(e) \in Exit
  BY EffectParts, ExitConstructors DEF ExitOf

\* The end of a fiber.
LEMMA TypeLeave ==
  ASSUME TypeOK, NEW f \in Fiber,
         LeaveChildren(f) \/ LeaveMessages(f) \/ SetExitValue(f)
  PROVE  TypeOK'
<1>1. cur \in Effect /\ children[f] \in SUBSET Fiber /\ Len(observers[f]) \in Nat
  BY LenProperties DEF TypeOK
<1>2. ExitOf(cur) \in Exit
  BY <1>1, ExitOfType DEF LeaveChildren, LeaveMessages, SetExitValue, Leaving
<1>3. MachineOK'
  BY DEF LeaveChildren, LeaveMessages, SetExitValue, MachineOK, TypeOK
<1>4. CASE LeaveChildren(f)
  <2>1. ThreadOK'
    BY <1>1, <1>2, <1>4, GoToType, EffectConstructors DEF LeaveChildren
  <2>2. InboxOK'
    BY <1>1, <1>4, TellAllType, MailboxType, MessageConstructors DEF LeaveChildren
  <2>3. FamilyOK'
    BY <1>4 DEF LeaveChildren, FamilyOK, TypeOK
  <2> QED BY <1>3, <1>4, <2>1, <2>2, <2>3, Unchanged, GroupsNext DEF LeaveChildren
<1>5. CASE LeaveMessages(f)
  <2>1. Resume(ExitEffect(ExitOf(cur))) \in Message
    BY <1>2, EffectConstructors, MessageConstructors
  <2>2. InboxOK'
    BY <1>5, <2>1, TellOneType, MailboxType DEF LeaveMessages
  <2>3. ThreadOK'
    BY <1>5, AfterEvaluateType DEF LeaveMessages
  <2> QED BY <1>3, <1>5, <2>2, <2>3, Unchanged, GroupsNext DEF LeaveMessages
<1>6. CASE SetExitValue(f)
  <2>1. ThreadOK'
    BY <1>1, <1>6, EffectConstructors DEF SetExitValue, LastObserver, ThreadOK, TypeOK
  <2>2. FamilyOK'
    BY <1>2, <1>6 DEF SetExitValue, FamilyOK, TypeOK
  <2> QED BY <1>3, <1>6, <2>1, <2>2, Unchanged, GroupsNext DEF SetExitValue
<1> QED BY <1>4, <1>5, <1>6

\* Calling the observers.
LEMMA TypeNotify ==
  ASSUME TypeOK, InRange, NEW f \in Fiber, Notify(f) \/ NotifyDone(f)
  PROVE  TypeOK'
<1>1. CASE NotifyDone(f)
  <2>1. ThreadOK'
    BY <1>1, AfterEvaluateType DEF NotifyDone
  <2> QED BY <1>1, <2>1, Unchanged, GroupsNext DEF NotifyDone
<1>2. CASE Notify(f)
  <2> DEFINE o == observers[f][next]
  <2>1. observers[f] \in Seq(Observer) /\ next \in Nat
    BY DEF TypeOK
  <2>2. next \in 1..Len(observers[f])
    BY <1>2, <2>1, LenProperties DEF Notify, InRange
  <2>3. o \in Observer
    BY <2>1, <2>2, LenProperties
  <2>4. ThreadOK'
    <3>1. next - 1 \in Nat
      BY <2>2, <2>1, LenProperties
    <3> QED BY <1>2, <3>1 DEF Notify, ThreadOK, TypeOK
  <2>5. UNCHANGED <<machine, bounds, history, interrupted, observers, exit, parent, flags0, status>>
        /\ UNCHANGED <<interruptor, asyncs, blockingOn>>
    BY <1>2 DEF Notify
  <2> HIDE DEF o
  <2>6. CASE /\ o.kind = "await"
             /\ Tell(mailbox, Resumption(o.by, o.id, Unit))
             /\ MarkCalled(o.by, o.id)
             /\ UNCHANGED children
    <3>1. o.by \in Fiber /\ o.id \in Nat /\ Unit \in Effect
      BY <2>3, <2>6, ObserverParts, EffectConstructors
    <3>2. InboxOK'
      BY <2>6, <3>1, TellResumptionType, MailboxType
    <3>3. called' \in [Fiber -> SUBSET Nat]
      BY <2>6, <3>1, CalledType
    <3>4. AsyncOK' /\ FamilyOK'
      BY <2>5, <2>6, <3>3 DEF AsyncOK, FamilyOK, TypeOK
    <3> QED BY <2>4, <2>5, <3>2, <3>4, Unchanged, GroupsNext
  <2>7. CASE /\ o.kind = "child"
             /\ children' = [children EXCEPT ![o.parent] = @ \ {f}]
             /\ UNCHANGED <<inbox, called>>
    <3>1. o.parent \in Fiber
      BY <2>3, <2>7, ObserverParts
    <3>2. children[o.parent] \ {f} \in SUBSET Fiber
      BY <3>1 DEF TypeOK
    <3>3. children' \in [Fiber -> SUBSET Fiber]
      BY <2>7, <3>2 DEF TypeOK
    <3>4. AsyncOK' /\ FamilyOK'
      BY <2>5, <2>7, <3>3 DEF AsyncOK, FamilyOK, TypeOK
    <3> QED BY <2>4, <2>5, <2>7, <3>4, Unchanged, GroupsNext
  <2> QED BY <1>2, <2>6, <2>7 DEF Notify, o
<1> QED BY <1>1, <1>2

\* Getting the thread, and what comes from outside.
LEMMA TypeOutside ==
  ASSUME TypeOK,
         StartRoot \/ \E g \in Fiber : Run(g) \/ OutsideCompletes(g) \/ OutsideInterrupts(g)
  PROVE  TypeOK'
<1>1. CASE StartRoot
  <2>1. ThreadOK'
    BY <1>1, EffectConstructors, FiberAssumption DEF StartRoot, ThreadOK
  <2>2. InboxOK'
    BY <1>1 DEF StartRoot, InboxOK, TypeOK
  <2>3. FamilyOK'
    BY <1>1 DEF StartRoot, FamilyOK, TypeOK
  <2> QED BY <1>1, <2>1, <2>2, <2>3, Unchanged, GroupsNext DEF StartRoot
<1>2. ASSUME NEW g \in Fiber, Run(g)
      PROVE  TypeOK'
  <2>1. runs[g] \in Nat /\ runs[g] > 0
    BY <1>2 DEF Run, TypeOK
  <2>2. runs[g] - 1 \in Nat
    BY <2>1
  <2>3. InboxOK'
    BY <1>2, <2>2 DEF Run, InboxOK, TypeOK
  <2>4. ThreadOK'
    BY <1>2, EffectConstructors DEF Run, ThreadOK
  <2> QED BY <1>2, <2>3, <2>4, Unchanged, GroupsNext DEF Run
<1>3. ASSUME NEW g \in Fiber, OutsideCompletes(g)
      PROVE  TypeOK'
  <2>1. asyncs[g] \in Nat /\ Unit \in Effect /\ Failure({"Fail"}) \in Effect
    BY EffectConstructors, ExitConstructors DEF TypeOK
  <2>2. InboxOK'
    BY <1>3, <2>1, TellResumptionType, MailboxType DEF OutsideCompletes
  <2>3. called' \in [Fiber -> SUBSET Nat]
    BY <1>3, <2>1, CalledType DEF OutsideCompletes
  <2>4. AsyncOK'
    BY <1>3, <2>3 DEF OutsideCompletes, AsyncOK, TypeOK
  <2> QED BY <1>3, <2>2, <2>4, Unchanged, GroupsNext DEF OutsideCompletes
<1>4. ASSUME NEW g \in Fiber, OutsideInterrupts(g)
      PROVE  TypeOK'
  <2>1. InboxOK'
    BY <1>4, TellOneType, MailboxType, MessageConstructors DEF OutsideInterrupts
  <2>2. RestOK'
    <3>1. signals \in Nat
      BY DEF TypeOK
    <3>2. signals' \in Nat
      BY <1>4, <3>1 DEF OutsideInterrupts
    <3> QED BY <1>4, <3>2 DEF OutsideInterrupts, RestOK, TypeOK, history
  <2> QED BY <1>4, <2>1, <2>2, Unchanged, GroupsNext DEF OutsideInterrupts
<1> QED BY <1>1, <1>2, <1>3, <1>4

\* Only SetExitValue enters "notify", and only Notify stays there.
LEMMA NotifyEntered ==
  ASSUME NEW f \in Fiber, Step(f), ~SetExitValue(f), ~Notify(f)
  PROVE  pc' # "notify"
<1> USE DEF GoTo, Release, AfterEvaluate, thread
<1>1. CASE Finally(f) \/ DrainDone(f) \/ DrainYieldNow(f) \/ DrainInterrupt(f) \/ DrainResume(f)
  BY <1>1 DEF Finally, DrainDone, DrainYieldNow, DrainInterrupt, DrainResume, Draining
<1>2. CASE DrainStateful(f) \/ LoopInterrupt(f) \/ LoopStateful(f) \/ ForcedYield(f)
  BY <1>2 DEF DrainStateful, LoopInterrupt, LoopStateful, ForcedYield, Draining, Looping
<1>3. CASE Program(f)
  BY <1>3 DEF Program, Finish, FlatMap, CatchAll, EnterRegion, OnExit, Mask, SuspendAsync, Initiate,
              YieldOp, Fork, InterruptAsFork, AwaitOp, Complete
<1>4. CASE EvalYield(f) \/ EvalRegion(f) \/ EvalAwait(f) \/ EvalAwaitAsync(f) \/ EvalJoin(f)
  BY <1>4 DEF EvalYield, EvalRegion, EvalAwait, Mask, EvalAwaitAsync, Initiate, EvalJoin
<1>5. CASE EvalSuccess(f) \/ EvalFailure(f)
  BY <1>5 DEF EvalSuccess, EvalFailure, Skip, Use, UseRevert
<1>6. CASE CleanupAfterSuccess(f) \/ CleanupAfterFailure(f)
  BY <1>6 DEF CleanupAfterSuccess, CleanupAfterFailure
<1>7. CASE LeaveChildren(f) \/ LeaveMessages(f) \/ NotifyDone(f)
  BY <1>7 DEF LeaveChildren, LeaveMessages, NotifyDone
<1> QED BY <1>1, <1>2, <1>3, <1>4, <1>5, <1>6, <1>7 DEF Step

\* The type invariant that is inductive.
TypeInv == TypeOK /\ InRange

\* Every step of a fiber keeps the types and the range of references,
LEMMA TypeStep ==
  ASSUME TypeInv, NEW f \in Fiber, Step(f)
  PROVE  TypeInv'
<1>1. TypeOK'
  BY TypeDrain, TypeMessages, TypeProgramAlone, TypeProgramOthers, TypeEval, TypeCont,
     TypeCleanup, TypeLeave, TypeNotify DEF Step, Program, TypeInv
<1>2. InRange'
  <2>1. CASE SetExitValue(f)
    <3>1. current' = f /\ next' = Len(observers'[f])
      BY <2>1 DEF SetExitValue, Leaving, LastObserver
    <3>2. observers[f] \in Seq(Observer) /\ observers' = observers
      BY <2>1 DEF SetExitValue, TypeInv, TypeOK
    <3> QED BY <3>1, <3>2, LenProperties DEF InRange
  <2>2. CASE Notify(f)
    <3>1. current' = f /\ next' = next - 1 /\ observers' = observers /\ next \in Nat
          /\ next <= Len(observers[f])
      BY <2>2 DEF Notify, TypeInv, InRange, TypeOK
    <3>2. Len(observers[f]) \in Nat
      BY LenProperties DEF TypeInv, TypeOK
    <3> QED BY <3>1, <3>2 DEF InRange
  <2>3. CASE ~SetExitValue(f) /\ ~Notify(f)
    BY <2>3, NotifyEntered DEF InRange
  <2> QED BY <2>1, <2>2, <2>3
<1> QED BY <1>1, <1>2 DEF TypeInv

\* ... and so does every step of the system.
LEMMA TypeNext ==
  ASSUME TypeInv, [Next]_vars
  PROVE  TypeInv'
<1>1. CASE StartRoot \/ \E g \in Fiber : Run(g) \/ OutsideCompletes(g) \/ OutsideInterrupts(g)
  <2>1. TypeOK'
    BY <1>1, TypeOutside DEF TypeInv
  <2>2. pc' # "notify"
    <3>1. CASE StartRoot \/ \E g \in Fiber : Run(g)
      BY <3>1 DEF StartRoot, Run
    <3>2. CASE \E g \in Fiber : OutsideCompletes(g) \/ OutsideInterrupts(g)
      BY <3>2, FiberAssumption DEF OutsideCompletes, OutsideInterrupts, thread, TypeInv, InRange
    <3> QED BY <1>1, <3>1, <3>2
  <2> QED BY <2>1, <2>2 DEF TypeInv, InRange
<1>2. CASE \E f \in Fiber : Step(f)
  BY <1>2, TypeStep
<1>3. CASE UNCHANGED vars
  <2>1. TypeOK'
    BY <1>3, Unchanged, GroupsNext DEF TypeInv, vars
  <2> QED BY <1>3, <2>1 DEF vars, thread, family, TypeInv, InRange
<1> QED BY <1>1, <1>2, <1>3 DEF Next, Outside

\* Type correctness: whatever the programs do, no handler of the run loop takes
\* an effect, a continuation, a message or an observer for one of another kind.
THEOREM TypeCorrect == Spec => []TypeOK
<1>1. Init => TypeInv
  BY TypeInit DEF TypeInv, InRange, Init
<1>2. TypeInv /\ [Next]_vars => TypeInv'
  BY TypeNext
<1>3. TypeInv => TypeOK
  BY DEF TypeInv
<1> QED BY <1>1, <1>2, <1>3, PTL DEF Spec

----------------------------------------------------------------------------
(* No lost wake-up.  The property alone is not inductive: tell schedules    *)
(* nothing for a fiber whose `running' is set, so that flag must imply, too, *)
(* that the fiber has the thread or a run of it is scheduled.               *)

WakeInv == \A f \in Fiber : current # f /\ (running[f] \/ mailbox[f] # <<>>) => runs[f] > 0

\* tell, by the fiber that has the thread or from outside, loses no wake-up of
\* the fibers whose mailboxes are not being drained.
LEMMA WakeTell ==
  ASSUME TypeOK, WakeInv, current' = current,
         NEW box, NEW msgs, Tell(box, msgs),
         \A g \in Fiber : g # current => box[g] = mailbox[g]
  PROVE  WakeInv'
<1> SUFFICES ASSUME NEW g \in Fiber, current # g, running'[g] \/ mailbox'[g] # <<>>
             PROVE  runs'[g] > 0
  BY DEF WakeInv
<1>1. running[g] \in BOOLEAN /\ runs[g] \in Nat /\ mailbox[g] \in Seq(Message)
  BY DEF TypeOK
<1>2. box[g] = mailbox[g]
  OBVIOUS
<1>3. mailbox'[g] = mailbox[g] \o msgs[g]
  BY <1>2 DEF Tell
<1>4. CASE msgs[g] = <<>>
  <2>1. mailbox'[g] = mailbox[g]
    BY <1>1, <1>3, <1>4, ConcatEmptySeq
  <2>2. running'[g] = running[g] /\ runs'[g] = runs[g]
    BY <1>1, <1>4 DEF Tell
  <2> QED BY <2>1, <2>2 DEF WakeInv
<1>5. CASE msgs[g] # <<>> /\ ~running[g]
  <2>1. runs'[g] = runs[g] + 1
    BY <1>5 DEF Tell
  <2> QED BY <1>1, <2>1
<1>6. CASE msgs[g] # <<>> /\ running[g]
  <2>1. runs'[g] = runs[g]
    BY <1>6 DEF Tell
  <2> QED BY <1>6, <2>1 DEF WakeInv
<1> QED BY <1>1, <1>4, <1>5, <1>6

\* Telling wakes whom it tells: tell schedules a drain unless the fiber is
\* running,
LEMMA WakeTellNow ==
  ASSUME TypeOK, WakeInv, current' = current, NEW msgs, Tell(mailbox, msgs)
  PROVE  WakeInv'
  BY WakeTell

\* ... also when the fiber that tells has just taken its own message.
LEMMA WakeTellBox ==
  ASSUME TypeOK, WakeInv, NEW f \in Fiber, current = f, current' = current,
         NEW q, NEW msgs, Tell(Box(f, q), msgs)
  PROVE  WakeInv'
<1>1. \A g \in Fiber : g # current => Box(f, q)[g] = mailbox[g]
  BY DEF Box, TypeOK
<1> QED BY <1>1, WakeTell

\* Nothing is told.
LEMMA WakeQuiet ==
  ASSUME WakeInv, UNCHANGED <<inbox, current>>
  PROVE  WakeInv'
  BY DEF WakeInv, inbox

\* The steps that do not give up the thread.
LEMMA WakeKeep ==
  ASSUME TypeOK, WakeInv, NEW f \in Fiber, Step(f),
         ~Finally(f), ~DrainDone(f), ~DrainYieldNow(f)
  PROVE  WakeInv'
<1> USE DEF GoTo, thread
<1>1. CASE DrainInterrupt(f) \/ LoopInterrupt(f)
  BY <1>1, WakeTellBox DEF DrainInterrupt, LoopInterrupt, Draining, Looping
<1>2. CASE DrainResume(f)
  <2>1. /\ current = f /\ current' = f /\ running' = running /\ runs' = runs
        /\ \A g \in Fiber : g # f => mailbox'[g] = mailbox[g]
    BY <1>2 DEF DrainResume, Draining, Box, TypeOK
  <2> QED BY <2>1 DEF WakeInv
<1>3. CASE DrainStateful(f) \/ LoopStateful(f)
  <2>1. current = f /\ current' = current
    BY <1>3 DEF DrainStateful, LoopStateful, Draining, Looping
  <2>2. \E q, msgs : Tell(Box(f, q), msgs)
    BY <1>3 DEF DrainStateful, LoopStateful, Stateful
  <2> QED BY <2>1, <2>2, WakeTellBox
<1>4. CASE ForcedYield(f)
  BY <1>4, WakeQuiet DEF ForcedYield
<1>5. CASE Program(f)
  <2>1. CASE Finish(f) \/ FlatMap(f) \/ CatchAll(f) \/ EnterRegion(f) \/ OnExit(f) \/ YieldOp(f)
             \/ AwaitOp(f)
    BY <2>1, WakeQuiet DEF Finish, FlatMap, CatchAll, EnterRegion, OnExit, Mask, YieldOp, AwaitOp
  <2>2. CASE SuspendAsync(f) \/ Fork(f) \/ InterruptAsFork(f) \/ Complete(f)
    BY <2>2, WakeTellNow DEF SuspendAsync, Initiate, Fork, InterruptAsFork, Complete
  <2> QED BY <1>5, <2>1, <2>2 DEF Program
<1>6. CASE EvalYield(f) \/ EvalRegion(f) \/ EvalAwait(f) \/ EvalAwaitAsync(f) \/ EvalJoin(f)
  BY <1>6, WakeQuiet, WakeTellNow DEF EvalYield, EvalRegion, EvalAwait, Mask, EvalAwaitAsync,
     Initiate, EvalJoin, Push
<1>7. CASE EvalSuccess(f) \/ EvalFailure(f)
  BY <1>7, WakeQuiet DEF EvalSuccess, EvalFailure, Skip, Use, UseRevert
<1>8. CASE CleanupAfterSuccess(f) \/ CleanupAfterFailure(f)
  <2>1. current' = current
    BY <1>8 DEF CleanupAfterSuccess, CleanupAfterFailure
  <2>2. UNCHANGED inbox \/ \E msgs : Tell(mailbox, msgs)
    BY <1>8 DEF CleanupAfterSuccess, CleanupAfterFailure
  <2> QED BY <2>1, <2>2, WakeQuiet, WakeTellNow
<1>9. CASE LeaveChildren(f) \/ LeaveMessages(f) \/ SetExitValue(f)
  BY <1>9, WakeQuiet, WakeTellNow DEF LeaveChildren, LeaveMessages, SetExitValue
<1>10. CASE Notify(f) \/ NotifyDone(f)
  BY <1>10, WakeQuiet, WakeTellNow DEF Notify, NotifyDone
<1> QED BY <1>1, <1>2, <1>3, <1>4, <1>5, <1>6, <1>7, <1>8, <1>9, <1>10 DEF Step

\* The steps that give up the thread schedule a run for what is left.
LEMMA WakeRelease ==
  ASSUME TypeOK, WakeInv, NEW f \in Fiber, Finally(f) \/ DrainDone(f) \/ DrainYieldNow(f)
  PROVE  WakeInv'
<1> SUFFICES ASSUME NEW g \in Fiber, running'[g] \/ mailbox'[g] # <<>>
             PROVE  runs'[g] > 0
  BY DEF WakeInv
<1>1. running \in [Fiber -> BOOLEAN] /\ runs \in [Fiber -> Nat] /\ mailbox \in [Fiber -> Seq(Message)]
  BY DEF TypeOK
<1>2. current = f
  BY DEF Finally, DrainDone, DrainYieldNow, Draining
<1>3. CASE g # f
  <2>1. running'[g] = running[g] /\ runs'[g] = runs[g] /\ mailbox'[g] = mailbox[g]
    BY <1>1, <1>3 DEF Finally, DrainDone, DrainYieldNow, Box
  <2> QED BY <1>2, <1>3, <2>1 DEF WakeInv
<1>4. CASE g = f /\ Finally(f)
  BY <1>1, <1>4 DEF Finally
<1>5. CASE g = f /\ DrainDone(f)
  BY <1>1, <1>5 DEF DrainDone
<1>6. CASE g = f /\ DrainYieldNow(f)
  <2> DEFINE rest == Tail(mailbox[f])
  <2>1. mailbox'[f] = rest /\ running'[f] = (rest # <<>>)
    BY <1>1, <1>6 DEF DrainYieldNow, Box
  <2>2. runs' = [runs EXCEPT ![f] = IF rest = <<>> THEN @ ELSE @ + 1]
    BY <1>6 DEF DrainYieldNow
  <2> HIDE DEF rest
  <2>3. rest # <<>>
    BY <1>6, <2>1
  <2> QED BY <1>1, <1>6, <2>2, <2>3
<1> QED BY <1>3, <1>4, <1>5, <1>6

\* No step leaves a fiber with mail and nobody to drain it.
LEMMA WakeNext ==
  ASSUME TypeInv, WakeInv, [Next]_vars
  PROVE  WakeInv'
<1>0. TypeOK
  BY DEF TypeInv
<1>1. ASSUME NEW f \in Fiber, Step(f)
      PROVE  WakeInv'
  BY <1>0, <1>1, WakeKeep, WakeRelease
<1>2. ASSUME NEW f \in Fiber, Run(f)
      PROVE  WakeInv'
  <2>1. \A g \in Fiber : g # f => runs'[g] = runs[g]
    BY <1>0, <1>2 DEF Run, TypeOK
  <2>2. current = NoFiber /\ current' = f /\ running' = running /\ mailbox' = mailbox
    BY <1>2 DEF Run
  <2> QED BY <2>1, <2>2, FiberAssumption DEF WakeInv
<1>3. CASE StartRoot
  <2>1. \A g \in Fiber : g # Root => running'[g] = running[g]
    BY <1>0, <1>3 DEF StartRoot, TypeOK
  <2> QED BY <1>3, <2>1, FiberAssumption DEF StartRoot, WakeInv
<1>4. CASE Outside
  BY <1>0, <1>4, WakeTellNow DEF Outside, OutsideCompletes, OutsideInterrupts, thread
<1>5. CASE UNCHANGED vars
  BY <1>5, WakeQuiet DEF vars, thread
<1> QED BY <1>1, <1>2, <1>3, <1>4, <1>5 DEF Next

\* No lost wake-up: a fiber that was sent a message has the thread or a task
\* that will run it is scheduled, whoever tells it, at whatever point of its
\* run loop, of the end of a drain or of the finally block of start.
THEOREM NoWakeupIsLost == Spec => []NoLostWakeup
<1>1. Init => TypeInv /\ WakeInv
  BY TypeInit DEF TypeInv, InRange, WakeInv, Init
<1>2. TypeInv /\ WakeInv /\ [Next]_vars => TypeInv' /\ WakeInv'
  BY TypeNext, WakeNext
<1>3. WakeInv => NoLostWakeup
  BY DEF WakeInv, NoLostWakeup
<1> QED BY <1>1, <1>2, <1>3, PTL DEF Spec

----------------------------------------------------------------------------
(* Taking turns.  A fiber has one turn: it runs its loop, or one Resume in  *)
(* its mailbox will run it, or one callback that was not called will.       *)

Active(f)    == current = f /\ pc \in {"loop", "cont"}
Suspended(f) == asyncs[f] > 0 /\ asyncs[f] \notin called[f]

\* A mailbox that starts no run loop, and one that starts at most one: a
\* YieldNow only stands before the Resume it was sent with.
Quiet(q)   == \A i \in DOMAIN q : q[i].tag \notin {"Resume", "YieldNow"}
Orderly(q) ==
  /\ \A i, j \in DOMAIN q : q[i].tag = "Resume" /\ q[j].tag = "Resume" => i = j
  /\ \A i \in DOMAIN q : q[i].tag = "YieldNow" =>
       \E j \in DOMAIN q : j > i /\ q[j].tag = "Resume"

\* The turn of fiber f.
Turn(f) ==
  /\ Orderly(mailbox[f])
  /\ Active(f) => Quiet(mailbox[f])
  /\ Active(f) \/ ~Quiet(mailbox[f]) => status[f] = "live" /\ ~Suspended(f)
  /\ Suspended(f) => status[f] = "live"
  /\ \A k \in 1..asyncs[f] : k = asyncs[f] \/ k \in called[f]

\* A sequence of messages after another.
LEMMA ConcatParts ==
  ASSUME NEW S, NEW s \in Seq(S), NEW t \in Seq(S)
  PROVE  /\ Len(s) \in Nat /\ Len(t) \in Nat
         /\ DOMAIN s = 1..Len(s) /\ DOMAIN t = 1..Len(t)
         /\ s \o t \in Seq(S) /\ DOMAIN (s \o t) = 1..(Len(s) + Len(t))
         /\ \A i \in DOMAIN s : i \in DOMAIN (s \o t) /\ (s \o t)[i] = s[i]
         /\ \A i \in DOMAIN t : Len(s) + i \in DOMAIN (s \o t) /\ (s \o t)[Len(s) + i] = t[i]
         /\ \A i \in DOMAIN (s \o t) :
              \/ i \in DOMAIN s /\ (s \o t)[i] = s[i]
              \/ i - Len(s) \in DOMAIN t /\ (s \o t)[i] = t[i - Len(s)]
<1>1. Len(s) \in Nat /\ Len(t) \in Nat /\ DOMAIN s = 1..Len(s) /\ DOMAIN t = 1..Len(t)
  BY LenProperties
<1>2. s \o t \in Seq(S) /\ Len(s \o t) = Len(s) + Len(t)
  BY ConcatProperties
<1>3. DOMAIN (s \o t) = 1..(Len(s) + Len(t))
  BY <1>2, LenProperties
<1>4. \A i \in 1..(Len(s) + Len(t)) : (s \o t)[i] = IF i <= Len(s) THEN s[i] ELSE t[i - Len(s)]
  BY ConcatProperties
<1> DEFINE st == s \o t
<1> HIDE DEF st
<1> QED BY <1>1, <1>2, <1>3, <1>4 DEF st

\* The tail of a sequence, element by element.
LEMMA TailParts ==
  ASSUME NEW S, NEW s \in Seq(S), s # <<>>
  PROVE  /\ Len(s) \in Nat \ {0} /\ DOMAIN s = 1..Len(s) /\ Head(s) = s[1]
         /\ Tail(s) \in Seq(S) /\ DOMAIN Tail(s) = 1..(Len(s) - 1)
         /\ \A i \in DOMAIN Tail(s) : i + 1 \in DOMAIN s /\ Tail(s)[i] = s[i + 1]
<1>1. Len(s) \in Nat \ {0} /\ DOMAIN s = 1..Len(s)
  BY LenProperties, EmptySeq
<1>2. Tail(s) \in Seq(S) /\ Len(Tail(s)) = Len(s) - 1
      /\ \A i \in 1..Len(Tail(s)) : Tail(s)[i] = s[i + 1]
  BY HeadTailProperties
<1>3. DOMAIN Tail(s) = 1..(Len(s) - 1)
  BY <1>2, LenProperties
<1>4. Head(s) = s[1]
  OBVIOUS
<1> QED BY <1>1, <1>2, <1>3, <1>4

\* Quiet mailboxes stay quiet when quiet messages are told; an orderly one and
\* a quiet one make an orderly one.
LEMMA QuietConcat ==
  ASSUME NEW s \in Seq(Message), NEW t \in Seq(Message)
  PROVE  /\ Quiet(s \o t) <=> Quiet(s) /\ Quiet(t)
         /\ Quiet(s) /\ Orderly(t) => Orderly(s \o t)
         /\ Orderly(s) /\ Quiet(t) => Orderly(s \o t)
<1> DEFINE u == s \o t
<1>1. /\ Len(s) \in Nat /\ Len(t) \in Nat
      /\ DOMAIN s = 1..Len(s) /\ DOMAIN t = 1..Len(t)
      /\ \A i \in DOMAIN s : i \in DOMAIN u /\ u[i] = s[i]
      /\ \A i \in DOMAIN t : Len(s) + i \in DOMAIN u /\ u[Len(s) + i] = t[i]
      /\ \A i \in DOMAIN u : \/ i \in DOMAIN s /\ u[i] = s[i]
                             \/ i - Len(s) \in DOMAIN t /\ u[i] = t[i - Len(s)]
      /\ DOMAIN u = 1..(Len(s) + Len(t))
  BY ConcatParts
<1> HIDE DEF u
<1>2. Quiet(u) <=> Quiet(s) /\ Quiet(t)
  <2>1. Quiet(u) => Quiet(s) /\ Quiet(t)
    BY <1>1 DEF Quiet
  <2>2. Quiet(s) /\ Quiet(t) => Quiet(u)
    BY <1>1 DEF Quiet
  <2> QED BY <2>1, <2>2
<1>3. ASSUME Quiet(s), Orderly(t)
      PROVE  Orderly(u)
  <2>1. \A i \in DOMAIN u : u[i].tag \in {"Resume", "YieldNow"} =>
            i - Len(s) \in DOMAIN t /\ u[i] = t[i - Len(s)]
    BY <1>1, <1>3 DEF Quiet
  <2>2. \A i, j \in DOMAIN u : u[i].tag = "Resume" /\ u[j].tag = "Resume" => i = j
    <3> TAKE i, j \in DOMAIN u
    <3> HAVE u[i].tag = "Resume" /\ u[j].tag = "Resume"
    <3>1. i - Len(s) = j - Len(s)
      BY <1>3, <2>1 DEF Orderly
    <3> QED BY <1>1, <3>1
  <2>3. \A i \in DOMAIN u : u[i].tag = "YieldNow" => \E j \in DOMAIN u : j > i /\ u[j].tag = "Resume"
    <3> TAKE i \in DOMAIN u
    <3> HAVE u[i].tag = "YieldNow"
    <3>1. PICK j \in DOMAIN t : j > i - Len(s) /\ t[j].tag = "Resume"
      BY <1>3, <2>1 DEF Orderly
    <3>2. Len(s) + j \in DOMAIN u /\ u[Len(s) + j].tag = "Resume" /\ Len(s) + j > i
      BY <1>1, <3>1
    <3> QED BY <3>2
  <2> QED BY <2>2, <2>3 DEF Orderly
<1>4. ASSUME Orderly(s), Quiet(t)
      PROVE  Orderly(u)
  <2>1. \A i \in DOMAIN u : u[i].tag \in {"Resume", "YieldNow"} => i \in DOMAIN s /\ u[i] = s[i]
    BY <1>1, <1>4 DEF Quiet
  <2> QED BY <1>1, <1>4, <2>1 DEF Orderly
<1> QED BY <1>2, <1>3, <1>4 DEF u

\* Taking the first message.
LEMMA QuietTail ==
  ASSUME NEW q \in Seq(Message), q # <<>>
  PROVE  /\ Quiet(q) => Quiet(Tail(q)) /\ Head(q).tag \notin {"Resume", "YieldNow"}
         /\ Orderly(q) => Orderly(Tail(q))
         /\ Orderly(q) /\ Head(q).tag = "Resume" => Quiet(Tail(q))
<1> DEFINE u == Tail(q)
<1>1. /\ Len(q) \in Nat \ {0} /\ DOMAIN q = 1..Len(q) /\ Head(q) = q[1]
      /\ DOMAIN u = 1..(Len(q) - 1)
      /\ \A i \in DOMAIN u : i + 1 \in DOMAIN q /\ u[i] = q[i + 1]
  BY TailParts
<1>2. 1 \in DOMAIN q
  BY <1>1
<1> HIDE DEF u
<1>3. Quiet(q) => Quiet(u) /\ Head(q).tag \notin {"Resume", "YieldNow"}
  BY <1>1, <1>2 DEF Quiet
<1>4. ASSUME Orderly(q)
      PROVE  Orderly(u)
  <2>1. \A i, j \in DOMAIN u : u[i].tag = "Resume" /\ u[j].tag = "Resume" => i = j
    <3> TAKE i, j \in DOMAIN u
    <3> HAVE u[i].tag = "Resume" /\ u[j].tag = "Resume"
    <3>1. i + 1 = j + 1
      BY <1>1, <1>4 DEF Orderly
    <3> QED BY <1>1, <3>1
  <2>2. \A i \in DOMAIN u : u[i].tag = "YieldNow" => \E j \in DOMAIN u : j > i /\ u[j].tag = "Resume"
    <3> TAKE i \in DOMAIN u
    <3> HAVE u[i].tag = "YieldNow"
    <3>1. PICK j \in DOMAIN q : j > i + 1 /\ q[j].tag = "Resume"
      BY <1>1, <1>4 DEF Orderly
    <3>2. j - 1 \in DOMAIN u /\ j - 1 > i /\ u[j - 1].tag = "Resume"
      BY <1>1, <3>1
    <3> QED BY <3>2
  <2> QED BY <2>1, <2>2 DEF Orderly
<1>5. ASSUME Orderly(q), q[1].tag = "Resume"
      PROVE  Quiet(u)
  <2> SUFFICES ASSUME NEW i \in DOMAIN u, u[i].tag \in {"Resume", "YieldNow"}
               PROVE  FALSE
    BY DEF Quiet
  <2>1. CASE u[i].tag = "Resume"
    <3>1. i + 1 = 1
      BY <1>1, <1>2, <1>5, <2>1 DEF Orderly
    <3> QED BY <1>1, <3>1
  <2>2. CASE u[i].tag = "YieldNow"
    <3>1. PICK j \in DOMAIN q : j > i + 1 /\ q[j].tag = "Resume"
      BY <1>1, <1>5, <2>2 DEF Orderly
    <3>2. j = 1
      BY <1>2, <1>5, <3>1 DEF Orderly
    <3> QED BY <1>1, <3>1, <3>2
  <2> QED BY <2>1, <2>2
<1> QED BY <1>1, <1>3, <1>4, <1>5 DEF u

\* Every fiber has its turn, and no more.
TurnInv == \A f \in Fiber : Turn(f)

\* A fiber whose turn nothing touches keeps it.
LEMMA TurnKept ==
  ASSUME NEW h \in Fiber, Turn(h), asyncs'[h] = asyncs[h], called'[h] = called[h],
         status'[h] = status[h], Active(h)' => Active(h),
         Orderly(mailbox'[h]), Quiet(mailbox[h]) => Quiet(mailbox'[h])
  PROVE  Turn(h)'
  BY DEF Turn, Suspended

\* The mailboxes before something is told: as they are, or without a message.
Clips(box) ==
  /\ box \in [Fiber -> Seq(Message)]
  /\ \A h \in Fiber : /\ Orderly(mailbox[h]) => Orderly(box[h])
                      /\ Quiet(mailbox[h]) => Quiet(box[h])

\* The mailboxes, as they are, are a part of themselves,
LEMMA ClipsMailbox == TypeOK => Clips(mailbox)
  BY DEF Clips, TypeOK

\* ... and so they are when one has lost its head.
LEMMA ClipsBox ==
  ASSUME TypeOK, NEW f \in Fiber, mailbox[f] # <<>>
  PROVE  Clips(Box(f, Tail(mailbox[f])))
<1>1. mailbox \in [Fiber -> Seq(Message)] /\ mailbox[f] \in Seq(Message)
  BY DEF TypeOK
<1>2. Tail(mailbox[f]) \in Seq(Message)
  BY <1>1, TailParts
<1>3. /\ Orderly(mailbox[f]) => Orderly(Tail(mailbox[f]))
      /\ Quiet(mailbox[f]) => Quiet(Tail(mailbox[f]))
  BY <1>1, QuietTail
<1> DEFINE rest == Tail(mailbox[f])
<1> HIDE DEF rest
<1>4. Clips(Box(f, rest))
  BY <1>1, <1>2, <1>3 DEF Clips, Box, rest
<1> QED BY <1>4 DEF rest

\* What mailbox a fiber has when something was told.
LEMMA Told ==
  ASSUME NEW box, NEW msgs, Tell(box, msgs), NEW h \in Fiber
  PROVE  mailbox'[h] = box[h] \o msgs[h]
  BY DEF Tell

\* Messages that start no run loop.
LEMMA QuietMessages ==
  ASSUME NEW m \in Message, m.tag \notin {"Resume", "YieldNow"}, NEW h \in Fiber
  PROVE  /\ \A f \in Fiber : Quiet(To(f, m)[h])
         /\ \A S \in SUBSET Fiber : Quiet(ToAll(S, m)[h])
         /\ Quiet(Nothing[h]) /\ Orderly(Nothing[h])
  BY DEF Quiet, Orderly, To, ToAll, Nothing

\* What a fiber tells itself resumes it at most once.
LEMMA ResumeOrderly ==
  /\ \A e : Orderly(<<Resume(e)>>)
  /\ \A e : Orderly(<<YieldNow, Resume(e)>>)
  /\ Orderly(<<>>) /\ Quiet(<<>>)
  BY DEF Orderly, Quiet, Resume, YieldNow

\* What a callback tells resumes the one that waits, once, and if the callback
\* was called already, nobody.
LEMMA ResumptionOrderly ==
  ASSUME NEW f \in Fiber, NEW i, NEW e, NEW h \in Fiber
  PROVE  /\ Orderly(Resumption(f, i, e)[h])
         /\ h # f \/ i \in called[f] => Quiet(Resumption(f, i, e)[h])
<1>1. Resumption(f, i, e)[h] = IF i \notin called[f] /\ h = f THEN <<Resume(e)>> ELSE <<>>
  BY DEF Resumption, To, Nothing
<1> QED BY <1>1, ResumeOrderly

\* Quiet messages are told, and no run loop starts.
LEMMA TurnQuiet ==
  ASSUME TypeOK, TurnInv, NEW box, Clips(box),
         NEW msgs \in [Fiber -> Seq(Message)], \A h \in Fiber : Quiet(msgs[h]),
         Tell(box, msgs), UNCHANGED <<asyncs, called, status>>,
         \A h \in Fiber : Active(h)' => Active(h)
  PROVE  TurnInv'
<1> SUFFICES ASSUME NEW h \in Fiber
             PROVE  Turn(h)'
  BY DEF TurnInv
<1>1. mailbox'[h] = box[h] \o msgs[h] /\ box[h] \in Seq(Message) /\ msgs[h] \in Seq(Message)
  BY Told DEF Clips
<1>2. Turn(h) /\ Orderly(mailbox[h])
  BY DEF TurnInv, Turn
<1>3. Orderly(mailbox'[h]) /\ (Quiet(mailbox[h]) => Quiet(mailbox'[h]))
  BY <1>1, <1>2, QuietConcat DEF Clips
<1> QED BY <1>2, <1>3, TurnKept

\* Nothing is told, and no run loop starts.
LEMMA TurnStill ==
  ASSUME TypeOK, TurnInv, NEW box, Clips(box), mailbox' = box,
         UNCHANGED <<asyncs, called, status>>, \A h \in Fiber : Active(h)' => Active(h)
  PROVE  TurnInv'
<1> SUFFICES ASSUME NEW h \in Fiber
             PROVE  Turn(h)'
  BY DEF TurnInv
<1>1. Turn(h) /\ Orderly(mailbox[h])
  BY DEF TurnInv, Turn
<1> QED BY <1>1, TurnKept DEF Clips

\* The callback of async operation i of fiber g is called.
LEMMA TurnCalled ==
  ASSUME TypeOK, TurnInv, NEW box, Clips(box), NEW msgs \in [Fiber -> Seq(Message)],
         NEW g \in Fiber, NEW i \in 1..asyncs[g],
         \A h \in Fiber : Orderly(msgs[h]) /\ (h # g \/ i \in called[g] => Quiet(msgs[h])),
         Tell(box, msgs), MarkCalled(g, i), UNCHANGED <<asyncs, status>>,
         \A h \in Fiber : Active(h)' => Active(h)
  PROVE  TurnInv'
<1> SUFFICES ASSUME NEW h \in Fiber
             PROVE  Turn(h)'
  BY DEF TurnInv
<1>1. mailbox'[h] = box[h] \o msgs[h] /\ box[h] \in Seq(Message) /\ msgs[h] \in Seq(Message)
  BY Told DEF Clips
<1>2. Turn(h) /\ Orderly(mailbox[h])
  BY DEF TurnInv, Turn
<1>3. /\ called'[g] = called[g] \cup {i}
      /\ \A k \in Fiber : k # g => called'[k] = called[k]
  BY DEF MarkCalled, TypeOK
<1>4. CASE h # g \/ i \in called[g]
  <2>1. called'[h] = called[h]
    BY <1>3, <1>4
  <2>2. Orderly(mailbox'[h]) /\ (Quiet(mailbox[h]) => Quiet(mailbox'[h]))
    BY <1>1, <1>2, <1>4, QuietConcat DEF Clips
  <2> QED BY <1>2, <2>1, <2>2, TurnKept
<1>5. CASE h = g /\ i \notin called[g]
  <2>1. asyncs[g] \in Nat /\ i = asyncs[g] /\ Suspended(g)
    BY <1>2, <1>5 DEF Turn, Suspended, TypeOK
  <2>2. status[g] = "live" /\ ~Active(g) /\ Quiet(mailbox[g])
    BY <1>2, <1>5, <2>1 DEF Turn
  <2>3. Orderly(mailbox'[g])
    BY <1>1, <1>5, <2>2, QuietConcat DEF Clips
  <2>4. ~Suspended(g)'
    BY <1>3, <2>1 DEF Suspended
  <2>5. \A k \in 1..asyncs'[g] : k = asyncs'[g] \/ k \in called'[g]
    BY <1>2, <1>3, <1>5 DEF Turn
  <2> QED BY <1>5, <2>2, <2>3, <2>4, <2>5 DEF Turn
<1> QED BY <1>4, <1>5

\* A fiber gives up its run loop and sends itself the message that resumes it.
LEMMA TurnHandedOver ==
  ASSUME TypeOK, TurnInv, NEW f \in Fiber, Active(f), NEW msgs \in [Fiber -> Seq(Message)],
         \A h \in Fiber : Orderly(msgs[h]) /\ (h # f => Quiet(msgs[h])),
         Tell(mailbox, msgs), UNCHANGED <<asyncs, called, status>>,
         \A h \in Fiber : ~Active(h)'
  PROVE  TurnInv'
<1> SUFFICES ASSUME NEW h \in Fiber
             PROVE  Turn(h)'
  BY DEF TurnInv
<1>1. mailbox'[h] = mailbox[h] \o msgs[h] /\ mailbox[h] \in Seq(Message) /\ msgs[h] \in Seq(Message)
  BY Told DEF TypeOK
<1>2. Turn(h) /\ Orderly(mailbox[h])
  BY DEF TurnInv, Turn
<1>3. CASE h # f
  BY <1>1, <1>2, <1>3, QuietConcat, TurnKept
<1>4. CASE h = f
  <2>1. Quiet(mailbox[h]) /\ status[h] = "live" /\ ~Suspended(h)
    BY <1>2, <1>4 DEF Turn
  <2>2. Orderly(mailbox'[h])
    BY <1>1, <2>1, QuietConcat
  <2> QED BY <1>2, <2>1, <2>2 DEF Turn, Suspended
<1> QED BY <1>3, <1>4

----------------------------------------------------------------------------
(* The ids of async operations.  A callback that somebody may call was      *)
(* handed out, and who withdraws an observer no longer needs its call.      *)

KnownMessage  == {m \in Message : /\ m.tag = "Observe" => m.id \in 1..asyncs[m.by]
                                  /\ m.tag = "Unobserve" => m.id \in called[m.by] \cup {0}}
KnownObserver == {o \in Observer : o.kind = "await" => o.id \in 1..asyncs[o.by]}

IdsInv == /\ \A f \in Fiber : interruptor[f] <= asyncs[f]
          /\ mailbox \in [Fiber -> Seq(KnownMessage)]
          /\ observers \in [Fiber -> Seq(KnownObserver)]


\* Giving up the thread leaves nobody at work.
LEMMA NobodyActive ==
  ASSUME Release
  PROVE  \A h \in Fiber : ~Active(h)'
  BY DEF Release, Active

\* The callback a Stateful message or an observer holds was handed out.
LEMMA HeadKnown ==
  ASSUME IdsInv, NEW f \in Fiber, mailbox[f] # <<>>
  PROVE  Head(mailbox[f]) \in KnownMessage
  BY HeadTailProperties DEF IdsInv

\* The steps of a drain.
LEMMA TurnDrain ==
  ASSUME TypeOK, TurnInv, IdsInv, NEW f \in Fiber,
         Finally(f) \/ DrainDone(f) \/ DrainYieldNow(f) \/ DrainResume(f) \/ DrainInterrupt(f)
  PROVE  TurnInv'
<1>1. CASE Finally(f) \/ DrainDone(f)
  <2>1. mailbox' = mailbox /\ UNCHANGED <<asyncs, called, status>> /\ Release
    BY <1>1 DEF Finally, DrainDone, async, family
  <2> QED BY <2>1, TurnStill, ClipsMailbox, NobodyActive
<1>2. CASE DrainYieldNow(f)
  <2>1. mailbox' = Box(f, Tail(mailbox[f])) /\ mailbox[f] # <<>>
        /\ UNCHANGED <<asyncs, called, status>> /\ Release
    BY <1>2 DEF DrainYieldNow, HeadIs, async, family
  <2> QED BY <2>1, TurnStill, ClipsBox, NobodyActive
<1>3. CASE DrainResume(f)
  <2>1. /\ current = f /\ pc = "drain" /\ mailbox[f] # <<>> /\ Head(mailbox[f]).tag = "Resume"
        /\ mailbox' = Box(f, Tail(mailbox[f])) /\ UNCHANGED <<asyncs, called, status, current>>
    BY <1>3 DEF DrainResume, Draining, HeadIs, GoTo, family
  <2>2. mailbox[f] \in Seq(Message) /\ mailbox \in [Fiber -> Seq(Message)]
    BY DEF TypeOK
  <2>3. Turn(f)
    BY DEF TurnInv
  <2>4. ~Quiet(mailbox[f])
    BY <2>1, <2>2, QuietTail
  <2>5. Turn(f)'
    <3>1. mailbox'[f] = Tail(mailbox[f])
      BY <2>1, <2>2 DEF Box
    <3>2. Quiet(mailbox'[f]) /\ Orderly(mailbox'[f])
      BY <2>1, <2>2, <2>3, <3>1, QuietTail DEF Turn
    <3> QED BY <2>1, <2>3, <2>4, <3>2 DEF Turn, Suspended
  <2>6. ASSUME NEW h \in Fiber, h # f
        PROVE  Turn(h)'
    <3>1. mailbox'[h] = mailbox[h] /\ Turn(h)
      BY <2>1, <2>2, <2>6 DEF Box, TurnInv
    <3>2. ~Active(h)'
      BY <2>1, <2>6 DEF Active
    <3> QED BY <2>1, <3>1, <3>2, TurnKept DEF Turn
  <2> QED BY <2>5, <2>6 DEF TurnInv
<1>4. CASE DrainInterrupt(f)
  <2> DEFINE i == interruptor[f]
             wake == IF i = 0 THEN Nothing ELSE Resumption(f, i, Failure(Interrupted))
             signal == ToAll(children[f], InterruptSignal)
             both == [g \in Fiber |-> signal[g] \o wake[g]]
             box == Box(f, Tail(mailbox[f]))
  <2>1. /\ Tell(box, both) /\ mailbox[f] # <<>>
        /\ IF i = 0 THEN UNCHANGED called ELSE MarkCalled(f, i)
        /\ UNCHANGED <<asyncs, status, current, pc>>
    BY <1>4 DEF DrainInterrupt, HeadIs, thread, family
  <2>2. i \in Nat /\ children[f] \in SUBSET Fiber /\ i <= asyncs[f] /\ asyncs[f] \in Nat
    BY DEF TypeOK, IdsInv
  <2>3. wake \in [Fiber -> Seq(Message)] /\ signal \in [Fiber -> Seq(Message)]
    BY <2>2, MessagesType, MessageConstructors, EffectConstructors, ExitConstructors
  <2>4. \A h \in Fiber : Quiet(signal[h])
    BY <2>2, QuietMessages, MessageConstructors DEF InterruptSignal
  <2>5. \A h \in Fiber : Active(h)' => Active(h)
    BY <2>1 DEF Active
  <2>6. Clips(box)
    BY <2>1, ClipsBox
  <2>7. \A h \in Fiber : Orderly(wake[h]) /\ (h # f \/ i = 0 \/ i \in called[f] => Quiet(wake[h]))
    BY ResumptionOrderly, ResumeOrderly DEF Nothing
  <2> HIDE DEF wake, signal, box
  <2>8. both \in [Fiber -> Seq(Message)]
    BY <2>3, BothType
  <2>9. \A h \in Fiber : both[h] = signal[h] \o wake[h]
    OBVIOUS
  <2> HIDE DEF both, i
  <2>10. \A h \in Fiber : Orderly(both[h]) /\ (h # f \/ i = 0 \/ i \in called[f] => Quiet(both[h]))
    <3> TAKE h \in Fiber
    <3>1. wake[h] \in Seq(Message) /\ signal[h] \in Seq(Message)
      BY <2>3
    <3>2. /\ Quiet(signal[h]) /\ Orderly(wake[h]) => Orderly(signal[h] \o wake[h])
          /\ Quiet(signal[h] \o wake[h]) <=> Quiet(signal[h]) /\ Quiet(wake[h])
      BY <3>1, QuietConcat
    <3>3. Quiet(signal[h]) /\ both[h] = signal[h] \o wake[h]
      BY <2>4, <2>9
    <3>4. Orderly(both[h]) /\ (Quiet(wake[h]) => Quiet(both[h]))
      BY <2>7, <3>2, <3>3
    <3> QED BY <2>7, <3>4
  <2>11. CASE i = 0
    BY <2>1, <2>5, <2>6, <2>8, <2>10, <2>11, TurnQuiet
  <2>12. CASE i # 0
    <3>1. i \in 1..asyncs[f]
      BY <2>2, <2>12
    <3> QED BY <2>1, <2>5, <2>6, <2>8, <2>10, <2>12, <3>1, TurnCalled
  <2> QED BY <2>11, <2>12
<1> QED BY <1>1, <1>2, <1>3, <1>4

\* The closures of Stateful messages.
LEMMA TurnStateful ==
  ASSUME TypeOK, TurnInv, IdsInv, NEW f \in Fiber, IsStateful(f), Stateful(f, Head(mailbox[f])),
         UNCHANGED <<thread, asyncs, status>>
  PROVE  TurnInv'
<1> DEFINE m == Head(mailbox[f])
           box == Box(f, Tail(mailbox[f]))
<1>1. mailbox[f] # <<>> /\ Clips(box)
  BY ClipsBox DEF IsStateful
<1>2. m \in KnownMessage /\ m \in Message
  BY <1>1, HeadKnown DEF KnownMessage
<1>3. \A h \in Fiber : Active(h)' => Active(h)
  BY DEF Active, thread
<1>4. CASE Tell(box, Nothing) /\ UNCHANGED called
  <2>1. Nothing \in [Fiber -> Seq(Message)] /\ \A h \in Fiber : Quiet(Nothing[h])
    BY MessagesType, ResumeOrderly DEF Nothing
  <2> HIDE DEF box
  <2> QED BY <1>1, <1>3, <1>4, <2>1, TurnQuiet
<1>5. CASE m.tag = "Observe" /\ Tell(box, Resumption(m.by, m.id, Unit)) /\ MarkCalled(m.by, m.id)
  <2>1. m.by \in Fiber /\ m.id \in 1..asyncs[m.by] /\ m.id \in Nat
    BY <1>2, <1>5, MessageParts DEF KnownMessage
  <2>2. Resumption(m.by, m.id, Unit) \in [Fiber -> Seq(Message)]
    BY <2>1, MessagesType, EffectConstructors
  <2> HIDE DEF box, m
  <2> QED BY <1>1, <1>3, <1>5, <2>1, <2>2, ResumptionOrderly, TurnCalled
<1> QED BY <1>4, <1>5 DEF Stateful

\* Messages that reach a fiber, and steps of a program that touch no turn.
LEMMA TurnAlone ==
  ASSUME TypeOK, TurnInv, IdsInv, NEW f \in Fiber,
         \/ DrainStateful(f) \/ LoopStateful(f) \/ LoopInterrupt(f) \/ ForcedYield(f)
         \/ Finish(f) \/ FlatMap(f) \/ CatchAll(f) \/ EnterRegion(f) \/ OnExit(f)
         \/ YieldOp(f) \/ AwaitOp(f) \/ InterruptAsFork(f)
  PROVE  TurnInv'
<1>1. CASE DrainStateful(f) \/ LoopStateful(f)
  BY <1>1, TurnStateful DEF DrainStateful, LoopStateful
<1>2. CASE LoopInterrupt(f)
  <2>1. /\ Tell(Box(f, Tail(mailbox[f])), ToAll(children[f], InterruptSignal))
        /\ mailbox[f] # <<>> /\ UNCHANGED <<asyncs, called, status>>
        /\ \A h \in Fiber : Active(h)' => Active(h)
    BY <1>2 DEF LoopInterrupt, Looping, HeadIs, GoTo, async, family, Active
  <2>2. children[f] \in SUBSET Fiber /\ InterruptSignal \in Message
    BY MessageConstructors DEF TypeOK
  <2>3. ToAll(children[f], InterruptSignal) \in [Fiber -> Seq(Message)]
        /\ \A h \in Fiber : Quiet(ToAll(children[f], InterruptSignal)[h])
    BY <2>2, MessagesType, QuietMessages DEF InterruptSignal
  <2>4. Clips(Box(f, Tail(mailbox[f])))
    BY <2>1, ClipsBox
  <2> QED BY <2>1, <2>3, <2>4, TurnQuiet
<1>3. CASE \/ ForcedYield(f) \/ Finish(f) \/ FlatMap(f) \/ CatchAll(f) \/ EnterRegion(f)
           \/ OnExit(f) \/ YieldOp(f) \/ AwaitOp(f)
  <2>1. /\ mailbox' = mailbox /\ UNCHANGED <<asyncs, called, status>>
        /\ \A h \in Fiber : Active(h)' => Active(h)
    BY <1>3 DEF ForcedYield, Finish, FlatMap, CatchAll, EnterRegion, OnExit, Mask, YieldOp, AwaitOp,
       Chooses, Ready, Looping, GoTo, async, family, inbox, Active
  <2> QED BY <2>1, TurnStill, ClipsMailbox
<1>4. CASE InterruptAsFork(f)
  <2>1. PICK g \in Fiber : Tell(mailbox, To(g, InterruptSignal))
    BY <1>4 DEF InterruptAsFork
  <2>2. /\ UNCHANGED <<asyncs, called, status>>
        /\ \A h \in Fiber : Active(h)' => Active(h)
    BY <1>4 DEF InterruptAsFork, Chooses, Ready, Looping, GoTo, async, family, Active
  <2>3. To(g, InterruptSignal) \in [Fiber -> Seq(Message)]
        /\ \A h \in Fiber : Quiet(To(g, InterruptSignal)[h])
    BY MessagesType, MessageConstructors, QuietMessages DEF InterruptSignal
  <2> QED BY <2>1, <2>2, <2>3, TurnQuiet, ClipsMailbox
<1> QED BY <1>1, <1>2, <1>3, <1>4


\* What starts one run loop, after what starts none.
LEMMA QuietBefore ==
  ASSUME NEW s \in Seq(Message), NEW t \in Seq(Message), Quiet(s)
  PROVE  /\ Orderly(t) => Orderly(s \o t)
         /\ Quiet(t) => Quiet(s \o t)
  BY QuietConcat

\* An async operation is initiated, and the run loop left: the callback is the
\* turn of the fiber, or it was called already.
LEMMA TurnInitiated ==
  ASSUME TypeOK, TurnInv, NEW f \in Fiber, Active(f), NEW msgs \in [Fiber -> Seq(Message)],
         \A h \in Fiber : Orderly(msgs[h]) /\ (h # f => Quiet(msgs[h])),
         Tell(mailbox, msgs), UNCHANGED status, asyncs' = [asyncs EXCEPT ![f] = @ + 1],
         (UNCHANGED called /\ Quiet(msgs[f])) \/ MarkCalled(f, asyncs[f] + 1),
         \A h \in Fiber : ~Active(h)'
  PROVE  TurnInv'
<1> SUFFICES ASSUME NEW h \in Fiber
             PROVE  Turn(h)'
  BY DEF TurnInv
<1>1. mailbox'[h] = mailbox[h] \o msgs[h] /\ mailbox[h] \in Seq(Message) /\ msgs[h] \in Seq(Message)
  BY Told DEF TypeOK
<1>2. Turn(h) /\ Orderly(mailbox[h])
  BY DEF TurnInv, Turn
<1>3. asyncs[h] \in Nat /\ called[h] \in SUBSET Nat
  BY DEF TypeOK
<1>4. CASE h # f
  <2>1. called'[h] = called[h] /\ asyncs'[h] = asyncs[h]
    BY <1>4 DEF MarkCalled, TypeOK
  <2>2. Orderly(mailbox'[h]) /\ (Quiet(mailbox[h]) => Quiet(mailbox'[h]))
    BY <1>1, <1>2, <1>4, QuietConcat
  <2> QED BY <1>2, <2>1, <2>2, TurnKept
<1>5. CASE h = f
  <2>1. Quiet(mailbox[h]) /\ status[h] = "live" /\ ~Suspended(h)
    BY <1>2, <1>5 DEF Turn
  <2>2. Orderly(mailbox'[h])
    BY <1>1, <2>1, QuietConcat
  <2>3. asyncs'[h] = asyncs[h] + 1
    BY <1>5 DEF TypeOK
  <2>4. /\ called'[h] = called[h] \/ called'[h] = called[h] \cup {asyncs'[h]}
        /\ called[h] \subseteq called'[h]
    BY <1>5, <2>3, SMTT(30) DEF MarkCalled, TypeOK
  <2>5. \A k \in 1..asyncs'[h] : k = asyncs'[h] \/ k \in called'[h]
    <3> TAKE k \in 1..asyncs'[h]
    <3> SUFFICES ASSUME k # asyncs'[h]
                 PROVE  k \in called'[h]
      OBVIOUS
    <3>1. k \in 1..asyncs[h] /\ asyncs[h] > 0
      BY <1>3, <2>3
    <3>2. asyncs[h] \in called[h]
      BY <2>1, <3>1 DEF Suspended
    <3> QED BY <1>2, <2>4, <3>1, <3>2 DEF Turn
  <2>6. Quiet(mailbox'[h]) \/ ~Suspended(h)'
    <3>1. CASE Quiet(msgs[f])
      BY <1>1, <1>5, <2>1, <3>1, QuietConcat
    <3>2. CASE MarkCalled(f, asyncs[f] + 1)
      BY <1>5, <2>3, <3>2 DEF MarkCalled, Suspended, TypeOK
    <3> QED BY <3>1, <3>2
  <2> QED BY <2>1, <2>2, <2>5, <2>6 DEF Turn
<1> QED BY <1>4, <1>5

\* Suspending, on a callback or on another fiber.
LEMMA TurnSuspend ==
  ASSUME TypeOK, TurnInv, NEW f \in Fiber, SuspendAsync(f) \/ EvalAwaitAsync(f)
  PROVE  TurnInv'
<1>1. Active(f)
  BY DEF SuspendAsync, EvalAwaitAsync, Chooses, Ready, Looping, Active
<1>2. /\ asyncs' = [asyncs EXCEPT ![f] = @ + 1] /\ UNCHANGED status
      /\ \A h \in Fiber : ~Active(h)'
  BY DEF SuspendAsync, EvalAwaitAsync, Initiate, GoTo, AfterEvaluate, family, Active
<1>3. asyncs[f] + 1 \in Nat
  BY SMTT(30) DEF TypeOK
<1>4. CASE SuspendAsync(f)
  <2> DEFINE wake == To(f, Resume(Unit))
  <2>1. Resume(Unit) \in Message
    BY EffectConstructors, MessageConstructors
  <2>2. wake \in [Fiber -> Seq(Message)] /\ Nothing \in [Fiber -> Seq(Message)]
    BY <2>1, MessagesType
  <2>3. \A h \in Fiber : Orderly(wake[h]) /\ (h # f => Quiet(wake[h]))
    BY ResumeOrderly DEF To
  <2>4. \A h \in Fiber : Orderly(Nothing[h]) /\ Quiet(Nothing[h])
    BY ResumeOrderly DEF Nothing
  <2>5. \/ Tell(mailbox, Nothing) /\ UNCHANGED called
        \/ Tell(mailbox, wake) /\ MarkCalled(f, asyncs[f] + 1)
    BY <1>4 DEF SuspendAsync
  <2> HIDE DEF wake
  <2>6. CASE Tell(mailbox, Nothing) /\ UNCHANGED called
    BY <1>1, <1>2, <2>2, <2>4, <2>6, TurnInitiated
  <2>7. CASE Tell(mailbox, wake) /\ MarkCalled(f, asyncs[f] + 1)
    BY <1>1, <1>2, <2>2, <2>3, <2>7, TurnInitiated
  <2> QED BY <2>5, <2>6, <2>7
<1>5. CASE EvalAwaitAsync(f)
  <2> DEFINE note == Observe(f, asyncs[f] + 1)
  <2>1. cur.of \in Fiber /\ UNCHANGED called
    BY <1>5, EffectParts DEF EvalAwaitAsync, TypeOK
  <2>2. note \in Message /\ note.tag = "Observe"
    BY <1>3, MessageConstructors DEF Observe
  <2>3. Tell(mailbox, To(cur.of, note))
    BY <1>5 DEF EvalAwaitAsync
  <2> HIDE DEF note
  <2> DEFINE msgs == To(cur.of, note)
  <2>4. msgs \in [Fiber -> Seq(Message)]
    BY <2>1, <2>2, MessagesType
  <2>5. \A h \in Fiber : Quiet(msgs[h])
    BY <2>1, <2>2, QuietMessages
  <2>6. \A h \in Fiber : Orderly(msgs[h])
    <3>1. \A h \in Fiber : msgs[h] = <<note>> \/ msgs[h] = <<>>
      BY DEF To
    <3>2. Orderly(<<note>>)
      BY <2>2 DEF Orderly
    <3> QED BY <3>1, <3>2, ResumeOrderly
  <2> HIDE DEF msgs
  <2> QED BY <1>1, <1>2, <2>1, <2>3, <2>4, <2>5, <2>6, TurnInitiated DEF msgs
<1> QED BY <1>4, <1>5

\* A fiber is forked: its turn is the Resume it is sent.
LEMMA TurnFork ==
  ASSUME TypeOK, TurnInv, NEW f \in Fiber, Fork(f)
  PROVE  TurnInv'
<1>1. PICK c \in Fiber, daemon \in BOOLEAN :
        /\ status[c] = "new" /\ status' = [status EXCEPT ![c] = "live"]
        /\ Tell(mailbox, [g \in Fiber |-> (IF daemon THEN Nothing ELSE To(f, AddChild(c)))[g]
                                            \o To(c, Resume(Prog))[g]])
  BY DEF Fork
<1>2. /\ Active(f) /\ \A h \in Fiber : Active(h)' => h = f
      /\ UNCHANGED <<asyncs, called>>
  BY DEF Fork, Chooses, Ready, Looping, GoTo, Active, async
<1> DEFINE adopt == IF daemon THEN Nothing ELSE To(f, AddChild(c))
           start == To(c, Resume(Prog))
           both == [g \in Fiber |-> adopt[g] \o start[g]]
<1>3. AddChild(c) \in Message /\ Resume(Prog) \in Message /\ AddChild(c).tag = "AddChild"
  BY MessageConstructors, EffectConstructors DEF AddChild
<1>4. adopt \in [Fiber -> Seq(Message)] /\ start \in [Fiber -> Seq(Message)]
  BY <1>3, MessagesType
<1>5. \A h \in Fiber : Quiet(adopt[h])
  BY <1>3, QuietMessages
<1>6. \A h \in Fiber : Orderly(start[h]) /\ (h # c => Quiet(start[h]))
  BY ResumeOrderly DEF To
<1>7. Tell(mailbox, both)
  BY <1>1
<1> HIDE DEF adopt, start
<1>8. both \in [Fiber -> Seq(Message)] /\ \A h \in Fiber : both[h] = adopt[h] \o start[h]
  BY <1>4, BothType
<1> HIDE DEF both
<1> SUFFICES ASSUME NEW h \in Fiber
             PROVE  Turn(h)'
  BY DEF TurnInv
<1>9. Orderly(both[h]) /\ (h # c => Quiet(both[h]))
  <2>1. /\ adopt[h] \in Seq(Message) /\ start[h] \in Seq(Message) /\ Quiet(adopt[h])
        /\ both[h] = adopt[h] \o start[h]
    BY <1>4, <1>5, <1>8
  <2>2. Orderly(both[h]) /\ (Quiet(start[h]) => Quiet(both[h]))
    BY <1>6, <2>1, QuietBefore
  <2> QED BY <1>6, <2>2
<1>10. mailbox'[h] = mailbox[h] \o both[h] /\ mailbox[h] \in Seq(Message) /\ both[h] \in Seq(Message)
  <2>1. mailbox'[h] = mailbox[h] \o both[h]
    BY <1>7, Told
  <2>2. mailbox[h] \in Seq(Message)
    BY DEF TypeOK
  <2>3. both[h] \in Seq(Message)
    BY <1>8
  <2> QED BY <2>1, <2>2, <2>3
<1>11. Turn(h) /\ Orderly(mailbox[h]) /\ Turn(f) /\ status[f] = "live"
  BY <1>2 DEF TurnInv, Turn
<1>12. CASE h # c
  <2>1. Orderly(mailbox'[h]) /\ (Quiet(mailbox[h]) => Quiet(mailbox'[h]))
    BY <1>9, <1>10, <1>11, <1>12, QuietConcat
  <2>2. status'[h] = status[h] /\ (Active(h)' => Active(h))
    BY <1>1, <1>2, <1>12 DEF TypeOK
  <2> QED BY <1>2, <1>11, <2>1, <2>2, TurnKept
<1>13. CASE h = c
  <2>1. Quiet(mailbox[h]) /\ ~Suspended(h) /\ ~Active(h)'
    BY <1>1, <1>2, <1>11, <1>13 DEF Turn
  <2>2. Orderly(mailbox'[h]) /\ status'[h] = "live"
    BY <1>1, <1>9, <1>10, <1>13, <2>1, QuietConcat DEF TypeOK
  <2> QED BY <1>2, <1>11, <2>1, <2>2 DEF Turn, Suspended
<1> QED BY <1>12, <1>13

\* Calling the callback of the operation a fiber is suspended on, by a program
\* or from outside.
LEMMA TurnComplete ==
  ASSUME TypeOK, TurnInv, NEW g \in Fiber, HoldsCallback(g), NEW e \in Effect,
         Tell(mailbox, Resumption(g, asyncs[g], e)), MarkCalled(g, asyncs[g]),
         UNCHANGED <<asyncs, status>>, \A h \in Fiber : Active(h)' => Active(h)
  PROVE  TurnInv'
<1> DEFINE msgs == Resumption(g, asyncs[g], e)
<1>1. asyncs[g] \in Nat /\ asyncs[g] \in 1..asyncs[g]
  BY SMTT(30) DEF HoldsCallback, TypeOK
<1>2. msgs \in [Fiber -> Seq(Message)]
  BY <1>1, MessagesType
<1>3. \A h \in Fiber : Orderly(msgs[h]) /\ (h # g \/ asyncs[g] \in called[g] => Quiet(msgs[h]))
  BY ResumptionOrderly
<1> HIDE DEF msgs
<1>4. Tell(mailbox, msgs)
  BY DEF msgs
<1> QED BY <1>1, <1>2, <1>3, <1>4, TurnCalled, ClipsMailbox

\* What happens outside the run loop gives no fiber a second turn.
LEMMA TurnOutside ==
  ASSUME TypeOK, TurnInv, NEW g \in Fiber,
         StartRoot \/ Run(g) \/ OutsideCompletes(g) \/ OutsideInterrupts(g) \/ Complete(g)
  PROVE  TurnInv'
<1>0. Unit \in Effect /\ Failure({"Fail"}) \in Effect
  BY EffectConstructors, ExitConstructors
<1>1. CASE StartRoot
  <2>1. /\ current = NoFiber /\ status[Root] = "new" /\ UNCHANGED <<mailbox, asyncs, called>>
        /\ current' = Root /\ status' = [status EXCEPT ![Root] = "live"]
    BY <1>1 DEF StartRoot, async
  <2>2. ASSUME NEW h \in Fiber, h # Root
        PROVE  Turn(h)'
    <3>1. Turn(h) /\ Orderly(mailbox[h])
      BY DEF TurnInv, Turn
    <3>2. status'[h] = status[h] /\ ~Active(h)'
      BY <2>1, <2>2 DEF TypeOK, Active
    <3> QED BY <2>1, <3>1, <3>2, TurnKept
  <2>3. Turn(Root)'
    <3>1. Turn(Root) /\ ~Suspended(Root) /\ Quiet(mailbox[Root]) /\ Orderly(mailbox[Root])
      BY <2>1, FiberAssumption DEF TurnInv, Turn
    <3>2. status'[Root] = "live"
      BY <2>1, FiberAssumption DEF TypeOK
    <3> QED BY <2>1, <3>1, <3>2 DEF Turn, Suspended
  <2> QED BY <2>2, <2>3 DEF TurnInv
<1>2. CASE Run(g)
  <2>1. mailbox' = mailbox /\ UNCHANGED <<asyncs, called, status>> /\ pc' = "drain"
    BY <1>2 DEF Run, async, family
  <2>2. \A h \in Fiber : Active(h)' => Active(h)
    BY <2>1 DEF Active
  <2> QED BY <2>1, <2>2, TurnStill, ClipsMailbox
<1>3. CASE OutsideCompletes(g)
  <2>1. PICK e \in {Unit, Failure({"Fail"})} : Tell(mailbox, Resumption(g, asyncs[g], e))
    BY <1>3 DEF OutsideCompletes
  <2>2. /\ HoldsCallback(g) /\ MarkCalled(g, asyncs[g]) /\ UNCHANGED <<asyncs, status>>
        /\ \A h \in Fiber : Active(h)' => Active(h)
    BY <1>3 DEF OutsideCompletes, family, thread, Active
  <2> QED BY <1>0, <2>1, <2>2, TurnComplete
<1>4. CASE OutsideInterrupts(g)
  <2>1. Tell(mailbox, To(g, InterruptSignal)) /\ UNCHANGED <<asyncs, called, status>>
        /\ \A h \in Fiber : Active(h)' => Active(h)
    BY <1>4 DEF OutsideInterrupts, family, thread, async, Active
  <2>2. To(g, InterruptSignal) \in [Fiber -> Seq(Message)]
        /\ \A h \in Fiber : Quiet(To(g, InterruptSignal)[h])
    BY MessagesType, MessageConstructors, QuietMessages DEF InterruptSignal
  <2> QED BY <2>1, <2>2, TurnQuiet, ClipsMailbox
<1>5. CASE Complete(g)
  <2>1. PICK h \in Fiber : /\ HoldsCallback(h) /\ Tell(mailbox, Resumption(h, asyncs[h], Unit))
                           /\ MarkCalled(h, asyncs[h])
    BY <1>5 DEF Complete
  <2>2. UNCHANGED <<asyncs, status>> /\ \A k \in Fiber : Active(k)' => Active(k)
    BY <1>5 DEF Complete, Chooses, Ready, Looping, GoTo, family, Active
  <2> QED BY <1>0, <2>1, <2>2, TurnComplete
<1> QED BY <1>1, <1>2, <1>3, <1>4, <1>5

\* The effects the library builds, and the continuations.
LEMMA TurnEval ==
  ASSUME TypeOK, TurnInv, NEW f \in Fiber,
         \/ EvalYield(f) \/ EvalRegion(f) \/ EvalAwait(f) \/ EvalJoin(f)
         \/ EvalSuccess(f) \/ EvalFailure(f) \/ NotifyDone(f)
         \/ CleanupAfterSuccess(f) \/ CleanupAfterFailure(f)
  PROVE  TurnInv'
<1>1. CASE EvalYield(f)
  <2>1. Active(f) /\ UNCHANGED <<asyncs, called, status>>
    BY <1>1 DEF EvalYield, Ready, Looping, Active, async, family
  <2>2. CASE f \in CooperativeYielding
    <3> DEFINE two == [g \in Fiber |-> IF g = f THEN <<YieldNow, Resume(Unit)>> ELSE <<>>]
    <3>1. Tell(mailbox, two) /\ \A h \in Fiber : ~Active(h)'
      BY <1>1, <2>2 DEF EvalYield, GoTo, AfterEvaluate, Active
    <3>2. two \in [Fiber -> Seq(Message)]
      BY MessageConstructors, EffectConstructors, TwoType
    <3>3. \A h \in Fiber : Orderly(two[h]) /\ (h # f => Quiet(two[h]))
      BY ResumeOrderly
    <3> HIDE DEF two
    <3> QED BY <2>1, <3>1, <3>2, <3>3, TurnHandedOver
  <2>3. CASE f \notin CooperativeYielding
    <3>1. mailbox' = mailbox /\ \A h \in Fiber : Active(h)' => Active(h)
      BY <1>1, <2>1, <2>3 DEF EvalYield, GoTo, inbox, Active
    <3> QED BY <2>1, <3>1, TurnStill, ClipsMailbox
  <2> QED BY <2>2, <2>3
<1>2. CASE EvalRegion(f) \/ EvalAwait(f) \/ EvalJoin(f) \/ NotifyDone(f)
  <2>1. /\ mailbox' = mailbox /\ UNCHANGED <<asyncs, called, status>>
        /\ \A h \in Fiber : Active(h)' => Active(h)
    BY <1>2 DEF EvalRegion, EvalAwait, EvalJoin, NotifyDone, Mask, Ready, Looping, GoTo,
                AfterEvaluate, async, family, inbox, Active
  <2> QED BY <2>1, TurnStill, ClipsMailbox
<1>3. CASE EvalSuccess(f) \/ EvalFailure(f)
  <2>1. /\ mailbox' = mailbox /\ UNCHANGED <<asyncs, called, status>>
        /\ \A h \in Fiber : Active(h)' => Active(h)
    BY <1>3 DEF EvalSuccess, EvalFailure, Evaluating, Skip, Use, UseRevert, GoTo,
                async, family, inbox, Active
  <2> QED BY <2>1, TurnStill, ClipsMailbox
<1>4. CASE CleanupAfterSuccess(f) \/ CleanupAfterFailure(f)
  <2>1. /\ UNCHANGED <<asyncs, called, status>>
        /\ \A h \in Fiber : Active(h)' => Active(h)
    BY <1>4 DEF CleanupAfterSuccess, CleanupAfterFailure, Evaluating, GoTo, async, family, Active
  <2>2. CASE UNCHANGED inbox
    BY <2>1, <2>2, TurnStill, ClipsMailbox DEF inbox
  <2>3. CASE /\ CleanupAfterFailure(f) /\ Top(f).h.kind = "canceler"
             /\ Tell(mailbox, To(Top(f).h.of, Unobserve(f, Top(f).h.id)))
    <3>1. stack[f] # <<>> /\ Top(f).tag = "Cleanup"
      BY <2>3 DEF CleanupAfterFailure, TopIs, Empty
    <3>2. Top(f).h \in Handler
      BY <3>1, PoppedType, FrameParts
    <3>3. Top(f).h.of \in Fiber /\ Top(f).h.id \in Nat
      BY <2>3, <3>2, HandlerParts
    <3> DEFINE note == Unobserve(f, Top(f).h.id)
               g == Top(f).h.of
    <3>4. note \in Message /\ note.tag = "Unobserve"
      BY <3>3, MessageConstructors DEF Unobserve
    <3>5. Tell(mailbox, To(g, note))
      BY <2>3
    <3> HIDE DEF note
    <3>6. To(g, note) \in [Fiber -> Seq(Message)] /\ \A h \in Fiber : Quiet(To(g, note)[h])
      BY <3>3, <3>4, MessagesType, QuietMessages
    <3> QED BY <2>1, <3>5, <3>6, TurnQuiet, ClipsMailbox
  <2>4. UNCHANGED inbox \/ /\ CleanupAfterFailure(f) /\ Top(f).h.kind = "canceler"
                           /\ Tell(mailbox, To(Top(f).h.of, Unobserve(f, Top(f).h.id)))
    BY <1>4 DEF CleanupAfterSuccess, CleanupAfterFailure
  <2> QED BY <2>2, <2>3, <2>4
<1> QED BY <1>1, <1>2, <1>3, <1>4

\* The end of a fiber.
LEMMA TurnLeave ==
  ASSUME TypeOK, InRange, TurnInv, IdsInv, NEW f \in Fiber,
         LeaveChildren(f) \/ LeaveMessages(f) \/ SetExitValue(f) \/ Notify(f)
  PROVE  TurnInv'
<1>1. CASE LeaveChildren(f)
  <2>1. /\ Tell(mailbox, ToAll(children[f], InterruptSignal))
        /\ UNCHANGED <<asyncs, called, status>>
        /\ \A h \in Fiber : Active(h)' => Active(h)
    BY <1>1 DEF LeaveChildren, Leaving, GoTo, async, Active
  <2>2. children[f] \in SUBSET Fiber /\ InterruptSignal \in Message
    BY MessageConstructors DEF TypeOK
  <2>3. ToAll(children[f], InterruptSignal) \in [Fiber -> Seq(Message)]
        /\ \A h \in Fiber : Quiet(ToAll(children[f], InterruptSignal)[h])
    BY <2>2, MessagesType, QuietMessages DEF InterruptSignal
  <2> QED BY <2>1, <2>3, TurnQuiet, ClipsMailbox
<1>2. CASE LeaveMessages(f)
  <2> DEFINE e == ExitEffect(ExitOf(cur))
             last == To(f, Resume(e))
  <2>1. /\ Active(f) /\ Tell(mailbox, last) /\ UNCHANGED <<asyncs, called, status>>
        /\ \A h \in Fiber : ~Active(h)'
    BY <1>2 DEF LeaveMessages, Leaving, GoTo, AfterEvaluate, async, family, Active
  <2>2. e \in Effect
    BY <1>2, ExitOfType, EffectConstructors DEF LeaveMessages, Leaving, TypeOK
  <2> HIDE DEF e
  <2>3. last \in [Fiber -> Seq(Message)]
    BY <2>2, MessageConstructors, MessagesType
  <2>4. \A h \in Fiber : Orderly(last[h]) /\ (h # f => Quiet(last[h]))
    BY ResumeOrderly DEF To
  <2> HIDE DEF last
  <2> QED BY <2>1, <2>3, <2>4, TurnHandedOver
<1>3. CASE SetExitValue(f)
  <2>1. /\ Active(f) /\ mailbox' = mailbox /\ UNCHANGED <<asyncs, called>>
        /\ status' = [status EXCEPT ![f] = "done"] /\ \A h \in Fiber : ~Active(h)'
    BY <1>3 DEF SetExitValue, Leaving, async, inbox, Active
  <2> SUFFICES ASSUME NEW h \in Fiber
               PROVE  Turn(h)'
    BY DEF TurnInv
  <2>2. Turn(h) /\ Orderly(mailbox[h])
    BY DEF TurnInv, Turn
  <2>3. CASE h = f
    <3>1. Quiet(mailbox[h]) /\ ~Suspended(h)
      BY <2>1, <2>2, <2>3 DEF Turn
    <3> QED BY <2>1, <2>2, <3>1 DEF Turn, Suspended
  <2>4. CASE h # f
    <3>1. status'[h] = status[h]
      BY <2>1, <2>4 DEF TypeOK
    <3> QED BY <2>1, <2>2, <3>1, TurnKept
  <2> QED BY <2>3, <2>4
<1>4. CASE Notify(f)
  <2> DEFINE o == observers[f][next]
  <2>1. UNCHANGED <<asyncs, status>> /\ \A h \in Fiber : Active(h)' => Active(h)
    BY <1>4 DEF Notify, Active
  <2>2. o \in KnownObserver
    <3>1. observers[f] \in Seq(KnownObserver) /\ next \in Nat /\ observers[f] \in Seq(Observer)
      BY DEF IdsInv, TypeOK
    <3>2. next \in 1..Len(observers[f])
      BY <1>4, <3>1, LenProperties DEF Notify, InRange
    <3> QED BY <3>1, <3>2, LenProperties
  <2>3. \/ o.kind = "await" /\ Tell(mailbox, Resumption(o.by, o.id, Unit)) /\ MarkCalled(o.by, o.id)
        \/ UNCHANGED <<inbox, called>>
    BY <1>4 DEF Notify
  <2> HIDE DEF o
  <2>4. CASE UNCHANGED <<inbox, called>>
    BY <2>1, <2>4, TurnStill, ClipsMailbox DEF inbox
  <2>5. CASE o.kind = "await" /\ Tell(mailbox, Resumption(o.by, o.id, Unit)) /\ MarkCalled(o.by, o.id)
    <3>1. o.by \in Fiber /\ o.id \in 1..asyncs[o.by] /\ o.id \in Nat
      BY <2>2, <2>5, ObserverParts DEF KnownObserver
    <3>2. Resumption(o.by, o.id, Unit) \in [Fiber -> Seq(Message)]
      BY <3>1, MessagesType, EffectConstructors
    <3> QED BY <2>1, <2>5, <3>1, <3>2, ResumptionOrderly, TurnCalled, ClipsMailbox
  <2> QED BY <2>3, <2>4, <2>5
<1> QED BY <1>1, <1>2, <1>3, <1>4

\* No step gives a fiber a second turn.
LEMMA TurnNext ==
  ASSUME TypeInv, TurnInv, IdsInv, [Next]_vars
  PROVE  TurnInv'
<1>0. TypeOK /\ InRange
  BY DEF TypeInv
<1>1. ASSUME NEW f \in Fiber, Step(f)
      PROVE  TurnInv'
  BY <1>0, <1>1, TurnDrain, TurnAlone, TurnSuspend, TurnFork, TurnOutside, TurnEval, TurnLeave
     DEF Step, Program
<1>2. CASE StartRoot \/ \E g \in Fiber : Run(g) \/ OutsideCompletes(g) \/ OutsideInterrupts(g)
  <2>1. \E g \in Fiber : StartRoot \/ Run(g) \/ OutsideCompletes(g) \/ OutsideInterrupts(g)
    BY <1>2, FiberAssumption
  <2> QED BY <1>0, <2>1, TurnOutside
<1>3. CASE UNCHANGED vars
  <2>1. mailbox' = mailbox /\ UNCHANGED <<asyncs, called, status>>
        /\ \A h \in Fiber : Active(h)' => Active(h)
    BY <1>3 DEF vars, thread, async, family, inbox, Active
  <2> QED BY <1>0, <2>1, TurnStill, ClipsMailbox
<1> QED BY <1>1, <1>2, <1>3 DEF Next, Outside


\* What tell is given, for any set of messages.
LEMMA MessagesIn ==
  ASSUME NEW S
  PROVE  /\ Nothing \in [Fiber -> Seq(S)]
         /\ \A f \in Fiber, m \in S : To(f, m) \in [Fiber -> Seq(S)]
         /\ \A T \in SUBSET Fiber, m \in S : ToAll(T, m) \in [Fiber -> Seq(S)]
         /\ \A f \in Fiber : \A i, e : Resume(e) \in S => Resumption(f, i, e) \in [Fiber -> Seq(S)]
         /\ \A s, t \in [Fiber -> Seq(S)] : [g \in Fiber |-> s[g] \o t[g]] \in [Fiber -> Seq(S)]
<1>1. \A s, t \in [Fiber -> Seq(S)] : [g \in Fiber |-> s[g] \o t[g]] \in [Fiber -> Seq(S)]
  <2> TAKE s, t \in [Fiber -> Seq(S)]
  <2>1. \A g \in Fiber : s[g] \o t[g] \in Seq(S)
    BY ConcatProperties
  <2> QED BY <2>1
<1>2. Nothing \in [Fiber -> Seq(S)]
  BY DEF Nothing
<1>3. \A f \in Fiber, m \in S : To(f, m) \in [Fiber -> Seq(S)]
  BY DEF To
<1>4. \A T \in SUBSET Fiber, m \in S : ToAll(T, m) \in [Fiber -> Seq(S)]
  BY DEF ToAll
<1>5. \A f \in Fiber : \A i, e : Resume(e) \in S => Resumption(f, i, e) \in [Fiber -> Seq(S)]
  BY <1>2, <1>3 DEF Resumption
<1> QED BY <1>1, <1>2, <1>3, <1>4, <1>5

\* Mailboxes of such messages, before and after a tell.
LEMMA TellIn ==
  ASSUME NEW S, NEW box \in [Fiber -> Seq(S)], NEW msgs \in [Fiber -> Seq(S)], Tell(box, msgs)
  PROVE  mailbox' \in [Fiber -> Seq(S)]
<1>1. mailbox' = [g \in Fiber |-> box[g] \o msgs[g]]
  BY DEF Tell
<1> QED BY <1>1, MessagesIn

\* Taking a message leaves messages of the same kind.
LEMMA BoxIn ==
  ASSUME NEW S, mailbox \in [Fiber -> Seq(S)], NEW f \in Fiber, mailbox[f] # <<>>
  PROVE  Box(f, Tail(mailbox[f])) \in [Fiber -> Seq(S)] /\ Head(mailbox[f]) \in S
  BY HeadTailProperties DEF Box

\* Sequences over a larger set.
LEMMA SeqGrows ==
  ASSUME NEW S, NEW T, S \subseteq T
  PROVE  /\ \A s \in Seq(S) : s \in Seq(T)
         /\ \A F : F \in [Fiber -> Seq(S)] => F \in [Fiber -> Seq(T)]
<1>1. \A s \in Seq(S) : s \in Seq(T)
  <2> TAKE s \in Seq(S)
  <2>1. Len(s) \in Nat /\ s \in [1..Len(s) -> S]
    BY LenProperties
  <2>2. s \in [1..Len(s) -> T]
    BY <2>1
  <2> QED BY <2>1, <2>2, IsASeq
<1>2. \A F : F \in [Fiber -> Seq(S)] => F \in [Fiber -> Seq(T)]
  BY <1>1
<1> QED BY <1>1, <1>2

\* Ids that were handed out, and callbacks that were called, stay so.
Grows == \A h \in Fiber : asyncs[h] <= asyncs'[h] /\ called[h] \subseteq called'[h]

\* Callbacks stay known once they are: what refers to one keeps doing so.
LEMMA KnownGrows ==
  ASSUME TypeOK, TypeOK', Grows
  PROVE  KnownMessage \subseteq KnownMessage' /\ KnownObserver \subseteq KnownObserver'
<1>1. \A h \in Fiber : asyncs[h] \in Nat /\ asyncs'[h] \in Nat
  BY DEF TypeOK
<1>2. ASSUME NEW m \in KnownMessage
      PROVE  m \in KnownMessage'
  <2>1. m \in Message /\ (m.tag \in {"Observe", "Unobserve"} => m.by \in Fiber /\ m.id \in Nat)
    BY <1>2, MessageParts DEF KnownMessage
  <2>2. m.tag = "Observe" => m.id \in 1..asyncs'[m.by]
    BY <1>1, <1>2, <2>1 DEF KnownMessage, Grows
  <2>3. m.tag = "Unobserve" => m.id \in called'[m.by] \cup {0}
    BY <1>2, <2>1 DEF KnownMessage, Grows
  <2> QED BY <2>1, <2>2, <2>3 DEF KnownMessage
<1>3. ASSUME NEW o \in KnownObserver
      PROVE  o \in KnownObserver'
  <2>1. o \in Observer /\ (o.kind = "await" => o.by \in Fiber /\ o.id \in Nat)
    BY <1>3, ObserverParts DEF KnownObserver
  <2>2. o.kind = "await" => o.id \in 1..asyncs'[o.by]
    BY <1>1, <1>3, <2>1 DEF KnownObserver, Grows
  <2> QED BY <2>1, <2>2 DEF KnownObserver
<1> QED BY <1>2, <1>3

\* Messages without an id are known.
LEMMA PlainKnown ==
  /\ InterruptSignal \in KnownMessage /\ YieldNow \in KnownMessage
  /\ \A e \in Effect : Resume(e) \in KnownMessage
  /\ \A c \in Fiber : AddChild(c) \in KnownMessage
  /\ \A p \in Fiber : [kind |-> "child", parent |-> p] \in KnownObserver
  BY MessageConstructors, ObserverParts
     DEF KnownMessage, KnownObserver, InterruptSignal, YieldNow, Resume, AddChild

\* Ids: something known is told, or nothing.
LEMMA IdsTold ==
  ASSUME TypeOK, TypeOK', IdsInv, Grows,
         NEW box \in [Fiber -> Seq(KnownMessage)], NEW msgs \in [Fiber -> Seq(KnownMessage')],
         Tell(box, msgs),
         observers' \in [Fiber -> Seq(KnownObserver')],
         \A h \in Fiber : interruptor'[h] <= asyncs'[h]
  PROVE  IdsInv'
<1>1. box \in [Fiber -> Seq(KnownMessage')]
  BY KnownGrows, SeqGrows
<1>2. mailbox' \in [Fiber -> Seq(KnownMessage')]
  BY <1>1, TellIn
<1> QED BY <1>2 DEF IdsInv

\* So what is left as it is still refers to callbacks that exist.
LEMMA IdsKept ==
  ASSUME TypeOK, TypeOK', IdsInv, Grows
  PROVE  /\ observers' = observers => observers' \in [Fiber -> Seq(KnownObserver')]
         /\ mailbox' = mailbox => mailbox' \in [Fiber -> Seq(KnownMessage')]
         /\ interruptor' = interruptor => \A h \in Fiber : interruptor'[h] <= asyncs'[h]
<1>1. \A h \in Fiber : interruptor[h] \in Nat /\ asyncs[h] \in Nat /\ asyncs'[h] \in Nat
  BY DEF TypeOK
<1> QED BY <1>1, KnownGrows, SeqGrows DEF IdsInv, Grows

\* What grows, and what is left alone.
LEMMA GrowsStill == 
  ASSUME TypeOK, UNCHANGED <<asyncs, called>>
  PROVE  Grows /\ KnownMessage' = KnownMessage /\ KnownObserver' = KnownObserver
<1>1. Grows
  BY DEF Grows, TypeOK
<1> QED BY <1>1 DEF KnownMessage, KnownObserver

\* Calling a callback makes none.
LEMMA GrowsCalled ==
  ASSUME TypeOK, NEW f \in Fiber, NEW i, UNCHANGED asyncs, MarkCalled(f, i)
  PROVE  Grows
  BY SMTT(30) DEF Grows, MarkCalled, TypeOK

\* The interruptor is kept or dropped.
LEMMA InterruptorKept ==
  ASSUME TypeOK, IdsInv, UNCHANGED asyncs, \A h \in Fiber : interruptor'[h] \in {0, interruptor[h]}
  PROVE  \A h \in Fiber : interruptor'[h] <= asyncs'[h]
<1> TAKE h \in Fiber
<1>1. interruptor[h] \in Nat /\ asyncs[h] \in Nat /\ interruptor[h] <= asyncs[h]
  BY DEF TypeOK, IdsInv
<1>2. asyncs'[h] = asyncs[h] /\ interruptor'[h] \in {0, interruptor[h]}
  OBVIOUS
<1> QED BY <1>1, <1>2

\* Steps that send nothing and initiate nothing.
LEMMA IdsStill ==
  ASSUME TypeOK, TypeOK', IdsInv, UNCHANGED <<asyncs, called, observers>>,
         mailbox' \in [Fiber -> Seq(KnownMessage)],
         \A h \in Fiber : interruptor'[h] \in {0, interruptor[h]}
  PROVE  IdsInv'
<1>1. \A h \in Fiber : interruptor'[h] <= asyncs'[h]
  BY InterruptorKept
<1>2. KnownMessage' = KnownMessage /\ KnownObserver' = KnownObserver
  BY GrowsStill
<1> QED BY <1>1, <1>2 DEF IdsInv

\* Steps that send messages of known ids.
LEMMA IdsSent ==
  ASSUME TypeOK, TypeOK', IdsInv, UNCHANGED <<asyncs, called, observers>>,
         NEW box \in [Fiber -> Seq(KnownMessage)], NEW msgs \in [Fiber -> Seq(KnownMessage)],
         Tell(box, msgs), \A h \in Fiber : interruptor'[h] \in {0, interruptor[h]}
  PROVE  IdsInv'
<1>1. mailbox' \in [Fiber -> Seq(KnownMessage)]
  BY TellIn
<1> QED BY <1>1, IdsStill

\* Steps that call a callback.
LEMMA IdsCalled ==
  ASSUME TypeOK, TypeOK', IdsInv, UNCHANGED <<asyncs, observers>>,
         NEW g \in Fiber, NEW i, MarkCalled(g, i),
         NEW box \in [Fiber -> Seq(KnownMessage)], NEW msgs \in [Fiber -> Seq(KnownMessage)],
         Tell(box, msgs), \A h \in Fiber : interruptor'[h] \in {0, interruptor[h]}
  PROVE  IdsInv'
<1>1. Grows
  BY GrowsCalled
<1>2. msgs \in [Fiber -> Seq(KnownMessage')]
  BY <1>1, KnownGrows, SeqGrows
<1>3. observers' \in [Fiber -> Seq(KnownObserver')]
  BY <1>1, IdsKept
<1>5. \A h \in Fiber : interruptor'[h] <= asyncs'[h]
  BY InterruptorKept
<1> QED BY <1>1, <1>2, <1>3, <1>5, IdsTold

\* The steps of a drain.
LEMMA IdsDrain ==
  ASSUME TypeOK, TypeOK', IdsInv, NEW f \in Fiber,
         \/ Finally(f) \/ DrainDone(f) \/ DrainYieldNow(f) \/ DrainResume(f) \/ DrainInterrupt(f)
         \/ LoopInterrupt(f)
  PROVE  IdsInv'
<1>0. mailbox \in [Fiber -> Seq(KnownMessage)] /\ interruptor \in [Fiber -> Nat]
  BY DEF IdsInv, TypeOK
<1>1. CASE Finally(f) \/ DrainDone(f)
  <2>1. mailbox' = mailbox /\ UNCHANGED <<asyncs, called, observers, interruptor>>
    BY <1>1 DEF Finally, DrainDone, async, family
  <2> QED BY <1>0, <2>1, IdsStill
<1>2. CASE DrainYieldNow(f) \/ DrainResume(f)
  <2>1. /\ mailbox' = Box(f, Tail(mailbox[f])) /\ mailbox[f] # <<>>
        /\ UNCHANGED <<asyncs, called, observers>>
    BY <1>2 DEF DrainYieldNow, DrainResume, HeadIs, async, family
  <2>2. \A h \in Fiber : interruptor'[h] \in {0, interruptor[h]}
    BY <1>0, <1>2 DEF DrainYieldNow, DrainResume, async
  <2> QED BY <1>0, <2>1, <2>2, BoxIn, IdsStill
<1>3. CASE DrainInterrupt(f)
  <2> DEFINE i == interruptor[f]
             wake == IF i = 0 THEN Nothing ELSE Resumption(f, i, Failure(Interrupted))
             signal == ToAll(children[f], InterruptSignal)
             both == [g \in Fiber |-> signal[g] \o wake[g]]
             box == Box(f, Tail(mailbox[f]))
  <2>1. /\ Tell(box, both) /\ mailbox[f] # <<>>
        /\ IF i = 0 THEN UNCHANGED called ELSE MarkCalled(f, i)
        /\ UNCHANGED <<asyncs, observers>>
    BY <1>3 DEF DrainInterrupt, HeadIs, family
  <2>2. children[f] \in SUBSET Fiber /\ Resume(Failure(Interrupted)) \in KnownMessage
    BY PlainKnown, EffectConstructors, ExitConstructors DEF TypeOK
  <2>3. wake \in [Fiber -> Seq(KnownMessage)] /\ signal \in [Fiber -> Seq(KnownMessage)]
    BY <2>2, MessagesIn, PlainKnown
  <2>4. box \in [Fiber -> Seq(KnownMessage)]
    BY <1>0, <2>1, BoxIn
  <2>5. \A h \in Fiber : interruptor'[h] \in {0, interruptor[h]}
    BY <1>0, <1>3 DEF DrainInterrupt
  <2> HIDE DEF wake, signal, box
  <2>6. both \in [Fiber -> Seq(KnownMessage)]
    BY <2>3, MessagesIn
  <2> HIDE DEF both, i
  <2>7. CASE i = 0
    BY <2>1, <2>4, <2>5, <2>6, <2>7, IdsSent
  <2>8. CASE i # 0
    BY <2>1, <2>4, <2>5, <2>6, <2>8, IdsCalled
  <2> QED BY <2>7, <2>8
<1>4. CASE LoopInterrupt(f)
  <2>1. /\ Tell(Box(f, Tail(mailbox[f])), ToAll(children[f], InterruptSignal))
        /\ mailbox[f] # <<>> /\ UNCHANGED <<asyncs, called, observers, interruptor>>
    BY <1>4 DEF LoopInterrupt, HeadIs, async, family
  <2>2. children[f] \in SUBSET Fiber
    BY DEF TypeOK
  <2>3. ToAll(children[f], InterruptSignal) \in [Fiber -> Seq(KnownMessage)]
        /\ Box(f, Tail(mailbox[f])) \in [Fiber -> Seq(KnownMessage)]
    BY <1>0, <2>1, <2>2, MessagesIn, PlainKnown, BoxIn
  <2> QED BY <2>1, <2>3, IdsSent
<1> QED BY <1>1, <1>2, <1>3, <1>4

\* The closures of Stateful messages.
LEMMA IdsStateful ==
  ASSUME TypeOK, TypeOK', IdsInv, NEW f \in Fiber, DrainStateful(f) \/ LoopStateful(f)
  PROVE  IdsInv'
<1> DEFINE m == Head(mailbox[f])
           box == Box(f, Tail(mailbox[f]))
           awaits == [kind |-> "await", by |-> m.by, id |-> m.id]
           adopts == [kind |-> "child", parent |-> f]
<1>0. /\ mailbox \in [Fiber -> Seq(KnownMessage)] /\ observers \in [Fiber -> Seq(KnownObserver)]
      /\ interruptor \in [Fiber -> Nat] /\ asyncs \in [Fiber -> Nat]
  BY DEF IdsInv, TypeOK
<1>1. mailbox[f] # <<>> /\ Stateful(f, m) /\ UNCHANGED <<asyncs, interruptor>>
  BY DEF DrainStateful, LoopStateful, IsStateful
<1>2. m \in KnownMessage /\ box \in [Fiber -> Seq(KnownMessage)]
  BY <1>0, <1>1, BoxIn
<1>3. m \in Message /\ (m.tag \in {"Observe", "Unobserve"} => m.by \in Fiber /\ m.id \in Nat)
      /\ (m.tag = "AddChild" => m.child \in Fiber)
  BY <1>2, MessageParts DEF KnownMessage
<1>4. adopts \in KnownObserver /\ (m.tag = "Observe" => awaits \in KnownObserver)
  BY <1>2, <1>3, PlainKnown, ObserverParts DEF KnownMessage, KnownObserver
<1>5. \A h \in Fiber : interruptor'[h] <= asyncs'[h] /\ interruptor'[h] \in {0, interruptor[h]}
  BY <1>1 DEF IdsInv
<1>6. Nothing \in [Fiber -> Seq(KnownMessage)] /\ Resume(Unit) \in KnownMessage
  BY MessagesIn, PlainKnown, EffectConstructors
<1> HIDE DEF m, box, awaits, adopts
<1>7. CASE m.tag = "Observe" /\ Tell(box, Resumption(m.by, m.id, Unit)) /\ MarkCalled(m.by, m.id)
           /\ UNCHANGED observers
  <2>1. Resumption(m.by, m.id, Unit) \in [Fiber -> Seq(KnownMessage)]
    BY <1>3, <1>6, <1>7, MessagesIn
  <2> QED BY <1>1, <1>2, <1>3, <1>5, <1>7, <2>1, IdsCalled
<1>8. ASSUME Tell(box, Nothing), UNCHANGED called, observers' \in [Fiber -> Seq(KnownObserver)]
      PROVE  IdsInv'
  <2>1. Grows /\ KnownMessage' = KnownMessage /\ KnownObserver' = KnownObserver
    BY <1>1, <1>8, GrowsStill
  <2> QED BY <1>2, <1>5, <1>6, <1>8, <2>1, IdsTold
<1>9. CASE /\ m.tag = "AddChild" /\ Tell(box, Nothing) /\ UNCHANGED called
           /\ observers' = IF status[m.child] = "done" THEN observers
                           ELSE [observers EXCEPT ![m.child] = Append(@, adopts)]
  <2>1. Append(observers[m.child], adopts) \in Seq(KnownObserver)
    BY <1>0, <1>3, <1>4, <1>9, AppendProperties
  <2>2. observers' \in [Fiber -> Seq(KnownObserver)]
    BY <1>0, <1>9, <2>1
  <2> QED BY <1>8, <1>9, <2>2
<1>10. CASE /\ m.tag = "Observe" /\ Tell(box, Nothing) /\ UNCHANGED called
            /\ observers' = [observers EXCEPT ![f] = Append(@, awaits)]
  <2>1. Append(observers[f], awaits) \in Seq(KnownObserver)
    BY <1>0, <1>4, <1>10, AppendProperties
  <2>2. observers' \in [Fiber -> Seq(KnownObserver)]
    BY <1>0, <1>10, <2>1
  <2> QED BY <1>8, <1>10, <2>2
<1>11. CASE /\ m.tag = "Unobserve" /\ Tell(box, Nothing) /\ UNCHANGED called
            /\ observers' = [observers EXCEPT ![f] = Without(@, awaits)]
  <2>1. Without(observers[f], awaits) \in Seq(KnownObserver)
    BY <1>0, WithoutType
  <2>2. observers' \in [Fiber -> Seq(KnownObserver)]
    BY <1>0, <1>11, <2>1
  <2> QED BY <1>8, <1>11, <2>2
<1> QED BY <1>1, <1>7, <1>9, <1>10, <1>11 DEF Stateful, m, box, awaits, adopts

\* Steps that keep the ids and send nothing, or messages without ids.
LEMMA IdsAlone ==
  ASSUME TypeOK, TypeOK', IdsInv, NEW f \in Fiber,
         \/ ForcedYield(f) \/ Finish(f) \/ FlatMap(f) \/ CatchAll(f) \/ EnterRegion(f) \/ OnExit(f)
         \/ YieldOp(f) \/ AwaitOp(f) \/ EvalRegion(f) \/ EvalAwait(f) \/ EvalJoin(f)
         \/ EvalSuccess(f) \/ EvalFailure(f) \/ SetExitValue(f) \/ NotifyDone(f) \/ Run(f)
         \/ StartRoot
  PROVE  IdsInv'
<1>1. mailbox' = mailbox /\ UNCHANGED <<asyncs, called, observers, interruptor>>
  BY DEF ForcedYield, Finish, FlatMap, CatchAll, EnterRegion, OnExit, Mask, YieldOp, AwaitOp,
     EvalRegion, EvalAwait, EvalJoin, EvalSuccess, EvalFailure, SetExitValue, NotifyDone, Run,
     StartRoot, async, family, inbox
<1> QED BY <1>1, IdsStill DEF IdsInv

\* Steps that send, interrupt or fork.
LEMMA IdsOthers ==
  ASSUME TypeOK, TypeOK', IdsInv, NEW f \in Fiber,
         \/ Fork(f) \/ InterruptAsFork(f) \/ EvalYield(f) \/ LeaveChildren(f) \/ LeaveMessages(f)
         \/ OutsideInterrupts(f)
  PROVE  IdsInv'
<1>0. mailbox \in [Fiber -> Seq(KnownMessage)] /\ interruptor \in [Fiber -> Nat]
  BY DEF IdsInv, TypeOK
<1>1. UNCHANGED <<asyncs, called, observers, interruptor>>
  BY DEF Fork, InterruptAsFork, EvalYield, LeaveChildren, LeaveMessages, OutsideInterrupts,
         async, family
<1>2. mailbox' = mailbox \/ \E msgs \in [Fiber -> Seq(KnownMessage)] : Tell(mailbox, msgs)
  <2>1. CASE Fork(f)
    <3>1. PICK c \in Fiber, daemon \in BOOLEAN :
            Tell(mailbox, [g \in Fiber |-> (IF daemon THEN Nothing ELSE To(f, AddChild(c)))[g]
                                             \o To(c, Resume(Prog))[g]])
      BY <2>1 DEF Fork
    <3> DEFINE adopt == IF daemon THEN Nothing ELSE To(f, AddChild(c))
               start == To(c, Resume(Prog))
               both == [g \in Fiber |-> adopt[g] \o start[g]]
    <3>2. AddChild(c) \in KnownMessage /\ Resume(Prog) \in KnownMessage
      BY PlainKnown, EffectConstructors
    <3>3. adopt \in [Fiber -> Seq(KnownMessage)] /\ start \in [Fiber -> Seq(KnownMessage)]
      BY <3>2, MessagesIn
    <3>4. Tell(mailbox, both)
      BY <3>1
    <3> HIDE DEF adopt, start
    <3>5. both \in [Fiber -> Seq(KnownMessage)]
      BY <3>3, MessagesIn
    <3> HIDE DEF both
    <3> QED BY <3>4, <3>5
  <2>2. CASE InterruptAsFork(f) \/ OutsideInterrupts(f)
    BY <2>2, MessagesIn, PlainKnown DEF InterruptAsFork, OutsideInterrupts
  <2>3. CASE EvalYield(f)
    <3> DEFINE two == [g \in Fiber |-> IF g = f THEN <<YieldNow, Resume(Unit)>> ELSE <<>>]
    <3>1. Tell(mailbox, two) \/ mailbox' = mailbox
      BY <2>3 DEF EvalYield, inbox
    <3>2. two \in [Fiber -> Seq(KnownMessage)]
      BY PlainKnown, EffectConstructors, TwoType
    <3> HIDE DEF two
    <3> QED BY <3>1, <3>2
  <2>4. CASE LeaveChildren(f)
    <3>1. children[f] \in SUBSET Fiber
      BY DEF TypeOK
    <3> QED BY <2>4, <3>1, MessagesIn, PlainKnown DEF LeaveChildren
  <2>5. CASE LeaveMessages(f)
    <3> DEFINE e == ExitEffect(ExitOf(cur))
    <3>1. e \in Effect
      BY <2>5, ExitOfType, EffectConstructors DEF LeaveMessages, Leaving, TypeOK
    <3>2. Tell(mailbox, To(f, Resume(e)))
      BY <2>5 DEF LeaveMessages
    <3> HIDE DEF e
    <3> QED BY <3>1, <3>2, MessagesIn, PlainKnown
  <2> QED BY <2>1, <2>2, <2>3, <2>4, <2>5
<1>3. CASE mailbox' = mailbox
  BY <1>0, <1>1, <1>3, IdsStill
<1>4. CASE \E msgs \in [Fiber -> Seq(KnownMessage)] : Tell(mailbox, msgs)
  <2>1. PICK msgs \in [Fiber -> Seq(KnownMessage)] : Tell(mailbox, msgs)
    BY <1>4
  <2> QED BY <1>0, <1>1, <2>1, IdsSent
<1> QED BY <1>2, <1>3, <1>4

\* Initiating an async operation, and calling callbacks.
LEMMA IdsSuspend ==
  ASSUME TypeOK, TypeOK', IdsInv, NEW f \in Fiber, SuspendAsync(f) \/ EvalAwaitAsync(f)
  PROVE  IdsInv'
<1>0. /\ mailbox \in [Fiber -> Seq(KnownMessage)] /\ interruptor \in [Fiber -> Nat]
      /\ asyncs \in [Fiber -> Nat] /\ called \in [Fiber -> SUBSET Nat]
  BY DEF IdsInv, TypeOK
<1>1. /\ asyncs' = [asyncs EXCEPT ![f] = @ + 1] /\ UNCHANGED observers
      /\ interruptor' = [interruptor EXCEPT ![f] = IF Interruptible(f) THEN asyncs[f] + 1 ELSE @]
  BY DEF SuspendAsync, EvalAwaitAsync, Initiate, family
<1>2. \A h \in Fiber : asyncs[h] <= asyncs'[h] /\ interruptor'[h] <= asyncs'[h]
  <2> TAKE h \in Fiber
  <2>1. interruptor[h] <= asyncs[h] /\ asyncs[h] \in Nat /\ interruptor[h] \in Nat
    BY <1>0 DEF IdsInv
  <2>2. CASE h # f
    BY <1>0, <1>1, <2>1, <2>2
  <2>3. CASE h = f
    <3>1. asyncs'[h] = asyncs[h] + 1 /\ interruptor'[h] \in {asyncs[h] + 1, interruptor[h]}
      BY <1>0, <1>1, <2>3
    <3> QED BY <2>1, <3>1
  <2> QED BY <2>2, <2>3
<1>3. \A h \in Fiber : called[h] \subseteq called'[h]
  <2>1. UNCHANGED called \/ MarkCalled(f, asyncs[f] + 1)
    BY DEF SuspendAsync, EvalAwaitAsync
  <2> QED BY <1>0, <2>1 DEF MarkCalled
<1>4. Grows
  BY <1>2, <1>3 DEF Grows
<1>5. \E msgs \in [Fiber -> Seq(KnownMessage')] : Tell(mailbox, msgs)
  <2>1. CASE SuspendAsync(f)
    <3>1. Resume(Unit) \in KnownMessage'
      BY PlainKnown, EffectConstructors, <1>4, KnownGrows
    <3>2. Nothing \in [Fiber -> Seq(KnownMessage')] /\ To(f, Resume(Unit)) \in [Fiber -> Seq(KnownMessage')]
      BY <3>1, MessagesIn
    <3> QED BY <2>1, <3>2 DEF SuspendAsync
  <2>2. CASE EvalAwaitAsync(f)
    <3> DEFINE note == Observe(f, asyncs[f] + 1)
    <3>1. cur.of \in Fiber
      BY <2>2, EffectParts DEF EvalAwaitAsync, TypeOK
    <3>2. asyncs'[f] = asyncs[f] + 1 /\ asyncs[f] \in Nat
      BY <1>0, <1>1
    <3>3. note \in Message /\ note.tag = "Observe" /\ note.by = f /\ note.id = asyncs[f] + 1
      BY <3>2, MessageConstructors DEF Observe
    <3>4. note \in KnownMessage'
      BY <3>2, <3>3 DEF KnownMessage
    <3>5. Tell(mailbox, To(cur.of, note))
      BY <2>2 DEF EvalAwaitAsync
    <3> HIDE DEF note
    <3> QED BY <3>1, <3>4, <3>5, MessagesIn
  <2> QED BY <2>1, <2>2
<1>6. observers' \in [Fiber -> Seq(KnownObserver')]
  BY <1>1, <1>4, IdsKept
<1> QED BY <1>0, <1>2, <1>4, <1>5, <1>6, IdsTold

\* Calling a callback keeps references to callbacks in range.
LEMMA IdsCallbacks ==
  ASSUME TypeOK, TypeOK', IdsInv, InRange, NEW f \in Fiber,
         Complete(f) \/ OutsideCompletes(f) \/ Notify(f)
  PROVE  IdsInv'
<1>0. mailbox \in [Fiber -> Seq(KnownMessage)] /\ interruptor \in [Fiber -> Nat]
  BY DEF IdsInv, TypeOK
<1>1. UNCHANGED <<asyncs, observers, interruptor>>
  BY DEF Complete, OutsideCompletes, Notify, family
<1>2. Resume(Unit) \in KnownMessage /\ Resume(Failure({"Fail"})) \in KnownMessage
  BY PlainKnown, EffectConstructors, ExitConstructors
<1>3. ASSUME NEW g \in Fiber, NEW i, NEW e, Resume(e) \in KnownMessage,
             Tell(mailbox, Resumption(g, i, e)), MarkCalled(g, i)
      PROVE  IdsInv'
  <2>1. Resumption(g, i, e) \in [Fiber -> Seq(KnownMessage)]
    BY <1>3, MessagesIn
  <2> QED BY <1>0, <1>1, <1>3, <2>1, IdsCalled
<1>4. CASE Complete(f)
  <2>1. PICK g \in Fiber : Tell(mailbox, Resumption(g, asyncs[g], Unit)) /\ MarkCalled(g, asyncs[g])
    BY <1>4 DEF Complete
  <2> QED BY <1>2, <1>3, <2>1
<1>5. CASE OutsideCompletes(f)
  <2>1. PICK e \in {Unit, Failure({"Fail"})} : Tell(mailbox, Resumption(f, asyncs[f], e))
    BY <1>5 DEF OutsideCompletes
  <2> QED BY <1>2, <1>3, <1>5, <2>1 DEF OutsideCompletes
<1>6. CASE Notify(f)
  <2> DEFINE o == observers[f][next]
  <2>1. o \in Observer
    <3>1. observers[f] \in Seq(Observer) /\ next \in Nat
      BY DEF TypeOK
    <3>2. next \in 1..Len(observers[f])
      BY <1>6, <3>1, LenProperties DEF Notify, InRange
    <3> QED BY <3>1, <3>2, LenProperties
  <2>2. \/ o.kind = "await" /\ Tell(mailbox, Resumption(o.by, o.id, Unit)) /\ MarkCalled(o.by, o.id)
        \/ UNCHANGED <<inbox, called>>
    BY <1>6 DEF Notify
  <2> HIDE DEF o
  <2>3. CASE o.kind = "await" /\ Tell(mailbox, Resumption(o.by, o.id, Unit)) /\ MarkCalled(o.by, o.id)
    <3>1. o.by \in Fiber
      BY <2>1, <2>3, ObserverParts
    <3> QED BY <1>2, <1>3, <2>3, <3>1
  <2>4. CASE UNCHANGED <<inbox, called>>
    BY <1>0, <1>1, <2>4, IdsStill DEF inbox
  <2> QED BY <2>2, <2>3, <2>4
<1> QED BY <1>4, <1>5, <1>6

\* The canceler of an operation that was initiated withdraws the observer: the
\* fiber runs again, so the callback of that operation was called.
LEMMA IdsCleanup ==
  ASSUME TypeOK, TypeOK', TurnInv, IdsInv, NEW f \in Fiber,
         CleanupAfterSuccess(f) \/ CleanupAfterFailure(f)
  PROVE  IdsInv'
<1>0. mailbox \in [Fiber -> Seq(KnownMessage)] /\ interruptor \in [Fiber -> Nat]
  BY DEF IdsInv, TypeOK
<1>1. UNCHANGED <<asyncs, called, observers, interruptor>>
  BY DEF CleanupAfterSuccess, CleanupAfterFailure, async, family
<1> DEFINE h == Top(f).h
<1>2. UNCHANGED inbox \/ /\ CleanupAfterFailure(f) /\ h.kind = "canceler" /\ asyncs[f] >= h.id
                         /\ Tell(mailbox, To(h.of, Unobserve(f, h.id)))
  BY DEF CleanupAfterSuccess, CleanupAfterFailure
<1>3. stack[f] # <<>> /\ Top(f).tag = "Cleanup"
  BY DEF CleanupAfterSuccess, CleanupAfterFailure, TopIs, Empty
<1>4. h \in Handler
  BY <1>3, PoppedType, FrameParts
<1> HIDE DEF h
<1>5. CASE UNCHANGED inbox
  BY <1>0, <1>1, <1>5, IdsStill DEF inbox
<1>6. CASE /\ CleanupAfterFailure(f) /\ h.kind = "canceler" /\ asyncs[f] >= h.id
           /\ Tell(mailbox, To(h.of, Unobserve(f, h.id)))
  <2>1. h.of \in Fiber /\ h.id \in Nat /\ asyncs[f] \in Nat
    BY <1>4, <1>6, HandlerParts DEF TypeOK
  <2>2. Turn(f) /\ Active(f)
    BY <1>6 DEF TurnInv, CleanupAfterFailure, Evaluating, Active
  <2>3. h.id \in called[f] \cup {0}
    <3>1. CASE h.id = 0
      BY <3>1
    <3>2. CASE h.id # 0
      <4>1. h.id \in 1..asyncs[f] /\ asyncs[f] > 0
        BY <1>6, <2>1, <3>2
      <4>2. asyncs[f] \in called[f]
        BY <2>2, <4>1 DEF Turn, Suspended
      <4> QED BY <2>2, <4>1, <4>2 DEF Turn
    <3> QED BY <3>1, <3>2
  <2> DEFINE note == Unobserve(f, h.id)
  <2>4. note \in Message /\ note.tag = "Unobserve" /\ note.by = f /\ note.id = h.id
    BY <2>1, MessageConstructors DEF Unobserve
  <2>5. note \in KnownMessage
    BY <2>3, <2>4 DEF KnownMessage
  <2>6. Tell(mailbox, To(h.of, note))
    BY <1>6
  <2> HIDE DEF note
  <2>7. To(h.of, note) \in [Fiber -> Seq(KnownMessage)]
    BY <2>1, <2>5, MessagesIn
  <2> QED BY <1>0, <1>1, <2>6, <2>7, IdsSent
<1> QED BY <1>2, <1>5, <1>6

\* Every step keeps references to callbacks in range.
LEMMA IdsNext ==
  ASSUME TypeInv, TypeInv', TurnInv, IdsInv, [Next]_vars
  PROVE  IdsInv'
<1>0. TypeOK /\ TypeOK' /\ InRange
  BY DEF TypeInv
<1>1. ASSUME NEW f \in Fiber, Step(f)
      PROVE  IdsInv'
  BY <1>0, <1>1, IdsDrain, IdsStateful, IdsAlone, IdsOthers, IdsSuspend, IdsCallbacks, IdsCleanup
     DEF Step, Program
<1>2. CASE StartRoot
  BY <1>0, <1>2, IdsAlone, FiberAssumption
<1>3. CASE \E g \in Fiber : Run(g) \/ OutsideCompletes(g) \/ OutsideInterrupts(g)
  BY <1>0, <1>3, IdsAlone, IdsOthers, IdsCallbacks
<1>4. CASE UNCHANGED vars
  <2>1. UNCHANGED <<asyncs, called, observers, mailbox, interruptor>>
    BY <1>4 DEF vars, async, family, inbox
  <2> QED BY <1>0, <2>1, IdsStill DEF IdsInv
<1> QED BY <1>1, <1>2, <1>3, <1>4 DEF Next, Outside

----------------------------------------------------------------------------
(* The invariant of the turns is inductive. *)

FiberInv == TypeInv /\ TurnInv /\ IdsInv

\* The initial states satisfy the invariant of types, turns, wake-ups and
\* references,
LEMMA FiberInit == Init => FiberInv
<1> SUFFICES ASSUME Init
             PROVE  FiberInv
  OBVIOUS
<1>1. TypeInv
  BY TypeInit DEF TypeInv, InRange, Init
<1>2. TurnInv
  <2> SUFFICES ASSUME NEW f \in Fiber
               PROVE  Turn(f)
    BY DEF TurnInv
  <2>1. mailbox[f] = <<>> /\ asyncs[f] = 0 /\ ~Active(f)
    BY DEF Init, Active
  <2> QED BY <2>1, ResumeOrderly DEF Turn, Suspended
<1>3. IdsInv
  BY EmptySeq DEF Init, IdsInv
<1> QED BY <1>1, <1>2, <1>3 DEF FiberInv

\* ... and every step keeps it.
LEMMA FiberNext == FiberInv /\ [Next]_vars => FiberInv'
  BY TypeNext, TurnNext, IdsNext DEF FiberInv

\* A fiber is resumed once.
THEOREM NeverResumedTwice == Spec => []ResumedOnce
<1>1. FiberInv => ResumedOnce
  <2> SUFFICES ASSUME FiberInv
               PROVE  ResumedOnce
    OBVIOUS
  <2>1. \A f \in Fiber : Turn(f)
    BY DEF FiberInv, TurnInv
  <2>2. SingleRunLoop
    BY <2>1 DEF SingleRunLoop, Looping, Turn, Active, Quiet
  <2>3. ASSUME NEW f \in Fiber, NEW i \in DOMAIN mailbox[f], NEW j \in DOMAIN mailbox[f],
               mailbox[f][i].tag = "Resume"
        PROVE  status[f] # "done" /\ (mailbox[f][j].tag = "Resume" => i = j)
    BY <2>1, <2>3 DEF Turn, Orderly, Quiet
  <2> QED BY <2>2, <2>3 DEF ResumedOnce
<1> QED BY <1>1, FiberInit, FiberNext, PTL DEF Spec


----------------------------------------------------------------------------
(* Exits.  An exit value is set by a run loop, a run loop is the turn of a  *)
(* live fiber, and a fiber that ended gets no other turn.                   *)

\* What becomes of the status and the exit of a fiber.
LEMMA StatusStep ==
  ASSUME TypeOK, TurnInv, [Next]_vars, NEW f \in Fiber
  PROVE  \/ status'[f] = status[f] /\ exit'[f] = exit[f]
         \/ status[f] = "new" /\ status'[f] = "live" /\ exit'[f] = exit[f]
         \/ SetExitValue(f) /\ status[f] = "live" /\ status'[f] = "done"
<1>0. status \in [Fiber -> {"new", "live", "done"}] /\ exit \in [Fiber -> Exit]
  BY DEF TypeOK
<1>1. ASSUME NEW h \in Fiber, Step(h), ~SetExitValue(h), ~Fork(h)
      PROVE  UNCHANGED <<status, exit>>
  <2>1. CASE \/ Finally(h) \/ DrainDone(h) \/ DrainYieldNow(h) \/ DrainInterrupt(h)
             \/ DrainResume(h) \/ DrainStateful(h) \/ LoopInterrupt(h) \/ LoopStateful(h)
             \/ ForcedYield(h)
    BY <2>1 DEF Finally, DrainDone, DrainYieldNow, DrainInterrupt, DrainResume, DrainStateful,
       LoopInterrupt, LoopStateful, ForcedYield, family
  <2>2. CASE Program(h)
    BY <1>1, <2>2 DEF Program, Finish, FlatMap, CatchAll, EnterRegion, OnExit, SuspendAsync,
       YieldOp, InterruptAsFork, AwaitOp, Complete, family
  <2>3. CASE \/ EvalYield(h) \/ EvalRegion(h) \/ EvalAwait(h) \/ EvalAwaitAsync(h) \/ EvalJoin(h)
             \/ EvalSuccess(h) \/ EvalFailure(h) \/ CleanupAfterSuccess(h)
             \/ CleanupAfterFailure(h)
    BY <2>3 DEF EvalYield, EvalRegion, EvalAwait, EvalAwaitAsync, EvalJoin, EvalSuccess,
       EvalFailure, CleanupAfterSuccess, CleanupAfterFailure, family
  <2>4. CASE LeaveChildren(h) \/ LeaveMessages(h) \/ Notify(h) \/ NotifyDone(h)
    BY <2>4 DEF LeaveChildren, LeaveMessages, Notify, NotifyDone, family
  <2> QED BY <1>1, <2>1, <2>2, <2>3, <2>4 DEF Step
<1>2. ASSUME NEW h \in Fiber, SetExitValue(h)
      PROVE  \/ status'[f] = status[f] /\ exit'[f] = exit[f]
             \/ SetExitValue(f) /\ status[f] = "live" /\ status'[f] = "done"
  <2>1. /\ status' = [status EXCEPT ![h] = "done"] /\ Active(h) /\ Turn(h)
        /\ exit' = [exit EXCEPT ![h] = ExitOf(cur)]
    BY <1>2 DEF SetExitValue, Leaving, Active, TurnInv
  <2> QED BY <1>0, <1>2, <2>1 DEF Turn
<1>3. ASSUME NEW h \in Fiber, Fork(h)
      PROVE  \/ status'[f] = status[f] /\ exit'[f] = exit[f]
             \/ status[f] = "new" /\ status'[f] = "live" /\ exit'[f] = exit[f]
  BY <1>0, <1>3 DEF Fork
<1>4. CASE StartRoot
  BY <1>0, <1>4 DEF StartRoot
<1>5. CASE Outside \/ (\E h \in Fiber : Run(h)) \/ UNCHANGED vars
  BY <1>5 DEF Outside, OutsideCompletes, OutsideInterrupts, Run, family, vars
<1> QED BY <1>1, <1>2, <1>3, <1>4, <1>5 DEF Next

\* An exit value is set once and never changes, however often a fiber is
\* resumed, interrupted or told something after its end.
THEOREM ExitStays == Spec => ExitIsFinal
<1>1. FiberInv /\ [Next]_vars =>
        [\A f \in Fiber : status[f] = "done" => status'[f] = "done" /\ exit'[f] = exit[f]]_vars
  BY StatusStep DEF FiberInv, TypeInv
<1> QED BY <1>1, FiberInit, FiberNext, PTL DEF Spec, ExitIsFinal

----------------------------------------------------------------------------
(* Interruption.  A fiber that must die, because it was interrupted and is  *)
(* interruptible, is at a failure with the interruption already, or will be *)
(* once the frames of the yields it was about to take are used up.          *)

Fatal(e)   == e.op = "Failure" /\ "Interrupt" \in e.cause
Passing(e) == e.op \in {"Yield", "Success"}
Doom(e, s) ==
  \/ Fatal(e)
  \/ /\ Passing(e)
     /\ \E n \in DOMAIN s :
          /\ s[n].tag = "OnSuccess" /\ Fatal(s[n].k)
          /\ \A m \in DOMAIN s : m > n => s[m].tag = "OnSuccess" /\ Passing(s[m].k)
DoomInv == \A f \in Fiber : Active(f) /\ MustDie(f) => Doom(cur, stack[f])

\* Nothing happens before the root fiber starts.
RootInv ==
  status[Root] = "new" =>
    /\ current = NoFiber
    /\ \A f \in Fiber : /\ status[f] = "new" /\ runs[f] = 0 /\ ~interrupted[f]

\* The parts of a longer and of a shorter stack.
LEMMA AppendParts ==
  ASSUME NEW S, NEW s \in Seq(S), NEW r \in S
  PROVE  /\ Len(s) \in Nat /\ DOMAIN s = 1..Len(s)
         /\ Append(s, r) \in Seq(S) /\ DOMAIN Append(s, r) = 1..(Len(s) + 1)
         /\ Len(Append(s, r)) = Len(s) + 1
         /\ Append(s, r)[Len(s) + 1] = r
         /\ \A i \in DOMAIN s : Append(s, r)[i] = s[i]
<1>1. Len(s) \in Nat /\ DOMAIN s = 1..Len(s)
  BY LenProperties
<1>2. Append(s, r) \in Seq(S) /\ Len(Append(s, r)) = Len(s) + 1
  BY AppendProperties
<1>3. DOMAIN Append(s, r) = 1..(Len(s) + 1)
  BY <1>2, LenProperties
<1>4. Append(s, r)[Len(s) + 1] = r /\ \A i \in 1..Len(s) : Append(s, r)[i] = s[i]
  BY AppendProperties
<1> QED BY <1>1, <1>2, <1>3, <1>4

\* A stack without its top, element by element.
LEMMA PopParts ==
  ASSUME NEW S, NEW s \in Seq(S), s # <<>>
  PROVE  LET u == SubSeq(s, 1, Len(s) - 1) IN
         /\ Len(s) \in Nat \ {0} /\ DOMAIN s = 1..Len(s) /\ s[Len(s)] \in S
         /\ u \in Seq(S) /\ DOMAIN u = 1..(Len(s) - 1) /\ Len(u) = Len(s) - 1
         /\ \A i \in DOMAIN u : i \in DOMAIN s /\ u[i] = s[i]
<1> DEFINE u == SubSeq(s, 1, Len(s) - 1)
<1>1. Len(s) \in Nat \ {0} /\ DOMAIN s = 1..Len(s) /\ \A i \in 1..Len(s) : s[i] \in S
  BY EmptySeq, LenProperties
<1>2. u \in Seq(S) /\ Len(u) = Len(s) - 1 /\ \A i \in 1..(Len(s) - 1) : u[i] = s[i]
  BY <1>1, SubSeqProperties
<1>3. DOMAIN u = 1..(Len(s) - 1)
  BY <1>2, LenProperties
<1> HIDE DEF u
<1>4. \A i \in DOMAIN u : i \in DOMAIN s /\ u[i] = s[i]
  BY <1>1, <1>2, <1>3
<1> QED BY <1>1, <1>2, <1>3, <1>4 DEF u

\* A forced yield keeps the doom, and so does the frame it pushed.
LEMMA DoomPush ==
  ASSUME NEW s \in Seq(Frame), NEW e \in Effect, Doom(e, s)
  PROVE  Doom(Yield, Append(s, [tag |-> "OnSuccess", k |-> e]))
<1> DEFINE r == [tag |-> "OnSuccess", k |-> e]
           u == Append(s, r)
<1>1. r \in Frame /\ r.tag = "OnSuccess" /\ r.k = e
  BY FrameConstructors
<1>2. /\ Len(s) \in Nat /\ DOMAIN s = 1..Len(s) /\ DOMAIN u = 1..(Len(s) + 1)
      /\ u[Len(s) + 1] = r /\ \A i \in DOMAIN s : u[i] = s[i]
  <2> HIDE DEF r
  <2> QED BY <1>1, AppendParts
<1> HIDE DEF u, r
<1>3. CASE Fatal(e)
  <2>1. Len(s) + 1 \in DOMAIN u /\ \A m \in DOMAIN u : ~(m > Len(s) + 1)
    BY <1>2
  <2> QED BY <1>1, <1>2, <1>3, <2>1 DEF Doom, Passing, Yield, u, r
<1>4. CASE ~Fatal(e)
  <2>1. PICK n \in DOMAIN s :
          /\ s[n].tag = "OnSuccess" /\ Fatal(s[n].k)
          /\ \A m \in DOMAIN s : m > n => s[m].tag = "OnSuccess" /\ Passing(s[m].k)
    BY <1>4 DEF Doom
  <2>2. Passing(e)
    BY <1>4 DEF Doom
  <2>3. n \in DOMAIN u /\ u[n] = s[n]
    BY <1>2
  <2>4. \A m \in DOMAIN u : m > n => u[m].tag = "OnSuccess" /\ Passing(u[m].k)
    BY <1>1, <1>2, <2>1, <2>2
  <2>5. Passing(Yield)
    BY DEF Passing, Yield
  <2> QED BY <2>1, <2>3, <2>4, <2>5 DEF Doom, u, r
<1> QED BY <1>3, <1>4

\* A success of a doomed fiber finds a frame that keeps the doom.
LEMMA DoomPop ==
  ASSUME NEW s \in Seq(Frame), NEW e, Doom(e, s), e.op = "Success"
  PROVE  /\ s # <<>> /\ s[Len(s)].tag = "OnSuccess"
         /\ Doom(s[Len(s)].k, SubSeq(s, 1, Len(s) - 1))
<1>1. PICK n \in DOMAIN s :
        /\ s[n].tag = "OnSuccess" /\ Fatal(s[n].k)
        /\ \A m \in DOMAIN s : m > n => s[m].tag = "OnSuccess" /\ Passing(s[m].k)
  BY DEF Doom, Fatal
<1>2. s # <<>>
  BY <1>1, EmptySeq
<1> DEFINE u == SubSeq(s, 1, Len(s) - 1)
<1>3. /\ Len(s) \in Nat \ {0} /\ DOMAIN s = 1..Len(s)
      /\ DOMAIN u = 1..(Len(s) - 1) /\ \A i \in DOMAIN u : i \in DOMAIN s /\ u[i] = s[i]
  BY <1>2, PopParts
<1> HIDE DEF u
<1>4. CASE n = Len(s)
  BY <1>1, <1>2, <1>4 DEF Doom, u
<1>5. CASE n # Len(s)
  <2>1. n \in DOMAIN u /\ Len(s) \in DOMAIN s /\ Len(s) > n
    BY <1>3, <1>5
  <2>2. s[Len(s)].tag = "OnSuccess" /\ Passing(s[Len(s)].k)
    BY <1>1, <2>1
  <2>3. \A m \in DOMAIN u : m > n => u[m].tag = "OnSuccess" /\ Passing(u[m].k)
    BY <1>1, <1>3
  <2>4. u[n] = s[n]
    BY <1>3, <2>1
  <2>5. Doom(s[Len(s)].k, u)
    BY <1>1, <2>1, <2>2, <2>3, <2>4 DEF Doom
  <2> QED BY <1>2, <2>2, <2>5 DEF u
<1> QED BY <1>4, <1>5

\* Whoever does not run is no concern of a step of f.
LEMMA DoomOwn ==
  ASSUME NEW f \in Fiber, current' \in {f, NoFiber},
         pc' \in {"loop", "cont"} /\ MustDie(f)' => Doom(cur', stack'[f])
  PROVE  DoomInv'
  BY FiberAssumption DEF DoomInv, Active

\* An evaluation that has ended owes nothing to an interruption.
LEMMA DoomLeft ==
  ASSUME pc' \notin {"loop", "cont"}
  PROVE  DoomInv'
  BY DEF DoomInv, Active

\* The steps that start no run loop or give it up.
LEMMA DoomDrain ==
  ASSUME TypeOK, DoomInv, NEW f \in Fiber,
         \/ Finally(f) \/ DrainDone(f) \/ DrainYieldNow(f) \/ DrainInterrupt(f)
         \/ DrainResume(f) \/ DrainStateful(f) \/ SuspendAsync(f) \/ EvalAwaitAsync(f)
         \/ LeaveMessages(f) \/ SetExitValue(f) \/ Notify(f) \/ NotifyDone(f) \/ Run(f)
  PROVE  DoomInv'
<1>1. CASE DrainResume(f)
  <2>1. MustDie(f)' = MustDie(f) /\ current' = f
    BY <1>1 DEF DrainResume, Draining, GoTo, MustDie, Interruptible, machine
  <2>2. MustDie(f) => Fatal(cur')
    BY <1>1 DEF DrainResume, GoTo, Fatal, Failure, Interrupted
  <2> QED BY <2>1, <2>2, DoomOwn DEF Doom
<1>2. CASE ~DrainResume(f)
  <2>1. pc' \notin {"loop", "cont"}
    BY <1>2 DEF Finally, DrainDone, DrainYieldNow, DrainInterrupt, DrainStateful, Draining,
       SuspendAsync, EvalAwaitAsync, Initiate, LeaveMessages, SetExitValue, Notify, NotifyDone, Run,
       GoTo, Release, AfterEvaluate, thread
  <2> QED BY <2>1, DoomLeft
<1> QED BY <1>1, <1>2

\* The run loop's steps before a program's.
LEMMA DoomLoop ==
  ASSUME TypeOK, DoomInv, NEW f \in Fiber,
         LoopInterrupt(f) \/ LoopStateful(f) \/ ForcedYield(f) \/ EvalYield(f)
  PROVE  DoomInv'
<1>0. current = f /\ current' = f /\ Active(f)
  BY DEF LoopInterrupt, LoopStateful, ForcedYield, EvalYield, Ready, Looping, GoTo, thread, Active
<1>1. MustDie(f) => Doom(cur, stack[f])
  BY <1>0 DEF DoomInv
<1>2. CASE LoopInterrupt(f)
  <2>1. MustDie(f)' => Interruptible(f)
    BY <1>2 DEF LoopInterrupt, MustDie, Interruptible, machine
  <2>2. Interruptible(f) => Fatal(cur')
    BY <1>2 DEF LoopInterrupt, GoTo, Fatal, Failure, Interrupted
  <2> QED BY <1>0, <2>1, <2>2, DoomOwn DEF Doom
<1>3. CASE LoopStateful(f)
  <2>1. MustDie(f)' = MustDie(f) /\ UNCHANGED <<cur, stack>>
    BY <1>3 DEF LoopStateful, MustDie, Interruptible, machine, thread
  <2> QED BY <1>0, <1>1, <2>1, DoomOwn DEF Doom
<1>4. CASE ForcedYield(f)
  <2>1. MustDie(f)' = MustDie(f) /\ cur' = Yield
        /\ stack' = [stack EXCEPT ![f] = Append(@, [tag |-> "OnSuccess", k |-> cur])]
    BY <1>4 DEF ForcedYield, Push, GoTo, MustDie, Interruptible
  <2>2. stack \in [Fiber -> Seq(Frame)] /\ cur \in Effect
    BY DEF TypeOK
  <2>3. stack'[f] = Append(stack[f], [tag |-> "OnSuccess", k |-> cur])
    BY <2>1, <2>2
  <2>4. MustDie(f) => Doom(Yield, stack'[f])
    BY <1>1, <2>2, <2>3, DoomPush
  <2> QED BY <1>0, <2>1, <2>4, DoomOwn
<1>5. CASE EvalYield(f)
  <2>1. CASE f \in CooperativeYielding
    BY <1>5, <2>1, DoomLeft DEF EvalYield, GoTo, AfterEvaluate
  <2>2. CASE f \notin CooperativeYielding
    <3>1. MustDie(f)' = MustDie(f) /\ cur' = Unit /\ cur = Yield /\ stack' = stack
      BY <1>5, <2>2 DEF EvalYield, GoTo, MustDie, Interruptible, machine
    <3>2. MustDie(f) => Doom(Unit, stack[f])
      BY <1>1, <3>1 DEF Doom, Fatal, Passing, Yield, Unit, Success
    <3> QED BY <1>0, <3>1, <3>2, DoomOwn
  <2> QED BY <2>1, <2>2
<1> QED BY <1>2, <1>3, <1>4, <1>5

\* A program, or an effect that is none of a doomed fiber's.
LEMMA DoomProgram ==
  ASSUME TypeOK, TurnInv, DoomInv, NEW f \in Fiber,
         \/ Program(f) /\ ~SuspendAsync(f)
         \/ EvalRegion(f) \/ EvalAwait(f) \/ EvalJoin(f)
  PROVE  DoomInv'
<1>0. /\ Active(f) /\ current' = f
      /\ cur.op \in {"Prog", "Region", "Await", "Join"}
  <2>1. CASE Program(f) /\ ~SuspendAsync(f)
    <3>1. Ready(f) /\ cur = Prog
      BY <2>1 DEF Program, Finish, FlatMap, CatchAll, EnterRegion, OnExit, YieldOp, Fork,
         InterruptAsFork, AwaitOp, Complete, Chooses
    <3>2. \E p, e : GoTo(p, e)
      BY <2>1 DEF Program, Finish, FlatMap, CatchAll, EnterRegion, OnExit, Mask, YieldOp, Fork,
         InterruptAsFork, AwaitOp, Complete
    <3> QED BY <3>1, <3>2 DEF Ready, Looping, GoTo, Active, Prog
  <2>2. CASE EvalRegion(f) \/ EvalAwait(f) \/ EvalJoin(f)
    BY <2>2 DEF EvalRegion, EvalAwait, EvalJoin, Mask, Ready, Looping, GoTo, Active
  <2> QED BY <2>1, <2>2
<1>1. ~MustDie(f)
  BY <1>0 DEF DoomInv, Doom, Fatal, Passing
<1>2. CASE OnExit(f) \/ EvalAwait(f)
  <2>1. interruption' = [interruption EXCEPT ![f] = FALSE]
    BY <1>2 DEF OnExit, EvalAwait, Mask
  <2>2. ~MustDie(f)'
    BY <2>1 DEF MustDie, Interruptible, TypeOK
  <2> QED BY <1>0, <2>2, DoomOwn
<1>3. CASE EvalRegion(f)
  <2>1. CASE GoTo("loop", Failure(Interrupted))
    <3>1. Fatal(cur')
      BY <2>1 DEF GoTo, Fatal, Failure, Interrupted
    <3> QED BY <1>0, <3>1, DoomOwn DEF Doom
  <2>2. CASE ~(cur.enable /\ ~windDown[f] /\ interrupted[f])
    <3>1. /\ interruption' = [interruption EXCEPT ![f] = cur.enable]
          /\ UNCHANGED <<windDown, interrupted>>
      BY <1>3, <2>2 DEF EvalRegion
    <3>2. ~MustDie(f)'
      BY <2>2, <3>1 DEF MustDie, Interruptible, TypeOK
    <3> QED BY <1>0, <3>2, DoomOwn
  <2> QED BY <1>3, <2>1, <2>2 DEF EvalRegion
<1>4. CASE Fork(f)
  <2>1. PICK c \in Fiber : /\ status[c] = "new"
                           /\ interruption' = [interruption EXCEPT ![c] = interruption[f]]
                           /\ windDown' = [windDown EXCEPT ![c] = windDown[f]]
                           /\ UNCHANGED interrupted
    BY <1>4 DEF Fork
  <2>2. c # f
    BY <1>0, <2>1 DEF TurnInv, Turn
  <2>3. ~MustDie(f)'
    BY <1>1, <2>1, <2>2 DEF MustDie, Interruptible, TypeOK
  <2> QED BY <1>0, <2>3, DoomOwn
<1>5. CASE ~OnExit(f) /\ ~EvalAwait(f) /\ ~EvalRegion(f) /\ ~Fork(f)
  <2>1. UNCHANGED <<interruption, windDown, interrupted>>
    BY <1>5 DEF Program, Finish, FlatMap, CatchAll, EnterRegion, YieldOp,
       InterruptAsFork, AwaitOp, Complete, EvalJoin, machine
  <2>2. ~MustDie(f)'
    BY <1>1, <2>1 DEF MustDie, Interruptible
  <2> QED BY <1>0, <2>2, DoomOwn
<1> QED BY <1>2, <1>3, <1>4, <1>5

\* A continuation takes a doomed fiber to a failure, or to a frame that will.
LEMMA DoomSuccess ==
  ASSUME TypeOK, DoomInv, NEW f \in Fiber, EvalSuccess(f) \/ CleanupAfterSuccess(f)
  PROVE  DoomInv'
<1>0. /\ Active(f) /\ cur.op = "Success" /\ current' = f /\ stack[f] \in Seq(Frame)
      /\ stack \in [Fiber -> Seq(Frame)]
  BY DEF EvalSuccess, CleanupAfterSuccess, Evaluating, Skip, Use, UseRevert, GoTo, Active, TypeOK
<1>1. MustDie(f) => /\ stack[f] # <<>> /\ Top(f).tag = "OnSuccess"
                    /\ Doom(Top(f).k, Popped(f))
  BY <1>0, DoomPop DEF DoomInv, Top, Popped
<1>2. CASE UseRevert(f, Failure(Interrupted), cur)
  <2>1. /\ interruption' = [interruption EXCEPT ![f] = Reverted(f)] /\ UNCHANGED windDown
        /\ cur' = IF Reverted(f) /\ ~windDown[f] /\ interrupted[f]
                  THEN Failure(Interrupted) ELSE cur
    BY <1>2 DEF UseRevert, GoTo
  <2>2. interrupted' = interrupted
    BY <1>2 DEF EvalSuccess, CleanupAfterSuccess, UseRevert, GoTo
  <2>3. MustDie(f)' => Reverted(f) /\ ~windDown[f] /\ interrupted[f]
    BY <2>1, <2>2 DEF MustDie, Interruptible, TypeOK
  <2>4. MustDie(f)' => Fatal(cur')
    BY <2>1, <2>3 DEF Fatal, Failure, Interrupted
  <2> QED BY <1>0, <2>4, DoomOwn DEF Doom
<1>3. CASE ~UseRevert(f, Failure(Interrupted), cur)
  <2>1. MustDie(f)' = MustDie(f)
    BY <1>3 DEF EvalSuccess, CleanupAfterSuccess, Skip, Use, MustDie, Interruptible
  <2>2. MustDie(f) => Use(f, "OnSuccess", Top(f).k)
    BY <1>1, <1>3 DEF EvalSuccess, CleanupAfterSuccess, Skip, Use, UseRevert, TopIs, Empty
  <2>3. Use(f, "OnSuccess", Top(f).k) => cur' = Top(f).k /\ stack'[f] = Popped(f)
    BY <1>0 DEF Use, GoTo, Pop
  <2> QED BY <1>0, <1>1, <2>1, <2>2, <2>3, DoomOwn
<1> QED BY <1>2, <1>3

\* Failing on leaves the interruption to be met.
LEMMA DoomFailure ==
  ASSUME TypeOK, DoomInv, NEW f \in Fiber, EvalFailure(f) \/ CleanupAfterFailure(f)
  PROVE  DoomInv'
<1>0. Active(f) /\ cur.op = "Failure" /\ current' = f
  BY DEF EvalFailure, CleanupAfterFailure, Evaluating, Skip, Use, UseRevert, GoTo, Active
<1>1. MustDie(f) => Fatal(cur)
  BY <1>0 DEF DoomInv, Doom, Passing
<1>2. interrupted' = interrupted
  BY DEF EvalFailure, CleanupAfterFailure
<1>3. CASE UseRevert(f, Failure(cur.cause \cup Interrupted), cur)
  <2>1. /\ interruption' = [interruption EXCEPT ![f] = Reverted(f)] /\ UNCHANGED windDown
        /\ cur' = IF Reverted(f) /\ ~windDown[f] /\ interrupted[f]
                  THEN Failure(cur.cause \cup Interrupted) ELSE cur
    BY <1>3 DEF UseRevert, GoTo
  <2>2. MustDie(f)' => Reverted(f) /\ ~windDown[f] /\ interrupted[f]
    BY <1>2, <2>1 DEF MustDie, Interruptible, TypeOK
  <2>3. MustDie(f)' => Fatal(cur')
    BY <2>1, <2>2 DEF Fatal, Failure, Interrupted
  <2> QED BY <1>0, <2>3, DoomOwn DEF Doom
<1>4. CASE ~UseRevert(f, Failure(cur.cause \cup Interrupted), cur)
  <2>1. MustDie(f)' = MustDie(f)
    BY <1>2, <1>4 DEF EvalFailure, CleanupAfterFailure, Skip, Use, MustDie, Interruptible
  <2>2. MustDie(f) => cur' \in {cur, Failure(cur.cause \ {"Fail"})}
    BY <1>4 DEF EvalFailure, CleanupAfterFailure, Skip, Use, GoTo, Handle
  <2>3. MustDie(f) => Fatal(cur')
    BY <1>1, <2>2 DEF Fatal, Failure
  <2> QED BY <1>0, <2>1, <2>3, DoomOwn DEF Doom
<1> QED BY <1>3, <1>4

\* So does what happens outside an evaluation.
LEMMA DoomOther ==
  ASSUME TypeOK, DoomInv, RootInv, NEW g \in Fiber,
         LeaveChildren(g) \/ StartRoot \/ OutsideCompletes(g) \/ OutsideInterrupts(g)
  PROVE  DoomInv'
<1>1. CASE LeaveChildren(g)
  <2>1. current' = g /\ windDown' = [windDown EXCEPT ![g] = TRUE]
    BY <1>1 DEF LeaveChildren, Leaving, GoTo
  <2>2. ~MustDie(g)'
    BY <2>1 DEF MustDie, Interruptible, TypeOK
  <2> QED BY <2>1, <2>2, DoomOwn
<1>2. CASE StartRoot
  <2>1. current' = Root /\ ~interrupted[Root] /\ interrupted' = interrupted
    BY <1>2, FiberAssumption DEF StartRoot, RootInv
  <2> QED BY <2>1, FiberAssumption, DoomOwn DEF MustDie
<1>3. CASE OutsideCompletes(g) \/ OutsideInterrupts(g)
  <2>1. current' = NoFiber
    BY <1>3 DEF OutsideCompletes, OutsideInterrupts, thread
  <2> QED BY <2>1, FiberAssumption DEF DoomInv, Active
<1> QED BY <1>1, <1>2, <1>3

\* Every step keeps it that an interrupted fiber meets its interruption first.
LEMMA DoomNext ==
  ASSUME FiberInv, RootInv, DoomInv, [Next]_vars
  PROVE  DoomInv'
<1>0. TypeOK /\ TurnInv
  BY DEF FiberInv, TypeInv
<1>1. ASSUME NEW f \in Fiber, Step(f)
      PROVE  DoomInv'
  BY <1>0, <1>1, DoomDrain, DoomLoop, DoomProgram, DoomSuccess, DoomFailure, DoomOther
     DEF Step, Program
<1>2. CASE StartRoot
  BY <1>0, <1>2, DoomOther, FiberAssumption
<1>3. CASE \E g \in Fiber : Run(g) \/ OutsideCompletes(g) \/ OutsideInterrupts(g)
  BY <1>0, <1>3, DoomDrain, DoomOther
<1>4. CASE UNCHANGED vars
  BY <1>4 DEF DoomInv, Active, MustDie, Interruptible, vars, thread, machine
<1> QED BY <1>1, <1>2, <1>3, <1>4 DEF Next, Outside

\* A fiber's step is taken by the fiber that has the thread.
LEMMA StepHasThread ==
  ASSUME NEW f \in Fiber, Step(f)
  PROVE  current = f
<1>1. CASE Program(f)
  BY <1>1 DEF Program, Finish, FlatMap, CatchAll, EnterRegion, OnExit, SuspendAsync,
     YieldOp, Fork, InterruptAsFork, AwaitOp, Complete, Chooses, Ready, Looping
<1>2. CASE ~Program(f)
  BY <1>2 DEF Step, Finally, DrainDone, DrainYieldNow, DrainInterrupt, DrainResume,
     DrainStateful, LoopInterrupt, LoopStateful, ForcedYield, EvalYield, EvalRegion, EvalAwait,
     EvalAwaitAsync, EvalJoin, EvalSuccess, EvalFailure, CleanupAfterSuccess, CleanupAfterFailure,
     LeaveChildren, LeaveMessages, SetExitValue, Notify, NotifyDone,
     Draining, Ready, Looping, Evaluating, Leaving
<1> QED BY <1>1, <1>2

\* Nothing happens before the root fiber starts.
LEMMA RootNext ==
  ASSUME TypeOK, TurnInv, RootInv, [Next]_vars
  PROVE  RootInv'
<1> SUFFICES ASSUME status'[Root] = "new"
             PROVE  RootInv'
  BY DEF RootInv
<1>1. status[Root] = "new"
  BY StatusStep, FiberAssumption
<1>2. current = NoFiber /\ \A f \in Fiber : status[f] = "new" /\ runs[f] = 0 /\ ~interrupted[f]
  BY <1>1 DEF RootInv
<1>3. ~StartRoot
  BY FiberAssumption DEF StartRoot, TypeOK
<1>4. ~Outside /\ \A f \in Fiber : ~Run(f) /\ ~Step(f)
  BY <1>2, FiberAssumption, StepHasThread
     DEF Outside, OutsideCompletes, OutsideInterrupts, HoldsCallback, Run
<1>5. UNCHANGED vars
  BY <1>3, <1>4 DEF Next
<1> QED BY <1>2, <1>5 DEF RootInv, vars, thread, family, inbox

\* Interruption stops a fiber: in an interruptible region it takes no step of
\* its program, however it suspends, yields, changes regions or forks after
\* the interruption reached it.
THEOREM InterruptedProgramsStop == Spec => []InterruptionStops
<1>1. Init => RootInv /\ DoomInv
  BY DEF Init, RootInv, DoomInv, Active
<1>2. FiberInv /\ RootInv /\ DoomInv /\ [Next]_vars => RootInv' /\ DoomInv'
  BY DoomNext, RootNext DEF FiberInv, TypeInv
<1>3. DoomInv => InterruptionStops
  BY DEF DoomInv, Doom, Fatal, Passing, InterruptionStops, Looping, Active, Prog
<1> QED BY <1>1, <1>2, <1>3, FiberInit, FiberNext, PTL DEF Spec


----------------------------------------------------------------------------
(* Mail.  What a step does to the mailbox of fiber p, for any set S of       *)
(* messages that has those that p may be sent.                               *)

\* The messages everybody may be sent,
CommonMessage ==
  {InterruptSignal, YieldNow, Resume(Unit)} \cup {AddChild(c) : c \in Fiber}
    \cup {Unobserve(g, i) : g \in Fiber, i \in Nat}

\* ... and those that are sent to p under a condition.
Sendable(p, S) ==
  /\ CommonMessage \subseteq S
  /\ status[p] = "new" => Resume(Prog) \in S
  /\ interruptor[p] # 0 => Resume(Failure(Interrupted)) \in S
  /\ HoldsCallback(p) /\ asyncs[p] \notin called[p] => Resume(Failure({"Fail"})) \in S
  /\ LeaveMessages(p) => Resume(ExitEffect(ExitOf(cur))) \in S
  /\ \A f \in Fiber : EvalAwaitAsync(f) /\ cur.of = p => Observe(f, asyncs[f] + 1) \in S

\* Messages of S are appended to box[p], or none.
Delivered(p, box, S) == mailbox'[p] = box[p] \/ \E t \in Seq(S) : mailbox'[p] = box[p] \o t

\* The steps that take the first message of fiber f.
Takes(f) == \/ DrainYieldNow(f) \/ DrainResume(f) \/ DrainInterrupt(f) \/ DrainStateful(f)
            \/ LoopInterrupt(f) \/ LoopStateful(f)

\* What p gets of what is told.
LEMMA MailParts ==
  ASSUME NEW S, NEW p \in Fiber
  PROVE  /\ Nothing[p] \in Seq(S)
         /\ \A f, m : (f = p => m \in S) => To(f, m)[p] \in Seq(S)
         /\ \A T, m : m \in S => ToAll(T, m)[p] \in Seq(S)
         /\ \A f, i, e : (f = p /\ i \notin called[p] => Resume(e) \in S)
                             => Resumption(f, i, e)[p] \in Seq(S)
<1>0. <<>> \in Seq(S) /\ \A m \in S : <<m>> \in Seq(S)
  BY EmptySeq
<1>1. Nothing[p] \in Seq(S)
  BY <1>0 DEF Nothing
<1>2. \A f, m : (f = p => m \in S) => To(f, m)[p] \in Seq(S)
  BY <1>0 DEF To
<1>3. \A T, m : m \in S => ToAll(T, m)[p] \in Seq(S)
  BY <1>0 DEF ToAll
<1>4. \A f, i, e : (f = p /\ i \notin called[p] => Resume(e) \in S)
                      => Resumption(f, i, e)[p] \in Seq(S)
  BY <1>1, <1>2 DEF Resumption
<1> QED BY <1>1, <1>2, <1>3, <1>4

\* Telling appends what is told, and keeps the rest.
LEMMA TellDelivers ==
  ASSUME NEW S, NEW box, NEW msgs, Tell(box, msgs), NEW p \in Fiber, msgs[p] \in Seq(S)
  PROVE  Delivered(p, box, S)
  BY DEF Tell, Delivered

\* Taking a message keeps the others.
LEMMA MailTaken ==
  ASSUME TypeOK, NEW S, NEW p \in Fiber, Sendable(p, S), NEW f \in Fiber, Takes(f)
  PROVE  mailbox[f] # <<>> /\ Delivered(p, Box(f, Tail(mailbox[f])), S)
<1> DEFINE box == Box(f, Tail(mailbox[f]))
           m == Head(mailbox[f])
<1>0. mailbox[f] # <<>>
  BY DEF Takes, DrainYieldNow, DrainResume, DrainInterrupt, LoopInterrupt, HeadIs,
         DrainStateful, LoopStateful, IsStateful
<1>1. /\ InterruptSignal \in S /\ Resume(Unit) \in S
      /\ interruptor[p] # 0 => Resume(Failure(Interrupted)) \in S
  BY DEF Sendable, CommonMessage
<1>2. SUFFICES Delivered(p, box, S)
  BY <1>0
<1>3. CASE DrainYieldNow(f) \/ DrainResume(f)
  BY <1>3 DEF DrainYieldNow, DrainResume, Delivered
<1>4. CASE DrainInterrupt(f)
  <2> DEFINE i == interruptor[f]
             wake == IF i = 0 THEN Nothing ELSE Resumption(f, i, Failure(Interrupted))
             signal == ToAll(children[f], InterruptSignal)
             both == [g \in Fiber |-> signal[g] \o wake[g]]
  <2>1. Tell(box, both)
    BY <1>4 DEF DrainInterrupt
  <2>2. wake[p] \in Seq(S)
    BY <1>1, MailParts
  <2>3. signal[p] \in Seq(S)
    BY <1>1, MailParts
  <2> HIDE DEF wake, signal, box
  <2>4. both[p] \in Seq(S)
    BY <2>2, <2>3, ConcatProperties
  <2> HIDE DEF both
  <2> QED BY <2>1, <2>4, TellDelivers
<1>5. CASE LoopInterrupt(f)
  <2>1. Tell(box, ToAll(children[f], InterruptSignal))
    BY <1>5 DEF LoopInterrupt
  <2>2. ToAll(children[f], InterruptSignal)[p] \in Seq(S)
    BY <1>1, MailParts
  <2> HIDE DEF box
  <2> QED BY <2>1, <2>2, TellDelivers
<1>6. CASE DrainStateful(f) \/ LoopStateful(f)
  <2>1. Tell(box, Nothing) \/ Tell(box, Resumption(m.by, m.id, Unit))
    BY <1>6 DEF DrainStateful, LoopStateful, Stateful
  <2>2. Nothing[p] \in Seq(S) /\ Resumption(m.by, m.id, Unit)[p] \in Seq(S)
    BY <1>1, MailParts
  <2> HIDE DEF box, m
  <2> QED BY <2>1, <2>2, TellDelivers
<1> QED BY <1>3, <1>4, <1>5, <1>6 DEF Takes

\* Every other step appends to the mailboxes it does not leave alone.
LEMMA MailSent ==
  ASSUME TypeOK, InRange, NEW S, NEW p \in Fiber, Sendable(p, S), NEW f \in Fiber,
         \/ SuspendAsync(f) \/ Fork(f) \/ InterruptAsFork(f) \/ Complete(f)
         \/ EvalYield(f) \/ EvalAwaitAsync(f) \/ CleanupAfterFailure(f)
         \/ LeaveChildren(f) \/ LeaveMessages(f) \/ Notify(f)
         \/ OutsideCompletes(f) \/ OutsideInterrupts(f)
  PROVE  Delivered(p, mailbox, S)
<1>0. ASSUME NEW msgs, Tell(mailbox, msgs), msgs[p] \in Seq(S)
      PROVE  Delivered(p, mailbox, S)
  BY <1>0 DEF Tell, Delivered
<1>1. SUFFICES mailbox' = mailbox \/ \E msgs : Tell(mailbox, msgs) /\ msgs[p] \in Seq(S)
  <2>1. CASE mailbox' = mailbox
    BY <2>1 DEF Delivered
  <2> QED BY <1>0, <1>1, <2>1
<1>2. /\ InterruptSignal \in S /\ YieldNow \in S /\ Resume(Unit) \in S
      /\ \A c \in Fiber : AddChild(c) \in S
      /\ \A g \in Fiber, i \in Nat : Unobserve(g, i) \in S
  BY DEF Sendable, CommonMessage
<1>3. CASE SuspendAsync(f)
  BY <1>2, <1>3, MailParts DEF SuspendAsync
<1>4. CASE Fork(f)
  <2>1. PICK c \in Fiber, daemon \in BOOLEAN :
          /\ status[c] = "new"
          /\ Tell(mailbox, [g \in Fiber |-> (IF daemon THEN Nothing ELSE To(f, AddChild(c)))[g]
                                               \o To(c, Resume(Prog))[g]])
    BY <1>4 DEF Fork
  <2> DEFINE adopt == IF daemon THEN Nothing ELSE To(f, AddChild(c))
             start == To(c, Resume(Prog))
             both == [g \in Fiber |-> adopt[g] \o start[g]]
  <2>2. adopt[p] \in Seq(S)
    BY <1>2, MailParts
  <2>3. c = p => Resume(Prog) \in S
    BY <2>1 DEF Sendable
  <2>4. start[p] \in Seq(S)
    BY <2>3, MailParts
  <2>5. Tell(mailbox, both)
    BY <2>1
  <2> HIDE DEF adopt, start
  <2>6. both[p] \in Seq(S)
    BY <2>2, <2>4, ConcatProperties
  <2> HIDE DEF both
  <2> QED BY <2>5, <2>6
<1>5. CASE InterruptAsFork(f) \/ OutsideInterrupts(f)
  BY <1>2, <1>5, MailParts DEF InterruptAsFork, OutsideInterrupts
<1>6. CASE Complete(f)
  <2>1. PICK g \in Fiber : Tell(mailbox, Resumption(g, asyncs[g], Unit))
    BY <1>6 DEF Complete
  <2> QED BY <1>2, <2>1, MailParts
<1>7. CASE OutsideCompletes(f)
  <2>1. HoldsCallback(f) /\ \E e \in {Unit, Failure({"Fail"})} : Tell(mailbox, Resumption(f, asyncs[f], e))
    BY <1>7 DEF OutsideCompletes
  <2>2. PICK e \in {Unit, Failure({"Fail"})} : Tell(mailbox, Resumption(f, asyncs[f], e))
    BY <2>1
  <2>3. f = p /\ asyncs[f] \notin called[p] => Resume(e) \in S
    BY <1>2, <2>1 DEF Sendable
  <2> QED BY <2>2, <2>3, MailParts
<1>8. CASE EvalYield(f)
  <2> DEFINE two == [g \in Fiber |-> IF g = f THEN <<YieldNow, Resume(Unit)>> ELSE <<>>]
  <2>1. Tell(mailbox, two) \/ mailbox' = mailbox
    BY <1>8 DEF EvalYield, inbox
  <2>2. two[p] = <<YieldNow, Resume(Unit)>> \/ two[p] = <<>>
    OBVIOUS
  <2> HIDE DEF two
  <2>3. <<YieldNow, Resume(Unit)>> \in Seq(S)
    BY <1>2
  <2>4. two[p] \in Seq(S)
    BY <2>2, <2>3, EmptySeq
  <2> QED BY <2>1, <2>4
<1>9. CASE EvalAwaitAsync(f)
  <2>1. Tell(mailbox, To(cur.of, Observe(f, asyncs[f] + 1)))
    BY <1>9 DEF EvalAwaitAsync
  <2>2. cur.of = p => Observe(f, asyncs[f] + 1) \in S
    BY <1>9 DEF Sendable
  <2> QED BY <2>1, <2>2, MailParts
<1>10. CASE CleanupAfterFailure(f)
  <2> DEFINE h == Top(f).h
  <2>1. UNCHANGED inbox \/ (h.kind = "canceler" /\ Tell(mailbox, To(h.of, Unobserve(f, h.id))))
    BY <1>10 DEF CleanupAfterFailure
  <2>2. stack[f] # <<>> /\ Top(f).tag = "Cleanup"
    BY <1>10 DEF CleanupAfterFailure, TopIs, Empty
  <2>3. h \in Handler
    BY <2>2, PoppedType, FrameParts
  <2>4. h.kind = "canceler" => Unobserve(f, h.id) \in S
    BY <1>2, <2>3, HandlerParts
  <2> HIDE DEF h
  <2> QED BY <2>1, <2>4, MailParts DEF inbox
<1>11. CASE LeaveChildren(f)
  BY <1>2, <1>11, MailParts DEF LeaveChildren
<1>12. CASE LeaveMessages(f)
  <2>1. Tell(mailbox, To(f, Resume(ExitEffect(ExitOf(cur)))))
    BY <1>12 DEF LeaveMessages
  <2>2. f = p => Resume(ExitEffect(ExitOf(cur))) \in S
    BY <1>12 DEF Sendable
  <2> QED BY <2>1, <2>2, MailParts
<1>13. CASE Notify(f)
  <2> DEFINE o == observers[f][next]
  <2>1. UNCHANGED inbox \/ Tell(mailbox, Resumption(o.by, o.id, Unit))
    BY <1>13 DEF Notify
  <2> HIDE DEF o
  <2> QED BY <1>2, <2>1, MailParts DEF inbox
<1> QED BY <1>3, <1>4, <1>5, <1>6, <1>7, <1>8, <1>9, <1>10, <1>11, <1>12, <1>13

\* Steps that tell nothing.
LEMMA MailboxStill ==
  ASSUME NEW f \in Fiber,
         \/ Finally(f) \/ DrainDone(f) \/ ForcedYield(f) \/ Finish(f) \/ FlatMap(f) \/ CatchAll(f)
         \/ EnterRegion(f) \/ OnExit(f) \/ YieldOp(f) \/ AwaitOp(f) \/ EvalRegion(f)
         \/ EvalAwait(f) \/ EvalJoin(f) \/ EvalSuccess(f) \/ EvalFailure(f)
         \/ CleanupAfterSuccess(f) \/ SetExitValue(f) \/ NotifyDone(f) \/ Run(f) \/ StartRoot
  PROVE  mailbox' = mailbox
  BY DEF Finally, DrainDone, ForcedYield, Finish, FlatMap, CatchAll, EnterRegion, OnExit, Mask,
     YieldOp, AwaitOp, EvalRegion, EvalAwait, EvalJoin, EvalSuccess, EvalFailure,
     CleanupAfterSuccess, SetExitValue, NotifyDone, Run, StartRoot, inbox

\* Every step takes at most one message, and appends messages of S.
LEMMA MailStep ==
  ASSUME TypeOK, InRange, [Next]_vars, NEW S, NEW p \in Fiber, Sendable(p, S)
  PROVE  \/ Delivered(p, mailbox, S)
         \/ \E f \in Fiber : /\ Takes(f) /\ mailbox[f] # <<>>
                             /\ Delivered(p, Box(f, Tail(mailbox[f])), S)
<1>1. ASSUME NEW f \in Fiber, Step(f), ~Takes(f)
      PROVE  Delivered(p, mailbox, S)
  <2>1. CASE mailbox' = mailbox
    BY <2>1 DEF Delivered
  <2>2. CASE mailbox' # mailbox
    <3>1. \/ SuspendAsync(f) \/ Fork(f) \/ InterruptAsFork(f) \/ Complete(f)
          \/ EvalYield(f) \/ EvalAwaitAsync(f) \/ CleanupAfterFailure(f)
          \/ LeaveChildren(f) \/ LeaveMessages(f) \/ Notify(f)
      BY <1>1, <2>2, MailboxStill DEF Step, Program, Takes
    <3> QED BY <3>1, MailSent
  <2> QED BY <2>1, <2>2
<1>2. ASSUME NEW f \in Fiber, Takes(f)
      PROVE  mailbox[f] # <<>> /\ Delivered(p, Box(f, Tail(mailbox[f])), S)
  BY <1>2, MailTaken
<1>3. CASE StartRoot \/ UNCHANGED vars
  <2>1. mailbox' = mailbox
    BY <1>3, MailboxStill, FiberAssumption DEF vars, inbox
  <2> QED BY <2>1 DEF Delivered
<1>4. CASE \E g \in Fiber : Run(g) \/ OutsideCompletes(g) \/ OutsideInterrupts(g)
  <2>1. ASSUME NEW g \in Fiber, Run(g)
        PROVE  Delivered(p, mailbox, S)
    BY <2>1, MailboxStill DEF Delivered
  <2>2. ASSUME NEW g \in Fiber, OutsideCompletes(g) \/ OutsideInterrupts(g)
        PROVE  Delivered(p, mailbox, S)
    BY <2>2, MailSent
  <2> QED BY <1>4, <2>1, <2>2
<1> QED BY <1>1, <1>2, <1>3, <1>4 DEF Next, Outside

\* So the messages of a mailbox are of S still,
LEMMA MailIn ==
  ASSUME TypeOK, InRange, [Next]_vars, NEW S, NEW p \in Fiber, Sendable(p, S),
         mailbox[p] \in Seq(S)
  PROVE  mailbox'[p] \in Seq(S)
<1>1. ASSUME NEW box, box[p] \in Seq(S), Delivered(p, box, S)
      PROVE  mailbox'[p] \in Seq(S)
  BY <1>1, ConcatProperties DEF Delivered
<1>2. ASSUME NEW f \in Fiber, mailbox[f] # <<>>
      PROVE  Box(f, Tail(mailbox[f]))[p] \in Seq(S)
  <2>1. Box(f, Tail(mailbox[f]))[p] = IF p = f THEN Tail(mailbox[p]) ELSE mailbox[p]
    BY DEF Box, TypeOK
  <2>2. p = f => Tail(mailbox[p]) \in Seq(S)
    BY <1>2, TailParts
  <2> QED BY <2>1, <2>2
<1> QED BY <1>1, <1>2, MailStep

\* ... and a message stays, unless it is the one that is taken.
Holds(q, x) == \E i \in DOMAIN q : q[i] = x

\* What a concatenation holds.
LEMMA HoldsConcat ==
  ASSUME NEW S, NEW s \in Seq(S), NEW t \in Seq(S), NEW x
  PROVE  Holds(s \o t, x) <=> Holds(s, x) \/ Holds(t, x)
<1> DEFINE u == s \o t
<1>1. /\ \A i \in DOMAIN s : i \in DOMAIN u /\ u[i] = s[i]
      /\ \A i \in DOMAIN t : Len(s) + i \in DOMAIN u /\ u[Len(s) + i] = t[i]
      /\ \A i \in DOMAIN u : \/ i \in DOMAIN s /\ u[i] = s[i]
                             \/ i - Len(s) \in DOMAIN t /\ u[i] = t[i - Len(s)]
  BY ConcatParts
<1> HIDE DEF u
<1>2. Holds(u, x) <=> Holds(s, x) \/ Holds(t, x)
  BY <1>1 DEF Holds
<1> QED BY <1>2 DEF u

\* What a sequence holds, its head and its tail do.
LEMMA HoldsTail ==
  ASSUME NEW S, NEW s \in Seq(S), s # <<>>, NEW x
  PROVE  Holds(s, x) <=> Head(s) = x \/ Holds(Tail(s), x)
<1> DEFINE u == Tail(s)
<1>1. /\ Len(s) \in Nat \ {0} /\ DOMAIN s = 1..Len(s) /\ Head(s) = s[1]
      /\ DOMAIN u = 1..(Len(s) - 1)
      /\ \A i \in DOMAIN u : i + 1 \in DOMAIN s /\ u[i] = s[i + 1]
  BY TailParts
<1> HIDE DEF u
<1>2. \A i \in DOMAIN s : i = 1 \/ (i - 1 \in DOMAIN u /\ u[i - 1] = s[i])
  <2> TAKE i \in DOMAIN s
  <2>1. CASE i # 1
    <3>1. i - 1 \in DOMAIN u /\ (i - 1) + 1 = i
      BY <1>1, <2>1
    <3> QED BY <1>1, <3>1
  <2> QED BY <2>1
<1>3. 1 \in DOMAIN s
  BY <1>1
<1>4. Holds(s, x) <=> Head(s) = x \/ Holds(u, x)
  BY <1>1, <1>2, <1>3 DEF Holds
<1> QED BY <1>4 DEF u

\* The messages of a type may be sent.
LEMMA MessagesSendable ==
  ASSUME TypeOK, NEW p \in Fiber
  PROVE  Sendable(p, Message)
<1>1. CommonMessage \subseteq Message /\ Resume(Prog) \in Message
      /\ Resume(Failure(Interrupted)) \in Message /\ Resume(Failure({"Fail"})) \in Message
  BY MessageConstructors, EffectConstructors, ExitConstructors DEF CommonMessage
<1>2. ASSUME LeaveMessages(p)
      PROVE  Resume(ExitEffect(ExitOf(cur))) \in Message
  <2>1. ExitEffect(ExitOf(cur)) \in Effect
    BY <1>2, ExitOfType, EffectConstructors DEF LeaveMessages, Leaving, TypeOK
  <2> QED BY <2>1, MessageConstructors
<1>3. ASSUME NEW f \in Fiber
      PROVE  Observe(f, asyncs[f] + 1) \in Message
  <2>1. asyncs[f] \in Nat
    BY DEF TypeOK
  <2> QED BY <2>1, MessageConstructors
<1> QED BY <1>1, <1>2, <1>3 DEF Sendable

\* A message stays in its mailbox until it is the head and is taken.
LEMMA MailKept ==
  ASSUME TypeOK, InRange, [Next]_vars, NEW g \in Fiber, NEW x, Holds(mailbox[g], x),
         ~(Takes(g) /\ Head(mailbox[g]) = x)
  PROVE  Holds(mailbox'[g], x)
<1>0. mailbox[g] \in Seq(Message) /\ mailbox \in [Fiber -> Seq(Message)]
  BY DEF TypeOK
<1>1. ASSUME NEW box, box[g] \in Seq(Message), Holds(box[g], x), Delivered(g, box, Message)
      PROVE  Holds(mailbox'[g], x)
  <2>1. ASSUME NEW t \in Seq(Message), mailbox'[g] = box[g] \o t
        PROVE  Holds(mailbox'[g], x)
    <3>1. Holds(box[g] \o t, x)
      BY <1>1, HoldsConcat
    <3> QED BY <2>1, <3>1
  <2> QED BY <1>1, <2>1 DEF Delivered
<1>2. ASSUME NEW f \in Fiber, Takes(f), mailbox[f] # <<>>,
             Delivered(g, Box(f, Tail(mailbox[f])), Message)
      PROVE  Holds(mailbox'[g], x)
  <2> DEFINE box == Box(f, Tail(mailbox[f]))
  <2>1. box[g] = IF g = f THEN Tail(mailbox[g]) ELSE mailbox[g]
    BY <1>0 DEF Box
  <2>2. g = f => Holds(Tail(mailbox[g]), x) /\ Tail(mailbox[g]) \in Seq(Message)
    BY <1>0, <1>2, HoldsTail, TailParts
  <2>3. box[g] \in Seq(Message) /\ Holds(box[g], x)
    BY <1>0, <2>1, <2>2
  <2> HIDE DEF box
  <2> QED BY <1>1, <1>2, <2>3 DEF box
<1> QED BY <1>0, <1>1, <1>2, MailStep, MessagesSendable

\* A message that is not in S is only in a mailbox that had it.
LEMMA MailOld ==
  ASSUME TypeOK, InRange, [Next]_vars, NEW S, NEW g \in Fiber, Sendable(g, S), S \subseteq Message,
         NEW x, x \notin S, Holds(mailbox'[g], x)
  PROVE  Holds(mailbox[g], x)
<1>0. mailbox[g] \in Seq(Message) /\ mailbox \in [Fiber -> Seq(Message)]
  BY DEF TypeOK
<1>1. ASSUME NEW box, box[g] \in Seq(Message), Delivered(g, box, S)
      PROVE  Holds(box[g], x)
  <2>1. ASSUME NEW t \in Seq(S), mailbox'[g] = box[g] \o t
        PROVE  Holds(box[g], x)
    <3>1. t \in Seq(Message) /\ ~Holds(t, x)
      BY SeqGrows, LenProperties DEF Holds
    <3> QED BY <1>1, <2>1, <3>1, HoldsConcat
  <2> QED BY <1>1, <2>1 DEF Delivered
<1>2. ASSUME NEW f \in Fiber, mailbox[f] # <<>>, Delivered(g, Box(f, Tail(mailbox[f])), S)
      PROVE  Holds(mailbox[g], x)
  <2> DEFINE box == Box(f, Tail(mailbox[f]))
  <2>1. box[g] = IF g = f THEN Tail(mailbox[g]) ELSE mailbox[g]
    BY <1>0 DEF Box
  <2>2. g = f => Tail(mailbox[g]) \in Seq(Message)
    BY <1>0, <1>2, TailParts
  <2>3. box[g] \in Seq(Message)
    BY <1>0, <2>1, <2>2
  <2> HIDE DEF box
  <2>4. Holds(box[g], x)
    BY <1>1, <1>2, <2>3 DEF box
  <2>5. g = f => (Holds(Tail(mailbox[g]), x) => Holds(mailbox[g], x))
    BY <1>0, <1>2, HoldsTail
  <2> QED BY <2>1, <2>4, <2>5
<1> QED BY <1>0, <1>1, <1>2, MailStep


----------------------------------------------------------------------------
(* Causes.  No exit, effect, continuation or message of a failure is without *)
(* a cause: where a handler strips the failures of a cause, the fiber is     *)
(* doomed and the cause holds its interruption.                              *)

CausedExit    == {e \in Exit : e.ok \/ e.cause # {}}
CausedEffect  == {e \in Effect : /\ e.op = "Failure" => e.cause # {}
                                 /\ e.op = "Success" => e.value \in CausedExit
                                 /\ e.op = "Join" => e.exit \in CausedExit}
CausedFrame   == {r \in Frame : /\ r.tag = "OnSuccess" => r.k \in CausedEffect
                                /\ r.tag = "AfterCleanup" => r.cause # {}}
CausedMessage == {m \in Message : m.tag = "Resume" => m.effect \in CausedEffect}

CauseInv == /\ cur \in CausedEffect
            /\ exit \in [Fiber -> CausedExit]
            /\ stack \in [Fiber -> Seq(CausedFrame)]
            /\ mailbox \in [Fiber -> Seq(CausedMessage)]

\* What the library builds has its causes.
LEMMA CausedEffects ==
  /\ Prog \in CausedEffect /\ Yield \in CausedEffect /\ Unit \in CausedEffect
  /\ Failure({"Fail"}) \in CausedEffect /\ Failure(Interrupted) \in CausedEffect
  /\ \A g \in Fiber : Await(g) \in CausedEffect
  /\ \A on \in BOOLEAN, b \in Body : Region(on, b) \in CausedEffect
  /\ Body \subseteq CausedEffect
<1>1. /\ Prog \in Effect /\ Yield \in Effect /\ Unit \in Effect
      /\ Failure({"Fail"}) \in Effect /\ Failure(Interrupted) \in Effect
      /\ \A g \in Fiber : Await(g) \in Effect
      /\ \A on \in BOOLEAN, b \in Body : Region(on, b) \in Effect
      /\ Body \subseteq Effect
  BY EffectConstructors, ExitConstructors
<1>2. /\ Prog.op = "Prog" /\ Yield.op = "Yield" /\ \A g \in Fiber : Await(g).op = "Await"
      /\ \A on \in BOOLEAN, b \in Body : Region(on, b).op = "Region"
      /\ \A b \in Body : b.op \in {"Prog", "AwaitAsync"}
  BY DEF Prog, Yield, Await, Region, Body
<1>3. Unit.op = "Success" /\ Unit.value = Ok /\ Ok \in Exit /\ Ok.ok
  BY ExitConstructors DEF Unit, Success, Ok
<1>4. /\ Failure({"Fail"}).op = "Failure" /\ Failure({"Fail"}).cause = {"Fail"}
      /\ Failure(Interrupted).op = "Failure" /\ Failure(Interrupted).cause = {"Interrupt"}
  BY DEF Failure, Interrupted
<1>5. Unit \in CausedEffect
  BY <1>1, <1>3 DEF CausedEffect, CausedExit
<1>6. Failure({"Fail"}) \in CausedEffect /\ Failure(Interrupted) \in CausedEffect
  BY <1>1, <1>4 DEF CausedEffect
<1>7. /\ Prog \in CausedEffect /\ Yield \in CausedEffect
      /\ \A g \in Fiber : Await(g) \in CausedEffect
      /\ \A on \in BOOLEAN, b \in Body : Region(on, b) \in CausedEffect
      /\ Body \subseteq CausedEffect
  BY <1>1, <1>2 DEF CausedEffect
<1> QED BY <1>5, <1>6, <1>7

\* The exits and effects of the operations that have a cause if they fail,
LEMMA CausedExits ==
  /\ Ok \in CausedExit
  /\ \A c \in Cause : c # {} => Failed(c) \in CausedExit /\ Failure(c) \in CausedEffect
  /\ \A v \in CausedExit : Success(v) \in CausedEffect /\ ExitEffect(v) \in CausedEffect
  /\ \A T \in SUBSET Fiber, v \in CausedExit : Join(T, v) \in CausedEffect
<1>1. Ok \in CausedExit
  BY ExitConstructors DEF CausedExit, Ok
<1>2. ASSUME NEW c \in Cause, c # {}
      PROVE  Failed(c) \in CausedExit /\ Failure(c) \in CausedEffect
  <2>1. Failed(c) \in Exit /\ Failed(c).cause = c
    BY ExitConstructors DEF Failed
  <2>2. Failure(c) \in Effect /\ Failure(c).op = "Failure" /\ Failure(c).cause = c
    BY EffectConstructors DEF Failure
  <2> QED BY <1>2, <2>1, <2>2 DEF CausedExit, CausedEffect
<1>3. ASSUME NEW v \in CausedExit
      PROVE  Success(v) \in CausedEffect
  <2>1. Success(v) \in Effect /\ Success(v).op = "Success" /\ Success(v).value = v
    BY EffectConstructors DEF Success, CausedExit
  <2> QED BY <2>1 DEF CausedEffect
<1>4. ASSUME NEW v \in CausedExit
      PROVE  ExitEffect(v) \in CausedEffect
  <2>1. v.cause \in Cause
    BY ExitConstructors DEF CausedExit
  <2>2. CASE v.ok
    BY <1>1, <1>3, <2>2 DEF ExitEffect
  <2>3. CASE ~v.ok
    BY <1>2, <2>1, <2>3 DEF ExitEffect, CausedExit
  <2> QED BY <2>2, <2>3
<1>5. ASSUME NEW T \in SUBSET Fiber, NEW v \in CausedExit
      PROVE  Join(T, v) \in CausedEffect
  <2>1. Join(T, v) \in Effect /\ Join(T, v).op = "Join" /\ Join(T, v).exit = v
    BY EffectConstructors DEF Join, CausedExit
  <2> QED BY <2>1 DEF CausedEffect
<1> QED BY <1>1, <1>2, <1>3, <1>4, <1>5

\* ... the messages that carry them,
LEMMA CausedMessages ==
  /\ InterruptSignal \in CausedMessage /\ YieldNow \in CausedMessage
  /\ \A e \in CausedEffect : Resume(e) \in CausedMessage
  /\ \A c \in Fiber : AddChild(c) \in CausedMessage
  /\ \A g \in Fiber, i \in Nat : Observe(g, i) \in CausedMessage /\ Unobserve(g, i) \in CausedMessage
  BY MessageConstructors DEF CausedMessage, CausedEffect, InterruptSignal, YieldNow, Resume,
     AddChild, Observe, Unobserve

\* ... and the frames that hold them.
LEMMA CausedFrames ==
  /\ \A k \in CausedEffect : [tag |-> "OnSuccess", k |-> k] \in CausedFrame
  /\ [tag |-> "Continue"] \in CausedFrame /\ [tag |-> "OnFailure"] \in CausedFrame
  /\ \A w \in BOOLEAN : OnStep(w) \in CausedFrame
  /\ \A f \in Fiber, on \in BOOLEAN : TypeOK => Revert(f, on) \in CausedFrame
  /\ \A h \in Handler : [tag |-> "Cleanup", h |-> h] \in CausedFrame
  /\ \A c \in Cause : c # {} => [tag |-> "AfterCleanup", cause |-> c] \in CausedFrame
<1>1. \A f \in Fiber, on \in BOOLEAN : TypeOK => Revert(f, on) \in CausedFrame
  <2> SUFFICES ASSUME NEW f \in Fiber, NEW on \in BOOLEAN, TypeOK
               PROVE  Revert(f, on) \in CausedFrame
    OBVIOUS
  <2>1. interruption[f] \in BOOLEAN /\ (interruption[f] # on) \in BOOLEAN
    BY DEF TypeOK
  <2>2. Revert(f, on) \in Frame /\ Revert(f, on).tag = "Revert"
    BY <2>1, FrameConstructors DEF Revert
  <2> QED BY <2>2 DEF CausedFrame
<1>2. \A k \in CausedEffect : [tag |-> "OnSuccess", k |-> k] \in CausedFrame
  BY FrameConstructors DEF CausedFrame, CausedEffect
<1>3. /\ [tag |-> "Continue"] \in CausedFrame /\ [tag |-> "OnFailure"] \in CausedFrame
      /\ \A w \in BOOLEAN : OnStep(w) \in CausedFrame
  BY FrameConstructors DEF CausedFrame, OnStep
<1>4. \A h \in Handler : [tag |-> "Cleanup", h |-> h] \in CausedFrame
  BY FrameConstructors DEF CausedFrame
<1>5. \A c \in Cause : c # {} => [tag |-> "AfterCleanup", cause |-> c] \in CausedFrame
  BY FrameConstructors DEF CausedFrame
<1> QED BY <1>1, <1>2, <1>3, <1>4, <1>5

\* Stacks of frames of any set.
LEMMA StackIn ==
  ASSUME NEW S, stack \in [Fiber -> Seq(S)], NEW f \in Fiber
  PROVE  /\ \A r \in S : Push(f, r) => stack' \in [Fiber -> Seq(S)]
         /\ \A t \in Seq(S) : stack' = [stack EXCEPT ![f] = @ \o t] => stack' \in [Fiber -> Seq(S)]
         /\ stack[f] # <<>> =>
              /\ Top(f) \in S /\ Popped(f) \in Seq(S)
              /\ Pop(f) => stack' \in [Fiber -> Seq(S)]
              /\ \A r \in S : stack' = [stack EXCEPT ![f] = Append(Popped(f), r)] =>
                                stack' \in [Fiber -> Seq(S)]
<1>1. stack[f] \in Seq(S)
  OBVIOUS
<1>2. \A r \in S : Append(stack[f], r) \in Seq(S)
  BY <1>1, AppendProperties
<1>3. \A t \in Seq(S) : stack[f] \o t \in Seq(S)
  BY <1>1, ConcatProperties
<1>4. stack[f] # <<>> => Top(f) \in S /\ Popped(f) \in Seq(S)
  BY <1>1, PopType DEF Top, Popped
<1>5. stack[f] # <<>> => \A r \in S : Append(Popped(f), r) \in Seq(S)
  BY <1>4, AppendProperties
<1>6. \A s \in Seq(S) : [stack EXCEPT ![f] = s] \in [Fiber -> Seq(S)]
  OBVIOUS
<1> QED BY <1>2, <1>3, <1>4, <1>5, <1>6 DEF Push, Pop

\* The messages of a mailbox stay causes of what they were.
LEMMA CauseBoxes ==
  ASSUME TypeOK, InRange, CauseInv, [Next]_vars
  PROVE  mailbox' \in [Fiber -> Seq(CausedMessage)]
<1>1. /\ CommonMessage \subseteq CausedMessage /\ Resume(Prog) \in CausedMessage
      /\ Resume(Failure(Interrupted)) \in CausedMessage
      /\ Resume(Failure({"Fail"})) \in CausedMessage
      /\ \A f \in Fiber, i \in Nat : Observe(f, i) \in CausedMessage
  BY CausedEffects, CausedMessages DEF CommonMessage
<1>2. ASSUME NEW f \in Fiber, LeaveMessages(f)
      PROVE  Resume(ExitEffect(ExitOf(cur))) \in CausedMessage
  <2>1. cur \in CausedEffect /\ cur.op \in {"Success", "Failure"}
    BY <1>2 DEF LeaveMessages, Leaving, CauseInv
  <2>2. ExitOf(cur) \in CausedExit
    BY <2>1, CausedExits, EffectParts DEF ExitOf, CausedEffect
  <2> QED BY <2>2, CausedExits, CausedMessages
<1>3. \A f \in Fiber : asyncs[f] + 1 \in Nat
  BY SMTT(30) DEF TypeOK
<1>4. \A f \in Fiber : Sendable(f, CausedMessage) /\ mailbox[f] \in Seq(CausedMessage)
  BY <1>1, <1>2, <1>3 DEF Sendable, CauseInv
<1>5. \A f \in Fiber : mailbox'[f] \in Seq(CausedMessage)
  BY <1>4, MailIn
<1>6. mailbox' \in [Fiber -> Seq(Message)]
  BY TypeNext DEF TypeInv, TypeOK
<1> QED BY <1>5, <1>6

\* The causes of the effect that is evaluated and of the continuations.
MachineCaused == cur \in CausedEffect /\ stack \in [Fiber -> Seq(CausedFrame)]

\* A handler of failures is used, or the failure is passed on with its
\* interruption.
LEMMA HandleCaused ==
  ASSUME TypeOK, CauseInv, DoomInv, NEW f \in Fiber, Evaluating(f, "Failure"),
         NEW e \in CausedEffect
  PROVE  Handle(f, e) \in CausedEffect
<1>1. cur \in Effect /\ cur.op = "Failure" /\ Active(f)
  BY DEF TypeOK, Evaluating, Active
<1>2. cur.cause \in Cause
  BY <1>1, EffectParts
<1>3. CASE MustDie(f)
  <2>1. "Interrupt" \in cur.cause
    BY <1>1, <1>3 DEF DoomInv, Doom, Passing, Fatal
  <2>2. cur.cause \ {"Fail"} \in Cause
    BY <1>2, ExitConstructors
  <2>4. "Interrupt" \in cur.cause \ {"Fail"}
    BY <2>1
  <2>3. Handle(f, e) = Failure(cur.cause \ {"Fail"})
    BY <1>3 DEF Handle
  <2> QED BY <2>2, <2>3, <2>4, CausedExits
<1>4. CASE ~MustDie(f)
  BY <1>4 DEF Handle
<1> QED BY <1>3, <1>4

\* Steps that evaluate nothing build no failure.
LEMMA CauseThread ==
  ASSUME TypeOK, CauseInv, NEW f \in Fiber,
         \/ Finally(f) \/ DrainDone(f) \/ DrainYieldNow(f) \/ DrainInterrupt(f) \/ DrainResume(f)
         \/ DrainStateful(f) \/ LoopInterrupt(f) \/ LoopStateful(f)
         \/ Notify(f) \/ NotifyDone(f) \/ LeaveMessages(f) \/ SetExitValue(f)
         \/ Run(f) \/ StartRoot \/ OutsideCompletes(f) \/ OutsideInterrupts(f)
         \/ EvalYield(f) \/ EvalAwaitAsync(f)
  PROVE  MachineCaused'
<1>1. stack' = stack /\ stack \in [Fiber -> Seq(CausedFrame)] /\ cur \in CausedEffect
  BY DEF Finally, DrainDone, DrainYieldNow, DrainInterrupt, DrainResume, DrainStateful,
     LoopInterrupt, LoopStateful, Notify, NotifyDone, LeaveMessages, SetExitValue, Run, StartRoot,
     OutsideCompletes, OutsideInterrupts, EvalYield, EvalAwaitAsync, Initiate, machine, CauseInv
<1>2. CASE DrainResume(f)
  <2>1. mailbox[f] # <<>> /\ mailbox \in [Fiber -> Seq(CausedMessage)]
        /\ Head(mailbox[f]).tag = "Resume"
    BY <1>2 DEF DrainResume, HeadIs, CauseInv
  <2>2. Head(mailbox[f]) \in CausedMessage
    BY <2>1, BoxIn
  <2>3. Head(mailbox[f]).effect \in CausedEffect
    BY <2>1, <2>2 DEF CausedMessage
  <2> QED BY <1>1, <1>2, <2>3, CausedEffects DEF DrainResume, GoTo, MachineCaused
<1>3. CASE ~DrainResume(f)
  <2>1. cur' \in {cur, Unit, Prog, Failure(Interrupted)}
    BY <1>3 DEF Finally, DrainDone, DrainYieldNow, DrainInterrupt, DrainStateful,
       LoopInterrupt, LoopStateful, Notify, NotifyDone, LeaveMessages, SetExitValue, Run, StartRoot,
       OutsideCompletes, OutsideInterrupts, EvalYield, EvalAwaitAsync, Initiate, GoTo, Release, thread
  <2> QED BY <1>1, <2>1, CausedEffects DEF MachineCaused
<1> QED BY <1>2, <1>3

\* Entering a masked region builds no failure,
LEMMA CauseMask ==
  ASSUME TypeOK, CauseInv, NEW f \in Fiber, NEW h \in Handler, NEW b \in Body, Mask(f, h, b)
  PROVE  MachineCaused'
<1> DEFINE t == << [tag |-> "Continue"], Revert(f, FALSE), OnStep(TRUE), [tag |-> "Cleanup", h |-> h] >>
<1>1. t \in Seq(CausedFrame)
  <2>1. [tag |-> "Continue"] \in CausedFrame /\ Revert(f, FALSE) \in CausedFrame
        /\ OnStep(TRUE) \in CausedFrame /\ [tag |-> "Cleanup", h |-> h] \in CausedFrame
    BY CausedFrames
  <2> QED BY <2>1, FourType
<1>2. stack' = [stack EXCEPT ![f] = @ \o t] /\ cur' = Region(interruption[f], b)
  BY DEF Mask, GoTo
<1> HIDE DEF t
<1>3. stack' \in [Fiber -> Seq(CausedFrame)]
  BY <1>1, <1>2, StackIn DEF CauseInv
<1>4. interruption[f] \in BOOLEAN
  BY DEF TypeOK
<1> QED BY <1>2, <1>3, <1>4, CausedEffects DEF MachineCaused

\* ... and the operations of a program build none without a cause.
LEMMA CauseProgram ==
  ASSUME TypeOK, CauseInv, NEW f \in Fiber,
         Program(f) \/ ForcedYield(f) \/ EvalRegion(f) \/ EvalAwait(f) \/ EvalJoin(f)
  PROVE  MachineCaused'
<1>0. stack \in [Fiber -> Seq(CausedFrame)] /\ cur \in CausedEffect /\ cur \in Effect
  BY DEF CauseInv, TypeOK
<1>1. CASE OnExit(f)
  <2>0. opened[f] \in Nat
    BY DEF TypeOK
  <2>1. [kind |-> "finalizer", n |-> opened[f] + 1] \in Handler
    BY <2>0, HandlerParts
  <2> QED BY <1>1, <2>1, CauseMask, EffectConstructors DEF OnExit
<1>2. CASE EvalAwait(f)
  <2>1. cur.of \in Fiber /\ asyncs[f] \in Nat
    BY <1>0, <1>2, EffectParts DEF EvalAwait, TypeOK
  <2>2. [kind |-> "canceler", of |-> cur.of, id |-> asyncs[f] + 1] \in Handler
        /\ AwaitAsync(cur.of) \in Body
    BY <2>1, HandlerParts, EffectConstructors
  <2> QED BY <1>2, <2>2, CauseMask DEF EvalAwait
<1>3. CASE FlatMap(f) \/ CatchAll(f) \/ ForcedYield(f)
  <2>1. \E r \in CausedFrame : Push(f, r)
    <3>1. [tag |-> "OnSuccess", k |-> Prog] \in CausedFrame
      BY CausedEffects, CausedFrames
    <3>2. [tag |-> "OnSuccess", k |-> cur] \in CausedFrame
      BY <1>0, CausedFrames
    <3>3. [tag |-> "OnFailure"] \in CausedFrame
      BY CausedFrames
    <3> QED BY <1>3, <3>1, <3>2, <3>3 DEF FlatMap, CatchAll, ForcedYield
  <2>2. cur' \in {Prog, Yield}
    BY <1>3 DEF FlatMap, CatchAll, ForcedYield, GoTo
  <2> QED BY <1>0, <2>1, <2>2, StackIn, CausedEffects DEF MachineCaused
<1>4. CASE \/ Finish(f) \/ EnterRegion(f) \/ SuspendAsync(f) \/ YieldOp(f) \/ Fork(f)
           \/ InterruptAsFork(f) \/ AwaitOp(f) \/ Complete(f)
  <2>1. stack' = stack
    BY <1>4 DEF Finish, EnterRegion, SuspendAsync, Initiate, YieldOp, Fork, InterruptAsFork,
       AwaitOp, Complete, machine
  <2>2. \/ cur' \in {Unit, Failure({"Fail"}), Yield}
        \/ \E on \in BOOLEAN : cur' = Region(on, Prog)
        \/ \E g \in Fiber : cur' = Await(g)
    BY <1>4 DEF Finish, EnterRegion, SuspendAsync, Initiate, YieldOp, Fork, InterruptAsFork,
       AwaitOp, Complete, GoTo
  <2> QED BY <1>0, <2>1, <2>2, CausedEffects, EffectConstructors DEF MachineCaused
<1>5. CASE EvalRegion(f)
  <2>1. cur.enable \in BOOLEAN /\ cur.body \in Body
    BY <1>0, <1>5, EffectParts DEF EvalRegion
  <2> DEFINE t == <<Revert(f, cur.enable), OnStep(FALSE)>>
  <2>2. t \in Seq(CausedFrame)
    <3>1. Revert(f, cur.enable) \in CausedFrame /\ OnStep(FALSE) \in CausedFrame
      BY <2>1, CausedFrames
    <3> QED BY <3>1, TwoType
  <2>3. stack' = stack \/ stack' = [stack EXCEPT ![f] = @ \o t]
    BY <1>5 DEF EvalRegion, machine
  <2>4. cur' \in {Failure(Interrupted), cur.body}
    BY <1>5 DEF EvalRegion, GoTo
  <2> HIDE DEF t
  <2>5. stack' \in [Fiber -> Seq(CausedFrame)]
    BY <1>0, <2>2, <2>3, StackIn
  <2> QED BY <2>1, <2>4, <2>5, CausedEffects DEF MachineCaused
<1>6. CASE EvalJoin(f)
  <2>1. cur.rest \in SUBSET Fiber /\ cur.exit \in CausedExit
    BY <1>0, <1>6, EffectParts DEF EvalJoin, CausedEffect
  <2>2. CASE GoTo("loop", ExitEffect(cur.exit)) /\ UNCHANGED stack
    BY <1>0, <2>1, <2>2, CausedExits DEF GoTo, MachineCaused
  <2>3. ASSUME NEW c \in cur.rest,
               Push(f, [tag |-> "OnSuccess", k |-> Join(cur.rest \ {c}, cur.exit)]),
               GoTo("loop", Await(c))
        PROVE  MachineCaused'
    <3> DEFINE k == Join(cur.rest \ {c}, cur.exit)
    <3>1. k \in CausedEffect
      <4>1. cur.rest \ {c} \in SUBSET Fiber
        BY <2>1
      <4> QED BY <2>1, <4>1, CausedExits
    <3>2. Push(f, [tag |-> "OnSuccess", k |-> k]) /\ cur' = Await(c) /\ c \in Fiber
      BY <2>1, <2>3 DEF GoTo
    <3> HIDE DEF k
    <3>3. [tag |-> "OnSuccess", k |-> k] \in CausedFrame
      BY <3>1, CausedFrames
    <3> QED BY <1>0, <3>2, <3>3, StackIn, CausedEffects DEF MachineCaused
  <2> QED BY <1>6, <2>2, <2>3 DEF EvalJoin
<1> QED BY <1>1, <1>2, <1>3, <1>4, <1>5, <1>6 DEF Program

\* Leaving the children behind passes on the exit there is.
LEMMA CauseEnd ==
  ASSUME TypeOK, CauseInv, NEW f \in Fiber, LeaveChildren(f)
  PROVE  MachineCaused'
<1>1. cur \in CausedEffect /\ cur \in Effect /\ cur.op \in {"Success", "Failure"}
      /\ children[f] \in SUBSET Fiber /\ stack' = stack /\ cur' = Join(children[f], ExitOf(cur))
  BY DEF LeaveChildren, Leaving, GoTo, CauseInv, TypeOK
<1>2. ExitOf(cur) \in CausedExit
  BY <1>1, CausedExits, EffectParts DEF ExitOf, CausedEffect
<1> QED BY <1>1, <1>2, CausedExits DEF MachineCaused, CauseInv

\* Continuing with a result passes on its cause,
LEMMA CauseCont ==
  ASSUME TypeOK, CauseInv, DoomInv, NEW f \in Fiber, EvalSuccess(f) \/ EvalFailure(f)
  PROVE  MachineCaused'
<1>0. stack \in [Fiber -> Seq(CausedFrame)] /\ cur \in CausedEffect /\ cur \in Effect
  BY DEF CauseInv, TypeOK
<1>1. stack[f] # <<>> /\ Pop(f)
  BY DEF EvalSuccess, EvalFailure, Skip, Use, UseRevert, TopIs, Empty
<1>2. stack' \in [Fiber -> Seq(CausedFrame)] /\ Top(f) \in CausedFrame
  BY <1>0, <1>1, StackIn
<1>3. Top(f) \in Frame
  BY <1>2 DEF CausedFrame
<1>4. CASE EvalSuccess(f)
  <2>1. cur.value \in CausedExit
    BY <1>0, <1>4 DEF EvalSuccess, Evaluating, CausedEffect
  <2>2. Top(f).tag = "AfterCleanup" => Failure(Top(f).cause) \in CausedEffect
    BY <1>2, <1>3, FrameParts, CausedExits DEF CausedFrame
  <2>3. Top(f).tag = "OnSuccess" => Top(f).k \in CausedEffect
    BY <1>2 DEF CausedFrame
  <2>4. ExitEffect(cur.value) \in CausedEffect /\ Success(Ok) \in CausedEffect
    BY <2>1, CausedExits
  <2>5. \/ cur' \in {cur, ExitEffect(cur.value), Success(Ok), Unit, Failure(Interrupted)}
        \/ Top(f).tag = "AfterCleanup" /\ cur' = Failure(Top(f).cause)
        \/ Top(f).tag = "OnSuccess" /\ cur' = Top(f).k
    BY <1>4 DEF EvalSuccess, Skip, Use, UseRevert, GoTo, TopIs
  <2> QED BY <1>0, <1>2, <2>2, <2>3, <2>4, <2>5, CausedEffects DEF MachineCaused
<1>5. CASE EvalFailure(f)
  <2>1. Evaluating(f, "Failure") /\ cur.op = "Failure"
    BY <1>5 DEF EvalFailure, Evaluating
  <2>2. cur.cause \in Cause /\ cur.cause # {} /\ cur.cause \cup Interrupted \in Cause
        /\ cur.cause \cup Interrupted # {}
    BY <1>0, <2>1, EffectParts, ExitConstructors DEF CausedEffect, Interrupted
  <2>3. Failure(cur.cause \cup Interrupted) \in CausedEffect
        /\ Success(Failed(cur.cause)) \in CausedEffect
    BY <2>2, CausedExits
  <2>4. Top(f).tag = "AfterCleanup" => Failure(Top(f).cause \cup cur.cause) \in CausedEffect
    <3> SUFFICES ASSUME Top(f).tag = "AfterCleanup"
                 PROVE  Failure(Top(f).cause \cup cur.cause) \in CausedEffect
      OBVIOUS
    <3>1. Top(f).cause \in Cause
      BY <1>3, FrameParts
    <3>2. Top(f).cause \cup cur.cause \in Cause /\ Top(f).cause \cup cur.cause # {}
      BY <2>2, <3>1, ExitConstructors
    <3> QED BY <3>2, CausedExits
  <2>5. /\ \/ cur' \in {cur, Failure(cur.cause \cup Interrupted)}
           \/ \E e \in {Prog, Success(Failed(cur.cause)), cur} : cur' = Handle(f, e)
           \/ Top(f).tag = "AfterCleanup" /\ cur' = Handle(f, Failure(Top(f).cause \cup cur.cause))
    BY <1>5 DEF EvalFailure, Skip, Use, UseRevert, GoTo, TopIs
  <2>6. cur' \in CausedEffect
    BY <1>0, <2>1, <2>3, <2>4, <2>5, HandleCaused, CausedEffects
  <2> QED BY <1>2, <2>6 DEF MachineCaused
<1> QED BY <1>4, <1>5

\* ... and a finalizer gives back what it interrupted.
LEMMA CauseCleanup ==
  ASSUME TypeOK, CauseInv, DoomInv, NEW f \in Fiber, CleanupAfterSuccess(f) \/ CleanupAfterFailure(f)
  PROVE  MachineCaused'
<1>0. stack \in [Fiber -> Seq(CausedFrame)] /\ cur \in CausedEffect /\ cur \in Effect
  BY DEF CauseInv, TypeOK
<1>1. stack[f] # <<>>
  BY DEF CleanupAfterSuccess, CleanupAfterFailure, TopIs, Empty
<1>2. CASE CleanupAfterSuccess(f)
  <2>1. \/ Pop(f)
        \/ stack' = [stack EXCEPT ![f] = Append(Popped(f), [tag |-> "OnSuccess", k |-> Unit])]
    BY <1>2 DEF CleanupAfterSuccess
  <2>2. cur' \in {Prog, Unit}
    BY <1>2 DEF CleanupAfterSuccess, GoTo
  <2>3. [tag |-> "OnSuccess", k |-> Unit] \in CausedFrame
    BY CausedFrames, CausedEffects
  <2>4. stack' \in [Fiber -> Seq(CausedFrame)]
    BY <1>0, <1>1, <2>1, <2>3, StackIn
  <2> QED BY <2>2, <2>4, CausedEffects DEF MachineCaused
<1>3. CASE CleanupAfterFailure(f)
  <2>1. Evaluating(f, "Failure") /\ cur.op = "Failure"
    BY <1>3 DEF CleanupAfterFailure, Evaluating
  <2>2. [tag |-> "AfterCleanup", cause |-> cur.cause] \in CausedFrame
    BY <1>0, <2>1, EffectParts, CausedFrames DEF CausedEffect
  <2>3. \/ Pop(f)
        \/ stack' = [stack EXCEPT ![f] =
                       Append(Popped(f), [tag |-> "AfterCleanup", cause |-> cur.cause])]
    BY <1>3 DEF CleanupAfterFailure
  <2>4. cur' \in {Prog, cur, Handle(f, cur)}
    BY <1>3 DEF CleanupAfterFailure, GoTo
  <2>5. stack' \in [Fiber -> Seq(CausedFrame)]
    BY <1>0, <1>1, <2>2, <2>3, StackIn
  <2> QED BY <1>0, <2>1, <2>4, <2>5, HandleCaused, CausedEffects DEF MachineCaused
<1> QED BY <1>2, <1>3

\* Every step keeps it that failures have causes.
LEMMA CauseNext ==
  ASSUME TypeInv, TurnInv, DoomInv, CauseInv, [Next]_vars
  PROVE  CauseInv'
<1>0. TypeOK /\ InRange /\ MachineCaused
  BY DEF TypeInv, CauseInv, MachineCaused
<1>1. MachineCaused'
  <2>1. ASSUME NEW f \in Fiber, Step(f)
        PROVE  MachineCaused'
    BY <1>0, <2>1, CauseThread, CauseProgram, CauseEnd, CauseCont, CauseCleanup DEF Step
  <2>2. CASE StartRoot
    BY <1>0, <2>2, CauseThread, FiberAssumption
  <2>3. CASE \E g \in Fiber : Run(g) \/ OutsideCompletes(g) \/ OutsideInterrupts(g)
    BY <1>0, <2>3, CauseThread
  <2>4. CASE UNCHANGED vars
    BY <1>0, <2>4 DEF MachineCaused, vars, thread, machine
  <2> QED BY <2>1, <2>2, <2>3, <2>4 DEF Next, Outside
<1>2. mailbox' \in [Fiber -> Seq(CausedMessage)]
  BY <1>0, CauseBoxes
<1>3. exit' \in [Fiber -> CausedExit]
  <2>1. CASE \E f \in Fiber : SetExitValue(f)
    <3>1. PICK f \in Fiber : SetExitValue(f)
      BY <2>1
    <3>2. exit' = [exit EXCEPT ![f] = ExitOf(cur)] /\ cur.op \in {"Success", "Failure"}
      BY <3>1 DEF SetExitValue, Leaving
    <3>3. ExitOf(cur) \in CausedExit
      BY <3>2, CausedExits, EffectParts DEF ExitOf, CausedEffect, CauseInv
    <3> QED BY <3>2, <3>3 DEF CauseInv
  <2>2. CASE ~\E f \in Fiber : SetExitValue(f)
    <3>1. \A f \in Fiber : exit'[f] = exit[f]
      BY <1>0, <2>2, StatusStep
    <3>2. exit' \in [Fiber -> Exit]
      BY TypeNext DEF TypeInv, TypeOK
    <3> QED BY <3>1, <3>2 DEF CauseInv
  <2> QED BY <2>1, <2>2
<1> QED BY <1>1, <1>2, <1>3 DEF MachineCaused, CauseInv

\* It holds at first.
LEMMA CauseInit == Init => CauseInv
<1>1. Init => exit \in [Fiber -> CausedExit]
  BY CausedExits DEF Init
<1>2. Init => stack \in [Fiber -> Seq(CausedFrame)] /\ mailbox \in [Fiber -> Seq(CausedMessage)]
  BY EmptySeq DEF Init
<1> QED BY <1>1, <1>2, CausedEffects DEF Init, CauseInv

\* So no exit fails without a cause.
LEMMA CausesHold == CauseInv => CausesNotEmpty
  BY DEF CauseInv, CausedEffect, CausedExit, CausesNotEmpty


----------------------------------------------------------------------------
(* Regions.  The flags a fiber was born with, carried from the bottom of its *)
(* stack to the top through the frames that revert them, are the flags it    *)
(* has; and a cleanup only waits where interruption is off.                  *)

\* The flag above a frame, b being the flag below it.
After(r, b) == IF r.tag = "Revert" THEN (IF r.active THEN ~r.enabled ELSE r.enabled) ELSE b

Regions(s, a, b) ==
  \E flag \in [0..Len(s) -> BOOLEAN] :
    /\ flag[0] = a /\ flag[Len(s)] = b
    /\ \A i \in 1..Len(s) :
         /\ flag[i] = After(s[i], flag[i - 1])
         /\ s[i].tag = "Revert" => s[i].enabled = flag[i - 1]
         /\ s[i].tag = "Cleanup" => ~flag[i]

Bracketed == \A f \in Fiber : Regions(stack[f], flags0[f], interruption[f])
Unstacked == \A f \in Fiber : status[f] # "live" => stack[f] = <<>>

RegionInv == Bracketed /\ Unstacked

\* A fiber that is born is in no region.
LEMMA RegionsEmpty ==
  ASSUME NEW a \in BOOLEAN
  PROVE  \A b \in BOOLEAN : Regions(<<>>, a, b) <=> a = b
<1>1. Len(<<>>) = 0 /\ 1..0 = {} /\ 0..0 = {0}
  BY EmptySeq
<1>2. Regions(<<>>, a, a)
  <2> DEFINE flag == [i \in 0..0 |-> a]
  <2>1. flag \in [0..Len(<<>>) -> BOOLEAN] /\ flag[0] = a
    BY <1>1
  <2> HIDE DEF flag
  <2> QED BY <1>1, <2>1 DEF Regions
<1>3. \A b \in BOOLEAN : Regions(<<>>, a, b) => a = b
  BY <1>1 DEF Regions
<1> QED BY <1>2, <1>3

\* A frame on top of the stack: it knows the flag it is pushed in.
LEMMA RegionsPush ==
  ASSUME NEW s \in Seq(Frame), NEW r \in Frame, NEW a \in BOOLEAN, NEW b \in BOOLEAN,
         NEW c \in BOOLEAN, Regions(s, a, b), c = After(r, b),
         r.tag = "Revert" => r.enabled = b, r.tag = "Cleanup" => ~c
  PROVE  Regions(Append(s, r), a, c)
<1> DEFINE u == Append(s, r)
           n == Len(s)
<1>1. n \in Nat /\ Len(u) = n + 1 /\ u[n + 1] = r /\ \A i \in 1..n : u[i] = s[i]
  BY AppendParts
<1>2. PICK flag \in [0..n -> BOOLEAN] :
        /\ flag[0] = a /\ flag[n] = b
        /\ \A i \in 1..n : /\ flag[i] = After(s[i], flag[i - 1])
                           /\ s[i].tag = "Revert" => s[i].enabled = flag[i - 1]
                           /\ s[i].tag = "Cleanup" => ~flag[i]
  BY DEF Regions
<1> DEFINE more == [i \in 0..n + 1 |-> IF i <= n THEN flag[i] ELSE c]
<1> HIDE DEF n, u
<1>3. /\ more \in [0..n + 1 -> BOOLEAN]
      /\ more[n + 1] = c /\ \A i \in 0..n : more[i] = flag[i]
  BY <1>1
<1> HIDE DEF more
<1>4. ASSUME NEW i \in 1..n + 1
      PROVE  /\ more[i] = After(u[i], more[i - 1])
             /\ u[i].tag = "Revert" => u[i].enabled = more[i - 1]
             /\ u[i].tag = "Cleanup" => ~more[i]
  <2>1. CASE i \in 1..n
    <3>1. i - 1 \in 0..n /\ i \in 0..n
      BY <1>1, <2>1
    <3> QED BY <1>1, <1>2, <1>3, <2>1, <3>1
  <2>2. CASE i = n + 1
    <3>1. more[i] = c /\ more[i - 1] = b /\ u[i] = r
      BY <1>1, <1>2, <1>3, <2>2
    <3> QED BY <3>1
  <2> QED BY <1>1, <2>1, <2>2
<1>5. more[0] = a /\ more[Len(u)] = c
  BY <1>1, <1>2, <1>3
<1>6. Regions(u, a, c)
  BY <1>1, <1>3, <1>4, <1>5 DEF Regions
<1> QED BY <1>6 DEF u

\* The frame on top, taken off.
LEMMA RegionsPop ==
  ASSUME NEW s \in Seq(Frame), s # <<>>, NEW a \in BOOLEAN, NEW c \in BOOLEAN, Regions(s, a, c)
  PROVE  LET r == s[Len(s)] IN
         \E b \in BOOLEAN :
           /\ Regions(SubSeq(s, 1, Len(s) - 1), a, b)
           /\ c = After(r, b)
           /\ r.tag = "Revert" => r.enabled = b
           /\ r.tag = "Cleanup" => ~c
<1> DEFINE u == SubSeq(s, 1, Len(s) - 1)
           n == Len(s)
<1>1. n \in Nat \ {0} /\ Len(u) = n - 1 /\ \A i \in 1..n - 1 : u[i] = s[i]
  BY PopParts
<1>2. PICK flag \in [0..n -> BOOLEAN] :
        /\ flag[0] = a /\ flag[n] = c
        /\ \A i \in 1..n : /\ flag[i] = After(s[i], flag[i - 1])
                           /\ s[i].tag = "Revert" => s[i].enabled = flag[i - 1]
                           /\ s[i].tag = "Cleanup" => ~flag[i]
  BY DEF Regions
<1> DEFINE less == [i \in 0..n - 1 |-> flag[i]]
           b == flag[n - 1]
<1> HIDE DEF n, u
<1>3. less \in [0..n - 1 -> BOOLEAN] /\ \A i \in 0..n - 1 : less[i] = flag[i]
  BY <1>1
<1> HIDE DEF less
<1>4. Regions(u, a, b)
  <2>1. \A i \in 1..n - 1 : i \in 1..n /\ i - 1 \in 0..n - 1 /\ i \in 0..n - 1
    BY <1>1
  <2>2. less[0] = a /\ less[n - 1] = b
    BY <1>1, <1>2, <1>3
  <2>3. \A i \in 1..n - 1 : /\ less[i] = After(u[i], less[i - 1])
                            /\ u[i].tag = "Revert" => u[i].enabled = less[i - 1]
                            /\ u[i].tag = "Cleanup" => ~less[i]
    BY <1>1, <1>2, <1>3, <2>1
  <2> HIDE DEF b
  <2> QED BY <1>1, <1>3, <2>2, <2>3 DEF Regions
<1>5. b \in BOOLEAN /\ c = After(s[n], b) /\ (s[n].tag = "Revert" => s[n].enabled = b)
      /\ (s[n].tag = "Cleanup" => ~c)
  BY <1>1, <1>2
<1> HIDE DEF b
<1> QED BY <1>4, <1>5 DEF u, n

\* Several frames are pushed one after another.
LEMMA AppendTwo ==
  ASSUME NEW S, NEW s \in Seq(S), NEW a \in S, NEW b \in S
  PROVE  s \o <<a, b>> = Append(Append(s, a), b)
<1> DEFINE t == <<a, b>>
           u == s \o t
           v == Append(Append(s, a), b)
           n == Len(s)
<1>1. t \in Seq(S) /\ Len(t) = 2 /\ t[1] = a /\ t[2] = b
  BY TwoType
<1>2. n \in Nat /\ u \in Seq(S) /\ Len(u) = n + 2
      /\ \A i \in 1..n + 2 : u[i] = IF i <= n THEN s[i] ELSE t[i - n]
  <2> HIDE DEF t
  <2>1. n \in Nat /\ u \in Seq(S) /\ Len(u) = n + Len(t)
        /\ \A i \in 1..n + Len(t) : u[i] = IF i <= n THEN s[i] ELSE t[i - n]
    BY <1>1, ConcatProperties, LenProperties
  <2> QED BY <1>1, <2>1
<1>3. v \in Seq(S) /\ Len(v) = n + 2 /\ v[n + 2] = b /\ v[n + 1] = a /\ \A i \in 1..n : v[i] = s[i]
  <2> DEFINE w == Append(s, a)
  <2>1. w \in Seq(S) /\ Len(w) = n + 1 /\ n \in Nat /\ w[n + 1] = a /\ \A i \in 1..n : w[i] = s[i]
    BY AppendParts
  <2> HIDE DEF w
  <2>2. v \in Seq(S) /\ Len(v) = Len(w) + 1 /\ v[Len(w) + 1] = b /\ \A i \in 1..Len(w) : v[i] = w[i]
    <3>1. Append(w, b) \in Seq(S) /\ DOMAIN w = 1..Len(w) /\ Len(Append(w, b)) = Len(w) + 1
          /\ Append(w, b)[Len(w) + 1] = b /\ \A i \in DOMAIN w : Append(w, b)[i] = w[i]
      BY <2>1, AppendParts
    <3> QED BY <3>1 DEF w
  <2> HIDE DEF v
  <2> QED BY <2>1, <2>2
<1> HIDE DEF t, u, v
<1>4. \A i \in 1..n + 2 : u[i] = v[i]
  <2> TAKE i \in 1..n + 2
  <2>1. CASE i <= n
    BY <1>2, <1>3, <2>1
  <2>2. CASE i = n + 1
    BY <1>1, <1>2, <1>3, <2>2
  <2>3. CASE i = n + 2
    BY <1>1, <1>2, <1>3, <2>3
  <2> QED BY <1>2, <2>1, <2>2, <2>3
<1>5. u = v
  BY <1>2, <1>3, <1>4, SeqEqual
<1> QED BY <1>5 DEF u, v, t

\* Four frames are pushed one by one.
LEMMA AppendFour ==
  ASSUME NEW S, NEW s \in Seq(S), NEW a \in S, NEW b \in S, NEW c \in S, NEW d \in S
  PROVE  s \o <<a, b, c, d>> = Append(Append(Append(Append(s, a), b), c), d)
<1>1. <<a, b, c, d>> = <<a, b>> \o <<c, d>>
  OBVIOUS
<1>2. <<a, b>> \in Seq(S) /\ <<c, d>> \in Seq(S)
  BY TwoType
<1>3. s \o <<a, b, c, d>> = (s \o <<a, b>>) \o <<c, d>>
  <2> DEFINE p == <<a, b>>
             q == <<c, d>>
  <2>1. p \in Seq(S) /\ q \in Seq(S)
    BY <1>2
  <2> HIDE DEF p, q
  <2>2. s \o (p \o q) = (s \o p) \o q
    BY <2>1, ConcatAssociative
  <2> QED BY <1>1, <2>2 DEF p, q
<1>4. s \o <<a, b>> = Append(Append(s, a), b)
  BY AppendTwo
<1>5. Append(Append(s, a), b) \in Seq(S)
  BY AppendProperties
<1>6. Append(Append(s, a), b) \o <<c, d>> = Append(Append(Append(Append(s, a), b), c), d)
  BY <1>5, AppendTwo
<1> QED BY <1>3, <1>4, <1>6

----------------------------------------------------------------------------
(* How a step changes a stack.                                              *)

\* The machines of the other fibers, and the flags they were born with.
OthersKeep(f) == \A g \in Fiber : g # f => /\ stack'[g] = stack[g]
                                           /\ interruption'[g] = interruption[g]
                                           /\ flags0'[g] = flags0[g]

\* One fiber changes.
LEMMA RegionOwn ==
  ASSUME NEW f \in Fiber, Bracketed, OthersKeep(f),
         Regions(stack'[f], flags0'[f], interruption'[f])
  PROVE  Bracketed'
<1> SUFFICES ASSUME NEW g \in Fiber
             PROVE  Regions(stack'[g], flags0'[g], interruption'[g])
  BY DEF Bracketed
<1> QED BY DEF Bracketed, OthersKeep

\* The steps that leave every machine as it is.
LEMMA MachineStill ==
  ASSUME NEW f \in Fiber,
         \/ Finally(f) \/ DrainDone(f) \/ DrainYieldNow(f) \/ DrainInterrupt(f) \/ DrainResume(f)
         \/ DrainStateful(f) \/ LoopInterrupt(f) \/ LoopStateful(f) \/ Finish(f) \/ EnterRegion(f)
         \/ SuspendAsync(f) \/ YieldOp(f) \/ InterruptAsFork(f) \/ AwaitOp(f) \/ Complete(f)
         \/ EvalYield(f) \/ EvalAwaitAsync(f) \/ LeaveChildren(f) \/ LeaveMessages(f)
         \/ SetExitValue(f) \/ Notify(f) \/ NotifyDone(f) \/ Run(f) \/ StartRoot
         \/ OutsideCompletes(f) \/ OutsideInterrupts(f)
  PROVE  UNCHANGED <<stack, interruption, flags0>>
  BY DEF Finally, DrainDone, DrainYieldNow, DrainInterrupt, DrainResume, DrainStateful,
     LoopInterrupt, LoopStateful, Finish, EnterRegion, SuspendAsync, YieldOp, InterruptAsFork,
     AwaitOp, Complete, EvalYield, EvalAwaitAsync, LeaveChildren, LeaveMessages, SetExitValue,
     Notify, NotifyDone, Run, StartRoot, OutsideCompletes, OutsideInterrupts, machine, family

\* Frames that revert nothing are pushed on, popped off or exchanged at the top.
LEMMA RegionPlain ==
  ASSUME TypeOK, Bracketed, NEW f \in Fiber, UNCHANGED <<interruption, flags0>>,
         \/ UNCHANGED stack
         \/ \E r \in Frame : r.tag \notin {"Revert", "Cleanup"} /\ Push(f, r)
         \/ stack[f] # <<>> /\ Top(f).tag # "Revert" /\ Pop(f)
         \/ /\ stack[f] # <<>> /\ Top(f).tag # "Revert"
            /\ \E r \in Frame : /\ r.tag \notin {"Revert", "Cleanup"}
                                /\ stack' = [stack EXCEPT ![f] = Append(Popped(f), r)]
  PROVE  Bracketed'
<1> DEFINE a == flags0[f]
           b == interruption[f]
<1>0. a \in BOOLEAN /\ b \in BOOLEAN /\ stack[f] \in Seq(Frame) /\ stack \in [Fiber -> Seq(Frame)]
      /\ Regions(stack[f], a, b)
  BY DEF TypeOK, Bracketed
<1>1. \A s \in Seq(Frame), r \in Frame : r.tag \notin {"Revert", "Cleanup"} /\ Regions(s, a, b) =>
        Regions(Append(s, r), a, b)
  <2> TAKE s \in Seq(Frame), r \in Frame
  <2> HAVE r.tag \notin {"Revert", "Cleanup"} /\ Regions(s, a, b)
  <2>1. b = After(r, b)
    BY DEF After
  <2> HIDE DEF a, b
  <2> QED BY <1>0, <2>1, RegionsPush
<1>2. stack[f] # <<>> /\ Top(f).tag # "Revert" => Popped(f) \in Seq(Frame) /\ Regions(Popped(f), a, b)
  <2> SUFFICES ASSUME stack[f] # <<>>, Top(f).tag # "Revert"
               PROVE  Popped(f) \in Seq(Frame) /\ Regions(Popped(f), a, b)
    OBVIOUS
  <2> HIDE DEF a, b
  <2>1. \E d \in BOOLEAN : Regions(Popped(f), a, d) /\ b = After(Top(f), d)
    BY <1>0, RegionsPop DEF Popped, Top
  <2>2. \A d \in BOOLEAN : After(Top(f), d) = d
    BY DEF After
  <2>3. Popped(f) \in Seq(Frame)
    BY <1>0, PopType DEF Popped
  <2> QED BY <2>1, <2>2, <2>3
<1>3. SUFFICES Regions(stack'[f], a, b) /\ OthersKeep(f)
  BY RegionOwn
<1>4. OthersKeep(f)
  BY <1>0 DEF OthersKeep, Push, Pop
<1>5. Regions(stack'[f], a, b)
  <2> HIDE DEF a, b
  <2>1. CASE UNCHANGED stack
    BY <1>0, <2>1
  <2>2. CASE \E r \in Frame : r.tag \notin {"Revert", "Cleanup"} /\ Push(f, r)
    BY <1>0, <1>1, <2>2 DEF Push
  <2>3. CASE stack[f] # <<>> /\ Top(f).tag # "Revert" /\ Pop(f)
    BY <1>0, <1>2, <2>3 DEF Pop
  <2>4. CASE /\ stack[f] # <<>> /\ Top(f).tag # "Revert"
             /\ \E r \in Frame : /\ r.tag \notin {"Revert", "Cleanup"}
                                 /\ stack' = [stack EXCEPT ![f] = Append(Popped(f), r)]
    BY <1>0, <1>1, <1>2, <2>4
  <2> QED BY <2>1, <2>2, <2>3, <2>4
<1> QED BY <1>4, <1>5

\* A region is left: the flag is again the one it was entered with.
LEMMA RegionLeft ==
  ASSUME TypeOK, Bracketed, NEW f \in Fiber, TopIs(f, "Revert"), Pop(f), UNCHANGED flags0,
         interruption' = [interruption EXCEPT ![f] = Reverted(f)]
  PROVE  Bracketed'
<1>0. /\ flags0[f] \in BOOLEAN /\ interruption[f] \in BOOLEAN /\ stack[f] \in Seq(Frame)
      /\ stack \in [Fiber -> Seq(Frame)] /\ stack[f] # <<>> /\ Top(f).tag = "Revert"
      /\ interruption \in [Fiber -> BOOLEAN] /\ Regions(stack[f], flags0[f], interruption[f])
  BY DEF TypeOK, Bracketed, TopIs, Empty
<1>1. PICK b \in BOOLEAN : /\ Regions(Popped(f), flags0[f], b)
                           /\ interruption[f] = After(Top(f), b) /\ Top(f).enabled = b
  BY <1>0, RegionsPop DEF Popped, Top
<1>2. Reverted(f) = b
  BY <1>0, <1>1 DEF Reverted, After
<1>3. stack'[f] = Popped(f) /\ interruption'[f] = b /\ flags0'[f] = flags0[f]
  BY <1>0, <1>2 DEF Pop
<1>4. OthersKeep(f)
  BY <1>0 DEF OthersKeep, Pop
<1> QED BY <1>1, <1>3, <1>4, RegionOwn

\* A region is entered.
LEMMA RegionsEnter ==
  ASSUME TypeOK, NEW f \in Fiber, NEW on \in BOOLEAN, NEW s \in Seq(Frame), NEW a \in BOOLEAN,
         Regions(s, a, interruption[f])
  PROVE  Revert(f, on) \in Frame /\ Regions(Append(s, Revert(f, on)), a, on)
<1> DEFINE r == Revert(f, on)
<1>1. interruption[f] \in BOOLEAN /\ (interruption[f] # on) \in BOOLEAN
  BY DEF TypeOK
<1>2. r \in Frame /\ r.tag = "Revert" /\ r.active = (interruption[f] # on) /\ r.enabled = interruption[f]
  BY <1>1, FrameConstructors DEF Revert
<1>3. on = After(r, interruption[f])
  BY <1>1, <1>2 DEF After
<1> HIDE DEF r
<1>4. Regions(Append(s, r), a, on)
  BY <1>1, <1>2, <1>3, RegionsPush
<1> QED BY <1>2, <1>4 DEF r

\* Entering a region pushes what restores the flags there were,
LEMMA RegionEntered ==
  ASSUME TypeOK, Bracketed, NEW f \in Fiber, NEW on \in BOOLEAN, UNCHANGED flags0,
         stack' = [stack EXCEPT ![f] = @ \o <<Revert(f, on), OnStep(FALSE)>>],
         interruption' = [interruption EXCEPT ![f] = on]
  PROVE  Bracketed'
<1> DEFINE a == flags0[f]
           r == Revert(f, on)
           t == Append(stack[f], r)
<1>0. a \in BOOLEAN /\ stack[f] \in Seq(Frame) /\ stack \in [Fiber -> Seq(Frame)]
      /\ interruption \in [Fiber -> BOOLEAN] /\ Regions(stack[f], a, interruption[f])
  BY DEF TypeOK, Bracketed
<1>1. r \in Frame /\ Regions(t, a, on)
  BY <1>0, RegionsEnter
<1>2. OnStep(FALSE) \in Frame /\ OnStep(FALSE).tag = "OnStep"
  BY FrameConstructors DEF OnStep
<1>3. t \in Seq(Frame)
  BY <1>0, <1>1, AppendProperties
<1>4. stack'[f] = Append(t, OnStep(FALSE))
  <2>1. stack'[f] = stack[f] \o <<r, OnStep(FALSE)>>
    BY <1>0
  <2> DEFINE o == OnStep(FALSE)
  <2> HIDE DEF r, o
  <2>2. o \in Frame
    BY <1>2 DEF o
  <2>3. stack[f] \o <<r, o>> = Append(Append(stack[f], r), o)
    BY <1>0, <1>1, <2>2, AppendTwo
  <2> QED BY <2>1, <2>3 DEF o
<1>5. Regions(Append(t, OnStep(FALSE)), a, on)
  <2>1. on = After(OnStep(FALSE), on)
    BY <1>2 DEF After
  <2> HIDE DEF t, a
  <2> QED BY <1>0, <1>1, <1>2, <1>3, <2>1, RegionsPush
<1>6. OthersKeep(f) /\ interruption'[f] = on
  BY <1>0 DEF OthersKeep
<1> QED BY <1>4, <1>5, <1>6, RegionOwn

\* ... and so does masking a body and its finalizer.
LEMMA RegionMasked ==
  ASSUME TypeOK, Bracketed, NEW f \in Fiber, NEW h \in Handler, NEW b \in Body, Mask(f, h, b),
         UNCHANGED flags0
  PROVE  Bracketed'
<1> DEFINE a == flags0[f]
           c == [tag |-> "Continue"]
           r == Revert(f, FALSE)
           o == OnStep(TRUE)
           k == [tag |-> "Cleanup", h |-> h]
           t1 == Append(stack[f], c)
           t2 == Append(t1, r)
           t3 == Append(t2, o)
<1>0. a \in BOOLEAN /\ stack[f] \in Seq(Frame) /\ stack \in [Fiber -> Seq(Frame)]
      /\ interruption \in [Fiber -> BOOLEAN] /\ interruption[f] \in BOOLEAN
      /\ Regions(stack[f], a, interruption[f])
  BY DEF TypeOK, Bracketed
<1>1. /\ c \in Frame /\ c.tag = "Continue" /\ o \in Frame /\ o.tag = "OnStep"
      /\ k \in Frame /\ k.tag = "Cleanup"
  BY FrameConstructors DEF OnStep
<1>2. t1 \in Seq(Frame) /\ Regions(t1, a, interruption[f])
  <2>1. interruption[f] = After(c, interruption[f])
    BY <1>1 DEF After
  <2> HIDE DEF a, c
  <2> QED BY <1>0, <1>1, <2>1, RegionsPush, AppendProperties
<1> HIDE DEF t1
<1>3. r \in Frame /\ t2 \in Seq(Frame) /\ Regions(t2, a, FALSE)
  <2> HIDE DEF a
  <2>1. r \in Frame /\ Regions(t2, a, FALSE)
    BY <1>0, <1>2, RegionsEnter
  <2> HIDE DEF r
  <2> QED BY <1>2, <2>1, AppendProperties
<1> HIDE DEF t2
<1>4. t3 \in Seq(Frame) /\ Regions(t3, a, FALSE)
  <2>1. FALSE = After(o, FALSE)
    BY <1>1 DEF After
  <2> HIDE DEF a, o
  <2> QED BY <1>0, <1>1, <1>3, <2>1, RegionsPush, AppendProperties
<1> HIDE DEF t3
<1>5. Regions(Append(t3, k), a, FALSE)
  <2>1. FALSE = After(k, FALSE)
    BY <1>1 DEF After
  <2> HIDE DEF a, k
  <2> QED BY <1>0, <1>1, <1>4, <2>1, RegionsPush
<1>6. stack'[f] = Append(t3, k)
  <2>1. stack'[f] = stack[f] \o <<c, r, o, k>>
    BY <1>0 DEF Mask
  <2> HIDE DEF c, r, o, k
  <2> QED BY <1>0, <1>1, <1>3, <2>1, AppendFour DEF t1, t2, t3
<1>7. OthersKeep(f) /\ interruption'[f] = FALSE
  BY <1>0 DEF OthersKeep, Mask
<1> QED BY <1>5, <1>6, <1>7, RegionOwn

\* A child is born with the flags of its parent.
LEMMA RegionFork ==
  ASSUME TypeOK, Bracketed, Unstacked, NEW f \in Fiber, Fork(f)
  PROVE  Bracketed'
<1>1. PICK c \in Fiber : /\ status[c] = "new" /\ stack' = stack
                         /\ interruption' = [interruption EXCEPT ![c] = interruption[f]]
                         /\ flags0' = [flags0 EXCEPT ![c] = interruption[f]]
  BY DEF Fork
<1>2. /\ interruption \in [Fiber -> BOOLEAN] /\ flags0 \in [Fiber -> BOOLEAN]
      /\ interruption[f] \in BOOLEAN
  BY DEF TypeOK
<1>3. stack'[c] = <<>> /\ interruption'[c] = interruption[f] /\ flags0'[c] = interruption[f]
  BY <1>1, <1>2 DEF Unstacked
<1>4. Regions(<<>>, interruption[f], interruption[f])
  BY <1>2, RegionsEmpty
<1>5. OthersKeep(c)
  BY <1>1, <1>2 DEF OthersKeep
<1> QED BY <1>3, <1>4, <1>5, RegionOwn

\* Every step of a fiber keeps the regions of its stack bracketed.
LEMMA RegionStep ==
  ASSUME TypeOK, Bracketed, Unstacked, NEW f \in Fiber, Step(f)
  PROVE  Bracketed'
<1>0. cur \in Effect /\ opened[f] \in Nat /\ asyncs[f] \in Nat
  BY DEF TypeOK
<1>1. CASE UNCHANGED <<stack, interruption, flags0>>
  BY <1>1, RegionPlain
<1>2. CASE FlatMap(f) \/ CatchAll(f) \/ ForcedYield(f) \/ EvalJoin(f)
  <2>1. UNCHANGED <<interruption, flags0>>
    BY <1>2 DEF FlatMap, CatchAll, ForcedYield, EvalJoin, family
  <2>2. \A k \in Effect : [tag |-> "OnSuccess", k |-> k] \in Frame
    BY FrameConstructors
  <2>3. CASE FlatMap(f) \/ ForcedYield(f)
    <3>1. \E k \in Effect : Push(f, [tag |-> "OnSuccess", k |-> k])
      BY <1>0, <2>3, EffectConstructors DEF FlatMap, ForcedYield
    <3> QED BY <2>1, <2>2, <3>1, RegionPlain
  <2>4. CASE CatchAll(f)
    <3>1. Push(f, [tag |-> "OnFailure"]) /\ [tag |-> "OnFailure"] \in Frame
      BY <2>4, FrameConstructors DEF CatchAll
    <3> QED BY <2>1, <3>1, RegionPlain
  <2>5. CASE EvalJoin(f)
    <3>1. cur.rest \in SUBSET Fiber /\ cur.exit \in Exit
      BY <1>0, <2>5, EffectParts DEF EvalJoin
    <3>2. \A c \in cur.rest : Join(cur.rest \ {c}, cur.exit) \in Effect
      <4> TAKE c \in cur.rest
      <4>1. cur.rest \ {c} \in SUBSET Fiber
        BY <3>1
      <4> QED BY <3>1, <4>1, EffectConstructors
    <3>3. UNCHANGED stack \/ \E k \in Effect : Push(f, [tag |-> "OnSuccess", k |-> k])
      BY <2>5, <3>2 DEF EvalJoin
    <3> QED BY <2>1, <2>2, <3>3, RegionPlain
  <2> QED BY <1>2, <2>3, <2>4, <2>5
<1>3. CASE OnExit(f)
  <2>1. [kind |-> "finalizer", n |-> opened[f] + 1] \in Handler
    BY <1>0, HandlerParts
  <2>2. UNCHANGED flags0
    BY <1>3 DEF OnExit, family
  <2> QED BY <1>3, <2>1, <2>2, RegionMasked, EffectConstructors DEF OnExit
<1>4. CASE EvalAwait(f)
  <2>1. cur.of \in Fiber
    BY <1>0, <1>4, EffectParts DEF EvalAwait
  <2>2. [kind |-> "canceler", of |-> cur.of, id |-> asyncs[f] + 1] \in Handler
        /\ AwaitAsync(cur.of) \in Body
    BY <1>0, <2>1, HandlerParts, EffectConstructors
  <2>3. UNCHANGED flags0
    BY <1>4 DEF EvalAwait, family
  <2> QED BY <1>4, <2>2, <2>3, RegionMasked DEF EvalAwait
<1>5. CASE Fork(f)
  BY <1>5, RegionFork
<1>6. CASE EvalRegion(f)
  <2>1. cur.enable \in BOOLEAN /\ UNCHANGED flags0
    BY <1>0, <1>6, EffectParts DEF EvalRegion, family
  <2>2. \/ UNCHANGED <<stack, interruption, flags0>>
        \/ /\ stack' = [stack EXCEPT ![f] = @ \o <<Revert(f, cur.enable), OnStep(FALSE)>>]
           /\ interruption' = [interruption EXCEPT ![f] = cur.enable]
    BY <1>6, <2>1 DEF EvalRegion, machine
  <2> QED BY <1>1, <2>1, <2>2, RegionEntered
<1>7. CASE EvalSuccess(f) \/ EvalFailure(f)
  <2>1. UNCHANGED flags0
    BY <1>7 DEF EvalSuccess, EvalFailure, family
  <2>2. \/ /\ TopIs(f, "Revert") /\ Pop(f)
           /\ interruption' = [interruption EXCEPT ![f] = Reverted(f)]
        \/ /\ stack[f] # <<>> /\ Top(f).tag # "Revert" /\ Pop(f)
           /\ UNCHANGED interruption
    BY <1>7 DEF EvalSuccess, EvalFailure, Skip, Use, UseRevert, TopIs, Empty
  <2> QED BY <2>1, <2>2, RegionLeft, RegionPlain
<1>8. CASE CleanupAfterSuccess(f) \/ CleanupAfterFailure(f)
  <2>1. UNCHANGED <<interruption, flags0>> /\ stack[f] # <<>> /\ Top(f).tag # "Revert"
    BY <1>8 DEF CleanupAfterSuccess, CleanupAfterFailure, TopIs, Empty, family
  <2>2. CASE CleanupAfterSuccess(f)
    <3>1. [tag |-> "OnSuccess", k |-> Unit] \in Frame
      BY FrameConstructors, EffectConstructors, ExitConstructors DEF Unit
    <3>2. \/ Pop(f)
          \/ stack' = [stack EXCEPT ![f] = Append(Popped(f), [tag |-> "OnSuccess", k |-> Unit])]
      BY <2>2 DEF CleanupAfterSuccess
    <3> QED BY <2>1, <3>1, <3>2, RegionPlain
  <2>3. CASE CleanupAfterFailure(f)
    <3>1. cur.cause \in Cause
      BY <1>0, <2>3, EffectParts DEF CleanupAfterFailure, Evaluating
    <3>2. [tag |-> "AfterCleanup", cause |-> cur.cause] \in Frame
      BY <3>1, FrameConstructors
    <3>3. \/ Pop(f)
          \/ stack' = [stack EXCEPT ![f] =
                         Append(Popped(f), [tag |-> "AfterCleanup", cause |-> cur.cause])]
      BY <2>3 DEF CleanupAfterFailure
    <3> QED BY <2>1, <3>2, <3>3, RegionPlain
  <2> QED BY <1>8, <2>2, <2>3
<1> QED
  BY <1>1, <1>2, <1>3, <1>4, <1>5, <1>6, <1>7, <1>8, MachineStill DEF Step, Program


\* The stack of a fiber only changes while its run loop is active.
LEMMA StackStep ==
  ASSUME TypeOK, NEW f \in Fiber, Step(f)
  PROVE  \/ UNCHANGED stack
         \/ Active(f) /\ \A g \in Fiber : g # f => stack'[g] = stack[g]
<1>0. stack \in [Fiber -> Seq(Frame)]
  BY DEF TypeOK
<1>1. CASE FlatMap(f) \/ CatchAll(f) \/ ForcedYield(f) \/ EvalJoin(f) \/ OnExit(f) \/ EvalAwait(f)
  BY <1>0, <1>1 DEF FlatMap, CatchAll, ForcedYield, EvalJoin, OnExit, EvalAwait, Mask, Push,
     Chooses, Ready, Looping, Active
<1>2. CASE EvalRegion(f)
  BY <1>0, <1>2 DEF EvalRegion, machine, Ready, Looping, Active
<1>3. CASE EvalSuccess(f) \/ EvalFailure(f)
  BY <1>0, <1>3 DEF EvalSuccess, EvalFailure, Skip, Use, UseRevert, Pop, Evaluating, Active
<1>4. CASE CleanupAfterSuccess(f) \/ CleanupAfterFailure(f)
  BY <1>0, <1>4 DEF CleanupAfterSuccess, CleanupAfterFailure, Pop, Evaluating, Active
<1>5. CASE Fork(f)
  BY <1>5 DEF Fork
<1> QED BY <1>1, <1>2, <1>3, <1>4, <1>5, MachineStill DEF Step, Program

\* Every step keeps it that a fiber that did not start, or is done, has no
\* frames.
LEMMA UnstackedNext ==
  ASSUME TypeOK, TurnInv, Unstacked, [Next]_vars
  PROVE  Unstacked'
<1> SUFFICES ASSUME NEW g \in Fiber, status'[g] # "live"
             PROVE  stack'[g] = <<>>
  BY DEF Unstacked
<1>1. CASE SetExitValue(g)
  BY <1>1 DEF SetExitValue, Leaving, Empty
<1>2. CASE ~SetExitValue(g)
  <2>1. status'[g] = status[g]
    BY <1>2, StatusStep
  <2>2. stack[g] = <<>> /\ ~Active(g)
    BY <2>1 DEF Unstacked, TurnInv, Turn
  <2>3. stack'[g] = stack[g]
    <3>1. ASSUME NEW f \in Fiber, Step(f)
          PROVE  stack'[g] = stack[g]
      BY <2>2, <3>1, StackStep
    <3>2. CASE StartRoot \/ \E h \in Fiber : Run(h) \/ OutsideCompletes(h) \/ OutsideInterrupts(h)
      BY <3>2, MachineStill, FiberAssumption
    <3>3. CASE UNCHANGED vars
      BY <3>3 DEF vars, machine
    <3> QED BY <3>1, <3>2, <3>3 DEF Next, Outside
  <2> QED BY <2>2, <2>3
<1> QED BY <1>1, <1>2

\* Every step keeps regions bracketed, whichever fiber makes it.
LEMMA RegionNext ==
  ASSUME TypeOK, TurnInv, RegionInv, [Next]_vars
  PROVE  RegionInv'
<1>1. Bracketed /\ Unstacked
  BY DEF RegionInv
<1>2. Bracketed'
  <2>1. ASSUME NEW f \in Fiber, Step(f)
        PROVE  Bracketed'
    BY <1>1, <2>1, RegionStep
  <2>2. CASE StartRoot \/ \E h \in Fiber : Run(h) \/ OutsideCompletes(h) \/ OutsideInterrupts(h)
    <3>1. UNCHANGED <<stack, interruption, flags0>>
      BY <2>2, MachineStill, FiberAssumption
    <3>2. UNCHANGED <<interruption, flags0>> /\ UNCHANGED stack /\ Root \in Fiber
      BY <3>1, FiberAssumption
    <3> QED BY <1>1, <3>2, RegionPlain
  <2>3. CASE UNCHANGED vars
    <3>1. UNCHANGED <<stack, interruption, flags0>>
      BY <2>3 DEF vars, machine, family
    <3>2. UNCHANGED <<interruption, flags0>> /\ UNCHANGED stack /\ Root \in Fiber
      BY <3>1, FiberAssumption
    <3> QED BY <1>1, <3>2, RegionPlain
  <2> QED BY <2>1, <2>2, <2>3 DEF Next, Outside
<1>3. Unstacked'
  BY <1>1, UnstackedNext
<1> QED BY <1>2, <1>3 DEF RegionInv

\* They are at first.
LEMMA RegionInit == Init => RegionInv
<1> SUFFICES ASSUME Init
             PROVE  RegionInv
  OBVIOUS
<1>1. \A f \in Fiber : stack[f] = <<>> /\ flags0[f] = TRUE /\ interruption[f] = TRUE
  BY DEF Init
<1>2. Regions(<<>>, TRUE, TRUE)
  BY RegionsEmpty
<1> QED BY <1>1, <1>2 DEF RegionInv, Bracketed, Unstacked

\* At the end of a fiber its regions are left.
LEMMA RegionsHold ==
  ASSUME TypeOK, RegionInv
  PROVE  RegionsReverted
<1> SUFFICES ASSUME NEW f \in Fiber, status[f] = "done"
             PROVE  interruption[f] = flags0[f]
  BY DEF RegionsReverted
<1>1. stack[f] = <<>> /\ Regions(stack[f], flags0[f], interruption[f])
  BY DEF RegionInv, Bracketed, Unstacked
<1>2. flags0[f] \in BOOLEAN /\ interruption[f] \in BOOLEAN
  BY DEF TypeOK
<1> QED BY <1>1, <1>2, RegionsEmpty

\* Nobody dies where a cleanup starts: it starts with interruption off.
LEMMA CleanupIsSafe ==
  ASSUME TypeOK, RegionInv, NEW f \in Fiber, TopIs(f, "Cleanup")
  PROVE  ~MustDie(f)
<1>1. /\ stack[f] # <<>> /\ stack[f] \in Seq(Frame) /\ flags0[f] \in BOOLEAN /\ interruption[f] \in BOOLEAN
      /\ Regions(stack[f], flags0[f], interruption[f]) /\ Top(f).tag = "Cleanup"
  BY DEF TypeOK, RegionInv, Bracketed, TopIs, Empty
<1>2. ~interruption[f]
  BY <1>1, RegionsPop DEF Top
<1> QED BY <1>2 DEF MustDie, Interruptible

----------------------------------------------------------------------------
(* Finalizers.  A finalizer that was installed waits in the stack, in one   *)
(* frame, or ran, once.                                                     *)

IsFinalizer(r) == r.tag = "Cleanup" /\ r.h.kind = "finalizer"

\* s is a stack, d the finalizers done and k how many were installed.
Finals(s, d, k) ==
  /\ \A i \in DOMAIN d : d[i] \in 1..k
  /\ \A i, j \in DOMAIN d : d[i] = d[j] => i = j
  /\ \A i \in DOMAIN s : IsFinalizer(s[i]) =>
       s[i].h.n \in 1..k /\ \A j \in DOMAIN d : d[j] # s[i].h.n
  /\ \A i, j \in DOMAIN s :
       IsFinalizer(s[i]) /\ IsFinalizer(s[j]) /\ s[i].h.n = s[j].h.n => i = j
  /\ \A n \in 1..k : \/ \E i \in DOMAIN d : d[i] = n
                     \/ \E i \in DOMAIN s : IsFinalizer(s[i]) /\ s[i].h.n = n

FinalInv == \A f \in Fiber : Finals(stack[f], ran[f], opened[f])

\* A frame that is no finalizer adds none to what there is to run,
LEMMA FinalsPush ==
  ASSUME NEW s \in Seq(Frame), NEW r \in Frame, NEW d, NEW k, Finals(s, d, k), ~IsFinalizer(r)
  PROVE  Finals(Append(s, r), d, k)
<1> DEFINE u == Append(s, r)
           m == Len(s)
<1>1. m \in Nat /\ DOMAIN s = 1..m /\ DOMAIN u = 1..m + 1 /\ u[m + 1] = r
      /\ \A i \in DOMAIN s : u[i] = s[i]
  BY AppendParts
<1> HIDE DEF u, m
<1>2. DOMAIN u = DOMAIN s \cup {m + 1}
  BY <1>1
<1>3. \A i \in DOMAIN u : IsFinalizer(u[i]) => i \in DOMAIN s /\ u[i] = s[i]
  BY <1>1, <1>2
<1>4. \A i \in DOMAIN s : i \in DOMAIN u /\ u[i] = s[i]
  BY <1>1, <1>2
<1>5. Finals(u, d, k)
  <2> HIDE DEF IsFinalizer
  <2>1. \A i \in DOMAIN u : IsFinalizer(u[i]) =>
          u[i].h.n \in 1..k /\ \A j \in DOMAIN d : d[j] # u[i].h.n
    BY <1>3 DEF Finals
  <2>2. \A i, j \in DOMAIN u :
          IsFinalizer(u[i]) /\ IsFinalizer(u[j]) /\ u[i].h.n = u[j].h.n => i = j
    BY <1>3 DEF Finals
  <2>3. \A n \in 1..k : \/ \E i \in DOMAIN d : d[i] = n
                        \/ \E i \in DOMAIN u : IsFinalizer(u[i]) /\ u[i].h.n = n
    BY <1>4 DEF Finals
  <2> QED BY <2>1, <2>2, <2>3 DEF Finals
<1> QED BY <1>5 DEF u

\* ... one that is adds itself, the last that was opened,
LEMMA FinalsOpen ==
  ASSUME NEW s \in Seq(Frame), NEW r \in Frame, NEW d, NEW k \in Nat, Finals(s, d, k),
         IsFinalizer(r), r.h.n = k + 1
  PROVE  Finals(Append(s, r), d, k + 1)
<1> DEFINE u == Append(s, r)
           m == Len(s)
<1>1. m \in Nat /\ DOMAIN s = 1..m /\ DOMAIN u = 1..m + 1 /\ u[m + 1] = r
      /\ \A i \in DOMAIN s : u[i] = s[i]
  BY AppendParts
<1> HIDE DEF u, m
<1>2. DOMAIN u = DOMAIN s \cup {m + 1} /\ m + 1 \notin DOMAIN s
  BY <1>1
<1>3. 1..(k + 1) = (1..k) \cup {k + 1} /\ k + 1 \notin 1..k
  OBVIOUS
<1>4. \A i \in DOMAIN u : \/ i \in DOMAIN s /\ u[i] = s[i]
                          \/ i = m + 1 /\ u[i].h.n = k + 1
  BY <1>1, <1>2
<1>5. \A i \in DOMAIN d : d[i] # k + 1
  BY <1>3 DEF Finals
<1>6. Finals(u, d, k + 1)
  <2>1. /\ \A i \in DOMAIN d : d[i] \in 1..(k + 1)
        /\ \A i, j \in DOMAIN d : d[i] = d[j] => i = j
    BY <1>3 DEF Finals
  <2>2. \A i \in DOMAIN u : IsFinalizer(u[i]) =>
          u[i].h.n \in 1..(k + 1) /\ \A j \in DOMAIN d : d[j] # u[i].h.n
    BY <1>3, <1>4, <1>5 DEF Finals
  <2>3. \A i, j \in DOMAIN u :
          IsFinalizer(u[i]) /\ IsFinalizer(u[j]) /\ u[i].h.n = u[j].h.n => i = j
    BY <1>3, <1>4 DEF Finals
  <2>4. \A n \in 1..(k + 1) : \/ \E i \in DOMAIN d : d[i] = n
                              \/ \E i \in DOMAIN u : IsFinalizer(u[i]) /\ u[i].h.n = n
    <3> TAKE n \in 1..(k + 1)
    <3>1. CASE n = k + 1
      BY <1>1, <1>2, <3>1
    <3>2. CASE n \in 1..k
      BY <1>1, <1>2, <3>2 DEF Finals
    <3> QED BY <1>3, <3>1, <3>2
  <2> QED BY <2>1, <2>2, <2>3, <2>4 DEF Finals
<1> QED BY <1>6 DEF u

\* ... popping one that is no finalizer takes none away,
LEMMA FinalsPop ==
  ASSUME NEW s \in Seq(Frame), s # <<>>, NEW d, NEW k, Finals(s, d, k), ~IsFinalizer(s[Len(s)])
  PROVE  Finals(SubSeq(s, 1, Len(s) - 1), d, k)
<1> DEFINE u == SubSeq(s, 1, Len(s) - 1)
           m == Len(s)
<1>1. m \in Nat \ {0} /\ DOMAIN s = 1..m /\ DOMAIN u = 1..m - 1
      /\ \A i \in DOMAIN u : i \in DOMAIN s /\ u[i] = s[i]
  BY PopParts
<1> HIDE DEF u
<1>2. \A i \in DOMAIN s : i \in DOMAIN u \/ i = m
  <2> HIDE DEF m
  <2> QED BY <1>1
<1>3. \A i \in DOMAIN s : IsFinalizer(s[i]) => i \in DOMAIN u /\ u[i] = s[i]
  BY <1>1, <1>2
<1>4. Finals(u, d, k)
  <2>1. \A i \in DOMAIN u : IsFinalizer(u[i]) =>
          u[i].h.n \in 1..k /\ \A j \in DOMAIN d : d[j] # u[i].h.n
    BY <1>1 DEF Finals
  <2>2. \A i, j \in DOMAIN u :
          IsFinalizer(u[i]) /\ IsFinalizer(u[j]) /\ u[i].h.n = u[j].h.n => i = j
    BY <1>1 DEF Finals
  <2>3. \A n \in 1..k : \/ \E i \in DOMAIN d : d[i] = n
                        \/ \E i \in DOMAIN u : IsFinalizer(u[i]) /\ u[i].h.n = n
    BY <1>3 DEF Finals
  <2> QED BY <2>1, <2>2, <2>3 DEF Finals
<1> QED BY <1>4 DEF u

\* ... and a finalizer that is popped and run is one that ran.
LEMMA FinalsRun ==
  ASSUME NEW s \in Seq(Frame), s # <<>>, NEW d \in Seq(Nat), NEW k \in Nat, Finals(s, d, k),
         IsFinalizer(s[Len(s)]), s[Len(s)].h.n \in Nat
  PROVE  Finals(SubSeq(s, 1, Len(s) - 1), Append(d, s[Len(s)].h.n), k)
<1> DEFINE u == SubSeq(s, 1, Len(s) - 1)
           m == Len(s)
           x == s[m].h.n
           e == Append(d, x)
           q == Len(d)
<1>1. m \in Nat \ {0} /\ DOMAIN s = 1..m /\ DOMAIN u = 1..m - 1
      /\ \A i \in DOMAIN u : i \in DOMAIN s /\ u[i] = s[i]
  BY PopParts
<1>2. q \in Nat /\ DOMAIN d = 1..q /\ DOMAIN e = 1..q + 1 /\ e[q + 1] = x
      /\ \A i \in DOMAIN d : e[i] = d[i]
  BY AppendParts
<1>3. x \in 1..k /\ (\A j \in DOMAIN d : d[j] # x)
      /\ \A i \in DOMAIN s : IsFinalizer(s[i]) /\ s[i].h.n = x => i = m
  <2> HIDE DEF m
  <2>1. m \in DOMAIN s /\ IsFinalizer(s[m])
    BY <1>1 DEF m
  <2> QED BY <2>1 DEF Finals
<1> HIDE DEF u, m, x, e, q
<1>4. DOMAIN s = DOMAIN u \cup {m} /\ m \notin DOMAIN u /\ DOMAIN e = DOMAIN d \cup {q + 1}
      /\ q + 1 \notin DOMAIN d
  BY <1>1, <1>2
<1>5. Finals(u, e, k)
  <2>1. \A i \in DOMAIN e : e[i] \in 1..k
    BY <1>2, <1>3, <1>4 DEF Finals
  <2>2. \A i, j \in DOMAIN e : e[i] = e[j] => i = j
    BY <1>2, <1>3, <1>4 DEF Finals
  <2>3. \A i \in DOMAIN u : IsFinalizer(u[i]) =>
          u[i].h.n \in 1..k /\ \A j \in DOMAIN e : e[j] # u[i].h.n
    <3> TAKE i \in DOMAIN u
    <3> HAVE IsFinalizer(u[i])
    <3>1. i \in DOMAIN s /\ u[i] = s[i] /\ i # m
      BY <1>1, <1>4
    <3>2. u[i].h.n \in 1..k /\ (\A j \in DOMAIN d : d[j] # u[i].h.n) /\ u[i].h.n # x
      BY <1>3, <3>1 DEF Finals
    <3> QED BY <1>2, <1>4, <3>2
  <2>4. \A i, j \in DOMAIN u :
          IsFinalizer(u[i]) /\ IsFinalizer(u[j]) /\ u[i].h.n = u[j].h.n => i = j
    BY <1>1 DEF Finals
  <2>5. \A n \in 1..k : \/ \E i \in DOMAIN e : e[i] = n
                        \/ \E i \in DOMAIN u : IsFinalizer(u[i]) /\ u[i].h.n = n
    <3> TAKE n \in 1..k
    <3>1. CASE n = x
      BY <1>2, <1>4, <3>1
    <3>2. CASE n # x
      <4>1. CASE \E i \in DOMAIN d : d[i] = n
        BY <1>2, <1>4, <4>1
      <4>2. CASE \E i \in DOMAIN s : IsFinalizer(s[i]) /\ s[i].h.n = n
        BY <1>1, <1>4, <3>2, <4>2 DEF x
      <4> QED BY <4>1, <4>2 DEF Finals
    <3> QED BY <3>1, <3>2
  <2> QED BY <2>1, <2>2, <2>3, <2>4, <2>5 DEF Finals
<1> QED BY <1>5 DEF u, e, x, m

\* When nothing waits any more, as many finalizers ran as were installed.
LEMMA FinalsDone ==
  ASSUME NEW d \in Seq(Nat), NEW k \in Nat, Finals(<<>>, d, k)
  PROVE  Len(d) = k /\ \A n \in 1..k : \E i \in 1..Len(d) : d[i] = n
<1>1. Len(d) \in Nat /\ DOMAIN d = 1..Len(d) /\ d \in [1..Len(d) -> Nat]
  BY LenProperties
<1>2. DOMAIN <<>> = {}
  OBVIOUS
<1>3. \A n \in 1..k : \E i \in 1..Len(d) : d[i] = n
  BY <1>1, <1>2 DEF Finals
<1>4. d \in [1..Len(d) -> 1..k] /\ \A i, j \in 1..Len(d) : d[i] = d[j] => i = j
  BY <1>1 DEF Finals
<1>5. ExistsBijection(1..Len(d), 1..k)
  <2>1. d \in Bijection(1..Len(d), 1..k)
    BY <1>3, <1>4, Fun_IsBij
  <2> QED BY <2>1 DEF ExistsBijection
<1>6. Cardinality(1..k) = Len(d)
  BY <1>1, <1>5, FS_CountingElements
<1>7. Cardinality(1..k) = k
  <2>1. 1 \in Int /\ k \in Int
    OBVIOUS
  <2>2. Cardinality(1..k) = IF 1 > k THEN 0 ELSE k - 1 + 1
    BY <2>1, FS_Interval
  <2> QED BY <2>2
<1> QED BY <1>3, <1>6, <1>7

\* What a step does to the finalizers of its fiber, and to those of others.
LEMMA FinalPlain ==
  ASSUME TypeOK, FinalInv, NEW f \in Fiber, UNCHANGED <<ran, opened>>,
         \/ UNCHANGED stack
         \/ \E r \in Frame : ~IsFinalizer(r) /\ Push(f, r)
         \/ stack[f] # <<>> /\ ~IsFinalizer(Top(f)) /\ Pop(f)
         \/ \E r1, r2 \in Frame : /\ ~IsFinalizer(r1) /\ ~IsFinalizer(r2)
                                 /\ stack' = [stack EXCEPT ![f] = @ \o <<r1, r2>>]
  PROVE  FinalInv'
<1>0. stack[f] \in Seq(Frame) /\ stack \in [Fiber -> Seq(Frame)] /\ Finals(stack[f], ran[f], opened[f])
  BY DEF TypeOK, FinalInv
<1>1. \A g \in Fiber : g # f => stack'[g] = stack[g]
  BY <1>0 DEF Push, Pop
<1>2. Finals(stack'[f], ran[f], opened[f])
  <2>1. CASE UNCHANGED stack
    BY <1>0, <2>1
  <2>2. CASE \E r \in Frame : ~IsFinalizer(r) /\ Push(f, r)
    <3>1. PICK r \in Frame : ~IsFinalizer(r) /\ Push(f, r)
      BY <2>2
    <3>2. stack'[f] = Append(stack[f], r)
      BY <1>0, <3>1 DEF Push
    <3> QED BY <1>0, <3>1, <3>2, FinalsPush
  <2>3. CASE stack[f] # <<>> /\ ~IsFinalizer(Top(f)) /\ Pop(f)
    <3>1. stack'[f] = SubSeq(stack[f], 1, Len(stack[f]) - 1)
      BY <1>0, <2>3 DEF Pop, Popped
    <3> QED BY <1>0, <2>3, <3>1, FinalsPop DEF Top
  <2>4. CASE \E r1, r2 \in Frame : /\ ~IsFinalizer(r1) /\ ~IsFinalizer(r2)
                                  /\ stack' = [stack EXCEPT ![f] = @ \o <<r1, r2>>]
    <3>1. PICK r1 \in Frame, r2 \in Frame :
            /\ ~IsFinalizer(r1) /\ ~IsFinalizer(r2)
            /\ stack' = [stack EXCEPT ![f] = @ \o <<r1, r2>>]
      BY <2>4
    <3>2. stack'[f] = Append(Append(stack[f], r1), r2)
      BY <1>0, <3>1, AppendTwo
    <3>3. Append(stack[f], r1) \in Seq(Frame) /\ Finals(Append(stack[f], r1), ran[f], opened[f])
      BY <1>0, <3>1, FinalsPush, AppendProperties
    <3> QED BY <3>1, <3>2, <3>3, FinalsPush
  <2> QED BY <2>1, <2>2, <2>3, <2>4
<1> SUFFICES ASSUME NEW g \in Fiber
             PROVE  Finals(stack'[g], ran'[g], opened'[g])
  BY DEF FinalInv
<1> QED BY <1>1, <1>2 DEF FinalInv

\* A mask: three frames and the cleanup on top of them.
LEMMA FinalMask ==
  ASSUME TypeOK, FinalInv, NEW f \in Fiber, NEW h \in Handler, NEW b \in Body, Mask(f, h, b),
         UNCHANGED ran,
         \/ h.kind # "finalizer" /\ UNCHANGED opened
         \/ /\ h.kind = "finalizer" /\ h.n = opened[f] + 1
            /\ opened' = [opened EXCEPT ![f] = @ + 1]
  PROVE  FinalInv'
<1> DEFINE c == [tag |-> "Continue"]
           r == Revert(f, FALSE)
           o == OnStep(TRUE)
           k == [tag |-> "Cleanup", h |-> h]
           t == Append(Append(Append(stack[f], c), r), o)
<1>0. /\ stack[f] \in Seq(Frame) /\ stack \in [Fiber -> Seq(Frame)] /\ opened[f] \in Nat
      /\ opened \in [Fiber -> Nat] /\ Finals(stack[f], ran[f], opened[f])
  BY DEF TypeOK, FinalInv
<1>1. /\ c \in Frame /\ ~IsFinalizer(c) /\ r \in Frame /\ ~IsFinalizer(r)
      /\ o \in Frame /\ ~IsFinalizer(o)
  <2>1. interruption[f] \in BOOLEAN /\ (interruption[f] # FALSE) \in BOOLEAN
    BY DEF TypeOK
  <2>2. r \in Frame /\ r.tag = "Revert"
    BY <2>1, FrameConstructors DEF Revert
  <2> QED BY <2>2, FrameConstructors DEF OnStep, IsFinalizer
<1>2. k \in Frame /\ k.tag = "Cleanup" /\ k.h = h
  BY FrameConstructors
<1>3. stack'[f] = Append(t, k)
  <2>1. stack'[f] = stack[f] \o <<c, r, o, k>>
    BY <1>0 DEF Mask
  <2> HIDE DEF c, r, o, k
  <2> QED BY <1>0, <1>1, <1>2, <2>1, AppendFour
<1>4. t \in Seq(Frame) /\ Finals(t, ran[f], opened[f])
  <2> HIDE DEF c, r, o
  <2>1. Append(stack[f], c) \in Seq(Frame) /\ Finals(Append(stack[f], c), ran[f], opened[f])
    BY <1>0, <1>1, FinalsPush, AppendProperties
  <2>2. /\ Append(Append(stack[f], c), r) \in Seq(Frame)
        /\ Finals(Append(Append(stack[f], c), r), ran[f], opened[f])
    BY <1>1, <2>1, FinalsPush, AppendProperties
  <2> QED BY <1>1, <2>2, FinalsPush, AppendProperties
<1> HIDE DEF t, k
<1>5. Finals(stack'[f], ran'[f], opened'[f])
  <2>1. CASE h.kind # "finalizer" /\ UNCHANGED opened
    <3>1. ~IsFinalizer(k)
      BY <1>2, <2>1 DEF IsFinalizer
    <3> QED BY <1>2, <1>3, <1>4, <2>1, <3>1, FinalsPush
  <2>2. CASE /\ h.kind = "finalizer" /\ h.n = opened[f] + 1
             /\ opened' = [opened EXCEPT ![f] = @ + 1]
    <3>1. IsFinalizer(k) /\ k.h.n = opened[f] + 1 /\ opened'[f] = opened[f] + 1
      BY <1>0, <1>2, <2>2 DEF IsFinalizer
    <3>2. Finals(Append(t, k), ran[f], opened[f] + 1)
      BY <1>0, <1>2, <1>4, <3>1, FinalsOpen
    <3> QED BY <1>3, <3>1, <3>2
  <2> QED BY <2>1, <2>2
<1>6. \A g \in Fiber : g # f => stack'[g] = stack[g] /\ opened'[g] = opened[g]
  BY <1>0 DEF Mask
<1> SUFFICES ASSUME NEW g \in Fiber
             PROVE  Finals(stack'[g], ran'[g], opened'[g])
  BY DEF FinalInv
<1> QED BY <1>5, <1>6 DEF FinalInv

\* A cleanup starts: a finalizer leaves the stack and is run.
LEMMA FinalCleanup ==
  ASSUME TypeOK, RegionInv, FinalInv, NEW f \in Fiber,
         CleanupAfterSuccess(f) \/ CleanupAfterFailure(f)
  PROVE  FinalInv'
<1> DEFINE h == Top(f).h
<1>0. /\ stack[f] \in Seq(Frame) /\ stack \in [Fiber -> Seq(Frame)] /\ opened[f] \in Nat
      /\ ran[f] \in Seq(Nat) /\ ran \in [Fiber -> Seq(Nat)]
      /\ Finals(stack[f], ran[f], opened[f]) /\ cur \in Effect
  BY DEF TypeOK, FinalInv
<1>1. TopIs(f, "Cleanup") /\ stack[f] # <<>> /\ Top(f).tag = "Cleanup" /\ UNCHANGED opened
  BY DEF CleanupAfterSuccess, CleanupAfterFailure, TopIs, Empty
<1>2. ~MustDie(f)
  BY <1>1, CleanupIsSafe
<1>3. h \in Handler /\ (h.kind = "finalizer" => h.n \in Nat)
  BY <1>0, <1>1, PoppedType, FrameParts, HandlerParts
<1>4. PICK r \in Frame :
        /\ ~IsFinalizer(r) /\ CleanupStarts(f, h)
        /\ IF h.kind = "finalizer" THEN stack' = [stack EXCEPT ![f] = Append(Popped(f), r)] ELSE Pop(f)
  <2>1. [tag |-> "OnSuccess", k |-> Unit] \in Frame /\ ~IsFinalizer([tag |-> "OnSuccess", k |-> Unit])
    BY FrameConstructors, EffectConstructors DEF IsFinalizer
  <2>2. CASE CleanupAfterSuccess(f)
    BY <2>1, <2>2 DEF CleanupAfterSuccess
  <2>3. CASE CleanupAfterFailure(f)
    <3>1. cur.cause \in Cause
      BY <1>0, <2>3, EffectParts DEF CleanupAfterFailure, Evaluating
    <3>2. /\ [tag |-> "AfterCleanup", cause |-> cur.cause] \in Frame
          /\ ~IsFinalizer([tag |-> "AfterCleanup", cause |-> cur.cause])
      BY <3>1, FrameConstructors DEF IsFinalizer
    <3> QED BY <1>2, <2>3, <3>2 DEF CleanupAfterFailure
  <2> QED BY <2>2, <2>3
<1>5. Finals(stack'[f], ran'[f], opened[f])
  <2>1. CASE h.kind = "finalizer"
    <3>1. IsFinalizer(Top(f)) /\ h.n \in Nat
      BY <1>1, <1>3, <2>1 DEF IsFinalizer
    <3>2. Finals(Popped(f), Append(ran[f], h.n), opened[f])
      BY <1>0, <1>1, <3>1, FinalsRun DEF Top, Popped
    <3>3. Popped(f) \in Seq(Frame)
      BY <1>0, <1>1, PopType DEF Popped
    <3>4. stack'[f] = Append(Popped(f), r) /\ ran'[f] = Append(ran[f], h.n)
      BY <1>0, <1>4, <2>1 DEF CleanupStarts
    <3> HIDE DEF h
    <3> QED BY <1>4, <3>2, <3>3, <3>4, FinalsPush
  <2>2. CASE h.kind # "finalizer"
    <3>1. ~IsFinalizer(Top(f))
      BY <2>2 DEF IsFinalizer
    <3>2. stack'[f] = Popped(f) /\ ran'[f] = ran[f]
      BY <1>0, <1>4, <2>2 DEF CleanupStarts, Pop
    <3> QED BY <1>0, <1>1, <3>1, <3>2, FinalsPop DEF Top, Popped
  <2> QED BY <2>1, <2>2
<1>6. \A g \in Fiber : g # f => stack'[g] = stack[g] /\ ran'[g] = ran[g]
  BY <1>0, <1>4 DEF Pop, CleanupStarts
<1> SUFFICES ASSUME NEW g \in Fiber
             PROVE  Finals(stack'[g], ran'[g], opened'[g])
  BY DEF FinalInv
<1> HIDE DEF h
<1> QED BY <1>1, <1>5, <1>6 DEF FinalInv

\* Every step of a fiber keeps it that what was opened ran or is on the stack,
\* once.
LEMMA FinalStep ==
  ASSUME TypeOK, RegionInv, FinalInv, NEW f \in Fiber, Step(f)
  PROVE  FinalInv'
<1>0. cur \in Effect /\ opened[f] \in Nat /\ asyncs[f] \in Nat /\ interruption[f] \in BOOLEAN
  BY DEF TypeOK
<1>1. CASE OnExit(f)
  <2> DEFINE h == [kind |-> "finalizer", n |-> opened[f] + 1]
  <2>1. h \in Handler /\ h.kind = "finalizer" /\ h.n = opened[f] + 1
    BY <1>0, HandlerParts
  <2>2. Mask(f, h, Prog) /\ UNCHANGED ran /\ opened' = [opened EXCEPT ![f] = @ + 1]
    BY <1>1 DEF OnExit
  <2> HIDE DEF h
  <2> QED BY <2>1, <2>2, FinalMask, EffectConstructors
<1>2. CASE EvalAwait(f)
  <2> DEFINE h == [kind |-> "canceler", of |-> cur.of, id |-> asyncs[f] + 1]
  <2>1. cur.of \in Fiber
    BY <1>0, <1>2, EffectParts DEF EvalAwait
  <2>2. h \in Handler /\ h.kind # "finalizer" /\ AwaitAsync(cur.of) \in Body
    BY <1>0, <2>1, HandlerParts, EffectConstructors
  <2>3. Mask(f, h, AwaitAsync(cur.of)) /\ UNCHANGED <<ran, opened>>
    BY <1>2 DEF EvalAwait, history
  <2> HIDE DEF h
  <2> QED BY <2>2, <2>3, FinalMask
<1>3. CASE CleanupAfterSuccess(f) \/ CleanupAfterFailure(f)
  BY <1>3, FinalCleanup
<1>4. CASE ~OnExit(f) /\ ~EvalAwait(f) /\ ~CleanupAfterSuccess(f) /\ ~CleanupAfterFailure(f)
  <2>1. UNCHANGED <<ran, opened>>
    BY <1>4 DEF Step, Finally, DrainDone, DrainYieldNow, DrainInterrupt, DrainResume, DrainStateful,
       LoopInterrupt, LoopStateful, ForcedYield, Program, Finish, FlatMap, CatchAll, EnterRegion,
       SuspendAsync, YieldOp, Fork, InterruptAsFork, AwaitOp, Complete, EvalYield, EvalRegion,
       EvalAwaitAsync, EvalJoin, EvalSuccess, EvalFailure, LeaveChildren, LeaveMessages,
       SetExitValue, Notify, NotifyDone, history
  <2>2. \A k \in Effect : /\ [tag |-> "OnSuccess", k |-> k] \in Frame
                          /\ ~IsFinalizer([tag |-> "OnSuccess", k |-> k])
    BY FrameConstructors DEF IsFinalizer
  <2>3. CASE FlatMap(f) \/ ForcedYield(f)
    <3>1. \E k \in Effect : Push(f, [tag |-> "OnSuccess", k |-> k])
      BY <1>0, <2>3, EffectConstructors DEF FlatMap, ForcedYield
    <3> QED BY <2>1, <2>2, <3>1, FinalPlain
  <2>4. CASE CatchAll(f)
    <3>1. /\ Push(f, [tag |-> "OnFailure"]) /\ [tag |-> "OnFailure"] \in Frame
          /\ ~IsFinalizer([tag |-> "OnFailure"])
      BY <2>4, FrameConstructors DEF CatchAll, IsFinalizer
    <3> QED BY <2>1, <3>1, FinalPlain
  <2>5. CASE EvalJoin(f)
    <3>1. cur.rest \in SUBSET Fiber /\ cur.exit \in Exit
      BY <1>0, <2>5, EffectParts DEF EvalJoin
    <3>2. \A c \in cur.rest : Join(cur.rest \ {c}, cur.exit) \in Effect
      <4> TAKE c \in cur.rest
      <4>1. cur.rest \ {c} \in SUBSET Fiber
        BY <3>1
      <4> QED BY <3>1, <4>1, EffectConstructors
    <3>3. UNCHANGED stack \/ \E k \in Effect : Push(f, [tag |-> "OnSuccess", k |-> k])
      BY <2>5, <3>2 DEF EvalJoin
    <3> QED BY <2>1, <2>2, <3>3, FinalPlain
  <2>6. CASE EvalRegion(f)
    <3>1. cur.enable \in BOOLEAN
      BY <1>0, <2>6, EffectParts DEF EvalRegion
    <3> DEFINE r == Revert(f, cur.enable)
               o == OnStep(FALSE)
    <3>2. r \in Frame /\ r.tag = "Revert"
      <4>1. (interruption[f] # cur.enable) \in BOOLEAN
        BY <1>0, <3>1
      <4> QED BY <1>0, <4>1, FrameConstructors DEF Revert
    <3>3. o \in Frame /\ o.tag = "OnStep"
      BY FrameConstructors DEF OnStep
    <3>4. UNCHANGED stack \/ stack' = [stack EXCEPT ![f] = @ \o <<r, o>>]
      BY <2>6 DEF EvalRegion, machine
    <3> HIDE DEF r, o
    <3>5. ~IsFinalizer(r) /\ ~IsFinalizer(o)
      BY <3>2, <3>3 DEF IsFinalizer
    <3> QED BY <2>1, <3>2, <3>3, <3>4, <3>5, FinalPlain
  <2>7. CASE EvalSuccess(f) \/ EvalFailure(f)
    <3>1. stack[f] # <<>> /\ Pop(f) /\ Top(f).tag # "Cleanup"
      BY <2>7 DEF EvalSuccess, EvalFailure, Skip, Use, UseRevert, TopIs, Empty
    <3> QED BY <2>1, <3>1, FinalPlain DEF IsFinalizer
  <2>8. CASE Fork(f)
    <3>1. UNCHANGED stack
      BY <2>8 DEF Fork
    <3> QED BY <2>1, <3>1, FinalPlain
  <2>9. CASE UNCHANGED stack
    BY <2>1, <2>9, FinalPlain
  <2> QED
    BY <1>4, <2>3, <2>4, <2>5, <2>6, <2>7, <2>8, <2>9, MachineStill DEF Step, Program
<1> QED BY <1>1, <1>2, <1>3, <1>4

\* So does every step of the system.
LEMMA FinalNext ==
  ASSUME TypeOK, RegionInv, FinalInv, [Next]_vars
  PROVE  FinalInv'
<1>1. ASSUME NEW f \in Fiber, Step(f)
      PROVE  FinalInv'
  BY <1>1, FinalStep
<1>2. CASE StartRoot \/ \E h \in Fiber : Run(h) \/ OutsideCompletes(h) \/ OutsideInterrupts(h)
  <2>1. UNCHANGED stack /\ Root \in Fiber
    BY <1>2, MachineStill, FiberAssumption
  <2>2. UNCHANGED <<ran, opened>>
    BY <1>2 DEF StartRoot, Run, OutsideCompletes, OutsideInterrupts, history
  <2> QED BY <2>1, <2>2, FinalPlain
<1>3. CASE UNCHANGED vars
  <2>1. UNCHANGED <<ran, opened>> /\ UNCHANGED stack /\ Root \in Fiber
    BY <1>3, FiberAssumption DEF vars, machine, history
  <2> QED BY <2>1, FinalPlain
<1> QED BY <1>1, <1>2, <1>3 DEF Next, Outside

\* It holds at first.
LEMMA FinalInit == Init => FinalInv
<1> SUFFICES ASSUME Init, NEW f \in Fiber
             PROVE  Finals(stack[f], ran[f], opened[f])
  BY DEF FinalInv
<1>1. stack[f] = <<>> /\ ran[f] = <<>> /\ opened[f] = 0
  BY DEF Init
<1>2. DOMAIN <<>> = {} /\ 1..0 = {}
  OBVIOUS
<1> QED BY <1>1, <1>2 DEF Finals

\* A fiber that is done has no stack: what was opened ran.
LEMMA FinalsHold ==
  ASSUME TypeOK, RegionInv, FinalInv
  PROVE  FinalizersRan
<1> SUFFICES ASSUME NEW f \in Fiber, status[f] = "done"
             PROVE  /\ Len(ran[f]) = opened[f]
                    /\ \A n \in 1..opened[f] : \E i \in 1..Len(ran[f]) : ran[f][i] = n
  BY DEF FinalizersRan
<1>1. stack[f] = <<>> /\ ran[f] \in Seq(Nat) /\ opened[f] \in Nat
  BY DEF TypeOK, RegionInv, Unstacked
<1>2. Finals(<<>>, ran[f], opened[f])
  BY <1>1 DEF FinalInv
<1> QED BY <1>1, <1>2, FinalsDone

----------------------------------------------------------------------------
(* The end of a fiber.                                                      *)

EndInv == DoomInv /\ RootInv /\ CauseInv /\ RegionInv /\ FinalInv

\* However a fiber ends, it has run its finalizers, each once, has left its
\* regions, and says why it failed.
THEOREM EndsProperly == Spec => []EndsInOrder
<1>1. Init => EndInv
  <2>1. Init => RootInv /\ DoomInv
    BY DEF Init, RootInv, DoomInv, Active
  <2> QED BY <2>1, CauseInit, RegionInit, FinalInit DEF EndInv
<1>2. FiberInv /\ EndInv /\ [Next]_vars => EndInv'
  BY DoomNext, RootNext, CauseNext, RegionNext, FinalNext DEF FiberInv, TypeInv, EndInv
<1>3. FiberInv /\ EndInv => EndsInOrder
  BY CausesHold, RegionsHold, FinalsHold DEF FiberInv, TypeInv, EndInv, EndsInOrder
<1> QED BY <1>1, <1>2, <1>3, FiberInit, FiberNext, PTL DEF Spec


----------------------------------------------------------------------------
(* Awaiting.  A fiber that awaits another one has told it so, until its      *)
(* callback is called: the message is in the mailbox, the observer among     *)
(* the observers, or setExitValue has the observer before it.                *)

\* A fiber blocks on another one after it initiated an async operation.
BlockInv == \A f \in Fiber : blockingOn[f] # NoFiber => asyncs[f] > 0

AwaitObserver(f, i) == [kind |-> "await", by |-> f, id |-> i]

\* Fiber g has the observer o, and will call it.
WillCall(g, o) == \E i \in DOMAIN observers[g] :
                    /\ observers[g][i] = o
                    /\ status[g] # "done" \/ (current = g /\ pc = "notify" /\ i <= next)

\* Fiber g knows that f waits for it.
Knows(g, f) == \/ Holds(mailbox[g], Observe(f, asyncs[f]))
               \/ WillCall(g, AwaitObserver(f, asyncs[f]))

AwaitInv == \A f \in Fiber : blockingOn[f] # NoFiber /\ asyncs[f] \notin called[f]
                               => Knows(blockingOn[f], f)

\* A fiber is resumed, or goes on waiting for what it waits for.
Resumes(f) == blockingOn'[f] = NoFiber /\ called[f] \subseteq called'[f]
Waits(f)   == asyncs'[f] = asyncs[f] /\ blockingOn'[f] = blockingOn[f] /\ called[f] \subseteq called'[f]

\* The observer that setExitValue calls.
LEMMA Notified ==
  ASSUME TypeOK, InRange, NEW f \in Fiber, Notify(f)
  PROVE  observers[f][next] \in Observer /\ next \in DOMAIN observers[f]
<1>1. observers[f] \in Seq(Observer) /\ next \in Nat
  BY DEF TypeOK
<1>2. next \in 1..Len(observers[f])
  BY <1>1, LenProperties DEF Notify, InRange
<1> QED BY <1>1, <1>2, LenProperties

\* What becomes of the operation a fiber is suspended on.
LEMMA AsyncStep ==
  ASSUME TypeOK, InRange, [Next]_vars, NEW f \in Fiber
  PROVE  Waits(f) \/ EvalAwaitAsync(f) \/ Resumes(f)
<1>0. /\ asyncs \in [Fiber -> Nat] /\ called \in [Fiber -> SUBSET Nat]
      /\ blockingOn \in [Fiber -> Fiber \cup {NoFiber}]
  BY DEF TypeOK
<1>1. ASSUME UNCHANGED <<asyncs, blockingOn>>, UNCHANGED called \/ \E g \in Fiber, i \in Nat : MarkCalled(g, i)
      PROVE  Waits(f)
  BY <1>0, <1>1 DEF Waits, MarkCalled
<1>2. ASSUME NEW h \in Fiber, Step(h)
      PROVE  Waits(f) \/ EvalAwaitAsync(f) \/ Resumes(f)
  <2>1. CASE \/ Finally(h) \/ DrainDone(h) \/ DrainYieldNow(h) \/ LoopInterrupt(h) \/ ForcedYield(h)
             \/ Finish(h) \/ FlatMap(h) \/ CatchAll(h) \/ EnterRegion(h) \/ OnExit(h)
             \/ YieldOp(h) \/ Fork(h) \/ InterruptAsFork(h) \/ AwaitOp(h)
    BY <1>1, <2>1 DEF Finally, DrainDone, DrainYieldNow, LoopInterrupt, ForcedYield,
       Finish, FlatMap, CatchAll, EnterRegion, OnExit, YieldOp, Fork, InterruptAsFork, AwaitOp, async
  <2>2. CASE \/ EvalYield(h) \/ EvalRegion(h) \/ EvalAwait(h) \/ EvalJoin(h)
             \/ EvalSuccess(h) \/ EvalFailure(h) \/ CleanupAfterSuccess(h)
             \/ CleanupAfterFailure(h) \/ LeaveChildren(h) \/ LeaveMessages(h)
             \/ SetExitValue(h) \/ NotifyDone(h)
    BY <1>1, <2>2 DEF EvalYield, EvalRegion, EvalAwait, EvalJoin, EvalSuccess, EvalFailure,
       CleanupAfterSuccess, CleanupAfterFailure, LeaveChildren, LeaveMessages, SetExitValue,
       NotifyDone, async
  <2>3. CASE DrainInterrupt(h)
    <3>1. interruptor[h] \in Nat
      BY DEF TypeOK
    <3> QED BY <1>1, <2>3, <3>1 DEF DrainInterrupt
  <2>4. CASE DrainResume(h)
    BY <1>0, <2>4 DEF DrainResume, Resumes, Waits
  <2>5. CASE DrainStateful(h) \/ LoopStateful(h)
    <3>1. Head(mailbox[h]) \in Message
      BY <2>5, BoxType DEF DrainStateful, LoopStateful, IsStateful
    <3>2. UNCHANGED <<asyncs, blockingOn>> /\ Stateful(h, Head(mailbox[h]))
      BY <2>5 DEF DrainStateful, LoopStateful
    <3> QED BY <1>1, <3>1, <3>2, MessageParts DEF Stateful
  <2>6. CASE SuspendAsync(h)
    BY <1>0, <2>6 DEF SuspendAsync, Initiate, MarkCalled, Resumes, Waits
  <2>7. CASE Complete(h)
    BY <1>0, <1>1, <2>7 DEF Complete
  <2>8. CASE EvalAwaitAsync(h)
    BY <1>0, <2>8 DEF EvalAwaitAsync, Initiate, Waits
  <2>9. CASE Notify(h)
    <3> DEFINE o == observers[h][next]
    <3>1. o.kind = "await" => o.by \in Fiber /\ o.id \in Nat
      BY <2>9, Notified, ObserverParts
    <3>2. UNCHANGED <<asyncs, blockingOn>>
          /\ (UNCHANGED called \/ (o.kind = "await" /\ MarkCalled(o.by, o.id)))
      BY <2>9 DEF Notify
    <3> QED BY <1>1, <3>1, <3>2
  <2> QED BY <1>2, <2>1, <2>2, <2>3, <2>4, <2>5, <2>6, <2>7, <2>8, <2>9 DEF Step, Program
<1>3. CASE StartRoot \/ (\E h \in Fiber : Run(h) \/ OutsideInterrupts(h)) \/ UNCHANGED vars
  BY <1>1, <1>3 DEF StartRoot, Run, OutsideInterrupts, vars, async
<1>4. CASE \E h \in Fiber : OutsideCompletes(h)
  BY <1>0, <1>1, <1>4 DEF OutsideCompletes
<1> QED BY <1>2, <1>3, <1>4 DEF Next, Outside

\* Observers change when a message that is a closure is taken.
LEMMA ObserversStep ==
  ASSUME [Next]_vars
  PROVE  \/ observers' = observers
         \/ \E h \in Fiber : (DrainStateful(h) \/ LoopStateful(h)) /\ status' = status
<1>1. ASSUME NEW h \in Fiber, Step(h), ~DrainStateful(h), ~LoopStateful(h)
      PROVE  observers' = observers
  <2>1. CASE \/ Finally(h) \/ DrainDone(h) \/ DrainYieldNow(h) \/ DrainInterrupt(h)
             \/ DrainResume(h) \/ LoopInterrupt(h) \/ ForcedYield(h)
    BY <2>1 DEF Finally, DrainDone, DrainYieldNow, DrainInterrupt, DrainResume,
       LoopInterrupt, ForcedYield, family
  <2>2. CASE Program(h)
    BY <2>2 DEF Program, Finish, FlatMap, CatchAll, EnterRegion, OnExit, SuspendAsync,
       YieldOp, Fork, InterruptAsFork, AwaitOp, Complete, family
  <2>3. CASE \/ EvalYield(h) \/ EvalRegion(h) \/ EvalAwait(h) \/ EvalAwaitAsync(h) \/ EvalJoin(h)
             \/ EvalSuccess(h) \/ EvalFailure(h) \/ CleanupAfterSuccess(h)
             \/ CleanupAfterFailure(h)
    BY <2>3 DEF EvalYield, EvalRegion, EvalAwait, EvalAwaitAsync, EvalJoin, EvalSuccess,
       EvalFailure, CleanupAfterSuccess, CleanupAfterFailure, family
  <2>4. CASE LeaveChildren(h) \/ LeaveMessages(h) \/ SetExitValue(h) \/ Notify(h) \/ NotifyDone(h)
    BY <2>4 DEF LeaveChildren, LeaveMessages, SetExitValue, Notify, NotifyDone, family
  <2> QED BY <1>1, <2>1, <2>2, <2>3, <2>4 DEF Step
<1>2. CASE StartRoot \/ Outside \/ (\E h \in Fiber : Run(h)) \/ UNCHANGED vars
  BY <1>2 DEF StartRoot, Outside, OutsideCompletes, OutsideInterrupts, Run, family, vars
<1>3. ASSUME NEW h \in Fiber, DrainStateful(h) \/ LoopStateful(h)
      PROVE  status' = status
  BY <1>3 DEF DrainStateful, LoopStateful
<1> QED BY <1>1, <1>2, <1>3 DEF Next

\* An observer stays when another one is withdrawn, or one is added.
LEMMA HoldsWithout ==
  ASSUME NEW S, NEW s \in Seq(S), NEW x, NEW o, Holds(s, x), x # o
  PROVE  Holds(Without(s, o), x)
<1>1. CASE ~\E i \in DOMAIN s : s[i] = o
  BY <1>1 DEF Without
<1>2. CASE \E i \in DOMAIN s : s[i] = o
  <2> DEFINE k == CHOOSE j \in DOMAIN s : s[j] = o
             a == SubSeq(s, 1, k - 1)
             b == SubSeq(s, k + 1, Len(s))
  <2>1. Without(s, o) = a \o b
    BY <1>2 DEF Without
  <2>2. /\ k \in 1..Len(s) /\ s[k] = o /\ Len(s) \in Nat /\ DOMAIN s = 1..Len(s)
        /\ \A j \in 1..Len(s) : s[j] \in S
    BY <1>2, LenProperties
  <2> HIDE DEF k
  <2>3. a \in Seq(S) /\ DOMAIN a = 1..(k - 1) /\ \A j \in 1..(k - 1) : a[j] = s[j]
    <3>1. 1 \in Int /\ k - 1 \in Int /\ \A j \in 1..(k - 1) : s[j] \in S
      BY <2>2
    <3>2. a \in Seq(S) /\ Len(a) = k - 1 /\ \A j \in 1..(k - 1) : a[j] = s[j]
      BY <2>2, <3>1, SubSeqProperties
    <3> HIDE DEF a
    <3> QED BY <3>2, LenProperties
  <2>4. b \in Seq(S) /\ DOMAIN b = 1..(Len(s) - k) /\ \A j \in 1..(Len(s) - k) : b[j] = s[k + j]
    <3>1. k + 1 \in Int /\ Len(s) \in Int /\ \A j \in (k + 1)..Len(s) : s[j] \in S
      BY <2>2
    <3>2. /\ b \in Seq(S) /\ Len(b) = IF k + 1 <= Len(s) THEN Len(s) - (k + 1) + 1 ELSE 0
          /\ \A j \in 1..(Len(s) - (k + 1) + 1) : b[j] = s[(k + 1) + j - 1]
      BY <3>1, SubSeqProperties
    <3> HIDE DEF b
    <3> DEFINE n == Len(s)
    <3>0. k \in 1..n /\ n \in Nat
      BY <2>2
    <3>5. Len(b) = IF k + 1 <= n THEN n - (k + 1) + 1 ELSE 0
      BY <3>2
    <3> HIDE DEF n
    <3>6. n - (k + 1) + 1 = n - k /\ Len(b) = n - k
      BY <3>0, <3>5
    <3>3. Len(b) = Len(s) - k /\ Len(s) - (k + 1) + 1 = Len(s) - k
      BY <3>6 DEF n
    <3>4. ASSUME NEW j \in 1..(Len(s) - k)
          PROVE  b[j] = s[k + j]
      <4>1. j \in Int /\ (k + 1) + j - 1 = k + j
        BY <3>0 DEF n
      <4>2. b[j] = s[(k + 1) + j - 1]
        BY <3>2, <3>3
      <4> QED BY <4>1, <4>2
    <3> QED BY <3>2, <3>3, <3>4, LenProperties
  <2> HIDE DEF a, b
  <2>5. PICK i \in DOMAIN s : s[i] = x
    BY DEF Holds
  <2>6. Holds(a, x) \/ Holds(b, x)
    <3>1. CASE i < k
      BY <2>2, <2>3, <2>5, <3>1 DEF Holds
    <3>2. CASE i > k
      <4>1. i - k \in DOMAIN b /\ k + (i - k) = i
        BY <2>2, <2>4, <2>5, <3>2
      <4> QED BY <2>4, <2>5, <4>1 DEF Holds
    <3> QED BY <2>2, <2>5, <3>1, <3>2
  <2>7. Holds(a \o b, x)
    BY <2>3, <2>4, <2>6, HoldsConcat
  <2> QED BY <2>1, <2>7
<1> QED BY <1>1, <1>2

\* What a sequence holds after an append.
LEMMA HoldsAppend ==
  ASSUME NEW S, NEW s \in Seq(S), NEW r \in S, NEW x
  PROVE  Holds(Append(s, r), x) <=> Holds(s, x) \/ r = x
<1> DEFINE u == Append(s, r)
<1>1. /\ Len(s) \in Nat /\ DOMAIN s = 1..Len(s) /\ DOMAIN u = 1..(Len(s) + 1)
      /\ u[Len(s) + 1] = r /\ \A i \in DOMAIN s : u[i] = s[i]
  BY AppendParts
<1> HIDE DEF u
<1>2. Len(s) + 1 \in DOMAIN u /\ \A i \in DOMAIN u : i \in DOMAIN s \/ i = Len(s) + 1
  BY <1>1
<1>3. Holds(u, x) <=> Holds(s, x) \/ r = x
  BY <1>1, <1>2 DEF Holds
<1> QED BY <1>3 DEF u

\* Every step keeps it that a fiber that awaits has initiated an operation.
LEMMA BlockNext ==
  ASSUME TypeOK, InRange, BlockInv, [Next]_vars
  PROVE  BlockInv'
<1> SUFFICES ASSUME NEW f \in Fiber, blockingOn'[f] # NoFiber
             PROVE  asyncs'[f] > 0
  BY DEF BlockInv
<1>1. CASE Waits(f)
  BY <1>1 DEF Waits, BlockInv
<1>2. CASE EvalAwaitAsync(f)
  BY <1>2 DEF EvalAwaitAsync, Initiate, TypeOK
<1> QED BY <1>1, <1>2, AsyncStep DEF Resumes

\* A closure is taken: an observer is found there still, unless it is withdrawn,
\* and the observer of the message is added unless its callback is called.
LEMMA ObserversTold ==
  ASSUME TypeOK, NEW h \in Fiber, DrainStateful(h) \/ LoopStateful(h), NEW g \in Fiber, NEW x,
         \/ Holds(observers[g], x) /\ ~(g = h /\ Head(mailbox[h]).tag = "Unobserve"
                                       /\ AwaitObserver(Head(mailbox[h]).by, Head(mailbox[h]).id) = x)
         \/ /\ g = h /\ Head(mailbox[h]).tag = "Observe" /\ status[h] # "done"
            /\ AwaitObserver(Head(mailbox[h]).by, Head(mailbox[h]).id) = x
  PROVE  Holds(observers'[g], x)
<1> DEFINE m == Head(mailbox[h])
           o == AwaitObserver(m.by, m.id)
           adopts == [kind |-> "child", parent |-> h]
<1>0. observers \in [Fiber -> Seq(Observer)] /\ observers[g] \in Seq(Observer)
  BY DEF TypeOK
<1>1. m \in Message /\ Stateful(h, m)
  BY BoxType DEF DrainStateful, LoopStateful, IsStateful
<1>2. /\ m.tag = "AddChild" => m.child \in Fiber
      /\ m.tag = "Observe" => o \in Observer
  BY <1>1, MessageParts, ObserverParts DEF AwaitObserver
<1>3. adopts \in Observer
  BY ObserverParts
<1>4. \/ /\ m.tag = "AddChild"
         /\ observers' = observers \/ observers' = [observers EXCEPT ![m.child] = Append(@, adopts)]
      \/ m.tag = "Observe" /\ status[h] = "done" /\ observers' = observers
      \/ m.tag = "Observe" /\ status[h] # "done" /\ observers' = [observers EXCEPT ![h] = Append(@, o)]
      \/ m.tag = "Unobserve" /\ observers' = [observers EXCEPT ![h] = Without(@, o)]
  BY <1>1 DEF Stateful, AwaitObserver
<1> HIDE DEF m, o, adopts
<1>5. \/ Holds(observers[g], x) /\ ~(g = h /\ m.tag = "Unobserve" /\ o = x)
      \/ g = h /\ m.tag = "Observe" /\ status[h] # "done" /\ o = x
  BY DEF m, o
<1>6. CASE observers' = observers /\ ~(m.tag = "Observe" /\ status[h] # "done")
  BY <1>5, <1>6
<1>7. CASE m.tag = "AddChild" /\ observers' = [observers EXCEPT ![m.child] = Append(@, adopts)]
  <2>1. observers'[g] = IF g = m.child THEN Append(observers[g], adopts) ELSE observers[g]
    BY <1>0, <1>2, <1>7
  <2>2. Holds(Append(observers[g], adopts), x)
    BY <1>0, <1>3, <1>5, <1>7, HoldsAppend
  <2> QED BY <1>5, <1>7, <2>1, <2>2
<1>8. CASE m.tag = "Observe" /\ observers' = [observers EXCEPT ![h] = Append(@, o)]
  <2>1. observers'[g] = IF g = h THEN Append(observers[g], o) ELSE observers[g]
    BY <1>0, <1>8
  <2>2. Holds(Append(observers[g], o), x) <=> Holds(observers[g], x) \/ o = x
    BY <1>0, <1>2, <1>8, HoldsAppend
  <2> QED BY <1>5, <2>1, <2>2
<1>9. CASE m.tag = "Unobserve" /\ observers' = [observers EXCEPT ![h] = Without(@, o)]
  <2>1. observers'[g] = IF g = h THEN Without(observers[g], o) ELSE observers[g]
    BY <1>0, <1>9
  <2>2. Holds(observers[g], x) /\ (g = h => x # o)
    BY <1>5, <1>9
  <2>3. g = h => Holds(Without(observers[g], o), x)
    BY <1>0, <2>2, HoldsWithout
  <2> QED BY <2>1, <2>2, <2>3
<1> QED BY <1>4, <1>6, <1>7, <1>8, <1>9

\* While a fiber calls its observers nothing else happens.
LEMMA NotifyStep ==
  ASSUME NEW g \in Fiber, current = g, pc = "notify", [Next]_vars
  PROVE  Notify(g) \/ NotifyDone(g) \/ UNCHANGED vars
<1>1. ~StartRoot /\ ~Outside /\ \A h \in Fiber : ~Run(h)
  BY FiberAssumption DEF StartRoot, Outside, OutsideCompletes, OutsideInterrupts, Run
<1>2. ASSUME NEW h \in Fiber, Step(h)
      PROVE  Notify(g) \/ NotifyDone(g)
  <2>1. h = g
    BY <1>2, StepHasThread
  <2>2. CASE Program(h)
    BY <2>2 DEF Program, Finish, FlatMap, CatchAll, EnterRegion, OnExit, SuspendAsync,
       YieldOp, Fork, InterruptAsFork, AwaitOp, Complete, Chooses, Ready, Looping
  <2>3. CASE ~Program(h)
    BY <1>2, <2>1, <2>3 DEF Step, Finally, DrainDone, DrainYieldNow, DrainInterrupt, DrainResume,
       DrainStateful, LoopInterrupt, LoopStateful, ForcedYield, EvalYield, EvalRegion, EvalAwait,
       EvalAwaitAsync, EvalJoin, EvalSuccess, EvalFailure, CleanupAfterSuccess,
       CleanupAfterFailure, LeaveChildren, LeaveMessages, SetExitValue,
       Draining, Ready, Looping, Evaluating, Leaving
  <2> QED BY <2>2, <2>3
<1> QED BY <1>1, <1>2 DEF Next

\* The message of a fiber that waits is taken: it has an observer now, or its
\* callback was called.
LEMMA AwaitTaken ==
  ASSUME TypeOK, NEW f \in Fiber, NEW g \in Fiber, NEW i, Takes(g), mailbox[g] # <<>>,
         Head(mailbox[g]) = Observe(f, i), i \notin called'[f]
  PROVE  WillCall(g, AwaitObserver(f, i))'
<1>1. Head(mailbox[g]).tag = "Observe" /\ Head(mailbox[g]).by = f /\ Head(mailbox[g]).id = i
  BY DEF Observe
<1>2. DrainStateful(g) \/ LoopStateful(g)
  BY <1>1 DEF Takes, DrainYieldNow, DrainResume, DrainInterrupt, LoopInterrupt, HeadIs
<1>3. Stateful(g, Head(mailbox[g])) /\ status' = status
  BY <1>2 DEF DrainStateful, LoopStateful
<1>4. status[g] # "done"
  <2> SUFFICES ASSUME status[g] = "done"
               PROVE  FALSE
    OBVIOUS
  <2>1. MarkCalled(f, i)
    BY <1>1, <1>3 DEF Stateful
  <2> QED BY <2>1 DEF MarkCalled, TypeOK
<1>5. Holds(observers'[g], AwaitObserver(f, i))
  BY <1>1, <1>2, <1>4, ObserversTold
<1> QED BY <1>3, <1>4, <1>5 DEF WillCall, Holds

\* A callback that will be called will be, until it is.
LEMMA AwaitKept ==
  ASSUME FiberInv, [Next]_vars, NEW f \in Fiber, NEW g \in Fiber, NEW i,
         i \notin called'[f], i \notin called[f], i # 0, WillCall(g, AwaitObserver(f, i))
  PROVE  WillCall(g, AwaitObserver(f, i))'
<1> DEFINE o == AwaitObserver(f, i)
<1>0. TypeOK /\ TurnInv /\ IdsInv /\ InRange
  BY DEF FiberInv, TypeInv
<1>1. PICK k \in DOMAIN observers[g] : /\ observers[g][k] = o
                                       /\ status[g] # "done" \/ (current = g /\ pc = "notify" /\ k <= next)
  BY DEF WillCall
<1>2. k \in 1..Len(observers[g]) /\ Len(observers[g]) \in Nat
  BY <1>0, <1>1, LenProperties DEF TypeOK
<1>3. CASE status'[g] # "done"
  <2>1. CASE observers' = observers
    BY <1>1, <1>3, <2>1 DEF WillCall
  <2>2. ASSUME NEW h \in Fiber, DrainStateful(h) \/ LoopStateful(h)
        PROVE  WillCall(g, o)'
    <3> DEFINE m == Head(mailbox[h])
    <3>1. m \in KnownMessage
      BY <1>0, <2>2, HeadKnown DEF DrainStateful, LoopStateful, IsStateful
    <3>2. m.tag = "Unobserve" => m.id \in called[m.by] \cup {0}
      BY <3>1 DEF KnownMessage
    <3>3. AwaitObserver(m.by, m.id) = o => m.by = f /\ m.id = i
      BY DEF AwaitObserver
    <3>4. ~(g = h /\ m.tag = "Unobserve" /\ AwaitObserver(m.by, m.id) = o)
      BY <3>2, <3>3
    <3>5. Holds(observers[g], o)
      BY <1>1 DEF Holds
    <3>6. Holds(observers'[g], o)
      BY <1>0, <2>2, <3>4, <3>5, ObserversTold
    <3> QED BY <1>3, <3>6 DEF WillCall, Holds
  <2> QED BY <2>1, <2>2, ObserversStep
<1>4. CASE status[g] # "done" /\ status'[g] = "done"
  <2>1. SetExitValue(g)
    BY <1>0, <1>4, StatusStep
  <2>2. current' = g /\ pc' = "notify" /\ next' = Len(observers[g]) /\ observers' = observers
    BY <2>1 DEF SetExitValue, Leaving, LastObserver
  <2> QED BY <1>1, <1>2, <2>2 DEF WillCall
<1>5. CASE current = g /\ pc = "notify" /\ k <= next
  <2>1. CASE Notify(g)
    <3>1. k # next
      <4> SUFFICES ASSUME k = next
                   PROVE  FALSE
        OBVIOUS
      <4>1. observers[g][next].kind = "await" /\ observers[g][next].by = f /\ observers[g][next].id = i
        BY <1>1 DEF AwaitObserver
      <4>2. MarkCalled(f, i)
        BY <2>1, <4>1 DEF Notify
      <4> QED BY <1>0, <4>2 DEF MarkCalled, TypeOK
    <3>2. current' = g /\ pc' = "notify" /\ next' = next - 1 /\ observers' = observers
      BY <1>5, <2>1 DEF Notify
    <3>3. k <= next'
      BY <1>0, <1>2, <1>5, <3>1, <3>2 DEF TypeOK
    <3> QED BY <1>1, <3>2, <3>3 DEF WillCall
  <2>2. CASE NotifyDone(g)
    BY <1>2, <1>5, <2>2 DEF NotifyDone
  <2>3. CASE UNCHANGED vars
    BY <1>1, <1>5, <2>3 DEF WillCall, vars, thread, family
  <2> QED BY <1>5, <2>1, <2>2, <2>3, NotifyStep
<1> QED BY <1>1, <1>3, <1>4, <1>5

\* Every step keeps it that somebody will call whom a fiber awaits.
LEMMA AwaitNext ==
  ASSUME FiberInv, BlockInv, AwaitInv, [Next]_vars
  PROVE  AwaitInv'
<1>0. TypeOK /\ InRange
  BY DEF FiberInv, TypeInv
<1> SUFFICES ASSUME NEW f \in Fiber, blockingOn'[f] # NoFiber, asyncs'[f] \notin called'[f]
             PROVE  Knows(blockingOn[f], f)'
  BY DEF AwaitInv
<1>1. CASE EvalAwaitAsync(f)
  <2>1. cur \in Effect /\ cur.op = "AwaitAsync" /\ asyncs[f] + 1 \in Nat
    <3>1. cur \in Effect /\ asyncs[f] \in Nat
      BY <1>0 DEF TypeOK
    <3>2. asyncs[f] + 1 \in Nat
      BY <3>1
    <3> QED BY <1>1, <3>1, <3>2 DEF EvalAwaitAsync
  <2>2. PICK g \in Fiber : g = cur.of
    BY <2>1, EffectParts
  <2>3. PICK i \in Nat : i = asyncs[f] + 1
    BY <2>1
  <2> DEFINE note == Observe(f, i)
  <2>4. blockingOn'[f] = g /\ asyncs'[f] = i
    BY <1>0, <1>1, <2>2, <2>3 DEF EvalAwaitAsync, Initiate, TypeOK
  <2>5. note \in Message
    BY <2>3, MessageConstructors
  <2>6. mailbox'[g] = mailbox[g] \o <<note>> /\ mailbox[g] \in Seq(Message)
    BY <1>0, <1>1, <2>2, <2>3 DEF EvalAwaitAsync, Tell, To, TypeOK
  <2> HIDE DEF note
  <2> DEFINE one == <<note>>
  <2>7. one \in Seq(Message) /\ Holds(one, note) /\ mailbox'[g] = mailbox[g] \o one
    BY <2>5, <2>6 DEF Holds
  <2> HIDE DEF one
  <2>8. Holds(mailbox'[g], note)
    BY <2>6, <2>7, HoldsConcat
  <2> QED BY <2>4, <2>8 DEF Knows, note
<1>2. CASE Waits(f)
  <2>1. PICK i \in Nat : i = asyncs[f]
    BY <1>0 DEF TypeOK
  <2>2. /\ asyncs'[f] = i /\ blockingOn'[f] = blockingOn[f]
        /\ i \notin called[f] /\ i \notin called'[f]
    BY <1>2, <2>1 DEF Waits
  <2>3. PICK g \in Fiber : g = blockingOn[f]
    BY <1>0, <2>2 DEF TypeOK
  <2>5. Knows(g, f) /\ i # 0
    BY <2>1, <2>2, <2>3 DEF BlockInv, AwaitInv
  <2>6. Holds(mailbox[g], Observe(f, i)) \/ WillCall(g, AwaitObserver(f, i))
    BY <2>1, <2>5 DEF Knows
  <2>4. Holds(mailbox'[g], Observe(f, i)) \/ WillCall(g, AwaitObserver(f, i))'
    <3>1. CASE WillCall(g, AwaitObserver(f, i))
      BY <2>2, <2>5, <3>1, AwaitKept
    <3>2. CASE Takes(g) /\ Head(mailbox[g]) = Observe(f, i)
      <4>1. mailbox[g] # <<>>
        BY <3>2 DEF Takes, DrainYieldNow, DrainResume, DrainInterrupt, LoopInterrupt, HeadIs,
           DrainStateful, LoopStateful, IsStateful
      <4> QED BY <1>0, <2>2, <3>2, <4>1, AwaitTaken
    <3>3. CASE Holds(mailbox[g], Observe(f, i)) /\ ~(Takes(g) /\ Head(mailbox[g]) = Observe(f, i))
      BY <1>0, <3>3, MailKept
    <3> QED BY <2>6, <3>1, <3>2, <3>3
  <2> QED BY <2>2, <2>3, <2>4 DEF Knows
<1> QED BY <1>0, <1>1, <1>2, AsyncStep DEF Resumes

\* A fiber that waits for another one is known to it, or about to be: whatever
\* the order of await, exit and interruption, the waiter is called.
THEOREM NoAwaiterIsLost == Spec => []AwaitersKnown
<1>1. Init => BlockInv /\ AwaitInv
  BY DEF Init, BlockInv, AwaitInv
<1>2. FiberInv /\ BlockInv /\ AwaitInv /\ [Next]_vars => BlockInv' /\ AwaitInv'
  BY BlockNext, AwaitNext DEF FiberInv, TypeInv
<1>3. AwaitInv => AwaitersKnown
  BY DEF AwaitInv, AwaitersKnown, Knows, Holds, WillCall, AwaitObserver
<1> QED BY <1>1, <1>2, <1>3, FiberInit, FiberNext, PTL DEF Spec


----------------------------------------------------------------------------
(* Callbacks.  Who starts a run loop, who initiates an operation, and who    *)
(* calls the callback of one.                                                *)

\* A step of a fiber keeps its thread or gives it up, and a run loop starts when a
\* Resume is taken.
LEMMA ThreadKept ==
  ASSUME NEW f \in Fiber, Step(f)
  PROVE  /\ current' \in {f, NoFiber}
         /\ pc' \in {"loop", "cont"} => pc \in {"loop", "cont"} \/ DrainResume(f)
<1> USE DEF GoTo, Release, AfterEvaluate, thread
<1>0. current = f
  BY StepHasThread
<1>1. CASE Finally(f) \/ DrainDone(f) \/ DrainYieldNow(f) \/ DrainInterrupt(f) \/ DrainResume(f)
  BY <1>0, <1>1 DEF Finally, DrainDone, DrainYieldNow, DrainInterrupt, DrainResume, Draining
<1>2. CASE DrainStateful(f) \/ LoopInterrupt(f) \/ LoopStateful(f) \/ ForcedYield(f)
  BY <1>0, <1>2 DEF DrainStateful, LoopInterrupt, LoopStateful, ForcedYield, Draining, Ready, Looping
<1>3. CASE Program(f)
  BY <1>0, <1>3 DEF Program, Finish, FlatMap, CatchAll, EnterRegion, OnExit, Mask, SuspendAsync, Initiate,
              YieldOp, Fork, InterruptAsFork, AwaitOp, Complete, Chooses, Ready, Looping
<1>4. CASE EvalYield(f) \/ EvalRegion(f) \/ EvalAwait(f) \/ EvalAwaitAsync(f) \/ EvalJoin(f)
  BY <1>0, <1>4 DEF EvalYield, EvalRegion, EvalAwait, Mask, EvalAwaitAsync, Initiate, EvalJoin, Ready, Looping
<1>5. CASE EvalSuccess(f) \/ EvalFailure(f)
  BY <1>0, <1>5 DEF EvalSuccess, EvalFailure, Skip, Use, UseRevert, Evaluating
<1>6. CASE CleanupAfterSuccess(f) \/ CleanupAfterFailure(f)
  BY <1>0, <1>6 DEF CleanupAfterSuccess, CleanupAfterFailure, Evaluating
<1>7. CASE LeaveChildren(f) \/ LeaveMessages(f) \/ SetExitValue(f)
  BY <1>0, <1>7 DEF LeaveChildren, LeaveMessages, SetExitValue, Leaving
<1>8. CASE Notify(f) \/ NotifyDone(f)
  BY <1>0, <1>8 DEF Notify, NotifyDone
<1> QED BY <1>1, <1>2, <1>3, <1>4, <1>5, <1>6, <1>7, <1>8 DEF Step

\* A fiber becomes active when it is resumed or started.
LEMMA ActiveStep ==
  ASSUME [Next]_vars, NEW f \in Fiber, Active(f)'
  PROVE  Active(f) \/ DrainResume(f) \/ (f = Root /\ StartRoot)
<1>0. current' = f /\ pc' \in {"loop", "cont"}
  BY DEF Active
<1>1. ASSUME NEW h \in Fiber, Step(h)
      PROVE  Active(f) \/ DrainResume(f)
  <2>1. h = f /\ current = f
    BY <1>0, <1>1, ThreadKept, StepHasThread, FiberAssumption
  <2> QED BY <1>0, <1>1, <2>1, ThreadKept DEF Active
<1>2. CASE StartRoot
  BY <1>0, <1>2 DEF StartRoot
<1>3. CASE Outside \/ (\E h \in Fiber : Run(h)) \/ UNCHANGED vars
  BY <1>0, <1>3, FiberAssumption
     DEF Outside, OutsideCompletes, OutsideInterrupts, Run, vars, thread, Active
<1> QED BY <1>1, <1>2, <1>3 DEF Next

\* What is left alone of an async operation of fiber f.
AsyncStill(f) == /\ asyncs'[f] = asyncs[f] /\ blockingOn'[f] = blockingOn[f]
                 /\ interruptor'[f] \in {0, interruptor[f]}

\* What a fiber waits for is changed by its own steps.
LEMMA AsyncOwner ==
  ASSUME TypeOK, [Next]_vars, NEW f \in Fiber
  PROVE  AsyncStill(f) \/ EvalAwaitAsync(f) \/ SuspendAsync(f) \/ DrainResume(f)
<1>0. /\ asyncs \in [Fiber -> Nat] /\ interruptor \in [Fiber -> Nat]
      /\ blockingOn \in [Fiber -> Fiber \cup {NoFiber}]
  BY DEF TypeOK
<1>1. ASSUME UNCHANGED <<asyncs, blockingOn>>,
             UNCHANGED interruptor \/ \E h \in Fiber : interruptor' = [interruptor EXCEPT ![h] = 0]
      PROVE  AsyncStill(f)
  BY <1>0, <1>1 DEF AsyncStill
<1>2. ASSUME NEW h \in Fiber, Step(h), ~EvalAwaitAsync(h), ~SuspendAsync(h), ~DrainResume(h)
      PROVE  AsyncStill(f)
  <2>1. CASE \/ Finally(h) \/ DrainDone(h) \/ DrainYieldNow(h) \/ DrainInterrupt(h)
             \/ DrainStateful(h) \/ LoopStateful(h) \/ LoopInterrupt(h) \/ ForcedYield(h)
    BY <1>1, <2>1 DEF Finally, DrainDone, DrainYieldNow, DrainInterrupt, DrainStateful,
       LoopStateful, LoopInterrupt, ForcedYield, async
  <2>2. CASE Program(h)
    BY <1>1, <1>2, <2>2 DEF Program, Finish, FlatMap, CatchAll, EnterRegion, OnExit,
       YieldOp, Fork, InterruptAsFork, AwaitOp, Complete, async
  <2>3. CASE \/ EvalYield(h) \/ EvalRegion(h) \/ EvalAwait(h) \/ EvalJoin(h)
             \/ EvalSuccess(h) \/ EvalFailure(h) \/ CleanupAfterSuccess(h)
             \/ CleanupAfterFailure(h) \/ LeaveChildren(h) \/ LeaveMessages(h)
             \/ SetExitValue(h) \/ Notify(h) \/ NotifyDone(h)
    BY <1>1, <2>3 DEF EvalYield, EvalRegion, EvalAwait, EvalJoin, EvalSuccess, EvalFailure,
       CleanupAfterSuccess, CleanupAfterFailure, LeaveChildren, LeaveMessages, SetExitValue,
       Notify, NotifyDone, async
  <2> QED BY <1>2, <2>1, <2>2, <2>3 DEF Step
<1>3. ASSUME NEW h \in Fiber, h # f, EvalAwaitAsync(h) \/ SuspendAsync(h) \/ DrainResume(h)
      PROVE  AsyncStill(f)
  <2>1. asyncs'[f] = asyncs[f] /\ blockingOn'[f] = blockingOn[f] /\ interruptor'[f] = interruptor[f]
    BY <1>0, <1>3 DEF EvalAwaitAsync, SuspendAsync, DrainResume, Initiate
  <2> QED BY <2>1 DEF AsyncStill
<1>4. CASE StartRoot \/ Outside \/ (\E h \in Fiber : Run(h)) \/ UNCHANGED vars
  BY <1>1, <1>4 DEF StartRoot, Outside, OutsideCompletes, OutsideInterrupts, Run, async, vars
<1> QED BY <1>2, <1>3, <1>4 DEF Next

\* Why the callback of operation i of fiber f is called: it was registered by
\* someone who calls it at once, f was interrupted, somebody outside holds it, or
\* the fiber that f waits for has ended.
CalledBy(f, i) ==
  \/ SuspendAsync(f) /\ i = asyncs[f] + 1
  \/ DrainInterrupt(f) /\ i = interruptor[f] /\ i # 0
  \/ HoldsCallback(f) /\ i = asyncs[f]
  \/ \E g \in Fiber : /\ status[g] = "done" /\ mailbox[g] # <<>>
                      /\ Head(mailbox[g]) = Observe(f, i)
  \/ \E g \in Fiber : /\ Notify(g) /\ next \in DOMAIN observers[g]
                      /\ observers[g][next] = AwaitObserver(f, i)

\* A callback is called by the one that completes it, by an observer, or from
\* outside.
LEMMA CalledStep ==
  ASSUME TypeOK, InRange, [Next]_vars, NEW f \in Fiber, NEW i \in called'[f], i \notin called[f]
  PROVE  CalledBy(f, i)
<1>0. called \in [Fiber -> SUBSET Nat] /\ called' # called
  BY DEF TypeOK
<1>1. ASSUME NEW h \in Fiber, NEW k, MarkCalled(h, k)
      PROVE  h = f /\ k = i
  BY <1>0, <1>1 DEF MarkCalled
<1>2. CASE \E h \in Fiber : DrainInterrupt(h)
  <2>1. PICK h \in Fiber : DrainInterrupt(h)
    BY <1>2
  <2>2. interruptor[h] # 0 /\ MarkCalled(h, interruptor[h])
    BY <1>0, <2>1 DEF DrainInterrupt
  <2> QED BY <1>1, <2>1, <2>2 DEF CalledBy
<1>3. CASE \E h \in Fiber : DrainStateful(h) \/ LoopStateful(h)
  <2>1. PICK h \in Fiber : DrainStateful(h) \/ LoopStateful(h)
    BY <1>3
  <2> DEFINE m == Head(mailbox[h])
  <2>2. m \in Message /\ mailbox[h] # <<>> /\ Stateful(h, m)
    BY <2>1, BoxType DEF DrainStateful, LoopStateful, IsStateful
  <2>3. m.tag = "Observe" /\ status[h] = "done" /\ MarkCalled(m.by, m.id)
    BY <1>0, <2>2 DEF Stateful
  <2>4. m = Observe(m.by, m.id) /\ m.by \in Fiber
    <3> HIDE DEF m
    <3> QED BY <2>2, <2>3 DEF Message, Observe
  <2>5. m.by = f /\ m.id = i
    BY <1>1, <2>3, <2>4
  <2> QED BY <2>2, <2>3, <2>4, <2>5 DEF CalledBy
<1>4. CASE \E h \in Fiber : Notify(h)
  <2>1. PICK h \in Fiber : Notify(h)
    BY <1>4
  <2> DEFINE o == observers[h][next]
  <2>2. o \in Observer /\ next \in DOMAIN observers[h]
    BY <2>1, Notified
  <2>3. o.kind = "await" /\ MarkCalled(o.by, o.id)
    BY <1>0, <2>1 DEF Notify
  <2>4. o = AwaitObserver(o.by, o.id) /\ o.by \in Fiber
    <3> HIDE DEF o
    <3> QED BY <2>2, <2>3 DEF Observer, AwaitObserver
  <2>5. o.by = f /\ o.id = i
    BY <1>1, <2>3, <2>4
  <2> QED BY <2>1, <2>2, <2>4, <2>5 DEF CalledBy
<1>5. CASE \E h \in Fiber : SuspendAsync(h) \/ Complete(h) \/ OutsideCompletes(h)
  <2>1. ASSUME NEW h \in Fiber, SuspendAsync(h)
        PROVE  SuspendAsync(f) /\ i = asyncs[f] + 1
    BY <1>0, <1>1, <2>1 DEF SuspendAsync
  <2>2. ASSUME NEW h \in Fiber, Complete(h) \/ OutsideCompletes(h)
        PROVE  HoldsCallback(f) /\ i = asyncs[f]
    BY <1>0, <1>1, <2>2 DEF Complete, OutsideCompletes
  <2> QED BY <1>5, <2>1, <2>2 DEF CalledBy
<1>6. ASSUME NEW h \in Fiber, Step(h),
             ~(DrainInterrupt(h) \/ DrainStateful(h) \/ LoopStateful(h) \/ Notify(h)),
             ~(SuspendAsync(h) \/ Complete(h))
      PROVE  called' = called
  <2>1. CASE \/ Finally(h) \/ DrainDone(h) \/ DrainYieldNow(h) \/ DrainResume(h)
             \/ LoopInterrupt(h) \/ ForcedYield(h)
    BY <2>1 DEF Finally, DrainDone, DrainYieldNow, DrainResume, LoopInterrupt, ForcedYield, async
  <2>2. CASE Program(h)
    BY <1>6, <2>2 DEF Program, Finish, FlatMap, CatchAll, EnterRegion, OnExit,
       YieldOp, Fork, InterruptAsFork, AwaitOp, async
  <2>3. CASE \/ EvalYield(h) \/ EvalRegion(h) \/ EvalAwait(h) \/ EvalJoin(h) \/ EvalAwaitAsync(h)
             \/ EvalSuccess(h) \/ EvalFailure(h) \/ CleanupAfterSuccess(h)
             \/ CleanupAfterFailure(h) \/ LeaveChildren(h) \/ LeaveMessages(h)
             \/ SetExitValue(h) \/ NotifyDone(h)
    BY <2>3 DEF EvalYield, EvalRegion, EvalAwait, EvalJoin, EvalAwaitAsync, EvalSuccess, EvalFailure,
       CleanupAfterSuccess, CleanupAfterFailure, LeaveChildren, LeaveMessages, SetExitValue,
       NotifyDone, async
  <2> QED BY <1>6, <2>1, <2>2, <2>3 DEF Step
<1>7. ASSUME StartRoot \/ (\E h \in Fiber : Run(h) \/ OutsideInterrupts(h)) \/ UNCHANGED vars
      PROVE  called' = called
  BY <1>7 DEF StartRoot, OutsideInterrupts, Run, async, vars
<1> QED BY <1>0, <1>2, <1>3, <1>4, <1>5, <1>6, <1>7 DEF Next, Outside


\* While a fiber runs, or is new, it waits for nothing that can be interrupted.
IdleInv == \A f \in Fiber : Active(f) \/ status[f] = "new" => interruptor[f] = 0

\* Callbacks that were called are of operations that were initiated.
CalledInv == \A f \in Fiber : called[f] \subseteq 0..asyncs[f]

\* Only a fiber that has ended calls its observers.
NotifyInv == pc = "notify" => current \in Fiber /\ status[current] = "done"

\* No fiber is resumed with the join of its children.
ResumingMessage == {m \in Message : m.tag = "Resume" => m.effect.op # "Join"}
ResumeInv       == mailbox \in [Fiber -> Seq(ResumingMessage)]

\* Only the fiber that f waits for has the observer of its operation.
Heard(g, f) == \/ Holds(mailbox[g], Observe(f, asyncs[f]))
               \/ Holds(observers[g], AwaitObserver(f, asyncs[f]))
ObserveInv  == \A f, g \in Fiber : asyncs[f] \notin called[f] /\ Heard(g, f) => blockingOn[f] = g

CallInv == IdleInv /\ CalledInv /\ NotifyInv /\ ResumeInv /\ ObserveInv

\* Every step keeps it that a fiber that runs, or is new, waits for nothing.
LEMMA IdleNext ==
  ASSUME FiberInv, IdleInv, [Next]_vars
  PROVE  IdleInv'
<1> SUFFICES ASSUME NEW f \in Fiber, Active(f)' \/ status'[f] = "new"
             PROVE  interruptor'[f] = 0
  BY DEF IdleInv
<1>0. TypeOK /\ TurnInv /\ Turn(f) /\ interruptor[f] \in Nat
  BY DEF FiberInv, TypeInv, TurnInv, TypeOK
<1>1. CASE EvalAwaitAsync(f) \/ SuspendAsync(f)
  <2>1. Active(f)
    BY <1>1 DEF EvalAwaitAsync, SuspendAsync, Chooses, Ready, Looping, Active
  <2>2. pc' \notin {"loop", "cont"} /\ status' = status
    BY <1>1 DEF EvalAwaitAsync, SuspendAsync, Initiate, GoTo, AfterEvaluate, family
  <2> QED BY <1>0, <2>1, <2>2 DEF Active, Turn
<1>2. CASE DrainResume(f)
  BY <1>0, <1>2 DEF DrainResume, TypeOK
<1>3. CASE AsyncStill(f) /\ ~DrainResume(f)
  <2>1. status'[f] = "new" => status[f] = "new"
    BY <1>0, StatusStep
  <2>2. Active(f)' => Active(f) \/ status[f] = "new"
    BY <1>3, ActiveStep DEF StartRoot
  <2> QED BY <1>3, <2>1, <2>2 DEF AsyncStill, IdleInv
<1> QED BY <1>0, <1>1, <1>2, <1>3, AsyncOwner

\* A callback that is called is of an operation that was initiated.
LEMMA CalledIds ==
  ASSUME FiberInv, NEW f \in Fiber, NEW i, CalledBy(f, i), ~SuspendAsync(f)
  PROVE  i \in 0..asyncs[f]
<1>0. TypeOK /\ IdsInv /\ asyncs[f] \in Nat
  BY DEF FiberInv, TypeInv, TypeOK
<1>1. CASE i = interruptor[f] \/ i = asyncs[f]
  BY <1>0, <1>1 DEF IdsInv, TypeOK
<1>2. ASSUME NEW g \in Fiber, mailbox[g] # <<>>, Head(mailbox[g]) = Observe(f, i)
      PROVE  i \in 1..asyncs[f]
  <2>1. Observe(f, i) \in KnownMessage
    BY <1>0, <1>2, HeadKnown
  <2> QED BY <2>1 DEF KnownMessage, Observe
<1>3. ASSUME NEW g \in Fiber, next \in DOMAIN observers[g], observers[g][next] = AwaitObserver(f, i)
      PROVE  i \in 1..asyncs[f]
  <2>1. observers[g] \in Seq(KnownObserver)
    BY <1>0 DEF IdsInv
  <2>2. AwaitObserver(f, i) \in KnownObserver
    BY <1>3, <2>1, LenProperties
  <2> QED BY <2>2 DEF KnownObserver, AwaitObserver
<1>4. (\E g \in Fiber : mailbox[g] # <<>> /\ Head(mailbox[g]) = Observe(f, i)) => i \in 1..asyncs[f]
  BY <1>2
<1>5. (\E g \in Fiber : next \in DOMAIN observers[g] /\ observers[g][next] = AwaitObserver(f, i))
        => i \in 1..asyncs[f]
  BY <1>3
<1>6. i = interruptor[f] \/ i = asyncs[f] \/ i \in 1..asyncs[f]
  BY <1>4, <1>5 DEF CalledBy
<1> QED BY <1>0, <1>1, <1>6

\* Every step keeps it that callbacks that were called are of operations that
\* were initiated.
LEMMA CalledNext ==
  ASSUME FiberInv, CalledInv, [Next]_vars
  PROVE  CalledInv'
<1> SUFFICES ASSUME NEW f \in Fiber, NEW i \in called'[f]
             PROVE  i \in 0..asyncs'[f]
  BY DEF CalledInv
<1>0. TypeOK /\ InRange /\ asyncs[f] \in Nat
  BY DEF FiberInv, TypeInv, TypeOK
<1>1. asyncs'[f] = asyncs[f] \/ asyncs'[f] = asyncs[f] + 1
  BY <1>0, AsyncOwner
     DEF AsyncStill, EvalAwaitAsync, SuspendAsync, DrainResume, Initiate, TypeOK
<1>2. CASE i \in called[f] \/ ~SuspendAsync(f)
  <2>1. i \in 0..asyncs[f]
    BY <1>0, <1>2, CalledStep, CalledIds DEF CalledInv
  <2> QED BY <1>0, <1>1, <2>1
<1>3. CASE i \notin called[f] /\ SuspendAsync(f)
  <2>1. asyncs'[f] = asyncs[f] + 1 /\ (called' = called \/ MarkCalled(f, asyncs[f] + 1))
    BY <1>0, <1>3 DEF SuspendAsync, Initiate, TypeOK
  <2>2. i = asyncs[f] + 1
    BY <1>0, <1>3, <2>1 DEF MarkCalled, TypeOK
  <2> QED BY <1>0, <2>1, <2>2
<1> QED BY <1>2, <1>3

\* Every step keeps it that only a fiber that has ended calls its observers.
LEMMA NotifyNext ==
  ASSUME FiberInv, NotifyInv, [Next]_vars
  PROVE  NotifyInv'
<1> SUFFICES ASSUME pc' = "notify"
             PROVE  current' \in Fiber /\ status'[current'] = "done"
  BY DEF NotifyInv
<1>0. TypeOK
  BY DEF FiberInv, TypeInv
<1>1. ASSUME NEW f \in Fiber, SetExitValue(f)
      PROVE  current' = f /\ status'[f] = "done"
  BY <1>0, <1>1 DEF SetExitValue, Leaving, TypeOK
<1>2. ASSUME NEW f \in Fiber, Notify(f)
      PROVE  current' = f /\ status'[f] = "done"
  BY <1>2 DEF Notify, NotifyInv
<1>3. CASE StartRoot \/ Outside \/ (\E f \in Fiber : Run(f)) \/ UNCHANGED vars
  BY <1>3 DEF StartRoot, Outside, OutsideCompletes, OutsideInterrupts, Run, vars, thread, family, NotifyInv
<1> QED BY <1>1, <1>2, <1>3, NotifyEntered DEF Next

\* No step resumes a fiber with the join of its children.
LEMMA ResumeNext ==
  ASSUME TypeOK, InRange, TypeOK', ResumeInv, [Next]_vars
  PROVE  ResumeInv'
<1> SUFFICES ASSUME NEW p \in Fiber
             PROVE  mailbox'[p] \in Seq(ResumingMessage)
  BY DEF ResumeInv, TypeOK
<1>1. ASSUME NEW e \in Effect, e.op # "Join"
      PROVE  Resume(e) \in ResumingMessage
  BY <1>1, MessageConstructors DEF ResumingMessage, Resume
<1>2. /\ Prog \in Effect /\ Unit \in Effect /\ Failure(Interrupted) \in Effect
      /\ Failure({"Fail"}) \in Effect
  BY EffectConstructors, ExitConstructors
<1>3. /\ Resume(Prog) \in ResumingMessage /\ Resume(Unit) \in ResumingMessage
      /\ Resume(Failure(Interrupted)) \in ResumingMessage
      /\ Resume(Failure({"Fail"})) \in ResumingMessage
  <2>1. /\ Prog.op # "Join" /\ Unit.op # "Join" /\ Failure(Interrupted).op # "Join"
        /\ Failure({"Fail"}).op # "Join"
    BY DEF Prog, Unit, Success, Failure
  <2> QED BY <1>1, <1>2, <2>1
<1>4. CommonMessage \subseteq ResumingMessage
  BY <1>3, MessageConstructors
     DEF CommonMessage, ResumingMessage, InterruptSignal, YieldNow, AddChild, Unobserve
<1>5. ASSUME LeaveMessages(p)
      PROVE  Resume(ExitEffect(ExitOf(cur))) \in ResumingMessage
  <2>1. ExitEffect(ExitOf(cur)) \in Effect
    BY <1>5, ExitOfType, EffectConstructors DEF LeaveMessages, Leaving, TypeOK
  <2>2. ExitEffect(ExitOf(cur)).op # "Join"
    BY DEF ExitEffect, Success, Failure
  <2> QED BY <1>1, <2>1, <2>2
<1>6. ASSUME NEW f \in Fiber
      PROVE  Observe(f, asyncs[f] + 1) \in ResumingMessage
  <2>1. asyncs[f] \in Nat
    BY DEF TypeOK
  <2>2. Observe(f, asyncs[f] + 1) \in Message
    BY <2>1, MessageConstructors
  <2> QED BY <2>2 DEF ResumingMessage, Observe
<1>7. Sendable(p, ResumingMessage)
  BY <1>3, <1>4, <1>5, <1>6 DEF Sendable
<1> QED BY <1>7, MailIn DEF ResumeInv


\* Nothing is held that is not of the type.
LEMMA HoldsIn ==
  ASSUME NEW S, NEW s \in Seq(S), NEW x, Holds(s, x)
  PROVE  x \in S
<1>1. \A i \in DOMAIN s : s[i] \in S
  BY LenProperties
<1> QED BY <1>1 DEF Holds

\* Withdrawing an observer adds none.
LEMMA WithoutHolds ==
  ASSUME NEW S, NEW s \in Seq(S), NEW o, NEW x, Holds(Without(s, o), x)
  PROVE  Holds(s, x)
<1> DEFINE R == {s[i] : i \in DOMAIN s}
<1>1. s \in Seq(R)
  <2>1. Len(s) \in Nat /\ DOMAIN s = 1..Len(s) /\ s \in [1..Len(s) -> S]
    BY LenProperties
  <2>2. s \in [1..Len(s) -> R]
    BY <2>1
  <2> HIDE DEF R
  <2> QED BY <2>1, <2>2, SeqDef
<1> HIDE DEF R
<1>2. Without(s, o) \in Seq(R)
  BY <1>1, WithoutType
<1>3. x \in R
  BY <1>2, HoldsIn
<1> QED BY <1>3 DEF R, Holds

\* An observer is there because its message was taken.
LEMMA ObserversOld ==
  ASSUME TypeOK, [Next]_vars, NEW g \in Fiber, NEW f \in Fiber, NEW i \in Nat,
         Holds(observers'[g], AwaitObserver(f, i))
  PROVE  Holds(observers[g], AwaitObserver(f, i)) \/ Holds(mailbox[g], Observe(f, i))
<1> DEFINE x == AwaitObserver(f, i)
<1>0. observers \in [Fiber -> Seq(Observer)] /\ observers[g] \in Seq(Observer)
  BY DEF TypeOK
<1>1. ASSUME NEW h \in Fiber, DrainStateful(h) \/ LoopStateful(h)
      PROVE  Holds(observers[g], x) \/ Holds(mailbox[g], Observe(f, i))
  <2> DEFINE m == Head(mailbox[h])
             o == AwaitObserver(m.by, m.id)
             adopts == [kind |-> "child", parent |-> h]
  <2>1. m \in Message /\ Stateful(h, m) /\ mailbox[h] # <<>>
    BY <1>1, BoxType DEF DrainStateful, LoopStateful, IsStateful
  <2>2. /\ m.tag = "AddChild" => m.child \in Fiber
        /\ m.tag = "Observe" => o \in Observer /\ m = Observe(m.by, m.id)
    <3>1. m.tag = "Observe" => m = Observe(m.by, m.id)
      <4> HIDE DEF m
      <4> QED BY <2>1 DEF Message, Observe
    <3> QED BY <2>1, <3>1, MessageParts, ObserverParts DEF AwaitObserver
  <2>3. adopts \in Observer /\ adopts # x
    BY ObserverParts DEF AwaitObserver
  <2>4. \/ observers' = observers
        \/ m.tag = "AddChild" /\ observers' = [observers EXCEPT ![m.child] = Append(@, adopts)]
        \/ m.tag = "Observe" /\ observers' = [observers EXCEPT ![h] = Append(@, o)]
        \/ observers' = [observers EXCEPT ![h] = Without(@, o)]
    BY <2>1 DEF Stateful, AwaitObserver
  <2>8. Holds(observers'[g], x)
    OBVIOUS
  <2>9. m.tag = "Observe" /\ o = x => Holds(mailbox[h], Observe(f, i))
    <3> SUFFICES ASSUME m.tag = "Observe", o = x
                 PROVE  Holds(mailbox[h], Observe(f, i))
      OBVIOUS
    <3>1. m = Observe(f, i)
      BY <2>2 DEF AwaitObserver
    <3>2. mailbox[h] \in Seq(Message)
      BY DEF TypeOK
    <3> HIDE DEF m
    <3> QED BY <2>1, <3>1, <3>2, HoldsTail DEF m
  <2> HIDE DEF m, o, adopts, x
  <2>5. CASE m.tag = "AddChild" /\ observers' = [observers EXCEPT ![m.child] = Append(@, adopts)]
    <3>1. observers'[g] = observers[g] \/ observers'[g] = Append(observers[g], adopts)
      BY <1>0, <2>2, <2>5
    <3>2. Holds(Append(observers[g], adopts), x) => Holds(observers[g], x)
      BY <1>0, <2>3, HoldsAppend
    <3> QED BY <2>8, <3>1, <3>2
  <2>6. CASE m.tag = "Observe" /\ observers' = [observers EXCEPT ![h] = Append(@, o)]
    <3>1. observers'[g] = observers[g] \/ (g = h /\ observers'[g] = Append(observers[g], o))
      BY <1>0, <2>6
    <3>2. Holds(Append(observers[g], o), x) => Holds(observers[g], x) \/ o = x
      BY <1>0, <2>2, <2>6, HoldsAppend
    <3> QED BY <2>6, <2>8, <2>9, <3>1, <3>2
  <2>7. CASE observers' = [observers EXCEPT ![h] = Without(@, o)]
    <3>1. observers'[g] = observers[g] \/ observers'[g] = Without(observers[g], o)
      BY <1>0, <2>7
    <3>2. Holds(Without(observers[g], o), x) => Holds(observers[g], x)
      BY <1>0, WithoutHolds
    <3> QED BY <2>8, <3>1, <3>2
  <2> QED BY <2>4, <2>5, <2>6, <2>7, <2>8
<1> QED BY <1>1, ObserversStep

\* An operation that was not initiated is known to nobody.
LEMMA HeardKnown ==
  ASSUME TypeOK, IdsInv, NEW f \in Fiber, NEW g \in Fiber, NEW i \in Nat,
         Holds(mailbox[g], Observe(f, i)) \/ Holds(observers[g], AwaitObserver(f, i))
  PROVE  i \in 1..asyncs[f]
<1>1. mailbox[g] \in Seq(KnownMessage) /\ observers[g] \in Seq(KnownObserver)
  BY DEF IdsInv
<1>2. Observe(f, i) \in KnownMessage \/ AwaitObserver(f, i) \in KnownObserver
  BY <1>1, HoldsIn
<1> QED BY <1>2 DEF KnownMessage, KnownObserver, Observe, AwaitObserver

\* Callbacks that were called stay so.
LEMMA CalledStays ==
  ASSUME TypeOK, InRange, [Next]_vars, NEW f \in Fiber
  PROVE  called[f] \subseteq called'[f]
<1>1. CASE EvalAwaitAsync(f)
  BY <1>1 DEF EvalAwaitAsync
<1> QED BY <1>1, AsyncStep DEF Waits, Resumes

\* Only the fiber that is awaited is told.
LEMMA ObserveSent ==
  ASSUME TypeOK, InRange, [Next]_vars, NEW f \in Fiber, NEW g \in Fiber, NEW i \in Nat,
         i = asyncs'[f], blockingOn'[f] # g, Holds(mailbox'[g], Observe(f, i))
  PROVE  Holds(mailbox[g], Observe(f, i))
<1> DEFINE x == Observe(f, i)
           S == Message \ {x}
<1>1. Sendable(g, Message)
  BY MessagesSendable
<1>2. CommonMessage \subseteq S
  BY <1>1 DEF Sendable, CommonMessage, Observe, InterruptSignal, YieldNow, Resume, AddChild, Unobserve
<1>3. \A e : Resume(e) # x
  BY DEF Resume, Observe
<1>4. ASSUME NEW h \in Fiber, EvalAwaitAsync(h), cur.of = g
      PROVE  Observe(h, asyncs[h] + 1) # x
  <2>1. CASE h = f
    BY <1>4, <2>1 DEF EvalAwaitAsync, Initiate, TypeOK
  <2>2. CASE h # f
    BY <2>2 DEF Observe
  <2> QED BY <2>1, <2>2
<1> HIDE DEF x
<1>5. Sendable(g, S)
  BY <1>1, <1>2, <1>3, <1>4 DEF Sendable
<1>6. Holds(mailbox'[g], x)
  BY DEF x
<1>7. S \subseteq Message /\ x \notin S
  OBVIOUS
<1> HIDE DEF S
<1>8. Holds(mailbox[g], x)
  BY <1>5, <1>6, <1>7, MailOld
<1> QED BY <1>8 DEF x

\* Every step keeps it that only the fiber that is waited for has the
\* observer.
LEMMA ObserveNext ==
  ASSUME FiberInv, FiberInv', ObserveInv, [Next]_vars
  PROVE  ObserveInv'
<1> SUFFICES ASSUME NEW f \in Fiber, NEW g \in Fiber, asyncs'[f] \notin called'[f], Heard(g, f)',
                    blockingOn'[f] # g
             PROVE  FALSE
  BY DEF ObserveInv
<1>0. /\ TypeOK /\ TypeOK' /\ InRange /\ IdsInv /\ TurnInv
      /\ asyncs[f] \in Nat /\ called[f] \subseteq called'[f]
  <2>1. TypeOK /\ TypeOK' /\ InRange /\ IdsInv /\ TurnInv
    BY DEF FiberInv, TypeInv
  <2> QED BY <2>1, CalledStays DEF TypeOK
<1>1. PICK i \in Nat : i = asyncs'[f]
  BY <1>0 DEF TypeOK
<1>2. Holds(mailbox'[g], Observe(f, i)) \/ Holds(observers'[g], AwaitObserver(f, i))
  BY <1>1 DEF Heard
<1>3. Holds(mailbox[g], Observe(f, i)) \/ Holds(observers[g], AwaitObserver(f, i))
  BY <1>0, <1>1, <1>2, ObserveSent, ObserversOld
<1>4. i \in 1..asyncs[f]
  BY <1>0, <1>3, HeardKnown
<1>5. CASE EvalAwaitAsync(f) \/ SuspendAsync(f)
  <2>1. asyncs'[f] = asyncs[f] + 1
    BY <1>0, <1>5 DEF EvalAwaitAsync, SuspendAsync, Initiate, TypeOK
  <2> QED BY <1>0, <1>1, <1>4, <2>1
<1>6. CASE DrainResume(f)
  <2>1. asyncs'[f] = asyncs[f] /\ called' = called
    BY <1>6 DEF DrainResume
  <2>2. mailbox[f] # <<>> /\ Head(mailbox[f]).tag = "Resume" /\ mailbox[f] \in Seq(Message)
    BY <1>0, <1>6 DEF DrainResume, HeadIs, TypeOK
  <2>3. ~Quiet(mailbox[f])
    BY <2>2, QuietTail
  <2>4. ~Suspended(f)
    BY <1>0, <2>3 DEF TurnInv, Turn
  <2> QED BY <1>0, <1>1, <1>4, <2>1, <2>4 DEF Suspended
<1>7. CASE AsyncStill(f)
  <2>1. asyncs[f] = i /\ blockingOn'[f] = blockingOn[f] /\ i \notin called[f]
    BY <1>0, <1>1, <1>7 DEF AsyncStill
  <2> QED BY <1>3, <2>1 DEF ObserveInv, Heard
<1> QED BY <1>0, <1>5, <1>6, <1>7, AsyncOwner

\* The calls are in order at first,
LEMMA CallInit == Init => CallInv
<1> SUFFICES ASSUME Init
             PROVE  CallInv
  OBVIOUS
<1>1. IdleInv /\ CalledInv /\ NotifyInv /\ ResumeInv
  BY EmptySeq DEF Init, IdleInv, CalledInv, NotifyInv, ResumeInv
<1>2. ObserveInv
  BY DEF Init, ObserveInv, Heard, Holds
<1> QED BY <1>1, <1>2 DEF CallInv

\* ... and every step keeps them so.
LEMMA CallNext ==
  ASSUME FiberInv, FiberInv', CallInv, [Next]_vars
  PROVE  CallInv'
  BY IdleNext, CalledNext, NotifyNext, ResumeNext, ObserveNext DEF CallInv, FiberInv, TypeInv


----------------------------------------------------------------------------
(* Children.  A fiber that leaves awaits its children one after the other,   *)
(* and nothing it meets on the way, below the join of those that are left,   *)
(* makes it forget them: nothing can fail there.                             *)

IsJoin(r) == r.tag = "OnSuccess" /\ r.k.op = "Join"

\* What a fiber that awaits its children evaluates, has on its stack, is told.
CalmEffect  == {e \in Effect : \/ e.op \in {"Await", "AwaitAsync", "Yield"}
                               \/ e.op = "Success" /\ e.value.ok
                               \/ e.op = "Region" /\ e.body.op = "AwaitAsync"}
CalmFrame   == {r \in Frame : \/ r.tag \in {"Continue", "OnStep", "Revert"}
                              \/ r.tag = "OnSuccess" /\ r.k \in CalmEffect
                              \/ r.tag = "Cleanup" /\ r.h.kind = "canceler"}
CalmMessage == {m \in Message : m.tag = "Resume" => m.effect \in CalmEffect}
JoinStack(s) == s # <<>> /\ \A i \in DOMAIN s : IF i = 1 THEN IsJoin(s[i]) ELSE s[i] \in CalmFrame

\* A fiber joins: it is at the join, or in it.
AtJoin(p) == stack[p] = <<>> /\ Active(p) /\ cur.op = "Join"
InJoin(p) == /\ JoinStack(stack[p])
             /\ Active(p) => cur \in CalmEffect
             /\ mailbox[p] \in Seq(CalmMessage)
             /\ Suspended(p) => blockingOn[p] # NoFiber
Joins(p)  == windDown[p] /\ interruptor[p] = 0 /\ (AtJoin(p) \/ InJoin(p))

\* The fibers an effect awaits, and those that fiber p does.
Targets(e) == IF e.op \in {"Await", "AwaitAsync"} THEN {e.of}
              ELSE IF e.op = "Region" THEN (IF e.body.op = "AwaitAsync" THEN {e.body.of} ELSE {})
              ELSE IF e.op = "Join" THEN e.rest ELSE {}
FrameWaits(r, c) == r.tag = "OnSuccess" /\ c \in Targets(r.k)
StackWaits(s, c) == \E i \in DOMAIN s : FrameWaits(s[i], c)
Waited(p, c) == \/ Active(p) /\ c \in Targets(cur)
                \/ StackWaits(stack[p], c)
                \/ Suspended(p) /\ blockingOn[p] = c

\* A frame is pushed.
LEMMA JoinPush ==
  ASSUME NEW s \in Seq(Frame), NEW r \in Frame
  PROVE  /\ s = <<>> /\ IsJoin(r) => JoinStack(Append(s, r))
         /\ JoinStack(s) /\ r \in CalmFrame => JoinStack(Append(s, r))
         /\ \A c : StackWaits(Append(s, r), c) <=> StackWaits(s, c) \/ FrameWaits(r, c)
<1> DEFINE u == Append(s, r)
           n == Len(s)
<1>1. /\ n \in Nat /\ DOMAIN s = 1..n /\ DOMAIN u = 1..(n + 1)
      /\ u[n + 1] = r /\ \A i \in DOMAIN s : u[i] = s[i]
  BY AppendParts
<1>2. s = <<>> <=> n = 0
  BY EmptySeq, <1>1
<1>3. n + 1 \in DOMAIN u /\ u # <<>> /\ \A i \in DOMAIN u : i \in DOMAIN s \/ i = n + 1
  <2>1. DOMAIN <<>> = {}
    BY EmptySeq, LenProperties
  <2>2. n + 1 \in 1..(n + 1) /\ \A i \in 1..(n + 1) : i \in 1..n \/ i = n + 1
    BY <1>1
  <2> QED BY <1>1, <2>1, <2>2
<1>4. n # 0 => n + 1 # 1 /\ 1 \in DOMAIN s
  BY <1>1
<1> HIDE DEF u, n
<1>5. s = <<>> /\ IsJoin(r) => JoinStack(u)
  <2> SUFFICES ASSUME n = 0, IsJoin(r)
               PROVE  JoinStack(u)
    BY <1>2
  <2>1. \A i \in DOMAIN u : i = 1 /\ u[i] = r
    BY <1>1
  <2> QED BY <1>3, <2>1 DEF JoinStack
<1>6. JoinStack(s) /\ r \in CalmFrame => JoinStack(u)
  BY <1>1, <1>2, <1>3, <1>4 DEF JoinStack
<1>7. \A c : StackWaits(u, c) <=> StackWaits(s, c) \/ FrameWaits(r, c)
  BY <1>1, <1>3 DEF StackWaits
<1> QED BY <1>5, <1>6, <1>7 DEF u

\* The top is popped: the join of the rest, or a frame above it.
LEMMA JoinPop ==
  ASSUME NEW s \in Seq(Frame), s # <<>>
  PROVE  LET u == SubSeq(s, 1, Len(s) - 1)
             r == s[Len(s)]
         IN  /\ JoinStack(s) => (u = <<>> /\ IsJoin(r)) \/ (JoinStack(u) /\ r \in CalmFrame)
             /\ \A c : StackWaits(s, c) <=> StackWaits(u, c) \/ FrameWaits(r, c)
<1> DEFINE u == SubSeq(s, 1, Len(s) - 1)
           n == Len(s)
           r == s[n]
<1>1. /\ n \in Nat \ {0} /\ DOMAIN s = 1..n /\ u \in Seq(Frame)
      /\ DOMAIN u = 1..(n - 1) /\ Len(u) = n - 1 /\ \A i \in DOMAIN u : u[i] = s[i]
  BY PopParts
<1>2. u = <<>> <=> n = 1
  BY EmptySeq, <1>1
<1>3. n \in DOMAIN s /\ \A i \in DOMAIN s : i \in DOMAIN u \/ i = n
  BY <1>1
<1>4. \A i \in DOMAIN u : i \in DOMAIN s
  BY <1>1
<1> HIDE DEF u, n
<1>5. JoinStack(s) => (u = <<>> /\ IsJoin(r)) \/ (JoinStack(u) /\ r \in CalmFrame)
  BY <1>1, <1>2, <1>3, <1>4 DEF JoinStack
<1>6. \A c : StackWaits(s, c) <=> StackWaits(u, c) \/ FrameWaits(r, c)
  BY <1>1, <1>3, <1>4 DEF StackWaits
<1> QED BY <1>5, <1>6 DEF u, n

\* What the library evaluates while it joins.
LEMMA CalmEffects ==
  /\ Unit \in CalmEffect /\ Yield \in CalmEffect
  /\ \A c \in Fiber : Await(c) \in CalmEffect /\ AwaitAsync(c) \in CalmEffect
  /\ \A on \in BOOLEAN, c \in Fiber : Region(on, AwaitAsync(c)) \in CalmEffect
<1>1. /\ Unit \in Effect /\ Yield \in Effect
      /\ \A c \in Fiber : Await(c) \in Effect /\ AwaitAsync(c) \in Effect /\ AwaitAsync(c) \in Body
      /\ \A on \in BOOLEAN, b \in Body : Region(on, b) \in Effect
  BY EffectConstructors
<1> QED BY <1>1 DEF CalmEffect, Unit, Success, Ok, Yield, Await, AwaitAsync, Region

\* Messages that start no run loop are calm.
LEMMA QuietCalm ==
  ASSUME NEW q \in Seq(Message), Quiet(q)
  PROVE  q \in Seq(CalmMessage)
<1>1. Len(q) \in Nat /\ DOMAIN q = 1..Len(q) /\ q \in [1..Len(q) -> Message]
  BY LenProperties
<1>2. \A i \in 1..Len(q) : q[i] \in CalmMessage
  BY <1>1 DEF Quiet, CalmMessage
<1>3. q \in [1..Len(q) -> CalmMessage]
  BY <1>1, <1>2
<1> QED BY <1>1, <1>3, SeqDef

\* A fiber that joins is told nothing that fails.
LEMMA CalmMail ==
  ASSUME TypeOK, InRange, [Next]_vars, NEW p \in Fiber, mailbox[p] \in Seq(CalmMessage),
         interruptor[p] = 0, Suspended(p) => blockingOn[p] # NoFiber, status[p] # "new",
         ~LeaveMessages(p)
  PROVE  mailbox'[p] \in Seq(CalmMessage)
<1>1. Resume(Unit) \in CalmMessage
  BY CalmEffects, EffectConstructors, MessageConstructors DEF CalmMessage, Resume
<1>2. CommonMessage \subseteq CalmMessage
  BY <1>1, MessageConstructors
     DEF CommonMessage, CalmMessage, InterruptSignal, YieldNow, AddChild, Unobserve
<1>3. ~(HoldsCallback(p) /\ asyncs[p] \notin called[p])
  BY DEF HoldsCallback, Suspended
<1>4. ASSUME NEW f \in Fiber
      PROVE  Observe(f, asyncs[f] + 1) \in CalmMessage
  <2>1. asyncs[f] \in Nat
    BY DEF TypeOK
  <2>2. Observe(f, asyncs[f] + 1) \in Message
    BY <2>1, MessageConstructors
  <2> QED BY <2>2 DEF CalmMessage, Observe
<1>5. Sendable(p, CalmMessage)
  BY <1>2, <1>3, <1>4 DEF Sendable
<1> QED BY <1>5, MailIn

\* What a fiber that joins is like.
LEMMA JoinsParts ==
  ASSUME FiberInv, Unstacked, NEW p \in Fiber, Joins(p)
  PROVE  /\ status[p] = "live" /\ mailbox[p] \in Seq(CalmMessage)
         /\ Suspended(p) => blockingOn[p] # NoFiber
         /\ ~Interruptible(p) /\ ~MustDie(p)
         /\ Active(p) => ~Suspended(p)
<1>0. TypeOK /\ Turn(p)
  BY DEF FiberInv, TypeInv, TurnInv
<1>1. CASE AtJoin(p)
  <2>1. Quiet(mailbox[p]) /\ status[p] = "live" /\ ~Suspended(p)
    BY <1>0, <1>1 DEF AtJoin, Turn
  <2> QED BY <1>0, <2>1, QuietCalm DEF Joins, Interruptible, MustDie, TypeOK
<1>2. CASE InJoin(p)
  <2>1. stack[p] # <<>>
    BY <1>2 DEF InJoin, JoinStack
  <2>2. status[p] = "live"
    BY <2>1 DEF Unstacked
  <2> QED BY <1>0, <1>2, <2>2 DEF InJoin, Joins, Interruptible, MustDie, Turn
<1> QED BY <1>1, <1>2 DEF Joins

\* Nothing changes the stack of a fiber that has no run loop.
LEMMA StackOwner ==
  ASSUME TypeOK, [Next]_vars, NEW p \in Fiber, ~Active(p)
  PROVE  /\ stack'[p] = stack[p]
         /\ status[p] # "new" => windDown'[p] = windDown[p]
<1>0. stack \in [Fiber -> Seq(Frame)] /\ windDown \in [Fiber -> BOOLEAN]
  BY DEF TypeOK
<1>1. ASSUME NEW h \in Fiber, Step(h)
      PROVE  /\ stack'[p] = stack[p]
             /\ status[p] # "new" => windDown'[p] = windDown[p]
  <2>1. CASE \/ Finally(h) \/ DrainDone(h) \/ DrainYieldNow(h) \/ DrainInterrupt(h) \/ DrainResume(h)
             \/ DrainStateful(h) \/ LoopInterrupt(h) \/ LoopStateful(h) \/ Notify(h) \/ NotifyDone(h)
    BY <2>1 DEF Finally, DrainDone, DrainYieldNow, DrainInterrupt, DrainResume, DrainStateful,
       LoopInterrupt, LoopStateful, Notify, NotifyDone, machine
  <2>2. CASE \/ ForcedYield(h) \/ Program(h) \/ EvalYield(h) \/ EvalRegion(h) \/ EvalAwait(h)
             \/ EvalAwaitAsync(h) \/ EvalJoin(h)
    <3>1. h # p
      BY <2>2 DEF ForcedYield, Program, Finish, FlatMap, CatchAll, EnterRegion, OnExit,
         SuspendAsync, YieldOp, Fork, InterruptAsFork, AwaitOp, Complete, EvalYield, EvalRegion,
         EvalAwait, EvalAwaitAsync, EvalJoin, Chooses, Ready, Looping, Active
    <3>2. CASE ForcedYield(h) \/ EvalYield(h) \/ EvalRegion(h) \/ EvalAwait(h) \/ EvalAwaitAsync(h) \/ EvalJoin(h)
      BY <1>0, <3>1, <3>2 DEF ForcedYield, EvalYield, EvalRegion, EvalAwait, EvalAwaitAsync, EvalJoin,
         Mask, Push, machine
    <3>3. CASE Fork(h)
      BY <1>0, <3>3 DEF Fork
    <3>4. CASE Program(h) /\ ~Fork(h)
      BY <1>0, <3>1, <3>4 DEF Program, Finish, FlatMap, CatchAll, EnterRegion, OnExit,
         SuspendAsync, YieldOp, InterruptAsFork, AwaitOp, Complete, Mask, Push, machine
    <3> QED BY <2>2, <3>2, <3>3, <3>4
  <2>3. CASE \/ EvalSuccess(h) \/ EvalFailure(h) \/ CleanupAfterSuccess(h) \/ CleanupAfterFailure(h)
    <3>1. h # p
      BY <2>3 DEF EvalSuccess, EvalFailure, CleanupAfterSuccess, CleanupAfterFailure, Evaluating, Active
    <3> QED BY <1>0, <2>3, <3>1 DEF EvalSuccess, EvalFailure, CleanupAfterSuccess,
           CleanupAfterFailure, Skip, Use, UseRevert, Pop
  <2>4. CASE LeaveChildren(h) \/ LeaveMessages(h) \/ SetExitValue(h)
    <3>1. h # p
      BY <2>4 DEF LeaveChildren, LeaveMessages, SetExitValue, Leaving, Active
    <3> QED BY <1>0, <2>4, <3>1 DEF LeaveChildren, LeaveMessages, SetExitValue
  <2> QED BY <1>1, <2>1, <2>2, <2>3, <2>4 DEF Step
<1>2. CASE StartRoot \/ Outside \/ (\E h \in Fiber : Run(h)) \/ UNCHANGED vars
  BY <1>2 DEF StartRoot, Outside, OutsideCompletes, OutsideInterrupts, Run, vars, machine
<1> QED BY <1>1, <1>2 DEF Next


\* A fiber joins on as long as it awaits one that has not ended.
JoinsOn(p) == \A c \in Fiber : status[c] # "done" /\ Waited(p, c) => Joins(p)' /\ Waited(p, c)'

\* The callback of the fiber that is awaited is called when that one has ended.
LEMMA JoinWaits ==
  ASSUME FiberInv, CallInv, Unstacked, [Next]_vars, NEW p \in Fiber, Joins(p),
         ~Active(p), ~Active(p)'
  PROVE  JoinsOn(p)
<1>0. /\ TypeOK /\ InRange /\ windDown[p] /\ interruptor[p] = 0 /\ InJoin(p)
      /\ status[p] = "live" /\ mailbox[p] \in Seq(CalmMessage)
      /\ Suspended(p) => blockingOn[p] # NoFiber
      /\ asyncs[p] \in Nat
  BY JoinsParts DEF FiberInv, TypeInv, Joins, AtJoin, TypeOK
<1>1. stack'[p] = stack[p] /\ windDown'[p] = windDown[p]
  BY <1>0, StackOwner
<1>2. AsyncStill(p)
  <2>1. ~EvalAwaitAsync(p) /\ ~SuspendAsync(p)
    BY DEF EvalAwaitAsync, SuspendAsync, Chooses, Ready, Looping, Active
  <2>2. ~DrainResume(p)
    <3> SUFFICES ASSUME DrainResume(p)
                 PROVE  FALSE
      OBVIOUS
    <3> QED BY DEF DrainResume, Draining, GoTo, Active
  <2> QED BY <1>0, <2>1, <2>2, AsyncOwner
<1>3. mailbox'[p] \in Seq(CalmMessage)
  <2>1. ~LeaveMessages(p)
    BY DEF LeaveMessages, Leaving, Active
  <2> QED BY <1>0, <2>1, CalmMail
<1>4. Suspended(p)' => Suspended(p)
  BY <1>0, <1>2, CalledStays DEF AsyncStill, Suspended
<1>5. Joins(p)'
  BY <1>0, <1>1, <1>2, <1>3, <1>4 DEF Joins, InJoin, AsyncStill
<1>6. ASSUME NEW c \in Fiber, status[c] # "done", Suspended(p), blockingOn[p] = c
      PROVE  Suspended(p)'
  <2>1. SUFFICES ASSUME asyncs[p] \in called'[p]
                 PROVE  FALSE
    BY <1>2, <1>6 DEF AsyncStill, Suspended
  <2>2. asyncs[p] \notin called[p] /\ asyncs[p] > 0
    BY <1>6 DEF Suspended
  <2>3. CalledBy(p, asyncs[p])
    BY <1>0, <2>1, <2>2, CalledStep
  <2>4. ASSUME NEW g \in Fiber, Heard(g, p)
        PROVE  g = c
    BY <1>6, <2>2, <2>4 DEF CallInv, ObserveInv
  <2>5. ~SuspendAsync(p) /\ blockingOn[p] # NoFiber
    BY <1>0, <1>6 DEF SuspendAsync, Chooses, Ready, Looping, Active
  <2>6. ASSUME NEW g \in Fiber, status[g] = "done", mailbox[g] # <<>>,
               Head(mailbox[g]) = Observe(p, asyncs[p])
        PROVE  FALSE
    <3>1. mailbox[g] \in Seq(Message)
      BY <1>0 DEF TypeOK
    <3>2. Heard(g, p)
      BY <2>6, <3>1, HoldsTail DEF Heard
    <3> QED BY <1>6, <2>4, <2>6, <3>2
  <2>7. ASSUME NEW g \in Fiber, Notify(g), next \in DOMAIN observers[g],
               observers[g][next] = AwaitObserver(p, asyncs[p])
        PROVE  FALSE
    <3>1. Heard(g, p)
      BY <2>7 DEF Heard, Holds
    <3>2. status[g] = "done"
      BY <2>7 DEF CallInv, NotifyInv, Notify
    <3> QED BY <1>6, <2>4, <3>1, <3>2
  <2> QED BY <1>0, <2>2, <2>3, <2>5, <2>6, <2>7 DEF CalledBy, HoldsCallback
<1>7. ASSUME NEW c \in Fiber, status[c] # "done", Waited(p, c)
      PROVE  Waited(p, c)'
  <2>1. CASE StackWaits(stack[p], c)
    BY <1>1, <2>1 DEF Waited
  <2>2. CASE Suspended(p) /\ blockingOn[p] = c
    BY <1>2, <1>6, <1>7, <2>2 DEF Waited, AsyncStill
  <2> QED BY <1>7, <2>1, <2>2 DEF Waited
<1> QED BY <1>5, <1>7 DEF JoinsOn

\* It is resumed: it is not suspended, and it need not die.
LEMMA JoinResumes ==
  ASSUME FiberInv, Unstacked, [Next]_vars, NEW p \in Fiber, Joins(p), DrainResume(p)
  PROVE  JoinsOn(p)
<1>0. /\ TypeOK /\ InRange /\ Turn(p) /\ windDown[p] /\ interruptor[p] = 0
      /\ status[p] = "live" /\ mailbox[p] \in Seq(CalmMessage) /\ ~MustDie(p)
      /\ asyncs[p] \in Nat
  BY JoinsParts DEF FiberInv, TypeInv, TurnInv, Joins, TypeOK
<1>1. ~Active(p) /\ mailbox[p] # <<>> /\ Head(mailbox[p]).tag = "Resume"
  BY DEF DrainResume, Draining, HeadIs, Active
<1>2. InJoin(p)
  BY <1>1 DEF Joins, AtJoin
<1>3. Head(mailbox[p]) \in CalmMessage
  BY <1>0, <1>1, TailParts
<1>4. ~Suspended(p)
  <2>1. mailbox[p] \in Seq(Message)
    BY <1>0 DEF TypeOK
  <2>2. ~Quiet(mailbox[p])
    BY <1>1, <2>1, QuietTail
  <2> QED BY <1>0, <2>2 DEF Turn
<1>5. cur' \in CalmEffect
  BY <1>0, <1>1, <1>3 DEF DrainResume, GoTo, CalmMessage
<1>6. stack'[p] = stack[p] /\ windDown'[p] = windDown[p]
  BY DEF DrainResume, machine
<1>7. interruptor'[p] = 0 /\ asyncs' = asyncs /\ called' = called
  BY <1>0 DEF DrainResume, TypeOK
<1>8. ~Suspended(p)'
  BY <1>4, <1>7 DEF Suspended
<1>9. mailbox'[p] \in Seq(CalmMessage)
  <2>1. ~LeaveMessages(p)
    BY <1>1 DEF LeaveMessages, Leaving, Active
  <2> QED BY <1>0, <1>4, <2>1, CalmMail
<1>10. Joins(p)'
  BY <1>0, <1>2, <1>5, <1>6, <1>7, <1>8, <1>9 DEF Joins, InJoin
<1>11. \A c : Waited(p, c) => Waited(p, c)'
  BY <1>1, <1>4, <1>6 DEF Waited
<1> QED BY <1>10, <1>11 DEF JoinsOn

\* Its run loop goes on, or gives up the thread.
LEMMA JoinGoes ==
  ASSUME FiberInv, Unstacked, [Next]_vars, NEW p \in Fiber, Joins(p), Active(p),
         AsyncStill(p), ~LeaveMessages(p), windDown'[p] = windDown[p],
         \/ stack'[p] = <<>> /\ Active(p)' /\ cur'.op = "Join"
         \/ JoinStack(stack'[p]) /\ (Active(p)' => cur' \in CalmEffect),
         \A c : c \in Targets(cur) \/ StackWaits(stack[p], c)
                  => (Active(p)' /\ c \in Targets(cur')) \/ StackWaits(stack'[p], c)
  PROVE  JoinsOn(p)
<1>0. /\ TypeOK /\ InRange /\ windDown[p] /\ interruptor[p] = 0
      /\ status[p] = "live" /\ mailbox[p] \in Seq(CalmMessage) /\ ~Suspended(p)
      /\ asyncs[p] \in Nat
  BY JoinsParts DEF FiberInv, TypeInv, Joins, TypeOK
<1>1. mailbox'[p] \in Seq(CalmMessage)
  BY <1>0, CalmMail
<1>2. ~Suspended(p)'
  BY <1>0, CalledStays DEF AsyncStill, Suspended
<1>3. Joins(p)'
  BY <1>0, <1>1, <1>2 DEF Joins, AtJoin, InJoin, AsyncStill
<1>4. \A c : Waited(p, c) => Waited(p, c)'
  BY <1>0 DEF Waited
<1> QED BY <1>3, <1>4 DEF JoinsOn

\* It awaits a fiber: the callback of the new operation was not called.
LEMMA JoinSuspends ==
  ASSUME FiberInv, CallInv, Unstacked, [Next]_vars, NEW p \in Fiber, Joins(p), EvalAwaitAsync(p)
  PROVE  JoinsOn(p)
<1>0. /\ TypeOK /\ InRange /\ windDown[p] /\ interruptor[p] = 0
      /\ status[p] = "live" /\ mailbox[p] \in Seq(CalmMessage) /\ ~Interruptible(p)
      /\ asyncs[p] \in Nat
  BY JoinsParts DEF FiberInv, TypeInv, Joins, TypeOK
<1>1. Active(p) /\ cur.op = "AwaitAsync" /\ ~LeaveMessages(p) /\ InJoin(p) /\ ~Suspended(p)
  <2>1. Active(p) /\ cur.op = "AwaitAsync" /\ ~LeaveMessages(p)
    BY DEF EvalAwaitAsync, Ready, Looping, Active, LeaveMessages, Leaving
  <2> QED BY <2>1, JoinsParts DEF Joins, AtJoin
<1>2. cur.of \in Fiber
  BY <1>0, <1>1, EffectParts DEF TypeOK
<1>3. PICK g \in Fiber : g = cur.of
  BY <1>2
<1>4. /\ stack'[p] = stack[p] /\ windDown'[p] = windDown[p] /\ called' = called
      /\ asyncs'[p] = asyncs[p] + 1 /\ interruptor'[p] = 0 /\ blockingOn'[p] = g
      /\ pc' \notin {"loop", "cont"}
  BY <1>0, <1>3 DEF EvalAwaitAsync, Initiate, machine, GoTo, AfterEvaluate, TypeOK
<1>5. Suspended(p)'
  <2>1. called[p] \subseteq 0..asyncs[p]
    BY DEF CallInv, CalledInv
  <2>2. asyncs[p] + 1 > 0 /\ asyncs[p] + 1 \notin called[p]
    BY <1>0, <2>1
  <2> QED BY <1>4, <2>2 DEF Suspended
<1>6. mailbox'[p] \in Seq(CalmMessage)
  BY <1>0, <1>1, CalmMail
<1>7. g # NoFiber
  BY FiberAssumption
<1>8. Joins(p)'
  BY <1>0, <1>1, <1>4, <1>6, <1>7 DEF Joins, InJoin, Active
<1>9. ASSUME NEW c, Waited(p, c)
      PROVE  Waited(p, c)'
  <2>1. CASE c \in Targets(cur)
    <3>1. c = g
      BY <1>1, <1>3, <2>1 DEF Targets
    <3> QED BY <1>4, <1>5, <3>1 DEF Waited
  <2>2. CASE StackWaits(stack[p], c)
    BY <1>4, <2>2 DEF Waited
  <2> QED BY <1>1, <1>9, <2>1, <2>2 DEF Waited
<1> QED BY <1>8, <1>9 DEF JoinsOn


\* What a fiber that joins may do with its thread.
LEMMA JoinSteps ==
  ASSUME NEW p \in Fiber, Step(p), Active(p), AtJoin(p) \/ InJoin(p)
  PROVE  \/ LoopInterrupt(p) \/ LoopStateful(p) \/ ForcedYield(p)
         \/ AtJoin(p) /\ EvalJoin(p)
         \/ InJoin(p) /\ \/ EvalYield(p) \/ EvalRegion(p) \/ EvalAwait(p) \/ EvalAwaitAsync(p)
                         \/ EvalSuccess(p) \/ CleanupAfterSuccess(p)
<1>1. pc \in {"loop", "cont"}
  BY DEF Active
<1>2. \/ stack[p] = <<>> /\ cur.op = "Join" /\ AtJoin(p)
      \/ stack[p] # <<>> /\ InJoin(p) /\ cur.op \in {"Await", "AwaitAsync", "Yield", "Success", "Region"}
  BY DEF AtJoin, InJoin, JoinStack, CalmEffect
<1>3. ~(Finally(p) \/ DrainDone(p) \/ DrainYieldNow(p) \/ DrainInterrupt(p) \/ DrainResume(p)
        \/ DrainStateful(p) \/ Notify(p) \/ NotifyDone(p))
  BY <1>1 DEF Finally, DrainDone, DrainYieldNow, DrainInterrupt, DrainResume, DrainStateful,
     Draining, Notify, NotifyDone
<1>4. ~Program(p)
  <2>1. cur # Prog
    BY <1>2 DEF Prog
  <2> QED BY <2>1 DEF Program, Finish, FlatMap, CatchAll, EnterRegion, OnExit, SuspendAsync, YieldOp,
         Fork, InterruptAsFork, AwaitOp, Complete, Chooses
<1>5. ~(LeaveChildren(p) \/ LeaveMessages(p) \/ SetExitValue(p))
  <2>1. ~Leaving(p)
    BY <1>2 DEF Leaving, Empty
  <2> QED BY <2>1 DEF LeaveChildren, LeaveMessages, SetExitValue
<1>6. ~(EvalFailure(p) \/ CleanupAfterFailure(p))
  BY <1>2 DEF EvalFailure, CleanupAfterFailure, Evaluating
<1>7. EvalJoin(p) => AtJoin(p)
  BY <1>2 DEF EvalJoin
<1>8. EvalYield(p) \/ EvalRegion(p) \/ EvalAwait(p) \/ EvalAwaitAsync(p) \/ EvalSuccess(p)
        \/ CleanupAfterSuccess(p) => InJoin(p)
  BY <1>2 DEF EvalYield, EvalRegion, EvalAwait, EvalAwaitAsync, EvalSuccess, CleanupAfterSuccess,
     Evaluating, Yield
<1> QED BY <1>3, <1>4, <1>5, <1>6, <1>7, <1>8 DEF Step

\* Messages, and a forced yield.
LEMMA JoinLoop ==
  ASSUME FiberInv, Unstacked, [Next]_vars, NEW p \in Fiber, Joins(p), Active(p),
         LoopInterrupt(p) \/ LoopStateful(p) \/ ForcedYield(p)
  PROVE  JoinsOn(p)
<1>0. /\ TypeOK /\ ~Interruptible(p) /\ cur \in Effect /\ stack[p] \in Seq(Frame)
      /\ AtJoin(p) \/ InJoin(p)
  BY JoinsParts DEF FiberInv, TypeInv, TypeOK, Joins
<1>1. AsyncStill(p) /\ ~LeaveMessages(p)
  <2>1. ~LeaveMessages(p)
    BY <1>0 DEF LeaveMessages, Leaving, Empty, AtJoin, InJoin, JoinStack
  <2>2. \/ ~EvalAwaitAsync(p) /\ ~SuspendAsync(p) /\ ~DrainResume(p)
        \/ ForcedYield(p)
    BY DEF LoopInterrupt, LoopStateful, HeadIs, IsStateful, EvalAwaitAsync, SuspendAsync, Chooses,
       Ready, DrainResume, Draining, Looping
  <2>3. ForcedYield(p) => AsyncStill(p)
    BY DEF ForcedYield, async, AsyncStill
  <2> QED BY <1>0, <2>1, <2>2, <2>3, AsyncOwner
<1>2. windDown'[p] = windDown[p]
  BY DEF LoopInterrupt, LoopStateful, ForcedYield, machine
<1>3. CASE LoopInterrupt(p) \/ LoopStateful(p)
  <2>1. stack'[p] = stack[p] /\ cur' = cur /\ (Active(p)' <=> Active(p))
    BY <1>0, <1>3 DEF LoopInterrupt, LoopStateful, GoTo, thread, machine, Looping, Active
  <2>2. \/ stack'[p] = <<>> /\ Active(p)' /\ cur'.op = "Join"
        \/ JoinStack(stack'[p]) /\ (Active(p)' => cur' \in CalmEffect)
    BY <1>0, <2>1 DEF AtJoin, InJoin
  <2> QED BY <1>1, <1>2, <2>1, <2>2, JoinGoes
<1>4. CASE ForcedYield(p)
  <2> DEFINE r == [tag |-> "OnSuccess", k |-> cur]
  <2>1. r \in Frame /\ r.tag = "OnSuccess" /\ r.k = cur
    BY <1>0, FrameConstructors
  <2>2. stack'[p] = Append(stack[p], r) /\ cur' = Yield
    BY <1>0, <1>4 DEF ForcedYield, Push, GoTo, TypeOK
  <2>3. /\ AtJoin(p) => IsJoin(r) /\ stack[p] = <<>>
        /\ InJoin(p) => JoinStack(stack[p]) /\ r \in CalmFrame
    BY <2>1 DEF AtJoin, InJoin, IsJoin, CalmFrame
  <2>4. \A c : FrameWaits(r, c) <=> c \in Targets(cur)
    BY DEF FrameWaits
  <2> HIDE DEF r
  <2>5. JoinStack(stack'[p]) /\ cur' \in CalmEffect
    BY <1>0, <2>1, <2>2, <2>3, JoinPush, CalmEffects
  <2>6. \A c : c \in Targets(cur) \/ StackWaits(stack[p], c) => StackWaits(stack'[p], c)
    BY <1>0, <2>1, <2>2, <2>4, JoinPush
  <2> QED BY <1>1, <1>2, <2>5, <2>6, JoinGoes
<1> QED BY <1>3, <1>4

\* The next child is awaited, or none is left.
LEMMA JoinAwaits ==
  ASSUME FiberInv, Unstacked, [Next]_vars, NEW p \in Fiber, Joins(p), AtJoin(p), EvalJoin(p)
  PROVE  JoinsOn(p)
<1>0. /\ TypeOK /\ cur \in Effect /\ cur.op = "Join" /\ stack[p] = <<>> /\ Active(p) /\ ~Suspended(p)
      /\ cur.rest \in SUBSET Fiber /\ cur.exit \in Exit
  <2>1. TypeOK /\ cur \in Effect /\ cur.op = "Join" /\ stack[p] = <<>> /\ Active(p)
    BY DEF FiberInv, TypeInv, TypeOK, AtJoin
  <2> QED BY <2>1, EffectParts, JoinsParts
<1>1. AsyncStill(p) /\ ~LeaveMessages(p) /\ windDown'[p] = windDown[p]
  BY <1>0 DEF EvalJoin, async, AsyncStill, LeaveMessages, Leaving
<1>2. ASSUME NEW c \in cur.rest, Push(p, [tag |-> "OnSuccess", k |-> Join(cur.rest \ {c}, cur.exit)]),
             GoTo("loop", Await(c))
      PROVE  JoinsOn(p)
  <2> DEFINE j == Join(cur.rest \ {c}, cur.exit)
             r == [tag |-> "OnSuccess", k |-> j]
  <2>1. j \in Effect /\ j.op = "Join" /\ j.rest = cur.rest \ {c}
    BY <1>0, EffectConstructors DEF Join
  <2>2. r \in Frame /\ IsJoin(r)
    <3> HIDE DEF j
    <3> QED BY <2>1, FrameConstructors DEF IsJoin
  <2>3. stack'[p] = Append(stack[p], r) /\ cur' = Await(c) /\ cur' \in CalmEffect
    BY <1>0, <1>2, CalmEffects DEF Push, GoTo, TypeOK
  <2>4. \A d : d \in Targets(cur) => d \in Targets(cur') \/ FrameWaits(r, d)
    BY <1>0, <2>1, <2>3 DEF Targets, FrameWaits, Await
  <2>5. ~\E d : StackWaits(stack[p], d)
    BY <1>0 DEF StackWaits
  <2> HIDE DEF r
  <2>6. <<>> \in Seq(Frame) /\ Active(p)'
    BY <1>0, <1>2, EmptySeq DEF Active, GoTo
  <2>7. JoinStack(stack'[p])
    BY <1>0, <2>2, <2>3, <2>6, JoinPush
  <2>8. \A d : d \in Targets(cur) \/ StackWaits(stack[p], d)
                 => (Active(p)' /\ d \in Targets(cur')) \/ StackWaits(stack'[p], d)
    BY <1>0, <2>2, <2>3, <2>4, <2>5, <2>6, JoinPush
  <2> QED BY <1>0, <1>1, <2>3, <2>7, <2>8, JoinGoes
<1>3. ASSUME cur.rest = {}, GoTo("loop", ExitEffect(cur.exit)), UNCHANGED stack
      PROVE  JoinsOn(p)
  <2>1. ~\E c : Waited(p, c)
    BY <1>0, <1>3 DEF Waited, StackWaits, Targets
  <2> QED BY <2>1 DEF JoinsOn
<1>4. \/ cur.rest = {} /\ GoTo("loop", ExitEffect(cur.exit)) /\ UNCHANGED stack
      \/ \E c \in cur.rest : /\ Push(p, [tag |-> "OnSuccess", k |-> Join(cur.rest \ {c}, cur.exit)])
                             /\ GoTo("loop", Await(c))
  BY DEF EvalJoin
<1> QED BY <1>2, <1>3, <1>4


\* Yields, and the regions of an await.
LEMMA JoinEval ==
  ASSUME FiberInv, Unstacked, [Next]_vars, NEW p \in Fiber, Joins(p), InJoin(p), Active(p),
         EvalYield(p) \/ EvalRegion(p) \/ EvalAwait(p)
  PROVE  JoinsOn(p)
<1>0. /\ TypeOK /\ cur \in CalmEffect /\ cur \in Effect /\ JoinStack(stack[p]) /\ windDown[p]
      /\ stack[p] \in Seq(Frame) /\ stack \in [Fiber -> Seq(Frame)]
      /\ interruption \in [Fiber -> BOOLEAN] /\ asyncs[p] \in Nat
  BY DEF FiberInv, TypeInv, TypeOK, InJoin, Joins
<1>1. AsyncStill(p) /\ ~LeaveMessages(p) /\ windDown'[p] = windDown[p]
  <2>1. stack[p] # <<>>
    BY <1>0 DEF JoinStack
  <2> QED BY <2>1 DEF EvalYield, EvalRegion, EvalAwait, async, machine, AsyncStill, LeaveMessages, Leaving, Empty
<1>2. CASE EvalYield(p)
  <2>1. stack'[p] = stack[p] /\ cur' = Unit /\ cur.op = "Yield"
    BY <1>2 DEF EvalYield, GoTo, machine, Yield
  <2>2. cur' \in CalmEffect
    BY <2>1, CalmEffects
  <2>3. ~\E c : c \in Targets(cur)
    BY <2>1 DEF Targets
  <2> QED BY <1>0, <1>1, <2>1, <2>2, <2>3, JoinGoes
<1>3. CASE EvalRegion(p)
  <2>1. cur.op = "Region" /\ cur.enable \in BOOLEAN /\ cur.body \in Body
    BY <1>0, <1>3, EffectParts DEF EvalRegion
  <2>2. cur.body.op = "AwaitAsync" /\ cur.body \in Effect
    BY <1>0, <2>1, EffectConstructors DEF CalmEffect
  <2> DEFINE a == Revert(p, cur.enable)
             b == OnStep(FALSE)
  <2>3. a \in CalmFrame /\ b \in CalmFrame /\ a \in Frame /\ b \in Frame
        /\ a.tag # "OnSuccess" /\ b.tag # "OnSuccess"
    <3>1. a \in Frame
      <4>1. (interruption[p] # cur.enable) \in BOOLEAN /\ interruption[p] \in BOOLEAN
        BY <1>0
      <4> QED BY <4>1, FrameConstructors DEF Revert
    <3>2. b \in Frame
      BY FrameConstructors
    <3> QED BY <3>1, <3>2 DEF CalmFrame, Revert, OnStep
  <2>4. stack'[p] = stack[p] \o <<a, b>> /\ cur' = cur.body
    BY <1>0, <1>3 DEF EvalRegion, GoTo
  <2>5. cur' \in CalmEffect /\ \A c : c \in Targets(cur) => c \in Targets(cur')
    BY <2>1, <2>2, <2>4 DEF CalmEffect, Targets
  <2>6. Active(p)'
    BY <1>3 DEF EvalRegion, GoTo, Ready, Looping, Active
  <2> HIDE DEF a, b
  <2>7. stack'[p] = Append(Append(stack[p], a), b)
    BY <1>0, <2>3, <2>4, AppendTwo
  <2> DEFINE s1 == Append(stack[p], a)
  <2>8. s1 \in Seq(Frame) /\ JoinStack(s1) /\ \A c : StackWaits(stack[p], c) => StackWaits(s1, c)
    BY <1>0, <2>3, JoinPush, AppendParts
  <2> HIDE DEF s1
  <2>9. stack'[p] = Append(s1, b)
    BY <2>7 DEF s1
  <2>10. JoinStack(stack'[p]) /\ \A c : StackWaits(s1, c) => StackWaits(stack'[p], c)
    BY <2>3, <2>8, <2>9, JoinPush
  <2> QED BY <1>1, <2>5, <2>6, <2>8, <2>10, JoinGoes
<1>4. CASE EvalAwait(p)
  <2>1. cur.op = "Await" /\ cur.of \in Fiber
    BY <1>0, <1>4, EffectParts DEF EvalAwait
  <2>2. PICK g \in Fiber : g = cur.of
    BY <2>1
  <2> DEFINE h == [kind |-> "canceler", of |-> g, id |-> asyncs[p] + 1]
             a == [tag |-> "Continue"]
             b == Revert(p, FALSE)
             c == OnStep(TRUE)
             d == [tag |-> "Cleanup", h |-> h]
             s0 == stack[p]
             s1 == Append(s0, a)
             s2 == Append(s1, b)
             s3 == Append(s2, c)
  <2>3. Mask(p, h, AwaitAsync(g))
    BY <1>4, <2>2 DEF EvalAwait
  <2>4. a \in CalmFrame /\ b \in CalmFrame /\ c \in CalmFrame /\ d \in CalmFrame
    <3>1. a \in Frame /\ c \in Frame
      BY FrameConstructors
    <3>2. b \in Frame
      <4>1. (interruption[p] # FALSE) \in BOOLEAN /\ interruption[p] \in BOOLEAN
        BY <1>0
      <4> QED BY <4>1, FrameConstructors DEF Revert
    <3>3. d \in Frame
      <4>1. asyncs[p] + 1 \in Nat
        BY <1>0
      <4>2. h \in Handler
        BY <4>1, HandlerParts
      <4> HIDE DEF h
      <4> QED BY <4>2, FrameConstructors
    <3> QED BY <3>1, <3>2, <3>3 DEF CalmFrame, Revert, OnStep
  <2>5. stack'[p] = s0 \o <<a, b, c, d>> /\ cur' = Region(interruption[p], AwaitAsync(g))
    BY <1>0, <2>3 DEF Mask, GoTo
  <2>6. cur' \in CalmEffect
    <3>1. interruption[p] \in BOOLEAN
      BY <1>0
    <3> QED BY <2>5, <3>1, CalmEffects
  <2>7. \A x : x \in Targets(cur) => x \in Targets(cur')
    BY <2>1, <2>2, <2>5 DEF Targets, Region, AwaitAsync
  <2>8. Active(p)'
    BY <1>4 DEF EvalAwait, Mask, GoTo, Ready, Looping, Active
  <2>9. CalmFrame \subseteq Frame
    BY DEF CalmFrame
  <2>10. s0 \in Seq(Frame) /\ JoinStack(s0)
    BY <1>0
  <2> HIDE DEF a, b, c, d, s0
  <2>11. stack'[p] = Append(s3, d)
    BY <2>4, <2>5, <2>9, <2>10, AppendFour
  <2>12. s1 \in Seq(Frame) /\ JoinStack(s1) /\ \A x : StackWaits(s0, x) => StackWaits(s1, x)
    BY <2>4, <2>9, <2>10, JoinPush, AppendParts
  <2> HIDE DEF s1
  <2>13. s2 \in Seq(Frame) /\ JoinStack(s2) /\ \A x : StackWaits(s1, x) => StackWaits(s2, x)
    BY <2>4, <2>9, <2>12, JoinPush, AppendParts
  <2> HIDE DEF s2
  <2>14. s3 \in Seq(Frame) /\ JoinStack(s3) /\ \A x : StackWaits(s2, x) => StackWaits(s3, x)
    BY <2>4, <2>9, <2>13, JoinPush, AppendParts
  <2> HIDE DEF s3
  <2>15. JoinStack(stack'[p]) /\ \A x : StackWaits(s3, x) => StackWaits(stack'[p], x)
    BY <2>4, <2>9, <2>11, <2>14, JoinPush
  <2>16. \A x : StackWaits(stack[p], x) => StackWaits(stack'[p], x)
    BY <2>12, <2>13, <2>14, <2>15 DEF s0
  <2> QED BY <1>1, <2>6, <2>7, <2>8, <2>15, <2>16, JoinGoes
<1> QED BY <1>2, <1>3, <1>4

\* Its continuations: it cannot fail, so the join is reached.
LEMMA JoinCont ==
  ASSUME FiberInv, Unstacked, [Next]_vars, NEW p \in Fiber, Joins(p), InJoin(p), Active(p),
         EvalSuccess(p) \/ CleanupAfterSuccess(p)
  PROVE  JoinsOn(p)
<1> DEFINE r == Top(p)
           u == Popped(p)
<1>0. /\ TypeOK /\ cur \in CalmEffect /\ cur.op = "Success" /\ JoinStack(stack[p]) /\ windDown[p]
      /\ stack[p] \in Seq(Frame) /\ stack[p] # <<>> /\ r \in Frame
  <2>1. /\ TypeOK /\ cur \in CalmEffect /\ cur.op = "Success" /\ JoinStack(stack[p]) /\ windDown[p]
        /\ stack[p] \in Seq(Frame) /\ stack[p] # <<>>
    BY DEF FiberInv, TypeInv, TypeOK, InJoin, Joins, JoinStack, EvalSuccess, CleanupAfterSuccess, Evaluating
  <2> QED BY <2>1, PoppedType
<1>1. /\ (u = <<>> /\ IsJoin(r)) \/ (JoinStack(u) /\ r \in CalmFrame)
      /\ \A c : StackWaits(stack[p], c) <=> StackWaits(u, c) \/ FrameWaits(r, c)
  BY <1>0, JoinPop DEF Top, Popped
<1>2. AsyncStill(p) /\ ~LeaveMessages(p)
  BY <1>0 DEF EvalSuccess, CleanupAfterSuccess, async, AsyncStill, LeaveMessages, Leaving, Empty
<1>3. ~\E c : c \in Targets(cur)
  BY <1>0 DEF Targets
<1>4. Active(p)'
  BY <1>0 DEF EvalSuccess, CleanupAfterSuccess, Evaluating, Skip, Use, UseRevert, GoTo, Active
<1>5. windDown'[p] = windDown[p]
  BY DEF EvalSuccess, CleanupAfterSuccess, Skip, Use, UseRevert
<1>6. ExitEffect(cur.value) \in CalmEffect /\ Success(Ok) \in CalmEffect
  BY <1>0, CalmEffects DEF CalmEffect, ExitEffect, Unit
<1>7. CASE IsJoin(r) /\ u = <<>>
  <2>1. stack'[p] = u /\ cur' = r.k
    BY <1>0, <1>7 DEF EvalSuccess, CleanupAfterSuccess, Skip, Use, UseRevert, GoTo, Pop, IsJoin, TopIs, TypeOK
  <2>2. cur'.op = "Join" /\ \A c : FrameWaits(r, c) => c \in Targets(cur')
    BY <1>7, <2>1 DEF IsJoin, FrameWaits
  <2> QED BY <1>1, <1>2, <1>3, <1>4, <1>5, <1>7, <2>1, <2>2, JoinGoes
<1>8. CASE JoinStack(u) /\ r \in CalmFrame
  <2>1. stack'[p] = u
    <3>1. Pop(p)
      <4>1. CASE EvalSuccess(p)
        BY <4>1 DEF EvalSuccess, Skip, Use, UseRevert
      <4>2. CASE CleanupAfterSuccess(p)
        <5>1. r.h.kind = "canceler"
          BY <1>8, <4>2 DEF CleanupAfterSuccess, TopIs, CalmFrame
        <5> QED BY <4>2, <5>1 DEF CleanupAfterSuccess
      <4> QED BY <4>1, <4>2
    <3> QED BY <1>0, <3>1 DEF Pop, TypeOK
  <2>2. cur' \in CalmEffect
    <3>1. CASE EvalSuccess(p)
      BY <1>0, <1>6, <1>8, <3>1 DEF EvalSuccess, Skip, Use, UseRevert, GoTo, CalmFrame, TopIs, Unit
    <3>2. CASE CleanupAfterSuccess(p)
      BY <1>0, <1>6, <1>8, <3>2 DEF CleanupAfterSuccess, GoTo, CalmFrame, TopIs, Unit
    <3> QED BY <3>1, <3>2
  <2>3. \A c : FrameWaits(r, c) => c \in Targets(cur')
    <3>1. CASE r.tag = "OnSuccess"
      <4>1. cur' = r.k
        BY <1>0, <3>1 DEF EvalSuccess, CleanupAfterSuccess, Skip, Use, UseRevert, GoTo, TopIs
      <4> QED BY <4>1 DEF FrameWaits
    <3> QED BY <3>1 DEF FrameWaits
  <2> QED BY <1>1, <1>2, <1>3, <1>4, <1>5, <1>8, <2>1, <2>2, <2>3, JoinGoes
<1> QED BY <1>1, <1>7, <1>8

\* Whatever happens, a fiber that joins forgets no child that has not ended.
LEMMA JoinStep ==
  ASSUME FiberInv, CallInv, Unstacked, [Next]_vars, NEW p \in Fiber, Joins(p)
  PROVE  JoinsOn(p)
<1>0. current # NoFiber \/ ~Active(p)
  BY FiberAssumption DEF Active
<1>1. CASE ~Active(p) /\ ~Active(p)'
  BY <1>1, JoinWaits
<1>2. CASE DrainResume(p)
  BY <1>2, JoinResumes
<1>3. CASE ~Active(p) /\ Active(p)' /\ ~DrainResume(p)
  <2>1. StartRoot /\ p = Root
    BY <1>3, ActiveStep
  <2>2. status[p] = "new"
    BY <2>1 DEF StartRoot
  <2> QED BY <2>2, JoinsParts
<1>4. CASE Active(p)
  <2>1. AtJoin(p) \/ InJoin(p)
    BY DEF Joins
  <2>2. CASE Step(p)
    BY <1>4, <2>1, <2>2, JoinSteps, JoinLoop, JoinAwaits, JoinEval, JoinSuspends, JoinCont
  <2>3. CASE UNCHANGED vars
    <3>1. UNCHANGED <<stack, windDown, interruptor, mailbox, current, pc, cur, asyncs, called, blockingOn>>
      BY <2>3 DEF vars, thread, machine, async, inbox
    <3>2. Joins(p)' /\ \A c : Waited(p, c) => Waited(p, c)'
      BY <3>1 DEF Joins, AtJoin, InJoin, Waited, Active, Suspended
    <3> QED BY <3>2 DEF JoinsOn
  <2>4. ASSUME NEW h \in Fiber, Step(h)
        PROVE  Step(p)
    <3>1. h = p
      BY <1>4, <2>4, StepHasThread DEF Active
    <3> QED BY <2>4, <3>1
  <2>5. ~StartRoot /\ ~Outside /\ \A h \in Fiber : ~Run(h)
    BY <1>0, <1>4 DEF StartRoot, Outside, OutsideCompletes, OutsideInterrupts, Run
  <2> QED BY <2>2, <2>3, <2>4, <2>5 DEF Next
<1> QED BY <1>1, <1>2, <1>3, <1>4


\* A fiber that was forked and has not ended is with its parent, which has not
\* ended either: it is about to be adopted, it is one of the children, or the
\* parent awaits it on its way out.
Adopting(p, c) == Holds(mailbox[p], AddChild(c))
With(p, c)     == Adopting(p, c) \/ c \in children[p] \/ (Joins(p) /\ Waited(p, c))
Kept(p, c)     == status[p] = "live" /\ With(p, c)
ChildInv == \A c \in Fiber : parent[c] # NoFiber /\ status[c] # "done" => Kept(parent[c], c)

\* Only a fork makes a fiber the child of another one.
LEMMA ParentStep ==
  ASSUME [Next]_vars
  PROVE  parent' = parent \/ \E h \in Fiber : Fork(h)
<1>1. ASSUME NEW h \in Fiber, Step(h), ~Fork(h)
      PROVE  parent' = parent
  <2>1. CASE \/ Finally(h) \/ DrainDone(h) \/ DrainYieldNow(h) \/ DrainInterrupt(h)
             \/ DrainResume(h) \/ DrainStateful(h) \/ LoopInterrupt(h) \/ LoopStateful(h)
             \/ ForcedYield(h)
    BY <2>1 DEF Finally, DrainDone, DrainYieldNow, DrainInterrupt, DrainResume, DrainStateful,
       LoopInterrupt, LoopStateful, ForcedYield, family
  <2>2. CASE Program(h)
    BY <1>1, <2>2 DEF Program, Finish, FlatMap, CatchAll, EnterRegion, OnExit, SuspendAsync,
       YieldOp, InterruptAsFork, AwaitOp, Complete, family
  <2>3. CASE \/ EvalYield(h) \/ EvalRegion(h) \/ EvalAwait(h) \/ EvalAwaitAsync(h) \/ EvalJoin(h)
             \/ EvalSuccess(h) \/ EvalFailure(h) \/ CleanupAfterSuccess(h)
             \/ CleanupAfterFailure(h)
    BY <2>3 DEF EvalYield, EvalRegion, EvalAwait, EvalAwaitAsync, EvalJoin, EvalSuccess,
       EvalFailure, CleanupAfterSuccess, CleanupAfterFailure, family
  <2>4. CASE LeaveChildren(h) \/ LeaveMessages(h) \/ SetExitValue(h) \/ Notify(h) \/ NotifyDone(h)
    BY <2>4 DEF LeaveChildren, LeaveMessages, SetExitValue, Notify, NotifyDone, family
  <2> QED BY <1>1, <2>1, <2>2, <2>3, <2>4 DEF Step
<1>2. CASE StartRoot \/ Outside \/ (\E h \in Fiber : Run(h)) \/ UNCHANGED vars
  BY <1>2 DEF StartRoot, Outside, OutsideCompletes, OutsideInterrupts, Run, family, vars
<1> QED BY <1>1, <1>2 DEF Next

\* A fiber loses a child when that one has ended, or all of them when it leaves.
LEMMA ChildrenStep ==
  ASSUME TypeOK, InRange, NotifyInv, [Next]_vars, NEW p \in Fiber, NEW c \in children[p],
         status[c] # "done"
  PROVE  c \in children'[p] \/ LeaveChildren(p)
<1>0. children \in [Fiber -> SUBSET Fiber]
  BY DEF TypeOK
<1>1. ASSUME NEW h \in Fiber, DrainStateful(h) \/ LoopStateful(h)
      PROVE  c \in children'[p]
  <2> DEFINE m == Head(mailbox[h])
  <2>1. Stateful(h, m)
    BY <1>1 DEF DrainStateful, LoopStateful
  <2> HIDE DEF m
  <2>2. \/ children' = children
        \/ status[m.child] = "done" /\ children' = [children EXCEPT ![h] = @ \ {m.child}]
        \/ children' = [children EXCEPT ![h] = @ \cup {m.child}]
    BY <2>1 DEF Stateful
  <2> QED BY <1>0, <2>2
<1>2. ASSUME NEW h \in Fiber, Notify(h)
      PROVE  c \in children'[p]
  <2>1. status[h] = "done"
    BY <1>2 DEF NotifyInv, Notify
  <2> DEFINE o == observers[h][next]
  <2>2. children' = children \/ children' = [children EXCEPT ![o.parent] = @ \ {h}]
    BY <1>2 DEF Notify
  <2> HIDE DEF o
  <2> QED BY <1>0, <2>1, <2>2
<1>3. ASSUME NEW h \in Fiber, LeaveChildren(h)
      PROVE  c \in children'[p] \/ LeaveChildren(p)
  BY <1>0, <1>3 DEF LeaveChildren
<1>4. ASSUME NEW h \in Fiber, Step(h), ~DrainStateful(h), ~LoopStateful(h), ~Notify(h),
             ~LeaveChildren(h)
      PROVE  children' = children
  <2>1. CASE \/ Finally(h) \/ DrainDone(h) \/ DrainYieldNow(h) \/ DrainInterrupt(h)
             \/ DrainResume(h) \/ LoopInterrupt(h) \/ ForcedYield(h)
    BY <2>1 DEF Finally, DrainDone, DrainYieldNow, DrainInterrupt, DrainResume,
       LoopInterrupt, ForcedYield, family
  <2>2. CASE Program(h)
    BY <2>2 DEF Program, Finish, FlatMap, CatchAll, EnterRegion, OnExit, SuspendAsync,
       YieldOp, Fork, InterruptAsFork, AwaitOp, Complete, family
  <2>3. CASE \/ EvalYield(h) \/ EvalRegion(h) \/ EvalAwait(h) \/ EvalAwaitAsync(h) \/ EvalJoin(h)
             \/ EvalSuccess(h) \/ EvalFailure(h) \/ CleanupAfterSuccess(h)
             \/ CleanupAfterFailure(h)
    BY <2>3 DEF EvalYield, EvalRegion, EvalAwait, EvalAwaitAsync, EvalJoin, EvalSuccess,
       EvalFailure, CleanupAfterSuccess, CleanupAfterFailure, family
  <2>4. CASE LeaveMessages(h) \/ SetExitValue(h) \/ NotifyDone(h)
    BY <2>4 DEF LeaveMessages, SetExitValue, NotifyDone, family
  <2> QED BY <1>4, <2>1, <2>2, <2>3, <2>4 DEF Step
<1>5. CASE StartRoot \/ Outside \/ (\E h \in Fiber : Run(h)) \/ UNCHANGED vars
  BY <1>5 DEF StartRoot, Outside, OutsideCompletes, OutsideInterrupts, Run, family, vars
<1> QED BY <1>1, <1>2, <1>3, <1>4, <1>5 DEF Next

\* A fiber that leaves its children joins them.
LEMMA LeavingJoins ==
  ASSUME TypeOK, IdleInv, NEW p \in Fiber, LeaveChildren(p), NEW c \in children[p]
  PROVE  Joins(p)' /\ Waited(p, c)'
<1>1. /\ stack'[p] = <<>> /\ windDown'[p] /\ interruptor'[p] = interruptor[p]
      /\ cur' = Join(children[p], ExitOf(cur)) /\ Active(p) /\ Active(p)'
  BY DEF LeaveChildren, Leaving, Empty, async, GoTo, Active, TypeOK
<1>2. interruptor[p] = 0
  BY <1>1 DEF IdleInv
<1>3. cur'.op = "Join" /\ c \in Targets(cur')
  BY <1>1 DEF Join, Targets
<1> QED BY <1>1, <1>2, <1>3 DEF Joins, AtJoin, Waited

\* A child that is adopted is one of the children.
LEMMA AdoptedStep ==
  ASSUME TypeOK, InRange, [Next]_vars, NEW p \in Fiber, NEW c \in Fiber, Adopting(p, c),
         status[c] # "done"
  PROVE  Adopting(p, c)' \/ c \in children'[p]
<1>1. CASE ~(Takes(p) /\ Head(mailbox[p]) = AddChild(c))
  BY <1>1, MailKept DEF Adopting
<1>2. CASE Takes(p) /\ Head(mailbox[p]) = AddChild(c)
  <2>1. Head(mailbox[p]).tag = "AddChild" /\ Head(mailbox[p]).child = c
    BY <1>2 DEF AddChild
  <2>2. DrainStateful(p) \/ LoopStateful(p)
    BY <1>2, <2>1 DEF Takes, DrainYieldNow, DrainResume, DrainInterrupt, LoopInterrupt, HeadIs
  <2>3. Stateful(p, Head(mailbox[p]))
    BY <2>2 DEF DrainStateful, LoopStateful
  <2>4. children' = [children EXCEPT ![p] = @ \cup {c}]
    BY <2>1, <2>3 DEF Stateful
  <2> QED BY <2>4 DEF TypeOK
<1> QED BY <1>1, <1>2

\* A child stays with its parent until it ends.
LEMMA KeptStep ==
  ASSUME FiberInv, CallInv, Unstacked, [Next]_vars, NEW p \in Fiber, NEW c \in Fiber,
         Kept(p, c), status[c] # "done"
  PROVE  Kept(p, c)'
<1>0. TypeOK /\ InRange /\ TurnInv /\ IdleInv /\ NotifyInv
  BY DEF FiberInv, TypeInv, CallInv
<1>1. With(p, c)'
  <2>1. CASE Adopting(p, c)
    BY <1>0, <2>1, AdoptedStep DEF With
  <2>2. CASE c \in children[p]
    BY <1>0, <2>2, ChildrenStep, LeavingJoins DEF With
  <2>3. CASE Joins(p) /\ Waited(p, c)
    BY <2>3, JoinStep DEF JoinsOn, With
  <2> QED BY <2>1, <2>2, <2>3 DEF Kept, With
<1>2. status'[p] = "live"
  <2> SUFFICES ASSUME SetExitValue(p)
               PROVE  FALSE
    BY <1>0, StatusStep DEF Kept
  <2>1. /\ Active(p) /\ stack[p] = <<>> /\ cur.op \in {"Success", "Failure"}
        /\ children[p] = {} /\ mailbox[p] = <<>>
    BY DEF SetExitValue, Leaving, Empty, Active
  <2>2. ~Adopting(p, c)
    BY <2>1 DEF Adopting, Holds
  <2>3. ~(AtJoin(p) \/ InJoin(p))
    BY <2>1 DEF AtJoin, InJoin, JoinStack
  <2> QED BY <2>1, <2>2, <2>3 DEF Kept, With, Joins
<1> QED BY <1>1, <1>2 DEF Kept

\* A fiber that forks a child tells itself to adopt it.
LEMMA ForkKeeps ==
  ASSUME FiberInv, NEW p \in Fiber, Fork(p)
  PROVE  \E c \in Fiber : /\ \A d \in Fiber : d # c => parent'[d] = parent[d]
                          /\ parent'[c] = NoFiber \/ (parent'[c] = p /\ Kept(p, c)')
<1>0. TypeOK /\ Turn(p) /\ mailbox[p] \in Seq(Message)
  BY DEF FiberInv, TypeInv, TurnInv, TypeOK
<1>1. PICK c \in Fiber, daemon \in BOOLEAN :
        /\ status[c] = "new" /\ status' = [status EXCEPT ![c] = "live"]
        /\ parent' = [parent EXCEPT ![c] = IF daemon THEN NoFiber ELSE p]
        /\ Tell(mailbox, [g \in Fiber |-> (IF daemon THEN Nothing ELSE To(p, AddChild(c)))[g]
                                            \o To(c, Resume(Prog))[g]])
  BY DEF Fork
<1>2. status[p] = "live"
  BY <1>0 DEF Fork, Chooses, Ready, Looping, Active, Turn
<1>3. status'[p] = "live" /\ p # c
  BY <1>0, <1>1, <1>2 DEF TypeOK
<1>4. ASSUME daemon = FALSE
      PROVE  Adopting(p, c)'
  <2> DEFINE m == AddChild(c)
             one == <<m>>
  <2>1. m \in Message
    BY MessageConstructors
  <2>2. mailbox'[p] = mailbox[p] \o (one \o <<>>)
    BY <1>1, <1>3, <1>4 DEF Tell, To
  <2> HIDE DEF m
  <2>3. one \in Seq(Message) /\ <<>> \in Seq(Message) /\ Holds(one, m)
    BY <2>1, EmptySeq DEF Holds
  <2> HIDE DEF one
  <2>4. one \o <<>> \in Seq(Message) /\ Holds(one \o <<>>, m)
    BY <2>3, HoldsConcat, ConcatProperties
  <2>5. Holds(mailbox'[p], m)
    BY <1>0, <2>2, <2>4, HoldsConcat
  <2> QED BY <2>5 DEF Adopting, m
<1>5. /\ \A d \in Fiber : d # c => parent'[d] = parent[d]
      /\ parent'[c] = IF daemon THEN NoFiber ELSE p
  BY <1>0, <1>1 DEF TypeOK
<1>6. parent'[c] = NoFiber \/ (parent'[c] = p /\ Kept(p, c)')
  BY <1>3, <1>4, <1>5 DEF Kept, With
<1> QED BY <1>5, <1>6

\* Every step keeps it that a fiber leaves no child behind.
LEMMA ChildNext ==
  ASSUME FiberInv, CallInv, Unstacked, ChildInv, [Next]_vars
  PROVE  ChildInv'
<1> SUFFICES ASSUME NEW c \in Fiber, parent'[c] # NoFiber, status'[c] # "done"
             PROVE  Kept(parent[c], c)'
  BY DEF ChildInv
<1>0. TypeOK /\ TurnInv
  BY DEF FiberInv, TypeInv
<1>1. status[c] # "done"
  BY <1>0, StatusStep
<1>2. CASE parent'[c] = parent[c]
  <2>1. PICK p \in Fiber : p = parent[c]
    BY <1>0, <1>2 DEF TypeOK
  <2>2. Kept(p, c)
    BY <1>1, <1>2, <2>1 DEF ChildInv
  <2>3. Kept(p, c)'
    BY <1>1, <2>2, KeptStep
  <2> QED BY <1>2, <2>1, <2>3
<1>3. CASE parent'[c] # parent[c]
  <2>1. PICK p \in Fiber : Fork(p)
    BY <1>3, ParentStep
  <2>2. parent'[c] = p /\ Kept(p, c)'
    BY <1>3, <2>1, ForkKeeps
  <2> QED BY <2>2
<1> QED BY <1>2, <1>3

\* Structured concurrency: when a fiber has ended, so has every fiber that was
\* forked in its scope, whatever the children do and whoever is interrupted
\* meanwhile.
THEOREM ChildrenEnd == Spec => []ChildrenEndFirst
<1>1. Init => CallInv /\ RegionInv /\ ChildInv
  BY CallInit, RegionInit DEF Init, ChildInv
<1>2. FiberInv /\ FiberInv' /\ CallInv /\ RegionInv /\ ChildInv /\ [Next]_vars
        => CallInv' /\ RegionInv' /\ ChildInv'
  BY CallNext, RegionNext, ChildNext DEF FiberInv, TypeInv, RegionInv
<1>3. ChildInv => ChildrenEndFirst
  BY DEF ChildInv, ChildrenEndFirst, Kept
<1> QED BY <1>1, <1>2, <1>3, FiberInit, FiberNext, PTL DEF Spec
=============================================================================
