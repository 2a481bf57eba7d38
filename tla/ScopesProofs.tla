---------------------------- MODULE ScopesProofs ----------------------------
(***************************************************************************)
(* Scopes keeps its types, runs no finalizer twice, leaves none behind in a *)
(* scope that was closed without interruption, runs those of a sequential   *)
(* scope in the reverse order and closes what was forked: for every set of  *)
(* scopes and finalizers, however deep the scopes are nested.               *)
(***************************************************************************)
EXTENDS Scopes, FiniteSetTheorems, TLAPS

\* A scope has a map or a list of what there is to do, not both.
OneOrOther ==
  \A s \in Scope : /\ tag[s] # "Exited" => todo[s] = {}
                   /\ tag[s] # "Running" => finalizers[s] = {}

\* A finalizer that is to be run waits in the one scope it was added to, and was
\* not begun.
WaitsAtHome ==
  \A x \in Finalizer :
    /\ status[x] = "new" => times[x] = 0
    /\ \A s \in Scope : <<"run", x>> \in finalizers[s] \cup todo[s] =>
         home[x] = s /\ times[x] = 0 /\ status[x] # "new"

\* It is not forgotten: it still waits, or the close was interrupted.
NotForgotten ==
  \A x \in Finalizer :
    /\ status[x] = "added" => \/ <<"run", x>> \in finalizers[home[x]] \cup todo[home[x]]
                              \/ cut[home[x]]
    /\ status[x] = "cut" => cut[home[x]]
    /\ \A s \in Scope : <<"run", x>> \in active[s] => home[x] = s /\ status[x] # "new"

Inv == TypeOK /\ OneOrOther /\ WaitsAtHome /\ NotForgotten /\ EachOnce

\* The items that fork adds are items, and no finalizers of the program.
LEMMA ItemsDiffer ==
  /\ \A x \in Finalizer : <<"run", x>> \in Item
  /\ \A c \in Scope : <<"close", c>> \in Item /\ <<"release", c>> \in Item
  /\ \A x \in Finalizer, c \in Scope : <<"run", x>> # <<"close", c>> /\ <<"run", x>> # <<"release", c>>
BY DEF Item

\* The items that fork adds are no finalizers of the program.
LEMMA ForkAddsNoRun ==
  ASSUME finalizers \in [Scope -> SUBSET Item], NEW s \in Scope, NEW i \in Item,
         \A x \in Finalizer : <<"run", x>> # i,
         finalizers' = [finalizers EXCEPT ![s] = @ \cup {i}]
  PROVE  \A r \in Scope, x \in Finalizer : <<"run", x>> \in finalizers'[r] <=> <<"run", x>> \in finalizers[r]
<1> SUFFICES ASSUME NEW r \in Scope, NEW x \in Finalizer
             PROVE  <<"run", x>> \in finalizers'[r] <=> <<"run", x>> \in finalizers[r]
  OBVIOUS
<1>1. CASE r = s
  <2>1. finalizers'[r] = finalizers[r] \cup {i}
    BY <1>1
  <2> QED BY <2>1
<1>2. CASE r # s
  BY <1>2
<1> QED BY <1>1, <1>2

USE ScopeAssumption
----------------------------------------------------------------------------
(* The types.                                                              *)

\* The types hold at first.
LEMMA InitTypes == Init => TypeOK
BY DEF Init, TypeOK

\* Registering an item keeps them,
LEMMA RegisterTypes ==
  ASSUME TypeOK, NEW s \in Scope, NEW i \in Item, Register(s, i)
  PROVE  nextKey' \in [Scope -> Nat] /\ key' \in [Item -> Nat] /\ finalizers' \in [Scope -> SUBSET Item]
BY DEF TypeOK, Register

\* ... and so does closing a map,
LEMMA MutesTypes ==
  ASSUME TypeOK, NEW s \in Scope, NEW rest \in [Scope -> SUBSET Item],
         NEW begun \in [Scope -> SUBSET Item], Mutes(s, rest, begun)
  PROVE  /\ tag' \in [Scope -> {"unmade", "Running", "Exited"}]
         /\ todo' \in [Scope -> SUBSET Item] /\ active' \in [Scope -> SUBSET Item]
         /\ finalizers' \in [Scope -> SUBSET Item]
BY DEF TypeOK, Mutes

\* ... and every step.
LEMMA StepTypes == TypeOK /\ [Next]_vars => TypeOK'
<1> SUFFICES ASSUME TypeOK, [Next]_vars PROVE TypeOK'
  OBVIOUS
<1>1. ASSUME NEW s \in Scope, NEW x \in Finalizer, AddFinalizer(s, x) PROVE TypeOK'
  <2>1. CASE tag[s] = "Running" /\ Register(s, <<"run", x>>)
             /\ status' = [status EXCEPT ![x] = "added"] /\ UNCHANGED times
    BY <1>1, <2>1, RegisterTypes, ItemsDiffer DEF TypeOK, AddFinalizer, made, close
  <2>2. CASE tag[s] = "Exited" /\ Runs(x) /\ UNCHANGED maps
    BY <1>1, <2>2 DEF TypeOK, AddFinalizer, Runs, made, close, maps
  <2> QED BY <1>1, <2>1, <2>2 DEF AddFinalizer
<1>2. ASSUME NEW s \in Scope, NEW c \in Scope, Fork(s, c) PROVE TypeOK'
  <2>1. /\ nextKey' \in [Scope -> Nat] /\ key' \in [Item -> Nat]
        /\ finalizers' \in [Scope -> SUBSET Item]
    BY <1>2, RegisterTypes, ItemsDiffer DEF TypeOK, Fork, maps
  <2>2. tag' \in [Scope -> {"unmade", "Running", "Exited"}] /\ parent' \in [Scope -> Scope]
    BY <1>2 DEF TypeOK, Fork, Makes
  <2> QED BY <1>2, <2>1, <2>2 DEF TypeOK, Fork, Makes, close, fins
<1>3. ASSUME NEW s \in Scope, Link(s) PROVE TypeOK'
  <2>1. /\ nextKey' \in [Scope -> Nat] /\ key' \in [Item -> Nat]
        /\ finalizers' \in [Scope -> SUBSET Item]
    BY <1>3, RegisterTypes, ItemsDiffer DEF TypeOK, Link, maps
  <2> QED BY <1>3, <2>1 DEF TypeOK, Link, close, fins
<1>4. ASSUME NEW s \in Scope, NEW i \in BOOLEAN, Close(s, i) PROVE TypeOK'
  <2>1. /\ tag' \in [Scope -> {"unmade", "Running", "Exited"}]
        /\ todo' \in [Scope -> SUBSET Item] /\ active' \in [Scope -> SUBSET Item]
        /\ finalizers' \in [Scope -> SUBSET Item]
    BY <1>4, MutesTypes DEF TypeOK, Close
  <2> QED BY <1>4, <2>1 DEF TypeOK, Close, fins
<1>5. ASSUME NEW s \in Scope, NEW x \in Finalizer, RunNext(s, x) PROVE TypeOK'
  BY <1>5, ItemsDiffer DEF TypeOK, RunNext, Rest, Begun, Runs, made, maps
<1>6. ASSUME NEW s \in Scope, NEW x \in Finalizer, EndRun(s, x) PROVE TypeOK'
  BY <1>6 DEF TypeOK, EndRun, Ended, made, maps
<1>7. ASSUME NEW s \in Scope, NEW c \in Scope, CloseNext(s, c) PROVE TypeOK'
  <2> DEFINE i == <<"close", c>>
  <2>1. Rest(s, i) \in [Scope -> SUBSET Item] /\ Begun(s, i) \in [Scope -> SUBSET Item]
    BY ItemsDiffer DEF TypeOK, Rest, Begun
  <2>2. /\ tag' \in [Scope -> {"unmade", "Running", "Exited"}]
        /\ todo' \in [Scope -> SUBSET Item] /\ active' \in [Scope -> SUBSET Item]
        /\ finalizers' \in [Scope -> SUBSET Item]
    <3>1. CASE Mutes(c, Rest(s, i), Begun(s, i))
      BY <2>1, <3>1, MutesTypes
    <3>2. CASE todo' = Rest(s, i) /\ UNCHANGED <<tag, active, finalizers>>
      BY <2>1, <3>2 DEF TypeOK
    <3> QED BY <1>7, <3>1, <3>2 DEF CloseNext
  <2> QED BY <1>7, <2>2 DEF TypeOK, CloseNext, fins
<1>8. ASSUME NEW s \in Scope, NEW c \in Scope, EndClose(s, c) PROVE TypeOK'
  BY <1>8 DEF TypeOK, EndClose, Ended, made, maps, fins
<1>9. ASSUME NEW s \in Scope, ReleaseNext(s) PROVE TypeOK'
  BY <1>9 DEF TypeOK, ReleaseNext, Rest, made, fins
<1>10. ASSUME NEW s \in Scope, Interrupt(s) PROVE TypeOK'
  BY <1>10 DEF TypeOK, Interrupt, maps
<1>11. ASSUME NEW x \in Finalizer, EndLate(x) PROVE TypeOK'
  BY <1>11 DEF TypeOK, EndLate, made, maps, close
<1>12. CASE UNCHANGED vars
  BY <1>12 DEF TypeOK, vars, made, maps, close, fins
<1> QED
  BY <1>1, <1>2, <1>3, <1>4, <1>5, <1>6, <1>7, <1>8, <1>9, <1>10, <1>11, <1>12 DEF Next, Closing

\* Every variable keeps its type.
THEOREM TypeCorrect == Spec => []TypeOK
<1> QED BY InitTypes, StepTypes, PTL DEF Spec
----------------------------------------------------------------------------
(* What waits to be run.                                                   *)

Others == OneOrOther /\ WaitsAtHome /\ NotForgotten /\ EachOnce

\* What waits does so at home, at first,
LEMMA InitOthers == Init => Others
BY DEF Init, Others, OneOrOther, WaitsAtHome, NotForgotten, EachOnce

\* ... and after every step.
LEMMA StepOthers == Inv /\ [Next]_vars => Others'
<1> SUFFICES ASSUME Inv, [Next]_vars PROVE Others'
  OBVIOUS
<1> USE DEF Inv, TypeOK
<1>1. ASSUME NEW s \in Scope, NEW x \in Finalizer, AddFinalizer(s, x) PROVE Others'
  <2>1. status[x] = "new" /\ times[x] = 0 /\ home' = [home EXCEPT ![x] = s]
    BY <1>1 DEF AddFinalizer, WaitsAtHome
  <2>2. \A r \in Scope : <<"run", x>> \notin finalizers[r] \cup todo[r] \cup active[r]
    BY <2>1 DEF WaitsAtHome, NotForgotten
  <2>3. UNCHANGED <<tag, todo, active, cut>>
    BY <1>1 DEF AddFinalizer, made, close
  <2>4. CASE tag[s] = "Running" /\ Register(s, <<"run", x>>)
             /\ status' = [status EXCEPT ![x] = "added"] /\ UNCHANGED times
    <3>1. finalizers' = [finalizers EXCEPT ![s] = @ \cup {<<"run", x>>}]
      BY <2>4 DEF Register
    <3>2. OneOrOther'
      BY <2>3, <2>4, <3>1 DEF OneOrOther
    <3>3. WaitsAtHome'
      BY <2>1, <2>2, <2>3, <2>4, <3>1 DEF WaitsAtHome
    <3>4. NotForgotten'
      <4> SUFFICES ASSUME NEW y \in Finalizer
                   PROVE  /\ status'[y] = "added" => \/ <<"run", y>> \in finalizers'[home'[y]] \cup todo'[home'[y]]
                                                     \/ cut'[home'[y]]
                          /\ status'[y] = "cut" => cut'[home'[y]]
                          /\ \A r \in Scope : <<"run", y>> \in active'[r] => home'[y] = r /\ status'[y] # "new"
        BY DEF NotForgotten
      <4>1. CASE y = x
        BY <2>1, <2>2, <2>3, <2>4, <3>1, <4>1
      <4>2. CASE y # x
        <5>1. home'[y] = home[y] /\ status'[y] = status[y]
          BY <2>1, <2>4, <4>2
        <5>2. finalizers[home[y]] \subseteq finalizers'[home[y]]
          BY <3>1
        <5> QED BY <2>3, <5>1, <5>2 DEF NotForgotten
      <4> QED BY <4>1, <4>2
    <3> QED BY <2>4, <3>2, <3>3, <3>4 DEF Others, EachOnce
  <2>5. CASE tag[s] = "Exited" /\ Runs(x) /\ UNCHANGED maps
    <3>1. UNCHANGED finalizers /\ status' = [status EXCEPT ![x] = "running"]
          /\ times' = [times EXCEPT ![x] = 1]
      BY <2>1, <2>5 DEF maps, Runs
    <3> QED BY <2>1, <2>2, <2>3, <3>1 DEF Others, OneOrOther, WaitsAtHome, NotForgotten, EachOnce
  <2> QED BY <1>1, <2>4, <2>5 DEF AddFinalizer
<1>2. ASSUME NEW s \in Scope, NEW c \in Scope, Fork(s, c) PROVE Others'
  <2>1. UNCHANGED <<todo, active, status, home, times, cut>>
    BY <1>2 DEF Fork, Makes, close, fins
  <2>2. finalizers' = finalizers \/ (tag[s] = "Running" /\ finalizers' = [finalizers EXCEPT ![s] = @ \cup {<<"close", c>>}])
    BY <1>2 DEF Fork, Register, maps
  <2>3. \A r \in Scope, x \in Finalizer : <<"run", x>> \in finalizers'[r] <=> <<"run", x>> \in finalizers[r]
    <3>1. <<"close", c>> \in Item /\ \A x \in Finalizer : <<"run", x>> # <<"close", c>>
      BY ItemsDiffer
    <3>2. CASE finalizers' = finalizers
      BY <3>2
    <3>3. CASE finalizers' = [finalizers EXCEPT ![s] = @ \cup {<<"close", c>>}]
      BY <3>1, <3>3, ForkAddsNoRun
    <3> QED BY <2>2, <3>2, <3>3
  <2>4. tag[c] = "unmade" /\ s # c /\ tag' \in {[tag EXCEPT ![c] = "Running"], [tag EXCEPT ![c] = "Exited"]}
    BY <1>2 DEF Fork, Makes, Known
  <2>5. OneOrOther'
    BY <2>1, <2>2, <2>4 DEF OneOrOther
  <2> QED BY <2>1, <2>3, <2>5 DEF Others, WaitsAtHome, NotForgotten, EachOnce
<1>3. ASSUME NEW s \in Scope, Link(s) PROVE Others'
  <2>1. UNCHANGED <<tag, todo, active, status, home, times, cut>>
    BY <1>3 DEF Link, close, fins
  <2>2. finalizers' = finalizers \/ (tag[s] = "Running" /\ finalizers' = [finalizers EXCEPT ![s] = @ \cup {<<"release", s>>}])
    BY <1>3 DEF Link, Register, maps
  <2>3. \A r \in Scope, x \in Finalizer : <<"run", x>> \in finalizers'[r] <=> <<"run", x>> \in finalizers[r]
    <3>1. <<"release", s>> \in Item /\ \A x \in Finalizer : <<"run", x>> # <<"release", s>>
      BY ItemsDiffer
    <3>2. CASE finalizers' = finalizers
      BY <3>2
    <3>3. CASE finalizers' = [finalizers EXCEPT ![s] = @ \cup {<<"release", s>>}]
      BY <3>1, <3>3, ForkAddsNoRun
    <3> QED BY <2>2, <3>2, <3>3
  <2>4. OneOrOther'
    BY <2>1, <2>2 DEF OneOrOther
  <2> QED BY <2>1, <2>3, <2>4 DEF Others, WaitsAtHome, NotForgotten, EachOnce
<1>4. ASSUME NEW s \in Scope, NEW i \in BOOLEAN, Close(s, i) PROVE Others'
  <2>1. /\ tag[s] = "Running" /\ tag' = [tag EXCEPT ![s] = "Exited"]
        /\ todo' = [todo EXCEPT ![s] = finalizers[s]]
        /\ finalizers' = [finalizers EXCEPT ![s] = {}]
        /\ UNCHANGED <<active, status, home, times, cut>>
    BY <1>4 DEF Close, Mutes, fins
  <2> QED BY <2>1 DEF Others, OneOrOther, WaitsAtHome, NotForgotten, EachOnce
<1>5. ASSUME NEW s \in Scope, NEW x \in Finalizer, RunNext(s, x) PROVE Others'
  <2>1. /\ <<"run", x>> \in todo[s]
        /\ todo' = [todo EXCEPT ![s] = @ \ {<<"run", x>>}]
        /\ active' = [active EXCEPT ![s] = @ \cup {<<"run", x>>}]
        /\ status' = [status EXCEPT ![x] = "running"] /\ times' = [times EXCEPT ![x] = @ + 1]
        /\ UNCHANGED <<tag, finalizers, home, cut>>
    BY <1>5 DEF RunNext, IsNext, Rest, Begun, Runs, made, maps
  <2>2. home[x] = s /\ times[x] = 0 /\ finalizers[s] = {}
    BY <2>1 DEF WaitsAtHome, OneOrOther
  <2>3. \A r \in Scope : <<"run", x>> \notin finalizers'[r] \cup todo'[r]
    BY <2>1, <2>2 DEF WaitsAtHome
  <2>4. OneOrOther' /\ EachOnce'
    BY <2>1, <2>2 DEF OneOrOther, EachOnce
  <2>5. WaitsAtHome'
    <3> SUFFICES ASSUME NEW y \in Finalizer
                 PROVE  /\ status'[y] = "new" => times'[y] = 0
                        /\ \A r \in Scope : <<"run", y>> \in finalizers'[r] \cup todo'[r] =>
                             home'[y] = r /\ times'[y] = 0 /\ status'[y] # "new"
      BY DEF WaitsAtHome
    <3>1. CASE y = x
      <4>1. status'[x] = "running"
        BY <2>1
      <4> QED BY <2>3, <3>1, <4>1
    <3>2. CASE y # x
      <4>1. status'[y] = status[y] /\ times'[y] = times[y] /\ home'[y] = home[y]
        BY <2>1, <3>2
      <4>2. \A r \in Scope : finalizers'[r] = finalizers[r] /\ todo'[r] \subseteq todo[r]
        BY <2>1
      <4> QED BY <4>1, <4>2 DEF WaitsAtHome
    <3> QED BY <3>1, <3>2
  <2>6. NotForgotten'
    <3> SUFFICES ASSUME NEW y \in Finalizer
                 PROVE  /\ status'[y] = "added" => \/ <<"run", y>> \in finalizers'[home'[y]] \cup todo'[home'[y]]
                                                   \/ cut'[home'[y]]
                        /\ status'[y] = "cut" => cut'[home'[y]]
                        /\ \A r \in Scope : <<"run", y>> \in active'[r] => home'[y] = r /\ status'[y] # "new"
      BY DEF NotForgotten
    <3>1. CASE y = x
      <4>1. status'[x] = "running"
        BY <2>1
      <4>2. \A r \in Scope : r # s => active'[r] = active[r]
        BY <2>1
      <4> QED BY <2>1, <2>2, <3>1, <4>1, <4>2 DEF NotForgotten
    <3>2. CASE y # x
      <4>1. status'[y] = status[y] /\ home'[y] = home[y] /\ cut' = cut /\ finalizers' = finalizers
        BY <2>1, <3>2
      <4>2. \A r \in Scope : /\ <<"run", y>> \in todo'[r] <=> <<"run", y>> \in todo[r]
                             /\ <<"run", y>> \in active'[r] <=> <<"run", y>> \in active[r]
        BY <2>1, <3>2
      <4> QED BY <4>1, <4>2 DEF NotForgotten
    <3> QED BY <3>1, <3>2
  <2> QED BY <2>4, <2>5, <2>6 DEF Others
<1>6. ASSUME NEW s \in Scope, NEW x \in Finalizer, EndRun(s, x) PROVE Others'
  <2>1. /\ active' = [active EXCEPT ![s] = @ \ {<<"run", x>>}]
        /\ status' = [status EXCEPT ![x] = "ran"]
        /\ UNCHANGED <<tag, todo, finalizers, home, times, cut>>
    BY <1>6 DEF EndRun, Ended, made, maps
  <2> QED BY <2>1 DEF Others, OneOrOther, WaitsAtHome, NotForgotten, EachOnce
<1>7. ASSUME NEW s \in Scope, NEW c \in Scope, CloseNext(s, c) PROVE Others'
  <2>1. <<"close", c>> \in todo[s] /\ UNCHANGED <<status, home, times, cut>>
    BY <1>7 DEF CloseNext, IsNext, fins
  <2>2. CASE /\ tag[c] = "Running" /\ tag' = [tag EXCEPT ![c] = "Exited"]
             /\ todo' = [Rest(s, <<"close", c>>) EXCEPT ![c] = finalizers[c]]
             /\ active' = Begun(s, <<"close", c>>)
             /\ finalizers' = [finalizers EXCEPT ![c] = {}]
    <3>1. todo[c] = {} /\ c # s
      BY <2>1, <2>2 DEF OneOrOther
    <3>2. \A x \in Finalizer, r \in Scope :
            /\ <<"run", x>> \in finalizers'[r] \cup todo'[r] <=> <<"run", x>> \in finalizers[r] \cup todo[r]
            /\ <<"run", x>> \in active'[r] <=> <<"run", x>> \in active[r]
      BY <2>2, <3>1 DEF Rest, Begun
    <3>3. OneOrOther'
      BY <2>1, <2>2, <3>1 DEF OneOrOther, Rest
    <3> QED BY SMTT(30), <2>1, <3>2, <3>3 DEF Others, WaitsAtHome, NotForgotten, EachOnce
  <2>3. CASE todo' = Rest(s, <<"close", c>>) /\ UNCHANGED <<tag, active, finalizers>>
    <3>1. \A x \in Finalizer, r \in Scope : <<"run", x>> \in todo'[r] <=> <<"run", x>> \in todo[r]
      BY <2>3 DEF Rest
    <3>2. OneOrOther'
      BY <2>3 DEF OneOrOther, Rest
    <3>3. /\ finalizers' = finalizers /\ active' = active /\ status' = status
          /\ home' = home /\ times' = times /\ cut' = cut
      BY <2>1, <2>3
    <3>4. WaitsAtHome'
      <4> SUFFICES ASSUME NEW y \in Finalizer, NEW r \in Scope
                   PROVE  /\ status[y] = "new" => times[y] = 0
                          /\ <<"run", y>> \in finalizers[r] \cup todo'[r] =>
                               home[y] = r /\ times[y] = 0 /\ status[y] # "new"
        BY <3>3 DEF WaitsAtHome
      <4> QED BY <3>1 DEF WaitsAtHome
    <3>5. NotForgotten'
      <4> SUFFICES ASSUME NEW y \in Finalizer, status[y] = "added"
                   PROVE  <<"run", y>> \in finalizers[home[y]] \cup todo'[home[y]] \/ cut[home[y]]
        BY <3>3 DEF NotForgotten
      <4> QED BY <3>1 DEF NotForgotten
    <3> QED BY <3>2, <3>3, <3>4, <3>5 DEF Others, EachOnce
  <2> QED BY <1>7, <2>2, <2>3 DEF CloseNext, Mutes
<1>8. ASSUME NEW s \in Scope, NEW c \in Scope, EndClose(s, c) PROVE Others'
  <2>1. /\ active' = [active EXCEPT ![s] = @ \ {<<"close", c>>}]
        /\ UNCHANGED <<tag, todo, finalizers, status, home, times, cut>>
    BY <1>8 DEF EndClose, Ended, made, maps, fins
  <2> QED BY <2>1 DEF Others, OneOrOther, WaitsAtHome, NotForgotten, EachOnce
<1>9. ASSUME NEW s \in Scope, ReleaseNext(s) PROVE Others'
  <2>1. /\ todo' = [todo EXCEPT ![s] = @ \ {<<"release", s>>}]
        /\ finalizers' = [finalizers EXCEPT ![parent[s]] = @ \ {<<"close", s>>}]
        /\ UNCHANGED <<tag, active, status, home, times, cut>>
    BY <1>9 DEF ReleaseNext, Rest, made, fins
  <2>2. \A x \in Finalizer, r \in Scope :
          /\ <<"run", x>> \in todo'[r] <=> <<"run", x>> \in todo[r]
          /\ <<"run", x>> \in finalizers'[r] <=> <<"run", x>> \in finalizers[r]
    BY <2>1
  <2>3. OneOrOther'
    BY <2>1 DEF OneOrOther
  <2> QED BY <2>1, <2>2, <2>3 DEF Others, WaitsAtHome, NotForgotten, EachOnce
<1>10. ASSUME NEW s \in Scope, Interrupt(s) PROVE Others'
  <2> DEFINE W == Within(s)
             Cut(x) == \E c \in W : <<"run", x>> \in active[c]
  <2> HIDE DEF W, Cut
  <2>1. /\ todo' = [c \in Scope |-> IF c \in W THEN {} ELSE todo[c]]
        /\ active' = [c \in Scope |-> IF c \in W THEN {} ELSE active[c]]
        /\ cut' = [c \in Scope |-> cut[c] \/ c \in W]
        /\ status' = [x \in Finalizer |-> IF Cut(x) THEN "cut" ELSE status[x]]
        /\ UNCHANGED <<tag, finalizers, home, times>>
    BY <1>10 DEF Interrupt, maps, W, Cut
  <2>2. W \subseteq Scope
    BY DEF W, Within
  <2>3. OneOrOther' /\ EachOnce'
    BY <2>1 DEF OneOrOther, EachOnce
  <2>4. ASSUME NEW x \in Finalizer, Cut(x) PROVE home[x] \in W /\ status[x] # "new"
    <3>1. PICK c \in W : <<"run", x>> \in active[c]
      BY <2>4 DEF Cut
    <3>2. c \in Scope
      BY <2>2
    <3> QED BY <3>1, <3>2 DEF NotForgotten
  <2>5. WaitsAtHome'
    BY <2>1, <2>4 DEF WaitsAtHome
  <2>6. NotForgotten'
    BY <2>1, <2>4 DEF NotForgotten
  <2> QED BY <2>3, <2>5, <2>6 DEF Others
<1>11. ASSUME NEW x \in Finalizer, EndLate(x) PROVE Others'
  <2>1. /\ status[x] = "running" /\ status' = [status EXCEPT ![x] = "ran"]
        /\ UNCHANGED <<tag, todo, active, finalizers, home, times, cut>>
    BY <1>11 DEF EndLate, made, maps, close
  <2> QED BY <2>1 DEF Others, OneOrOther, WaitsAtHome, NotForgotten, EachOnce
<1>12. CASE UNCHANGED vars
  BY <1>12 DEF Others, OneOrOther, WaitsAtHome, NotForgotten, EachOnce, vars, made, maps, close, fins
<1> QED
  BY <1>1, <1>2, <1>3, <1>4, <1>5, <1>6, <1>7, <1>8, <1>9, <1>10, <1>11, <1>12 DEF Next, Closing

\* So it does in every state.
LEMMA Inductive == Spec => []Inv
<1>1. Init => Inv
  BY InitTypes, InitOthers DEF Inv, Others
<1>2. Inv /\ [Next]_vars => Inv'
  <2>1. Inv /\ [Next]_vars => TypeOK'
    BY StepTypes DEF Inv
  <2> QED BY <2>1, StepOthers DEF Inv, Others
<1> QED BY <1>1, <1>2, PTL DEF Spec

\* No finalizer is run twice, whoever adds, forks, closes and is interrupted.
THEOREM FinalizersRunOnce == Spec => []EachOnce
<1>1. Inv => EachOnce
  BY DEF Inv
<1> QED BY <1>1, Inductive, PTL

\* A scope that was closed, without interruption, has run what was added to it:
\* it has nothing left to do, so what waits at home waits nowhere.
THEOREM NothingIsLeftBehind == Spec => []ClosedHasRun
<1>1. Inv => ClosedHasRun
  <2> SUFFICES ASSUME Inv, NEW x \in Finalizer, Done(home[x]), ~cut[home[x]]
               PROVE  status[x] \in {"new", "running", "ran"}
    BY DEF ClosedHasRun
  <2>1. home[x] \in Scope /\ status[x] \in {"new", "added", "running", "ran", "cut"}
    BY DEF Inv, TypeOK
  <2>2. finalizers[home[x]] = {} /\ todo[home[x]] = {}
    BY <2>1 DEF Inv, OneOrOther, Done
  <2> QED BY <2>1, <2>2 DEF Inv, NotForgotten
<1> QED BY <1>1, Inductive, PTL
----------------------------------------------------------------------------
(* What fork adds, and the order things are run in.                         *)

Items(s) == finalizers[s] \cup todo[s] \cup active[s]

\* What fork adds is where fork added it.
Placed ==
  /\ \A s, c \in Scope :
       /\ <<"close", c>> \in Items(s) => tag[c] # "unmade" /\ parent[c] = s
       /\ <<"release", c>> \in Items(s) => c = s /\ linked[c]
  /\ \A c \in Scope : tag[c] = "unmade" => ~linked[c]

\* Only a scope that is Exited runs anything, and one that was cut is done.
Closed ==
  /\ \A s \in Scope :
       /\ tag[s] # "Exited" => active[s] = {} /\ ~interruptible[s] /\ ~cut[s]
       /\ cut[s] => todo[s] = {} /\ active[s] = {}
  /\ \A s, c \in Scope : <<"close", c>> \in active[s] => tag[c] = "Exited"

\* What is begun was added after all that is not, and a sequential scope runs
\* one item.
Ordered ==
  \A s \in Scope :
    /\ IsFiniteSet(active[s])
    /\ limit[s] = 1 => \A i, j \in active[s] : i = j
    /\ \A i \in active[s], j \in todo[s] : key[j] <= key[i]

\* A finalizer that is running is run by its scope, or came too late for a key.
Keyed ==
  \A x \in Finalizer :
    /\ status[x] = "new" => key[<<"run", x>>] = 0
    /\ status[x] = "running" => <<"run", x>> \in active[home[x]] \/ key[<<"run", x>>] = 0

\* A scope that is open will be closed by its parent, and takes itself out of it.
Tied ==
  \A c \in Scope \ {Root} : LET p == parent[c] IN
    /\ tag[c] = "Running" => <<"close", c>> \in finalizers[p] \cup todo[p] \/ cut[p]
    /\ <<"close", c>> \in finalizers[p] =>
         IF linked[c] THEN <<"release", c>> \in finalizers[c] \cup todo[c] \/ cut[c]
         ELSE tag[c] = "Running"

TidyInv == Placed /\ Closed /\ Ordered /\ Keyed /\ Tied

\* Items differ by what they do and whom they do it to.
LEMMA ItemsApart ==
  /\ \A x \in Finalizer, c \in Scope : <<"run", x>> # <<"close", c>> /\ <<"run", x>> # <<"release", c>>
  /\ \A c, d \in Scope : <<"close", c>> # <<"release", d>>
  /\ \A c, d \in Scope : <<"close", c>> = <<"close", d>> => c = d
  /\ \A c, d \in Scope : <<"release", c>> = <<"release", d>> => c = d
  /\ \A x, y \in Finalizer : <<"run", x>> = <<"run", y>> => x = y
OBVIOUS

\* A finalizer that is new, a scope that is unmade and one that is not linked
\* have no item yet.
LEMMA NewItems ==
  ASSUME Inv, TidyInv
  PROVE  /\ \A x \in Finalizer, s \in Scope : status[x] = "new" => <<"run", x>> \notin Items(s)
         /\ \A c, s \in Scope : tag[c] = "unmade" => <<"close", c>> \notin Items(s)
         /\ \A c, s \in Scope : ~linked[c] => <<"release", c>> \notin Items(s)
<1>1. ASSUME NEW x \in Finalizer, NEW s \in Scope, status[x] = "new"
      PROVE  <<"run", x>> \notin Items(s)
  BY <1>1 DEF Inv, WaitsAtHome, NotForgotten, Items
<1>2. \A c, s \in Scope : tag[c] = "unmade" => <<"close", c>> \notin Items(s)
  BY DEF TidyInv, Placed
<1>3. \A c, s \in Scope : ~linked[c] => <<"release", c>> \notin Items(s)
  BY DEF TidyInv, Placed
<1> QED BY <1>1, <1>2, <1>3

\* An item that is new is registered: nothing else changes place or key.
LEMMA Registered ==
  ASSUME TypeOK, NEW s \in Scope, NEW i \in Item, \A r \in Scope : i \notin Items(r),
         Register(s, i), UNCHANGED <<todo, active>>
  PROVE  /\ finalizers' = [finalizers EXCEPT ![s] = @ \cup {i}]
         /\ key' = [key EXCEPT ![i] = nextKey[s]]
         /\ \A r \in Scope, j \in Item : j \in Items(r)' => j \in Items(r) \/ (r = s /\ j = i)
         /\ \A r \in Scope : \A j \in Items(r) : key'[j] = key[j]
<1>1. finalizers' = [finalizers EXCEPT ![s] = @ \cup {i}] /\ key' = [key EXCEPT ![i] = nextKey[s]]
  BY DEF Register
<1>2. \A r \in Scope : finalizers'[r] = IF r = s THEN finalizers[s] \cup {i} ELSE finalizers[r]
  BY <1>1 DEF TypeOK
<1>3. \A r \in Scope, j \in Item : j \in Items(r)' => j \in Items(r) \/ (r = s /\ j = i)
  BY <1>2 DEF Items
<1>4. \A r \in Scope : \A j \in Items(r) : key'[j] = key[j]
  BY <1>1 DEF TypeOK, Items
<1> QED BY <1>1, <1>3, <1>4

\* What is ordered stays so, unless something is begun.
LEMMA OrderedStill ==
  ASSUME TypeOK, Ordered, limit' = limit,
         \A s \in Scope : \/ active'[s] \subseteq active[s] /\ todo'[s] \subseteq todo[s]
                          \/ active'[s] = {},
         \A s \in Scope : \A i \in Items(s) : key'[i] = key[i]
  PROVE  Ordered'
<1> SUFFICES ASSUME NEW s \in Scope
             PROVE  /\ IsFiniteSet(active'[s])
                    /\ limit[s] = 1 => \A i, j \in active'[s] : i = j
                    /\ \A i \in active'[s], j \in todo'[s] : key'[j] <= key'[i]
  BY DEF Ordered
<1>1. CASE active'[s] = {}
  BY <1>1, FS_EmptySet
<1>2. CASE active'[s] \subseteq active[s] /\ todo'[s] \subseteq todo[s]
  <2>1. IsFiniteSet(active'[s])
    BY <1>2, FS_Subset DEF Ordered
  <2>2. \A i \in active[s] \cup todo[s] : key'[i] = key[i]
    BY DEF Items
  <2> QED BY <1>2, <2>1, <2>2 DEF Ordered
<1> QED BY <1>1, <1>2

\* An item that is next is begun.
LEMMA OrderedBegun ==
  ASSUME TypeOK, Ordered, NEW s \in Scope, NEW i \in Item, IsNext(s, i),
         UNCHANGED <<limit, key>>, active' = Begun(s, i),
         todo'[s] = todo[s] \ {i},
         \A r \in Scope : r # s => todo'[r] = todo[r] \/ active[r] = {}
  PROVE  Ordered'
<1>0. i \in todo[s] /\ Cardinality(active[s]) < limit[s] /\ \A j \in todo[s] : key[j] <= key[i]
  BY DEF IsNext
<1> SUFFICES ASSUME NEW r \in Scope
             PROVE  /\ IsFiniteSet(active'[r])
                    /\ limit[r] = 1 => \A a, b \in active'[r] : a = b
                    /\ \A a \in active'[r], b \in todo'[r] : key[b] <= key[a]
  BY DEF Ordered
<1>1. CASE r # s
  <2>1. active'[r] = active[r]
    BY <1>1 DEF Begun, TypeOK
  <2> QED BY <1>1, <2>1 DEF Ordered
<1>2. CASE r = s
  <2>1. active'[s] = active[s] \cup {i}
    BY DEF Begun, TypeOK
  <2>2. IsFiniteSet(active'[s])
    <3> DEFINE a == active[s]
    <3>1. IsFiniteSet(a)
      BY DEF Ordered
    <3> HIDE DEF a
    <3>2. IsFiniteSet(a \cup {i})
      BY <3>1, FS_AddElement
    <3> QED BY <2>1, <3>2 DEF a
  <2>3. limit[s] = 1 => active[s] = {}
    <3>1. IsFiniteSet(active[s])
      BY DEF Ordered
    <3>2. Cardinality(active[s]) \in Nat
      BY <3>1, FS_CardinalityType
    <3>3. limit[s] = 1 => Cardinality(active[s]) = 0
      BY <1>0, <3>2
    <3> QED BY <3>1, <3>3, FS_EmptySet
  <2>4. \A a \in active'[s], b \in todo'[s] : key[b] <= key[a]
    BY <1>0, <2>1 DEF Ordered
  <2> QED BY <1>2, <2>1, <2>2, <2>3, <2>4
<1> QED BY <1>1, <1>2
----------------------------------------------------------------------------
(* A step keeps it.                                                        *)

\* Adding and forking.
LEMMA TidyAdds ==
  ASSUME Inv, TidyInv, NEW s \in Scope, NEW x \in Finalizer, AddFinalizer(s, x)
  PROVE  TidyInv'
<1>0. /\ TypeOK /\ Placed /\ Closed /\ Ordered /\ Keyed /\ Tied
      /\ status[x] = "new" /\ \A r \in Scope : <<"run", x>> \notin Items(r)
      /\ UNCHANGED <<tag, limit, parent, linked, interruptible, cut, todo, active>>
      /\ home' = [home EXCEPT ![x] = s]
  <2>1. \A r \in Scope : <<"run", x>> \notin Items(r)
    BY NewItems DEF AddFinalizer
  <2> QED BY <2>1 DEF Inv, TidyInv, AddFinalizer, made, close
<1>1. Closed'
  BY <1>0 DEF Closed
<1>2. CASE Register(s, <<"run", x>>) /\ status' = [status EXCEPT ![x] = "added"]
  <2> DEFINE i == <<"run", x>>
  <2>0. /\ i \in Item /\ \A r \in Scope : i \notin Items(r)
        /\ \A c \in Scope : i # <<"close", c>> /\ i # <<"release", c>>
        /\ Register(s, i) /\ UNCHANGED <<todo, active>>
        /\ \A y \in Finalizer : y # x => <<"run", y>> # i
    BY <1>0, <1>2, ItemsDiffer
  <2>7. \A c \in Scope : <<"close", c>> \in Item /\ <<"release", c>> \in Item
    BY ItemsDiffer
  <2>8. \A y \in Finalizer : <<"run", y>> \in Item
    BY ItemsDiffer
  <2>9. <<"run", x>> = i
    OBVIOUS
  <2> HIDE DEF i
  <2>1. /\ finalizers' = [finalizers EXCEPT ![s] = @ \cup {i}]
        /\ key' = [key EXCEPT ![i] = nextKey[s]]
        /\ \A r \in Scope, j \in Item : j \in Items(r)' => j \in Items(r) \/ (r = s /\ j = i)
        /\ \A r \in Scope : \A j \in Items(r) : key'[j] = key[j]
    BY <1>0, <2>0, Registered
  <2>2. Placed'
    BY <1>0, <2>0, <2>1, <2>7 DEF Placed
  <2>3. Ordered'
    BY <1>0, <2>1, OrderedStill
  <2>4. Keyed'
    <3> SUFFICES ASSUME NEW y \in Finalizer
                 PROVE  /\ status'[y] = "new" => key'[<<"run", y>>] = 0
                        /\ status'[y] = "running" =>
                             <<"run", y>> \in active'[home'[y]] \/ key'[<<"run", y>>] = 0
      BY DEF Keyed
    <3>1. CASE y = x
      BY <1>0, <1>2, <3>1 DEF TypeOK
    <3>2. CASE y # x
      <4>1. status'[y] = status[y] /\ home'[y] = home[y] /\ active' = active
            /\ key'[<<"run", y>>] = key[<<"run", y>>]
        BY <1>0, <1>2, <2>0, <2>1, <2>8, <3>2 DEF TypeOK
      <4> QED BY <1>0, <4>1 DEF Keyed
    <3> QED BY <3>1, <3>2
  <2>5. Tied'
    <3>1. \A r, c \in Scope : /\ <<"close", c>> \in finalizers'[r] <=> <<"close", c>> \in finalizers[r]
                              /\ <<"release", c>> \in finalizers'[r] <=> <<"release", c>> \in finalizers[r]
      BY <1>0, <2>0, <2>1 DEF TypeOK
    <3> QED BY <1>0, <3>1 DEF Tied, TypeOK
  <2> QED BY <1>1, <2>2, <2>3, <2>4, <2>5 DEF TidyInv
<1>3. CASE Runs(x) /\ UNCHANGED maps
  <2>0. UNCHANGED <<finalizers, key>> /\ status' = [status EXCEPT ![x] = "running"]
    BY <1>3 DEF Runs, maps
  <2>1. \A r \in Scope : Items(r)' = Items(r)
    BY <1>0, <2>0 DEF Items
  <2>2. Placed' /\ Tied'
    BY <1>0, <2>0, <2>1 DEF Placed, Tied
  <2>3. Ordered'
    BY <1>0, <2>0, OrderedStill
  <2>4. Keyed'
    BY <1>0, <2>0 DEF Keyed, TypeOK
  <2> QED BY <1>1, <2>2, <2>3, <2>4 DEF TidyInv
<1> QED BY <1>2, <1>3 DEF AddFinalizer

\* A fork adds the close of a scope, in a map that is open.
LEMMA TidyForks ==
  ASSUME Inv, TidyInv, NEW p \in Scope, NEW c \in Scope, Fork(p, c)
  PROVE  TidyInv'
<1>0. /\ TypeOK /\ Placed /\ Closed /\ Ordered /\ Keyed /\ Tied
      /\ tag[c] = "unmade" /\ ~linked[c] /\ p # c
      /\ \A r \in Scope : <<"close", c>> \notin Items(r)
      /\ UNCHANGED <<limit, linked, interruptible, cut, todo, active, status, home>>
      /\ parent' = [parent EXCEPT ![c] = p]
      /\ tag'[c] \in {"Running", "Exited"} /\ \A d \in Scope : d # c => tag'[d] = tag[d]
  <2>1. TypeOK /\ Placed /\ Closed /\ Ordered /\ Keyed /\ Tied
    BY DEF Inv, TidyInv
  <2>2. tag[c] = "unmade" /\ p # c
    BY DEF Fork, Makes, Known
  <2>3. \A r \in Scope : <<"close", c>> \notin Items(r)
    BY <2>2, NewItems
  <2>4. ~linked[c]
    BY <2>1, <2>2 DEF Placed
  <2>5. /\ UNCHANGED <<limit, linked, interruptible, cut, todo, active, status, home>>
        /\ parent' = [parent EXCEPT ![c] = p]
        /\ tag' = [tag EXCEPT ![c] = "Running"] \/ tag' = [tag EXCEPT ![c] = "Exited"]
    BY DEF Fork, Makes, close, fins
  <2> QED BY <2>1, <2>2, <2>3, <2>4, <2>5 DEF TypeOK
<1>1. Closed'
  BY <1>0 DEF Closed
<1>2. \A d \in Scope : parent'[d] = IF d = c THEN p ELSE parent[d]
  BY <1>0 DEF TypeOK
<1>3. CASE tag'[c] = "Running" /\ Register(p, <<"close", c>>)
  <2> DEFINE i == <<"close", c>>
  <2>0. /\ i \in Item /\ \A r \in Scope : i \notin Items(r)
        /\ \A d \in Scope : i # <<"release", d>> /\ (i = <<"close", d>> <=> d = c)
        /\ Register(p, i) /\ UNCHANGED <<todo, active>>
        /\ \A y \in Finalizer : <<"run", y>> # i
    BY <1>0, <1>3, ItemsDiffer
  <2>7. \A d \in Scope : <<"close", d>> \in Item /\ <<"release", d>> \in Item
    BY ItemsDiffer
  <2>8. \A y \in Finalizer : <<"run", y>> \in Item
    BY ItemsDiffer
  <2> HIDE DEF i
  <2>1. /\ finalizers' = [finalizers EXCEPT ![p] = @ \cup {i}]
        /\ key' = [key EXCEPT ![i] = nextKey[p]]
        /\ \A r \in Scope, j \in Item : j \in Items(r)' => j \in Items(r) \/ (r = p /\ j = i)
        /\ \A r \in Scope : \A j \in Items(r) : key'[j] = key[j]
    BY <1>0, <2>0, Registered
  <2>2. Placed'
    BY <1>0, <1>2, <1>3, <2>0, <2>1, <2>7 DEF Placed
  <2>3. Ordered'
    BY <1>0, <2>1, OrderedStill
  <2>4. Keyed'
    <3>1. \A y \in Finalizer : key'[<<"run", y>>] = key[<<"run", y>>]
      BY <1>0, <2>0, <2>1, <2>8 DEF TypeOK
    <3> QED BY <1>0, <3>1 DEF Keyed
  <2>5. Tied'
    <3>1. /\ \A r, d \in Scope : <<"close", d>> \in finalizers'[r] <=>
                                   <<"close", d>> \in finalizers[r] \/ (r = p /\ d = c)
          /\ \A r, d \in Scope : <<"release", d>> \in finalizers'[r] <=> <<"release", d>> \in finalizers[r]
      BY <1>0, <2>0, <2>1 DEF TypeOK
    <3> SUFFICES ASSUME NEW d \in Scope \ {Root}
                 PROVE  /\ tag'[d] = "Running" =>
                             <<"close", d>> \in finalizers'[parent'[d]] \cup todo'[parent'[d]]
                               \/ cut'[parent'[d]]
                        /\ <<"close", d>> \in finalizers'[parent'[d]] =>
                             IF linked'[d] THEN <<"release", d>> \in finalizers'[d] \cup todo'[d] \/ cut'[d]
                             ELSE tag'[d] = "Running"
      BY DEF Tied
    <3>2. CASE d = c
      BY <1>0, <1>2, <1>3, <3>1, <3>2
    <3>3. CASE d # c
      <4>1. parent'[d] = parent[d] /\ parent[d] \in Scope /\ tag'[d] = tag[d]
        BY <1>0, <1>2, <3>3 DEF TypeOK
      <4> QED BY <1>0, <3>1, <3>3, <4>1 DEF Tied
    <3> QED BY <3>2, <3>3
  <2> QED BY <1>1, <2>2, <2>3, <2>4, <2>5 DEF TidyInv
<1>4. CASE tag'[c] = "Exited" /\ UNCHANGED maps
  <2>0. UNCHANGED <<finalizers, key>>
    BY <1>4 DEF maps
  <2>1. \A r \in Scope : Items(r)' = Items(r)
    BY <1>0, <2>0 DEF Items
  <2>2. Placed'
    BY <1>0, <1>2, <1>4, <2>1 DEF Placed
  <2>3. Ordered'
    BY <1>0, <2>0, OrderedStill
  <2>4. Keyed'
    BY <1>0, <2>0 DEF Keyed
  <2>5. Tied'
    <3>1. \A r \in Scope : <<"close", c>> \notin finalizers[r]
      BY <1>0 DEF Items
    <3> SUFFICES ASSUME NEW d \in Scope \ {Root}
                 PROVE  /\ tag'[d] = "Running" =>
                             <<"close", d>> \in finalizers'[parent'[d]] \cup todo'[parent'[d]]
                               \/ cut'[parent'[d]]
                        /\ <<"close", d>> \in finalizers'[parent'[d]] =>
                             IF linked'[d] THEN <<"release", d>> \in finalizers'[d] \cup todo'[d] \/ cut'[d]
                             ELSE tag'[d] = "Running"
      BY DEF Tied
    <3>2. CASE d = c
      BY <1>0, <1>2, <1>4, <2>0, <3>1, <3>2
    <3>3. CASE d # c
      <4>1. parent'[d] = parent[d] /\ parent[d] \in Scope /\ tag'[d] = tag[d]
        BY <1>0, <1>2, <3>3 DEF TypeOK
      <4> QED BY <1>0, <2>0, <3>3, <4>1 DEF Tied
    <3> QED BY <3>2, <3>3
  <2> QED BY <1>1, <2>2, <2>3, <2>4, <2>5 DEF TidyInv
<1>5. \/ tag'[c] = "Running" /\ Register(p, <<"close", c>>)
      \/ tag'[c] = "Exited" /\ UNCHANGED maps
  <2>1. CASE Makes(p, c, "Running") /\ Register(p, <<"close", c>>)
    BY <1>0, <2>1 DEF Makes, TypeOK
  <2>2. CASE Makes(p, c, "Exited") /\ UNCHANGED maps
    BY <1>0, <2>2 DEF Makes, TypeOK
  <2> QED BY <2>1, <2>2 DEF Fork
<1> QED BY <1>3, <1>4, <1>5

\* ... and what takes it out again.
LEMMA TidyLinks ==
  ASSUME Inv, TidyInv, NEW c \in Scope, Link(c)
  PROVE  TidyInv'
<1>0. /\ TypeOK /\ Placed /\ Closed /\ Ordered /\ Keyed /\ Tied
      /\ tag[c] # "unmade" /\ ~linked[c]
      /\ \A r \in Scope : <<"release", c>> \notin Items(r)
      /\ UNCHANGED <<tag, limit, parent, interruptible, cut, todo, active, status, home>>
      /\ \A d \in Scope : linked'[d] <=> linked[d] \/ d = c
  <2>1. TypeOK /\ Placed /\ Closed /\ Ordered /\ Keyed /\ Tied
    BY DEF Inv, TidyInv
  <2>2. ~linked[c] /\ \A r \in Scope : <<"release", c>> \notin Items(r)
    BY NewItems DEF Link
  <2> QED BY <2>1, <2>2 DEF Link, close, fins, TypeOK
<1>1. Closed'
  BY <1>0 DEF Closed
<1>3. CASE Register(c, <<"release", c>>)
  <2> DEFINE i == <<"release", c>>
  <2>0. /\ i \in Item /\ \A r \in Scope : i \notin Items(r)
        /\ \A d \in Scope : i # <<"close", d>> /\ (i = <<"release", d>> <=> d = c)
        /\ Register(c, i) /\ UNCHANGED <<todo, active>>
        /\ \A y \in Finalizer : <<"run", y>> # i
    BY <1>0, <1>3, ItemsDiffer
  <2>7. \A d \in Scope : <<"close", d>> \in Item /\ <<"release", d>> \in Item
    BY ItemsDiffer
  <2>8. \A y \in Finalizer : <<"run", y>> \in Item
    BY ItemsDiffer
  <2> HIDE DEF i
  <2>1. /\ finalizers' = [finalizers EXCEPT ![c] = @ \cup {i}]
        /\ key' = [key EXCEPT ![i] = nextKey[c]]
        /\ \A r \in Scope, j \in Item : j \in Items(r)' => j \in Items(r) \/ (r = c /\ j = i)
        /\ \A r \in Scope : \A j \in Items(r) : key'[j] = key[j]
    BY <1>0, <2>0, Registered
  <2>2. Placed'
    BY <1>0, <2>0, <2>1, <2>7 DEF Placed
  <2>3. Ordered'
    BY <1>0, <2>1, OrderedStill
  <2>4. Keyed'
    <3>1. \A y \in Finalizer : key'[<<"run", y>>] = key[<<"run", y>>]
      BY <1>0, <2>0, <2>1, <2>8 DEF TypeOK
    <3> QED BY <1>0, <3>1 DEF Keyed
  <2>5. Tied'
    <3>1. /\ \A r, d \in Scope : <<"close", d>> \in finalizers'[r] <=> <<"close", d>> \in finalizers[r]
          /\ \A r, d \in Scope : <<"release", d>> \in finalizers'[r] <=>
                                   <<"release", d>> \in finalizers[r] \/ (r = c /\ d = c)
      BY <1>0, <2>0, <2>1 DEF TypeOK
    <3>2. \A d \in Scope : parent[d] \in Scope
      BY <1>0 DEF TypeOK
    <3> QED BY <1>0, <3>1, <3>2 DEF Tied
  <2> QED BY <1>1, <2>2, <2>3, <2>4, <2>5 DEF TidyInv
<1>4. CASE tag[c] = "Exited" /\ UNCHANGED maps
  <2>0. UNCHANGED <<finalizers, key>>
    BY <1>4 DEF maps
  <2>1. \A r \in Scope : Items(r)' = Items(r)
    BY <1>0, <2>0 DEF Items
  <2>2. Placed' /\ Tied' /\ Keyed'
    BY <1>0, <1>4, <2>0, <2>1 DEF Placed, Tied, Keyed
  <2>3. Ordered'
    BY <1>0, <2>0, OrderedStill
  <2> QED BY <1>1, <2>2, <2>3 DEF TidyInv
<1> QED BY <1>3, <1>4 DEF Link

\* A scope that is closed does next what its map had.
LEMMA TidyClose ==
  ASSUME Inv, TidyInv, NEW s \in Scope, NEW b \in BOOLEAN, Close(s, b)
  PROVE  TidyInv'
<1>0. /\ TypeOK /\ Placed /\ Closed /\ Ordered /\ Keyed /\ Tied
      /\ tag[s] = "Running" /\ linked[s] /\ tag' = [tag EXCEPT ![s] = "Exited"]
      /\ todo' = [todo EXCEPT ![s] = finalizers[s]]
      /\ finalizers' = [finalizers EXCEPT ![s] = {}]
      /\ interruptible' = [interruptible EXCEPT ![s] = b]
      /\ UNCHANGED <<limit, parent, linked, cut, key, active, status, home>>
  BY DEF Inv, TidyInv, Close, Mutes, Known, fins
<1>1. todo[s] = {} /\ active[s] = {} /\ ~cut[s]
  BY <1>0 DEF Inv, OneOrOther, Closed
<1>2. \A r \in Scope : Items(r)' = Items(r)
  BY <1>0, <1>1 DEF Items, TypeOK
<1>3. Placed'
  BY <1>0, <1>2 DEF Placed, TypeOK
<1>4. Closed'
  BY <1>0, <1>1 DEF Closed, TypeOK
<1>5. Ordered'
  <2>1. \A r \in Scope : \/ active'[r] \subseteq active[r] /\ todo'[r] \subseteq todo[r]
                        \/ active'[r] = {}
    BY <1>0, <1>1 DEF TypeOK
  <2>2. \A r \in Scope : \A i \in Items(r) : key'[i] = key[i]
    BY <1>0
  <2> QED BY <1>0, <2>1, <2>2, OrderedStill
<1>6. Keyed'
  BY <1>0 DEF Keyed
<1>7. Tied'
  <2>1. \A r \in Scope : /\ finalizers'[r] = IF r = s THEN {} ELSE finalizers[r]
                         /\ finalizers'[r] \cup todo'[r] = finalizers[r] \cup todo[r]
                         /\ tag'[r] = IF r = s THEN "Exited" ELSE tag[r]
    BY <1>0, <1>1 DEF TypeOK
  <2> SUFFICES ASSUME NEW d \in Scope \ {Root}
               PROVE  /\ tag'[d] = "Running" =>
                           <<"close", d>> \in finalizers'[parent[d]] \cup todo'[parent[d]] \/ cut[parent[d]]
                      /\ <<"close", d>> \in finalizers'[parent[d]] =>
                           IF linked[d] THEN <<"release", d>> \in finalizers'[d] \cup todo'[d] \/ cut[d]
                           ELSE tag'[d] = "Running"
    BY <1>0 DEF Tied
  <2>2. parent[d] \in Scope
    BY <1>0 DEF TypeOK
  <2>3. tag'[d] = "Running" => tag[d] = "Running"
    BY <2>1
  <2>4. <<"close", d>> \in finalizers'[parent[d]] => <<"close", d>> \in finalizers[parent[d]]
    BY <2>1, <2>2
  <2>5. ~linked[d] => tag'[d] = tag[d]
    BY <1>0, <2>1
  <2> QED BY <2>1, <2>2, <2>3, <2>4, <2>5, <1>0 DEF Tied
<1> QED BY <1>3, <1>4, <1>5, <1>6, <1>7 DEF TidyInv

\* The effect that was added last begins.
LEMMA TidyRunNext ==
  ASSUME Inv, TidyInv, NEW s \in Scope, NEW x \in Finalizer, RunNext(s, x)
  PROVE  TidyInv'
<1> DEFINE i == <<"run", x>>
<1>0. /\ TypeOK /\ Placed /\ Closed /\ Ordered /\ Keyed /\ Tied
      /\ IsNext(s, i) /\ i \in todo[s] /\ i \in Item
      /\ todo' = [todo EXCEPT ![s] = @ \ {i}] /\ active' = Begun(s, i)
      /\ active' = [active EXCEPT ![s] = @ \cup {i}]
      /\ status' = [status EXCEPT ![x] = "running"]
      /\ UNCHANGED <<tag, limit, parent, linked, interruptible, cut, key, finalizers, home>>
      /\ \A c \in Scope : i # <<"close", c>> /\ i # <<"release", c>>
      /\ \A y \in Finalizer : y # x => <<"run", y>> # i
  BY ItemsDiffer, ItemsApart DEF Inv, TidyInv, RunNext, IsNext, Rest, Begun, Runs, made, maps
<1>1. tag[s] = "Exited" /\ ~cut[s] /\ home[x] = s
  BY <1>0 DEF Inv, OneOrOther, WaitsAtHome, Closed
<1>9. i = <<"run", x>>
  OBVIOUS
<1> HIDE DEF i
<1>2. \A r \in Scope : Items(r)' = Items(r)
  BY <1>0 DEF Items, TypeOK
<1>3. Placed'
  BY <1>0, <1>2 DEF Placed
<1>4. Closed'
  BY <1>0, <1>1 DEF Closed, TypeOK
<1>5. Ordered'
  <2>1. todo'[s] = todo[s] \ {i} /\ \A r \in Scope : r # s => todo'[r] = todo[r] \/ active[r] = {}
    BY <1>0 DEF TypeOK
  <2> QED BY <1>0, <2>1, OrderedBegun
<1>6. Keyed'
  <2>1. \A y \in Finalizer : y # x => status'[y] = status[y]
    BY <1>0 DEF TypeOK
  <2>2. \A r \in Scope : active[r] \subseteq active'[r]
    BY <1>0 DEF TypeOK
  <2>3. status'[x] = "running" /\ <<"run", x>> \in active'[home[x]]
    BY <1>0, <1>1, <1>9 DEF TypeOK
  <2>4. \A y \in Finalizer : home[y] \in Scope
    BY <1>0 DEF TypeOK
  <2> QED BY <1>0, <2>1, <2>2, <2>3, <2>4 DEF Keyed
<1>7. Tied'
  <2>1. \A r, d \in Scope : /\ <<"close", d>> \in todo'[r] <=> <<"close", d>> \in todo[r]
                            /\ <<"release", d>> \in todo'[r] <=> <<"release", d>> \in todo[r]
    BY <1>0 DEF TypeOK
  <2>2. \A d \in Scope : parent[d] \in Scope
    BY <1>0 DEF TypeOK
  <2> QED BY <1>0, <2>1, <2>2 DEF Tied
<1> QED BY <1>3, <1>4, <1>5, <1>6, <1>7 DEF TidyInv

\* An item ends.
LEMMA TidyEnds ==
  ASSUME Inv, TidyInv, NEW s \in Scope, NEW i \in Item, i \in active[s], Ended(s, i),
         UNCHANGED <<made, maps, todo, home>>,
         \A x \in Finalizer : \/ status'[x] = status[x] /\ <<"run", x>> # i
                              \/ status'[x] = "ran"
  PROVE  TidyInv'
<1>0. /\ TypeOK /\ Placed /\ Closed /\ Ordered /\ Keyed /\ Tied
      /\ active' = [active EXCEPT ![s] = @ \ {i}]
      /\ UNCHANGED <<tag, limit, parent, linked, interruptible, cut, key, finalizers, todo, home>>
  BY DEF Inv, TidyInv, Ended, made, maps
<1>1. \A r \in Scope : active'[r] \subseteq active[r]
  BY <1>0 DEF TypeOK
<1>2. \A r \in Scope : Items(r)' \subseteq Items(r)
  BY <1>0, <1>1 DEF Items
<1>3. Placed'
  BY <1>0, <1>2 DEF Placed
<1>4. Closed'
  BY <1>0, <1>1 DEF Closed
<1>5. Ordered'
  BY <1>0, <1>1, OrderedStill
<1>6. Keyed'
  <2> SUFFICES ASSUME NEW x \in Finalizer, status'[x] # "ran"
               PROVE  /\ status[x] = "new" => key[<<"run", x>>] = 0
                      /\ status[x] = "running" => <<"run", x>> \in active'[home[x]] \/ key[<<"run", x>>] = 0
    BY <1>0 DEF Keyed
  <2>1. home[x] \in Scope /\ <<"run", x>> # i
    BY <1>0 DEF TypeOK
  <2>2. <<"run", x>> \in active[home[x]] => <<"run", x>> \in active'[home[x]]
    BY <1>0, <2>1 DEF TypeOK
  <2> QED BY <1>0, <2>2 DEF Keyed
<1>7. Tied'
  BY <1>0 DEF Tied
<1> QED BY <1>3, <1>4, <1>5, <1>6, <1>7 DEF TidyInv

\* A scope that was forked is closed, if it is not closed yet.
LEMMA TidyCloseNext ==
  ASSUME Inv, TidyInv, NEW s \in Scope, NEW c \in Scope, CloseNext(s, c)
  PROVE  TidyInv'
<1> DEFINE i == <<"close", c>>
<1>0. /\ TypeOK /\ Placed /\ Closed /\ Ordered /\ Keyed /\ Tied
      /\ IsNext(s, i) /\ i \in todo[s] /\ i \in Item
      /\ UNCHANGED <<limit, parent, linked, interruptible, cut, key, status, home>>
      /\ \A d \in Scope : i # <<"release", d>> /\ (<<"close", d>> = i => d = c)
  BY ItemsDiffer, ItemsApart DEF Inv, TidyInv, CloseNext, IsNext, fins
<1>1. tag[s] = "Exited" /\ ~cut[s] /\ finalizers[s] = {} /\ parent[c] = s
  BY <1>0 DEF Inv, OneOrOther, Closed, Placed, Items
<1>2. \/ /\ tag[c] = "Running" /\ tag' = [tag EXCEPT ![c] = "Exited"]
         /\ todo' = [[todo EXCEPT ![s] = @ \ {i}] EXCEPT ![c] = finalizers[c]]
         /\ active' = [active EXCEPT ![s] = @ \cup {i}] /\ active' = Begun(s, i)
         /\ finalizers' = [finalizers EXCEPT ![c] = {}]
      \/ /\ tag[c] = "Exited" /\ todo' = [todo EXCEPT ![s] = @ \ {i}]
         /\ UNCHANGED <<tag, active, finalizers>>
  BY DEF CloseNext, Mutes, Rest, Begun
<1>3. <<"close", c>> = i
  OBVIOUS
<1> HIDE DEF i
<1>4. CASE /\ tag[c] = "Running" /\ tag' = [tag EXCEPT ![c] = "Exited"]
           /\ todo' = [[todo EXCEPT ![s] = @ \ {i}] EXCEPT ![c] = finalizers[c]]
           /\ active' = [active EXCEPT ![s] = @ \cup {i}] /\ active' = Begun(s, i)
           /\ finalizers' = [finalizers EXCEPT ![c] = {}]
  <2>1. c # s /\ todo[c] = {} /\ active[c] = {} /\ ~cut[c]
    BY <1>0, <1>1, <1>4 DEF Inv, OneOrOther, Closed
  <2>2. \A r \in Scope :
          /\ todo'[r] = IF r = c THEN finalizers[c] ELSE IF r = s THEN todo[s] \ {i} ELSE todo[r]
          /\ active'[r] = IF r = s THEN active[s] \cup {i} ELSE active[r]
          /\ finalizers'[r] = IF r = c THEN {} ELSE finalizers[r]
          /\ tag'[r] = IF r = c THEN "Exited" ELSE tag[r]
    BY <1>4, <2>1, <1>0 DEF TypeOK
  <2>3. \A r \in Scope : Items(r)' = Items(r)
    <3> SUFFICES ASSUME NEW r \in Scope PROVE Items(r)' = Items(r)
      OBVIOUS
    <3>1. CASE r = c
      BY <2>1, <2>2, <3>1 DEF Items
    <3>2. CASE r # c
      BY <1>0, <2>2, <3>2 DEF Items
    <3> QED BY <3>1, <3>2
  <2>4. Placed'
    BY <1>0, <2>2, <2>3 DEF Placed
  <2>5. Closed'
    BY <1>0, <1>1, <1>3, <2>1, <2>2 DEF Closed
  <2>6. Ordered'
    <3>1. todo'[s] = todo[s] \ {i} /\ \A r \in Scope : r # s => todo'[r] = todo[r] \/ active[r] = {}
      BY <2>1, <2>2
    <3> QED BY <1>0, <1>4, <3>1, OrderedBegun
  <2>7. Keyed'
    <3>1. \A r \in Scope : active[r] \subseteq active'[r]
      BY <2>2
    <3>2. \A y \in Finalizer : home[y] \in Scope
      BY <1>0 DEF TypeOK
    <3> QED BY <1>0, <3>1, <3>2 DEF Keyed
  <2>8. Tied'
    <3> SUFFICES ASSUME NEW d \in Scope \ {Root}
                 PROVE  /\ tag'[d] = "Running" =>
                             <<"close", d>> \in finalizers'[parent[d]] \cup todo'[parent[d]] \/ cut[parent[d]]
                        /\ <<"close", d>> \in finalizers'[parent[d]] =>
                             IF linked[d] THEN <<"release", d>> \in finalizers'[d] \cup todo'[d] \/ cut[d]
                             ELSE tag'[d] = "Running"
      BY <1>0 DEF Tied
    <3>1. parent[d] \in Scope
      BY <1>0 DEF TypeOK
    <3>2. tag'[d] = "Running" => tag[d] = "Running" /\ <<"close", d>> # i
      BY <1>0, <2>2
    <3>3. tag'[d] = "Running" =>
            <<"close", d>> \in finalizers'[parent[d]] \cup todo'[parent[d]] \/ cut[parent[d]]
      BY <1>0, <2>1, <2>2, <3>1, <3>2 DEF Tied
    <3>4. <<"close", d>> \in finalizers'[parent[d]] => <<"close", d>> \in finalizers[parent[d]] /\ d # c
      BY <1>1, <2>2, <3>1
    <3>5. <<"release", d>> \in finalizers[d] \cup todo[d] => <<"release", d>> \in finalizers'[d] \cup todo'[d]
      <4>1. <<"release", d>> # i
        BY <1>0
      <4>2. CASE d = c
        BY <2>1, <2>2, <4>2
      <4>3. CASE d # c
        BY <2>2, <4>1, <4>3
      <4> QED BY <4>2, <4>3
    <3>6. d # c => tag'[d] = tag[d]
      BY <2>2
    <3> QED BY <1>0, <3>3, <3>4, <3>5, <3>6 DEF Tied
  <2> QED BY <2>4, <2>5, <2>6, <2>7, <2>8 DEF TidyInv
<1>5. CASE /\ tag[c] = "Exited" /\ todo' = [todo EXCEPT ![s] = @ \ {i}]
           /\ UNCHANGED <<tag, active, finalizers>>
  <2>1. \A r \in Scope : todo'[r] \subseteq todo[r] /\ \A j \in todo[r] : j # i => j \in todo'[r]
    BY <1>0, <1>5 DEF TypeOK
  <2>2. \A r \in Scope : Items(r)' \subseteq Items(r)
    BY <1>5, <2>1 DEF Items
  <2>3. Placed'
    BY <1>0, <1>5, <2>2 DEF Placed
  <2>4. Closed'
    BY <1>0, <1>5, <2>1 DEF Closed
  <2>5. Ordered'
    <3>1. \A r \in Scope : active'[r] \subseteq active[r] /\ todo'[r] \subseteq todo[r]
      BY <1>5, <2>1
    <3> QED BY <1>0, <3>1, OrderedStill
  <2>6. Keyed'
    BY <1>0, <1>5 DEF Keyed
  <2>7. Tied'
    <3> SUFFICES ASSUME NEW d \in Scope \ {Root}
                 PROVE  /\ tag[d] = "Running" =>
                             <<"close", d>> \in finalizers[parent[d]] \cup todo'[parent[d]] \/ cut[parent[d]]
                        /\ <<"close", d>> \in finalizers[parent[d]] =>
                             IF linked[d] THEN <<"release", d>> \in finalizers[d] \cup todo'[d] \/ cut[d]
                             ELSE tag[d] = "Running"
      BY <1>0, <1>5 DEF Tied
    <3>1. parent[d] \in Scope
      BY <1>0 DEF TypeOK
    <3>2. tag[d] = "Running" => <<"close", d>> # i
      BY <1>0, <1>5
    <3> QED BY <1>0, <2>1, <3>1, <3>2 DEF Tied
  <2> QED BY <2>3, <2>4, <2>5, <2>6, <2>7 DEF TidyInv
<1> QED BY <1>2, <1>4, <1>5

\* A scope takes itself out of its parent.
LEMMA TidyReleaseNext ==
  ASSUME Inv, TidyInv, NEW s \in Scope, ReleaseNext(s)
  PROVE  TidyInv'
<1> DEFINE i == <<"release", s>>
           j == <<"close", s>>
<1>0. /\ TypeOK /\ Placed /\ Closed /\ Ordered /\ Keyed /\ Tied
      /\ i \in todo[s] /\ todo' = [todo EXCEPT ![s] = @ \ {i}]
      /\ finalizers' = [finalizers EXCEPT ![parent[s]] = @ \ {j}]
      /\ UNCHANGED <<tag, limit, parent, linked, interruptible, cut, key, active, status, home>>
      /\ \A d \in Scope : /\ <<"close", d>> # i /\ (<<"release", d>> = i => d = s)
                          /\ <<"release", d>> # j /\ (<<"close", d>> = j => d = s)
  BY ItemsApart DEF Inv, TidyInv, ReleaseNext, IsNext, Rest, made, fins
<1>1. tag[s] = "Exited" /\ parent[s] \in Scope
  BY <1>0 DEF Inv, OneOrOther, TypeOK
<1>2. j = <<"close", s>>
  OBVIOUS
<1> HIDE DEF i, j
<1>3. \A r \in Scope : /\ todo'[r] \subseteq todo[r] /\ \A k \in todo[r] : k # i => k \in todo'[r]
                       /\ finalizers'[r] \subseteq finalizers[r]
                       /\ \A k \in finalizers[r] : k # j => k \in finalizers'[r]
  BY <1>0, <1>1 DEF TypeOK
<1>4. j \notin finalizers'[parent[s]]
  BY <1>0, <1>1 DEF TypeOK
<1>5. \A r \in Scope : Items(r)' \subseteq Items(r)
  BY <1>0, <1>3 DEF Items
<1>6. Placed'
  BY <1>0, <1>5 DEF Placed
<1>7. Closed'
  BY <1>0, <1>3 DEF Closed
<1>8. Ordered'
  <2>1. \A r \in Scope : active'[r] \subseteq active[r] /\ todo'[r] \subseteq todo[r]
    BY <1>0, <1>3
  <2> QED BY <1>0, <2>1, OrderedStill
<1>9. Keyed'
  BY <1>0 DEF Keyed
<1>10. Tied'
  <2> SUFFICES ASSUME NEW d \in Scope \ {Root}
               PROVE  /\ tag[d] = "Running" =>
                           <<"close", d>> \in finalizers'[parent[d]] \cup todo'[parent[d]] \/ cut[parent[d]]
                      /\ <<"close", d>> \in finalizers'[parent[d]] =>
                           IF linked[d] THEN <<"release", d>> \in finalizers'[d] \cup todo'[d] \/ cut[d]
                           ELSE tag[d] = "Running"
    BY <1>0 DEF Tied
  <2>1. parent[d] \in Scope
    BY <1>0 DEF TypeOK
  <2>2. CASE d = s
    BY <1>1, <1>2, <1>4, <2>2
  <2>3. CASE d # s
    <3>1. /\ <<"close", d>> # i /\ <<"close", d>> # j
          /\ <<"release", d>> # i /\ <<"release", d>> # j
      BY <1>0, <2>3
    <3> QED BY <1>0, <1>3, <2>1, <3>1 DEF Tied
  <2> QED BY <2>2, <2>3
<1> QED BY <1>6, <1>7, <1>8, <1>9, <1>10 DEF TidyInv

\* What is closed on behalf of a scope that is closed is closed: it is in every
\* set that holds the scope and, with a scope, those whose close it runs.
LEMMA WithinClosed ==
  ASSUME TypeOK, Closed, NEW s \in Scope, tag[s] = "Exited"
  PROVE  \A c \in Within(s) : c \in Scope /\ tag[c] = "Exited"
<1> DEFINE T == {c \in Scope : tag[c] = "Exited"}
<1>1. T \in SUBSET Scope /\ s \in T
  OBVIOUS
<1>2. \A a \in T, b \in Scope : <<"close", b>> \in active[a] => b \in T
  BY DEF Closed
<1> HIDE DEF T
<1>3. Within(s) \subseteq T
  BY <1>1, <1>2 DEF Within
<1> QED BY <1>3 DEF T

\* What is not begun is dropped.
LEMMA TidyInterrupt ==
  ASSUME Inv, TidyInv, NEW s \in Scope, Interrupt(s)
  PROVE  TidyInv'
<1> DEFINE W == Within(s)
           Cut(x) == \E c \in W : <<"run", x>> \in active[c]
<1>0. TypeOK /\ Placed /\ Closed /\ Ordered /\ Keyed /\ Tied
  BY DEF Inv, TidyInv
<1>1. tag[s] = "Exited"
  BY <1>0 DEF Interrupt, Closed
<1>2. \A c \in W : c \in Scope /\ tag[c] = "Exited"
  BY <1>0, <1>1, WithinClosed
<1>3. /\ todo' = [c \in Scope |-> IF c \in W THEN {} ELSE todo[c]]
      /\ active' = [c \in Scope |-> IF c \in W THEN {} ELSE active[c]]
      /\ cut' = [c \in Scope |-> cut[c] \/ c \in W]
      /\ interruptible' = [interruptible EXCEPT ![s] = FALSE]
      /\ status' = [x \in Finalizer |-> IF Cut(x) THEN "cut" ELSE status[x]]
      /\ UNCHANGED <<tag, limit, parent, linked, key, finalizers, home>>
  BY DEF Interrupt, maps
<1>9. \A x \in Finalizer : ~Cut(x) => \A c \in W : <<"run", x>> \notin active[c]
  OBVIOUS
<1> HIDE DEF W, Cut
<1>4. \A r \in Scope : /\ todo'[r] \subseteq todo[r] /\ active'[r] \subseteq active[r]
                       /\ r \notin W => todo'[r] = todo[r] /\ active'[r] = active[r] /\ cut'[r] = cut[r]
                       /\ r \in W => todo'[r] = {} /\ active'[r] = {} /\ cut'[r]
                       /\ cut[r] => cut'[r]
                       /\ interruptible'[r] => interruptible[r]
  BY <1>0, <1>3 DEF TypeOK
<1>5. Placed'
  <2>1. \A r \in Scope : Items(r)' \subseteq Items(r)
    BY <1>3, <1>4 DEF Items
  <2> QED BY <1>0, <1>3, <2>1 DEF Placed
<1>6. Closed'
  BY <1>0, <1>2, <1>3, <1>4 DEF Closed
<1>7. Ordered'
  BY <1>0, <1>3, <1>4, OrderedStill
<1>8. Keyed'
  <2> SUFFICES ASSUME NEW x \in Finalizer, status'[x] \in {"new", "running"}
               PROVE  /\ status[x] = "new" => key[<<"run", x>>] = 0
                      /\ status[x] = "running" => <<"run", x>> \in active'[home[x]] \/ key[<<"run", x>>] = 0
                      /\ status'[x] = status[x]
    BY <1>3 DEF Keyed
  <2>1. ~Cut(x) /\ status'[x] = status[x] /\ home[x] \in Scope
    BY <1>0, <1>3 DEF TypeOK
  <2>2. <<"run", x>> \in active[home[x]] => <<"run", x>> \in active'[home[x]]
    BY <1>4, <1>9, <2>1
  <2> QED BY <1>0, <2>1, <2>2 DEF Keyed
<1>10. Tied'
  <2> SUFFICES ASSUME NEW d \in Scope \ {Root}
               PROVE  /\ tag[d] = "Running" =>
                           <<"close", d>> \in finalizers[parent[d]] \cup todo'[parent[d]] \/ cut'[parent[d]]
                      /\ <<"close", d>> \in finalizers[parent[d]] =>
                           IF linked[d] THEN <<"release", d>> \in finalizers[d] \cup todo'[d] \/ cut'[d]
                           ELSE tag[d] = "Running"
    BY <1>3 DEF Tied
  <2>1. parent[d] \in Scope
    BY <1>0 DEF TypeOK
  <2> QED BY <1>0, <1>4, <2>1 DEF Tied
<1> QED BY <1>5, <1>6, <1>7, <1>8, <1>10 DEF TidyInv

\* The order of what runs, and the ties of forked scopes, hold at first,
LEMMA TidyInit == Init => TidyInv
<1> SUFFICES ASSUME Init PROVE TidyInv
  OBVIOUS
<1>1. \A s \in Scope : Items(s) = {} /\ active[s] = {} /\ todo[s] = {}
  BY DEF Init, Items
<1>2. Placed
  BY <1>1 DEF Init, Placed
<1>3. Closed
  BY <1>1 DEF Init, Closed
<1>4. Ordered
  BY <1>1, FS_EmptySet DEF Ordered
<1>5. Keyed
  BY ItemsDiffer DEF Init, Keyed
<1>6. Tied
  <2>1. \A c \in Scope \ {Root} : tag[c] = "unmade" /\ finalizers[parent[c]] = {}
    BY DEF Init
  <2> QED BY <2>1 DEF Tied
<1> QED BY <1>2, <1>3, <1>4, <1>5, <1>6 DEF TidyInv

\* ... after every step,
LEMMA TidyNext == Inv /\ TidyInv /\ [Next]_vars => TidyInv'
<1> SUFFICES ASSUME Inv, TidyInv, [Next]_vars PROVE TidyInv'
  OBVIOUS
<1>1. ASSUME NEW s \in Scope, NEW x \in Finalizer, EndRun(s, x) PROVE TidyInv'
  <2> DEFINE i == <<"run", x>>
  <2>1. i \in Item /\ i \in active[s] /\ Ended(s, i) /\ UNCHANGED <<made, maps, todo, home>>
    BY <1>1, ItemsDiffer DEF EndRun
  <2>2. \A y \in Finalizer : \/ status'[y] = status[y] /\ <<"run", y>> # i
                            \/ status'[y] = "ran"
    BY <1>1, ItemsApart DEF EndRun, Inv, TypeOK
  <2> HIDE DEF i
  <2> QED BY <2>1, <2>2, TidyEnds
<1>2. ASSUME NEW s \in Scope, NEW c \in Scope, EndClose(s, c) PROVE TidyInv'
  <2> DEFINE i == <<"close", c>>
  <2>1. i \in Item /\ i \in active[s] /\ Ended(s, i) /\ UNCHANGED <<made, maps, todo, home>>
    BY <1>2, ItemsDiffer DEF EndClose, fins
  <2>2. \A y \in Finalizer : \/ status'[y] = status[y] /\ <<"run", y>> # i
                            \/ status'[y] = "ran"
    BY <1>2, ItemsDiffer DEF EndClose, fins
  <2> HIDE DEF i
  <2> QED BY <2>1, <2>2, TidyEnds
<1>3. ASSUME NEW x \in Finalizer, EndLate(x) PROVE TidyInv'
  <2>1. /\ \A y \in Finalizer : status'[y] = status[y] \/ status'[y] = "ran"
        /\ UNCHANGED <<tag, limit, parent, linked, interruptible, cut, key, finalizers, todo, active, home>>
    BY <1>3 DEF EndLate, made, maps, close, Inv, TypeOK
  <2>2. Keyed'
    BY <2>1 DEF TidyInv, Keyed
  <2> QED BY <2>1, <2>2 DEF TidyInv, Placed, Closed, Ordered, Tied, Items
<1>4. CASE UNCHANGED vars
  BY <1>4 DEF vars, made, maps, close, fins, TidyInv, Placed, Closed, Ordered, Keyed, Tied, Items
<1> QED
  BY <1>1, <1>2, <1>3, <1>4, TidyAdds, TidyForks, TidyLinks, TidyClose, TidyRunNext, TidyCloseNext,
     TidyReleaseNext, TidyInterrupt DEF Next, Closing

\* ... and so always.
LEMMA TidyInductive == Spec => [](Inv /\ TidyInv)
<1> QED BY TidyInit, TidyNext, Inductive, PTL DEF Spec

\* A finalizer that was added later and is not done is either to be begun, and then
\* after none that is running; or running too, in a scope that runs one at a time.
LEMMA RunsInReverse ==
  ASSUME Inv, TidyInv, NEW s \in Scope, NEW x \in Finalizer, NEW y \in Finalizer,
         limit[s] = 1, home[x] = s, home[y] = s, status[y] \notin {"new", "cut"},
         key[<<"run", x>>] < key[<<"run", y>>], <<"run", x>> \in active[s]
  PROVE  status[y] = "ran"
<1>0. /\ TypeOK /\ Closed /\ Ordered /\ Keyed
      /\ <<"run", x>> \in Item /\ <<"run", y>> \in Item /\ (<<"run", x>> = <<"run", y>> => x = y)
  BY ItemsDiffer, ItemsApart DEF Inv, TidyInv
<1>1. key[<<"run", x>>] \in Nat /\ key[<<"run", y>>] \in Nat /\ status[y] \in {"added", "running", "ran"}
  BY <1>0 DEF TypeOK
<1>2. status[y] # "added"
  <2>1. tag[s] = "Exited" /\ ~cut[s] /\ finalizers[s] = {}
    BY <1>0 DEF Closed, Inv, OneOrOther
  <2>2. <<"run", y>> \notin todo[s]
    BY <1>0, <1>1 DEF Ordered
  <2> QED BY <2>1, <2>2 DEF Inv, NotForgotten
<1>3. status[y] # "running"
  <2>1. SUFFICES ASSUME status[y] = "running" PROVE FALSE
    OBVIOUS
  <2>2. <<"run", y>> \in active[s]
    BY <1>0, <1>1, <2>1 DEF Keyed
  <2>3. <<"run", x>> = <<"run", y>>
    BY <1>0, <2>2 DEF Ordered
  <2> QED BY <1>1, <2>3
<1> QED BY <1>1, <1>2, <1>3

\* The effects of a sequential scope run in the reverse order; a close that no interruption
\* cut short leaves no scope open that was forked from its scope, and does not leave its
\* own scope in the one it is linked to.
THEOREM ScopesStayTidy == Spec => []ScopesTidy
<1>1. Inv /\ TidyInv => ReverseOrder
  BY RunsInReverse DEF ReverseOrder
<1>2. Inv /\ TidyInv => ChildrenTidy
  <2> SUFFICES ASSUME Inv, TidyInv, NEW c \in Scope \ {Root}
               PROVE  /\ tag[c] # "unmade" /\ Done(parent[c]) /\ ~cut[parent[c]] => tag[c] = "Exited"
                      /\ linked[c] /\ Done(c) /\ ~cut[c] => <<"close", c>> \notin finalizers[parent[c]]
    BY DEF ChildrenTidy
  <2>1. parent[c] \in Scope /\ tag[c] \in {"unmade", "Running", "Exited"}
    BY DEF Inv, TypeOK
  <2>2. \A s \in Scope : Done(s) => finalizers[s] \cup todo[s] = {}
    BY DEF Done, Inv, OneOrOther
  <2> QED BY <2>1, <2>2 DEF TidyInv, Tied
<1>3. Inv /\ TidyInv => ScopesTidy
  BY <1>1, <1>2 DEF ScopesTidy
<1> QED BY <1>3, TidyInductive, PTL
=============================================================================
