------------------------------- MODULE Scopes -------------------------------
(***************************************************************************)
(* Scopes: the ReleaseMap of src/internal/core.ts, and scopeMake, fork,     *)
(* addFinalizer and close of src/internal/fiberRuntime.ts.                  *)
(*                                                                         *)
(* The map of a scope has items, by key: finalizers of the program, and two *)
(* that fork adds, <<"close", c>> in the parent of c and <<"release", c>>,  *)
(* which takes the first out again, in c.  Any fiber may add, fork and      *)
(* close at any time.  A fiber may be made to yield between two effects, so *)
(* fork is two steps, and closing a scope is as many as it has items.  (A   *)
(* close of a scope that is closed already does nothing.)                   *)
(***************************************************************************)
EXTENDS Integers, FiniteSets

CONSTANTS
  Scope,          \* the scopes there may be
  Root,           \* the one there is
  Finalizer,      \* the finalizers of the program, each added once
  Limits          \* how many items each scope may run at a time, to consider:
                  \* one if it is sequential, n if it is parallelN(n)

ASSUME ScopeAssumption == Root \in Scope /\ Limits \subseteq [Scope -> Nat \ {0}]

Item == ({"run"} \X Finalizer) \cup ({"close", "release"} \X Scope)

VARIABLES
  tag,            \* "unmade", "Running" or "Exited"
  limit,          \* which of Limits there are
  parent,         \* the scope a scope was forked from
  linked,         \* whether the fork that makes it has returned
  nextKey, key,   \* the key each item got, in its scope
  finalizers,     \* the items of the map of a scope that is Running
  todo, active,   \* of one that is Exited: items not begun, and not ended
  interruptible,  \* whether it was closed where it can be interrupted
  cut,            \* history: whether it was, in the midst of it
  status,         \* of a finalizer: "new", "added", "running", "ran" or "cut"
  home,           \* history: the scope it was added to
  times           \* history: how often it was begun

made  == <<tag, limit, parent, linked, interruptible, cut>>
maps  == <<nextKey, key, finalizers>>
close == <<todo, active>>
fins  == <<status, home, times>>
vars  == <<made, maps, close, fins>>

Known(s) == tag[s] # "unmade" /\ linked[s]
Done(s)  == tag[s] = "Exited" /\ todo[s] = {} /\ active[s] = {}
----------------------------------------------------------------------------
(* Adding.                                                                 *)

\* Mutant of Register: the finalizer without its key.
RegisterBare(s, i) ==
  /\ finalizers' = [finalizers EXCEPT ![s] = @ \cup {i[2]}]
  /\ UNCHANGED <<key, nextKey>>

\* releaseMapAddIfOpen, of a map that is Running.  (One that is Exited only
\* counts the key.)
Register(s, i) ==
  /\ finalizers' = [finalizers EXCEPT ![s] = @ \cup {i}]
  /\ key' = [key EXCEPT ![i] = nextKey[s]]
  /\ nextKey' = [nextKey EXCEPT ![s] = @ + 1]

Runs(x) == /\ status' = [status EXCEPT ![x] = "running"]
           /\ times' = [times EXCEPT ![x] = @ + 1]

\* Mutant of AddFinalizer: it does not look whether the scope is closed.
AddBlindly(s, x) ==
  /\ Known(s) /\ status[x] = "new"
  /\ Register(s, <<"run", x>>) /\ status' = [status EXCEPT ![x] = "added"]
  /\ home' = [home EXCEPT ![x] = s]
  /\ UNCHANGED <<made, close, times>>

\* A finalizer that comes too late is run by the fiber that adds it.
AddFinalizer(s, x) ==
  /\ Known(s) /\ status[x] = "new"
  /\ \/ /\ tag[s] = "Running"
        /\ Register(s, <<"run", x>>) /\ status' = [status EXCEPT ![x] = "added"]
        /\ UNCHANGED times
     \/ tag[s] = "Exited" /\ Runs(x) /\ UNCHANGED maps
  /\ home' = [home EXCEPT ![x] = s]
  /\ UNCHANGED <<made, close>>

\* The finalizer that is run so.
EndLate(x) ==
  /\ status[x] = "running" /\ <<"run", x>> \notin active[home[x]]
  /\ status' = [status EXCEPT ![x] = "ran"]
  /\ UNCHANGED <<made, maps, close, home, times>>
----------------------------------------------------------------------------
(* fork: a new scope, which its parent closes,                              *)

Makes(p, c, t) ==
  /\ tag[c] = "unmade" /\ Known(p)
  /\ tag' = [tag EXCEPT ![c] = t]
  /\ parent' = [parent EXCEPT ![c] = p]
  /\ UNCHANGED <<limit, linked, interruptible, cut, close, fins>>

Fork(p, c) ==
  \/ tag[p] = "Running" /\ Makes(p, c, "Running") /\ Register(p, <<"close", c>>)
  \/ tag[p] = "Exited"  /\ Makes(p, c, "Exited")  /\ UNCHANGED maps

\* ... and which takes itself out of its parent when it closes.  If it is closed
\* by now, so is its parent, and there is nothing to take out.
Link(c) ==
  /\ tag[c] # "unmade" /\ ~linked[c]
  /\ linked' = [linked EXCEPT ![c] = TRUE]
  /\ \/ tag[c] = "Running" /\ Register(c, <<"release", c>>)
     \/ tag[c] = "Exited" /\ UNCHANGED maps
  /\ UNCHANGED <<tag, limit, parent, interruptible, cut, close, fins>>
----------------------------------------------------------------------------
(* close: releaseMapReleaseAll.                                            *)

\* The map becomes Exited and its finalizers are what there is to do.
Mutes(s, rest, begun) ==
  /\ tag' = [tag EXCEPT ![s] = "Exited"]
  /\ todo' = [rest EXCEPT ![s] = finalizers[s]]
  /\ active' = begun
  /\ finalizers' = [finalizers EXCEPT ![s] = {}]

\* Mutant of Close: the map is Exited only in the end, say.
CloseLate(s, i) ==
  /\ Known(s) /\ tag[s] = "Running"
  /\ todo' = [todo EXCEPT ![s] = finalizers[s]]
  /\ interruptible' = [interruptible EXCEPT ![s] = i]
  /\ UNCHANGED <<tag, limit, parent, linked, cut, maps, active, fins>>

Close(s, i) ==
  /\ Known(s) /\ tag[s] = "Running"
  /\ Mutes(s, todo, active)
  /\ interruptible' = [interruptible EXCEPT ![s] = i]
  /\ UNCHANGED <<limit, parent, linked, cut, nextKey, key, fins>>

\* Mutant of IsNext: first in, first out.
IsNextOldest(s, i) ==
  /\ i \in todo[s] /\ Cardinality(active[s]) < limit[s]
  /\ \A j \in todo[s] : key[i] <= key[j]

\* The items are begun in the reverse order of their keys.
IsNext(s, i) ==
  /\ i \in todo[s] /\ Cardinality(active[s]) < limit[s]
  /\ \A j \in todo[s] : key[j] <= key[i]

Rest(s, i)  == [todo EXCEPT ![s] = @ \ {i}]
Begun(s, i) == [active EXCEPT ![s] = @ \cup {i}]
Ended(s, i) == active' = [active EXCEPT ![s] = @ \ {i}]

RunNext(s, x) ==
  /\ IsNext(s, <<"run", x>>)
  /\ todo' = Rest(s, <<"run", x>>) /\ active' = Begun(s, <<"run", x>>)
  /\ Runs(x)
  /\ UNCHANGED <<made, maps, home>>

CloseNext(s, c) ==
  LET i == <<"close", c>> IN
  /\ IsNext(s, i)
  /\ \/ /\ tag[c] = "Running" /\ Mutes(c, Rest(s, i), Begun(s, i))
     \/ /\ tag[c] = "Exited" /\ todo' = Rest(s, i)
        /\ UNCHANGED <<tag, active, finalizers>>
  /\ UNCHANGED <<limit, parent, linked, interruptible, cut, nextKey, key, fins>>

\* releaseMapRelease: what it deletes is a close of s, which has no effect.
ReleaseNext(s) ==
  LET i == <<"release", s>> IN
  /\ IsNext(s, i)
  /\ todo' = Rest(s, i)
  /\ finalizers' = [finalizers EXCEPT ![parent[s]] = @ \ {<<"close", s>>}]
  /\ UNCHANGED <<made, nextKey, key, active, fins>>

\* A finalizer ends, in success or failure, or a scope that was closed is done.
EndRun(s, x) ==
  /\ <<"run", x>> \in active[s] /\ Ended(s, <<"run", x>>)
  /\ status' = [status EXCEPT ![x] = "ran"]
  /\ UNCHANGED <<made, maps, todo, home, times>>

EndClose(s, c) ==
  /\ <<"close", c>> \in active[s] /\ Done(c) /\ Ended(s, <<"close", c>>)
  /\ UNCHANGED <<made, maps, todo, fins>>

\* The scopes that are being closed on behalf of s.
Within(s) ==
  {c \in Scope : \A T \in SUBSET Scope :
     (s \in T /\ \A a \in T, b \in Scope : <<"close", b>> \in active[a] => b \in T) => c \in T}

\* The fiber that closes s is interrupted: what it has not begun is dropped.
Interrupt(s) ==
  /\ interruptible[s] /\ ~Done(s)
  /\ todo' = [c \in Scope |-> IF c \in Within(s) THEN {} ELSE todo[c]]
  /\ active' = [c \in Scope |-> IF c \in Within(s) THEN {} ELSE active[c]]
  /\ cut' = [c \in Scope |-> cut[c] \/ c \in Within(s)]
  /\ interruptible' = [interruptible EXCEPT ![s] = FALSE]
  /\ status' = [x \in Finalizer |->
       IF \E c \in Within(s) : <<"run", x>> \in active[c] THEN "cut" ELSE status[x]]
  /\ UNCHANGED <<tag, limit, parent, linked, maps, home, times>>
----------------------------------------------------------------------------

Init ==
  /\ tag = [s \in Scope |-> IF s = Root THEN "Running" ELSE "unmade"]
  /\ limit \in Limits
  /\ parent = [s \in Scope |-> Root] /\ linked = [s \in Scope |-> s = Root]
  /\ nextKey = [s \in Scope |-> 0] /\ key = [i \in Item |-> 0]
  /\ finalizers = [s \in Scope |-> {}]
  /\ todo = [s \in Scope |-> {}] /\ active = [s \in Scope |-> {}]
  /\ interruptible = [s \in Scope |-> FALSE] /\ cut = [s \in Scope |-> FALSE]
  /\ status = [x \in Finalizer |-> "new"] /\ home = [x \in Finalizer |-> Root]
  /\ times = [x \in Finalizer |-> 0]

Closing(s) ==
  \/ \E x \in Finalizer : RunNext(s, x) \/ EndRun(s, x)
  \/ \E c \in Scope : CloseNext(s, c) \/ EndClose(s, c)
  \/ ReleaseNext(s)

Next ==
  \/ \E s \in Scope :
       \/ \E x \in Finalizer : AddFinalizer(s, x)
       \/ \E c \in Scope : Fork(s, c)
       \/ \E i \in BOOLEAN : Close(s, i)
       \/ Link(s) \/ Closing(s) \/ Interrupt(s)
  \/ \E x \in Finalizer : EndLate(x)

Spec == Init /\ [][Next]_vars
----------------------------------------------------------------------------
(* Properties.                                                             *)

\* Every variable has its type.
TypeOK ==
  /\ tag \in [Scope -> {"unmade", "Running", "Exited"}]
  /\ limit \in Limits /\ parent \in [Scope -> Scope] /\ linked \in [Scope -> BOOLEAN]
  /\ nextKey \in [Scope -> Nat] /\ key \in [Item -> Nat]
  /\ finalizers \in [Scope -> SUBSET Item]
  /\ todo \in [Scope -> SUBSET Item] /\ active \in [Scope -> SUBSET Item]
  /\ interruptible \in [Scope -> BOOLEAN] /\ cut \in [Scope -> BOOLEAN]
  /\ status \in [Finalizer -> {"new", "added", "running", "ran", "cut"}]
  /\ home \in [Finalizer -> Scope] /\ times \in [Finalizer -> Nat]

\* No finalizer is run twice, whoever adds and closes at the same time.
EachOnce == \A x \in Finalizer : times[x] <= 1

\* A sequential scope begins a finalizer when those added after it have ended.
ReverseOrder ==
  \A s \in Scope : \A x, y \in Finalizer :
    /\ limit[s] = 1 /\ home[x] = s /\ home[y] = s
    /\ status[y] \notin {"new", "cut"} /\ key[<<"run", x>>] < key[<<"run", y>>]
    /\ <<"run", x>> \in active[s]
    => status[y] = "ran"

\* A scope that was closed, without interruption, has run what was added to it.
ClosedHasRun ==
  \A x \in Finalizer :
    Done(home[x]) /\ ~cut[home[x]] => status[x] \in {"new", "running", "ran"}

\* ... and left no scope open that was forked from it, though one may have been
\* forked while it was closed; and a scope that is done does not burden the one
\* it was forked from.
ChildrenTidy ==
  \A c \in Scope \ {Root} :
    /\ tag[c] # "unmade" /\ Done(parent[c]) /\ ~cut[parent[c]] => tag[c] = "Exited"
    /\ linked[c] /\ Done(c) /\ ~cut[c] => <<"close", c>> \notin finalizers[parent[c]]

\* Whatever is added to scopes, forked from them and closed meanwhile, the effects run
\* in the reverse order and no scope that is done, and was not cut short, leaves another
\* open or burdens it.
ScopesTidy == ReverseOrder /\ ChildrenTidy
=============================================================================
