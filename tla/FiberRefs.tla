------------------------------ MODULE FiberRefs ------------------------------
(***************************************************************************)
(* What fibers inherit: src/internal/fiberRefs.ts, fiberRefs/patch.ts, and *)
(* the FiberRefs of src/internal/core.ts.  For each ref a fiber has a      *)
(* stack: its own value on the values of its ancestors, each with the id   *)
(* of the fiber that set it.  A fiber that joins another looks in both     *)
(* stacks for the value they have in common, and takes over what the other *)
(* one changed since.                                                      *)
(*                                                                         *)
(* A fiber has the number of its place in the order of the forks.  Of the  *)
(* refs, "val" is made by fiberRefUnsafeMake, "set" by                     *)
(* fiberRefUnsafeMakeHashSet, and "own" is as currentForkScopeOverride:    *)
(* a fork resets it and a join keeps what the joining fiber has.           *)
(***************************************************************************)
EXTENDS Integers, Sequences, FiniteSets

CONSTANTS
  Fibers,         \* how many fibers there are, in all
  Items,          \* the values are sets of these
  Refs,
  MaxChanges      \* how often a ref is set or deleted, in all

FiberRefsAssumption == Fibers \in Nat \ {0} /\ MaxChanges \in Nat /\ Refs \subseteq {"val", "set", "own"}

Fiber == 1..Fibers
Value == SUBSET Items

VARIABLES
  refs,           \* of each fiber: its stacks, the newest <<fiber, value>> first
  parent,         \* 0, or the fiber that forked it; -1 of one that does not exist yet
  changes,
  atFork,         \* history: the values when it was forked
  deleted,        \* history: the refs that were deleted
  before, joins   \* history: the values before the last join, and that join

vars == <<refs, parent, changes, atFork, deleted, before, joins>>

initial(r) == {}

\* A patch: replace the value, or take some items away and add others.
Patch(replace, del, add) == [replace |-> replace, del |-> del, add |-> add]
NoPatch                  == Patch(FALSE, {}, {})

\* The diff, the patch and the fork of a FiberRef.
diff(r, old, new) ==
  IF r = "set" THEN Patch(FALSE, old \ new, new \ old)
  ELSE IF old = new THEN NoPatch ELSE Patch(TRUE, {}, new)
patchValue(p, v)     == IF p.replace THEN p.add ELSE (v \ p.del) \cup p.add
fork(r)              == IF r = "own" THEN Patch(TRUE, {}, {}) ELSE NoPatch
joinValue(r, old, v) == IF r = "own" THEN old ELSE v

Put(l, r, s) == [q \in DOMAIN l \cup {r} |-> IF q = r THEN s ELSE l[q]]

getOrDefault(l, r) == IF r \in DOMAIN l THEN Head(l[r])[2] ELSE initial(r)
delete_(l, r)      == [q \in DOMAIN l \ {r} |-> l[q]]

\* A fiber replaces its own entry, and puts one on those of others.
updatedAs(l, f, r, v) ==
  IF r \notin DOMAIN l THEN Put(l, r, <<<<f, v>>>>)
  ELSE IF Head(l[r])[1] # f THEN Put(l, r, <<<<f, v>>>> \o l[r])
  ELSE Put(l, r, <<<<f, v>>>> \o Tail(l[r]))

forkAs(l, f) ==
  [r \in DOMAIN l |->
     LET v == patchValue(fork(r), Head(l[r])[2]) IN
     IF v = Head(l[r])[2] THEN l[r] ELSE <<<<f, v>>>> \o l[r]]

\* Mutant of findAncestor: the value of the joining fiber.
parentValue(r, ps, cs) == <<Head(ps)[2], TRUE>>

\* The value of the first entry of the child whose fiber has one in the parent's
\* stack too, and whether the child has newer ones.  Of two heads the fiber that
\* was forked later cannot be the common one.
findAncestor(r, ps, cs) ==
  LET Walk == 0..Len(ps) + Len(cs)
      walk[n \in Walk] ==
        IF n = 0 THEN [ps |-> ps, cs |-> cs, modified |-> FALSE]
        ELSE LET w == walk[n - 1] IN
             IF w.ps = <<>> \/ w.cs = <<>> THEN w
             ELSE IF Head(w.ps)[1] < Head(w.cs)[1] THEN [w EXCEPT !.cs = Tail(@), !.modified = TRUE]
             ELSE IF Head(w.ps)[1] > Head(w.cs)[1] THEN [w EXCEPT !.ps = Tail(@)]
             ELSE w
      w == walk[Len(ps) + Len(cs)]
  IN IF w.ps = <<>> \/ w.cs = <<>> THEN <<initial(r), TRUE>> ELSE <<Head(w.cs)[2], w.modified>>

\* One ref of joinAs: the stack of the parent afterwards, <<>> for none.
Joined(r, f, l, cs) ==
  LET ps       == IF r \in DOMAIN l THEN l[r] ELSE <<>>
      child    == Head(cs)[2]
      ancestor == findAncestor(r, ps, cs)
      old      == Head(ps)[2]
      new      == joinValue(r, old, patchValue(diff(r, ancestor[1], child), old)) IN
  IF Head(cs)[1] = f THEN ps
  ELSE IF ps = <<>>
       THEN IF child = initial(r) THEN <<>> ELSE <<<<f, joinValue(r, initial(r), child)>>>>
  ELSE IF ~ancestor[2] \/ new = old THEN ps
  ELSE IF Head(ps)[1] = f THEN <<<<f, new>>>> \o Tail(ps) ELSE <<<<f, new>>>> \o ps

joinAs(l, f, c) ==
  LET of(r) == IF r \in DOMAIN c THEN Joined(r, f, l, c[r]) ELSE l[r] IN
  [r \in {q \in DOMAIN l \cup DOMAIN c : of(q) # <<>>} |-> of(r)]

\* FiberRefsPatch: what is different in b, as a sequence of changes.
diffRefs(a, b) ==
  [update |-> [r \in {q \in DOMAIN a \cap DOMAIN b : Head(a[q])[2] # Head(b[q])[2]} |->
                 diff(r, Head(a[r])[2], Head(b[r])[2])],
   add    |-> [r \in DOMAIN b \ DOMAIN a |-> Head(b[r])[2]],
   remove |-> DOMAIN a \ DOMAIN b]

\* Each change concerns a ref of its own, so that their order makes no difference.
patchRefs(p, f, l) ==
  [r \in (DOMAIN l \cup DOMAIN p.add \cup DOMAIN p.update) \ p.remove |->
     IF r \in DOMAIN p.add THEN updatedAs(l, f, r, p.add[r])[r]
     ELSE IF r \in DOMAIN p.update
          THEN updatedAs(l, f, r, patchValue(p.update[r], getOrDefault(l, r)))[r]
     ELSE l[r]]

Values(l) == [r \in Refs |-> getOrDefault(l, r)]
----------------------------------------------------------------------------
Lives(f)  == parent[f] # -1
Forget    == before' = <<>> /\ joins' = <<>>

\* Fibers are forked in the order of their numbers.
Fork(f, c) ==
  /\ Lives(f) /\ ~Lives(c) /\ \A e \in 1..(c - 1) : Lives(e)
  /\ parent' = [parent EXCEPT ![c] = f]
  /\ refs' = [refs EXCEPT ![c] = forkAs(refs[f], c)]
  /\ atFork' = [atFork EXCEPT ![c] = Values(forkAs(refs[f], c))]
  /\ Forget /\ UNCHANGED <<changes, deleted>>

setFiberRef(f, r, v) ==
  /\ Lives(f) /\ changes < MaxChanges /\ changes' = changes + 1
  /\ refs' = [refs EXCEPT ![f] = updatedAs(@, f, r, v)]
  /\ Forget /\ UNCHANGED <<parent, atFork, deleted>>

unsafeDeleteFiberRef(f, r) ==
  /\ Lives(f) /\ r \in DOMAIN refs[f] /\ changes < MaxChanges /\ changes' = changes + 1
  /\ refs' = [refs EXCEPT ![f] = delete_(@, r)] /\ deleted' = deleted \cup {r}
  /\ Forget /\ UNCHANGED <<parent, atFork>>

\* Fiber.inheritAll: any fiber may do it, with any other, at any time.
inheritAll(f, c) ==
  /\ Lives(f) /\ Lives(c) /\ f # c
  /\ refs' = [refs EXCEPT ![f] = joinAs(@, f, refs[c])]
  /\ before' = Values(refs[f]) /\ joins' = <<f, c>>
  /\ UNCHANGED <<parent, changes, atFork, deleted>>

Init ==
  /\ refs = [f \in Fiber |-> <<>>] /\ parent = [f \in Fiber |-> IF f = 1 THEN 0 ELSE -1]
  /\ changes = 0 /\ atFork = [f \in Fiber |-> Values(<<>>)] /\ deleted = {}
  /\ before = <<>> /\ joins = <<>>

Next ==
  \E f \in Fiber : \/ \E c \in Fiber : Fork(f, c) \/ inheritAll(f, c)
                   \/ \E r \in Refs : unsafeDeleteFiberRef(f, r) \/ \E v \in Value : setFiberRef(f, r, v)

Spec == Init /\ [][Next]_vars
----------------------------------------------------------------------------
TypeOK ==
  /\ \A f \in Fiber : DOMAIN refs[f] \subseteq Refs
  /\ \A f \in Fiber : \A r \in DOMAIN refs[f] : refs[f][r] # <<>>
  /\ parent \in [Fiber -> -1..Fibers] /\ changes \in 0..MaxChanges

\* A fiber that joins one it forked has then what the child changed since the
\* fork on top of what it has itself: what the child left alone is not undone,
\* and of a set neither's additions and removals are lost.
JoinMerges ==
  joins # <<>> =>
    LET f == joins[1]
        c == joins[2] IN
    parent[c] = f =>
      \A r \in Refs \ deleted :
        getOrDefault(refs[f], r) =
          IF r = "own" THEN before[r]
          ELSE patchValue(diff(r, atFork[c][r], getOrDefault(refs[c], r)), before[r])

\* The difference of the refs of two fibers, applied to the first, gives the
\* values of the second: what a memoised effect and a layer hand on.
PatchesRestore ==
  \A f, c \in Fiber :
    Values(patchRefs(diffRefs(refs[f], refs[c]), f, refs[f])) = Values(refs[c])
=============================================================================
