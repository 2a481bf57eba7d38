---------------------------- MODULE RequestPlans ----------------------------
(***************************************************************************)
(* Which requests are run together, and after which: RequestBlock,         *)
(* src/internal/blockedRequests.ts, and the resolvers of                   *)
(* src/internal/dataSource.ts that split what they are given.              *)
(*                                                                         *)
(* A collection for each resolver is a function on the resolvers that have *)
(* something in it: the order of a HashMap is left out.                    *)
(***************************************************************************)
EXTENDS Naturals, Sequences, FiniteSets, SequencesExt

empty                 == [tag |-> "Empty"]
par(left, right)      == [tag |-> "Par", left |-> left, right |-> right]
seq(left, right)      == [tag |-> "Seq", left |-> left, right |-> right]
single(source, entry) == [tag |-> "Single", dataSource |-> source, blockedRequest |-> entry]

\* reduce, of which this is the only use: every leaf is replaced, the shape stays.
RECURSIVE mapRequestResolvers(_, _)
mapRequestResolvers(b, f) ==
  CASE b.tag = "Empty"  -> empty
    [] b.tag = "Single" -> single(f[b.dataSource], b.blockedRequest)
    [] b.tag = "Par"    -> par(mapRequestResolvers(b.left, f), mapRequestResolvers(b.right, f))
    [] OTHER            -> seq(mapRequestResolvers(b.left, f), mapRequestResolvers(b.right, f))
----------------------------------------------------------------------------
\* What is run in parallel: for each resolver the requests.
parallelCollectionEmpty                == <<>>
parallelCollectionMake(source, entry)  == [s \in {source} |-> <<entry>>]
parallelCollectionIsEmpty(p)           == DOMAIN p = {}
parallelCollectionKeys(p)              == DOMAIN p

Both(f, g, s) ==
  IF s \notin DOMAIN f THEN g[s] ELSE IF s \notin DOMAIN g THEN f[s] ELSE f[s] \o g[s]

\* The requests of the second one are first.
parallelCollectionCombine(self, that) ==
  [s \in DOMAIN self \cup DOMAIN that |-> Both(that, self, s)]

\* What is run in sequence: for each resolver the batches.
parallelCollectionToSequentialCollection(p) == [s \in DOMAIN p |-> <<p[s]>>]
sequentialCollectionKeys(c)                 == DOMAIN c

\* A resolver that only the second one has gets nothing to do.
sequentialCollectionCombine(self, that) ==
  [s \in DOMAIN self \cup DOMAIN that |-> IF s \in DOMAIN self THEN Both(self, that, s) ELSE <<>>]
----------------------------------------------------------------------------
Done == [tag |-> "Done"]

\* Mutant of stepped: what comes next is run at once.
steppedAtOnce(w) ==
  LET b == w.current IN
  CASE b.tag = "Par" -> [w EXCEPT !.current = b.left, !.stack = <<b.right>> \o @]
    [] b.tag = "Seq" -> [w EXCEPT !.current = b.left, !.stack = <<b.right>> \o @]
    [] OTHER ->
       LET p == IF b.tag = "Empty" THEN w.parallel
                ELSE parallelCollectionCombine(w.parallel,
                                               parallelCollectionMake(b.dataSource, b.blockedRequest)) IN
       IF w.stack = <<>> THEN [w EXCEPT !.parallel = p, !.current = Done]
       ELSE [w EXCEPT !.parallel = p, !.current = Head(w.stack), !.stack = Tail(w.stack)]

\* One turn of the loop of step.
stepped(w) ==
  LET b == w.current IN
  CASE b.tag = "Par" -> [w EXCEPT !.current = b.left, !.stack = <<b.right>> \o @]
    [] b.tag = "Seq" ->
       (LET l == b.left IN
        CASE l.tag = "Empty" -> [w EXCEPT !.current = b.right]
          [] l.tag = "Par"   -> [w EXCEPT !.current = par(seq(l.left, b.right), seq(l.right, b.right))]
          [] l.tag = "Seq"   -> [w EXCEPT !.current = seq(l.left, seq(l.right, b.right))]
          [] OTHER           -> [w EXCEPT !.current = l, !.sequential = <<b.right>> \o @])
    [] OTHER ->
       LET p == IF b.tag = "Empty" THEN w.parallel
                ELSE parallelCollectionCombine(w.parallel,
                                               parallelCollectionMake(b.dataSource, b.blockedRequest)) IN
       IF w.stack = <<>> THEN [w EXCEPT !.parallel = p, !.current = Done]
       ELSE [w EXCEPT !.parallel = p, !.current = Head(w.stack), !.stack = Tail(w.stack)]

RECURSIVE stepLoop(_)
stepLoop(w) == IF w.current = Done THEN <<w.parallel, w.sequential>> ELSE stepLoop(stepped(w))

\* What of a block can run at once, and the blocks to run after it.
step(b) ==
  stepLoop([current |-> b, parallel |-> parallelCollectionEmpty, stack |-> <<>>, sequential |-> <<>>])

\* What is run next joins what was run before it if one and the same resolver
\* runs both.  The collections are here the last one first.
merge(sequential, p) ==
  LET c == parallelCollectionToSequentialCollection(p) IN
  IF sequential = <<>> THEN <<c>>
  ELSE IF parallelCollectionIsEmpty(p) THEN sequential
  ELSE LET keys == sequentialCollectionKeys(Head(sequential)) IN
       IF Cardinality(keys) = 1 /\ keys = parallelCollectionKeys(p)
       THEN <<sequentialCollectionCombine(Head(sequential), c)>> \o Tail(sequential)
       ELSE <<c>> \o sequential

RECURSIVE flattenLoop(_, _)
flattenLoop(current, updated) ==
  LET reduced    == FoldLeft(LAMBDA acc, b :
                               LET s == step(b) IN
                               <<parallelCollectionCombine(acc[1], s[1]), acc[2] \o s[2]>>,
                             <<parallelCollectionEmpty, <<>>>>, current)
      merged     == merge(updated, reduced[1]) IN
  IF reduced[2] = <<>> THEN Reverse(merged) ELSE flattenLoop(reduced[2], merged)

\* The collections to run one after the other.
flatten(b) == flattenLoop(<<b>>, <<>>)
----------------------------------------------------------------------------
chunksOf(s, n) ==
  [i \in 1..(Len(s) + n - 1) \div n |->
     SubSeq(s, (i - 1) * n + 1, IF i * n < Len(s) THEN i * n ELSE Len(s))]

\* Every batch is split into some of at most n.
batchN(requests, n) ==
  IF n < 1 THEN <<"die">> ELSE FlattenSeq([i \in DOMAIN requests |-> chunksOf(requests[i], n)])

\* What each of two resolvers is given: a part of every batch, both parts at once.
eitherWith(requests, isLeft) ==
  [i \in DOMAIN requests |->
     <<<<SelectSeq(requests[i], LAMBDA e : e \in isLeft)>>,
       <<SelectSeq(requests[i], LAMBDA e : e \notin isLeft)>>>>]
----------------------------------------------------------------------------
(* What flatten makes of the blocks there are, and the resolvers of batches. *)

CONSTANTS
  Sources,        \* the resolvers
  Leaves          \* how many requests a block may have

PlansAssumption == Leaves \in Nat

VARIABLES input, result

vars == <<input, result>>

\* The blocks with the requests from..to in this order, and perhaps empty ones.
RECURSIVE Blocks(_, _)
Blocks(from, to) ==
  {single(s, from) : s \in {t \in Sources : from = to}} \cup {empty : i \in {j \in {from} : j > to}}
  \cup {f : f \in UNION {LET ls == Blocks(from, k)
                             rs == Blocks(k + 1, to) IN
                         {par(l, r) : l \in ls, r \in rs} \cup {seq(l, r) : l \in ls, r \in rs}
                         : k \in from..(to - 1)}}

\* ... with an empty one put before or after.
Padded(b) == {b, par(empty, b), seq(empty, b), seq(b, empty)}

RECURSIVE Requests(_)
Requests(b) ==
  CASE b.tag = "Empty"  -> {}
    [] b.tag = "Single" -> {<<b.dataSource, b.blockedRequest>>}
    [] OTHER            -> Requests(b.left) \cup Requests(b.right)

Plan(b) == [kind |-> "plan", block |-> b]

\* mapRequestResolvers: every resolver is replaced by one of its own.
Renamed(b) == mapRequestResolvers(b, [s \in Sources |-> <<"around", s>>])

NotYet == [kind |-> "none"]

Init == input = NotYet /\ result = <<>>

RunPlan ==
  /\ input = NotYet
  /\ \E n \in 0..Leaves : \E b \in UNION {Padded(x) : x \in Blocks(1, n)} :
       input' = Plan(b) /\ result' = <<flatten(b), flatten(Renamed(b))>>

\* A resolver that runs batches, limited to n, or is one of two.
Split ==
  /\ input = NotYet
  /\ \E lens \in SeqOf(0..Leaves, 2), n \in 0..Leaves, isLeft \in SUBSET (1..Leaves) :
       LET batches == [i \in DOMAIN lens |-> [j \in 1..lens[i] |-> j]] IN
       /\ input' = [kind |-> "split", batches |-> batches, n |-> n, isLeft |-> isLeft]
       /\ result' = <<batchN(batches, n), eitherWith(batches, isLeft)>>

Next == RunPlan \/ Split

Spec == Init /\ [][Next]_vars
----------------------------------------------------------------------------
IsPlan == input.kind = "plan"

\* Where a request of a resolver is run: the collection, and its batch in there.
Places(plan, s, e) ==
  {<<i, j, k>> \in UNION {UNION {{i} \X {j} \X DOMAIN plan[i][s][j] : j \in DOMAIN plan[i][s]}
                         : i \in {n \in DOMAIN plan : s \in DOMAIN plan[n]}} :
     plan[i][s][j][k] = e}

Before(plan, p, q) ==
  \A a \in Places(plan, p[1], p[2]), b \in Places(plan, q[1], q[2]) :
    a[1] < b[1] \/ (a[1] = b[1] /\ p[1] = q[1] /\ a[2] < b[2])

\* The requests that a block puts in sequence.
RECURSIVE Sequenced(_)
Sequenced(b) ==
  IF b.tag \in {"Empty", "Single"} THEN {}
  ELSE Sequenced(b.left) \cup Sequenced(b.right)
       \cup (IF b.tag = "Seq" THEN Requests(b.left) \X Requests(b.right) ELSE {})

RECURSIVE Tags(_)
Tags(b) == {b.tag} \cup (IF b.tag \in {"Empty", "Single"} THEN {} ELSE Tags(b.left) \cup Tags(b.right))

\* Nothing is put after a block that has a parallel one in it.
RECURSIVE Simple(_)
Simple(b) ==
  \/ b.tag \in {"Empty", "Single"}
  \/ Simple(b.left) /\ Simple(b.right) /\ (b.tag = "Seq" => "Par" \notin Tags(b.left))

\* No request of a block is left out and none is added.  If nothing is put after a
\* parallel block each is run once, after those it is put after; and what is all
\* parallel is run in one go, each resolver with all it has to do.
RunsEveryRequest ==
  IsPlan =>
    LET b == input.block
        plan == result[1] IN
    /\ UNION {{<<s, plan[i][s][j][k]>> : k \in DOMAIN plan[i][s][j]} :
              <<i, s, j>> \in UNION {UNION {{i} \X {s} \X DOMAIN plan[i][s] : s \in DOMAIN plan[i]}
                                    : i \in DOMAIN plan}} = Requests(b)
    /\ result[2] = [i \in DOMAIN plan |->
                      [s \in {<<"around", t>> : t \in DOMAIN plan[i]} |-> plan[i][s[2]]]]
    /\ Simple(b) =>
         /\ \A r \in Requests(b) : Cardinality(Places(plan, r[1], r[2])) = 1
         /\ \A p \in Sequenced(b) : Before(plan, p[1], p[2])
    /\ Sequenced(b) = {} => Len(plan) = 1 /\ \A s \in DOMAIN plan[1] : Len(plan[1][s]) = 1

\* batchN and eitherWith hand on every request, in its order and its batch.
SplitsKeepAll ==
  input.kind = "split" =>
    /\ input.n > 0 => /\ FlattenSeq(result[1]) = FlattenSeq(input.batches)
                      /\ \A i \in DOMAIN result[1] : Len(result[1][i]) \in 1..input.n
    /\ \A i \in DOMAIN input.batches :
         LET parts == result[2][i] IN
         Len(parts[1][1]) + Len(parts[2][1]) = Len(input.batches[i])

\* Requests that are put in sequence are run in sequence: seq "combines this collection
\* of blocked requests with the specified collection of blocked requests, in sequence"
\* (src/src/internal/blockedRequests.ts:33).  The code does not: see the README.
SequenceIsKept ==
  IsPlan => \A p \in Sequenced(input.block) : Before(result[1], p[1], p[2])
=============================================================================
