---------------------------- MODULE QueueProofs ----------------------------
(***************************************************************************)
(* Theorems about queues, with their proofs, for any number of fibers, of  *)
(* values and of operations, and for every capacity.                       *)
(*                                                                         *)
(* The inductive invariant is the conjunction of                           *)
(*   TypeInv     the types, Balanced (the two sides do not wait for each   *)
(*               other), SurplusInv and LoopInv,                           *)
(*   Filed       who is among the takers and the putters,                  *)
(*   CloseInv    a shutdown sets the flag before it does anything else,    *)
(*   KnownInv    somebody will come to each fiber that waits,              *)
(*   SentsInv, SeenOK   how many values were offered, and which were seen. *)
(***************************************************************************)
EXTENDS Queue, FiniteSetTheorems, WellFoundedInduction, TLAPS

\* The places of a fiber that shuts the queue down, and that only one fiber does.
Shutting == {"hook", "takers", "putters", "waiters"}
OneCloser == \A f, g \in Fiber : "shutdown" \in Role[f] /\ "shutdown" \in Role[g] => f = g

\* The queue is not too long, and does not have somebody wait on each side.
Settled(c, t, p) == /\ Len(c) <= capacity
                    /\ p # <<>> => strategy = "backPressure" /\ Len(c) = capacity
                    /\ t # <<>> => c = <<>> /\ p = <<>>
Balanced == Settled(content, takers, putters)

\* What the loop of takeBetween keeps, from the call to the result.
LoopInv == \A f \in Fiber :
  /\ pc[f] \in {"take", "register", "awaitItem"} => 1 <= remaining[f]
  /\ pc[f] \in {"take", "register", "awaitItem", "upTo", "polling"} =>
       /\ remaining[f] <= limit[f]
       /\ asked[f][1] <= Len(acc[f]) + remaining[f]
       /\ Len(acc[f]) + limit[f] <= asked[f][2]
  /\ pc[f] \notin {"take", "register", "awaitItem", "upTo", "polling", "cleanup"} /\ asked[f][1] <= asked[f][2] =>
       asked[f][1] <= Len(acc[f]) /\ Len(acc[f]) <= asked[f][2]

\* A surplus is what is left of the last offer of its fiber.
SurplusInv == \A f \in Fiber :
  /\ pc[f] = "surplus" => surplus[f] # <<>> /\ strategy # "dropping"
  /\ pc[f] # "surplus" => surplus[f] = <<>>
  /\ Len(surplus[f]) <= sent[f]
  /\ \A i \in DOMAIN surplus[f] : surplus[f][i] = [by |-> f, n |-> (sent[f] - Len(surplus[f])) + i]

\* Every value anybody has seen.
Seen == Elements(content) \cup Elements(Values(putters)) \cup Elements(got)

\* The flag is set first, and by a fiber that may.
CloseInv == /\ hook => flag
            /\ \A c \in Fiber : pc[c] \in Shutting => flag /\ "shutdown" \in Role[c]

\* The last value of f is among the putters.
Queued(f) == \E i \in DOMAIN putters : putters[i].value.by = f /\ putters[i].last

\* Who waits is where the operations look, or the shutdown, wherever it has got to,
\* will come to it.
KnownInv == \A f \in Fiber : Waits(f) /\ deferred[f] = "pending" =>
  \/ /\ ~flag
     /\ IF pc[f] = "awaitItem" THEN f \in Elements(takers) ELSE Queued(f)
  \/ \E c \in Fiber :
       /\ pc[c] \in Shutting /\ (pc[c] = "hook" => ~hook)
       /\ \/ pc[c] \in {"hook", "takers"} /\ pc[f] = "awaitItem" /\ f \in waiters[c]
          \/ pc[c] \in {"hook", "takers", "putters"} /\ pc[f] = "awaitRoom" /\ Queued(f)
          \/ pc[c] = "waiters" /\ pc[f] = "awaitRoom" /\ f \in waiters[c]
----------------------------------------------------------------------------
(* Sequences.                                                              *)

\* Least is the smaller of two numbers.
LEMMA LeastParts ==
  ASSUME NEW a \in Nat, NEW b \in Nat
  PROVE  Least(a, b) \in Nat /\ Least(a, b) <= a /\ Least(a, b) <= b /\ (Least(a, b) = a \/ Least(a, b) = b)
BY DEF Least

\* A part of a sequence, by its elements.
LEMMA SubSeqParts ==
  ASSUME NEW S, NEW s \in Seq(S), NEW a \in Nat \ {0}, NEW b \in Nat, a <= b + 1, b <= Len(s)
  PROVE  /\ SubSeq(s, a, b) \in Seq(S)
         /\ Len(SubSeq(s, a, b)) = b + 1 - a
         /\ DOMAIN SubSeq(s, a, b) = 1..(b + 1 - a)
         /\ \A k \in 1..(b + 1 - a) : SubSeq(s, a, b)[k] = s[a + k - 1]
OBVIOUS

\* The rest of a sequence, by its elements.
LEMMA FromParts ==
  ASSUME NEW S, NEW s \in Seq(S), NEW a \in Nat, a <= Len(s)
  PROVE  /\ From(s, a + 1) \in Seq(S)
         /\ Len(From(s, a + 1)) = Len(s) - a
         /\ DOMAIN From(s, a + 1) = 1..(Len(s) - a)
         /\ \A k \in 1..(Len(s) - a) : From(s, a + 1)[k] = s[a + k]
BY SubSeqParts DEF From

\* Two sequences after one another, by their elements.
LEMMA ConcatParts ==
  ASSUME NEW S, NEW s \in Seq(S), NEW t \in Seq(S)
  PROVE  /\ s \o t \in Seq(S)
         /\ Len(s \o t) = Len(s) + Len(t)
         /\ DOMAIN (s \o t) = 1..(Len(s) + Len(t))
         /\ \A k \in 1..Len(s) : (s \o t)[k] = s[k]
         /\ \A k \in 1..Len(t) : (s \o t)[Len(s) + k] = t[k]
OBVIOUS

\* Two sequences of one length and the same elements are the same.
LEMMA SameSeq ==
  ASSUME NEW S, NEW s \in Seq(S), NEW t \in Seq(S), Len(s) = Len(t), \A k \in 1..Len(s) : s[k] = t[k]
  PROVE  s = t
OBVIOUS

\* The values of putters, by their elements.
LEMMA ValuesParts ==
  ASSUME NEW p \in Seq(Putter)
  PROVE  /\ Values(p) \in Seq(Value) /\ Len(Values(p)) = Len(p)
         /\ DOMAIN Values(p) = 1..Len(p)
         /\ \A k \in 1..Len(p) : Values(p)[k] = p[k].value
<1> HIDE DEF Value
<1>1. DOMAIN p = 1..Len(p) /\ \A i \in 1..Len(p) : p[i] \in Putter
  OBVIOUS
<1>3. \A q \in Putter : q.value \in Value
  BY DEF Putter
<1>2. Values(p) \in Seq(Value) /\ Len(Values(p)) = Len(p)
  BY <1>1, <1>3 DEF Values
<1> QED BY <1>1, <1>2 DEF Values

----------------------------------------------------------------------------
(* Settling, and handing out.                                              *)

\* A value and the taker it is for.
Gift == [to : Fiber, value : Value]
\* What a deferred may be.
Outcome == {"pending", "done", "interrupted"}

\* What Hand changes has its types in the next state.
StoreTyped == /\ content' \in Seq(Value) /\ takers' \in Seq(Fiber) /\ putters' \in Seq(Putter)
              /\ deferred' \in [Fiber -> Outcome] /\ item' \in [Fiber -> Value] /\ got' \in Seq(Value)

\* What is in a gift.
LEMMA GiftParts ==
  /\ \A b \in Gift : b.to \in Fiber /\ b.value \in Value
  /\ \A h \in Fiber, v \in Value : /\ [to |-> h, value |-> v] \in Gift
                                   /\ [to |-> h, value |-> v].to = h
                                   /\ [to |-> h, value |-> v].value = v
<1> HIDE DEF Value
<1> QED BY DEF Gift

\* What is in a putter.
LEMMA PutterParts == \A p \in Putter : p.value \in Value /\ p.value.by \in Fiber /\ p.value.n \in Nat /\ p.last \in BOOLEAN
<1>1. \A p \in Putter : p.value \in Value /\ p.last \in BOOLEAN
  <2> HIDE DEF Value
  <2> QED BY DEF Putter
<1>2. \A v \in Value : v.by \in Fiber /\ v.n \in Nat
  BY DEF Value
<1> QED BY <1>1, <1>2

\* The values in the queue and those of the putters are a sequence of values.
LEMMA AllParts ==
  ASSUME NEW c \in Seq(Value), NEW p \in Seq(Putter)
  PROVE  c \o Values(p) \in Seq(Value) /\ Len(c \o Values(p)) = Len(c) + Len(p)
<1> DEFINE v == Values(p)
<1>1. v \in Seq(Value) /\ Len(v) = Len(p)
  BY ValuesParts
<1> HIDE DEF v
<1>2. c \o v \in Seq(Value) /\ Len(c \o v) = Len(c) + Len(v)
  BY <1>1, ConcatParts, Zenon
<1> QED BY <1>1, <1>2 DEF v

\* What the first g takers are given, of the values vs.
Gifts(t, vs, g) == [i \in 1..g |-> [to |-> t[i], value |-> vs[i]]]
\* Whom the first m putters admit.
Whole(p, m) == {p[i].value.by : i \in {j \in 1..m : p[j].last}}

\* The first g values go to the first g takers, the next k are in the queue, so that
\* m have moved in.
Splits(c, t, p, g, k, m) ==
  /\ g \in Nat /\ k \in Nat /\ m \in Nat
  /\ g <= Len(t) /\ k <= capacity /\ m <= Len(p)
  /\ g + k = Len(c) + m
  /\ g < Len(t) => g = Len(c) + Len(p)
  /\ k < capacity => m = Len(p)

\* A state of the loops with these fields.
Has(s, c, t, p, gv) == s.content = c /\ s.takers = t /\ s.putters = p /\ s.given = gv

\* Settle shares out the values in this way.
SettlesTo(s, c, t, p, g, k, m) ==
  /\ Splits(c, t, p, g, k, m)
  /\ Settle(s) = [content  |-> SubSeq(c \o Values(p), g + 1, g + k),
                  takers   |-> From(t, g + 1),
                  putters  |-> From(p, m + 1),
                  given    |-> s.given \o Gifts(t, c \o Values(p), g),
                  admitted |-> Whole(p, m)]

\* Settle shares out as Splits says.
LEMMA SettleFields ==
  ASSUME NEW s, NEW c \in Seq(Value), NEW t \in Seq(Fiber), NEW p \in Seq(Putter), NEW gv,
         Has(s, c, t, p, gv), capacity \in Nat \ {0}, Len(c) <= capacity
  PROVE  \E g, k, m \in Nat : SettlesTo(s, c, t, p, g, k, m)
<1> DEFINE all == c \o Values(p)
           g   == Least(Len(t), Len(all))
           k   == Least(capacity, Len(all) - g)
           m   == g + k - Len(c)
<1>1. all \in Seq(Value) /\ Len(all) = Len(c) + Len(p)
  BY AllParts
<1>2. Settle(s) = [content  |-> SubSeq(all, g + 1, g + k),
                   takers   |-> From(t, g + 1),
                   putters  |-> From(p, m + 1),
                   given    |-> s.given \o Gifts(t, all, g),
                   admitted |-> Whole(p, m)]
  BY DEF Settle, Gifts, Whole, Has
<1> HIDE DEF all
<1>3. Len(t) \in Nat /\ Len(all) \in Nat /\ Len(c) \in Nat /\ Len(p) \in Nat /\ capacity \in Nat
  BY <1>1
<1>4. g \in Nat /\ g <= Len(t) /\ g <= Len(all) /\ (g = Len(t) \/ g = Len(all))
  BY <1>3, LeastParts
<1> HIDE DEF g
<1>5. Len(all) - g \in Nat
  BY <1>3, <1>4
<1>6. k \in Nat /\ k <= capacity /\ k <= Len(all) - g /\ (k = capacity \/ k = Len(all) - g)
  BY <1>3, <1>5, LeastParts
<1> HIDE DEF k
<1>7. m \in Nat /\ Splits(c, t, p, g, k, m)
  BY <1>1, <1>3, <1>4, <1>5, <1>6 DEF Splits
<1> HIDE DEF m
<1>8. g \in Nat /\ k \in Nat /\ m \in Nat
  BY <1>4, <1>6, <1>7
<1> USE <1>8
<1> WITNESS g \in Nat, k \in Nat, m \in Nat
<1> QED BY <1>2, <1>7 DEF all, SettlesTo

\* What the takers are given, by its elements.
LEMMA GiftsParts ==
  ASSUME NEW t \in Seq(Fiber), NEW vs \in Seq(Value), NEW g \in Nat, g <= Len(t), g <= Len(vs)
  PROVE  /\ Gifts(t, vs, g) \in Seq(Gift) /\ Len(Gifts(t, vs, g)) = g
         /\ \A i \in 1..g : /\ Gifts(t, vs, g)[i].to = t[i]
                            /\ Gifts(t, vs, g)[i].value = vs[i]
<1>1. \A i \in 1..g : t[i] \in Fiber /\ vs[i] \in Value
  <2> HIDE DEF Value
  <2> QED OBVIOUS
<1>2. \A i \in 1..g : [to |-> t[i], value |-> vs[i]] \in Gift
  BY <1>1, GiftParts
<1>3. Gifts(t, vs, g) \in Seq(Gift) /\ Len(Gifts(t, vs, g)) = g
  BY <1>2 DEF Gifts
<1>4. \A i \in 1..g : Gifts(t, vs, g)[i].to = t[i] /\ Gifts(t, vs, g)[i].value = vs[i]
  BY DEF Gifts
<1> QED BY <1>3, <1>4

\* Handing out keeps the types.
LEMMA HandTyped ==
  ASSUME NEW r, r.content \in Seq(Value), r.takers \in Seq(Fiber), r.putters \in Seq(Putter),
         NEW gv \in Seq(Gift), r.given = gv,
         NEW d \in [Fiber -> Outcome], NEW out \in Seq(Value), Hand(r, d, out),
         item \in [Fiber -> Value], got \in Seq(Value)
  PROVE  StoreTyped
<1>2. /\ content' = r.content /\ takers' = r.takers /\ putters' = r.putters
  BY DEF Hand
<1>3. deferred' \in [Fiber -> Outcome]
  BY DEF Hand, Outcome
<1>4. \A i \in DOMAIN gv : gv[i] \in Gift
  OBVIOUS
<1>5. item' \in [Fiber -> Value]
  <2>1. item' = [g \in Fiber |-> IF {i \in DOMAIN gv : gv[i].to = g /\ d[g] = "pending"} = {} THEN item[g]
                    ELSE gv[CHOOSE i \in {i \in DOMAIN gv : gv[i].to = g /\ d[g] = "pending"} : TRUE].value]
    BY DEF Hand
  <2> SUFFICES ASSUME NEW g \in Fiber
               PROVE  (IF {i \in DOMAIN gv : gv[i].to = g /\ d[g] = "pending"} = {} THEN item[g]
                    ELSE gv[CHOOSE i \in {i \in DOMAIN gv : gv[i].to = g /\ d[g] = "pending"} : TRUE].value) \in Value
    BY <2>1
  <2> DEFINE mine == {i \in DOMAIN gv : gv[i].to = g /\ d[g] = "pending"}
  <2>2. CASE mine = {}
    BY <2>2
  <2>3. CASE mine # {}
    <3>1. (CHOOSE i \in mine : TRUE) \in mine
      <4> HIDE DEF mine
      <4> QED BY <2>3
    <3>2. gv[CHOOSE i \in mine : TRUE] \in Gift
      BY <3>1, <1>4
    <3>3. gv[CHOOSE i \in mine : TRUE].value \in Value
      <4> HIDE DEF mine
      <4> QED BY <3>2, GiftParts
    <3> QED BY <3>3, <2>3
  <2> QED BY <2>2, <2>3
<1>6. got' \in Seq(Value)
  <2> DEFINE vs == [i \in DOMAIN gv |-> gv[i].value]
  <2>1. got' = got \o out \o vs
    BY DEF Hand
  <2>2. \A i \in DOMAIN gv : gv[i].value \in Value
    BY <1>4, GiftParts
  <2>3. DOMAIN gv = 1..Len(gv) /\ Len(gv) \in Nat
    OBVIOUS
  <2>4. vs \in Seq(Value)
    BY <2>2, <2>3
  <2> HIDE DEF vs
  <2>5. got \o out \in Seq(Value)
    BY ConcatParts
  <2> QED BY <2>1, <2>4, <2>5, ConcatParts
<1> QED BY <1>2, <1>3, <1>5, <1>6 DEF StoreTyped

\* Who is served, the first g takers and m putters, leaves; of the deferreds d only
\* theirs were completed.
Delivers(t, p, d) == \E g, m \in Nat :
  /\ g <= Len(t) /\ m <= Len(p)
  /\ takers' = From(t, g + 1) /\ putters' = From(p, m + 1)
  /\ \A h \in Fiber : deferred'[h] = d[h] \/ (d[h] = "pending" /\ deferred'[h] = "done")
  /\ \A i \in 1..g : deferred'[t[i]] # "pending"
  /\ \A i \in 1..m : p[i].last => deferred'[p[i].value.by] # "pending"
  /\ \A h \in Fiber : deferred'[h] = "done" =>
       \/ d[h] = "done"
       \/ \E i \in 1..g : t[i] = h
       \/ \E i \in 1..m : p[i].last /\ p[i].value.by = h

\* The rest of the rest of a sequence.
LEMMA FromFrom ==
  ASSUME NEW S, NEW s \in Seq(S), NEW a \in Nat, NEW b \in Nat, a + b <= Len(s)
  PROVE  From(From(s, a + 1), b + 1) = From(s, a + b + 1)
<1> DEFINE u == From(s, a + 1)  v == From(u, b + 1)  w == From(s, a + b + 1)
<1>7. a <= Len(s) /\ b <= Len(s) - a
  OBVIOUS
<1>1. u \in Seq(S) /\ Len(u) = Len(s) - a /\ \A k \in 1..(Len(s) - a) : u[k] = s[a + k]
  BY <1>7, FromParts
<1> HIDE DEF u
<1>2. v \in Seq(S) /\ Len(v) = Len(u) - b /\ \A k \in 1..(Len(u) - b) : v[k] = u[b + k]
  <2>1. b <= Len(u)
    BY <1>1, <1>7
  <2>2. /\ v \in Seq(S) /\ Len(v) = Len(u) - b
        /\ \A k \in 1..(Len(u) - b) : v[k] = u[b + k]
    <3>1. u \in Seq(S)
      BY <1>1
    <3> QED BY <3>1, <2>1, FromParts
  <2> QED BY <2>2
<1>3. w \in Seq(S) /\ Len(w) = Len(s) - (a + b) /\ \A k \in 1..(Len(s) - (a + b)) : w[k] = s[(a + b) + k]
  <2>1. a + b \in Nat
    OBVIOUS
  <2> QED BY <2>1, FromParts
<1> HIDE DEF v, w
<1>4. Len(v) = Len(w)
  BY <1>1, <1>2, <1>3
<1>5. \A k \in 1..Len(v) : v[k] = w[k]
  <2> TAKE k \in 1..Len(v)
  <2>1. k \in 1..(Len(u) - b) /\ b + k \in 1..(Len(s) - a) /\ k \in 1..(Len(s) - (a + b))
    BY <1>1, <1>2
  <2>2. v[k] = u[b + k] /\ u[b + k] = s[a + (b + k)] /\ w[k] = s[(a + b) + k]
    BY <2>1, <1>1, <1>2, <1>3
  <2>3. a + (b + k) = (a + b) + k
    BY <2>1
  <2> QED BY <2>2, <2>3
<1>6. v = w
  BY <1>2, <1>3, <1>4, <1>5, SameSeq
<1> QED BY <1>6 DEF u, v, w

\* Once the values are shared out, the two sides no longer wait for each other.
LEMMA SplitsSettled ==
  ASSUME NEW c \in Seq(Value), NEW t \in Seq(Fiber), NEW p \in Seq(Putter), capacity \in Nat,
         NEW g, NEW k, NEW m, Splits(c, t, p, g, k, m), p # <<>> => strategy = "backPressure",
         NEW c2 \in Seq(Value), Len(c2) = k, NEW t2 \in Seq(Fiber), Len(t2) = Len(t) - g,
         NEW p2 \in Seq(Putter), Len(p2) = Len(p) - m
  PROVE  Settled(c2, t2, p2)
<1> USE DEF Splits
<1>1. Len(c) \in Nat /\ Len(t) \in Nat /\ Len(p) \in Nat
  OBVIOUS
<1>2. Len(c2) <= capacity
  OBVIOUS
<1>3. ASSUME p2 # <<>> PROVE strategy = "backPressure" /\ Len(c2) = capacity
  <2>1. Len(p2) > 0
    BY <1>3
  <2>2. m < Len(p) /\ p # <<>>
    BY <2>1, <1>1
  <2> QED BY <2>2, <1>1
<1>4. ASSUME t2 # <<>> PROVE c2 = <<>> /\ p2 = <<>>
  <2>1. Len(t2) > 0
    BY <1>4
  <2>2. g = Len(c) + Len(p)
    BY <2>1, <1>1
  <2>3. k = 0 /\ m = Len(p)
    BY <2>2, <1>1
  <2>4. Len(c2) = 0 /\ Len(p2) = 0
    BY <2>3, <1>1
  <2> QED BY <2>4
<1> QED BY <1>2, <1>3, <1>4 DEF Settled

\* gv is given to the first of the takers ts.
ToFirst(gv, ts) == \A i \in 1..Len(gv) : gv[i].to = ts[i]

\* Gifts to the first takers and then to the next ones are gifts to the first.
LEMMA GiftsTo ==
  ASSUME NEW ts \in Seq(Fiber), NEW h \in Nat, NEW g \in Nat, h + g <= Len(ts),
         NEW gv \in Seq(Gift), Len(gv) = h, ToFirst(gv, ts),
         NEW new \in Seq(Gift), Len(new) = g, ToFirst(new, From(ts, h + 1))
  PROVE  gv \o new \in Seq(Gift) /\ Len(gv \o new) = h + g /\ ToFirst(gv \o new, ts)
<1> DEFINE gg == gv \o new
<1>1. /\ gg \in Seq(Gift) /\ Len(gg) = h + g
      /\ \A i \in 1..h : gg[i] = gv[i]
      /\ \A i \in 1..g : gg[h + i] = new[i]
  <2>1. /\ gg \in Seq(Gift) /\ Len(gg) = Len(gv) + Len(new)
        /\ \A i \in 1..Len(gv) : gg[i] = gv[i]
        /\ \A i \in 1..Len(new) : gg[Len(gv) + i] = new[i]
    <3>1. gg \in Seq(Gift) /\ Len(gg) = Len(gv) + Len(new)
      BY ConcatParts
    <3>2. \A i \in 1..Len(gv) : gg[i] = gv[i]
      BY ConcatParts
    <3>3. \A i \in 1..Len(new) : gg[Len(gv) + i] = new[i]
      BY ConcatParts
    <3> QED BY <3>1, <3>2, <3>3
  <2> QED BY <2>1
<1>2. h <= Len(ts) /\ g <= Len(ts) - h
  OBVIOUS
<1>3. \A k \in 1..(Len(ts) - h) : From(ts, h + 1)[k] = ts[h + k]
  BY <1>2, FromParts
<1> HIDE DEF gg
<1>4. \A i \in 1..(h + g) : gg[i].to = ts[i]
  <2> TAKE i \in 1..(h + g)
  <2>1. CASE i \in 1..h
    BY <2>1, <1>1 DEF ToFirst
  <2>2. CASE i \notin 1..h
    <3> DEFINE j == i - h
    <3>1. j \in 1..g /\ j \in 1..(Len(ts) - h) /\ i = h + j
      BY <2>2, <1>2
    <3> HIDE DEF j
    <3>2. gg[h + j] = new[j] /\ new[j].to = From(ts, h + 1)[j] /\ From(ts, h + 1)[j] = ts[h + j]
      BY <3>1, <1>1, <1>3 DEF ToFirst
    <3> QED BY <3>1, <3>2
  <2> QED BY <2>1, <2>2
<1> QED BY <1>1, <1>4 DEF gg, ToFirst

\* Settle and Hand deliver: who is served leaves the takers and the putters, and the
\* rest keeps its place and its deferred.
LEMMA Delivered ==
  ASSUME NEW s, NEW c \in Seq(Value), NEW t \in Seq(Fiber), NEW p \in Seq(Putter),
         NEW gv \in Seq(Gift), Has(s, c, t, p, gv), capacity \in Nat \ {0}, Len(c) <= capacity,
         p # <<>> => strategy = "backPressure",
         NEW ts \in Seq(Fiber), NEW h \in Nat, h <= Len(ts), t = From(ts, h + 1),
         Len(gv) = h, ToFirst(gv, ts),
         NEW d \in [Fiber -> Outcome], NEW out \in Seq(Value), Hand(Settle(s), d, out),
         item \in [Fiber -> Value], got \in Seq(Value)
  PROVE  StoreTyped /\ Delivers(ts, p, d) /\ Settled(content', takers', putters')
<1> DEFINE r == Settle(s)  all == c \o Values(p)
<1>1. PICK g \in Nat, k \in Nat, m \in Nat : SettlesTo(s, c, t, p, g, k, m)
  BY SettleFields
<1> HIDE DEF r
<1>2. r.content = SubSeq(all, g + 1, g + k) /\ r.takers = From(t, g + 1)
      /\ r.putters = From(p, m + 1) /\ r.given = gv \o Gifts(t, all, g)
      /\ r.admitted = Whole(p, m)
  <2> DEFINE a == SubSeq(c \o Values(p), g + 1, g + k)  b == From(t, g + 1)  e == From(p, m + 1)
             u == s.given \o Gifts(t, c \o Values(p), g)  w == Whole(p, m)
  <2>1. Settle(s) = [content |-> a, takers |-> b, putters |-> e, given |-> u, admitted |-> w]
    BY <1>1 DEF SettlesTo
  <2> HIDE DEF a, b, e, u, w
  <2>2. r.content = a /\ r.takers = b /\ r.putters = e /\ r.given = u /\ r.admitted = w
    BY <2>1 DEF r
  <2> QED BY <2>2 DEF a, b, e, u, w, Has
<1>3. all \in Seq(Value) /\ Len(all) = Len(c) + Len(p)
  BY AllParts
<1> HIDE DEF all
<1>4. /\ g <= Len(t) /\ k <= capacity /\ m <= Len(p) /\ g + k = Len(c) + m
      /\ Len(c) \in Nat /\ Len(t) \in Nat /\ Len(p) \in Nat /\ g + k <= Len(all) /\ g <= Len(all)
  BY <1>1, <1>3, SMTT(30) DEF Splits, SettlesTo
<1>5. r.content \in Seq(Value) /\ Len(r.content) = k
  <2>1. SubSeq(all, g + 1, g + k) \in Seq(Value) /\ Len(SubSeq(all, g + 1, g + k)) = (g + k) + 1 - (g + 1)
    <3>1. g + 1 \in Nat \ {0} /\ g + k \in Nat /\ g + 1 <= (g + k) + 1
      OBVIOUS
    <3> QED BY <1>3, <1>4, <3>1, SubSeqParts
  <2>2. (g + k) + 1 - (g + 1) = k
    OBVIOUS
  <2> QED BY <1>2, <2>1, <2>2
<1>6. r.takers \in Seq(Fiber) /\ Len(r.takers) = Len(t) - g /\ r.putters \in Seq(Putter) /\ Len(r.putters) = Len(p) - m
  <2>1. From(t, g + 1) \in Seq(Fiber) /\ Len(From(t, g + 1)) = Len(t) - g
    <3>1. g <= Len(t)
      BY <1>4
    <3>2. From(t, g + 1) \in Seq(Fiber)
      BY <3>1, FromParts
    <3>3. Len(From(t, g + 1)) = Len(t) - g
      BY <3>1, FromParts
    <3> QED BY <3>2, <3>3
  <2>2. From(p, m + 1) \in Seq(Putter) /\ Len(From(p, m + 1)) = Len(p) - m
    BY <1>4, FromParts
  <2> QED BY <1>2, <2>1, <2>2
<1> DEFINE new == Gifts(t, all, g)  gg == gv \o new
<1>7. new \in Seq(Gift) /\ Len(new) = g /\ \A i \in 1..g : new[i].to = t[i]
  <2> HIDE DEF Gift
  <2>1. all \in Seq(Value) /\ g <= Len(t) /\ g <= Len(all)
    BY <1>3, <1>4
  <2>2. /\ Gifts(t, all, g) \in Seq(Gift) /\ Len(Gifts(t, all, g)) = g
        /\ \A i \in 1..g : Gifts(t, all, g)[i].to = t[i]
    BY <2>1, GiftsParts, SMTT(30)
  <2> QED BY <2>2
<1> HIDE DEF new
<1>0. Len(t) = Len(ts) - h /\ h + g <= Len(ts)
  <2>1. Len(From(ts, h + 1)) = Len(ts) - h
    BY FromParts
  <2> QED BY <2>1, <1>4
<1>8. /\ gg \in Seq(Gift) /\ Len(gg) = h + g
      /\ ToFirst(gg, ts)
  <2>1. new \in Seq(Gift) /\ Len(new) = g /\ ToFirst(new, From(ts, h + 1))
    BY <1>7 DEF ToFirst
  <2> QED BY <1>0, <2>1, GiftsTo
<1> HIDE DEF gg
<1>9. r.given = gg
  BY <1>2 DEF gg, new
<1>10. StoreTyped
  BY <1>5, <1>6, <1>8, <1>9, HandTyped DEF r
<1>11. \A i \in 1..(h + g) : gg[i].to = ts[i]
  BY <1>8 DEF ToFirst
<1>12. /\ content' = r.content /\ takers' = r.takers /\ putters' = r.putters
       /\ deferred' = [f \in Fiber |->
            IF d[f] = "pending" /\ (f \in Whole(p, m) \/ {i \in DOMAIN gg : gg[i].to = f /\ d[f] = "pending"} # {})
            THEN "done" ELSE d[f]]
  BY <1>2, <1>9 DEF Hand, r
<1>13. takers' = From(ts, (h + g) + 1) /\ h + g <= Len(ts)
  <2>2. h + g <= Len(ts)
    BY <1>0
  <2>3. takers' = From(From(ts, h + 1), g + 1)
    BY <1>2, <1>12
  <2>4. From(From(ts, h + 1), g + 1) = From(ts, h + g + 1)
    <3>1. ts \in Seq(Fiber) /\ h \in Nat /\ g \in Nat
      BY <1>1
    <3> QED BY ONLY <3>1, <2>2, FromFrom
  <2> QED BY <2>2, <2>3, <2>4
<1>14. DOMAIN gg = 1..(h + g)
  BY <1>8
<1>15. \A f \in Fiber : deferred'[f] =
            IF d[f] = "pending" /\ (f \in Whole(p, m) \/ \E i \in 1..(h + g) : ts[i] = f)
            THEN "done" ELSE d[f]
  <2> TAKE f \in Fiber
  <2> DEFINE mine == {i \in DOMAIN gg : gg[i].to = f /\ d[f] = "pending"}
  <2>1. d[f] = "pending" => (mine # {} <=> \E i \in 1..(h + g) : ts[i] = f)
    <3>1. mine = {i \in 1..(h + g) : ts[i] = f /\ d[f] = "pending"}
      BY <1>11, <1>14
    <3> HIDE DEF mine
    <3> QED BY <3>1
  <2>2. deferred'[f] = IF d[f] = "pending" /\ (f \in Whole(p, m) \/ mine # {}) THEN "done" ELSE d[f]
    BY <1>12
  <2> HIDE DEF mine
  <2> QED BY <2>1, <2>2
<1>16. \A f \in Fiber : f \in Whole(p, m) <=> \E i \in 1..m : p[i].last /\ p[i].value.by = f
  BY DEF Whole
<1>17. Delivers(ts, p, d)
  <2> DEFINE n == h + g
  <2>1. n \in Nat /\ n <= Len(ts) /\ m <= Len(p) /\ takers' = From(ts, n + 1) /\ putters' = From(p, m + 1)
    <3>1. n \in Nat /\ n <= Len(ts) /\ m <= Len(p)
      BY <1>13, <1>4
    <3>2. takers' = From(ts, n + 1)
      BY <1>13
    <3>3. putters' = From(p, m + 1)
      BY <1>12, <1>2
    <3> QED BY <3>1, <3>2, <3>3
  <2>2. \A f \in Fiber : deferred'[f] = d[f] \/ (d[f] = "pending" /\ deferred'[f] = "done")
    BY <1>15
  <2>3. \A i \in 1..n : deferred'[ts[i]] # "pending"
    <3> TAKE i \in 1..n
    <3>1. ts[i] \in Fiber
      BY <2>1
    <3> QED BY <3>1, <1>15
  <2>4. \A i \in 1..m : p[i].last => deferred'[p[i].value.by] # "pending"
    <3> TAKE i \in 1..m
    <3> HAVE p[i].last
    <3>1. p[i] \in Putter
      <4> HIDE DEF Putter
      <4> QED BY <2>1
    <3>2. p[i].value.by \in Fiber
      BY <3>1, PutterParts
    <3>3. p[i].value.by \in Whole(p, m)
      BY <3>2, <1>16
    <3> QED BY <3>2, <3>3, <1>15
  <2>5. \A f \in Fiber : deferred'[f] = "done" =>
          \/ d[f] = "done"
          \/ \E i \in 1..n : ts[i] = f
          \/ \E i \in 1..m : p[i].last /\ p[i].value.by = f
    BY <1>15, <1>16
  <2> HIDE DEF n
  <2> USE <2>1
  <2> SUFFICES \E a, b \in Nat :
        /\ a <= Len(ts) /\ b <= Len(p)
        /\ takers' = From(ts, a + 1) /\ putters' = From(p, b + 1)
        /\ \A f \in Fiber : deferred'[f] = d[f] \/ (d[f] = "pending" /\ deferred'[f] = "done")
        /\ \A i \in 1..a : deferred'[ts[i]] # "pending"
        /\ \A i \in 1..b : p[i].last => deferred'[p[i].value.by] # "pending"
        /\ \A f \in Fiber : deferred'[f] = "done" =>
             \/ d[f] = "done"
             \/ \E i \in 1..a : ts[i] = f
             \/ \E i \in 1..b : p[i].last /\ p[i].value.by = f
    BY DEF Delivers
  <2> WITNESS n \in Nat, m \in Nat
  <2> QED BY <2>1, <2>2, <2>3, <2>4, <2>5
<1>18. Settled(content', takers', putters')
  <2>1. Settled(r.content, r.takers, r.putters)
    <3>1. Splits(c, t, p, g, k, m) /\ capacity \in Nat
      BY <1>1 DEF SettlesTo
    <3>2. Len(r.content) = k /\ Len(r.takers) = Len(t) - g /\ Len(r.putters) = Len(p) - m
      BY <1>5, <1>6
    <3>3. r.content \in Seq(Value) /\ r.takers \in Seq(Fiber) /\ r.putters \in Seq(Putter)
      BY <1>5, <1>6
    <3> DEFINE c2 == r.content  t2 == r.takers  p2 == r.putters
    <3>4. c2 \in Seq(Value) /\ t2 \in Seq(Fiber) /\ p2 \in Seq(Putter)
          /\ Len(c2) = k /\ Len(t2) = Len(t) - g /\ Len(p2) = Len(p) - m
      BY <3>2, <3>3
    <3> HIDE DEF c2, t2, p2
    <3>5. Settled(c2, t2, p2)
      BY <3>1, <3>4, SplitsSettled, Zenon
    <3> QED BY <3>5 DEF c2, t2, p2
  <2> QED BY <2>1, <1>12
<1> QED BY <1>10, <1>17, <1>18

\* Of the values `all', those that were in the queue or offered, the first n came out
\* and the next k are in the queue now.
Flow(all) == \E n, k \in Nat :
  /\ n + k <= Len(all)
  /\ got' = got \o SubSeq(all, 1, n)
  /\ content' = SubSeq(all, n + 1, n + k)
  /\ Values(putters') = From(all, (n + k) + 1)

\* What was given, without to whom.
GiftValues(gv) == [i \in DOMAIN gv |-> gv[i].value]

\* It does not matter which of three sequences are joined first.
LEMMA ConcatAssoc ==
  ASSUME NEW S, NEW a \in Seq(S), NEW b \in Seq(S), NEW c \in Seq(S)
  PROVE  (a \o b) \o c = a \o (b \o c)
<1> DEFINE u == (a \o b) \o c  v == a \o (b \o c)
<1>1. u \in Seq(S) /\ v \in Seq(S) /\ Len(u) = Len(v) /\ Len(u) = Len(a) + Len(b) + Len(c)
  OBVIOUS
<1>2. \A k \in 1..Len(u) : u[k] = v[k]
  <2> TAKE k \in 1..Len(u)
  <2>1. CASE k <= Len(a)
    BY <2>1, <1>1
  <2>2. CASE k > Len(a) /\ k <= Len(a) + Len(b)
    BY <2>2, <1>1
  <2>3. CASE k > Len(a) + Len(b)
    BY <2>3, <1>1
  <2> QED BY <2>1, <2>2, <2>3, <1>1
<1> HIDE DEF u, v
<1>3. u = v
  BY <1>1, <1>2, SameSeq
<1> QED BY <1>3 DEF u, v

\* What comes first of a sequence with something before it.
LEMMA Prefixed ==
  ASSUME NEW S, NEW a \in Seq(S), NEW b \in Seq(S), NEW n \in Nat, NEW k \in Nat, n + k <= Len(b)
  PROVE  /\ a \o SubSeq(b, 1, n) = SubSeq(a \o b, 1, Len(a) + n)
         /\ SubSeq(b, n + 1, n + k) = SubSeq(a \o b, (Len(a) + n) + 1, (Len(a) + n) + k)
<1> DEFINE w == a \o b
<1>1. w \in Seq(S) /\ Len(w) = Len(a) + Len(b) /\ Len(a) \in Nat /\ Len(b) \in Nat
  OBVIOUS
<1>2. \A i \in 1..Len(a) : w[i] = a[i]
  BY ConcatParts
<1>3. \A i \in 1..Len(b) : w[Len(a) + i] = b[i]
  BY ConcatParts
<1>4. a \o SubSeq(b, 1, n) = SubSeq(w, 1, Len(a) + n)
  <2> DEFINE s == SubSeq(b, 1, n)  u == a \o s  v == SubSeq(w, 1, Len(a) + n)
  <2>1. s \in Seq(S) /\ Len(s) = n
    BY <1>1
  <2>2. \A i \in 1..n : s[i] = b[i]
    BY <1>1
  <2> HIDE DEF s
  <2>3. u \in Seq(S) /\ Len(u) = Len(a) + n
    BY <2>1, <1>1
  <2>4. \A i \in 1..Len(a) : u[i] = a[i]
    BY <2>1
  <2>5. \A i \in 1..n : u[Len(a) + i] = s[i]
    BY <2>1
  <2> HIDE DEF u, w
  <2>6. v \in Seq(S) /\ Len(v) = Len(a) + n
    BY <1>1
  <2>7. \A i \in 1..(Len(a) + n) : v[i] = w[i]
    BY <1>1
  <2> HIDE DEF v
  <2>8. \A i \in 1..Len(u) : u[i] = v[i]
    <3> TAKE i \in 1..Len(u)
    <3>1. CASE i <= Len(a)
      BY <3>1, <1>1, <1>2, <2>3, <2>4, <2>7
    <3>2. CASE i > Len(a)
      <4> DEFINE j == i - Len(a)
      <4>1. j \in 1..n /\ i = Len(a) + j /\ j \in 1..Len(b) /\ i \in 1..(Len(a) + n)
        BY <3>2, <2>3, <1>1
      <4> HIDE DEF j
      <4>2. u[Len(a) + j] = s[j] /\ s[j] = b[j] /\ w[Len(a) + j] = b[j]
        BY <4>1, <2>5, <2>2, <1>3
      <4>3. v[i] = w[i]
        BY <4>1, <2>7
      <4> QED BY <4>1, <4>2, <4>3
    <3> QED BY <3>1, <3>2, <2>3, <1>1
  <2>9. u = v
    BY <2>3, <2>6, <2>8, SameSeq
  <2> QED BY <2>9 DEF u, v, s
<1>5. SubSeq(b, n + 1, n + k) = SubSeq(w, (Len(a) + n) + 1, (Len(a) + n) + k)
  <2> DEFINE u == SubSeq(b, n + 1, n + k)  v == SubSeq(w, (Len(a) + n) + 1, (Len(a) + n) + k)
  <2> HIDE DEF w
  <2>1. u \in Seq(S) /\ Len(u) = k
    BY <1>1
  <2>2. v \in Seq(S) /\ Len(v) = k
    BY <1>1
  <2>3. \A i \in 1..k : u[i] = b[n + i]
    BY <1>1
  <2>4. \A i \in 1..k : v[i] = w[(Len(a) + n) + i]
    BY <1>1
  <2> HIDE DEF u, v
  <2>5. \A i \in 1..k : u[i] = v[i]
    <3> TAKE i \in 1..k
    <3> DEFINE j == n + i
    <3>1. j \in 1..Len(b) /\ (Len(a) + n) + i = Len(a) + j
      BY <1>1
    <3>2. w[Len(a) + j] = b[j]
      <4> HIDE DEF j
      <4> QED BY <3>1, <1>3
    <3> QED BY <3>1, <3>2, <2>3, <2>4
  <2>6. u = v
    BY <2>1, <2>2, <2>5, SameSeq
  <2> QED BY <2>6 DEF u, v
<1> QED BY <1>4, <1>5 DEF w

\* The rest of a sequence, as the rest of one with something before it.
LEMMA PrefixedRest ==
  ASSUME NEW S, NEW a \in Seq(S), NEW b \in Seq(S), NEW x \in Nat, x <= Len(b)
  PROVE  From(b, x + 1) = From(a \o b, (Len(a) + x) + 1)
<1> DEFINE w == a \o b  y == Len(a) + x  u == From(b, x + 1)  v == From(w, y + 1)
<1>1. w \in Seq(S) /\ Len(w) = Len(a) + Len(b) /\ Len(a) \in Nat /\ Len(b) \in Nat
  OBVIOUS
<1>2. \A i \in 1..Len(b) : w[Len(a) + i] = b[i]
  BY ConcatParts
<1> HIDE DEF w
<1>3. y \in Nat /\ y <= Len(w) /\ Len(w) - y = Len(b) - x
  BY <1>1
<1>4. u \in Seq(S) /\ Len(u) = Len(b) - x
  BY FromParts
<1>5. \A i \in 1..(Len(b) - x) : u[i] = b[x + i]
  BY FromParts
<1>6. y = Len(a) + x
  OBVIOUS
<1> HIDE DEF y
<1>7. v \in Seq(S) /\ Len(v) = Len(w) - y
  BY <1>3, <1>1, FromParts
<1>8. \A i \in 1..(Len(w) - y) : v[i] = w[y + i]
  <2>1. w \in Seq(S) /\ y \in Nat /\ y <= Len(w)
    BY <1>3, <1>1
  <2> QED BY <2>1, FromParts
<1> HIDE DEF u, v
<1>9. \A i \in 1..Len(u) : u[i] = v[i]
  <2> TAKE i \in 1..Len(u)
  <2> DEFINE j == x + i
  <2>1. j \in 1..Len(b) /\ y + i = Len(a) + j /\ i \in 1..(Len(b) - x) /\ i \in 1..(Len(w) - y)
    BY <1>1, <1>3, <1>4, <1>6
  <2>2. w[Len(a) + j] = b[j]
    <3> HIDE DEF j
    <3> QED BY <2>1, <1>2
  <2> QED BY <2>1, <2>2, <1>5, <1>8
<1>10. u = v
  BY <1>1, <1>3, <1>4, <1>7, <1>9, SameSeq
<1> QED BY <1>10, <1>6 DEF u, v, w

\* The values of gifts, by their elements.
LEMMA GiftValuesParts ==
  ASSUME NEW gv \in Seq(Gift)
  PROVE  /\ GiftValues(gv) \in Seq(Value) /\ Len(GiftValues(gv)) = Len(gv)
         /\ \A i \in 1..Len(gv) : GiftValues(gv)[i] = gv[i].value
<1>1. DOMAIN gv = 1..Len(gv) /\ \A i \in 1..Len(gv) : gv[i] \in Gift
  OBVIOUS
<1>2. \A i \in 1..Len(gv) : gv[i].value \in Value
  BY <1>1, GiftParts
<1>3. GiftValues(gv) = [i \in 1..Len(gv) |-> gv[i].value]
  BY <1>1 DEF GiftValues
<1> QED BY <1>2, <1>3

\* The values that are handed out, in order.
LEMMA GiftsValues ==
  ASSUME NEW gv \in Seq(Gift), NEW t \in Seq(Fiber), NEW vs \in Seq(Value), NEW g \in Nat, g <= Len(t), g <= Len(vs)
  PROVE  GiftValues(gv \o Gifts(t, vs, g)) = GiftValues(gv) \o SubSeq(vs, 1, g)
<1> DEFINE new == Gifts(t, vs, g)  w == gv \o new  u == GiftValues(w)
           a == GiftValues(gv)  b == SubSeq(vs, 1, g)  v == a \o b
<1>1. new \in Seq(Gift) /\ Len(new) = g
  BY GiftsParts
<1>2. \A i \in 1..g : new[i].value = vs[i]
  BY GiftsParts
<1> HIDE DEF new
<1>3. w \in Seq(Gift) /\ Len(w) = Len(gv) + g
  BY <1>1, ConcatParts
<1>4. \A i \in 1..Len(gv) : w[i] = gv[i]
  BY <1>1, ConcatParts
<1>5. \A i \in 1..g : w[Len(gv) + i] = new[i]
  <2>1. \A i \in 1..Len(new) : w[Len(gv) + i] = new[i]
    BY <1>1, ConcatParts
  <2> QED BY <2>1, <1>1
<1> HIDE DEF w
<1>6. u \in Seq(Value) /\ Len(u) = Len(gv) + g /\ \A i \in 1..(Len(gv) + g) : u[i] = w[i].value
  BY <1>3, GiftValuesParts
<1>7. a \in Seq(Value) /\ Len(a) = Len(gv) /\ \A i \in 1..Len(gv) : a[i] = gv[i].value
  BY GiftValuesParts
<1>8. b \in Seq(Value) /\ Len(b) = g
  <2> HIDE DEF Value
  <2> QED OBVIOUS
<1>9. \A i \in 1..g : b[i] = vs[i]
  OBVIOUS
<1> HIDE DEF u, a, b
<1>10. v \in Seq(Value) /\ Len(v) = Len(gv) + g
  <2>1. a \in Seq(Value) /\ b \in Seq(Value)
    BY <1>7, <1>8
  <2>2. v \in Seq(Value)
    BY <2>1, ConcatParts
  <2>3. Len(v) = Len(a) + Len(b)
    BY <2>1, ConcatParts
  <2> QED BY <2>2, <2>3, <1>7, <1>8
<1>11. \A i \in 1..Len(gv) : v[i] = a[i]
  BY <1>7, <1>8, ConcatParts
<1>12. \A i \in 1..g : v[Len(gv) + i] = b[i]
  <2>1. \A i \in 1..Len(b) : v[Len(a) + i] = b[i]
    <3>1. a \in Seq(Value) /\ b \in Seq(Value)
      BY <1>7, <1>8
    <3> QED BY <3>1, ConcatParts
  <2> QED BY <2>1, <1>7, <1>8
<1> HIDE DEF v
<1>13. \A i \in 1..Len(u) : u[i] = v[i]
  <2> TAKE i \in 1..Len(u)
  <2>0. Len(gv) \in Nat
    OBVIOUS
  <2>1. CASE i <= Len(gv)
    <3>1. i \in 1..Len(gv) /\ i \in 1..(Len(gv) + g)
      BY <2>0, <2>1, <1>6
    <3>2. u[i] = w[i].value /\ w[i] = gv[i] /\ v[i] = a[i] /\ a[i] = gv[i].value
      BY <3>1, <1>4, <1>6, <1>7, <1>11
    <3> QED BY <3>2
  <2>2. CASE i > Len(gv)
    <3> DEFINE j == i - Len(gv)
    <3>1. j \in 1..g /\ i = Len(gv) + j /\ i \in 1..(Len(gv) + g)
      BY <2>0, <2>2, <1>6
    <3> HIDE DEF j
    <3>2. u[i] = w[i].value
      BY <3>1, <1>6
    <3>3. w[Len(gv) + j] = new[j] /\ new[j].value = vs[j] /\ v[Len(gv) + j] = b[j] /\ b[j] = vs[j]
      BY <3>1, <1>5, <1>2, <1>12, <1>9
    <3> QED BY <3>1, <3>2, <3>3
  <2> QED BY <2>0, <2>1, <2>2, <1>6
<1>14. u = v
  BY <1>6, <1>10, <1>13, SameSeq
<1> QED BY <1>14 DEF u, v, w, new, a, b

\* The values of the putters that are left are the rest of the values.
LEMMA ValuesRest ==
  ASSUME NEW c \in Seq(Value), NEW p \in Seq(Putter), NEW m \in Nat, m <= Len(p)
  PROVE  Values(From(p, m + 1)) = From(c \o Values(p), (Len(c) + m) + 1)
<1> DEFINE q == From(p, m + 1)  u == Values(q)  vp == Values(p)  w == c \o vp  v == From(w, (Len(c) + m) + 1)
<1>1. q \in Seq(Putter) /\ Len(q) = Len(p) - m
  BY FromParts
<1>2. \A i \in 1..(Len(p) - m) : q[i] = p[m + i]
  BY FromParts
<1> HIDE DEF q
<1>3. u \in Seq(Value) /\ Len(u) = Len(q) /\ \A i \in 1..Len(q) : u[i] = q[i].value
  BY <1>1, ValuesParts
<1>4. vp \in Seq(Value) /\ Len(vp) = Len(p) /\ \A i \in 1..Len(p) : vp[i] = p[i].value
  BY ValuesParts
<1> HIDE DEF u, vp
<1>5. w \in Seq(Value) /\ Len(w) = Len(c) + Len(p) /\ Len(c) + m \in Nat /\ Len(c) + m <= Len(w)
  <2>1. vp \in Seq(Value)
    BY <1>4
  <2>2. w \in Seq(Value)
    BY <2>1, ConcatParts
  <2>3. Len(w) = Len(c) + Len(vp)
    BY <2>1, ConcatParts
  <2> QED BY <1>4, <2>2, <2>3
<1>6. \A i \in 1..Len(p) : w[Len(c) + i] = vp[i]
  <2>1. \A i \in 1..Len(vp) : w[Len(c) + i] = vp[i]
    BY <1>4, ConcatParts
  <2> QED BY <2>1, <1>4
<1> HIDE DEF w
<1> DEFINE y == Len(c) + m
<1> HIDE DEF y
<1>7. y \in Nat /\ y <= Len(w) /\ Len(w) - y = Len(p) - m
  BY <1>5 DEF y
<1>8. From(w, y + 1) \in Seq(Value) /\ Len(From(w, y + 1)) = Len(w) - y
  BY <1>5, <1>7, FromParts
<1>9. \A i \in 1..(Len(w) - y) : From(w, y + 1)[i] = w[y + i]
  BY <1>5, <1>7, FromParts
<1>10. v = From(w, y + 1)
  BY DEF y
<1> HIDE DEF v
<1>11. \A i \in 1..Len(u) : u[i] = v[i]
  <2> TAKE i \in 1..Len(u)
  <2> DEFINE j == m + i
  <2>1. i \in 1..Len(q) /\ i \in 1..(Len(p) - m) /\ i \in 1..(Len(w) - y) /\ j \in 1..Len(p)
    BY <1>1, <1>3, <1>7
  <2>2. y + i = Len(c) + j
    BY <2>1 DEF y
  <2>3. u[i] = q[i].value /\ q[i] = p[j]
    BY <2>1, <1>2, <1>3
  <2>4. v[i] = w[y + i]
    BY <2>1, <1>9, <1>10
  <2> HIDE DEF j
  <2>5. w[Len(c) + j] = vp[j] /\ vp[j] = p[j].value
    BY <2>1, <1>4, <1>6
  <2> QED BY <2>2, <2>3, <2>4, <2>5
<1>12. u = v
  <2>1. v \in Seq(Value) /\ Len(v) = Len(u)
    BY <1>1, <1>3, <1>7, <1>8, <1>10
  <2> QED BY <1>3, <1>11, <2>1, SameSeq
<1> QED BY <1>12 DEF u, v, w, q, vp

\* Settle and Hand pass values on in their order.
LEMMA Flows ==
  ASSUME NEW s, NEW c \in Seq(Value), NEW t \in Seq(Fiber), NEW p \in Seq(Putter),
         NEW gv \in Seq(Gift), Has(s, c, t, p, gv), capacity \in Nat \ {0}, Len(c) <= capacity,
         NEW d, NEW out \in Seq(Value), Hand(Settle(s), d, out), got \in Seq(Value)
  PROVE  Flow((out \o GiftValues(gv)) \o (c \o Values(p)))
<1> DEFINE r == Settle(s)  rest == c \o Values(p)
<1>1. PICK g \in Nat, k \in Nat, m \in Nat : SettlesTo(s, c, t, p, g, k, m)
  BY SettleFields
<1> HIDE DEF r
<1>2. r.content = SubSeq(rest, g + 1, g + k) /\ r.putters = From(p, m + 1) /\ r.given = gv \o Gifts(t, rest, g)
  <2> DEFINE a == SubSeq(c \o Values(p), g + 1, g + k)  b == From(t, g + 1)  e == From(p, m + 1)
             u == s.given \o Gifts(t, c \o Values(p), g)  w == Whole(p, m)
  <2>1. Settle(s) = [content |-> a, takers |-> b, putters |-> e, given |-> u, admitted |-> w]
    BY <1>1 DEF SettlesTo
  <2> HIDE DEF a, b, e, u, w
  <2>2. r.content = a /\ r.takers = b /\ r.putters = e /\ r.given = u /\ r.admitted = w
    BY <2>1 DEF r
  <2> QED BY <2>2 DEF a, b, e, u, w, Has
<1>3. rest \in Seq(Value) /\ Len(rest) = Len(c) + Len(p)
  BY AllParts
<1>4. /\ g <= Len(t) /\ m <= Len(p) /\ g + k = Len(c) + m
      /\ Len(c) \in Nat /\ Len(t) \in Nat /\ Len(p) \in Nat /\ g + k <= Len(rest) /\ g <= Len(rest)
  BY <1>1, <1>3 DEF Splits, SettlesTo
<1> DEFINE given == gv \o Gifts(t, rest, g)  x == GiftValues(gv)  y == SubSeq(rest, 1, g)  pre == out \o x
<1>5. content' = r.content /\ putters' = r.putters /\ got' = got \o out \o GiftValues(given)
  BY <1>2 DEF Hand, r, GiftValues
<1>6. GiftValues(given) = x \o y
  <2> HIDE DEF rest
  <2> QED BY <1>3, <1>4, GiftsValues
<1> HIDE DEF given
<1>7. x \in Seq(Value)
  BY GiftValuesParts
<1>8. y \in Seq(Value)
  <2> HIDE DEF rest, Value
  <2> QED BY <1>3, <1>4
<1> HIDE DEF x, y
<1>9. pre \in Seq(Value)
  BY <1>7, ConcatParts
<1>10. got' = got \o (pre \o y)
  <2>1. (got \o out) \o (x \o y) = got \o (out \o (x \o y))
    <3>1. x \o y \in Seq(Value)
      BY <1>7, <1>8, ConcatParts
    <3> DEFINE z == x \o y
    <3>2. z \in Seq(Value)
      BY <3>1
    <3> HIDE DEF z
    <3>3. (got \o out) \o z = got \o (out \o z)
      BY <3>2, ConcatAssoc, SMTT(30)
    <3> QED BY <3>3 DEF z
  <2>2. out \o (x \o y) = pre \o y
    <3>1. (out \o x) \o y = out \o (x \o y)
      <4>1. out \in Seq(Value)
        OBVIOUS
      <4> QED BY ONLY <4>1, <1>7, <1>8, ConcatAssoc
    <3> QED BY <3>1
  <2> QED BY <2>1, <2>2, <1>5, <1>6
<1> DEFINE all == pre \o rest  n == Len(pre) + g
<1> HIDE DEF pre
<1>11. all \in Seq(Value) /\ Len(all) = Len(pre) + Len(rest) /\ Len(pre) \in Nat
  <2>1. rest \in Seq(Value)
    BY <1>3
  <2> HIDE DEF rest
  <2>2. all \in Seq(Value)
    BY <1>9, <2>1, ConcatParts
  <2>3. Len(all) = Len(pre) + Len(rest)
    BY <1>9, <2>1, ConcatParts
  <2> QED BY <1>9, <2>2, <2>3
<1>12. /\ pre \o y = SubSeq(all, 1, n)
       /\ SubSeq(rest, g + 1, g + k) = SubSeq(all, n + 1, n + k)
       /\ From(rest, (g + k) + 1) = From(all, (n + k) + 1)
  <2> HIDE DEF rest
  <2>1. /\ pre \o SubSeq(rest, 1, g) = SubSeq(pre \o rest, 1, Len(pre) + g)
        /\ SubSeq(rest, g + 1, g + k) = SubSeq(pre \o rest, (Len(pre) + g) + 1, (Len(pre) + g) + k)
        /\ From(rest, (g + k) + 1) = From(pre \o rest, ((Len(pre) + g) + k) + 1)
    <3>1. rest \in Seq(Value) /\ pre \in Seq(Value) /\ g + k <= Len(rest)
      BY <1>3, <1>4, <1>9
    <3>2. pre \o SubSeq(rest, 1, g) = SubSeq(pre \o rest, 1, Len(pre) + g)
      <4>1. g \in Nat /\ k \in Nat
        OBVIOUS
      <4> QED BY ONLY <3>1, <4>1, Prefixed, ZenonT(30)
    <3>3. SubSeq(rest, g + 1, g + k) = SubSeq(pre \o rest, (Len(pre) + g) + 1, (Len(pre) + g) + k)
      BY <3>1, Prefixed, SMTT(30)
    <3>4. From(rest, (g + k) + 1) = From(pre \o rest, ((Len(pre) + g) + k) + 1)
      <4> DEFINE x0 == g + k
      <4>1. x0 \in Nat /\ x0 <= Len(rest)
        BY <3>1
      <4>2. x0 = g + k
        OBVIOUS
      <4> HIDE DEF x0
      <4>3. From(rest, x0 + 1) = From(pre \o rest, (Len(pre) + x0) + 1)
        BY <3>1, <4>1, PrefixedRest
      <4>4. Len(pre) + x0 = (Len(pre) + g) + k
        BY <4>2, <3>1
      <4> QED BY <4>2, <4>3, <4>4
    <3> QED BY <3>2, <3>3, <3>4
  <2> QED BY <2>1 DEF y
<1>13. Values(putters') = From(rest, (g + k) + 1)
  <2>1. Values(From(p, m + 1)) = From(rest, (Len(c) + m) + 1)
    BY <1>4, ValuesRest
  <2> QED BY <2>1, <1>2, <1>4, <1>5
<1>14. n \in Nat /\ n + k <= Len(all)
  BY <1>11, <1>4
<1>15. Flow(all)
  <2> HIDE DEF all, n
  <2>1. got' = got \o SubSeq(all, 1, n) /\ content' = SubSeq(all, n + 1, n + k) /\ Values(putters') = From(all, (n + k) + 1)
    BY <1>2, <1>5, <1>10, <1>12, <1>13
  <2> QED BY <2>1, <1>14 DEF Flow
<1> QED BY <1>15 DEF all, pre, rest, x

\* What TypeOK says of the queue and its constants.
LEMMA Made == TypeOK => /\ capacity \in Nat \ {0} /\ strategy \in {"backPressure", "dropping", "sliding"}
                        /\ content \in Seq(Value) /\ takers \in Seq(Fiber) /\ putters \in Seq(Putter)
                        /\ deferred \in [Fiber -> Outcome] /\ item \in [Fiber -> Value] /\ got \in Seq(Value)
<1> SUFFICES ASSUME TypeOK PROVE capacity \in Nat \ {0} /\ strategy \in {"backPressure", "dropping", "sliding"}
  BY DEF TypeOK, Outcome
<1>1. <<capacity, strategy>> \in (Nat \ {0}) \X {"backPressure", "dropping", "sliding"}
  BY QueueAssumption DEF TypeOK
<1> QED BY <1>1

\* The empty sequence adds nothing.
LEMMA EmptyConcat ==
  ASSUME NEW S, NEW s \in Seq(S)
  PROVE  <<>> \o s = s /\ s \o <<>> = s
OBVIOUS

\* The empty sequence is one of values, of gifts and to anybody.
LEMMA EmptySeqs == /\ <<>> \in Seq(Value) /\ <<>> \in Seq(Gift) /\ GiftValues(<<>>) = <<>> /\ Len(<<>>) = 0
                   /\ \A ts : ToFirst(<<>>, ts)
BY DEF GiftValues, ToFirst

\* The beginning of a sequence, then the beginning of what follows.
LEMMA SubSeqs ==
  ASSUME NEW S, NEW s \in Seq(S), NEW a \in Nat, NEW b \in Nat, a + b <= Len(s)
  PROVE  SubSeq(s, 1, a) \o SubSeq(From(s, a + 1), 1, b) = SubSeq(s, 1, a + b)
<1> DEFINE x == SubSeq(s, 1, a)  r == From(s, a + 1)  y == SubSeq(r, 1, b)  u == x \o y  v == SubSeq(s, 1, a + b)
<1>0. Len(s) \in Nat /\ a <= Len(s) /\ b <= Len(s) - a
  OBVIOUS
<1>1. x \in Seq(S) /\ Len(x) = a /\ \A i \in 1..a : x[i] = s[i]
  BY <1>0
<1>2. r \in Seq(S) /\ Len(r) = Len(s) - a
  BY <1>0, FromParts
<1>3. \A i \in 1..(Len(s) - a) : r[i] = s[a + i]
  BY <1>0, FromParts
<1> HIDE DEF x, r
<1>4. y \in Seq(S) /\ Len(y) = b /\ \A i \in 1..b : y[i] = r[i]
  BY <1>0, <1>2
<1> HIDE DEF y
<1>5. u \in Seq(S) /\ Len(u) = a + b /\ \A i \in 1..a : u[i] = x[i]
  <2>1. u \in Seq(S) /\ Len(u) = Len(x) + Len(y)
    BY <1>1, <1>4, ConcatParts
  <2>2. \A i \in 1..Len(x) : u[i] = x[i]
    BY <1>1, <1>4, ConcatParts
  <2> QED BY <2>1, <2>2, <1>1, <1>4
<1>6. \A i \in 1..b : u[a + i] = y[i]
  BY <1>1, <1>4
<1>7. v \in Seq(S) /\ Len(v) = a + b /\ \A i \in 1..(a + b) : v[i] = s[i]
  BY <1>0
<1> HIDE DEF u, v
<1>8. \A i \in 1..Len(u) : u[i] = v[i]
  <2> TAKE i \in 1..Len(u)
  <2>1. CASE i <= a
    BY <2>1, <1>1, <1>5, <1>7
  <2>2. CASE i > a
    <3> DEFINE j == i - a
    <3>1. j \in 1..b /\ i = a + j /\ j \in 1..(Len(s) - a) /\ i \in 1..(a + b)
      BY <2>2, <1>5, <1>0
    <3> HIDE DEF j
    <3>2. u[a + j] = y[j] /\ y[j] = r[j] /\ r[j] = s[a + j]
      BY <3>1, <1>3, <1>4, <1>6
    <3> QED BY <3>1, <3>2, <1>7
  <2> QED BY <2>1, <2>2, <1>5
<1>9. u = v
  BY <1>5, <1>7, <1>8, SameSeq
<1> QED BY <1>9 DEF u, v, x, y, r

\* What the first effect of an offer hands out and stores.
LEMMA StoredParts ==
  ASSUME TypeOK, Balanced, NEW vs \in Seq(Value)
  PROVE  \E h, room \in Nat :
           /\ h <= Len(takers) /\ h + room <= Len(vs)
           /\ Len(content) + room <= capacity
           /\ h > 0 => content = <<>> /\ putters = <<>>
           /\ room > 0 => putters = <<>>
           /\ Stored(vs).left = From(vs, (h + room) + 1)
           /\ \E s : /\ Stored(vs).loop = Settle(s)
                     /\ Has(s, content \o SubSeq(From(vs, h + 1), 1, room), From(takers, h + 1), putters, Gifts(takers, vs, h))
<1> DEFINE h == IF content = <<>> THEN Least(Len(takers), Len(vs)) ELSE 0
           rest == From(vs, h + 1)
           room == Least(capacity - Len(content), Len(rest))
           cc == content \o SubSeq(rest, 1, room)
           tt == From(takers, h + 1)
           gg == [i \in 1..h |-> [to |-> takers[i], value |-> vs[i]]]
           s == [Loop(cc, tt, putters) EXCEPT !.given = gg]
<1>1. Stored(vs).left = From(rest, room + 1) /\ Stored(vs).loop = Settle(s)
  BY DEF Stored
<1>2. Has(s, cc, tt, putters, gg)
  <2> HIDE DEF cc, tt, gg
  <2> QED BY DEF Has, Loop
<1>3. gg = Gifts(takers, vs, h)
  BY DEF Gifts
<1>4. /\ capacity \in Nat \ {0} /\ content \in Seq(Value) /\ takers \in Seq(Fiber)
      /\ Len(content) <= capacity /\ Len(content) \in Nat /\ Len(takers) \in Nat /\ Len(vs) \in Nat
  BY Made DEF Balanced, Settled
<1>5. h \in Nat /\ h <= Len(takers) /\ h <= Len(vs) /\ (h > 0 => content = <<>>)
  BY <1>4, LeastParts
<1> HIDE DEF s, gg
<1>6. h > 0 => putters = <<>>
  <2> HAVE h > 0
  <2>1. takers # <<>>
    BY <1>4, <1>5
  <2> QED BY <2>1 DEF Balanced, Settled
<1> HIDE DEF h
<1>7. rest \in Seq(Value) /\ Len(rest) = Len(vs) - h
  BY <1>5, FromParts
<1> HIDE DEF rest
<1>8. room \in Nat /\ room <= capacity - Len(content) /\ room <= Len(vs) - h
  <2>1. capacity - Len(content) \in Nat /\ Len(rest) \in Nat
    BY <1>4, <1>7
  <2> QED BY <2>1, <1>7, LeastParts
<1> HIDE DEF room
<1>9. room > 0 => putters = <<>>
  BY <1>4, <1>8 DEF Balanced, Settled
<1>10. h + room <= Len(vs) /\ Len(content) + room <= capacity
  BY <1>4, <1>5, <1>8
<1>11. From(rest, room + 1) = From(vs, (h + room) + 1)
  BY <1>5, <1>8, <1>10, FromFrom DEF rest
<1>12. Stored(vs).loop = Settle(s) /\ Has(s, content \o SubSeq(From(vs, h + 1), 1, room), From(takers, h + 1), putters, Gifts(takers, vs, h))
  BY <1>1, <1>2, <1>3 DEF rest
<1>13. h \in Nat /\ room \in Nat
  BY <1>5, <1>8
<1> USE <1>13
<1> WITNESS h \in Nat, room \in Nat
<1> QED BY <1>1, <1>5, <1>6, <1>9, <1>10, <1>11, <1>12

\* The first effect of an offer delivers, and passes on a beginning of its values.
LEMMA StoredDelivers ==
  ASSUME TypeOK, Balanced, NEW vs \in Seq(Value), Hand(Stored(vs).loop, deferred, <<>>)
  PROVE  /\ StoreTyped /\ Delivers(takers, putters, deferred) /\ Settled(content', takers', putters')
         /\ \E j \in Nat : /\ j <= Len(vs) /\ Stored(vs).left = From(vs, j + 1)
                           /\ Flow((content \o Values(putters)) \o SubSeq(vs, 1, j))
<1>1. PICK h \in Nat, room \in Nat :
           /\ h <= Len(takers) /\ h + room <= Len(vs)
           /\ Len(content) + room <= capacity
           /\ h > 0 => content = <<>> /\ putters = <<>>
           /\ room > 0 => putters = <<>>
           /\ Stored(vs).left = From(vs, (h + room) + 1)
           /\ \E s : /\ Stored(vs).loop = Settle(s)
                     /\ Has(s, content \o SubSeq(From(vs, h + 1), 1, room), From(takers, h + 1), putters, Gifts(takers, vs, h))
  BY StoredParts, Zenon
<1> DEFINE b == SubSeq(From(vs, h + 1), 1, room)  cc == content \o b  tt == From(takers, h + 1)  gg == Gifts(takers, vs, h)
<1>2. PICK s : Stored(vs).loop = Settle(s) /\ Has(s, cc, tt, putters, gg)
  BY <1>1
<1>3. /\ capacity \in Nat \ {0} /\ content \in Seq(Value) /\ takers \in Seq(Fiber) /\ putters \in Seq(Putter)
      /\ deferred \in [Fiber -> Outcome] /\ item \in [Fiber -> Value] /\ got \in Seq(Value)
  BY Made
<1>4. Len(vs) \in Nat /\ h <= Len(vs) /\ room <= Len(vs) - h
  BY <1>1
<1>5. From(vs, h + 1) \in Seq(Value) /\ Len(From(vs, h + 1)) = Len(vs) - h
  BY <1>4, FromParts
<1>6. b \in Seq(Value) /\ Len(b) = room
  <2> DEFINE w == From(vs, h + 1)
  <2>1. w \in Seq(Value) /\ Len(w) = Len(vs) - h
    BY <1>5
  <2> HIDE DEF w
  <2>2. room <= Len(w) /\ Len(w) \in Nat
    BY <2>1, <1>4
  <2>3. SubSeq(w, 1, room) \in Seq(Value)
    BY <2>1, <2>2, SubSeqParts
  <2>4. Len(SubSeq(w, 1, room)) = room
    BY <2>1, <2>2
  <2> QED BY <2>3, <2>4 DEF w
<1> HIDE DEF b
<1>7. cc \in Seq(Value) /\ Len(cc) <= capacity
  <2>1. cc \in Seq(Value)
    BY <1>3, <1>6, ConcatParts
  <2>2. Len(cc) = Len(content) + Len(b)
    BY <1>3, <1>6, ConcatParts
  <2> QED BY <2>1, <2>2, <1>6, <1>1
<1>8. tt \in Seq(Fiber)
  BY <1>1, <1>3, FromParts
<1>9. gg \in Seq(Gift) /\ Len(gg) = h
  BY <1>1, <1>3, <1>4, GiftsParts
<1>10. ToFirst(gg, takers)
  <2>1. \A i \in 1..h : gg[i].to = takers[i]
    BY <1>1, <1>3, <1>4, GiftsParts
  <2> QED BY <2>1, <1>9 DEF ToFirst
<1>11. Hand(Settle(s), deferred, <<>>)
  BY <1>2
<1>12. putters # <<>> => strategy = "backPressure"
  BY DEF Balanced, Settled
<1> HIDE DEF cc, gg
<1>13. StoreTyped /\ Delivers(takers, putters, deferred) /\ Settled(content', takers', putters')
  BY <1>1, <1>2, <1>3, <1>7, <1>8, <1>9, <1>10, <1>11, <1>12, EmptySeqs, Delivered
<1>14. Flow((<<>> \o GiftValues(gg)) \o (cc \o Values(putters)))
  BY <1>2, <1>3, <1>7, <1>8, <1>9, <1>11, EmptySeqs, Flows
<1>15. GiftValues(gg) = SubSeq(vs, 1, h)
  <2>1. GiftValues(<<>> \o gg) = GiftValues(<<>>) \o SubSeq(vs, 1, h)
    <3>1. <<>> \in Seq(Gift) /\ takers \in Seq(Fiber) /\ h <= Len(takers) /\ h <= Len(vs)
      BY <1>1, <1>3, <1>4, EmptySeqs
    <3>2. GiftValues(<<>> \o Gifts(takers, vs, h)) = GiftValues(<<>>) \o SubSeq(vs, 1, h)
      BY <3>1, GiftsValues
    <3> QED BY <3>2 DEF gg
  <2>2. <<>> \o gg = gg
    BY <1>9, EmptyConcat
  <2>3. SubSeq(vs, 1, h) \in Seq(Value)
    <3> HIDE DEF Value
    <3> QED BY <1>4
  <2>4. <<>> \o SubSeq(vs, 1, h) = SubSeq(vs, 1, h)
    BY <2>3, EmptyConcat
  <2> QED BY <2>1, <2>2, <2>4, EmptySeqs
<1> DEFINE a == SubSeq(vs, 1, h)  j == h + room  x == SubSeq(vs, 1, j)  vp == Values(putters)
<1>16. a \in Seq(Value) /\ x \in Seq(Value)
  <2> HIDE DEF Value
  <2> QED BY <1>4
<1>17. a \o b = x
  BY <1>1, SubSeqs DEF b
<1>18. h = 0 => a = <<>>
  OBVIOUS
<1>19. room = 0 => b = <<>>
  BY <1>6
<1>20. putters = <<>> => vp = <<>>
  BY DEF Values
<1>21. vp \in Seq(Value)
  BY <1>3, ValuesParts
<1> HIDE DEF a, x, vp
<1>22. (<<>> \o a) \o (cc \o vp) = (content \o vp) \o x
  <2>1. <<>> \o a = a
    BY <1>16, EmptyConcat
  <2>2. CASE h = 0
    <3>1. a = <<>> /\ x = b
      BY <2>2, <1>18, <1>17, <1>6, EmptyConcat
    <3>2. cc \o vp \in Seq(Value)
      BY <1>7, <1>21, ConcatParts
    <3>3. a \o (cc \o vp) = cc \o vp
      BY <3>1, <3>2, EmptyConcat
    <3>4. CASE room = 0
      <4>1. cc = content
        BY <3>4, <1>19, <1>3, EmptyConcat DEF cc
      <4>2. content \o vp \in Seq(Value)
        BY <1>3, <1>21, ConcatParts
      <4>3. (content \o vp) \o b = content \o vp
        BY <3>4, <1>19, <4>2, EmptyConcat
      <4> QED BY <2>1, <3>1, <3>3, <4>1, <4>3
    <3>5. CASE room > 0
      <4>1. vp = <<>>
        BY <3>5, <1>1, <1>20
      <4>2. cc \o vp = cc /\ content \o vp = content
        BY <4>1, <1>3, <1>7, EmptyConcat
      <4> QED BY <2>1, <3>1, <3>3, <4>2 DEF cc
    <3> QED BY <3>4, <3>5, SMTT(30)
  <2>3. CASE h > 0
    <3>1. content = <<>> /\ vp = <<>>
      BY <2>3, <1>1, <1>20
    <3>2. cc = b /\ cc \o vp = b
      BY <3>1, <1>6, EmptyConcat DEF cc
    <3>3. (content \o vp) \o x = x
      BY <3>1, <1>16, EmptyConcat
    <3> QED BY <2>1, <3>2, <3>3, <1>17
  <2> QED BY <2>2, <2>3, SMTT(30)
<1>23. Flow((content \o Values(putters)) \o SubSeq(vs, 1, j))
  BY <1>14, <1>15, <1>22 DEF a, x, vp
<1>24. j \in Nat /\ j <= Len(vs) /\ Stored(vs).left = From(vs, j + 1)
  BY <1>1
<1> QED BY <1>13, <1>23, <1>24

\* The loops, run from a state in which nothing was handed out yet, deliver.
LEMMA PlainDelivers ==
  ASSUME NEW c \in Seq(Value), NEW t \in Seq(Fiber), NEW p \in Seq(Putter),
         capacity \in Nat \ {0}, Len(c) <= capacity, p # <<>> => strategy = "backPressure",
         NEW d \in [Fiber -> Outcome], NEW out \in Seq(Value), Hand(Settle(Loop(c, t, p)), d, out),
         item \in [Fiber -> Value], got \in Seq(Value)
  PROVE  /\ StoreTyped /\ Delivers(t, p, d) /\ Settled(content', takers', putters')
         /\ Flow(out \o (c \o Values(p)))
<1> DEFINE s == Loop(c, t, p)
<1>1. Has(s, c, t, p, <<>>)
  BY DEF Has, Loop
<1>2. Hand(Settle(s), d, out)
  OBVIOUS
<1> HIDE DEF s
<1>3. t = From(t, 0 + 1) /\ 0 <= Len(t)
  <2>1. 0 + 1 = 1
    OBVIOUS
  <2>2. SubSeq(t, 1, Len(t)) = t /\ 0 <= Len(t)
    OBVIOUS
  <2> QED BY <2>1, <2>2 DEF From
<1>4. StoreTyped /\ Delivers(t, p, d) /\ Settled(content', takers', putters')
  BY <1>1, <1>2, <1>3, EmptySeqs, Delivered
<1>5. Flow((out \o GiftValues(<<>>)) \o (c \o Values(p)))
  BY <1>1, <1>2, EmptySeqs, Flows
<1>6. out \o <<>> = out
  BY EmptyConcat
<1> QED BY <1>4, <1>5, <1>6, EmptySeqs

\* An operation that hands out what is there, and what it does not disturb.
Done(t, p, d) == StoreTyped /\ Delivers(t, p, d) /\ Settled(content', takers', putters')

\* The putters of a surplus, by their elements.
LEMMA PutterSeqParts ==
  ASSUME NEW vs \in Seq(Value)
  PROVE  /\ AsPutters(vs) \in Seq(Putter) /\ Len(AsPutters(vs)) = Len(vs)
         /\ \A i \in 1..Len(vs) : AsPutters(vs)[i].value = vs[i] /\ (AsPutters(vs)[i].last <=> i = Len(vs))
<1>1. DOMAIN vs = 1..Len(vs) /\ \A i \in 1..Len(vs) : vs[i] \in Value
  OBVIOUS
<1>2. \A v \in Value, b \in BOOLEAN : [value |-> v, last |-> b] \in Putter
  <2> HIDE DEF Value
  <2> QED BY DEF Putter
<1>3. \A i \in 1..Len(vs) : [value |-> vs[i], last |-> i = Len(vs)] \in Putter
  BY <1>1, <1>2
<1>4. AsPutters(vs) = [i \in 1..Len(vs) |-> [value |-> vs[i], last |-> i = Len(vs)]]
  BY <1>1 DEF AsPutters
<1>5. AsPutters(vs) \in Seq(Putter) /\ Len(AsPutters(vs)) = Len(vs)
  BY <1>3, <1>4
<1>6. \A i \in 1..Len(vs) : AsPutters(vs)[i].value = vs[i] /\ (AsPutters(vs)[i].last <=> i = Len(vs))
  <2> TAKE i \in 1..Len(vs)
  <2>1. AsPutters(vs)[i] = [value |-> vs[i], last |-> i = Len(vs)]
    BY <1>4
  <2>2. AsPutters(vs)[i].value = vs[i]
    BY <2>1
  <2>3. AsPutters(vs)[i].last <=> i = Len(vs)
    <3>1. \A v, b : [value |-> v, last |-> b].last = b
      OBVIOUS
    <3>2. [value |-> vs[i], last |-> i = Len(vs)].last = (i = Len(vs))
      BY <3>1, Zenon
    <3>3. AsPutters(vs)[i].last = (i = Len(vs))
      BY <2>1, <3>2
    <3> QED BY <3>3, Zenon
  <2> QED BY <2>2, <2>3
<1> QED BY <1>5, <1>6

\* The values of a surplus come after those of the putters before it.
LEMMA ValuesConcat ==
  ASSUME NEW p \in Seq(Putter), NEW vs \in Seq(Value)
  PROVE  Values(p \o AsPutters(vs)) = Values(p) \o vs
<1> DEFINE a == AsPutters(vs)  w == p \o a  u == Values(w)  b == Values(p)  v == b \o vs
<1>1. a \in Seq(Putter) /\ Len(a) = Len(vs)
  BY PutterSeqParts
<1>2. \A i \in 1..Len(vs) : a[i].value = vs[i]
  BY PutterSeqParts
<1> HIDE DEF a
<1>3. w \in Seq(Putter)
  BY <1>1, ConcatParts
<1>4. Len(w) = Len(p) + Len(a)
  BY <1>1, ConcatParts
<1>5. \A i \in 1..Len(p) : w[i] = p[i]
  BY <1>1, ConcatParts
<1>6. \A i \in 1..Len(a) : w[Len(p) + i] = a[i]
  BY <1>1, ConcatParts
<1> HIDE DEF w
<1>7. u \in Seq(Value) /\ Len(u) = Len(w) /\ \A i \in 1..Len(w) : u[i] = w[i].value
  BY <1>3, ValuesParts
<1>8. b \in Seq(Value) /\ Len(b) = Len(p) /\ \A i \in 1..Len(p) : b[i] = p[i].value
  BY ValuesParts
<1> HIDE DEF u, b
<1>9. v \in Seq(Value)
  BY <1>8, ConcatParts
<1>10. Len(v) = Len(b) + Len(vs)
  BY <1>8, ConcatParts
<1>11. \A i \in 1..Len(b) : v[i] = b[i]
  BY <1>8, ConcatParts
<1>12. \A i \in 1..Len(vs) : v[Len(b) + i] = vs[i]
  BY <1>8, ConcatParts
<1> HIDE DEF v
<1>13. Len(p) \in Nat /\ Len(vs) \in Nat /\ Len(u) = Len(p) + Len(vs) /\ Len(v) = Len(u)
  BY <1>1, <1>4, <1>7, <1>8, <1>10
<1>14. \A i \in 1..Len(u) : u[i] = v[i]
  <2> TAKE i \in 1..Len(u)
  <2>1. CASE i <= Len(p)
    <3>1. i \in 1..Len(p) /\ i \in 1..Len(w) /\ i \in 1..Len(b)
      BY <2>1, <1>7, <1>8, <1>13
    <3>2. u[i] = w[i].value /\ w[i] = p[i] /\ v[i] = b[i] /\ b[i] = p[i].value
      BY <3>1, <1>5, <1>7, <1>8, <1>11
    <3> QED BY <3>2
  <2>2. CASE i > Len(p)
    <3> DEFINE j == i - Len(p)
    <3>1. j \in 1..Len(vs) /\ i = Len(p) + j /\ i \in 1..Len(w) /\ j \in 1..Len(a)
      BY <2>2, <1>1, <1>7, <1>13
    <3> HIDE DEF j
    <3>2. u[i] = w[i].value
      BY <3>1, <1>7
    <3>3. w[Len(p) + j] = a[j] /\ a[j].value = vs[j] /\ v[Len(b) + j] = vs[j]
      BY <3>1, <1>6, <1>2, <1>12
    <3> QED BY <3>1, <3>2, <3>3, <1>8
  <2> QED BY <2>1, <2>2, <1>13
<1>15. u = v
  BY <1>7, <1>9, <1>13, <1>14, SameSeq
<1> QED BY <1>15 DEF u, v, w, a, b

\* The values of an offer, by their elements.
LEMMA FreshParts ==
  ASSUME TypeOK, NEW f \in Fiber, NEW n \in Nat
  PROVE  /\ Fresh(f, n) \in Seq(Value) /\ Len(Fresh(f, n)) = n
         /\ \A i \in 1..n : Fresh(f, n)[i] = [by |-> f, n |-> sent[f] + i]
<1>1. sent[f] \in Nat
  BY DEF TypeOK
<1>2. \A i \in 1..n : [by |-> f, n |-> sent[f] + i] \in Value
  BY <1>1 DEF Value
<1> QED BY <1>2 DEF Fresh

\* handleSurplus of BackPressureStrategy delivers, to the new putters as well.
LEMMA TypePutSurplus ==
  ASSUME TypeOK, Balanced, NEW f \in Fiber, PutSurplus(f)
  PROVE  /\ Done(takers, putters \o AsPutters(surplus[f]), Pending(f))
         /\ Flow((content \o Values(putters)) \o surplus[f])
<1> DEFINE vs == surplus[f]  p == putters \o AsPutters(vs)
<1>1. vs \in Seq(Value)
  BY DEF TypeOK
<1> HIDE DEF vs
<1>2. p \in Seq(Putter)
  <2>1. AsPutters(vs) \in Seq(Putter) /\ putters \in Seq(Putter)
    BY <1>1, PutterSeqParts, Made
  <2> QED BY <2>1, ConcatParts
<1> HIDE DEF p
<1>3. Pending(f) \in [Fiber -> Outcome]
  BY Made DEF Pending, Outcome
<1>4. Hand(Settle(Loop(content, takers, p)), Pending(f), <<>>) /\ strategy = "backPressure"
  BY DEF PutSurplus, p, vs
<1>5. Len(content) <= capacity
  BY DEF Balanced, Settled
<1>6. /\ StoreTyped /\ Delivers(takers, p, Pending(f)) /\ Settled(content', takers', putters')
      /\ Flow(<<>> \o (content \o Values(p)))
  BY <1>2, <1>3, <1>4, <1>5, Made, EmptySeqs, PlainDelivers
<1>7. <<>> \o (content \o Values(p)) = (content \o Values(putters)) \o vs
  <2>1. content \in Seq(Value) /\ putters \in Seq(Putter)
    BY Made
  <2>2. Values(p) = Values(putters) \o vs
    BY <1>1, <2>1, ValuesConcat DEF p
  <2> DEFINE b == Values(putters)
  <2>3. b \in Seq(Value)
    BY <2>1, ValuesParts
  <2> HIDE DEF b
  <2>4. (content \o b) \o vs = content \o (b \o vs)
    BY <1>1, <2>1, <2>3, ConcatAssoc
  <2>5. b \o vs \in Seq(Value)
    BY <1>1, <2>3, ConcatParts
  <2>6. content \o (b \o vs) \in Seq(Value)
    BY <2>1, <2>5, ConcatParts
  <2> QED BY <2>2, <2>4, <2>6, EmptyConcat DEF b
<1> QED BY <1>6, <1>7 DEF Done, p, vs

\* A take that registers delivers, to the new taker as well.
LEMMA TypeRegister ==
  ASSUME TypeOK, Balanced, NEW f \in Fiber, Register(f)
  PROVE  /\ Done(Append(takers, f), putters, Pending(f))
         /\ Flow(content \o Values(putters))
<1> DEFINE t == Append(takers, f)
<1>1. content \in Seq(Value) /\ putters \in Seq(Putter) /\ takers \in Seq(Fiber)
  BY Made
<1>2. t \in Seq(Fiber)
  BY <1>1
<1> HIDE DEF t
<1>3. Pending(f) \in [Fiber -> Outcome]
  BY Made DEF Pending, Outcome
<1>4. Hand(Settle(Loop(content, t, putters)), Pending(f), <<>>)
  BY DEF Register, t
<1>5. Len(content) <= capacity /\ (putters # <<>> => strategy = "backPressure")
  BY DEF Balanced, Settled
<1>6. /\ StoreTyped /\ Delivers(t, putters, Pending(f)) /\ Settled(content', takers', putters')
      /\ Flow(<<>> \o (content \o Values(putters)))
  BY <1>1, <1>2, <1>3, <1>4, <1>5, Made, EmptySeqs, PlainDelivers
<1>7. content \o Values(putters) \in Seq(Value)
  BY <1>1, AllParts
<1> QED BY <1>6, <1>7, EmptyConcat DEF Done, t

\* The first n values of the queue come out.
LEMMA TypePolled ==
  ASSUME TypeOK, Balanced, NEW n \in Nat, n <= Len(content),
         Hand(Settle(Loop(From(content, n + 1), takers, putters)), deferred, SubSeq(content, 1, n))
  PROVE  Done(takers, putters, deferred) /\ Flow(content \o Values(putters))
<1>1. content \in Seq(Value) /\ putters \in Seq(Putter) /\ takers \in Seq(Fiber)
  BY Made
<1> DEFINE c == From(content, n + 1)  out == SubSeq(content, 1, n)  b == Values(putters)
<1>2. c \in Seq(Value) /\ Len(c) = Len(content) - n
  BY <1>1, FromParts
<1>3. out \in Seq(Value) /\ Len(out) = n
  <2> HIDE DEF Value
  <2> QED BY <1>1
<1>4. Len(c) <= capacity /\ (putters # <<>> => strategy = "backPressure")
  BY <1>1, <1>2, Made DEF Balanced, Settled
<1>5. Hand(Settle(Loop(c, takers, putters)), deferred, out)
  OBVIOUS
<1>6. out \o c = content
  <2>1. SubSeq(content, 1, n) \o SubSeq(From(content, n + 1), 1, Len(content) - n) = SubSeq(content, 1, n + (Len(content) - n))
    <3>1. Len(content) - n \in Nat /\ n + (Len(content) - n) <= Len(content)
      BY <1>1
    <3> QED BY <1>1, <3>1, SubSeqs
  <2>2. SubSeq(c, 1, Len(content) - n) = c
    <3> HIDE DEF c
    <3>1. SubSeq(c, 1, Len(c)) = c
      BY <1>2
    <3> QED BY <3>1, <1>2
  <2>3. SubSeq(content, 1, n + (Len(content) - n)) = content
    <3>1. n + (Len(content) - n) = Len(content)
      BY <1>1
    <3>2. SubSeq(content, 1, Len(content)) = content
      BY <1>1
    <3> QED BY <3>1, <3>2
  <2> QED BY <2>1, <2>2, <2>3
<1> HIDE DEF c, out
<1>7. /\ StoreTyped /\ Delivers(takers, putters, deferred) /\ Settled(content', takers', putters')
      /\ Flow(out \o (c \o Values(putters)))
  BY <1>1, <1>2, <1>3, <1>4, <1>5, Made, PlainDelivers
<1>8. out \o (c \o b) = content \o b
  <2>1. b \in Seq(Value)
    BY <1>1, ValuesParts
  <2> HIDE DEF b
  <2>2. (out \o c) \o b = out \o (c \o b)
    BY <1>2, <1>3, <2>1, ConcatAssoc, SMTT(30)
  <2> QED BY <2>2, <1>6
<1> QED BY <1>7, <1>8 DEF Done

\* A take that polls the queue delivers.
LEMMA TypeTake ==
  ASSUME TypeOK, Balanced, NEW f \in Fiber, Take(f), ~flag, content # <<>>
  PROVE  Done(takers, putters, deferred) /\ Flow(content \o Values(putters))
<1>1. content \in Seq(Value)
  BY Made
<1>2. Hand(Settle(Loop(Tail(content), takers, putters)), deferred, <<Head(content)>>)
  BY DEF Take
<1>3. Len(content) \in Nat /\ 1 <= Len(content)
  BY <1>1
<1>4. Tail(content) = From(content, 1 + 1)
  <2>1. 1 + 1 = 2
    OBVIOUS
  <2>2. Tail(content) = SubSeq(content, 2, Len(content))
    BY <1>1, <1>3
  <2> QED BY <2>1, <2>2 DEF From
<1>5. <<Head(content)>> = SubSeq(content, 1, 1)
  <2>1. Head(content) = content[1]
    BY <1>1, <1>3
  <2>2. Len(SubSeq(content, 1, 1)) = 1 /\ SubSeq(content, 1, 1)[1] = content[1] /\ SubSeq(content, 1, 1) \in Seq(Value)
    <3> HIDE DEF Value
    <3> QED BY <1>1, <1>3
  <2> DEFINE x == SubSeq(content, 1, 1)
  <2> HIDE DEF x
  <2>3. x \in Seq(Value) /\ Len(x) = 1 => x = <<x[1]>>
    OBVIOUS
  <2> QED BY <2>1, <2>2, <2>3 DEF x
<1> QED BY <1>2, <1>3, <1>4, <1>5, TypePolled

\* takeUpTo delivers.
LEMMA TypePoll ==
  ASSUME TypeOK, Balanced, NEW f \in Fiber, Poll(f)
  PROVE  /\ Done(takers, putters, deferred) /\ Flow(content \o Values(putters))
         /\ Least(limit[f], Len(content)) \in Nat /\ Least(limit[f], Len(content)) <= Len(content)
         /\ Least(limit[f], Len(content)) <= limit[f]
<1>1. content \in Seq(Value) /\ limit[f] \in Nat /\ Len(content) \in Nat
  BY Made DEF TypeOK
<1> DEFINE n == Least(limit[f], Len(content))
<1>2. n \in Nat /\ n <= Len(content) /\ n <= limit[f]
  BY <1>1, LeastParts
<1>3. Hand(Settle(Loop(From(content, n + 1), takers, putters)), deferred, SubSeq(content, 1, n))
  BY DEF Poll
<1> HIDE DEF n
<1>4. Done(takers, putters, deferred) /\ Flow(content \o Values(putters))
  BY <1>2, <1>3, TypePolled
<1> QED BY <1>2, <1>4 DEF n

\* handleSurplus of SlidingStrategy delivers, and drops values from the front only.
LEMMA TypeSlide ==
  ASSUME TypeOK, Balanced, SurplusInv, NEW f \in Fiber, SlideSurplus(f)
  PROVE  /\ Done(takers, putters, deferred) /\ putters = <<>>
         /\ \E x \in Nat :
              /\ x <= Len(content \o surplus[f]) /\ Len(content \o surplus[f]) - x <= capacity
              /\ Flow(From(content \o surplus[f], x + 1))
              /\ content = <<>> => x = Len(surplus[f]) - 1
              /\ Hand(Settle(Loop(From(content \o surplus[f], x + 1), takers, putters)), deferred, <<>>)
<1> DEFINE vs == surplus[f]  all == content \o vs  keep == IF content = <<>> THEN 1 ELSE Len(content)
           x == Len(all) - keep
<1>1. /\ content \in Seq(Value) /\ putters \in Seq(Putter) /\ takers \in Seq(Fiber)
      /\ vs \in Seq(Value) /\ vs # <<>> /\ Len(content) \in Nat /\ Len(content) <= capacity
      /\ Len(vs) \in Nat /\ Len(vs) >= 1 /\ capacity \in Nat \ {0}
  <2>1. vs \in Seq(Value) /\ vs # <<>>
    BY DEF TypeOK, SurplusInv, SlideSurplus
  <2>2. content \in Seq(Value) /\ putters \in Seq(Putter) /\ takers \in Seq(Fiber) /\ capacity \in Nat \ {0} /\ Len(content) <= capacity
    BY Made DEF Balanced, Settled
  <2> HIDE DEF vs
  <2>3. Len(vs) \in Nat /\ Len(vs) # 0
    BY <2>1
  <2> QED BY <2>1, <2>2, <2>3
<1>2. putters = <<>>
  BY DEF SlideSurplus, Balanced, Settled
<1>3. Hand(Settle(Loop(From(all, x + 1), takers, putters)), deferred, <<>>)
  BY DEF SlideSurplus
<1> HIDE DEF vs
<1>4. all \in Seq(Value)
  BY <1>1, ConcatParts
<1>5. Len(all) = Len(content) + Len(vs)
  BY <1>1, ConcatParts
<1>6. keep \in Nat /\ 1 <= keep /\ keep <= Len(all) /\ keep <= capacity /\ (content = <<>> => keep = 1)
  <2>1. content # <<>> => 1 <= Len(content)
    BY <1>1
  <2> QED BY <1>1, <1>5, <2>1
<1>7. x \in Nat /\ x <= Len(all) /\ Len(all) - x = keep /\ (content = <<>> => x = Len(vs) - 1)
  <2>1. content = <<>> => Len(content) = 0
    OBVIOUS
  <2> HIDE DEF keep
  <2> QED BY <1>1, <1>5, <1>6, <2>1
<1> HIDE DEF all, x
<1> DEFINE c == From(all, x + 1)
<1>8. c \in Seq(Value) /\ Len(c) = keep
  <2>1. c \in Seq(Value)
    BY <1>4, <1>7, FromParts
  <2>2. Len(c) = Len(all) - x
    BY <1>4, <1>7, FromParts
  <2> QED BY <2>1, <2>2, <1>7
<1> HIDE DEF c, keep
<1>9. /\ StoreTyped /\ Delivers(takers, putters, deferred) /\ Settled(content', takers', putters')
      /\ Flow(<<>> \o (c \o Values(putters)))
  <2>1. Hand(Settle(Loop(c, takers, putters)), deferred, <<>>)
    BY <1>3 DEF c
  <2>2. deferred \in [Fiber -> Outcome] /\ item \in [Fiber -> Value] /\ got \in Seq(Value)
    BY Made
  <2> QED BY <1>1, <1>2, <1>6, <1>8, <2>1, <2>2, EmptySeqs, PlainDelivers
<1>10. <<>> \o (c \o Values(putters)) = c
  <2>1. Values(putters) = <<>>
    BY <1>2 DEF Values
  <2>2. c \o <<>> = c
    BY <1>8, EmptyConcat
  <2>3. <<>> \o c = c
    BY <1>8, EmptyConcat
  <2> QED BY <2>1, <2>2, <2>3
<1>11. Flow(From(all, x + 1))
  BY <1>9, <1>10 DEF c
<1>12. Len(all) - x <= capacity
  BY <1>6, <1>7
<1> QED BY <1>2, <1>3, <1>7, <1>9, <1>11, <1>12 DEF Done, vs, all

\* What an offer stores, and what it has left.
LEMMA TypeOffer ==
  ASSUME TypeOK, Balanced, NEW f \in Fiber, NEW n \in Nat, Hand(Stored(Fresh(f, n)).loop, deferred, <<>>)
  PROVE  /\ Done(takers, putters, deferred)
         /\ \E j \in Nat : /\ j <= n
                           /\ Flow((content \o Values(putters)) \o SubSeq(Fresh(f, n), 1, j))
                           /\ Stored(Fresh(f, n)).left \in Seq(Value)
                           /\ Len(Stored(Fresh(f, n)).left) = n - j
                           /\ \A i \in 1..(n - j) : Stored(Fresh(f, n)).left[i] = [by |-> f, n |-> (sent[f] + j) + i]
<1> DEFINE vs == Fresh(f, n)  left == Stored(vs).left
<1>1. vs \in Seq(Value) /\ Len(vs) = n /\ \A i \in 1..n : vs[i] = [by |-> f, n |-> sent[f] + i]
  BY FreshParts
<1>2. Hand(Stored(vs).loop, deferred, <<>>)
  OBVIOUS
<1>3. sent[f] \in Nat
  BY DEF TypeOK
<1> HIDE DEF vs
<1>4. /\ StoreTyped /\ Delivers(takers, putters, deferred) /\ Settled(content', takers', putters')
      /\ \E j \in Nat : /\ j <= Len(vs) /\ Stored(vs).left = From(vs, j + 1)
                        /\ Flow((content \o Values(putters)) \o SubSeq(vs, 1, j))
  BY <1>1, <1>2, StoredDelivers
<1>5. PICK j \in Nat : /\ j <= n /\ left = From(vs, j + 1)
                       /\ Flow((content \o Values(putters)) \o SubSeq(vs, 1, j))
  BY <1>1, <1>4
<1>6. left \in Seq(Value)
  BY <1>1, <1>5, FromParts
<1>7. Len(left) = n - j
  BY <1>1, <1>5, FromParts
<1>8. \A i \in 1..(n - j) : left[i] = vs[j + i]
  <2>1. vs \in Seq(Value) /\ j <= Len(vs) /\ Len(vs) = n
    BY <1>1, <1>5
  <2>2. \A i \in 1..(Len(vs) - j) : From(vs, j + 1)[i] = vs[j + i]
    BY <2>1, FromParts
  <2> QED BY <2>1, <2>2, <1>5
<1>9. \A i \in 1..(n - j) : left[i] = [by |-> f, n |-> (sent[f] + j) + i]
  <2> TAKE i \in 1..(n - j)
  <2>1. j + i \in 1..n /\ sent[f] + (j + i) = (sent[f] + j) + i
    BY <1>3
  <2> DEFINE k == j + i
  <2>2. vs[k] = [by |-> f, n |-> sent[f] + k]
    <3>1. k \in 1..n
      BY <2>1
    <3> HIDE DEF k
    <3> QED BY <3>1, <1>1
  <2> QED BY <2>1, <2>2, <1>8
<1>10. Done(takers, putters, deferred)
  BY <1>4 DEF Done
<1> HIDE DEF left
<1>11. \E i \in Nat : /\ i <= n /\ Flow((content \o Values(putters)) \o SubSeq(vs, 1, i)) /\ left \in Seq(Value)
                      /\ Len(left) = n - i /\ \A k \in 1..(n - i) : left[k] = [by |-> f, n |-> (sent[f] + i) + k]
  BY <1>5, <1>6, <1>7, <1>9
<1> QED BY <1>10, <1>11 DEF vs, left

----------------------------------------------------------------------------
(* Types.                                                                  *)

\* Where a fiber may be, and the types by who changes what.
Place == {"idle", "surplus", "awaitRoom", "take", "register", "awaitItem", "upTo",
          "polling", "cleanup", "hook", "takers", "putters", "waiters"}
StoreOK == /\ content \in Seq(Value) /\ takers \in Seq(Fiber) /\ putters \in Seq(Putter)
           /\ deferred \in [Fiber -> Outcome] /\ item \in [Fiber -> Value] /\ got \in Seq(Value)
ModeOK  == /\ <<capacity, strategy>> \in Queues /\ flag \in BOOLEAN /\ hook \in BOOLEAN
           /\ pc \in [Fiber -> Place] /\ waiters \in [Fiber -> SUBSET Fiber]
           /\ signals \in Nat
TakeOK  == /\ remaining \in [Fiber -> Nat] /\ limit \in [Fiber -> Nat]
           /\ acc \in [Fiber -> Seq(Value)] /\ asked \in [Fiber -> Nat \X Nat]
OfferOK == /\ surplus \in [Fiber -> Seq(Value)]
           /\ sent \in [Fiber -> Nat] /\ fuel \in [Fiber -> Nat]

\* TypeOK, by who changes what.
LEMMA Groups == TypeOK <=> StoreOK /\ ModeOK /\ TakeOK /\ OfferOK
BY DEF TypeOK, StoreOK, ModeOK, TakeOK, OfferOK, Place, Outcome

\* The same of the next state, in which Hand changed the store.
LEMMA GroupsNext == StoreTyped /\ ModeOK' /\ TakeOK' /\ OfferOK' => TypeOK'
BY DEF TypeOK, StoreTyped, ModeOK, TakeOK, OfferOK, Place, Outcome

\* A step that leaves the store alone keeps its types.
LEMMA StoreStill == StoreOK /\ UNCHANGED <<store, waiting, got>> => StoreTyped
BY DEF StoreOK, StoreTyped, store, waiting

\* The types, and what the types alone do not give.
TypeInv == TypeOK /\ Balanced /\ SurplusInv /\ LoopInv

\* Every step keeps the types of where the fibers are and of what a shutdown does.
LEMMA TypeMode ==
  ASSUME TypeOK, NEW f \in Fiber, Begin(f) \/ Step(f) \/ StopsWaiting(f) \/ StopsBetween(f)
  PROVE  ModeOK'
<1> USE DEF ModeOK, GoTo, Place, config, closing
<1>0. ModeOK /\ takers \in Seq(Fiber) /\ putters \in Seq(Putter)
  BY Groups, Made
<1>1. CASE Begin(f)
  <2>2. CASE UnsafeOffer(f)
    BY <2>2, <1>0 DEF UnsafeOffer
  <2>3. CASE TakeOne(f)
    BY <2>3, <1>0 DEF TakeOne, Wants
  <2>4. CASE TakeBetween(f)
    <3>1. pc' \in [Fiber -> Place] /\ UNCHANGED <<config, closing, signals>>
      BY <2>4, <1>0 DEF TakeBetween, Wants
    <3> QED BY <3>1, <1>0
  <2>5. CASE Shutdown(f)
    <3>1. \A i \in DOMAIN takers : takers[i] \in Fiber
      BY <1>0
    <3>2. {takers[i] : i \in DOMAIN takers} \in SUBSET Fiber
      BY <3>1
    <3>3. waiters' \in [Fiber -> SUBSET Fiber]
      BY <2>5, <3>2, <1>0 DEF Shutdown
    <3>4. pc' \in [Fiber -> Place] /\ flag' = TRUE /\ hook' = hook /\ signals' = signals /\ UNCHANGED config
      BY <2>5, <1>0 DEF Shutdown
    <3> QED BY <3>3, <3>4, <1>0
  <2>6. CASE Refused(f)
    BY <2>6, <1>0 DEF Refused
  <2>7. CASE Offer(f)
    <3>1. pc' \in [Fiber -> Place] /\ UNCHANGED <<config, closing, signals>>
      BY <2>7, <1>0 DEF Offer
    <3> QED BY <3>1, <1>0
  <2> QED BY <1>1, <2>2, <2>3, <2>4, <2>5, <2>6, <2>7 DEF Begin
<1>2. CASE Step(f)
  <2>1. CASE PutSurplus(f)
    BY <2>1, <1>0 DEF PutSurplus
  <2>2. CASE SlideSurplus(f)
    BY <2>2, <1>0 DEF SlideSurplus
  <2>3. CASE Admitted(f)
    BY <2>3, <1>0 DEF Admitted
  <2>4. CASE Take(f)
    BY <2>4, <1>0 DEF Take, Takes, Stops
  <2>5. CASE Register(f)
    BY <2>5, <1>0 DEF Register
  <2>6. CASE Served(f)
    BY <2>6, <1>0 DEF Served, Takes
  <2>7. CASE TakeUpTo(f)
    BY <2>7, <1>0 DEF TakeUpTo, Stops
  <2>8. CASE Poll(f)
    BY <2>8, <1>0 DEF Poll
  <2>9. CASE Aborted(f)
    BY <2>9, <1>0 DEF Aborted, Leaves
  <2>10. CASE Cleanup(f)
    BY <2>10, <1>0 DEF Cleanup, Stops
  <2>11. CASE ShutdownHook(f)
    BY <2>11, <1>0 DEF ShutdownHook
  <2>12. CASE InterruptWaiter(f)
    <3>1. PICK g \in waiters[f] : waiters' = [waiters EXCEPT ![f] = @ \ {g}]
      BY <2>12 DEF InterruptWaiter
    <3>2. waiters' \in [Fiber -> SUBSET Fiber]
      BY <3>1, <1>0
    <3>3. UNCHANGED <<config, flag, hook, pc, signals>>
      BY <2>12 DEF InterruptWaiter
    <3> QED BY <3>2, <3>3, <1>0
  <2>13. CASE TakersInterrupted(f)
    BY <2>13, <1>0 DEF TakersInterrupted
  <2>14. CASE ShutdownStrategy(f)
    <3>1. \A i \in DOMAIN putters : putters[i].value.by \in Fiber
      <4>1. \A i \in DOMAIN putters : putters[i] \in Putter
        BY <1>0
      <4> QED BY <4>1, PutterParts
    <3>2. {putters[i].value.by : i \in {j \in DOMAIN putters : putters[j].last}} \in SUBSET Fiber
      BY <3>1
    <3> DEFINE w == {putters[i].value.by : i \in {j \in DOMAIN putters : putters[j].last}}
    <3>3. waiters' = [waiters EXCEPT ![f] = w]
      BY <2>14 DEF ShutdownStrategy
    <3> HIDE DEF w
    <3>4. waiters' \in [Fiber -> SUBSET Fiber]
      BY <3>2, <3>3, <1>0 DEF w
    <3>5. pc' \in [Fiber -> Place] /\ UNCHANGED <<config, flag, hook, signals>>
      BY <2>14, <1>0 DEF ShutdownStrategy
    <3> QED BY <3>4, <3>5, <1>0
  <2>15. CASE ShutdownDone(f)
    BY <2>15, <1>0 DEF ShutdownDone
  <2> QED BY <1>2, <2>1, <2>2, <2>3, <2>4, <2>5, <2>6, <2>7, <2>8, <2>9, <2>10, <2>11, <2>12, <2>13, <2>14, <2>15 DEF Step
<1>3. CASE StopsWaiting(f)
  BY <1>3, <1>0 DEF StopsWaiting, Leaves
<1>4. CASE StopsBetween(f)
  BY <1>4, <1>0 DEF StopsBetween, Stops
<1> QED BY <1>1, <1>2, <1>3, <1>4

----------------------------------------------------------------------------
(* The loop of takeBetween.                                                *)

\* What LoopInv says of one fiber, in numbers: where it is, how many values it still
\* wants, at least and at most, how many it has, and what it asked for.
Counts(p, r, l, a, min, max) ==
  /\ p \in {"take", "register", "awaitItem"} => 1 <= r
  /\ p \in {"take", "register", "awaitItem", "upTo", "polling"} =>
       r <= l /\ min <= a + r /\ a + l <= max
  /\ p \notin {"take", "register", "awaitItem", "upTo", "polling", "cleanup"} /\ min <= max =>
       min <= a /\ a <= max
LoopOf(f) == Counts(pc[f], remaining[f], limit[f], Len(acc[f]), asked[f][1], asked[f][2])

\* Nothing changed for the other fibers.
TakeFrame(f) == \A g \in Fiber \ {f} :
  /\ pc'[g] = pc[g] /\ remaining'[g] = remaining[g] /\ limit'[g] = limit[g]
  /\ acc'[g] = acc[g] /\ asked'[g] = asked[g]

\* LoopInv is kept if it is kept of the fiber that steps.
LEMMA LoopFrame ==
  ASSUME TypeOK, LoopInv, NEW f \in Fiber, TakeFrame(f), LoopOf(f)'
  PROVE  LoopInv'
<1>1. \A g \in Fiber : LoopOf(g)
  BY DEF LoopInv, LoopOf, Counts
<1>2. \A g \in Fiber : g # f => LoopOf(g)'
  BY <1>1 DEF TakeFrame, LoopOf, Counts
<1>3. \A g \in Fiber : LoopOf(g)'
  BY <1>2
<1> QED BY <1>3 DEF LoopInv, LoopOf, Counts

\* A fiber that takes nothing in this step.
LEMMA LoopStill ==
  ASSUME TypeOK, LoopInv, NEW f \in Fiber, NEW p, pc' = [pc EXCEPT ![f] = p], UNCHANGED taking,
         \/ p = "cleanup"
         \/ /\ pc[f] \notin {"take", "register", "awaitItem", "upTo", "polling", "cleanup"}
            /\ p \notin {"take", "register", "awaitItem", "upTo", "polling", "cleanup"}
         \/ pc[f] = "take" /\ p = "register"
         \/ pc[f] = "register" /\ p = "awaitItem"
         \/ pc[f] = "upTo" /\ p = "polling"
  PROVE  LoopInv' /\ TakeOK'
<1>1. TakeOK /\ pc \in [Fiber -> Place]
  BY Groups DEF ModeOK
<1>2. TakeOK'
  BY <1>1 DEF TakeOK, taking
<1>3. TakeFrame(f)
  BY <1>1 DEF TakeFrame, taking
<1>4. LoopOf(f)
  BY DEF LoopInv, LoopOf, Counts
<1>5. pc'[f] = p
  BY <1>1
<1>6. LoopOf(f)'
  BY <1>4, <1>5 DEF LoopOf, Counts, taking
<1> QED BY <1>2, <1>3, <1>6, LoopFrame

\* A step that takes nothing and goes nowhere.
LEMMA LoopUnchanged ==
  ASSUME TypeOK, LoopInv, UNCHANGED <<pc, taking>>
  PROVE  LoopInv' /\ TakeOK'
BY Groups DEF LoopInv, TakeOK, taking

\* A take that is interrupted.
LEMMA LoopStops ==
  ASSUME TypeOK, LoopInv, NEW f \in Fiber, Stops(f)
  PROVE  LoopInv' /\ TakeOK'
<1>1. TakeOK /\ pc \in [Fiber -> Place] /\ <<>> \in Seq(Value) /\ Len(<<>>) = 0
  BY Groups DEF ModeOK
<1>2. TakeOK'
  BY <1>1 DEF TakeOK, Stops
<1>3. TakeFrame(f)
  BY <1>1 DEF TakeFrame, TakeOK, Stops, GoTo
<1>4. pc'[f] = "idle" /\ asked'[f] = <<0, 0>> /\ acc'[f] = <<>>
  BY <1>1 DEF TakeOK, Stops, GoTo
<1>5. LoopOf(f)'
  BY <1>4, <1>1 DEF LoopOf, Counts
<1> QED BY <1>2, <1>3, <1>5, LoopFrame

\* A take that begins.
LEMMA LoopWants ==
  ASSUME TypeOK, LoopInv, NEW f \in Fiber, NEW min \in Nat, NEW max \in Nat, NEW p, Wants(f, p, min, max),
         \/ p = "idle" /\ max < min
         \/ p = "upTo" /\ min <= max
         \/ p = "take" /\ min <= max /\ 1 <= min
  PROVE  LoopInv' /\ TakeOK'
<1>1. TakeOK /\ pc \in [Fiber -> Place] /\ <<>> \in Seq(Value) /\ Len(<<>>) = 0
  BY Groups DEF ModeOK
<1>2. TakeOK'
  BY <1>1 DEF TakeOK, Wants
<1>3. TakeFrame(f)
  BY <1>1 DEF TakeFrame, TakeOK, Wants, GoTo
<1>4. pc'[f] = p /\ asked'[f] = <<min, max>> /\ acc'[f] = <<>> /\ remaining'[f] = min /\ limit'[f] = max
  BY <1>1 DEF TakeOK, Wants, GoTo
<1>5. Counts(p, min, max, 0, min, max)
  BY DEF Counts
<1>6. LoopOf(f)'
  BY <1>4, <1>5, <1>1 DEF LoopOf
<1> QED BY <1>2, <1>3, <1>6, LoopFrame

\* A take that gets one value.
LEMMA LoopTakes ==
  ASSUME TypeOK, LoopInv, NEW f \in Fiber, pc[f] \in {"take", "awaitItem"}, NEW v \in Value, Takes(f, v)
  PROVE  LoopInv' /\ TakeOK'
<1>1. TakeOK /\ pc \in [Fiber -> Place]
  BY Groups DEF ModeOK
<1>2. LoopOf(f) /\ remaining[f] \in Nat /\ limit[f] \in Nat /\ acc[f] \in Seq(Value) /\ asked[f] \in Nat \X Nat
  BY <1>1 DEF LoopInv, LoopOf, Counts, TakeOK
<1>3. 1 <= remaining[f] /\ remaining[f] <= limit[f]
  BY <1>2 DEF LoopOf, Counts
<1>4. remaining[f] - 1 \in Nat /\ limit[f] - 1 \in Nat /\ ~(limit[f] < remaining[f])
  BY <1>2, <1>3
<1> DEFINE p == IF remaining[f] = 1 THEN "idle" ELSE "upTo"
<1>5. pc' = [pc EXCEPT ![f] = p]
  BY <1>4 DEF Takes, GoTo
<1>6. acc' = [acc EXCEPT ![f] = Append(acc[f], v)] /\ asked' = asked
  BY DEF Takes
<1>7. remaining' = [remaining EXCEPT ![f] = remaining[f] - 1] /\ limit' = [limit EXCEPT ![f] = limit[f] - 1]
  BY DEF Takes
<1>8. Append(acc[f], v) \in Seq(Value) /\ Len(Append(acc[f], v)) = Len(acc[f]) + 1
  <2> HIDE DEF Value
  <2> QED BY <1>2
<1>9. TakeOK'
  BY <1>1, <1>4, <1>6, <1>7, <1>8 DEF TakeOK
<1>10. TakeFrame(f)
  BY <1>1, <1>5, <1>6, <1>7 DEF TakeFrame, TakeOK
<1>11. pc'[f] = p /\ acc'[f] = Append(acc[f], v) /\ remaining'[f] = remaining[f] - 1 /\ limit'[f] = limit[f] - 1 /\ asked'[f] = asked[f]
  BY <1>1, <1>5, <1>6, <1>7 DEF TakeOK
<1> DEFINE r == remaining[f]  l == limit[f]  a == Len(acc[f])  min == asked[f][1]  max == asked[f][2]
<1>12. r \in Nat /\ l \in Nat /\ a \in Nat /\ min \in Nat /\ max \in Nat
  BY <1>2
<1>13. 1 <= r /\ r <= l /\ min <= a + r /\ a + l <= max
  BY <1>2 DEF LoopOf, Counts
<1>14. p = (IF r = 1 THEN "idle" ELSE "upTo")
  OBVIOUS
<1> HIDE DEF p, r, l, a, min, max
<1>15. Counts(p, r - 1, l - 1, a + 1, min, max)
  BY <1>12, <1>13, <1>14 DEF Counts
<1>16. LoopOf(f)'
  BY <1>11, <1>15, <1>8 DEF LoopOf, r, l, a, min, max
<1> QED BY <1>9, <1>10, <1>16, LoopFrame

\* takeUpTo, which gets no more values than it may.
LEMMA LoopPolls ==
  ASSUME TypeOK, Balanced, LoopInv, NEW f \in Fiber, Poll(f)
  PROVE  LoopInv' /\ TakeOK'
<1> DEFINE n == Least(limit[f], Len(content))
           vs == SubSeq(content, 1, n)
<1>1. TakeOK /\ pc \in [Fiber -> Place] /\ content \in Seq(Value)
  BY Groups DEF ModeOK, StoreOK
<1>2. LoopOf(f) /\ remaining[f] \in Nat /\ limit[f] \in Nat /\ acc[f] \in Seq(Value) /\ asked[f] \in Nat \X Nat
  BY <1>1 DEF LoopInv, LoopOf, Counts, TakeOK
<1>3. n \in Nat /\ n <= Len(content) /\ n <= limit[f]
  BY TypePoll
<1>4. /\ pc[f] = "polling" /\ asked' = asked
      /\ acc' = [acc EXCEPT ![f] = acc[f] \o vs]
      /\ remaining' = [remaining EXCEPT ![f] = IF n < remaining[f] THEN remaining[f] - n ELSE 0]
      /\ limit' = [limit EXCEPT ![f] = limit[f] - n]
      /\ pc' = [pc EXCEPT ![f] = IF n < remaining[f] THEN "take" ELSE "idle"]
  BY DEF Poll, GoTo
<1> HIDE DEF n
<1>5. vs \in Seq(Value) /\ Len(vs) = n
  <2>1. 1 \in Nat \ {0} /\ 1 <= n + 1 /\ n + 1 - 1 = n
    BY <1>3
  <2>2. vs \in Seq(Value)
    BY <2>1, <1>1, <1>3, SubSeqParts
  <2>3. Len(vs) = n + 1 - 1
    BY <2>1, <1>1, <1>3, SubSeqParts
  <2> QED BY <2>1, <2>2, <2>3
<1> HIDE DEF vs
<1>6. acc[f] \o vs \in Seq(Value) /\ Len(acc[f] \o vs) = Len(acc[f]) + n
  <2>1. acc[f] \o vs \in Seq(Value)
    BY <1>2, <1>5, ConcatParts
  <2>2. Len(acc[f] \o vs) = Len(acc[f]) + Len(vs)
    BY <1>2, <1>5, ConcatParts
  <2> QED BY <2>1, <2>2, <1>5
<1> DEFINE r2 == IF n < remaining[f] THEN remaining[f] - n ELSE 0
           p2 == IF n < remaining[f] THEN "take" ELSE "idle"
           l2 == limit[f] - n
           a2 == acc[f] \o vs
<1>7. r2 \in Nat /\ l2 \in Nat /\ a2 \in Seq(Value)
  BY <1>2, <1>3, <1>6
<1>8. /\ acc' = [acc EXCEPT ![f] = a2] /\ remaining' = [remaining EXCEPT ![f] = r2]
      /\ limit' = [limit EXCEPT ![f] = l2] /\ pc' = [pc EXCEPT ![f] = p2]
  BY <1>4
<1>17. asked' = asked
  BY <1>4
<1> HIDE DEF r2, p2, l2, a2
<1>9. TakeOK'
  BY <1>1, <1>17, <1>7, <1>8 DEF TakeOK
<1>10. TakeFrame(f)
  BY <1>1, <1>17, <1>8 DEF TakeFrame, TakeOK
<1>11. pc'[f] = p2 /\ acc'[f] = a2 /\ remaining'[f] = r2 /\ limit'[f] = l2 /\ asked'[f] = asked[f]
  BY <1>1, <1>17, <1>8 DEF TakeOK
<1> DEFINE r == remaining[f]  l == limit[f]  a == Len(acc[f])  min == asked[f][1]  max == asked[f][2]
<1>12. r \in Nat /\ l \in Nat /\ a \in Nat /\ min \in Nat /\ max \in Nat
  BY <1>2
<1>13. r <= l /\ min <= a + r /\ a + l <= max
  BY <1>2, <1>4 DEF LoopOf, Counts
<1>14. /\ p2 = (IF n < r THEN "take" ELSE "idle") /\ r2 = (IF n < r THEN r - n ELSE 0)
       /\ l2 = l - n /\ n <= l /\ Len(a2) = a + n
  BY <1>3, <1>6 DEF p2, r2, l2, a2
<1> HIDE DEF r, l, a, min, max
<1>15. Counts(p2, r2, l2, a + n, min, max)
  BY <1>3, <1>12, <1>13, <1>14 DEF Counts
<1>16. LoopOf(f)'
  BY <1>11, <1>14, <1>15 DEF LoopOf, min, max
<1> QED BY <1>9, <1>10, <1>16, LoopFrame

\* The loop of takeBetween keeps count, whatever the step.
LEMMA LoopSteps ==
  ASSUME TypeOK, Balanced, LoopInv, NEW f \in Fiber, Begin(f) \/ Step(f) \/ StopsWaiting(f) \/ StopsBetween(f)
  PROVE  LoopInv' /\ TakeOK'
<1>0. /\ item \in [Fiber -> Value] /\ pc \in [Fiber -> Place]
  BY Groups DEF StoreOK, ModeOK
<1>1. CASE Begin(f)
  <2>1. CASE Offer(f)
    <3>1. PICK n \in Batches : /\ pc[f] = "idle" /\ UNCHANGED taking
                               /\ GoTo(f, IF Stored(Fresh(f, n)).left = <<>> \/ strategy = "dropping" THEN "idle" ELSE "surplus")
      BY <2>1 DEF Offer, Begins
    <3>2. PICK p \in {"idle", "surplus"} : pc' = [pc EXCEPT ![f] = p]
      BY <3>1 DEF GoTo
    <3> QED BY <3>1, <3>2, LoopStill
  <2>2. CASE UnsafeOffer(f)
    BY <2>2, LoopUnchanged DEF UnsafeOffer
  <2>3. CASE TakeOne(f)
    BY <2>3, LoopWants DEF TakeOne
  <2>4. CASE TakeBetween(f)
    <3>1. PICK m \in Asked : Wants(f, IF m[2] < m[1] THEN "idle" ELSE "upTo", m[1], m[2])
      BY <2>4 DEF TakeBetween
    <3>2. m[1] \in Nat /\ m[2] \in Nat
      BY QueueAssumption
    <3> QED BY <3>1, <3>2, LoopWants
  <2>5. CASE Shutdown(f)
    BY <2>5, LoopStill DEF Shutdown, Begins, GoTo
  <2>6. CASE Refused(f)
    BY <2>6, LoopUnchanged DEF Refused
  <2> QED BY <1>1, <2>1, <2>2, <2>3, <2>4, <2>5, <2>6 DEF Begin
<1>2. CASE Step(f)
  <2>1. CASE PutSurplus(f)
    <3>1. pc[f] = "surplus" /\ UNCHANGED taking /\ \E p \in {"cleanup", "awaitRoom"} : pc' = [pc EXCEPT ![f] = p]
      BY <2>1 DEF PutSurplus, GoTo
    <3> QED BY <3>1, LoopStill
  <2>2. CASE SlideSurplus(f)
    <3>1. pc[f] = "surplus" /\ UNCHANGED taking /\ pc' = [pc EXCEPT ![f] = "idle"]
      BY <2>2 DEF SlideSurplus, GoTo
    <3> QED BY <3>1, LoopStill
  <2>3. CASE Admitted(f)
    BY <2>3, LoopStill DEF Admitted, GoTo
  <2>4. CASE Take(f)
    <3>1. CASE flag /\ Stops(f)
      BY <3>1, LoopStops
    <3>2. CASE content # <<>> /\ Takes(f, Head(content))
      <4>1. Head(content) \in Value
        <5> HIDE DEF Value
        <5> QED BY <3>2, Made
      <4> QED BY <2>4, <3>2, <4>1, LoopTakes DEF Take
    <3>3. CASE GoTo(f, "register") /\ UNCHANGED taking
      BY <2>4, <3>3, LoopStill DEF Take, GoTo
    <3> QED BY <2>4, <3>1, <3>2, <3>3 DEF Take
  <2>5. CASE Register(f)
    <3>1. pc[f] = "register" /\ UNCHANGED taking /\ \E p \in {"cleanup", "awaitItem"} : pc' = [pc EXCEPT ![f] = p]
      BY <2>5 DEF Register, GoTo
    <3> QED BY <3>1, LoopStill
  <2>6. CASE Served(f)
    BY <2>6, <1>0, LoopTakes DEF Served
  <2>7. CASE TakeUpTo(f)
    <3>1. CASE Stops(f)
      BY <3>1, LoopStops
    <3>2. CASE GoTo(f, "polling") /\ UNCHANGED taking
      BY <2>7, <3>2, LoopStill DEF TakeUpTo, GoTo
    <3> QED BY <2>7, <3>1, <3>2 DEF TakeUpTo
  <2>8. CASE Poll(f)
    BY <2>8, LoopPolls
  <2>9. CASE Aborted(f)
    BY <2>9, LoopStill DEF Aborted, Leaves, GoTo
  <2>10. CASE Cleanup(f)
    BY <2>10, LoopStops DEF Cleanup
  <2>11. CASE ShutdownHook(f)
    <3>1. pc[f] = "hook" /\ UNCHANGED taking /\ \E p \in {"idle", "takers"} : pc' = [pc EXCEPT ![f] = p]
      BY <2>11 DEF ShutdownHook, GoTo
    <3> QED BY <3>1, LoopStill
  <2>12. CASE InterruptWaiter(f)
    BY <2>12, LoopUnchanged DEF InterruptWaiter
  <2>13. CASE TakersInterrupted(f)
    BY <2>13, LoopStill DEF TakersInterrupted, GoTo
  <2>14. CASE ShutdownStrategy(f)
    BY <2>14, LoopStill DEF ShutdownStrategy, GoTo
  <2>15. CASE ShutdownDone(f)
    BY <2>15, LoopStill DEF ShutdownDone, GoTo
  <2> QED BY <1>2, <2>1, <2>2, <2>3, <2>4, <2>5, <2>6, <2>7, <2>8, <2>9, <2>10, <2>11, <2>12, <2>13, <2>14, <2>15 DEF Step
<1>3. CASE StopsWaiting(f)
  BY <1>3, LoopStill DEF StopsWaiting, Leaves, GoTo
<1>4. CASE StopsBetween(f)
  BY <1>4, LoopStops DEF StopsBetween
<1> QED BY <1>1, <1>2, <1>3, <1>4

----------------------------------------------------------------------------
(* What is picked from a sequence.                                         *)

\* How many of these places are at most i.
Rank(at, i) == Cardinality({j \in at : j <= i})

\* The places of a sequence, numbered in order.
LEMMA Ranks ==
  ASSUME NEW m \in Nat, NEW at, at \subseteq 1..m
  PROVE  /\ Cardinality(at) \in Nat /\ Cardinality(at) <= m
         /\ \A i \in at : Rank(at, i) \in 1..Cardinality(at)
         /\ \A i, j \in at : i < j => Rank(at, i) < Rank(at, j)
         /\ \A k \in 1..Cardinality(at) : \E i \in at : Rank(at, i) = k
<1> DEFINE n == Cardinality(at)
<1>1. IsFiniteSet(1..m) /\ Cardinality(1..m) = m
  BY FS_Interval
<1>2. IsFiniteSet(at) /\ n \in Nat /\ n <= m
  BY <1>1, FS_Subset, FS_CardinalityType
<1>3. \A i \in at : i \in Nat
  OBVIOUS
<1>4. ASSUME NEW i \in at PROVE Rank(at, i) \in 1..n
  <2> DEFINE T == {j \in at : j <= i}
  <2>1. T \in SUBSET at /\ i \in T
    BY <1>3
  <2>2. IsFiniteSet(T) /\ Cardinality(T) <= n
    BY <2>1, <1>2, FS_Subset
  <2>3. Cardinality(T) \in Nat /\ Cardinality(T) # 0
    BY <2>1, <2>2, FS_CardinalityType, FS_EmptySet
  <2> QED BY <1>2, <2>2, <2>3 DEF Rank
<1>5. ASSUME NEW i \in at, NEW j \in at, i < j PROVE Rank(at, i) < Rank(at, j)
  <2> DEFINE T == {x \in at : x <= i}  U == {x \in at : x <= j}
  <2>1. T \in SUBSET U /\ U \in SUBSET at /\ j \in U /\ j \notin T
    <3>1. i \in Nat /\ j \in Nat /\ j <= j /\ ~(j <= i)
      BY <1>3, <1>5
    <3>2. \A x \in Nat : x <= i => x <= j
      BY <3>1, <1>5
    <3>3. T \subseteq U
      BY <3>2, <1>3
    <3> QED BY <3>1, <3>3
  <2>2. IsFiniteSet(U)
    BY <2>1, <1>2, FS_Subset
  <2>3. Cardinality(T) <= Cardinality(U) /\ Cardinality(T) # Cardinality(U)
    <3>1. Cardinality(T) <= Cardinality(U) /\ (Cardinality(U) = Cardinality(T) => U = T)
      <4> HIDE DEF T, U
      <4> QED BY <2>1, <2>2, FS_Subset
    <3>2. U # T
      BY <2>1
    <3> QED BY <3>1, <3>2
  <2>4. IsFiniteSet(T)
    BY <2>1, <2>2, FS_Subset
  <2>5. Cardinality(T) \in Nat /\ Cardinality(U) \in Nat
    BY <2>2, <2>4, FS_CardinalityType
  <2> QED BY <2>3, <2>5 DEF Rank
<1>6. \A k \in 1..n : \E i \in at : Rank(at, i) = k
  <2> DEFINE r == [i \in at |-> Rank(at, i)]
  <2>1. r \in [at -> 1..n]
    BY <1>4
  <2>2. \A i, j \in at : r[i] = r[j] => i = j
    <3> SUFFICES ASSUME NEW i \in at, NEW j \in at, r[i] = r[j], i # j PROVE FALSE
      OBVIOUS
    <3>1. Rank(at, i) = Rank(at, j) /\ Rank(at, i) \in Nat
      BY <1>4
    <3>2. i < j \/ j < i
      BY <1>3
    <3> QED BY <3>1, <3>2, <1>5
  <2>3. r \in Injection(at, 1..n)
    BY <2>1, <2>2 DEF Injection, IsInjective
  <2>4. IsFiniteSet(1..n) /\ Cardinality(1..n) = n
    BY <1>2, FS_Interval
  <2>5. r \in Surjection(at, 1..n)
    BY <2>3, <2>4, FS_Injection
  <2>6. \A k \in 1..n : \E i \in at : r[i] = k
    BY <2>5 DEF Surjection
  <2> QED BY <2>6
<1> QED BY <1>2, <1>4, <1>5, <1>6

\* The place in a sequence of the k-th of these places.
PlaceOf(at, k) == CHOOSE i \in at : Rank(at, i) = k

\* What is picked is what is at these places, in their order.
LEMMA PickParts ==
  ASSUME NEW S, NEW s \in Seq(S), NEW at, at \subseteq DOMAIN s
  PROVE  /\ Pick(s, at) \in Seq(S) /\ Len(Pick(s, at)) = Cardinality(at) /\ Cardinality(at) \in Nat
         /\ Cardinality(at) <= Len(s)
         /\ \A k \in 1..Cardinality(at) : PlaceOf(at, k) \in at /\ Pick(s, at)[k] = s[PlaceOf(at, k)]
         /\ \A k, l \in 1..Cardinality(at) : PlaceOf(at, k) = PlaceOf(at, l) => k = l
         /\ \A k, l \in 1..Cardinality(at) : PlaceOf(at, k) <= PlaceOf(at, l) => k <= l
         /\ \A i \in at : \E k \in 1..Cardinality(at) : PlaceOf(at, k) = i
<1> DEFINE n == Cardinality(at)
<1>1. Len(s) \in Nat /\ at \subseteq 1..Len(s)
  OBVIOUS
<1>2. /\ n \in Nat /\ n <= Len(s)
      /\ \A i \in at : Rank(at, i) \in 1..n
      /\ \A i, j \in at : i < j => Rank(at, i) < Rank(at, j)
      /\ \A k \in 1..n : \E i \in at : Rank(at, i) = k
  BY <1>1, Ranks
<1>3. \A k \in 1..n : PlaceOf(at, k) \in at /\ Rank(at, PlaceOf(at, k)) = k
  BY <1>2 DEF PlaceOf
<1>4. Pick(s, at) = [k \in 1..n |-> s[PlaceOf(at, k)]]
  BY DEF Pick, PlaceOf, Rank
<1>5. \A i \in at : s[i] \in S
  BY <1>1
<1>6. Pick(s, at) \in Seq(S) /\ Len(Pick(s, at)) = n
  <2>1. Pick(s, at) \in [1..n -> S]
    BY <1>3, <1>4, <1>5
  <2> HIDE DEF n
  <2> QED BY <2>1, <1>2
<1>7. \A k, l \in 1..n : PlaceOf(at, k) = PlaceOf(at, l) => k = l
  BY <1>3
<1>8. \A k, l \in 1..n : PlaceOf(at, k) <= PlaceOf(at, l) => k <= l
  <2> SUFFICES ASSUME NEW k \in 1..n, NEW l \in 1..n, PlaceOf(at, k) <= PlaceOf(at, l) PROVE k <= l
    OBVIOUS
  <2> DEFINE x == PlaceOf(at, k)  y == PlaceOf(at, l)
  <2>1. x \in at /\ y \in at /\ x \in Nat /\ y \in Nat /\ Rank(at, x) = k /\ Rank(at, y) = l /\ x <= y
    BY <1>1, <1>3
  <2> HIDE DEF x, y
  <2>2. CASE x = y
    BY <2>1, <2>2, <1>2
  <2>3. CASE x < y
    BY <2>1, <2>3, <1>2
  <2> QED BY <2>1, <2>2, <2>3
<1>9. \A i \in at : \E k \in 1..n : PlaceOf(at, k) = i
  <2> SUFFICES ASSUME NEW i \in at PROVE \E k \in 1..n : PlaceOf(at, k) = i
    OBVIOUS
  <2> DEFINE k == Rank(at, i)  x == PlaceOf(at, k)
  <2>1. k \in 1..n /\ x \in at /\ Rank(at, x) = k /\ Rank(at, i) = k
    BY <1>2, <1>3
  <2>2. x \in Nat /\ i \in Nat /\ k \in Nat
    BY <1>1, <2>1, <1>2
  <2> HIDE DEF x, k
  <2>3. ~(x < i) /\ ~(i < x)
    BY <1>2, <2>1, <2>2
  <2>4. x = i
    BY <2>2, <2>3
  <2> QED BY <2>1, <2>4 DEF x
<1>10. \A k \in 1..n : Pick(s, at)[k] = s[PlaceOf(at, k)]
  BY <1>4
<1> QED BY <1>2, <1>3, <1>6, <1>7, <1>8, <1>9, <1>10

----------------------------------------------------------------------------
(* The surplus of an offer.                                                *)

\* What SurplusInv says of one fiber.
SurplusOf(f) ==
  /\ pc[f] = "surplus" => surplus[f] # <<>> /\ strategy # "dropping"
  /\ pc[f] # "surplus" => surplus[f] = <<>>
  /\ Len(surplus[f]) <= sent[f]
  /\ \A i \in DOMAIN surplus[f] : surplus[f][i] = [by |-> f, n |-> (sent[f] - Len(surplus[f])) + i]

\* Nothing changed for the other fibers.
OfferFrame(f) == \A g \in Fiber \ {f} : pc'[g] = pc[g] /\ surplus'[g] = surplus[g] /\ sent'[g] = sent[g]

\* SurplusInv is kept if it is kept of the fiber that steps.
LEMMA SurplusFrame ==
  ASSUME SurplusInv, NEW f \in Fiber, OfferFrame(f), strategy' = strategy, SurplusOf(f)'
  PROVE  SurplusInv'
<1>1. \A g \in Fiber : SurplusOf(g)
  BY DEF SurplusInv, SurplusOf
<1>2. \A g \in Fiber : g # f => SurplusOf(g)'
  BY <1>1 DEF OfferFrame, SurplusOf
<1>3. \A g \in Fiber : SurplusOf(g)'
  BY <1>2
<1> QED BY <1>3 DEF SurplusInv, SurplusOf

\* A fiber that has no surplus after the step.
LEMMA SurplusGone ==
  ASSUME TypeOK, SurplusInv, NEW f \in Fiber, NEW p, p # "surplus", pc' = [pc EXCEPT ![f] = p],
         surplus' = [surplus EXCEPT ![f] = <<>>], NEW n \in Nat, sent' = [sent EXCEPT ![f] = @ + n],
         strategy' = strategy, fuel' \in [Fiber -> Nat]
  PROVE  SurplusInv' /\ OfferOK'
<1>1. OfferOK /\ pc \in [Fiber -> Place] /\ <<>> \in Seq(Value) /\ Len(<<>>) = 0
  BY Groups DEF ModeOK
<1>2. sent[f] + n \in Nat
  BY <1>1 DEF OfferOK
<1>3. OfferOK'
  BY <1>1, <1>2 DEF OfferOK
<1>4. OfferFrame(f)
  BY <1>1 DEF OfferFrame, OfferOK
<1>5. pc'[f] # "surplus" /\ surplus'[f] = <<>> /\ sent'[f] \in Nat
  BY <1>1, <1>2 DEF OfferOK
<1>6. SurplusOf(f)'
  BY <1>1, <1>5 DEF SurplusOf
<1> QED BY <1>3, <1>4, <1>6, SurplusFrame

\* A fiber that offers nothing in this step.
LEMMA SurplusStill ==
  ASSUME TypeOK, SurplusInv, NEW f \in Fiber, NEW p, p # "surplus", pc[f] # "surplus",
         pc' = [pc EXCEPT ![f] = p] \/ pc' = pc, UNCHANGED <<surplus, sent>>, strategy' = strategy,
         fuel' \in [Fiber -> Nat]
  PROVE  SurplusInv' /\ OfferOK'
<1>1. OfferOK /\ pc \in [Fiber -> Place]
  BY Groups DEF ModeOK
<1>3. OfferOK'
  BY <1>1 DEF OfferOK
<1>4. OfferFrame(f)
  BY <1>1 DEF OfferFrame, OfferOK
<1>5. pc'[f] # "surplus"
  BY <1>1
<1>6. SurplusOf(f)
  BY DEF SurplusInv, SurplusOf
<1>7. SurplusOf(f)'
  BY <1>5, <1>6 DEF SurplusOf
<1> QED BY <1>3, <1>4, <1>7, SurplusFrame

\* An operation that begins uses up fuel of its fiber.
LEMMA FuelBegins ==
  ASSUME TypeOK, NEW f \in Fiber, NEW kind, Begins(f, kind)
  PROVE  fuel' \in [Fiber -> Nat] /\ fuel'[f] = fuel[f] - 1 /\ fuel[f] > 0 /\ (\A g \in Fiber \ {f} : fuel'[g] = fuel[g])
<1>1. fuel \in [Fiber -> Nat]
  BY DEF TypeOK
<1>2. fuel[f] > 0 /\ fuel' = [fuel EXCEPT ![f] = fuel[f] - 1]
  BY DEF Begins
<1>3. fuel[f] - 1 \in Nat
  BY <1>1, <1>2
<1> QED BY <1>1, <1>2, <1>3

\* The surplus of an offer is the last of its values.
LEMMA SurplusOffer ==
  ASSUME TypeOK, Balanced, SurplusInv, NEW f \in Fiber, Offer(f)
  PROVE  SurplusInv' /\ OfferOK'
<1>1. PICK n \in Batches :
        /\ Begins(f, "offer") /\ Hand(Stored(Fresh(f, n)).loop, deferred, <<>>)
        /\ sent' = [sent EXCEPT ![f] = sent[f] + n]
        /\ surplus' = [surplus EXCEPT ![f] = IF strategy = "dropping" THEN <<>> ELSE Stored(Fresh(f, n)).left]
        /\ pc' = [pc EXCEPT ![f] = IF Stored(Fresh(f, n)).left = <<>> \/ strategy = "dropping" THEN "idle" ELSE "surplus"]
        /\ strategy' = strategy
  BY DEF Offer, GoTo, config
<1> DEFINE left == Stored(Fresh(f, n)).left
<1>2. n \in Nat /\ n >= 1
  BY QueueAssumption
<1>3. PICK j \in Nat : /\ j <= n /\ left \in Seq(Value) /\ Len(left) = n - j
                       /\ \A i \in 1..(n - j) : left[i] = [by |-> f, n |-> (sent[f] + j) + i]
  BY <1>1, <1>2, TypeOffer
<1> DEFINE s == IF strategy = "dropping" THEN <<>> ELSE left
           p == IF left = <<>> \/ strategy = "dropping" THEN "idle" ELSE "surplus"
<1>4. sent' = [sent EXCEPT ![f] = sent[f] + n] /\ surplus' = [surplus EXCEPT ![f] = s] /\ pc' = [pc EXCEPT ![f] = p]
  BY <1>1
<1> HIDE DEF left
<1>5. OfferOK /\ pc \in [Fiber -> Place] /\ <<>> \in Seq(Value) /\ Len(<<>>) = 0 /\ sent[f] \in Nat
  BY Groups DEF ModeOK, OfferOK
<1>6. s \in Seq(Value) /\ (p = "surplus" => s # <<>> /\ strategy # "dropping") /\ (p # "surplus" => s = <<>>)
  BY <1>3, <1>5
<1>7. Len(s) <= sent[f] + n /\ \A i \in DOMAIN s : s[i] = [by |-> f, n |-> ((sent[f] + n) - Len(s)) + i]
  <2>1. CASE s = <<>>
    BY <2>1, <1>2, <1>5
  <2>2. CASE s # <<>>
    <3>1. s = left
      BY <2>2
    <3> HIDE DEF s
    <3>2. Len(s) = n - j /\ DOMAIN s = 1..(n - j)
      BY <3>1, <1>3
    <3>3. (sent[f] + n) - Len(s) = sent[f] + j /\ Len(s) <= sent[f] + n
      BY <3>2, <1>2, <1>3, <1>5
    <3>4. \A i \in 1..(n - j) : s[i] = [by |-> f, n |-> (sent[f] + j) + i]
      BY <3>1, <1>3
    <3> DEFINE x == sent[f] + j
    <3>5. (sent[f] + n) - Len(s) = x /\ \A i \in 1..(n - j) : s[i] = [by |-> f, n |-> x + i]
      BY <3>3, <3>4
    <3> HIDE DEF x
    <3> QED BY <3>2, <3>3, <3>5
  <2> QED BY <2>1, <2>2
<1> HIDE DEF s, p
<1>8. fuel' \in [Fiber -> Nat] /\ sent[f] + n \in Nat
  BY <1>1, <1>2, <1>5, FuelBegins
<1>9. OfferOK'
  BY <1>4, <1>5, <1>6, <1>8 DEF OfferOK
<1>10. OfferFrame(f)
  BY <1>4, <1>5 DEF OfferFrame, OfferOK
<1>11. pc'[f] = p /\ surplus'[f] = s /\ sent'[f] = sent[f] + n /\ strategy' = strategy
  BY <1>1, <1>4, <1>5 DEF OfferOK
<1>12. SurplusOf(f)'
  BY <1>6, <1>7, <1>11 DEF SurplusOf
<1> QED BY <1>1, <1>9, <1>10, <1>12, SurplusFrame

\* SurplusInv is kept by every step.
LEMMA SurplusSteps ==
  ASSUME TypeOK, Balanced, SurplusInv, NEW f \in Fiber, Begin(f) \/ Step(f) \/ StopsWaiting(f) \/ StopsBetween(f)
  PROVE  SurplusInv' /\ OfferOK'
<1> USE DEF GoTo, config
<1>0. OfferOK /\ pc \in [Fiber -> Place] /\ fuel \in [Fiber -> Nat]
  BY Groups DEF ModeOK, OfferOK
<1>5. pc[f] # "surplus" => surplus[f] = <<>>
  BY DEF SurplusInv
<1>1. CASE Begin(f)
  <2>1. CASE Offer(f)
    BY <2>1, SurplusOffer
  <2>2. CASE UnsafeOffer(f)
    <3>1. Begins(f, "unsafeOffer") /\ sent' = [sent EXCEPT ![f] = @ + 1] /\ UNCHANGED <<pc, surplus, strategy>> /\ pc[f] = "idle"
      BY <2>2 DEF UnsafeOffer, Begins
    <3>2. pc' = [pc EXCEPT ![f] = "idle"] /\ surplus' = [surplus EXCEPT ![f] = <<>>] /\ fuel' \in [Fiber -> Nat]
      BY <3>1, <1>0, <1>5, FuelBegins DEF OfferOK
    <3> QED BY <3>1, <3>2, SurplusGone
  <2>3. CASE TakeOne(f)
    BY <2>3, FuelBegins, SurplusStill DEF TakeOne, Wants, Begins
  <2>4. CASE TakeBetween(f)
    <3>1. \E p \in {"idle", "upTo"} : pc' = [pc EXCEPT ![f] = p]
      BY <2>4 DEF TakeBetween, Wants
    <3>2. Begins(f, "takeBetween") /\ UNCHANGED <<surplus, sent, strategy>> /\ pc[f] = "idle"
      BY <2>4 DEF TakeBetween, Begins
    <3> QED BY <3>1, <3>2, FuelBegins, SurplusStill
  <2>5. CASE Shutdown(f)
    BY <2>5, FuelBegins, SurplusStill DEF Shutdown, Begins
  <2>6. CASE Refused(f)
    <3>1. fuel' \in [Fiber -> Nat] /\ pc[f] = "idle"
      BY <2>6, FuelBegins DEF Refused, Begins
    <3> QED BY <3>1, <2>6, SurplusStill DEF Refused
  <2> QED BY <1>1, <2>1, <2>2, <2>3, <2>4, <2>5, <2>6 DEF Begin
<1>2. CASE Step(f)
  <2>1. CASE PutSurplus(f)
    <3>1. surplus' = [surplus EXCEPT ![f] = <<>>] /\ UNCHANGED <<sent, fuel, strategy>> /\ \E p \in {"cleanup", "awaitRoom"} : pc' = [pc EXCEPT ![f] = p]
      BY <2>1 DEF PutSurplus
    <3>2. sent' = [sent EXCEPT ![f] = @ + 0]
      BY <3>1, <1>0 DEF OfferOK
    <3> QED BY <3>1, <3>2, <1>0, SurplusGone
  <2>2. CASE SlideSurplus(f)
    <3>1. surplus' = [surplus EXCEPT ![f] = <<>>] /\ UNCHANGED <<sent, fuel, strategy>> /\ pc' = [pc EXCEPT ![f] = "idle"]
      BY <2>2 DEF SlideSurplus
    <3>2. sent' = [sent EXCEPT ![f] = @ + 0]
      BY <3>1, <1>0 DEF OfferOK
    <3> QED BY <3>1, <3>2, <1>0, SurplusGone
  <2>3. CASE Admitted(f)
    BY <2>3, <1>0, SurplusStill DEF Admitted
  <2>4. CASE Take(f)
    <3>1. pc[f] = "take" /\ UNCHANGED <<surplus, sent, fuel, strategy>> /\ \E p \in {"idle", "upTo", "register"} : pc' = [pc EXCEPT ![f] = p]
      BY <2>4 DEF Take, Stops, Takes
    <3> QED BY <3>1, <1>0, SurplusStill
  <2>5. CASE Register(f)
    <3>1. pc[f] = "register" /\ UNCHANGED <<surplus, sent, fuel, strategy>> /\ \E p \in {"cleanup", "awaitItem"} : pc' = [pc EXCEPT ![f] = p]
      BY <2>5 DEF Register
    <3> QED BY <3>1, <1>0, SurplusStill
  <2>6. CASE Served(f)
    <3>1. pc[f] = "awaitItem" /\ UNCHANGED <<surplus, sent, fuel, strategy>> /\ \E p \in {"idle", "upTo"} : pc' = [pc EXCEPT ![f] = p]
      BY <2>6 DEF Served, Takes
    <3> QED BY <3>1, <1>0, SurplusStill
  <2>7. CASE TakeUpTo(f)
    <3>1. pc[f] = "upTo" /\ UNCHANGED <<surplus, sent, fuel, strategy>> /\ \E p \in {"idle", "polling"} : pc' = [pc EXCEPT ![f] = p]
      BY <2>7 DEF TakeUpTo, Stops
    <3> QED BY <3>1, <1>0, SurplusStill
  <2>8. CASE Poll(f)
    <3>1. pc[f] = "polling" /\ UNCHANGED <<surplus, sent, fuel, strategy>> /\ \E p \in {"idle", "take"} : pc' = [pc EXCEPT ![f] = p]
      BY <2>8 DEF Poll
    <3> QED BY <3>1, <1>0, SurplusStill
  <2>9. CASE Aborted(f)
    BY <2>9, <1>0, SurplusStill DEF Aborted, Leaves, Waits
  <2>10. CASE Cleanup(f)
    BY <2>10, <1>0, SurplusStill DEF Cleanup, Stops
  <2>11. CASE ShutdownHook(f)
    <3>1. pc[f] = "hook" /\ UNCHANGED <<surplus, sent, fuel, strategy>> /\ \E p \in {"idle", "takers"} : pc' = [pc EXCEPT ![f] = p]
      BY <2>11 DEF ShutdownHook
    <3> QED BY <3>1, <1>0, SurplusStill
  <2>12. CASE InterruptWaiter(f)
    <3>1. pc[f] \in {"takers", "waiters"} /\ UNCHANGED <<surplus, sent, fuel, strategy, pc>>
      BY <2>12 DEF InterruptWaiter
    <3> QED BY <3>1, <1>0, SurplusStill
  <2>13. CASE TakersInterrupted(f)
    BY <2>13, <1>0, SurplusStill DEF TakersInterrupted
  <2>14. CASE ShutdownStrategy(f)
    BY <2>14, <1>0, SurplusStill DEF ShutdownStrategy
  <2>15. CASE ShutdownDone(f)
    BY <2>15, <1>0, SurplusStill DEF ShutdownDone
  <2> QED BY <1>2, <2>1, <2>2, <2>3, <2>4, <2>5, <2>6, <2>7, <2>8, <2>9, <2>10, <2>11, <2>12, <2>13, <2>14, <2>15 DEF Step
<1>3. CASE StopsWaiting(f)
  BY <1>3, <1>0, SurplusStill DEF StopsWaiting, Leaves, Waits
<1>4. CASE StopsBetween(f)
  <2>1. surplus' = [surplus EXCEPT ![f] = <<>>] /\ UNCHANGED <<sent, fuel, strategy>> /\ pc' = [pc EXCEPT ![f] = "idle"]
    BY <1>4 DEF StopsBetween, Stops
  <2>2. sent' = [sent EXCEPT ![f] = @ + 0]
    BY <2>1, <1>0 DEF OfferOK
  <2> QED BY <2>1, <2>2, <1>0, SurplusGone
<1> QED BY <1>1, <1>2, <1>3, <1>4

----------------------------------------------------------------------------
(* The first invariant.                                                    *)

\* A step of f.
Moves(f) == Begin(f) \/ Step(f) \/ StopsWaiting(f) \/ StopsBetween(f)

\* Some fiber moves in every step.
LEMMA NextMoves == Next <=> \E f \in Fiber : Moves(f)
BY DEF Next, Moves

\* A queue keeps its capacity and its strategy.
LEMMA ConfigStill == ASSUME NEW f \in Fiber, Moves(f) PROVE UNCHANGED config
BY DEF Moves, Begin, Step, StopsWaiting, StopsBetween, Leaves, Stops, Offer, UnsafeOffer, TakeOne, TakeBetween, Shutdown, Refused,
       PutSurplus, SlideSurplus, Admitted, Take, Register, Served, TakeUpTo, Poll, Aborted, Cleanup, ShutdownHook,
       InterruptWaiter, TakersInterrupted, ShutdownStrategy, ShutdownDone

\* The three ways in which a step serves those who wait.
Serves(f) == \/ pc[f] \in {"idle", "surplus", "take", "polling"} /\ Done(takers, putters, deferred)
             \/ Register(f) /\ Done(Append(takers, f), putters, Pending(f))
             \/ PutSurplus(f) /\ Done(takers, putters \o AsPutters(surplus[f]), Pending(f))
\* The others: nothing, a shutdown and a cleanup.
Rests == UNCHANGED <<store, waiting, got>>

\* A step serves, or rests, or is one of four others.
LEMMA StoreSteps ==
  ASSUME TypeOK, Balanced, SurplusInv, NEW f \in Fiber, Moves(f)
  PROVE  \/ Serves(f) \/ Rests \/ Cleanup(f) \/ Shutdown(f) \/ ShutdownStrategy(f) \/ InterruptWaiter(f)
<1>1. CASE Begin(f)
  <2>1. CASE Offer(f)
    <3>1. PICK n \in Batches : pc[f] = "idle" /\ Hand(Stored(Fresh(f, n)).loop, deferred, <<>>)
      BY <2>1 DEF Offer, Begins
    <3>2. n \in Nat
      BY QueueAssumption
    <3> QED BY <3>1, <3>2, TypeOffer DEF Serves
  <2>2. CASE UnsafeOffer(f)
    <3>1. pc[f] = "idle" /\ Hand(Stored(Fresh(f, 1)).loop, deferred, <<>>) /\ 1 \in Nat
      BY <2>2 DEF UnsafeOffer, Begins
    <3> QED BY <3>1, TypeOffer DEF Serves
  <2>3. CASE TakeOne(f)
    BY <2>3 DEF TakeOne, Rests
  <2>4. CASE TakeBetween(f)
    BY <2>4 DEF TakeBetween, Rests
  <2>5. CASE Shutdown(f)
    BY <2>5
  <2>6. CASE Refused(f)
    BY <2>6 DEF Refused, Rests
  <2> QED BY <1>1, <2>1, <2>2, <2>3, <2>4, <2>5, <2>6 DEF Begin
<1>2. CASE Step(f)
  <2>1. CASE PutSurplus(f)
    BY <2>1, TypePutSurplus DEF Serves
  <2>2. CASE SlideSurplus(f)
    <3>1. pc[f] = "surplus"
      BY <2>2 DEF SlideSurplus
    <3> QED BY <2>2, <3>1, TypeSlide DEF Serves
  <2>3. CASE Admitted(f)
    BY <2>3 DEF Admitted, Rests
  <2>4. CASE Take(f)
    <3>1. CASE ~flag /\ content # <<>>
      <4>1. pc[f] = "take"
        BY <2>4 DEF Take
      <4> QED BY <2>4, <3>1, <4>1, TypeTake DEF Serves
    <3>2. CASE ~(~flag /\ content # <<>>)
      <4>1. UNCHANGED <<store, waiting, got>>
        BY <2>4, <3>2 DEF Take
      <4> QED BY <4>1 DEF Rests
    <3> QED BY <3>1, <3>2
  <2>5. CASE Register(f)
    BY <2>5, TypeRegister DEF Serves
  <2>6. CASE Served(f)
    BY <2>6 DEF Served, Rests
  <2>7. CASE TakeUpTo(f)
    BY <2>7 DEF TakeUpTo, Rests
  <2>8. CASE Poll(f)
    <3>1. pc[f] = "polling"
      BY <2>8 DEF Poll
    <3> QED BY <2>8, <3>1, TypePoll DEF Serves
  <2>9. CASE Aborted(f)
    BY <2>9 DEF Aborted, Leaves, Rests
  <2>11. CASE ShutdownHook(f)
    BY <2>11 DEF ShutdownHook, Rests
  <2>13. CASE TakersInterrupted(f)
    BY <2>13 DEF TakersInterrupted, Rests
  <2>15. CASE ShutdownDone(f)
    BY <2>15 DEF ShutdownDone, Rests
  <2> QED BY <1>2, <2>1, <2>2, <2>3, <2>4, <2>5, <2>6, <2>7, <2>8, <2>9, <2>11, <2>13, <2>15 DEF Step
<1>3. CASE StopsWaiting(f)
  BY <1>3 DEF StopsWaiting, Leaves, Rests
<1>4. CASE StopsBetween(f)
  BY <1>4 DEF StopsBetween, Rests
<1> QED BY <1>1, <1>2, <1>3, <1>4 DEF Moves

\* No step leaves the two sides waiting for each other.
LEMMA StoreKept ==
  ASSUME TypeOK, Balanced, SurplusInv, NEW f \in Fiber, Moves(f)
  PROVE  StoreTyped /\ Balanced'
<1>1. UNCHANGED <<capacity, strategy>>
  BY ConfigStill DEF config
<1>2. StoreOK /\ takers \in Seq(Fiber) /\ putters \in Seq(Putter) /\ content \in Seq(Value)
  BY Groups, Made
<1>3. CASE Serves(f)
  <2>1. StoreTyped /\ Settled(content', takers', putters')
    BY <1>3 DEF Serves, Done
  <2>2. Settled(content', takers', putters')
    BY <2>1
  <2>3. Balanced'
    BY <2>2, <1>1 DEF Balanced, Settled
  <2> QED BY <2>1, <2>3
<1>4. CASE Rests
  BY <1>1, <1>2, <1>4, StoreStill DEF Rests, Balanced, Settled, store
<1>5. CASE Cleanup(f)
  <2> DEFINE at == {i \in DOMAIN takers : takers[i] # f}
             ap == {i \in DOMAIN putters : putters[i].value.by # f}
  <2>1. takers' = Pick(takers, at) /\ putters' = Pick(putters, ap) /\ UNCHANGED <<content, waiting, got>>
    BY <1>5 DEF Cleanup
  <2>2. at \subseteq DOMAIN takers /\ ap \subseteq DOMAIN putters
    OBVIOUS
  <2> HIDE DEF at, ap
  <2>3. takers' \in Seq(Fiber) /\ Len(takers') <= Len(takers)
    BY <2>1, <2>2, <1>2, PickParts
  <2>4. putters' \in Seq(Putter) /\ Len(putters') <= Len(putters)
    BY <2>1, <2>2, <1>2, PickParts
  <2>5. StoreTyped
    BY <2>1, <2>3, <2>4, <1>2 DEF StoreOK, StoreTyped, waiting
  <2>6. (takers = <<>> => takers' = <<>>) /\ (putters = <<>> => putters' = <<>>)
    <3> HIDE DEF Putter
    <3>1. takers = <<>> => takers' = <<>>
      BY <2>3
    <3>2. putters = <<>> => putters' = <<>>
      BY <2>4
    <3> QED BY <3>1, <3>2
  <2>7. Balanced'
    BY <2>1, <2>6, <1>1 DEF Balanced, Settled
  <2> QED BY <2>5, <2>7
<1>6. CASE Shutdown(f)
  <2>1. takers' = <<>> /\ UNCHANGED <<content, putters, deferred, item, got>>
    BY <1>6 DEF Shutdown, waiting
  <2>2. StoreTyped /\ Balanced'
    BY <2>1, <1>1, <1>2 DEF StoreOK, StoreTyped, Balanced, Settled
  <2> QED BY <2>2
<1>7. CASE ShutdownStrategy(f)
  <2>1. putters' = <<>> /\ UNCHANGED <<content, takers, deferred, item, got>>
    BY <1>7 DEF ShutdownStrategy, waiting
  <2>2. StoreTyped /\ Balanced'
    BY <2>1, <1>1, <1>2 DEF StoreOK, StoreTyped, Balanced, Settled
  <2> QED BY <2>2
<1>8. CASE InterruptWaiter(f)
  <2>1. UNCHANGED <<store, item, got>> /\ \E g : deferred' = [deferred EXCEPT ![g] = IF @ = "pending" THEN "interrupted" ELSE @]
    BY <1>8 DEF InterruptWaiter
  <2>2. deferred' \in [Fiber -> Outcome]
    BY <2>1, <1>2 DEF StoreOK, Outcome
  <2> QED BY <2>1, <2>2, <1>1, <1>2 DEF StoreOK, StoreTyped, Balanced, Settled, store
<1> QED BY <1>3, <1>4, <1>5, <1>6, <1>7, <1>8, StoreSteps

\* A step of a fiber keeps TypeInv.
LEMMA TypeStep ==
  ASSUME TypeInv, NEW f \in Fiber, Moves(f)
  PROVE  TypeInv'
<1>1. TypeOK /\ Balanced /\ SurplusInv /\ LoopInv /\ (Begin(f) \/ Step(f) \/ StopsWaiting(f) \/ StopsBetween(f))
  BY DEF TypeInv, Moves
<1>2. StoreTyped /\ Balanced'
  BY <1>1, StoreKept
<1>3. ModeOK'
  BY <1>1, TypeMode
<1>4. LoopInv' /\ TakeOK'
  BY <1>1, LoopSteps
<1>5. SurplusInv' /\ OfferOK'
  BY <1>1, SurplusSteps
<1>6. TypeOK'
  BY <1>2, <1>3, <1>4, <1>5, GroupsNext
<1> QED BY <1>2, <1>4, <1>5, <1>6 DEF TypeInv

\* So does a step in which nothing happens.
LEMMA TypeStutter == TypeInv /\ UNCHANGED vars => TypeInv'
BY DEF TypeInv, TypeOK, Balanced, Settled, LoopInv, SurplusInv, vars, config, store, closing, waiting, taking

\* It holds of a new queue.
LEMMA TypeInit == Init => TypeInv
<1> SUFFICES ASSUME Init PROVE TypeInv
  OBVIOUS
<1>1. PICK q \in Queues : capacity = q[1] /\ strategy = q[2]
  BY DEF Init
<1>2. <<capacity, strategy>> \in Queues /\ capacity \in Nat \ {0}
  BY <1>1, QueueAssumption
<1>3. content = <<>> /\ takers = <<>> /\ putters = <<>> /\ got = <<>> /\ <<>> \in Seq(Value) /\ <<>> \in Seq(Fiber) /\ <<>> \in Seq(Putter)
  BY DEF Init
<1>4. item \in [Fiber -> Value]
  BY DEF Init, Value
<1>5. fuel \in [Fiber -> Nat] /\ signals \in Nat
  BY QueueAssumption DEF Init
<1>6. TypeOK
  BY <1>2, <1>3, <1>4, <1>5 DEF Init, TypeOK
<1>7. Balanced
  BY <1>2, <1>3 DEF Balanced, Settled
<1>8. LoopInv /\ SurplusInv
  BY DEF Init, LoopInv, SurplusInv
<1> QED BY <1>6, <1>7, <1>8 DEF TypeInv

\* It is an invariant.
LEMMA TypesKept == Spec => []TypeInv
<1>1. TypeInv /\ [Next]_vars => TypeInv'
  BY TypeStep, TypeStutter, NextMoves
<1> QED BY <1>1, TypeInit, PTL DEF Spec

\* Every variable has its type, whatever the fibers, their roles and the queues are.
THEOREM TypeCorrect == Spec => []TypeOK
BY TypesKept, PTL DEF TypeInv

\* takeBetween gives at least min and at most max values, whatever it was asked for and
\* however the values arrive during its loop.
THEOREM TakesBetween == Spec => []TakenBetween
<1>1. TypeInv => TakenBetween
  BY DEF TypeInv, LoopInv, TakenBetween
<1> QED BY <1>1, TypesKept, PTL

----------------------------------------------------------------------------
(* The two loops compute what Settle says.                                 *)

\* How the first values are shared out is settled by the lengths alone.
LEMMA SplitsOnce ==
  ASSUME NEW c \in Seq(Value), NEW t \in Seq(Fiber), NEW p \in Seq(Putter), capacity \in Nat,
         NEW g, NEW k, NEW m, Splits(c, t, p, g, k, m),
         NEW g2, NEW k2, NEW m2, Splits(c, t, p, g2, k2, m2)
  PROVE  g = g2 /\ k = k2 /\ m = m2
<1>1. Len(c) \in Nat /\ Len(t) \in Nat /\ Len(p) \in Nat
  OBVIOUS
<1>2. g = g2
  BY <1>1 DEF Splits
<1>3. k = k2
  BY <1>1, <1>2 DEF Splits
<1> QED BY <1>1, <1>2, <1>3 DEF Splits

\* Settle, of a state in which somebody was admitted already.
Full(s) == [content  |-> Settle(s).content,
            takers   |-> Settle(s).takers,
            putters  |-> Settle(s).putters,
            given    |-> Settle(s).given,
            admitted |-> s.admitted \cup Settle(s).admitted]

\* Where the loops end: the first g takers have got the first values, the next k
\* are in the queue, and m putters have moved in.
Ended(c, t, p, gv, ad, g, k, m) ==
  [content  |-> SubSeq(c \o Values(p), g + 1, g + k),
   takers   |-> From(t, g + 1),
   putters  |-> From(p, m + 1),
   given    |-> gv \o Gifts(t, c \o Values(p), g),
   admitted |-> ad \cup Whole(p, m)]

\* The state of the loops with these fields.
At(c, t, p, gv, ad) == [content |-> c, takers |-> t, putters |-> p, given |-> gv, admitted |-> ad]

\* From states the loops run from, one of these may be made.
Able(c, t, p, gv, ad) ==
  /\ c \in Seq(Value) /\ t \in Seq(Fiber) /\ p \in Seq(Putter) /\ gv \in Seq(Gift) /\ ad \in SUBSET Fiber
  /\ Len(c) <= capacity /\ (p # <<>> => strategy = "backPressure")

\* The states the loops run from, by their fields.
LEMMA AbleIsState ==
  ASSUME NEW c, NEW t, NEW p, NEW gv, NEW ad
  PROVE  At(c, t, p, gv, ad) \in LoopState <=> Able(c, t, p, gv, ad)
<1> HIDE DEF Value, Putter
<1> QED BY DEF At, Able, LoopState, Gift

\* Every one of them is made of its fields.
LEMMA StateIsAble ==
  ASSUME NEW s \in LoopState
  PROVE  s = At(s.content, s.takers, s.putters, s.given, s.admitted)
<1> HIDE DEF Value, Putter
<1> QED BY DEF LoopState, At

\* Full is where the loops end, however the values are shared out.
LEMMA FullEnds ==
  ASSUME NEW c, NEW t, NEW p, NEW gv, NEW ad, Able(c, t, p, gv, ad), capacity \in Nat \ {0},
         NEW g \in Nat, NEW k \in Nat, NEW m \in Nat, Splits(c, t, p, g, k, m)
  PROVE  Full(At(c, t, p, gv, ad)) = Ended(c, t, p, gv, ad, g, k, m)
<1> DEFINE s == At(c, t, p, gv, ad)
<1>1. c \in Seq(Value) /\ t \in Seq(Fiber) /\ p \in Seq(Putter) /\ Len(c) <= capacity
  BY DEF Able
<1>2. Has(s, c, t, p, gv) /\ s.given = gv /\ s.admitted = ad
  BY DEF At, Has
<1> HIDE DEF s
<1>3. PICK g2 \in Nat, k2 \in Nat, m2 \in Nat : SettlesTo(s, c, t, p, g2, k2, m2)
  BY <1>1, <1>2, SettleFields
<1>4. g2 = g /\ k2 = k /\ m2 = m
  <2>1. Splits(c, t, p, g2, k2, m2) /\ capacity \in Nat
    BY <1>3 DEF SettlesTo
  <2> QED BY <2>1, <1>1, SplitsOnce
<1>5. Settle(s) = [content  |-> SubSeq(c \o Values(p), g + 1, g + k),
                   takers   |-> From(t, g + 1),
                   putters  |-> From(p, m + 1),
                   given    |-> gv \o Gifts(t, c \o Values(p), g),
                   admitted |-> Whole(p, m)]
  BY <1>2, <1>3, <1>4 DEF SettlesTo
<1>6. Full(s) = Ended(c, t, p, gv, ad, g, k, m)
  BY <1>2, <1>5 DEF Full, Ended
<1> QED BY <1>6 DEF s

\* There is one way to share out.
LEMMA SplitsExist ==
  ASSUME NEW c, NEW t, NEW p, NEW gv, NEW ad, Able(c, t, p, gv, ad), capacity \in Nat \ {0}
  PROVE  \E g, k, m \in Nat : Splits(c, t, p, g, k, m)
<1> DEFINE s == At(c, t, p, gv, ad)
<1>1. c \in Seq(Value) /\ t \in Seq(Fiber) /\ p \in Seq(Putter) /\ Len(c) <= capacity
  BY DEF Able
<1>2. Has(s, c, t, p, gv)
  BY DEF At, Has
<1> HIDE DEF s
<1>3. \E g, k, m \in Nat : SettlesTo(s, c, t, p, g, k, m)
  BY <1>1, <1>2, SettleFields
<1> QED BY <1>3 DEF SettlesTo

\* The tail of a sequence, by its elements.
LEMMA TailParts ==
  ASSUME NEW S, NEW s \in Seq(S), s # <<>>
  PROVE  /\ Len(s) >= 1 /\ Head(s) = s[1] /\ Head(s) \in S
         /\ Tail(s) \in Seq(S) /\ Len(Tail(s)) = Len(s) - 1
         /\ \A i \in 1..(Len(s) - 1) : Tail(s)[i] = s[i + 1]
OBVIOUS

\* A sequence with one element more.
LEMMA AppendParts ==
  ASSUME NEW S, NEW s \in Seq(S), NEW e \in S
  PROVE  /\ Append(s, e) \in Seq(S) /\ Len(Append(s, e)) = Len(s) + 1
         /\ \A i \in 1..Len(s) : Append(s, e)[i] = s[i]
         /\ Append(s, e)[Len(s) + 1] = e
OBVIOUS

\* An element goes from the head of one sequence to the end of the one before.
LEMMA HeadPasses ==
  ASSUME NEW S, NEW x \in Seq(S), NEW z \in Seq(S), z # <<>>
  PROVE  Append(x, Head(z)) \o Tail(z) = x \o z
<1> DEFINE e == Head(z)  y == Tail(z)  a == Append(x, e)  u == a \o y  v == x \o z
<1>1. Len(z) >= 1 /\ e = z[1] /\ e \in S /\ y \in Seq(S) /\ Len(y) = Len(z) - 1
  BY TailParts
<1>2. \A i \in 1..(Len(z) - 1) : y[i] = z[i + 1]
  BY TailParts
<1> HIDE DEF e, y
<1>3. a \in Seq(S) /\ Len(a) = Len(x) + 1
  BY <1>1, AppendParts
<1>4. (\A i \in 1..Len(x) : a[i] = x[i]) /\ a[Len(x) + 1] = e
  BY <1>1, AppendParts
<1> HIDE DEF a
<1>5. u \in Seq(S) /\ Len(u) = Len(a) + Len(y)
  BY <1>1, <1>3, ConcatParts
<1>6. \A i \in 1..Len(a) : u[i] = a[i]
  BY <1>1, <1>3, ConcatParts
<1>7. \A i \in 1..Len(y) : u[Len(a) + i] = y[i]
  BY <1>1, <1>3, ConcatParts
<1>8. v \in Seq(S) /\ Len(v) = Len(x) + Len(z)
  BY ConcatParts
<1>9. \A i \in 1..Len(x) : v[i] = x[i]
  BY ConcatParts
<1>10. \A i \in 1..Len(z) : v[Len(x) + i] = z[i]
  BY ConcatParts
<1> HIDE DEF u, v
<1>11. Len(x) \in Nat /\ Len(z) \in Nat
  OBVIOUS
<1>12. \A i \in 1..Len(u) : u[i] = v[i]
  <2> TAKE i \in 1..Len(u)
  <2>1. CASE i <= Len(x)
    BY <2>1, <1>3, <1>4, <1>6, <1>9, <1>11
  <2>2. CASE i = Len(x) + 1
    <3>1. 1 \in 1..Len(z) /\ i \in 1..Len(a)
      BY <2>2, <1>1, <1>3, <1>11
    <3>2. v[Len(x) + 1] = z[1]
      BY <3>1, <1>10
    <3> QED BY <2>2, <3>1, <3>2, <1>1, <1>4, <1>6
  <2>3. CASE i > Len(x) + 1
    <3> DEFINE j == i - (Len(x) + 1)
    <3>1. j \in 1..Len(y) /\ i = Len(a) + j /\ j + 1 \in 1..Len(z) /\ i = Len(x) + (j + 1) /\ j \in 1..(Len(z) - 1)
      BY <2>3, <1>1, <1>3, <1>5, <1>11
    <3> HIDE DEF j
    <3>2. u[Len(a) + j] = y[j] /\ y[j] = z[j + 1] /\ v[Len(x) + (j + 1)] = z[j + 1]
      BY <3>1, <1>2, <1>7, <1>10
    <3> QED BY <3>1, <3>2
  <2> QED BY <2>1, <2>2, <2>3, <1>11
<1>13. Len(u) = Len(v)
  BY <1>1, <1>3, <1>5, <1>8, <1>11
<1>14. u = v
  BY <1>5, <1>8, <1>12, <1>13, SameSeq
<1> QED BY <1>14 DEF u, v, a, e, y

\* The rest of a tail.
LEMMA TailFrom ==
  ASSUME NEW S, NEW s \in Seq(S), s # <<>>, NEW n \in Nat \ {0}, n <= Len(s)
  PROVE  From(Tail(s), (n - 1) + 1) = From(s, n + 1)
<1> DEFINE a == n - 1  u == Tail(s)  v == From(u, a + 1)  w == From(s, n + 1)
<1>1. u \in Seq(S) /\ Len(u) = Len(s) - 1 /\ \A i \in 1..(Len(s) - 1) : u[i] = s[i + 1]
  BY TailParts
<1> HIDE DEF u
<1>0. n - 1 \in Nat /\ n - 1 <= Len(u) /\ Len(s) \in Nat /\ n \in Nat
  BY <1>1
<1>10. a \in Nat /\ a <= Len(u) /\ u \in Seq(S)
  BY <1>0, <1>1
<1> HIDE DEF a
<1>2. v \in Seq(S) /\ Len(v) = Len(u) - a
  BY <1>10, FromParts
<1>3. \A i \in 1..(Len(u) - a) : v[i] = u[a + i]
  BY <1>10, FromParts
<1> USE DEF a
<1>4. w \in Seq(S) /\ Len(w) = Len(s) - n
  BY <1>0, FromParts
<1>5. \A i \in 1..(Len(s) - n) : w[i] = s[n + i]
  BY <1>0, FromParts
<1> HIDE DEF v, w
<1>6. Len(v) = Len(w)
  BY <1>0, <1>1, <1>2, <1>4
<1>7. \A i \in 1..Len(v) : v[i] = w[i]
  <2> TAKE i \in 1..Len(v)
  <2>1. i \in 1..(Len(u) - (n - 1)) /\ (n - 1) + i \in 1..(Len(s) - 1) /\ i \in 1..(Len(s) - n) /\ ((n - 1) + i) + 1 = n + i
    BY <1>0, <1>1, <1>2
  <2> QED BY <2>1, <1>1, <1>3, <1>5
<1>8. v = w
  BY <1>2, <1>4, <1>6, <1>7, SameSeq
<1> QED BY <1>8 DEF a, u, v, w

\* A part of a tail.
LEMMA TailSub ==
  ASSUME NEW S, NEW s \in Seq(S), s # <<>>, NEW n \in Nat \ {0}, NEW k \in Nat, n + k <= Len(s)
  PROVE  SubSeq(Tail(s), (n - 1) + 1, (n - 1) + k) = SubSeq(s, n + 1, n + k)
<1> DEFINE u == Tail(s)  v == SubSeq(u, (n - 1) + 1, (n - 1) + k)  w == SubSeq(s, n + 1, n + k)
<1>1. u \in Seq(S) /\ Len(u) = Len(s) - 1 /\ \A i \in 1..(Len(s) - 1) : u[i] = s[i + 1]
  BY TailParts
<1> HIDE DEF u
<1>0. /\ (n - 1) + 1 \in Nat \ {0} /\ (n - 1) + k \in Nat /\ (n - 1) + 1 <= ((n - 1) + k) + 1 /\ (n - 1) + k <= Len(u)
      /\ n + 1 \in Nat \ {0} /\ n + k \in Nat /\ n + 1 <= (n + k) + 1 /\ n + k <= Len(s) /\ Len(s) \in Nat /\ n \in Nat
      /\ (((n - 1) + k) + 1) - ((n - 1) + 1) = k /\ ((n + k) + 1) - (n + 1) = k
  BY <1>1
<1>2. v \in Seq(S) /\ Len(v) = k
  BY <1>0, <1>1, SubSeqParts
<1>3. \A i \in 1..k : v[i] = u[((n - 1) + 1) + i - 1]
  BY <1>0, <1>1, SubSeqParts
<1>4. w \in Seq(S) /\ Len(w) = k
  BY <1>0, SubSeqParts
<1>5. \A i \in 1..k : w[i] = s[(n + 1) + i - 1]
  BY <1>0, SubSeqParts
<1> HIDE DEF v, w
<1>7. \A i \in 1..Len(v) : v[i] = w[i]
  <2> TAKE i \in 1..Len(v)
  <2>1. i \in 1..k /\ ((n - 1) + 1) + i - 1 \in 1..(Len(s) - 1) /\ (((n - 1) + 1) + i - 1) + 1 = (n + 1) + i - 1
    BY <1>0, <1>1, <1>2
  <2> QED BY <2>1, <1>1, <1>3, <1>5
<1>8. v = w
  BY <1>2, <1>4, <1>7, SameSeq
<1> QED BY <1>8 DEF u, v, w

\* The tail of two sequences after one another.
LEMMA TailConcat ==
  ASSUME NEW S, NEW x \in Seq(S), NEW y \in Seq(S), x # <<>>
  PROVE  Tail(x) \o y = Tail(x \o y) /\ x \o y # <<>> /\ Head(x \o y) = Head(x)
<1> DEFINE u == Tail(x)  a == u \o y  z == x \o y  b == Tail(z)
<1>1. u \in Seq(S) /\ Len(u) = Len(x) - 1 /\ \A i \in 1..(Len(x) - 1) : u[i] = x[i + 1]
  BY TailParts
<1>0. Len(x) >= 1 /\ Len(x) \in Nat /\ Len(y) \in Nat /\ Head(x) = x[1]
  OBVIOUS
<1> HIDE DEF u
<1>2. a \in Seq(S) /\ Len(a) = Len(u) + Len(y)
  BY <1>1, ConcatParts
<1>3. \A i \in 1..Len(u) : a[i] = u[i]
  BY <1>1, ConcatParts
<1>4. \A i \in 1..Len(y) : a[Len(u) + i] = y[i]
  BY <1>1, ConcatParts
<1>5. z \in Seq(S) /\ Len(z) = Len(x) + Len(y)
  BY ConcatParts
<1>6. \A i \in 1..Len(x) : z[i] = x[i]
  BY ConcatParts
<1>7. \A i \in 1..Len(y) : z[Len(x) + i] = y[i]
  BY ConcatParts
<1> HIDE DEF a, z
<1>8. z # <<>> /\ Head(z) = z[1] /\ z[1] = x[1]
  BY <1>0, <1>5, <1>6
<1>9. b \in Seq(S) /\ Len(b) = Len(z) - 1
  BY <1>5, <1>8, TailParts
<1>10. \A i \in 1..(Len(z) - 1) : b[i] = z[i + 1]
  BY <1>5, <1>8, TailParts
<1> HIDE DEF b
<1>11. \A i \in 1..Len(a) : a[i] = b[i]
  <2> TAKE i \in 1..Len(a)
  <2>1. CASE i <= Len(u)
    <3>1. i \in 1..Len(u) /\ i \in 1..(Len(x) - 1) /\ i + 1 \in 1..Len(x) /\ i \in 1..(Len(z) - 1)
      BY <2>1, <1>0, <1>1, <1>2, <1>5
    <3>2. a[i] = u[i] /\ u[i] = x[i + 1] /\ z[i + 1] = x[i + 1] /\ b[i] = z[i + 1]
      BY <3>1, <1>1, <1>3, <1>6, <1>10
    <3> QED BY <3>2
  <2>2. CASE i > Len(u)
    <3> DEFINE j == i - Len(u)
    <3>1. j \in 1..Len(y) /\ i = Len(u) + j /\ i + 1 = Len(x) + j /\ i \in 1..(Len(z) - 1)
      BY <2>2, <1>0, <1>1, <1>2, <1>5
    <3> HIDE DEF j
    <3>2. a[Len(u) + j] = y[j] /\ z[Len(x) + j] = y[j]
      BY <3>1, <1>4, <1>7
    <3>3. b[i] = z[Len(x) + j]
      BY <3>1, <1>10
    <3> QED BY <3>1, <3>2, <3>3
  <2> QED BY <2>1, <2>2, <1>0, <1>1
<1>12. Len(a) = Len(b)
  BY <1>0, <1>1, <1>2, <1>5, <1>9
<1>13. a = b
  BY <1>2, <1>9, <1>11, <1>12, SameSeq
<1> QED BY <1>8, <1>13, <1>0 DEF u, a, b, z

\* The values of the putters after the first.
LEMMA TailValues ==
  ASSUME NEW p \in Seq(Putter), p # <<>>
  PROVE  /\ Values(Tail(p)) = Tail(Values(p)) /\ Values(p) # <<>>
         /\ Head(Values(p)) = Head(p).value /\ Head(p).value \in Value
<1> DEFINE q == Tail(p)  u == Values(q)  w == Values(p)  v == Tail(w)
<1>1. q \in Seq(Putter) /\ Len(q) = Len(p) - 1
  BY TailParts
<1>2. \A i \in 1..(Len(p) - 1) : q[i] = p[i + 1]
  BY TailParts
<1>3. Len(p) >= 1 /\ Head(p) = p[1] /\ Head(p) \in Putter
  BY TailParts
<1> HIDE DEF q
<1>4. u \in Seq(Value) /\ Len(u) = Len(q) /\ \A i \in 1..Len(q) : u[i] = q[i].value
  BY <1>1, ValuesParts
<1>5. w \in Seq(Value) /\ Len(w) = Len(p) /\ \A i \in 1..Len(p) : w[i] = p[i].value
  BY ValuesParts
<1> HIDE DEF u, w, Value
<1>6. w # <<>> /\ Head(w) = w[1] /\ w[1] = p[1].value
  BY <1>3, <1>5
<1>7. v \in Seq(Value) /\ Len(v) = Len(w) - 1
  BY <1>5, <1>6, TailParts
<1>8. \A i \in 1..(Len(w) - 1) : v[i] = w[i + 1]
  BY <1>5, <1>6, TailParts
<1> HIDE DEF v
<1>9. \A i \in 1..Len(u) : u[i] = v[i]
  BY <1>1, <1>2, <1>4, <1>5, <1>8
<1>10. Len(u) = Len(v)
  BY <1>1, <1>4, <1>5, <1>7
<1>11. u = v
  BY <1>4, <1>7, <1>9, <1>10, SameSeq
<1>12. Head(p).value \in Value
  BY <1>3, PutterParts
<1> QED BY <1>3, <1>6, <1>11, <1>12 DEF u, v, w, q

\* The gifts after the first.
LEMMA TailGifts ==
  ASSUME NEW t \in Seq(Fiber), t # <<>>, NEW vs \in Seq(Value), vs # <<>>,
         NEW g \in Nat \ {0}, g <= Len(t), g <= Len(vs)
  PROVE  /\ Gifts(Tail(t), Tail(vs), g - 1) = Tail(Gifts(t, vs, g)) /\ Gifts(t, vs, g) # <<>>
         /\ Head(Gifts(t, vs, g)) = [to |-> Head(t), value |-> Head(vs)]
         /\ Gifts(t, vs, g) \in Seq(Gift)
<1> HIDE DEF Value
<1> DEFINE u == Gifts(Tail(t), Tail(vs), g - 1)  w == Gifts(t, vs, g)  v == Tail(w)
<1>1. Tail(t) \in Seq(Fiber) /\ Len(Tail(t)) = Len(t) - 1 /\ \A i \in 1..(Len(t) - 1) : Tail(t)[i] = t[i + 1]
  BY TailParts
<1>2. Tail(vs) \in Seq(Value) /\ Len(Tail(vs)) = Len(vs) - 1
  BY TailParts
<1>3. \A i \in 1..(Len(vs) - 1) : Tail(vs)[i] = vs[i + 1]
  BY TailParts
<1>4. Head(t) = t[1] /\ Head(vs) = vs[1] /\ Len(t) \in Nat /\ Len(vs) \in Nat /\ g - 1 \in Nat /\ g \in Nat
  OBVIOUS
<1>5. u \in Seq(Gift) /\ Len(u) = g - 1
  <2>1. g - 1 \in Nat /\ g - 1 <= Len(Tail(t)) /\ g - 1 <= Len(Tail(vs))
    BY <1>1, <1>2, <1>4
  <2>2. Tail(t) \in Seq(Fiber) /\ Tail(vs) \in Seq(Value)
    BY <1>1, <1>2
  <2> DEFINE tt == Tail(t)  tv == Tail(vs)  n == g - 1
  <2> HIDE DEF tt, tv, n
  <2>3. Gifts(tt, tv, n) \in Seq(Gift) /\ Len(Gifts(tt, tv, n)) = n
    BY <2>1, <2>2, GiftsParts DEF tt, tv, n
  <2> QED BY <2>3 DEF tt, tv, n
<1>6. \A i \in 1..(g - 1) : u[i] = [to |-> Tail(t)[i], value |-> Tail(vs)[i]]
  BY DEF Gifts
<1>7. w \in Seq(Gift) /\ Len(w) = g
  BY GiftsParts
<1>8. \A i \in 1..g : w[i] = [to |-> t[i], value |-> vs[i]]
  BY DEF Gifts
<1> HIDE DEF u, w
<1>9. w # <<>> /\ Head(w) = w[1] /\ w[1] = [to |-> t[1], value |-> vs[1]]
  BY <1>4, <1>7, <1>8
<1>10. v \in Seq(Gift) /\ Len(v) = g - 1
  BY <1>4, <1>7, <1>9, TailParts
<1>11. \A i \in 1..(Len(w) - 1) : v[i] = w[i + 1]
  BY <1>7, <1>9, TailParts
<1> HIDE DEF v
<1>12. \A i \in 1..Len(u) : u[i] = v[i]
  <2> TAKE i \in 1..Len(u)
  <2>1. i \in 1..(g - 1) /\ i \in 1..(Len(t) - 1) /\ i \in 1..(Len(vs) - 1) /\ i \in 1..(Len(w) - 1) /\ i + 1 \in 1..g
    BY <1>4, <1>5, <1>7
  <2>2. Tail(t)[i] = t[i + 1] /\ Tail(vs)[i] = vs[i + 1] /\ v[i] = w[i + 1]
    BY <2>1, <1>1, <1>3, <1>11
  <2>3. u[i] = [to |-> Tail(t)[i], value |-> Tail(vs)[i]] /\ w[i + 1] = [to |-> t[i + 1], value |-> vs[i + 1]]
    BY <2>1, <1>6, <1>8
  <2> QED BY <2>2, <2>3
<1>13. u = v
  BY <1>5, <1>10, <1>12, SameSeq
<1> QED BY <1>4, <1>7, <1>9, <1>13 DEF u, v, w

\* Whom the putters after the first admit.
LEMMA TailWhole ==
  ASSUME NEW p \in Seq(Putter), p # <<>>, NEW m \in Nat \ {0}, m <= Len(p)
  PROVE  Whole(p, m) = (IF Head(p).last THEN {Head(p).value.by} ELSE {}) \cup Whole(Tail(p), m - 1)
<1> HIDE DEF Putter
<1> DEFINE q == Tail(p)
<1>1. Len(p) \in Nat /\ m \in Nat /\ Head(p) = p[1]
  OBVIOUS
<1>2. \A i \in 1..(Len(p) - 1) : q[i] = p[i + 1]
  BY TailParts
<1> HIDE DEF q
<1>3. \A h : h \in Whole(p, m) <=> \E i \in 1..m : p[i].last /\ p[i].value.by = h
  BY DEF Whole
<1>4. \A h : h \in Whole(q, m - 1) <=> \E i \in 1..(m - 1) : q[i].last /\ q[i].value.by = h
  BY DEF Whole
<1>5. ASSUME NEW h, h \in Whole(p, m)
      PROVE  (p[1].last /\ h = p[1].value.by) \/ h \in Whole(q, m - 1)
  <2>1. PICK i \in 1..m : p[i].last /\ p[i].value.by = h
    BY <1>3, <1>5
  <2>2. CASE i = 1
    BY <2>1, <2>2
  <2>3. CASE i # 1
    <3>1. i - 1 \in 1..(m - 1) /\ i - 1 \in 1..(Len(p) - 1) /\ (i - 1) + 1 = i
      BY <2>3, <1>1
    <3>2. q[i - 1] = p[i]
      BY <3>1, <1>2
    <3> QED BY <2>1, <3>1, <3>2, <1>4
  <2> QED BY <2>2, <2>3
<1>6. ASSUME NEW h, h \in Whole(q, m - 1) PROVE h \in Whole(p, m)
  <2>1. PICK i \in 1..(m - 1) : q[i].last /\ q[i].value.by = h
    BY <1>4, <1>6
  <2>2. i \in 1..(Len(p) - 1) /\ i + 1 \in 1..m
    BY <1>1
  <2>3. q[i] = p[i + 1]
    BY <2>2, <1>2
  <2> QED BY <2>1, <2>2, <2>3, <1>3
<1>7. ASSUME p[1].last PROVE p[1].value.by \in Whole(p, m)
  BY <1>1, <1>3, <1>7
<1> HIDE DEF Whole
<1>8. Whole(p, m) = (IF p[1].last THEN {p[1].value.by} ELSE {}) \cup Whole(q, m - 1)
  BY <1>5, <1>6, <1>7
<1> QED BY <1>1, <1>8 DEF q

\* A taker is completed with the head of the queue: the loops end as before.
LEMMA GiveFull ==
  ASSUME NEW c, NEW t, NEW p, NEW gv, NEW ad, Able(c, t, p, gv, ad), capacity \in Nat \ {0},
         c # <<>>, t # <<>>
  PROVE  LET gv2 == Append(gv, [to |-> Head(t), value |-> Head(c)])
         IN /\ Give(At(c, t, p, gv, ad)) = At(Tail(c), Tail(t), p, gv2, ad)
            /\ Able(Tail(c), Tail(t), p, gv2, ad)
            /\ Full(At(Tail(c), Tail(t), p, gv2, ad)) = Full(At(c, t, p, gv, ad))
            /\ Len(Tail(c)) < capacity /\ Len(Tail(t)) = Len(t) - 1
<1> HIDE DEF Value, Putter, Gift
<1> DEFINE one == [to |-> Head(t), value |-> Head(c)]
           gv2 == Append(gv, one)
           vp  == Values(p)
           all == c \o vp
<1>1. /\ c \in Seq(Value) /\ t \in Seq(Fiber) /\ p \in Seq(Putter) /\ gv \in Seq(Gift) /\ ad \in SUBSET Fiber
      /\ Len(c) <= capacity /\ (p # <<>> => strategy = "backPressure")
  BY DEF Able
<1>2. Head(c) \in Value /\ Head(t) \in Fiber /\ Tail(c) \in Seq(Value) /\ Tail(t) \in Seq(Fiber)
  BY <1>1, TailParts
<1>3. Len(Tail(c)) = Len(c) - 1 /\ Len(Tail(t)) = Len(t) - 1 /\ Len(c) >= 1 /\ Len(t) >= 1
  BY <1>1, TailParts
<1>4. one \in Gift
  BY <1>2, GiftParts
<1>5. gv2 \in Seq(Gift)
  <2> HIDE DEF one
  <2> QED BY <1>1, <1>4
<1>6. Give(At(c, t, p, gv, ad)) = At(Tail(c), Tail(t), p, gv2, ad)
  BY DEF Give, At
<1>7. Able(Tail(c), Tail(t), p, gv2, ad)
  <2> HIDE DEF gv2
  <2>1. Len(Tail(c)) <= capacity
    BY <1>1, <1>3
  <2> QED BY <1>1, <1>2, <1>5, <2>1 DEF Able
<1>8. PICK g \in Nat, k \in Nat, m \in Nat : Splits(c, t, p, g, k, m)
  BY SplitsExist
<1>9. /\ g \in Nat \ {0} /\ Splits(Tail(c), Tail(t), p, g - 1, k, m) /\ g - 1 \in Nat
      /\ g <= Len(t) /\ g + k <= Len(c) + Len(p)
  <2>1. Len(p) \in Nat /\ Len(c) \in Nat /\ Len(t) \in Nat /\ capacity \in Nat
    BY <1>1
  <2>2. g \in Nat \ {0}
    BY <1>3, <1>8, <2>1 DEF Splits
  <2> QED BY <1>3, <1>8, <2>1, <2>2 DEF Splits
<1>10. vp \in Seq(Value) /\ Len(vp) = Len(p)
  BY <1>1, ValuesParts
<1> HIDE DEF vp
<1>11. all \in Seq(Value) /\ Len(all) = Len(c) + Len(p)
  <2>1. c \in Seq(Value)
    BY <1>1
  <2>2. all \in Seq(Value) /\ Len(all) = Len(c) + Len(vp)
    BY <2>1, <1>10, ConcatParts
  <2> QED BY <1>10, <2>2
<1>12. Tail(c) \o vp = Tail(all) /\ all # <<>> /\ Head(all) = Head(c)
  BY <1>1, <1>10, TailConcat
<1> HIDE DEF all
<1>13. SubSeq(Tail(all), (g - 1) + 1, (g - 1) + k) = SubSeq(all, g + 1, g + k)
  BY <1>9, <1>11, <1>12, TailSub
<1>14. From(Tail(t), (g - 1) + 1) = From(t, g + 1)
  BY <1>1, <1>9, TailFrom
<1>15. gv2 \o Gifts(Tail(t), Tail(all), g - 1) = gv \o Gifts(t, all, g)
  <2> DEFINE z == Gifts(t, all, g)
  <2>1. g <= Len(all)
    BY <1>9, <1>11
  <2>2. Gifts(Tail(t), Tail(all), g - 1) = Tail(z) /\ z # <<>> /\ Head(z) = [to |-> Head(t), value |-> Head(all)] /\ z \in Seq(Gift)
    BY <1>1, <1>9, <1>11, <1>12, <2>1, TailGifts
  <2> HIDE DEF z
  <2>3. Append(gv, Head(z)) \o Tail(z) = gv \o z
    BY <1>1, <2>2, HeadPasses
  <2>4. Head(z) = one
    BY <1>12, <2>2
  <2>5. gv2 \o Gifts(Tail(t), Tail(all), g - 1) = gv \o z
    <3> HIDE DEF one
    <3> QED BY <2>2, <2>3, <2>4
  <2> QED BY <2>5 DEF z
<1> HIDE DEF gv2
<1>16. Ended(Tail(c), Tail(t), p, gv2, ad, g - 1, k, m) = Ended(c, t, p, gv, ad, g, k, m)
  <2>1. Ended(Tail(c), Tail(t), p, gv2, ad, g - 1, k, m) =
          [content  |-> SubSeq(Tail(all), (g - 1) + 1, (g - 1) + k),
           takers   |-> From(Tail(t), (g - 1) + 1),
           putters  |-> From(p, m + 1),
           given    |-> gv2 \o Gifts(Tail(t), Tail(all), g - 1),
           admitted |-> ad \cup Whole(p, m)]
    BY <1>12 DEF Ended, vp
  <2>2. Ended(c, t, p, gv, ad, g, k, m) =
          [content  |-> SubSeq(all, g + 1, g + k),
           takers   |-> From(t, g + 1),
           putters  |-> From(p, m + 1),
           given    |-> gv \o Gifts(t, all, g),
           admitted |-> ad \cup Whole(p, m)]
    BY DEF Ended, vp, all
  <2> QED BY <2>1, <2>2, <1>13, <1>14, <1>15
<1>17. Full(At(Tail(c), Tail(t), p, gv2, ad)) = Ended(Tail(c), Tail(t), p, gv2, ad, g - 1, k, m)
  BY <1>7, <1>8, <1>9, FullEnds
<1>18. Full(At(c, t, p, gv, ad)) = Ended(c, t, p, gv, ad, g, k, m)
  BY <1>8, FullEnds
<1>19. Len(Tail(c)) < capacity
  BY <1>1, <1>3
<1> QED BY <1>3, <1>6, <1>7, <1>16, <1>17, <1>18, <1>19 DEF gv2

\* A putter's value moves in: the loops end as before.
LEMMA MoveFull ==
  ASSUME NEW c, NEW t, NEW p, NEW gv, NEW ad, Able(c, t, p, gv, ad), capacity \in Nat \ {0},
         p # <<>>, Len(c) < capacity
  PROVE  LET c2  == Append(c, Head(p).value)
             ad2 == IF Head(p).last THEN ad \cup {Head(p).value.by} ELSE ad
         IN /\ Move(At(c, t, p, gv, ad)) = At(c2, t, Tail(p), gv, ad2)
            /\ Able(c2, t, Tail(p), gv, ad2)
            /\ Full(At(c2, t, Tail(p), gv, ad2)) = Full(At(c, t, p, gv, ad))
            /\ c2 # <<>> /\ Len(Tail(p)) = Len(p) - 1
<1> HIDE DEF Value, Putter, Gift
<1> DEFINE c2  == Append(c, Head(p).value)
           ad2 == IF Head(p).last THEN ad \cup {Head(p).value.by} ELSE ad
           vp  == Values(p)
           vq  == Values(Tail(p))
           all == c \o vp
<1>1. /\ c \in Seq(Value) /\ t \in Seq(Fiber) /\ p \in Seq(Putter) /\ gv \in Seq(Gift) /\ ad \in SUBSET Fiber
      /\ Len(c) <= capacity /\ (p # <<>> => strategy = "backPressure")
  BY DEF Able
<1>2. Head(p) \in Putter /\ Tail(p) \in Seq(Putter) /\ Len(Tail(p)) = Len(p) - 1 /\ Len(p) >= 1
  BY <1>1, TailParts
<1>3. Head(p).value \in Value /\ Head(p).value.by \in Fiber
  BY <1>2, PutterParts
<1>4. c2 \in Seq(Value) /\ Len(c2) = Len(c) + 1 /\ c2 # <<>>
  <2> DEFINE v == Head(p).value
  <2>1. v \in Value /\ c \in Seq(Value) /\ Len(c) \in Nat
    BY <1>1, <1>3
  <2> HIDE DEF v
  <2>2. Append(c, v) \in Seq(Value) /\ Len(Append(c, v)) = Len(c) + 1
    BY <2>1, AppendParts
  <2>3. Append(c, v) # <<>>
    BY <2>1, <2>2
  <2> QED BY <2>2, <2>3 DEF v
<1>5. ad2 \in SUBSET Fiber
  BY <1>1, <1>3
<1>6. Move(At(c, t, p, gv, ad)) = At(c2, t, Tail(p), gv, ad2)
  BY DEF Move, At
<1>7. Able(c2, t, Tail(p), gv, ad2)
  <2> HIDE DEF c2, ad2
  <2>1. Len(c2) <= capacity
    BY <1>1, <1>4
  <2>2. strategy = "backPressure"
    BY <1>1
  <2> QED BY <1>1, <1>2, <1>4, <1>5, <2>1, <2>2 DEF Able
<1>8. PICK g \in Nat, k \in Nat, m \in Nat : Splits(c, t, p, g, k, m)
  BY SplitsExist
<1>9. m \in Nat \ {0} /\ m - 1 \in Nat /\ m <= Len(p) /\ Splits(c2, t, Tail(p), g, k, m - 1)
  <2> HIDE DEF c2
  <2>1. Len(p) \in Nat /\ Len(c) \in Nat /\ Len(t) \in Nat /\ capacity \in Nat
    BY <1>1
  <2>3. Len(p) >= 1 /\ Len(Tail(p)) = Len(p) - 1
    BY <1>2
  <2>4. Len(c2) = Len(c) + 1
    BY <1>4
  <2> DEFINE lp == Len(p)  lc == Len(c)  lt == Len(t)  lq == Len(Tail(p))  lc2 == Len(c2)
  <2>5. /\ g <= lt /\ k <= capacity /\ m <= lp /\ g + k = lc + m
        /\ (g < lt => g = lc + lp) /\ (k < capacity => m = lp)
    BY <1>8 DEF Splits
  <2>6. lp \in Nat /\ lc \in Nat /\ lt \in Nat /\ lp >= 1 /\ lq = lp - 1 /\ lc2 = lc + 1 /\ lc < capacity /\ capacity \in Nat
    BY <2>1, <2>3, <2>4
  <2> HIDE DEF lp, lc, lt, lq, lc2
  <2>2. m \in Nat \ {0}
    BY <2>5, <2>6
  <2>7. /\ m \in Nat \ {0} /\ m - 1 \in Nat /\ m <= lp /\ m - 1 <= lq
        /\ g + k = lc2 + (m - 1)
        /\ (g < lt => g = lc2 + lq) /\ (k < capacity => m - 1 = lq)
    BY <2>2, <2>5, <2>6
  <2> QED BY <2>5, <2>7 DEF Splits, lp, lc, lt, lq, lc2
<1>10. vp \in Seq(Value) /\ vq = Tail(vp) /\ vp # <<>> /\ Head(vp) = Head(p).value
  <2>1. vp \in Seq(Value)
    BY <1>1, ValuesParts
  <2> QED BY <1>1, <2>1, TailValues
<1> HIDE DEF vp, vq
<1>11. c2 \o vq = all
  <2>1. Append(c, Head(vp)) \o Tail(vp) = c \o vp
    BY <1>1, <1>10, HeadPasses
  <2> QED BY <1>10, <2>1
<1> HIDE DEF all, c2
<1>12. From(Tail(p), (m - 1) + 1) = From(p, m + 1)
  BY <1>1, <1>9, TailFrom
<1>13. ad2 \cup Whole(Tail(p), m - 1) = ad \cup Whole(p, m)
  BY <1>1, <1>9, TailWhole
<1> HIDE DEF ad2
<1>14. Ended(c2, t, Tail(p), gv, ad2, g, k, m - 1) = Ended(c, t, p, gv, ad, g, k, m)
  <2>1. Ended(c2, t, Tail(p), gv, ad2, g, k, m - 1) =
          [content  |-> SubSeq(all, g + 1, g + k),
           takers   |-> From(t, g + 1),
           putters  |-> From(Tail(p), (m - 1) + 1),
           given    |-> gv \o Gifts(t, all, g),
           admitted |-> ad2 \cup Whole(Tail(p), m - 1)]
    BY <1>11 DEF Ended, vq
  <2>2. Ended(c, t, p, gv, ad, g, k, m) =
          [content  |-> SubSeq(all, g + 1, g + k),
           takers   |-> From(t, g + 1),
           putters  |-> From(p, m + 1),
           given    |-> gv \o Gifts(t, all, g),
           admitted |-> ad \cup Whole(p, m)]
    BY DEF Ended, vp, all
  <2> QED BY <2>1, <2>2, <1>12, <1>13
<1>15. Full(At(c2, t, Tail(p), gv, ad2)) = Ended(c2, t, Tail(p), gv, ad2, g, k, m - 1)
  BY <1>7, <1>8, <1>9, FullEnds
<1>16. Full(At(c, t, p, gv, ad)) = Ended(c, t, p, gv, ad, g, k, m)
  BY <1>8, FullEnds
<1> QED BY <1>2, <1>4, <1>6, <1>7, <1>14, <1>15, <1>16 DEF c2, ad2

\* Nobody is left whom a value could be handed to, and no value that could move in.
Quiet(c, t, p) == /\ t = <<>> \/ (c = <<>> /\ p = <<>>)
                  /\ p = <<>> \/ Len(c) = capacity

\* From a quiet state the loops change nothing.
LEMMA QuietFull ==
  ASSUME NEW c, NEW t, NEW p, NEW gv, NEW ad, Able(c, t, p, gv, ad), capacity \in Nat \ {0}, Quiet(c, t, p)
  PROVE  Full(At(c, t, p, gv, ad)) = At(c, t, p, gv, ad)
<1> HIDE DEF Value, Putter, Gift
<1> DEFINE vp == Values(p)  all == c \o vp
<1>1. /\ c \in Seq(Value) /\ t \in Seq(Fiber) /\ p \in Seq(Putter) /\ gv \in Seq(Gift) /\ ad \in SUBSET Fiber
      /\ Len(c) <= capacity
  BY DEF Able
<1>2. Splits(c, t, p, 0, Len(c), 0) /\ Len(c) \in Nat
  BY <1>1 DEF Splits, Quiet
<1>3. Full(At(c, t, p, gv, ad)) = Ended(c, t, p, gv, ad, 0, Len(c), 0)
  BY <1>2, FullEnds
<1>4. vp \in Seq(Value)
  BY <1>1, ValuesParts
<1> HIDE DEF vp
<1>5. SubSeq(all, 0 + 1, 0 + Len(c)) = c
  <2> DEFINE n == Len(c)
  <2>1. all \in Seq(Value) /\ Len(all) = n + Len(vp) /\ n \in Nat
    BY <1>1, <1>4, ConcatParts
  <2>2. \A i \in 1..n : all[i] = c[i]
    BY <1>1, <1>4, ConcatParts
  <2> HIDE DEF all
  <2>3. SubSeq(all, 1, n) \in Seq(Value) /\ Len(SubSeq(all, 1, n)) = n /\ \A i \in 1..n : SubSeq(all, 1, n)[i] = all[i]
    <3>1. n <= Len(all)
      BY <1>4, <2>1
    <3> HIDE DEF n
    <3> QED BY <2>1, <3>1
  <2>4. SubSeq(all, 1, n) = c
    BY <1>1, <2>2, <2>3, SameSeq
  <2> QED BY <2>4
<1>6. From(t, 0 + 1) = t /\ From(p, 0 + 1) = p
  BY <1>1 DEF From
<1>7. Gifts(t, all, 0) = <<>> /\ Whole(p, 0) = {}
  BY DEF Gifts, Whole
<1>8. gv \o <<>> = gv
  BY <1>1
<1> HIDE DEF all
<1>9. Ended(c, t, p, gv, ad, 0, Len(c), 0) = At(c, t, p, gv, ad)
  BY <1>5, <1>6, <1>7, <1>8 DEF Ended, At, all, vp
<1> QED BY <1>3, <1>9

\* The loops end in a quiet state.
LEMMA FullQuiet ==
  ASSUME NEW c, NEW t, NEW p, NEW gv, NEW ad, Able(c, t, p, gv, ad), capacity \in Nat \ {0}
  PROVE  \E c2, t2, p2, gv2, ad2 :
           /\ Full(At(c, t, p, gv, ad)) = At(c2, t2, p2, gv2, ad2)
           /\ Able(c2, t2, p2, gv2, ad2) /\ Quiet(c2, t2, p2)
           /\ Len(t2) <= Len(t) /\ Len(p2) <= Len(p)
<1> HIDE DEF Value, Putter, Gift
<1> DEFINE vp == Values(p)  all == c \o vp
<1>1. /\ c \in Seq(Value) /\ t \in Seq(Fiber) /\ p \in Seq(Putter) /\ gv \in Seq(Gift) /\ ad \in SUBSET Fiber
      /\ Len(c) <= capacity /\ (p # <<>> => strategy = "backPressure")
  BY DEF Able
<1>2. PICK g \in Nat, k \in Nat, m \in Nat : Splits(c, t, p, g, k, m)
  BY SplitsExist
<1>3. Full(At(c, t, p, gv, ad)) = Ended(c, t, p, gv, ad, g, k, m)
  BY <1>2, FullEnds
<1>4. vp \in Seq(Value) /\ Len(vp) = Len(p)
  BY <1>1, ValuesParts
<1> HIDE DEF vp
<1>5. all \in Seq(Value) /\ Len(all) = Len(c) + Len(p)
  <2>1. c \in Seq(Value)
    BY <1>1
  <2>2. all \in Seq(Value) /\ Len(all) = Len(c) + Len(vp)
    BY <2>1, <1>4, ConcatParts
  <2> QED BY <1>4, <2>2
<1> HIDE DEF all
<1>6. /\ Len(c) \in Nat /\ Len(t) \in Nat /\ Len(p) \in Nat /\ g <= Len(t) /\ m <= Len(p) /\ k <= capacity
      /\ g <= Len(all) /\ g + k <= Len(all)
  BY <1>1, <1>2, <1>5 DEF Splits
<1> DEFINE c2 == SubSeq(all, g + 1, g + k)  t2 == From(t, g + 1)  p2 == From(p, m + 1)
           gv2 == gv \o Gifts(t, all, g)    ad2 == ad \cup Whole(p, m)
<1>7. c2 \in Seq(Value) /\ Len(c2) = k
  <2>1. /\ g + 1 \in Nat \ {0} /\ g + k \in Nat /\ g + 1 <= (g + k) + 1 /\ ((g + k) + 1) - (g + 1) = k
    BY <1>2
  <2> QED BY <2>1, <1>5, <1>6, SubSeqParts
<1>8. t2 \in Seq(Fiber) /\ Len(t2) = Len(t) - g
  BY <1>1, <1>6, FromParts
<1>9. p2 \in Seq(Putter) /\ Len(p2) = Len(p) - m
  BY <1>1, <1>6, FromParts
<1>10. gv2 \in Seq(Gift)
  <2>1. Gifts(t, all, g) \in Seq(Gift)
    BY <1>1, <1>5, <1>6, GiftsParts
  <2> QED BY <1>1, <2>1, ConcatParts
<1>11. ad2 \in SUBSET Fiber
  <2>1. \A i \in 1..m : p[i].value.by \in Fiber
    BY <1>1, <1>6, PutterParts
  <2> QED BY <1>1, <2>1 DEF Whole
<1>12. Full(At(c, t, p, gv, ad)) = At(c2, t2, p2, gv2, ad2)
  BY <1>3 DEF Ended, At, all, vp
<1> HIDE DEF c2, t2, p2, gv2, ad2
<1>13. Settled(c2, t2, p2)
  <2>1. capacity \in Nat
    OBVIOUS
  <2> QED BY <2>1, <1>1, <1>2, <1>7, <1>8, <1>9, SplitsSettled
<1>14. Able(c2, t2, p2, gv2, ad2) /\ Quiet(c2, t2, p2)
  BY <1>1, <1>7, <1>8, <1>9, <1>10, <1>11, <1>13 DEF Able, Quiet, Settled
<1>15. Len(t2) <= Len(t) /\ Len(p2) <= Len(p)
  BY <1>2, <1>6, <1>8, <1>9
<1> QED BY <1>12, <1>14, <1>15

\* What unsafeCompleteTakers and unsafeOnQueueEmptySpace compute, without a loop.
RunTakers(s) == IF s.content = <<>> \/ s.takers = <<>> THEN s ELSE Full(s)
RunSpace(s) ==
  IF strategy # "backPressure" \/ Len(s.content) >= capacity \/ s.putters = <<>> THEN s ELSE Full(s)

\* How much the loops have before them.
Ahead(s) == Len(s.takers) + Len(s.putters)

\* What the loops have before them is a number.
LEMMA AheadNat == \A s \in LoopState : Ahead(s) \in Nat
<1> HIDE DEF Value, Putter
<1> QED BY DEF LoopState, Ahead

\* Run on from a quiet state, neither does anything.
LEMMA QuietRuns ==
  ASSUME NEW c, NEW t, NEW p, NEW gv, NEW ad, Able(c, t, p, gv, ad), capacity \in Nat \ {0}, Quiet(c, t, p)
  PROVE  LET s == At(c, t, p, gv, ad) IN RunTakers(s) = s /\ RunSpace(s) = s
BY QuietFull DEF RunTakers, RunSpace

\* Where the loops end they end, with no more ahead than before.
LEMMA FullEnd ==
  ASSUME NEW s \in LoopState, capacity \in Nat \ {0}
  PROVE  /\ Full(s) \in LoopState /\ Ahead(Full(s)) <= Ahead(s)
         /\ RunTakers(Full(s)) = Full(s) /\ RunSpace(Full(s)) = Full(s)
<1> HIDE DEF Value, Putter, Gift
<1> DEFINE c == s.content  t == s.takers  p == s.putters  gv == s.given  ad == s.admitted
<1>1. s = At(c, t, p, gv, ad) /\ s.takers = t /\ s.putters = p
  BY StateIsAble
<1> HIDE DEF c, t, p, gv, ad
<1>2. Able(c, t, p, gv, ad)
  BY <1>1, AbleIsState
<1>3. PICK c2, t2, p2, gv2, ad2 :
         /\ Full(At(c, t, p, gv, ad)) = At(c2, t2, p2, gv2, ad2)
         /\ Able(c2, t2, p2, gv2, ad2) /\ Quiet(c2, t2, p2)
         /\ Len(t2) <= Len(t) /\ Len(p2) <= Len(p)
  BY <1>2, FullQuiet
<1>4. Full(s) = At(c2, t2, p2, gv2, ad2)
  BY <1>1, <1>3
<1>5. At(c2, t2, p2, gv2, ad2) \in LoopState
  BY <1>3, AbleIsState
<1>6. RunTakers(At(c2, t2, p2, gv2, ad2)) = At(c2, t2, p2, gv2, ad2) /\ RunSpace(At(c2, t2, p2, gv2, ad2)) = At(c2, t2, p2, gv2, ad2)
  BY <1>3, QuietRuns
<1>7. Ahead(Full(s)) <= Ahead(s)
  <2>1. Len(t) \in Nat /\ Len(p) \in Nat /\ Len(t2) \in Nat /\ Len(p2) \in Nat
    BY <1>2, <1>3 DEF Able
  <2>2. Full(s).takers = t2 /\ Full(s).putters = p2
    BY <1>4 DEF At
  <2> QED BY <2>1, <2>2, <1>1, <1>3 DEF Ahead
<1> QED BY <1>4, <1>5, <1>6, <1>7

\* unsafeCompleteTakers goes on where it has given one value.
LEMMA TakersLoop ==
  ASSUME NEW s \in LoopState, capacity \in Nat \ {0}, s.content # <<>>, s.takers # <<>>
  PROVE  /\ Give(s) \in LoopState /\ Ahead(Give(s)) < Ahead(s)
         /\ RunSpace(Give(s)) \in LoopState /\ Ahead(RunSpace(Give(s))) < Ahead(s)
         /\ RunTakers(RunSpace(Give(s))) = RunTakers(s)
<1> HIDE DEF Value, Putter, Gift
<1> DEFINE c == s.content  t == s.takers  p == s.putters  gv == s.given  ad == s.admitted
           gv2 == Append(gv, [to |-> Head(t), value |-> Head(c)])
           u == At(Tail(c), Tail(t), p, gv2, ad)
<1>1. s = At(c, t, p, gv, ad)
  BY StateIsAble
<1>2. Able(c, t, p, gv, ad)
  BY <1>1, AbleIsState
<1>3. c # <<>> /\ t # <<>>
  OBVIOUS
<1> HIDE DEF c, t, p, gv, ad
<1>4. /\ Give(At(c, t, p, gv, ad)) = u
      /\ Able(Tail(c), Tail(t), p, gv2, ad)
      /\ Full(u) = Full(At(c, t, p, gv, ad))
      /\ Len(Tail(c)) < capacity /\ Len(Tail(t)) = Len(t) - 1
  BY <1>2, <1>3, GiveFull
<1>5. u.content = Tail(c) /\ u.takers = Tail(t) /\ u.putters = p
  BY DEF At
<1>6. u \in LoopState
  BY <1>4, AbleIsState
<1>7. Give(s) = u /\ Full(u) = Full(s)
  BY <1>1, <1>4
<1>8. Len(t) \in Nat /\ Len(p) \in Nat /\ Len(Tail(c)) \in Nat
  BY <1>2, <1>4 DEF Able
<1>9. Ahead(s) = Len(t) + Len(p) /\ Ahead(u) = (Len(t) - 1) + Len(p)
  <2>1. s.takers = t /\ s.putters = p
    BY DEF t, p
  <2> QED BY <2>1, <1>4, <1>5 DEF Ahead
<1>10. RunTakers(s) = Full(s)
  BY <1>3 DEF RunTakers, c, t
<1> HIDE DEF u
<1>11. CASE p = <<>>
  <2>1. RunSpace(u) = u
    BY <1>5, <1>11 DEF RunSpace
  <2>2. RunTakers(u) = Full(u)
    <3>1. CASE Tail(c) = <<>> \/ Tail(t) = <<>>
      <4>1. Quiet(Tail(c), Tail(t), p)
        BY <3>1, <1>11 DEF Quiet
      <4>2. Full(u) = u
        BY <4>1, <1>4, QuietFull DEF u
      <4> QED BY <3>1, <4>2, <1>5 DEF RunTakers
    <3>2. CASE ~(Tail(c) = <<>> \/ Tail(t) = <<>>)
      BY <3>2, <1>5 DEF RunTakers
    <3> QED BY <3>1, <3>2
  <2> QED BY <2>1, <2>2, <1>6, <1>7, <1>8, <1>9, <1>10
<1>12. CASE p # <<>>
  <2>1. RunSpace(u) = Full(u)
    <3>1. strategy = "backPressure"
      BY <1>2, <1>12 DEF Able
    <3>2. ~(Len(u.content) >= capacity)
      BY <1>4, <1>5, <1>8
    <3> QED BY <3>1, <3>2, <1>5, <1>12 DEF RunSpace
  <2>3. RunTakers(Full(u)) = Full(u) /\ Full(u) \in LoopState /\ Ahead(Full(u)) <= Ahead(u)
    BY <1>6, FullEnd
  <2>4. Ahead(u) \in Nat /\ Ahead(s) \in Nat /\ Ahead(Full(u)) \in Nat
    BY <1>6, <2>3, AheadNat
  <2> QED BY <2>1, <2>3, <2>4, <1>6, <1>7, <1>8, <1>9, <1>10
<1> QED BY <1>11, <1>12

\* unsafeOnQueueEmptySpace goes on where it has let one putter in.
LEMMA SpaceLoop ==
  ASSUME NEW s \in LoopState, capacity \in Nat \ {0},
         strategy = "backPressure", Len(s.content) < capacity, s.putters # <<>>
  PROVE  /\ Move(s) \in LoopState /\ Ahead(Move(s)) < Ahead(s)
         /\ RunTakers(Move(s)) \in LoopState /\ Ahead(RunTakers(Move(s))) < Ahead(s)
         /\ RunSpace(RunTakers(Move(s))) = RunSpace(s)
<1> HIDE DEF Value, Putter, Gift
<1> DEFINE c == s.content  t == s.takers  p == s.putters  gv == s.given  ad == s.admitted
           c2  == Append(c, Head(p).value)
           ad2 == IF Head(p).last THEN ad \cup {Head(p).value.by} ELSE ad
           u == At(c2, t, Tail(p), gv, ad2)
<1>1. s = At(c, t, p, gv, ad)
  BY StateIsAble
<1>2. Able(c, t, p, gv, ad)
  BY <1>1, AbleIsState
<1>3. p # <<>> /\ Len(c) < capacity
  OBVIOUS
<1>10. RunSpace(s) = Full(s)
  <2>1. Len(c) \in Nat
    BY <1>2 DEF Able
  <2> QED BY <2>1, <1>3 DEF RunSpace
<1>13. s.takers = t /\ s.putters = p
  OBVIOUS
<1> HIDE DEF c, t, p, gv, ad
<1>4. /\ Move(At(c, t, p, gv, ad)) = u
      /\ Able(c2, t, Tail(p), gv, ad2)
      /\ Full(u) = Full(At(c, t, p, gv, ad))
      /\ c2 # <<>> /\ Len(Tail(p)) = Len(p) - 1
  BY <1>2, <1>3, MoveFull
<1> HIDE DEF c2, ad2
<1>5. u.content = c2 /\ u.takers = t /\ u.putters = Tail(p)
  BY DEF At
<1>6. u \in LoopState
  BY <1>4, AbleIsState
<1>7. Move(s) = u /\ Full(u) = Full(s)
  BY <1>1, <1>4
<1>8. Len(t) \in Nat /\ Len(p) \in Nat /\ Len(c2) \in Nat /\ Len(c2) <= capacity
  BY <1>2, <1>4 DEF Able
<1>9. Ahead(s) = Len(t) + Len(p) /\ Ahead(u) = Len(t) + (Len(p) - 1)
  BY <1>4, <1>5, <1>13 DEF Ahead
<1> HIDE DEF u
<1>11. CASE t = <<>>
  <2>1. RunTakers(u) = u
    BY <1>5, <1>11 DEF RunTakers
  <2>2. RunSpace(u) = Full(u)
    <3>1. CASE Len(c2) >= capacity \/ Tail(p) = <<>>
      <4>1. Quiet(c2, t, Tail(p))
        BY <3>1, <1>8, <1>11 DEF Quiet
      <4>2. Full(u) = u
        BY <4>1, <1>4, QuietFull DEF u
      <4> QED BY <3>1, <4>2, <1>5 DEF RunSpace
    <3>2. CASE ~(Len(c2) >= capacity \/ Tail(p) = <<>>)
      BY <3>2, <1>5 DEF RunSpace
    <3> QED BY <3>1, <3>2
  <2> QED BY <2>1, <2>2, <1>6, <1>7, <1>8, <1>9, <1>10
<1>12. CASE t # <<>>
  <2>1. RunTakers(u) = Full(u)
    BY <1>4, <1>5, <1>12 DEF RunTakers
  <2>3. RunSpace(Full(u)) = Full(u) /\ Full(u) \in LoopState /\ Ahead(Full(u)) <= Ahead(u)
    BY <1>6, FullEnd
  <2>4. Ahead(u) \in Nat /\ Ahead(s) \in Nat /\ Ahead(Full(u)) \in Nat
    BY <1>6, <2>3, AheadNat
  <2> QED BY <2>1, <2>3, <2>4, <1>6, <1>7, <1>8, <1>9, <1>10
<1> QED BY <1>11, <1>12

\* The calls of the loops, and their answers.
Calls == {"completeTakers", "onQueueEmptySpace"} \X LoopState
Answer(call) == IF call[1] = "completeTakers" THEN RunTakers(call[2]) ELSE RunSpace(call[2])
\* What one round of the loops makes of the rounds that follow, f.
Round(f, call) ==
  LET s == call[2] IN
  IF call[1] = "completeTakers"
  THEN IF s.content = <<>> \/ s.takers = <<>> THEN s
       ELSE f[<<"completeTakers", f[<<"onQueueEmptySpace", Give(s)>>]>>]
  ELSE IF strategy # "backPressure" \/ Len(s.content) >= capacity \/ s.putters = <<>> THEN s
       ELSE f[<<"onQueueEmptySpace", f[<<"completeTakers", Move(s)>>]>>]

\* A call is of one of the loops, with a state.
LEMMA CallsParts == /\ \A s \in LoopState : <<"completeTakers", s>> \in Calls /\ <<"onQueueEmptySpace", s>> \in Calls
                    /\ \A x \in Calls : /\ x[1] \in {"completeTakers", "onQueueEmptySpace"} /\ x[2] \in LoopState
                                        /\ x = <<x[1], x[2]>>
<1> HIDE DEF LoopState
<1> QED BY DEF Calls

\* The answers are what a round makes of them.
LEMMA AnswersLoop ==
  ASSUME capacity \in Nat \ {0}
  PROVE  LET f == [x \in Calls |-> Answer(x)] IN f = [x \in Calls |-> Round(f, x)]
<1> DEFINE f == [x \in Calls |-> Answer(x)]
<1> HIDE DEF LoopState
<1>1. \A s \in LoopState : f[<<"completeTakers", s>>] = RunTakers(s) /\ f[<<"onQueueEmptySpace", s>>] = RunSpace(s)
  <2> TAKE s \in LoopState
  <2>1. <<"completeTakers", s>> \in Calls /\ <<"onQueueEmptySpace", s>> \in Calls
    BY CallsParts
  <2>2. Answer(<<"completeTakers", s>>) = RunTakers(s) /\ Answer(<<"onQueueEmptySpace", s>>) = RunSpace(s)
    BY DEF Answer
  <2> QED BY <2>1, <2>2
<1>2. \A x \in Calls : f[x] = Answer(x)
  OBVIOUS
<1> HIDE DEF f
<1>3. ASSUME NEW x \in Calls PROVE Answer(x) = Round(f, x)
  <2> DEFINE s == x[2]
  <2>1. s \in LoopState /\ x[1] \in {"completeTakers", "onQueueEmptySpace"}
    BY CallsParts
  <2>2. CASE x[1] = "completeTakers"
    <3>1. Answer(x) = RunTakers(s)
      BY <2>2 DEF Answer
    <3>2. CASE s.content = <<>> \/ s.takers = <<>>
      <4>1. RunTakers(s) = s
        BY <3>2 DEF RunTakers
      <4>2. Round(f, x) = s
        BY <2>2, <3>2 DEF Round
      <4> QED BY <3>1, <4>1, <4>2
    <3>3. CASE ~(s.content = <<>> \/ s.takers = <<>>)
      <4>1. Round(f, x) = f[<<"completeTakers", f[<<"onQueueEmptySpace", Give(s)>>]>>]
        BY <2>2, <3>3 DEF Round
      <4> HIDE DEF s
      <4>2. Give(s) \in LoopState /\ RunSpace(Give(s)) \in LoopState /\ RunTakers(RunSpace(Give(s))) = RunTakers(s)
        BY <2>1, <3>3, TakersLoop
      <4>3. f[<<"onQueueEmptySpace", Give(s)>>] = RunSpace(Give(s))
        BY <4>2, <1>1
      <4>4. f[<<"completeTakers", RunSpace(Give(s))>>] = RunTakers(RunSpace(Give(s)))
        BY <4>2, <1>1
      <4> QED BY <3>1, <4>1, <4>2, <4>3, <4>4
    <3> QED BY <3>2, <3>3
  <2>3. CASE x[1] = "onQueueEmptySpace"
    <3>1. Answer(x) = RunSpace(s)
      BY <2>3 DEF Answer
    <3>2. CASE strategy # "backPressure" \/ Len(s.content) >= capacity \/ s.putters = <<>>
      <4>1. RunSpace(s) = s
        BY <3>2 DEF RunSpace
      <4>2. Round(f, x) = s
        BY <2>3, <3>2 DEF Round
      <4> QED BY <3>1, <4>1, <4>2
    <3>3. CASE ~(strategy # "backPressure" \/ Len(s.content) >= capacity \/ s.putters = <<>>)
      <4>1. Round(f, x) = f[<<"onQueueEmptySpace", f[<<"completeTakers", Move(s)>>]>>]
        BY <2>3, <3>3 DEF Round
      <4> HIDE DEF s
      <4>5. Len(s.content) \in Nat
        BY <2>1 DEF LoopState
      <4>6. Len(s.content) < capacity
        BY <4>5, <3>3
      <4>2. Move(s) \in LoopState /\ RunTakers(Move(s)) \in LoopState /\ RunSpace(RunTakers(Move(s))) = RunSpace(s)
        BY <2>1, <3>3, <4>6, SpaceLoop
      <4>3. f[<<"completeTakers", Move(s)>>] = RunTakers(Move(s))
        BY <4>2, <1>1
      <4>4. f[<<"onQueueEmptySpace", RunTakers(Move(s))>>] = RunSpace(RunTakers(Move(s)))
        BY <4>2, <1>1
      <4> QED BY <3>1, <4>1, <4>2, <4>3, <4>4
    <3> QED BY <3>2, <3>3
  <2> QED BY <2>1, <2>2, <2>3
<1> QED BY <1>3 DEF f

\* So there is a function the recursion of Loops defines.
LEMMA LoopsDefined ==
  ASSUME capacity \in Nat \ {0}
  PROVE  Loops = [x \in Calls |-> Round(Loops, x)]
<1> DEFINE P(M) == M = [x \in Calls |-> Round(M, x)]
<1>1. Loops = CHOOSE M : P(M)
  BY DEF Loops, Round, Calls
<1>2. P([x \in Calls |-> Answer(x)])
  BY AnswersLoop
<1> HIDE DEF P
<1>3. P(CHOOSE M : P(M))
  BY <1>2
<1>4. P(Loops)
  BY <1>1, <1>3
<1> QED BY <1>4 DEF P

\* A set of numbers has a least one.
LEMMA LeastOf ==
  ASSUME NEW N, N \subseteq Nat, N # {}
  PROVE  \E n \in N : \A k \in N : n <= k
<1> DEFINE T == {1..n : n \in N}  S == FiniteSubsetsOf(Nat)
<1>1. IsWellFoundedOn(StrictSubsetOrdering(Nat), S)
  BY FS_StrictSubsetOrderingWellFounded
<1>2. T \subseteq S
  <2> SUFFICES ASSUME NEW n \in N PROVE 1..n \in S
    OBVIOUS
  <2>1. IsFiniteSet(1..n)
    BY FS_Interval
  <2>2. 1..n \subseteq Nat
    OBVIOUS
  <2> QED BY <2>1, <2>2 DEF FiniteSubsetsOf
<1>3. T # {}
  OBVIOUS
<1>4. PICK x \in T : \A y \in T : ~(<<y, x>> \in StrictSubsetOrdering(Nat))
  <2> HIDE DEF T, S
  <2> QED BY <1>1, <1>2, <1>3, WFMin
<1>5. PICK n \in N : x = 1..n
  OBVIOUS
<1>6. ASSUME NEW k \in N, k < n PROVE FALSE
  <2>1. 1..k \in T
    OBVIOUS
  <2>2. 1..k \subseteq 1..n /\ n \in 1..n /\ n \notin 1..k /\ 1..k \subseteq Nat /\ 1..n \subseteq Nat
    BY <1>6
  <2>3. 1..k # 1..n
    BY <2>2
  <2>4. <<1..k, 1..n>> \in StrictSubsetOrdering(Nat)
    <3> DEFINE a == 1..k  b == 1..n
    <3>1. a \subseteq b /\ a # b /\ a \subseteq Nat /\ b \subseteq Nat
      BY <2>2, <2>3
    <3> HIDE DEF a, b
    <3>2. <<a, b>> \in StrictSubsetOrdering(Nat)
      BY <3>1 DEF StrictSubsetOrdering
    <3> QED BY <3>2 DEF a, b
  <2> QED BY <2>1, <2>4, <1>4, <1>5
<1>7. \A k \in N : n <= k
  BY <1>6
<1> QED BY <1>7

\* The loops compute the answers: else there would be a state with the least ahead
\* from which they do not.
LEMMA LoopsAnswer ==
  ASSUME capacity \in Nat \ {0}, NEW s \in LoopState
  PROVE  Loops[<<"completeTakers", s>>] = RunTakers(s) /\ Loops[<<"onQueueEmptySpace", s>>] = RunSpace(s)
<1> HIDE DEF LoopState
<1> DEFINE Right(x) == /\ Loops[<<"completeTakers", x>>] = RunTakers(x)
                       /\ Loops[<<"onQueueEmptySpace", x>>] = RunSpace(x)
           N == {Ahead(x) : x \in {y \in LoopState : ~Right(y)}}
<1>1. \A x \in LoopState : Ahead(x) \in Nat
  BY AheadNat
<1>2. \A x \in LoopState : /\ Loops[<<"completeTakers", x>>] = Round(Loops, <<"completeTakers", x>>)
                            /\ Loops[<<"onQueueEmptySpace", x>>] = Round(Loops, <<"onQueueEmptySpace", x>>)
  <2> DEFINE F == Loops
  <2>1. F = [x \in Calls |-> Round(F, x)]
    BY LoopsDefined
  <2> HIDE DEF F
  <2>2. \A x \in Calls : F[x] = Round(F, x)
    BY <2>1
  <2> QED BY <2>2, CallsParts DEF F
<1>3. ASSUME NEW x \in LoopState, \A y \in LoopState : Ahead(y) < Ahead(x) => Right(y)
      PROVE  Right(x)
  <2>1. Loops[<<"completeTakers", x>>] = RunTakers(x)
    <3>1. CASE x.content = <<>> \/ x.takers = <<>>
      BY <3>1, <1>2 DEF Round, RunTakers
    <3>2. CASE ~(x.content = <<>> \/ x.takers = <<>>)
      <4>1. Loops[<<"completeTakers", x>>] = Loops[<<"completeTakers", Loops[<<"onQueueEmptySpace", Give(x)>>]>>]
        BY <3>2, <1>2 DEF Round
      <4>2. /\ Give(x) \in LoopState /\ Ahead(Give(x)) < Ahead(x)
            /\ RunSpace(Give(x)) \in LoopState /\ Ahead(RunSpace(Give(x))) < Ahead(x)
            /\ RunTakers(RunSpace(Give(x))) = RunTakers(x)
        BY <3>2, TakersLoop
      <4>3. Right(Give(x)) /\ Right(RunSpace(Give(x)))
        BY <4>2, <1>3
      <4> QED BY <4>1, <4>2, <4>3
    <3> QED BY <3>1, <3>2
  <2>2. Loops[<<"onQueueEmptySpace", x>>] = RunSpace(x)
    <3>1. CASE strategy # "backPressure" \/ Len(x.content) >= capacity \/ x.putters = <<>>
      BY <3>1, <1>2 DEF Round, RunSpace
    <3>2. CASE ~(strategy # "backPressure" \/ Len(x.content) >= capacity \/ x.putters = <<>>)
      <4>1. Loops[<<"onQueueEmptySpace", x>>] = Loops[<<"onQueueEmptySpace", Loops[<<"completeTakers", Move(x)>>]>>]
        BY <3>2, <1>2 DEF Round
      <4>5. Len(x.content) \in Nat
        BY DEF LoopState
      <4>6. Len(x.content) < capacity
        BY <4>5, <3>2
      <4>2. /\ Move(x) \in LoopState /\ Ahead(Move(x)) < Ahead(x)
            /\ RunTakers(Move(x)) \in LoopState /\ Ahead(RunTakers(Move(x))) < Ahead(x)
            /\ RunSpace(RunTakers(Move(x))) = RunSpace(x)
        BY <3>2, <4>6, SpaceLoop
      <4>3. Right(Move(x)) /\ Right(RunTakers(Move(x)))
        BY <4>2, <1>3
      <4> QED BY <4>1, <4>2, <4>3
    <3> QED BY <3>1, <3>2
  <2> QED BY <2>1, <2>2
<1> HIDE DEF Right
<1>4. N = {}
  <2> SUFFICES ASSUME N # {} PROVE FALSE
    OBVIOUS
  <2>1. N \subseteq Nat
    BY <1>1
  <2> HIDE DEF N
  <2>2. PICK n \in N : \A k \in N : n <= k
    BY <2>1, LeastOf
  <2>3. PICK x \in LoopState : ~Right(x) /\ Ahead(x) = n
    BY DEF N
  <2>4. \A y \in LoopState : ~Right(y) => Ahead(x) <= Ahead(y)
    BY <2>2, <2>3 DEF N
  <2>5. \A y \in LoopState : Ahead(y) < Ahead(x) => Right(y)
    BY <2>4, <1>1
  <2> QED BY <2>3, <2>5, <1>3
<1>5. Right(s)
  BY <1>4
<1> QED BY <1>5 DEF Right

\* Where an operation starts the loops, Full is Settle.
LEMMA SettleFull ==
  ASSUME NEW c, NEW t, NEW p
  PROVE  Settle(Loop(c, t, p)) = Full(Loop(c, t, p)) /\ Loop(c, t, p) = At(c, t, p, <<>>, {})
<1>1. Loop(c, t, p) = At(c, t, p, <<>>, {}) /\ Loop(c, t, p).admitted = {}
  BY DEF Loop, At
<1> DEFINE s == Loop(c, t, p)
<1> HIDE DEF s
<1>2. Settle(s) = [content |-> Settle(s).content, takers |-> Settle(s).takers, putters |-> Settle(s).putters,
                   given |-> Settle(s).given, admitted |-> Settle(s).admitted]
  BY DEF Settle
<1>3. Settle(s) = Full(s)
  <2>1. s.admitted = {}
    BY <1>1 DEF s
  <2> QED BY <1>2, <2>1 DEF Full
<1> QED BY <1>1, <1>3 DEF s

\* Where an operation starts the loops, and where they end.
LEMMA LoopEnds ==
  ASSUME NEW c \in Seq(Value), NEW t \in Seq(Fiber), NEW p \in Seq(Putter), capacity \in Nat \ {0},
         Len(c) <= capacity, p # <<>> => strategy = "backPressure"
  PROVE  LET s == Loop(c, t, p)
         IN /\ s \in LoopState
            /\ s.content = c /\ s.takers = t /\ s.putters = p
            /\ Full(s) = Settle(s) /\ RunTakers(Settle(s)) = Settle(s) /\ Settle(s) \in LoopState
            /\ Quiet(c, t, p) => Settle(s) = s
<1> HIDE DEF Value, Putter
<1>1. Settle(Loop(c, t, p)) = Full(Loop(c, t, p)) /\ Loop(c, t, p) = At(c, t, p, <<>>, {})
  BY SettleFull
<1>2. Able(c, t, p, <<>>, {})
  BY DEF Able
<1>3. Loop(c, t, p) \in LoopState
  BY <1>1, <1>2, AbleIsState
<1>4. RunTakers(Full(Loop(c, t, p))) = Full(Loop(c, t, p)) /\ Full(Loop(c, t, p)) \in LoopState
  BY <1>3, FullEnd
<1>5. Quiet(c, t, p) => Full(Loop(c, t, p)) = Loop(c, t, p)
  BY <1>1, <1>2, QuietFull
<1>6. Loop(c, t, p).content = c /\ Loop(c, t, p).takers = t /\ Loop(c, t, p).putters = p
  BY DEF Loop
<1> QED BY <1>1, <1>3, <1>4, <1>5, <1>6

\* In every state of the queue Settle is what the loops compute.
LEMMA SettleLoops == TypeInv => SettleIsTheLoops
<1> SUFFICES ASSUME TypeInv, NEW f \in Fiber
             PROVE  LET register == Loop(content, Append(takers, f), putters)
                        put      == Loop(content, takers, putters \o AsPutters(surplus[f]))
                        completed(s) == Loops[<<"completeTakers", s>>]
                        filled(s)    == Loops[<<"onQueueEmptySpace", s>>]
                    IN /\ completed(register) = Settle(register)
                       /\ pc[f] = "surplus" /\ strategy = "backPressure" => completed(filled(put)) = Settle(put)
                       /\ \A n \in 1..Len(content) : LET polled == Loop(From(content, n + 1), takers, putters) IN
                            filled(polled) = Settle(polled)
  BY DEF SettleIsTheLoops
<1> HIDE DEF Value, Putter
<1>1. /\ capacity \in Nat \ {0} /\ content \in Seq(Value) /\ takers \in Seq(Fiber) /\ putters \in Seq(Putter)
  BY Made DEF TypeInv
<1>2. /\ Len(content) <= capacity
      /\ putters # <<>> => strategy = "backPressure" /\ Len(content) = capacity
      /\ takers # <<>> => content = <<>> /\ putters = <<>>
  BY DEF TypeInv, Balanced, Settled
<1>3. Loops[<<"completeTakers", Loop(content, Append(takers, f), putters)>>] = Settle(Loop(content, Append(takers, f), putters))
  <2> DEFINE t == Append(takers, f)
  <2>1. t \in Seq(Fiber) /\ t # <<>>
    BY <1>1
  <2> HIDE DEF t
  <2> DEFINE s == Loop(content, t, putters)
  <2>2. /\ s \in LoopState /\ s.content = content /\ s.takers = t /\ Full(s) = Settle(s)
        /\ Quiet(content, t, putters) => Settle(s) = s
    BY <1>1, <1>2, <2>1, LoopEnds
  <2> HIDE DEF s
  <2>3. Loops[<<"completeTakers", s>>] = RunTakers(s)
    BY <1>1, <2>2, LoopsAnswer
  <2>4. RunTakers(s) = Settle(s)
    <3>1. CASE content = <<>>
      <4>1. putters = <<>>
        BY <3>1, <1>1, <1>2
      <4>2. Quiet(content, t, putters)
        BY <3>1, <4>1 DEF Quiet
      <4> QED BY <3>1, <4>2, <2>2 DEF RunTakers
    <3>2. CASE content # <<>>
      BY <3>2, <2>1, <2>2 DEF RunTakers
    <3> QED BY <3>1, <3>2
  <2> QED BY <2>3, <2>4 DEF s, t
<1>4. ASSUME pc[f] = "surplus", strategy = "backPressure"
      PROVE  LET put == Loop(content, takers, putters \o AsPutters(surplus[f]))
             IN Loops[<<"completeTakers", Loops[<<"onQueueEmptySpace", put>>]>>] = Settle(put)
  <2> DEFINE p == putters \o AsPutters(surplus[f])
  <2>1. p \in Seq(Putter) /\ p # <<>>
    <3> DEFINE q == AsPutters(surplus[f])
    <3>1. surplus[f] \in Seq(Value) /\ surplus[f] # <<>>
      BY <1>4 DEF TypeInv, TypeOK, SurplusInv
    <3>2. q \in Seq(Putter) /\ Len(q) = Len(surplus[f])
      BY <3>1, PutterSeqParts
    <3> HIDE DEF q
    <3>3. Len(q) > 0
      BY <3>1, <3>2
    <3>4. putters \o q \in Seq(Putter) /\ Len(putters \o q) = Len(putters) + Len(q)
      BY <1>1, <3>2, ConcatParts
    <3>5. putters \o q # <<>>
      BY <1>1, <3>3, <3>4
    <3> QED BY <3>4, <3>5 DEF q
  <2> HIDE DEF p
  <2> DEFINE s == Loop(content, takers, p)
  <2>2. /\ s \in LoopState /\ s.content = content /\ s.takers = takers /\ s.putters = p /\ Full(s) = Settle(s)
        /\ RunTakers(Settle(s)) = Settle(s) /\ Settle(s) \in LoopState
        /\ Quiet(content, takers, p) => Settle(s) = s
    BY <1>1, <1>2, <1>4, <2>1, LoopEnds
  <2> HIDE DEF s
  <2>3. Loops[<<"onQueueEmptySpace", s>>] = RunSpace(s)
    BY <1>1, <2>2, LoopsAnswer
  <2>4. CASE Len(content) >= capacity
    <3>1. RunSpace(s) = s
      BY <2>2, <2>4 DEF RunSpace
    <3>2. content # <<>> /\ Len(content) = capacity
      BY <1>1, <1>2, <2>4
    <3>3. takers = <<>>
      BY <3>2, <1>2
    <3>4. RunTakers(s) = s
      BY <3>3, <2>2 DEF RunTakers
    <3>5. Settle(s) = s
      BY <3>2, <3>3, <2>2 DEF Quiet
    <3>6. Loops[<<"completeTakers", s>>] = RunTakers(s)
      BY <1>1, <2>2, LoopsAnswer
    <3> QED BY <2>3, <3>1, <3>4, <3>5, <3>6 DEF s, p
  <2>5. CASE ~(Len(content) >= capacity)
    <3>1. RunSpace(s) = Settle(s)
      BY <2>1, <2>2, <2>5, <1>4 DEF RunSpace
    <3>2. Loops[<<"completeTakers", Settle(s)>>] = RunTakers(Settle(s))
      BY <1>1, <2>2, LoopsAnswer
    <3> QED BY <2>2, <2>3, <3>1, <3>2 DEF s, p
  <2> QED BY <2>4, <2>5
<1>5. ASSUME NEW n \in 1..Len(content)
      PROVE  LET polled == Loop(From(content, n + 1), takers, putters)
             IN Loops[<<"onQueueEmptySpace", polled>>] = Settle(polled)
  <2> DEFINE c == From(content, n + 1)
  <2>1. c \in Seq(Value) /\ Len(c) <= capacity
    <3>1. n \in Nat /\ n <= Len(content) /\ Len(content) \in Nat
      BY <1>1
    <3>2. c \in Seq(Value) /\ Len(c) = Len(content) - n
      BY <1>1, <3>1, FromParts
    <3> HIDE DEF c
    <3> QED BY <3>1, <3>2, <1>1, <1>2
  <2> HIDE DEF c
  <2>6. takers = <<>>
    BY <1>1, <1>2
  <2> DEFINE s == Loop(c, takers, putters)
  <2>2. /\ s \in LoopState /\ s.content = c /\ s.takers = takers /\ s.putters = putters /\ Full(s) = Settle(s)
        /\ Quiet(c, takers, putters) => Settle(s) = s
    BY <1>1, <1>2, <2>1, LoopEnds
  <2> HIDE DEF s
  <2>3. Loops[<<"onQueueEmptySpace", s>>] = RunSpace(s)
    BY <1>1, <2>2, LoopsAnswer
  <2>4. RunSpace(s) = Settle(s)
    <3>1. CASE strategy # "backPressure" \/ Len(c) >= capacity \/ putters = <<>>
      <4>1. RunSpace(s) = s
        BY <3>1, <2>2 DEF RunSpace
      <4>2. Quiet(c, takers, putters)
        BY <3>1, <1>1, <1>2, <2>1, <2>6 DEF Quiet
      <4> QED BY <4>1, <4>2, <2>2
    <3>2. CASE ~(strategy # "backPressure" \/ Len(c) >= capacity \/ putters = <<>>)
      BY <3>2, <2>2 DEF RunSpace
    <3> QED BY <3>1, <3>2
  <2> QED BY <2>3, <2>4 DEF s, c
<1> QED BY <1>3, <1>4, <1>5

----------------------------------------------------------------------------
(* Takers and putters.                                                     *)

\* Every taker waits and was not served, or has yet to clean up, and is there once.
TakersOK(t, q, d) ==
  /\ \A i \in DOMAIN t : q[t[i]] = "cleanup" \/ (q[t[i]] = "awaitItem" /\ d[t[i]] # "done")
  /\ \A i, j \in DOMAIN t : t[i] = t[j] => i = j
\* So is every putter, whose batch is there to its last value.
PuttersOK(p, q, d) ==
  /\ \A i \in DOMAIN p : q[p[i].value.by] = "cleanup" \/ (q[p[i].value.by] = "awaitRoom" /\ d[p[i].value.by] # "done")
  /\ \A i \in DOMAIN p : \E j \in DOMAIN p : i <= j /\ p[j].last /\ p[j].value.by = p[i].value.by
  /\ \A i, j \in DOMAIN p : p[i].last /\ p[j].last /\ p[j].value.by = p[i].value.by => i = j
Filed == TakersOK(takers, pc, deferred) /\ PuttersOK(putters, pc, deferred)

\* Who is served leaves, and who is not keeps its deferred.
LEMMA DeliveredFiled ==
  ASSUME NEW t \in Seq(Fiber), NEW p \in Seq(Putter), NEW d, NEW q,
         Delivers(t, p, d), TakersOK(t, q, d), PuttersOK(p, q, d)
  PROVE  TakersOK(takers', q, deferred') /\ PuttersOK(putters', q, deferred')
<1>1. PICK g, m \in Nat :
        /\ g <= Len(t) /\ m <= Len(p)
        /\ takers' = From(t, g + 1) /\ putters' = From(p, m + 1)
        /\ \A h \in Fiber : deferred'[h] = "done" =>
             \/ d[h] = "done"
             \/ \E i \in 1..g : t[i] = h
             \/ \E i \in 1..m : p[i].last /\ p[i].value.by = h
  BY DEF Delivers
<1> DEFINE t2 == From(t, g + 1)  p2 == From(p, m + 1)  e == deferred'
<1>2. DOMAIN t2 = 1..(Len(t) - g) /\ \A k \in 1..(Len(t) - g) : t2[k] = t[g + k]
  <2>1. DOMAIN t2 = 1..(Len(t) - g)
    BY <1>1, FromParts
  <2>2. \A k \in 1..(Len(t) - g) : t2[k] = t[g + k]
    BY <1>1, FromParts
  <2> QED BY <2>1, <2>2
<1>3. DOMAIN p2 = 1..(Len(p) - m) /\ \A k \in 1..(Len(p) - m) : p2[k] = p[m + k]
  <2> HIDE DEF Putter
  <2>1. DOMAIN p2 = 1..(Len(p) - m)
    BY <1>1, FromParts
  <2>2. \A k \in 1..(Len(p) - m) : p2[k] = p[m + k]
    BY <1>1, FromParts
  <2> QED BY <2>1, <2>2
<1>4. DOMAIN t = 1..Len(t) /\ DOMAIN p = 1..Len(p) /\ Len(t) \in Nat /\ Len(p) \in Nat
  <2> HIDE DEF Putter
  <2> QED OBVIOUS
<1>5. \A i \in 1..Len(t) : t[i] \in Fiber
  OBVIOUS
<1>6. \A i \in 1..Len(p) : p[i].value.by \in Fiber
  <2>1. \A i \in 1..Len(p) : p[i] \in Putter
    <3> HIDE DEF Putter
    <3> QED OBVIOUS
  <2> QED BY <2>1, PutterParts
<1> HIDE DEF t2, p2, e
<1>7. \A h \in Fiber : e[h] = "done" =>
             \/ d[h] = "done"
             \/ \E i \in 1..g : t[i] = h
             \/ \E i \in 1..m : p[i].last /\ p[i].value.by = h
  BY <1>1 DEF e
<1>8. TakersOK(t2, q, e)
  <2>1. ASSUME NEW k \in DOMAIN t2 PROVE q[t2[k]] = "cleanup" \/ (q[t2[k]] = "awaitItem" /\ e[t2[k]] # "done")
    <3> DEFINE i == g + k  h == t[i]
    <3>1. i \in 1..Len(t) /\ t2[k] = h /\ i > g /\ h \in Fiber
      BY <2>1, <1>1, <1>2, <1>4, <1>5
    <3> HIDE DEF i
    <3>2. q[h] = "cleanup" \/ (q[h] = "awaitItem" /\ d[h] # "done")
      BY <3>1, <1>4 DEF TakersOK
    <3>3. ~ \E j \in 1..g : t[j] = h
      BY <3>1, <1>1, <1>4 DEF TakersOK
    <3>4. ASSUME q[h] = "awaitItem" PROVE ~ \E j \in 1..m : p[j].value.by = h
      BY <3>4, <1>1, <1>4 DEF PuttersOK
    <3> QED BY <3>1, <3>2, <3>3, <3>4, <1>7
  <2>2. ASSUME NEW i \in DOMAIN t2, NEW j \in DOMAIN t2, t2[i] = t2[j] PROVE i = j
    <3>1. g + i \in DOMAIN t /\ g + j \in DOMAIN t /\ t[g + i] = t[g + j]
      BY <2>2, <1>1, <1>2, <1>4
    <3>2. g + i = g + j
      BY <3>1 DEF TakersOK
    <3> QED BY <3>2, <1>1, <1>2, <1>4
  <2> QED BY <2>1, <2>2 DEF TakersOK
<1>9. PuttersOK(p2, q, e)
  <2>1. ASSUME NEW k \in DOMAIN p2 PROVE q[p2[k].value.by] = "cleanup" \/ (q[p2[k].value.by] = "awaitRoom" /\ e[p2[k].value.by] # "done")
    <3> DEFINE i == m + k  h == p[i].value.by
    <3>1. i \in 1..Len(p) /\ p2[k] = p[i] /\ i > m /\ h \in Fiber
      BY <2>1, <1>1, <1>3, <1>4, <1>6
    <3>9. p2[k].value.by = h
      BY <3>1
    <3> HIDE DEF i
    <3>2. q[h] = "cleanup" \/ (q[h] = "awaitRoom" /\ d[h] # "done")
      BY <3>1, <1>4 DEF PuttersOK
    <3>3. ~ \E j \in 1..m : p[j].last /\ p[j].value.by = h
      <4> SUFFICES ASSUME NEW j \in 1..m, p[j].last, p[j].value.by = h PROVE FALSE
        OBVIOUS
      <4>1. PICK l \in DOMAIN p : i <= l /\ p[l].last /\ p[l].value.by = h
        BY <3>1, <1>4 DEF PuttersOK
      <4>2. j \in DOMAIN p
        BY <1>1, <1>4
      <4>3. j = l
        BY <4>1, <4>2 DEF PuttersOK
      <4> QED BY <4>1, <4>3, <3>1, <1>4, <1>1
    <3>4. ASSUME q[h] = "awaitRoom" PROVE ~ \E j \in 1..g : t[j] = h
      BY <3>4, <1>1, <1>4 DEF TakersOK
    <3> QED BY <3>1, <3>9, <3>2, <3>3, <3>4, <1>7
  <2>2. ASSUME NEW k \in DOMAIN p2 PROVE \E j \in DOMAIN p2 : k <= j /\ p2[j].last /\ p2[j].value.by = p2[k].value.by
    <3>1. m + k \in DOMAIN p /\ p2[k] = p[m + k]
      BY <2>2, <1>1, <1>3, <1>4
    <3>2. PICK l \in DOMAIN p : m + k <= l /\ p[l].last /\ p[l].value.by = p[m + k].value.by
      BY <3>1 DEF PuttersOK
    <3>3. l - m \in DOMAIN p2 /\ k <= l - m /\ p2[l - m] = p[l]
      BY <3>2, <1>1, <1>3, <1>4
    <3> QED BY <3>1, <3>2, <3>3
  <2>3. ASSUME NEW i \in DOMAIN p2, NEW j \in DOMAIN p2, p2[i].last, p2[j].last, p2[j].value.by = p2[i].value.by PROVE i = j
    <3>1. m + i \in DOMAIN p /\ m + j \in DOMAIN p /\ p2[i] = p[m + i] /\ p2[j] = p[m + j]
      BY <2>3, <1>1, <1>3, <1>4
    <3>2. m + i = m + j
      BY <2>3, <3>1 DEF PuttersOK
    <3> QED BY <3>2, <1>1, <1>3, <1>4
  <2> QED BY <2>1, <2>2, <2>3 DEF PuttersOK
<1> QED BY <1>1, <1>8, <1>9 DEF t2, p2, e

\* Nobody files a fiber that does not wait.
LEMMA NotFiled ==
  ASSUME TypeOK, Filed, NEW f \in Fiber,
         \/ pc[f] \notin {"cleanup", "awaitItem", "awaitRoom"}
         \/ pc[f] \in {"awaitItem", "awaitRoom"} /\ deferred[f] = "done"
  PROVE  (\A i \in DOMAIN takers : takers[i] # f) /\ (\A i \in DOMAIN putters : putters[i].value.by # f)
BY DEF Filed, TakersOK, PuttersOK

\* The places of the others, and of a fiber nobody files, do not matter.
LEMMA FiledStill ==
  ASSUME TypeOK, Filed, NEW f \in Fiber, \A g \in Fiber \ {f} : pc'[g] = pc[g], NEW d,
         \A g \in Fiber \ {f} : d[g] = deferred[g],
         \/ pc[f] \notin {"cleanup", "awaitItem", "awaitRoom"}
         \/ pc[f] \in {"awaitItem", "awaitRoom"} /\ deferred[f] = "done"
         \/ pc'[f] = "cleanup"
  PROVE  TakersOK(takers, pc', d) /\ PuttersOK(putters, pc', d)
<1>1. \A i \in DOMAIN takers : takers[i] \in Fiber
  BY Made
<1>2. \A i \in DOMAIN putters : putters[i].value.by \in Fiber
  <2>1. putters \in Seq(Putter)
    BY Made
  <2>2. \A i \in DOMAIN putters : putters[i] \in Putter
    <3> HIDE DEF Putter
    <3> QED BY <2>1
  <2> QED BY <2>2, PutterParts
<1> DEFINE q == pc'
<1>3. \A g \in Fiber \ {f} : q[g] = pc[g]
  OBVIOUS
<1>4. q[f] = "cleanup" \/ ((\A i \in DOMAIN takers : takers[i] # f) /\ (\A i \in DOMAIN putters : putters[i].value.by # f))
  BY NotFiled
<1> HIDE DEF q
<1>5. TakersOK(takers, q, d)
  BY <1>1, <1>3, <1>4 DEF Filed, TakersOK
<1>6. PuttersOK(putters, q, d)
  BY <1>2, <1>3, <1>4 DEF Filed, PuttersOK
<1> QED BY <1>5, <1>6 DEF q

\* A step moves one fiber only.
LEMMA OthersStay ==
  ASSUME TypeOK, NEW f \in Fiber, Moves(f)
  PROVE  \A g \in Fiber \ {f} : pc'[g] = pc[g]
<1>1. pc \in [Fiber -> Place]
  BY Groups DEF ModeOK
<1>2. pc' = pc \/ \E p : pc' = [pc EXCEPT ![f] = p]
  <2> USE DEF GoTo
  <2>1. CASE Begin(f)
    BY <2>1 DEF Begin, Offer, UnsafeOffer, TakeOne, TakeBetween, Shutdown, Refused, Wants
  <2>2. CASE StopsWaiting(f) \/ StopsBetween(f)
    BY <2>2 DEF StopsWaiting, StopsBetween, Leaves, Stops
  <2>3. CASE Step(f)
    BY <2>3 DEF Step, PutSurplus, SlideSurplus, Admitted, Take, Register, Served, TakeUpTo, Poll, Aborted, Cleanup, ShutdownHook,
       InterruptWaiter, TakersInterrupted, ShutdownStrategy, ShutdownDone, Takes, Stops, Leaves
  <2> QED BY <2>1, <2>2, <2>3 DEF Moves
<1> QED BY <1>1, <1>2

\* A taker that waits may be filed.
LEMMA TakerAdded ==
  ASSUME NEW t \in Seq(Fiber), NEW f \in Fiber, NEW q, NEW d, TakersOK(t, q, d), \A i \in DOMAIN t : t[i] # f,
         q[f] = "cleanup" \/ (q[f] = "awaitItem" /\ d[f] # "done")
  PROVE  TakersOK(Append(t, f), q, d)
<1>1. DOMAIN t = 1..Len(t) /\ DOMAIN Append(t, f) = 1..(Len(t) + 1) /\ Len(t) \in Nat
  OBVIOUS
<1>2. \A i \in 1..Len(t) : Append(t, f)[i] = t[i]
  OBVIOUS
<1>3. Append(t, f)[Len(t) + 1] = f
  OBVIOUS
<1> DEFINE u == Append(t, f)
<1> HIDE DEF u
<1>4. \A i \in DOMAIN u : (i \in DOMAIN t /\ u[i] = t[i]) \/ (i = Len(t) + 1 /\ u[i] = f)
  BY <1>1, <1>2, <1>3 DEF u
<1> QED BY <1>4 DEF TakersOK, u

\* So may the putters of a surplus.
LEMMA PuttersAdded ==
  ASSUME NEW p \in Seq(Putter), NEW f \in Fiber, NEW q, NEW d, PuttersOK(p, q, d), \A i \in DOMAIN p : p[i].value.by # f,
         q[f] = "cleanup" \/ (q[f] = "awaitRoom" /\ d[f] # "done"),
         NEW vs \in Seq(Value), \A i \in DOMAIN vs : vs[i].by = f
  PROVE  PuttersOK(p \o AsPutters(vs), q, d)
<1> DEFINE ps == AsPutters(vs)  u == p \o ps  n == Len(p)  x == Len(vs)
<1>1. ps \in Seq(Putter) /\ Len(ps) = x /\ \A i \in 1..x : ps[i].value = vs[i] /\ (ps[i].last <=> i = x)
  BY PutterSeqParts
<1>2. \A i \in 1..x : ps[i].value.by = f
  BY <1>1
<1>13. ps \in Seq(Putter)
  BY <1>1
<1> HIDE DEF ps, Putter
<1>3. DOMAIN u = 1..(Len(p) + Len(ps))
  BY <1>13, ConcatParts
<1>4. \A k \in 1..Len(p) : u[k] = p[k]
  BY <1>13, ConcatParts
<1>5. \A k \in 1..Len(ps) : u[Len(p) + k] = ps[k]
  BY <1>13, ConcatParts
<1>6. n \in Nat /\ x \in Nat /\ DOMAIN p = 1..n /\ x = Len(ps)
  BY <1>1
<1> HIDE DEF u, n, x
<1>7. DOMAIN u = 1..(n + x) /\ (\A k \in 1..n : u[k] = p[k]) /\ (\A k \in 1..x : u[n + k] = ps[k])
  BY <1>3, <1>4, <1>5, <1>6 DEF n
<1>8. ASSUME NEW i \in DOMAIN u
      PROVE  \/ i \in 1..n /\ u[i] = p[i] /\ u[i].value.by # f
             \/ i > n /\ u[i].value.by = f /\ (u[i].last <=> i = n + x)
  <2>1. CASE i \in 1..n
    BY <2>1, <1>6, <1>7
  <2>2. CASE i \notin 1..n
    <3>1. (i - n) \in 1..x /\ i = n + (i - n) /\ i > n
      BY <2>2, <1>6, <1>7
    <3>2. u[i] = ps[i - n]
      BY <3>1, <1>7
    <3> QED BY <3>1, <3>2, <1>1, <1>2, <1>6
  <2> QED BY <2>1, <2>2
<1>9. ASSUME NEW i \in DOMAIN u PROVE q[u[i].value.by] = "cleanup" \/ (q[u[i].value.by] = "awaitRoom" /\ d[u[i].value.by] # "done")
  BY <1>8, <1>6 DEF PuttersOK
<1>10. ASSUME NEW i \in DOMAIN u PROVE \E j \in DOMAIN u : i <= j /\ u[j].last /\ u[j].value.by = u[i].value.by
  <2>1. CASE i \in 1..n
    <3>1. PICK j \in DOMAIN p : i <= j /\ p[j].last /\ p[j].value.by = p[i].value.by
      BY <2>1, <1>6 DEF PuttersOK
    <3> QED BY <2>1, <3>1, <1>6, <1>7
  <2>2. CASE i \notin 1..n
    <3>1. n + x \in DOMAIN u /\ i <= n + x /\ n + x > n /\ u[i].value.by = f
      BY <2>2, <1>6, <1>7, <1>8
    <3>2. u[n + x].last /\ u[n + x].value.by = f
      BY <3>1, <1>6, <1>8
    <3> QED BY <3>1, <3>2
  <2> QED BY <2>1, <2>2
<1>11. ASSUME NEW i \in DOMAIN u, NEW j \in DOMAIN u, u[i].last, u[j].last, u[j].value.by = u[i].value.by PROVE i = j
  <2>1. CASE i \in 1..n /\ j \in 1..n
    BY <2>1, <1>6, <1>7, <1>11 DEF PuttersOK
  <2>2. CASE ~(i \in 1..n /\ j \in 1..n)
    <3>1. i = n + x /\ j = n + x
      BY <2>2, <1>6, <1>8, <1>11
    <3> QED BY <3>1
  <2> QED BY <2>1, <2>2
<1>12. PuttersOK(u, q, d)
  BY <1>9, <1>10, <1>11 DEF PuttersOK
<1> QED BY <1>12 DEF u, ps

\* A step that serves keeps the files.
LEMMA FiledServes ==
  ASSUME TypeOK, SurplusInv, Filed, NEW f \in Fiber, Moves(f), Serves(f)
  PROVE  Filed'
<1>1. pc \in [Fiber -> Place] /\ deferred \in [Fiber -> Outcome] /\ takers \in Seq(Fiber) /\ putters \in Seq(Putter)
  BY Groups, Made DEF ModeOK
<1>2. \A g \in Fiber \ {f} : pc'[g] = pc[g]
  BY OthersStay
<1>3. Pending(f)[f] = "pending" /\ \A g \in Fiber \ {f} : Pending(f)[g] = deferred[g]
  BY <1>1 DEF Pending
<1> DEFINE q == pc'  d == Pending(f)
<1>4. CASE pc[f] \in {"idle", "surplus", "take", "polling"} /\ Done(takers, putters, deferred)
  <2>1. TakersOK(takers, q, deferred) /\ PuttersOK(putters, q, deferred)
    BY <1>2, <1>4, FiledStill
  <2>2. Delivers(takers, putters, deferred)
    BY <1>4 DEF Done
  <2> HIDE DEF q
  <2>3. TakersOK(takers', q, deferred') /\ PuttersOK(putters', q, deferred')
    BY <2>1, <2>2, <1>1, DeliveredFiled
  <2> QED BY <2>3 DEF q, Filed
<1>5. CASE Register(f) /\ Done(Append(takers, f), putters, Pending(f))
  <2>1. pc[f] = "register" /\ q[f] \in {"cleanup", "awaitItem"}
    BY <1>1, <1>5 DEF Register, GoTo
  <2>2. TakersOK(takers, q, d) /\ PuttersOK(putters, q, d)
    BY <1>2, <1>3, <2>1, FiledStill
  <2>3. \A i \in DOMAIN takers : takers[i] # f
    BY <2>1, NotFiled
  <2>4. Delivers(Append(takers, f), putters, d) /\ Append(takers, f) \in Seq(Fiber)
    BY <1>1, <1>5 DEF Done
  <2>5. d[f] # "done"
    BY <1>3
  <2> HIDE DEF q, d
  <2>6. TakersOK(Append(takers, f), q, d)
    BY <2>1, <2>2, <2>3, <2>5, <1>1, TakerAdded
  <2>7. TakersOK(takers', q, deferred') /\ PuttersOK(putters', q, deferred')
    BY <2>2, <2>4, <2>6, <1>1, DeliveredFiled
  <2> QED BY <2>7 DEF q, Filed
<1>6. CASE PutSurplus(f) /\ Done(takers, putters \o AsPutters(surplus[f]), Pending(f))
  <2>1. pc[f] = "surplus" /\ q[f] \in {"cleanup", "awaitRoom"}
    BY <1>1, <1>6 DEF PutSurplus, GoTo
  <2>2. TakersOK(takers, q, d) /\ PuttersOK(putters, q, d)
    BY <1>2, <1>3, <2>1, FiledStill
  <2>3. \A i \in DOMAIN putters : putters[i].value.by # f
    BY <2>1, NotFiled
  <2> DEFINE vs == surplus[f]  p == putters \o AsPutters(vs)
  <2>4. vs \in Seq(Value)
    BY DEF TypeOK
  <2>5. \A i \in DOMAIN vs : vs[i].by = f
    <3>1. \A i \in DOMAIN surplus[f] : surplus[f][i] = [by |-> f, n |-> (sent[f] - Len(surplus[f])) + i]
      BY DEF SurplusInv
    <3>2. \A x : [by |-> f, n |-> x].by = f
      OBVIOUS
    <3> QED BY <3>1, <3>2, Zenon
  <2>6. Delivers(takers, p, d)
    BY <1>6 DEF Done
  <2>7. d[f] # "done"
    BY <1>3
  <2> HIDE DEF q, d, vs
  <2>8. PuttersOK(p, q, d)
    BY <2>1, <2>2, <2>3, <2>4, <2>5, <2>7, <1>1, PuttersAdded
  <2>9. AsPutters(vs) \in Seq(Putter)
    BY <2>4, PutterSeqParts
  <2>10. p \in Seq(Putter)
    <3> DEFINE ps == AsPutters(vs)
    <3>1. ps \in Seq(Putter) /\ putters \in Seq(Putter)
      BY <2>9, <1>1
    <3> HIDE DEF ps, Putter
    <3>2. putters \o ps \in Seq(Putter)
      BY <3>1, ConcatParts
    <3> QED BY <3>2 DEF ps
  <2> HIDE DEF p
  <2>11. TakersOK(takers', q, deferred') /\ PuttersOK(putters', q, deferred')
    BY <2>2, <2>6, <2>8, <2>10, <1>1, DeliveredFiled
  <2> QED BY <2>11 DEF q, Filed
<1> QED BY <1>4, <1>5, <1>6 DEF Serves

\* unsafeRemove of a taker keeps the files of the others,
LEMMA TakersPicked ==
  ASSUME NEW t \in Seq(Fiber), NEW f \in Fiber, NEW q, NEW d, TakersOK(t, q, d),
         NEW q2, \A g \in Fiber \ {f} : q2[g] = q[g]
  PROVE  TakersOK(Pick(t, {i \in DOMAIN t : t[i] # f}), q2, d)
<1> DEFINE at == {i \in DOMAIN t : t[i] # f}  u == Pick(t, at)  n == Cardinality(at)
<1>1. at \subseteq DOMAIN t /\ \A i \in at : t[i] # f /\ t[i] \in Fiber
  OBVIOUS
<1> HIDE DEF at
<1>2. /\ u \in Seq(Fiber) /\ Len(u) = n /\ n \in Nat
      /\ \A k \in 1..n : PlaceOf(at, k) \in at /\ u[k] = t[PlaceOf(at, k)]
      /\ \A k, l \in 1..n : PlaceOf(at, k) = PlaceOf(at, l) => k = l
  BY <1>1, PickParts
<1>3. DOMAIN u = 1..n
  BY <1>2
<1> HIDE DEF u, n
<1>4. ASSUME NEW k \in DOMAIN u PROVE q2[u[k]] = "cleanup" \/ (q2[u[k]] = "awaitItem" /\ d[u[k]] # "done")
  <2>1. PICK i \in at : u[k] = t[i]
    BY <1>2, <1>3
  <2> QED BY <2>1, <1>1 DEF TakersOK
<1>5. ASSUME NEW k \in DOMAIN u, NEW l \in DOMAIN u, u[k] = u[l] PROVE k = l
  <2>1. PlaceOf(at, k) = PlaceOf(at, l)
    BY <1>1, <1>2, <1>3, <1>5 DEF TakersOK
  <2> QED BY <2>1, <1>2, <1>3
<1>6. TakersOK(u, q2, d)
  BY <1>4, <1>5 DEF TakersOK
<1> QED BY <1>6 DEF u, at

\* and so does that of putters.
LEMMA PuttersPicked ==
  ASSUME NEW p \in Seq(Putter), NEW f \in Fiber, NEW q, NEW d, PuttersOK(p, q, d),
         NEW q2, \A g \in Fiber \ {f} : q2[g] = q[g]
  PROVE  PuttersOK(Pick(p, {i \in DOMAIN p : p[i].value.by # f}), q2, d)
<1> DEFINE at == {i \in DOMAIN p : p[i].value.by # f}  u == Pick(p, at)  n == Cardinality(at)
<1>7. \A i \in DOMAIN p : p[i].value.by \in Fiber
  <2>2. \A i \in DOMAIN p : p[i] \in Putter
    <3> HIDE DEF Putter
    <3> QED OBVIOUS
  <2> QED BY <2>2, PutterParts
<1>1. at \subseteq DOMAIN p /\ (\A i \in at : p[i].value.by # f /\ p[i].value.by \in Fiber) /\ (\A i \in DOMAIN p : p[i].value.by # f => i \in at)
  BY <1>7
<1> HIDE DEF at, Putter
<1>2. /\ u \in Seq(Putter) /\ Len(u) = n /\ n \in Nat
      /\ \A k \in 1..n : PlaceOf(at, k) \in at /\ u[k] = p[PlaceOf(at, k)]
      /\ \A k, l \in 1..n : PlaceOf(at, k) = PlaceOf(at, l) => k = l
      /\ \A k, l \in 1..n : PlaceOf(at, k) <= PlaceOf(at, l) => k <= l
      /\ \A i \in at : \E k \in 1..n : PlaceOf(at, k) = i
  BY <1>1, PickParts
<1>3. DOMAIN u = 1..n
  BY <1>2
<1> HIDE DEF u, n
<1>4. ASSUME NEW k \in DOMAIN u PROVE q2[u[k].value.by] = "cleanup" \/ (q2[u[k].value.by] = "awaitRoom" /\ d[u[k].value.by] # "done")
  <2>1. PICK i \in at : u[k] = p[i]
    BY <1>2, <1>3
  <2> QED BY <2>1, <1>1 DEF PuttersOK
<1>5. ASSUME NEW k \in DOMAIN u PROVE \E j \in DOMAIN u : k <= j /\ u[j].last /\ u[j].value.by = u[k].value.by
  <2> DEFINE i == PlaceOf(at, k)
  <2>1. i \in at /\ u[k] = p[i] /\ i \in DOMAIN p
    BY <1>1, <1>2, <1>3
  <2>2. PICK j \in DOMAIN p : i <= j /\ p[j].last /\ p[j].value.by = p[i].value.by
    BY <2>1 DEF PuttersOK
  <2>3. j \in at
    BY <2>1, <2>2, <1>1
  <2>4. PICK l \in 1..n : PlaceOf(at, l) = j
    BY <2>3, <1>2
  <2>5. k <= l
    BY <2>2, <2>4, <1>2, <1>3
  <2> QED BY <2>1, <2>2, <2>4, <2>5, <1>2, <1>3
<1>6. ASSUME NEW k \in DOMAIN u, NEW l \in DOMAIN u, u[k].last, u[l].last, u[l].value.by = u[k].value.by PROVE k = l
  <2>1. PlaceOf(at, k) = PlaceOf(at, l)
    BY <1>1, <1>2, <1>3, <1>6 DEF PuttersOK
  <2> QED BY <2>1, <1>2, <1>3
<1>8. PuttersOK(u, q2, d)
  BY <1>4, <1>5, <1>6 DEF PuttersOK
<1> QED BY <1>8 DEF u, at

\* Every step keeps the files.
LEMMA FiledKept ==
  ASSUME TypeInv, Filed, NEW f \in Fiber, Moves(f)
  PROVE  Filed'
<1>1. TypeOK /\ Balanced /\ SurplusInv
  BY DEF TypeInv
<1>2. pc \in [Fiber -> Place] /\ deferred \in [Fiber -> Outcome] /\ takers \in Seq(Fiber) /\ putters \in Seq(Putter)
  BY <1>1, Groups, Made DEF ModeOK
<1>3. \A g \in Fiber \ {f} : pc'[g] = pc[g]
  BY <1>1, OthersStay
<1>4. CASE Serves(f)
  BY <1>1, <1>4, FiledServes
<1>5. CASE Rests /\ ~Cleanup(f)
  <2>1. takers' = takers /\ putters' = putters /\ deferred' = deferred
    BY <1>5 DEF Rests, store, waiting
  <2>2. \/ pc[f] \notin {"cleanup", "awaitItem", "awaitRoom"}
        \/ pc[f] \in {"awaitItem", "awaitRoom"} /\ deferred[f] = "done"
        \/ pc'[f] = "cleanup"
    <3>1. CASE Begin(f)
      BY <3>1 DEF Begin, Begins, Offer, UnsafeOffer, TakeOne, TakeBetween, Shutdown, Refused
    <3>2. CASE StopsWaiting(f) \/ StopsBetween(f)
      BY <3>2, <1>2 DEF StopsWaiting, StopsBetween, Leaves, GoTo
    <3>3. CASE Step(f)
      BY <3>3, <1>2, <1>5 DEF Step, PutSurplus, SlideSurplus, Admitted, Take, Register, Served, TakeUpTo, Poll, Aborted, ShutdownHook,
         InterruptWaiter, TakersInterrupted, ShutdownStrategy, ShutdownDone, Leaves, GoTo
    <3> QED BY <3>1, <3>2, <3>3 DEF Moves
  <2> DEFINE q == pc'
  <2>3. TakersOK(takers, q, deferred) /\ PuttersOK(putters, q, deferred)
    BY <1>1, <1>3, <2>2, FiledStill
  <2> HIDE DEF q
  <2> QED BY <2>1, <2>3 DEF Filed, q
<1>6. CASE Cleanup(f)
  <2>1. takers' = Pick(takers, {i \in DOMAIN takers : takers[i] # f}) /\ putters' = Pick(putters, {i \in DOMAIN putters : putters[i].value.by # f})
        /\ deferred' = deferred
    BY <1>6 DEF Cleanup, waiting
  <2> DEFINE q == pc'  x == Pick(takers, {i \in DOMAIN takers : takers[i] # f})  y == Pick(putters, {i \in DOMAIN putters : putters[i].value.by # f})
  <2>2. \A g \in Fiber \ {f} : q[g] = pc[g]
    BY <1>3
  <2> HIDE DEF q
  <2>3. TakersOK(x, q, deferred)
    BY <1>2, <2>2, TakersPicked DEF Filed
  <2>4. PuttersOK(y, q, deferred)
    BY <1>2, <2>2, PuttersPicked DEF Filed
  <2> HIDE DEF x, y
  <2>5. takers' = x /\ putters' = y /\ deferred' = deferred
    BY <2>1 DEF x, y
  <2> QED BY <2>3, <2>4, <2>5 DEF Filed, q
<1>7. CASE Shutdown(f) \/ ShutdownStrategy(f)
  <2> DEFINE q == pc'
  <2>1. pc[f] \notin {"cleanup", "awaitItem", "awaitRoom"}
    BY <1>7 DEF Shutdown, Begins, ShutdownStrategy
  <2>2. TakersOK(takers, q, deferred) /\ PuttersOK(putters, q, deferred)
    BY <1>1, <1>3, <2>1, FiledStill
  <2>3. (takers' = takers \/ takers' = <<>>) /\ (putters' = putters \/ putters' = <<>>) /\ deferred' = deferred
    BY <1>7 DEF Shutdown, ShutdownStrategy, waiting
  <2> HIDE DEF q
  <2>4. TakersOK(<<>>, q, deferred) /\ PuttersOK(<<>>, q, deferred)
    BY DEF TakersOK, PuttersOK
  <2>5. TakersOK(takers', q, deferred') /\ PuttersOK(putters', q, deferred')
    BY <2>2, <2>3, <2>4
  <2> QED BY <2>5 DEF Filed, q
<1>8. CASE InterruptWaiter(f)
  <2>1. pc' = pc /\ takers' = takers /\ putters' = putters /\ \A g \in Fiber : deferred'[g] = "done" => deferred[g] = "done"
    BY <1>2, <1>8 DEF InterruptWaiter, store
  <2>2. \A i \in DOMAIN takers : takers[i] \in Fiber
    BY <1>2
  <2>3. \A i \in DOMAIN putters : putters[i].value.by \in Fiber
    <3>2. \A i \in DOMAIN putters : putters[i] \in Putter
      <4> HIDE DEF Putter
      <4> QED BY <1>2
    <3> QED BY <3>2, PutterParts
  <2>4. TakersOK(takers, pc, deferred')
    BY <2>1, <2>2 DEF Filed, TakersOK
  <2>5. PuttersOK(putters, pc, deferred')
    BY <2>1, <2>3 DEF Filed, PuttersOK
  <2> QED BY <2>1, <2>4, <2>5 DEF Filed
<1> QED BY <1>1, <1>4, <1>5, <1>6, <1>7, <1>8, StoreSteps

\* A shutdown is one of a fiber that may shut down, and the flag is set first.
LEMMA CloseKept ==
  ASSUME TypeOK, CloseInv, NEW f \in Fiber, Moves(f)
  PROVE  CloseInv'
<1>1. pc \in [Fiber -> Place]
  BY Groups DEF ModeOK
<1>2. \A g \in Fiber \ {f} : pc'[g] = pc[g]
  BY OthersStay
<1>3. flag => flag'
  BY DEF Moves, Begin, Step, StopsWaiting, StopsBetween, Leaves, Stops, Offer, UnsafeOffer, TakeOne, TakeBetween, Shutdown, Refused,
       PutSurplus, SlideSurplus, Admitted, Take, Register, Served, TakeUpTo, Poll, Aborted, Cleanup, ShutdownHook,
       InterruptWaiter, TakersInterrupted, ShutdownStrategy, ShutdownDone, closing
<1>4. pc'[f] \in Shutting => (pc[f] \in Shutting \/ Shutdown(f))
  <2> USE <1>1 DEF GoTo, Shutting
  <2>1. CASE Begin(f)
    BY <2>1 DEF Begin, Begins, Offer, UnsafeOffer, TakeOne, TakeBetween, Wants, Refused
  <2>2. CASE StopsWaiting(f) \/ StopsBetween(f)
    BY <2>2 DEF StopsWaiting, StopsBetween, Leaves, Stops
  <2>3. CASE Step(f)
    BY <2>3 DEF Step, PutSurplus, SlideSurplus, Admitted, Take, Register, Served, TakeUpTo, Poll, Aborted, Cleanup, ShutdownHook,
       InterruptWaiter, TakersInterrupted, ShutdownStrategy, ShutdownDone, Takes, Stops, Leaves
  <2> QED BY <2>1, <2>2, <2>3 DEF Moves
<1>5. hook' => (hook \/ pc[f] = "hook")
  BY DEF Moves, Begin, Step, StopsWaiting, StopsBetween, Leaves, Stops, Offer, UnsafeOffer, TakeOne, TakeBetween, Shutdown, Refused,
       PutSurplus, SlideSurplus, Admitted, Take, Register, Served, TakeUpTo, Poll, Aborted, Cleanup, ShutdownHook,
       InterruptWaiter, TakersInterrupted, ShutdownStrategy, ShutdownDone, closing
<1>6. Shutdown(f) => flag' /\ "shutdown" \in Role[f]
  BY DEF Shutdown, Begins
<1>7. hook' => flag'
  BY <1>3, <1>5 DEF CloseInv, Shutting
<1>8. ASSUME NEW c \in Fiber, pc'[c] \in Shutting PROVE flag' /\ "shutdown" \in Role[c]
  BY <1>2, <1>3, <1>4, <1>6, <1>8 DEF CloseInv
<1> QED BY <1>7, <1>8 DEF CloseInv

\* Who waits, and that a shutdown began with the flag.
WaitInv == TypeInv /\ Filed /\ CloseInv

\* The files and the flag are as they should, always.
LEMMA WaitsKept == Spec => []WaitInv
<1>1. Init => WaitInv
  <2> SUFFICES ASSUME Init PROVE WaitInv
    OBVIOUS
  <2>1. takers = <<>> /\ putters = <<>> /\ hook = FALSE /\ \A c \in Fiber : pc[c] = "idle"
    BY DEF Init
  <2>2. Filed
    BY <2>1 DEF Filed, TakersOK, PuttersOK
  <2>3. CloseInv
    BY <2>1 DEF CloseInv, Shutting
  <2> QED BY <2>2, <2>3, TypeInit DEF WaitInv
<1>2. WaitInv /\ [Next]_vars => WaitInv'
  <2> SUFFICES ASSUME WaitInv, [Next]_vars PROVE WaitInv'
    OBVIOUS
  <2>0. TypeInv /\ TypeOK /\ Filed /\ CloseInv
    BY DEF WaitInv, TypeInv
  <2>1. CASE UNCHANGED vars
    <3>1. TypeInv'
      BY <2>0, <2>1, TypeStutter
    <3>2. Filed' /\ CloseInv'
      BY <2>0, <2>1 DEF vars, store, waiting, closing, Filed, TakersOK, PuttersOK, CloseInv
    <3> QED BY <3>1, <3>2 DEF WaitInv
  <2>2. CASE \E f \in Fiber : Moves(f)
    BY <2>0, <2>2, TypeStep, FiledKept, CloseKept DEF WaitInv
  <2> QED BY <2>1, <2>2, NextMoves
<1> QED BY <1>1, <1>2, PTL DEF Spec

\* offerAll resumes only when every value it brought was admitted, whatever the batches.
THEOREM AdmittedAsAWhole == Spec => []AdmittedWhole
<1>1. WaitInv => AdmittedWhole
  <2> SUFFICES ASSUME WaitInv, NEW f \in Fiber, pc[f] = "awaitRoom", deferred[f] = "done", NEW p \in Elements(putters), p.value.by = f PROVE FALSE
    BY DEF AdmittedWhole
  <2>1. PICK i \in DOMAIN putters : p = putters[i]
    BY DEF Elements
  <2> QED BY <2>1 DEF WaitInv, Filed, PuttersOK
<1> QED BY <1>1, WaitsKept, PTL

\* What is settled in one go is what the two loops of the code settle, from every
\* state the operations call them in.
THEOREM SettlesAsTheLoops == Spec => []SettleIsTheLoops
BY TypesKept, SettleLoops, PTL

\* Batches are admitted and taken as a whole, and settled as the loops settle them.
THEOREM BatchesStayWhole == Spec => []BatchesWhole
BY TypeCorrect, AdmittedAsAWhole, TakesBetween, SettlesAsTheLoops, PTL DEF BatchesWhole

\* No fiber waits for a value while there is one, and none for room while there is
\* room, however many fibers shut the queue down.
THEOREM SidesNeverBothWait ==
  Spec => [](/\ takers # <<>> => content = <<>> /\ putters = <<>>
             /\ putters # <<>> => Len(content) = capacity)
BY TypesKept, PTL DEF TypeInv, Balanced, Settled
----------------------------------------------------------------------------
(* Those who wait, and the shutdown.                                       *)

\* h waits for somebody to complete its deferred.
Stuck(h) == Waits(h) /\ deferred[h] = "pending"
\* Somebody who shuts the queue down will come to h.
Closer(c, h) ==
  /\ pc[c] \in Shutting /\ (pc[c] = "hook" => ~hook)
  /\ \/ pc[c] \in {"hook", "takers"} /\ pc[h] = "awaitItem" /\ h \in waiters[c]
     \/ pc[c] \in {"hook", "takers", "putters"} /\ pc[h] = "awaitRoom" /\ Queued(h)
     \/ pc[c] = "waiters" /\ pc[h] = "awaitRoom" /\ h \in waiters[c]
\* h is where the operations look.
Found(h) == ~flag /\ IF pc[h] = "awaitItem" THEN h \in Elements(takers) ELSE Queued(h)
Known(h) == Found(h) \/ \E c \in Fiber : Closer(c, h)

\* What is picked is still there.
LEMMA PickFinds ==
  ASSUME NEW S, NEW s \in Seq(S), NEW at, at \subseteq DOMAIN s
  PROVE  \A i \in at : \E k \in DOMAIN Pick(s, at) : Pick(s, at)[k] = s[i]
<1> DEFINE u == Pick(s, at)  n == Cardinality(at)
<1>1. /\ u \in Seq(S) /\ Len(u) = n /\ n \in Nat
      /\ \A k \in 1..n : PlaceOf(at, k) \in at /\ u[k] = s[PlaceOf(at, k)]
      /\ \A i \in at : \E k \in 1..n : PlaceOf(at, k) = i
  BY PickParts
<1>2. DOMAIN u = 1..n
  BY <1>1
<1> HIDE DEF u, n
<1>3. \A i \in at : \E k \in DOMAIN u : u[k] = s[i]
  BY <1>1, <1>2
<1> QED BY <1>3 DEF u

\* KnownInv, fiber by fiber.
LEMMA KnownParts == KnownInv <=> \A h \in Fiber : Stuck(h) => Known(h)
BY DEF KnownInv, Stuck, Known, Found, Closer

\* Who is not served is still among the takers or the putters.
LEMMA DeliveredKnown ==
  ASSUME NEW t \in Seq(Fiber), NEW p \in Seq(Putter), NEW d, Delivers(t, p, d), NEW h \in Fiber, deferred'[h] = "pending"
  PROVE  /\ d[h] = "pending"
         /\ h \in Elements(t) => h \in Elements(takers)'
         /\ (\E i \in DOMAIN p : p[i].value.by = h /\ p[i].last) => Queued(h)'
<1>1. PICK g, m \in Nat :
        /\ g <= Len(t) /\ m <= Len(p)
        /\ takers' = From(t, g + 1) /\ putters' = From(p, m + 1)
        /\ (deferred'[h] = d[h] \/ (d[h] = "pending" /\ deferred'[h] = "done"))
        /\ \A i \in 1..g : deferred'[t[i]] # "pending"
        /\ \A i \in 1..m : p[i].last => deferred'[p[i].value.by] # "pending"
  BY DEF Delivers
<1> DEFINE t2 == From(t, g + 1)  p2 == From(p, m + 1)  e == deferred'
<1>2. DOMAIN t2 = 1..(Len(t) - g) /\ \A k \in 1..(Len(t) - g) : t2[k] = t[g + k]
  <2>1. DOMAIN t2 = 1..(Len(t) - g)
    BY <1>1, FromParts
  <2>2. \A k \in 1..(Len(t) - g) : t2[k] = t[g + k]
    BY <1>1, FromParts
  <2> QED BY <2>1, <2>2
<1>3. DOMAIN p2 = 1..(Len(p) - m) /\ \A k \in 1..(Len(p) - m) : p2[k] = p[m + k]
  <2> HIDE DEF Putter
  <2>1. DOMAIN p2 = 1..(Len(p) - m)
    BY <1>1, FromParts
  <2>2. \A k \in 1..(Len(p) - m) : p2[k] = p[m + k]
    BY <1>1, FromParts
  <2> QED BY <2>1, <2>2
<1>4. DOMAIN t = 1..Len(t) /\ DOMAIN p = 1..Len(p) /\ Len(t) \in Nat /\ Len(p) \in Nat
  <2> HIDE DEF Putter
  <2> QED OBVIOUS
<1> HIDE DEF t2, p2, e
<1>5. takers' = t2 /\ putters' = p2 /\ deferred' = e /\ e[h] = "pending"
  BY <1>1 DEF t2, p2, e
<1>6. (\A i \in 1..g : e[t[i]] # "pending") /\ (\A i \in 1..m : p[i].last => e[p[i].value.by] # "pending")
  BY <1>1 DEF e
<1>7. d[h] = "pending"
  BY <1>1, <1>5
<1>8. ASSUME NEW i \in DOMAIN t, t[i] = h PROVE \E k \in DOMAIN t2 : t2[k] = h
  <2>1. i - g \in DOMAIN t2 /\ t2[i - g] = t[i]
    BY <1>1, <1>2, <1>4, <1>5, <1>6, <1>8
  <2> QED BY <2>1, <1>8
<1>9. ASSUME NEW i \in DOMAIN p, p[i].value.by = h, p[i].last PROVE \E k \in DOMAIN p2 : p2[k].value.by = h /\ p2[k].last
  <2>1. i - m \in DOMAIN p2 /\ p2[i - m] = p[i]
    BY <1>1, <1>3, <1>4, <1>5, <1>6, <1>9
  <2> QED BY <2>1, <1>9
<1>10. h \in Elements(t) => h \in Elements(takers)'
  BY <1>5, <1>8 DEF Elements
<1>11. (\E i \in DOMAIN p : p[i].value.by = h /\ p[i].last) => Queued(h)'
  BY <1>5, <1>9 DEF Queued
<1> QED BY <1>7, <1>10, <1>11

\* A step that leaves those who shut down alone, and those who wait where they are.
LEMMA KnownPasses ==
  ASSUME NEW h \in Fiber, Known(h), pc'[h] = pc[h], UNCHANGED closing,
         h \in Elements(takers) => h \in Elements(takers)', Queued(h) => Queued(h)',
         \A c \in Fiber : pc[c] \in Shutting => pc'[c] = pc[c]
  PROVE  Known(h)'
<1>1. flag' = flag /\ hook' = hook /\ waiters' = waiters
  BY DEF closing
<1>2. CASE Found(h)
  BY <1>1, <1>2 DEF Known, Found
<1>3. CASE \E c \in Fiber : Closer(c, h)
  <2>1. PICK c \in Fiber : Closer(c, h)
    BY <1>3
  <2>2. pc'[c] = pc[c]
    BY <2>1 DEF Closer
  <2>3. Closer(c, h)'
    BY <2>1, <2>2, <1>1 DEF Closer
  <2> QED BY <2>3 DEF Known
<1> QED BY <1>2, <1>3 DEF Known

\* Every step leaves somebody who will come to the fibers that wait.
LEMMA KnownSteps ==
  ASSUME WaitInv, KnownInv, OneCloser, NEW f \in Fiber, Moves(f), NEW h \in Fiber, Stuck(h)'
  PROVE  Known(h)'
<1>0. TypeOK /\ Balanced /\ SurplusInv /\ CloseInv /\ Filed
  BY DEF WaitInv, TypeInv
<1>1. /\ pc \in [Fiber -> Place] /\ deferred \in [Fiber -> Outcome] /\ takers \in Seq(Fiber) /\ putters \in Seq(Putter)
      /\ waiters \in [Fiber -> SUBSET Fiber]
  BY <1>0, Groups, Made DEF ModeOK
<1>2. \A g \in Fiber \ {f} : pc'[g] = pc[g]
  BY <1>0, OthersStay
<1>3. Waits(h)' /\ deferred'[h] = "pending"
  BY DEF Stuck
<1>4. \A g \in Fiber : Stuck(g) => Known(g)
  BY KnownParts
<1>5. \A c \in Fiber : pc[c] \in Shutting => flag /\ (pc[f] \in Shutting \/ Shutdown(f) => c = f)
  <2>1. Shutdown(f) => "shutdown" \in Role[f]
    BY DEF Shutdown, Begins
  <2> QED BY <1>0, <2>1 DEF CloseInv, OneCloser
<1>6. CASE Shutdown(f)
  <2>1. /\ pc[f] = "idle" /\ pc' = [pc EXCEPT ![f] = "hook"] /\ UNCHANGED <<putters, deferred, hook>>
        /\ waiters' = [waiters EXCEPT ![f] = {takers[i] : i \in DOMAIN takers}]
    BY <1>6 DEF Shutdown, Begins, GoTo, waiting
  <2>2. h # f /\ pc'[h] = pc[h] /\ Stuck(h)
    BY <1>1, <1>2, <1>3, <2>1 DEF Stuck, Waits
  <2>3. \A c \in Fiber : pc[c] \notin Shutting
    BY <1>5, <1>6, <2>1 DEF Shutting
  <2>4. Found(h)
    BY <1>4, <2>2, <2>3 DEF Known, Closer
  <2>5. ~hook /\ pc'[f] = "hook" /\ hook' = hook /\ pc[h] \in {"awaitItem", "awaitRoom"}
    BY <1>0, <1>1, <2>1, <2>2, <2>4 DEF CloseInv, Found, Stuck, Waits
  <2>6. pc[h] = "awaitItem" => h \in waiters'[f]
    BY <1>1, <2>1, <2>4 DEF Found, Elements
  <2>7. pc[h] = "awaitRoom" => Queued(h)'
    BY <2>1, <2>4 DEF Found, Queued
  <2>8. Closer(f, h)'
    BY <2>2, <2>5, <2>6, <2>7 DEF Closer, Shutting
  <2> QED BY <2>8 DEF Known
<1>7. CASE pc[f] \in Shutting
  <2>1. CASE ShutdownHook(f)
    <3>1. pc[f] = "hook" /\ UNCHANGED <<takers, putters, deferred, flag>>
          /\ pc' = [pc EXCEPT ![f] = IF hook THEN "idle" ELSE "takers"]
          /\ waiters' = [waiters EXCEPT ![f] = IF hook THEN {} ELSE @]
      BY <2>1 DEF ShutdownHook, GoTo, store, waiting
    <3>2. h # f /\ pc'[h] = pc[h] /\ Stuck(h)
      BY <1>1, <1>2, <1>3, <3>1 DEF Stuck, Waits
    <3>3. Closer(f, h)
      BY <1>4, <1>5, <1>7, <3>2 DEF Known, Closer, Found
    <3>4. ~hook
      BY <3>1, <3>3 DEF Closer
    <3>5. pc'[f] = "takers" /\ waiters'[f] = waiters[f]
      BY <1>1, <3>1, <3>4
    <3>6. Closer(f, h)'
      BY <3>1, <3>2, <3>3, <3>5 DEF Closer, Shutting, Queued
    <3> QED BY <3>6 DEF Known
  <2>2. CASE InterruptWaiter(f)
    <3>1. PICK g \in waiters[f] :
            /\ deferred' = [deferred EXCEPT ![g] = IF @ = "pending" THEN "interrupted" ELSE @]
            /\ waiters' = [waiters EXCEPT ![f] = @ \ {g}]
            /\ UNCHANGED <<pc, flag, hook, takers, putters>>
      BY <2>2 DEF InterruptWaiter, store
    <3>2. h # g /\ Stuck(h)
      BY <1>1, <1>3, <3>1 DEF Stuck, Waits
    <3>3. Closer(f, h)
      BY <1>4, <1>5, <1>7, <3>2 DEF Known, Closer, Found
    <3>4. h \in waiters[f] => h \in waiters'[f]
      BY <1>1, <3>1, <3>2
    <3>5. Closer(f, h)'
      BY <3>1, <3>3, <3>4 DEF Closer, Queued
    <3> QED BY <3>5 DEF Known
  <2>3. CASE TakersInterrupted(f) \/ ShutdownDone(f)
    <3>1. /\ pc[f] \in {"takers", "waiters"} /\ waiters[f] = {} /\ UNCHANGED <<takers, putters, deferred, flag, hook, waiters>>
          /\ pc[f] = "takers" => pc' = [pc EXCEPT ![f] = "putters"]
          /\ pc[f] = "waiters" => pc' = [pc EXCEPT ![f] = "idle"]
      BY <2>3 DEF TakersInterrupted, ShutdownDone, GoTo, store, waiting, closing
    <3>2. h # f /\ pc'[h] = pc[h] /\ Stuck(h)
      BY <1>1, <1>2, <1>3, <3>1 DEF Stuck, Waits
    <3>3. Closer(f, h)
      BY <1>4, <1>5, <1>7, <3>2 DEF Known, Closer, Found
    <3>4. pc[f] = "takers" /\ pc[h] = "awaitRoom" /\ Queued(h)
      BY <3>1, <3>3 DEF Closer
    <3>5. pc'[f] = "putters" /\ Queued(h)'
      BY <1>1, <3>1, <3>4 DEF Queued
    <3>6. Closer(f, h)'
      BY <3>2, <3>4, <3>5 DEF Closer, Shutting
    <3> QED BY <3>6 DEF Known
  <2>4. CASE ShutdownStrategy(f)
    <3>1. /\ pc[f] = "putters" /\ UNCHANGED <<takers, deferred, flag, hook>>
          /\ pc' = [pc EXCEPT ![f] = "waiters"]
          /\ waiters' = [waiters EXCEPT ![f] = {putters[i].value.by : i \in {j \in DOMAIN putters : putters[j].last}}]
      BY <2>4 DEF ShutdownStrategy, GoTo, waiting
    <3>2. h # f /\ pc'[h] = pc[h] /\ Stuck(h)
      BY <1>1, <1>2, <1>3, <3>1 DEF Stuck, Waits
    <3>3. Closer(f, h)
      BY <1>4, <1>5, <1>7, <3>2 DEF Known, Closer, Found
    <3>4. pc[h] = "awaitRoom" /\ Queued(h)
      BY <3>1, <3>3 DEF Closer
    <3>5. pc'[f] = "waiters" /\ h \in waiters'[f]
      BY <1>1, <3>1, <3>4 DEF Queued
    <3>6. Closer(f, h)'
      BY <3>2, <3>4, <3>5 DEF Closer, Shutting
    <3> QED BY <3>6 DEF Known
  <2>5. ShutdownHook(f) \/ InterruptWaiter(f) \/ TakersInterrupted(f) \/ ShutdownDone(f) \/ ShutdownStrategy(f)
    <3>1. ~Begin(f)
      BY <1>7 DEF Begin, Begins, Offer, UnsafeOffer, TakeOne, TakeBetween, Shutdown, Refused, Shutting
    <3>2. ~StopsWaiting(f) /\ ~StopsBetween(f)
      BY <1>7 DEF StopsWaiting, StopsBetween, Waits, Shutting
    <3> QED BY <1>7, <3>1, <3>2 DEF Moves, Step, PutSurplus, SlideSurplus, Admitted, Take, Register, Served, TakeUpTo, Poll, Aborted, Cleanup, Waits, Shutting
  <2> QED BY <2>1, <2>2, <2>3, <2>4, <2>5
<1>8. CASE pc[f] \notin Shutting /\ ~Shutdown(f)
  <2>1. UNCHANGED closing
    BY <1>8 DEF Moves, Begin, Step, StopsWaiting, StopsBetween, Leaves, Stops, Offer, UnsafeOffer, TakeOne, TakeBetween, Refused,
       PutSurplus, SlideSurplus, Admitted, Take, Register, Served, TakeUpTo, Poll, Aborted, Cleanup, ShutdownHook,
       InterruptWaiter, TakersInterrupted, ShutdownStrategy, ShutdownDone, Shutting
  <2>2. \A c \in Fiber : pc[c] \in Shutting => pc'[c] = pc[c]
    BY <1>2, <1>8
  <2>3. CASE Register(f)
    <3>1. pc[f] = "register" /\ pc' = [pc EXCEPT ![f] = IF flag THEN "cleanup" ELSE "awaitItem"]
      BY <2>3 DEF Register, GoTo
    <3> DEFINE t == Append(takers, f)  d == Pending(f)
    <3>2. Delivers(t, putters, d) /\ t \in Seq(Fiber)
      BY <1>0, <1>1, <2>3, TypeRegister DEF Done
    <3>3. Elements(takers) \subseteq Elements(t) /\ f \in Elements(t)
      <4>1. DOMAIN takers = 1..Len(takers) /\ DOMAIN t = 1..(Len(takers) + 1) /\ Len(takers) \in Nat
        BY <1>1
      <4>2. (\A i \in 1..Len(takers) : t[i] = takers[i]) /\ t[Len(takers) + 1] = f
        BY <1>1
      <4> HIDE DEF t
      <4> QED BY <4>1, <4>2 DEF Elements
    <3>4. \A g \in Fiber \ {f} : d[g] = deferred[g]
      BY <1>1 DEF Pending
    <3> HIDE DEF t, d
    <3>5. d[h] = "pending" /\ (h \in Elements(t) => h \in Elements(takers)') /\ (Queued(h) => Queued(h)')
      BY <1>1, <1>3, <3>2, DeliveredKnown DEF Queued
    <3>6. CASE h = f
      <4>1. pc'[f] = "awaitItem" /\ ~flag
        BY <1>1, <1>3, <3>1, <3>6 DEF Waits
      <4> QED BY <4>1, <3>3, <3>5, <3>6, <2>1 DEF Known, Found, closing
    <3>7. CASE h # f
      <4>1. pc'[h] = pc[h] /\ Stuck(h)
        BY <1>2, <1>3, <3>4, <3>5, <3>7 DEF Stuck, Waits
      <4>2. h \in Elements(takers) => h \in Elements(takers)'
        BY <3>3, <3>5
      <4> QED BY <1>4, <2>1, <2>2, <3>5, <4>1, <4>2, KnownPasses
    <3> QED BY <3>6, <3>7
  <2>4. CASE PutSurplus(f)
    <3>1. pc[f] = "surplus" /\ pc' = [pc EXCEPT ![f] = IF flag THEN "cleanup" ELSE "awaitRoom"]
      BY <2>4 DEF PutSurplus, GoTo
    <3> DEFINE vs == surplus[f]  ps == AsPutters(vs)  p == putters \o ps  d == Pending(f)  n == Len(putters)  x == Len(vs)
    <3>2. vs \in Seq(Value) /\ vs # <<>> /\ \A i \in 1..x : vs[i].by = f
      <4>1. vs \in Seq(Value) /\ vs # <<>> /\ DOMAIN vs = 1..x
        BY <1>0, <3>1 DEF TypeOK, SurplusInv
      <4>2. \A i \in DOMAIN surplus[f] : surplus[f][i] = [by |-> f, n |-> (sent[f] - Len(surplus[f])) + i]
        BY <1>0 DEF SurplusInv
      <4>3. \A y : [by |-> f, n |-> y].by = f
        OBVIOUS
      <4>4. \A i \in DOMAIN vs : vs[i].by = f
        BY <4>2, <4>3, Zenon
      <4> QED BY <4>1, <4>4
    <3>3. Delivers(takers, p, d)
      BY <1>0, <2>4, TypePutSurplus DEF Done
    <3>4. \A g \in Fiber \ {f} : d[g] = deferred[g]
      BY <1>1 DEF Pending
    <3> HIDE DEF vs, d
    <3>5. ps \in Seq(Putter) /\ Len(ps) = x /\ \A i \in 1..x : ps[i].value = vs[i] /\ (ps[i].last <=> i = x)
      BY <3>2, PutterSeqParts
    <3>6. x \in Nat /\ x >= 1
      <4> HIDE DEF Value
      <4> QED BY <3>2
    <3>7. ps[x].value.by = f /\ ps[x].last
      BY <3>2, <3>5, <3>6
    <3>8. ps \in Seq(Putter) /\ Len(ps) = x
      BY <3>5
    <3> HIDE DEF ps, x, Putter
    <3>9. p \in Seq(Putter)
      BY <1>1, <3>8, ConcatParts
    <3>10. DOMAIN p = 1..(Len(putters) + Len(ps))
      BY <1>1, <3>8, ConcatParts
    <3>11. \A k \in 1..Len(putters) : p[k] = putters[k]
      BY <1>1, <3>8, ConcatParts
    <3>12. \A k \in 1..Len(ps) : p[Len(putters) + k] = ps[k]
      BY <1>1, <3>8, ConcatParts
    <3>13. n \in Nat /\ DOMAIN putters = 1..n
      BY <1>1
    <3> HIDE DEF p, n
    <3>14. DOMAIN p = 1..(n + x) /\ (\A k \in 1..n : p[k] = putters[k]) /\ p[n + x] = ps[x]
      BY <3>6, <3>8, <3>10, <3>11, <3>12, <3>13 DEF n
    <3>15. Queued(h) => \E i \in DOMAIN p : p[i].value.by = h /\ p[i].last
      BY <3>6, <3>13, <3>14 DEF Queued
    <3>16. \E i \in DOMAIN p : p[i].value.by = f /\ p[i].last
      <4>1. n + x \in DOMAIN p
        BY <3>6, <3>13, <3>14
      <4> QED BY <4>1, <3>7, <3>14
    <3>17. d[h] = "pending" /\ (h \in Elements(takers) => h \in Elements(takers)')
           /\ ((\E i \in DOMAIN p : p[i].value.by = h /\ p[i].last) => Queued(h)')
      BY <1>1, <1>3, <3>3, <3>9, DeliveredKnown
    <3>18. CASE h = f
      <4>1. pc'[f] = "awaitRoom" /\ ~flag
        BY <1>1, <1>3, <3>1, <3>18 DEF Waits
      <4> QED BY <4>1, <3>16, <3>17, <3>18, <2>1 DEF Known, Found, closing
    <3>19. CASE h # f
      <4>1. pc'[h] = pc[h] /\ Stuck(h)
        BY <1>2, <1>3, <3>4, <3>17, <3>19 DEF Stuck, Waits
      <4> QED BY <1>4, <2>1, <2>2, <3>15, <3>17, <4>1, KnownPasses
    <3> QED BY <3>18, <3>19
  <2>5. CASE ~Register(f) /\ ~PutSurplus(f)
    <3>1. h # f
      <4> SUFFICES ASSUME h = f PROVE FALSE
        OBVIOUS
      <4>1. pc'[f] \in {"awaitItem", "awaitRoom"}
        BY <1>3 DEF Waits
      <4> USE <1>1, <1>8, <2>5, <4>1 DEF GoTo, Shutting
      <4>2. CASE Begin(f)
        BY <4>2 DEF Begin, Begins, Offer, UnsafeOffer, TakeOne, TakeBetween, Wants, Refused
      <4>3. CASE StopsWaiting(f) \/ StopsBetween(f)
        BY <4>3 DEF StopsWaiting, StopsBetween, Leaves, Stops
      <4>4. CASE Step(f)
        BY <4>4 DEF Step, SlideSurplus, Admitted, Take, Served, TakeUpTo, Poll, Aborted, Cleanup, ShutdownHook,
           InterruptWaiter, TakersInterrupted, ShutdownStrategy, ShutdownDone, Takes, Stops, Leaves
      <4> QED BY <4>2, <4>3, <4>4 DEF Moves
    <3>2. pc'[h] = pc[h]
      BY <1>2, <3>1
    <3>3. CASE Serves(f)
      <4>1. Delivers(takers, putters, deferred)
        BY <2>5, <3>3 DEF Serves, Done
      <4>2. deferred[h] = "pending" /\ (h \in Elements(takers) => h \in Elements(takers)') /\ (Queued(h) => Queued(h)')
        BY <1>1, <1>3, <4>1, DeliveredKnown DEF Queued
      <4>3. Stuck(h)
        BY <1>3, <3>2, <4>2 DEF Stuck, Waits
      <4> QED BY <1>4, <2>1, <2>2, <3>2, <4>2, <4>3, KnownPasses
    <3>4. CASE Rests
      <4>1. UNCHANGED <<takers, putters, deferred>>
        BY <3>4 DEF Rests, store, waiting
      <4>2. Stuck(h) /\ (h \in Elements(takers) => h \in Elements(takers)') /\ (Queued(h) => Queued(h)')
        BY <1>3, <3>2, <4>1 DEF Stuck, Waits, Queued
      <4> QED BY <1>4, <2>1, <2>2, <3>2, <4>2, KnownPasses
    <3>5. CASE Cleanup(f)
      <4> DEFINE at == {i \in DOMAIN takers : takers[i] # f}
                 ap == {i \in DOMAIN putters : putters[i].value.by # f}
                 t2 == Pick(takers, at)  p2 == Pick(putters, ap)
      <4>1. takers' = t2 /\ putters' = p2 /\ deferred' = deferred
        BY <3>5 DEF Cleanup, waiting
      <4>2. at \subseteq DOMAIN takers /\ ap \subseteq DOMAIN putters
        OBVIOUS
      <4>3. \A i \in DOMAIN takers : takers[i] = h => i \in at
        BY <3>1
      <4>4. \A i \in DOMAIN putters : putters[i].value.by = h => i \in ap
        BY <3>1
      <4> HIDE DEF at, ap, Putter
      <4>5. \A i \in at : \E k \in DOMAIN t2 : t2[k] = takers[i]
        BY <1>1, <4>2, PickFinds
      <4>6. \A i \in ap : \E k \in DOMAIN p2 : p2[k] = putters[i]
        BY <1>1, <4>2, PickFinds
      <4> HIDE DEF t2, p2
      <4>7. h \in Elements(takers) => h \in Elements(takers)'
        BY <4>1, <4>3, <4>5 DEF Elements
      <4>8. Queued(h) => Queued(h)'
        BY <4>1, <4>4, <4>6 DEF Queued
      <4>9. Stuck(h)
        BY <1>3, <3>2, <4>1 DEF Stuck, Waits
      <4> QED BY <1>4, <2>1, <2>2, <3>2, <4>7, <4>8, <4>9, KnownPasses
    <3>6. ~ShutdownStrategy(f) /\ ~InterruptWaiter(f)
      BY <1>8 DEF ShutdownStrategy, InterruptWaiter, Shutting
    <3> QED BY <1>0, <1>8, <3>3, <3>4, <3>5, <3>6, StoreSteps
  <2> QED BY <2>3, <2>4, <2>5
<1> QED BY <1>6, <1>7, <1>8

\* With one fiber that shuts down, somebody always will.
LEMMA KnownKept == OneCloser /\ Spec => [](WaitInv /\ KnownInv)
<1> DEFINE I == WaitInv /\ KnownInv
<1>1. Init => KnownInv
  BY DEF Init, KnownInv, Waits
<1>2. OneCloser /\ I /\ [Next]_vars => KnownInv'
  <2> SUFFICES ASSUME OneCloser, WaitInv, KnownInv, [Next]_vars PROVE KnownInv'
    OBVIOUS
  <2>1. CASE UNCHANGED vars
    BY <2>1 DEF vars, store, waiting, closing, KnownInv, Waits, Queued
  <2>2. CASE \E f \in Fiber : Moves(f)
    <3>1. \A h \in Fiber : Stuck(h)' => Known(h)'
      BY <2>2, KnownSteps
    <3>2. KnownInv' <=> \A h \in Fiber : Stuck(h)' => Known(h)'
      BY DEF KnownInv, Stuck, Known, Found, Closer
    <3> QED BY <3>1, <3>2
  <2> QED BY <2>1, <2>2, NextMoves
<1>3. OneCloser => OneCloser'
  BY DEF OneCloser
<1>4. SUFFICES ASSUME OneCloser PROVE Spec => []I
  OBVIOUS
<1>5. Init => KnownInv
  BY <1>1
<1>6. KnownInv /\ WaitInv /\ [Next]_vars => KnownInv'
  BY <1>2, <1>4
<1> QED BY <1>5, <1>6, WaitsKept, PTL DEF Spec

\* take, offer and their cleanups never leave two sides waiting for each other, and
\* whoever waits is found, if no two fibers shut the queue down.  With two it is not so:
\* the first to set the flag need not be the one whose shutdown goes on.
THEOREM NobodyIsForgotten == OneCloser /\ Spec => []NobodyWaitsForNothing
<1>1. WaitInv /\ KnownInv => NobodyWaitsForNothing
  <2> SUFFICES ASSUME WaitInv, KnownInv PROVE NobodyWaitsForNothing
    OBVIOUS
  <2>1. Balanced
    BY DEF WaitInv, TypeInv
  <2>2. ASSUME NEW f \in Fiber, Waits(f), deferred[f] = "pending"
        PROVE  \/ \E g \in Fiber : pc[g] # "idle" /\ f \in waiters[g]
               \/ pc[f] = "awaitItem" /\ f \in Elements(takers)
               \/ pc[f] = "awaitRoom" /\ \E p \in Elements(putters) : p.value.by = f /\ p.last
    <3>1. Known(f)
      BY <2>2, KnownParts DEF Stuck
    <3>2. Queued(f) => \E p \in Elements(putters) : p.value.by = f /\ p.last
      BY DEF Queued, Elements
    <3>3. pc[f] \in {"awaitItem", "awaitRoom"}
      BY <2>2 DEF Waits
    <3>4. CASE Found(f)
      BY <3>2, <3>3, <3>4 DEF Found
    <3>5. CASE \E c \in Fiber : Closer(c, f)
      BY <3>2, <3>5 DEF Closer, Shutting
    <3> QED BY <3>1, <3>4, <3>5 DEF Known
  <2>3. WaitersKnown
    BY <2>2 DEF WaitersKnown
  <2> QED BY <2>1, <2>3 DEF Balanced, Settled, NobodyWaitsForNothing
<1> QED BY <1>1, KnownKept, PTL

\* When the shutdown of the only fiber that may do so is through, nobody waits.
THEOREM OneShutdownInterrupts == OneCloser /\ Spec => []ShutdownInterrupts
<1>1. KnownInv => ShutdownInterrupts
  BY DEF KnownInv, ShutdownInterrupts, Shutting
<1> QED BY <1>1, KnownKept, PTL

----------------------------------------------------------------------------
(* The queue as a channel.                                                 *)

\* How many values an operation may bring.
Sized == Batches \cup {1}
\* How many values f offered that were stored, handed out or refused.
Bound(f) == sent[f] - Len(surplus[f])

SentOf(f) == /\ fuel[f] <= Fuel[f]
             /\ \E n \in Sized : sent[f] <= (Fuel[f] - fuel[f]) * n
             /\ \E n \in Sized : Len(surplus[f]) <= n
\* No fiber offered more than its fuel allowed.
SentsInv == \A f \in Fiber : SentOf(f)

\* The sizes of what an operation brings.
LEMMA SizedParts == Sized \subseteq Nat /\ (\A n \in Sized : n >= 1) /\ 1 \in Sized /\ Batches \subseteq Sized
BY QueueAssumption DEF Sized

\* A product that keeps up with a sum.
LEMMA OneMore ==
  ASSUME NEW a \in Nat, NEW n \in Nat, NEW m \in Nat, NEW b \in Nat, n <= m, b <= m, NEW s \in Nat, s <= a * n
  PROVE  s + b <= (a + 1) * m
<1>1. a * n <= a * m
  OBVIOUS
<1>2. (a + 1) * m = a * m + m
  OBVIOUS
<1>3. a * n \in Nat /\ a * m \in Nat
  OBVIOUS
<1> QED BY <1>1, <1>2, <1>3

\* A product with one more.
LEMMA MoreFuel ==
  ASSUME NEW a \in Nat, NEW n \in Nat, NEW s \in Nat, s <= a * n
  PROVE  s <= (a + 1) * n
<1>1. (a + 1) * n = a * n + n /\ a * n \in Nat
  OBVIOUS
<1> QED BY <1>1

\* What a step does to what a fiber offers.
Offering(f) == \E n \in Sized :
  /\ fuel[f] > 0 /\ fuel'[f] = fuel[f] - 1 /\ sent'[f] = sent[f] + n /\ Len(surplus'[f]) <= n
  /\ surplus[f] = <<>>
\* An operation that brings nothing may use up fuel.
Resting(f) == /\ fuel'[f] = fuel[f] \/ (fuel[f] > 0 /\ fuel'[f] = fuel[f] - 1)
              /\ sent'[f] = sent[f] /\ surplus'[f] \in {surplus[f], <<>>}

\* Every step offers or rests, and for one fiber only.
LEMMA OfferingSteps ==
  ASSUME TypeInv, NEW f \in Fiber, Moves(f)
  PROVE  /\ \A g \in Fiber \ {f} : sent'[g] = sent[g] /\ surplus'[g] = surplus[g] /\ fuel'[g] = fuel[g]
         /\ Offering(f) \/ Resting(f)
<1> USE DEF TypeInv
<1>0. OfferOK
  BY Groups
<1>4. fuel \in [Fiber -> Nat] /\ sent \in [Fiber -> Nat] /\ surplus \in [Fiber -> Seq(Value)]
  BY <1>0 DEF OfferOK
<1>5. pc[f] # "surplus" => surplus[f] = <<>>
  BY DEF SurplusInv
<1>1. CASE Begin(f)
  <2>0. /\ \A kind : Begins(f, kind) => /\ fuel'[f] = fuel[f] - 1 /\ fuel[f] > 0 /\ (\A g \in Fiber \ {f} : fuel'[g] = fuel[g])
                                        /\ surplus[f] = <<>>
    BY FuelBegins, <1>5 DEF Begins
  <2>1. CASE Offer(f)
    <3>1. PICK n \in Batches :
        /\ Begins(f, "offer") /\ Hand(Stored(Fresh(f, n)).loop, deferred, <<>>)
        /\ sent' = [sent EXCEPT ![f] = sent[f] + n]
        /\ surplus' = [surplus EXCEPT ![f] = IF strategy = "dropping" THEN <<>> ELSE Stored(Fresh(f, n)).left]
      BY <2>1 DEF Offer
    <3> DEFINE left == Stored(Fresh(f, n)).left
    <3>2. n \in Nat /\ n \in Sized
      BY SizedParts
    <3>3. PICK j \in Nat : j <= n /\ left \in Seq(Value) /\ Len(left) = n - j
      BY <3>1, <3>2, TypeOffer
    <3> DEFINE s == IF strategy = "dropping" THEN <<>> ELSE left
    <3>4. surplus' = [surplus EXCEPT ![f] = s]
      BY <3>1
    <3> HIDE DEF left
    <3>5. Len(s) <= n
      BY <3>2, <3>3
    <3> HIDE DEF s
    <3>6. surplus'[f] = s /\ sent'[f] = sent[f] + n /\ \A g \in Fiber \ {f} : sent'[g] = sent[g] /\ surplus'[g] = surplus[g]
      BY <1>4, <3>1, <3>4
    <3> QED BY <2>0, <3>1, <3>2, <3>5, <3>6 DEF Offering
  <2>2. CASE UnsafeOffer(f)
    <3>1. Begins(f, "unsafeOffer") /\ sent' = [sent EXCEPT ![f] = @ + 1] /\ surplus' = surplus
      BY <2>2 DEF UnsafeOffer
    <3>2. surplus'[f] = <<>> /\ Len(<<>>) <= 1
      BY <2>0, <3>1
    <3> QED BY <1>4, <2>0, <3>1, <3>2, SizedParts DEF Offering
  <2>3. CASE TakeOne(f) \/ TakeBetween(f) \/ Shutdown(f) \/ Refused(f)
    <3>1. (\E kind : Begins(f, kind)) /\ sent' = sent /\ surplus' = surplus
      BY <2>3 DEF TakeOne, TakeBetween, Shutdown, Refused
    <3> QED BY <2>0, <3>1 DEF Resting
  <2> QED BY <1>1, <2>1, <2>2, <2>3 DEF Begin
<1>2. CASE ~Begin(f)
  <2>1. fuel' = fuel /\ sent' = sent /\ (surplus' = surplus \/ surplus' = [surplus EXCEPT ![f] = <<>>])
    BY <1>2 DEF Moves, Step, StopsWaiting, StopsBetween, Leaves, Stops,
       PutSurplus, SlideSurplus, Admitted, Take, Register, Served, TakeUpTo, Poll, Aborted, Cleanup, ShutdownHook,
       InterruptWaiter, TakersInterrupted, ShutdownStrategy, ShutdownDone
  <2> QED BY <1>4, <2>1 DEF Resting
<1> QED BY <1>1, <1>2

\* No step brings more than the fuel it uses up allows.
LEMMA SentKept ==
  ASSUME TypeInv, SentsInv, NEW f \in Fiber, Moves(f)
  PROVE  SentsInv'
<1>0. OfferOK
  BY Groups DEF TypeInv
<1>4. fuel \in [Fiber -> Nat] /\ sent \in [Fiber -> Nat] /\ surplus \in [Fiber -> Seq(Value)] /\ Fuel \in [Fiber -> Nat]
  BY <1>0, QueueAssumption DEF OfferOK
<1>1. \A g \in Fiber \ {f} : SentOf(g)'
  BY OfferingSteps DEF SentsInv, SentOf
<1>2. SentOf(f)'
  <2> DEFINE a == Fuel[f] - fuel[f]  s == sent[f]
  <2>1. /\ fuel[f] <= Fuel[f] /\ \E n \in Sized : s <= a * n
        /\ \E n \in Sized : Len(surplus[f]) <= n
    BY DEF SentsInv, SentOf
  <2>2. a \in Nat /\ s \in Nat /\ fuel[f] \in Nat /\ Fuel[f] \in Nat
    BY <1>4, <2>1
  <2>3. PICK n \in Sized : s <= a * n
    BY <2>1
  <2>4. n \in Nat
    BY SizedParts
  <2>5. CASE Offering(f)
    <3>1. PICK b \in Sized : fuel[f] > 0 /\ fuel'[f] = fuel[f] - 1 /\ sent'[f] = s + b /\ Len(surplus'[f]) <= b
      BY <2>5 DEF Offering
    <3>2. b \in Nat
      BY SizedParts
    <3>3. Fuel[f] - fuel'[f] = a + 1 /\ fuel'[f] <= Fuel[f]
      BY <2>1, <2>2, <3>1
    <3> HIDE DEF a, s
    <3>4. \E m \in Sized : s + b <= (a + 1) * m
      <4>1. CASE n <= b
        BY <2>2, <2>3, <2>4, <3>2, <4>1, OneMore
      <4>2. CASE b <= n
        BY <2>2, <2>3, <2>4, <3>2, <4>2, OneMore
      <4> QED BY <2>4, <3>2, <4>1, <4>2
    <3> QED BY <3>1, <3>3, <3>4 DEF SentOf
  <2>6. CASE Resting(f)
    <3>1. sent'[f] = s /\ surplus'[f] \in {surplus[f], <<>>} /\ (fuel'[f] = fuel[f] \/ (fuel[f] > 0 /\ fuel'[f] = fuel[f] - 1))
      BY <2>6 DEF Resting
    <3>2. fuel'[f] <= Fuel[f] /\ Fuel[f] - fuel'[f] \in {a, a + 1}
      BY <2>1, <2>2, <3>1
    <3>3. \E m \in Sized : Len(surplus'[f]) <= m
      <4>1. Len(<<>>) <= 1
        OBVIOUS
      <4> QED BY <2>1, <3>1, <4>1, SizedParts
    <3> HIDE DEF a, s
    <3>4. s <= (a + 1) * n
      BY <2>2, <2>3, <2>4, MoreFuel
    <3> QED BY <2>3, <3>1, <3>2, <3>3, <3>4 DEF SentOf
  <2> QED BY <2>5, <2>6, OfferingSteps
<1> QED BY <1>1, <1>2 DEF SentsInv

\* With nobody waiting the queue stays as it is.
LEMMA SlideStays ==
  ASSUME NEW c \in Seq(Value), capacity \in Nat \ {0}, Len(c) <= capacity, NEW d, got \in Seq(Value),
         Hand(Settle(Loop(c, <<>>, <<>>)), d, <<>>)
  PROVE  content' = c /\ putters' = <<>> /\ got' = got
<1> DEFINE s == Loop(c, <<>>, <<>>)
<1>1. <<>> \in Seq(Fiber) /\ <<>> \in Seq(Putter) /\ <<>> \in Seq(Value) /\ Len(<<>>) = 0
  OBVIOUS
<1>2. Has(s, c, <<>>, <<>>, <<>>) /\ s.given = <<>>
  BY DEF Has, Loop
<1>3. Hand(Settle(s), d, <<>>)
  OBVIOUS
<1> HIDE DEF s
<1>4. PICK g, k, m \in Nat : SettlesTo(s, c, <<>>, <<>>, g, k, m)
  BY <1>1, <1>2, SettleFields
<1> DEFINE vp == Values(<<>>)
<1>5. vp = <<>>
  BY DEF Values
<1>6. c \o vp = c
  BY <1>5, EmptyConcat
<1>7. g = 0 /\ m = 0 /\ k = Len(c)
  BY <1>1, <1>4 DEF SettlesTo, Splits
<1> DEFINE r == Settle(s)
<1>8. r = [content  |-> SubSeq(c \o vp, g + 1, g + k),
           takers   |-> From(<<>>, g + 1),
           putters  |-> From(<<>>, m + 1),
           given    |-> s.given \o Gifts(<<>>, c \o vp, g),
           admitted |-> Whole(<<>>, m)]
  BY <1>4 DEF SettlesTo
<1> HIDE DEF r, vp
<1>9. r.content = SubSeq(c, 1, Len(c)) /\ r.putters = From(<<>>, 1) /\ r.given = s.given \o Gifts(<<>>, c, 0)
  BY <1>6, <1>7, <1>8
<1>10. SubSeq(c, 1, Len(c)) = c
  <2> HIDE DEF Value
  <2> QED OBVIOUS
<1>11. From(<<>>, 1) = <<>> /\ Gifts(<<>>, c, 0) = <<>> /\ <<>> \o <<>> = <<>>
  BY DEF From, Gifts
<1>12. r.content = c /\ r.putters = <<>> /\ r.given = <<>>
  BY <1>2, <1>9, <1>10, <1>11
<1>13. content' = r.content /\ putters' = r.putters /\ got' = got \o <<>> \o [i \in DOMAIN r.given |-> r.given[i].value]
  BY <1>3 DEF Hand, r
<1>14. [i \in DOMAIN r.given |-> r.given[i].value] = <<>>
  BY <1>12
<1>15. got \o <<>> \o <<>> = got
  BY EmptyConcat
<1> QED BY <1>12, <1>13, <1>14, <1>15

\* vs are values that f offered and nobody saw before, in order.
Brings(f, vs) == \E k \in Nat :
  /\ Bound(f) <= k /\ k <= sent[f] /\ k + Len(vs) <= Bound(f)'
  /\ \E n \in Sized : Len(vs) <= n
  /\ \A i \in 1..Len(vs) : vs[i] = [by |-> f, n |-> k + i]

\* f brings values, which come last, and the first ones come out.
Passes(f) == \E vs \in Seq(Value) : Brings(f, vs) /\ Flow((content \o Values(putters)) \o vs)
\* f brings values, and as many of the oldest are dropped as there is no room for.
Slides(f) == \E vs \in Seq(Value) :
  /\ strategy = "sliding" /\ Brings(f, vs) /\ UNCHANGED <<putters, got>>
  /\ \E x \in Nat : x <= Len(content \o vs) /\ content' = From(content \o vs, x + 1)

\* What Bound counts, and what is left of the surplus.
LEMMA Bounds ==
  ASSUME TypeInv, NEW g \in Fiber
  PROVE  /\ Bound(g) \in Nat /\ Bound(g) <= sent[g] /\ sent[g] \in Nat
         /\ surplus[g] = <<>> => Bound(g) = sent[g]
         /\ surplus[g] \in Seq(Value) /\ Len(surplus[g]) \in Nat /\ Bound(g) + Len(surplus[g]) = sent[g]
<1>1. sent[g] \in Nat /\ surplus[g] \in Seq(Value) /\ Len(surplus[g]) <= sent[g]
  BY DEF TypeInv, TypeOK, SurplusInv
<1>2. Len(surplus[g]) \in Nat
  <2> HIDE DEF Value
  <2> QED BY <1>1
<1>3. surplus[g] = <<>> => Len(surplus[g]) = 0
  OBVIOUS
<1> QED BY <1>1, <1>2, <1>3 DEF Bound

\* It never shrinks.
LEMMA BoundGrows ==
  ASSUME TypeInv, NEW f \in Fiber, Moves(f)
  PROVE  \A g \in Fiber : Bound(g)' \in Nat /\ Bound(g) <= Bound(g)'
<1>1. TypeInv'
  BY TypeStep
<1>2. ASSUME NEW g \in Fiber PROVE Bound(g)' \in Nat /\ sent'[g] \in Nat /\ Len(surplus'[g]) \in Nat /\ Bound(g)' = sent'[g] - Len(surplus'[g])
  <2>1. sent'[g] \in Nat /\ surplus'[g] \in Seq(Value) /\ Len(surplus'[g]) <= sent'[g]
    BY <1>1 DEF TypeInv, TypeOK, SurplusInv
  <2>2. Len(surplus'[g]) \in Nat
    <3> HIDE DEF Value
    <3> QED BY <2>1
  <2> QED BY <2>1, <2>2 DEF Bound
<1>3. \A g \in Fiber \ {f} : Bound(g)' = Bound(g)
  BY OfferingSteps DEF Bound
<1>4. Bound(f) <= Bound(f)'
  <2>0. Bound(f) \in Nat /\ sent[f] \in Nat /\ Len(surplus[f]) \in Nat /\ Bound(f) + Len(surplus[f]) = sent[f]
        /\ (surplus[f] = <<>> => Bound(f) = sent[f])
    BY Bounds
  <2>1. CASE Offering(f)
    <3>1. PICK n \in Sized : sent'[f] = sent[f] + n /\ Len(surplus'[f]) <= n /\ surplus[f] = <<>>
      BY <2>1 DEF Offering
    <3>2. n \in Nat
      BY SizedParts
    <3> QED BY <1>2, <2>0, <3>1, <3>2
  <2>2. CASE Resting(f)
    <3>1. sent'[f] = sent[f] /\ surplus'[f] \in {surplus[f], <<>>} /\ Len(<<>>) = 0
      BY <2>2 DEF Resting
    <3> QED BY <1>2, <2>0, <3>1
  <2> QED BY <2>1, <2>2, OfferingSteps
<1>5. ASSUME NEW g \in Fiber PROVE Bound(g) \in Nat
  BY Bounds
<1> QED BY <1>2, <1>3, <1>4, <1>5

\* A step that brings nothing.
LEMMA PassesNothing ==
  ASSUME TypeInv, NEW f \in Fiber, Moves(f), Flow(content \o Values(putters))
  PROVE  Passes(f)
<1>1. <<>> \in Seq(Value) /\ Len(<<>>) = 0
  OBVIOUS
<1>2. Bound(f) \in Nat /\ Bound(f) <= sent[f] /\ Bound(f)' \in Nat /\ Bound(f) <= Bound(f)'
  BY Bounds, BoundGrows
<1> DEFINE b2 == Bound(f)'
<1>3. Bound(f) \in Nat /\ Bound(f) <= Bound(f) /\ Bound(f) <= sent[f] /\ Bound(f) + Len(<<>>) <= b2
  BY <1>1, <1>2
<1>4. \E n \in Sized : Len(<<>>) <= n
  BY <1>1, SizedParts
<1> HIDE DEF b2
<1>5. \A i \in 1..Len(<<>>) : <<>>[i] = [by |-> f, n |-> Bound(f) + i]
  BY <1>1
<1>6. \E k \in Nat : Bound(f) <= k /\ k <= sent[f] /\ k + Len(<<>>) <= b2 /\ \A i \in 1..Len(<<>>) : <<>>[i] = [by |-> f, n |-> k + i]
  BY <1>3, <1>5
<1>7. Brings(f, <<>>)
  BY <1>4, <1>6 DEF Brings, b2
<1>8. (content \o Values(putters)) \o <<>> = content \o Values(putters)
  <2> DEFINE s == content \o Values(putters)
  <2>1. s \in Seq(Value)
    BY Made, AllParts DEF TypeInv
  <2> HIDE DEF s
  <2>2. s \o <<>> = s
    BY <2>1, EmptyConcat
  <2> QED BY <2>2 DEF s
<1> QED BY <1>1, <1>7, <1>8 DEF Passes

\* What f brings, with the number its values start after.
LEMMA BringsOf ==
  ASSUME TypeInv, NEW f \in Fiber, NEW vs, NEW k \in Nat, Bound(f) <= k, k <= sent[f], NEW n \in Nat, Len(vs) = n,
         NEW b2, b2 = Bound(f)', k + n <= b2, NEW m \in Sized, n <= m, \A i \in 1..n : vs[i] = [by |-> f, n |-> k + i]
  PROVE  Brings(f, vs)
<1>1. Bound(f) <= k /\ k <= sent[f] /\ k + Len(vs) <= b2 /\ Len(vs) <= m /\ \A i \in 1..Len(vs) : vs[i] = [by |-> f, n |-> k + i]
  OBVIOUS
<1> QED BY <1>1 DEF Brings

\* The first effect of an offer passes on what it brings.
LEMMA OfferPasses ==
  ASSUME TypeInv, NEW f \in Fiber, Moves(f), surplus[f] = <<>>, NEW n \in Sized, Hand(Stored(Fresh(f, n)).loop, deferred, <<>>),
         sent'[f] = sent[f] + n, surplus'[f] \in {<<>>, Stored(Fresh(f, n)).left}
  PROVE  Passes(f)
<1> DEFINE vs == Fresh(f, n)  left == Stored(vs).left
<1>0. TypeOK /\ Balanced /\ n \in Nat
  BY SizedParts DEF TypeInv
<1>1. PICK j \in Nat : /\ j <= n /\ Flow((content \o Values(putters)) \o SubSeq(vs, 1, j))
                       /\ left \in Seq(Value) /\ Len(left) = n - j
  BY <1>0, TypeOffer
<1>2. vs \in Seq(Value) /\ Len(vs) = n /\ \A i \in 1..n : vs[i] = [by |-> f, n |-> sent[f] + i]
  BY <1>0, FreshParts
<1>3. Bound(f) = sent[f] /\ sent[f] \in Nat
  BY Bounds
<1>4. surplus'[f] \in {<<>>, left}
  OBVIOUS
<1> HIDE DEF left, vs
<1> DEFINE b2 == Bound(f)'  us == SubSeq(vs, 1, j)
<1>5. sent[f] + j <= b2
  <2>1. b2 = (sent[f] + n) - Len(surplus'[f])
    BY DEF Bound
  <2>2. Len(surplus'[f]) \in {0, n - j}
    BY <1>1, <1>4
  <2> HIDE DEF b2
  <2> QED BY <1>0, <1>1, <1>3, <2>1, <2>2
<1>6. 1 \in Nat \ {0} /\ 1 <= j + 1 /\ j <= Len(vs) /\ j + 1 - 1 = j
  BY <1>0, <1>1, <1>2
<1>7. us \in Seq(Value)
  BY <1>2, <1>6, SubSeqParts
<1>8. Len(us) = j + 1 - 1
  BY <1>2, <1>6, SubSeqParts
<1>9. \A k \in 1..(j + 1 - 1) : us[k] = vs[1 + k - 1]
  BY <1>2, <1>6, SubSeqParts
<1>10. \A i \in 1..j : us[i] = [by |-> f, n |-> sent[f] + i]
  <2> TAKE i \in 1..j
  <2>1. i \in 1..(j + 1 - 1) /\ 1 + i - 1 = i /\ i \in 1..n
    BY <1>0, <1>1, <1>6
  <2>2. us[i] = vs[i]
    BY <2>1, <1>9
  <2> HIDE DEF us
  <2> QED BY <2>1, <2>2, <1>2
<1>11. Flow((content \o Values(putters)) \o us)
  BY <1>1
<1>14. b2 = Bound(f)'
  OBVIOUS
<1> HIDE DEF us, b2
<1>12. Len(us) = j /\ Bound(f) <= sent[f] /\ sent[f] <= sent[f]
  BY <1>3, <1>6, <1>8
<1>13. Brings(f, us)
  BY <1>1, <1>3, <1>5, <1>10, <1>12, <1>14, BringsOf
<1> QED BY <1>7, <1>11, <1>13 DEF Passes

\* The surplus, or its last values, as what f brings.
LEMMA BringsSurplus ==
  ASSUME TypeInv, SentsInv, NEW f \in Fiber, Moves(f), surplus'[f] = <<>>, sent'[f] = sent[f],
         NEW x \in Nat, x <= Len(surplus[f])
  PROVE  From(surplus[f], x + 1) \in Seq(Value) /\ Brings(f, From(surplus[f], x + 1))
<1> DEFINE s == surplus[f]  us == From(s, x + 1)  n == Len(s) - x  k == Bound(f) + x  b2 == Bound(f)'
<1>1. s \in Seq(Value) /\ Len(s) \in Nat /\ Bound(f) \in Nat /\ sent[f] \in Nat /\ Bound(f) + Len(s) = sent[f]
  BY Bounds
<1>2. \A i \in 1..Len(s) : s[i] = [by |-> f, n |-> Bound(f) + i]
  <2>1. \A i \in DOMAIN surplus[f] : surplus[f][i] = [by |-> f, n |-> (sent[f] - Len(surplus[f])) + i]
    BY DEF TypeInv, SurplusInv
  <2>2. DOMAIN surplus[f] = 1..Len(surplus[f])
    BY <1>1
  <2> QED BY <2>1, <2>2 DEF Bound
<1>3. PICK m \in Sized : Len(s) <= m
  BY DEF SentsInv, SentOf
<1>4. m \in Nat
  BY SizedParts
<1>5. b2 = sent[f]
  BY <1>1 DEF Bound
<1>6. b2 = Bound(f)'
  OBVIOUS
<1>12. x <= Len(s)
  OBVIOUS
<1> HIDE DEF s, b2
<1>7. us \in Seq(Value)
  BY <1>1, <1>12, FromParts
<1>8. Len(us) = Len(s) - x
  BY <1>1, <1>12, FromParts
<1>9. \A i \in 1..(Len(s) - x) : us[i] = s[x + i]
  BY <1>1, <1>12, FromParts
<1> HIDE DEF us
<1>10. n \in Nat /\ n <= m /\ Len(us) = n /\ k \in Nat /\ Bound(f) <= k /\ k <= sent[f] /\ k + n <= b2
  BY <1>1, <1>3, <1>4, <1>5, <1>8, <1>12
<1>11. \A i \in 1..n : us[i] = [by |-> f, n |-> k + i]
  <2> TAKE i \in 1..n
  <2> DEFINE j == x + i
  <2>1. j \in 1..Len(s) /\ us[i] = s[j] /\ Bound(f) + j = k + i
    BY <1>1, <1>9, <1>12
  <2> HIDE DEF j, k
  <2>2. s[j] = [by |-> f, n |-> Bound(f) + j]
    BY <1>2, <2>1
  <2> QED BY <2>1, <2>2
<1> HIDE DEF n, k
<1>13. Brings(f, us)
  BY <1>3, <1>6, <1>10, <1>11, BringsOf
<1> QED BY <1>7, <1>13 DEF us, s

\* handleSurplus of BackPressureStrategy passes on the surplus,
LEMMA PutPasses ==
  ASSUME TypeInv, SentsInv, NEW f \in Fiber, PutSurplus(f)
  PROVE  Passes(f)
<1>0. TypeOK /\ Balanced
  BY DEF TypeInv
<1> DEFINE s == surplus[f]
<1>1. Flow((content \o Values(putters)) \o s)
  BY <1>0, TypePutSurplus
<1>2. surplus'[f] = <<>> /\ sent'[f] = sent[f] /\ Moves(f)
  BY <1>0 DEF PutSurplus, TypeOK, Moves, Step
<1>3. s \in Seq(Value) /\ Len(s) \in Nat
  BY Bounds
<1>4. From(s, 0 + 1) \in Seq(Value) /\ Brings(f, From(s, 0 + 1))
  BY <1>2, <1>3, BringsSurplus
<1> HIDE DEF s
<1>5. From(s, 0 + 1) = s
  BY <1>3 DEF From
<1>6. s \in Seq(Value) /\ Brings(f, s) /\ Flow((content \o Values(putters)) \o s)
  BY <1>1, <1>4, <1>5
<1> QED BY <1>6 DEF Passes

\* and that of SlidingStrategy slides.
LEMMA SlidePasses ==
  ASSUME TypeInv, SentsInv, NEW f \in Fiber, SlideSurplus(f)
  PROVE  Passes(f) \/ Slides(f)
<1> DEFINE s == surplus[f]
<1>0. TypeOK /\ Balanced /\ SurplusInv
  BY DEF TypeInv
<1>1. putters = <<>> /\ \E x \in Nat :
              /\ x <= Len(content \o s) /\ Len(content \o s) - x <= capacity
              /\ Flow(From(content \o s, x + 1))
              /\ content = <<>> => x = Len(s) - 1
              /\ Hand(Settle(Loop(From(content \o s, x + 1), takers, putters)), deferred, <<>>)
  BY <1>0, TypeSlide
<1>2. PICK x \in Nat :
              /\ x <= Len(content \o s) /\ Len(content \o s) - x <= capacity
              /\ Flow(From(content \o s, x + 1))
              /\ content = <<>> => x = Len(s) - 1
              /\ Hand(Settle(Loop(From(content \o s, x + 1), takers, putters)), deferred, <<>>)
  BY <1>1
<1>3. surplus'[f] = <<>> /\ sent'[f] = sent[f] /\ Moves(f) /\ strategy = "sliding"
  BY <1>0 DEF SlideSurplus, TypeOK, Moves, Step
<1>4. s \in Seq(Value) /\ Len(s) \in Nat /\ content \in Seq(Value) /\ capacity \in Nat \ {0} /\ got \in Seq(Value)
  BY <1>0, Bounds, Made
<1>5. content # <<>> => takers = <<>>
  BY <1>0 DEF Balanced, Settled
<1>6. \A y \in Nat : y <= Len(s) => From(s, y + 1) \in Seq(Value) /\ Brings(f, From(s, y + 1))
  BY <1>3, BringsSurplus
<1> HIDE DEF s
<1>7. CASE content = <<>>
  <2>1. content \o s = s
    BY <1>4, <1>7, EmptyConcat
  <2>2. x <= Len(s) /\ Flow(From(s, x + 1))
    BY <1>2, <2>1
  <2> DEFINE us == From(s, x + 1)
  <2>3. us \in Seq(Value) /\ Brings(f, us) /\ Flow(us)
    BY <1>6, <2>2
  <2> HIDE DEF us
  <2>4. Values(putters) = <<>> /\ content \o <<>> = <<>>
    BY <1>1, <1>7 DEF Values
  <2>5. <<>> \o us = us
    BY <2>3, EmptyConcat
  <2>6. Flow((content \o Values(putters)) \o us)
    BY <2>3, <2>4, <2>5
  <2> QED BY <2>3, <2>6 DEF Passes
<1>8. CASE content # <<>>
  <2> DEFINE all == content \o s  c == From(all, x + 1)
  <2>1. all \in Seq(Value)
    BY <1>4, ConcatParts
  <2>2. x <= Len(all) /\ Len(all) - x <= capacity
    BY <1>2
  <2>3. Hand(Settle(Loop(c, <<>>, <<>>)), deferred, <<>>)
    BY <1>1, <1>2, <1>5, <1>8
  <2> HIDE DEF all
  <2>4. c \in Seq(Value)
    BY <2>1, <2>2, FromParts
  <2>5. Len(c) = Len(all) - x
    BY <2>1, <2>2, FromParts
  <2> HIDE DEF c
  <2>6. Len(c) <= capacity
    BY <2>2, <2>5
  <2>7. content' = c /\ putters' = <<>> /\ got' = got
    BY <1>4, <2>3, <2>4, <2>6, SlideStays
  <2>8. From(s, 0 + 1) = s
    BY <1>4 DEF From
  <2>9. Brings(f, s)
    BY <1>4, <1>6, <2>8
  <2>10. content' = From(all, x + 1)
    BY <2>7 DEF c
  <2>11. s \in Seq(Value) /\ Brings(f, s) /\ UNCHANGED <<putters, got>> /\ x <= Len(content \o s) /\ content' = From(content \o s, x + 1)
    BY <1>1, <1>4, <2>2, <2>7, <2>9, <2>10 DEF all
  <2> QED BY <1>3, <2>11 DEF Slides
<1> QED BY <1>7, <1>8

\* Every step passes values on, slides, forgets those of an interrupted offer, or
\* leaves them alone.
LEMMA FlowSteps ==
  ASSUME TypeInv, SentsInv, NEW f \in Fiber, Moves(f)
  PROVE  \/ Passes(f) \/ Slides(f) \/ UNCHANGED <<content, putters, got>> \/ Cleanup(f) \/ ShutdownStrategy(f)
<1>0. TypeOK /\ Balanced /\ SurplusInv
  BY DEF TypeInv
<1>5. pc[f] # "surplus" => surplus[f] = <<>>
  BY <1>0 DEF SurplusInv
<1>1. CASE Begin(f)
  <2>1. CASE Offer(f)
    <3>1. PICK n \in Batches : pc[f] = "idle" /\ Hand(Stored(Fresh(f, n)).loop, deferred, <<>>)
                               /\ sent' = [sent EXCEPT ![f] = @ + n]
                               /\ surplus' = [surplus EXCEPT ![f] = IF strategy = "dropping" THEN <<>> ELSE Stored(Fresh(f, n)).left]
      BY <2>1 DEF Offer, Begins
    <3> DEFINE left == Stored(Fresh(f, n)).left
    <3>2. n \in Sized /\ surplus[f] = <<>>
      BY <1>5, <3>1, SizedParts
    <3>3. sent'[f] = sent[f] + n
      BY <1>0, <3>1 DEF TypeOK
    <3>4. surplus' = [surplus EXCEPT ![f] = IF strategy = "dropping" THEN <<>> ELSE left] /\ surplus \in [Fiber -> Seq(Value)]
      BY <1>0, <3>1 DEF TypeOK
    <3>5. surplus'[f] \in {<<>>, left}
      <4> HIDE DEF left
      <4> QED BY <3>4
    <3> QED BY <3>1, <3>2, <3>3, <3>5, OfferPasses
  <2>2. CASE UnsafeOffer(f)
    <3>1. pc[f] = "idle" /\ Hand(Stored(Fresh(f, 1)).loop, deferred, <<>>) /\ sent' = [sent EXCEPT ![f] = @ + 1] /\ surplus' = surplus
      BY <2>2 DEF UnsafeOffer, Begins
    <3>2. 1 \in Sized /\ surplus[f] = <<>>
      BY <1>5, <3>1, SizedParts
    <3>3. sent'[f] = sent[f] + 1 /\ surplus'[f] = <<>>
      BY <1>0, <3>1, <3>2 DEF TypeOK
    <3> QED BY <3>1, <3>2, <3>3, OfferPasses
  <2>3. CASE TakeOne(f) \/ TakeBetween(f) \/ Shutdown(f) \/ Refused(f)
    BY <2>3 DEF TakeOne, TakeBetween, Shutdown, Refused, store
  <2> QED BY <1>1, <2>1, <2>2, <2>3 DEF Begin
<1>2. CASE Step(f)
  <2>1. CASE PutSurplus(f)
    BY <2>1, PutPasses
  <2>2. CASE SlideSurplus(f)
    BY <2>2, SlidePasses
  <2>4. CASE Take(f)
    <3>1. CASE ~flag /\ content # <<>>
      BY <1>0, <2>4, <3>1, TypeTake, PassesNothing
    <3>2. CASE ~(~flag /\ content # <<>>)
      BY <2>4, <3>2 DEF Take, store
    <3> QED BY <3>1, <3>2
  <2>5. CASE Register(f)
    BY <1>0, <2>5, TypeRegister, PassesNothing
  <2>8. CASE Poll(f)
    BY <1>0, <2>8, TypePoll, PassesNothing
  <2>9. CASE Admitted(f) \/ Served(f) \/ TakeUpTo(f) \/ Aborted(f) \/ ShutdownHook(f) \/ InterruptWaiter(f)
             \/ TakersInterrupted(f) \/ ShutdownDone(f)
    BY <2>9 DEF Admitted, Served, TakeUpTo, Aborted, Leaves, ShutdownHook, InterruptWaiter, TakersInterrupted, ShutdownDone, store
  <2> QED BY <1>2, <2>1, <2>2, <2>4, <2>5, <2>8, <2>9 DEF Step
<1>3. CASE StopsWaiting(f) \/ StopsBetween(f)
  BY <1>3 DEF StopsWaiting, StopsBetween, Leaves, store
<1> QED BY <1>1, <1>2, <1>3 DEF Moves

\* Every value in the queue, offered or handed out was counted.
SeenOK == \A v \in Seen : v.n <= Bound(v.by)

\* The elements of two sequences after one another.
LEMMA ElementsConcat ==
  ASSUME NEW S, NEW s \in Seq(S), NEW t \in Seq(S)
  PROVE  Elements(s \o t) = Elements(s) \cup Elements(t)
<1>1. DOMAIN s = 1..Len(s) /\ DOMAIN t = 1..Len(t) /\ Len(s) \in Nat /\ Len(t) \in Nat
  OBVIOUS
<1> DEFINE u == s \o t
<1>2. DOMAIN u = 1..(Len(s) + Len(t))
  BY ConcatParts
<1>3. \A k \in 1..Len(s) : u[k] = s[k]
  BY ConcatParts
<1>4. \A k \in 1..Len(t) : u[Len(s) + k] = t[k]
  BY ConcatParts
<1> HIDE DEF u
<1>5. ASSUME NEW i \in DOMAIN u PROVE u[i] \in Elements(s) \cup Elements(t)
  <2>1. CASE i \in 1..Len(s)
    BY <2>1, <1>1, <1>3 DEF Elements
  <2>2. CASE i \notin 1..Len(s)
    <3>1. i - Len(s) \in 1..Len(t) /\ i = Len(s) + (i - Len(s))
      BY <2>2, <1>1, <1>2
    <3>2. u[i] = t[i - Len(s)]
      BY <3>1, <1>4
    <3> QED BY <3>1, <3>2, <1>1 DEF Elements
  <2> QED BY <2>1, <2>2
<1>6. ASSUME NEW i \in DOMAIN s PROVE s[i] \in Elements(u)
  <2>1. i \in DOMAIN u /\ u[i] = s[i]
    BY <1>1, <1>2, <1>3
  <2> QED BY <2>1 DEF Elements
<1>7. ASSUME NEW i \in DOMAIN t PROVE t[i] \in Elements(u)
  <2>1. Len(s) + i \in DOMAIN u /\ u[Len(s) + i] = t[i]
    BY <1>1, <1>2, <1>4
  <2> QED BY <2>1 DEF Elements
<1>8. Elements(u) = Elements(s) \cup Elements(t)
  BY <1>5, <1>6, <1>7 DEF Elements
<1> QED BY <1>8 DEF u

\* The elements of a part,
LEMMA ElementsSub ==
  ASSUME NEW S, NEW s \in Seq(S), NEW a \in Nat \ {0}, NEW b \in Nat, a <= b + 1, b <= Len(s)
  PROVE  Elements(SubSeq(s, a, b)) \subseteq Elements(s)
<1> DEFINE u == SubSeq(s, a, b)
<1>1. DOMAIN s = 1..Len(s) /\ Len(s) \in Nat
  OBVIOUS
<1>2. DOMAIN u = 1..(b + 1 - a)
  BY SubSeqParts
<1>3. \A k \in 1..(b + 1 - a) : u[k] = s[a + k - 1]
  BY SubSeqParts
<1> HIDE DEF u
<1>4. ASSUME NEW k \in DOMAIN u PROVE u[k] \in Elements(s)
  <2>1. a + k - 1 \in DOMAIN s
    BY <1>1, <1>2
  <2> QED BY <2>1, <1>2, <1>3 DEF Elements
<1>5. Elements(u) \subseteq Elements(s)
  BY <1>4 DEF Elements
<1> QED BY <1>5 DEF u

\* and of the rest.
LEMMA ElementsFrom ==
  ASSUME NEW S, NEW s \in Seq(S), NEW a \in Nat, a <= Len(s)
  PROVE  Elements(From(s, a + 1)) \subseteq Elements(s)
<1>1. a + 1 \in Nat \ {0} /\ Len(s) \in Nat /\ a + 1 <= Len(s) + 1 /\ Len(s) <= Len(s)
  OBVIOUS
<1> DEFINE b == a + 1
<1>2. b \in Nat \ {0} /\ Len(s) \in Nat /\ b <= Len(s) + 1 /\ Len(s) <= Len(s)
  BY <1>1
<1> HIDE DEF b
<1>3. Elements(SubSeq(s, b, Len(s))) \subseteq Elements(s)
  BY <1>2, ElementsSub
<1> QED BY <1>3 DEF b, From

\* What flows was seen, or has just been brought.
LEMMA FlowSeen ==
  ASSUME NEW all \in Seq(Value), got \in Seq(Value), Flow(all)
  PROVE  Seen' \subseteq Elements(got) \cup Elements(all)
<1>1. PICK n, k \in Nat :
        /\ n + k <= Len(all)
        /\ got' = got \o SubSeq(all, 1, n)
        /\ content' = SubSeq(all, n + 1, n + k)
        /\ Values(putters') = From(all, (n + k) + 1)
  BY DEF Flow
<1>2. Len(all) \in Nat
  OBVIOUS
<1>3. SubSeq(all, 1, n) \in Seq(Value) /\ Elements(SubSeq(all, 1, n)) \subseteq Elements(all)
  <2>1. 1 \in Nat \ {0} /\ 1 <= n + 1 /\ n <= Len(all)
    BY <1>1, <1>2
  <2>2. SubSeq(all, 1, n) \in Seq(Value)
    BY <2>1, SubSeqParts
  <2>3. Elements(SubSeq(all, 1, n)) \subseteq Elements(all)
    BY <2>1, ElementsSub
  <2> QED BY <2>2, <2>3
<1> DEFINE out == SubSeq(all, 1, n)
<1>4. Elements(got \o out) = Elements(got) \cup Elements(out)
  <2>1. out \in Seq(Value)
    BY <1>3
  <2> HIDE DEF out
  <2> QED BY <2>1, ElementsConcat
<1>5. Elements(got') \subseteq Elements(got) \cup Elements(all)
  BY <1>1, <1>3, <1>4
<1>6. Elements(content') \subseteq Elements(all)
  <2> DEFINE a == n + 1  b == n + k
  <2>1. a \in Nat \ {0} /\ b \in Nat /\ a <= b + 1 /\ b <= Len(all)
    BY <1>1, <1>2
  <2>2. content' = SubSeq(all, a, b)
    BY <1>1
  <2> HIDE DEF a, b
  <2>3. Elements(SubSeq(all, a, b)) \subseteq Elements(all)
    BY <2>1, ElementsSub
  <2> QED BY <2>2, <2>3
<1>7. Elements(Values(putters')) \subseteq Elements(all)
  <2> DEFINE b == n + k
  <2>1. b \in Nat /\ b <= Len(all)
    BY <1>1
  <2>2. Values(putters') = From(all, b + 1)
    BY <1>1
  <2> HIDE DEF b
  <2>3. Elements(From(all, b + 1)) \subseteq Elements(all)
    BY <2>1, ElementsFrom
  <2> QED BY <2>2, <2>3
<1> QED BY <1>5, <1>6, <1>7 DEF Seen

\* What was seen are values.
LEMMA SeenTyped == TypeOK => \A v \in Seen : v \in Value /\ v.by \in Fiber /\ v.n \in Nat
<1> SUFFICES ASSUME TypeOK, NEW v \in Seen PROVE v \in Value
  BY DEF Value
<1>1. content \in Seq(Value) /\ got \in Seq(Value) /\ Values(putters) \in Seq(Value)
  BY Made, ValuesParts
<1> HIDE DEF Value
<1> QED BY <1>1 DEF Seen, Elements

\* The values of a surplus are new, and are counted when they are stored.
LEMMA Brought ==
  ASSUME TypeInv, SeenOK, NEW f \in Fiber, Moves(f), NEW vs \in Seq(Value), Brings(f, vs)
  PROVE  /\ Elements(vs) \cap Seen = {}
         /\ \A v \in Elements(vs) : v.by = f /\ v.n <= Bound(f)'
<1>1. PICK k \in Nat : Bound(f) <= k /\ k + Len(vs) <= Bound(f)' /\ \A i \in 1..Len(vs) : vs[i] = [by |-> f, n |-> k + i]
  BY DEF Brings
<1>2. Bound(f) \in Nat /\ Bound(f)' \in Nat
  BY Bounds, BoundGrows
<1> DEFINE b == Bound(f)  b2 == Bound(f)'
<1>3. Len(vs) \in Nat /\ DOMAIN vs = 1..Len(vs)
  <2> HIDE DEF Value
  <2> QED OBVIOUS
<1>4. ASSUME NEW v \in Elements(vs) PROVE v.by = f /\ b < v.n /\ v.n <= b2
  <2>1. PICK i \in 1..Len(vs) : v = vs[i]
    BY <1>3 DEF Elements
  <2>2. v = [by |-> f, n |-> k + i]
    BY <1>1, <2>1
  <2>3. v.by = f /\ v.n = k + i
    BY <2>2
  <2>4. b \in Nat /\ b2 \in Nat /\ b <= k /\ k + Len(vs) <= b2
    BY <1>1, <1>2
  <2> HIDE DEF b, b2
  <2> QED BY <2>1, <2>3, <2>4, <1>3
<1>5. ASSUME NEW v \in Elements(vs), v \in Seen PROVE FALSE
  <2>1. v.n <= b /\ v.n \in Nat
    BY <1>4, <1>5, SeenTyped DEF SeenOK, TypeInv
  <2> HIDE DEF b
  <2>2. b < v.n /\ b \in Nat
    BY <1>2, <1>4 DEF b
  <2> QED BY <2>1, <2>2
<1> QED BY <1>4, <1>5

\* No step shows a value before it is counted.
LEMMA SeenKept ==
  ASSUME TypeInv, SentsInv, SeenOK, NEW f \in Fiber, Moves(f)
  PROVE  SeenOK'
<1>0. TypeOK /\ content \in Seq(Value) /\ putters \in Seq(Putter) /\ got \in Seq(Value) /\ Values(putters) \in Seq(Value)
  BY Made, ValuesParts DEF TypeInv
<1>1. \A g \in Fiber : Bound(g)' \in Nat /\ Bound(g) \in Nat /\ Bound(g) <= Bound(g)'
  BY BoundGrows, Bounds
<1>2. \A v \in Seen : v.by \in Fiber /\ v.n \in Nat /\ v.n <= Bound(v.by)
  BY <1>0, SeenTyped DEF SeenOK
<1>3. \A v \in Seen : v.n <= Bound(v.by)'
  <2> TAKE v \in Seen
  <2> DEFINE g == v.by  b == Bound(g)  b2 == Bound(g)'
  <2>1. b2 \in Nat /\ b \in Nat /\ b <= b2 /\ v.n \in Nat /\ v.n <= b
    BY <1>1, <1>2
  <2> HIDE DEF b, b2
  <2>2. v.n <= b2
    BY <2>1
  <2> QED BY <2>2 DEF b2
<1>4. ASSUME NEW vs \in Seq(Value), Brings(f, vs), Seen' \subseteq Seen \cup Elements(vs) PROVE SeenOK'
  <2>1. \A v \in Elements(vs) : v.n <= Bound(v.by)'
    BY <1>4, Brought
  <2>2. \A v \in Seen' : v.n <= Bound(v.by)'
    BY <1>3, <1>4, <2>1
  <2> QED BY <2>2 DEF SeenOK
<1>5. Elements(got) \cup Elements(content) \cup Elements(Values(putters)) = Seen
  BY DEF Seen
<1>6. CASE Passes(f)
  <2>1. PICK vs \in Seq(Value) : Brings(f, vs) /\ Flow((content \o Values(putters)) \o vs)
    BY <1>6 DEF Passes
  <2> DEFINE vp == Values(putters)  cp == content \o vp  all == cp \o vs
  <2>2. vp \in Seq(Value)
    BY <1>0
  <2>8. Flow(all)
    BY <2>1
  <2> HIDE DEF vp
  <2>3. cp \in Seq(Value)
    BY <1>0, <2>2, ConcatParts
  <2>4. Elements(cp) = Elements(content) \cup Elements(vp)
    BY <1>0, <2>2, ElementsConcat
  <2> HIDE DEF cp
  <2>5. all \in Seq(Value)
    BY <2>3, ConcatParts
  <2>6. Elements(all) = Elements(cp) \cup Elements(vs)
    BY <2>3, ElementsConcat
  <2> HIDE DEF all
  <2>7. Seen' \subseteq Elements(got) \cup Elements(all)
    BY <1>0, <2>5, <2>8, FlowSeen
  <2>9. Seen' \subseteq Seen \cup Elements(vs)
    BY <1>5, <2>4, <2>6, <2>7 DEF vp
  <2> QED BY <1>4, <2>1, <2>9
<1>7. CASE Slides(f)
  <2>1. PICK vs \in Seq(Value) : /\ Brings(f, vs) /\ UNCHANGED <<putters, got>>
                                 /\ \E x \in Nat : x <= Len(content \o vs) /\ content' = From(content \o vs, x + 1)
    BY <1>7 DEF Slides
  <2> DEFINE all == content \o vs
  <2>2. PICK x \in Nat : x <= Len(all) /\ content' = From(all, x + 1)
    BY <2>1
  <2>3. all \in Seq(Value)
    BY <1>0, ConcatParts
  <2>4. Elements(all) = Elements(content) \cup Elements(vs)
    BY <1>0, ElementsConcat
  <2> HIDE DEF all
  <2>5. Elements(From(all, x + 1)) \subseteq Elements(all)
    BY <2>2, <2>3, ElementsFrom
  <2>6. Elements(content') \subseteq Elements(content) \cup Elements(vs)
    BY <2>2, <2>4, <2>5
  <2>7. Seen' \subseteq Seen \cup Elements(vs)
    BY <2>1, <2>6 DEF Seen
  <2> QED BY <1>4, <2>1, <2>7
<1>8. CASE UNCHANGED <<content, putters, got>>
  <2>1. Seen' = Seen
    BY <1>8 DEF Seen
  <2> QED BY <1>3, <2>1 DEF SeenOK
<1>9. CASE Cleanup(f) \/ ShutdownStrategy(f)
  <2>1. content' = content /\ got' = got /\ Elements(Values(putters')) \subseteq Elements(Values(putters))
    <3>1. CASE Cleanup(f)
      <4> DEFINE ap == {i \in DOMAIN putters : putters[i].value.by # f}  u == Pick(putters, ap)  n == Cardinality(ap)
      <4>1. putters' = u /\ content' = content /\ got' = got
        BY <3>1 DEF Cleanup
      <4>2. ap \subseteq DOMAIN putters
        OBVIOUS
      <4> HIDE DEF ap, Putter
      <4>3. u \in Seq(Putter) /\ Len(u) = n /\ \A k \in 1..n : PlaceOf(ap, k) \in ap /\ u[k] = putters[PlaceOf(ap, k)]
        BY <1>0, <4>2, PickParts
      <4>4. DOMAIN u = 1..n
        BY <4>3
      <4> HIDE DEF u, n
      <4>5. DOMAIN Values(u) = DOMAIN u /\ \A k \in DOMAIN u : Values(u)[k] = u[k].value
        BY DEF Values
      <4>6. DOMAIN Values(putters) = DOMAIN putters /\ \A k \in DOMAIN putters : Values(putters)[k] = putters[k].value
        BY DEF Values
      <4>7. ASSUME NEW k \in DOMAIN u PROVE \E i \in DOMAIN putters : Values(u)[k] = Values(putters)[i]
        BY <4>2, <4>3, <4>4, <4>5, <4>6
      <4>8. Elements(Values(u)) \subseteq Elements(Values(putters))
        BY <4>5, <4>6, <4>7 DEF Elements
      <4> QED BY <4>1, <4>8
    <3>2. CASE ShutdownStrategy(f)
      BY <3>2 DEF ShutdownStrategy, Values, Elements
    <3> QED BY <1>9, <3>1, <3>2
  <2>2. Seen' \subseteq Seen
    BY <2>1 DEF Seen
  <2> QED BY <1>3, <2>2 DEF SeenOK
<1> QED BY <1>6, <1>7, <1>8, <1>9, FlowSteps

\* A product grows with its factor.
LEMMA TimesMore ==
  ASSUME NEW a \in Nat, NEW b \in Nat, NEW n \in Nat, a <= b
  PROVE  a * n <= b * n /\ a * n \in Nat /\ b * n \in Nat
OBVIOUS

\* The channel counts as the queue does.
LEMMA SameCardinality == \A S : Abstract!Cardinality(S) = Cardinality(S)
BY DEF Abstract!Cardinality, Cardinality

\* What is brought is a batch of the channel, and new to it.
LEMMA BroughtBatch ==
  ASSUME TypeInv, SentsInv, SeenOK, NEW f \in Fiber, Moves(f), NEW vs \in Seq(Value), Brings(f, vs)
  PROVE  vs \in Abstract!Batch /\ Abstract!New(vs)
<1>1. PICK k \in Nat : k <= sent[f] /\ (\E n \in Sized : Len(vs) <= n) /\ \A i \in 1..Len(vs) : vs[i] = [by |-> f, n |-> k + i]
  BY DEF Brings
<1>2. Len(vs) \in Nat /\ DOMAIN vs = 1..Len(vs) /\ vs = [i \in 1..Len(vs) |-> vs[i]]
  <2> HIDE DEF Value
  <2> QED OBVIOUS
<1>3. Len(vs) \in UNION {0..n : n \in Batches \cup {1}}
  <2>1. PICK n \in Sized : Len(vs) <= n
    BY <1>1
  <2>2. n \in Nat /\ Len(vs) \in 0..n
    BY <1>2, <2>1, SizedParts
  <2> QED BY <2>1, <2>2 DEF Sized
<1>4. k \in UNION {0..(Fuel[g] * n) : g \in Fiber, n \in Batches \cup {1}}
  <2> DEFINE a == Fuel[f] - fuel[f]  b == Fuel[f]
  <2>1. PICK n \in Sized : sent[f] <= a * n
    BY DEF SentsInv, SentOf
  <2>2. a \in Nat /\ b \in Nat /\ a <= b /\ n \in Nat /\ sent[f] \in Nat
    <3>1. n \in Nat
      BY SizedParts
    <3>2. sent[f] \in Nat
      BY Bounds
    <3>3. Fuel[f] \in Nat /\ fuel[f] \in Nat
      BY QueueAssumption DEF TypeInv, TypeOK
    <3>4. fuel[f] <= Fuel[f]
      BY DEF SentsInv, SentOf
    <3> QED BY <3>1, <3>2, <3>3, <3>4
  <2>5. sent[f] <= a * n
    BY <2>1
  <2> HIDE DEF a
  <2>6. b = Fuel[f]
    OBVIOUS
  <2> HIDE DEF b
  <2>3. a * n <= b * n /\ a * n \in Nat /\ b * n \in Nat
    BY <2>2, TimesMore
  <2> DEFINE x == a * n  y == b * n
  <2>7. x <= y /\ x \in Nat /\ y \in Nat /\ sent[f] <= x /\ sent[f] \in Nat
    BY <2>2, <2>3, <2>5
  <2> HIDE DEF x, y
  <2>4. k \in 0..y
    BY <1>1, <2>7
  <2>8. n \in Batches \cup {1}
    BY DEF Sized
  <2>9. k \in 0..(Fuel[f] * n)
    BY <2>4, <2>6 DEF y
  <2> DEFINE top(g, m) == 0..(Fuel[g] * m)
  <2>10. f \in Fiber /\ n \in Batches \cup {1} /\ k \in top(f, n)
    BY <2>8, <2>9
  <2> HIDE DEF top
  <2>11. k \in UNION {top(g, m) : g \in Fiber, m \in Batches \cup {1}}
    BY <2>10
  <2> QED BY <2>11 DEF top
<1>5. vs = [i \in 1..Len(vs) |-> [by |-> f, n |-> k + i]]
  BY <1>1, <1>2
<1>6. vs \in Abstract!Batch
  <2> DEFINE sizes == UNION {0..n : n \in Batches \cup {1}}
             counts == UNION {0..(Fuel[g] * n) : g \in Fiber, n \in Batches \cup {1}}
  <2>1. Abstract!Batch = {[i \in 1..n |-> [by |-> p, n |-> j + i]] : n \in sizes, j \in counts, p \in Fiber}
    BY DEF Abstract!Batch, BatchSizes, SentCounts
  <2>2. Len(vs) \in sizes /\ k \in counts
    BY <1>3, <1>4
  <2> HIDE DEF sizes, counts
  <2>3. [i \in 1..Len(vs) |-> [by |-> f, n |-> k + i]] \in Abstract!Batch
    BY <2>1, <2>2
  <2> QED BY <2>3, <1>5
<1>7. Elements(vs) \cap Seen = {}
  BY Brought
<1>8. Abstract!New(vs)
  BY <1>7 DEF Seen, Abstract!New, Abstract!Elements, Elements
<1> QED BY <1>6, <1>8

\* Passing values on is a Pass of the channel,
LEMMA PassesIsPass ==
  ASSUME TypeInv, SentsInv, SeenOK, NEW f \in Fiber, Moves(f), UNCHANGED <<flag, strategy>>, Passes(f)
  PROVE  Abstract!Next
<1>1. PICK vs \in Seq(Value) : Brings(f, vs) /\ Flow((content \o Values(putters)) \o vs)
  BY DEF Passes
<1>2. vs \in Abstract!Batch /\ Abstract!New(vs)
  BY <1>1, BroughtBatch
<1> DEFINE all == (content \o Values(putters)) \o vs
<1>3. all \in Seq(Value)
  <2> DEFINE vp == Values(putters)  cp == content \o vp
  <2>1. content \in Seq(Value) /\ vp \in Seq(Value)
    BY Made, ValuesParts DEF TypeInv
  <2> HIDE DEF vp
  <2>2. cp \in Seq(Value)
    BY <2>1, ConcatParts
  <2> HIDE DEF cp
  <2>3. cp \o vs \in Seq(Value)
    BY <2>2, ConcatParts
  <2> QED BY <2>3 DEF cp, vp
<1>4. PICK n, k \in Nat :
        /\ n + k <= Len(all)
        /\ got' = got \o SubSeq(all, 1, n)
        /\ content' = SubSeq(all, n + 1, n + k)
        /\ Values(putters') = From(all, (n + k) + 1)
  BY <1>1 DEF Flow
<1>5. Len(all) \in Nat
  BY <1>3
<1>6. n \in 0..Len(all) /\ k \in 0..(Len(all) - n)
  BY <1>4, <1>5
<1>7. Values(putters)' = SubSeq(all, n + k + 1, Len(all))
  BY <1>4 DEF From
<1>8. UNCHANGED <<flag, strategy = "sliding">>
  OBVIOUS
<1>9. Abstract!Pass(vs)
  BY <1>2, <1>4, <1>6, <1>7, <1>8 DEF Abstract!Pass, Abstract!From
<1> QED BY <1>2, <1>9 DEF Abstract!Next

\* sliding is its Slide,
LEMMA SlidesIsSlide ==
  ASSUME TypeInv, SentsInv, SeenOK, NEW f \in Fiber, Moves(f), UNCHANGED <<flag, strategy>>, Slides(f)
  PROVE  Abstract!Next
<1>1. PICK vs \in Seq(Value) :
        /\ strategy = "sliding" /\ Brings(f, vs) /\ UNCHANGED <<putters, got>>
        /\ \E x \in Nat : x <= Len(content \o vs) /\ content' = From(content \o vs, x + 1)
  BY DEF Slides
<1>2. vs \in Abstract!Batch /\ Abstract!New(vs)
  BY <1>1, BroughtBatch
<1> DEFINE all == content \o vs
<1>3. PICK x \in Nat : x <= Len(all) /\ content' = From(all, x + 1)
  BY <1>1
<1>4. all \in Seq(Value)
  <2>1. content \in Seq(Value)
    BY Made DEF TypeInv
  <2> QED BY <2>1, ConcatParts
<1>5. x \in 0..Len(all)
  <2>1. Len(all) \in Nat
    BY <1>4
  <2> QED BY <1>3, <2>1
<1>6. UNCHANGED <<Values(putters), got, flag, strategy = "sliding">>
  BY <1>1
<1>7. Abstract!Slide(vs)
  BY <1>1, <1>2, <1>3, <1>5, <1>6 DEF Abstract!Slide, Abstract!From, From
<1> QED BY <1>2, <1>7 DEF Abstract!Next

\* and the cleanup of an offer is its Withdraw.
LEMMA CleanupIsWithdraw ==
  ASSUME TypeInv, NEW f \in Fiber, Cleanup(f)
  PROVE  Abstract!Next
<1>1. putters \in Seq(Putter)
  BY Made DEF TypeInv
<1> DEFINE ap == {i \in DOMAIN putters : putters[i].value.by # f}  u == Pick(putters, ap)
           o == Values(putters)  ao == {i \in DOMAIN o : o[i].by # f}
<1>2. putters' = u /\ UNCHANGED <<content, got, flag, strategy>>
  BY DEF Cleanup, closing, config
<1>3. DOMAIN o = DOMAIN putters /\ \A i \in DOMAIN putters : o[i] = putters[i].value
  BY DEF Values
<1>4. ao = ap
  BY <1>3
<1>5. ap \subseteq DOMAIN putters
  OBVIOUS
<1> HIDE DEF ap, ao, o
<1>6. \A k \in 1..Cardinality(ap) : PlaceOf(ap, k) \in ap
  <2> HIDE DEF Putter
  <2> QED BY <1>1, <1>5, PickParts
<1>7. u = [k \in 1..Cardinality(ap) |-> putters[PlaceOf(ap, k)]]
  BY DEF Pick, PlaceOf, Rank
<1>8. Values(u) = [k \in 1..Cardinality(ap) |-> o[PlaceOf(ap, k)]]
  BY <1>3, <1>5, <1>6, <1>7 DEF Values
<1>9. Abstract!Pick(o, ap) = [k \in 1..Cardinality(ap) |-> o[PlaceOf(ap, k)]]
  BY DEF Abstract!Pick, PlaceOf, Rank, Abstract!Cardinality, Cardinality
<1>10. Values(putters)' = Abstract!Pick(o, ao)
  BY <1>2, <1>4, <1>8, <1>9
<1>11. Abstract!Withdraw(f)
  BY <1>2, <1>10 DEF Abstract!Withdraw, o, ao
<1> QED BY <1>11 DEF Abstract!Next

abstract == <<content, Values(putters), got, flag, strategy = "sliding">>

\* Every step of the queue is one of the channel, or a stutter.
LEMMA StepIsStep ==
  ASSUME WaitInv, SentsInv, SeenOK, NEW f \in Fiber, Moves(f)
  PROVE  [Abstract!Next]_abstract
<1>0. TypeInv /\ CloseInv
  BY DEF WaitInv
<1>1. UNCHANGED strategy
  BY ConfigStill DEF config
<1>2. CASE Shutdown(f)
  <2>1. flag' = TRUE /\ UNCHANGED <<content, putters, got>>
    BY <1>2 DEF Shutdown
  <2>2. Abstract!Close
    BY <1>1, <2>1 DEF Abstract!Close
  <2> QED BY <2>2 DEF Abstract!Next
<1>3. CASE ~Shutdown(f)
  <2>1. flag' = flag
    BY <1>3 DEF Moves, Begin, Step, StopsWaiting, StopsBetween, Leaves, Stops, Offer, UnsafeOffer, TakeOne, TakeBetween, Refused,
       PutSurplus, SlideSurplus, Admitted, Take, Register, Served, TakeUpTo, Poll, Aborted, Cleanup, ShutdownHook,
       InterruptWaiter, TakersInterrupted, ShutdownStrategy, ShutdownDone, closing
  <2>2. CASE Passes(f)
    BY <1>0, <1>1, <2>1, <2>2, PassesIsPass
  <2>3. CASE Slides(f)
    BY <1>0, <1>1, <2>1, <2>3, SlidesIsSlide
  <2>4. CASE UNCHANGED <<content, putters, got>>
    BY <1>1, <2>1, <2>4 DEF abstract
  <2>5. CASE Cleanup(f)
    BY <1>0, <2>5, CleanupIsWithdraw
  <2>6. CASE ShutdownStrategy(f)
    <3>1. flag /\ putters' = <<>> /\ UNCHANGED <<content, got>>
      BY <1>0, <2>6 DEF ShutdownStrategy, CloseInv, Shutting
    <3>2. Values(putters)' = <<>>
      BY <3>1 DEF Values
    <3>3. Abstract!Drop
      BY <1>1, <2>1, <3>1, <3>2 DEF Abstract!Drop
    <3> QED BY <3>3 DEF Abstract!Next
  <2> QED BY <1>0, <2>2, <2>3, <2>4, <2>5, <2>6, FlowSteps
<1> QED BY <1>2, <1>3

\* What the refinement rests on.
ChannelInv == WaitInv /\ SentsInv /\ SeenOK

\* What the refinement rests on is an invariant.
LEMMA ChannelKept == Spec => []ChannelInv
<1>1. Init => SentsInv /\ SeenOK
  <2> SUFFICES ASSUME Init PROVE SentsInv /\ SeenOK
    OBVIOUS
  <2>1. \A f \in Fiber : fuel[f] = Fuel[f] /\ Fuel[f] \in Nat /\ sent[f] = 0 /\ surplus[f] = <<>>
    BY QueueAssumption DEF Init
  <2>2. ASSUME NEW f \in Fiber PROVE SentOf(f)
    <3>1. 0 <= (Fuel[f] - fuel[f]) * 1 /\ Len(<<>>) <= 1 /\ fuel[f] <= Fuel[f]
      BY <2>1
    <3> QED BY <2>1, <3>1, SizedParts DEF SentOf
  <2>3. Seen = {}
    BY DEF Init, Seen, Elements, Values
  <2> QED BY <2>2, <2>3 DEF SentsInv, SeenOK
<1>2. WaitInv /\ SentsInv /\ SeenOK /\ [Next]_vars => SentsInv' /\ SeenOK'
  <2> SUFFICES ASSUME WaitInv, SentsInv, SeenOK, [Next]_vars PROVE SentsInv' /\ SeenOK'
    OBVIOUS
  <2>0. TypeInv
    BY DEF WaitInv
  <2>1. CASE UNCHANGED vars
    <3>1. sent' = sent /\ surplus' = surplus /\ fuel' = fuel /\ content' = content /\ putters' = putters /\ got' = got
      BY <2>1 DEF vars, store
    <3>2. SentsInv'
      BY <3>1 DEF SentsInv, SentOf
    <3>3. Seen' = Seen /\ \A g : Bound(g)' = Bound(g)
      BY <3>1 DEF Seen, Bound
    <3>4. SeenOK'
      BY <3>3 DEF SeenOK
    <3> QED BY <3>2, <3>4
  <2>2. CASE \E f \in Fiber : Moves(f)
    BY <2>0, <2>2, SentKept, SeenKept
  <2> QED BY <2>1, <2>2, NextMoves
<1> QED BY <1>1, <1>2, WaitsKept, PTL DEF Spec, ChannelInv

\* The queue implements the channel, for every capacity, strategy and batch: no offer
\* overtakes another, and nothing comes out twice.
THEOREM QueueIsChannel == Spec => ImplementsChannel
<1>1. Init => Abstract!Init
  <2> SUFFICES ASSUME Init PROVE Abstract!Init
    OBVIOUS
  <2>1. content = <<>> /\ putters = <<>> /\ got = <<>> /\ flag = FALSE
    BY DEF Init
  <2>2. Values(putters) = <<>>
    BY <2>1 DEF Values
  <2> QED BY <2>1, <2>2 DEF Abstract!Init
<1>2. ChannelInv /\ [Next]_vars => [Abstract!Next]_abstract
  <2> SUFFICES ASSUME ChannelInv, [Next]_vars PROVE [Abstract!Next]_abstract
    OBVIOUS
  <2>1. CASE UNCHANGED vars
    <3>1. content' = content /\ putters' = putters /\ got' = got /\ flag' = flag /\ strategy' = strategy
      BY <2>1 DEF vars, store, closing, config
    <3> QED BY <3>1 DEF abstract
  <2>2. CASE \E f \in Fiber : Moves(f)
    BY <2>2, StepIsStep DEF ChannelInv
  <2> QED BY <2>1, <2>2, NextMoves
<1> QED BY <1>1, <1>2, ChannelKept, PTL DEF Spec, ImplementsChannel, Abstract!Spec, abstract
=============================================================================
