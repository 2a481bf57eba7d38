-------------------------- MODULE SemaphoreProofs --------------------------
(***************************************************************************)
(* Theorems about semaphores and Ref.Synchronized, with their proofs, for  *)
(* any finite number of fibers, of permits and of operations.              *)
(*                                                                         *)
(* The inductive invariant (Inv) is the conjunction of                     *)
(*   TypeOK      the types, and that no more permits are taken than there  *)
(*               are,                                                      *)
(*   Asked       who holds or waits for permits asked for one at least,    *)
(*   Queued      nobody waits twice, or waits and holds,                   *)
(*   Accounted   what is not free is held, or lost,                        *)
(*   Serialized  with one permit, what a fiber read is what it replaces.   *)
(* The sums of Accounted are folds over sets, and the walk of a wake-up    *)
(* over the waiters is a recursive function: that both are defined, and    *)
(* what a step does to them, comes first.                                  *)
(***************************************************************************)
EXTENDS Semaphore, FiniteSetTheorems, SequenceTheorems, WellFoundedInduction, TLAPS

\* A set of numbers has a least one.
LEMMA LeastOf ==
  ASSUME NEW N, N \subseteq Nat, N # {}
  PROVE  \E n \in N : \A k \in N : n <= k
<1> DEFINE T == {1..n : n \in N}  S == FiniteSubsetsOf(Nat)
<1>1. IsWellFoundedOn(StrictSubsetOrdering(Nat), S)
  BY FS_StrictSubsetOrderingWellFounded
<1>2. T \subseteq S
  <2> SUFFICES ASSUME NEW n \in N PROVE 1..n \in S
    OBVIOUS
  <2>1. IsFiniteSet(1..n)
    BY FS_Interval
  <2>2. 1..n \subseteq Nat
    OBVIOUS
  <2> QED BY <2>1, <2>2 DEF FiniteSubsetsOf
<1>3. T # {}
  OBVIOUS
<1>4. PICK x \in T : \A y \in T : ~(<<y, x>> \in StrictSubsetOrdering(Nat))
  <2> HIDE DEF T, S
  <2> QED BY <1>1, <1>2, <1>3, WFMin
<1>5. PICK n \in N : x = 1..n
  OBVIOUS
<1>6. ASSUME NEW k \in N, k < n PROVE FALSE
  <2>1. 1..k \in T
    OBVIOUS
  <2>2. 1..k \subseteq 1..n /\ n \in 1..n /\ n \notin 1..k /\ 1..k \subseteq Nat /\ 1..n \subseteq Nat
    BY <1>6
  <2>3. 1..k # 1..n
    BY <2>2
  <2>4. <<1..k, 1..n>> \in StrictSubsetOrdering(Nat)
    <3> DEFINE a == 1..k  b == 1..n
    <3>1. a \subseteq b /\ a # b /\ a \subseteq Nat /\ b \subseteq Nat
      BY <2>2, <2>3
    <3> HIDE DEF a, b
    <3>2. <<a, b>> \in StrictSubsetOrdering(Nat)
      BY <3>1 DEF StrictSubsetOrdering
    <3> QED BY <3>2 DEF a, b
  <2> QED BY <2>1, <2>4, <1>4, <1>5
<1>7. \A k \in N : n <= k
  BY <1>6
<1> QED BY <1>7

----------------------------------------------------------------------------
(* Sums over finite sets, as MapThenSumSet folds them.                     *)

IterOf(w, it, s) == IF s = {} THEN 0 ELSE w[CHOOSE x \in s : TRUE] + it[s \ {CHOOSE x \in s : TRUE}]
Adds(w, S, it) == it = [s \in SUBSET S |-> IterOf(w, it, s)]
Iter(w, S) == CHOOSE it : Adds(w, S, it)
Total(w, S) == Iter(w, S)[S]

\* Total is what the fold of the library computes.
LEMMA SumIsFold ==
  ASSUME NEW w, NEW S
  PROVE  MapThenSumSet(LAMBDA f : w[f], S) = Total(w, S)
BY DEF MapThenSumSet, MapThenFoldSet, Total, Iter, Adds, IterOf

\* A finite set of finite sets that is not empty has one with the fewest elements.
LEMMA FewestOf ==
  ASSUME NEW B, B # {}, \A s \in B : IsFiniteSet(s)
  PROVE  \E s \in B : \A t \in B : Cardinality(s) <= Cardinality(t)
<1> DEFINE N == {Cardinality(s) : s \in B}
<1>1. N \subseteq Nat
  BY FS_CardinalityType
<1>2. N # {}
  OBVIOUS
<1>3. PICK n \in N : \A k \in N : n <= k
  BY <1>1, <1>2, LeastOf
<1> QED BY <1>3

\* What is chosen from a set, and what is left.
LEMMA Chosen ==
  ASSUME NEW s, s # {}, IsFiniteSet(s)
  PROVE  LET x == CHOOSE y \in s : TRUE IN
           /\ x \in s /\ IsFiniteSet(s \ {x}) /\ s \ {x} \subseteq s
           /\ Cardinality(s \ {x}) < Cardinality(s)
<1> DEFINE x == CHOOSE y \in s : TRUE
<1>1. x \in s
  OBVIOUS
<1> HIDE DEF x
<1>2. IsFiniteSet(s \ {x}) /\ Cardinality(s \ {x}) = Cardinality(s) - 1
  BY <1>1, FS_RemoveElement
<1>3. Cardinality(s) \in Nat /\ Cardinality(s \ {x}) \in Nat
  BY <1>2, FS_CardinalityType
<1> QED BY <1>1, <1>2, <1>3 DEF x

\* Two folds agree where both are defined.
LEMMA FoldsAgree ==
  ASSUME NEW w, NEW S, NEW T, NEW f, NEW g, Adds(w, S, f), Adds(w, T, g),
         NEW u, IsFiniteSet(u), u \subseteq S, u \subseteq T
  PROVE  f[u] = g[u]
<1> DEFINE B == {s \in SUBSET u : f[s] # g[s]}
<1>1. \A s \in SUBSET u : f[s] = IterOf(w, f, s) /\ g[s] = IterOf(w, g, s)
  BY DEF Adds
<1>2. SUFFICES ASSUME B # {} PROVE FALSE
  OBVIOUS
<1>3. \A s \in SUBSET u : IsFiniteSet(s)
  BY FS_Subset
<1>4. PICK s \in B : \A t \in B : Cardinality(s) <= Cardinality(t)
  <2>1. \A s \in B : IsFiniteSet(s)
    BY <1>3
  <2> HIDE DEF B
  <2> QED BY <1>2, <2>1, FewestOf
<1>5. s \in SUBSET u /\ IsFiniteSet(s) /\ f[s] # g[s]
  BY <1>3
<1>6. s # {}
  BY <1>1, <1>5 DEF IterOf
<1> DEFINE x == CHOOSE y \in s : TRUE  t == s \ {x}
<1>7. x \in s /\ IsFiniteSet(t) /\ t \subseteq s /\ Cardinality(t) < Cardinality(s)
  BY <1>5, <1>6, Chosen
<1>8. f[s] = w[x] + f[t] /\ g[s] = w[x] + g[t]
  BY <1>1, <1>5, <1>6 DEF IterOf
<1>9. t \in SUBSET u /\ f[t] # g[t]
  <2> HIDE DEF x, t
  <2> QED BY <1>5, <1>7, <1>8
<1>10. Cardinality(s) <= Cardinality(t) /\ Cardinality(s) \in Nat /\ Cardinality(t) \in Nat
  <2> HIDE DEF x, t
  <2> QED BY <1>4, <1>5, <1>7, <1>9, FS_CardinalityType
<1> HIDE DEF x, t
<1> QED BY <1>7, <1>10

\* The fold of a set is the one of what is chosen and of what is left.
Folds(w, S) == Adds(w, S, Iter(w, S))

LEMMA SumStep ==
  ASSUME NEW w, NEW s, IsFiniteSet(s), Folds(w, s),
         s # {} => Folds(w, s \ {CHOOSE x \in s : TRUE})
  PROVE  Total(w, s) = IF s = {} THEN 0 ELSE w[CHOOSE x \in s : TRUE] + Total(w, s \ {CHOOSE x \in s : TRUE})
<1>1. Iter(w, s)[s] = IterOf(w, Iter(w, s), s)
  <2> DEFINE it == Iter(w, s)
  <2>1. it = [t \in SUBSET s |-> IterOf(w, it, t)]
    BY DEF Folds, Adds
  <2> HIDE DEF it
  <2>2. it[s] = IterOf(w, it, s)
    BY <2>1
  <2> QED BY <2>2 DEF it
<1>2. CASE s = {}
  BY <1>1, <1>2 DEF Total, IterOf
<1>3. CASE s # {}
  <2> DEFINE x == CHOOSE y \in s : TRUE  t == s \ {x}
  <2>1. x \in s /\ IsFiniteSet(t) /\ t \subseteq s
    BY <1>3, Chosen
  <2>2. Iter(w, s)[s] = w[x] + Iter(w, s)[t]
    BY <1>1, <1>3 DEF IterOf
  <2>3. Folds(w, t)
    BY <1>3
  <2>4. Iter(w, s)[t] = Iter(w, t)[t]
    <3> HIDE DEF x, t
    <3>1. Adds(w, s, Iter(w, s)) /\ Adds(w, t, Iter(w, t))
      BY <2>3 DEF Folds
    <3> QED BY <2>1, <3>1, FoldsAgree
  <2> QED BY <1>3, <2>2, <2>4 DEF Total
<1> QED BY <1>2, <1>3

\* There is a fold of every finite set.
LEMMA FoldsExist ==
  ASSUME NEW w, NEW S, IsFiniteSet(S)
  PROVE  Folds(w, S)
<1> DEFINE B == {s \in SUBSET S : ~Folds(w, s)}
<1>1. SUFFICES ASSUME B # {} PROVE FALSE
  OBVIOUS
<1>2. \A s \in SUBSET S : IsFiniteSet(s)
  BY FS_Subset
<1>3. PICK s \in B : \A t \in B : Cardinality(s) <= Cardinality(t)
  <2>1. \A s \in B : IsFiniteSet(s)
    BY <1>2
  <2> HIDE DEF B
  <2> QED BY <1>1, <2>1, FewestOf
<1>4. s \in SUBSET S /\ IsFiniteSet(s) /\ ~Folds(w, s)
  BY <1>2
<1>5. ASSUME NEW t \in SUBSET s, t # s PROVE Folds(w, t) /\ IsFiniteSet(t)
  <2>1. t \in SUBSET S /\ IsFiniteSet(t)
    BY <1>2, <1>4
  <2>3. Cardinality(t) \in Nat /\ Cardinality(s) \in Nat
    BY <2>1, <1>4, FS_CardinalityType
  <2>2. Cardinality(t) < Cardinality(s)
    <3>1. Cardinality(t) <= Cardinality(s) /\ (Cardinality(s) = Cardinality(t) => s = t)
      BY <1>4, FS_Subset
    <3> QED BY <3>1, <2>3, <1>5
  <2>4. t \notin B
    BY <1>3, <2>2, <2>3
  <2> QED BY <2>1, <2>4
<1> DEFINE c(t) == CHOOSE x \in t : TRUE
           it == [t \in SUBSET s |-> IF t = {} THEN 0 ELSE w[c(t)] + Total(w, t \ {c(t)})]
<1>6. ASSUME NEW t \in SUBSET s, t # s PROVE it[t] = Total(w, t)
  <2>1. Folds(w, t) /\ IsFiniteSet(t)
    BY <1>5, <1>6
  <2>2. t # {} => Folds(w, t \ {c(t)})
    <3> SUFFICES ASSUME t # {} PROVE Folds(w, t \ {c(t)})
      OBVIOUS
    <3> DEFINE u == t \ {c(t)}
    <3>1. u \in SUBSET s /\ u # s
      <4>1. c(t) \in t
        OBVIOUS
      <4> HIDE DEF c
      <4> QED BY <4>1
    <3> HIDE DEF u
    <3>2. Folds(w, u)
      BY <3>1, <1>5
    <3> QED BY <3>2 DEF u
  <2>3. Total(w, t) = IF t = {} THEN 0 ELSE w[c(t)] + Total(w, t \ {c(t)})
    BY <2>1, <2>2, SumStep
  <2> QED BY <2>3
<1>7. ASSUME NEW t \in SUBSET s PROVE it[t] = IterOf(w, it, t)
  <2>1. CASE t = {}
    BY <2>1 DEF IterOf
  <2>2. CASE t # {}
    <3> DEFINE u == t \ {c(t)}
    <3>1. u \in SUBSET s /\ u # s
      <4>1. c(t) \in t
        BY <2>2
      <4> HIDE DEF c
      <4> QED BY <4>1
    <3>2. it[u] = Total(w, u)
      <4> HIDE DEF u, it
      <4> QED BY <3>1, <1>6
    <3>3. it[t] = w[c(t)] + Total(w, u)
      BY <2>2
    <3>4. IterOf(w, it, t) = w[c(t)] + it[u]
      <4> HIDE DEF it
      <4> QED BY <2>2 DEF IterOf
    <3> HIDE DEF it, u
    <3> QED BY <3>2, <3>3, <3>4
  <2> QED BY <2>1, <2>2
<1>8. Adds(w, s, it)
  <2>1. it = [t \in SUBSET s |-> it[t]]
    OBVIOUS
  <2> HIDE DEF it
  <2>2. it = [t \in SUBSET s |-> IterOf(w, it, t)]
    BY <2>1, <1>7
  <2> QED BY <2>2 DEF Adds
<1>9. Adds(w, s, Iter(w, s))
  <2> HIDE DEF it
  <2> DEFINE P(i) == Adds(w, s, i)
  <2>1. P(it)
    BY <1>8
  <2> HIDE DEF P
  <2>2. P(CHOOSE i : P(i))
    BY <2>1
  <2> QED BY <2>2 DEF P, Iter
<1> QED BY <1>4, <1>9 DEF Folds

\* The sum of nothing, and of what is chosen and what is left.
LEMMA SumParts ==
  ASSUME NEW w, NEW S, IsFiniteSet(S)
  PROVE  Total(w, S) = IF S = {} THEN 0 ELSE w[CHOOSE x \in S : TRUE] + Total(w, S \ {CHOOSE x \in S : TRUE})
<1>1. Folds(w, S)
  BY FoldsExist
<1>2. ASSUME S # {} PROVE Folds(w, S \ {CHOOSE x \in S : TRUE})
  <2> DEFINE t == S \ {CHOOSE x \in S : TRUE}
  <2>1. IsFiniteSet(t)
    BY <1>2, Chosen
  <2> HIDE DEF t
  <2>2. Folds(w, t)
    BY <2>1, FoldsExist
  <2> QED BY <2>2 DEF t
<1> QED BY <1>1, <1>2, SumStep

\* A sum of numbers is one.
LEMMA SumNat ==
  ASSUME NEW D, NEW w \in [D -> Nat], NEW S \in SUBSET D, IsFiniteSet(S)
  PROVE  Total(w, S) \in Nat
<1> DEFINE B == {s \in SUBSET S : Total(w, s) \notin Nat}
<1>1. SUFFICES ASSUME B # {} PROVE FALSE
  OBVIOUS
<1>2. \A s \in SUBSET S : IsFiniteSet(s)
  BY FS_Subset
<1>3. PICK s \in B : \A t \in B : Cardinality(s) <= Cardinality(t)
  <2>1. \A s \in B : IsFiniteSet(s)
    BY <1>2
  <2> HIDE DEF B
  <2> QED BY <1>1, <2>1, FewestOf
<1>4. s \in SUBSET S /\ IsFiniteSet(s) /\ Total(w, s) \notin Nat
  BY <1>2
<1> DEFINE x == CHOOSE y \in s : TRUE  t == s \ {x}
<1>5. Total(w, s) = IF s = {} THEN 0 ELSE w[x] + Total(w, t)
  BY <1>4, SumParts
<1>6. s # {}
  BY <1>4, <1>5
<1>7. x \in s /\ IsFiniteSet(t) /\ t \subseteq s /\ Cardinality(t) < Cardinality(s)
  BY <1>4, <1>6, Chosen
<1> HIDE DEF x, t
<1>8. w[x] \in Nat
  BY <1>4, <1>7
<1>9. Cardinality(t) \in Nat /\ Cardinality(s) \in Nat
  BY <1>4, <1>7, FS_CardinalityType
<1>10. t \notin B
  BY <1>3, <1>7, <1>9
<1>11. Total(w, t) \in Nat
  BY <1>4, <1>7, <1>10
<1> QED BY <1>4, <1>5, <1>6, <1>8, <1>11

\* One more summand, whatever is chosen first.
LEMMA SumInsert ==
  ASSUME NEW D, NEW w \in [D -> Nat], NEW S \in SUBSET D, IsFiniteSet(S), NEW a \in D \ S
  PROVE  Total(w, S \cup {a}) = Total(w, S) + w[a]
<1> DEFINE B == {s \in SUBSET S : \E b \in D \ s : Total(w, s \cup {b}) # Total(w, s) + w[b]}
<1>1. SUFFICES ASSUME B # {} PROVE FALSE
  <2>1. S \in SUBSET S
    OBVIOUS
  <2> QED BY <2>1
<1>2. \A s \in SUBSET S : IsFiniteSet(s)
  BY FS_Subset
<1>3. PICK s \in B : \A t \in B : Cardinality(s) <= Cardinality(t)
  <2>1. \A s \in B : IsFiniteSet(s)
    BY <1>2
  <2> HIDE DEF B
  <2> QED BY <1>1, <2>1, FewestOf
<1>4. s \in SUBSET S /\ IsFiniteSet(s)
  BY <1>2
<1>5. PICK b \in D \ s : Total(w, s \cup {b}) # Total(w, s) + w[b]
  OBVIOUS
<1> DEFINE u == s \cup {b}  x == CHOOSE y \in u : TRUE
<1>6. u # {} /\ IsFiniteSet(u)
  BY <1>4, FS_AddElement
<1>7. x \in u
  BY <1>6
<1>8. Total(w, u) = w[x] + Total(w, u \ {x})
  BY <1>6, SumParts
<1> HIDE DEF x
<1>9. x # b
  <2> SUFFICES ASSUME x = b PROVE FALSE
    OBVIOUS
  <2>1. u \ {x} = s
    OBVIOUS
  <2>2. w[b] \in Nat /\ Total(w, s) \in Nat
    BY <1>4, SumNat
  <2> QED BY <1>5, <1>8, <2>1, <2>2
<1> DEFINE t == s \ {x}
<1>10. x \in s /\ u \ {x} = t \cup {b} /\ b \in D \ t /\ s = t \cup {x} /\ x \in D \ t /\ t \in SUBSET S /\ x \in D
  BY <1>4, <1>7, <1>9
<1>11. IsFiniteSet(t) /\ Cardinality(t) = Cardinality(s) - 1 /\ Cardinality(s) \in Nat /\ Cardinality(t) \in Nat
  <2>1. IsFiniteSet(t) /\ Cardinality(t) = Cardinality(s) - 1
    BY <1>4, <1>10, FS_RemoveElement
  <2> QED BY <2>1, <1>4, FS_CardinalityType
<1>12. t \notin B
  <2> HIDE DEF t, B
  <2> QED BY <1>3, <1>11
<1>13. Total(w, t \cup {b}) = Total(w, t) + w[b] /\ Total(w, t \cup {x}) = Total(w, t) + w[x]
  <2> HIDE DEF t
  <2> QED BY <1>10, <1>12
<1>14. w[x] \in Nat /\ w[b] \in Nat /\ Total(w, t) \in Nat
  <2> HIDE DEF t
  <2>1. t \in SUBSET D
    BY <1>10
  <2> QED BY <2>1, <1>10, <1>11, SumNat
<1> HIDE DEF t, u
<1>15. Total(w, u) = w[x] + (Total(w, t) + w[b]) /\ Total(w, s) = Total(w, t) + w[x]
  BY <1>8, <1>10, <1>13
<1>16. Total(w, u) = Total(w, s) + w[b]
  BY <1>14, <1>15
<1> QED BY <1>5, <1>16 DEF u

\* One summand less.
LEMMA SumRemove ==
  ASSUME NEW D, NEW w \in [D -> Nat], NEW S \in SUBSET D, IsFiniteSet(S), NEW a \in S
  PROVE  Total(w, S) = Total(w, S \ {a}) + w[a]
<1> DEFINE t == S \ {a}
<1>1. t \in SUBSET D /\ a \in D \ t /\ S = t \cup {a} /\ IsFiniteSet(t)
  BY FS_RemoveElement
<1> HIDE DEF t
<1>2. Total(w, t \cup {a}) = Total(w, t) + w[a]
  BY <1>1, SumInsert
<1> QED BY <1>1, <1>2 DEF t

\* What is summed over two sets that are apart.
LEMMA SumUnion ==
  ASSUME NEW D, NEW w, NEW S, NEW T, w \in [D -> Nat], S \in SUBSET D, T \in SUBSET D,
         IsFiniteSet(S), IsFiniteSet(T), S \cap T = {}
  PROVE  Total(w, S \cup T) = Total(w, S) + Total(w, T)
<1> DEFINE B == {s \in SUBSET T : Total(w, S \cup s) # Total(w, S) + Total(w, s)}
<1>1. SUFFICES ASSUME B # {} PROVE FALSE
  <2>1. T \in SUBSET T
    OBVIOUS
  <2> QED BY <2>1
<1>2. \A s \in SUBSET T : IsFiniteSet(s)
  BY FS_Subset
<1>3. PICK s \in B : \A t \in B : Cardinality(s) <= Cardinality(t)
  <2>1. \A s \in B : IsFiniteSet(s)
    BY <1>2
  <2> HIDE DEF B
  <2> QED BY <1>1, <2>1, FewestOf
<1>4. s \in SUBSET T /\ IsFiniteSet(s) /\ Total(w, S \cup s) # Total(w, S) + Total(w, s)
  BY <1>2
<1>5. Total(w, S) \in Nat
  BY SumNat
<1>6. s # {}
  <2> SUFFICES ASSUME s = {} PROVE FALSE
    OBVIOUS
  <2>1. S \cup s = S
    OBVIOUS
  <2>2. Total(w, s) = 0
    BY <1>4, SumParts
  <2> QED BY <1>4, <1>5, <2>1, <2>2
<1>7. PICK x \in s : TRUE
  BY <1>6
<1> DEFINE t == s \ {x}  u == S \cup t
<1>8. /\ t \in SUBSET T /\ t \in SUBSET D /\ u \in SUBSET D /\ x \in D \ t /\ x \in D \ u
      /\ s = t \cup {x} /\ S \cup s = u \cup {x}
  BY <1>4
<1>9. IsFiniteSet(t) /\ Cardinality(t) = Cardinality(s) - 1 /\ Cardinality(s) \in Nat /\ Cardinality(t) \in Nat
  <2>1. IsFiniteSet(t) /\ Cardinality(t) = Cardinality(s) - 1
    BY <1>4, FS_RemoveElement
  <2> QED BY <2>1, <1>4, FS_CardinalityType
<1>10. IsFiniteSet(u)
  BY <1>9, FS_Union
<1>11. t \notin B
  <2> HIDE DEF t, B
  <2> QED BY <1>3, <1>9
<1>12. Total(w, u) = Total(w, S) + Total(w, t)
  BY <1>8, <1>11
<1> HIDE DEF t, u
<1>13. Total(w, u \cup {x}) = Total(w, u) + w[x]
  BY <1>8, <1>10, SumInsert
<1>14. Total(w, t \cup {x}) = Total(w, t) + w[x]
  BY <1>8, <1>9, SumInsert
<1>15. Total(w, t) \in Nat /\ w[x] \in Nat
  BY <1>8, <1>9, SumNat
<1>16. Total(w, S \cup s) = Total(w, u \cup {x}) /\ Total(w, s) = Total(w, t \cup {x})
  BY <1>8
<1>17. Total(w, S \cup s) = (Total(w, S) + Total(w, t)) + w[x] /\ Total(w, s) = Total(w, t) + w[x]
  BY <1>12, <1>13, <1>14, <1>16
<1>18. Total(w, S \cup s) = Total(w, S) + Total(w, s)
  BY <1>5, <1>15, <1>17
<1> QED BY <1>4, <1>18

\* Only what is summed counts.
LEMMA SumSame ==
  ASSUME NEW D, NEW w \in [D -> Nat], NEW v \in [D -> Nat], NEW S \in SUBSET D, IsFiniteSet(S),
         \A x \in S : w[x] = v[x]
  PROVE  Total(w, S) = Total(v, S)
<1> DEFINE B == {s \in SUBSET S : Total(w, s) # Total(v, s)}
<1>1. SUFFICES ASSUME B # {} PROVE FALSE
  <2>1. S \in SUBSET S
    OBVIOUS
  <2> QED BY <2>1
<1>2. \A s \in SUBSET S : IsFiniteSet(s)
  BY FS_Subset
<1>3. PICK s \in B : \A t \in B : Cardinality(s) <= Cardinality(t)
  <2>1. \A s \in B : IsFiniteSet(s)
    BY <1>2
  <2> HIDE DEF B
  <2> QED BY <1>1, <2>1, FewestOf
<1>4. s \in SUBSET S /\ IsFiniteSet(s) /\ Total(w, s) # Total(v, s)
  BY <1>2
<1> DEFINE x == CHOOSE y \in s : TRUE  t == s \ {x}
<1>5. Total(w, s) = IF s = {} THEN 0 ELSE w[x] + Total(w, t)
  BY <1>4, SumParts
<1>6. Total(v, s) = IF s = {} THEN 0 ELSE v[x] + Total(v, t)
  BY <1>4, SumParts
<1>7. s # {}
  BY <1>4, <1>5, <1>6
<1>8. x \in s /\ IsFiniteSet(t) /\ t \subseteq s /\ Cardinality(t) < Cardinality(s)
  BY <1>4, <1>7, Chosen
<1> HIDE DEF x, t
<1>9. Cardinality(t) \in Nat /\ Cardinality(s) \in Nat
  BY <1>4, <1>8, FS_CardinalityType
<1>10. t \notin B
  BY <1>3, <1>8, <1>9
<1>11. Total(w, t) = Total(v, t) /\ w[x] = v[x]
  BY <1>4, <1>8, <1>10
<1> QED BY <1>4, <1>5, <1>6, <1>7, <1>11
----------------------------------------------------------------------------
(* The walk over the waiters.                                              *)

Over(s)     == s.at > Len(s.waiters)
Left(s)     == IF Over(s) THEN 0 ELSE Len(s.waiters) + 1 - s.at
Steps(W, s) == IF Over(s) THEN s ELSE W[Visit(s)]

Asking == need \in [Fiber -> Nat] /\ permits \in Nat

\* What is left of a sequence without its element at place i.
LEMMA RemoveParts ==
  ASSUME NEW S, NEW q \in Seq(S), NEW i \in 1..Len(q)
  PROVE  LET r == RemoveAt(q, i) IN
         /\ r \in Seq(S) /\ Len(r) = Len(q) - 1
         /\ \A k \in 1..Len(r) : r[k] = q[IF k < i THEN k ELSE k + 1]
<1> DEFINE a == SubSeq(q, 1, i - 1)  b == SubSeq(q, i + 1, Len(q))
<1>1. i \in Nat /\ 1 <= i /\ i <= Len(q) /\ Len(q) \in Nat
  OBVIOUS
<1>2. a \in Seq(S) /\ Len(a) = i - 1 /\ \A k \in 1..(i - 1) : a[k] = q[k]
  BY <1>1
<1>3. b \in Seq(S) /\ Len(b) = Len(q) - i /\ \A k \in 1..(Len(q) - i) : b[k] = q[i + k]
  BY <1>1
<1> HIDE DEF a, b
<1> DEFINE r == a \o b
<1>4. r \in Seq(S) /\ Len(r) = Len(q) - 1
  <2>1. r \in Seq(S) /\ Len(r) = Len(a) + Len(b)
    BY <1>2, <1>3, ConcatProperties
  <2> QED BY <2>1, <1>1, <1>2, <1>3
<1>5. ASSUME NEW k \in 1..Len(r) PROVE r[k] = q[IF k < i THEN k ELSE k + 1]
  <2>1. k \in Nat /\ 1 <= k /\ k <= Len(a) + Len(b)
    BY <1>2, <1>3, <1>4, <1>1
  <2>2. CASE k < i
    <3>1. k \in 1..Len(a)
      BY <2>1, <2>2, <1>1, <1>2
    <3>2. r[k] = a[k]
      BY <3>1, <1>2, <1>3
    <3> QED BY <3>1, <3>2, <2>2, <1>2
  <2>3. CASE ~(k < i)
    <3>1. k - Len(a) \in 1..(Len(q) - i) /\ i + (k - Len(a)) = k + 1
      BY <2>1, <2>3, <1>1, <1>2, <1>3
    <3>2. r[k] = b[k - Len(a)]
      BY <2>1, <2>3, <3>1, <1>1, <1>2, <1>3
    <3> QED BY <3>1, <3>2, <2>3, <1>3
  <2> QED BY <2>2, <2>3
<1>6. RemoveAt(q, i) = r
  BY DEF RemoveAt, a, b
<1> HIDE DEF r
<1> QED BY <1>4, <1>5, <1>6

\* A step of the walk is nearer to its end.
LEMMA Nearer ==
  ASSUME Asking, NEW s \in Walk
  PROVE  /\ Left(s) \in Nat /\ (Left(s) = 0 <=> Over(s))
         /\ ~Over(s) => Visit(s) \in Walk /\ Left(Visit(s)) < Left(s)
<1> DEFINE q == s.waiters  i == s.at
<1>1. /\ i \in Nat /\ 1 <= i /\ q \in Seq(Fiber) /\ s.taken \in Nat /\ s.woken \in SUBSET Fiber
      /\ Len(q) \in Nat
  BY DEF Walk
<1>2. Left(s) \in Nat /\ (Left(s) = 0 <=> Over(s))
  BY <1>1 DEF Left, Over
<1>3. ASSUME ~Over(s) PROVE Visit(s) \in Walk /\ Left(Visit(s)) < Left(s)
  <2>1. i \in 1..Len(q) /\ Left(s) = Len(q) + 1 - i
    BY <1>1, <1>3 DEF Over, Left
  <2>2. q[i] \in Fiber
    BY <1>1, <2>1
  <2>3. need[q[i]] \in Nat
    BY <2>2 DEF Asking
  <2> HIDE DEF q, i
  <2>4. CASE permits - s.taken >= need[q[i]]
    <3> DEFINE r == RemoveAt(q, i)  t == s.taken + need[q[i]]  w == s.woken \cup {q[i]}
    <3>1. r \in Seq(Fiber) /\ Len(r) = Len(q) - 1
      BY <1>1, <2>1, RemoveParts
    <3>2. t \in Nat /\ w \in SUBSET Fiber /\ i + 1 \in Nat \ {0}
      BY <1>1, <2>2, <2>3
    <3>3. Visit(s) = [at |-> i + 1, waiters |-> r, taken |-> t, woken |-> w]
      BY <2>4 DEF Visit, q, i
    <3> HIDE DEF r, t, w
    <3>4. Visit(s) \in Walk
      BY <3>1, <3>2, <3>3 DEF Walk
    <3>5. Visit(s).at = i + 1 /\ Visit(s).waiters = r
      BY <3>3
    <3>6. Left(Visit(s)) < Left(s)
      BY <3>1, <3>5, <2>1, <1>1 DEF Left, Over
    <3> QED BY <3>4, <3>6
  <2>5. CASE ~(permits - s.taken >= need[q[i]])
    <3>1. Visit(s) = [at |-> i + 1, waiters |-> q, taken |-> s.taken, woken |-> s.woken]
      BY <2>5 DEF Visit, q, i
    <3>2. Visit(s) \in Walk
      BY <3>1, <1>1 DEF Walk
    <3>3. Visit(s).at = i + 1 /\ Visit(s).waiters = q
      BY <3>1
    <3>4. Left(Visit(s)) < Left(s)
      BY <3>3, <2>1, <1>1 DEF Left, Over
    <3> QED BY <3>2, <3>4
  <2> QED BY <2>4, <2>5
<1> QED BY <1>2, <1>3

\* A set of walks that is not empty has one that is nearest to its end.
LEMMA NearestOf ==
  ASSUME Asking, NEW B, B \subseteq Walk, B # {}
  PROVE  \E s \in B : \A t \in B : Left(s) <= Left(t)
<1> DEFINE N == {Left(s) : s \in B}
<1>1. N \subseteq Nat
  BY Nearer
<1>2. N # {}
  OBVIOUS
<1>3. PICK n \in N : \A k \in N : n <= k
  BY <1>1, <1>2, LeastOf
<1> QED BY <1>3

\* A function that walks on, wherever the end is at most n steps away.
Upto(n)       == {s \in Walk : Left(s) <= n}
Partial(n, W) == W = [s \in Upto(n) |-> Steps(W, s)]
Part(n)       == CHOOSE W : Partial(n, W)

\* Two of them agree.
LEMMA PartsAgree ==
  ASSUME Asking, NEW n \in Nat, NEW m \in Nat, NEW V, NEW W, Partial(n, V), Partial(m, W),
         NEW s \in Walk, Left(s) <= n, Left(s) <= m
  PROVE  V[s] = W[s]
<1> DEFINE B == {t \in Walk : Left(t) <= n /\ Left(t) <= m /\ V[t] # W[t]}
<1>1. SUFFICES ASSUME B # {} PROVE FALSE
  OBVIOUS
<1>2. PICK t \in B : \A u \in B : Left(t) <= Left(u)
  <2>1. B \subseteq Walk
    OBVIOUS
  <2> HIDE DEF B
  <2> QED BY <1>1, <2>1, NearestOf
<1>3. t \in Walk /\ Left(t) <= n /\ Left(t) <= m /\ V[t] # W[t]
  OBVIOUS
<1>4. V[t] = Steps(V, t) /\ W[t] = Steps(W, t)
  <2>1. t \in Upto(n) /\ t \in Upto(m)
    BY <1>3 DEF Upto
  <2> QED BY <2>1 DEF Partial
<1>5. ~Over(t)
  BY <1>3, <1>4 DEF Steps
<1> DEFINE u == Visit(t)
<1>6. u \in Walk /\ Left(u) < Left(t) /\ Left(u) \in Nat /\ Left(t) \in Nat
  BY <1>3, <1>5, Nearer
<1>7. V[t] = V[u] /\ W[t] = W[u]
  BY <1>4, <1>5 DEF Steps
<1> HIDE DEF u
<1>8. u \in B
  BY <1>3, <1>6, <1>7
<1> QED BY <1>2, <1>6, <1>8

\* There is one for every n.
LEMMA PartExists ==
  ASSUME Asking, NEW n \in Nat
  PROVE  Partial(n, Part(n))
<1> DEFINE N == {k \in Nat : ~\E W : Partial(k, W)}
<1>1. ASSUME N # {} PROVE FALSE
  <2>1. PICK k \in N : \A j \in N : k <= j
    <3>1. N \subseteq Nat
      OBVIOUS
    <3> HIDE DEF N
    <3> QED BY <1>1, <3>1, LeastOf
  <2>2. k \in Nat /\ ~\E W : Partial(k, W)
    OBVIOUS
  <2>3. CASE k = 0
    <3> DEFINE W == [s \in Upto(0) |-> s]
    <3>1. \A s \in Upto(0) : Over(s)
      BY Nearer DEF Upto
    <3>2. W = [s \in Upto(0) |-> Steps(W, s)]
      BY <3>1 DEF Steps
    <3> QED BY <2>2, <2>3, <3>2 DEF Partial
  <2>4. CASE k # 0
    <3>1. k - 1 \in Nat /\ k - 1 \notin N
      BY <2>1, <2>2, <2>4
    <3>2. PICK V : Partial(k - 1, V)
      BY <3>1
    <3> DEFINE W == [s \in Upto(k) |-> IF Over(s) THEN s ELSE V[Visit(s)]]
    <3>3. ASSUME NEW s \in Upto(k) PROVE W[s] = Steps(W, s)
      <4>1. CASE Over(s)
        BY <4>1 DEF Steps
      <4>2. CASE ~Over(s)
        <5> DEFINE u == Visit(s)
        <5>1. s \in Walk /\ Left(s) <= k /\ Left(s) \in Nat
          BY Nearer DEF Upto
        <5>2. u \in Walk /\ Left(u) < Left(s) /\ Left(u) \in Nat
          BY <5>1, <4>2, Nearer
        <5>3. u \in Upto(k - 1) /\ u \in Upto(k)
          <6> HIDE DEF u
          <6> QED BY <5>1, <5>2, <2>2 DEF Upto
        <5>4. V[u] = Steps(V, u)
          <6> HIDE DEF u
          <6> QED BY <5>3, <3>2 DEF Partial
        <5>5. W[u] = Steps(V, u)
          <6> HIDE DEF u
          <6> QED BY <5>3 DEF Steps
        <5>6. W[s] = V[u]
          BY <4>2
        <5>7. Steps(W, s) = W[u]
          <6> HIDE DEF W
          <6> QED BY <4>2 DEF Steps
        <5> HIDE DEF W, u
        <5> QED BY <5>4, <5>5, <5>6, <5>7
      <4> QED BY <4>1, <4>2
    <3>4. W = [s \in Upto(k) |-> W[s]]
      OBVIOUS
    <3> HIDE DEF W
    <3>5. W = [s \in Upto(k) |-> Steps(W, s)]
      BY <3>3, <3>4
    <3> QED BY <2>2, <3>5 DEF Partial
  <2> QED BY <2>3, <2>4
<1>2. \E W : Partial(n, W)
  BY <1>1
<1> DEFINE P(W) == Partial(n, W)
<1>3. \E W : P(W)
  BY <1>2
<1> HIDE DEF P
<1>4. P(CHOOSE W : P(W))
  BY <1>3
<1> QED BY <1>4 DEF P, Part

\* So the recursion of Woken defines a function,
LEMMA WokenDefined ==
  ASSUME Asking
  PROVE  \A s \in Walk : Woken[s] = Steps(Woken, s)
<1> DEFINE P(W) == W = [s \in Walk |-> Steps(W, s)]
           V == [s \in Walk |-> Part(Left(s))[s]]
<1>1. ASSUME NEW s \in Walk PROVE V[s] = Steps(V, s)
  <2> DEFINE W == Part(Left(s))
  <2>1. Left(s) \in Nat
    BY Nearer
  <2>2. Partial(Left(s), W)
    BY <2>1, PartExists
  <2>3. s \in Upto(Left(s))
    BY <2>1 DEF Upto
  <2>4. W[s] = Steps(W, s)
    <3> HIDE DEF W
    <3> QED BY <2>2, <2>3 DEF Partial
  <2>5. V[s] = W[s]
    OBVIOUS
  <2>6. CASE Over(s)
    <3> HIDE DEF V, W
    <3> QED BY <2>4, <2>5, <2>6 DEF Steps
  <2>7. CASE ~Over(s)
    <3> DEFINE u == Visit(s)  U == Part(Left(u))
    <3>1. u \in Walk /\ Left(u) < Left(s) /\ Left(u) \in Nat
      BY <2>7, Nearer
    <3>2. V[u] = U[u]
      <4> HIDE DEF u
      <4> QED BY <3>1
    <3>3. Partial(Left(u), U)
      <4> HIDE DEF u
      <4> QED BY <3>1, PartExists
    <3>4. U[u] = W[u]
      <4> HIDE DEF u, U, W
      <4> QED BY <2>1, <2>2, <3>1, <3>3, PartsAgree
    <3>5. Steps(V, s) = V[u] /\ Steps(W, s) = W[u]
      <4> HIDE DEF V, W
      <4> QED BY <2>7 DEF Steps
    <3> HIDE DEF V, W, u, U
    <3> QED BY <2>4, <2>5, <3>2, <3>4, <3>5
  <2> QED BY <2>6, <2>7
<1>2. P(V)
  <2>1. V = [s \in Walk |-> V[s]]
    OBVIOUS
  <2> HIDE DEF V
  <2> QED BY <1>1, <2>1
<1>3. Woken = CHOOSE W : P(W)
  BY DEF Woken, Steps, Over
<1> HIDE DEF P, V
<1>4. P(CHOOSE W : P(W))
  BY <1>2
<1>5. P(Woken)
  BY <1>3, <1>4
<1>6. Woken = [s \in Walk |-> Steps(Woken, s)]
  BY <1>5 DEF P
<1> DEFINE W == Woken
<1> HIDE DEF W
<1>7. W = [s \in Walk |-> Steps(W, s)]
  BY <1>6 DEF W
<1>8. \A s \in Walk : W[s] = Steps(W, s)
  BY <1>7
<1> QED BY <1>8 DEF W

\* What removing an element leaves, of a sequence that has each of its elements once.
LEMMA RemoveOnce ==
  ASSUME NEW S, NEW q \in Seq(S), NEW i \in 1..Len(q), IsInjective(q)
  PROVE  LET r == RemoveAt(q, i) IN
         r \in Seq(S) /\ IsInjective(r) /\ Range(r) = Range(q) \ {q[i]}
<1> DEFINE r == RemoveAt(q, i)  g(k) == IF k < i THEN k ELSE k + 1
<1>1. /\ r \in Seq(S) /\ Len(r) = Len(q) - 1 /\ \A k \in 1..Len(r) : r[k] = q[g(k)]
      /\ Len(q) \in Nat /\ DOMAIN q = 1..Len(q) /\ i \in Nat /\ 1 <= i /\ i <= Len(q)
  BY RemoveParts
<1> HIDE DEF r
<1>2. DOMAIN r = 1..Len(r) /\ Len(r) \in Nat
  BY <1>1
<1>3. \A j, k \in 1..Len(q) : q[j] = q[k] => j = k
  BY <1>1 DEF IsInjective
<1>4. \A k \in 1..Len(r) : g(k) \in 1..Len(q) /\ g(k) # i
  BY <1>1, <1>2
<1>5. \A j, k \in 1..Len(r) : g(j) = g(k) => j = k
  BY <1>1, <1>2
<1>6. \A j \in 1..Len(q) : j # i => \E k \in 1..Len(r) : g(k) = j
  <2> SUFFICES ASSUME NEW j \in 1..Len(q), j # i PROVE \E k \in 1..Len(r) : g(k) = j
    OBVIOUS
  <2>1. CASE j < i
    <3>1. j \in 1..Len(r) /\ g(j) = j
      BY <2>1, <1>1, <1>2
    <3> QED BY <3>1
  <2>2. CASE ~(j < i)
    <3>1. j - 1 \in 1..Len(r) /\ g(j - 1) = j
      BY <2>2, <1>1, <1>2
    <3> QED BY <3>1
  <2> QED BY <2>1, <2>2
<1> HIDE DEF g
<1>7. IsInjective(r)
  <2>1. \A j, k \in 1..Len(r) : r[j] = r[k] => j = k
    <3> SUFFICES ASSUME NEW j \in 1..Len(r), NEW k \in 1..Len(r), r[j] = r[k] PROVE j = k
      OBVIOUS
    <3>1. q[g(j)] = q[g(k)]
      BY <1>1
    <3>2. g(j) = g(k)
      BY <3>1, <1>3, <1>4
    <3> QED BY <3>2, <1>5
  <2> QED BY <1>2, <2>1 DEF IsInjective
<1>8. Range(r) = Range(q) \ {q[i]}
  <2>1. ASSUME NEW x \in Range(r) PROVE x \in Range(q) \ {q[i]}
    <3>1. PICK k \in 1..Len(r) : x = r[k]
      BY <1>2 DEF Range
    <3>2. x = q[g(k)] /\ g(k) \in 1..Len(q) /\ g(k) # i
      BY <3>1, <1>1, <1>4
    <3>3. q[g(k)] # q[i]
      BY <3>2, <1>1, <1>3
    <3> QED BY <3>2, <3>3, <1>1 DEF Range
  <2>2. ASSUME NEW x \in Range(q), x # q[i] PROVE x \in Range(r)
    <3>1. PICK j \in 1..Len(q) : x = q[j]
      BY <1>1 DEF Range
    <3>2. j # i
      BY <3>1, <2>2
    <3>3. PICK k \in 1..Len(r) : g(k) = j
      BY <3>2, <1>6
    <3>4. r[k] = x
      BY <3>1, <3>3, <1>1
    <3> QED BY <3>4, <1>2 DEF Range
  <2> QED BY <2>1, <2>2
<1> QED BY <1>1, <1>7, <1>8 DEF r

\* What it leaves without x, wherever that is.
LEMMA RemovedFirst ==
  ASSUME NEW S, NEW q \in Seq(S), IsInjective(q), NEW x
  PROVE  LET r == RemoveFirst(q, x) IN
         r \in Seq(S) /\ IsInjective(r) /\ Range(r) = Range(q) \ {x}
<1>1. CASE ~\E i \in 1..Len(q) : q[i] = x
  <2>1. RemoveFirst(q, x) = q
    BY <1>1 DEF RemoveFirst
  <2>2. x \notin Range(q)
    BY <1>1 DEF Range
  <2> QED BY <2>1, <2>2
<1>2. CASE \E i \in 1..Len(q) : q[i] = x
  <2> DEFINE I == {i \in 1..Len(q) : q[i] = x}  n == Min(I)
  <2>1. RemoveFirst(q, x) = RemoveAt(q, n)
    BY <1>2 DEF RemoveFirst, SelectInSeq
  <2>2. n \in I
    <3>1. I \subseteq Nat /\ I # {}
      BY <1>2
    <3>2. \E i \in I : \A j \in I : i <= j
      <4> HIDE DEF I
      <4> QED BY <3>1, LeastOf
    <3> QED BY <3>2 DEF Min
  <2>3. n \in 1..Len(q) /\ q[n] = x
    BY <2>2
  <2> HIDE DEF n
  <2> QED BY <2>1, <2>3, RemoveOnce
<1> QED BY <1>1, <1>2

\* Who was among the waiters of p waits or was woken, and the permits taken
\* meanwhile are those of who was woken.
Walked(p, s) ==
  /\ IsInjective(s.waiters) /\ Range(s.waiters) \cap s.woken = {}
  /\ Range(s.waiters) \cup s.woken = Range(p.waiters)
  /\ s.taken = p.taken + Total(need, s.woken) /\ s.taken <= permits

LEMMA VisitWalked ==
  ASSUME Asking, IsFiniteSet(Fiber), NEW p \in Walk, NEW s \in Walk, Walked(p, s), ~Over(s)
  PROVE  Walked(p, Visit(s))
<1> DEFINE q == s.waiters  i == s.at
<1>1. /\ i \in Nat /\ 1 <= i /\ q \in Seq(Fiber) /\ s.taken \in Nat /\ s.woken \in SUBSET Fiber
      /\ Len(q) \in Nat /\ p.taken \in Nat /\ permits \in Nat
  BY DEF Walk, Asking
<1>2. i \in 1..Len(q)
  BY <1>1 DEF Over
<1>3. q[i] \in Fiber /\ q[i] \in Range(q)
  BY <1>1, <1>2 DEF Range
<1>4. need[q[i]] \in Nat
  BY <1>3 DEF Asking
<1>5. /\ IsInjective(q) /\ Range(q) \cap s.woken = {} /\ Range(q) \cup s.woken = Range(p.waiters)
      /\ s.taken = p.taken + Total(need, s.woken) /\ s.taken <= permits
  BY DEF Walked
<1> HIDE DEF q, i
<1>6. CASE permits - s.taken >= need[q[i]]
  <2> DEFINE r == RemoveAt(q, i)  t == s.taken + need[q[i]]  w == s.woken \cup {q[i]}
  <2>1. IsInjective(r) /\ Range(r) = Range(q) \ {q[i]}
    BY <1>1, <1>2, <1>5, RemoveOnce
  <2>2. Visit(s) = [at |-> i + 1, waiters |-> r, taken |-> t, woken |-> w]
    BY <1>6 DEF Visit, q, i
  <2>3. Range(r) \cap w = {} /\ Range(r) \cup w = Range(p.waiters)
    BY <2>1, <1>3, <1>5
  <2>4. t <= permits
    BY <1>1, <1>4, <1>6
  <2>5. Total(need, w) = Total(need, s.woken) + need[q[i]]
    <3> DEFINE f == q[i]  v == s.woken
    <3>1. f \in Fiber \ v /\ v \in SUBSET Fiber /\ IsFiniteSet(v) /\ need \in [Fiber -> Nat]
      BY <1>1, <1>3, <1>5, FS_Subset DEF Asking
    <3> HIDE DEF f, v
    <3>2. Total(need, v \cup {f}) = Total(need, v) + need[f]
      BY <3>1, SumInsert
    <3> QED BY <3>2 DEF f, v
  <2>6. Total(need, s.woken) \in Nat
    <3>1. IsFiniteSet(s.woken) /\ need \in [Fiber -> Nat]
      BY <1>1, FS_Subset DEF Asking
    <3> QED BY <3>1, <1>1, SumNat
  <2> HIDE DEF r, w
  <2>7. t = p.taken + Total(need, w)
    BY <1>1, <1>4, <1>5, <2>5, <2>6
  <2> HIDE DEF t
  <2>8. Visit(s).waiters = r /\ Visit(s).taken = t /\ Visit(s).woken = w
    BY <2>2
  <2> QED BY <2>1, <2>3, <2>4, <2>7, <2>8 DEF Walked
<1>7. CASE ~(permits - s.taken >= need[q[i]])
  <2>1. Visit(s) = [at |-> i + 1, waiters |-> q, taken |-> s.taken, woken |-> s.woken]
    BY <1>7 DEF Visit, q, i
  <2>2. Visit(s).waiters = q /\ Visit(s).taken = s.taken /\ Visit(s).woken = s.woken
    BY <2>1
  <2> QED BY <1>5, <2>2 DEF Walked
<1> QED BY <1>6, <1>7

\* ... at the end of the walk.
LEMMA WokenWalked ==
  ASSUME Asking, IsFiniteSet(Fiber), NEW p \in Walk, NEW s \in Walk, Walked(p, s)
  PROVE  Woken[s] \in Walk /\ Walked(p, Woken[s])
<1> DEFINE B == {t \in Walk : Walked(p, t) /\ ~(Woken[t] \in Walk /\ Walked(p, Woken[t]))}
<1>1. SUFFICES ASSUME B # {} PROVE FALSE
  OBVIOUS
<1>2. PICK t \in B : \A u \in B : Left(t) <= Left(u)
  <2>1. B \subseteq Walk
    OBVIOUS
  <2> HIDE DEF B
  <2> QED BY <1>1, <2>1, NearestOf
<1>3. t \in Walk /\ Walked(p, t) /\ ~(Woken[t] \in Walk /\ Walked(p, Woken[t]))
  OBVIOUS
<1>4. Woken[t] = Steps(Woken, t)
  BY <1>3, WokenDefined
<1>5. ~Over(t)
  BY <1>3, <1>4 DEF Steps
<1> DEFINE u == Visit(t)
<1>6. u \in Walk /\ Left(u) < Left(t) /\ Left(u) \in Nat /\ Left(t) \in Nat
  BY <1>3, <1>5, Nearer
<1>7. Walked(p, u)
  BY <1>3, <1>5, VisitWalked
<1>8. Woken[t] = Woken[u]
  BY <1>4, <1>5 DEF Steps
<1> HIDE DEF u
<1>9. u \in B
  BY <1>3, <1>6, <1>7, <1>8
<1> QED BY <1>2, <1>6, <1>9

\* A fiber that did not wait is added.
LEMMA AppendedOnce ==
  ASSUME NEW S, NEW q \in Seq(S), NEW x, IsInjective(q), x \notin Range(q)
  PROVE  IsInjective(Append(q, x)) /\ Range(Append(q, x)) = Range(q) \cup {x}
<1> DEFINE r == Append(q, x)  n == Len(q) + 1
<1>1. /\ Len(q) \in Nat /\ DOMAIN q = 1..Len(q) /\ DOMAIN r = 1..n
      /\ \A k \in 1..Len(q) : r[k] = q[k] /\ r[n] = x
  OBVIOUS
<1>2. r[n] = x /\ n \in Nat /\ n \notin 1..Len(q) /\ 1..n = (1..Len(q)) \cup {n}
  OBVIOUS
<1> HIDE DEF r, n
<1>3. \A k \in 1..Len(q) : q[k] # x
  BY <1>1 DEF Range
<1>4. \A j, k \in 1..Len(q) : q[j] = q[k] => j = k
  BY <1>1 DEF IsInjective
<1>5. IsInjective(r)
  <2>1. \A j, k \in 1..n : r[j] = r[k] => j = k
    BY <1>1, <1>2, <1>3, <1>4
  <2> QED BY <1>1, <2>1 DEF IsInjective
<1>6. Range(r) = Range(q) \cup {x}
  BY <1>1, <1>2 DEF Range
<1> QED BY <1>5, <1>6 DEF r
----------------------------------------------------------------------------
(* The invariant.                                                          *)

\* Who holds or waits for permits asked for one at least.
Asked == \A f \in Fiber : pc[f] # "idle" => need[f] >= 1

\* No fiber waits twice, and none of those that wait has permits.
Queued == IsInjective(waiters) /\ \A f \in Range(waiters) : pc[f] \in {"waiting", "cleanup"}

\* What is not free is held, or lost.
Accounted == taken = lost + Total(need, Holders)

\* With one permit, what a fiber read is still there when it writes.
Serialized == permits = 1 => /\ ref = writes
                             /\ \A f \in Fiber : pc[f] = "changing" => seen[f] = ref

Inv == TypeOK /\ Asked /\ Queued /\ Accounted /\ Serialized

\* The sum over the holders is one, and each of them has its part of it.
LEMMA HoldersCounted ==
  ASSUME SemaphoreAssumption, TypeOK
  PROVE  /\ need \in [Fiber -> Nat] /\ Holders \in SUBSET Fiber /\ IsFiniteSet(Holders)
         /\ Total(need, Holders) \in Nat
         /\ \A f \in Holders : /\ Total(need, Holders) = Total(need, Holders \ {f}) + need[f]
                               /\ Total(need, Holders \ {f}) \in Nat
<1> DEFINE H == Holders
<1>1. need \in [Fiber -> Nat] /\ H \in SUBSET Fiber /\ IsFiniteSet(Fiber)
  BY DEF TypeOK, Holders, SemaphoreAssumption
<1> HIDE DEF H
<1>2. IsFiniteSet(H)
  BY <1>1, FS_Subset
<1>3. Total(need, H) \in Nat
  BY <1>1, <1>2, SumNat
<1>4. ASSUME NEW f \in H
      PROVE  Total(need, H) = Total(need, H \ {f}) + need[f] /\ Total(need, H \ {f}) \in Nat
  <2>1. Total(need, H) = Total(need, H \ {f}) + need[f]
    BY <1>1, <1>2, SumRemove
  <2> DEFINE G == H \ {f}
  <2>2. G \in SUBSET Fiber /\ IsFiniteSet(G)
    BY <1>1, <1>2, FS_RemoveElement
  <2> HIDE DEF G
  <2>3. Total(need, G) \in Nat
    BY <1>1, <2>2, SumNat
  <2> QED BY <2>1, <2>3 DEF G
<1> QED BY <1>1, <1>2, <1>3, <1>4 DEF H

\* One permit has one holder.
LEMMA OneHolder ==
  ASSUME SemaphoreAssumption, Inv, permits = 1, NEW f \in Holders, NEW g \in Holders
  PROVE  f = g
<1> SUFFICES ASSUME f # g PROVE FALSE
  OBVIOUS
<1> DEFINE G == Holders \ {f}
<1>1. /\ need \in [Fiber -> Nat] /\ G \in SUBSET Fiber /\ IsFiniteSet(G) /\ g \in G
      /\ Total(need, Holders) = Total(need, G) + need[f]
  BY HoldersCounted, FS_RemoveElement DEF Inv
<1>2. need[f] >= 1 /\ need[g] >= 1 /\ need[f] \in Nat /\ need[g] \in Nat
  BY <1>1 DEF Inv, Asked, Holders
<1>3. taken = lost + Total(need, Holders) /\ taken <= 1 /\ lost \in Nat /\ taken \in Nat
  BY DEF Inv, TypeOK, Accounted
<1> HIDE DEF G
<1>4. Total(need, G) = Total(need, G \ {g}) + need[g]
  BY <1>1, SumRemove
<1> DEFINE F == G \ {g}
<1>5. F \in SUBSET Fiber /\ IsFiniteSet(F)
  BY <1>1, FS_RemoveElement
<1> HIDE DEF F
<1>6. Total(need, F) \in Nat
  BY <1>1, <1>5, SumNat
<1> QED BY <1>1, <1>2, <1>3, <1>4, <1>6 DEF F

----------------------------------------------------------------------------
(* The steps.                                                              *)

Place == {"idle", "waiting", "cleanup", "resumed", "inside", "changing", "releasing"}
Holding == {"resumed", "inside", "changing", "releasing"}

\* A holder that goes on holding changes nothing for the others.
LEMMA KeepsHolding ==
  ASSUME Inv, NEW f \in Holders, NEW p \in Holding, GoTo(f, p), UNCHANGED <<sem, need>>
  PROVE  Asked' /\ Queued' /\ Accounted'
<1>1. f \in Fiber /\ pc[f] \in Holding /\ pc \in [Fiber -> Place]
  BY DEF Inv, TypeOK, Holders, Holding, Place
<1>2. \A g \in Fiber : pc'[g] = IF g = f THEN p ELSE pc[g]
  BY <1>1 DEF GoTo
<1>3. Holders' = Holders
  BY <1>1, <1>2 DEF Holders, Holding
<1>4. Asked'
  BY <1>1, <1>2 DEF Asked, Inv, Holding
<1>5. Queued'
  <2>1. \A g \in Range(waiters) : pc[g] \in {"waiting", "cleanup"}
    BY DEF Inv, Queued
  <2>2. Range(waiters) \subseteq Fiber
    BY DEF Inv, TypeOK, Range
  <2>3. waiters' = waiters
    BY DEF sem
  <2>4. \A g \in Range(waiters) : pc'[g] \in {"waiting", "cleanup"}
    BY <1>1, <1>2, <2>1, <2>2 DEF Holding
  <2> QED BY <2>3, <2>4 DEF Queued, Inv
<1>6. Accounted'
  BY <1>3 DEF Accounted, Inv, sem
<1> QED BY <1>4, <1>5, <1>6

LEMMA TakeKeeps ==
  ASSUME SemaphoreAssumption, Inv, NEW f \in Fiber, Take(f)
  PROVE  Inv'
<1>1. PICK n \in 1..permits :
        /\ pc[f] = "idle" /\ fuel[f] > 0
        /\ fuel' = [fuel EXCEPT ![f] = @ - 1]
        /\ need' = [need EXCEPT ![f] = n]
        /\ \/ /\ free >= n
              /\ taken' = taken + n /\ GoTo(f, "resumed")
              /\ UNCHANGED waiters
           \/ /\ free < n
              /\ waiters' = Append(waiters, f) /\ GoTo(f, "waiting")
              /\ UNCHANGED taken
        /\ UNCHANGED <<permits, wakes, lost, cell, signals>>
  BY DEF Take
<1>2. /\ permits \in Permits /\ permits \in Nat /\ n \in Nat /\ 1 <= n /\ n <= permits
      /\ taken \in Nat /\ taken <= permits
      /\ need \in [Fiber -> Nat] /\ pc \in [Fiber -> Place] /\ fuel \in [Fiber -> Nat]
      /\ waiters \in Seq(Fiber) /\ lost \in Nat
  BY DEF SemaphoreAssumption, Inv, TypeOK, Place
<1>3. f \notin Holders /\ f \notin Range(waiters) /\ Range(waiters) \subseteq Fiber
  <2>1. f \notin Holders
    BY <1>1 DEF Holders
  <2>2. f \notin Range(waiters)
    BY <1>1 DEF Inv, Queued
  <2>3. Range(waiters) \subseteq Fiber
    BY <1>2 DEF Range
  <2> QED BY <2>1, <2>2, <2>3
<1>4. fuel' \in [Fiber -> Nat] /\ need' \in [Fiber -> Nat] /\ need'[f] = n
      /\ \A g \in Fiber \ {f} : need'[g] = need[g]
  BY <1>1, <1>2
<1>5. Total(need', Holders) = Total(need, Holders) /\ Total(need, Holders) \in Nat
  <2> DEFINE H == Holders  v == need'
  <2>1. H \in SUBSET Fiber /\ IsFiniteSet(H) /\ Total(need, H) \in Nat
    BY HoldersCounted DEF Inv
  <2>2. v \in [Fiber -> Nat] /\ \A g \in H : need[g] = v[g]
    BY <1>3, <1>4, <2>1
  <2> HIDE DEF H, v
  <2>3. Total(need, H) = Total(v, H)
    BY <1>2, <2>1, <2>2, SumSame
  <2> QED BY <2>1, <2>3 DEF H, v
<1>6. CASE free >= n /\ taken' = taken + n /\ GoTo(f, "resumed") /\ waiters' = waiters
  <2>1. \A g \in Fiber : pc'[g] = IF g = f THEN "resumed" ELSE pc[g]
    BY <1>2, <1>6 DEF GoTo
  <2>2. pc' \in [Fiber -> Place]
    BY <1>2, <1>6 DEF GoTo, Place
  <2>3. taken' \in 0..permits
    BY <1>2, <1>6 DEF free
  <2>4. Holders' = Holders \cup {f}
    BY <2>1 DEF Holders
  <2>5. Total(need', Holders') = Total(need, Holders) + n
    <3> DEFINE H == Holders  w == need'
    <3>1. H \in SUBSET Fiber /\ IsFiniteSet(H) /\ w \in [Fiber -> Nat] /\ f \in Fiber \ H
      BY <1>3, <1>4, HoldersCounted DEF Inv
    <3> HIDE DEF H, w
    <3>2. Total(w, H \cup {f}) = Total(w, H) + w[f]
      BY <3>1, SumInsert
    <3> QED BY <3>2, <2>4, <1>4, <1>5 DEF H, w
  <2>6. TypeOK'
    <3>1. UNCHANGED <<permits, wakes, lost, ref, seen, writes, signals>>
      BY <1>1 DEF cell
    <3> QED BY <3>1, <1>2, <1>4, <1>6, <2>2, <2>3 DEF TypeOK, Inv, Place
  <2>7. Asked'
    BY <1>1, <1>2, <1>4, <2>1 DEF Asked, Inv
  <2>8. Queued'
    BY <1>3, <1>6, <2>1 DEF Queued, Inv
  <2>9. Accounted'
    BY <1>1, <1>2, <1>5, <1>6, <2>5 DEF Accounted, Inv
  <2>10. Serialized'
    BY <1>1, <2>1 DEF Serialized, Inv, cell
  <2> QED BY <2>6, <2>7, <2>8, <2>9, <2>10 DEF Inv
<1>7. CASE waiters' = Append(waiters, f) /\ GoTo(f, "waiting") /\ taken' = taken
  <2>1. \A g \in Fiber : pc'[g] = IF g = f THEN "waiting" ELSE pc[g]
    BY <1>2, <1>7 DEF GoTo
  <2>2. pc' \in [Fiber -> Place]
    BY <1>2, <1>7 DEF GoTo, Place
  <2>4. Holders' = Holders
    BY <1>1, <2>1 DEF Holders
  <2>6. TypeOK'
    <3>1. UNCHANGED <<permits, wakes, lost, ref, seen, writes, signals>>
      BY <1>1 DEF cell
    <3>2. waiters' \in Seq(Fiber)
      BY <1>2, <1>7
    <3> QED BY <3>1, <3>2, <1>2, <1>4, <1>7, <2>2 DEF TypeOK, Inv, Place
  <2>7. Asked'
    BY <1>1, <1>2, <1>4, <2>1 DEF Asked, Inv
  <2>8. Queued'
    <3> DEFINE q == waiters
    <3>1. q \in Seq(Fiber) /\ IsInjective(q) /\ f \notin Range(q) /\ Len(q) \in Nat
      BY <1>2, <1>3 DEF Inv, Queued
    <3> HIDE DEF q
    <3>2. IsInjective(Append(q, f)) /\ Range(Append(q, f)) = Range(q) \cup {f}
      BY <3>1, AppendedOnce
    <3> QED BY <3>2, <1>3, <1>7, <2>1 DEF Queued, Inv, q
  <2>9. Accounted'
    BY <1>1, <1>5, <1>7, <2>4 DEF Accounted, Inv
  <2>10. Serialized'
    BY <1>1, <2>1 DEF Serialized, Inv, cell
  <2> QED BY <2>6, <2>7, <2>8, <2>9, <2>10 DEF Inv
<1> QED BY <1>1, <1>6, <1>7

LEMMA ResumeKeeps ==
  ASSUME Inv, NEW f \in Fiber, Resume(f)
  PROVE  Inv'
<1>1. pc[f] = "resumed" /\ GoTo(f, "inside") /\ UNCHANGED <<sem, cell, need, fuel, signals>>
  BY DEF Resume
<1>2. Asked' /\ Queued' /\ Accounted'
  <2>1. f \in Holders /\ "inside" \in Holding
    BY <1>1 DEF Holders, Holding
  <2> QED BY <1>1, <2>1, KeepsHolding
<1>3. TypeOK'
  BY <1>1 DEF TypeOK, Inv, GoTo, sem, cell
<1>4. Serialized'
  BY <1>1 DEF Serialized, Inv, TypeOK, GoTo, sem, cell
<1> QED BY <1>2, <1>3, <1>4 DEF Inv

LEMMA ReadKeeps ==
  ASSUME Inv, NEW f \in Fiber, Read(f)
  PROVE  Inv'
<1>1. /\ pc[f] = "inside" /\ seen' = [seen EXCEPT ![f] = ref] /\ GoTo(f, "changing")
      /\ UNCHANGED <<sem, ref, writes, need, fuel, signals>>
  BY DEF Read
<1>2. Asked' /\ Queued' /\ Accounted'
  <2>1. f \in Holders /\ "changing" \in Holding
    BY <1>1 DEF Holders, Holding
  <2> QED BY <1>1, <2>1, KeepsHolding
<1>3. TypeOK'
  BY <1>1 DEF TypeOK, Inv, GoTo, sem
<1>4. Serialized'
  BY <1>1 DEF Serialized, Inv, TypeOK, GoTo, sem
<1> QED BY <1>2, <1>3, <1>4 DEF Inv

\* Nobody else is about to write when the semaphore has one permit.
LEMMA WriteKeeps ==
  ASSUME SemaphoreAssumption, Inv, NEW f \in Fiber, Write(f)
  PROVE  Inv'
<1>1. /\ pc[f] = "changing" /\ ref' = seen[f] + 1 /\ writes' = writes + 1 /\ GoTo(f, "releasing")
      /\ UNCHANGED <<sem, seen, need, fuel, signals>>
  BY DEF Write
<1>0. f \in Holders /\ "releasing" \in Holding
  BY <1>1 DEF Holders, Holding
<1>2. Asked' /\ Queued' /\ Accounted'
  BY <1>0, <1>1, KeepsHolding
<1>3. TypeOK'
  BY <1>1 DEF TypeOK, Inv, GoTo, sem
<1>4. Serialized'
  <2>1. pc \in [Fiber -> Place] /\ pc' = [pc EXCEPT ![f] = "releasing"] /\ permits' = permits
    BY <1>1 DEF Inv, TypeOK, GoTo, sem, Place
  <2>2. SUFFICES ASSUME permits = 1
                 PROVE  ref' = writes' /\ \A g \in Fiber : pc'[g] = "changing" => seen'[g] = ref'
    BY <2>1 DEF Serialized
  <2>3. ref' = writes'
    BY <1>1, <2>2 DEF Serialized, Inv
  <2>4. \A g \in Fiber : pc'[g] # "changing"
    <3> SUFFICES ASSUME NEW g \in Fiber, pc'[g] = "changing" PROVE FALSE
      OBVIOUS
    <3>1. pc[g] = "changing" /\ g # f
      BY <2>1
    <3>2. g \in Holders
      BY <3>1 DEF Holders
    <3> QED BY <1>0, <2>2, <3>1, <3>2, OneHolder
  <2> QED BY <2>3, <2>4
<1> QED BY <1>2, <1>3, <1>4 DEF Inv

LEMMA FailKeeps ==
  ASSUME Inv, NEW f \in Fiber, Fail(f)
  PROVE  Inv'
<1>1. /\ pc[f] \in {"inside", "changing"} /\ GoTo(f, "releasing")
      /\ UNCHANGED <<sem, cell, need, fuel, signals>>
  BY DEF Fail
<1>2. Asked' /\ Queued' /\ Accounted'
  <2>1. f \in Holders /\ "releasing" \in Holding
    BY <1>1 DEF Holders, Holding
  <2> QED BY <1>1, <2>1, KeepsHolding
<1>3. TypeOK'
  BY <1>1 DEF TypeOK, Inv, GoTo, sem, cell
<1>4. Serialized'
  BY <1>1 DEF Serialized, Inv, TypeOK, GoTo, sem, cell
<1> QED BY <1>2, <1>3, <1>4 DEF Inv

LEMMA CleanupKeeps ==
  ASSUME Inv, NEW f \in Fiber, Cleanup(f)
  PROVE  Inv'
<1>1. /\ pc[f] = "cleanup" /\ waiters' = RemoveFirst(waiters, f) /\ GoTo(f, "idle")
      /\ UNCHANGED <<permits, taken, wakes, lost, cell, need, fuel, signals>>
  BY DEF Cleanup
<1>2. /\ pc \in [Fiber -> Place] /\ waiters \in Seq(Fiber) /\ IsInjective(waiters)
      /\ \A g \in Range(waiters) : pc[g] \in {"waiting", "cleanup"}
  BY DEF Inv, TypeOK, Queued, Place
<1>3. \A g \in Fiber : pc'[g] = IF g = f THEN "idle" ELSE pc[g]
  BY <1>1, <1>2 DEF GoTo
<1>4. /\ waiters' \in Seq(Fiber) /\ IsInjective(waiters')
      /\ Range(waiters') = Range(waiters) \ {f} /\ Range(waiters) \subseteq Fiber
  <2> DEFINE q == waiters
  <2>1. q \in Seq(Fiber) /\ IsInjective(q)
    BY <1>2
  <2>2. Range(q) \subseteq Fiber
    BY <2>1 DEF Range
  <2> HIDE DEF q
  <2>3. RemoveFirst(q, f) \in Seq(Fiber) /\ IsInjective(RemoveFirst(q, f))
        /\ Range(RemoveFirst(q, f)) = Range(q) \ {f}
    BY <2>1, RemovedFirst
  <2> QED BY <1>1, <2>2, <2>3 DEF q
<1>5. Holders' = Holders
  BY <1>1, <1>3 DEF Holders
<1>6. TypeOK'
  BY <1>1, <1>4 DEF TypeOK, Inv, GoTo, cell
<1>7. Asked'
  BY <1>1, <1>3 DEF Asked, Inv
<1>8. Queued'
  BY <1>2, <1>3, <1>4 DEF Queued
<1>9. Accounted'
  BY <1>1, <1>5 DEF Accounted, Inv
<1>10. Serialized'
  BY <1>1, <1>3 DEF Serialized, Inv, cell
<1> QED BY <1>6, <1>7, <1>8, <1>9, <1>10 DEF Inv

\* Who holds no longer, with his permits, whoever has them then.
LEMMA Dropped ==
  ASSUME SemaphoreAssumption, Inv, NEW f \in Holders, NEW p \in {"idle", "cleanup"}, GoTo(f, p),
         UNCHANGED <<permits, need, waiters>>
  PROVE  /\ pc' \in [Fiber -> Place] /\ (\A g \in Fiber : pc'[g] = IF g = f THEN p ELSE pc[g])
         /\ Total(need, Holders') \in Nat /\ need[f] \in Nat /\ need[f] >= 1
         /\ Total(need, Holders) = Total(need, Holders') + need[f]
         /\ Asked' /\ Queued'
<1>1. /\ f \in Fiber /\ pc[f] \in Holding /\ pc \in [Fiber -> Place] /\ need \in [Fiber -> Nat]
      /\ waiters \in Seq(Fiber)
  BY DEF Inv, TypeOK, Holders, Holding, Place
<1>2. pc' \in [Fiber -> Place] /\ \A g \in Fiber : pc'[g] = IF g = f THEN p ELSE pc[g]
  BY <1>1 DEF GoTo, Place
<1>3. Holders' = Holders \ {f}
  BY <1>1, <1>2 DEF Holders
<1>4. Total(need, Holders) = Total(need, Holders') + need[f] /\ Total(need, Holders') \in Nat
  BY <1>3, HoldersCounted DEF Inv
<1>5. need[f] \in Nat /\ need[f] >= 1
  BY <1>1 DEF Inv, Asked, Holding
<1>6. Asked'
  BY <1>1, <1>2, <1>5 DEF Inv, Asked
<1>7. Queued'
  <2>1. IsInjective(waiters) /\ \A g \in Range(waiters) : pc[g] \in {"waiting", "cleanup"}
    BY DEF Inv, Queued
  <2>2. Range(waiters) \subseteq Fiber
    BY <1>1 DEF Range
  <2>3. \A g \in Range(waiters) : pc'[g] \in {"waiting", "cleanup"}
    BY <1>1, <1>2, <2>1, <2>2 DEF Holding
  <2> QED BY <2>1, <2>3 DEF Queued
<1> QED BY <1>2, <1>4, <1>5, <1>6, <1>7

LEMMA ReleaseKeeps ==
  ASSUME SemaphoreAssumption, Inv, NEW f \in Fiber, Release(f)
  PROVE  Inv'
<1>1. /\ pc[f] = "releasing" /\ taken' = taken - need[f] /\ wakes' = wakes + 1 /\ GoTo(f, "idle")
      /\ UNCHANGED <<permits, waiters, lost, cell, need, fuel, signals>>
  BY DEF Release
<1>2. /\ pc' \in [Fiber -> Place] /\ (\A g \in Fiber : pc'[g] = IF g = f THEN "idle" ELSE pc[g])
      /\ Total(need, Holders') \in Nat /\ need[f] \in Nat
      /\ Total(need, Holders) = Total(need, Holders') + need[f]
      /\ Asked' /\ Queued'
  <2>1. f \in Holders
    BY <1>1 DEF Holders
  <2> QED BY <1>1, <2>1, Dropped
<1>3. /\ taken = lost + Total(need, Holders) /\ taken \in Nat /\ taken <= permits /\ lost \in Nat
      /\ permits \in Nat
  BY DEF Inv, TypeOK, Accounted, SemaphoreAssumption
<1>4. taken' \in 0..permits /\ taken' = lost + Total(need, Holders')
  BY <1>1, <1>2, <1>3
<1>5. TypeOK'
  BY <1>1, <1>2, <1>4 DEF TypeOK, Inv, Place, cell
<1>6. Accounted'
  BY <1>1, <1>4 DEF Accounted
<1>7. Serialized'
  BY <1>1, <1>2 DEF Serialized, Inv, cell
<1> QED BY <1>2, <1>5, <1>6, <1>7 DEF Inv

\* The permits of one that was interrupted before it could run are lost.
LEMMA InterruptKeeps ==
  ASSUME SemaphoreAssumption, Inv, NEW f \in Fiber, Interrupt(f)
  PROVE  Inv'
<1>1. /\ signals' = signals + 1 /\ fuel' = [fuel EXCEPT ![f] = 0]
      /\ UNCHANGED <<permits, taken, waiters, wakes, cell, need>>
  BY DEF Interrupt
<1>2. fuel' \in [Fiber -> Nat] /\ signals' \in Nat
  BY <1>1 DEF Inv, TypeOK
<1>3. CASE pc[f] = "waiting" /\ GoTo(f, "cleanup") /\ UNCHANGED lost
  <2>1. pc \in [Fiber -> Place] /\ waiters \in Seq(Fiber)
    BY DEF Inv, TypeOK, Place
  <2>2. \A g \in Fiber : pc'[g] = IF g = f THEN "cleanup" ELSE pc[g]
    BY <1>3, <2>1 DEF GoTo
  <2>3. Holders' = Holders
    BY <1>3, <2>2 DEF Holders
  <2>4. TypeOK'
    BY <1>1, <1>2, <1>3 DEF TypeOK, Inv, GoTo, cell
  <2>5. Asked'
    BY <1>1, <1>3, <2>2 DEF Asked, Inv
  <2>6. Queued'
    <3>1. Range(waiters) \subseteq Fiber
      BY <2>1 DEF Range
    <3> QED BY <1>1, <2>2, <3>1 DEF Queued, Inv
  <2>7. Accounted'
    BY <1>1, <1>3, <2>3 DEF Accounted, Inv
  <2>8. Serialized'
    BY <1>1, <2>2 DEF Serialized, Inv, cell
  <2> QED BY <2>4, <2>5, <2>6, <2>7, <2>8 DEF Inv
<1>4. CASE pc[f] = "resumed" /\ GoTo(f, "cleanup") /\ lost' = lost + need[f]
  <2>1. /\ pc' \in [Fiber -> Place] /\ (\A g \in Fiber : pc'[g] = IF g = f THEN "cleanup" ELSE pc[g])
        /\ Total(need, Holders') \in Nat /\ need[f] \in Nat
        /\ Total(need, Holders) = Total(need, Holders') + need[f]
        /\ Asked' /\ Queued'
    <3>1. f \in Holders
      BY <1>4 DEF Holders
    <3> QED BY <1>1, <1>4, <3>1, Dropped
  <2>2. taken = lost + Total(need, Holders) /\ lost \in Nat
    BY DEF Inv, TypeOK, Accounted
  <2>3. lost' \in Nat /\ taken = lost' + Total(need, Holders')
    BY <1>4, <2>1, <2>2
  <2>4. TypeOK'
    BY <1>1, <1>2, <2>1, <2>3 DEF TypeOK, Inv, Place, cell
  <2>5. Accounted'
    BY <1>1, <2>3 DEF Accounted
  <2>6. Serialized'
    BY <1>1, <2>1 DEF Serialized, Inv, cell
  <2> QED BY <2>1, <2>4, <2>5, <2>6 DEF Inv
<1>5. CASE pc[f] \in {"inside", "changing"} /\ GoTo(f, "releasing") /\ UNCHANGED lost
  <2>1. Asked' /\ Queued' /\ Accounted'
    <3>1. f \in Holders /\ "releasing" \in Holding /\ UNCHANGED <<sem, need>>
      BY <1>1, <1>5 DEF Holders, Holding, sem
    <3> QED BY <1>5, <3>1, KeepsHolding
  <2>2. TypeOK'
    BY <1>1, <1>2, <1>5 DEF TypeOK, Inv, GoTo, cell
  <2>3. Serialized'
    BY <1>1, <1>5 DEF Serialized, Inv, TypeOK, GoTo, cell
  <2> QED BY <2>1, <2>2, <2>3 DEF Inv
<1> QED BY <1>3, <1>4, <1>5 DEF Interrupt

\* A wake-up gives permits that are free to fibers that waited, once each.
LEMMA WakeKeeps ==
  ASSUME SemaphoreAssumption, Inv, Wake
  PROVE  Inv'
<1> DEFINE p == [at |-> 1, waiters |-> waiters, taken |-> taken, woken |-> {}]
           s == Woken[p]
           run(f) == f \in s.woken /\ pc[f] = "waiting"
           A == {f \in s.woken : pc[f] = "waiting"}
           B == {f \in s.woken : pc[f] # "waiting"}
<1>1. /\ wakes > 0 /\ wakes' = wakes - 1 /\ waiters' = s.waiters /\ taken' = s.taken
      /\ pc' = [f \in Fiber |-> IF run(f) THEN "resumed" ELSE pc[f]]
      /\ lost' = lost + MapThenSumSet(LAMBDA f : need[f], B)
      /\ UNCHANGED <<permits, cell, need, fuel, signals>>
  BY DEF Wake
<1>2. /\ waiters \in Seq(Fiber) /\ taken \in Nat /\ taken <= permits /\ lost \in Nat /\ permits \in Nat
      /\ need \in [Fiber -> Nat] /\ pc \in [Fiber -> Place] /\ wakes \in Nat
      /\ IsInjective(waiters) /\ Range(waiters) \subseteq Fiber
      /\ \A f \in Range(waiters) : pc[f] \in {"waiting", "cleanup"}
  <2>1. waiters \in Seq(Fiber)
    BY DEF Inv, TypeOK
  <2>2. Range(waiters) \subseteq Fiber
    BY <2>1 DEF Range
  <2> QED BY <2>1, <2>2 DEF Inv, TypeOK, Queued, Place, SemaphoreAssumption
<1>3. p \in Walk /\ Walked(p, p) /\ Asking /\ IsFiniteSet(Fiber)
  <2>1. p \in Walk
    BY <1>2 DEF Walk
  <2>2. p.waiters = waiters /\ p.taken = taken /\ p.woken = {}
    OBVIOUS
  <2>3. Total(need, {}) = 0
    BY FS_EmptySet, SumParts
  <2> HIDE DEF p
  <2>4. Walked(p, p)
    BY <1>2, <2>2, <2>3 DEF Walked
  <2> QED BY <1>2, <2>1, <2>4 DEF Asking, SemaphoreAssumption
<1>4. s \in Walk /\ Walked(p, s)
  <2> HIDE DEF p
  <2> QED BY <1>3, WokenWalked
<1>5. /\ s.waiters \in Seq(Fiber) /\ s.taken \in Nat /\ s.woken \in SUBSET Fiber
      /\ IsInjective(s.waiters) /\ Range(s.waiters) \cap s.woken = {}
      /\ Range(s.waiters) \cup s.woken = Range(waiters)
      /\ s.taken = taken + Total(need, s.woken) /\ s.taken <= permits
  <2>1. p.waiters = waiters /\ p.taken = taken
    OBVIOUS
  <2> HIDE DEF s, p
  <2> QED BY <1>4, <2>1 DEF Walk, Walked
<1> HIDE DEF p, s
<1>6. /\ A \in SUBSET Fiber /\ B \in SUBSET Fiber /\ IsFiniteSet(A) /\ IsFiniteSet(B)
      /\ A \cap B = {} /\ A \cup B = s.woken
      /\ Holders \cap A = {} /\ Holders \in SUBSET Fiber /\ IsFiniteSet(Holders)
      /\ Total(need, Holders) \in Nat
  <2>1. A \in SUBSET Fiber /\ B \in SUBSET Fiber /\ A \cap B = {} /\ A \cup B = s.woken
        /\ Holders \cap A = {}
    BY <1>5 DEF Holders
  <2> HIDE DEF A, B
  <2>2. IsFiniteSet(A) /\ IsFiniteSet(B)
    BY <1>3, <2>1, FS_Subset
  <2> QED BY <2>1, <2>2, HoldersCounted DEF Inv
<1>7. \A f \in Fiber : pc'[f] = IF f \in A THEN "resumed" ELSE pc[f]
  BY <1>1
<1>8. lost' = lost + Total(need, B)
  <2> HIDE DEF B
  <2> QED BY <1>1, SumIsFold
<1>9. Holders' = Holders \cup A
  <2> HIDE DEF A
  <2> QED BY <1>6, <1>7 DEF Holders
<1>10. pc' \in [Fiber -> Place]
  BY <1>1, <1>2 DEF Place
<1>11. /\ Total(need, A) \in Nat /\ Total(need, B) \in Nat
       /\ Total(need, s.woken) = Total(need, A) + Total(need, B)
       /\ Total(need, Holders') = Total(need, Holders) + Total(need, A)
  <2> DEFINE H == Holders
  <2>1. H \in SUBSET Fiber /\ IsFiniteSet(H) /\ H \cap A = {}
    BY <1>6
  <2> HIDE DEF A, B, H
  <2>2. Total(need, A) \in Nat /\ Total(need, B) \in Nat
    BY <1>2, <1>6, SumNat
  <2>3. /\ need \in [Fiber -> Nat] /\ A \in SUBSET Fiber /\ B \in SUBSET Fiber
        /\ IsFiniteSet(A) /\ IsFiniteSet(B) /\ A \cap B = {}
    BY <1>2, <1>6
  <2>4. Total(need, A \cup B) = Total(need, A) + Total(need, B)
    BY ONLY <2>3, SumUnion
  <2>5. Total(need, H \cup A) = Total(need, H) + Total(need, A)
    BY ONLY <2>1, <2>3, SumUnion
  <2> QED BY <1>6, <1>9, <2>2, <2>4, <2>5 DEF H
<1>12. TypeOK'
  <2>1. taken' \in 0..permits /\ lost' \in Nat /\ wakes' \in Nat /\ waiters' \in Seq(Fiber)
    <3> HIDE DEF A, B
    <3> QED BY <1>1, <1>2, <1>5, <1>8, <1>11
  <2> HIDE DEF A, B
  <2> QED BY <1>1, <1>10, <2>1 DEF TypeOK, Inv, Place, cell
<1>13. Asked'
  <2>1. \A f \in A : pc[f] = "waiting"
    OBVIOUS
  <2> HIDE DEF A, B
  <2> QED BY <1>1, <1>7, <2>1 DEF Asked, Inv
<1>14. Queued'
  <2>1. \A f \in Range(waiters') : f \in Range(waiters) /\ f \in Fiber /\ f \notin s.woken
    BY <1>1, <1>2, <1>5
  <2>2. \A f \in Range(waiters') : pc'[f] = pc[f]
    BY <1>7, <2>1
  <2> QED BY <1>1, <1>2, <1>5, <2>1, <2>2 DEF Queued
<1>15. Accounted'
  <2>1. taken = lost + Total(need, Holders)
    BY DEF Inv, Accounted
  <2> HIDE DEF A, B
  <2>2. taken' = lost' + Total(need, Holders')
    BY <1>1, <1>2, <1>5, <1>6, <1>8, <1>11, <2>1
  <2> QED BY <1>1, <2>2 DEF Accounted
<1>16. Serialized'
  <2> HIDE DEF A, B
  <2> QED BY <1>1, <1>7 DEF Serialized, Inv, cell
<1> QED BY <1>12, <1>13, <1>14, <1>15, <1>16 DEF Inv
----------------------------------------------------------------------------
(* The theorems.                                                           *)

LEMMA InitInv ==
  ASSUME SemaphoreAssumption, Init
  PROVE  Inv
<1>1. /\ permits \in Permits /\ taken = 0 /\ waiters = <<>> /\ wakes = 0
      /\ pc = [f \in Fiber |-> "idle"] /\ need = [f \in Fiber |-> 0]
      /\ ref = 0 /\ seen = [f \in Fiber |-> 0] /\ writes = 0
      /\ lost = 0 /\ fuel = Fuel /\ signals = 0 /\ Permits \subseteq Nat \ {0} /\ Fuel \in [Fiber -> Nat]
  BY DEF Init, SemaphoreAssumption
<1>2. TypeOK
  BY <1>1 DEF TypeOK
<1>3. Asked /\ Serialized
  BY <1>1 DEF Asked, Serialized
<1>4. Queued
  <2>1. DOMAIN waiters = {}
    BY <1>1
  <2> QED BY <2>1 DEF Queued, IsInjective, Range
<1>5. Accounted
  <2>1. Holders = {}
    BY <1>1 DEF Holders
  <2>2. Total(need, {}) = 0
    BY FS_EmptySet, SumParts
  <2> QED BY <1>1, <2>1, <2>2 DEF Accounted
<1> QED BY <1>2, <1>3, <1>4, <1>5 DEF Inv

LEMMA NextKeeps ==
  ASSUME SemaphoreAssumption, Inv, [Next]_vars
  PROVE  Inv'
<1>1. CASE UNCHANGED vars
  BY <1>1 DEF vars, sem, cell, Inv, TypeOK, Asked, Queued, Accounted, Serialized, Holders
<1>2. CASE Wake
  BY <1>2, WakeKeeps
<1>3. ASSUME NEW f \in Fiber, Take(f) PROVE Inv'
  BY <1>3, TakeKeeps
<1>4. ASSUME NEW f \in Fiber, Step(f) PROVE Inv'
  BY <1>4, ResumeKeeps, CleanupKeeps, ReadKeeps, WriteKeeps, FailKeeps, ReleaseKeeps DEF Step
<1>5. ASSUME NEW f \in Fiber, Interrupt(f) PROVE Inv'
  BY <1>5, InterruptKeeps
<1> QED BY <1>1, <1>2, <1>3, <1>4, <1>5 DEF Next

LEMMA Inductive ==
  ASSUME SemaphoreAssumption
  PROVE  Spec => []Inv
<1>1. Init => Inv
  BY InitInv
<1>2. Inv /\ [Next]_vars => Inv'
  BY NextKeeps
<1> QED BY <1>1, <1>2, PTL DEF Spec

\* Every variable keeps its type; no more permits are taken than there are.
THEOREM TypeCorrect ==
  ASSUME SemaphoreAssumption
  PROVE  Spec => []TypeOK
<1>1. Inv => TypeOK
  BY DEF Inv
<1> QED BY <1>1, Inductive, PTL

\* Whatever the order of takes, wake-ups, releases and interruptions, a permit that is not
\* free is held by a fiber that will release it, or was given to one that was interrupted
\* before it could run.
THEOREM PermitsStayAccounted ==
  ASSUME SemaphoreAssumption
  PROVE  Spec => []PermitsAccounted
<1>1. MapThenSumSet(LAMBDA f : need[f], Holders) = Total(need, Holders)
  BY SumIsFold
<1>2. Inv => PermitsAccounted
  BY <1>1 DEF Inv, Accounted, PermitsAccounted
<1> QED BY <1>2, Inductive, PTL

\* No update of a Synchronized overwrites another, however many fibers modify it, and
\* whichever of them fail or are interrupted.
THEOREM UpdatesStaySerialized ==
  ASSUME SemaphoreAssumption
  PROVE  Spec => []UpdatesSerialized
<1>1. Inv => UpdatesSerialized
  BY DEF Inv, Serialized, UpdatesSerialized
<1> QED BY <1>1, Inductive, PTL
=============================================================================
