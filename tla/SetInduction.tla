---------------------------- MODULE SetInduction ----------------------------
(***************************************************************************)
(* Induction stated over sets instead of predicates, so that the           *)
(* first-order provers can use it: a set of naturals has a least element,  *)
(* and a subset of an interval closed under successor is the interval.     *)
(* Finite sums are stated by a witness, the function from sets of indices  *)
(* to partial sums, so that facts about them need no recursion.            *)
(***************************************************************************)
EXTENDS Integers, FiniteSets, FiniteSetsExt, FiniteSetTheorems, WellFoundedInduction, TLAPS

(* The least-number principle.                                             *)
LEMMA LeastNatural ==
  ASSUME NEW T \in SUBSET Nat, T # {}
  PROVE  \E m \in T : \A k \in T : m <= k
<1> DEFINE F == {0..m : m \in T}
           R == StrictSubsetOrdering(Nat)
           S == FiniteSubsetsOf(Nat)
<1>1. IsWellFoundedOn(R, S)
  BY FS_StrictSubsetOrderingWellFounded
<1>2. F \subseteq S
  <2> SUFFICES ASSUME NEW m \in T PROVE (0..m) \in S
    OBVIOUS
  <2>1. IsFiniteSet(0..m)
    BY FS_Interval
  <2> QED BY <2>1 DEF FiniteSubsetsOf
<1>3. F # {}
  OBVIOUS
<1>4. \E x \in F : \A y \in F : ~(<<y, x>> \in R)
  <2> HIDE DEF F, R, S
  <2> QED BY <1>1, <1>2, <1>3, WFMin
<1>5. PICK m \in T : \A y \in F : ~(<<y, 0..m>> \in R)
  BY <1>4
<1>6. ASSUME NEW k \in T, k < m PROVE FALSE
  <2>1. (0..k) \in F
    OBVIOUS
  <2>2. (0..k) \subseteq (0..m) /\ m \in 0..m /\ m \notin 0..k
    BY <1>6
  <2>3. <<0..k, 0..m>> \in R
    BY <2>2 DEF StrictSubsetOrdering
  <2> QED BY <1>5, <2>1, <2>3
<1> QED BY <1>6

(* A set that holds 0 and, with every i below n, also i + 1, holds 0..n.   *)
LEMMA IntervalInduction ==
  ASSUME NEW n \in Nat, NEW S, 0 \in S,
         \A i \in 0..(n - 1) : i \in S => (i + 1) \in S
  PROVE  0..n \subseteq S
<1> DEFINE T == (0..n) \ S
<1>1. SUFFICES ASSUME T # {} PROVE FALSE
  OBVIOUS
<1>2. PICK m \in T : \A k \in T : m <= k
  <2>1. T \in SUBSET Nat
    OBVIOUS
  <2> HIDE DEF T
  <2> QED BY <1>1, <2>1, LeastNatural
<1>3. m \in Nat /\ m # 0 /\ (m - 1) \in 0..(n - 1) /\ (m - 1) + 1 = m
  BY <1>2
<1>4. (m - 1) \in S
  BY <1>2, <1>3
<1> QED BY <1>2, <1>3, <1>4

----------------------------------------------------------------------------
(* total is the sum of f over W.                                           *)
SumsTo(W, f, total) ==
  \E F \in [SUBSET W -> Nat] :
    /\ F[{}] = 0
    /\ F[W] = total
    /\ \A T \in SUBSET W : \A w \in W \ T : F[T \cup {w}] = F[T] + f[w]

LEMMA SumOfZeros == ASSUME NEW W PROVE SumsTo(W, [w \in W |-> 0], 0)
<1> DEFINE F == [T \in SUBSET W |-> 0]
<1>1. F \in [SUBSET W -> Nat] /\ F[{}] = 0 /\ F[W] = 0
  OBVIOUS
<1>2. \A T \in SUBSET W : \A w \in W \ T : F[T \cup {w}] = F[T] + [v \in W |-> 0][w]
  OBVIOUS
<1> QED BY <1>1, <1>2 DEF SumsTo

(* Adding v to one entry adds v to the sum.                                *)
LEMMA SumAdd ==
  ASSUME NEW W, NEW f \in [W -> Nat], NEW total, SumsTo(W, f, total),
         NEW a \in W, NEW v \in Nat
  PROVE  SumsTo(W, [f EXCEPT ![a] = @ + v], total + v)
<1> DEFINE g == [f EXCEPT ![a] = @ + v]
<1>1. PICK F \in [SUBSET W -> Nat] :
        /\ F[{}] = 0
        /\ F[W] = total
        /\ \A T \in SUBSET W : \A w \in W \ T : F[T \cup {w}] = F[T] + f[w]
  BY DEF SumsTo
<1> DEFINE G == [T \in SUBSET W |-> F[T] + (IF a \in T THEN v ELSE 0)]
<1>2. G \in [SUBSET W -> Nat] /\ G[{}] = 0 /\ G[W] = total + v
  BY <1>1
<1>3. ASSUME NEW T \in SUBSET W, NEW w \in W \ T PROVE G[T \cup {w}] = G[T] + g[w]
  <2>1. (T \cup {w}) \in SUBSET W /\ F[T \cup {w}] = F[T] + f[w] /\ F[T] \in Nat /\ f[w] \in Nat
    BY <1>1
  <2>2. CASE w = a
    BY <2>1, <2>2
  <2>3. CASE w # a
    BY <2>1, <2>3
  <2> QED BY <2>2, <2>3
<1> QED BY <1>2, <1>3 DEF SumsTo

(* An entry is at most the sum, and clearing it subtracts it from the sum. *)
LEMMA SumClear ==
  ASSUME NEW W, NEW f \in [W -> Nat], NEW total, SumsTo(W, f, total), NEW a \in W
  PROVE  /\ total \in Nat
         /\ f[a] <= total
         /\ SumsTo(W, [f EXCEPT ![a] = 0], total - f[a])
<1> DEFINE g == [f EXCEPT ![a] = 0]
<1>1. PICK F \in [SUBSET W -> Nat] :
        /\ F[{}] = 0
        /\ F[W] = total
        /\ \A T \in SUBSET W : \A w \in W \ T : F[T \cup {w}] = F[T] + f[w]
  BY DEF SumsTo
<1>2. \A T \in SUBSET W : a \in T => F[T] = F[T \ {a}] + f[a]
  <2> SUFFICES ASSUME NEW T \in SUBSET W, a \in T PROVE F[T] = F[T \ {a}] + f[a]
    OBVIOUS
  <2>1. (T \ {a}) \in SUBSET W /\ a \in W \ (T \ {a}) /\ (T \ {a}) \cup {a} = T
    OBVIOUS
  <2> QED BY <1>1, <2>1
<1>3. total \in Nat /\ total - f[a] = F[W \ {a}] /\ F[W \ {a}] \in Nat /\ f[a] \in Nat
  <2>1. (W \ {a}) \in SUBSET W /\ W \in SUBSET W
    OBVIOUS
  <2>2. F[W] \in Nat /\ F[W \ {a}] \in Nat /\ f[a] \in Nat
    BY <1>1, <2>1
  <2>3. F[W] = F[W \ {a}] + f[a]
    BY <1>2, <2>1
  <2> QED BY <1>1, <2>2, <2>3
<1> DEFINE G == [T \in SUBSET W |-> F[T \ {a}]]
<1>4. G \in [SUBSET W -> Nat] /\ G[W] = total - f[a]
  BY <1>1, <1>3
<1>5. G[{}] = 0
  <2>1. {} \ {a} = {}
    OBVIOUS
  <2> QED BY <1>1, <2>1
<1>6. ASSUME NEW T \in SUBSET W, NEW w \in W \ T PROVE G[T \cup {w}] = G[T] + g[w]
  <2>1. (T \ {a}) \in SUBSET W /\ F[T \ {a}] \in Nat /\ (T \cup {w}) \in SUBSET W
    BY <1>1
  <2>2. CASE w = a
    <3>1. (T \cup {w}) \ {a} = T \ {a}
      BY <2>2
    <3>2. G[T \cup {w}] = F[T \ {a}] /\ G[T] = F[T \ {a}] /\ g[w] = 0
      BY <2>1, <2>2, <3>1
    <3> HIDE DEF G, g
    <3> QED BY <2>1, <3>2
  <2>3. CASE w # a
    <3>1. (T \cup {w}) \ {a} = (T \ {a}) \cup {w} /\ w \in W \ (T \ {a})
      BY <2>3
    <3>2. F[(T \ {a}) \cup {w}] = F[T \ {a}] + f[w]
      BY <1>1, <2>1, <3>1
    <3> QED BY <2>1, <2>3, <3>1, <3>2
  <2> QED BY <2>2, <2>3
<1>7. SumsTo(W, g, total - f[a])
  <2> HIDE DEF G, g
  <2> QED BY <1>4, <1>5, <1>6 DEF SumsTo
<1>8. f[a] <= total
  BY <1>3
<1> QED BY <1>3, <1>7, <1>8

(* An entry outside V that is 0 does not matter to the sum.                *)
LEMMA SumOfPart ==
  ASSUME NEW W, IsFiniteSet(W), NEW f \in [W -> Nat], NEW total, SumsTo(W, f, total),
         NEW V \in SUBSET W, \A w \in W \ V : f[w] = 0, NEW g, \A w \in V : g[w] = f[w]
  PROVE  SumsTo(V, g, total)
<1>1. PICK F \in [SUBSET W -> Nat] :
        /\ F[{}] = 0
        /\ F[W] = total
        /\ \A T \in SUBSET W : \A w \in W \ T : F[T \cup {w}] = F[T] + f[w]
  BY DEF SumsTo
<1>2. F[V] = total
  <2> DEFINE R == StrictSubsetOrdering(W)
             S == FiniteSubsetsOf(W)
             Bad == {T \in SUBSET (W \ V) : F[V \cup T] # F[V]}
  <2>1. IsWellFoundedOn(R, S)
    BY FS_StrictSubsetOrderingWellFounded
  <2>2. Bad \subseteq S
    BY FS_Subset DEF FiniteSubsetsOf
  <2>3. ASSUME Bad # {} PROVE FALSE
    <3>1. PICK T \in Bad : \A U \in Bad : ~(<<U, T>> \in R)
      <4> HIDE DEF Bad, R, S
      <4> QED BY <2>1, <2>2, <2>3, WFMin
    <3>2. T # {}
      <4>1. V \cup {} = V
        OBVIOUS
      <4> QED BY <3>1, <4>1
    <3>3. PICK w \in T : TRUE
      BY <3>2
    <3>4. PICK U : U = T \ {w}
      OBVIOUS
    <3>5. U \in SUBSET (W \ V) /\ <<U, T>> \in R /\ w \in W \ V /\ w \notin U
      BY <3>1, <3>3, <3>4 DEF StrictSubsetOrdering
    <3>6. F[V \cup U] = F[V]
      BY <3>1, <3>5
    <3>7. V \cup U \in SUBSET W /\ w \in W \ (V \cup U) /\ (V \cup U) \cup {w} = V \cup T
      BY <3>1, <3>3, <3>4, <3>5
    <3>8. PICK A : A = V \cup U
      OBVIOUS
    <3>9. A \in SUBSET W /\ w \in W \ A /\ F[A \cup {w}] = F[A] + f[w]
      BY <1>1, <3>7, <3>8
    <3>10. f[w] = 0 /\ F[A] \in Nat
      BY <1>1, <3>5, <3>9
    <3>11. A \cup {w} = V \cup T /\ F[A] = F[V]
      BY <3>6, <3>7, <3>8
    <3>12. F[A \cup {w}] = F[A]
      BY <3>9, <3>10
    <3>13. F[V \cup T] = F[V]
      BY <3>11, <3>12
    <3> QED BY <3>1, <3>13
  <2>4. (W \ V) \notin Bad /\ V \cup (W \ V) = W
    BY <2>3
  <2> QED BY <1>1, <2>4
<1> DEFINE G == [T \in SUBSET V |-> F[T]]
<1>3. G \in [SUBSET V -> Nat] /\ G[{}] = 0 /\ G[V] = total
  BY <1>1, <1>2
<1>4. ASSUME NEW T \in SUBSET V, NEW w \in V \ T PROVE G[T \cup {w}] = G[T] + g[w]
  <2>1. T \in SUBSET W /\ w \in W \ T /\ T \cup {w} \in SUBSET V /\ g[w] = f[w]
    OBVIOUS
  <2>2. F[T \cup {w}] = F[T] + f[w]
    BY <1>1, <2>1
  <2> QED BY <2>1, <2>2
<1> QED
  <2> HIDE DEF G
  <2> QED BY <1>3, <1>4 DEF SumsTo

----------------------------------------------------------------------------
(* MapThenSumSet of a finite set is the sum: the function of partial sums  *)
(* solves the fold's recursion, and it has no other solution, by induction *)
(* on finite sets.  FoldedSum is what MapThenSumSet(LAMBDA w : f[w], W)    *)
(* stands for, without the operator parameters.                            *)
First(s) == CHOOSE x \in s : TRUE

FoldOf(W, f, g) ==
  g = [s \in SUBSET W |-> IF s = {} THEN 0 ELSE f[First(s)] + g[s \ {First(s)}]]

FoldedSum(W, f) == (CHOOSE g : FoldOf(W, f, g))[W]

LEMMA FoldIsUnique ==
  ASSUME NEW W, IsFiniteSet(W), NEW f, NEW g, NEW h, FoldOf(W, f, g), FoldOf(W, f, h)
  PROVE  g[W] = h[W]
<1> DEFINE R == StrictSubsetOrdering(W)
           S == FiniteSubsetsOf(W)
           Bad == {s \in SUBSET W : g[s] # h[s]}
<1>1. IsWellFoundedOn(R, S)
  BY FS_StrictSubsetOrderingWellFounded
<1>2. Bad \subseteq S
  BY FS_Subset DEF FiniteSubsetsOf
<1>3. ASSUME Bad # {} PROVE FALSE
  <2>1. PICK s \in Bad : \A t \in Bad : ~(<<t, s>> \in R)
    <3> HIDE DEF Bad, R, S
    <3> QED BY <1>1, <1>2, <1>3, WFMin
  <2>2. s \in SUBSET W /\ g[s] # h[s]
    BY <2>1
  <2>3. s # {}
    BY <2>2 DEF FoldOf
  <2>4. First(s) \in s
    BY <2>3 DEF First
  <2>5. PICK x : x = First(s)
    OBVIOUS
  <2>6. PICK t : t = s \ {x}
    OBVIOUS
  <2>7. t \in SUBSET W /\ <<t, s>> \in R
    BY <2>2, <2>4, <2>5, <2>6 DEF StrictSubsetOrdering
  <2>8. g[t] = h[t]
    BY <2>1, <2>7
  <2>9. g[s] = f[x] + g[t] /\ h[s] = f[x] + h[t]
    BY <2>2, <2>3, <2>5, <2>6 DEF FoldOf
  <2> QED BY <2>2, <2>8, <2>9
<1> QED BY <1>3

LEMMA SumIsFold ==
  ASSUME NEW W, IsFiniteSet(W), NEW f, \A w \in W : f[w] \in Nat, NEW total, SumsTo(W, f, total)
  PROVE  FoldedSum(W, f) = total
<1>1. PICK F \in [SUBSET W -> Nat] :
        /\ F[{}] = 0
        /\ F[W] = total
        /\ \A T \in SUBSET W : \A w \in W \ T : F[T \cup {w}] = F[T] + f[w]
  BY DEF SumsTo
<1>2. FoldOf(W, f, F)
  <2>1. ASSUME NEW s \in SUBSET W, s # {} PROVE F[s] = f[First(s)] + F[s \ {First(s)}]
    <3>1. PICK x : x = First(s)
      OBVIOUS
    <3>2. x \in s
      BY <2>1, <3>1 DEF First
    <3>3. PICK T : T = s \ {x}
      OBVIOUS
    <3>4. T \in SUBSET W /\ x \in W \ T /\ T \cup {x} = s
      BY <3>2, <3>3
    <3>5. F[s] = F[T] + f[x] /\ F[T] \in Nat /\ f[x] \in Nat
      BY <1>1, <3>4
    <3> QED BY <3>1, <3>3, <3>5
  <2> QED BY <1>1, <2>1 DEF FoldOf
<1>3. PICK g : g = CHOOSE h : FoldOf(W, f, h)
  OBVIOUS
<1>4. FoldOf(W, f, g)
  BY <1>2, <1>3
<1>5. g[W] = total
  BY <1>1, <1>2, <1>4, FoldIsUnique
<1> QED BY <1>3, <1>5 DEF FoldedSum
============================================================================
