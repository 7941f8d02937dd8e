---------------------------- MODULE NaturalsLemmas -----------------------------
(***************************************************************************)
(* Least and greatest elements of sets of naturals, and sums over finite    *)
(* sets, for the proofs about queue positions and byte counts.  Each        *)
(* induction takes a smallest counterexample, which strict inclusion        *)
(* between finite sets provides because it is well-founded.                 *)
(***************************************************************************)
EXTENDS Integers, FiniteSetsExt, FiniteSetTheorems, WellFoundedInduction, TLAPS

(* A nonempty set of naturals has a least element. *)
LEMMA LeastNatural ==
    ASSUME NEW S, S \subseteq Nat, S # {}
    PROVE  \E x \in S : \A y \in S : x <= y
<1>1. PICK b \in S : TRUE
  OBVIOUS
<1> DEFINE B == 0..b
           Upto(x) == {y \in S : y <= x}
           T == {Upto(x) : x \in {z \in S : z <= b}}
           R == StrictSubsetOrdering(B)
<1>2. b \in Nat /\ IsFiniteSet(B)
  BY <1>1, FS_Interval
<1>3. IsWellFoundedOn(R, SUBSET B)
  BY <1>2, FS_StrictSubsetOrderingWellFounded, FS_FiniteSubsetsOfFinite
<1>4. T \subseteq SUBSET B /\ T # {}
  <2>1. ASSUME NEW x \in S, x <= b, NEW y \in Upto(x) PROVE y \in B
    <3>1. x \in Nat /\ y \in Nat /\ y <= x
      OBVIOUS
    <3> QED BY <1>2, <2>1, <3>1
  <2>2. Upto(b) \in T
    BY <1>2
  <2> QED BY <2>1, <2>2
<1> HIDE DEF R
<1>5. PICK m \in T : \A n \in T : ~ (<<n, m>> \in R)
  BY <1>3, <1>4, WFMin
<1>6. PICK x \in S : x <= b /\ m = Upto(x)
  OBVIOUS
<1>7. \A y \in S : x <= y
  <2> SUFFICES ASSUME NEW y \in S, ~(x <= y) PROVE FALSE
    OBVIOUS
  <2>1. y < x /\ y <= b
    BY <1>2, <1>6
  <2>2. Upto(y) \in T
    BY <2>1
  <2>3. Upto(y) \subseteq Upto(x) /\ x \in Upto(x) /\ x \notin Upto(y)
    <3>1. x \in Nat /\ y \in Nat
      OBVIOUS
    <3>2. \A z \in S : z <= y => z <= x
      BY <2>1, <3>1
    <3>3. x \in Upto(x) /\ x \notin Upto(y)
      BY <2>1, <3>1
    <3>4. Upto(y) \subseteq Upto(x)
      BY <3>2
    <3> QED BY <3>3, <3>4
  <2>4. <<Upto(y), m>> \in (SUBSET B) \X (SUBSET B)
    BY <1>4, <2>2
  <2>5. <<Upto(y), m>> \in R
    BY <1>6, <2>3, <2>4 DEF R, StrictSubsetOrdering
  <2> QED BY <1>5, <2>2, <2>5
<1> QED BY <1>7

(* Min of a nonempty set of naturals is its least element. *)
LEMMA MinOfNaturals ==
    ASSUME NEW S, S \subseteq Nat, S # {}
    PROVE  Min(S) \in S /\ \A y \in S : Min(S) <= y
<1>1. \E x \in S : \A y \in S : x <= y
  BY LeastNatural
<1> QED BY <1>1 DEF Min

(* Max of a nonempty bounded set of naturals is its greatest element. *)
LEMMA MaxOfNaturals ==
    ASSUME NEW S, S \subseteq Nat, S # {}, NEW b \in Nat, \A x \in S : x <= b
    PROVE  Max(S) \in S /\ \A y \in S : y <= Max(S)
<1> DEFINE T == {b - x : x \in S}
<1>1. T \subseteq Nat /\ T # {}
  <2>1. \A x \in S : b - x \in Nat
    OBVIOUS
  <2> QED BY <2>1
<1>2. PICK m \in T : \A n \in T : m <= n
  BY <1>1, LeastNatural
<1>3. PICK x \in S : m = b - x
  BY <1>2
<1>4. \A y \in S : b - x <= b - y
  BY <1>2, <1>3
<1>5. \A y \in S : x >= y
  BY <1>4
<1> QED BY <1>5 DEF Max

--------------------------------------------------------------------------------
(* Sums of natural weights over a finite set, as MapThenSumSet computes them. *)

(* A property of finite sets that fails nowhere first fails nowhere. *)
LEMMA SmallestSubset ==
    ASSUME NEW T, IsFiniteSet(T), NEW Bad, Bad \subseteq SUBSET T, Bad # {}
    PROVE  \E B \in Bad : \A C \in Bad : C \subseteq B => C = B
<1>1. IsWellFoundedOn(StrictSubsetOrdering(T), SUBSET T)
  BY FS_StrictSubsetOrderingWellFounded, FS_FiniteSubsetsOfFinite
<1>2. PICK B \in Bad : \A C \in Bad : ~ (<<C, B>> \in StrictSubsetOrdering(T))
  BY <1>1, WFMin
<1>3. ASSUME NEW C \in Bad, C \subseteq B, C # B
      PROVE  FALSE
  <2>1. <<C, B>> \in (SUBSET T) \X (SUBSET T)
    OBVIOUS
  <2> QED BY <1>2, <1>3, <2>1 DEF StrictSubsetOrdering
<1> QED BY <1>3

(* The element FiniteSetsExt takes out of a set. *)
Chosen(s) == CHOOSE x \in s : TRUE

LEMMA ChosenIsIn == ASSUME NEW s, s # {} PROVE Chosen(s) \in s
BY DEF Chosen

(* g gives the sums of w over the subsets of T, the way MapThenSumSet does. *)
IsSums(g, w, T) ==
    g = [s \in SUBSET T |-> IF s = {} THEN 0 ELSE w[Chosen(s)] + g[s \ {Chosen(s)}]]

LEMMA SumsStep ==
    ASSUME NEW g, NEW w, NEW T, IsSums(g, w, T), NEW s \in SUBSET T
    PROVE  /\ s = {} => g[s] = 0
           /\ s # {} => g[s] = w[Chosen(s)] + g[s \ {Chosen(s)}]
<1>1. g[s] = IF s = {} THEN 0 ELSE w[Chosen(s)] + g[s \ {Chosen(s)}]
  BY DEF IsSums
<1> QED BY <1>1

(* Sums depend only on the weights of the set they are of. *)
LEMMA SumsAgree ==
    ASSUME NEW g, NEW w, NEW T, IsSums(g, w, T),
           NEW h, NEW v, NEW U, IsSums(h, v, U),
           NEW S, IsFiniteSet(S), S \subseteq T, S \subseteq U,
           \A x \in S : w[x] = v[x]
    PROVE  \A s \in SUBSET S : g[s] = h[s]
<1> DEFINE Bad == {s \in SUBSET S : g[s] # h[s]}
<1>1. SUFFICES ASSUME Bad # {} PROVE FALSE
  OBVIOUS
<1>2. Bad \subseteq SUBSET S
  OBVIOUS
<1>3. \A s \in SUBSET S : s \in Bad <=> g[s] # h[s]
  OBVIOUS
<1> HIDE DEF Bad
<1>4. PICK s \in Bad : \A c \in Bad : c \subseteq s => c = s
  BY <1>1, <1>2, SmallestSubset
<1>5. s \in SUBSET S /\ s \in SUBSET T /\ s \in SUBSET U /\ g[s] # h[s]
  BY <1>2, <1>3, <1>4
<1>6. s # {}
  BY <1>5, SumsStep
<1>7. Chosen(s) \in s
  BY <1>6, ChosenIsIn
<1>8. g[s] = w[Chosen(s)] + g[s \ {Chosen(s)}] /\ h[s] = v[Chosen(s)] + h[s \ {Chosen(s)}]
  <2>1. g[s] = w[Chosen(s)] + g[s \ {Chosen(s)}]
    BY <1>5, <1>6, SumsStep
  <2>2. h[s] = v[Chosen(s)] + h[s \ {Chosen(s)}]
    BY <1>5, <1>6, SumsStep
  <2> QED BY <2>1, <2>2
<1>9. s \ {Chosen(s)} \in SUBSET S /\ s \ {Chosen(s)} \notin Bad
  BY <1>4, <1>5, <1>7
<1>10. w[Chosen(s)] = v[Chosen(s)] /\ g[s \ {Chosen(s)}] = h[s \ {Chosen(s)}]
  BY <1>3, <1>5, <1>7, <1>9
<1> QED BY <1>5, <1>8, <1>10

(* There are such sums, and they are naturals. *)
AreSums(g, w, T) == IsSums(g, w, T) /\ \A s \in SUBSET T : g[s] \in Nat

(* Sums over every smaller set make sums over the set. *)
LEMMA SumsExtend ==
    ASSUME NEW w, NEW T, IsFiniteSet(T), \A x \in T : w[x] \in Nat,
           NEW G, \A s \in SUBSET T : s # T => AreSums(G[s], w, s)
    PROVE  \E g : AreSums(g, w, T)
<1> DEFINE value(s) == IF s = {} THEN 0 ELSE w[Chosen(s)] + G[s \ {Chosen(s)}][s \ {Chosen(s)}]
           h == [s \in SUBSET T |-> value(s)]
<1>1. \A s \in SUBSET T : s # {} => /\ Chosen(s) \in s
                                    /\ s \ {Chosen(s)} \in SUBSET T
                                    /\ s \ {Chosen(s)} # T
                                    /\ s \ {Chosen(s)} \subseteq s
  BY ChosenIsIn
<1>2. ASSUME NEW s \in SUBSET T, s # T PROVE G[s][s] = value(s)
  <2>1. IsSums(G[s], w, s) /\ s \in SUBSET s
    BY <1>2 DEF AreSums
  <2>2. CASE s = {}
    BY <2>1, <2>2, SumsStep
  <2>3. CASE s # {}
    <3> DEFINE r == s \ {Chosen(s)}
    <3>1. r \in SUBSET T /\ r # T /\ r \subseteq s
      BY <1>1, <2>3
    <3>2. G[s][s] = w[Chosen(s)] + G[s][r]
      <4> DEFINE g == G[s]
      <4>1. IsSums(g, w, s) /\ s \in SUBSET s
        BY <2>1
      <4> HIDE DEF g
      <4>2. g[s] = w[Chosen(s)] + g[s \ {Chosen(s)}]
        BY <2>3, <4>1, SumsStep
      <4> QED BY <4>2 DEF g
    <3> HIDE DEF r
    <3>3. IsSums(G[r], w, r) /\ IsFiniteSet(r) /\ r \in SUBSET r
      BY <3>1, FS_Subset DEF AreSums
    <3>4. G[s][r] = G[r][r]
      <4>1. \A c \in SUBSET r : G[s][c] = G[r][c]
        BY <2>1, <3>1, <3>3, SumsAgree
      <4> QED BY <3>3, <4>1
    <3> QED BY <2>3, <3>2, <3>4 DEF r
  <2> QED BY <2>2, <2>3
<1>3. \A s \in SUBSET T : h[s] = value(s)
  OBVIOUS
<1>4. ASSUME NEW s \in SUBSET T, s # {} PROVE h[s \ {Chosen(s)}] = G[s \ {Chosen(s)}][s \ {Chosen(s)}]
  <2> DEFINE r == s \ {Chosen(s)}
  <2>1. r \in SUBSET T /\ r # T
    BY <1>1, <1>4
  <2> HIDE DEF r, value, h
  <2>2. h[r] = G[r][r]
    BY <1>2, <1>3, <2>1
  <2> QED BY <2>2 DEF r
<1>5. \A s \in SUBSET T : value(s) = IF s = {} THEN 0 ELSE w[Chosen(s)] + h[s \ {Chosen(s)}]
  <2> HIDE DEF h
  <2> QED BY <1>4
<1>6. IsSums(h, w, T)
  <2>1. h = [s \in SUBSET T |-> value(s)]
    OBVIOUS
  <2> HIDE DEF value, h
  <2> QED BY <1>5, <2>1 DEF IsSums
<1>7. ASSUME NEW s \in SUBSET T PROVE value(s) \in Nat
  <2>1. CASE s = {}
    BY <2>1
  <2>2. CASE s # {}
    <3> DEFINE r == s \ {Chosen(s)}
    <3>1. r \in SUBSET T /\ r # T /\ Chosen(s) \in T
      BY <1>1, <2>2
    <3> HIDE DEF r
    <3>2. AreSums(G[r], w, r)
      BY <3>1
    <3>3. G[r][r] \in Nat /\ w[Chosen(s)] \in Nat
      BY <3>1, <3>2 DEF AreSums
    <3> QED BY <2>2, <3>3 DEF r
  <2> QED BY <2>1, <2>2
<1>8. \A s \in SUBSET T : h[s] \in Nat
  <2> HIDE DEF h, value
  <2> QED BY <1>3, <1>7
<1> HIDE DEF h
<1> QED BY <1>6, <1>8 DEF AreSums

LEMMA SumsExist ==
    ASSUME NEW w, NEW T, IsFiniteSet(T), \A x \in T : w[x] \in Nat
    PROVE  \E g : AreSums(g, w, T)
<1> DEFINE Bad == {B \in SUBSET T : ~ \E g : AreSums(g, w, B)}
<1>1. SUFFICES ASSUME Bad # {} PROVE FALSE
  OBVIOUS
<1>2. Bad \subseteq SUBSET T
  OBVIOUS
<1>3. \A B \in SUBSET T : B \in Bad <=> ~ \E g : AreSums(g, w, B)
  OBVIOUS
<1> HIDE DEF Bad
<1>4. PICK B \in Bad : \A C \in Bad : C \subseteq B => C = B
  BY <1>1, <1>2, SmallestSubset
<1>5. B \in SUBSET T /\ IsFiniteSet(B) /\ \A x \in B : w[x] \in Nat
  BY <1>2, FS_Subset
<1>6. \A s \in SUBSET B : s # B => \E g : AreSums(g, w, s)
  BY <1>3, <1>4, <1>5
<1> DEFINE G == [s \in SUBSET B |-> CHOOSE g : AreSums(g, w, s)]
<1>7. \A s \in SUBSET B : s # B => AreSums(G[s], w, s)
  BY <1>6
<1> HIDE DEF G
<1>8. \E g : AreSums(g, w, B)
  BY <1>5, <1>7, SumsExtend
<1> QED BY <1>3, <1>4, <1>5, <1>8

(* What MapThenSumSet computes of weights. *)
SumOf(w, S) == MapThenSumSet(LAMBDA x : w[x], S)

LEMMA SumOfIsSums ==
    ASSUME NEW w, NEW S, IsFiniteSet(S), \A x \in S : w[x] \in Nat
    PROVE  \E g : AreSums(g, w, S) /\ SumOf(w, S) = g[S]
<1> DEFINE g == CHOOSE g : IsSums(g, w, S)
<1>1. SumOf(w, S) = g[S]
  BY DEF SumOf, MapThenSumSet, MapThenFoldSet, IsSums, Chosen
<1>2. PICK h : AreSums(h, w, S)
  BY SumsExist
<1>3. IsSums(h, w, S)
  BY <1>2 DEF AreSums
<1>4. IsSums(g, w, S)
  BY <1>3
<1> HIDE DEF g
<1>5. \A s \in SUBSET S : g[s] = h[s]
  BY <1>3, <1>4, SumsAgree
<1>6. AreSums(g, w, S)
  BY <1>2, <1>4, <1>5 DEF AreSums
<1> QED BY <1>1, <1>6

LEMMA SumOfEmpty == ASSUME NEW w PROVE SumOf(w, {}) = 0
<1>1. IsFiniteSet({})
  BY FS_EmptySet
<1>2. PICK g : AreSums(g, w, {}) /\ SumOf(w, {}) = g[{}]
  BY <1>1, SumOfIsSums
<1>3. IsSums(g, w, {}) /\ {} \in SUBSET {}
  BY <1>2 DEF AreSums
<1> QED BY <1>2, <1>3, SumsStep

LEMMA SumOfNat ==
    ASSUME NEW w, NEW S, IsFiniteSet(S), \A x \in S : w[x] \in Nat
    PROVE  SumOf(w, S) \in Nat
<1>1. PICK g : AreSums(g, w, S) /\ SumOf(w, S) = g[S]
  BY SumOfIsSums
<1>2. S \in SUBSET S
  OBVIOUS
<1> QED BY <1>1, <1>2 DEF AreSums

LEMMA SumOfSame ==
    ASSUME NEW w, NEW v, NEW S, IsFiniteSet(S), \A x \in S : w[x] \in Nat /\ w[x] = v[x]
    PROVE  SumOf(w, S) = SumOf(v, S)
<1>1. \A x \in S : w[x] \in Nat /\ v[x] \in Nat /\ w[x] = v[x]
  OBVIOUS
<1>2. PICK g : AreSums(g, w, S) /\ SumOf(w, S) = g[S]
  BY <1>1, SumOfIsSums
<1>3. PICK h : AreSums(h, v, S) /\ SumOf(v, S) = h[S]
  BY <1>1, SumOfIsSums
<1>4. IsSums(g, w, S) /\ IsSums(h, v, S)
  BY <1>2, <1>3 DEF AreSums
<1>5. \A s \in SUBSET S : g[s] = h[s]
  BY <1>1, <1>4, SumsAgree
<1> QED BY <1>2, <1>3, <1>5

(* Any element of a set can be taken out of its sum first. *)
LEMMA SumsElement ==
    ASSUME NEW g, NEW w, NEW S, IsFiniteSet(S), \A x \in S : w[x] \in Nat, AreSums(g, w, S)
    PROVE  \A s \in SUBSET S : \A y \in s : g[s] = w[y] + g[s \ {y}]
<1> DEFINE Holds(s) == \A y \in s : g[s] = w[y] + g[s \ {y}]
           Bad == {s \in SUBSET S : ~Holds(s)}
<1>1. SUFFICES ASSUME Bad # {} PROVE FALSE
  OBVIOUS
<1>2. Bad \subseteq SUBSET S
  OBVIOUS
<1>3. \A s \in SUBSET S : s \in Bad <=> ~Holds(s)
  OBVIOUS
<1> HIDE DEF Bad
<1>4. PICK s \in Bad : \A c \in Bad : c \subseteq s => c = s
  BY <1>1, <1>2, SmallestSubset
<1>5. s \in SUBSET S /\ ~Holds(s)
  BY <1>2, <1>3, <1>4
<1>6. PICK y \in s : g[s] # w[y] + g[s \ {y}]
  BY <1>5
<1> DEFINE x == Chosen(s)
<1>7. x \in s /\ g[s] = w[x] + g[s \ {x}]
  <2>1. IsSums(g, w, S) /\ s # {}
    BY <1>6 DEF AreSums
  <2> QED BY <1>5, <2>1, ChosenIsIn, SumsStep
<1> HIDE DEF x
<1>8. x # y
  BY <1>6, <1>7
<1>9. /\ s \ {x} \in SUBSET S /\ s \ {y} \in SUBSET S
      /\ s \ {x} \notin Bad /\ s \ {y} \notin Bad
  BY <1>4, <1>5, <1>6, <1>7
<1>10. Holds(s \ {x}) /\ Holds(s \ {y})
  <2> HIDE DEF Holds
  <2> QED BY <1>3, <1>9
<1> DEFINE r == (s \ {x}) \ {y}
<1>11. r = (s \ {y}) \ {x} /\ r \in SUBSET S
  BY <1>5
<1>12. y \in s \ {x} /\ x \in s \ {y}
  BY <1>6, <1>7, <1>8
<1>13. g[s \ {x}] = w[y] + g[r] /\ g[s \ {y}] = w[x] + g[r]
  BY <1>10, <1>11, <1>12
<1>14. w[x] \in Nat /\ w[y] \in Nat /\ g[r] \in Nat
  BY <1>5, <1>6, <1>7, <1>11 DEF AreSums
<1> HIDE DEF r
<1> QED BY <1>6, <1>7, <1>13, <1>14

(* An element adds its weight. *)
LEMMA SumOfElement ==
    ASSUME NEW w, NEW S, IsFiniteSet(S), \A x \in S : w[x] \in Nat, NEW e \in S
    PROVE  SumOf(w, S) = w[e] + SumOf(w, S \ {e})
<1>1. PICK g : AreSums(g, w, S) /\ SumOf(w, S) = g[S]
  BY SumOfIsSums
<1>2. IsFiniteSet(S \ {e}) /\ \A x \in S \ {e} : w[x] \in Nat
  BY FS_Subset
<1>3. PICK h : AreSums(h, w, S \ {e}) /\ SumOf(w, S \ {e}) = h[S \ {e}]
  BY <1>2, SumOfIsSums
<1>4. IsSums(g, w, S) /\ IsSums(h, w, S \ {e}) /\ S \ {e} \subseteq S
  BY <1>1, <1>3 DEF AreSums
<1>5. \A s \in SUBSET (S \ {e}) : g[s] = h[s]
  BY <1>2, <1>4, SumsAgree
<1>6. S \ {e} \in SUBSET (S \ {e})
  OBVIOUS
<1>7. g[S] = w[e] + g[S \ {e}]
  BY <1>1, SumsElement
<1> QED BY <1>1, <1>3, <1>5, <1>6, <1>7

(* A sum splits. *)
LEMMA SumOfSplit ==
    ASSUME NEW w, NEW S, IsFiniteSet(S), \A x \in S : w[x] \in Nat, NEW R \in SUBSET S
    PROVE  SumOf(w, S) = SumOf(w, R) + SumOf(w, S \ R)
<1> DEFINE Holds(B) == SumOf(w, S) = SumOf(w, B) + SumOf(w, S \ B)
           Bad == {B \in SUBSET S : ~Holds(B)}
<1>1. SUFFICES ASSUME Bad # {} PROVE FALSE
  OBVIOUS
<1>2. Bad \subseteq SUBSET S
  OBVIOUS
<1>3. \A B \in SUBSET S : B \in Bad <=> ~Holds(B)
  OBVIOUS
<1> HIDE DEF Bad
<1>4. PICK B \in Bad : \A C \in Bad : C \subseteq B => C = B
  BY <1>1, <1>2, SmallestSubset
<1>5. B \in SUBSET S /\ ~Holds(B)
  BY <1>2, <1>3, <1>4
<1>6. Holds({})
  <2>1. S \ {} = S
    OBVIOUS
  <2> QED BY <2>1, SumOfEmpty, SumOfNat
<1>7. PICK e \in B : TRUE
  BY <1>5, <1>6
<1>8. B \ {e} \in SUBSET S /\ B \ {e} \notin Bad
  BY <1>4, <1>5, <1>7
<1>9. Holds(B \ {e})
  <2> HIDE DEF Holds
  <2> QED BY <1>3, <1>8
<1>10. IsFiniteSet(B) /\ IsFiniteSet(S \ (B \ {e})) /\ IsFiniteSet(B \ {e}) /\ IsFiniteSet(S \ B)
  BY <1>5, <1>8, FS_Subset
<1>11. \A x \in B : w[x] \in Nat
  BY <1>5
<1>12. SumOf(w, B) = w[e] + SumOf(w, B \ {e})
  BY <1>7, <1>10, <1>11, SumOfElement
<1>13. e \in S \ (B \ {e}) /\ (S \ (B \ {e})) \ {e} = S \ B
  BY <1>5, <1>7
<1>14. \A x \in S \ (B \ {e}) : w[x] \in Nat
  OBVIOUS
<1>15. SumOf(w, S \ (B \ {e})) = w[e] + SumOf(w, S \ B)
  BY <1>10, <1>13, <1>14, SumOfElement
<1>16. SumOf(w, B \ {e}) \in Nat /\ SumOf(w, S \ B) \in Nat
  BY <1>5, <1>8, <1>10, SumOfNat
<1>17. w[e] \in Nat
  BY <1>7, <1>11
<1> QED BY <1>5, <1>9, <1>12, <1>15, <1>16, <1>17
================================================================================
