----------------------------- MODULE RecoveryProofs -----------------------------
(***************************************************************************)
(* What is recovered later, in two parts.                                   *)
(*                                                                         *)
(* HistoryRanges, for any relays, contents, ranges and page sizes: what a   *)
(* relay is said to have covered was taken in, and a range that completes   *)
(* leaves nothing unaccounted for but on relays that were given up, for a    *)
(* refusal, for failed passes or for a permanent exception.                  *)
(*                                                                         *)
(* PendingPackets, for any messengers, packets and bounds: a packet whose   *)
(* deferral was confirmed is stored until it is delivered, cleared or evicted, *)
(* which is reported, two cases apart; and none is tried more than three       *)
(* times over with an invalid MAC.                                           *)
(***************************************************************************)
EXTENDS HistoryRanges, PendingPackets, NaturalsLemmas, SequenceTheorems

--------------------------------------------------------------------------------
(* Pages.  A page holds as many of the newest events as its limit; one that is not *)
(* full is all there is.                                                          *)
Newer(S, e) == {x \in S : x[1] > e[1] \/ (x[1] = e[1] /\ x[2] > e[2])}

LEMMA NewerIsSmaller ==
    ASSUME NEW S, S \subseteq Int \X Int, IsFiniteSet(S), NEW e \in S, NEW y \in Newer(S, e)
    PROVE  /\ Newer(S, y) \subseteq Newer(S, e) /\ y \in S /\ y \notin Newer(S, y)
           /\ Cardinality(Newer(S, y)) < Cardinality(Newer(S, e))
<1>1. \A x \in S : x[1] \in Int /\ x[2] \in Int
  OBVIOUS
<1>2. Newer(S, y) \subseteq Newer(S, e) /\ y \in S /\ y \notin Newer(S, y)
  BY <1>1 DEF Newer
<1>3. IsFiniteSet(Newer(S, e)) /\ IsFiniteSet(Newer(S, y))
  BY FS_Subset DEF Newer
<1>4. Cardinality(Newer(S, y)) <= Cardinality(Newer(S, e)) /\ Cardinality(Newer(S, y)) # Cardinality(Newer(S, e))
  BY <1>2, <1>3, FS_Subset
<1> QED BY <1>2, <1>3, <1>4, FS_CardinalityType

LEMMA NewerIsTotal ==
    ASSUME NEW S, S \subseteq Int \X Int, NEW x \in S, NEW e \in S, x # e, x \notin Newer(S, e)
    PROVE  e \in Newer(S, x)
<1>1. /\ x[1] \in Int /\ x[2] \in Int /\ e[1] \in Int /\ e[2] \in Int
      /\ x = <<x[1], x[2]>> /\ e = <<e[1], e[2]>>
  OBVIOUS
<1> QED BY <1>1 DEF Newer

LEMMA NewestOnes ==
    ASSUME NEW S, S \subseteq Int \X Int, IsFiniteSet(S), NEW n \in Nat \ {0},
           NEW P, P = {e \in S : Cardinality(Newer(S, e)) < n}, P # S
    PROVE  Cardinality(P) = n
<1> DEFINE rank(e) == Cardinality(Newer(S, e))
<1>1. \A e \in S : rank(e) \in Nat /\ IsFiniteSet(Newer(S, e))
  BY FS_Subset, FS_CardinalityType DEF Newer
<1>2. PICK e1 \in S \ P : \A y \in S \ P : rank(e1) <= rank(y)
  <2> DEFINE ranks == {rank(e) : e \in S \ P}
  <2>1. ranks \subseteq Nat /\ ranks # {}
    BY <1>1
  <2>2. PICK x \in ranks : \A y \in ranks : x <= y
    BY <2>1, LeastNatural
  <2> QED BY <2>2
<1>3. Newer(S, e1) \subseteq P
  <2>1. ASSUME NEW y \in Newer(S, e1), y \notin P PROVE FALSE
    <3>1. y \in S /\ rank(y) < rank(e1)
      BY <1>2, NewerIsSmaller
    <3> QED BY <1>1, <1>2, <2>1, <3>1
  <2> QED BY <2>1
<1>4. P \subseteq Newer(S, e1)
  <2>1. ASSUME NEW x \in P, x \notin Newer(S, e1) PROVE FALSE
    <3>1. x # e1 /\ x \in S
      BY <1>2
    <3>2. e1 \in Newer(S, x)
      BY <2>1, <3>1, NewerIsTotal
    <3>3. rank(e1) < rank(x)
      BY <3>1, <3>2, NewerIsSmaller
    <3> QED BY <1>1, <1>2, <3>1, <3>3
  <2> QED BY <2>1
<1>5. P = Newer(S, e1) /\ Cardinality(P) >= n /\ IsFiniteSet(P) /\ Cardinality(P) \in Nat
  BY <1>1, <1>2, <1>3, <1>4
<1>6. P # {}
  BY <1>5, FS_EmptySet
<1>7. PICK e2 \in P : \A y \in P : rank(y) <= rank(e2)
  <2> DEFINE gaps == {n - rank(e) : e \in P}
  <2>1. gaps \subseteq Nat /\ gaps # {}
    BY <1>1, <1>6
  <2>2. PICK x \in gaps : \A y \in gaps : x <= y
    BY <2>1, LeastNatural
  <2>3. PICK e2 \in P : x = n - rank(e2)
    BY <2>2
  <2>4. \A y \in P : n - rank(e2) <= n - rank(y)
    BY <2>2, <2>3
  <2> QED BY <1>1, <2>4
<1>8. P \subseteq Newer(S, e2) \union {e2}
  <2>1. ASSUME NEW x \in P, x \notin Newer(S, e2), x # e2 PROVE FALSE
    <3>1. x # e2 /\ x \in S /\ e2 \in S
      BY <2>1
    <3>2. e2 \in Newer(S, x)
      BY <2>1, <3>1, NewerIsTotal
    <3>3. rank(e2) < rank(x)
      BY <3>1, <3>2, NewerIsSmaller
    <3> QED BY <1>1, <1>7, <3>1, <3>3
  <2> QED BY <2>1
<1>9. Cardinality(P) <= n
  <2> DEFINE N == Newer(S, e2)
  <2>1. IsFiniteSet(N) /\ Cardinality(N) \in Nat /\ Cardinality(N) < n
    BY <1>1
  <2> HIDE DEF N
  <2>2. IsFiniteSet(N \union {e2}) /\ Cardinality(N \union {e2}) <= Cardinality(N) + 1
    <3>1. IsFiniteSet(N \union {e2})
          /\ Cardinality(N \union {e2}) = IF e2 \in N THEN Cardinality(N) ELSE Cardinality(N) + 1
      BY <2>1, FS_AddElement
    <3> QED BY <2>1, <3>1
  <2>4. Cardinality(N \union {e2}) \in Nat
    BY <2>2, FS_CardinalityType
  <2>3. Cardinality(P) <= Cardinality(N \union {e2})
    BY <1>8, <2>2, FS_Subset DEF N
  <2> QED BY <1>5, <2>1, <2>2, <2>3, <2>4
<1> QED BY <1>5, <1>9

LEMMA PageIsAll ==
    ASSUME NEW r, NEW iv, plan.world[r] \subseteq Int \X Int, IsFiniteSet(plan.world[r]),
           iv.limit \in Nat \ {0}, ~Saturated(r, iv)
    PROVE  Page(r, iv) = At(r, Seconds(iv))
<1> DEFINE S == At(r, Seconds(iv))
<1>1. S \subseteq Int \X Int /\ IsFiniteSet(S)
  BY FS_Subset DEF At
<1>2. Page(r, iv) = {e \in S : Cardinality(Newer(S, e)) < iv.limit}
  BY DEF Page, Newer
<1>3. Cardinality(Page(r, iv)) # iv.limit
  BY DEF Saturated
<1> HIDE DEF S
<1>4. Page(r, iv) = S
  BY <1>1, <1>2, <1>3, NewestOnes
<1> QED BY <1>4 DEF S

--------------------------------------------------------------------------------
(* Intervals: they are the runs of the set, newest run on top of the stack, and so *)
(* hold its seconds and no others.                                                *)
LEMMA MinMaxOfTwo ==
    ASSUME NEW x \in Nat, NEW t \in Nat
    PROVE  Min({x, t}) = (IF x <= t THEN x ELSE t) /\ Max({x, t}) = (IF x <= t THEN t ELSE x)
<1>1. Min({x, t}) \in {x, t} /\ \A y \in {x, t} : Min({x, t}) <= y
  BY MinOfNaturals
<1>2. Max({x, t}) \in {x, t} /\ \A y \in {x, t} : y <= Max({x, t})
  <2>1. {x, t} \subseteq Nat /\ {x, t} # {} /\ x + t \in Nat /\ \A y \in {x, t} : y <= x + t
    OBVIOUS
  <2> QED BY <2>1, MaxOfNaturals
<1> QED BY <1>1, <1>2

Linked(S, x, t) == \A y \in Nat : (x <= y /\ y <= t) \/ (t <= y /\ y <= x) => y \in S

LEMMA RunOfIs ==
    ASSUME NEW S, S \subseteq Nat, NEW t \in S
    PROVE  RunOf(S, t) = {x \in S : Linked(S, x, t)}
<1>1. ASSUME NEW x \in S PROVE (\A y \in Min({x, t})..Max({x, t}) : y \in S) <=> Linked(S, x, t)
  <2>1. Min({x, t}) = (IF x <= t THEN x ELSE t) /\ Max({x, t}) = (IF x <= t THEN t ELSE x)
    BY MinMaxOfTwo
  <2>2. x \in Nat /\ t \in Nat
    OBVIOUS
  <2> QED BY <2>1, <2>2 DEF Linked
<1> QED BY <1>1 DEF RunOf

LEMMA RunFacts ==
    ASSUME NEW S, S \subseteq Nat, NEW run \in Runs(S), NEW n \in Nat, \A y \in S : y <= n
    PROVE  /\ run \subseteq S /\ run # {}
           /\ \A x \in run : run = RunOf(S, x)
           /\ Min(run) \in run /\ Max(run) \in run
           /\ Seconds(Interval(run)) = run /\ Min(run) <= Max(run)
<1>1. PICK t \in S : run = RunOf(S, t)
  BY DEF Runs
<1>2. run = {x \in S : Linked(S, x, t)}
  BY <1>1, RunOfIs
<1>3. run \subseteq S /\ t \in run
  BY <1>2 DEF Linked
<1>4. ASSUME NEW x \in run PROVE run = RunOf(S, x)
  <2>1. RunOf(S, x) = {y \in S : Linked(S, y, x)}
    BY <1>3, RunOfIs
  <2>2. x \in Nat /\ t \in Nat /\ Linked(S, x, t)
    BY <1>2, <1>3
  <2>3. ASSUME NEW y \in S PROVE Linked(S, y, x) <=> Linked(S, y, t)
    BY <2>2, y \in Nat DEF Linked
  <2> QED BY <1>2, <2>1, <2>3
<1>5. run \subseteq Nat /\ run # {} /\ \A x \in run : x <= n
  BY <1>3
<1>6. Min(run) \in run /\ \A y \in run : Min(run) <= y
  BY <1>5, MinOfNaturals
<1>7. Max(run) \in run /\ \A y \in run : y <= Max(run)
  BY <1>5, MaxOfNaturals
<1>8. ASSUME NEW y \in Min(run)..Max(run) PROVE y \in run
  <2>0. Min(run) \in Nat /\ Max(run) \in Nat
    BY <1>5, <1>6, <1>7
  <2>1. Min(run) \in Nat /\ Max(run) \in Nat /\ y \in Nat /\ Min(run) <= y /\ y <= Max(run)
    BY <2>0
  <2>2. Linked(S, Min(run), Max(run))
    <3>1. run = {x \in S : Linked(S, x, Max(run))}
      BY <1>3, <1>4, <1>7, RunOfIs
    <3> QED BY <1>6, <3>1
  <2>3. y \in S /\ Linked(S, y, Max(run))
    BY <2>1, <2>2 DEF Linked
  <2>4. run = {x \in S : Linked(S, x, Max(run))}
    BY <1>3, <1>4, <1>7, RunOfIs
  <2> QED BY <2>3, <2>4
<1>9. Interval(run).from = Min(run) /\ Interval(run).to = Max(run)
  BY DEF Interval
<1>10. Seconds(Interval(run)) = run
  <2>1. Min(run) \in Nat /\ Max(run) \in Nat
    BY <1>5, <1>6, <1>7
  <2>2. \A y \in run : y \in Nat /\ Min(run) <= y /\ y <= Max(run)
    BY <1>5, <1>6, <1>7
  <2>3. \A y \in run : y \in Min(run)..Max(run)
    BY <2>1, <2>2
  <2>4. Min(run)..Max(run) = run
    BY <1>8, <2>3
  <2> QED BY <1>9, <2>4 DEF Seconds
<1>11. Min(run) <= Max(run)
  BY <1>6, <1>7
<1> QED BY <1>3, <1>4, <1>5, <1>6, <1>7, <1>10, <1>11

LEMMA RunsDiffer ==
    ASSUME NEW S, S \subseteq Nat, NEW n \in Nat, \A y \in S : y <= n,
           NEW x \in Runs(S), NEW y \in Runs(S), Min(x) = Min(y)
    PROVE  x = y
<1>1. Min(x) \in x /\ \A t \in x : x = RunOf(S, t)
  BY RunFacts
<1>2. Min(y) \in y /\ \A t \in y : y = RunOf(S, t)
  BY RunFacts
<1> QED BY <1>1, <1>2

(* Where an interval may lie. *)
IntervalOK(iv) ==
    /\ iv = [f \in {"from", "to", "limit"} |-> iv[f]]
    /\ iv.from \in Span /\ iv.to \in Span /\ iv.from <= iv.to /\ iv.limit \in Nat \ {0}
StackOK(stack) == (\E S : stack \in Seq(S)) /\ \A i \in 1..Len(stack) : IntervalOK(stack[i])

LEMMA IntervalsOK ==
    ASSUME NEW S, S \subseteq Span
    PROVE  StackOK(Intervals(S)) /\ Left(Intervals(S)) = S
<1> DEFINE R == Runs(S)
           n == Cardinality(R)
           rank(run) == Cardinality({x \in R : Min(x) <= Min(run)})
           nth(i) == CHOOSE run \in R : rank(run) = i
<1>1. S \subseteq Nat /\ Newest \in Nat /\ \A y \in S : y <= Newest
  BY ConstantsAssumption DEF Span
<1>2. \A run \in R : /\ run \subseteq S /\ Min(run) \in run /\ Max(run) \in run /\ Min(run) <= Max(run)
                     /\ Seconds(Interval(run)) = run
  BY <1>1, RunFacts
<1>3. IsFiniteSet(R) /\ n \in Nat
  <2>1. IsFiniteSet(Span)
    BY ConstantsAssumption, FS_Interval DEF Span
  <2>2. IsFiniteSet(SUBSET S)
    BY <2>1, FS_Subset, FS_SUBSET
  <2>3. R \subseteq SUBSET S
    BY <1>2
  <2> QED BY <2>2, <2>3, FS_Subset, FS_CardinalityType
<1>4. \A run \in R : rank(run) \in 1..n
  <2> TAKE run \in R
  <2> DEFINE below == {x \in R : Min(x) <= Min(run)}
  <2>0. Min(run) \in Nat
    BY <1>1, <1>2
  <2>1. below \subseteq R /\ run \in below
    BY <2>0
  <2>2. IsFiniteSet(below) /\ Cardinality(below) \in Nat /\ Cardinality(below) <= n /\ Cardinality(below) # 0
    <3> HIDE DEF below
    <3> QED BY <1>3, <2>1, FS_Subset, FS_CardinalityType, FS_EmptySet
  <2> QED BY <1>3, <2>2
<1>5. ASSUME NEW x \in R, NEW y \in R, Min(x) < Min(y) PROVE rank(x) < rank(y)
  <2> DEFINE A == {z \in R : Min(z) <= Min(x)}
             B == {z \in R : Min(z) <= Min(y)}
  <2>0. \A z \in R : Min(z) \in Nat
    BY <1>1, <1>2
  <2>1. A \subseteq B /\ B \subseteq R /\ y \in B /\ y \notin A
    BY <1>5, <2>0
  <2>2. Cardinality(A) < Cardinality(B)
    <3> HIDE DEF A, B
    <3>1. IsFiniteSet(B) /\ IsFiniteSet(A) /\ A # B
      BY <1>3, <2>1, FS_Subset
    <3>2. Cardinality(A) <= Cardinality(B) /\ Cardinality(A) # Cardinality(B)
      BY <2>1, <3>1, FS_Subset
    <3> QED BY <3>1, <3>2, FS_CardinalityType
  <2> QED BY <2>2
<1>6. ASSUME NEW x \in R, NEW y \in R, rank(x) = rank(y) PROVE x = y
  <2>0. Min(x) \in Nat /\ Min(y) \in Nat
    BY <1>1, <1>2
  <2>1. Min(x) \in Nat /\ Min(y) \in Nat /\ rank(x) \in Nat /\ rank(y) \in Nat
    <3> HIDE DEF rank, n
    <3> QED BY <1>3, <1>4, <2>0
  <2>2. ~(Min(x) < Min(y)) /\ ~(Min(y) < Min(x))
    BY <1>5, <1>6, <2>1
  <2>3. Min(x) = Min(y)
    BY <2>1, <2>2
  <2> QED BY <1>1, <2>3, RunsDiffer
<1>7. \A i \in 1..n : \E run \in R : rank(run) = i
  <2> DEFINE f == [run \in R |-> rank(run)]
  <2>1. f \in Injection(R, 1..n)
    <3> HIDE DEF n
    <3>1. f \in [R -> 1..n]
      BY <1>4
    <3>2. \A x, y \in R : f[x] = f[y] => x = y
      BY <1>6
    <3> QED BY <3>1, <3>2 DEF Injection, IsInjective
  <2>2. IsFiniteSet(1..n) /\ Cardinality(1..n) = n
    BY <1>3, FS_Interval
  <2>3. f \in Surjection(R, 1..n)
    <3> HIDE DEF f
    <3> QED BY <1>3, <2>1, <2>2, FS_Injection
  <2>4. \A i \in 1..n : \E run \in R : f[run] = i
    BY <2>3 DEF Surjection
  <2> QED BY <2>4
<1>8. \A i \in 1..n : nth(i) \in R /\ rank(nth(i)) = i
  <2> TAKE i \in 1..n
  <2> HIDE DEF R, n, rank
  <2> QED BY <1>7
<1>9. Intervals(S) = [i \in 1..n |-> Interval(nth(i))]
  BY DEF Intervals
<1>10. \A run \in R : IntervalOK(Interval(run))
  <2> TAKE run \in R
  <2>1. Min(run) \in Span /\ Max(run) \in Span /\ Min(run) <= Max(run)
    BY <1>2
  <2> QED BY <2>1, ConstantsAssumption DEF IntervalOK, Interval
<1> HIDE DEF R, n, rank, nth
<1>11. StackOK(Intervals(S))
  <2>1. Intervals(S) \in Seq({Interval(run) : run \in R}) /\ Len(Intervals(S)) = n
    BY <1>3, <1>8, <1>9
  <2> QED BY <1>8, <1>9, <1>10, <2>1 DEF StackOK
<1>12. Left(Intervals(S)) = UNION {Seconds(Interval(nth(i))) : i \in 1..n}
  BY <1>9 DEF Left
<1>13. Left(Intervals(S)) \subseteq S
  BY <1>2, <1>8, <1>12
<1>14. ASSUME NEW t \in S PROVE t \in Left(Intervals(S))
  <2>1. RunOf(S, t) \in R
    BY DEF R, Runs
  <2>2. t \in RunOf(S, t)
    <3>1. t \in Nat /\ \A y \in Nat : (t <= y /\ y <= t) => y = t
      BY <1>1
    <3>2. Linked(S, t, t)
      BY <3>1 DEF Linked
    <3> QED BY <1>1, <3>2, RunOfIs
  <2>3. rank(RunOf(S, t)) \in 1..n
    BY <1>4, <2>1
  <2>4. nth(rank(RunOf(S, t))) = RunOf(S, t)
    BY <1>6, <1>8, <2>1, <2>3
  <2>5. Seconds(Interval(RunOf(S, t))) = RunOf(S, t)
    BY <1>2, <2>1
  <2> QED BY <1>12, <2>2, <2>3, <2>4, <2>5
<1> QED BY <1>11, <1>13, <1>14

--------------------------------------------------------------------------------
(* The stack of a read: an interval is taken off, put back with a larger limit, or *)
(* put back in halves; the seconds left are those of the rest and what was put.     *)
LEMMA LeftOfStack ==
    ASSUME NEW stack, StackOK(stack)
    PROVE  Left(stack) = UNION {Seconds(stack[i]) : i \in 1..Len(stack)}
BY DEF Left, StackOK

LEMMA PoppedOK ==
    ASSUME NEW f, StackOK(f.stack), f.stack # <<>>
    PROVE  /\ StackOK(Popped(f)) /\ IntervalOK(Top(f))
           /\ Left(f.stack) = Left(Popped(f)) \union Seconds(Top(f))
<1>1. PICK S : f.stack \in Seq(S)
  BY DEF StackOK
<1> DEFINE n == Len(f.stack)
<1>2. n \in Nat \ {0}
  BY <1>1
<1>3. /\ Popped(f) \in Seq(S) /\ Len(Popped(f)) = n - 1
      /\ \A i \in 1..(n - 1) : Popped(f)[i] = f.stack[i]
  BY <1>1, <1>2 DEF Popped
<1>4. StackOK(Popped(f))
  BY <1>2, <1>3 DEF StackOK
<1>5. IntervalOK(Top(f))
  BY <1>2 DEF Top, StackOK
<1>6. Left(f.stack) = UNION {Seconds(f.stack[i]) : i \in 1..n}
  BY LeftOfStack
<1>7. Left(Popped(f)) = UNION {Seconds(f.stack[i]) : i \in 1..(n - 1)}
  BY <1>2, <1>3, <1>4, LeftOfStack, SMTT(40)
<1>8. \A i \in 1..n : i \in 1..(n - 1) \/ i = n
  BY <1>2
<1>9. 1..(n - 1) \subseteq 1..n /\ n \in 1..n
  BY <1>2
<1> HIDE DEF n
<1>10. Top(f) = f.stack[n]
  BY DEF n, Top
<1>11. Left(f.stack) \subseteq Left(Popped(f)) \union Seconds(Top(f))
  BY <1>6, <1>7, <1>8, <1>10
<1>12. Left(Popped(f)) \subseteq Left(f.stack)
  BY <1>6, <1>7, <1>9
<1>13. Seconds(Top(f)) \subseteq Left(f.stack)
  BY <1>6, <1>9, <1>10
<1> QED BY <1>4, <1>5, <1>11, <1>12, <1>13

LEMMA AppendOK ==
    ASSUME NEW stack, StackOK(stack), NEW iv, IntervalOK(iv)
    PROVE  StackOK(Append(stack, iv)) /\ Left(Append(stack, iv)) = Left(stack) \union Seconds(iv)
<1>1. PICK S : stack \in Seq(S)
  BY DEF StackOK
<1> DEFINE n == Len(stack)
           t == Append(stack, iv)
<1>2. n \in Nat
  BY <1>1
<1>3. /\ t \in Seq(S \union {iv}) /\ Len(t) = n + 1 /\ t[n + 1] = iv
      /\ \A i \in 1..n : t[i] = stack[i]
  BY <1>1
<1>4. 1..(n + 1) = 1..n \union {n + 1}
  BY <1>2
<1> HIDE DEF n, t
<1>5. StackOK(t)
  BY <1>3, <1>4, n = Len(stack) DEF StackOK, n
<1>6. Left(t) = UNION {Seconds(t[i]) : i \in 1..(n + 1)}
  BY <1>3, <1>5, LeftOfStack
<1>7. Left(stack) = UNION {Seconds(stack[i]) : i \in 1..n}
  BY LeftOfStack DEF n
<1>8. Left(t) = Left(stack) \union Seconds(iv)
  BY <1>3, <1>4, <1>6, <1>7
<1> QED BY <1>5, <1>8 DEF t

LEMMA HalvesOK ==
    ASSUME NEW stack, StackOK(stack), NEW a, IntervalOK(a), NEW b, IntervalOK(b)
    PROVE  /\ StackOK(stack \o <<a, b>>)
           /\ Left(stack \o <<a, b>>) = Left(stack) \union Seconds(a) \union Seconds(b)
<1>1. PICK S : stack \in Seq(S)
  BY DEF StackOK
<1>2. stack \o <<a, b>> = Append(Append(stack, a), b)
  <2> DEFINE T == S \union {a, b}
  <2>1. stack \in Seq(T) /\ a \in T /\ b \in T
    BY <1>1
  <2> HIDE DEF T
  <2> QED BY <2>1
<1>3. StackOK(Append(stack, a)) /\ Left(Append(stack, a)) = Left(stack) \union Seconds(a)
  BY AppendOK
<1>4. /\ StackOK(Append(Append(stack, a), b))
      /\ Left(Append(Append(stack, a), b)) = Left(Append(stack, a)) \union Seconds(b)
  BY <1>3, AppendOK
<1> QED BY <1>2, <1>3, <1>4

--------------------------------------------------------------------------------
(* The invariant. *)
IsRecord(x, fields) == x = [f \in fields |-> x[f]]

WorldOK(w) == w \in [Relays -> SUBSET (Span \X Nat)] /\ \A r \in Relays : IsFiniteSet(w[r])

(* What r holds of the seconds S was taken in; an event of the second t was. *)
Reads(w, P, r, S) == \A e \in w[r] : e[1] \in S => e \in P
Known(P, t) == t = 0 \/ (t \in Span /\ \E e \in P : e[1] = t)

(* A relay's part of the record: no second is neither covered nor pending nor claimed. *)
RelayOK(w, P, claimed, r, s) ==
    /\ IsRecord(s, {"pending", "covered", "attempts", "dead", "eose", "some"})
    /\ s.pending \subseteq Span /\ s.attempts \in Nat
    /\ Reads(w, P, r, s.covered)
    /\ Span \subseteq s.covered \union s.pending \union claimed
    /\ s.eose => s.pending = {}

RecordOK(w, P, A, rec) ==
    /\ IsRecord(rec, {"covered", "claimed", "oldest", "anyEose", "anyEvents", "relays"})
    /\ rec.claimed \subseteq rec.covered /\ rec.claimed \subseteq A /\ rec.covered \subseteq Span
    /\ Known(P, rec.oldest)
    /\ DOMAIN rec.relays \subseteq Relays /\ IsRecord(rec.relays, DOMAIN rec.relays)
    /\ \A r \in DOMAIN rec.relays : RelayOK(w, P, rec.claimed, r, rec.relays[r])

(* What a read was asked for is read, on its stack, or reported as pending. *)
EntryOK(w, P, resume, x) ==
    /\ x.relay \in DOMAIN resume /\ x.covered \subseteq Span
    /\ Reads(w, P, x.relay, x.covered)
    /\ resume[x.relay] \subseteq x.covered \union x.pending

UnderWayOK(w, P, f) ==
    /\ f.on /\ f.relay \in DOMAIN f.resume /\ f.covered \subseteq Span
    /\ Reads(w, P, f.relay, f.covered)
    /\ StackOK(f.stack) /\ f.resume[f.relay] \subseteq f.covered \union Left(f.stack)

FetchOK(w, P, f) ==
    /\ IsRecord(f, {"on", "todo", "resume", "relay", "stack", "covered", "some", "oldest", "report", "broken", "stray"})
    /\ f.todo \subseteq DOMAIN f.resume /\ DOMAIN f.resume \subseteq Relays
    /\ \A r \in DOMAIN f.resume : f.resume[r] \subseteq Span
    /\ f.relay # "none" => UnderWayOK(w, P, f)
    /\ \A x \in f.report : EntryOK(w, P, f.resume, x)
    /\ Known(P, f.oldest)

PlanOK ==
    /\ IsRecord(plan, {"world", "fails", "windows", "aborts", "restarts", "changes", "asks", "seeders", "lasting"})
    /\ WorldOK(plan.world)

FetchesOK ==
    /\ fetches = [k \in Roles |-> fetches[k]]
    /\ \A k \in Roles : FetchOK(plan.world, processed, fetches[k])

(* The main pass reads what the relays still owe, and the record rests meanwhile. *)
MainOK ==
    fetches["main"].on =>
        /\ stage = "main"
        /\ \A r \in DOMAIN fetches["main"].resume :
               r \in DOMAIN record.relays /\ fetches["main"].resume[r] = record.relays[r].pending

LaneOK == stage = "lane" /\ hedges # <<>> => Head(hedges) \in DOMAIN record.relays

(* The attempts of a relay are passes it failed. *)
TryOK(s, t) ==
    /\ IsRecord(t, {"passes", "refused", "thrown"}) /\ t.passes \in Nat
    /\ s.attempts <= t.passes \/ Budget["allFailed"] <= t.passes
    /\ s.dead => t.refused \/ t.thrown \/ t.passes >= Budget["partial"]
TriesOK ==
    /\ tries = [r \in Relays |-> tries[r]]
    /\ \A r \in Relays : IsRecord(tries[r], {"passes", "refused", "thrown"}) /\ tries[r].passes \in Nat
    /\ DOMAIN record.relays \subseteq urls
    /\ \A r \in DOMAIN record.relays : TryOK(record.relays[r], tries[r])

EndOK == (stage \in {"final", "blocked"} => ~Active(record)) /\ CompleteIsAccounted

IInv ==
    /\ PlanOK /\ TypeOK
    /\ RecordOK(plan.world, processed, asked, record)
    /\ FetchesOK /\ MainOK /\ LaneOK /\ TriesOK /\ EndOK

--------------------------------------------------------------------------------
(* What holds goes on to hold as more is taken in and more is asked for. *)
LEMMA KnownGrows ==
    ASSUME NEW P, NEW Q, P \subseteq Q, NEW t, Known(P, t) PROVE Known(Q, t)
BY DEF Known

LEMMA RecordGrows ==
    ASSUME NEW w, NEW P, NEW Q, P \subseteq Q, NEW A, NEW B, A \subseteq B, NEW rec, RecordOK(w, P, A, rec)
    PROVE  RecordOK(w, Q, B, rec)
<1>1. \A r \in DOMAIN rec.relays : RelayOK(w, Q, rec.claimed, r, rec.relays[r])
  BY DEF RecordOK, RelayOK, Reads
<1> QED BY <1>1, KnownGrows DEF RecordOK

LEMMA FetchGrows ==
    ASSUME NEW w, NEW P, NEW Q, P \subseteq Q, NEW f, FetchOK(w, P, f)
    PROVE  FetchOK(w, Q, f)
<1>1. f.relay # "none" => UnderWayOK(w, Q, f)
  BY DEF FetchOK, UnderWayOK, Reads
<1>2. \A x \in f.report : EntryOK(w, Q, f.resume, x)
  BY DEF FetchOK, EntryOK, Reads
<1> QED BY <1>1, <1>2, KnownGrows DEF FetchOK

LEMMA NoFetchOK == ASSUME NEW w, NEW P PROVE FetchOK(w, P, NoFetch)
BY DEF FetchOK, NoFetch, IsRecord, Known

LEMMA FreshFetchOK ==
    ASSUME NEW w, NEW P, NEW D, D \subseteq Relays, NEW resume, resume = [r \in D |-> resume[r]],
           \A r \in D : resume[r] \subseteq Span
    PROVE  FetchOK(w, P, Fetch(resume)) /\ Fetch(resume).on /\ Fetch(resume).resume = resume
<1>1. DOMAIN resume = D
  OBVIOUS
<1> QED BY <1>1 DEF FetchOK, Fetch, NoFetch, IsRecord, Known

LEMMA OlderOK ==
    ASSUME NEW a \in Nat, NEW S, S \subseteq Nat
    PROVE  Older(a, S) = a \/ Older(a, S) \in S
<1>1. CASE S = {}
  BY <1>1 DEF Older
<1>2. CASE S # {} /\ a = 0
  BY <1>2, MinOfNaturals DEF Older
<1>3. CASE S # {} /\ a # 0
  <2>1. {a} \union S \subseteq Nat /\ {a} \union S # {}
    OBVIOUS
  <2>2. Min({a} \union S) \in {a} \union S
    BY <2>1, MinOfNaturals
  <2> QED BY <1>3, <2>2 DEF Older
<1> QED BY <1>1, <1>2, <1>3

LEMMA OlderKnown ==
    ASSUME NEW P, NEW a, Known(P, a), NEW S, S \subseteq Span, \A t \in S : Known(P, t)
    PROVE  Known(P, Older(a, S))
<1>1. a \in Nat /\ S \subseteq Nat
  BY ConstantsAssumption DEF Known, Span
<1> QED BY <1>1, OlderOK

--------------------------------------------------------------------------------
(* The steps of a read. *)
SameRead(f, g) == g = [f EXCEPT !.some = g.some, !.oldest = g.oldest]

LEMMA ProcessOK ==
    ASSUME NEW w, WorldOK(w), NEW P, NEW f, FetchOK(w, P, f), f.relay # "none",
           NEW events, events \subseteq w[f.relay], NEW Q, Q = P \union events
    PROVE  /\ FetchOK(w, Q, Process(f, events))
           /\ SameRead(f, Process(f, events))
<1>1. FetchOK(w, Q, f)
  BY FetchGrows
<1>2. f.relay \in Relays
  BY DEF FetchOK, UnderWayOK
<1>3. \A e \in events : e[1] \in Span /\ Known(Q, e[1])
  BY <1>2 DEF WorldOK, Known
<1>4. Known(Q, Older(f.oldest, {e[1] : e \in events}))
  BY <1>1, <1>3, OlderKnown DEF FetchOK
<1> DEFINE g == Process(f, events)
<1>5. /\ IsRecord(g, {"on", "todo", "resume", "relay", "stack", "covered", "some", "oldest", "report", "broken", "stray"})
      /\ g.on = f.on /\ g.todo = f.todo /\ g.resume = f.resume /\ g.relay = f.relay /\ g.stack = f.stack
      /\ g.covered = f.covered /\ g.report = f.report /\ g.oldest = Older(f.oldest, {e[1] : e \in events})
      /\ g = [f EXCEPT !.some = g.some, !.oldest = g.oldest]
  BY <1>1 DEF Process, FetchOK, IsRecord
<1> HIDE DEF g
<1>6. FetchOK(w, Q, g)
  BY <1>1, <1>4, <1>5 DEF FetchOK, UnderWayOK
<1> QED BY <1>5, <1>6 DEF g, SameRead

LEMMA ReportedOK ==
    ASSUME NEW w, NEW P, NEW f, FetchOK(w, P, f), f.relay # "none", NEW status, NEW refused
    PROVE  /\ FetchOK(w, P, Reported(f, status, refused))
           /\ Reported(f, status, refused).on = f.on /\ Reported(f, status, refused).resume = f.resume
<1> DEFINE x == [relay |-> f.relay, status |-> status, refused |-> refused, covered |-> f.covered,
                 pending |-> Left(f.stack), some |-> f.some]
           g == Reported(f, status, refused)
<1>1. EntryOK(w, P, f.resume, x)
  BY DEF FetchOK, UnderWayOK, EntryOK
<1>2. /\ IsRecord(g, {"on", "todo", "resume", "relay", "stack", "covered", "some", "oldest", "report", "broken", "stray"})
      /\ g.on = f.on /\ g.todo = f.todo /\ g.resume = f.resume /\ g.relay = "none" /\ g.report = f.report \union {x}
      /\ g.oldest = f.oldest
  BY DEF Reported, FetchOK, IsRecord
<1> HIDE DEF g, x
<1>3. FetchOK(w, P, g)
  BY <1>1, <1>2 DEF FetchOK
<1> QED BY <1>2, <1>3 DEF g

(* What is read of one relay is all of an interval when the interval is covered. *)
LEMMA CoveredOK ==
    ASSUME NEW P, NEW f, PlanOK, FetchOK(plan.world, P, f), f.relay # "none", f.stack # <<>>,
           ~Saturated(f.relay, Top(f)), NEW Q, P \union Page(f.relay, Top(f)) = Q, NEW g, FetchOK(plan.world, Q, g),
           SameRead(f, g)
    PROVE  FetchOK(plan.world, Q, [g EXCEPT !.stack = Popped(f), !.covered = @ \union Seconds(Top(f))])
<1> DEFINE h == [g EXCEPT !.stack = Popped(f), !.covered = @ \union Seconds(Top(f))]
<1>1. /\ StackOK(Popped(f)) /\ IntervalOK(Top(f)) /\ Left(f.stack) = Left(Popped(f)) \union Seconds(Top(f))
  BY PoppedOK DEF FetchOK, UnderWayOK
<1>2. /\ f.relay \in Relays /\ plan.world[f.relay] \subseteq Int \X Int /\ IsFiniteSet(plan.world[f.relay])
  <2>1. f.relay \in Relays
    BY DEF FetchOK, UnderWayOK
  <2>2. plan.world[f.relay] \subseteq Span \X Nat /\ IsFiniteSet(plan.world[f.relay])
    BY <2>1 DEF PlanOK, WorldOK
  <2>3. Span \X Nat \subseteq Int \X Int
    BY DEF Span
  <2> QED BY <2>1, <2>2, <2>3
<1>3. Page(f.relay, Top(f)) = At(f.relay, Seconds(Top(f)))
  BY <1>1, <1>2, PageIsAll DEF IntervalOK
<1>4. Reads(plan.world, Q, f.relay, Seconds(Top(f)))
  BY <1>3 DEF Reads, At
<1>5. Seconds(Top(f)) \subseteq Span
  BY <1>1, ConstantsAssumption DEF IntervalOK, Seconds, Span
<1>6. /\ g.on = f.on /\ g.todo = f.todo /\ g.resume = f.resume /\ g.relay = f.relay /\ g.covered = f.covered /\ g.report = f.report
  <2>1. IsRecord(f, {"on", "todo", "resume", "relay", "stack", "covered", "some", "oldest", "report", "broken", "stray"})
    BY DEF FetchOK
  <2> QED BY <2>1 DEF IsRecord, SameRead
<1>7. /\ IsRecord(h, {"on", "todo", "resume", "relay", "stack", "covered", "some", "oldest", "report", "broken", "stray"})
      /\ h.on = f.on /\ h.todo = f.todo /\ h.resume = f.resume /\ h.relay = f.relay /\ h.report = f.report
      /\ h.stack = Popped(f) /\ h.covered = f.covered \union Seconds(Top(f)) /\ h.oldest = g.oldest
  BY <1>6 DEF FetchOK, IsRecord
<1> HIDE DEF h
<1>8. UnderWayOK(plan.world, P, f)
  BY DEF FetchOK
<1>9. UnderWayOK(plan.world, Q, h)
  <2>1. Reads(plan.world, Q, f.relay, f.covered)
    BY <1>8 DEF UnderWayOK, Reads
  <2>2. Reads(plan.world, Q, h.relay, h.covered)
    BY <2>1, <1>4, <1>7 DEF Reads
  <2> QED BY <1>1, <1>5, <1>7, <1>8, <2>2 DEF UnderWayOK
<1>10. FetchOK(plan.world, Q, h)
  <2>1. \A x \in h.report : EntryOK(plan.world, Q, h.resume, x)
    BY <1>6, <1>7 DEF FetchOK
  <2>2. Known(Q, h.oldest)
    BY <1>7 DEF FetchOK
  <2> QED BY <1>7, <1>9, <2>1, <2>2 DEF FetchOK
<1> QED BY <1>10 DEF h

(* A stack with the same seconds left. *)
LEMMA RestackedOK ==
    ASSUME NEW w, NEW P, NEW f, FetchOK(w, P, f), f.relay # "none",
           NEW stack, StackOK(stack), Left(stack) = Left(f.stack)
    PROVE  FetchOK(w, P, [f EXCEPT !.stack = stack])
<1> DEFINE h == [f EXCEPT !.stack = stack]
<1>1. /\ IsRecord(h, {"on", "todo", "resume", "relay", "stack", "covered", "some", "oldest", "report", "broken", "stray"})
      /\ h.on = f.on /\ h.todo = f.todo /\ h.resume = f.resume /\ h.relay = f.relay /\ h.report = f.report
      /\ h.stack = stack /\ h.covered = f.covered /\ h.oldest = f.oldest
  BY DEF FetchOK, IsRecord
<1> HIDE DEF h
<1>2. FetchOK(w, P, h)
  BY <1>1 DEF FetchOK, UnderWayOK
<1> QED BY <1>2 DEF h


--------------------------------------------------------------------------------
(* What the record becomes. *)
RecordFields == {"covered", "claimed", "oldest", "anyEose", "anyEvents", "relays"}
RelayFields == {"pending", "covered", "attempts", "dead", "eose", "some"}

LEMMA NewRelayOK == ASSUME NEW w, NEW P, NEW claimed, NEW r PROVE RelayOK(w, P, claimed, r, NewRelay)
BY DEF RelayOK, NewRelay, IsRecord, Reads

LEMMA NewRecordOK == ASSUME NEW w, NEW P, NEW A PROVE RecordOK(w, P, A, NewRecord)
BY DEF RecordOK, NewRecord, IsRecord, Known

LEMMA ReconciledOK ==
    ASSUME NEW w, NEW P, NEW A, NEW rec, RecordOK(w, P, A, rec), urls \subseteq Relays
    PROVE  /\ RecordOK(w, P, A, Reconciled(rec)) /\ DOMAIN Reconciled(rec).relays = urls
           /\ Reconciled(rec).covered = rec.covered /\ Reconciled(rec).claimed = rec.claimed
           /\ \A r \in urls : Reconciled(rec).relays[r] = IF r \in DOMAIN rec.relays THEN rec.relays[r] ELSE NewRelay
<1> DEFINE g == Reconciled(rec)
<1>1. /\ IsRecord(g, RecordFields)
      /\ g.covered = rec.covered /\ g.claimed = rec.claimed /\ g.oldest = rec.oldest
      /\ g.relays = [r \in urls |-> IF r \in DOMAIN rec.relays THEN rec.relays[r] ELSE NewRelay]
  BY DEF Reconciled, RecordOK, IsRecord, RecordFields
<1> HIDE DEF g
<1>2. \A r \in urls : RelayOK(w, P, g.claimed, r, g.relays[r])
  BY <1>1, NewRelayOK DEF RecordOK
<1>3. RecordOK(w, P, A, g)
  BY <1>1, <1>2 DEF RecordOK, IsRecord, RecordFields
<1> QED BY <1>1, <1>3 DEF g

LEMMA UpdatedOK ==
    ASSUME NEW w, NEW P, NEW A, NEW rec, RecordOK(w, P, A, rec), NEW f, FetchOK(w, P, f), NEW main \in BOOLEAN,
           main => \A r \in DOMAIN f.resume : r \in DOMAIN rec.relays /\ f.resume[r] = rec.relays[r].pending
    PROVE  /\ RecordOK(w, P, A, Updated(rec, f, main))
           /\ DOMAIN Updated(rec, f, main).relays = DOMAIN rec.relays
           /\ Updated(rec, f, main).claimed = rec.claimed /\ rec.covered \subseteq Updated(rec, f, main).covered
           /\ \A r \in DOMAIN rec.relays : /\ Updated(rec, f, main).relays[r].dead = rec.relays[r].dead
                                           /\ Updated(rec, f, main).relays[r].attempts \in {0, rec.relays[r].attempts}
<1> DEFINE g == Updated(rec, f, main)
           entry(r) == CHOOSE x \in f.report : x.relay = r
           done(x) == main /\ x.status = "eose" /\ x.pending = {}
           after(r, x) == LET s == rec.relays[r] IN
                [s EXCEPT !.covered = @ \union x.covered, !.eose = done(x),
                          !.pending = IF done(x) THEN {} ELSE Span \ (s.covered \union x.covered \union rec.claimed),
                          !.some = @ \/ x.some, !.attempts = IF done(x) THEN 0 ELSE @]
           relays == [r \in DOMAIN rec.relays |-> IF \E x \in f.report : x.relay = r THEN after(r, entry(r)) ELSE rec.relays[r]]
<1>1. /\ IsRecord(g, RecordFields) /\ g.claimed = rec.claimed
      /\ g.covered = rec.covered \union UNION {x.covered : x \in f.report}
      /\ g.relays = relays
      /\ g.oldest = (IF f.oldest = 0 THEN rec.oldest ELSE Older(rec.oldest, {f.oldest}))
  <2> DEFINE ends == {x.relay : x \in {y \in f.report : y.status = "eose"}} \intersect DOMAIN relays
  <2>1. g = [rec EXCEPT !.covered = rec.covered \union UNION {x.covered : x \in f.report}, !.relays = relays,
                        !.oldest = IF f.oldest = 0 THEN @ ELSE Older(@, {f.oldest}),
                        !.anyEose = @ \/ ends # {}, !.anyEvents = @ \/ \E r \in ends : relays[r].some]
    BY Zenon DEF Updated
  <2> HIDE DEF g, relays, ends
  <2> QED BY <2>1 DEF RecordOK, IsRecord, RecordFields
<1>2. ASSUME NEW r \in DOMAIN rec.relays, NEW x \in f.report, x.relay = r
      PROVE  /\ RelayOK(w, P, rec.claimed, r, after(r, x)) /\ after(r, x).dead = rec.relays[r].dead
             /\ after(r, x).attempts \in {0, rec.relays[r].attempts}
  <2> DEFINE s == rec.relays[r]
             a == after(r, x)
  <2>1. RelayOK(w, P, rec.claimed, r, s)
    BY DEF RecordOK
  <2>2. EntryOK(w, P, f.resume, x)
    BY DEF FetchOK
  <2>3. /\ IsRecord(a, RelayFields) /\ a.covered = s.covered \union x.covered /\ a.eose = done(x) /\ a.dead = s.dead
        /\ a.pending = (IF done(x) THEN {} ELSE Span \ (s.covered \union x.covered \union rec.claimed))
        /\ a.attempts = (IF done(x) THEN 0 ELSE s.attempts)
    BY <2>1 DEF RelayOK, IsRecord, RelayFields
  <2>4. done(x) => s.pending \subseteq x.covered
    BY <1>2, <2>2 DEF EntryOK
  <2> HIDE DEF s, a, after, done
  <2>5. Reads(w, P, r, a.covered)
    BY <1>2, <2>1, <2>2, <2>3 DEF RelayOK, EntryOK, Reads
  <2>6. Span \subseteq a.covered \union a.pending \union rec.claimed
    BY <2>1, <2>3, <2>4 DEF RelayOK
  <2>7. a.pending \subseteq Span /\ a.attempts \in Nat /\ (a.eose => a.pending = {})
    BY <2>1, <2>3 DEF RelayOK
  <2>8. RelayOK(w, P, rec.claimed, r, a)
    BY <2>3, <2>5, <2>6, <2>7 DEF RelayOK, RelayFields
  <2>9. a.dead = s.dead /\ a.attempts \in {0, s.attempts}
    BY <2>3
  <2> QED BY <2>8, <2>9 DEF a, s
<1> HIDE DEF after
<1>3. ASSUME NEW r \in DOMAIN rec.relays
      PROVE  /\ RelayOK(w, P, rec.claimed, r, relays[r]) /\ relays[r].dead = rec.relays[r].dead
             /\ relays[r].attempts \in {0, rec.relays[r].attempts}
  <2>1. CASE \E x \in f.report : x.relay = r
    <3>1. entry(r) \in f.report /\ entry(r).relay = r
      BY <2>1
    <3>2. relays[r] = after(r, entry(r))
      BY <2>1
    <3> HIDE DEF entry, relays
    <3> QED BY <1>2, <3>1, <3>2
  <2>2. CASE ~ \E x \in f.report : x.relay = r
    <3>1. relays[r] = rec.relays[r]
      BY <2>2
    <3> QED BY <3>1 DEF RecordOK
  <2> QED BY <2>1, <2>2
<1>4. DOMAIN relays = DOMAIN rec.relays /\ IsRecord(relays, DOMAIN rec.relays)
  BY DEF IsRecord
<1>5. Known(P, g.oldest)
  <2>1. Known(P, rec.oldest) /\ Known(P, f.oldest)
    BY DEF RecordOK, FetchOK
  <2>2. f.oldest # 0 => {f.oldest} \subseteq Span
    BY <2>1 DEF Known
  <2>3. f.oldest # 0 => Known(P, Older(rec.oldest, {f.oldest}))
    BY <2>1, <2>2, OlderKnown
  <2> QED BY <1>1, <2>1, <2>3
<1>6. g.covered \subseteq Span /\ g.claimed \subseteq g.covered /\ g.claimed \subseteq A
  <2>1. \A x \in f.report : x.covered \subseteq Span
    BY DEF FetchOK, EntryOK
  <2> QED BY <1>1, <2>1 DEF RecordOK
<1> HIDE DEF g, relays
<1>7. RecordOK(w, P, A, g)
  BY <1>1, <1>3, <1>4, <1>5, <1>6 DEF RecordOK, RecordFields
<1>8. rec.covered \subseteq g.covered
  BY <1>1
<1> QED BY <1>1, <1>3, <1>4, <1>7, <1>8 DEF g

(* What the failure of a pass makes of the relays. *)
Retried(rec, f, g) ==
    \A r \in DOMAIN rec.relays :
        IF r \in Readable(rec)
        THEN /\ g.relays[r].attempts = rec.relays[r].attempts + 1
             /\ g.relays[r].dead => \/ rec.relays[r].attempts + 1 >= Budget[Tier(rec)]
                                   \/ \E x \in f.report : x.relay = r /\ x.refused
        ELSE g.relays[r] = rec.relays[r]

LEMMA BudgetedOK ==
    ASSUME NEW w, NEW P, NEW A, NEW rec, RecordOK(w, P, A, rec), NEW f
    PROVE  /\ RecordOK(w, P, A, Budgeted(rec, f))
           /\ DOMAIN Budgeted(rec, f).relays = DOMAIN rec.relays
           /\ Budgeted(rec, f).covered = rec.covered /\ Budgeted(rec, f).claimed = rec.claimed
           /\ Retried(rec, f, Budgeted(rec, f))
<1> DEFINE g == Budgeted(rec, f)
           again(r) == LET n == rec.relays[r].attempts + 1 IN
               [rec.relays[r] EXCEPT !.attempts = n,
                          !.dead = n >= Budget[Tier(rec)] \/ \E x \in f.report : x.relay = r /\ x.refused]
           relays == [r \in DOMAIN rec.relays |-> IF r \notin Readable(rec) THEN rec.relays[r] ELSE again(r)]
<1>1. /\ IsRecord(g, RecordFields) /\ g.claimed = rec.claimed /\ g.covered = rec.covered /\ g.oldest = rec.oldest
      /\ g.relays = relays
  BY DEF Budgeted, RecordOK, IsRecord, RecordFields
<1>2. ASSUME NEW r \in DOMAIN rec.relays
      PROVE  /\ RelayOK(w, P, rec.claimed, r, again(r)) /\ again(r).attempts = rec.relays[r].attempts + 1
             /\ again(r).dead => \/ rec.relays[r].attempts + 1 >= Budget[Tier(rec)]
                                 \/ \E x \in f.report : x.relay = r /\ x.refused
  <2>1. RelayOK(w, P, rec.claimed, r, rec.relays[r])
    BY DEF RecordOK
  <2>2. /\ IsRecord(again(r), RelayFields)
        /\ again(r).covered = rec.relays[r].covered /\ again(r).pending = rec.relays[r].pending
        /\ again(r).eose = rec.relays[r].eose /\ again(r).attempts = rec.relays[r].attempts + 1
        /\ again(r).dead <=> (\/ rec.relays[r].attempts + 1 >= Budget[Tier(rec)]
                              \/ \E x \in f.report : x.relay = r /\ x.refused)
    BY <2>1 DEF RelayOK, IsRecord, RelayFields
  <2> HIDE DEF again
  <2> QED BY <2>1, <2>2 DEF RelayOK, RelayFields
<1> HIDE DEF again
<1>3. \A r \in DOMAIN rec.relays : relays[r] = IF r \notin Readable(rec) THEN rec.relays[r] ELSE again(r)
  OBVIOUS
<1>4. DOMAIN relays = DOMAIN rec.relays /\ IsRecord(relays, DOMAIN rec.relays)
  BY DEF IsRecord
<1> HIDE DEF g, relays
<1>5. \A r \in DOMAIN rec.relays : RelayOK(w, P, rec.claimed, r, relays[r])
  BY <1>2, <1>3 DEF RecordOK
<1>6. RecordOK(w, P, A, g)
  BY <1>1, <1>4, <1>5 DEF RecordOK, RecordFields
<1>7. Retried(rec, f, g)
  BY <1>1, <1>2, <1>3 DEF Retried
<1> QED BY <1>1, <1>4, <1>6, <1>7 DEF g

LEMMA ClaimedOK ==
    ASSUME NEW w, NEW P, NEW A, NEW rec, RecordOK(w, P, A, rec), NEW S, S \subseteq Span
    PROVE  /\ RecordOK(w, P, A \union S, Claimed(rec, S))
           /\ DOMAIN Claimed(rec, S).relays = DOMAIN rec.relays
           /\ \A r \in DOMAIN rec.relays : /\ Claimed(rec, S).relays[r].dead = rec.relays[r].dead
                                           /\ Claimed(rec, S).relays[r].attempts = rec.relays[r].attempts
<1> DEFINE g == Claimed(rec, S)
           claim(x) == IF x.eose THEN x ELSE [x EXCEPT !.pending = Span \ (x.covered \union rec.claimed \union S)]
           relays == [r \in DOMAIN rec.relays |-> claim(rec.relays[r])]
<1>1. /\ IsRecord(g, RecordFields) /\ g.claimed = rec.claimed \union S /\ g.covered = rec.covered \union S
      /\ g.oldest = rec.oldest /\ g.relays = relays
  BY DEF Claimed, RecordOK, IsRecord, RecordFields
<1>2. ASSUME NEW r \in DOMAIN rec.relays
      PROVE  /\ RelayOK(w, P, rec.claimed \union S, r, claim(rec.relays[r]))
             /\ claim(rec.relays[r]).dead = rec.relays[r].dead /\ claim(rec.relays[r]).attempts = rec.relays[r].attempts
  <2> DEFINE s == rec.relays[r]
             c == claim(s)
  <2>1. RelayOK(w, P, rec.claimed, r, s)
    BY DEF RecordOK
  <2>2. CASE s.eose
    BY <2>1, <2>2 DEF RelayOK
  <2>3. CASE ~s.eose
    <3>1. /\ IsRecord(c, RelayFields) /\ c.covered = s.covered /\ c.eose = s.eose /\ c.dead = s.dead
          /\ c.pending = Span \ (s.covered \union rec.claimed \union S) /\ c.attempts = s.attempts
      BY <2>1, <2>3 DEF RelayOK, IsRecord, RelayFields
    <3> HIDE DEF c
    <3>2. RelayOK(w, P, rec.claimed \union S, r, c)
      <4>1. Reads(w, P, r, c.covered)
        BY <2>1, <3>1 DEF RelayOK
      <4>2. Span \subseteq c.covered \union c.pending \union (rec.claimed \union S)
        BY <3>1
      <4>3. c.pending \subseteq Span /\ c.attempts \in Nat /\ ~c.eose
        BY <2>1, <2>3, <3>1 DEF RelayOK
      <4> QED BY <3>1, <4>1, <4>2, <4>3 DEF RelayOK, RelayFields
    <3>3. c = claim(rec.relays[r])
      BY DEF c
    <3> QED BY <3>1, <3>2, <3>3
  <2> QED BY <2>2, <2>3
<1> HIDE DEF claim
<1>3. \A r \in DOMAIN rec.relays : relays[r] = claim(rec.relays[r])
  OBVIOUS
<1>4. DOMAIN relays = DOMAIN rec.relays /\ IsRecord(relays, DOMAIN rec.relays)
  BY DEF IsRecord
<1> HIDE DEF g, relays
<1>5. \A r \in DOMAIN rec.relays : RelayOK(w, P, g.claimed, r, relays[r])
  BY <1>1, <1>2, <1>3
<1>6. RecordOK(w, P, A \union S, g)
  BY <1>1, <1>4, <1>5 DEF RecordOK, RecordFields
<1> QED BY <1>1, <1>2, <1>3, <1>4, <1>6 DEF g


--------------------------------------------------------------------------------
(* The steps that only reads take. *)
FetchFields == {"on", "todo", "resume", "relay", "stack", "covered", "some", "oldest", "report", "broken", "stray"}

LEMMA AccountGrows ==
    ASSUME CompleteIsAccounted, UNCHANGED <<record, stage>>, plan'.world = plan.world,
           processed \subseteq processed', asked \subseteq asked'
    PROVE  CompleteIsAccounted'
<1> SUFFICES ASSUME Complete' PROVE /\ \A r \in DOMAIN record.relays : ~record.relays[r].dead =>
                                           \A e \in plan.world[r] : e \in processed' \/ e[1] \in asked'
                                    /\ \A s \in Span : (\A e \in processed' : e[1] > s) => s \in asked'
  BY DEF CompleteIsAccounted
<1> QED BY DEF CompleteIsAccounted, Complete

LEMMA FetchStep ==
    ASSUME IInv, PlanOK', plan'.world = plan.world, UNCHANGED <<urls, record, stage, window, wanted, asked, tries>>,
           processed \subseteq processed', hedges' \in {hedges, <<>>}, fetches' = [k \in Roles |-> fetches'[k]],
           \A k \in Roles : FetchOK(plan.world, processed', fetches'[k]),
           fetches'["main"].on => fetches["main"].on /\ fetches'["main"].resume = fetches["main"].resume
    PROVE  IInv'
<1>1. TypeOK' /\ TriesOK' /\ LaneOK'
  BY DEF IInv, TypeOK, TriesOK, LaneOK, TryOK
<1>2. RecordOK(plan.world, processed, asked, record)'
  <2>1. RecordOK(plan.world, processed', asked, record)
    BY RecordGrows DEF IInv
  <2> QED BY <2>1
<1>3. FetchesOK'
  BY DEF FetchesOK
<1>4. MainOK'
  BY DEF IInv, MainOK
<1>5. EndOK'
  <2>1. CompleteIsAccounted'
    BY AccountGrows DEF IInv, EndOK
  <2> QED BY <2>1 DEF IInv, EndOK, Active, Readable
<1> QED BY <1>1, <1>2, <1>3, <1>4, <1>5 DEF IInv

LEMMA OneFetch ==
    ASSUME IInv, PlanOK', plan'.world = plan.world, UNCHANGED <<urls, record, stage, window, wanted, asked, tries, hedges>>,
           processed \subseteq processed', NEW k \in Roles, NEW g, fetches' = [fetches EXCEPT ![k] = g],
           FetchOK(plan.world, processed', g),
           g.on => fetches[k].on /\ g.resume = fetches[k].resume
    PROVE  IInv'
<1>1. fetches = [j \in Roles |-> fetches[j]] /\ \A j \in Roles : FetchOK(plan.world, processed, fetches[j])
  BY DEF IInv, FetchesOK
<1>2. fetches' = [j \in Roles |-> fetches'[j]] /\ fetches'[k] = g /\ \A j \in Roles : j # k => fetches'[j] = fetches[j]
  BY <1>1
<1>3. \A j \in Roles : FetchOK(plan.world, processed', fetches'[j])
  BY <1>1, <1>2, FetchGrows
<1>4. fetches'["main"].on => fetches["main"].on /\ fetches'["main"].resume = fetches["main"].resume
  BY <1>2 DEF Roles
<1> QED BY <1>2, <1>3, <1>4, FetchStep

LEMMA NextRelayKeeps == ASSUME IInv, NEW k \in Roles, NextRelay(k) PROVE IInv'
<1> DEFINE f == fetches[k]
<1>1. FetchOK(plan.world, processed, f) /\ f.relay = "none" /\ f.on
  BY DEF IInv, FetchesOK, NextRelay
<1> DEFINE next(r) == [f EXCEPT !.relay = r, !.todo = @ \ {r}, !.stack = Intervals(f.resume[r]), !.covered = {}, !.some = FALSE]
<1>2. PICK r \in f.todo : fetches' = [fetches EXCEPT ![k] = next(r)]
  BY DEF NextRelay
<1> DEFINE g == next(r)
<1>3. fetches' = [fetches EXCEPT ![k] = g]
  BY <1>2
<1>4. r \in DOMAIN f.resume /\ f.resume[r] \subseteq Span
  BY <1>1 DEF FetchOK
<1>5. StackOK(Intervals(f.resume[r])) /\ Left(Intervals(f.resume[r])) = f.resume[r]
  BY <1>4, IntervalsOK
<1>6. /\ IsRecord(g, FetchFields) /\ g.on = f.on /\ g.todo = f.todo \ {r} /\ g.resume = f.resume /\ g.relay = r
      /\ g.stack = Intervals(f.resume[r]) /\ g.covered = {} /\ g.report = f.report /\ g.oldest = f.oldest
  BY <1>1 DEF FetchOK, IsRecord, FetchFields
<1> HIDE DEF g, f
<1>7. FetchOK(plan.world, processed, g)
  <2>1. UnderWayOK(plan.world, processed, g)
    BY <1>1, <1>4, <1>5, <1>6 DEF UnderWayOK, Reads
  <2> QED BY <1>1, <1>6, <2>1 DEF FetchOK, FetchFields
<1>8. PlanOK' /\ plan'.world = plan.world /\ UNCHANGED <<urls, record, stage, window, wanted, asked, tries, hedges, processed>>
  BY DEF NextRelay, IInv, PlanOK
<1>9. g.on => fetches[k].on /\ g.resume = fetches[k].resume
  BY <1>6 DEF f
<1> QED BY <1>3, <1>7, <1>8, <1>9, OneFetch

LEMMA RelayReadKeeps == ASSUME IInv, NEW k \in Roles, RelayRead(k) PROVE IInv'
<1> DEFINE g == Reported(fetches[k], "eose", FALSE)
<1>1. FetchOK(plan.world, processed, fetches[k]) /\ fetches[k].relay # "none"
  BY DEF IInv, FetchesOK, RelayRead
<1>2. FetchOK(plan.world, processed, g) /\ g.on = fetches[k].on /\ g.resume = fetches[k].resume
  <2> DEFINE h == fetches[k] F == FALSE
  <2> HIDE DEF h, F
  <2>2. F \in BOOLEAN
    BY DEF F
  <2>3. FetchOK(plan.world, processed, h) /\ h.relay # "none"
    BY <1>1 DEF h
  <2>4. LET x == Reported(h, "eose", F) IN FetchOK(plan.world, processed, x) /\ x.on = h.on /\ x.resume = h.resume
    BY <2>2, <2>3, ReportedOK
  <2> QED BY <2>4 DEF h, F
<1>3. fetches' = [fetches EXCEPT ![k] = g]
  BY DEF RelayRead, IInv, FetchesOK
<1>4. PlanOK' /\ plan'.world = plan.world /\ UNCHANGED <<urls, record, stage, window, wanted, asked, tries, hedges, processed>>
  BY DEF RelayRead, IInv, PlanOK
<1> HIDE DEF g
<1> QED BY <1>2, <1>3, <1>4, OneFetch

(* What a page holds is on the relay. *)
LEMMA PageIsThere ==
    ASSUME NEW r, NEW iv PROVE Page(r, iv) \subseteq plan.world[r]
BY DEF Page, At

LEMMA PageReadKeeps == ASSUME IInv, NEW k \in Roles, PageRead(k) PROVE IInv'
<1> DEFINE f == fetches[k]
           iv == Top(f)
           mid == (iv.from + iv.to) \div 2
           page == Page(f.relay, iv)
<1>1. /\ FetchOK(plan.world, processed, f) /\ f.relay # "none" /\ f.stack # <<>>
      /\ fetches = [j \in Roles |-> fetches[j]] /\ WorldOK(plan.world)
  BY DEF IInv, FetchesOK, PageRead, PlanOK
<1>2. PlanOK' /\ plan'.world = plan.world /\ UNCHANGED <<urls, record, stage, window, wanted, asked, tries, hedges>>
  BY DEF PageRead, IInv, PlanOK
<1>3. /\ StackOK(Popped(f)) /\ IntervalOK(iv) /\ Left(f.stack) = Left(Popped(f)) \union Seconds(iv)
  BY <1>1, PoppedOK DEF FetchOK, UnderWayOK
<1>4. IsRecord(f, FetchFields)
  BY <1>1 DEF FetchOK, FetchFields
<1>5. page \subseteq plan.world[f.relay]
  BY PageIsThere
<1>6. CASE /\ ~Saturated(f.relay, iv)
           /\ fetches' = [fetches EXCEPT ![k] = [Process(f, page) EXCEPT !.stack = Popped(f), !.covered = @ \union Seconds(iv)]]
           /\ processed' = processed \union page
  <2> DEFINE p == Process(f, page)
             g == [p EXCEPT !.stack = Popped(f), !.covered = @ \union Seconds(iv)]
  <2>1. FetchOK(plan.world, processed', p) /\ SameRead(f, p)
    <3> HIDE DEF f, page
    <3> QED BY <1>1, <1>5, <1>6, ProcessOK
  <2>2. FetchOK(plan.world, processed', g)
    <3> HIDE DEF p
    <3> QED BY <1>1, <1>6, <2>1, CoveredOK DEF IInv
  <2>3. g.on = f.on /\ g.resume = f.resume
    <3> HIDE DEF p
    <3>1. p.on = f.on /\ p.resume = f.resume /\ IsRecord(p, FetchFields)
      BY <1>4, <2>1 DEF IsRecord, FetchFields, SameRead
    <3> QED BY <3>1 DEF IsRecord, FetchFields
  <2>4. fetches' = [fetches EXCEPT ![k] = g] /\ processed \subseteq processed'
    BY <1>6
  <2> HIDE DEF g
  <2> QED BY <1>2, <2>2, <2>3, <2>4, OneFetch DEF f
<1>7. ASSUME NEW stack, StackOK(stack), Left(stack) = Left(f.stack), fetches' = [fetches EXCEPT ![k].stack = stack],
             processed' = processed
      PROVE  IInv'
  <2> DEFINE g == [f EXCEPT !.stack = stack]
  <2>1. FetchOK(plan.world, processed', g)
    BY <1>1, <1>7, RestackedOK
  <2>2. g.on = f.on /\ g.resume = f.resume
    BY <1>4 DEF IsRecord, FetchFields
  <2>3. fetches' = [fetches EXCEPT ![k] = g]
    BY <1>1, <1>7
  <2> HIDE DEF g
  <2> QED BY <1>2, <1>7, <2>1, <2>2, <2>3, OneFetch DEF f
<1>8. CASE /\ Saturated(f.relay, iv) /\ iv.from < iv.to
           /\ fetches' = [fetches EXCEPT ![k].stack = Popped(f) \o
                             <<[iv EXCEPT !.from = mid + 1, !.limit = PageSize], [iv EXCEPT !.to = mid, !.limit = PageSize]>>]
           /\ processed' = processed
  <2> DEFINE a == [iv EXCEPT !.from = mid + 1, !.limit = PageSize]
             b == [iv EXCEPT !.to = mid, !.limit = PageSize]
  <2>1. iv.from \in Nat /\ iv.to \in Nat /\ 1 <= iv.from /\ iv.to <= Newest /\ Newest \in Nat /\ PageSize \in Nat \ {0}
    BY <1>3, ConstantsAssumption DEF IntervalOK, Span
  <2>2. mid \in Nat /\ iv.from <= mid /\ mid < iv.to
    <3> HIDE DEF iv
    <3> QED BY <1>8, <2>1
  <2>3. /\ a = [x \in {"from", "to", "limit"} |-> a[x]] /\ a.from = mid + 1 /\ a.to = iv.to /\ a.limit = PageSize
        /\ b = [x \in {"from", "to", "limit"} |-> b[x]] /\ b.from = iv.from /\ b.to = mid /\ b.limit = PageSize
    <3> HIDE DEF iv, mid
    <3> QED BY <1>3 DEF IntervalOK
  <2>4. fetches' = [fetches EXCEPT ![k].stack = Popped(f) \o <<a, b>>]
    BY <1>8
  <2> HIDE DEF a, b, mid, iv
  <2>5. IntervalOK(a) /\ IntervalOK(b)
    BY <2>1, <2>2, <2>3 DEF IntervalOK, Span
  <2>6. Seconds(a) \union Seconds(b) = Seconds(iv)
    BY <2>1, <2>2, <2>3 DEF Seconds
  <2>7. StackOK(Popped(f) \o <<a, b>>) /\ Left(Popped(f) \o <<a, b>>) = Left(Popped(f)) \union Seconds(a) \union Seconds(b)
    BY <1>3, <2>5, HalvesOK
  <2>8. Left(Popped(f) \o <<a, b>>) = Left(f.stack)
    BY <1>3, <2>6, <2>7
  <2> QED BY <1>7, <1>8, <2>4, <2>7, <2>8
<1>9. CASE /\ Saturated(f.relay, iv) /\ iv.from = iv.to /\ iv.limit < MaxPage
           /\ fetches' = [fetches EXCEPT ![k].stack = Append(Popped(f), [iv EXCEPT !.limit = @ * 2])]
           /\ processed' = processed
  <2> DEFINE a == [iv EXCEPT !.limit = @ * 2]
  <2>1. a = [x \in {"from", "to", "limit"} |-> a[x]] /\ a.from = iv.from /\ a.to = iv.to /\ a.limit = iv.limit * 2
    <3> HIDE DEF iv
    <3> QED BY <1>3 DEF IntervalOK
  <2>2. fetches' = [fetches EXCEPT ![k].stack = Append(Popped(f), a)]
    BY <1>9
  <2> HIDE DEF a, iv
  <2>3. IntervalOK(a) /\ Seconds(a) = Seconds(iv)
    <3>1. iv.limit * 2 \in Nat \ {0}
      BY <1>3 DEF IntervalOK
    <3> QED BY <1>3, <2>1, <3>1 DEF IntervalOK, Seconds
  <2>4. StackOK(Append(Popped(f), a)) /\ Left(Append(Popped(f), a)) = Left(Popped(f)) \union Seconds(a)
    BY <1>3, <2>3, AppendOK
  <2>5. Left(Append(Popped(f), a)) = Left(f.stack)
    BY <1>3, <2>3, <2>4
  <2> QED BY <1>7, <1>9, <2>2, <2>4, <2>5
<1>10. CASE /\ fetches' = [fetches EXCEPT ![k] = Reported(Process(f, page), "error", TRUE)]
            /\ processed' = processed \union page
  <2> DEFINE p == Process(f, page)
             g == Reported(p, "error", TRUE)
  <2>1. FetchOK(plan.world, processed', p) /\ SameRead(f, p)
    <3> HIDE DEF f, page
    <3> QED BY <1>1, <1>5, <1>10, ProcessOK
  <2>2. fetches' = [fetches EXCEPT ![k] = g] /\ processed \subseteq processed'
    BY <1>10
  <2> HIDE DEF p
  <2>3. p.on = f.on /\ p.resume = f.resume /\ p.relay = f.relay
    BY <1>4, <2>1 DEF IsRecord, FetchFields, SameRead
  <2>4. FetchOK(plan.world, processed', g) /\ g.on = f.on /\ g.resume = f.resume
    <3> DEFINE T == TRUE
    <3> HIDE DEF T, f
    <3>1. T \in BOOLEAN
      BY DEF T
    <3>2. LET x == Reported(p, "error", T) IN FetchOK(plan.world, processed', x) /\ x.on = p.on /\ x.resume = p.resume
      BY <1>1, <2>1, <2>3, <3>1, ReportedOK
    <3> QED BY <2>3, <3>2 DEF T
  <2> HIDE DEF g
  <2> QED BY <1>2, <2>2, <2>4, OneFetch DEF f
<1> QED BY <1>6, <1>8, <1>9, <1>10 DEF PageRead

LEMMA PageFailsKeeps == ASSUME IInv, NEW k \in Roles, PageFails(k) PROVE IInv'
<1> DEFINE f == fetches[k]
<1>1. /\ FetchOK(plan.world, processed, f) /\ f.relay # "none"
      /\ fetches = [j \in Roles |-> fetches[j]] /\ WorldOK(plan.world)
  BY DEF IInv, FetchesOK, PageFails, PlanOK
<1>2. PlanOK' /\ plan'.world = plan.world /\ UNCHANGED <<urls, record, stage, window, wanted, asked, tries, hedges>>
  BY DEF PageFails, IInv, PlanOK, IsRecord
<1>3. PICK part \in {{}, Page(f.relay, Top(f))}, refused \in {FALSE, plan.lasting} :
          /\ fetches' = [fetches EXCEPT ![k] = Reported(Process(f, part), "error", refused)]
          /\ processed' = processed \union part
  BY <1>1 DEF PageFails
<1>4. part \subseteq plan.world[f.relay]
  BY PageIsThere
<1>5. IsRecord(f, FetchFields)
  BY <1>1 DEF FetchOK, FetchFields
<1> DEFINE p == Process(f, part)
           g == Reported(p, "error", refused)
<1>6. FetchOK(plan.world, processed', p) /\ SameRead(f, p)
  <2> HIDE DEF f
  <2> QED BY <1>1, <1>3, <1>4, ProcessOK
<1>7. fetches' = [fetches EXCEPT ![k] = g] /\ processed \subseteq processed'
  BY <1>3
<1> HIDE DEF p
<1>8. p.on = f.on /\ p.resume = f.resume /\ p.relay = f.relay
  BY <1>5, <1>6 DEF IsRecord, FetchFields, SameRead
<1>9. FetchOK(plan.world, processed', g) /\ g.on = f.on /\ g.resume = f.resume
  BY <1>1, <1>6, <1>8, ReportedOK
<1> HIDE DEF g
<1> QED BY <1>2, <1>7, <1>9, OneFetch DEF f


LEMMA FirstThrewKeeps == ASSUME IInv, FirstThrew \/ StrayEnds PROVE IInv'
<1>1. fetches' = [fetches EXCEPT !["first"] = NoFetch]
  BY DEF FirstThrew, StrayEnds
<1>2. PlanOK' /\ plan'.world = plan.world /\ UNCHANGED <<urls, record, stage, window, wanted, asked, tries, hedges, processed>>
  BY DEF FirstThrew, StrayEnds, IInv, PlanOK
<1>3. FetchOK(plan.world, processed', NoFetch) /\ ~NoFetch.on
  BY NoFetchOK DEF NoFetch
<1>4. "first" \in Roles
  BY DEF Roles
<1> QED BY <1>1, <1>2, <1>3, <1>4, OneFetch

LEMMA BrokenOK ==
    ASSUME NEW w, NEW P, NEW f, FetchOK(w, P, f), NEW broken, NEW g, g = [f EXCEPT !.broken = broken]
    PROVE  FetchOK(w, P, g) /\ g.on = f.on /\ g.resume = f.resume
<1>1. /\ IsRecord(g, FetchFields) /\ g.on = f.on /\ g.todo = f.todo /\ g.resume = f.resume /\ g.relay = f.relay
      /\ g.stack = f.stack /\ g.covered = f.covered /\ g.report = f.report /\ g.oldest = f.oldest
  BY DEF FetchOK, IsRecord, FetchFields
<1> QED BY <1>1 DEF FetchOK, UnderWayOK, FetchFields

LEMMA StrayOK ==
    ASSUME NEW w, NEW P, NEW f, FetchOK(w, P, f), NEW stray, NEW g, g = [f EXCEPT !.stray = stray]
    PROVE  FetchOK(w, P, g) /\ g.on = f.on /\ g.resume = f.resume
<1>1. /\ IsRecord(g, FetchFields) /\ g.on = f.on /\ g.todo = f.todo /\ g.resume = f.resume /\ g.relay = f.relay
      /\ g.stack = f.stack /\ g.covered = f.covered /\ g.report = f.report /\ g.oldest = f.oldest
  BY DEF FetchOK, IsRecord, FetchFields
<1> QED BY <1>1 DEF FetchOK, UnderWayOK, FetchFields

LEMMA InterruptedKeeps == ASSUME IInv, Interrupted PROVE IInv'
<1>1. PlanOK' /\ plan'.world = plan.world /\ UNCHANGED <<urls, record, stage, window, wanted, asked, tries, hedges, processed>>
  BY DEF Interrupted, IInv, PlanOK, IsRecord
<1>2. \A k \in Roles : FetchOK(plan.world, processed, fetches[k])
  BY DEF IInv, FetchesOK
<1>3. fetches' = [k \in Roles |-> IF fetches[k].on /\ fetches[k].broken = "no" THEN [fetches[k] EXCEPT !.broken = "aborted"]
                                  ELSE fetches[k]]
  BY DEF Interrupted
<1>4. ASSUME NEW k \in Roles
      PROVE  FetchOK(plan.world, processed', fetches'[k]) /\ fetches'[k].on = fetches[k].on
             /\ fetches'[k].resume = fetches[k].resume
  <2>1. fetches'[k] \in {[fetches[k] EXCEPT !.broken = "aborted"], fetches[k]}
    BY <1>3
  <2>2. FetchOK(plan.world, processed, fetches[k])
    BY <1>2
  <2> DEFINE f == fetches[k] g == fetches'[k]
  <2> HIDE DEF f, g
  <2>3. CASE g = [f EXCEPT !.broken = "aborted"]
    <3>1. FetchOK(plan.world, processed, g) /\ g.on = f.on /\ g.resume = f.resume
      BY <2>2, <2>3, BrokenOK DEF f
    <3> QED BY <1>1, <3>1 DEF f, g
  <2>4. CASE g = f
    BY <1>1, <2>2, <2>4 DEF f, g
  <2> QED BY <2>1, <2>3, <2>4 DEF f, g
<1>5. fetches' = [k \in Roles |-> fetches'[k]] /\ "main" \in Roles
  BY <1>3 DEF Roles
<1> QED BY <1>1, <1>4, <1>5, FetchStep

LEMMA ProcessFailsKeeps == ASSUME IInv, NEW k \in Roles, ProcessFails(k) PROVE IInv'
<1> DEFINE f == fetches[k]
<1>1. FetchOK(plan.world, processed, f) /\ fetches = [j \in Roles |-> fetches[j]]
  BY DEF IInv, FetchesOK
<1>2. PlanOK' /\ plan'.world = plan.world /\ UNCHANGED <<urls, record, stage, window, wanted, asked, tries, hedges>>
  BY DEF ProcessFails, IInv, PlanOK, IsRecord
<1>3. PICK broken \in {"failed", "invalid"} : fetches' = [fetches EXCEPT ![k].broken = broken]
  BY DEF ProcessFails
<1>4. processed \subseteq processed'
  BY DEF ProcessFails
<1> DEFINE g == [f EXCEPT !.broken = broken]
<1>5. fetches' = [fetches EXCEPT ![k] = g]
  BY <1>1, <1>3
<1>6. FetchOK(plan.world, processed', f)
  <2> HIDE DEF f
  <2> QED BY <1>1, <1>4, FetchGrows
<1>7. FetchOK(plan.world, processed', g) /\ g.on = f.on /\ g.resume = f.resume
  <2> HIDE DEF f
  <2> QED BY <1>6, BrokenOK
<1> HIDE DEF g
<1> QED BY <1>2, <1>4, <1>5, <1>7, OneFetch DEF f

LEMMA HedgeKeeps == ASSUME IInv, Hedge PROVE IInv'
<1> DEFINE resume == [x \in {Head(hedges)} |-> record.relays[x].pending \intersect wanted]
           g == Fetch(resume)
<1>1. Head(hedges) \in DOMAIN record.relays /\ hedges' = <<>>
  BY DEF Hedge, IInv, LaneOK
<1>2. Head(hedges) \in Relays /\ record.relays[Head(hedges)].pending \subseteq Span
  BY <1>1 DEF IInv, RecordOK, RelayOK
<1>3. FetchOK(plan.world, processed, g)
  <2>1. {Head(hedges)} \subseteq Relays /\ resume = [x \in {Head(hedges)} |-> resume[x]]
        /\ \A r \in {Head(hedges)} : resume[r] \subseteq Span
    BY <1>2
  <2> DEFINE D == {Head(hedges)}
  <2> HIDE DEF resume, D
  <2>2. D \subseteq Relays /\ resume = [x \in D |-> resume[x]] /\ \A r \in D : resume[r] \subseteq Span
    BY <2>1 DEF D
  <2> QED BY <2>2, FreshFetchOK
<1>4. PlanOK' /\ plan'.world = plan.world /\ UNCHANGED <<urls, record, stage, window, wanted, asked, tries, processed>>
  BY DEF Hedge, IInv, PlanOK
<1>5. \A k \in Roles : FetchOK(plan.world, processed, fetches[k])
  BY DEF IInv, FetchesOK
<1>6. fetches' = [fetches EXCEPT !["second"] = g, !["first"] = IF Threw(@) THEN NoFetch ELSE @]
  BY DEF Hedge
<1> HIDE DEF g
<1>7. /\ fetches' = [k \in Roles |-> fetches'[k]] /\ fetches'["second"] = g /\ fetches'["main"] = fetches["main"]
      /\ fetches'["first"] \in {NoFetch, fetches["first"]}
  BY <1>6 DEF IInv, FetchesOK, Roles
<1>8. FetchOK(plan.world, processed, NoFetch)
  BY NoFetchOK
<1>9. \A k \in Roles : FetchOK(plan.world, processed', fetches'[k])
  BY <1>3, <1>4, <1>5, <1>7, <1>8 DEF Roles
<1> QED BY <1>1, <1>4, <1>7, <1>9, FetchStep


--------------------------------------------------------------------------------
(* The steps of the pass. *)

(* Reads that go on, end, or are left to themselves. *)
LEMMA FetchesEnd ==
    ASSUME FetchesOK, plan'.world = plan.world, processed' = processed, fetches' = [k \in Roles |-> fetches'[k]],
           \A k \in Roles : \/ fetches'[k] = fetches[k]
                            \/ FetchOK(plan.world, processed, fetches'[k])
    PROVE  FetchesOK'
<1>1. \A k \in Roles : FetchOK(plan.world, processed, fetches'[k])
  BY DEF FetchesOK
<1> QED BY <1>1 DEF FetchesOK

LEMMA PassStartsKeeps == ASSUME IInv, PassStarts PROVE IInv'
<1> DEFINE rec == Reconciled(record)
           want == window \ rec.covered
           useful == {r \in Readable(rec) : rec.relays[r].pending \intersect want # {}}
<1>1. /\ stage = "idle" /\ record' = rec
      /\ UNCHANGED <<plan, urls, window, processed, asked, tries>>
      /\ \/ stage' = "main" /\ UNCHANGED <<wanted, fetches, hedges>>
         \/ stage' = "ask" /\ wanted' = want /\ UNCHANGED <<fetches, hedges>>
         \/ \E r \in useful : \E q \in {<<>>} \union {<<x>> : x \in useful \ {r}} :
               /\ stage' = "lane" /\ wanted' = want /\ hedges' = q
               /\ fetches' = [fetches EXCEPT !["first"] = IF fetches["first"].on THEN @ ELSE
                                [Fetch([x \in {r} |-> rec.relays[r].pending \intersect want]) EXCEPT !.stray = FALSE]]
  BY DEF PassStarts
<1>2. /\ RecordOK(plan.world, processed, asked, rec) /\ DOMAIN rec.relays = urls
      /\ rec.covered = record.covered /\ rec.claimed = record.claimed
      /\ \A r \in urls : rec.relays[r] = IF r \in DOMAIN record.relays THEN record.relays[r] ELSE NewRelay
  <2>1. urls \subseteq Relays /\ RecordOK(plan.world, processed, asked, record)
    BY DEF IInv, TypeOK
  <2> QED BY <2>1, ReconciledOK, SMTT(40)
<1>3. window \subseteq Span /\ wanted \subseteq Span /\ urls \subseteq Relays
  BY DEF IInv, TypeOK
<1> HIDE DEF rec
<1>4. PlanOK' /\ RecordOK(plan.world, processed, asked, record)'
  BY <1>1, <1>2 DEF IInv, PlanOK
<1>5. TypeOK'
  <2>1. want \subseteq Span
    BY <1>3
  <2>2. stage' \in {"main", "ask", "lane"} /\ wanted' \subseteq Span
    BY <1>1, <1>3, <2>1
  <2> QED BY <1>1, <1>2, <2>2 DEF IInv, TypeOK, RecordOK
<1>6. TriesOK'
  <2>1. \A r \in urls : TryOK(rec.relays[r], tries[r])
    <3> TAKE r \in urls
    <3>1. CASE r \in DOMAIN record.relays
      BY <1>2, <3>1 DEF IInv, TriesOK
    <3>2. CASE r \notin DOMAIN record.relays
      <4>1. rec.relays[r] = NewRelay
        BY <1>2, <3>2
      <4>2. IsRecord(tries[r], {"passes", "refused", "thrown"}) /\ tries[r].passes \in Nat
        BY <1>3 DEF IInv, TriesOK
      <4> QED BY <4>1, <4>2 DEF TryOK, NewRelay
    <3> QED BY <3>1, <3>2
  <2> QED BY <1>1, <1>2, <2>1 DEF IInv, TriesOK
<1>7. stage' \in {"main", "ask", "lane"}
  BY <1>1
<1>8. EndOK'
  BY <1>7 DEF EndOK, CompleteIsAccounted, Complete
<1>9. FetchesOK' /\ fetches'["main"] = fetches["main"]
  <2>1. CASE UNCHANGED fetches
    BY <1>1, <2>1 DEF IInv, FetchesOK
  <2>2. ASSUME NEW r \in useful,
               fetches' = [fetches EXCEPT !["first"] = IF fetches["first"].on THEN @ ELSE
                                [Fetch([x \in {r} |-> rec.relays[r].pending \intersect want]) EXCEPT !.stray = FALSE]]
        PROVE  FetchesOK' /\ fetches'["main"] = fetches["main"]
    <3> DEFINE resume == [x \in {r} |-> rec.relays[r].pending \intersect want]
               F == Fetch(resume)
               g == [F EXCEPT !.stray = FALSE]
               D == {r}
    <3>1. r \in Relays /\ rec.relays[r].pending \subseteq Span
      BY <1>2, <1>3 DEF RecordOK, RelayOK, Readable
    <3>2. D \subseteq Relays /\ resume = [x \in D |-> resume[x]] /\ \A x \in D : resume[x] \subseteq Span
      BY <3>1
    <3>3. FetchOK(plan.world, processed, F)
      <4> HIDE DEF resume, D
      <4> QED BY <3>2, FreshFetchOK
    <3>4. FetchOK(plan.world, processed, g)
      <4> HIDE DEF F
      <4> QED BY <3>3, StrayOK
    <3>5. fetches' = [fetches EXCEPT !["first"] = IF fetches["first"].on THEN @ ELSE g]
      BY <2>2
    <3> HIDE DEF g
    <3>6. fetches = [k \in Roles |-> fetches[k]] /\ "first" \in Roles /\ "main" \in Roles
      BY DEF IInv, FetchesOK, Roles
    <3>7. /\ fetches' = [k \in Roles |-> fetches'[k]] /\ \A k \in Roles : k # "first" => fetches'[k] = fetches[k]
          /\ fetches'["first"] \in {fetches["first"], g}
      BY <3>5, <3>6
    <3>8. FetchesOK'
      BY <1>1, <3>4, <3>7, FetchesEnd DEF IInv
    <3> QED BY <3>6, <3>7, <3>8
  <2> QED BY <1>1, <2>1, <2>2
<1>10. MainOK'
  BY <1>1, <1>9 DEF IInv, MainOK
<1>11. LaneOK'
  <2>1. stage' = "lane" => hedges' = <<>> \/ \E x \in useful : hedges' = <<x>>
    BY <1>1
  <2>2. useful \subseteq DOMAIN rec.relays
    BY DEF Readable
  <2> HIDE DEF useful
  <2> QED BY <1>1, <2>1, <2>2 DEF LaneOK
<1> QED BY <1>4, <1>5, <1>6, <1>8, <1>9, <1>10, <1>11 DEF IInv

(* A step that ends reads, and changes at most the stage and the lane's wishes. *)
LEMMA StageStep ==
    ASSUME IInv, PlanOK', plan'.world = plan.world, UNCHANGED <<urls, record, processed, tries>>,
           asked \subseteq asked', asked' \subseteq Span, window' \subseteq Span, wanted' \subseteq Span,
           stage' \in {"idle", "ask", "main", "final", "pending"} \/ UNCHANGED <<stage, hedges>>,
           stage' = "final" => stage = "final" \/ ~Active(record),
           FetchesOK', MainOK'
    PROVE  IInv'
<1>1. RecordOK(plan.world, processed, asked, record)'
  <2>1. RecordOK(plan.world, processed, asked', record)
    BY RecordGrows DEF IInv
  <2> QED BY <2>1
<1>2. TypeOK' /\ TriesOK'
  BY DEF IInv, TypeOK, TriesOK, TryOK
<1>3. LaneOK'
  BY DEF IInv, LaneOK
<1>4. EndOK'
  <2>1. stage' \in {"final", "blocked"} => ~Active(record')
    BY DEF IInv, EndOK
  <2>2. CASE UNCHANGED stage
    <3>1. CompleteIsAccounted'
      BY <2>2, AccountGrows DEF IInv, EndOK
    <3> QED BY <2>1, <3>1 DEF EndOK
  <2>3. CASE stage' \in {"idle", "ask", "main", "final", "pending"}
    BY <2>1, <2>3 DEF EndOK, CompleteIsAccounted, Complete
  <2> QED BY <2>2, <2>3
<1> QED BY <1>1, <1>2, <1>3, <1>4 DEF IInv

LEMMA LaneLostKeeps == ASSUME IInv, LaneLost PROVE IInv'
<1> DEFINE g == [fetches["first"] EXCEPT !.stray = fetches["first"].on]
<1>1. /\ stage = "lane" /\ stage' = "ask" /\ PlanOK' /\ plan'.world = plan.world
      /\ UNCHANGED <<urls, record, window, wanted, asked, processed, tries>>
  BY DEF LaneLost, IInv, PlanOK
<1>2. FetchOK(plan.world, processed, g)
  <2>1. FetchOK(plan.world, processed, fetches["first"])
    BY DEF IInv, FetchesOK, Roles
  <2> QED BY <2>1, StrayOK
<1>3. fetches' = [fetches EXCEPT !["second"] = NoFetch, !["first"] = IF Threw(fetches["first"]) THEN NoFetch ELSE g]
  BY DEF LaneLost
<1> HIDE DEF g
<1>4. /\ fetches' = [k \in Roles |-> fetches'[k]] /\ fetches'["second"] = NoFetch /\ fetches'["main"] = fetches["main"]
      /\ fetches'["first"] \in {NoFetch, g}
  BY <1>3 DEF IInv, FetchesOK, Roles
<1>5. FetchesOK'
  <2>1. FetchOK(plan.world, processed, NoFetch)
    BY NoFetchOK
  <2>2. \A k \in Roles : fetches'[k] = fetches[k] \/ FetchOK(plan.world, processed, fetches'[k])
    BY <1>2, <1>4, <2>1 DEF Roles
  <2> QED BY <1>1, <1>4, <2>2, FetchesEnd DEF IInv
<1>6. MainOK'
  BY <1>1, <1>4 DEF IInv, MainOK
<1>7. window' \subseteq Span /\ wanted' \subseteq Span /\ asked' \subseteq Span
  BY <1>1 DEF IInv, TypeOK
<1> QED BY <1>1, <1>5, <1>6, <1>7, StageStep

LEMMA LaneWonKeeps == ASSUME IInv, NEW k \in Roles, LaneWon(k) PROVE IInv'
<1>1. /\ stage = "lane" /\ stage' = "ask" /\ PlanOK' /\ plan'.world = plan.world /\ hedges' = <<>>
      /\ UNCHANGED <<plan, urls, window, wanted, asked, processed, tries>>
      /\ record' = Updated(record, fetches[k], FALSE)
  BY DEF LaneWon, IInv, PlanOK
<1>2. /\ RecordOK(plan.world, processed, asked, record') /\ DOMAIN record'.relays = DOMAIN record.relays
      /\ \A r \in DOMAIN record.relays : /\ record'.relays[r].dead = record.relays[r].dead
                                         /\ record'.relays[r].attempts \in {0, record.relays[r].attempts}
  <2> DEFINE f == fetches[k] F == FALSE
  <2>1. FetchOK(plan.world, processed, f) /\ RecordOK(plan.world, processed, asked, record) /\ F \in BOOLEAN /\ ~F
    BY DEF IInv, FetchesOK
  <2>2. record' = Updated(record, f, F)
    BY <1>1
  <2> HIDE DEF f, F
  <2> QED BY <2>1, <2>2, UpdatedOK
<1>3. fetches' = [fetches EXCEPT !["first"] = NoFetch, !["second"] = NoFetch]
  BY DEF LaneWon
<1>4. /\ fetches' = [j \in Roles |-> fetches'[j]] /\ fetches'["second"] = NoFetch /\ fetches'["main"] = fetches["main"]
      /\ fetches'["first"] = NoFetch
  BY <1>3 DEF IInv, FetchesOK, Roles
<1>5. FetchesOK'
  <2>1. FetchOK(plan.world, processed, NoFetch)
    BY NoFetchOK
  <2>2. \A j \in Roles : fetches'[j] = fetches[j] \/ FetchOK(plan.world, processed, fetches'[j])
    BY <1>4, <2>1 DEF Roles
  <2> QED BY <1>1, <1>4, <2>2, FetchesEnd DEF IInv
<1>6. MainOK'
  BY <1>1, <1>4 DEF IInv, MainOK
<1>7. TypeOK'
  BY <1>1, <1>2 DEF IInv, TypeOK, RecordOK
<1>8. TriesOK'
  <2>1. \A r \in DOMAIN record.relays : TryOK(record'.relays[r], tries[r])
    <3> TAKE r \in DOMAIN record.relays
    <3>1. TryOK(record.relays[r], tries[r])
      BY DEF IInv, TriesOK
    <3> QED BY <1>2, <3>1 DEF TryOK
  <2> QED BY <1>1, <1>2, <2>1 DEF IInv, TriesOK
<1>9. LaneOK' /\ EndOK'
  BY <1>1 DEF LaneOK, EndOK, CompleteIsAccounted, Complete
<1> QED BY <1>1, <1>2, <1>5, <1>6, <1>7, <1>8, <1>9 DEF IInv


(* The seconds of some runs of a set. *)
LEMMA RunsWithin ==
    ASSUME NEW S, S \subseteq Span, NEW some \in SUBSET Runs(S)
    PROVE  UNION some \subseteq Span
BY DEF Runs, RunOf

LEMMA LaneAsksKeeps == ASSUME IInv, LaneAsks PROVE IInv'
<1> DEFINE missing == wanted \ record.covered
<1>1. PICK claim \in {{}} \union SUBSET Runs(missing) :
          /\ record' = Claimed(record, UNION claim)
          /\ asked' = asked \union UNION claim
          /\ window' = IF window \subseteq record'.covered THEN {} ELSE window
  BY DEF LaneAsks
<1>2. /\ stage = "ask" /\ stage' = "main" /\ wanted' = {} /\ PlanOK' /\ plan'.world = plan.world
      /\ UNCHANGED <<plan, urls, fetches, hedges, processed, tries>>
  BY DEF LaneAsks, IInv, PlanOK
<1>3. wanted \subseteq Span /\ window \subseteq Span /\ asked \subseteq Span /\ urls \subseteq Relays
  BY DEF IInv, TypeOK
<1>4. UNION claim \subseteq Span
  <2>1. missing \subseteq Span
    BY <1>3
  <2> HIDE DEF missing
  <2> QED BY <2>1, RunsWithin
<1> DEFINE S == UNION claim
<1>5. /\ RecordOK(plan.world, processed, asked \union S, record') /\ DOMAIN record'.relays = DOMAIN record.relays
      /\ \A r \in DOMAIN record.relays : /\ record'.relays[r].dead = record.relays[r].dead
                                         /\ record'.relays[r].attempts = record.relays[r].attempts
  <2>1. RecordOK(plan.world, processed, asked, record) /\ S \subseteq Span /\ record' = Claimed(record, S)
    BY <1>1, <1>4 DEF IInv
  <2> HIDE DEF S
  <2> QED BY <2>1, ClaimedOK
<1>6. RecordOK(plan.world, processed, asked, record)'
  BY <1>1, <1>2, <1>5
<1>7. TypeOK'
  BY <1>1, <1>2, <1>3, <1>4, <1>5 DEF TypeOK, RecordOK
<1>8. TriesOK'
  <2>1. \A r \in DOMAIN record.relays : TryOK(record'.relays[r], tries[r])
    <3> TAKE r \in DOMAIN record.relays
    <3>1. TryOK(record.relays[r], tries[r])
      BY DEF IInv, TriesOK
    <3> QED BY <1>5, <3>1 DEF TryOK
  <2> QED BY <1>2, <1>5, <2>1 DEF IInv, TriesOK
<1>9. MainOK' /\ LaneOK' /\ EndOK' /\ FetchesOK'
  <2>1. ~fetches["main"].on
    BY <1>2 DEF IInv, MainOK
  <2>2. MainOK' /\ LaneOK' /\ EndOK'
    BY <1>2, <2>1 DEF MainOK, LaneOK, EndOK, CompleteIsAccounted, Complete
  <2>3. FetchesOK'
    BY <1>2 DEF IInv, FetchesOK
  <2> QED BY <2>2, <2>3
<1> QED BY <1>2, <1>6, <1>7, <1>8, <1>9 DEF IInv

LEMMA MainStartsKeeps == ASSUME IInv, MainStarts PROVE IInv'
<1>1. /\ stage = "main" /\ PlanOK' /\ plan'.world = plan.world /\ ~fetches["main"].on
      /\ UNCHANGED <<plan, urls, record, window, wanted, hedges, processed, asked, tries>>
  BY DEF MainStarts, IInv, PlanOK
<1>2. window' \subseteq Span /\ wanted' \subseteq Span /\ asked' \subseteq Span
  BY <1>1 DEF IInv, TypeOK
<1>3. CASE Active(record)
  <2> DEFINE D == Readable(record)
             resume == [r \in D |-> record.relays[r].pending]
             g == Fetch(resume)
  <2>1. D \subseteq Relays /\ D \subseteq DOMAIN record.relays /\ \A r \in D : resume[r] \subseteq Span
    BY DEF Readable, IInv, RecordOK, RelayOK
  <2>2. FetchOK(plan.world, processed, g) /\ g.resume = resume
    <3>1. resume = [r \in D |-> resume[r]]
      OBVIOUS
    <3> HIDE DEF D, resume
    <3> QED BY <2>1, <3>1, FreshFetchOK
  <2>3. stage' = "main" /\ fetches' = [fetches EXCEPT !["main"] = g]
    BY <1>3 DEF MainStarts
  <2>4. DOMAIN resume = D /\ \A r \in D : resume[r] = record.relays[r].pending
    OBVIOUS
  <2> HIDE DEF g, resume, D
  <2>5. fetches = [k \in Roles |-> fetches[k]] /\ "main" \in Roles
    BY DEF IInv, FetchesOK, Roles
  <2>6. /\ fetches' = [k \in Roles |-> fetches'[k]] /\ fetches'["main"] = g
        /\ \A k \in Roles : k # "main" => fetches'[k] = fetches[k]
    BY <2>3, <2>5
  <2>7. FetchesOK'
    BY <1>1, <2>2, <2>6, FetchesEnd DEF IInv
  <2>8. MainOK'
    BY <1>1, <2>1, <2>2, <2>3, <2>4, <2>6 DEF MainOK
  <2> QED BY <1>1, <1>2, <2>3, <2>7, <2>8, StageStep
<1>4. CASE ~Active(record)
  <2>1. stage' = "final" /\ UNCHANGED fetches
    BY <1>4 DEF MainStarts
  <2>2. FetchesOK' /\ MainOK'
    BY <1>1, <2>1 DEF IInv, FetchesOK, MainOK
  <2> QED BY <1>1, <1>2, <1>4, <2>1, <2>2, StageStep
<1> QED BY <1>3, <1>4

(* A pass that a permanent failure ends gives up every relay of the record. *)
LEMMA GivenUpOK ==
    ASSUME NEW w, NEW P, NEW A, NEW rec, RecordOK(w, P, A, rec), NEW g,
           g = [rec EXCEPT !.relays = [r \in DOMAIN @ |-> [@[r] EXCEPT !.dead = TRUE]]]
    PROVE  /\ RecordOK(w, P, A, g) /\ DOMAIN g.relays = DOMAIN rec.relays
           /\ \A r \in DOMAIN rec.relays : g.relays[r].attempts = rec.relays[r].attempts
<1> DEFINE gone(r) == [rec.relays[r] EXCEPT !.dead = TRUE]
           relays == [r \in DOMAIN rec.relays |-> gone(r)]
<1>1. /\ IsRecord(g, RecordFields) /\ g.claimed = rec.claimed /\ g.covered = rec.covered /\ g.oldest = rec.oldest
      /\ g.relays = relays
  BY DEF RecordOK, IsRecord, RecordFields
<1>2. ASSUME NEW r \in DOMAIN rec.relays
      PROVE  RelayOK(w, P, rec.claimed, r, gone(r)) /\ gone(r).attempts = rec.relays[r].attempts
  <2>1. RelayOK(w, P, rec.claimed, r, rec.relays[r])
    BY DEF RecordOK
  <2>2. /\ IsRecord(gone(r), RelayFields)
        /\ gone(r).covered = rec.relays[r].covered /\ gone(r).pending = rec.relays[r].pending
        /\ gone(r).eose = rec.relays[r].eose /\ gone(r).attempts = rec.relays[r].attempts
    BY <2>1 DEF RelayOK, IsRecord, RelayFields
  <2> HIDE DEF gone
  <2> QED BY <2>1, <2>2 DEF RelayOK, RelayFields
<1> HIDE DEF gone
<1>3. \A r \in DOMAIN rec.relays : relays[r] = gone(r)
  OBVIOUS
<1>4. DOMAIN relays = DOMAIN rec.relays /\ IsRecord(relays, DOMAIN rec.relays)
  BY DEF IsRecord
<1> HIDE DEF relays
<1>5. \A r \in DOMAIN rec.relays : RelayOK(w, P, rec.claimed, r, relays[r])
  BY <1>2, <1>3
<1>6. RecordOK(w, P, A, g)
  BY <1>1, <1>4, <1>5 DEF RecordOK, RecordFields
<1> QED BY <1>1, <1>2, <1>3, <1>4, <1>6

LEMMA MainThrewKeeps == ASSUME IInv, MainThrew PROVE IInv'
<1>1. /\ PlanOK' /\ plan'.world = plan.world /\ fetches' = [fetches EXCEPT !["main"] = NoFetch]
      /\ UNCHANGED <<plan, urls, window, wanted, hedges, processed, asked>>
  BY DEF MainThrew, IInv, PlanOK
<1>2. window' \subseteq Span /\ wanted' \subseteq Span /\ asked' \subseteq Span
  BY <1>1 DEF IInv, TypeOK
<1>3. fetches = [k \in Roles |-> fetches[k]] /\ "main" \in Roles
  BY DEF IInv, FetchesOK, Roles
<1>4. /\ fetches' = [k \in Roles |-> fetches'[k]] /\ fetches'["main"] = NoFetch
      /\ \A k \in Roles : k # "main" => fetches'[k] = fetches[k]
  BY <1>1, <1>3
<1>5. FetchesOK'
  <2>1. FetchOK(plan.world, processed, NoFetch)
    BY NoFetchOK
  <2> QED BY <1>1, <1>4, <2>1, FetchesEnd DEF IInv
<1>6. MainOK'
  BY <1>4 DEF MainOK, NoFetch
<1>7. CASE stage' = "idle" /\ UNCHANGED <<record, tries>>
  BY <1>1, <1>2, <1>5, <1>6, <1>7, StageStep
<1>8. CASE /\ stage' = "pending"
           /\ record' = [record EXCEPT !.relays = [r \in DOMAIN @ |-> [@[r] EXCEPT !.dead = TRUE]]]
           /\ tries' = [r \in Relays |-> [tries[r] EXCEPT !.thrown = @ \/ r \in DOMAIN record.relays]]
  <2>1. /\ RecordOK(plan.world, processed, asked, record') /\ DOMAIN record'.relays = DOMAIN record.relays
        /\ \A r \in DOMAIN record.relays : record'.relays[r].attempts = record.relays[r].attempts
    <3> DEFINE g == record'
    <3>1. g = [record EXCEPT !.relays = [r \in DOMAIN @ |-> [@[r] EXCEPT !.dead = TRUE]]]
      BY <1>8
    <3> HIDE DEF g
    <3>2. RecordOK(plan.world, processed, asked, record)
      BY DEF IInv
    <3>3. /\ RecordOK(plan.world, processed, asked, g) /\ DOMAIN g.relays = DOMAIN record.relays
          /\ \A r \in DOMAIN record.relays : g.relays[r].attempts = record.relays[r].attempts
      BY <3>1, <3>2, GivenUpOK
    <3> QED BY <3>3 DEF g
  <2>2. ASSUME NEW r \in Relays
        PROVE  /\ IsRecord(tries'[r], {"passes", "refused", "thrown"}) /\ tries'[r].passes = tries[r].passes
               /\ r \in DOMAIN record.relays => tries'[r].thrown
    <3> DEFINE q == tries[r].thrown \/ r \in DOMAIN record.relays
    <3>1. tries'[r] = [tries[r] EXCEPT !.thrown = q]
      BY <1>8
    <3>2. IsRecord(tries[r], {"passes", "refused", "thrown"})
      BY DEF IInv, TriesOK
    <3>3. r \in DOMAIN record.relays => q
      OBVIOUS
    <3> HIDE DEF q
    <3>4. IsRecord(tries'[r], {"passes", "refused", "thrown"}) /\ tries'[r].passes = tries[r].passes /\ tries'[r].thrown = q
      BY <3>1, <3>2 DEF IsRecord
    <3>5. r \in DOMAIN record.relays => tries'[r].thrown
      BY <3>3, <3>4
    <3> QED BY <3>4, <3>5
  <2>3. TriesOK'
    <3>1. \A r \in Relays : IsRecord(tries'[r], {"passes", "refused", "thrown"}) /\ tries'[r].passes \in Nat
      BY <2>2 DEF IInv, TriesOK
    <3>2. \A r \in DOMAIN record.relays : TryOK(record'.relays[r], tries'[r])
      <4> TAKE r \in DOMAIN record.relays
      <4>1. r \in Relays /\ TryOK(record.relays[r], tries[r])
        BY DEF IInv, TriesOK, RecordOK
      <4>2. /\ IsRecord(tries'[r], {"passes", "refused", "thrown"}) /\ tries'[r].passes = tries[r].passes
            /\ tries'[r].thrown /\ record'.relays[r].attempts = record.relays[r].attempts
        BY <2>1, <2>2, <4>1
      <4> QED BY <4>1, <4>2 DEF TryOK
    <3>3. tries' = [r \in Relays |-> tries'[r]] /\ DOMAIN record'.relays \subseteq urls'
      BY <1>1, <1>8, <2>1 DEF IInv, TriesOK
    <3> QED BY <2>1, <3>1, <3>2, <3>3 DEF TriesOK
  <2>4. TypeOK'
    BY <1>1, <1>2, <1>8, <2>1 DEF IInv, TypeOK, RecordOK
  <2>5. LaneOK' /\ EndOK'
    BY <1>8 DEF LaneOK, EndOK, CompleteIsAccounted, Complete
  <2> QED BY <1>1, <1>5, <1>6, <2>1, <2>3, <2>4, <2>5 DEF IInv
<1> QED BY <1>7, <1>8 DEF MainThrew

LEMMA PassOfflineKeeps == ASSUME IInv, PassOffline \/ Triggered PROVE IInv'
<1>1. /\ stage' \in {"idle", "pending"} /\ PlanOK' /\ plan'.world = plan.world
      /\ UNCHANGED <<urls, record, window, wanted, fetches, hedges, processed, asked, tries>>
  BY DEF PassOffline, Triggered, IInv, PlanOK, IsRecord
<1>2. window' \subseteq Span /\ wanted' \subseteq Span /\ asked' \subseteq Span
  BY <1>1 DEF IInv, TypeOK
<1>3. stage # "main"
  BY DEF PassOffline, Triggered
<1>4. FetchesOK' /\ MainOK'
  BY <1>1, <1>3 DEF IInv, FetchesOK, MainOK
<1> QED BY <1>1, <1>2, <1>4, StageStep

LEMMA PausedKeeps == ASSUME IInv, Paused PROVE IInv'
<1>1. /\ stage' = "idle" /\ PlanOK' /\ plan'.world = plan.world /\ fetches' = [k \in Roles |-> NoFetch]
      /\ wanted' = {} /\ UNCHANGED <<urls, record, window, processed, asked, tries>>
  BY DEF Paused, IInv, PlanOK, IsRecord
<1>2. window' \subseteq Span /\ wanted' \subseteq Span /\ asked' \subseteq Span
  BY <1>1 DEF IInv, TypeOK
<1>3. FetchesOK'
  <2>1. FetchOK(plan.world, processed, NoFetch)
    BY NoFetchOK
  <2> QED BY <1>1, <2>1, FetchesEnd DEF IInv
<1>4. MainOK'
  BY <1>1 DEF MainOK, NoFetch, Roles
<1> QED BY <1>1, <1>2, <1>3, <1>4, StageStep

LEMMA PrioritizeKeeps == ASSUME IInv, Prioritize PROVE IInv'
<1>1. /\ PlanOK' /\ plan'.world = plan.world
      /\ UNCHANGED <<urls, record, stage, wanted, fetches, hedges, processed, asked, tries>>
  BY DEF Prioritize, IInv, PlanOK, IsRecord
<1>2. PICK from \in Span : \E to \in from..Newest : window' = window \union (from..to)
  BY DEF Prioritize
<1>3. PICK to \in from..Newest : window' = window \union (from..to)
  BY <1>2
<1>4. from..to \subseteq Span
  BY ConstantsAssumption DEF Span
<1>5. window' \subseteq Span /\ wanted' \subseteq Span /\ asked' \subseteq Span
  BY <1>1, <1>3, <1>4 DEF IInv, TypeOK
<1>6. FetchesOK' /\ MainOK'
  BY <1>1 DEF IInv, FetchesOK, MainOK
<1>7. stage' = "final" => stage = "final"
  BY <1>1
<1> QED BY <1>1, <1>5, <1>6, <1>7, StageStep

LEMMA ForgottenKeeps == ASSUME IInv, Forgotten PROVE IInv'
<1>1. /\ stage' = "idle" /\ PlanOK' /\ plan'.world = plan.world /\ fetches' = [k \in Roles |-> NoFetch]
      /\ record' = NewRecord /\ window' = {} /\ tries' = [r \in Relays |-> Untried]
      /\ UNCHANGED <<urls, wanted, hedges, processed, asked>>
  BY DEF Forgotten, IInv, PlanOK, IsRecord
<1>2. RecordOK(plan.world, processed, asked, record)'
  BY <1>1, NewRecordOK
<1>3. TypeOK'
  BY <1>1 DEF IInv, TypeOK, NewRecord
<1>4. FetchesOK'
  <2>1. FetchOK(plan.world, processed, NoFetch)
    BY NoFetchOK
  <2> QED BY <1>1, <2>1, FetchesEnd DEF IInv
<1>5. MainOK' /\ LaneOK' /\ EndOK'
  BY <1>1 DEF MainOK, NoFetch, Roles, LaneOK, EndOK, CompleteIsAccounted, Complete
<1>6. TriesOK'
  BY <1>1 DEF TriesOK, NewRecord, Untried, IsRecord
<1> QED BY <1>1, <1>2, <1>3, <1>4, <1>5, <1>6 DEF IInv

LEMMA RelaysChangeKeeps == ASSUME IInv, RelaysChange PROVE IInv'
<1>1. /\ stage \in {"idle", "pending"} /\ PlanOK' /\ plan'.world = plan.world
      /\ record' = [record EXCEPT !.relays = [r \in DOMAIN @ \intersect urls' |-> @[r]]]
      /\ UNCHANGED <<stage, window, wanted, fetches, hedges, processed, asked>>
  BY DEF RelaysChange, IInv, PlanOK, IsRecord
<1>2. urls' \subseteq Relays /\ tries' = [r \in Relays |-> IF r \in urls' /\ r \in urls THEN tries[r] ELSE Untried]
  BY DEF RelaysChange
<1>3. /\ IsRecord(record', RecordFields) /\ record'.covered = record.covered /\ record'.claimed = record.claimed
      /\ record'.oldest = record.oldest
      /\ record'.relays = [r \in DOMAIN record.relays \intersect urls' |-> record.relays[r]]
  BY <1>1 DEF IInv, RecordOK, IsRecord, RecordFields
<1>4. /\ DOMAIN record'.relays = DOMAIN record.relays \intersect urls' /\ IsRecord(record'.relays, DOMAIN record'.relays)
      /\ \A r \in DOMAIN record'.relays : record'.relays[r] = record.relays[r]
  BY <1>3 DEF IsRecord
<1>5. RecordOK(plan.world, processed, asked, record')
  BY <1>3, <1>4 DEF IInv, RecordOK, RecordFields
<1>6. TypeOK'
  BY <1>1, <1>2, <1>5 DEF IInv, TypeOK, RecordOK
<1>7. FetchesOK' /\ MainOK' /\ LaneOK' /\ EndOK'
  BY <1>1 DEF IInv, FetchesOK, MainOK, LaneOK, EndOK, CompleteIsAccounted, Complete
<1>8. TriesOK'
  <2>1. \A r \in Relays : IsRecord(tries'[r], {"passes", "refused", "thrown"}) /\ tries'[r].passes \in Nat
    BY <1>2 DEF IInv, TriesOK, Untried, IsRecord
  <2>2. DOMAIN record'.relays \subseteq urls' /\ tries' = [r \in Relays |-> tries'[r]]
    BY <1>2, <1>4
  <2>3. \A r \in DOMAIN record'.relays : TryOK(record'.relays[r], tries'[r])
    <3> TAKE r \in DOMAIN record'.relays
    <3>1. r \in DOMAIN record.relays /\ r \in urls /\ r \in urls' /\ r \in Relays
      BY <1>2, <1>4 DEF IInv, TriesOK
    <3>2. tries'[r] = tries[r] /\ record'.relays[r] = record.relays[r]
      BY <1>2, <1>4, <3>1
    <3> QED BY <3>1, <3>2 DEF IInv, TriesOK
  <2> QED BY <2>1, <2>2, <2>3 DEF TriesOK
<1> QED BY <1>1, <1>5, <1>6, <1>7, <1>8 DEF IInv


LEMMA MainEndsKeeps == ASSUME IInv, MainEnds PROVE IInv'
<1> DEFINE f == fetches["main"]
           rec == Updated(record, f, TRUE)
<1>1. /\ stage = "main" /\ f.on /\ PlanOK' /\ plan'.world = plan.world
      /\ record' = Budgeted(rec, f)
      /\ tries' = [r \in Relays |-> IF r \in Readable(rec)
                                    THEN [tries[r] EXCEPT !.passes = Min({@ + 1, Budget["allFailed"]}),
                                                          !.refused = @ \/ \E x \in f.report : x.relay = r /\ x.refused]
                                    ELSE tries[r]]
      /\ fetches' = [fetches EXCEPT !["main"] = NoFetch]
      /\ stage' = (IF Active(record') THEN "idle" ELSE IF \E x \in f.report : x.refused THEN "blocked" ELSE "final")
      /\ UNCHANGED <<plan, urls, window, wanted, hedges, processed, asked>>
  BY DEF MainEnds, IInv, PlanOK, ReadOut
<1>2. /\ FetchOK(plan.world, processed, f) /\ RecordOK(plan.world, processed, asked, record)
      /\ \A r \in DOMAIN f.resume : r \in DOMAIN record.relays /\ f.resume[r] = record.relays[r].pending
  BY <1>1 DEF IInv, FetchesOK, MainOK, Roles
<1>3. /\ RecordOK(plan.world, processed, asked, rec) /\ DOMAIN rec.relays = DOMAIN record.relays
      /\ \A r \in DOMAIN record.relays : /\ rec.relays[r].dead = record.relays[r].dead
                                         /\ rec.relays[r].attempts \in {0, record.relays[r].attempts}
  <2> DEFINE T == TRUE
  <2>1. T \in BOOLEAN /\ rec = Updated(record, f, T)
    OBVIOUS
  <2> HIDE DEF T, f, rec
  <2>2. T => \A r \in DOMAIN f.resume : r \in DOMAIN record.relays /\ f.resume[r] = record.relays[r].pending
    BY <1>2
  <2> QED BY <1>2, <2>1, <2>2, UpdatedOK
<1> HIDE DEF rec, f
<1>4. /\ RecordOK(plan.world, processed, asked, record') /\ DOMAIN record'.relays = DOMAIN record.relays
      /\ \A r \in DOMAIN record.relays :
                IF r \in Readable(rec)
                THEN /\ record'.relays[r].attempts = rec.relays[r].attempts + 1
                     /\ record'.relays[r].dead =>
                          \/ rec.relays[r].attempts + 1 >= Budget[Tier(rec)]
                          \/ \E x \in f.report : x.relay = r /\ x.refused
                ELSE record'.relays[r] = rec.relays[r]
  <2> DEFINE g == Budgeted(rec, f)
  <2>1. RecordOK(plan.world, processed, asked, g) /\ DOMAIN g.relays = DOMAIN rec.relays /\ Retried(rec, f, g)
    BY <1>3, BudgetedOK
  <2>2. record' = g
    BY <1>1
  <2> HIDE DEF g
  <2> QED BY <1>3, <2>1, <2>2 DEF Retried
<1>5. fetches = [k \in Roles |-> fetches[k]] /\ "main" \in Roles
  BY DEF IInv, FetchesOK, Roles
<1>6. /\ fetches' = [k \in Roles |-> fetches'[k]] /\ fetches'["main"] = NoFetch
      /\ \A k \in Roles : k # "main" => fetches'[k] = fetches[k]
  BY <1>1, <1>5
<1>7. FetchesOK' /\ MainOK'
  <2>1. FetchOK(plan.world, processed, NoFetch)
    BY NoFetchOK
  <2>2. FetchesOK'
    BY <1>1, <1>6, <2>1, FetchesEnd DEF IInv
  <2> QED BY <1>6, <2>2 DEF MainOK, NoFetch
<1>8. stage' \in {"idle", "final", "blocked"} /\ (stage' \in {"final", "blocked"} => ~Active(record'))
  BY <1>1
<1>9. TypeOK'
  BY <1>1, <1>4, <1>8 DEF IInv, TypeOK, RecordOK
<1>10. LaneOK' /\ EndOK'
  BY <1>8 DEF LaneOK, EndOK, CompleteIsAccounted, Complete
<1>11. TriesOK'
  <2>1. \A r \in Relays : /\ IsRecord(tries[r], {"passes", "refused", "thrown"}) /\ tries[r].passes \in Nat
                          /\ Budget["allFailed"] \in Nat /\ Budget["partial"] \in Nat
                          /\ Budget["partial"] <= Budget["allFailed"]
    BY ConstantsAssumption DEF IInv, TriesOK
  <2>2. ASSUME NEW r \in Relays, r \in Readable(rec)
        PROVE  /\ tries'[r].passes = (IF tries[r].passes + 1 <= Budget["allFailed"] THEN tries[r].passes + 1 ELSE Budget["allFailed"])
               /\ tries'[r].refused <=> tries[r].refused \/ \E x \in f.report : x.relay = r /\ x.refused
               /\ tries'[r].thrown = tries[r].thrown
               /\ IsRecord(tries'[r], {"passes", "refused", "thrown"})
    <3>1. Min({tries[r].passes + 1, Budget["allFailed"]})
            = IF tries[r].passes + 1 <= Budget["allFailed"] THEN tries[r].passes + 1 ELSE Budget["allFailed"]
      <4> DEFINE n == tries[r].passes + 1 b == Budget["allFailed"]
      <4>1. n \in Nat /\ b \in Nat
        BY <2>1
      <4> HIDE DEF n, b
      <4>2. Min({n, b}) = IF n <= b THEN n ELSE b
        BY <4>1, MinMaxOfTwo
      <4> QED BY <4>2 DEF n, b
    <3>2. tries'[r] = [tries[r] EXCEPT !.passes = Min({@ + 1, Budget["allFailed"]}),
                                       !.refused = @ \/ \E x \in f.report : x.relay = r /\ x.refused]
      BY <1>1, <2>2
    <3> DEFINE m == Min({tries[r].passes + 1, Budget["allFailed"]})
               q == tries[r].refused \/ \E x \in f.report : x.relay = r /\ x.refused
    <3>3. tries'[r] = [tries[r] EXCEPT !.passes = m, !.refused = q]
      BY <2>1, <3>2 DEF IsRecord
    <3> HIDE DEF m, q
    <3>4. tries'[r].passes = m /\ tries'[r].refused = q /\ tries'[r].thrown = tries[r].thrown /\ IsRecord(tries'[r], {"passes", "refused", "thrown"})
      BY <2>1, <3>3 DEF IsRecord
    <3>5. tries'[r].refused <=> q
      BY <3>4
    <3> QED BY <3>1, <3>4, <3>5 DEF m, q
  <2>3. ASSUME NEW r \in Relays, r \notin Readable(rec) PROVE tries'[r] = tries[r]
    BY <1>1, <2>3
  <2>4. \A r \in Relays : IsRecord(tries'[r], {"passes", "refused", "thrown"}) /\ tries'[r].passes \in Nat
    BY <2>1, <2>2, <2>3
  <2>5. \A r \in DOMAIN record.relays : TryOK(record'.relays[r], tries'[r])
    <3> TAKE r \in DOMAIN record.relays
    <3>1. r \in Relays /\ record.relays[r].attempts \in Nat /\ TryOK(record.relays[r], tries[r])
      BY <1>2 DEF RecordOK, RelayOK, IInv, TriesOK
    <3>2. CASE r \in Readable(rec)
      <4>1. Budget[Tier(rec)] \in Nat /\ Budget["partial"] <= Budget[Tier(rec)]
        <5>1. Tier(rec) \in {"partial", "emptyEose", "allFailed"}
          BY DEF Tier
        <5>2. Budget[Tier(rec)] \in Nat /\ Budget[Tier(rec)] \in Budget["partial"]..Budget["allFailed"]
          BY <5>1, ConstantsAssumption
        <5> QED BY <2>1, <3>1, <5>2
      <4> DEFINE a == record'.relays[r].attempts
                 n == tries'[r].passes
      <4>2. a \in Nat /\ n \in Nat /\ (a <= n \/ Budget["allFailed"] <= n)
        BY <1>3, <1>4, <2>1, <2>2, <3>1, <3>2 DEF TryOK
      <4>3. record'.relays[r].dead => a >= Budget[Tier(rec)] \/ tries'[r].refused
        BY <1>4, <2>2, <3>1, <3>2
      <4>4. record'.relays[r].dead => tries'[r].refused \/ n >= Budget["partial"]
        BY <2>1, <3>1, <4>1, <4>2, <4>3
      <4> QED BY <2>4, <3>1, <4>2, <4>4 DEF TryOK
    <3>3. CASE r \notin Readable(rec)
      <4>1. record'.relays[r] = rec.relays[r] /\ tries'[r] = tries[r]
        BY <1>4, <2>3, <3>1, <3>3
      <4> QED BY <1>3, <3>1, <4>1 DEF TryOK
    <3> QED BY <3>2, <3>3
  <2> QED BY <1>1, <1>4, <2>4, <2>5 DEF IInv, TriesOK
<1> QED BY <1>1, <1>4, <1>7, <1>9, <1>10, <1>11 DEF IInv

(* When no relay has anything left to read, what its relays hold was taken in or asked for. *)
LEMMA AllAccounted ==
    ASSUME IInv, ~Active(record), NEW r \in DOMAIN record.relays, ~record.relays[r].dead, NEW e \in plan.world[r]
    PROVE  e \in processed \/ e[1] \in asked
<1>1. RelayOK(plan.world, processed, record.claimed, r, record.relays[r]) /\ record.claimed \subseteq asked /\ r \in Relays
  BY DEF IInv, RecordOK
<1>2. record.relays[r].pending = {}
  BY <1>1 DEF Active, Readable, RelayOK
<1>3. e[1] \in Span
  BY <1>1 DEF IInv, PlanOK, WorldOK
<1>4. e[1] \in record.relays[r].covered \/ e[1] \in record.claimed
  BY <1>1, <1>2, <1>3 DEF RelayOK
<1> QED BY <1>1, <1>4 DEF RelayOK, Reads

LEMMA FinalizeKeeps == ASSUME IInv, Finalize PROVE IInv'
<1>1. /\ stage \in {"final", "blocked"} /\ UNCHANGED <<urls, record, window, wanted, fetches, hedges, processed, tries>>
      /\ PlanOK' /\ plan'.world = plan.world
  BY DEF Finalize, IInv, PlanOK, IsRecord
<1>2. window' \subseteq Span /\ wanted' \subseteq Span /\ asked \subseteq Span /\ LeftEdge \subseteq Span /\ ~Active(record)
      /\ FetchesOK' /\ MainOK'
  <2>1. record.oldest \in Span \/ record.oldest = 0
    BY DEF IInv, RecordOK, Known
  <2>2. LeftEdge \subseteq Span
    BY <2>1, ConstantsAssumption DEF LeftEdge, Span
  <2>3. ~fetches["main"].on
    BY <1>1 DEF IInv, MainOK
  <2> QED BY <1>1, <2>2, <2>3 DEF IInv, TypeOK, EndOK, FetchesOK, MainOK
<1>3. CASE /\ asked' = asked \union (Span \ record.covered) \union LeftEdge /\ stage' = "complete"
  <2>1. asked \subseteq asked' /\ asked' \subseteq Span
    BY <1>2, <1>3
  <2>2. RecordOK(plan.world, processed, asked, record)'
    <3>1. RecordOK(plan.world, processed, asked', record)
      BY <2>1, RecordGrows DEF IInv
    <3> QED BY <1>1, <3>1
  <2>3. TypeOK' /\ TriesOK' /\ LaneOK'
    BY <1>1, <1>3, <2>1 DEF IInv, TypeOK, TriesOK, TryOK, LaneOK
  <2>4. \A s \in Span : (\A e \in processed : e[1] > s) => s \in asked'
    <3> SUFFICES ASSUME NEW s \in Span, \A e \in processed : e[1] > s PROVE s \in LeftEdge
      BY <1>3
    <3>1. CASE record.oldest = 0
      BY <3>1 DEF LeftEdge
    <3>2. CASE record.oldest # 0
      <4>1. record.oldest \in Span /\ record.oldest > s
        BY <3>2 DEF IInv, RecordOK, Known
      <4>2. record.oldest \in Nat /\ s \in Nat /\ s >= 1
        BY <4>1 DEF Span
      <4> QED BY <4>1, <4>2 DEF LeftEdge
    <3> QED BY <3>1, <3>2
  <2>5. \A r \in DOMAIN record.relays : ~record.relays[r].dead => \A e \in plan.world[r] : e \in processed \/ e[1] \in asked'
    BY <1>2, <2>1, AllAccounted
  <2>6. EndOK'
    <3>1. CompleteIsAccounted'
      BY <1>1, <2>4, <2>5 DEF CompleteIsAccounted
    <3> QED BY <1>3, <3>1 DEF EndOK
  <2> QED BY <1>1, <1>2, <2>2, <2>3, <2>6 DEF IInv
<1>4. CASE /\ stage' \in {"idle", "pending"}
           /\ \E some \in SUBSET Runs((Span \ record.covered) \union LeftEdge) : asked' = asked \union UNION some
  <2> DEFINE S == (Span \ record.covered) \union LeftEdge
  <2>1. PICK some \in SUBSET Runs(S) : asked' = asked \union UNION some
    BY <1>4
  <2>2. S \subseteq Span
    BY <1>2
  <2> HIDE DEF S
  <2>3. UNION some \subseteq Span
    BY <2>2, RunsWithin
  <2>4. asked \subseteq asked' /\ asked' \subseteq Span
    BY <1>2, <2>1, <2>3
  <2> QED BY <1>1, <1>2, <1>4, <2>4, StageStep
<1> QED BY <1>3, <1>4 DEF Finalize

--------------------------------------------------------------------------------
LEMMA InitIInv == Init => IInv
<1> SUFFICES ASSUME Init PROVE IInv
  OBVIOUS
<1>1. PlanOK
  <2>1. plan \in [world: [Relays -> SUBSET (Span \X Nat)], fails: Nat, windows: Nat, aborts: Nat, restarts: Nat,
                  changes: Nat, asks: Nat, seeders: BOOLEAN, lasting: BOOLEAN]
    BY PlansAssumption DEF Init
  <2>2. \A r \in Relays : IsFiniteSet(plan.world[r])
    BY PlansAssumption DEF Init
  <2>3. plan.world \in [Relays -> SUBSET (Span \X Nat)]
    BY <2>1
  <2>4. IsRecord(plan, {"world", "fails", "windows", "aborts", "restarts", "changes", "asks", "seeders", "lasting"})
    BY <2>1 DEF IsRecord
  <2> QED BY <2>2, <2>3, <2>4 DEF PlanOK, WorldOK
<1>2. RecordOK(plan.world, processed, asked, record)
  BY NewRecordOK DEF Init
<1>3. FetchesOK
  <2>1. FetchOK(plan.world, processed, NoFetch)
    BY NoFetchOK
  <2> QED BY <2>1 DEF Init, FetchesOK
<1>4. MainOK /\ LaneOK /\ EndOK
  BY DEF Init, MainOK, NoFetch, Roles, LaneOK, EndOK, CompleteIsAccounted, Complete
<1>5. TypeOK /\ TriesOK
  BY DEF Init, TypeOK, TriesOK, NewRecord, Untried, IsRecord
<1> QED BY <1>1, <1>2, <1>3, <1>4, <1>5 DEF IInv

LEMMA NextIInv == IInv /\ [Next]_vars => IInv'
<1> SUFFICES ASSUME IInv, [Next]_vars PROVE IInv'
  OBVIOUS
<1>1. CASE Reading
  BY <1>1, NextRelayKeeps, RelayReadKeeps, PageReadKeeps DEF Reading
<1>2. CASE Lane
  BY <1>2, HedgeKeeps, LaneWonKeeps, LaneLostKeeps, FirstThrewKeeps, LaneAsksKeeps DEF Lane
<1>3. CASE Main
  BY <1>3, PassStartsKeeps, MainStartsKeeps, MainEndsKeeps, MainThrewKeeps, FinalizeKeeps DEF Main
<1>4. CASE \E k \in Roles : PageFails(k) \/ ProcessFails(k)
  BY <1>4, PageFailsKeeps, ProcessFailsKeeps
<1>5. CASE PassOffline \/ Triggered \/ Prioritize \/ Interrupted \/ Paused \/ Forgotten \/ RelaysChange
  BY <1>5, PassOfflineKeeps, PrioritizeKeeps, InterruptedKeeps, PausedKeeps, ForgottenKeeps, RelaysChangeKeeps
<1>6. CASE UNCHANGED vars
  BY <1>6 DEF vars, IInv, PlanOK, TypeOK, FetchesOK, MainOK, LaneOK, TriesOK, EndOK, Active, Readable,
      CompleteIsAccounted, Complete
<1> QED BY <1>1, <1>2, <1>3, <1>4, <1>5, <1>6 DEF Next

LEMMA Invariance == Spec => []IInv
BY InitIInv, NextIInv, PTL DEF Spec

(* CoveredIsRead: a relay is said to have covered no second of which something was not taken in, *)
(* over any passes, probes, hedges, failing pages, aborts and changes of the relays.            *)
THEOREM WhatIsCoveredWasRead == Spec => []CoveredIsRead
<1>1. IInv => CoveredIsRead
  <2> SUFFICES ASSUME IInv PROVE CoveredIsRead
    OBVIOUS
  <2>1. \A r \in DOMAIN record.relays : At(r, record.relays[r].covered) \subseteq processed
    BY DEF IInv, RecordOK, RelayOK, Reads, At
  <2>2. \A k \in Roles : fetches[k].relay # "none" => At(fetches[k].relay, fetches[k].covered) \subseteq processed
    BY DEF IInv, FetchesOK, FetchOK, UnderWayOK, Reads, At
  <2> QED BY <2>1, <2>2 DEF IInv, RecordOK, CoveredIsRead
<1> QED BY <1>1, Invariance, PTL

(* RangeIsAccounted: a range completes only when everything that its relays hold was taken in or    *)
(* asked of the seeders, but for relays that were given up, and those were given up in time.       *)
THEOREM WhatIsCompleteIsAccounted == Spec => []RangeIsAccounted
<1>1. IInv => RangeIsAccounted
  <2> SUFFICES ASSUME IInv PROVE RangeIsAccounted
    OBVIOUS
  <2>1. GivenUpInTime
    BY DEF IInv, TriesOK, TryOK, GivenUpInTime
  <2> QED BY <2>1 DEF IInv, EndOK, RangeIsAccounted
<1> QED BY <1>1, Invariance, PTL

--------------------------------------------------------------------------------
(* The packets that wait for a key. *)
(* Where a deferred packet may be. *)
Kept == seen.delivered \union seen.evicted \union seen.cleared \union Ids(queue)

(* The records, by their fields. *)
IsItem(x) == IsRecord(x, {"id", "code", "tries"})
IsOp(x) == IsRecord(x, {"kind", "id", "item", "code", "before", "lost"})
IsJob(x) == IsRecord(x, {"at", "again", "force", "forced", "todo", "probe", "item", "absent", "aborted"})
IsMsgr(x) == IsRecord(x, {"on", "paused", "ready", "op", "job", "next"})
SeenOK(x) == IsRecord(x, {"saved", "delivered", "evicted", "reported", "excused", "cleared", "crossed", "undone", "owed", "attempts"})

(* The queue holds one item of a packet, and no more than it has room for. *)
QueueOK ==
    /\ \E S : queue \in Seq(S)
    /\ Len(queue) <= Room
    /\ \A i \in 1..Len(queue) : IsItem(queue[i])
    /\ \A i, j \in 1..Len(queue) : queue[i].id = queue[j].id => i = j

(* What a save has read of its packet is an item, and the packet is not lost since, nor one *)
(* that it added; a packet is taken out of the queue once it is in the inbox.              *)
MsgrOK(s, kept, delivered) ==
    /\ IsMsgr(s) /\ IsOp(s.op) /\ IsJob(s.job) /\ IsJob(s.next) /\ s.next.at \in {"none", "wait"}
    /\ s.op.kind = "saving" /\ s.op.item # Nothing => s.op.id \in kept /\ IsItem(s.op.item)
    /\ s.op.kind = "writing" => IsItem(s.op.item)
    /\ s.op.kind = "stored" => s.op.id \in kept
    /\ s.job.at = "recover" => s.job.item.id \in delivered

PInv ==
    /\ QueueOK
    /\ opens \subseteq Packets /\ lock \in Msgrs \union {Nothing}
    /\ DOMAIN msgr = Msgrs /\ msgr = [m \in Msgrs |-> msgr[m]]
    /\ \A m \in Msgrs : MsgrOK(msgr[m], Kept, seen.delivered)
    /\ SeenOK(seen) /\ seen.saved \subseteq Kept

--------------------------------------------------------------------------------
(* The queue. *)

LEMMA ItemOfIsIn ==
    ASSUME QueueOK, NEW p, IsIn(p)
    PROVE  /\ Place(p) \in 1..Len(queue) /\ queue[Place(p)].id = p
           /\ IsItem(ItemOf(p)) /\ ItemOf(p).id = p
<1>1. Place(p) \in 1..Len(queue) /\ queue[Place(p)].id = p
  BY DEF IsIn, Place
<1> QED BY <1>1 DEF QueueOK, ItemOf

LEMMA IsInIds == ASSUME NEW p PROVE IsIn(p) <=> p \in Ids(queue)
BY DEF IsIn, Ids

(* Putting an item in the place of the one with its id keeps every id. *)
LEMMA PutKeeps ==
    ASSUME QueueOK, NEW item, IsItem(item), queue' = Put(item)
    PROVE  /\ QueueOK' /\ Ids(queue') = Ids(queue)
           /\ Len(queue') = Len(queue)
           /\ \A i \in 1..Len(queue) : queue'[i] = IF queue[i].id = item.id THEN item ELSE queue[i]
<1>1. PICK S : queue \in Seq(S)
  BY DEF QueueOK
<1>2. queue' = [i \in 1..Len(queue) |-> IF queue[i].id = item.id THEN item ELSE queue[i]] /\ Len(queue) \in Nat
  BY <1>1 DEF Put
<1>3. queue' \in Seq(S \union {item}) /\ Len(queue') = Len(queue)
  BY <1>1, <1>2
<1>4. \A i \in 1..Len(queue) : IsItem(queue'[i]) /\ queue'[i].id = queue[i].id
  BY <1>2 DEF QueueOK
<1>5. Ids(queue') = Ids(queue)
  BY <1>3, <1>4 DEF Ids
<1> QED BY <1>2, <1>3, <1>4, <1>5 DEF QueueOK

(* The oldest item makes room for the new one. *)
LEMMA AppendKeeps ==
    ASSUME QueueOK, Room \in Nat \ {0}, NEW item, IsItem(item), ~IsIn(item.id),
           queue' = Append(IF Len(queue) = Room THEN Tail(queue) ELSE queue, item)
    PROVE  /\ QueueOK' /\ item.id \in Ids(queue') /\ Ids(queue) \subseteq Ids(queue') \union Evicted
           /\ \A i \in 1..Len(queue') : queue'[i] = item \/ \E j \in 1..Len(queue) : queue'[i] = queue[j]
<1>1. PICK S : queue \in Seq(S)
  BY DEF QueueOK
<1>2. CASE Len(queue) = Room
  <2> DEFINE rest == Tail(queue)
  <2>1. queue # <<>> /\ Len(queue) \in Nat \ {0}
    BY <1>1, <1>2
  <2>2. /\ rest \in Seq(S) /\ Len(rest) = Len(queue) - 1
        /\ \A i \in 1..Len(rest) : rest[i] = queue[i + 1]
    BY <1>1, <2>1, HeadTailProperties
  <2>3. queue' = Append(rest, item)
    BY <1>2
  <2> HIDE DEF rest
  <2>4. queue' \in Seq(S \union {item}) /\ Len(queue') = Len(queue) /\ queue'[Len(queue)] = item
    <3>1. rest \in Seq(S \union {item}) /\ item \in S \union {item}
      BY <2>2, SeqMonotonic
    <3>2. /\ Append(rest, item) \in Seq(S \union {item})
          /\ Len(Append(rest, item)) = Len(rest) + 1 /\ Append(rest, item)[Len(rest) + 1] = item
      BY <3>1, AppendProperties
    <3>3. Len(rest) + 1 = Len(queue)
      BY <2>1, <2>2
    <3> QED BY <2>3, <3>2, <3>3
  <2>5. \A i \in 1..(Len(queue) - 1) : queue'[i] = queue[i + 1]
    BY <2>1, <2>2, <2>3
  <2>6. \A i \in 1..Len(queue) : queue[i].id # item.id
    BY DEF IsIn
  <2>7. \A i \in 1..Len(queue') : IsItem(queue'[i])
    BY <2>1, <2>4, <2>5 DEF QueueOK
  <2>8. \A i, j \in 1..Len(queue') : queue'[i].id = queue'[j].id => i = j
    BY <2>1, <2>4, <2>5, <2>6 DEF QueueOK
  <2>9. Evicted = {queue[1].id}
    BY <1>2, <2>1 DEF Evicted
  <2>10. Ids(queue) \subseteq Ids(queue') \union Evicted
    <3>1. ASSUME NEW i \in 1..Len(queue) PROVE queue[i].id \in Ids(queue') \union Evicted
      <4>1. CASE i = 1
        BY <2>9, <4>1
      <4>2. CASE i # 1
        <5>1. i - 1 \in 1..(Len(queue) - 1) /\ i - 1 \in 1..Len(queue') /\ queue'[i - 1] = queue[i]
          BY <2>1, <2>4, <2>5, <4>2
        <5> QED BY <5>1 DEF Ids
      <4> QED BY <4>1, <4>2
    <3> QED BY <3>1 DEF Ids
  <2>11. item.id \in Ids(queue')
    BY <2>1, <2>4 DEF Ids
  <2>12. \A i \in 1..Len(queue') : queue'[i] = item \/ \E j \in 1..Len(queue) : queue'[i] = queue[j]
    <3>1. ASSUME NEW i \in 1..Len(queue'), i # Len(queue) PROVE i + 1 \in 1..Len(queue) /\ queue'[i] = queue[i + 1]
      BY <2>1, <2>4, <2>5, <3>1
    <3> QED BY <2>4, <3>1
  <2> QED BY <1>2, <2>4, <2>7, <2>8, <2>10, <2>11, <2>12 DEF QueueOK
<1>3. CASE Len(queue) # Room
  <2>1. queue' = Append(queue, item) /\ Len(queue) \in Nat /\ Len(queue) < Room
    BY <1>1, <1>3 DEF QueueOK
  <2>2. /\ queue' \in Seq(S \union {item}) /\ Len(queue') = Len(queue) + 1 /\ queue'[Len(queue) + 1] = item
        /\ \A i \in 1..Len(queue) : queue'[i] = queue[i]
    BY <1>1, <2>1
  <2>3. \A i \in 1..Len(queue) : queue[i].id # item.id
    BY DEF IsIn
  <2>4. \A i \in 1..Len(queue') : IsItem(queue'[i])
    BY <2>1, <2>2 DEF QueueOK
  <2>5. \A i, j \in 1..Len(queue') : queue'[i].id = queue'[j].id => i = j
    BY <2>1, <2>2, <2>3 DEF QueueOK
  <2>6. Ids(queue) \subseteq Ids(queue') /\ item.id \in Ids(queue')
    BY <2>1, <2>2 DEF Ids
  <2>7. \A i \in 1..Len(queue') : queue'[i] = item \/ (i \in 1..Len(queue) /\ queue'[i] = queue[i])
    BY <2>1, <2>2
  <2> QED BY <2>1, <2>2, <2>4, <2>5, <2>6, <2>7 DEF QueueOK
<1> QED BY <1>2, <1>3

LEMMA WithoutKeeps ==
    ASSUME QueueOK, Room \in Nat \ {0}, NEW p, queue' = Without(p)
    PROVE  /\ QueueOK' /\ Ids(queue) \subseteq Ids(queue') \union {p} /\ Len(queue') <= Len(queue)
           /\ \A i \in 1..Len(queue') : \E j \in 1..Len(queue) : queue'[i] = queue[j]
<1>1. PICK S : queue \in Seq(S)
  BY DEF QueueOK
<1>2. CASE ~IsIn(p)
  BY <1>1, <1>2 DEF Without, QueueOK
<1>3. CASE IsIn(p)
  <2> DEFINE k == Place(p)
             n == Len(queue)
  <2>1. k \in 1..n /\ queue[k].id = p /\ n \in Nat
    BY <1>1, <1>3, ItemOfIsIn
  <2>2. queue' = SubSeq(queue, 1, k - 1) \o SubSeq(queue, k + 1, n)
    BY <1>3 DEF Without, RemoveAt
  <2> HIDE DEF k, n
  <2>3. n = Len(queue)
    BY DEF n
  <2> DEFINE left == SubSeq(queue, 1, k - 1)
             right == SubSeq(queue, k + 1, n)
  <2>4. left \in Seq(S) /\ Len(left) = k - 1 /\ \A i \in 1..(k - 1) : left[i] = queue[i]
    BY <1>1, <2>1, <2>3
  <2>5. right \in Seq(S) /\ Len(right) = n - k /\ \A i \in 1..(n - k) : right[i] = queue[i + k]
    BY <1>1, <2>1, <2>3
  <2>6. queue' = left \o right
    BY <2>2
  <2> HIDE DEF left, right
  <2>7. /\ queue' \in Seq(S) /\ Len(queue') = Len(left) + Len(right)
        /\ \A i \in 1..(Len(left) + Len(right)) :
              queue'[i] = IF i <= Len(left) THEN left[i] ELSE right[i - Len(left)]
    <3>1. left \in Seq(S) /\ right \in Seq(S)
      BY <2>4, <2>5
    <3>2. /\ left \o right \in Seq(S) /\ Len(left \o right) = Len(left) + Len(right)
          /\ \A i \in 1..(Len(left) + Len(right)) :
                (left \o right)[i] = IF i <= Len(left) THEN left[i] ELSE right[i - Len(left)]
      BY <3>1, ConcatProperties
    <3> QED BY <2>6, <3>2
  <2>8. Len(queue') = n - 1 /\ \A i \in 1..(n - 1) : queue'[i] = IF i < k THEN queue[i] ELSE queue[i + 1]
    BY <2>1, <2>4, <2>5, <2>7
  <2>9. \A i \in 1..Len(queue') : IsItem(queue'[i])
    BY <2>1, <2>3, <2>8 DEF QueueOK
  <2>10. \A i, j \in 1..Len(queue') : queue'[i].id = queue'[j].id => i = j
    BY <2>1, <2>3, <2>8 DEF QueueOK
  <2>11. Ids(queue) \subseteq Ids(queue') \union {p}
    <3>1. ASSUME NEW i \in 1..n PROVE queue[i].id \in Ids(queue') \union {p}
      <4>1. CASE i < k
        BY <2>1, <2>8, <4>1 DEF Ids
      <4>2. CASE i = k
        BY <2>1, <4>2
      <4>3. CASE i > k
        <5>1. i - 1 \in 1..(n - 1) /\ queue'[i - 1] = queue[i]
          BY <2>1, <2>8, <4>3
        <5> QED BY <2>8, <5>1 DEF Ids
      <4> QED BY <2>1, <4>1, <4>2, <4>3
    <3> QED BY <2>3, <3>1 DEF Ids
  <2>12. ASSUME NEW i \in 1..Len(queue') PROVE \E j \in 1..Len(queue) : queue'[i] = queue[j]
    <3>1. i \in 1..n /\ i + 1 \in 1..n /\ (queue'[i] = queue[i] \/ queue'[i] = queue[i + 1])
      BY <2>1, <2>8
    <3> QED BY <2>3, <3>1
  <2> QED BY <2>1, <2>3, <2>7, <2>8, <2>9, <2>10, <2>11, <2>12 DEF QueueOK
<1> QED BY <1>2, <1>3

--------------------------------------------------------------------------------
(* The messengers. *)

SameStores == UNCHANGED queue /\ SeenOK(seen')
              /\ seen'.saved = seen.saved /\ seen'.delivered = seen.delivered
              /\ seen'.evicted = seen.evicted /\ seen'.cleared = seen.cleared

(* One messenger moves; nothing is lost. *)
LEMMA MoveKeeps ==
    ASSUME PInv, NEW m \in Msgrs, NEW s, Step(m, s), MsgrOK(s, Kept', seen'.delivered),
           QueueOK', UNCHANGED opens, lock' \in Msgrs \union {Nothing}, SeenOK(seen'),
           Kept \subseteq Kept', seen.delivered \subseteq seen'.delivered, seen'.saved \subseteq Kept'
    PROVE  PInv'
<1>1. msgr' = [msgr EXCEPT ![m] = s] /\ msgr = [n \in Msgrs |-> msgr[n]]
  BY DEF Step, PInv
<1>2. msgr' = [n \in Msgrs |-> msgr'[n]] /\ DOMAIN msgr' = Msgrs /\ msgr'[m] = s /\ \A n \in Msgrs \ {m} : msgr'[n] = msgr[n]
  BY <1>1
<1>3. \A n \in Msgrs \ {m} : MsgrOK(msgr[n], Kept', seen'.delivered)
  BY DEF PInv, MsgrOK
<1>4. \A n \in Msgrs : MsgrOK(msgr'[n], Kept', seen'.delivered)
  BY <1>2, <1>3
<1> QED BY <1>2, <1>4 DEF PInv, SeenOK

(* ... and the stores stay as they were. *)
LEMMA MoveInPlace ==
    ASSUME PInv, NEW m \in Msgrs, NEW s, Step(m, s), MsgrOK(s, Kept, seen.delivered), SameStores,
           UNCHANGED opens, lock' \in Msgrs \union {Nothing}
    PROVE  PInv'
<1>1. Kept' = Kept /\ QueueOK'
  BY DEF SameStores, Kept, PInv, QueueOK
<1> QED BY <1>1, MoveKeeps DEF SameStores, PInv

LEMMA Unlocking == ASSUME PInv, NEW m \in Msgrs PROVE Unlocked(m) \in Msgrs \union {Nothing}
BY DEF PInv, Unlocked

LEMMA AskedOK ==
    ASSUME NEW s, NEW force, NEW kept, NEW delivered, MsgrOK(s, kept, delivered)
    PROVE  MsgrOK(Asked(s, force), kept, delivered)
<1>1. \A f : IsJob(NewJob(f)) /\ NewJob(f).at = "wait"
  BY DEF NewJob, NoJob, IsJob, IsRecord
<1>2. CASE s.job = NoJob
  <2>1. Asked(s, force) = [s EXCEPT !.job = NewJob(force)]
    BY <1>2 DEF Asked
  <2> QED BY <1>1, <2>1 DEF MsgrOK, IsMsgr, IsRecord
<1>3. CASE s.job # NoJob /\ s.job.aborted
  <2>1. PICK f : Asked(s, force) = [s EXCEPT !.next = NewJob(f)]
    <3>1. Asked(s, force) = [s EXCEPT !.next = NewJob(force \/ @.force)]
      BY <1>3 DEF Asked
    <3> QED BY <3>1 DEF MsgrOK, IsMsgr, IsRecord
  <2> QED BY <1>1, <2>1 DEF MsgrOK, IsMsgr, IsRecord
<1>4. CASE s.job # NoJob /\ ~s.job.aborted
  <2>1. PICK f, g : Asked(s, force) = [s EXCEPT !.job.force = f, !.job.again = g]
    <3>1. Asked(s, force) = [s EXCEPT !.job.force = s.job.force \/ force, !.job.again = s.job.again \/ Started(s.job)]
      BY <1>4 DEF Asked
    <3> QED BY <3>1, Zenon
  <2> QED BY <2>1, ZenonT(40) DEF MsgrOK, IsMsgr, IsJob, IsRecord
<1> QED BY <1>2, <1>3, <1>4

LEMMA FollowingOK ==
    ASSUME NEW s, NEW kept, NEW delivered, MsgrOK(s, kept, delivered)
    PROVE  MsgrOK(Following(s), kept, delivered)
<1>1. IsJob(NoJob) /\ NoJob.at = "none"
  BY DEF NoJob, IsJob, IsRecord
<1>2. Following(s) = [s EXCEPT !.job = s.next, !.next = NoJob]
  BY DEF Following, MsgrOK, IsMsgr, IsRecord
<1> QED BY <1>1, <1>2 DEF MsgrOK, IsMsgr, IsRecord

(* A job goes on to another stage than the removal of its item. *)
LEMMA StageOK ==
    ASSUME NEW s, NEW kept, NEW delivered, MsgrOK(s, kept, delivered), NEW j, IsJob(j), j.at # "recover"
    PROVE  MsgrOK([s EXCEPT !.job = j], kept, delivered)
BY DEF MsgrOK, IsMsgr, IsRecord

(* An operation begins that has not read anything, or has ended. *)
LEMMA OperationOK ==
    ASSUME NEW s, NEW kept, NEW delivered, MsgrOK(s, kept, delivered), NEW op, IsOp(op), op.kind \notin {"saving", "writing", "stored"}
    PROVE  MsgrOK([s EXCEPT !.op = op], kept, delivered)
BY DEF MsgrOK, IsMsgr, IsRecord

LEMMA GoneOK ==
    ASSUME NEW kept, NEW delivered
    PROVE  MsgrOK(Gone, kept, delivered)
BY DEF Gone, MsgrOK, IsMsgr, IsOp, IsJob, NoOp, NoJob, IsRecord

--------------------------------------------------------------------------------
(* The actions. *)

LEMMA Finished ==
    ASSUME PInv, NEW m \in Msgrs
    PROVE  /\ MsgrOK(msgr[m], Kept, seen.delivered) /\ SeenOK(seen) /\ QueueOK
           /\ MsgrOK(Done(m), Kept, seen.delivered)
           /\ Unlocked(m) \in Msgrs \union {Nothing} /\ lock \in Msgrs \union {Nothing}
<1>1. MsgrOK(msgr[m], Kept, seen.delivered)
  BY DEF PInv
<1> DEFINE j == [msgr[m].job EXCEPT !.at = "next", !.item = Nothing, !.probe = FALSE]
<1>2. Done(m) = [msgr[m] EXCEPT !.job = j]
  BY <1>1 DEF Done
<1>3. IsJob(j) /\ j.at # "recover"
  BY <1>1 DEF MsgrOK, IsJob, IsRecord
<1> HIDE DEF j
<1>4. MsgrOK(Done(m), Kept, seen.delivered)
  BY <1>1, <1>2, <1>3, StageOK
<1> QED BY <1>1, <1>4, Unlocking DEF PInv

(* A job goes on within the queue. *)
LEMMA MovesKeeps ==
    ASSUME PInv, NEW m \in Msgrs, NEW at, at # "recover", Moves(m, at), UNCHANGED <<queue, opens, seen>>,
           lock' \in Msgrs \union {Nothing}
    PROVE  PInv'
<1>1. MsgrOK(msgr[m], Kept, seen.delivered) /\ SameStores
  BY Finished DEF SameStores, PInv
<1>2. MsgrOK([msgr[m] EXCEPT !.job.at = at], Kept, seen.delivered)
  BY <1>1 DEF MsgrOK, IsMsgr, IsJob, IsRecord
<1> QED BY <1>1, <1>2, MoveInPlace DEF Moves

LEMMA SavesKeep ==
    ASSUME PInv, NEW m \in Msgrs, Room \in Nat \ {0},
           \/ SaveReads(m) \/ SaveUpdates(m) \/ SaveSizes(m) \/ SaveFinds(m) \/ SaveEnqueues(m) \/ SaveReports(m)
           \/ \E p \in Packets : Receive(m, p)
    PROVE  PInv'
<1>0. MsgrOK(msgr[m], Kept, seen.delivered) /\ SeenOK(seen) /\ QueueOK /\ lock \in Msgrs \union {Nothing} /\ seen.saved \subseteq Kept
  BY Finished DEF PInv
<1>1. ASSUME NEW p \in Packets, Receive(m, p) PROVE PInv'
  <2>1. CASE p \in opens
    <3>1. seen' = [seen EXCEPT !.delivered = @ \union {p}] /\ UNCHANGED <<msgr, queue, opens, lock>>
      BY <1>1, <2>1 DEF Receive
    <3>2. SeenOK(seen') /\ seen'.saved = seen.saved /\ seen'.evicted = seen.evicted /\ seen'.cleared = seen.cleared /\ seen'.delivered = seen.delivered \union {p}
      BY <1>0, <3>1 DEF SeenOK, IsRecord
    <3>3. Kept \subseteq Kept'
      BY <3>1, <3>2 DEF Kept
    <3>4. \A n \in Msgrs : MsgrOK(msgr[n], Kept', seen'.delivered)
      BY <3>2, <3>3 DEF PInv, MsgrOK
    <3> QED BY <3>1, <3>2, <3>3, <3>4 DEF PInv, QueueOK
  <2>2. CASE p \notin opens
    <3>1. PICK code : Step(m, [msgr[m] EXCEPT !.op = [NoOp EXCEPT !.kind = "save", !.id = p, !.code = code]])
      BY <1>1, <2>2 DEF Receive
    <3>2. IsOp([NoOp EXCEPT !.kind = "save", !.id = p, !.code = code]) /\ [NoOp EXCEPT !.kind = "save", !.id = p, !.code = code].kind = "save"
      BY DEF NoOp, IsOp, IsRecord
    <3>3. SameStores /\ UNCHANGED <<opens, lock>>
      BY <1>0, <1>1, <2>2 DEF Receive, SameStores
    <3> QED BY <1>0, <3>1, <3>2, <3>3, OperationOK, MoveInPlace
  <2> QED BY <2>1, <2>2
<1>2. CASE SaveReads(m)
  <2> DEFINE item == IF IsIn(msgr[m].op.id) THEN ItemOf(msgr[m].op.id) ELSE Nothing
             s == [msgr[m] EXCEPT !.op = [msgr[m].op EXCEPT !.kind = "saving", !.item = item]]
  <2>1. Step(m, s) /\ SameStores /\ UNCHANGED <<opens, lock>>
    BY <1>0, <1>2 DEF SaveReads, SameStores
  <2>2. item # Nothing => IsItem(item) /\ msgr[m].op.id \in Kept
    BY <1>0, ItemOfIsIn, IsInIds DEF Kept
  <2> HIDE DEF item
  <2>3. MsgrOK(s, Kept, seen.delivered)
    BY <1>0, <2>2 DEF MsgrOK, IsMsgr, IsOp, IsRecord
  <2> QED BY <1>0, <2>1, <2>3, MoveInPlace
<1> DEFINE op == msgr[m].op
<1>3. \A kept, delivered : Kept \subseteq kept /\ seen.delivered \subseteq delivered =>
         MsgrOK([msgr[m] EXCEPT !.op = NoOp], kept, delivered)
  <2>1. IsOp(NoOp) /\ NoOp.kind = "none"
    BY DEF NoOp, IsOp, IsRecord
  <2> QED BY <1>0, <2>1 DEF MsgrOK, IsMsgr, IsRecord
<1>4. ASSUME Step(m, [msgr[m] EXCEPT !.op = NoOp]), op.id \in Kept, QueueOK', Ids(queue') = Ids(queue), UNCHANGED <<opens, lock>>,
             SeenOK(seen'), seen'.saved = seen.saved \union {op.id}, seen'.delivered = seen.delivered,
             seen'.evicted = seen.evicted, seen'.cleared = seen.cleared
      PROVE  PInv'
  <2>1. Kept' = Kept
    BY <1>4 DEF Kept
  <2> QED BY <1>0, <1>3, <1>4, <2>1, MoveKeeps
<1>5. CASE SaveUpdates(m)
  <2>1. /\ Step(m, [msgr[m] EXCEPT !.op = NoOp]) /\ op.kind = "saving" /\ op.item # Nothing /\ UNCHANGED <<opens, lock>>
        /\ queue' = queue \/ queue' = Put([op.item EXCEPT !.code = op.code])
    BY <1>5 DEF SaveUpdates
  <2>2. /\ SeenOK(seen') /\ seen'.saved = seen.saved \union {op.id} /\ seen'.delivered = seen.delivered
        /\ seen'.evicted = seen.evicted /\ seen'.cleared = seen.cleared
    BY <1>0, <1>5 DEF SaveUpdates, SeenOK, IsRecord
  <2>3. op.id \in Kept /\ IsItem([op.item EXCEPT !.code = op.code])
    <3>1. op.id \in Kept /\ IsItem(op.item)
      BY <1>0, <2>1 DEF MsgrOK
    <3> QED BY <3>1 DEF IsItem, IsRecord
  <2>4. QueueOK' /\ Ids(queue') = Ids(queue)
    <3>1. CASE queue' = queue
      BY <1>0, <3>1 DEF QueueOK
    <3>2. CASE queue' = Put([op.item EXCEPT !.code = op.code])
      BY <1>0, <2>3, <3>2, PutKeeps
    <3> QED BY <2>1, <3>1, <3>2
  <2> QED BY <1>4, <2>1, <2>2, <2>3, <2>4
<1>6. CASE SaveSizes(m)
  <2> DEFINE sized == [op EXCEPT !.kind = "sized", !.before = Len(queue)]
  <2>1. Step(m, [msgr[m] EXCEPT !.op = sized]) /\ UNCHANGED <<queue, opens, lock>> /\ seen' = [seen EXCEPT !.crossed = @ \ {m}]
    BY <1>6 DEF SaveSizes
  <2>2. IsOp(sized) /\ sized.kind = "sized"
    BY <1>0 DEF MsgrOK, IsOp, IsRecord
  <2>3. SameStores
    BY <1>0, <2>1 DEF SameStores, SeenOK, IsRecord
  <2> HIDE DEF sized
  <2> QED BY <1>0, <2>1, <2>2, <2>3, OperationOK, MoveInPlace
<1>7. CASE SaveFinds(m)
  <2>1. /\ Step(m, [msgr[m] EXCEPT !.op = NoOp]) /\ IsIn(op.id) /\ UNCHANGED <<queue, opens, lock>>
        /\ seen' = [seen EXCEPT !.saved = @ \union {op.id}]
    BY <1>7 DEF SaveFinds
  <2>2. op.id \in Kept
    BY <2>1, IsInIds DEF Kept
  <2>3. /\ SeenOK(seen') /\ seen'.saved = seen.saved \union {op.id} /\ seen'.delivered = seen.delivered
        /\ seen'.evicted = seen.evicted /\ seen'.cleared = seen.cleared
    BY <1>0, <2>1 DEF SeenOK, IsRecord
  <2> QED BY <1>0, <1>4, <2>1, <2>2, <2>3 DEF QueueOK
<1>8. CASE SaveEnqueues(m)
  <2> DEFINE stored == [op EXCEPT !.kind = "stored", !.lost = Evicted]
  <2>1. /\ Step(m, [msgr[m] EXCEPT !.op = stored]) /\ ~IsIn(op.id) /\ UNCHANGED <<opens, lock>>
        /\ queue' = Append(IF Len(queue) = Room THEN Tail(queue) ELSE queue, NewItem(op))
    BY <1>8 DEF SaveEnqueues
  <2>2. /\ SeenOK(seen') /\ seen'.saved = seen.saved /\ seen'.delivered = seen.delivered
        /\ seen'.evicted = (seen.evicted \ {op.id}) \union Evicted /\ seen'.cleared = seen.cleared
    BY <1>0, <1>8 DEF SaveEnqueues, SeenOK, IsRecord
  <2>3. IsItem(NewItem(op)) /\ NewItem(op).id = op.id
    BY DEF NewItem, IsItem, IsRecord
  <2>4. QueueOK' /\ op.id \in Ids(queue') /\ Ids(queue) \subseteq Ids(queue') \union Evicted
    BY <1>0, <2>1, <2>3, AppendKeeps
  <2>5. Kept \subseteq Kept' /\ op.id \in Kept'
    BY <2>2, <2>4 DEF Kept
  <2>6. IsOp(stored) /\ stored.kind = "stored" /\ stored.id = op.id
    BY <1>0 DEF MsgrOK, IsOp, IsRecord
  <2> HIDE DEF stored
  <2>7. MsgrOK([msgr[m] EXCEPT !.op = stored], Kept', seen'.delivered)
    BY <1>0, <2>2, <2>5, <2>6 DEF MsgrOK, IsMsgr, IsRecord
  <2> QED BY <1>0, <2>1, <2>2, <2>4, <2>5, <2>7, MoveKeeps
<1>9. CASE SaveReports(m)
  <2>1. Step(m, [msgr[m] EXCEPT !.op = NoOp]) /\ op.kind = "stored" /\ UNCHANGED <<queue, opens, lock>>
    BY <1>9 DEF SaveReports, ReportsIf
  <2>2. /\ SeenOK(seen') /\ seen'.saved = seen.saved \union {op.id} /\ seen'.delivered = seen.delivered
        /\ seen'.evicted = seen.evicted /\ seen'.cleared = seen.cleared
    <3>1. PICK reported, excused : seen' = [seen EXCEPT !.saved = @ \union {op.id}, !.reported = reported, !.excused = excused]
      <4> DEFINE told == op.before + 1 > Len(queue)
                 lost == op.lost \intersect seen.evicted
      <4>1. seen' = [seen EXCEPT !.saved = @ \union {op.id},
                        !.reported = IF told THEN seen.reported \union lost ELSE seen.reported,
                        !.excused = IF ~told /\ m \in seen.crossed THEN seen.excused \union lost ELSE seen.excused]
        BY <1>9 DEF SaveReports, ReportsIf
      <4> QED BY <4>1
    <3> QED BY <1>0, <3>1 DEF SeenOK, IsRecord
  <2>3. op.id \in Kept
    BY <1>0, <2>1 DEF MsgrOK
  <2> QED BY <1>0, <1>4, <2>1, <2>2, <2>3 DEF QueueOK
<1> QED BY <1>1, <1>2, <1>5, <1>6, <1>7, <1>8, <1>9

LEMMA PassesKeep ==
    ASSUME PInv, NEW m \in Msgrs,
           Begin(m) \/ Snapshot(m) \/ Next1(m) \/ Admit(m) \/ Check(m) \/ JobEnds(m) \/ AbortEnds(m) \/ PassFails(m)
    PROVE  PInv'
<1>0. /\ MsgrOK(msgr[m], Kept, seen.delivered) /\ SeenOK(seen) /\ lock \in Msgrs \union {Nothing}
      /\ Unlocked(m) \in Msgrs \union {Nothing} /\ MsgrOK(Done(m), Kept, seen.delivered)
      /\ IsMsgr(msgr[m]) /\ IsJob(msgr[m].job)
  BY Finished DEF MsgrOK
<1>1. ASSUME NEW j, IsJob(j), j.at # "recover", Step(m, [msgr[m] EXCEPT !.job = j]), UNCHANGED <<queue, opens, lock, seen>>
      PROVE  PInv'
  <2>1. MsgrOK([msgr[m] EXCEPT !.job = j], Kept, seen.delivered) /\ SameStores
    BY <1>0, <1>1, StageOK DEF SameStores
  <2> QED BY <1>0, <1>1, <2>1, MoveInPlace
<1>2. CASE Begin(m)
  <2>1. IsJob(BeginJob(msgr[m].job)) /\ BeginJob(msgr[m].job).at # "recover"
    BY <1>0 DEF BeginJob, IsJob, IsRecord
  <2> QED BY <1>1, <1>2, <2>1 DEF Begin
<1>3. CASE Snapshot(m)
  <2>1. PICK todo, probe : /\ Step(m, [msgr[m] EXCEPT !.job = [@ EXCEPT !.at = "next", !.todo = todo, !.probe = probe, !.absent = FALSE]])
                           /\ UNCHANGED <<queue, opens, lock, seen>>
    BY <1>3, Zenon DEF Snapshot
  <2>2. /\ IsJob([msgr[m].job EXCEPT !.at = "next", !.todo = todo, !.probe = probe, !.absent = FALSE])
        /\ [msgr[m].job EXCEPT !.at = "next", !.todo = todo, !.probe = probe, !.absent = FALSE].at # "recover"
    BY <1>0 DEF IsJob, IsRecord
  <2> QED BY <1>1, <2>1, <2>2
<1>4. CASE Next1(m)
  <2>1. CASE msgr[m].job.todo = <<>>
    BY <1>0, <1>4, <2>1, MovesKeeps DEF Next1
  <2>2. CASE msgr[m].job.todo # <<>>
    <3> DEFINE item == Head(msgr[m].job.todo)
               at == IF msgr[m].job.absent /\ Grouped(item) THEN "next" ELSE "admit"
               j == [msgr[m].job EXCEPT !.todo = Tail(@), !.item = item, !.at = at]
    <3>1. Step(m, [msgr[m] EXCEPT !.job = j]) /\ UNCHANGED <<queue, opens, lock, seen>>
      BY <1>4, <2>2 DEF Next1
    <3>2. at \in {"next", "admit"}
      OBVIOUS
    <3> HIDE DEF item, at
    <3>3. IsJob(j) /\ j.at # "recover"
      BY <1>0, <3>2 DEF IsJob, IsRecord
    <3> QED BY <1>1, <3>1, <3>3
  <2> QED BY <2>1, <2>2
<1>5. CASE Admit(m)
  BY <1>0, <1>5, MovesKeeps DEF Admit
<1>6. CASE Check(m)
  <2>1. CASE \E at \in {"admit", "process"} : Moves(m, at)
    BY <1>0, <1>6, <2>1, MovesKeeps DEF Check
  <2>2. CASE Step(m, Done(m))
    <3>1. SameStores /\ UNCHANGED opens /\ lock' \in Msgrs \union {Nothing}
      BY <1>0, <1>6 DEF Check, SameStores
    <3> QED BY <1>0, <2>2, <3>1, MoveInPlace
  <2> QED BY <1>6, <2>1, <2>2 DEF Check
<1>7. CASE JobEnds(m) \/ AbortEnds(m) \/ PassFails(m)
  <2>1. Step(m, Following(msgr[m])) /\ UNCHANGED <<queue, opens>> /\ lock' \in {lock, Unlocked(m)} /\ seen' \in {seen, NotOwed(m)}
    BY <1>7 DEF JobEnds, AbortEnds, PassFails
  <2>2. SameStores
    BY <1>0, <2>1 DEF SameStores, NotOwed, SeenOK, IsRecord
  <2> QED BY <1>0, <2>1, <2>2, FollowingOK, MoveInPlace
<1> QED BY <1>2, <1>3, <1>4, <1>5, <1>6, <1>7

LEMMA ResultsKeep ==
    ASSUME PInv, NEW m \in Msgrs, Room \in Nat \ {0},
           Deliver(m) \/ Recovered(m) \/ Fail(m) \/ FailReads(m) \/ FailWrites(m) \/ FailEnds(m)
    PROVE  PInv'
<1>0. /\ MsgrOK(msgr[m], Kept, seen.delivered) /\ SeenOK(seen) /\ QueueOK /\ lock \in Msgrs \union {Nothing}
      /\ Unlocked(m) \in Msgrs \union {Nothing} /\ MsgrOK(Done(m), Kept, seen.delivered)
      /\ IsMsgr(msgr[m]) /\ IsJob(msgr[m].job) /\ IsOp(msgr[m].op) /\ seen.saved \subseteq Kept
  BY Finished DEF MsgrOK, PInv
<1>1. CASE Deliver(m)
  <2> DEFINE p == msgr[m].job.item.id
  <2>1. seen' = [seen EXCEPT !.delivered = @ \union {p}] /\ Moves(m, "recover") /\ UNCHANGED <<queue, opens, lock>>
    BY <1>1 DEF Deliver
  <2>2. SeenOK(seen') /\ seen'.saved = seen.saved /\ seen'.evicted = seen.evicted /\ seen'.cleared = seen.cleared /\ seen'.delivered = seen.delivered \union {p}
    BY <1>0, <2>1 DEF SeenOK, IsRecord
  <2>3. Kept \subseteq Kept' /\ QueueOK'
    BY <1>0, <2>1, <2>2 DEF Kept, QueueOK
  <2>4. MsgrOK([msgr[m] EXCEPT !.job.at = "recover"], Kept', seen'.delivered)
    BY <1>0, <2>2, <2>3 DEF MsgrOK, IsMsgr, IsJob, IsRecord
  <2> QED BY <1>0, <2>1, <2>2, <2>3, <2>4, MoveKeeps DEF Moves
<1>2. CASE Recovered(m)
  <2> DEFINE p == msgr[m].job.item.id
  <2>1. queue' = Without(p) /\ Step(m, Done(m)) /\ lock' = Unlocked(m) /\ UNCHANGED opens
    BY <1>2 DEF Recovered
  <2>2. p \in seen.delivered
    BY <1>0, <1>2 DEF Recovered, InJob, MsgrOK
  <2>3. SeenOK(seen') /\ seen'.saved = seen.saved /\ seen'.evicted = seen.evicted /\ seen'.cleared = seen.cleared /\ seen'.delivered = seen.delivered
    BY <1>0, <1>2 DEF Recovered, SeenOK, IsRecord
  <2>4. QueueOK' /\ Ids(queue) \subseteq Ids(queue') \union {p}
    BY <1>0, <2>1, WithoutKeeps
  <2>5. Kept \subseteq Kept'
    BY <2>2, <2>3, <2>4 DEF Kept
  <2>6. MsgrOK(Done(m), Kept', seen'.delivered)
    BY <1>0, <2>3, <2>5 DEF MsgrOK
  <2> QED BY <1>0, <2>1, <2>3, <2>4, <2>5, <2>6, MoveKeeps
<1>3. CASE Fail(m)
  <2>1. PICK code, absent :
           Step(m, [msgr[m] EXCEPT !.op = [NoOp EXCEPT !.kind = "failed", !.id = msgr[m].job.item.id, !.code = code],
                                   !.job = [@ EXCEPT !.at = "failing", !.absent = absent]])
    BY <1>3, Zenon DEF Fail
  <2>2. MsgrOK([msgr[m] EXCEPT !.op = [NoOp EXCEPT !.kind = "failed", !.id = msgr[m].job.item.id, !.code = code],
                               !.job = [@ EXCEPT !.at = "failing", !.absent = absent]], Kept, seen.delivered)
    BY <1>0 DEF MsgrOK, IsMsgr, IsOp, IsJob, NoOp, IsRecord
  <2>3. SameStores /\ UNCHANGED <<opens, lock>>
    BY <1>0, <1>3 DEF Fail, SameStores
  <2> QED BY <1>0, <2>1, <2>2, <2>3, MoveInPlace
<1>4. CASE FailReads(m)
  <2> DEFINE op == msgr[m].op
             read == IF IsIn(op.id) THEN [op EXCEPT !.kind = "writing", !.item = ItemOf(op.id)] ELSE [op EXCEPT !.kind = "ended"]
  <2>1. Step(m, [msgr[m] EXCEPT !.op = read]) /\ SameStores /\ UNCHANGED <<opens, lock>>
    BY <1>0, <1>4 DEF FailReads, SameStores
  <2>2. IsOp(read) /\ read.kind \notin {"saving", "stored"} /\ (read.kind = "writing" => IsItem(read.item))
    <3>1. CASE IsIn(op.id)
      <4>1. IsItem(ItemOf(op.id))
        BY <1>0, <3>1, ItemOfIsIn
      <4> HIDE DEF IsItem
      <4> QED BY <1>0, <3>1, <4>1 DEF IsOp, IsRecord
    <3>2. CASE ~IsIn(op.id)
      BY <1>0, <3>2 DEF IsOp, IsRecord
    <3> QED BY <3>1, <3>2
  <2> HIDE DEF read
  <2>3. MsgrOK([msgr[m] EXCEPT !.op = read], Kept, seen.delivered)
    BY <1>0, <2>2 DEF MsgrOK, IsMsgr, IsRecord
  <2> QED BY <1>0, <2>1, <2>3, MoveInPlace
<1>5. CASE FailWrites(m)
  <2> DEFINE op == msgr[m].op
             spent == IF op.code = "mac" THEN op.item.tries + 1 ELSE op.item.tries
             item == [op.item EXCEPT !.code = op.code, !.tries = spent]
             ended == [op EXCEPT !.kind = "ended"]
  <2>1. queue' = Put(item) /\ Step(m, [msgr[m] EXCEPT !.op = ended]) /\ UNCHANGED <<opens, lock>>
    BY <1>5 DEF FailWrites
  <2>2. IsItem(item)
    <3>1. IsItem(op.item)
      BY <1>0, <1>5 DEF FailWrites, MsgrOK
    <3> HIDE DEF spent
    <3> QED BY <3>1 DEF IsItem, IsRecord
  <2>3. IsOp(ended) /\ ended.kind = "ended"
    BY <1>0 DEF IsOp, IsRecord
  <2> HIDE DEF item, ended
  <2>4. QueueOK' /\ Ids(queue') = Ids(queue)
    BY <1>0, <2>1, <2>2, PutKeeps
  <2>5. SeenOK(seen') /\ seen'.saved = seen.saved /\ seen'.evicted = seen.evicted /\ seen'.cleared = seen.cleared /\ seen'.delivered = seen.delivered
    BY <1>0, <1>5 DEF FailWrites, SeenOK, IsRecord
  <2>6. Kept' = Kept
    BY <2>4, <2>5 DEF Kept
  <2>7. MsgrOK([msgr[m] EXCEPT !.op = ended], Kept', seen'.delivered)
    BY <1>0, <2>3, <2>5, <2>6, OperationOK
  <2> QED BY <1>0, <2>1, <2>4, <2>5, <2>6, <2>7, MoveKeeps
<1>6. CASE FailEnds(m)
  <2>1. Step(m, [Done(m) EXCEPT !.op = NoOp]) /\ SameStores /\ UNCHANGED opens /\ lock' = Unlocked(m)
    BY <1>0, <1>6 DEF FailEnds, SameStores
  <2>2. IsOp(NoOp) /\ NoOp.kind = "none"
    BY DEF NoOp, IsOp, IsRecord
  <2> QED BY <1>0, <2>1, <2>2, OperationOK, MoveInPlace
<1> QED BY <1>1, <1>2, <1>3, <1>4, <1>5, <1>6

LEMMA AppKeeps ==
    ASSUME PInv, NEW m \in Msgrs, Room \in Nat \ {0},
           \/ Start(m) \/ Pause(m) \/ Resume(m) \/ Crash(m) \/ Clear(m)
           \/ \E b \in BOOLEAN : Request(m, b) \/ SetReady(m, b)
    PROVE  PInv'
<1>0. /\ MsgrOK(msgr[m], Kept, seen.delivered) /\ SeenOK(seen) /\ lock \in Msgrs \union {Nothing}
      /\ Unlocked(m) \in Msgrs \union {Nothing} /\ IsMsgr(msgr[m]) /\ IsJob(msgr[m].job)
  BY Finished DEF MsgrOK
<1>1. ASSUME NEW s, Step(m, s), MsgrOK(s, Kept, seen.delivered), UNCHANGED <<queue, opens>>, lock' \in {lock, Unlocked(m)},
             \E owed : seen' = [seen EXCEPT !.owed = owed]
      PROVE  PInv'
  <2>1. SameStores
    BY <1>0, <1>1 DEF SameStores, SeenOK, IsRecord
  <2> QED BY <1>0, <1>1, <2>1, MoveInPlace
<1>2. seen = [seen EXCEPT !.owed = seen.owed]
  BY <1>0 DEF SeenOK, IsRecord
<1>3. CASE Start(m)
  <2>1. \A f : IsJob(NewJob(f)) /\ NewJob(f).at = "wait"
    BY DEF NewJob, NoJob, IsJob, IsRecord
  <2>2. \A ready, f : MsgrOK([Gone EXCEPT !.on = TRUE, !.ready = ready, !.job = NewJob(f)], Kept, seen.delivered)
    <3>1. MsgrOK(Gone, Kept, seen.delivered)
      BY GoneOK
    <3> QED BY <2>1, <3>1 DEF MsgrOK, IsMsgr, IsRecord
  <2> QED BY <1>1, <1>3, <2>2 DEF Start
<1>4. CASE Pause(m)
  <2>1. PICK aborted : Step(m, [msgr[m] EXCEPT !.paused = TRUE, !.next = NoJob, !.job.aborted = aborted])
    BY <1>4, Zenon DEF Pause
  <2>2. MsgrOK([msgr[m] EXCEPT !.paused = TRUE, !.next = NoJob, !.job.aborted = aborted], Kept, seen.delivered)
    BY <1>0 DEF MsgrOK, IsMsgr, IsJob, NoJob, IsRecord
  <2> QED BY <1>1, <1>4, <2>1, <2>2 DEF Pause, NotOwed
<1>5. CASE Resume(m)
  <2>1. MsgrOK([msgr[m] EXCEPT !.paused = FALSE], Kept, seen.delivered)
    BY <1>0 DEF MsgrOK, IsMsgr, IsRecord
  <2> QED BY <1>1, <1>5, <2>1, AskedOK DEF Resume
<1>6. CASE Crash(m)
  <2>1. Step(m, Gone) /\ UNCHANGED <<queue, opens>> /\ lock' = Unlocked(m)
    BY <1>6 DEF Crash
  <2>2. SameStores
    BY <1>0, <1>6, <2>1 DEF Crash, NotOwed, SameStores, SeenOK, IsRecord
  <2> QED BY <1>0, <2>1, <2>2, GoneOK, MoveInPlace
<1>9. CASE Clear(m)
  <2>1. queue' = <<>> /\ Step(m, Gone) /\ lock' = Unlocked(m) /\ UNCHANGED opens
    BY <1>9 DEF Clear
  <2>2. /\ SeenOK(seen') /\ seen'.saved = seen.saved /\ seen'.delivered = seen.delivered
        /\ seen'.evicted = seen.evicted /\ seen'.cleared = seen.cleared \union Ids(queue)
    BY <1>0, <1>9 DEF Clear, SeenOK, IsRecord
  <2>3. QueueOK'
    <3>1. queue' \in Seq({}) /\ Len(queue') = 0
      BY <2>1
    <3> QED BY <3>1 DEF QueueOK
  <2>4. Kept \subseteq Kept' /\ seen.saved \subseteq Kept
    BY <2>2 DEF Kept, PInv
  <2> QED BY <1>0, <2>1, <2>2, <2>3, <2>4, GoneOK, MoveKeeps
<1>7. ASSUME NEW b \in BOOLEAN, Request(m, b) PROVE PInv'
  BY <1>0, <1>1, <1>7, AskedOK DEF Request
<1>8. ASSUME NEW b \in BOOLEAN, SetReady(m, b) PROVE PInv'
  <2>1. MsgrOK([msgr[m] EXCEPT !.ready = b], Kept, seen.delivered)
    BY <1>0 DEF MsgrOK, IsMsgr, IsRecord
  <2> QED BY <1>1, <1>2, <1>8, <2>1 DEF SetReady
<1> QED BY <1>3, <1>4, <1>5, <1>6, <1>7, <1>8, <1>9

LEMMA NextKeeps ==
    ASSUME PInv, [PNext]_pvars, Room \in Nat \ {0}
    PROVE  PInv'
<1>1. ASSUME NEW ps \in SUBSET Packets, KeyArrives(ps) PROVE PInv'
  <2>1. UNCHANGED <<queue, lock, msgr, seen>> /\ opens' \subseteq Packets
    BY <1>1 DEF KeyArrives, PInv
  <2> QED BY <2>1 DEF PInv, QueueOK, Kept
<1>2. CASE UNCHANGED pvars
  BY <1>2 DEF pvars, PInv, QueueOK, Kept
<1> QED BY <1>1, <1>2, SavesKeep, PassesKeep, ResultsKeep, AppKeeps DEF PNext, Works

LEMMA InitPInv == PInit /\ Room \in Nat \ {0} => PInv
<1> SUFFICES ASSUME PInit, Room \in Nat \ {0} PROVE PInv
  OBVIOUS
<1>1. QueueOK
  <2>1. queue = <<>> /\ Len(queue) = 0 /\ queue \in Seq({})
    BY DEF PInit
  <2> QED BY <2>1 DEF QueueOK
<1>2. seen.saved = {} /\ SeenOK(seen)
  BY DEF PInit, SeenOK, IsRecord
<1>3. \A m \in Msgrs : msgr[m] = Gone
  BY DEF PInit
<1>4. DOMAIN msgr = Msgrs /\ msgr = [m \in Msgrs |-> msgr[m]]
  BY DEF PInit
<1> QED BY <1>1, <1>2, <1>3, <1>4, GoneOK DEF PInv, PInit

--------------------------------------------------------------------------------
(* What an addition evicts is reported. *)

(* Only a messenger that is on saves; no addition of another's since the first reading, and the *)
(* space used then was at least what is used now, less the packet that was added.               *)
Measured(s, m, crossed, used) ==
    /\ s.op.kind # "none" => s.on
    /\ s.op.kind \in {"sized", "stored"} => s.op.before \in Nat
    /\ s.op.kind = "sized" /\ m \notin crossed => s.op.before >= used
    /\ s.op.kind = "stored" /\ m \notin crossed /\ s.op.lost # {} => s.op.before + 1 > used

Reports ==
    /\ \A m \in Msgrs : Measured(msgr[m], m, seen.crossed, Len(queue))
    /\ seen.evicted \subseteq seen.reported \union seen.excused \union UNION {InHand(m) : m \in Msgrs}

SameReports ==
    /\ seen'.evicted = seen.evicted /\ seen'.reported = seen.reported
    /\ seen'.excused = seen.excused /\ seen'.crossed = seen.crossed

LEMMA Lengths == ASSUME QueueOK PROVE Len(queue) \in Nat /\ Len(queue) <= Room
BY DEF QueueOK

LEMMA Alone ==
    ASSUME PInv, NEW m \in Msgrs, NEW s, Step(m, s)
    PROVE  msgr'[m] = s /\ \A n \in Msgrs \ {m} : msgr'[n] = msgr[n]
BY DEF PInv, Step

(* A messenger that does not begin, nor end, an addition. *)
LEMMA ReportsStay ==
    ASSUME PInv, PInv', Reports, NEW m \in Msgrs, NEW s, Step(m, s), Len(queue') <= Len(queue), SameReports,
           \/ s.op = msgr[m].op /\ s.on = msgr[m].on
           \/ msgr[m].op.kind # "stored" /\ (s.op.kind = "none" \/ (s.op.kind \notin {"none", "sized", "stored"} /\ s.on))
    PROVE  Reports'
<1>1. msgr'[m] = s /\ \A n \in Msgrs \ {m} : msgr'[n] = msgr[n]
  BY Alone
<1>2. Len(queue) \in Nat /\ Len(queue') \in Nat
  BY DEF PInv, QueueOK
<1>3. \A n \in Msgrs : Measured(msgr[n], n, seen.crossed, Len(queue))
  BY DEF Reports
<1>4. ASSUME NEW n \in Msgrs PROVE Measured(msgr'[n], n, seen'.crossed, Len(queue')) /\ InHand(n)' = InHand(n)
  <2>1. CASE msgr'[n].op = msgr[n].op /\ msgr'[n].on = msgr[n].on
    <3>1. Measured(msgr'[n], n, seen'.crossed, Len(queue'))
      BY <1>2, <1>3, <2>1 DEF Measured, SameReports
    <3> QED BY <2>1, <3>1 DEF InHand
  <2>2. CASE ~(msgr'[n].op = msgr[n].op /\ msgr'[n].on = msgr[n].on)
    <3>1. n = m
      BY <1>1, <2>2
    <3>2. msgr[m].op.kind # "stored" /\ (s.op.kind = "none" \/ (s.op.kind \notin {"none", "sized", "stored"} /\ s.on))
      BY <1>1, <2>2, <3>1
    <3> QED BY <1>1, <3>1, <3>2 DEF Measured, InHand
  <2> QED BY <2>1, <2>2
<1>5. {InHand(n) : n \in Msgrs}' = {InHand(n) : n \in Msgrs}
  BY <1>4
<1> QED BY <1>4, <1>5 DEF Reports, SameReports

LEMMA ReportsOfSaves ==
    ASSUME PInv, PInv', Reports, NEW m \in Msgrs, Room \in Nat \ {0},
           \/ SaveReads(m) \/ SaveUpdates(m) \/ SaveSizes(m) \/ SaveFinds(m) \/ SaveEnqueues(m) \/ SaveReports(m)
           \/ \E p \in Packets : Receive(m, p)
    PROVE  Reports'
<1> DEFINE op == msgr[m].op
<1>0. /\ IsMsgr(msgr[m]) /\ IsOp(op) /\ SeenOK(seen) /\ QueueOK /\ Len(queue) \in Nat /\ Len(queue') \in Nat
      /\ Measured(msgr[m], m, seen.crossed, Len(queue))
  BY Finished DEF MsgrOK, PInv, QueueOK, Reports
<1>1. [msgr[m] EXCEPT !.op = NoOp].op.kind = "none"
  BY <1>0 DEF NoOp, IsMsgr, IsRecord
<1>2. ASSUME NEW p \in Packets, Receive(m, p) PROVE Reports'
  <2>1. op.kind = "none" /\ msgr[m].on /\ UNCHANGED queue
    <3>1. op = NoOp /\ msgr[m].on /\ UNCHANGED queue
      BY <1>2 DEF Receive, Free
    <3> QED BY <3>1 DEF NoOp
  <2>2. SameReports
    BY <1>0, <1>2 DEF Receive, SameReports, SeenOK, IsRecord
  <2>3. CASE p \in opens
    <3>1. UNCHANGED msgr
      BY <1>2, <2>3 DEF Receive
    <3>2. \A n \in Msgrs : InHand(n)' = InHand(n)
      BY <3>1 DEF InHand
    <3>3. {InHand(n) : n \in Msgrs}' = {InHand(n) : n \in Msgrs}
      BY <3>2
    <3> QED BY <2>1, <2>2, <3>1, <3>3 DEF Reports, SameReports
  <2>4. CASE p \notin opens
    <3>1. PICK code : Step(m, [msgr[m] EXCEPT !.op = [NoOp EXCEPT !.kind = "save", !.id = p, !.code = code]])
      BY <1>2, <2>4 DEF Receive
    <3> DEFINE s == [msgr[m] EXCEPT !.op = [NoOp EXCEPT !.kind = "save", !.id = p, !.code = code]]
    <3>2. s.op.kind = "save" /\ s.on
      BY <1>0, <2>1 DEF NoOp, IsMsgr, IsRecord
    <3>3. Step(m, s)
      BY <3>1
    <3> HIDE DEF s
    <3> QED BY <1>0, <2>1, <2>2, <3>2, <3>3, ReportsStay
  <2> QED BY <2>3, <2>4
<1>3. CASE SaveReads(m)
  <2> DEFINE item == IF IsIn(op.id) THEN ItemOf(op.id) ELSE Nothing
             s == [msgr[m] EXCEPT !.op = [op EXCEPT !.kind = "saving", !.item = item]]
  <2>1. Step(m, s) /\ op.kind = "save" /\ UNCHANGED <<queue, seen>>
    BY <1>3 DEF SaveReads
  <2>2. s.op.kind = "saving" /\ s.on
    BY <1>0, <2>1 DEF Measured, IsMsgr, IsOp, IsRecord
  <2> HIDE DEF s
  <2> QED BY <1>0, <2>1, <2>2, ReportsStay DEF SameReports
<1>4. CASE SaveUpdates(m) \/ SaveFinds(m)
  <2>1. Step(m, [msgr[m] EXCEPT !.op = NoOp]) /\ op.kind \in {"saving", "sized"}
    BY <1>4 DEF SaveUpdates, SaveFinds
  <2>2. SameReports
    BY <1>0, <1>4 DEF SaveUpdates, SaveFinds, SameReports, SeenOK, IsRecord
  <2>3. Len(queue') <= Len(queue)
    <3>1. PICK item : queue' = queue \/ queue' = Put(item)
      BY <1>4 DEF SaveUpdates, SaveFinds
    <3>2. Len(Put(item)) = Len(queue)
      BY <1>0 DEF Put
    <3> QED BY <1>0, <3>1, <3>2
  <2> QED BY <1>1, <2>1, <2>2, <2>3, ReportsStay
<1>5. CASE SaveSizes(m)
  <2> DEFINE s == [msgr[m] EXCEPT !.op = [op EXCEPT !.kind = "sized", !.before = Len(queue)]]
  <2>1. Step(m, s) /\ op.kind = "saving" /\ UNCHANGED queue /\ seen' = [seen EXCEPT !.crossed = @ \ {m}]
    BY <1>5 DEF SaveSizes
  <2>2. /\ seen'.evicted = seen.evicted /\ seen'.reported = seen.reported /\ seen'.excused = seen.excused
        /\ seen'.crossed = seen.crossed \ {m}
    BY <1>0, <2>1 DEF SeenOK, IsRecord
  <2>3. s.op.kind = "sized" /\ s.on /\ s.op.before = Len(queue)
    BY <1>0, <2>1 DEF Measured, IsMsgr, IsOp, IsRecord
  <2> HIDE DEF s
  <2>4. msgr'[m] = s /\ \A n \in Msgrs \ {m} : msgr'[n] = msgr[n]
    BY <2>1, Alone
  <2>5. ASSUME NEW n \in Msgrs PROVE Measured(msgr'[n], n, seen'.crossed, Len(queue')) /\ InHand(n)' = InHand(n)
    <3>1. CASE n = m
      BY <1>0, <2>1, <2>3, <2>4, <3>1 DEF Measured, InHand
    <3>2. CASE n # m
      BY <2>1, <2>2, <2>4, <3>2 DEF Measured, InHand, Reports
    <3> QED BY <3>1, <3>2
  <2>6. {InHand(n) : n \in Msgrs}' = {InHand(n) : n \in Msgrs}
    BY <2>5
  <2> QED BY <2>2, <2>5, <2>6 DEF Reports
<1>6. CASE SaveEnqueues(m)
  <2> DEFINE s == [msgr[m] EXCEPT !.op = [op EXCEPT !.kind = "stored", !.lost = Evicted]]
  <2>1. Step(m, s) /\ op.kind = "sized"
    BY <1>6 DEF SaveEnqueues
  <2>2. /\ seen'.evicted = (seen.evicted \ {op.id}) \union Evicted
        /\ seen'.reported = seen.reported \ (Evicted \union {op.id})
        /\ seen'.excused = seen.excused \ (Evicted \union {op.id})
        /\ seen'.crossed = seen.crossed \union (Measuring \ {m})
    BY <1>0, <1>6 DEF SaveEnqueues, SeenOK, IsRecord
  <2>3. s.op.kind = "stored" /\ s.on /\ s.op.before = op.before /\ s.op.lost = Evicted
    BY <1>0, <2>1 DEF Measured, IsMsgr, IsOp, IsRecord
  <2> HIDE DEF s
  <2>4. msgr'[m] = s /\ \A n \in Msgrs \ {m} : msgr'[n] = msgr[n]
    BY <2>1, Alone
  <2>5. Evicted # {} => Len(queue) = Room /\ Len(queue') <= Room
    BY DEF Evicted, PInv, QueueOK
  <2>6. ASSUME NEW n \in Msgrs PROVE Measured(msgr'[n], n, seen'.crossed, Len(queue'))
    <3>1. CASE n = m
      <4>1. m \notin seen'.crossed /\ Evicted # {} => op.before >= Len(queue) /\ Len(queue') <= Len(queue)
        BY <1>0, <2>1, <2>2, <2>5 DEF Measured
      <4>2. op.before \in Nat
        BY <1>0, <2>1 DEF Measured
      <4> QED BY <1>0, <2>3, <2>4, <3>1, <4>1, <4>2 DEF Measured
    <3>2. CASE n # m
      <4>1. msgr'[n] = msgr[n] /\ Measured(msgr[n], n, seen.crossed, Len(queue))
        BY <2>4, <3>2 DEF Reports
      <4>2. msgr[n].op.kind \in {"sized", "stored"} => n \in seen'.crossed
        BY <2>2, <3>2 DEF Measuring
      <4> QED BY <4>1, <4>2 DEF Measured
    <3> QED BY <3>1, <3>2
  <2>7. InHand(m) = {} /\ InHand(m)' = Evicted /\ \A n \in Msgrs \ {m} : InHand(n)' = InHand(n)
    BY <2>1, <2>3, <2>4 DEF InHand
  <2>8. ASSUME NEW x \in seen'.evicted PROVE x \in seen'.reported \/ x \in seen'.excused \/ \E n \in Msgrs : x \in InHand(n)'
    <3>1. CASE x \in Evicted
      BY <2>7, <3>1
    <3>2. CASE x \notin Evicted
      <4>1. x \in seen.evicted /\ x # op.id
        BY <2>2, <2>8, <3>2
      <4>2. x \in seen.reported \/ x \in seen.excused \/ \E n \in Msgrs : x \in InHand(n)
        BY <4>1 DEF Reports
      <4> QED BY <2>2, <2>7, <3>2, <4>1, <4>2
    <3> QED BY <3>1, <3>2
  <2>9. seen'.evicted \subseteq seen'.reported \union seen'.excused \union UNION {InHand(n)' : n \in Msgrs}
    BY <2>8
  <2> QED BY <2>6, <2>9 DEF Reports
<1>7. CASE SaveReports(m)
  <2> DEFINE s == [msgr[m] EXCEPT !.op = NoOp]
             told == op.before + 1 > Len(queue)
             lost == op.lost \intersect seen.evicted
  <2>1. Step(m, s) /\ op.kind = "stored" /\ UNCHANGED queue
    BY <1>7 DEF SaveReports, ReportsIf
  <2>2. /\ seen'.evicted = seen.evicted /\ seen'.crossed = seen.crossed
        /\ seen'.reported = IF told THEN seen.reported \union lost ELSE seen.reported
        /\ seen'.excused = IF ~told /\ m \in seen.crossed THEN seen.excused \union lost ELSE seen.excused
    BY <1>0, <1>7 DEF SaveReports, ReportsIf, SeenOK, IsRecord
  <2>3. s.op.kind = "none"
    BY <1>1
  <2> HIDE DEF s
  <2>4. msgr'[m] = s /\ \A n \in Msgrs \ {m} : msgr'[n] = msgr[n]
    BY <2>1, Alone
  <2>5. ASSUME NEW n \in Msgrs PROVE Measured(msgr'[n], n, seen'.crossed, Len(queue'))
    <3>1. CASE n = m
      BY <2>3, <2>4, <3>1 DEF Measured
    <3>2. CASE n # m
      BY <2>1, <2>2, <2>4, <3>2 DEF Reports
    <3> QED BY <3>1, <3>2
  <2>6. InHand(m) = op.lost /\ \A n \in Msgrs \ {m} : InHand(n)' = InHand(n)
    BY <2>1, <2>4 DEF InHand
  <2>7. ~told /\ m \notin seen.crossed => op.lost = {}
    BY <1>0, <2>1 DEF Measured
  <2>8. ASSUME NEW x \in seen'.evicted PROVE x \in seen'.reported \/ x \in seen'.excused \/ \E n \in Msgrs : x \in InHand(n)'
    <3>1. x \in seen.evicted
      BY <2>2, <2>8
    <3>2. x \in seen.reported \/ x \in seen.excused \/ x \in op.lost \/ \E n \in Msgrs \ {m} : x \in InHand(n)
      BY <2>6, <3>1 DEF Reports
    <3>3. CASE x \in op.lost
      BY <2>2, <2>7, <3>1, <3>3
    <3>4. CASE x \in seen.reported \/ x \in seen.excused
      BY <2>2, <3>4
    <3>5. CASE \E n \in Msgrs \ {m} : x \in InHand(n)
      BY <2>6, <3>5
    <3> QED BY <3>2, <3>3, <3>4, <3>5
  <2>9. seen'.evicted \subseteq seen'.reported \union seen'.excused \union UNION {InHand(n)' : n \in Msgrs}
    BY <2>8
  <2> QED BY <2>5, <2>9 DEF Reports
<1> QED BY <1>2, <1>3, <1>4, <1>5, <1>6, <1>7

LEMMA ReportsOfPasses ==
    ASSUME PInv, PInv', Reports, NEW m \in Msgrs,
           Begin(m) \/ Snapshot(m) \/ Next1(m) \/ Admit(m) \/ Check(m) \/ JobEnds(m) \/ AbortEnds(m) \/ PassFails(m)
    PROVE  Reports'
<1>0. IsMsgr(msgr[m]) /\ IsJob(msgr[m].job) /\ SeenOK(seen) /\ Len(queue) \in Nat
  BY Finished, Lengths DEF MsgrOK
<1>1. ASSUME NEW s, s.op = msgr[m].op, s.on = msgr[m].on, Step(m, s), UNCHANGED queue, SameReports PROVE Reports'
  BY <1>0, <1>1, ReportsStay
<1>2. ASSUME NEW j, Step(m, [msgr[m] EXCEPT !.job = j]), UNCHANGED queue, SameReports PROVE Reports'
  <2>1. [msgr[m] EXCEPT !.job = j].op = msgr[m].op /\ [msgr[m] EXCEPT !.job = j].on = msgr[m].on
    BY <1>0 DEF IsMsgr, IsRecord
  <2> QED BY <1>1, <1>2, <2>1
<1>3. ASSUME NEW at, Moves(m, at), UNCHANGED queue, SameReports PROVE Reports'
  <2>1. Step(m, [msgr[m] EXCEPT !.job = [msgr[m].job EXCEPT !.at = at]])
    BY <1>3 DEF Moves
  <2> QED BY <1>2, <1>3, <2>1
<1>4. UNCHANGED queue /\ (UNCHANGED seen => SameReports)
  BY DEF Begin, Snapshot, Next1, Admit, Check, JobEnds, AbortEnds, PassFails, SameReports
<1>5. CASE Begin(m)
  BY <1>2, <1>4, <1>5 DEF Begin
<1>6. CASE Snapshot(m)
  <2>1. PICK todo, probe : /\ Step(m, [msgr[m] EXCEPT !.job = [@ EXCEPT !.at = "next", !.todo = todo, !.probe = probe, !.absent = FALSE]])
                           /\ UNCHANGED seen
    BY <1>6, Zenon DEF Snapshot
  <2> QED BY <1>2, <1>4, <2>1
<1>7. CASE Next1(m)
  <2>1. UNCHANGED seen
    BY <1>7 DEF Next1
  <2>2. CASE msgr[m].job.todo = <<>>
    <3>1. PICK at : Moves(m, at)
      BY <1>7, <2>2 DEF Next1
    <3> QED BY <1>3, <1>4, <2>1, <3>1
  <2>3. CASE msgr[m].job.todo # <<>>
    <3>1. PICK j : Step(m, [msgr[m] EXCEPT !.job = j])
      BY <1>7, <2>3 DEF Next1
    <3> QED BY <1>2, <1>4, <2>1, <3>1
  <2> QED BY <2>2, <2>3
<1>8. CASE Admit(m)
  BY <1>3, <1>4, <1>8 DEF Admit
<1>9. CASE Check(m)
  <2>1. UNCHANGED seen
    BY <1>9 DEF Check
  <2>2. CASE Step(m, Done(m))
    BY <1>2, <1>4, <2>1, <2>2 DEF Done
  <2>3. CASE \E at \in {"admit", "process"} : Moves(m, at)
    BY <1>3, <1>4, <2>1, <2>3
  <2> QED BY <1>9, <2>2, <2>3 DEF Check
<1>10. CASE JobEnds(m) \/ AbortEnds(m) \/ PassFails(m)
  <2>1. Step(m, Following(msgr[m])) /\ seen' \in {seen, NotOwed(m)}
    BY <1>10 DEF JobEnds, AbortEnds, PassFails
  <2>2. Following(msgr[m]).op = msgr[m].op /\ Following(msgr[m]).on = msgr[m].on
    BY <1>0 DEF Following, IsMsgr, IsRecord
  <2>3. SameReports
    BY <1>0, <2>1 DEF NotOwed, SameReports, SeenOK, IsRecord
  <2> QED BY <1>1, <1>4, <2>1, <2>2, <2>3
<1> QED BY <1>5, <1>6, <1>7, <1>8, <1>9, <1>10

LEMMA ReportsOfResults ==
    ASSUME PInv, PInv', Reports, NEW m \in Msgrs, Room \in Nat \ {0},
           Deliver(m) \/ Recovered(m) \/ Fail(m) \/ FailReads(m) \/ FailWrites(m) \/ FailEnds(m)
    PROVE  Reports'
<1> DEFINE op == msgr[m].op
<1>0. /\ IsMsgr(msgr[m]) /\ IsJob(msgr[m].job) /\ IsOp(op) /\ SeenOK(seen) /\ QueueOK /\ Len(queue) \in Nat
      /\ Measured(msgr[m], m, seen.crossed, Len(queue))
  BY Finished, Lengths DEF MsgrOK, Reports
<1>1. SameReports
  BY <1>0 DEF Deliver, Recovered, Fail, FailReads, FailWrites, FailEnds, SameReports, SeenOK, IsRecord
<1>2. Len(queue') <= Len(queue)
  <2>1. CASE Recovered(m)
    BY <1>0, <2>1, WithoutKeeps DEF Recovered
  <2>2. CASE FailWrites(m)
    <3>1. PICK item : queue' = Put(item)
      BY <2>2 DEF FailWrites
    <3>2. Len(Put(item)) = Len(queue)
      BY <1>0 DEF Put
    <3> QED BY <1>0, <3>1, <3>2
  <2>3. CASE UNCHANGED queue
    BY <1>0, <2>3
  <2> QED BY <2>1, <2>2, <2>3 DEF Deliver, Fail, FailReads, FailEnds
<1>3. ASSUME NEW s, s.op = op, s.on = msgr[m].on, Step(m, s) PROVE Reports'
  BY <1>1, <1>2, <1>3, ReportsStay
<1>4. ASSUME NEW s, op.kind # "stored", s.op.kind = "none" \/ (s.op.kind \in {"failed", "writing", "ended"} /\ s.on), Step(m, s)
      PROVE  Reports'
  BY <1>1, <1>2, <1>4, ReportsStay
<1>5. CASE Deliver(m)
  <2>1. [msgr[m] EXCEPT !.job.at = "recover"].op = op /\ [msgr[m] EXCEPT !.job.at = "recover"].on = msgr[m].on
    BY <1>0 DEF IsMsgr, IsRecord
  <2> QED BY <1>3, <1>5, <2>1 DEF Deliver, Moves
<1>6. CASE Recovered(m)
  <2>1. Done(m).op = op /\ Done(m).on = msgr[m].on
    BY <1>0 DEF Done, IsMsgr, IsRecord
  <2> QED BY <1>3, <1>6, <2>1 DEF Recovered
<1>7. CASE Fail(m)
  <2>1. PICK code, absent :
           Step(m, [msgr[m] EXCEPT !.op = [NoOp EXCEPT !.kind = "failed", !.id = msgr[m].job.item.id, !.code = code],
                                   !.job = [@ EXCEPT !.at = "failing", !.absent = absent]])
    BY <1>7, Zenon DEF Fail
  <2> DEFINE s == [msgr[m] EXCEPT !.op = [NoOp EXCEPT !.kind = "failed", !.id = msgr[m].job.item.id, !.code = code],
                                  !.job = [@ EXCEPT !.at = "failing", !.absent = absent]]
  <2>2. msgr[m].on /\ op.kind = "none"
    <3>1. op = NoOp /\ msgr[m].on
      BY <1>7 DEF Fail, InJob, Free
    <3> QED BY <3>1 DEF NoOp
  <2>3. s.op.kind = "failed" /\ s.on
    BY <1>0, <2>2 DEF NoOp, IsMsgr, IsRecord
  <2>4. Step(m, s)
    BY <2>1
  <2> HIDE DEF s
  <2> QED BY <1>4, <2>2, <2>3, <2>4
<1>8. CASE FailReads(m) \/ FailWrites(m)
  <2>1. PICK read : Step(m, [msgr[m] EXCEPT !.op = read]) /\ read.kind \in {"writing", "ended"} /\ op.kind \in {"failed", "writing"}
    <3>1. CASE FailReads(m)
      <4>1. [op EXCEPT !.kind = "ended"].kind = "ended" /\ \A item : [op EXCEPT !.kind = "writing", !.item = item].kind = "writing"
        BY <1>0 DEF IsOp, IsRecord
      <4> QED BY <3>1, <4>1 DEF FailReads
    <3>2. CASE FailWrites(m)
      <4>1. [op EXCEPT !.kind = "ended"].kind = "ended"
        BY <1>0 DEF IsOp, IsRecord
      <4> QED BY <3>2, <4>1 DEF FailWrites
    <3> QED BY <1>8, <3>1, <3>2
  <2>2. [msgr[m] EXCEPT !.op = read].op = read /\ [msgr[m] EXCEPT !.op = read].on
    BY <1>0, <2>1 DEF Measured, IsMsgr, IsRecord
  <2> QED BY <1>4, <2>1, <2>2
<1>9. CASE FailEnds(m)
  <2>1. Step(m, [Done(m) EXCEPT !.op = NoOp]) /\ op.kind = "ended"
    BY <1>9 DEF FailEnds
  <2>2. [Done(m) EXCEPT !.op = NoOp].op.kind = "none"
    BY <1>0 DEF Done, NoOp, IsMsgr, IsRecord
  <2> QED BY <1>4, <2>1, <2>2
<1> QED BY <1>5, <1>6, <1>7, <1>8, <1>9

LEMMA AskedOp ==
    ASSUME NEW s, NEW force, IsMsgr(s), IsJob(s.job)
    PROVE  Asked(s, force).op = s.op /\ Asked(s, force).on = s.on
<1>1. CASE s.job = NoJob
  BY <1>1 DEF Asked, IsMsgr, IsRecord
<1>2. CASE s.job # NoJob /\ s.job.aborted
  <2>1. Asked(s, force) = [s EXCEPT !.next = NewJob(force \/ @.force)]
    BY <1>2 DEF Asked
  <2> QED BY <2>1 DEF IsMsgr, IsRecord
<1>3. CASE s.job # NoJob /\ ~s.job.aborted
  <2>1. PICK f, g : Asked(s, force) = [s EXCEPT !.job.force = f, !.job.again = g]
    <3>1. Asked(s, force) = [s EXCEPT !.job.force = s.job.force \/ force, !.job.again = s.job.again \/ Started(s.job)]
      BY <1>3 DEF Asked
    <3> QED BY <3>1, Zenon
  <2> QED BY <2>1 DEF IsMsgr, IsRecord
<1> QED BY <1>1, <1>2, <1>3

LEMMA ReportsOfApp ==
    ASSUME PInv, PInv', Reports, NEW m \in Msgrs,
           \/ Start(m) \/ Pause(m) \/ Resume(m) \/ Crash(m) \/ Clear(m)
           \/ \E b \in BOOLEAN : Request(m, b) \/ SetReady(m, b)
    PROVE  Reports'
<1>0. /\ IsMsgr(msgr[m]) /\ IsJob(msgr[m].job) /\ SeenOK(seen) /\ Len(queue) \in Nat
      /\ Measured(msgr[m], m, seen.crossed, Len(queue))
  BY Finished, Lengths DEF MsgrOK, Reports
<1>1. ASSUME NEW s, s.op = msgr[m].op, s.on = msgr[m].on, Step(m, s), UNCHANGED queue, SameReports PROVE Reports'
  BY <1>0, <1>1, ReportsStay
<1>2. Gone.op.kind = "none"
  BY DEF Gone, NoOp
<1>3. CASE Start(m)
  <2>1. PICK ready : Step(m, [Gone EXCEPT !.on = TRUE, !.ready = ready, !.job = NewJob(FALSE)])
    BY <1>3, Zenon DEF Start
  <2> DEFINE s == [Gone EXCEPT !.on = TRUE, !.ready = ready, !.job = NewJob(FALSE)]
  <2>2. s.op.kind = "none" /\ Step(m, s)
    BY <2>1 DEF Gone, NoOp
  <2> HIDE DEF s
  <2>3. msgr[m].op.kind = "none" /\ UNCHANGED queue
    BY <1>0, <1>3 DEF Start, Measured
  <2>4. SameReports
    BY <1>0, <1>3 DEF Start, SameReports, SeenOK, IsRecord
  <2> QED BY <1>0, <2>2, <2>3, <2>4, ReportsStay
<1>4. CASE Pause(m)
  <2>1. PICK aborted : Step(m, [msgr[m] EXCEPT !.paused = TRUE, !.next = NoJob, !.job.aborted = aborted])
    BY <1>4, Zenon DEF Pause
  <2>2. /\ [msgr[m] EXCEPT !.paused = TRUE, !.next = NoJob, !.job.aborted = aborted].op = msgr[m].op
        /\ [msgr[m] EXCEPT !.paused = TRUE, !.next = NoJob, !.job.aborted = aborted].on = msgr[m].on
    BY <1>0 DEF IsMsgr, IsRecord
  <2>3. SameReports /\ UNCHANGED queue
    BY <1>0, <1>4 DEF Pause, NotOwed, SameReports, SeenOK, IsRecord
  <2> QED BY <1>1, <2>1, <2>2, <2>3
<1>5. CASE Resume(m)
  <2> DEFINE t == [msgr[m] EXCEPT !.paused = FALSE]
  <2>1. t.op = msgr[m].op /\ t.on = msgr[m].on /\ IsMsgr(t) /\ IsJob(t.job)
    BY <1>0 DEF IsMsgr, IsRecord
  <2>2. Step(m, Asked(t, FALSE)) /\ UNCHANGED queue
    BY <1>5 DEF Resume
  <2>3. SameReports
    BY <1>0, <1>5 DEF Resume, SameReports, SeenOK, IsRecord
  <2> HIDE DEF t
  <2> QED BY <1>1, <2>1, <2>2, <2>3, AskedOp
<1>6. CASE Crash(m)
  <2>1. /\ Step(m, Gone) /\ UNCHANGED queue
        /\ seen'.evicted = seen.evicted /\ seen'.reported = seen.reported /\ seen'.crossed = seen.crossed
        /\ seen'.excused = seen.excused \union (InHand(m) \intersect seen.evicted)
    BY <1>0, <1>6 DEF Crash, NotOwed, SeenOK, IsRecord
  <2>2. msgr'[m] = Gone /\ \A n \in Msgrs \ {m} : msgr'[n] = msgr[n]
    BY <2>1, Alone
  <2>3. ASSUME NEW n \in Msgrs PROVE Measured(msgr'[n], n, seen'.crossed, Len(queue'))
    <3>1. CASE n = m
      BY <1>2, <2>2, <3>1 DEF Measured
    <3>2. CASE n # m
      BY <2>1, <2>2, <3>2 DEF Reports
    <3> QED BY <3>1, <3>2
  <2>4. \A n \in Msgrs \ {m} : InHand(n)' = InHand(n)
    BY <2>2 DEF InHand
  <2>5. ASSUME NEW x \in seen'.evicted PROVE x \in seen'.reported \/ x \in seen'.excused \/ \E n \in Msgrs : x \in InHand(n)'
    <3>1. x \in seen.evicted
      BY <2>1, <2>5
    <3>2. x \in seen.reported \/ x \in seen.excused \/ x \in InHand(m) \/ \E n \in Msgrs \ {m} : x \in InHand(n)
      BY <3>1 DEF Reports
    <3> QED BY <2>1, <2>4, <3>1, <3>2
  <2>6. seen'.evicted \subseteq seen'.reported \union seen'.excused \union UNION {InHand(n)' : n \in Msgrs}
    BY <2>5
  <2> QED BY <2>3, <2>6 DEF Reports
<1>7. CASE Clear(m)
  <2>1. Step(m, Gone) /\ queue' = <<>> /\ msgr[m].op.kind = "none"
    BY <1>7 DEF Clear, Free, NoOp
  <2>2. SameReports
    BY <1>0, <1>7 DEF Clear, SameReports, SeenOK, IsRecord
  <2>3. Len(queue') <= Len(queue)
    BY <1>0, <2>1
  <2> QED BY <1>2, <2>1, <2>2, <2>3, ReportsStay
<1>8. ASSUME NEW b \in BOOLEAN, Request(m, b) PROVE Reports'
  <2>1. Step(m, Asked(msgr[m], b)) /\ UNCHANGED queue
    BY <1>8 DEF Request
  <2>2. SameReports
    BY <1>0, <1>8 DEF Request, SameReports, SeenOK, IsRecord
  <2> QED BY <1>0, <1>1, <2>1, <2>2, AskedOp
<1>9. ASSUME NEW b \in BOOLEAN, SetReady(m, b) PROVE Reports'
  <2>1. Step(m, [msgr[m] EXCEPT !.ready = b]) /\ UNCHANGED <<queue, seen>>
    BY <1>9 DEF SetReady
  <2>2. [msgr[m] EXCEPT !.ready = b].op = msgr[m].op /\ [msgr[m] EXCEPT !.ready = b].on = msgr[m].on
    BY <1>0 DEF IsMsgr, IsRecord
  <2> QED BY <1>1, <2>1, <2>2 DEF SameReports
<1> QED BY <1>3, <1>4, <1>5, <1>6, <1>7, <1>8, <1>9

LEMMA NextReports ==
    ASSUME PInv, Reports, [PNext]_pvars, Room \in Nat \ {0}
    PROVE  PInv' /\ Reports'
<1>1. PInv'
  BY NextKeeps
<1>2. CASE UNCHANGED pvars \/ \E ps \in SUBSET Packets : KeyArrives(ps)
  <2>1. UNCHANGED <<msgr, queue, seen>>
    BY <1>2 DEF pvars, KeyArrives
  <2>2. \A n \in Msgrs : InHand(n)' = InHand(n)
    BY <2>1 DEF InHand
  <2>3. {InHand(n) : n \in Msgrs}' = {InHand(n) : n \in Msgrs}
    BY <2>2
  <2> QED BY <1>1, <2>1, <2>3 DEF Reports
<1> QED BY <1>1, <1>2, ReportsOfSaves, ReportsOfPasses, ReportsOfResults, ReportsOfApp DEF PNext, Works

(* A packet whose deferral was confirmed is in the queue, in the inbox, evicted or cleared,   *)
(* and what was evicted is reported or about to be, for any number of messengers and packets   *)
(* and any queue with room for one: a save that read the queue before another messenger        *)
(* delivered or evicted its packet, an update of an item that left meanwhile, a cleared        *)
(* channel and a crash anywhere lose nothing else.  An eviction goes unreported only where     *)
(* another messenger added a packet between the two readings of the save that evicted, or the  *)
(* messenger crashed before its report.                                                      *)
THEOREM DeferredStaysKept ==
    ASSUME Room \in Nat \ {0}
    PROVE  PSpec => []DeferredIsKept
<1>1. PInv /\ Reports => DeferredIsKept
  BY DEF PInv, Reports, QueueOK, DeferredIsKept, PTypeOK, Kept, Ids
<1>2. PInit => PInv /\ Reports
  <2> SUFFICES ASSUME PInit PROVE PInv /\ Reports
    OBVIOUS
  <2>1. \A m \in Msgrs : msgr[m] = Gone
    BY DEF PInit
  <2>2. Gone.op.kind = "none"
    BY DEF Gone, NoOp
  <2>3. \A m \in Msgrs : Measured(msgr[m], m, seen.crossed, Len(queue))
    BY <2>1, <2>2 DEF Measured
  <2> QED BY <2>3, InitPInv DEF PInit, Reports
<1>3. PInv /\ Reports /\ [PNext]_pvars => (PInv /\ Reports)'
  BY NextReports
<1> QED BY <1>1, <1>2, <1>3, PTL DEF PSpec
--------------------------------------------------------------------------------
(* The attempts of a packet. *)

(* The tries stored in the queue, by packet. *)
CountsOf(q) == [p \in Ids(q) |-> q[CHOOSE i \in 1..Len(q) : q[i].id = p].tries]
Distinct(q) == \A i, j \in 1..Len(q) : q[i].id = q[j].id => i = j
Counts == CountsOf(queue)

BudgetFields == {"codes", "ready", "locks", "late", "starts", "receptions", "requests", "failures",
                 "pauses", "holds", "crashes", "keys", "clears"}
IsBudget(x) == IsRecord(x, BudgetFields)

(* What the outside counted of a packet is at most what its item says, unless that was *)
(* written back.                                                                      *)
CountOK(c, bad, attempts) ==
    /\ DOMAIN c \subseteq Packets /\ \A p \in DOMAIN c : c[p] \in Nat
    /\ attempts = [p \in Packets |-> attempts[p]]
    /\ \A p \in Packets \ bad : /\ attempts[p] \in Nat /\ attempts[p] <= Tries
                                /\ p \in DOMAIN c => attempts[p] <= c[p]

(* An unforced pass tries what is stored with attempts left. *)
Allowed(p, forced, bad, c) == p \in DOMAIN c \ bad /\ ~forced => c[p] < Tries

Holding == {"locked", "process", "recover", "failing"}
Failures == {"failed", "writing", "ended"}

(* Whoever is at an item holds the lock, and has found it with attempts left. *)
TurnOK(s, m, held, bad, c) ==
    /\ s.job.at \in Holding => held = m
    /\ s.op.kind \in Failures <=> s.job.at = "failing"
    /\ s.op.kind \in {"save", "saving", "sized"} => s.op.id \in Packets
    /\ s.op.kind = "writing" \/ (s.op.kind = "saving" /\ s.op.item # Nothing) => s.op.item.id = s.op.id /\ s.op.item.tries \in Nat
    /\ s.op.kind = "writing" /\ s.op.id \notin bad =>
          s.op.id \in DOMAIN c /\ s.op.item.tries = c[s.op.id] /\ (s.job.forced \/ s.op.item.tries < Tries)
    /\ s.job.at = "process" => Allowed(s.job.item.id, s.job.forced, bad, c)
    /\ s.op.kind = "failed" => Allowed(s.op.id, s.job.forced, bad, c)

Turns == \A m \in Msgrs : TurnOK(msgr[m], m, lock, seen.undone, Counts)
Counted == CountOK(Counts, seen.undone, seen.attempts) /\ Turns
AttemptsInv == PInv /\ IsBudget(budget) /\ (budget.locks => Counted)

TriesAssumptions == Tries \in Nat /\ Tries >= 2 /\ Nothing \notin Msgrs

(* What stays keeps its attempts or is written back; what is stored anew has one at most; and no *)
(* packet goes whose failure is being written.                                                 *)
Stays(c, d, bad) == \A p \in DOMAIN d \ bad : IF p \in DOMAIN c THEN d[p] = c[p] ELSE d[p] \in {0, 1}
Remains(s, d, bad) == s.op.kind = "writing" => s.op.id \in DOMAIN d \union bad

--------------------------------------------------------------------------------
LEMMA CountsAt ==
    ASSUME NEW q, Distinct(q), NEW i \in 1..Len(q)
    PROVE  q[i].id \in DOMAIN CountsOf(q) /\ CountsOf(q)[q[i].id] = q[i].tries
<1>1. q[i].id \in Ids(q)
  BY DEF Ids
<1>2. (CHOOSE j \in 1..Len(q) : q[j].id = q[i].id) = i
  BY DEF Distinct
<1> QED BY <1>1, <1>2 DEF CountsOf

LEMMA CountsFrom ==
    ASSUME NEW q, Distinct(q), NEW p \in DOMAIN CountsOf(q)
    PROVE  \E i \in 1..Len(q) : q[i].id = p /\ CountsOf(q)[p] = q[i].tries
<1>1. PICK i \in 1..Len(q) : q[i].id = p
  BY DEF CountsOf, Ids
<1> QED BY <1>1, CountsAt

LEMMA CountsOfItem ==
    ASSUME QueueOK, NEW p
    PROVE  /\ Distinct(queue) /\ (IsIn(p) <=> p \in DOMAIN Counts)
           /\ IsIn(p) => ItemOf(p).tries = Counts[p]
<1>1. Distinct(queue) /\ (IsIn(p) <=> p \in DOMAIN Counts)
  BY IsInIds DEF QueueOK, Distinct, Counts, CountsOf
<1>2. ASSUME IsIn(p) PROVE ItemOf(p).tries = Counts[p]
  <2>1. Place(p) \in 1..Len(queue) /\ queue[Place(p)].id = p
    BY <1>2, ItemOfIsIn
  <2> QED BY <1>1, <2>1, CountsAt DEF ItemOf, Counts
<1> QED BY <1>1, <1>2

LEMMA CountsPut ==
    ASSUME QueueOK, NEW item, IsItem(item), queue' = Put(item)
    PROVE  /\ DOMAIN Counts' = DOMAIN Counts
           /\ \A p \in DOMAIN Counts : Counts'[p] = IF p = item.id THEN item.tries ELSE Counts[p]
<1>1. /\ Distinct(queue) /\ Distinct(queue') /\ Ids(queue') = Ids(queue) /\ Len(queue') = Len(queue)
      /\ \A i \in 1..Len(queue) : queue'[i] = IF queue[i].id = item.id THEN item ELSE queue[i]
  BY PutKeeps DEF QueueOK, Distinct
<1>2. DOMAIN CountsOf(queue') = DOMAIN CountsOf(queue)
  BY <1>1 DEF CountsOf
<1>3. ASSUME NEW p \in DOMAIN CountsOf(queue)
      PROVE  CountsOf(queue')[p] = IF p = item.id THEN item.tries ELSE CountsOf(queue)[p]
  <2>1. PICK i \in 1..Len(queue) : queue[i].id = p /\ CountsOf(queue)[p] = queue[i].tries
    BY <1>1, <1>3, CountsFrom, SMTT(40)
  <2>2. queue'[i].id = p /\ queue'[i] = IF p = item.id THEN item ELSE queue[i]
    BY <1>1, <2>1
  <2>3. CountsOf(queue')[queue'[i].id] = queue'[i].tries
    BY <1>1, <2>1, CountsAt
  <2> QED BY <2>1, <2>2, <2>3
<1> QED BY <1>2, <1>3 DEF Counts

LEMMA CountsGrow ==
    ASSUME NEW item, Distinct(queue), Distinct(queue'), item.id \notin Ids(queue),
           \A i \in 1..Len(queue') : queue'[i] = item \/ \E j \in 1..Len(queue) : queue'[i] = queue[j]
    PROVE  /\ DOMAIN Counts' \subseteq DOMAIN Counts \union {item.id}
           /\ \A p \in DOMAIN Counts' : Counts'[p] = IF p = item.id THEN item.tries ELSE Counts[p]
<1>1. ASSUME NEW p \in DOMAIN CountsOf(queue')
      PROVE  \/ p = item.id /\ CountsOf(queue')[p] = item.tries
             \/ p # item.id /\ p \in DOMAIN CountsOf(queue) /\ CountsOf(queue')[p] = CountsOf(queue)[p]
  <2>1. PICK i \in 1..Len(queue') : queue'[i].id = p /\ CountsOf(queue')[p] = queue'[i].tries
    BY <1>1, CountsFrom
  <2>2. CASE queue'[i] = item
    BY <2>1, <2>2
  <2>3. CASE \E j \in 1..Len(queue) : queue'[i] = queue[j]
    <3>1. PICK j \in 1..Len(queue) : queue'[i] = queue[j]
      BY <2>3
    <3>2. queue[j].id \in DOMAIN CountsOf(queue) /\ CountsOf(queue)[queue[j].id] = queue[j].tries /\ queue[j].id # item.id
      BY CountsAt DEF Ids
    <3> QED BY <2>1, <3>1, <3>2
  <2> QED BY <2>1, <2>2, <2>3
<1> QED BY <1>1 DEF Counts

LEMMA CountsAppend ==
    ASSUME QueueOK, Room \in Nat \ {0}, NEW item, IsItem(item), ~IsIn(item.id),
           queue' = Append(IF Len(queue) = Room THEN Tail(queue) ELSE queue, item)
    PROVE  /\ DOMAIN Counts' \subseteq DOMAIN Counts \union {item.id} /\ DOMAIN Counts \subseteq DOMAIN Counts' \union Evicted
           /\ item.id \in DOMAIN Counts' /\ Counts'[item.id] = item.tries
           /\ \A p \in DOMAIN Counts' : p # item.id => Counts'[p] = Counts[p]
<1>1. /\ Distinct(queue) /\ Distinct(queue') /\ item.id \in Ids(queue')
      /\ \A i \in 1..Len(queue') : queue'[i] = item \/ \E j \in 1..Len(queue) : queue'[i] = queue[j]
      /\ item.id \notin Ids(queue)
  BY AppendKeeps, IsInIds DEF QueueOK, Distinct
<1>2. /\ DOMAIN Counts' \subseteq DOMAIN Counts \union {item.id}
      /\ \A p \in DOMAIN Counts' : Counts'[p] = IF p = item.id THEN item.tries ELSE Counts[p]
  BY <1>1, CountsGrow
<1>3. item.id \in DOMAIN CountsOf(queue')
  BY <1>1 DEF CountsOf
<1>4. DOMAIN CountsOf(queue) \subseteq DOMAIN CountsOf(queue') \union Evicted
  BY AppendKeeps DEF CountsOf
<1> QED BY <1>2, <1>3, <1>4 DEF Counts

LEMMA CountsWithout ==
    ASSUME QueueOK, Room \in Nat \ {0}, NEW p, queue' = Without(p)
    PROVE  DOMAIN Counts' \subseteq DOMAIN Counts /\ \A q \in DOMAIN Counts' : Counts'[q] = Counts[q]
<1>1. /\ Distinct(queue) /\ Distinct(queue')
      /\ \A i \in 1..Len(queue') : \E j \in 1..Len(queue) : queue'[i] = queue[j]
  BY WithoutKeeps DEF QueueOK, Distinct
<1>2. ASSUME NEW q \in DOMAIN CountsOf(queue')
      PROVE  q \in DOMAIN CountsOf(queue) /\ CountsOf(queue')[q] = CountsOf(queue)[q]
  <2>1. PICK i \in 1..Len(queue') : queue'[i].id = q /\ CountsOf(queue')[q] = queue'[i].tries
    BY <1>1, <1>2, CountsFrom, SMTT(40)
  <2>2. PICK j \in 1..Len(queue) : queue'[i] = queue[j]
    BY <1>1
  <2> QED BY <1>1, <2>1, <2>2, CountsAt
<1> QED BY <1>2 DEF Counts

--------------------------------------------------------------------------------
(* One messenger moves: the others keep their turn. *)

LEMMA AllowedStays ==
    ASSUME TriesAssumptions, NEW c, NEW d, NEW bad, NEW bad2, Stays(c, d, bad2), bad \subseteq bad2,
           NEW p, NEW forced, Allowed(p, forced, bad, c)
    PROVE  Allowed(p, forced, bad2, d)
BY DEF TriesAssumptions, Stays, Allowed

LEMMA OtherTurn ==
    ASSUME TriesAssumptions, NEW c, NEW d, NEW bad, NEW bad2, bad \subseteq bad2, NEW held, NEW held2,
           NEW s, NEW n \in Msgrs, TurnOK(s, n, held, bad, c),
           held = n => held2 = n /\ Stays(c, d, bad2) /\ Remains(s, d, bad2)
    PROVE  TurnOK(s, n, held2, bad2, d)
<1>1. s.job.at \in Holding => held2 = n /\ Stays(c, d, bad2) /\ Remains(s, d, bad2)
  BY DEF TurnOK
<1>2. s.job.at = "process" => Allowed(s.job.item.id, s.job.forced, bad2, d)
  BY <1>1, AllowedStays DEF TurnOK, Holding
<1>3. s.op.kind = "failed" => Allowed(s.op.id, s.job.forced, bad2, d)
  BY <1>1, AllowedStays DEF TurnOK, Holding, Failures
<1>4. s.op.kind = "writing" /\ s.op.id \notin bad2 => s.op.id \in DOMAIN d /\ s.op.id \in DOMAIN c /\ d[s.op.id] = c[s.op.id]
  BY <1>1 DEF TurnOK, Holding, Failures, Stays, Remains
<1> QED BY <1>1, <1>2, <1>3, <1>4 DEF TurnOK

LEMMA TurnsKeep ==
    ASSUME TriesAssumptions, PInv, Turns, NEW m \in Msgrs, NEW s, Step(m, s),
           TurnOK(s, m, lock', seen'.undone, Counts'), seen.undone \subseteq seen'.undone,
           lock' \in {lock, Unlocked(m)} \/ lock = Nothing,
           lock = m \/ (Stays(Counts, Counts', seen'.undone) /\ \A n \in Msgrs : Remains(msgr[n], Counts', seen'.undone))
    PROVE  Turns'
<1>1. msgr'[m] = s /\ \A n \in Msgrs \ {m} : msgr'[n] = msgr[n]
  BY DEF Step, PInv
<1>2. ASSUME NEW n \in Msgrs \ {m} PROVE TurnOK(msgr[n], n, lock', seen'.undone, Counts')
  <2>1. lock = n => lock' = n /\ Stays(Counts, Counts', seen'.undone) /\ Remains(msgr[n], Counts', seen'.undone)
    BY DEF Unlocked, TriesAssumptions
  <2> QED BY <2>1, OtherTurn DEF Turns
<1> QED BY <1>1, <1>2 DEF Turns

(* ... and so the attempts stay counted, if the stores say so. *)
LEMMA CountedInPlace ==
    ASSUME TriesAssumptions, PInv, Counted, NEW m \in Msgrs, NEW s, Step(m, s), UNCHANGED queue,
           seen'.undone = seen.undone, seen'.attempts = seen.attempts,
           TurnOK(s, m, lock', seen.undone, Counts), lock' \in {lock, Unlocked(m)} \/ lock = Nothing
    PROVE  Counted'
<1>1. Counts' = Counts
  BY DEF Counts
<1>2. Stays(Counts, Counts', seen'.undone) /\ \A n \in Msgrs : Remains(msgr[n], Counts', seen'.undone)
  BY <1>1 DEF Stays, Remains, Counted, Turns, TurnOK
<1>3. Turns'
  BY <1>1, <1>2, TurnsKeep DEF Counted
<1> QED BY <1>1, <1>3 DEF Counted

(* A job that is at no item. *)
LEMMA AtNoItem ==
    ASSUME NEW s, NEW t, NEW m, NEW held, NEW held2, NEW bad, NEW c, TurnOK(t, m, held, bad, c),
           t.job.at # "failing", s.op = t.op, s.job.at \notin Holding
    PROVE  TurnOK(s, m, held2, bad, c)
BY DEF TurnOK, Holding, Failures

(* A job that stays where it is. *)
LEMMA AtTheSame ==
    ASSUME NEW s, NEW t, NEW m, NEW held, NEW bad, NEW c, TurnOK(t, m, held, bad, c),
           s.op = t.op, s.job.at = t.job.at, s.job.forced = t.job.forced, s.job.item = t.job.item
    PROVE  TurnOK(s, m, held, bad, c)
BY DEF TurnOK
--------------------------------------------------------------------------------
(* The actions. *)

LEMMA JobKnown ==
    ASSUME PInv, Counted, NEW m \in Msgrs
    PROVE  /\ MsgrOK(msgr[m], Kept, seen.delivered) /\ IsMsgr(msgr[m]) /\ IsJob(msgr[m].job) /\ IsOp(msgr[m].op)
           /\ SeenOK(seen) /\ QueueOK /\ TurnOK(msgr[m], m, lock, seen.undone, Counts)
BY Finished DEF MsgrOK, Counted, Turns

LEMMA BudgetKeeps ==
    ASSUME IsBudget(budget), [PNext]_pvars
    PROVE  IsBudget(budget') /\ budget'.locks = budget.locks
<1>1. ASSUME NEW f \in BudgetFields \ {"locks"}, NEW e, budget' = [budget EXCEPT ![f] = e]
      PROVE  IsBudget(budget') /\ budget'.locks = budget.locks
  BY <1>1 DEF IsBudget, IsRecord, BudgetFields
<1>2. CASE budget' = budget
  BY <1>2
<1>3. {"receptions", "requests", "failures", "starts", "pauses", "holds", "crashes", "keys", "clears"} \subseteq BudgetFields \ {"locks"}
  BY DEF BudgetFields
<1>4. CASE UNCHANGED pvars \/ \E ps \in SUBSET Packets : KeyArrives(ps)
  BY <1>1, <1>2, <1>3, <1>4 DEF pvars, KeyArrives
<1>5. ASSUME NEW m \in Msgrs, \E p \in Packets : Receive(m, p) PROVE IsBudget(budget') /\ budget'.locks = budget.locks
  BY <1>1, <1>3, <1>5 DEF Receive
<1>6. ASSUME NEW m \in Msgrs, \E b \in BOOLEAN : Request(m, b) \/ SetReady(m, b)
      PROVE  IsBudget(budget') /\ budget'.locks = budget.locks
  BY <1>1, <1>2, <1>3, <1>6 DEF Request, SetReady
<1>7. ASSUME NEW m \in Msgrs, PassFails(m) \/ Start(m) \/ Pause(m) \/ Crash(m) \/ Clear(m)
      PROVE  IsBudget(budget') /\ budget'.locks = budget.locks
  BY <1>1, <1>3, <1>7 DEF PassFails, Start, Pause, Crash, Clear
<1>8. ASSUME NEW m \in Msgrs, Resume(m) \/ Works(m) PROVE budget' = budget
  BY <1>8 DEF Resume, Works, SaveReads, SaveUpdates, SaveSizes, SaveFinds, SaveEnqueues, SaveReports, ReportsIf, Begin, Snapshot, Next1, Admit, Check, Deliver, Recovered,
              Fail, FailReads, FailWrites, FailEnds, JobEnds, AbortEnds
<1> QED BY <1>2, <1>4, <1>5, <1>6, <1>7, <1>8 DEF PNext

LEMMA SavesCount ==
    ASSUME TriesAssumptions, Room \in Nat \ {0}, PInv, Counted, NEW m \in Msgrs,
           \/ SaveReads(m) \/ SaveUpdates(m) \/ SaveSizes(m) \/ SaveFinds(m) \/ SaveEnqueues(m) \/ SaveReports(m)
           \/ \E p \in Packets : Receive(m, p)
    PROVE  Counted'
<1> DEFINE op == msgr[m].op
<1>0. /\ IsMsgr(msgr[m]) /\ IsJob(msgr[m].job) /\ IsOp(op) /\ SeenOK(seen) /\ QueueOK
      /\ TurnOK(msgr[m], m, lock, seen.undone, Counts) /\ MsgrOK(msgr[m], Kept, seen.delivered)
  BY JobKnown
<1>1. ASSUME NEW p \in Packets, Receive(m, p) PROVE Counted'
  <2>1. CASE p \in opens
    <3>1. UNCHANGED <<msgr, queue, lock>> /\ seen' = [seen EXCEPT !.delivered = @ \union {p}]
      BY <1>1, <2>1 DEF Receive
    <3>2. seen'.undone = seen.undone /\ seen'.attempts = seen.attempts
      BY <1>0, <3>1 DEF SeenOK, IsRecord
    <3> QED BY <3>1, <3>2 DEF Counted, Turns, Counts
  <2>2. CASE p \notin opens
    <3>1. PICK code : Step(m, [msgr[m] EXCEPT !.op = [NoOp EXCEPT !.kind = "save", !.id = p, !.code = code]])
      BY <1>1, <2>2 DEF Receive
    <3>2. op.kind = "none" /\ UNCHANGED <<queue, lock, seen>>
      <4>1. op = NoOp
        BY <1>1 DEF Receive, Free
      <4>2. UNCHANGED <<queue, lock, seen>>
        BY <1>1, <2>2 DEF Receive
      <4> QED BY <4>1, <4>2 DEF NoOp
    <3>3. TurnOK([msgr[m] EXCEPT !.op = [NoOp EXCEPT !.kind = "save", !.id = p, !.code = code]], m, lock, seen.undone, Counts)
      BY <1>0, <3>2 DEF TurnOK, NoOp, Failures, IsMsgr, IsRecord
    <3> QED BY <3>1, <3>2, <3>3, CountedInPlace
  <2> QED BY <2>1, <2>2
<1>2. CASE SaveReads(m)
  <2> DEFINE item == IF IsIn(op.id) THEN ItemOf(op.id) ELSE Nothing
             s == [msgr[m] EXCEPT !.op = [op EXCEPT !.kind = "saving", !.item = item]]
  <2>1. Step(m, s) /\ op.kind = "save" /\ UNCHANGED <<queue, lock, seen>>
    BY <1>2 DEF SaveReads
  <2>2. item # Nothing => item.id = op.id /\ item.tries \in Nat
    <3>1. ASSUME IsIn(op.id) PROVE ItemOf(op.id).id = op.id /\ ItemOf(op.id).tries \in Nat
      BY <1>0, <3>1, ItemOfIsIn, CountsOfItem DEF Counted, CountOK
    <3> QED BY <3>1
  <2> HIDE DEF item
  <2>3. TurnOK(s, m, lock, seen.undone, Counts)
    BY <1>0, <2>1, <2>2 DEF TurnOK, Failures, IsMsgr, IsOp, IsRecord
  <2> QED BY <2>1, <2>3, CountedInPlace
<1> DEFINE ended == [msgr[m] EXCEPT !.op = NoOp]
           counting == CountOK(Counts, seen.undone, seen.attempts)
<1>3. ended.op.kind = "none" /\ ended.job = msgr[m].job /\ counting
  BY <1>0 DEF NoOp, IsMsgr, IsRecord, Counted
<1>4. CASE SaveFinds(m) \/ SaveReports(m)
  <2>1. Step(m, ended) /\ op.kind \in {"sized", "stored"} /\ UNCHANGED <<queue, lock>>
    BY <1>4 DEF SaveFinds, SaveReports, ReportsIf
  <2>2. seen'.undone = seen.undone /\ seen'.attempts = seen.attempts
    BY <1>0, <1>4 DEF SaveFinds, SaveReports, ReportsIf, SeenOK, IsRecord
  <2>3. TurnOK(ended, m, lock, seen.undone, Counts)
    BY <1>0, <1>3, <2>1 DEF TurnOK, Failures
  <2> HIDE DEF ended
  <2> QED BY <2>1, <2>2, <2>3, CountedInPlace
<1>5. CASE SaveSizes(m)
  <2> DEFINE s == [msgr[m] EXCEPT !.op = [op EXCEPT !.kind = "sized", !.before = Len(queue)]]
  <2>1. Step(m, s) /\ op.kind = "saving" /\ UNCHANGED <<queue, lock>>
    BY <1>5 DEF SaveSizes
  <2>2. seen'.undone = seen.undone /\ seen'.attempts = seen.attempts
    BY <1>0, <1>5 DEF SaveSizes, SeenOK, IsRecord
  <2>3. s.op.kind = "sized" /\ s.op.id = op.id /\ s.job = msgr[m].job
    BY <1>0 DEF IsMsgr, IsOp, IsRecord
  <2> HIDE DEF s
  <2>4. TurnOK(s, m, lock, seen.undone, Counts)
    BY <1>0, <2>1, <2>3 DEF TurnOK, Failures
  <2> QED BY <2>1, <2>2, <2>4, CountedInPlace
<1>6. ASSUME NEW s, s.op.kind \in {"none", "stored"}, s.job = msgr[m].job, Step(m, s), UNCHANGED lock, op.kind \in {"saving", "sized"},
             CountOK(Counts', seen'.undone, seen'.attempts), Stays(Counts, Counts', seen'.undone), seen.undone \subseteq seen'.undone,
             (DOMAIN Counts \ DOMAIN Counts') \intersect Counting \subseteq seen'.undone
      PROVE  Counted'
  <2>1. TurnOK(s, m, lock, seen.undone, Counts)
    BY <1>0, <1>6 DEF TurnOK, Failures
  <2>2. \A n \in Msgrs : Remains(msgr[n], Counts', seen'.undone)
    <3>1. ASSUME NEW n \in Msgrs, msgr[n].op.kind = "writing" PROVE msgr[n].op.id \in DOMAIN Counts' \union seen'.undone
      <4>1. msgr[n].op.id \in DOMAIN Counts \union seen.undone /\ msgr[n].op.id \in Counting
        BY <3>1 DEF Counted, Turns, TurnOK, Counting
      <4> QED BY <1>6, <4>1
    <3> QED BY <3>1 DEF Remains
  <2>3. Remains(s, Counts', seen'.undone)
    BY <1>6 DEF Remains
  <2>4. TurnOK(s, m, lock', seen'.undone, Counts')
    BY <1>6, <2>1, <2>3, OtherTurn
  <2>5. Turns'
    BY <1>6, <2>2, <2>4, TurnsKeep DEF Counted
  <2> QED BY <1>6, <2>5 DEF Counted
<1>7. CASE SaveUpdates(m)
  <2> DEFINE undone == IsIn(op.id) /\ op.item.code # op.code /\ op.item.tries # ItemOf(op.id).tries
  <2>1. Step(m, ended) /\ op.kind = "saving" /\ op.item # Nothing /\ UNCHANGED lock
    BY <1>7 DEF SaveUpdates
  <2>2. /\ seen'.undone = IF undone THEN seen.undone \union {op.id} ELSE seen.undone
        /\ seen'.attempts = seen.attempts
    BY <1>0, <1>7 DEF SaveUpdates, SeenOK, IsRecord
  <2>3. op.id \in Packets /\ op.item.id = op.id /\ op.item.tries \in Nat
    BY <1>0, <2>1 DEF TurnOK
  <2>4. CountOK(Counts', seen'.undone, seen'.attempts) /\ Stays(Counts, Counts', seen'.undone) /\ DOMAIN Counts' = DOMAIN Counts
    <3>1. CASE queue' = queue
      <4>1. Counts' = Counts
        BY <3>1 DEF Counts
      <4> QED BY <1>3, <2>2, <4>1 DEF CountOK, Stays
    <3>2. CASE op.item.code # op.code /\ queue' = Put([op.item EXCEPT !.code = op.code])
      <4> DEFINE item == [op.item EXCEPT !.code = op.code]
      <4>1. IsItem(op.item)
        BY <1>0, <2>1 DEF MsgrOK
      <4>2. IsItem(item) /\ item.id = op.id /\ item.tries = op.item.tries
        BY <2>3, <4>1 DEF IsItem, IsRecord
      <4>3. queue' = Put(item)
        BY <3>2
      <4> HIDE DEF item
      <4>4. /\ DOMAIN Counts' = DOMAIN Counts
            /\ \A p \in DOMAIN Counts : Counts'[p] = IF p = op.id THEN op.item.tries ELSE Counts[p]
        BY <1>0, <4>2, <4>3, CountsPut
      <4>5. op.id \in DOMAIN Counts /\ op.item.tries # Counts[op.id] => op.id \in seen'.undone
        BY <1>0, <2>2, <3>2, CountsOfItem
      <4>6. seen.undone \subseteq seen'.undone
        BY <2>2
      <4> QED BY <1>3, <2>2, <2>3, <4>4, <4>5, <4>6 DEF CountOK, Stays
    <3> QED BY <1>7, <3>1, <3>2 DEF SaveUpdates
  <2>5. seen.undone \subseteq seen'.undone
    BY <2>2
  <2> HIDE DEF ended
  <2> QED BY <1>3, <1>6, <2>1, <2>4, <2>5
<1>8. CASE SaveEnqueues(m)
  <2> DEFINE s == [msgr[m] EXCEPT !.op = [op EXCEPT !.kind = "stored", !.lost = Evicted]]
  <2>1. /\ Step(m, s) /\ op.kind = "sized" /\ ~IsIn(op.id) /\ UNCHANGED lock
        /\ queue' = Append(IF Len(queue) = Room THEN Tail(queue) ELSE queue, NewItem(op))
    BY <1>8 DEF SaveEnqueues
  <2>2. /\ seen'.undone = seen.undone \union (Evicted \intersect Counting)
        /\ seen'.attempts = [seen.attempts EXCEPT ![op.id] = NewItem(op).tries]
    BY <1>0, <1>8 DEF SaveEnqueues, SeenOK, IsRecord
  <2>3. op.id \in Packets
    BY <1>0, <2>1 DEF TurnOK
  <2>4. s.op.kind = "stored" /\ s.job = msgr[m].job
    BY <1>0 DEF IsMsgr, IsOp, IsRecord
  <2>5. IsItem(NewItem(op)) /\ NewItem(op).id = op.id /\ NewItem(op).tries \in {0, 1}
    BY DEF NewItem, IsItem, IsRecord
  <2>6. /\ DOMAIN Counts' \subseteq DOMAIN Counts \union {op.id} /\ DOMAIN Counts \subseteq DOMAIN Counts' \union Evicted
        /\ op.id \in DOMAIN Counts' /\ Counts'[op.id] = NewItem(op).tries
        /\ \A p \in DOMAIN Counts' : p # op.id => Counts'[p] = Counts[p]
    BY <1>0, <2>1, <2>5, CountsAppend
  <2>7. seen.undone \subseteq seen'.undone /\ (DOMAIN Counts \ DOMAIN Counts') \intersect Counting \subseteq seen'.undone
    BY <2>2, <2>6
  <2>8. op.id \notin DOMAIN Counts
    BY <1>0, <2>1, CountsOfItem
  <2>9. CountOK(Counts', seen'.undone, seen'.attempts) /\ Stays(Counts, Counts', seen'.undone)
    BY <1>3, <2>2, <2>3, <2>5, <2>6, <2>7, <2>8 DEF CountOK, Stays, TriesAssumptions
  <2> HIDE DEF s
  <2> QED BY <1>6, <2>1, <2>4, <2>7, <2>9
<1> QED BY <1>1, <1>2, <1>4, <1>5, <1>7, <1>8

LEMMA PassesCount ==
    ASSUME TriesAssumptions, budget.locks, PInv, Counted, NEW m \in Msgrs,
           Begin(m) \/ Snapshot(m) \/ Next1(m) \/ Admit(m) \/ Check(m) \/ JobEnds(m) \/ AbortEnds(m) \/ PassFails(m)
    PROVE  Counted'
<1>0. /\ IsMsgr(msgr[m]) /\ IsJob(msgr[m].job) /\ IsOp(msgr[m].op) /\ SeenOK(seen) /\ QueueOK
      /\ TurnOK(msgr[m], m, lock, seen.undone, Counts) /\ MsgrOK(msgr[m], Kept, seen.delivered)
  BY JobKnown
<1>1. ASSUME NEW s, Step(m, s), s.op = msgr[m].op, s.job.at \notin Holding, msgr[m].job.at # "failing",
             lock' \in {lock, Unlocked(m)}, UNCHANGED queue,
             seen'.undone = seen.undone, seen'.attempts = seen.attempts
      PROVE  Counted'
  <2>1. TurnOK(s, m, lock', seen.undone, Counts)
    BY <1>0, <1>1, AtNoItem
  <2> QED BY <1>1, <2>1, CountedInPlace
<1>2. \A j : [msgr[m] EXCEPT !.job = j].op = msgr[m].op /\ [msgr[m] EXCEPT !.job = j].job = j
  BY <1>0 DEF IsMsgr, IsRecord
<1>3. CASE Begin(m)
  <2>1. BeginJob(msgr[m].job).at = "read"
    BY <1>0 DEF BeginJob, IsJob, IsRecord
  <2> QED BY <1>1, <1>2, <1>3, <2>1 DEF Begin, InJob, Holding
<1>4. CASE Snapshot(m)
  <2>1. PICK todo, probe : /\ Step(m, [msgr[m] EXCEPT !.job = [msgr[m].job EXCEPT !.at = "next", !.todo = todo, !.probe = probe, !.absent = FALSE]])
                           /\ UNCHANGED <<queue, lock, seen>> /\ msgr[m].job.at = "read"
    BY <1>4, Zenon DEF Snapshot, InJob
  <2> DEFINE j == [msgr[m].job EXCEPT !.at = "next", !.todo = todo, !.probe = probe, !.absent = FALSE]
  <2>2. j.at = "next"
    BY <1>0 DEF IsJob, IsRecord
  <2> HIDE DEF j
  <2>3. Step(m, [msgr[m] EXCEPT !.job = j])
    BY <2>1 DEF j
  <2> QED BY <1>1, <1>2, <2>1, <2>2, <2>3 DEF Holding
<1>5. CASE Next1(m)
  <2>1. CASE msgr[m].job.todo = <<>>
    <3>1. PICK at \in {"wait", "ending"} : Step(m, [msgr[m] EXCEPT !.job.at = at])
      BY <1>5, <2>1 DEF Next1, Moves
    <3>2. [msgr[m] EXCEPT !.job.at = at].op = msgr[m].op /\ [msgr[m] EXCEPT !.job.at = at].job.at = at
      BY <1>0 DEF IsMsgr, IsJob, IsRecord
    <3> QED BY <1>1, <1>5, <3>1, <3>2 DEF Next1, InJob, Holding
  <2>2. CASE msgr[m].job.todo # <<>>
    <3> DEFINE item == Head(msgr[m].job.todo)
               at == IF msgr[m].job.absent /\ Grouped(item) THEN "next" ELSE "admit"
               j == [msgr[m].job EXCEPT !.todo = Tail(@), !.item = item, !.at = at]
    <3>1. Step(m, [msgr[m] EXCEPT !.job = j]) /\ UNCHANGED <<queue, lock, seen>> /\ msgr[m].job.at = "next"
      BY <1>5, <2>2 DEF Next1, InJob
    <3>2. at \in {"next", "admit"}
      OBVIOUS
    <3> HIDE DEF item, at
    <3>3. j.at = at
      BY <1>0 DEF IsJob, IsRecord
    <3> HIDE DEF j
    <3> QED BY <1>1, <1>2, <3>1, <3>2, <3>3 DEF Holding
  <2> QED BY <2>1, <2>2
<1>6. CASE Admit(m)
  <2> DEFINE s == [msgr[m] EXCEPT !.job.at = "locked"]
  <2>1. Step(m, s) /\ lock = Nothing /\ lock' = m /\ UNCHANGED <<queue, seen>> /\ msgr[m].job.at = "admit"
    BY <1>6 DEF Admit, InJob, Moves
  <2>2. s.op = msgr[m].op /\ s.job.at = "locked"
    BY <1>0 DEF IsMsgr, IsJob, IsRecord
  <2> HIDE DEF s
  <2>3. TurnOK(s, m, lock', seen.undone, Counts)
    BY <1>0, <2>1, <2>2 DEF TurnOK, Failures
  <2> QED BY <2>1, <2>3, CountedInPlace
<1>7. CASE Check(m)
  <2>0. msgr[m].job.at = "locked" /\ UNCHANGED <<queue, seen>>
    BY <1>7 DEF Check, InJob
  <2>1. CASE Moves(m, "admit") /\ lock' = Unlocked(m)
    <3>1. [msgr[m] EXCEPT !.job.at = "admit"].op = msgr[m].op /\ [msgr[m] EXCEPT !.job.at = "admit"].job.at = "admit"
      BY <1>0 DEF IsMsgr, IsJob, IsRecord
    <3> QED BY <1>1, <2>0, <2>1, <3>1 DEF Moves, Holding
  <2>2. CASE Moves(m, "process") /\ lock' = lock /\ IsIn(msgr[m].job.item.id) /\ Tried(ItemOf(msgr[m].job.item.id), msgr[m].job.forced)
    <3> DEFINE s == [msgr[m] EXCEPT !.job.at = "process"]
               p == msgr[m].job.item.id
    <3>1. s.op = msgr[m].op /\ s.job.at = "process" /\ s.job.item = msgr[m].job.item /\ s.job.forced = msgr[m].job.forced
      BY <1>0 DEF IsMsgr, IsJob, IsRecord
    <3>2. Step(m, s)
      BY <2>2 DEF Moves
    <3> HIDE DEF s
    <3>3. Allowed(p, msgr[m].job.forced, seen.undone, Counts)
      BY <1>0, <2>2, CountsOfItem DEF Allowed, Tried
    <3>4. TurnOK(s, m, lock', seen.undone, Counts)
      BY <1>0, <2>0, <2>2, <3>1, <3>3 DEF TurnOK, Holding, Failures
    <3> QED BY <2>0, <2>2, <3>2, <3>4, CountedInPlace
  <2>3. CASE Step(m, Done(m)) /\ lock' = Unlocked(m)
    <3>1. Done(m).op = msgr[m].op /\ Done(m).job.at = "next"
      BY <1>0 DEF Done, IsMsgr, IsJob, IsRecord
    <3> QED BY <1>1, <2>0, <2>3, <3>1 DEF Holding
  <2> QED BY <1>7, <2>1, <2>2, <2>3 DEF Check
<1>8. CASE JobEnds(m) \/ AbortEnds(m) \/ PassFails(m)
  <2>1. Step(m, Following(msgr[m])) /\ UNCHANGED queue /\ lock' \in {lock, Unlocked(m)} /\ seen' \in {seen, NotOwed(m)}
    BY <1>8 DEF JobEnds, AbortEnds, PassFails
  <2>2. seen'.undone = seen.undone /\ seen'.attempts = seen.attempts
    BY <1>0, <2>1 DEF NotOwed, SeenOK, IsRecord
  <2>3. Following(msgr[m]).op = msgr[m].op /\ Following(msgr[m]).job = msgr[m].next
    BY <1>0 DEF Following, IsMsgr, IsRecord
  <2>4. msgr[m].next.at \in {"none", "wait"}
    BY <1>0 DEF MsgrOK
  <2>5. msgr[m].job.at # "failing"
    <3>1. CASE JobEnds(m)
      BY <3>1 DEF JobEnds, InJob
    <3>2. CASE AbortEnds(m) \/ PassFails(m)
      <4>1. msgr[m].op.kind = "none"
        BY <3>2 DEF AbortEnds, PassFails, Free, NoOp
      <4> QED BY <1>0, <4>1 DEF TurnOK, Failures
    <3> QED BY <1>8, <3>1, <3>2
  <2> QED BY <1>1, <2>1, <2>2, <2>3, <2>4, <2>5 DEF Holding
<1> QED BY <1>3, <1>4, <1>5, <1>6, <1>7, <1>8

LEMMA ResultsCount ==
    ASSUME TriesAssumptions, Room \in Nat \ {0}, budget.locks, PInv, Counted, NEW m \in Msgrs,
           Deliver(m) \/ Recovered(m) \/ Fail(m) \/ FailReads(m) \/ FailWrites(m) \/ FailEnds(m)
    PROVE  Counted'
<1> DEFINE op == msgr[m].op
           job == msgr[m].job
<1>0. /\ IsMsgr(msgr[m]) /\ IsJob(job) /\ IsOp(op) /\ SeenOK(seen) /\ QueueOK
      /\ TurnOK(msgr[m], m, lock, seen.undone, Counts) /\ MsgrOK(msgr[m], Kept, seen.delivered)
      /\ CountOK(Counts, seen.undone, seen.attempts)
  BY JobKnown DEF Counted
<1>1. Done(m).op = op /\ Done(m).job.at = "next"
  BY <1>0 DEF Done, IsMsgr, IsJob, IsRecord
<1>2. CASE Deliver(m)
  <2> DEFINE s == [msgr[m] EXCEPT !.job.at = "recover"]
  <2>1. /\ Step(m, s) /\ job.at = "process" /\ UNCHANGED <<queue, lock>>
        /\ seen' = [seen EXCEPT !.delivered = @ \union {job.item.id}]
    BY <1>2 DEF Deliver, Moves, InJob
  <2>2. seen'.undone = seen.undone /\ seen'.attempts = seen.attempts
    BY <1>0, <2>1 DEF SeenOK, IsRecord
  <2>3. s.op = op /\ s.job.at = "recover"
    BY <1>0 DEF IsMsgr, IsJob, IsRecord
  <2> HIDE DEF s
  <2>4. TurnOK(s, m, lock', seen.undone, Counts)
    BY <1>0, <2>1, <2>3 DEF TurnOK, Holding, Failures
  <2> QED BY <2>1, <2>2, <2>4, CountedInPlace
<1>3. CASE Recovered(m)
  <2>1. queue' = Without(job.item.id) /\ Step(m, Done(m)) /\ lock' = Unlocked(m) /\ job.at = "recover"
    BY <1>3 DEF Recovered, InJob
  <2>2. seen'.undone = seen.undone /\ seen'.attempts = seen.attempts
    BY <1>0, <1>3 DEF Recovered, SeenOK, IsRecord
  <2>3. DOMAIN Counts' \subseteq DOMAIN Counts /\ \A q \in DOMAIN Counts' : Counts'[q] = Counts[q]
    BY <1>0, <2>1, CountsWithout
  <2>4. CountOK(Counts', seen'.undone, seen'.attempts) /\ Stays(Counts, Counts', seen'.undone)
    BY <1>0, <2>2, <2>3 DEF CountOK, Stays
  <2>5. TurnOK(Done(m), m, lock', seen.undone, Counts')
    BY <1>0, <1>1, <2>1 DEF TurnOK, Holding, Failures
  <2>6. lock = m
    BY <1>0, <2>1 DEF TurnOK, Holding
  <2> QED BY <2>1, <2>2, <2>4, <2>5, <2>6, TurnsKeep DEF Counted
<1>4. CASE Fail(m)
  <2>1. PICK code, absent :
           Step(m, [msgr[m] EXCEPT !.op = [NoOp EXCEPT !.kind = "failed", !.id = msgr[m].job.item.id, !.code = code],
                                   !.job = [@ EXCEPT !.at = "failing", !.absent = absent]])
    BY <1>4, Zenon DEF Fail
  <2> DEFINE s == [msgr[m] EXCEPT !.op = [NoOp EXCEPT !.kind = "failed", !.id = msgr[m].job.item.id, !.code = code],
                                  !.job = [@ EXCEPT !.at = "failing", !.absent = absent]]
  <2>2. job.at = "process" /\ UNCHANGED <<queue, lock, seen>>
    BY <1>4 DEF Fail, InJob
  <2>3. s.op.kind = "failed" /\ s.op.id = job.item.id /\ s.job.at = "failing" /\ s.job.forced = job.forced
    BY <1>0 DEF NoOp, IsMsgr, IsJob, IsRecord
  <2>4. Step(m, s)
    BY <2>1
  <2> HIDE DEF s
  <2>5. TurnOK(s, m, lock', seen.undone, Counts)
    BY <1>0, <2>2, <2>3 DEF TurnOK, Holding, Failures
  <2> QED BY <2>2, <2>4, <2>5, CountedInPlace
<1>5. CASE FailReads(m)
  <2> DEFINE read == IF IsIn(op.id) THEN [op EXCEPT !.kind = "writing", !.item = ItemOf(op.id)] ELSE [op EXCEPT !.kind = "ended"]
             s == [msgr[m] EXCEPT !.op = read]
  <2>1. Step(m, s) /\ op.kind = "failed" /\ UNCHANGED <<queue, lock, seen>>
    BY <1>5 DEF FailReads
  <2>2. s.op = read /\ s.job = job
    BY <1>0 DEF IsMsgr, IsRecord
  <2>3. \/ read.kind = "ended"
        \/ /\ read.kind = "writing" /\ read.id = op.id /\ read.item.id = op.id /\ read.item.tries \in Nat
           /\ op.id \in DOMAIN Counts /\ read.item.tries = Counts[op.id]
           /\ op.id \notin seen.undone => job.forced \/ read.item.tries < Tries
    <3>1. CASE IsIn(op.id)
      <4>1. ItemOf(op.id).id = op.id /\ op.id \in DOMAIN Counts /\ ItemOf(op.id).tries = Counts[op.id]
        BY <1>0, <3>1, ItemOfIsIn, CountsOfItem
      <4>2. ItemOf(op.id).tries \in Nat /\ (op.id \notin seen.undone => job.forced \/ ItemOf(op.id).tries < Tries)
        BY <1>0, <2>1, <4>1 DEF CountOK, TurnOK, Allowed
      <4>3. read.kind = "writing" /\ read.id = op.id /\ read.item = ItemOf(op.id)
        BY <1>0, <3>1 DEF IsOp, IsRecord
      <4> QED BY <4>1, <4>2, <4>3
    <3>2. CASE ~IsIn(op.id)
      BY <1>0, <3>2 DEF IsOp, IsRecord
    <3> QED BY <3>1, <3>2
  <2> HIDE DEF s, read
  <2>4. TurnOK(s, m, lock', seen.undone, Counts)
    BY <1>0, <2>1, <2>2, <2>3 DEF TurnOK, Holding, Failures
  <2> QED BY <2>1, <2>4, CountedInPlace
<1>6. CASE FailWrites(m)
  <2> DEFINE spent == IF op.code = "mac" THEN op.item.tries + 1 ELSE op.item.tries
             item == [op.item EXCEPT !.code = op.code, !.tries = spent]
             s == [msgr[m] EXCEPT !.op = [op EXCEPT !.kind = "ended"]]
             counts == op.code = "mac" /\ IsIn(op.id)
  <2>1. queue' = Put(item) /\ Step(m, s) /\ op.kind = "writing" /\ UNCHANGED lock
    BY <1>6 DEF FailWrites
  <2>2. /\ seen'.undone = seen.undone
        /\ seen'.attempts = IF counts THEN [seen.attempts EXCEPT ![op.id] = IF job.forced THEN @ ELSE @ + 1] ELSE seen.attempts
    BY <1>0, <1>6 DEF FailWrites, SeenOK, IsRecord
  <2>3. /\ op.item.id = op.id /\ op.item.tries \in Nat /\ lock = m /\ job.at = "failing"
        /\ op.id \notin seen.undone =>
              op.id \in DOMAIN Counts /\ op.item.tries = Counts[op.id] /\ (job.forced \/ op.item.tries < Tries)
    BY <1>0, <2>1 DEF TurnOK, Holding, Failures
  <2>4. IsItem(item) /\ item.id = op.id /\ item.tries = spent
    <3>1. IsItem(op.item)
      BY <1>0, <2>1 DEF MsgrOK
    <3> HIDE DEF spent
    <3> QED BY <2>3, <3>1 DEF IsItem, IsRecord
  <2> HIDE DEF item
  <2>5. /\ DOMAIN Counts' = DOMAIN Counts
        /\ \A p \in DOMAIN Counts : Counts'[p] = IF p = op.id THEN spent ELSE Counts[p]
    BY <1>0, <2>1, <2>4, CountsPut
  <2>6. IsIn(op.id) <=> op.id \in DOMAIN Counts
    BY <1>0, CountsOfItem
  <2>7. seen.undone \subseteq seen'.undone
    BY <2>2
  <2>8. CountOK(Counts', seen'.undone, seen'.attempts)
    <3>1. DOMAIN Counts' \subseteq Packets /\ \A p \in DOMAIN Counts' : Counts'[p] \in Nat
      BY <1>0, <2>3, <2>5 DEF CountOK
    <3>2. seen'.attempts = [p \in Packets |-> seen'.attempts[p]]
      BY <1>0, <2>2 DEF CountOK
    <3>3. ASSUME NEW p \in Packets \ seen'.undone
          PROVE  /\ seen'.attempts[p] \in Nat /\ seen'.attempts[p] <= Tries
                 /\ p \in DOMAIN Counts' => seen'.attempts[p] <= Counts'[p]
      <4>0. /\ p \notin seen.undone /\ seen.attempts[p] \in Nat /\ seen.attempts[p] <= Tries
            /\ p \in DOMAIN Counts => seen.attempts[p] <= Counts[p]
        BY <1>0, <2>7 DEF CountOK
      <4>1. CASE p # op.id
        <5>1. seen'.attempts[p] = seen.attempts[p]
          BY <1>0, <2>2, <4>1 DEF CountOK
        <5> QED BY <2>5, <4>0, <4>1, <5>1
      <4>2. CASE p = op.id
        <5>1. seen'.attempts[p] = IF counts /\ ~job.forced THEN seen.attempts[p] + 1 ELSE seen.attempts[p]
          BY <1>0, <2>2, <4>2 DEF CountOK
        <5>2. p \in DOMAIN Counts => Counts[p] = op.item.tries /\ Counts'[p] = spent
          BY <2>3, <2>5, <4>0, <4>2
        <5>3. counts => op.code = "mac" /\ p \in DOMAIN Counts
          BY <2>6, <4>2
        <5>4. spent \in Nat /\ op.item.tries <= spent /\ (op.code = "mac" => spent = op.item.tries + 1)
          BY <2>3
        <5>5. ~job.forced => op.item.tries < Tries
          BY <2>3, <4>0, <4>2
        <5> HIDE DEF spent, counts
        <5> QED BY <2>3, <2>5, <4>0, <5>1, <5>2, <5>3, <5>4, <5>5 DEF TriesAssumptions
      <4> QED BY <4>1, <4>2
    <3> QED BY <3>1, <3>2, <3>3 DEF CountOK
  <2>9. TurnOK(s, m, lock', seen'.undone, Counts')
    <3>1. s.op.kind = "ended" /\ s.job = job
      BY <1>0 DEF IsMsgr, IsOp, IsRecord
    <3> HIDE DEF s
    <3> QED BY <1>0, <2>1, <2>3, <3>1 DEF TurnOK, Holding, Failures
  <2> HIDE DEF s
  <2>10. Turns'
    BY <2>1, <2>3, <2>7, <2>9, TurnsKeep DEF Counted
  <2> QED BY <2>8, <2>10 DEF Counted
<1>7. CASE FailEnds(m)
  <2> DEFINE s == [Done(m) EXCEPT !.op = NoOp]
  <2>1. Step(m, s) /\ UNCHANGED <<queue, seen>> /\ lock' = Unlocked(m)
    BY <1>7 DEF FailEnds
  <2>2. s.op.kind = "none" /\ s.job.at = "next"
    BY <1>0 DEF Done, NoOp, IsMsgr, IsJob, IsRecord
  <2> HIDE DEF s
  <2>3. TurnOK(s, m, lock', seen.undone, Counts)
    BY <2>2 DEF TurnOK, Holding, Failures
  <2> QED BY <2>1, <2>3, CountedInPlace
<1> QED BY <1>2, <1>3, <1>4, <1>5, <1>6, <1>7

(* A request changes what follows, not where the pass is. *)
LEMMA AskedTurn ==
    ASSUME NEW s, NEW force, NEW m, NEW held, NEW bad, NEW c, IsMsgr(s), IsJob(s.job), TurnOK(s, m, held, bad, c)
    PROVE  TurnOK(Asked(s, force), m, held, bad, c)
<1>1. \A f : NewJob(f).at = "wait"
  BY DEF NewJob, NoJob
<1>2. CASE s.job = NoJob
  <2>1. Asked(s, force).op = s.op /\ Asked(s, force).job.at = "wait"
    BY <1>1, <1>2 DEF Asked, IsMsgr, IsRecord
  <2>2. s.job.at = "none"
    BY <1>2 DEF NoJob
  <2> QED BY <2>1, <2>2, AtNoItem DEF Holding
<1>3. CASE s.job # NoJob /\ s.job.aborted
  <2>1. Asked(s, force) = [s EXCEPT !.next = NewJob(force \/ @.force)]
    BY <1>3 DEF Asked
  <2>2. Asked(s, force).op = s.op /\ Asked(s, force).job = s.job
    BY <2>1 DEF IsMsgr, IsRecord
  <2> QED BY <2>2, AtTheSame
<1>4. CASE s.job # NoJob /\ ~s.job.aborted
  <2>1. PICK f, g : Asked(s, force) = [s EXCEPT !.job.force = f, !.job.again = g]
    <3>1. Asked(s, force) = [s EXCEPT !.job.force = s.job.force \/ force, !.job.again = s.job.again \/ Started(s.job)]
      BY <1>4 DEF Asked
    <3> QED BY <3>1, Zenon
  <2> DEFINE t == [s EXCEPT !.job.force = f, !.job.again = g]
  <2>2. t.op = s.op /\ t.job.at = s.job.at /\ t.job.forced = s.job.forced /\ t.job.item = s.job.item
    BY DEF IsMsgr, IsJob, IsRecord
  <2> QED BY <2>1, <2>2, AtTheSame
<1> QED BY <1>2, <1>3, <1>4

LEMMA AppCounts ==
    ASSUME TriesAssumptions, PInv, Counted, NEW m \in Msgrs,
           \/ Start(m) \/ Pause(m) \/ Resume(m) \/ Crash(m) \/ Clear(m)
           \/ \E b \in BOOLEAN : Request(m, b) \/ SetReady(m, b)
    PROVE  Counted'
<1>0. /\ IsMsgr(msgr[m]) /\ IsJob(msgr[m].job) /\ SeenOK(seen)
      /\ TurnOK(msgr[m], m, lock, seen.undone, Counts)
  BY JobKnown
<1>1. ASSUME NEW s, Step(m, s), TurnOK(s, m, lock', seen.undone, Counts), UNCHANGED queue, lock' \in {lock, Unlocked(m)},
             \E owed : seen' = [seen EXCEPT !.owed = owed]
      PROVE  Counted'
  <2>1. seen'.undone = seen.undone /\ seen'.attempts = seen.attempts
    BY <1>0, <1>1 DEF SeenOK, IsRecord
  <2> QED BY <1>1, <2>1, CountedInPlace
<1>2. seen = [seen EXCEPT !.owed = seen.owed]
  BY <1>0 DEF SeenOK, IsRecord
<1>3. ASSUME NEW s, s.op.kind = "none", s.job.at \in {"none", "wait"}
      PROVE  \A held : TurnOK(s, m, held, seen.undone, Counts)
  BY <1>3 DEF TurnOK, Holding, Failures
<1>4. CASE Start(m)
  <2>1. PICK ready : Step(m, [Gone EXCEPT !.on = TRUE, !.ready = ready, !.job = NewJob(FALSE)])
    BY <1>4, Zenon DEF Start
  <2>2. /\ [Gone EXCEPT !.on = TRUE, !.ready = ready, !.job = NewJob(FALSE)].op.kind = "none"
        /\ [Gone EXCEPT !.on = TRUE, !.ready = ready, !.job = NewJob(FALSE)].job.at = "wait"
    BY DEF Gone, NoOp, NewJob, NoJob
  <2> QED BY <1>1, <1>3, <1>4, <2>1, <2>2 DEF Start
<1>5. CASE Pause(m)
  <2>1. PICK aborted : Step(m, [msgr[m] EXCEPT !.paused = TRUE, !.next = NoJob, !.job.aborted = aborted])
    BY <1>5, Zenon DEF Pause
  <2> DEFINE t == [msgr[m] EXCEPT !.paused = TRUE, !.next = NoJob, !.job.aborted = aborted]
  <2>2. t.op = msgr[m].op /\ t.job.at = msgr[m].job.at /\ t.job.forced = msgr[m].job.forced /\ t.job.item = msgr[m].job.item
    BY <1>0 DEF IsMsgr, IsJob, IsRecord
  <2>3. TurnOK(t, m, lock, seen.undone, Counts)
    BY <1>0, <2>2, AtTheSame
  <2> QED BY <1>1, <1>5, <2>1, <2>3 DEF Pause, NotOwed
<1>6. CASE Resume(m)
  <2> DEFINE t == [msgr[m] EXCEPT !.paused = FALSE]
  <2>1. t.op = msgr[m].op /\ t.job = msgr[m].job /\ IsMsgr(t)
    BY <1>0 DEF IsMsgr, IsRecord
  <2>2. TurnOK(t, m, lock, seen.undone, Counts)
    BY <1>0, <2>1, AtTheSame
  <2>3. Step(m, Asked(t, FALSE))
    BY <1>6 DEF Resume
  <2> HIDE DEF t
  <2> QED BY <1>0, <1>1, <1>6, <2>1, <2>2, <2>3, AskedTurn DEF Resume
<1>7. CASE Crash(m)
  <2>1. Gone.op.kind = "none" /\ Gone.job.at = "none"
    BY DEF Gone, NoOp, NoJob
  <2>2. Step(m, Gone) /\ UNCHANGED queue /\ lock' = Unlocked(m)
    BY <1>7 DEF Crash
  <2>3. seen'.undone = seen.undone /\ seen'.attempts = seen.attempts
    BY <1>0, <1>7 DEF Crash, NotOwed, SeenOK, IsRecord
  <2> QED BY <1>3, <2>1, <2>2, <2>3, CountedInPlace
<1>10. CASE Clear(m)
  <2>1. queue' = <<>> /\ Step(m, Gone) /\ lock' = Unlocked(m)
    BY <1>10 DEF Clear
  <2>2. seen'.undone = seen.undone \union (Ids(queue) \intersect Counting) /\ seen'.attempts = seen.attempts
    BY <1>0, <1>10 DEF Clear, SeenOK, IsRecord
  <2>3. DOMAIN Counts' = {}
    BY <2>1 DEF Counts, CountsOf, Ids
  <2>4. CountOK(Counts', seen'.undone, seen'.attempts) /\ Stays(Counts, Counts', seen'.undone)
    BY <2>2, <2>3 DEF Counted, CountOK, Stays
  <2>5. \A n \in Msgrs : Remains(msgr[n], Counts', seen'.undone)
    <3>1. ASSUME NEW n \in Msgrs, msgr[n].op.kind = "writing" PROVE msgr[n].op.id \in seen'.undone
      <4>1. msgr[n].op.id \in DOMAIN Counts \union seen.undone /\ msgr[n].op.id \in Counting
        BY <3>1 DEF Counted, Turns, TurnOK, Counting
      <4>2. DOMAIN Counts = Ids(queue)
        BY DEF Counts, CountsOf
      <4> QED BY <2>2, <4>1, <4>2
    <3> QED BY <3>1 DEF Remains
  <2>6. TurnOK(Gone, m, lock', seen'.undone, Counts')
    BY DEF TurnOK, Gone, NoOp, NoJob, Holding, Failures
  <2>7. Turns'
    BY <2>1, <2>2, <2>4, <2>5, <2>6, TurnsKeep DEF Counted
  <2> QED BY <2>4, <2>7 DEF Counted
<1>8. ASSUME NEW b \in BOOLEAN, Request(m, b) PROVE Counted'
  BY <1>0, <1>1, <1>8, AskedTurn DEF Request
<1>9. ASSUME NEW b \in BOOLEAN, SetReady(m, b) PROVE Counted'
  <2> DEFINE t == [msgr[m] EXCEPT !.ready = b]
  <2>1. t.op = msgr[m].op /\ t.job = msgr[m].job
    BY <1>0 DEF IsMsgr, IsRecord
  <2>2. TurnOK(t, m, lock, seen.undone, Counts)
    BY <1>0, <2>1, AtTheSame
  <2> QED BY <1>1, <1>2, <1>9, <2>2 DEF SetReady
<1> QED BY <1>4, <1>5, <1>6, <1>7, <1>8, <1>9, <1>10

LEMMA AttemptsKept ==
    ASSUME TriesAssumptions, Room \in Nat \ {0}, AttemptsInv, [PNext]_pvars
    PROVE  AttemptsInv'
<1>1. PInv' /\ IsBudget(budget') /\ budget'.locks = budget.locks
  BY NextKeeps, BudgetKeeps DEF AttemptsInv
<1>2. ASSUME budget.locks PROVE Counted'
  <2>0. PInv /\ Counted
    BY <1>2 DEF AttemptsInv
  <2>1. CASE UNCHANGED pvars \/ \E ps \in SUBSET Packets : KeyArrives(ps)
    BY <2>0, <2>1 DEF pvars, KeyArrives, Counted, Turns, Counts
  <2> QED BY <1>2, <2>0, <2>1, SavesCount, PassesCount, ResultsCount, AppCounts DEF PNext, Works
<1> QED BY <1>1, <1>2 DEF AttemptsInv

LEMMA InitAttempts ==
    ASSUME TriesAssumptions, Room \in Nat \ {0}, \A b \in Budgets : IsBudget(b), PInit
    PROVE  AttemptsInv
<1>1. PInv /\ IsBudget(budget)
  BY InitPInv DEF PInit
<1>2. DOMAIN Counts = {}
  BY DEF PInit, Counts, CountsOf, Ids
<1>3. CountOK(Counts, seen.undone, seen.attempts)
  BY <1>2 DEF PInit, CountOK, TriesAssumptions
<1>4. Turns
  BY DEF PInit, Turns, TurnOK, Gone, NoOp, NoJob, Holding, Failures
<1> QED BY <1>1, <1>3, <1>4 DEF AttemptsInv, Counted

(* Passes of several messengers try a packet at most three times over with an invalid MAC, for any number of  *)
(* them and any limit of two or more, where there are locks: the one that holds the lock finds attempts left,  *)
(* and nothing but a write of attempts read before brings them back (processCurrentPending of index.js,        *)
(* current, save and failed of pending-decryption.js).                                                       *)
THEOREM TriedThreeTimes ==
    ASSUME Room \in Nat \ {0}, Tries \in Nat, Tries >= 2, Nothing \notin Msgrs, \A b \in Budgets : IsBudget(b)
    PROVE  PSpec => [](budget.locks => ThreeAttempts)
<1>1. TriesAssumptions
  BY DEF TriesAssumptions
<1>2. AttemptsInv => (budget.locks => ThreeAttempts)
  BY DEF AttemptsInv, Counted, CountOK, ThreeAttempts
<1>3. PInit => AttemptsInv
  BY <1>1, InitAttempts
<1>4. AttemptsInv /\ [PNext]_pvars => AttemptsInv'
  BY <1>1, AttemptsKept
<1> QED BY <1>2, <1>3, <1>4, PTL DEF PSpec
================================================================================
