------------------------ MODULE ReceivedChunksProofs ------------------------
(***************************************************************************)
(* ReceivedChunks, for any processors, groups, bundles, budget and faults:  *)
(* the usage record is exact and within the budget, evictions always make    *)
(* room for a group that fits by itself, and what a group's record says was  *)
(* read is what its drains read, whichever processors drained it and however  *)
(* their leases lapsed.                                                      *)
(***************************************************************************)
EXTENDS ReceivedChunks, NaturalsLemmas

(* Rows 1 to r of bundle b are those that end before chunk n. *)
Passed(b, r, n) ==
    /\ r \in 0..Len(b.rows)
    /\ \A k \in 1..Len(b.rows) : b.rows[k] < n <=> k <= r

(* What a record counts is what was read of its chunks, by a reader of all of them. *)
Whole(b) == b.scan \in {"own", "seed"}
Counts(m, row) == m.rowIndex = row /\ m.payload = (row > 0) /\ m.receivers = 1..(row - 1)
Drained(b, m) == Whole(b) => Passed(b, m.rowIndex, m.nextIndex) /\ Counts(m, m.rowIndex)
MetaOK(b, m) ==
    /\ m \in Metas /\ m.received \subseteq 0..(b.total - 1)
    /\ 0..(m.nextIndex - 1) \subseteq m.received
    /\ Drained(b, m)

(* A drain in the middle of a chunk. *)
InChunk(b, c) == Whole(b) =>
    /\ Counts(c.meta, c.row) /\ c.row <= Len(b.rows)
    /\ \A k \in 1..Len(b.rows) :
          /\ b.rows[k] < c.meta.nextIndex => k <= c.row
          /\ k <= c.row => b.rows[k] <= c.meta.nextIndex

Pcs == {"idle", "put", "claim", "read", "lines", "stop", "release", "gather", "seed", "deliver", "finish", "failed"}
Draining == {"read", "lines", "stop", "release"}
Calls == [pc : Pcs, group : Groups \cup {None}, index : Nat, meta : Metas, row : Nat,
          found : {"nothing", "event", "deferred"}, result : {"partial", "stopped", "complete", "thrown"},
          ignore : BOOLEAN]

CallOK(B, c) ==
    LET b == B[c.group] IN
    /\ c \in Calls
    /\ c.pc # "idle" => c.group \in Groups /\ b # None
    /\ c.pc = "put" => c.index \in 0..(b.total - 1)
    /\ c.pc = "read" => Drained(b, c.meta)
    /\ c.pc = "lines" => InChunk(b, c)
    /\ c.pc = "stop" => ~Whole(b)
    /\ c.pc \in {"put", "claim", "gather", "read", "lines", "stop"} => c.result = "partial"
    /\ c.result = "complete" /\ Whole(b) => c.meta.receivers = 1..(Len(b.rows) - 1)

(* Who holds a group's token drains it, from where its record says. *)
TokenOK(G, p, c) == \A h \in Groups : G[h] # None /\ G[h].token = p =>
    /\ c.group = h /\ c.pc \in Draining
    /\ c.pc # "release" => c.meta.nextIndex = G[h].nextIndex
    /\ c.pc = "lines" => c.meta.nextIndex \in G[h].received

OrderOK(S, older) ==
    /\ older \subseteq S \X S
    /\ \A g, h \in S : <<g, h>> \in older <=> g # h /\ <<h, g>> \notin older

PlanOK ==
    /\ plan = [bundle |-> plan.bundle, readers |-> plan.readers, faults |-> plan.faults, left |-> plan.left]
    /\ plan.bundle \in [Groups -> Bundles \cup {None}]
    /\ \A g \in Groups : plan.bundle[g] # None => InOrder(plan.bundle[g])
    /\ plan.readers \subseteq Processors
    /\ plan.left \in Nat

SizesOf(G) == [g \in Groups |-> IF G[g] = None THEN 0 ELSE Cardinality(G[g].received)]

WorldOK ==
    /\ PlanOK
    /\ inbox \in [Processors -> SUBSET Outers]
    /\ ignored \in [Processors -> SUBSET Groups]
    /\ delivered \subseteq Processors \X Groups

GroupsOK ==
    /\ groups \in [Groups -> Metas \cup {None}]
    /\ \A g \in Groups : groups[g] # None => plan.bundle[g] # None /\ MetaOK(plan.bundle[g], groups[g])
    /\ OrderOK(Stored, order)
    /\ usedBytes = SumOf(SizesOf(groups), Groups) /\ usedBytes \in Nat /\ usedBytes <= MaxBytes

CallsOK ==
    /\ calls = [p \in Processors |-> calls[p]]
    /\ \A p \in Processors : CallOK(plan.bundle, calls[p]) /\ TokenOK(groups, p, calls[p])

IInv == WorldOK /\ GroupsOK /\ CallsOK

--------------------------------------------------------------------------------
(* The operators of the model. *)

(* The rows that end before a chunk are the first FirstRow of them. *)
LEMMA FirstRowPassed ==
    ASSUME PlanOK, NEW g \in Groups, plan.bundle[g] # None, NEW n \in Nat
    PROVE  \A r : Passed(plan.bundle[g], r, n) <=> r = FirstRow(g, n)
<1> DEFINE rows == plan.bundle[g].rows
           S == {k \in 1..Len(rows) : rows[k] < n}
<1>1. plan.bundle[g] \in Bundles /\ InOrder(plan.bundle[g])
  BY DEF PlanOK
<1>2. rows \in Seq(Nat) /\ Len(rows) \in Nat /\ \A k \in 1..Len(rows) : rows[k] \in Nat
  BY <1>1 DEF Bundles
<1>3. \A j, k \in 1..Len(rows) : j <= k => rows[j] <= rows[k]
  BY <1>1 DEF InOrder
<1>4. PICK r \in 0..Len(rows) : S = 1..r
  <2>1. CASE S = {}
    BY <1>2, <2>1
  <2>2. CASE S # {}
    <3>1. S \subseteq Nat /\ \A k \in S : k <= Len(rows)
      BY <1>2
    <3>2. PICK r \in S : \A k \in S : k <= r
      BY <1>2, <2>2, <3>1, MaxOfNaturals
    <3>3. r \in 1..Len(rows) /\ rows[r] < n
      BY <3>2
    <3>4. ASSUME NEW k \in 1..r PROVE k \in S
      <4>1. k \in 1..Len(rows) /\ k <= r
        BY <1>2, <3>3
      <4>2. rows[k] <= rows[r]
        BY <1>3, <3>3, <4>1
      <4>3. rows[k] \in Nat /\ rows[r] \in Nat
        BY <1>2, <3>3, <4>1
      <4>4. rows[k] < n
        BY <3>3, <4>2, <4>3
      <4> QED BY <4>1, <4>4
    <3>5. \A k \in S : k \in 1..r
      BY <1>2, <3>2, <3>3
    <3>6. S = 1..r
      BY <3>4, <3>5
    <3>7. r \in 0..Len(rows)
      BY <1>2, <3>3
    <3> QED BY <3>6, <3>7
  <2> QED BY <2>1, <2>2
<1>5. FirstRow(g, n) = r
  <2>1. r \in Nat /\ Cardinality(1..r) = r
    <3>1. r \in Nat
      BY <1>2
    <3>2. Cardinality(1..r) = IF 1 > r THEN 0 ELSE r - 1 + 1
      BY <3>1, FS_Interval
    <3> QED BY <3>1, <3>2
  <2> QED BY <1>4, <2>1 DEF FirstRow, Bundle
<1>6. ASSUME NEW q PROVE Passed(plan.bundle[g], q, n) <=> q = r
  <2>1. Passed(plan.bundle[g], r, n)
    <3>1. \A k \in 1..Len(rows) : rows[k] < n <=> k \in 1..r
      BY <1>4
    <3>2. \A k \in 1..Len(rows) : k \in 1..r <=> k <= r
      BY <1>2
    <3> QED BY <3>1, <3>2 DEF Passed
  <2>2. ASSUME Passed(plan.bundle[g], q, n) PROVE q = r
    <3>1. q \in 0..Len(rows) /\ \A k \in 1..Len(rows) : k \in 1..r <=> k <= q
      BY <1>4, <2>2 DEF Passed
    <3> HIDE DEF rows, S
    <3>2. q \in Nat /\ r \in Nat /\ q <= Len(rows) /\ r <= Len(rows)
      BY <1>2, <3>1
    <3>3. CASE q < r
      <4>1. r \in 1..Len(rows)
        BY <1>2, <3>2, <3>3
      <4> QED BY <3>1, <3>2, <3>3, <4>1
    <3>4. CASE r < q
      <4>1. q \in 1..Len(rows)
        BY <1>2, <3>2, <3>4
      <4> QED BY <3>1, <3>2, <3>4, <4>1
    <3> QED BY <3>2, <3>3, <3>4
  <2> QED BY <2>1, <2>2
<1> QED BY <1>5, <1>6

(* The sum of nothing is nothing. *)
LEMMA SumOfZero ==
    ASSUME NEW w, NEW S, IsFiniteSet(S), \A x \in S : w[x] = 0
    PROVE  SumOf(w, S) = 0
<1> DEFINE Bad == {B \in SUBSET S : SumOf(w, B) # 0}
<1>1. SUFFICES ASSUME Bad # {} PROVE FALSE
  OBVIOUS
<1>2. PICK B \in Bad : \A C \in Bad : C \subseteq B => C = B
  <2>1. Bad \subseteq SUBSET S
    OBVIOUS
  <2> HIDE DEF Bad
  <2> QED BY <1>1, <2>1, SmallestSubset
<1>3. B # {} /\ B \in SUBSET S /\ SumOf(w, B) # 0
  BY <1>2, SumOfEmpty
<1>4. PICK e \in B : TRUE
  BY <1>3
<1>5. IsFiniteSet(B) /\ \A x \in B : w[x] \in Nat /\ w[x] = 0
  BY <1>3, FS_Subset
<1>6. SumOf(w, B) = w[e] + SumOf(w, B \ {e})
  BY <1>4, <1>5, SumOfElement
<1>7. SumOf(w, B \ {e}) = 0
  BY <1>2, <1>3, <1>4
<1> QED BY <1>3, <1>4, <1>5, <1>6, <1>7

(* Two sums that differ at one place only. *)
LEMMA SumOfChanged ==
    ASSUME NEW w, NEW v, NEW S, IsFiniteSet(S), NEW e \in S,
           \A x \in S : w[x] \in Nat /\ v[x] \in Nat,
           \A x \in S \ {e} : w[x] = v[x]
    PROVE  /\ SumOf(w, S) \in Nat /\ SumOf(v, S) \in Nat /\ w[e] <= SumOf(w, S)
           /\ SumOf(v, S) = SumOf(w, S) - w[e] + v[e]
<1>1. SumOf(w, S) = w[e] + SumOf(w, S \ {e}) /\ SumOf(v, S) = v[e] + SumOf(v, S \ {e})
  BY SumOfElement
<1>2. IsFiniteSet(S \ {e}) /\ \A x \in S \ {e} : w[x] \in Nat /\ w[x] = v[x]
  BY FS_Subset
<1>3. SumOf(w, S \ {e}) = SumOf(v, S \ {e}) /\ SumOf(w, S \ {e}) \in Nat
  BY <1>2, SumOfSame, SumOfNat
<1>4. w[e] \in Nat /\ v[e] \in Nat
  OBVIOUS
<1> QED BY <1>1, <1>3, <1>4

(* The sum that the model takes is SumOf's. *)
LEMMA HeldIsSum ==
    ASSUME NEW G, NEW S \in SUBSET Groups,
           \A g \in S : G[g] # None /\ ByteSize(G[g]) \in Nat
    PROVE  MapThenSumSet(LAMBDA g : ByteSize(G[g]), S) = SumOf(SizesOf(G), S)
<1> DEFINE w == SizesOf(G)
           Sums(g) == g = [s \in SUBSET S |-> IF s = {} THEN 0
                                              ELSE ByteSize(G[Chosen(s)]) + g[s \ {Chosen(s)}]]
           g0 == CHOOSE g : Sums(g)
<1>1. MapThenSumSet(LAMBDA g : ByteSize(G[g]), S) = g0[S]
  BY DEF MapThenSumSet, MapThenFoldSet, Chosen
<1>2. IsFiniteSet(S) /\ \A x \in S : w[x] \in Nat /\ w[x] = ByteSize(G[x])
  BY FS_Subset, BudgetAssumption DEF SizesOf, ByteSize
<1> HIDE DEF w
<1>3. \A g : Sums(g) <=> IsSums(g, w, S)
  <2>1. \A s \in SUBSET S : s # {} => w[Chosen(s)] = ByteSize(G[Chosen(s)])
    BY <1>2, ChosenIsIn
  <2> QED BY <2>1 DEF IsSums
<1> HIDE DEF Sums
<1>4. PICK h : AreSums(h, w, S) /\ SumOf(w, S) = h[S]
  BY <1>2, SumOfIsSums
<1>5. Sums(h)
  BY <1>3, <1>4 DEF AreSums
<1>6. Sums(g0)
  BY <1>5
<1> HIDE DEF g0
<1>7. IsSums(g0, w, S) /\ IsSums(h, w, S)
  BY <1>3, <1>4, <1>6 DEF AreSums
<1>8. \A s \in SUBSET S : g0[s] = h[s]
  BY <1>2, <1>7, SumsAgree
<1> QED BY <1>1, <1>4, <1>8 DEF w

(* The order of the groups is total, also when some go and when one is touched. *)
LEMMA OrderDrops ==
    ASSUME NEW S, NEW older, OrderOK(S, older), NEW gone
    PROVE  OrderOK(S \ gone, {o \in older : o[1] \notin gone /\ o[2] \notin gone})
BY DEF OrderOK

LEMMA TouchedOrder ==
    ASSUME OrderOK(Stored, order), NEW g, NEW gone
    PROVE  OrderOK((Stored \ gone) \cup {g}, Touched(g, gone))
<1> DEFINE rest == Stored \ (gone \cup {g})
           left == Remaining(gone \cup {g})
<1>1. OrderOK(rest, left)
  <2> DEFINE out == gone \cup {g}
  <2>1. OrderOK(Stored \ out, {o \in order : o[1] \notin out /\ o[2] \notin out})
    <3> HIDE DEF out
    <3> QED BY OrderDrops
  <2> QED BY <2>1 DEF Remaining
<1>2. Touched(g, gone) = left \cup (rest \X {g}) /\ (Stored \ gone) \cup {g} = rest \cup {g} /\ g \notin rest
  BY DEF Touched
<1> HIDE DEF rest, left
<1>3. left \cup (rest \X {g}) \subseteq (rest \cup {g}) \X (rest \cup {g})
  BY <1>1 DEF OrderOK
<1>4. ASSUME NEW h \in rest \cup {g}, NEW k \in rest \cup {g}
      PROVE  <<h, k>> \in left \cup (rest \X {g}) <=> h # k /\ <<k, h>> \notin left \cup (rest \X {g})
  <2>1. <<h, k>> \in rest \X {g} <=> h \in rest /\ k = g
    OBVIOUS
  <2>2. <<k, h>> \in rest \X {g} <=> k \in rest /\ h = g
    OBVIOUS
  <2>3. <<h, k>> \in left => h \in rest /\ k \in rest
    BY <1>1 DEF OrderOK
  <2>4. <<k, h>> \in left => h \in rest /\ k \in rest
    BY <1>1 DEF OrderOK
  <2>5. h \in rest /\ k \in rest => (<<h, k>> \in left <=> h # k /\ <<k, h>> \notin left)
    BY <1>1 DEF OrderOK
  <2> QED BY <1>2, <2>1, <2>2, <2>3, <2>4, <2>5
<1> QED BY <1>2, <1>3, <1>4 DEF OrderOK

(* Groups have sizes. *)
Stores(B, G) ==
    /\ B \in [Groups -> Bundles \cup {None}]
    /\ G \in [Groups -> Metas \cup {None}]
    /\ \A g \in Groups : G[g] # None => B[g] # None /\ MetaOK(B[g], G[g])

LEMMA SizesNat ==
    ASSUME NEW B, NEW G, Stores(B, G)
    PROVE  \A g \in Groups : /\ SizesOf(G)[g] \in Nat
                             /\ G[g] # None => G[g] \in Metas /\ IsFiniteSet(G[g].received)
                                               /\ SizesOf(G)[g] = ByteSize(G[g])
<1> SUFFICES ASSUME NEW g \in Groups
             PROVE  /\ SizesOf(G)[g] \in Nat
                    /\ G[g] # None => G[g] \in Metas /\ IsFiniteSet(G[g].received)
                                      /\ SizesOf(G)[g] = ByteSize(G[g])
  OBVIOUS
<1>1. CASE G[g] = None
  BY <1>1 DEF SizesOf
<1>2. CASE G[g] # None
  <2>1. B[g] \in Bundles /\ MetaOK(B[g], G[g])
    BY <1>2 DEF Stores
  <2>2. B[g].total \in Nat /\ G[g].received \subseteq 0..(B[g].total - 1)
    BY <2>1 DEF Bundles, MetaOK
  <2>3. IsFiniteSet(G[g].received) /\ Cardinality(G[g].received) \in Nat
    <3>1. IsFiniteSet(0..(B[g].total - 1))
      BY <2>2, FS_Interval
    <3> QED BY <2>2, <3>1, FS_Subset, FS_CardinalityType
  <2> QED BY <1>2, <2>1, <2>3 DEF SizesOf, ByteSize, MetaOK
<1> QED BY <1>1, <1>2

LEMMA StoresNow == ASSUME PlanOK, GroupsOK PROVE Stores(plan.bundle, groups)
BY DEF PlanOK, GroupsOK, Stores

LEMMA StoresWithout ==
    ASSUME NEW B, Stores(B, groups), NEW gs
    PROVE  Stores(B, Without(gs))
BY DEF Stores, Without

(* What is left of the usage when groups go is the size of those that stay. *)
LEMMA FreedIsSum ==
    ASSUME PlanOK, GroupsOK, NEW gs \in SUBSET Groups
    PROVE  /\ Freed(gs) = SumOf(SizesOf(Without(gs)), Groups)
           /\ Freed(gs) \in Nat /\ Freed(gs) <= usedBytes
<1> DEFINE w == SizesOf(groups)
           v == SizesOf(Without(gs))
           R == gs \cap Stored
<1>1. Stores(plan.bundle, groups) /\ Stores(plan.bundle, Without(gs))
  BY StoresNow, StoresWithout
<1>2. \A g \in Groups : w[g] \in Nat /\ v[g] \in Nat /\ (groups[g] # None => ByteSize(groups[g]) = w[g])
  BY <1>1, SizesNat
<1>3. R \in SUBSET Groups /\ \A g \in R : groups[g] # None /\ ByteSize(groups[g]) \in Nat
  BY <1>2 DEF Stored
<1>4. Held(R) = SumOf(w, R)
  BY <1>3, HeldIsSum DEF Held
<1>5. \A g \in R : v[g] = 0
  BY <1>3 DEF SizesOf, Without
<1>6. \A g \in Groups \ R : v[g] = w[g]
  BY DEF SizesOf, Without, Stored
<1> HIDE DEF w, v, R
<1>7. IsFiniteSet(Groups) /\ IsFiniteSet(R) /\ IsFiniteSet(Groups \ R)
  BY <1>3, FS_Subset, BudgetAssumption
<1>8. SumOf(w, Groups) = SumOf(w, R) + SumOf(w, Groups \ R)
  BY <1>2, <1>3, <1>7, SumOfSplit
<1>9. SumOf(v, Groups) = SumOf(v, R) + SumOf(v, Groups \ R)
  BY <1>2, <1>3, <1>7, SumOfSplit
<1>10. SumOf(v, R) = 0
  BY <1>5, <1>7, SumOfZero
<1>11. SumOf(v, Groups \ R) = SumOf(w, Groups \ R)
  BY <1>2, <1>6, <1>7, SumOfSame
<1>12. SumOf(w, R) \in Nat /\ SumOf(w, Groups \ R) \in Nat
  <2>1. \A g \in R : w[g] \in Nat
    BY <1>2, <1>3
  <2>2. \A g \in Groups \ R : w[g] \in Nat
    BY <1>2
  <2> QED BY <1>7, <2>1, <2>2, SumOfNat
<1>13. usedBytes = SumOf(w, Groups) /\ usedBytes \in Nat
  BY DEF GroupsOK, w
<1>14. Freed(gs) = IF usedBytes - Held(R) > 0 THEN usedBytes - Held(R) ELSE 0
  BY DEF Freed, R
<1>15. usedBytes - Held(R) = SumOf(v, Groups) /\ SumOf(v, Groups) \in Nat /\ SumOf(v, Groups) <= usedBytes
  BY <1>4, <1>8, <1>9, <1>10, <1>11, <1>12, <1>13
<1>16. Freed(gs) = SumOf(v, Groups)
  BY <1>14, <1>15
<1> QED BY <1>15, <1>16 DEF v

(* What putOnce evicts is what expired and oldest groups, until the chunk fits. *)
LEMMA EvictedIs ==
    ASSUME NEW g \in Groups
    PROVE  \E old \in SUBSET Candidates(g) :
               Evicted(g) = Expired \cup old /\ (Fits(Expired \cup old) \/ old = Candidates(g))
<1> DEFINE C == Candidates(g)
           Enough(old) == AreOldest(old, C) /\ (Fits(Expired \cup old) \/ old = C)
           Least(old) == \A few \in SUBSET old : few # old /\ AreOldest(few, C) => ~Fits(Expired \cup few)
           Ok == {old \in SUBSET C : Enough(old)}
<1>1. IsFiniteSet(C)
  <2>1. C \subseteq Groups
    BY DEF Candidates, Stored
  <2> QED BY <2>1, FS_Subset, BudgetAssumption
<1>2. C \in Ok
  BY DEF AreOldest
<1>3. \E old \in SUBSET C : Enough(old) /\ Least(old)
  <2>1. PICK old \in Ok : \A few \in Ok : few \subseteq old => few = old
    <3>1. Ok \subseteq SUBSET C /\ Ok # {}
      BY <1>2
    <3> HIDE DEF Ok
    <3> QED BY <1>1, <3>1, SmallestSubset
  <2>2. Least(old)
    BY <2>1
  <2> QED BY <2>1, <2>2
<1> DEFINE first == CHOOSE old \in SUBSET C : Enough(old) /\ Least(old)
<1>4. first \in SUBSET C /\ Enough(first)
  <2> HIDE DEF Enough, Least, C
  <2> QED BY <1>3
<1>5. Evicted(g) = Expired \cup first
  <2>1. \A old : (Enough(old) /\ Least(old)) <=>
            /\ AreOldest(old, C)
            /\ Fits(Expired \cup old) \/ old = C
            /\ \A few \in SUBSET old : few # old /\ AreOldest(few, C) => ~Fits(Expired \cup few)
    OBVIOUS
  <2> QED BY <2>1 DEF Evicted
<1> QED BY <1>4, <1>5

(* The group that a chunk joins. *)
LEMMA JoinedOK ==
    ASSUME PlanOK, GroupsOK, NEW g \in Groups, plan.bundle[g] # None
    PROVE  /\ MetaOK(plan.bundle[g], Joined(g)) /\ IsFiniteSet(Joined(g).received)
           /\ ByteSize(Joined(g)) = IF g \in Stored \ Expired THEN SizesOf(groups)[g] ELSE 0
<1>1. CASE g \in Stored \ Expired
  BY <1>1, StoresNow, SizesNat DEF Joined, Stored, GroupsOK
<1>2. CASE g \notin Stored \ Expired
  <2>1. Joined(g) = Fresh
    BY <1>2 DEF Joined
  <2>2. Fresh \in Metas
    BY DEF Fresh, Metas
  <2>3. Passed(plan.bundle[g], 0, 0)
    <3> DEFINE rows == plan.bundle[g].rows
    <3>1. rows \in Seq(Nat)
      BY DEF PlanOK, Bundles
    <3> HIDE DEF rows
    <3>2. Len(rows) \in Nat /\ \A k \in 1..Len(rows) : rows[k] \in Nat
      BY <3>1
    <3> USE DEF rows
    <3> QED BY <3>2 DEF Passed
  <2>4. MetaOK(plan.bundle[g], Fresh)
    <3>1. 0..(Fresh.nextIndex - 1) = {} /\ Fresh.received = {}
      BY DEF Fresh
    <3>2. Fresh.nextIndex = 0 /\ Counts(Fresh, 0) /\ Fresh.rowIndex = 0
      <4>1. 1..(0 - 1) = {}
        OBVIOUS
      <4>2. (0 > 0) = FALSE
        OBVIOUS
      <4>3. Fresh.nextIndex = 0 /\ Fresh.rowIndex = 0 /\ Fresh.payload = FALSE /\ Fresh.receivers = {}
        BY DEF Fresh
      <4> QED BY <4>1, <4>2, <4>3, Zenon DEF Counts
    <3> QED BY <2>2, <2>3, <3>1, <3>2 DEF MetaOK, Drained
  <2>5. IsFiniteSet({}) /\ Cardinality({}) = 0
    BY FS_EmptySet
  <2> QED BY <1>2, <2>1, <2>4, <2>5 DEF Fresh, ByteSize
<1> QED BY <1>1, <1>2

(* Evictions make room for a group that fits by itself. *)
LEMMA RoomMade ==
    ASSUME PlanOK, GroupsOK, NEW g \in Groups, ~TooLarge(g)
    PROVE  Fits(Evicted(g))
<1>1. PICK old \in SUBSET Candidates(g) :
          Evicted(g) = Expired \cup old /\ (Fits(Expired \cup old) \/ old = Candidates(g))
  BY EvictedIs
<1>2. CASE old = Candidates(g)
  <2> DEFINE gone == Expired \cup Candidates(g)
             v == SizesOf(Without(gone))
  <2>1. gone \in SUBSET Groups
    BY DEF Candidates, Stored, Expired
  <2>2. Freed(gone) = SumOf(v, Groups)
    BY <2>1, FreedIsSum
  <2>3. \A h \in Groups \ {g} : v[h] = 0
    BY DEF SizesOf, Without, Candidates, Stored, Expired
  <2>4. v[g] = ByteSize(Joined(g)) /\ ByteSize(Joined(g)) \in Nat
    <3>1. CASE g \in Stored \ Expired
      <4>1. v[g] = SizesOf(groups)[g]
        BY <3>1 DEF SizesOf, Without, Candidates, Expired
      <4>2. SizesOf(groups)[g] \in Nat /\ SizesOf(groups)[g] = ByteSize(groups[g])
        BY <3>1, StoresNow, SizesNat DEF Stored
      <4> QED BY <3>1, <4>1, <4>2 DEF Joined
    <3>2. CASE g \notin Stored \ Expired
      <4>1. v[g] = 0
        BY <3>2 DEF SizesOf, Without, Candidates, Expired, Stored
      <4>2. ByteSize(Joined(g)) = 0
        BY <3>2, FS_EmptySet DEF Joined, Fresh, ByteSize
      <4> QED BY <4>1, <4>2
    <3> QED BY <3>1, <3>2
  <2> HIDE DEF v, gone
  <2>5. SumOf(v, Groups) = v[g]
    <3>1. \A h \in Groups : v[h] \in Nat
      BY <2>3, <2>4
    <3>2. SumOf(v, Groups) = v[g] + SumOf(v, Groups \ {g})
      BY <3>1, SumOfElement, BudgetAssumption
    <3>3. SumOf(v, Groups \ {g}) = 0
      <4>1. IsFiniteSet(Groups \ {g})
        BY FS_Subset, BudgetAssumption
      <4> QED BY <2>3, <4>1, SumOfZero
    <3> QED BY <2>4, <3>2, <3>3
  <2>6. ByteSize(Joined(g)) + 1 <= MaxBytes
    BY <2>4, BudgetAssumption DEF TooLarge
  <2> QED BY <1>1, <1>2, <2>2, <2>4, <2>5, <2>6 DEF Fits, gone
<1> QED BY <1>1, <1>2

--------------------------------------------------------------------------------
(* What most steps do. *)

LEMMA Types == ASSUME IInv PROVE calls \in [Processors -> Calls]
BY DEF IInv, CallsOK, CallOK

(* The world outside the store: no step changes the bundles. *)
LEMMA StrikesSteady ==
    ASSUME PlanOK, NEW kind, Strikes(kind)
    PROVE  PlanOK' /\ plan'.bundle = plan.bundle /\ plan'.readers = plan.readers /\ plan'.faults = plan.faults
<1>1. plan' = [bundle |-> plan.bundle, readers |-> plan.readers, faults |-> plan.faults, left |-> plan.left - 1]
  BY DEF PlanOK, Strikes
<1>2. plan.left - 1 \in Nat
  BY DEF PlanOK, Strikes
<1> QED BY <1>1, <1>2 DEF PlanOK

LEMMA SameSteady ==
    ASSUME PlanOK, UNCHANGED plan
    PROVE  PlanOK' /\ plan'.bundle = plan.bundle /\ plan'.readers = plan.readers /\ plan'.faults = plan.faults
BY DEF PlanOK

LEMMA OutersStay == ASSUME plan'.bundle = plan.bundle PROVE Outers' = Outers
BY DEF Outers, Offered, Chunks, Bundle

(* A step of one processor over a store that stays. *)
LEMMA CallMoves ==
    ASSUME IInv, NEW p \in Processors, NEW c, CallOK(plan.bundle, c), TokenOK(groups, p, c),
           calls' = [calls EXCEPT ![p] = c], UNCHANGED <<groups, order, usedBytes>>,
           WorldOK', plan'.bundle = plan.bundle
    PROVE  IInv'
<1>1. GroupsOK'
  BY DEF IInv, GroupsOK, Stored, SizesOf
<1>2. calls' = [q \in Processors |-> calls'[q]] /\ \A q \in Processors : calls'[q] = IF q = p THEN c ELSE calls[q]
  BY DEF IInv, CallsOK
<1>3. ASSUME NEW q \in Processors PROVE CallOK(plan.bundle, calls'[q]) /\ TokenOK(groups, q, calls'[q])
  BY <1>2 DEF IInv, CallsOK
<1>4. CallsOK'
  BY <1>2, <1>3 DEF CallsOK
<1> QED BY <1>1, <1>4 DEF IInv

(* One record changes, but not its chunks. *)
LEMMA RecordMoves ==
    ASSUME IInv, NEW g \in Stored, NEW m, MetaOK(plan.bundle[g], m), m.received = groups[g].received,
           groups' = [groups EXCEPT ![g] = m], usedBytes' = usedBytes,
           order' = order \/ order' = Touched(g, {}),
           calls' = [q \in Processors |-> calls'[q]],
           \A q \in Processors : CallOK(plan.bundle, calls'[q]) /\ TokenOK(groups', q, calls'[q]),
           WorldOK', plan'.bundle = plan.bundle
    PROVE  IInv'
<1>1. m \in Metas /\ m # None /\ g \in Groups /\ groups[g] # None
  BY NoneAssumption DEF MetaOK, Stored
<1>2. groups' \in [Groups -> Metas \cup {None}] /\ \A h \in Groups : groups'[h] = IF h = g THEN m ELSE groups[h]
  BY <1>1 DEF IInv, GroupsOK
<1>3. Stored' = Stored
  BY <1>1, <1>2 DEF Stored
<1>4. OrderOK(Stored, order')
  <2>1. OrderOK(Stored, order) /\ (Stored \ {}) \cup {g} = Stored
    BY <1>1 DEF IInv, GroupsOK, Stored
  <2>2. OrderOK(Stored, Touched(g, {}))
    BY <2>1, TouchedOrder
  <2> QED BY <2>1, <2>2
<1>5. SizesOf(groups') = SizesOf(groups)
  BY <1>1, <1>2 DEF SizesOf
<1>6. GroupsOK'
  <2>1. \A h \in Groups : groups'[h] # None => plan'.bundle[h] # None /\ MetaOK(plan'.bundle[h], groups'[h])
    BY <1>1, <1>2 DEF IInv, GroupsOK
  <2>2. usedBytes' = SumOf(SizesOf(groups'), Groups) /\ usedBytes' \in Nat /\ usedBytes' <= MaxBytes
    BY <1>5 DEF IInv, GroupsOK
  <2>3. OrderOK(Stored', order')
    BY <1>3, <1>4
  <2> QED BY <1>2, <2>1, <2>2, <2>3 DEF GroupsOK
<1>7. CallsOK'
  BY DEF CallsOK
<1> QED BY <1>6, <1>7 DEF IInv

(* Groups go. *)
LEMMA TokensFewer ==
    ASSUME NEW G, NEW p, NEW c, TokenOK(G, p, c), NEW gs
    PROVE  TokenOK([g \in Groups |-> IF g \in gs THEN None ELSE G[g]], p, c)
BY DEF TokenOK

LEMMA DropMoves ==
    ASSUME IInv, NEW gs \in SUBSET Groups, Drop(gs),
           calls' = [q \in Processors |-> calls'[q]],
           \A q \in Processors : CallOK(plan.bundle, calls'[q]) /\ TokenOK(groups, q, calls'[q]),
           WorldOK', plan'.bundle = plan.bundle
    PROVE  IInv'
<1>1. groups' = [g \in Groups |-> IF g \in gs THEN None ELSE groups[g]]
  BY DEF Drop, Without
<1>2. groups' \in [Groups -> Metas \cup {None}] /\ \A h \in Groups : groups'[h] = IF h \in gs THEN None ELSE groups[h]
  BY <1>1 DEF IInv, GroupsOK
<1>3. Stored' = Stored \ gs
  BY <1>2 DEF Stored
<1>4. OrderOK(Stored', order')
  <2>1. OrderOK(Stored \ gs, {o \in order : o[1] \notin gs /\ o[2] \notin gs})
    <3>1. OrderOK(Stored, order)
      BY DEF IInv, GroupsOK
    <3> QED BY <3>1, OrderDrops
  <2> QED BY <1>3, <2>1 DEF Drop, Remaining
<1>5. usedBytes' = SumOf(SizesOf(groups'), Groups) /\ usedBytes' \in Nat /\ usedBytes' <= MaxBytes
  <2>1. PlanOK /\ GroupsOK
    BY DEF IInv, WorldOK
  <2>2. usedBytes' = SumOf(SizesOf(Without(gs)), Groups) /\ usedBytes' \in Nat /\ usedBytes' <= usedBytes
    BY <2>1, FreedIsSum DEF Drop
  <2> QED BY <2>1, <2>2, BudgetAssumption DEF GroupsOK, Drop
<1>6. GroupsOK'
  <2>1. \A h \in Groups : groups'[h] # None => plan'.bundle[h] # None /\ MetaOK(plan'.bundle[h], groups'[h])
    BY <1>2 DEF IInv, GroupsOK
  <2> QED BY <1>2, <1>4, <1>5, <2>1 DEF GroupsOK
<1>7. CallsOK'
  <2>1. \A q \in Processors : TokenOK(groups', q, calls'[q])
    BY <1>1, TokensFewer
  <2> QED BY <2>1 DEF CallsOK
<1> QED BY <1>6, <1>7 DEF IInv

--------------------------------------------------------------------------------
(* The steps of a processor that leave the store alone. *)

LEMMA Untokened ==
    ASSUME NEW G, NEW p, NEW c, TokenOK(G, p, c), c.pc \notin Draining, NEW d
    PROVE  TokenOK(G, p, d)
BY DEF TokenOK

LEMMA IdleOK == CallOK(plan.bundle, Idle) /\ Idle \in Calls
<1>1. Fresh \in Metas
  BY DEF Fresh, Metas
<1>2. Idle \in Calls
  BY <1>1 DEF Idle, Calls, Pcs
<1> QED BY <1>2 DEF CallOK, Idle

LEMMA OuterIs ==
    ASSUME IInv, NEW p \in Processors, NEW o \in inbox[p]
    PROVE  o[1] \in Groups /\ plan.bundle[o[1]] # None /\ o[2] \in 0..(plan.bundle[o[1]].total - 1) /\ o[2] \in Nat
<1>1. inbox[p] \subseteq Outers
  BY DEF IInv, WorldOK
<1>2. PICK g \in Offered : o \in {g} \X Chunks(g)
  BY <1>1 DEF Outers
<1>3. g \in Groups /\ plan.bundle[g] # None /\ Chunks(g) = 0..(plan.bundle[g].total - 1)
  BY <1>2 DEF Offered, Bundle, Chunks
<1>4. plan.bundle[g].total \in Nat
  BY <1>3 DEF IInv, WorldOK, PlanOK, Bundles
<1> QED BY <1>2, <1>3, <1>4

LEMMA WorldReceives ==
    ASSUME IInv, NEW p \in Processors, NEW o,
           inbox' = [inbox EXCEPT ![p] = @ \ {o}], UNCHANGED <<ignored, delivered>>,
           PlanOK', plan'.bundle = plan.bundle
    PROVE  WorldOK'
<1>1. Outers' = Outers
  BY OutersStay
<1>2. inbox' \in [Processors -> SUBSET Outers]
  BY DEF IInv, WorldOK
<1> QED BY <1>1, <1>2 DEF IInv, WorldOK

LEMMA WorldSame ==
    ASSUME IInv, UNCHANGED <<inbox, ignored, delivered>>, PlanOK', plan'.bundle = plan.bundle
    PROVE  WorldOK'
BY OutersStay DEF IInv, WorldOK

LEMMA ReceiveKeeps == ASSUME IInv, NEW p \in Processors, Receive(p) PROVE IInv'
<1>1. PICK o \in inbox[p] :
        /\ At(p, "idle")
        /\ inbox' = [inbox EXCEPT ![p] = @ \ {o}]
        /\ IF o[1] \in ignored[p] THEN UNCHANGED calls
           ELSE calls' = [calls EXCEPT ![p] = [Idle EXCEPT !.pc = "put", !.group = o[1], !.index = o[2]]]
        /\ UNCHANGED <<plan, groups, order, usedBytes, ignored, delivered>>
  BY DEF Receive
<1>2. PlanOK' /\ plan'.bundle = plan.bundle
  BY <1>1, SameSteady DEF IInv, WorldOK
<1>3. WorldOK'
  BY <1>1, <1>2, WorldReceives
<1>4. CallOK(plan.bundle, calls[p]) /\ TokenOK(groups, p, calls[p]) /\ calls[p].pc \notin Draining
  BY <1>1 DEF IInv, CallsOK, At, Draining
<1>5. CASE o[1] \in ignored[p]
  <2>1. calls' = [calls EXCEPT ![p] = calls[p]]
    BY <1>1, <1>5 DEF IInv, CallsOK
  <2> QED BY <1>1, <1>2, <1>3, <1>4, <2>1, CallMoves
<1>6. CASE o[1] \notin ignored[p]
  <2> DEFINE d == [Idle EXCEPT !.pc = "put", !.group = o[1], !.index = o[2]]
  <2>1. CallOK(plan.bundle, d)
    <3>1. d \in Calls
      BY IdleOK, OuterIs DEF Calls, Pcs
    <3>2. d.pc = "put" /\ d.group = o[1] /\ d.index = o[2] /\ d.result = "partial"
      BY DEF Idle
    <3> QED BY <3>1, <3>2, OuterIs DEF CallOK
  <2>2. TokenOK(groups, p, d)
    BY <1>4, Untokened
  <2>3. calls' = [calls EXCEPT ![p] = d]
    BY <1>1, <1>6
  <2> HIDE DEF d
  <2> QED BY <1>1, <1>2, <1>3, <2>1, <2>2, <2>3, CallMoves
<1> QED BY <1>5, <1>6

LEMMA ReceiveUnprovedKeeps == ASSUME IInv, NEW p \in Processors, ReceiveUnproved(p) PROVE IInv'
<1>1. PICK o \in inbox[p] :
        /\ At(p, "idle")
        /\ Strikes("invalid")
        /\ inbox' = [inbox EXCEPT ![p] = @ \ {o}]
        /\ calls' = [calls EXCEPT ![p] = [Idle EXCEPT !.pc = "failed", !.group = o[1], !.ignore = TRUE]]
        /\ UNCHANGED <<groups, order, usedBytes, ignored, delivered>>
  BY DEF ReceiveUnproved
<1>2. PlanOK' /\ plan'.bundle = plan.bundle
  BY <1>1, StrikesSteady DEF IInv, WorldOK
<1>3. WorldOK'
  BY <1>1, <1>2, WorldReceives
<1> DEFINE d == [Idle EXCEPT !.pc = "failed", !.group = o[1], !.ignore = TRUE]
<1>4. CallOK(plan.bundle, d)
  <2>1. d \in Calls
    BY IdleOK, OuterIs DEF Calls, Pcs
  <2>2. d.pc = "failed" /\ d.group = o[1] /\ d.result = "partial"
    BY DEF Idle
  <2> QED BY <2>1, <2>2, OuterIs DEF CallOK
<1>5. TokenOK(groups, p, d)
  BY <1>1, Untokened DEF IInv, CallsOK, At, Draining
<1> HIDE DEF d
<1>6. calls' = [calls EXCEPT ![p] = d]
  BY <1>1 DEF d
<1> QED BY <1>1, <1>2, <1>3, <1>4, <1>5, <1>6, CallMoves

(* What a handler goes on to that has the group in hand no more. *)
Loose == {"failed", "deliver", "finish"}
LEMMA GoesLoose ==
    ASSUME IInv, NEW p \in Processors, calls[p].pc \notin Draining \cup {"idle"}, NEW d \in Calls,
           d.pc \in Loose, d.group = calls[p].group, d.result = calls[p].result, d.meta = calls[p].meta
    PROVE  CallOK(plan.bundle, d) /\ TokenOK(groups, p, d)
<1>1. CallOK(plan.bundle, calls[p]) /\ TokenOK(groups, p, calls[p])
  BY DEF IInv, CallsOK
<1> QED BY <1>1, Untokened DEF CallOK, Loose

LEMMA GatherKeeps == ASSUME IInv, NEW p \in Processors, Gather(p) PROVE IInv'
<1>1. PlanOK' /\ plan'.bundle = plan.bundle /\ WorldOK'
  BY SameSteady, WorldSame DEF IInv, WorldOK, Gather
<1>2. PICK d \in Calls : /\ d.pc \in Loose /\ d.group = calls[p].group
                         /\ d.result = calls[p].result /\ d.meta = calls[p].meta
                         /\ calls' = [calls EXCEPT ![p] = d]
  <2>1. calls[p] \in Calls
    BY Types
  <2> DEFINE d1 == [calls[p] EXCEPT !.pc = "deliver"]
             d2 == [calls[p] EXCEPT !.pc = "failed", !.ignore = FALSE]
  <2>2. d1 \in Calls /\ d2 \in Calls
    BY <2>1 DEF Calls, Pcs
  <2>3. calls' = [calls EXCEPT ![p] = d1] \/ calls' = [calls EXCEPT ![p] = d2]
    BY DEF Gather, Goto, Throw
  <2>4. \A d \in {d1, d2} : /\ d.pc \in Loose /\ d.group = calls[p].group
                            /\ d.result = calls[p].result /\ d.meta = calls[p].meta
    BY <2>1 DEF Loose, Calls
  <2> HIDE DEF d1, d2
  <2> QED BY <2>2, <2>3, <2>4
<1>3. calls[p].pc = "gather" /\ UNCHANGED <<groups, order, usedBytes>>
  BY DEF Gather, At
<1>4. CallOK(plan.bundle, d) /\ TokenOK(groups, p, d)
  BY <1>2, <1>3, GoesLoose DEF Draining
<1> QED BY <1>1, <1>2, <1>3, <1>4, CallMoves

LEMMA ClaimGoneKeeps == ASSUME IInv, NEW p \in Processors, ClaimGone(p) PROVE IInv'
<1>1. PlanOK' /\ plan'.bundle = plan.bundle /\ WorldOK'
  BY SameSteady, WorldSame DEF IInv, WorldOK, ClaimGone
<1>2. TokenOK(groups, p, Idle)
  BY Untokened DEF IInv, CallsOK, ClaimGone, At, Draining
<1> QED BY <1>1, <1>2, IdleOK, CallMoves DEF ClaimGone, Return

LEMMA SeedKeeps == ASSUME IInv, NEW p \in Processors, Seed(p) PROVE IInv'
<1>1. PlanOK' /\ plan'.bundle = plan.bundle /\ WorldOK'
  BY SameSteady, WorldSame DEF IInv, WorldOK, Seed
<1>2. PICK d \in Calls : /\ d.pc \in Loose /\ d.group = calls[p].group
                         /\ d.result = calls[p].result /\ d.meta = calls[p].meta
                         /\ calls' = [calls EXCEPT ![p] = d]
  <2>1. calls[p] \in Calls
    BY Types
  <2> DEFINE d1(x) == [calls[p] EXCEPT !.pc = x]
             d2 == [calls[p] EXCEPT !.pc = "failed", !.ignore = FALSE]
             D == {d1("deliver"), d1("finish"), d2}
  <2>2. d1("deliver") \in Calls /\ d1("finish") \in Calls /\ d2 \in Calls
    BY <2>1 DEF Calls, Pcs
  <2>3. \E d \in D : calls' = [calls EXCEPT ![p] = d]
    BY DEF Seed, Goto, Throw
  <2>4. \A d \in D : /\ d.pc \in Loose /\ d.group = calls[p].group
                     /\ d.result = calls[p].result /\ d.meta = calls[p].meta
    BY <2>1 DEF Loose, Calls
  <2> QED BY <2>2, <2>3, <2>4
<1>3. calls[p].pc = "seed" /\ UNCHANGED <<groups, order, usedBytes>>
  BY DEF Seed, At
<1>4. CallOK(plan.bundle, d) /\ TokenOK(groups, p, d)
  BY <1>2, <1>3, GoesLoose DEF Draining
<1> QED BY <1>1, <1>2, <1>3, <1>4, CallMoves

LEMMA DeliverKeeps == ASSUME IInv, NEW p \in Processors, Deliver(p) \/ DeliveryRejected(p) PROVE IInv'
<1>1. calls[p] \in Calls /\ calls[p].pc = "deliver" /\ UNCHANGED <<groups, order, usedBytes>>
  BY Types DEF Deliver, DeliveryRejected, At
<1>2. CASE Deliver(p)
  <2> DEFINE d == [calls[p] EXCEPT !.pc = "finish"]
  <2>1. calls[p].group \in Groups
    BY <1>1 DEF IInv, CallsOK, CallOK
  <2>2. delivered' \subseteq Processors \X Groups
    BY <1>2, <2>1 DEF Deliver, Key, IInv, WorldOK
  <2>3. PlanOK' /\ plan'.bundle = plan.bundle
    BY <1>2, SameSteady DEF Deliver, IInv, WorldOK
  <2>4. WorldOK'
    BY <1>2, <2>2, <2>3, OutersStay DEF Deliver, IInv, WorldOK
  <2>5. d \in Calls /\ d.pc \in Loose /\ d.group = calls[p].group /\ d.result = calls[p].result /\ d.meta = calls[p].meta
    BY <1>1 DEF Calls, Pcs, Loose
  <2>6. calls' = [calls EXCEPT ![p] = d]
    BY <1>2 DEF Deliver, Goto
  <2> HIDE DEF d
  <2>7. CallOK(plan.bundle, d) /\ TokenOK(groups, p, d)
    BY <1>1, <2>5, GoesLoose DEF Draining
  <2> QED BY <1>1, <2>3, <2>4, <2>6, <2>7, CallMoves
<1>3. CASE DeliveryRejected(p)
  <2> DEFINE d == [calls[p] EXCEPT !.pc = "failed", !.ignore = FALSE]
  <2>1. PlanOK' /\ plan'.bundle = plan.bundle /\ WorldOK'
    BY <1>3, StrikesSteady, WorldSame DEF DeliveryRejected, IInv, WorldOK
  <2>2. d \in Calls /\ d.pc \in Loose /\ d.group = calls[p].group /\ d.result = calls[p].result /\ d.meta = calls[p].meta
    BY <1>1 DEF Calls, Pcs, Loose
  <2>3. calls' = [calls EXCEPT ![p] = d]
    BY <1>3 DEF DeliveryRejected, Throw
  <2> HIDE DEF d
  <2>4. CallOK(plan.bundle, d) /\ TokenOK(groups, p, d)
    BY <1>1, <2>2, GoesLoose DEF Draining
  <2> QED BY <1>1, <2>1, <2>3, <2>4, CallMoves
<1> QED BY <1>2, <1>3

--------------------------------------------------------------------------------
(* Reading lines. *)

LEMMA RowsAre ==
    ASSUME PlanOK, NEW g \in Groups, plan.bundle[g] # None
    PROVE  /\ plan.bundle[g].total \in Nat \ {0} /\ Len(plan.bundle[g].rows) \in Nat
           /\ \A k \in 1..Len(plan.bundle[g].rows) : plan.bundle[g].rows[k] \in Nat /\ plan.bundle[g].rows[k] < plan.bundle[g].total
           /\ \A j, k \in 1..Len(plan.bundle[g].rows) : j <= k => plan.bundle[g].rows[j] <= plan.bundle[g].rows[k]
BY DEF PlanOK, Bundles, InOrder

(* A record keeps its type over a line. *)
LEMMA NextLineIs ==
    ASSUME IInv, NEW p \in Processors, At(p, "lines"), HasLine(p)
    PROVE  /\ NextLine(p) \in Calls
           /\ NextLine(p).pc = "lines" /\ NextLine(p).group = calls[p].group /\ NextLine(p).result = calls[p].result
           /\ NextLine(p).meta.nextIndex = calls[p].meta.nextIndex
           /\ InChunk(plan.bundle[calls[p].group], NextLine(p))
<1> DEFINE c == calls[p]
           b == plan.bundle[c.group]
           d == NextLine(p)
           row == c.row
           pay == c.meta.payload \/ c.meta.rowIndex = 0
           rec == IF c.row = 0 THEN c.meta.receivers ELSE c.meta.receivers \cup {c.row}
           m == [c.meta EXCEPT !.rowIndex = c.meta.rowIndex + 1, !.payload = pay, !.receivers = rec]
<1>1. c \in Calls /\ CallOK(plan.bundle, c) /\ c.pc = "lines" /\ c.meta \in Metas /\ row \in Nat
  BY DEF IInv, CallsOK, CallOK, At, Calls
<1>2. c.group \in Groups /\ b # None /\ InChunk(b, c)
  BY <1>1 DEF CallOK
<1>3. d = [c EXCEPT !.row = row + 1, !.meta = m]
  BY <1>1 DEF NextLine, Calls, Metas
<1>4. pay \in BOOLEAN /\ rec \in SUBSET Nat /\ c.meta.rowIndex + 1 \in Nat
  BY <1>1 DEF Metas
<1>5. HasLine(p) <=> row < Len(b.rows) /\ b.rows[row + 1] = c.meta.nextIndex
  BY DEF HasLine, Key, Bundle
<1>6. pay <=> c.meta.payload \/ c.meta.rowIndex = 0
  OBVIOUS
<1>7. rec = IF row = 0 THEN c.meta.receivers ELSE c.meta.receivers \cup {row}
  OBVIOUS
<1> HIDE DEF pay, rec
<1>8. m \in Metas /\ m.rowIndex = c.meta.rowIndex + 1 /\ m.payload = pay /\ m.receivers = rec
      /\ m.nextIndex = c.meta.nextIndex
  BY <1>1, <1>4 DEF Metas
<1> HIDE DEF m
<1>9. d \in Calls
  <2>1. \A r \in Nat, n \in Metas : [c EXCEPT !.row = r, !.meta = n] \in Calls
    BY <1>1 DEF Calls
  <2>2. row + 1 \in Nat
    BY <1>1
  <2> QED BY <1>3, <1>8, <2>1, <2>2
<1>10. d.pc = "lines" /\ d.group = c.group /\ d.result = c.result /\ d.row = row + 1 /\ d.meta = m
  BY <1>1, <1>3 DEF Calls
<1>11. InChunk(b, d)
  <2> SUFFICES ASSUME Whole(b) PROVE /\ Counts(m, row + 1) /\ row + 1 <= Len(b.rows)
                                     /\ \A k \in 1..Len(b.rows) :
                                          /\ b.rows[k] < c.meta.nextIndex => k <= row + 1
                                          /\ k <= row + 1 => b.rows[k] <= c.meta.nextIndex
    BY <1>8, <1>10 DEF InChunk
  <2>1. Counts(c.meta, row) /\ \A k \in 1..Len(b.rows) :
            /\ b.rows[k] < c.meta.nextIndex => k <= row
            /\ k <= row => b.rows[k] <= c.meta.nextIndex
    BY <1>2 DEF InChunk
  <2>2. row < Len(b.rows) /\ b.rows[row + 1] = c.meta.nextIndex
    BY <1>5
  <2>3. Len(b.rows) \in Nat /\ c.meta.nextIndex \in Nat /\ \A k \in 1..Len(b.rows) : b.rows[k] \in Nat
    BY <1>1, <1>2, RowsAre DEF Metas, IInv, WorldOK
  <2>4. Counts(m, row + 1)
    <3>1. c.meta.rowIndex = row /\ (c.meta.payload <=> row > 0) /\ c.meta.receivers = 1..(row - 1)
      BY <2>1 DEF Counts
    <3> HIDE DEF row, c
    <3>2. row \in Nat /\ m.rowIndex = row + 1 /\ pay
      BY <1>1, <1>6, <1>8, <3>1
    <3>3. rec = 1..((row + 1) - 1)
      <4>1. CASE row = 0
        <5>1. 1..(row - 1) = {} /\ 1..((row + 1) - 1) = {}
          BY <4>1
        <5> QED BY <1>7, <3>1, <4>1, <5>1
      <4>2. CASE row > 0
        <5>1. 1..(row - 1) \cup {row} = 1..((row + 1) - 1)
          BY <3>2, <4>2
        <5>2. row # 0
          BY <3>2, <4>2
        <5> QED BY <1>7, <3>1, <5>1, <5>2
      <4> QED BY <3>2, <4>1, <4>2
    <3>4. (row + 1 > 0) = TRUE
      BY <3>2
    <3>5. pay = TRUE
      BY <1>4, <3>2
    <3>6. m.payload = (row + 1 > 0)
      BY <1>8, <3>4, <3>5, Zenon
    <3> QED BY <1>8, <3>2, <3>3, <3>6, Zenon DEF Counts
  <2> HIDE DEF b, c, row
  <2>5. ASSUME NEW k \in 1..Len(b.rows)
        PROVE  /\ b.rows[k] < c.meta.nextIndex => k <= row + 1
               /\ k <= row + 1 => b.rows[k] <= c.meta.nextIndex
    <3>1. /\ b.rows[k] < c.meta.nextIndex => k <= row
          /\ k <= row => b.rows[k] <= c.meta.nextIndex
      BY <2>1
    <3>2. b.rows[k] \in Nat /\ k \in Nat
      BY <2>3
    <3>3. CASE k = row + 1
      BY <2>2, <2>3, <3>3
    <3>4. CASE k # row + 1
      BY <1>1, <3>1, <3>2, <3>4
    <3> QED BY <3>3, <3>4
  <2>6. row + 1 <= Len(b.rows)
    BY <1>1, <2>2, <2>3
  <2> QED BY <2>4, <2>5, <2>6
<1> QED BY <1>8, <1>9, <1>10, <1>11

(* The group stays with the token over a line. *)
LEMMA LineOK ==
    ASSUME IInv, NEW p \in Processors, At(p, "lines"), HasLine(p), NEW d \in Calls,
           d.group = calls[p].group, d.meta.nextIndex = calls[p].meta.nextIndex, d.pc \in {"lines", "stop", "release"}
    PROVE  TokenOK(groups, p, d)
BY DEF IInv, CallsOK, TokenOK, At, Draining

LEMMA HandOverKeeps == ASSUME IInv, NEW p \in Processors, HandOver(p) PROVE IInv'
<1>1. PlanOK' /\ plan'.bundle = plan.bundle /\ WorldOK'
  BY SameSteady, WorldSame DEF IInv, WorldOK, HandOver
<1>2. At(p, "lines") /\ HasLine(p) /\ calls' = [calls EXCEPT ![p] = NextLine(p)]
  BY DEF HandOver
<1>3. CallOK(plan.bundle, NextLine(p))
  BY <1>2, NextLineIs DEF CallOK, IInv, CallsOK, At
<1>4. TokenOK(groups, p, NextLine(p))
  BY <1>2, NextLineIs, LineOK
<1> QED BY <1>1, <1>2, <1>3, <1>4, CallMoves DEF HandOver

(* A line that throws. *)
LEMMA ThrownOK ==
    ASSUME IInv, NEW p \in Processors, At(p, "lines"), HasLine(p), NEW ignore \in BOOLEAN
    PROVE  LET d == [calls[p] EXCEPT !.pc = "release", !.result = "thrown", !.ignore = ignore]
           IN  CallOK(plan.bundle, d) /\ TokenOK(groups, p, d)
<1> DEFINE d == [calls[p] EXCEPT !.pc = "release", !.result = "thrown", !.ignore = ignore]
<1>1. calls[p] \in Calls /\ CallOK(plan.bundle, calls[p]) /\ calls[p].pc = "lines"
  BY Types DEF IInv, CallsOK, At
<1>2. d \in Calls /\ d.pc = "release" /\ d.group = calls[p].group /\ d.meta = calls[p].meta /\ d.result = "thrown"
  BY <1>1 DEF Calls, Pcs
<1> HIDE DEF d
<1>3. CallOK(plan.bundle, d)
  BY <1>1, <1>2 DEF CallOK
<1>4. TokenOK(groups, p, d)
  BY <1>2, LineOK
<1> QED BY <1>3, <1>4 DEF d

LEMMA HandOverWrongRowKeeps == ASSUME IInv, NEW p \in Processors, HandOverWrongRow(p) PROVE IInv'
<1>1. PlanOK' /\ plan'.bundle = plan.bundle /\ WorldOK'
  BY SameSteady, WorldSame DEF IInv, WorldOK, HandOverWrongRow
<1> DEFINE d == [calls[p] EXCEPT !.pc = "release", !.result = "thrown", !.ignore = TRUE]
<1>2. CallOK(plan.bundle, d) /\ TokenOK(groups, p, d)
  BY ThrownOK DEF HandOverWrongRow
<1>3. calls' = [calls EXCEPT ![p] = d]
  BY DEF HandOverWrongRow
<1> HIDE DEF d
<1> QED BY <1>1, <1>2, <1>3, CallMoves DEF HandOverWrongRow

LEMMA FoundOK ==
    ASSUME IInv, NEW p \in Processors, At(p, "lines"), HasLine(p), NEW what \in {"event", "deferred"}
    PROVE  LET d == [NextLine(p) EXCEPT !.found = what, !.pc = IF WholeScan(Key(p)) THEN "lines" ELSE "stop"]
           IN  CallOK(plan.bundle, d) /\ TokenOK(groups, p, d)
<1> DEFINE n == NextLine(p)
           b == plan.bundle[calls[p].group]
           d == [n EXCEPT !.found = what, !.pc = IF WholeScan(Key(p)) THEN "lines" ELSE "stop"]
<1>1. n \in Calls /\ n.group = calls[p].group /\ n.result = calls[p].result
      /\ n.meta.nextIndex = calls[p].meta.nextIndex /\ InChunk(b, n)
  BY NextLineIs
<1>2. CallOK(plan.bundle, calls[p]) /\ calls[p].pc = "lines"
  BY DEF IInv, CallsOK, At
<1>3. WholeScan(Key(p)) <=> Whole(b)
  BY DEF WholeScan, Key, Bundle, Whole
<1> HIDE DEF n
<1>4. d \in Calls /\ d.group = n.group /\ d.result = n.result /\ d.meta = n.meta /\ d.row = n.row
      /\ d.pc = IF WholeScan(Key(p)) THEN "lines" ELSE "stop"
  BY <1>1 DEF Calls, Pcs
<1> HIDE DEF d
<1>5. InChunk(b, d)
  BY <1>1, <1>4 DEF InChunk
<1>6. CallOK(plan.bundle, d)
  BY <1>1, <1>2, <1>3, <1>4, <1>5 DEF CallOK
<1>7. TokenOK(groups, p, d)
  BY <1>1, <1>4, LineOK
<1> QED BY <1>6, <1>7 DEF d, n

LEMMA DecryptKeeps == ASSUME IInv, NEW p \in Processors, Decrypt(p) PROVE IInv'
<1>1. At(p, "lines") /\ HasLine(p) /\ UNCHANGED <<groups, order, usedBytes, inbox, ignored>>
  BY DEF Decrypt
<1> DEFINE d(what) == [NextLine(p) EXCEPT !.found = what, !.pc = IF WholeScan(Key(p)) THEN "lines" ELSE "stop"]
           t(ignore) == [calls[p] EXCEPT !.pc = "release", !.result = "thrown", !.ignore = ignore]
<1>2. CASE Found(p, "event") /\ UNCHANGED <<plan, delivered>>
  <2>1. PlanOK' /\ plan'.bundle = plan.bundle /\ WorldOK'
    BY <1>1, <1>2, SameSteady, WorldSame DEF IInv, WorldOK
  <2>2. CallOK(plan.bundle, d("event")) /\ TokenOK(groups, p, d("event"))
    BY <1>1, FoundOK
  <2>3. calls' = [calls EXCEPT ![p] = d("event")]
    BY <1>2 DEF Found
  <2> HIDE DEF d
  <2> QED BY <1>1, <2>1, <2>2, <2>3, CallMoves
<1>3. CASE Strikes("deferred") /\ Found(p, "deferred") /\ delivered' = delivered \cup {<<p, Key(p)>>}
  <2>1. PlanOK' /\ plan'.bundle = plan.bundle
    BY <1>3, StrikesSteady DEF IInv, WorldOK
  <2>2. Key(p) \in Groups
    BY <1>1 DEF IInv, CallsOK, CallOK, Key, At
  <2>3. WorldOK'
    BY <1>1, <1>3, <2>1, <2>2, OutersStay DEF IInv, WorldOK
  <2>4. CallOK(plan.bundle, d("deferred")) /\ TokenOK(groups, p, d("deferred"))
    BY <1>1, FoundOK
  <2>5. calls' = [calls EXCEPT ![p] = d("deferred")]
    BY <1>3 DEF Found
  <2> HIDE DEF d
  <2> QED BY <1>1, <2>1, <2>3, <2>4, <2>5, CallMoves
<1>4. CASE /\ Strikes("invalid") /\ UNCHANGED delivered
           /\ \E ignore \in BOOLEAN : calls' = [calls EXCEPT ![p] = t(ignore)]
  <2>1. PlanOK' /\ plan'.bundle = plan.bundle /\ WorldOK'
    BY <1>1, <1>4, StrikesSteady, WorldSame DEF IInv, WorldOK
  <2>2. PICK ignore \in BOOLEAN : calls' = [calls EXCEPT ![p] = t(ignore)]
    BY <1>4
  <2>3. CallOK(plan.bundle, t(ignore)) /\ TokenOK(groups, p, t(ignore))
    BY <1>1, ThrownOK
  <2> HIDE DEF t
  <2> QED BY <1>1, <2>1, <2>2, <2>3, CallMoves
<1> QED BY <1>2, <1>3, <1>4 DEF Decrypt

--------------------------------------------------------------------------------
(* Claiming, reading and committing. *)

(* Who is about to release the token may hold it. *)
LEMMA ReleasingOK ==
    ASSUME NEW G, NEW p, NEW c, TokenOK(G, p, c), NEW d, d.group = c.group, d.pc = "release"
    PROVE  TokenOK(G, p, d)
BY DEF TokenOK, Draining

(* A record of a group, and the group, of who drains it. *)
LEMMA OwnedIs ==
    ASSUME IInv, NEW p \in Processors, calls[p].pc # "idle"
    PROVE  /\ calls[p] \in Calls /\ calls[p].meta \in Metas
           /\ Key(p) = calls[p].group /\ Key(p) \in Groups /\ plan.bundle[Key(p)] # None
           /\ Key(p) \in Stored => groups[Key(p)] \in Metas /\ MetaOK(plan.bundle[Key(p)], groups[Key(p)])
           /\ CallOK(plan.bundle, calls[p]) /\ TokenOK(groups, p, calls[p])
<1>1. CallOK(plan.bundle, calls[p]) /\ TokenOK(groups, p, calls[p])
  BY DEF IInv, CallsOK
<1>2. calls[p] \in Calls /\ calls[p].group \in Groups /\ plan.bundle[calls[p].group] # None
  BY <1>1 DEF CallOK
<1>3. Key(p) = calls[p].group
  BY DEF Key
<1>4. Key(p) \in Stored => groups[Key(p)] \in Metas /\ MetaOK(plan.bundle[Key(p)], groups[Key(p)])
  BY DEF IInv, GroupsOK, Stored, MetaOK
<1> QED BY <1>1, <1>2, <1>3, <1>4 DEF Calls

LEMMA ReadKeeps == ASSUME IInv, NEW p \in Processors, Read(p) PROVE IInv'
<1> DEFINE c == calls[p]
           g == Key(p)
           b == plan.bundle[g]
           next == groups[g].nextIndex
           d1 == [c EXCEPT !.pc = "lines", !.meta = groups[g], !.row = FirstRow(g, next)]
           d2 == [c EXCEPT !.pc = "release"]
<1>1. c.pc = "read" /\ UNCHANGED <<plan, groups, order, usedBytes, inbox, ignored, delivered>>
  BY DEF Read, At
<1>2. PlanOK' /\ plan'.bundle = plan.bundle /\ WorldOK'
  BY <1>1, SameSteady, WorldSame DEF IInv, WorldOK
<1>3. /\ c \in Calls /\ g = c.group /\ g \in Groups /\ b # None
      /\ g \in Stored => groups[g] \in Metas /\ MetaOK(b, groups[g])
      /\ CallOK(plan.bundle, c) /\ TokenOK(groups, p, c) /\ c.result = "partial"
  <2>1. CallOK(plan.bundle, c)
    BY DEF IInv, CallsOK
  <2>2. c.result = "partial"
    BY <1>1, <2>1 DEF CallOK
  <2> QED BY <1>1, <2>2, OwnedIs
<1>4. CASE Owns(p) /\ next \in groups[g].received
  <2>1. calls' = [calls EXCEPT ![p] = d1]
    BY <1>4 DEF Read
  <2>2. groups[g] \in Metas /\ MetaOK(b, groups[g]) /\ next \in Nat
    BY <1>3, <1>4 DEF Owns, Metas
  <2>3. Passed(b, FirstRow(g, next), next) /\ \A r : Passed(b, r, next) => r = FirstRow(g, next)
    BY <1>3, <2>2, FirstRowPassed DEF IInv, WorldOK
  <2>4. FirstRow(g, next) \in Nat /\ FirstRow(g, next) <= Len(b.rows) /\ Len(b.rows) \in Nat
    <3>1. Len(b.rows) \in Nat
      BY <1>3, RowsAre DEF IInv, WorldOK
    <3> QED BY <2>3, <3>1 DEF Passed
  <2>5. d1 \in Calls /\ d1.pc = "lines" /\ d1.group = g /\ d1.meta = groups[g] /\ d1.row = FirstRow(g, next)
        /\ d1.result = "partial"
    BY <1>3, <2>2, <2>4 DEF Calls, Pcs
  <2>6. InChunk(b, d1)
    <3> SUFFICES ASSUME Whole(b)
                 PROVE  /\ Counts(groups[g], FirstRow(g, next))
                        /\ \A k \in 1..Len(b.rows) :
                              /\ b.rows[k] < next => k <= FirstRow(g, next)
                              /\ k <= FirstRow(g, next) => b.rows[k] <= next
      BY <2>4, <2>5 DEF InChunk
    <3>1. groups[g].rowIndex = FirstRow(g, next) /\ Counts(groups[g], groups[g].rowIndex)
      BY <2>2, <2>3 DEF MetaOK, Drained
    <3>2. \A k \in 1..Len(b.rows) : b.rows[k] < next <=> k <= FirstRow(g, next)
      BY <2>3 DEF Passed
    <3>3. \A k \in 1..Len(b.rows) : b.rows[k] \in Nat
      BY <1>3, RowsAre DEF IInv, WorldOK
    <3> QED BY <2>2, <3>1, <3>2, <3>3
  <2>7. TokenOK(groups, p, d1)
    <3> SUFFICES ASSUME NEW h \in Groups, groups[h] # None, groups[h].token = p
                 PROVE  h = g
      BY <1>4, <2>5 DEF TokenOK, Draining
    <3> QED BY <1>3 DEF TokenOK
  <2> HIDE DEF d1
  <2>8. CallOK(plan.bundle, d1)
    BY <1>3, <2>5, <2>6 DEF CallOK
  <2> QED BY <1>1, <1>2, <2>1, <2>7, <2>8, CallMoves
<1>5. CASE ~(Owns(p) /\ next \in groups[g].received)
  <2>1. calls' = [calls EXCEPT ![p] = d2]
    BY <1>5 DEF Read
  <2>2. d2 \in Calls /\ d2.pc = "release" /\ d2.group = c.group /\ d2.meta = c.meta /\ d2.result = "partial"
    BY <1>3 DEF Calls, Pcs
  <2> HIDE DEF d2
  <2>3. CallOK(plan.bundle, d2)
    BY <1>3, <2>2 DEF CallOK
  <2>4. TokenOK(groups, p, d2)
    BY <1>3, <2>2, ReleasingOK
  <2> QED BY <1>1, <1>2, <2>1, <2>3, <2>4, CallMoves
<1> QED BY <1>4, <1>5

LEMMA ClaimKeeps == ASSUME IInv, NEW p \in Processors, Claim(p) PROVE IInv'
<1> DEFINE c == calls[p]
           g == Key(p)
           b == plan.bundle[g]
           m == [groups[g] EXCEPT !.token = p, !.leased = TRUE, !.expired = FALSE]
           d == [c EXCEPT !.pc = "read", !.meta = m]
<1>1. /\ c.pc = "claim" /\ g \in Stored
      /\ groups' = [groups EXCEPT ![g] = m] /\ order' = Touched(g, {})
      /\ calls' = [calls EXCEPT ![p] = d]
      /\ UNCHANGED <<plan, usedBytes, inbox, ignored, delivered>>
  BY DEF Claim, At
<1>2. PlanOK' /\ plan'.bundle = plan.bundle /\ WorldOK'
  BY <1>1, SameSteady, WorldSame DEF IInv, WorldOK
<1>3. /\ c \in Calls /\ g = c.group /\ g \in Groups /\ b # None
      /\ groups[g] \in Metas /\ MetaOK(b, groups[g])
      /\ CallOK(plan.bundle, c) /\ TokenOK(groups, p, c)
  BY <1>1, OwnedIs
<1>4. c.result = "partial"
  BY <1>1, <1>3 DEF CallOK
<1>5. m \in Metas /\ m.token = p /\ m.received = groups[g].received /\ m.nextIndex = groups[g].nextIndex
      /\ m.rowIndex = groups[g].rowIndex /\ m.payload = groups[g].payload /\ m.receivers = groups[g].receivers
  BY <1>3 DEF Metas
<1> HIDE DEF m
<1>6. MetaOK(b, m)
  BY <1>3, <1>5 DEF MetaOK, Drained, Counts
<1>7. d \in Calls /\ d.pc = "read" /\ d.group = g /\ d.meta = m /\ d.result = "partial"
  BY <1>3, <1>4, <1>5 DEF Calls, Pcs
<1> HIDE DEF d
<1>8. CallOK(plan.bundle, d)
  BY <1>3, <1>6, <1>7 DEF CallOK, MetaOK
<1>9. \A h \in Groups : groups'[h] = IF h = g THEN m ELSE groups[h]
  BY <1>1, <1>3 DEF IInv, GroupsOK
<1>10. calls' = [q \in Processors |-> calls'[q]] /\ \A q \in Processors : calls'[q] = IF q = p THEN d ELSE calls[q]
  BY <1>1 DEF IInv, CallsOK
<1>11. ASSUME NEW q \in Processors PROVE CallOK(plan.bundle, calls'[q]) /\ TokenOK(groups', q, calls'[q])
  <2>1. CASE q = p
    <3>1. \A h \in Groups : groups'[h] # None /\ groups'[h].token = p => h = g
      BY <1>1, <1>3, <1>9 DEF TokenOK, Draining
    <3>2. TokenOK(groups', p, d)
      BY <1>5, <1>7, <1>9, <3>1 DEF TokenOK, Draining
    <3> QED BY <1>8, <1>10, <2>1, <3>2
  <2>2. CASE q # p
    <3>1. \A h \in Groups : groups'[h] # None /\ groups'[h].token = q => groups'[h] = groups[h]
      BY <1>5, <1>9, <2>2
    <3>2. TokenOK(groups, q, calls[q]) /\ CallOK(plan.bundle, calls[q])
      BY DEF IInv, CallsOK
    <3>3. TokenOK(groups', q, calls[q])
      BY <3>1, <3>2 DEF TokenOK
    <3> QED BY <1>10, <2>2, <3>2, <3>3
  <2> QED BY <2>1, <2>2
<1> QED BY <1>1, <1>2, <1>5, <1>6, <1>10, <1>11, RecordMoves

(* A commit, by a drain whose new record is sound, whoever holds the token. *)
LEMMA CommitKeeps ==
    ASSUME IInv, NEW p \in Processors, calls[p].pc \in Draining, NEW meta \in Metas,
           NEW then \in Calls, NEW otherwise,
           Owns(p) => 0..(meta.nextIndex - 1) \subseteq groups[Key(p)].received,
           Drained(plan.bundle[Key(p)], meta),
           then.group = calls[p].group, then.pc \in {"read", "release"}, then.pc = "read" => then.result = "partial",
           then.result = "complete" /\ Whole(plan.bundle[Key(p)]) =>
               meta.receivers = 1..(Len(plan.bundle[Key(p)].rows) - 1),
           CallOK(plan.bundle, otherwise), otherwise.group = calls[p].group, otherwise.pc = "release",
           Commit(p, meta, then, otherwise),
           UNCHANGED <<plan, usedBytes, inbox, ignored, delivered>>
    PROVE  IInv'
<1> DEFINE c == calls[p]
           g == Key(p)
           b == plan.bundle[g]
           m == Committed(p, meta)
           d == [then EXCEPT !.meta = m]
<1>1. PlanOK' /\ plan'.bundle = plan.bundle /\ WorldOK'
  BY SameSteady, WorldSame DEF IInv, WorldOK
<1>2. /\ c \in Calls /\ g = c.group /\ g \in Groups /\ b # None
      /\ g \in Stored => groups[g] \in Metas /\ MetaOK(b, groups[g])
      /\ CallOK(plan.bundle, c) /\ TokenOK(groups, p, c)
  BY OwnedIs DEF Draining
<1>3. CASE Owns(p)
  <2>1. groups' = [groups EXCEPT ![g] = m] /\ order' = Touched(g, {}) /\ calls' = [calls EXCEPT ![p] = d]
    BY <1>3 DEF Commit
  <2>2. g \in Stored /\ groups[g].token = p /\ groups[g] \in Metas /\ MetaOK(b, groups[g])
    BY <1>2, <1>3 DEF Owns
  <2>3. m \in Metas /\ m.token = p /\ m.received = groups[g].received /\ m.nextIndex = meta.nextIndex
        /\ m.rowIndex = meta.rowIndex /\ m.payload = meta.payload /\ m.receivers = meta.receivers
    BY <2>2 DEF Committed, Metas
  <2> HIDE DEF m
  <2>4. Drained(b, m)
    BY <2>3 DEF Drained, Counts
  <2>5. MetaOK(b, m)
    BY <1>3, <2>2, <2>3, <2>4 DEF MetaOK
  <2>6. d \in Calls /\ d.pc = then.pc /\ d.group = g /\ d.meta = m /\ d.result = then.result
    BY <1>2, <2>3 DEF Calls
  <2> HIDE DEF d
  <2>7. CallOK(plan.bundle, d)
    BY <1>2, <2>3, <2>4, <2>6 DEF CallOK
  <2>8. \A h \in Groups : groups'[h] = IF h = g THEN m ELSE groups[h]
    BY <1>2, <2>1 DEF IInv, GroupsOK
  <2>9. calls' = [q \in Processors |-> calls'[q]] /\ \A q \in Processors : calls'[q] = IF q = p THEN d ELSE calls[q]
    BY <2>1 DEF IInv, CallsOK
  <2>10. ASSUME NEW q \in Processors PROVE CallOK(plan.bundle, calls'[q]) /\ TokenOK(groups', q, calls'[q])
    <3>1. CASE q = p
      <4>1. \A h \in Groups : groups'[h] # None /\ groups'[h].token = p => h = g
        BY <1>2, <2>8 DEF TokenOK
      <4>2. TokenOK(groups', p, d)
        BY <2>3, <2>6, <2>8, <4>1 DEF TokenOK, Draining
      <4> QED BY <2>7, <2>9, <3>1, <4>2
    <3>2. CASE q # p
      <4>1. \A h \in Groups : groups'[h] # None /\ groups'[h].token = q => groups'[h] = groups[h]
        BY <2>3, <2>8, <3>2
      <4>2. TokenOK(groups, q, calls[q]) /\ CallOK(plan.bundle, calls[q])
        BY DEF IInv, CallsOK
      <4>3. TokenOK(groups', q, calls[q])
        BY <4>1, <4>2 DEF TokenOK
      <4> QED BY <2>9, <3>2, <4>2, <4>3
    <3> QED BY <3>1, <3>2
  <2> QED BY <1>1, <2>1, <2>2, <2>3, <2>5, <2>9, <2>10, RecordMoves
<1>4. CASE ~Owns(p)
  <2>1. calls' = [calls EXCEPT ![p] = otherwise] /\ UNCHANGED <<groups, order>>
    BY <1>4 DEF Commit
  <2>2. TokenOK(groups, p, otherwise)
    BY <1>2, ReleasingOK
  <2> QED BY <1>1, <2>1, <2>2, CallMoves
<1> QED BY <1>3, <1>4

(* A chunk whose lines are handed over: the next row ends in a later chunk. *)
LEMMA ChunkDone ==
    ASSUME IInv, NEW p \in Processors, At(p, "lines"), ~HasLine(p), Whole(plan.bundle[Key(p)])
    PROVE  Passed(plan.bundle[Key(p)], calls[p].row, calls[p].meta.nextIndex + 1) /\ Counts(calls[p].meta, calls[p].row)
<1> DEFINE c == calls[p]
           b == plan.bundle[Key(p)]
           rows == b.rows
           row == c.row
           next == c.meta.nextIndex
<1>1. c \in Calls /\ c.meta \in Metas /\ Key(p) = c.group /\ Key(p) \in Groups /\ b # None
      /\ CallOK(plan.bundle, c)
  BY OwnedIs DEF At
<1>2. InChunk(b, c)
  BY <1>1 DEF CallOK, At
<1>3. row \in Nat /\ next \in Nat
  BY <1>1 DEF Calls, Metas
<1>4. Len(rows) \in Nat /\ (\A k \in 1..Len(rows) : rows[k] \in Nat)
      /\ \A j, k \in 1..Len(rows) : j <= k => rows[j] <= rows[k]
  BY <1>1, RowsAre DEF IInv, WorldOK
<1>5. /\ Counts(c.meta, row) /\ row <= Len(rows)
      /\ \A k \in 1..Len(rows) : (rows[k] < next => k <= row) /\ (k <= row => rows[k] <= next)
  BY <1>2 DEF InChunk
<1>6. row < Len(rows) => rows[row + 1] # next
  BY DEF HasLine, Bundle
<1> HIDE DEF c, b, rows, row, next
<1>7. ASSUME NEW k \in 1..Len(rows) PROVE rows[k] < next + 1 <=> k <= row
  <2>1. CASE k <= row
    <3>1. rows[k] <= next /\ rows[k] \in Nat
      BY <1>4, <1>5, <2>1
    <3> QED BY <1>3, <2>1, <3>1
  <2>2. CASE ~(k <= row)
    <3>1. row + 1 \in 1..Len(rows) /\ row + 1 <= k
      BY <1>3, <1>4, <2>2
    <3>2. rows[row + 1] <= rows[k] /\ rows[row + 1] \in Nat /\ rows[k] \in Nat
      BY <1>4, <3>1
    <3>3. ~(rows[row + 1] < next)
      BY <1>3, <1>5, <3>1
    <3>4. rows[row + 1] # next
      BY <1>3, <1>4, <1>6, <3>1
    <3> QED BY <1>3, <2>2, <3>2, <3>3, <3>4
  <2> QED BY <2>1, <2>2
<1>8. row \in 0..Len(rows)
  BY <1>3, <1>4, <1>5
<1>9. Passed(b, row, next + 1)
  BY <1>7, <1>8 DEF Passed, rows
<1> QED BY <1>5, <1>9 DEF c, b, row, next

LEMMA CommitChunkKeeps == ASSUME IInv, NEW p \in Processors, CommitChunk(p) PROVE IInv'
<1> DEFINE c == calls[p]
           g == Key(p)
           b == plan.bundle[g]
           meta == [c.meta EXCEPT !.nextIndex = @ + 1]
           then == [c EXCEPT !.pc = "read"]
           otherwise == [c EXCEPT !.pc = "release"]
<1>1. /\ At(p, "lines") /\ ~HasLine(p) /\ c.pc = "lines"
      /\ Commit(p, meta, then, otherwise)
      /\ UNCHANGED <<plan, usedBytes, inbox, ignored, delivered>>
  BY DEF CommitChunk, At
<1>2. /\ c \in Calls /\ c.meta \in Metas /\ g = c.group /\ g \in Groups /\ b # None
      /\ g \in Stored => groups[g] \in Metas /\ MetaOK(b, groups[g])
      /\ CallOK(plan.bundle, c) /\ TokenOK(groups, p, c)
  BY <1>1, OwnedIs
<1>3. c.result = "partial"
  BY <1>1, <1>2 DEF CallOK
<1>4. meta \in Metas /\ meta.nextIndex = c.meta.nextIndex + 1 /\ meta.rowIndex = c.meta.rowIndex
      /\ meta.payload = c.meta.payload /\ meta.receivers = c.meta.receivers /\ c.meta.nextIndex \in Nat
  BY <1>2 DEF Metas
<1> HIDE DEF meta
<1>5. Drained(b, meta)
  <2> SUFFICES ASSUME Whole(b) PROVE Passed(b, meta.rowIndex, meta.nextIndex) /\ Counts(meta, meta.rowIndex)
    BY DEF Drained
  <2>1. Passed(b, c.row, c.meta.nextIndex + 1) /\ Counts(c.meta, c.row)
    BY <1>1, ChunkDone
  <2>2. meta.rowIndex = c.row
    BY <1>4, <2>1 DEF Counts
  <2> HIDE DEF c, b
  <2> QED BY <1>4, <2>1, <2>2 DEF Counts
<1>6. ASSUME Owns(p) PROVE 0..(meta.nextIndex - 1) \subseteq groups[g].received
  <2>1. groups[g] # None /\ groups[g].token = p
    BY <1>6 DEF Owns, Stored
  <2>2. c.meta.nextIndex = groups[g].nextIndex /\ c.meta.nextIndex \in groups[g].received
    BY <1>1, <1>2, <2>1 DEF TokenOK
  <2>3. 0..(c.meta.nextIndex - 1) \subseteq groups[g].received
    BY <1>2, <1>6, <2>2 DEF MetaOK, Owns
  <2> HIDE DEF c, g
  <2>4. 0..(meta.nextIndex - 1) = 0..(c.meta.nextIndex - 1) \cup {c.meta.nextIndex}
    BY <1>4
  <2> QED BY <2>2, <2>3, <2>4
<1>7. /\ then \in Calls /\ then.pc = "read" /\ then.group = c.group /\ then.result = "partial"
      /\ otherwise \in Calls /\ otherwise.pc = "release" /\ otherwise.group = c.group /\ otherwise.result = "partial"
  BY <1>2, <1>3 DEF Calls, Pcs
<1> HIDE DEF then, otherwise
<1>8. CallOK(plan.bundle, otherwise)
  BY <1>2, <1>7 DEF CallOK
<1>9. c.pc \in Draining
  BY <1>1 DEF Draining
<1> QED BY <1>1, <1>4, <1>5, <1>6, <1>7, <1>8, <1>9, CommitKeeps

LEMMA CommitStopKeeps == ASSUME IInv, NEW p \in Processors, CommitStop(p) PROVE IInv'
<1> DEFINE c == calls[p]
           g == Key(p)
           b == plan.bundle[g]
           stopped == [c EXCEPT !.pc = "release", !.result = "stopped"]
<1>1. c.pc = "stop" /\ Commit(p, c.meta, stopped, stopped) /\ UNCHANGED <<plan, usedBytes, inbox, ignored, delivered>>
  BY DEF CommitStop, At
<1>2. /\ c \in Calls /\ c.meta \in Metas /\ g = c.group /\ g \in Groups /\ b # None
      /\ g \in Stored => groups[g] \in Metas /\ MetaOK(b, groups[g])
      /\ CallOK(plan.bundle, c) /\ TokenOK(groups, p, c)
  BY <1>1, OwnedIs
<1>3. ~Whole(b) /\ Drained(b, c.meta)
  BY <1>1, <1>2 DEF CallOK, Drained
<1>4. ASSUME Owns(p) PROVE 0..(c.meta.nextIndex - 1) \subseteq groups[g].received
  <2>1. groups[g] # None /\ groups[g].token = p
    BY <1>4 DEF Owns, Stored
  <2>2. c.meta.nextIndex = groups[g].nextIndex
    BY <1>1, <1>2, <2>1 DEF TokenOK
  <2> QED BY <1>2, <1>4, <2>2 DEF MetaOK, Owns
<1>5. stopped \in Calls /\ stopped.pc = "release" /\ stopped.group = c.group /\ stopped.result = "stopped"
  BY <1>2 DEF Calls, Pcs
<1> HIDE DEF stopped
<1>6. CallOK(plan.bundle, stopped)
  BY <1>2, <1>5 DEF CallOK
<1>7. c.pc \in Draining
  BY <1>1 DEF Draining
<1> QED BY <1>1, <1>2, <1>3, <1>4, <1>5, <1>6, <1>7, CommitKeeps

LEMMA CommitEndKeeps == ASSUME IInv, NEW p \in Processors, CommitEnd(p) PROVE IInv'
<1> DEFINE c == calls[p]
           g == Key(p)
           b == plan.bundle[g]
           then == [c EXCEPT !.pc = "release", !.result = "complete"]
           otherwise == [c EXCEPT !.pc = "release"]
<1>1. c.pc = "read" /\ c.meta.nextIndex >= b.total /\ Commit(p, c.meta, then, otherwise)
      /\ UNCHANGED <<plan, usedBytes, inbox, ignored, delivered>>
  BY DEF CommitEnd, At, Bundle
<1>2. /\ c \in Calls /\ c.meta \in Metas /\ g = c.group /\ g \in Groups /\ b # None
      /\ g \in Stored => groups[g] \in Metas /\ MetaOK(b, groups[g])
      /\ CallOK(plan.bundle, c) /\ TokenOK(groups, p, c)
  BY <1>1, OwnedIs
<1>3. Drained(b, c.meta) /\ c.result = "partial"
  BY <1>1, <1>2 DEF CallOK
<1>4. ASSUME Owns(p) PROVE 0..(c.meta.nextIndex - 1) \subseteq groups[g].received
  <2>1. groups[g] # None /\ groups[g].token = p
    BY <1>4 DEF Owns, Stored
  <2>2. c.meta.nextIndex = groups[g].nextIndex
    BY <1>1, <1>2, <2>1 DEF TokenOK
  <2> QED BY <1>2, <1>4, <2>2 DEF MetaOK, Owns
<1>5. /\ then \in Calls /\ then.pc = "release" /\ then.group = c.group /\ then.result = "complete"
      /\ otherwise \in Calls /\ otherwise.pc = "release" /\ otherwise.group = c.group /\ otherwise.result = "partial"
  BY <1>2, <1>3 DEF Calls, Pcs
<1> HIDE DEF then, otherwise
<1>6. CallOK(plan.bundle, otherwise)
  BY <1>2, <1>5 DEF CallOK
<1>7. ASSUME Whole(b) PROVE c.meta.receivers = 1..(Len(b.rows) - 1)
  <2>1. Passed(b, c.meta.rowIndex, c.meta.nextIndex) /\ c.meta.receivers = 1..(c.meta.rowIndex - 1)
    BY <1>3, <1>7 DEF Drained, Counts
  <2>2. Len(b.rows) \in Nat /\ b.total \in Nat /\ \A k \in 1..Len(b.rows) : b.rows[k] \in Nat /\ b.rows[k] < b.total
    BY <1>2, RowsAre DEF IInv, WorldOK
  <2>3. c.meta.nextIndex \in Nat /\ c.meta.rowIndex \in Nat
    BY <1>2 DEF Metas
  <2>4. c.meta.rowIndex <= Len(b.rows) /\ \A k \in 1..Len(b.rows) : b.rows[k] < c.meta.nextIndex <=> k <= c.meta.rowIndex
    BY <2>1, <2>2 DEF Passed
  <2> HIDE DEF c, b
  <2>5. Len(b.rows) <= c.meta.rowIndex
    <3>1. CASE Len(b.rows) = 0
      BY <2>3, <3>1
    <3>2. CASE Len(b.rows) > 0
      <4>1. Len(b.rows) \in 1..Len(b.rows)
        BY <2>2, <3>2
      <4>2. b.rows[Len(b.rows)] < b.total /\ b.rows[Len(b.rows)] \in Nat
        BY <2>2, <4>1
      <4>3. b.rows[Len(b.rows)] < c.meta.nextIndex
        BY <1>1, <2>2, <2>3, <4>2
      <4> QED BY <2>4, <4>1, <4>3
    <3> QED BY <2>2, <3>1, <3>2
  <2>6. c.meta.rowIndex = Len(b.rows)
    BY <2>2, <2>3, <2>4, <2>5
  <2> QED BY <2>1, <2>6
<1>8. c.pc \in Draining
  BY <1>1 DEF Draining
<1> QED BY <1>1, <1>2, <1>3, <1>4, <1>5, <1>6, <1>7, <1>8, CommitKeeps

(* The token is given up, and the handler goes on. *)
LEMMA ReleaseKeeps == ASSUME IInv, NEW p \in Processors, Release(p) PROVE IInv'
<1> DEFINE c == calls[p]
           g == Key(p)
           b == plan.bundle[g]
           m == [groups[g] EXCEPT !.token = Free, !.leased = FALSE]
           x == AfterDrain(p)
           d == IF x = "idle" THEN Idle ELSE [c EXCEPT !.pc = x]
<1>1. /\ c.pc = "release"
      /\ groups' = IF Owns(p) THEN [groups EXCEPT ![g] = m] ELSE groups
      /\ calls' = [calls EXCEPT ![p] = d]
      /\ UNCHANGED <<plan, order, usedBytes, inbox, ignored, delivered>>
  BY DEF Release, At, Return, Goto
<1>2. PlanOK' /\ plan'.bundle = plan.bundle /\ WorldOK'
  BY <1>1, SameSteady, WorldSame DEF IInv, WorldOK
<1>3. /\ c \in Calls /\ g = c.group /\ g \in Groups /\ b # None
      /\ g \in Stored => groups[g] \in Metas /\ MetaOK(b, groups[g])
      /\ CallOK(plan.bundle, c) /\ TokenOK(groups, p, c)
  BY <1>1, OwnedIs
<1>4. x \in {"failed", "deliver", "finish", "seed", "idle"}
  BY DEF AfterDrain
<1> HIDE DEF x
<1>5. CallOK(plan.bundle, d)
  <2>1. CASE x = "idle"
    BY <2>1, IdleOK
  <2>2. CASE x # "idle"
    <3> DEFINE e == [c EXCEPT !.pc = x]
    <3>1. e \in Calls /\ e.pc = x /\ e.group = c.group /\ e.meta = c.meta /\ e.result = c.result
      BY <1>3, <1>4 DEF Calls, Pcs
    <3> HIDE DEF e
    <3>2. CallOK(plan.bundle, e)
      BY <1>1, <1>3, <1>4, <2>2, <3>1 DEF CallOK
    <3> QED BY <2>2, <3>2 DEF e
  <2> QED BY <2>1, <2>2
<1> HIDE DEF d
<1>6. calls' = [q \in Processors |-> calls'[q]] /\ \A q \in Processors : calls'[q] = IF q = p THEN d ELSE calls[q]
  BY <1>1 DEF IInv, CallsOK
<1>7. CASE Owns(p)
  <2>1. g \in Stored /\ groups[g].token = p /\ groups[g] \in Metas /\ MetaOK(b, groups[g]) /\ groups' = [groups EXCEPT ![g] = m]
    BY <1>1, <1>3, <1>7 DEF Owns
  <2>2. m \in Metas /\ m.token = Free /\ m.received = groups[g].received /\ m.nextIndex = groups[g].nextIndex
        /\ m.rowIndex = groups[g].rowIndex /\ m.payload = groups[g].payload /\ m.receivers = groups[g].receivers
    BY <2>1 DEF Metas
  <2> HIDE DEF m
  <2>3. MetaOK(b, m)
    BY <2>1, <2>2 DEF MetaOK, Drained, Counts
  <2>4. \A h \in Groups : groups'[h] = IF h = g THEN m ELSE groups[h]
    BY <1>3, <2>1 DEF IInv, GroupsOK
  <2>5. ASSUME NEW q \in Processors PROVE CallOK(plan.bundle, calls'[q]) /\ TokenOK(groups', q, calls'[q])
    <3>1. \A h \in Groups : groups'[h] # None /\ groups'[h].token = q => h # g /\ groups'[h] = groups[h]
      BY <2>2, <2>4, TokensAssumption
    <3>2. TokenOK(groups, q, calls[q]) /\ CallOK(plan.bundle, calls[q])
      BY DEF IInv, CallsOK
    <3>3. CASE q = p
      <4>1. TokenOK(groups', p, d)
        BY <1>3, <3>1, <3>3 DEF TokenOK
      <4> QED BY <1>5, <1>6, <3>3, <4>1
    <3>4. CASE q # p
      <4>1. TokenOK(groups', q, calls[q])
        BY <3>1, <3>2 DEF TokenOK
      <4> QED BY <1>6, <3>2, <3>4, <4>1
    <3> QED BY <3>3, <3>4
  <2> QED BY <1>1, <1>2, <1>6, <2>1, <2>2, <2>3, <2>5, RecordMoves
<1>8. CASE ~Owns(p)
  <2>1. TokenOK(groups, p, d)
    BY <1>3, <1>8 DEF TokenOK, Owns, Stored
  <2> QED BY <1>1, <1>2, <1>5, <1>8, <2>1, CallMoves
<1> QED BY <1>7, <1>8

--------------------------------------------------------------------------------
(* Putting a chunk. *)

(* What a put deletes: never the live group it puts into, and that one if it is stale. *)
LEMMA GoneIs ==
    ASSUME NEW g \in Groups, NEW gone, gone = Evicted(g) \/ gone = Expired \cap {g}
    PROVE  /\ gone \in SUBSET Groups
           /\ g \in gone <=> g \in Expired
<1>1. PICK old \in SUBSET Candidates(g) : Evicted(g) = Expired \cup old
  BY EvictedIs
<1>2. Candidates(g) \subseteq Groups /\ g \notin Candidates(g) /\ Expired \subseteq Groups
  BY DEF Candidates, Stored, Expired
<1> QED BY <1>1, <1>2

LEMMA PutKeeps == ASSUME IInv, NEW p \in Processors, Put(p) PROVE IInv'
<1> DEFINE c == calls[p]
           g == Key(p)
           b == plan.bundle[g]
           i == c.index
           new == i \notin Joined(g).received
           gone == (IF new THEN Evicted(g) ELSE Expired \cap {g})
           m == [Joined(g) EXCEPT !.received = @ \cup {i}, !.expired = FALSE]
           w == SizesOf(Without(gone))
           v == SizesOf(groups')
<1>1. /\ c.pc = "put"
      /\ new => ~TooLarge(g) /\ Fits(gone)
      /\ groups' = [Without(gone) EXCEPT ![g] = m]
      /\ usedBytes' = Freed(gone) + (IF new THEN 1 ELSE 0)
      /\ order' = Touched(g, gone)
      /\ \/ calls' = [calls EXCEPT ![p].pc = "claim"]
         \/ calls' = [calls EXCEPT ![p].pc = "gather"]
         \/ calls' = [calls EXCEPT ![p] = Idle]
      /\ UNCHANGED <<plan, inbox, ignored, delivered>>
  BY DEF Put, At, Goto, Return
<1>2. PlanOK /\ GroupsOK /\ PlanOK' /\ plan'.bundle = plan.bundle /\ WorldOK'
  BY <1>1, SameSteady, WorldSame DEF IInv, WorldOK
<1>3. c \in Calls /\ g = c.group /\ g \in Groups /\ b # None /\ CallOK(plan.bundle, c)
  BY <1>1, OwnedIs
<1>4. i \in 0..(b.total - 1) /\ i \in Nat /\ c.result = "partial"
  BY <1>1, <1>3 DEF CallOK, Calls
<1>5. gone \in SUBSET Groups /\ (g \in gone <=> g \in Expired)
  BY <1>3, GoneIs
<1>6. MetaOK(b, Joined(g)) /\ IsFiniteSet(Joined(g).received) /\ Joined(g) \in Metas
      /\ ByteSize(Joined(g)) = IF g \in Stored \ Expired THEN SizesOf(groups)[g] ELSE 0
  BY <1>2, <1>3, JoinedOK DEF MetaOK
<1>7. m \in Metas /\ m.received = Joined(g).received \cup {i} /\ m.nextIndex = Joined(g).nextIndex
      /\ m.rowIndex = Joined(g).rowIndex /\ m.payload = Joined(g).payload /\ m.receivers = Joined(g).receivers
      /\ m.token = Joined(g).token
  BY <1>4, <1>6 DEF Metas
<1> HIDE DEF m
<1>8. MetaOK(b, m) /\ m # None
  BY <1>4, <1>6, <1>7, NoneAssumption DEF MetaOK, Drained, Counts
<1> HIDE DEF gone, new
<1>9. \A h \in Groups : groups'[h] = IF h = g THEN m ELSE IF h \in gone THEN None ELSE groups[h]
  BY <1>1, <1>3 DEF Without
<1>10. groups' \in [Groups -> Metas \cup {None}]
  BY <1>1, <1>2, <1>7, <1>9 DEF Without, GroupsOK
<1>11. Stored' = (Stored \ gone) \cup {g}
  BY <1>3, <1>8, <1>9 DEF Stored
<1>12. OrderOK(Stored', order')
  BY <1>1, <1>2, <1>11, TouchedOrder DEF GroupsOK
<1>13. usedBytes' = SumOf(v, Groups) /\ usedBytes' \in Nat /\ usedBytes' <= MaxBytes
  <2>1. Freed(gone) = SumOf(w, Groups) /\ Freed(gone) \in Nat /\ Freed(gone) <= usedBytes
    BY <1>2, <1>5, FreedIsSum
  <2>2. Stores(plan.bundle, Without(gone)) /\ Stores(plan.bundle, groups')
    <3>1. Stores(plan.bundle, Without(gone))
      BY <1>2, StoresNow, StoresWithout
    <3>2. \A h \in Groups : groups'[h] # None => plan.bundle[h] # None /\ MetaOK(plan.bundle[h], groups'[h])
      BY <1>2, <1>3, <1>8, <1>9 DEF GroupsOK
    <3> QED BY <1>2, <1>10, <3>1, <3>2 DEF Stores, PlanOK
  <2>3. \A h \in Groups : w[h] \in Nat /\ v[h] \in Nat
    BY <2>2, SizesNat
  <2>4. \A h \in Groups \ {g} : w[h] = v[h]
    BY <1>9 DEF SizesOf, Without
  <2>5. w[g] = ByteSize(Joined(g))
    <3>1. w[g] = IF g \in gone \/ groups[g] = None THEN 0 ELSE Cardinality(groups[g].received)
      BY <1>3 DEF SizesOf, Without
    <3>2. SizesOf(groups)[g] = IF groups[g] = None THEN 0 ELSE Cardinality(groups[g].received)
      BY <1>3 DEF SizesOf
    <3>3. g \in Stored <=> groups[g] # None
      BY <1>3 DEF Stored
    <3>4. g \in Expired => g \in Stored
      BY DEF Expired
    <3> QED BY <1>5, <1>6, <3>1, <3>2, <3>3, <3>4
  <2>6. v[g] = ByteSize(Joined(g)) + (IF new THEN 1 ELSE 0)
    <3>1. v[g] = Cardinality(Joined(g).received \cup {i})
      BY <1>3, <1>7, <1>8, <1>9 DEF SizesOf
    <3>2. Cardinality(Joined(g).received \cup {i}) =
            IF i \in Joined(g).received THEN Cardinality(Joined(g).received)
            ELSE Cardinality(Joined(g).received) + 1
      BY <1>6, FS_AddElement
    <3>3. CASE new
      BY <3>1, <3>2, <3>3 DEF new, ByteSize
    <3>4. CASE ~new
      <4>1. Cardinality(Joined(g).received) \in Nat
        BY <1>6, FS_CardinalityType
      <4>2. v[g] = Cardinality(Joined(g).received)
        BY <3>1, <3>2, <3>4 DEF new
      <4> QED BY <3>4, <4>1, <4>2 DEF ByteSize
    <3> QED BY <3>3, <3>4
  <2> HIDE DEF w, v
  <2>7. SumOf(v, Groups) = SumOf(w, Groups) - w[g] + v[g]
    BY <1>3, <2>3, <2>4, SumOfChanged, BudgetAssumption
  <2>8. w[g] \in Nat /\ v[g] \in Nat
    BY <1>3, <2>3
  <2>9. usedBytes' = SumOf(v, Groups)
    BY <1>1, <2>1, <2>5, <2>6, <2>7, <2>8
  <2>10. usedBytes \in Nat /\ usedBytes <= MaxBytes /\ MaxBytes \in Nat
    BY <1>2, BudgetAssumption DEF GroupsOK
  <2>11. new => Freed(gone) + 1 <= MaxBytes
    BY <1>1 DEF Fits
  <2>12. usedBytes' \in Nat /\ usedBytes' <= MaxBytes
    BY <1>1, <2>1, <2>10, <2>11
  <2> QED BY <2>9, <2>12
<1>14. GroupsOK'
  <2>1. \A h \in Groups : groups'[h] # None => plan'.bundle[h] # None /\ MetaOK(plan'.bundle[h], groups'[h])
    BY <1>2, <1>3, <1>8, <1>9 DEF GroupsOK
  <2> QED BY <1>10, <1>12, <1>13, <2>1 DEF GroupsOK
<1>15. ASSUME NEW q \in Processors
       PROVE  \A h \in Groups : groups'[h] # None /\ groups'[h].token = q =>
                  /\ groups[h] # None /\ groups[h].token = q /\ groups[h].nextIndex = groups'[h].nextIndex
                  /\ groups[h].received \subseteq groups'[h].received
  <2> SUFFICES ASSUME NEW h \in Groups, groups'[h] # None, groups'[h].token = q
               PROVE  /\ groups[h] # None /\ groups[h].token = q /\ groups[h].nextIndex = groups'[h].nextIndex
                      /\ groups[h].received \subseteq groups'[h].received
    OBVIOUS
  <2>1. CASE h # g
    BY <1>9, <2>1
  <2>2. CASE h = g
    <3>1. groups'[h] = m /\ Joined(g).token = q
      BY <1>7, <1>9, <2>2
    <3>2. Fresh.token = Free
      BY DEF Fresh
    <3>3. g \in Stored \ Expired
      BY <3>1, <3>2, TokensAssumption DEF Joined
    <3>4. Joined(g) = groups[g] /\ groups[g] # None
      BY <3>3 DEF Joined, Stored
    <3> QED BY <1>7, <2>2, <3>1, <3>4
  <2> QED BY <2>1, <2>2
<1>16. PICK d : /\ calls' = [calls EXCEPT ![p] = d]
                /\ CallOK(plan.bundle, d)
  <2> DEFINE d1(x) == [c EXCEPT !.pc = x]
  <2>1. ASSUME NEW x \in {"claim", "gather"} PROVE CallOK(plan.bundle, d1(x))
    <3>1. d1(x) \in Calls /\ d1(x).pc = x /\ d1(x).group = g /\ d1(x).result = "partial"
      BY <1>3, <1>4 DEF Calls, Pcs
    <3> HIDE DEF d1
    <3> QED BY <1>3, <3>1 DEF CallOK
  <2>2. CASE calls' = [calls EXCEPT ![p].pc = "claim"]
    <3>1. calls' = [calls EXCEPT ![p] = d1("claim")]
      BY <2>2
    <3> HIDE DEF d1
    <3> QED BY <2>1, <3>1
  <2>3. CASE calls' = [calls EXCEPT ![p].pc = "gather"]
    <3>1. calls' = [calls EXCEPT ![p] = d1("gather")]
      BY <2>3
    <3> HIDE DEF d1
    <3> QED BY <2>1, <3>1
  <2>4. CASE calls' = [calls EXCEPT ![p] = Idle]
    BY <2>4, IdleOK
  <2> QED BY <1>1, <2>2, <2>3, <2>4
<1>17. calls' = [q \in Processors |-> calls'[q]] /\ \A q \in Processors : calls'[q] = IF q = p THEN d ELSE calls[q]
  BY <1>16 DEF IInv, CallsOK
<1>18. ASSUME NEW q \in Processors PROVE CallOK(plan.bundle, calls'[q]) /\ TokenOK(groups', q, calls'[q])
  <2>1. TokenOK(groups, q, calls[q]) /\ CallOK(plan.bundle, calls[q])
    BY DEF IInv, CallsOK
  <2>2. CASE q = p
    <3>1. \A h \in Groups : ~(groups'[h] # None /\ groups'[h].token = p)
      BY <1>1, <1>15, <2>1, <2>2 DEF TokenOK, Draining
    <3>2. TokenOK(groups', p, d)
      BY <3>1 DEF TokenOK
    <3> QED BY <1>16, <1>17, <2>2, <3>2
  <2>3. CASE q # p
    <3>1. TokenOK(groups', q, calls[q])
      BY <1>15, <2>1 DEF TokenOK
    <3> QED BY <1>17, <2>1, <2>3, <3>1
  <2> QED BY <2>2, <2>3
<1>19. CallsOK'
  BY <1>2, <1>17, <1>18 DEF CallsOK
<1> QED BY <1>2, <1>14, <1>19 DEF IInv

(* A call moves on over a store that some groups leave. *)
LEMMA DropAndMove ==
    ASSUME IInv, NEW p \in Processors, NEW gs \in SUBSET Groups, Drop(gs), NEW d,
           CallOK(plan.bundle, d), TokenOK(groups, p, d), calls' = [calls EXCEPT ![p] = d],
           WorldOK', plan'.bundle = plan.bundle
    PROVE  IInv'
<1>1. calls' = [q \in Processors |-> calls'[q]] /\ \A q \in Processors : calls'[q] = IF q = p THEN d ELSE calls[q]
  BY DEF IInv, CallsOK
<1>2. ASSUME NEW q \in Processors PROVE CallOK(plan.bundle, calls'[q]) /\ TokenOK(groups, q, calls'[q])
  BY <1>1 DEF IInv, CallsOK
<1> QED BY <1>1, <1>2, DropMoves

LEMMA PutTooLargeKeeps == ASSUME IInv, NEW p \in Processors, PutTooLarge(p) PROVE IInv'
<1> DEFINE d == [calls[p] EXCEPT !.pc = "failed", !.ignore = TRUE]
<1>1. calls[p].pc = "put" /\ calls' = [calls EXCEPT ![p] = d] /\ UNCHANGED <<plan, inbox, ignored, delivered>>
  BY DEF PutTooLarge, At, Throw
<1>2. PlanOK' /\ plan'.bundle = plan.bundle /\ WorldOK'
  BY <1>1, SameSteady, WorldSame DEF IInv, WorldOK
<1>3. calls[p] \in Calls /\ Key(p) \in Groups
  BY <1>1, OwnedIs
<1>4. PICK gs \in SUBSET Groups : Drop(gs)
  <2>1. Evicted(Key(p)) \cup {Key(p)} \in SUBSET Groups /\ {Key(p)} \in SUBSET Groups
    BY <1>3, GoneIs
  <2> QED BY <2>1 DEF PutTooLarge
<1>5. d \in Calls /\ d.pc \in Loose /\ d.group = calls[p].group /\ d.result = calls[p].result /\ d.meta = calls[p].meta
  BY <1>3 DEF Calls, Pcs, Loose
<1> HIDE DEF d
<1>6. CallOK(plan.bundle, d) /\ TokenOK(groups, p, d)
  BY <1>1, <1>5, GoesLoose DEF Draining
<1> QED BY <1>1, <1>2, <1>4, <1>6, DropAndMove

LEMMA PutOverQuotaKeeps == ASSUME IInv, NEW p \in Processors, PutOverQuota(p) PROVE IInv'
<1> DEFINE d == [calls[p] EXCEPT !.pc = "failed", !.ignore = FALSE]
<1>1. calls[p].pc = "put" /\ Strikes("quota") /\ UNCHANGED <<inbox, ignored, delivered>>
  BY DEF PutOverQuota, At
<1>2. PlanOK' /\ plan'.bundle = plan.bundle /\ WorldOK'
  BY <1>1, StrikesSteady, WorldSame DEF IInv, WorldOK
<1>3. CASE \E h \in Stored \ {Key(p)} : Drop({h}) /\ UNCHANGED calls
  <2>1. PICK h \in Stored : Drop({h}) /\ UNCHANGED calls
    BY <1>3
  <2>2. {h} \in SUBSET Groups
    BY DEF Stored
  <2>3. CallOK(plan.bundle, calls[p]) /\ TokenOK(groups, p, calls[p]) /\ calls' = [calls EXCEPT ![p] = calls[p]]
    BY <2>1 DEF IInv, CallsOK
  <2> QED BY <1>2, <2>1, <2>2, <2>3, DropAndMove
<1>4. CASE Throw(p, FALSE) /\ UNCHANGED <<groups, usedBytes, order>>
  <2>1. d \in Calls /\ d.pc \in Loose /\ d.group = calls[p].group /\ d.result = calls[p].result /\ d.meta = calls[p].meta
    <3>1. calls[p] \in Calls
      BY Types
    <3> QED BY <3>1 DEF Calls, Pcs, Loose
  <2>2. calls' = [calls EXCEPT ![p] = d]
    BY <1>4 DEF Throw
  <2> HIDE DEF d
  <2>3. CallOK(plan.bundle, d) /\ TokenOK(groups, p, d)
    BY <1>1, <2>1, GoesLoose DEF Draining
  <2> QED BY <1>2, <1>4, <2>2, <2>3, CallMoves
<1> QED BY <1>3, <1>4 DEF PutOverQuota

(* The ends of a handler: the group goes, and may be ignored from now on. *)
LEMMA EndKeeps == ASSUME IInv, NEW p \in Processors, Finish(p) \/ Fail(p) PROVE IInv'
<1>1. /\ calls[p].pc \in {"finish", "failed"} /\ Drop({Key(p)}) /\ calls' = [calls EXCEPT ![p] = Idle]
      /\ ignored' = ignored \/ ignored' = [ignored EXCEPT ![p] = @ \cup {Key(p)}]
      /\ UNCHANGED <<plan, inbox, delivered>>
  BY DEF Finish, Fail, At, Return
<1>2. PlanOK' /\ plan'.bundle = plan.bundle
  BY <1>1, SameSteady DEF IInv, WorldOK
<1>3. Key(p) \in Groups /\ TokenOK(groups, p, calls[p])
  BY <1>1, OwnedIs
<1>4. ignored' \in [Processors -> SUBSET Groups]
  BY <1>1, <1>3 DEF IInv, WorldOK
<1>5. WorldOK'
  BY <1>1, <1>2, <1>4, OutersStay DEF IInv, WorldOK
<1>6. TokenOK(groups, p, Idle)
  BY <1>1, <1>3, Untokened DEF Draining
<1> QED BY <1>1, <1>2, <1>3, <1>5, <1>6, IdleOK, DropAndMove

--------------------------------------------------------------------------------
(* Time, another page, and a crash. *)

LEMMA TimeKeeps == ASSUME IInv, NEW g \in Groups, Expire(g) \/ Lapse(g) PROVE IInv'
<1>1. /\ g \in Stored
      /\ \/ groups' = [groups EXCEPT ![g] = [groups[g] EXCEPT !.expired = TRUE]]
         \/ groups' = [groups EXCEPT ![g] = [groups[g] EXCEPT !.leased = FALSE]]
      /\ UNCHANGED <<order, usedBytes, inbox, ignored, calls, delivered>>
  BY DEF Expire, Lapse
<1>2. PlanOK' /\ plan'.bundle = plan.bundle
  BY StrikesSteady, SameSteady DEF Expire, Lapse, IInv, WorldOK
<1>3. WorldOK'
  BY <1>1, <1>2, WorldSame
<1>4. groups[g] \in Metas /\ MetaOK(plan.bundle[g], groups[g])
  BY <1>1 DEF IInv, GroupsOK, Stored, MetaOK
<1>5. PICK m : /\ m \in Metas /\ m.received = groups[g].received /\ m.nextIndex = groups[g].nextIndex
               /\ m.rowIndex = groups[g].rowIndex /\ m.payload = groups[g].payload
               /\ m.receivers = groups[g].receivers /\ m.token = groups[g].token
               /\ groups' = [groups EXCEPT ![g] = m]
  <2> DEFINE m1 == [groups[g] EXCEPT !.expired = TRUE]
             m2 == [groups[g] EXCEPT !.leased = FALSE]
  <2>1. \A m \in {m1, m2} :
           /\ m \in Metas /\ m.received = groups[g].received /\ m.nextIndex = groups[g].nextIndex
           /\ m.rowIndex = groups[g].rowIndex /\ m.payload = groups[g].payload
           /\ m.receivers = groups[g].receivers /\ m.token = groups[g].token
    BY <1>4 DEF Metas
  <2>2. groups' = [groups EXCEPT ![g] = m1] \/ groups' = [groups EXCEPT ![g] = m2]
    BY <1>1
  <2> HIDE DEF m1, m2
  <2> QED BY <2>1, <2>2
<1>6. MetaOK(plan.bundle[g], m)
  BY <1>4, <1>5 DEF MetaOK, Drained, Counts
<1>7. \A h \in Groups : groups'[h] = IF h = g THEN m ELSE groups[h]
  BY <1>5 DEF IInv, GroupsOK
<1>8. ASSUME NEW q \in Processors PROVE CallOK(plan.bundle, calls'[q]) /\ TokenOK(groups', q, calls'[q])
  <2>1. CallOK(plan.bundle, calls[q]) /\ TokenOK(groups, q, calls[q])
    BY DEF IInv, CallsOK
  <2>2. \A h \in Groups : groups'[h] # None /\ groups'[h].token = q =>
            groups[h] # None /\ groups[h].token = q /\ groups[h].nextIndex = groups'[h].nextIndex
            /\ groups[h].received = groups'[h].received
    BY <1>1, <1>5, <1>7 DEF Stored
  <2>3. TokenOK(groups', q, calls[q])
    BY <2>1, <2>2 DEF TokenOK
  <2> QED BY <1>1, <2>1, <2>3
<1>9. calls' = [q \in Processors |-> calls'[q]]
  BY <1>1 DEF IInv, CallsOK
<1> QED BY <1>1, <1>2, <1>3, <1>5, <1>6, <1>8, <1>9, RecordMoves

LEMMA CleanupKeeps == ASSUME IInv, CleanupStale PROVE IInv'
<1>1. Drop(Expired) /\ UNCHANGED <<plan, inbox, ignored, calls, delivered>> /\ Expired \in SUBSET Groups
  BY DEF CleanupStale, Expired, Stored
<1>2. PlanOK' /\ plan'.bundle = plan.bundle /\ WorldOK'
  BY <1>1, SameSteady, WorldSame DEF IInv, WorldOK
<1>3. calls' = [q \in Processors |-> calls'[q]]
      /\ \A q \in Processors : CallOK(plan.bundle, calls'[q]) /\ TokenOK(groups, q, calls'[q])
  BY <1>1 DEF IInv, CallsOK
<1> QED BY <1>1, <1>2, <1>3, DropMoves

LEMMA DiedIs ==
    ASSUME NEW m \in Metas
    PROVE  /\ Died(m) \in Metas /\ Died(m).token \notin Processors
           /\ Died(m).received = m.received /\ Died(m).nextIndex = m.nextIndex /\ Died(m).rowIndex = m.rowIndex
           /\ Died(m).payload = m.payload /\ Died(m).receivers = m.receivers
<1>1. CASE m.token \in Processors
  BY <1>1, TokensAssumption DEF Died, Metas
<1>2. CASE m.token \notin Processors
  BY <1>2 DEF Died
<1> QED BY <1>1, <1>2

LEMMA CrashKeeps == ASSUME IInv, Crash PROVE IInv'
<1> DEFINE live == Stored \ Expired
<1>1. /\ Strikes("crash")
      /\ groups' = [g \in Groups |-> IF g \in live THEN Died(groups[g]) ELSE None]
      /\ usedBytes' = Freed(Expired)
      /\ order' = Remaining(Expired)
      /\ inbox' = [p \in Processors |-> IF p \in plan.readers THEN Outers ELSE {}]
      /\ ignored' = [p \in Processors |-> {}]
      /\ calls' = [p \in Processors |-> Idle]
      /\ UNCHANGED delivered
  BY DEF Crash
<1>2. PlanOK /\ GroupsOK /\ PlanOK' /\ plan'.bundle = plan.bundle /\ Outers' = Outers
  BY <1>1, StrikesSteady, OutersStay DEF IInv, WorldOK
<1>3. WorldOK'
  BY <1>1, <1>2 DEF IInv, WorldOK
<1>4. \A g \in live : /\ g \in Groups /\ groups[g] # None /\ groups[g] \in Metas /\ plan.bundle[g] # None
                      /\ MetaOK(plan.bundle[g], groups[g])
  BY <1>2 DEF Stored, GroupsOK, MetaOK
<1>5. \A g \in live : /\ groups'[g] \in Metas /\ groups'[g] # None /\ groups'[g].token \notin Processors
                      /\ groups'[g].received = groups[g].received /\ MetaOK(plan.bundle[g], groups'[g])
  <2> SUFFICES ASSUME NEW g \in live
               PROVE  /\ groups'[g] \in Metas /\ groups'[g] # None /\ groups'[g].token \notin Processors
                      /\ groups'[g].received = groups[g].received /\ MetaOK(plan.bundle[g], groups'[g])
    OBVIOUS
  <2>1. groups'[g] = Died(groups[g]) /\ groups[g] \in Metas /\ MetaOK(plan.bundle[g], groups[g])
    BY <1>1, <1>4
  <2>2. groups'[g] \in Metas /\ groups'[g].token \notin Processors /\ groups'[g].received = groups[g].received
        /\ groups'[g].nextIndex = groups[g].nextIndex /\ groups'[g].rowIndex = groups[g].rowIndex
        /\ groups'[g].payload = groups[g].payload /\ groups'[g].receivers = groups[g].receivers
    BY <2>1, DiedIs
  <2>3. MetaOK(plan.bundle[g], groups'[g])
    BY <2>1, <2>2 DEF MetaOK, Drained, Counts
  <2> QED BY <2>2, <2>3, NoneAssumption
<1>6. \A g \in Groups : g \notin live => groups'[g] = None
  BY <1>1
<1>7. groups' \in [Groups -> Metas \cup {None}]
  <2>1. \A g \in Groups : groups'[g] \in Metas \cup {None}
    BY <1>5, <1>6
  <2> QED BY <1>1, <2>1
<1>8. Stored' = Stored \ Expired
  <2>1. live \subseteq Groups
    BY DEF Stored
  <2> HIDE DEF live
  <2>2. Stored' = live
    BY <1>5, <1>6, <2>1 DEF Stored
  <2> QED BY <2>2 DEF live
<1>9. OrderOK(Stored', order')
  <2>1. OrderOK(Stored \ Expired, {o \in order : o[1] \notin Expired /\ o[2] \notin Expired})
    <3>1. OrderOK(Stored, order)
      BY <1>2 DEF GroupsOK
    <3> QED BY <3>1, OrderDrops
  <2> QED BY <1>1, <1>8, <2>1 DEF Remaining
<1>10. usedBytes' = SumOf(SizesOf(groups'), Groups) /\ usedBytes' \in Nat /\ usedBytes' <= MaxBytes
  <2>1. Expired \in SUBSET Groups
    BY DEF Expired, Stored
  <2>2. Freed(Expired) = SumOf(SizesOf(Without(Expired)), Groups) /\ Freed(Expired) \in Nat /\ Freed(Expired) <= usedBytes
    BY <1>2, <2>1, FreedIsSum
  <2>3. SizesOf(Without(Expired)) = SizesOf(groups')
    <3>1. ASSUME NEW g \in Groups
          PROVE  (IF Without(Expired)[g] = None THEN 0 ELSE Cardinality(Without(Expired)[g].received))
                 = (IF groups'[g] = None THEN 0 ELSE Cardinality(groups'[g].received))
      <4>1. CASE g \in live
        BY <1>4, <1>5, <4>1 DEF Without
      <4>2. CASE g \notin live
        BY <1>6, <4>2 DEF Without, Stored
      <4> QED BY <4>1, <4>2
    <3> QED BY <3>1 DEF SizesOf
  <2> QED BY <1>1, <1>2, <2>2, <2>3, BudgetAssumption DEF GroupsOK
<1>11. GroupsOK'
  <2>1. \A h \in Groups : groups'[h] # None => plan'.bundle[h] # None /\ MetaOK(plan'.bundle[h], groups'[h])
    BY <1>2, <1>4, <1>5, <1>6
  <2> QED BY <1>7, <1>9, <1>10, <2>1 DEF GroupsOK
<1>12. CallsOK'
  <2>1. \A p \in Processors : TokenOK(groups', p, Idle)
    BY <1>5, <1>6 DEF TokenOK
  <2>2. \A p \in Processors : CallOK(plan.bundle, Idle)
    BY IdleOK
  <2> QED BY <1>1, <1>2, <2>1, <2>2 DEF CallsOK
<1> QED BY <1>3, <1>11, <1>12 DEF IInv

--------------------------------------------------------------------------------
(* The invariant, and what it says of the store. *)

LEMMA InitIInv == Init => IInv
<1> SUFFICES ASSUME Init PROVE IInv
  OBVIOUS
<1>1. /\ plan \in Plans /\ groups = [g \in Groups |-> None] /\ order = {} /\ usedBytes = 0
      /\ inbox = [p \in Processors |-> IF p \in plan.readers THEN Outers ELSE {}]
      /\ ignored = [p \in Processors |-> {}] /\ calls = [p \in Processors |-> Idle] /\ delivered = {}
  BY DEF Init
<1>2. PlanOK
  BY <1>1, PlansAssumption DEF PlanOK
<1>3. WorldOK
  BY <1>1, <1>2 DEF WorldOK
<1>4. GroupsOK
  <2>1. \A g \in Groups : groups[g] = None
    BY <1>1
  <2>2. Stored = {}
    BY <2>1 DEF Stored
  <2>3. OrderOK(Stored, order)
    BY <1>1, <2>2 DEF OrderOK
  <2>4. SumOf(SizesOf(groups), Groups) = 0
    <3>1. \A g \in Groups : SizesOf(groups)[g] = 0
      BY <2>1 DEF SizesOf
    <3> QED BY <3>1, SumOfZero, BudgetAssumption
  <2> QED BY <1>1, <2>1, <2>3, <2>4, BudgetAssumption DEF GroupsOK
<1>5. CallsOK
  <2>1. \A p \in Processors : CallOK(plan.bundle, Idle)
    BY IdleOK
  <2>2. \A p \in Processors : TokenOK(groups, p, Idle)
    BY <1>1 DEF TokenOK
  <2> QED BY <1>1, <2>1, <2>2 DEF CallsOK
<1> QED BY <1>3, <1>4, <1>5 DEF IInv

LEMMA SameKeeps == ASSUME IInv, UNCHANGED vars PROVE IInv'
<1>1. UNCHANGED <<plan, groups, order, usedBytes, inbox, ignored, calls, delivered>>
  BY DEF vars
<1>2. WorldOK'
  BY <1>1, SameSteady, WorldSame DEF IInv, WorldOK
<1>3. GroupsOK'
  BY <1>1 DEF IInv, GroupsOK, Stored, SizesOf
<1>4. CallsOK'
  BY <1>1 DEF IInv, CallsOK
<1> QED BY <1>2, <1>3, <1>4 DEF IInv

LEMMA NextIInv == IInv /\ [Next]_vars => IInv'
<1> SUFFICES ASSUME IInv, [Next]_vars PROVE IInv'
  OBVIOUS
<1>1. ASSUME NEW p \in Processors, Step(p) PROVE IInv'
  <2>1. Receive(p) \/ ReceiveUnproved(p) \/ Gather(p) \/ ClaimGone(p) \/ Seed(p) => IInv'
    BY ReceiveKeeps, ReceiveUnprovedKeeps, GatherKeeps, ClaimGoneKeeps, SeedKeeps
  <2>2. Put(p) \/ PutTooLarge(p) \/ PutOverQuota(p) => IInv'
    BY PutKeeps, PutTooLargeKeeps, PutOverQuotaKeeps
  <2>3. Claim(p) \/ Read(p) \/ HandOver(p) \/ HandOverWrongRow(p) \/ Decrypt(p) => IInv'
    BY ClaimKeeps, ReadKeeps, HandOverKeeps, HandOverWrongRowKeeps, DecryptKeeps
  <2>4. CommitChunk(p) \/ CommitStop(p) \/ CommitEnd(p) \/ Release(p) => IInv'
    BY CommitChunkKeeps, CommitStopKeeps, CommitEndKeeps, ReleaseKeeps
  <2>5. Deliver(p) \/ DeliveryRejected(p) \/ Finish(p) \/ Fail(p) => IInv'
    BY DeliverKeeps, EndKeeps
  <2> QED BY <1>1, <2>1, <2>2, <2>3, <2>4, <2>5 DEF Step
<1>2. ASSUME NEW g \in Groups, Expire(g) \/ Lapse(g) PROVE IInv'
  BY <1>2, TimeKeeps
<1>3. CleanupStale \/ Crash => IInv'
  BY CleanupKeeps, CrashKeeps
<1>4. Rest \/ UNCHANGED vars => IInv'
  BY SameKeeps DEF Rest
<1> QED BY <1>1, <1>2, <1>3, <1>4 DEF Next

LEMMA Invariance == Spec => []IInv
<1>1. Init => IInv
  BY InitIInv
<1>2. IInv /\ [Next]_vars => IInv'
  BY NextIInv
<1> QED BY <1>1, <1>2, PTL DEF Spec

LEMMA IInvTypes == IInv => TypeOK
<1> SUFFICES ASSUME IInv PROVE TypeOK
  OBVIOUS
<1>1. plan.left \in Nat /\ usedBytes \in Nat
  BY DEF IInv, WorldOK, PlanOK, GroupsOK
<1>2. Stored \subseteq Offered
  BY DEF IInv, GroupsOK, Stored, Offered, Bundle
<1>3. \A g \in Stored : groups[g] \in Metas /\ groups[g].received \subseteq Chunks(g)
  BY DEF IInv, GroupsOK, Stored, MetaOK, Chunks, Bundle
<1>4. order \subseteq Stored \X Stored /\ \A g, h \in Stored : <<g, h>> \in order <=> g # h /\ <<h, g>> \notin order
  BY DEF IInv, GroupsOK, OrderOK
<1>5. inbox \in [Processors -> SUBSET Outers] /\ ignored \in [Processors -> SUBSET Groups]
      /\ delivered \subseteq Processors \X Groups
  BY DEF IInv, WorldOK
<1>6. ASSUME NEW p \in Processors
      PROVE  /\ ~At(p, "idle") => Key(p) \in Offered
             /\ calls[p].meta \in Metas
             /\ calls[p].result \in {"partial", "stopped", "complete", "thrown"}
             /\ calls[p].found \in {"nothing", "event", "deferred"}
  <2>1. CallOK(plan.bundle, calls[p]) /\ calls[p] \in Calls
    BY DEF IInv, CallsOK, CallOK
  <2>2. ~At(p, "idle") => Key(p) \in Offered
    BY <2>1 DEF CallOK, At, Key, Offered, Bundle
  <2> QED BY <2>1, <2>2 DEF Calls
<1> QED BY <1>1, <1>2, <1>3, <1>4, <1>5, <1>6 DEF TypeOK

(* The usage record is the size of the groups that are stored. *)
LEMMA IInvUsage == IInv => UsageExact
<1> SUFFICES ASSUME IInv PROVE UsageExact
  OBVIOUS
<1> DEFINE w == SizesOf(groups)
<1>1. Stores(plan.bundle, groups) /\ usedBytes = SumOf(w, Groups) /\ usedBytes <= MaxBytes
  BY StoresNow DEF IInv, WorldOK, GroupsOK
<1>2. \A g \in Groups : w[g] \in Nat /\ (groups[g] # None => ByteSize(groups[g]) = w[g])
  BY <1>1, SizesNat
<1>3. Stored \in SUBSET Groups /\ \A g \in Stored : groups[g] # None /\ ByteSize(groups[g]) \in Nat
  BY <1>2 DEF Stored
<1>4. Held(Stored) = SumOf(w, Stored)
  BY <1>3, HeldIsSum DEF Held
<1>5. \A g \in Groups \ Stored : w[g] = 0
  BY DEF SizesOf, Stored
<1> HIDE DEF w
<1>6. IsFiniteSet(Groups) /\ IsFiniteSet(Groups \ Stored) /\ IsFiniteSet(Stored)
  BY <1>3, FS_Subset, BudgetAssumption
<1>7. SumOf(w, Groups) = SumOf(w, Stored) + SumOf(w, Groups \ Stored)
  BY <1>2, <1>3, <1>6, SumOfSplit
<1>8. SumOf(w, Groups \ Stored) = 0
  BY <1>5, <1>6, SumOfZero
<1>9. SumOf(w, Stored) \in Nat
  BY <1>2, <1>3, <1>6, SumOfNat
<1> QED BY <1>1, <1>4, <1>7, <1>8, <1>9 DEF UsageExact

LEMMA IInvDrained == IInv => DrainedPrefix
<1> SUFFICES ASSUME IInv, NEW g \in Stored
             PROVE  LET m == groups[g]
                    IN  /\ 0..(m.nextIndex - 1) \subseteq m.received
                        /\ WholeScan(g) =>
                              /\ m.rowIndex = FirstRow(g, m.nextIndex)
                              /\ m.payload = (m.rowIndex > 0)
                              /\ m.receivers = 1..(m.rowIndex - 1)
  BY DEF DrainedPrefix
<1> DEFINE m == groups[g]
<1>1. g \in Groups /\ plan.bundle[g] # None /\ MetaOK(plan.bundle[g], m)
  BY DEF IInv, GroupsOK, Stored
<1>2. m.nextIndex \in Nat
  BY <1>1 DEF MetaOK, Metas
<1>3. 0..(m.nextIndex - 1) \subseteq m.received
  BY <1>1 DEF MetaOK
<1>4. ASSUME WholeScan(g)
      PROVE  m.rowIndex = FirstRow(g, m.nextIndex) /\ m.payload = (m.rowIndex > 0) /\ m.receivers = 1..(m.rowIndex - 1)
  <2>1. Passed(plan.bundle[g], m.rowIndex, m.nextIndex) /\ Counts(m, m.rowIndex)
    BY <1>1, <1>4 DEF MetaOK, Drained, WholeScan, Whole, Bundle
  <2>2. m.rowIndex = FirstRow(g, m.nextIndex)
    BY <1>1, <1>2, <2>1, FirstRowPassed DEF IInv, WorldOK
  <2> QED BY <2>1, <2>2 DEF Counts
<1> QED BY <1>3, <1>4

(* For any processors, groups, bundles, budget and faults, the store of        *)
(* received chunks (received-chunks.js) keeps its type and its total order of   *)
(* age; its usage record is the size of what it holds and within the budget;    *)
(* evictions make room for every chunk whose group fits by itself; and a        *)
(* group's record of progress is that of exactly the chunks drained.            *)
THEOREM StoreStaysExact == Spec => []StoreExact
<1>1. IInv => RoomIsMade
  BY RoomMade DEF RoomIsMade, IInv, WorldOK
<1>2. IInv => StoreExact
  BY <1>1, IInvTypes, IInvUsage, IInvDrained DEF StoreExact
<1> QED BY <1>2, Invariance, PTL

(* For any of them, a drain that completes has every recipient of the bundle,   *)
(* though several processors may each have read a part (private-channel's       *)
(* "recovery seeders and own-sent messages need the full recipient list").     *)
THEOREM WholeListIsReported == Spec => []WholeListAtEnd
<1>1. IInv => WholeListAtEnd
  <2> SUFFICES ASSUME IInv, NEW p \in Processors, calls[p].result = "complete", WholeScan(Key(p))
               PROVE  calls[p].meta.receivers = 1..(Len(Bundle(Key(p)).rows) - 1)
    BY DEF WholeListAtEnd
  <2>1. CallOK(plan.bundle, calls[p])
    BY DEF IInv, CallsOK
  <2>2. Whole(plan.bundle[calls[p].group])
    BY DEF WholeScan, Key, Bundle, Whole
  <2> QED BY <2>1, <2>2 DEF CallOK, Key, Bundle
<1> QED BY <1>1, Invariance, PTL

--------------------------------------------------------------------------------
(* No drain undoes another. *)

(* A record whose nextIndex does not fall, and the others as they were. *)
LEMMA Forward ==
    ASSUME IInv, NEW G, NEW m, m.nextIndex \in Nat, groups' = [groups EXCEPT ![G] = m],
           G \in Stored => m.nextIndex >= groups[G].nextIndex
    PROVE  DrainsForwardStep
<1> SUFFICES ASSUME NEW g \in Stored \ Expired PROVE groups'[g].nextIndex >= groups[g].nextIndex
  BY DEF DrainsForwardStep
<1>1. g \in Groups /\ groups[g] \in Metas
  BY DEF IInv, GroupsOK, Stored, MetaOK
<1>2. groups'[g] = IF g = G THEN m ELSE groups[g]
  BY <1>1 DEF IInv, GroupsOK
<1> QED BY <1>1, <1>2 DEF Metas

LEMMA ForwardCommit ==
    ASSUME IInv, NEW p \in Processors, calls[p].pc \in {"read", "lines", "stop"}, NEW meta \in Metas, NEW then, NEW otherwise,
           meta.nextIndex >= calls[p].meta.nextIndex, Commit(p, meta, then, otherwise)
    PROVE  DrainsForwardStep
<1>1. /\ calls[p].meta \in Metas /\ Key(p) \in Groups
      /\ Key(p) \in Stored => groups[Key(p)] \in Metas
      /\ TokenOK(groups, p, calls[p])
  BY OwnedIs
<1>2. CASE Owns(p)
  <2>1. Key(p) \in Stored /\ groups[Key(p)] # None /\ groups[Key(p)].token = p /\ groups[Key(p)] \in Metas
    BY <1>1, <1>2 DEF Owns, Stored
  <2>2. calls[p].meta.nextIndex = groups[Key(p)].nextIndex
    BY <1>1, <2>1 DEF TokenOK
  <2> DEFINE m == Committed(p, meta)
  <2>3. m.nextIndex = meta.nextIndex /\ meta.nextIndex \in Nat
    BY <2>1 DEF Committed, Metas
  <2>4. groups' = [groups EXCEPT ![Key(p)] = m]
    BY <1>2 DEF Commit
  <2> HIDE DEF m
  <2> QED BY <2>2, <2>3, <2>4, Forward
<1>3. CASE ~Owns(p)
  <2>1. UNCHANGED groups
    BY <1>3 DEF Commit
  <2>2. \A g \in Stored : groups[g].nextIndex \in Nat
    BY DEF IInv, GroupsOK, Stored, MetaOK, Metas
  <2> QED BY <2>1, <2>2 DEF DrainsForwardStep
<1> QED BY <1>2, <1>3

LEMMA ForwardStep == IInv /\ Next => DrainsForwardStep
<1> SUFFICES ASSUME IInv, Next PROVE DrainsForwardStep
  OBVIOUS
<1>1. \A g \in Stored : g \in Groups /\ groups[g] \in Metas /\ groups[g].nextIndex \in Nat
  BY DEF IInv, GroupsOK, Stored, MetaOK, Metas
<1>2. ASSUME UNCHANGED groups PROVE DrainsForwardStep
  BY <1>1, <1>2 DEF DrainsForwardStep
<1>3. ASSUME NEW gs, Drop(gs) PROVE DrainsForwardStep
  BY <1>1, <1>3 DEF DrainsForwardStep, Drop, Without
<1>4. ASSUME NEW p \in Processors, Put(p) PROVE DrainsForwardStep
  <2> DEFINE g == Key(p)
             m == [Joined(g) EXCEPT !.received = @ \cup {calls[p].index}, !.expired = FALSE]
  <2>1. g \in Groups /\ plan.bundle[g] # None
    BY <1>4, OwnedIs DEF Put, At
  <2>2. Joined(g) \in Metas
    BY <2>1, JoinedOK DEF IInv, WorldOK, MetaOK
  <2>3. m.nextIndex = Joined(g).nextIndex
    BY <2>2 DEF Metas
  <2>4. \E gone : groups' = [Without(gone) EXCEPT ![g] = m]
    BY <1>4 DEF Put
  <2> HIDE DEF m
  <2> SUFFICES ASSUME NEW h \in Stored \ Expired, groups'[h] # None
               PROVE  groups'[h].nextIndex >= groups[h].nextIndex
    BY DEF DrainsForwardStep
  <2>5. CASE h = g
    <3>1. groups'[h] = m
      BY <1>1, <2>4, <2>5 DEF Without
    <3>2. Joined(g) = groups[h]
      BY <2>5 DEF Joined
    <3> QED BY <1>1, <2>3, <3>1, <3>2
  <2>6. CASE h # g
    <3>1. groups'[h] = groups[h]
      BY <1>1, <2>4, <2>6 DEF Without
    <3> QED BY <1>1, <3>1
  <2> QED BY <2>5, <2>6
<1>5. ASSUME NEW p \in Processors, Claim(p) PROVE DrainsForwardStep
  <2> DEFINE m == [groups[Key(p)] EXCEPT !.token = p, !.leased = TRUE, !.expired = FALSE]
  <2>1. m.nextIndex = groups[Key(p)].nextIndex /\ m.nextIndex \in Nat /\ groups' = [groups EXCEPT ![Key(p)] = m]
    BY <1>1, <1>5 DEF Claim, Metas
  <2>2. m.nextIndex >= groups[Key(p)].nextIndex
    BY <2>1
  <2> HIDE DEF m
  <2> QED BY <2>1, <2>2, Forward
<1>6. ASSUME NEW p \in Processors, Release(p) PROVE DrainsForwardStep
  <2> DEFINE m == [groups[Key(p)] EXCEPT !.token = Free, !.leased = FALSE]
  <2>1. CASE Owns(p)
    <3>1. m.nextIndex = groups[Key(p)].nextIndex /\ m.nextIndex \in Nat /\ groups' = [groups EXCEPT ![Key(p)] = m]
      BY <1>1, <1>6, <2>1 DEF Release, Owns, Metas
    <3>2. m.nextIndex >= groups[Key(p)].nextIndex
      BY <3>1
    <3> HIDE DEF m
    <3> QED BY <3>1, <3>2, Forward
  <2>2. CASE ~Owns(p)
    BY <1>2, <1>6, <2>2 DEF Release
  <2> QED BY <2>1, <2>2
<1>7. ASSUME NEW g \in Groups, Expire(g) \/ Lapse(g) PROVE DrainsForwardStep
  <2> DEFINE m1 == [groups[g] EXCEPT !.expired = TRUE]
             m2 == [groups[g] EXCEPT !.leased = FALSE]
  <2>1. groups[g] \in Metas /\ (groups' = [groups EXCEPT ![g] = m1] \/ groups' = [groups EXCEPT ![g] = m2])
    BY <1>1, <1>7 DEF Expire, Lapse
  <2>2. m1.nextIndex = groups[g].nextIndex /\ m2.nextIndex = groups[g].nextIndex /\ groups[g].nextIndex \in Nat
    BY <2>1 DEF Metas
  <2> HIDE DEF m1, m2
  <2> QED BY <2>1, <2>2, Forward
<1>8. ASSUME NEW p \in Processors, CommitChunk(p) \/ CommitStop(p) \/ CommitEnd(p) PROVE DrainsForwardStep
  <2>1. calls[p].pc \in {"read", "lines", "stop"}
    BY <1>8 DEF CommitChunk, CommitStop, CommitEnd, At
  <2>2. calls[p].meta \in Metas /\ calls[p].meta.nextIndex \in Nat
    BY <2>1, OwnedIs DEF Metas
  <2>3. CASE CommitChunk(p)
    <3> DEFINE meta == [calls[p].meta EXCEPT !.nextIndex = @ + 1]
    <3>1. meta \in Metas /\ meta.nextIndex >= calls[p].meta.nextIndex
      BY <2>2 DEF Metas
    <3>2. \E then, otherwise : Commit(p, meta, then, otherwise)
      BY <2>3 DEF CommitChunk
    <3> HIDE DEF meta
    <3> QED BY <2>1, <3>1, <3>2, ForwardCommit
  <2>4. CASE CommitStop(p) \/ CommitEnd(p)
    <3>1. \E then, otherwise : Commit(p, calls[p].meta, then, otherwise)
      BY <2>4 DEF CommitStop, CommitEnd
    <3> QED BY <2>1, <2>2, <3>1, ForwardCommit
  <2> QED BY <1>8, <2>3, <2>4
<1>9. ASSUME Crash PROVE DrainsForwardStep
  <2> SUFFICES ASSUME NEW h \in Stored \ Expired PROVE groups'[h].nextIndex >= groups[h].nextIndex
    BY DEF DrainsForwardStep
  <2>1. groups'[h] = Died(groups[h])
    BY <1>1, <1>9 DEF Crash
  <2> QED BY <1>1, <2>1, DiedIs
<1>10. ASSUME NEW p \in Processors, Step(p) PROVE DrainsForwardStep
  <2>1. Receive(p) \/ ReceiveUnproved(p) \/ Gather(p) \/ ClaimGone(p) \/ Read(p) \/ HandOver(p) \/ HandOverWrongRow(p)
        \/ Decrypt(p) \/ Seed(p) \/ Deliver(p) \/ DeliveryRejected(p) => UNCHANGED groups
    BY DEF Receive, ReceiveUnproved, Gather, ClaimGone, Read, HandOver, HandOverWrongRow, Decrypt, Seed, Deliver,
           DeliveryRejected
  <2>2. PutTooLarge(p) \/ Finish(p) \/ Fail(p) => \E gs : Drop(gs)
    BY DEF PutTooLarge, Finish, Fail
  <2>3. PutOverQuota(p) => UNCHANGED groups \/ \E gs : Drop(gs)
    BY DEF PutOverQuota
  <2> QED BY <1>2, <1>3, <1>4, <1>5, <1>6, <1>8, <1>10, <2>1, <2>2, <2>3 DEF Step
<1>11. CleanupStale \/ Rest => UNCHANGED groups \/ \E gs : Drop(gs)
  BY DEF CleanupStale, Rest, vars
<1> QED BY <1>2, <1>3, <1>7, <1>9, <1>10, <1>11 DEF Next

(* For any of them, the record of a live group never goes back, whichever       *)
(* processors claim, commit and release it and whatever lapses or dies         *)
(* (commitDrainMeta, and putOnce into a group that is being drained).          *)
THEOREM DrainsGoForward == Spec => [][DrainsForwardStep]_vars
BY Invariance, ForwardStep, PTL DEF Spec
================================================================================
