-------------------------- MODULE ReadAdmissionProofs --------------------------
(***************************************************************************)
(* The capacity limits of ReadAdmission hold, its counters are exact, and   *)
(* reads are served in turn, for any set of reads and any limits.           *)
(***************************************************************************)
EXTENDS ReadAdmission, NaturalsLemmas

(* The slots out on ledger g, given who refers to which ledger. *)
OutOn(g, held, owner) == {s \in held : owner[s[1]] = g}
HistoryOutOn(g, held, owner) == {s \in OutOn(g, held, owner) : s[2] = "history"}

Injective(queue) == \A i, j \in DOMAIN queue : queue[i] = queue[j] => i = j
Queued(queue) == {queue[i] : i \in DOMAIN queue}

LedgerShape == [active: Nat, history: Nat, queue: Seq(Requests)]

(* A state object within its limits, whose queue holds the requests that wait  *)
(* on it and whose counters count the slots out on it.                         *)
LedgerOK(g, ledger, answered, held, owner) ==
    /\ ledger \in LedgerShape
    /\ ledger.active <= MaxSubscriptions
    /\ ledger.history <= MaxHistory
    /\ Injective(ledger.queue)
    /\ \A r \in Requests :
          r \in Queued(ledger.queue) <=> owner[r] = g /\ answered[r] = "waiting"
    /\ ledger.active = Cardinality(OutOn(g, held, owner))
    /\ ledger.history = Cardinality(HistoryOutOn(g, held, owner))

(* Slots are out only to granted requests, and only admitted ones have a ledger. *)
RequestsOK(answered, held, owner) ==
    /\ owner \in [Requests -> Ledgers \cup {NoLedger}]
    /\ answered \in [Requests -> {"none", "waiting", "granted", "rejected"}]
    /\ held \subseteq Slots(Requests)
    /\ \A s \in held : answered[s[1]] = "granted" /\ owner[s[1]] # NoLedger
    /\ \A r \in Requests : answered[r] = "waiting" => owner[r] # NoLedger
    /\ \A r \in Requests : answered[r] = "none" => owner[r] = NoLedger

(* Every dropped state object is idle. *)
DroppedIdle(now) == \A g \in Ledgers : g # now => Idle(ledgers[g])

IInv ==
    /\ ledgers \in [Ledgers -> LedgerShape]
    /\ current \in Ledgers \cup {NoLedger}
    /\ RequestsOK(answer, leases, ledgerOf)
    /\ \A g \in Ledgers : LedgerOK(g, ledgers[g], answer, leases, ledgerOf)
    /\ DroppedIdle(current)

--------------------------------------------------------------------------------
(* The slots of finitely many requests. *)

LEMMA SlotsFinite ==
    ASSUME NEW rs \in SUBSET Requests
    PROVE  /\ IsFiniteSet(Slots(rs)) /\ IsFiniteSet(HistorySlots(rs))
           /\ Slots(rs) \subseteq Slots(Requests)
<1>1. IsFiniteSet(Kinds)
  <2>1. IsFiniteSet({"live"}) /\ IsFiniteSet({"live"} \cup {"history"})
    BY FS_Singleton, FS_AddElement
  <2>2. Kinds = {"live"} \cup {"history"}
    BY DEF Kinds
  <2> QED BY <2>1, <2>2
<1>2. IsFiniteSet(rs)
  BY RequestsAssumption, FS_Subset
<1>3. IsFiniteSet(rs \X Kinds)
  BY <1>1, <1>2, FS_Product
<1>4. Slots(rs) \in SUBSET (rs \X Kinds) /\ HistorySlots(rs) \in SUBSET (rs \X Kinds)
  BY DEF Slots, HistorySlots
<1>5. Slots(rs) \subseteq Slots(Requests)
  BY DEF Slots
<1> QED BY <1>3, <1>4, <1>5, FS_Subset

LEMMA SlotsOfOne ==
    ASSUME NEW r \in Requests
    PROVE  /\ Cardinality(Slots({r})) <= Weight(r)
           /\ Weight(r) \in Nat
           /\ Cardinality(HistorySlots({r})) = IF "history" \in Wants[r] THEN 1 ELSE 0
<1> DEFINE f == [k \in Wants[r] |-> <<r, k>>]
<1>1. Wants[r] \subseteq Kinds /\ IsFiniteSet(Wants[r])
  <2>1. Wants[r] \in SUBSET Kinds
    BY RequestsAssumption
  <2>2. IsFiniteSet(Kinds)
    <3>1. IsFiniteSet({"live"}) /\ IsFiniteSet({"live"} \cup {"history"})
      BY FS_Singleton, FS_AddElement
    <3>2. Kinds = {"live"} \cup {"history"}
      BY DEF Kinds
    <3> QED BY <3>1, <3>2
  <2> QED BY <2>1, <2>2, FS_Subset
<1>2. f \in Surjection(Wants[r], Slots({r}))
  <2>1. \A s \in Slots({r}) : s[2] \in Wants[r] /\ s = <<r, s[2]>>
    BY DEF Slots
  <2>2. \A k \in Wants[r] : <<r, k>> \in Slots({r})
    BY <1>1 DEF Slots
  <2> QED BY <2>1, <2>2 DEF Surjection
<1>3. Cardinality(Slots({r})) <= Weight(r) /\ Weight(r) \in Nat
  BY <1>1, <1>2, FS_Surjection, FS_CardinalityType DEF Weight
<1>4. HistorySlots({r}) = IF "history" \in Wants[r] THEN {<<r, "history">>} ELSE {}
  BY DEF HistorySlots, Slots, Kinds
<1> QED BY <1>3, <1>4, FS_Singleton, FS_EmptySet

(* Cardinality of a union. *)
LEMMA UnionBound ==
    ASSUME NEW S, NEW T, IsFiniteSet(S), IsFiniteSet(T)
    PROVE  /\ IsFiniteSet(S \cup T)
           /\ Cardinality(S) \in Nat /\ Cardinality(T) \in Nat
           /\ Cardinality(S \cup T) \in Nat
           /\ Cardinality(S \cup T) <= Cardinality(S) + Cardinality(T)
           /\ S \cap T = {} => Cardinality(S \cup T) = Cardinality(S) + Cardinality(T)
<1>1. IsFiniteSet(S \cap T)
  <2>1. S \cap T \in SUBSET S
    OBVIOUS
  <2> QED BY <2>1, FS_Subset
<1>2. IsFiniteSet(S \cup T)
  BY FS_Union
<1>3. /\ Cardinality(S) \in Nat /\ Cardinality(T) \in Nat
      /\ Cardinality(S \cap T) \in Nat /\ Cardinality(S \cup T) \in Nat
  BY <1>1, <1>2, FS_CardinalityType
<1>4. Cardinality(S \cup T) = Cardinality(S) + Cardinality(T) - Cardinality(S \cap T)
  BY FS_Union
<1>5. S \cap T = {} => Cardinality(S \cap T) = 0
  BY FS_EmptySet
<1> QED BY <1>2, <1>3, <1>4, <1>5

LEMMA SlotsGrow ==
    ASSUME NEW rs \in SUBSET Requests, NEW r \in Requests
    PROVE  /\ Cardinality(Slots(rs \cup {r})) <= Cardinality(Slots(rs)) + Weight(r)
           /\ Cardinality(HistorySlots(rs \cup {r})) <=
                Cardinality(HistorySlots(rs)) + IF "history" \in Wants[r] THEN 1 ELSE 0
<1>1. /\ Slots(rs \cup {r}) = Slots(rs) \cup Slots({r})
      /\ HistorySlots(rs \cup {r}) = HistorySlots(rs) \cup HistorySlots({r})
  BY DEF Slots, HistorySlots
<1>2. /\ IsFiniteSet(Slots(rs)) /\ IsFiniteSet(HistorySlots(rs))
      /\ IsFiniteSet(Slots({r})) /\ IsFiniteSet(HistorySlots({r}))
  BY SlotsFinite
<1>4. /\ Cardinality(Slots(rs)) \in Nat /\ Cardinality(Slots({r})) \in Nat
      /\ Cardinality(HistorySlots(rs)) \in Nat /\ Cardinality(HistorySlots({r})) \in Nat
  BY <1>2, FS_CardinalityType
<1>5. Cardinality(Slots(rs \cup {r})) <= Cardinality(Slots(rs)) + Cardinality(Slots({r}))
  BY <1>1, <1>2, UnionBound
<1>6. Cardinality(HistorySlots(rs \cup {r})) <=
        Cardinality(HistorySlots(rs)) + Cardinality(HistorySlots({r}))
  BY <1>1, <1>2, UnionBound
<1> QED
  <2>1. Cardinality(Slots(rs \cup {r})) \in Nat
    BY SlotsFinite, FS_CardinalityType
  <2> QED BY <1>4, <1>5, <1>6, <2>1, SlotsOfOne

--------------------------------------------------------------------------------
(* What drain grants. *)

LEMMA AdmissibleFact ==
    ASSUME NEW ledger, ledger.queue \in Seq(Requests)
    PROVE  /\ Admissible(ledger) \in 0..Len(ledger.queue)
           /\ \A i \in 1..Admissible(ledger) : Fits(ledger, i)
           /\ Admissible(ledger) < Len(ledger.queue) => ~Fits(ledger, Admissible(ledger) + 1)
<1> DEFINE L == Len(ledger.queue)
           Blocked == {i \in 1..L : ~Fits(ledger, i)}
           Right(n) == /\ \A i \in 1..n : Fits(ledger, i)
                       /\ n < L => ~Fits(ledger, n + 1)
<1>1. \E n \in 0..L : Right(n)
  <2>0. L \in Nat
    OBVIOUS
  <2>1. CASE Blocked = {}
    <3>1. Right(L) /\ L \in 0..L
      BY <2>0, <2>1
    <3> QED BY <3>1
  <2>2. CASE Blocked # {}
    <3>1. PICK m \in Blocked : \A y \in Blocked : m <= y
      <4>1. Blocked \subseteq Nat
        BY <2>0
      <4> QED BY <2>2, <4>1, LeastNatural
    <3>2. m \in 1..L /\ ~Fits(ledger, m)
      BY <3>1
    <3>3. \A i \in 1..(m - 1) : Fits(ledger, i)
      BY <2>0, <3>1, <3>2
    <3>4. m - 1 \in 0..L /\ (m - 1) + 1 = m
      BY <2>0, <3>2
    <3> QED BY <3>2, <3>3, <3>4
  <2> QED BY <2>1, <2>2
<1> QED BY <1>1 DEF Admissible

LEMMA FirstGrows ==
    ASSUME NEW queue \in Seq(Requests), NEW n \in 0..Len(queue)
    PROVE  /\ First(queue, n) \in SUBSET Requests
           /\ First(queue, 0) = {}
           /\ n > 0 => /\ queue[n] \in Requests
                       /\ First(queue, n) = First(queue, n - 1) \cup {queue[n]}
                       /\ First(queue, n - 1) \in SUBSET Requests
<1>1. \A i \in 1..n : queue[i] \in Requests
  OBVIOUS
<1>2. n > 0 => 1..n = (1..(n - 1)) \cup {n}
  OBVIOUS
<1> QED BY <1>1, <1>2 DEF First

(* drain never overruns a limit it started within. *)
LEMMA DrainedWithin ==
    ASSUME NEW ledger \in LedgerShape,
           ledger.active <= MaxSubscriptions, ledger.history <= MaxHistory
    PROVE  /\ Drained(ledger) \in LedgerShape
           /\ Drained(ledger).active <= MaxSubscriptions
           /\ Drained(ledger).history <= MaxHistory
<1> DEFINE N == Admissible(ledger)
           Q == ledger.queue
           ActiveAt(n) == ledger.active + Cardinality(Slots(First(Q, n)))
           HistoryAt(n) == ledger.history + Cardinality(HistorySlots(First(Q, n)))
           Over == {n \in 0..N : HistoryAt(n) > MaxHistory}
<1>1. /\ Q \in Seq(Requests) /\ N \in 0..Len(Q) /\ N \in Nat
      /\ \A i \in 1..N : Fits(ledger, i)
      /\ ledger.active \in Nat /\ ledger.history \in Nat
      /\ MaxSubscriptions \in Nat /\ MaxHistory \in Nat
  BY AdmissibleFact, CapacityAssumption DEF LedgerShape
<1>2. ASSUME NEW n \in 0..N
      PROVE  /\ ActiveAt(n) \in Nat /\ HistoryAt(n) \in Nat
  <2>0. n \in 0..Len(Q)
    BY <1>1
  <2>1. First(Q, n) \in SUBSET Requests
    BY <1>1, <2>0, FirstGrows
  <2>2. /\ Cardinality(Slots(First(Q, n))) \in Nat
        /\ Cardinality(HistorySlots(First(Q, n))) \in Nat
    BY <2>1, SlotsFinite, FS_CardinalityType
  <2> QED BY <1>1, <2>2, SMTT(40)
<1>3. Cardinality(Slots(First(Q, 0))) = 0 /\ Cardinality(HistorySlots(First(Q, 0))) = 0
  <2>1. Slots(First(Q, 0)) = {} /\ HistorySlots(First(Q, 0)) = {}
    BY DEF First, Slots, HistorySlots
  <2> QED BY <2>1, FS_EmptySet
<1>4. ActiveAt(N) <= MaxSubscriptions
  <2>1. CASE N = 0
    BY <1>1, <1>3, <2>1
  <2>2. CASE N > 0
    <3>1. /\ Q[N] \in Requests /\ First(Q, N - 1) \in SUBSET Requests
          /\ First(Q, N) = First(Q, N - 1) \cup {Q[N]}
      BY <1>1, <2>2, FirstGrows
    <3>2. Fits(ledger, N)
      BY <1>1, <2>2
    <3>3. Cardinality(Slots(First(Q, N))) <= Cardinality(Slots(First(Q, N - 1))) + Weight(Q[N])
      BY <3>1, SlotsGrow
    <3>4. ActiveAt(N - 1) \in Nat
      BY <1>1, <1>2, <2>2
    <3>5. Weight(Q[N]) \in Nat
      BY <3>1, SlotsOfOne
    <3>6. /\ Cardinality(Slots(First(Q, N - 1))) \in Nat
          /\ Cardinality(Slots(First(Q, N))) \in Nat
      BY <3>1, SlotsFinite, FS_CardinalityType
    <3>7. ledger.active + Cardinality(Slots(First(Q, N - 1))) + Weight(Q[N]) <= MaxSubscriptions
      BY <3>2 DEF Fits
    <3> QED BY <1>1, <3>3, <3>5, <3>6, <3>7
  <2> QED BY <1>1, <2>1, <2>2
<1>5. HistoryAt(N) <= MaxHistory
  <2> SUFFICES ASSUME Over # {} PROVE FALSE
    BY <1>1, <1>2
  <2>1. PICK m \in Over : \A y \in Over : m <= y
    <3>1. Over \subseteq Nat
      BY <1>1
    <3> QED BY <3>1, LeastNatural
  <2>2. m \in 0..N /\ HistoryAt(m) > MaxHistory /\ m > 0
    BY <1>1, <1>3, <2>1
  <2>3. m - 1 \in 0..N /\ m - 1 \notin Over
    BY <1>1, <2>1, <2>2
  <2>4. HistoryAt(m - 1) <= MaxHistory /\ HistoryAt(m - 1) \in Nat /\ HistoryAt(m) \in Nat
    BY <1>1, <1>2, <2>2, <2>3
  <2>5. /\ Q[m] \in Requests /\ First(Q, m - 1) \in SUBSET Requests
        /\ First(Q, m) = First(Q, m - 1) \cup {Q[m]}
    BY <1>1, <2>2, FirstGrows
  <2>6. Cardinality(HistorySlots(First(Q, m))) <=
          Cardinality(HistorySlots(First(Q, m - 1))) + IF "history" \in Wants[Q[m]] THEN 1 ELSE 0
    BY <2>5, SlotsGrow
  <2>7. "history" \in Wants[Q[m]] => HistoryAt(m - 1) < MaxHistory
    BY <1>1, <2>2 DEF Fits
  <2>8. /\ Cardinality(HistorySlots(First(Q, m - 1))) \in Nat
        /\ Cardinality(HistorySlots(First(Q, m))) \in Nat
    BY <2>5, SlotsFinite, FS_CardinalityType
  <2> QED BY <1>1, <2>2, <2>4, <2>6, <2>7, <2>8, SMTT(40)
<1>6. SubSeq(Q, N + 1, Len(Q)) \in Seq(Requests)
  BY <1>1
<1> QED
  <2>1. /\ Drained(ledger).active = ActiveAt(N)
        /\ Drained(ledger).history = HistoryAt(N)
    BY DEF Drained
  <2>2. ActiveAt(N) \in Nat /\ HistoryAt(N) \in Nat
    BY <1>1, <1>2
  <2>3. Drained(ledger) \in LedgerShape
    BY <1>6, <2>2 DEF Drained, LedgerShape
  <2> QED BY <1>4, <1>5, <2>1, <2>3

(* What is left of a queue whose first n entries are gone. *)
LEMMA RestOfQueue ==
    ASSUME NEW queue \in Seq(Requests), Injective(queue), NEW n \in 0..Len(queue)
    PROVE  LET rest == SubSeq(queue, n + 1, Len(queue))
           IN  /\ rest \in Seq(Requests) /\ Injective(rest)
               /\ Queued(rest) = Queued(queue) \ First(queue, n)
               /\ First(queue, n) \subseteq Queued(queue)
<1> DEFINE rest == SubSeq(queue, n + 1, Len(queue))
           L == Len(queue)
<1>1. /\ L \in Nat /\ n \in Nat /\ n <= L /\ DOMAIN queue = 1..L
      /\ rest \in Seq(Requests) /\ DOMAIN rest = 1..(L - n)
      /\ \A i \in 1..(L - n) : rest[i] = queue[n + i]
  OBVIOUS
<1>2. \A i \in 1..(L - n) : n + i \in 1..L /\ n + i > n
  BY <1>1
<1>3. Injective(rest)
  <2> SUFFICES ASSUME NEW i \in 1..(L - n), NEW j \in 1..(L - n), rest[i] = rest[j]
               PROVE  i = j
    BY <1>1 DEF Injective
  <2>1. queue[n + i] = queue[n + j] /\ n + i \in DOMAIN queue /\ n + j \in DOMAIN queue
    BY <1>1, <1>2
  <2>2. n + i = n + j
    BY <2>1 DEF Injective
  <2> QED BY <1>1, <2>2
<1>4. First(queue, n) \subseteq Queued(queue)
  <2>1. \A i \in 1..n : i \in DOMAIN queue
    BY <1>1
  <2> QED BY <2>1 DEF First, Queued
<1>5. ASSUME NEW i \in DOMAIN rest PROVE rest[i] \in Queued(queue) \ First(queue, n)
  <2>1. n + i \in 1..L /\ n + i > n /\ rest[i] = queue[n + i]
    BY <1>1, <1>2
  <2>2. ASSUME NEW j \in 1..n, queue[j] = queue[n + i] PROVE FALSE
    <3>1. j \in DOMAIN queue /\ n + i \in DOMAIN queue /\ j # n + i
      BY <1>1, <2>1
    <3> QED BY <2>2, <3>1 DEF Injective
  <2> QED BY <1>1, <2>1, <2>2 DEF First, Queued
<1>6. ASSUME NEW j \in DOMAIN queue, queue[j] \notin First(queue, n)
      PROVE  queue[j] \in Queued(rest)
  <2>1. j > n
    BY <1>1, <1>6 DEF First
  <2>2. j - n \in 1..(L - n) /\ n + (j - n) = j
    BY <1>1, <2>1
  <2>3. rest[j - n] = queue[j]
    BY <1>1, <2>2
  <2> QED BY <1>1, <2>2, <2>3 DEF Queued
<1>7. Queued(rest) = Queued(queue) \ First(queue, n)
  BY <1>5, <1>6 DEF Queued
<1> QED BY <1>1, <1>3, <1>4, <1>7

(* drain keeps every state object in order. *)
LEMMA DrainKeeps ==
    ASSUME NEW g \in Ledgers, NEW ledger, NEW answered, NEW held,
           ledgers \in [Ledgers -> LedgerShape],
           RequestsOK(answered, held, ledgerOf'),
           \A h \in Ledgers \ {g} : LedgerOK(h, ledgers[h], answered, held, ledgerOf'),
           LedgerOK(g, ledger, answered, held, ledgerOf'),
           Drain(g, ledger, answered, held)
    PROVE  /\ ledgers' \in [Ledgers -> LedgerShape]
           /\ \A h \in Ledgers \ {g} : ledgers'[h] = ledgers[h]
           /\ RequestsOK(answer', leases', ledgerOf')
           /\ \A h \in Ledgers : LedgerOK(h, ledgers'[h], answer', leases', ledgerOf')
<1> DEFINE N == Admissible(ledger)
           F == First(ledger.queue, N)
           rest == SubSeq(ledger.queue, N + 1, Len(ledger.queue))
           owner == ledgerOf'
<1>1. /\ ledger \in LedgerShape /\ ledger.queue \in Seq(Requests)
      /\ Injective(ledger.queue) /\ N \in 0..Len(ledger.queue)
      /\ ledger.active \in Nat /\ ledger.history \in Nat
  <2>1. ledger \in LedgerShape /\ Injective(ledger.queue)
    BY DEF LedgerOK
  <2> QED BY <2>1, AdmissibleFact DEF LedgerShape
<1>2. /\ ledgers' = [ledgers EXCEPT ![g] = Drained(ledger)]
      /\ answer' = [r \in Requests |-> IF r \in F THEN "granted" ELSE answered[r]]
      /\ leases' = held \cup Slots(F)
  BY DEF Drain
<1>3. /\ Drained(ledger) \in LedgerShape
      /\ Drained(ledger).active <= MaxSubscriptions
      /\ Drained(ledger).history <= MaxHistory
  BY DrainedWithin DEF LedgerOK
<1>4. /\ ledgers' \in [Ledgers -> LedgerShape]
      /\ ledgers'[g] = Drained(ledger)
      /\ \A h \in Ledgers \ {g} : ledgers'[h] = ledgers[h]
  BY <1>2, <1>3
<1>5. /\ F \subseteq Queued(ledger.queue) /\ F \in SUBSET Requests
      /\ rest \in Seq(Requests) /\ Injective(rest) /\ Queued(rest) = Queued(ledger.queue) \ F
  BY <1>1, RestOfQueue, FirstGrows
<1>6. \A r \in F : r \in Requests /\ owner[r] = g /\ answered[r] = "waiting"
  BY <1>5 DEF LedgerOK
<1>7. held \subseteq Slots(Requests) /\ \A s \in held : answered[s[1]] = "granted"
  BY DEF RequestsOK
<1>8. \A s \in Slots(F) : s[1] \in F /\ owner[s[1]] = g /\ s \notin held
  <2>1. \A s \in Slots(F) : s[1] \in F
    BY DEF Slots
  <2> QED BY <1>6, <1>7, <2>1
<1>9. RequestsOK(answer', leases', owner)
  <2>1. Slots(F) \subseteq Slots(Requests)
    BY <1>5, SlotsFinite
  <2>2. leases' \subseteq Slots(Requests)
    BY <1>2, <1>7, <2>1
  <2>3. answer' \in [Requests -> {"none", "waiting", "granted", "rejected"}]
    BY <1>2 DEF RequestsOK
  <2>4. \A s \in Slots(Requests) : s[1] \in Requests
    BY DEF Slots
  <2>5. g # NoLedger
    BY LedgersAssumption
  <2>6. \A s \in leases' : answer'[s[1]] = "granted" /\ owner[s[1]] # NoLedger
    BY <1>2, <1>7, <1>8, <2>2, <2>4, <2>5 DEF RequestsOK
  <2>7. \A r \in Requests : /\ answer'[r] = "waiting" => owner[r] # NoLedger
                            /\ answer'[r] = "none" => owner[r] = NoLedger
    BY <1>2, <1>6 DEF RequestsOK
  <2> QED BY <2>2, <2>3, <2>6, <2>7 DEF RequestsOK
<1>10. ASSUME NEW h \in Ledgers \ {g}
       PROVE  LedgerOK(h, ledgers'[h], answer', leases', owner)
  <2>1. OutOn(h, leases', owner) = OutOn(h, held, owner)
    BY <1>2, <1>8 DEF OutOn
  <2>2. HistoryOutOn(h, leases', owner) = HistoryOutOn(h, held, owner)
    BY <2>1 DEF HistoryOutOn
  <2>3. \A r \in Requests : owner[r] = h => answer'[r] = answered[r]
    BY <1>2, <1>6
  <2>4. LedgerOK(h, ledgers[h], answered, held, owner)
    OBVIOUS
  <2> QED BY <1>4, <2>1, <2>2, <2>3, <2>4 DEF LedgerOK
<1>11. LedgerOK(g, ledgers'[g], answer', leases', owner)
  <2>1. OutOn(g, leases', owner) = OutOn(g, held, owner) \cup Slots(F)
    BY <1>2, <1>8 DEF OutOn
  <2>2. HistoryOutOn(g, leases', owner) = HistoryOutOn(g, held, owner) \cup HistorySlots(F)
    BY <2>1 DEF HistoryOutOn, HistorySlots
  <2>3. /\ OutOn(g, held, owner) \cap Slots(F) = {}
        /\ HistoryOutOn(g, held, owner) \cap HistorySlots(F) = {}
    BY <1>8 DEF OutOn, HistoryOutOn, HistorySlots
  <2>4. /\ IsFiniteSet(OutOn(g, held, owner)) /\ IsFiniteSet(HistoryOutOn(g, held, owner))
        /\ IsFiniteSet(Slots(F)) /\ IsFiniteSet(HistorySlots(F))
    <3>1. OutOn(g, held, owner) \in SUBSET Slots(Requests)
      BY <1>7 DEF OutOn
    <3>2. HistoryOutOn(g, held, owner) \in SUBSET Slots(Requests)
      BY <3>1 DEF HistoryOutOn
    <3>3. IsFiniteSet(Slots(Requests))
      BY SlotsFinite
    <3> QED BY <1>5, <3>1, <3>2, <3>3, SlotsFinite, FS_Subset
  <2>5. /\ Drained(ledger).active = Cardinality(OutOn(g, leases', owner))
        /\ Drained(ledger).history = Cardinality(HistoryOutOn(g, leases', owner))
    <3>1. Drained(ledger).active = Cardinality(OutOn(g, held, owner)) + Cardinality(Slots(F))
      BY DEF Drained, LedgerOK
    <3>2. Drained(ledger).history =
            Cardinality(HistoryOutOn(g, held, owner)) + Cardinality(HistorySlots(F))
      BY DEF Drained, LedgerOK
    <3> QED BY <2>1, <2>2, <2>3, <2>4, <3>1, <3>2, UnionBound
  <2>6. Drained(ledger).queue = rest
    BY DEF Drained
  <2>7. ASSUME NEW r \in Requests
        PROVE  r \in Queued(rest) <=> owner[r] = g /\ answer'[r] = "waiting"
    BY <1>2, <1>5 DEF LedgerOK
  <2> QED BY <1>3, <1>4, <1>5, <2>5, <2>6, <2>7 DEF LedgerOK
<1> QED
  <2>1. \A h \in Ledgers : LedgerOK(h, ledgers'[h], answer', leases', owner)
    BY <1>10, <1>11
  <2> QED BY <1>4, <1>9, <2>1

--------------------------------------------------------------------------------
(* The other changes a queue and a state object undergo. *)

LEMMA SpliceQueue ==
    ASSUME NEW queue \in Seq(Requests), Injective(queue), NEW r \in Queued(queue)
    PROVE  /\ Splice(queue, r) \in Seq(Requests) /\ Injective(Splice(queue, r))
           /\ Queued(Splice(queue, r)) = Queued(queue) \ {r}
<1> DEFINE L == Len(queue)
           at == CHOOSE i \in DOMAIN queue : queue[i] = r
           rest == Splice(queue, r)
           Old(i) == IF i < at THEN i ELSE i + 1
<1>1. at \in DOMAIN queue /\ queue[at] = r
  BY DEF Queued
<1>2. L \in Nat /\ DOMAIN queue = 1..L /\ at \in 1..L
  BY <1>1
<1> HIDE DEF at
<1>3. rest = [i \in 1..(L - 1) |-> queue[Old(i)]]
  BY DEF Splice, at
<1>4. \A i \in 1..(L - 1) : Old(i) \in 1..L /\ Old(i) # at
  BY <1>2
<1>5. rest \in Seq(Requests) /\ Len(rest) = L - 1 /\ DOMAIN rest = 1..(L - 1)
  <2>1. \A i \in 1..(L - 1) : queue[Old(i)] \in Requests
    BY <1>2, <1>4
  <2>2. L - 1 \in Nat
    BY <1>2
  <2>3. rest \in [1..(L - 1) -> Requests]
    BY <1>3, <2>1
  <2>4. rest \in Seq(Requests)
    BY <2>2, <2>3
  <2> QED BY <2>2, <2>3, <2>4
<1>6. ASSUME NEW i \in 1..(L - 1)
      PROVE  rest[i] = queue[Old(i)] /\ Old(i) \in 1..L /\ Old(i) # at
  BY <1>3, <1>4
<1>7. Injective(rest)
  <2> SUFFICES ASSUME NEW i \in 1..(L - 1), NEW j \in 1..(L - 1), rest[i] = rest[j]
               PROVE  i = j
    BY <1>5 DEF Injective
  <2>1. Old(i) = Old(j)
    BY <1>2, <1>6 DEF Injective
  <2> QED BY <1>2, <2>1
<1>8. ASSUME NEW i \in DOMAIN rest PROVE rest[i] \in Queued(queue) \ {r}
  <2>1. rest[i] = queue[Old(i)] /\ Old(i) \in DOMAIN queue /\ Old(i) # at
    BY <1>2, <1>5, <1>6
  <2>2. queue[Old(i)] # r
    BY <1>1, <2>1 DEF Injective
  <2> QED BY <2>1, <2>2 DEF Queued
<1>9. ASSUME NEW j \in DOMAIN queue, queue[j] # r PROVE queue[j] \in Queued(rest)
  <2>1. j # at /\ j \in 1..L
    BY <1>1, <1>2, <1>9
  <2>2. \E i \in 1..(L - 1) : Old(i) = j
    <3>1. CASE j < at
      <4>1. j \in 1..(L - 1) /\ Old(j) = j
        BY <1>2, <2>1, <3>1
      <4> QED BY <4>1
    <3>2. CASE j > at
      <4>1. j - 1 \in 1..(L - 1) /\ Old(j - 1) = j
        BY <1>2, <2>1, <3>2
      <4> QED BY <4>1
    <3> QED BY <1>2, <2>1, <3>1, <3>2
  <2> QED BY <1>5, <1>6, <2>2 DEF Queued
<1> QED BY <1>5, <1>7, <1>8, <1>9 DEF Queued

LEMMA AppendQueue ==
    ASSUME NEW queue \in Seq(Requests), Injective(queue), NEW r \in Requests \ Queued(queue)
    PROVE  /\ Append(queue, r) \in Seq(Requests) /\ Injective(Append(queue, r))
           /\ Queued(Append(queue, r)) = Queued(queue) \cup {r}
<1> DEFINE L == Len(queue)
<1>1. /\ L \in Nat /\ DOMAIN queue = 1..L /\ DOMAIN Append(queue, r) = 1..(L + 1)
      /\ Append(queue, r) \in Seq(Requests)
      /\ \A i \in 1..L : Append(queue, r)[i] = queue[i]
      /\ Append(queue, r)[L + 1] = r
  OBVIOUS
<1>2. \A i \in 1..(L + 1) : i \in 1..L \/ i = L + 1
  BY <1>1
<1>3. \A i \in 1..L : queue[i] # r
  BY <1>1 DEF Queued
<1>4. Injective(Append(queue, r))
  BY <1>1, <1>2, <1>3 DEF Injective
<1>5. L + 1 \in 1..(L + 1) /\ \A i \in 1..L : i \in 1..(L + 1)
  BY <1>1
<1> QED BY <1>1, <1>2, <1>4, <1>5 DEF Queued

(* An idle state object has no slot out on it and nobody waiting. *)
LEMMA IdleLedger ==
    ASSUME IInv, NEW g \in Ledgers, Idle(ledgers[g])
    PROVE  /\ \A s \in leases : ledgerOf[s[1]] # g
           /\ \A r \in Requests : ~(ledgerOf[r] = g /\ Waiting(r))
<1>1. LedgerOK(g, ledgers[g], answer, leases, ledgerOf)
  BY DEF IInv
<1>2. OutOn(g, leases, ledgerOf) \in SUBSET Slots(Requests)
  BY DEF IInv, RequestsOK, OutOn
<1>3. OutOn(g, leases, ledgerOf) = {}
  <2>1. IsFiniteSet(OutOn(g, leases, ledgerOf))
    BY <1>2, SlotsFinite, FS_Subset
  <2> QED BY <1>1, <2>1, FS_EmptySet DEF LedgerOK, Idle
<1>4. Queued(ledgers[g].queue) = {}
  BY DEF Idle, Queued
<1> QED BY <1>1, <1>3, <1>4 DEF OutOn, LedgerOK, Waiting

(* Only the state object the map holds is ever in use. *)
LEMMA OnlyCurrent ==
    ASSUME IInv, NEW r \in Requests,
           Waiting(r) \/ \E s \in leases : s[1] = r
    PROVE  current \in Ledgers /\ ledgerOf[r] = current
<1>1. ledgerOf[r] \in Ledgers
  BY DEF IInv, RequestsOK, Waiting
<1>2. ledgerOf[r] = current
  BY <1>1, IdleLedger DEF IInv, DroppedIdle
<1> QED BY <1>1, <1>2

(* DropIfIdle keeps every state object but the current one idle. *)
LEMMA DropKeeps ==
    ASSUME NEW g \in Ledgers, NEW at \in Ledgers \cup {NoLedger},
           \A h \in Ledgers : h # g /\ h # at => Idle(ledgers'[h]),
           at = g, DropIfIdle(g, at)
    PROVE  current' \in Ledgers \cup {NoLedger} /\ DroppedIdle(current)'
BY DEF DropIfIdle, DroppedIdle

--------------------------------------------------------------------------------
(* IInv is inductive. *)

LEMMA InitIInv == Init => IInv
<1> SUFFICES ASSUME Init PROVE IInv
  OBVIOUS
<1>1. EmptyLedger \in LedgerShape /\ EmptyLedger.queue = <<>>
  BY DEF EmptyLedger, LedgerShape
<1>2. RequestsOK(answer, leases, ledgerOf)
  BY DEF Init, RequestsOK
<1>3. ASSUME NEW g \in Ledgers PROVE LedgerOK(g, ledgers[g], answer, leases, ledgerOf)
  <2>1. ledgers[g] = EmptyLedger
    BY DEF Init
  <2>2. OutOn(g, leases, ledgerOf) = {} /\ HistoryOutOn(g, leases, ledgerOf) = {}
    BY DEF Init, OutOn, HistoryOutOn
  <2>3. Injective(<<>>) /\ Queued(<<>>) = {}
    BY DEF Injective, Queued
  <2>4. \A r \in Requests : answer[r] # "waiting"
    BY DEF Init
  <2> QED BY <1>1, <2>1, <2>2, <2>3, <2>4, FS_EmptySet, CapacityAssumption
          DEF LedgerOK, EmptyLedger
<1>4. DroppedIdle(current)
  BY DEF Init, DroppedIdle, Idle, EmptyLedger
<1> QED BY <1>1, <1>2, <1>3, <1>4 DEF Init, IInv

LEMMA StepRefused ==
    ASSUME IInv, NEW r \in Requests, AcquireTooWide(r) \/ AcquireRefused(r)
    PROVE  IInv'
<1>1. /\ answer[r] = "none" /\ ledgerOf[r] = NoLedger
      /\ answer' = [answer EXCEPT ![r] = "rejected"]
      /\ UNCHANGED <<ledgers, current, ledgerOf, leases>>
  BY DEF IInv, RequestsOK, AcquireTooWide, AcquireRefused
<1>2. RequestsOK(answer', leases', ledgerOf')
  BY <1>1 DEF IInv, RequestsOK
<1>3. ASSUME NEW g \in Ledgers
      PROVE  LedgerOK(g, ledgers'[g], answer', leases', ledgerOf')
  <2>1. LedgerOK(g, ledgers[g], answer, leases, ledgerOf) /\ g # NoLedger
    BY LedgersAssumption DEF IInv
  <2>2. \A q \in Requests : ledgerOf[q] = g => answer'[q] = answer[q]
    BY <1>1, <2>1 DEF IInv, RequestsOK
  <2> QED BY <1>1, <2>1, <2>2 DEF LedgerOK
<1> QED BY <1>1, <1>2, <1>3 DEF IInv, DroppedIdle

LEMMA StepAcquire ==
    ASSUME IInv, NEW r \in Requests, Acquire(r)
    PROVE  IInv'
<1>1. PICK g \in Ledgers :
        /\ EnqueueOn(g, r)
        /\ \A h \in Ledgers : h # g => Idle(ledgers[h])
  <2>1. CASE current # NoLedger /\ EnqueueOn(current, r)
    BY <2>1 DEF IInv, DroppedIdle
  <2>2. CASE current = NoLedger /\ NewLedger \in Ledgers /\ EnqueueOn(NewLedger, r)
    BY <2>2, LedgersAssumption DEF IInv, DroppedIdle
  <2> QED BY <2>1, <2>2 DEF Acquire
<1> DEFINE ledger == [ledgers[g] EXCEPT !.queue = Enqueue(ledgers[g].queue, r)]
           answered == [answer EXCEPT ![r] = "waiting"]
<1>2. /\ answer[r] = "none" /\ ledgerOf[r] = NoLedger
      /\ ledgerOf' = [ledgerOf EXCEPT ![r] = g]
      /\ Drain(g, ledger, answered, leases)
      /\ DropIfIdle(g, g)
  BY <1>1 DEF Acquire, EnqueueOn, IInv, RequestsOK
<1>3. RequestsOK(answered, leases, ledgerOf')
  <2>1. \A s \in leases : s[1] # r
    BY <1>2 DEF IInv, RequestsOK
  <2>2. g # NoLedger
    BY LedgersAssumption
  <2> QED BY <1>2, <2>1, <2>2 DEF IInv, RequestsOK, Slots
<1>4. ASSUME NEW h \in Ledgers
      PROVE  /\ OutOn(h, leases, ledgerOf') = OutOn(h, leases, ledgerOf)
             /\ HistoryOutOn(h, leases, ledgerOf') = HistoryOutOn(h, leases, ledgerOf)
  <2>1. \A s \in leases : s[1] # r /\ s[1] \in Requests
    BY <1>2 DEF IInv, RequestsOK, Slots
  <2>2. \A s \in leases : ledgerOf'[s[1]] = ledgerOf[s[1]]
    BY <1>2, <2>1 DEF IInv, RequestsOK
  <2> QED BY <2>2 DEF OutOn, HistoryOutOn
<1>5. ASSUME NEW h \in Ledgers \ {g}
      PROVE  LedgerOK(h, ledgers[h], answered, leases, ledgerOf')
  <2>1. LedgerOK(h, ledgers[h], answer, leases, ledgerOf) /\ h # NoLedger
    BY LedgersAssumption DEF IInv
  <2>2. \A q \in Requests : /\ ledgerOf'[q] = h <=> ledgerOf[q] = h
                            /\ ledgerOf'[q] = h => answered[q] = answer[q]
    BY <1>2, <2>1 DEF IInv, RequestsOK
  <2> QED BY <1>4, <2>1, <2>2 DEF LedgerOK
<1>6. LedgerOK(g, ledger, answered, leases, ledgerOf')
  <2>1. LedgerOK(g, ledgers[g], answer, leases, ledgerOf) /\ g # NoLedger
    BY LedgersAssumption DEF IInv
  <2>2. /\ ledgers[g].queue \in Seq(Requests) /\ Injective(ledgers[g].queue)
        /\ r \in Requests \ Queued(ledgers[g].queue)
    BY <1>2, <2>1 DEF LedgerOK, LedgerShape
  <2>3. /\ ledger.queue = Append(ledgers[g].queue, r)
        /\ ledger.active = ledgers[g].active /\ ledger.history = ledgers[g].history
        /\ ledger \in LedgerShape
    <3>1. Append(ledgers[g].queue, r) \in Seq(Requests)
      BY <2>2, AppendQueue
    <3>2. ledgers[g] \in LedgerShape
      BY <2>1 DEF LedgerOK
    <3> QED BY <3>1, <3>2 DEF LedgerShape, Enqueue
  <2>4. /\ Injective(ledger.queue)
        /\ Queued(ledger.queue) = Queued(ledgers[g].queue) \cup {r}
    BY <2>2, <2>3, AppendQueue
  <2>5. \A q \in Requests : q \in Queued(ledger.queue) <=>
                               ledgerOf'[q] = g /\ answered[q] = "waiting"
    BY <1>2, <2>1, <2>4 DEF LedgerOK, IInv, RequestsOK
  <2> HIDE DEF ledger, answered
  <2> QED BY <1>4, <2>1, <2>3, <2>4, <2>5 DEF LedgerOK
<1>7. /\ ledgers' \in [Ledgers -> LedgerShape]
      /\ \A h \in Ledgers \ {g} : ledgers'[h] = ledgers[h]
      /\ RequestsOK(answer', leases', ledgerOf')
      /\ \A h \in Ledgers : LedgerOK(h, ledgers'[h], answer', leases', ledgerOf')
  <2>1. ledgers \in [Ledgers -> LedgerShape]
    BY DEF IInv
  <2> HIDE DEF ledger, answered
  <2> QED BY <1>2, <1>3, <1>5, <1>6, <2>1, DrainKeeps
<1>8. current' \in Ledgers \cup {NoLedger} /\ DroppedIdle(current)'
  BY <1>1, <1>2, <1>7, DropKeeps
<1> QED BY <1>7, <1>8 DEF IInv

LEMMA StepRelease ==
    ASSUME IInv, NEW r \in Requests, NEW kind \in Kinds, Release(r, kind)
    PROVE  IInv'
<1> DEFINE g == ledgerOf[r]
           slot == <<r, kind>>
           ledger == Released(ledgers[g], kind)
           held == leases \ {slot}
<1>1. slot \in leases /\ slot[1] = r /\ slot[2] = kind
  BY DEF Release
<1>2. current \in Ledgers /\ g = current
  BY <1>1, OnlyCurrent
<1>3. /\ Drain(g, ledger, answer, held)
      /\ DropIfIdle(g, g)
      /\ ledgerOf' = ledgerOf
  BY <1>2 DEF Release
<1>4. RequestsOK(answer, held, ledgerOf)
  BY DEF IInv, RequestsOK
<1>5. ASSUME NEW h \in Ledgers \ {g} PROVE LedgerOK(h, ledgers[h], answer, held, ledgerOf)
  <2>1. LedgerOK(h, ledgers[h], answer, leases, ledgerOf)
    BY DEF IInv
  <2>2. /\ OutOn(h, held, ledgerOf) = OutOn(h, leases, ledgerOf)
        /\ HistoryOutOn(h, held, ledgerOf) = HistoryOutOn(h, leases, ledgerOf)
    BY <1>1 DEF OutOn, HistoryOutOn
  <2> QED BY <2>1, <2>2 DEF LedgerOK
<1>6. LedgerOK(g, ledger, answer, held, ledgerOf)
  <2>1. LedgerOK(g, ledgers[g], answer, leases, ledgerOf)
    BY <1>2 DEF IInv
  <2>2. /\ OutOn(g, held, ledgerOf) = OutOn(g, leases, ledgerOf) \ {slot}
        /\ HistoryOutOn(g, held, ledgerOf) = HistoryOutOn(g, leases, ledgerOf) \ {slot}
        /\ slot \in OutOn(g, leases, ledgerOf)
        /\ slot \in HistoryOutOn(g, leases, ledgerOf) <=> kind = "history"
    BY <1>1 DEF OutOn, HistoryOutOn
  <2>3. IsFiniteSet(OutOn(g, leases, ledgerOf)) /\ IsFiniteSet(HistoryOutOn(g, leases, ledgerOf))
    <3>1. OutOn(g, leases, ledgerOf) \in SUBSET Slots(Requests)
      BY DEF IInv, RequestsOK, OutOn
    <3>2. HistoryOutOn(g, leases, ledgerOf) \in SUBSET Slots(Requests)
      BY <3>1 DEF HistoryOutOn
    <3> QED BY <3>1, <3>2, SlotsFinite, FS_Subset
  <2>4. /\ Cardinality(OutOn(g, held, ledgerOf)) = Cardinality(OutOn(g, leases, ledgerOf)) - 1
        /\ Cardinality(HistoryOutOn(g, held, ledgerOf)) =
             IF kind = "history" THEN Cardinality(HistoryOutOn(g, leases, ledgerOf)) - 1
             ELSE Cardinality(HistoryOutOn(g, leases, ledgerOf))
        /\ Cardinality(OutOn(g, held, ledgerOf)) \in Nat
        /\ Cardinality(HistoryOutOn(g, held, ledgerOf)) \in Nat
    <3>1. IsFiniteSet(OutOn(g, held, ledgerOf)) /\ IsFiniteSet(HistoryOutOn(g, held, ledgerOf))
      BY <2>2, <2>3, FS_RemoveElement
    <3>2. /\ Cardinality(OutOn(g, held, ledgerOf)) \in Nat
          /\ Cardinality(HistoryOutOn(g, held, ledgerOf)) \in Nat
      BY <3>1, FS_CardinalityType
    <3>3. Cardinality(OutOn(g, leases, ledgerOf) \ {slot}) = Cardinality(OutOn(g, leases, ledgerOf)) - 1
      BY <2>2, <2>3, FS_RemoveElement
    <3>4. Cardinality(HistoryOutOn(g, leases, ledgerOf) \ {slot}) =
            IF slot \in HistoryOutOn(g, leases, ledgerOf)
            THEN Cardinality(HistoryOutOn(g, leases, ledgerOf)) - 1
            ELSE Cardinality(HistoryOutOn(g, leases, ledgerOf))
      BY <2>3, FS_RemoveElement
    <3> HIDE DEF held, slot
    <3> QED BY <2>2, <3>2, <3>3, <3>4
  <2>5. /\ ledgers[g] \in LedgerShape
        /\ ledgers[g].active = Cardinality(OutOn(g, leases, ledgerOf))
        /\ ledgers[g].history = Cardinality(HistoryOutOn(g, leases, ledgerOf))
    BY <2>1 DEF LedgerOK
  <2>6. /\ ledger.queue = ledgers[g].queue
        /\ ledger.active = Cardinality(OutOn(g, held, ledgerOf))
        /\ ledger.history = Cardinality(HistoryOutOn(g, held, ledgerOf))
    BY <2>4, <2>5 DEF Released, LedgerShape
  <2>7. ledger \in LedgerShape
    <3>1. ledgers[g].active - 1 \in Nat
      BY <2>2, <2>4, <2>5
    <3>2. kind = "history" => ledgers[g].history - 1 \in Nat
      BY <2>4, <2>5
    <3> HIDE DEF held
    <3> QED BY <2>5, <3>1, <3>2 DEF Released, LedgerShape
  <2>8. ledger.active <= MaxSubscriptions /\ ledger.history <= MaxHistory
    BY <2>1, <2>4, <2>5, <2>6, CapacityAssumption DEF LedgerOK, LedgerShape
  <2> HIDE DEF ledger, held
  <2> QED BY <2>1, <2>6, <2>7, <2>8 DEF LedgerOK
<1>7. /\ ledgers' \in [Ledgers -> LedgerShape]
      /\ \A h \in Ledgers \ {g} : ledgers'[h] = ledgers[h]
      /\ RequestsOK(answer', leases', ledgerOf')
      /\ \A h \in Ledgers : LedgerOK(h, ledgers'[h], answer', leases', ledgerOf')
  <2>1. ledgers \in [Ledgers -> LedgerShape] /\ g \in Ledgers
    BY <1>2 DEF IInv
  <2> HIDE DEF ledger, held, g
  <2> QED BY <1>3, <1>4, <1>5, <1>6, <2>1, DrainKeeps
<1>8. current' \in Ledgers \cup {NoLedger} /\ DroppedIdle(current)'
  <2>1. \A h \in Ledgers : h # g => Idle(ledgers'[h])
    BY <1>2, <1>7 DEF IInv, DroppedIdle
  <2> QED BY <1>2, <1>3, <2>1, DropKeeps
<1> QED BY <1>7, <1>8 DEF IInv

LEMMA StepCancel ==
    ASSUME IInv, NEW r \in Requests, Cancel(r)
    PROVE  IInv'
<1> DEFINE g == ledgerOf[r]
           ledger == [ledgers[g] EXCEPT !.queue = Splice(ledgers[g].queue, r)]
           answered == [answer EXCEPT ![r] = "rejected"]
<1>1. current \in Ledgers /\ g = current /\ answer[r] = "waiting"
  BY OnlyCurrent DEF Cancel, Waiting
<1>2. Drain(g, ledger, answered, leases) /\ DropIfIdle(g, g) /\ ledgerOf' = ledgerOf
  BY <1>1 DEF Cancel
<1>3. RequestsOK(answered, leases, ledgerOf)
  BY <1>1 DEF IInv, RequestsOK, Slots
<1>4. ASSUME NEW h \in Ledgers \ {g}
      PROVE  LedgerOK(h, ledgers[h], answered, leases, ledgerOf)
  <2>1. LedgerOK(h, ledgers[h], answer, leases, ledgerOf)
    BY DEF IInv
  <2>2. \A q \in Requests : ledgerOf[q] = h => answered[q] = answer[q]
    BY DEF IInv, RequestsOK
  <2> QED BY <2>1, <2>2 DEF LedgerOK
<1>5. LedgerOK(g, ledger, answered, leases, ledgerOf)
  <2>1. LedgerOK(g, ledgers[g], answer, leases, ledgerOf)
    BY <1>1 DEF IInv
  <2>2. /\ ledgers[g].queue \in Seq(Requests) /\ Injective(ledgers[g].queue)
        /\ r \in Queued(ledgers[g].queue)
    BY <1>1, <2>1 DEF LedgerOK, LedgerShape
  <2>3. /\ Splice(ledgers[g].queue, r) \in Seq(Requests)
        /\ Injective(Splice(ledgers[g].queue, r))
        /\ Queued(Splice(ledgers[g].queue, r)) = Queued(ledgers[g].queue) \ {r}
    BY <2>2, SpliceQueue
  <2>4. /\ ledger.queue = Splice(ledgers[g].queue, r)
        /\ ledger.active = ledgers[g].active /\ ledger.history = ledgers[g].history
        /\ ledger \in LedgerShape
    BY <2>1, <2>3 DEF LedgerOK, LedgerShape
  <2>5. \A q \in Requests : q \in Queued(ledger.queue) <=>
                               ledgerOf[q] = g /\ answered[q] = "waiting"
    BY <1>1, <2>1, <2>3, <2>4 DEF LedgerOK, IInv, RequestsOK
  <2> HIDE DEF ledger, answered, g
  <2> QED BY <2>1, <2>3, <2>4, <2>5 DEF LedgerOK
<1>6. /\ ledgers' \in [Ledgers -> LedgerShape]
      /\ \A h \in Ledgers \ {g} : ledgers'[h] = ledgers[h]
      /\ RequestsOK(answer', leases', ledgerOf')
      /\ \A h \in Ledgers : LedgerOK(h, ledgers'[h], answer', leases', ledgerOf')
  <2>1. ledgers \in [Ledgers -> LedgerShape] /\ g \in Ledgers
    BY <1>1 DEF IInv
  <2> HIDE DEF ledger, answered, g
  <2> QED BY <1>2, <1>3, <1>4, <1>5, <2>1, DrainKeeps
<1>7. current' \in Ledgers \cup {NoLedger} /\ DroppedIdle(current)'
  <2>1. \A h \in Ledgers : h # g => Idle(ledgers'[h])
    BY <1>1, <1>6 DEF IInv, DroppedIdle
  <2> QED BY <1>1, <1>2, <2>1, DropKeeps
<1> QED BY <1>6, <1>7 DEF IInv

LEMMA StepCancelQueued ==
    ASSUME IInv, NEW g \in Ledgers, CancelQueued(g)
    PROVE  IInv'
<1> DEFINE ledger == [ledgers[g] EXCEPT !.queue = <<>>]
           Gone == Queued(ledgers[g].queue)
<1>1. /\ current = g /\ DropIfIdle(g, g)
      /\ ledgers' = [ledgers EXCEPT ![g] = ledger]
      /\ answer' = [q \in Requests |-> IF q \in Gone THEN "rejected" ELSE answer[q]]
      /\ ledgerOf' = ledgerOf /\ leases' = leases
  BY DEF CancelQueued, Range, Queued
<1>2. LedgerOK(g, ledgers[g], answer, leases, ledgerOf)
  BY DEF IInv
<1>3. \A q \in Requests : q \in Gone <=> ledgerOf[q] = g /\ answer[q] = "waiting"
  BY <1>2 DEF LedgerOK
<1>4. ledger \in LedgerShape
  <2>1. ledgers[g] \in LedgerShape /\ <<>> \in Seq(Requests)
    BY <1>2 DEF LedgerOK
  <2> QED BY <2>1 DEF LedgerShape
<1>5. RequestsOK(answer', leases', ledgerOf')
  BY <1>1, <1>3 DEF IInv, RequestsOK, Slots
<1>6. ASSUME NEW h \in Ledgers PROVE LedgerOK(h, ledgers'[h], answer', leases', ledgerOf')
  <2>1. CASE h = g
    <3>1. /\ ledgers'[g] = ledger /\ ledger.queue = <<>>
          /\ ledger.active = ledgers[g].active /\ ledger.history = ledgers[g].history
      BY <1>1, <1>2 DEF IInv, LedgerOK, LedgerShape
    <3>2. Injective(<<>>) /\ Queued(<<>>) = {}
      BY DEF Injective, Queued
    <3>3. \A q \in Requests : ~(ledgerOf[q] = g /\ answer'[q] = "waiting")
      BY <1>1, <1>3
    <3> HIDE DEF ledger, Gone
    <3> QED BY <1>1, <1>2, <1>4, <2>1, <3>1, <3>2, <3>3 DEF LedgerOK
  <2>2. CASE h # g
    <3>1. ledgers'[h] = ledgers[h] /\ LedgerOK(h, ledgers[h], answer, leases, ledgerOf)
      BY <1>1, <2>2 DEF IInv
    <3>2. \A q \in Requests : ledgerOf[q] = h => answer'[q] = answer[q]
      BY <1>1, <1>3, <2>2
    <3> QED BY <1>1, <3>1, <3>2 DEF LedgerOK
  <2> QED BY <2>1, <2>2
<1>7. ledgers' \in [Ledgers -> LedgerShape]
  BY <1>1, <1>4 DEF IInv
<1>8. current' \in Ledgers \cup {NoLedger} /\ DroppedIdle(current)'
  <2>1. \A h \in Ledgers : h # g => Idle(ledgers'[h])
    BY <1>1 DEF IInv, DroppedIdle
  <2> QED BY <1>1, <2>1, DropKeeps
<1> QED BY <1>5, <1>6, <1>7, <1>8 DEF IInv

LEMMA StutterIInv == ASSUME IInv, UNCHANGED vars PROVE IInv'
<1>1. UNCHANGED <<ledgers, current, ledgerOf, answer, leases>>
  BY DEF vars
<1> QED BY <1>1 DEF IInv, DroppedIdle

(* The inductive invariant holds in every reachable state. *)
THEOREM Invariance == Spec => []IInv
<1>1. Init => IInv
  BY InitIInv
<1>2. IInv /\ [Next]_vars => IInv'
  <2> SUFFICES ASSUME IInv, [Next]_vars PROVE IInv'
    OBVIOUS
  <2>1. ASSUME NEW r \in Requests, AcquireTooWide(r) \/ AcquireRefused(r) PROVE IInv'
    BY <2>1, StepRefused
  <2>2. ASSUME NEW r \in Requests, Acquire(r) PROVE IInv'
    BY <2>2, StepAcquire
  <2>3. ASSUME NEW r \in Requests, NEW kind \in Kinds, Release(r, kind) PROVE IInv'
    BY <2>3, StepRelease
  <2>4. ASSUME NEW r \in Requests, Cancel(r) PROVE IInv'
    BY <2>4, StepCancel
  <2>5. ASSUME NEW g \in Ledgers, CancelQueued(g) PROVE IInv'
    BY <2>5, StepCancelQueued
  <2>6. CASE UNCHANGED vars
    BY <2>6, StutterIInv
  <2> QED BY <2>1, <2>2, <2>3, <2>4, <2>5, <2>6 DEF Next
<1> QED BY <1>1, <1>2, PTL DEF Spec

--------------------------------------------------------------------------------
(* The counters of every state object the relay has had are exact: no lease is *)
(* lost or given back twice, so capacity never leaks away.                     *)
THEOREM CountersExact == Spec => []LedgerExact
<1>1. IInv => LedgerExact
  <2>1. ASSUME NEW g \in Ledgers
        PROVE  HistoryOutOn(g, leases, ledgerOf) =
                 {s \in leases : ledgerOf[s[1]] = g /\ s[2] = "history"}
    BY DEF HistoryOutOn, OutOn
  <2> QED BY <2>1 DEF IInv, LedgerOK, LedgerExact, OutOn
<1> QED BY <1>1, Invariance, PTL

(* The slots out on the relay stay within its limits, however its state object *)
(* was dropped and made again.                                                *)
THEOREM CapacityHolds == Spec => []WithinCapacity
<1>1. IInv => WithinCapacity
  <2> SUFFICES ASSUME IInv PROVE WithinCapacity
    OBVIOUS
  <2>1. CASE leases = {}
    <3>1. {s \in leases : s[2] = "history"} = {}
      BY <2>1
    <3> QED BY <2>1, <3>1, FS_EmptySet, CapacityAssumption DEF WithinCapacity
  <2>2. CASE leases # {}
    <3>1. \A s \in leases : s[1] \in Requests
      BY DEF IInv, RequestsOK, Slots
    <3>2. \A s \in leases : current \in Ledgers /\ ledgerOf[s[1]] = current
      BY <3>1, OnlyCurrent
    <3>3. /\ current \in Ledgers
          /\ leases = OutOn(current, leases, ledgerOf)
          /\ {s \in leases : s[2] = "history"} = HistoryOutOn(current, leases, ledgerOf)
      BY <2>2, <3>2 DEF OutOn, HistoryOutOn
    <3>4. LedgerOK(current, ledgers[current], answer, leases, ledgerOf)
      BY <3>3 DEF IInv
    <3> QED BY <3>3, <3>4 DEF LedgerOK, WithinCapacity
  <2> QED BY <2>1, <2>2
<1> QED BY <1>1, Invariance, PTL

(* A reader whose promise is pending stands exactly once in the queue that the *)
(* next release on the relay drains.                                          *)
THEOREM NobodyIsForgotten == Spec => []NobodyForgotten
<1>1. IInv => NobodyForgotten
  <2> SUFFICES ASSUME IInv, NEW r \in Requests
               PROVE  Waiting(r) <=>
                        /\ current # NoLedger
                        /\ Cardinality({i \in DOMAIN ledgers[current].queue :
                                          ledgers[current].queue[i] = r}) = 1
    BY DEF NobodyForgotten
  <2> DEFINE Places == {i \in DOMAIN ledgers[current].queue : ledgers[current].queue[i] = r}
  <2>1. ASSUME current # NoLedger
        PROVE  /\ current \in Ledgers
               /\ LedgerOK(current, ledgers[current], answer, leases, ledgerOf)
    BY <2>1 DEF IInv
  <2>2. ASSUME Waiting(r) PROVE current # NoLedger /\ Cardinality(Places) = 1
    <3>1. current \in Ledgers /\ ledgerOf[r] = current /\ current # NoLedger
      BY <2>2, OnlyCurrent, LedgersAssumption
    <3>2. r \in Queued(ledgers[current].queue) /\ Injective(ledgers[current].queue)
      BY <2>1, <2>2, <3>1 DEF LedgerOK, Waiting
    <3>3. PICK i \in DOMAIN ledgers[current].queue : ledgers[current].queue[i] = r
      BY <3>2 DEF Queued
    <3>4. Places = {i}
      BY <3>2, <3>3 DEF Injective
    <3> QED BY <3>1, <3>4, FS_Singleton
  <2>3. ASSUME current # NoLedger, Cardinality(Places) = 1 PROVE Waiting(r)
    <3>1. Places # {}
      BY <2>3, FS_EmptySet
    <3>2. r \in Queued(ledgers[current].queue)
      BY <3>1 DEF Queued
    <3> QED BY <2>1, <2>3, <3>2 DEF LedgerOK, Waiting
  <2> QED BY <2>2, <2>3
<1> QED BY <1>1, Invariance, PTL

--------------------------------------------------------------------------------
(* The order of the queue.  Of two readers in it, drain never grants the later *)
(* one while it leaves the earlier, and it leaves nobody at the front who fits. *)

(* The reader left at the front is the one that drain stopped at. *)
LEMMA FrontDoesNotFit ==
    ASSUME NEW ledger \in LedgerShape, Drained(ledger).queue # <<>>
    PROVE  ~Fits(Drained(ledger), 1)
<1> DEFINE N == Admissible(ledger)
           Q == ledger.queue
           rest == SubSeq(Q, N + 1, Len(Q))
           F == First(Q, N)
<1>1. Q \in Seq(Requests) /\ N \in 0..Len(Q) /\ Len(Q) \in Nat
  BY AdmissibleFact DEF LedgerShape
<1>2. /\ Drained(ledger).queue = rest
      /\ Drained(ledger).active = ledger.active + Cardinality(Slots(F))
      /\ Drained(ledger).history = ledger.history + Cardinality(HistorySlots(F))
  BY DEF Drained
<1>3. N < Len(Q) /\ rest[1] = Q[N + 1]
  BY <1>1, <1>2
<1>4. ~Fits(ledger, N + 1)
  BY <1>1, <1>3, AdmissibleFact
<1>5. /\ Cardinality(Slots(First(rest, 1 - 1))) = 0
      /\ Cardinality(HistorySlots(First(rest, 1 - 1))) = 0
  <2>1. Slots(First(rest, 1 - 1)) = {} /\ HistorySlots(First(rest, 1 - 1)) = {}
    BY DEF First, Slots, HistorySlots
  <2> QED BY <2>1, FS_EmptySet
<1>6. /\ ledger.active + Cardinality(Slots(F)) \in Nat
      /\ ledger.history + Cardinality(HistorySlots(F)) \in Nat
  <2>1. F \in SUBSET Requests
    BY <1>1, FirstGrows
  <2>2. Cardinality(Slots(F)) \in Nat /\ Cardinality(HistorySlots(F)) \in Nat
    BY <2>1, SlotsFinite, FS_CardinalityType
  <2> QED BY <2>2 DEF LedgerShape
<1>7. (N + 1) - 1 = N
  BY <1>1
<1> HIDE DEF N, rest, F
<1>8. \/ ~(ledger.active + Cardinality(Slots(F)) + Weight(Q[N + 1]) <= MaxSubscriptions)
      \/ /\ "history" \in Wants[Q[N + 1]]
         /\ ~(ledger.history + Cardinality(HistorySlots(F)) < MaxHistory)
  <2> DEFINE n == N + 1
  <2>1. n - 1 = N
    BY <1>7
  <2> HIDE DEF n
  <2>2. First(Q, n - 1) = F /\ ~Fits(ledger, n)
    BY <1>4, <2>1 DEF F, n
  <2>3. \/ ~(ledger.active + Cardinality(Slots(F)) + Weight(Q[n]) <= MaxSubscriptions)
        \/ /\ "history" \in Wants[Q[n]]
           /\ ~(ledger.history + Cardinality(HistorySlots(F)) < MaxHistory)
    BY <2>2 DEF Fits
  <2> QED BY <2>3 DEF n
<1> QED BY <1>2, <1>3, <1>5, <1>6, <1>8 DEF Fits

(* What drain does to the order, the answers and the length of a queue. *)
LEMMA DrainInOrder ==
    ASSUME NEW g \in Ledgers, ledgers \in [Ledgers -> LedgerShape],
           NEW ledger \in LedgerShape, Injective(ledger.queue),
           NEW answered, NEW held, Drain(g, ledger, answered, held)
    PROVE  /\ ledgers'[g].queue # <<>> => ~Fits(ledgers'[g], 1)
           /\ Len(ledgers'[g].queue) <= Len(ledger.queue)
           /\ \A h \in Ledgers \ {g} : ledgers'[h] = ledgers[h]
           /\ \A r, q \in Requests :
                 Precedes(ledger.queue, r, q) /\ answer'[r] # "granted"
                 => answer'[q] = answered[q] /\ Precedes(ledgers'[g].queue, r, q)
           /\ \A r \in Requests :
                 /\ answer'[r] \in {"granted", answered[r]}
                 /\ r \notin Queued(ledger.queue) => answer'[r] = answered[r]
<1> DEFINE N == Admissible(ledger)
           Q == ledger.queue
           rest == SubSeq(Q, N + 1, Len(Q))
           F == First(Q, N)
<1>1. Q \in Seq(Requests) /\ N \in 0..Len(Q) /\ Len(Q) \in Nat /\ DOMAIN Q = 1..Len(Q)
  BY AdmissibleFact DEF LedgerShape
<1>2. /\ ledgers'[g] = Drained(ledger)
      /\ \A h \in Ledgers \ {g} : ledgers'[h] = ledgers[h]
      /\ answer' = [r \in Requests |-> IF r \in F THEN "granted" ELSE answered[r]]
  BY DEF Drain
<1>3. Drained(ledger).queue = rest
  BY DEF Drained
<1>4. /\ Len(rest) <= Len(Q) /\ DOMAIN rest = 1..(Len(Q) - N)
      /\ \A i \in 1..(Len(Q) - N) : rest[i] = Q[N + i]
  BY <1>1
<1>5. ASSUME NEW r \in Requests, NEW q \in Requests,
             Precedes(Q, r, q), answer'[r] # "granted"
      PROVE  answer'[q] = answered[q] /\ Precedes(rest, r, q)
  <2>1. PICK i \in DOMAIN Q, j \in DOMAIN Q : i < j /\ Q[i] = r /\ Q[j] = q
    BY <1>5 DEF Precedes
  <2>2. i > N
    BY <1>1, <1>2, <1>5, <2>1 DEF First
  <2>3. \A k \in 1..N : k \in DOMAIN Q /\ k # j
    BY <1>1, <2>1, <2>2
  <2>4. q \notin F
    BY <2>1, <2>3 DEF First, Injective
  <2>5. /\ i - N \in DOMAIN rest /\ j - N \in DOMAIN rest /\ i - N < j - N
        /\ N + (i - N) = i /\ N + (j - N) = j
    <3> HIDE DEF N, rest
    <3> QED BY <1>1, <1>4, <2>1, <2>2
  <2>6. rest[i - N] = r /\ rest[j - N] = q
    BY <1>4, <2>1, <2>5
  <2> QED BY <1>2, <2>4, <2>5, <2>6 DEF Precedes
<1>6. Drained(ledger).queue # <<>> => ~Fits(Drained(ledger), 1)
  BY FrontDoesNotFit
<1>7. \A r \in Requests :
         /\ answer'[r] \in {"granted", answered[r]}
         /\ r \notin Queued(Q) => answer'[r] = answered[r]
  <2>1. F \subseteq Queued(Q)
    BY <1>1, RestOfQueue
  <2> QED BY <1>2, <2>1
<1> HIDE DEF N, rest, F
<1> QED BY <1>2, <1>3, <1>4, <1>5, <1>6, <1>7

(* A reader that leaves the queue leaves the others in their order. *)
LEMMA SpliceInOrder ==
    ASSUME NEW queue \in Seq(Requests), NEW c \in Queued(queue),
           NEW r, NEW q, r # c, q # c, Precedes(queue, r, q)
    PROVE  Precedes(Splice(queue, c), r, q)
<1> DEFINE L == Len(queue)
           at == CHOOSE i \in DOMAIN queue : queue[i] = c
           New(i) == IF i < at THEN i ELSE i - 1
           rest == Splice(queue, c)
<1>1. at \in DOMAIN queue /\ queue[at] = c
  BY DEF Queued
<1>2. L \in Nat /\ DOMAIN queue = 1..L /\ at \in 1..L
  BY <1>1
<1> HIDE DEF at
<1>3. PICK i \in DOMAIN queue, j \in DOMAIN queue : i < j /\ queue[i] = r /\ queue[j] = q
  BY DEF Precedes
<1>4. i # at /\ j # at
  BY <1>1, <1>3
<1>5. rest = [k \in 1..(L - 1) |-> queue[IF k < at THEN k ELSE k + 1]]
  BY DEF Splice, at
<1>6. ASSUME NEW k \in 1..L, k # at
      PROVE  New(k) \in 1..(L - 1) /\ rest[New(k)] = queue[k]
  <2>1. CASE k < at
    BY <1>2, <1>5, <2>1
  <2>2. CASE k > at
    BY <1>2, <1>5, <2>2
  <2> QED BY <1>2, <1>6, <2>1, <2>2
<1>7. New(i) < New(j)
  BY <1>2, <1>3, <1>4
<1>8. DOMAIN rest = 1..(L - 1)
  BY <1>5
<1> HIDE DEF rest, New
<1> QED BY <1>2, <1>3, <1>4, <1>6, <1>7, <1>8 DEF Precedes, rest

LEMMA AppendInOrder ==
    ASSUME NEW queue \in Seq(Requests), NEW c, NEW r \in Queued(queue)
    PROVE  /\ Precedes(Append(queue, c), r, c)
           /\ \A q : Precedes(queue, r, q) => Precedes(Append(queue, c), r, q)
<1> DEFINE L == Len(queue)
           long == Append(queue, c)
<1>1. /\ L \in Nat /\ DOMAIN queue = 1..L /\ DOMAIN long = 1..(L + 1)
      /\ \A i \in 1..L : long[i] = queue[i]
      /\ long[L + 1] = c
  OBVIOUS
<1> HIDE DEF long
<1>2. PICK i \in DOMAIN queue : queue[i] = r
  BY DEF Queued
<1>3. i \in DOMAIN long /\ L + 1 \in DOMAIN long /\ i < L + 1 /\ long[i] = r
  BY <1>1, <1>2
<1>4. Precedes(long, r, c)
  BY <1>1, <1>3 DEF Precedes
<1>5. \A k \in DOMAIN queue : k \in DOMAIN long /\ long[k] = queue[k]
  BY <1>1
<1>6. \A q : Precedes(queue, r, q) => Precedes(long, r, q)
  BY <1>5 DEF Precedes
<1> QED BY <1>4, <1>6 DEF long

(* Who stands in a queue waits, and nobody else does. *)
LEMMA QueuedWaits ==
    ASSUME IInv, NEW g \in Ledgers
    PROVE  /\ ledgers[g] \in LedgerShape /\ ledgers[g].queue \in Seq(Requests)
           /\ Injective(ledgers[g].queue)
           /\ Range(ledgers[g].queue) = Queued(ledgers[g].queue)
           /\ \A r \in Requests : r \in Queued(ledgers[g].queue)
                                     <=> ledgerOf[r] = g /\ answer[r] = "waiting"
           /\ \A r, q : Precedes(ledgers[g].queue, r, q)
                 => r \in Queued(ledgers[g].queue) /\ q \in Queued(ledgers[g].queue)
BY DEF IInv, LedgerOK, LedgerShape, Range, Queued, Precedes

(* The drains of a step: which queue, with whom added or taken out. *)
DrainsAfter(g, ledger, answered, held) ==
    /\ g \in Ledgers /\ ledger \in LedgerShape /\ Injective(ledger.queue)
    /\ Drain(g, ledger, answered, held)

LEMMA AcquireDrains ==
    ASSUME IInv, NEW c \in Requests, Acquire(c)
    PROVE  /\ answer[c] = "none"
           /\ \E g \in Ledgers :
                 /\ current # NoLedger => g = current
                 /\ Len(ledgers[g].queue) < MaxQueued
                 /\ DrainsAfter(g, [ledgers[g] EXCEPT !.queue = Append(ledgers[g].queue, c)],
                                [answer EXCEPT ![c] = "waiting"], leases)
<1>1. PICK g \in Ledgers : EnqueueOn(g, c) /\ (current # NoLedger => g = current)
  BY LedgersAssumption DEF Acquire, IInv
<1> DEFINE queue == ledgers[g].queue
<1>2. answer[c] = "none" /\ Len(queue) < MaxQueued
  BY <1>1 DEF Acquire, EnqueueOn
<1>3. queue \in Seq(Requests) /\ Injective(queue) /\ c \in Requests \ Queued(queue)
  BY <1>2, QueuedWaits
<1>4. Append(queue, c) \in Seq(Requests) /\ Injective(Append(queue, c))
  BY <1>3, AppendQueue
<1>5. ledgers[g] \in LedgerShape
  BY QueuedWaits
<1>6. /\ [ledgers[g] EXCEPT !.queue = Append(queue, c)] \in LedgerShape
      /\ [ledgers[g] EXCEPT !.queue = Append(queue, c)].queue = Append(queue, c)
  BY <1>4, <1>5 DEF LedgerShape
<1>7. Drain(g, [ledgers[g] EXCEPT !.queue = Append(queue, c)],
               [answer EXCEPT ![c] = "waiting"], leases)
  BY <1>1 DEF EnqueueOn, Enqueue
<1> HIDE DEF queue
<1> QED BY <1>1, <1>2, <1>4, <1>6, <1>7 DEF DrainsAfter, queue

LEMMA ReleaseDrains ==
    ASSUME IInv, NEW c \in Requests, NEW kind \in Kinds, Release(c, kind)
    PROVE  \E g \in Ledgers : \E ledger :
              /\ g = current /\ ledger.queue = ledgers[g].queue
              /\ DrainsAfter(g, ledger, answer, leases \ {<<c, kind>>})
<1> DEFINE g == ledgerOf[c]
           ledger == Released(ledgers[g], kind)
<1>1. g \in Ledgers /\ g = current
  <2>1. <<c, kind>> \in leases /\ <<c, kind>>[1] = c
    BY DEF Release
  <2> QED BY <2>1, OnlyCurrent
<1>2. LedgerOK(g, ledgers[g], answer, leases, ledgerOf)
  BY <1>1 DEF IInv
<1>3. IInv'
  BY StepRelease
<1>4. ledgers[g] \in LedgerShape /\ Injective(ledgers[g].queue)
  BY <1>2 DEF LedgerOK
<1>5. ledger.queue = ledgers[g].queue /\ ledger \in LedgerShape
  <2>1. /\ <<c, kind>> \in OutOn(g, leases, ledgerOf)
        /\ kind = "history" => <<c, kind>> \in HistoryOutOn(g, leases, ledgerOf)
    BY DEF Release, OutOn, HistoryOutOn
  <2>2. IsFiniteSet(OutOn(g, leases, ledgerOf)) /\ IsFiniteSet(HistoryOutOn(g, leases, ledgerOf))
    <3>1. OutOn(g, leases, ledgerOf) \in SUBSET Slots(Requests)
      BY DEF IInv, RequestsOK, OutOn
    <3>2. HistoryOutOn(g, leases, ledgerOf) \in SUBSET Slots(Requests)
      BY <3>1 DEF HistoryOutOn
    <3> QED BY <3>1, <3>2, SlotsFinite, FS_Subset
  <2>3. /\ ledgers[g].active = Cardinality(OutOn(g, leases, ledgerOf))
        /\ ledgers[g].history = Cardinality(HistoryOutOn(g, leases, ledgerOf))
    BY <1>2 DEF LedgerOK
  <2>4. ledgers[g].active # 0 /\ (kind = "history" => ledgers[g].history # 0)
    BY <2>1, <2>2, <2>3, FS_EmptySet
  <2>5. /\ ledgers[g].active \in Nat /\ ledgers[g].history \in Nat
        /\ ledgers[g].queue \in Seq(Requests)
    BY <1>4 DEF LedgerShape
  <2>6. ledgers[g].active - 1 \in Nat /\ (kind = "history" => ledgers[g].history - 1 \in Nat)
    BY <2>4, <2>5
  <2> QED BY <1>4, <2>5, <2>6 DEF Released, LedgerShape
<1>6. Drain(g, ledger, answer, leases \ {<<c, kind>>})
  BY DEF Release
<1> HIDE DEF ledger, g
<1> QED BY <1>1, <1>4, <1>5, <1>6 DEF DrainsAfter

LEMMA CancelDrains ==
    ASSUME IInv, NEW c \in Requests, Cancel(c)
    PROVE  /\ answer[c] = "waiting"
           /\ \E g \in Ledgers :
                 /\ g = current /\ c \in Queued(ledgers[g].queue)
                 /\ DrainsAfter(g, [ledgers[g] EXCEPT !.queue = Splice(ledgers[g].queue, c)],
                                [answer EXCEPT ![c] = "rejected"], leases)
<1> DEFINE g == ledgerOf[c]
           queue == ledgers[g].queue
<1>1. g \in Ledgers /\ g = current /\ answer[c] = "waiting"
  BY OnlyCurrent DEF Cancel, Waiting
<1>2. queue \in Seq(Requests) /\ Injective(queue) /\ c \in Queued(queue)
  BY <1>1, QueuedWaits
<1>3. Splice(queue, c) \in Seq(Requests) /\ Injective(Splice(queue, c))
  BY <1>2, SpliceQueue
<1>4. ledgers[g] \in LedgerShape
  BY <1>1, QueuedWaits
<1>5. /\ [ledgers[g] EXCEPT !.queue = Splice(queue, c)] \in LedgerShape
      /\ [ledgers[g] EXCEPT !.queue = Splice(queue, c)].queue = Splice(queue, c)
  BY <1>3, <1>4 DEF LedgerShape
<1>6. Drain(g, [ledgers[g] EXCEPT !.queue = Splice(queue, c)],
               [answer EXCEPT ![c] = "rejected"], leases)
  BY DEF Cancel
<1> HIDE DEF queue, g
<1> QED BY <1>1, <1>2, <1>3, <1>5, <1>6 DEF DrainsAfter, queue

(* A step that is no drain: a refusal, or the relay's disconnection. *)
LEMMA NoDrain ==
    ASSUME IInv, [Next]_vars
    PROVE  \/ \E c \in Requests : Acquire(c) \/ Cancel(c)
           \/ \E c \in Requests, kind \in Kinds : Release(c, kind)
           \/ \E g \in Ledgers : CancelQueued(g)
           \/ /\ ledgers' = ledgers /\ leases' = leases
              /\ \A r \in Requests :
                    answer'[r] = answer[r] \/ (answer[r] = "none" /\ answer'[r] = "rejected")
<1>1. ASSUME NEW c \in Requests, AcquireTooWide(c) \/ AcquireRefused(c)
      PROVE  /\ ledgers' = ledgers /\ leases' = leases
             /\ \A r \in Requests :
                   answer'[r] = answer[r] \/ (answer[r] = "none" /\ answer'[r] = "rejected")
  <2>1. answer \in [Requests -> {"none", "waiting", "granted", "rejected"}]
    BY DEF IInv, RequestsOK
  <2>2. /\ answer[c] = "none" /\ answer' = [answer EXCEPT ![c] = "rejected"]
        /\ ledgers' = ledgers /\ leases' = leases
    BY <1>1 DEF AcquireTooWide, AcquireRefused
  <2>3. ASSUME NEW r \in Requests
        PROVE  answer'[r] = answer[r] \/ (answer[r] = "none" /\ answer'[r] = "rejected")
    <3>1. CASE r = c
      BY <2>1, <2>2, <3>1
    <3>2. CASE r # c
      BY <2>1, <2>2, <3>2
    <3> QED BY <3>1, <3>2
  <2> QED BY <2>2, <2>3
<1>2. ASSUME UNCHANGED vars
      PROVE  /\ ledgers' = ledgers /\ leases' = leases
             /\ \A r \in Requests : answer'[r] = answer[r]
  BY <1>2 DEF vars
<1>3. CASE Next
  <2>1. CASE \E c \in Requests : AcquireTooWide(c) \/ AcquireRefused(c)
    BY <1>1, <2>1
  <2> QED BY <1>3, <2>1 DEF Next
<1>4. CASE UNCHANGED vars
  BY <1>2, <1>4
<1> QED BY <1>3, <1>4

(* The reader at the front does not fit, and a queue is never too long. *)
QueuesOK ==
    /\ NoIdleCapacity
    /\ \A g \in Ledgers : Len(ledgers[g].queue) <= MaxQueued

LEMMA InitQueues == Init => QueuesOK
BY CapacityAssumption DEF Init, EmptyLedger, QueuesOK, NoIdleCapacity

LEMMA DrainQueues ==
    ASSUME IInv, QueuesOK, NEW g, NEW ledger, NEW answered, NEW held,
           DrainsAfter(g, ledger, answered, held), Len(ledger.queue) <= MaxQueued
    PROVE  QueuesOK'
<1>1. /\ ledgers'[g].queue # <<>> => ~Fits(ledgers'[g], 1)
      /\ Len(ledgers'[g].queue) <= Len(ledger.queue)
      /\ \A h \in Ledgers \ {g} : ledgers'[h] = ledgers[h]
  BY DrainInOrder DEF DrainsAfter, IInv
<1>2. Len(ledger.queue) \in Nat /\ g \in Ledgers
  BY DEF DrainsAfter, LedgerShape
<1>3. Len(ledgers'[g].queue) \in Nat
  <2>1. ledgers'[g] = Drained(ledger) /\ ledger \in LedgerShape
    BY DEF DrainsAfter, Drain, IInv
  <2> QED BY <2>1, AdmissibleFact DEF Drained, LedgerShape
<1>4. Len(ledgers'[g].queue) <= MaxQueued
  BY <1>1, <1>2, <1>3, CapacityAssumption
<1>5. ASSUME NEW h \in Ledgers
      PROVE  /\ ledgers'[h].queue # <<>> => ~Fits(ledgers'[h], 1)
             /\ Len(ledgers'[h].queue) <= MaxQueued
  BY <1>1, <1>4 DEF QueuesOK, NoIdleCapacity
<1> QED BY <1>5 DEF QueuesOK, NoIdleCapacity, Fits

LEMMA NextQueues ==
    ASSUME IInv, QueuesOK, [Next]_vars
    PROVE  QueuesOK'
<1>1. ASSUME NEW c \in Requests, Acquire(c) PROVE QueuesOK'
  <2>1. PICK g \in Ledgers :
           /\ Len(ledgers[g].queue) < MaxQueued
           /\ DrainsAfter(g, [ledgers[g] EXCEPT !.queue = Append(ledgers[g].queue, c)],
                          [answer EXCEPT ![c] = "waiting"], leases)
    BY <1>1, AcquireDrains
  <2> DEFINE ledger == [ledgers[g] EXCEPT !.queue = Append(ledgers[g].queue, c)]
  <2>2. ledgers[g] \in LedgerShape /\ ledgers[g].queue \in Seq(Requests)
    BY QueuedWaits
  <2>3. ledger.queue = Append(ledgers[g].queue, c)
    BY <2>2 DEF LedgerShape
  <2>4. Len(ledger.queue) <= MaxQueued
    BY <2>1, <2>2, <2>3, CapacityAssumption
  <2> HIDE DEF ledger
  <2> QED BY <2>1, <2>4, DrainQueues DEF ledger
<1>2. ASSUME NEW c \in Requests, NEW kind \in Kinds, Release(c, kind) PROVE QueuesOK'
  <2>1. PICK g \in Ledgers : \E ledger :
           /\ ledger.queue = ledgers[g].queue
           /\ DrainsAfter(g, ledger, answer, leases \ {<<c, kind>>})
    BY <1>2, ReleaseDrains
  <2>2. PICK ledger :
           /\ ledger.queue = ledgers[g].queue
           /\ DrainsAfter(g, ledger, answer, leases \ {<<c, kind>>})
    BY <2>1
  <2>3. Len(ledger.queue) <= MaxQueued
    BY <2>2 DEF QueuesOK
  <2> QED BY <2>2, <2>3, DrainQueues
<1>3. ASSUME NEW c \in Requests, Cancel(c) PROVE QueuesOK'
  <2>1. PICK g \in Ledgers :
           /\ c \in Queued(ledgers[g].queue)
           /\ DrainsAfter(g, [ledgers[g] EXCEPT !.queue = Splice(ledgers[g].queue, c)],
                          [answer EXCEPT ![c] = "rejected"], leases)
    BY <1>3, CancelDrains
  <2> DEFINE ledger == [ledgers[g] EXCEPT !.queue = Splice(ledgers[g].queue, c)]
             queue == ledgers[g].queue
  <2>2. /\ ledgers[g] \in LedgerShape /\ queue \in Seq(Requests)
        /\ Len(queue) <= MaxQueued /\ Injective(queue)
    BY QueuedWaits DEF QueuesOK
  <2>3. ledger.queue = Splice(queue, c)
    BY <2>2 DEF LedgerShape
  <2>4. Len(queue) \in Nat /\ Len(queue) >= 1
    BY <2>1, <2>2 DEF Queued
  <2>5. DOMAIN Splice(queue, c) = 1..(Len(queue) - 1) /\ Splice(queue, c) \in Seq(Requests)
    BY <2>1, <2>2, SpliceQueue DEF Splice
  <2> HIDE DEF queue
  <2>6. Len(Splice(queue, c)) = Len(queue) - 1
    BY <2>4, <2>5
  <2>7. Len(ledger.queue) <= MaxQueued
    BY <2>2, <2>3, <2>4, <2>6, CapacityAssumption
  <2> HIDE DEF ledger
  <2> QED BY <2>1, <2>7, DrainQueues DEF ledger
<1>4. ASSUME NEW g \in Ledgers, CancelQueued(g) PROVE QueuesOK'
  <2>1. /\ ledgers'[g].queue = <<>>
        /\ \A h \in Ledgers \ {g} : ledgers'[h] = ledgers[h]
    <3>1. ledgers' = [ledgers EXCEPT ![g] = [ledgers[g] EXCEPT !.queue = <<>>]]
      BY <1>4 DEF CancelQueued
    <3>2. ledgers[g] \in LedgerShape /\ g \in DOMAIN ledgers
      BY DEF IInv
    <3> QED BY <3>1, <3>2 DEF LedgerShape
  <2>2. ASSUME NEW h \in Ledgers
        PROVE  /\ ledgers'[h].queue # <<>> => ~Fits(ledgers'[h], 1)
               /\ Len(ledgers'[h].queue) <= MaxQueued
    BY <2>1, CapacityAssumption DEF QueuesOK, NoIdleCapacity
  <2> QED BY <2>2 DEF QueuesOK, NoIdleCapacity, Fits
<1>5. ASSUME ledgers' = ledgers PROVE QueuesOK'
  BY <1>5 DEF QueuesOK, NoIdleCapacity, Fits
<1> QED BY <1>1, <1>2, <1>3, <1>4, <1>5, NoDrain

LEMMA InTurn == IInv /\ [Next]_vars => InTurnStep
<1> SUFFICES ASSUME IInv, [Next]_vars,
                    NEW g \in Ledgers, NEW r \in Requests, NEW q \in Requests,
                    r \in Range(ledgers[g].queue),
                    answer[q] = "none" \/ Precedes(ledgers[g].queue, r, q),
                    answer'[r] = "waiting"
             PROVE  /\ answer'[q] # "granted"
                    /\ answer'[q] = "waiting" => Precedes(ledgers'[g].queue, r, q)
  BY DEF InTurnStep
<1> DEFINE Kept == /\ answer'[q] # "granted"
                   /\ answer'[q] = "waiting" => Precedes(ledgers'[g].queue, r, q)
<1>1. /\ ledgers[g].queue \in Seq(Requests) /\ r \in Queued(ledgers[g].queue)
      /\ Injective(ledgers[g].queue) /\ answer[r] = "waiting"
      /\ Precedes(ledgers[g].queue, r, q) => answer[q] = "waiting"
      /\ answer[q] = "none" => q \notin Queued(ledgers[g].queue)
  <2>1. r \in Queued(ledgers[g].queue)
    BY QueuedWaits
  <2>2. Precedes(ledgers[g].queue, r, q) => q \in Queued(ledgers[g].queue)
    BY QueuedWaits
  <2>3. \A p \in Requests : p \in Queued(ledgers[g].queue) => answer[p] = "waiting"
    BY QueuedWaits
  <2>4. ledgers[g].queue \in Seq(Requests) /\ Injective(ledgers[g].queue)
    BY QueuedWaits
  <2> QED BY <2>1, <2>2, <2>3, <2>4
<1>2. ledgers \in [Ledgers -> LedgerShape] /\ answer \in [Requests -> {"none", "waiting", "granted", "rejected"}]
  BY DEF IInv, RequestsOK
<1>3. current = g /\ current # NoLedger
  BY <1>1, OnlyCurrent, QueuedWaits, LedgersAssumption DEF Waiting
(* A drain that starts with the one reader ahead of the other keeps them so, and *)
(* one who is not in the queue has no part in it.                               *)
<1>4. ASSUME NEW ledger, NEW answered, NEW held, DrainsAfter(g, ledger, answered, held),
             answered[q] # "granted",
             \/ Precedes(ledger.queue, r, q)
             \/ q \notin Queued(ledger.queue) /\ answered[q] # "waiting"
      PROVE  Kept
  <2>1. CASE Precedes(ledger.queue, r, q)
    BY <1>2, <1>4, <2>1, DrainInOrder DEF DrainsAfter
  <2>2. CASE q \notin Queued(ledger.queue) /\ answered[q] # "waiting"
    BY <1>2, <1>4, <2>2, DrainInOrder DEF DrainsAfter
  <2> QED BY <1>4, <2>1, <2>2
<1> HIDE DEF Kept
<1>5. ASSUME NEW c \in Requests, Acquire(c) PROVE Kept
  <2> DEFINE ledger == [ledgers[g] EXCEPT !.queue = Append(ledgers[g].queue, c)]
             answered == [answer EXCEPT ![c] = "waiting"]
  <2>1. answer[c] = "none" /\ DrainsAfter(g, ledger, answered, leases)
    BY <1>3, <1>5, AcquireDrains
  <2>2. ledger.queue = Append(ledgers[g].queue, c)
    BY QueuedWaits DEF LedgerShape
  <2>3. /\ Precedes(ledger.queue, r, c)
        /\ Precedes(ledgers[g].queue, r, q) => Precedes(ledger.queue, r, q)
    <3> DEFINE queue == ledgers[g].queue
    <3>1. queue \in Seq(Requests) /\ r \in Queued(queue) /\ ledger.queue = Append(queue, c)
      BY <1>1, <2>2
    <3> HIDE DEF queue, ledger
    <3>2. /\ Precedes(Append(queue, c), r, c)
          /\ Precedes(queue, r, q) => Precedes(Append(queue, c), r, q)
      BY <3>1, AppendInOrder
    <3> QED BY <3>1, <3>2 DEF queue
  <2>4. Queued(ledger.queue) = Queued(ledgers[g].queue) \cup {c}
    <3>1. c \in Requests \ Queued(ledgers[g].queue)
      BY <2>1, QueuedWaits
    <3> QED BY <1>1, <2>2, <3>1, AppendQueue
  <2>5. answered[q] = IF q = c THEN "waiting" ELSE answer[q]
    BY <1>2
  <2> HIDE DEF ledger, answered
  <2>6. answered[q] # "granted" /\ (answer[q] = "none" /\ q # c => answered[q] # "waiting")
    BY <1>1, <2>5
  <2>7. \/ Precedes(ledger.queue, r, q)
        \/ q \notin Queued(ledger.queue) /\ answered[q] # "waiting"
    BY <1>1, <2>3, <2>4, <2>6
  <2> QED BY <1>4, <2>1, <2>6, <2>7
<1>6. ASSUME NEW c \in Requests, NEW kind \in Kinds, Release(c, kind) PROVE Kept
  <2>1. PICK ledger :
           /\ ledger.queue = ledgers[g].queue
           /\ DrainsAfter(g, ledger, answer, leases \ {<<c, kind>>})
    BY <1>3, <1>6, ReleaseDrains
  <2>2. /\ answer[q] # "granted"
        /\ \/ Precedes(ledger.queue, r, q)
           \/ q \notin Queued(ledger.queue) /\ answer[q] # "waiting"
    BY <1>1, <2>1
  <2> HIDE DEF Kept
  <2> QED BY <1>4, <2>1, <2>2
<1>7. ASSUME NEW c \in Requests, Cancel(c) PROVE Kept
  <2> DEFINE ledger == [ledgers[g] EXCEPT !.queue = Splice(ledgers[g].queue, c)]
             answered == [answer EXCEPT ![c] = "rejected"]
  <2>1. c \in Queued(ledgers[g].queue) /\ DrainsAfter(g, ledger, answered, leases)
    BY <1>3, <1>7, CancelDrains
  <2>2. ledger.queue = Splice(ledgers[g].queue, c)
    BY QueuedWaits DEF LedgerShape
  <2>3. Queued(ledger.queue) = Queued(ledgers[g].queue) \ {c}
    BY <1>1, <2>1, <2>2, SpliceQueue
  <2>4. \A p \in Requests : answered[p] = IF p = c THEN "rejected" ELSE answer[p]
    BY <1>2
  <2> HIDE DEF ledger, answered
  <2>5. r # c
    <3>1. answer'[r] \in {"granted", answered[r]}
      BY <1>2, <2>1, DrainInOrder DEF DrainsAfter
    <3> QED BY <2>4, <3>1
  <2>6. CASE q = c
    BY <1>4, <2>1, <2>3, <2>4, <2>6
  <2>7. CASE q # c
    <3>1. Precedes(ledgers[g].queue, r, q) => Precedes(ledger.queue, r, q)
      BY <1>1, <2>1, <2>2, <2>5, <2>7, SpliceInOrder
    <3>2. answered[q] = answer[q]
      BY <2>4, <2>7
    <3>3. /\ answered[q] # "granted"
          /\ \/ Precedes(ledger.queue, r, q)
             \/ q \notin Queued(ledger.queue) /\ answered[q] # "waiting"
      BY <1>1, <2>3, <3>1, <3>2
    <3> QED BY <1>4, <2>1, <3>3
  <2> QED BY <2>6, <2>7
<1>8. ASSUME NEW h \in Ledgers, CancelQueued(h) PROVE FALSE
  <2>1. h = g /\ answer' = [p \in Requests |-> IF p \in Range(ledgers[g].queue)
                                               THEN "rejected" ELSE answer[p]]
    BY <1>3, <1>8 DEF CancelQueued
  <2> QED BY <2>1
<1>9. ASSUME ledgers' = ledgers,
             answer'[q] = answer[q] \/ (answer[q] = "none" /\ answer'[q] = "rejected")
      PROVE  Kept
  BY <1>1, <1>9 DEF Kept
<1> QED BY <1>5, <1>6, <1>7, <1>8, <1>9, NoDrain DEF Kept

LEMMA Disconnect == IInv /\ [Next]_vars => DisconnectAdmitsNobodyStep
<1> SUFFICES ASSUME IInv, [Next]_vars, NEW r \in Requests, NEW q \in Requests,
                    r # q, answer[r] = "waiting", answer[q] = "waiting",
                    answer'[r] = "rejected", answer'[q] = "rejected"
             PROVE  leases' = leases
  BY DEF DisconnectAdmitsNobodyStep, Waiting
<1>1. ledgers \in [Ledgers -> LedgerShape] /\ answer \in [Requests -> {"none", "waiting", "granted", "rejected"}]
  BY DEF IInv, RequestsOK
(* A drain rejects nobody, so both were rejected before it. *)
<1>2. ASSUME NEW g, NEW ledger, NEW answered, NEW held, DrainsAfter(g, ledger, answered, held)
      PROVE  answered[r] = "rejected" /\ answered[q] = "rejected"
  <2>1. answer'[r] \in {"granted", answered[r]} /\ answer'[q] \in {"granted", answered[q]}
    BY <1>1, <1>2, DrainInOrder DEF DrainsAfter
  <2> QED BY <2>1
<1>3. ASSUME NEW c \in Requests, Acquire(c) PROVE FALSE
  <2>1. [answer EXCEPT ![c] = "waiting"][r] = "rejected"
    BY <1>2, <1>3, AcquireDrains
  <2> QED BY <1>1, <2>1
<1>4. ASSUME NEW c \in Requests, Cancel(c) PROVE FALSE
  <2>1. /\ [answer EXCEPT ![c] = "rejected"][r] = "rejected"
        /\ [answer EXCEPT ![c] = "rejected"][q] = "rejected"
    BY <1>2, <1>4, CancelDrains
  <2> QED BY <1>1, <2>1
<1>5. ASSUME NEW c \in Requests, NEW kind \in Kinds, Release(c, kind) PROVE FALSE
  BY <1>2, <1>5, ReleaseDrains
<1>6. ASSUME NEW g \in Ledgers, CancelQueued(g) PROVE leases' = leases
  BY <1>6 DEF CancelQueued
<1> QED BY <1>3, <1>4, <1>5, <1>6, NoDrain

(* Readers wait only for capacity: whatever is released, cancelled or cut off, *)
(* the reader at the front of each queue does not fit beside the slots out, so *)
(* nobody waits for a drain that does not come; and queues keep their bound.   *)
THEOREM NobodyWaitsForNothing == Spec => [](NoIdleCapacity /\ TypeOK)
<1>1. IInv /\ QueuesOK => NoIdleCapacity /\ TypeOK
  <2> SUFFICES ASSUME IInv, QueuesOK PROVE NoIdleCapacity /\ TypeOK
    OBVIOUS
  <2>1. ASSUME NEW g \in Ledgers
        PROVE  /\ ledgers[g].active \in 0..MaxSubscriptions
               /\ ledgers[g].history \in 0..MaxHistory
               /\ ledgers[g].queue \in Seq(Requests)
               /\ Len(ledgers[g].queue) <= MaxQueued
    BY CapacityAssumption DEF IInv, LedgerOK, LedgerShape, QueuesOK
  <2> QED BY <2>1 DEF IInv, RequestsOK, QueuesOK, TypeOK
<1>2. IInv /\ QueuesOK /\ [Next]_vars => QueuesOK'
  BY NextQueues
<1> QED BY <1>1, <1>2, InitQueues, Invariance, PTL DEF Spec

(* First come, first served: no reader who is behind, or arrives now, is       *)
(* granted while one ahead still waits; and a step that turns several waiting  *)
(* readers away hands out no slot (acquire, drain, cancelQueued).              *)
THEOREM ServedInTurn == Spec => [][InTurnStep /\ DisconnectAdmitsNobodyStep]_vars
<1>1. IInv /\ [Next]_vars => InTurnStep /\ DisconnectAdmitsNobodyStep
  BY InTurn, Disconnect
<1> QED BY <1>1, Invariance, PTL DEF Spec
================================================================================
