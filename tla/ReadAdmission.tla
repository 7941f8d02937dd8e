----------------------------- MODULE ReadAdmission -----------------------------
(***************************************************************************)
(* relay/helpers/read-admission.js: the FIFO that rations the REQs of one   *)
(* pooled relay connection.  A read asks for a history slot, a live slot or *)
(* both at once, waits its turn, and gives the slots back one by one.  The  *)
(* relay's state object is made on demand and dropped when it is idle, and  *)
(* the closures of a job and of its leases keep the object they were made   *)
(* with: each object is a ledger here.                                      *)
(*                                                                         *)
(* JavaScript runs a method, with the drain it ends in, to completion: one  *)
(* method, timer or abort listener is one action.                           *)
(***************************************************************************)
EXTENDS Integers, FiniteSets, Sequences, SequencesExt

CONSTANTS
    Requests,      \* calls of acquire
    Wants,         \* the slots each asks for
    MaxSubscriptions, MaxHistory, MaxQueued, \* the three capacities
    NoLedger,
    MaxLedgers     \* bound: state objects made

Kinds == {"history", "live"}
Ledgers == 1..MaxLedgers

ASSUME RequestsAssumption ==
    /\ IsFiniteSet(Requests)
    /\ Wants \in [Requests -> SUBSET Kinds]
ASSUME CapacityAssumption ==
    MaxSubscriptions \in Nat \ {0} /\ MaxHistory \in Nat \ {0} /\ MaxQueued \in Nat \ {0}
ASSUME LedgersAssumption == MaxLedgers \in Nat /\ NoLedger \notin Ledgers

VARIABLES
    ledgers,  \* the state objects made so far
    current,  \* states.get(relay)
    ledgerOf, \* the object each request's closures refer to
    answer,   \* what the promise of each request says
    leases    \* the slots handed out and not released: <<request, kind>>

vars == <<ledgers, current, ledgerOf, answer, leases>>

--------------------------------------------------------------------------------
Weight(r) == Cardinality(Wants[r])
Slots(rs) == {s \in rs \X Kinds : s[2] \in Wants[s[1]]}
HistorySlots(rs) == {s \in Slots(rs) : s[2] = "history"}

EmptyLedger == [active |-> 0, history |-> 0, queue |-> <<>>]

(* Requests at the front of a queue. *)
First(queue, n) == {queue[i] : i \in 1..n}

(* drain's test of the n-th queued job, the ones before it having been granted. *)
Fits(ledger, n) ==
    LET before == First(ledger.queue, n - 1)
        r == ledger.queue[n]
    IN  /\ ledger.active + Cardinality(Slots(before)) + Weight(r) <= MaxSubscriptions
        /\ "history" \in Wants[r] =>
              ledger.history + Cardinality(HistorySlots(before)) < MaxHistory

(* How many jobs drain grants: it stops at the first that does not fit. *)
Admissible(ledger) ==
    CHOOSE n \in 0..Len(ledger.queue) :
        /\ \A i \in 1..n : Fits(ledger, i)
        /\ n < Len(ledger.queue) => ~Fits(ledger, n + 1)

Drained(ledger) ==
    LET first == First(ledger.queue, Admissible(ledger))
    IN  [active |-> ledger.active + Cardinality(Slots(first)),
         history |-> ledger.history + Cardinality(HistorySlots(first)),
         queue |-> SubSeq(ledger.queue, Admissible(ledger) + 1, Len(ledger.queue))]

Idle(ledger) == ledger.active = 0 /\ ledger.queue = <<>>

(* drain: grant what fits, answer the callers, drop an idle state. *)
Drain(g, ledger, answered, held) ==
    LET first == First(ledger.queue, Admissible(ledger))
    IN  /\ ledgers' = [ledgers EXCEPT ![g] = Drained(ledger)]
        /\ answer' = [r \in Requests |-> IF r \in first THEN "granted" ELSE answered[r]]
        /\ leases' = held \cup Slots(first)

DropIfIdle(g, at) == current' = IF Idle(ledgers'[g]) /\ at = g THEN NoLedger ELSE at

--------------------------------------------------------------------------------
(* acquire, refused at once: a read of nothing, or one no capacity could hold. *)
AcquireTooWide(r) ==
    /\ answer[r] = "none"
    /\ Weight(r) \notin 1..MaxSubscriptions
    /\ answer' = [answer EXCEPT ![r] = "rejected"]
    /\ UNCHANGED <<ledgers, current, ledgerOf, leases>>

(* acquire on a full queue. *)
AcquireRefused(r) ==
    /\ answer[r] = "none"
    /\ Weight(r) \in 1..MaxSubscriptions
    /\ current # NoLedger
    /\ Len(ledgers[current].queue) >= MaxQueued
    /\ answer' = [answer EXCEPT ![r] = "rejected"]
    /\ UNCHANGED <<ledgers, current, ledgerOf, leases>>

(* Mutant of Enqueue: a read of history alone jumps the queue. *)
EnqueueHistoryFirst(queue, r) ==
    IF Wants[r] = {"history"} THEN <<r>> \o queue ELSE Append(queue, r)

Enqueue(queue, r) == Append(queue, r)

EnqueueOn(g, r) ==
    /\ Len(ledgers[g].queue) < MaxQueued
    /\ ledgerOf' = [ledgerOf EXCEPT ![r] = g]
    /\ Drain(g, [ledgers[g] EXCEPT !.queue = Enqueue(ledgers[g].queue, r)],
             [answer EXCEPT ![r] = "waiting"], leases)
    /\ DropIfIdle(g, g)

NewLedger == 1 + Cardinality({ledgerOf[r] : r \in Requests} \ {NoLedger})

(* acquire: on the relay's state, or on a new one. *)
Acquire(r) ==
    /\ answer[r] = "none"
    /\ Weight(r) \in 1..MaxSubscriptions
    /\ \/ current # NoLedger /\ EnqueueOn(current, r)
       \/ current = NoLedger /\ NewLedger \in Ledgers /\ EnqueueOn(NewLedger, r)

(* Mutant of Released: the history count is left alone. *)
ReleasedActiveOnly(ledger, kind) ==
    [ledger EXCEPT !.active = @ - 1,
                   !.history = IF kind = "live" THEN @ - 1 ELSE @]

Released(ledger, kind) ==
    [ledger EXCEPT !.active = @ - 1,
                   !.history = IF kind = "history" THEN @ - 1 ELSE @]

(* lease.release(): the first call gives the slot back, later ones do nothing. *)
Release(r, kind) ==
    LET g == ledgerOf[r]
    IN  /\ <<r, kind>> \in leases
        /\ Drain(g, Released(ledgers[g], kind), answer, leases \ {<<r, kind>>})
        /\ DropIfIdle(g, current)
        /\ UNCHANGED ledgerOf

Waiting(r) == answer[r] = "waiting"

(* queue.splice(queue.indexOf(job), 1) *)
Splice(queue, r) ==
    LET index == CHOOSE i \in DOMAIN queue : queue[i] = r
    IN  [i \in 1..(Len(queue) - 1) |-> queue[IF i < index THEN i ELSE i + 1]]

(* The signal aborts or the queue timeout fires while the job waits; once the  *)
(* job has left the queue both are no-ops.                                     *)
Cancel(r) ==
    LET g == ledgerOf[r]
    IN  /\ Waiting(r)
        /\ Drain(g, [ledgers[g] EXCEPT !.queue = Splice(@, r)],
                 [answer EXCEPT ![r] = "rejected"], leases)
        /\ DropIfIdle(g, current)
        /\ UNCHANGED ledgerOf

(* Mutant of CancelQueued: a job no longer in the queue cannot be rejected. *)
CancelQueuedForgets(g) ==
    /\ current = g
    /\ ledgers[g].queue # <<>>
    /\ ledgers' = [ledgers EXCEPT ![g].queue = <<>>]
    /\ DropIfIdle(g, g)
    /\ UNCHANGED <<ledgerOf, answer, leases>>

(* cancelQueued, when the pool disconnects: the whole queue is taken out before *)
(* the first job is rejected, so no drain in between finds a job to grant.     *)
CancelQueued(g) ==
    /\ current = g
    /\ ledgers[g].queue # <<>>
    /\ ledgers' = [ledgers EXCEPT ![g].queue = <<>>]
    /\ answer' = [r \in Requests |-> IF r \in Range(ledgers[g].queue)
                                     THEN "rejected" ELSE answer[r]]
    /\ DropIfIdle(g, g)
    /\ UNCHANGED <<ledgerOf, leases>>

--------------------------------------------------------------------------------
Init ==
    /\ ledgers = [g \in Ledgers |-> EmptyLedger]
    /\ current = NoLedger
    /\ ledgerOf = [r \in Requests |-> NoLedger]
    /\ answer = [r \in Requests |-> "none"]
    /\ leases = {}

Next ==
    \/ \E r \in Requests : AcquireTooWide(r) \/ AcquireRefused(r) \/ Acquire(r)
    \/ \E r \in Requests, kind \in Kinds : Release(r, kind)
    \/ \E r \in Requests : Cancel(r)
    \/ \E g \in Ledgers : CancelQueued(g)

Spec == Init /\ [][Next]_vars

--------------------------------------------------------------------------------
(* Properties. *)

TypeOK ==
    /\ \A g \in Ledgers :
          /\ ledgers[g].active \in 0..MaxSubscriptions
          /\ ledgers[g].history \in 0..MaxHistory
          /\ ledgers[g].queue \in Seq(Requests)
          /\ Len(ledgers[g].queue) <= MaxQueued
    /\ current \in Ledgers \cup {NoLedger}
    /\ ledgerOf \in [Requests -> Ledgers \cup {NoLedger}]
    /\ answer \in [Requests -> {"none", "waiting", "granted", "rejected"}]
    /\ leases \subseteq Slots(Requests)

(* The slots out on one relay never exceed its limits, over all the state      *)
(* objects the relay has had (drain and the deletion of an idle state).       *)
WithinCapacity ==
    /\ Cardinality(leases) <= MaxSubscriptions
    /\ Cardinality({s \in leases : s[2] = "history"}) <= MaxHistory

(* Each state object counts exactly the slots out on it.  A count left too     *)
(* high would starve the relay for good.                                      *)
LedgerExact ==
    \A g \in Ledgers :
        /\ ledgers[g].active = Cardinality({s \in leases : ledgerOf[s[1]] = g})
        /\ ledgers[g].history =
              Cardinality({s \in leases : ledgerOf[s[1]] = g /\ s[2] = "history"})

(* A reader whose promise is pending waits, once, in the queue the relay uses  *)
(* now: releases, aborts and disconnects never strand it on a dropped state.  *)
NobodyForgotten ==
    \A r \in Requests :
        Waiting(r) <=>
            /\ current # NoLedger
            /\ Cardinality({i \in DOMAIN ledgers[current].queue :
                              ledgers[current].queue[i] = r}) = 1

(* Readers wait only for capacity: the first in the queue really does not fit. *)
NoIdleCapacity ==
    \A g \in Ledgers : ledgers[g].queue # <<>> => ~Fits(ledgers[g], 1)

Precedes(queue, r, q) ==
    \E i, j \in DOMAIN queue : i < j /\ queue[i] = r /\ queue[j] = q

(* First come, first served: no reader that is behind, or arrives now, is      *)
(* granted while one ahead still waits, nor put ahead of it (acquire, drain).  *)
InTurnStep ==
    \A g \in Ledgers, r, q \in Requests :
       /\ r \in Range(ledgers[g].queue)
       /\ answer[q] = "none" \/ Precedes(ledgers[g].queue, r, q)
       /\ answer'[r] = "waiting"
       => /\ answer'[q] # "granted"
          /\ answer'[q] = "waiting" => Precedes(ledgers'[g].queue, r, q)

(* "cancelling one entry must not admit another" (read-admission.js): a step   *)
(* that turns several waiting readers away hands out no slot.                  *)
DisconnectAdmitsNobodyStep ==
    \A r, q \in Requests :
       /\ r # q /\ Waiting(r) /\ Waiting(q)
       /\ answer'[r] = "rejected" /\ answer'[q] = "rejected"
       => leases' = leases
================================================================================
